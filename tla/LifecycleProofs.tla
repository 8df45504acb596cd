-------------------------- MODULE LifecycleProofs --------------------------
(***************************************************************************)
(* Proof that the service, with one client at a time, implements           *)
(* RecordLifecycle: ApiSpec => ImplementsLifecycle.                        *)
(*                                                                         *)
(* A record's life is read off the tables by sorting its versions by their *)
(* times.  That an append makes a life longer at its end, that a fix seals *)
(* it under its last payload, and that nothing else changes it is not      *)
(* inductive: the INSERT writes a row that was stamped, and the transition *)
(* a fossil that was computed, several awaits earlier.  LifeInv carries    *)
(* that across them.  Ids and times of stored versions go together         *)
(* (TablesInOrder), so the trailing version is the youngest; a row to be   *)
(* written is younger than all (RowsAreNext); what a find or a transition  *)
(* has read is still so (ReadsAreCurrent, SealsTrailing); and a fix on its *)
(* way to the transition has checked what is trailing (FixesTrailing).     *)
(*                                                                         *)
(* With two clients nothing keeps what a call has read, or is about to     *)
(* write, so, and the refinement is false: see the runs late_put and       *)
(* swapped_payload.                                                        *)
(***************************************************************************)
EXTENDS RecordsApiProofs

-----------------------------------------------------------------------------
(* Versions in the order of their ids.                                     *)

(* A set of versions that can be put in order.                             *)
Orderable(V) ==
  /\ IsFiniteSet(V)
  /\ \A v \in V : v.vid \in Nat
  /\ \A v, w \in V : v.vid = w.vid => v = w

(* The one with n - 1 older ones.                                          *)
Place(V, n) == {u \in V : Cardinality(Older(V, u)) = n - 1}

LEMMA OlderOnes ==
  ASSUME NEW V, Orderable(V), NEW v \in V
  PROVE  /\ IsFiniteSet(Older(V, v)) /\ Cardinality(Older(V, v)) \in Nat
         /\ Cardinality(Older(V, v)) < Cardinality(V) /\ Cardinality(V) \in Nat
<1>1. Older(V, v) \in SUBSET V /\ v \notin Older(V, v) BY DEF Older, Orderable
<1>2. IsFiniteSet(Older(V, v)) /\ Cardinality(Older(V, v)) <= Cardinality(V)
      /\ Cardinality(Older(V, v)) # Cardinality(V)
  BY <1>1, FS_Subset DEF Orderable
<1>3. Cardinality(Older(V, v)) \in Nat /\ Cardinality(V) \in Nat
  BY <1>2, FS_CardinalityType DEF Orderable
<1>4. QED BY <1>2, <1>3

(* No two versions have the same number of older ones ...                  *)
LEMMA RanksDiffer ==
  ASSUME NEW V, Orderable(V), NEW v \in V, NEW w \in V, v.vid < w.vid
  PROVE  Cardinality(Older(V, v)) # Cardinality(Older(V, w))
<1>1. Older(V, v) \in SUBSET Older(V, w) BY DEF Older, Orderable
<1>2. v \in Older(V, w) /\ v \notin Older(V, v) BY DEF Older, Orderable
<1>3. QED BY <1>1, <1>2, OlderOnes, FS_Subset

(* ... so that every place is taken.                                       *)
LEMMA PlacesAreTaken ==
  ASSUME NEW V, Orderable(V), NEW n \in 1 .. Cardinality(V)
  PROVE  Place(V, n) # {}
<1> DEFINE N == Cardinality(V)
           T == 0 .. N - 1
           rank == [v \in V |-> Cardinality(Older(V, v))]
<1>1. N \in Nat /\ N >= 1 BY FS_CardinalityType DEF Orderable
<1>2. IsFiniteSet(T) /\ Cardinality(T) = N
  <2>1. 0 \in Int /\ N - 1 \in Int /\ ~ (0 > N - 1) BY <1>1
  <2>2. QED BY <1>1, <2>1, FS_Interval
<1>3. rank \in [V -> T] BY <1>1, OlderOnes
<1>4. \A v, w \in V : rank[v] = rank[w] => v = w
  BY RanksDiffer DEF Orderable
<1>5. rank \in Injection(V, T) BY <1>3, <1>4 DEF Injection, IsInjective
<1>6. rank \in Surjection(V, T) BY <1>2, <1>5, FS_Injection
<1>7. n - 1 \in T BY <1>1
<1>8. \E v \in V : rank[v] = n - 1 BY <1>6, <1>7 DEF Surjection
<1>9. QED BY <1>8 DEF Place

LEMMA InOrderPlaces ==
  ASSUME NEW V
  PROVE  InOrder(V) = [n \in 1 .. Cardinality(V) |-> CHOOSE v \in Place(V, n) : TRUE]
BY DEF InOrder, Place

(* What stands in the order of V is in V.                                  *)
LEMMA OrderedAreMembers ==
  ASSUME NEW V, Orderable(V), NEW n \in 1 .. Cardinality(V)
  PROVE  InOrder(V)[n] \in V
<1>1. Place(V, n) # {} BY PlacesAreTaken
<1>2. (CHOOSE v \in Place(V, n) : TRUE) \in Place(V, n) BY <1>1
<1>3. InOrder(V)[n] \in Place(V, n) BY <1>2, InOrderPlaces
<1>4. QED BY <1>3 DEF Place

(* A version younger than all others comes last, and moves none of them.   *)
LEMMA YoungestComesLast ==
  ASSUME NEW U, Orderable(U), NEW t, t.vid \in Nat, \A u \in U : u.vid < t.vid
  PROVE  /\ Orderable(U \cup {t})
         /\ Cardinality(U) \in Nat /\ Cardinality(U \cup {t}) = Cardinality(U) + 1
         /\ \A n \in 1 .. Cardinality(U) : InOrder(U \cup {t})[n] = InOrder(U)[n]
         /\ InOrder(U \cup {t})[Cardinality(U) + 1] = t
<1> DEFINE V == U \cup {t}
           N == Cardinality(U)
<1>1. t \notin U /\ ~ (t.vid < t.vid) /\ \A u \in U : ~ (t.vid < u.vid)
  BY DEF Orderable
<1>2. N \in Nat /\ IsFiniteSet(V) /\ Cardinality(V) = N + 1
  BY <1>1, FS_AddElement, FS_CardinalityType DEF Orderable
<1>3. Orderable(V) BY <1>1, <1>2 DEF Orderable
<1>4. Older(V, t) = U /\ \A u \in U : Older(V, u) = Older(U, u) BY <1>1 DEF Older
<1>5. \A n \in 1 .. N : Place(V, n) = Place(U, n)
  <2> TAKE n \in 1 .. N
  <2>1. Cardinality(Older(V, t)) # n - 1 BY <1>2, <1>4
  <2>2. QED BY <1>4, <2>1 DEF Place
<1>6. Place(V, N + 1) = {t}
  <2>1. Cardinality(Older(V, t)) = (N + 1) - 1 BY <1>2, <1>4
  <2>2. ASSUME NEW u \in U PROVE Cardinality(Older(V, u)) # (N + 1) - 1
    <3>1. Cardinality(Older(U, u)) \in Nat /\ Cardinality(Older(U, u)) < N BY OlderOnes
    <3>2. Older(V, u) = Older(U, u) BY <1>4
    <3> HIDE DEF V, N
    <3>3. QED BY <1>2, <3>1, <3>2
  <2>3. QED BY <2>1, <2>2 DEF Place
<1> HIDE DEF V, N
<1>7. \A n \in 1 .. N : n \in 1 .. Cardinality(V) BY <1>2
<1>8. N + 1 \in 1 .. Cardinality(V) BY <1>2
<1>9. ASSUME NEW n \in 1 .. N PROVE InOrder(V)[n] = InOrder(U)[n]
  <2>1. InOrder(V)[n] = CHOOSE v \in Place(V, n) : TRUE BY <1>7, InOrderPlaces
  <2>2. InOrder(U)[n] = CHOOSE v \in Place(U, n) : TRUE BY InOrderPlaces DEF N
  <2>3. QED BY <1>5, <2>1, <2>2
<1>10. InOrder(V)[N + 1] = t
  <2>1. InOrder(V)[N + 1] = CHOOSE v \in Place(V, N + 1) : TRUE BY <1>8, InOrderPlaces
  <2>2. QED BY <1>6, <2>1
<1>11. QED BY <1>2, <1>3, <1>9, <1>10 DEF V, N

(* The payloads of V in that order.                                        *)
Contents(V) == [j \in 1 .. Cardinality(V) |-> InOrder(V)[j].body.of]

LEMMA ContentsGrow ==
  ASSUME NEW U, Orderable(U), NEW t, t.vid \in Nat, \A u \in U : u.vid < t.vid
  PROVE  /\ Contents(U \cup {t}) = Append(Contents(U), t.body.of)
         /\ Len(Contents(U \cup {t})) = Cardinality(U) + 1
         /\ Contents(U \cup {t})[Cardinality(U) + 1] = t.body.of
<1> DEFINE V == U \cup {t}
           N == Cardinality(U)
           S == {Contents(U)[j] : j \in 1 .. N} \cup {t.body.of}
<1>1. /\ N \in Nat /\ Cardinality(V) = N + 1
      /\ \A n \in 1 .. N : InOrder(V)[n] = InOrder(U)[n]
      /\ InOrder(V)[N + 1] = t
  <2>1. PICK W : W = U \cup {t} OBVIOUS
  <2>2. /\ N \in Nat /\ Cardinality(W) = N + 1
        /\ \A n \in 1 .. N : InOrder(W)[n] = InOrder(U)[n]
        /\ InOrder(W)[N + 1] = t
    BY <2>1, YoungestComesLast
  <2>3. QED BY <2>1, <2>2
<1> HIDE DEF V, N
<1>2. Contents(V) = [j \in 1 .. N + 1 |-> InOrder(V)[j].body.of] BY <1>1 DEF Contents
<1>3. Contents(U) = [j \in 1 .. N |-> InOrder(U)[j].body.of] BY DEF Contents, N
<1>4. \A j \in 1 .. N : Contents(V)[j] = Contents(U)[j] BY <1>1, <1>2, <1>3
<1>5. Contents(V)[N + 1] = t.body.of BY <1>1, <1>2
<1>6. DOMAIN Contents(U) = 1 .. N /\ DOMAIN Contents(V) = 1 .. N + 1 BY <1>2, <1>3
<1>7. Contents(U) \in [1 .. N -> S] BY <1>3
<1>8. Contents(V) \in [1 .. N + 1 -> S]
  <2>1. \A j \in 1 .. N + 1 : Contents(V)[j] \in S BY <1>1, <1>4, <1>5
  <2>2. QED BY <1>2, <2>1
<1>9. t.body.of \in S OBVIOUS
<1> HIDE DEF S
<1>10. Contents(U) \in Seq(S) /\ Contents(V) \in Seq(S) BY <1>1, <1>7, <1>8
<1>11. Len(Contents(U)) = N /\ Len(Contents(V)) = N + 1 BY <1>1, <1>6, <1>10
<1>12. Contents(V) = Append(Contents(U), t.body.of) BY <1>1, <1>4, <1>5, <1>9, <1>10, <1>11
<1>13. QED BY <1>5, <1>11, <1>12 DEF V, N

LEMMA ContentsBegin ==
  ASSUME NEW t, t.vid \in Nat
  PROVE  Contents({t}) = <<t.body.of>>
<1>1. Orderable({}) BY FS_EmptySet DEF Orderable
<1>2. Cardinality({}) = 0 BY FS_EmptySet
<1>3. Contents({t})[1] = t.body.of
  <2>1. PICK U : U = {} OBVIOUS
  <2>2. Contents(U \cup {t})[Cardinality(U) + 1] = t.body.of
    BY <1>1, <2>1, ContentsGrow
  <2>3. U \cup {t} = {t} /\ Cardinality(U) + 1 = 1 BY <1>2, <2>1
  <2>4. QED BY <2>2, <2>3
<1>4. Cardinality({t}) = 1 BY FS_Singleton
<1>5. Contents({t}) = [j \in 1 .. 1 |-> InOrder({t})[j].body.of] BY <1>4 DEF Contents
<1>6. Contents({t}) = [j \in 1 .. 1 |-> t.body.of] BY <1>3, <1>5
<1>7. QED BY <1>6

-----------------------------------------------------------------------------
(* The inductive invariant.                                                *)

Trailing(V, i, t) == t \in V /\ t.rid = i /\ \A v \in V : v.rid = i => v.vid <= t.vid

(* The record can be sealed under h, which its trailing payload has.       *)
Ready(R, V, i, h) ==
  R[i].state = "mutable" /\ \E t \in V : Trailing(V, i, t) /\ t.body.of = h

(* Ids and times of the stored versions go together.                       *)
TablesInOrder ==
  /\ \A i \in Ids : record[i].state \in {"absent", "mutable", "fixed"}
  /\ \A v \in version : record[v.rid].state # "absent" /\ v.at <= clock
  /\ \A v, w \in version : /\ v.vid = w.vid => v = w
                           /\ v.vid < w.vid => v.at < w.at

(* What is about to be written is later than all that is stored ...        *)
RowsAreNext(c, R, V, now) ==
  /\ c.pc \in {"exists", "create", "append"} =>
       /\ \A w, x \in c.rows : w = x
       /\ \A w \in c.rows : /\ w.rid = c.id /\ w.at <= now
                            /\ \A v \in V : v.vid < w.vid /\ v.at < w.at
  /\ c.pc = "append" => R[c.id].state = "mutable"

(* ... what was read is still so ...                                       *)
ReadsAreCurrent(c, R, V) ==
  /\ c.pc \in {"versions", "creator"} \/ c.ret = "found" => c.row = R[c.id]
  /\ c.pc = "creator" \/ c.ret = "found" => Trailing(V, c.id, c.chain[Len(c.chain)])

(* ... and what is to be sealed is the trailing version, which was hashed. *)
SealsTrailing(c, R, V) ==
  /\ c.op = "transition_to_fixed" /\ c.pc # "idle" => Ready(R, V, c.id, c.hash)
  /\ c.pc = "seal" => \A w \in c.rows : \A v \in V : v.rid = c.id => v.vid <= w.vid

CallInOrder(c, R, V, now) ==
  RowsAreNext(c, R, V, now) /\ ReadsAreCurrent(c, R, V) /\ SealsTrailing(c, R, V)

(* So it is in the handler of a fix, on its way to the transition.         *)
FixesTrailing(r, R, V) ==
  /\ r.pc \in {"verify", "copy"} => Ready(R, V, r.id, r.body.of)
  /\ r.pc = "store" => Ready(R, V, r.id, r.hash)

LifeInv ==
  /\ TablesInOrder
  /\ \A p \in Procs : /\ CallInOrder(call[p], record, version, clock)
                      /\ FixesTrailing(req[p], record, version)

(* Where the theorem speaks: one client at a time, a clock that ticks      *)
(* between any two readings, and no bodies at keys that others may write.  *)
Alone == \A p, q \in Procs : p = q
Solitary == Alone /\ 0 \notin Ticks /\ \A b \in Bodies : b.form # "upload"

-----------------------------------------------------------------------------
(* It is inductive.                                                        *)

LEMMA QueryReadsClock ==
  ASSUME NEW p \in Procs, CallServes(call[p]), Query(p)
  PROVE  UNCHANGED clock \/ \E now \in 0 .. MaxClock : Stamp(now)
<1>1. CASE ReadRow(p) BY <1>1 DEF ReadRow
<1>2. CASE ReadVersions(p) BY <1>2 DEF ReadVersions
<1>3. CASE ReadCreator(p)
  <2>1. CASE PrepareSeal(p) BY <2>1 DEF PrepareSeal
  <2>2. QED BY <1>3, <2>1 DEF ReadCreator
<1>4. CASE CheckExists(p) BY <1>4 DEF CheckExists
<1>5. CASE CommitCreate(p) BY <1>5 DEF CommitCreate
<1>6. CASE CommitAppend(p) BY <1>6 DEF CommitAppend
<1>7. CASE CommitSeal(p) BY <1>7 DEF CommitSeal
<1>8. QED BY <1>1, <1>2, <1>3, <1>4, <1>5, <1>6, <1>7, ServiceQueries

LEMMA ClockAdvances ==
  ASSUME ApiInv, NEW p \in Procs, OtherStep(p) \/ SealBegins(p)
  PROVE  clock \in Nat /\ clock' \in Nat /\ clock <= clock'
<1>1. clock \in Nat BY ClockAssumption DEF ApiInv, RepoInv, Inv, RepoOK
<1>2. clock' \in Nat
  <2>1. RepoInv' BY OtherStepsServe, ServiceStepKeepsRepo, WhatIsLearned
  <2>2. QED BY <2>1, ClockAssumption DEF RepoInv, Inv, RepoOK
<1>3. ASSUME UNCHANGED clock \/ \E now : Stamp(now)
      PROVE  clock \in Nat /\ clock' \in Nat /\ clock <= clock'
  <2>1. clock' = clock \/ clock' - clock \in Nat BY <1>3, ClockAssumption DEF Stamp
  <2>2. \A m, n \in Nat : n = m \/ n - m \in Nat => m <= n OBVIOUS
  <2>3. QED BY <1>1, <1>2, <2>1, <2>2
<1>4. CASE Query(p) BY <1>3, <1>4, QueryReadsClock, WhatIsLearned
<1>5. CASE Fail(p) BY <1>3, <1>5 DEF Fail
<1>6. CASE Drops(p) BY <1>3, <1>6 DEF Drops
<1>7. CASE \E i \in Ids : StartFind(p, i) BY <1>3, <1>7 DEF StartFind
<1>8. CASE \E i \in Ids, b \in Bodies : StartAddVersion(p, i, b)
  BY <1>3, <1>8 DEF StartAddVersion
<1>9. CASE \E i \in Ids, b \in Bodies, c \in Creators : Posts(p, i, b, c)
  BY <1>3, <1>9 DEF Posts, StartSave
<1>10. CASE SealBegins(p) BY <1>3, <1>10 DEF SealBegins, BeginSeal, StartTransition
<1>11. QED
  BY <1>4, <1>5, <1>6, <1>7, <1>8, <1>9, <1>10 DEF OtherStep

(* A read of a chain ends with its trailing version.                       *)
LEMMA ReadsEndTrailing ==
  ASSUME Inv, TablesInOrder, NEW i \in Ids, Exists(i), NEW s \in OrderedReads(i)
  PROVE  Trailing(version, i, s[Len(s)])
<1> DEFINE n == Cardinality(VersionsOf(i))
<1>1. TablesOK /\ version \subseteq VersionRow /\ VersionsOf(i) # {}
  BY DEF Inv, RepoOK, TablesOK, TablesTypeOK, EveryRecordHasAVersion
<1>2. IsFiniteSet(VersionsOf(i)) BY <1>1, FS_Subset DEF TablesOK, VersionsOf
<1>3. n \in Nat /\ n # 0 BY <1>1, <1>2, FS_CardinalityType, FS_EmptySet
<1>4. /\ s \in [1 .. n -> VersionsOf(i)]
      /\ \A j, k \in 1 .. n : j < k => s[j].at <= s[k].at
  BY DEF OrderedReads
<1>5. s \in Seq(VersionRow) BY <1>1, OrderedReadIsChain
<1> HIDE DEF n
<1>6. Len(s) = n /\ n \in 1 .. n BY <1>3, <1>4, <1>5
<1>7. s[n] \in version /\ s[n].rid = i BY <1>4, <1>6 DEF VersionsOf
<1>8. ASSUME NEW v \in version, v.rid = i PROVE v.vid <= s[n].vid
  <2>1. PICK j \in 1 .. n : s[j] = v
    <3>1. v \in VersionsOf(i) BY <1>8 DEF VersionsOf
    <3>2. \E j \in DOMAIN s : s[j] = v BY <1>1, <3>1, OrderedReadIsComplete
    <3>3. DOMAIN s = 1 .. n BY <1>4
    <3>4. QED BY <3>2, <3>3
  <2>2. v.vid \in Nat /\ s[n].vid \in Nat /\ v.at \in Nat /\ s[n].at \in Nat
    BY <1>1, <1>7, VidAssumption DEF VersionRow, Vids
  <2>3. j = n \/ j < n BY <1>3
  <2>4. v.at <= s[n].at BY <1>4, <1>6, <2>1, <2>2, <2>3
  <2>5. s[n].vid < v.vid => s[n].at < v.at BY <1>7 DEF TablesInOrder
  <2>6. QED BY <2>2, <2>4, <2>5
<1>9. QED BY <1>6, <1>7, <1>8 DEF Trailing

(* What a find has found can be sealed, unless it is Fixed.                *)
LEMMA FoundIsReady ==
  ASSUME ApiInv, LifeInv, NEW p \in Procs, call[p].ret = "found", call[p].row.state # "fixed"
  PROVE  Ready(record, version, call[p].id, Last(call[p].chain).body.of)
<1> DEFINE last == call[p].chain[Len(call[p].chain)]
<1>1. call[p].row = record[call[p].id] /\ Trailing(version, call[p].id, last)
  BY DEF LifeInv, CallInOrder, ReadsAreCurrent
<1>2. call[p].id \in Ids BY WhatIsLearned DEF RepoInv, Inv, RepoOK, CallsOK, Call
<1>3. last \in version /\ last.rid = call[p].id BY <1>1 DEF Trailing
<1> HIDE DEF last
<1>4. record[call[p].id].state = "mutable"
  BY <1>1, <1>2, <1>3 DEF LifeInv, TablesInOrder
<1>5. Ready(record, version, call[p].id, last.body.of) BY <1>1, <1>3, <1>4 DEF Ready
<1>6. QED BY <1>5 DEF last, Last

(* While the tables stay, a fix takes what it has found to its transition. *)
LEMMA FixesStayTrailing ==
  ASSUME ApiInv, NamesInv, LifeInv, [ApiNext]_apiVars, UNCHANGED <<record, version>>,
         NEW p \in Procs
  PROVE  FixesTrailing(req'[p], record', version')
<1>1. /\ req[p] \in Request /\ RequestOK(req[p]) /\ CopyOK(req[p])
      /\ FixesTrailing(req[p], record, version)
  BY WhatIsLearned DEF NamesInv, LifeInv
<1>2. CASE ~ AtStore(req'[p]) BY <1>2 DEF AtStore, FixesTrailing
<1>3. CASE req'[p] = req[p] BY <1>1, <1>3
<1>4. CASE req[p].pc = "find" /\ call[p].ret = "found" /\ call[p].row.state # "fixed" /\ Fetches(p)
  <2> DEFINE b == Last(call[p].chain).body
             r == [req[p] EXCEPT !.pc = "verify", !.body = b]
  <2>1. call[p].id = req[p].id BY <1>4, WhatIsLearned DEF Serves
  <2>2. Ready(record, version, req[p].id, b.of) BY <1>4, <2>1, FoundIsReady
  <2> HIDE DEF b
  <2>3. r.pc = "verify" /\ r.body = b /\ r.id = req[p].id BY <1>1, RequestFields
  <2> HIDE DEF r
  <2>4. FixesTrailing(r, record, version) BY <2>2, <2>3 DEF FixesTrailing
  <2>5. QED BY <1>4, <2>4 DEF Fetches, b, r
<1>5. CASE req[p].pc = "verify" /\ Compares(p)
  <2> DEFINE r == [req[p] EXCEPT !.pc = "copy"]
  <2>1. r.pc = "copy" /\ r.body = req[p].body /\ r.id = req[p].id BY <1>1, RequestFields
  <2> HIDE DEF r
  <2>2. FixesTrailing(r, record, version) BY <1>1, <1>5, <2>1 DEF FixesTrailing
  <2>3. QED BY <1>5, <2>2 DEF Compares, r
<1>6. CASE req[p].pc = "copy" /\ Copies(p)
  <2> DEFINE x == Get(req[p].body)
             r == [req[p] EXCEPT !.pc = "store", !.bytes = x]
  <2> HIDE DEF x
  <2>1. r.pc = "store" /\ r.hash = req[p].hash /\ r.id = req[p].id BY <1>1, RequestFields
  <2> HIDE DEF r
  <2>2. FixesTrailing(r, record, version)
    BY <1>1, <1>6, <2>1 DEF FixesTrailing, CopyOK
  <2>3. QED BY <1>6, <2>2 DEF Copies, r, x
<1>7. QED BY <1>2, <1>3, <1>4, <1>5, <1>6, RequestsMove DEF WayToStore

(* A step of the only client.                                              *)
LEMMA OnlyCallInOrder ==
  ASSUME Alone, ApiInv, NEW p \in Procs, NEW c, Become(p, c),
         CallInOrder(c, record', version', clock'), TablesInOrder',
         FixesTrailing(req'[p], record', version')
  PROVE  LifeInv'
<1>1. call'[p] = c BY DEF ApiInv, RepoInv, Inv, RepoOK, CallsOK, Become
<1>2. ASSUME NEW q \in Procs
      PROVE  /\ CallInOrder(call'[q], record', version', clock')
             /\ FixesTrailing(req'[q], record', version')
  <2>1. q = p BY DEF Alone
  <2>2. QED BY <1>1, <2>1
<1>3. QED BY <1>2 DEF LifeInv

(* If it leaves the tables alone, they stay in order.                      *)
LEMMA QuietStepInOrder ==
  ASSUME Alone, ApiInv, NamesInv, LifeInv, [ApiNext]_apiVars, UNCHANGED <<record, version>>,
         NEW p \in Procs, OtherStep(p) \/ SealBegins(p),
         NEW c, Become(p, c), CallInOrder(c, record, version, clock')
  PROVE  LifeInv'
<1>1. TablesInOrder'
  <2>1. \A v \in version : v.at \in Nat
    BY DEF ApiInv, RepoInv, Inv, RepoOK, TablesOK, TablesTypeOK, VersionRow
  <2>2. \A k \in Nat : k <= clock => k <= clock'
    <3>1. \A k, m, n \in Nat : k <= m /\ m <= n => k <= n OBVIOUS
    <3>2. QED BY <3>1, ClockAdvances
  <2>3. \A v \in version : v.at <= clock' BY <2>1, <2>2 DEF LifeInv, TablesInOrder
  <2>4. QED BY <2>3 DEF LifeInv, TablesInOrder
<1>2. FixesTrailing(req'[p], record', version') BY FixesStayTrailing
<1>3. CallInOrder(c, record', version', clock') OBVIOUS
<1>4. QED BY <1>1, <1>2, <1>3, OnlyCallInOrder

(* A call takes what it knows from query to query.                         *)
LEMMA QueryStaysInOrder ==
  ASSUME ApiInv, LifeInv, NEW p \in Procs, Query(p), NEW c, QueryLeft(call[p], c)
  PROVE  CallInOrder(c, record, version, clock')
<1> DEFINE old == call[p]
<1>1. /\ Inv /\ Kept /\ CallServes(old) /\ old \in Call /\ old.id \in Ids
      /\ old.rows \subseteq VersionRow
  BY WhatIsLearned DEF RepoInv, Inv, RepoOK, CallsOK, Call
<1>2. /\ RowsAreNext(old, record, version, clock) /\ ReadsAreCurrent(old, record, version)
      /\ SealsTrailing(old, record, version)
  BY DEF LifeInv, CallInOrder
<1>3. old.pc = "versions" => Exists(old.id)
  BY <1>1 DEF Kept, CallsKnow, Knows, KnowsRecord, Exists
<1> HIDE DEF old
<1>4. QueryLeft(old, c) BY DEF old
<1>5. RowsAreNext(c, record, version, clock')
  <2>1. CASE old.pc = "exists" /\ c.pc = "create" /\ c.rows = old.rows
    <3>1. \A k, m, n \in Nat : k <= m /\ m <= n => k <= n OBVIOUS
    <3>2. \A w \in c.rows : w.at \in Nat BY <1>1, <2>1 DEF VersionRow
    <3>3. \A w \in c.rows : w.at <= clock => w.at <= clock'
      BY <3>1, <3>2, ClockAdvances DEF OtherStep
    <3>4. c.id = old.id BY <1>4 DEF QueryLeft
    <3>5. QED BY <1>2, <2>1, <3>3, <3>4 DEF RowsAreNext
  <2>2. CASE c.pc \notin {"exists", "create", "append"} BY <2>2 DEF RowsAreNext
  <2>3. QED BY <1>4, <2>1, <2>2 DEF QueryLeft
<1>6. ReadsAreCurrent(c, record, version)
  <2>1. CASE old.pc = "versions" /\ c.pc = "creator"
    <3>1. c.chain \in OrderedReads(old.id) /\ c.row = old.row /\ c.id = old.id
      BY <1>4, <2>1 DEF QueryLeft
    <3>2. Trailing(version, c.id, c.chain[Len(c.chain)])
      BY <1>1, <1>3, <2>1, <3>1, ReadsEndTrailing DEF LifeInv
    <3>3. QED BY <1>2, <2>1, <3>1, <3>2 DEF ReadsAreCurrent
  <2>2. QED BY <1>2, <1>4, <2>1 DEF QueryLeft, ReadsAreCurrent
<1>7. SealsTrailing(c, record, version)
  <2>1. c.op = "transition_to_fixed" /\ c.pc # "idle" => Ready(record, version, c.id, c.hash)
    BY <1>2, <1>4 DEF QueryLeft, SealsTrailing
  <2>2. CASE c.pc = "seal"
    <3>1. old.pc = "creator" /\ c.id = old.id
      /\ \A w \in c.rows : w.vid = old.chain[Len(old.chain)].vid
      BY <1>4, <2>2 DEF QueryLeft
    <3>2. Trailing(version, c.id, old.chain[Len(old.chain)])
      BY <1>2, <3>1 DEF ReadsAreCurrent
    <3>3. QED BY <2>1, <3>1, <3>2 DEF SealsTrailing, Trailing
  <2>3. CASE c.pc # "seal" BY <2>1, <2>3 DEF SealsTrailing
  <2>4. QED BY <2>2, <2>3
<1>8. QED BY <1>5, <1>6, <1>7 DEF CallInOrder

(* What was minted is smaller than what will be.                           *)
LEMMA StoredIdsAreSmaller ==
  ASSUME RepoInv, NEW v \in version
  PROVE  v.vid < nextVid
<1>1. PICK x \in TableShown : Of(v, x) BY TableRowsAreShown DEF RepoInv
<1>2. x \in Shown BY <1>1, ShownInParts
<1>3. QED BY <1>1, <1>2 DEF RepoInv, OneBody, Of

(* A version that is minted and stamped now is next.                       *)
LEMMA MintedRowsAreNext ==
  ASSUME ApiInv, LifeInv, 0 \notin Ticks, Stamp(clock'), clock' \in Nat,
         NEW c, c.rows \subseteq VersionRow, NEW b,
         \A w \in c.rows : /\ w.vid = nextVid /\ w.rid = c.id /\ w.body = b
                           /\ w.at = clock',
         c.pc = "append" => record[c.id].state = "mutable"
  PROVE  RowsAreNext(c, record, version, clock')
<1>1. ASSUME NEW w \in c.rows, NEW x \in c.rows PROVE w = x
  BY <1>1 DEF VersionRow
<1>2. clock \in Nat BY ClockAssumption DEF ApiInv, RepoInv, Inv, RepoOK
<1>3. clock < clock'
  <2>1. clock' - clock \in Nat /\ clock' - clock # 0
    BY ClockAssumption DEF Stamp
  <2>2. \A m, n \in Nat : n - m \in Nat /\ n - m # 0 => m < n OBVIOUS
  <2>3. QED BY <1>2, <2>1, <2>2
<1>4. ASSUME NEW v \in version PROVE v.vid < nextVid /\ v.at < clock'
  <2>1. v.vid < nextVid BY StoredIdsAreSmaller DEF ApiInv
  <2>2. v.at \in Nat /\ v.at <= clock
    BY DEF ApiInv, RepoInv, Inv, RepoOK, TablesOK, TablesTypeOK, VersionRow, LifeInv, TablesInOrder
  <2>3. \A k, m, n \in Nat : k <= m /\ m < n => k < n OBVIOUS
  <2>4. QED BY <1>2, <1>3, <2>1, <2>2, <2>3
<1>5. \A n \in Nat : n <= n OBVIOUS
<1>6. QED BY <1>1, <1>4, <1>5 DEF RowsAreNext

(* A call that begins.                                                     *)
LEMMA OtherStepInOrder ==
  ASSUME Alone, 0 \notin Ticks, ApiInv, NamesInv, LifeInv, [ApiNext]_apiVars,
         UNCHANGED <<record, version>>, NEW p \in Procs, OtherStep(p) \/ SealBegins(p)
  PROVE  LifeInv'
<1>1. /\ RepoInv /\ CallServes(call[p]) /\ CallsOK
  BY WhatIsLearned DEF RepoInv, Inv, RepoOK
<1>2. ASSUME NEW c, Become(p, c), CallInOrder(c, record, version, clock')
      PROVE  LifeInv'
  BY <1>2, QuietStepInOrder
<1>3. ASSUME NEW c, Become(p, c), c.op # "transition_to_fixed", c.ret # "found",
             c.pc \in {"idle", "row"}
      PROVE  LifeInv'
  <2>1. CallInOrder(c, record, version, clock')
    BY <1>3 DEF CallInOrder, RowsAreNext, ReadsAreCurrent, SealsTrailing
  <2>2. QED BY <1>2, <1>3, <2>1
<1>4. CASE Query(p)
  <2>1. PICK c : QueryLeft(call[p], c) /\ Become(p, c) BY <1>1, <1>4, QueryLeaves
  <2>2. CallInOrder(c, record, version, clock') BY <1>4, <2>1, QueryStaysInOrder
  <2>3. QED BY <1>2, <2>1, <2>2
<1>5. CASE Fail(p)
  <2>1. Answer(p, "error") /\ call[p].pc # "idle" BY <1>5 DEF Fail, At
  <2>2. "error" \in Rets \ {"found"} BY DEF Rets
  <2> DEFINE c == [Idle EXCEPT !.op = call[p].op, !.id = call[p].id, !.ret = "error"]
  <2>3. c.op = call[p].op /\ c.pc = "idle" /\ c.ret = "error"
    BY IdleIsCall DEF Call
  <2>4. Become(p, c) BY <2>1 DEF Answer
  <2> HIDE DEF c
  <2>5. CallInOrder(c, record, version, clock')
    BY <2>3 DEF CallInOrder, RowsAreNext, ReadsAreCurrent, SealsTrailing
  <2>6. QED BY <1>2, <2>4, <2>5
<1>6. CASE Drops(p)
  <2>1. Idle.op = "none" /\ Idle.pc = "idle" /\ Idle.ret = "none" BY DEF Idle
  <2>2. QED BY <1>3, <1>6, <2>1 DEF Drops
<1>7. CASE \E i \in Ids : StartFind(p, i)
  <2>1. PICK c : c.op = "find" /\ c.pc = "row" /\ c.ret = "none" /\ Become(p, c)
    BY <1>7, StartFindLeaves
  <2>2. QED BY <1>3, <2>1
<1>8. ASSUME NEW c, Become(p, c) PROVE c.rows \subseteq VersionRow
  <2>1. RepoInv' BY <1>1, OtherStepsServe, ServiceStepKeepsRepo
  <2>2. call'[p] = c BY <1>1, <1>8 DEF CallsOK, Become
  <2>3. call'[p] \in Call BY <2>1 DEF RepoInv, Inv, RepoOK, CallsOK
  <2>4. QED BY <2>2, <2>3 DEF Call
<1>9. clock' \in Nat BY ClockAdvances
<1>10. ASSUME NEW i \in Ids, NEW b \in Bodies, StartAddVersion(p, i, b),
              call[p].ret = "found", call[p].id = i, call[p].row.state = "mutable"
       PROVE  LifeInv'
  <2>1. PICK c : /\ c.op = "add_version" /\ c.pc = "append" /\ c.id = i /\ c.ret = "none"
                 /\ \A w \in c.rows : /\ w.vid = nextVid /\ w.rid = i /\ w.body = b
                                      /\ w.at = clock'
                 /\ Become(p, c)
    BY <1>10, StartAddVersionLeaves
  <2>2. Stamp(clock') BY <1>10, StartAddVersionLeaves
  <2>3. record[c.id].state = "mutable"
    BY <1>10, <2>1 DEF LifeInv, CallInOrder, ReadsAreCurrent
  <2>4. RowsAreNext(c, record, version, clock')
    BY <1>8, <1>9, <2>1, <2>2, <2>3, MintedRowsAreNext
  <2>5. CallInOrder(c, record, version, clock')
    BY <2>1, <2>4 DEF CallInOrder, ReadsAreCurrent, SealsTrailing
  <2>6. QED BY <1>2, <2>1, <2>5
<1>11. ASSUME NEW i \in Ids, NEW b \in Bodies, NEW creator \in Creators, Posts(p, i, b, creator)
       PROVE  LifeInv'
  <2>1. Stamp(clock') /\ \E c : PostLeft(c, i, b) /\ Become(p, c)
    BY <1>1, <1>11, PostLeaves DEF RepoInv
  <2>2. PICK c : PostLeft(c, i, b) /\ Become(p, c) BY <2>1
  <2>3. /\ c.op = "save" /\ c.pc = "exists" /\ c.ret = "none"
        /\ \A w \in c.rows : /\ w.vid = nextVid /\ w.rid = c.id /\ w.body = b
                             /\ w.at = clock'
    BY <2>2 DEF PostLeft
  <2>4. RowsAreNext(c, record, version, clock')
    BY <1>8, <1>9, <2>1, <2>2, <2>3, MintedRowsAreNext
  <2>5. CallInOrder(c, record, version, clock')
    BY <2>3, <2>4 DEF CallInOrder, ReadsAreCurrent, SealsTrailing
  <2>6. QED BY <1>2, <2>2, <2>5
<1>12. CASE SealBegins(p)
  <2>1. req[p].id \in Ids /\ req[p].hash \in Bytes /\ StartTransition(p, req[p].id, req[p].hash)
    BY <1>12 DEF SealBegins, BeginSeal
  <2>2. PICK c : /\ c.op = "transition_to_fixed" /\ c.pc = "row" /\ c.id = req[p].id
                 /\ c.hash = req[p].hash /\ c.ret = "none" /\ Become(p, c)
    BY <2>1, StartTransitionLeaves
  <2>3. Ready(record, version, req[p].id, req[p].hash)
    <3>1. CASE StoreFixed(p) BY <3>1 DEF StoreFixed, Serving, LifeInv, FixesTrailing
    <3>2. QED BY <1>12, <3>1, FoundIsReady DEF SealBegins
  <2>4. CallInOrder(c, record, version, clock')
    BY <2>2, <2>3 DEF CallInOrder, RowsAreNext, ReadsAreCurrent, SealsTrailing
  <2>5. QED BY <1>2, <2>2, <2>4
<1>13. QED
  BY <1>4, <1>5, <1>6, <1>7, <1>10, <1>11, <1>12 DEF OtherStep

(* Who writes the tables is not at the store.                              *)
LEMMA CallersAreElsewhere ==
  ASSUME ApiInv, [ApiNext]_apiVars, NEW p \in Procs, call[p].pc # "idle"
  PROVE  ~ AtStore(req'[p])
<1>1. req[p].pc \notin {"verify", "copy", "store"}
  BY WhatIsLearned DEF Serves
<1>2. call[p].ret # "found"
  BY WhatIsLearned DEF RepoInv, Kept, CallsKnow, Knows, AwaitsOwn
<1>3. QED BY <1>1, <1>2, RequestsMove DEF WayToStore, AtStore

(* What a write leaves of the order.                                       *)
LEMMA CreationInOrder ==
  ASSUME ApiInv, LifeInv, NEW p \in Procs, Query(p), call[p].pc = "create",
         Create(call[p].id, call[p].row, call[p].rows, call[p].creator)
  PROVE  TablesInOrder'
<1> DEFINE c == call[p]
<1>1. /\ record \in [Ids -> RecordRow] /\ version \subseteq VersionRow /\ c.id \in Ids
      /\ c.rows \subseteq VersionRow
  BY WhatIsLearned DEF RepoInv, Inv, RepoOK, TablesOK, TablesTypeOK, CallsOK, Call
<1>2. c.pc = "create" /\ c.row.state = "mutable"
  BY WhatIsLearned DEF CallServes
<1>3. /\ \A w, x \in c.rows : w = x
      /\ \A w \in c.rows : /\ w.rid = c.id /\ w.at <= clock
                           /\ \A v \in version : v.vid < w.vid /\ v.at < w.at
  BY DEF LifeInv, CallInOrder, RowsAreNext
<1>4. record' = [record EXCEPT ![c.id] = c.row] /\ version' = version \cup c.rows
  BY DEF Create
<1> HIDE DEF c
<1>5. \A v \in version' : v \in VersionRow BY <1>1, <1>4
<1>6. \A v \in version' : v.vid \in Nat /\ v.at \in Nat /\ v.rid \in Ids
  BY <1>5, VidAssumption DEF VersionRow, Vids
<1>7. \A i \in Ids : record'[i] = IF i = c.id THEN c.row ELSE record[i] BY <1>1, <1>4
<1>8. \A i \in Ids : record'[i].state \in {"absent", "mutable", "fixed"}
  BY <1>2, <1>7 DEF LifeInv, TablesInOrder
<1>9. ASSUME NEW v \in version' PROVE record'[v.rid].state # "absent" /\ v.at <= clock'
  <2>1. v.at <= clock BY <1>3, <1>4 DEF LifeInv, TablesInOrder
  <2>2. \A k, m, n \in Nat : k <= m /\ m <= n => k <= n OBVIOUS
  <2>3. v.at <= clock' BY <1>6, <2>1, <2>2, ClockAdvances DEF OtherStep
  <2>4. v \in version => record[v.rid].state # "absent" BY DEF LifeInv, TablesInOrder
  <2>5. v \notin version => v.rid = c.id BY <1>3, <1>4
  <2>6. QED BY <1>2, <1>6, <1>7, <2>3, <2>4, <2>5
<1>10. ASSUME NEW v \in version', NEW w \in version'
       PROVE  (v.vid = w.vid => v = w) /\ (v.vid < w.vid => v.at < w.at)
  <2>1. CASE v \in version /\ w \in version BY <2>1 DEF LifeInv, TablesInOrder
  <2>2. CASE v \in version /\ w \in c.rows BY <1>3, <1>6, <2>2
  <2>3. CASE v \in c.rows /\ w \in version BY <1>3, <1>6, <2>3
  <2>4. CASE v \in c.rows /\ w \in c.rows
    <3>1. v = w BY <1>3, <2>4
    <3>2. ~ (v.vid < v.vid) BY <1>6
    <3>3. QED BY <3>1, <3>2
  <2>5. QED BY <1>4, <2>1, <2>2, <2>3, <2>4
<1>11. QED BY <1>8, <1>9, <1>10 DEF TablesInOrder

LEMMA GrowthInOrder ==
  ASSUME ApiInv, LifeInv, NEW p \in Procs, Query(p), call[p].pc = "append",
         NEW w \in call[p].rows, AppendVersion(w)
  PROVE  /\ TablesInOrder' /\ version' = version \cup {w} /\ w.rid = call[p].id
         /\ record[w.rid].state = "mutable"
         /\ \A i \in Ids : /\ record'[i].state = record[i].state
                           /\ record'[i].hash = record[i].hash
         /\ \A v \in version : v.vid < w.vid
<1>1. /\ record \in [Ids -> RecordRow] /\ version \subseteq VersionRow /\ w \in VersionRow
  BY WhatIsLearned DEF RepoInv, Inv, RepoOK, TablesOK, TablesTypeOK, CallsOK, Call
<1>2. /\ w.rid = call[p].id /\ w.at <= clock
      /\ \A v \in version : v.vid < w.vid /\ v.at < w.at
      /\ record[call[p].id].state = "mutable"
  BY DEF LifeInv, CallInOrder, RowsAreNext
<1>3. version' = version \cup {w} BY DEF AppendVersion
<1>4. \A v \in version' : v \in VersionRow BY <1>1, <1>3
<1>5. \A v \in version' : v.vid \in Nat /\ v.at \in Nat /\ v.rid \in Ids
  BY <1>4, VidAssumption DEF VersionRow, Vids
<1>6. \A i \in Ids : /\ record'[i].state = record[i].state
                     /\ record'[i].hash = record[i].hash
  BY <1>1 DEF AppendVersion, RecordRow
<1>7. ASSUME NEW v \in version' PROVE record'[v.rid].state # "absent" /\ v.at <= clock'
  <2>1. v.at <= clock BY <1>2, <1>3 DEF LifeInv, TablesInOrder
  <2>2. \A k, m, n \in Nat : k <= m /\ m <= n => k <= n OBVIOUS
  <2>3. v.at <= clock' BY <1>5, <2>1, <2>2, ClockAdvances DEF OtherStep
  <2>4. v \in version => record[v.rid].state # "absent" BY DEF LifeInv, TablesInOrder
  <2>5. record[v.rid].state # "absent" BY <1>2, <1>3, <2>4
  <2>6. QED BY <1>5, <1>6, <2>3, <2>5
<1>8. ASSUME NEW u \in version', NEW v \in version'
      PROVE  (u.vid = v.vid => u = v) /\ (u.vid < v.vid => u.at < v.at)
  <2>1. CASE u \in version /\ v \in version BY <2>1 DEF LifeInv, TablesInOrder
  <2>2. CASE u \in version /\ v = w BY <1>2, <1>5, <2>2
  <2>3. CASE u = w /\ v \in version BY <1>2, <1>5, <2>3
  <2>4. CASE u = w /\ v = w
    <3>1. ~ (w.vid < w.vid) BY <1>5, <2>4
    <3>2. QED BY <2>4, <3>1
  <2>5. QED BY <1>3, <2>1, <2>2, <2>3, <2>4
<1>9. TablesInOrder' BY <1>6, <1>7, <1>8 DEF LifeInv, TablesInOrder
<1>10. QED BY <1>2, <1>3, <1>6, <1>9

LEMMA SealingInOrder ==
  ASSUME ApiInv, LifeInv, NEW p \in Procs, Query(p), call[p].pc = "seal",
         NEW w \in call[p].rows,
         SealRecord(call[p].id, call[p].row.hash, call[p].row.updated, w.vid, w.body)
  PROVE  TablesInOrder'
<1> DEFINE new(v) == IF v.vid = w.vid THEN [v EXCEPT !.body = w.body] ELSE v
<1>1. record \in [Ids -> RecordRow] /\ version \subseteq VersionRow /\ RepoInv
  BY WhatIsLearned DEF RepoInv, Inv, RepoOK, TablesOK, TablesTypeOK
<1>2. /\ record'[call[p].id].state = "fixed"
      /\ \A i \in Ids \ {call[p].id} : record'[i] = record[i]
      /\ version' = {new(v) : v \in version}
  BY <1>1, SealedTables
<1>3. ASSUME NEW v \in version
      PROVE  new(v).vid = v.vid /\ new(v).rid = v.rid /\ new(v).at = v.at
             /\ v.at \in Nat /\ v.rid \in Ids
  BY <1>1 DEF VersionRow
<1>4. ASSUME NEW u, NEW v, u.vid = v.vid, u = v PROVE new(u) = new(v)
  BY <1>4
<1> HIDE DEF new
<1>5. \A i \in Ids : record'[i].state \in {"absent", "mutable", "fixed"}
  BY <1>2 DEF LifeInv, TablesInOrder
<1>6. ASSUME NEW v \in version
      PROVE  record'[new(v).rid].state # "absent" /\ new(v).at <= clock'
  <2>1. v.at <= clock BY DEF LifeInv, TablesInOrder
  <2>2. \A k, m, n \in Nat : k <= m /\ m <= n => k <= n OBVIOUS
  <2>3. v.at <= clock' BY <1>3, <2>1, <2>2, ClockAdvances DEF OtherStep
  <2>4. record[v.rid].state # "absent" BY DEF LifeInv, TablesInOrder
  <2>5. record'[v.rid].state # "absent" BY <1>2, <1>3, <2>4
  <2>6. QED BY <1>3, <2>3, <2>5
<1>7. ASSUME NEW u \in version, NEW v \in version
      PROVE  /\ new(u).vid = new(v).vid => new(u) = new(v)
             /\ new(u).vid < new(v).vid => new(u).at < new(v).at
  BY <1>3, <1>4 DEF LifeInv, TablesInOrder
<1>8. QED BY <1>2, <1>5, <1>6, <1>7 DEF TablesInOrder

(* Only queries write the tables.                                          *)
LEMMA QuietUnlessQuery ==
  ASSUME NEW p \in Procs, OtherStep(p) \/ SealBegins(p)
  PROVE  UNCHANGED <<record, version>> \/ Query(p)
<1>1. CASE Fail(p) BY <1>1 DEF Fail, tableVars
<1>2. CASE Drops(p) BY <1>2 DEF Drops, tableVars
<1>3. CASE \E i \in Ids : StartFind(p, i) BY <1>3 DEF StartFind, tableVars
<1>4. CASE \E i \in Ids, b \in Bodies : StartAddVersion(p, i, b)
  BY <1>4 DEF StartAddVersion, tableVars
<1>5. CASE \E i \in Ids, b \in Bodies, c \in Creators : Posts(p, i, b, c)
  BY <1>5 DEF Posts, StartSave, tableVars
<1>6. CASE SealBegins(p)
  BY <1>6 DEF SealBegins, BeginSeal, StartTransition, tableVars
<1>7. QED BY <1>1, <1>2, <1>3, <1>4, <1>5, <1>6 DEF OtherStep

LEMMA LifeInvStep ==
  ASSUME Solitary
  PROVE  ApiInv /\ NamesInv /\ LifeInv /\ [ApiNext]_apiVars => LifeInv'
<1> SUFFICES ASSUME ApiInv, NamesInv, LifeInv, [ApiNext]_apiVars PROVE LifeInv'
  OBVIOUS
<1>1. Alone /\ 0 \notin Ticks BY DEF Solitary
<1>2. CASE UNCHANGED vars
  <2>1. UNCHANGED <<record, version, call, clock>> BY <1>2 DEF vars, repoVars
  <2>2. \A p \in Procs : FixesTrailing(req'[p], record', version')
    BY <2>1, FixesStayTrailing
  <2>3. QED BY <2>1, <2>2 DEF LifeInv, TablesInOrder
<1>3. ASSUME NEW p \in Procs, OtherStep(p) \/ SealBegins(p) PROVE LifeInv'
  <2>1. CASE UNCHANGED <<record, version>> BY <1>1, <1>3, <2>1, OtherStepInOrder
  <2>2. CASE Query(p) /\ call[p].pc \in {"create", "append", "seal"} /\ TablesInOrder'
    <3>1. PICK c : QueryLeft(call[p], c) /\ Become(p, c) BY <2>2, QueryLeaves, WhatIsLearned
    <3>2. c.pc = "idle" /\ c.ret # "found" BY <2>2, <3>1 DEF QueryLeft
    <3>3. CallInOrder(c, record', version', clock')
      BY <3>2 DEF CallInOrder, RowsAreNext, ReadsAreCurrent, SealsTrailing
    <3>4. FixesTrailing(req'[p], record', version')
      BY <2>2, CallersAreElsewhere DEF AtStore, FixesTrailing
    <3>5. QED BY <1>1, <2>2, <3>1, <3>3, <3>4, OnlyCallInOrder
  <2>3. CASE Query(p)
    BY <2>1, <2>2, <2>3, QueryWrites, WhatIsLearned, CreationInOrder, GrowthInOrder,
       SealingInOrder DEF tableVars
  <2>4. UNCHANGED <<record, version>> \/ Query(p) BY <1>3, QuietUnlessQuery
  <2>5. QED BY <2>1, <2>3, <2>4
<1>4. External \/ UNCHANGED apiVars => UNCHANGED vars BY DEF External, apiVars
<1>5. QED BY <1>2, <1>3, <1>4, ArrivalsServe, HandlersServe DEF ApiNext

LEMMA LifeInvInitially == ApiInit => LifeInv
<1> SUFFICES ASSUME ApiInit PROVE LifeInv
  OBVIOUS
<1>1. /\ version = {} /\ record = [i \in Ids |-> NoRow]
      /\ \A p \in Procs : call[p] = Idle /\ req[p] = NoRequest
  BY DEF ApiInit, Init, RepoInit, TablesInit
<1>2. Idle.pc = "idle" /\ Idle.ret = "none" BY DEF Idle
<1>3. CallInOrder(Idle, record, version, clock)
  BY <1>2 DEF CallInOrder, RowsAreNext, ReadsAreCurrent, SealsTrailing
<1>4. FixesTrailing(NoRequest, record, version) BY FieldValues DEF FixesTrailing
<1>5. TablesInOrder BY <1>1 DEF TablesInOrder, NoRow
<1>6. QED BY <1>1, <1>3, <1>4, <1>5 DEF LifeInv

LEMMA LifeInvAlways ==
  ASSUME Solitary
  PROVE  ApiSpec => [](ApiInv /\ NamesInv /\ LifeInv)
<1>1. ApiInit => ApiInv /\ NamesInv /\ LifeInv
  BY ApiInvInitially, NamesInvInitially, LifeInvInitially
<1>2. ApiInv /\ NamesInv /\ LifeInv /\ [ApiNext]_apiVars => ApiInv' /\ NamesInv' /\ LifeInv'
  BY ApiInvStep, NamesInvStep, LifeInvStep DEF Solitary
<1>3. QED BY <1>1, <1>2, PTL DEF ApiSpec

-----------------------------------------------------------------------------
(* The refinement.                                                         *)

ChainIn(V, i) == {v \in V : v.rid = i}

(* Life(i), spelled out for any tables without uploads.                    *)
Plain(R, V, i) ==
  IF R[i].state = "absent" THEN [state |-> "none", hash |-> NoHash, contents |-> <<>>]
  ELSE [state |-> R[i].state, hash |-> R[i].hash, contents |-> Contents(ChainIn(V, i))]

Plainly == \A i \in Ids : Life(i) = Plain(record, version, i)

LEMMA ChainsAreOrderable ==
  ASSUME ApiInv, LifeInv, NEW i \in Ids
  PROVE  Orderable(ChainIn(version, i))
<1>1. IsFiniteSet(version) /\ version \subseteq VersionRow
  BY DEF ApiInv, RepoInv, Inv, RepoOK, TablesOK, TablesTypeOK
<1>2. IsFiniteSet(ChainIn(version, i)) BY <1>1, FS_Subset DEF ChainIn
<1>3. \A v \in version : v.vid \in Nat BY <1>1, VidAssumption DEF VersionRow, Vids
<1>4. QED BY <1>2, <1>3 DEF Orderable, ChainIn, LifeInv, TablesInOrder

LEMMA LifeIsPlain ==
  ASSUME ApiInv, NamesInv, LifeInv
  PROVE  Plainly
<1> SUFFICES ASSUME NEW i \in Ids PROVE Life(i) = Plain(record, version, i)
  BY DEF Plainly
<1> DEFINE C == ChainIn(version, i)
<1>1. Orderable(C) BY ChainsAreOrderable
<1>2. ChainOf(i) = InOrder(C) BY DEF ChainOf, VersionsOf, ChainIn
<1>3. DOMAIN InOrder(C) = 1 .. Cardinality(C) BY DEF InOrder
<1>4. ASSUME NEW j \in 1 .. Cardinality(C)
      PROVE  Payload(InOrder(C)[j].body) = InOrder(C)[j].body.of
  <2>1. InOrder(C)[j] \in C BY <1>1, OrderedAreMembers
  <2>2. InOrder(C)[j] \in version BY <2>1 DEF ChainIn
  <2>3. InOrder(C)[j].body \in NotUploads BY <2>2 DEF NamesInv, BodiesIn
  <2>4. QED BY <2>3 DEF NotUploads, Payload
<1> HIDE DEF C
<1>5. [j \in DOMAIN ChainOf(i) |-> Payload(ChainOf(i)[j].body)] = Contents(C)
  BY <1>2, <1>3, <1>4 DEF Contents
<1>6. QED BY <1>5 DEF Life, Exists, Plain, C

(* The last version of a chain may change its body for one of the same     *)
(* payload.                                                                *)
LEMMA LastMayMigrate ==
  ASSUME NEW C, Orderable(C), NEW t \in C, \A v \in C : v.vid <= t.vid,
         NEW s, s.vid = t.vid, s.body.of = t.body.of
  PROVE  /\ Contents((C \ {t}) \cup {s}) = Contents(C)
         /\ Contents(C)[Len(Contents(C))] = t.body.of
<1>1. PICK U : U = C \ {t} OBVIOUS
<1>2. C = U \cup {t} BY <1>1
<1>3. Orderable(U) /\ t.vid \in Nat
  <2>1. IsFiniteSet(U) BY <1>1, FS_Subset DEF Orderable
  <2>2. QED BY <1>1, <2>1 DEF Orderable
<1>4. \A u \in U : u.vid < t.vid
  <2> TAKE u \in U
  <2>1. u.vid \in Nat /\ u.vid <= t.vid /\ u.vid # t.vid BY <1>1 DEF Orderable
  <2>2. \A m, n \in Nat : m <= n /\ m # n => m < n OBVIOUS
  <2>3. QED BY <1>3, <2>1, <2>2
<1>5. /\ Contents(U \cup {t}) = Append(Contents(U), t.body.of)
      /\ Len(Contents(U \cup {t})) = Cardinality(U) + 1
      /\ Contents(U \cup {t})[Cardinality(U) + 1] = t.body.of
  BY <1>3, <1>4, ContentsGrow
<1>6. Contents(U \cup {s}) = Append(Contents(U), s.body.of)
  BY <1>3, <1>4, ContentsGrow
<1>7. Contents(U \cup {s}) = Contents(U \cup {t}) BY <1>5, <1>6
<1>8. Contents(U \cup {t})[Len(Contents(U \cup {t}))] = t.body.of BY <1>5
<1>9. QED BY <1>1, <1>2, <1>7, <1>8

(* The steps of RecordLifecycle, from one function m to another n.         *)
Born(x) == [state |-> "mutable", hash |-> NoHash, contents |-> <<x>>]

Creates(m, n, i, x) ==
  /\ m[i] = [state |-> "none", hash |-> NoHash, contents |-> <<>>]
  /\ n = [m EXCEPT ![i] = Born(x)]

Grows(m, n, i, x) ==
  m[i].state = "mutable" /\ n = [m EXCEPT ![i].contents = Append(@, x)]

Seals(m, n, i) ==
  /\ m[i].state = "mutable"
  /\ n = [m EXCEPT ![i].state = "fixed", ![i].hash = m[i].contents[Len(m[i].contents)]]

Lives(R, V) == [i \in Ids |-> Plain(R, V, i)]

LEMMA CreationCreates ==
  ASSUME ApiInv, LifeInv, ApiInv', LifeInv', NEW p \in Procs, Query(p),
         call[p].pc = "create", CanCreate(call[p].id, call[p].rows),
         Create(call[p].id, call[p].row, call[p].rows, call[p].creator)
  PROVE  \E i \in Ids, x \in Bytes :
           Creates(Lives(record, version), Lives(record', version'), i, x)
<1> DEFINE c == call[p]
<1>1. /\ record \in [Ids -> RecordRow] /\ c.id \in Ids /\ c.rows \subseteq VersionRow
      /\ CallOK(c)
  BY WhatIsLearned DEF RepoInv, Inv, RepoOK, TablesOK, TablesTypeOK, CallsOK, Call
<1>2. c.pc = "create" /\ c.row.state = "mutable" /\ c.rows # {}
  BY <1>1, WhatIsLearned DEF CallServes, CallOK, Creatable
<1>3. /\ \A w, x \in c.rows : w = x
      /\ \A w \in c.rows : w.rid = c.id
  BY DEF LifeInv, CallInOrder, RowsAreNext
<1>4. /\ record' = [record EXCEPT ![c.id] = c.row] /\ version' = version \cup c.rows
      /\ record[c.id].state = "absent"
  BY DEF Create, CanCreate, Exists
<1> HIDE DEF c
<1>5. PICK w \in c.rows : c.rows = {w} BY <1>2, <1>3
<1>6. \A v \in version : v.rid # c.id BY <1>4 DEF LifeInv, TablesInOrder
<1>7. ChainIn(version', c.id) = {w} BY <1>3, <1>4, <1>5, <1>6 DEF ChainIn
<1>8. \A i \in Ids \ {c.id} : ChainIn(version', i) = ChainIn(version, i)
  BY <1>3, <1>4 DEF ChainIn
<1>9. w.vid \in Nat /\ w.body.of \in Bytes
  BY <1>1, VidAssumption DEF VersionRow, Vids, Body
<1>10. Contents({w}) = <<w.body.of>> BY <1>9, ContentsBegin
<1>11. record'[c.id] = c.row /\ \A i \in Ids \ {c.id} : record'[i] = record[i]
  BY <1>1, <1>4
<1>12. record'[c.id].hash = NoHash
  BY <1>1, <1>2, <1>11 DEF ApiInv, RepoInv, Inv, RepoOK, TablesOK, HashExactlyWhenFixed
<1>13. Plain(record', version', c.id) = Born(w.body.of)
  BY <1>2, <1>7, <1>10, <1>11, <1>12 DEF Plain, Born
<1>14. \A i \in Ids \ {c.id} : Plain(record', version', i) = Plain(record, version, i)
  BY <1>8, <1>11 DEF Plain
<1>15. Plain(record, version, c.id) = [state |-> "none", hash |-> NoHash, contents |-> <<>>]
  BY <1>4 DEF Plain
<1>16. Creates(Lives(record, version), Lives(record', version'), c.id, w.body.of)
  BY <1>1, <1>13, <1>14, <1>15 DEF Creates, Lives
<1>17. QED BY <1>1, <1>9, <1>16

LEMMA GrowthGrows ==
  ASSUME ApiInv, LifeInv, NEW p \in Procs, Query(p), call[p].pc = "append",
         NEW w \in call[p].rows, AppendVersion(w)
  PROVE  \E i \in Ids, x \in Bytes :
           Grows(Lives(record, version), Lives(record', version'), i, x)
<1> DEFINE k == w.rid
           U == ChainIn(version, k)
<1>1. w \in VersionRow BY WhatIsLearned DEF RepoInv, Inv, RepoOK, CallsOK, Call
<1>2. k \in Ids /\ w.vid \in Nat /\ w.body.of \in Bytes
  BY <1>1, VidAssumption DEF VersionRow, Vids, Body
<1>3. /\ version' = version \cup {w}
      /\ record[k].state = "mutable"
      /\ \A i \in Ids : record'[i].state = record[i].state /\ record'[i].hash = record[i].hash
      /\ \A v \in version : v.vid < w.vid
  BY GrowthInOrder
<1>4. Orderable(U) BY <1>2, ChainsAreOrderable
<1>5. \A u \in U : u.vid < w.vid BY <1>3 DEF ChainIn
<1>6. ChainIn(version', k) = U \cup {w} BY <1>3 DEF ChainIn
<1>7. \A i \in Ids \ {k} : ChainIn(version', i) = ChainIn(version, i) BY <1>3 DEF ChainIn
<1> HIDE DEF k, U
<1>8. Contents(U \cup {w}) = Append(Contents(U), w.body.of)
  BY <1>2, <1>4, <1>5, ContentsGrow
<1>9. Plain(record, version, k)
        = [state |-> "mutable", hash |-> record[k].hash, contents |-> Contents(U)]
  BY <1>3 DEF Plain, U
<1>10. Plain(record', version', k)
         = [state |-> "mutable", hash |-> record[k].hash,
            contents |-> Append(Contents(U), w.body.of)]
  BY <1>2, <1>3, <1>6, <1>8 DEF Plain
<1>11. \A i \in Ids \ {k} : Plain(record', version', i) = Plain(record, version, i)
  BY <1>3, <1>7 DEF Plain
<1>12. Grows(Lives(record, version), Lives(record', version'), k, w.body.of)
  <2> DEFINE x == w.body.of
             C == Contents(U)
             h == record[k].hash
             m == Lives(record, version)
             n == Lives(record', version')
  <2>1. m[k] = [state |-> "mutable", hash |-> h, contents |-> C]
    BY <1>2, <1>9 DEF Lives
  <2>2. n[k] = [state |-> "mutable", hash |-> h, contents |-> Append(C, x)]
    BY <1>2, <1>10 DEF Lives
  <2>3. DOMAIN m = Ids /\ n = [i \in Ids |-> n[i]] BY DEF Lives
  <2>4. \A i \in Ids \ {k} : n[i] = m[i] BY <1>11 DEF Lives
  <2> HIDE DEF x, C, h, m, n
  <2>5. [m[k] EXCEPT !.contents = Append(m[k].contents, x)] = n[k] BY <2>1, <2>2
  <2>6. [m EXCEPT ![k].contents = Append(@, x)]
          = [i \in Ids |-> IF i = k THEN [m[k] EXCEPT !.contents = Append(m[k].contents, x)]
                           ELSE m[i]]
    BY <1>2, <2>3
  <2>7. n = [m EXCEPT ![k].contents = Append(@, x)] BY <2>3, <2>4, <2>5, <2>6
  <2>8. m[k].state = "mutable" BY <2>1
  <2>9. Grows(m, n, k, x) BY <2>7, <2>8 DEF Grows
  <2>10. QED BY <2>9 DEF m, n, x
<1>13. QED BY <1>2, <1>12

LEMMA SealingSeals ==
  ASSUME ApiInv, LifeInv, NEW p \in Procs, Query(p), call[p].pc = "seal",
         NEW w \in call[p].rows,
         SealRecord(call[p].id, call[p].row.hash, call[p].row.updated, w.vid, w.body)
  PROVE  \E i \in Ids : Seals(Lives(record, version), Lives(record', version'), i)
<1> DEFINE c == call[p]
           k == c.id
           C == ChainIn(version, k)
           new(v) == IF v.vid = w.vid THEN [v EXCEPT !.body = w.body] ELSE v
<1>1. /\ RepoInv /\ version \subseteq VersionRow /\ k \in Ids /\ w \in VersionRow
      /\ c.op = "transition_to_fixed" /\ c.pc = "seal"
      /\ c.row.hash = c.hash /\ w.body = Fossil(w.body, c.hash)
  BY WhatIsLearned
     DEF RepoInv, Inv, RepoOK, TablesOK, TablesTypeOK, CallsOK, Call, CallServes, Learned, Checked
<1>2. /\ record'[k].state = "fixed" /\ record'[k].hash = c.hash
      /\ \A i \in Ids \ {k} : record'[i] = record[i]
      /\ version' = {new(v) : v \in version}
  BY <1>1, SealedTables
<1>3. \A v \in version : /\ new(v).vid = v.vid /\ new(v).rid = v.rid
                         /\ v.vid = w.vid => new(v).body = w.body
                         /\ v.vid # w.vid => new(v) = v
  BY <1>1 DEF VersionRow
<1>4. Ready(record, version, k, c.hash) /\ \A v \in C : v.vid <= w.vid
  BY <1>1 DEF LifeInv, CallInOrder, SealsTrailing, ChainIn
<1>5. PICK t \in C : t.body.of = c.hash /\ \A v \in C : v.vid <= t.vid
  BY <1>4 DEF Ready, Trailing, ChainIn
<1>6. PICK u \in C : u.vid = w.vid
  BY <1>1 DEF RepoInv, Kept, CallsKnow, Knows, KnowsRows, HasRow, ChainIn
<1>7. Orderable(C) BY <1>1, ChainsAreOrderable
<1>8. t \in version /\ u \in version /\ t.rid = k BY DEF ChainIn
<1>m. Migrated(w.body, u.body) /\ \A v \in version : v.vid = w.vid => v.rid = k
  BY <1>1, <1>6, <1>8, SealMigrates
<1> HIDE DEF c, C, new, k
<1>9. t = u
  <2>1. t.vid \in Nat /\ u.vid \in Nat /\ u.vid <= t.vid /\ t.vid <= u.vid
    BY <1>4, <1>5, <1>6, <1>7 DEF Orderable
  <2>2. QED BY <1>7, <2>1 DEF Orderable
<1>10. new(t).body = w.body /\ new(t).vid = t.vid BY <1>3, <1>6, <1>8, <1>9
<1>11. w.body.of = t.body.of
  <2>1. CASE w.body.form = "inline" BY <1>m, <1>9, <2>1 DEF Migrated
  <2>2. CASE w.body.form # "inline" BY <1>1, <1>5, <2>2 DEF Fossil
  <2>3. QED BY <2>1, <2>2
<1>12. \A v \in C \ {t} : new(v) = v
  BY <1>3, <1>6, <1>7, <1>9 DEF Orderable, ChainIn, C
<1>13. ChainIn(version', k) = (C \ {t}) \cup {new(t)}
  <2>1. ChainIn(version', k) = {new(v) : v \in C} BY <1>2, <1>3 DEF ChainIn, C
  <2>2. QED BY <1>12, <2>1
<1>14. \A i \in Ids \ {k} : ChainIn(version', i) = ChainIn(version, i)
  <2> TAKE i \in Ids \ {k}
  <2>1. \A v \in version : v.rid = i => new(v) = v BY <1>3, <1>m
  <2>2. QED BY <1>2, <1>3, <2>1 DEF ChainIn
<1>15. /\ Contents(ChainIn(version', k)) = Contents(C)
       /\ Contents(C)[Len(Contents(C))] = c.hash
  <2>1. PICK s : s = new(t) OBVIOUS
  <2>2. /\ Contents((C \ {t}) \cup {s}) = Contents(C)
        /\ Contents(C)[Len(Contents(C))] = t.body.of
    BY <1>5, <1>7, <1>10, <1>11, <2>1, LastMayMigrate
  <2>3. QED BY <1>5, <1>13, <2>1, <2>2
<1>16. record[k].state = "mutable" BY <1>4 DEF Ready
<1> DEFINE m == Lives(record, version)
           n == Lives(record', version')
           h == record[k].hash
           D == Contents(C)
<1>17. m[k] = [state |-> "mutable", hash |-> h, contents |-> D]
  BY <1>1, <1>16 DEF Lives, Plain, C
<1>18. n[k] = [state |-> "fixed", hash |-> c.hash, contents |-> D]
  BY <1>1, <1>2, <1>15 DEF Lives, Plain
<1>19. DOMAIN m = Ids /\ n = [i \in Ids |-> n[i]] BY DEF Lives
<1>20. \A i \in Ids \ {k} : n[i] = m[i] BY <1>2, <1>14 DEF Lives, Plain
<1>21. D[Len(D)] = c.hash BY <1>15
<1> HIDE DEF m, n, h, D
<1>22. [[m[k] EXCEPT !.state = "fixed"] EXCEPT !.hash = c.hash] = n[k]
  <2>1. PICK a : a = [m[k] EXCEPT !.state = "fixed"] OBVIOUS
  <2>2. a = [state |-> "fixed", hash |-> h, contents |-> D] BY <1>17, <2>1
  <2>3. [a EXCEPT !.hash = c.hash] = [state |-> "fixed", hash |-> c.hash, contents |-> D]
    BY <2>2
  <2>4. QED BY <1>18, <2>1, <2>3
<1>23. m[k].contents[Len(m[k].contents)] = c.hash BY <1>17, <1>21
<1>24. [m EXCEPT ![k].state = "fixed", ![k].hash = c.hash] = n
  <2>1. [m EXCEPT ![k].state = "fixed"]
          = [i \in Ids |-> IF i = k THEN [m[k] EXCEPT !.state = "fixed"] ELSE m[i]]
    BY <1>1, <1>19
  <2>2. PICK a : a = [m EXCEPT ![k].state = "fixed"] OBVIOUS
  <2>3. a[k] = [m[k] EXCEPT !.state = "fixed"] /\ DOMAIN a = Ids
        /\ \A i \in Ids \ {k} : a[i] = m[i]
    BY <1>1, <2>1, <2>2
  <2>4. [a EXCEPT ![k].hash = c.hash]
          = [i \in Ids |-> IF i = k THEN [a[k] EXCEPT !.hash = c.hash] ELSE a[i]]
    BY <1>1, <2>3
  <2>5. [a EXCEPT ![k].hash = c.hash] = [i \in Ids |-> n[i]]
    BY <1>20, <1>22, <2>3, <2>4
  <2>6. QED BY <1>19, <2>2, <2>5
<1>25. m[k].state = "mutable" BY <1>17
<1>26. Seals(m, n, k) BY <1>23, <1>24, <1>25 DEF Seals
<1>27. QED BY <1>1, <1>26 DEF m, n

(* What a step of the service is for the lives of the records.             *)
LEMMA LivesMove ==
  ASSUME ApiInv, LifeInv, ApiInv', LifeInv', [ApiNext]_apiVars
  PROVE  LET m == Lives(record, version)
             n == Lives(record', version')
         IN \/ n = m
            \/ \E i \in Ids : Seals(m, n, i) \/ \E x \in Bytes : Creates(m, n, i, x) \/ Grows(m, n, i, x)
<1>1. UNCHANGED <<record, version>> => Lives(record', version') = Lives(record, version)
  OBVIOUS
<1>2. ASSUME NEW p \in Procs, OtherStep(p) \/ SealBegins(p)
      PROVE  UNCHANGED <<record, version>> \/ Query(p)
  BY <1>2, QuietUnlessQuery
<1>3. ASSUME NEW p \in Procs, Query(p)
      PROVE  LET m == Lives(record, version)
                 n == Lives(record', version')
             IN \/ n = m
                \/ \E i \in Ids : \/ Seals(m, n, i)
                                  \/ \E x \in Bytes : Creates(m, n, i, x) \/ Grows(m, n, i, x)
  BY <1>1, <1>3, QueryWrites, WhatIsLearned, CreationCreates, GrowthGrows, SealingSeals
     DEF tableVars
<1>4. External \/ UNCHANGED apiVars => UNCHANGED vars BY DEF External, apiVars
<1>5. UNCHANGED vars => UNCHANGED <<record, version>> BY DEF vars, repoVars
<1>6. QED BY <1>1, <1>2, <1>3, <1>4, <1>5, ArrivalsServe, HandlersServe DEF ApiNext

LEMMA LivesBegin == ApiInit => Lifecycle!Init
BY DEF ApiInit, Init, RepoInit, TablesInit, NoRow, Lifecycle!Init, Lifecycle!Unborn, Life, Exists

(* With one client at a time, a clock that ticks between any two readings  *)
(* and no bodies at keys that others may write, the service implements     *)
(* RecordLifecycle: whatever fails or is dropped half-way, each stored     *)
(* record is created with one payload, grows at its end while it is        *)
(* Mutable, and is sealed once, under the digest of its last payload.      *)
THEOREM ServiceImplementsLifecycle ==
  ASSUME Solitary
  PROVE  ApiSpec => ImplementsLifecycle
<1>1. ApiInv /\ NamesInv /\ LifeInv => Plainly BY LifeIsPlain
<1>2. /\ ApiInv /\ LifeInv /\ Plainly /\ (ApiInv /\ LifeInv /\ Plainly)' /\ [ApiNext]_apiVars
      => [Lifecycle!Next]_[i \in Ids |-> Life(i)]
  <2> SUFFICES ASSUME ApiInv, LifeInv, Plainly, ApiInv', LifeInv', Plainly', [ApiNext]_apiVars
               PROVE  [Lifecycle!Next]_[i \in Ids |-> Life(i)]
    OBVIOUS
  <2>1. [i \in Ids |-> Life(i)] = Lives(record, version) BY DEF Plainly, Lives
  <2>2. [i \in Ids |-> Life(i)]' = Lives(record', version') BY DEF Plainly, Lives
  <2>3. QED
    BY <2>1, <2>2, LivesMove
       DEF Lifecycle!Next, Lifecycle!Create, Lifecycle!Grow, Lifecycle!Seal, Lifecycle!Unborn,
           Creates, Grows, Seals, Born
<1>3. QED
  BY <1>1, <1>2, LivesBegin, LifeInvAlways, PTL DEF ApiSpec, ImplementsLifecycle, Lifecycle!Spec
=============================================================================
