-------------------------- MODULE DeltaSyncProofs ---------------------------
(***************************************************************************)
(* Proofs about DeltaSync, for any fleet, any clients and any bounds.      *)
(***************************************************************************)
EXTENDS DeltaSync, FiniteSetTheorems, WellFoundedInduction, TLAPS

\* Zenon proves the steps that name no other prover.
USE ZenonT(30)

-----------------------------------------------------------------------------
(***************************************************************************)
(* The log of removals.                                                    *)
(***************************************************************************)

\* A set of naturals that is not empty has a least member.
LEMMA LeastNatural ==
  ASSUME NEW M \in SUBSET Nat, M # {}
  PROVE  \E r \in M : \A q \in M : r <= q
<1>1. PICK r \in M : \A q \in M : ~(<<q, r>> \in OpToRel(<, Nat))
  BY WFMin, NatLessThanWellFounded
<1>2. \A q \in M : ~(q < r)
  BY <1>1 DEF OpToRel
<1> QED
  BY SMTT(30), <1>2

\* The cut of pruneRemovedLocked is one of the logged revisions, when the log
\* is too long: revs[len(revs)-maxRemovedTracked] is inside the slice.
LEMMA CutoffLogged ==
  ASSUME NEW n \in Nat, NEW log \in [Hosts -> 0..n],
         Cardinality(Tracked(log)) > MaxRemovedTracked
  PROVE  Cutoff(log) \in 1..n
<1> USE DeltaAssumption
<1> DEFINE T == Tracked(log)
           e == Cardinality(T) - MaxRemovedTracked
           At(r) == {h \in T : log[h] <= r}
           Below(r) == {h \in T : log[h] < r}
           M == {r \in Nat : Cardinality(At(r)) > e}
<1>1. IsFiniteSet(T) /\ Cardinality(T) \in Nat
  BY FS_Subset, FS_CardinalityType DEF Tracked
<1>2. e \in Nat /\ e < Cardinality(T)
  BY SMTT(30), <1>1
<1>3. \A h \in T : log[h] \in 1..n
  BY SMTT(30) DEF Tracked
<1>4. n \in M
  <2>1. At(n) = T
    BY SMTT(30), <1>3
  <2> QED
    BY <1>2, <2>1
<1>5. PICK r \in M : \A q \in M : r <= q
  <2>1. M \in SUBSET Nat /\ M # {}
    BY <1>4
  <2> HIDE DEF M
  <2> QED
    BY <2>1, LeastNatural
<1>6. At(0) = {}
  BY SMTT(30), <1>3
<1>7. r # 0
  <2>1. Cardinality(At(r)) > e
    BY <1>5
  <2>2. Cardinality(At(0)) = 0
    BY <1>6, FS_EmptySet
  <2> HIDE DEF At
  <2> QED
    BY SMTT(30), <1>2, <2>1, <2>2
<1>8. r - 1 \in Nat /\ r - 1 \notin M /\ r \in Nat
  BY SMTT(30), <1>5, <1>7
<1>9. Below(r) = At(r - 1)
  BY SMTT(30), <1>3, <1>8
<1>10. Cardinality(Below(r)) <= e
  <2>1. IsFiniteSet(At(r - 1))
    BY <1>1, FS_Subset
  <2>2. Cardinality(At(r - 1)) \in Nat
    BY <2>1, FS_CardinalityType
  <2>3. ~(Cardinality(At(r - 1)) > e)
    BY <1>8
  <2> HIDE DEF At, Below
  <2> QED
    BY SMTT(30), <1>2, <1>9, <2>2, <2>3
<1>11. r \in {log[h] : h \in T}
  <2>1. CASE r \notin {log[h] : h \in T}
    <3>1. At(r) = Below(r)
      BY SMTT(30), <1>3, <1>8, <2>1
    <3> QED
      BY SMTT(30), <1>1, <1>2, <1>5, <1>10, <3>1, FS_Subset, FS_CardinalityType
  <2> QED
    BY <2>1
<1>12. Cutoff(log) \in {log[h] : h \in T}
  BY <1>5, <1>10, <1>11 DEF Cutoff
<1> QED
  BY <1>3, <1>12

\* What pruneRemovedLocked drops lies below the revision from which deltas are
\* still answered, and that revision only moves forward.
LEMMA PruneEffect ==
  ASSUME NEW n \in Nat, NEW log \in [Hosts -> 0..n], minDeltaRev \in 0..n,
         PruneRemoved(log)
  PROVE  /\ removedAt' \in [Hosts -> 0..n]
         /\ minDeltaRev' \in 0..n /\ minDeltaRev' >= minDeltaRev
         /\ \A h \in Hosts : \/ removedAt'[h] = log[h]
                             \/ removedAt'[h] = 0 /\ log[h] < minDeltaRev'
<1>1. CASE Cardinality(Tracked(log)) <= MaxRemovedTracked
  BY SMTT(30), <1>1 DEF PruneRemoved
<1>2. CASE ~(Cardinality(Tracked(log)) <= MaxRemovedTracked)
  <2>1. Cutoff(log) \in 1..n
    <3>1. IsFiniteSet(Tracked(log))
      BY FS_Subset, DeltaAssumption DEF Tracked
    <3>2. Cardinality(Tracked(log)) > MaxRemovedTracked
      BY SMTT(30), <1>2, <3>1, FS_CardinalityType, DeltaAssumption
    <3> QED
      BY <3>2, CutoffLogged
  <2> HIDE DEF Cutoff
  <2> QED
    BY SMTT(30), <1>2, <2>1 DEF PruneRemoved
<1> QED
  BY <1>1, <1>2

-----------------------------------------------------------------------------
(***************************************************************************)
(* Types.                                                                  *)
(***************************************************************************)

\* The new tombstones are revisions.
LEMMA TombstonesType ==
  ASSUME TypeOK, NEW s \in View
  PROVE  Tombstones(s) \in [Hosts -> 0..NextRev]
BY SMTT(30), DeltaAssumption DEF TypeOK, Tombstones, NextRev

\* What StoreSnapshot does when the fleet has changed.
LEMMA StoreEffect ==
  ASSUME TypeOK, NEW s \in View, StoreSnapshot(s), s # snapshot
  PROVE  /\ snapshot' = s /\ rev' = rev + 1 /\ rev' <= MaxRev
         /\ hostRev' = [h \in Hosts |-> IF s[h] = Absent THEN 0
                                        ELSE IF s[h] # snapshot[h] THEN rev'
                                        ELSE hostRev[h]]
         /\ removedAt' \in [Hosts -> 0..rev']
         /\ minDeltaRev' \in 0..rev' /\ minDeltaRev' >= minDeltaRev
         /\ \A h \in Hosts : \/ removedAt'[h] = Tombstones(s)[h]
                             \/ /\ removedAt'[h] = 0
                                /\ Tombstones(s)[h] < minDeltaRev'
<1> USE DeltaAssumption
<1>1. rev \in Nat /\ rev + 1 \in Nat /\ minDeltaRev \in 0..(rev + 1)
  BY SMTT(30) DEF TypeOK
<1>2. PruneRemoved(Tombstones(s))
  BY DEF StoreSnapshot
<1>3. Tombstones(s) \in [Hosts -> 0..(rev + 1)]
  BY TombstonesType DEF NextRev
<1>4. snapshot' = s /\ rev' = rev + 1 /\ rev' <= MaxRev
  BY SMTT(30), <1>1 DEF StoreSnapshot, NextRev
<1>5. hostRev' = [h \in Hosts |-> IF s[h] = Absent THEN 0
                                  ELSE IF s[h] # snapshot[h] THEN rev'
                                  ELSE hostRev[h]]
  BY <1>4 DEF StoreSnapshot, NextRev
<1> QED
  BY <1>1, <1>2, <1>3, <1>4, <1>5, PruneEffect

\* An answer of the server is an answer.
LEMMA ReplyType ==
  ASSUME TypeOK, NEW c \in Clients, NEW since \in 0..MaxRev
  PROVE  Reply(c, since) \in AnswerType
<1> DEFINE sent == IF Resync(since) THEN Present(c) ELSE Changed(c, since)
<1>1. sent \in SUBSET Hosts /\ \A h \in sent : snapshot[h] \in States
  BY DeltaAssumption DEF Present, Changed, TypeOK, View
<1>2. Restrict(snapshot, sent) \in [sent -> States]
  BY <1>1 DEF Restrict
<1>3. Restrict(snapshot, sent) \in UNION {[S -> States] : S \in SUBSET Hosts}
  BY <1>1, <1>2
<1>4. Removed(c, since) \in SUBSET Hosts
  BY DeltaAssumption DEF Removed
<1>5. rev \in 0..MaxRev /\ boot \in 1..MaxBoots
  BY DEF TypeOK
<1> QED
  BY <1>3, <1>4, <1>5 DEF Reply, AnswerType

\* The empty fleet is a view.
LEMMA NobodyView == Nobody \in View
BY DEF Nobody, View

\* Every step of the server and of the clients keeps the types.
LEMMA TypeStep == TypeOK /\ [Next]_vars => TypeOK'
<1> SUFFICES ASSUME TypeOK, [Next]_vars PROVE TypeOK'
  OBVIOUS
<1> USE DeltaAssumption
<1>1. ASSUME NEW s \in View, StoreSnapshot(s) PROVE TypeOK'
  <2>1. CASE s = snapshot
    BY <1>1, <2>1 DEF StoreSnapshot, TypeOK
  <2>2. CASE s # snapshot
    <3>1. rev' \in 0..MaxRev /\ rev' = rev + 1 /\ rev \in Nat
      BY SMTT(30), <1>1, <2>2, StoreEffect DEF TypeOK
    <3>2. hostRev' \in [Hosts -> 0..rev']
      BY SMTT(30), <1>1, <2>2, <3>1, StoreEffect DEF TypeOK
    <3>3. removedAt' \in [Hosts -> 0..rev'] /\ minDeltaRev' \in 0..rev'
      BY <1>1, <2>2, StoreEffect
    <3>4. snapshot' \in View /\ primed' \in BOOLEAN
          /\ UNCHANGED <<boot, crev, index, asked, answers, synced>>
      BY <1>1 DEF StoreSnapshot
    <3> QED
      BY <3>1, <3>2, <3>3, <3>4 DEF TypeOK
  <2> QED
    BY <2>1, <2>2
<1>2. CASE Restart
  <2>1. snapshot' \in View /\ primed' \in BOOLEAN
    BY <1>2, NobodyView DEF Restart
  <2>2. rev' \in 0..MaxRev /\ minDeltaRev' \in 0..rev' /\ boot' \in 1..MaxBoots
        /\ hostRev' \in [Hosts -> 0..rev'] /\ removedAt' \in [Hosts -> 0..rev']
    BY SMTT(30), <1>2 DEF Restart, TypeOK
  <2>3. asked' \in [Clients -> SUBSET (0..MaxRev)]
    BY <1>2 DEF Restart
  <2> QED
    BY <1>2, <2>1, <2>2, <2>3 DEF Restart, TypeOK
<1>3. ASSUME NEW c \in Clients, NEW since \in asked[c], Answer(c, since) PROVE TypeOK'
  <2>1. since \in 0..MaxRev
    BY DEF TypeOK
  <2>2. Reply(c, since) \in AnswerType
    BY <2>1, ReplyType
  <2>3. asked' \in [Clients -> SUBSET (0..MaxRev)]
    BY <1>3 DEF Answer, TypeOK
  <2>4. answers' \in [Clients -> SUBSET AnswerType]
    BY <1>3, <2>2 DEF Answer, TypeOK
  <2> QED
    BY <1>3, <2>3, <2>4 DEF Answer, TypeOK, server
<1>4. ASSUME NEW c \in Clients, NEW a \in answers[c], Apply(c, a) PROVE TypeOK'
  <2>1. a \in AnswerType
    BY DEF TypeOK
  <2>2. PICK S \in SUBSET Hosts : a.changed \in [S -> States]
    BY <2>1 DEF AnswerType
  <2>3. Listed(a) \in View
    BY <2>2 DEF Listed, View
  <2>4. Patched(c, a) \in View
    BY SMTT(30), <2>2 DEF Patched, View, TypeOK
  <2>5. index' \in [Clients -> View]
    BY <1>4, <2>3, <2>4 DEF Apply, TypeOK
  <2>6. crev' \in [Clients -> 0..MaxRev] /\ synced' \in [Clients -> 0..MaxBoots]
    BY SMTT(30), <1>4, <2>1 DEF Apply, TypeOK, AnswerType
  <2>7. answers' \in [Clients -> SUBSET AnswerType]
    BY <1>4 DEF Apply, TypeOK
  <2> QED
    BY <1>4, <2>5, <2>6, <2>7 DEF Apply, TypeOK, server
<1>5. ASSUME NEW c \in Clients, Poll(c) PROVE TypeOK'
  <2>1. asked' \in [Clients -> SUBSET (0..MaxRev)]
    BY <1>5 DEF Poll, TypeOK
  <2> QED
    BY <1>5, <2>1 DEF Poll, TypeOK, server
<1>6. ASSUME NEW c \in Clients, Fail(c) PROVE TypeOK'
  <2>1. asked' \in [Clients -> SUBSET (0..MaxRev)]
    BY <1>6 DEF Fail, TypeOK
  <2>2. answers' \in [Clients -> SUBSET AnswerType]
    BY <1>6 DEF Fail, TypeOK
  <2> QED
    BY <1>6, <2>1, <2>2 DEF Fail, TypeOK, server
<1>7. ASSUME NEW c \in Clients, Invalidate(c) PROVE TypeOK'
  BY SMTT(30), <1>7 DEF Invalidate, TypeOK, server
<1>8. ASSUME NEW c \in Clients, Reset(c) PROVE TypeOK'
  BY SMTT(30), <1>8 DEF Reset, TypeOK, server, Nobody, View
<1>9. CASE UNCHANGED vars
  BY <1>9 DEF vars, server, TypeOK
<1> QED
  BY <1>1, <1>2, <1>3, <1>4, <1>5, <1>6, <1>7, <1>8, <1>9 DEF Next

\* The initial states are typed.
LEMMA TypeInit == Init => TypeOK
<1> SUFFICES ASSUME Init PROVE TypeOK
  OBVIOUS
<1>1. snapshot \in View /\ primed \in BOOLEAN /\ index \in [Clients -> View]
  BY NobodyView DEF Init
<1>2. rev \in 0..MaxRev /\ minDeltaRev \in 0..rev /\ boot \in 1..MaxBoots
      /\ hostRev \in [Hosts -> 0..rev] /\ removedAt \in [Hosts -> 0..rev]
  BY SMTT(30), DeltaAssumption DEF Init
<1>3. crev \in [Clients -> 0..MaxRev] /\ synced \in [Clients -> 0..MaxBoots]
      /\ asked \in [Clients -> SUBSET (0..MaxRev)]
      /\ answers \in [Clients -> SUBSET AnswerType]
  BY SMTT(30), DeltaAssumption DEF Init
<1> QED
  BY <1>1, <1>2, <1>3 DEF TypeOK

\* The bookkeeping stays within its types; in particular no map of the server
\* ever names a revision above the newest, and neither does minDeltaRev.
THEOREM TypeCorrect == Spec => []TypeOK
<1> QED
  BY TypeInit, TypeStep, PTL DEF Spec

-----------------------------------------------------------------------------
(***************************************************************************)
(* The two lists of an answer.                                             *)
(***************************************************************************)

\* A host that is here has no tombstone.
NoTombstone == \A h \in Hosts : snapshot[h] # Absent => removedAt[h] = 0

\* No step breaks NoTombstone.
LEMMA NoTombstoneStep == TypeOK /\ NoTombstone /\ [Next]_vars => NoTombstone'
<1> SUFFICES ASSUME TypeOK, NoTombstone, [Next]_vars PROVE NoTombstone'
  OBVIOUS
<1>1. ASSUME NEW s \in View, StoreSnapshot(s) PROVE NoTombstone'
  <2>1. CASE s = snapshot
    BY <1>1, <2>1 DEF StoreSnapshot, NoTombstone
  <2>2. CASE s # snapshot
    <3> SUFFICES ASSUME NEW h \in Hosts, s[h] # Absent PROVE removedAt'[h] = 0
      BY <1>1, <2>2, StoreEffect DEF NoTombstone
    <3>1. Tombstones(s)[h] = 0
      BY DEF Tombstones
    <3> QED
      BY <1>1, <2>2, <3>1, StoreEffect
  <2> QED
    BY <2>1, <2>2
<1>2. CASE Restart
  BY <1>2 DEF Restart, NoTombstone
<1>3. ASSUME UNCHANGED server PROVE NoTombstone'
  BY <1>3 DEF server, NoTombstone
<1> QED
  BY <1>1, <1>2, <1>3 DEF Next, vars, Answer, Apply, Poll, Fail, Invalidate, Reset

\* No step puts an answer under way whose lists overlap.
LEMMA ListsStep ==
  TypeOK /\ NoTombstone /\ ListsDisjoint /\ [Next]_vars => ListsDisjoint'
<1> SUFFICES ASSUME TypeOK, NoTombstone, ListsDisjoint, [Next]_vars,
                    NEW c \in Clients, NEW a \in answers'[c]
             PROVE  DOMAIN a.changed \cap a.removed = {}
  BY DEF ListsDisjoint
<1>1. ASSUME NEW d \in Clients, NEW since \in asked[d], Answer(d, since),
             a \notin answers[c]
      PROVE  DOMAIN a.changed \cap a.removed = {}
  <2>1. a = Reply(d, since)
    BY <1>1 DEF Answer, TypeOK
  <2>2. DOMAIN a.changed \subseteq {h \in Hosts : snapshot[h] # Absent}
    BY <2>1, DeltaAssumption DEF Reply, Restrict, Present, Changed
  <2>3. \A h \in a.removed : h \in Hosts /\ removedAt[h] > since
    BY <2>1, DeltaAssumption DEF Reply, Removed
  <2>4. since >= 0
    BY SMTT(30) DEF TypeOK
  <2> QED
    BY SMTT(30), <2>2, <2>3, <2>4 DEF NoTombstone, TypeOK
<1>2. a \in answers[c] => DOMAIN a.changed \cap a.removed = {}
  BY DEF ListsDisjoint
<1>3. ASSUME ~\E d \in Clients : \E since \in asked[d] : Answer(d, since)
      PROVE  a \in answers[c]
  BY SMTT(30), <1>3 DEF Next, vars, StoreSnapshot, Restart, Apply, Poll, Fail, Invalidate,
     Reset, TypeOK
<1> QED
  BY <1>1, <1>2, <1>3

\* No answer both changes and removes a host, with any number of clients,
\* requests and answers under way: storeSnapshotLocked deletes the tombstone of
\* a host that returns, whatever pruneRemovedLocked has done to the log.
THEOREM AnswersNeverOverlap == Spec => []ListsDisjoint
<1>1. Init => NoTombstone /\ ListsDisjoint
  BY DEF Init, NoTombstone, ListsDisjoint
<1> QED
  BY <1>1, TypeCorrect, NoTombstoneStep, ListsStep, PTL DEF Spec

-----------------------------------------------------------------------------
(***************************************************************************)
(* Nothing is forgotten.                                                   *)
(*                                                                         *)
(* The property is about a client that polls now; the invariant says the   *)
(* same of the client as it will be once the answer under way has been     *)
(* applied, which is why a client must have one request under way at most: *)
(* an answer is right for the revision it was asked with.                  *)
(***************************************************************************)

\* A poll with revision r of this process gets h anew.
Covered(h, r) ==
  \/ r <= 0 \/ r < minDeltaRev
  \/ snapshot[h] # Absent /\ hostRev[h] > r
  \/ removedAt[h] > r

\* A copy v of h taken at revision r is right, or will be put right.
Right(h, v, r) == v = snapshot[h] \/ Covered(h, r)

\* One request, or its answer, is under way, and it is about the revision the
\* client still has.
OneUnderWay(c) ==
  \/ asked[c] = {} /\ answers[c] = {}
  \/ asked[c] = {crev[c]} /\ answers[c] = {}
  \/ asked[c] = {} /\ \E a \in AnswerType : answers[c] = {a}

\* An answer of this process leaves the client that applies it right; one of
\* an earlier process finds, and leaves, a client that is not of this one.
AnswerRight(c, a) ==
  /\ a.boot <= boot
  /\ a.boot # boot => synced[c] # boot
  /\ a.boot = boot => a.rev <= rev
  /\ a.what = "delta" => crev[c] # 0
  /\ (a.boot = boot /\ a.what # "delta") =>
       \A h \in Scope[c] : Right(h, Listed(a)[h], a.rev)
  /\ (a.boot = boot /\ a.what = "delta" /\ synced[c] = boot) =>
       \A h \in Scope[c] : Right(h, Patched(c, a)[h], a.rev)

ClientRight(c) ==
  /\ OneUnderWay(c)
  /\ synced[c] <= boot
  /\ synced[c] = boot =>
       /\ crev[c] <= rev
       /\ \A h \in Scope[c] : Right(h, index[c][h], crev[c])
  /\ \A a \in answers[c] : AnswerRight(c, a)

DeltaInv == \A c \in Clients : ClientRight(c)

\* A copy that is right, or will be put right, stays so when the fleet
\* changes: the host's new revision, or its tombstone, is newer than the copy,
\* and a tombstone that is pruned takes the copy's revision with it.
LEMMA RightKept ==
  ASSUME TypeOK, NoTombstone, NEW s \in View, StoreSnapshot(s),
         NEW h \in Hosts, NEW v, NEW r \in Nat, r <= rev,
         Right(h, v, r)
  PROVE  Right(h, v, r)'
<1>1. CASE s = snapshot
  BY <1>1 DEF StoreSnapshot, Right, Covered
<1>2. CASE s # snapshot
  <2>1. /\ snapshot'[h] = s[h] /\ rev' = rev + 1 /\ rev \in Nat
        /\ minDeltaRev \in Nat /\ minDeltaRev' \in Nat /\ minDeltaRev' >= minDeltaRev
        /\ removedAt[h] \in Nat /\ removedAt'[h] \in Nat /\ hostRev[h] \in Nat
    BY SMTT(30), <1>2, StoreEffect DEF TypeOK
  <2>2. hostRev'[h] = IF s[h] = Absent THEN 0
                      ELSE IF s[h] # snapshot[h] THEN rev + 1 ELSE hostRev[h]
    BY <1>2, <2>1, StoreEffect
  <2>3. \/ removedAt'[h] = Tombstones(s)[h]
        \/ removedAt'[h] = 0 /\ Tombstones(s)[h] < minDeltaRev'
    BY <1>2, StoreEffect
  <2>4. Tombstones(s)[h] = IF s[h] # Absent THEN 0
                           ELSE IF snapshot[h] # Absent THEN rev + 1
                           ELSE removedAt[h]
    BY DEF Tombstones, NextRev
  <2>5. snapshot[h] # Absent => removedAt[h] = 0
    BY DEF NoTombstone
  <2> QED
    BY SMTT(30), <2>1, <2>2, <2>3, <2>4, <2>5 DEF Right, Covered
<1> QED
  BY <1>1, <1>2

\* Steps of the others leave a client right.
LEMMA OthersKept ==
  ASSUME NEW c \in Clients, ClientRight(c), UNCHANGED server,
         crev'[c] = crev[c], index'[c] = index[c], asked'[c] = asked[c],
         answers'[c] = answers[c], synced'[c] = synced[c]
  PROVE  ClientRight(c)'
<1>1. OneUnderWay(c)'
  BY DEF ClientRight, OneUnderWay
<1>2. \A a \in answers[c] : AnswerRight(c, a) => AnswerRight(c, a)'
  BY SMTT(30) DEF AnswerRight, Right, Covered, Listed, Patched, server
<1>3. (synced'[c] = boot' => crev'[c] <= rev') /\ synced'[c] <= boot'
  BY DEF ClientRight, server
<1>4. synced'[c] = boot' => \A h \in Scope[c] : Right(h, index[c][h], crev[c])'
  BY DEF ClientRight, Right, Covered, server
<1> QED
  BY <1>1, <1>2, <1>3, <1>4 DEF ClientRight

\* A client whose count of requests and answers under way is 0 has none.
LEMMA NonePending ==
  ASSUME NEW c \in Clients, OneUnderWay(c)
  PROVE  /\ Pending(c) \in Nat
         /\ Pending(c) = 0 => asked[c] = {} /\ answers[c] = {}
<1>1. IsFiniteSet(asked[c]) /\ IsFiniteSet(answers[c])
  <2>1. \A x : IsFiniteSet({x})
    BY FS_Singleton
  <2>2. IsFiniteSet({})
    BY FS_EmptySet
  <2> QED
    BY <2>1, <2>2 DEF OneUnderWay
<1>2. Cardinality(asked[c]) \in Nat /\ Cardinality(answers[c]) \in Nat
  BY <1>1, FS_CardinalityType
<1>3. Pending(c) = 0 => Cardinality(asked[c]) = 0 /\ Cardinality(answers[c]) = 0
  BY SMTT(30), <1>2 DEF Pending
<1>4. Pending(c) \in Nat
  BY SMTT(30), <1>2 DEF Pending
<1> QED
  BY <1>1, <1>3, <1>4, FS_EmptySet

\* What GetDelta sends is right for the revision it was asked with.
LEMMA ReplyRight ==
  ASSUME TypeOK, NoTombstone, NEW c \in Clients, ClientRight(c),
         asked[c] = {crev[c]}
  PROVE  AnswerRight(c, Reply(c, crev[c]))
<1> DEFINE since == crev[c]
           a == Reply(c, since)
<1> USE DeltaAssumption
<1>0. since \in Nat /\ rev \in Nat /\ boot \in Nat /\ minDeltaRev \in Nat
      /\ Scope[c] \subseteq Hosts
  BY SMTT(30) DEF TypeOK
<1>1. a.boot = boot /\ a.rev = rev
  BY DEF Reply
<1>2. a.what = "delta" <=> ~Resync(since)
  BY SMTT(30), <1>0 DEF Reply, Resync
<1>3. ASSUME Resync(since), NEW h \in Scope[c] PROVE Listed(a)[h] = snapshot[h]
  <2>1. a.changed = Restrict(snapshot, Present(c))
    BY <1>3 DEF Reply
  <2>2. DOMAIN a.changed = Present(c)
        /\ \A g \in Present(c) : a.changed[g] = snapshot[g]
    BY <2>1 DEF Restrict
  <2> QED
    BY <1>0, <2>2 DEF Listed, Present
<1>4. ASSUME ~Resync(since), synced[c] = boot, NEW h \in Scope[c]
      PROVE  Patched(c, a)[h] = snapshot[h]
  <2>1. a.changed = Restrict(snapshot, Changed(c, since)) /\ a.removed = Removed(c, since)
    BY <1>4 DEF Reply
  <2>2. DOMAIN a.changed = Changed(c, since)
        /\ \A g \in Changed(c, since) : a.changed[g] = snapshot[g]
    BY <2>1 DEF Restrict
  <2>3. Right(h, index[c][h], since)
    BY <1>4 DEF ClientRight
  <2>4. removedAt[h] > since => snapshot[h] = Absent
    BY SMTT(30), <1>0 DEF NoTombstone, TypeOK
  <2>5. Patched(c, a)[h] = IF h \in Changed(c, since) THEN snapshot[h]
                           ELSE IF h \in Removed(c, since) THEN Absent
                           ELSE index[c][h]
    BY <1>0, <2>1, <2>2 DEF Patched
  <2>6. h \in Changed(c, since) <=> snapshot[h] # Absent /\ hostRev[h] > since
    BY DEF Changed, Present
  <2>7. h \in Removed(c, since) <=> removedAt[h] > since
    BY DEF Removed
  <2> HIDE DEF a, since
  <2> QED
    BY <1>4, <2>3, <2>4, <2>5, <2>6, <2>7 DEF Right, Covered, Resync
<1>5. a.what = "delta" => crev[c] # 0
  BY SMTT(30), <1>0, <1>2 DEF Resync
<1>6. (a.what # "delta") => \A h \in Scope[c] : Right(h, Listed(a)[h], a.rev)
  BY <1>2, <1>3 DEF Right
<1>7. (a.what = "delta" /\ synced[c] = boot) =>
        \A h \in Scope[c] : Right(h, Patched(c, a)[h], a.rev)
  BY <1>2, <1>4 DEF Right
<1>8. AnswerRight(c, a)
  <2> HIDE DEF a
  <2> QED
    BY SMTT(30), <1>0, <1>1, <1>5, <1>6, <1>7 DEF AnswerRight
<1> QED
  BY <1>8

\* A client waits for its answer before it polls again, and a dashboard's
\* acknowledgement does not fall into a poll (the apps have no invalidate).
OneAtATime == MaxPending <= 1 /\ (AcksInFlight => Dashboards = {})

\* No step of such clients, or of the server, breaks DeltaInv.
LEMMA DeltaStep ==
  ASSUME OneAtATime, TypeOK, NoTombstone, DeltaInv, [Next]_vars
  PROVE  DeltaInv'
<1> USE DeltaAssumption
<1>0. \A c \in Clients : ClientRight(c)
  BY DEF DeltaInv
<1>1. ASSUME NEW s \in View, StoreSnapshot(s), NEW c \in Clients PROVE ClientRight(c)'
  <2>0. rev \in Nat /\ rev' \in Nat /\ rev <= rev' /\ crev[c] \in Nat
        /\ Scope[c] \subseteq Hosts
    <3>1. rev' = rev \/ rev' = rev + 1
      BY <1>1 DEF StoreSnapshot, NextRev
    <3> QED
      BY SMTT(30), <3>1 DEF TypeOK
  <2>1. UNCHANGED <<boot, crev, index, asked, answers, synced>>
    BY <1>1 DEF StoreSnapshot
  <2>2. ASSUME synced[c] = boot
        PROVE  crev[c] <= rev /\ \A h \in Scope[c] : Right(h, index[c][h], crev[c])'
    <3>1. crev[c] <= rev /\ \A h \in Scope[c] : Right(h, index[c][h], crev[c])
      BY <1>0, <2>2 DEF ClientRight
    <3> QED
      BY <1>1, <2>0, <2>1, <3>1, RightKept DEF Right, Covered
  <2>3. ASSUME NEW a \in answers[c] PROVE AnswerRight(c, a)'
    <3>1. AnswerRight(c, a) /\ a.rev \in Nat
      BY SMTT(30), <1>0 DEF ClientRight, TypeOK, AnswerType
    <3>2. Listed(a)' = Listed(a) /\ Patched(c, a)' = Patched(c, a)
      BY <2>1 DEF Listed, Patched
    <3>3. ASSUME NEW h \in Scope[c], NEW v, Right(h, v, a.rev), a.rev <= rev
          PROVE  Right(h, v, a.rev)'
      BY <1>1, <2>0, <3>1, <3>3, RightKept
    <3>4. ASSUME a.boot = boot, a.what # "delta", NEW h \in Scope[c]
          PROVE  Right(h, Listed(a)[h], a.rev)'
      BY <3>1, <3>2, <3>3, <3>4 DEF AnswerRight, Right, Covered
    <3>5. ASSUME a.boot = boot, a.what = "delta", synced[c] = boot, NEW h \in Scope[c]
          PROVE  Right(h, Patched(c, a)[h], a.rev)'
      BY <3>1, <3>2, <3>3, <3>5 DEF AnswerRight, Right, Covered
    <3> QED
      BY SMTT(30), <2>0, <2>1, <3>1, <3>4, <3>5 DEF AnswerRight
  <2>4. OneUnderWay(c)'
    BY <1>0, <2>1 DEF ClientRight, OneUnderWay
  <2> QED
    BY SMTT(30), <1>0, <2>0, <2>1, <2>2, <2>3, <2>4 DEF ClientRight
<1>2. ASSUME Restart, NEW c \in Clients PROVE ClientRight(c)'
  <2>1. boot' = boot + 1 /\ boot \in Nat /\ synced'[c] = synced[c] /\ synced[c] \in Nat
        /\ answers' = answers /\ asked'[c] = {} /\ crev' = crev /\ synced[c] <= boot
    BY SMTT(30), <1>0, <1>2 DEF Restart, TypeOK, ClientRight
  <2>2. OneUnderWay(c)'
    BY <1>0, <2>1 DEF ClientRight, OneUnderWay
  <2>3. ASSUME NEW a \in answers[c] PROVE AnswerRight(c, a)'
    <3>1. a.boot <= boot /\ a.boot \in Nat /\ (a.what = "delta" => crev[c] # 0)
      BY SMTT(30), <1>0 DEF ClientRight, AnswerRight, TypeOK, AnswerType
    <3> QED
      BY SMTT(30), <2>1, <3>1 DEF AnswerRight
  <2> QED
    BY SMTT(30), <2>1, <2>2, <2>3 DEF ClientRight
<1>3. ASSUME NEW c \in Clients, NEW since \in asked[c], Answer(c, since)
      PROVE  ClientRight(c)'
  <2>1. asked[c] = {crev[c]} /\ answers[c] = {} /\ since = crev[c]
    BY <1>0 DEF ClientRight, OneUnderWay
  <2>2. asked'[c] = {} /\ answers'[c] = {Reply(c, since)}
        /\ UNCHANGED <<server, crev, index, synced>>
    BY <1>3, <2>1 DEF Answer, TypeOK
  <2>3. AnswerRight(c, Reply(c, since))
    BY <1>0, <2>1, ReplyRight
  <2>4. \A a : AnswerRight(c, a) => AnswerRight(c, a)'
    BY SMTT(30), <2>2 DEF AnswerRight, Right, Covered, Listed, Patched, server
  <2>5. Reply(c, since) \in AnswerType
    BY <2>1, ReplyType DEF TypeOK
  <2>6. OneUnderWay(c)'
    BY <2>2, <2>5 DEF OneUnderWay
  <2>7. \A a \in answers'[c] : AnswerRight(c, a)'
    BY <2>2, <2>3, <2>4
  <2>8. synced'[c] <= boot' /\ (synced'[c] = boot' =>
          crev'[c] <= rev' /\ \A h \in Scope[c] : Right(h, index[c][h], crev[c])')
    BY <1>0, <2>2 DEF ClientRight, server, Right, Covered
  <2> QED
    BY <2>6, <2>7, <2>8 DEF ClientRight
<1>4. ASSUME NEW c \in Clients, NEW a \in answers[c], Apply(c, a) PROVE ClientRight(c)'
  <2>1. asked[c] = {} /\ answers[c] = {a} /\ AnswerRight(c, a) /\ a \in AnswerType
    BY <1>0 DEF ClientRight, OneUnderWay
  <2>2. asked'[c] = {} /\ answers'[c] = {} /\ UNCHANGED server /\ crev'[c] = a.rev
        /\ index'[c] = (IF a.what # "delta" THEN Listed(a) ELSE Patched(c, a))
        /\ synced'[c] = (IF a.what # "delta" THEN a.boot ELSE synced[c])
    BY <1>4, <2>1 DEF Apply, TypeOK, TakenAsFull, AnswerRight
  <2>3. OneUnderWay(c)' /\ \A b \in answers'[c] : AnswerRight(c, b)'
    BY <2>2 DEF OneUnderWay
  <2>4. synced'[c] <= boot' /\ synced[c] <= boot
    BY <1>0, <2>1, <2>2 DEF ClientRight, AnswerRight, server
  <2>5. ASSUME synced'[c] = boot'
        PROVE  crev'[c] <= rev' /\ \A h \in Scope[c] : Right(h, index[c][h], crev[c])'
    <3>1. a.boot = boot /\ (a.what = "delta" => synced[c] = boot)
      BY <2>1, <2>2, <2>5 DEF AnswerRight, server
    <3>2. a.rev <= rev /\ \A h \in Scope[c] :
            Right(h, (IF a.what # "delta" THEN Listed(a) ELSE Patched(c, a))[h], a.rev)
      BY <2>1, <3>1 DEF AnswerRight
    <3> QED
      BY <2>2, <3>2 DEF Right, Covered, server
  <2> QED
    BY <2>3, <2>4, <2>5 DEF ClientRight
<1>5. ASSUME NEW c \in Clients, Poll(c) PROVE ClientRight(c)'
  <2>1. asked[c] = {} /\ answers[c] = {}
    <3>1. Pending(c) = 0
      BY SMTT(30), <1>0, <1>5, NonePending DEF Poll, ClientRight, OneAtATime
    <3> QED
      BY <1>0, <3>1, NonePending DEF ClientRight
  <2>2. asked'[c] = {crev[c]} /\ UNCHANGED <<server, crev, index, answers, synced>>
    BY <1>5, <2>1 DEF Poll, TypeOK
  <2>3. OneUnderWay(c)' /\ answers'[c] = {}
    BY <2>1, <2>2 DEF OneUnderWay
  <2>4. synced'[c] <= boot' /\ (synced'[c] = boot' =>
          crev'[c] <= rev' /\ \A h \in Scope[c] : Right(h, index[c][h], crev[c])')
    BY <1>0, <2>2 DEF ClientRight, server, Right, Covered
  <2> QED
    BY <2>3, <2>4 DEF ClientRight
<1>6. ASSUME NEW c \in Clients, Fail(c) PROVE ClientRight(c)'
  <2>1. asked'[c] = {} /\ answers'[c] = {} /\ UNCHANGED <<server, crev, index, synced>>
    BY SMTT(30), <1>0, <1>6 DEF ClientRight, OneUnderWay, Fail, TypeOK
  <2>2. OneUnderWay(c)'
    BY <2>1 DEF OneUnderWay
  <2>3. synced'[c] <= boot' /\ (synced'[c] = boot' =>
          crev'[c] <= rev' /\ \A h \in Scope[c] : Right(h, index[c][h], crev[c])')
    BY <1>0, <2>1 DEF ClientRight, server, Right, Covered
  <2> QED
    BY <2>1, <2>2, <2>3 DEF ClientRight
<1>7. ASSUME NEW c \in Clients, Invalidate(c) PROVE ClientRight(c)'
  <2>1. asked[c] = {} /\ answers[c] = {}
    <3>1. Pending(c) = 0
      BY <1>7 DEF Invalidate, OneAtATime
    <3> QED
      BY <1>0, <3>1, NonePending DEF ClientRight
  <2>2. crev'[c] = 0 /\ UNCHANGED <<server, index, asked, answers, synced>> /\ rev \in Nat
    BY SMTT(30), <1>7 DEF Invalidate, TypeOK
  <2>3. OneUnderWay(c)' /\ answers'[c] = {}
    BY <2>1, <2>2 DEF OneUnderWay
  <2>4. \A h, v : Right(h, v, 0)'
    BY SMTT(30) DEF Right, Covered
  <2> QED
    BY SMTT(30), <1>0, <2>2, <2>3, <2>4 DEF ClientRight, server
<1>8. ASSUME NEW c \in Clients, Reset(c) PROVE ClientRight(c)'
  <2>1. asked'[c] = {} /\ answers'[c] = {} /\ synced'[c] = 0 /\ UNCHANGED server
        /\ boot \in Nat \ {0}
    BY SMTT(30), <1>8 DEF Reset, TypeOK
  <2>2. OneUnderWay(c)'
    BY <2>1 DEF OneUnderWay
  <2> QED
    BY SMTT(30), <2>1, <2>2 DEF ClientRight, server
<1>9. ASSUME NEW d \in Clients, NEW c \in Clients, c # d,
             \/ \E since \in asked[d] : Answer(d, since)
             \/ \E a \in answers[d] : Apply(d, a)
             \/ Poll(d) \/ Fail(d) \/ Invalidate(d) \/ Reset(d)
      PROVE  ClientRight(c)'
  <2>1. UNCHANGED server /\ crev'[c] = crev[c] /\ index'[c] = index[c]
        /\ asked'[c] = asked[c] /\ answers'[c] = answers[c] /\ synced'[c] = synced[c]
    BY <1>9 DEF Answer, Apply, Poll, Fail, Invalidate, Reset, TypeOK
  <2> QED
    BY <1>0, <2>1, OthersKept
<1>10. ASSUME UNCHANGED vars, NEW c \in Clients PROVE ClientRight(c)'
  BY <1>0, <1>10, OthersKept DEF vars
<1> QED
  <2> SUFFICES ASSUME NEW c \in Clients PROVE ClientRight(c)'
    BY DEF DeltaInv
  <2> QED
    BY <1>1, <1>2, <1>3, <1>4, <1>5, <1>6, <1>7, <1>8, <1>9, <1>10 DEF Next

\* DeltaInv, with the facts about the server it needs, is an invariant.
LEMMA DeltaInvariant == OneAtATime /\ Spec => [](TypeOK /\ DeltaInv)
<1> SUFFICES ASSUME OneAtATime PROVE Spec => [](TypeOK /\ DeltaInv)
  OBVIOUS
<1>1. Init => NoTombstone /\ DeltaInv
  BY SMTT(30) DEF Init, NoTombstone, DeltaInv, ClientRight, OneUnderWay
<1>2. TypeOK /\ NoTombstone /\ DeltaInv /\ [Next]_vars => DeltaInv'
  BY DeltaStep
<1> QED
  BY <1>1, <1>2, TypeCorrect, NoTombstoneStep, PTL DEF Spec

\* Where a client's copy of a host differs from the server's, its next poll
\* repairs it: for every fleet, site, log length and history of changes,
\* prunes, restarts and losses, for clients that wait for one answer before
\* they ask again and whose acknowledgements do not fall into a poll.
THEOREM NothingIsForgotten == OneAtATime /\ Spec => []NothingForgotten
<1>1. DeltaInv => NothingForgotten
  BY DEF DeltaInv, ClientRight, Right, Covered, NothingForgotten, Resync, Changed,
     Present, Removed
<1> QED
  BY <1>1, DeltaInvariant, PTL

\* For such clients `hosts` is the complete current list at the newest
\* revision: of clients that poll one at a time, only one whose acknowledgement
\* falls into a poll can hold the newest revision with an incomplete list.
THEOREM ListCompleteWithoutLateAcks == OneAtATime /\ Spec => []HostsCompleteCurrent
<1>1. TypeOK /\ DeltaInv => HostsCompleteCurrent
  <2> SUFFICES ASSUME TypeOK, DeltaInv, NEW c \in Clients, NEW h \in Scope[c],
                      synced[c] = boot, crev[c] = rev, rev > 0
               PROVE  index[c][h] = snapshot[h]
    BY DEF HostsCompleteCurrent, Current
  <2>1. Right(h, index[c][h], rev)
    BY DEF DeltaInv, ClientRight
  <2>2. hostRev[h] \in 0..rev /\ removedAt[h] \in 0..rev /\ minDeltaRev \in 0..rev
        /\ rev \in Nat
    BY SMTT(30), DeltaAssumption DEF TypeOK
  <2> QED
    BY SMTT(30), <2>1, <2>2 DEF Right, Covered
<1> QED
  BY <1>1, DeltaInvariant, PTL
=============================================================================
