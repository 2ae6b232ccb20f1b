---------------------------- MODULE WatchProofs -----------------------------
(***************************************************************************)
(* Theorems about Watch: its types, the queue and its marks, the checks    *)
(* that are never killed for good, and the dependents that wait.           *)
(***************************************************************************)
EXTENDS Watch, ListsProofs, FiniteSetTheorems, SequenceTheorems

\* Zenon proves the steps that name no other prover.
USE ZenonT(30)

(***************************************************************************)
(* The walk of the dependency graph.                                       *)
(***************************************************************************)
Closed(S) ==
  /\ ~queued[Root] => Root \in S
  /\ \A o \in S : Passes(o) => \A p \in Neighbors[o] : ~queued[p] => p \in S

\* The walk stays inside every closed set.
LEMMA WalkedInside ==
  ASSUME NEW S \in SUBSET Objects, Closed(S)
  PROVE  Walked \subseteq S
BY DEF Walked, Closed

\* walk_queue_checks_add turns back at a queued object.
LEMMA WalkedUnqueued ==
  ASSUME NEW o \in Walked
  PROVE  o \in Objects /\ ~queued[o]
<1> DEFINE S == {p \in Objects : ~queued[p]}
<1>1. Closed(S)
  BY GraphAssumption DEF Closed
<1> QED
  BY <1>1, WalkedInside

\* It comes to an object from the root or across a neighbour that it passes.
LEMMA WalkedReached ==
  ASSUME NEW o \in Walked, o # Root
  PROVE  \E p \in Neighbors[o] : ~queued[p] /\ Passes(p)
<1> SUFFICES ASSUME \A p \in Neighbors[o] : ~queued[p] => ~Passes(p)
             PROVE  FALSE
  OBVIOUS
<1> DEFINE S == {p \in Objects : ~queued[p]} \ {o}
<1>0. o \in Objects
  BY WalkedUnqueued
<1>1. \A x \in S : Passes(x) => \A p \in Neighbors[x] : ~queued[p] => p \in S
  <2> SUFFICES ASSUME NEW x \in S, Passes(x), NEW p \in Neighbors[x], ~queued[p]
               PROVE  p \in S
    OBVIOUS
  <2>1. p \in Objects /\ x \in Neighbors[p]
    BY GraphAssumption
  <2>2. p # o
    BY <2>1
  <2> QED
    BY <2>1, <2>2
<1>2. Closed(S)
  BY <1>1, GraphAssumption DEF Closed
<1>3. o \in S
  BY <1>2, WalkedInside
<1> QED
  BY <1>3

(***************************************************************************)
(* What one call of queue_checks adds.                                     *)
(***************************************************************************)
\* The order is a list in which no object comes twice.
LEMMA OrderIsAList ==
  ASSUME NEW s \in Orders
  PROVE  /\ s \in Seq(Objects) /\ Len(s) = Cardinality(Objects)
         /\ \A i, j \in 1..Len(s) : s[i] = s[j] => i = j
<1> DEFINE n == Cardinality(Objects)
<1>1. n \in Nat
  BY GraphAssumption, FS_CardinalityType
<1>2. s \in [1..n -> Objects] /\ \A o \in Objects : \E i \in 1..n : s[i] = o
  BY DEF Orders
<1>3. s \in Seq(Objects) /\ Len(s) = n
  BY SMTT(30), <1>1, <1>2
<1>4. IsFiniteSet(1..n) /\ Cardinality(1..n) = n
  BY SMTT(30), <1>1, FS_Interval
<1> HIDE DEF n
<1>5. s \in Surjection(1..n, Objects)
  BY <1>2 DEF Surjection
<1>6. s \in Injection(1..n, Objects)
  BY <1>4, <1>5, FS_SurjSameCardinalityImpliesInj DEF n
<1>7. \A i, j \in 1..n : s[i] = s[j] => i = j
  BY <1>2, <1>6 DEF Injection, IsInjective
<1> QED
  BY <1>3, <1>7 DEF n

\* What is queued is due, reached, not queued yet, and fits.
LEMMA ToQueueFits ==
  ASSUME order \in Orders, numqueued \in 0..MaxQueued
  PROVE  /\ ToQueue \in Seq(Objects)
         /\ Len(ToQueue) \in 0..Room
         /\ \A k \in 1..Len(ToQueue) : ToQueue[k] \in Walked
         /\ \A j, k \in 1..Len(ToQueue) : ToQueue[j] = ToQueue[k] => j = k
<1> DEFINE due == Filter(order, Collected)
           m == IF Len(due) <= Room THEN Len(due) ELSE Room
<1>1. /\ order \in Seq(Objects) /\ Len(order) \in Nat
      /\ \A i, j \in 1..Len(order) : order[i] = order[j] => i = j
  BY SMTT(30), OrderIsAList
<1>2. due \in Seq(Objects) /\ \E h : KeptSoFar(due, h, order, Collected, Len(order))
  BY <1>1, FilterKeeps
<1>3. ToQueue = SubSeq(due, 1, m)
  BY DEF ToQueue
<1>4. Room \in Nat
  BY SMTT(30), LimitAssumption DEF Room
<1> HIDE DEF due
<1>5. Len(due) \in Nat /\ m \in Nat /\ m <= Len(due) /\ m <= Room
  BY SMTT(30), <1>2, <1>4
<1>6. PICK h : KeptSoFar(due, h, order, Collected, Len(order))
  BY <1>2
<1>7. \A k \in 1..Len(due) : due[k] = order[h[k]] /\ due[k] \in Collected
        /\ h[k] \in 1..Len(order)
  BY <1>6 DEF KeptSoFar
<1>8. \A j, k \in 1..Len(due) : due[j] = due[k] => j = k
  <2> SUFFICES ASSUME NEW j \in 1..Len(due), NEW k \in 1..Len(due), due[j] = due[k]
               PROVE  j = k
    OBVIOUS
  <2>1. h[j] = h[k]
    BY SMTT(30), <1>1, <1>7
  <2>2. j < k => h[j] < h[k]
    BY <1>6 DEF KeptSoFar
  <2>3. k < j => h[k] < h[j]
    BY <1>6 DEF KeptSoFar
  <2> QED
    BY SMTT(30), <1>5, <1>7, <2>1, <2>2, <2>3
<1> HIDE DEF m
<1>9. /\ SubSeq(due, 1, m) \in Seq(Objects) /\ Len(SubSeq(due, 1, m)) = m
      /\ \A k \in 1..m : SubSeq(due, 1, m)[k] = due[k] /\ k \in 1..Len(due)
  BY SMTT(30), <1>2, <1>5
<1>10. \A k \in 1..Len(ToQueue) : ToQueue[k] \in Walked
  BY <1>3, <1>7, <1>9 DEF Collected
<1> QED
  BY SMTT(30), <1>3, <1>4, <1>5, <1>8, <1>9, <1>10

\* The numbers up to k are k many.
LEMMA UpTo ==
  ASSUME NEW k \in Nat
  PROVE  IsFiniteSet(1..k) /\ Cardinality(1..k) = k
BY SMTT(30), FS_Interval

(***************************************************************************)
(* The queue and its marks.                                                *)
(***************************************************************************)
Q == 1..Len(queue)

OneEach == \A i, j \in Q : queue[i].obj = queue[j].obj => i = j

\* The marks a list of entries needs, and the entries a mark needs.
Marks == \A i \in Q : queued[queue[i].obj]

Listed == pc # "reload" /\ ~badconfig =>
            \A o \in Objects : queued[o] => \E i \in Q : queue[i].obj = o

QueueInv ==
  /\ TypeOK
  /\ order \in Orders
  /\ numqueued = Len(queue)
  /\ OneEach /\ Marks /\ Listed
  /\ pc = "reload" => queue = <<>>

\* e may have become f: the same check, woken and serviced however often.
SameCheck(e, f) == f \in EntryType /\ f.obj = e.obj

\* The members of a queue.
LEMMA QueueEntries ==
  ASSUME TypeOK
  PROVE  /\ Len(queue) \in Nat /\ DOMAIN queue = Q
         /\ \A i \in Q : queue[i] \in EntryType /\ queue[i].obj \in Objects
<1>1. queue \in Seq(EntryType)
  BY DEF TypeOK
<1>2. Len(queue) \in Nat /\ DOMAIN queue = Q /\ \A i \in Q : queue[i] \in EntryType
  BY SMTT(30), <1>1 DEF Q
<1>3. \A e \in EntryType : e.obj \in Objects
  BY DEF EntryType
<1> QED
  BY <1>2, <1>3

\* Changing the entries one by one keeps what QueueInv says of them.
LEMMA PointwiseChange ==
  ASSUME QueueInv, queue' = [i \in DOMAIN queue |-> queue'[i]],
         \A i \in Q : SameCheck(queue[i], queue'[i]),
         UNCHANGED <<queued, numqueued, badconfig, order>>,
         pc # "reload" /\ pc' # "reload"
  PROVE  /\ queue' \in Seq(EntryType) /\ numqueued' = Len(queue')
         /\ OneEach' /\ Marks' /\ Listed'
<1>1. /\ Len(queue) \in Nat /\ DOMAIN queue = Q
      /\ \A i \in Q : queue[i].obj \in Objects
  BY QueueEntries DEF QueueInv
<1>2. queue' \in Seq(EntryType) /\ Len(queue') = Len(queue)
  <2>1. queue' = [i \in 1..Len(queue) |-> queue'[i]]
    BY <1>1 DEF Q
  <2>2. \A i \in 1..Len(queue) : queue'[i] \in EntryType
    BY DEF Q, SameCheck
  <2>3. queue' \in [1..Len(queue) -> EntryType]
    BY <2>1, <2>2
  <2> QED
    BY SMTT(30), <1>1, <2>3
<1>3. Q' = Q
  BY <1>2 DEF Q
<1>4. \A i \in Q : queue'[i].obj = queue[i].obj
  BY DEF SameCheck
<1>5. OneEach'
  BY SMTT(30), <1>3, <1>4 DEF QueueInv, OneEach
<1>6. Marks'
  BY <1>3, <1>4 DEF QueueInv, Marks
<1>7. Listed'
  BY <1>3, <1>4 DEF QueueInv, Listed
<1> QED
  BY <1>2, <1>5, <1>6, <1>7 DEF QueueInv

\* h says where the entries of the new queue were in the old one.
Survivors(h) ==
  /\ h \in [1..Len(queue') -> Q]
  /\ \A j, k \in 1..Len(queue') : j < k => h[j] < h[k]
  /\ \A k \in 1..Len(queue') :
       /\ SameCheck(queue[h[k]], queue'[k])
       /\ queue[h[k]].retval = Pending
       /\ queue'[k].wakeups = queue[h[k]].wakeups
       /\ queue'[k].retval \in Says
  /\ \A i \in Q : queue[i].retval = Pending => \E k \in 1..Len(queue') : h[k] = i

\* service_checks keeps the checks without a result, in their order.
LEMMA ServiceKeeps ==
  ASSUME TypeOK, NEW next, Service(next)
  PROVE  /\ queue' \in Seq(EntryType)
         /\ numqueued' = numqueued - (Len(queue) - Len(queue'))
         /\ \E h : Survivors(h)
<1> DEFINE open == {i \in DOMAIN queue : queue[i].retval = Pending}
           E == {queue[i] : i \in open}
           kept == Filter(queue, E)
<1>1. /\ Len(queue) \in Nat /\ DOMAIN queue = Q
      /\ \A i \in Q : queue[i] \in EntryType
  BY QueueEntries
<1>2. queue \in Seq(EntryType)
  BY DEF TypeOK
<1>3. kept \in Seq(EntryType) /\ \E h : KeptSoFar(kept, h, queue, E, Len(queue))
  BY <1>2, FilterKeeps
<1>4. /\ \E says \in [DOMAIN kept -> Says] :
           queue' = [i \in DOMAIN kept |-> Serviced(kept[i], says[i])]
      /\ numqueued' = numqueued - (Len(queue) - Len(kept))
  BY DEF Service
<1>5. \A i \in Q : queue[i] \in E <=> queue[i].retval = Pending
  BY <1>1
<1> HIDE DEF kept, E
<1>6. PICK h : KeptSoFar(kept, h, queue, E, Len(queue))
  BY <1>3
<1>7. PICK says \in [DOMAIN kept -> Says] :
        queue' = [i \in DOMAIN kept |-> Serviced(kept[i], says[i])]
  BY <1>4
<1>8. Len(kept) \in Nat /\ DOMAIN kept = 1..Len(kept)
  BY SMTT(30), <1>3
<1>9. \A i \in 1..Len(kept) :
        /\ kept[i] \in EntryType /\ says[i] \in Says
        /\ Serviced(kept[i], says[i]) \in EntryType
        /\ Serviced(kept[i], says[i]).obj = kept[i].obj
        /\ Serviced(kept[i], says[i]).wakeups = kept[i].wakeups
        /\ Serviced(kept[i], says[i]).retval = says[i]
  <2> SUFFICES ASSUME NEW i \in 1..Len(kept)
               PROVE  /\ kept[i] \in EntryType /\ says[i] \in Says
                      /\ Serviced(kept[i], says[i]) \in EntryType
                      /\ Serviced(kept[i], says[i]).obj = kept[i].obj
                      /\ Serviced(kept[i], says[i]).wakeups = kept[i].wakeups
                      /\ Serviced(kept[i], says[i]).retval = says[i]
    OBVIOUS
  <2>1. kept[i] \in EntryType /\ says[i] \in Says
    BY SMTT(30), <1>3, <1>8
  <2>2. says[i] \in Results \cup {Pending}
    BY <2>1 DEF Says, Results
  <2> QED
    BY <2>1, <2>2 DEF Serviced, EntryType
<1>10. queue' \in [1..Len(kept) -> EntryType]
  BY <1>7, <1>8, <1>9
<1>11. queue' \in Seq(EntryType) /\ Len(queue') = Len(kept)
  BY SMTT(30), <1>8, <1>10
<1>12. \A k \in 1..Len(kept) :
         /\ queue'[k].obj = kept[k].obj /\ queue'[k].wakeups = kept[k].wakeups
         /\ queue'[k].retval \in Says /\ queue'[k] \in EntryType
  BY <1>7, <1>8, <1>9, <1>10
<1>13. /\ h \in [1..Len(kept) -> Q]
       /\ \A j, k \in 1..Len(kept) : j < k => h[j] < h[k]
       /\ \A k \in 1..Len(kept) : kept[k] = queue[h[k]] /\ queue[h[k]].retval = Pending
       /\ \A i \in Q : queue[i].retval = Pending => \E k \in 1..Len(kept) : h[k] = i
  BY <1>5, <1>6 DEF KeptSoFar, Q
<1>14. Survivors(h)
  BY <1>11, <1>12, <1>13 DEF Survivors, SameCheck
<1> QED
  BY <1>4, <1>11, <1>14

\* service_checks takes the mark from what it retires, and only from that.
LEMMA ServicePreserves ==
  ASSUME QueueInv, NEW next \in Stages, next # "reload", Service(next), pc # "reload",
         UNCHANGED <<throttled, signalled, config>>
  PROVE  QueueInv'
<1> DEFINE open == {i \in DOMAIN queue : queue[i].retval = Pending}
           done == {queue[i].obj : i \in DOMAIN queue \ open}
<1>0. TypeOK /\ OneEach /\ Marks /\ Listed /\ numqueued = Len(queue)
  BY DEF QueueInv
<1>1. /\ Len(queue) \in Nat /\ DOMAIN queue = Q
      /\ \A i \in Q : queue[i] \in EntryType /\ queue[i].obj \in Objects
  BY <1>0, QueueEntries
<1>2. /\ queue' \in Seq(EntryType) /\ \E h : Survivors(h)
      /\ numqueued' = numqueued - (Len(queue) - Len(queue'))
  BY <1>0, ServiceKeeps
<1>3. PICK h : Survivors(h)
  BY <1>2
<1>4. Len(queue') \in Nat /\ numqueued' = Len(queue')
  BY SMTT(30), <1>0, <1>1, <1>2
<1>5. /\ lastcheck' = [o \in Objects |->
           IF o \in done
             THEN queue[CHOOSE i \in DOMAIN queue : queue[i].obj = o].retval
             ELSE lastcheck[o]]
      /\ wait' = [o \in Objects |-> IF o \in done THEN QueueTime ELSE wait[o]]
      /\ queued' = [o \in Objects |-> queued[o] /\ o \notin done]
      /\ order' \in Orders /\ pc' = next
  BY DEF Service, Retired
<1>6. \A i \in Q : queue[i].retval # Pending <=> queue[i].obj \in done
  BY <1>0, <1>1 DEF OneEach
<1>7. \A k \in 1..Len(queue') :
        h[k] \in Q /\ queue'[k].obj = queue[h[k]].obj /\ queue'[k].obj \notin done
  BY SMTT(30), <1>3, <1>6 DEF Survivors, SameCheck
<1>8. lastcheck' \in [Objects -> Results]
  <2> SUFFICES ASSUME NEW o \in Objects, o \in done
               PROVE  queue[CHOOSE i \in DOMAIN queue : queue[i].obj = o].retval \in Results
    BY <1>0, <1>5 DEF TypeOK
  <2> DEFINE c == CHOOSE i \in DOMAIN queue : queue[i].obj = o
  <2>1. c \in Q /\ queue[c].obj = o
    BY <1>1
  <2> HIDE DEF c
  <2>2. queue[c].retval # Pending /\ queue[c] \in EntryType
    BY <1>1, <1>6, <2>1
  <2>3. queue[c].retval \in Results
    BY <2>2 DEF EntryType
  <2> QED
    BY <2>3 DEF c
<1>9. wait' \in [Objects -> 0..QueueTime] /\ queued' \in [Objects -> BOOLEAN]
  BY SMTT(30), <1>0, <1>5, LimitAssumption DEF TypeOK
<1>10. OneEach'
  <2> SUFFICES ASSUME NEW j \in 1..Len(queue'), NEW k \in 1..Len(queue'),
                      queue'[j].obj = queue'[k].obj
               PROVE  j = k
    BY DEF OneEach, Q
  <2>1. h[j] = h[k] /\ h[j] \in Q
    BY SMTT(30), <1>0, <1>7 DEF OneEach
  <2>2. (j < k => h[j] < h[k]) /\ (k < j => h[k] < h[j])
    BY <1>3 DEF Survivors
  <2>3. h[j] \in Nat
    BY SMTT(30), <1>1, <2>1 DEF Q
  <2> QED
    BY SMTT(30), <1>4, <2>1, <2>2, <2>3
<1>11. Marks'
  BY <1>0, <1>1, <1>5, <1>7 DEF Marks, Q
<1>12. Listed'
  <2> SUFFICES ASSUME ~badconfig', NEW o \in Objects, queued'[o]
               PROVE  \E k \in 1..Len(queue') : queue'[k].obj = o
    BY DEF Listed, Q
  <2>1. queued[o] /\ o \notin done /\ ~badconfig
    BY <1>5 DEF config
  <2>2. PICK i \in Q : queue[i].obj = o
    BY <1>0, <2>1 DEF Listed
  <2>3. queue[i].retval = Pending
    BY <1>6, <2>1, <2>2
  <2>4. PICK k \in 1..Len(queue') : h[k] = i
    BY <1>3, <2>3 DEF Survivors
  <2> QED
    BY <1>7, <2>2, <2>4
<1>13. numqueued' \in 0..MaxQueued + 1
  <2>1. Len(queue') <= Len(queue)
    <3>1. IsFiniteSet(Q) /\ Cardinality(Q) = Len(queue)
      BY <1>1, UpTo DEF Q
    <3>2. Cardinality(1..Len(queue')) = Len(queue')
      BY <1>4, UpTo
    <3>3. h \in Injection(1..Len(queue'), Q)
      <4>1. h \in [1..Len(queue') -> Q]
        BY <1>3 DEF Survivors
      <4>2. \A j, k \in 1..Len(queue') : h[j] = h[k] => j = k
        <5> SUFFICES ASSUME NEW j \in 1..Len(queue'), NEW k \in 1..Len(queue'),
                            h[j] = h[k]
                     PROVE  j = k
          OBVIOUS
        <5>1. (j < k => h[j] < h[k]) /\ (k < j => h[k] < h[j])
          BY <1>3 DEF Survivors
        <5>2. h[j] \in Nat
          BY SMTT(30), <1>1, <4>1 DEF Q
        <5> QED
          BY SMTT(30), <1>4, <5>1, <5>2
      <4> QED
        BY <4>1, <4>2 DEF Injection, IsInjective
    <3> QED
      BY SMTT(30), <3>1, <3>2, <3>3, FS_Injection
  <2> QED
    BY SMTT(30), <1>0, <1>1, <1>4, <2>1, LimitAssumption DEF TypeOK
<1>14. order' \in [1..Cardinality(Objects) -> Objects]
  BY <1>5 DEF Orders
<1>15. TypeOK'
  BY <1>0, <1>2, <1>5, <1>8, <1>9, <1>13, <1>14 DEF TypeOK, signalled, config
<1> QED
  BY <1>4, <1>5, <1>10, <1>11, <1>12, <1>15 DEF QueueInv

\* Queueing marks exactly what it adds.
LEMMA QueueChecksPreserves ==
  ASSUME QueueInv, QueueChecks
  PROVE  QueueInv'
<1>0. TypeOK /\ OneEach /\ Marks /\ Listed /\ numqueued = Len(queue) /\ order \in Orders
  BY DEF QueueInv
<1>1. /\ pc = "queue" /\ pc' \in {"wakeup", "undefined"}
      /\ UNCHANGED <<lastcheck, wait, order, throttled, paused, gotsighup, stop_daemon,
                     file, head, root, badconfig>>
  BY DEF QueueChecks, hostvars, signalled, config
<1>2. CASE UNCHANGED queuevars
  <2>1. TypeOK'
    BY <1>0, <1>1, <1>2 DEF TypeOK, Stages, queuevars
  <2>2. OneEach' /\ Marks' /\ Listed'
    BY <1>0, <1>1, <1>2 DEF OneEach, Marks, Listed, Q, queuevars
  <2> QED
    BY <1>0, <1>1, <1>2, <2>1, <2>2 DEF QueueInv, queuevars
<1>3. CASE ~UNCHANGED queuevars
  <2> DEFINE new == ToQueue
             n == Len(new)
             front == [i \in 1..n |-> NewEntry(new[n + 1 - i])]
  <2>1. /\ ~(numqueued > MaxQueued)
        /\ queued' = [o \in Objects |-> queued[o] \/ \E i \in 1..n : new[i] = o]
        /\ queue' = front \o queue
        /\ numqueued' = numqueued + n
    BY <1>3 DEF QueueChecks
  <2>2. numqueued \in 0..MaxQueued /\ numqueued \in Nat
    BY SMTT(30), <1>0, <2>1, LimitAssumption DEF TypeOK
  <2>3. /\ new \in Seq(Objects) /\ n \in 0..Room
        /\ \A k \in 1..n : new[k] \in Walked
        /\ \A j, k \in 1..n : new[j] = new[k] => j = k
    BY <1>0, <2>2, ToQueueFits
  <2> HIDE DEF new
  <2>4. n \in Nat /\ Room = MaxQueued + 1 - numqueued /\ MaxQueued \in Nat
    BY SMTT(30), <2>3, LimitAssumption DEF Room
  <2>5. \A i \in 1..n : /\ n + 1 - i \in 1..n /\ new[n + 1 - i] \in Objects
                        /\ ~queued[new[n + 1 - i]]
    BY SMTT(30), <2>3, <2>4, WalkedUnqueued
  <2>6. \A o \in Objects : NewEntry(o) \in EntryType /\ NewEntry(o).obj = o
    BY SMTT(30), LimitAssumption DEF NewEntry, EntryType
  <2>7. front \in Seq(EntryType) /\ Len(front) = n
    <3>1. front \in [1..n -> EntryType]
      BY <2>5, <2>6
    <3> QED
      BY SMTT(30), <2>4, <3>1
  <2>8. \A i \in 1..n : front[i].obj = new[n + 1 - i]
    BY <2>5, <2>6
  <2> HIDE DEF front, n
  <2>9. queue \in Seq(EntryType) /\ Len(queue) \in Nat
    BY SMTT(30), <1>0 DEF TypeOK
  <2>10. /\ queue' \in Seq(EntryType) /\ Len(queue') = n + Len(queue)
         /\ \A i \in 1..n : queue'[i] = front[i]
         /\ \A i \in (n + 1)..(n + Len(queue)) : queue'[i] = queue[i - n]
    <3>1. /\ front \o queue \in Seq(EntryType)
          /\ Len(front \o queue) = n + Len(queue)
          /\ \A i \in 1..(n + Len(queue)) : (front \o queue)[i] =
               IF i <= n THEN front[i] ELSE queue[i - n]
      BY <2>7, <2>9, ConcatProperties
    <3>2. /\ \A i \in 1..n : i \in 1..(n + Len(queue)) /\ i <= n
          /\ \A i \in (n + 1)..(n + Len(queue)) : i \in 1..(n + Len(queue)) /\ ~(i <= n)
      BY SMTT(30), <2>4, <2>9
    <3> QED
      BY <2>1, <3>1, <3>2
  <2>11. \A i \in 1..Len(queue') :
           \/ i \in 1..n /\ queue'[i].obj = new[n + 1 - i]
           \/ i \in (n + 1)..(n + Len(queue)) /\ i - n \in Q /\ queue'[i].obj = queue[i - n].obj
    <3> SUFFICES ASSUME NEW i \in 1..Len(queue')
                 PROVE  \/ i \in 1..n /\ queue'[i].obj = new[n + 1 - i]
                        \/ /\ i \in (n + 1)..(n + Len(queue)) /\ i - n \in Q
                           /\ queue'[i].obj = queue[i - n].obj
      OBVIOUS
    <3>1. CASE i \in 1..n
      BY <2>8, <2>10, <3>1
    <3>2. CASE i \notin 1..n
      <4>1. i \in (n + 1)..(n + Len(queue)) /\ i - n \in Q
        BY SMTT(30), <2>4, <2>9, <2>10, <3>2 DEF Q
      <4> QED
        BY <2>10, <4>1
    <3> QED
      BY <3>1, <3>2
  <2>12. \A i \in Q : queue[i].obj \in Objects
    BY <1>0, QueueEntries
  <2>13. OneEach'
    <3> SUFFICES ASSUME NEW i \in 1..Len(queue'), NEW j \in 1..Len(queue'),
                        queue'[i].obj = queue'[j].obj
                 PROVE  i = j
      BY DEF OneEach, Q
    <3>1. CASE i \in 1..n /\ j \in 1..n
      <4>1. new[n + 1 - i] = new[n + 1 - j]
        BY SMTT(30), <2>4, <2>11, <3>1
      <4>2. n + 1 - i = n + 1 - j
        BY <2>3, <2>5, <3>1, <4>1 DEF n
      <4> QED
        BY SMTT(30), <2>4, <3>1, <4>2
    <3>2. CASE i \notin 1..n /\ j \notin 1..n
      <4>1. i - n \in Q /\ j - n \in Q /\ queue[i - n].obj = queue[j - n].obj
        BY <2>11, <3>2
      <4>2. i - n = j - n
        BY <1>0, <4>1 DEF OneEach
      <4> QED
        BY SMTT(30), <2>4, <4>2
    <3>3. CASE i \in 1..n /\ j \notin 1..n
      <4>1. j - n \in Q /\ queue'[j].obj = queue[j - n].obj
        BY <2>11, <3>3
      <4>2. queued[queue'[j].obj]
        BY <1>0, <4>1 DEF Marks
      <4>3. ~queued[queue'[i].obj]
        BY SMTT(30), <2>4, <2>5, <2>11, <3>3
      <4> QED
        BY <4>2, <4>3
    <3>4. CASE i \notin 1..n /\ j \in 1..n
      <4>1. i - n \in Q /\ queue'[i].obj = queue[i - n].obj
        BY <2>11, <3>4
      <4>2. queued[queue'[i].obj]
        BY <1>0, <4>1 DEF Marks
      <4>3. ~queued[queue'[j].obj]
        BY SMTT(30), <2>4, <2>5, <2>11, <3>4
      <4> QED
        BY <4>2, <4>3
    <3> QED
      BY <3>1, <3>2, <3>3, <3>4
  <2>14. Marks'
    <3> SUFFICES ASSUME NEW i \in 1..Len(queue') PROVE queued'[queue'[i].obj]
      BY DEF Marks, Q
    <3>1. CASE i \in 1..n
      <4> DEFINE o == new[n + 1 - i]
      <4>1. n + 1 - i \in 1..n /\ o \in Objects
        BY <2>5, <3>1 DEF n
      <4>2. queue'[i].obj = o
        BY <2>8, <2>10, <3>1
      <4> HIDE DEF o
      <4>3. \E k \in 1..n : new[k] = o
        BY <4>1 DEF o
      <4> QED
        BY <2>1, <4>1, <4>2, <4>3 DEF n
    <3>2. CASE i \notin 1..n
      BY <1>0, <2>1, <2>11, <2>12, <3>2 DEF Marks
    <3> QED
      BY <3>1, <3>2
  <2>15. Listed'
    <3> SUFFICES ASSUME ~badconfig', NEW o \in Objects, queued'[o]
                 PROVE  \E i \in 1..Len(queue') : queue'[i].obj = o
      BY DEF Listed, Q
    <3>1. CASE queued[o]
      <4>1. PICK i \in Q : queue[i].obj = o
        BY <1>0, <1>1, <3>1 DEF Listed
      <4> DEFINE j == i + n
      <4>2. j \in 1..Len(queue') /\ j \in (n + 1)..(n + Len(queue)) /\ j - n = i
        BY SMTT(30), <2>4, <2>9, <2>10, <4>1 DEF Q
      <4> HIDE DEF j
      <4>3. queue'[j].obj = o
        BY <2>10, <4>1, <4>2
      <4> QED
        BY <4>2, <4>3
    <3>2. CASE ~queued[o]
      <4>1. PICK k \in 1..n : new[k] = o
        BY <2>1, <3>2 DEF n
      <4>2. n + 1 - k \in 1..n /\ n + 1 - (n + 1 - k) = k /\ n + 1 - k \in 1..Len(queue')
        BY SMTT(30), <2>4, <2>9, <2>10, <4>1
      <4> QED
        BY <2>8, <2>10, <4>1, <4>2
    <3> QED
      BY <3>1, <3>2
  <2>16. TypeOK'
    <3>1. queued' \in [Objects -> BOOLEAN]
      BY <1>0, <2>1 DEF TypeOK
    <3>2. numqueued' \in 0..MaxQueued + 1
      BY SMTT(30), <2>1, <2>2, <2>3, <2>4 DEF n
    <3> QED
      BY <1>0, <1>1, <2>10, <3>1, <3>2 DEF TypeOK, Stages
  <2>17. numqueued' = Len(queue')
    BY SMTT(30), <1>0, <2>1, <2>4, <2>9, <2>10 DEF n
  <2> QED
    BY <1>0, <1>1, <2>13, <2>14, <2>15, <2>16, <2>17 DEF QueueInv
<1> QED
  BY <1>2, <1>3

\* Waking an entry keeps it the same check.
LEMMA WokenSame ==
  ASSUME NEW e \in EntryType
  PROVE  SameCheck(e, Woken(e))
<1>1. SYSM_KILLED \in Results \cup {Pending} /\ SYSM_TIMEDOUT \in Results \cup {Pending}
  BY DEF Results
<1>2. CASE e.age < KillAfter
  BY <1>2 DEF Woken, SameCheck, EntryType
<1>3. CASE ~(e.age < KillAfter) /\ e.wakeups >= MaxRetries
  BY <1>1, <1>3 DEF Woken, SameCheck, EntryType
<1>4. CASE ~(e.age < KillAfter) /\ ~(e.wakeups >= MaxRetries)
  <2>1. e.wakeups + 1 \in Nat
    BY SMTT(30) DEF EntryType
  <2>2. Woken(e) = [e EXCEPT !.retval = SYSM_TIMEDOUT, !.wakeups = e.wakeups + 1]
    BY <1>4 DEF Woken
  <2> QED
    BY <1>1, <2>1, <2>2 DEF SameCheck, EntryType
<1> QED
  BY <1>2, <1>3, <1>4

\* So does growing older and being serviced.
LEMMA SleptSame ==
  ASSUME NEW e \in EntryType, NEW dt \in BOOLEAN, NEW say \in Says
  PROVE  LET a == IF dt THEN Older(e) ELSE e
             f == IF say = Pending THEN a ELSE Serviced(a, say)
         IN  SameCheck(e, f) /\ f.wakeups = e.wakeups
             /\ f.retval = IF say = Pending THEN e.retval ELSE say
<1> DEFINE a == IF dt THEN Older(e) ELSE e
<1>1. a \in EntryType /\ a.obj = e.obj /\ a.wakeups = e.wakeups /\ a.retval = e.retval
  <2>1. e.age \in 0..KillAfter /\ KillAfter \in Nat
    BY LimitAssumption DEF EntryType
  <2>2. (IF e.age < KillAfter THEN e.age + 1 ELSE e.age) \in 0..KillAfter
    BY SMTT(30), <2>1
  <2> QED
    BY <2>2 DEF Older, EntryType
<1> HIDE DEF a
<1>2. say \in Results \cup {Pending}
  BY DEF Says, Results
<1>3. /\ Serviced(a, say) \in EntryType /\ Serviced(a, say).obj = a.obj
      /\ Serviced(a, say).wakeups = a.wakeups /\ Serviced(a, say).retval = say
  BY <1>1, <1>2 DEF Serviced, EntryType
<1> QED
  BY <1>1, <1>3 DEF SameCheck, a

\* The two calls of wakeup_checks.
LEMMA WakeupPreserves ==
  ASSUME QueueInv, WakeupChecks \/ PausedWakeupChecks
  PROVE  QueueInv'
<1>0. TypeOK /\ order \in Orders
  BY DEF QueueInv
<1>1. /\ pc \in {"wakeup", "p_wakeup"} /\ pc' \in {"service", "p_sleep"}
      /\ throttled' \in BOOLEAN
      /\ UNCHANGED <<lastcheck, wait, order, queued, numqueued, paused, gotsighup,
                     stop_daemon, file, head, root, badconfig>>
      /\ UNCHANGED queue \/ WakeupAll
  BY <1>0 DEF WakeupChecks, PausedWakeupChecks, hostvars, signalled, config, TypeOK
<1>2. queue' = [i \in DOMAIN queue |-> queue'[i]] /\ \A i \in Q : SameCheck(queue[i], queue'[i])
  <2>1. DOMAIN queue = Q /\ \A i \in Q : queue[i] \in EntryType
    BY <1>0, QueueEntries
  <2>2. CASE UNCHANGED queue
    <3>1. queue = [i \in DOMAIN queue |-> queue[i]]
      BY SMTT(30), <1>0 DEF TypeOK
    <3> QED
      BY <2>1, <2>2, <3>1 DEF SameCheck
  <2>3. CASE WakeupAll
    <3>1. queue' = [i \in Q |-> Woken(queue[i])]
      BY <2>1, <2>3 DEF WakeupAll
    <3> QED
      BY <2>1, <3>1, WokenSame
  <2> QED
    BY <1>1, <2>2, <2>3
<1>3. /\ queue' \in Seq(EntryType) /\ numqueued' = Len(queue')
      /\ OneEach' /\ Marks' /\ Listed'
  BY <1>1, <1>2, PointwiseChange
<1>4. TypeOK'
  BY <1>0, <1>1, <1>3 DEF TypeOK, Stages
<1> QED
  BY <1>0, <1>1, <1>3, <1>4 DEF QueueInv

\* What needssleep makes of one entry.
Slept(e, dt, say) ==
  LET a == IF dt THEN Older(e) ELSE e
  IN  IF say = Pending THEN a ELSE Serviced(a, say)

\* The sleep.
LEMMA SleepPreserves ==
  ASSUME QueueInv, NEW dt \in BOOLEAN, NeedsSleep(dt)
  PROVE  QueueInv'
<1>0. TypeOK /\ order \in Orders
  BY DEF QueueInv
<1>1. /\ pc \in {"sleep", "p_sleep"} /\ pc' = "paused"
      /\ UNCHANGED <<lastcheck, order, queued, numqueued, paused, gotsighup,
                     stop_daemon, file, head, root, badconfig>>
      /\ wait' = [o \in Objects |-> IF dt /\ wait[o] > 0 THEN wait[o] - 1 ELSE wait[o]]
      /\ throttled' \in BOOLEAN
  BY <1>0 DEF NeedsSleep, signalled, config, TypeOK
<1>2. PICK says \in [DOMAIN queue -> Says] :
        queue' = [i \in DOMAIN queue |-> Slept(queue[i], dt, says[i])]
  BY DEF NeedsSleep, Slept
<1>3. queue' = [i \in DOMAIN queue |-> queue'[i]] /\ \A i \in Q : SameCheck(queue[i], queue'[i])
  <2>1. DOMAIN queue = Q /\ \A i \in Q : queue[i] \in EntryType
    BY <1>0, QueueEntries
  <2>2. \A i \in Q : SameCheck(queue[i], Slept(queue[i], dt, says[i]))
    BY <2>1, SleptSame DEF Slept
  <2> QED
    BY <1>2, <2>1, <2>2
<1>4. /\ queue' \in Seq(EntryType) /\ numqueued' = Len(queue')
      /\ OneEach' /\ Marks' /\ Listed'
  BY <1>1, <1>3, PointwiseChange
<1>5. wait' \in [Objects -> 0..QueueTime]
  <2>1. \A o \in Objects : wait[o] \in 0..QueueTime
    BY <1>0 DEF TypeOK
  <2>2. \A o \in Objects :
          (IF dt /\ wait[o] > 0 THEN wait[o] - 1 ELSE wait[o]) \in 0..QueueTime
    BY SMTT(30), <2>1, LimitAssumption
  <2> QED
    BY <1>1, <2>2
<1>6. TypeOK'
  BY <1>0, <1>1, <1>4, <1>5 DEF TypeOK, Stages
<1> QED
  BY <1>0, <1>1, <1>4, <1>6 DEF QueueInv

\* The bottom of the loop and the reload.
LEMMA BottomPreserves ==
  ASSUME QueueInv, Bottom \/ SyncAfterSighup \/ Reloaded
  PROVE  QueueInv'
<1>0. /\ TypeOK /\ OneEach /\ Marks /\ Listed /\ numqueued = Len(queue)
      /\ order \in Orders /\ (pc = "reload" => queue = <<>>)
  BY DEF QueueInv
<1>1. CASE Bottom
  <2>1. /\ pc = "bottom" /\ pc' \in {"exited", "queue", "reload"}
        /\ UNCHANGED <<lastcheck, wait, order, throttled, paused, gotsighup,
                       stop_daemon, file, head, root, badconfig>>
    BY <1>1 DEF Bottom, hostvars, signalled, config
  <2>2. CASE pc' # "reload"
    <3>1. UNCHANGED queuevars
      BY <1>1, <2>2 DEF Bottom
    <3>2. TypeOK'
      BY SMTT(30), <1>0, <2>1, <3>1 DEF TypeOK, Stages, queuevars
    <3>3. OneEach' /\ Marks' /\ Listed'
      BY <1>0, <2>1, <3>1 DEF OneEach, Marks, Listed, Q, queuevars
    <3> QED
      BY <1>0, <2>1, <2>2, <3>1, <3>2, <3>3 DEF QueueInv, queuevars
  <2>3. CASE pc' = "reload"
    <3>1. /\ queue' = <<>> /\ numqueued' = 0
          /\ queued' = [o \in Objects |-> queued[o] /\
               ~\E i \in DOMAIN queue : queue[i].obj = o /\ ~queue[i].started]
      BY <1>1, <2>3 DEF Bottom
    <3>2. queued' \in [Objects -> BOOLEAN]
      BY <1>0, <3>1 DEF TypeOK
    <3>3. queue' \in Seq(EntryType) /\ Len(queue') = 0
      BY SMTT(30), <3>1
    <3>4. numqueued' \in 0..MaxQueued + 1
      BY SMTT(30), <3>1, LimitAssumption
    <3>5. TypeOK'
      BY SMTT(30), <1>0, <2>1, <3>2, <3>3, <3>4 DEF TypeOK, Stages
    <3>6. OneEach' /\ Marks' /\ Listed'
      BY SMTT(30), <2>3, <3>3 DEF OneEach, Marks, Listed, Q
    <3> QED
      BY <1>0, <2>1, <3>1, <3>3, <3>5, <3>6 DEF QueueInv
  <2> QED
    BY <2>2, <2>3
<1>2. CASE SyncAfterSighup
  <2>1. /\ pc = "reload" /\ pc' = "reloaded" /\ queue = <<>>
        /\ UNCHANGED <<queue, numqueued, throttled, paused, gotsighup, stop_daemon, file>>
        /\ badconfig' = (badconfig \/ file.kind = "bad")
        /\ badconfig' => KeepOldTree
        /\ ~badconfig' => UseNoTree \/ UseNewTree
    BY <1>0, <1>2 DEF SyncAfterSighup, signalled
  <2>2. /\ head' \in {"tree", "none"} /\ root' \in {"tree", "freed"}
        /\ badconfig' \in BOOLEAN /\ order' \in Orders
        /\ lastcheck' \in [Objects -> Results] /\ wait' \in [Objects -> 0..QueueTime]
        /\ queued' \in [Objects -> BOOLEAN]
        /\ ~badconfig' => \A o \in Objects : ~queued'[o]
    <3>1. CASE KeepOldTree /\ badconfig'
      BY <1>0, <2>1, <3>1 DEF KeepOldTree, TypeOK, hostvars
    <3>2. CASE UseNoTree /\ ~badconfig'
      BY SMTT(30), <1>0, <2>1, <3>2, LimitAssumption DEF UseNoTree, NewObjects, TypeOK, Results
    <3>3. CASE UseNewTree /\ ~badconfig'
      BY SMTT(30), <1>0, <2>1, <3>3, LimitAssumption DEF UseNewTree, NewObjects, TypeOK
    <3> QED
      BY <2>1, <3>1, <3>2, <3>3
  <2>3. order' \in [1..Cardinality(Objects) -> Objects]
    BY <2>2 DEF Orders
  <2>4. TypeOK'
    BY <1>0, <2>1, <2>2, <2>3 DEF TypeOK, Stages
  <2>5. Len(queue) = 0 /\ Q' = {}
    BY SMTT(30), <2>1 DEF Q
  <2>6. OneEach' /\ Marks' /\ Listed'
    BY <2>1, <2>2, <2>5 DEF OneEach, Marks, Listed
  <2> QED
    BY <1>0, <2>1, <2>2, <2>4, <2>6 DEF QueueInv
<1>3. CASE Reloaded
  <2>1. /\ pc = "reloaded" /\ pc' = "queue" /\ gotsighup' = FALSE
        /\ UNCHANGED <<lastcheck, wait, order, queued, queue, numqueued, throttled,
                       paused, stop_daemon, file, head, root, badconfig>>
    BY <1>3 DEF Reloaded, hostvars, queuevars, config
  <2>2. TypeOK'
    BY <1>0, <2>1 DEF TypeOK, Stages
  <2>3. OneEach' /\ Marks' /\ Listed'
    BY <1>0, <2>1 DEF OneEach, Marks, Listed, Q
  <2> QED
    BY <1>0, <2>1, <2>2, <2>3 DEF QueueInv
<1> QED
  BY <1>1, <1>2, <1>3

\* The signal handlers only set flags.
LEMMA SignalPreserves ==
  ASSUME QueueInv, ReloadConfig \/ TogglePause \/ HandleStop \/ UNCHANGED vars
  PROVE  QueueInv'
<1>0. /\ TypeOK /\ OneEach /\ Marks /\ Listed /\ numqueued = Len(queue)
      /\ order \in Orders /\ (pc = "reload" => queue = <<>>)
  BY DEF QueueInv
<1>1. UNCHANGED <<pc, lastcheck, wait, order, queued, queue, numqueued, throttled,
                  head, root, badconfig>>
  BY DEF ReloadConfig, TogglePause, HandleStop, vars, hostvars, queuevars, config
<1>2. paused' \in BOOLEAN /\ gotsighup' \in BOOLEAN /\ stop_daemon' \in BOOLEAN
  BY <1>0 DEF ReloadConfig, TogglePause, HandleStop, vars, signalled, TypeOK
<1>3. file' \in [ver : 0..MaxEdits, kind : {"good", "bad", "missing"}]
  <2>1. CASE ReloadConfig
    <3>1. PICK kind \in FileKinds : file' = [ver |-> file.ver + 1, kind |-> kind]
      BY <2>1 DEF ReloadConfig
    <3>2. file.ver \in 0..MaxEdits /\ file.ver < MaxEdits
      BY <1>0, <2>1 DEF TypeOK, ReloadConfig
    <3> QED
      BY SMTT(30), <3>1, <3>2, LimitAssumption
  <2>2. CASE UNCHANGED file
    BY <1>0, <2>2 DEF TypeOK
  <2> QED
    BY <2>1, <2>2 DEF TogglePause, HandleStop, vars, signalled
<1>4. TypeOK'
  BY <1>0, <1>1, <1>2, <1>3 DEF TypeOK
<1>5. OneEach' /\ Marks' /\ Listed'
  BY <1>0, <1>1 DEF OneEach, Marks, Listed, Q
<1> QED
  BY <1>0, <1>1, <1>4, <1>5 DEF QueueInv

\* QueueInv is inductive.
LEMMA QueueStep == QueueInv /\ [Next]_vars => QueueInv'
<1> SUFFICES ASSUME QueueInv, [Next]_vars PROVE QueueInv'
  OBVIOUS
<1>1. CASE ServiceChecks
  <2>1. pc = "service" /\ Service("sleep") /\ UNCHANGED <<throttled, signalled, config>>
    BY <1>1 DEF ServiceChecks
  <2> QED
    BY <2>1, ServicePreserves DEF Stages
<1>2. CASE PausedLoop
  <2>1. pc = "paused" /\ UNCHANGED <<throttled, signalled, config>>
    BY <1>2 DEF PausedLoop
  <2>2. CASE Service("p_wakeup")
    BY <2>1, <2>2, ServicePreserves DEF Stages
  <2>3. CASE pc' = "bottom" /\ UNCHANGED <<hostvars, queuevars>>
    <3>1. /\ TypeOK /\ OneEach /\ Marks /\ Listed /\ numqueued = Len(queue)
          /\ order \in Orders
      BY DEF QueueInv
    <3>2. UNCHANGED <<lastcheck, wait, order, queued, queue, numqueued, throttled, paused,
                      gotsighup, stop_daemon, file, head, root, badconfig>>
      BY <2>1, <2>3 DEF hostvars, queuevars, signalled, config
    <3>3. TypeOK'
      BY <2>3, <3>1, <3>2 DEF TypeOK, Stages
    <3>4. OneEach' /\ Marks' /\ Listed'
      BY <2>1, <2>3, <3>1, <3>2 DEF OneEach, Marks, Listed, Q
    <3> QED
      BY <2>3, <3>1, <3>2, <3>3, <3>4 DEF QueueInv
  <2> QED
    BY <1>2, <2>2, <2>3 DEF PausedLoop
<1> QED
  BY <1>1, <1>2, QueueChecksPreserves, WakeupPreserves, SleepPreserves, BottomPreserves,
     SignalPreserves DEF Next, DoWatch, Done

\* QueueInv is an invariant.
LEMMA QueueInvariant == Spec => []QueueInv
<1>1. Init => QueueInv
  <2> SUFFICES ASSUME Init PROVE QueueInv
    OBVIOUS
  <2>1. queue \in Seq(EntryType) /\ Len(queue) = 0 /\ queue = <<>>
    BY SMTT(30) DEF Init
  <2>2. numqueued \in 0..MaxQueued + 1 /\ 0 \in 0..QueueTime /\ 0 \in 0..MaxEdits
    BY SMTT(30), LimitAssumption DEF Init
  <2>3. TypeOK
    BY <2>1, <2>2 DEF Init, TypeOK, Stages, Results, Orders
  <2>4. OneEach /\ Marks /\ Listed
    BY SMTT(30), <2>1 DEF Init, OneEach, Marks, Listed, Q
  <2> QED
    BY <2>1, <2>3, <2>4 DEF Init, QueueInv
<1> QED
  BY <1>1, QueueStep, PTL DEF Spec

\* Type correctness, for every configuration.  It needs the whole of QueueInv:
\* the result service_checks records for an object is that of the one entry
\* the object has.
THEOREM TypeCorrect == Spec => []TypeOK
<1>1. QueueInv => TypeOK
  BY DEF QueueInv
<1> QED
  BY <1>1, QueueInvariant, PTL

\* An object is marked queued exactly when one entry of the list is its check,
\* and numqueued counts the entries, for every set of objects, every
\* dependency graph and every sequence of checks, signals and reloads.
THEOREM MarksMatchTheQueue == Spec => []QueueConsistent
<1>1. QueueInv => QueueConsistent
  <2> SUFFICES ASSUME QueueInv, pc # "reload", ~badconfig, NEW o \in Objects
               PROVE  Cardinality(EntriesOf(o)) = IF queued[o] THEN 1 ELSE 0
    BY DEF QueueConsistent, QueueInv
  <2>1. DOMAIN queue = Q /\ \A i \in Q : queue[i].obj \in Objects
    BY QueueEntries DEF QueueInv
  <2>2. CASE queued[o]
    <3>1. PICK i \in Q : queue[i].obj = o
      BY <2>2 DEF QueueInv, Listed
    <3>2. EntriesOf(o) = {i}
      BY <2>1, <3>1 DEF EntriesOf, QueueInv, OneEach
    <3> QED
      BY <2>2, <3>2, FS_Singleton
  <2>3. CASE ~queued[o]
    <3>1. EntriesOf(o) = {}
      BY <2>1, <2>3 DEF EntriesOf, QueueInv, Marks
    <3> QED
      BY <2>3, <3>1, FS_EmptySet
  <2> QED
    BY <2>2, <2>3
<1> QED
  BY <1>1, QueueInvariant, PTL

\* A check is put in the queue only if it is the root's or hangs off an object
\* that the last results let the walk pass and that is not itself being
\* checked, for every dependency graph: what lies behind a failure waits.
THEOREM WhatIsBehindWaits == Spec => DependentsWait
<1> DEFINE A == \A o \in Objects : (queued'[o] /\ ~queued[o]) =>
                  \/ o = Root
                  \/ \E p \in Neighbors[o] :
                       /\ ~queued[p]
                       /\ (lastcheck[p] = SYSM_OK) <=> (p \notin Reverse)
<1>1. QueueInv /\ [Next]_vars => [A]_vars
  <2> SUFFICES ASSUME QueueInv, Next, NEW o \in Objects, queued'[o], ~queued[o], o # Root
               PROVE  \E p \in Neighbors[o] :
                        /\ ~queued[p]
                        /\ (lastcheck[p] = SYSM_OK) <=> (p \notin Reverse)
    OBVIOUS
  <2>1. CASE QueueChecks
    <3> DEFINE new == ToQueue
               n == Len(new)
    <3>1. ~UNCHANGED queuevars
      BY DEF queuevars
    <3>2. /\ ~(numqueued > MaxQueued)
          /\ queued' = [x \in Objects |-> queued[x] \/ \E i \in 1..n : new[i] = x]
      BY <2>1, <3>1 DEF QueueChecks
    <3>3. numqueued \in 0..MaxQueued /\ order \in Orders
      BY SMTT(30), <3>2, LimitAssumption DEF QueueInv, TypeOK
    <3>4. o \in Walked
      BY <3>2, <3>3, ToQueueFits
    <3> QED
      BY <3>4, WalkedReached DEF Passes
  <2>2. ~\E next : Service(next)
    BY DEF Service, Retired
  <2>3. ~WakeupChecks /\ ~PausedWakeupChecks /\ ~ServiceChecks /\ ~PausedLoop
        /\ ~(\E dt \in BOOLEAN : NeedsSleep(dt)) /\ ~Reloaded
    BY <2>2 DEF WakeupChecks, PausedWakeupChecks, ServiceChecks, PausedLoop, NeedsSleep,
       Reloaded, queuevars
  <2>4. ~Bottom /\ ~SyncAfterSighup
    BY DEF Bottom, SyncAfterSighup, KeepOldTree, UseNewTree, UseNoTree, NewObjects, queuevars
  <2>5. ~ReloadConfig /\ ~TogglePause /\ ~HandleStop /\ ~Done
    BY DEF ReloadConfig, TogglePause, HandleStop, Done, vars, queuevars
  <2> QED
    BY <2>1, <2>3, <2>4, <2>5 DEF Next, DoWatch
<1> QED
  BY <1>1, QueueInvariant, PTL DEF Spec, DependentsWait

(***************************************************************************)
(* No check is killed for good.                                            *)
(***************************************************************************)
\* How often an entry may have been woken when the loop is at pc: once in a
\* pause that ends before the entry is serviced, and once more in the main
\* loop, which services right after.
Turns == IF pc = "service" THEN 2 ELSE IF pc \in {"sleep", "p_wakeup"} THEN 0 ELSE 1

Unwoken(e) ==
  /\ e.retval = Pending => e.wakeups = 0
  /\ e.retval # SYSM_KILLED
  /\ e.wakeups <= Turns

WakeInv == \A i \in Q : Unwoken(queue[i])

\* No step breaks WakeInv, when wakeup_checks tries three times or more.
LEMMA WakeStep ==
  ASSUME MaxRetries > 2, QueueInv, QueueInv', WakeInv, [Next]_vars
  PROVE  WakeInv'
<1>0. TypeOK /\ TypeOK' /\ MaxRetries \in Nat
  BY LimitAssumption DEF QueueInv
<1>1. /\ DOMAIN queue = Q /\ Len(queue) \in Nat
      /\ \A i \in Q : queue[i] \in EntryType /\ queue[i].wakeups \in Nat
  BY <1>0, QueueEntries DEF EntryType
<1>2. \A i \in Q : /\ queue[i].retval = Pending => queue[i].wakeups = 0
                   /\ queue[i].retval # SYSM_KILLED
                   /\ queue[i].wakeups <= Turns
  BY DEF WakeInv, Unwoken
<1>3. CASE UNCHANGED queue /\ Turns <= Turns'
  <2>1. Turns \in Nat /\ Turns' \in Nat
    BY DEF Turns
  <2> QED
    BY SMTT(30), <1>1, <1>2, <1>3, <2>1 DEF WakeInv, Unwoken, Q
<1>4. CASE \E next \in {"sleep", "p_wakeup"} : Service(next)
  <2>1. PICK h : Survivors(h)
    BY <1>0, <1>4, ServiceKeeps
  <2>2. \A k \in 1..Len(queue') : queue'[k].wakeups = 0 /\ queue'[k].retval \in Says
    BY <1>2, <2>1 DEF Survivors
  <2>3. Turns' = 0
    BY <1>4 DEF Service, Turns
  <2>4. SYSM_KILLED \notin Says
    BY LimitAssumption DEF Says, SYSM_KILLED, SYSM_OK, Pending
  <2> QED
    BY SMTT(30), <2>2, <2>3, <2>4 DEF WakeInv, Unwoken, Q
<1>5. CASE WakeupAll /\ \/ pc = "wakeup" /\ pc' = "service"
                        \/ pc = "p_wakeup" /\ pc' = "p_sleep"
  <2>1. Turns \in Nat /\ Turns' = Turns + 1 /\ Turns <= 1
    BY SMTT(30), <1>5 DEF Turns
  <2>2. queue' = [i \in Q |-> Woken(queue[i])]
    BY <1>1, <1>5 DEF WakeupAll
  <2>3. Q' = Q
    <3>1. queue' \in Seq(EntryType) /\ DOMAIN queue' = Q
      BY <1>0, <2>2 DEF TypeOK
    <3>2. DOMAIN queue' = 1..Len(queue')
      BY SMTT(30), <3>1
    <3> QED
      BY <3>1, <3>2 DEF Q
  <2>4. ASSUME NEW i \in Q PROVE Unwoken(queue[i])' /\ queue'[i] = Woken(queue[i])
    <3> DEFINE e == queue[i]
    <3>1. e \in EntryType /\ e.wakeups \in Nat /\ e.wakeups <= Turns /\ e.retval # SYSM_KILLED
          /\ (e.retval = Pending => e.wakeups = 0)
      BY <1>1, <1>2
    <3>2. queue'[i] = Woken(e)
      BY <2>2
    <3> HIDE DEF e
    <3>3. CASE e.age < KillAfter
      BY SMTT(30), <2>1, <3>1, <3>2, <3>3 DEF Woken, Unwoken, e
    <3>4. CASE ~(e.age < KillAfter)
      <4>1. ~(e.wakeups >= MaxRetries)
        BY SMTT(30), <1>0, <2>1, <3>1
      <4>2. queue'[i] = [e EXCEPT !.retval = SYSM_TIMEDOUT, !.wakeups = e.wakeups + 1]
        BY <3>2, <3>4, <4>1 DEF Woken
      <4>3. queue'[i].retval = SYSM_TIMEDOUT /\ queue'[i].wakeups = e.wakeups + 1
        BY <3>1, <4>2 DEF EntryType
      <4>4. SYSM_TIMEDOUT # SYSM_KILLED /\ SYSM_TIMEDOUT # Pending
        BY DEF SYSM_TIMEDOUT, SYSM_KILLED, Pending
      <4> QED
        BY SMTT(30), <2>1, <3>1, <3>2, <4>3, <4>4 DEF Unwoken, e
    <3> QED
      BY <3>3, <3>4
  <2> QED
    BY <2>3, <2>4 DEF WakeInv
<1>6. CASE \E dt \in BOOLEAN : NeedsSleep(dt)
  <2>1. PICK dt \in BOOLEAN : NeedsSleep(dt)
    BY <1>6
  <2>2. PICK says \in [DOMAIN queue -> Says] :
          /\ \A i \in DOMAIN queue :
               ~(queue[i].started /\ queue[i].retval = Pending) => says[i] = Pending
          /\ queue' = [i \in DOMAIN queue |-> Slept(queue[i], dt, says[i])]
    BY <2>1 DEF NeedsSleep, Slept
  <2>3. Q' = Q
    <3>1. queue' \in Seq(EntryType) /\ DOMAIN queue' = Q
      BY <1>0, <1>1, <2>2 DEF TypeOK
    <3>2. DOMAIN queue' = 1..Len(queue')
      BY SMTT(30), <3>1
    <3> QED
      BY <3>1, <3>2 DEF Q
  <2>4. Turns' = 1 /\ Turns \in 0..1
    BY SMTT(30), <2>1 DEF NeedsSleep, Turns
  <2>5. SYSM_KILLED \notin Says
    BY LimitAssumption DEF Says, SYSM_KILLED, SYSM_OK, Pending
  <2>6. ASSUME NEW i \in Q PROVE Unwoken(queue[i])'
    <3>1. says[i] \in Says /\ queue'[i] = Slept(queue[i], dt, says[i])
      BY <1>1, <2>2
    <3>2. /\ queue'[i].wakeups = queue[i].wakeups
          /\ queue'[i].retval = IF says[i] = Pending THEN queue[i].retval ELSE says[i]
      BY SMTT(30), <1>1, <3>1, SleptSame DEF Slept
    <3>3. queue'[i].wakeups <= 1
      BY SMTT(30), <1>1, <1>2, <2>4, <3>2
    <3>4. queue'[i].retval # SYSM_KILLED
      BY <1>2, <2>5, <3>1, <3>2
    <3>5. queue'[i].retval = Pending => queue'[i].wakeups = 0
      BY <1>2, <3>2
    <3> QED
      BY <2>4, <3>3, <3>4, <3>5 DEF Unwoken
  <2> QED
    BY <2>3, <2>6 DEF WakeInv
<1>7. CASE QueueChecks /\ ~UNCHANGED queue
  <2> DEFINE new == ToQueue
             n == Len(new)
             front == [i \in 1..n |-> NewEntry(new[n + 1 - i])]
  <2>1. queue' = front \o queue /\ ~(numqueued > MaxQueued) /\ pc = "queue" /\ pc' = "wakeup"
    BY <1>7 DEF QueueChecks, queuevars
  <2>2. numqueued \in 0..MaxQueued /\ order \in Orders
    BY SMTT(30), <2>1, LimitAssumption DEF QueueInv, TypeOK
  <2>3. new \in Seq(Objects) /\ n \in Nat
    BY SMTT(30), <2>2, ToQueueFits
  <2> HIDE DEF new
  <2>4. \A i \in 1..n : n + 1 - i \in 1..n /\ new[n + 1 - i] \in Objects
    BY SMTT(30), <2>3
  <2>5. \A o \in Objects : NewEntry(o) \in EntryType
          /\ NewEntry(o).retval = Pending /\ NewEntry(o).wakeups = 0
    BY SMTT(30), LimitAssumption DEF NewEntry, EntryType
  <2>6. front \in [1..n -> EntryType]
        /\ \A i \in 1..n : front[i].retval = Pending /\ front[i].wakeups = 0
    BY <2>4, <2>5
  <2>7. front \in Seq(EntryType) /\ Len(front) = n
    BY SMTT(30), <2>3, <2>6
  <2> HIDE DEF front, n
  <2>8. queue \in Seq(EntryType)
    BY <1>0 DEF TypeOK
  <2>9. /\ Len(front \o queue) = n + Len(queue)
        /\ \A i \in 1..(n + Len(queue)) : (front \o queue)[i] =
             IF i <= n THEN front[i] ELSE queue[i - n]
    BY <2>7, <2>8, ConcatProperties
  <2>10. Turns = 1 /\ Turns' = 1 /\ Pending # SYSM_KILLED
    BY <2>1 DEF Turns, Pending, SYSM_KILLED
  <2>11. ASSUME NEW i \in Q' PROVE Unwoken(queue[i])'
    <3>1. i \in 1..(n + Len(queue)) /\ queue'[i] = IF i <= n THEN front[i] ELSE queue[i - n]
      BY <2>1, <2>9 DEF Q
    <3>2. CASE i <= n
      <4>1. queue'[i] = front[i] /\ i \in 1..n
        BY SMTT(30), <2>3, <3>1, <3>2 DEF n
      <4> QED
        BY SMTT(30), <2>6, <2>10, <4>1 DEF Unwoken
    <3>3. CASE ~(i <= n)
      <4> DEFINE j == i - n
      <4>1. queue'[i] = queue[j] /\ j \in Q
        BY SMTT(30), <1>1, <2>3, <3>1, <3>3 DEF n, Q
      <4> HIDE DEF j
      <4> QED
        BY <1>2, <2>10, <4>1 DEF Unwoken
    <3> QED
      BY <3>2, <3>3
  <2> QED
    BY <2>11 DEF WakeInv
<1>8. CASE queue' = <<>>
  BY SMTT(30), <1>8 DEF WakeInv, Q
<1>9. CASE QueueChecks /\ UNCHANGED queue
  BY SMTT(30), <1>3, <1>9 DEF QueueChecks, Turns
<1>10. CASE WakeupChecks /\ UNCHANGED queue
  BY SMTT(30), <1>3, <1>10 DEF WakeupChecks, Turns
<1>11. CASE PausedLoop
  <2>1. CASE Service("p_wakeup")
    BY <1>4, <2>1
  <2>2. CASE pc' = "bottom" /\ UNCHANGED <<hostvars, queuevars>>
    BY SMTT(30), <1>3, <1>11, <2>2 DEF PausedLoop, queuevars, Turns
  <2> QED
    BY <1>11, <2>1, <2>2 DEF PausedLoop
<1>12. CASE Bottom
  BY SMTT(30), <1>3, <1>8, <1>12 DEF Bottom, queuevars, Turns
<1>13. CASE SyncAfterSighup \/ Reloaded
  BY SMTT(30), <1>3, <1>13 DEF SyncAfterSighup, Reloaded, queuevars, Turns
<1>14. CASE ReloadConfig \/ TogglePause \/ HandleStop \/ UNCHANGED vars
  BY SMTT(30), <1>3, <1>14 DEF ReloadConfig, TogglePause, HandleStop, vars, queuevars, Turns
<1> QED
  BY <1>4, <1>5, <1>6, <1>7, <1>9, <1>10, <1>11, <1>12, <1>13, <1>14
     DEF Next, DoWatch, Done, WakeupChecks, PausedWakeupChecks, ServiceChecks

\* wakeup_checks never takes its "Permanently killing" branch, for every
\* configuration, pauses included, when MaxRetries is at least the three of
\* DEFAULT_MAX_WAKEUP_RETRIES: two turns is the most an entry sees.
THEOREM NothingIsKilledForGood == MaxRetries > 2 /\ Spec => []NeverPermanentlyKilled
<1> SUFFICES ASSUME MaxRetries > 2 PROVE Spec => []NeverPermanentlyKilled
  OBVIOUS
<1>1. Init => WakeInv
  BY SMTT(30) DEF Init, WakeInv, Q
<1>2. QueueInv /\ QueueInv' /\ WakeInv /\ [Next]_vars => WakeInv'
  BY WakeStep
<1>3. QueueInv /\ WakeInv => NeverPermanentlyKilled
  <2> SUFFICES ASSUME QueueInv, WakeInv, NEW i \in Q
               PROVE  queue[i].wakeups < MaxRetries /\ queue[i].retval # SYSM_KILLED
    BY QueueEntries DEF NeverPermanentlyKilled, QueueInv
  <2>1. queue[i].wakeups \in Nat /\ MaxRetries \in Nat
    BY QueueEntries, LimitAssumption DEF QueueInv, EntryType
  <2>2. queue[i].wakeups <= Turns /\ Turns \in Nat /\ Turns <= 2
    BY SMTT(30) DEF WakeInv, Unwoken, Turns
  <2> QED
    BY SMTT(30), <2>1, <2>2 DEF WakeInv, Unwoken
<1> QED
  BY <1>1, <1>2, <1>3, QueueInvariant, PTL DEF Spec
=============================================================================
