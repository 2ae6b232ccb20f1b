---------------------------- MODULE ChecksProofs ----------------------------
(***************************************************************************)
(* Proofs about the check queue, for every fleet of objects, every set of  *)
(* descriptors and every setting of the timers: the queue and the entries  *)
(* agree, an OK was earned, replies are counted once, no path but the      *)
(* known ones loses a descriptor or does harm, and the queue keeps the     *)
(* promise of CheckLife (but for its liveness).  What the handlers do is   *)
(* in HandlerProofs.                                                       *)
(***************************************************************************)
EXTENDS HandlerProofs, ListsProofs, FiniteSetTheorems

\* Zenon proves the steps that name no other prover.
USE ZenonT(30)

(***************************************************************************)
(* What the handlers do, one by one.                                       *)
(***************************************************************************)

\* socket() finds the lowest free number.
LEMMA LeastIs == LeastNumbers
BY LeastNatural DEF LeastNumbers

\* stop_this() leaves the object without memory and, but for a name that did
\* not resolve, without a descriptor.
LEMMA StopThis ==
  ASSUME NEW i \in Slots, kind[i] \in Kinds, NEW tnt \in BOOLEAN, NEW v,
         Legal(kind[i], i, tnt, v, v), v.harm = {}, v.up
  PROVE  LET x == stop_this(v, i)
         IN  /\ Legal(kind[i], i, tnt, v, x) /\ x.e.data = "null" /\ x.up
             /\ x.e.retval = v.e.retval
             /\ v.e.retval # "NODNS" /\ ~Confused(tnt, x) => Without(i, x.fdt)
BY HandlersLegal, LeastIs DEF StopsLegal

\* The service handlers lead from legal worlds to legal ones.
LEMMA StartedLegal ==
  ASSUME NEW i \in Slots, kind[i] \in Kinds, NEW tnt \in BOOLEAN, NEW v,
         Legal(kind[i], i, tnt, v, v), v.e.retval = "pending", v.harm = {}, v.up
  PROVE  \A x \in service_started(v, i) : Legal(kind[i], i, tnt, v, x)
BY HandlersLegal, LeastIs DEF ServicesLegal

\* The start handlers lead from a new entry to a legal world.
LEMMA StartLegal ==
  ASSUME NEW i \in Slots, kind[i] \in Kinds, NEW tnt \in BOOLEAN, NEW v,
         Fresh(kind[i], i, tnt, v), NEW x \in start_this(v, i)
  PROVE  \E y : Legal(kind[i], i, tnt, v, y) /\ x = [y EXCEPT !.e.started = TRUE]
<1>1. Begun(kind[i], i, tnt, v, x)
  BY HandlersLegal, LeastIs DEF StartsLegal
<1> QED
  BY <1>1 DEF Begun

\* A reply counts at most once.
LEMMA ReplyCounts ==
  ASSUME NEW k \in EchoKinds, NEW e \in Entries, NEW y, NEW icmpfd,
         Counted(k, e), Earned(k, e, icmpfd), e.data = "held",
         NEW seq \in 0..SendPings, NEW ours \in BOOLEAN,
         \/ k = "ping" /\ y = reply_ping(e, seq, ours)
         \/ k = "pktloss" /\ y = reply_pktloss(e, seq, ours)
         \/ k = "rtt" /\ y = rtt_match_and_record(e, seq, ours)
         \/ k = "pingv6" /\ y = handle_pingv6_response(e, seq, ours)
  PROVE  /\ y \in Entries /\ Counted(k, y) /\ Earned(k, y, icmpfd)
         /\ y.started = e.started /\ y.retval = e.retval /\ y.fd = e.fd /\ y.data = e.data
         /\ y.age = e.age /\ y.idle = e.idle /\ y.n = e.n /\ y.st = e.st
<1> DEFINE c == Count(e.m)
           z == [e EXCEPT !.m = c, !.good = Count(e.good)]
           s == [z EXCEPT !.seen = e.seen \cup {seq}]
<1>1. /\ e.m \in Nat /\ e.n \in Nat /\ e.good \in Nat /\ e.seen \in SUBSET Nat
      /\ e.m = e.good /\ e.n <= SendPings + 1 /\ e.fd = 0 /\ e.good >= Level(e.st)
      /\ (k = "pktloss" => e.m <= e.n)
      /\ (k = "rtt" => e.m = Cardinality(e.seen) /\ e.seen \subseteq 1..e.n)
      /\ (e.retval = "OK" => e.good >= Needed[k] \/ ~icmpfd)
  BY DEF Entries, Counted, Earned
<1>2. SendPings \in Nat /\ Needed[k] \in Int /\ Level(e.st) \in Nat /\ seq \in Nat
  BY SMTT(30), TimesAssumption DEF Needed, EchoKinds, Level
<1>3. c \in Nat /\ e.m <= c /\ Count(e.good) = c /\ c <= e.m + 1
  BY SMTT(30), <1>1, <1>2 DEF Count
<1> HIDE DEF c
<1>4. z \in Entries
  BY <1>3 DEF Entries
<1>5. s \in Entries
  <2>1. e.seen \cup {seq} \in SUBSET Nat
    BY <1>1, <1>2
  <2> QED
    BY <1>4, <2>1 DEF Entries
<1>6. /\ z.started = e.started /\ z.retval = e.retval /\ z.fd = e.fd /\ z.data = e.data
      /\ z.age = e.age /\ z.n = e.n /\ z.m = c /\ z.good = c /\ z.seen = e.seen /\ z.st = e.st
      /\ z.idle = e.idle
  BY <1>3 DEF Entries
<1>7. /\ s.started = e.started /\ s.retval = e.retval /\ s.fd = e.fd /\ s.data = e.data
      /\ s.age = e.age /\ s.n = e.n /\ s.m = c /\ s.good = c /\ s.seen = e.seen \cup {seq}
      /\ s.st = e.st /\ s.idle = e.idle
  BY <1>4, <1>6 DEF Entries
<1>8. y = e \/ (k # "rtt" /\ y = z /\ (k = "pktloss" => e.m < e.n))
      \/ (k = "rtt" /\ y = s /\ seq \in 1..e.n /\ seq \notin e.seen)
  <2>1. Credit(e, TRUE) = z
    BY DEF Credit, c
  <2>2. k = "rtt" => y = e \/ (y = [Credit(e, TRUE) EXCEPT !.seen = @ \cup {seq}]
                               /\ seq \in 1..e.n /\ seq \notin e.seen)
    BY DEF rtt_match_and_record
  <2>3. [Credit(e, TRUE) EXCEPT !.seen = @ \cup {seq}] = s
    BY <1>6, <2>1
  <2>4. k # "rtt" => y = e \/ (y = Credit(e, TRUE) /\ (k = "pktloss" => e.m < e.n))
    BY DEF reply_ping, reply_pktloss, handle_pingv6_response
  <2> QED
    BY <2>1, <2>2, <2>3, <2>4
<1>9. ASSUME NEW q, q.good = c, q.st = e.st, q.retval = e.retval
      PROVE  Earned(k, q, icmpfd)
  BY SMTT(30), <1>1, <1>2, <1>3, <1>9 DEF Earned
<1>10. CASE y = e
  BY <1>10
<1>11. CASE k # "rtt" /\ y = z /\ (k = "pktloss" => e.m < e.n)
  <2> HIDE DEF z
  <2>1. k = "pktloss" => z.m <= z.n
    BY SMTT(30), <1>1, <1>3, <1>6, <1>11
  <2>2. Counted(k, z)
    BY <1>1, <1>6, <1>11, <2>1 DEF Counted
  <2> QED
    BY <1>4, <1>6, <1>9, <1>11, <2>2
<1>12. CASE k = "rtt" /\ y = s /\ seq \in 1..e.n /\ seq \notin e.seen
  <2> HIDE DEF s, z
  <2>0. 1 \in Int /\ e.n \in Int
    BY SMTT(30), <1>1
  <2>a. IsFiniteSet(1..e.n) /\ Cardinality(1..e.n) = IF 1 > e.n THEN 0 ELSE e.n - 1 + 1
    BY <2>0, FS_Interval
  <2>1. IsFiniteSet(1..e.n) /\ Cardinality(1..e.n) = e.n
    BY SMTT(30), <1>1, <2>a
  <2>2. IsFiniteSet(e.seen)
    BY <1>1, <1>12, <2>1, FS_Subset
  <2>3. Cardinality(e.seen \cup {seq}) = e.m + 1
    <3>1. Cardinality(e.seen \cup {seq}) =
            IF seq \in e.seen THEN Cardinality(e.seen) ELSE Cardinality(e.seen) + 1
      BY <2>2, FS_AddElement
    <3> QED
      BY <1>1, <1>12, <3>1
  <2>4. e.seen \cup {seq} \subseteq 1..e.n
    BY <1>1, <1>12
  <2>5. Cardinality(e.seen \cup {seq}) <= e.n
    BY <2>1, <2>4, FS_Subset
  <2>6. c = e.m + 1
    BY SMTT(30), <1>1, <1>2, <2>3, <2>5 DEF c, Count
  <2>7. Counted(k, s)
    BY <1>1, <1>7, <1>12, <2>3, <2>4, <2>6 DEF Counted
  <2> QED
    BY <1>5, <1>7, <1>9, <1>12, <2>7
<1> QED
  BY <1>8, <1>10, <1>11, <1>12

(***************************************************************************)
(* Lists.                                                                  *)
(***************************************************************************)

\* What is left of a list without repetitions when its head is taken.
LEMMA TailIs ==
  ASSUME NEW T, NEW s \in Seq(T), s # <<>>, IsInjective(s)
  PROVE  /\ Tail(s) \in Seq(T) /\ IsInjective(Tail(s)) /\ Head(s) \in Range(s)
         /\ Head(s) \in T /\ Range(Tail(s)) = Range(s) \ {Head(s)}
<1> DEFINE t == Tail(s)
<1>1. /\ Len(s) \in Nat \ {0} /\ DOMAIN s = 1..Len(s) /\ t \in Seq(T) /\ Head(s) = s[1]
      /\ Len(t) = Len(s) - 1 /\ DOMAIN t = 1..Len(t)
  BY SMTT(30)
<1>2. \A n \in 1..Len(t) : t[n] = s[n + 1]
  BY SMTT(30)
<1> HIDE DEF t
<1>3. IsInjective(t)
  <2> SUFFICES ASSUME NEW a \in 1..Len(t), NEW b \in 1..Len(t), t[a] = t[b]
               PROVE  a = b
    BY <1>1 DEF IsInjective
  <2>1. a + 1 \in DOMAIN s /\ b + 1 \in DOMAIN s /\ s[a + 1] = s[b + 1]
    BY SMTT(30), <1>1, <1>2
  <2>2. a + 1 = b + 1
    BY <2>1 DEF IsInjective
  <2> QED
    BY SMTT(30), <1>1, <2>2
<1>4. Head(s) \in Range(s) /\ Head(s) \in T
  BY SMTT(30), <1>1 DEF Range
<1>5. ASSUME NEW x \in Range(t) PROVE x \in Range(s) \ {Head(s)}
  <2>1. PICK n \in 1..Len(t) : x = t[n]
    BY <1>1 DEF Range
  <2>2. n + 1 \in DOMAIN s /\ 1 \in DOMAIN s /\ n + 1 # 1 /\ x = s[n + 1]
    BY SMTT(30), <1>1, <1>2, <2>1
  <2> QED
    BY <1>1, <2>2 DEF Range, IsInjective
<1>6. ASSUME NEW x \in Range(s) \ {Head(s)} PROVE x \in Range(t)
  <2>1. PICK n \in 1..Len(s) : x = s[n]
    BY <1>1 DEF Range
  <2>2. n # 1 /\ n - 1 \in 1..Len(t) /\ t[n - 1] = s[n - 1 + 1]
    BY SMTT(30), <1>1, <1>2, <1>6, <2>1
  <2>3. n - 1 + 1 = n
    BY SMTT(30), <1>1
  <2> QED
    BY <1>1, <2>1, <2>2, <2>3 DEF Range
<1> QED
  BY <1>1, <1>3, <1>4, <1>5, <1>6 DEF t

\* What Filter keeps of a list.
LEMMA FilterIs ==
  ASSUME NEW T, NEW s \in Seq(T), NEW S
  PROVE  /\ Filter(s, S) \in Seq(T) /\ Range(Filter(s, S)) = Range(s) \cap S
         /\ IsInjective(s) => IsInjective(Filter(s, S))
<1> DEFINE t == Filter(s, S)
<1>1. t \in Seq(T) /\ \E h : KeptSoFar(t, h, s, S, Len(s))
  BY FilterKeeps
<1>2. PICK h : KeptSoFar(t, h, s, S, Len(s))
  BY <1>1
<1> HIDE DEF t
<1>3. /\ Len(s) \in Nat /\ Len(t) \in Nat /\ DOMAIN s = 1..Len(s) /\ DOMAIN t = 1..Len(t)
  BY SMTT(30), <1>1
<1>4. /\ h \in [1..Len(t) -> 1..Len(s)]
      /\ \A j, k \in 1..Len(t) : j < k => h[j] < h[k]
      /\ \A k \in 1..Len(t) : t[k] = s[h[k]] /\ s[h[k]] \in S
      /\ \A i \in 1..Len(s) : s[i] \in S => \E k \in 1..Len(t) : h[k] = i
  BY <1>2 DEF KeptSoFar
<1>5. Range(t) = Range(s) \cap S
  <2>1. \A k \in 1..Len(t) : h[k] \in 1..Len(s)
    BY <1>4
  <2>2. Range(t) \subseteq Range(s) \cap S
    BY SMTT(30), <1>3, <1>4, <2>1 DEF Range
  <2>3. ASSUME NEW x \in Range(s), x \in S PROVE x \in Range(t)
    <3>1. PICK i \in 1..Len(s) : s[i] = x
      BY <1>3 DEF Range
    <3>2. PICK k \in 1..Len(t) : h[k] = i
      BY <1>4, <2>3, <3>1
    <3> QED
      BY <1>3, <1>4, <3>1, <3>2 DEF Range
  <2> QED
    BY <2>2, <2>3
<1>6. ASSUME IsInjective(s), NEW j \in 1..Len(t), NEW k \in 1..Len(t), t[j] = t[k]
      PROVE  j = k
  <2>1. h[j] \in 1..Len(s) /\ h[k] \in 1..Len(s) /\ s[h[j]] = s[h[k]]
    BY <1>4, <1>6
  <2>2. h[j] = h[k]
    BY <1>3, <1>6, <2>1 DEF IsInjective
  <2> QED
    BY SMTT(30), <1>3, <1>4, <2>1, <2>2
<1> QED
  BY <1>1, <1>3, <1>5, <1>6 DEF t, IsInjective

\* An arrangement of D has every member of D once.
LEMMA OrderIs ==
  ASSUME NEW D \in SUBSET Slots, NEW s \in Arrangements(D)
  PROVE  s \in Seq(Slots) /\ IsInjective(s) /\ Range(s) = D
<1> DEFINE n == Cardinality(D)
<1>1. IsFiniteSet(D) /\ n \in Nat
  BY TimesAssumption, FS_Subset, FS_CardinalityType
<1>2. s \in [1..n -> D] /\ \A i, j \in 1..n : i # j => s[i] # s[j]
  BY DEF Arrangements, Injection, IsInjective
<1>3. IsFiniteSet(1..n) /\ Cardinality(1..n) = n
  <2>1. 1 \in Int /\ n \in Int
    BY SMTT(30), <1>1
  <2>2. IsFiniteSet(1..n) /\ Cardinality(1..n) = IF 1 > n THEN 0 ELSE n - 1 + 1
    BY <2>1, FS_Interval
  <2> QED
    BY SMTT(30), <1>1, <2>2
<1> HIDE DEF n
<1>4. s \in Injection(1..n, D)
  BY <1>2 DEF Injection, IsInjective
<1>5. s \in Surjection(1..n, D)
  BY <1>1, <1>3, <1>4, FS_Injection DEF n
<1>6. \A x \in D : \E i \in 1..n : s[i] = x
  BY <1>5 DEF Surjection
<1>7. s \in Seq(Slots) /\ DOMAIN s = 1..n
  BY SMTT(30), <1>1, <1>2
<1> QED
  BY SMTT(30), <1>2, <1>6, <1>7 DEF Range, IsInjective

\* Two lists with nothing in common, one after the other.
LEMMA JoinIs ==
  ASSUME NEW T, NEW s \in Seq(T), NEW t \in Seq(T), IsInjective(s), IsInjective(t),
         Range(s) \cap Range(t) = {}
  PROVE  /\ s \o t \in Seq(T) /\ IsInjective(s \o t)
         /\ Range(s \o t) = Range(s) \cup Range(t)
<1> DEFINE u == s \o t
           n == Len(s)
           m == Len(t)
<1>1. /\ n \in Nat /\ m \in Nat /\ u \in Seq(T) /\ Len(u) = n + m /\ DOMAIN u = 1..(n + m)
      /\ DOMAIN s = 1..n /\ DOMAIN t = 1..m
  BY SMTT(30)
<1>2. /\ \A k \in 1..n : u[k] = s[k]
      /\ \A k \in 1..m : u[n + k] = t[k]
  BY SMTT(30)
<1> HIDE DEF u, n, m
<1>3. \A k \in 1..(n + m) : \/ k \in 1..n /\ u[k] = s[k]
                            \/ k - n \in 1..m /\ u[k] = t[k - n]
  <2> TAKE k \in 1..(n + m)
  <2>1. CASE k <= n
    BY SMTT(30), <1>1, <1>2, <2>1
  <2>2. CASE k > n
    <3>1. k - n \in 1..m /\ n + (k - n) = k
      BY SMTT(30), <1>1, <2>2
    <3> QED
      BY <1>2, <3>1
  <2> QED
    BY SMTT(30), <1>1, <2>1, <2>2
<1>4. Range(u) = Range(s) \cup Range(t)
  <2>1. Range(u) \subseteq Range(s) \cup Range(t)
    BY <1>1, <1>3 DEF Range
  <2>2. Range(s) \subseteq Range(u)
    BY SMTT(30), <1>1, <1>2 DEF Range
  <2>3. Range(t) \subseteq Range(u)
    <3>1. \A k \in 1..m : n + k \in 1..(n + m)
      BY SMTT(30), <1>1
    <3> QED
      BY SMTT(30), <1>1, <1>2, <3>1 DEF Range
  <2> QED
    BY <2>1, <2>2, <2>3
<1>5. ASSUME NEW a \in 1..(n + m), NEW b \in 1..(n + m), u[a] = u[b]
      PROVE  a = b
  <2>1. ~(a \in 1..n /\ u[a] = s[a] /\ b - n \in 1..m /\ u[b] = t[b - n])
    BY <1>1, <1>5 DEF Range
  <2>2. ~(b \in 1..n /\ u[b] = s[b] /\ a - n \in 1..m /\ u[a] = t[a - n])
    BY <1>1, <1>5 DEF Range
  <2>3. CASE a \in 1..n /\ u[a] = s[a] /\ b \in 1..n /\ u[b] = s[b]
    BY <1>1, <1>5, <2>3 DEF IsInjective
  <2>4. CASE a - n \in 1..m /\ u[a] = t[a - n] /\ b - n \in 1..m /\ u[b] = t[b - n]
    <3>1. a - n = b - n
      BY <1>1, <1>5, <2>4 DEF IsInjective
    <3> QED
      BY SMTT(30), <1>1, <3>1
  <2> QED
    BY <1>3, <2>1, <2>2, <2>3, <2>4
<1> QED
  BY <1>1, <1>4, <1>5 DEF u, IsInjective

(***************************************************************************)
(* The inductive invariant.                                                *)
(***************************************************************************)

Stages == {"top", "wake", "service", "woke", "hup", "dead"}

\* The queue, the walk and the entries go together.
QueueOK ==
  /\ queue \in Seq(Slots) /\ IsInjective(queue)
  /\ turn \in Seq(Slots) /\ IsInjective(turn)
  /\ Range(queue) = {i \in Slots : ent[i].queued} /\ Range(turn) \subseteq Range(queue)

Basics ==
  /\ kind \in Fleets /\ fdt \in Tables /\ helper \in BOOLEAN /\ icmp \in BOOLEAN
  /\ tainted \in BOOLEAN /\ at \in Stages /\ ent = [i \in Slots |-> ent[i]]

\* What an entry of kind k is.
Fit(k, e, icmpfd) ==
  \/ e = NoEntry
  \/ /\ k \in Kinds /\ e \in Entries
     /\ Earned(k, e, icmpfd) /\ Counted(k, e) /\ Holding(k, e)
     /\ ~e.started => e = NewEntry

EntryOK(i) == Fit(kind[i], ent[i], icmp)

\* Whose the descriptors are, until something is confused.
OwnOK(i) ==
  ~tainted => /\ Found(kind[i], i, ent[i], fdt)
              /\ at # "dead" => Safe(kind[i], i, ent[i], fdt)

\* What comes before what in a pass of the loop: a new entry is started before
\* the daemon sleeps, a check that could not resolve its name is retired before
\* it can be stale, and a reload stops every check that has data.
PaceOK(i) ==
  ent[i].queued =>
    /\ ~ent[i].started => at \in {"wake", "dead"} \/ (at = "service" /\ i \in Range(turn))
    /\ ent[i].retval = "NODNS" =>
         /\ at = "service" /\ i \notin Range(turn) => ent[i].age = 0
         /\ at # "dead" => ent[i].age <= MaxSleep
    /\ at = "hup" /\ ent[i].data # "null" => i \in Range(turn)

TurnOK ==
  /\ at \in {"top", "woke"} => turn = <<>>
  /\ at = "wake" => \A i \in Range(turn) : ent[i].age >= Killafter

Inv == /\ Basics /\ QueueOK /\ TurnOK
       /\ \A i \in Slots : EntryOK(i) /\ OwnOK(i) /\ PaceOK(i)

\* An object that is not queued.
LEMMA NoEntryIs ==
  /\ NoEntry.queued = FALSE /\ NoEntry.started = FALSE /\ NoEntry.retval = "pending"
  /\ NoEntry.fd = 0 /\ NoEntry.data = "null" /\ NoEntry.age = 0 /\ NoEntry.good = 0
  /\ NoEntry.idle = 0 /\ NoEntry.st = "CONNECT" /\ NoEntry.n = 0 /\ NoEntry.m = 0
  /\ NoEntry.seen = {}
  BY DEF NoEntry

\* An entry that was just queued is a good one.
LEMMA NewFits ==
  ASSUME NEW k \in Kinds, NEW icmpfd
  PROVE  Fit(k, NewEntry, icmpfd)
<1>1. NewEntry \in Entries
  <2>1. 0 \in 0..(Killafter + Throttle) /\ 0 \in 0..Globtimeout
    BY SMTT(30), TimesAssumption
  <2> QED
    BY <2>1 DEF NewEntry, NoEntry, Entries, States, Retvals
<1>2. Earned(k, NewEntry, icmpfd) /\ Counted(k, NewEntry) /\ Holding(k, NewEntry)
  BY SMTT(30), NewIs DEF Earned, Counted, Holding, Level
<1> QED
  BY <1>1, <1>2 DEF Fit

\* The entries of the queue.
LEMMA QueuedIs ==
  ASSUME NEW i \in Slots, EntryOK(i)
  PROVE  /\ ent[i].queued \in BOOLEAN
         /\ ~ent[i].queued => ent[i] = NoEntry
         /\ ent[i].queued =>
              /\ kind[i] \in Kinds /\ ent[i] \in Entries
              /\ Earned(kind[i], ent[i], icmp) /\ Counted(kind[i], ent[i])
              /\ Holding(kind[i], ent[i])
              /\ ~ent[i].started => ent[i] = NewEntry
<1>1. CASE ent[i] = NoEntry
  BY <1>1, NoEntryIs
<1>2. CASE ent[i] # NoEntry
  <2>1. ent[i] \in Entries
    BY <1>2 DEF EntryOK, Fit
  <2>2. ent[i].queued = TRUE
    BY <2>1 DEF Entries
  <2> QED
    BY <1>2, <2>2 DEF EntryOK, Fit
<1> QED
  BY <1>1, <1>2

\* The world a handler is called in.
LEMMA WorldIs ==
  ASSUME Inv, NEW i \in Slots, ent[i].queued, at # "dead"
  PROVE  /\ kind[i] \in Kinds /\ Legal(kind[i], i, tainted, World(i), World(i))
         /\ World(i).e = ent[i] /\ World(i).fdt = fdt /\ World(i).helper = helper
         /\ World(i).icmp = icmp /\ World(i).harm = {} /\ World(i).up
         /\ ~ent[i].started => Fresh(kind[i], i, tainted, World(i))
<1> DEFINE v == World(i)
           k == kind[i]
<1>1. v.e = ent[i] /\ v.fdt = fdt /\ v.helper = helper /\ v.icmp = icmp /\ v.harm = {}
      /\ v.up = TRUE
  BY DEF World
<1>2. EntryOK(i) /\ OwnOK(i) /\ Basics
  BY DEF Inv
<1>3. /\ k \in Kinds /\ ent[i] \in Entries /\ Earned(k, ent[i], icmp) /\ Counted(k, ent[i])
      /\ Holding(k, ent[i]) /\ (~ent[i].started => ent[i] = NewEntry)
  BY <1>2, QueuedIs
<1>4. v \in Worlds
  BY <1>2, <1>3 DEF World, Worlds, Basics
<1>5. ~tainted => Found(k, i, v.e, v.fdt) /\ Safe(k, i, v.e, v.fdt)
  BY <1>1, <1>2 DEF OwnOK
<1> HIDE DEF v, k
<1>6. Legal(k, i, tainted, v, v)
  BY <1>1, <1>3, <1>4, <1>5 DEF Legal, Confused, Frame
<1>7. ~ent[i].started => Fresh(k, i, tainted, v)
  BY <1>1, <1>3, <1>6 DEF Fresh
<1> QED
  BY <1>1, <1>3, <1>6, <1>7 DEF v, k

\* A descriptor changed hands between i, the kernel and nobody.
Hands(i, t0, t) ==
  \A f \in Fds : t[f] = t0[f] \/ (t[f] \in {0, i, Leaked} /\ t0[f] \in {0, i})

\* What a step that works on the entry of i leads to.
Good(i, x) ==
  /\ x.fdt \in Tables /\ x.helper \in BOOLEAN /\ x.up \in BOOLEAN
  /\ Fit(kind[i], x.e, icmp)
  /\ ~Confused(tainted, x) => /\ Found(kind[i], i, x.e, x.fdt)
                              /\ x.up => Safe(kind[i], i, x.e, x.fdt)
                              /\ Hands(i, fdt, x.fdt)

\* The entries and the descriptors after such a step.
LEMMA BecomeKeeps ==
  ASSUME Inv, NEW i \in Slots, NEW x, NEW next \in Stages, next # "dead", at # "dead",
         Good(i, x), Become(i, x, next), kind' = kind, icmp' = icmp
  PROVE  /\ Basics' /\ \A j \in Slots : EntryOK(j)' /\ OwnOK(j)'
         /\ ent'[i] = x.e /\ \A j \in Slots \ {i} : ent'[j] = ent[j]
         /\ at' = IF x.up THEN next ELSE "dead"
<1>1. Basics /\ \A j \in Slots : EntryOK(j) /\ OwnOK(j)
  BY DEF Inv
<1>2. /\ ent' = [ent EXCEPT ![i] = x.e] /\ fdt' = x.fdt /\ helper' = x.helper
      /\ tainted' = (tainted \/ x.harm \cap Confusing # {})
      /\ at' = IF x.up THEN next ELSE "dead"
  BY DEF Become
<1>3. /\ ent'[i] = x.e /\ \A j \in Slots \ {i} : ent'[j] = ent[j]
      /\ ent' = [j \in Slots |-> ent'[j]]
  BY <1>1, <1>2 DEF Basics
<1>4. Basics'
  BY <1>1, <1>2, <1>3 DEF Basics, Good, Stages
<1>5. \A j \in Slots : EntryOK(j)'
  BY <1>1, <1>3 DEF EntryOK, Good
<1>6. tainted' <=> Confused(tainted, x)
  BY <1>2 DEF Confused
<1>7. ASSUME NEW j \in Slots PROVE OwnOK(j)'
  <2> SUFFICES ASSUME ~tainted'
               PROVE  /\ Found(kind[j], j, ent'[j], fdt')
                      /\ at' # "dead" => Safe(kind[j], j, ent'[j], fdt')
    BY DEF OwnOK
  <2>1. CASE j = i
    BY <1>2, <1>3, <1>6, <2>1 DEF Good
  <2>2. CASE j # i
    <3>1. ent'[j] = ent[j] /\ j # 0 /\ j # Leaked /\ Hands(i, fdt, fdt') /\ ~tainted
      BY <1>2, <1>3, <1>6, <2>2, TimesAssumption, FleetAssumption DEF Good, Confused
    <3>2. Found(kind[j], j, ent[j], fdt) /\ Safe(kind[j], j, ent[j], fdt)
      BY <1>1, <3>1 DEF OwnOK
    <3>3. \A f \in Fds : fdt'[f] = j <=> fdt[f] = j
      BY <2>2, <3>1 DEF Hands
    <3>4. Found(kind[j], j, ent'[j], fdt')
      BY <3>1, <3>2, <3>3 DEF Found
    <3>5. ent[j].fd \in Fds \cup {0}
      <4>1. CASE ent[j] = NoEntry
        BY <4>1, NoEntryIs
      <4>2. CASE ent[j] # NoEntry
        BY <1>1, <4>2 DEF EntryOK, Fit, Entries
      <4> QED
        BY <4>1, <4>2
    <3>6. Safe(kind[j], j, ent'[j], fdt')
      BY <3>1, <3>2, <3>3, <3>5 DEF Safe
    <3> QED
      BY <3>4, <3>6
  <2> QED
    BY <2>1, <2>2
<1> QED
  BY <1>2, <1>3, <1>4, <1>5, <1>7

\* A legal world is a good one.
LEMMA LegalIsGood ==
  ASSUME Inv, NEW i \in Slots, kind[i] \in Kinds, NEW y,
         Legal(kind[i], i, tainted, World(i), y), ent[i].started
  PROVE  /\ Good(i, y) /\ y.e.started /\ y.e \in Entries /\ y.e.queued /\ y.e.age = ent[i].age
         /\ ~tainted => \A h \in y.harm : <<kind[i], h>> \in KnownHarm
<1>1. World(i).e = ent[i] /\ World(i).fdt = fdt /\ World(i).icmp = icmp
  BY DEF World
<1>2. y \in Worlds /\ y.e \in Entries /\ y.e.started /\ y.icmp = icmp /\ y.e.age = ent[i].age
  BY <1>1 DEF Legal, Worlds
<1>3. Fit(kind[i], y.e, icmp)
  BY <1>2 DEF Legal, Fit
<1>4. Frame(i, fdt, y.fdt) => Hands(i, fdt, y.fdt)
  BY DEF Frame, Hands
<1>5. Good(i, y)
  BY <1>1, <1>2, <1>3, <1>4 DEF Good, Legal, Worlds
<1> QED
  BY <1>2, <1>5 DEF Legal, Entries

\* service_this() and start_this().
LEMMA ServiceGood ==
  ASSUME Inv, NEW i \in Slots, ent[i].queued, at # "dead", ent[i].retval = "pending",
         NEW x \in service_this(World(i), i)
  PROVE  /\ Good(i, x) /\ x.e \in Entries /\ x.e.queued /\ x.e.started /\ x.e.age = ent[i].age
         /\ x.e.retval = "NODNS" => ~ent[i].started
         /\ ~tainted => \A h \in x.harm : <<kind[i], h>> \in KnownHarm
<1> DEFINE v == World(i)
           k == kind[i]
<1>1. /\ k \in Kinds /\ Legal(k, i, tainted, v, v) /\ v.e = ent[i] /\ v.fdt = fdt
      /\ v.icmp = icmp /\ v.harm = {} /\ v.up /\ (~ent[i].started => Fresh(k, i, tainted, v))
  BY WorldIs
<1>2. tainted \in BOOLEAN
  BY DEF Inv, Basics
<1>3. CASE ent[i].started
  <2>1. x \in service_started(v, i)
    BY <1>1, <1>3 DEF service_this
  <2>2. Legal(k, i, tainted, v, x)
    BY <1>1, <1>2, <2>1, StartedLegal
  <2>3. x.e.retval # "NODNS"
    BY <1>1, <1>3, <2>2 DEF Legal
  <2> QED
    BY <1>1, <1>3, <2>2, <2>3, LegalIsGood
<1>4. CASE ~ent[i].started
  <2>1. x \in start_this(v, i)
    BY <1>1, <1>4 DEF service_this
  <2>2. PICK y : Legal(k, i, tainted, v, y) /\ x = [y EXCEPT !.e.started = TRUE]
    BY SMTT(30), <1>1, <1>2, <1>4, <2>1, StartLegal
  <2> HIDE DEF v, k
  <2>3. y \in Worlds /\ y.e \in Entries /\ y.e.age = ent[i].age /\ y.icmp = icmp
    BY <1>1, <2>2 DEF Legal, Worlds
  <2>4. /\ x.e = [y.e EXCEPT !.started = TRUE] /\ x.fdt = y.fdt /\ x.helper = y.helper
        /\ x.harm = y.harm /\ x.up = y.up
    BY <2>2, <2>3 DEF Worlds
  <2>5. /\ x.e.retval = y.e.retval /\ x.e.fd = y.e.fd /\ x.e.data = y.e.data
        /\ x.e.st = y.e.st /\ x.e.n = y.e.n /\ x.e.m = y.e.m /\ x.e.seen = y.e.seen
        /\ x.e.good = y.e.good /\ x.e.age = y.e.age /\ x.e.started /\ x.e.queued
    BY <2>3, <2>4 DEF Entries
  <2>6. x.e \in Entries
    BY <2>3, <2>4 DEF Entries
  <2>7. Earned(k, x.e, icmp) /\ Counted(k, x.e) /\ Holding(k, x.e)
    <3>1. Earned(k, y.e, icmp) /\ Counted(k, y.e) /\ Holding(k, y.e)
      BY <2>2, <2>3 DEF Legal
    <3>2. Earned(k, x.e, icmp)
      BY <2>5, <3>1 DEF Earned
    <3>3. Counted(k, x.e)
      BY <2>5, <3>1 DEF Counted
    <3>4. Holding(k, x.e)
      BY <2>5, <3>1 DEF Holding
    <3> QED
      BY <3>2, <3>3, <3>4
  <2>8. Fit(k, x.e, icmp)
    BY <1>1, <2>5, <2>6, <2>7 DEF Fit
  <2>9. ~Confused(tainted, x) => /\ Found(k, i, x.e, x.fdt)
                                 /\ x.up => Safe(k, i, x.e, x.fdt)
                                 /\ Hands(i, fdt, x.fdt)
    <3> SUFFICES ASSUME ~Confused(tainted, x)
                 PROVE  /\ Found(k, i, x.e, x.fdt)
                        /\ x.up => Safe(k, i, x.e, x.fdt)
                        /\ Hands(i, fdt, x.fdt)
      OBVIOUS
    <3>1. /\ Found(k, i, y.e, y.fdt) /\ Frame(i, fdt, y.fdt)
          /\ y.up => Safe(k, i, y.e, y.fdt)
      BY <1>1, <2>2, <2>4 DEF Legal, Confused
    <3>2. Found(k, i, x.e, x.fdt)
      BY <2>4, <2>5, <3>1 DEF Found
    <3>3. x.up => Safe(k, i, x.e, x.fdt)
      BY <2>4, <2>5, <3>1 DEF Safe
    <3>4. Hands(i, fdt, x.fdt)
      BY <2>4, <3>1 DEF Hands, Frame
    <3> QED
      BY <3>2, <3>3, <3>4
  <2>10. Good(i, x)
    BY <2>3, <2>4, <2>8, <2>9 DEF Good, Worlds, k
  <2>11. ~tainted => \A h \in x.harm : <<k, h>> \in KnownHarm
    BY <2>2, <2>4 DEF Legal
  <2> QED
    BY <1>4, <2>3, <2>5, <2>6, <2>10, <2>11 DEF k
<1> QED
  BY <1>3, <1>4

\* stop_this(), as a reload calls it.
LEMMA StopGood ==
  ASSUME Inv, NEW i \in Slots, ent[i].queued, ent[i].started, at # "dead"
  PROVE  LET x == stop_this(World(i), i)
         IN  /\ Good(i, x) /\ x.e \in Entries /\ x.e.queued /\ x.e.started
             /\ x.e.age = ent[i].age /\ x.e.data = "null" /\ x.up
             /\ x.e.retval = ent[i].retval
             /\ ~tainted => \A h \in x.harm : <<kind[i], h>> \in KnownHarm
<1> DEFINE v == World(i)
           x == stop_this(v, i)
<1>1. /\ kind[i] \in Kinds /\ Legal(kind[i], i, tainted, v, v) /\ v.e = ent[i]
      /\ v.harm = {} /\ v.up
  BY WorldIs
<1>2. tainted \in BOOLEAN
  BY DEF Inv, Basics
<1>3. /\ Legal(kind[i], i, tainted, v, x) /\ x.e.data = "null" /\ x.up
      /\ x.e.retval = v.e.retval
  BY <1>1, <1>2, StopThis
<1> HIDE DEF x
<1>4. /\ Good(i, x) /\ x.e.started /\ x.e \in Entries /\ x.e.queued /\ x.e.age = ent[i].age
      /\ ~tainted => \A h \in x.harm : <<kind[i], h>> \in KnownHarm
  BY <1>1, <1>3, LegalIsGood
<1> QED
  BY <1>1, <1>3, <1>4 DEF x

\* wakeup_checks() on one stale entry.
LEMMA WakeGood ==
  ASSUME Inv, NEW i \in Slots, ent[i].queued, ent[i].started, at # "dead",
         ent[i].retval # "NODNS", NEW h \in {"killed", "overruled"}
  PROVE  LET s == IF kind[i] = "ping" THEN World(i) ELSE stop_this(World(i), i)
             x == Harm(Answer(s, "TIMEDOUT"), h)
         IN  /\ Good(i, x) /\ x.e \in Entries /\ x.e.queued /\ x.e.started /\ x.up
             /\ x.e.retval = "TIMEDOUT"
             /\ ~tainted => \A g \in x.harm : <<kind[i], g>> \in KnownHarm
<1> DEFINE v == World(i)
           k == kind[i]
           s == IF k = "ping" THEN v ELSE stop_this(v, i)
           a == Answer(s, "TIMEDOUT")
           x == Harm(a, h)
<1>1. /\ k \in Kinds /\ Legal(k, i, tainted, v, v) /\ v.e = ent[i] /\ v.fdt = fdt
      /\ v.harm = {} /\ v.up /\ v.icmp = icmp /\ tainted \in BOOLEAN
  BY WorldIs DEF Inv, Basics
<1>2. /\ Legal(k, i, tainted, v, s) /\ s.up
      /\ k # "ping" => s.e.data = "null"
      /\ ~Confused(tainted, s) /\ k # "ping" => Without(i, s.fdt)
  <2>1. CASE k = "ping"
    BY <1>1, <2>1
  <2>2. CASE k # "ping"
    BY <1>1, <2>2, StopThis
  <2> QED
    BY <2>1, <2>2
<1> HIDE DEF s, v, k
<1>3. s \in Worlds /\ s.e \in Entries /\ "TIMEDOUT" \in Retvals /\ s.icmp = icmp
      /\ s.e.started = ent[i].started /\ s.e.data \in {"null", "held", "freed"}
  BY <1>1, <1>2 DEF Legal, Worlds, Entries, Retvals
<1>4. a \in Worlds /\ Rest(a, s) /\ a.e = [s.e EXCEPT !.retval = "TIMEDOUT"]
  BY <1>3, AnswerIs
<1> HIDE DEF a
<1>5. /\ x.e = a.e /\ x.fdt = s.fdt /\ x.helper = a.helper /\ x.up
      /\ x.harm = s.harm \cup {h} /\ a.e \in Entries
  BY <1>2, <1>4 DEF Harm, Worlds, Rest
<1> HIDE DEF x
<1>6. /\ x.e.retval = "TIMEDOUT" /\ x.e.fd = s.e.fd /\ x.e.data = s.e.data
      /\ x.e.st = s.e.st /\ x.e.n = s.e.n /\ x.e.m = s.e.m /\ x.e.seen = s.e.seen
      /\ x.e.good = s.e.good /\ x.e.started = s.e.started /\ x.e.queued
  <2>1. x.e = [s.e EXCEPT !.retval = "TIMEDOUT"]
    BY <1>4, <1>5
  <2> QED
    <3>1. s.e \in Entries
      BY <1>3
    <3>2. x.e.retval = "TIMEDOUT" /\ x.e.fd = s.e.fd /\ x.e.data = s.e.data
      BY SMTT(30), <2>1, <3>1 DEF Entries
    <3>3. x.e.st = s.e.st /\ x.e.n = s.e.n /\ x.e.m = s.e.m
      BY <2>1, <3>1 DEF Entries
    <3>4. x.e.seen = s.e.seen /\ x.e.good = s.e.good
      BY SMTT(30), <2>1, <3>1 DEF Entries
    <3>5. x.e.started = s.e.started /\ x.e.queued = s.e.queued
      BY SMTT(30), <2>1, <3>1 DEF Entries
    <3>6. s.e.queued = TRUE
      BY <3>1 DEF Entries
    <3> QED
      BY <3>2, <3>3, <3>4, <3>5, <3>6
<1>7. Earned(k, s.e, icmp) /\ Counted(k, s.e) /\ Holding(k, s.e)
  BY <1>2, <1>3 DEF Legal
<1>8. Earned(k, x.e, icmp) /\ Counted(k, x.e)
  BY <1>6, <1>7 DEF Earned, Counted
<1>9. k = "ping" => k \in EchoKinds /\ k \notin Dangles \cup {"radius", "dns"} /\ k # "snmp"
  BY DEF EchoKinds, Dangles
<1>10. Holding(k, x.e)
  <2>1. CASE k = "ping"
    <3>1. x.e.data # "freed"
      BY <1>6, <1>7, <1>9, <2>1 DEF Holding
    <3> QED
      BY <1>6, <1>9, <2>1, <3>1 DEF Holding
  <2>2. CASE k # "ping"
    BY <1>2, <1>6, <1>7, <2>2 DEF Holding
  <2> QED
    BY <2>1, <2>2
<1>11. Fit(k, x.e, icmp)
  BY <1>1, <1>3, <1>5, <1>6, <1>8, <1>10 DEF Fit
<1>12. ASSUME ~Confused(tainted, x)
       PROVE  Found(k, i, x.e, x.fdt) /\ Safe(k, i, x.e, x.fdt) /\ Hands(i, fdt, x.fdt)
  <2>1. ~Confused(tainted, s)
    BY <1>5, <1>12 DEF Confused
  <2>2. Found(k, i, s.e, s.fdt) /\ Frame(i, fdt, s.fdt)
    BY <1>1, <1>2, <2>1 DEF Legal
  <2>3. Without(i, s.fdt)
    <3>1. CASE k = "ping"
      <4>1. s.e.fd = 0 /\ 0 \notin Fds
        BY <1>7, <1>9, <3>1, TimesAssumption DEF Counted
      <4> QED
        BY <2>2, <4>1 DEF Found, Without
    <3>2. CASE k # "ping"
      BY <1>2, <2>1, <3>2
    <3> QED
      BY <3>1, <3>2
  <2>4. Found(k, i, x.e, x.fdt)
    BY <1>5, <2>3 DEF Found, Without
  <2>5. Safe(k, i, x.e, x.fdt)
    BY <1>2, <1>6, <1>7, <1>9 DEF Safe, Holding
  <2>6. Hands(i, fdt, x.fdt)
    BY <1>5, <2>2 DEF Hands, Frame
  <2> QED
    BY <2>4, <2>5, <2>6
<1>13. Good(i, x)
  <2>1. x.fdt \in Tables /\ x.helper \in BOOLEAN /\ x.up \in BOOLEAN
    BY <1>3, <1>4, <1>5 DEF Worlds
  <2> QED
    BY <1>11, <1>12, <2>1 DEF Good, k
<1>14. ASSUME ~tainted, NEW g \in x.harm PROVE <<k, g>> \in KnownHarm
  <2>1. CASE g = h
    BY <1>1, <2>1 DEF KnownHarm
  <2>2. CASE g \in s.harm
    BY <1>2, <1>14, <2>2 DEF Legal
  <2> QED
    BY <1>5, <1>14, <2>1, <2>2
<1> QED
  BY <1>3, <1>5, <1>6, <1>13, <1>14 DEF x, a, s, k, v

(***************************************************************************)
(* The steps.                                                              *)
(***************************************************************************)

\* A move of CheckLife, said of the entry: queued, answered, overruled by
\* killafter, handed on, or left as it was.
LifeMove(i) ==
  \/ ~ent[i].queued /\ ent'[i].queued /\ ent'[i].retval = "pending"
  \/ /\ ent[i].queued /\ ent[i].retval = "pending"
     /\ ent'[i].queued /\ ent'[i].retval \in Retvals \ {"pending"}
  \/ ent[i].queued /\ ent'[i].queued /\ ent'[i].retval = "TIMEDOUT"
  \/ /\ ent[i].queued /\ ent[i].retval # "pending"
     /\ ~ent'[i].queued /\ ent'[i].retval = "pending"
  \/ ent'[i].queued = ent[i].queued /\ ent'[i].retval = ent[i].retval

\* What every step of the daemon does.
Sound ==
  /\ Inv'
  /\ ~tainted => harm' \subseteq KnownHarm
  /\ (\A i \in Slots : LifeMove(i)) \/ (\A i \in Slots : ent'[i] = NoEntry)

\* The entry a walk of the queue has come to.
LEMMA TurnIs ==
  ASSUME Inv, turn # <<>>
  PROVE  /\ Head(turn) \in Slots /\ ent[Head(turn)].queued /\ Head(turn) \in Range(turn)
         /\ Tail(turn) \in Seq(Slots) /\ IsInjective(Tail(turn))
         /\ Range(Tail(turn)) = Range(turn) \ {Head(turn)}
<1>1. /\ turn \in Seq(Slots) /\ IsInjective(turn) /\ Range(turn) \subseteq Range(queue)
      /\ Range(queue) = {i \in Slots : ent[i].queued}
  BY DEF Inv, QueueOK
<1> QED
  BY <1>1, TailIs

\* The queue stays as it is when an entry is only worked on.
LEMMA QueueStays ==
  ASSUME Inv, NEW i \in Slots, ent[i].queued, ent'[i].queued, queue' = queue,
         \A j \in Slots \ {i} : ent'[j] = ent[j],
         turn' \in Seq(Slots), IsInjective(turn'), Range(turn') \subseteq Range(queue)
  PROVE  QueueOK'
<1>1. {j \in Slots : ent'[j].queued} = {j \in Slots : ent[j].queued}
  OBVIOUS
<1> QED
  BY <1>1 DEF Inv, QueueOK

\* A step that works on the entry of i is sound when the walk and the pace are.
LEMMA BecomeSound ==
  ASSUME Inv, NEW i \in Slots, NEW x, NEW next \in Stages, next # "dead", at # "dead",
         Good(i, x), Become(i, x, next), kind' = kind, icmp' = icmp,
         ~tainted => \A h \in x.harm : <<kind[i], h>> \in KnownHarm,
         QueueOK', TurnOK', \A j \in Slots : PaceOK(j)', LifeMove(i)
  PROVE  Sound
<1>1. /\ Basics' /\ \A j \in Slots : EntryOK(j)' /\ OwnOK(j)'
      /\ \A j \in Slots \ {i} : ent'[j] = ent[j]
  BY BecomeKeeps
<1>2. Inv'
  BY <1>1 DEF Inv
<1>3. ~tainted => harm' \subseteq KnownHarm
  BY DEF Become
<1>4. \A j \in Slots : LifeMove(j)
  BY <1>1 DEF LifeMove
<1> QED
  BY <1>2, <1>3, <1>4 DEF Sound

\* wakeup_checks() meets no check that was not started, and none whose name did
\* not resolve: it is retired before it is stale.
LEMMA StaleIs ==
  ASSUME Inv, at = "wake", NEW i \in Slots, i \in Range(turn), ent[i].queued
  PROVE  ent[i].started /\ ent[i].retval # "NODNS"
<1>1. EntryOK(i) /\ PaceOK(i) /\ ent[i].age >= Killafter
  BY DEF Inv, TurnOK
<1>2. 0 < Killafter /\ MaxSleep < Killafter /\ MaxSleep \in Nat /\ Killafter \in Nat
  BY SMTT(30), TimesAssumption, FleetAssumption
<1>3. ent[i] \in Entries /\ (~ent[i].started => ent[i] = NewEntry)
  BY <1>1, QueuedIs
<1>4. ent[i].age \in Nat
  <2>1. ent[i].age \in 0..(Killafter + Throttle)
    BY <1>3 DEF Entries
  <2> QED
    BY SMTT(30), <2>1
<1>5. ent[i].started
  BY SMTT(30), <1>1, <1>2, <1>3, NewIs
<1>6. ent[i].retval # "NODNS"
  BY SMTT(30), <1>1, <1>2, <1>4 DEF PaceOK
<1> QED
  BY <1>5, <1>6

\* wakeup_checks() stops one stale check and answers for it.
LEMMA WakeSound ==
  ASSUME Inv, wakeup_checks
  PROVE  Sound
<1> DEFINE i == Head(turn)
           h == IF ent[i].retval = "pending" THEN "killed" ELSE "overruled"
           s == IF kind[i] = "ping" THEN World(i) ELSE stop_this(World(i), i)
           x == Harm(Answer(s, "TIMEDOUT"), h)
<1>1. /\ at = "wake" /\ turn # <<>> /\ Become(i, x, "wake") /\ turn' = Tail(turn)
      /\ kind' = kind /\ icmp' = icmp /\ queue' = queue
  BY DEF wakeup_checks
<1>2. /\ i \in Slots /\ ent[i].queued /\ i \in Range(turn) /\ Tail(turn) \in Seq(Slots)
      /\ IsInjective(Tail(turn)) /\ Range(Tail(turn)) = Range(turn) \ {i}
  BY <1>1, TurnIs
<1>3. ent[i].started /\ ent[i].retval # "NODNS"
  BY <1>1, <1>2, StaleIs
<1>4. h \in {"killed", "overruled"}
  OBVIOUS
<1>5. /\ Good(i, x) /\ x.e \in Entries /\ x.e.queued /\ x.e.started /\ x.up
      /\ x.e.retval = "TIMEDOUT"
      /\ ~tainted => \A g \in x.harm : <<kind[i], g>> \in KnownHarm
  BY <1>1, <1>2, <1>3, <1>4, WakeGood
<1> HIDE DEF x, h, s
<1>6. /\ ent'[i] = x.e /\ \A j \in Slots \ {i} : ent'[j] = ent[j]
      /\ at' = "wake"
  BY <1>1, <1>2, <1>5, BecomeKeeps DEF Stages
<1>7. QueueOK'
  <2>1. Range(turn') \subseteq Range(queue)
    BY <1>1, <1>2 DEF Inv, QueueOK
  <2> QED
    BY <1>1, <1>2, <1>5, <1>6, <2>1, QueueStays
<1>8. TurnOK'
  BY <1>1, <1>2, <1>6 DEF Inv, TurnOK, QueueOK
<1>9. ASSUME NEW j \in Slots PROVE PaceOK(j)'
  <2>1. CASE j = i
    BY <1>5, <1>6, <2>1 DEF PaceOK
  <2>2. CASE j # i
    BY <1>1, <1>6, <2>2 DEF Inv, PaceOK
  <2> QED
    BY <2>1, <2>2
<1>10. LifeMove(i)
  BY <1>2, <1>5, <1>6 DEF LifeMove
<1> QED
  BY <1>1, <1>2, <1>5, <1>7, <1>8, <1>9, <1>10, BecomeSound DEF Stages

\* An entry that handle_retval() has taken is gone, and what it still held is
\* nobody's: memory only of the echo checks, a descriptor only of a check that
\* opened it before it looked the name up.
LEMMA RetiredGood ==
  ASSUME Inv, NEW i \in Slots, ent[i].queued, ent[i].retval # "pending", at # "dead"
  PROVE  LET x == Retired(i)
         IN  /\ Good(i, x) /\ x.e = NoEntry /\ x.up
             /\ ~tainted => \A h \in x.harm : <<kind[i], h>> \in KnownHarm
<1> DEFINE x == Retired(i)
           k == kind[i]
           e == ent[i]
           lost == {f \in Fds : f = e.fd /\ fdt[f] = i}
<1>1. /\ x.e = NoEntry /\ x.helper = helper /\ x.up = TRUE
      /\ x.fdt = [f \in Fds |-> IF f \in lost THEN Leaked ELSE fdt[f]]
      /\ x.harm = (IF lost # {} THEN {"lostfd"} ELSE {})
                  \cup (IF e.data = "held" THEN {"lostmem"} ELSE {})
  BY DEF Retired
<1>2. /\ k \in Kinds /\ e \in Entries /\ Counted(k, e) /\ Holding(k, e)
  BY QueuedIs DEF Inv
<1>3. fdt \in Tables /\ helper \in BOOLEAN /\ OwnOK(i)
  BY DEF Inv, Basics
<1>4. Leaked # i /\ 0 # i /\ 0 \notin Fds
  BY TimesAssumption, FleetAssumption
<1> HIDE DEF x, k, e
<1>5. x.fdt \in Tables
  BY <1>1, <1>3 DEF Tables
<1>6. ASSUME ~Confused(tainted, x)
      PROVE  /\ Found(k, i, x.e, x.fdt) /\ Safe(k, i, x.e, x.fdt) /\ Hands(i, fdt, x.fdt)
  <2>1. Found(k, i, e, fdt)
    BY <1>3, <1>6 DEF OwnOK, Confused, k, e
  <2>2. \A f \in Fds : x.fdt[f] # i
    BY <1>1, <1>4, <2>1 DEF Found
  <2>3. Found(k, i, x.e, x.fdt)
    BY <2>2 DEF Found
  <2>4. Safe(k, i, x.e, x.fdt)
    BY <1>1, NoEntryIs DEF Safe
  <2>5. Hands(i, fdt, x.fdt)
    BY <1>1 DEF Hands
  <2> QED
    BY <2>3, <2>4, <2>5
<1>7. Good(i, x)
  BY <1>1, <1>3, <1>5, <1>6 DEF Good, Fit, k
<1>8. ASSUME ~tainted, NEW h \in x.harm PROVE <<k, h>> \in KnownHarm
  <2>1. CASE h = "lostmem"
    <3>1. e.data = "held"
      BY <1>1, <1>8, <2>1
    <3>2. k \in EchoKinds
      BY <1>2, <3>1 DEF Holding, e
    <3> QED
      BY <2>1, <3>2 DEF KnownHarm
  <2>2. CASE h = "lostfd"
    <3>1. PICK f \in Fds : f = e.fd /\ fdt[f] = i
      BY <1>1, <1>8, <2>2
    <3>2. e.data = "held" \/ k \in Early
      BY <1>3, <1>8, <3>1 DEF OwnOK, Found, k, e
    <3>3. e.data # "held"
      BY <1>2, <1>4, <3>1 DEF Holding, Counted, e
    <3> QED
      BY <2>2, <3>2, <3>3 DEF KnownHarm, Early
  <2> QED
    BY <1>1, <1>8, <2>1, <2>2
<1> QED
  BY <1>1, <1>7, <1>8 DEF x, k

\* service_checks() on an entry without an answer.
LEMMA ServiceSound ==
  ASSUME Inv, service_checks, ent[Head(turn)].retval = "pending"
  PROVE  Sound
<1> DEFINE i == Head(turn)
<1>1. PICK x \in service_this(World(i), i) :
        /\ at = "service" /\ turn # <<>> /\ Become(i, x, "service") /\ turn' = Tail(turn)
        /\ kind' = kind /\ icmp' = icmp /\ queue' = queue
  BY DEF service_checks
<1>2. /\ i \in Slots /\ ent[i].queued /\ i \in Range(turn) /\ Tail(turn) \in Seq(Slots)
      /\ IsInjective(Tail(turn)) /\ Range(Tail(turn)) = Range(turn) \ {i}
  BY <1>1, TurnIs
<1>3. /\ Good(i, x) /\ x.e \in Entries /\ x.e.queued /\ x.e.started /\ x.e.age = ent[i].age
      /\ x.e.retval = "NODNS" => ~ent[i].started
      /\ ~tainted => \A g \in x.harm : <<kind[i], g>> \in KnownHarm
  BY <1>1, <1>2, ServiceGood
<1> HIDE DEF i
<1>4. /\ ent'[i] = x.e /\ \A j \in Slots \ {i} : ent'[j] = ent[j]
      /\ at' \in {"service", "dead"}
  BY <1>1, <1>2, <1>3, BecomeKeeps DEF Stages
<1>5. QueueOK'
  <2>1. Range(turn') \subseteq Range(queue)
    BY <1>1, <1>2 DEF Inv, QueueOK
  <2> QED
    BY <1>1, <1>2, <1>3, <1>4, <2>1, QueueStays
<1>6. TurnOK'
  BY <1>4 DEF TurnOK
<1>7. ASSUME NEW j \in Slots PROVE PaceOK(j)'
  <2>1. CASE j = i
    <3>1. x.e.retval = "NODNS" => x.e.age = 0
      <4>1. ~ent[i].started => ent[i].age = 0
        BY <1>2, QueuedIs, NewIs DEF Inv
      <4> QED
        BY <1>3, <4>1
    <3>2. 0 <= MaxSleep
      BY SMTT(30), FleetAssumption
    <3> QED
      BY <1>3, <1>4, <2>1, <3>1, <3>2 DEF PaceOK
  <2>2. CASE j # i
    BY <1>1, <1>2, <1>4, <2>2 DEF Inv, PaceOK
  <2> QED
    BY <2>1, <2>2
<1>8. LifeMove(i)
  <2>1. x.e.retval \in Retvals
    BY <1>3 DEF Entries
  <2> QED
    BY <1>2, <1>3, <1>4, <2>1 DEF LifeMove, i
<1> QED
  BY <1>1, <1>2, <1>3, <1>5, <1>6, <1>7, <1>8, BecomeSound DEF Stages

\* service_checks() on an entry with an answer.
LEMMA RetireSound ==
  ASSUME Inv, service_checks, ent[Head(turn)].retval # "pending"
  PROVE  Sound
<1> DEFINE i == Head(turn)
           x == Retired(i)
<1>1. /\ at = "service" /\ turn # <<>> /\ Become(i, x, "service") /\ turn' = Tail(turn)
      /\ kind' = kind /\ icmp' = icmp /\ queue' = Filter(queue, Slots \ {i})
  BY DEF service_checks
<1>2. /\ i \in Slots /\ ent[i].queued /\ i \in Range(turn) /\ Tail(turn) \in Seq(Slots)
      /\ IsInjective(Tail(turn)) /\ Range(Tail(turn)) = Range(turn) \ {i}
  BY <1>1, TurnIs
<1>3. /\ Good(i, x) /\ x.e = NoEntry /\ x.up
      /\ ~tainted => \A g \in x.harm : <<kind[i], g>> \in KnownHarm
  BY <1>1, <1>2, RetiredGood
<1> HIDE DEF i, x
<1>4. /\ ent'[i] = NoEntry /\ \A j \in Slots \ {i} : ent'[j] = ent[j]
      /\ at' = "service"
  BY <1>1, <1>2, <1>3, BecomeKeeps DEF Stages
<1>5. QueueOK'
  <2>1. /\ queue \in Seq(Slots) /\ IsInjective(queue)
        /\ Range(queue) = {j \in Slots : ent[j].queued} /\ Range(turn) \subseteq Range(queue)
    BY DEF Inv, QueueOK
  <2>2. /\ queue' \in Seq(Slots) /\ IsInjective(queue')
        /\ Range(queue') = Range(queue) \cap (Slots \ {i})
    BY <1>1, <2>1, FilterIs
  <2>3. {j \in Slots : ent'[j].queued} = {j \in Slots : ent[j].queued} \ {i}
    BY <1>4, NoEntryIs
  <2> QED
    BY <1>1, <1>2, <2>1, <2>2, <2>3 DEF QueueOK
<1>6. TurnOK'
  BY <1>4 DEF TurnOK
<1>7. ASSUME NEW j \in Slots PROVE PaceOK(j)'
  <2>1. CASE j = i
    BY <1>4, <2>1, NoEntryIs DEF PaceOK
  <2>2. CASE j # i
    BY <1>1, <1>2, <1>4, <2>2 DEF Inv, PaceOK
  <2> QED
    BY <2>1, <2>2
<1>8. LifeMove(i)
  BY <1>2, <1>4, NoEntryIs DEF LifeMove, i
<1> QED
  BY <1>1, <1>2, <1>3, <1>5, <1>6, <1>7, <1>8, BecomeSound DEF Stages

\* An entry serviced in needssleep().
LEMMA ReadySound ==
  ASSUME Inv, NEW i \in Slots, ServiceReady(i)
  PROVE  Sound
<1>1. PICK x \in service_this(World(i), i) :
        /\ at = "woke" /\ Become(i, x, "woke") /\ turn' = turn
        /\ kind' = kind /\ icmp' = icmp /\ queue' = queue
  BY DEF ServiceReady
<1>2. ent[i].queued /\ ent[i].retval = "pending"
  BY DEF ServiceReady
<1>3. ent[i].started
  BY <1>1, <1>2 DEF Inv, PaceOK
<1>4. /\ Good(i, x) /\ x.e \in Entries /\ x.e.queued /\ x.e.started
      /\ x.e.retval # "NODNS"
      /\ ~tainted => \A g \in x.harm : <<kind[i], g>> \in KnownHarm
  BY <1>1, <1>2, <1>3, ServiceGood
<1>5. /\ ent'[i] = x.e /\ \A j \in Slots \ {i} : ent'[j] = ent[j]
      /\ at' \in {"woke", "dead"}
  BY <1>1, <1>4, BecomeKeeps DEF Stages
<1>6. QueueOK'
  <2>1. turn \in Seq(Slots) /\ IsInjective(turn) /\ Range(turn) \subseteq Range(queue)
    BY DEF Inv, QueueOK
  <2> QED
    BY <1>1, <1>2, <1>4, <1>5, <2>1, QueueStays
<1>7. TurnOK'
  BY <1>1, <1>5 DEF Inv, TurnOK
<1>8. ASSUME NEW j \in Slots PROVE PaceOK(j)'
  <2>1. CASE j = i
    BY <1>4, <1>5, <2>1 DEF PaceOK
  <2>2. CASE j # i
    BY <1>1, <1>5, <2>2 DEF Inv, PaceOK
  <2> QED
    BY <2>1, <2>2
<1>9. LifeMove(i)
  <2>1. x.e.retval \in Retvals
    BY <1>4 DEF Entries
  <2> QED
    BY <1>2, <1>4, <1>5, <2>1 DEF LifeMove
<1> QED
  BY <1>1, <1>4, <1>6, <1>7, <1>8, <1>9, BecomeSound DEF Stages

\* A reload stops one check.
LEMMA CleanupSound ==
  ASSUME Inv, fast_cleanup_checks
  PROVE  Sound
<1> DEFINE i == Head(turn)
           x == stop_this(World(i), i)
<1>1. /\ at = "hup" /\ turn # <<>> /\ Become(i, x, "hup") /\ turn' = Tail(turn)
      /\ kind' = kind /\ icmp' = icmp /\ queue' = queue
  BY DEF fast_cleanup_checks
<1>2. /\ i \in Slots /\ ent[i].queued /\ i \in Range(turn) /\ Tail(turn) \in Seq(Slots)
      /\ IsInjective(Tail(turn)) /\ Range(Tail(turn)) = Range(turn) \ {i}
  BY <1>1, TurnIs
<1>3. ent[i].started /\ PaceOK(i)
  BY <1>1, <1>2 DEF Inv, PaceOK
<1>4. /\ Good(i, x) /\ x.e \in Entries /\ x.e.queued /\ x.e.started
      /\ x.e.age = ent[i].age /\ x.e.data = "null" /\ x.up
      /\ x.e.retval = ent[i].retval
      /\ ~tainted => \A h \in x.harm : <<kind[i], h>> \in KnownHarm
  BY <1>1, <1>2, <1>3, StopGood
<1> HIDE DEF i, x
<1>5. /\ ent'[i] = x.e /\ \A j \in Slots \ {i} : ent'[j] = ent[j]
      /\ at' = "hup"
  BY <1>1, <1>2, <1>4, BecomeKeeps DEF Stages
<1>6. QueueOK'
  <2>1. Range(turn') \subseteq Range(queue)
    BY <1>1, <1>2 DEF Inv, QueueOK
  <2> QED
    BY <1>1, <1>2, <1>4, <1>5, <2>1, QueueStays
<1>7. TurnOK'
  BY <1>5 DEF TurnOK
<1>8. ASSUME NEW j \in Slots PROVE PaceOK(j)'
  <2>1. CASE j = i
    BY <1>1, <1>2, <1>3, <1>4, <1>5, <2>1 DEF PaceOK
  <2>2. CASE j # i
    BY <1>1, <1>2, <1>5, <2>2 DEF Inv, PaceOK
  <2> QED
    BY <2>1, <2>2
<1>9. LifeMove(i)
  BY <1>2, <1>4, <1>5 DEF LifeMove
<1> QED
  BY <1>1, <1>2, <1>4, <1>6, <1>7, <1>8, <1>9, BecomeSound DEF Stages

\* handle_icmp_responses() reads one echo reply.
LEMMA ReplySound ==
  ASSUME Inv, NEW i \in Slots, NEW seq \in 0..SendPings, NEW ours \in BOOLEAN,
         reply(i, seq, ours)
  PROVE  Sound
<1> DEFINE k == kind[i]
           y == CASE k = "ping"    -> reply_ping(ent[i], seq, ours)
                  [] k = "pktloss" -> reply_pktloss(ent[i], seq, ours)
                  [] k = "rtt"     -> rtt_match_and_record(ent[i], seq, ours)
                  [] k = "pingv6"  -> handle_pingv6_response(ent[i], seq, ours)
<1>1. /\ at = "wake" /\ turn = <<>> /\ k \in EchoKinds /\ ent[i].data = "held"
      /\ harm' = {} /\ kind' = kind /\ icmp' = icmp /\ queue' = queue /\ fdt' = fdt
      /\ helper' = helper /\ at' = at /\ turn' = turn /\ tainted' = tainted
  BY DEF reply
<1>2. ent' = [ent EXCEPT ![i] = y]
  BY DEF reply
<1>3. /\ Basics /\ QueueOK /\ TurnOK
      /\ \A j \in Slots : EntryOK(j) /\ OwnOK(j) /\ PaceOK(j)
  BY DEF Inv
<1>4. ent[i].queued /\ ent[i].started
  BY <1>1, <1>3, QueuedIs, NoEntryIs, NewIs
<1>5. /\ k \in Kinds /\ ent[i] \in Entries /\ Earned(k, ent[i], icmp) /\ Counted(k, ent[i])
      /\ Holding(k, ent[i])
  BY <1>3, <1>4, QueuedIs
<1>6. \/ k = "ping" /\ y = reply_ping(ent[i], seq, ours)
      \/ k = "pktloss" /\ y = reply_pktloss(ent[i], seq, ours)
      \/ k = "rtt" /\ y = rtt_match_and_record(ent[i], seq, ours)
      \/ k = "pingv6" /\ y = handle_pingv6_response(ent[i], seq, ours)
  BY <1>1 DEF EchoKinds
<1> HIDE DEF y, k
<1>7. /\ y \in Entries /\ Counted(k, y) /\ Earned(k, y, icmp)
      /\ y.started = ent[i].started /\ y.retval = ent[i].retval /\ y.fd = ent[i].fd
      /\ y.data = ent[i].data /\ y.age = ent[i].age
  <2> DEFINE e == ent[i]
  <2>1. k \in EchoKinds /\ e \in Entries /\ e.data = "held"
    BY <1>1, <1>5
  <2>2. Counted(k, e) /\ Earned(k, e, icmp)
    BY <1>5
  <2>3. \/ k = "ping" /\ y = reply_ping(e, seq, ours)
        \/ k = "pktloss" /\ y = reply_pktloss(e, seq, ours)
        \/ k = "rtt" /\ y = rtt_match_and_record(e, seq, ours)
        \/ k = "pingv6" /\ y = handle_pingv6_response(e, seq, ours)
    BY <1>6
  <2> HIDE DEF e
  <2>4. /\ y \in Entries /\ Counted(k, y) /\ Earned(k, y, icmp)
        /\ y.started = e.started /\ y.retval = e.retval /\ y.fd = e.fd
        /\ y.data = e.data /\ y.age = e.age
    BY SMTT(30), <2>1, <2>2, <2>3, ReplyCounts
  <2> QED
    BY <2>4 DEF e
<1>8. /\ ent'[i] = y /\ \A j \in Slots \ {i} : ent'[j] = ent[j]
      /\ ent' = [j \in Slots |-> ent'[j]]
  BY <1>2, <1>3 DEF Basics
<1>9. y.queued
  BY <1>7 DEF Entries
<1>10. Basics' /\ QueueOK' /\ TurnOK'
  <2>1. Basics'
    BY <1>1, <1>3, <1>8 DEF Basics
  <2>2. QueueOK'
    BY <1>1, <1>3, <1>4, <1>8, <1>9, QueueStays DEF QueueOK
  <2>3. TurnOK'
    BY SMTT(30), <1>1, <1>3, <1>8 DEF TurnOK, QueueOK, Range
  <2> QED
    BY <2>1, <2>2, <2>3
<1>11. EntryOK(i)'
  <2>1. Holding(k, y)
    BY <1>5, <1>7 DEF Holding
  <2> QED
    BY <1>1, <1>4, <1>5, <1>7, <1>8, <2>1 DEF EntryOK, Fit, k
<1>12. OwnOK(i)'
  BY <1>1, <1>3, <1>7, <1>8 DEF OwnOK, Found, Safe
<1>13. PaceOK(i)'
  BY <1>1, <1>3, <1>4, <1>7, <1>8 DEF PaceOK
<1>14. ASSUME NEW j \in Slots, j # i PROVE EntryOK(j)' /\ OwnOK(j)' /\ PaceOK(j)'
  BY <1>1, <1>3, <1>8, <1>14 DEF EntryOK, OwnOK, PaceOK
<1>15. \A j \in Slots : LifeMove(j)
  BY <1>4, <1>7, <1>8, <1>9 DEF LifeMove
<1> QED
  BY <1>1, <1>10, <1>11, <1>12, <1>13, <1>14, <1>15 DEF Sound, Inv

\* A step that changes no entry and no descriptor.
LEMMA LookOnly ==
  ASSUME Inv, ent' = ent, fdt' = fdt, kind' = kind, icmp' = icmp, helper' = helper,
         tainted' = tainted, queue' = queue, harm' = {}, at' \in Stages, at # "dead",
         turn' \in Seq(Slots), IsInjective(turn'), Range(turn') \subseteq Range(queue),
         TurnOK', \A j \in Slots : PaceOK(j)'
  PROVE  Sound
<1>1. /\ Basics /\ QueueOK /\ \A j \in Slots : EntryOK(j) /\ OwnOK(j)
  BY DEF Inv
<1>2. Basics'
  BY <1>1 DEF Basics
<1>3. QueueOK'
  BY <1>1 DEF QueueOK
<1>4. \A j \in Slots : EntryOK(j)' /\ OwnOK(j)'
  BY <1>1 DEF EntryOK, OwnOK
<1>5. \A j \in Slots : LifeMove(j)
  BY DEF LifeMove
<1> QED
  BY <1>2, <1>3, <1>4, <1>5 DEF Sound, Inv

\* service_checks() begins, the loop goes round, a SIGHUP came.
LEMMA StageSound ==
  ASSUME Inv, Drained \/ Loop \/ Hup
  PROVE  Sound
<1>1. /\ queue \in Seq(Slots) /\ IsInjective(queue) /\ turn \in Seq(Slots)
      /\ Range(queue) = {j \in Slots : ent[j].queued} /\ IsInjective(turn)
      /\ Range(turn) \subseteq Range(queue)
  BY DEF Inv, QueueOK
<1>2. /\ at \in {"top", "woke"} => turn = <<>>
      /\ \A j \in Slots : PaceOK(j)
  BY DEF Inv, TurnOK
<1>3. CASE Drained
  <2>1. /\ at = "wake" /\ at' = "service" /\ turn' = queue /\ harm' = {} /\ ent' = ent
        /\ fdt' = fdt /\ kind' = kind /\ icmp' = icmp /\ helper' = helper
        /\ tainted' = tainted /\ queue' = queue
    BY <1>3 DEF Drained
  <2>2. TurnOK'
    BY <2>1 DEF TurnOK
  <2>3. \A j \in Slots : PaceOK(j)'
    BY <1>1, <1>2, <2>1 DEF PaceOK
  <2> QED
    BY <1>1, <2>1, <2>2, <2>3, LookOnly DEF Stages
<1>4. CASE Loop
  <2>1. /\ at = "woke" /\ at' = "top" /\ turn' = turn /\ harm' = {} /\ ent' = ent
        /\ fdt' = fdt /\ kind' = kind /\ icmp' = icmp /\ helper' = helper
        /\ tainted' = tainted /\ queue' = queue
    BY <1>4 DEF Loop
  <2>2. TurnOK'
    BY <1>2, <2>1 DEF TurnOK
  <2>3. \A j \in Slots : PaceOK(j)'
    BY <1>1, <1>2, <2>1 DEF PaceOK
  <2> QED
    BY <1>1, <2>1, <2>2, <2>3, LookOnly DEF Stages
<1>5. CASE Hup
  <2>1. /\ at = "woke" /\ at' = "hup" /\ harm' = {} /\ ent' = ent
        /\ turn' = Filter(queue, {j \in Slots : ent[j].data # "null"})
        /\ fdt' = fdt /\ kind' = kind /\ icmp' = icmp /\ helper' = helper
        /\ tainted' = tainted /\ queue' = queue
    BY <1>5 DEF Hup
  <2>2. /\ turn' \in Seq(Slots) /\ IsInjective(turn')
        /\ Range(turn') = Range(queue) \cap {j \in Slots : ent[j].data # "null"}
    BY <1>1, <2>1, FilterIs
  <2>3. TurnOK'
    BY <2>1 DEF TurnOK
  <2>4. \A j \in Slots : PaceOK(j)'
    BY <1>1, <1>2, <2>1, <2>2 DEF PaceOK
  <2> QED
    BY <1>1, <2>1, <2>2, <2>3, <2>4, LookOnly DEF Stages
<1> QED
  BY <1>3, <1>4, <1>5

\* queue_check() for the objects that are due.
LEMMA QueueSound ==
  ASSUME Inv, NEW due \in SUBSET Slots, queue_checks(due)
  PROVE  Sound
<1> DEFINE old == {i \in Slots : ent[i].age >= Killafter}
<1>1. /\ at = "top" /\ at' = "wake" /\ harm' = {} /\ kind' = kind /\ icmp' = icmp
      /\ fdt' = fdt /\ helper' = helper /\ tainted' = tainted
      /\ \A i \in due : kind[i] # "none" /\ ~ent[i].queued
  BY DEF queue_checks
<1>2. PICK order \in Arrangements(due) : queue' = order \o queue
  BY DEF queue_checks
<1>3. turn' = Filter(queue, old) \/ turn' = <<>>
  BY DEF queue_checks, Stale
<1>4. /\ \A i \in due : ent'[i] = NewEntry
      /\ \A i \in Slots \ due : ent'[i] = ent[i]
      /\ ent' = [i \in Slots |-> ent'[i]]
  BY DEF queue_checks
<1>5. /\ Basics /\ queue \in Seq(Slots) /\ IsInjective(queue)
      /\ Range(queue) = {i \in Slots : ent[i].queued}
      /\ \A i \in Slots : EntryOK(i) /\ OwnOK(i) /\ PaceOK(i)
  BY DEF Inv, QueueOK
<1> HIDE DEF old
<1>6. order \in Seq(Slots) /\ IsInjective(order) /\ Range(order) = due
  BY OrderIs
<1>7. /\ queue' \in Seq(Slots) /\ IsInjective(queue')
      /\ Range(queue') = due \cup Range(queue)
  <2>1. Range(order) \cap Range(queue) = {}
    BY <1>1, <1>5, <1>6
  <2> QED
    BY SMTT(30), <1>2, <1>5, <1>6, <2>1, JoinIs
<1>8. turn' \in Seq(Slots) /\ IsInjective(turn') /\ Range(turn') \subseteq Range(queue) \cap old
  <2>1. CASE turn' = Filter(queue, old)
    BY <1>5, <2>1, FilterIs
  <2>2. CASE turn' = <<>>
    BY SMTT(30), <2>2 DEF IsInjective, Range
  <2> QED
    BY <1>3, <2>1, <2>2
<1>9. Basics'
  BY <1>1, <1>4, <1>5 DEF Basics, Stages
<1>10. QueueOK'
  <2>1. {i \in Slots : ent'[i].queued} = due \cup {i \in Slots : ent[i].queued}
    BY <1>4, NewIs
  <2> QED
    BY <1>5, <1>7, <1>8, <2>1 DEF QueueOK
<1>11. TurnOK'
  <2>1. ASSUME NEW i \in Range(turn') PROVE ent'[i].age >= Killafter
    <3>1. i \in Slots /\ i \in old /\ ent[i].queued
      BY <1>5, <1>8, <2>1
    <3> QED
      BY <1>1, <1>4, <3>1 DEF old
  <2> QED
    BY <1>1, <2>1 DEF TurnOK
<1>12. ASSUME NEW i \in due PROVE EntryOK(i)' /\ OwnOK(i)' /\ PaceOK(i)'
  <2>1. kind[i] \in Kinds
    BY <1>1, <1>5, FleetAssumption DEF Basics
  <2>2. EntryOK(i)'
    BY <1>1, <1>4, <2>1, NewFits DEF EntryOK
  <2>3. ent[i] = NoEntry
    BY <1>1, <1>5, QueuedIs
  <2>4. OwnOK(i)'
    <3>1. ~tainted => \A f \in Fds : fdt[f] # i
      BY <1>5, <2>3, NoEntryIs DEF OwnOK, Found
    <3> QED
      BY <1>1, <1>4, <3>1, NewIs DEF OwnOK, Found, Safe
  <2>5. PaceOK(i)'
    BY <1>1, <1>4, NewIs DEF PaceOK
  <2> QED
    BY <2>2, <2>4, <2>5
<1>13. ASSUME NEW i \in Slots \ due PROVE EntryOK(i)' /\ OwnOK(i)' /\ PaceOK(i)'
  BY <1>1, <1>4, <1>5 DEF EntryOK, OwnOK, PaceOK
<1>14. \A i \in Slots : LifeMove(i)
  BY <1>1, <1>4, NewIs DEF LifeMove
<1> QED
  BY <1>1, <1>9, <1>10, <1>11, <1>12, <1>13, <1>14 DEF Sound, Inv

\* An entry d ticks later.
LEMMA OlderIs ==
  ASSUME NEW e \in Entries, NEW d \in 0..MaxSleep
  PROVE  LET y == Older(e, d)
         IN  /\ y \in Entries /\ y.queued = TRUE /\ y.started = e.started
             /\ y.retval = e.retval /\ y.fd = e.fd /\ y.data = e.data /\ y.st = e.st
             /\ y.n = e.n /\ y.m = e.m /\ y.seen = e.seen /\ y.good = e.good
             /\ y.age <= e.age + d
<1> DEFINE a == IF e.age + d > Killafter + Throttle THEN Killafter + Throttle ELSE e.age + d
           b == IF e.data = "held"
                  THEN IF e.idle + d > Globtimeout THEN Globtimeout ELSE e.idle + d
                  ELSE 0
           y == Older(e, d)
<1>1. /\ e.queued = TRUE /\ e.age \in 0..(Killafter + Throttle) /\ e.idle \in 0..Globtimeout
  BY DEF Entries
<1>2. MaxSleep \in Nat /\ Killafter \in Nat /\ Throttle \in Nat /\ Globtimeout \in Nat
  BY TimesAssumption, FleetAssumption
<1>3. y = [e EXCEPT !.age = a, !.idle = b]
  BY <1>1 DEF Older
<1>4. a \in 0..(Killafter + Throttle) /\ b \in 0..Globtimeout /\ a <= e.age + d
  BY SMTT(30), <1>1, <1>2
<1> HIDE DEF y, a, b
<1>5. y.age = a /\ y.queued = TRUE /\ y.started = e.started /\ y.retval = e.retval
  BY <1>1, <1>3 DEF Entries
<1>6. y.fd = e.fd /\ y.data = e.data /\ y.st = e.st /\ y.n = e.n
  BY <1>3 DEF Entries
<1>7. y.m = e.m /\ y.seen = e.seen /\ y.good = e.good
  BY <1>3 DEF Entries
<1>8. y \in Entries
  BY <1>3, <1>4 DEF Entries
<1> QED
  BY <1>4, <1>5, <1>6, <1>7, <1>8 DEF y

\* needssleep(): everything grows older.
LEMMA SleepSound ==
  ASSUME Inv, NEW d \in 0..MaxSleep, Sleep(d)
  PROVE  Sound
<1>1. /\ at = "service" /\ turn = <<>> /\ at' = "woke" /\ harm' = {} /\ kind' = kind
      /\ icmp' = icmp /\ queue' = queue /\ fdt' = fdt /\ helper' = helper /\ turn' = turn
      /\ tainted' = tainted
  BY DEF Sleep
<1>2. /\ \A i \in Slots : ent'[i] = Older(ent[i], d)
      /\ ent' = [i \in Slots |-> ent'[i]]
  BY DEF Sleep
<1>3. /\ Basics /\ QueueOK /\ \A i \in Slots : EntryOK(i) /\ OwnOK(i) /\ PaceOK(i)
  BY DEF Inv
<1>4. ASSUME NEW i \in Slots, ~ent[i].queued
      PROVE  ent'[i] = NoEntry /\ ent[i] = NoEntry
  <2>1. ent[i] = NoEntry
    BY <1>3, <1>4, QueuedIs
  <2> QED
    BY <1>2, <1>4, <2>1 DEF Older
<1>5. ASSUME NEW i \in Slots, ent[i].queued
      PROVE  /\ ent'[i] \in Entries /\ ent'[i].queued /\ ent'[i].started = ent[i].started
             /\ ent'[i].retval = ent[i].retval /\ ent'[i].fd = ent[i].fd
             /\ ent'[i].data = ent[i].data /\ ent'[i].st = ent[i].st
             /\ ent'[i].n = ent[i].n /\ ent'[i].m = ent[i].m /\ ent'[i].seen = ent[i].seen
             /\ ent'[i].good = ent[i].good /\ ent'[i].age <= ent[i].age + d
  <2>1. ent[i] \in Entries
    BY <1>3, <1>5, QueuedIs
  <2>2. ent'[i] = Older(ent[i], d)
    BY <1>2
  <2> DEFINE e == ent[i]
             y == Older(e, d)
  <2>3. /\ y \in Entries /\ y.queued = TRUE /\ y.started = e.started
        /\ y.retval = e.retval /\ y.fd = e.fd /\ y.data = e.data /\ y.st = e.st
        /\ y.n = e.n /\ y.m = e.m /\ y.seen = e.seen /\ y.good = e.good
        /\ y.age <= e.age + d
    BY <2>1, OlderIs
  <2> QED
    BY <2>2, <2>3
<1>6. Basics'
  BY <1>1, <1>2, <1>3 DEF Basics, Stages
<1>7. QueueOK'
  <2>1. {i \in Slots : ent'[i].queued} = {i \in Slots : ent[i].queued}
    BY <1>4, <1>5, NoEntryIs
  <2> QED
    BY <1>1, <1>3, <2>1 DEF QueueOK
<1>8. TurnOK'
  BY <1>1 DEF TurnOK
<1>9. ASSUME NEW i \in Slots, ~ent[i].queued PROVE EntryOK(i)' /\ OwnOK(i)' /\ PaceOK(i)'
  <2>1. ent'[i] = NoEntry /\ ent[i] = NoEntry
    BY <1>4, <1>9
  <2>2. EntryOK(i)' /\ PaceOK(i)'
    BY <2>1, NoEntryIs DEF EntryOK, Fit, PaceOK
  <2>3. OwnOK(i)'
    BY <1>1, <1>3, <2>1 DEF OwnOK
  <2> QED
    BY <2>2, <2>3
<1>10. ASSUME NEW i \in Slots, ent[i].queued PROVE EntryOK(i)' /\ OwnOK(i)' /\ PaceOK(i)'
  <2> DEFINE e == ent[i]
             y == ent'[i]
             k == kind[i]
  <2>1. /\ y \in Entries /\ y.queued /\ y.started = e.started /\ y.retval = e.retval
        /\ y.fd = e.fd /\ y.data = e.data /\ y.st = e.st /\ y.n = e.n /\ y.m = e.m
        /\ y.seen = e.seen /\ y.good = e.good /\ y.age <= e.age + d
    BY <1>5, <1>10
  <2>2. /\ k \in Kinds /\ e \in Entries /\ Earned(k, e, icmp) /\ Counted(k, e)
        /\ Holding(k, e) /\ (~e.started => e = NewEntry)
    BY <1>3, <1>10, QueuedIs
  <2>3. e.started
    BY SMTT(30), <1>1, <1>3, <1>10 DEF PaceOK, Range
  <2> HIDE DEF e, y, k
  <2>4. Earned(k, y, icmp)
    BY <2>1, <2>2 DEF Earned
  <2>5. Counted(k, y)
    BY <2>1, <2>2 DEF Counted
  <2>6. Holding(k, y)
    BY <2>1, <2>2 DEF Holding
  <2>7. EntryOK(i)'
    BY <1>1, <2>1, <2>2, <2>3, <2>4, <2>5, <2>6 DEF EntryOK, Fit, k, y
  <2>8. OwnOK(i)'
    BY <1>1, <1>3, <2>1 DEF OwnOK, Found, Safe, e, y
  <2>9. PaceOK(i)'
    <3>1. e.retval = "NODNS" => e.age = 0
      BY SMTT(30), <1>1, <1>3, <1>10 DEF PaceOK, Range, e
    <3>2. y.age \in 0..(Killafter + Throttle) /\ MaxSleep \in Nat /\ d \in Int
      BY SMTT(30), <2>1, FleetAssumption DEF Entries
    <3>3. y.retval = "NODNS" => y.age <= MaxSleep
      BY SMTT(30), <2>1, <3>1, <3>2
    <3> QED
      BY <1>1, <2>1, <2>3, <3>3 DEF PaceOK, y
  <2> QED
    BY <2>7, <2>8, <2>9
<1>11. \A i \in Slots : LifeMove(i)
  <2>1. ASSUME NEW i \in Slots PROVE LifeMove(i)
    <3>1. CASE ~ent[i].queued
      BY <1>4, <2>1, <3>1 DEF LifeMove
    <3>2. CASE ent[i].queued
      <4>1. ent'[i].queued = TRUE /\ ent'[i].retval = ent[i].retval
        BY <1>5, <2>1, <3>2 DEF Entries
      <4>2. ent[i].queued = TRUE
        BY <1>3, <3>2, QueuedIs
      <4> QED
        BY <4>1, <4>2 DEF LifeMove
    <3> QED
      BY <3>1, <3>2
  <2> QED
    BY <2>1
<1> QED
  BY <1>1, <1>6, <1>7, <1>8, <1>9, <1>10, <1>11 DEF Sound, Inv

\* An empty queue, and no descriptor that is anyone's.
LEMMA EmptySound ==
  ASSUME Inv, kind' = kind, icmp' = icmp, helper' \in BOOLEAN, tainted' \in BOOLEAN,
         ent' = [i \in Slots |-> NoEntry], queue' = <<>>, turn' = <<>>, at' = "top",
         fdt' \in Tables, \A f \in Fds : fdt'[f] \notin Slots,
         ~tainted => harm' \subseteq KnownHarm
  PROVE  Sound
<1>1. \A i \in Slots : ent'[i] = NoEntry
  OBVIOUS
<1>2. Basics'
  BY DEF Inv, Basics, Stages
<1>3. QueueOK'
  <2>1. <<>> \in Seq(Slots) /\ IsInjective(<<>>) /\ Range(<<>>) = {}
    BY SMTT(30) DEF IsInjective, Range
  <2>2. {i \in Slots : ent'[i].queued} = {}
    BY <1>1, NoEntryIs
  <2> QED
    BY <2>1, <2>2 DEF QueueOK
<1>4. TurnOK'
  BY DEF TurnOK
<1>5. \A i \in Slots : EntryOK(i)' /\ PaceOK(i)'
  BY <1>1, NoEntryIs DEF EntryOK, Fit, PaceOK
<1>6. \A i \in Slots : OwnOK(i)'
  BY <1>1, NoEntryIs DEF OwnOK, Found, Safe
<1> QED
  BY <1>1, <1>2, <1>3, <1>4, <1>5, <1>6 DEF Sound, Inv

\* fast_cleanup_checks() frees the entries: what is lost then was opened by a
\* check whose name did not resolve.
LEMMA FreeSound ==
  ASSUME Inv, FreeQueue
  PROVE  Sound
<1>1. /\ at = "hup" /\ turn = <<>> /\ ent' = [i \in Slots |-> NoEntry]
      /\ fdt' = [f \in Fds |-> IF fdt[f] # 0 THEN Leaked ELSE 0]
      /\ queue' = <<>> /\ at' = "top" /\ kind' = kind /\ icmp' = icmp /\ helper' = helper
      /\ turn' = turn /\ tainted' = tainted
      /\ harm' = {<<kind[i], "lostfd">> : i \in {fdt[f] : f \in Fds} \cap Slots}
  BY DEF FreeQueue
<1>2. Basics /\ \A i \in Slots : EntryOK(i) /\ OwnOK(i) /\ PaceOK(i)
  BY DEF Inv
<1>3. fdt' \in Tables /\ \A f \in Fds : fdt'[f] \notin Slots
  BY <1>1, TimesAssumption, FleetAssumption DEF Tables
<1>4. ASSUME ~tainted, NEW f \in Fds, fdt[f] \in Slots
      PROVE  <<kind[fdt[f]], "lostfd">> \in KnownHarm
  <2> DEFINE i == fdt[f]
  <2>1. ent[i].data = "held" \/ kind[i] \in Early
    BY <1>2, <1>4 DEF OwnOK, Found
  <2>2. ent[i].data = "null"
    <3>1. CASE ent[i].queued
      BY SMTT(30), <1>1, <1>2, <1>4, <3>1 DEF PaceOK, Range
    <3>2. CASE ~ent[i].queued
      BY <1>2, <1>4, <3>2, QueuedIs, NoEntryIs
    <3> QED
      BY <3>1, <3>2
  <2> QED
    BY <2>1, <2>2 DEF KnownHarm, Early
<1>5. ~tainted => harm' \subseteq KnownHarm
  BY <1>1, <1>4
<1> QED
  BY <1>1, <1>2, <1>3, <1>5, EmptySound DEF Basics

\* The process goes down, and is started again.
LEMMA CrashSound ==
  ASSUME Inv, Crash \/ Restart
  PROVE  Sound
<1>1. CASE Crash
  <2>1. /\ tainted /\ at # "dead" /\ at' = "dead" /\ harm' = {}
        /\ kind' = kind /\ icmp' = icmp /\ ent' = ent /\ queue' = queue /\ fdt' = fdt
        /\ helper' = helper /\ turn' = turn /\ tainted' = tainted
    BY <1>1 DEF Crash
  <2>2. /\ turn \in Seq(Slots) /\ IsInjective(turn) /\ Range(turn) \subseteq Range(queue)
    BY DEF Inv, QueueOK
  <2>3. TurnOK' /\ \A i \in Slots : PaceOK(i)'
    BY <2>1 DEF TurnOK, PaceOK
  <2> QED
    BY <2>1, <2>2, <2>3, LookOnly DEF Stages
<1>2. CASE Restart
  <2>1. /\ ent' = [i \in Slots |-> NoEntry] /\ queue' = <<>> /\ turn' = <<>>
        /\ fdt' = [f \in Fds |-> 0] /\ helper' = TRUE /\ tainted' = FALSE
        /\ at' = "top" /\ harm' = {} /\ kind' = kind /\ icmp' = icmp
    BY <1>2 DEF Restart
  <2>2. fdt' \in Tables /\ \A f \in Fds : fdt'[f] \notin Slots
    BY <2>1, TimesAssumption DEF Tables
  <2> QED
    BY <2>1, <2>2, EmptySound
<1> QED
  BY <1>1, <1>2

\* Every step of the daemon is sound.
LEMMA StepSound ==
  ASSUME Inv, Next
  PROVE  Sound
<1>1. CASE \E due \in SUBSET Slots : queue_checks(due)
  BY <1>1, QueueSound
<1>2. CASE wakeup_checks
  BY <1>2, WakeSound
<1>3. CASE handle_icmp_responses
  BY <1>3, ReplySound DEF handle_icmp_responses
<1>4. CASE Drained \/ Loop \/ Hup
  BY <1>4, StageSound
<1>5. CASE service_checks
  BY <1>5, ServiceSound, RetireSound
<1>6. CASE \E d \in 0..MaxSleep : Sleep(d)
  BY <1>6, SleepSound
<1>7. CASE \E i \in Slots : ServiceReady(i)
  BY <1>7, ReadySound
<1>8. CASE fast_cleanup_checks
  BY <1>8, CleanupSound
<1>9. CASE FreeQueue
  BY <1>9, FreeSound
<1>10. CASE Crash \/ Restart
  BY <1>10, CrashSound
<1> QED
  BY <1>1, <1>2, <1>3, <1>4, <1>5, <1>6, <1>7, <1>8, <1>9, <1>10 DEF Next

\* The daemon starts with an empty queue.
LEMMA InitInv ==
  ASSUME Init
  PROVE  Inv
<1>1. /\ kind \in Fleets /\ ent = [i \in Slots |-> NoEntry] /\ queue = <<>> /\ turn = <<>>
      /\ fdt = [f \in Fds |-> 0] /\ helper = TRUE /\ icmp \in BOOLEAN /\ at = "top"
      /\ tainted = FALSE
  BY DEF Init
<1>2. \A i \in Slots : ent[i] = NoEntry
  BY <1>1
<1>3. fdt \in Tables /\ \A f \in Fds : fdt[f] \notin Slots
  BY <1>1, TimesAssumption DEF Tables
<1>4. Basics
  BY <1>1, <1>3 DEF Basics, Stages
<1>5. QueueOK
  <2>1. <<>> \in Seq(Slots) /\ IsInjective(<<>>) /\ Range(<<>>) = {}
    BY SMTT(30) DEF IsInjective, Range
  <2>2. {i \in Slots : ent[i].queued} = {}
    BY <1>2, NoEntryIs
  <2> QED
    BY <1>1, <2>1, <2>2 DEF QueueOK
<1>6. TurnOK
  BY <1>1 DEF TurnOK
<1>7. \A i \in Slots : EntryOK(i) /\ PaceOK(i)
  BY <1>2, NoEntryIs DEF EntryOK, Fit, PaceOK
<1>8. \A i \in Slots : OwnOK(i)
  BY <1>2, <1>3, NoEntryIs DEF OwnOK, Found, Safe
<1> QED
  BY <1>4, <1>5, <1>6, <1>7, <1>8 DEF Inv

\* What holds throughout.
LEMMA Invariance == Spec => []Inv
<1>1. Init => Inv
  BY InitInv
<1>2. Inv /\ [Next]_vars => Inv'
  <2>1. ASSUME Inv, Next PROVE Inv'
    BY <2>1, StepSound DEF Sound
  <2>2. ASSUME Inv, UNCHANGED vars PROVE Inv'
    <3>1. Basics' /\ QueueOK' /\ TurnOK'
      BY <2>2 DEF vars, Inv, Basics, QueueOK, TurnOK
    <3>2. \A i \in Slots : EntryOK(i)' /\ OwnOK(i)' /\ PaceOK(i)'
      BY <2>2 DEF vars, Inv, EntryOK, OwnOK, PaceOK
    <3> QED
      BY <3>1, <3>2 DEF Inv
  <2> QED
    BY <2>1, <2>2
<1> QED
  BY <1>1, <1>2, PTL DEF Spec

(***************************************************************************)
(* The time a check takes of itself.                                       *)
(***************************************************************************)

\* The settings leave every check with a timeout of its own the time it needs:
\* the last request has been given up, and the daemon has woken up once more,
\* before killafter.  The defaults do; rtt_samples and rtt_interval can be set so
\* that an rtt check does not.
Prompt ==
  /\ Globtimeout - 1 + Delay - 1 + MaxSleep < Killafter
  /\ (MaxSent + 1) * (Delay - 1 + MaxSleep) < Killafter
  /\ (SendPings - 1) * (Delay + MaxSleep) + 2 * Delay - 1 + MaxSleep < Killafter
  /\ (SendPings - 1) * (Interval - 1 + MaxSleep) + Grace - 1 + MaxSleep < Killafter
  /\ SendPings * (2 * Delay - 1 + MaxSleep) < Killafter

\* The daemon has serviced what a walk of service_checks() is past; the others
\* it left alone for a sleep at most.
Slack(i) == IF at = "service" /\ i \notin Range(turn) THEN 0 ELSE MaxSleep

TimeOK(i) ==
  ent[i].queued /\ Going(kind[i], ent[i]) =>
    IF at = "dead" THEN ent[i].age < Killafter
    ELSE OnTime(kind[i], ent[i], Slack(i))

TimeInv == \A i \in Slots : TimeOK(i)

\* Products grow with their factors.
LEMMA TimesGrow ==
  ASSUME NEW a \in Nat, NEW b \in Nat, a <= b, NEW s \in Nat
  PROVE  a * s \in Nat /\ b * s \in Nat /\ a * s <= b * s /\ (a + 1) * s = a * s + s
<1>1. PICK c \in Nat : b = a + c
  <2>1. b - a \in Nat /\ b = a + (b - a)
    BY SMTT(30)
  <2> QED
    BY <2>1
<1>2. a * s \in Nat /\ c * s \in Nat /\ b * s = a * s + c * s
  BY SMTT(30), <1>1
<1> QED
  BY SMTT(30), <1>2

\* How long a check lies still is less than the timeout of the daemon, and before
\* the last request it is the gap.
LEMMA PatienceIs ==
  ASSUME NEW k \in Kinds, NEW n \in Nat
  PROVE  /\ Gap(k) \in Nat /\ Patience(k, n) \in Nat /\ Patience(k, n) < Globtimeout
         /\ Requests(k) \in Nat \ {0} /\ MaxSleep \in Nat /\ Globtimeout \in Nat \ {0}
         /\ k \in PacedKinds /\ n < Requests(k) => Patience(k, n) = Gap(k)
<1>1. /\ Delay \in Nat \ {0} /\ Interval \in Nat \ {0} /\ Grace \in Nat \ {0}
      /\ Globtimeout \in Nat \ {0} /\ 2 * Delay <= Globtimeout /\ Interval <= Globtimeout
      /\ Grace <= Globtimeout /\ SendPings \in Nat \ {0} /\ MaxSent \in Nat /\ MaxSleep \in Nat
  BY SMTT(30), TimesAssumption, FleetAssumption
<1>2. Gap(k) \in {Delay - 1, Delay, Interval - 1, 2 * Delay - 1, 0}
  BY DEF Gap
<1>3. Patience(k, n) \in {2 * Delay - 1, Grace - 1, Gap(k)}
  BY DEF Patience
<1>4. k \in PacedKinds /\ n < Requests(k) => Patience(k, n) = Gap(k)
  BY SMTT(30), <1>1 DEF Patience, Requests, PacedKinds
<1>5. Requests(k) \in Nat \ {0}
  BY SMTT(30), <1>1 DEF Requests
<1> QED
  BY SMTT(30), <1>1, <1>2, <1>3, <1>4, <1>5

\* The clocks of an entry.
LEMMA ClocksAre ==
  ASSUME NEW k \in Kinds, NEW e \in Entries
  PROVE  /\ e.age \in Nat /\ e.idle \in Nat /\ e.idle <= Globtimeout /\ e.n \in Nat
         /\ k \in PacedKinds /\ e.n >= 1 => Latest(k, e.n) \in Nat
         /\ k \notin PacedKinds => Latest(k, e.n) \in Nat
<1>1. /\ e.age \in 0..(Killafter + Throttle) /\ e.idle \in 0..Globtimeout /\ e.n \in Nat
  BY DEF Entries
<1>2. e.age \in Nat /\ e.idle \in Nat /\ e.idle <= Globtimeout
  BY SMTT(30), <1>1, TimesAssumption
<1>3. Gap(k) + MaxSleep \in Nat /\ Globtimeout - 1 \in Nat
  <2>1. Gap(k) \in Nat /\ MaxSleep \in Nat /\ Globtimeout \in Nat \ {0}
    BY <1>1, PatienceIs
  <2> QED
    BY SMTT(30), <2>1
<1>4. ASSUME e.n >= 1 PROVE (e.n - 1) * (Gap(k) + MaxSleep) \in Nat
  <2>1. e.n - 1 \in Nat
    BY SMTT(30), <1>1, <1>4
  <2> QED
    BY SMTT(30), <1>3, <2>1, TimesGrow
<1> QED
  BY <1>1, <1>2, <1>3, <1>4 DEF Latest

\* A check that was serviced and goes on is on time again.
LEMMA ServedOnTime ==
  ASSUME NEW k \in Kinds, NEW e \in Entries, NEW f \in Entries,
         OnTime(k, e, MaxSleep), Moves(k, e, f)
  PROVE  OnTime(k, f, 0)
<1>1. /\ e.age \in Nat /\ e.idle \in Nat /\ e.n \in Nat
      /\ k \in PacedKinds /\ e.n >= 1 => Latest(k, e.n) \in Nat
      /\ k \notin PacedKinds => Latest(k, e.n) \in Nat
  BY ClocksAre
<1>2. f.idle \in Nat /\ f.n \in Nat /\ f.age = e.age
  BY ClocksAre DEF Moves
<1>3. /\ Gap(k) \in Nat /\ Patience(k, e.n) \in Nat /\ MaxSleep \in Nat
      /\ k \in PacedKinds /\ e.n < Requests(k) => Patience(k, e.n) = Gap(k)
      /\ Patience(k, f.n) \in Nat /\ Requests(k) \in Nat /\ Globtimeout \in Nat
  BY <1>1, <1>2, PatienceIs
<1>4. /\ k \in PacedKinds => e.n \in 1..Requests(k)
      /\ e.age <= Latest(k, e.n) + Patience(k, e.n) + MaxSleep
      /\ e.idle <= Patience(k, e.n) => e.age <= Latest(k, e.n) + e.idle
  BY DEF OnTime
<1>5. CASE Waits(k, e, f)
  <2>1. f.n = e.n /\ f.idle = e.idle /\ e.idle <= Patience(k, e.n)
    BY <1>5 DEF Waits
  <2>2. Latest(k, e.n) \in Nat
    BY SMTT(30), <1>1, <1>3, <1>4
  <2> QED
    BY SMTT(30), <1>1, <1>2, <1>3, <1>4, <2>1, <2>2 DEF OnTime
<1>6. CASE Asks(k, e, f)
  <2>1. k \in PacedKinds /\ f.n = e.n + 1 /\ e.n < Requests(k)
    BY <1>6 DEF Asks
  <2> DEFINE S == Gap(k) + MaxSleep
             a == e.n - 1
  <2>2. a \in Nat /\ S \in Nat /\ e.n = a + 1 /\ f.n - 1 = a + 1
    BY SMTT(30), <1>1, <1>3, <1>4, <2>1
  <2>3. Latest(k, e.n) = a * S /\ Latest(k, f.n) = (a + 1) * S
    BY <2>1, <2>2 DEF Latest
  <2>4. a * S \in Nat /\ (a + 1) * S = a * S + S
    BY SMTT(30), <2>2, TimesGrow
  <2>5. e.age <= a * S + S
    BY SMTT(30), <1>3, <1>4, <2>1, <2>3
  <2>6. f.age <= Latest(k, f.n)
    BY <1>2, <2>3, <2>4, <2>5
  <2>7. f.n \in 1..Requests(k) /\ Latest(k, f.n) \in Nat
    BY SMTT(30), <1>1, <1>3, <1>4, <2>1, <2>2, <2>3, <2>4
  <2> HIDE DEF a, S
  <2> QED
    BY SMTT(30), <1>1, <1>2, <1>3, <2>6, <2>7 DEF OnTime
<1>7. CASE Young(k, e)
  <2>1. k \notin PacedKinds /\ f.age <= Globtimeout - 1 /\ Latest(k, f.n) = Globtimeout - 1
    BY SMTT(30), <1>1, <1>2, <1>3, <1>7 DEF Young, Latest
  <2> QED
    BY SMTT(30), <1>1, <1>2, <1>3, <2>1 DEF OnTime
<1> QED
  BY <1>5, <1>6, <1>7 DEF Moves

\* A check that was serviced may be late by a sleep.
LEMMA LateOnTime ==
  ASSUME NEW k \in Kinds, NEW e \in Entries, OnTime(k, e, 0)
  PROVE  OnTime(k, e, MaxSleep)
<1>1. /\ e.age \in Nat /\ e.n \in Nat
      /\ k \in PacedKinds /\ e.n >= 1 => Latest(k, e.n) \in Nat
      /\ k \notin PacedKinds => Latest(k, e.n) \in Nat
  BY ClocksAre
<1>2. Patience(k, e.n) \in Nat /\ MaxSleep \in Nat /\ Requests(k) \in Nat
  BY <1>1, PatienceIs
<1> QED
  BY SMTT(30), <1>1, <1>2 DEF OnTime

\* A check that was serviced, d ticks later.
LEMMA OlderOnTime ==
  ASSUME NEW k \in Kinds, NEW e \in Entries, e.data = "held", NEW d \in 0..MaxSleep,
         OnTime(k, e, 0)
  PROVE  OnTime(k, Older(e, d), MaxSleep)
<1> DEFINE y == Older(e, d)
<1>1. y \in Entries /\ y.n = e.n /\ y.age <= e.age + d
  BY OlderIs
<1>2. y.idle = IF e.idle + d > Globtimeout THEN Globtimeout ELSE e.idle + d
  <2>1. e.queued = TRUE
    BY DEF Entries
  <2> QED
    BY <2>1 DEF Older, Entries
<1> HIDE DEF y
<1>3. /\ e.age \in Nat /\ e.idle \in Nat /\ e.n \in Nat /\ y.age \in Nat
      /\ k \in PacedKinds /\ e.n >= 1 => Latest(k, e.n) \in Nat
      /\ k \notin PacedKinds => Latest(k, e.n) \in Nat
  BY <1>1, ClocksAre
<1>4. /\ Patience(k, e.n) \in Nat /\ Patience(k, e.n) < Globtimeout /\ MaxSleep \in Nat
      /\ Requests(k) \in Nat /\ Globtimeout \in Nat
  BY <1>3, PatienceIs
<1>5. /\ k \in PacedKinds => e.n \in 1..Requests(k)
      /\ e.age <= Latest(k, e.n) + Patience(k, e.n)
      /\ e.idle <= Patience(k, e.n) => e.age <= Latest(k, e.n) + e.idle
      /\ Latest(k, e.n) \in Nat
  BY SMTT(30), <1>3, <1>4 DEF OnTime
<1>6. y.age <= Latest(k, e.n) + Patience(k, e.n) + MaxSleep
  BY SMTT(30), <1>1, <1>3, <1>4, <1>5
<1>7. ASSUME y.idle <= Patience(k, e.n) PROVE y.age <= Latest(k, e.n) + y.idle
  BY SMTT(30), <1>1, <1>2, <1>3, <1>4, <1>5, <1>7
<1> QED
  BY <1>1, <1>5, <1>6, <1>7 DEF OnTime, y

\* A check just started is on time.
LEMMA StartOnTime ==
  ASSUME NEW k \in Kinds, NEW e \in Entries, e.age = 0, k \in PacedKinds => e.n = 1
  PROVE  OnTime(k, e, 0)
<1>1. /\ e.idle \in Nat /\ e.n \in Nat
      /\ k \in PacedKinds /\ e.n >= 1 => Latest(k, e.n) \in Nat
      /\ k \notin PacedKinds => Latest(k, e.n) \in Nat
  BY ClocksAre
<1>2. Patience(k, e.n) \in Nat /\ Requests(k) \in Nat \ {0}
  BY <1>1, PatienceIs
<1> QED
  BY SMTT(30), <1>1, <1>2 DEF OnTime

\* A check on time is younger than killafter.
LEMMA OnTimeEnds ==
  ASSUME Prompt, NEW k \in Kinds, NEW e \in Entries, SelfTimed(k, e),
         OnTime(k, e, MaxSleep)
  PROVE  e.age < Killafter
<1>1. /\ e.age \in Nat /\ e.n \in Nat
      /\ e.age <= Latest(k, e.n) + Patience(k, e.n) + MaxSleep
      /\ k \in PacedKinds => e.n \in 1..Requests(k)
  BY ClocksAre DEF OnTime
<1>2. /\ Killafter \in Nat /\ Delay \in Nat \ {0} /\ Interval \in Nat \ {0} /\ MaxSleep \in Nat
      /\ Grace \in Nat \ {0} /\ Globtimeout \in Nat \ {0} /\ MaxSent \in Nat
      /\ SendPings \in Nat \ {0}
  BY SMTT(30), TimesAssumption, FleetAssumption
<1>3. CASE k \notin PacedKinds
  <2>1. Latest(k, e.n) = Globtimeout - 1
    BY <1>3 DEF Latest
  <2>2. Patience(k, e.n) \in {Delay - 1, 0}
    <3>1. k \in {"tcp", "udp", "smtp", "ssh", "snmp"}
      BY <1>3 DEF SelfTimed, PacedKinds
    <3>2. k # "pktloss" /\ k # "rtt" /\ k # "pingv6"
      BY <3>1
    <3> QED
      BY <3>2 DEF Patience, Gap
  <2> QED
    BY SMTT(30), <1>1, <1>2, <2>1, <2>2 DEF Prompt
<1>4. CASE k \in PacedKinds
  <2> DEFINE L == Requests(k)
             S == Gap(k) + MaxSleep
             n == e.n
  <2>1. n \in 1..L /\ L \in Nat \ {0} /\ Gap(k) \in Nat /\ S \in Nat /\ Patience(k, n) \in Nat
        /\ (n < L => Patience(k, n) = Gap(k)) /\ Patience(k, L) \in Nat
    <3>1. n \in Nat /\ n \in 1..L
      BY <1>1, <1>4
    <3>2. /\ L \in Nat \ {0} /\ Gap(k) \in Nat /\ Patience(k, n) \in Nat
          /\ (n < L => Patience(k, n) = Gap(k))
      BY <1>4, <3>1, PatienceIs
    <3>3. Patience(k, L) \in Nat
      BY <3>2, PatienceIs
    <3> QED
      BY SMTT(30), <1>2, <3>1, <3>2, <3>3
  <2>2. Latest(k, n) = (n - 1) * S
    BY <1>4 DEF Latest
  <2>3. (L - 1) * S + Patience(k, L) + MaxSleep < Killafter
    <3>1. CASE k = "radius"
      <4>1. L = MaxSent + 1 /\ Gap(k) = Delay - 1 /\ Patience(k, L) = Delay - 1
        BY <3>1 DEF Requests, Gap, Patience
      <4>2. (MaxSent + 1) * S = MaxSent * S + S
        BY SMTT(30), <1>2, <2>1, TimesGrow
      <4>3. (MaxSent + 1) * S < Killafter
        BY <4>1 DEF Prompt
      <4>4. MaxSent * S \in Nat /\ L - 1 = MaxSent
        BY SMTT(30), <1>2, <2>1, <4>1, TimesGrow
      <4> QED
        BY SMTT(30), <1>2, <2>1, <4>1, <4>2, <4>3, <4>4
    <3>2. CASE k = "pktloss"
      <4>1. L = SendPings /\ Gap(k) = Delay /\ Patience(k, L) = 2 * Delay - 1
        BY SMTT(30), <1>2, <3>2 DEF Requests, Gap, Patience
      <4>2. (L - 1) * S + 2 * Delay - 1 + MaxSleep < Killafter /\ (L - 1) * S \in Nat
        <5>1. L - 1 \in Nat
          BY SMTT(30), <2>1
        <5> QED
          BY SMTT(30), <2>1, <4>1, <5>1, TimesGrow DEF Prompt
      <4> QED
        BY <1>2, <4>1, <4>2
    <3>3. CASE k = "rtt"
      <4>1. L = SendPings /\ Gap(k) = Interval - 1 /\ Patience(k, L) = Grace - 1
        BY SMTT(30), <1>2, <3>3 DEF Requests, Gap, Patience
      <4>2. (L - 1) * S + Grace - 1 + MaxSleep < Killafter /\ (L - 1) * S \in Nat
        <5>1. L - 1 \in Nat
          BY SMTT(30), <2>1
        <5> QED
          BY SMTT(30), <2>1, <4>1, <5>1, TimesGrow DEF Prompt
      <4> QED
        BY <1>2, <4>1, <4>2
    <3>4. CASE k = "pingv6"
      <4>1. L = SendPings /\ Gap(k) = 2 * Delay - 1 /\ Patience(k, L) = 2 * Delay - 1
        BY <3>4 DEF Requests, Gap, Patience
      <4>2. L * S < Killafter
        BY <4>1 DEF Prompt
      <4>3. L - 1 \in Nat /\ L - 1 + 1 = L
        BY SMTT(30), <2>1
      <4>4. (L - 1) * S \in Nat /\ (L - 1 + 1) * S = (L - 1) * S + S
        BY SMTT(30), <2>1, <4>3, TimesGrow
      <4> QED
        BY SMTT(30), <1>2, <2>1, <4>1, <4>2, <4>3, <4>4
    <3> QED
      BY <1>4, <3>1, <3>2, <3>3, <3>4 DEF PacedKinds
  <2> HIDE DEF L, S
  <2>4. (n - 1) * S + Patience(k, n) <= (L - 1) * S + Patience(k, L)
    <3>1. CASE n = L
      <4>1. n - 1 \in Nat
        BY SMTT(30), <2>1
      <4>2. (n - 1) * S \in Nat
        BY SMTT(30), <2>1, <4>1, TimesGrow
      <4> QED
        BY SMTT(30), <2>1, <3>1, <4>2
    <3>2. CASE n < L
      <4>1. n - 1 \in Nat /\ n \in Nat /\ L - 1 \in Nat /\ n <= L - 1 /\ n - 1 + 1 = n
        BY SMTT(30), <2>1, <3>2
      <4>2. (n - 1) * S \in Nat /\ (n - 1 + 1) * S = (n - 1) * S + S
        BY SMTT(30), <2>1, <4>1, TimesGrow
      <4>3. n * S <= (L - 1) * S /\ n * S \in Nat /\ (L - 1) * S \in Nat
        BY <2>1, <4>1, TimesGrow
      <4>4. Patience(k, n) <= S
        BY SMTT(30), <1>2, <2>1, <3>2 DEF S
      <4> QED
        BY SMTT(30), <2>1, <4>1, <4>2, <4>3, <4>4
    <3>3. n = L \/ n < L
      BY SMTT(30), <2>1
    <3> QED
      BY <3>1, <3>2, <3>3
  <2>5. (n - 1) * S \in Nat /\ (L - 1) * S \in Nat
    <3>1. n - 1 \in Nat /\ L - 1 \in Nat
      BY SMTT(30), <2>1
    <3> QED
      BY SMTT(30), <2>1, <3>1, TimesGrow
  <2> QED
    BY SMTT(30), <1>1, <1>2, <2>1, <2>2, <2>3, <2>4, <2>5
<1> QED
  BY <1>3, <1>4

\* What a service or a start of a check that goes on does to its clocks.
LEMMA ServiceTimed ==
  ASSUME Inv, NEW i \in Slots, ent[i].queued, at # "dead", ent[i].retval = "pending",
         NEW x \in service_this(World(i), i), Going(kind[i], x.e)
  PROVE  \/ Moves(kind[i], ent[i], x.e)
         \/ x.e.age = 0 /\ (kind[i] \in PacedKinds /\ x.up => x.e.n = 1)
<1> DEFINE v == World(i)
           k == kind[i]
<1>1. /\ k \in Kinds /\ Legal(k, i, tainted, v, v) /\ v.e = ent[i]
      /\ (~ent[i].started => Fresh(k, i, tainted, v)) /\ tainted \in BOOLEAN
  BY WorldIs DEF Inv, Basics
<1>2. x.e.age = ent[i].age
  BY ServiceGood
<1>3. CASE ent[i].started
  <2>1. x \in service_started(v, i)
    BY <1>1, <1>3 DEF service_this
  <2>2. v \in Worlds /\ Holding(k, v.e)
    BY <1>1 DEF Legal
  <2>3. v.e.data = "freed" => k \notin EchoKinds
    BY <2>2 DEF Holding, EchoKinds, Dangles
  <2>4. Moves(k, v.e, x.e)
    BY <1>1, <2>1, <2>2, <2>3, HandlersLegal, LeastIs DEF ServicesTimed
  <2> QED
    BY <1>1, <2>4
<1>4. CASE ~ent[i].started
  <2>1. x \in start_this(v, i)
    BY <1>1, <1>4 DEF service_this
  <2>2. ent[i] = NewEntry
    BY <1>1, <1>4, QueuedIs DEF Inv
  <2>3. k \in PacedKinds /\ x.up => x.e.n = 1
    BY <1>1, <1>4, <2>1, HandlersLegal, LeastIs DEF StartsTimed, Going
  <2> QED
    BY <1>2, <2>2, <2>3, NewIs
<1> QED
  BY <1>3, <1>4

\* What a step makes of the clocks of an object's entry: it is not going on, as it
\* was, serviced, just started, or older.
Stays(i) ==
  /\ at # "dead" /\ ent'[i].queued = ent[i].queued /\ ent'[i].retval = ent[i].retval
  /\ ent'[i].data = ent[i].data /\ ent'[i].st = ent[i].st /\ ent'[i].n = ent[i].n
  /\ ent'[i].age = ent[i].age /\ ent'[i].idle = ent[i].idle
  /\ at' = "service" /\ i \notin Range(turn') => at = "service" /\ i \notin Range(turn)

Serviced(i) ==
  /\ at # "dead" /\ ent[i].queued /\ ent[i].retval = "pending"
  /\ \/ Moves(kind[i], ent[i], ent'[i])
     \/ ent'[i].age = 0 /\ (kind[i] \in PacedKinds /\ at' # "dead" => ent'[i].n = 1)

Ages(i) ==
  /\ at = "service" /\ turn = <<>> /\ at' = "woke" /\ ent[i].queued
  /\ \E d \in 0..MaxSleep : ent'[i] = Older(ent[i], d)

Clocks(i) ==
  \/ ~(ent'[i].queued /\ Going(kind[i], ent'[i]))
  \/ Stays(i)
  \/ Serviced(i)
  \/ Ages(i)

\* A step that works on the entry of j only.
LEMMA OtherStays ==
  ASSUME NEW i \in Slots, NEW j \in Slots, i # j, at # "dead", ent'[i] = ent[i],
         at' = "service" => at = "service" /\ Range(turn') = Range(turn) \ {j}
  PROVE  Clocks(i)
BY DEF Clocks, Stays

\* service_checks() and needssleep() on one entry without an answer.
LEMMA ServiceClocks ==
  ASSUME Inv, NEW j \in Slots, ent[j].queued, at # "dead", ent[j].retval = "pending",
         NEW x \in service_this(World(j), j), NEW next \in Stages, next # "dead",
         Become(j, x, next), kind' = kind, icmp' = icmp
  PROVE  /\ Clocks(j) /\ at' \in {next, "dead"}
         /\ \A i \in Slots \ {j} : ent'[i] = ent[i]
<1>1. Good(j, x)
  BY ServiceGood
<1>2. /\ ent'[j] = x.e /\ \A i \in Slots \ {j} : ent'[i] = ent[i]
      /\ at' = IF x.up THEN next ELSE "dead"
  BY <1>1, BecomeKeeps
<1>3. ASSUME Going(kind[j], x.e) PROVE Serviced(j)
  <2>1. \/ Moves(kind[j], ent[j], x.e)
        \/ x.e.age = 0 /\ (kind[j] \in PacedKinds /\ x.up => x.e.n = 1)
    BY <1>3, ServiceTimed
  <2> QED
    BY <1>2, <2>1 DEF Serviced
<1> QED
  BY <1>2, <1>3 DEF Clocks

\* The steps of a walk: service_checks(), wakeup_checks() and a reload.
LEMMA WalkClocks ==
  ASSUME Inv, NEW i \in Slots, service_checks \/ wakeup_checks \/ fast_cleanup_checks
  PROVE  Clocks(i)
<1> DEFINE j == Head(turn)
<1>1. at \in {"service", "wake", "hup"} /\ turn # <<>> /\ turn' = Tail(turn)
      /\ kind' = kind /\ icmp' = icmp
  BY DEF service_checks, wakeup_checks, fast_cleanup_checks
<1>2. /\ j \in Slots /\ ent[j].queued /\ j \in Range(turn)
      /\ Range(turn') = Range(turn) \ {j}
  BY <1>1, TurnIs
<1>3. CASE service_checks
  <2>1. at = "service"
    BY <1>3 DEF service_checks
  <2>2. CASE ent[j].retval = "pending"
    <3>1. PICK x \in service_this(World(j), j) : Become(j, x, "service")
      BY <1>3, <2>2 DEF service_checks
    <3> HIDE DEF j
    <3>2. "service" \in Stages /\ at # "dead" /\ "service" # "dead"
      BY <2>1 DEF Stages
    <3>3. Clocks(j) /\ \A m \in Slots \ {j} : ent'[m] = ent[m]
      BY <1>1, <1>2, <2>2, <3>1, <3>2, ServiceClocks
    <3> QED
      BY <1>2, <2>1, <3>2, <3>3, OtherStays
  <2>3. CASE ent[j].retval # "pending"
    <3>1. Become(j, Retired(j), "service")
      BY <1>3, <2>3 DEF service_checks
    <3> HIDE DEF j
    <3>2. ent' = [ent EXCEPT ![j] = NoEntry] /\ ent = [m \in Slots |-> ent[m]]
      BY <3>1 DEF Become, Retired, Inv, Basics
    <3>3. ent'[j] = NoEntry /\ \A m \in Slots \ {j} : ent'[m] = ent[m]
      BY <1>2, <3>2
    <3>4. Clocks(j)
      BY <3>3, NoEntryIs DEF Clocks
    <3>5. at # "dead"
      BY <2>1
    <3> QED
      BY <1>2, <2>1, <3>3, <3>4, <3>5, OtherStays
  <2> QED
    BY <2>2, <2>3
<1>4. CASE wakeup_checks
  <2> DEFINE h == IF ent[j].retval = "pending" THEN "killed" ELSE "overruled"
             s == IF kind[j] = "ping" THEN World(j) ELSE stop_this(World(j), j)
             x == Harm(Answer(s, "TIMEDOUT"), h)
  <2>1. at = "wake" /\ Become(j, x, "wake")
    BY <1>4 DEF wakeup_checks
  <2>2. ent[j].started /\ ent[j].retval # "NODNS" /\ h \in {"killed", "overruled"} /\ at # "dead"
    BY <1>2, <2>1, StaleIs
  <2>3. Good(j, x) /\ x.e.retval = "TIMEDOUT"
    BY <1>2, <2>2, WakeGood
  <2> HIDE DEF x, j
  <2>4. "wake" \in Stages /\ "wake" # "dead"
    BY DEF Stages
  <2>5. /\ ent'[j] = x.e /\ \A m \in Slots \ {j} : ent'[m] = ent[m]
        /\ at' = IF x.up THEN "wake" ELSE "dead"
    BY <1>1, <1>2, <2>1, <2>2, <2>3, <2>4, BecomeKeeps
  <2>6. Clocks(j)
    BY <2>3, <2>5 DEF Clocks, Going
  <2>7. at' # "service"
    BY <2>5
  <2> QED
    BY <1>2, <2>2, <2>5, <2>6, <2>7, OtherStays
<1>5. CASE fast_cleanup_checks
  <2> DEFINE x == stop_this(World(j), j)
  <2>1. at = "hup" /\ Become(j, x, "hup")
    BY <1>5 DEF fast_cleanup_checks
  <2>2. ent[j].started /\ at # "dead"
    BY <1>2, <2>1 DEF Inv, PaceOK
  <2>3. Good(j, x) /\ x.e.data = "null"
    BY <1>2, <2>2, StopGood
  <2> HIDE DEF x, j
  <2>4. "hup" \in Stages /\ "hup" # "dead"
    BY DEF Stages
  <2>5. /\ ent'[j] = x.e /\ \A m \in Slots \ {j} : ent'[m] = ent[m]
        /\ at' = IF x.up THEN "hup" ELSE "dead"
    BY <1>1, <1>2, <2>1, <2>2, <2>3, <2>4, BecomeKeeps
  <2>6. Clocks(j)
    BY <2>3, <2>5 DEF Clocks, Going
  <2>7. at' # "service"
    BY <2>5
  <2> QED
    BY <1>2, <2>2, <2>5, <2>6, <2>7, OtherStays
<1> QED
  BY <1>3, <1>4, <1>5

\* An echo reply moves no clock.
LEMMA ReplyClocks ==
  ASSUME Inv, NEW i \in Slots, handle_icmp_responses
  PROVE  Clocks(i)
<1>1. PICK j \in Slots, seq \in 0..SendPings, ours \in BOOLEAN : reply(j, seq, ours)
  BY DEF handle_icmp_responses
<1> DEFINE k == kind[j]
           e == ent[j]
           y == CASE k = "ping"    -> reply_ping(e, seq, ours)
                  [] k = "pktloss" -> reply_pktloss(e, seq, ours)
                  [] k = "rtt"     -> rtt_match_and_record(e, seq, ours)
                  [] k = "pingv6"  -> handle_pingv6_response(e, seq, ours)
<1>2. /\ at = "wake" /\ at' = "wake" /\ k \in EchoKinds /\ e.data = "held"
      /\ ent' = [ent EXCEPT ![j] = y]
  BY <1>1 DEF reply
<1>3. EntryOK(j) /\ ent = [m \in Slots |-> ent[m]]
  BY DEF Inv, Basics
<1>4. e.queued
  BY <1>2, <1>3, QueuedIs, NoEntryIs
<1>5. e \in Entries /\ Earned(k, e, icmp) /\ Counted(k, e)
  BY <1>3, <1>4, QueuedIs
<1>6. \/ k = "ping" /\ y = reply_ping(e, seq, ours)
      \/ k = "pktloss" /\ y = reply_pktloss(e, seq, ours)
      \/ k = "rtt" /\ y = rtt_match_and_record(e, seq, ours)
      \/ k = "pingv6" /\ y = handle_pingv6_response(e, seq, ours)
  BY <1>2 DEF EchoKinds
<1> HIDE DEF y, k, e
<1>7. /\ y \in Entries /\ y.retval = e.retval /\ y.data = e.data /\ y.age = e.age
      /\ y.idle = e.idle /\ y.n = e.n /\ y.st = e.st
  BY SMTT(30), <1>2, <1>5, <1>6, ReplyCounts
<1>8. y.queued = TRUE /\ e.queued = TRUE
  BY <1>5, <1>7 DEF Entries
<1>9. ent'[j] = y /\ \A m \in Slots \ {j} : ent'[m] = ent[m]
  BY <1>2, <1>3
<1>10. at # "dead" /\ at' # "service"
  BY <1>2
<1>11. Stays(j)
  BY <1>7, <1>8, <1>9, <1>10 DEF Stays, e
<1> QED
  BY <1>9, <1>10, <1>11, OtherStays DEF Clocks

\* Every step does one of these to each entry.
LEMMA StepClocks ==
  ASSUME Inv, Next, NEW i \in Slots
  PROVE  Clocks(i) /\ kind' = kind
<1>1. CASE \E due \in SUBSET Slots : queue_checks(due)
  <2>1. PICK due \in SUBSET Slots : queue_checks(due)
    BY <1>1
  <2>2. /\ at = "top" /\ at' = "wake" /\ kind' = kind
        /\ ent'[i] = IF i \in due THEN NewEntry ELSE ent[i]
    BY <2>1 DEF queue_checks
  <2> QED
    BY <2>2, NewIs DEF Clocks, Stays, Going
<1>2. CASE service_checks \/ wakeup_checks \/ fast_cleanup_checks
  BY <1>2, WalkClocks DEF service_checks, wakeup_checks, fast_cleanup_checks
<1>3. CASE handle_icmp_responses
  BY <1>3, ReplyClocks DEF handle_icmp_responses, reply
<1>4. CASE Drained
  <2>1. /\ at = "wake" /\ at' = "service" /\ kind' = kind /\ ent' = ent /\ turn' = queue
    BY <1>4 DEF Drained
  <2>2. ent[i].queued => i \in Range(queue)
    BY DEF Inv, QueueOK
  <2> QED
    BY <2>1, <2>2 DEF Clocks, Stays
<1>5. CASE \E d \in 0..MaxSleep : Sleep(d)
  <2>1. PICK d \in 0..MaxSleep : Sleep(d)
    BY <1>5
  <2>2. /\ at = "service" /\ turn = <<>> /\ at' = "woke" /\ kind' = kind
        /\ ent'[i] = Older(ent[i], d)
    BY <2>1 DEF Sleep
  <2>3. CASE ent[i].queued
    BY <2>2, <2>3 DEF Clocks, Ages
  <2>4. CASE ~ent[i].queued
    BY <2>2, <2>4 DEF Clocks, Older
  <2> QED
    BY <2>2, <2>3, <2>4
<1>6. CASE \E j \in Slots : ServiceReady(j)
  <2>1. PICK j \in Slots : ServiceReady(j)
    BY <1>6
  <2>2. PICK x \in service_this(World(j), j) : Become(j, x, "woke")
    BY <2>1 DEF ServiceReady
  <2>3. /\ at = "woke" /\ ent[j].queued /\ ent[j].retval = "pending" /\ kind' = kind
        /\ icmp' = icmp
    BY <2>1 DEF ServiceReady
  <2>4. "woke" \in Stages /\ at # "dead" /\ "woke" # "dead"
    BY <2>3 DEF Stages
  <2>5. Clocks(j) /\ at' \in {"woke", "dead"} /\ \A m \in Slots \ {j} : ent'[m] = ent[m]
    BY <2>2, <2>3, <2>4, ServiceClocks
  <2>6. at' # "service"
    BY <2>5
  <2> QED
    BY <2>3, <2>4, <2>5, <2>6, OtherStays
<1>7. CASE Loop \/ Hup \/ Crash
  <2>1. at # "dead" /\ at' \in {"top", "hup", "dead"} /\ kind' = kind /\ ent' = ent
    BY <1>7 DEF Loop, Hup, Crash
  <2> QED
    BY <2>1 DEF Clocks, Stays
<1>8. CASE FreeQueue \/ Restart
  <2>1. ent'[i] = NoEntry /\ kind' = kind
    BY <1>8 DEF FreeQueue, Restart
  <2> QED
    BY <2>1, NoEntryIs DEF Clocks
<1> QED
  BY <1>1, <1>2, <1>3, <1>4, <1>5, <1>6, <1>7, <1>8 DEF Next

\* Every step keeps the running checks on time.
LEMMA TimeKept ==
  ASSUME Prompt, Inv, Inv', NEW i \in Slots, TimeOK(i), Clocks(i), kind' = kind
  PROVE  TimeOK(i)'
<1> DEFINE k == kind[i]
           e == ent[i]
           f == ent'[i]
<1> SUFFICES ASSUME f.queued, Going(k, f)
             PROVE  IF at' = "dead" THEN f.age < Killafter
                    ELSE OnTime(k, f, Slack(i)')
  BY DEF TimeOK
<1>1. k \in Kinds /\ f \in Entries
  <2>1. Fit(k, f, icmp')
    BY DEF Inv, EntryOK
  <2>2. f # NoEntry
    BY NoEntryIs
  <2> QED
    BY <2>1, <2>2 DEF Fit
<1>2. MaxSleep \in Nat /\ Slack(i) \in {0, MaxSleep} /\ Slack(i)' \in {0, MaxSleep}
  BY FleetAssumption DEF Slack
<1>3. e.queued => e \in Entries
  BY QueuedIs DEF Inv
<1>4. f.retval = "pending" /\ f.data = "held" /\ SelfTimed(k, f)
  BY DEF Going
<1> HIDE DEF k, e, f
<1>5. CASE Stays(i)
  <2>1. /\ at # "dead" /\ e.queued /\ e.retval = "pending" /\ e.data = "held"
        /\ e.st = f.st /\ e.n = f.n /\ e.age = f.age /\ e.idle = f.idle
    BY <1>4, <1>5 DEF Stays, e, f
  <2>2. SelfTimed(k, e)
    BY <1>4, <2>1 DEF SelfTimed
  <2>3. OnTime(k, e, Slack(i)) /\ e \in Entries
    BY <1>3, <2>1, <2>2 DEF TimeOK, Going, k, e
  <2>4. OnTime(k, e, MaxSleep)
    BY <1>1, <1>2, <2>3, LateOnTime
  <2>5. OnTime(k, f, Slack(i)) /\ OnTime(k, f, MaxSleep)
    BY <2>1, <2>3, <2>4 DEF OnTime
  <2>6. CASE at' = "dead"
    BY <1>1, <1>4, <2>5, <2>6, OnTimeEnds
  <2>7. CASE at' # "dead"
    <3>1. Slack(i)' = Slack(i) \/ Slack(i)' = MaxSleep
      BY <1>5 DEF Stays, Slack
    <3> QED
      BY <2>5, <2>7, <3>1
  <2> QED
    BY <2>6, <2>7
<1>6. CASE Serviced(i)
  <2>1. at # "dead" /\ e.queued /\ e.retval = "pending" /\ e \in Entries
    BY <1>3, <1>6 DEF Serviced, e
  <2>2. CASE Moves(k, e, f)
    <3>1. e.data = "held" /\ SelfTimed(k, e) /\ f.age = e.age
      BY <2>2 DEF Moves
    <3>2. OnTime(k, e, Slack(i))
      BY <2>1, <3>1 DEF TimeOK, Going, k, e
    <3>3. OnTime(k, e, MaxSleep)
      BY <1>1, <1>2, <2>1, <3>2, LateOnTime
    <3>4. OnTime(k, f, 0)
      BY <1>1, <2>1, <2>2, <3>3, ServedOnTime
    <3>5. OnTime(k, f, MaxSleep)
      BY <1>1, <3>4, LateOnTime
    <3>6. f.age < Killafter
      BY <1>1, <1>4, <3>5, OnTimeEnds
    <3> QED
      BY <1>2, <3>4, <3>5, <3>6
  <2>3. CASE f.age = 0 /\ (k \in PacedKinds /\ at' # "dead" => f.n = 1)
    <3>1. CASE at' = "dead"
      BY SMTT(30), <2>3, <3>1, TimesAssumption
    <3>2. CASE at' # "dead"
      <4>1. OnTime(k, f, 0)
        BY <1>1, <2>3, <3>2, StartOnTime
      <4>2. OnTime(k, f, MaxSleep)
        BY <1>1, <4>1, LateOnTime
      <4> QED
        BY <1>2, <3>2, <4>1, <4>2
    <3> QED
      BY <3>1, <3>2
  <2> QED
    BY <1>6, <2>2, <2>3 DEF Serviced, k, e, f
<1>7. CASE Ages(i)
  <2>1. PICK d \in 0..MaxSleep : f = Older(e, d)
    BY <1>7 DEF Ages, e, f
  <2>2. at = "service" /\ turn = <<>> /\ at' = "woke" /\ e.queued /\ e \in Entries
    BY <1>3, <1>7 DEF Ages, e
  <2>3. f.retval = e.retval /\ f.data = e.data /\ f.st = e.st
    BY <2>1, <2>2, OlderIs
  <2>4. SelfTimed(k, e) /\ e.retval = "pending" /\ e.data = "held"
    BY <1>4, <2>3 DEF SelfTimed
  <2>5. Range(turn) = {}
    BY SMTT(30), <2>2 DEF Range
  <2>6. Slack(i) = 0 /\ Slack(i)' = MaxSleep
    BY <2>2, <2>5 DEF Slack
  <2>7. OnTime(k, e, 0)
    BY <2>2, <2>4, <2>6 DEF TimeOK, Going, k, e
  <2>8. OnTime(k, f, MaxSleep)
    BY <1>1, <2>1, <2>2, <2>4, <2>7, OlderOnTime
  <2> QED
    BY <2>2, <2>6, <2>8
<1> QED
  BY <1>5, <1>6, <1>7 DEF Clocks, k, f

(***************************************************************************)
(* The theorems.                                                           *)
(***************************************************************************)

\* The entries, the descriptor table and the queue are what they should be: the
\* queue of syswatch.c holds each queued entry once and no other, and a walk of
\* it only meets entries that are still there.
THEOREM TypeCorrect == Spec => []TypeOK
<1>1. Inv => TypeOK
  <2> SUFFICES ASSUME Inv PROVE TypeOK
    OBVIOUS
  <2>1. /\ kind \in Fleets /\ helper \in BOOLEAN /\ icmp \in BOOLEAN
        /\ at \in {"top", "wake", "service", "woke", "hup", "dead"}
        /\ \A f \in Fds : fdt[f] \in Slots \cup {0, Leaked}
    BY DEF Inv, Basics, Stages, Tables
  <2>2. /\ Range(turn) \subseteq Range(queue) /\ IsInjective(queue)
        /\ Range(queue) = {i \in Slots : ent[i].queued}
    BY DEF Inv, QueueOK
  <2>3. ASSUME NEW i \in Slots
        PROVE  /\ ent[i].retval \in Retvals
               /\ ent[i].data \in {"null", "held", "freed"}
               /\ ent[i].fd \in Fds \cup {0}
               /\ ent[i].age \in 0..(Killafter + Throttle)
               /\ ent[i].idle \in 0..Globtimeout
    <3>1. CASE ent[i] = NoEntry
      <4>1. 0 \in 0..(Killafter + Throttle) /\ 0 \in 0..Globtimeout
        BY SMTT(30), TimesAssumption
      <4> QED
        BY <3>1, <4>1, NoEntryIs DEF Retvals
    <3>2. CASE ent[i] # NoEntry
      <4>1. ent[i] \in Entries
        BY <3>2 DEF Inv, EntryOK, Fit
      <4> QED
        BY <4>1 DEF Entries
    <3> QED
      BY <3>1, <3>2
  <2> QED
    BY <2>1, <2>2, <2>3 DEF TypeOK
<1> QED
  BY <1>1, Invariance, PTL

\* No timeout, error path, late reply or reply of another host leads a handler
\* of any kind to SYSM_OK: the answers its protocol wants were given.
THEOREM OkIsEarned == Spec => []OkEarned
<1>1. Inv => OkEarned
  <2> SUFFICES ASSUME Inv, NEW i \in Slots, ent[i].queued, ent[i].retval = "OK"
               PROVE  ent[i].good >= Needed[kind[i]] \/ (kind[i] \in EchoKinds /\ ~icmp)
    BY DEF OkEarned
  <2>1. Earned(kind[i], ent[i], icmp)
    BY QueuedIs DEF Inv
  <2> QED
    BY <2>1 DEF Earned
<1> QED
  BY <1>1, Invariance, PTL

\* An echo check counts each reply once and only its own host's
\* (handle_icmp_responses, rtt_match_and_record), whatever is sent, late or
\* doubled, and however often it has sent.
THEOREM RepliesAreCountedOnce == Spec => []RepliesCountOnce
<1>1. Inv => RepliesCountOnce
  <2> SUFFICES ASSUME Inv, NEW i \in Slots, ent[i].queued, ent[i].data = "held",
                      kind[i] \in EchoKinds
               PROVE  /\ ent[i].m = ent[i].good
                      /\ kind[i] = "pktloss" => ent[i].m <= ent[i].n
                      /\ kind[i] = "rtt" => /\ ent[i].m = Cardinality(ent[i].seen)
                                            /\ ent[i].seen \subseteq 1..ent[i].n
    BY DEF RepliesCountOnce
  <2>1. Counted(kind[i], ent[i])
    BY QueuedIs DEF Inv
  <2> QED
    BY <2>1 DEF Counted
<1> QED
  BY <1>1, Invariance, PTL

\* The checks with a timeout of their own (tcp, udp, radius, pktloss, rtt, pingv6,
\* smtp and ssh while connecting, snmp while it waits) answer before killafter
\* when the settings are prompt: however the passes of do_watch() fall, whatever
\* is lost, and in whatever order the entries are serviced.
THEOREM TimedChecksEnd == Prompt => (Spec => []SelfTimedEnd)
<1> SUFFICES ASSUME Prompt PROVE Spec => []SelfTimedEnd
  OBVIOUS
<1>1. Init => TimeInv
  <2> SUFFICES ASSUME Init, NEW i \in Slots PROVE TimeOK(i)
    BY DEF TimeInv
  <2>1. ent[i] = NoEntry
    BY DEF Init
  <2> QED
    BY <2>1, NoEntryIs DEF TimeOK
<1>2. Inv /\ Inv' /\ TimeInv /\ [Next]_vars => TimeInv'
  <2> SUFFICES ASSUME Inv, Inv', TimeInv, [Next]_vars, NEW i \in Slots PROVE TimeOK(i)'
    BY DEF TimeInv
  <2>1. TimeOK(i)
    BY DEF TimeInv
  <2>2. CASE Next
    <3>1. Clocks(i) /\ kind' = kind
      BY <2>2, StepClocks
    <3> QED
      BY <2>1, <3>1, TimeKept
  <2>3. CASE UNCHANGED vars
    BY <2>1, <2>3 DEF vars, TimeOK, Slack
  <2> QED
    BY <2>2, <2>3
<1>3. Inv /\ TimeInv => SelfTimedEnd
  <2> SUFFICES ASSUME Inv, TimeInv, NEW i \in Slots, ent[i].queued,
                      Going(kind[i], ent[i])
               PROVE  ent[i].age < Killafter
    BY DEF SelfTimedEnd, Going
  <2>1. TimeOK(i) /\ kind[i] \in Kinds /\ ent[i] \in Entries
    BY QueuedIs DEF Inv, TimeInv
  <2>2. CASE at = "dead"
    BY <2>1, <2>2 DEF TimeOK
  <2>3. CASE at # "dead"
    <3>1. OnTime(kind[i], ent[i], 0) \/ OnTime(kind[i], ent[i], MaxSleep)
      BY <2>1, <2>3 DEF TimeOK, Slack
    <3>2. OnTime(kind[i], ent[i], MaxSleep)
      BY <2>1, <3>1, LateOnTime
    <3> QED
      BY <2>1, <3>2, OnTimeEnds DEF Going
  <2> QED
    BY <2>2, <2>3
<1> QED
  BY <1>1, <1>2, <1>3, Invariance, PTL DEF Spec

\* No path of the handlers, of killafter or of a reload loses a descriptor but
\* the one of start_*() that finds the name does not resolve.
THEOREM NoDescriptorIsLost == Spec => []DescriptorsAccounted
<1>1. Inv => DescriptorsAccounted
  <2> SUFFICES ASSUME Inv, NEW f \in Fds, fdt[f] \in Slots, ~tainted
               PROVE  LET e == ent[fdt[f]]
                      IN  e.queued /\ e.fd = f /\ (e.data = "held" \/ e.retval = "NODNS")
    BY DEF DescriptorsAccounted
  <2>1. Found(kind[fdt[f]], fdt[f], ent[fdt[f]], fdt) /\ EntryOK(fdt[f])
    BY DEF Inv, OwnOK
  <2>2. /\ ent[fdt[f]].fd = f
        /\ ent[fdt[f]].data = "held" \/ ent[fdt[f]].retval = "NODNS"
    BY <2>1 DEF Found
  <2>3. ent[fdt[f]].queued
    BY <2>1, <2>2, QueuedIs, NoEntryIs
  <2> QED
    BY <2>2, <2>3
<1> QED
  BY <1>1, Invariance, PTL

\* Until memory or descriptors have been confused, only the kinds of check in
\* KnownHarm do harm, and each only its own: every other handler closes and
\* frees exactly once on every path, reload and killafter included.
THEOREM OnlyKnownHarm == Spec => HarmIsConfined
<1>1. ASSUME Inv, [Next]_vars PROVE [~tainted => harm' \subseteq KnownHarm]_vars
  <2>1. CASE Next
    BY <1>1, <2>1, StepSound DEF Sound
  <2>2. CASE UNCHANGED vars
    BY <2>2
  <2> QED
    BY <1>1, <2>1, <2>2
<1> QED
  BY <1>1, Invariance, PTL DEF Spec, HarmIsConfined

\* The queue implements CheckLife, but for the promise that every check ends: an
\* object has one check, its answer stands until handle_retval() has it or
\* killafter overrules it, and only a reload or a restart drops a check that has
\* not answered.
THEOREM QueueKeepsAnswers == Spec => Life!Safety
<1>1. Init => Life!Init
  <2> SUFFICES ASSUME Init PROVE Life!Init
    OBVIOUS
  <2>1. \A i \in Slots : ent[i] = NoEntry
    BY DEF Init
  <2>2. \A i \in Slots : ent[i].queued = FALSE /\ ent[i].retval = "pending"
    BY <2>1, NoEntryIs
  <2> QED
    BY <2>2 DEF Life!Init
<1>2. ASSUME Inv, [Next]_vars PROVE [Life!Next]_(Life!vars)
  <2>1. CASE UNCHANGED vars
    BY <2>1 DEF vars, Life!vars
  <2>2. CASE Next
    <3>1. (\A i \in Slots : LifeMove(i)) \/ (\A i \in Slots : ent'[i] = NoEntry)
      BY <1>2, <2>2, StepSound DEF Sound
    <3>2. CASE \A i \in Slots : ent'[i] = NoEntry
      <4>1. Life!Wipe
        BY <3>2, NoEntryIs DEF Life!Wipe
      <4> QED
        BY <4>1 DEF Life!Next
    <3>3. CASE \A i \in Slots : LifeMove(i)
      <4>1. ASSUME NEW i \in Slots PROVE Life!Move(i)
        <5>1. LifeMove(i)
          BY <3>3
        <5>2. CASE ~ent[i].queued /\ ent'[i].queued /\ ent'[i].retval = "pending"
          BY <5>2 DEF Life!Move, Life!Queue
        <5>3. CASE /\ ent[i].queued /\ ent[i].retval = "pending"
                   /\ ent'[i].queued /\ ent'[i].retval \in Retvals \ {"pending"}
          BY <5>3 DEF Life!Move, Life!Conclude
        <5>4. CASE ent[i].queued /\ ent'[i].queued /\ ent'[i].retval = "TIMEDOUT"
          BY <5>4 DEF Life!Move, Life!Overrule
        <5>5. CASE /\ ent[i].queued /\ ent[i].retval # "pending"
                   /\ ~ent'[i].queued /\ ent'[i].retval = "pending"
          BY <5>5 DEF Life!Move, Life!Hand
        <5>6. CASE ent'[i].queued = ent[i].queued /\ ent'[i].retval = ent[i].retval
          BY <5>6 DEF Life!Move, Life!Stay
        <5> QED
          BY <5>1, <5>2, <5>3, <5>4, <5>5, <5>6 DEF LifeMove
      <4> QED
        BY <4>1 DEF Life!Next
    <3> QED
      BY <3>1, <3>2, <3>3
  <2> QED
    BY <1>2, <2>1, <2>2
<1> QED
  BY <1>1, <1>2, Invariance, PTL DEF Spec, Life!Safety
=============================================================================
