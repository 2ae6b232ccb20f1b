--------------------------- MODULE HandlerProofs ----------------------------
(***************************************************************************)
(* What the handlers of the checks do, for every set of descriptors and    *)
(* every setting of the timers.  A handler is a function from worlds to    *)
(* sets of worlds.  The argument is one invariant of worlds, Legal, and    *)
(* one step per C-level operation and per handler that says it leads from  *)
(* legal worlds to legal ones.  ChecksProofs goes on from here to the      *)
(* queue.                                                                  *)
(***************************************************************************)
EXTENDS Checks, TLAPS

\* Zenon proves the steps that name no other prover.
USE ZenonT(30)

(***************************************************************************)
(* What an entry and a world are.                                          *)
(***************************************************************************)

States == {"CONNECT", "WAITBAN", "SENT_REQUEST", "CONNECTED", "ANSWERED", "SENT_QUIT",
           "SENT_USER", "SENT_AUTH", "SENT_PASS", "GOT_BYE"}

\* How many of the answers it wants a handler has had when it is in state st.
Level(st) ==
  IF st = "CONNECT" THEN 0
  ELSE IF st \in {"WAITBAN", "SENT_REQUEST", "CONNECTED", "ANSWERED"} THEN 1
  ELSE IF st \in {"SENT_QUIT", "SENT_USER", "SENT_AUTH"} THEN 2
  ELSE 3

\* The entries of the queue.
Entries ==
  [queued : {TRUE}, started : BOOLEAN, retval : Retvals, fd : Fds \cup {0},
   data : {"null", "held", "freed"}, st : States, age : 0..(Killafter + Throttle),
   idle : 0..Globtimeout, n : Nat, m : Nat, seen : SUBSET Nat, good : Nat]

Tables == [Fds -> Slots \cup {0, Leaked}]

\* What a handler may do that C does not forgive.
Harms == {"badclose", "stolen", "uaf", "doublefree"}

Worlds ==
  [e : Entries, fdt : Tables, helper : BOOLEAN, icmp : BOOLEAN, harm : SUBSET Harms,
   up : BOOLEAN]

\* Two worlds that differ in the entry at most.
Rest(x, w) ==
  /\ x.fdt = w.fdt /\ x.helper = w.helper /\ x.icmp = w.icmp
  /\ x.harm = w.harm /\ x.up = w.up

\* FREE() of a live allocation.
Emptied(e) ==
  [e EXCEPT !.data = "freed", !.st = "CONNECT", !.idle = 0, !.n = 0, !.m = 0, !.seen = {}]

\* What close() of the descriptor in w says of who closed it.
CloseHarm(w, i) ==
  IF w.e.fd = 0 THEN {}
  ELSE IF w.fdt[w.e.fd] = i THEN {}
  ELSE IF w.fdt[w.e.fd] = 0 THEN {"badclose"} ELSE {"stolen"}

\* An OK was earned, and the handler's state with it.
Earned(k, e, icmpfd) ==
  /\ e.good >= Level(e.st)
  /\ e.retval = "OK" => e.good >= Needed[k] \/ (k \in EchoKinds /\ ~icmpfd)

\* The counters of an echo check agree.
Counted(k, e) ==
  k \in EchoKinds =>
    /\ e.fd = 0
    /\ e.data = "held" =>
         /\ e.m = e.good /\ e.n <= SendPings + 1
         /\ k = "pktloss" => e.m <= e.n
         /\ k = "rtt" => e.m = Cardinality(e.seen) /\ e.seen \subseteq 1..e.n

\* Who may leave the pointer standing: three kinds when they start, and they
\* have answered by then; and radius and dns, which go on.
Dangles == {"udp", "x500", "sysm"}

\* What the answer of an entry says of its memory.
Holding(k, e) ==
  /\ e.data = "freed" => k \in Dangles \cup {"radius", "dns"}
  /\ e.data = "freed" /\ k \in Dangles => e.retval # "pending"
  /\ e.data = "held" /\ k \notin EchoKinds => e.retval = "pending"
  /\ e.data = "null" /\ k = "snmp" => e.fd = 0

\* Who opens a descriptor before the name is looked up.
Early == StreamKinds \cup {"udp"}

\* A descriptor that i opened is the one in its entry.
Found(k, i, e, t) ==
  \A f \in Fds : t[f] = i =>
    /\ e.fd = f
    /\ e.data = "held" \/ (e.retval = "NODNS" /\ k \in Early)

\* The descriptor an entry will close is its own.
Safe(k, i, e, t) ==
  /\ e.data = "held" /\ k \notin EchoKinds => e.fd \in Fds /\ t[e.fd] = i
  /\ e.data = "freed" /\ k \in Dangles /\ e.fd # 0 => t[e.fd] = i

\* Only descriptors of i were opened or closed.
Frame(i, t0, t) ==
  \A f \in Fds : t[f] = t0[f] \/ (t[f] \in {0, i} /\ t0[f] \in {0, i})

Confused(tnt, w) == tnt \/ w.harm \cap Confusing # {}

\* What holds of every world w that a step of kind k for object i leads to
\* from world v; tnt is tainted.
Legal(k, i, tnt, v, w) ==
  /\ w \in Worlds
  /\ w.e.started = v.e.started /\ w.e.age = v.e.age /\ w.icmp = v.icmp
  /\ w.e.retval = "NODNS" => v.e.retval = "NODNS" \/ ~v.e.started
  /\ Earned(k, w.e, w.icmp)
  /\ Counted(k, w.e)
  /\ Holding(k, w.e)
  /\ ~Confused(tnt, w) =>
       /\ Found(k, i, w.e, w.fdt)
       /\ w.up => Safe(k, i, w.e, w.fdt)
       /\ Frame(i, v.fdt, w.fdt)
  /\ ~tnt => \A h \in w.harm : <<k, h>> \in KnownHarm

\* A world in which the check of i is still going on.
Live(k, i, tnt, v, w) ==
  /\ Legal(k, i, tnt, v, w)
  /\ w.e.retval = "pending" /\ w.e.data = "held" /\ w.harm = {} /\ w.up

\* The table after close() of w's descriptor.
Shut(w, t) == \A f \in Fds : t[f] = IF f = w.e.fd THEN 0 ELSE w.fdt[f]

\* No descriptor is i's.
Without(i, t) == \A f \in Fds : t[f] # i

\* What close() and FREE() after answer rv make of w; d is what becomes of the
\* pointer.
Ended(w, i, rv, d, x) ==
  /\ x \in Worlds
  /\ x.e.started = w.e.started /\ x.e.age = w.e.age /\ x.e.retval = rv
  /\ x.e.fd \in {w.e.fd, 0} /\ x.e.data = d /\ x.e.good = w.e.good
  /\ x.e.st \in {"CONNECT", w.e.st} /\ (w.e.data = "held" => x.e.st = "CONNECT")
  /\ Shut(w, x.fdt)
  /\ x.harm = w.harm \cup CloseHarm(w, i)
                \cup (IF w.e.data = "freed" THEN {"doublefree"} ELSE {})
  /\ x.icmp = w.icmp /\ x.up = w.up

\* The verdicts that end a check without success.
Failing == Retvals \ {"OK", "NODNS"}

\* A check about to start.
Fresh(k, i, tnt, v) ==
  /\ Legal(k, i, tnt, v, v) /\ v.e = NewEntry /\ v.harm = {} /\ v.up

\* FREE() after an answer, the descriptor left as it is.
Released(w, rv, d, x) ==
  /\ x \in Worlds /\ Rest(x, w)
  /\ x.e.started = w.e.started /\ x.e.age = w.e.age /\ x.e.retval = rv
  /\ x.e.fd = w.e.fd /\ x.e.data = d /\ x.e.good = w.e.good /\ x.e.st = "CONNECT"

\* The kinds whose stop may find a descriptor that is not theirs.
Blind == {"radius", "dns", "sysm"}

\* The pointer was left standing: the world is confused from here on, and
\* only the ghosts and the types matter.
Wild(k, v, w) ==
  /\ w \in Worlds /\ "uaf" \in w.harm /\ w.e.data = "freed"
  /\ w.e.started = v.e.started /\ w.e.age = v.e.age /\ w.icmp = v.icmp
  /\ w.e.retval = "pending" /\ w.e.good >= Level(w.e.st)

\* An echo check at work, or stopped by a send that failed.
Echoes(k, v, w) ==
  /\ w \in Worlds /\ w.fdt = v.fdt /\ w.icmp = v.icmp /\ w.harm = {}
  /\ w.e.started = v.e.started /\ w.e.age = v.e.age /\ w.e.fd = 0 /\ w.e.data = "held"
  /\ w.e.retval \in Failing /\ w.e.good >= Level(w.e.st) /\ Counted(k, w.e)

(***************************************************************************)
(* The contract of the seventeen handlers.                                 *)
(***************************************************************************)

\* A set of numbers has a least one: socket() can take the lowest that is free.
LeastNumbers == \A M \in SUBSET Nat : M # {} => \E r \in M : \A q \in M : r <= q

StopsLegal ==
  \A i \in Slots, tnt \in BOOLEAN : \A v :
    kind[i] \in Kinds /\ Legal(kind[i], i, tnt, v, v) /\ v.harm = {} /\ v.up =>
      LET x == stop_this(v, i)
      IN  /\ Legal(kind[i], i, tnt, v, x) /\ x.e.data = "null" /\ x.up
          /\ x.e.retval = v.e.retval
          /\ v.e.retval # "NODNS" /\ ~Confused(tnt, x) => Without(i, x.fdt)

ServicesLegal ==
  \A i \in Slots, tnt \in BOOLEAN : \A v :
    /\ kind[i] \in Kinds /\ Legal(kind[i], i, tnt, v, v)
    /\ v.e.retval = "pending" /\ v.harm = {} /\ v.up
    => \A x \in service_started(v, i) : Legal(kind[i], i, tnt, v, x)

\* x is a legal world in which the check has been marked as started.
Begun(k, i, tnt, v, x) ==
  \E y : Legal(k, i, tnt, v, y) /\ x = [y EXCEPT !.e.started = TRUE]

StartsLegal ==
  \A i \in Slots, tnt \in BOOLEAN : \A v :
    kind[i] \in Kinds /\ Fresh(kind[i], i, tnt, v) =>
      \A x \in start_this(v, i) : Begun(kind[i], i, tnt, v, x)

(***************************************************************************)
(* How long a check with a timeout of its own takes.                       *)
(***************************************************************************)

\* The kinds that end by counting their requests; the others look at the age.
PacedKinds == {"radius", "pktloss", "rtt", "pingv6"}

\* How many requests such a check sends.
Requests(k) == IF k = "radius" THEN MaxSent + 1 ELSE SendPings

\* How long it lies still between two requests.
Gap(k) ==
  CASE k \in {"udp", "radius"} -> Delay - 1
    [] k = "pktloss" -> Delay
    [] k = "rtt" -> Interval - 1
    [] k = "pingv6" -> 2 * Delay - 1
    [] OTHER -> 0

\* ... and after its n-th one, which may be the last.
Patience(k, n) ==
  CASE k = "pktloss" /\ n >= SendPings -> 2 * Delay - 1
    [] k = "rtt" /\ n >= SendPings -> Grace - 1
    [] OTHER -> Gap(k)

\* The age at which the n-th request has gone out at the latest: between two of
\* them the check lies still, and the daemon may then be asleep.
Latest(k, n) ==
  IF k \in PacedKinds THEN (n - 1) * (Gap(k) + MaxSleep) ELSE Globtimeout - 1

\* The check is as far as its age wants it to be; slack is how long ago it may
\* have been serviced.
OnTime(k, e, slack) ==
  /\ k \in PacedKinds => e.n \in 1..Requests(k)
  /\ e.age <= Latest(k, e.n) + Patience(k, e.n) + slack
  /\ e.idle <= Patience(k, e.n) => e.age <= Latest(k, e.n) + e.idle

\* A check with a timeout of its own, running.
Going(k, e) == e.retval = "pending" /\ e.data = "held" /\ SelfTimed(k, e)

\* What a service that does not end such a check does: it waits because it was
\* active a moment ago, sends the next request, or is too young to time out.
Waits(k, e, f) == f.n = e.n /\ f.idle = e.idle /\ e.idle <= Patience(k, e.n)

Asks(k, e, f) ==
  /\ k \in PacedKinds /\ e.idle > Patience(k, e.n)
  /\ f.n = e.n + 1 /\ e.n < Requests(k)

Young(k, e) == k \notin PacedKinds /\ e.age < Globtimeout

Moves(k, e, f) ==
  /\ e.data = "held" /\ SelfTimed(k, e) /\ f.age = e.age
  /\ Waits(k, e, f) \/ Asks(k, e, f) \/ Young(k, e)

ServicesTimed ==
  \A i \in Slots, v \in Worlds : \A x \in service_started(v, i) :
    /\ kind[i] \in Kinds /\ (v.e.data = "freed" => kind[i] \notin EchoKinds)
    /\ Going(kind[i], x.e)
    => Moves(kind[i], v.e, x.e)

StartsTimed ==
  \A i \in Slots, tnt \in BOOLEAN : \A v :
    kind[i] \in PacedKinds /\ Fresh(kind[i], i, tnt, v) =>
      \A x \in start_this(v, i) :
        x.up /\ x.e.data = "held" /\ x.e.retval = "pending" => x.e.n = 1

\* What an answer leaves as it was.
LEMMA AnswerIs ==
  ASSUME NEW w \in Worlds, NEW rv \in Retvals
  PROVE  /\ Answer(w, rv) \in Worlds
         /\ Rest(Answer(w, rv), w)
         /\ Answer(w, rv).e = [w.e EXCEPT !.retval = rv]
  BY DEF Answer, Worlds, Entries, Rest

\* An entry just queued.
LEMMA NewIs ==
  /\ NewEntry.queued = TRUE /\ NewEntry.started = FALSE /\ NewEntry.retval = "pending"
  /\ NewEntry.fd = 0 /\ NewEntry.data = "null" /\ NewEntry.st = "CONNECT"
  /\ NewEntry.age = 0 /\ NewEntry.idle = 0 /\ NewEntry.n = 0 /\ NewEntry.m = 0
  /\ NewEntry.seen = {} /\ NewEntry.good = 0
  BY DEF NewEntry, NoEntry

\* The empty set has no members to count.
LEMMA NoneCounted == Cardinality({}) = 0
<1> DEFINE P(CS) ==
             CS = [T \in SUBSET {} |->
                     IF T = {} THEN 0 ELSE 1 + CS[T \ {CHOOSE x : x \in T}]]
<1>1. P([T \in SUBSET {} |-> 0])
  <2>1. \A T \in SUBSET {} : T = {}
    OBVIOUS
  <2> QED
    BY <2>1
<1>2. P(CHOOSE CS : P(CS))
  BY <1>1
<1>3. {} \in SUBSET {}
  OBVIOUS
<1> QED
  BY <1>2, <1>3 DEF Cardinality

\* The contract holds.  The named steps of the first level say what each C-level
\* operation, each common part and each handler does to a world; they are steps
\* and not lemmas so that the provers need not carry them further.
LEMMA HandlersLegal ==
  LeastNumbers => StopsLegal /\ ServicesLegal /\ StartsLegal /\ ServicesTimed /\ StartsTimed
<1> SUFFICES ASSUME LeastNumbers
             PROVE  StopsLegal /\ ServicesLegal /\ StartsLegal /\ ServicesTimed /\ StartsTimed
  OBVIOUS

(***************************************************************************)
(* The C-level operations.                                                 *)
(***************************************************************************)

<1>MallocIs.
  ASSUME NEW w \in Worlds
  PROVE  /\ Malloc(w) \in Worlds
         /\ Rest(Malloc(w), w)
         /\ Malloc(w).e = [w.e EXCEPT !.data = "held"]
  BY <1>MallocIs DEF Malloc, Worlds, Entries, Rest

<1>NullIs.
  ASSUME NEW w \in Worlds
  PROVE  /\ Null(w) \in Worlds
         /\ Rest(Null(w), w)
         /\ Null(w).e = [w.e EXCEPT !.data = "null"]
  BY <1>NullIs DEF Null, Worlds, Entries, Rest

<1>ActiveIs.
  ASSUME NEW w \in Worlds
  PROVE  /\ Active(w) \in Worlds
         /\ Rest(Active(w), w)
         /\ Active(w).e = [w.e EXCEPT !.idle = 0]
  <2> USE <1>ActiveIs
  <2>1. 0 \in 0..Globtimeout
    BY SMTT(30), TimesAssumption
  <2> QED
    BY <2>1 DEF Active, Worlds, Entries, Rest

<1>HearIs.
  ASSUME NEW w \in Worlds, NEW st \in States
  PROVE  /\ Hear(w, st) \in Worlds
         /\ Rest(Hear(w, st), w)
         /\ Hear(w, st).e = [w.e EXCEPT !.st = st, !.good = w.e.good + 1]
  <2> USE <1>HearIs
  <2>0. w.e \in Entries /\ w.e.good \in Nat
    BY DEF Worlds, Entries
  <2>1. w.e \in Entries /\ w.e.good + 1 \in Nat
    BY SMTT(30), <2>0
  <2>2. [w.e EXCEPT !.st = st, !.good = w.e.good + 1] \in Entries
    BY <2>1 DEF Entries
  <2> QED
    BY <2>2 DEF Hear, Worlds, Rest

<1>ForgetIs.
  ASSUME NEW w \in Worlds
  PROVE  /\ Forget(w) \in Worlds
         /\ Rest(Forget(w), w)
         /\ Forget(w).e = [w.e EXCEPT !.fd = 0]
  BY <1>ForgetIs DEF Forget, Worlds, Entries, Rest

<1>FreeIs.
  ASSUME NEW w \in Worlds
  PROVE  /\ Free(w) \in Worlds
         /\ w.e.data = "held" => Rest(Free(w), w) /\ Free(w).e = Emptied(w.e)
         /\ w.e.data # "held" => /\ Free(w).e = w.e /\ Free(w).fdt = w.fdt
                                 /\ Free(w).icmp = w.icmp
         /\ w.e.data = "freed" => /\ Free(w).harm = w.harm \cup {"doublefree"}
                                  /\ Free(w).up = w.up
         /\ w.e.data = "null" => Free(w).harm = w.harm /\ ~Free(w).up
  <2> USE <1>FreeIs
  <2>1. 0 \in 0..Globtimeout
    BY SMTT(30), TimesAssumption
  <2>2. w.e.data \in {"null", "held", "freed"}
    BY DEF Worlds, Entries
  <2>3. CASE w.e.data = "held"
    <3>1. Free(w) = [w EXCEPT !.e.data = "freed", !.e.st = "CONNECT", !.e.idle = 0,
                              !.e.n = 0, !.e.m = 0, !.e.seen = {}]
      BY <2>3 DEF Free
    <3>2. Emptied(w.e) \in Entries
      BY <2>1 DEF Worlds, Entries, Emptied, States
    <3>3. Free(w) = [w EXCEPT !.e = Emptied(w.e)]
      BY <3>1 DEF Emptied, Worlds, Entries
    <3>4. Free(w) \in Worlds /\ Rest(Free(w), w) /\ Free(w).e = Emptied(w.e)
      BY <3>2, <3>3 DEF Worlds, Rest
    <3> QED
      BY <2>3, <3>4
  <2>4. CASE w.e.data = "freed"
    <3>1. Free(w) = [w EXCEPT !.harm = w.harm \cup {"doublefree"}]
      BY <2>4 DEF Free, Harm
    <3> QED
      BY <2>4, <3>1 DEF Worlds, Harms
  <2>5. CASE w.e.data = "null"
    <3>1. Free(w) = [w EXCEPT !.up = FALSE]
      BY <2>5 DEF Free
    <3> QED
      BY <2>5, <3>1 DEF Worlds
  <2> QED
    BY <2>2, <2>3, <2>4, <2>5

<1>CloseIs.
  ASSUME NEW w \in Worlds, NEW i \in Slots
  PROVE  /\ Close(w, i) \in Worlds
         /\ Close(w, i).e = w.e
         /\ \A f \in Fds : Close(w, i).fdt[f] = IF f = w.e.fd THEN 0 ELSE w.fdt[f]
         /\ Close(w, i).harm = w.harm \cup CloseHarm(w, i)
         /\ Close(w, i).helper = w.helper /\ Close(w, i).icmp = w.icmp
         /\ Close(w, i).up = w.up
  <2> USE <1>CloseIs
  <2> DEFINE f == w.e.fd
             x == Close(w, i)
  <2>1. f \in Fds \cup {0} /\ w.fdt \in Tables /\ w.harm \in SUBSET Harms
    BY DEF Worlds, Entries
  <2>2. 0 \notin Slots /\ 0 \notin Fds
    BY TimesAssumption
  <2>3. CASE f = 0
    <3>1. x = w
      BY <2>3 DEF Close
    <3>2. w.fdt = [g \in Fds |-> IF g = w.e.fd THEN 0 ELSE w.fdt[g]]
      BY <2>1, <2>2, <2>3 DEF Tables
    <3> QED
      BY <2>3, <3>1, <3>2 DEF CloseHarm
  <2>4. CASE f # 0 /\ w.fdt[f] = 0
    <3>1. x = [w EXCEPT !.harm = w.harm \cup {"badclose"}]
      BY <2>4 DEF Close, Harm
    <3>2. w.fdt = [g \in Fds |-> IF g = w.e.fd THEN 0 ELSE w.fdt[g]]
      BY <2>1, <2>4 DEF Tables
    <3>3. CloseHarm(w, i) = {"badclose"}
      BY <2>2, <2>4 DEF CloseHarm
    <3> QED
      BY <2>1, <3>1, <3>2, <3>3 DEF Worlds, Harms
  <2>5. CASE f # 0 /\ w.fdt[f] # 0
    <3>1. x = [w EXCEPT !.fdt[f] = 0,
                        !.harm = w.harm \cup IF w.fdt[f] = i THEN {} ELSE {"stolen"}]
      BY <2>5 DEF Close
    <3>2. CloseHarm(w, i) = IF w.fdt[f] = i THEN {} ELSE {"stolen"}
      BY <2>5 DEF CloseHarm
    <3>3. /\ x.fdt = [w.fdt EXCEPT ![f] = 0] /\ x.e = w.e /\ x.helper = w.helper
          /\ x.icmp = w.icmp /\ x.up = w.up /\ x.harm = w.harm \cup CloseHarm(w, i)
      BY <3>1, <3>2 DEF Worlds
    <3>4. [w.fdt EXCEPT ![f] = 0] = [g \in Fds |-> IF g = f THEN 0 ELSE w.fdt[g]]
      BY <2>1 DEF Tables
    <3>5. [w.fdt EXCEPT ![f] = 0] \in Tables
      BY <2>1 DEF Tables
    <3>6. x \in Worlds
      BY <2>1, <3>1, <3>5 DEF Worlds, Harms
    <3> QED
      BY <3>3, <3>4, <3>6
  <2> QED
    BY <2>3, <2>4, <2>5

\* open_sock() takes a free number.
<1>OpenSockIs.
  ASSUME NEW w \in Worlds, NEW i \in Slots, FreeFds(w) # {}
  PROVE  \E f \in Fds :
           /\ w.fdt[f] = 0
           /\ OpenSock(w, i) \in Worlds
           /\ OpenSock(w, i).e = [w.e EXCEPT !.fd = f]
           /\ OpenSock(w, i).fdt = [w.fdt EXCEPT ![f] = i]
           /\ OpenSock(w, i).helper = w.helper /\ OpenSock(w, i).icmp = w.icmp
           /\ OpenSock(w, i).harm = w.harm /\ OpenSock(w, i).up = w.up
  <2> USE <1>OpenSockIs
  <2> DEFINE f == CHOOSE g \in FreeFds(w) : \A h \in FreeFds(w) : g <= h
  <2>1. FreeFds(w) \subseteq Fds /\ Fds \subseteq Nat
    BY TimesAssumption DEF FreeFds
  <2>2. \E g \in FreeFds(w) : \A h \in FreeFds(w) : g <= h
    <3>1. FreeFds(w) \in SUBSET Nat
      BY <2>1
    <3> QED
      BY <3>1 DEF LeastNumbers
  <2>3. f \in FreeFds(w)
    BY <2>2
  <2>4. OpenSock(w, i) = [w EXCEPT !.e.fd = f, !.fdt[f] = i]
    BY DEF OpenSock
  <2> HIDE DEF f
  <2>5. f \in Fds /\ w.fdt[f] = 0
    BY <2>3 DEF FreeFds
  <2>6. w.fdt \in Tables /\ w.e \in Entries
    BY DEF Worlds
  <2>7. [w.fdt EXCEPT ![f] = i] \in Tables
    BY <2>5, <2>6 DEF Tables
  <2>8. [w.e EXCEPT !.fd = f] \in Entries
    BY <2>5, <2>6 DEF Entries
  <2>9. /\ OpenSock(w, i).e = [w.e EXCEPT !.fd = f]
        /\ OpenSock(w, i).fdt = [w.fdt EXCEPT ![f] = i]
        /\ OpenSock(w, i).helper = w.helper /\ OpenSock(w, i).icmp = w.icmp
        /\ OpenSock(w, i).harm = w.harm /\ OpenSock(w, i).up = w.up
    BY <2>4 DEF Worlds
  <2>10. OpenSock(w, i) \in Worlds
    BY <2>4, <2>7, <2>8 DEF Worlds
  <2> QED
    BY <2>5, <2>9, <2>10

(***************************************************************************)
(* Legal worlds.                                                           *)
(***************************************************************************)

\* Only the handler's own counters have changed.
<1>LegalCounters.
  ASSUME NEW k \in Kinds \ EchoKinds, NEW i \in Slots, NEW tnt \in BOOLEAN, NEW v, NEW w, NEW x,
         Legal(k, i, tnt, v, w), x \in Worlds, Rest(x, w),
         x.e.started = w.e.started, x.e.retval = w.e.retval, x.e.fd = w.e.fd,
         x.e.data = w.e.data, x.e.age = w.e.age, x.e.good >= w.e.good,
         x.e.good >= Level(x.e.st)
  PROVE  Legal(k, i, tnt, v, x)
  <2> USE <1>LegalCounters
  <2>1. Earned(k, x.e, x.icmp)
    <3>1. w.e.good \in Nat /\ x.e.good \in Nat
      BY DEF Legal, Worlds, Entries
    <3>2. Needed[k] \in Int
      BY SMTT(30), TimesAssumption DEF Needed, Kinds, StreamKinds, DgramKinds, EchoKinds
    <3>3. x.icmp = w.icmp
      BY DEF Rest
    <3> QED
      BY SMTT(30), <3>1, <3>2, <3>3 DEF Legal, Earned
  <2>2. Counted(k, x.e) /\ Holding(k, x.e)
    BY DEF Legal, Counted, Holding
  <2>3. ~Confused(tnt, x) =>
         /\ Found(k, i, x.e, x.fdt)
         /\ x.up => Safe(k, i, x.e, x.fdt)
         /\ Frame(i, v.fdt, x.fdt)
    BY DEF Legal, Rest, Confused, Found, Safe
  <2> QED
    BY <2>1, <2>2, <2>3 DEF Legal, Rest

<1>LiveHear.
  ASSUME NEW k \in Kinds \ EchoKinds, NEW i \in Slots, NEW tnt \in BOOLEAN, NEW v, NEW w,
         Live(k, i, tnt, v, w), NEW st \in States, w.e.good + 1 >= Level(st)
  PROVE  /\ Live(k, i, tnt, v, Hear(w, st))
         /\ Hear(w, st).e.good = w.e.good + 1 /\ Hear(w, st).e.st = st
  <2> USE <1>LiveHear
  <2> DEFINE x == Hear(w, st)
  <2>1. w \in Worlds /\ w.e \in Entries /\ w.e.good \in Nat
    BY DEF Live, Legal, Worlds, Entries
  <2>2. x \in Worlds /\ Rest(x, w) /\ x.e = [w.e EXCEPT !.st = st, !.good = w.e.good + 1]
    BY <2>1, <1>HearIs
  <2> HIDE DEF x
  <2>3. /\ x.e.started = w.e.started /\ x.e.retval = w.e.retval /\ x.e.fd = w.e.fd
        /\ x.e.data = w.e.data /\ x.e.age = w.e.age /\ x.e.good = w.e.good + 1 /\ x.e.st = st
    BY SMTT(30), <2>1, <2>2 DEF Entries
  <2>4. x.e.good >= w.e.good /\ x.e.good >= Level(x.e.st)
    BY SMTT(30), <2>1, <2>3
  <2>5. Legal(k, i, tnt, v, w)
    BY DEF Live
  <2>6. Legal(k, i, tnt, v, x)
    BY <2>2, <2>3, <2>4, <2>5, <1>LegalCounters
  <2>7. Live(k, i, tnt, v, x)
    BY <2>2, <2>3, <2>6 DEF Live, Rest
  <2> QED
    BY <2>3, <2>7 DEF x

<1>LiveActive.
  ASSUME NEW k \in Kinds \ EchoKinds, NEW i \in Slots, NEW tnt \in BOOLEAN, NEW v, NEW w,
         Live(k, i, tnt, v, w)
  PROVE  /\ Live(k, i, tnt, v, Active(w))
         /\ Active(w).e.good = w.e.good /\ Active(w).e.st = w.e.st
         /\ \A c \in Nat : LET x == [Active(w) EXCEPT !.e.n = c]
                           IN  Live(k, i, tnt, v, x) /\ x.e.good = w.e.good /\ x.e.st = w.e.st
  <2> USE <1>LiveActive
  <2>1. w \in Worlds /\ w.e \in Entries /\ w.e.good \in Nat /\ w.e.good >= Level(w.e.st)
        /\ w.e.st \in States
    BY DEF Live, Legal, Worlds, Entries, Earned
  <2> DEFINE y == Active(w)
  <2>2. y \in Worlds /\ Rest(y, w) /\ y.e = [w.e EXCEPT !.idle = 0]
    BY <2>1, <1>ActiveIs
  <2>a. Active(w) = y
    OBVIOUS
  <2> HIDE DEF y
  <2>3. /\ y.e.started = w.e.started /\ y.e.retval = w.e.retval /\ y.e.fd = w.e.fd
        /\ y.e.data = w.e.data /\ y.e.age = w.e.age /\ y.e.good = w.e.good /\ y.e.st = w.e.st
    BY SMTT(30), <2>1, <2>2 DEF Entries
  <2>b. Legal(k, i, tnt, v, w) /\ y.e.good >= w.e.good /\ y.e.good >= Level(y.e.st)
    BY SMTT(30), <2>1, <2>3 DEF Live
  <2>4. Legal(k, i, tnt, v, y)
    BY <2>2, <2>3, <2>b, <1>LegalCounters
  <2>c. Live(k, i, tnt, v, y)
    BY <2>2, <2>3, <2>4 DEF Live, Rest
  <2>5. ASSUME NEW c \in Nat
        PROVE  LET x == [y EXCEPT !.e.n = c]
               IN  Live(k, i, tnt, v, x) /\ x.e.good = w.e.good /\ x.e.st = w.e.st
    <3> DEFINE x == [y EXCEPT !.e.n = c]
    <3>1. y.e \in Entries /\ x.e = [y.e EXCEPT !.n = c] /\ Rest(x, y)
      BY <2>2 DEF Worlds, Rest
    <3>2. [y.e EXCEPT !.n = c] \in Entries
      BY <3>1 DEF Entries
    <3>3. x \in Worlds
      BY <2>2, <3>2 DEF Worlds
    <3> HIDE DEF x
    <3>4. /\ x.e.started = y.e.started /\ x.e.retval = y.e.retval /\ x.e.fd = y.e.fd
          /\ x.e.data = y.e.data /\ x.e.age = y.e.age /\ x.e.good = y.e.good /\ x.e.st = y.e.st
      BY SMTT(30), <3>1 DEF Entries
    <3>5. Rest(x, w)
      BY <2>2, <3>1 DEF Rest
    <3>6. Legal(k, i, tnt, v, x)
      BY <2>3, <2>b, <3>3, <3>4, <3>5, <1>LegalCounters
    <3>7. Live(k, i, tnt, v, x) /\ x.e.good = w.e.good /\ x.e.st = w.e.st
      BY <2>3, <3>4, <3>5, <3>6 DEF Live, Rest
    <3> QED
      BY <3>7 DEF x
  <2> QED
    BY <2>3, <2>5, <2>a, <2>c

<1>GoneIs.
  ASSUME NEW w \in Worlds, NEW i \in Slots, NEW rv \in Retvals, w.e.data # "null"
  PROVE  Ended(w, i, rv, "freed", Gone(w, i, rv))
  <2> USE <1>GoneIs
  <2> DEFINE a == Answer(w, rv)
             c == Close(a, i)
             x == Free(c)
  <2>1. a \in Worlds /\ Rest(a, w) /\ a.e = [w.e EXCEPT !.retval = rv]
    BY AnswerIs
  <2> HIDE DEF a
  <2>2. w.e \in Entries /\ w.e.data \in {"held", "freed"}
    BY DEF Worlds, Entries
  <2>3. /\ a.e.started = w.e.started /\ a.e.age = w.e.age /\ a.e.retval = rv /\ a.e.fd = w.e.fd
        /\ a.e.data = w.e.data /\ a.e.good = w.e.good /\ a.e.st = w.e.st
    BY SMTT(30), <2>1, <2>2 DEF Entries
  <2>4. CloseHarm(a, i) = CloseHarm(w, i)
    BY <2>1, <2>3 DEF CloseHarm, Rest
  <2>5. /\ c \in Worlds /\ c.e = a.e /\ c.icmp = w.icmp /\ c.up = w.up
        /\ \A f \in Fds : c.fdt[f] = IF f = w.e.fd THEN 0 ELSE w.fdt[f]
        /\ c.harm = w.harm \cup CloseHarm(w, i)
    <3>1. /\ c \in Worlds /\ c.e = a.e /\ c.icmp = a.icmp /\ c.up = a.up
          /\ \A f \in Fds : c.fdt[f] = IF f = a.e.fd THEN 0 ELSE a.fdt[f]
          /\ c.harm = a.harm \cup CloseHarm(a, i)
      BY <2>1, <1>CloseIs
    <3>2. a.fdt = w.fdt /\ a.harm = w.harm /\ a.icmp = w.icmp /\ a.up = w.up
      BY <2>1 DEF Rest
    <3> HIDE DEF c
    <3> QED
      BY <2>3, <2>4, <3>1, <3>2
  <2> HIDE DEF c
  <2>6. CASE w.e.data = "held"
    <3>1. x \in Worlds /\ Rest(x, c) /\ x.e = Emptied(c.e)
      BY SMTT(30), <2>3, <2>5, <2>6, <1>FreeIs
    <3>2. a.e \in Entries
      BY <2>1 DEF Worlds
    <3>3. /\ x.e.started = a.e.started /\ x.e.age = a.e.age /\ x.e.retval = rv
          /\ x.e.fd = a.e.fd /\ x.e.data = "freed" /\ x.e.good = a.e.good
          /\ x.e.st = "CONNECT"
      BY SMTT(30), <2>3, <2>5, <3>1, <3>2 DEF Entries, Emptied
    <3> HIDE DEF x
    <3>4. Ended(w, i, rv, "freed", x)
      BY <2>3, <2>5, <2>6, <3>1, <3>3 DEF Rest, Ended, Shut
    <3> QED
      BY <3>4 DEF Gone, a, c, x
  <2>7. CASE w.e.data = "freed"
    <3>1. /\ x \in Worlds /\ x.e = c.e /\ x.fdt = c.fdt /\ x.icmp = c.icmp
          /\ x.harm = c.harm \cup {"doublefree"} /\ x.up = c.up
      BY SMTT(30), <2>3, <2>5, <2>7, <1>FreeIs
    <3> HIDE DEF x
    <3>2. Ended(w, i, rv, "freed", x)
      BY <2>3, <2>5, <2>7, <3>1 DEF Ended, Shut
    <3> QED
      BY <3>2 DEF Gone, a, c, x
  <2> QED
    BY <2>2, <2>6, <2>7

<1>FinishIs.
  ASSUME NEW w \in Worlds, NEW i \in Slots, NEW rv \in Retvals, w.e.data # "null"
  PROVE  Ended(w, i, rv, "null", Finish(w, i, rv))
  <2> USE <1>FinishIs
  <2> DEFINE g == Gone(w, i, rv)
             x == Null(g)
  <2>1. Ended(w, i, rv, "freed", g)
    BY <1>GoneIs
  <2>2. Finish(w, i, rv) = x
    BY DEF Finish, Gone
  <2> HIDE DEF g
  <2>3. g \in Worlds
    BY <2>1 DEF Ended
  <2>4. x \in Worlds /\ Rest(x, g) /\ x.e = [g.e EXCEPT !.data = "null"]
    BY <2>3, <1>NullIs
  <2> HIDE DEF x
  <2>5. g.e \in Entries
    BY <2>3 DEF Worlds
  <2>6. /\ x.e.started = g.e.started /\ x.e.age = g.e.age /\ x.e.retval = g.e.retval
        /\ x.e.fd = g.e.fd /\ x.e.good = g.e.good /\ x.e.st = g.e.st /\ x.e.data = "null"
    BY SMTT(30), <2>4, <2>5 DEF Entries
  <2>7. Ended(w, i, rv, "null", x)
    BY <2>1, <2>4, <2>6 DEF Rest, Ended
  <2> QED
    BY <2>2, <2>7

\* close() of a descriptor that was not somebody else's leaves the others'
\* alone and leaves i with none.
<1>ClosedTable.
  ASSUME NEW k, NEW i \in Slots, NEW v \in Worlds, NEW w \in Worlds,
         Found(k, i, w.e, w.fdt), Frame(i, v.fdt, w.fdt), NEW t,
         "stolen" \notin CloseHarm(w, i), Shut(w, t)
  PROVE  Without(i, t) /\ Frame(i, v.fdt, t)
  <2> USE <1>ClosedTable
  <2>1. 0 \notin Slots /\ i # 0 /\ 0 \notin Fds
    BY TimesAssumption
  <2>2. ASSUME NEW f \in Fds PROVE t[f] # i
    BY <2>1 DEF Found, Shut
  <2>3. w.e.fd \in Fds => w.fdt[w.e.fd] \in {0, i}
    BY <2>1 DEF CloseHarm
  <2>4. ASSUME NEW f \in Fds PROVE t[f] = v.fdt[f] \/ (t[f] \in {0, i} /\ v.fdt[f] \in {0, i})
    BY <2>1, <2>3 DEF Frame, Shut
  <2> QED
    BY <2>2, <2>4 DEF Frame, Without

\* The end of a check that is going on.
<1>LiveEnded.
  ASSUME NEW k \in Kinds \ EchoKinds, NEW i \in Slots, NEW tnt \in BOOLEAN,
         NEW v \in Worlds, NEW w, Live(k, i, tnt, v, w),
         NEW rv \in Retvals \ {"NODNS"}, rv = "OK" => w.e.good >= Needed[k],
         NEW d \in {"null", "freed"}, d = "freed" => k \in {"radius", "dns"},
         NEW x, Ended(w, i, rv, d, x), k = "snmp" => x.e.fd = 0
  PROVE  Legal(k, i, tnt, v, x) /\ x.e.retval = rv /\ x.e.st = "CONNECT"
  <2> USE <1>LiveEnded
  <2>1. w \in Worlds /\ w.e \in Entries /\ w.e.data = "held" /\ w.up /\ w.harm = {}
        /\ Legal(k, i, tnt, v, w) /\ w.e.good \in Nat
    BY DEF Live, Legal, Worlds, Entries
  <2>2. /\ x \in Worlds
        /\ x.e.started = w.e.started /\ x.e.age = w.e.age /\ x.e.retval = rv
        /\ x.e.data = d /\ x.e.good = w.e.good /\ x.e.st = "CONNECT"
        /\ x.harm = CloseHarm(w, i) /\ x.icmp = w.icmp /\ x.up
    BY <2>1 DEF Ended
  <2>3. Earned(k, x.e, x.icmp)
    BY SMTT(30), <2>1, <2>2 DEF Earned, Level
  <2>4. Counted(k, x.e) /\ Holding(k, x.e)
    BY <2>2 DEF Counted, Holding, Dangles
  <2>5. ~tnt => CloseHarm(w, i) = {} /\ x.harm = {}
    BY <2>1, <2>2 DEF Live, Legal, Confused, Safe, CloseHarm
  <2>6. ~Confused(tnt, x) => Without(i, x.fdt) /\ Frame(i, v.fdt, x.fdt)
    <3> SUFFICES ASSUME ~tnt PROVE Without(i, x.fdt) /\ Frame(i, v.fdt, x.fdt)
      BY DEF Confused
    <3>1. Found(k, i, w.e, w.fdt) /\ Frame(i, v.fdt, w.fdt)
      BY <2>1 DEF Legal, Confused
    <3>2. "stolen" \notin CloseHarm(w, i) /\ Shut(w, x.fdt)
      BY <2>5 DEF Ended
    <3> QED
      BY <2>1, <3>1, <3>2, <1>ClosedTable
  <2>7. Safe(k, i, x.e, x.fdt)
    BY <2>2 DEF Safe, Dangles
  <2>8. Legal(k, i, tnt, v, x)
    BY <2>1, <2>2, <2>3, <2>4, <2>5, <2>6, <2>7 DEF Legal, Found, Without
  <2> QED
    BY <2>2, <2>8

<1>LiveFinish.
  ASSUME NEW k \in Kinds \ EchoKinds, k # "snmp", NEW i \in Slots, NEW tnt \in BOOLEAN,
         NEW v \in Worlds, NEW w, Live(k, i, tnt, v, w),
         NEW rv \in Retvals \ {"NODNS"}, rv = "OK" => w.e.good >= Needed[k]
  PROVE  LET x == Finish(w, i, rv)
         IN  Legal(k, i, tnt, v, x) /\ x.e.retval = rv /\ x.e.st = "CONNECT"
  <2> USE <1>LiveFinish
  <2>1. w \in Worlds /\ w.e.data # "null" /\ rv \in Retvals
    BY DEF Live, Legal
  <2>2. Ended(w, i, rv, "null", Finish(w, i, rv))
    BY <2>1, <1>FinishIs
  <2>3. "null" \in {"null", "freed"} /\ "null" # "freed"
    OBVIOUS
  <2> QED
    BY SMTT(30), <2>2, <2>3, <1>LiveEnded

(***************************************************************************)
(* The stream checks.                                                      *)
(***************************************************************************)

<1>LiveIsLegal.
  ASSUME NEW k, NEW i, NEW tnt, NEW v, NEW w, Live(k, i, tnt, v, w)
  PROVE  Legal(k, i, tnt, v, w)
  BY <1>LiveIsLegal DEF Live

\* A check that is going on has heard what its state says.
<1>LiveLevel.
  ASSUME NEW k, NEW i, NEW tnt, NEW v, NEW w, Live(k, i, tnt, v, w)
  PROVE  w.e.good \in Nat /\ w.e.st \in States /\ w.e.good >= Level(w.e.st)
  BY <1>LiveLevel DEF Live, Legal, Worlds, Entries, Earned

<1>LiveFails.
  ASSUME NEW k \in Kinds \ EchoKinds, k # "snmp", NEW i \in Slots, NEW tnt \in BOOLEAN,
         NEW v \in Worlds, NEW w, Live(k, i, tnt, v, w), NEW rv \in Failing
  PROVE  Legal(k, i, tnt, v, Finish(w, i, rv))
  <2> USE <1>LiveFails
  <2>1. rv \in Retvals \ {"NODNS"} /\ rv # "OK"
    BY DEF Failing
  <2> QED
    BY SMTT(30), <2>1, <1>LiveFinish

<1>LiveSucceeds.
  ASSUME NEW k \in Kinds \ EchoKinds, k # "snmp", NEW i \in Slots, NEW tnt \in BOOLEAN,
         NEW v \in Worlds, NEW w, Live(k, i, tnt, v, w), w.e.good >= Needed[k]
  PROVE  Legal(k, i, tnt, v, Finish(w, i, "OK"))
  <2> USE <1>LiveSucceeds
  <2>1. "OK" \in Retvals \ {"NODNS"}
    BY DEF Retvals
  <2> QED
    BY SMTT(30), <2>1, <1>LiveFinish

\* ... with the last answer it wanted.
<1>LiveHearsLast.
  ASSUME NEW k \in Kinds \ EchoKinds, k # "snmp", NEW i \in Slots, NEW tnt \in BOOLEAN,
         NEW v \in Worlds, NEW w, Live(k, i, tnt, v, w), NEW st \in States, w.e.good + 1 >= Level(st),
         w.e.good + 1 >= Needed[k]
  PROVE  Legal(k, i, tnt, v, Finish(Hear(w, st), i, "OK"))
  <2> USE <1>LiveHearsLast
  <2>1. Live(k, i, tnt, v, Hear(w, st)) /\ Hear(w, st).e.good = w.e.good + 1
    BY SMTT(30), <1>LiveHear
  <2> QED
    BY <2>1, <1>LiveSucceeds

<1>HangupLegal.
  ASSUME NEW k \in Kinds \ EchoKinds, k # "snmp", NEW i \in Slots, NEW tnt \in BOOLEAN,
         NEW v \in Worlds, NEW w, Live(k, i, tnt, v, w)
  PROVE  \A x \in Hangup(w, i) : Legal(k, i, tnt, v, x)
  <2> USE <1>HangupLegal
  <2>1. "CONNREF" \in Failing /\ "BAD_RESP" \in Failing
    BY DEF Failing, Retvals
  <2> QED
    BY <2>1, <1>LiveFails DEF Hangup

<1>ErrnoFails.
  \A x : errno_to_error(x) \in Failing
  BY SMTT(30) DEF errno_to_error, ErrnoTable, Failing, Retvals

<1>OpenFails.
  \A o \in is_open : o \in {"INPROG", "OK"} \/ o \in Failing \ {"pending"}
  BY SMTT(30) DEF is_open, ErrnoTable, Failing, Retvals

\* A connect that was waited for.
<1>ConnectingLegal.
  ASSUME NEW k \in Kinds \ EchoKinds, k # "snmp", NEW i \in Slots, NEW tnt \in BOOLEAN,
         NEW v \in Worlds, NEW w, Live(k, i, tnt, v, w), NEW next \in States, Level(next) = 1
  PROVE  \A x \in Connecting(w, i, next) :
           /\ Legal(k, i, tnt, v, x)
           /\ x.e.retval = "pending" => Live(k, i, tnt, v, x)
           /\ x.e.st # "CONNECT" => Live(k, i, tnt, v, x)
  <2> USE <1>ConnectingLegal
  <2>1. w.e.good \in Nat /\ w.e.good + 1 >= Level(next)
    BY SMTT(30), <1>LiveLevel
  <2>2. Live(k, i, tnt, v, Hear(w, next))
    BY SMTT(30), <2>1, <1>LiveHear
  <2>3. ASSUME NEW o \in is_open, o # "INPROG", o # "OK"
        PROVE  LET x == Finish(w, i, o)
               IN  Legal(k, i, tnt, v, x) /\ x.e.retval # "pending" /\ x.e.st = "CONNECT"
    <3>1. o \in Retvals \ {"NODNS"} /\ o # "OK" /\ o # "pending"
      BY <2>3, <1>OpenFails DEF Failing
    <3> QED
      BY SMTT(30), <3>1, <1>LiveFinish
  <2> QED
    BY SMTT(30), <2>2, <2>3, <1>LiveIsLegal DEF Connecting

<1>NotingLegal.
  ASSUME NEW k \in Kinds \ EchoKinds, k # "snmp", NEW i \in Slots, NEW tnt \in BOOLEAN,
         NEW v \in Worlds, NEW w, Live(k, i, tnt, v, w), NEW next \in States, Level(next) = 1
  PROVE  \A x \in Noting(w, i, next) : Legal(k, i, tnt, v, x)
  <2> USE <1>NotingLegal
  <2> SUFFICES ASSUME NEW y \in Connecting(w, i, next)
               PROVE  Legal(k, i, tnt, v, IF y.e.st = next THEN Active(y) ELSE y)
    BY DEF Noting
  <2>1. next # "CONNECT"
    BY SMTT(30) DEF Level
  <2>2. Legal(k, i, tnt, v, y) /\ (y.e.st = next => Live(k, i, tnt, v, y))
    BY <2>1, <1>ConnectingLegal
  <2> QED
    BY <2>2, <1>LiveActive, <1>LiveIsLegal

<1>TimedConnectingLegal.
  ASSUME NEW k \in Kinds \ EchoKinds, k # "snmp", NEW i \in Slots, NEW tnt \in BOOLEAN,
         NEW v \in Worlds, NEW w, Live(k, i, tnt, v, w), NEW next \in States, Level(next) = 1
  PROVE  \A x \in TimedConnecting(w, i, next) : Legal(k, i, tnt, v, x)
  <2> USE <1>TimedConnectingLegal
  <2> SUFFICES ASSUME NEW y \in Connecting(w, i, next)
               PROVE  Legal(k, i, tnt, v, IF y.e.retval = "pending" /\ w.e.age >= Globtimeout
                                          THEN Finish(y, i, "TIMEDOUT") ELSE y)
    BY DEF TimedConnecting
  <2>1. Legal(k, i, tnt, v, y) /\ (y.e.retval = "pending" => Live(k, i, tnt, v, y))
    BY <1>ConnectingLegal
  <2>2. "TIMEDOUT" \in Failing
    BY DEF Failing, Retvals
  <2> QED
    BY <2>1, <2>2, <1>LiveFails

<1>ServiceTcp.
  ASSUME NEW i \in Slots, NEW tnt \in BOOLEAN, NEW v \in Worlds, Live("tcp", i, tnt, v, v)
  PROVE  \A x \in service_test_tcp(v, i) : Legal("tcp", i, tnt, v, x)
  <2> USE <1>ServiceTcp
  <2>1. "tcp" \in Kinds \ EchoKinds /\ "TIMEDOUT" \in Failing /\ "CONNECT" \in States
        /\ Level("CONNECT") = 0 /\ Needed["tcp"] = 1
    BY DEF Kinds, StreamKinds, EchoKinds, Failing, Retvals, States, Level, Needed
  <2>2. v.e.good \in Nat
    BY <1>LiveLevel
  <2> DEFINE h == Hear(v, "CONNECT")
  <2>3. Live("tcp", i, tnt, v, h) /\ h.e.good = v.e.good + 1
    BY SMTT(30), <2>1, <2>2, <1>LiveHear
  <2> HIDE DEF h
  <2>4. \A o \in is_open : o # "INPROG" => Legal("tcp", i, tnt, v, Finish(h, i, o))
    BY SMTT(30), <2>1, <2>2, <2>3, <1>OpenFails, <1>LiveFails, <1>LiveSucceeds
  <2>5. Legal("tcp", i, tnt, v, Finish(v, i, "TIMEDOUT")) /\ Legal("tcp", i, tnt, v, v)
    BY <2>1, <1>LiveFails, <1>LiveIsLegal
  <2> QED
    BY <2>4, <2>5 DEF service_test_tcp, h

<1>ServiceSmtp.
  ASSUME NEW i \in Slots, NEW tnt \in BOOLEAN, NEW v \in Worlds, Live("smtp", i, tnt, v, v)
  PROVE  \A x \in service_test_smtp(v, i) : Legal("smtp", i, tnt, v, x)
  <2> USE <1>ServiceSmtp
  <2>1. "smtp" \in Kinds \ EchoKinds /\ "BAD_RESP" \in Failing /\ Needed["smtp"] = 3
        /\ {"WAITBAN", "SENT_QUIT", "GOT_BYE"} \subseteq States
    BY DEF Kinds, StreamKinds, EchoKinds, Failing, Retvals, States, Needed
  <2>2. Level("WAITBAN") = 1 /\ Level("SENT_QUIT") = 2 /\ Level("GOT_BYE") = 3
    BY DEF Level
  <2>3. v.e.good \in Nat /\ v.e.good >= Level(v.e.st)
    BY <1>LiveLevel
  <2>4. \A x \in TimedConnecting(v, i, "WAITBAN") : Legal("smtp", i, tnt, v, x)
    BY <2>1, <2>2, <1>TimedConnectingLegal
  <2>5. v.e.st = "WAITBAN" => Legal("smtp", i, tnt, v, Hear(v, "SENT_QUIT"))
    BY SMTT(30), <2>1, <2>2, <2>3, <1>LiveHear, <1>LiveIsLegal
  <2>6. v.e.st = "SENT_QUIT" => Legal("smtp", i, tnt, v, Hear(v, "GOT_BYE"))
    BY SMTT(30), <2>1, <2>2, <2>3, <1>LiveHear, <1>LiveIsLegal
  <2>7. v.e.st = "GOT_BYE" => Legal("smtp", i, tnt, v, Finish(v, i, "OK"))
    BY <2>1, <2>2, <2>3, <1>LiveSucceeds
  <2>8. Legal("smtp", i, tnt, v, v) /\ Legal("smtp", i, tnt, v, Finish(v, i, "BAD_RESP"))
    BY <2>1, <1>LiveIsLegal, <1>LiveFails
  <2> QED
    BY <2>4, <2>5, <2>6, <2>7, <2>8 DEF service_test_smtp, At


<1>ServiceSsh.
  ASSUME NEW i \in Slots, NEW tnt \in BOOLEAN, NEW v \in Worlds, Live("ssh", i, tnt, v, v)
  PROVE  \A x \in service_test_sshd(v, i) : Legal("ssh", i, tnt, v, x)
  <2> USE <1>ServiceSsh
  <2>1. "ssh" \in Kinds \ EchoKinds /\ "BAD_RESP" \in Failing /\ "WAITBAN" \in States
        /\ Level("WAITBAN") = 1 /\ Needed["ssh"] = 2
    BY DEF Kinds, StreamKinds, EchoKinds, Failing, Retvals, States, Needed, Level
  <2>2. v.e.good \in Nat /\ v.e.good >= Level(v.e.st)
    BY <1>LiveLevel
  <2>3. \A x \in TimedConnecting(v, i, "WAITBAN") : Legal("ssh", i, tnt, v, x)
    BY <2>1, <1>TimedConnectingLegal
  <2>4. v.e.st = "WAITBAN" => Legal("ssh", i, tnt, v, Finish(Hear(v, "WAITBAN"), i, "OK"))
    BY SMTT(30), <2>1, <2>2, <1>LiveHearsLast
  <2>5. Legal("ssh", i, tnt, v, v) /\ Legal("ssh", i, tnt, v, Finish(v, i, "BAD_RESP"))
    BY <2>1, <1>LiveIsLegal, <1>LiveFails
  <2> QED
    BY <2>3, <2>4, <2>5 DEF service_test_sshd, At

<1>ServiceWww.
  ASSUME NEW i \in Slots, NEW tnt \in BOOLEAN, NEW v \in Worlds, Live("www", i, tnt, v, v)
  PROVE  \A x \in service_test_www(v, i) : Legal("www", i, tnt, v, x)
  <2> USE <1>ServiceWww
  <2> DEFINE line  == [Active(v) EXCEPT !.e.n = 0]
             blank == [Active(v) EXCEPT !.e.n = @ + 1]
  <2>1. "www" \in Kinds \ EchoKinds /\ "BAD_RESP" \in Failing /\ "NORESP" \in Failing
        /\ "SENT_REQUEST" \in States /\ Level("SENT_REQUEST") = 1 /\ Needed["www"] = 2
    BY DEF Kinds, StreamKinds, EchoKinds, Failing, Retvals, States, Needed, Level
  <2>2. v.e.good \in Nat /\ v.e.good >= Level(v.e.st)
    BY <1>LiveLevel
  <2>3. \A x \in Noting(v, i, "SENT_REQUEST") : Legal("www", i, tnt, v, x)
    BY <2>1, <1>NotingLegal
  <2>4. \A c \in Nat : LET x == [Active(v) EXCEPT !.e.n = c]
                       IN  Live("www", i, tnt, v, x) /\ x.e.good = v.e.good
    BY SMTT(30), <2>1, <1>LiveActive
  <2>5. Live("www", i, tnt, v, line) /\ line.e.good = v.e.good
    BY <2>4
  <2>6. Live("www", i, tnt, v, blank)
    <3>1. Active(v).e.n \in Nat
      BY <1>ActiveIs DEF Worlds, Entries
    <3>2. Active(v).e.n + 1 \in Nat
      BY SMTT(30), <3>1
    <3>3. blank = [Active(v) EXCEPT !.e.n = Active(v).e.n + 1]
      OBVIOUS
    <3> QED
      BY <2>4, <3>2, <3>3
  <2> HIDE DEF line, blank
  <2>7. v.e.st = "SENT_REQUEST" => Legal("www", i, tnt, v, Finish(Hear(line, "SENT_REQUEST"), i, "OK"))
    BY SMTT(30), <2>1, <2>2, <2>5, <1>LiveHearsLast
  <2>8. /\ Legal("www", i, tnt, v, v) /\ Legal("www", i, tnt, v, line)
        /\ Legal("www", i, tnt, v, blank) /\ Legal("www", i, tnt, v, Finish(v, i, "NORESP"))
        /\ Legal("www", i, tnt, v, Finish(blank, i, "BAD_RESP"))
    BY <2>1, <2>5, <2>6, <1>LiveIsLegal, <1>LiveFails
  <2>9. service_test_www(v, i) =
               At(v, "CONNECT", Noting(v, i, "SENT_REQUEST"))
          \cup At(v, "SENT_REQUEST",
                  {IF v.e.idle > Quiet THEN Finish(v, i, "NORESP") ELSE v,
                   line,
                   IF blank.e.n > MaxBlank THEN Finish(blank, i, "BAD_RESP") ELSE blank,
                   Finish(Hear(line, "SENT_REQUEST"), i, "OK")})
    BY DEF service_test_www, line, blank
  <2> QED
    BY <2>3, <2>7, <2>8, <2>9 DEF At

<1>ServicePop3.
  ASSUME NEW i \in Slots, NEW tnt \in BOOLEAN, NEW v \in Worlds, Live("pop3", i, tnt, v, v)
  PROVE  \A x \in service_test_pop3(v, i) : Legal("pop3", i, tnt, v, x)
  <2> USE <1>ServicePop3
  <2>1. "pop3" \in Kinds \ EchoKinds /\ "BAD_AUTH" \in Failing /\ Needed["pop3"] = 4
        /\ {"WAITBAN", "SENT_USER", "SENT_PASS", "SENT_QUIT"} \subseteq States
    BY DEF Kinds, StreamKinds, EchoKinds, Failing, Retvals, States, Needed
  <2>2. Level("WAITBAN") = 1 /\ Level("SENT_USER") = 2 /\ Level("SENT_PASS") = 3
        /\ Level("SENT_QUIT") = 2
    BY DEF Level
  <2>3. v.e.good \in Nat /\ v.e.good >= Level(v.e.st)
    BY <1>LiveLevel
  <2>4. \A x \in Connecting(v, i, "WAITBAN") : Legal("pop3", i, tnt, v, x)
    BY <2>1, <2>2, <1>ConnectingLegal
  <2>5. v.e.st = "WAITBAN" => Legal("pop3", i, tnt, v, Hear(v, "SENT_USER"))
    BY SMTT(30), <2>1, <2>2, <2>3, <1>LiveHear, <1>LiveIsLegal
  <2>6. v.e.st = "SENT_USER" => Legal("pop3", i, tnt, v, Hear(v, "SENT_PASS"))
    BY SMTT(30), <2>1, <2>2, <2>3, <1>LiveHear, <1>LiveIsLegal
  <2>7. v.e.st = "SENT_PASS" => Legal("pop3", i, tnt, v, Finish(Hear(v, "SENT_QUIT"), i, "OK"))
    BY SMTT(30), <2>1, <2>2, <2>3, <1>LiveHearsLast
  <2>8. Legal("pop3", i, tnt, v, v) /\ Legal("pop3", i, tnt, v, Finish(v, i, "BAD_AUTH"))
        /\ \A x \in Hangup(v, i) : Legal("pop3", i, tnt, v, x)
    BY <2>1, <1>LiveIsLegal, <1>LiveFails, <1>HangupLegal
  <2> QED
    BY <2>4, <2>5, <2>6, <2>7, <2>8 DEF service_test_pop3, At

<1>ServiceImap.
  ASSUME NEW i \in Slots, NEW tnt \in BOOLEAN, NEW v \in Worlds, Live("imap", i, tnt, v, v)
  PROVE  \A x \in service_test_imap(v, i) : Legal("imap", i, tnt, v, x)
  <2> USE <1>ServiceImap
  <2>1. "imap" \in Kinds \ EchoKinds /\ "BAD_AUTH" \in Failing /\ Needed["imap"] = 3
        /\ {"WAITBAN", "SENT_AUTH", "SENT_QUIT"} \subseteq States
    BY DEF Kinds, StreamKinds, EchoKinds, Failing, Retvals, States, Needed
  <2>2. Level("WAITBAN") = 1 /\ Level("SENT_AUTH") = 2 /\ Level("SENT_QUIT") = 2
    BY DEF Level
  <2>3. v.e.good \in Nat /\ v.e.good >= Level(v.e.st)
    BY <1>LiveLevel
  <2>4. \A x \in Connecting(v, i, "WAITBAN") : Legal("imap", i, tnt, v, x)
    BY <2>1, <2>2, <1>ConnectingLegal
  <2>5. v.e.st = "WAITBAN" => Legal("imap", i, tnt, v, Hear(v, "SENT_AUTH"))
    BY SMTT(30), <2>1, <2>2, <2>3, <1>LiveHear, <1>LiveIsLegal
  <2>6. v.e.st = "SENT_AUTH" => Legal("imap", i, tnt, v, Finish(Hear(v, "SENT_QUIT"), i, "OK"))
    BY SMTT(30), <2>1, <2>2, <2>3, <1>LiveHearsLast
  <2>7. Legal("imap", i, tnt, v, v) /\ Legal("imap", i, tnt, v, Finish(v, i, "BAD_AUTH"))
        /\ \A x \in Hangup(v, i) : Legal("imap", i, tnt, v, x)
    BY <2>1, <1>LiveIsLegal, <1>LiveFails, <1>HangupLegal
  <2> QED
    BY <2>4, <2>5, <2>6, <2>7 DEF service_test_imap, At

<1>ServiceNntp.
  ASSUME NEW i \in Slots, NEW tnt \in BOOLEAN, NEW v \in Worlds, Live("nntp", i, tnt, v, v)
  PROVE  \A x \in service_test_nntp(v, i) : Legal("nntp", i, tnt, v, x)
  <2> USE <1>ServiceNntp
  <2>1. "nntp" \in Kinds \ EchoKinds /\ "BAD_RESP" \in Failing /\ "NORESP" \in Failing
        /\ {"WAITBAN", "SENT_QUIT"} \subseteq States /\ Needed["nntp"] = 2
    BY DEF Kinds, StreamKinds, EchoKinds, Failing, Retvals, States, Needed
  <2>2. Level("WAITBAN") = 1 /\ Level("SENT_QUIT") = 2
    BY DEF Level
  <2>3. v.e.good \in Nat /\ v.e.good >= Level(v.e.st)
    BY <1>LiveLevel
  <2>4. \A x \in Noting(v, i, "WAITBAN") : Legal("nntp", i, tnt, v, x)
    BY <2>1, <2>2, <1>NotingLegal
  <2>5. v.e.st = "WAITBAN" => Legal("nntp", i, tnt, v, Hear(v, "SENT_QUIT"))
    BY SMTT(30), <2>1, <2>2, <2>3, <1>LiveHear, <1>LiveIsLegal
  <2>6. v.e.st = "SENT_QUIT" => Legal("nntp", i, tnt, v, Finish(v, i, "OK"))
    BY <2>1, <2>2, <2>3, <1>LiveSucceeds
  <2>7. Legal("nntp", i, tnt, v, v) /\ Legal("nntp", i, tnt, v, Finish(v, i, "BAD_RESP"))
        /\ Legal("nntp", i, tnt, v, Finish(v, i, "NORESP"))
    BY <2>1, <1>LiveIsLegal, <1>LiveFails
  <2> QED
    BY <2>4, <2>5, <2>6, <2>7 DEF service_test_nntp, At

<1>ServiceSysmon.
  ASSUME NEW i \in Slots, NEW tnt \in BOOLEAN, NEW v \in Worlds, Live("sysm", i, tnt, v, v)
  PROVE  \A x \in service_check_sysmon(v, i) : Legal("sysm", i, tnt, v, x)
  <2> USE <1>ServiceSysmon
  <2>1. "sysm" \in Kinds \ EchoKinds /\ "NORESP" \in Failing /\ Needed["sysm"] = 3
        /\ {"WAITBAN", "SENT_QUIT", "GOT_BYE"} \subseteq States
    BY DEF Kinds, StreamKinds, EchoKinds, Failing, Retvals, States, Needed
  <2>2. Level("WAITBAN") = 1 /\ Level("SENT_QUIT") = 2 /\ Level("GOT_BYE") = 3
    BY DEF Level
  <2>3. v.e.good \in Nat /\ v.e.good >= Level(v.e.st)
    BY <1>LiveLevel
  <2>4. \A x \in Connecting(v, i, "WAITBAN") : Legal("sysm", i, tnt, v, x)
    BY <2>1, <2>2, <1>ConnectingLegal
  <2>5. v.e.st = "WAITBAN" => Legal("sysm", i, tnt, v, Hear(v, "SENT_QUIT"))
    BY SMTT(30), <2>1, <2>2, <2>3, <1>LiveHear, <1>LiveIsLegal
  <2>6. v.e.st = "SENT_QUIT" => Legal("sysm", i, tnt, v, Hear(v, "GOT_BYE"))
    BY SMTT(30), <2>1, <2>2, <2>3, <1>LiveHear, <1>LiveIsLegal
  <2>7. v.e.st = "GOT_BYE" => Legal("sysm", i, tnt, v, Finish(v, i, "OK"))
    BY <2>1, <2>2, <2>3, <1>LiveSucceeds
  <2>8. Legal("sysm", i, tnt, v, v) /\ Legal("sysm", i, tnt, v, Finish(v, i, "NORESP"))
        /\ \A x \in Hangup(v, i) : Legal("sysm", i, tnt, v, x)
    BY <2>1, <1>LiveIsLegal, <1>LiveFails, <1>HangupLegal
  <2> QED
    BY <2>4, <2>5, <2>6, <2>7, <2>8 DEF service_check_sysmon, At

<1>ServiceX500.
  ASSUME NEW i \in Slots, NEW tnt \in BOOLEAN, NEW v \in Worlds, Live("x500", i, tnt, v, v)
  PROVE  \A x \in service_test_x500(v, i) : Legal("x500", i, tnt, v, x)
  <2> USE <1>ServiceX500
  <2>1. "x500" \in Kinds \ EchoKinds /\ "X500_WEDGED" \in Failing /\ "CONNECTED" \in States
        /\ Level("CONNECTED") = 1 /\ Needed["x500"] = 2
    BY DEF Kinds, StreamKinds, EchoKinds, Failing, Retvals, States, Needed, Level
  <2>2. v.e.good \in Nat /\ v.e.good >= Level(v.e.st)
    BY <1>LiveLevel
  <2>3. \A x \in Connecting(v, i, "CONNECTED") : Legal("x500", i, tnt, v, x)
    BY <2>1, <1>ConnectingLegal
  <2>4. v.e.st = "CONNECTED" => Legal("x500", i, tnt, v, Finish(Hear(v, "CONNECTED"), i, "OK"))
    BY SMTT(30), <2>1, <2>2, <1>LiveHearsLast
  <2>5. Legal("x500", i, tnt, v, v) /\ Legal("x500", i, tnt, v, Finish(v, i, "X500_WEDGED"))
        /\ \A x \in Hangup(v, i) : Legal("x500", i, tnt, v, x)
    BY <2>1, <1>LiveIsLegal, <1>LiveFails, <1>HangupLegal
  <2> QED
    BY <2>3, <2>4, <2>5 DEF service_test_x500, At

(***************************************************************************)
(* The starts.                                                             *)
(***************************************************************************)

<1>FreshFacts.
  ASSUME NEW k, NEW i \in Slots, NEW tnt \in BOOLEAN, NEW v, Fresh(k, i, tnt, v)
  PROVE  /\ v \in Worlds /\ ~v.e.started /\ v.e.fd = 0 /\ v.e.good = 0 /\ v.e.data = "null"
         /\ ~tnt => Without(i, v.fdt)
  <2> USE <1>FreshFacts
  <2>1. v \in Worlds /\ ~v.e.started /\ v.e.fd = 0 /\ v.e.good = 0 /\ v.e.data = "null"
    BY NewIs DEF Fresh, Legal
  <2>2. ASSUME ~tnt PROVE Without(i, v.fdt)
    <3>1. Found(k, i, v.e, v.fdt)
      BY <2>2 DEF Fresh, Legal, Confused
    <3>2. 0 \notin Fds
      BY TimesAssumption
    <3> QED
      BY <2>1, <3>1, <3>2 DEF Found, Without
  <2> QED
    BY <2>1, <2>2

\* MALLOC and open_sock().
<1>OpenedLive.
  ASSUME NEW k \in Kinds \ EchoKinds, NEW i \in Slots, NEW tnt \in BOOLEAN, NEW v,
         Fresh(k, i, tnt, v), FreeFds(Malloc(v)) # {}
  PROVE  Live(k, i, tnt, v, OpenSock(Malloc(v), i)) /\ OpenSock(Malloc(v), i).e.good = 0
  <2> USE <1>OpenedLive
  <2> DEFINE m == Malloc(v)
             o == OpenSock(m, i)
  <2>1. v \in Worlds /\ ~v.e.started /\ v.e.fd = 0 /\ v.e.good = 0
        /\ (~tnt => Without(i, v.fdt)) /\ v.e \in Entries
    BY SMTT(30), <1>FreshFacts DEF Worlds
  <2>2. m \in Worlds /\ Rest(m, v) /\ m.e = [v.e EXCEPT !.data = "held"]
    BY <2>1, <1>MallocIs
  <2>3. PICK f \in Fds :
             /\ m.fdt[f] = 0
             /\ o \in Worlds
             /\ o.e = [m.e EXCEPT !.fd = f]
             /\ o.fdt = [m.fdt EXCEPT ![f] = i]
             /\ o.helper = m.helper /\ o.icmp = m.icmp
             /\ o.harm = m.harm /\ o.up = m.up
    BY <2>2, <1>OpenSockIs
  <2>a. OpenSock(Malloc(v), i) = o
    OBVIOUS
  <2> HIDE DEF m, o
  <2>4. /\ m.fdt = v.fdt /\ o.icmp = v.icmp /\ o.harm = {} /\ o.up
        /\ m.e \in Entries /\ v.fdt \in Tables
    BY <2>1, <2>2, <2>3 DEF Rest, Fresh, Worlds
  <2>5. /\ m.e.started = v.e.started /\ m.e.age = v.e.age /\ m.e.retval = v.e.retval
        /\ m.e.st = v.e.st /\ m.e.good = v.e.good /\ m.e.data = "held"
    BY <2>1, <2>2 DEF Entries
  <2>6. /\ o.e.started = m.e.started /\ o.e.age = m.e.age /\ o.e.retval = m.e.retval
        /\ o.e.st = m.e.st /\ o.e.good = m.e.good /\ o.e.data = "held" /\ o.e.fd = f
    BY <2>3, <2>4, <2>5 DEF Entries
  <2>7. o.e.retval = "pending" /\ o.e.st = "CONNECT" /\ o.e.good = 0
    BY SMTT(30), <2>5, <2>6, NewIs DEF Fresh
  <2>8. o.fdt[f] = i /\ \A g \in Fds : g # f => o.fdt[g] = v.fdt[g]
    BY SMTT(30), <2>3, <2>4 DEF Tables
  <2>9. Earned(k, o.e, o.icmp) /\ Counted(k, o.e) /\ Holding(k, o.e)
    BY SMTT(30), <2>6, <2>7 DEF Earned, Counted, Holding, Level
  <2>10. ~tnt => Found(k, i, o.e, o.fdt)
    BY <2>1, <2>6, <2>8 DEF Found, Without
  <2>11. Safe(k, i, o.e, o.fdt)
    BY <2>6, <2>8 DEF Safe
  <2>12. Frame(i, v.fdt, o.fdt)
    BY <2>3, <2>4, <2>8 DEF Frame
  <2>13. Legal(k, i, tnt, v, o)
    BY <2>3, <2>4, <2>5, <2>6, <2>7, <2>9, <2>10, <2>11, <2>12 DEF Legal, Confused
  <2> QED
    BY <2>4, <2>6, <2>7, <2>13, <2>a DEF Live

<1>ReleasedIs.
  ASSUME NEW w \in Worlds, w.e.data = "held", NEW rv \in Retvals
  PROVE  /\ Released(w, rv, "freed", Free(Answer(w, rv)))
         /\ Released(w, rv, "null", Null(Free(Answer(w, rv))))
  <2> USE <1>ReleasedIs
  <2> DEFINE a == Answer(w, rv)
             x == Free(a)
             y == Null(x)
  <2>1. a \in Worlds /\ Rest(a, w) /\ a.e = [w.e EXCEPT !.retval = rv] /\ w.e \in Entries
    BY AnswerIs DEF Worlds
  <2>2. /\ a.e.started = w.e.started /\ a.e.age = w.e.age /\ a.e.retval = rv /\ a.e.fd = w.e.fd
        /\ a.e.data = "held" /\ a.e.good = w.e.good
    BY SMTT(30), <2>1 DEF Entries
  <2> HIDE DEF a
  <2>3. x \in Worlds /\ Rest(x, a) /\ x.e = Emptied(a.e) /\ a.e \in Entries
    BY <2>1, <2>2, <1>FreeIs DEF Worlds
  <2> HIDE DEF x
  <2>4. /\ x.e.started = a.e.started /\ x.e.age = a.e.age /\ x.e.retval = a.e.retval
        /\ x.e.fd = a.e.fd /\ x.e.data = "freed" /\ x.e.good = a.e.good /\ x.e.st = "CONNECT"
    BY SMTT(30), <2>3 DEF Entries, Emptied
  <2>5. y \in Worlds /\ Rest(y, x) /\ y.e = [x.e EXCEPT !.data = "null"] /\ x.e \in Entries
    BY <2>3, <1>NullIs DEF Worlds
  <2> HIDE DEF y
  <2>6. /\ y.e.started = x.e.started /\ y.e.age = x.e.age /\ y.e.retval = x.e.retval
        /\ y.e.fd = x.e.fd /\ y.e.data = "null" /\ y.e.good = x.e.good /\ y.e.st = "CONNECT"
    BY <2>4, <2>5 DEF Entries
  <2>7. Released(w, rv, "freed", x)
    BY SMTT(30), <2>1, <2>2, <2>3, <2>4 DEF Released, Rest
  <2>8. Released(w, rv, "null", y)
    BY SMTT(30), <2>1, <2>2, <2>3, <2>4, <2>5, <2>6 DEF Released, Rest
  <2> QED
    BY <2>7, <2>8 DEF a, x, y

\* A start that gives up before it has a descriptor.
<1>BareLegal.
  ASSUME NEW k \in Kinds, NEW i \in Slots, NEW tnt \in BOOLEAN, NEW v, Fresh(k, i, tnt, v),
         NEW rv \in Retvals \ {"OK"}, NEW d \in {"null", "freed"}, NEW x,
         Released(Malloc(v), rv, d, x), d = "freed" => k \in Dangles /\ rv # "pending"
  PROVE  Legal(k, i, tnt, v, x) /\ x.harm = {} /\ x.up
  <2> USE <1>BareLegal
  <2> DEFINE m == Malloc(v)
  <2>1. v \in Worlds /\ ~v.e.started /\ v.e.fd = 0 /\ v.e.good = 0
        /\ (~tnt => Without(i, v.fdt)) /\ v.e \in Entries
    BY SMTT(30), <1>FreshFacts DEF Worlds
  <2>2. m \in Worlds /\ Rest(m, v) /\ m.e = [v.e EXCEPT !.data = "held"]
    BY <2>1, <1>MallocIs
  <2>3. Released(m, rv, d, x)
    OBVIOUS
  <2> HIDE DEF m
  <2>4. m.e.started = v.e.started /\ m.e.age = v.e.age /\ m.e.fd = 0 /\ m.e.good = 0
    BY <2>1, <2>2 DEF Entries
  <2>5. /\ x \in Worlds /\ x.fdt = v.fdt /\ x.icmp = v.icmp /\ x.harm = {} /\ x.up
        /\ x.e.started = v.e.started /\ x.e.age = v.e.age /\ x.e.retval = rv
        /\ x.e.fd = 0 /\ x.e.data = d /\ x.e.good = 0 /\ x.e.st = "CONNECT"
    BY <2>2, <2>3, <2>4 DEF Released, Rest, Fresh
  <2>6. Earned(k, x.e, x.icmp) /\ Counted(k, x.e) /\ Holding(k, x.e)
    BY SMTT(30), <2>5 DEF Earned, Counted, Holding, Level
  <2>7. ~tnt => Found(k, i, x.e, x.fdt)
    BY <2>1, <2>5 DEF Found, Without
  <2>8. Safe(k, i, x.e, x.fdt) /\ Frame(i, v.fdt, x.fdt)
    BY <2>5 DEF Safe, Frame
  <2> QED
    BY <2>1, <2>5, <2>6, <2>7, <2>8 DEF Legal, Confused

\* A start that gives up with a descriptor, the name unknown.
<1>EarlyLegal.
  ASSUME NEW k \in Early, NEW i \in Slots, NEW tnt \in BOOLEAN, NEW v, NEW o,
         Fresh(k, i, tnt, v), Live(k, i, tnt, v, o), NEW d \in {"null", "freed"}, NEW x,
         Released(o, "NODNS", d, x), d = "freed" => k \in Dangles
  PROVE  Legal(k, i, tnt, v, x)
  <2> USE <1>EarlyLegal
  <2>1. /\ x \in Worlds /\ x.fdt = o.fdt /\ x.icmp = o.icmp /\ x.harm = {} /\ x.up
        /\ x.e.started = o.e.started /\ x.e.age = o.e.age /\ x.e.retval = "NODNS"
        /\ x.e.fd = o.e.fd /\ x.e.data = d /\ x.e.good = o.e.good /\ x.e.st = "CONNECT"
    BY DEF Released, Rest, Live
  <2>2. /\ o.e.started = v.e.started /\ o.e.age = v.e.age /\ o.icmp = v.icmp
        /\ o.e.data = "held" /\ o.e.good \in Nat
        /\ ~tnt => Found(k, i, o.e, o.fdt) /\ Safe(k, i, o.e, o.fdt) /\ Frame(i, v.fdt, o.fdt)
    BY DEF Live, Legal, Confused, Worlds, Entries
  <2>3. k \in Kinds \ EchoKinds /\ k # "snmp"
    BY DEF Early, Kinds, StreamKinds, DgramKinds, EchoKinds
  <2>a. x.e.good \in Nat /\ Level(x.e.st) = 0
    BY <2>1, <2>2 DEF Level
  <2>b. Earned(k, x.e, x.icmp)
    BY SMTT(30), <2>1, <2>a DEF Earned
  <2>c. Counted(k, x.e) /\ Holding(k, x.e)
    BY <2>1, <2>3 DEF Counted, Holding
  <2>4. Earned(k, x.e, x.icmp) /\ Counted(k, x.e) /\ Holding(k, x.e)
    BY <2>b, <2>c
  <2>5. ~tnt => Found(k, i, x.e, x.fdt) /\ Safe(k, i, x.e, x.fdt) /\ Frame(i, v.fdt, x.fdt)
    BY <2>1, <2>2, <2>3 DEF Found, Safe
  <2>6. ~v.e.started
    BY <1>FreshFacts
  <2> QED
    BY <2>1, <2>2, <2>4, <2>5, <2>6 DEF Legal, Confused

<1>MallocTable.
  ASSUME NEW v \in Worlds
  PROVE  FreeFds(Malloc(v)) = FreeFds(v) /\ Malloc(v) \in Worlds /\ Malloc(v).e.data = "held"
  <2> USE <1>MallocTable
  <2>1. Malloc(v) \in Worlds /\ Rest(Malloc(v), v) /\ Malloc(v).e = [v.e EXCEPT !.data = "held"]
        /\ v.e \in Entries
    BY <1>MallocIs DEF Worlds
  <2>2. Malloc(v).e.data = "held"
    BY SMTT(30), <2>1 DEF Entries
  <2> QED
    BY <2>1, <2>2 DEF Rest, FreeFds

\* The exits of a start that opens a descriptor first.
<1>OpeningLegal.
  ASSUME NEW k \in StreamKinds, NEW i \in Slots, NEW tnt \in BOOLEAN, NEW v,
         Fresh(k, i, tnt, v)
  PROVE  LET m == Malloc(v)
             o == OpenSock(m, i)
         IN  /\ Legal(k, i, tnt, v, Null(Free(Answer(m, "LAST"))))
             /\ k \in Dangles => Legal(k, i, tnt, v, Free(Answer(m, "LAST")))
             /\ FreeFds(v) # {} =>
                  /\ Legal(k, i, tnt, v, Null(Free(Answer(o, "NODNS"))))
                  /\ k \in Dangles => Legal(k, i, tnt, v, Free(Answer(o, "NODNS")))
                  /\ Legal(k, i, tnt, v, Active(o))
                  /\ \A x \in Refused(o, i) : Legal(k, i, tnt, v, x)
  <2> USE <1>OpeningLegal
  <2> DEFINE m == Malloc(v)
             o == OpenSock(m, i)
  <2>1. v \in Worlds /\ k \in Kinds /\ k \in Kinds \ EchoKinds /\ k # "snmp" /\ k \in Early
    BY <1>FreshFacts DEF Kinds, StreamKinds, DgramKinds, EchoKinds, Early
  <2>2. m \in Worlds /\ m.e.data = "held" /\ FreeFds(m) = FreeFds(v)
    BY <2>1, <1>MallocTable
  <2>3. /\ "LAST" \in Retvals /\ "LAST" \in Retvals \ {"OK"} /\ "LAST" # "pending"
        /\ "NODNS" \in Retvals /\ "null" \in {"null", "freed"} /\ "freed" \in {"null", "freed"}
        /\ "null" # "freed"
    BY DEF Retvals
  <2>4. /\ Released(Malloc(v), "LAST", "freed", Free(Answer(m, "LAST")))
        /\ Released(Malloc(v), "LAST", "null", Null(Free(Answer(m, "LAST"))))
    BY <2>2, <2>3, <1>ReleasedIs
  <2>5. Legal(k, i, tnt, v, Null(Free(Answer(m, "LAST"))))
    BY <2>1, <2>3, <2>4, <1>BareLegal
  <2>6. k \in Dangles => Legal(k, i, tnt, v, Free(Answer(m, "LAST")))
    BY <2>1, <2>3, <2>4, <1>BareLegal
  <2>7. ASSUME FreeFds(v) # {}
        PROVE  /\ Legal(k, i, tnt, v, Null(Free(Answer(o, "NODNS"))))
               /\ k \in Dangles => Legal(k, i, tnt, v, Free(Answer(o, "NODNS")))
               /\ Legal(k, i, tnt, v, Active(o))
               /\ \A x \in Refused(o, i) : Legal(k, i, tnt, v, x)
    <3>1. Live(k, i, tnt, v, o)
      BY <2>1, <2>2, <2>7, <1>OpenedLive
    <3> HIDE DEF o
    <3>2. o \in Worlds /\ o.e.data = "held"
      BY <3>1 DEF Live, Legal
    <3>3. /\ Released(o, "NODNS", "freed", Free(Answer(o, "NODNS")))
          /\ Released(o, "NODNS", "null", Null(Free(Answer(o, "NODNS"))))
      BY <2>3, <3>2, <1>ReleasedIs
    <3>4. Legal(k, i, tnt, v, Null(Free(Answer(o, "NODNS"))))
      BY <2>1, <2>3, <3>1, <3>3, <1>EarlyLegal
    <3>5. k \in Dangles => Legal(k, i, tnt, v, Free(Answer(o, "NODNS")))
      BY <2>1, <2>3, <3>1, <3>3, <1>EarlyLegal
    <3>6. Legal(k, i, tnt, v, Active(o))
      BY <2>1, <3>1, <1>LiveActive, <1>LiveIsLegal
    <3>7. \A x \in Refused(o, i) : Legal(k, i, tnt, v, x)
      BY <2>1, <3>1, <1>ErrnoFails, <1>LiveFails DEF Refused
    <3> QED
      BY <3>4, <3>5, <3>6, <3>7
  <2> QED
    BY <2>5, <2>6, <2>7

<1>StartStream.
  ASSUME NEW i \in Slots, NEW tnt \in BOOLEAN, NEW v
  PROVE  /\ Fresh("tcp", i, tnt, v) => \A x \in start_test_tcp(v, i) : Legal("tcp", i, tnt, v, x)
         /\ Fresh("smtp", i, tnt, v) => \A x \in start_test_smtp(v, i) : Legal("smtp", i, tnt, v, x)
         /\ Fresh("ssh", i, tnt, v) => \A x \in start_test_sshd(v, i) : Legal("ssh", i, tnt, v, x)
         /\ Fresh("www", i, tnt, v) => \A x \in start_test_www(v, i) : Legal("www", i, tnt, v, x)
         /\ Fresh("imap", i, tnt, v) => \A x \in start_test_imap(v, i) : Legal("imap", i, tnt, v, x)
         /\ Fresh("nntp", i, tnt, v) => \A x \in start_test_nntp(v, i) : Legal("nntp", i, tnt, v, x)
         /\ Fresh("pop3", i, tnt, v) => \A x \in start_test_pop3(v, i) : Legal("pop3", i, tnt, v, x)
         /\ Fresh("sysm", i, tnt, v) => \A x \in start_check_sysmon(v, i) : Legal("sysm", i, tnt, v, x)
         /\ Fresh("x500", i, tnt, v) => \A x \in start_test_x500(v, i) : Legal("x500", i, tnt, v, x)
  <2> USE <1>StartStream
  <2> DEFINE m == Malloc(v)
             o == OpenSock(m, i)
  <2>0. {"tcp", "smtp", "ssh", "www", "imap", "nntp", "pop3", "sysm", "x500"} \subseteq StreamKinds
        /\ "sysm" \in Dangles /\ "x500" \in Dangles
    BY DEF StreamKinds, Dangles
  <2>1. start_test_tcp(v, i) \subseteq
          IF FreeFds(v) = {} THEN {Null(Free(Answer(m, "LAST")))}
          ELSE {Null(Free(Answer(o, "NODNS"))), Active(o)} \cup Refused(o, i)
    BY DEF start_test_tcp, Opening, Cleared
  <2>2. /\ start_test_smtp(v, i) = start_test_tcp(v, i) /\ start_test_sshd(v, i) = start_test_tcp(v, i)
        /\ start_test_www(v, i) = start_test_tcp(v, i) /\ start_test_imap(v, i) = start_test_tcp(v, i)
        /\ start_test_nntp(v, i) = start_test_tcp(v, i)
    BY DEF start_test_tcp, start_test_smtp, start_test_sshd, start_test_www, start_test_imap,
       start_test_nntp
  <2>3. start_check_sysmon(v, i) \subseteq
          IF FreeFds(v) = {} THEN {Free(Answer(m, "LAST"))}
          ELSE {Free(Answer(o, "NODNS")), Active(o)} \cup Refused(o, i)
    BY DEF start_check_sysmon, Opening, Dangling
  <2>4. start_test_x500(v, i) = start_check_sysmon(v, i)
    BY DEF start_check_sysmon, start_test_x500
  <2>5. start_test_pop3(v, i) \subseteq
          IF FreeFds(v) = {} THEN {Null(Free(Answer(m, "LAST")))}
          ELSE {Null(Free(Answer(o, "NODNS"))), Active(o)}
    BY DEF start_test_pop3, Opening, Cleared
  <2>6. \A k \in StreamKinds : Fresh(k, i, tnt, v) =>
           /\ Legal(k, i, tnt, v, Null(Free(Answer(m, "LAST"))))
           /\ k \in Dangles => Legal(k, i, tnt, v, Free(Answer(m, "LAST")))
           /\ FreeFds(v) # {} =>
                /\ Legal(k, i, tnt, v, Null(Free(Answer(o, "NODNS"))))
                /\ k \in Dangles => Legal(k, i, tnt, v, Free(Answer(o, "NODNS")))
                /\ Legal(k, i, tnt, v, Active(o))
                /\ \A x \in Refused(o, i) : Legal(k, i, tnt, v, x)
    BY <1>OpeningLegal
  <2> HIDE DEF m, o
  <2>7. \A k \in StreamKinds : Fresh(k, i, tnt, v) =>
           /\ \A x \in start_test_tcp(v, i) : Legal(k, i, tnt, v, x)
           /\ \A x \in start_test_pop3(v, i) : Legal(k, i, tnt, v, x)
           /\ k \in Dangles => \A x \in start_check_sysmon(v, i) : Legal(k, i, tnt, v, x)
    BY <2>1, <2>3, <2>5, <2>6
  <2> QED
    BY <2>0, <2>2, <2>4, <2>7

(***************************************************************************)
(* The stops.                                                              *)
(***************************************************************************)

\* close() and FREE() of what there is.
<1>CloseFree.
  ASSUME NEW w \in Worlds, NEW i \in Slots, w.e.data # "null"
  PROVE  Ended(w, i, w.e.retval, "null", Null(Free(Close(w, i))))
  <2> USE <1>CloseFree
  <2>1. w.e.retval \in Retvals /\ w.e \in Entries
    BY DEF Worlds, Entries
  <2>2. Answer(w, w.e.retval) = w
    <3>1. [w.e EXCEPT !.retval = w.e.retval] = w.e
      BY <2>1 DEF Entries
    <3> QED
      BY <3>1 DEF Answer, Worlds
  <2>3. Finish(w, i, w.e.retval) = Null(Free(Close(w, i)))
    BY <2>2 DEF Finish
  <2> QED
    BY <2>1, <2>3, <1>FinishIs

\* udp and snmp also reset filedes.
<1>EndedForgotten.
  ASSUME NEW w \in Worlds, NEW i \in Slots, NEW rv, NEW x, Ended(w, i, rv, "null", x)
  PROVE  Ended(w, i, rv, "null", Forget(x)) /\ Forget(x).e.fd = 0
  <2> USE <1>EndedForgotten
  <2> DEFINE y == Forget(x)
  <2>1. x \in Worlds /\ x.e \in Entries
    BY DEF Ended, Worlds
  <2>2. y \in Worlds /\ Rest(y, x) /\ y.e = [x.e EXCEPT !.fd = 0]
    BY <2>1, <1>ForgetIs
  <2> HIDE DEF y
  <2>3. /\ y.e.started = x.e.started /\ y.e.age = x.e.age /\ y.e.retval = x.e.retval
        /\ y.e.fd = 0 /\ y.e.good = x.e.good /\ y.e.st = x.e.st /\ y.e.data = x.e.data
    BY SMTT(30), <2>1, <2>2 DEF Entries
  <2>4. Ended(w, i, rv, "null", y)
    BY <2>2, <2>3 DEF Ended, Rest
  <2> QED
    BY <2>3, <2>4 DEF y

\* stop_check_sysmon() frees first, and closes in any case.
<1>StopSysmonIs.
  ASSUME NEW w \in Worlds, NEW i \in Slots
  PROVE  Ended(w, i, w.e.retval, "null", stop_check_sysmon(w, i))
  <2> USE <1>StopSysmonIs
  <2> DEFINE u == IF w.e.data = "null" THEN w ELSE Free(w)
             c == Close(u, i)
             x == Null(c)
  <2>1. w.e \in Entries /\ w.e.data \in {"null", "held", "freed"}
    BY DEF Worlds, Entries
  <2>2. /\ u \in Worlds /\ u.fdt = w.fdt /\ u.icmp = w.icmp /\ u.up = w.up
        /\ u.harm = w.harm \cup (IF w.e.data = "freed" THEN {"doublefree"} ELSE {})
        /\ u.e = IF w.e.data = "held" THEN Emptied(w.e) ELSE w.e
    <3>1. CASE w.e.data = "null"
      BY <3>1
    <3>2. CASE w.e.data = "held"
      BY <3>2, <1>FreeIs DEF Rest
    <3>3. CASE w.e.data = "freed"
      BY <3>3, <1>FreeIs
    <3> QED
      BY <2>1, <3>1, <3>2, <3>3
  <2> HIDE DEF u
  <2>3. /\ u.e.started = w.e.started /\ u.e.age = w.e.age /\ u.e.retval = w.e.retval
        /\ u.e.fd = w.e.fd /\ u.e.good = w.e.good
        /\ u.e.st \in {"CONNECT", w.e.st} /\ (w.e.data = "held" => u.e.st = "CONNECT")
    BY SMTT(30), <2>1, <2>2 DEF Entries, Emptied
  <2>4. CloseHarm(u, i) = CloseHarm(w, i)
    BY <2>2, <2>3 DEF CloseHarm
  <2>5. /\ c \in Worlds /\ c.e = u.e /\ c.icmp = u.icmp /\ c.up = u.up
        /\ \A f \in Fds : c.fdt[f] = IF f = u.e.fd THEN 0 ELSE u.fdt[f]
        /\ c.harm = u.harm \cup CloseHarm(u, i)
    BY SMTT(30), <2>2, <1>CloseIs
  <2> HIDE DEF c
  <2>6. x \in Worlds /\ Rest(x, c) /\ x.e = [c.e EXCEPT !.data = "null"] /\ c.e \in Entries
    BY <2>5, <1>NullIs DEF Worlds
  <2> HIDE DEF x
  <2>7. /\ x.e.started = c.e.started /\ x.e.age = c.e.age /\ x.e.retval = c.e.retval
        /\ x.e.fd = c.e.fd /\ x.e.good = c.e.good /\ x.e.st = c.e.st /\ x.e.data = "null"
    BY SMTT(30), <2>6 DEF Entries
  <2>8. Shut(w, x.fdt)
    BY SMTT(30), <2>2, <2>3, <2>5, <2>6 DEF Shut, Rest
  <2>9. x.harm = w.harm \cup CloseHarm(w, i)
                   \cup (IF w.e.data = "freed" THEN {"doublefree"} ELSE {})
    BY <2>2, <2>4, <2>5, <2>6 DEF Rest
  <2>10. Ended(w, i, w.e.retval, "null", x)
    BY SMTT(30), <2>2, <2>3, <2>5, <2>6, <2>7, <2>8, <2>9 DEF Ended, Rest
  <2> QED
    BY <2>10 DEF stop_check_sysmon, x, c, u

\* stop_check_dns() closes first.
<1>StopDnsIs.
  ASSUME NEW w \in Worlds, NEW i \in Slots
  PROVE  Ended(w, i, w.e.retval, "null", stop_check_dns(w, i))
  <2> USE <1>StopDnsIs
  <2>1. w.e \in Entries /\ Close(w, i).e = w.e
    BY <1>CloseIs DEF Worlds
  <2>2. CASE w.e.data # "null"
    <3>1. stop_check_dns(w, i) = Null(Free(Close(w, i)))
      BY <2>1, <2>2 DEF stop_check_dns
    <3> QED
      BY <2>2, <3>1, <1>CloseFree
  <2>3. CASE w.e.data = "null"
    <3> DEFINE x == Close(w, i)
    <3>1. stop_check_dns(w, i) = x
      BY <2>1, <2>3 DEF stop_check_dns
    <3>2. /\ x \in Worlds /\ x.e = w.e /\ x.harm = w.harm \cup CloseHarm(w, i)
          /\ \A f \in Fds : x.fdt[f] = IF f = w.e.fd THEN 0 ELSE w.fdt[f]
          /\ x.icmp = w.icmp /\ x.up = w.up
      BY <1>CloseIs
    <3> HIDE DEF x
    <3>3. Ended(w, i, w.e.retval, "null", x)
      BY <2>3, <3>2 DEF Ended, Shut
    <3> QED
      BY <3>1, <3>3
  <2> QED
    BY <2>2, <2>3

\* stop_test_snmp() resets filedes between close() and FREE().
<1>StopSnmpIs.
  ASSUME NEW w \in Worlds, NEW i \in Slots
  PROVE  Ended(w, i, w.e.retval, "null", stop_test_snmp(w, i)) /\ stop_test_snmp(w, i).e.fd = 0
  <2> USE <1>StopSnmpIs
  <2> DEFINE c == IF w.e.fd = 0 THEN w ELSE Forget(Close(w, i))
             z == IF c.e.data = "null" THEN c ELSE Free(c)
             x == IF c.e.data = "null" THEN c ELSE Null(Free(c))
  <2>1. w.e \in Entries /\ w.e.data \in {"null", "held", "freed"}
    BY DEF Worlds, Entries
  <2>2. /\ c \in Worlds /\ c.icmp = w.icmp /\ c.up = w.up /\ Shut(w, c.fdt)
        /\ c.harm = w.harm \cup CloseHarm(w, i) /\ c.e = [w.e EXCEPT !.fd = 0]
    <3>1. CASE w.e.fd = 0
      <4>1. [w.e EXCEPT !.fd = 0] = w.e
        BY <2>1, <3>1 DEF Entries
      <4>2. 0 \notin Fds
        BY TimesAssumption
      <4> QED
        BY <3>1, <4>1, <4>2 DEF Shut, CloseHarm
    <3>2. CASE w.e.fd # 0
      <4> DEFINE d == Close(w, i)
      <4>1. /\ d \in Worlds /\ d.e = w.e /\ d.harm = w.harm \cup CloseHarm(w, i)
            /\ \A f \in Fds : d.fdt[f] = IF f = w.e.fd THEN 0 ELSE w.fdt[f]
            /\ d.icmp = w.icmp /\ d.up = w.up
        BY <1>CloseIs
      <4>2. c = Forget(d)
        BY <3>2
      <4> HIDE DEF d, c
      <4>3. Forget(d) \in Worlds /\ Rest(Forget(d), d) /\ Forget(d).e = [d.e EXCEPT !.fd = 0]
        BY <4>1, <1>ForgetIs
      <4> QED
        BY <4>1, <4>2, <4>3 DEF Rest, Shut
    <3> QED
      BY <3>1, <3>2
  <2> HIDE DEF c
  <2>3. /\ c.e \in Entries /\ c.e.started = w.e.started /\ c.e.age = w.e.age
        /\ c.e.retval = w.e.retval /\ c.e.fd = 0 /\ c.e.good = w.e.good
        /\ c.e.st = w.e.st /\ c.e.data = w.e.data
    BY <2>1, <2>2 DEF Entries, Worlds
  <2>4. /\ z \in Worlds /\ z.fdt = c.fdt /\ z.icmp = c.icmp /\ z.up = c.up
        /\ z.harm = c.harm \cup (IF c.e.data = "freed" THEN {"doublefree"} ELSE {})
        /\ z.e = IF c.e.data = "held" THEN Emptied(c.e) ELSE c.e
    <3>1. CASE c.e.data = "null"
      BY <2>2, <3>1
    <3>2. CASE c.e.data = "held"
      BY <2>2, <3>2, <1>FreeIs DEF Rest
    <3>3. CASE c.e.data = "freed"
      BY <2>2, <3>3, <1>FreeIs
    <3> QED
      BY <2>1, <2>3, <3>1, <3>2, <3>3
  <2>5. x = IF c.e.data = "null" THEN z ELSE Null(z)
    OBVIOUS
  <2>6. stop_test_snmp(w, i) = x
    BY DEF stop_test_snmp, c
  <2> HIDE DEF x, z
  <2>7. /\ z.e \in Entries /\ z.e.started = c.e.started /\ z.e.age = c.e.age
        /\ z.e.retval = c.e.retval /\ z.e.fd = 0 /\ z.e.good = c.e.good
        /\ z.e.st \in {"CONNECT", c.e.st} /\ (c.e.data = "held" => z.e.st = "CONNECT")
        /\ (c.e.data = "null" => z.e.data = "null")
    <3>1. z.e \in Entries
      BY <2>4 DEF Worlds
    <3>2. CASE c.e.data = "held"
      <4>1. z.e = Emptied(c.e)
        BY <2>4, <3>2
      <4>2. /\ Emptied(c.e).started = c.e.started /\ Emptied(c.e).age = c.e.age
            /\ Emptied(c.e).retval = c.e.retval
        BY <2>3 DEF Entries, Emptied
      <4>3. Emptied(c.e).fd = c.e.fd /\ Emptied(c.e).good = c.e.good
        BY <2>3 DEF Entries, Emptied
      <4>4. Emptied(c.e).st = "CONNECT" /\ Emptied(c.e).data = "freed"
        BY <2>3 DEF Entries, Emptied
      <4> QED
        BY <2>3, <3>1, <3>2, <4>1, <4>2, <4>3, <4>4
    <3>3. CASE c.e.data # "held"
      <4>1. z.e = c.e
        BY <2>4, <3>3
      <4> QED
        BY <2>3, <3>1, <3>3, <4>1
    <3> QED
      BY <3>2, <3>3
  <2>8. Null(z) \in Worlds /\ Rest(Null(z), z) /\ Null(z).e = [z.e EXCEPT !.data = "null"]
    BY <2>4, <1>NullIs
  <2>9. /\ x \in Worlds /\ Rest(x, z) /\ x.e.started = z.e.started /\ x.e.age = z.e.age
        /\ x.e.retval = z.e.retval /\ x.e.fd = 0 /\ x.e.good = z.e.good /\ x.e.st = z.e.st
        /\ x.e.data = "null"
    <3>1. CASE c.e.data = "null"
      BY <2>4, <2>5, <2>7, <3>1 DEF Rest
    <3>2. CASE c.e.data # "null"
      BY <2>5, <2>7, <2>8, <3>2 DEF Entries
    <3> QED
      BY <3>1, <3>2
  <2>10. Ended(w, i, w.e.retval, "null", x)
    BY SMTT(30), <2>2, <2>3, <2>4, <2>7, <2>9 DEF Ended, Rest, Shut
  <2> QED
    BY <2>6, <2>9, <2>10

<1>HarmKnown.
  /\ \A k \in {"radius", "dns"}, h \in Harms : <<k, h>> \in KnownHarm
  /\ \A h \in {"doublefree", "badclose", "stolen"} : <<"sysm", h>> \in KnownHarm
  /\ \A k \in Dangles : <<k, "doublefree">> \in KnownHarm
  BY DEF Harms, KnownHarm, Dangles

\* A stop leaves a legal world legal, and the object without a descriptor.
<1>StopLegal.
  ASSUME NEW k \in Kinds, NEW i \in Slots, NEW tnt \in BOOLEAN, NEW v, NEW x,
         Legal(k, i, tnt, v, v), v.harm = {}, v.up,
         Ended(v, i, v.e.retval, "null", x), k = "snmp" => x.e.fd = 0,
         v.e.data # "null" \/ v.e.fd = 0 \/ k \in Blind
  PROVE  /\ Legal(k, i, tnt, v, x) /\ x.e.data = "null" /\ x.e.retval = v.e.retval /\ x.up
         /\ ~Confused(tnt, x) => Without(i, x.fdt)
  <2> USE <1>StopLegal
  <2>1. /\ v \in Worlds /\ v.e \in Entries /\ v.e.data \in {"null", "held", "freed"}
        /\ v.e.good \in Nat /\ Earned(k, v.e, v.icmp) /\ Counted(k, v.e) /\ Holding(k, v.e)
    BY DEF Legal, Worlds, Entries
  <2>2. /\ x \in Worlds
        /\ x.e.started = v.e.started /\ x.e.age = v.e.age /\ x.e.retval = v.e.retval
        /\ x.e.fd \in {v.e.fd, 0} /\ x.e.data = "null" /\ x.e.good = v.e.good
        /\ x.e.st \in {"CONNECT", v.e.st} /\ Shut(v, x.fdt) /\ x.icmp = v.icmp /\ x.up
        /\ x.harm = CloseHarm(v, i) \cup (IF v.e.data = "freed" THEN {"doublefree"} ELSE {})
    BY DEF Ended
  <2>3. Earned(k, x.e, x.icmp) /\ Counted(k, x.e) /\ Holding(k, x.e)
    BY SMTT(30), <2>1, <2>2 DEF Earned, Counted, Holding, Level
  <2>4. ASSUME ~tnt, k \notin Blind PROVE CloseHarm(v, i) = {}
    <3>1. Safe(k, i, v.e, v.fdt)
      BY <2>4 DEF Legal, Confused
    <3>2. CASE v.e.fd = 0
      BY <3>2 DEF CloseHarm
    <3>3. CASE v.e.fd # 0
      <4>1. k \notin EchoKinds /\ v.e.data # "null"
        BY <2>1, <2>4, <3>3 DEF Counted
      <4>2. v.fdt[v.e.fd] = i
        BY <2>1, <2>4, <3>1, <3>3, <4>1 DEF Safe, Holding, Blind
      <4> QED
        BY <4>2 DEF CloseHarm
    <3> QED
      BY <3>2, <3>3
  <2>5. ASSUME ~tnt, NEW h \in x.harm PROVE <<k, h>> \in KnownHarm
    <3>1. h \in {"badclose", "stolen"} \/ (h = "doublefree" /\ v.e.data = "freed")
      BY <2>2 DEF CloseHarm
    <3>2. CASE k \in Blind
      BY <3>1, <3>2, <1>HarmKnown DEF Blind, Harms
    <3>3. CASE k \notin Blind
      <4>1. h = "doublefree" /\ v.e.data = "freed"
        BY <2>2, <2>4, <2>5, <3>1, <3>3
      <4>2. k \in Dangles
        BY <2>1, <3>3, <4>1 DEF Holding, Blind
      <4> QED
        BY <4>1, <4>2, <1>HarmKnown
    <3> QED
      BY <3>2, <3>3
  <2>6. ASSUME ~Confused(tnt, x) PROVE Without(i, x.fdt) /\ Frame(i, v.fdt, x.fdt)
    <3>1. Found(k, i, v.e, v.fdt) /\ Frame(i, v.fdt, v.fdt)
      BY <2>6 DEF Legal, Confused
    <3>2. "stolen" \notin CloseHarm(v, i)
      BY <2>2, <2>6 DEF Confused, Confusing
    <3> QED
      BY <2>1, <2>2, <3>1, <3>2, <1>ClosedTable
  <2>7. Safe(k, i, x.e, x.fdt)
    BY <2>2 DEF Safe
  <2>8. Legal(k, i, tnt, v, x)
    BY <2>2, <2>3, <2>5, <2>6, <2>7 DEF Legal, Found, Without
  <2> QED
    BY <2>2, <2>6, <2>8

\* Each stop is one of these.  What has no data is left alone, but for a
\* descriptor that dns, snmp and sysmon close without looking.
<1>StopIs.
  ASSUME NEW w \in Worlds, NEW i \in Slots, kind[i] \in Kinds,
         kind[i] \in EchoKinds => w.e.fd = 0
  PROVE  \/ stop_this(w, i) = w /\ w.e.data = "null"
         \/ /\ Ended(w, i, w.e.retval, "null", stop_this(w, i))
            /\ kind[i] = "snmp" => stop_this(w, i).e.fd = 0
            /\ w.e.data # "null" \/ kind[i] \in {"dns", "snmp", "sysm"}
  <2> USE <1>StopIs
  <2> DEFINE k == kind[i]
             x == stop_this(w, i)
  <2>1. ASSUME w.e.data # "null" PROVE Ended(w, i, w.e.retval, "null", Null(Free(Close(w, i))))
    BY <2>1, <1>CloseFree
  <2>2. CASE k \in StreamKinds \ {"sysm"} \/ k = "radius"
    <3>1. x = IF w.e.data = "null" THEN w ELSE Null(Free(Close(w, i)))
      BY <2>2 DEF StreamKinds, stop_this, stop_test_tcp, stop_test_smtp, stop_test_sshd,
         stop_test_www, stop_test_pop3, stop_test_imap, stop_test_nntp, stop_test_x500, Stop,
         stop_check_radius
    <3>2. k # "snmp"
      BY <2>2 DEF StreamKinds
    <3> QED
      BY <2>1, <3>1, <3>2
  <2>3. CASE k = "sysm"
    BY <2>3, <1>StopSysmonIs DEF stop_this
  <2>4. CASE k = "dns"
    BY <2>4, <1>StopDnsIs DEF stop_this
  <2>5. CASE k = "snmp"
    BY <2>5, <1>StopSnmpIs DEF stop_this
  <2>6. CASE k = "udp"
    <3>1. x = IF w.e.data = "null" THEN w ELSE Forget(Null(Free(Close(w, i))))
      BY <2>6 DEF stop_this, stop_test_udp
    <3> QED
      BY <2>1, <2>6, <3>1, <1>EndedForgotten
  <2>7. CASE k \in EchoKinds
    <3>1. x = IF w.e.data = "null" THEN w ELSE Null(Free(w))
      BY <2>7 DEF EchoKinds, stop_this, stop_test_ping, stop_test_pktloss, stop_test_rtt,
         stop_test_pingv6, Stopped
    <3>2. Close(w, i) = w
      BY <2>7 DEF Close
    <3>3. k # "snmp"
      BY <2>7 DEF EchoKinds
    <3> QED
      BY <2>1, <3>1, <3>2, <3>3
  <2> QED
    BY <2>2, <2>3, <2>4, <2>5, <2>6, <2>7 DEF Kinds, StreamKinds, DgramKinds, EchoKinds

\* Stopping the check of i, whatever it is.
<1>StopThis.
  ASSUME NEW i \in Slots, kind[i] \in Kinds, NEW tnt \in BOOLEAN, NEW v,
         Legal(kind[i], i, tnt, v, v), v.harm = {}, v.up
  PROVE  LET x == stop_this(v, i)
         IN  /\ Legal(kind[i], i, tnt, v, x) /\ x.e.data = "null" /\ x.up
             /\ x.e.retval = v.e.retval
             /\ v.e.retval # "NODNS" /\ ~Confused(tnt, x) => Without(i, x.fdt)
  <2> USE <1>StopThis
  <2> DEFINE k == kind[i]
             x == stop_this(v, i)
  <2>1. v \in Worlds /\ Counted(k, v.e) /\ Holding(k, v.e)
    BY DEF Legal
  <2>2. CASE x = v /\ v.e.data = "null"
    <3>1. ASSUME v.e.retval # "NODNS", ~Confused(tnt, v) PROVE Without(i, v.fdt)
      <4>1. Found(k, i, v.e, v.fdt)
        BY <3>1 DEF Legal
      <4> QED
        BY <2>2, <3>1, <4>1 DEF Found, Without
    <3> QED
      BY <2>2, <3>1
  <2>3. CASE /\ Ended(v, i, v.e.retval, "null", x)
             /\ k = "snmp" => x.e.fd = 0
             /\ v.e.data # "null" \/ k \in {"dns", "snmp", "sysm"}
    <3>1. v.e.data # "null" \/ v.e.fd = 0 \/ k \in Blind
      BY <2>1, <2>3 DEF Holding, Blind
    <3> HIDE DEF x, k
    <3>2. k \in Kinds /\ Legal(k, i, tnt, v, v)
      BY DEF k
    <3>3. /\ Legal(k, i, tnt, v, x) /\ x.e.data = "null" /\ x.e.retval = v.e.retval /\ x.up
          /\ ~Confused(tnt, x) => Without(i, x.fdt)
      BY SMTT(30), <2>3, <3>1, <3>2, <1>StopLegal
    <3> QED
      BY <3>3 DEF x, k
  <2> QED
    BY <2>1, <2>2, <2>3, <1>StopIs DEF Counted

(***************************************************************************)
(* The datagram checks.                                                    *)
(***************************************************************************)

<1>SentIs.
  ASSUME NEW w \in Worlds
  PROVE  /\ Sent(w) = [Active(w) EXCEPT !.e.n = w.e.n + 1] /\ w.e.n + 1 \in Nat
         /\ Sent(w) \in Worlds /\ Rest(Sent(w), w)
         /\ Sent(w).e = [w.e EXCEPT !.idle = 0, !.n = w.e.n + 1]
  <2> USE <1>SentIs
  <2> DEFINE a == Active(w)
  <2>1. a \in Worlds /\ Rest(a, w) /\ a.e = [w.e EXCEPT !.idle = 0] /\ w.e \in Entries
        /\ w.e.n \in Nat
    BY <1>ActiveIs DEF Worlds, Entries
  <2>2. Sent(w) = [a EXCEPT !.e.n = a.e.n + 1]
    BY DEF Sent
  <2> HIDE DEF a
  <2>3. a.e.n = w.e.n /\ w.e.n + 1 \in Nat /\ a.e \in Entries
    <3>1. a.e \in Entries
      BY <2>1 DEF Worlds
    <3>2. a.e.n = w.e.n
      BY <2>1 DEF Entries
    <3> QED
      BY SMTT(30), <2>1, <3>1, <3>2
  <2>4. [a.e EXCEPT !.n = w.e.n + 1] \in Entries
    BY <2>3 DEF Entries
  <2>5. Sent(w) = [a EXCEPT !.e = [a.e EXCEPT !.n = w.e.n + 1]]
    BY <2>1, <2>2, <2>3 DEF Worlds
  <2>6. Sent(w) \in Worlds /\ Rest(Sent(w), w) /\ Sent(w).e = [a.e EXCEPT !.n = w.e.n + 1]
    BY <2>1, <2>4, <2>5 DEF Worlds, Rest
  <2>7. [a.e EXCEPT !.n = w.e.n + 1] = [w.e EXCEPT !.idle = 0, !.n = w.e.n + 1]
    BY <2>1 DEF Entries
  <2> QED
    BY <2>2, <2>3, <2>6, <2>7 DEF a

<1>LiveSent.
  ASSUME NEW k \in Kinds \ EchoKinds, NEW i \in Slots, NEW tnt \in BOOLEAN, NEW v, NEW w,
         Live(k, i, tnt, v, w)
  PROVE  Live(k, i, tnt, v, Sent(w)) /\ Sent(w).e.good = w.e.good
  <2> USE <1>LiveSent
  <2>1. w \in Worlds
    BY DEF Live, Legal
  <2>2. Sent(w) = [Active(w) EXCEPT !.e.n = w.e.n + 1] /\ w.e.n + 1 \in Nat
    BY <2>1, <1>SentIs
  <2>3. \A c \in Nat : /\ Live(k, i, tnt, v, [Active(w) EXCEPT !.e.n = c])
                      /\ [Active(w) EXCEPT !.e.n = c].e.good = w.e.good
    BY SMTT(30), <1>LiveActive
  <2> QED
    BY <2>2, <2>3

\* A start that gives up at once.
<1>PlainLegal.
  ASSUME NEW k \in Kinds, NEW i \in Slots, NEW tnt \in BOOLEAN, NEW v, Fresh(k, i, tnt, v),
         NEW rv \in Retvals, rv = "OK" => k \in EchoKinds /\ ~v.icmp
  PROVE  Legal(k, i, tnt, v, Answer(v, rv))
  <2> USE <1>PlainLegal
  <2> DEFINE x == Answer(v, rv)
  <2>1. v \in Worlds /\ v.e \in Entries /\ ~v.e.started /\ v.e.fd = 0 /\ v.e.good = 0
        /\ v.e.data = "null" /\ (~tnt => Without(i, v.fdt)) /\ v.e.st = "CONNECT"
    BY SMTT(30), <1>FreshFacts, NewIs DEF Worlds, Fresh
  <2>2. x \in Worlds /\ Rest(x, v) /\ x.e = [v.e EXCEPT !.retval = rv]
    BY <2>1, AnswerIs
  <2> HIDE DEF x
  <2>3. /\ x.e.started = v.e.started /\ x.e.age = v.e.age /\ x.e.retval = rv
        /\ x.e.fd = 0 /\ x.e.good = 0 /\ x.e.st = "CONNECT" /\ x.e.data = "null"
    BY <2>1, <2>2 DEF Entries
  <2>4. x.icmp = v.icmp /\ x.fdt = v.fdt /\ x.harm = {}
    BY <2>2 DEF Rest, Fresh
  <2>5. Earned(k, x.e, x.icmp) /\ Counted(k, x.e) /\ Holding(k, x.e)
    BY SMTT(30), <2>3, <2>4 DEF Earned, Counted, Holding, Level
  <2>6. ~tnt => Found(k, i, x.e, x.fdt)
    BY <2>1, <2>4 DEF Found, Without
  <2>7. Safe(k, i, x.e, x.fdt) /\ Frame(i, v.fdt, x.fdt)
    BY <2>3, <2>4 DEF Safe, Frame
  <2>8. Legal(k, i, tnt, v, x)
    BY <2>1, <2>2, <2>3, <2>4, <2>5, <2>6, <2>7 DEF Legal, Confused
  <2> QED
    BY <2>8 DEF x

\* udp_open_sock() without a descriptor: ABORT().
<1>AbortLegal.
  ASSUME NEW k \in DgramKinds, NEW i \in Slots, NEW tnt \in BOOLEAN, NEW v, Fresh(k, i, tnt, v)
  PROVE  Legal(k, i, tnt, v, [Malloc(v) EXCEPT !.up = FALSE])
  <2> USE <1>AbortLegal
  <2> DEFINE m == Malloc(v)
             x == [m EXCEPT !.up = FALSE]
  <2>1. v \in Worlds /\ v.e \in Entries /\ ~v.e.started /\ v.e.fd = 0 /\ v.e.good = 0
        /\ (~tnt => Without(i, v.fdt)) /\ v.e.retval = "pending" /\ v.e.st = "CONNECT"
    BY SMTT(30), <1>FreshFacts, NewIs DEF Worlds, Fresh
  <2>2. m \in Worlds /\ Rest(m, v) /\ m.e = [v.e EXCEPT !.data = "held"]
    BY <2>1, <1>MallocIs
  <2> HIDE DEF m
  <2>3. /\ x \in Worlds /\ x.e = m.e /\ x.fdt = v.fdt /\ x.icmp = v.icmp /\ x.harm = {}
        /\ ~x.up
    BY <2>2 DEF Worlds, Rest, Fresh
  <2> HIDE DEF x
  <2>4. /\ x.e.started = v.e.started /\ x.e.age = v.e.age /\ x.e.retval = "pending"
        /\ x.e.fd = 0 /\ x.e.good = 0 /\ x.e.st = "CONNECT" /\ x.e.data = "held"
    BY SMTT(30), <2>1, <2>2, <2>3 DEF Entries
  <2>5. k \notin EchoKinds
    BY DEF DgramKinds, EchoKinds
  <2>6. Earned(k, x.e, x.icmp) /\ Counted(k, x.e) /\ Holding(k, x.e)
    BY SMTT(30), <2>4, <2>5 DEF Earned, Counted, Holding, Level
  <2>7. ~tnt => Found(k, i, x.e, x.fdt)
    BY <2>1, <2>3 DEF Found, Without
  <2>8. Frame(i, v.fdt, x.fdt)
    BY <2>3 DEF Frame
  <2>9. Legal(k, i, tnt, v, x)
    BY <2>1, <2>3, <2>4, <2>6, <2>7, <2>8 DEF Legal, Confused
  <2> QED
    BY <2>9 DEF x, m

\* The end of a udp check.
<1>LiveUdpEnds.
  ASSUME NEW i \in Slots, NEW tnt \in BOOLEAN, NEW v \in Worlds, NEW w,
         Live("udp", i, tnt, v, w), NEW rv \in Retvals \ {"NODNS"}, rv = "OK" => w.e.good >= 1
  PROVE  Legal("udp", i, tnt, v, Forget(Finish(w, i, rv)))
  <2> USE <1>LiveUdpEnds
  <2>1. w \in Worlds /\ w.e.data # "null" /\ rv \in Retvals
    BY DEF Live, Legal
  <2>2. Ended(w, i, rv, "null", Forget(Finish(w, i, rv)))
    BY <2>1, <1>FinishIs, <1>EndedForgotten
  <2>3. "null" \in {"null", "freed"} /\ "null" # "freed" /\ "udp" \in Kinds \ EchoKinds
        /\ Needed["udp"] = 1 /\ "udp" # "snmp"
    BY DEF Kinds, DgramKinds, EchoKinds, Needed
  <2> QED
    BY SMTT(30), <2>2, <2>3, <1>LiveEnded

<1>ServiceUdp.
  ASSUME NEW i \in Slots, NEW tnt \in BOOLEAN, NEW v \in Worlds, Live("udp", i, tnt, v, v)
  PROVE  \A x \in service_test_udp(v, i) : Legal("udp", i, tnt, v, x)
  <2> USE <1>ServiceUdp
  <2> DEFINE end(x, rv) == Forget(Finish(x, i, rv))
             timed(x)   == IF x.e.age >= Globtimeout THEN end(x, "TIMEDOUT") ELSE x
             out        == Sent(v)
             sent(x)    == IF out.e.n >= MaxTries THEN end(out, "TIMEDOUT") ELSE x
             L(x) == Legal("udp", i, tnt, v, x)
  <2>1. "udp" \in Kinds \ EchoKinds /\ "TIMEDOUT" \in Retvals \ {"NODNS"} /\ "TIMEDOUT" # "OK"
        /\ "OK" \in Retvals \ {"NODNS"} /\ "CONNECT" \in States /\ Level("CONNECT") = 0
    BY DEF Kinds, DgramKinds, EchoKinds, Retvals, States, Level
  <2>2. v.e.good \in Nat
    BY <1>LiveLevel
  <2>3. Live("udp", i, tnt, v, Hear(v, "CONNECT")) /\ Hear(v, "CONNECT").e.good = v.e.good + 1
    BY SMTT(30), <2>1, <2>2, <1>LiveHear
  <2>4. L(end(Hear(v, "CONNECT"), "OK"))
    BY SMTT(30), <2>1, <2>2, <2>3, <1>LiveUdpEnds
  <2>5. Live("udp", i, tnt, v, out)
    BY <2>1, <1>LiveSent
  <2> HIDE DEF out
  <2>6. L(v) /\ L(out) /\ L(end(v, "TIMEDOUT")) /\ L(end(out, "TIMEDOUT"))
    BY <2>1, <2>5, <1>LiveUdpEnds, <1>LiveIsLegal
  <2>7. \A x \in Errnos : L(end(v, errno_to_error(x))) /\ L(end(out, errno_to_error(x)))
    BY <2>5, <1>ErrnoFails, <1>LiveUdpEnds DEF Failing
  <2>8. service_test_udp(v, i) =
          IF Recent(v) THEN {v}
          ELSE {end(Hear(v, "CONNECT"), "OK"), timed(v), sent(timed(out))}
               \cup {end(v, errno_to_error(x)) : x \in Errnos}
               \cup {sent(end(out, errno_to_error(x))) : x \in Errnos}
    BY DEF service_test_udp, out
  <2> HIDE DEF end, L
  <2>9. L(timed(v)) /\ L(sent(timed(out))) /\ \A x \in Errnos : L(sent(end(out, errno_to_error(x))))
    BY <2>6, <2>7
  <2>10. \A x \in service_test_udp(v, i) : L(x)
    BY SMTT(30), <2>4, <2>6, <2>7, <2>8, <2>9
  <2> QED
    BY <2>10 DEF L

<1>StartUdp.
  ASSUME NEW i \in Slots, NEW tnt \in BOOLEAN, NEW v, Fresh("udp", i, tnt, v)
  PROVE  \A x \in start_test_udp(v, i) : Legal("udp", i, tnt, v, x)
  <2> USE <1>StartUdp
  <2> DEFINE m == Malloc(v)
             o == OpenSock(m, i)
  <2>1. v \in Worlds /\ "udp" \in Kinds \ EchoKinds /\ "udp" \in DgramKinds /\ "udp" \in Early
        /\ "udp" \in Dangles /\ "freed" \in {"null", "freed"} /\ "NODNS" \in Retvals
    BY <1>FreshFacts DEF Kinds, DgramKinds, EchoKinds, Early, Dangles, Retvals
  <2>2. CASE FreeFds(m) = {}
    <3>1. start_test_udp(v, i) = {[m EXCEPT !.up = FALSE]}
      BY <2>2 DEF start_test_udp, WithSock
    <3> QED
      BY SMTT(30), <2>1, <3>1, <1>AbortLegal
  <2>3. CASE FreeFds(m) # {}
    <3>1. start_test_udp(v, i) =
            {Free(Answer(o, "NODNS")), Active(o)}
            \cup {Forget(Finish(o, i, errno_to_error(x))) : x \in Errnos}
      BY <2>3 DEF start_test_udp, WithSock
    <3>2. Live("udp", i, tnt, v, o)
      BY <2>1, <2>3, <1>OpenedLive
    <3> HIDE DEF o
    <3>3. o \in Worlds /\ o.e.data = "held"
      BY <3>2 DEF Live, Legal
    <3>4. Released(o, "NODNS", "freed", Free(Answer(o, "NODNS")))
      BY <2>1, <3>3, <1>ReleasedIs
    <3>5. Legal("udp", i, tnt, v, Free(Answer(o, "NODNS")))
      BY <2>1, <3>2, <3>4, <1>EarlyLegal
    <3>6. Legal("udp", i, tnt, v, Active(o))
      BY <2>1, <3>2, <1>LiveActive, <1>LiveIsLegal
    <3>7. \A x \in Errnos : Legal("udp", i, tnt, v, Forget(Finish(o, i, errno_to_error(x))))
      BY <2>1, <3>2, <1>ErrnoFails, <1>LiveUdpEnds DEF Failing
    <3> QED
      BY <3>1, <3>5, <3>6, <3>7
  <2> QED
    BY <2>2, <2>3

\* close() and FREE() of a radius or dns check that is going on.
<1>LiveGone.
  ASSUME NEW k \in {"radius", "dns"}, NEW i \in Slots, NEW tnt \in BOOLEAN, NEW v \in Worlds,
         NEW w, Live(k, i, tnt, v, w), NEW rv \in Retvals \ {"NODNS"},
         rv = "OK" => w.e.good >= 1
  PROVE  Legal(k, i, tnt, v, Gone(w, i, rv))
  <2> USE <1>LiveGone
  <2>1. w \in Worlds /\ w.e.data # "null" /\ rv \in Retvals
    BY DEF Live, Legal
  <2>2. Ended(w, i, rv, "freed", Gone(w, i, rv))
    BY <2>1, <1>GoneIs
  <2>3. "freed" \in {"null", "freed"} /\ k \in Kinds \ EchoKinds /\ Needed[k] = 1 /\ k # "snmp"
    BY SMTT(30) DEF Kinds, DgramKinds, EchoKinds, Needed
  <2> QED
    BY SMTT(30), <2>2, <2>3, <1>LiveEnded

<1>WildLegal.
  ASSUME NEW k \in {"radius", "dns"}, NEW i \in Slots, NEW tnt \in BOOLEAN, NEW v, NEW x,
         x \in Worlds, "uaf" \in x.harm, x.e.data # "held",
         x.e.started = v.e.started, x.e.age = v.e.age, x.icmp = v.icmp,
         x.e.retval # "NODNS", x.e.good >= Level(x.e.st),
         x.e.retval = "OK" => x.e.good >= 1
  PROVE  Legal(k, i, tnt, v, x)
  <2> USE <1>WildLegal
  <2>1. Needed[k] = 1 /\ k \notin EchoKinds
    BY SMTT(30) DEF Needed, EchoKinds
  <2>2. Earned(k, x.e, x.icmp) /\ Counted(k, x.e) /\ Holding(k, x.e)
    BY <2>1 DEF Earned, Counted, Holding, Dangles
  <2>3. Confused(tnt, x)
    BY DEF Confused, Confusing
  <2>4. \A h \in x.harm : <<k, h>> \in KnownHarm
    BY <1>HarmKnown DEF Worlds
  <2> QED
    BY <2>2, <2>3, <2>4 DEF Legal

<1>WildEnds.
  ASSUME NEW k \in {"radius", "dns"}, NEW i \in Slots, NEW tnt \in BOOLEAN, NEW v, NEW w,
         Wild(k, v, w), NEW rv \in Retvals \ {"NODNS"}, rv = "OK" => w.e.good >= 1
  PROVE  Legal(k, i, tnt, v, Gone(w, i, rv)) /\ Legal(k, i, tnt, v, Finish(w, i, rv))
  <2> USE <1>WildEnds
  <2>1. w \in Worlds /\ w.e.data # "null" /\ rv \in Retvals /\ w.e.good \in Nat
    BY DEF Wild, Worlds, Entries
  <2>2. ASSUME NEW x, NEW d \in {"null", "freed"}, Ended(w, i, rv, d, x)
        PROVE  Legal(k, i, tnt, v, x)
    <3>1. /\ x \in Worlds /\ "uaf" \in x.harm /\ x.e.data # "held"
          /\ x.e.started = v.e.started /\ x.e.age = v.e.age /\ x.icmp = v.icmp
          /\ x.e.retval = rv /\ x.e.good = w.e.good /\ x.e.st \in {"CONNECT", w.e.st}
      BY <2>2 DEF Ended, Wild
    <3>2. x.e.good >= Level(x.e.st)
      BY SMTT(30), <2>1, <3>1 DEF Wild, Level
    <3> QED
      BY <3>1, <3>2, <1>WildLegal
  <2> QED
    BY <2>1, <2>2, <1>GoneIs, <1>FinishIs

<1>WildHear.
  ASSUME NEW k, NEW i, NEW v, NEW w, Wild(k, v, w)
  PROVE  Wild(k, v, Hear(w, "CONNECT")) /\ Hear(w, "CONNECT").e.good >= 1
  <2> USE <1>WildHear
  <2> DEFINE x == Hear(w, "CONNECT")
  <2>1. w \in Worlds /\ w.e \in Entries /\ "CONNECT" \in States /\ w.e.good \in Nat
    BY DEF Wild, Worlds, Entries, States
  <2>2. x \in Worlds /\ Rest(x, w) /\ x.e = [w.e EXCEPT !.st = "CONNECT", !.good = w.e.good + 1]
    BY <2>1, <1>HearIs
  <2> HIDE DEF x
  <2>3. /\ x.e.started = w.e.started /\ x.e.age = w.e.age /\ x.e.retval = w.e.retval
        /\ x.e.data = w.e.data /\ x.e.st = "CONNECT" /\ x.e.good = w.e.good + 1
    BY SMTT(30), <2>1, <2>2 DEF Entries
  <2>4. x.e.good >= 1 /\ x.e.good >= Level("CONNECT")
    BY SMTT(30), <2>1, <2>3 DEF Level
  <2>5. Wild(k, v, x)
    BY <2>2, <2>3, <2>4 DEF Wild, Rest
  <2> QED
    BY <2>4, <2>5 DEF x

\* What is left to the handlers of radius and dns once memory has been reused.
<1>WildSteps.
  ASSUME NEW k \in {"radius", "dns"}, NEW i \in Slots, NEW tnt \in BOOLEAN, NEW v, NEW w,
         Wild(k, v, w)
  PROVE  /\ Legal(k, i, tnt, v, w) /\ Legal(k, i, tnt, v, Sent(w))
         /\ Legal(k, i, tnt, v, Gone(Hear(w, "CONNECT"), i, "OK"))
         /\ \A rv \in Failing : /\ Legal(k, i, tnt, v, Gone(w, i, rv))
                                /\ Legal(k, i, tnt, v, Finish(w, i, rv))
  <2> USE <1>WildSteps
  <2>1. w \in Worlds /\ w.e \in Entries
    BY DEF Wild, Worlds
  <2>2. "OK" \in Retvals \ {"NODNS"}
    BY DEF Retvals
  <2>3. Legal(k, i, tnt, v, w)
    BY <2>1, <1>WildLegal DEF Wild
  <2>4. Legal(k, i, tnt, v, Sent(w))
    <3> DEFINE x == Sent(w)
    <3>1. x \in Worlds /\ Rest(x, w) /\ x.e = [w.e EXCEPT !.idle = 0, !.n = w.e.n + 1]
      BY <2>1, <1>SentIs
    <3> HIDE DEF x
    <3>2. /\ x.e.started = w.e.started /\ x.e.age = w.e.age /\ x.e.retval = w.e.retval
          /\ x.e.data = w.e.data /\ x.e.st = w.e.st /\ x.e.good = w.e.good
      BY SMTT(30), <2>1, <3>1 DEF Entries
    <3>3. Wild(k, v, x)
      BY <3>1, <3>2 DEF Wild, Rest
    <3>4. Legal(k, i, tnt, v, x)
      BY <3>3, <1>WildLegal DEF Wild
    <3> QED
      BY <3>4 DEF x
  <2>5. Legal(k, i, tnt, v, Gone(Hear(w, "CONNECT"), i, "OK"))
    BY <2>2, <1>WildHear, <1>WildEnds
  <2>6. \A rv \in Failing : /\ Legal(k, i, tnt, v, Gone(w, i, rv))
                            /\ Legal(k, i, tnt, v, Finish(w, i, rv))
    BY <1>WildEnds DEF Failing
  <2> QED
    BY <2>3, <2>4, <2>5, <2>6

\* The same of a check whose memory is its own.
<1>LiveSteps.
  ASSUME NEW k \in {"radius", "dns"}, NEW i \in Slots, NEW tnt \in BOOLEAN,
         NEW v \in Worlds, NEW w, Live(k, i, tnt, v, w)
  PROVE  /\ Legal(k, i, tnt, v, w) /\ Legal(k, i, tnt, v, Sent(w))
         /\ Legal(k, i, tnt, v, Gone(Hear(w, "CONNECT"), i, "OK"))
         /\ \A rv \in Failing : /\ Legal(k, i, tnt, v, Gone(w, i, rv))
                                /\ Legal(k, i, tnt, v, Finish(w, i, rv))
  <2> USE <1>LiveSteps
  <2>1. k \in Kinds \ EchoKinds /\ k # "snmp" /\ "CONNECT" \in States /\ Level("CONNECT") = 0
        /\ "OK" \in Retvals \ {"NODNS"}
    BY DEF Kinds, DgramKinds, EchoKinds, States, Level, Retvals
  <2>2. w.e.good \in Nat
    BY <1>LiveLevel
  <2>3. Live(k, i, tnt, v, Hear(w, "CONNECT")) /\ Hear(w, "CONNECT").e.good = w.e.good + 1
    BY SMTT(30), <2>1, <2>2, <1>LiveHear
  <2>4. Legal(k, i, tnt, v, Gone(Hear(w, "CONNECT"), i, "OK"))
    BY SMTT(30), <2>1, <2>2, <2>3, <1>LiveGone
  <2>5. Legal(k, i, tnt, v, w) /\ Legal(k, i, tnt, v, Sent(w))
    BY <2>1, <1>LiveSent, <1>LiveIsLegal
  <2>6. \A rv \in Failing : Legal(k, i, tnt, v, Gone(w, i, rv))
    BY <1>LiveGone DEF Failing
  <2>7. \A rv \in Failing : Legal(k, i, tnt, v, Finish(w, i, rv))
    BY <2>1, <1>LiveFails
  <2> QED
    BY <2>4, <2>5, <2>6, <2>7

\* monitordata is the check's own, or is used all the same.
<1>ReusedIs.
  ASSUME NEW k \in {"radius", "dns"}, NEW i \in Slots, NEW tnt \in BOOLEAN, NEW v \in Worlds,
         Legal(k, i, tnt, v, v), v.e.retval = "pending", v.e.data # "null", v.harm = {}, v.up,
         NEW w \in Reused(v)
  PROVE  Live(k, i, tnt, v, w) \/ Wild(k, v, w)
  <2> USE <1>ReusedIs
  <2>1. v.e \in Entries /\ v.e.data \in {"held", "freed"}
    BY DEF Worlds, Entries
  <2>2. CASE v.e.data = "held"
    BY SMTT(30), <2>2 DEF Reused, Live
  <2>3. CASE v.e.data = "freed"
    <3>1. PICK n \in {0, MaxSent + 1}, t \in {0, Delay} :
            w = [Harm(v, "uaf") EXCEPT !.e.n = n, !.e.idle = t]
      BY SMTT(30), <2>3 DEF Reused
    <3>2. n \in Nat /\ t \in 0..Globtimeout
      BY SMTT(30), TimesAssumption
    <3> DEFINE h == Harm(v, "uaf")
               e == [v.e EXCEPT !.n = n, !.idle = t]
    <3>3. h \in Worlds /\ h.e = v.e /\ h.fdt = v.fdt /\ h.icmp = v.icmp /\ "uaf" \in h.harm
      BY DEF Harm, Worlds, Harms
    <3>4. e \in Entries
      BY <2>1, <3>2 DEF Entries
    <3>5. w = [h EXCEPT !.e = e]
      BY <3>1, <3>3 DEF Worlds
    <3>6. /\ e.started = v.e.started /\ e.age = v.e.age /\ e.retval = v.e.retval
          /\ e.data = v.e.data /\ e.st = v.e.st /\ e.good = v.e.good
      BY <2>1 DEF Entries
    <3> HIDE DEF h, e
    <3>7. w \in Worlds /\ w.e = e /\ w.icmp = v.icmp /\ "uaf" \in w.harm
      BY <3>3, <3>4, <3>5 DEF Worlds
    <3>8. v.e.good >= Level(v.e.st)
      BY DEF Legal, Earned
    <3> QED
      BY <2>3, <3>6, <3>7, <3>8 DEF Wild
  <2> QED
    BY <2>1, <2>2, <2>3

<1>ServiceRadiusDns.
  ASSUME NEW k \in {"radius", "dns"}, NEW i \in Slots, NEW tnt \in BOOLEAN, NEW v \in Worlds,
         Legal(k, i, tnt, v, v), v.e.retval = "pending", v.e.data # "null", v.harm = {}, v.up
  PROVE  /\ \A x \in service_check_radius(v, i) : Legal(k, i, tnt, v, x)
         /\ \A x \in service_check_dns(v, i) : Legal(k, i, tnt, v, x)
  <2> USE <1>ServiceRadiusDns
  <2> DEFINE L(x) == Legal(k, i, tnt, v, x)
  <2>1. {"NORESP", "BAD_AUTH", "pending"} \subseteq Failing /\ \A x : ReadError(x) \in Failing
    BY SMTT(30) DEF Failing, Retvals, ReadError, ErrnoTable
  <2>2. \A w \in Reused(v) : /\ L(w) /\ L(Sent(w)) /\ L(Gone(Hear(w, "CONNECT"), i, "OK"))
                             /\ \A rv \in Failing : L(Gone(w, i, rv)) /\ L(Finish(w, i, rv))
    <3> TAKE w \in Reused(v)
    <3>1. Live(k, i, tnt, v, w) \/ Wild(k, v, w)
      BY <1>ReusedIs
    <3>2. CASE Live(k, i, tnt, v, w)
      BY <3>2, <1>LiveSteps
    <3>3. CASE Wild(k, v, w)
      BY <3>3, <1>WildSteps
    <3> QED
      BY <3>1, <3>2, <3>3
  <2> HIDE DEF L
  <2>3. \A x \in service_check_radius(v, i) : L(x)
    BY SMTT(30), <2>1, <2>2 DEF service_check_radius
  <2>4. \A x \in service_check_dns(v, i) : L(x)
    BY SMTT(30), <2>1, <2>2 DEF service_check_dns
  <2> QED
    BY <2>3, <2>4 DEF L

<1>StartRadiusDns.
  ASSUME NEW k \in {"radius", "dns"}, NEW i \in Slots, NEW tnt \in BOOLEAN, NEW v,
         Fresh(k, i, tnt, v)
  PROVE  /\ \A x \in start_check_radius(v, i) : Legal(k, i, tnt, v, x)
         /\ \A x \in start_check_dns(v, i) : Legal(k, i, tnt, v, x)
  <2> USE <1>StartRadiusDns
  <2> DEFINE m == Malloc(v)
             o == OpenSock(m, i)
             z == [o EXCEPT !.e.idle = Delay]
  <2>1. v \in Worlds /\ k \in Kinds /\ k \in Kinds \ EchoKinds /\ k \in DgramKinds
        /\ "NODNS" \in Retvals
    BY <1>FreshFacts DEF Kinds, DgramKinds, EchoKinds, Retvals
  <2>2. Legal(k, i, tnt, v, Answer(v, "NODNS"))
    BY <2>1, <1>PlainLegal
  <2>3. CASE FreeFds(m) = {}
    <3>1. /\ start_check_radius(v, i) = {Answer(v, "NODNS")} \cup {[m EXCEPT !.up = FALSE]}
          /\ start_check_dns(v, i) = {Answer(v, "NODNS")} \cup {[m EXCEPT !.up = FALSE]}
      BY <2>3 DEF start_check_radius, start_check_dns, WithSock
    <3>2. Legal(k, i, tnt, v, [m EXCEPT !.up = FALSE])
      BY <2>1, <1>AbortLegal
    <3> QED
      BY <2>2, <3>1, <3>2
  <2>4. CASE FreeFds(m) # {}
    <3>1. /\ start_check_radius(v, i) =
               {Answer(v, "NODNS")} \cup
               ({Sent(o)} \cup {Gone(o, i, errno_to_error(x)) : x \in Errnos})
          /\ start_check_dns(v, i) =
               {Answer(v, "NODNS")} \cup
               ({z} \cup {Gone(o, i, errno_to_error(x)) : x \in Errnos})
      BY <2>4 DEF start_check_radius, start_check_dns, WithSock
    <3>2. Live(k, i, tnt, v, o)
      BY <2>1, <2>4, <1>OpenedLive
    <3> HIDE DEF o
    <3>3. Legal(k, i, tnt, v, Sent(o))
      BY <2>1, <3>2, <1>LiveSteps
    <3>4. \A x \in Errnos : Legal(k, i, tnt, v, Gone(o, i, errno_to_error(x)))
      BY <2>1, <3>2, <1>ErrnoFails, <1>LiveSteps
    <3>5. Legal(k, i, tnt, v, z)
      <4>a. o \in Worlds /\ o.e \in Entries /\ Legal(k, i, tnt, v, o) /\ o.e.good \in Nat
            /\ o.e.good >= Level(o.e.st)
        BY <3>2 DEF Live, Legal, Worlds, Entries, Earned
      <4>b. Delay \in 0..Globtimeout
        BY SMTT(30), TimesAssumption
      <4>1. o \in Worlds /\ o.e \in Entries /\ Legal(k, i, tnt, v, o) /\ o.e.good \in Nat
            /\ o.e.good >= Level(o.e.st) /\ Delay \in 0..Globtimeout
        BY <4>a, <4>b
      <4>2. z.e = [o.e EXCEPT !.idle = Delay] /\ Rest(z, o)
        BY <4>1 DEF Worlds, Rest
      <4>3. [o.e EXCEPT !.idle = Delay] \in Entries
        BY <4>1 DEF Entries
      <4>4. z \in Worlds
        BY <4>1, <4>3 DEF Worlds
      <4> HIDE DEF z
      <4>5. /\ z.e.started = o.e.started /\ z.e.retval = o.e.retval /\ z.e.fd = o.e.fd
            /\ z.e.data = o.e.data /\ z.e.age = o.e.age /\ z.e.good = o.e.good
            /\ z.e.st = o.e.st
        BY SMTT(30), <4>1, <4>2 DEF Entries
      <4>6. z.e.good >= o.e.good /\ z.e.good >= Level(z.e.st)
        BY SMTT(30), <4>1, <4>5
      <4> QED
        BY <2>1, <4>1, <4>2, <4>4, <4>5, <4>6, <1>LegalCounters
    <3> HIDE DEF z
    <3> QED
      BY <2>2, <3>1, <3>3, <3>4, <3>5
  <2> QED
    BY <2>3, <2>4

<1>StartSnmp.
  ASSUME NEW i \in Slots, NEW tnt \in BOOLEAN, NEW v, Fresh("snmp", i, tnt, v)
  PROVE  \A x \in start_test_snmp(v, i) : Legal("snmp", i, tnt, v, x)
  <2> USE <1>StartSnmp
  <2> DEFINE m == Malloc(v)
             L(x) == Legal("snmp", i, tnt, v, x)
  <2>1. v \in Worlds /\ "snmp" \in Kinds /\ "snmp" \in Kinds \ EchoKinds
        /\ "ERR" \in Retvals \ {"OK"} /\ "NODNS" \in Retvals \ {"OK"} /\ "ERR" # "OK"
        /\ (\A q : errno_to_error(q) \in Retvals \ {"OK"})
        /\ "null" \in {"null", "freed"} /\ "null" # "freed"
    BY <1>FreshFacts, <1>ErrnoFails DEF Kinds, DgramKinds, EchoKinds, Retvals, Failing
  <2>2. L(Answer(v, "ERR"))
    BY <2>1, <1>PlainLegal
  <2>3. m \in Worlds /\ m.e.data = "held"
    BY <2>1, <1>MallocTable
  <2>4. \A rv \in Retvals \ {"OK"} : L(Null(Free(Answer(m, rv))))
    <3> TAKE rv \in Retvals \ {"OK"}
    <3>1. Released(Malloc(v), rv, "null", Null(Free(Answer(m, rv))))
      BY <2>3, <1>ReleasedIs
    <3> QED
      BY <2>1, <3>1, <1>BareLegal
  <2>5. FreeFds(m) # {} => L(OpenSock(m, i))
    BY <2>1, <1>OpenedLive DEF Live
  <2>6. start_test_snmp(v, i) =
       {Answer(v, "ERR")} \cup
       {CASE q = "EHOSTUNREACH" -> Null(Free(Answer(m, "NODNS")))
          [] q = "EINVAL"       -> Null(Free(Answer(m, "ERR")))
          [] q = "sent" /\ FreeFds(m) # {} -> OpenSock(m, i)
          [] OTHER -> Null(Free(Answer(m, errno_to_error(q)))) : q \in snmp_open_query}
    BY DEF start_test_snmp
  <2> HIDE DEF m, L
  <2>7. \A q \in snmp_open_query :
          L(CASE q = "EHOSTUNREACH" -> Null(Free(Answer(m, "NODNS")))
              [] q = "EINVAL"       -> Null(Free(Answer(m, "ERR")))
              [] q = "sent" /\ FreeFds(m) # {} -> OpenSock(m, i)
              [] OTHER -> Null(Free(Answer(m, errno_to_error(q)))))
    BY <2>1, <2>4, <2>5
  <2>8. \A x \in start_test_snmp(v, i) : L(x)
    BY <2>2, <2>6, <2>7
  <2> QED
    BY <2>8 DEF L

<1>LiveSnmpEnds.
  ASSUME NEW i \in Slots, NEW tnt \in BOOLEAN, NEW v \in Worlds, NEW w,
         Live("snmp", i, tnt, v, w), NEW rv \in Retvals \ {"NODNS"}, rv = "OK" => w.e.good >= 1
  PROVE  Legal("snmp", i, tnt, v, stop_test_snmp(Answer(w, rv), i))
  <2> USE <1>LiveSnmpEnds
  <2> DEFINE a == Answer(w, rv)
             x == stop_test_snmp(a, i)
  <2>1. w \in Worlds /\ w.e \in Entries /\ rv \in Retvals
    BY DEF Live, Legal, Worlds
  <2>2. a \in Worlds /\ Rest(a, w) /\ a.e = [w.e EXCEPT !.retval = rv]
    BY <2>1, AnswerIs
  <2> HIDE DEF a
  <2>3. /\ a.e.started = w.e.started /\ a.e.retval = rv /\ a.e.fd = w.e.fd
        /\ a.e.data = w.e.data /\ a.e.age = w.e.age /\ a.e.good = w.e.good /\ a.e.st = w.e.st
    BY SMTT(30), <2>1, <2>2 DEF Entries
  <2>4. Ended(a, i, rv, "null", x) /\ x.e.fd = 0
    BY <2>2, <2>3, <1>StopSnmpIs
  <2> HIDE DEF x
  <2>5. CloseHarm(a, i) = CloseHarm(w, i)
    BY <2>2, <2>3 DEF CloseHarm, Rest
  <2>6. Shut(w, x.fdt)
    BY SMTT(30), <2>2, <2>3, <2>4 DEF Ended, Shut, Rest
  <2>7. Ended(w, i, rv, "null", x)
    BY <2>2, <2>3, <2>4, <2>5, <2>6 DEF Ended, Rest
  <2>8. "null" \in {"null", "freed"} /\ "null" # "freed" /\ "snmp" \in Kinds \ EchoKinds
        /\ Needed["snmp"] = 1
    BY DEF Kinds, DgramKinds, EchoKinds, Needed
  <2>9. Legal("snmp", i, tnt, v, x)
    BY SMTT(30), <2>4, <2>7, <2>8, <1>LiveEnded
  <2> QED
    BY <2>9 DEF x, a

<1>ServiceSnmp.
  ASSUME NEW i \in Slots, NEW tnt \in BOOLEAN, NEW v \in Worlds, Live("snmp", i, tnt, v, v)
  PROVE  \A x \in service_test_snmp(v, i) : Legal("snmp", i, tnt, v, x)
  <2> USE <1>ServiceSnmp
  <2> DEFINE heard == Hear(v, "ANSWERED")
             end(x, rv) == stop_test_snmp(Answer(x, rv), i)
             L(x) == Legal("snmp", i, tnt, v, x)
  <2>1. "snmp" \in Kinds \ EchoKinds /\ {"NORESP", "BAD_RESP", "OK", "SNMP_ALARM"} \subseteq Retvals \ {"NODNS"}
        /\ "ANSWERED" \in States /\ Level("ANSWERED") = 1
        /\ "NORESP" # "OK" /\ "BAD_RESP" # "OK" /\ "SNMP_ALARM" # "OK"
    BY DEF Kinds, DgramKinds, EchoKinds, Retvals, States, Level
  <2>2. v.e.good \in Nat
    BY <1>LiveLevel
  <2>3. Live("snmp", i, tnt, v, heard) /\ heard.e.good = v.e.good + 1
    BY SMTT(30), <2>1, <2>2, <1>LiveHear
  <2>4. heard.e.good >= 1
    BY SMTT(30), <2>2, <2>3
  <2>5. service_test_snmp(v, i) \subseteq
          {v, end(v, "NORESP"), end(v, "BAD_RESP"), end(heard, "OK"), end(heard, "SNMP_ALARM"),
           heard}
    BY DEF service_test_snmp
  <2> HIDE DEF heard
  <2>6. L(v) /\ L(heard)
    BY <2>3 DEF Live
  <2>7. L(end(v, "NORESP")) /\ L(end(v, "BAD_RESP"))
    BY <2>1, <1>LiveSnmpEnds
  <2>8. L(end(heard, "OK")) /\ L(end(heard, "SNMP_ALARM"))
    BY <2>1, <2>3, <2>4, <1>LiveSnmpEnds
  <2> HIDE DEF end, L
  <2>9. \A x \in service_test_snmp(v, i) : L(x)
    BY <2>5, <2>6, <2>7, <2>8
  <2> QED
    BY <2>9 DEF L

(***************************************************************************)
(* The echo checks.                                                        *)
(***************************************************************************)

<1>EchoLegal.
  ASSUME NEW k \in EchoKinds, NEW i \in Slots, NEW tnt \in BOOLEAN, NEW v, NEW x,
         Legal(k, i, tnt, v, v), v.harm = {}, x \in Worlds, x.fdt = v.fdt, x.icmp = v.icmp,
         x.harm = {}, x.e.started = v.e.started, x.e.age = v.e.age,
         x.e.data \in {"null", "held"}, x.e.retval = "NODNS" => ~v.e.started,
         Earned(k, x.e, x.icmp), Counted(k, x.e)
  PROVE  Legal(k, i, tnt, v, x)
  <2> USE <1>EchoLegal
  <2>1. v.e.fd = 0 /\ 0 \notin Fds /\ k # "snmp"
    BY TimesAssumption DEF Legal, Counted, EchoKinds
  <2>2. Holding(k, x.e)
    BY <2>1 DEF Holding
  <2>3. ~tnt => Found(k, i, x.e, x.fdt) /\ Frame(i, v.fdt, x.fdt)
    <3> SUFFICES ASSUME ~tnt PROVE Found(k, i, x.e, x.fdt) /\ Frame(i, v.fdt, x.fdt)
      OBVIOUS
    <3>1. Found(k, i, v.e, v.fdt)
      BY DEF Legal, Confused
    <3> QED
      BY <2>1, <3>1 DEF Found, Frame
  <2>4. Safe(k, i, x.e, x.fdt)
    BY DEF Safe
  <2> QED
    BY <2>2, <2>3, <2>4 DEF Legal, Confused

<1>EchoesLegal.
  ASSUME NEW k \in EchoKinds, NEW i \in Slots, NEW tnt \in BOOLEAN, NEW v, NEW w,
         Legal(k, i, tnt, v, v), v.harm = {}, Echoes(k, v, w)
  PROVE  Legal(k, i, tnt, v, w)
  <2> USE <1>EchoesLegal
  <2>1. Earned(k, w.e, w.icmp) /\ w.e.retval # "NODNS" /\ w.e.data \in {"null", "held"}
    BY DEF Earned, Echoes, Failing
  <2> QED
    BY <2>1, <1>EchoLegal DEF Echoes

\* Steps that change neither the counters nor the memory.
<1>EchoesSame.
  ASSUME NEW k \in EchoKinds, NEW v, NEW w, Echoes(k, v, w), NEW x \in Worlds,
         x.fdt = w.fdt, x.icmp = w.icmp, x.harm = w.harm,
         x.e.started = w.e.started, x.e.age = w.e.age, x.e.fd = w.e.fd, x.e.data = w.e.data,
         x.e.retval \in Failing, x.e.good = w.e.good, x.e.st = w.e.st, x.e.m = w.e.m,
         x.e.n = w.e.n, x.e.seen = w.e.seen
  PROVE  Echoes(k, v, x)
  <2> USE <1>EchoesSame
  <2>1. Counted(k, x.e)
    BY DEF Counted, Echoes
  <2> QED
    BY <2>1 DEF Echoes

<1>EchoesActive.
  ASSUME NEW k \in EchoKinds, NEW v, NEW w, Echoes(k, v, w)
  PROVE  Echoes(k, v, Active(w)) /\ Active(w).e.good = w.e.good
  <2> USE <1>EchoesActive
  <2> DEFINE x == Active(w)
  <2>1. w \in Worlds /\ w.e \in Entries
    BY DEF Echoes, Worlds
  <2>2. x \in Worlds /\ Rest(x, w) /\ x.e = [w.e EXCEPT !.idle = 0]
    BY <2>1, <1>ActiveIs
  <2> HIDE DEF x
  <2>3. /\ x.e.started = w.e.started /\ x.e.age = w.e.age /\ x.e.fd = w.e.fd
        /\ x.e.data = w.e.data /\ x.e.retval = w.e.retval /\ x.e.good = w.e.good
        /\ x.e.st = w.e.st /\ x.e.m = w.e.m /\ x.e.n = w.e.n /\ x.e.seen = w.e.seen
    BY SMTT(30), <2>1, <2>2 DEF Entries
  <2>4. x.e.retval \in Failing /\ x.fdt = w.fdt /\ x.icmp = w.icmp /\ x.harm = w.harm
    BY <2>2, <2>3 DEF Echoes, Rest
  <2>5. Echoes(k, v, x)
    BY <2>2, <2>3, <2>4, <1>EchoesSame
  <2> QED
    BY <2>3, <2>5 DEF x

<1>EchoesAnswer.
  ASSUME NEW k \in EchoKinds, NEW v, NEW w, Echoes(k, v, w), NEW rv \in Failing
  PROVE  /\ Echoes(k, v, Answer(w, rv)) /\ Answer(w, rv).e.good = w.e.good
         /\ Echoes(k, v, [Answer(w, rv) EXCEPT !.helper = FALSE])
         /\ [Answer(w, rv) EXCEPT !.helper = FALSE].e.good = w.e.good
  <2> USE <1>EchoesAnswer
  <2> DEFINE x == Answer(w, rv)
             y == [x EXCEPT !.helper = FALSE]
  <2>1. w \in Worlds /\ w.e \in Entries /\ rv \in Retvals
    BY DEF Echoes, Worlds, Failing
  <2>2. x \in Worlds /\ Rest(x, w) /\ x.e = [w.e EXCEPT !.retval = rv]
    BY <2>1, AnswerIs
  <2> HIDE DEF x
  <2>3. /\ x.e.started = w.e.started /\ x.e.age = w.e.age /\ x.e.fd = w.e.fd
        /\ x.e.data = w.e.data /\ x.e.retval = rv /\ x.e.good = w.e.good
        /\ x.e.st = w.e.st /\ x.e.m = w.e.m /\ x.e.n = w.e.n /\ x.e.seen = w.e.seen
    BY SMTT(30), <2>1, <2>2 DEF Entries
  <2>4. x.fdt = w.fdt /\ x.icmp = w.icmp /\ x.harm = w.harm
    BY <2>2 DEF Rest
  <2>5. Echoes(k, v, x)
    BY <2>2, <2>3, <2>4, <1>EchoesSame
  <2>6. /\ y \in Worlds /\ y.e = x.e /\ y.fdt = w.fdt /\ y.icmp = w.icmp /\ y.harm = w.harm
    BY <2>2, <2>4 DEF Worlds
  <2> HIDE DEF y
  <2>7. Echoes(k, v, y) /\ y.e.good = w.e.good
    BY <2>3, <2>6, <1>EchoesSame
  <2> QED
    BY <2>3, <2>5, <2>7 DEF x, y

\* One more request.
<1>EchoesCount.
  ASSUME NEW k \in EchoKinds, NEW v, NEW w, Echoes(k, v, w)
  PROVE  LET out == [w EXCEPT !.e.n = Count(@)]
         IN  Echoes(k, v, out) /\ out.e.good = w.e.good
  <2> USE <1>EchoesCount
  <2> DEFINE c == Count(w.e.n)
             out == [w EXCEPT !.e.n = Count(@)]
  <2>1. w \in Worlds /\ w.e \in Entries /\ w.e.n \in Nat /\ w.e.m \in Nat
        /\ w.e.n <= SendPings + 1 /\ SendPings \in Nat
    BY TimesAssumption DEF Echoes, Worlds, Entries, Counted
  <2>2. c \in Nat /\ w.e.n <= c /\ c <= SendPings + 1
    BY SMTT(30), <2>1 DEF Count
  <2>3. out = [w EXCEPT !.e = [w.e EXCEPT !.n = c]]
    BY <2>1 DEF Worlds
  <2> HIDE DEF out, c
  <2>4. [w.e EXCEPT !.n = c] \in Entries
    BY <2>1, <2>2 DEF Entries
  <2>5. out \in Worlds /\ Rest(out, w) /\ out.e = [w.e EXCEPT !.n = c]
    BY <2>1, <2>3, <2>4 DEF Worlds, Rest
  <2>6. /\ out.e.started = w.e.started /\ out.e.age = w.e.age /\ out.e.fd = w.e.fd
        /\ out.e.data = w.e.data /\ out.e.retval = w.e.retval /\ out.e.good = w.e.good
        /\ out.e.st = w.e.st /\ out.e.m = w.e.m /\ out.e.n = c /\ out.e.seen = w.e.seen
    BY SMTT(30), <2>1, <2>5 DEF Entries
  <2>7. /\ w.e.fd = 0 /\ w.e.data = "held" /\ w.e.m = w.e.good
        /\ (k = "pktloss" => w.e.m <= w.e.n)
        /\ (k = "rtt" => w.e.m = Cardinality(w.e.seen) /\ w.e.seen \subseteq 1..w.e.n)
    BY DEF Echoes, Counted
  <2>8. 1..w.e.n \subseteq 1..c
    BY SMTT(30), <2>1, <2>2
  <2>9. Counted(k, out.e)
    <3>1. k = "pktloss" => out.e.m <= out.e.n
      BY SMTT(30), <2>1, <2>2, <2>6, <2>7
    <3>2. k = "rtt" => out.e.m = Cardinality(out.e.seen) /\ out.e.seen \subseteq 1..out.e.n
      BY <2>6, <2>7, <2>8
    <3> QED
      BY <2>2, <2>6, <2>7, <3>1, <3>2 DEF Counted
  <2>10. Echoes(k, v, out)
    BY <2>5, <2>6, <2>9 DEF Echoes, Rest
  <2> QED
    BY <2>6, <2>10 DEF out

\* pinger_v4() and pinger_v6().
<1>PingerEchoes.
  ASSUME NEW k \in EchoKinds, NEW v, NEW w, Echoes(k, v, w)
  PROVE  \A x \in Pinger(w) : Echoes(k, v, x) /\ x.e.good = w.e.good
  <2> USE <1>PingerEchoes
  <2> DEFINE out == [w EXCEPT !.e.n = Count(@)]
             E(x) == Echoes(k, v, x) /\ x.e.good = w.e.good
  <2>1. E(out)
    BY <1>EchoesCount
  <2>2. Pinger(w) =
          {Active(out), out}
          \cup {Answer(out, ErrnoTable[x]) : x \in Errnos \cap {"ENETUNREACH", "EHOSTUNREACH"}}
          \cup (IF out.helper THEN {Active(out), Answer(out, "ERR"),
                                    [Answer(out, "ERR") EXCEPT !.helper = FALSE]} ELSE {})
    BY DEF Pinger, via_helper
  <2> HIDE DEF out
  <2>3. "ERR" \in Failing /\ ErrnoTable["ENETUNREACH"] \in Failing
        /\ ErrnoTable["EHOSTUNREACH"] \in Failing
    BY DEF Failing, Retvals, ErrnoTable
  <2>4. E(Active(out))
    BY <2>1, <1>EchoesActive
  <2>5. \A rv \in Failing : E(Answer(out, rv)) /\ E([Answer(out, rv) EXCEPT !.helper = FALSE])
    BY SMTT(30), <2>1, <1>EchoesAnswer
  <2> HIDE DEF E
  <2>6. \A x \in Pinger(w) : E(x)
    BY <2>1, <2>2, <2>3, <2>4, <2>5
  <2> QED
    BY <2>6 DEF E

\* The end of an echo check.
<1>DoneLegal.
  ASSUME NEW k \in EchoKinds, NEW i \in Slots, NEW tnt \in BOOLEAN, NEW v, NEW w,
         Legal(k, i, tnt, v, v), v.harm = {}, Echoes(k, v, w), NEW rv \in Retvals,
         rv = "NODNS" => ~v.e.started, rv = "OK" => w.e.good >= Needed[k]
  PROVE  Legal(k, i, tnt, v, Done(w, rv))
  <2> USE <1>DoneLegal
  <2> DEFINE x == Done(w, rv)
  <2>1. w \in Worlds /\ w.e.data = "held" /\ w.e.good \in Nat
    BY DEF Echoes, Worlds, Entries
  <2>2. Released(w, rv, "null", x)
    BY <2>1, <1>ReleasedIs DEF Done
  <2> HIDE DEF x
  <2>3. /\ x \in Worlds /\ x.fdt = v.fdt /\ x.icmp = v.icmp /\ x.harm = {}
        /\ x.e.started = v.e.started /\ x.e.age = v.e.age /\ x.e.retval = rv
        /\ x.e.fd = 0 /\ x.e.data = "null" /\ x.e.good = w.e.good /\ x.e.st = "CONNECT"
    BY <2>2 DEF Released, Rest, Echoes
  <2>4. Earned(k, x.e, x.icmp) /\ Counted(k, x.e) /\ x.e.data \in {"null", "held"}
    BY SMTT(30), <2>1, <2>3 DEF Earned, Counted, Level
  <2>5. Legal(k, i, tnt, v, x)
    BY <2>3, <2>4, <1>EchoLegal
  <2> QED
    BY <2>5 DEF x

<1>ServiceEcho.
  ASSUME NEW k \in EchoKinds, NEW i \in Slots, NEW tnt \in BOOLEAN, NEW v,
         Legal(k, i, tnt, v, v), v.harm = {}, Echoes(k, v, v)
  PROVE  /\ k = "ping" => \A x \in service_test_ping(v, i) : Legal(k, i, tnt, v, x)
         /\ k = "pingv6" => \A x \in service_test_pingv6(v, i) : Legal(k, i, tnt, v, x)
         /\ k = "pktloss" => \A x \in service_test_pktloss(v, i) : Legal(k, i, tnt, v, x)
         /\ k = "rtt" => \A x \in service_test_rtt(v, i) : Legal(k, i, tnt, v, x)
  <2> USE <1>ServiceEcho
  <2> DEFINE E(x) == Echoes(k, v, x)
             L(x) == Legal(k, i, tnt, v, x)
             enough(x) == x.e.good >= Needed[k]
  <2>1. E(v) /\ (\A x : E(x) => L(x)) /\ \A x \in Pinger(v) : E(x)
    BY <1>EchoesLegal, <1>PingerEchoes
  <2>2. \A x : E(x) => /\ L(Done(x, "UNPINGABLE")) /\ L(Done(x, "PKTLOSS_EXCEED"))
                       /\ L(Done(x, "RTT_HIGH")) /\ L(Done(x, "JITTER_HIGH"))
                       /\ L(Done(x, "TIMEDOUT"))
    <3>1. {"UNPINGABLE", "PKTLOSS_EXCEED", "RTT_HIGH", "JITTER_HIGH", "TIMEDOUT"}
            \subseteq Retvals \ {"OK", "NODNS"}
      BY DEF Retvals
    <3>2. \A x : E(x) => \A rv \in Retvals \ {"OK", "NODNS"} : L(Done(x, rv))
      BY <1>DoneLegal
    <3> QED
      BY <3>1, <3>2
  <2>3. \A x : E(x) /\ enough(x) => L(Done(x, "OK"))
    <3>1. "OK" \in Retvals /\ "OK" # "NODNS"
      BY DEF Retvals
    <3> QED
      BY <3>1, <1>DoneLegal
  <2>4. \A x : E(x) => E(Active(x))
    BY <1>EchoesActive
  <2>5. \A x : E(x) => x.e.m = x.e.good /\ x.e.n \in Nat /\ x.e.m \in Nat /\ x.e.good \in Nat
    BY DEF Echoes, Counted, Worlds, Entries
  <2>6. ASSUME k \in {"ping", "pingv6"}, NEW resend, NEW x \in EchoTest(v, resend, Pinger)
        PROVE  L(x)
    <3>1. Needed[k] = MinPings
      BY SMTT(30), <2>6 DEF Needed
    <3>2. \A y : E(y) => L(IF MinPings <= y.e.m THEN Done(y, "OK") ELSE y)
      BY <2>1, <2>3, <2>5, <3>1, TimesAssumption
    <3> HIDE DEF E, L
    <3> QED
      BY <2>1, <2>2, <2>6, <3>2 DEF EchoTest
  <2>7. ASSUME k = "pktloss", NEW x \in service_test_pktloss(v, i)
        PROVE  L(x)
    <3> DEFINE lost == IF v.e.m >= v.e.n THEN 0 ELSE v.e.n - v.e.m
    <3>1. v.e.n >= SendPings /\ lost <= Tolerance => enough(v)
      <4>1. Needed[k] = SendPings - Tolerance
        BY <2>7 DEF Needed
      <4>2. v.e.m = v.e.good /\ v.e.n \in Nat /\ v.e.m \in Nat /\ SendPings \in Nat
            /\ Tolerance \in Nat
        BY <2>1, <2>5, TimesAssumption
      <4> QED
        BY SMTT(30), <4>1, <4>2
    <3>2. v.e.n >= SendPings =>
            L(Done(v, IF lost <= Tolerance THEN "OK"
                      ELSE IF lost = v.e.n THEN "UNPINGABLE" ELSE "PKTLOSS_EXCEED"))
      BY <2>1, <2>2, <2>3, <3>1
    <3> HIDE DEF E, L
    <3> QED
      BY <2>1, <2>7, <3>2 DEF service_test_pktloss, pinger_v4
  <2>8. ASSUME k = "rtt", NEW x \in service_test_rtt(v, i)
        PROVE  L(x)
    <3>1. v.e.m # 0 => enough(v)
      BY SMTT(30), <2>1, <2>5, <2>8 DEF Needed
    <3>2. \A y \in rtt_finish(v) : L(y)
      <4> HIDE DEF E, L, enough
      <4> QED
        BY <2>1, <2>2, <2>3, <3>1 DEF rtt_finish
    <3> HIDE DEF E, L
    <3> QED
      BY <2>1, <2>4, <2>8, <3>2 DEF service_test_rtt, pinger_v4
  <2>9. /\ service_test_ping(v, i) = EchoTest(v, Delay, Pinger)
        /\ service_test_pingv6(v, i) = EchoTest(v, 2 * Delay, Pinger)
    BY DEF service_test_ping, service_test_pingv6, EchoTest, pinger_v4, pinger_v6
  <2> QED
    BY <2>6, <2>7, <2>8, <2>9

<1>StartEcho.
  ASSUME NEW k \in EchoKinds, NEW i \in Slots, NEW tnt \in BOOLEAN, NEW v, Fresh(k, i, tnt, v)
  PROVE  /\ \A x \in start_test_ping(v, i) : Legal(k, i, tnt, v, x)
         /\ \A x \in start_test_pktloss(v, i) : Legal(k, i, tnt, v, x)
         /\ \A x \in start_test_pingv6(v, i) : Legal(k, i, tnt, v, x)
         /\ \A x \in start_test_rtt(v, i) : Legal(k, i, tnt, v, x)
  <2> USE <1>StartEcho
  <2> DEFINE m == Malloc(v)
             E(x) == Echoes(k, v, x)
             L(x) == Legal(k, i, tnt, v, x)
  <2>1. v \in Worlds /\ v.e \in Entries /\ ~v.e.started /\ v.harm = {} /\ k \in Kinds /\ L(v)
    BY SMTT(30), <1>FreshFacts DEF Fresh, Worlds, Kinds
  <2>2. E(m)
    <3>1. m \in Worlds /\ Rest(m, v) /\ m.e = [v.e EXCEPT !.data = "held"]
      BY <2>1, <1>MallocIs
    <3> HIDE DEF m
    <3>2. /\ m.e.started = v.e.started /\ m.e.age = v.e.age /\ m.e.retval = "pending"
          /\ m.e.fd = 0 /\ m.e.data = "held" /\ m.e.st = "CONNECT" /\ m.e.n = 0 /\ m.e.m = 0
          /\ m.e.seen = {} /\ m.e.good = 0
      BY SMTT(30), <2>1, <3>1, NewIs DEF Entries, Fresh
    <3>3. Cardinality({}) = 0 /\ 0 <= SendPings + 1
      BY SMTT(30), NoneCounted, TimesAssumption
    <3>4. Counted(k, m.e)
      BY SMTT(30), <3>2, <3>3 DEF Counted
    <3>5. "pending" \in Failing /\ Level("CONNECT") = 0
      BY DEF Failing, Retvals, Level
    <3> QED
      BY SMTT(30), <2>1, <3>1, <3>2, <3>4, <3>5 DEF Echoes, Rest
  <2>3. L(Answer(v, "NODNS")) /\ (~v.icmp => L(Answer(v, "OK")))
    <3>1. "NODNS" \in Retvals /\ "OK" \in Retvals /\ "NODNS" # "OK"
      BY DEF Retvals
    <3> QED
      BY <2>1, <3>1, <1>PlainLegal
  <2>4. L(Done(m, "NODNS"))
    <3>1. "NODNS" \in Retvals /\ "NODNS" # "OK"
      BY DEF Retvals
    <3> QED
      BY <2>1, <2>2, <3>1, <1>DoneLegal
  <2> HIDE DEF m
  <2>5. \A x \in Pinger(m) : E(x)
    BY <2>2, <1>PingerEchoes
  <2>6. \A x \in Pinger(m) : L(Active(x)) /\ L(Active(Answer(x, "pending")))
    <3>1. "pending" \in Failing
      BY DEF Failing, Retvals
    <3>2. \A x \in Pinger(m) : E(Active(x)) /\ E(Active(Answer(x, "pending")))
      BY <2>5, <3>1, <1>EchoesActive, <1>EchoesAnswer
    <3> QED
      BY <2>1, <3>2, <1>EchoesLegal
  <2>7. /\ start_test_ping(v, i) = WithIcmp(v, {Done(m, "NODNS")} \cup {Active(x) : x \in Pinger(m)})
        /\ start_test_pktloss(v, i) = start_test_ping(v, i)
        /\ start_test_pingv6(v, i) = start_test_ping(v, i)
    BY DEF m, start_test_ping, start_test_pktloss, start_test_pingv6, Probing, pinger_v4, pinger_v6
  <2>8. start_test_rtt(v, i) =
          WithIcmp(v, {Answer(v, "NODNS")}
                      \cup {Active(Answer(x, "pending")) : x \in Pinger(m)})
    BY DEF m, start_test_rtt, pinger_v4
  <2> HIDE DEF L
  <2>9. \A x \in start_test_ping(v, i) : L(x)
    BY <2>3, <2>4, <2>6, <2>7 DEF WithIcmp
  <2>10. \A x \in start_test_rtt(v, i) : L(x)
    BY <2>3, <2>6, <2>8 DEF WithIcmp
  <2> QED
    BY <2>7, <2>9, <2>10 DEF L

(***************************************************************************)
(* All kinds together.                                                     *)
(***************************************************************************)

\* What service_this() and start_this() lead to.
<1>StartedLegal.
  ASSUME NEW i \in Slots, kind[i] \in Kinds, NEW tnt \in BOOLEAN, NEW v,
         Legal(kind[i], i, tnt, v, v), v.e.retval = "pending", v.harm = {}, v.up
  PROVE  \A x \in service_started(v, i) : Legal(kind[i], i, tnt, v, x)
  <2> USE <1>StartedLegal
  <2> DEFINE k == kind[i]
             L(x) == Legal(k, i, tnt, v, x)
  <2>1. v \in Worlds /\ Counted(k, v.e) /\ Holding(k, v.e) /\ Earned(k, v.e, v.icmp) /\ L(v)
        /\ v.e.data \in {"null", "held", "freed"}
    BY DEF Legal, Worlds, Entries
  <2>2. CASE v.e.data = "null"
    BY <2>1, <2>2 DEF service_started
  <2>3. CASE v.e.data # "null" /\ k \in {"radius", "dns"}
    <3>1. /\ \A x \in service_check_radius(v, i) : L(x)
          /\ \A x \in service_check_dns(v, i) : L(x)
      BY <2>1, <2>3, <1>ServiceRadiusDns
    <3> QED
      BY <2>3, <3>1 DEF service_started
  <2>4. CASE v.e.data # "null" /\ k \in EchoKinds
    <3>1. "pending" \in Failing
      BY DEF Failing, Retvals
    <3>2. v.e.data = "held"
      BY <2>1, <2>4 DEF Holding, Dangles, EchoKinds
    <3>3. Echoes(k, v, v)
      BY <2>1, <2>4, <3>1, <3>2 DEF Echoes, Counted, Earned
    <3>4. /\ k = "ping" => \A x \in service_test_ping(v, i) : L(x)
          /\ k = "pingv6" => \A x \in service_test_pingv6(v, i) : L(x)
          /\ k = "pktloss" => \A x \in service_test_pktloss(v, i) : L(x)
          /\ k = "rtt" => \A x \in service_test_rtt(v, i) : L(x)
      BY <2>1, <2>4, <3>3, <1>ServiceEcho
    <3> HIDE DEF L
    <3> QED
      BY <2>4, <3>4 DEF service_started, EchoKinds, L
  <2>5. CASE v.e.data # "null" /\ k \notin EchoKinds /\ k \notin {"radius", "dns"}
    <3>1. v.e.data = "held"
      BY <2>1, <2>5 DEF Holding
    <3>2. Live(k, i, tnt, v, v)
      BY <2>1, <3>1 DEF Live
    <3>3. CASE k = "tcp"
      BY <2>1, <2>5, <3>2, <3>3, <1>ServiceTcp DEF service_started
    <3>4. CASE k = "smtp"
      BY <2>1, <2>5, <3>2, <3>4, <1>ServiceSmtp DEF service_started
    <3>5. CASE k = "ssh"
      BY <2>1, <2>5, <3>2, <3>5, <1>ServiceSsh DEF service_started
    <3>6. CASE k = "www"
      BY <2>1, <2>5, <3>2, <3>6, <1>ServiceWww DEF service_started
    <3>7. CASE k = "pop3"
      BY <2>1, <2>5, <3>2, <3>7, <1>ServicePop3 DEF service_started
    <3>8. CASE k = "imap"
      BY <2>1, <2>5, <3>2, <3>8, <1>ServiceImap DEF service_started
    <3>9. CASE k = "nntp"
      BY <2>1, <2>5, <3>2, <3>9, <1>ServiceNntp DEF service_started
    <3>10. CASE k = "sysm"
      BY <2>1, <2>5, <3>2, <3>10, <1>ServiceSysmon DEF service_started
    <3>11. CASE k = "x500"
      BY <2>1, <2>5, <3>2, <3>11, <1>ServiceX500 DEF service_started
    <3>12. CASE k = "udp"
      BY <2>1, <2>5, <3>2, <3>12, <1>ServiceUdp DEF service_started
    <3>13. CASE k = "snmp"
      BY <2>1, <2>5, <3>2, <3>13, <1>ServiceSnmp DEF service_started
    <3> QED
      BY <2>5, <3>3, <3>4, <3>5, <3>6, <3>7, <3>8, <3>9, <3>10, <3>11, <3>12, <3>13
         DEF Kinds, StreamKinds, DgramKinds
  <2> QED
    BY <2>2, <2>3, <2>4, <2>5

\* A world whose check has just been started from a legal one.
<1>StartLegal.
  ASSUME NEW i \in Slots, kind[i] \in Kinds, NEW tnt \in BOOLEAN, NEW v,
         Fresh(kind[i], i, tnt, v), NEW x \in start_this(v, i)
  PROVE  \E y : Legal(kind[i], i, tnt, v, y) /\ x = [y EXCEPT !.e.started = TRUE]
  <2> USE <1>StartLegal
  <2> DEFINE k == kind[i]
             L(y) == Legal(k, i, tnt, v, y)
             S(set) == \E y \in set : x = [y EXCEPT !.e.started = TRUE]
  <2>1. CASE k \in StreamKinds
    <3>1. /\ k = "tcp" => S(start_test_tcp(v, i)) /\ \A y \in start_test_tcp(v, i) : L(y)
          /\ k = "smtp" => S(start_test_smtp(v, i)) /\ \A y \in start_test_smtp(v, i) : L(y)
          /\ k = "ssh" => S(start_test_sshd(v, i)) /\ \A y \in start_test_sshd(v, i) : L(y)
          /\ k = "www" => S(start_test_www(v, i)) /\ \A y \in start_test_www(v, i) : L(y)
          /\ k = "pop3" => S(start_test_pop3(v, i)) /\ \A y \in start_test_pop3(v, i) : L(y)
      BY SMTT(30), <1>StartStream DEF start_this
    <3>2. /\ k = "imap" => S(start_test_imap(v, i)) /\ \A y \in start_test_imap(v, i) : L(y)
          /\ k = "nntp" => S(start_test_nntp(v, i)) /\ \A y \in start_test_nntp(v, i) : L(y)
          /\ k = "sysm" => S(start_check_sysmon(v, i)) /\ \A y \in start_check_sysmon(v, i) : L(y)
          /\ k = "x500" => S(start_test_x500(v, i)) /\ \A y \in start_test_x500(v, i) : L(y)
      BY SMTT(30), <1>StartStream DEF start_this
    <3> HIDE DEF L
    <3> QED
      BY <2>1, <3>1, <3>2 DEF StreamKinds, L
  <2>2. CASE k \in DgramKinds
    <3>1. k = "udp" => S(start_test_udp(v, i)) /\ \A y \in start_test_udp(v, i) : L(y)
      BY SMTT(30), <1>StartUdp DEF start_this
    <3>2. k = "snmp" => S(start_test_snmp(v, i)) /\ \A y \in start_test_snmp(v, i) : L(y)
      BY SMTT(30), <1>StartSnmp DEF start_this
    <3>3. /\ k = "radius" => S(start_check_radius(v, i)) /\ \A y \in start_check_radius(v, i) : L(y)
          /\ k = "dns" => S(start_check_dns(v, i)) /\ \A y \in start_check_dns(v, i) : L(y)
      BY SMTT(30), <1>StartRadiusDns DEF start_this
    <3> HIDE DEF L
    <3> QED
      BY <2>2, <3>1, <3>2, <3>3 DEF DgramKinds, L
  <2>3. CASE k \in EchoKinds
    <3>1. /\ k = "ping" => S(start_test_ping(v, i))
          /\ k = "pktloss" => S(start_test_pktloss(v, i))
          /\ k = "pingv6" => S(start_test_pingv6(v, i))
          /\ k = "rtt" => S(start_test_rtt(v, i))
      BY DEF start_this
    <3>2. /\ \A y \in start_test_ping(v, i) : L(y)
          /\ \A y \in start_test_pktloss(v, i) : L(y)
          /\ \A y \in start_test_pingv6(v, i) : L(y)
          /\ \A y \in start_test_rtt(v, i) : L(y)
      BY <2>3, <1>StartEcho
    <3> HIDE DEF L
    <3> QED
      BY <2>3, <3>1, <3>2 DEF EchoKinds, L
  <2> QED
    BY <2>1, <2>2, <2>3 DEF Kinds

(***************************************************************************)
(* The checks with a timeout of their own.                                 *)
(***************************************************************************)

\* A check that has ended has no data.
<1>OverIs.
  ASSUME NEW w \in Worlds, NEW i \in Slots, NEW rv \in Retvals, w.e.data # "null"
  PROVE  /\ Finish(w, i, rv).e.data # "held" /\ Gone(w, i, rv).e.data # "held"
         /\ Forget(Finish(w, i, rv)).e.data # "held"
  <2> USE <1>OverIs
  <2>1. Ended(w, i, rv, "null", Finish(w, i, rv)) /\ Ended(w, i, rv, "freed", Gone(w, i, rv))
    BY <1>FinishIs, <1>GoneIs
  <2>2. Ended(w, i, rv, "null", Forget(Finish(w, i, rv)))
    BY <2>1, <1>EndedForgotten
  <2> QED
    BY <2>1, <2>2 DEF Ended

\* The numbers of an entry, and the times they are compared with.
<1>NumbersAre.
  ASSUME NEW w \in Worlds
  PROVE  /\ w.e.n \in Nat /\ w.e.idle \in Nat /\ w.e.age \in Nat /\ w.e.m \in Nat
         /\ Delay \in Nat \ {0} /\ Interval \in Nat \ {0} /\ Grace \in Nat \ {0}
         /\ Globtimeout \in Nat /\ MinPings \in Nat /\ SendPings \in Nat \ {0}
         /\ MaxSent \in Nat
  <2> USE <1>NumbersAre
  <2>1. w.e.n \in Nat /\ w.e.idle \in 0..Globtimeout /\ w.e.age \in 0..(Killafter + Throttle)
        /\ w.e.m \in Nat
    BY DEF Worlds, Entries
  <2> QED
    BY SMTT(30), <2>1, TimesAssumption

\* What a handler that hears the server leaves alone.
<1>Heard.
  ASSUME NEW w \in Worlds, NEW st \in States
  PROVE  LET x == Hear(w, st)
         IN  /\ x \in Worlds /\ x.e.data = w.e.data /\ x.e.st = st
             /\ x.e.retval = w.e.retval /\ x.e.age = w.e.age
  <2> USE <1>Heard
  <2>1. Hear(w, st) \in Worlds /\ Hear(w, st).e = [w.e EXCEPT !.st = st, !.good = w.e.good + 1]
    BY <1>HearIs
  <2>2. w.e \in Entries
    BY DEF Worlds
  <2> QED
    BY SMTT(30), <2>1, <2>2 DEF Entries

<1>MovesTcp.
  ASSUME NEW i \in Slots, NEW v \in Worlds, v.e.data # "null", NEW x \in service_test_tcp(v, i),
         Going("tcp", x.e)
  PROVE  Moves("tcp", v.e, x.e)
  <2> USE <1>MovesTcp
  <2>1. PICK o \in is_open :
          x = IF o # "INPROG" THEN Finish(Hear(v, "CONNECT"), i, o)
              ELSE IF v.e.age >= Globtimeout THEN Finish(v, i, "TIMEDOUT") ELSE v
    BY DEF service_test_tcp
  <2>2. o # "INPROG" => o \in Retvals
    BY <1>OpenFails DEF Failing, Retvals
  <2>3. Hear(v, "CONNECT") \in Worlds /\ Hear(v, "CONNECT").e.data # "null"
    BY <1>Heard DEF States
  <2>4. ASSUME o # "INPROG" PROVE FALSE
    <3>1. x = Finish(Hear(v, "CONNECT"), i, o)
      BY <2>1, <2>4
    <3> QED
      BY <2>2, <2>3, <2>4, <3>1, <1>OverIs DEF Going
  <2>5. "TIMEDOUT" \in Retvals
    BY DEF Retvals
  <2>6. ~(v.e.age >= Globtimeout) /\ x = v
    BY <2>1, <2>4, <2>5, <1>OverIs DEF Going
  <2>7. v.e.age < Globtimeout
    BY SMTT(30), <2>6, <1>NumbersAre
  <2> QED
    BY <2>6, <2>7 DEF Moves, Young, Going, PacedKinds

\* smtp and ssh while they connect.
<1>MovesConnecting.
  ASSUME NEW k \in {"smtp", "ssh"}, NEW i \in Slots, NEW v \in Worlds, v.e.data # "null",
         v.e.st = "CONNECT", NEW x \in TimedConnecting(v, i, "WAITBAN"), Going(k, x.e)
  PROVE  Moves(k, v.e, x.e)
  <2> USE <1>MovesConnecting
  <2>1. PICK y \in Connecting(v, i, "WAITBAN") :
          x = IF y.e.retval = "pending" /\ v.e.age >= Globtimeout
              THEN Finish(y, i, "TIMEDOUT") ELSE y
    BY DEF TimedConnecting
  <2>2. PICK o \in is_open : \/ o = "INPROG" /\ y = v
                             \/ o = "OK" /\ y = Hear(v, "WAITBAN")
                             \/ o \in Failing \ {"pending"} /\ y = Finish(v, i, o)
    BY <1>OpenFails DEF Connecting
  <2>3. "TIMEDOUT" \in Retvals /\ "WAITBAN" \in States /\ x.e.data = "held"
        /\ x.e.retval = "pending" /\ x.e.st = "CONNECT" /\ "WAITBAN" # "CONNECT"
    BY DEF Retvals, States, Going, SelfTimed
  <2>4. Hear(v, "WAITBAN") \in Worlds /\ Hear(v, "WAITBAN").e.data # "null"
        /\ Hear(v, "WAITBAN").e.st = "WAITBAN"
    BY <2>3, <1>Heard
  <2>5. ASSUME NEW rv \in Failing \ {"pending"}
        PROVE  Finish(v, i, rv).e.data # "held" /\ Finish(v, i, rv).e.retval # "pending"
    <3>1. rv \in Retvals /\ rv # "pending"
      BY DEF Failing
    <3>2. Ended(v, i, rv, "null", Finish(v, i, rv))
      BY <3>1, <1>FinishIs
    <3> QED
      BY <3>1, <3>2 DEF Ended
  <2>6. y = v
    <3>1. ASSUME y = Hear(v, "WAITBAN") PROVE FALSE
      <4>1. x = y \/ x = Finish(y, i, "TIMEDOUT")
        BY <2>1
      <4> QED
        BY <2>3, <2>4, <3>1, <4>1, <1>OverIs
    <3>2. ASSUME o \in Failing \ {"pending"}, y = Finish(v, i, o) PROVE FALSE
      BY <2>1, <2>3, <2>5, <3>2
    <3> QED
      BY <2>2, <3>1, <3>2
  <2>7. x = v /\ ~(v.e.age >= Globtimeout)
    BY <2>1, <2>3, <2>6, <1>OverIs
  <2>8. v.e.age < Globtimeout
    BY SMTT(30), <2>7, <1>NumbersAre
  <2> QED
    BY <2>7, <2>8 DEF Moves, Young, Going, PacedKinds

<1>MovesSmtp.
  ASSUME NEW i \in Slots, NEW v \in Worlds, v.e.data # "null",
         NEW x \in service_test_smtp(v, i), Going("smtp", x.e)
  PROVE  Moves("smtp", v.e, x.e)
  <2> USE <1>MovesSmtp
  <2>1. /\ "SENT_QUIT" \in States \ {"CONNECT"} /\ "GOT_BYE" \in States \ {"CONNECT"}
        /\ "BAD_RESP" \in Retvals /\ "OK" \in Retvals /\ "smtp" \in {"smtp", "ssh"}
    BY DEF States, Retvals
  <2>2. x.e.data = "held" /\ x.e.st = "CONNECT"
    BY DEF Going, SelfTimed
  <2>3. x # Hear(v, "SENT_QUIT") /\ x # Hear(v, "GOT_BYE") /\ x # Finish(v, i, "BAD_RESP")
        /\ x # Finish(v, i, "OK")
    <3>1. Hear(v, "SENT_QUIT").e.st = "SENT_QUIT" /\ Hear(v, "GOT_BYE").e.st = "GOT_BYE"
      BY <2>1, <1>Heard
    <3>2. Finish(v, i, "BAD_RESP").e.data # "held" /\ Finish(v, i, "OK").e.data # "held"
      BY <2>1, <1>OverIs
    <3> QED
      BY <2>1, <2>2, <3>1, <3>2
  <2>4. v.e.st = "CONNECT" /\ x \in TimedConnecting(v, i, "WAITBAN")
    BY <2>2, <2>3 DEF service_test_smtp, At
  <2> QED
    BY <2>1, <2>4, <1>MovesConnecting

<1>MovesSsh.
  ASSUME NEW i \in Slots, NEW v \in Worlds, v.e.data # "null",
         NEW x \in service_test_sshd(v, i), Going("ssh", x.e)
  PROVE  Moves("ssh", v.e, x.e)
  <2> USE <1>MovesSsh
  <2>1. /\ "WAITBAN" \in States /\ "BAD_RESP" \in Retvals /\ "OK" \in Retvals
        /\ "ssh" \in {"smtp", "ssh"}
    BY DEF States, Retvals
  <2>2. x.e.data = "held" /\ x.e.st = "CONNECT"
    BY DEF Going, SelfTimed
  <2>3. Hear(v, "WAITBAN") \in Worlds /\ Hear(v, "WAITBAN").e.data # "null"
    BY <2>1, <1>Heard
  <2>4. x # Finish(Hear(v, "WAITBAN"), i, "OK") /\ x # Finish(v, i, "BAD_RESP")
    BY <2>1, <2>2, <2>3, <1>OverIs
  <2>5. v.e.st = "CONNECT" /\ x \in TimedConnecting(v, i, "WAITBAN")
    BY <2>2, <2>4 DEF service_test_sshd, At
  <2> QED
    BY <2>1, <2>5, <1>MovesConnecting

<1>MovesSnmp.
  ASSUME NEW i \in Slots, NEW v \in Worlds, v.e.data # "null",
         NEW x \in service_test_snmp(v, i), Going("snmp", x.e)
  PROVE  Moves("snmp", v.e, x.e)
  <2> USE <1>MovesSnmp
  <2> DEFINE heard == Hear(v, "ANSWERED")
             end(w, rv) == stop_test_snmp(Answer(w, rv), i)
  <2>1. "ANSWERED" \in States /\ {"NORESP", "BAD_RESP", "OK", "SNMP_ALARM"} \subseteq Retvals
    BY DEF States, Retvals
  <2>2. heard \in Worlds /\ heard.e.st = "ANSWERED"
    BY <2>1, <1>Heard
  <2>3. x.e.data = "held" /\ x.e.st # "ANSWERED"
    BY DEF Going, SelfTimed
  <2> HIDE DEF heard
  <2>4. \A w \in Worlds, rv \in Retvals : end(w, rv).e.data # "held"
    BY AnswerIs, <1>StopSnmpIs DEF Ended
  <2>5. \/ x = v
        \/ x = heard
        \/ x \in {end(v, "NORESP"), end(v, "BAD_RESP"), end(heard, "OK"), end(heard, "SNMP_ALARM")}
    BY DEF service_test_snmp, heard
  <2>6. x = v
    BY <2>1, <2>2, <2>3, <2>4, <2>5
  <2>7. ~(v.e.age >= Globtimeout)
    <3>1. x \in {IF v.e.age >= Globtimeout THEN end(v, "NORESP") ELSE v,
                 end(v, "BAD_RESP"), end(heard, "OK"), end(heard, "SNMP_ALARM"), heard}
      BY <2>3, <2>6 DEF service_test_snmp, heard
    <3> HIDE DEF end
    <3> QED
      BY <2>1, <2>2, <2>3, <2>4, <3>1
  <2>8. v.e.age < Globtimeout
    BY SMTT(30), <2>7, <1>NumbersAre
  <2> QED
    BY <2>6, <2>8 DEF Moves, Young, Going, PacedKinds

<1>MovesUdp.
  ASSUME NEW i \in Slots, NEW v \in Worlds, v.e.data # "null",
         NEW x \in service_test_udp(v, i), Going("udp", x.e)
  PROVE  Moves("udp", v.e, x.e)
  <2> USE <1>MovesUdp
  <2> DEFINE end(w, rv) == Forget(Finish(w, i, rv))
             timed(w) == IF w.e.age >= Globtimeout THEN end(w, "TIMEDOUT") ELSE w
             out == Sent(v)
             sent(w) == IF out.e.n >= MaxTries THEN end(out, "TIMEDOUT") ELSE w
             heard == Hear(v, "CONNECT")
  <2>1. "CONNECT" \in States /\ "TIMEDOUT" \in Retvals /\ "OK" \in Retvals
        /\ \A y : errno_to_error(y) \in Retvals
    BY <1>ErrnoFails DEF States, Retvals, Failing
  <2>2. x.e.data = "held"
    BY DEF Going
  <2>3. heard \in Worlds /\ heard.e.data # "null"
    BY <2>1, <1>Heard
  <2>4. out \in Worlds /\ out.e.data = v.e.data /\ out.e.age = v.e.age
    <3>1. out \in Worlds /\ out.e = [v.e EXCEPT !.idle = 0, !.n = v.e.n + 1]
      BY <1>SentIs
    <3>2. v.e \in Entries
      BY DEF Worlds
    <3> HIDE DEF out
    <3> QED
      BY SMTT(30), <3>1, <3>2 DEF Entries
  <2>5. \A w \in Worlds, rv \in Retvals : w.e.data # "null" => end(w, rv).e.data # "held"
    BY <1>OverIs
  <2>6. CASE Recent(v)
    <3>1. x = v /\ v.e.idle < Delay
      BY <2>6 DEF service_test_udp, Recent
    <3>2. Patience("udp", v.e.n) = Delay - 1
      BY DEF Patience, Gap
    <3>3. v.e.idle <= Patience("udp", v.e.n)
      BY SMTT(30), <3>1, <3>2, <1>NumbersAre
    <3> QED
      BY <3>1, <3>3 DEF Moves, Waits, Going
  <2>7. CASE ~Recent(v)
    <3>1. x \in {end(heard, "OK"), timed(v), sent(timed(out))}
                \cup {end(v, errno_to_error(y)) : y \in Errnos}
                \cup {sent(end(out, errno_to_error(y))) : y \in Errnos}
      BY <2>7 DEF service_test_udp, end, timed, out, sent, heard
    <3> HIDE DEF end, heard, out
    <3>2. x # end(heard, "OK")
      BY <2>1, <2>2, <2>3, <2>5
    <3>a. \A y : x # end(v, errno_to_error(y))
      BY <2>1, <2>2, <2>5
    <3>3. \A y : x # sent(end(out, errno_to_error(y)))
      BY <2>1, <2>2, <2>4, <2>5
    <3>4. x = timed(v) \/ x = sent(timed(out))
      BY <3>1, <3>2, <3>a, <3>3
    <3>5. ~(v.e.age >= Globtimeout) /\ x \in {v, out}
      BY <2>1, <2>2, <2>4, <2>5, <3>4
    <3>6. v.e.age < Globtimeout
      BY SMTT(30), <3>5, <1>NumbersAre
    <3>7. v.e.data = "held" /\ x.e.age = v.e.age
      BY <2>2, <2>4, <3>5
    <3> QED
      BY <3>6, <3>7 DEF Moves, Young, SelfTimed, PacedKinds
  <2> QED
    BY <2>6, <2>7

<1>MovesRadius.
  ASSUME NEW i \in Slots, NEW v \in Worlds, v.e.data # "null",
         NEW x \in service_check_radius(v, i), Going("radius", x.e)
  PROVE  Moves("radius", v.e, x.e)
  <2> USE <1>MovesRadius
  <2>1. PICK w \in Reused(v) :
          \/ Recent(w) /\ x = w
          \/ w.e.n > MaxSent /\ x = Finish(w, i, "NORESP")
          \/ ~Recent(w) /\ ~(w.e.n > MaxSent) /\ x = Sent(w)
          \/ x = Gone(Hear(w, "CONNECT"), i, "OK")
          \/ \E rv \in Retvals : x = Gone(w, i, rv)
    <3>1. "BAD_AUTH" \in Retvals /\ "pending" \in Retvals
          /\ \A y \in Errnos : ReadError(y) \in Retvals
      BY SMTT(30) DEF ReadError, ErrnoTable, Retvals
    <3> QED
      BY <3>1 DEF service_check_radius
  <2>2. w \in Worlds /\ w.e.data = v.e.data /\ (v.e.data = "held" => w = v)
    <3>1. CASE v.e.data # "freed"
      BY SMTT(30), <3>1 DEF Reused
    <3>2. CASE v.e.data = "freed"
      <4>1. PICK n \in {0, MaxSent + 1}, t \in {0, Delay} :
              w = [Harm(v, "uaf") EXCEPT !.e.n = n, !.e.idle = t]
        BY SMTT(30), <3>2 DEF Reused
      <4>2. n \in Nat /\ t \in 0..Globtimeout
        BY SMTT(30), TimesAssumption
      <4>3. w = [v EXCEPT !.harm = v.harm \cup {"uaf"}, !.e = [v.e EXCEPT !.n = n, !.idle = t]]
        BY <4>1 DEF Harm, Worlds
      <4>4. [v.e EXCEPT !.n = n, !.idle = t] \in Entries
            /\ [v.e EXCEPT !.n = n, !.idle = t].data = v.e.data
        BY <4>2 DEF Worlds, Entries
      <4>5. w \in Worlds /\ w.e = [v.e EXCEPT !.n = n, !.idle = t]
        BY <4>3, <4>4 DEF Worlds, Harms
      <4> QED
        BY <3>2, <4>4, <4>5
    <3> QED
      BY <3>1, <3>2
  <2>3. x.e.data = "held" /\ "NORESP" \in Retvals /\ "OK" \in Retvals /\ "CONNECT" \in States
    BY DEF Going, Retvals, States
  <2>4. Hear(w, "CONNECT") \in Worlds /\ Hear(w, "CONNECT").e.data # "null"
    BY <2>2, <2>3, <1>Heard
  <2>5. \/ Recent(w) /\ x = w
        \/ ~Recent(w) /\ ~(w.e.n > MaxSent) /\ x = Sent(w)
    <3>1. x # Finish(w, i, "NORESP") /\ x # Gone(Hear(w, "CONNECT"), i, "OK")
      BY <2>2, <2>3, <2>4, <1>OverIs
    <3>2. \A rv \in Retvals : x # Gone(w, i, rv)
      BY <2>2, <2>3, <1>OverIs
    <3> QED
      BY <2>1, <3>1, <3>2
  <2>6. /\ Sent(w) \in Worlds /\ Sent(w).e.n = w.e.n + 1 /\ Sent(w).e.data = w.e.data
        /\ Sent(w).e.age = w.e.age
    <3>1. Sent(w) \in Worlds /\ Sent(w).e = [w.e EXCEPT !.idle = 0, !.n = w.e.n + 1]
      BY <2>2, <1>SentIs
    <3>2. w.e \in Entries
      BY <2>2 DEF Worlds
    <3> QED
      BY SMTT(30), <3>1, <3>2 DEF Entries
  <2>7. w = v /\ v.e.data = "held"
    BY <2>2, <2>3, <2>5, <2>6
  <2>8. Patience("radius", v.e.n) = Delay - 1 /\ Requests("radius") = MaxSent + 1
        /\ "radius" \in PacedKinds /\ SelfTimed("radius", v.e)
    BY DEF Patience, Gap, Requests, PacedKinds, SelfTimed
  <2>9. CASE Recent(w) /\ x = w
    <3>1. v.e.idle <= Patience("radius", v.e.n)
      BY SMTT(30), <2>7, <2>8, <2>9, <1>NumbersAre DEF Recent
    <3> QED
      BY <2>7, <2>8, <2>9, <3>1 DEF Moves, Waits
  <2>10. CASE ~Recent(w) /\ ~(w.e.n > MaxSent) /\ x = Sent(w)
    <3>1. v.e.idle > Patience("radius", v.e.n) /\ v.e.n < Requests("radius")
      BY SMTT(30), <2>7, <2>8, <2>10, <1>NumbersAre DEF Recent
    <3> QED
      BY <2>6, <2>7, <2>8, <2>10, <3>1 DEF Moves, Asks
  <2> QED
    BY <2>5, <2>9, <2>10

\* A request goes out, or an error is the answer.
<1>PingerAsks.
  ASSUME NEW w \in Worlds, w.e.data = "held", w.e.n < SendPings, NEW x \in Pinger(w)
  PROVE  /\ x \in Worlds /\ x.e.data = "held" /\ x.e.n = w.e.n + 1 /\ x.e.m = w.e.m
         /\ x.e.age = w.e.age
  <2> USE <1>PingerAsks
  <2> DEFINE out == [w EXCEPT !.e.n = Count(@)]
             same(y) == /\ y \in Worlds /\ y.e.data = "held" /\ y.e.n = w.e.n + 1
                        /\ y.e.m = w.e.m /\ y.e.age = w.e.age
  <2>1. Count(w.e.n) = w.e.n + 1 /\ w.e.n + 1 \in Nat
    BY SMTT(30), <1>NumbersAre DEF Count
  <2>2. same(out)
    <3>1. out = [w EXCEPT !.e = [w.e EXCEPT !.n = w.e.n + 1]]
      BY <2>1 DEF Worlds
    <3>2. [w.e EXCEPT !.n = w.e.n + 1] \in Entries
      BY <2>1 DEF Worlds, Entries
    <3>3. out \in Worlds /\ out.e = [w.e EXCEPT !.n = w.e.n + 1]
      BY <3>1, <3>2 DEF Worlds
    <3>4. w.e \in Entries
      BY DEF Worlds
    <3> HIDE DEF out
    <3> QED
      BY SMTT(30), <3>3, <3>4 DEF Entries
  <2> HIDE DEF out
  <2>3. same(Active(out))
    <3>1. Active(out) \in Worlds /\ Active(out).e = [out.e EXCEPT !.idle = 0] /\ out.e \in Entries
      BY <2>2, <1>ActiveIs DEF Worlds
    <3> QED
      BY <2>2, <3>1 DEF Entries
  <2>4. ASSUME NEW rv \in Retvals
        PROVE  same(Answer(out, rv)) /\ same([Answer(out, rv) EXCEPT !.helper = FALSE])
    <3>1. Answer(out, rv) \in Worlds /\ Answer(out, rv).e = [out.e EXCEPT !.retval = rv]
          /\ out.e \in Entries
      BY <2>2, AnswerIs DEF Worlds
    <3>2. same(Answer(out, rv))
      BY <2>2, <3>1 DEF Entries
    <3>3. [Answer(out, rv) EXCEPT !.helper = FALSE] \in Worlds
          /\ [Answer(out, rv) EXCEPT !.helper = FALSE].e = Answer(out, rv).e
      BY <3>1 DEF Worlds
    <3> QED
      BY <3>2, <3>3
  <2>5. "ERR" \in Retvals /\ \A y \in {"ENETUNREACH", "EHOSTUNREACH"} : ErrnoTable[y] \in Retvals
    BY SMTT(30) DEF Retvals, ErrnoTable
  <2>6. \/ x \in {Active(out), out}
        \/ \E y \in {"ENETUNREACH", "EHOSTUNREACH"} : x = Answer(out, ErrnoTable[y])
        \/ x \in {Active(out), Answer(out, "ERR"), [Answer(out, "ERR") EXCEPT !.helper = FALSE]}
    BY DEF Pinger, via_helper, out
  <2> HIDE DEF same
  <2>7. same(x)
    BY <2>2, <2>3, <2>4, <2>5, <2>6
  <2> QED
    BY <2>7 DEF same

<1>DoneIs.
  ASSUME NEW w \in Worlds, w.e.data = "held", NEW rv \in Retvals
  PROVE  Done(w, rv).e.data # "held"
  BY <1>DoneIs, <1>ReleasedIs DEF Done, Released

<1>MovesPktloss.
  ASSUME NEW i \in Slots, NEW v \in Worlds, v.e.data = "held",
         NEW x \in service_test_pktloss(v, i), Going("pktloss", x.e)
  PROVE  Moves("pktloss", v.e, x.e)
  <2> USE <1>MovesPktloss
  <2>1. x.e.data = "held" /\ {"OK", "UNPINGABLE", "PKTLOSS_EXCEED"} \subseteq Retvals
    BY DEF Going, Retvals
  <2>2. \A rv \in {"OK", "UNPINGABLE", "PKTLOSS_EXCEED"} : x # Done(v, rv)
    BY <2>1, <1>DoneIs
  <2>3. \/ v.e.idle <= Delay /\ x = v
        \/ ~(v.e.idle <= Delay) /\ v.e.n < SendPings /\ x \in Pinger(v)
        \/ ~(v.e.n < SendPings) /\ ~(v.e.n >= SendPings /\ v.e.idle >= 2 * Delay) /\ x = v
    BY <2>2 DEF service_test_pktloss, pinger_v4
  <2>4. "pktloss" \in PacedKinds /\ SelfTimed("pktloss", v.e) /\ Requests("pktloss") = SendPings
    BY DEF PacedKinds, SelfTimed, Requests
  <2>5. Patience("pktloss", v.e.n) = IF v.e.n >= SendPings THEN 2 * Delay - 1 ELSE Delay
    BY DEF Patience, Gap
  <2>6. CASE x = v /\ v.e.idle <= Patience("pktloss", v.e.n)
    BY <2>4, <2>6 DEF Moves, Waits
  <2>7. CASE ~(v.e.idle <= Delay) /\ v.e.n < SendPings /\ x \in Pinger(v)
    <3>1. x.e.n = v.e.n + 1 /\ x.e.age = v.e.age
      BY <2>7, <1>PingerAsks
    <3>2. v.e.idle > Patience("pktloss", v.e.n)
      BY SMTT(30), <2>5, <2>7, <1>NumbersAre
    <3> QED
      BY <2>4, <2>7, <3>1, <3>2 DEF Moves, Asks
  <2> QED
    BY SMTT(30), <2>3, <2>5, <2>6, <2>7, <1>NumbersAre

<1>MovesRtt.
  ASSUME NEW i \in Slots, NEW v \in Worlds, v.e.data = "held",
         NEW x \in service_test_rtt(v, i), Going("rtt", x.e)
  PROVE  Moves("rtt", v.e, x.e)
  <2> USE <1>MovesRtt
  <2>1. x.e.data = "held" /\ {"TIMEDOUT", "OK", "RTT_HIGH", "JITTER_HIGH"} \subseteq Retvals
    BY DEF Going, Retvals
  <2>2. x \notin rtt_finish(v)
    BY <2>1, <1>DoneIs DEF rtt_finish
  <2>3. \/ v.e.n < SendPings /\ v.e.idle >= Interval /\ \E y \in Pinger(v) : x = Active(y)
        \/ /\ ~(v.e.n < SendPings /\ v.e.idle >= Interval) /\ x = v
           /\ ~(v.e.n >= SendPings /\ v.e.idle >= Grace)
    BY <2>2 DEF service_test_rtt, pinger_v4
  <2>4. "rtt" \in PacedKinds /\ SelfTimed("rtt", v.e) /\ Requests("rtt") = SendPings
    BY DEF PacedKinds, SelfTimed, Requests
  <2>5. Patience("rtt", v.e.n) = IF v.e.n >= SendPings THEN Grace - 1 ELSE Interval - 1
    BY DEF Patience, Gap
  <2>6. CASE x = v /\ v.e.idle <= Patience("rtt", v.e.n)
    BY <2>4, <2>6 DEF Moves, Waits
  <2>7. CASE v.e.n < SendPings /\ v.e.idle >= Interval /\ \E y \in Pinger(v) : x = Active(y)
    <3>1. PICK y \in Pinger(v) : x = Active(y)
      BY <2>7
    <3>2. y \in Worlds /\ y.e.n = v.e.n + 1 /\ y.e.age = v.e.age
      BY <2>7, <1>PingerAsks
    <3>3. x.e = [y.e EXCEPT !.idle = 0] /\ y.e \in Entries
      BY <3>1, <3>2, <1>ActiveIs DEF Worlds
    <3>4. x.e.n = v.e.n + 1 /\ x.e.age = v.e.age
      BY <3>2, <3>3 DEF Entries
    <3>5. v.e.idle > Patience("rtt", v.e.n)
      BY SMTT(30), <2>5, <2>7, <1>NumbersAre
    <3> QED
      BY <2>4, <2>7, <3>4, <3>5 DEF Moves, Asks
  <2> QED
    BY SMTT(30), <2>3, <2>5, <2>6, <2>7, <1>NumbersAre

<1>MovesPingv6.
  ASSUME NEW i \in Slots, NEW v \in Worlds, v.e.data = "held",
         NEW x \in service_test_pingv6(v, i), Going("pingv6", x.e)
  PROVE  Moves("pingv6", v.e, x.e)
  <2> USE <1>MovesPingv6
  <2> DEFINE out == v.e.n >= SendPings /\ v.e.idle >= 2 * Delay
             again == v.e.m < MinPings /\ v.e.idle >= 2 * Delay
  <2>1. x.e.data = "held" /\ "OK" \in Retvals /\ "UNPINGABLE" \in Retvals
    BY DEF Going, Retvals
  <2>2. x # Done(v, "UNPINGABLE") /\ x # Done(v, "OK")
    BY <2>1, <1>DoneIs
  <2>3. \/ v.e.idle <= Delay /\ x = v
        \/ /\ ~(v.e.idle <= Delay) /\ ~out
           /\ \E y \in IF again THEN Pinger(v) ELSE {v} :
                x = IF MinPings <= y.e.m THEN Done(y, "OK") ELSE y
    BY <2>2 DEF service_test_pingv6, EchoTest, pinger_v6
  <2>4. "pingv6" \in PacedKinds /\ SelfTimed("pingv6", v.e) /\ Requests("pingv6") = SendPings
    BY DEF PacedKinds, SelfTimed, Requests
  <2>5. Patience("pingv6", v.e.n) = 2 * Delay - 1
    BY DEF Patience, Gap
  <2>6. CASE x = v /\ v.e.idle <= Patience("pingv6", v.e.n)
    BY <2>4, <2>6 DEF Moves, Waits
  <2>7. CASE ~out /\ again /\ \E y \in Pinger(v) : x = IF MinPings <= y.e.m THEN Done(y, "OK") ELSE y
    <3>1. PICK y \in Pinger(v) : x = IF MinPings <= y.e.m THEN Done(y, "OK") ELSE y
      BY <2>7
    <3>2. v.e.n < SendPings /\ v.e.idle > Patience("pingv6", v.e.n)
      BY SMTT(30), <2>5, <2>7, <1>NumbersAre
    <3>3. y \in Worlds /\ y.e.data = "held" /\ y.e.n = v.e.n + 1 /\ y.e.age = v.e.age
      BY <3>2, <1>PingerAsks
    <3>4. x = y
      BY <2>1, <3>1, <3>3, <1>DoneIs
    <3> QED
      BY <2>4, <3>2, <3>3, <3>4 DEF Moves, Asks
  <2>8. CASE ~out /\ ~again /\ x = IF MinPings <= v.e.m THEN Done(v, "OK") ELSE v
    <3>1. x = v /\ ~(MinPings <= v.e.m)
      BY <2>2, <2>8
    <3>2. v.e.idle <= Patience("pingv6", v.e.n)
      BY SMTT(30), <2>5, <2>8, <3>1, <1>NumbersAre
    <3> QED
      BY <2>6, <3>1, <3>2
  <2>9. v.e.idle <= Delay => v.e.idle <= Patience("pingv6", v.e.n)
    BY SMTT(30), <2>5, <1>NumbersAre
  <2> HIDE DEF out, again
  <2> QED
    BY <2>3, <2>6, <2>7, <2>8, <2>9

\* No service of a check with a timeout of its own lets it fall behind.
<1>Timed. ServicesTimed
  <2>1. SUFFICES ASSUME NEW i \in Slots, NEW v \in Worlds, NEW x \in service_started(v, i),
                        kind[i] \in Kinds, v.e.data = "freed" => kind[i] \notin EchoKinds,
                        Going(kind[i], x.e)
                 PROVE  Moves(kind[i], v.e, x.e)
    BY DEF ServicesTimed
  <2>2. x.e.data = "held" /\ v.e.data \in {"null", "held", "freed"}
    BY <2>1 DEF Going, Worlds, Entries
  <2>3. v.e.data # "null"
    BY <2>1, <2>2 DEF service_started
  <2>4. /\ kind[i] = "tcp" => x \in service_test_tcp(v, i)
        /\ kind[i] = "smtp" => x \in service_test_smtp(v, i)
        /\ kind[i] = "ssh" => x \in service_test_sshd(v, i)
        /\ kind[i] = "snmp" => x \in service_test_snmp(v, i)
        /\ kind[i] = "udp" => x \in service_test_udp(v, i)
        /\ kind[i] = "radius" => x \in service_check_radius(v, i)
        /\ kind[i] = "pktloss" => x \in service_test_pktloss(v, i)
        /\ kind[i] = "rtt" => x \in service_test_rtt(v, i)
        /\ kind[i] = "pingv6" => x \in service_test_pingv6(v, i)
    BY <2>1, <2>3 DEF service_started
  <2>5. kind[i] \in {"tcp", "smtp", "ssh", "snmp", "udp", "radius", "pktloss", "rtt", "pingv6"}
    BY <2>1 DEF Going, SelfTimed
  <2>6. CASE kind[i] \in {"tcp", "smtp", "ssh"}
    BY <2>1, <2>3, <2>4, <2>6, <1>MovesTcp, <1>MovesSmtp, <1>MovesSsh
  <2>7. CASE kind[i] \in {"snmp", "udp", "radius"}
    BY <2>1, <2>3, <2>4, <2>7, <1>MovesSnmp, <1>MovesUdp, <1>MovesRadius
  <2>8. CASE kind[i] \in {"pktloss", "rtt", "pingv6"}
    <3>1. v.e.data = "held"
      BY <2>1, <2>2, <2>3, <2>8 DEF EchoKinds
    <3> QED
      BY <2>1, <2>4, <2>8, <3>1, <1>MovesPktloss, <1>MovesRtt, <1>MovesPingv6
  <2> QED
    BY <2>5, <2>6, <2>7, <2>8

\* The first request goes out with the start.
<1>Paced. StartsTimed
  <2>1. SUFFICES ASSUME NEW i \in Slots, NEW tnt \in BOOLEAN, NEW v, kind[i] \in PacedKinds,
                        Fresh(kind[i], i, tnt, v), NEW x \in start_this(v, i),
                        x.up, x.e.data = "held", x.e.retval = "pending"
                 PROVE  x.e.n = 1
    BY DEF StartsTimed
  <2> DEFINE m == Malloc(v)
             o == OpenSock(m, i)
             one(y) == y.up /\ y.e.data = "held" /\ y.e.retval = "pending" => y.e.n = 1
  <2>2. v \in Worlds /\ m \in Worlds /\ m.e.data = "held" /\ m.e.n = 0
    <3>1. v \in Worlds /\ v.e \in Entries /\ v.e = NewEntry
      <4>1. v \in Worlds /\ v.e = NewEntry
        BY <2>1 DEF Fresh, Legal
      <4> QED
        BY <4>1 DEF Worlds
    <3>2. m \in Worlds /\ m.e = [v.e EXCEPT !.data = "held"]
      BY <3>1, <1>MallocIs
    <3>3. v.e.n = 0
      BY <3>1 DEF NewEntry, NoEntry
    <3> HIDE DEF m
    <3> QED
      BY SMTT(30), <3>1, <3>2, <3>3 DEF Entries
  <2> HIDE DEF m
  <2>3. ASSUME NEW rv \in Retvals \ {"pending"}
        PROVE  Answer(v, rv).e.retval # "pending" /\ Done(m, rv).e.data # "held"
    <3>1. Answer(v, rv).e = [v.e EXCEPT !.retval = rv] /\ v.e \in Entries
      BY <2>2, AnswerIs DEF Worlds
    <3>2. Answer(v, rv).e.retval = rv
      BY <3>1 DEF Entries
    <3> QED
      BY <2>2, <3>2, <1>DoneIs
  <2>4. "NODNS" \in Retvals \ {"pending"} /\ "OK" \in Retvals \ {"pending"}
    BY DEF Retvals
  <2>5. ASSUME NEW y \in Pinger(m)
        PROVE  Active(y).e.n = 1 /\ Active(Answer(y, "pending")).e.n = 1
    <3>1. m.e.n < SendPings
      BY SMTT(30), <2>2, <1>NumbersAre
    <3>2. y \in Worlds /\ y.e \in Entries /\ y.e.n = 1
      BY SMTT(30), <2>2, <3>1, <1>PingerAsks DEF Worlds
    <3>3. "pending" \in Retvals
      BY DEF Retvals
    <3>4. Answer(y, "pending") \in Worlds /\ Answer(y, "pending").e = [y.e EXCEPT !.retval = "pending"]
      BY <3>2, <3>3, AnswerIs
    <3>5. /\ Active(y).e = [y.e EXCEPT !.idle = 0]
          /\ Active(Answer(y, "pending")).e = [Answer(y, "pending").e EXCEPT !.idle = 0]
      BY <3>2, <3>4, <1>ActiveIs
    <3>6. Active(y).e.n = y.e.n
      BY <3>2, <3>5 DEF Entries
    <3>7. Answer(y, "pending").e \in Entries /\ Answer(y, "pending").e.n = y.e.n
      BY <3>2, <3>4 DEF Worlds, Entries
    <3>8. Active(Answer(y, "pending")).e.n = Answer(y, "pending").e.n
      BY <3>5, <3>7 DEF Entries
    <3> QED
      BY <3>2, <3>6, <3>7, <3>8
  <2>6. ASSUME NEW y, one(y), Legal(kind[i], i, tnt, v, y), x = [y EXCEPT !.e.started = TRUE]
        PROVE  x.e.n = 1
    <3>1. y \in Worlds /\ y.e \in Entries
      BY <2>6 DEF Legal, Worlds
    <3>2. x.up = y.up /\ x.e = [y.e EXCEPT !.started = TRUE]
      BY <2>6, <3>1 DEF Worlds
    <3>3. x.e.data = y.e.data /\ x.e.retval = y.e.retval /\ x.e.n = y.e.n
      BY SMTT(30), <3>1, <3>2 DEF Entries
    <3> QED
      BY <2>1, <2>6, <3>2, <3>3
  <2>7. CASE kind[i] = "radius"
    <3>1. PICK y \in start_check_radius(v, i) : x = [y EXCEPT !.e.started = TRUE]
      BY <2>1, <2>7 DEF start_this
    <3>2. Legal(kind[i], i, tnt, v, y)
      BY <2>1, <2>7, <3>1, <1>StartRadiusDns
    <3>3. CASE y = Answer(v, "NODNS")
      BY <2>3, <2>4, <2>6, <3>1, <3>2, <3>3
    <3>4. CASE FreeFds(m) = {} /\ y = [m EXCEPT !.up = FALSE]
      <4>1. ~y.up
        BY <2>2, <3>4 DEF Worlds
      <4> QED
        BY <2>6, <3>1, <3>2, <4>1
    <3>5. CASE FreeFds(m) # {} /\ (y = Sent(o) \/ \E q \in Errnos : y = Gone(o, i, errno_to_error(q)))
      <4>1. o \in Worlds /\ o.e.data = "held" /\ o.e.n = 0
        <5>1. PICK f \in Fds :
                /\ m.fdt[f] = 0
                /\ OpenSock(m, i) \in Worlds
                /\ OpenSock(m, i).e = [m.e EXCEPT !.fd = f]
                /\ OpenSock(m, i).fdt = [m.fdt EXCEPT ![f] = i]
                /\ OpenSock(m, i).helper = m.helper /\ OpenSock(m, i).icmp = m.icmp
                /\ OpenSock(m, i).harm = m.harm /\ OpenSock(m, i).up = m.up
          BY <2>2, <3>5, <1>OpenSockIs
        <5>2. m.e \in Entries
          BY <2>2 DEF Worlds
        <5>3. o \in Worlds /\ o.e = [m.e EXCEPT !.fd = f]
          BY <5>1
        <5> HIDE DEF o
        <5> QED
          BY <2>2, <5>2, <5>3 DEF Entries
      <4> HIDE DEF o
      <4>2. Sent(o).e.n = 1
        <5>1. Sent(o).e = [o.e EXCEPT !.idle = 0, !.n = o.e.n + 1] /\ o.e \in Entries
          BY <4>1, <1>SentIs DEF Worlds
        <5> QED
          BY SMTT(30), <4>1, <5>1 DEF Entries
      <4>3. \A q : Gone(o, i, errno_to_error(q)).e.data # "held"
        BY <4>1, <1>ErrnoFails, <1>OverIs DEF Failing
      <4> QED
        BY <2>6, <3>1, <3>2, <3>5, <4>2, <4>3
    <3>6. y \in {Answer(v, "NODNS")} \cup
               (IF FreeFds(m) = {} THEN {[m EXCEPT !.up = FALSE]}
                ELSE {Sent(o)} \cup {Gone(o, i, errno_to_error(q)) : q \in Errnos})
      BY DEF start_check_radius, WithSock, m
    <3> HIDE DEF o
    <3> QED
      BY <3>3, <3>4, <3>5, <3>6
  <2>8. CASE kind[i] \in {"pktloss", "pingv6"}
    <3>1. PICK y \in start_test_pktloss(v, i) \cup start_test_pingv6(v, i) :
            x = [y EXCEPT !.e.started = TRUE] /\ Legal(kind[i], i, tnt, v, y)
      <4>1. kind[i] \in EchoKinds
        BY <2>8 DEF EchoKinds
      <4>2. PICK y \in start_test_pktloss(v, i) \cup start_test_pingv6(v, i) :
              x = [y EXCEPT !.e.started = TRUE]
        BY <2>1, <2>8 DEF start_this
      <4>3. Legal(kind[i], i, tnt, v, y)
        BY <2>1, <4>1, <4>2, <1>StartEcho
      <4> QED
        BY <4>2, <4>3
    <3>2. y = Answer(v, "OK") \/ y = Done(m, "NODNS") \/ \E z \in Pinger(m) : y = Active(z)
      BY <3>1 DEF start_test_pktloss, start_test_pingv6, Probing, WithIcmp, pinger_v4,
                         pinger_v6, m
    <3>3. one(y)
      BY <2>3, <2>4, <2>5, <3>2
    <3> QED
      BY <2>6, <3>1, <3>3
  <2>9. CASE kind[i] = "rtt"
    <3>1. PICK y \in start_test_rtt(v, i) :
            x = [y EXCEPT !.e.started = TRUE] /\ Legal(kind[i], i, tnt, v, y)
      <4>1. kind[i] \in EchoKinds
        BY <2>9 DEF EchoKinds
      <4>2. PICK y \in start_test_rtt(v, i) : x = [y EXCEPT !.e.started = TRUE]
        BY <2>1, <2>9 DEF start_this
      <4>3. Legal(kind[i], i, tnt, v, y)
        BY <2>1, <4>1, <4>2, <1>StartEcho
      <4> QED
        BY <4>2, <4>3
    <3>2. \/ y = Answer(v, "OK") \/ y = Answer(v, "NODNS")
          \/ \E z \in Pinger(m) : y = Active(Answer(z, "pending"))
      BY <3>1 DEF start_test_rtt, WithIcmp, pinger_v4, m
    <3>3. one(y)
      BY <2>3, <2>4, <2>5, <3>2
    <3> QED
      BY <2>6, <3>1, <3>3
  <2> QED
    BY <2>1, <2>7, <2>8, <2>9 DEF PacedKinds

<1>Stops. StopsLegal
  BY <1>StopThis DEF StopsLegal
<1>Services. ServicesLegal
  BY <1>StartedLegal DEF ServicesLegal
<1>Starts. StartsLegal
  <2>1. SUFFICES ASSUME NEW i \in Slots, NEW tnt \in BOOLEAN, NEW v, kind[i] \in Kinds,
                        Fresh(kind[i], i, tnt, v), NEW x \in start_this(v, i)
                 PROVE  Begun(kind[i], i, tnt, v, x)
    BY DEF StartsLegal
  <2>2. \E y : Legal(kind[i], i, tnt, v, y) /\ x = [y EXCEPT !.e.started = TRUE]
    BY SMTT(30), <2>1, <1>StartLegal
  <2> QED
    BY <2>2 DEF Begun
<1> QED
  BY <1>Stops, <1>Services, <1>Starts, <1>Timed, <1>Paced
=============================================================================
