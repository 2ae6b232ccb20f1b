--------------------------- MODULE ConfSyncProofs ---------------------------
(***************************************************************************)
(* Proofs about sysmon-web's copy of a site, for every set of              *)
(* configurations, descriptors and links and for any number of changes,    *)
(* reloads and faults: the copy follows the daemon, a descriptor has the   *)
(* SSL of its own connection, a new link is not dropped for an old one's   *)
(* error, and a host leaves the list only in the two known ways.           *)
(***************************************************************************)
EXTENDS ConfSync, ListsProofs, FiniteSetTheorems

\* Zenon proves the steps that name no other prover.
USE ZenonT(30)

(***************************************************************************)
(* Operators of the model.                                                 *)
(***************************************************************************)

\* update_count() numbers the objects of a tree.
LEMMA StampedIs ==
  ASSUME NEW data, IsFiniteSet(DOMAIN data), NEW from \in Nat
  PROVE  /\ DOMAIN Stamped(data, from) = DOMAIN data
         /\ Cardinality(DOMAIN data) \in Nat
         /\ \A o \in DOMAIN data :
              LET x == Stamped(data, from)[o]
              IN  /\ x = [data |-> data[o], seq |-> x.seq]
                  /\ x.seq \in (from + 1)..(from + Cardinality(DOMAIN data))
<1> DEFINE S == DOMAIN data
           n == Cardinality(S)
           order == CHOOSE s \in Arrangements(S) : TRUE
           place(o) == CHOOSE i \in DOMAIN order : order[i] = o
<1>1. n \in Nat /\ ExistsBijection(1..n, S)
  BY FS_CardinalityType
<1>2. PICK b \in Bijection(1..n, S) : TRUE
  BY <1>1 DEF ExistsBijection
<1>3. b \in [1..n -> S] /\ IsInjective(b)
  BY <1>2 DEF Bijection, Injection, IsInjective
<1>4. order \in [1..n -> S] /\ IsInjective(order)
  BY <1>3 DEF Arrangements, Injection, IsInjective
<1> HIDE DEF order
<1>5. IsFiniteSet(1..n) /\ Cardinality(1..n) = n
  <2>1. 1 \in Int /\ n \in Int
    BY SMTT(30), <1>1
  <2>2. IsFiniteSet(1..n) /\ Cardinality(1..n) = IF 1 > n THEN 0 ELSE n - 1 + 1
    BY <2>1, FS_Interval
  <2> QED
    BY SMTT(30), <1>1, <2>2
<1>6. order \in Surjection(1..n, S)
  <2>1. order \in Injection(1..n, S)
    BY <1>4 DEF Injection, IsInjective
  <2> QED
    BY <1>5, <2>1, FS_Injection
<1>7. \A o \in S : place(o) \in 1..n
  BY <1>4, <1>6 DEF Surjection
<1> HIDE DEF place
<1>8. Stamped(data, from) = [o \in S |-> [data |-> data[o], seq |-> from + place(o)]]
  BY DEF Stamped, place, order
<1> HIDE DEF n
<1>9. \A o \in S : from + place(o) \in (from + 1)..(from + n)
  BY SMTT(30), <1>1, <1>7
<1> QED
  BY SMTT(30), <1>1, <1>8, <1>9 DEF n

(***************************************************************************)
(* Types.                                                                  *)
(***************************************************************************)

Stages == {"idle", "names", "conf", "merge", "walk"}

Polls == [at : Stages, link : Links \cup {None}, since : Nat, names : SUBSET Objects,
          got : Tables]

Cells == [data : Data, seq : Nat]

FiniteTables == {t \in Tables : IsFiniteSet(DOMAIN t)}

\* The map that holds nothing.
LEMMA EmptyIs == Empty \in FiniteTables /\ DOMAIN Empty = {}
<1>1. Empty \in [{} -> Data] /\ DOMAIN Empty = {}
  BY DEF Empty
<1>2. {} \in SUBSET Objects
  OBVIOUS
<1>3. Empty \in Tables
  BY <1>1, <1>2 DEF Tables
<1> QED
  BY <1>1, <1>3, FS_EmptySet DEF FiniteTables

\* The requests and the answers of a cycle.
NamesAsked == [what |-> "names?"]
ConfAsked(since) == [what |-> "conf?", since |-> since]
ObjectAsked(o) == [what |-> "obj?", name |-> o]
NameLists == [what : {"names"}, names : SUBSET Objects]
Confs == [what : {"conf"}, objs : FiniteTables, seq : Nat, total : Nat]
Details == [what : {"obj"}, found : Tables]

\* What may be on the link in each stage of a cycle.
MsgOK ==
  /\ poll.at = "idle" => msg = NoMsg
  /\ poll.at = "names" => msg = NamesAsked \/ msg \in NameLists
  /\ poll.at = "conf" => msg = ConfAsked(poll.since) \/ msg \in Confs
  /\ poll.at = "merge" => msg \in Confs
  /\ poll.at = "walk" =>
       msg = NoMsg \/ (\E o \in Objects : msg = ObjectAsked(o)) \/ msg \in Details

\* The daemon's side.
DaemonOK ==
  /\ DOMAIN objs \in Trees /\ objs \in [DOMAIN objs -> Cells]
  /\ glob_change_seq \in Nat /\ \A o \in DOMAIN objs : objs[o].seq \in 1..glob_change_seq
  /\ unstamped \subseteq DOMAIN objs

\* The sockets, with what SslOfItsOwn says of them.
SocketsOK ==
  /\ clients \subseteq [fd : Fds, link : Links \cup {None}]
  /\ \A c, d \in clients : c.fd = d.fd => c = d
  /\ agg_fd \in Fds \cup {None} /\ waiting \in BOOLEAN
  /\ tls_table \in [Fds -> Links \cup {None}]
  /\ \A c \in clients : tls_table[c.fd] = c.link
  /\ \A fd \in Fds : tls_table[fd] # None => \E c \in clients : c.fd = fd

\* The links as both ends see them.  A link that was welcomed and not adopted is
\* open over there and is not the one in use; a poll that goes on over a link
\* that was replaced goes on over a closed one.
LinksOK ==
  /\ far \in [Links -> {"none", "open", "fin", "rst", "silent"}]
  /\ web \subseteq Links /\ greeted \subseteq web
  /\ conn \in Links \cup {None} /\ conn \notin greeted
  /\ conn # None => conn \in web
  /\ poll.at # "idle" => poll.link \in Links /\ poll.link \notin greeted
  /\ poll.at # "idle" /\ poll.link # conn => poll.link \notin web
  /\ poll.at \in {"names", "conf", "merge"} /\ cached => poll.link = conn

\* The copy.
CopyType ==
  /\ confSeq \in Nat /\ cached \in BOOLEAN /\ hostCache \in FiniteTables
  /\ due \in BOOLEAN /\ clean \in BOOLEAN /\ dark \in BOOLEAN /\ lastHosts \in Tables
  /\ poll \in Polls /\ MsgOK /\ steady \subseteq DOMAIN objs

Typed == DaemonOK /\ SocketsOK /\ LinksOK /\ CopyType /\ left \in Budget

(***************************************************************************)
(* What the daemon does to its objects while it lives.                     *)
(***************************************************************************)

\* Each object has a new stamp or the old one, and with the old one also its
\* old data, or it is known to have moved without a stamp.  The counter stands
\* still only where the objects do, or where none is left.
Stamps ==
  /\ DaemonOK'
  /\ glob_change_seq <= glob_change_seq'
  /\ \A o \in DOMAIN objs' :
       \/ objs'[o].seq > glob_change_seq
       \/ /\ o \in DOMAIN objs /\ objs'[o].seq = objs[o].seq
          /\ \/ objs'[o].data = objs[o].data /\ (o \in unstamped => o \in unstamped')
             \/ o \in unstamped'
  /\ glob_change_seq' = glob_change_seq
       => DOMAIN objs' = DOMAIN objs \/ DOMAIN objs' = {}

\* object_changed() stamps what it changes.
LEMMA ChangedStamps ==
  ASSUME DaemonOK, NEW o \in DOMAIN objs, NEW d \in Data, NEW n \in {1, 2}, Changed(o, d, n)
  PROVE  Stamps
<1>1. /\ glob_change_seq' = glob_change_seq + n /\ unstamped' = unstamped \ {o}
      /\ objs' = [objs EXCEPT ![o] = [data |-> d, seq |-> glob_change_seq + n]]
  BY DEF Changed
<1>2. /\ DOMAIN objs' = DOMAIN objs /\ objs'[o] = [data |-> d, seq |-> glob_change_seq + n]
      /\ \A x \in DOMAIN objs \ {o} : objs'[x] = objs[x]
  BY <1>1 DEF DaemonOK
<1>3. /\ glob_change_seq \in Nat /\ glob_change_seq + n \in Nat
      /\ glob_change_seq + n > glob_change_seq
  BY SMTT(30) DEF DaemonOK
<1>4. objs'[o] \in Cells /\ objs'[o].seq = glob_change_seq + n
  BY SMTT(30), <1>2, <1>3 DEF Cells
<1>5. objs' \in [DOMAIN objs' -> Cells]
  BY <1>1, <1>2, <1>4 DEF DaemonOK
<1>6. \A x \in DOMAIN objs' : objs'[x].seq \in 1..glob_change_seq'
  BY SMTT(30), <1>1, <1>2, <1>3, <1>4 DEF DaemonOK
<1>7. DaemonOK'
  BY <1>1, <1>2, <1>3, <1>5, <1>6 DEF DaemonOK
<1> QED
  BY SMTT(30), <1>1, <1>2, <1>3, <1>4, <1>7 DEF Stamps

\* The rewalk changes an object and leaves its stamp.
LEMMA RewalkStamps ==
  ASSUME DaemonOK, NEW o \in DOMAIN objs, PeriodicRewalk(o)
  PROVE  Stamps
<1>1. /\ objs' = [objs EXCEPT ![o].data.lastcheck = "ok"]
      /\ unstamped' = unstamped \cup {o} /\ glob_change_seq' = glob_change_seq
  BY DEF PeriodicRewalk
<1> DEFINE d == [objs[o].data EXCEPT !.lastcheck = "ok"]
<1>2. objs[o] \in Cells /\ objs[o].data \in Data /\ objs[o].seq \in Nat
  BY DEF DaemonOK, Cells
<1>3. d \in Data
  BY <1>2 DEF Data
<1>4. DOMAIN objs' = DOMAIN objs /\ objs'[o] = [objs[o] EXCEPT !.data = d]
      /\ \A x \in DOMAIN objs \ {o} : objs'[x] = objs[x]
  BY <1>1, <1>2 DEF DaemonOK, Cells
<1> HIDE DEF d
<1>5. objs'[o] \in Cells /\ objs'[o].seq = objs[o].seq
  BY <1>2, <1>3, <1>4 DEF Cells
<1>6. objs' \in [DOMAIN objs' -> Cells]
  <2>1. objs' = [x \in DOMAIN objs' |-> objs'[x]]
    BY <1>1
  <2> QED
    BY <1>4, <1>5, <2>1 DEF DaemonOK
<1>7. DaemonOK'
  BY <1>1, <1>4, <1>5, <1>6 DEF DaemonOK
<1> QED
  BY SMTT(30), <1>1, <1>4, <1>5, <1>7 DEF Stamps, DaemonOK

\* update_count() of a tree, from some number on.
LEMMA TreeIs ==
  ASSUME NEW tree \in Trees, NEW data \in [tree -> Data], NEW from \in Nat,
         objs' = Stamped(data, from), glob_change_seq' = from + Cardinality(tree),
         unstamped' = {}
  PROVE  /\ DaemonOK' /\ from <= glob_change_seq' /\ \A o \in DOMAIN objs' : objs'[o].seq > from
         /\ glob_change_seq' = from => DOMAIN objs' = {}
<1>1. IsFiniteSet(tree) /\ DOMAIN data = tree
  BY SrvAssumption
<1>2. /\ DOMAIN objs' = tree /\ Cardinality(tree) \in Nat
      /\ \A o \in tree : /\ objs'[o] = [data |-> data[o], seq |-> objs'[o].seq]
                         /\ objs'[o].seq \in (from + 1)..(from + Cardinality(tree))
  BY <1>1, StampedIs
<1>3. \A o \in tree : objs'[o] \in Cells /\ objs'[o].seq \in 1..glob_change_seq'
                      /\ objs'[o].seq > from
  BY SMTT(30), <1>2 DEF Cells
<1>4. objs' = [o \in DOMAIN objs' |-> objs'[o]]
  <2>1. objs' = Stamped(data, from)
    OBVIOUS
  <2> QED
    BY <2>1 DEF Stamped
<1>5. DaemonOK'
  BY SMTT(30), <1>2, <1>3, <1>4 DEF DaemonOK
<1>6. glob_change_seq' = from => tree = {}
  <2>1. glob_change_seq' = from => Cardinality(tree) = 0
    BY SMTT(30), <1>2
  <2> QED
    BY <1>1, <2>1, FS_EmptySet
<1> QED
  BY SMTT(30), <1>2, <1>3, <1>5, <1>6

\* Spending leaves a budget.
LEMMA SpendIs ==
  ASSUME left \in Budget, NEW w \in {"changes", "reloads", "faults", "accepts"}, Spend(w)
  PROVE  left' \in Budget
<1>1. left' = [left EXCEPT ![w] = @ - 1, !.events = @ - 1] /\ left[w] > 0 /\ left.events > 0
  BY DEF Spend
<1>2. Events \in Nat /\ Changes \in Nat /\ Reloads \in Nat /\ Faults \in Nat /\ Accepts \in Nat
  BY SrvAssumption
<1>3. CASE w = "changes"
  <2>1. left' = [left EXCEPT !.changes = left.changes - 1, !.events = left.events - 1]
    BY <1>1, <1>3
  <2>2. left.changes \in 0..Changes /\ left.events \in 0..Events
    BY DEF Budget
  <2>3. left.changes > 0 /\ left.events > 0
    BY <1>1, <1>3
  <2>4. left.changes - 1 \in 0..Changes /\ left.events - 1 \in 0..Events
    BY SMTT(30), <1>2, <2>2, <2>3
  <2> QED
    BY <2>1, <2>4 DEF Budget
<1>4. CASE w = "reloads"
  <2>1. left' = [left EXCEPT !.reloads = left.reloads - 1, !.events = left.events - 1]
    BY <1>1, <1>4
  <2>2. left.reloads \in 0..Reloads /\ left.events \in 0..Events
    BY DEF Budget
  <2>3. left.reloads > 0 /\ left.events > 0
    BY <1>1, <1>4
  <2>4. left.reloads - 1 \in 0..Reloads /\ left.events - 1 \in 0..Events
    BY SMTT(30), <1>2, <2>2, <2>3
  <2> QED
    BY <2>1, <2>4 DEF Budget
<1>5. CASE w = "faults"
  <2>1. left' = [left EXCEPT !.faults = left.faults - 1, !.events = left.events - 1]
    BY <1>1, <1>5
  <2>2. left.faults \in 0..Faults /\ left.events \in 0..Events
    BY DEF Budget
  <2>3. left.faults > 0 /\ left.events > 0
    BY <1>1, <1>5
  <2>4. left.faults - 1 \in 0..Faults /\ left.events - 1 \in 0..Events
    BY SMTT(30), <1>2, <2>2, <2>3
  <2> QED
    BY <2>1, <2>4 DEF Budget
<1>6. CASE w = "accepts"
  <2>1. left' = [left EXCEPT !.accepts = left.accepts - 1, !.events = left.events - 1]
    BY <1>1, <1>6
  <2>2. left.accepts \in 0..Accepts /\ left.events \in 0..Events
    BY DEF Budget
  <2>3. left.accepts > 0 /\ left.events > 0
    BY <1>1, <1>6
  <2>4. left.accepts - 1 \in 0..Accepts /\ left.events - 1 \in 0..Events
    BY SMTT(30), <1>2, <2>2, <2>3
  <2> QED
    BY <2>1, <2>4 DEF Budget
<1> QED
  BY <1>3, <1>4, <1>5, <1>6

\* The steps of the daemon that change its objects and nothing else.
DataStep ==
  \/ \E o \in DOMAIN objs :
       \/ \E r \in {"ok", "nodns"} : HandleRetval(o, r)
       \/ DoAck(o) \/ DoUnack(o) \/ PeriodicRewalk(o)
  \/ \E tree \in Trees : Reload(tree)

\* A change of the objects touches neither links nor messages.
LEMMA DataStepIs ==
  ASSUME DaemonOK, left \in Budget, DataStep
  PROVE  Stamps /\ left' \in Budget /\ links' = links /\ msg' = msg
<1>1. CASE \E o \in DOMAIN objs, r \in {"ok", "nodns"} : HandleRetval(o, r)
  <2>1. PICK o \in DOMAIN objs, r \in {"ok", "nodns"} : HandleRetval(o, r)
    BY <1>1
  <2> DEFINE d == objs[o].data
             turned == r # d.lastcheck
             ended == r = "ok" /\ d.acked
             e == [lastcheck |-> r, acked |-> d.acked /\ ~ended]
             n == (IF turned THEN 1 ELSE 0) + (IF ended THEN 1 ELSE 0)
  <2>2. /\ turned \/ ended
        /\ Spend("changes") /\ Changed(o, e, n) /\ UNCHANGED <<links, msg>>
    BY <2>1 DEF HandleRetval
  <2>3. n \in {1, 2}
    BY SMTT(30), <2>2
  <2>4. e \in Data
    <3>1. d \in Data
      BY DEF DaemonOK, Cells
    <3>2. (d.acked /\ ~ended) \in BOOLEAN
      OBVIOUS
    <3> QED
      BY <3>2 DEF Data
  <2> QED
    BY <2>2, <2>3, <2>4, ChangedStamps, SpendIs
<1>2. CASE \E o \in DOMAIN objs : DoAck(o) \/ DoUnack(o)
  <2>1. PICK o \in DOMAIN objs, a \in BOOLEAN : SetAck(o, a)
    BY <1>2 DEF DoAck, DoUnack
  <2> DEFINE e == [objs[o].data EXCEPT !.acked = a]
  <2>2. Spend("changes") /\ Changed(o, e, 1) /\ UNCHANGED <<links, msg>>
    BY <2>1 DEF SetAck
  <2>3. e \in Data
    BY DEF DaemonOK, Cells, Data
  <2> QED
    BY <2>2, <2>3, ChangedStamps, SpendIs
<1>3. CASE \E o \in DOMAIN objs : PeriodicRewalk(o)
  <2>1. PICK o \in DOMAIN objs : PeriodicRewalk(o)
    BY <1>3
  <2>2. Spend("changes") /\ UNCHANGED <<links, msg>>
    BY <2>1 DEF PeriodicRewalk
  <2> QED
    BY <2>1, <2>2, RewalkStamps, SpendIs
<1>4. CASE \E tree \in Trees : Reload(tree)
  <2>1. PICK tree \in Trees : Reload(tree)
    BY <1>4
  <2> DEFINE data == [o \in tree |-> IF o \in DOMAIN objs THEN objs[o].data ELSE Fresh]
  <2>2. /\ Spend("reloads") /\ objs' = Stamped(data, glob_change_seq)
        /\ glob_change_seq' = glob_change_seq + Cardinality(tree) /\ unstamped' = {}
        /\ UNCHANGED <<links, msg>>
    BY <2>1 DEF Reload
  <2>3. data \in [tree -> Data] /\ glob_change_seq \in Nat
    BY DEF DaemonOK, Cells, Data, Fresh
  <2> HIDE DEF data
  <2>4. /\ DaemonOK' /\ glob_change_seq <= glob_change_seq'
        /\ \A o \in DOMAIN objs' : objs'[o].seq > glob_change_seq
        /\ glob_change_seq' = glob_change_seq => DOMAIN objs' = {}
    BY <2>2, <2>3, TreeIs
  <2> QED
    BY <2>2, <2>4, SpendIs DEF Stamps
<1> QED
  BY <1>1, <1>2, <1>3, <1>4 DEF DataStep

(***************************************************************************)
(* What happens to the sockets while the daemon lives.                     *)
(***************************************************************************)

\* A client leaves: its descriptor has no SSL any more, its link is not opened.
LEMMA DisconnectIs ==
  ASSUME SocketsOK, LinksOK, NEW c \in clients, Disconnect(c),
         agg_fd' = agg_fd, waiting' = waiting
  PROVE  /\ SocketsOK'
         /\ far' \in [Links -> {"none", "open", "fin", "rst", "silent"}]
         /\ \A n \in Links : far'[n] = "open" => far[n] = "open"
<1>1. clients' = clients \ {c} /\ tls_table' = [tls_table EXCEPT ![c.fd] = None]
  BY DEF Disconnect, DeadClientCleanup
<1>2. c.fd \in Fds /\ c.link \in Links \cup {None} /\ c.fd # None /\ None \notin Links
  BY SrvAssumption DEF SocketsOK, None
<1>3. tls_table'[c.fd] = None /\ \A fd \in Fds \ {c.fd} : tls_table'[fd] = tls_table[fd]
  BY <1>1, <1>2 DEF SocketsOK
<1>4. tls_table' \in [Fds -> Links \cup {None}]
  BY <1>1 DEF SocketsOK
<1>5. \A d \in clients' : d.fd \in Fds \ {c.fd} /\ d \in clients
  BY <1>1 DEF SocketsOK
<1>6. SocketsOK'
  <2>1. \A d \in clients' : tls_table'[d.fd] = d.link
    BY <1>3, <1>5 DEF SocketsOK
  <2>2. \A fd \in Fds : tls_table'[fd] # None => \E d \in clients' : d.fd = fd
    BY <1>1, <1>3 DEF SocketsOK
  <2> QED
    BY <1>1, <1>4, <2>1, <2>2 DEF SocketsOK
<1>7. far' = far \/ \E how \in {"silent", "fin"} :
                       c.link \in Links /\ far' = [far EXCEPT ![c.link] = how]
  BY <1>2 DEF Disconnect, Closed
<1> QED
  BY <1>6, <1>7 DEF LinksOK

\* No link of those in use is opened, closed over there, or welcomed.
Kept(n) == (far'[n] = "open" => far[n] = "open") /\ (n \in web' <=> n \in web)

\* The steps of the daemon that change its sockets and nothing else.
LinkStep ==
  \/ \E fd \in Fds : Accept(fd)
  \/ \E c \in clients : Quit(c) \/ TimeoutClient(c) \/ ReadEof(c)
  \/ AggregatorPoll({conn, poll.link}) \/ BackoffEnds
  \/ \E n \in Links : Cut(n)

LinkStates == {"none", "open", "fin", "rst", "silent"}

\* Links that only one end has left are still links.
LEMMA LinksStay ==
  ASSUME LinksOK, far' \in [Links -> LinkStates], UNCHANGED <<web, greeted, poll, conn, cached>>
  PROVE  LinksOK'
BY DEF LinksOK, LinkStates

\* A client that is accepted has a descriptor number of its own.
LEMMA AcceptIs ==
  ASSUME SocketsOK, NEW fd \in Fds, Accept(fd)
  PROVE  SocketsOK'
<1> DEFINE c == [fd |-> fd, link |-> None]
<1>1. /\ clients' = clients \cup {c} /\ UNCHANGED <<agg_fd, tls_table, waiting>>
      /\ \A d \in clients : d.fd # fd
  BY DEF Accept
<1>2. c \in [fd : Fds, link : Links \cup {None}] /\ c.fd = fd /\ c.link = None
  OBVIOUS
<1> HIDE DEF c
<1>3. tls_table[fd] = None
  BY <1>1 DEF SocketsOK
<1>4. \A d \in clients' : tls_table'[d.fd] = d.link
  BY <1>1, <1>2, <1>3 DEF SocketsOK
<1>5. \A d, e \in clients' : d.fd = e.fd => d = e
  BY <1>1, <1>2 DEF SocketsOK
<1>6. clients' \subseteq [fd : Fds, link : Links \cup {None}]
  BY <1>1, <1>2 DEF SocketsOK
<1>7. \A f \in Fds : tls_table'[f] # None => \E d \in clients' : d.fd = f
  BY <1>1 DEF SocketsOK
<1> QED
  BY <1>1, <1>4, <1>5, <1>6, <1>7 DEF SocketsOK

\* The descriptor of a link that is down has no SSL, or Forgotten takes it away.
LEMMA ForgottenIs ==
  ASSUME SocketsOK, ~StillUp
  PROVE  Forgotten = tls_table
<1>1. CASE agg_fd = None
  BY <1>1 DEF Forgotten
<1>2. CASE agg_fd # None
  <2>1. agg_fd \in Fds /\ tls_table[agg_fd] = None
    BY <1>2 DEF SocketsOK, StillUp
  <2> QED
    BY <1>2, <2>1 DEF Forgotten, SocketsOK
<1> QED
  BY <1>1, <1>2

\* The link that is dialled is one that nobody uses.
LEMMA DialledLink ==
  ASSUME NEW busy, FreeLinks(busy) # {}
  PROVE  (CHOOSE k \in FreeLinks(busy) : \A j \in FreeLinks(busy) : k <= j) \in FreeLinks(busy)
<1>1. FreeLinks(busy) \subseteq Nat
  BY SrvAssumption DEF FreeLinks
<1>2. \E k \in FreeLinks(busy) : \A j \in FreeLinks(busy) : k <= j
  BY <1>1, LeastNatural
<1> QED
  BY <1>2

\* A new link spares the one in use and the one under a poll.
LEMMA DialIs ==
  ASSUME SocketsOK, LinksOK, ~StillUp, UNCHANGED <<poll, conn, cached>>,
         NEW n \in FreeLinks({conn, poll.link}), NEW fd \in Fds, Dialled(n, fd)
  PROVE  /\ SocketsOK' /\ LinksOK'
         /\ \A k \in {conn, poll.link} : k \in Links => Kept(k)
<1> DEFINE c == [fd |-> fd, link |-> n]
<1>1. /\ n \in Links /\ n \notin web /\ n \notin greeted /\ n # conn /\ n # poll.link
      /\ \A d \in clients : d.link # n
  BY DEF FreeLinks
<1>2. /\ \A d \in clients : d.fd # fd
      /\ agg_fd' = fd /\ clients' = clients \cup {c} /\ waiting' = waiting
      /\ tls_table' = [tls_table EXCEPT ![fd] = n] /\ far' = [far EXCEPT ![n] = "open"]
      /\ web' = web \cup {n} /\ greeted' = greeted \cup {n}
  BY ForgottenIs DEF Dialled
<1>3. c \in [fd : Fds, link : Links \cup {None}] /\ c.fd = fd /\ c.link = n
  BY <1>1
<1> HIDE DEF c
<1>4. SocketsOK'
  <2>1. tls_table' \in [Fds -> Links \cup {None}]
    BY <1>1, <1>2 DEF SocketsOK
  <2>2. tls_table'[fd] = n /\ \A f \in Fds \ {fd} : tls_table'[f] = tls_table[f]
    BY <1>2 DEF SocketsOK
  <2>3. \A d \in clients' : tls_table'[d.fd] = d.link
    BY <1>2, <1>3, <2>2 DEF SocketsOK
  <2>4. \A d, e \in clients' : d.fd = e.fd => d = e
    BY <1>2, <1>3 DEF SocketsOK
  <2>5. clients' \subseteq [fd : Fds, link : Links \cup {None}]
    BY <1>2, <1>3 DEF SocketsOK
  <2>6. \A f \in Fds : tls_table'[f] # None => \E d \in clients' : d.fd = f
    BY <1>2, <1>3, <2>2 DEF SocketsOK
  <2> QED
    BY <1>2, <2>1, <2>3, <2>4, <2>5, <2>6 DEF SocketsOK
<1>5. far' \in [Links -> LinkStates] /\ \A k \in Links \ {n} : far'[k] = far[k]
  BY <1>2 DEF LinksOK, LinkStates
<1>6. LinksOK'
  BY <1>1, <1>2, <1>5 DEF LinksOK, LinkStates
<1> QED
  BY <1>1, <1>2, <1>4, <1>5, <1>6 DEF Kept

\* A dial that fails spares them too.
LEMMA DialFailsIs ==
  ASSUME SocketsOK, LinksOK, ~StillUp, UNCHANGED <<poll, conn, cached>>,
         NEW n \in FreeLinks({conn, poll.link}), DialFails(n)
  PROVE  /\ SocketsOK' /\ LinksOK'
         /\ \A k \in {conn, poll.link} : k \in Links => Kept(k)
<1>1. n \in Links /\ n \notin web /\ n \notin greeted /\ n # conn /\ n # poll.link
  BY DEF FreeLinks
<1>2. /\ waiting' = TRUE /\ agg_fd' = None /\ tls_table' = tls_table /\ clients' = clients
      /\ \/ far' = far /\ web' = web /\ greeted' = greeted
         \/ /\ far' = [far EXCEPT ![n] = "fin"]
            /\ web' = web \cup {n} /\ greeted' = greeted \cup {n}
  BY ForgottenIs DEF DialFails
<1>3. SocketsOK'
  BY <1>2 DEF SocketsOK
<1>4. far' \in [Links -> LinkStates] /\ \A k \in Links \ {n} : far'[k] = far[k]
  BY <1>2 DEF LinksOK, LinkStates
<1>5. LinksOK'
  BY <1>1, <1>2, <1>4 DEF LinksOK, LinkStates
<1> QED
  BY <1>1, <1>2, <1>3, <1>4, <1>5 DEF Kept

\* What may happen to a link leaves objects and messages alone.
LEMMA LinkStepIs ==
  ASSUME SocketsOK, LinksOK, left \in Budget, UNCHANGED <<poll, conn, cached>>, LinkStep
  PROVE  /\ SocketsOK' /\ LinksOK' /\ left' \in Budget /\ daemon' = daemon /\ msg' = msg
         /\ \A n \in {conn, poll.link} : n \in Links => Kept(n)
<1>1. CASE \E fd \in Fds : Accept(fd)
  <2>1. PICK fd \in Fds : Accept(fd)
    BY <1>1
  <2>2. /\ Spend("accepts") /\ daemon' = daemon /\ msg' = msg
        /\ UNCHANGED <<far, web, greeted>>
    BY <2>1 DEF Accept
  <2>3. SocketsOK' /\ left' \in Budget
    BY <2>1, <2>2, AcceptIs, SpendIs
  <2>4. far' \in [Links -> LinkStates]
    BY <2>2 DEF LinksOK, LinkStates
  <2>5. LinksOK'
    BY <2>2, <2>4, LinksStay
  <2> QED
    BY <2>2, <2>3, <2>5 DEF Kept
<1>2. CASE \E c \in clients : Quit(c) \/ TimeoutClient(c) \/ ReadEof(c)
  <2>1. PICK c \in clients : Quit(c) \/ TimeoutClient(c) \/ ReadEof(c)
    BY <1>2
  <2>2. Disconnect(c) /\ UNCHANGED <<daemon, agg_fd, waiting, web, greeted, msg, left>>
    BY <2>1 DEF Quit, TimeoutClient, ReadEof
  <2>3. /\ SocketsOK' /\ far' \in [Links -> LinkStates]
        /\ \A n \in Links : far'[n] = "open" => far[n] = "open"
    BY <2>2, DisconnectIs DEF LinkStates
  <2>4. LinksOK'
    BY <2>2, <2>3, LinksStay
  <2> QED
    BY <2>2, <2>3, <2>4 DEF Kept
<1>3. CASE AggregatorPoll({conn, poll.link})
  <2> DEFINE n == CHOOSE k \in FreeLinks({conn, poll.link}) :
                    \A j \in FreeLinks({conn, poll.link}) : k <= j
  <2>1. ~StillUp /\ daemon' = daemon /\ msg' = msg
    BY <1>3 DEF AggregatorPoll
  <2>2. \/ /\ agg_fd' = None /\ tls_table' = Forgotten
           /\ UNCHANGED <<clients, waiting, far, web, greeted, left>>
        \/ /\ FreeLinks({conn, poll.link}) # {}
           /\ (\E fd \in Fds : Dialled(n, fd)) \/ DialFails(n)
    BY <1>3 DEF AggregatorPoll
  <2>3. CASE /\ agg_fd' = None /\ tls_table' = Forgotten
             /\ UNCHANGED <<clients, waiting, far, web, greeted, left>>
    <3>1. tls_table' = tls_table
      BY <2>1, <2>3, ForgottenIs
    <3>2. SocketsOK'
      BY <2>3, <3>1 DEF SocketsOK
    <3>3. far' \in [Links -> LinkStates]
      BY <2>3 DEF LinksOK, LinkStates
    <3>4. LinksOK'
      BY <2>3, <3>3, LinksStay
    <3> QED
      BY <2>1, <2>3, <3>2, <3>4 DEF Kept
  <2>4. ASSUME FreeLinks({conn, poll.link}) # {} PROVE n \in FreeLinks({conn, poll.link})
    BY <2>4, DialledLink
  <2> HIDE DEF n
  <2>5. CASE FreeLinks({conn, poll.link}) # {} /\ \E fd \in Fds : Dialled(n, fd)
    <3>1. PICK fd \in Fds : Dialled(n, fd)
      BY <2>5
    <3>2. left' = left
      BY <3>1 DEF Dialled
    <3>3. n \in FreeLinks({conn, poll.link})
      BY <2>4, <2>5
    <3> QED
      BY <2>1, <3>1, <3>2, <3>3, DialIs
  <2>6. CASE FreeLinks({conn, poll.link}) # {} /\ DialFails(n)
    <3>1. left' \in Budget
      BY <2>6, SpendIs DEF DialFails
    <3>2. n \in FreeLinks({conn, poll.link})
      BY <2>4, <2>6
    <3> QED
      BY <2>1, <2>6, <3>1, <3>2, DialFailsIs
  <2> QED
    BY <2>2, <2>3, <2>5, <2>6
<1>4. CASE BackoffEnds
  <2>1. /\ waiting' = FALSE
        /\ UNCHANGED <<daemon, clients, agg_fd, tls_table, far, web, greeted, msg, left>>
    BY <1>4 DEF BackoffEnds
  <2>2. SocketsOK'
    BY <2>1 DEF SocketsOK
  <2>3. far' \in [Links -> LinkStates]
    BY <2>1 DEF LinksOK, LinkStates
  <2>4. LinksOK'
    BY <2>1, <2>3, LinksStay
  <2> QED
    BY <2>1, <2>2, <2>4 DEF Kept
<1>5. CASE \E n \in Links : Cut(n)
  <2>1. PICK n \in Links : Cut(n)
    BY <1>5
  <2>2. /\ Spend("faults") /\ far' = [far EXCEPT ![n] = "silent"]
        /\ UNCHANGED <<daemon, clients, agg_fd, tls_table, waiting, web, greeted, msg>>
    BY <2>1 DEF Cut
  <2>3. SocketsOK'
    BY <2>2 DEF SocketsOK
  <2>4. /\ far' \in [Links -> LinkStates]
        /\ \A k \in Links : far'[k] = "open" => far[k] = "open"
    BY <2>2 DEF LinksOK, LinkStates
  <2>5. LinksOK'
    BY <2>2, <2>4, LinksStay
  <2>6. left' \in Budget
    BY <2>2, SpendIs
  <2> QED
    BY <2>2, <2>3, <2>4, <2>5, <2>6 DEF Kept
<1> QED
  BY <1>1, <1>2, <1>3, <1>4, <1>5 DEF LinkStep

(***************************************************************************)
(* The invariant.                                                          *)
(***************************************************************************)

Fetched == poll.at \in {"conf", "merge"} /\ msg.what = "conf"

\* The link in use is up at both ends, and so is the one the cycle goes over.
Up == conn # None /\ far[conn] = "open"
PollUp == poll.at # "idle" /\ far[poll.link] = "open"

\* Every object has a stamp that a CONF since s would send.
Above(s) == s <= glob_change_seq /\ \A o \in DOMAIN objs : objs[o].seq > s

\* What a cycle has still to ask for or already holds covers the objects that
\* the daemon had throughout the cycle.
SteadyOK ==
  /\ poll.at = "idle" => steady = DOMAIN objs
  /\ poll.at = "names" /\ msg.what = "names" => steady \subseteq msg.names
  /\ poll.at \in {"conf", "merge"} => steady \subseteq poll.names
  /\ poll.at = "walk" /\ msg = NoMsg => steady \subseteq poll.names \cup DOMAIN poll.got
  /\ poll.at = "walk" /\ msg.what = "obj?" =>
       steady \subseteq poll.names \cup DOMAIN poll.got \cup {msg.name}
  /\ poll.at = "walk" /\ msg.what = "obj" =>
       steady \subseteq poll.names \cup DOMAIN poll.got \cup DOMAIN msg.found
  /\ Fetched /\ poll.since = 0 => steady \subseteq DOMAIN msg.objs
  /\ Fetched /\ DOMAIN msg.objs # {} => poll.since < msg.seq
  /\ poll.at \in {"conf", "merge"} /\ poll.since # 0 /\ cached => confSeq = poll.since
  /\ poll.at \in {"names", "conf", "merge"} => poll.got = Empty

\* A host that is shown and is not in the copy will be sent, or everything will.
ListOK ==
  /\ cached /\ ~due /\ Up /\ poll.at \in {"idle", "names"} =>
       DOMAIN lastHosts \subseteq DOMAIN hostCache \/ Above(confSeq)
  /\ cached /\ ~due /\ Up /\ poll.at = "walk" =>
       Above(confSeq) \/ (poll.link \notin web /\ poll.got = Empty /\ msg = NoMsg)
  /\ poll.at = "conf" /\ msg.what = "conf?" /\ poll.since # 0 /\ cached /\ PollUp =>
       \A o \in DOMAIN lastHosts \cap steady :
         o \in DOMAIN hostCache \/ objs[o].seq > poll.since
  /\ Fetched /\ poll.since # 0 /\ cached =>
       \A o \in DOMAIN lastHosts \cap steady :
         o \in DOMAIN hostCache \/ o \in DOMAIN msg.objs
  /\ Fetched /\ PollUp /\ msg.total = 0 => Above(msg.seq)

CopyOK ==
  /\ clean => cached
  /\ clean /\ Up => confSeq <= glob_change_seq
  /\ CacheFollowsDaemon

\* What an answer to CONF that is still to be merged is worth by now.
ReplyOK ==
  Fetched /\ PollUp =>
    /\ msg.seq <= glob_change_seq
    /\ \A o \in DOMAIN objs : objs[o].seq <= msg.seq /\ objs[o].seq > poll.since =>
          o \in DOMAIN msg.objs /\ (msg.objs[o] = objs[o].data \/ o \in unstamped)
    /\ \A o \in DOMAIN objs \cap DOMAIN msg.objs : objs[o].seq > poll.since
    /\ msg.seq = glob_change_seq /\ DOMAIN objs # {} => msg.total = Cardinality(DOMAIN objs)
    /\ clean /\ poll.link = conn => confSeq <= msg.seq

Inv == Typed /\ SteadyOK /\ ListOK /\ CopyOK /\ ReplyOK

\* What a cycle has had throughout is still there.
LEMMA SteadyIs ==
  ASSUME DaemonOK', Steady
  PROVE  /\ steady' \subseteq DOMAIN objs'
         /\ poll'.at = "idle" => steady' = DOMAIN objs'
         /\ poll'.at # "idle" => steady' \subseteq steady /\ steady' = DOMAIN objs' \cap steady
<1>1. DOMAIN objs' \subseteq Objects
  BY DEF DaemonOK, Objects
<1> QED
  BY <1>1 DEF Steady

\* What was stamped after s stays so.
LEMMA AboveStays ==
  ASSUME DaemonOK, Stamps, NEW s \in Nat, Above(s)
  PROVE  Above(s)'
BY SMTT(30) DEF DaemonOK, Stamps, Above

\* What the daemon does by itself, a restart apart.
LEMMA DaemonKeeps ==
  ASSUME Inv, Stamps, SocketsOK', LinksOK', left' \in Budget, Steady,
         UNCHANGED <<msg, copy, poll, shown>>,
         \A n \in {conn, poll.link} : n \in Links => Kept(n)
  PROVE  Inv'
<1>1. /\ DaemonOK /\ LinksOK /\ CopyType /\ DaemonOK'
      /\ glob_change_seq \in Nat /\ glob_change_seq' \in Nat /\ glob_change_seq <= glob_change_seq'
      /\ confSeq \in Nat /\ \A o \in DOMAIN objs : objs[o].seq \in 1..glob_change_seq
      /\ \A o \in DOMAIN objs' : objs'[o].seq \in 1..glob_change_seq'
  BY DEF Inv, Typed, CopyType, Stamps, DaemonOK
<1>2. /\ msg' = msg /\ poll' = poll /\ conn' = conn /\ confSeq' = confSeq /\ cached' = cached
      /\ hostCache' = hostCache /\ due' = due /\ clean' = clean /\ lastHosts' = lastHosts
      /\ dark' = dark
  BY DEF copy, shown
<1>3. /\ steady' \subseteq DOMAIN objs'
      /\ poll.at = "idle" => steady' = DOMAIN objs'
      /\ poll.at # "idle" => steady' \subseteq steady
  BY <1>1, <1>2, SteadyIs
<1>4. Typed'
  <2>1. MsgOK'
    BY <1>1, <1>2 DEF CopyType, MsgOK
  <2> QED
    BY <1>1, <1>2, <1>3, <2>1 DEF Typed, CopyType
<1>5. SteadyOK'
  BY <1>2, <1>3 DEF Inv, SteadyOK, Fetched
<1>6. (Up' => Up) /\ (PollUp' => PollUp) /\ Fetched' = Fetched
      /\ (poll.at # "idle" /\ poll.link \notin web => poll.link \notin web')
  BY <1>1, <1>2 DEF Up, PollUp, Fetched, LinksOK, Kept
<1>7. Fetched => msg.seq \in Nat /\ poll.since \in Nat
  BY SMTT(30), <1>1 DEF Fetched, CopyType, MsgOK, Confs, Polls, ConfAsked
<1>8. ListOK'
  <2>1. /\ Above(confSeq) => Above(confSeq)'
        /\ Fetched /\ Above(msg.seq) => Above(msg.seq)'
    BY <1>1, <1>7, <1>2, AboveStays
  <2>2. cached' /\ ~due' /\ Up' /\ poll'.at \in {"idle", "names"} =>
          DOMAIN lastHosts' \subseteq DOMAIN hostCache' \/ Above(confSeq)'
    BY <1>2, <1>6, <2>1 DEF Inv, ListOK
  <2>3. cached' /\ ~due' /\ Up' /\ poll'.at = "walk" =>
          Above(confSeq)' \/ (poll'.link \notin web' /\ poll'.got = Empty /\ msg' = NoMsg)
    BY <1>2, <1>6, <2>1 DEF Inv, ListOK
  <2>4. ASSUME poll.at = "conf", msg.what = "conf?", poll.since # 0, cached, PollUp',
               NEW o \in DOMAIN lastHosts \cap steady', o \notin DOMAIN hostCache
        PROVE  objs'[o].seq > poll.since
    <3>1. o \in steady /\ o \in DOMAIN objs'
      BY <1>3, <2>4
    <3>2. objs[o].seq > poll.since /\ o \in DOMAIN objs
      BY <1>1, <1>6, <2>4, <3>1 DEF Inv, ListOK, CopyType
    <3>3. objs'[o].seq > glob_change_seq \/ objs'[o].seq = objs[o].seq
      BY <3>1 DEF Stamps
    <3>4. poll.since \in Nat /\ objs'[o].seq \in Nat /\ objs[o].seq \in 1..glob_change_seq
      BY SMTT(30), <1>1, <3>1, <3>2 DEF CopyType, Polls
    <3> QED
      BY SMTT(30), <1>1, <3>2, <3>3, <3>4
  <2>5. Fetched' /\ poll'.since # 0 /\ cached' =>
          \A o \in DOMAIN lastHosts' \cap steady' :
            o \in DOMAIN hostCache' \/ o \in DOMAIN msg'.objs
    BY <1>2, <1>3, <1>6 DEF Inv, ListOK, Fetched
  <2>6. Fetched' /\ PollUp' /\ msg'.total = 0 => Above(msg.seq)'
    BY <1>2, <1>6, <2>1 DEF Inv, ListOK
  <2> QED
    BY <1>2, <2>2, <2>3, <2>4, <2>5, <2>6 DEF ListOK
<1>9. CopyOK'
  <2>1. clean' /\ Up' => confSeq' <= glob_change_seq'
    BY SMTT(30), <1>1, <1>2, <1>6 DEF Inv, CopyOK
  <2>2. ASSUME clean, Up', NEW o \in DOMAIN objs', objs'[o].seq <= confSeq
        PROVE  o \in DOMAIN hostCache /\ (hostCache[o] = objs'[o].data \/ o \in unstamped')
    <3>1. clean /\ Up /\ confSeq <= glob_change_seq
      BY <1>6, <2>2 DEF Inv, CopyOK
    <3>2. /\ o \in DOMAIN objs /\ objs'[o].seq = objs[o].seq
          /\ \/ objs'[o].data = objs[o].data /\ (o \in unstamped => o \in unstamped')
             \/ o \in unstamped'
      BY SMTT(30), <1>1, <2>2, <3>1 DEF Stamps
    <3>3. o \in DOMAIN hostCache /\ (hostCache[o] = objs[o].data \/ o \in unstamped)
      BY <2>2, <3>1, <3>2 DEF Inv, CopyOK, CacheFollowsDaemon, Up
    <3> QED
      BY <3>2, <3>3
  <2>3. ASSUME clean, Up', NEW o \in DOMAIN hostCache \ DOMAIN objs'
        PROVE  due \/ confSeq < glob_change_seq' \/ DOMAIN objs' = {}
    <3>1. clean /\ Up /\ confSeq <= glob_change_seq
      BY <1>6, <2>3 DEF Inv, CopyOK
    <3>2. CASE glob_change_seq' = glob_change_seq
      <4>1. DOMAIN objs' = DOMAIN objs \/ DOMAIN objs' = {}
        BY <3>2 DEF Stamps
      <4> QED
        BY <2>3, <3>1, <3>2, <4>1 DEF Inv, CopyOK, CacheFollowsDaemon, Up
    <3>3. CASE glob_change_seq' # glob_change_seq
      BY SMTT(30), <1>1, <3>1, <3>3
    <3> QED
      BY <3>2, <3>3
  <2> QED
    BY <1>2, <2>1, <2>2, <2>3 DEF Inv, CopyOK, CacheFollowsDaemon, Up
<1>10. ReplyOK'
  <2> SUFFICES ASSUME Fetched', PollUp' PROVE ReplyOK'
    BY DEF ReplyOK
  <2>1. Fetched /\ PollUp /\ msg.seq \in Nat /\ poll.since \in Nat
    BY <1>6, <1>7
  <2>2. /\ msg.seq <= glob_change_seq
        /\ \A o \in DOMAIN objs : objs[o].seq <= msg.seq /\ objs[o].seq > poll.since =>
              o \in DOMAIN msg.objs /\ (msg.objs[o] = objs[o].data \/ o \in unstamped)
        /\ \A o \in DOMAIN objs \cap DOMAIN msg.objs : objs[o].seq > poll.since
        /\ msg.seq = glob_change_seq /\ DOMAIN objs # {} =>
             msg.total = Cardinality(DOMAIN objs)
        /\ clean /\ poll.link = conn => confSeq <= msg.seq
        /\ DOMAIN msg.objs # {} => poll.since < msg.seq
    BY <2>1 DEF Inv, ReplyOK, SteadyOK
  <2>3. ASSUME NEW o \in DOMAIN objs', objs'[o].seq <= msg.seq, objs'[o].seq > poll.since
        PROVE  o \in DOMAIN msg.objs /\ (msg.objs[o] = objs'[o].data \/ o \in unstamped')
    <3>1. ~(objs'[o].seq > glob_change_seq)
      BY SMTT(30), <1>1, <2>1, <2>2, <2>3
    <3>2. /\ o \in DOMAIN objs /\ objs'[o].seq = objs[o].seq
          /\ \/ objs'[o].data = objs[o].data /\ (o \in unstamped => o \in unstamped')
             \/ o \in unstamped'
      BY <3>1 DEF Stamps
    <3> QED
      BY <2>2, <2>3, <3>2
  <2>4. ASSUME NEW o \in DOMAIN objs' \cap DOMAIN msg.objs PROVE objs'[o].seq > poll.since
    <3>1. objs'[o].seq > glob_change_seq \/ (o \in DOMAIN objs /\ objs'[o].seq = objs[o].seq)
      BY DEF Stamps
    <3> QED
      BY SMTT(30), <1>1, <2>1, <2>2, <3>1
  <2>5. msg.seq = glob_change_seq' /\ DOMAIN objs' # {} =>
          msg.total = Cardinality(DOMAIN objs')
    BY SMTT(30), <1>1, <2>1, <2>2 DEF Stamps
  <2> QED
    BY SMTT(30), <1>1, <1>2, <2>1, <2>2, <2>3, <2>4, <2>5 DEF ReplyOK
<1> QED
  BY <1>4, <1>5, <1>8, <1>9, <1>10 DEF Inv

\* A restart loses every link and stamps anew.
LEMMA RestartIs ==
  ASSUME DaemonOK, LinksOK, left \in Budget, NEW tree \in Trees, Restart(tree),
         UNCHANGED <<poll, conn, cached>>
  PROVE  /\ DaemonOK' /\ SocketsOK' /\ LinksOK' /\ left' \in Budget /\ msg' = msg
         /\ \A n \in Links : far'[n] # "open"
<1>1. PICK saved \in BOOLEAN :
        objs' = Stamped([o \in tree |-> IF saved /\ o \in DOMAIN objs THEN objs[o].data
                                        ELSE Fresh], 0)
  BY DEF Restart
<1> DEFINE data == [o \in tree |-> IF saved /\ o \in DOMAIN objs THEN objs[o].data ELSE Fresh]
<1>2. PICK how \in {"fin", "rst", "silent"} :
        far' = [n \in Links |-> IF far[n] = "open" THEN how ELSE far[n]]
  BY DEF Restart
<1>3. /\ Spend("faults") /\ glob_change_seq' = Cardinality(tree) /\ unstamped' = {}
      /\ clients' = {} /\ agg_fd' = None /\ waiting' = FALSE
      /\ tls_table' = [fd \in Fds |-> None] /\ UNCHANGED <<web, greeted, msg>>
  BY DEF Restart
<1>4. data \in [tree -> Data] /\ objs' = Stamped(data, 0)
  BY <1>1 DEF DaemonOK, Cells, Data, Fresh
<1> HIDE DEF data
<1>5. DaemonOK'
  <2>1. Cardinality(tree) \in Nat
    BY SrvAssumption, FS_CardinalityType
  <2>2. 0 \in Nat /\ glob_change_seq' = 0 + Cardinality(tree)
    BY SMTT(30), <1>3, <2>1
  <2> QED
    BY <1>3, <1>4, <2>2, TreeIs
<1>6. SocketsOK'
  BY <1>3 DEF SocketsOK
<1>7. far' \in [Links -> LinkStates] /\ \A n \in Links : far'[n] # "open"
  BY <1>2 DEF LinksOK, LinkStates
<1>8. LinksOK'
  BY <1>3, <1>7, LinksStay
<1> QED
  BY <1>3, <1>5, <1>6, <1>7, <1>8, SpendIs

\* A restart of sysmond keeps Inv: no link is up for the copy to answer for.
LEMMA RestartKeeps ==
  ASSUME Inv, NEW tree \in Trees, Restart(tree), Steady, UNCHANGED <<copy, poll, shown>>
  PROVE  Inv'
<1>1. DaemonOK /\ LinksOK /\ CopyType /\ left \in Budget
  BY DEF Inv, Typed
<1>2. /\ poll' = poll /\ conn' = conn /\ confSeq' = confSeq /\ cached' = cached
      /\ hostCache' = hostCache /\ due' = due /\ clean' = clean /\ lastHosts' = lastHosts
      /\ dark' = dark
  BY DEF copy, shown
<1>3. /\ DaemonOK' /\ SocketsOK' /\ LinksOK' /\ left' \in Budget /\ msg' = msg
      /\ \A n \in Links : far'[n] # "open"
  BY <1>1, <1>2, RestartIs
<1>4. /\ steady' \subseteq DOMAIN objs'
      /\ poll.at = "idle" => steady' = DOMAIN objs'
      /\ poll.at # "idle" => steady' \subseteq steady
  BY <1>2, <1>3, SteadyIs
<1>5. Typed'
  <2>1. MsgOK'
    BY <1>1, <1>2, <1>3 DEF CopyType, MsgOK
  <2> QED
    BY <1>1, <1>2, <1>3, <1>4, <2>1 DEF Typed, CopyType
<1>6. SteadyOK'
  BY <1>2, <1>3, <1>4 DEF Inv, SteadyOK, Fetched
<1>7. ~Up' /\ ~PollUp'
  BY <1>1, <1>2, <1>3 DEF Up, PollUp, LinksOK
<1>8. ListOK'
  <2>1. Fetched' /\ poll'.since # 0 /\ cached' =>
          \A o \in DOMAIN lastHosts' \cap steady' :
            o \in DOMAIN hostCache' \/ o \in DOMAIN msg'.objs
    BY <1>2, <1>3, <1>4 DEF Inv, ListOK, Fetched
  <2> QED
    BY <1>7, <2>1 DEF ListOK
<1>9. CopyOK'
  BY <1>2, <1>7 DEF Inv, CopyOK, CacheFollowsDaemon, Up
<1> QED
  BY <1>5, <1>6, <1>7, <1>8, <1>9 DEF Inv, ReplyOK

\* The steps that leave the daemon, its sockets and the shown hosts alone.
LEMMA TypedStays ==
  ASSUME Typed, Steady, UNCHANGED <<daemon, clients, agg_fd, tls_table, waiting>>
  PROVE  /\ DaemonOK' /\ SocketsOK' /\ steady' \subseteq DOMAIN objs
         /\ poll'.at = "idle" => steady' = DOMAIN objs
         /\ poll'.at # "idle" => steady' = steady
<1>1. DaemonOK' /\ SocketsOK' /\ objs' = objs /\ steady \subseteq DOMAIN objs
  BY DEF Typed, CopyType, DaemonOK, SocketsOK, daemon
<1> QED
  BY <1>1, SteadyIs

\* The same for a step of the poll cycle that does not touch the links either.
LEMMA AboveSame ==
  ASSUME UNCHANGED daemon, NEW s
  PROVE  Above(s)' = Above(s)
BY DEF Above, daemon

\* An adoption keeps Inv: it drops the copy (adoptAgent).
LEMMA AdoptKeeps ==
  ASSUME Inv, NEW n \in Links, AdoptAgent(n), Steady
  PROVE  Inv'
<1>1. /\ n \in greeted /\ greeted' = greeted \ {n} /\ web' = web \ {conn} /\ conn' = n
      /\ confSeq' = 0 /\ cached' = FALSE /\ hostCache' = Empty /\ dark' = FALSE /\ clean' = FALSE
      /\ UNCHANGED <<daemon, clients, agg_fd, tls_table, waiting, far, msg, left, due, poll,
                     lastHosts>>
  BY DEF AdoptAgent
<1>2. DaemonOK /\ LinksOK /\ CopyType /\ left \in Budget /\ Typed
  BY DEF Inv, Typed
<1>3. /\ DaemonOK' /\ SocketsOK' /\ steady' \subseteq DOMAIN objs
      /\ poll.at = "idle" => steady' = DOMAIN objs
      /\ poll.at # "idle" => steady' = steady
  BY <1>1, <1>2, TypedStays
<1>4. objs' = objs /\ unstamped' = unstamped /\ glob_change_seq' = glob_change_seq
  BY <1>1 DEF daemon
<1>5. LinksOK'
  BY <1>1, <1>2, SrvAssumption DEF LinksOK, None
<1>6. Typed'
  <2>1. MsgOK'
    BY <1>1, <1>2 DEF CopyType, MsgOK
  <2> QED
    BY <1>1, <1>2, <1>3, <1>4, <1>5, <2>1, EmptyIs DEF Typed, CopyType
<1>7. SteadyOK'
  BY <1>1, <1>3, <1>4 DEF Inv, SteadyOK, Fetched
<1>8. ListOK'
  <2>1. Fetched' /\ PollUp' /\ msg'.total = 0 => Above(msg.seq)'
    BY <1>1, AboveSame DEF Inv, ListOK, Fetched, PollUp
  <2> QED
    BY <1>1, <2>1 DEF ListOK
<1>9. CopyOK'
  BY <1>1 DEF CopyOK, CacheFollowsDaemon
<1>10. ReplyOK'
  BY <1>1, <1>4 DEF Inv, ReplyOK, Fetched, PollUp
<1> QED
  BY <1>6, <1>7, <1>8, <1>9, <1>10 DEF Inv

\* The interval of the full resync keeps Inv.
LEMMA ResyncKeeps ==
  ASSUME Inv, ResyncDue, Steady
  PROVE  Inv'
<1>1. /\ due' = TRUE
      /\ UNCHANGED <<srvVars, conn, confSeq, cached, hostCache, clean, poll, shown>>
  BY DEF ResyncDue
<1>2. /\ UNCHANGED <<daemon, clients, agg_fd, tls_table, waiting, far, web, greeted, msg, left>>
      /\ UNCHANGED <<lastHosts, dark>>
  BY <1>1 DEF srvVars, links, shown
<1>3. DaemonOK /\ LinksOK /\ CopyType /\ left \in Budget /\ Typed
  BY DEF Inv, Typed
<1>4. /\ DaemonOK' /\ SocketsOK' /\ steady' \subseteq DOMAIN objs
      /\ poll.at = "idle" => steady' = DOMAIN objs
      /\ poll.at # "idle" => steady' = steady
  BY <1>1, <1>2, <1>3, TypedStays
<1>5. objs' = objs /\ unstamped' = unstamped /\ glob_change_seq' = glob_change_seq
  BY <1>2 DEF daemon
<1>6. Typed'
  <2>1. MsgOK'
    BY <1>1, <1>2, <1>3 DEF CopyType, MsgOK
  <2>2. LinksOK'
    BY <1>1, <1>2, <1>3 DEF LinksOK
  <2> QED
    BY <1>1, <1>2, <1>3, <1>4, <1>5, <2>1, <2>2 DEF Typed, CopyType
<1>7. SteadyOK'
  BY <1>1, <1>2, <1>4, <1>5 DEF Inv, SteadyOK, Fetched
<1>8. ListOK'
  <2>1. Fetched' /\ PollUp' /\ msg'.total = 0 => Above(msg.seq)'
    BY <1>1, <1>2, AboveSame DEF Inv, ListOK, Fetched, PollUp
  <2>2. poll'.at = "conf" /\ msg'.what = "conf?" /\ poll'.since # 0 /\ cached' /\ PollUp' =>
          \A o \in DOMAIN lastHosts' \cap steady' :
            o \in DOMAIN hostCache' \/ objs'[o].seq > poll'.since
    BY <1>1, <1>2, <1>4, <1>5 DEF Inv, ListOK, PollUp
  <2>3. Fetched' /\ poll'.since # 0 /\ cached' =>
          \A o \in DOMAIN lastHosts' \cap steady' :
            o \in DOMAIN hostCache' \/ o \in DOMAIN msg'.objs
    BY <1>1, <1>2, <1>4 DEF Inv, ListOK, Fetched
  <2> QED
    BY <1>1, <1>2, <2>1, <2>2, <2>3 DEF ListOK
<1>9. CopyOK'
  BY <1>1, <1>2, <1>5 DEF Inv, CopyOK, CacheFollowsDaemon, Up
<1>10. ReplyOK'
  BY <1>1, <1>2, <1>5 DEF Inv, ReplyOK, Fetched, PollUp
<1> QED
  BY <1>6, <1>7, <1>8, <1>9, <1>10 DEF Inv

(***************************************************************************)
(* An answer of the daemon.                                                *)
(***************************************************************************)

\* send_conf: what was stamped later than asked for.
LEMMA ConfAnswer ==
  ASSUME DaemonOK, NEW since \in Nat
  PROVE  LET a == SendConf(since) IN
         /\ a \in Confs /\ a.what = "conf"
         /\ DOMAIN a.objs = {o \in DOMAIN objs : objs[o].seq > since}
         /\ \A o \in DOMAIN a.objs : a.objs[o] = objs[o].data
         /\ a.seq = glob_change_seq /\ a.total = Cardinality(DOMAIN objs)
<1> DEFINE a == SendConf(since)
           S == {o \in DOMAIN objs : objs[o].seq > since}
           t == [o \in S |-> objs[o].data]
<1>1. IsFiniteSet(DOMAIN objs) /\ DOMAIN objs \subseteq Objects
  BY SrvAssumption DEF DaemonOK, Objects
<1>2. IsFiniteSet(S) /\ S \subseteq Objects
  BY <1>1, FS_Subset
<1>3. t \in [S -> Data]
  BY DEF DaemonOK, Cells
<1>4. t \in FiniteTables
  <2>1. t \in Tables
    BY <1>2, <1>3 DEF Tables
  <2> QED
    BY <1>2, <2>1 DEF FiniteTables
<1>5. Cardinality(DOMAIN objs) \in Nat /\ glob_change_seq \in Nat
  BY <1>1, FS_CardinalityType DEF DaemonOK
<1>6. a = [what |-> "conf", objs |-> t, seq |-> glob_change_seq,
           total |-> Cardinality(DOMAIN objs)]
  BY DEF SendConf
<1>7. DOMAIN t = S /\ \A o \in S : t[o] = objs[o].data
  OBVIOUS
<1> HIDE DEF t, S
<1>8. a \in Confs
  BY SMTT(30), <1>4, <1>5, <1>6 DEF Confs
<1> QED
  BY SMTT(30), <1>6, <1>7, <1>8 DEF S

\* What an object request is answered with.
LEMMA ObjectAnswer ==
  ASSUME DaemonOK, NEW o \in Objects
  PROVE  LET a == ShowObject(o) IN
         a \in Details /\ a.what = "obj" /\ DOMAIN a.found = {o} \cap DOMAIN objs
<1> DEFINE S == {o} \cap DOMAIN objs
           t == [x \in S |-> objs[x].data]
<1>1. t \in [S -> Data] /\ S \subseteq Objects /\ DOMAIN t = S
  BY DEF DaemonOK, Cells
<1>2. t \in Tables
  BY <1>1 DEF Tables
<1>3. ShowObject(o) = [what |-> "obj", found |-> t]
  BY DEF ShowObject
<1> QED
  BY SMTT(30), <1>1, <1>2, <1>3 DEF Details

\* Each kind of request gets its answer.
LEMMA AnswerIs ==
  ASSUME DaemonOK, CopyType, Unserved
  PROVE  \/ /\ poll.at = "names" /\ msg.what = "names?"
            /\ Answer = [what |-> "names", names |-> DOMAIN objs]
         \/ /\ poll.at = "conf" /\ msg.what = "conf?" /\ poll.since \in Nat
            /\ Answer = SendConf(poll.since)
         \/ /\ poll.at = "walk" /\ msg.what = "obj?" /\ msg.name \in Objects
            /\ Answer = ShowObject(msg.name)
<1>1. poll.at \in Stages /\ poll.since \in Nat
  BY DEF CopyType, Polls
<1>2. CASE poll.at = "idle"
  BY SMTT(30), <1>2 DEF CopyType, MsgOK, NoMsg, Unserved
<1>3. CASE poll.at = "names"
  BY SMTT(30), <1>3 DEF CopyType, MsgOK, NamesAsked, NameLists, Unserved, Answer
<1>4. CASE poll.at = "conf"
  BY SMTT(30), <1>1, <1>4 DEF CopyType, MsgOK, ConfAsked, Confs, Unserved, Answer
<1>5. CASE poll.at = "merge"
  BY <1>5 DEF CopyType, MsgOK, Confs, Unserved
<1>6. CASE poll.at = "walk"
  <2>1. PICK o \in Objects : msg = ObjectAsked(o)
    BY SMTT(30), <1>6 DEF CopyType, MsgOK, NoMsg, Details, Unserved
  <2> QED
    BY <1>6, <2>1 DEF ObjectAsked, Answer
<1> QED
  BY <1>1, <1>2, <1>3, <1>4, <1>5, <1>6 DEF Stages

\* An answer of sysmond keeps Inv: it is right when it is given.
LEMMA ServiceKeeps ==
  ASSUME Inv, DoService(poll.link), Steady, UNCHANGED <<copy, poll, shown>>
  PROVE  Inv'
<1>1. /\ Unserved /\ far[poll.link] = "open" /\ msg' = Answer
      /\ UNCHANGED <<daemon, clients, agg_fd, tls_table, waiting, far, web, greeted, left>>
  BY DEF DoService, links
<1>2. /\ poll' = poll /\ conn' = conn /\ confSeq' = confSeq /\ cached' = cached
      /\ hostCache' = hostCache /\ due' = due /\ clean' = clean /\ lastHosts' = lastHosts
      /\ dark' = dark
  BY DEF copy, shown
<1>3. DaemonOK /\ LinksOK /\ CopyType /\ left \in Budget /\ Typed
  BY DEF Inv, Typed
<1>4. objs' = objs /\ unstamped' = unstamped /\ glob_change_seq' = glob_change_seq
  BY <1>1 DEF daemon
<1>5. \/ /\ poll.at = "names" /\ msg.what = "names?"
         /\ msg' = [what |-> "names", names |-> DOMAIN objs]
      \/ /\ poll.at = "conf" /\ msg.what = "conf?" /\ poll.since \in Nat
         /\ msg' = SendConf(poll.since)
      \/ /\ poll.at = "walk" /\ msg.what = "obj?" /\ msg.name \in Objects
         /\ msg' = ShowObject(msg.name)
  BY <1>1, <1>3, AnswerIs
<1>6. poll.at # "idle" /\ PollUp
  BY <1>1, <1>5 DEF PollUp
<1>7. DaemonOK' /\ SocketsOK' /\ steady' = steady /\ steady \subseteq DOMAIN objs
  BY <1>1, <1>2, <1>3, <1>6, TypedStays DEF CopyType
<1>8. LinksOK'
  BY <1>1, <1>2, <1>3 DEF LinksOK
<1>9. MsgOK' => Typed'
  BY <1>1, <1>2, <1>3, <1>4, <1>7, <1>8 DEF Typed, CopyType
<1>10. CopyOK'
  BY <1>1, <1>2, <1>4 DEF Inv, CopyOK, CacheFollowsDaemon, Up
<1>11. Up' = Up /\ PollUp'
  BY <1>1, <1>2, <1>6 DEF Up, PollUp
<1>12. CASE /\ poll.at = "names" /\ msg.what = "names?"
            /\ msg' = [what |-> "names", names |-> DOMAIN objs]
  <2>1. msg'.what = "names" /\ msg'.names = DOMAIN objs /\ DOMAIN objs \subseteq Objects
    BY <1>3, <1>12 DEF DaemonOK, Objects
  <2>2. MsgOK'
    BY <1>2, <1>12, <2>1 DEF MsgOK, NameLists
  <2>3. SteadyOK'
    BY <1>2, <1>7, <1>12, <2>1 DEF Inv, SteadyOK, Fetched
  <2>4. ListOK'
    BY <1>2, <1>11, <1>12, <1>1, AboveSame DEF Inv, ListOK, Fetched
  <2>5. ReplyOK'
    BY <1>2, <1>12 DEF ReplyOK, Fetched
  <2> QED
    BY <1>9, <1>10, <2>2, <2>3, <2>4, <2>5 DEF Inv
<1>13. CASE /\ poll.at = "conf" /\ msg.what = "conf?" /\ poll.since \in Nat
            /\ msg' = SendConf(poll.since)
  <2>1. /\ msg' \in Confs /\ msg'.what = "conf"
        /\ DOMAIN msg'.objs = {o \in DOMAIN objs : objs[o].seq > poll.since}
        /\ \A o \in DOMAIN msg'.objs : msg'.objs[o] = objs[o].data
        /\ msg'.seq = glob_change_seq /\ msg'.total = Cardinality(DOMAIN objs)
    BY <1>3, <1>13, ConfAnswer
  <2>2. glob_change_seq \in Nat /\ \A o \in DOMAIN objs : objs[o].seq \in 1..glob_change_seq
    BY <1>3 DEF DaemonOK
  <2>3. MsgOK'
    BY <1>2, <1>13, <2>1 DEF MsgOK
  <2>4. SteadyOK'
    <3>1. poll.since = 0 => steady \subseteq DOMAIN msg'.objs
      BY SMTT(30), <1>7, <2>1, <2>2
    <3>2. DOMAIN msg'.objs # {} => poll.since < msg'.seq
      BY SMTT(30), <1>13, <2>1, <2>2
    <3> QED
      BY <1>2, <1>7, <1>13, <2>1, <3>1, <3>2 DEF Inv, SteadyOK, Fetched
  <2>5. ListOK'
    <3>1. ASSUME poll.since # 0, cached, NEW o \in DOMAIN lastHosts \cap steady
          PROVE  o \in DOMAIN hostCache \/ o \in DOMAIN msg'.objs
      <4>1. o \in DOMAIN hostCache \/ objs[o].seq > poll.since
        BY <1>6, <1>13, <3>1 DEF Inv, ListOK
      <4> QED
        BY <1>7, <2>1, <3>1, <4>1
    <3>2. msg'.total = 0 => Above(msg.seq)'
      <4>1. IsFiniteSet(DOMAIN objs)
        BY <1>3, SrvAssumption DEF DaemonOK
      <4>2. msg'.total = 0 => DOMAIN objs = {}
        BY <2>1, <4>1, FS_EmptySet
      <4> QED
        BY SMTT(30), <1>4, <2>1, <2>2, <4>2 DEF Above
    <3> QED
      BY <1>2, <1>7, <1>13, <2>1, <3>1, <3>2 DEF ListOK
  <2>6. clean /\ poll.link = conn => confSeq <= glob_change_seq
    <3>1. poll.link = conn => Up
      BY <1>1, <1>3, <1>6, SrvAssumption DEF Up, LinksOK, None
    <3> QED
      BY <3>1 DEF Inv, CopyOK
  <2>7. ReplyOK'
    BY SMTT(30), <1>2, <1>4, <2>1, <2>2, <2>6 DEF ReplyOK
  <2> QED
    BY <1>9, <1>10, <2>3, <2>4, <2>5, <2>7 DEF Inv
<1>14. CASE /\ poll.at = "walk" /\ msg.what = "obj?" /\ msg.name \in Objects
            /\ msg' = ShowObject(msg.name)
  <2>1. msg' \in Details /\ msg'.what = "obj" /\ DOMAIN msg'.found = {msg.name} \cap DOMAIN objs
    BY <1>3, <1>14, ObjectAnswer
  <2>2. MsgOK'
    BY <1>2, <1>14, <2>1 DEF MsgOK
  <2>3. SteadyOK'
    BY SMTT(30), <1>2, <1>7, <1>14, <2>1 DEF Inv, SteadyOK, Fetched, NoMsg
  <2>4. ListOK'
    <3>1. cached /\ ~due /\ Up => Above(confSeq)
      BY SMTT(30), <1>14 DEF Inv, ListOK, NoMsg
    <3> QED
      BY <1>1, <1>2, <1>11, <1>14, <3>1, AboveSame DEF ListOK, Fetched
  <2>5. ReplyOK'
    BY <1>2, <1>14 DEF ReplyOK, Fetched
  <2> QED
    BY <1>9, <1>10, <2>2, <2>3, <2>4, <2>5 DEF Inv
<1> QED
  BY <1>5, <1>12, <1>13, <1>14

(***************************************************************************)
(* The steps of a cycle that only ask and read.                            *)
(***************************************************************************)

\* A step of the poll that leaves the copy alone keeps what is said of the
\* copy.
LEMMA AskFrame ==
  ASSUME Inv, Steady, UNCHANGED <<daemon, links, left, copy>>, poll' \in Polls,
         lastHosts' \in Tables, dark' \in BOOLEAN, MsgOK',
         poll'.at # "idle" => poll'.link \in Links /\ poll'.link \notin greeted,
         poll'.at # "idle" /\ poll'.link # conn => poll'.link \notin web,
         poll'.at \in {"names", "conf", "merge"} /\ cached => poll'.link = conn
  PROVE  /\ Typed' /\ CopyOK' /\ Up' = Up
         /\ objs' = objs /\ unstamped' = unstamped /\ glob_change_seq' = glob_change_seq
         /\ conn' = conn /\ confSeq' = confSeq /\ cached' = cached /\ hostCache' = hostCache
         /\ due' = due /\ clean' = clean /\ far' = far /\ web' = web
         /\ steady \subseteq DOMAIN objs
         /\ poll'.at = "idle" => steady' = DOMAIN objs
         /\ poll'.at # "idle" => steady' = steady
<1>1. /\ conn' = conn /\ confSeq' = confSeq /\ cached' = cached /\ hostCache' = hostCache
      /\ due' = due /\ clean' = clean
  BY DEF copy
<1>2. UNCHANGED <<daemon, clients, agg_fd, tls_table, waiting, far, web, greeted>>
  BY DEF links
<1>3. objs' = objs /\ unstamped' = unstamped /\ glob_change_seq' = glob_change_seq
  BY <1>2 DEF daemon
<1>4. Typed /\ LinksOK /\ CopyType /\ left \in Budget /\ steady \subseteq DOMAIN objs
  BY DEF Inv, Typed, CopyType
<1>5. /\ DaemonOK' /\ SocketsOK' /\ steady' \subseteq DOMAIN objs
      /\ poll'.at = "idle" => steady' = DOMAIN objs
      /\ poll'.at # "idle" => steady' = steady
  BY <1>2, <1>4, TypedStays
<1>6. LinksOK'
  BY <1>1, <1>2, <1>4 DEF LinksOK
<1>7. Typed'
  BY <1>1, <1>3, <1>4, <1>5, <1>6 DEF Typed, CopyType
<1>8. CopyOK' /\ Up' = Up
  BY <1>1, <1>2, <1>3 DEF Inv, CopyOK, CacheFollowsDaemon, Up
<1> QED
  BY <1>1, <1>2, <1>3, <1>4, <1>5, <1>7, <1>8

\* A poll without a link keeps Inv.
LEMMA NotConnectedKeeps ==
  ASSUME Inv, NotConnected, Steady
  PROVE  Inv'
<1>1. /\ poll.at = "idle" /\ conn = None /\ dark' = TRUE
      /\ UNCHANGED <<daemon, links, left, copy, msg, poll, lastHosts>>
  BY DEF NotConnected, srvVars
<1>2. LinksOK /\ CopyType
  BY DEF Inv, Typed
<1>3. /\ poll' \in Polls /\ lastHosts' \in Tables /\ dark' \in BOOLEAN /\ MsgOK'
      /\ poll'.at = "idle"
  BY <1>1, <1>2 DEF CopyType, MsgOK
<1>4. /\ Typed' /\ CopyOK' /\ Up' = Up /\ steady' = DOMAIN objs /\ objs' = objs
      /\ conn' = conn
  BY <1>1, <1>3, AskFrame
<1>5. SteadyOK' /\ ReplyOK'
  BY <1>3, <1>4 DEF SteadyOK, ReplyOK, Fetched
<1>6. ListOK'
  BY <1>1, <1>3, <1>4 DEF ListOK, Fetched, Up
<1> QED
  BY <1>4, <1>5, <1>6 DEF Inv

\* The start of a cycle keeps Inv.
LEMMA FetchStatusKeeps ==
  ASSUME Inv, FetchStatus, Steady
  PROVE  Inv'
<1>1. /\ poll.at = "idle" /\ conn # None
      /\ poll' = [Idle EXCEPT !.at = "names", !.link = conn] /\ msg' = NamesAsked
      /\ UNCHANGED <<daemon, links, left, copy, shown>>
  BY DEF FetchStatus, NamesAsked
<1>2. LinksOK /\ CopyType
  BY DEF Inv, Typed
<1>3. Empty \in Tables
  BY EmptyIs DEF FiniteTables
<1>4. poll' = [at |-> "names", link |-> conn, since |-> 0, names |-> {}, got |-> Empty]
  BY <1>1 DEF Idle
<1>5. poll'.at = "names" /\ poll'.link = conn /\ poll'.got = Empty
  BY <1>4
<1>6. poll' \in Polls
  BY <1>2, <1>3, <1>4 DEF Polls, Stages, LinksOK
<1>7. lastHosts' = lastHosts /\ dark' = dark
  BY <1>1 DEF shown
<1>8. MsgOK' /\ lastHosts' \in Tables /\ dark' \in BOOLEAN
  BY <1>1, <1>2, <1>5, <1>7 DEF MsgOK, CopyType
<1>9. /\ Typed' /\ CopyOK' /\ Up' = Up /\ steady' = steady
      /\ confSeq' = confSeq /\ cached' = cached /\ hostCache' = hostCache /\ due' = due
  BY <1>1, <1>2, <1>5, <1>6, <1>8, AskFrame DEF LinksOK
<1>10. msg'.what = "names?"
  BY <1>1 DEF NamesAsked
<1>11. SteadyOK' /\ ReplyOK'
  BY <1>5, <1>10 DEF SteadyOK, ReplyOK, Fetched
<1>12. ListOK'
  BY <1>1, <1>5, <1>7, <1>9, AboveSame DEF Inv, ListOK, Fetched
<1> QED
  BY <1>9, <1>11, <1>12 DEF Inv

\* The question for changes keeps Inv.
LEMMA AskConfKeeps ==
  ASSUME Inv, AskConf, Steady
  PROVE  Inv'
<1> DEFINE since == IF ~cached \/ due THEN 0 ELSE confSeq
<1>1. /\ poll.at = "names" /\ msg.what = "names" /\ msg' = ConfAsked(since)
      /\ poll' = [poll EXCEPT !.at = "conf", !.since = since, !.names = msg.names]
      /\ UNCHANGED <<daemon, links, left, copy, shown>>
  BY DEF AskConf, ConfAsked
<1>2. LinksOK /\ CopyType
  BY DEF Inv, Typed
<1>3. msg \in NameLists /\ since \in Nat
  BY SMTT(30), <1>1, <1>2 DEF CopyType, MsgOK, NamesAsked
<1>4. since # 0 => cached /\ ~due /\ since = confSeq
  OBVIOUS
<1> HIDE DEF since
<1>5. /\ poll'.at = "conf" /\ poll'.link = poll.link /\ poll'.got = poll.got
      /\ poll'.since = since /\ poll'.names = msg.names
  BY <1>1, <1>2 DEF CopyType, Polls
<1>6. poll' \in Polls
  BY <1>1, <1>2, <1>3 DEF CopyType, Polls, Stages, NameLists
<1>7. lastHosts' = lastHosts /\ dark' = dark
  BY <1>1 DEF shown
<1>8. MsgOK' /\ lastHosts' \in Tables /\ dark' \in BOOLEAN
  BY <1>1, <1>2, <1>5, <1>7 DEF MsgOK, CopyType
<1>9. /\ Typed' /\ CopyOK' /\ Up' = Up /\ steady' = steady /\ steady \subseteq DOMAIN objs
      /\ objs' = objs /\ far' = far
      /\ confSeq' = confSeq /\ cached' = cached /\ hostCache' = hostCache /\ due' = due
  BY <1>1, <1>2, <1>5, <1>6, <1>8, AskFrame DEF LinksOK
<1>10. msg'.what = "conf?"
  BY <1>1 DEF ConfAsked
<1>11. SteadyOK' /\ ReplyOK'
  <2>1. steady \subseteq msg.names /\ poll.got = Empty
    BY <1>1 DEF Inv, SteadyOK
  <2> QED
    BY <1>4, <1>5, <1>9, <1>10, <2>1 DEF SteadyOK, ReplyOK, Fetched
<1>12. ASSUME since # 0, cached, PollUp', NEW o \in DOMAIN lastHosts \cap steady
       PROVE  o \in DOMAIN hostCache \/ objs[o].seq > since
  <2>1. poll.link = conn /\ Up
    BY <1>1, <1>2, <1>5, <1>9, <1>12, SrvAssumption DEF LinksOK, PollUp, Up, None
  <2>2. DOMAIN lastHosts \subseteq DOMAIN hostCache \/ Above(confSeq)
    BY <1>1, <1>4, <1>12, <2>1 DEF Inv, ListOK
  <2> QED
    BY <1>4, <1>9, <1>12, <2>2 DEF Above
<1>13. ListOK'
  BY <1>5, <1>7, <1>9, <1>10, <1>12 DEF ListOK, Fetched
<1> QED
  BY <1>9, <1>11, <1>13 DEF Inv

\* One table laid over another.
LEMMA MergedTables ==
  ASSUME NEW f \in Tables, NEW g \in Tables
  PROVE  /\ Over(f, g) \in Tables /\ DOMAIN Over(f, g) = DOMAIN f \cup DOMAIN g
         /\ \A o \in DOMAIN f : Over(f, g)[o] = f[o]
         /\ \A o \in DOMAIN g \ DOMAIN f : Over(f, g)[o] = g[o]
<1>1. Over(f, g) = [o \in DOMAIN f \cup DOMAIN g |-> IF o \in DOMAIN f THEN f[o] ELSE g[o]]
  BY DEF Over
<1>2. /\ DOMAIN f \in SUBSET Objects /\ f \in [DOMAIN f -> Data]
      /\ DOMAIN g \in SUBSET Objects /\ g \in [DOMAIN g -> Data]
  BY DEF Tables
<1>3. Over(f, g) \in [DOMAIN f \cup DOMAIN g -> Data]
  BY <1>1, <1>2
<1>4. Over(f, g) \in Tables
  BY <1>2, <1>3 DEF Tables
<1> QED
  BY <1>1, <1>4

\* The reading of the answer keeps Inv.
LEMMA ReadConfKeeps ==
  ASSUME Inv, ReadConf, Steady
  PROVE  Inv'
<1>1. /\ poll.at = "conf" /\ msg.what = "conf" /\ msg' = msg
      /\ poll' = [poll EXCEPT !.at = "merge"]
      /\ UNCHANGED <<daemon, links, left, copy, shown>>
  BY DEF ReadConf, srvVars
<1>2. LinksOK /\ CopyType
  BY DEF Inv, Typed
<1>3. /\ poll'.at = "merge" /\ poll'.link = poll.link /\ poll'.got = poll.got
      /\ poll'.since = poll.since /\ poll'.names = poll.names
  BY <1>1, <1>2 DEF CopyType, Polls
<1>4. poll' \in Polls
  BY <1>1, <1>2 DEF CopyType, Polls, Stages
<1>5. lastHosts' = lastHosts /\ dark' = dark
  BY <1>1 DEF shown
<1>6. MsgOK' /\ lastHosts' \in Tables /\ dark' \in BOOLEAN
  BY SMTT(30), <1>1, <1>2, <1>3, <1>5 DEF MsgOK, CopyType, ConfAsked
<1>7. /\ Typed' /\ CopyOK' /\ Up' = Up /\ steady' = steady
      /\ objs' = objs /\ unstamped' = unstamped /\ glob_change_seq' = glob_change_seq
      /\ far' = far /\ conn' = conn /\ clean' = clean
      /\ confSeq' = confSeq /\ cached' = cached /\ hostCache' = hostCache /\ due' = due
  BY <1>1, <1>2, <1>3, <1>4, <1>6, AskFrame DEF LinksOK
<1>8. Fetched /\ Fetched' /\ PollUp' = PollUp
  BY <1>1, <1>3, <1>7 DEF Fetched, PollUp
<1>9. SteadyOK'
  BY <1>1, <1>3, <1>7, <1>8 DEF Inv, SteadyOK
<1>10. ReplyOK'
  BY <1>1, <1>3, <1>7, <1>8 DEF Inv, ReplyOK
<1>11. ListOK'
  BY <1>1, <1>3, <1>5, <1>7, <1>8, AboveSame DEF Inv, ListOK
<1> QED
  BY <1>7, <1>9, <1>10, <1>11 DEF Inv

\* A CONF that fails keeps Inv.
LEMMA ConfFailKeeps ==
  ASSUME Inv, ConfFail, Steady
  PROVE  Inv'
<1>1. /\ poll.at = "conf" /\ Broken(poll.link) /\ msg' = NoMsg
      /\ poll' = [poll EXCEPT !.at = "walk"]
      /\ UNCHANGED <<daemon, links, left, copy, shown>>
  BY DEF ConfFail
<1>2. LinksOK /\ CopyType
  BY DEF Inv, Typed
<1>3. /\ poll'.at = "walk" /\ poll'.link = poll.link /\ poll'.got = poll.got
      /\ poll'.since = poll.since /\ poll'.names = poll.names
  BY <1>1, <1>2 DEF CopyType, Polls
<1>4. poll' \in Polls
  BY <1>1, <1>2 DEF CopyType, Polls, Stages
<1>5. lastHosts' = lastHosts /\ dark' = dark
  BY <1>1 DEF shown
<1>6. MsgOK' /\ lastHosts' \in Tables /\ dark' \in BOOLEAN
  BY <1>1, <1>2, <1>3, <1>5 DEF MsgOK, CopyType
<1>7. Typed' /\ CopyOK' /\ Up' = Up /\ steady' = steady /\ cached' = cached
  BY <1>1, <1>2, <1>3, <1>4, <1>6, AskFrame DEF LinksOK
<1>8. SteadyOK' /\ ReplyOK'
  BY <1>1, <1>3, <1>7 DEF Inv, SteadyOK, ReplyOK, Fetched, NoMsg
<1>9. ~(cached /\ Up)
  BY <1>1, <1>2 DEF LinksOK, Up, Broken
<1>10. ListOK'
  BY <1>3, <1>7, <1>9 DEF ListOK, Fetched
<1> QED
  BY <1>7, <1>8, <1>10 DEF Inv

\* The question for one object keeps Inv.
LEMMA AskObjectKeeps ==
  ASSUME Inv, NEW o \in Objects, AskObject(o), Steady
  PROVE  Inv'
<1>1. /\ poll.at = "walk" /\ msg = NoMsg /\ poll.link \in web
      /\ msg' = ObjectAsked(o) /\ poll' = [poll EXCEPT !.names = poll.names \ {o}]
      /\ UNCHANGED <<daemon, links, left, copy, shown>>
  BY DEF AskObject, ObjectAsked, Writable
<1>2. LinksOK /\ CopyType
  BY DEF Inv, Typed
<1>3. /\ poll'.at = "walk" /\ poll'.link = poll.link /\ poll'.got = poll.got
      /\ poll'.since = poll.since /\ poll'.names = poll.names \ {o}
  BY <1>1, <1>2 DEF CopyType, Polls
<1>4. poll' \in Polls
  BY <1>1, <1>2 DEF CopyType, Polls, Stages
<1>5. lastHosts' = lastHosts /\ dark' = dark
  BY <1>1 DEF shown
<1>6. MsgOK' /\ lastHosts' \in Tables /\ dark' \in BOOLEAN
  BY <1>1, <1>2, <1>3, <1>5 DEF MsgOK, CopyType
<1>7. /\ Typed' /\ CopyOK' /\ Up' = Up /\ steady' = steady /\ cached' = cached /\ due' = due
      /\ confSeq' = confSeq
  BY <1>1, <1>2, <1>3, <1>4, <1>6, AskFrame DEF LinksOK
<1>8. msg'.what = "obj?" /\ msg'.name = o /\ msg'.what # NoMsg.what
  BY <1>1 DEF ObjectAsked, NoMsg
<1>9. SteadyOK'
  <2>1. steady \subseteq poll.names \cup DOMAIN poll.got
    BY <1>1 DEF Inv, SteadyOK
  <2>2. steady' \subseteq poll'.names \cup DOMAIN poll'.got \cup {msg'.name}
    BY <1>3, <1>7, <1>8, <2>1
  <2> QED
    BY <1>3, <1>8, <2>2 DEF SteadyOK, Fetched
<1>10. cached /\ ~due /\ Up => Above(confSeq)
  BY <1>1 DEF Inv, ListOK
<1>11. ListOK' /\ ReplyOK'
  BY <1>1, <1>3, <1>7, <1>10, AboveSame DEF ListOK, ReplyOK, Fetched
<1> QED
  BY <1>7, <1>9, <1>11 DEF Inv

\* The answer about one object keeps Inv.
LEMMA ReadObjectKeeps ==
  ASSUME Inv, ReadObject, Steady
  PROVE  Inv'
<1> DEFINE got == Over(msg.found, poll.got)
<1>1. /\ poll.at = "walk" /\ msg.what = "obj" /\ msg' = NoMsg
      /\ poll' = [poll EXCEPT !.got = got]
      /\ UNCHANGED <<daemon, links, left, copy, shown>>
  BY DEF ReadObject
<1>2. LinksOK /\ CopyType
  BY DEF Inv, Typed
<1>3. msg.found \in Tables /\ poll.got \in Tables
  BY SMTT(30), <1>1, <1>2 DEF CopyType, MsgOK, NoMsg, ObjectAsked, Details, Polls
<1>4. DOMAIN got = DOMAIN msg.found \cup DOMAIN poll.got /\ got \in Tables
  BY <1>3, MergedTables
<1> HIDE DEF got
<1>5. /\ poll'.at = "walk" /\ poll'.link = poll.link /\ poll'.got = got
      /\ poll'.since = poll.since /\ poll'.names = poll.names
  BY <1>1, <1>2 DEF CopyType, Polls
<1>6. poll' \in Polls
  BY <1>1, <1>2, <1>4 DEF CopyType, Polls, Stages
<1>7. lastHosts' = lastHosts /\ dark' = dark
  BY <1>1 DEF shown
<1>8. MsgOK' /\ lastHosts' \in Tables /\ dark' \in BOOLEAN
  BY <1>1, <1>2, <1>5, <1>7 DEF MsgOK, CopyType
<1>9. /\ Typed' /\ CopyOK' /\ Up' = Up /\ steady' = steady /\ cached' = cached /\ due' = due
      /\ confSeq' = confSeq
  BY <1>1, <1>2, <1>5, <1>6, <1>8, AskFrame DEF LinksOK
<1>10. SteadyOK'
  <2>1. steady \subseteq poll.names \cup DOMAIN poll.got \cup DOMAIN msg.found
    BY <1>1 DEF Inv, SteadyOK
  <2>2. steady' \subseteq poll'.names \cup DOMAIN poll'.got
    BY <1>4, <1>5, <1>9, <2>1
  <2> QED
    BY <1>1, <1>5, <2>2 DEF SteadyOK, Fetched, NoMsg
<1>11. cached /\ ~due /\ Up => Above(confSeq)
  BY SMTT(30), <1>1 DEF Inv, ListOK, NoMsg
<1>12. ListOK' /\ ReplyOK'
  BY <1>1, <1>5, <1>9, <1>11, AboveSame DEF ListOK, ReplyOK, Fetched
<1> QED
  BY <1>9, <1>10, <1>12 DEF Inv

\* The end of a cycle, whatever it was: the objects of the next one start here.
LEMMA EndFrame ==
  ASSUME Typed', poll' = Idle, steady' = DOMAIN objs'
  PROVE  SteadyOK' /\ ReplyOK'
<1>1. poll'.at = "idle"
  BY DEF Idle
<1> QED
  BY <1>1 DEF SteadyOK, ReplyOK, Fetched

\* A poll at rest.
LEMMA IdleIs == Idle \in Polls /\ Idle.at = "idle"
<1>1. Empty \in Tables
  BY EmptyIs DEF FiniteTables
<1> QED
  BY <1>1 DEF Idle, Polls, Stages

\* The end of the walk over the objects keeps Inv.
LEMMA WalkEndsKeeps ==
  ASSUME Inv, WalkEnds, Steady
  PROVE  Inv'
<1>1. /\ poll.at = "walk" /\ msg = NoMsg
      /\ lastHosts' = poll.got /\ dark' = FALSE /\ poll' = Idle /\ msg' = NoMsg
      /\ UNCHANGED <<daemon, links, left, copy>>
  BY DEF WalkEnds, Succeeds
<1>2. CopyType
  BY DEF Inv, Typed
<1>3. poll' \in Polls /\ poll'.at = "idle"
  BY <1>1, IdleIs
<1>4. MsgOK' /\ lastHosts' \in Tables /\ dark' \in BOOLEAN
  BY <1>1, <1>2, <1>3 DEF MsgOK, CopyType, Polls
<1>5. /\ Typed' /\ CopyOK' /\ Up' = Up /\ steady' = DOMAIN objs /\ cached' = cached /\ due' = due
      /\ confSeq' = confSeq /\ hostCache' = hostCache /\ objs' = objs
  BY <1>1, <1>3, <1>4, AskFrame
<1>6. SteadyOK' /\ ReplyOK'
  BY <1>1, <1>5, EndFrame
<1>7. cached /\ ~due /\ Up => Above(confSeq) \/ DOMAIN lastHosts' = {}
  BY <1>1 DEF Inv, ListOK, Empty
<1>8. ListOK'
  BY <1>1, <1>3, <1>5, <1>7, AboveSame DEF ListOK, Fetched
<1> QED
  BY <1>5, <1>6, <1>8 DEF Inv

\* dropConnection: the link stays only if it is another one.
LEMMA ErrsKeeps ==
  ASSUME Inv, Errs, Steady, left' \in Budget,
         poll.at = "names" \/ (poll.at = "walk" /\ msg # NoMsg)
  PROVE  Inv'
<1>1. /\ DropConnection(poll.link) /\ poll' = Idle /\ msg' = NoMsg /\ dark' = TRUE
      /\ UNCHANGED <<daemon, clients, agg_fd, tls_table, waiting, far, greeted,
                     confSeq, cached, hostCache, due, clean, lastHosts>>
  BY DEF Errs
<1>2. \/ conn = poll.link /\ conn' = None /\ web' = web \ {conn}
      \/ conn # poll.link /\ conn' = conn /\ web' = web
  BY <1>1 DEF DropConnection
<1>3. Typed /\ LinksOK /\ CopyType
  BY DEF Inv, Typed
<1>4. poll' \in Polls /\ poll'.at = "idle"
  BY <1>1, IdleIs
<1>5. objs' = objs /\ unstamped' = unstamped /\ glob_change_seq' = glob_change_seq
  BY <1>1 DEF daemon
<1>6. DaemonOK' /\ SocketsOK' /\ steady' = DOMAIN objs
  BY <1>1, <1>3, <1>4, TypedStays
<1>7. LinksOK'
  BY <1>1, <1>2, <1>3, <1>4, SrvAssumption DEF LinksOK, None
<1>8. Typed'
  <2>1. MsgOK'
    BY <1>1, <1>4 DEF MsgOK
  <2> QED
    BY <1>1, <1>3, <1>4, <1>5, <1>6, <1>7, <2>1 DEF Typed, CopyType
<1>9. SteadyOK' /\ ReplyOK'
  BY <1>1, <1>5, <1>6, <1>8, EndFrame
<1>10. Up' => Up /\ conn' = conn
  BY <1>1, <1>2 DEF Up
<1>11. cached /\ ~due /\ Up => DOMAIN lastHosts \subseteq DOMAIN hostCache \/ Above(confSeq)
  BY DEF Inv, ListOK
<1>12. ListOK'
  BY <1>1, <1>4, <1>10, <1>11, AboveSame DEF ListOK, Fetched
<1>13. CopyOK'
  BY <1>1, <1>5, <1>10 DEF Inv, CopyOK, CacheFollowsDaemon, Up
<1> QED
  BY <1>8, <1>9, <1>12, <1>13 DEF Inv

\* A cycle that fails over its names or objects keeps Inv.
LEMMA FailKeeps ==
  ASSUME Inv, NamesFail \/ ObjectFail, Steady
  PROVE  Inv'
<1>1. left \in Budget
  BY DEF Inv, Typed
<1>2. left' \in Budget
  <2>1. left' = left \/ Spend("faults")
    BY DEF NamesFail, ObjectFail
  <2> QED
    BY <1>1, <2>1, SpendIs
<1>3. Errs /\ (poll.at = "names" \/ (poll.at = "walk" /\ msg # NoMsg))
  BY DEF NamesFail, ObjectFail
<1> QED
  BY <1>2, <1>3, ErrsKeeps

(***************************************************************************)
(* The merge of an answer into the copy.                                   *)
(***************************************************************************)

\* What Merged returns.
LEMMA MergedIs ==
  ASSUME CopyType, msg \in Confs
  PROVE  LET m == Merged(poll.since, msg)
             all == poll.since = 0 \/ ~cached
             back == msg.seq < confSeq
             base == IF all \/ back THEN Empty ELSE hostCache
         IN  /\ m.cache \in FiniteTables /\ m.due \in BOOLEAN
             /\ DOMAIN m.cache = DOMAIN msg.objs \cup DOMAIN base
             /\ \A o \in DOMAIN msg.objs : m.cache[o] = msg.objs[o]
             /\ \A o \in DOMAIN base \ DOMAIN msg.objs : m.cache[o] = base[o]
             /\ ~m.due => msg.total = 0 \/ Cardinality(DOMAIN m.cache) = msg.total
<1> DEFINE m == Merged(poll.since, msg)
           all == poll.since = 0 \/ ~cached
           back == msg.seq < confSeq
           base == IF all \/ back THEN Empty ELSE hostCache
           cache == Over(msg.objs, base)
           ghosts == msg.total > 0 /\ Cardinality(DOMAIN cache) # msg.total
<1>1. m = [cache |-> cache, due |-> back \/ ghosts \/ (due /\ ~all)]
  BY DEF Merged
<1>2. m.cache = cache /\ m.due = (back \/ ghosts \/ (due /\ ~all))
  BY SMTT(30), <1>1
<1>3. msg.objs \in FiniteTables /\ msg.total \in Nat /\ base \in FiniteTables
  BY EmptyIs DEF Confs, CopyType
<1>4. /\ cache \in Tables /\ DOMAIN cache = DOMAIN msg.objs \cup DOMAIN base
      /\ \A o \in DOMAIN msg.objs : cache[o] = msg.objs[o]
      /\ \A o \in DOMAIN base \ DOMAIN msg.objs : cache[o] = base[o]
  <2>1. msg.objs \in Tables /\ base \in Tables
    BY <1>3 DEF FiniteTables
  <2> HIDE DEF base
  <2> QED
    BY <2>1, MergedTables
<1>5. IsFiniteSet(DOMAIN cache)
  <2> HIDE DEF base, cache
  <2>1. IsFiniteSet(DOMAIN msg.objs) /\ IsFiniteSet(DOMAIN base)
    BY <1>3 DEF FiniteTables
  <2> QED
    BY <1>4, <2>1, FS_Union
<1>6. ~(back \/ ghosts \/ (due /\ ~all)) => msg.total = 0 \/ Cardinality(DOMAIN cache) = msg.total
  <2> HIDE DEF cache
  <2> QED
    BY SMTT(30), <1>3
<1>7. (back \/ ghosts \/ (due /\ ~all)) \in BOOLEAN
  OBVIOUS
<1>8. cache \in FiniteTables
  BY <1>4, <1>5 DEF FiniteTables
<1> HIDE DEF m, cache, base, all, back, ghosts
<1>9. /\ m.cache \in FiniteTables /\ m.due \in BOOLEAN
      /\ DOMAIN m.cache = DOMAIN msg.objs \cup DOMAIN base
      /\ \A o \in DOMAIN msg.objs : m.cache[o] = msg.objs[o]
      /\ \A o \in DOMAIN base \ DOMAIN msg.objs : m.cache[o] = base[o]
      /\ ~m.due => msg.total = 0 \/ Cardinality(DOMAIN m.cache) = msg.total
  BY <1>2, <1>4, <1>6, <1>7, <1>8
<1> QED
  BY <1>9 DEF m, base, all, back

\* What the answer sent, what the copy had, and nothing else: the copy follows
\* the daemon over a link that stands.
LEMMA MergeFollows ==
  ASSUME Inv, poll.at = "merge", PollUp, poll.link = conn, clean \/ poll.since = 0,
         NEW cache, cache = Merged(poll.since, msg).cache
  PROVE  /\ \A o \in DOMAIN objs : objs[o].seq <= msg.seq =>
              o \in DOMAIN cache /\ (cache[o] = objs[o].data \/ o \in unstamped)
         /\ \A o \in DOMAIN cache \ DOMAIN objs :
              Merged(poll.since, msg).due \/ msg.seq < glob_change_seq \/ DOMAIN objs = {}
<1> DEFINE all == poll.since = 0 \/ ~cached
           back == msg.seq < confSeq
           base == IF all \/ back THEN Empty ELSE hostCache
           due2 == Merged(poll.since, msg).due
<1>1. DaemonOK /\ LinksOK /\ CopyType /\ msg \in Confs
  BY DEF Inv, Typed, CopyType, MsgOK
<1>2. /\ msg.what = "conf" /\ msg.seq \in Nat /\ msg.total \in Nat /\ poll.since \in Nat
      /\ confSeq \in Nat /\ glob_change_seq \in Nat
      /\ \A o \in DOMAIN objs : objs[o].seq \in 1..glob_change_seq
  BY <1>1 DEF Confs, CopyType, Polls, DaemonOK
<1>3. /\ cache \in FiniteTables
      /\ DOMAIN cache = DOMAIN msg.objs \cup DOMAIN base
      /\ \A o \in DOMAIN msg.objs : cache[o] = msg.objs[o]
      /\ \A o \in DOMAIN base \ DOMAIN msg.objs : cache[o] = base[o]
      /\ ~due2 => msg.total = 0 \/ Cardinality(DOMAIN cache) = msg.total
  BY <1>1, MergedIs
<1> HIDE DEF due2
<1>4. Fetched
  BY <1>2 DEF Fetched
<1>5. /\ msg.seq <= glob_change_seq
      /\ \A o \in DOMAIN objs : objs[o].seq <= msg.seq /\ objs[o].seq > poll.since =>
            o \in DOMAIN msg.objs /\ (msg.objs[o] = objs[o].data \/ o \in unstamped)
      /\ \A o \in DOMAIN objs \cap DOMAIN msg.objs : objs[o].seq > poll.since
      /\ msg.seq = glob_change_seq /\ DOMAIN objs # {} => msg.total = Cardinality(DOMAIN objs)
      /\ clean => confSeq <= msg.seq
  BY <1>4 DEF Inv, ReplyOK
<1>6. ASSUME NEW o \in DOMAIN objs, objs[o].seq <= msg.seq
      PROVE  o \in DOMAIN cache /\ (cache[o] = objs[o].data \/ o \in unstamped)
  <2>1. CASE objs[o].seq > poll.since
    BY <1>3, <1>5, <1>6, <2>1
  <2>2. CASE ~(objs[o].seq > poll.since)
    <3>1. poll.since # 0 /\ objs[o].seq <= poll.since
      BY SMTT(30), <1>2, <2>2
    <3>2. clean /\ cached /\ confSeq = poll.since
      BY <3>1 DEF Inv, CopyOK, SteadyOK
    <3>3. ~all /\ ~back
      BY SMTT(30), <1>2, <1>5, <3>1, <3>2
    <3>4. base = hostCache /\ o \notin DOMAIN msg.objs
      BY <1>5, <2>2, <3>3
    <3>5. Up
      BY <1>1, SrvAssumption DEF LinksOK, PollUp, Up, None
    <3>6. o \in DOMAIN hostCache /\ (hostCache[o] = objs[o].data \/ o \in unstamped)
      BY <3>1, <3>2, <3>5 DEF Inv, CopyOK, CacheFollowsDaemon, Up
    <3> HIDE DEF base
    <3> QED
      BY <1>3, <3>4, <3>6
  <2> QED
    BY <2>1, <2>2
<1>7. ASSUME NEW o \in DOMAIN cache \ DOMAIN objs, ~due2, ~(msg.seq < glob_change_seq),
             DOMAIN objs # {}
      PROVE  FALSE
  <2>1. msg.seq = glob_change_seq
    BY SMTT(30), <1>2, <1>5, <1>7
  <2>2. IsFiniteSet(DOMAIN objs) /\ IsFiniteSet(DOMAIN cache)
    BY <1>1, <1>3, SrvAssumption DEF DaemonOK, FiniteTables
  <2>3. msg.total = Cardinality(DOMAIN objs) /\ msg.total # 0
    BY <1>5, <1>7, <2>1, <2>2, FS_EmptySet
  <2>4. Cardinality(DOMAIN cache) = Cardinality(DOMAIN objs)
    BY <1>3, <1>7, <2>3
  <2>5. DOMAIN objs \subseteq DOMAIN cache
    BY SMTT(30), <1>2, <1>6, <2>1
  <2>6. DOMAIN objs = DOMAIN cache
    BY <2>2, <2>4, <2>5, FS_Subset
  <2> QED
    BY <1>7, <2>6
<1> QED
  BY <1>6, <1>7 DEF due2

\* The merge keeps Inv: what the answer lacks the copy has.
LEMMA MergeKeeps ==
  ASSUME Inv, MergeConf, Steady
  PROVE  Inv'
<1> DEFINE m == Merged(poll.since, msg)
           cache == m.cache
<1>1. /\ poll.at = "merge" /\ cached' = TRUE /\ hostCache' = cache /\ due' = m.due
      /\ confSeq' = msg.seq /\ clean' = (poll.link = conn /\ (clean \/ poll.since = 0))
      /\ UNCHANGED <<daemon, clients, agg_fd, tls_table, waiting, far, web, greeted, left, conn>>
  BY DEF MergeConf, links
<1>2. \/ /\ DOMAIN cache # {} /\ lastHosts' = cache /\ dark' = FALSE
         /\ poll' = Idle /\ msg' = NoMsg
      \/ /\ DOMAIN cache = {} /\ poll' = [poll EXCEPT !.at = "walk"] /\ msg' = NoMsg
         /\ lastHosts' = lastHosts /\ dark' = dark
  BY DEF MergeConf, Succeeds, shown
<1>3. Typed /\ DaemonOK /\ LinksOK /\ CopyType /\ left \in Budget /\ msg \in Confs
  BY <1>1 DEF Inv, Typed, CopyType, MsgOK
<1>4. /\ cache \in FiniteTables /\ m.due \in BOOLEAN
      /\ ~m.due => msg.total = 0 \/ Cardinality(DOMAIN cache) = msg.total
  BY <1>3, MergedIs
<1>5. objs' = objs /\ unstamped' = unstamped /\ glob_change_seq' = glob_change_seq
  BY <1>1 DEF daemon
<1>6. /\ poll' \in Polls /\ msg' = NoMsg
      /\ \/ poll' = Idle /\ poll'.at = "idle" /\ lastHosts' = cache /\ dark' = FALSE
         \/ /\ DOMAIN cache = {} /\ poll'.at = "walk" /\ poll'.link = poll.link
            /\ poll'.names = poll.names /\ poll'.got = poll.got
            /\ lastHosts' = lastHosts /\ dark' = dark
  BY <1>2, <1>3, IdleIs DEF CopyType, Polls, Stages
<1>7. Fetched
  BY <1>1, <1>3 DEF Fetched, Confs
<1>8. PollUp /\ poll.link = conn /\ (clean \/ poll.since = 0) =>
        /\ \A o \in DOMAIN objs : objs[o].seq <= msg.seq =>
             o \in DOMAIN cache /\ (cache[o] = objs[o].data \/ o \in unstamped)
        /\ \A o \in DOMAIN cache \ DOMAIN objs :
             m.due \/ msg.seq < glob_change_seq \/ DOMAIN objs = {}
  BY <1>1, MergeFollows
<1> HIDE DEF cache, m
<1>9. /\ DaemonOK' /\ SocketsOK' /\ steady' \subseteq DOMAIN objs
      /\ poll'.at = "idle" => steady' = DOMAIN objs
      /\ poll'.at # "idle" => steady' = steady
  BY <1>1, <1>3, TypedStays
<1>10. LinksOK'
  BY <1>1, <1>3, <1>6 DEF LinksOK
<1>11. Typed'
  <2>1. MsgOK'
    BY <1>6 DEF MsgOK
  <2>2. confSeq' \in Nat /\ clean' \in BOOLEAN /\ cached' \in BOOLEAN /\ due' \in BOOLEAN
    BY <1>1, <1>3, <1>4 DEF Confs
  <2>3. lastHosts' \in Tables /\ dark' \in BOOLEAN
    BY <1>3, <1>4, <1>6 DEF CopyType, FiniteTables
  <2> QED
    BY <1>1, <1>3, <1>4, <1>5, <1>6, <1>9, <1>10, <2>1, <2>2, <2>3 DEF Typed, CopyType
<1>12. SteadyOK'
  <2>1. steady \subseteq poll.names
    BY <1>1 DEF Inv, SteadyOK
  <2> QED
    BY <1>5, <1>6, <1>9, <2>1 DEF SteadyOK, Fetched, NoMsg
<1>13. ReplyOK'
  BY <1>6 DEF ReplyOK, Fetched
<1>14. Up' = Up
  BY <1>1 DEF Up
<1>15. ASSUME ~due', Up, DOMAIN cache = {}
       PROVE  Above(msg.seq) \/ (poll.link \notin web /\ poll.got = Empty)
  <2>1. msg.total = 0
    BY <1>1, <1>3, <1>4, <1>15, FS_EmptySet DEF Confs
  <2>2. CASE poll.link = conn
    <3>1. PollUp
      BY <1>1, <1>15, <2>2 DEF PollUp, Up
    <3> QED
      BY <1>7, <2>1, <3>1 DEF Inv, ListOK
  <2>3. CASE poll.link # conn
    BY <1>1, <1>3, <2>3 DEF LinksOK, Inv, SteadyOK
  <2> QED
    BY <2>2, <2>3
<1>16. ListOK'
  <2>1. CASE poll'.at = "idle"
    BY <1>1, <1>6, <2>1 DEF ListOK, Fetched
  <2>2. CASE poll'.at # "idle"
    <3>1. Above(msg.seq) => Above(confSeq)'
      BY <1>1, <1>5 DEF Above
    <3> QED
      BY <1>1, <1>6, <1>14, <1>15, <2>2, <3>1 DEF ListOK, Fetched
  <2> QED
    BY <2>1, <2>2
<1>17. CopyOK'
  <2> SUFFICES ASSUME clean', Up' PROVE confSeq' <= glob_change_seq' /\ CacheFollowsDaemon'
    BY <1>1 DEF CopyOK, CacheFollowsDaemon, Up
  <2>1. poll.link = conn /\ (clean \/ poll.since = 0) /\ PollUp
    BY <1>1, <1>14 DEF Up, PollUp
  <2>2. msg.seq <= glob_change_seq
    BY <1>7, <2>1 DEF Inv, ReplyOK
  <2> QED
    BY <1>1, <1>5, <1>8, <2>1, <2>2 DEF CacheFollowsDaemon
<1> QED
  BY <1>11, <1>12, <1>13, <1>16, <1>17 DEF Inv

(***************************************************************************)
(* The theorems.                                                           *)
(***************************************************************************)

\* The invariant holds when both programs have just started.
LEMMA InitInv == Init => Inv
<1> SUFFICES ASSUME Init PROVE Inv
  OBVIOUS
<1> DEFINE data == [o \in FirstTree |-> Fresh]
<1>1. /\ objs = Stamped(data, 0) /\ glob_change_seq = Cardinality(FirstTree) /\ unstamped = {}
      /\ clients = {} /\ agg_fd = None /\ waiting = FALSE /\ tls_table = [fd \in Fds |-> None]
      /\ far = [n \in Links |-> "none"] /\ web = {} /\ greeted = {} /\ msg = NoMsg
      /\ left = [events |-> Events, changes |-> Changes, reloads |-> Reloads,
                 faults |-> Faults, accepts |-> Accepts]
  BY DEF Init, SrvInit
<1>2. /\ conn = None /\ confSeq = 0 /\ cached = FALSE /\ hostCache = Empty /\ due = TRUE
      /\ clean = FALSE /\ poll = Idle /\ lastHosts = Empty /\ dark = TRUE
      /\ steady = DOMAIN objs
  BY DEF Init
<1>3. FirstTree \in Trees /\ IsFiniteSet(FirstTree) /\ data \in [FirstTree -> Data]
  BY SrvAssumption DEF Data, Fresh
<1> HIDE DEF data
<1>4. /\ DOMAIN objs = FirstTree /\ Cardinality(FirstTree) \in Nat
      /\ \A o \in FirstTree : /\ objs[o] = [data |-> data[o], seq |-> objs[o].seq]
                              /\ objs[o].seq \in (0 + 1)..(0 + Cardinality(FirstTree))
  <2>1. DOMAIN data = FirstTree /\ 0 \in Nat
    BY <1>3
  <2> QED
    BY <1>1, <1>3, <2>1, StampedIs, FS_CardinalityType
<1>5. DaemonOK
  <2>1. ASSUME NEW o \in FirstTree
        PROVE  objs[o] \in Cells /\ objs[o].seq \in 1..glob_change_seq
    <3>1. data[o] \in Data
      BY <1>3
    <3>2. objs[o].seq \in Nat /\ objs[o].seq \in 1..glob_change_seq
      <4>1. objs[o].seq \in (0 + 1)..(0 + Cardinality(FirstTree))
        BY <1>4
      <4>2. glob_change_seq = Cardinality(FirstTree) /\ Cardinality(FirstTree) \in Nat
        BY <1>1, <1>4
      <4> QED
        BY SMTT(30), <4>1, <4>2
    <3>3. objs[o] = [data |-> data[o], seq |-> objs[o].seq]
      BY <1>4
    <3> QED
      BY SMTT(30), <3>1, <3>2, <3>3 DEF Cells
  <2>2. objs = [o \in DOMAIN objs |-> objs[o]]
    BY <1>1 DEF Stamped
  <2> QED
    BY <1>1, <1>3, <1>4, <2>1, <2>2 DEF DaemonOK
<1>6. SocketsOK
  BY <1>1 DEF SocketsOK
<1>7. poll \in Polls /\ poll.at = "idle"
  BY <1>2, IdleIs
<1>8. LinksOK
  BY <1>1, <1>2, <1>7 DEF LinksOK
<1>9. CopyType
  <2>1. MsgOK
    BY <1>1, <1>7 DEF MsgOK
  <2> QED
    BY <1>2, <1>7, <2>1, EmptyIs DEF CopyType, FiniteTables
<1>10. left \in Budget
  BY SMTT(30), <1>1, SrvAssumption DEF Budget
<1>11. SteadyOK /\ ListOK /\ CopyOK /\ ReplyOK
  BY <1>2, <1>7 DEF SteadyOK, ListOK, CopyOK, ReplyOK, Fetched, CacheFollowsDaemon
<1> QED
  BY <1>5, <1>6, <1>8, <1>9, <1>10, <1>11 DEF Inv, Typed

\* Every step of either program keeps Inv.
LEMMA StepInv == Inv /\ [Next]_vars => Inv'
<1> SUFFICES ASSUME Inv, [Next]_vars PROVE Inv'
  OBVIOUS
<1>0. DaemonOK /\ SocketsOK /\ LinksOK /\ left \in Budget
  BY DEF Inv, Typed
<1>1. CASE Daemon /\ UNCHANGED <<copy, poll, shown>> /\ Steady
  <2>1. UNCHANGED <<copy, poll, shown>> /\ Steady /\ UNCHANGED <<poll, conn, cached>>
    BY <1>1 DEF copy
  <2>2. CASE DataStep
    <3>1. Stamps /\ left' \in Budget /\ links' = links /\ msg' = msg
      BY <1>0, <2>2, DataStepIs
    <3>2. UNCHANGED <<clients, agg_fd, tls_table, waiting, far, web, greeted>>
      BY <3>1 DEF links
    <3>3. SocketsOK' /\ LinksOK' /\ \A n \in {conn, poll.link} : n \in Links => Kept(n)
      BY <1>0, <2>1, <3>2 DEF SocketsOK, LinksOK, Kept
    <3> QED
      BY <2>1, <3>1, <3>3, DaemonKeeps
  <2>3. CASE LinkStep
    <3>1. /\ SocketsOK' /\ LinksOK' /\ left' \in Budget /\ daemon' = daemon /\ msg' = msg
          /\ \A n \in {conn, poll.link} : n \in Links => Kept(n)
      BY <1>0, <2>1, <2>3, LinkStepIs
    <3>2. Stamps
      BY SMTT(30), <1>0, <3>1 DEF Stamps, DaemonOK, daemon
    <3> QED
      BY <2>1, <3>1, <3>2, DaemonKeeps
  <2>4. CASE \E tree \in Trees : Restart(tree)
    BY <2>1, <2>4, RestartKeeps
  <2>5. CASE DoService(poll.link)
    BY <2>1, <2>5, ServiceKeeps
  <2> QED
    BY <1>1, <2>2, <2>3, <2>4, <2>5 DEF Daemon, DataStep, LinkStep
<1>2. CASE (\E n \in Links : AdoptAgent(n)) /\ Steady
  BY <1>2, AdoptKeeps
<1>3. CASE ResyncDue /\ Steady
  BY <1>3, ResyncKeeps
<1>4. CASE Cycle /\ Steady
  BY <1>4, NotConnectedKeeps, FetchStatusKeeps, AskConfKeeps, FailKeeps, ReadConfKeeps,
     ConfFailKeeps, MergeKeeps, AskObjectKeeps, ReadObjectKeeps, WalkEndsKeeps DEF Cycle
<1>5. CASE UNCHANGED vars
  <2>1. /\ UNCHANGED <<objs, glob_change_seq, unstamped, clients, agg_fd, tls_table, waiting>>
        /\ UNCHANGED <<far, web, greeted, msg, left, conn, confSeq, cached, hostCache, due, clean>>
        /\ UNCHANGED <<poll, lastHosts, dark, steady>>
    BY <1>5 DEF vars, srvVars, daemon, links, copy, shown
  <2>2. DaemonOK' /\ SocketsOK' /\ left' \in Budget
    BY <2>1 DEF Inv, Typed, DaemonOK, SocketsOK
  <2>3. LinksOK'
    BY <2>1 DEF Inv, Typed, LinksOK
  <2>4. CopyType'
    BY <2>1 DEF Inv, Typed, CopyType, MsgOK
  <2>5. Fetched' = Fetched /\ Up' = Up /\ PollUp' = PollUp
    BY <2>1 DEF Fetched, Up, PollUp
  <2>6. SteadyOK'
    BY <2>1, <2>5 DEF Inv, SteadyOK
  <2>7. ListOK'
    BY <2>1, <2>5 DEF Inv, ListOK, Above
  <2>8. CopyOK'
    BY <2>1, <2>5 DEF Inv, CopyOK, CacheFollowsDaemon
  <2>9. ReplyOK'
    BY <2>1, <2>5 DEF Inv, ReplyOK
  <2> QED
    BY <2>2, <2>3, <2>4, <2>6, <2>7, <2>8, <2>9 DEF Inv, Typed
<1> QED
  BY <1>1, <1>2, <1>3, <1>4, <1>5 DEF Next

\* Inv is an invariant.
LEMMA Invariance == Spec => []Inv
<1>1. Init => Inv
  BY InitInv
<1>2. Inv /\ [Next]_vars => Inv'
  BY StepInv
<1> QED
  BY <1>1, <1>2, PTL DEF Spec

\* Both programs keep their types: every stamp that an object carries is one
\* that the counter has reached, a descriptor number is in the client list once
\* and sysmon-web holds its own end of the link it has adopted.
THEOREM TypeCorrect == Spec => []TypeOK
<1>1. Inv => TypeOK
  <2> SUFFICES ASSUME Inv PROVE TypeOK
    OBVIOUS
  <2>1. DaemonOK /\ SocketsOK /\ LinksOK /\ CopyType /\ left \in Budget
    BY DEF Inv, Typed
  <2>2. \A o \in DOMAIN objs : objs[o].data \in Data /\ objs[o].seq \in 1..glob_change_seq
    BY <2>1 DEF DaemonOK, Cells
  <2>3. SrvTypeOK
    BY <2>1, <2>2 DEF DaemonOK, SocketsOK, LinksOK, SrvTypeOK
  <2>4. hostCache \in Tables
    BY <2>1 DEF CopyType, FiniteTables
  <2>5. /\ poll.at \in Stages /\ poll.link \in Links \cup {None} /\ poll.names \subseteq Objects
        /\ poll.got \in Tables
    BY <2>1 DEF CopyType, Polls
  <2> QED
    BY <2>1, <2>3, <2>4, <2>5 DEF TypeOK, LinksOK, CopyType, Stages
<1> QED
  BY <1>1, Invariance, PTL

\* While the link over which everything was sent stands, every object stamped
\* up to confSeq is in the copy as the daemon has it, and a ghost is found out
\* (send_conf, object_changed, update_count, fetchAllObjectsXML).
THEOREM CopyFollowsTheDaemon == Spec => []CacheFollowsDaemon
<1>1. Inv => CacheFollowsDaemon
  BY DEF Inv, CopyOK
<1> QED
  BY <1>1, Invariance, PTL

\* A descriptor number never has the SSL of an earlier connection, however
\* clients come and go and links are dialled and lost (tls_disconnect,
\* tls_forget, setup_client, aggregator_adopt).
THEOREM EachSocketHasItsOwnSsl == Spec => []SslOfItsOwn
<1>1. Inv => SslOfItsOwn
  BY DEF Inv, Typed, SocketsOK, SslOfItsOwn
<1> QED
  BY <1>1, Invariance, PTL

\* A poll that fails costs the link it went over and no other one
\* (dropConnection, adoptAgent).
THEOREM OnlyThePolledLinkIsDropped == Spec => NewLinkSurvives
<1>1. [Next]_vars => [(conn # None /\ conn' = None) => poll.link = conn]_vars
  <2> SUFFICES ASSUME Next, conn # None, conn' = None PROVE poll.link = conn
    OBVIOUS
  <2>1. CASE conn' = conn
    BY <2>1
  <2>2. CASE \E n \in Links : AdoptAgent(n)
    BY <2>2, SrvAssumption DEF AdoptAgent, None
  <2>3. CASE Errs
    BY <2>3 DEF Errs, DropConnection
  <2> QED
    BY <2>1, <2>2, <2>3
       DEF Next, Cycle, copy, ResyncDue, NotConnected, FetchStatus, AskConf, NamesFail, ReadConf,
           ConfFail, MergeConf, AskObject, ReadObject, ObjectFail, WalkEnds
<1> QED
  BY <1>1, PTL DEF Spec, NewLinkSurvives

\* A host that the daemon had throughout a cycle is not removed at its end,
\* unless the cycle took a part of the site for all of it (fetchFleet,
\* staleHosts, fetchStatus, fetchAllObjectsXML).
THEOREM HostsStayListed == Spec => StaleNotRemoved
<1> DEFINE A == \A o \in DOMAIN lastHosts \cap steady : o \in DOMAIN lastHosts' \/ PartTakenForAll
<1>1. Inv /\ [Next]_vars => [A]_vars
  <2> SUFFICES ASSUME Inv, Next, ~PartTakenForAll, NEW o \in DOMAIN lastHosts \cap steady
               PROVE  o \in DOMAIN lastHosts'
    OBVIOUS
  <2>1. CASE lastHosts' = lastHosts
    BY <2>1
  <2>2. CASE WalkEnds
    <3>1. poll.at = "walk" /\ msg = NoMsg /\ lastHosts' = poll.got
      BY <2>2 DEF WalkEnds, Succeeds
    <3>2. poll.names = {}
      BY <2>2, <3>1 DEF WalkEnds, PartTakenForAll
    <3> QED
      BY <3>1, <3>2 DEF Inv, SteadyOK
  <2>3. CASE MergeConf
    <3> DEFINE cache == Merged(poll.since, msg).cache
               base == IF (poll.since = 0 \/ ~cached) \/ msg.seq < confSeq THEN Empty ELSE hostCache
    <3>1. /\ poll.at = "merge"
          /\ \/ DOMAIN cache # {} /\ lastHosts' = cache
             \/ lastHosts' = lastHosts
      BY <2>3 DEF MergeConf, Succeeds, shown
    <3>2. CopyType /\ msg \in Confs
      BY <3>1 DEF Inv, Typed, CopyType, MsgOK
    <3>3. DOMAIN cache = DOMAIN msg.objs \cup DOMAIN base
      BY <3>2, MergedIs
    <3>4. Fetched /\ poll.since \in Nat /\ msg.seq \in Nat
      BY <3>1, <3>2 DEF Fetched, Confs, CopyType, Polls
    <3>5. CASE poll.since = 0
      BY <3>1, <3>3, <3>4, <3>5 DEF Inv, SteadyOK
    <3>6. CASE poll.since # 0
      <4>1. cached /\ confSeq = poll.since
        BY <3>1, <3>6 DEF PartTakenForAll, Inv, SteadyOK
      <4>2. o \in DOMAIN hostCache \/ o \in DOMAIN msg.objs
        BY <3>4, <3>6, <4>1 DEF Inv, ListOK
      <4>3. CASE msg.seq < confSeq
        <5>1. DOMAIN msg.objs = {}
          BY SMTT(30), <3>4, <4>1, <4>3 DEF Inv, SteadyOK
        <5>2. DOMAIN cache = {}
          BY <3>3, <4>3, <5>1, EmptyIs
        <5> QED
          BY <3>1, <5>2
      <4>4. CASE ~(msg.seq < confSeq)
        <5>1. base = hostCache
          BY <3>6, <4>1, <4>4
        <5> QED
          BY <3>1, <3>3, <4>2, <5>1
      <4> QED
        BY <4>3, <4>4
    <3> QED
      BY <3>5, <3>6
  <2> QED
    BY <2>1, <2>2, <2>3
       DEF Next, Cycle, Daemon, AdoptAgent, ResyncDue, NotConnected, FetchStatus, AskConf,
           NamesFail, ReadConf, ConfFail, AskObject, ReadObject, ObjectFail, Errs, shown
<1> QED
  BY <1>1, Invariance, PTL DEF Spec, StaleNotRemoved
=============================================================================
