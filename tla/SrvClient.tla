----------------------------- MODULE SrvClient ------------------------------
(***************************************************************************)
(* sysmond as its clients see it: the objects with the sequence number of  *)
(* their last change (object_changed), the list of connected clients and   *)
(* what ends one (srvclient.c), the link to the aggregator that sits in    *)
(* the same list (aggregator.c), and the table of TLS descriptors          *)
(* (tlsio.c).                                                              *)
(*                                                                         *)
(* An object's data is what CONF sends of it: lastcheck, with the one      *)
(* failure that periodic_rewalk treats by itself, and acked.  Notes and    *)
(* contacted are stamped in the same way and are left out.  A link is one  *)
(* TCP connection to sysmon-web; its number may be taken again when both   *)
(* ends have done with it.                                                 *)
(***************************************************************************)
EXTENDS Lists

CONSTANTS
  Trees,     (* the sets of objects a configuration file may name          *)
  FirstTree, (* the one the first process has read                         *)
  Fds,       (* the descriptor numbers the client sockets are given        *)
  Links,     (* connections to sysmon-web                                  *)
  Events,    (* bound: all of the following together                       *)
  Changes,   (* bound: changes of an object's data                         *)
  Reloads,   (* bound: reloads                                             *)
  Faults,    (* bound: restarts, cut links, failed dials, late answers     *)
  Accepts    (* bound: clients of the listening socket                     *)

None == 0

ASSUME SrvAssumption ==
  /\ Fds \subseteq Nat \ {0} /\ Links \subseteq Nat \ {0}
  /\ IsFiniteSet(Fds) /\ IsFiniteSet(Links)
  /\ FirstTree \in Trees /\ \A tree \in Trees : IsFiniteSet(tree)
  /\ {Events, Changes, Reloads, Faults, Accepts} \subseteq Nat

VARIABLES
  objs,             (* currenthead: per object its data and change_seq      *)
  glob_change_seq,
  clients,          (* clienthead->next: descriptor, and link or None       *)
  agg_fd,
  tls_table,        (* per descriptor the link whose SSL it has, or None    *)
  waiting,          (* now < agg_next_try                                   *)
  far,              (* per link: what sysmon-web can see of this end        *)
  web,              (* the links whose other end sysmon-web holds open      *)
  greeted,          (* the links welcomed and not yet adopted over there    *)
  msg,              (* the request or the answer on the polled link         *)
  unstamped,        (* history: objects whose data moved without a stamp    *)
  left              (* what is left of the bounds                           *)

daemon == <<objs, glob_change_seq, unstamped>>
links == <<clients, agg_fd, tls_table, waiting, far, web, greeted>>
srvVars == <<daemon, links, msg, left>>

Objects == UNION Trees
Data == [lastcheck : {"ok", "nodns"}, acked : BOOLEAN]
Fresh == [lastcheck |-> "ok", acked |-> FALSE]
NoMsg == [what |-> "none"]
Budget == [events : 0..Events, changes : 0..Changes, reloads : 0..Reloads,
           faults : 0..Faults, accepts : 0..Accepts]

Spend(what) ==
  /\ left[what] > 0 /\ left.events > 0
  /\ left' = [left EXCEPT ![what] = @ - 1, !.events = @ - 1]

DataOf(tree) == [o \in DOMAIN tree |-> tree[o].data]

-----------------------------------------------------------------------------
(* Changes and their stamps.                                               *)

\* Mutant of Changed: the counter is read before it is incremented.
ChangedPostfix(o, d, n) ==
  /\ objs' = [objs EXCEPT ![o] = [data |-> d, seq |-> glob_change_seq + n - 1]]
  /\ glob_change_seq' = glob_change_seq + n
  /\ unstamped' = unstamped \ {o}

\* object_changed, applied n times to o, whose data becomes d.
Changed(o, d, n) ==
  /\ objs' = [objs EXCEPT ![o] = [data |-> d, seq |-> glob_change_seq + n]]
  /\ glob_change_seq' = glob_change_seq + n
  /\ unstamped' = unstamped \ {o}

\* A check of o ends with r: a new state is stamped, and so is the end of an
\* ack.
HandleRetval(o, r) ==
  LET d == objs[o].data
      turned == r # d.lastcheck
      ended == r = "ok" /\ d.acked
  IN  /\ turned \/ ended
      /\ Spend("changes")
      /\ Changed(o, [lastcheck |-> r, acked |-> d.acked /\ ~ended],
                 (IF turned THEN 1 ELSE 0) + (IF ended THEN 1 ELSE 0))
      /\ UNCHANGED <<links, msg>>

SetAck(o, a) ==
  /\ Spend("changes")
  /\ Changed(o, [objs[o].data EXCEPT !.acked = a], 1)
  /\ UNCHANGED <<links, msg>>

DoAck(o) == SetAck(o, TRUE)

DoUnack(o) == SetAck(o, FALSE)

\* The name resolves again: lastcheck is cleared, and no stamp is given.
PeriodicRewalk(o) ==
  /\ objs[o].data.lastcheck = "nodns"
  /\ Spend("changes")
  /\ objs' = [objs EXCEPT ![o].data.lastcheck = "ok"]
  /\ unstamped' = unstamped \cup {o}
  /\ UNCHANGED <<glob_change_seq, links, msg>>

\* update_count: every object of the tree is stamped, in the list's order.
Stamped(data, from) ==
  LET order == CHOOSE s \in Arrangements(DOMAIN data) : TRUE
      place(o) == CHOOSE i \in DOMAIN order : order[i] = o
  IN  [o \in DOMAIN data |-> [data |-> data[o], seq |-> from + place(o)]]

\* A SIGHUP: an object that the new file still names keeps its data.
Reload(tree) ==
  /\ Spend("reloads")
  /\ objs' = Stamped([o \in tree |-> IF o \in DOMAIN objs THEN objs[o].data
                                     ELSE Fresh], glob_change_seq)
  /\ glob_change_seq' = glob_change_seq + Cardinality(tree)
  /\ unstamped' = {}
  /\ UNCHANGED <<links, msg>>

-----------------------------------------------------------------------------
(* The client list and the link in it.                                     *)

Closed(fs, n, how) == IF n = None THEN fs ELSE [fs EXCEPT ![n] = how]

DeadClientCleanup(c) == clients' = clients \ {c}

\* Mutant of Disconnect: a bare close(), which leaves the SSL in the table.
DisconnectBare(c) ==
  /\ DeadClientCleanup(c)
  /\ tls_table' = tls_table
  /\ far' = Closed(far, c.link,
                   IF c.link # None /\ far[c.link] = "silent" THEN "silent"
                   ELSE "fin")

\* tls_disconnect, filedes = -1 and dead_client_cleanup: the SSL goes, the
\* descriptor is free again, the other end is told if it can be.
Disconnect(c) ==
  /\ DeadClientCleanup(c)
  /\ tls_table' = [tls_table EXCEPT ![c.fd] = None]
  /\ far' = Closed(far, c.link,
                   IF c.link # None /\ far[c.link] = "silent" THEN "silent"
                   ELSE "fin")

\* setup_client: the number is any that is free.
Accept(fd) ==
  /\ \A c \in clients : c.fd # fd
  /\ Spend("accepts")
  /\ clients' = clients \cup {[fd |-> fd, link |-> None]}
  /\ UNCHANGED <<daemon, agg_fd, tls_table, waiting, far, web, greeted, msg>>

Quit(c) ==
  /\ c.link = None
  /\ Disconnect(c)
  /\ UNCHANGED <<daemon, agg_fd, waiting, web, greeted, msg, left>>

Unserved == msg.what \in {"names?", "conf?", "obj?"}

\* timeout_clients: nothing was read from c for inactivetime.  sysmon-web
\* polls far more often than that over a link that works.
TimeoutClient(c) ==
  /\ c.link # None => far[c.link] = "silent" \/ c.link \notin web
  /\ Disconnect(c)
  /\ UNCHANGED <<daemon, agg_fd, waiting, web, greeted, msg, left>>

\* sysmon-web has closed its end: getline_tcp reads nothing, the empty line
\* is an unknown request, and the answer to it cannot be sent.
ReadEof(c) ==
  /\ c.link # None /\ c.link \notin web /\ far[c.link] = "open"
  /\ Disconnect(c)
  /\ UNCHANGED <<daemon, agg_fd, waiting, web, greeted, msg, left>>

StillUp == agg_fd # None /\ \E c \in clients : c.fd = agg_fd

FreeLinks(busy) ==
  {n \in Links \ (web \cup greeted \cup busy) :
     far[n] # "open" /\ \A c \in clients : c.link # n}

Forgotten == IF agg_fd = None THEN tls_table
             ELSE [tls_table EXCEPT ![agg_fd] = None]

\* tls_connect and aggregator_announce succeed: link n, on descriptor fd,
\* joins the client list.
Dialled(n, fd) ==
  /\ \A c \in clients : c.fd # fd
  /\ agg_fd' = fd
  /\ clients' = clients \cup {[fd |-> fd, link |-> n]}
  /\ tls_table' = [Forgotten EXCEPT ![fd] = n]
  /\ far' = [far EXCEPT ![n] = "open"]
  /\ web' = web \cup {n}
  /\ greeted' = greeted \cup {n}
  /\ UNCHANGED <<waiting, left>>

\* The dial fails, before sysmon-web has welcomed this daemon or after it.
DialFails(n) ==
  /\ Spend("faults")
  /\ waiting' = TRUE
  /\ agg_fd' = None /\ tls_table' = Forgotten
  /\ \/ UNCHANGED <<far, web, greeted>>
     \/ /\ far' = [far EXCEPT ![n] = "fin"]
        /\ web' = web \cup {n}
        /\ greeted' = greeted \cup {n}
  /\ UNCHANGED clients

\* busy: the links that sysmon-web still has to do with.
AggregatorPoll(busy) ==
  /\ ~StillUp
  /\ \/ /\ waiting /\ agg_fd # None
        /\ agg_fd' = None /\ tls_table' = Forgotten
        /\ UNCHANGED <<clients, waiting, far, web, greeted, left>>
     \/ /\ ~waiting /\ FreeLinks(busy) # {}
        /\ LET n == CHOOSE k \in FreeLinks(busy) :
                        \A j \in FreeLinks(busy) : k <= j
           IN  (\E fd \in Fds : Dialled(n, fd)) \/ DialFails(n)
  /\ UNCHANGED <<daemon, msg>>

\* agg_next_try comes.
BackoffEnds ==
  /\ waiting
  /\ waiting' = FALSE
  /\ UNCHANGED <<daemon, clients, agg_fd, tls_table, far, web, greeted, msg,
                 left>>

\* The answer to CONF since: the objects stamped later, the counter and how
\* many objects there are.
SendConf(since) ==
  [what |-> "conf",
   objs |-> [o \in {x \in DOMAIN objs : objs[x].seq > since} |-> objs[o].data],
   seq |-> glob_change_seq, total |-> Cardinality(DOMAIN objs)]

\* The answer to SHOWOBJ; found is empty for a 403.
ShowObject(name) ==
  [what |-> "obj",
   found |-> [o \in {name} \cap DOMAIN objs |-> objs[o].data]]

\* The answers to STATAL, CONF and SHOWOBJ.
Answer ==
  CASE msg.what = "names?" -> [what |-> "names", names |-> DOMAIN objs]
    [] msg.what = "conf?" -> SendConf(msg.since)
    [] msg.what = "obj?" -> ShowObject(msg.name)

\* service_clients on the link n that sysmon-web polls.
DoService(n) ==
  /\ Unserved
  /\ far[n] = "open"
  /\ \E c \in clients : c.link = n
  /\ msg' = Answer
  /\ UNCHANGED <<daemon, links, left>>

-----------------------------------------------------------------------------
(* What happens to the daemon and to its network.                          *)

\* A new process: its counter starts at zero, it has read the state file or
\* found none, and update_count has stamped its tree.  What the other end
\* sees of the old process: an end of file, a reset, or nothing at all.
Restart(tree) ==
  /\ Spend("faults")
  /\ \E saved \in BOOLEAN :
       objs' = Stamped([o \in tree |->
                          IF saved /\ o \in DOMAIN objs THEN objs[o].data
                          ELSE Fresh], 0)
  /\ glob_change_seq' = Cardinality(tree)
  /\ unstamped' = {}
  /\ clients' = {} /\ agg_fd' = None /\ waiting' = FALSE
  /\ tls_table' = [fd \in Fds |-> None]
  /\ \E how \in {"fin", "rst", "silent"} :
       far' = [n \in Links |-> IF far[n] = "open" THEN how ELSE far[n]]
  /\ UNCHANGED <<web, greeted, msg>>

Cut(n) ==
  /\ far[n] = "open"
  /\ Spend("faults")
  /\ far' = [far EXCEPT ![n] = "silent"]
  /\ UNCHANGED <<daemon, clients, agg_fd, tls_table, waiting, web, greeted,
                 msg>>

SrvTypeOK ==
  /\ DOMAIN objs \in Trees
  /\ \A o \in DOMAIN objs : /\ objs[o].data \in Data
                            /\ objs[o].seq \in 1..glob_change_seq
  /\ unstamped \subseteq DOMAIN objs
  /\ clients \subseteq [fd : Fds, link : Links \cup {None}]
  /\ \A c, d \in clients : c.fd = d.fd => c = d
  /\ agg_fd \in Fds \cup {None} /\ waiting \in BOOLEAN
  /\ tls_table \in [Fds -> Links \cup {None}]
  /\ far \in [Links -> {"none", "open", "fin", "rst", "silent"}]
  /\ web \subseteq Links /\ greeted \subseteq Links
  /\ left \in Budget

SrvInit ==
  /\ objs = Stamped([o \in FirstTree |-> Fresh], 0)
  /\ glob_change_seq = Cardinality(FirstTree)
  /\ unstamped = {}
  /\ clients = {} /\ agg_fd = None /\ waiting = FALSE
  /\ tls_table = [fd \in Fds |-> None]
  /\ far = [n \in Links |-> "none"]
  /\ web = {} /\ greeted = {} /\ msg = NoMsg
  /\ left = [events |-> Events, changes |-> Changes, reloads |-> Reloads,
             faults |-> Faults, accepts |-> Accepts]
=============================================================================
