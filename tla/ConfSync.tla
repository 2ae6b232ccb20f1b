------------------------------ MODULE ConfSync ------------------------------
(***************************************************************************)
(* sysmon-web's copy of a site (service.go, agent.go) over the link that   *)
(* the site's sysmond dials: adoptAgent, and the poll cycle fetchStatus    *)
(* with its incremental CONF (fetchAllObjectsXML), its object by object    *)
(* fallback, and what fetchFleet keeps of the outcome.                     *)
(*                                                                         *)
(* One cycle runs at a time (Service.fetching).  VERS, UPTIME, MODE, SITE  *)
(* and STATAL fail alike and are one exchange, STATAL's.  TRAPS and        *)
(* CONFIG-GEN, whose errors fetchStatus ignores, are left out, and so is a *)
(* daemon that answers CONF only after the deadline.                       *)
(***************************************************************************)
EXTENDS SrvClient

VARIABLES
  conn,         (* d.conn: the adopted link, None for nil                   *)
  confSeq,
  cached, hostCache,   (* hostCache # nil, and its objects                  *)
  due,          (* fullResyncAt is zero or more than fullResyncEvery ago    *)
  poll,         (* the cycle under way                                      *)
  lastHosts, dark,     (* what is shown of the site, and lastErr # ""       *)
  clean,        (* history: hostCache was filled over conn, from everything *)
  steady        (* history: the objects the daemon had throughout the cycle *)

copy == <<conn, confSeq, cached, hostCache, due, clean>>
shown == <<lastHosts, dark>>
vars == <<srvVars, copy, poll, shown, steady>>

Empty == [o \in {} |-> Fresh]
Idle == [at |-> "idle", link |-> None, since |-> 0, names |-> {}, got |-> Empty]
Tables == UNION {[S -> Data] : S \in SUBSET Objects}

\* The map g after each entry of f has been stored in it.
Over(f, g) ==
  [o \in DOMAIN f \cup DOMAIN g |-> IF o \in DOMAIN f THEN f[o] ELSE g[o]]

TypeOK ==
  /\ SrvTypeOK
  /\ conn \in Links \cup {None} /\ conn # None => conn \in web
  /\ confSeq \in Nat /\ cached \in BOOLEAN /\ hostCache \in Tables
  /\ due \in BOOLEAN /\ clean \in BOOLEAN /\ dark \in BOOLEAN
  /\ lastHosts \in Tables
  /\ poll.at \in {"idle", "names", "conf", "merge", "walk"}
  /\ poll.link \in Links \cup {None}
  /\ poll.names \subseteq Objects /\ poll.got \in Tables
  /\ steady \subseteq DOMAIN objs

Init ==
  /\ SrvInit
  /\ conn = None /\ confSeq = 0 /\ cached = FALSE /\ hostCache = Empty
  /\ due = TRUE /\ clean = FALSE
  /\ poll = Idle
  /\ lastHosts = Empty /\ dark = TRUE
  /\ steady = DOMAIN objs

\* adoptAgent: the old link is closed and what was learnt over it forgotten.
\* Neither this nor the poll takes the other's lock for longer than a look.
AdoptAgent(n) ==
  /\ n \in greeted
  /\ greeted' = greeted \ {n}
  /\ web' = web \ {conn}
  /\ conn' = n
  /\ confSeq' = 0 /\ cached' = FALSE /\ hostCache' = Empty
  /\ dark' = FALSE
  /\ clean' = FALSE
  /\ UNCHANGED <<daemon, clients, agg_fd, tls_table, waiting, far, msg, left,
                 due, poll, lastHosts>>

\* fullResyncEvery has passed.
ResyncDue ==
  /\ ~due
  /\ due' = TRUE
  /\ UNCHANGED <<srvVars, conn, confSeq, cached, hostCache, clean, poll, shown>>

-----------------------------------------------------------------------------
(* A poll cycle.                                                           *)

\* The socket can be written to, as far as this end knows.
Writable(n) == n \in web /\ far[n] # "rst"

\* The next read from n may fail: this end is closed, the other end is, or
\* nothing comes before the deadline.
Broken(n) ==
  n \notin web \/ far[n] \in {"rst", "silent"} \/ (Unserved /\ far[n] = "fin")

\* Mutant of DropConnection: whatever link is current is closed.
DropCurrent(n) == conn' = None /\ web' = web \ {conn}

\* Mutant of DropConnection: the link is closed and not detached.
DropOnlyCloses(n) ==
  /\ web' = IF conn = n THEN web \ {n} ELSE web
  /\ UNCHANGED conn

\* dropConnection: of the link polled and of no other.
DropConnection(n) ==
  IF conn = n THEN conn' = None /\ web' = web \ {n}
  ELSE UNCHANGED <<conn, web>>

\* Mutant of Errs: the hosts of the failed site are dropped.
ErrsForgets ==
  /\ DropConnection(poll.link)
  /\ poll' = Idle /\ msg' = NoMsg
  /\ lastHosts' = Empty /\ dark' = TRUE
  /\ UNCHANGED <<daemon, clients, agg_fd, tls_table, waiting, far, greeted,
                 confSeq, cached, hostCache, due, clean>>

\* fetchStatus returns an error, and fetchFleet keeps the hosts as stale.
Errs ==
  /\ DropConnection(poll.link)
  /\ poll' = Idle /\ msg' = NoMsg
  /\ dark' = TRUE
  /\ UNCHANGED <<daemon, clients, agg_fd, tls_table, waiting, far, greeted,
                 confSeq, cached, hostCache, due, clean, lastHosts>>

\* fetchStatus returns a status: fetchFleet takes its hosts for the site's.
Succeeds(hosts) ==
  /\ lastHosts' = hosts /\ dark' = FALSE
  /\ poll' = Idle /\ msg' = NoMsg

NotConnected ==
  /\ poll.at = "idle" /\ conn = None /\ ~dark
  /\ dark' = TRUE
  /\ UNCHANGED <<srvVars, copy, poll, lastHosts>>

FetchStatus ==
  /\ poll.at = "idle" /\ conn # None
  /\ poll' = [Idle EXCEPT !.at = "names", !.link = conn]
  /\ msg' = [what |-> "names?"]
  /\ UNCHANGED <<daemon, links, left, copy, shown>>

\* Mutant of AskConf: everything is asked for only when nothing is held.
AskConfOnlyMoved ==
  /\ poll.at = "names" /\ msg.what = "names"
  /\ LET since == IF ~cached THEN 0 ELSE confSeq
     IN  /\ poll' = [poll EXCEPT !.at = "conf", !.since = since,
                                 !.names = msg.names]
         /\ msg' = [what |-> "conf?", since |-> since]
  /\ UNCHANGED <<daemon, links, left, copy, shown>>

\* The answer to STATAL has come: fetchAllObjectsXML asks for what moved, or
\* for everything.
AskConf ==
  /\ poll.at = "names" /\ msg.what = "names"
  /\ LET since == IF ~cached \/ due THEN 0 ELSE confSeq
     IN  /\ poll' = [poll EXCEPT !.at = "conf", !.since = since,
                                 !.names = msg.names]
         /\ msg' = [what |-> "conf?", since |-> since]
  /\ UNCHANGED <<daemon, links, left, copy, shown>>

\* STATAL or one before it is not answered; an answer that takes longer than
\* the deadline is a fault.
NamesFail ==
  /\ poll.at = "names"
  /\ \/ Broken(poll.link) /\ UNCHANGED left
     \/ ~Broken(poll.link) /\ Unserved /\ Spend("faults")
  /\ Errs

ReadConf ==
  /\ poll.at = "conf" /\ msg.what = "conf"
  /\ poll' = [poll EXCEPT !.at = "merge"]
  /\ UNCHANGED <<srvVars, copy, shown>>

\* The conversation breaks: no error, but ok = false.
ConfFail ==
  /\ poll.at = "conf"
  /\ Broken(poll.link)
  /\ poll' = [poll EXCEPT !.at = "walk"]
  /\ msg' = NoMsg
  /\ UNCHANGED <<daemon, links, left, copy, shown>>

\* What a reply makes of the copy: the new cache, and whether everything is
\* asked for next.
Merged(since, reply) ==
  LET all == since = 0 \/ ~cached
      back == reply.seq < confSeq
      cache == Over(reply.objs, IF all \/ back THEN Empty ELSE hostCache)
      ghosts == reply.total > 0 /\ Cardinality(DOMAIN cache) # reply.total
  IN  [cache |-> cache, due |-> back \/ ghosts \/ (due /\ ~all)]

MergeConf ==
  /\ poll.at = "merge"
  /\ LET m == Merged(poll.since, msg)
     IN  /\ cached' = TRUE /\ hostCache' = m.cache /\ due' = m.due
         /\ confSeq' = msg.seq
         /\ clean' = (poll.link = conn /\ (clean \/ poll.since = 0))
         /\ IF DOMAIN m.cache # {} THEN Succeeds(m.cache)
            ELSE /\ poll' = [poll EXCEPT !.at = "walk"]
                 /\ msg' = NoMsg
                 /\ UNCHANGED shown
  /\ UNCHANGED <<daemon, links, left, conn>>

\* The objects that STATAL named, one SHOWOBJ each.
AskObject(o) ==
  /\ poll.at = "walk" /\ msg = NoMsg /\ o \in poll.names
  /\ Writable(poll.link)
  /\ msg' = [what |-> "obj?", name |-> o]
  /\ poll' = [poll EXCEPT !.names = @ \ {o}]
  /\ UNCHANGED <<daemon, links, left, copy, shown>>

ReadObject ==
  /\ poll.at = "walk" /\ msg.what = "obj"
  /\ poll' = [poll EXCEPT !.got = Over(msg.found, @)]
  /\ msg' = NoMsg
  /\ UNCHANGED <<daemon, links, left, copy, shown>>

ObjectFail ==
  /\ poll.at = "walk" /\ msg # NoMsg
  /\ Broken(poll.link)
  /\ Errs /\ UNCHANGED left

\* No object is left, or none of the requests left can be written: a failed
\* Write skips its object, and the walk ends without an error.
WalkEnds ==
  /\ poll.at = "walk" /\ msg = NoMsg
  /\ poll.names = {} \/ ~Writable(poll.link)
  /\ Succeeds(poll.got)
  /\ UNCHANGED <<daemon, links, left, copy>>

-----------------------------------------------------------------------------
Daemon ==
  \/ \E o \in DOMAIN objs :
       \/ \E r \in {"ok", "nodns"} : HandleRetval(o, r)
       \/ DoAck(o) \/ DoUnack(o) \/ PeriodicRewalk(o)
  \/ \E tree \in Trees : Reload(tree) \/ Restart(tree)
  \/ \E fd \in Fds : Accept(fd)
  \/ \E c \in clients : Quit(c) \/ TimeoutClient(c) \/ ReadEof(c)
  \/ AggregatorPoll({conn, poll.link}) \/ BackoffEnds
  \/ DoService(poll.link)
  \/ \E n \in Links : Cut(n)

Cycle ==
  \/ NotConnected \/ FetchStatus \/ AskConf \/ NamesFail
  \/ ReadConf \/ ConfFail \/ MergeConf
  \/ (\E o \in Objects : AskObject(o)) \/ ReadObject \/ ObjectFail \/ WalkEnds

Steady ==
  steady' = DOMAIN objs' \cap (IF poll'.at = "idle" THEN Objects ELSE steady)

Next ==
  \/ Daemon /\ UNCHANGED <<copy, poll, shown>> /\ Steady
  \/ (\E n \in Links : AdoptAgent(n)) /\ Steady
  \/ ResyncDue /\ Steady
  \/ Cycle /\ Steady

\* The main loop of sysmond and the poller of sysmon-web keep running, and
\* time passes: an end that is closed or silent is found out.
Fairness ==
  LET Of(A) == A /\ UNCHANGED <<copy, poll, shown>> /\ Steady
  IN  /\ WF_vars(Of(DoService(poll.link)))
      /\ WF_vars(Of(AggregatorPoll({conn, poll.link})))
      /\ WF_vars(Of(BackoffEnds))
      /\ WF_vars(Of(\E c \in clients :
                       c.link # None /\ (TimeoutClient(c) \/ ReadEof(c))))
      /\ WF_vars((\E n \in Links : AdoptAgent(n)) /\ Steady)
      /\ WF_vars(ResyncDue /\ Steady)
      /\ WF_vars(Cycle /\ Steady)

Spec == Init /\ [][Next]_vars /\ Fairness

-----------------------------------------------------------------------------
(* Properties.                                                             *)

\* What an incremental CONF leaves in the copy is right.  While the link over
\* which everything was last sent stands, every object stamped up to confSeq
\* is in hostCache with the data the daemon has, but for a name that
\* periodic_rewalk found to resolve again without a stamp; and an object that
\* is gone is held only until the next answer, or everything is asked for
\* next, or the daemon has no objects left to count (send_conf,
\* object_changed, update_count, the merge of fetchAllObjectsXML).
CacheFollowsDaemon ==
  (clean /\ conn # None /\ far[conn] = "open") =>
    /\ \A o \in DOMAIN objs :
         objs[o].seq <= confSeq =>
           /\ o \in DOMAIN hostCache
           /\ hostCache[o] = objs[o].data \/ o \in unstamped
    /\ \A o \in DOMAIN hostCache \ DOMAIN objs :
         due \/ confSeq < glob_change_seq \/ DOMAIN objs = {}

\* A descriptor number has the SSL of the connection it is, and of no earlier
\* one: a client of the listening socket is never written to through a dead
\* TLS session (tls_disconnect, not close(): QUIT, timeout_clients,
\* send_stat).
SslOfItsOwn ==
  /\ \A c \in clients : tls_table[c.fd] = c.link
  /\ \A fd \in Fds : tls_table[fd] # None => \E c \in clients : c.fd = fd

\* Only a poll over the current link can cost it: one that fails on a link
\* that was replaced while it waited leaves the new one alone
\* (dropConnection).
NewLinkSurvives == [][(conn # None /\ conn' = None) => poll.link = conn]_vars

\* An accepted client has the number of the lost link, so that
\* aggregator_still_up takes it for the link.
Mistaken == \E c \in clients : c.fd = agg_fd /\ c.link = None

\* However changes, reloads, restarts, cut links and late handshakes fall into
\* the polls, sysmon-web comes to show every object as the daemon has it, and
\* goes on so; unless the daemon takes another client for its link forever
\* (aggregator_poll, fetchStatus, fullResyncEvery).
FeedConverges ==
  <>[]Mistaken \/ <>[](lastHosts = DataOf(objs) /\ ~dark)

\* The two ways in which a cycle takes a part of a site for all of it: the
\* walk skips the objects whose request it cannot write, and an adoption in
\* the middle of an incremental CONF leaves no copy to merge the answer into.
PartTakenForAll ==
  \/ poll.at = "walk" /\ ~Writable(poll.link)
  \/ poll.at = "merge" /\ poll.since # 0 /\ ~cached

\* A site that stops answering keeps its hosts, and so does one that answers:
\* a host that the daemon had throughout a cycle leaves the list at its end in
\* no other way than those two (fetchFleet, staleHosts, fetchStatus,
\* fetchAllObjectsXML).
StaleNotRemoved ==
  [][\A o \in DOMAIN lastHosts \cap steady :
       o \in DOMAIN lastHosts' \/ PartTakenForAll]_vars
=============================================================================
