------------------------------- MODULE Checks -------------------------------
(***************************************************************************)
(* The life of the checks in sysmond's queue: the main loop of syswatch.c  *)
(* (do_watch) as it starts, services, times out, retires and cleans up the *)
(* entries, with the handlers of StreamChecks, DgramChecks and IcmpChecks  *)
(* doing the work.  Which objects are due is queue_checks()'s business and *)
(* is modelled in Watch; what an answer means to an object is              *)
(* handle_retval()'s and is modelled in Outage.                            *)
(*                                                                         *)
(* A pass is: queue some checks, wake up the stale ones, take in the ICMP  *)
(* replies, service or retire every entry in queue order, sleep.           *)
(***************************************************************************)
EXTENDS StreamChecks, DgramChecks, IcmpChecks, Lists

CONSTANTS Fleets,       \* what the objects are: functions Slots -> Kinds or "none"
          MaxReplies,   \* echo replies read in one pass
          MaxSleep      \* ticks needssleep() may sleep: 2 s, less if woken

Leaked == 99            \* the owner of a descriptor nobody will close

ASSUME FleetAssumption ==
  /\ Fleets \subseteq [Slots -> Kinds \cup {"none"}]
  /\ MaxReplies \in Nat /\ MaxSleep \in Nat \ {0} /\ MaxSleep < Killafter
  /\ Leaked \notin Slots

VARIABLES kind,         \* checkent->type of each object
          ent,          \* its entry
          queue,        \* queuehead and its next pointers
          fdt,          \* the descriptor table
          helper,       \* use_ping_helper
          icmp,         \* glob_icmp_fd and glob_icmpv6_fd are open
          at,           \* where do_watch() is in its loop
          turn,         \* the entries a walk of the queue has not reached
          got,          \* echo replies read in this pass
          harm,         \* what the last step did: kind and harm (a ghost)
          tainted       \* memory or descriptors have been confused (a ghost)

vars == <<kind, ent, queue, fdt, helper, icmp, at, turn, got, harm, tainted>>

Init == /\ kind \in Fleets
        /\ ent = [i \in Slots |-> NoEntry]
        /\ queue = <<>> /\ turn = <<>>
        /\ fdt = [f \in Fds |-> 0]
        /\ helper = TRUE
        /\ icmp = TRUE \/ \E i \in Slots : kind[i] \in EchoKinds /\ icmp = FALSE
        /\ at = "top" /\ got = 0
        /\ harm = {} /\ tainted = FALSE

start_this(w, i) ==
  LET k == kind[i]
      s == CASE k = "tcp"    -> start_test_tcp(w, i)
             [] k = "udp"    -> start_test_udp(w, i)
             [] k = "ping"   -> start_test_ping(w, i)
             [] k = "pktloss" -> start_test_pktloss(w, i)
             [] k = "rtt"    -> start_test_rtt(w, i)
             [] k = "snmp"   -> start_test_snmp(w, i)
             [] k = "nntp"   -> start_test_nntp(w, i)
             [] k = "smtp"   -> start_test_smtp(w, i)
             [] k = "imap"   -> start_test_imap(w, i)
             [] k = "pop3"   -> start_test_pop3(w, i)
             [] k = "x500"   -> start_test_x500(w, i)
             [] k = "dns"    -> start_check_dns(w, i)
             [] k = "radius" -> start_check_radius(w, i)
             [] k = "www"    -> start_test_www(w, i)
             [] k = "sysm"   -> start_check_sysmon(w, i)
             [] k = "pingv6" -> start_test_pingv6(w, i)
             [] k = "ssh"    -> start_test_sshd(w, i)
  IN {[x EXCEPT !.e.started = TRUE] : x \in s}

\* Every handler but radius's returns at once when monitordata is NULL, and radius's
\* is never called with it NULL: what clears the pointer also gives an answer.
service_started(w, i) ==
  LET k == kind[i]
  IN IF w.e.data = "null" THEN {w}
     ELSE CASE k = "tcp"    -> service_test_tcp(w, i)
            [] k = "udp"    -> service_test_udp(w, i)
            [] k = "ping"   -> service_test_ping(w, i)
            [] k = "pktloss" -> service_test_pktloss(w, i)
            [] k = "rtt"    -> service_test_rtt(w, i)
            [] k = "snmp"   -> service_test_snmp(w, i)
            [] k = "nntp"   -> service_test_nntp(w, i)
            [] k = "smtp"   -> service_test_smtp(w, i)
            [] k = "imap"   -> service_test_imap(w, i)
            [] k = "pop3"   -> service_test_pop3(w, i)
            [] k = "x500"   -> service_test_x500(w, i)
            [] k = "dns"    -> service_check_dns(w, i)
            [] k = "radius" -> service_check_radius(w, i)
            [] k = "www"    -> service_test_www(w, i)
            [] k = "sysm"   -> service_check_sysmon(w, i)
            [] k = "pingv6" -> service_test_pingv6(w, i)
            [] k = "ssh"    -> service_test_sshd(w, i)

service_this(w, i) ==
  IF w.e.started THEN service_started(w, i) ELSE start_this(w, i)

stop_this(w, i) ==
  LET k == kind[i]
  IN CASE k = "tcp"    -> stop_test_tcp(w, i)
       [] k = "udp"    -> stop_test_udp(w, i)
       [] k = "ping"   -> stop_test_ping(w, i)
       [] k = "pktloss" -> stop_test_pktloss(w, i)
       [] k = "rtt"    -> stop_test_rtt(w, i)
       [] k = "snmp"   -> stop_test_snmp(w, i)
       [] k = "nntp"   -> stop_test_nntp(w, i)
       [] k = "smtp"   -> stop_test_smtp(w, i)
       [] k = "imap"   -> stop_test_imap(w, i)
       [] k = "pop3"   -> stop_test_pop3(w, i)
       [] k = "x500"   -> stop_test_x500(w, i)
       [] k = "dns"    -> stop_check_dns(w, i)
       [] k = "radius" -> stop_check_radius(w, i)
       [] k = "www"    -> stop_test_www(w, i)
       [] k = "sysm"   -> stop_check_sysmon(w, i)
       [] k = "pingv6" -> stop_test_pingv6(w, i)
       [] k = "ssh"    -> stop_test_sshd(w, i)

World(i) == [e |-> ent[i], fdt |-> fdt, helper |-> helper, icmp |-> icmp,
             harm |-> {}, up |-> TRUE]

Confusing == {"stolen", "uaf", "doublefree"}

\* The daemon after a handler left world w for object i; next is where the loop
\* goes, unless the handler called ABORT().
Become(i, w, next) ==
  /\ ent' = [ent EXCEPT ![i] = w.e]
  /\ fdt' = w.fdt
  /\ helper' = w.helper
  /\ harm' = {<<kind[i], h>> : h \in w.harm}
  /\ tainted' = (tainted \/ w.harm \cap Confusing # {})
  /\ at' = IF w.up THEN next ELSE "dead"
-----------------------------------------------------------------------------
\* wakeup_checks() is called at most every ten seconds, so an entry may be stale
\* for that long before it is woken; then it finds every stale entry.
Stale ==
  LET all == Filter(queue, {i \in Slots : ent[i].age >= Killafter})
  IN {all} \cup (IF \E i \in Slots : ent[i].age >= Killafter + Throttle
                 THEN {} ELSE {<<>>})

\* Mutant: the queued flag is not looked at.
queue_checks_again(due) ==
  /\ at = "top"
  /\ \A i \in due : kind[i] # "none"
  /\ \E order \in Arrangements(due) : queue' = order \o queue
  /\ turn' \in Stale
  /\ ent' = [i \in Slots |-> IF i \in due THEN NewEntry ELSE ent[i]]
  /\ at' = "wake" /\ got' = 0 /\ harm' = {}
  /\ UNCHANGED <<kind, icmp, fdt, helper, tainted>>

\* queue_check() for every object found due: a new entry at the head.  Of the
\* others, those that wakeup_checks() finds stale are next.
queue_checks(due) ==
  /\ at = "top"
  /\ \A i \in due : kind[i] # "none" /\ ~ent[i].queued
  /\ \E order \in Arrangements(due) : queue' = order \o queue
  /\ turn' \in Stale
  /\ ent' = [i \in Slots |-> IF i \in due THEN NewEntry ELSE ent[i]]
  /\ at' = "wake" /\ got' = 0 /\ harm' = {}
  /\ UNCHANGED <<kind, icmp, fdt, helper, tainted>>

\* One stale entry of wakeup_checks(): queued killafter ago, it is stopped (a ping is
\* not) and its answer is "timed out", whatever it was.
wakeup_checks ==
  /\ at = "wake" /\ turn # <<>>
  /\ LET i == Head(turn)
         w == World(i)
         s == IF kind[i] = "ping" THEN w ELSE stop_this(w, i)
     IN Become(i, Harm(Answer(s, "TIMEDOUT"),
                       IF ent[i].retval = "pending" THEN "killed" ELSE "overruled"),
               "wake")
  /\ turn' = Tail(turn)
  /\ UNCHANGED <<kind, icmp, queue, got>>

\* One echo reply, which may be late, a duplicate, or somebody else's.
reply(i, seq, ours) ==
  /\ at = "wake" /\ turn = <<>> /\ got < MaxReplies
  /\ kind[i] \in EchoKinds /\ ent[i].data = "held"
  /\ ent' = [ent EXCEPT ![i] =
       CASE kind[i] = "ping"    -> reply_ping(@, seq, ours)
         [] kind[i] = "pktloss" -> reply_pktloss(@, seq, ours)
         [] kind[i] = "rtt"     -> rtt_match_and_record(@, seq, ours)
         [] kind[i] = "pingv6"  -> handle_pingv6_response(@, seq, ours)]
  /\ got' = got + 1 /\ harm' = {}
  /\ UNCHANGED <<kind, icmp, queue, fdt, helper, at, turn, tainted>>

handle_icmp_responses ==
  \E i \in Slots, seq \in 0..SendPings, ours \in BOOLEAN : reply(i, seq, ours)

\* The socket is read dry; service_checks() begins.
Drained ==
  /\ at = "wake" /\ turn = <<>>
  /\ at' = "service" /\ turn' = queue /\ harm' = {}
  /\ UNCHANGED <<kind, icmp, ent, queue, fdt, helper, got, tainted>>

\* handle_retval() has the answer; the entry is unlinked and freed as it is.
\* A descriptor or memory it still held is nobody's from now on.
Retired(i) ==
  LET e == ent[i]
      lost == {f \in Fds : f = e.fd /\ fdt[f] = i}
  IN [e |-> NoEntry, helper |-> helper, icmp |-> icmp, up |-> TRUE,
      fdt |-> [f \in Fds |-> IF f \in lost THEN Leaked ELSE fdt[f]],
      harm |-> (IF lost # {} THEN {"lostfd"} ELSE {})
               \cup (IF e.data = "held" THEN {"lostmem"} ELSE {})]

\* Mutant: an entry without data is taken to be finished.
service_checks_hasty ==
  /\ at = "service" /\ turn # <<>>
  /\ LET i == Head(turn)
     IN IF ent[i].retval = "pending" /\ ~(ent[i].started /\ ent[i].data = "null")
        THEN /\ \E w \in service_this(World(i), i) : Become(i, w, "service")
             /\ queue' = queue
        ELSE /\ Become(i, Retired(i), "service")
             /\ queue' = Filter(queue, Slots \ {i})
  /\ turn' = Tail(turn)
  /\ UNCHANGED <<kind, icmp, got>>

\* One entry of service_checks().
service_checks ==
  /\ at = "service" /\ turn # <<>>
  /\ LET i == Head(turn)
     IN IF ent[i].retval = "pending"
        THEN /\ \E w \in service_this(World(i), i) : Become(i, w, "service")
             /\ queue' = queue
        ELSE /\ Become(i, Retired(i), "service")
             /\ queue' = Filter(queue, Slots \ {i})
  /\ turn' = Tail(turn)
  /\ UNCHANGED <<kind, icmp, got>>

\* select() in needssleep(): up to two seconds, less if something is ready.
\* Ages stop at the largest value anything compares them with.
Older(e, d) ==
  LET cap(a, top) == IF a + d > top THEN top ELSE a + d
  IN IF ~e.queued THEN e
     ELSE [e EXCEPT !.age = cap(@, Killafter + Throttle),
                    !.idle = IF e.data = "held" THEN cap(@, Globtimeout) ELSE 0]

Sleep(d) ==
  /\ at = "service" /\ turn = <<>>
  /\ ent' = [i \in Slots |-> Older(ent[i], d)]
  /\ at' = "woke" /\ harm' = {}
  /\ UNCHANGED <<kind, icmp, queue, fdt, helper, turn, got, tainted>>

\* Still in needssleep(): a descriptor an entry asked to be woken for (only
\* snmp does) is readable, and the entry is serviced there.
ServiceReady(i) ==
  /\ at = "woke"
  /\ kind[i] = "snmp" /\ ent[i].queued /\ ent[i].fd # 0 /\ ent[i].retval = "pending"
  /\ \E w \in service_this(World(i), i) : Become(i, w, "woke")
  /\ UNCHANGED <<kind, icmp, queue, turn, got>>

\* No signal: round again.
Loop ==
  /\ at = "woke"
  /\ at' = "top" /\ harm' = {}
  /\ UNCHANGED <<kind, icmp, ent, queue, fdt, helper, turn, got, tainted>>

\* SIGHUP: fast_cleanup_checks() walks the queue, stopping what still has data.
Hup ==
  /\ at = "woke"
  /\ at' = "hup" /\ harm' = {}
  /\ turn' = Filter(queue, {i \in Slots : ent[i].data # "null"})
  /\ UNCHANGED <<kind, icmp, ent, queue, fdt, helper, got, tainted>>

fast_cleanup_checks ==
  /\ at = "hup" /\ turn # <<>>
  /\ LET i == Head(turn) IN Become(i, stop_this(World(i), i), "hup")
  /\ turn' = Tail(turn)
  /\ UNCHANGED <<kind, icmp, queue, got>>

\* ... and then frees every entry.
FreeQueue ==
  /\ at = "hup" /\ turn = <<>>
  /\ ent' = [i \in Slots |-> NoEntry]
  /\ fdt' = [f \in Fds |-> IF fdt[f] # 0 THEN Leaked ELSE 0]
  /\ queue' = <<>>
  /\ at' = "top"
  /\ harm' = {<<kind[i], "lostfd">> : i \in {fdt[f] : f \in Fds} \cap Slots}
  /\ UNCHANGED <<kind, icmp, helper, turn, got, tainted>>

\* Confused memory may bring the process down at any time.
Crash ==
  /\ tainted /\ at # "dead"
  /\ at' = "dead" /\ harm' = {}
  /\ UNCHANGED <<kind, icmp, ent, queue, fdt, helper, turn, got, tainted>>

\* The process is started again, by whoever looks after it.
Restart ==
  /\ at = "dead"
  /\ ent' = [i \in Slots |-> NoEntry]
  /\ queue' = <<>> /\ turn' = <<>>
  /\ fdt' = [f \in Fds |-> 0]
  /\ helper' = TRUE /\ tainted' = FALSE
  /\ at' = "top" /\ got' = 0 /\ harm' = {}
  /\ UNCHANGED <<kind, icmp>>

Next == \/ \E due \in SUBSET Slots : queue_checks(due)
        \/ wakeup_checks
        \/ handle_icmp_responses
        \/ Drained
        \/ service_checks
        \/ \E d \in 0..MaxSleep : Sleep(d)
        \/ \E i \in Slots : ServiceReady(i)
        \/ Loop
        \/ Hup
        \/ fast_cleanup_checks
        \/ FreeQueue
        \/ Crash
        \/ Restart

Spec == Init /\ [][Next]_vars

\* do_watch() never stops, and time passes: of the many sleeps of a running
\* daemon some last, and a daemon that died is started again.
FairSpec == /\ Spec /\ WF_vars(Next)
            /\ SF_vars(\E d \in 1..MaxSleep : Sleep(d))
-----------------------------------------------------------------------------
TypeOK ==
  /\ kind \in Fleets
  /\ \A i \in Slots :
       /\ ent[i].retval \in Retvals
       /\ ent[i].data \in {"null", "held", "freed"}
       /\ ent[i].fd \in Fds \cup {0}
       /\ ent[i].age \in 0..(Killafter + Throttle) /\ ent[i].idle \in 0..Globtimeout
  /\ \A f \in Fds : fdt[f] \in Slots \cup {0, Leaked}
  /\ helper \in BOOLEAN /\ icmp \in BOOLEAN
  /\ at \in {"top", "wake", "service", "woke", "hup", "dead"}
  /\ Range(turn) \subseteq Range(queue)
  /\ Range(queue) = {i \in Slots : ent[i].queued}
  /\ IsInjective(queue)

\* What a check of each kind has to hear before it may say OK.
Needed == [tcp |-> 1, smtp |-> 3, ssh |-> 2, www |-> 2, pop3 |-> 4, imap |-> 3,
           nntp |-> 2, sysm |-> 3, x500 |-> 2, udp |-> 1, radius |-> 1, dns |-> 1,
           snmp |-> 1, ping |-> MinPings, pingv6 |-> MinPings,
           pktloss |-> SendPings - Tolerance, rtt |-> 1]

\* A check answers OK only after the server gave every answer its protocol
\* wants, or the host enough echo replies of its own: no timeout, error path,
\* late reply or reply of another host leads to OK (the service_* handlers).
\* The echo checks of a daemon that got no ICMP socket always say OK.
OkEarned ==
  \A i \in Slots :
    ent[i].queued /\ ent[i].retval = "OK" /\ ~tainted =>
      \/ ent[i].good >= Needed[kind[i]]
      \/ kind[i] \in EchoKinds /\ ~icmp

\* The checks, and the states of checks, that have a timeout of their own: tcp,
\* udp, radius, pktloss, rtt and pingv6 always, smtp and ssh while connecting,
\* snmp while it waits for the agent.
SelfTimed(k, e) ==
  \/ k \in {"tcp", "udp", "radius", "pktloss", "rtt", "pingv6"}
  \/ k \in {"smtp", "ssh"} /\ e.st = "CONNECT"
  \/ k = "snmp" /\ e.st # "ANSWERED"

\* Checks with a timeout of their own end before killafter has to end them,
\* unless an error they do not know left them without data.
SelfTimedEnd ==
  \A i \in Slots :
    LET e == ent[i]
    IN e.queued /\ SelfTimed(kind[i], e) /\ e.retval = "pending" /\ e.data = "held"
         /\ ~tainted
       => e.age < Killafter

\* An open descriptor is in use by a check that is running, or belongs to a
\* check that opened it before finding that the name does not resolve, or was
\* leaked by such a check (start_*: NODNS).  No other path loses one.
DescriptorsAccounted ==
  \A f \in Fds :
    fdt[f] \in Slots /\ ~tainted =>
      LET e == ent[fdt[f]]
      IN e.queued /\ e.fd = f /\ (e.data = "held" \/ e.retval = "NODNS")

\* As long as nothing is confused yet, these are the only kinds of check that
\* can do harm, and the harm each can do: a handler that frees without
\* clearing the pointer, a stop that closes without looking, a start that
\* leaves its descriptor open, and an echo check whose send failed.  The others
\* close and free exactly once on every path, reload and killafter included.
KnownHarm ==
  ({"radius", "dns"} \X {"uaf", "doublefree", "badclose", "stolen"})
  \cup ({"sysm"} \X {"doublefree", "badclose", "stolen"})
  \cup ({"udp", "x500"} \X {"doublefree"})
  \cup (EchoKinds \X {"lostmem"})
  \cup ((StreamKinds \cup {"udp"}) \X {"lostfd"})
  \cup (Kinds \X {"killed", "overruled"})

HarmIsConfined == [][~tainted => harm' \subseteq KnownHarm]_vars

\* Replies are counted once and for their own host: pktloss never counts more
\* than it sent, rtt counts each probe once, and nobody counts a reply that
\* came from another address (handle_icmp_responses, rtt_match_and_record).
RepliesCountOnce ==
  \A i \in Slots :
    LET e == ent[i]
    IN e.queued /\ e.data = "held" /\ kind[i] \in EchoKinds =>
         /\ e.m = e.good
         /\ kind[i] = "pktloss" => e.m <= e.n
         /\ kind[i] = "rtt" => e.m = Cardinality(e.seen) /\ e.seen \subseteq 1..e.n

\* The queue does what CheckLife says a check is.
Life == INSTANCE CheckLife
          WITH Objects <- Slots, Answers <- Retvals \ {"pending"},
               NoAnswer <- "pending", TimedOut <- "TIMEDOUT",
               status <- [i \in Slots |-> IF ~ent[i].queued THEN "idle"
                                          ELSE IF ent[i].retval = "pending" THEN "running"
                                          ELSE "answered"],
               answer <- [i \in Slots |-> ent[i].retval]

\* service_checks(), wakeup_checks() and fast_cleanup_checks() together keep the
\* promise of CheckLife: an answer stands until it is handed on, or killafter
\* overrules it, and every check that was queued ends, answered and retired or
\* dropped by a reload or a restart.
ChecksAreCheckLife == Life!Spec
=============================================================================
