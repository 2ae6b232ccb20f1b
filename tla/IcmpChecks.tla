----------------------------- MODULE IcmpChecks -----------------------------
(***************************************************************************)
(* The checks that share the raw ICMP sockets: ping, pktloss and rtt of    *)
(* icmp.c, and pingv6.c.  n counts the echo requests of a check, m the     *)
(* replies credited to it, seen the rtt probes answered, idle the time     *)
(* since lastsentat.  See Monitorent for the form of the handlers.         *)
(*                                                                         *)
(* An ident names one check here: generate_ident() hands out 2^15 of them  *)
(* before one comes round again.                                           *)
(***************************************************************************)
EXTENDS Monitorent

\* FREE of the packet buffer and of the structs around it.
Done(w, rv) == Null(Free(Answer(w, rv)))

\* Counters saturate one past the value the handlers compare them with.
Count(k) == IF k > SendPings THEN k ELSE k + 1

\* pinger_v4_via_helper() and pinger_v6_via_helper(): the setuid helper sends
\* the packet; pipe(), fork() or write() may fail; a helper that exits non-zero
\* is never used again.
via_helper(w) ==
  {Active(w), Answer(w, "ERR"), [Answer(w, "ERR") EXCEPT !.helper = FALSE]}

\* pinger_v4() and pinger_v6(): sendto() on the raw socket, and the helper if
\* the kernel refuses that.  Any other error is only logged.
Pinger(w) ==
  LET out == [w EXCEPT !.e.n = Count(@)]
  IN {Active(out), out}
     \cup {Answer(out, ErrnoTable[x]) : x \in Errnos \cap {"ENETUNREACH", "EHOSTUNREACH"}}
     \cup (IF out.helper THEN via_helper(out) ELSE {})

pinger_v4(w) == Pinger(w)
pinger_v6(w) == Pinger(w)

\* "If there is no icmp fd, say it's ok."
WithIcmp(w, worlds) == IF w.icmp THEN worlds ELSE {Answer(w, "OK")}

\* The starts of ping, pktloss and pingv6: an unknown name ends the check, the
\* first request is sent, and lastsentat is set whether or not it left.
Probing(w, pinger(_)) ==
  WithIcmp(w, {Done(Malloc(w), "NODNS")} \cup {Active(x) : x \in pinger(Malloc(w))})

start_test_ping(w, i) == Probing(w, pinger_v4)
start_test_pktloss(w, i) == Probing(w, pinger_v4)
start_test_pingv6(w, i) == Probing(w, pinger_v6)

\* rtt stores monitordata last and puts retval back to -1, so a send error of
\* the first probe is only a lost sample.
start_test_rtt(w, i) ==
  WithIcmp(w, {Answer(w, "NODNS")}
              \cup {Active(Answer(x, "pending")) : x \in pinger_v4(Malloc(w))})

\* The verdict comes before the look at nreceived, and the resend has no limit
\* of its own.
EchoTest(w, resend, pinger(_)) ==
  LET out == w.e.n >= SendPings /\ w.e.idle >= 2 * Delay
      try == IF w.e.m < MinPings /\ w.e.idle >= resend THEN pinger(w) ELSE {w}
  IN IF w.e.idle <= Delay THEN {w}
     ELSE IF out THEN {Done(w, "UNPINGABLE")}
     ELSE {IF MinPings <= x.e.m THEN Done(x, "OK") ELSE x : x \in try}

service_test_ping(w, i) == EchoTest(w, Delay, pinger_v4)
service_test_pingv6(w, i) == EchoTest(w, 2 * Delay, pinger_v6)

\* The whole batch is sent whatever comes back; the loss is judged two delays
\* after the last request.
service_test_pktloss(w, i) ==
  LET lost    == IF w.e.m >= w.e.n THEN 0 ELSE w.e.n - w.e.m
      verdict == IF lost <= Tolerance THEN "OK"
                 ELSE IF lost = w.e.n THEN "UNPINGABLE" ELSE "PKTLOSS_EXCEED"
  IN IF w.e.idle <= Delay THEN {w}
     ELSE IF w.e.n >= SendPings /\ w.e.idle >= 2 * Delay THEN {Done(w, verdict)}
     ELSE IF w.e.n < SendPings THEN pinger_v4(w) ELSE {w}

\* rtt_finish(): with no sample the check timed out, otherwise the average and
\* the jitter decide.
rtt_finish(w) ==
  IF w.e.m = 0 THEN {Done(w, "TIMEDOUT")}
  ELSE {Done(w, rv) : rv \in {"OK", "RTT_HIGH", "JITTER_HIGH"}}

\* Probes go out on a schedule; the check is over when all are answered or the
\* last has been out for the grace period.  n is both probes and packetsent.
service_test_rtt(w, i) ==
  IF w.e.n < SendPings /\ w.e.idle >= Interval
  THEN {Active(x) : x \in pinger_v4(w)}
  ELSE IF w.e.n >= SendPings /\ (w.e.m >= SendPings \/ w.e.idle >= Grace)
  THEN rtt_finish(w)
  ELSE {w}

\* handle_icmp_responses() and handle_pingv6_responses() for one echo reply: it
\* counts for the check whose ident it carries if it also comes from the host
\* that check probes.  ours is that second test; seq is the probe it answers.
Credit(e, ours) == [e EXCEPT !.m = Count(@), !.good = IF ours THEN Count(@) ELSE @]

reply_ping(e, seq, ours) == IF ours THEN Credit(e, ours) ELSE e

handle_pingv6_response(e, seq, ours) == IF ours THEN Credit(e, ours) ELSE e

\* Mutant: a duplicate is one more arrival.
reply_pktloss_dup(e, seq, ours) == IF ours THEN Credit(e, ours) ELSE e

\* Never more replies than probes.
reply_pktloss(e, seq, ours) == IF ours /\ e.m < e.n THEN Credit(e, ours) ELSE e

\* A sequence number that was never sent, or was answered, is no sample.
rtt_match_and_record(e, seq, ours) ==
  IF ours /\ seq \in 1..e.n /\ seq \notin e.seen
  THEN [Credit(e, ours) EXCEPT !.seen = @ \cup {seq}] ELSE e

Stopped(w) == IF w.e.data = "null" THEN w ELSE Null(Free(w))

stop_test_ping(w, i) == Stopped(w)
stop_test_pktloss(w, i) == Stopped(w)
stop_test_rtt(w, i) == Stopped(w)
stop_test_pingv6(w, i) == Stopped(w)
=============================================================================
