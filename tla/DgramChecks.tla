---------------------------- MODULE DgramChecks -----------------------------
(***************************************************************************)
(* The checks that send datagrams and wait for one back: udp.c, radius.c,  *)
(* dns.c and snmp.c.  See Monitorent for the form of the handlers.  Ticks  *)
(* stand for half seconds, so "at least a second ago" is idle >= Delay.    *)
(***************************************************************************)
EXTENDS Monitorent

Sent(w) == [Active(w) EXCEPT !.e.n = @ + 1]

Recent(w) == w.e.idle < Delay

\* udp resets filedes wherever it closes it.
Forget(w) == [w EXCEPT !.e.fd = 0]

\* udp_open_sock() aborts the daemon when there is no descriptor left.
WithSock(w, i, worlds(_)) ==
  IF FreeFds(w) = {} THEN {[w EXCEPT !.up = FALSE]} ELSE worlds(OpenSock(w, i))

start_test_udp(w, i) ==
  WithSock(Malloc(w), i, LAMBDA o :
    {Free(Answer(o, "NODNS")), Active(o)}
    \cup {Forget(Finish(o, i, errno_to_error(x))) : x \in Errnos})

\* n is tries.  An empty datagram is neither an answer nor an error.  An error
\* that is not listed leaves retval at -1 and still closes and frees.
service_test_udp(w, i) ==
  LET end(x, rv) == Forget(Finish(x, i, rv))
      timed(x)   == IF x.e.age >= Globtimeout THEN end(x, "TIMEDOUT") ELSE x
      out        == Sent(w)
      sent(x)    == IF out.e.n >= MaxTries THEN end(out, "TIMEDOUT") ELSE x
  IN IF Recent(w) THEN {w}
     ELSE {end(Hear(w, "CONNECT"), "OK"), timed(w), sent(timed(out))}
          \cup {end(w, errno_to_error(x)) : x \in Errnos}
          \cup {sent(end(out, errno_to_error(x))) : x \in Errnos}

stop_test_udp(w, i) ==
  IF w.e.data = "null" THEN w ELSE Forget(Null(Free(Close(w, i))))

\* radius and dns resolve first, and on a connect() error they close and free
\* but leave monitordata pointing at what they freed.
Gone(w, i, rv) == Free(Close(Answer(w, rv), i))

start_check_radius(w, i) ==
  {Answer(w, "NODNS")} \cup
  WithSock(Malloc(w), i, LAMBDA o :
    {Sent(o)} \cup {Gone(o, i, errno_to_error(x)) : x \in Errnos})

\* lastsent starts at zero, so dns sends as soon as it is first serviced.
start_check_dns(w, i) ==
  {Answer(w, "NODNS")} \cup
  WithSock(Malloc(w), i, LAMBDA o :
    {[o EXCEPT !.e.idle = Delay]} \cup {Gone(o, i, errno_to_error(x)) : x \in Errnos})

\* An unlisted read error copies lastcheck instead.
ReadError(err) == IF err \in DOMAIN ErrnoTable THEN ErrnoTable[err] ELSE "LAST"

\* monitordata is used without a look at whether it was freed: whatever is in
\* that memory then stands for the counters.
Reused(w) ==
  IF w.e.data # "freed" THEN {w}
  ELSE {[Harm(w, "uaf") EXCEPT !.e.n = n, !.e.idle = t] :
          n \in {0, MaxSent + 1}, t \in {0, Delay}}

\* n is packetsent.  A reply with another code, or an empty one, leaves retval
\* at -1; every reply closes and frees and leaves the pointer standing.
service_check_radius(w0, i) ==
  UNION {IF Recent(w) THEN {w}
         ELSE IF w.e.n > MaxSent THEN {Finish(w, i, "NORESP")}
         ELSE {Sent(w), Gone(Hear(w, "CONNECT"), i, "OK"), Gone(w, i, "BAD_AUTH"),
               Gone(w, i, "pending")}
              \cup {Gone(w, i, ReadError(x)) : x \in Errnos} : w \in Reused(w0)}

\* n is sent.  Any answer is OK, an empty one is none; a write that fails is
\* not counted and does not move lastsent.
service_check_dns(w0, i) ==
  IF w0.e.data = "null" THEN {w0}
  ELSE UNION {IF Recent(w) THEN {w}
              ELSE IF w.e.n > MaxSent THEN {Finish(w, i, "NORESP")}
              ELSE {w, Sent(w), Gone(Hear(w, "CONNECT"), i, "OK"), Gone(w, i, "pending")}
                   \cup {Gone(w, i, ReadError(x)) : x \in Errnos} : w \in Reused(w0)}

stop_check_radius(w, i) ==
  IF w.e.data = "null" THEN w ELSE Null(Free(Close(w, i)))

\* This one closes filedes before it looks at anything else.
stop_check_dns(w, i) ==
  LET c == Close(w, i) IN IF c.e.data = "null" THEN c ELSE Null(Free(c))

\* snmp_open_query(): the name is resolved before the socket is opened, and the
\* socket is closed on every failure.  EHOSTUNREACH is how it says "no such
\* name", so an unreachable agent reads as NODNS too.
snmp_open_query ==
  {"sent", "EHOSTUNREACH", "EINVAL"} \cup Errnos

start_test_snmp(w, i) ==
  LET m == Malloc(w)
  IN {Answer(w, "ERR")} \cup
     {CASE q = "EHOSTUNREACH" -> Null(Free(Answer(m, "NODNS")))
        [] q = "EINVAL"       -> Null(Free(Answer(m, "ERR")))
        [] q = "sent" /\ FreeFds(m) # {} -> OpenSock(m, i)
        [] OTHER -> Null(Free(Answer(m, errno_to_error(q)))) : q \in snmp_open_query}

stop_test_snmp(w, i) ==
  LET c == IF w.e.fd = 0 THEN w ELSE Forget(Close(w, i))
  IN IF c.e.data = "null" THEN c ELSE Null(Free(c))

\* st = "ANSWERED" is snmp_response.  Waiting, and any recv() error, is "no
\* answer yet"; an answer that is no number is BAD_RESP; a number is compared,
\* except by SYSM_SNMP_TYPE_COMPARE, which has no verdict at all.
service_test_snmp(w, i) ==
  LET end(x, rv) == stop_test_snmp(Answer(x, rv), i)
      heard      == Hear(w, "ANSWERED")
  IN IF w.e.data = "null" THEN {w}
     ELSE IF w.e.st = "ANSWERED" THEN {w}
     ELSE {IF w.e.age >= Globtimeout THEN end(w, "NORESP") ELSE w,
           end(w, "BAD_RESP"), end(heard, "OK"), end(heard, "SNMP_ALARM"), heard}
=============================================================================
