---------------------------- MODULE StreamChecks ----------------------------
(***************************************************************************)
(* The checks that talk to a TCP port: tcp.c, smtp.c, ssh.c, http.c,       *)
(* pop3.c, imap.c, nntp.c, sysmon.c and umichX500.c.  For each, what       *)
(* start_*, service_* and stop_* make of a world; see Monitorent.          *)
(***************************************************************************)
EXTENDS Monitorent

\* What the starts have in common after MALLOC.  open_sock() failing copies
\* lastcheck; an unknown name is NODNS, and the descriptor just opened is not
\* closed; a connect() error other than EINPROGRESS ends the check.  clear is
\* what the handler does with monitordata on the first two exits.
Opening(w, i, clear(_), onerror(_)) ==
  LET m == Malloc(w)
      o == OpenSock(m, i)
  IN IF FreeFds(w) = {}
     THEN {clear(Free(Answer(m, "LAST")))}
     ELSE {clear(Free(Answer(o, "NODNS"))), Active(o)} \cup onerror(o)

Cleared(w) == Null(w)
Dangling(w) == w
Refused(o, i) == {Finish(o, i, errno_to_error(x)) : x \in Errnos}

start_test_tcp(w, i) == Opening(w, i, Cleared, LAMBDA o : Refused(o, i))
start_test_smtp(w, i) == Opening(w, i, Cleared, LAMBDA o : Refused(o, i))
start_test_sshd(w, i) == Opening(w, i, Cleared, LAMBDA o : Refused(o, i))
start_test_www(w, i) == Opening(w, i, Cleared, LAMBDA o : Refused(o, i))
start_test_imap(w, i) == Opening(w, i, Cleared, LAMBDA o : Refused(o, i))
start_test_nntp(w, i) == Opening(w, i, Cleared, LAMBDA o : Refused(o, i))

\* These two leave monitordata pointing at what they freed.
start_check_sysmon(w, i) == Opening(w, i, Dangling, LAMBDA o : Refused(o, i))
start_test_x500(w, i) == Opening(w, i, Dangling, LAMBDA o : Refused(o, i))

\* pop3 ignores what connect() returns; is_open() finds out.
start_test_pop3(w, i) == Opening(w, i, Cleared, LAMBDA o : {})

\* The CONNECT state: an error ends the check, "not yet" changes nothing.  All
\* set lastact on success, which only www and nntp ever look at.
Connecting(w, i, next) ==
  {CASE o = "INPROG" -> w
     [] o = "OK"     -> Hear(w, next)
     [] OTHER        -> Finish(w, i, o) : o \in is_open}

Noting(w, i, next) ==
  {IF x.e.st = next THEN Active(x) ELSE x : x \in Connecting(w, i, next)}

\* smtp and ssh also give up on a connect that lasts, even one that has just
\* succeeded.
TimedConnecting(w, i, next) ==
  {IF x.e.retval = "pending" /\ w.e.age >= Globtimeout
   THEN Finish(x, i, "TIMEDOUT") ELSE x : x \in Connecting(w, i, next)}

\* The server closed the connection, or the read failed.
Hangup(w, i) == {Finish(w, i, "CONNREF"), Finish(w, i, "BAD_RESP")}

\* Mutant: no timeout of its own.
service_test_tcp_waits(w, i) ==
  {IF o # "INPROG" THEN Finish(Hear(w, "CONNECT"), i, o) ELSE w : o \in is_open}

service_test_tcp(w, i) ==
  {IF o # "INPROG" THEN Finish(Hear(w, "CONNECT"), i, o)
   ELSE IF w.e.age >= Globtimeout THEN Finish(w, i, "TIMEDOUT") ELSE w : o \in is_open}

service_test_smtp(w, i) ==
       At(w, "CONNECT", TimedConnecting(w, i, "WAITBAN"))
  \cup At(w, "WAITBAN", {w, Hear(w, "SENT_QUIT"), Finish(w, i, "BAD_RESP")})
  \cup At(w, "SENT_QUIT", {w, Hear(w, "GOT_BYE"), Finish(w, i, "BAD_RESP")})
  \cup At(w, "GOT_BYE", {Finish(w, i, "OK")})

\* Mutant: a wrong banner frees the data and leaves the socket open.
service_test_sshd_leaks(w, i) ==
       At(w, "CONNECT", TimedConnecting(w, i, "WAITBAN"))
  \cup At(w, "WAITBAN",
          {w, Finish(Hear(w, "WAITBAN"), i, "OK"), Null(Free(Answer(w, "BAD_RESP")))})

service_test_sshd(w, i) ==
       At(w, "CONNECT", TimedConnecting(w, i, "WAITBAN"))
  \cup At(w, "WAITBAN",
          {w, Finish(Hear(w, "WAITBAN"), i, "OK"), Finish(w, i, "BAD_RESP")})

\* n is timesblank.  Any line restarts the 25 seconds; a blank one (or the end
\* of the stream) counts towards BAD_RESP, any other clears that count.
service_test_www(w, i) ==
  LET line  == [Active(w) EXCEPT !.e.n = 0]
      blank == [Active(w) EXCEPT !.e.n = @ + 1]
  IN   At(w, "CONNECT", Noting(w, i, "SENT_REQUEST"))
  \cup At(w, "SENT_REQUEST",
          {IF w.e.idle > Quiet THEN Finish(w, i, "NORESP") ELSE w,
           line,
           IF blank.e.n > MaxBlank THEN Finish(blank, i, "BAD_RESP") ELSE blank,
           Finish(Hear(line, "SENT_REQUEST"), i, "OK")})

\* Mutant: the answer to USER is not looked at.
service_test_pop3_trusts(w, i) ==
       At(w, "CONNECT", Connecting(w, i, "WAITBAN"))
  \cup At(w, "WAITBAN", {w, Hear(w, "SENT_USER")} \cup Hangup(w, i))
  \cup At(w, "SENT_USER", {w, [w EXCEPT !.e.st = "SENT_PASS"]})
  \cup At(w, "SENT_PASS", {w, Finish(Hear(w, "SENT_QUIT"), i, "OK"),
                           Finish(w, i, "BAD_AUTH")} \cup Hangup(w, i))

service_test_pop3(w, i) ==
       At(w, "CONNECT", Connecting(w, i, "WAITBAN"))
  \cup At(w, "WAITBAN", {w, Hear(w, "SENT_USER")} \cup Hangup(w, i))
  \cup At(w, "SENT_USER", {w, Hear(w, "SENT_PASS")} \cup Hangup(w, i))
  \cup At(w, "SENT_PASS", {w, Finish(Hear(w, "SENT_QUIT"), i, "OK"),
                           Finish(w, i, "BAD_AUTH")} \cup Hangup(w, i))

service_test_imap(w, i) ==
       At(w, "CONNECT", Connecting(w, i, "WAITBAN"))
  \cup At(w, "WAITBAN", {w, Hear(w, "SENT_AUTH")} \cup Hangup(w, i))
  \cup At(w, "SENT_AUTH", {w, Finish(Hear(w, "SENT_QUIT"), i, "OK"),
                           Finish(w, i, "BAD_AUTH")} \cup Hangup(w, i))

\* lastact is set by the connect only, so a late answer is still NORESP.  Any
\* line after the banner gives the banner's verdict.
service_test_nntp(w, i) ==
  LET late(worlds) == IF w.e.idle > Quiet THEN {Finish(w, i, "NORESP")} ELSE worlds
  IN   At(w, "CONNECT", Noting(w, i, "WAITBAN"))
  \cup At(w, "WAITBAN",
          late({w, Hear(w, "SENT_QUIT"), Finish(w, i, "BAD_RESP")}))
  \cup At(w, "SENT_QUIT", late({w, Finish(w, i, "OK")}))

service_check_sysmon(w, i) ==
       At(w, "CONNECT", Connecting(w, i, "WAITBAN"))
  \cup At(w, "WAITBAN",
          {IF w.e.age >= Globtimeout THEN Finish(w, i, "NORESP") ELSE w,
           Hear(w, "SENT_QUIT")} \cup Hangup(w, i))
  \cup At(w, "SENT_QUIT", {w, Hear(w, "GOT_BYE")} \cup Hangup(w, i))
  \cup At(w, "GOT_BYE", {Finish(w, i, "OK")})

service_test_x500(w, i) ==
       At(w, "CONNECT", Connecting(w, i, "CONNECTED"))
  \cup At(w, "CONNECTED",
          {w, Finish(Hear(w, "CONNECTED"), i, "OK"), Finish(w, i, "X500_WEDGED")}
          \cup Hangup(w, i))

Stop(w, i) == IF w.e.data = "null" THEN w ELSE Null(Free(Close(w, i)))

\* Mutant: closes without looking, as stop_check_sysmon() does.
stop_test_tcp_blind(w, i) ==
  Null(Close(IF w.e.data = "null" THEN w ELSE Free(w), i))

stop_test_tcp(w, i) == Stop(w, i)
stop_test_smtp(w, i) == Stop(w, i)
stop_test_sshd(w, i) == Stop(w, i)
stop_test_www(w, i) == Stop(w, i)
stop_test_pop3(w, i) == Stop(w, i)
stop_test_imap(w, i) == Stop(w, i)
stop_test_nntp(w, i) == Stop(w, i)
stop_test_x500(w, i) == Stop(w, i)

\* This one closes filedes whether or not the check still has data.
stop_check_sysmon(w, i) ==
  Null(Close(IF w.e.data = "null" THEN w ELSE Free(w), i))
=============================================================================
