----------------------------- MODULE Monitorent -----------------------------
(***************************************************************************)
(* The state every check of sysmond works on: one entry of the check queue *)
(* (struct monitorent, config.h), the process's descriptor table, and the  *)
(* C-level operations the handlers use on them.                            *)
(*                                                                         *)
(* A handler takes a world and returns the SET of worlds it may leave: the *)
(* nondeterminism is what the network and the kernel answer.  A world is   *)
(*   e      the entry being worked on,                                     *)
(*   fdt    who opened each descriptor (a ghost; the kernel only knows     *)
(*          whether a number is open),                                     *)
(*   helper use_ping_helper of icmp.c,                                     *)
(*   icmp   whether the raw ICMP sockets could be opened,                  *)
(*   harm   what this step did that C does not forgive (a ghost),          *)
(*   up     FALSE once the step called ABORT().                            *)
(* Time is kept as ages, in ticks of half a second scaled down.            *)
(***************************************************************************)
EXTENDS Integers, FiniteSets

CONSTANTS Slots,        \* the configured objects, numbered
          Fds,          \* descriptor numbers the process may have open
          Errnos,       \* errors connect(), send() and recv() may give
          Globtimeout,  \* globtimeout: 30 s
          Quiet,        \* the 25 s of http.c and nntp.c
          Killafter,    \* killafter: 61 s
          Throttle,     \* how long wakeup_checks() may not be called: 10 s
          MaxTries,     \* MAX_TRIES sends of udp.c
          MaxSent,      \* the 10 sends of radius.c and dns.c
          MaxBlank,     \* the 10 blank lines of http.c
          Delay,        \* icmp_packet_delay and ping6_packet_delay: 1 s
          Interval,     \* rtt_interval
          Grace,        \* RTT_GRACE_MS
          SendPings,    \* send_pings, and rtt_samples
          MinPings,     \* min_pings
          Tolerance     \* pktloss_tolerance

ASSUME TimesAssumption ==
  /\ Slots \subseteq Nat \ {0} /\ IsFiniteSet(Slots) /\ Fds \subseteq Nat \ {0}
  /\ {Quiet, Globtimeout, Killafter, Throttle, Delay, Interval, Grace} \subseteq Nat
  /\ {MinPings, SendPings, Tolerance} \subseteq Nat
  /\ 0 < Quiet /\ Quiet < Globtimeout /\ Globtimeout < Killafter
  /\ 0 < Delay /\ 2 * Delay <= Globtimeout /\ 0 < Interval /\ Interval <= Globtimeout
  /\ 0 < Grace /\ Grace <= Globtimeout
  /\ 0 < MinPings /\ MinPings <= SendPings
  /\ MaxTries \in Nat \ {0} /\ MaxSent \in Nat /\ MaxBlank \in Nat

StreamKinds == {"tcp", "smtp", "ssh", "www", "pop3", "imap", "nntp", "sysm", "x500"}
DgramKinds == {"udp", "radius", "dns", "snmp"}
EchoKinds == {"ping", "pktloss", "rtt", "pingv6"}
Kinds == StreamKinds \cup DgramKinds \cup EchoKinds

\* "pending" is retval == -1; "LAST" is the object's own lastcheck, copied.
Retvals == {"pending", "LAST", "OK", "ERR", "CONNREF", "NETUNRCH", "HOSTDOWN",
            "TIMEDOUT", "NODNS", "UNPINGABLE", "NORESP", "BAD_AUTH", "BAD_RESP",
            "X500_WEDGED", "PKTLOSS_EXCEED", "RTT_HIGH", "JITTER_HIGH", "SNMP_ALARM"}

\* struct monitorent.  fd = 0 is -1.  data is the monitordata pointer: NULL,
\* a live allocation, or a pointer left standing after FREE().  good counts
\* the answers this check wanted and got (a ghost); n, m and seen are the
\* handlers' counters of sends, of receipts and of the rtt probes answered.
NoEntry == [queued |-> FALSE, started |-> FALSE, retval |-> "pending", fd |-> 0,
            data |-> "null", st |-> "CONNECT", age |-> 0, idle |-> 0,
            n |-> 0, m |-> 0, seen |-> {}, good |-> 0]

NewEntry == [NoEntry EXCEPT !.queued = TRUE]

\* ENOBUFS stands for every errno the tables below do not list.
ErrnoTable == [ECONNREFUSED |-> "CONNREF", ENETUNREACH |-> "NETUNRCH",
               EHOSTUNREACH |-> "HOSTDOWN", ETIMEDOUT |-> "TIMEDOUT"]

\* errno_to_error(), and the same switch written out in eight handlers: an
\* errno it does not list leaves retval at -1.
errno_to_error(err) ==
  IF err \in DOMAIN ErrnoTable THEN ErrnoTable[err] ELSE "pending"

\* is_open(): what a pending connect() turned into.  "INPROG" stands for the
\* answers its callers treat as "not yet".  SO_ERROR is cleared by reading it,
\* so an unlisted error falls through to a writable socket and reads as OK.
is_open ==
  {"INPROG", "OK"} \cup {ErrnoTable[x] : x \in Errnos \cap DOMAIN ErrnoTable}

Answer(w, rv) == [w EXCEPT !.e.retval = rv]

Harm(w, what) == [w EXCEPT !.harm = @ \cup {what}]

\* socket(): the lowest free number; callers test FreeFds first.
FreeFds(w) == {f \in Fds : w.fdt[f] = 0}

OpenSock(w, i) ==
  LET f == CHOOSE g \in FreeFds(w) : \A h \in FreeFds(w) : g <= h
  IN [w EXCEPT !.e.fd = f, !.fdt[f] = i]

\* close(here->filedes): nothing stops a handler from closing a number it no
\* longer owns, which by then may be free or somebody else's.
Close(w, i) ==
  LET f == w.e.fd
  IN IF f = 0 THEN w
     ELSE IF w.fdt[f] = 0 THEN Harm(w, "badclose")
     ELSE [w EXCEPT !.fdt[f] = 0,
                    !.harm = @ \cup IF w.fdt[f] = i THEN {} ELSE {"stolen"}]

\* MALLOC zeroes what it returns; FREE aborts on NULL and trusts the rest.  The
\* handler's state and counters are in that memory and go with it.
Malloc(w) == [w EXCEPT !.e.data = "held"]

Free(w) ==
  CASE w.e.data = "held"  -> [w EXCEPT !.e.data = "freed", !.e.st = "CONNECT",
                                       !.e.idle = 0, !.e.n = 0, !.e.m = 0,
                                       !.e.seen = {}]
    [] w.e.data = "freed" -> Harm(w, "doublefree")
    [] w.e.data = "null"  -> [w EXCEPT !.up = FALSE]

Null(w) == [w EXCEPT !.e.data = "null"]

\* The exit nearly every handler shares: an answer, close(), FREE(), NULL.
Finish(w, i, rv) == Null(Free(Close(Answer(w, rv), i)))

\* The server said what this state of the handler waits for.
Hear(w, st) == [w EXCEPT !.e.st = st, !.e.good = @ + 1]

Active(w) == [w EXCEPT !.e.idle = 0]

At(w, st, worlds) == IF w.e.st = st THEN worlds ELSE {}
=============================================================================
