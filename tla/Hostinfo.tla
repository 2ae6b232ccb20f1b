------------------------------ MODULE Hostinfo ------------------------------
(***************************************************************************)
(* What sysmond knows about one monitored object (struct hostinfo), and    *)
(* the two functions that turn a check result into paging state:           *)
(* handle_retval in syswatch.c and page_someone in page.c.                 *)
(*                                                                         *)
(* The module has no variables.  Outage extends it and applies its         *)
(* operators to the objects it holds.                                      *)
(***************************************************************************)
EXTENDS Integers

CONSTANTS
  Objects,      (* the monitored objects, by unique_name                   *)
  Failures,     (* the check results other than SYSM_OK                    *)
  MaxDown,      (* hostinfo.max_down, per object (numfailures)             *)
  ContactWhen,  (* hostinfo.contact_when, a set of "UP" and "DOWN"         *)
  Contact,      (* per object, which of "mail" (contact) and "spawn"       *)
                (* (command) the configuration gives                       *)
  Donotify,     (* the global donotify (FALSE with -n)                     *)
  QueueTime,    (* hostinfo.queuetime, in time units                       *)
  MailOutcomes  (* what may become of a mail: "sent", "nopw" (getpwuid     *)
                (* fails), "nopipe" (popen fails)                          *)

SYSM_OK == "OK"
SYSM_NODNS == "NODNS"

ASSUME ConfigAssumption ==
  /\ SYSM_OK \notin Failures
  /\ MaxDown \in [Objects -> Nat]
  /\ ContactWhen \in [Objects -> SUBSET {"UP", "DOWN"}]
  /\ Contact \in [Objects -> SUBSET {"mail", "spawn"}]
  /\ Donotify \in BOOLEAN
  /\ QueueTime \in Nat
  /\ MailOutcomes \subseteq {"sent", "nopw", "nopipe"}
  /\ MailOutcomes # {}

Results == Failures \cup {SYSM_OK}

(***************************************************************************)
(* The fields of struct hostinfo that decide who is told what and when.    *)
(* Times are counted from 1, so that 0 is the code's "never".              *)
(***************************************************************************)
HostinfoType ==
  [lastcheck : Results, downct : Nat, upct : Nat, contacted : BOOLEAN,
   acked : BOOLEAN, lastcontacted : Nat, deathtime : Nat,
   next_queuetime : Nat]

\* A freshly parsed object: nothing known, due at once.
NewHostinfo ==
  [lastcheck |-> SYSM_OK, downct |-> 0, upct |-> 0, contacted |-> FALSE,
   acked |-> FALSE, lastcontacted |-> 0, deathtime |-> 0,
   next_queuetime |-> 0]

-----------------------------------------------------------------------------
(***************************************************************************)
(* Paging.  A paging step takes and returns [d, sent]: the object and the  *)
(* number of messages of each kind handed over so far in this handler.     *)
(***************************************************************************)
PagingType == [d : HostinfoType, sent : [{"UP", "DOWN"} -> Nat]]

NoneSent == [kind \in {"UP", "DOWN"} |-> 0]

\* Mutant: contacted is set before getpwuid is asked.
PageSomeoneEarlyMark(o, r, newstate, now, outcome) ==
  IF Donotify /\ newstate \in ContactWhen[o]
    THEN [d |-> [r.d EXCEPT !.contacted = TRUE, !.lastcontacted = now],
          sent |-> IF outcome = "sent" THEN [r.sent EXCEPT ![newstate] = @ + 1]
                                       ELSE r.sent]
    ELSE r

PageSomeone(o, r, newstate, now, outcome) ==
  LET wanted == Donotify /\ newstate \in ContactWhen[o]
      told   == [r.d EXCEPT !.contacted = TRUE, !.lastcontacted = now]
      out    == [r.sent EXCEPT ![newstate] = @ + 1]
  IN  IF "spawn" \in Contact[o] /\ wanted
        THEN [d |-> told, sent |-> out]
      ELSE IF "mail" \notin Contact[o]
        THEN [d |-> [r.d EXCEPT !.contacted = TRUE], sent |-> r.sent]
      ELSE IF wanted /\ outcome # "nopw"
        THEN [d |-> told, sent |-> IF outcome = "sent" THEN out ELSE r.sent]
      ELSE r

-----------------------------------------------------------------------------
(***************************************************************************)
(* handle_retval, block by block in source order.  Each block reads what   *)
(* the blocks before it have written.                                      *)
(***************************************************************************)

\* Mutant: a recovery is announced whether or not the outage was.
RecoveryUnasked(o, r, retval, now, outcome) ==
  IF retval = SYSM_OK /\ r.d.lastcheck # SYSM_OK
    THEN [PageSomeone(o, [r EXCEPT !.d.lastcheck = SYSM_OK], "UP", now, outcome)
            EXCEPT !.d.contacted = FALSE]
    ELSE r

\* Mutant: the recovery forgets to reset contacted.
RecoveryStaysContacted(o, r, retval, now, outcome) ==
  IF retval = SYSM_OK /\ r.d.contacted /\ r.d.lastcheck # SYSM_OK
    THEN PageSomeone(o, [r EXCEPT !.d.lastcheck = SYSM_OK], "UP", now, outcome)
    ELSE r

\* "check to see if the service came up"
Recovery(o, r, retval, now, outcome) ==
  IF retval = SYSM_OK /\ r.d.contacted /\ r.d.lastcheck # SYSM_OK
    THEN LET up    == [r EXCEPT !.d.lastcheck = SYSM_OK]
             paged == IF Donotify /\ "UP" \in ContactWhen[o]
                        THEN PageSomeone(o, up, "UP", now, outcome)
                        ELSE up
         IN  [paged EXCEPT !.d.contacted = FALSE]
    ELSE r

\* Mutant: contacted is not consulted.
PageEveryFailure(o, r, now, outcome) ==
  IF r.d.downct >= MaxDown[o] /\ "DOWN" \in ContactWhen[o]
    THEN PageSomeone(o, r, "DOWN", now, outcome)
    ELSE r

\* Mutant: one failure too many is waited for.
PageOneLate(o, r, now, outcome) ==
  IF r.d.downct > MaxDown[o] /\ ~r.d.contacted /\ "DOWN" \in ContactWhen[o]
    THEN PageSomeone(o, r, "DOWN", now, outcome)
    ELSE r

\* "if it's failed too many times and we haven't paged"
PageIfDownLongEnough(o, r, now, outcome) ==
  IF r.d.downct >= MaxDown[o] /\ ~r.d.contacted /\ "DOWN" \in ContactWhen[o]
    THEN PageSomeone(o, r, "DOWN", now, outcome)
    ELSE r

\* "if service is down, and state is same as last time"
StillDown(o, r, retval, now, outcome) ==
  IF retval # SYSM_OK /\ r.d.lastcheck = retval
    THEN PageIfDownLongEnough(o, [r EXCEPT !.d.downct = @ + 1], now, outcome)
    ELSE r

\* Mutant: every change of state stamps deathtime.
StateChangedRestamps(o, r, retval, now, outcome) ==
  IF retval = r.d.lastcheck
    THEN r
  ELSE IF retval = SYSM_OK
    THEN [r EXCEPT !.d.upct = 0, !.d.lastcheck = SYSM_OK, !.d.downct = 0]
  ELSE PageIfDownLongEnough(o,
         [r EXCEPT !.d.upct = 0, !.d.lastcheck = retval, !.d.downct = 1,
            !.d.deathtime = now], now, outcome)

\* "state changed": a fall from OK stamps deathtime, a change of failure
\* kind keeps it; either way the failure count starts again at 1.
StateChanged(o, r, retval, now, outcome) ==
  IF retval = r.d.lastcheck
    THEN r
  ELSE IF retval = SYSM_OK
    THEN [r EXCEPT !.d.upct = 0, !.d.lastcheck = SYSM_OK, !.d.downct = 0]
  ELSE PageIfDownLongEnough(o,
         [r EXCEPT !.d.upct = 0, !.d.lastcheck = retval, !.d.downct = 1,
            !.d.deathtime = IF r.d.lastcheck = SYSM_OK \/ @ = 0
                              THEN now ELSE @],
         now, outcome)

\* "If we came up, clear this counter ... and maybe tell someone"
CameUp(o, r, retval, now, outcome) ==
  IF retval # SYSM_OK
    THEN r
    ELSE LET up == [r EXCEPT !.d.upct = @ + 1, !.d.downct = 0,
                             !.d.acked = FALSE]
         IN  IF /\ up.d.upct >= MaxDown[o]
                /\ ~up.d.contacted
                /\ ContactWhen[o] = {"UP"}
               THEN PageSomeone(o, up, "UP", now, outcome)
               ELSE up

HandleRetval(o, d, retval, now, outcome) ==
  LET r0 == [d |-> [d EXCEPT !.next_queuetime = now + QueueTime],
             sent |-> NoneSent]
      r1 == Recovery(o, r0, retval, now, outcome)
      r2 == StillDown(o, r1, retval, now, outcome)
      r3 == StateChanged(o, r2, retval, now, outcome)
  IN  CameUp(o, r3, retval, now, outcome)
=============================================================================
