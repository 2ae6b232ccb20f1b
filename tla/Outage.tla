------------------------------- MODULE Outage -------------------------------
(***************************************************************************)
(* The life of the monitored objects' paging state in sysmond: check       *)
(* results, acknowledgements, the minute's rewalk and reminders, the       *)
(* checkpoint file, reloads, clean stops and unclean deaths.               *)
(*                                                                         *)
(* A check is one step here, from due to handled; Watch models the queue   *)
(* in between.                                                             *)
(***************************************************************************)
EXTENDS Hostinfo

CONSTANTS
  PageInterval,    (* the global pageinterval, in time units; 0 is "never"  *)
  ObjPageInterval, (* hostinfo.pageinterval, per object; -1 is "the global" *)
  CheckpointSecs,  (* STATE_CHECKPOINT_SECS                                 *)
  MaxAge,          (* STATE_MAX_AGE                                         *)
  WriteOutcomes,   (* may a checkpoint write succeed (TRUE), fail (FALSE)?  *)
  MaxTime,         (* bound: the clock stops here                           *)
  MaxBoots         (* bound: starts and reloads                             *)

ASSUME ClockAssumption ==
  /\ PageInterval \in Nat
  /\ ObjPageInterval \in [Objects -> Nat \cup {-1}]
  /\ CheckpointSecs \in Nat
  /\ MaxAge \in Nat
  /\ WriteOutcomes \subseteq BOOLEAN
  /\ MaxTime \in Nat
  /\ MaxBoots \in Nat

VARIABLES
  now,      (* time(2)                                                      *)
  running,  (* the daemon process exists                                    *)
  obj,      (* the live hostinfo of each object; while the daemon is down,  *)
            (* what it knew when it ended                                   *)
  disk,     (* the checkpoint: [written, data], written = 0 when no file    *)
  last,     (* checkpoint_state's static last                               *)
  hist,     (* history, not in the program: see HistType                    *)
  boots     (* starts and reloads so far, for the bound                     *)

vars == <<now, running, obj, disk, last, hist, boots>>

\* What happened to an object since its last OK result.
HistType ==
  [fails : Nat,       \* failing results since the last OK one
   down : Nat,        \* DOWN messages sent since the last OK result
   downat : Nat,      \* when the last of them was sent
   up : Nat,          \* UP messages sent since the last failing result
   forgot : BOOLEAN]  \* a restart or reload lost what was known

NoHist ==
  [fails |-> 0, down |-> 0, downat |-> 0, up |-> 0, forgot |-> FALSE]

TypeOK ==
  /\ now \in Nat \ {0}
  /\ running \in BOOLEAN
  /\ obj \in [Objects -> HostinfoType]
  /\ disk \in [written : Nat, data : [Objects -> HostinfoType]]
  /\ last \in Nat
  /\ hist \in [Objects -> HistType]
  /\ boots \in Nat

Init ==
  /\ now = 1
  /\ running = TRUE
  /\ obj = [o \in Objects |-> NewHostinfo]
  /\ disk = [written |-> 0, data |-> [o \in Objects |-> NewHostinfo]]
  /\ last = 0
  /\ hist = [o \in Objects |-> NoHist]
  /\ boots = 0

-----------------------------------------------------------------------------
RecordPages(h, sent) ==
  IF sent["DOWN"] = 0 THEN h
  ELSE [h EXCEPT !.down = @ + sent["DOWN"], !.downat = now]

RecordResult(h, retval, sent) ==
  IF retval = SYSM_OK THEN [NoHist EXCEPT !.up = h.up + sent["UP"]]
  ELSE RecordPages([h EXCEPT !.fails = @ + 1, !.up = 0], sent)

\* A due check of o ends with retval and handle_retval consumes it.
Check(o, retval, outcome) ==
  LET r == HandleRetval(o, obj[o], retval, now, outcome)
  IN  /\ running
      /\ obj[o].next_queuetime <= now
      /\ obj' = [obj EXCEPT ![o] = r.d]
      /\ hist' = [hist EXCEPT ![o] = RecordResult(@, retval, r.sent)]
      /\ UNCHANGED <<now, running, disk, last, boots>>

\* do_ack and do_unack: any object, whatever its state.
SetAcked(o, acked) ==
  /\ running
  /\ obj' = [obj EXCEPT ![o].acked = acked]
  /\ UNCHANGED <<now, running, disk, last, hist, boots>>

\* periodic_rewalk: an overdue object whose name would not resolve, and now
\* does, is taken for up without a check.
PeriodicRewalk(o, resolves) ==
  IF now > obj[o].next_queuetime /\ obj[o].lastcheck = SYSM_NODNS /\ resolves
    THEN [obj[o] EXCEPT !.lastcheck = SYSM_OK]
    ELSE obj[o]

EffectivePageInterval(o) ==
  IF ObjPageInterval[o] = -1 THEN PageInterval ELSE ObjPageInterval[o]

\* Mutant: the reminder comes one time unit early.
ReminderEarly(o, d, outcome) ==
  LET r == [d |-> d, sent |-> NoneSent]
  IN  IF now - d.lastcontacted >= EffectivePageInterval(o) /\ d.contacted
        THEN PageSomeone(o, r, "DOWN", now, outcome)
        ELSE r

\* walk_periodic_page_checks on one object the walk comes to.
Reminder(o, d, outcome) ==
  LET r == [d |-> d, sent |-> NoneSent]
  IN  IF now - d.lastcontacted > EffectivePageInterval(o) /\ d.contacted
        THEN PageSomeone(o, r, "DOWN", now, outcome)
        ELSE r

\* do_tree_periodic: the rewalk, then, unless the global interval is 0, the
\* reminders for the objects the dependency walk reaches.
DoTreePeriodic(resolving, walked, outcome) ==
  LET page(o) == PageInterval # 0 /\ o \in walked
      r == [o \in Objects |->
              LET d == PeriodicRewalk(o, o \in resolving)
              IN  IF page(o) THEN Reminder(o, d, outcome)
                             ELSE [d |-> d, sent |-> NoneSent]]
  IN  /\ running
      /\ obj' = [o \in Objects |-> r[o].d]
      /\ hist' = [o \in Objects |-> RecordPages(hist[o], r[o].sent)]
      /\ UNCHANGED <<now, running, disk, last, boots>>

-----------------------------------------------------------------------------
\* write_state: a new file by rename, or the old one kept on any error.
WriteState(ok) ==
  disk' = IF ok THEN [written |-> now, data |-> obj] ELSE disk

\* Mutant: the checkpoint waits longer than its interval.
CheckpointDueLate == last = 0 \/ now - last > CheckpointSecs

\* checkpoint_state, called on every pass of the loop.
CheckpointDue == last = 0 \/ now - last >= CheckpointSecs

CheckpointState(ok) ==
  /\ running
  /\ CheckpointDue
  /\ last' = now
  /\ IF last = 0 THEN UNCHANGED disk ELSE WriteState(ok)
  /\ UNCHANGED <<now, running, obj, hist, boots>>

\* SIGTERM: the loop ends, stop_it saves and exits.
StopIt(ok) ==
  /\ running
  /\ running' = FALSE
  /\ WriteState(ok)
  /\ UNCHANGED <<now, obj, last, hist, boots>>

\* SIGKILL, a fault, a power loss.
Crash ==
  /\ running
  /\ running' = FALSE
  /\ UNCHANGED <<now, obj, disk, last, hist, boots>>

\* load_state puts the saved fields on freshly parsed objects; the next
\* queue time is not saved.  A file older than MaxAge is not used.
LoadState(o) ==
  IF disk.written # 0 /\ now - disk.written <= MaxAge
    THEN [disk.data[o] EXCEPT !.next_queuetime = 0]
    ELSE NewHostinfo

SameKnowledge(d, e) ==
  [d EXCEPT !.next_queuetime = 0] = [e EXCEPT !.next_queuetime = 0]

Start ==
  /\ ~running
  /\ boots < MaxBoots
  /\ boots' = boots + 1
  /\ running' = TRUE
  /\ obj' = [o \in Objects |-> LoadState(o)]
  /\ last' = 0
  /\ hist' = [o \in Objects |->
                [hist[o] EXCEPT !.forgot = @ \/ ~SameKnowledge(LoadState(o), obj[o])]]
  /\ UNCHANGED <<now, disk>>

\* Mutant: the copy is made due before the beginning of time.
HardCopyOverdue(d) == [d EXCEPT !.next_queuetime = -1]

\* hard_copy, onto an object due at once.
HardCopy(d) == [d EXCEPT !.next_queuetime = 0]

\* SIGHUP with a valid file: copy_alerts carries an object's state over when
\* name, host, type and port still match, the others start clean.
Reload(matched) ==
  /\ running
  /\ boots < MaxBoots
  /\ boots' = boots + 1
  /\ obj' = [o \in Objects |-> IF o \in matched THEN HardCopy(obj[o]) ELSE NewHostinfo]
  /\ hist' = [o \in Objects |-> IF o \in matched THEN hist[o] ELSE NoHist]
  /\ UNCHANGED <<now, running, disk, last>>

\* Time passes.  The loop comes round within seconds, so a due checkpoint is
\* not put off by a time unit.
Tick ==
  /\ now < MaxTime
  /\ running => ~CheckpointDue
  /\ now' = now + 1
  /\ UNCHANGED <<running, obj, disk, last, hist, boots>>

Next ==
  \/ \E o \in Objects, retval \in Results, m \in MailOutcomes : Check(o, retval, m)
  \/ \E o \in Objects, acked \in BOOLEAN : SetAcked(o, acked)
  \/ \E resolving, walked \in SUBSET Objects, m \in MailOutcomes :
       DoTreePeriodic(resolving, walked, m)
  \/ \E ok \in WriteOutcomes : CheckpointState(ok)
  \/ \E ok \in WriteOutcomes : StopIt(ok)
  \/ Crash
  \/ Start
  \/ \E matched \in SUBSET Objects : Reload(matched)
  \/ Tick

Spec == Init /\ [][Next]_vars

-----------------------------------------------------------------------------
(***************************************************************************)
(* Properties.                                                             *)
(***************************************************************************)

\* The configuration has someone to tell about o going down.
Notifies(o) == Donotify /\ "DOWN" \in ContactWhen[o] /\ Contact[o] # {}

\* With no reminders configured, an outage is announced at most once:
\* contacted is set by page_someone and cleared only by the recovery branch
\* of handle_retval, and a clean stop, a reload and a checkpoint carry it.
\* Only a restart that lost it may announce the outage again.
OnePagePerOutage ==
  PageInterval = 0 =>
    \A o \in Objects : ~hist[o].forgot => hist[o].down <= 1

\* While an object is down, contacted says whether somebody was told of this
\* outage, and nothing else: this is what lets handle_retval skip the page
\* and the recovery branch announce the end (with names that resolve).
ContactedIffTold ==
  \A o \in Objects :
    /\ Notifies(o)
    /\ obj[o].lastcheck # SYSM_OK
    /\ ~hist[o].forgot
    => (obj[o].contacted <=> hist[o].down >= 1)

\* max_down failing results in a row are enough for somebody to be told
\* (numfailures in sysmon.conf): handle_retval counts them in downct.
ToldAfterMaxDown ==
  \A o \in Objects :
    /\ Notifies(o)
    /\ ~hist[o].forgot
    /\ hist[o].fails >= MaxDown[o]
    /\ hist[o].fails > 0
    => obj[o].contacted

\* What was said more than one checkpoint interval ago is in the file, so
\* that an unclean death does not repeat it (checkpoint_state), as long as
\* the writes succeed.
PagesSurviveCrash ==
  running /\ FALSE \notin WriteOutcomes =>
    \A o \in Objects :
      /\ obj[o].contacted
      /\ obj[o].lastcontacted > 0
      /\ now - obj[o].lastcontacted > CheckpointSecs
      => disk.data[o].contacted

\* A DOWN message is about an object whose latest check failed: neither
\* handle_retval nor the reminders tell people that something which is up
\* is down.
DownMessagesAreTrue ==
  [][\A o \in Objects :
       ~hist[o].forgot /\ hist'[o].down > hist[o].down => hist'[o].fails > 0]_vars

\* A second message about the same outage is a reminder, and reminders keep
\* their distance (walk_periodic_page_checks).
RemindersSpaced ==
  [][\A o \in Objects :
       (hist[o].down >= 1 /\ ~hist[o].forgot /\ hist'[o].down > hist[o].down)
         => PageInterval # 0 /\ now - hist[o].downat > EffectivePageInterval(o)]_vars

\* An UP message is the end of an announced outage and is sent once
\* (contact_on both).
UpFollowsDown ==
  [][\A o \in Objects :
       /\ ContactWhen[o] = {"UP", "DOWN"}
       /\ ~hist[o].forgot
       /\ hist'[o].up > hist[o].up
       => hist[o].down >= 1 /\ hist'[o].up = 1]_vars

\* "Changing from one failure kind to another is the SAME outage": between
\* two failing results deathtime stays where the first one put it.
DeathtimeStable ==
  [][\A o \in Objects :
       /\ running /\ ~hist[o].forgot
       /\ hist[o].fails > 0 /\ hist'[o].fails > 0
       => obj'[o].deathtime = obj[o].deathtime]_vars
=============================================================================
