------------------------------- MODULE Watch --------------------------------
(***************************************************************************)
(* do_watch: the single-threaded loop that queues due checks along the     *)
(* dependency graph, services the queue, kills stale checks, sleeps, and   *)
(* acts on the flags its signal handlers set.                              *)
(*                                                                         *)
(* One step is one call the loop makes; signals fall between any two.      *)
(* Paging is left to Outage: here handle_retval is the result it records   *)
(* and the next queue time it sets.  Time is relative: a due check has     *)
(* wait 0, an entry is stale at age KillAfter.                             *)
(***************************************************************************)
EXTENDS Lists, FiniteSets

CONSTANTS
  Objects,     (* the configured objects                                    *)
  Root,        (* configed_root                                             *)
  Neighbors,   (* per object, what make_adjs links it to                    *)
  Reverse,     (* the objects configured with reverse                       *)
  Failures,    (* results a check itself can fail with                      *)
  MaxQueued,   (* maxqueued                                                 *)
  QueueTime,   (* queuetime, in time units                                  *)
  KillAfter,   (* killafter, in time units                                  *)
  MaxRetries,  (* DEFAULT_MAX_WAKEUP_RETRIES                                *)
  Signals,     (* the signals that may arrive: "HUP", "USR2", "TERM"        *)
  FileKinds,   (* what a config file may be: "good", "bad", "missing"       *)
  MaxEdits     (* bound: edits of the config file                           *)

SYSM_OK == "OK"
SYSM_TIMEDOUT == "TIMEDOUT"
SYSM_KILLED == "KILLED"
Pending == "pending"              \* retval == -1

ASSUME GraphAssumption ==
  /\ IsFiniteSet(Objects)
  /\ Root \in Objects
  /\ Neighbors \in [Objects -> SUBSET Objects]
  /\ \A o, p \in Objects : p \in Neighbors[o] <=> o \in Neighbors[p]
  /\ Reverse \subseteq Objects

ASSUME LimitAssumption ==
  /\ MaxQueued \in Nat /\ QueueTime \in Nat \ {0} /\ KillAfter \in Nat \ {0}
  /\ MaxRetries \in Nat /\ MaxEdits \in Nat /\ FileKinds \subseteq {"good", "bad", "missing"}
  /\ {SYSM_OK, SYSM_KILLED, Pending} \cap Failures = {}

Results == Failures \cup {SYSM_OK, SYSM_TIMEDOUT, SYSM_KILLED}

VARIABLES
  pc,         (* the call do_watch makes next                               *)
  lastcheck, wait, queued,   (* per object: hostinfo                        *)
  order,      (* the objects by next_queuetime, earliest first              *)
  queue,      (* the list from queuehead on                                 *)
  numqueued,
  throttled,  (* last_wakeup_t is less than ten seconds ago                 *)
  paused, gotsighup, stop_daemon,
  head,       (* currenthead: "tree", or "none" for NULL                    *)
  root,       (* configed_root and parser_head: in the "tree" or "freed"    *)
  badconfig,
  file        (* the config file: [ver, kind]                               *)

config == <<head, root, badconfig>>
signalled == <<paused, gotsighup, stop_daemon, file>>
hostvars == <<lastcheck, wait, order>>
queuevars == <<queued, queue, numqueued>>
vars == <<pc, hostvars, queuevars, throttled, signalled, config>>

EntryType ==
  [obj : Objects, started : BOOLEAN, retval : Results \cup {Pending},
   age : 0..KillAfter, wakeups : Nat]

Stages == {"queue", "wakeup", "service", "sleep", "paused", "p_wakeup",
           "p_sleep", "bottom", "reload", "reloaded", "exited", "undefined"}

TypeOK ==
  /\ pc \in Stages
  /\ lastcheck \in [Objects -> Results]
  /\ wait \in [Objects -> 0..QueueTime]
  /\ queued \in [Objects -> BOOLEAN]
  /\ order \in [1..Cardinality(Objects) -> Objects]
  /\ queue \in Seq(EntryType)
  /\ numqueued \in 0..MaxQueued + 1
  /\ throttled \in BOOLEAN
  /\ paused \in BOOLEAN /\ gotsighup \in BOOLEAN /\ stop_daemon \in BOOLEAN
  /\ head \in {"tree", "none"} /\ root \in {"tree", "freed"}
  /\ badconfig \in BOOLEAN
  /\ file \in [ver : 0..MaxEdits, kind : {"good", "bad", "missing"}]

Orders == {s \in [1..Cardinality(Objects) -> Objects] :
             \A o \in Objects : \E i \in DOMAIN s : s[i] = o}

Init ==
  /\ pc = "queue"
  /\ lastcheck = [o \in Objects |-> SYSM_OK]
  /\ wait = [o \in Objects |-> 0]
  /\ queued = [o \in Objects |-> FALSE]
  /\ order \in Orders
  /\ queue = <<>> /\ numqueued = 0
  /\ throttled = FALSE
  /\ paused = FALSE /\ gotsighup = FALSE /\ stop_daemon = FALSE
  /\ head = "tree" /\ root = "tree" /\ badconfig = FALSE
  /\ file = [ver |-> 0, kind |-> "good"]
-----------------------------------------------------------------------------
(***************************************************************************)
(* Queueing: queue_checks_qsort_way and queue_check.                       *)
(***************************************************************************)

\* Whether the walk goes on from o to its neighbours.
Passes(o) == (lastcheck[o] = SYSM_OK) <=> (o \notin Reverse)

\* Mutant: every unqueued object is reached, whatever is down above it.
WalkedAll == {o \in Objects : ~queued[o]}

(***************************************************************************)
(* walk_queue_checks_add from configed_root: the objects it marks visited. *)
(* It turns back at a queued object, so this is the least set that holds   *)
(* an unqueued root and the unqueued neighbours of its passable members.   *)
(***************************************************************************)
Walked ==
  LET Closed(S) ==
        /\ ~queued[Root] => Root \in S
        /\ \A o \in S : Passes(o) =>
              \A p \in Neighbors[o] : ~queued[p] => p \in S
  IN  {o \in Objects : \A S \in SUBSET Objects : Closed(S) => o \in S}

Collected == {o \in Walked : wait[o] = 0}

\* Mutant: the limit is tested one too late.
RoomOneMore == MaxQueued + 2 - numqueued

\* How many checks pass "numqueued <= maxqueued" before it fails.
Room == MaxQueued + 1 - numqueued

NewEntry(o) ==
  [obj |-> o, started |-> FALSE, retval |-> Pending, age |-> 0,
   wakeups |-> 0]

\* Mutant: due checks are queued without looking at next_queuetime order.
ToQueueLatest ==
  LET due == Filter(order, Collected)
      n   == IF Len(due) <= Room THEN Len(due) ELSE Room
  IN  SubSeq(due, Len(due) - n + 1, Len(due))

\* The checks queued by one call, earliest next_queuetime first.
ToQueue ==
  LET due == Filter(order, Collected)
  IN  SubSeq(due, 1, IF Len(due) <= Room THEN Len(due) ELSE Room)

QueueChecks ==
  /\ pc = "queue"
  /\ IF head = "none" \/ numqueued > MaxQueued
       THEN pc' = "wakeup" /\ UNCHANGED queuevars
     ELSE IF root = "freed"   \* a walk over freed memory: it may crash,
       THEN pc' \in {"undefined", "wakeup"} /\ UNCHANGED queuevars \* or find nothing
     ELSE LET new == ToQueue
              n   == Len(new)
          IN  /\ pc' = "wakeup"
              /\ queued' = [o \in Objects |->
                              queued[o] \/ \E i \in 1..n : new[i] = o]
              /\ queue' = [i \in 1..n |-> NewEntry(new[n + 1 - i])] \o queue
              /\ numqueued' = numqueued + n
  /\ UNCHANGED <<hostvars, throttled, signalled, config>>

-----------------------------------------------------------------------------
(***************************************************************************)
(* wakeup_checks: an entry as old as killafter is stopped and given a      *)
(* result, whether or not it has one already.                              *)
(***************************************************************************)

\* Mutant: an entry is only ever warned about.
WokenNever(e) == e

\* Mutant: the entry is stopped but gets no result.
WokenNoResult(e) ==
  IF e.age < KillAfter THEN e ELSE [e EXCEPT !.wakeups = @ + 1]

Woken(e) ==
  IF e.age < KillAfter THEN e
  ELSE IF e.wakeups >= MaxRetries THEN [e EXCEPT !.retval = SYSM_KILLED]
  ELSE [e EXCEPT !.retval = SYSM_TIMEDOUT, !.wakeups = @ + 1]

WakeupAll == queue' = [i \in DOMAIN queue |-> Woken(queue[i])]

\* The main loop calls it at most every ten seconds.
WakeupChecks ==
  /\ pc = "wakeup"
  /\ pc' = "service"
  /\ throttled' = TRUE
  /\ IF throttled THEN UNCHANGED queue ELSE WakeupAll
  /\ UNCHANGED <<hostvars, queued, numqueued, signalled, config>>

\* The paused loop calls it on every turn and leaves last_wakeup_t alone.
PausedWakeupChecks ==
  /\ pc = "p_wakeup"
  /\ pc' = "p_sleep"
  /\ WakeupAll
  /\ UNCHANGED <<hostvars, queued, numqueued, throttled, signalled, config>>

-----------------------------------------------------------------------------
(***************************************************************************)
(* service_checks: start or service what has no result, retire what has.   *)
(***************************************************************************)

\* What a check may say when it is started or serviced.
Says == Failures \cup {SYSM_OK, Pending}

\* service_this: a first call starts the check.
Serviced(e, say) == [e EXCEPT !.started = TRUE, !.retval = say]

\* Mutant: a retired check stays marked as queued.
RetiredStaysQueued(done) == queued' = queued

Retired(done) == queued' = [o \in Objects |-> queued[o] /\ o \notin done]

Service(next) ==
  LET open == {i \in DOMAIN queue : queue[i].retval = Pending}
      done == {queue[i].obj : i \in DOMAIN queue \ open}
      kept == Filter(queue, {queue[i] : i \in open})
  IN  /\ \E says \in [DOMAIN kept -> Says] :
           queue' = [i \in DOMAIN kept |-> Serviced(kept[i], says[i])]
      /\ lastcheck' = [o \in Objects |->
           IF o \in done
             THEN queue[CHOOSE i \in DOMAIN queue : queue[i].obj = o].retval
             ELSE lastcheck[o]]
      /\ wait' = [o \in Objects |-> IF o \in done THEN QueueTime ELSE wait[o]]
      /\ Retired(done)
      /\ numqueued' = numqueued - (Len(queue) - Len(kept))
      \* the retired objects share one next_queuetime, the latest
      /\ order' \in {s \in Orders :
           \E k \in 0..Len(s) :
             /\ SubSeq(s, 1, k) = Filter(order, Objects \ done)
             /\ \A i \in k+1..Len(s) : s[i] \in done}
      /\ pc' = next

ServiceChecks ==
  /\ pc = "service"
  /\ Service("sleep")
  /\ UNCHANGED <<throttled, signalled, config>>

\* Mutant: a requested stop does not end the pause.
PausedLoopIgnoresStop ==
  /\ pc = "paused"
  /\ IF paused /\ ~gotsighup
       THEN Service("p_wakeup")
       ELSE pc' = "bottom" /\ UNCHANGED <<hostvars, queuevars>>
  /\ UNCHANGED <<throttled, signalled, config>>

\* The turn of the paused loop, or its end.
PausedLoop ==
  /\ pc = "paused"
  /\ IF paused /\ ~gotsighup /\ ~stop_daemon
       THEN Service("p_wakeup")
       ELSE pc' = "bottom" /\ UNCHANGED <<hostvars, queuevars>>
  /\ UNCHANGED <<throttled, signalled, config>>

-----------------------------------------------------------------------------
(***************************************************************************)
(* needssleep: select() returns for readable checks, which are serviced at *)
(* once, or because time has passed.  A time unit is at least ten seconds, *)
(* so it also ends the throttling of wakeup_checks.                        *)
(***************************************************************************)
\* Ages past killafter are all alike.
Older(e) == [e EXCEPT !.age = IF @ < KillAfter THEN @ + 1 ELSE @]

NeedsSleep(dt) ==
  /\ \/ pc = "sleep"
     \/ pc = "p_sleep"
  /\ pc' = "paused"
  /\ \E says \in [DOMAIN queue -> Says] :
       /\ \A i \in DOMAIN queue :
            ~(queue[i].started /\ queue[i].retval = Pending) => says[i] = Pending
       /\ queue' = [i \in DOMAIN queue |->
            LET e == IF dt THEN Older(queue[i]) ELSE queue[i]
            IN  IF says[i] = Pending THEN e ELSE Serviced(e, says[i])]
  /\ wait' = [o \in Objects |->
                IF dt /\ wait[o] > 0 THEN wait[o] - 1 ELSE wait[o]]
  /\ throttled' = (throttled /\ ~dt)
  /\ UNCHANGED <<lastcheck, order, queued, numqueued, signalled, config>>

-----------------------------------------------------------------------------
(***************************************************************************)
(* The bottom of the loop: a requested stop, then a requested reload.      *)
(***************************************************************************)

\* stop_it; or fast_cleanup_checks, which unmarks only what never started.
Bottom ==
  /\ pc = "bottom"
  /\ IF stop_daemon THEN pc' = "exited" /\ UNCHANGED queuevars
     ELSE IF ~gotsighup THEN pc' = "queue" /\ UNCHANGED queuevars
     ELSE /\ pc' = "reload"
          /\ queued' = [o \in Objects |-> queued[o] /\
               ~\E i \in DOMAIN queue : queue[i].obj = o /\ ~queue[i].started]
          /\ queue' = <<>> /\ numqueued' = 0
  /\ UNCHANGED <<hostvars, throttled, signalled, config>>

\* Mutant: the check marks of the old tree are carried into the new one.
NewObjectsKeepQueued == wait' = [o \in Objects |-> 0] /\ UNCHANGED queued

\* The objects of a tree just parsed are unqueued and due at once.
NewObjects ==
  /\ wait' = [o \in Objects |-> 0]
  /\ queued' = [o \in Objects |-> FALSE]

\* The new tree replaces the old one; copy_alerts keeps the results.
UseNewTree ==
  /\ head' = "tree" /\ root' = "tree"
  /\ NewObjects /\ order' \in Orders
  /\ UNCHANGED lastcheck

\* No file: loadconfig returns NULL, which replaces the old tree.  The old
\* one is freed, with configed_root in it, and its results are gone.
UseNoTree ==
  /\ head' = "none" /\ root' = "freed"
  /\ NewObjects
  /\ lastcheck' = [o \in Objects |-> SYSM_OK]
  /\ UNCHANGED order

\* badconfig: the new tree, if a file was read, is freed with configed_root
\* pointing into it.
KeepOldTree ==
  /\ root' = IF file.kind = "missing" THEN root ELSE "freed"
  /\ UNCHANGED <<hostvars, queued, head>>

\* sync_after_sighup.  Nothing ever sets badconfig back.
SyncAfterSighup ==
  /\ pc = "reload"
  /\ pc' = "reloaded"
  /\ badconfig' = (badconfig \/ file.kind = "bad")
  /\ IF badconfig' THEN KeepOldTree
     ELSE IF file.kind = "missing" THEN UseNoTree
     ELSE UseNewTree
  /\ UNCHANGED <<queue, numqueued, throttled, signalled>>

\* update_count, and gotsighup = FALSE.
Reloaded ==
  /\ pc = "reloaded"
  /\ pc' = "queue"
  /\ gotsighup' = FALSE
  /\ UNCHANGED <<hostvars, queuevars, throttled, paused, stop_daemon, file, config>>

-----------------------------------------------------------------------------
(***************************************************************************)
(* The signal handlers.  A SIGHUP comes with an edit of the file.          *)
(***************************************************************************)
Alive == pc \notin {"exited", "undefined"}

ReloadConfig ==
  /\ Alive /\ "HUP" \in Signals
  /\ file.ver < MaxEdits
  /\ \E kind \in FileKinds : file' = [ver |-> file.ver + 1, kind |-> kind]
  /\ gotsighup' = TRUE
  /\ UNCHANGED <<pc, hostvars, queuevars, throttled, paused, stop_daemon, config>>

TogglePause ==
  /\ Alive /\ "USR2" \in Signals
  /\ paused' = ~paused
  /\ UNCHANGED <<pc, hostvars, queuevars, throttled, gotsighup, stop_daemon, file, config>>

HandleStop ==
  /\ Alive /\ "TERM" \in Signals
  /\ stop_daemon' = TRUE
  /\ UNCHANGED <<pc, hostvars, queuevars, throttled, paused, gotsighup, file, config>>

DoWatch ==
  \/ QueueChecks \/ WakeupChecks \/ ServiceChecks
  \/ \E dt \in BOOLEAN : NeedsSleep(dt)
  \/ PausedLoop \/ PausedWakeupChecks
  \/ Bottom \/ SyncAfterSighup \/ Reloaded

Done == ~Alive /\ UNCHANGED vars

Next == DoWatch \/ ReloadConfig \/ TogglePause \/ HandleStop \/ Done

Spec == Init /\ [][Next]_vars

\* The process runs, and time passes while it sleeps.
FairSpec == Spec /\ WF_vars(DoWatch) /\ SF_vars(NeedsSleep(TRUE))
-----------------------------------------------------------------------------
(***************************************************************************)
(* Safety.                                                                 *)
(***************************************************************************)

EntriesOf(o) == {i \in DOMAIN queue : queue[i].obj = o}

\* An object is marked queued exactly when one entry of the list is its
\* check, and numqueued counts the entries: service_checks relies on it
\* ("otherwise it won't ever get checked again").  Between the cleanup and
\* the new tree of a reload the marks may lag behind; once a reload has been
\* refused, the marks of checks that had started are never taken back.
QueueConsistent ==
  /\ numqueued = Len(queue)
  /\ (pc # "reload" /\ ~badconfig) =>
       \A o \in Objects : Cardinality(EntriesOf(o)) = IF queued[o] THEN 1 ELSE 0

\* wakeup_checks never takes its "Permanently killing" branch: a woken entry
\* has a result, so service_checks retires it before it can be woken
\* MaxRetries times, pauses included.
NeverPermanentlyKilled ==
  \A i \in DOMAIN queue :
    queue[i].wakeups < MaxRetries /\ queue[i].retval # SYSM_KILLED

\* A check is put in the queue only if it is the root's or hangs off an
\* object that the last results let the walk pass, and that is not itself
\* being checked: what lies behind a failure is left alone.
DependentsWait ==
  [][\A o \in Objects : (queued'[o] /\ ~queued[o]) =>
       \/ o = Root
       \/ \E p \in Neighbors[o] :
            /\ ~queued[p]
            /\ (lastcheck[p] = SYSM_OK) <=> (p \notin Reverse)]_vars

\* A tree in use is the tree configed_root points into, so a walk never
\* crosses freed memory.
RootIsLive == head = "tree" => root = "tree"

-----------------------------------------------------------------------------
(***************************************************************************)
(* Liveness, under FairSpec.                                               *)
(***************************************************************************)

\* Every queued check leaves the queue, even one that never answers, paused
\* or not: wakeup_checks gives it a result.
ChecksEnd ==
  \A o \in Objects : queued[o] ~> (~queued[o] \/ ~Alive)

\* A requested stop is carried out, paused or not, and so is a reload.
RequestsServed ==
  /\ stop_daemon ~> pc = "exited"
  /\ gotsighup ~> (~gotsighup \/ ~Alive)

Checked(o) == wait[o] = QueueTime

\* Unless it is stopped, paused for good or left without a tree, the daemon
\* checks the root again and again, whatever the checks answer.
RootKeepsBeingChecked ==
  <>[](~paused /\ ~stop_daemon /\ head = "tree") => []<>Checked(Root)

\* While everything answers and is up, every object is checked again and
\* again, although maxqueued lets only some of them be queued at a time.
NobodyStarves ==
  <>[](/\ ~paused /\ ~stop_daemon /\ head = "tree"
       /\ \A o \in Objects : lastcheck[o] = SYSM_OK)
    => \A o \in Objects : []<>Checked(o)
=============================================================================
