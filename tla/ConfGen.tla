------------------------------ MODULE ConfGen -------------------------------
(***************************************************************************)
(* confgen.c: the generations of configuration a managed box keeps, and    *)
(* the commands that replace the live one.  A command is broken up where   *)
(* the machine may die with one change on disk and not the next.           *)
(*                                                                         *)
(* A generation's files are one content.  The name of the entry file is    *)
(* fixed, so <gendir>/main is not modelled.                                *)
(***************************************************************************)
EXTENDS Integers

CONSTANTS
  Contents,     (* what a generation may hold                               *)
  Valid,        (* the contents validate_config accepts                     *)
  MaxGen,       (* bound: the highest generation number                     *)
  Kept,         (* GENERATIONS_KEPT                                         *)
  Faults,       (* what may fail: "write", "validate" (no pipe or fork),    *)
                (* "link" (no symlink or rename)                            *)
  SeedStates,   (* what the seed file may be: "good", "bad" (its sitename  *)
                (* is refused) or "missing"                                 *)
  Redelivers    (* whether a number delivered before may be sent again      *)

Gens == 1..MaxGen

None == "none"        \* no such directory
Partial == "partial"  \* a directory whose files are not all there
Seed == "seed"        \* the configuration -f names

ASSUME ConfGenAssumption ==
  /\ MaxGen \in Nat /\ Kept \in Nat
  /\ Valid \subseteq Contents
  /\ SeedStates \subseteq {"good", "bad", "missing"}
  /\ {None, Partial, Seed} \cap Contents = {}
  /\ Redelivers \in BOOLEAN

VARIABLES
  current, previous,  (* the generation a link names, 0 without a link      *)
  dirs,               (* per generation, what its directory holds           *)
  seed,               (* the state of the seed file                         *)
  up,                 (* the daemon runs                                    *)
  pc,                 (* where it is in a command                           *)
  req,                (* the command's generation                           *)
  running,            (* running_generation                                 *)
  loaded,             (* the content the daemon monitors by                 *)
  gotsighup,
  badconfig,
  sent,               (* history: the content delivered under each number   *)
  before,             (* history: what was live when the command began      *)
  undo,               (* history: the generation the last PUT replaced, or  *)
                      (* -1 once something else changed the live one or a   *)
                      (* link could not be made                             *)
  verdict             (* history: the last answer; "nolink" once a command  *)
                      (* has logged that it could not make previous         *)

disk == <<current, previous, dirs, seed>>
memory == <<running, loaded, gotsighup, badconfig>>
history == <<sent, before, undo, verdict>>
vars == <<disk, up, pc, req, memory, history>>

Live == [current |-> current, previous |-> previous, loaded |-> loaded,
         cur |-> IF current = 0 THEN Seed ELSE dirs[current],
         prev |-> IF previous = 0 THEN None ELSE dirs[previous]]

\* None is an empty tree.
Loadable == Contents \cup {Seed, Partial, None}

LiveType ==
  [current : 0..MaxGen, previous : 0..MaxGen, loaded : Loadable,
   cur : Contents \cup {Seed, None, Partial}, prev : Contents \cup {None, Partial}]

TypeOK ==
  /\ current \in 0..MaxGen /\ previous \in 0..MaxGen /\ running \in 0..MaxGen
  /\ dirs \in [Gens -> Contents \cup {None, Partial}]
  /\ seed \in {"good", "bad", "missing"}
  /\ up \in BOOLEAN /\ gotsighup \in BOOLEAN /\ badconfig \in BOOLEAN
  /\ pc \in {"idle", "write", "validate", "previous", "current", "accepted",
             "rolled"}
  /\ req \in 0..MaxGen
  /\ loaded \in Loadable
  /\ sent \in [Gens -> Contents \cup {None}]
  /\ before \in LiveType
  /\ undo \in -1..MaxGen
  /\ verdict \in {"none", "nolink", "accepted", "rejected"}

\* A box never managed before.
Init ==
  /\ current = 0 /\ previous = 0
  /\ dirs = [g \in Gens |-> None]
  /\ seed = "good"
  /\ up = TRUE /\ pc = "idle" /\ req = 0
  /\ running = 0 /\ loaded = Seed /\ gotsighup = FALSE
  /\ badconfig = FALSE
  /\ sent = [g \in Gens |-> None]
  /\ before = Live
  /\ undo = -1
  /\ verdict = "none"

-----------------------------------------------------------------------------
(***************************************************************************)
(* CONFIG-PUT: confgen_apply.                                              *)
(***************************************************************************)
Idle == up /\ pc = "idle"

\* Numbers move forward, unless a delivery is repeated.
MayDeliver(g, c) ==
  \/ \A h \in Gens : sent[h] # None => h < g
  \/ Redelivers /\ sent[g] = c

Reject ==
  /\ pc' = "idle"
  /\ verdict' = "rejected"
  /\ UNCHANGED <<sent, before, undo>>

\* Mutant: previous is linked before the delivery has been judged.
PutBeginLinks(g, c) ==
  /\ Idle
  /\ MayDeliver(g, c)
  /\ dirs' = [dirs EXCEPT ![g] = Partial]
  /\ previous' = IF running > 0 THEN running ELSE previous
  /\ pc' = "write" /\ req' = g
  /\ sent' = [sent EXCEPT ![g] = c]
  /\ before' = Live
  /\ verdict' = "none"
  /\ UNCHANGED <<current, seed, up, memory, undo>>

\* remove_gen_dir and mkdir.
PutBegin(g, c) ==
  /\ Idle
  /\ MayDeliver(g, c)
  /\ dirs' = [dirs EXCEPT ![g] = Partial]
  /\ pc' = "write" /\ req' = g
  /\ sent' = [sent EXCEPT ![g] = c]
  /\ before' = Live
  /\ verdict' = "none"
  /\ UNCHANGED <<current, previous, seed, up, memory, undo>>

PutWrite ==
  /\ up /\ pc = "write"
  /\ \/ /\ dirs' = [dirs EXCEPT ![req] = sent[req]]
        /\ pc' = "validate"
        /\ UNCHANGED history
     \/ /\ "write" \in Faults
        /\ dirs' = [dirs EXCEPT ![req] = None]
        /\ Reject
  /\ UNCHANGED <<current, previous, seed, up, req, memory>>

\* Mutant: the verdict of the parser is not looked at.
ValidatesAnything(c) == TRUE

Validates(c) == c \in Valid

PutValidate ==
  /\ up /\ pc = "validate"
  /\ \/ /\ Validates(dirs[req])
        /\ pc' = "previous"
        /\ UNCHANGED <<dirs, history>>
     \/ /\ ~Validates(dirs[req]) \/ "validate" \in Faults
        /\ dirs' = [dirs EXCEPT ![req] = None]
        /\ Reject
  /\ UNCHANGED <<current, previous, seed, up, req, memory>>

\* Mutant: previous is pointed at what current will be.
PreviousTargetNew == req

PreviousTarget == running

\* A link that cannot be made here is only logged.
PutPrevious ==
  /\ up /\ pc = "previous"
  /\ pc' = "current"
  /\ \/ /\ previous' = IF running > 0 THEN PreviousTarget ELSE previous
        /\ UNCHANGED verdict
     \/ /\ "link" \in Faults /\ running > 0
        /\ previous' = previous
        /\ verdict' = "nolink"
  /\ UNCHANGED <<current, dirs, seed, up, req, memory, sent, before, undo>>

PutCurrent ==
  /\ up /\ pc = "current"
  /\ \/ /\ current' = req
        /\ pc' = "accepted"
        /\ UNCHANGED <<dirs, history>>
     \/ /\ "link" \in Faults
        /\ dirs' = [dirs EXCEPT ![req] = None]
        /\ pc' = "idle" /\ verdict' = "rejected" /\ undo' = -1
        /\ UNCHANGED <<current, sent, before>>
  /\ UNCHANGED <<previous, seed, up, req, memory>>

\* Mutant: only the distance to the live generation protects a directory.
PrunedIgnoresPrevious(g) == g # current /\ ~(current > Kept /\ g >= current - Kept)

\* prune_generations drops these.
Pruned(g) ==
  /\ g # current /\ g # previous
  /\ ~(current > Kept /\ g >= current - Kept)

\* Mutant: the daemon counts its own generation number on.
AcceptedNumberNext == req + 1

AcceptedNumber == req

PutAccepted ==
  /\ up /\ pc = "accepted"
  /\ pc' = "idle"
  /\ running' = AcceptedNumber
  /\ dirs' = [g \in Gens |-> IF Pruned(g) THEN None ELSE dirs[g]]
  /\ gotsighup' = TRUE
  /\ undo' = IF req = running THEN undo
             ELSE IF verdict = "nolink" THEN -1 ELSE running
  /\ verdict' = "accepted"
  /\ UNCHANGED <<current, previous, seed, up, req, loaded, badconfig, sent, before>>
-----------------------------------------------------------------------------
(***************************************************************************)
(* CONFIG-ROLLBACK and CONFIG-REVERT.                                      *)
(***************************************************************************)

Rollback ==
  /\ Idle
  /\ previous # 0 /\ previous # running
  /\ Validates(dirs[previous])
  /\ req' = running
  /\ current' = previous
  /\ pc' = "rolled"
  /\ before' = Live
  /\ verdict' = "none"
  /\ UNCHANGED <<previous, dirs, seed, up, memory, sent, undo>>

\* Mutant: the reload is not asked for.
RolledBackQuietly ==
  /\ up /\ pc = "rolled"
  /\ pc' = "idle"
  /\ previous' = IF req > 0 THEN req ELSE previous
  /\ running' = current
  /\ undo' = -1
  /\ verdict' = "accepted"
  /\ UNCHANGED <<current, dirs, seed, up, req, loaded, gotsighup, badconfig, sent, before>>

\* The second link, which may fail unnoticed.
RolledBack ==
  /\ up /\ pc = "rolled"
  /\ pc' = "idle"
  /\ \/ previous' = IF req > 0 THEN req ELSE previous
     \/ "link" \in Faults /\ previous' = previous
  /\ running' = current
  /\ gotsighup' = TRUE
  /\ undo' = -1
  /\ verdict' = "accepted"
  /\ UNCHANGED <<current, dirs, seed, up, req, loaded, badconfig, sent, before>>

Revert ==
  /\ Idle
  /\ running # 0
  /\ seed = "good"
  /\ current' = 0 /\ running' = 0
  /\ gotsighup' = TRUE
  /\ before' = Live /\ undo' = -1 /\ verdict' = "accepted"
  /\ UNCHANGED <<previous, dirs, seed, up, pc, req, loaded, badconfig, sent>>

-----------------------------------------------------------------------------
(***************************************************************************)
(* Loading: confgen_active_config, at a reload and at startup.             *)
(***************************************************************************)

\* The generation and content it may settle on.  A directory that is not
\* complete may or may not hold the entry file.
Active ==
  IF current = 0 \/ dirs[current] = None THEN {<<0, Seed>>}
  ELSE IF dirs[current] = Partial THEN {<<0, Seed>>, <<current, Partial>>}
  ELSE {<<current, dirs[current]>>}

\* sync_after_sighup with the active file: a bad one is refused, and from
\* then on every other one too; a missing one leaves nothing to monitor.
Load(c) ==
  /\ badconfig' = (badconfig \/ IF c = Seed THEN seed = "bad" ELSE c \notin Valid)
  /\ loaded' = IF badconfig' THEN loaded
               ELSE IF c = Seed /\ seed = "missing" THEN None
               ELSE c

Reload ==
  /\ Idle /\ gotsighup
  /\ gotsighup' = FALSE
  /\ \E a \in Active : running' = a[1] /\ Load(a[2])
  /\ UNCHANGED <<disk, up, pc, req, history>>

\* A SIGHUP from the console.
Hup ==
  /\ Idle
  /\ gotsighup' = TRUE
  /\ UNCHANGED <<disk, up, pc, req, running, loaded, badconfig, history>>

Crash ==
  /\ up
  /\ up' = FALSE /\ pc' = "idle" /\ gotsighup' = FALSE
  /\ undo' = IF pc = "idle" THEN undo ELSE -1
  /\ verdict' = "none"
  /\ UNCHANGED <<disk, req, running, loaded, badconfig, sent, before>>

\* main parses the seed, then the managed copy if there is one.  It runs
\* what it has parsed, bad or not, unless that is nothing.
Boot ==
  /\ ~up
  /\ up' = TRUE
  /\ \E a \in Active :
       /\ ~(a[2] = Seed /\ seed = "missing")
       /\ running' = a[1] /\ loaded' = a[2]
       /\ badconfig' = (seed = "bad" \/ a[2] = Partial)
  /\ UNCHANGED <<disk, pc, req, gotsighup, history>>

\* An operator edits the seed, well or badly.
EditSeed ==
  /\ seed' \in SeedStates
  /\ UNCHANGED <<current, previous, dirs, up, pc, req, memory, history>>

Next ==
  \/ \E g \in Gens, c \in Contents : PutBegin(g, c)
  \/ PutWrite \/ PutValidate \/ PutPrevious \/ PutCurrent \/ PutAccepted
  \/ Rollback \/ RolledBack \/ Revert
  \/ Reload \/ Hup \/ Crash \/ Boot \/ EditSeed

Spec == Init /\ [][Next]_vars

-----------------------------------------------------------------------------
(***************************************************************************)
(* Properties.                                                             *)
(***************************************************************************)

\* Whenever the machine dies, the current link names a complete generation
\* the parser accepted: a swap is never seen half done at the next boot.
CurrentComplete == current # 0 => dirs[current] \in Valid

\* What CONFIG-ROLLBACK would go back to is complete and accepted, and
\* prune_generations never takes it away.
PreviousComplete == previous # 0 => dirs[previous] \in Valid

\* An idle daemon with no reload pending runs what the current link names,
\* and says so in CONFIG-GEN.
RunsWhatIsLinked ==
  (Idle /\ ~gotsighup) =>
    /\ running = current
    /\ current # 0 => loaded = dirs[current]

\* Property 3 of confgen.c: a delivery that is rejected, when it is written
\* or validated, has changed neither the links, nor what they lead to, nor
\* what is loaded.
RejectCostsNothing ==
  [][(pc \in {"write", "validate"} /\ pc' = "idle" /\ verdict' = "rejected")
       => Live' = before]_vars

\* The generation that the last accepted PUT replaced is the one a rollback
\* goes back to, until another command moves the links.
UndoHeld == (Idle /\ undo > 0) => previous = undo
=============================================================================
