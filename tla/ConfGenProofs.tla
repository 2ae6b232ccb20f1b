--------------------------- MODULE ConfGenProofs ----------------------------
(***************************************************************************)
(* Proofs about ConfGen: with numbers that are never delivered twice, both *)
(* links always lead to complete generations the parser accepted, wherever *)
(* the machine dies and whatever fails.                                    *)
(***************************************************************************)
EXTENDS ConfGen, TLAPS

\* Zenon proves the steps that name no other prover.
USE ZenonT(30)

\* The record of what is live has its type, so the history that keeps it has.
LEMMA LiveTyped == TypeOK => Live \in LiveType
<1> SUFFICES ASSUME TypeOK PROVE Live \in LiveType
  OBVIOUS
<1>1. current \in 0..MaxGen /\ previous \in 0..MaxGen /\ loaded \in Loadable
  BY DEF TypeOK
<1>2. (IF current = 0 THEN Seed ELSE dirs[current]) \in Contents \cup {Seed, None, Partial}
  BY SMTT(30), ConfGenAssumption DEF TypeOK, Gens
<1>3. (IF previous = 0 THEN None ELSE dirs[previous]) \in Contents \cup {None, Partial}
  BY SMTT(30), ConfGenAssumption DEF TypeOK, Gens
<1> QED
  BY <1>1, <1>2, <1>3 DEF Live, LiveType

\* What confgen_active_config settles on is a generation number and a content.
LEMMA ActiveTyped ==
  ASSUME TypeOK, NEW a \in Active
  PROVE  a[1] \in 0..MaxGen /\ a[2] \in Loadable
BY SMTT(30), ConfGenAssumption DEF TypeOK, Active, Loadable, Gens

\* Every step of the commands, the reload and the boot keeps the types.
LEMMA TypeStep == TypeOK /\ [Next]_vars => TypeOK'
<1> SUFFICES ASSUME TypeOK, [Next]_vars PROVE TypeOK'
  OBVIOUS
<1> USE ConfGenAssumption DEF Gens
<1>1. ASSUME NEW g \in Gens, NEW c \in Contents, PutBegin(g, c) PROVE TypeOK'
  <2>1. before' \in LiveType
    BY <1>1, LiveTyped DEF PutBegin
  <2> QED
    BY SMTT(30), <1>1, <2>1 DEF PutBegin, TypeOK, memory
<1>2. CASE PutWrite
  BY <1>2 DEF PutWrite, Reject, TypeOK, memory, history
<1>3. CASE PutValidate
  BY <1>3 DEF PutValidate, Reject, TypeOK, memory, history
<1>4. CASE PutPrevious
  BY <1>4 DEF PutPrevious, PreviousTarget, TypeOK, memory, history
<1>5. CASE PutCurrent
  BY SMTT(30), <1>5 DEF PutCurrent, Reject, TypeOK, memory, history
<1>6. CASE PutAccepted
  BY SMTT(30), <1>6 DEF PutAccepted, AcceptedNumber, TypeOK
<1>7. CASE Rollback
  <2>1. before' \in LiveType
    BY <1>7, LiveTyped DEF Rollback
  <2> QED
    BY <1>7, <2>1 DEF Rollback, TypeOK, memory
<1>8. CASE RolledBack
  BY SMTT(30), <1>8 DEF RolledBack, TypeOK
<1>9. CASE Revert
  <2>1. before' \in LiveType
    BY <1>9, LiveTyped DEF Revert
  <2> QED
    BY SMTT(30), <1>9, <2>1 DEF Revert, TypeOK
<1>10. CASE Reload
  <2>1. PICK a \in Active : running' = a[1] /\ Load(a[2])
    BY <1>10 DEF Reload
  <2>2. running' \in 0..MaxGen /\ a[2] \in Loadable
    BY <2>1, ActiveTyped
  <2>3. badconfig' \in BOOLEAN /\ loaded' \in Loadable
    BY <2>1, <2>2 DEF Load, TypeOK, Loadable
  <2> QED
    BY <1>10, <2>2, <2>3 DEF Reload, TypeOK, disk, history
<1>11. CASE Hup
  BY <1>11 DEF Hup, TypeOK, disk, history
<1>12. CASE Crash
  <2>1. undo' \in -1..MaxGen
    BY SMTT(30), <1>12 DEF Crash, TypeOK
  <2>2. UNCHANGED <<current, previous, dirs, seed, req, running, loaded,
                    badconfig, sent, before>>
    BY <1>12 DEF Crash, disk
  <2>3. up' = FALSE /\ pc' = "idle" /\ gotsighup' = FALSE /\ verdict' = "none"
    BY <1>12 DEF Crash
  <2> QED
    BY <2>1, <2>2, <2>3 DEF TypeOK
<1>13. CASE Boot
  <2>1. PICK a \in Active : /\ running' = a[1] /\ loaded' = a[2]
                            /\ badconfig' = (seed = "bad" \/ a[2] = Partial)
    BY <1>13 DEF Boot
  <2>2. running' \in 0..MaxGen /\ loaded' \in Loadable /\ badconfig' \in BOOLEAN
    BY <2>1, ActiveTyped
  <2> QED
    BY <1>13, <2>2 DEF Boot, TypeOK, disk, history
<1>14. CASE EditSeed
  BY <1>14 DEF EditSeed, TypeOK, memory, history
<1>15. CASE UNCHANGED vars
  BY <1>15 DEF vars, disk, memory, history, TypeOK
<1> QED
  BY <1>1, <1>2, <1>3, <1>4, <1>5, <1>6, <1>7, <1>8, <1>9, <1>10, <1>11,
     <1>12, <1>13, <1>14, <1>15 DEF Next

\* A box never managed before has its type.
LEMMA TypeInit == Init => TypeOK
<1> SUFFICES ASSUME Init PROVE TypeOK
  OBVIOUS
<1>1. Live \in LiveType
  <2>1. 0 \in 0..MaxGen
    BY SMTT(30), ConfGenAssumption
  <2>2. Live = [current |-> 0, previous |-> 0, loaded |-> Seed, cur |-> Seed,
                prev |-> None]
    BY DEF Init, Live
  <2> QED
    BY <2>1, <2>2 DEF LiveType, Loadable
<1>2. before \in LiveType
  BY <1>1 DEF Init
<1>3. undo \in -1..MaxGen /\ 0 \in 0..MaxGen
  BY SMTT(30), ConfGenAssumption DEF Init
<1>4. dirs \in [Gens -> Contents \cup {None, Partial}] /\ sent \in [Gens -> Contents \cup {None}]
  BY DEF Init
<1> QED
  BY <1>2, <1>3, <1>4 DEF Init, TypeOK, Loadable

\* Every reachable state of ConfGen has its type.
THEOREM TypeCorrect == Spec => []TypeOK
BY TypeInit, TypeStep, PTL DEF Spec

-----------------------------------------------------------------------------
(***************************************************************************)
(* The strengthening.  Held(g): the directory of g is complete and g was   *)
(* delivered, so a new delivery, which has a fresh number, cannot touch it.*)
(* CurrentComplete alone is not inductive: PutPrevious and RolledBack link *)
(* what running and req name, and PutCurrent links what was staged.        *)
(***************************************************************************)
Held(g) == g # 0 => (dirs[g] \in Valid /\ sent[g] # None)

Staging == {"write", "validate", "previous", "current"}

LinkInv ==
  /\ TypeOK
  /\ Held(current) /\ Held(previous) /\ Held(running)
  /\ pc \in Staging =>
       req \in Gens /\ sent[req] # None /\ req \notin {current, previous, running}
  /\ pc \in {"previous", "current"} => dirs[req] \in Valid
  /\ pc = "accepted" => req = current
  /\ pc = "rolled" => Held(req)

\* No step of a command, reload, crash or boot breaks LinkInv when no number
\* is delivered twice.
LEMMA LinkStep == ~Redelivers /\ LinkInv /\ [Next]_vars => LinkInv'
<1> SUFFICES ASSUME ~Redelivers, LinkInv, [Next]_vars PROVE LinkInv'
  OBVIOUS
<1> USE ConfGenAssumption DEF Gens
<1>0. TypeOK /\ TypeOK'
  BY TypeStep DEF LinkInv
<1>1. ASSUME NEW g \in Gens, NEW c \in Contents, PutBegin(g, c) PROVE LinkInv'
  <2>1. sent[g] = None
    BY SMTT(30), <1>0, <1>1 DEF PutBegin, MayDeliver, TypeOK
  <2>2. g \notin {current, previous, running}
    BY SMTT(30), <2>1, <1>0 DEF LinkInv, Held, TypeOK
  <2>3. \A h \in Gens \ {g} : dirs'[h] = dirs[h] /\ sent'[h] = sent[h]
    BY <1>0, <1>1 DEF PutBegin, TypeOK
  <2>4. sent'[g] # None
    BY <1>0, <1>1 DEF PutBegin, TypeOK
  <2>5. UNCHANGED <<current, previous, running>> /\ pc' = "write" /\ req' = g
    BY <1>1 DEF PutBegin, memory
  <2> QED
    BY SMTT(30), <1>0, <2>2, <2>3, <2>4, <2>5 DEF LinkInv, Held, Staging, TypeOK
<1>2. CASE PutWrite
  <2>1. pc = "write" /\ pc' \in {"validate", "idle"}
    BY <1>2 DEF PutWrite, Reject
  <2>2. UNCHANGED <<current, previous, running, req, sent>>
    BY <1>2 DEF PutWrite, Reject, memory, history
  <2>3. \A h \in Gens \ {req} : dirs'[h] = dirs[h]
    BY <1>0, <1>2 DEF PutWrite, TypeOK
  <2> QED
    BY SMTT(30), <1>0, <2>1, <2>2, <2>3 DEF LinkInv, Held, Staging, TypeOK
<1>3. CASE PutValidate
  <2>1. pc = "validate" /\ pc' \in {"previous", "idle"}
    BY <1>3 DEF PutValidate, Reject
  <2>2. UNCHANGED <<current, previous, running, req, sent>>
    BY <1>3 DEF PutValidate, Reject, memory, history
  <2>3. \A h \in Gens \ {req} : dirs'[h] = dirs[h]
    BY <1>0, <1>3 DEF PutValidate, TypeOK
  <2>4. pc' = "previous" => dirs'[req] \in Valid
    BY <1>3 DEF PutValidate, Reject, Validates
  <2> QED
    BY SMTT(30), <1>0, <2>1, <2>2, <2>3, <2>4 DEF LinkInv, Held, Staging, TypeOK
<1>4. CASE PutPrevious
  <2>1. pc = "previous" /\ pc' = "current" /\ previous' \in {previous, running}
    BY <1>4 DEF PutPrevious, PreviousTarget
  <2>2. UNCHANGED <<current, running, req, sent, dirs>>
    BY <1>4 DEF PutPrevious, memory, history
  <2> QED
    BY <1>0, <2>1, <2>2 DEF LinkInv, Held, Staging
<1>5. CASE PutCurrent
  <2>1. pc = "current"
    BY <1>5 DEF PutCurrent
  <2>2. UNCHANGED <<previous, running, req, sent>>
    BY <1>5 DEF PutCurrent, Reject, memory, history
  <2>3. CASE current' = req /\ pc' = "accepted" /\ dirs' = dirs
    BY <1>0, <2>1, <2>2, <2>3 DEF LinkInv, Held, Staging
  <2>4. CASE pc' = "idle" /\ current' = current /\ dirs' = [dirs EXCEPT ![req] = None]
    <3>1. \A h \in Gens \ {req} : dirs'[h] = dirs[h]
      BY <1>0, <2>4 DEF TypeOK
    <3> QED
      BY SMTT(30), <1>0, <2>1, <2>2, <2>4, <3>1 DEF LinkInv, Held, Staging, TypeOK
  <2> QED
    BY <1>5, <2>3, <2>4 DEF PutCurrent, Reject, history
<1>6. CASE PutAccepted
  <2>1. pc = "accepted" /\ pc' = "idle" /\ running' = req
    BY <1>6 DEF PutAccepted, AcceptedNumber
  <2>2. UNCHANGED <<current, previous, sent>>
    BY <1>6 DEF PutAccepted
  <2>3. \A h \in Gens : h \in {current, previous} => dirs'[h] = dirs[h]
    BY <1>6 DEF PutAccepted, Pruned
  <2> QED
    BY SMTT(30), <1>0, <2>1, <2>2, <2>3 DEF LinkInv, Held, Staging, TypeOK
<1>7. CASE Rollback
  <2>1. current' = previous /\ req' = running /\ pc' = "rolled"
    BY <1>7 DEF Rollback
  <2>2. UNCHANGED <<previous, running, dirs, sent>>
    BY <1>7 DEF Rollback, memory
  <2> QED
    BY <1>0, <2>1, <2>2 DEF LinkInv, Held, Staging
<1>8. CASE RolledBack
  <2>1. pc = "rolled" /\ pc' = "idle" /\ running' = current
    BY <1>8 DEF RolledBack
  <2>2. previous' \in {previous, req} /\ UNCHANGED <<current, dirs, sent>>
    BY <1>8 DEF RolledBack
  <2> QED
    BY <1>0, <2>1, <2>2 DEF LinkInv, Held, Staging
<1>9. CASE Revert
  <2>1. current' = 0 /\ running' = 0 /\ pc' = "idle"
    BY <1>9 DEF Revert, Idle
  <2>2. UNCHANGED <<previous, dirs, sent>>
    BY <1>9 DEF Revert
  <2> QED
    BY <1>0, <2>1, <2>2 DEF LinkInv, Held, Staging
<1>10. ASSUME Reload \/ Boot PROVE LinkInv'
  <2>1. running' \in {0, current}
    BY SMTT(30), <1>10 DEF Reload, Boot, Active
  <2>2. UNCHANGED <<current, previous, dirs, sent, pc, req>>
    BY <1>10 DEF Reload, Boot, disk, history
  <2> QED
    BY SMTT(30), <1>0, <2>1, <2>2 DEF LinkInv, Held, Staging
<1>11. ASSUME Hup \/ EditSeed \/ UNCHANGED vars PROVE LinkInv'
  <2>1. UNCHANGED <<current, previous, running, dirs, sent, pc, req>>
    BY <1>11 DEF Hup, EditSeed, vars, disk, memory, history
  <2> QED
    BY <1>0, <2>1 DEF LinkInv, Held
<1>12. CASE Crash
  <2>1. UNCHANGED <<current, previous, running, dirs, sent, req>> /\ pc' = "idle"
    BY <1>12 DEF Crash, disk
  <2> QED
    BY <1>0, <2>1 DEF LinkInv, Held, Staging
<1> QED
  BY <1>1, <1>2, <1>3, <1>4, <1>5, <1>6, <1>7, <1>8, <1>9, <1>10, <1>11, <1>12
  DEF Next

\* LinkInv is an invariant when no number is delivered twice.
LEMMA LinkInvariant == ~Redelivers /\ Spec => []LinkInv
<1> SUFFICES ASSUME ~Redelivers PROVE Spec => []LinkInv
  OBVIOUS
<1>1. Init => LinkInv
  BY TypeInit DEF Init, LinkInv, Held, Staging
<1>2. LinkInv /\ [Next]_vars => LinkInv'
  BY LinkStep
<1> QED
  BY <1>1, <1>2, PTL DEF Spec

\* The current link names a complete, accepted generation in every state, so
\* a machine that dies anywhere in a PUT, ROLLBACK or REVERT boots into one.
THEOREM CurrentAlwaysComplete == ~Redelivers /\ Spec => []CurrentComplete
<1>1. LinkInv => CurrentComplete
  BY DEF LinkInv, Held, CurrentComplete
<1> QED
  BY <1>1, LinkInvariant, PTL

\* What a rollback would go back to is complete and accepted in every state:
\* neither a delivery nor prune_generations ever damages it.
THEOREM PreviousAlwaysComplete == ~Redelivers /\ Spec => []PreviousComplete
<1>1. LinkInv => PreviousComplete
  BY DEF LinkInv, Held, PreviousComplete
<1> QED
  BY <1>1, LinkInvariant, PTL

-----------------------------------------------------------------------------
(***************************************************************************)
(* What runs is what is linked.  Between the links' swap and the reload it *)
(* asks for the two differ, so the strengthening says nothing once a       *)
(* command has passed its first link, or while a reload is pending; it     *)
(* must hold all through the staging of a PUT, which may yet be rejected.  *)
(* A seed that is refused would be refused for good (badconfig): it is     *)
(* excluded.                                                               *)
(***************************************************************************)
RunInv ==
  /\ seed # "bad" /\ ~badconfig
  /\ (up /\ pc \in Staging \cup {"idle"} /\ ~gotsighup) =>
       /\ running = current
       /\ current # 0 => loaded = dirs[current]

\* With complete links there is one configuration to settle on: the current
\* generation, or the seed when nothing is linked.
LEMMA ActiveIsLinked ==
  ASSUME LinkInv, NEW a \in Active
  PROVE  /\ a[1] = current
         /\ current # 0 => a[2] = dirs[current] /\ a[2] \in Valid
         /\ current = 0 => a[2] = Seed
         /\ a[2] # Partial
<1>1. current # 0 => dirs[current] \in Valid /\ dirs[current] \notin {None, Partial}
  BY ConfGenAssumption DEF LinkInv, Held, TypeOK, Gens, None, Partial
<1>2. Seed # Partial
  BY DEF Seed, Partial
<1>3. a = IF current = 0 THEN <<0, Seed>> ELSE <<current, dirs[current]>>
  BY <1>1 DEF Active
<1> QED
  BY <1>1, <1>2, <1>3

\* No step breaks RunInv.
LEMMA RunStep ==
  ASSUME LinkInv, LinkInv', RunInv, [Next]_vars, "bad" \notin SeedStates
  PROVE  RunInv'
<1> USE ConfGenAssumption DEF Gens
<1>0. TypeOK
  BY DEF LinkInv
<1>1. ASSUME NEW g \in Gens, NEW c \in Contents, PutBegin(g, c) PROVE RunInv'
  <2>1. g # current
    BY <1>1 DEF LinkInv, PutBegin, Staging
  <2>2. UNCHANGED <<current, seed, up, running, loaded, gotsighup, badconfig>>
    BY <1>1 DEF PutBegin, memory
  <2>3. current # 0 => dirs'[current] = dirs[current]
    BY SMTT(30), <1>0, <1>1, <2>1 DEF PutBegin, TypeOK
  <2>4. pc = "idle"
    BY <1>1 DEF PutBegin, Idle
  <2> QED
    BY <2>2, <2>3, <2>4 DEF RunInv
<1>2. ASSUME PutWrite \/ PutValidate \/ PutPrevious \/ PutCurrent PROVE RunInv'
  <2>1. pc \in Staging /\ req # current
    BY <1>2 DEF LinkInv, PutWrite, PutValidate, PutPrevious, PutCurrent, Staging
  <2>2. UNCHANGED <<seed, up, running, loaded, gotsighup, badconfig>>
    BY <1>2 DEF PutWrite, PutValidate, PutPrevious, PutCurrent, memory
  <2>3. CASE pc' = "accepted"
    BY <2>2, <2>3 DEF RunInv, Staging
  <2>4. CASE pc' # "accepted"
    <3>1. current' = current
      BY <1>2, <2>4 DEF PutWrite, PutValidate, PutPrevious, PutCurrent
    <3>2. \A h \in Gens \ {req} : dirs'[h] = dirs[h]
      BY <1>0, <1>2 DEF PutWrite, PutValidate, PutPrevious, PutCurrent, TypeOK
    <3>3. current # 0 => dirs'[current] = dirs[current]
      BY SMTT(30), <1>0, <2>1, <3>2 DEF TypeOK
    <3> QED
      BY <2>1, <2>2, <3>1, <3>3 DEF RunInv
  <2> QED
    BY <2>3, <2>4
<1>3. ASSUME PutAccepted \/ RolledBack \/ Revert \/ Hup PROVE RunInv'
  <2>1. gotsighup' /\ UNCHANGED <<seed, badconfig>>
    BY <1>3 DEF PutAccepted, RolledBack, Revert, Hup, disk
  <2> QED
    BY <2>1 DEF RunInv
<1>4. CASE Rollback
  <2>1. pc' = "rolled" /\ UNCHANGED <<seed, badconfig>>
    BY <1>4 DEF Rollback, memory
  <2> QED
    BY <2>1 DEF RunInv, Staging
<1>5. CASE Reload
  <2>1. PICK a \in Active : running' = a[1] /\ Load(a[2])
    BY <1>5 DEF Reload
  <2>2. UNCHANGED <<current, dirs, seed>>
    BY <1>5 DEF Reload, disk
  <2>3. ~badconfig'
    BY <2>1, ActiveIsLinked DEF Load, RunInv
  <2>4. current # 0 => loaded' = dirs[current]
    BY <2>1, <2>3, ActiveIsLinked DEF Load
  <2> QED
    BY <2>1, <2>2, <2>3, <2>4, ActiveIsLinked DEF RunInv
<1>6. CASE Boot
  <2>1. PICK a \in Active : /\ running' = a[1] /\ loaded' = a[2]
                            /\ badconfig' = (seed = "bad" \/ a[2] = Partial)
    BY <1>6 DEF Boot
  <2>2. UNCHANGED <<current, dirs, seed>>
    BY <1>6 DEF Boot, disk
  <2> QED
    BY <2>1, <2>2, ActiveIsLinked DEF RunInv
<1>7. CASE Crash
  <2>1. ~up' /\ UNCHANGED <<seed, badconfig>>
    BY <1>7 DEF Crash, disk
  <2> QED
    BY <2>1 DEF RunInv
<1>8. CASE EditSeed
  <2>1. seed' # "bad"
    BY <1>8 DEF EditSeed
  <2>2. UNCHANGED <<current, dirs, up, pc, running, loaded, gotsighup, badconfig>>
    BY <1>8 DEF EditSeed, memory
  <2> QED
    BY <2>1, <2>2 DEF RunInv
<1>9. CASE UNCHANGED vars
  BY <1>9 DEF vars, disk, memory, RunInv
<1> QED
  BY <1>1, <1>2, <1>3, <1>4, <1>5, <1>6, <1>7, <1>8, <1>9 DEF Next

\* An idle daemon with no reload pending monitors by the generation the
\* current link names and reports that number, through every interleaving of
\* deliveries, failing links, rollbacks, crashes and boots, as long as no
\* number is delivered twice and the seed is never one the parser refuses.
THEOREM RunsTheLinkedGeneration ==
  ~Redelivers /\ "bad" \notin SeedStates /\ Spec => []RunsWhatIsLinked
<1> SUFFICES ASSUME ~Redelivers, "bad" \notin SeedStates
             PROVE  Spec => []RunsWhatIsLinked
  OBVIOUS
<1>1. Init => RunInv
  BY DEF Init, RunInv
<1>2. LinkInv /\ LinkInv' /\ RunInv /\ [Next]_vars => RunInv'
  BY RunStep
<1>3. RunInv => RunsWhatIsLinked
  BY DEF RunInv, RunsWhatIsLinked, Idle
<1>4. Spec => []LinkInv
  BY LinkInvariant
<1> QED
  BY <1>1, <1>2, <1>3, <1>4, PTL DEF Spec

-----------------------------------------------------------------------------
\* No command is under way in a machine that is down.
DownIdle == ~up => pc = "idle"

\* DownIdle is an invariant.
LEMMA DownIdleInvariant == Spec => []DownIdle
<1>1. Init => DownIdle
  BY DEF Init, DownIdle
<1>2. DownIdle /\ [Next]_vars => DownIdle'
  BY SMTT(30) DEF DownIdle, Next, vars, disk, PutBegin, PutWrite, PutValidate, PutPrevious,
     PutCurrent, PutAccepted, Rollback, RolledBack, Revert, Reload, Hup, Crash, Boot,
     EditSeed, Idle
<1> QED
  BY <1>1, <1>2, PTL DEF Spec

(***************************************************************************)
(* What a rollback undoes.  The link is moved two steps before the number  *)
(* of the replaced generation is recorded, so the strengthening follows    *)
(* previous from PutPrevious to PutAccepted.                               *)
(***************************************************************************)
UndoInv ==
  /\ (pc \in {"idle", "write", "validate", "previous"} /\ undo > 0) => previous = undo
  /\ (pc \in {"current", "accepted"} /\ verdict # "nolink" /\ running > 0) =>
       previous = running
  /\ pc = "accepted" => req # running

\* No step breaks UndoInv.
LEMMA UndoStep == LinkInv /\ DownIdle /\ UndoInv /\ [Next]_vars => UndoInv'
<1> SUFFICES ASSUME LinkInv, DownIdle, UndoInv, [Next]_vars PROVE UndoInv'
  OBVIOUS
<1>1. ASSUME NEW g \in Gens, NEW c \in Contents, PutBegin(g, c) PROVE UndoInv'
  BY <1>1 DEF PutBegin, Idle, UndoInv, memory
<1>2. ASSUME PutWrite \/ PutValidate PROVE UndoInv'
  <2>1. pc \in {"write", "validate"} /\ pc' \in {"validate", "previous", "idle"}
    BY <1>2 DEF PutWrite, PutValidate, Reject
  <2>2. UNCHANGED <<previous, undo>>
    BY <1>2 DEF PutWrite, PutValidate, Reject, history
  <2> QED
    BY <2>1, <2>2 DEF UndoInv
<1>3. CASE PutPrevious
  <2>1. pc' = "current" /\ running' = running
    BY <1>3 DEF PutPrevious, memory
  <2>2. verdict' # "nolink" /\ running > 0 => previous' = running
    BY <1>3 DEF PutPrevious, PreviousTarget
  <2> QED
    BY <2>1, <2>2 DEF UndoInv
<1>4. CASE PutCurrent
  <2>1. req # running
    BY <1>4 DEF PutCurrent, LinkInv, Staging
  <2>2. UNCHANGED <<previous, running, req>>
    BY <1>4 DEF PutCurrent, memory
  <2>3. CASE pc' = "idle" /\ undo' = -1
    BY SMTT(30), <2>3 DEF UndoInv
  <2>4. CASE pc' = "accepted" /\ UNCHANGED history
    BY <1>4, <2>1, <2>2, <2>4 DEF PutCurrent, UndoInv, history
  <2> QED
    BY <1>4, <2>3, <2>4 DEF PutCurrent
<1>5. CASE PutAccepted
  <2>1. pc = "accepted" /\ pc' = "idle" /\ previous' = previous
    BY <1>5 DEF PutAccepted
  <2>2. undo' = IF verdict = "nolink" THEN -1 ELSE running
    BY <1>5, <2>1 DEF PutAccepted, UndoInv
  <2> QED
    BY SMTT(30), <2>1, <2>2 DEF UndoInv
<1>6. CASE Rollback
  BY <1>6 DEF Rollback, UndoInv
<1>7. ASSUME RolledBack \/ Revert PROVE UndoInv'
  <2>1. pc' = "idle" /\ undo' = -1
    BY <1>7 DEF RolledBack, Revert, Idle
  <2> QED
    BY SMTT(30), <2>1 DEF UndoInv
<1>8. ASSUME Reload \/ Hup \/ Boot \/ EditSeed \/ UNCHANGED vars PROVE UndoInv'
  <2>1. UNCHANGED <<previous, pc, req, undo, verdict>>
    BY <1>8 DEF Reload, Hup, Boot, EditSeed, vars, disk, history
  <2>2. running' = running \/ pc = "idle"
    BY <1>8 DEF Reload, Hup, Boot, EditSeed, vars, memory, Idle, DownIdle
  <2> QED
    BY <2>1, <2>2 DEF UndoInv
<1>9. CASE Crash
  <2>1. pc' = "idle" /\ previous' = previous /\ undo' = IF pc = "idle" THEN undo ELSE -1
    BY <1>9 DEF Crash, disk
  <2> QED
    BY SMTT(30), <2>1 DEF UndoInv
<1> QED
  BY <1>1, <1>2, <1>3, <1>4, <1>5, <1>6, <1>7, <1>8, <1>9 DEF Next

\* The generation that the last accepted PUT replaced is where a rollback
\* goes, until another command moves the links, when no number is delivered
\* twice.
THEOREM RollbackUndoesThePut == ~Redelivers /\ Spec => []UndoHeld
<1> SUFFICES ASSUME ~Redelivers PROVE Spec => []UndoHeld
  OBVIOUS
<1>1. Init => UndoInv
  BY SMTT(30) DEF Init, UndoInv
<1>2. UndoInv => UndoHeld
  BY DEF UndoInv, UndoHeld, Idle
<1>3. Spec => []LinkInv
  BY LinkInvariant
<1> QED
  BY <1>1, <1>2, <1>3, UndoStep, DownIdleInvariant, PTL DEF Spec

-----------------------------------------------------------------------------
(***************************************************************************)
(* A rejected delivery costs nothing: until its verdict, a delivery writes *)
(* only to a directory that nothing live names.                            *)
(***************************************************************************)
Untouched == pc \in {"write", "validate"} => Live = before

\* A change of directories that nothing live names does not change Live.
LEMMA LiveUnchanged ==
  ASSUME TypeOK, UNCHANGED <<current, previous, loaded>>, NEW g,
         g \notin {current, previous},
         \A h \in Gens \ {g} : dirs'[h] = dirs[h]
  PROVE  Live' = Live
BY SMTT(30), ConfGenAssumption DEF TypeOK, Gens, Live

\* No step breaks Untouched.
LEMMA UntouchedStep ==
  LinkInv /\ LinkInv' /\ DownIdle /\ Untouched /\ [Next]_vars => Untouched'
<1> SUFFICES ASSUME LinkInv, LinkInv', DownIdle, Untouched, [Next]_vars,
                    pc' \in {"write", "validate"}
             PROVE  Live' = before'
  BY DEF Untouched
<1>0. TypeOK
  BY DEF LinkInv
<1>1. ASSUME NEW g \in Gens, NEW c \in Contents, PutBegin(g, c)
      PROVE  Live' = before'
  <2>1. UNCHANGED <<current, previous, loaded>> /\ before' = Live
    BY <1>1 DEF PutBegin, memory
  <2>2. g \notin {current, previous}
    BY <1>1 DEF LinkInv, PutBegin, Staging
  <2>3. \A h \in Gens \ {g} : dirs'[h] = dirs[h]
    BY <1>0, <1>1 DEF PutBegin, TypeOK
  <2> QED
    BY <1>0, <2>1, <2>2, <2>3, LiveUnchanged
<1>2. CASE PutWrite
  <2>1. UNCHANGED <<current, previous, loaded, before>> /\ pc = "write"
    BY <1>2 DEF PutWrite, Reject, memory, history
  <2>2. req \notin {current, previous}
    BY <2>1 DEF LinkInv, Staging
  <2>3. \A h \in Gens \ {req} : dirs'[h] = dirs[h]
    BY <1>0, <1>2 DEF PutWrite, TypeOK
  <2>4. Live' = Live
    BY <1>0, <2>1, <2>2, <2>3, LiveUnchanged
  <2> QED
    BY <2>1, <2>4 DEF Untouched
<1>3. pc' # "idle" /\ pc' # "previous" /\ pc' # "current" /\ pc' # "accepted"
      /\ pc' # "rolled"
  OBVIOUS
<1>4. ASSUME EditSeed \/ UNCHANGED vars PROVE Live' = before'
  <2>1. UNCHANGED <<current, previous, dirs, loaded, before, pc>>
    BY <1>4 DEF EditSeed, vars, disk, memory, history
  <2> QED
    BY <2>1 DEF Untouched, Live
<1>5. ~(PutValidate \/ PutPrevious \/ PutCurrent \/ PutAccepted \/ Rollback
        \/ RolledBack \/ Revert \/ Reload \/ Hup \/ Crash)
  BY <1>3 DEF PutValidate, PutPrevious, PutCurrent, PutAccepted, Rollback,
     RolledBack, Revert, Reload, Hup, Crash, Reject, Idle
<1>6. ~Boot
  BY <1>3 DEF Boot, DownIdle
<1> QED
  BY <1>1, <1>2, <1>4, <1>5, <1>6 DEF Next

\* Property 3 of confgen.c for every number of generations, every content and
\* every fault: a delivery refused when it is written or validated leaves the
\* links, what they lead to and what is loaded as they were.
THEOREM RejectionCostsNothing == ~Redelivers /\ Spec => RejectCostsNothing
<1> SUFFICES ASSUME ~Redelivers PROVE Spec => RejectCostsNothing
  OBVIOUS
<1>1. Init => Untouched
  BY DEF Init, Untouched
<1>2. LinkInv /\ DownIdle /\ Untouched /\ [Next]_vars =>
        [(pc \in {"write", "validate"} /\ pc' = "idle" /\ verdict' = "rejected")
           => Live' = before]_vars
  <2> SUFFICES ASSUME LinkInv, DownIdle, Untouched, Next, pc \in {"write", "validate"},
                      pc' = "idle", verdict' = "rejected"
               PROVE  Live' = before
    BY DEF vars, disk, memory, history
  <2>1. up /\ TypeOK /\ Live = before
    BY DEF Untouched, DownIdle, LinkInv
  <2>2. ~Crash
    BY DEF Crash
  <2>3. PutWrite \/ PutValidate
    BY <2>1, <2>2 DEF Next, PutBegin, PutPrevious, PutCurrent, PutAccepted, Rollback,
       RolledBack, Revert, Reload, Hup, Boot, EditSeed, Idle
  <2>4. UNCHANGED <<current, previous, loaded>>
    BY <2>3 DEF PutWrite, PutValidate, memory
  <2>5. req \notin {current, previous}
    BY DEF LinkInv, Staging
  <2>6. \A h \in Gens \ {req} : dirs'[h] = dirs[h]
    BY <2>1, <2>3 DEF PutWrite, PutValidate, TypeOK
  <2> QED
    BY <2>1, <2>4, <2>5, <2>6, LiveUnchanged
<1>3. Spec => []LinkInv
  BY LinkInvariant
<1> QED
  BY <1>1, <1>2, <1>3, UntouchedStep, DownIdleInvariant, PTL
  DEF Spec, RejectCostsNothing
=============================================================================
