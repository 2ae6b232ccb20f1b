----------------------------- MODULE CheckLife ------------------------------
(***************************************************************************)
(* What a queued check promises the rest of sysmond, whatever it tests: an *)
(* object has at most one check; the check runs, answers, and its answer   *)
(* stands until it is handed to handle_retval(), except that killafter may *)
(* overrule it with "timed out".  A reload or a restart drops every check, *)
(* answered or not, and nothing else drops one that has not answered.      *)
(* Every check ends.                                                       *)
(***************************************************************************)
CONSTANTS Objects,      \* what is monitored
          Answers,      \* what a check may answer
          NoAnswer,     \* and what stands for none yet
          TimedOut      \* the verdict of killafter

VARIABLES status,       \* of each object's check
          answer        \* of each object's check

vars == <<status, answer>>

Init == status = [o \in Objects |-> "idle"] /\ answer = [o \in Objects |-> NoAnswer]

Queue(o) == status[o] = "idle" /\ status'[o] = "running" /\ answer'[o] = NoAnswer

Conclude(o) == status[o] = "running" /\ status'[o] = "answered" /\ answer'[o] \in Answers

Overrule(o) == status[o] # "idle" /\ status'[o] = "answered" /\ answer'[o] = TimedOut

Hand(o) == status[o] = "answered" /\ status'[o] = "idle" /\ answer'[o] = NoAnswer

Stay(o) == status'[o] = status[o] /\ answer'[o] = answer[o]

Move(o) == Queue(o) \/ Conclude(o) \/ Overrule(o) \/ Hand(o) \/ Stay(o)

Wipe == \A o \in Objects : status'[o] = "idle" /\ answer'[o] = NoAnswer

Next == Wipe \/ \A o \in Objects : Move(o)

Ends == \A o \in Objects : status[o] # "idle" ~> status[o] = "idle"

\* What never goes wrong, and with it that every check ends.
Safety == Init /\ [][Next]_vars

Spec == Safety /\ Ends
=============================================================================
