------------------------------ MODULE MCOutage ------------------------------
(***************************************************************************)
(* Small instances of Outage for TLC.                                      *)
(***************************************************************************)
EXTENDS Outage

CONSTANT Threshold

MCMaxDown == [o \in Objects |-> Threshold]
MCBoth == [o \in Objects |-> {"UP", "DOWN"}]
MCMail == [o \in Objects |-> {"mail"}]
MCSpawn == [o \in Objects |-> {"spawn"}]
MCGlobalInterval == [o \in Objects |-> -1]
MCOwnInterval == [o \in Objects |-> 2]
=============================================================================
