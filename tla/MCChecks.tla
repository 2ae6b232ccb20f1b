------------------------------ MODULE MCChecks ------------------------------
(***************************************************************************)
(* Two objects: every kind of check on its own, and the pairs in which one *)
(* check can get in the way of another, by descriptor or by echo reply.    *)
(***************************************************************************)
EXTENDS Checks

MCSlots == {1, 2}
MCFds == {1, 2}

Alone == {[i \in MCSlots |-> IF i = 1 THEN k ELSE "none"] : k \in Kinds}

Pairs == {<<"sysm", "tcp">>}

MCFleets == Alone \cup Pairs
=============================================================================
