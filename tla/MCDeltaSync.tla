---------------------------- MODULE MCDeltaSync -----------------------------
(***************************************************************************)
(* Instances of DeltaSync: one client that watches one site of two, each   *)
(* with one host.                                                          *)
(***************************************************************************)
EXTENDS DeltaSync

CONSTANTS c, h1, h2

MCScope == [x \in {c} |-> {h1}]
=============================================================================
