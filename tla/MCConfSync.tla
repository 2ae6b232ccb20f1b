----------------------------- MODULE MCConfSync -----------------------------
(* Instances of ConfSync for TLC.                                          *)
EXTENDS ConfSync

MCFirst == {"a", "b"}

\* A configuration that swaps an object for another, and one that names none.
MCTrees == {MCFirst, {"a", "c"}, {}}
=============================================================================
