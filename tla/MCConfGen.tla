----------------------------- MODULE MCConfGen ------------------------------
(***************************************************************************)
(* Instances of ConfGen: two contents that parse and one that does not.    *)
(***************************************************************************)
EXTENDS ConfGen

CONSTANTS a, b, bad
=============================================================================
