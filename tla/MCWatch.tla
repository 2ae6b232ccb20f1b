------------------------------- MODULE MCWatch ------------------------------
(***************************************************************************)
(* Instances of Watch: a root with two dependents, or a chain of three.    *)
(***************************************************************************)
EXTENDS Watch

CONSTANTS r, a, b

MCStar == [o \in {r, a, b} |-> IF o = r THEN {a, b} ELSE {r}]
MCChain == [o \in {r, a, b} |-> CASE o = r -> {a} [] o = a -> {r, b} [] o = b -> {a}]
MCPair == [o \in {r, a} |-> IF o = r THEN {a} ELSE {r}]
=============================================================================
