------------------------------- MODULE Lists --------------------------------
(***************************************************************************)
(* sysmond's linked lists are sequences, and a walk that skips or unlinks  *)
(* some of the entries is a Filter.                                        *)
(***************************************************************************)
EXTENDS Integers, Sequences, FiniteSets, Functions

\* What a walk of s has kept after each of its steps, when it keeps S.
Walk(s, S) ==
  LET kept[n \in 0..Len(s)] ==
        IF n = 0 THEN <<>>
        ELSE IF s[n] \in S THEN Append(kept[n - 1], s[n]) ELSE kept[n - 1]
  IN  kept

\* The members of s that are in S, in their order.
Filter(s, S) == Walk(s, S)[Len(s)]

\* The lists that hold the members of S, each of them once.
Arrangements(S) == Injection(1..Cardinality(S), S)
=============================================================================
