------------------------------ MODULE MCViewRuns ------------------------------
(***************************************************************************)
(* An instance of ViewRuns for TLC: four calls of any kind, three of them   *)
(* made by one agent.                                                       *)
(***************************************************************************)
EXTENDS ViewRuns, TLC

CONSTANTS c1, c2, c3, c4, a1, a2, n1

Owners == [c \in Call |-> IF c = c4 THEN a2 ELSE a1]
Requests == {[as |-> "completed", note |-> n1], [as |-> "failed", note |-> None]}
SameAgent == Permutations({c1, c2, c3})

=============================================================================
