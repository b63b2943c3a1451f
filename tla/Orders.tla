------------------------------- MODULE Orders -------------------------------
(* The order in which the code goes through a set of numbers: std::set and *)
(* the loops over the threads both ascend.                                 *)
EXTENDS Integers, FiniteSets

Below(c, S) == {d \in S : d < c}

Ascending(S) ==
    [i \in 1 .. Cardinality(S) |-> CHOOSE c \in S : Cardinality(Below(c, S)) = i - 1]
=============================================================================
