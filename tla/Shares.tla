------------------------------- MODULE Shares -------------------------------
(***************************************************************************)
(* How many consecutive problems each rank gets: what the distribution of  *)
(* problems and the calls that use it have in common.                      *)
(***************************************************************************)
EXTENDS Integers, Sequences, FiniteSets, FiniteSetsExt, Functions

CONSTANT NProcs        \* MPI processes

ASSUME NProcsAssumption == NProcs \in Nat \ {0, 1}

Ranks == 0 .. NProcs - 1

(* redistributeOnElems                                                     *)
ByElems(n) == [r \in Ranks |-> (n \div NProcs) + (IF r < n % NProcs THEN 1 ELSE 0)]

\* the first problem of a rank; problems are numbered from 0
FirstOf(elems, r) == SumFunctionOnSet(elems, 0 .. r - 1)
=============================================================================
