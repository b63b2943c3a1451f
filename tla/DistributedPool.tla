-------------------------- MODULE DistributedPool --------------------------
(***************************************************************************)
(* What the work sharing of dparallel_stack_recursion promises about the   *)
(* end of a run, with no word of tokens, requests or threads: processes    *)
(* hold problems and ship some of them to each other, and the end of the   *)
(* run is declared only when no process holds a problem and none is on its *)
(* way; it is then final.                                                  *)
(***************************************************************************)
EXTENDS Integers

CONSTANTS
    Proc,       \* the MPI processes
    First       \* First[p]: the problems p is given at the beginning

VARIABLES
    held,       \* held[p]: problems process p has
    flying,     \* flying[p]: problems on their way to p
    declared    \* somebody has decided that the run is over

dpVars == <<held, flying, declared>>

NothingLeft == \A p \in Proc : held[p] = 0 /\ flying[p] = 0

DPInit ==
    /\ held = First
    /\ flying = [p \in Proc |-> 0]
    /\ declared = FALSE

\* A problem is processed, and may leave children.
Work(p) ==
    /\ held[p] > 0
    /\ held'[p] >= held[p] - 1
    /\ \A q \in Proc \ {p} : held'[q] = held[q]
    /\ UNCHANGED <<flying, declared>>

Ship(p, q) ==
    \E n \in 1..held[p] :
        /\ held' = [held EXCEPT ![p] = @ - n]
        /\ flying' = [flying EXCEPT ![q] = @ + n]
        /\ UNCHANGED declared

Land(q) ==
    \E n \in 1..flying[q] :
        /\ flying' = [flying EXCEPT ![q] = @ - n]
        /\ held' = [held EXCEPT ![q] = @ + n]
        /\ UNCHANGED declared

Declare ==
    /\ NothingLeft
    /\ declared' = TRUE
    /\ UNCHANGED <<held, flying>>

DPNext ==
    \/ \E p \in Proc : Work(p) \/ Land(p)
    \/ \E p, q \in Proc : Ship(p, q)
    \/ Declare

DPSpec == DPInit /\ [][DPNext]_dpVars
=============================================================================
