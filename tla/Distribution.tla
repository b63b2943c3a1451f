---------------------------- MODULE Distribution ----------------------------
(***************************************************************************)
(* DInfo::Distribution without PrioritizeDM: how many consecutive problems *)
(* of the decomposition each rank gets, the same number for all or, under  *)
(* Balance with UseCost, according to the costs of the problems.           *)
(*                                                                         *)
(* Costs are integers here; process_costs, which the code keeps beside     *)
(* elems_per_rank_, is worked out from it.                                 *)
(***************************************************************************)
EXTENDS Shares

CONSTANT MaxImbalance   \* BalanceParams::maxImbalance_, as a percentage

ASSUME MaxImbalanceAssumption == MaxImbalance \in Nat

\* the problems of a rank
Portion(elems, r) == FirstOf(elems, r) .. FirstOf(elems, r) + elems[r] - 1

Cost(costs, i) == costs[i + 1]
ProcessCost(costs, elems, r) == MapThenSumSet(LAMBDA i : Cost(costs, i), Portion(elems, r))

(* The first estimate: a rank is given problems until the next one takes it*)
(* above the average, except that the last rank takes all that are left.   *)
Estimate(costs) ==
    LET n == Len(costs)
        total == MapThenSumSet(LAMBDA i : costs[i], 1 .. n)
        slack == Min({200, n * MaxImbalance})      \* in units of 1 / (200 * n)
        over(cost) == 200 * n * (NProcs * cost - total) > NProcs * slack
        none == [r \in Ranks |-> 0]
        given[i \in 0 .. n] ==
            IF i = 0 THEN [cur |-> 0, elems |-> none]
            ELSE LET g == given[i - 1]
                     next == /\ g.elems[g.cur] > 0
                             /\ over(ProcessCost(costs, g.elems, g.cur) + costs[i])
                             /\ g.cur < NProcs - 1
                     cur == IF next THEN g.cur + 1 ELSE g.cur
                 IN  [cur |-> cur, elems |-> [g.elems EXCEPT ![cur] = @ + 1]]
    IN  given[n].elems

\* the rank of lo .. hi - 1 that costs most, the first one if there are several
Costliest(costs, elems, lo, hi) ==
    Min({r \in lo .. hi - 1 : \A q \in lo .. hi - 1 :
            ProcessCost(costs, elems, q) <= ProcessCost(costs, elems, r)})

\* problem i of rank m would cost its neighbor less than what m costs now
LowersByMoreVariant(costs, elems, m, neighbor, i) ==
    elems[m] > 0 /\ ProcessCost(costs, elems, neighbor) + 2 * Cost(costs, i)
                        < ProcessCost(costs, elems, m)
Lowers(costs, elems, m, neighbor, i) ==
    elems[m] > 0 /\ ProcessCost(costs, elems, neighbor) + Cost(costs, i)
                        < ProcessCost(costs, elems, m)

Moved(elems, m, neighbor) == [elems EXCEPT ![m] = @ - 1, ![neighbor] = @ + 1]

(* The costliest rank gives problems from its ends to its neighbors; when  *)
(* that does not help any more the ranks on both sides of it are settled,  *)
(* and if these give away problems themselves all begins again.            *)
RECURSIVE rec_redistribute(_, _, _, _, _)
rec_redistribute(costs, elems, lo, hi, success) ==
    IF hi - lo <= 1 THEN [elems |-> elems, success |-> success]
    ELSE
    LET m == Costliest(costs, elems, lo, hi)
        first == FirstOf(elems, m)
        last == first + elems[m] - 1
    IN  IF elems[m] = 1 THEN [elems |-> elems, success |-> success]
        ELSE IF m > lo /\ Lowers(costs, elems, m, m - 1, first)
             THEN rec_redistribute(costs, Moved(elems, m, m - 1), lo, hi, TRUE)
        ELSE IF m < hi - 1 /\ Lowers(costs, elems, m, m + 1, last)
             THEN rec_redistribute(costs, Moved(elems, m, m + 1), lo, hi, TRUE)
        ELSE LET left == rec_redistribute(costs, elems, lo, m, FALSE)
                 right == rec_redistribute(costs, left.elems, m + 1, hi, FALSE)
             IN  IF left.success \/ right.success
                 THEN rec_redistribute(costs, right.elems, lo, hi, success)
                 ELSE [elems |-> right.elems, success |-> success]

(* redistribute at the last level, for problems with costs               *)
redistribute(costs) == rec_redistribute(costs, Estimate(costs), 0, NProcs, FALSE).elems
=============================================================================
