--------------------------- MODULE BalancedCalls ---------------------------
(***************************************************************************)
(* The calls of CallSequence with the shares that Distribution works out   *)
(* from costs: ByCosts is redistribute.                                    *)
(***************************************************************************)
EXTENDS CallSequence, Distribution

(* The shares of a call with costs: every problem belongs to one rank, rank*)
(* 0 has some, and the rank that costs most cannot become cheaper by giving*)
(* a problem to a neighbor, after all the moves, the recursion on both     *)
(* sides and the retries of rec_redistribute.                              *)
SharesSettled ==
    \A k \in DOMAIN program :
        LET costs == program[k].costs
            elems == shares[k]
            m == Costliest(costs, elems, 0, NProcs)
            costOf(r) == ProcessCost(costs, elems, r)
        IN  /\ FirstOf(elems, NProcs) = Len(costs)
            /\ elems[0] > 0
            /\ program[k].useCost /\ Len(costs) >= NProcs /\ elems[m] > 0 =>
                  LET first == FirstOf(elems, m)
                      last == first + elems[m] - 1
                  IN  /\ m > 0 => costOf(m - 1) + Cost(costs, first) >= costOf(m)
                      /\ m < NProcs - 1 => costOf(m + 1) + Cost(costs, last) >= costOf(m)
=============================================================================
