--------------------------- MODULE MCCallSequence ---------------------------
(* The programs that CallSequence is checked with, on three processes.     *)
EXTENDS BalancedCalls

Equal(n) == [i \in 1 .. n |-> 1]

Calls(costs, useCosts, infos, sources, ends) ==
    {c \in [costs : costs, useCost : useCosts, info : infos, source : sources, chunked : BOOLEAN,
            inputs : BOOLEAN, collective : BOOLEAN, end : ends] :
        c.end = "none" =>
            ~c.inputs /\ ~c.chunked /\ ~c.collective /\ Len(c.costs) <= NProcs}

AnyEnd == {"barrier", "bcast", "none"}
AnySource == {"root", "replicated", "replicate"}

(* Two calls, each with an Info of its own.                                *)
Pairs ==
    {<<a, b>> : a \in Calls({Equal(1), Equal(4)}, {FALSE}, {1}, {"root"}, AnyEnd),
                b \in Calls({Equal(2), Equal(4)}, {FALSE}, {2}, AnySource, {"barrier"})}

(* Two calls with one Info: the second finds the problems where the first  *)
(* left them.  With one problem two ranks have none, which is all right if *)
(* the input of the first call was in every rank.                          *)
Reused(n) ==
    {<<a, b>> : a \in Calls({Equal(n)}, {FALSE}, {1}, AnySource, AnyEnd),
                b \in Calls({Equal(n)}, {FALSE}, {1}, {"root"}, {"barrier"})}

(* Three calls with two Infos: the third finds those of the first.         *)
BackToTheFirst ==
    {<<a, b, a>> : a \in Calls({Equal(3)}, {FALSE}, {1}, {"root"}, AnyEnd),
                   b \in Calls({Equal(1)}, {FALSE}, {2}, {"root"}, {"barrier"})}

(* A call whose problems have costs, with shares of two, one and one       *)
(* problems, one, one and three, and three, one and none.                  *)
WithCosts ==
    {<<a>> : a \in Calls({<<1, 1, 2, 3>>, <<4, 3, 1, 1, 1>>, <<1, 1, 1, 8>>}, {TRUE}, {1},
                         {"root"}, {"barrier"})}

(* Calls that only share out problems, with many different costs.          *)
CostsOnly ==
    {<<[costs |-> costs, useCost |-> TRUE, info |-> 1, source |-> "replicated",
        chunked |-> FALSE, inputs |-> FALSE, collective |-> FALSE, end |-> "none"]>> :
        costs \in [1 .. 4 -> {0, 1, 2, 5}] \cup [1 .. 6 -> {1, 3}]}

MCPrograms ==
    {p \in Pairs \cup Reused(1) \cup Reused(3) \cup Reused(4) \cup BackToTheFirst \cup WithCosts :
        KeepsRoots(p) /\ \A k \in DOMAIN p : Full(p[k])} \cup CostsOnly

(* A chunked call that leaves a rank without problems, for there are few or*)
(* one of them costs more than the others together, then another call.     *)
EmptyRankFirst ==
    {<<a, b>> : a \in {c \in Calls({Equal(1)}, {FALSE}, {1}, {"root"}, {"barrier"})
                             \cup Calls({<<1, 1, 1, 8>>}, {TRUE}, {1}, {"root"}, {"barrier"}) :
                          c.chunked /\ ~c.inputs /\ ~c.collective},
                b \in {c \in Calls({Equal(4)}, {FALSE}, {2}, {"root"}, {"barrier"}) :
                          c.chunked /\ ~c.inputs /\ ~c.collective}}

(* The programs that RootsKept excludes: a worker has no problems in the   *)
(* first call, and the second is given the same Info.                      *)
RootsLost == {p \in Reused(1) : ~KeepsRoots(p) /\ \A k \in DOMAIN p : Full(p[k])}
=============================================================================
