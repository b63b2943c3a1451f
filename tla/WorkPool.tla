------------------------------ MODULE WorkPool ------------------------------
(***************************************************************************)
(* What a parallel_stack_recursion call promises its user, with no word of *)
(* threads or stacks: a pool of pending problems is emptied by taking a    *)
(* problem, processing it and putting its children back, until none is     *)
(* left; only then is the reduced result returned, and it combines every   *)
(* problem of the recursion exactly once.  A call in which a function of   *)
(* the user's body throws gives no result: it ends by rethrowing.          *)
(***************************************************************************)
EXTENDS Sequences

CONSTANTS
    Node,       \* the problems of the whole recursion
    Root,       \* the problem run() is given
    Children,   \* Children[n]: the sequence info.child(0, n), info.child(1, n), ...
    Subtree     \* Subtree[n]: n and everything below it

VARIABLES
    pending,    \* problems created and not yet processed
    processed,  \* problems processed
    outcome,    \* "running", "returned" or "rethrown"
    answer      \* the problems the returned value combines

wpVars == <<pending, processed, outcome, answer>>

ChildrenOf(n) == {Children[n][i] : i \in DOMAIN Children[n]}

WPInit ==
    /\ pending = {Root}
    /\ processed = {}
    /\ outcome = "running"
    /\ answer = {}

\* A problem is processed and replaced by its children.
Process(n) ==
    /\ outcome = "running"
    /\ n \in pending
    /\ n \notin processed
    /\ processed' = processed \cup {n}
    /\ pending' = (pending \ {n}) \cup ChildrenOf(n)
    /\ UNCHANGED <<outcome, answer>>

\* A problem the partitioner declines to split is solved whole.
ProcessSubtree(n) ==
    /\ outcome = "running"
    /\ n \in pending
    /\ Subtree[n] \cap processed = {}
    /\ processed' = processed \cup Subtree[n]
    /\ pending' = pending \ {n}
    /\ UNCHANGED <<outcome, answer>>

Return ==
    /\ outcome = "running"
    /\ pending = {}
    /\ outcome' = "returned"
    /\ answer' = processed
    /\ UNCHANGED <<pending, processed>>

Rethrow ==
    /\ outcome = "running"
    /\ outcome' = "rethrown"
    /\ UNCHANGED <<pending, processed, answer>>

WPNext ==
    \/ \E n \in Node : Process(n) \/ ProcessSubtree(n)
    \/ Return
    \/ Rethrow

WPSpec == WPInit /\ [][WPNext]_wpVars
=============================================================================
