---------------------------- MODULE DataMovement ----------------------------
(***************************************************************************)
(* The decomposition of dparallel_recursion under PrioritizeDM             *)
(* (DInfo::distributed_create_tree and distributed_reduce_tree): the       *)
(* problem starts in rank 0; level after level every rank splits its own   *)
(* subproblems and the ranks that then have more than their share send the *)
(* rest to the ranks that have less; after the local recursions the results*)
(* (and the inputs, with GatherInput) travel the same way back, and each   *)
(* rank reduces what it owned.  No rank is told what the others do: sender *)
(* and receiver work out the whole plan of a level on their own.           *)
(*                                                                         *)
(* A problem is the path of child numbers that leads to it from the root;  *)
(* the result of a problem that was computed from the right parts, in the  *)
(* right order, is its path again.                                         *)
(***************************************************************************)
EXTENDS Integers, Sequences, FiniteSets, FiniteSetsExt, Functions

CONSTANTS
    Cases,            \* the calls to explore: arity, processes, base cases, behavior
    MaxImbalance,     \* BalanceParams::maxImbalance_, as a percentage
    MaxElemsPerRank   \* BalanceParams::maxElemsPerRank_

\* what travels back: results only, results and inputs (GatherInput), inputs (void)
Moves == {<<"result">>, <<"result", "input">>, <<"input">>}

ASSUME CasesAssumption ==
    \A c \in Cases :
        /\ c.nchildren \in Nat \ {0, 1} /\ c.nprocs \in Nat \ {0, 1}
        /\ c.moves \in Moves /\ c.balance \in BOOLEAN
        /\ c.buffered \in BOOLEAN           \* MPI_Send returns before its receive
        /\ c.bases \subseteq Seq(0 .. c.nchildren - 1)

VARIABLES
    conf,      \* the call: what every rank is given, and what MPI does
    pc,        \* rank -> what it does next
    nglobal,   \* rank -> nglobal_elems_ of its Distribution
    tree,      \* rank -> datatree, a sequence of levels (functions from 0)
    depth,     \* rank -> cur_level_depth of the reduction (from 1)
    xfer,      \* rank -> the loop of sends or receives it is in
    results,   \* rank -> local_results
    unsaved,   \* rank -> needs_saving_buffer: no reception has been prepared yet
    ran,       \* rank -> the problems it ran start_recursion on
    chan       \* <<from, to>> -> messages in flight, in order

vars == <<conf, pc, nglobal, tree, depth, xfer, results, unsaved, ran, chan>>

N == conf.nchildren
P == conf.nprocs
Ranks == 0 .. P - 1

(* What a cell of the tree holds besides a problem, and a result gone bad. *)
HOLE == <<-1>>    \* general_reference_wrapper::empty()
BLANK == <<-2>>   \* T()
NONE == <<-3>>    \* a default constructed result
WRONG == <<-4>>

Cell(id) == [id |-> id, done |-> FALSE]

(* is_base: T() is a base case too.                                        *)
IsBase(id) == id = BLANK \/ id \in conf.bases

GatherInput == conf.moves # <<"result">>
RecvResults == conf.moves # <<"input">>

---------------------------------------------------------------------------
(* Distribution: the shares of a level, and who sends what to whom.        *)

\* nLocalElems(rank, false): the block distribution of g problems over p ranks
NLocalLastVariant(i, g, p) == (g \div p) + (IF i >= p - (g % p) THEN 1 ELSE 0)
NLocal(i, g, p) == (g \div p) + (IF i < g % p THEN 1 ELSE 0)

\* elems_per_rank_: what a rank has once its problems of the previous level are split
Have(i, g, n, p) == n * NLocal(i, g \div n, p)

\* next_elems_per_rank_: what it is due at this level
Due(i, g, p) == NLocal(i, g, p)

HaveOf(i, g) == Have(i, g, N, P)
DueOf(i, g) == Due(i, g, P)

Surplus(i, g) == HaveOf(i, g) - DueOf(i, g)

Surpluses(g) == [i \in Ranks |-> Surplus(i, g)]
Lacks(g) == [i \in Ranks |-> -Surplus(i, g)]

\* the first rank from a on whose need, added to those before it, exceeds amount
Locate(amount, a, need) ==
    LET before(i) == SumFunctionOnSet(need, a .. i - 1)
        i == Min({j \in a .. P - 1 : before(j + 1) > amount})
    IN  [rank |-> i, moved |-> amount - before(i)]

destination_unshiftedVariant(r, g) ==
    LET firstReceiver == Min({i \in r + 1 .. P - 1 : Surplus(i, g) < 0})
    IN  Locate(0, firstReceiver, Lacks(g))

\* where rank r sends its first surplus problem, and how many the receiver got before
destination_first_external_problem(r, g) ==
    LET previous_excess == SumFunctionOnSet(Surpluses(g), 0 .. r - 1)
        firstReceiver == Min({i \in r + 1 .. P - 1 : Surplus(i, g) < 0})
    IN  Locate(previous_excess, firstReceiver, Lacks(g))

\* from whom rank r receives its first problem, and how many the sender sent before
source_first_external_problem(r, g) ==
    LET firstReceiver == Min({i \in 0 .. P - 1 : Surplus(i, g) < 0})
        previously_sent == SumFunctionOnSet(Lacks(g), firstReceiver .. r - 1)
    IN  Locate(previously_sent, 0, Surpluses(g))

\* rank i is served after k problems moved between it and its peer
finished_receivesLateVariant(i, g, k) == HaveOf(i, g) + k > DueOf(i, g)
finished_receives(i, g, k) == HaveOf(i, g) + k >= DueOf(i, g)
finished_sends(i, g, k) == HaveOf(i, g) - k <= DueOf(i, g)

(* isBalanced_ after commit_progress_DMdistr, with computeBalanceOnElems   *)
(* under Balance.                                                          *)
Balanced(g) ==
    LET spread == IF g % P = 0 THEN 0 ELSE 1
    IN  /\ g >= P
        /\ \/ ~conf.balance
           \/ spread * 100 <= MaxImbalance * (g \div P)
           \/ g >= MaxElemsPerRank * P

---------------------------------------------------------------------------
(* The loop of sends or of receives of one level.                          *)

Idle == [pos |-> 0, last |-> 0, peer |-> 0, moved |-> 0, part |-> 1]

\* a rank moves what differs between what it has and what it is due
StartXfer(r, g) ==
    LET first == IF Surplus(r, g) > 0 THEN destination_first_external_problem(r, g)
                                      ELSE source_first_external_problem(r, g)
    IN  IF Surplus(r, g) = 0 THEN Idle
        ELSE [pos |-> Min({HaveOf(r, g), DueOf(r, g)}),
              last |-> Max({HaveOf(r, g), DueOf(r, g)}),
              peer |-> first.rank, moved |-> first.moved, part |-> 1]

Back(r) == pc[r] = "up"
Parts(r) == IF Back(r) THEN conf.moves ELSE <<"input">>
Part(r) == Parts(r)[xfer[r].part]

\* the ranks with a surplus send on the way down and receive on the way back
Sender(r) == (Surplus(r, nglobal[r]) > 0) # Back(r)

Moving(r) == pc[r] \in {"down", "up"} /\ xfer[r].pos < xfer[r].last
Moved(r) == xfer[r].pos = xfer[r].last

\* previous_excess / previously_sent and the peer, once a part of an item is through
Advance(r) ==
    LET x == xfer[r]
        g == nglobal[r]
        served == IF Surplus(r, g) > 0 THEN finished_receives(x.peer, g, x.moved + 1)
                                       ELSE finished_sends(x.peer, g, x.moved + 1)
    IN  IF x.part < Len(Parts(r)) THEN [x EXCEPT !.part = @ + 1]
        ELSE [pos |-> x.pos + 1, last |-> x.last, part |-> 1,
              peer |-> IF served THEN x.peer + 1 ELSE x.peer,
              moved |-> IF served THEN 0 ELSE x.moved + 1]

\* MPI_Send may return at once or wait for its receive
Returned(r) == conf.buffered \/ \A s \in Ranks : chan[r, s] = <<>>

\* the items that change rank at a level, numbered: those that s has, or lacks
Slots(s, g) ==
    LET items == IF Surplus(s, g) > 0 THEN Surpluses(g) ELSE Lacks(g)
        first == SumFunctionOnSet(items, {i \in 0 .. s - 1 : items[i] > 0})
    IN  first .. first + items[s] - 1

\* the place of the current item among all those that change rank at this level
Slot(r) ==
    LET g == nglobal[r]
    IN  Min(Slots(r, g)) + xfer[r].pos - Min({HaveOf(r, g), DueOf(r, g)})

---------------------------------------------------------------------------
Init ==
    /\ conf \in Cases
    /\ pc = [r \in Ranks |-> "split"]
    /\ nglobal = [r \in Ranks |-> 1]
    /\ tree = [r \in Ranks |-> IF r = 0 THEN << [i \in {0} |-> Cell(<<>>)] >> ELSE <<>>]
    /\ depth = [r \in Ranks |-> 0]
    /\ xfer = [r \in Ranks |-> Idle]
    /\ results = [r \in Ranks |-> <<>>]
    /\ unsaved = [r \in Ranks |-> RecvResults]
    /\ ran = [r \in Ranks |-> <<>>]
    /\ chan = [p \in Ranks \X Ranks |-> <<>>]

(* ParallelCreateTreeHelper: a base case moves down to the first of its    *)
(* NCHILDREN cells; the others keep the T() they were created with.        *)
ChildCopiedVariant(cell, k) ==
    IF ~IsBase(cell.id) THEN Cell(Append(cell.id, k)) ELSE cell

Child(cell, k) ==
    IF ~IsBase(cell.id) THEN Cell(Append(cell.id, k))
    ELSE IF k = 0 THEN cell ELSE Cell(BLANK)

(* progress_DMdistr, then the decomposition of every local problem; a base *)
(* case leaves a hole.                                                     *)
Split(r) ==
    LET g == N * nglobal[r]
        pre == NLocal(r, nglobal[r], P)
        size == Max({HaveOf(r, g), DueOf(r, g)})
        lv == tree[r][Len(tree[r])]
        left == [i \in DOMAIN lv |->
                    IF i < pre /\ IsBase(lv[i].id) THEN Cell(HOLE) ELSE lv[i]]
        next == [p \in 0 .. size - 1 |->
                    IF p < N * pre THEN Child(lv[p \div N], p % N) ELSE Cell(BLANK)]
    IN  /\ pc[r] = "split"
        /\ ~Balanced(nglobal[r])
        /\ nglobal' = [nglobal EXCEPT ![r] = g]
        /\ tree' = [tree EXCEPT ![r] =
                       IF pre > 0 THEN Append([@ EXCEPT ![Len(@)] = left], next)
                       ELSE IF size > 0 THEN Append(@, next) ELSE @]
        /\ xfer' = [xfer EXCEPT ![r] = StartXfer(r, g)]
        /\ pc' = [pc EXCEPT ![r] = "down"]
        /\ UNCHANGED <<conf, depth, results, unsaved, ran, chan>>

(* Where a problem that may have left a hole behind is now.                *)
OccupantOfLevelVariant(r, d, i) == tree[r][d][i]

Occupant(r, d, i) ==
    LET chain == {e \in d .. Len(tree[r]) : i * N ^ (e - d) \in DOMAIN tree[r][e]
                    /\ tree[r][e][i * N ^ (e - d)].id # HOLE}
    IN  tree[r][Min(chain)][i * N ^ (Min(chain) - d)]

(* internal_mpi::send of the next problem, or result.                      *)
Send(r) ==
    LET x == xfer[r]
        level == IF Back(r) THEN depth[r] ELSE Len(tree[r])
        cell == IF Part(r) = "result" THEN Cell(results[r][x.pos])
                ELSE IF Back(r) THEN Occupant(r, level, x.pos)
                ELSE tree[r][level][x.pos]
        msg == [part |-> Part(r), cell |-> cell,
                at |-> <<Back(r), nglobal[r], Slot(r)>>]
    IN  /\ Moving(r)
        /\ Sender(r)
        /\ Returned(r)
        /\ chan' = [chan EXCEPT ![<<r, x.peer>>] = Append(@, msg)]
        /\ xfer' = [xfer EXCEPT ![r] = Advance(r)]
        /\ UNCHANGED <<conf, pc, nglobal, tree, depth, results, unsaved, ran>>

(* internal_mpi::recv into the cell, or the result, of the next position.  *)
Recv(r) ==
    LET x == xfer[r]
        level == IF Back(r) THEN depth[r] ELSE Len(tree[r])
        msg == Head(chan[x.peer, r])
        cell == IF msg.part = Part(r) THEN msg.cell ELSE Cell(WRONG)
    IN  /\ Moving(r)
        /\ ~Sender(r)
        /\ chan[x.peer, r] # <<>>
        /\ chan' = [chan EXCEPT ![<<x.peer, r>>] = Tail(@)]
        /\ IF Part(r) = "result"
           THEN /\ results' = [results EXCEPT ![r][x.pos] = cell.id]
                /\ UNCHANGED tree
           ELSE /\ tree' = [tree EXCEPT ![r][level][x.pos] =
                               IF @.id = HOLE THEN Cell(WRONG) ELSE cell]
                /\ UNCHANGED results
        /\ xfer' = [xfer EXCEPT ![r] = Advance(r)]
        /\ UNCHANGED <<conf, pc, nglobal, depth, unsaved, ran>>

(* The level is complete: a rank that sent drops what it gave away, unless *)
(* the inputs are to come back (commit_progress_DMdistr).                  *)
Commit(r) ==
    LET g == nglobal[r]
        lv == tree[r][Len(tree[r])]
        kept == [i \in 0 .. DueOf(r, g) - 1 |-> lv[i]]
    IN  /\ pc[r] = "down"
        /\ Moved(r)
        /\ Returned(r)
        /\ tree' = [tree EXCEPT ![r] =
                       IF Surplus(r, g) > 0 /\ ~GatherInput THEN [@ EXCEPT ![Len(@)] = kept] ELSE @]
        /\ pc' = [pc EXCEPT ![r] = "split"]
        /\ UNCHANGED <<conf, nglobal, depth, xfer, results, unsaved, ran, chan>>

(* ImplRun::run: start_recursion on every local problem.                   *)
Run(r) ==
    LET n == NLocal(r, nglobal[r], P)
        lv == tree[r][Len(tree[r])]
    IN  /\ pc[r] = "split"
        /\ Balanced(nglobal[r])
        /\ results' = [results EXCEPT ![r] =
                          IF RecvResults THEN [i \in 0 .. n - 1 |-> lv[i].id] ELSE <<>>]
        /\ tree' = [tree EXCEPT ![r][Len(tree[r])] =
                       [i \in DOMAIN lv |-> [lv[i] EXCEPT !.done = i < n \/ @]]]
        /\ ran' = [ran EXCEPT ![r] = [i \in 1 .. n |-> lv[i - 1].id]]
        /\ depth' = [depth EXCEPT ![r] = Len(tree[r])]
        /\ pc' = [pc EXCEPT ![r] = "gather"]
        /\ UNCHANGED <<conf, nglobal, xfer, unsaved, chan>>

(* prepare_reception: the room a rank needs for the results of a level.    *)
RoomOfLevelVariant(r, g) == DueOf(r, g)
Room(r, g) == HaveOf(r, g)

(* distributed_reduce_tree, the start of a level: progress_DMred, and room *)
(* for the results, which is made only before the first reception of all.  *)
Gather(r) ==
    LET g == nglobal[r]
        receives == Surplus(r, g) > 0
        sends == Surplus(r, g) < 0
    IN  /\ pc[r] = "gather"
        /\ g > 1
        /\ xfer' = [xfer EXCEPT ![r] = StartXfer(r, g)]
        /\ results' = [results EXCEPT ![r] =
                          IF receives /\ unsaved[r]
                          THEN [i \in 0 .. Room(r, g) - 1 |->
                                   IF i \in DOMAIN @ THEN @[i] ELSE NONE]
                          ELSE @]
        /\ unsaved' = [unsaved EXCEPT ![r] = @ /\ ~receives /\ ~sends]
        /\ pc' = [pc EXCEPT ![r] = "up"]
        /\ UNCHANGED <<conf, nglobal, tree, depth, ran, chan>>

(* body.post on a problem and the results from position i on.              *)
Post(id, res, i) ==
    IF \A k \in 0 .. N - 1 : res[i + k] = Append(id, k) THEN id ELSE WRONG

(* ParallelReduceTreeHelper: the hole a base case left takes the result    *)
(* from below.                                                             *)
ReducedHolesVariant(id, res, i) == Post(id, res, i)
Reduced(id, res, i) == IF id = HOLE THEN res[i] ELSE Post(id, res, i)

(* cur_level_depth goes up in the ranks that owned problems of that level. *)
DepthAbove(r, n) == IF n = 0 THEN depth[r] ELSE depth[r] - 1

(* commit_progress_DMred and distributed_reduction: a rank that owned      *)
(* problems of the level above reduces each of them.  A problem whose      *)
(* processed parts are all back is complete in this rank.                  *)
Reduce(r) ==
    LET g == nglobal[r] \div N
        n == NLocal(r, g, P)
        up == DepthAbove(r, n)
        lv == tree[r][up]
        complete(i) == \A k \in 0 .. N - 1 :
                          LET c == Occupant(r, depth[r], N * i + k)
                          IN  c.done /\ c.id = Append(lv[i].id, k)
    IN  /\ pc[r] = "up"
        /\ Moved(r)
        /\ Returned(r)
        /\ nglobal' = [nglobal EXCEPT ![r] = g]
        /\ depth' = [depth EXCEPT ![r] = up]
        /\ IF n = 0 THEN UNCHANGED <<results, tree>>
           ELSE /\ results' = [results EXCEPT ![r] =
                                  [i \in DOMAIN @ |->
                                     IF i < n THEN Reduced(lv[i].id, results[r], N * i)
                                     ELSE NONE]]
                /\ tree' = [tree EXCEPT ![r][up] =
                               [i \in DOMAIN lv |->
                                  IF i < n /\ lv[i].id # HOLE /\ GatherInput
                                  THEN [lv[i] EXCEPT !.done = complete(i)] ELSE lv[i]]]
        /\ pc' = [pc EXCEPT ![r] = "gather"]
        /\ UNCHANGED <<conf, xfer, unsaved, ran, chan>>

Finish(r) ==
    /\ pc[r] = "gather"
    /\ nglobal[r] = 1
    /\ pc' = [pc EXCEPT ![r] = "done"]
    /\ UNCHANGED <<conf, nglobal, tree, depth, xfer, results, unsaved, ran, chan>>

Step(r) == \/ Split(r) \/ Send(r) \/ Recv(r) \/ Commit(r)
           \/ Run(r) \/ Gather(r) \/ Reduce(r) \/ Finish(r)

AllDone == \A r \in Ranks : pc[r] = "done"

Terminated == AllDone /\ UNCHANGED vars

Next == (\E r \in Ranks : Step(r)) \/ Terminated

Spec == Init /\ [][Next]_vars

---------------------------------------------------------------------------
(* At every level the ranks with a surplus come before those that lack     *)
(* problems: the asserts and the loops of destination_first_external_problem*)
(* and source_first_external_problem take it for granted.                  *)
SendersFirst ==
    \A r \in Ranks : \A i, j \in Ranks :
        Surplus(i, nglobal[r]) > 0 /\ Surplus(j, nglobal[r]) < 0 => i < j

(* No rank is told the plan of a level, yet both ends of every transfer    *)
(* agree on it (destination_first_external_problem against                 *)
(* source_first_external_problem): number the items that change rank at a  *)
(* level; the peer a rank turns to is the one that has, or lacks, the item *)
(* of that number, and what arrives is that item, of that level, although  *)
(* all messages carry the same tag and ranks may be levels apart.          *)
PlansAgree ==
    /\ \A r \in Ranks : Moving(r) =>
          LET s == xfer[r].peer
              g == nglobal[r]
          IN  /\ s \in Ranks
              /\ Surplus(s, g) * Surplus(r, g) < 0
              /\ Slot(r) \in Slots(s, g)
              /\ ~Sender(r) /\ chan[s, r] # <<>> =>
                    /\ Head(chan[s, r]).part = Part(r)
                    /\ Head(chan[s, r]).at = <<Back(r), g, Slot(r)>>
    /\ AllDone => \A p \in Ranks \X Ranks : chan[p] = <<>>

(* While ranks split and exchange problems at their own pace, every problem*)
(* that is still to be solved is in exactly one place: a rank, a message,  *)
(* or the list of those a rank has run.                                    *)
Held(r) ==
    LET g == nglobal[r]
        lv == tree[r][Len(tree[r])]
        owned == CASE pc[r] = "split" -> 0 .. DueOf(r, g) - 1
                   [] pc[r] = "down" /\ Sender(r) ->
                        0 .. DueOf(r, g) - 1 \cup xfer[r].pos .. HaveOf(r, g) - 1
                   [] pc[r] = "down" /\ ~Sender(r) ->
                        0 .. (IF Surplus(r, g) = 0 THEN HaveOf(r, g) ELSE xfer[r].pos) - 1
    IN  IF pc[r] \in {"split", "down"}
        THEN {<<r, r, i, lv[i].id>> : i \in owned}
        ELSE {<<r, r, i, ran[r][i]>> : i \in DOMAIN ran[r]}

InFlight ==
    UNION {{<<p[1], p[2], i, chan[p][i].cell.id>> : i \in {j \in DOMAIN chan[p] : ~chan[p][j].at[1]}}
           : p \in Ranks \X Ranks}

Covers(id, path) == id # BLANK /\ SubSeq(path, 1, Len(id)) = id /\ Len(id) <= Len(path)

Places == InFlight \cup UNION {Held(r) : r \in Ranks}

ProblemsPartitioned ==
    LET deepest == Max({Len(h[4]) : h \in Places})
    IN  \A path \in [1 .. deepest -> 0 .. N - 1] :
            Cardinality({h \in Places : Covers(h[4], path)}) = 1

(* distributed_reduce_tree makes room for results once, before the first   *)
(* level where the rank receives: no later level needs more.               *)
ResultsFit ==
    \A r \in Ranks : Moving(r) /\ ~Sender(r) /\ Part(r) = "result" =>
                        xfer[r].pos \in DOMAIN results[r]

(* Rank 0 ends up with the result of the whole problem: every post was     *)
(* called with the results of its own children, in their order, base cases *)
(* in the middle of the decomposition included.                            *)
RootResultRight == pc[0] = "done" /\ RecvResults => results[0][0] = <<>>

(* With GatherInput rank 0 gets back the problem with all its parts        *)
(* processed, wherever they were.                                          *)
InputsComeHome == pc[0] = "done" /\ GatherInput => Occupant(0, 1, 0) = [id |-> <<>>, done |-> TRUE]

(* What a rank that is not done can wait for: that what it sent is received *)
(* (a rendezvous MPI_Send), or that its peer sends.                        *)
Waits(r) ==
    \/ Moving(r) /\ ~Sender(r) /\ chan[xfer[r].peer, r] = <<>>
    \/ Moving(r) /\ Sender(r) /\ ~Returned(r)
    \/ pc[r] \in {"down", "up"} /\ Moved(r) /\ ~Returned(r)

(* No exchange of problems or results ever gets stuck, although every      *)
(* MPI_Send may wait for its receive and ranks send and receive in an order*)
(* of their own: as long as the ranks are not all done, one of them waits  *)
(* for nobody.                                                             *)
NoDeadlock == AllDone \/ \E r \in Ranks : pc[r] # "done" /\ ~Waits(r)

=============================================================================
