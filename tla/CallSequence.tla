---------------------------- MODULE CallSequence ----------------------------
(***************************************************************************)
(* A program that calls dparallel_recursion several times: how rank 0 deals*)
(* out the subproblems (AbstractRun::distribute), how every rank returns   *)
(* results and inputs (ImplRun::send_results), how rank 0 collects them    *)
(* from any rank in any order (recv_results), and how a call ends          *)
(* (reduce).  The messages of all calls use the same communicator, and     *)
(* their tags are no more than an index of the problem, so only the end of *)
(* a call keeps the calls apart.                                           *)
(*                                                                         *)
(* A result, or a processed input, is <<call, index of the problem>>.      *)
(***************************************************************************)
EXTENDS Shares

CONSTANTS
    Programs,  \* the sequences of calls to explore
    Buffered,  \* whether MPI_Send returns before its receive: a set of BOOLEAN
    ByCosts(_) \* the problems each rank gets when their costs count

(* A call: the costs of the problems the decomposition yields and whether  *)
(* they count (Balance with UseCost), the Info object it is given, where   *)
(* its input is (in rank 0, in every rank: ReplicatedInput, or in rank 0,  *)
(* which first broadcasts it: ReplicateInput), whether results travel as   *)
(* one chunk per rank (bitwise serializable, not TransmitByChunks),        *)
(* GatherInput, Gather, and how it ends: MPI_Barrier, the bcast of         *)
(* ReplicateOutput, or at once (DistributedOutput).                        *)
CallType ==
    [costs : Seq(Nat) \ {<<>>}, useCost : BOOLEAN, info : Nat,
     source : {"root", "replicated", "replicate"}, chunked : BOOLEAN, inputs : BOOLEAN,
     collective : BOOLEAN, end : {"barrier", "bcast", "none"}]

ASSUME ProgramsAssumption == Programs \subseteq Seq(CallType) \ {<<>>} /\ Buffered \subseteq BOOLEAN

(* A call that is given an Info of an earlier call has the problems that   *)
(* the Info keeps.                                                         *)
ASSUME InfoAssumption ==
    \A p \in Programs : \A j, k \in DOMAIN p :
        p[j].info = p[k].info => p[j].costs = p[k].costs /\ p[j].useCost = p[k].useCost

(* redistribute at the last level, and setNGlobalElems: elems_per_rank_    *)
elems_per_rank(costs, useCost) ==
    IF useCost /\ Len(costs) >= NProcs THEN ByCosts(costs) ELSE ByElems(Len(costs))

(* Whatever the shares by cost are, each problem has one owner.            *)
ASSUME SharesAssumption ==
    \A p \in Programs : \A k \in DOMAIN p :
        LET elems == elems_per_rank(p[k].costs, p[k].useCost)
        IN  elems \in [Ranks -> Nat] /\ FirstOf(elems, NProcs) = Len(p[k].costs)

VARIABLES
    program,   \* the calls every rank makes
    shares,    \* elems_per_rank_ of each call; all ranks work out or are told the same
    buffered,  \* what MPI does with sends
    call,      \* rank -> the call it is in
    pc,        \* rank -> what it does next in it
    count,     \* rank -> loop index: problems received, messages sent, results counted
    dealt,     \* rank -> problems rank 0 has sent it in this call
    inbox,     \* rank -> problems on their way to it
    outbox,    \* rank -> results and inputs on their way from it to rank 0
    posted,    \* rank -> the last call whose MPI_Gatherv it has entered
    local,     \* rank -> its local_results
    results,   \* rank 0's local_results once resized to all the problems
    inputs     \* the processed problems in rank 0's tree

vars == <<program, shares, buffered, call, pc, count, dealt, inbox, outbox, posted, local,
          results, inputs>>

Workers == Ranks \ {0}

NONE == <<0, 0>>

Call(r) == program[call[r]]

nGlobalElems(k) == Len(program[k].costs)
nLocalElems(k, r) == shares[k][r]

firstGlobalElem(k, r) ==
    IF program[k].useCost THEN FirstOf(shares[k], r)
    ELSE LET n == nGlobalElems(k)
         IN  (n \div NProcs) * r + Min({r, n % NProcs})

\* the call of program p in which the Info of its k-th call was filled
Origin(p, k) == Min({j \in 1 .. k : p[j].info = p[k].info})

\* local_root # nullptr when rank r enters call k: create_tree leaves one in
\* rank 0, in every rank that decomposed the input itself, and in a worker that
\* was given problems (a worker without any keeps a null pointer)
hasRoot(k, r) ==
    LET o == Origin(program, k)
    IN  o < k /\ (program[o].source # "root" \/ r = 0 \/ nLocalElems(k, r) > 0)

\* rank r takes part in a broadcast of rank 0 as it enters the call: that of
\* the input (ReplicateInput), or that of the number of problems (create_tree)
InBcast(k, r) == ~hasRoot(k, r) /\ program[k].source # "replicated"
\* rank r takes part in dealing the problems out
Deals(k, r) == ~hasRoot(k, r) /\ program[k].source = "root"

\* rank r is not held by a broadcast that rank 0 has not entered; when rank 0
\* has a root and r has none, rank 0 never enters it
Told(r) == InBcast(call[r], r) => call[0] >= call[r] /\ InBcast(call[r], 0)

\* the last MPI_Send of rank r has returned
Returned(r) ==
    buffered \/ IF r = 0 THEN \A s \in Workers : inbox[s] = <<>> ELSE outbox[r] = <<>>

---------------------------------------------------------------------------
Init ==
    /\ program \in Programs
    /\ shares = [k \in DOMAIN program |-> elems_per_rank(program[k].costs, program[k].useCost)]
    /\ buffered \in Buffered
    /\ call = [r \in Ranks |-> 1]
    /\ pc = [r \in Ranks |-> "distribute"]
    /\ count = [r \in Ranks |-> 0]
    /\ dealt = [r \in Workers |-> 0]
    /\ inbox = [r \in Workers |-> <<>>]
    /\ outbox = [r \in Workers |-> <<>>]
    /\ posted = [r \in Workers |-> 0]
    /\ local = [r \in Ranks |-> <<>>]
    /\ results = <<>>
    /\ inputs = {}

(* ParallelSendHostHelper: rank 0 sends a rank its next problem, the ranks *)
(* in any order.                                                           *)
Deal(r) ==
    LET k == call[0]
    IN  /\ pc[0] = "distribute"
        /\ Deals(k, 0)
        /\ dealt[r] < nLocalElems(k, r)
        /\ Returned(0)
        /\ inbox' = [inbox EXCEPT ![r] =
                        Append(@, <<k, firstGlobalElem(k, r) + dealt[r]>>)]
        /\ dealt' = [dealt EXCEPT ![r] = @ + 1]
        /\ UNCHANGED <<program, shares, buffered, call, pc, count, outbox, posted, local,
                       results, inputs>>

(* The worker's create_tree waits for the broadcast of the number of       *)
(* problems, which rank 0 sends when it is in the same call; then the      *)
(* worker receives its problems one by one.                                *)
TakeProblem(r) ==
    /\ pc[r] = "distribute"
    /\ Deals(call[r], r)
    /\ Told(r)
    /\ count[r] < nLocalElems(call[r], r)
    /\ inbox[r] # <<>>
    /\ local' = [local EXCEPT ![r] = Append(@, Head(inbox[r]))]
    /\ inbox' = [inbox EXCEPT ![r] = Tail(@)]
    /\ count' = [count EXCEPT ![r] = @ + 1]
    /\ UNCHANGED <<program, shares, buffered, call, pc, dealt, outbox, posted, results, inputs>>

(* ImplRun::run, once the distribution is over for this rank.              *)
Run(r) ==
    LET c == Call(r)
        n == nLocalElems(call[r], r)
    IN  /\ pc[r] = "distribute"
        /\ Told(r)
        /\ Deals(call[r], r) =>
              IF r = 0 THEN Returned(0) /\ \A s \in Workers : dealt[s] = nLocalElems(call[0], s)
              ELSE count[r] = n
        /\ local' = [local EXCEPT ![r] =
                        IF r # 0 /\ Deals(call[r], r) THEN @
                        ELSE [i \in 1 .. n |-> <<call[r], firstGlobalElem(call[r], r) + i - 1>>]]
        /\ count' = [count EXCEPT ![r] = 0]
        /\ pc' = [pc EXCEPT ![r] =
                     IF c.end = "none" THEN "end"
                     ELSE IF c.collective THEN "gather" ELSE "results"]
        /\ UNCHANGED <<program, shares, buffered, call, dealt, inbox, outbox, posted, results, inputs>>

(* What a worker sends: the chunk of its results, if they travel so, then  *)
(* for every problem its input and its result, as the call asks for.       *)
Messages(r) ==
    LET c == Call(r)
        base == firstGlobalElem(call[r], r)
        chunks == IF c.chunked /\ ~c.collective THEN 1 ELSE 0
        results1by1 == IF c.chunked \/ c.collective THEN 0 ELSE 1
        perProblem == results1by1 + (IF c.inputs THEN 1 ELSE 0)
        message(input, tag, data) ==
            [input |-> input, tag |-> tag, data |-> data, call |-> call[r]]
    IN  [k \in 1 .. chunks + perProblem * nLocalElems(call[r], r) |->
            IF k <= chunks THEN message(FALSE, base, local[r])
            ELSE LET i == (k - chunks - 1) \div perProblem
                 IN  message(c.inputs /\ (k - chunks - 1) % perProblem = 0,
                             base + i, <<local[r][i + 1]>>)]

(* send_results: Gather enters the MPI_Gatherv first.                      *)
EnterGather(r) ==
    /\ pc[r] = "gather"
    /\ posted' = [posted EXCEPT ![r] = call[r]]
    /\ pc' = [pc EXCEPT ![r] = "results"]
    /\ UNCHANGED <<program, shares, buffered, call, count, dealt, inbox, outbox, local, results, inputs>>

SendResult(r) ==
    /\ pc[r] = "results"
    /\ Returned(r)
    /\ IF count[r] < Len(Messages(r))
       THEN /\ outbox' = [outbox EXCEPT ![r] = Append(@, Messages(r)[count[r] + 1])]
            /\ count' = [count EXCEPT ![r] = @ + 1]
            /\ UNCHANGED pc
       ELSE /\ pc' = [pc EXCEPT ![r] = "end"]
            /\ UNCHANGED <<outbox, count>>
    /\ UNCHANGED <<program, shares, buffered, call, dealt, inbox, posted, local, results, inputs>>

(* recv_results, before the loop: local_results grows to all the problems, *)
(* and the results come with the collective of Gather, if it is used.      *)
Resized(gathered) ==
    [i \in 0 .. nGlobalElems(call[0]) - 1 |->
        IF i < nLocalElems(call[0], 0) THEN local[0][i + 1]
        ELSE IF gathered THEN <<call[0], i>> ELSE NONE]

RootGather ==
    /\ pc[0] = "gather"
    /\ \A r \in Workers : posted[r] >= call[0]
    /\ results' = Resized(TRUE)
    /\ inputs' = {}
    /\ pc' = [pc EXCEPT ![0] = "results"]
    /\ UNCHANGED <<program, shares, buffered, call, count, dealt, inbox, outbox, posted, local>>

\* external_results: the results and inputs rank 0 waits for
ExternalSingleVariant(k) ==
    IF program[k].inputs \/ ~program[k].collective
    THEN nGlobalElems(k) - nLocalElems(k, 0) ELSE 0
External(k) ==
    LET c == program[k]
        others == nGlobalElems(k) - nLocalElems(k, 0)
    IN  (IF c.inputs THEN others ELSE 0) + (IF c.collective THEN 0 ELSE others)

RootResize ==
    /\ pc[0] = "results"
    /\ ~Call(0).collective
    /\ count[0] = 0
    /\ results = <<>>
    /\ results' = Resized(FALSE)
    /\ inputs' = {}
    /\ UNCHANGED <<program, shares, buffered, call, pc, count, dealt, inbox, outbox, posted, local>>

\* optimized_recv: a chunk counts for all the problems of the rank it comes from
CountedOnceVariant(k, r, m) == 1
Counted(k, r, m) == IF program[k].chunked /\ ~m.input THEN nLocalElems(k, r) ELSE 1

(* One turn of the loop: probe any source and any tag, receive what it     *)
(* found, at the index its tag tells.                                      *)
RecvResult(r) ==
    LET m == Head(outbox[r])
    IN  /\ pc[0] = "results"
        /\ results # <<>>
        /\ count[0] < External(call[0])
        /\ outbox[r] # <<>>
        /\ outbox' = [outbox EXCEPT ![r] = Tail(@)]
        /\ IF m.input
           THEN inputs' = inputs \cup {<<m.tag, m.data[1]>>} /\ UNCHANGED results
           ELSE /\ results' = [i \in DOMAIN results |->
                                  IF i \in m.tag .. m.tag + Len(m.data) - 1
                                  THEN m.data[i - m.tag + 1] ELSE results[i]]
                /\ UNCHANGED inputs
        /\ count' = [count EXCEPT ![0] = @ + Counted(call[0], r, m)]
        /\ UNCHANGED <<program, shares, buffered, call, pc, dealt, inbox, posted, local>>

(* reduction() on what has been collected.                                 *)
Reduce ==
    /\ pc[0] = "results"
    /\ results # <<>>
    /\ count[0] >= External(call[0])
    /\ pc' = [pc EXCEPT ![0] = "end"]
    /\ UNCHANGED <<program, shares, buffered, call, count, dealt, inbox, outbox, posted, local,
                   results, inputs>>

(* The end of reduce: every rank waits for all, or for rank 0 only, or for *)
(* nobody.                                                                 *)
Past(s, r) == call[s] > call[r] \/ (call[s] = call[r] /\ pc[s] = "end")

MayLeaveAlwaysVariant(r) == TRUE
MayLeave(r) ==
    CASE Call(r).end = "barrier" -> \A s \in Ranks : Past(s, r)
      [] Call(r).end = "bcast" -> Past(0, r)
      [] OTHER -> TRUE

Leave(r) ==
    /\ pc[r] = "end"
    /\ MayLeave(r)
    /\ call' = [call EXCEPT ![r] = @ + 1]
    /\ pc' = [pc EXCEPT ![r] = IF call[r] = Len(program) THEN "done" ELSE "distribute"]
    /\ count' = [count EXCEPT ![r] = 0]
    /\ local' = [local EXCEPT ![r] = <<>>]
    /\ IF r = 0 THEN /\ dealt' = [s \in Workers |-> 0]
                     /\ results' = <<>>
                     /\ inputs' = {}
       ELSE UNCHANGED <<dealt, results, inputs>>
    /\ UNCHANGED <<program, shares, buffered, inbox, outbox, posted>>

RootStep == RootGather \/ RootResize \/ Reduce \/ Run(0) \/ Leave(0)

WorkerStep(r) ==
    \/ Deal(r) \/ TakeProblem(r) \/ Run(r) \/ EnterGather(r) \/ SendResult(r)
    \/ RecvResult(r) \/ Leave(r)

AllDone == \A r \in Ranks : pc[r] = "done"

Terminated == AllDone /\ UNCHANGED vars

Next == RootStep \/ (\E r \in Workers : WorkerStep(r)) \/ Terminated

Spec == Init /\ [][Next]_vars

---------------------------------------------------------------------------
(* No rank is without problems in a call whose results travel in chunks:   *)
(* a chunk of no results is a message that rank 0 does not wait for.       *)
Full(c) ==
    c.chunked /\ ~c.collective => \A r \in Ranks : elems_per_rank(c.costs, c.useCost)[r] > 0
ChunksFull == \A k \in DOMAIN program : Full(program[k])

(* A call that is given an Info with problems finds a root in every rank:  *)
(* no worker was left without problems when rank 0 dealt them out.  Such a *)
(* worker enters create_tree again and waits there for a broadcast that    *)
(* the others do not take part in.                                         *)
KeepsRoots(p) ==
    \A k \in DOMAIN p :
        LET o == Origin(p, k)
        IN  o < k /\ p[o].source = "root" =>
                \A r \in Workers : elems_per_rank(p[k].costs, p[k].useCost)[r] > 0
RootsKept == KeepsRoots(program)

(* Messages from different skeleton invocations do not mix: what a rank is *)
(* about to receive was sent in the call it is in, and no rank is past a   *)
(* call while a message of that call is on its way to it (the barrier or   *)
(* broadcast at the end of reduce is there for this).                      *)
CallsDoNotMix ==
    \A r \in Workers :
        /\ \A k \in DOMAIN outbox[r] : outbox[r][k].call >= call[0]
        /\ outbox[r] # <<>> /\ pc[0] = "results" => Head(outbox[r]).call = call[0]
        /\ \A k \in DOMAIN inbox[r] : inbox[r][k][1] >= call[r]

(* When rank 0 reduces, it has the result of every problem of this call at *)
(* its own index, from whatever rank and in whatever order they came, and, *)
(* with GatherInput, every problem that other ranks processed; it has not  *)
(* counted more than it waits for.                                         *)
OwnResults ==
    LET c == Call(0)
        n == nGlobalElems(call[0])
    IN  pc[0] = "end" /\ c.end # "none" =>
            /\ count[0] = External(call[0])
            /\ \A i \in 0 .. n - 1 : results[i] = <<call[0], i>>
            /\ c.inputs => inputs = {<<i, <<call[0], i>>>> : i \in nLocalElems(call[0], 0) .. n - 1}

(* A rank is in an MPI call that does not return yet: rank 0 in a send or  *)
(* in the MPI_Gatherv, or with no message to probe; a worker without the   *)
(* broadcast or its next problem, or in a send; any rank at the end.       *)
Waits(r) ==
    \/ pc[r] = "distribute" /\ ~Told(r)
    \/ /\ pc[r] = "distribute"
       /\ Deals(call[r], r)
       /\ IF r = 0 THEN ~Returned(0)
          ELSE count[r] < nLocalElems(call[r], r) /\ inbox[r] = <<>>
    \/ r = 0 /\ pc[0] = "gather" /\ \E s \in Workers : posted[s] < call[0]
    \/ /\ pc[r] = "results"
       /\ IF r # 0 THEN ~Returned(r)
          ELSE /\ results # <<>>
               /\ count[0] < External(call[0])
               /\ \A s \in Workers : outbox[s] = <<>>
    \/ pc[r] = "end" /\ ~MayLeave(r)

(* No call ever gets stuck: neither in the collection, nor when every send *)
(* waits for its receive, nor at the end of a call, provided that all the  *)
(* ranks enter the same broadcasts (RootsKept).                            *)
NeverStuck == AllDone \/ \E r \in Ranks : pc[r] # "done" /\ ~Waits(r)

=============================================================================
