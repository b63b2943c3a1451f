# Verification of dparallel_recursion

TLA+ models of `dparallel_recursion`: its work-stealing skeletons, its
distributed recursion and its search for a chunk size; the TLC configurations
that check them on small instances; and proofs, checked by TLAPS, for every
size of the system: of the safety of the work-stealing stacks and that `run`
implements an abstract pool of work; of the accounting of work between
processes, and that the token ends the search at the right time; of the sharing
of requests among the threads of a process; of the search for a chunk size; of
the plan of data movement; and of calls in a row.

Paths below are relative to `src/include/dparallel_recursion/`. PSR stands for
`parallel_stack_recursion.h`, DPSR for `dparallel_stack_recursion.h` and DR for
`dparallel_recursion.h`.

The library is a header library of 16,492 lines, and the subject of this
project. The rest of the implementation code in the repository are benchmarks,
in part by third parties, that are written with it or that it is compared
with.

## 1. Inventory

The library parallelizes divide-and-conquer recursions. The user describes the
recursion in an *Info* object (how many children a problem has, which they are,
when it is a base case) and a *Body* (what to do with a problem before and
after its children). Four skeletons execute it:

| skeleton | where it runs | how work is shared |
|---|---|---|
| `parallel_recursion` | threads of one process | TBB tasks |
| `parallel_stack_recursion` | threads of one process | stacks that threads steal from |
| `dparallel_recursion` | processes and their threads | the input is divided once, by `DInfo` |
| `dparallel_stack_recursion` | processes and their threads | stealing inside and between processes |

The stack skeletons have sequential twins (`seq_*`), and `run_test` versions
that run part of a search to find a good chunk size.

### parallel_stack_recursion (PSR)

*State.* One `StealStack` per thread (81-96): a vector of problems with the
indices `sharedStart <= local <= top`. What lies from `sharedStart` up to
`local` may be stolen, what lies above belongs to the owner. A lock per stack,
which guards `sharedStart` and the vector but not every access to `local`. One
barrier `cb` (118-133): `cb_count`, `cb_cancel`, `cb_done`. `globalExceptionPtr`.

*Operations.* `ss_push`, `ss_pop`, `ss_growStackSize`, `ss_mkEmpty` (own
stack); `releaseMultipleNodes`/`ss_release` (offer a part of it: moves `local`
up *without* the lock), `ss_acquire` (take a part back, with the lock),
`findwork`/`ss_steal` (rob another stack); `cbarrier_wait`, `cbarrier_cancel`;
`run_thread`, `run_thread_test`, `run`.

*Interaction.* Threads meet only in the stacks and the barrier. A thread that
finds nothing waits at the barrier until somebody releases work and cancels it,
or until all have arrived.

*Hard.* Accesses without locks; a vector that is moved while thieves look at
it; the barrier, whose count is increased in one step and compared in another;
threads that clear a cancellation on their way out; a body that throws in one
thread; a test that empties stacks while thieves copy from them.

*Correct means.* Every problem is processed exactly once; the search ends, and
only when nothing is left; the result combines all problems; an exception
reaches the caller.

### dparallel_stack_recursion (DPSR)

*State.* In each process the stacks above, and for each thread a listener
(`wrin_request`), a request of its own (`wrout_request`, `iw_request`), buffers
(`iw_buff`, `ow_buff`) and `last_steal`. Per process `my_color`, four counters
(`chunks_sent`, `chunks_recvd`, `ctrl_sent`, `ctrl_recvd`), and for the
sharing of requests `statusJobSearch` (per stack), `addRequestThreads` (per
thread), `mpi_processing`, `requestStatusMutex`. One token travels over the
ring of processes with its colour and what each process reported.

*Operations.* `ss_get_work` (ask, look for the answer, deal it out),
`ws_make_progress` (answer others, handle the token), `ss_steal_for_remote`,
`manage_token`, `clear_mpi_communications`, `ss_allThreadsLocalFullDepth`.

*Interaction.* A thread without work that finds none in its process asks
another process, in a round; a thread of that process answers between two of
its own problems, with a chunk or with a refusal. Thread 0 of each process
passes the token: WHITE rounds look for work and for chunks on their way, PINK
rounds for requests and refusals on their way, RED tells everybody to leave.

*Hard.* Counters that several threads move and the token reads, each at its own
time; work that is in a buffer and in no stack; requests that arrive while a
process is about to end; threads that act for others and block them.

*Correct means.* The run ends only when no process has work and none is on its
way; it does end; all problems are processed; every request gets one answer; a
blocked thread is released; the limit of requests is kept.

### dparallel_recursion (DR, `DInfo.h`)

*State.* In every rank a tree of levels of problems (`datatree`), a
`Distribution` with the number of problems of each rank at this level and the
next (`nglobal_elems_`, `elems_per_rank_`, `next_elems_per_rank_`), and
`local_results`.

*Operations.* `create_tree` decomposes the problem breadth first, in rank 0, in
every rank, or (`PrioritizeDM`) in all of them together; `redistribute` shares
the last level out, by numbers or (`Balance|UseCost`) by costs;
`AbstractRun::distribute` deals the problems; `run` solves those of a rank;
`send_results`, `recv_results` and `reduction`, or `distributed_reduce_tree`,
bring the results and perhaps the inputs back.

*Interaction.* Ranks exchange messages on one communicator, whose tags are at
most the index of a problem, and meet in collectives or not at all, as the
behavior flags say. Calls may follow each other, and a later one may reuse the
distribution of an earlier one.

*Hard.* Nobody tells a rank what the others do: sender and receiver derive the
plan from a count. Base cases at different depths leave holes in the levels
above. Rank 0 takes messages of any rank and tag. Several calls use the same
tags. A sharing that moves problems back and forth until it cannot improve.

*Correct means.* Every problem is solved once; the results are put together in
the right places; both ends of a transfer agree; no exchange gets stuck; no
message is taken by a call it was not meant for.

### chunk selector (`ChunkSelector.h`)

*State.* The eligible chunk sizes with their measured speeds
(`selectedChunks`), those ever tried (`historyOfChunks`), a queue
(`toCheckChunks`), the phase, the level and round of phase 2, the tolerance,
the deadlines.

*Operations.* `getNextChunk` (four modes), `setChunkSpeed`, `discardChunks`,
`addNeighbors`, `calculateScore`; `run_test` of the stack skeletons calls them
in a loop.

*Hard.* A level whose deadline has passed is left with its round half done,
perhaps several at once; chunks are discarded while others wait; presets of one
to several rounds advance two counters together.

*Correct means.* Chunks are compared after the same number of tests, each
level has its rounds, the queue holds eligible chunks only, and the best speed
seen is not discarded.

### The other parts

| part | files | what it keeps and does | correctness |
|---|---|---|---|
| thread barrier | `dpr_utils.h` 102-130 | count and generation under a mutex; `wait` | nobody leaves early; nobody is left behind when it is used again |
| task recursion | `parallel_recursion.h` | TBB tasks, fork and join | as `parallel_stack_recursion` |
| sequential twins | `seq_*.h` | one stack, one thread | same result |
| ranges | `Range.h`, `DRange.h`, `SRange.h`, `DSRange.h`, `SRange_comm.h` | index ranges and their division | the children of a range partition it |
| alias vectors | `AliasVector.h`, `FillableAliasVector.h`, `general_reference_wrapper.h` | views that may own their memory | ownership |
| constants | `Arity.h`, `Behavior.h`, `EmptyBody.h`, `DSParConfigInfo.h` | compile-time numbers, flags, parameters | - |
| communication | `dpr_mpi_comm*.h`, `dpr_mpi_gather_scatter.h`, `dpr_mpi_stack_comm.h` | serialization and MPI calls | - |

`PROJECT.json` lists all of them with what is modelled, and under `hazards`
what is hard to test, each at its line.

## 2. The modules

| module | stands for | kind |
|---|---|---|
| `WorkPool` | what `parallel_stack_recursion` promises its caller | abstract specification |
| `StackRecursion` | PSR: stacks, stealing, barrier, threads, `run` | detailed model, implements `WorkPool` |
| `StackRecursionProofs` | theorems about `StackRecursion`: the stacks and the end of the search | proofs |
| `WorkPoolProofs` | `StackRecursion` implements `WorkPool`; exceptions and tests | proofs |
| `MCStackRecursion` | small trees | for TLC |
| `DistributedPool` | what work sharing between processes promises about the end of a run | abstract specification |
| `TokenRing` | DPSR: requests, answers, token, mop-up, end | detailed model, implements `DistributedPool` |
| `TokenRingProofs` | types and accounting, for any number of processes and threads; the end of the run, with one thread in each process | proofs |
| `MCTokenRing` | small rings | for TLC |
| `RequestPolicy` | DPSR: how the threads of a process share requests | detailed model |
| `RequestPolicyProofs` | theorems about `RequestPolicy` | proofs |
| `MCRequestPolicy` | limits of requests | for TLC |
| `Shares` | what the two next have in common: shares by number, the first problem of a rank | functions |
| `Distribution` | `DInfo::Distribution`: shares by cost | functions |
| `CallSequence` | DR: dealing, results, collection and ends of several calls | detailed model |
| `CallSequenceProofs` | theorems about `CallSequence` | proofs |
| `BalancedCalls` | `CallSequence` with the shares that `Distribution` works out | composition |
| `MCCallSequence` | programs of one to three calls | for TLC |
| `DataMovement` | `DInfo` under `PrioritizeDM`: decomposition and reduction by all ranks | detailed model |
| `DataMovementProofs` | theorems about `DataMovement` | proofs |
| `MCDataMovement` | arities, processes, base cases, behaviors | for TLC |
| `ChunkSelector` | `ChunkSelector.h` and the loop that calls it | detailed model |
| `ChunkSelectorProofs` | theorems about `ChunkSelector` | proofs |
| `MCChunkSelector` | options | for TLC |
| `Orders` | a finite set of numbers in ascending order, as `std::set` keeps it | operators |
| `LibraryTheorems` | sums over finite sets, ascending sequences | lemmas the proofs share |

In the detailed modules a definition named `...Variant` is a plausible mistake
in the one it precedes. No specification uses them; they serve to make sure
that each property notices the mistake.

### StackRecursion

Each step of a thread is one action, `ThreadStep(t)`; the grain is that of the
shared accesses. A section under a lock is one action if nothing in it can be
observed half done, and several if unlocked accesses of others can fall into
it (`ss_steal`). Operations on one's own part of the stack between two shared
accesses are merged into the action that follows them. The model interleaves
actions, that is, it assumes sequential consistency for the racy accesses to
`local` and `sharedStart`, which are plain variables in the code.

| code | actions |
|---|---|
| `run_thread` 935-1018, problems on the own stack | `Start`, `SolveInPlace` (the partitioner declines to split), `Examine`, `GrowToExpand`, `Expand` (pop, push the children, release) and `Cancel` (`cbarrier_cancel`) |
| `ss_acquire` 458-470 | `Acquire` |
| `findwork` 520-528 | `FindLocal`, `FindShared`: the victims in turn, each with two unlocked reads |
| `ss_steal` 472-518 | `GrowToSteal`, `LockVictim`, `Reserve`, `Copy` |
| `cbarrier_wait` 560-595 | `Arrive`, `Check`, `SetDone`, `Spin`, `Leave`, `Clear` |
| an exception 1032-1045, 1161-1171 | `Throw`, `ThrowDone`, `ThrowCancel` |
| the limit of `run_thread_test` 1068-1084 | `Cut`, `CutCancel`, `CutEmpty` |
| `run` 645-698 | `Join`, `Finish` |

A problem is a node of a finite tree given by `Children`; `Subtree` is what lies
below one. A slot of the vector that holds nothing meaningful is `NoNode`.
Results are sets of nodes.

The refinement to `WorkPool` maps the pending problems to those that lie in
some slot, with the slots that a thief has reserved and has still to copy.

### TokenRing

Stacks are abstracted to their two depths; slots, locks and thieves inside a
process are the subject of `StackRecursion`, so a steal inside a process is one
action (`StealHere`). The searches for a stack to take from (`findwork`,
`findwork_for_remote`) read the stacks one by one without locks; so
`NothingHere` and `NothingForRemote` may find nothing although there is work in
the stack of another thread. The policy is AGGRESSIVE with no limit: each thread asks
for itself.

| code | actions |
|---|---|
| `run_thread` of DPSR | `SolveBase`, `Expand`, `Acquire`, `StealHere`, `NothingHere` |
| `ss_get_work` 449-806 | `GetWork` (reads `my_color` and decides), `Post` (sends the request), `ReceiveWork`, `CountWork`, `ReceiveRefusal`, `NoAnswer` |
| `ws_make_progress` 376-430 | `NoRequest`, `Accept` (counts the request), `TakeForRemote`, `NothingForRemote`, `SendWork`, `Refuse`, `SkipToken` |
| `manage_token` 880-1110, thread 0 | `TakeToken`, `Scan` (one stack at a time), `WhiteVisit`, `PinkVisit`, `RedVisit` |
| `clear_mpi_communications`, the end of a run | `Clear`, `End` |
| the MPI library (external) | `Match`: a request that is under way meets a listener |

A request and an answer are the number of the thread that asks; an answer is 0
(a refusal) or the number of problems it carries. Messages between the same two
threads cannot overtake each other because there is at most one; all others
may. `ow_request`, the handle of an answer that is still being sent, is left out: it only
delays the next answer. Any listener of a process may match a request, as
MPI_ANY_SOURCE receives with one tag may. The four counters are read together
when the token is written.

The refinement to `DistributedPool` maps `held` to the depths of the stacks and
what is in `ow_buff`, `flying` to the answers on their way, and `declared` to a
process that is no longer WHITE.

### RequestPolicy

One process, which runs under one of the given policies. The other processes
are reduced to what they answer: any number of units up to what was asked for. A unit is `chunkSize * chunksToSteal` problems. The
colours are left out: the process is WHITE.

| code (`ss_get_work`) | actions |
|---|---|
| 471-480 | `AskAggressive`, `Increment` (`++mpi_processing` reads, then writes) |
| 480-520 | `AskMultiple`: blocks the idle threads and asks for them too |
| 521-545 | `AskPredictive`: asks for a fixed amount, or blocks itself |
| 550-570 | `Post` |
| 586-673 | `Answer`, `Deal` (one unit into one stack, without its lock), `SettleMultiple` |
| 674-676 | `SettleAggressive`, `Decrement` (`--mpi_processing` without the mutex) |
| 677-768 | `AnswerPredictive`, under `requestStatusMutex` in one step |
| 808-816 | `BackToWork` |

### Shares, Distribution and BalancedCalls

Functions without state. `ByElems` is `redistributeOnElems`; `Estimate` and
`rec_redistribute` are the two parts of the division by costs, and
`redistribute` is both. Costs are integers, and averages are compared by
multiplication. `process_costs`, which the code keeps beside the shares, is
worked out from them.

`CallSequence` has the division by costs as a constant operator, `ByCosts`, of
which it assumes only that every problem gets one owner (`SharesAssumption`).
So what is proved about it does not depend on how costs are weighed. The
configurations put `redistribute` for `ByCosts`, and TLC evaluates the
assumption for each of their programs; `BalancedCalls` has both modules and
says in addition what good shares are (`SharesSettled`). `elems_per_rank`
chooses between the two ways.

### CallSequence

A program is a sequence of calls, each described by the costs of its problems
by the Info object it is given, and by what its behavior flags mean for
messages: where the input is (in rank 0, in every rank, or in rank 0 that
broadcasts it first: `ReplicateInput`), whether results travel in one chunk per
rank, `GatherInput`, the collective of `Gather`, and how the call ends. A result is the pair of its call
and the index of its problem, so that one that reaches another call, or another
place, is seen. Two ranks exchange messages in order; sends block or not,
as `buffered` says for a whole execution, since MPI is free to do either.

Whether a call deals its problems out is decided in each rank by `hasRoot()`: a
rank has a root if an earlier call has filled the same Info (`Origin`) and left
it one, which a worker without problems is not (DInfo 1006). A rank without a
root takes part in the broadcast of rank 0 at the beginning of the call, of the
number of problems or of the input (`InBcast`), and waits if rank 0 does not
enter it (`Told`). That it might instead be served by some other collective
that the ranks are in is left out: it waits for ever. A call with a given Info
has the same problems as the call that has filled it (`InfoAssumption`); an Info
after `reset()` counts as another one.

| code | actions |
|---|---|
| `hasRoot`, the broadcasts of `create_tree` and `ReplicateInput` | `hasRoot`, `InBcast`, `Deals`, `Told`, in the guards of the next three |
| `ParallelSendHostHelper`, `distribute` of DR | `Deal` (rank 0, the ranks in any order), `TakeProblem` |
| `run` | `Run`: the recursion on all local problems in one step |
| `send_results`, `optimized_send` | `EnterGather`, `SendResult` with `Messages` |
| `recv_results`, `optimized_recv` | `RootGather`, `RootResize`, `RecvResult` with `External` and `Counted` |
| `reduction`, `reduce` | `Reduce`, `Leave` with `MayLeave` |

### DataMovement

A problem is the path of child numbers from the root to it, and so is a result
computed from the right parts in the right order; anything else becomes
`WRONG`. The plan of a level is `Have` and `Due` (what a rank has after
splitting, and what it is due), `destination_first_external_problem` and
`source_first_external_problem`. The call, with its arity, processes, base
cases and behavior, is the variable `conf`, which no step changes, so that one
run explores many calls.

| code (`DInfo.h`) | actions |
|---|---|
| `distributed_create_tree` 1115-1190, `progress_DMdistr` | `Split` |
| its loops of sends and receives | `Send`, `Recv`, with `Advance` for the peer |
| `commit_progress_DMdistr` | `Commit`, `Balanced` |
| `ImplRun::run` of DR | `Run` |
| `distributed_reduce_tree` 1195-1330, `progress_DMred` | `Gather`, then `Send` and `Recv` the other way |
| `commit_progress_DMred`, `distributed_reduction` | `Reduce`, with `Occupant` for what has moved below a hole |
| the end | `Finish` |

### ChunkSelector

`getNextChunk` is one call to a caller but several steps here: the call reads
the clock (`CallTimeout`, `CallQueued`, `CallExplore`, `CallPhase2`), leaves
late levels one after the other (`SkipLevel`), and takes a chunk from the queue
or starts a round (`Phase2Queued`, `Phase2Round`, `FixedRound`), or ends
(`Finish`). The caller measures any of the given speeds (`setChunkSpeed`) or
gives up (`TestFails`). Time is the number of deadlines that have passed.
Scores are fractions; their rounding to a millionth is left out.

## 3. The runs

| run | question | instance |
|---|---|---|
| `StackRecursionTrio` | Does the search lose, repeat or overwrite anything, does it end, only when all is done, and does it implement `WorkPool`? | 3 threads, chunks of 2, a tree of 10 problems |
| `StackRecursionTest` | Does `run_thread_test` end, also when bodies throw, and is its verdict right? | 3 threads, 7 problems, two of which throw, a limit of two |
| `StackRecursionStealCheck` | Does the consistency check of `ss_steal` hold? (violation) | 2 threads |
| `TokenRingTrio` | One answer for each request? Does the token declare the end only when nothing is left, and has it mopped up all messages, with processes between sender and receiver? | 3 processes of one thread, two of which ask |
| `TokenRingThreads` | Are the counters right, and does the run end, when a process has several threads? | 2 and 1 threads, 5 problems |
| `TokenRingLostWork` | Is all work processed when a process has several threads? (violation) | 2 and 1 threads |
| `RequestPolicy` | Is work dealt out safely, is every blocked thread released, is the limit kept? | 3 threads under each policy |
| `RequestPolicyLimit` | Is a limit of two kept under AGGRESSIVE? (violation) | 3 threads, limit 2 |
| `DataMovement` | Do both ends of every transfer agree on a plan nobody tells them, is every problem solved once, does rank 0 get the right result and its inputs back, and does no exchange get stuck? | arity 2 on 3 processes, arity 3 on 4 and 5 |
| `CallSequence` | Are the shares by cost settled, and do calls in a row keep their messages apart and collect their own results? | 3 processes, programs of one to three calls, with Infos of their own or reused |
| `CallSequenceMixed` | And when a rank has no problems in a chunked call? (violation) | 3 processes |
| `ChunkSelector` | Are chunks tested as evenly and as often as promised, and does the best one survive? | 3 chunk sizes, 2 speeds, 4 modes, with and without deadlines |

### The properties

*StackRecursion.* `StackShape` keeps the indices in order and the shared part in
whole chunks although its two ends are moved under different rules.
`SlotsInUse` says that a slot holds a problem exactly while it is live or a
thief still has to copy it. `ThiefIsEmpty` is what `ss_steal` takes for granted
of the thief. `DoneMeansEmpty` is the end of the search; `ThrowIsRethrown` and
`ExitNormallyIsExact` the end of an abnormal one; `Termination` says that it
comes. In the runs the problems that throw are inside the tree, so that of
`ExitNormallyIsExact` they exercise that a search cut short is reported so;
`ExitNormallyExact` (section 4) covers the rest. `ImplementsPool` sums them up: each problem is taken from the pool once,
none is lost, and the answer has all of them.

*TokenRing.* `OneAnswerEach`: answers are told apart by the number of a thread
only, so a second one would be taken for the answer to a later request.
`ChunkAccounting` relates the counters to the messages under way, which is what
the WHITE rounds rely on. `WorkConserved` follows problems through stacks,
buffers and messages. `MoppedUp` is the comment above
`clear_mpi_communications`. `AllProcessed`, `Termination` and `ImplementsPool`
are the end of the run.

*RequestPolicy.* `LimitKept` counts the requests really under way.
`DealtToBlocked` is what makes writing to other threads' stacks safe;
`BlockedHasAsker` says that a blocked thread has somebody to release it, and
`BlockedIsReleased` and `AllDone` that it is released and all ends;
`UnitsConserved` that the division of an answer loses nothing.

*DataMovement.* `SendersFirst` is what the asserts and loops of the plan take
for granted. `PlansAgree` compares what a rank does with what its peer expects,
item by item. `ProblemsPartitioned` follows each path of child numbers from the
root as far down as any problem lies: in all ranks and messages together it
meets exactly one problem, so that none is lost and none is solved twice.
`ResultsFit` is about the buffer that is made once. `RootResultRight` and
`InputsComeHome` are the end. `NoDeadlock` says that some rank that is not
done does not wait (`Waits` has the three calls that can), even if every send
waits for its receive; TLC's own deadlock check compares it with ENABLED.

*CallSequence.* `SharesSettled` is a condition on the result of
`rec_redistribute` that follows from none of its single moves. `CallsDoNotMix`
is the comment at the barrier of `reduce` (DR 422-423). `OwnResults` says what
rank 0 has when it reduces; `NeverStuck` that it gets there: some rank that is
not done is in no MPI call that does not return yet (`Waits` lists those calls).
TLC's own deadlock check compares it with ENABLED. All of this holds in programs
where no worker without problems is given the same Info again (`RootsKept`):
`MCCallSequence` checks those, and has in `RootsLost` programs that are left out.
With them for `Programs`, TLC finds `NeverStuck` violated: the worker is in the
`MPI_Bcast` of `create_tree` and nobody else enters it.

*ChunkSelector.* `QueueSound`: a chunk in the queue is eligible, and there
once. `TestsEven` compares the numbers of tests; `RoundsPromised` relates them
to the options, at the end and at all times. `BestSurvives`: scores are relative
to the best speed seen, which nothing discards.

### Bounds

- Trees have 7 to 10 problems. In them a thread releases work twice running; a
  vector grows while part of it has been stolen, so that it is moved; with
  chunks of two, work is left that does not fill a chunk; and one problem is
  solved in place.
- Three threads are what it takes for one to leave the barrier while a second
  counts and a third works, and for one to rob a stack that another looks at.
- The calls of `DataMovement` are every choice of base cases above depth 2 with
  two children and three processes, which makes holes at every place of the
  levels that are exchanged; a call under `Balance`, which adds two levels and
  with them a second exchange in each direction; four processes for several
  senders to one receiver, and five for a sender that begins in the middle of
  what a receiver lacks.
- The programs of `CallSequence` are all pairs of a call and a later one with an
  Info of its own, with one, two or four problems on three processes, so that some
  ranks have none, one or two; pairs with the same Info, with one problem (only if
  all ranks keep a root: `RootsKept`), three or four; three calls of which the
  third goes back to the Info of the first; and calls with costs. That no rank has none in a chunked call (`Full`) is left to
  `CallSequenceMixed`. The costs are 4 numbers out of 4 values and 6 out of 2.
- Two speeds are enough for a chunk to fall below the tolerance or not (8 is
  within 30 percent of 10, not within 10); two initial chunks with one between
  them, and a third, make phase 1 add a neighbor and reach its limit.
  The preset is the fastest that `AutomaticChunkOptions` lets through
  (`subMode` 6: 1, 1, 1 and 4 rounds).
- `MaxProblems`, `MaxRequests` (TokenRing) and `MaxUnits`, `MaxRequests`
  (RequestPolicy) bound the problems that are created and the requests that a
  thread makes; they appear in the guards `Expand`, `GetWork`, `Answer` and
  `MayAsk`. A thread of TokenRing that has used up its requests polls without
  asking while its process is WHITE. The code, under AGGRESSIVE without a limit,
  would ask again (DPSR 471-472); it polls like this when a limit is reached or
  when its process is PINK. The trace of `TokenRingLostWork` has such steps; the
  gap it shows, between taking the work and counting it (1691-1693, 1715), does
  not depend on them. Two requests by one thread are what it
  takes for a late answer to meet a later request.
- In `TokenRingTrio` rank 0 does not ask, and has all the work at the
  beginning: the other two ask it and each other. In `TokenRingThreads` each
  process starts with a problem.

### Deadlock

TLC looks for deadlocks in all runs but those of StackRecursion, where a call
that has returned has no next step (`Termination` says that nothing else
stops). The other modules have a step for what has ended (`Done`,
`Terminated`, `Over`).

### Fairness

- Every thread that can take a step takes one in the end: `WF` of each
  thread's steps. The operating system schedules the threads the library
  creates, and none of them waits for another but at locks and at the barrier,
  where it spins.
- Locks are handed out: a thread that waits for a mutex others take and release
  for ever is not passed over for ever. This is part of the weak fairness
  above for StackRecursion, where nobody takes a lock again and again without
  progress of the search.
- MPI delivers: a request that is under way is matched (`WF` of `Deliver`), and
  an answer or the token for which its receiver tests again and again is found
  (`SF`, because the receiver does other things in between).
- In RequestPolicy every request is answered (`SF` of `Answered`); that this is so
  is a result of `TokenRing` (`OneAnswerEach` and `Termination`).

DataMovement, CallSequence and ChunkSelector state no liveness. In the first two every
step brings the call nearer to its end, so that it ends unless it gets stuck,
and `NoDeadlock` and `NeverStuck` say that it does not. In the third
`RoundsPromised` bounds the tests that any chunk gets.

## 4. What is proved

### The stacks

`StackRecursionProofs` proves for every number of threads, chunk size, initial
size of the vectors, tree, set of problems that throw or are solved in place,
and for the test as well as for the search itself:

| theorem | statement |
|---|---|
| `Inductive` | `Spec => []IInv` |
| `TypeCorrect` | `Spec => []TypeOK` |
| `StackKeepsShape` | `Spec => []StackShape` |
| `SlotsAreInUse` | `Spec => []SlotsInUse` |
| `ThievesAreEmpty` | `Spec => []ThiefIsEmpty` |
| `DoneOnlyWhenEmpty` | `Spec => []DoneMeansEmpty` |

*Assumptions.* `SizesAssumption` and `TreeAssumption` of StackRecursion: there
is a thread, chunks and vectors have at least one element, `Children` gives
each problem a sequence of problems. Nothing is assumed of the shape of the
tree: it may be infinite, or no tree.

*The inductive invariant.* None of the properties is inductive by itself.
`IInv` joins

- `TypeOK`;
- `StackInv`: `StackShape`; `LockOwned` (a lock is held by the thief that is
  between `Reserve` and `Copy`, and by nobody else at the grain of the model);
  `VictimIsOther`; `ChunkIsThere` (what the thief has checked under the lock
  stays true: room in its own stack, a chunk in the victim's) and `SlotBySlot`,
  a form of `SlotsInUse` that speaks of one slot and one thief, so that the
  provers need no unions of sets;
- `PlaceInv`: `EmptyWhenIdle` (a thread that looks for work or waits has
  nothing), `ExpandIsReady`, `ScanInRange`;
- `CountIsRight`: `cb_count` is the number of threads between their arrival at
  the barrier and their leaving it;
- `DoneIsSettled`: once a thread has seen all counted in, or `cb_done` is set,
  every thread is at a place from which it finds nothing.

*The argument.* The thief's chunk is safe because only the owner moves `local`
down, and it needs the lock for this (`ss_acquire`); what it does without the
lock, `ss_release`, moves `local` up and only adds to what thieves may take.
The end is right because a thread that counts itself in has nothing
(`EmptyWhenIdle`) and thieves always hold the lock until what they take is on
their stack: when the count reaches N, which needs `CountIsRight` and the
cardinality of the set of threads, all stacks are empty and nobody copies
(`DoneIsSettled`), and no thread can get anything any more. The lemmas on `%`
and on `ReleasedNodes` keep the shared part in whole chunks.

Each action has a lemma for what it does to the stacks (the conjuncts of
`StackInv`), and the other parts of the invariant have one lemma each with a
case per action.

### The run as a pool of work

`WorkPoolProofs` proves under the same assumptions and one more, about the
recursion itself:

| theorem | statement |
|---|---|
| `PoolInductive` | `Spec => []PoolInv` |
| `RunImplementsPool` | `Spec => ImplementsPool`, if not `Testing` |
| `RunReturnsEverything` | `Spec => [](outcome = "returned" => rr = Node)`, if not `Testing` |
| `ThrowsAreRethrown` | `Spec => []ThrowIsRethrown` |
| `ExitNormallyExact` | `Spec => []ExitNormallyIsExact` |

*Assumption.* `RecursionAssumption`: `Node` is what the root leads to, and no
problem is reached in two ways. It holds because `child` makes a problem of its
own each time it is called; two problems with the same contents are two nodes.
A test may discard problems, and implements no pool: hence `~Testing`.

*The inductive invariant.* `PoolInv` rests on `IInv` and says that the subtrees
of the problems on all stacks, and the set of problems already processed, are
pairwise disjoint (`ForestInv`); that together they are the whole tree unless a
test has been cut short (`Whole`), and not the whole tree if one has (`Cutting`,
`Dropped`); and what `run` knows of how its threads have ended (`EndInv`).

*The argument.* A step that moves problems (growth, a steal) permutes slots;
`Expand` replaces a subtree by its root, processed, and the subtrees of the
children; every other step leaves the slots in use as they are. The refinement
maps a step to taking one problem from the pool exactly when it processes one.
When all threads have left, `DoneIsSettled` makes the stacks empty, so what has
been processed is everything.

### The ring: types and accounting

`TokenRingProofs` proves for every number of processes, of threads in each, of
problems and of requests:

| theorem | statement |
|---|---|
| `RingInductive` | `Spec => []RingInv` |
| `RingTypes` | `Spec => []TypeOK` |
| `WorkIsConserved` | `Spec => []WorkConserved` |
| `ChunksAreAccounted` | `Spec => []ChunkAccounting` |

*Assumption.* `RingAssumption`: two processes at least, with a thread each, and
sizes that are natural numbers.

*The inductive invariant.* `RingInv` joins the types; where a request can be
(on its way, with a listener, with the thread that serves it) and which places
of the program go with it (`Posting`, `Serving`, `Loaded`, `AtMostOne`, `Awaited`); and the
sums over all processes: `ChunkAccounting` and `WorkConserved`.

*The argument.* Each step moves a request from one kind of place to the next
and changes one summand of a sum. That a sum changes by as much as one summand
does is proved in `LibraryTheorems` for all finite sets. A proof by induction
over the set is not available; instead a smallest set for which the claim fails
is taken, one element is removed, and the two recursive definitions are
compared.

### The ring: the end

`TokenRingProofs` also proves, for every number of processes of one thread each:

| theorem | statement |
|---|---|
| `EndInductive` | `Spec => []EndInv` |
| `AnswersAreUnique` | `Spec => []OneAnswerEach` |
| `MessagesAreMoppedUp` | `Spec => []MoppedUp` |
| `AllIsProcessed` | `Spec => []AllProcessed` |
| `RingImplementsPool` | `Spec => ImplementsPool` |

*Assumption.* `OneThreadEach`. It cannot be dropped: with two threads in a
process the run `TokenRingLostWork` violates `AllProcessed`.

*The inductive invariant.* What makes the end right is a property of whole
rounds of the token, put together from counters read at different times in
different processes. `EndInv` adds to `RingInv` where the token is, the colours,
`CtrlAccounting` (the like of `ChunkAccounting` for requests and refusals), and
`Round`: which processes the token has collected and confirmed, in which order
(`Collecting`, `Ahead`), and that a process which has received no more than the
token has noted has sent no more either, and is still calm (`Faithful`). In the
WHITE rounds the counters are those of chunks, and calm is a process without
work; in the PINK rounds they are those of control messages, and calm is a
process that no longer asks and has nothing to answer. Besides, either what the
round is to find out is so already (`WorkOver`, `MessagesOver`), or the round
will not succeed (`Failing`): were all collected now, with equal sums, there
would be a process that has received more than noted and is still to be
confirmed.

*The argument.* `RoundStarts`, `RoundStays`, `RoundVisits` and `RoundEnds` say
how a round begins, survives the steps of the processes, moves on, and succeeds.
A calm process becomes active only by receiving something; then its counter has
moved on, and the token, which visits it once more before the end, restarts.
When nobody's counter has moved on, the counters noted are those all processes
have at one time, and then `WorkOverFound` derives from `ChunkAccounting` that no
work is held or on its way, and `MessagesOverFound` from `CtrlAccounting` that no
message is. The first stays true because nobody can make work from nothing, the
second because a process that is not WHITE posts no request. With one thread in
each process, the thread that handles the token is not in the middle of an
answer; with several, another one may be, and this is where `TokenRingLostWork`
goes wrong.

### The sharing of requests

`RequestPolicyProofs` proves for every number of threads, the three policies
and every limit that the counter keeps:

| theorem | statement |
|---|---|
| `PolicyInductive` | `Spec => []PolicyInv` |
| `PolicyTypes` | `Spec => []TypeOK` |
| `LimitIsKept` | `Spec => []LimitKept` |
| `DealtToBlockedOnly` | `Spec => []DealtToBlocked` |
| `BlockedHaveAskers` | `Spec => []BlockedHasAsker` |
| `UnitsAreConserved` | `Spec => []UnitsConserved` |

*Assumptions.* `PolicyAssumption`, and `AggressiveCounts`: the limit of
AGGRESSIVE is one or all threads. Between those values `mpi_processing` loses
updates, and `RequestPolicyLimit` violates `LimitKept`. MULTIPLE and PREDICTIVE
may have any limit.

*The inductive invariant.* `PolicyInv` relates, thread by thread, the status,
the place in the program and what has been asked for (`Places`, `Statuses`);
the counter to the number of requests (`Counting`); the lists of MULTIPLE to the
threads that are blocked (`Lists`: nobody is on two of them; `Dealing`: who is
still to be served has an empty stack, and there are enough of them); the units
to what has been created.

*The argument.* A blocked thread takes no step until its status changes, so its
stack stays empty while its asker deals; nobody steals from an empty stack.
The division of an answer under PREDICTIVE is the sum of its shares
(`LibraryTheorems` again), each of which goes to one stack.

### The chunk selector

`ChunkSelectorProofs` proves for every set of options, chunk sizes and speeds,
and any course of the clock:

| theorem | statement |
|---|---|
| `SelectorInductive` | `Spec => []SelectorInv` |
| `QueueIsSound` | `Spec => []QueueSound` |
| `BestIsKept` | `Spec => []BestSurvives` |
| `TestsAreEven` | `Spec => []TestsEven` |
| `RoundsAreKept` | `Spec => []RoundsPromised` |

*Assumption.* `SelectorAssumption`: the mandatory chunk sizes are a finite set,
not empty and within the number that may be tested; tolerances are
percentages below 100.

*The inductive invariants.* `SelectorInv`: types; the speeds of a chunk are in
order and none is above `bestSpeedGlobal` (`Measured`); a chunk that has not
been tested waits (`Tested`); `QueueSound`. `EvenInv` rests on it. Call the
rank of a chunk its tests, with the one it waits for. Either all ranks are
equal and those that wait are the larger ones (`AllAlike`: no level has been
left half done), or the chunks from some size on are one test behind the others
and come first in the queue (`OneBehind`), or the ranks differ by less than
both the level and the deadlines that have passed (`Within`). `RoundInv` counts
the rounds that have begun (`Begun`: those of the levels before, a partial sum of
the preset, and those of the level under way): no rank is above that number and
one, and every rank is equal to it as long as no deadline has passed
(`Ranked`); `AtRound` keeps `phase2I`, `phase2J` and `actualBlock` in step, so
that a level that has begun is not over.

*The argument.* Discarding and testing change no rank. A level that is left
half done puts the chunk whose turn it was first, so that the ranks it leaves
behind are those of a round begun at another chunk: `AllAlike` becomes
`OneBehind`. A second one may start with the smallest chunk and add one to the
difference; from then on each level adds one at most, and needs a deadline to
do so. Each new round adds one to `Begun` (`BegunAdvances`), and so does a level
that is entered late, which skips its first round but is given two at least
(`BegunSkips`); when the levels are over, `Begun` is the whole sum (`BegunEnds`).

### Data movement

`DataMovementProofs` proves for every arity, every number of processes and
every set of calls:

| theorem | statement |
|---|---|
| `SendersPrecedeReceivers` | `Spec => []SendersFirst` |
| `PlansAreAgreed` | `Spec => []PlansAgree` |
| `ResultsHaveRoom` | `Spec => []ResultsFit` |
| `NobodyIsStuck` | `Spec => []NoDeadlock` |
| `ProblemsArePartitioned` | `Spec => []ProblemsPartitioned` |

*Assumption.* `CasesAssumption`: at least two children and two processes.

*The plan of a level.* Let a level have g problems, which come from g / n of the
level above. A rank that had one problem more than the others in the level above
has n more now. `SurplusOfRank` shows, from bounds on the quotients
(`DivBounds`), that each of those ranks has at least what it is due, whatever
the remainders are, and each other rank at most. As the former are the first
ranks, senders come first (`SendersFirstAtLevel`). What a state has to provide
is that every rank's count is a natural number (`CountOK`, inductive).

*Both ends agree.* A surplus adds up to what is lacking, so the surplus
problems, counted over the ranks, are numbered like the lacking ones, and
`destination_first_external_problem` and `source_first_external_problem` look up
the same number from both ends. A transferred part has a key: direction, level,
number of the slot, part. Keys are ordered as the call goes through them
(`Prec`). `Own(r, k)` says that r is one end of the transfer k; `PassedOf(r)` is
the set of the keys r has sent or received, which is a set of all its keys below
a bound, worked out from `pc`, `nglobal` and `xfer` alone. The inductive
invariant `MovesOK` says of each rank that these describe a point of its own
sequence of levels (`ViewOK`), and of each channel from s to r that it holds,
in the order of the keys, exactly the transfers between both that s has passed
and r has not (`FlowOK`). Sending adds the last key of this list and receiving
takes the first (`SendKeeps`, `RecvKeeps`, where `FirstIsNext` shows that the
first of the list is the one the receiver is at), and all other steps leave the
lists alone (`QuietStep`). `PlansAgree` follows: what waits is what is expected,
and at the end nothing is left (`NothingLeft`).

*Room.* The share of a rank grows from each level to the next (`SharesGrow`), so
that the buffer made for the last level has room for all (`RoomsOK`, inductive
together with `MovesOK`).

*Nobody is stuck.* Suppose all ranks that are not done wait. Each waits for a key
that it has not passed while the other end has, or the reverse (`AwaitedBy`).
The set of the keys awaited is finite and not empty, so there is a first one k.
The channel decides what the other end of k does: it is not done, it waits too,
and what it waits for comes before k (`WaitsForItem`, `WaitsForEarlier`), which
contradicts the choice of k. This is why it matters that each rank goes through
its transfers in the one order that all share.

*Every problem in one place.* Take a path of child numbers that never ends. The
problems it meets are its prefixes (`On`), except that a base case in the middle
of the decomposition stays the problem of the path while levels go by. The
inductive invariant `ProblemsOK`, together with `MovesOK`, says that every such
path meets exactly one problem (`One`) among those that the ranks have and the
messages carry down (`There`), where `Owned` says which positions of a level
are a rank's, at each point of its loop. It also says that what lies there is a
problem or a blank, never a hole (`CellsOK`, `MailOK`). A split replaces a
problem by its children, of which the path meets one (`ChildOn`, `ChildOf`,
`ParentOf`); a base case moves to its first child, the others are blanks. A
send takes the problem at the position it is at, which `MovesOK` places within
what the rank has beyond its due, and a receive puts the one that the channel
has first into the position that `Owned` leaves out (`SendKeepsProblems`,
`RecvKeepsProblems`; here `FirstIsNext` is needed again: a message on its way
back must not be taken for a problem). What a rank keeps at the end of a level,
and runs, is what it is due (`CommitKeeps`, `RunKeeps`). In a state the places
are finitely many (`PlacesFinite`), so that the longest problem bounds the
paths `ProblemsPartitioned` is about (`PartitionHolds`).

### Calls in a row

`CallSequenceProofs` proves for every number of processes, every set of
programs, buffered sends or not, and whatever the shares by cost are:

| theorem | statement |
|---|---|
| `CallsInductive` | `Spec => []PlanOK /\ [](ChunksFull => CallsOK)` |
| `CallsStayApart` | `Spec => [](ChunksFull /\ RootsKept => CallsDoNotMix)` |
| `ResultsAreOwn` | `Spec => [](ChunksFull /\ RootsKept => OwnResults)` |
| `CallsNeverStick` | `Spec => [](ChunksFull /\ RootsKept => NeverStuck)` |

*Assumptions.* `ProgramsAssumption`: a program is a sequence of at least one
call, a call has at least one problem. `InfoAssumption`: calls with the same Info have
the same problems. `SharesAssumption`: the shares of a call
are natural numbers and together all its problems. `ChunksFull`: in the program
at hand no rank is without problems in a call whose results travel in chunks.
It cannot be dropped: `CallSequenceMixed` violates `CallsDoNotMix` with a rank
that has none. A call without chunks may leave ranks without problems.
`RootsKept`: if a call is given the Info of an earlier one that dealt its problems
out, every worker has problems. It cannot be dropped from `CallsNeverStick`
either, as `RootsLost` shows; the other two have it because a model in which a
collective without a match waits says nothing about what comes after it.

*The plan.* What a worker sends in a call is known beforehand: `Sends(k, r, g)`
is the g-th message of rank r in call k, of `Length(k, r)` (`MessagesAre`). The
portions of the ranks follow each other, by number or by cost (`FirstIs`,
`Portions`). So every message is about problems of its sender
(`SendsAre`), every problem is in one of them (`IsSent`), and what rank 0 waits
for is the sum of what all these messages count for (`ExternalIs`). Where a chunk
is never empty, each message counts for something (`WeightsGrow`).

*The inductive invariant.* `CallsOK` has these parts:

- `PlacesOK`: what the label of a rank says of its counter and its problems, of
  what rank 0 has dealt, and of the `MPI_Gatherv` it has entered;
- `EndsOK`: whoever is past a call knows that rank 0, or everybody, has ended it,
  if the call ends with a broadcast or a barrier;
- `FlowsOK`: the messages on their way from a worker are the last of those it
  has sent; who is ahead of rank 0 has all its messages still on their way; from
  a call that rank 0 has ended, it has received all; and `count` of rank 0 is
  the sum over the workers of what their received messages count for
  (`Collected`);
- `InboxesOK`: the inbox of a worker holds the problems dealt and not yet taken,
  in order, call after call;
- `ResultsOK`: each message received has put its results at their indices, or
  its input into the tree, and later ones have not spoiled them.

*Why calls stay apart.* Suppose rank 0 is in "results" and finds a message. Its
sender is not behind, as rank 0 has received all of the calls it has ended; and
not ahead, as it would be past a call that rank 0 has not ended (`HeadIsOfCall`).
Rank 0 leaves the loop by its count alone. As the count is the sum above, and
no message counts for nothing, the count is complete exactly when the last
message is there (`AllGot`). This is the step that fails with an empty chunk.

*Nobody is stuck.* A worker behind rank 0 does not wait: its problems have been
dealt, its messages received, and the end of its call is over (`BehindGoesOn`).
In a call that ends with a barrier or a broadcast nobody is ahead of rank 0
(`NobodyAhead`). So let rank 0 wait, in each of its four places: there is a
worker in the same call with something for it or from it, and that one would
have to wait for rank 0 in a way that the invariant excludes (`RootGoesOn`).
It is here that all ranks must agree on the broadcasts and on the dealing
(`DealtAlike`, `DealtTogether`, `ToldInTime`), which `RootsKept` provides.

### Only model-checked

- Liveness (`Termination`, `BlockedIsReleased`, `AllDone`), and that the
  conditions under which a rank waits (`Waits`) are those under which none of
  its actions is ENABLED.
- `SharesSettled`: `rec_redistribute` is RECURSIVE, in two ways, and ends for a
  reason that its arguments do not show; the provers cannot be used with it.
  Its consequence for the calls is `SharesAssumption`, which TLC evaluates.
- `RootResultRight` and `InputsComeHome` of DataMovement. They are about results
  and inputs put together over all levels, through the holes that base cases
  left: an induction over data.
- With several threads in a process: that the run ends (`Termination`, in
  `TokenRingThreads`, which also checks `ChunkAccounting` and `WorkConserved`).
  `OneAnswerEach`, `MoppedUp`, `ImplementsPool` and `AllProcessed` are about one
  thread in each process, and none of them holds in the configuration of
  `TokenRingThreads`.

## 5. Findings

- `StackRecursionStealCheck`: with `DPR_ENABLE_CONSISTENCY_CHECKS` or `PROFILE`
  a correct search may stop with "stealStack invariant violated".
- `TokenRingLostWork`: with several threads in a process, work that is in
  `ow_buff` and not yet counted may be lost at the end of a run.
- `RequestPolicyLimit`: under AGGRESSIVE the limit of requests is not kept.

- `CallSequenceMixed`: a rank without problems sends a chunk of no results that
  rank 0 does not wait for, and that the next call receives.

`PROJECT.json` says where each of them arises. With one thread per process the
token is right: `TokenRingTrio`.

Observations that are no more than that:

- A worker that got no problems, when rank 0 dealt them out, keeps no root. Given
  the same Info again it alone enters `create_tree` (DInfo 1006, 883-885; DR 125,
  143), and waits in a broadcast that the others skip. A build with asserts stops
  at DInfo 136 (`elems_per_rank_ == nullptr`) instead. DInfo 66 says that an Info
  may be used again, and tests do so, but not to see what becomes of a rank
  without problems.
- A thread that leaves the barrier of PSR clears `cb_cancel` (591), and may
  wipe out a cancellation that came after the one it has seen. The search still
  ends (`Termination`); a thread stays idle for longer.
- A level of the chunk selector that is entered because the one before was late
  starts at its second round (669), so that a preset of one round gives two
  (730-731); `RoundsPromised` allows for it. If it is late just when a round is
  over it starts with the smallest chunk and not with the one whose turn it is;
  `TestsEven` allows for that.
- `AutomaticChunkOptions` reduces a `subMode` of 7 to 6 (88), although the
  table of presets has a row for it and two of the presets ask for it (99, 116).
- A default chunk size that is not among the mandatory ones is added to them
  before the limit of chunk sizes to test is looked at.
- `rec_redistribute` moves a problem only if the costliest rank becomes cheaper
  than it was, and stops at a rank with one problem. It may leave ranks without
  problems (costs 1, 1, 1, 8 on three ranks: 3, 1 and 0 problems), and costs
  0, 2, 0, 1, 2 are shared out less evenly than by blocks.

## 6. Not modelled, and why

- How `run_test` finds the number of problems that a test takes
  (`mapSizeTestChunks`), and `estimateNeededTimePerTest`: floating point and
  measured time.
- `thread_barrier`: TokenRing takes it as a barrier. Planned.
- Serialization, the buffers' sizes, what `MPI_Gatherv` and `MPI_Scatterv` are
  told about memory. The contents of problems and results.
- Of DR: `Scatter`, `DistributedInput`, `enableResultAllgatherv`; the
  decomposition by rank 0 or by every rank (CallSequence is given the costs of
  its result), the order in which `reduction` visits levels of variable arity,
  the time limit of `Balance` with its broadcast; the data that `ReplicateInput`
  broadcasts (it is one step, and only who waits for it is told apart). DataMovement has one call;
  it takes `is_base(T())` to be true, which the code needs as soon as a base
  case moves down; BufferedDInfo and SafeLoad are not told apart.
- Memory models weaker than sequential consistency.
- Several runs of a stack skeleton one after the other, with messages left over
  from an earlier one.
- The combination of MULTIPLE or PREDICTIVE with the token: TokenRing has
  AGGRESSIVE, RequestPolicy has no colours. The gap behind
  `TokenRingLostWork` does not depend on the policy.
- Fixed stacks (`DPR_DENY_STACK_RESIZE`), whose overflow ends the program.
- TBB tasks, sequential twins, ranges, alias vectors: nothing of their own that
  interleaves.
- The benchmarks and reference programs, which are not the library.

## 7. Plan

Done, in this order: `WorkPool` and `StackRecursion` (the core that both stack
skeletons share); its proofs; `DistributedPool` and `TokenRing`;
`RequestPolicy`; `DataMovement`; `Distribution` and `CallSequence`;
`ChunkSelector`; the proofs of the refinements of `StackRecursion` and
`TokenRing`, of `RequestPolicy` and of `ChunkSelector`; those of `DataMovement`
and of `CallSequence`.

Next, the most important first:

1. `rec_redistribute` as a recursive function over shares, to prove from it what
   `CallSequence` assumes of shares by cost; `RootResultRight` of `DataMovement`
   from what `ProblemsOK` says of the levels.
2. `reduction` for levels of variable arity, and the decomposition by one rank.
3. `ThreadBarrier`: `thread_barrier` with its generations, implementing an
   abstract barrier; a proof that nobody leaves early.
4. The rounds of `run_test` over several processes.

## 8. Running

    tlc -workers 2 -config TokenRingTrio.cfg MCTokenRing.tla
    tlapm StackRecursionProofs.tla

The module of each run is in `PROJECT.json`.
