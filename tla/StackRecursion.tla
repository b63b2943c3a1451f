--------------------------- MODULE StackRecursion ---------------------------
(***************************************************************************)
(* parallel_stack_recursion.h: num_total_threads threads work through a    *)
(* tree of problems, each on a stack of its own.  The slots of a stack     *)
(*                                                                         *)
(*      sharedStart ........ local ........ top ........ stackSize         *)
(*          shared portion     local portion      free                     *)
(*                                                                         *)
(* below local may be stolen, a chunk at a time, under the stack's lock;   *)
(* the owner works above local without the lock, and moves local up (a     *)
(* release) without it too.  A thread that finds no work waits at a        *)
(* barrier that is cancelled whenever a thread releases work and that ends *)
(* the search when all the threads have arrived.                           *)
(*                                                                         *)
(* An action is one access to shared memory together with the accesses to  *)
(* the thread's own data around it; threads interleave between them.  The  *)
(* value of a problem is its name, and a Return is the set of problems     *)
(* whose results have been reduced into it.  A slot that holds no live     *)
(* problem holds NoNode, so that reading it at the wrong moment shows.     *)
(***************************************************************************)
EXTENDS Integers, Sequences, FiniteSets

CONSTANTS
    N,                  \* num_total_threads
    Chunk,              \* chunkSize
    InitialStackSize,   \* internal::initialStackSize()
    Node, Root, Children, Subtree,   \* the recursion: see WorkPool
    Parallel,           \* the problems for which Partitioner::do_parallel holds
    Throwing,           \* the problems for which a function of the body throws
    Testing,            \* TRUE: run_thread_test, FALSE: run_thread
    TestSize,           \* testSize of run_thread_test
    NoNode              \* no problem

ASSUME SizesAssumption ==
    /\ N \in Nat \ {0}
    /\ Chunk \in Nat \ {0}
    /\ InitialStackSize \in Nat \ {0}
    /\ TestSize \in Nat
    /\ Testing \in BOOLEAN

ASSUME TreeAssumption ==
    /\ Root \in Node
    /\ NoNode \notin Node
    /\ Children \in [Node -> Seq(Node)]
    /\ Subtree \in [Node -> SUBSET Node]
    /\ Parallel \subseteq Node
    /\ Throwing \subseteq Node

\* info.child(i, n) makes a problem of its own each time: a node stands for
\* the problem and the way it was reached, not for its value, and so has one
\* parent.  Everything below the root is a problem of the call.
ASSUME RecursionAssumption ==
    /\ Subtree[Root] = Node
    /\ \A n \in Node :
         /\ Subtree[n] = {n} \cup UNION {Subtree[Children[n][i]] : i \in DOMAIN Children[n]}
         /\ \A i, j \in DOMAIN Children[n] :
              /\ n \notin Subtree[Children[n][i]]
              /\ i # j => Subtree[Children[n][i]] \cap Subtree[Children[n][j]] = {}

Thread == 0 .. N - 1
NoThread == -1

VARIABLES
    \* struct StealStack, one per thread
    stack,          \* the vector, a function on 0 .. stackSize - 1
    sharedStart,
    local,
    top,
    stackSize,
    stackLock,      \* the thread that holds the mutex, or NoThread
    nNodes,         \* problems examined (kept only by run_thread_test)
    \* struct cb_t, and the exception pointer
    cb_count,
    cb_cancel,
    cb_done,
    globalExceptionPtr,
    \* run_thread's own state
    pc,
    r,              \* the Return the thread accumulates
    scan,           \* findwork: how many threads it has looked at, plus one
    seenLocal,      \* findwork: the local it has just read
    victimId,       \* the thread ss_steal is called on
    exitNormally,
    \* run's own state
    joined,         \* number of threads joined
    rr,             \* the Return of run
    outcome         \* "running", "returned" or "rethrown"

stackVars == <<stack, sharedStart, local, top, stackSize, stackLock>>
barrierVars == <<cb_count, cb_cancel, cb_done>>
searchVars == <<scan, seenLocal, victimId>>
testVars == <<nNodes, exitNormally>>
runVars == <<joined, rr, outcome>>

vars == <<stackVars, barrierVars, searchVars, testVars, runVars,
          globalExceptionPtr, pc, r>>

Labels == {"start", "work", "expand", "cut_cancel", "cut_empty", "cancel",
           "find", "find_shared", "steal", "reserve", "copy",
           "arrive", "check", "set_done", "spin", "leave", "clear", "result",
           "throw_done", "throw_cancel", "exited", "aborted"}

\* Where a thread is between its fetch_add and its fetch_sub on cb_count.
AtBarrier == {"check", "set_done", "spin", "leave"}

-----------------------------------------------------------------------------
EmptyStack == [i \in 0 .. InitialStackSize - 1 |-> NoNode]

\* run: cb_init and ss_init, then a thread per stack.
Init ==
    /\ stack = [t \in Thread |-> EmptyStack]
    /\ sharedStart = [t \in Thread |-> 0]
    /\ local = [t \in Thread |-> 0]
    /\ top = [t \in Thread |-> 0]
    /\ stackSize = [t \in Thread |-> InitialStackSize]
    /\ stackLock = [t \in Thread |-> NoThread]
    /\ nNodes = [t \in Thread |-> 0]
    /\ cb_count = 0
    /\ cb_cancel = FALSE
    /\ cb_done = FALSE
    /\ globalExceptionPtr = NoNode
    /\ pc = [t \in Thread |-> "start"]
    /\ r = [t \in Thread |-> {}]
    /\ scan = [t \in Thread |-> 1]
    /\ seenLocal = [t \in Thread |-> 0]
    /\ victimId = [t \in Thread |-> NoThread]
    /\ exitNormally = [t \in Thread |-> TRUE]
    /\ joined = 0
    /\ rr = {}
    /\ outcome = "running"

Goto(t, label) == pc' = [pc EXCEPT ![t] = label]
At(t, label) == pc[t] = label

ss_localDepth(t) == top[t] - local[t]
TopNode(t) == stack[t][top[t] - 1]
Unlocked(t) == stackLock[t] = NoThread

(***************************************************************************)
(* A definition named ...Variant, here and below, is a plausible mistake   *)
(* in the definition that follows it.  Nothing uses it: it is put in the   *)
(* place of that definition to see the property it should break broken.    *)
(***************************************************************************)

\* ss_growStackSize(t): a longer vector; a stack with stolen slots below its
\* live ones is moved down to slot 0, an empty one stays where it is.
ss_growStackSize(t) ==
    LET size == stackSize[t] + stackSize[t] \div 2 + 2
        base == IF top[t] > sharedStart[t] THEN sharedStart[t] ELSE 0
    IN  /\ Unlocked(t)
        /\ stackSize' = [stackSize EXCEPT ![t] = size]
        /\ stack' = [stack EXCEPT ![t] =
                       [i \in 0 .. size - 1 |->
                          IF i + base < top[t] THEN stack[t][i + base] ELSE NoNode]]
        /\ top' = [top EXCEPT ![t] = @ - base]
        /\ local' = [local EXCEPT ![t] = @ - base]
        /\ sharedStart' = [sharedStart EXCEPT ![t] = @ - base]
        /\ UNCHANGED stackLock

\* ss_pop
ss_pop(t) ==
    /\ stack' = [stack EXCEPT ![t][top[t] - 1] = NoNode]
    /\ top' = [top EXCEPT ![t] = @ - 1]
    /\ UNCHANGED <<sharedStart, local, stackSize, stackLock>>

\* Variant: all but a chunk is released, whole chunks or not.
ReleasedUnevenVariant(depth) == IF depth > 2 * Chunk THEN depth - Chunk ELSE 0

\* What releaseMultipleNodes moves from the local portion to the shared one,
\* given the local depth: all its chunks but the topmost.
ReleasedNodes(depth) ==
    IF depth > 2 * Chunk THEN Chunk * (depth \div Chunk - 1) ELSE 0

-----------------------------------------------------------------------------
(* run_thread: the local work *)

\* Thread 0 puts the root on its stack; every thread enters the search.
Start(t) ==
    /\ At(t, "start")
    /\ IF t = 0
       THEN /\ stack' = [stack EXCEPT ![0][top[0]] = Root]
            /\ top' = [top EXCEPT ![0] = @ + 1]
       ELSE UNCHANGED <<stack, top>>
    /\ Goto(t, "work")
    /\ UNCHANGED <<sharedStart, local, stackSize, stackLock, barrierVars,
                   searchVars, testVars, runVars, globalExceptionPtr, r>>

\* The head of the local work loop: there is a problem on top of the stack.
Examining(t) == At(t, "work") /\ ss_localDepth(t) > 0

\* run_thread_test gives up: too many problems, or another thread gave up.
OverLimit(t) == Testing /\ (nNodes[t] > TestSize \/ cb_done)

Count(t) ==
    nNodes' = IF Testing THEN [nNodes EXCEPT ![t] = @ + 1] ELSE nNodes

\* A base case, or a problem without children, or one that the partitioner
\* declines to split and that is solved in place with everything below it.
SolveInPlace(t) ==
    LET n == TopNode(t)
        solved == IF n \in Parallel THEN {n} ELSE Subtree[n]
    IN  /\ Examining(t)
        /\ ~OverLimit(t)
        /\ n \in Parallel => Children[n] = <<>>
        /\ solved \cap Throwing = {}
        /\ r' = [r EXCEPT ![t] = @ \cup solved]
        /\ Count(t)
        /\ ss_pop(t)
        /\ UNCHANGED <<pc, barrierVars, searchVars, exitNormally, runVars,
                       globalExceptionPtr>>

\* A problem to be split: pre, pre_rec and post(non_base) have run.
Examine(t) ==
    LET n == TopNode(t)
    IN  /\ Examining(t)
        /\ ~OverLimit(t)
        /\ n \in Parallel
        /\ Children[n] # <<>>
        /\ n \notin Throwing
        /\ Count(t)
        /\ Goto(t, "expand")
        /\ UNCHANGED <<stackVars, barrierVars, searchVars, exitNormally,
                       runVars, globalExceptionPtr, r>>

\* ss_checkStackSize, one turn of its loop.
GrowToExpand(t) ==
    /\ At(t, "expand")
    /\ top[t] + Len(Children[TopNode(t)]) > stackSize[t]
    /\ ss_growStackSize(t)
    /\ UNCHANGED <<pc, barrierVars, searchVars, testVars, runVars,
                   globalExceptionPtr, r>>

\* Variant: the parent stays in its slot, below its children.
ExpandKeepingParentVariant(t) ==
    LET n == TopNode(t)
        kids == Children[n]
        slot == top[t]
        newTop == slot + Len(kids)
        released == ReleasedNodes(newTop - local[t])
    IN  /\ At(t, "expand")
        /\ top[t] + Len(kids) <= stackSize[t]
        /\ r' = [r EXCEPT ![t] = @ \cup {n}]
        /\ stack' = [stack EXCEPT ![t] =
                       [i \in DOMAIN @ |-> IF i \in slot .. newTop - 1
                                           THEN kids[i - slot + 1] ELSE @[i]]]
        /\ top' = [top EXCEPT ![t] = newTop]
        /\ local' = [local EXCEPT ![t] = @ + released]
        /\ Goto(t, IF newTop - local[t] > 2 * Chunk THEN "cancel" ELSE "work")
        /\ UNCHANGED <<sharedStart, stackSize, stackLock, barrierVars,
                       searchVars, testVars, runVars, globalExceptionPtr>>

\* The first child takes the slot of its parent and the others are pushed on
\* it; then releaseMultipleNodes shares what lies deep enough.
Expand(t) ==
    LET n == TopNode(t)
        kids == Children[n]
        slot == top[t] - 1
        newTop == slot + Len(kids)
        released == ReleasedNodes(newTop - local[t])
    IN  /\ At(t, "expand")
        /\ top[t] + Len(kids) <= stackSize[t]
        /\ r' = [r EXCEPT ![t] = @ \cup {n}]
        /\ stack' = [stack EXCEPT ![t] =
                       [i \in DOMAIN @ |-> IF i \in slot .. newTop - 1
                                           THEN kids[i - slot + 1] ELSE @[i]]]
        /\ top' = [top EXCEPT ![t] = newTop]
        /\ local' = [local EXCEPT ![t] = @ + released]
        /\ Goto(t, IF newTop - local[t] > 2 * Chunk THEN "cancel" ELSE "work")
        /\ UNCHANGED <<sharedStart, stackSize, stackLock, barrierVars,
                       searchVars, testVars, runVars, globalExceptionPtr>>

\* cbarrier_cancel
Cancel(t) ==
    /\ At(t, "cancel")
    /\ cb_cancel' = TRUE
    /\ Goto(t, "work")
    /\ UNCHANGED <<stackVars, cb_count, cb_done, searchVars, testVars, runVars,
                   globalExceptionPtr, r>>

-----------------------------------------------------------------------------
(* run_thread_test: the test is cut short *)

\* Variant: the thread still says that it has left normally.
CutSilentVariant(t) ==
    /\ Examining(t)
    /\ OverLimit(t)
    /\ nNodes' = [nNodes EXCEPT ![t] = @ + 1]
    /\ cb_done' = TRUE
    /\ Goto(t, "cut_cancel")
    /\ UNCHANGED <<stackVars, cb_count, cb_cancel, searchVars, exitNormally,
                   runVars, globalExceptionPtr, r>>

Cut(t) ==
    /\ Examining(t)
    /\ OverLimit(t)
    /\ nNodes' = [nNodes EXCEPT ![t] = @ + 1]
    /\ exitNormally' = [exitNormally EXCEPT ![t] = FALSE]
    /\ cb_done' = TRUE
    /\ Goto(t, "cut_cancel")
    /\ UNCHANGED <<stackVars, cb_count, cb_cancel, searchVars, runVars,
                   globalExceptionPtr, r>>

CutCancel(t) ==
    /\ At(t, "cut_cancel")
    /\ cb_cancel' = TRUE
    /\ Goto(t, "cut_empty")
    /\ UNCHANGED <<stackVars, cb_count, cb_done, searchVars, testVars, runVars,
                   globalExceptionPtr, r>>

\* Variant: the lock is not taken.
CutEmptyUnlockedVariant(t) ==
    /\ At(t, "cut_empty")
    /\ stack' = [stack EXCEPT ![t] = [i \in DOMAIN @ |-> NoNode]]
    /\ sharedStart' = [sharedStart EXCEPT ![t] = 0]
    /\ local' = [local EXCEPT ![t] = 0]
    /\ top' = [top EXCEPT ![t] = 0]
    /\ Goto(t, "work")
    /\ UNCHANGED <<stackSize, stackLock, barrierVars, searchVars, testVars,
                   runVars, globalExceptionPtr, r>>

\* Variant: the lock is not released.
CutEmptyHoldingVariant(t) ==
    /\ At(t, "cut_empty")
    /\ Unlocked(t)
    /\ stackLock' = [stackLock EXCEPT ![t] = t]
    /\ stack' = [stack EXCEPT ![t] = [i \in DOMAIN @ |-> NoNode]]
    /\ sharedStart' = [sharedStart EXCEPT ![t] = 0]
    /\ local' = [local EXCEPT ![t] = 0]
    /\ top' = [top EXCEPT ![t] = 0]
    /\ Goto(t, "work")
    /\ UNCHANGED <<stackSize, barrierVars, searchVars, testVars, runVars,
                   globalExceptionPtr, r>>

\* ss_mkEmpty
CutEmpty(t) ==
    /\ At(t, "cut_empty")
    /\ Unlocked(t)
    /\ stack' = [stack EXCEPT ![t] = [i \in DOMAIN @ |-> NoNode]]
    /\ sharedStart' = [sharedStart EXCEPT ![t] = 0]
    /\ local' = [local EXCEPT ![t] = 0]
    /\ top' = [top EXCEPT ![t] = 0]
    /\ Goto(t, "work")
    /\ UNCHANGED <<stackSize, stackLock, barrierVars, searchVars, testVars,
                   runVars, globalExceptionPtr, r>>

-----------------------------------------------------------------------------
(* run_thread: a function of the body throws, on the problem at the top or *)
(* on one below it that is being solved in place.  pre runs before         *)
(* run_thread_test looks at its limit, so the limit does not matter here.  *)

\* Variant: the exception is not recorded.
ThrowUnrecordedVariant(t) ==
    /\ Examining(t)
    /\ TopNode(t) \in Throwing
    /\ Goto(t, "throw_done")
    /\ UNCHANGED <<stackVars, barrierVars, searchVars, testVars, runVars,
                   globalExceptionPtr, r>>

Throw(t) ==
    LET n == TopNode(t)
        touched == IF n \in Parallel THEN {n} ELSE Subtree[n]
    IN  /\ Examining(t)
        /\ \E m \in touched \cap Throwing :
             globalExceptionPtr' = m
        /\ Goto(t, "throw_done")
        /\ UNCHANGED <<stackVars, barrierVars, searchVars, testVars, runVars, r>>

ThrowDone(t) ==
    /\ At(t, "throw_done")
    /\ cb_done' = TRUE
    /\ Goto(t, "throw_cancel")
    /\ UNCHANGED <<stackVars, cb_count, cb_cancel, searchVars, testVars,
                   runVars, globalExceptionPtr, r>>

\* The thread ends here: its r is lost, and it never arrives at the barrier.
ThrowCancel(t) ==
    /\ At(t, "throw_cancel")
    /\ cb_cancel' = TRUE
    /\ Goto(t, "aborted")
    /\ UNCHANGED <<stackVars, cb_count, cb_done, searchVars, testVars, runVars,
                   globalExceptionPtr, r>>

-----------------------------------------------------------------------------
(* run_thread: the local work is exhausted *)

\* Variant: a last shared chunk is left behind.
AcquireStrictVariant(t) ==
    LET avail == local[t] - sharedStart[t]
    IN  /\ At(t, "work")
        /\ ss_localDepth(t) <= 0
        /\ Unlocked(t)
        /\ IF avail > Chunk
           THEN /\ local' = [local EXCEPT ![t] = @ - Chunk]
                /\ UNCHANGED <<pc, scan>>
           ELSE /\ Goto(t, "find")
                /\ scan' = [scan EXCEPT ![t] = 1]
                /\ UNCHANGED local
        /\ UNCHANGED <<stack, sharedStart, top, stackSize, stackLock,
                       barrierVars, seenLocal, victimId, testVars, runVars,
                       globalExceptionPtr, r>>

\* ss_acquire: the topmost shared chunk becomes local again.
Acquire(t) ==
    LET avail == local[t] - sharedStart[t]
    IN  /\ At(t, "work")
        /\ ss_localDepth(t) <= 0
        /\ Unlocked(t)
        /\ IF avail >= Chunk
           THEN /\ local' = [local EXCEPT ![t] = @ - Chunk]
                /\ UNCHANGED <<pc, scan>>
           ELSE /\ Goto(t, "find")
                /\ scan' = [scan EXCEPT ![t] = 1]
                /\ UNCHANGED local
        /\ UNCHANGED <<stack, sharedStart, top, stackSize, stackLock,
                       barrierVars, seenLocal, victimId, testVars, runVars,
                       globalExceptionPtr, r>>

\* findwork: the other threads are looked at in turn, without their locks.
Candidate(t) == (t + scan[t]) % N

FindLocal(t) ==
    /\ At(t, "find")
    /\ scan[t] < N
    /\ seenLocal' = [seenLocal EXCEPT ![t] = local[Candidate(t)]]
    /\ Goto(t, "find_shared")
    /\ UNCHANGED <<stackVars, barrierVars, scan, victimId, testVars, runVars,
                   globalExceptionPtr, r>>

FindShared(t) ==
    /\ At(t, "find_shared")
    /\ IF seenLocal[t] - sharedStart[Candidate(t)] >= Chunk
       THEN /\ victimId' = [victimId EXCEPT ![t] = Candidate(t)]
            /\ Goto(t, "steal")
            /\ UNCHANGED scan
       ELSE /\ scan' = [scan EXCEPT ![t] = @ + 1]
            /\ Goto(t, "find")
            /\ UNCHANGED victimId
    /\ seenLocal' = [seenLocal EXCEPT ![t] = 0]
    /\ UNCHANGED <<stackVars, barrierVars, testVars, runVars,
                   globalExceptionPtr, r>>

\* findwork has returned -1.
NothingFound(t) == At(t, "find") /\ scan[t] >= N

\* ss_steal makes room for a chunk in the thief's own stack...
GrowToSteal(t) ==
    /\ At(t, "steal")
    /\ top[t] + Chunk >= stackSize[t]
    /\ ss_growStackSize(t)
    /\ UNCHANGED <<pc, barrierVars, searchVars, testVars, runVars,
                   globalExceptionPtr, r>>

\* Variant: anything that is available is good enough.
LockVictimAnyVariant(t) ==
    LET v == victimId[t]
    IN  /\ At(t, "steal")
        /\ top[t] + Chunk < stackSize[t]
        /\ Unlocked(v)
        /\ stackLock' = [stackLock EXCEPT ![v] = t]
        /\ seenLocal' = [seenLocal EXCEPT ![t] = local[v]]
        /\ Goto(t, "reserve")
        /\ UNCHANGED <<stack, sharedStart, local, top, stackSize, barrierVars,
                       scan, victimId, testVars, runVars, globalExceptionPtr, r>>

\* ...then locks the victim's stack and looks again at what is available...
LockVictim(t) ==
    LET v == victimId[t]
    IN  /\ At(t, "steal")
        /\ top[t] + Chunk < stackSize[t]
        /\ Unlocked(v)
        /\ IF local[v] - sharedStart[v] >= Chunk
           THEN /\ stackLock' = [stackLock EXCEPT ![v] = t]
                /\ seenLocal' = [seenLocal EXCEPT ![t] = local[v]]
                /\ Goto(t, "reserve")
                /\ UNCHANGED scan
           ELSE /\ Goto(t, "find")
                /\ scan' = [scan EXCEPT ![t] = 1]
                /\ UNCHANGED <<stackLock, seenLocal>>
        /\ UNCHANGED <<stack, sharedStart, local, top, stackSize, barrierVars,
                       victimId, testVars, runVars, globalExceptionPtr, r>>

\* ...takes the bottom chunk out of the victim's shared portion...
Reserve(t) ==
    /\ At(t, "reserve")
    /\ sharedStart' = [sharedStart EXCEPT ![victimId[t]] = @ + Chunk]
    /\ seenLocal' = [seenLocal EXCEPT ![t] = 0]
    /\ Goto(t, "copy")
    /\ UNCHANGED <<stack, local, top, stackSize, stackLock, barrierVars, scan,
                   victimId, testVars, runVars, globalExceptionPtr, r>>

\* The slots reserved by thief t.
Reserved(t) == sharedStart[victimId[t]] - Chunk .. sharedStart[victimId[t]] - 1

\* ...and copies it onto its own stack.
Copy(t) ==
    LET v == victimId[t]
        from == sharedStart[v] - Chunk
    IN  /\ At(t, "copy")
        /\ stack' =
             [stack EXCEPT
               ![t] = [i \in DOMAIN @ |-> IF i \in top[t] .. top[t] + Chunk - 1
                                          THEN stack[v][from + i - top[t]]
                                          ELSE @[i]],
               ![v] = [i \in DOMAIN @ |-> IF i \in Reserved(t)
                                          THEN NoNode ELSE @[i]]]
        /\ top' = [top EXCEPT ![t] = @ + Chunk]
        /\ stackLock' = [stackLock EXCEPT ![v] = NoThread]
        /\ Goto(t, "work")
        /\ UNCHANGED <<sharedStart, local, stackSize, barrierVars, searchVars,
                       testVars, runVars, globalExceptionPtr, r>>

-----------------------------------------------------------------------------
(* cbarrier_wait *)

Arrive(t) ==
    /\ NothingFound(t)
    /\ cb_count' = cb_count + 1
    /\ Goto(t, "check")
    /\ UNCHANGED <<stackVars, cb_cancel, cb_done, searchVars, testVars, runVars,
                   globalExceptionPtr, r>>

\* Variant: one thread may be missing.
CheckEarlyVariant(t) ==
    /\ At(t, "check")
    /\ Goto(t, IF cb_count >= N - 1 THEN "set_done" ELSE "spin")
    /\ UNCHANGED <<stackVars, barrierVars, searchVars, testVars, runVars,
                   globalExceptionPtr, r>>

\* The count is loaded again: it is not the one fetch_add has seen.
Check(t) ==
    /\ At(t, "check")
    /\ Goto(t, IF cb_count = N THEN "set_done" ELSE "spin")
    /\ UNCHANGED <<stackVars, barrierVars, searchVars, testVars, runVars,
                   globalExceptionPtr, r>>

SetDone(t) ==
    /\ At(t, "set_done")
    /\ cb_done' = TRUE
    /\ Goto(t, "spin")
    /\ UNCHANGED <<stackVars, cb_count, cb_cancel, searchVars, testVars,
                   runVars, globalExceptionPtr, r>>

Spin(t) ==
    /\ At(t, "spin")
    /\ cb_cancel \/ cb_done
    /\ Goto(t, "leave")
    /\ UNCHANGED <<stackVars, barrierVars, searchVars, testVars, runVars,
                   globalExceptionPtr, r>>

\* Variant: the thread stays counted.
LeaveCountedVariant(t) ==
    /\ At(t, "leave")
    /\ Goto(t, "clear")
    /\ UNCHANGED <<stackVars, barrierVars, searchVars, testVars, runVars,
                   globalExceptionPtr, r>>

Leave(t) ==
    /\ At(t, "leave")
    /\ cb_count' = cb_count - 1
    /\ Goto(t, "clear")
    /\ UNCHANGED <<stackVars, cb_cancel, cb_done, searchVars, testVars, runVars,
                   globalExceptionPtr, r>>

Clear(t) ==
    /\ At(t, "clear")
    /\ cb_cancel' = FALSE
    /\ Goto(t, "result")
    /\ UNCHANGED <<stackVars, cb_count, cb_done, searchVars, testVars, runVars,
                   globalExceptionPtr, r>>

\* The value cbarrier_wait returns is read last.
Result(t) ==
    /\ At(t, "result")
    /\ Goto(t, IF cb_done THEN "exited" ELSE "work")
    /\ UNCHANGED <<stackVars, barrierVars, searchVars, testVars, runVars,
                   globalExceptionPtr, r>>

-----------------------------------------------------------------------------
(* run *)

\* Threads are joined in order, and the result of each is reduced into rr as
\* long as no exception is known.
Join ==
    /\ joined < N
    /\ pc[joined] \in {"exited", "aborted"}
    /\ joined' = joined + 1
    /\ rr' = IF globalExceptionPtr = NoNode THEN rr \cup r[joined] ELSE rr
    /\ UNCHANGED <<stackVars, barrierVars, searchVars, testVars, outcome,
                   globalExceptionPtr, pc, r>>

Finish ==
    /\ joined = N
    /\ outcome = "running"
    /\ outcome' = IF globalExceptionPtr = NoNode THEN "returned" ELSE "rethrown"
    /\ UNCHANGED <<stackVars, barrierVars, searchVars, testVars, joined, rr,
                   globalExceptionPtr, pc, r>>

ThreadStep(t) ==
    \/ Start(t) \/ SolveInPlace(t) \/ Examine(t) \/ GrowToExpand(t) \/ Expand(t)
    \/ Cancel(t) \/ Cut(t) \/ CutCancel(t) \/ CutEmpty(t)
    \/ Throw(t) \/ ThrowDone(t) \/ ThrowCancel(t)
    \/ Acquire(t) \/ FindLocal(t) \/ FindShared(t)
    \/ GrowToSteal(t) \/ LockVictim(t) \/ Reserve(t) \/ Copy(t)
    \/ Arrive(t) \/ Check(t) \/ SetDone(t) \/ Spin(t) \/ Leave(t) \/ Clear(t)
    \/ Result(t)

Next == (\E t \in Thread : ThreadStep(t)) \/ Join \/ Finish

Spec == Init /\ [][Next]_vars

\* The operating system runs every thread that can take a step, the caller's
\* among them.
FairSpec ==
    /\ Spec
    /\ \A t \in Thread : WF_vars(ThreadStep(t))
    /\ WF_vars(Join \/ Finish)

-----------------------------------------------------------------------------
(* Properties *)

Live(t) == sharedStart[t] .. top[t] - 1
Copying(t) == At(t, "copy")
InFlight(v) == UNION {Reserved(t) : t \in {u \in Thread : Copying(u) /\ victimId[u] = v}}

\* The problems that lie in some slot of some stack.
OnStacks == (UNION {{stack[t][i] : i \in DOMAIN stack[t]} : t \in Thread}) \ {NoNode}
Processed == UNION {r[t] : t \in Thread}

\* Nobody has thrown or cut the search short.
Undisturbed ==
    /\ \A t \in Thread : pc[t] \notin {"throw_done", "throw_cancel", "aborted"}
    /\ \A t \in Thread : exitNormally[t]

IndexTypeOK ==
    /\ stackSize \in [Thread -> Nat \ {0}]
    /\ sharedStart \in [Thread -> Nat]
    /\ local \in [Thread -> Nat]
    /\ top \in [Thread -> Nat]
    /\ stackLock \in [Thread -> Thread \cup {NoThread}]

VectorTypeOK ==
    /\ DOMAIN stack = Thread
    /\ \A t \in Thread : stack[t] \in [0 .. stackSize[t] - 1 -> Node \cup {NoNode}]

ThreadTypeOK ==
    /\ nNodes \in [Thread -> Nat]
    /\ pc \in [Thread -> Labels]
    /\ r \in [Thread -> SUBSET Node]
    /\ scan \in [Thread -> 1 .. N]
    /\ seenLocal \in [Thread -> Nat]
    /\ victimId \in [Thread -> Thread \cup {NoThread}]
    /\ exitNormally \in [Thread -> BOOLEAN]

SharedTypeOK ==
    /\ cb_count \in 0 .. N
    /\ cb_cancel \in BOOLEAN
    /\ cb_done \in BOOLEAN
    /\ globalExceptionPtr \in Throwing \cup {NoNode}
    /\ joined \in 0 .. N
    /\ rr \in SUBSET Node
    /\ outcome \in {"running", "returned", "rethrown"}

TypeOK == IndexTypeOK /\ VectorTypeOK /\ ThreadTypeOK /\ SharedTypeOK

\* The indices of every stack keep their order, and the shared portion is
\* made of whole chunks, although its owner moves local up without the lock
\* that thieves hold while they move sharedStart: ss_release and ss_acquire
\* against ss_steal and ss_growStackSize.
StackShape ==
    \A t \in Thread :
        /\ sharedStart[t] <= local[t]
        /\ local[t] <= top[t]
        /\ top[t] <= stackSize[t]
        /\ (local[t] - sharedStart[t]) % Chunk = 0

\* A slot holds a problem exactly when it is live or reserved by a thief that
\* is still copying it: no slot is overwritten, moved by a growing vector or
\* emptied while a thief reads it, and no thief reads a slot never written.
SlotsInUse ==
    \A t \in Thread : \A i \in DOMAIN stack[t] :
        stack[t][i] # NoNode <=> i \in Live(t) \cup InFlight(t)

\* "ss_steal: thief attempts to steal onto non-empty stack" and "do not have
\* chunks vals to release" are never reported: a thief has emptied both
\* portions of its stack, and nobody but the owner fills them.
ThiefIsEmpty ==
    \A t \in Thread : pc[t] \in {"steal", "reserve", "copy"} \cup AtBarrier =>
        sharedStart[t] = top[t]

\* "ss_steal: stealStack invariant violated": what the thief reads of local a
\* second time under the victim's lock is what it read the first time.
LocalIsStable ==
    \A t \in Thread : At(t, "reserve") => local[victimId[t]] = seenLocal[t]

\* The barrier ends the search only when there is nothing left anywhere: a
\* thread counts itself in after it has failed to acquire and to steal, but
\* the count it then compares with N is loaded later, while others come and go.
DoneMeansEmpty ==
    cb_done /\ Undisturbed =>
        \A t \in Thread : Live(t) = {} /\ ~Copying(t)

\* If a body function throws in any thread, run does not return normally.
ThrowIsRethrown ==
    outcome = "returned" => \A t \in Thread : pc[t] # "aborted"

\* A test that every thread says it has left normally has visited the whole
\* tree, and one that was cut has not.
ExitNormallyIsExact ==
    outcome = "returned" =>
        ((\A t \in Thread : exitNormally[t]) <=> rr = Node)

\* Every call ends: no cancellation that is overwritten and no thread that
\* leaves the barrier early can leave the others waiting for ever.
Termination == <>(outcome # "running")

-----------------------------------------------------------------------------
(* The promise kept: the detailed program implements the pool of problems *)

Pool == INSTANCE WorkPool WITH
    pending <- IF pc[0] = "start" THEN {Root} ELSE OnStacks,
    processed <- Processed,
    answer <- IF outcome = "returned" THEN rr ELSE {}

ImplementsPool == Pool!WPSpec
=============================================================================
