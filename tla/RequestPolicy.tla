--------------------------- MODULE RequestPolicy ---------------------------
(***************************************************************************)
(* How the threads of one process of dparallel_stack_recursion.h share the *)
(* right to ask other processes for work (the first and last parts of      *)
(* ss_get_work).  Under AGGRESSIVE a thread asks for itself.  Under        *)
(* MULTIPLE it also asks for the idle threads of the process, which it     *)
(* blocks, and deals out what it receives.  Under PREDICTIVE it asks for a *)
(* fixed amount and deals it out to the threads that the limit of          *)
(* simultaneous requests has blocked in the meantime.                      *)
(*                                                                         *)
(* One unit of work is chunkSize * chunksToSteal problems.  The other      *)
(* processes are reduced to what they answer; TokenRing has both sides.    *)
(***************************************************************************)
EXTENDS Integers, FiniteSets, Sequences, SequencesExt, Orders

CONSTANTS
    T,              \* num_total_threads
    Policies,       \* the policies to choose from
    Limits,         \* policy -> mpiWorkRequestLimit; T stands for no limit
    PredictCount,   \* trpPredictWorkCount
    Given,          \* the units thread 0 has at the beginning
    MaxUnits,       \* bound: units of work in a run
    MaxRequests     \* bound: work requests of one thread

Aggressive == "aggressive"
Multiple == "multiple"
Predictive == "predictive"

ASSUME PolicyAssumption ==
    /\ T \in Nat \ {0}
    /\ Policies \subseteq {Aggressive, Multiple, Predictive}
    /\ Limits \in [Policies -> 1..T]
    /\ PredictCount \in 1..T
    /\ MaxUnits \in Nat /\ Given \in 0..MaxUnits
    /\ MaxRequests \in Nat

Thread == 0..(T - 1)
NoThread == -1

\* statusJobSearch: free, blocked until work is found for it, work (or
\* nothing) has been found for it, waiting for an answer.
Free == 0
Blocked == 1
Served == 2
Waiting == 3

VARIABLES
    threadsRequestPolicy,
    localDepth, sharedDepth,    \* the two parts of each stack, in units
    created, processed,         \* units that have come into being, been done
    statusJobSearch,
    mpi_processing,     \* requests the process believes to have under way
    requestStatusMutex, \* its holder, in the steps that need several
    addRequestThreads,  \* addRequestThreads[t]: whom t has asked for, in order
    wanted,             \* wanted[t]: units in t's unanswered request, or 0
    asked,              \* asked[t]: requests t has made
    received,           \* received[t]: units t has to deal out
    dealt,              \* dealt[t]: members of addRequestThreads[t] dealt with
    seen,               \* seen[t]: mpi_processing as t has read it
    pc

stackVars == <<localDepth, sharedDepth, created, processed>>
requestVars == <<wanted, asked>>
dealVars == <<received, dealt>>
vars == <<threadsRequestPolicy, stackVars, statusJobSearch, mpi_processing,
          requestStatusMutex, addRequestThreads, requestVars, dealVars, seen,
          pc>>

Labels == {"work", "search", "getwork", "ask", "increment", "post", "test",
           "deal", "settle", "decrement"}

ss_localFullDepth(t) == localDepth[t] + sharedDepth[t]
Limit == Limits[threadsRequestPolicy]
Unlimited == Limit = T

Init ==
    /\ threadsRequestPolicy \in Policies
    /\ localDepth = [t \in Thread |-> IF t = 0 THEN Given ELSE 0]
    /\ sharedDepth = [t \in Thread |-> 0]
    /\ created = Given
    /\ processed = 0
    /\ statusJobSearch = [t \in Thread |-> Free]
    /\ mpi_processing = 0
    /\ requestStatusMutex = NoThread
    /\ addRequestThreads = [t \in Thread |-> <<>>]
    /\ wanted = [t \in Thread |-> 0]
    /\ asked = [t \in Thread |-> 0]
    /\ received = [t \in Thread |-> 0]
    /\ dealt = [t \in Thread |-> 0]
    /\ seen = [t \in Thread |-> 0]
    /\ pc = [t \in Thread |-> "work"]

Goto(t, from, to) ==
    /\ pc[t] = from
    /\ pc' = [pc EXCEPT ![t] = to]

MutexFree == requestStatusMutex = NoThread

----------------------------------------------------------------------------
(* The tree search: only a free thread works.  (A definition named         *)
(* ...Variant is a plausible mistake in the one it precedes; no            *)
(* specification uses it.)                                                 *)

Solve(t) ==
    /\ pc[t] = "work"
    /\ localDepth[t] > 0
    /\ statusJobSearch[t] = Free
    /\ localDepth' = [localDepth EXCEPT ![t] = @ - 1]
    /\ processed' = processed + 1
    /\ UNCHANGED <<threadsRequestPolicy, sharedDepth, created,
                   statusJobSearch, mpi_processing, requestStatusMutex,
                   addRequestThreads, requestVars, dealVars, seen, pc>>

\* The thread's problems become k units more, and more than two of them are
\* released.
Expand(t, k) ==
    LET depth == localDepth[t] + k IN
    /\ pc[t] = "work"
    /\ localDepth[t] > 0
    /\ statusJobSearch[t] = Free
    /\ created + k <= MaxUnits
    /\ created' = created + k
    /\ IF depth > 2
       THEN /\ localDepth' = [localDepth EXCEPT ![t] = 0]
            /\ sharedDepth' = [sharedDepth EXCEPT ![t] = @ + depth]
       ELSE /\ localDepth' = [localDepth EXCEPT ![t] = depth]
            /\ UNCHANGED sharedDepth
    /\ UNCHANGED <<threadsRequestPolicy, processed, statusJobSearch,
                   mpi_processing, requestStatusMutex, addRequestThreads,
                   requestVars, dealVars, seen, pc>>

\* ss_acquire, when there is no local work or the thread may not do it.
Acquire(t) ==
    /\ pc[t] = "work"
    /\ localDepth[t] = 0 \/ statusJobSearch[t] # Free
    /\ IF sharedDepth[t] >= 1
       THEN /\ localDepth' = [localDepth EXCEPT ![t] = @ + 1]
            /\ sharedDepth' = [sharedDepth EXCEPT ![t] = @ - 1]
            /\ pc' = pc
       ELSE /\ pc' = [pc EXCEPT ![t] = "search"]
            /\ UNCHANGED <<localDepth, sharedDepth>>
    /\ UNCHANGED <<threadsRequestPolicy, created, processed, statusJobSearch,
                   mpi_processing, requestStatusMutex, addRequestThreads,
                   requestVars, dealVars, seen>>

\* ss_steal: except under AGGRESSIVE the thief holds requestStatusMutex, and
\* must be free.
StealHere(t, v) ==
    /\ wanted[t] = 0
    /\ sharedDepth[v] >= 1
    /\ statusJobSearch[t] = Free
    /\ threadsRequestPolicy # Aggressive => MutexFree
    /\ Goto(t, "search", "work")
    /\ localDepth' = [localDepth EXCEPT ![t] = @ + 1]
    /\ sharedDepth' = [sharedDepth EXCEPT ![v] = @ - 1]
    /\ UNCHANGED <<threadsRequestPolicy, created, processed, statusJobSearch,
                   mpi_processing, requestStatusMutex, addRequestThreads,
                   requestVars, dealVars, seen>>

NothingHere(t) ==
    /\ \/ wanted[t] # 0
       \/ statusJobSearch[t] # Free
       \/ \A v \in Thread \ {t} : sharedDepth[v] = 0
    /\ Goto(t, "search", "getwork")
    /\ UNCHANGED <<threadsRequestPolicy, stackVars, statusJobSearch,
                   mpi_processing, requestStatusMutex, addRequestThreads,
                   requestVars, dealVars, seen>>

----------------------------------------------------------------------------
(* ss_get_work, the asking part.                                           *)

\* Variant: a thread that has been served is not set free.
BackToWorkServedVariant(t) ==
    /\ localDepth[t] > 0
    /\ Goto(t, "getwork", "work")
    /\ IF threadsRequestPolicy # Aggressive /\ statusJobSearch[t] = Served
       THEN /\ MutexFree
            /\ statusJobSearch' = [statusJobSearch EXCEPT ![t] = Served]
       ELSE UNCHANGED statusJobSearch
    /\ UNCHANGED <<threadsRequestPolicy, stackVars, mpi_processing,
                   requestStatusMutex, addRequestThreads, requestVars,
                   dealVars, seen>>

\* A thread that has work by now goes back to it, and is free if the work
\* has been found for it.
BackToWork(t) ==
    /\ localDepth[t] > 0
    /\ Goto(t, "getwork", "work")
    /\ IF threadsRequestPolicy # Aggressive /\ statusJobSearch[t] = Served
       THEN /\ MutexFree
            /\ statusJobSearch' = [statusJobSearch EXCEPT ![t] = Free]
       ELSE UNCHANGED statusJobSearch
    /\ UNCHANGED <<threadsRequestPolicy, stackVars, mpi_processing,
                   requestStatusMutex, addRequestThreads, requestVars,
                   dealVars, seen>>

\* One that has none asks, or looks for the answer to what it has asked.
OutOfWork(t) ==
    /\ localDepth[t] = 0
    /\ Goto(t, "getwork",
            IF wanted[t] = 0 THEN "ask" ELSE "test")
    /\ UNCHANGED <<threadsRequestPolicy, stackVars, statusJobSearch,
                   mpi_processing, requestStatusMutex, addRequestThreads,
                   requestVars, dealVars, seen>>

\* Variant: one request more than the limit.
MayAskInclusiveVariant(t) == (Unlimited \/ mpi_processing <= Limit) /\ asked[t] < MaxRequests

\* Within the limit; the last conjunct is the bound of the model.
MayAsk(t) == (Unlimited \/ mpi_processing < Limit) /\ asked[t] < MaxRequests

AskAggressive(t) ==
    /\ threadsRequestPolicy = Aggressive
    /\ pc[t] = "ask"
    /\ IF Unlimited
       THEN /\ pc' = [pc EXCEPT ![t] = IF MayAsk(t) THEN "post" ELSE "test"]
            /\ UNCHANGED <<requestStatusMutex, seen>>
       ELSE /\ MutexFree
            /\ IF MayAsk(t)
               THEN /\ pc' = [pc EXCEPT ![t] = "increment"]
                    /\ requestStatusMutex' = t
                    /\ seen' = [seen EXCEPT ![t] = mpi_processing]
               ELSE /\ pc' = [pc EXCEPT ![t] = "test"]
                    /\ UNCHANGED <<requestStatusMutex, seen>>
    /\ UNCHANGED <<threadsRequestPolicy, stackVars, statusJobSearch,
                   mpi_processing, addRequestThreads, requestVars, dealVars>>

\* ++mpi_processing, under the mutex, writes one more than it has read.
Increment(t) ==
    /\ Goto(t, "increment", "post")
    /\ mpi_processing' = seen[t] + 1
    /\ requestStatusMutex' = NoThread
    /\ UNCHANGED <<threadsRequestPolicy, stackVars, statusJobSearch,
                   addRequestThreads, requestVars, dealVars, seen>>

\* Variant: threads with work on their stacks are blocked too.
IdleBusyVariant(t) == {v \in Thread \ {t} : statusJobSearch[v] = Free}

\* The idle threads t may ask for, in the order of their numbers.
Idle(t) == {v \in Thread \ {t} : statusJobSearch[v] = Free /\ ss_localFullDepth(v) = 0}

\* Variant: the request is not counted.
AskMultipleUncountedVariant(t) ==
    /\ threadsRequestPolicy = Multiple
    /\ MutexFree
    /\ CASE statusJobSearch[t] = Free /\ MayAsk(t) ->
                /\ Goto(t, "ask", "post")
                /\ addRequestThreads' = [addRequestThreads EXCEPT ![t] = Ascending(Idle(t))]
                /\ statusJobSearch' = [v \in Thread |->
                        IF v = t THEN Waiting
                        ELSE IF v \in Idle(t) THEN Blocked ELSE statusJobSearch[v]]
                /\ mpi_processing' = mpi_processing
         [] statusJobSearch[t] = Served ->
                /\ Goto(t, "ask", IF localDepth[t] > 0 THEN "work" ELSE "search")
                /\ statusJobSearch' = [statusJobSearch EXCEPT ![t] = Free]
                /\ UNCHANGED <<mpi_processing, addRequestThreads>>
         [] OTHER ->
                /\ Goto(t, "ask", "test")
                /\ UNCHANGED <<statusJobSearch, mpi_processing, addRequestThreads>>
    /\ UNCHANGED <<threadsRequestPolicy, stackVars, requestStatusMutex,
                   requestVars, dealVars, seen>>

AskMultiple(t) ==
    /\ threadsRequestPolicy = Multiple
    /\ MutexFree
    /\ CASE statusJobSearch[t] = Free /\ MayAsk(t) ->
                /\ Goto(t, "ask", "post")
                /\ addRequestThreads' = [addRequestThreads EXCEPT ![t] = Ascending(Idle(t))]
                /\ statusJobSearch' = [v \in Thread |->
                        IF v = t THEN Waiting
                        ELSE IF v \in Idle(t) THEN Blocked ELSE statusJobSearch[v]]
                /\ mpi_processing' = mpi_processing + (IF Unlimited THEN 0 ELSE 1)
         [] statusJobSearch[t] = Served ->
                /\ Goto(t, "ask", IF localDepth[t] > 0 THEN "work" ELSE "search")
                /\ statusJobSearch' = [statusJobSearch EXCEPT ![t] = Free]
                /\ UNCHANGED <<mpi_processing, addRequestThreads>>
         [] OTHER ->
                /\ Goto(t, "ask", "test")
                /\ UNCHANGED <<statusJobSearch, mpi_processing, addRequestThreads>>
    /\ UNCHANGED <<threadsRequestPolicy, stackVars, requestStatusMutex,
                   requestVars, dealVars, seen>>

AskPredictive(t) ==
    /\ threadsRequestPolicy = Predictive
    /\ MutexFree
    /\ CASE statusJobSearch[t] = Free /\ MayAsk(t) ->
                /\ Goto(t, "ask", "post")
                /\ statusJobSearch' = [statusJobSearch EXCEPT ![t] = Waiting]
                /\ mpi_processing' = mpi_processing + (IF Unlimited THEN 0 ELSE 1)
         [] statusJobSearch[t] = Free /\ ~Unlimited /\ mpi_processing >= Limit ->
                /\ Goto(t, "ask", "test")
                /\ statusJobSearch' = [statusJobSearch EXCEPT ![t] = Blocked]
                /\ UNCHANGED mpi_processing
         [] statusJobSearch[t] = Served ->
                /\ Goto(t, "ask", IF localDepth[t] > 0 THEN "work" ELSE "search")
                /\ statusJobSearch' = [statusJobSearch EXCEPT ![t] = Free]
                /\ UNCHANGED mpi_processing
         [] OTHER ->
                /\ Goto(t, "ask", "test")
                /\ UNCHANGED <<statusJobSearch, mpi_processing>>
    /\ UNCHANGED <<threadsRequestPolicy, stackVars, requestStatusMutex,
                   addRequestThreads, requestVars, dealVars, seen>>

Post(t) ==
    /\ Goto(t, "post", "test")
    /\ asked' = [asked EXCEPT ![t] = @ + 1]
    /\ wanted' = [wanted EXCEPT ![t] =
                    IF threadsRequestPolicy = Predictive THEN PredictCount
                    ELSE 1 + Len(addRequestThreads[t])]
    /\ UNCHANGED <<threadsRequestPolicy, stackVars, statusJobSearch,
                   mpi_processing, requestStatusMutex, addRequestThreads,
                   dealVars, seen>>

----------------------------------------------------------------------------
(* ss_get_work, the part that deals with the answer.                       *)

\* No answer so far.
NoAnswer(t) ==
    /\ Goto(t, "test", IF localDepth[t] > 0 THEN "work" ELSE "search")
    /\ UNCHANGED <<threadsRequestPolicy, stackVars, statusJobSearch,
                   mpi_processing, requestStatusMutex, addRequestThreads,
                   requestVars, dealVars, seen>>

\* Variant: the unit the thread keeps is dealt out once more.
AnswerOffByOneVariant(t, n) ==
    /\ threadsRequestPolicy # Predictive
    /\ n <= wanted[t]
    /\ wanted[t] > 0
    /\ created + n <= MaxUnits
    /\ Goto(t, "test", IF threadsRequestPolicy = Aggressive THEN "settle" ELSE "deal")
    /\ created' = created + n
    /\ localDepth' = [localDepth EXCEPT ![t] = @ + (IF n > 0 THEN 1 ELSE 0)]
    /\ received' = [received EXCEPT ![t] = n]
    /\ dealt' = [dealt EXCEPT ![t] = 0]
    /\ wanted' = [wanted EXCEPT ![t] = 0]
    /\ UNCHANGED <<threadsRequestPolicy, sharedDepth, processed,
                   statusJobSearch, mpi_processing, requestStatusMutex,
                   addRequestThreads, asked, seen>>

\* An answer with n units, none for a refusal: the thread takes one.
Answer(t, n) ==
    /\ threadsRequestPolicy # Predictive
    /\ n <= wanted[t]
    /\ wanted[t] > 0
    /\ created + n <= MaxUnits
    /\ Goto(t, "test", IF threadsRequestPolicy = Aggressive THEN "settle" ELSE "deal")
    /\ created' = created + n
    /\ localDepth' = [localDepth EXCEPT ![t] = @ + (IF n > 0 THEN 1 ELSE 0)]
    /\ received' = [received EXCEPT ![t] = IF n > 0 THEN n - 1 ELSE 0]
    /\ dealt' = [dealt EXCEPT ![t] = 0]
    /\ wanted' = [wanted EXCEPT ![t] = 0]
    /\ UNCHANGED <<threadsRequestPolicy, sharedDepth, processed,
                   statusJobSearch, mpi_processing, requestStatusMutex,
                   addRequestThreads, asked, seen>>

\* MULTIPLE: one unit for each blocked thread in turn, into its stack and
\* without any lock; for the thread itself if that stack is not empty.
Deal(t) ==
    LET v == addRequestThreads[t][dealt[t] + 1]
        desti == IF ss_localFullDepth(v) > 0 THEN t ELSE v
    IN
    /\ pc[t] = "deal"
    /\ received[t] > 0
    /\ localDepth' = [localDepth EXCEPT ![desti] = @ + 1]
    /\ received' = [received EXCEPT ![t] = @ - 1]
    /\ dealt' = [dealt EXCEPT ![t] = @ + 1]
    /\ UNCHANGED <<threadsRequestPolicy, sharedDepth, created, processed,
                   statusJobSearch, mpi_processing, requestStatusMutex,
                   addRequestThreads, requestVars, seen, pc>>

\* Variant: the threads that were not dealt anything stay blocked.
SettleMultipleServedVariant(t) ==
    /\ pc[t] = "deal"
    /\ received[t] = 0
    /\ MutexFree
    /\ pc' = [pc EXCEPT ![t] = IF localDepth[t] > 0 THEN "work" ELSE "search"]
    /\ mpi_processing' = mpi_processing - (IF Unlimited THEN 0 ELSE 1)
    /\ statusJobSearch' = [v \in Thread |->
            IF v = t THEN Free
            ELSE IF \E i \in 1..dealt[t] : v = addRequestThreads[t][i]
                 THEN Served ELSE statusJobSearch[v]]
    /\ addRequestThreads' = [addRequestThreads EXCEPT ![t] = <<>>]
    /\ UNCHANGED <<threadsRequestPolicy, stackVars, requestStatusMutex,
                   requestVars, dealVars, seen>>

\* The request is over: those it was made for are told so, and are free to
\* go on, whether there was work for them or not.
SettleMultiple(t) ==
    /\ pc[t] = "deal"
    /\ received[t] = 0
    /\ MutexFree
    /\ pc' = [pc EXCEPT ![t] = IF localDepth[t] > 0 THEN "work" ELSE "search"]
    /\ mpi_processing' = mpi_processing - (IF Unlimited THEN 0 ELSE 1)
    /\ statusJobSearch' = [v \in Thread |->
            IF v = t THEN Free
            ELSE IF v \in ToSet(addRequestThreads[t])
                 THEN Served ELSE statusJobSearch[v]]
    /\ addRequestThreads' = [addRequestThreads EXCEPT ![t] = <<>>]
    /\ UNCHANGED <<threadsRequestPolicy, stackVars, requestStatusMutex,
                   requestVars, dealVars, seen>>

\* PREDICTIVE: n units for k threads, the first of which is the receiver.
Shares(n, k) ==
    [i \in 0..(k - 1) |->
        IF i = 0 THEN (n \div k) + (IF n % k > 0 THEN 1 ELSE 0)
        ELSE (n \div k) + (IF i < n % k THEN 1 ELSE 0)]

\* Where the share of the i-th thread goes: to its stack if that is empty,
\* else to the receiver's.
Destination(t, blocked, i) ==
    IF i = 0 THEN t
    ELSE IF ss_localFullDepth(blocked[i]) > 0 THEN t ELSE blocked[i]

SharesOf(v, t, blocked, shares) ==
    SumFunctionOnSet(shares, {i \in 0..Len(blocked) : Destination(t, blocked, i) = v})

\* Variant: a refusal does not release the blocked threads.
AnswerPredictiveForgetfulVariant(t, n) ==
    LET blockedSet == {v \in Thread \ {t} : statusJobSearch[v] = Blocked}
        blocked == Ascending(blockedSet)
        shares == Shares(n, Len(blocked) + 1)
    IN
    /\ threadsRequestPolicy = Predictive
    /\ n <= wanted[t]
    /\ wanted[t] > 0
    /\ created + n <= MaxUnits
    /\ MutexFree
    /\ created' = created + n
    /\ localDepth' = [v \in Thread |-> localDepth[v] + SharesOf(v, t, blocked, shares)]
    /\ Goto(t, "test", IF localDepth[t] > 0 \/ n > 0 THEN "work" ELSE "search")
    /\ wanted' = [wanted EXCEPT ![t] = 0]
    /\ mpi_processing' = mpi_processing - (IF Unlimited THEN 0 ELSE 1)
    /\ statusJobSearch' = [v \in Thread |->
            IF v = t THEN Free
            ELSE IF v \in blockedSet /\ n > 0 THEN Served ELSE statusJobSearch[v]]
    /\ UNCHANGED <<threadsRequestPolicy, sharedDepth, processed,
                   requestStatusMutex, addRequestThreads, asked, dealVars,
                   seen>>

\* Under PREDICTIVE all of it happens under requestStatusMutex.
AnswerPredictive(t, n) ==
    LET blockedSet == {v \in Thread \ {t} : statusJobSearch[v] = Blocked}
        blocked == Ascending(blockedSet)
        shares == Shares(n, Len(blocked) + 1)
    IN
    /\ threadsRequestPolicy = Predictive
    /\ n <= wanted[t]
    /\ wanted[t] > 0
    /\ created + n <= MaxUnits
    /\ MutexFree
    /\ created' = created + n
    /\ localDepth' = [v \in Thread |-> localDepth[v] + SharesOf(v, t, blocked, shares)]
    /\ Goto(t, "test", IF localDepth[t] > 0 \/ n > 0 THEN "work" ELSE "search")
    /\ wanted' = [wanted EXCEPT ![t] = 0]
    /\ mpi_processing' = mpi_processing - (IF Unlimited THEN 0 ELSE 1)
    /\ statusJobSearch' = [v \in Thread |->
            IF v = t THEN Free
            ELSE IF v \in blockedSet THEN Served ELSE statusJobSearch[v]]
    /\ UNCHANGED <<threadsRequestPolicy, sharedDepth, processed,
                   requestStatusMutex, addRequestThreads, asked, dealVars,
                   seen>>

\* AGGRESSIVE: --mpi_processing, for which the mutex is not taken.
SettleAggressive(t) ==
    /\ Goto(t, "settle",
            IF ~Unlimited THEN "decrement"
            ELSE IF localDepth[t] > 0 THEN "work" ELSE "search")
    /\ seen' = [seen EXCEPT ![t] = mpi_processing]
    /\ UNCHANGED <<threadsRequestPolicy, stackVars, statusJobSearch,
                   mpi_processing, requestStatusMutex, addRequestThreads,
                   requestVars, dealVars>>

Decrement(t) ==
    /\ Goto(t, "decrement", IF localDepth[t] > 0 THEN "work" ELSE "search")
    /\ mpi_processing' = seen[t] - 1
    /\ UNCHANGED <<threadsRequestPolicy, stackVars, statusJobSearch,
                   requestStatusMutex, addRequestThreads, requestVars,
                   dealVars, seen>>

Answered(t) == \E n \in 0..T : Answer(t, n) \/ AnswerPredictive(t, n)

Step(t) ==
    \/ Solve(t)
    \/ \E k \in {1, 2} : Expand(t, k)
    \/ Acquire(t)
    \/ \E v \in Thread \ {t} : StealHere(t, v)
    \/ NothingHere(t)
    \/ BackToWork(t) \/ OutOfWork(t)
    \/ AskAggressive(t) \/ Increment(t)
    \/ AskMultiple(t) \/ AskPredictive(t)
    \/ Post(t) \/ NoAnswer(t)
    \/ Answered(t)
    \/ Deal(t) \/ SettleMultiple(t)
    \/ SettleAggressive(t) \/ Decrement(t)

Next == \E t \in Thread : Step(t)

Spec == Init /\ [][Next]_vars

\* Every thread runs, mutexes are handed out in turn, and every request is
\* answered in the end.
FairSpec ==
    /\ Spec
    /\ \A t \in Thread : WF_vars(Step(t)) /\ SF_vars(Answered(t))

----------------------------------------------------------------------------
(* Properties.                                                             *)

\* Every variable keeps its type (StealStack, mpi_processing).
TypeOK ==
    /\ threadsRequestPolicy \in Policies
    /\ localDepth \in [Thread -> Nat] /\ sharedDepth \in [Thread -> Nat]
    /\ created \in 0..MaxUnits /\ processed \in 0..MaxUnits
    /\ statusJobSearch \in [Thread -> Free..Waiting]
    /\ mpi_processing \in 0..T
    /\ requestStatusMutex \in Thread \cup {NoThread}
    /\ addRequestThreads \in [Thread -> Seq(Thread)]
    /\ wanted \in [Thread -> 0..T] /\ asked \in [Thread -> 0..MaxRequests]
    /\ received \in [Thread -> 0..T] /\ dealt \in [Thread -> 0..T]
    /\ seen \in [Thread -> 0..T]
    /\ pc \in [Thread -> Labels]

\* "limit of MPI work requests allowed simultaneously for a process" (the
\* comment on mpiWorkRequestLimitGl): so many requests at most are unanswered.
LimitKept == Cardinality({t \in Thread : wanted[t] > 0}) <= Limit

\* "This situation should not occur (the stack should be empty at this
\* point)" and "(more work than the maximum requested for all threads has
\* been received)": a thread deals units out only to threads that are
\* blocked, whose stacks are empty, and has no unit left without a taker.
\* The stacks are written without their locks: this is what makes it safe.
DealtToBlocked ==
    \A t \in Thread : pc[t] = "deal" /\ received[t] > 0 =>
        /\ dealt[t] < Len(addRequestThreads[t])
        /\ LET v == addRequestThreads[t][dealt[t] + 1]
           IN statusJobSearch[v] = Blocked /\ ss_localFullDepth(v) = 0

\* Every blocked thread has somebody who will release it: a thread that
\* waits for an answer, and that will find it in its list (MULTIPLE) or by
\* its status (PREDICTIVE).
BlockedHasAsker ==
    \A v \in Thread : statusJobSearch[v] = Blocked =>
        \E t \in Thread \ {v} :
            /\ statusJobSearch[t] = Waiting
            /\ threadsRequestPolicy = Multiple => v \in ToSet(addRequestThreads[t])

\* No unit of work is lost or duplicated when an answer is dealt out.
UnitsConserved ==
    created = processed + SumFunction([t \in Thread |-> ss_localFullDepth(t) + received[t]])

\* A blocked thread is released again, whenever it blocks.
BlockedIsReleased ==
    \A t \in Thread : []<>(statusJobSearch[t] # Blocked)

\* All work is done in the end, also what was dealt to blocked threads.
AllDone == <>[](created = processed)
=============================================================================
