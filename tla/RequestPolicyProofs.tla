----------------------- MODULE RequestPolicyProofs -----------------------
(***************************************************************************)
(* Proofs about RequestPolicy, for any number of threads, any set of       *)
(* policies and any limits, except that AGGRESSIVE has no limit or a limit *)
(* of one request.  The inductive invariant says what each status and each *)
(* list of blocked threads stands for, and that the counter of requests is *)
(* exact.                                                                  *)
(***************************************************************************)
EXTENDS RequestPolicy, LibraryTheorems

\* What AGGRESSIVE needs for its count of requests to be right: it is
\* decremented without the mutex (the run RequestPolicyLimit shows what
\* happens with a limit of two).
AggressiveCounts ==
    Aggressive \in Policies => Limits[Aggressive] \in {1, T}

\* A thread whose request is counted, and all of them.
Requesting(t) ==
    wanted[t] > 0 \/ pc[t] \in {"post", "deal", "settle", "decrement"}
Requests == {t \in Thread : Requesting(t)}

Types ==
    /\ threadsRequestPolicy \in Policies
    /\ localDepth \in [Thread -> Nat] /\ sharedDepth \in [Thread -> Nat]
    /\ created \in 0..MaxUnits /\ processed \in Nat
    /\ statusJobSearch \in [Thread -> Free..Waiting]
    /\ mpi_processing \in 0..T
    /\ requestStatusMutex \in Thread \cup {NoThread}
    /\ addRequestThreads \in [Thread -> Seq(Thread)]
    /\ wanted \in [Thread -> 0..T] /\ asked \in [Thread -> 0..MaxRequests]
    /\ received \in [Thread -> 0..T] /\ dealt \in [Thread -> 0..T]
    /\ seen \in [Thread -> 0..T]
    /\ pc \in [Thread -> Labels]

\* What the step a thread is at says of its own state.
PlaceOf(t) ==
    /\ pc[t] \in {"ask", "increment", "post", "deal", "settle", "decrement"} =>
           wanted[t] = 0
    /\ pc[t] \in {"increment", "post"} => asked[t] < MaxRequests
    /\ pc[t] = "deal" => threadsRequestPolicy = Multiple
    /\ pc[t] = "settle" => threadsRequestPolicy = Aggressive
    /\ pc[t] \in {"increment", "decrement"} =>
           threadsRequestPolicy = Aggressive /\ ~Unlimited
    /\ received[t] > 0 => pc[t] = "deal"
    /\ Len(addRequestThreads[t]) < T
    /\ threadsRequestPolicy # Multiple => addRequestThreads[t] = <<>>
    /\ threadsRequestPolicy # Predictive => wanted[t] <= 1 + Len(addRequestThreads[t])
Places == \A t \in Thread : PlaceOf(t)

\* The status of a thread: under AGGRESSIVE all are free, otherwise those
\* that wait are those with a request.
StatusOf(t) ==
    /\ threadsRequestPolicy = Aggressive => statusJobSearch[t] = Free
    /\ threadsRequestPolicy # Aggressive =>
           (statusJobSearch[t] = Waiting <=> Requesting(t))
Statuses == \A t \in Thread : StatusOf(t)

\* mpi_processing is the number of requests, and no more than the limit.
Counting ==
    /\ mpi_processing = IF Unlimited THEN 0 ELSE Cardinality(Requests)
    /\ ~Unlimited => Cardinality(Requests) <= Limit
    /\ \A t \in Thread :
           /\ pc[t] = "increment" =>
                  requestStatusMutex = t /\ mpi_processing = 0 /\ seen[t] = 0
           /\ pc[t] = "decrement" => seen[t] = mpi_processing

\* MULTIPLE: whom the waiting threads have asked for is blocked, and is on
\* one list only, once.
Lists ==
    \A t \in Thread : statusJobSearch[t] = Waiting =>
        \A i \in 1..Len(addRequestThreads[t]) :
            /\ statusJobSearch[addRequestThreads[t][i]] = Blocked
            /\ \A u \in Thread : statusJobSearch[u] = Waiting =>
                   \A j \in 1..Len(addRequestThreads[u]) :
                       addRequestThreads[t][i] = addRequestThreads[u][j] => t = u /\ i = j

\* Those on a list that have not been dealt a unit have an empty stack, and
\* there are as many of them as units to deal out.
Dealing ==
    \A t \in Thread : statusJobSearch[t] = Waiting =>
        /\ \A i \in 1..Len(addRequestThreads[t]) :
               pc[t] # "deal" \/ i > dealt[t] =>
                   ss_localFullDepth(addRequestThreads[t][i]) = 0
        /\ pc[t] = "deal" => dealt[t] + received[t] <= Len(addRequestThreads[t])

PolicyInv ==
    /\ Types /\ Places /\ Statuses /\ Counting /\ Lists /\ Dealing
    /\ BlockedHasAsker /\ UnitsConserved

-----------------------------------------------------------------------------
(* Facts that every step needs.                                            *)

\* The constants, and the limit of the policy that was chosen.
LEMMA Constants ==
    /\ T \in Nat \ {0} /\ IsFiniteSet(Thread) /\ Cardinality(Thread) = T
    /\ Thread \in SUBSET Int /\ NoThread \notin Thread
    /\ PredictCount \in 1..T /\ MaxUnits \in Nat /\ MaxRequests \in Nat
    /\ Given \in 0..MaxUnits /\ Policies \subseteq {Aggressive, Multiple, Predictive}
    /\ threadsRequestPolicy \in Policies => Limit \in 1..T
<1>1. T \in Nat \ {0} /\ T - 1 \in Int
  BY PolicyAssumption
<1>2. IsFiniteSet(Thread) /\ Cardinality(Thread) = T
  <2>1. IsFiniteSet(0..(T - 1)) /\ Cardinality(0..(T - 1)) = IF 0 > T - 1 THEN 0 ELSE (T - 1) - 0 + 1
    BY <1>1, FS_Interval
  <2> QED
    BY <1>1, <2>1 DEF Thread
<1> QED
  BY <1>1, <1>2, PolicyAssumption DEF Thread, NoThread, Limit

\* One action at a time.
LEMMA Actions ==
    ASSUME NEW t \in Thread, Step(t)
    PROVE  \/ Solve(t) \/ (\E k \in {1, 2} : Expand(t, k)) \/ Acquire(t)
           \/ (\E v \in Thread \ {t} : StealHere(t, v)) \/ NothingHere(t)
           \/ BackToWork(t) \/ OutOfWork(t) \/ AskAggressive(t) \/ Increment(t)
           \/ AskMultiple(t) \/ AskPredictive(t) \/ Post(t) \/ NoAnswer(t)
           \/ (\E n \in 0..T : Answer(t, n)) \/ (\E n \in 0..T : AnswerPredictive(t, n))
           \/ Deal(t) \/ SettleMultiple(t) \/ SettleAggressive(t) \/ Decrement(t)
BY DEF Step, Answered

\* The policy is never changed.
LEMMA PolicyStays ==
    ASSUME NEW t \in Thread, Step(t)
    PROVE  threadsRequestPolicy' = threadsRequestPolicy
BY Actions DEF Solve, Expand, Acquire, StealHere, NothingHere, BackToWork, OutOfWork,
    AskAggressive, Increment, AskMultiple, AskPredictive, Post, NoAnswer, Answer,
    AnswerPredictive, Deal, SettleMultiple, SettleAggressive, Decrement

\* The list of a thread that asks for others: the idle ones, each once.
LEMMA IdleListed ==
    ASSUME NEW t \in Thread
    PROVE  /\ Ascending(Idle(t)) \in Seq(Thread) /\ Len(Ascending(Idle(t))) \in 0..(T - 1)
           /\ \A i \in 1..Len(Ascending(Idle(t))) : Ascending(Idle(t))[i] \in Idle(t)
           /\ \A v \in Idle(t) : \E i \in 1..Len(Ascending(Idle(t))) : Ascending(Idle(t))[i] = v
           /\ \A i, j \in 1..Len(Ascending(Idle(t))) :
                  Ascending(Idle(t))[i] = Ascending(Idle(t))[j] => i = j
<1>1. Idle(t) \in SUBSET (Thread \ {t}) /\ Idle(t) \in SUBSET Int
  BY Constants DEF Idle
<1>2. IsFiniteSet(Thread \ {t}) /\ Cardinality(Thread \ {t}) = T - 1
  BY Constants, FS_RemoveElement
<1>3. IsFiniteSet(Idle(t)) /\ Cardinality(Idle(t)) <= T - 1
  BY <1>1, <1>2, FS_Subset
<1> DEFINE a == Ascending(Idle(t))
<1>4. /\ Cardinality(Idle(t)) \in Nat /\ a \in Seq(Idle(t)) /\ Len(a) = Cardinality(Idle(t))
      /\ \A c \in Idle(t) : \E i \in 1..Cardinality(Idle(t)) : a[i] = c
      /\ \A i, j \in 1..Cardinality(Idle(t)) : i # j => a[i] # a[j]
  BY <1>1, <1>3, AscendingLists
<1> HIDE DEF a
<1>5. a \in Seq(Thread) /\ Len(a) \in 0..(T - 1)
  BY <1>1, <1>3, <1>4, Constants
<1>6. \A i \in 1..Len(a) : a[i] \in Idle(t)
  BY <1>4
<1>7. \A v \in Idle(t) : \E i \in 1..Len(a) : a[i] = v
  BY <1>4
<1>8. \A i, j \in 1..Len(a) : a[i] = a[j] => i = j
  BY <1>4
<1> QED
  BY <1>5, <1>6, <1>7, <1>8 DEF a

\* MULTIPLE: a thread asks, or is free again, or finds that it may not ask.
Asks(t) ==
    /\ statusJobSearch[t] = Free /\ MayAsk(t)
    /\ pc' = [pc EXCEPT ![t] = "post"]
    /\ addRequestThreads' = [addRequestThreads EXCEPT ![t] = Ascending(Idle(t))]
    /\ statusJobSearch' = [v \in Thread |->
            IF v = t THEN Waiting ELSE IF v \in Idle(t) THEN Blocked ELSE statusJobSearch[v]]
    /\ mpi_processing' = mpi_processing + (IF Unlimited THEN 0 ELSE 1)
IsFreed(t) ==
    /\ statusJobSearch[t] = Served
    /\ \E to \in {"work", "search"} : pc' = [pc EXCEPT ![t] = to]
    /\ statusJobSearch' = [statusJobSearch EXCEPT ![t] = Free]
    /\ UNCHANGED <<mpi_processing, addRequestThreads>>
MayNot(t) ==
    /\ pc' = [pc EXCEPT ![t] = "test"]
    /\ UNCHANGED <<statusJobSearch, mpi_processing, addRequestThreads>>

\* AskMultiple is one of the three, at the place where a thread asks, and
\* leaves the rest of the process alone.
LEMMA MultipleAsks ==
    ASSUME NEW t \in Thread, AskMultiple(t)
    PROVE  /\ threadsRequestPolicy = Multiple /\ MutexFree /\ pc[t] = "ask"
           /\ Asks(t) \/ IsFreed(t) \/ MayNot(t)
           /\ UNCHANGED <<threadsRequestPolicy, stackVars, requestStatusMutex,
                          requestVars, dealVars, seen>>
<1>1. CASE statusJobSearch[t] = Free /\ MayAsk(t)
  BY <1>1 DEF AskMultiple, Asks, Goto, Free, Served
<1>2. CASE ~(statusJobSearch[t] = Free /\ MayAsk(t)) /\ statusJobSearch[t] = Served
  BY <1>2 DEF AskMultiple, IsFreed, Goto, Free, Served
<1>3. CASE ~(statusJobSearch[t] = Free /\ MayAsk(t)) /\ statusJobSearch[t] # Served
  BY <1>3 DEF AskMultiple, MayNot, Goto
<1> QED
  BY <1>1, <1>2, <1>3

\* PREDICTIVE: likewise; it blocks itself at the limit.
AsksAlone(t) ==
    /\ statusJobSearch[t] = Free /\ MayAsk(t)
    /\ pc' = [pc EXCEPT ![t] = "post"]
    /\ statusJobSearch' = [statusJobSearch EXCEPT ![t] = Waiting]
    /\ mpi_processing' = mpi_processing + (IF Unlimited THEN 0 ELSE 1)
Blocks(t) ==
    /\ statusJobSearch[t] = Free /\ ~Unlimited /\ mpi_processing >= Limit
    /\ pc' = [pc EXCEPT ![t] = "test"]
    /\ statusJobSearch' = [statusJobSearch EXCEPT ![t] = Blocked]
    /\ UNCHANGED mpi_processing

\* AskPredictive is one of the four, and leaves the rest of the process alone.
LEMMA PredictiveAsks ==
    ASSUME Types, NEW t \in Thread, AskPredictive(t)
    PROVE  /\ threadsRequestPolicy = Predictive /\ MutexFree /\ pc[t] = "ask"
           /\ AsksAlone(t) \/ Blocks(t) \/ IsFreed(t) \/ MayNot(t)
           /\ UNCHANGED <<threadsRequestPolicy, stackVars, requestStatusMutex,
                          addRequestThreads, requestVars, dealVars, seen>>
<1> DEFINE may == statusJobSearch[t] = Free /\ MayAsk(t)
           full == statusJobSearch[t] = Free /\ ~Unlimited /\ mpi_processing >= Limit
<1>0. mpi_processing \in Int /\ Limit \in Int
  BY Constants DEF Types
<1>1. CASE may
  <2>1. ~full
    BY <1>0, <1>1 DEF MayAsk
  <2> QED
    BY <1>1, <2>1 DEF AskPredictive, AsksAlone, Goto, Free, Served
<1>2. CASE ~may /\ full
  BY <1>2 DEF AskPredictive, Blocks, Goto, Free, Served
<1>3. CASE ~may /\ ~full /\ statusJobSearch[t] = Served
  BY <1>3 DEF AskPredictive, IsFreed, Goto, Free, Served
<1>4. CASE ~may /\ ~full /\ statusJobSearch[t] # Served
  BY <1>4 DEF AskPredictive, MayNot, Goto, Free, Served
<1> QED
  BY <1>1, <1>2, <1>3, <1>4

\* A step keeps what each thread's place says of it.
LEMMA PlacesStay ==
    ASSUME Types, Places, NEW t \in Thread, Step(t)
    PROVE  Places'
<1>0. threadsRequestPolicy' = threadsRequestPolicy
  BY PolicyStays
<1> SUFFICES ASSUME NEW u \in Thread
             PROVE  PlaceOf(u)'
  BY DEF Places
<1>a. PlaceOf(t) /\ PlaceOf(u)
  BY DEF Places, Statuses
<1>b. /\ statusJobSearch \in [Thread -> Free..Waiting] /\ pc \in [Thread -> Labels]
      /\ wanted \in [Thread -> 0..T] /\ addRequestThreads \in [Thread -> Seq(Thread)]
  BY DEF Types
<1>1. ASSUME Solve(t)
      PROVE  PlaceOf(u)'
  BY <1>1, <1>0, <1>a, Constants DEF Solve, Goto, Types, PlaceOf, Unlimited, Limit, stackVars, requestVars, dealVars, MayAsk, Aggressive, Multiple, Predictive
<1>2. ASSUME NEW k \in {1, 2}, Expand(t, k)
      PROVE  PlaceOf(u)'
  BY <1>2, <1>0, <1>a, Constants DEF Expand, Goto, Types, PlaceOf, Unlimited, Limit, stackVars, requestVars, dealVars, MayAsk, Aggressive, Multiple, Predictive
<1>3. ASSUME Acquire(t)
      PROVE  PlaceOf(u)'
  BY <1>3, <1>0, <1>a, Constants, ZenonT(40) DEF Acquire, Goto, Types, PlaceOf, Unlimited, Limit, stackVars, requestVars, dealVars, MayAsk, Aggressive, Multiple, Predictive
<1>4. ASSUME NEW v \in Thread \ {t}, StealHere(t, v)
      PROVE  PlaceOf(u)'
  BY <1>4, <1>0, <1>a, Constants DEF StealHere, Goto, Types, PlaceOf, Unlimited, Limit, stackVars, requestVars, dealVars, MayAsk, Aggressive, Multiple, Predictive
<1>5. ASSUME NothingHere(t)
      PROVE  PlaceOf(u)'
  BY <1>5, <1>0, <1>a, Constants DEF NothingHere, Goto, Types, PlaceOf, Unlimited, Limit, stackVars, requestVars, dealVars, MayAsk, Aggressive, Multiple, Predictive
<1>6. ASSUME BackToWork(t)
      PROVE  PlaceOf(u)'
  BY <1>6, <1>0, <1>a, Constants DEF BackToWork, Goto, Types, PlaceOf, Unlimited, Limit, stackVars, requestVars, dealVars, MayAsk, Aggressive, Multiple, Predictive
<1>7. ASSUME OutOfWork(t)
      PROVE  PlaceOf(u)'
  BY <1>7, <1>0, <1>a, Constants DEF OutOfWork, Goto, Types, PlaceOf, Unlimited, Limit, stackVars, requestVars, dealVars, MayAsk, Aggressive, Multiple, Predictive
<1>8. ASSUME AskAggressive(t)
      PROVE  PlaceOf(u)'
  BY <1>8, <1>0, <1>a, Constants, ZenonT(40) DEF AskAggressive, Goto, Types, PlaceOf, Unlimited, Limit, stackVars, requestVars, dealVars, MayAsk, Aggressive, Multiple, Predictive
<1>9. ASSUME Increment(t)
      PROVE  PlaceOf(u)'
  BY <1>9, <1>0, <1>a, Constants DEF Increment, Goto, Types, PlaceOf, Unlimited, Limit, stackVars, requestVars, dealVars, MayAsk, Aggressive, Multiple, Predictive
<1>10. ASSUME AskMultiple(t)
      PROVE  PlaceOf(u)'
  <2>0. /\ threadsRequestPolicy = Multiple /\ pc[t] = "ask" /\ wanted' = wanted
        /\ asked' = asked /\ received' = received
    BY <1>10, MultipleAsks DEF requestVars, dealVars
  <2>1. CASE Asks(t)
    <3>1. /\ pc'[t] = "post" /\ asked[t] < MaxRequests /\ Len(addRequestThreads'[t]) < T
          /\ u # t => pc'[u] = pc[u] /\ addRequestThreads'[u] = addRequestThreads[u]
      BY <1>b, <2>1, IdleListed, Constants DEF Asks, MayAsk
    <3>2. CASE u = t
      BY <1>0, <1>a, <1>b, <2>0, <3>1, <3>2 DEF PlaceOf, Multiple, Predictive, Aggressive
    <3>3. CASE u # t
      BY <1>0, <1>a, <2>0, <3>1, <3>3 DEF PlaceOf, Unlimited, Limit
    <3> QED
      BY <3>2, <3>3
  <2>2. CASE IsFreed(t)
    BY <1>10, <1>0, <1>a, <2>2, Constants, MultipleAsks DEF IsFreed, Goto, Types, PlaceOf, Unlimited, Limit, stackVars, requestVars, dealVars, MayAsk, Aggressive, Multiple, Predictive
  <2>3. CASE MayNot(t)
    BY <1>10, <1>0, <1>a, <2>3, Constants, MultipleAsks DEF MayNot, Goto, Types, PlaceOf, Unlimited, Limit, stackVars, requestVars, dealVars, MayAsk, Aggressive, Multiple, Predictive
  <2> QED
    BY <1>10, <2>1, <2>2, <2>3, MultipleAsks
<1>11. ASSUME AskPredictive(t)
      PROVE  PlaceOf(u)'
  <2>1. CASE AsksAlone(t)
    BY <1>11, <1>0, <1>a, <2>1, Constants, PredictiveAsks DEF AsksAlone, Goto, Types, PlaceOf, Unlimited, Limit, stackVars, requestVars, dealVars, MayAsk, Aggressive, Multiple, Predictive
  <2>2. CASE Blocks(t)
    BY <1>11, <1>0, <1>a, <2>2, Constants, PredictiveAsks DEF Blocks, Goto, Types, PlaceOf, Unlimited, Limit, stackVars, requestVars, dealVars, MayAsk, Aggressive, Multiple, Predictive
  <2>3. CASE IsFreed(t)
    BY <1>11, <1>0, <1>a, <2>3, Constants, PredictiveAsks DEF IsFreed, Goto, Types, PlaceOf, Unlimited, Limit, stackVars, requestVars, dealVars, MayAsk, Aggressive, Multiple, Predictive
  <2>4. CASE MayNot(t)
    BY <1>11, <1>0, <1>a, <2>4, Constants, PredictiveAsks DEF MayNot, Goto, Types, PlaceOf, Unlimited, Limit, stackVars, requestVars, dealVars, MayAsk, Aggressive, Multiple, Predictive
  <2> QED
    BY <1>11, <2>1, <2>2, <2>3, <2>4, PredictiveAsks
<1>12. ASSUME Post(t)
      PROVE  PlaceOf(u)'
  <2>1. CASE u = t
    BY <1>12, <1>0, <1>a, <2>1, Constants DEF Post, Goto, Types, PlaceOf, Unlimited, Limit, stackVars, requestVars, dealVars, MayAsk, Aggressive, Multiple, Predictive
  <2>2. CASE u # t
    BY <1>12, <1>0, <1>a, <2>2, Constants DEF Post, Goto, Types, PlaceOf, Unlimited, Limit, stackVars, requestVars, dealVars, MayAsk, Aggressive, Multiple, Predictive
  <2> QED
    BY <2>1, <2>2
<1>13. ASSUME NoAnswer(t)
      PROVE  PlaceOf(u)'
  BY <1>13, <1>0, <1>a, Constants DEF NoAnswer, Goto, Types, PlaceOf, Unlimited, Limit, stackVars, requestVars, dealVars, MayAsk, Aggressive, Multiple, Predictive
<1>14. ASSUME NEW n \in 0..T, Answer(t, n)
      PROVE  PlaceOf(u)'
  <2>1. CASE u = t
    BY <1>14, <1>0, <1>a, <2>1, Constants DEF Answer, Goto, Types, PlaceOf, Unlimited, Limit, stackVars, requestVars, dealVars, MayAsk, Aggressive, Multiple, Predictive
  <2>2. CASE u # t
    BY <1>14, <1>0, <1>a, <2>2, Constants DEF Answer, Goto, Types, PlaceOf, Unlimited, Limit, stackVars, requestVars, dealVars, MayAsk, Aggressive, Multiple, Predictive
  <2> QED
    BY <2>1, <2>2
<1>15. ASSUME NEW n \in 0..T, AnswerPredictive(t, n)
      PROVE  PlaceOf(u)'
  BY <1>15, <1>0, <1>a, Constants DEF AnswerPredictive, Goto, Types, PlaceOf, Unlimited, Limit, stackVars, requestVars, dealVars, MayAsk, Aggressive, Multiple, Predictive
<1>16. ASSUME Deal(t)
      PROVE  PlaceOf(u)'
  BY <1>16, <1>0, <1>a, Constants DEF Deal, Goto, Types, PlaceOf, Unlimited, Limit, stackVars, requestVars, dealVars, MayAsk, Aggressive, Multiple, Predictive
<1>17. ASSUME SettleMultiple(t)
      PROVE  PlaceOf(u)'
  BY <1>17, <1>0, <1>a, Constants DEF SettleMultiple, Goto, Types, PlaceOf, Unlimited, Limit, stackVars, requestVars, dealVars, MayAsk, Aggressive, Multiple, Predictive
<1>18. ASSUME SettleAggressive(t)
      PROVE  PlaceOf(u)'
  BY <1>18, <1>0, <1>a, Constants DEF SettleAggressive, Goto, Types, PlaceOf, Unlimited, Limit, stackVars, requestVars, dealVars, MayAsk, Aggressive, Multiple, Predictive
<1>19. ASSUME Decrement(t)
      PROVE  PlaceOf(u)'
  BY <1>19, <1>0, <1>a, Constants DEF Decrement, Goto, Types, PlaceOf, Unlimited, Limit, stackVars, requestVars, dealVars, MayAsk, Aggressive, Multiple, Predictive
<1> QED
  BY <1>1, <1>2, <1>3, <1>4, <1>5, <1>6, <1>7, <1>8, <1>9, <1>10, <1>11, <1>12, <1>13, <1>14, <1>15, <1>16, <1>17, <1>18, <1>19, Actions

\* A step keeps the meaning of the statuses.
LEMMA StatusesStay ==
    ASSUME Types, Places, Statuses, Lists, NEW t \in Thread, Step(t)
    PROVE  Statuses'
<1>0. threadsRequestPolicy' = threadsRequestPolicy
  BY PolicyStays
<1> SUFFICES ASSUME NEW u \in Thread
             PROVE  StatusOf(u)'
  BY DEF Statuses
<1>a. PlaceOf(t) /\ PlaceOf(u) /\ StatusOf(t) /\ StatusOf(u)
  BY DEF Places, Statuses
<1>b. /\ statusJobSearch \in [Thread -> Free..Waiting] /\ pc \in [Thread -> Labels]
      /\ wanted \in [Thread -> 0..T] /\ addRequestThreads \in [Thread -> Seq(Thread)]
  BY DEF Types
<1>1. ASSUME Solve(t)
      PROVE  StatusOf(u)'
  BY <1>1, <1>0, <1>a DEF Solve, Goto, Types, PlaceOf, StatusOf, Requesting, stackVars, requestVars, dealVars, Free, Blocked, Served, Waiting, Aggressive, Multiple, Predictive
<1>2. ASSUME NEW k \in {1, 2}, Expand(t, k)
      PROVE  StatusOf(u)'
  BY <1>2, <1>0, <1>a DEF Expand, Goto, Types, PlaceOf, StatusOf, Requesting, stackVars, requestVars, dealVars, Free, Blocked, Served, Waiting, Aggressive, Multiple, Predictive
<1>3. ASSUME Acquire(t)
      PROVE  StatusOf(u)'
  BY <1>3, <1>0, <1>a DEF Acquire, Goto, Types, PlaceOf, StatusOf, Requesting, stackVars, requestVars, dealVars, Free, Blocked, Served, Waiting, Aggressive, Multiple, Predictive
<1>4. ASSUME NEW v \in Thread \ {t}, StealHere(t, v)
      PROVE  StatusOf(u)'
  BY <1>4, <1>0, <1>a DEF StealHere, Goto, Types, PlaceOf, StatusOf, Requesting, stackVars, requestVars, dealVars, Free, Blocked, Served, Waiting, Aggressive, Multiple, Predictive
<1>5. ASSUME NothingHere(t)
      PROVE  StatusOf(u)'
  BY <1>5, <1>0, <1>a DEF NothingHere, Goto, Types, PlaceOf, StatusOf, Requesting, stackVars, requestVars, dealVars, Free, Blocked, Served, Waiting, Aggressive, Multiple, Predictive
<1>6. ASSUME BackToWork(t)
      PROVE  StatusOf(u)'
  <2>1. /\ pc[t] = "getwork" /\ pc'[t] = "work" /\ wanted' = wanted
        /\ \/ threadsRequestPolicy # Aggressive /\ statusJobSearch[t] = Served
              /\ statusJobSearch'[t] = Free
           \/ statusJobSearch'[t] = statusJobSearch[t]
        /\ u # t => pc'[u] = pc[u] /\ statusJobSearch'[u] = statusJobSearch[u]
    BY <1>6, <1>b DEF BackToWork, Goto, requestVars
  <2> QED
    BY <1>0, <1>a, <2>1 DEF StatusOf, Requesting, Free, Blocked, Served, Waiting, Aggressive, Multiple, Predictive
<1>7. ASSUME OutOfWork(t)
      PROVE  StatusOf(u)'
  BY <1>7, <1>0, <1>a DEF OutOfWork, Goto, Types, PlaceOf, StatusOf, Requesting, stackVars, requestVars, dealVars, Free, Blocked, Served, Waiting, Aggressive, Multiple, Predictive
<1>8. ASSUME AskAggressive(t)
      PROVE  StatusOf(u)'
  BY <1>8, <1>0, <1>a DEF AskAggressive, Goto, Types, PlaceOf, StatusOf, Requesting, stackVars, requestVars, dealVars, Free, Blocked, Served, Waiting, Aggressive, Multiple, Predictive
<1>9. ASSUME Increment(t)
      PROVE  StatusOf(u)'
  BY <1>9, <1>0, <1>a DEF Increment, Goto, Types, PlaceOf, StatusOf, Requesting, stackVars, requestVars, dealVars, Free, Blocked, Served, Waiting, Aggressive, Multiple, Predictive
<1>10. ASSUME AskMultiple(t)
      PROVE  StatusOf(u)'
  <2>0. /\ threadsRequestPolicy = Multiple /\ pc[t] = "ask" /\ wanted' = wanted /\ wanted[t] = 0
    BY <1>10, <1>a, MultipleAsks DEF requestVars, PlaceOf
  <2>1. CASE Asks(t)
    <3>1. /\ pc'[t] = "post" /\ statusJobSearch'[t] = Waiting
          /\ u # t => /\ pc'[u] = pc[u]
                      /\ \/ statusJobSearch'[u] = statusJobSearch[u]
                         \/ statusJobSearch[u] = Free /\ statusJobSearch'[u] = Blocked
      BY <1>b, <2>1 DEF Asks, Idle
    <3> QED
      BY <1>0, <1>a, <2>0, <3>1 DEF StatusOf, Requesting, Free, Blocked, Served, Waiting, Aggressive, Multiple, Predictive
  <2>2. CASE IsFreed(t)
    <3>1. /\ pc'[t] \in {"work", "search"} /\ statusJobSearch[t] = Served /\ statusJobSearch'[t] = Free
          /\ u # t => pc'[u] = pc[u] /\ statusJobSearch'[u] = statusJobSearch[u]
      BY <1>b, <2>2 DEF IsFreed
    <3> QED
      BY <1>0, <1>a, <2>0, <3>1 DEF StatusOf, Requesting, Free, Blocked, Served, Waiting, Aggressive, Multiple, Predictive
  <2>3. CASE MayNot(t)
    BY <1>0, <1>a, <1>b, <2>0, <2>3 DEF MayNot, StatusOf, Requesting, Free, Blocked, Served, Waiting, Aggressive, Multiple, Predictive
  <2> QED
    BY <1>10, <2>1, <2>2, <2>3, MultipleAsks
<1>11. ASSUME AskPredictive(t)
      PROVE  StatusOf(u)'
  <2>0. /\ threadsRequestPolicy = Predictive /\ pc[t] = "ask" /\ wanted' = wanted /\ wanted[t] = 0
    BY <1>11, <1>a, PredictiveAsks DEF requestVars, PlaceOf
  <2>1. CASE AsksAlone(t)
    <3>1. /\ pc'[t] = "post" /\ statusJobSearch'[t] = Waiting
          /\ u # t => pc'[u] = pc[u] /\ statusJobSearch'[u] = statusJobSearch[u]
      BY <1>b, <2>1 DEF AsksAlone
    <3> QED
      BY <1>0, <1>a, <2>0, <3>1 DEF StatusOf, Requesting, Free, Blocked, Served, Waiting, Aggressive, Multiple, Predictive
  <2>2. CASE Blocks(t)
    <3>1. /\ pc'[t] = "test" /\ statusJobSearch'[t] = Blocked
          /\ u # t => pc'[u] = pc[u] /\ statusJobSearch'[u] = statusJobSearch[u]
      BY <1>b, <2>2 DEF Blocks
    <3> QED
      BY <1>0, <1>a, <2>0, <3>1 DEF StatusOf, Requesting, Free, Blocked, Served, Waiting, Aggressive, Multiple, Predictive
  <2>3. CASE IsFreed(t)
    <3>1. /\ pc'[t] \in {"work", "search"} /\ statusJobSearch'[t] = Free
          /\ u # t => pc'[u] = pc[u] /\ statusJobSearch'[u] = statusJobSearch[u]
      BY <1>b, <2>3 DEF IsFreed
    <3> QED
      BY <1>0, <1>a, <2>0, <3>1 DEF StatusOf, Requesting, Free, Blocked, Served, Waiting, Aggressive, Multiple, Predictive
  <2>4. CASE MayNot(t)
    BY <1>0, <1>a, <1>b, <2>0, <2>4 DEF MayNot, StatusOf, Requesting, Free, Blocked, Served, Waiting, Aggressive, Multiple, Predictive
  <2> QED
    BY <1>11, <2>1, <2>2, <2>3, <2>4, PredictiveAsks
<1>12. ASSUME Post(t)
      PROVE  StatusOf(u)'
  <2>1. /\ pc[t] = "post" /\ wanted'[t] > 0 /\ statusJobSearch' = statusJobSearch
        /\ u # t => pc'[u] = pc[u] /\ wanted'[u] = wanted[u]
    BY <1>12, <1>b, Constants DEF Post, Goto
  <2> QED
    BY <1>0, <1>a, <2>1 DEF StatusOf, Requesting, Free, Blocked, Served, Waiting, Aggressive, Multiple, Predictive
<1>13. ASSUME NoAnswer(t)
      PROVE  StatusOf(u)'
  BY <1>13, <1>0, <1>a DEF NoAnswer, Goto, Types, PlaceOf, StatusOf, Requesting, stackVars, requestVars, dealVars, Free, Blocked, Served, Waiting, Aggressive, Multiple, Predictive
<1>14. ASSUME NEW n \in 0..T, Answer(t, n)
      PROVE  StatusOf(u)'
  BY <1>14, <1>0, <1>a DEF Answer, Goto, Types, PlaceOf, StatusOf, Requesting, stackVars, requestVars, dealVars, Free, Blocked, Served, Waiting, Aggressive, Multiple, Predictive
<1>15. ASSUME NEW n \in 0..T, AnswerPredictive(t, n)
      PROVE  StatusOf(u)'
  BY <1>15, <1>0, <1>a DEF AnswerPredictive, Goto, Types, PlaceOf, StatusOf, Requesting, stackVars, requestVars, dealVars, Free, Blocked, Served, Waiting, Aggressive, Multiple, Predictive
<1>16. ASSUME Deal(t)
      PROVE  StatusOf(u)'
  BY <1>16, <1>0, <1>a DEF Deal, Goto, Types, PlaceOf, StatusOf, Requesting, stackVars, requestVars, dealVars, Free, Blocked, Served, Waiting, Aggressive, Multiple, Predictive
<1>17. ASSUME SettleMultiple(t)
      PROVE  StatusOf(u)'
  <2>1. /\ pc[t] = "deal" /\ pc'[t] \in {"work", "search"} /\ wanted' = wanted
        /\ statusJobSearch'[t] = Free /\ threadsRequestPolicy # Aggressive /\ wanted[t] = 0
        /\ u # t => pc'[u] = pc[u]
        /\ u # t => \/ statusJobSearch'[u] = statusJobSearch[u]
                    \/ /\ u \in ToSet(addRequestThreads[t])
                       /\ statusJobSearch'[u] = Served
    BY <1>17, <1>a, <1>b DEF SettleMultiple, Goto, requestVars, PlaceOf, Multiple, Aggressive
  <2>2. u # t /\ u \in ToSet(addRequestThreads[t]) => statusJobSearch[u] = Blocked
    <3>1. statusJobSearch[t] = Waiting
      BY <1>a, <2>1 DEF StatusOf, Requesting
    <3> QED
      BY <1>b, <3>1 DEF Lists, ToSet
  <2> QED
    BY <1>0, <1>a, <2>1, <2>2 DEF StatusOf, Requesting, Free, Blocked, Served, Waiting, Aggressive, Multiple, Predictive
<1>18. ASSUME SettleAggressive(t)
      PROVE  StatusOf(u)'
  BY <1>18, <1>0, <1>a DEF SettleAggressive, Goto, Types, PlaceOf, StatusOf, Requesting, stackVars, requestVars, dealVars, Free, Blocked, Served, Waiting, Aggressive, Multiple, Predictive
<1>19. ASSUME Decrement(t)
      PROVE  StatusOf(u)'
  BY <1>19, <1>0, <1>a DEF Decrement, Goto, Types, PlaceOf, StatusOf, Requesting, stackVars, requestVars, dealVars, Free, Blocked, Served, Waiting, Aggressive, Multiple, Predictive
<1> QED
  BY <1>1, <1>2, <1>3, <1>4, <1>5, <1>6, <1>7, <1>8, <1>9, <1>10, <1>11, <1>12, <1>13, <1>14, <1>15, <1>16, <1>17, <1>18, <1>19, Actions

\* A step starts the request of the thread, ends it, or changes no request, and
\* the counter follows.
LEMMA RequestsChange ==
    ASSUME Types, Places, Counting, NEW t \in Thread, Step(t)
    PROVE  \/ Requests' = Requests /\ mpi_processing' = mpi_processing
           \/ /\ t \notin Requests /\ Requests' = Requests \cup {t}
              /\ mpi_processing' = mpi_processing + (IF Unlimited THEN 0 ELSE 1)
              /\ ~Unlimited => mpi_processing < Limit
           \/ /\ t \in Requests /\ Requests' = Requests \ {t}
              /\ mpi_processing' = mpi_processing - (IF Unlimited THEN 0 ELSE 1)
<1> DEFINE Same == Requests' = Requests /\ mpi_processing' = mpi_processing
           More == /\ t \notin Requests /\ Requests' = Requests \cup {t}
                   /\ mpi_processing' = mpi_processing + (IF Unlimited THEN 0 ELSE 1)
                   /\ ~Unlimited => mpi_processing < Limit
           Less == /\ t \in Requests /\ Requests' = Requests \ {t}
                   /\ mpi_processing' = mpi_processing - (IF Unlimited THEN 0 ELSE 1)
<1>a. /\ PlaceOf(t) /\ pc \in [Thread -> Labels] /\ wanted \in [Thread -> 0..T]
      /\ mpi_processing \in Int /\ Limit \in 1..T /\ T \in Nat
  <2>1. T \in Nat
    BY Constants
  <2>2. mpi_processing \in 0..T /\ threadsRequestPolicy \in Policies
        /\ pc \in [Thread -> Labels] /\ wanted \in [Thread -> 0..T]
    BY DEF Types
  <2>3. Limit \in 1..T
    BY <2>2, Constants
  <2> QED
    BY <2>1, <2>2, <2>3 DEF Places
<1>b. ASSUME \A u \in Thread \ {t} : pc'[u] = pc[u] /\ wanted'[u] = wanted[u],
             mpi_processing' = mpi_processing, Requesting(t)' <=> Requesting(t)
      PROVE  Same
  BY <1>b DEF Requests, Requesting
<1>c. ASSUME \A u \in Thread \ {t} : pc'[u] = pc[u] /\ wanted'[u] = wanted[u],
             mpi_processing' = mpi_processing + (IF Unlimited THEN 0 ELSE 1),
             ~Unlimited => mpi_processing < Limit, ~Requesting(t), Requesting(t)'
      PROVE  More
  BY <1>c DEF Requests, Requesting
<1>d. ASSUME \A u \in Thread \ {t} : pc'[u] = pc[u] /\ wanted'[u] = wanted[u],
             mpi_processing' = mpi_processing - (IF Unlimited THEN 0 ELSE 1),
             Requesting(t), ~Requesting(t)'
      PROVE  Less
  BY <1>d DEF Requests, Requesting
<1> HIDE DEF Same, More, Less
<1>1. ASSUME Solve(t)
      PROVE  Same \/ More \/ Less
  <2>1. /\ \A u \in Thread \ {t} : pc'[u] = pc[u] /\ wanted'[u] = wanted[u]
        /\ mpi_processing' = mpi_processing /\ (Requesting(t)' <=> Requesting(t))
    BY <1>1, <1>a DEF Solve, Requesting, Goto, stackVars, requestVars, dealVars, PlaceOf
  <2> QED
    BY <1>b, <2>1
<1>2. ASSUME NEW k \in {1, 2}, Expand(t, k)
      PROVE  Same \/ More \/ Less
  <2>1. /\ \A u \in Thread \ {t} : pc'[u] = pc[u] /\ wanted'[u] = wanted[u]
        /\ mpi_processing' = mpi_processing /\ (Requesting(t)' <=> Requesting(t))
    BY <1>2, <1>a DEF Expand, Requesting, Goto, stackVars, requestVars, dealVars, PlaceOf
  <2> QED
    BY <1>b, <2>1
<1>3. ASSUME Acquire(t)
      PROVE  Same \/ More \/ Less
  <2>1. /\ \A u \in Thread \ {t} : pc'[u] = pc[u] /\ wanted'[u] = wanted[u]
        /\ mpi_processing' = mpi_processing /\ (Requesting(t)' <=> Requesting(t))
    BY <1>3, <1>a DEF Acquire, Requesting, Goto, stackVars, requestVars, dealVars, PlaceOf
  <2> QED
    BY <1>b, <2>1
<1>4. ASSUME NEW v \in Thread \ {t}, StealHere(t, v)
      PROVE  Same \/ More \/ Less
  <2>1. /\ \A u \in Thread \ {t} : pc'[u] = pc[u] /\ wanted'[u] = wanted[u]
        /\ mpi_processing' = mpi_processing /\ (Requesting(t)' <=> Requesting(t))
    BY <1>4, <1>a DEF StealHere, Requesting, Goto, stackVars, requestVars, dealVars, PlaceOf
  <2> QED
    BY <1>b, <2>1
<1>5. ASSUME NothingHere(t)
      PROVE  Same \/ More \/ Less
  <2>1. /\ \A u \in Thread \ {t} : pc'[u] = pc[u] /\ wanted'[u] = wanted[u]
        /\ mpi_processing' = mpi_processing /\ (Requesting(t)' <=> Requesting(t))
    BY <1>5, <1>a DEF NothingHere, Requesting, Goto, stackVars, requestVars, dealVars, PlaceOf
  <2> QED
    BY <1>b, <2>1
<1>6. ASSUME BackToWork(t)
      PROVE  Same \/ More \/ Less
  <2>1. /\ \A u \in Thread \ {t} : pc'[u] = pc[u] /\ wanted'[u] = wanted[u]
        /\ mpi_processing' = mpi_processing /\ (Requesting(t)' <=> Requesting(t))
    BY <1>6, <1>a DEF BackToWork, Requesting, Goto, stackVars, requestVars, dealVars, PlaceOf
  <2> QED
    BY <1>b, <2>1
<1>7. ASSUME OutOfWork(t)
      PROVE  Same \/ More \/ Less
  <2>1. /\ \A u \in Thread \ {t} : pc'[u] = pc[u] /\ wanted'[u] = wanted[u]
        /\ mpi_processing' = mpi_processing /\ (Requesting(t)' <=> Requesting(t))
    BY <1>7, <1>a DEF OutOfWork, Requesting, Goto, stackVars, requestVars, dealVars, PlaceOf
  <2> QED
    BY <1>b, <2>1
<1>8. ASSUME AskAggressive(t)
      PROVE  Same \/ More \/ Less
  <2>1. CASE Unlimited /\ MayAsk(t)
    <3>1. /\ \A u \in Thread \ {t} : pc'[u] = pc[u] /\ wanted'[u] = wanted[u]
          /\ mpi_processing' = mpi_processing + (IF Unlimited THEN 0 ELSE 1)
          /\ (~Unlimited => mpi_processing < Limit) /\ ~Requesting(t) /\ Requesting(t)'
      BY <1>8, <2>1, <1>a DEF AskAggressive, Requesting, Goto, stackVars, requestVars, dealVars, PlaceOf
    <3> QED
      BY <1>c, <3>1
  <2>2. CASE ~(Unlimited /\ MayAsk(t))
    <3>1. /\ \A u \in Thread \ {t} : pc'[u] = pc[u] /\ wanted'[u] = wanted[u]
          /\ mpi_processing' = mpi_processing /\ (Requesting(t)' <=> Requesting(t))
      BY <1>8, <2>2, <1>a DEF AskAggressive, Requesting, Goto, stackVars, requestVars, dealVars, PlaceOf
    <3> QED
      BY <1>b, <3>1
  <2> QED
    BY <2>1, <2>2
<1>9. ASSUME Increment(t)
      PROVE  Same \/ More \/ Less
  <2>1. /\ \A u \in Thread \ {t} : pc'[u] = pc[u] /\ wanted'[u] = wanted[u]
        /\ mpi_processing' = mpi_processing + (IF Unlimited THEN 0 ELSE 1)
        /\ (~Unlimited => mpi_processing < Limit) /\ ~Requesting(t) /\ Requesting(t)'
    BY <1>9, <1>a DEF Increment, Counting, Requesting, Goto, stackVars, requestVars, dealVars, PlaceOf
  <2> QED
    BY <1>c, <2>1
<1>10. ASSUME AskMultiple(t)
      PROVE  Same \/ More \/ Less
  <2>0. pc[t] = "ask" /\ wanted' = wanted /\ wanted[t] = 0
    BY <1>10, <1>a, MultipleAsks DEF requestVars, PlaceOf
  <2>1. CASE Asks(t)
    <3>1. /\ \A u \in Thread \ {t} : pc'[u] = pc[u] /\ wanted'[u] = wanted[u]
          /\ mpi_processing' = mpi_processing + (IF Unlimited THEN 0 ELSE 1)
          /\ (~Unlimited => mpi_processing < Limit) /\ ~Requesting(t) /\ Requesting(t)'
      BY <1>a, <2>0, <2>1 DEF Asks, Requesting, MayAsk
    <3> QED
      BY <1>c, <3>1
  <2>2. CASE IsFreed(t)
    <3>1. /\ \A u \in Thread \ {t} : pc'[u] = pc[u] /\ wanted'[u] = wanted[u]
          /\ mpi_processing' = mpi_processing /\ (Requesting(t)' <=> Requesting(t))
      BY <1>a, <2>0, <2>2 DEF IsFreed, Requesting, MayAsk
    <3> QED
      BY <1>b, <3>1
  <2>3. CASE MayNot(t)
    <3>1. /\ \A u \in Thread \ {t} : pc'[u] = pc[u] /\ wanted'[u] = wanted[u]
          /\ mpi_processing' = mpi_processing /\ (Requesting(t)' <=> Requesting(t))
      BY <1>a, <2>0, <2>3 DEF MayNot, Requesting, MayAsk
    <3> QED
      BY <1>b, <3>1
  <2> QED
    BY <1>10, <2>1, <2>2, <2>3, MultipleAsks
<1>11. ASSUME AskPredictive(t)
      PROVE  Same \/ More \/ Less
  <2>0. pc[t] = "ask" /\ wanted' = wanted /\ wanted[t] = 0
    BY <1>11, <1>a, PredictiveAsks DEF requestVars, PlaceOf
  <2>1. CASE AsksAlone(t)
    <3>1. /\ \A u \in Thread \ {t} : pc'[u] = pc[u] /\ wanted'[u] = wanted[u]
          /\ mpi_processing' = mpi_processing + (IF Unlimited THEN 0 ELSE 1)
          /\ (~Unlimited => mpi_processing < Limit) /\ ~Requesting(t) /\ Requesting(t)'
      BY <1>a, <2>0, <2>1 DEF AsksAlone, Requesting, MayAsk
    <3> QED
      BY <1>c, <3>1
  <2>2. CASE Blocks(t)
    <3>1. /\ \A u \in Thread \ {t} : pc'[u] = pc[u] /\ wanted'[u] = wanted[u]
          /\ mpi_processing' = mpi_processing /\ (Requesting(t)' <=> Requesting(t))
      BY <1>a, <2>0, <2>2 DEF Blocks, Requesting, MayAsk
    <3> QED
      BY <1>b, <3>1
  <2>3. CASE IsFreed(t)
    <3>1. /\ \A u \in Thread \ {t} : pc'[u] = pc[u] /\ wanted'[u] = wanted[u]
          /\ mpi_processing' = mpi_processing /\ (Requesting(t)' <=> Requesting(t))
      BY <1>a, <2>0, <2>3 DEF IsFreed, Requesting, MayAsk
    <3> QED
      BY <1>b, <3>1
  <2>4. CASE MayNot(t)
    <3>1. /\ \A u \in Thread \ {t} : pc'[u] = pc[u] /\ wanted'[u] = wanted[u]
          /\ mpi_processing' = mpi_processing /\ (Requesting(t)' <=> Requesting(t))
      BY <1>a, <2>0, <2>4 DEF MayNot, Requesting, MayAsk
    <3> QED
      BY <1>b, <3>1
  <2> QED
    BY <1>11, <2>1, <2>2, <2>3, <2>4, PredictiveAsks
<1>12. ASSUME Post(t)
      PROVE  Same \/ More \/ Less
  <2>1. /\ \A u \in Thread \ {t} : pc'[u] = pc[u] /\ wanted'[u] = wanted[u]
        /\ mpi_processing' = mpi_processing /\ (Requesting(t)' <=> Requesting(t))
    BY <1>12, <1>a, Constants DEF Post, Requesting, Goto, stackVars, requestVars, dealVars, PlaceOf
  <2> QED
    BY <1>b, <2>1
<1>13. ASSUME NoAnswer(t)
      PROVE  Same \/ More \/ Less
  <2>1. /\ \A u \in Thread \ {t} : pc'[u] = pc[u] /\ wanted'[u] = wanted[u]
        /\ mpi_processing' = mpi_processing /\ (Requesting(t)' <=> Requesting(t))
    BY <1>13, <1>a DEF NoAnswer, Requesting, Goto, stackVars, requestVars, dealVars, PlaceOf
  <2> QED
    BY <1>b, <2>1
<1>14. ASSUME NEW n \in 0..T, Answer(t, n)
      PROVE  Same \/ More \/ Less
  <2>1. /\ \A u \in Thread \ {t} : pc'[u] = pc[u] /\ wanted'[u] = wanted[u]
        /\ mpi_processing' = mpi_processing /\ (Requesting(t)' <=> Requesting(t))
    BY <1>14, <1>a DEF Answer, Requesting, Goto, stackVars, requestVars, dealVars, PlaceOf
  <2> QED
    BY <1>b, <2>1
<1>15. ASSUME NEW n \in 0..T, AnswerPredictive(t, n)
      PROVE  Same \/ More \/ Less
  <2>1. /\ \A u \in Thread \ {t} : pc'[u] = pc[u] /\ wanted'[u] = wanted[u]
        /\ mpi_processing' = mpi_processing - (IF Unlimited THEN 0 ELSE 1)
        /\ Requesting(t) /\ ~Requesting(t)'
    BY <1>15, <1>a DEF AnswerPredictive, Requesting, Goto, stackVars, requestVars, dealVars, PlaceOf
  <2> QED
    BY <1>d, <2>1
<1>16. ASSUME Deal(t)
      PROVE  Same \/ More \/ Less
  <2>1. /\ \A u \in Thread \ {t} : pc'[u] = pc[u] /\ wanted'[u] = wanted[u]
        /\ mpi_processing' = mpi_processing /\ (Requesting(t)' <=> Requesting(t))
    BY <1>16, <1>a DEF Deal, Requesting, Goto, stackVars, requestVars, dealVars, PlaceOf
  <2> QED
    BY <1>b, <2>1
<1>17. ASSUME SettleMultiple(t)
      PROVE  Same \/ More \/ Less
  <2>1. /\ \A u \in Thread \ {t} : pc'[u] = pc[u] /\ wanted'[u] = wanted[u]
        /\ mpi_processing' = mpi_processing - (IF Unlimited THEN 0 ELSE 1)
        /\ Requesting(t) /\ ~Requesting(t)'
    BY <1>17, <1>a DEF SettleMultiple, Requesting, Goto, stackVars, requestVars, dealVars, PlaceOf
  <2> QED
    BY <1>d, <2>1
<1>18. ASSUME SettleAggressive(t)
      PROVE  Same \/ More \/ Less
  <2>1. CASE Unlimited
    <3>1. /\ \A u \in Thread \ {t} : pc'[u] = pc[u] /\ wanted'[u] = wanted[u]
          /\ mpi_processing' = mpi_processing - (IF Unlimited THEN 0 ELSE 1)
          /\ Requesting(t) /\ ~Requesting(t)'
      BY <1>18, <2>1, <1>a DEF SettleAggressive, Requesting, Goto, stackVars, requestVars, dealVars, PlaceOf
    <3> QED
      BY <1>d, <3>1
  <2>2. CASE ~Unlimited
    <3>1. /\ \A u \in Thread \ {t} : pc'[u] = pc[u] /\ wanted'[u] = wanted[u]
          /\ mpi_processing' = mpi_processing /\ (Requesting(t)' <=> Requesting(t))
      BY <1>18, <2>2, <1>a DEF SettleAggressive, Requesting, Goto, stackVars, requestVars, dealVars, PlaceOf
    <3> QED
      BY <1>b, <3>1
  <2> QED
    BY <2>1, <2>2
<1>19. ASSUME Decrement(t)
      PROVE  Same \/ More \/ Less
  <2>1. /\ \A u \in Thread \ {t} : pc'[u] = pc[u] /\ wanted'[u] = wanted[u]
        /\ mpi_processing' = mpi_processing - (IF Unlimited THEN 0 ELSE 1)
        /\ Requesting(t) /\ ~Requesting(t)'
    BY <1>19, <1>a DEF Decrement, Counting, Requesting, Goto, stackVars, requestVars, dealVars, PlaceOf
  <2> QED
    BY <1>d, <2>1
<1> QED
  BY <1>1, <1>2, <1>3, <1>4, <1>5, <1>6, <1>7, <1>8, <1>9, <1>10, <1>11, <1>12, <1>13, <1>14, <1>15, <1>16, <1>17, <1>18, <1>19, Actions DEF Same, More, Less

\* Under AGGRESSIVE the counter, its mutex and what has been read of it change
\* in four actions only.
LEMMA CounterChanges ==
    ASSUME Types, Places, threadsRequestPolicy = Aggressive, ~Unlimited,
           NEW t \in Thread, Step(t)
    PROVE  \/ AskAggressive(t)
           \/ Increment(t) /\ pc[t] = "increment" /\ pc'[t] = "post"
           \/ SettleAggressive(t)
           \/ Decrement(t) /\ pc[t] = "decrement" /\ pc'[t] \in {"work", "search"}
           \/ /\ UNCHANGED <<mpi_processing, requestStatusMutex, seen>>
              /\ \A u \in Thread : pc'[u] \in {"increment", "decrement"} => pc'[u] = pc[u]
<1>a. PlaceOf(t) /\ pc \in [Thread -> Labels]
  BY DEF Types, Places
<1> QED
  BY <1>a, Actions DEF Solve, Expand, Acquire, StealHere, NothingHere, BackToWork, OutOfWork,
    Increment, AskMultiple, AskPredictive, Post, NoAnswer, Answer, PlaceOf,
    AnswerPredictive, Deal, SettleMultiple, Decrement, Goto, Aggressive, Multiple, Predictive

\* The number of requests when one begins and when one ends.
LEMMA RequestsCounted ==
    ASSUME NEW t \in Thread
    PROVE  /\ IsFiniteSet(Requests) /\ Cardinality(Requests) \in 0..T
           /\ \A u \in Thread : u \in Requests => Cardinality(Requests) >= 1
           /\ \A u \in Thread, v \in Thread :
                  u \in Requests /\ v \in Requests /\ u # v => Cardinality(Requests) >= 2
           /\ t \notin Requests => Cardinality(Requests \cup {t}) = Cardinality(Requests) + 1
           /\ t \in Requests => Cardinality(Requests \ {t}) = Cardinality(Requests) - 1
<1>1. Requests \in SUBSET Thread
  BY DEF Requests
<1>2. IsFiniteSet(Requests) /\ Cardinality(Requests) \in 0..T
  <2>1. IsFiniteSet(Requests) /\ Cardinality(Requests) <= Cardinality(Thread)
    BY <1>1, Constants, FS_Subset
  <2>2. Cardinality(Requests) \in Nat
    BY <2>1, FS_CardinalityType
  <2> QED
    BY <2>1, <2>2, Constants
<1>3. ASSUME NEW u \in Requests
      PROVE  Cardinality(Requests) >= 1
  <2>1. Cardinality(Requests \ {u}) = Cardinality(Requests) - 1
        /\ Cardinality(Requests \ {u}) \in Nat
    BY <1>2, FS_RemoveElement, FS_CardinalityType
  <2> QED
    BY <1>2, <2>1
<1>4. ASSUME NEW u \in Requests, NEW v \in Requests, u # v
      PROVE  Cardinality(Requests) >= 2
  <2> DEFINE rest == Requests \ {u}
  <2>1. IsFiniteSet(rest) /\ Cardinality(rest) = Cardinality(Requests) - 1
    BY <1>2, FS_RemoveElement
  <2>2. v \in rest
    BY <1>4
  <2>3. Cardinality(rest \ {v}) = Cardinality(rest) - 1 /\ Cardinality(rest \ {v}) \in Nat
    BY <2>1, <2>2, FS_RemoveElement, FS_CardinalityType
  <2> QED
    BY <1>2, <2>1, <2>3
<1>5. t \notin Requests => Cardinality(Requests \cup {t}) = Cardinality(Requests) + 1
  BY <1>2, FS_AddElement
<1>6. t \in Requests => Cardinality(Requests \ {t}) = Cardinality(Requests) - 1
  BY <1>2, FS_RemoveElement
<1> QED
  BY <1>2, <1>3, <1>4, <1>5, <1>6

\* Between reading the counter and writing it nobody else writes it.
ReadRight(t) ==
    /\ pc[t] = "increment" =>
           requestStatusMutex = t /\ mpi_processing = 0 /\ seen[t] = 0
    /\ pc[t] = "decrement" => seen[t] = mpi_processing

\* No step of another thread makes what a thread has read stale, where one
\* thread at a time has a request (AggressiveCounts).
LEMMA ReadStaysRight ==
    ASSUME AggressiveCounts, Types, Places, Counting, NEW t \in Thread, Step(t),
           NEW u \in Thread
    PROVE  ReadRight(u)'
<1> SUFFICES ASSUME pc'[u] \in {"increment", "decrement"}
             PROVE  ReadRight(u)'
  BY DEF ReadRight
<1>0. /\ threadsRequestPolicy' = threadsRequestPolicy
      /\ pc \in [Thread -> Labels] /\ seen \in [Thread -> 0..T] /\ mpi_processing \in 0..T
      /\ T \in Nat /\ NoThread \notin Thread /\ threadsRequestPolicy \in Policies
  BY PolicyStays, Constants DEF Types
<1>1. threadsRequestPolicy = Aggressive /\ ~Unlimited
  <2>1. Places'
    BY PlacesStay
  <2>2. PlaceOf(u)'
    BY <2>1 DEF Places
  <2> QED
    BY <1>0, <2>2 DEF PlaceOf, Unlimited, Limit
<1>2. Limit = 1
  BY <1>0, <1>1, Constants DEF AggressiveCounts, Limit, Unlimited
<1>3. mpi_processing = Cardinality(Requests) /\ Cardinality(Requests) <= 1 /\ ReadRight(u)
      /\ ReadRight(t)
  BY <1>1, <1>2 DEF Counting, ReadRight
<1>4. \A w \in Thread : pc[w] = "decrement" => w \in Requests
  BY DEF Requests, Requesting
<1>5. CASE AskAggressive(t)
  <2>1. \/ UNCHANGED <<mpi_processing, requestStatusMutex, seen>> /\ pc'[t] = "test"
        \/ /\ MutexFree /\ MayAsk(t) /\ mpi_processing' = mpi_processing
           /\ requestStatusMutex' = t /\ seen' = [seen EXCEPT ![t] = mpi_processing]
           /\ pc'[t] = "increment"
    BY <1>0, <1>1, <1>5 DEF AskAggressive
  <2>2. u # t => pc'[u] = pc[u]
    BY <1>0, <1>1, <1>5 DEF AskAggressive
  <2>3. MayAsk(t) => mpi_processing = 0
    BY <1>0, <1>1, <1>2 DEF MayAsk
  <2>4. CASE u = t
    BY <1>0, <2>1, <2>3, <2>4 DEF ReadRight
  <2>5. CASE u # t
    BY <1>0, <1>3, <2>1, <2>2, <2>5 DEF ReadRight, MutexFree
  <2> QED
    BY <2>4, <2>5
<1>6. CASE Increment(t) /\ pc[t] = "increment" /\ pc'[t] = "post"
  <2>1. u # t /\ pc'[u] = pc[u] /\ requestStatusMutex = t /\ mpi_processing = 0
    BY <1>0, <1>3, <1>6 DEF Increment, Goto, ReadRight
  <2>2. pc[u] # "increment"
    BY <1>3, <2>1 DEF ReadRight
  <2>3. pc[u] # "decrement"
    <3>1. u \in Requests => Cardinality(Requests) >= 1
      BY RequestsCounted
    <3> QED
      BY <1>3, <1>4, <2>1, <3>1
  <2> QED
    BY <2>1, <2>2, <2>3
<1>7. CASE SettleAggressive(t)
  <2>1. /\ mpi_processing' = mpi_processing /\ requestStatusMutex' = requestStatusMutex
        /\ seen' = [seen EXCEPT ![t] = mpi_processing] /\ pc'[t] # "increment"
        /\ u # t => pc'[u] = pc[u]
    BY <1>0, <1>7 DEF SettleAggressive, Goto
  <2> QED
    BY <1>0, <1>3, <2>1 DEF ReadRight
<1>8. CASE Decrement(t) /\ pc[t] = "decrement" /\ pc'[t] \in {"work", "search"}
  <2>1. u # t /\ pc'[u] = pc[u] /\ t \in Requests
    BY <1>0, <1>4, <1>8 DEF Decrement, Goto
  <2>2. mpi_processing >= 1
    BY <1>3, <2>1, RequestsCounted
  <2>3. pc[u] # "increment"
    BY <1>3, <2>2 DEF ReadRight
  <2>4. pc[u] # "decrement"
    <3>1. u \notin Requests
      <4>1. u \in Requests /\ t \in Requests /\ u # t => Cardinality(Requests) >= 2
        BY RequestsCounted
      <4> QED
        BY <1>0, <1>3, <2>1, <4>1
    <3> QED
      BY <1>4, <3>1
  <2> QED
    BY <2>1, <2>3, <2>4
<1>9. CASE /\ UNCHANGED <<mpi_processing, requestStatusMutex, seen>>
           /\ \A w \in Thread : pc'[w] \in {"increment", "decrement"} => pc'[w] = pc[w]
  BY <1>3, <1>9 DEF ReadRight
<1> QED
  BY <1>1, <1>5, <1>6, <1>7, <1>8, <1>9, CounterChanges

\* The counter stays the number of requests, within the limit.
LEMMA CountingStays ==
    ASSUME AggressiveCounts, Types, Places, Counting, NEW t \in Thread, Step(t)
    PROVE  Counting' /\ mpi_processing' \in 0..T
<1>0. /\ Limit' = Limit /\ (Unlimited' <=> Unlimited)
      /\ T \in Nat /\ Limit \in 1..T
  BY PolicyStays, Constants DEF Types, Limit, Unlimited
<1>1. PICK c \in Nat : c = Cardinality(Requests) /\ c <= T
  <2>1. Cardinality(Requests) \in 0..T
    BY RequestsCounted
  <2> QED
    BY <1>0, <2>1
<1>2. mpi_processing = (IF Unlimited THEN 0 ELSE c) /\ (~Unlimited => c <= Limit)
  BY <1>1 DEF Counting
<1>3. PICK d \in Nat : /\ d = Cardinality(Requests') /\ d <= T
                       /\ mpi_processing' = IF Unlimited THEN 0 ELSE d
                       /\ ~Unlimited => d <= Limit
  <2>0. Cardinality(Requests') \in 0..T
    <3>1. Requests' \in SUBSET Thread
      BY DEF Requests
    <3>2. IsFiniteSet(Requests') /\ Cardinality(Requests') <= Cardinality(Thread)
      BY <3>1, Constants, FS_Subset
    <3> QED
      BY <1>0, <3>2, Constants, FS_CardinalityType
  <2>1. CASE Requests' = Requests /\ mpi_processing' = mpi_processing
    BY <1>0, <1>1, <1>2, <2>0, <2>1
  <2>2. CASE /\ t \notin Requests /\ Requests' = Requests \cup {t}
             /\ mpi_processing' = mpi_processing + (IF Unlimited THEN 0 ELSE 1)
             /\ ~Unlimited => mpi_processing < Limit
    <3>1. Cardinality(Requests') = c + 1
      BY <1>1, <2>2, RequestsCounted
    <3> QED
      BY <1>0, <1>2, <2>0, <2>2, <3>1
  <2>3. CASE /\ t \in Requests /\ Requests' = Requests \ {t}
             /\ mpi_processing' = mpi_processing - (IF Unlimited THEN 0 ELSE 1)
    <3>1. Cardinality(Requests') = c - 1
      BY <1>1, <2>3, RequestsCounted
    <3> QED
      BY <1>0, <1>2, <2>0, <2>3, <3>1
  <2> QED
    BY <2>1, <2>2, <2>3, RequestsChange
<1>4. \A u \in Thread : ReadRight(u)'
  BY ReadStaysRight
<1>5. mpi_processing' \in 0..T
  BY <1>0, <1>3
<1>6. mpi_processing' = (IF Unlimited THEN 0 ELSE Cardinality(Requests'))
      /\ (~Unlimited => Cardinality(Requests') <= Limit)
  BY <1>3
<1> QED
  BY <1>0, <1>4, <1>5, <1>6 DEF Counting, ReadRight

\* A blocked thread with an empty stack gets work only from the thread that
\* deals out.
LEMMA BlockedStaysEmpty ==
    ASSUME Types, Statuses, threadsRequestPolicy = Multiple, NEW t \in Thread, Step(t),
           ~ Deal(t), NEW w \in Thread, statusJobSearch[w] = Blocked, ss_localFullDepth(w) = 0
    PROVE  ss_localFullDepth(w)' = 0
<1>0. /\ localDepth \in [Thread -> Nat] /\ sharedDepth \in [Thread -> Nat]
      /\ localDepth[w] = 0 /\ sharedDepth[w] = 0
  <2>1. localDepth \in [Thread -> Nat] /\ sharedDepth \in [Thread -> Nat]
    BY DEF Types
  <2>2. localDepth[w] \in Nat /\ sharedDepth[w] \in Nat /\ localDepth[w] + sharedDepth[w] = 0
    BY <2>1 DEF ss_localFullDepth
  <2> QED
    BY <2>1, <2>2
<1>00. StatusOf(t)
  BY DEF Statuses
<1>1. ASSUME Solve(t)
      PROVE  ss_localFullDepth(w)' = 0
  BY <1>1, <1>0 DEF Solve, Goto, ss_localFullDepth, stackVars, requestVars, dealVars, Free, Blocked, Served, Waiting, Aggressive, Multiple, Predictive
<1>2. ASSUME NEW k \in {1, 2}, Expand(t, k)
      PROVE  ss_localFullDepth(w)' = 0
  BY <1>2, <1>0 DEF Expand, Goto, ss_localFullDepth, stackVars, requestVars, dealVars, Free, Blocked, Served, Waiting, Aggressive, Multiple, Predictive
<1>3. ASSUME Acquire(t)
      PROVE  ss_localFullDepth(w)' = 0
  BY <1>3, <1>0 DEF Acquire, Goto, ss_localFullDepth, stackVars, requestVars, dealVars, Free, Blocked, Served, Waiting, Aggressive, Multiple, Predictive
<1>4. ASSUME NEW v \in Thread \ {t}, StealHere(t, v)
      PROVE  ss_localFullDepth(w)' = 0
  BY <1>4, <1>0 DEF StealHere, Goto, ss_localFullDepth, stackVars, requestVars, dealVars, Free, Blocked, Served, Waiting, Aggressive, Multiple, Predictive
<1>5. ASSUME NothingHere(t)
      PROVE  ss_localFullDepth(w)' = 0
  BY <1>5, <1>0 DEF NothingHere, Goto, ss_localFullDepth, stackVars, requestVars, dealVars, Free, Blocked, Served, Waiting, Aggressive, Multiple, Predictive
<1>6. ASSUME BackToWork(t)
      PROVE  ss_localFullDepth(w)' = 0
  BY <1>6, <1>0 DEF BackToWork, Goto, ss_localFullDepth, stackVars, requestVars, dealVars, Free, Blocked, Served, Waiting, Aggressive, Multiple, Predictive
<1>7. ASSUME OutOfWork(t)
      PROVE  ss_localFullDepth(w)' = 0
  BY <1>7, <1>0 DEF OutOfWork, Goto, ss_localFullDepth, stackVars, requestVars, dealVars, Free, Blocked, Served, Waiting, Aggressive, Multiple, Predictive
<1>8. ASSUME AskAggressive(t)
      PROVE  ss_localFullDepth(w)' = 0
  BY <1>8 DEF AskAggressive, Aggressive, Multiple
<1>9. ASSUME Increment(t)
      PROVE  ss_localFullDepth(w)' = 0
  BY <1>9, <1>0 DEF Increment, Goto, ss_localFullDepth, stackVars, requestVars, dealVars, Free, Blocked, Served, Waiting, Aggressive, Multiple, Predictive
<1>10. ASSUME AskMultiple(t)
      PROVE  ss_localFullDepth(w)' = 0
  BY <1>10, <1>0, MultipleAsks DEF ss_localFullDepth, stackVars
<1>11. ASSUME AskPredictive(t)
      PROVE  ss_localFullDepth(w)' = 0
  BY <1>11 DEF AskPredictive, Predictive, Multiple
<1>12. ASSUME Post(t)
      PROVE  ss_localFullDepth(w)' = 0
  BY <1>12, <1>0 DEF Post, Goto, ss_localFullDepth, stackVars, requestVars, dealVars, Free, Blocked, Served, Waiting, Aggressive, Multiple, Predictive
<1>13. ASSUME NoAnswer(t)
      PROVE  ss_localFullDepth(w)' = 0
  BY <1>13, <1>0 DEF NoAnswer, Goto, ss_localFullDepth, stackVars, requestVars, dealVars, Free, Blocked, Served, Waiting, Aggressive, Multiple, Predictive
<1>14. ASSUME NEW n \in 0..T, Answer(t, n)
      PROVE  ss_localFullDepth(w)' = 0
  <2>1. w # t
    BY <1>14, <1>0, <1>00 DEF Answer, StatusOf, Requesting, Blocked, Waiting, Multiple, Aggressive
  <2> QED
    BY <1>14, <1>0, <2>1 DEF Answer, ss_localFullDepth
<1>15. ASSUME NEW n \in 0..T, AnswerPredictive(t, n)
      PROVE  ss_localFullDepth(w)' = 0
  BY <1>15 DEF AnswerPredictive, Predictive, Multiple
<1>16. ASSUME Deal(t)
      PROVE  ss_localFullDepth(w)' = 0
  BY <1>16
<1>17. ASSUME SettleMultiple(t)
      PROVE  ss_localFullDepth(w)' = 0
  BY <1>17, <1>0 DEF SettleMultiple, Goto, ss_localFullDepth, stackVars, requestVars, dealVars, Free, Blocked, Served, Waiting, Aggressive, Multiple, Predictive
<1>18. ASSUME SettleAggressive(t)
      PROVE  ss_localFullDepth(w)' = 0
  BY <1>18, <1>0 DEF SettleAggressive, Goto, ss_localFullDepth, stackVars, requestVars, dealVars, Free, Blocked, Served, Waiting, Aggressive, Multiple, Predictive
<1>19. ASSUME Decrement(t)
      PROVE  ss_localFullDepth(w)' = 0
  BY <1>19, <1>0 DEF Decrement, Goto, ss_localFullDepth, stackVars, requestVars, dealVars, Free, Blocked, Served, Waiting, Aggressive, Multiple, Predictive
<1> QED
  BY <1>1, <1>2, <1>3, <1>4, <1>5, <1>6, <1>7, <1>8, <1>9, <1>10, <1>11, <1>12, <1>13, <1>14, <1>15, <1>16, <1>17, <1>18, <1>19, Actions

\* What a thread that deals out has: its status, and lists under MULTIPLE only.
LEMMA ListsAreMultiple ==
    ASSUME Types, Places, Statuses
    PROVE  /\ threadsRequestPolicy # Multiple =>
                  \A u \in Thread : addRequestThreads[u] = <<>> /\ pc[u] # "deal"
           /\ \A u \in Thread : addRequestThreads[u] \in Seq(Thread)
           /\ \A u \in Thread : pc[u] = "deal" => statusJobSearch[u] = Waiting
<1>1. \A u \in Thread : PlaceOf(u) /\ StatusOf(u)
  BY DEF Places, Statuses
<1>2. addRequestThreads \in [Thread -> Seq(Thread)]
  BY DEF Types
<1> QED
  BY <1>1, <1>2 DEF PlaceOf, StatusOf, Requesting, Multiple, Aggressive

\* A step of MULTIPLE on the statuses and the lists.
LEMMA StatusChanges ==
    ASSUME Types, threadsRequestPolicy = Multiple, NEW t \in Thread, Step(t)
    PROVE  \/ statusJobSearch' = statusJobSearch /\ addRequestThreads' = addRequestThreads
           \/ /\ statusJobSearch[t] = Served /\ addRequestThreads' = addRequestThreads
              /\ statusJobSearch' = [statusJobSearch EXCEPT ![t] = Free]
           \/ AskMultiple(t) /\ Asks(t)
           \/ SettleMultiple(t)
<1>1. ASSUME AskMultiple(t)
      PROVE  Asks(t) \/ IsFreed(t) \/ MayNot(t)
  BY <1>1, MultipleAsks
<1>2. ASSUME BackToWork(t)
      PROVE  /\ addRequestThreads' = addRequestThreads
             /\ \/ statusJobSearch' = statusJobSearch
                \/ /\ statusJobSearch[t] = Served
                   /\ statusJobSearch' = [statusJobSearch EXCEPT ![t] = Free]
  BY <1>2 DEF BackToWork
<1>3. ~ AskPredictive(t) /\ \A n \in 0..T : ~ AnswerPredictive(t, n)
  BY DEF AskPredictive, AnswerPredictive, Multiple, Predictive
<1> QED
  BY <1>1, <1>2, <1>3, Actions DEF Solve, Expand, Acquire, StealHere, NothingHere, OutOfWork,
    AskAggressive, Increment, Post, NoAnswer, Answer, Deal, SettleAggressive, Decrement,
    IsFreed, MayNot

\* The lists stay lists of blocked threads, without a thread on two of them.
LEMMA ListsStay ==
    ASSUME Types, Places, Statuses, Lists, Types', NEW t \in Thread, Step(t)
    PROVE  Lists'
<1>0. threadsRequestPolicy' = threadsRequestPolicy
  BY PolicyStays
<1>1. CASE threadsRequestPolicy # Multiple
  <2>1. Places' /\ Statuses'
    BY PlacesStay, StatusesStay
  <2>2. \A u \in Thread : PlaceOf(u)'
    BY <2>1 DEF Places
  <2>3. \A u \in Thread : addRequestThreads'[u] = <<>>
    BY <1>0, <1>1, <2>2 DEF PlaceOf
  <2> QED
    BY <2>3 DEF Lists
<1>2. CASE threadsRequestPolicy = Multiple
  <2>0. /\ statusJobSearch \in [Thread -> Free..Waiting]
        /\ addRequestThreads \in [Thread -> Seq(Thread)]
        /\ \A u \in Thread : /\ DOMAIN addRequestThreads[u] = 1..Len(addRequestThreads[u])
                             /\ \A i \in 1..Len(addRequestThreads[u]) :
                                    addRequestThreads[u][i] \in Thread
    <3>1. /\ statusJobSearch \in [Thread -> Free..Waiting]
          /\ addRequestThreads \in [Thread -> Seq(Thread)]
      BY DEF Types
    <3>2. \A s \in Seq(Thread) : DOMAIN s = 1..Len(s) /\ \A i \in 1..Len(s) : s[i] \in Thread
      OBVIOUS
    <3> QED
      BY <3>1, <3>2
  <2> SUFFICES ASSUME NEW u \in Thread, statusJobSearch'[u] = Waiting,
                      NEW i \in 1..Len(addRequestThreads'[u])
               PROVE  /\ statusJobSearch'[addRequestThreads'[u][i]] = Blocked
                      /\ \A w \in Thread : statusJobSearch'[w] = Waiting =>
                             \A j \in 1..Len(addRequestThreads'[w]) :
                                 addRequestThreads'[u][i] = addRequestThreads'[w][j] =>
                                     u = w /\ i = j
    BY DEF Lists
  <2>1. CASE statusJobSearch' = statusJobSearch /\ addRequestThreads' = addRequestThreads
    BY <2>1 DEF Lists
  <2>2. CASE /\ statusJobSearch[t] = Served /\ addRequestThreads' = addRequestThreads
             /\ statusJobSearch' = [statusJobSearch EXCEPT ![t] = Free]
    <3>1. \A w \in Thread : statusJobSearch'[w] = Waiting => statusJobSearch[w] = Waiting
      BY <2>0, <2>2 DEF Free, Waiting
    <3>2. \A w \in Thread : statusJobSearch[w] = Blocked => statusJobSearch'[w] = Blocked
      BY <2>0, <2>2 DEF Served, Blocked
    <3> QED
      BY <2>0, <2>2, <3>1, <3>2 DEF Lists
  <2>3. CASE Asks(t)
    <3>1. /\ statusJobSearch[t] = Free
          /\ \A w \in Thread : statusJobSearch[w] = Blocked => statusJobSearch'[w] = Blocked
          /\ \A w \in Idle(t) : statusJobSearch[w] = Free /\ statusJobSearch'[w] = Blocked
          /\ \A w \in Thread \ {t} : statusJobSearch'[w] = Waiting => statusJobSearch[w] = Waiting
      BY <2>0, <2>3 DEF Asks, Idle, Free, Blocked, Waiting
    <3>2. /\ addRequestThreads'[t] = Ascending(Idle(t))
          /\ \A w \in Thread \ {t} : addRequestThreads'[w] = addRequestThreads[w]
      BY <2>0, <2>3 DEF Asks
    <3>3. \A w \in Thread \ {t} : statusJobSearch'[w] = Waiting =>
              \A j \in 1..Len(addRequestThreads[w]) :
                  addRequestThreads[w][j] \in Thread /\ statusJobSearch[addRequestThreads[w][j]] = Blocked
      BY <2>0, <3>1 DEF Lists
    <3>4. CASE u = t
      <4>1. i \in 1..Len(Ascending(Idle(t))) /\ addRequestThreads'[u][i] = Ascending(Idle(t))[i]
        BY <3>2, <3>4
      <4>2. Ascending(Idle(t))[i] \in Idle(t)
        BY <4>1, IdleListed
      <4>3. \A w \in Thread \ {t} : statusJobSearch'[w] = Waiting =>
                \A j \in 1..Len(addRequestThreads'[w]) :
                    addRequestThreads'[u][i] # addRequestThreads'[w][j]
        BY <3>1, <3>2, <3>3, <4>1, <4>2 DEF Free, Blocked
      <4>4. \A j \in 1..Len(addRequestThreads'[t]) :
                addRequestThreads'[u][i] = addRequestThreads'[t][j] => i = j
        BY <3>2, <4>1, IdleListed
      <4> QED
        BY <3>1, <3>4, <4>1, <4>2, <4>3, <4>4
    <3>5. CASE u # t
      <4>1. statusJobSearch[u] = Waiting /\ addRequestThreads'[u] = addRequestThreads[u]
        BY <3>1, <3>2, <3>5
      <4>2. addRequestThreads[u][i] \in Thread /\ statusJobSearch[addRequestThreads[u][i]] = Blocked
        BY <2>0, <4>1 DEF Lists
      <4>3. \A w \in Thread \ {t} : statusJobSearch'[w] = Waiting =>
                \A j \in 1..Len(addRequestThreads'[w]) :
                    addRequestThreads'[u][i] = addRequestThreads'[w][j] => u = w /\ i = j
        BY <3>1, <3>2, <4>1 DEF Lists
      <4>4. \A j \in 1..Len(addRequestThreads'[t]) :
                addRequestThreads'[u][i] # addRequestThreads'[t][j]
        <5>1. \A j \in 1..Len(Ascending(Idle(t))) : Ascending(Idle(t))[j] \in Idle(t)
          BY IdleListed
        <5>2. addRequestThreads[u][i] \notin Idle(t)
          BY <3>1, <4>2 DEF Free, Blocked
        <5> QED
          BY <3>2, <4>1, <5>1, <5>2
      <4> QED
        BY <3>1, <4>1, <4>2, <4>3, <4>4
    <3> QED
      BY <3>4, <3>5
  <2>4. CASE SettleMultiple(t)
    <3>1. /\ statusJobSearch[t] = Waiting
          /\ statusJobSearch'[t] = Free
          /\ \A w \in Thread \ {t} : statusJobSearch'[w] =
                 IF w \in ToSet(addRequestThreads[t]) THEN Served ELSE statusJobSearch[w]
          /\ \A w \in Thread \ {t} : addRequestThreads'[w] = addRequestThreads[w]
      BY <2>0, <2>4, ListsAreMultiple DEF SettleMultiple
    <3>2. \A w \in Thread : statusJobSearch'[w] = Waiting =>
              w # t /\ statusJobSearch[w] = Waiting
      BY <3>1 DEF Free, Served, Waiting
    <3>3. /\ u # t /\ statusJobSearch[u] = Waiting /\ addRequestThreads'[u] = addRequestThreads[u]
          /\ i \in 1..Len(addRequestThreads[u])
      BY <3>1, <3>2
    <3> DEFINE x == addRequestThreads[u][i]
    <3>4. x \in Thread /\ statusJobSearch[x] = Blocked
      BY <2>0, <3>3 DEF Lists
    <3>5. x \notin ToSet(addRequestThreads[t])
      <4>1. \A j \in 1..Len(addRequestThreads[t]) : x # addRequestThreads[t][j]
        BY <3>1, <3>3 DEF Lists
      <4>2. ToSet(addRequestThreads[t])
                = {addRequestThreads[t][j] : j \in 1..Len(addRequestThreads[t])}
        BY <2>0 DEF ToSet
      <4> QED
        BY <4>1, <4>2
    <3>6. x # t
      BY <3>1, <3>4 DEF Blocked, Waiting
    <3>7. statusJobSearch'[x] = Blocked
      BY <3>1, <3>4, <3>5, <3>6
    <3>8. \A w \in Thread : statusJobSearch'[w] = Waiting =>
              \A j \in 1..Len(addRequestThreads'[w]) :
                  addRequestThreads[u][i] = addRequestThreads'[w][j] => u = w /\ i = j
      BY <3>1, <3>2, <3>3 DEF Lists
    <3> QED
      BY <3>3, <3>7, <3>8
  <2> QED
    BY <1>2, <2>1, <2>2, <2>3, <2>4, StatusChanges
<1> QED
  BY <1>1, <1>2

\* Under MULTIPLE the places and the amounts dealt change in few actions.
LEMMA DealChanges ==
    ASSUME Types, Places, threadsRequestPolicy = Multiple, NEW t \in Thread, Step(t)
    PROVE  \/ Deal(t)
           \/ \E n \in 0..T : Answer(t, n)
           \/ SettleMultiple(t)
           \/ /\ dealt' = dealt /\ received' = received
              /\ \A u \in Thread : pc'[u] = "deal" <=> pc[u] = "deal"
<1>0. PlaceOf(t) /\ pc \in [Thread -> Labels]
  BY DEF Types, Places
<1>1. ASSUME AskMultiple(t)
      PROVE  /\ dealt' = dealt /\ received' = received
             /\ \A u \in Thread : pc'[u] = "deal" <=> pc[u] = "deal"
  <2>1. /\ pc[t] = "ask" /\ dealt' = dealt /\ received' = received
        /\ Asks(t) \/ IsFreed(t) \/ MayNot(t)
    BY <1>1, MultipleAsks DEF dealVars
  <2> QED
    BY <1>0, <2>1 DEF Asks, IsFreed, MayNot
<1>2. ~ AskPredictive(t) /\ ~ AskAggressive(t) /\ \A n \in 0..T : ~ AnswerPredictive(t, n)
  BY DEF AskPredictive, AskAggressive, AnswerPredictive, Multiple, Predictive, Aggressive
<1> QED
  BY <1>0, <1>1, <1>2, Actions DEF Solve, Expand, Acquire, StealHere, NothingHere, OutOfWork,
    BackToWork, Increment, Post, NoAnswer, SettleAggressive, Decrement, Goto, dealVars

\* What is dealt goes to threads with empty stacks, and there are enough.
LEMMA DealingStays ==
    ASSUME Types, Places, Statuses, Lists, Dealing, Types', NEW t \in Thread, Step(t)
    PROVE  Dealing'
<1>0. threadsRequestPolicy' = threadsRequestPolicy
  BY PolicyStays
<1>1. CASE threadsRequestPolicy # Multiple
  <2>1. Places' /\ Statuses'
    BY PlacesStay, StatusesStay
  <2>2. \A u \in Thread : PlaceOf(u)'
    BY <2>1 DEF Places
  <2>3. \A u \in Thread : addRequestThreads'[u] = <<>> /\ pc'[u] # "deal"
    BY <1>0, <1>1, <2>2 DEF PlaceOf
  <2> QED
    BY <2>3 DEF Dealing
<1>2. CASE threadsRequestPolicy = Multiple
  <2>0. /\ statusJobSearch \in [Thread -> Free..Waiting] /\ pc \in [Thread -> Labels]
        /\ addRequestThreads \in [Thread -> Seq(Thread)]
        /\ \A u \in Thread : \A i \in 1..Len(addRequestThreads[u]) :
               addRequestThreads[u][i] \in Thread
        /\ dealt \in [Thread -> Nat] /\ received \in [Thread -> Nat]
        /\ localDepth \in [Thread -> Nat] /\ sharedDepth \in [Thread -> Nat]
    <3>1. /\ statusJobSearch \in [Thread -> Free..Waiting] /\ pc \in [Thread -> Labels]
          /\ addRequestThreads \in [Thread -> Seq(Thread)]
          /\ dealt \in [Thread -> 0..T] /\ received \in [Thread -> 0..T]
          /\ localDepth \in [Thread -> Nat] /\ sharedDepth \in [Thread -> Nat]
      BY DEF Types
    <3>2. \A s \in Seq(Thread) : \A i \in 1..Len(s) : s[i] \in Thread
      OBVIOUS
    <3>3. 0..T \subseteq Nat
      BY Constants
    <3> QED
      BY <3>1, <3>2, <3>3
  <2> DEFINE Empty(u) == \A i \in 1..Len(addRequestThreads[u]) :
                             pc[u] # "deal" \/ i > dealt[u] =>
                                 ss_localFullDepth(addRequestThreads[u][i]) = 0
             Enough(u) == pc[u] = "deal" =>
                              dealt[u] + received[u] <= Len(addRequestThreads[u])
  <2> SUFFICES ASSUME NEW u \in Thread, statusJobSearch'[u] = Waiting
               PROVE  Empty(u)' /\ Enough(u)'
    BY DEF Dealing
  \* Who is on a list is blocked.
  <2>1. ASSUME NEW w \in Thread, statusJobSearch[w] = Waiting
        PROVE  /\ Empty(w) /\ Enough(w)
               /\ \A i \in 1..Len(addRequestThreads[w]) :
                      statusJobSearch[addRequestThreads[w][i]] = Blocked
    BY <2>1 DEF Dealing, Lists
  <2>2. ASSUME ~ Deal(t), statusJobSearch[u] = Waiting, addRequestThreads'[u] = addRequestThreads[u],
               \A i \in 1..Len(addRequestThreads[u]) :
                   pc'[u] # "deal" \/ i > dealt'[u] => pc[u] # "deal" \/ i > dealt[u]
        PROVE  Empty(u)'
    <3>1. \A i \in 1..Len(addRequestThreads[u]) :
              ss_localFullDepth(addRequestThreads[u][i]) = 0 =>
                  ss_localFullDepth(addRequestThreads[u][i])' = 0
      <4> SUFFICES ASSUME NEW i \in 1..Len(addRequestThreads[u]),
                          NEW w \in Thread, w = addRequestThreads[u][i],
                          ss_localFullDepth(w) = 0
                   PROVE  ss_localFullDepth(w)' = 0
        BY <2>0, <2>2 DEF ss_localFullDepth
      <4>1. statusJobSearch[w] = Blocked
        BY <2>1, <2>2
      <4> QED
        BY <1>2, <2>2, <4>1, BlockedStaysEmpty
    <3>2. Empty(u)
      BY <2>1, <2>2
    <3> QED
      BY <2>2, <3>1, <3>2 DEF ss_localFullDepth
  <2>3. CASE Deal(t)
    <3>1. /\ pc[t] = "deal" /\ received[t] > 0 /\ pc' = pc /\ statusJobSearch' = statusJobSearch
          /\ addRequestThreads' = addRequestThreads
          /\ received' = [received EXCEPT ![t] = @ - 1] /\ dealt' = [dealt EXCEPT ![t] = @ + 1]
          /\ sharedDepth' = sharedDepth
      BY <2>3 DEF Deal, requestVars
    <3>2. statusJobSearch[t] = Waiting /\ dealt[t] + received[t] <= Len(addRequestThreads[t])
      BY <2>1, <3>1, ListsAreMultiple
    <3> DEFINE k == dealt[t] + 1
               v == addRequestThreads[t][k]
    <3>3. k \in 1..Len(addRequestThreads[t]) /\ v \in Thread /\ ss_localFullDepth(v) = 0
      <4>1. k \in 1..Len(addRequestThreads[t])
        <5>1. PICK d \in Nat, r \in Nat, len \in Nat :
                  d = dealt[t] /\ r = received[t] /\ len = Len(addRequestThreads[t])
          BY <2>0
        <5>2. r > 0 /\ d + r <= len
          BY <3>1, <3>2, <5>1
        <5>3. d + 1 \in 1..len
          BY <5>2
        <5> QED
          BY <5>1, <5>3
      <4>2. Empty(t)
        BY <2>1, <3>2
      <4>3. k > dealt[t] /\ v \in Thread
        <5>1. dealt[t] \in Nat
          BY <2>0
        <5>2. k > dealt[t]
          BY <5>1
        <5> HIDE DEF k
        <5>3. v \in Thread
          BY <2>0, <4>1
        <5> QED
          BY <5>2, <5>3
      <4> QED
        BY <4>1, <4>2, <4>3
    <3>4. localDepth' = [localDepth EXCEPT ![v] = @ + 1]
      BY <2>3, <3>3 DEF Deal
    <3>5. statusJobSearch[u] = Waiting
      BY <3>1
    <3>6. Enough(u)'
      BY <2>0, <2>1, <3>1, <3>2, <3>5
    <3>7. ASSUME NEW i \in 1..Len(addRequestThreads[u]), pc'[u] # "deal" \/ i > dealt'[u]
          PROVE  ss_localFullDepth(addRequestThreads[u][i])' = 0
      <4>1. PICK w \in Thread : w = addRequestThreads[u][i]
        BY <2>0
      <4>2. pc[u] # "deal" \/ i > dealt[u]
        BY <2>0, <3>1, <3>7
      <4>3. ss_localFullDepth(w) = 0
        BY <2>1, <3>5, <4>1, <4>2
      <4>4. w # v
        <5> SUFFICES ASSUME w = v
                     PROVE  FALSE
          OBVIOUS
        <5>0. addRequestThreads[u][i] = addRequestThreads[t][k]
          BY <4>1
        <5>1. u = t /\ i = k
          <6> HIDE DEF k
          <6> QED
            BY <3>2, <3>3, <3>5, <5>0 DEF Lists
        <5> QED
          BY <2>0, <3>1, <3>7, <5>1
      <4>5. ss_localFullDepth(w)' = 0
        BY <2>0, <3>1, <3>4, <4>3, <4>4 DEF ss_localFullDepth
      <4> QED
        BY <3>1, <4>1, <4>5
    <3> QED
      BY <3>1, <3>6, <3>7
  <2>4. ASSUME NEW n \in 0..T, Answer(t, n)
        PROVE  Empty(u)' /\ Enough(u)'
    <3>0. ~ Deal(t) /\ PlaceOf(t) /\ StatusOf(t)
      BY <2>4 DEF Answer, Deal, Goto, Places, Statuses
    <3>1. /\ statusJobSearch' = statusJobSearch /\ addRequestThreads' = addRequestThreads
          /\ pc[t] = "test" /\ pc' = [pc EXCEPT ![t] = "deal"] /\ n <= wanted[t] /\ wanted[t] > 0
          /\ received' = [received EXCEPT ![t] = IF n > 0 THEN n - 1 ELSE 0]
          /\ dealt' = [dealt EXCEPT ![t] = 0]
      BY <1>2, <2>4 DEF Answer, Goto, Multiple, Aggressive
    <3>2. Empty(u)'
      BY <2>0, <2>2, <3>0, <3>1
    <3>3. Enough(u)'
      <4>1. CASE u = t
        <5>1. wanted[t] <= 1 + Len(addRequestThreads[t])
          BY <1>2, <3>0 DEF PlaceOf, Multiple, Predictive
        <5>2. wanted[t] \in 0..T /\ T \in Nat /\ Len(addRequestThreads[t]) \in Nat
          BY <2>0, Constants DEF Types
        <5> QED
          BY <2>0, <3>1, <4>1, <5>1, <5>2
      <4>2. CASE u # t
        BY <2>0, <2>1, <3>1, <4>2
      <4> QED
        BY <4>1, <4>2
    <3> QED
      BY <3>2, <3>3
  <2>5. CASE SettleMultiple(t)
    <3>1. /\ pc[t] = "deal" /\ pc'[t] # "deal" /\ statusJobSearch'[t] = Free
          /\ \A w \in Thread \ {t} : /\ pc'[w] = pc[w]
                                     /\ addRequestThreads'[w] = addRequestThreads[w]
                                     /\ statusJobSearch'[w] \in {statusJobSearch[w], Served}
          /\ dealt' = dealt /\ received' = received
      BY <2>0, <2>5 DEF SettleMultiple, dealVars
    <3>2. u # t /\ statusJobSearch[u] = Waiting
      BY <3>1 DEF Free, Served, Waiting
    <3>3. ~ Deal(t)
      BY <2>5 DEF SettleMultiple, Deal
    <3> QED
      BY <2>1, <2>2, <3>1, <3>2, <3>3
  <2>6. CASE /\ dealt' = dealt /\ received' = received
             /\ \A w \in Thread : pc'[w] = "deal" <=> pc[w] = "deal"
             /\ ~ Deal(t) /\ ~ SettleMultiple(t)
    <3>1. CASE AskMultiple(t) /\ Asks(t) /\ u = t
      <4>1. addRequestThreads'[u] = Ascending(Idle(t)) /\ pc'[u] = "post"
        BY <2>0, <3>1 DEF Asks
      <4>2. \A i \in 1..Len(Ascending(Idle(t))) : Ascending(Idle(t))[i] \in Idle(t)
        BY IdleListed
      <4>3. ASSUME NEW w \in Idle(t)
            PROVE  ss_localFullDepth(w)' = 0
        <5>1. /\ w \in Thread /\ ss_localFullDepth(w) = 0
          BY DEF Idle
        <5> QED
          BY <3>1, <5>1, MultipleAsks DEF ss_localFullDepth, stackVars
      <4>4. \A i \in 1..Len(addRequestThreads'[u]) : ss_localFullDepth(addRequestThreads[u][i])' = 0
        BY <4>1, <4>2, <4>3 DEF ss_localFullDepth
      <4> QED
        BY <4>1, <4>4
    <3>2. CASE ~(AskMultiple(t) /\ Asks(t) /\ u = t)
      <4>1. statusJobSearch[u] = Waiting /\ addRequestThreads'[u] = addRequestThreads[u]
        BY <1>2, <2>0, <2>6, <3>2, StatusChanges DEF Asks, Free, Served, Blocked, Waiting
      <4> QED
        BY <2>1, <2>2, <2>6, <4>1
    <3> QED
      BY <3>1, <3>2
  <2> QED
    BY <1>2, <2>3, <2>4, <2>5, <2>6, DealChanges
<1> QED
  BY <1>1, <1>2

\* A blocked thread keeps somebody who waits for an answer on its behalf.
LEMMA AskerStays ==
    ASSUME Types, Places, Statuses, Lists, Counting, BlockedHasAsker,
           NEW t \in Thread, Step(t)
    PROVE  BlockedHasAsker'
<1>0. /\ threadsRequestPolicy' = threadsRequestPolicy
      /\ threadsRequestPolicy \in {Aggressive, Multiple, Predictive}
  BY PolicyStays, Constants DEF Types
<1>1. /\ statusJobSearch \in [Thread -> Free..Waiting]
      /\ addRequestThreads \in [Thread -> Seq(Thread)]
      /\ \A u \in Thread : ToSet(addRequestThreads[u])
             = {addRequestThreads[u][j] : j \in 1..Len(addRequestThreads[u])}
  <2>1. /\ statusJobSearch \in [Thread -> Free..Waiting]
        /\ addRequestThreads \in [Thread -> Seq(Thread)]
    BY DEF Types
  <2>2. \A s \in Seq(Thread) : ToSet(s) = {s[j] : j \in 1..Len(s)}
    BY DEF ToSet
  <2> QED
    BY <2>1, <2>2
<1> SUFFICES ASSUME NEW v \in Thread, statusJobSearch'[v] = Blocked
             PROVE  \E u \in Thread \ {v} :
                        /\ statusJobSearch'[u] = Waiting
                        /\ threadsRequestPolicy' = Multiple => v \in ToSet(addRequestThreads'[u])
  BY DEF BlockedHasAsker, ToSet
<1>2. ASSUME statusJobSearch[v] = Blocked
      PROVE  \E u \in Thread \ {v} :
                 /\ statusJobSearch[u] = Waiting
                 /\ threadsRequestPolicy = Multiple => v \in ToSet(addRequestThreads[u])
  BY <1>2 DEF BlockedHasAsker
<1>3. CASE threadsRequestPolicy = Aggressive
  <2>1. Statuses'
    BY StatusesStay
  <2> QED
    BY <1>0, <1>3, <2>1 DEF Statuses, StatusOf, Free, Blocked
<1>4. CASE threadsRequestPolicy = Multiple
  <2>1. CASE statusJobSearch' = statusJobSearch /\ addRequestThreads' = addRequestThreads
    BY <1>0, <1>2, <2>1
  <2>2. CASE /\ statusJobSearch[t] = Served /\ addRequestThreads' = addRequestThreads
             /\ statusJobSearch' = [statusJobSearch EXCEPT ![t] = Free]
    BY <1>0, <1>1, <1>2, <2>2 DEF Free, Blocked, Served, Waiting
  <2>3. CASE AskMultiple(t) /\ Asks(t)
    <3>1. /\ statusJobSearch[t] = Free /\ statusJobSearch'[t] = Waiting /\ v # t
          /\ addRequestThreads'[t] = Ascending(Idle(t))
          /\ \A u \in Thread \ {t} : addRequestThreads'[u] = addRequestThreads[u]
          /\ \A u \in Thread : statusJobSearch[u] = Waiting => statusJobSearch'[u] = Waiting
          /\ v \in Idle(t) \/ statusJobSearch[v] = Blocked
      BY <1>1, <2>3 DEF Asks, Idle, Free, Blocked, Waiting
    <3>2. CASE v \in Idle(t)
      <4>1. v \in ToSet(Ascending(Idle(t)))
        <5>1. Ascending(Idle(t)) \in Seq(Thread)
              /\ \E j \in 1..Len(Ascending(Idle(t))) : Ascending(Idle(t))[j] = v
          BY <3>2, IdleListed
        <5> QED
          BY <5>1 DEF ToSet
      <4> QED
        BY <3>1, <4>1
    <3>3. CASE statusJobSearch[v] = Blocked
      <4>1. PICK u \in Thread : /\ u # v /\ statusJobSearch[u] = Waiting
                                /\ v \in ToSet(addRequestThreads[u])
        BY <1>2, <1>4, <3>3
      <4>2. u # t
        BY <3>1, <4>1 DEF Free, Waiting
      <4> QED
        BY <3>1, <4>1, <4>2
    <3> QED
      BY <3>1, <3>2, <3>3
  <2>4. CASE SettleMultiple(t)
    <3>1. /\ statusJobSearch'[t] = Free
          /\ \A u \in Thread \ {t} : statusJobSearch'[u] =
                 IF u \in ToSet(addRequestThreads[t]) THEN Served ELSE statusJobSearch[u]
          /\ \A u \in Thread \ {t} : addRequestThreads'[u] = addRequestThreads[u]
          /\ statusJobSearch[t] = Waiting
      BY <1>1, <2>4, ListsAreMultiple DEF SettleMultiple
    <3>2. v # t /\ v \notin ToSet(addRequestThreads[t]) /\ statusJobSearch[v] = Blocked
      BY <3>1 DEF Free, Blocked, Served
    <3>3. PICK u \in Thread : /\ u # v /\ statusJobSearch[u] = Waiting
                              /\ v \in ToSet(addRequestThreads[u])
      BY <1>2, <1>4, <3>2
    <3>4. u # t
      BY <3>2, <3>3
    <3>5. u \notin ToSet(addRequestThreads[t])
      <4>1. \A j \in 1..Len(addRequestThreads[t]) :
                statusJobSearch[addRequestThreads[t][j]] = Blocked
        BY <3>1 DEF Lists
      <4>2. \A j \in 1..Len(addRequestThreads[t]) : addRequestThreads[t][j] # u
        BY <3>3, <4>1 DEF Blocked, Waiting
      <4> QED
        BY <1>1, <4>2
    <3> QED
      BY <3>1, <3>3, <3>4, <3>5
  <2> QED
    BY <1>4, <2>1, <2>2, <2>3, <2>4, StatusChanges
<1>5. CASE threadsRequestPolicy = Predictive
  <2>0. /\ mpi_processing \in 0..T /\ Limit \in 1..T /\ T \in Nat
        /\ \A u \in Thread : statusJobSearch[u] = Waiting <=> u \in Requests
    BY <1>5, Constants DEF Types, Statuses, StatusOf, Requests, Predictive, Aggressive
  <2>1. CASE statusJobSearch' = statusJobSearch
    BY <1>0, <1>2, <1>5, <2>1 DEF Predictive, Multiple
  <2>2. ASSUME statusJobSearch[t] \in {Free, Served},
               \/ statusJobSearch' = [statusJobSearch EXCEPT ![t] = Free]
               \/ statusJobSearch' = [statusJobSearch EXCEPT ![t] = Waiting]
        PROVE  \E u \in Thread \ {v} : statusJobSearch'[u] = Waiting
    BY <1>1, <1>2, <2>2 DEF Free, Blocked, Served, Waiting
  <2>3. CASE AskPredictive(t) /\ Blocks(t)
    <3>1. /\ statusJobSearch[t] = Free /\ ~Unlimited /\ mpi_processing >= Limit
          /\ \A u \in Thread \ {t} : statusJobSearch'[u] = statusJobSearch[u]
      BY <1>1, <2>3 DEF Blocks
    <3>2. Cardinality(Requests) >= 1
      BY <2>0, <3>1 DEF Counting
    <3>3. Requests # {}
      BY <3>2, FS_EmptySet
    <3>4. PICK w \in Thread : statusJobSearch[w] = Waiting
      BY <2>0, <3>3 DEF Requests
    <3>5. w # t /\ statusJobSearch'[w] = Waiting /\ w # v
      BY <3>1, <3>4 DEF Free, Blocked, Waiting
    <3> QED
      BY <1>0, <1>5, <3>5 DEF Predictive, Multiple
  <2>4. ASSUME NEW n \in 0..T, AnswerPredictive(t, n)
        PROVE  FALSE
    BY <1>1, <2>4 DEF AnswerPredictive, Free, Blocked, Served
  <2>5. \/ statusJobSearch' = statusJobSearch
        \/ /\ statusJobSearch[t] \in {Free, Served}
           /\ \/ statusJobSearch' = [statusJobSearch EXCEPT ![t] = Free]
              \/ statusJobSearch' = [statusJobSearch EXCEPT ![t] = Waiting]
        \/ AskPredictive(t) /\ Blocks(t)
        \/ \E n \in 0..T : AnswerPredictive(t, n)
    <3>1. ASSUME AskPredictive(t)
          PROVE  AsksAlone(t) \/ Blocks(t) \/ IsFreed(t) \/ MayNot(t)
      BY <3>1, PredictiveAsks
    <3>2. ASSUME BackToWork(t)
          PROVE  \/ statusJobSearch' = statusJobSearch
                 \/ /\ statusJobSearch[t] = Served
                    /\ statusJobSearch' = [statusJobSearch EXCEPT ![t] = Free]
      BY <3>2 DEF BackToWork
    <3>3. ~ AskMultiple(t)
      BY <1>5 DEF AskMultiple, Multiple, Predictive
    <3>4. ~ SettleMultiple(t)
      <4>1. pc[t] # "deal"
        BY <1>5, ListsAreMultiple DEF Multiple, Predictive
      <4> QED
        BY <4>1 DEF SettleMultiple
    <3> QED
      BY <3>1, <3>2, <3>3, <3>4, Actions DEF Solve, Expand, Acquire, StealHere, NothingHere,
        OutOfWork, AskAggressive, Increment, Post, NoAnswer, Answer, Deal, SettleAggressive,
        Decrement, AsksAlone, IsFreed, MayNot
  <2> QED
    BY <1>0, <1>5, <2>1, <2>2, <2>3, <2>4, <2>5 DEF Predictive, Multiple
<1> QED
  BY <1>0, <1>3, <1>4, <1>5

-----------------------------------------------------------------------------
(* What is received is dealt out, no more and no less.                     *)

\* The shares of PREDICTIVE add up to what was received.
LEMMA SharesAddUp ==
    ASSUME NEW n \in Nat, NEW len \in Nat
    PROVE  /\ \A i \in 0..len : Shares(n, len + 1)[i] \in Nat
           /\ SumFunctionOnSet(Shares(n, len + 1), 0..len) = n
<1> DEFINE k == len + 1
<1>0. k \in Nat \ {0} /\ k - 1 = len
  OBVIOUS
<1>1. PICK q \in Nat, r \in Nat : q = n \div k /\ r = n % k /\ r < k /\ n = q * k + r
  BY <1>0
<1> HIDE DEF k
<1>2. \A i \in 0..len : Shares(n, k)[i] = q + (IF i \in 0..(r - 1) THEN 1 ELSE 0)
  BY <1>0, <1>1 DEF Shares
<1>3. \A i \in 0..len : Shares(n, k)[i] \in Nat
  BY <1>1, <1>2
<1>4. IsFiniteSet(0..len) /\ Cardinality(0..len) = k
  <2>1. Cardinality(0..len) = (IF 0 > len THEN 0 ELSE len - 0 + 1) /\ IsFiniteSet(0..len)
    BY FS_Interval
  <2> QED
    BY <2>1 DEF k
<1>5. Cardinality((0..len) \cap (0..(r - 1))) = r
  <2>1. (0..len) \cap (0..(r - 1)) = 0..(r - 1)
    BY <1>0, <1>1
  <2>2. r - 1 \in Int
    BY <1>1
  <2>3. Cardinality(0..(r - 1)) = IF 0 > r - 1 THEN 0 ELSE (r - 1) - 0 + 1
    BY <2>2, FS_Interval
  <2>4. (IF 0 > r - 1 THEN 0 ELSE (r - 1) - 0 + 1) = r
    BY <1>1
  <2> QED
    BY <2>1, <2>3, <2>4
<1>6. SumFunctionOnSet(Shares(n, k), 0..len) = q * k + r
  <2>1. SumFunctionOnSet(Shares(n, k), 0..len)
            = q * Cardinality(0..len) + Cardinality((0..len) \cap (0..(r - 1)))
    <3>1. PICK f, S, A : f = Shares(n, k) /\ S = 0..len /\ A = 0..(r - 1)
      OBVIOUS
    <3>2. \A x \in S : f[x] = q + (IF x \in A THEN 1 ELSE 0)
      BY <1>2, <3>1
    <3>3. IsFiniteSet(S) /\ q \in Int
      BY <1>1, <1>4, <3>1
    <3>4. SumFunctionOnSet(f, S) = q * Cardinality(S) + Cardinality(S \cap A)
      BY <3>2, <3>3, SumOfShares
    <3> QED
      BY <3>1, <3>4
  <2> QED
    BY <1>4, <1>5, <2>1
<1> QED
  BY <1>1, <1>3, <1>6 DEF k

\* Every share goes to one thread.
LEMMA SharesAreDealt ==
    ASSUME NEW n \in Nat, NEW t \in Thread, NEW blocked \in Seq(Thread)
    PROVE  LET shares == Shares(n, Len(blocked) + 1) IN
           /\ \A v \in Thread : SharesOf(v, t, blocked, shares) \in Nat
           /\ SumFunction([v \in Thread |-> SharesOf(v, t, blocked, shares)]) = n
<1> DEFINE len == Len(blocked)
           shares == Shares(n, len + 1)
           dest == [i \in 0..len |-> Destination(t, blocked, i)]
<1>0. len \in Nat /\ IsFiniteSet(0..len) /\ IsFiniteSet(Thread)
  <2>1. len \in Nat
    OBVIOUS
  <2> HIDE DEF len
  <2> QED
    BY <2>1, FS_Interval, Constants
<1>1. \A i \in 0..len : dest[i] \in Thread
  BY <1>0 DEF Destination
<1>2. /\ \A i \in 0..len : shares[i] \in Nat
      /\ SumFunctionOnSet(shares, 0..len) = n
  BY <1>0, SharesAddUp
<1>3. \A v \in Thread : SharesOf(v, t, blocked, shares)
                            = SumFunctionOnSet(shares, {i \in 0..len : dest[i] = v})
  <2> SUFFICES ASSUME NEW v \in Thread
               PROVE  SharesOf(v, t, blocked, shares)
                            = SumFunctionOnSet(shares, {i \in 0..len : dest[i] = v})
    OBVIOUS
  <2>1. {i \in 0..len : dest[i] = v} = {i \in 0..len : Destination(t, blocked, i) = v}
    OBVIOUS
  <2> QED
    BY <2>1 DEF SharesOf
<1> HIDE DEF shares, dest, len
<1>4. SumFunctionOnSet(shares, 0..len)
          = SumFunction([v \in Thread |-> SumFunctionOnSet(shares, {i \in 0..len : dest[i] = v})])
  <2>1. PICK S : S = 0..len
    OBVIOUS
  <2>2. /\ IsFiniteSet(S) /\ \A i \in S : shares[i] \in Int
        /\ IsFiniteSet(Thread) /\ \A i \in S : dest[i] \in Thread
    BY <1>0, <1>1, <1>2, <2>1
  <2>3. SumFunctionOnSet(shares, S)
            = SumFunction([v \in Thread |-> SumFunctionOnSet(shares, {i \in S : dest[i] = v})])
    BY <2>2, SumByGroups
  <2> QED
    BY <2>1, <2>3
<1>5. [v \in Thread |-> SumFunctionOnSet(shares, {i \in 0..len : dest[i] = v})]
          = [v \in Thread |-> SharesOf(v, t, blocked, shares)]
  BY <1>3
<1>6. ASSUME NEW v \in Thread
      PROVE  SharesOf(v, t, blocked, shares) \in Nat
  <2> DEFINE mine == {i \in 0..len : dest[i] = v}
  <2>1. mine \in SUBSET (0..len)
    OBVIOUS
  <2>2. IsFiniteSet(mine)
    BY <1>0, <2>1, FS_Subset
  <2>3. \A i \in mine : shares[i] \in Nat
    BY <1>2, <2>1
  <2> HIDE DEF mine
  <2>4. SumFunctionOnSet(shares, mine) \in Nat
    BY <2>2, <2>3, SumOnNat
  <2> QED
    BY <1>3, <2>4 DEF mine
<1> QED
  BY <1>2, <1>4, <1>5, <1>6 DEF shares, len

\* The units each thread has, on its stack or to deal out.
Units == [t \in Thread |-> ss_localFullDepth(t) + received[t]]

\* Some facts of Types in a form the sums can use.
LEMMA UnitsTyped ==
    ASSUME Types
    PROVE  /\ localDepth \in [Thread -> Nat] /\ sharedDepth \in [Thread -> Nat]
           /\ received \in [Thread -> Nat] /\ created \in Int /\ processed \in Nat
           /\ DOMAIN Units = Thread /\ \A x \in Thread : Units[x] \in Nat
           /\ SumFunction(Units) \in Nat
<1>1. /\ localDepth \in [Thread -> Nat] /\ sharedDepth \in [Thread -> Nat]
      /\ created \in Int /\ processed \in Nat
  BY Constants DEF Types
<1>2. received \in [Thread -> Nat]
  <2>1. received \in [Thread -> 0..T] /\ 0..T \subseteq Nat
    BY Constants DEF Types
  <2> QED
    BY <2>1
<1>3. DOMAIN Units = Thread /\ \A x \in Thread : Units[x] \in Nat
  BY <1>1, <1>2 DEF Units, ss_localFullDepth
<1>4. SumFunction(Units) \in Nat
  <2>1. Units \in [Thread -> Nat]
    BY <1>1, <1>2 DEF Units, ss_localFullDepth
  <2> QED
    BY <2>1, Constants, SumNat
<1> QED
  BY <1>1, <1>2, <1>3, <1>4

\* The same after a step.
LEMMA UnitsTypedAfter ==
    ASSUME Types'
    PROVE  /\ localDepth' \in [Thread -> Nat] /\ sharedDepth' \in [Thread -> Nat]
           /\ received' \in [Thread -> Nat] /\ created' \in Int /\ processed' \in Nat
           /\ DOMAIN Units' = Thread /\ \A x \in Thread : Units'[x] \in Nat
           /\ SumFunction(Units') \in Nat
<1>1. /\ localDepth' \in [Thread -> Nat] /\ sharedDepth' \in [Thread -> Nat]
      /\ created' \in Int /\ processed' \in Nat
  BY Constants DEF Types
<1>2. received' \in [Thread -> Nat]
  <2>1. received' \in [Thread -> 0..T] /\ 0..T \subseteq Nat
    BY Constants DEF Types
  <2> QED
    BY <2>1
<1>3. DOMAIN Units' = Thread /\ \A x \in Thread : Units'[x] \in Nat
  BY <1>1, <1>2 DEF Units, ss_localFullDepth
<1>4. SumFunction(Units') \in Nat
  <2>1. PICK f : f = Units'
    OBVIOUS
  <2>2. f \in [Thread -> Nat]
    BY <1>1, <1>2, <2>1 DEF Units, ss_localFullDepth
  <2> QED
    BY <2>1, <2>2, Constants, SumNat
<1> QED
  BY <1>1, <1>2, <1>3, <1>4

\* When nothing is created or done, and no thread has more or less.
LEMMA NothingMoves ==
    ASSUME UnitsConserved, created' = created, processed' = processed,
           \A x \in Thread : Units'[x] = Units[x]
    PROVE  UnitsConserved'
<1>1. Units' = Units
  BY DEF Units
<1> QED
  BY <1>1 DEF UnitsConserved, Units

\* When one thread has a units more, and a units more are yet to be done.
LEMMA OneHasMore ==
    ASSUME Types, Types', UnitsConserved, NEW x \in Thread, NEW a \in Int,
           Units'[x] = Units[x] + a, \A y \in Thread \ {x} : Units'[y] = Units[y],
           created' - processed' = (created - processed) + a
    PROVE  UnitsConserved'
<1>1. PICK f, g, S : f = Units /\ g = Units' /\ S = Thread
  OBVIOUS
<1>2. SumFunction(g) - SumFunction(f) = g[x] - f[x]
  <2>1. DOMAIN f = S /\ DOMAIN g = S /\ x \in S
    BY <1>1, UnitsTyped, UnitsTypedAfter
  <2>2. \A y \in S : f[y] \in Int /\ g[y] \in Int
    BY <1>1, UnitsTyped, UnitsTypedAfter
  <2>3. \A y \in S \ {x} : g[y] = f[y]
    BY <1>1
  <2>4. IsFiniteSet(S)
    BY <1>1, Constants
  <2> QED
    BY <2>1, <2>2, <2>3, <2>4, SumOneChanges
<1>4. PICK m \in Nat, k \in Nat, o \in Nat :
          m = SumFunction(f) /\ k = SumFunction(g) /\ o = f[x] /\ g[x] = o + a
  BY <1>1, UnitsTyped, UnitsTypedAfter
<1>5. /\ created \in Int /\ processed \in Int /\ created' \in Int /\ processed' \in Int
  BY UnitsTyped, UnitsTypedAfter
<1>6. k - m = a
  BY <1>2, <1>4
<1>7. created = processed + m
  BY <1>1, <1>4 DEF UnitsConserved, Units
<1>8. created' = processed' + k
  <2>1. PICK c \in Int, d \in Int, e \in Int, h \in Int :
            c = created /\ d = processed /\ e = created' /\ h = processed'
    BY <1>5
  <2>2. e - h = (c - d) + a /\ c = d + m
    BY <1>7, <2>1
  <2>3. e = h + k
    <3>1. PICK i \in Int : i = a
      OBVIOUS
    <3> QED
      BY <1>6, <2>2, <3>1
  <2> QED
    BY <2>1, <2>3
<1> QED
  BY <1>1, <1>4, <1>8 DEF UnitsConserved, Units

\* When a unit goes from one thread to another.
LEMMA OneMoves ==
    ASSUME Types, Types', UnitsConserved, created' = created, processed' = processed,
           NEW x \in Thread, NEW z \in Thread, x # z,
           Units'[x] = Units[x] + 1, Units'[z] = Units[z] - 1,
           \A y \in Thread \ {x, z} : Units'[y] = Units[y]
    PROVE  UnitsConserved'
<1>1. PICK f, g, S : f = Units /\ g = Units' /\ S = Thread
  OBVIOUS
<1>3. SumFunction(g) - SumFunction(f) = (g[x] - f[x]) + (g[z] - f[z])
  <2>1. DOMAIN f = S /\ DOMAIN g = S /\ x \in S /\ z \in S
    BY <1>1, UnitsTyped, UnitsTypedAfter
  <2>2. \A y \in S : f[y] \in Int /\ g[y] \in Int
    BY <1>1, UnitsTyped, UnitsTypedAfter
  <2>3. \A y \in S \ {x, z} : g[y] = f[y]
    BY <1>1
  <2>4. IsFiniteSet(S)
    BY <1>1, Constants
  <2> QED
    BY <2>1, <2>2, <2>3, <2>4, SumTwoChange
<1>4. PICK m \in Nat, k \in Nat, o \in Nat, q \in Nat :
          /\ m = SumFunction(f) /\ k = SumFunction(g)
          /\ o = f[x] /\ g[x] = o + 1 /\ q = f[z] /\ g[z] = q - 1
  BY <1>1, UnitsTyped, UnitsTypedAfter
<1>5. k = m
  BY <1>3, <1>4
<1>6. SumFunction(Units') = SumFunction(Units)
  BY <1>1, <1>4, <1>5
<1>7. created = processed + SumFunction(Units)
  BY DEF UnitsConserved, Units
<1> QED
  BY <1>6, <1>7 DEF UnitsConserved, Units

\* The blocked threads, as PREDICTIVE goes through them.
LEMMA BlockedListed ==
    ASSUME NEW t \in Thread
    PROVE  Ascending({v \in Thread \ {t} : statusJobSearch[v] = Blocked}) \in Seq(Thread)
<1> DEFINE b == {v \in Thread \ {t} : statusJobSearch[v] = Blocked}
<1>1. b \in SUBSET Thread /\ b \in SUBSET Int
  BY Constants
<1>2. IsFiniteSet(b)
  BY <1>1, Constants, FS_Subset
<1> HIDE DEF b
<1>3. PICK a : a = Ascending(b)
  OBVIOUS
<1>4. a \in Seq(b)
  BY <1>1, <1>2, <1>3, AscendingLists
<1>5. a \in Seq(Thread)
  <2>1. /\ Len(a) \in Nat /\ DOMAIN a = 1..Len(a) /\ a = [i \in 1..Len(a) |-> a[i]]
        /\ \A i \in 1..Len(a) : a[i] \in Thread
    BY <1>1, <1>4
  <2> QED
    BY <2>1
<1> QED
  BY <1>3, <1>5 DEF b

\* A step keeps the types.
LEMMA TypesStay ==
    ASSUME AggressiveCounts, Types, Places, Statuses, Counting, Lists, Dealing,
           NEW t \in Thread, Step(t)
    PROVE  Types'
<1>0. /\ threadsRequestPolicy' \in Policies /\ mpi_processing' \in 0..T
      /\ T \in Nat /\ T > 0 /\ MaxUnits \in Nat /\ MaxRequests \in Nat /\ PredictCount \in 1..T
      /\ 0 \in 0..T /\ NoThread \in Thread \cup {NoThread}
  <2>1. threadsRequestPolicy' = threadsRequestPolicy /\ mpi_processing' \in 0..T
    BY PolicyStays, CountingStays
  <2>2. threadsRequestPolicy \in Policies
    BY DEF Types
  <2>3. T \in Nat /\ T > 0 /\ 0 \in 0..T
    BY Constants
  <2> QED
    BY <2>1, <2>2, <2>3, Constants
<1>a. PlaceOf(t)
  BY DEF Places
<1>b. /\ localDepth \in [Thread -> Nat] /\ sharedDepth \in [Thread -> Nat]
      /\ created \in 0..MaxUnits /\ processed \in Nat
      /\ statusJobSearch \in [Thread -> Free..Waiting]
      /\ requestStatusMutex \in Thread \cup {NoThread}
      /\ addRequestThreads \in [Thread -> Seq(Thread)]
      /\ wanted \in [Thread -> 0..T] /\ asked \in [Thread -> 0..MaxRequests]
      /\ received \in [Thread -> 0..T] /\ dealt \in [Thread -> 0..T]
      /\ seen \in [Thread -> 0..T] /\ mpi_processing \in 0..T
      /\ pc \in [Thread -> Labels]
  BY DEF Types
<1>c. /\ Free \in Free..Waiting /\ Blocked \in Free..Waiting /\ Served \in Free..Waiting
      /\ Waiting \in Free..Waiting /\ <<>> \in Seq(Thread)
  BY DEF Free, Blocked, Served, Waiting
<1>d. \A x \in Thread : /\ localDepth[x] \in Nat /\ sharedDepth[x] \in Nat
                        /\ received[x] \in 0..T /\ dealt[x] \in 0..T
  BY <1>b
<1>1. ASSUME Solve(t)
      PROVE  Types'
  <2>1. localDepth[t] \in Nat /\ localDepth[t] > 0 /\ processed + 1 \in Nat
    BY <1>b, <1>1 DEF Solve
  <2>2. localDepth[t] - 1 \in Nat
    BY <2>1
  <2>3. localDepth' \in [Thread -> Nat] /\ processed' \in Nat
    BY <1>b, <1>1, <2>1, <2>2 DEF Solve
  <2> QED
    BY <1>0, <1>b, <1>1, <2>3 DEF Solve, Types, stackVars, requestVars, dealVars
<1>2. ASSUME NEW k \in {1, 2}, Expand(t, k)
      PROVE  Types'
  <2>0. PICK l \in Nat, h \in Nat, c \in Nat :
            l = localDepth[t] /\ h = sharedDepth[t] /\ c = created /\ c + k <= MaxUnits
    BY <1>b, <1>d, <1>2 DEF Expand
  <2>1. localDepth[t] + k \in Nat /\ sharedDepth[t] + (localDepth[t] + k) \in Nat
        /\ created + k \in 0..MaxUnits
    <3>1. l + k \in Nat /\ h + (l + k) \in Nat /\ c + k \in 0..MaxUnits
      BY <1>0, <2>0
    <3> QED
      BY <2>0, <3>1
  <2>2. /\ localDepth' \in [Thread -> Nat] /\ sharedDepth' \in [Thread -> Nat]
        /\ created' \in 0..MaxUnits
    <3>1. /\ \/ localDepth' = [localDepth EXCEPT ![t] = 0]
             \/ localDepth' = [localDepth EXCEPT ![t] = localDepth[t] + k]
          /\ \/ sharedDepth' = [sharedDepth EXCEPT ![t] = @ + (localDepth[t] + k)]
             \/ sharedDepth' = sharedDepth
          /\ created' = created + k
      BY <1>2 DEF Expand
    <3>2. localDepth \in [Thread -> Nat] /\ sharedDepth \in [Thread -> Nat]
      BY <1>b
    <3>3. localDepth' \in [Thread -> Nat]
      BY <2>1, <3>1, <3>2
    <3>4. sharedDepth' \in [Thread -> Nat]
      BY <2>1, <3>1, <3>2
    <3> QED
      BY <2>1, <3>1, <3>3, <3>4
  <2> QED
    BY <1>0, <1>b, <1>2, <2>2 DEF Expand, Types, requestVars, dealVars
<1>3. ASSUME Acquire(t)
      PROVE  Types'
  <2>1. localDepth' \in [Thread -> Nat] /\ sharedDepth' \in [Thread -> Nat]
    <3>1. localDepth[t] \in Nat /\ sharedDepth[t] \in Nat /\ localDepth[t] + 1 \in Nat
          /\ (sharedDepth[t] >= 1 => sharedDepth[t] - 1 \in Nat)
      <4>1. PICK l \in Nat, h \in Nat : l = localDepth[t] /\ h = sharedDepth[t]
        BY <1>d
      <4>2. l + 1 \in Nat /\ (h >= 1 => h - 1 \in Nat)
        OBVIOUS
      <4> QED
        BY <4>1, <4>2
    <3> QED
      BY <1>b, <1>3, <3>1, ZenonT(40) DEF Acquire
  <2>2. pc' \in [Thread -> Labels]
    BY <1>b, <1>3 DEF Acquire, Labels
  <2> QED
    BY <1>0, <1>b, <1>3, <2>1, <2>2 DEF Acquire, Types, requestVars, dealVars
<1>4. ASSUME NEW v \in Thread \ {t}, StealHere(t, v)
      PROVE  Types'
  <2>1. localDepth' \in [Thread -> Nat] /\ sharedDepth' \in [Thread -> Nat]
    <3>1. localDepth[t] + 1 \in Nat /\ sharedDepth[v] - 1 \in Nat
      <4>1. PICK l \in Nat, h \in Nat : l = localDepth[t] /\ h = sharedDepth[v] /\ h >= 1
        BY <1>d, <1>4 DEF StealHere
      <4>2. l + 1 \in Nat /\ h - 1 \in Nat
        BY <4>1
      <4> QED
        BY <4>1, <4>2
    <3> QED
      BY <1>b, <1>4, <3>1 DEF StealHere
  <2> QED
    BY <1>0, <1>b, <1>c, <1>4, <2>1 DEF StealHere, Goto, Types, Labels, stackVars, requestVars, dealVars
<1>5. ASSUME NothingHere(t)
      PROVE  Types'
  BY <1>0, <1>a, <1>b, <1>c, <1>5 DEF NothingHere, Goto, Types, Labels, stackVars, requestVars, dealVars
<1>6. ASSUME BackToWork(t)
      PROVE  Types'
  BY <1>0, <1>a, <1>b, <1>c, <1>6 DEF BackToWork, Goto, Types, Labels, stackVars, requestVars, dealVars
<1>7. ASSUME OutOfWork(t)
      PROVE  Types'
  BY <1>0, <1>a, <1>b, <1>c, <1>7 DEF OutOfWork, Goto, Types, Labels, stackVars, requestVars, dealVars
<1>8. ASSUME AskAggressive(t)
      PROVE  Types'
  BY <1>0, <1>a, <1>b, <1>c, <1>8 DEF AskAggressive, Goto, Types, Labels, stackVars, requestVars, dealVars
<1>9. ASSUME Increment(t)
      PROVE  Types'
  BY <1>0, <1>a, <1>b, <1>c, <1>9 DEF Increment, Goto, Types, Labels, stackVars, requestVars, dealVars
<1>10. ASSUME AskMultiple(t)
      PROVE  Types'
  <2>1. /\ UNCHANGED <<stackVars, requestStatusMutex, requestVars, dealVars, seen>>
        /\ Asks(t) \/ IsFreed(t) \/ MayNot(t)
    BY <1>10, MultipleAsks
  <2>2. /\ pc' \in [Thread -> Labels] /\ statusJobSearch' \in [Thread -> Free..Waiting]
        /\ addRequestThreads' \in [Thread -> Seq(Thread)]
    <3>1. Ascending(Idle(t)) \in Seq(Thread)
      BY IdleListed
    <3>2. CASE Asks(t)
      BY <1>b, <1>c, <3>1, <3>2 DEF Asks, Labels
    <3>3. CASE IsFreed(t)
      BY <1>b, <1>c, <3>3 DEF IsFreed, Labels
    <3>4. CASE MayNot(t)
      BY <1>b, <3>4 DEF MayNot, Labels
    <3> QED
      BY <2>1, <3>2, <3>3, <3>4
  <2> QED
    BY <1>0, <1>b, <1>c, <2>1, <2>2 DEF Types, stackVars, requestVars, dealVars
<1>11. ASSUME AskPredictive(t)
      PROVE  Types'
  <2>1. /\ UNCHANGED <<stackVars, requestStatusMutex, addRequestThreads, requestVars, dealVars,
                       seen>>
        /\ AsksAlone(t) \/ Blocks(t) \/ IsFreed(t) \/ MayNot(t)
    BY <1>11, PredictiveAsks
  <2>2. pc' \in [Thread -> Labels] /\ statusJobSearch' \in [Thread -> Free..Waiting]
    BY <1>b, <1>c, <2>1, ZenonT(40) DEF AsksAlone, Blocks, IsFreed, MayNot, Labels
  <2> QED
    BY <1>0, <1>b, <1>c, <2>1, <2>2 DEF Types, stackVars, requestVars, dealVars
<1>12. ASSUME Post(t)
      PROVE  Types'
  <2>1. Len(addRequestThreads[t]) \in Nat /\ Len(addRequestThreads[t]) < T /\ asked[t] < MaxRequests
    BY <1>a, <1>b, <1>c, <1>12 DEF PlaceOf, Post, Goto
  <2>2. wanted' \in [Thread -> 0..T] /\ asked' \in [Thread -> 0..MaxRequests]
    <3>1. 1 + Len(addRequestThreads[t]) \in 0..T /\ PredictCount \in 0..T
      BY <1>0, <2>1
    <3>2. asked[t] + 1 \in 0..MaxRequests
      <4>1. PICK c \in Nat : c = asked[t] /\ c < MaxRequests
        BY <1>b, <2>1
      <4> QED
        BY <1>0, <4>1
    <3> QED
      BY <1>b, <1>12, <3>1, <3>2 DEF Post
  <2> QED
    BY <1>0, <1>b, <1>c, <1>12, <2>2 DEF Post, Goto, Types, Labels, stackVars, requestVars, dealVars
<1>13. ASSUME NoAnswer(t)
      PROVE  Types'
  BY <1>0, <1>a, <1>b, <1>c, <1>13 DEF NoAnswer, Goto, Types, Labels, stackVars, requestVars, dealVars
<1>14. ASSUME NEW n \in 0..T, Answer(t, n)
      PROVE  Types'
  <2>1. created + n \in 0..MaxUnits /\ (n > 0 => n - 1 \in 0..T)
    <3>1. created + n <= MaxUnits
      BY <1>14 DEF Answer
    <3>2. PICK c \in Nat : c = created
      BY <1>0, <1>b
    <3>3. c + n \in 0..MaxUnits /\ (n > 0 => n - 1 \in 0..T)
      BY <1>0, <3>1, <3>2
    <3> QED
      BY <3>2, <3>3
  <2>2. localDepth[t] + (IF n > 0 THEN 1 ELSE 0) \in Nat
    <3>1. localDepth[t] \in Nat
      BY <1>d
    <3> QED
      BY <3>1
  <2>3. /\ localDepth' \in [Thread -> Nat] /\ received' \in [Thread -> 0..T]
        /\ dealt' \in [Thread -> 0..T] /\ wanted' \in [Thread -> 0..T]
        /\ created' \in 0..MaxUnits
    BY <1>0, <1>b, <1>14, <2>1, <2>2 DEF Answer
  <2>4. pc' \in [Thread -> Labels]
    BY <1>b, <1>14 DEF Answer, Goto, Labels
  <2> QED
    BY <1>0, <1>b, <1>14, <2>3, <2>4 DEF Answer, Types
<1>15. ASSUME NEW n \in 0..T, AnswerPredictive(t, n)
      PROVE  Types'
  <2> DEFINE blockedSet == {v \in Thread \ {t} : statusJobSearch[v] = Blocked}
             blocked == Ascending(blockedSet)
             shares == Shares(n, Len(blocked) + 1)
  <2>1. blocked \in Seq(Thread)
    BY BlockedListed
  <2>2. \A v \in Thread : SharesOf(v, t, blocked, shares) \in Nat
    <3>1. PICK b : b = blocked /\ b \in Seq(Thread)
      BY <2>1
    <3>2. n \in Nat
      OBVIOUS
    <3>3. \A v \in Thread : SharesOf(v, t, b, Shares(n, Len(b) + 1)) \in Nat
      BY <3>1, <3>2, SharesAreDealt
    <3> QED
      BY <3>1, <3>3
  <2>3. localDepth' = [v \in Thread |-> localDepth[v] + SharesOf(v, t, blocked, shares)]
    BY <1>15 DEF AnswerPredictive
  <2> HIDE DEF blocked, shares
  <2>4. localDepth' \in [Thread -> Nat]
    <3>1. ASSUME NEW v \in Thread
          PROVE  localDepth[v] + SharesOf(v, t, blocked, shares) \in Nat
      <4>1. PICK l \in Nat, h \in Nat : l = localDepth[v] /\ h = SharesOf(v, t, blocked, shares)
        BY <1>d, <2>2
      <4> QED
        BY <4>1
    <3> QED
      BY <2>3, <3>1
  <2>5. /\ created' \in 0..MaxUnits /\ pc' \in [Thread -> Labels] /\ wanted' \in [Thread -> 0..T]
        /\ statusJobSearch' \in [Thread -> Free..Waiting]
        /\ UNCHANGED <<sharedDepth, processed, requestStatusMutex, addRequestThreads, asked,
                       dealVars, seen>>
    <3>1. created + n \in 0..MaxUnits
      <4>1. PICK c \in Nat : c = created /\ c + n <= MaxUnits
        BY <1>0, <1>b, <1>15 DEF AnswerPredictive
      <4> QED
        BY <1>0, <4>1
    <3>2. created' = created + n /\ wanted' = [wanted EXCEPT ![t] = 0]
          /\ UNCHANGED <<sharedDepth, processed, requestStatusMutex, addRequestThreads, asked,
                         dealVars, seen>>
      BY <1>15 DEF AnswerPredictive
    <3>3. pc' \in [Thread -> Labels]
      BY <1>b, <1>15 DEF AnswerPredictive, Goto, Labels
    <3>4. statusJobSearch' \in [Thread -> Free..Waiting]
      BY <1>b, <1>c, <1>15 DEF AnswerPredictive
    <3> QED
      BY <1>0, <1>b, <3>1, <3>2, <3>3, <3>4
  <2> QED
    BY <1>0, <1>b, <1>c, <2>4, <2>5 DEF Types, dealVars
<1>16. ASSUME Deal(t)
      PROVE  Types'
  <2>1. /\ received[t] > 0 /\ received' = [received EXCEPT ![t] = @ - 1]
        /\ dealt' = [dealt EXCEPT ![t] = @ + 1] /\ dealt[t] < T
        /\ dealt[t] + 1 \in 1..Len(addRequestThreads[t])
    <3>1. statusJobSearch[t] = Waiting
      BY <1>16, ListsAreMultiple DEF Deal
    <3>2. dealt[t] + received[t] <= Len(addRequestThreads[t]) /\ Len(addRequestThreads[t]) \in Nat
      BY <1>b, <1>c, <1>16, <3>1 DEF Dealing, Deal
    <3>3. Len(addRequestThreads[t]) < T
      BY <1>a DEF PlaceOf
    <3>4. /\ received[t] > 0 /\ received' = [received EXCEPT ![t] = @ - 1]
          /\ dealt' = [dealt EXCEPT ![t] = @ + 1]
      BY <1>16 DEF Deal
    <3>5. PICK d \in Nat, r \in Nat, l \in Nat :
              d = dealt[t] /\ r = received[t] /\ l = Len(addRequestThreads[t])
      BY <1>b, <3>2
    <3>6. d < T /\ d + 1 \in 1..l
      BY <1>0, <3>2, <3>3, <3>4, <3>5, SMTT(30)
    <3> QED
      BY <3>4, <3>5, <3>6
  <2>2. addRequestThreads[t][dealt[t] + 1] \in Thread
    <3>1. PICK q \in Seq(Thread), i \in Nat :
              q = addRequestThreads[t] /\ i = dealt[t] + 1 /\ i \in 1..Len(q)
      BY <1>b, <2>1
    <3> QED
      BY <3>1
  <2>3. \E desti \in Thread : localDepth' = [localDepth EXCEPT ![desti] = @ + 1]
    BY <1>16, <2>2 DEF Deal
  <2>4. localDepth' \in [Thread -> Nat] /\ dealt' \in [Thread -> 0..T]
        /\ received' \in [Thread -> 0..T]
    <3>1. dealt[t] + 1 \in 0..T /\ received[t] - 1 \in 0..T
      <4>1. PICK d \in Nat, r \in Nat :
                d = dealt[t] /\ r = received[t] /\ d < T /\ r > 0 /\ r <= T
        BY <1>0, <1>d, <2>1
      <4>2. d + 1 \in 0..T /\ r - 1 \in 0..T
        BY <1>0, <4>1
      <4> QED
        BY <4>1, <4>2
    <3>2. dealt' \in [Thread -> 0..T] /\ received' \in [Thread -> 0..T]
      BY <1>b, <2>1, <3>1
    <3>3. PICK desti \in Thread : localDepth' = [localDepth EXCEPT ![desti] = @ + 1]
      BY <2>3
    <3>4. localDepth[desti] + 1 \in Nat
      <4>1. PICK l \in Nat : l = localDepth[desti]
        BY <1>d
      <4> QED
        BY <4>1
    <3> QED
      BY <1>b, <3>2, <3>3, <3>4
  <2> QED
    BY <1>0, <1>b, <1>c, <1>16, <2>4 DEF Deal, Types, stackVars, requestVars
<1>17. ASSUME SettleMultiple(t)
      PROVE  Types'
  <2>1. /\ statusJobSearch' \in [Thread -> Free..Waiting]
        /\ addRequestThreads' \in [Thread -> Seq(Thread)] /\ pc' \in [Thread -> Labels]
    BY <1>b, <1>c, <1>17 DEF SettleMultiple, Labels
  <2> QED
    BY <1>0, <1>b, <1>c, <1>17, <2>1 DEF SettleMultiple, Types, stackVars, requestVars, dealVars
<1>18. ASSUME SettleAggressive(t)
      PROVE  Types'
  BY <1>0, <1>a, <1>b, <1>c, <1>18 DEF SettleAggressive, Goto, Types, Labels, stackVars, requestVars, dealVars
<1>19. ASSUME Decrement(t)
      PROVE  Types'
  BY <1>0, <1>a, <1>b, <1>c, <1>19 DEF Decrement, Goto, Types, Labels, stackVars, requestVars, dealVars
<1> QED
  BY <1>1, <1>2, <1>3, <1>4, <1>5, <1>6, <1>7, <1>8, <1>9, <1>10, <1>11, <1>12, <1>13, <1>14, <1>15, <1>16, <1>17, <1>18, <1>19, Actions

\* Units are neither lost nor made twice.
LEMMA UnitsStay ==
    ASSUME Types, Types', Places, Statuses, Lists, Dealing, UnitsConserved,
           NEW t \in Thread, Step(t)
    PROVE  UnitsConserved'
<1>a. PlaceOf(t)
  BY DEF Places
<1>b. /\ localDepth \in [Thread -> Nat] /\ sharedDepth \in [Thread -> Nat]
      /\ received \in [Thread -> Nat] /\ created \in Nat /\ processed \in Nat
  <2>1. created \in 0..MaxUnits /\ MaxUnits \in Nat
    BY Constants DEF Types
  <2>2. created \in Nat
    BY <2>1
  <2> QED
    BY <2>2, UnitsTyped
<1>c. \A x \in Thread : /\ localDepth[x] \in Nat /\ sharedDepth[x] \in Nat
                        /\ received[x] \in Nat
  BY <1>b
<1>d. \A x \in Thread : /\ Units[x] = localDepth[x] + sharedDepth[x] + received[x]
                        /\ Units'[x] = localDepth'[x] + sharedDepth'[x] + received'[x]
  BY DEF Units, ss_localFullDepth
<1>e. ASSUME UNCHANGED <<stackVars, received>>
      PROVE  UnitsConserved'
  <2>1. /\ created' = created /\ processed' = processed /\ received' = received
        /\ localDepth' = localDepth /\ sharedDepth' = sharedDepth
    BY <1>e DEF stackVars
  <2>2. \A x \in Thread : Units'[x] = Units[x]
    BY <2>1 DEF Units, ss_localFullDepth
  <2> QED
    BY <2>1, <2>2, NothingMoves
<1>1. ASSUME Solve(t)
      PROVE  UnitsConserved'
  <2>1. /\ localDepth[t] > 0 /\ localDepth' = [localDepth EXCEPT ![t] = @ - 1]
        /\ sharedDepth' = sharedDepth /\ received' = received
        /\ created' = created /\ processed' = processed + 1
    BY <1>1 DEF Solve, dealVars
  <2>2. localDepth'[t] = localDepth[t] - 1 /\ \A y \in Thread \ {t} : localDepth'[y] = localDepth[y]
    BY <1>b, <2>1
  <2>3. Units'[t] = Units[t] + (-1)
    BY <1>c, <1>d, <2>1, <2>2
  <2>4. \A y \in Thread \ {t} : Units'[y] = Units[y]
    BY <1>d, <2>1, <2>2
  <2>5. created' - processed' = (created - processed) + (-1)
    BY <1>b, <2>1
  <2>6. -1 \in Int
    OBVIOUS
  <2> QED
    BY <2>3, <2>4, <2>5, <2>6, OneHasMore
<1>2. ASSUME NEW k \in {1, 2}, Expand(t, k)
      PROVE  UnitsConserved'
  <2>1. /\ \/ /\ localDepth' = [localDepth EXCEPT ![t] = 0]
              /\ sharedDepth' = [sharedDepth EXCEPT ![t] = @ + (localDepth[t] + k)]
           \/ /\ localDepth' = [localDepth EXCEPT ![t] = localDepth[t] + k]
              /\ sharedDepth' = sharedDepth
        /\ received' = received /\ created' = created + k /\ processed' = processed
    BY <1>2 DEF Expand, dealVars
  <2>2. /\ \/ localDepth'[t] = 0 /\ sharedDepth'[t] = sharedDepth[t] + (localDepth[t] + k)
           \/ localDepth'[t] = localDepth[t] + k /\ sharedDepth'[t] = sharedDepth[t]
        /\ \A y \in Thread \ {t} :
               localDepth'[y] = localDepth[y] /\ sharedDepth'[y] = sharedDepth[y]
    BY <1>b, <2>1
  <2>3. Units'[t] = Units[t] + k
    BY <1>c, <1>d, <2>1, <2>2
  <2>4. \A y \in Thread \ {t} : Units'[y] = Units[y]
    BY <1>d, <2>1, <2>2
  <2>5. created' - processed' = (created - processed) + k
    BY <1>b, <2>1
  <2> QED
    BY <2>3, <2>4, <2>5, OneHasMore
<1>3. ASSUME Acquire(t)
      PROVE  UnitsConserved'
  <2>1. /\ \/ /\ localDepth' = [localDepth EXCEPT ![t] = @ + 1]
              /\ sharedDepth' = [sharedDepth EXCEPT ![t] = @ - 1]
           \/ localDepth' = localDepth /\ sharedDepth' = sharedDepth
        /\ received' = received /\ created' = created /\ processed' = processed
    BY <1>3 DEF Acquire, dealVars
  <2>2. /\ \/ localDepth'[t] = localDepth[t] + 1 /\ sharedDepth'[t] = sharedDepth[t] - 1
           \/ localDepth'[t] = localDepth[t] /\ sharedDepth'[t] = sharedDepth[t]
        /\ \A y \in Thread \ {t} :
               localDepth'[y] = localDepth[y] /\ sharedDepth'[y] = sharedDepth[y]
    BY <1>b, <2>1
  <2>3. Units'[t] = Units[t]
    <3>1. PICK l \in Nat, h \in Nat, r \in Nat :
              l = localDepth[t] /\ h = sharedDepth[t] /\ r = received[t]
      BY <1>c
    <3>2. received'[t] = r
      BY <2>1, <3>1
    <3>3. \/ localDepth'[t] = l + 1 /\ sharedDepth'[t] = h - 1
          \/ localDepth'[t] = l /\ sharedDepth'[t] = h
      BY <2>2, <3>1
    <3>4. localDepth'[t] + sharedDepth'[t] + received'[t] = l + h + r
      BY <3>2, <3>3
    <3> QED
      BY <1>d, <3>1, <3>4
  <2>4. \A y \in Thread \ {t} : Units'[y] = Units[y]
    BY <1>d, <2>1, <2>2
  <2>5. \A y \in Thread : Units'[y] = Units[y]
    BY <2>3, <2>4
  <2> QED
    BY <2>1, <2>5, NothingMoves
<1>4. ASSUME NEW v \in Thread \ {t}, StealHere(t, v)
      PROVE  UnitsConserved'
  <2>1. /\ localDepth' = [localDepth EXCEPT ![t] = @ + 1]
        /\ sharedDepth' = [sharedDepth EXCEPT ![v] = @ - 1]
        /\ received' = received /\ created' = created /\ processed' = processed
    BY <1>4 DEF StealHere, dealVars
  <2>2. /\ localDepth'[t] = localDepth[t] + 1 /\ sharedDepth'[t] = sharedDepth[t]
        /\ localDepth'[v] = localDepth[v] /\ sharedDepth'[v] = sharedDepth[v] - 1
        /\ \A y \in Thread \ {t, v} :
               localDepth'[y] = localDepth[y] /\ sharedDepth'[y] = sharedDepth[y]
    BY <1>b, <2>1
  <2>3. Units'[t] = Units[t] + 1 /\ Units'[v] = Units[v] - 1
    <3>1. PICK l \in Nat, h \in Nat, r \in Nat, m \in Nat, k \in Nat, o \in Nat :
              /\ l = localDepth[t] /\ h = sharedDepth[t] /\ r = received[t]
              /\ m = localDepth[v] /\ k = sharedDepth[v] /\ o = received[v]
      BY <1>c
    <3>2. /\ localDepth'[t] = l + 1 /\ sharedDepth'[t] = h /\ received'[t] = r
          /\ localDepth'[v] = m /\ sharedDepth'[v] = k - 1 /\ received'[v] = o
      BY <2>1, <2>2, <3>1
    <3>3. /\ localDepth'[t] + sharedDepth'[t] + received'[t] = (l + h + r) + 1
          /\ localDepth'[v] + sharedDepth'[v] + received'[v] = (m + k + o) - 1
      BY <3>2
    <3> QED
      BY <1>d, <3>1, <3>3
  <2>4. \A y \in Thread \ {t, v} : Units'[y] = Units[y]
    BY <1>d, <2>1, <2>2
  <2>5. t # v /\ v \in Thread
    OBVIOUS
  <2> QED
    BY <2>1, <2>3, <2>4, <2>5, OneMoves
<1>5. ASSUME NothingHere(t)
      PROVE  UnitsConserved'
  BY <1>e, <1>5 DEF NothingHere, dealVars
<1>6. ASSUME BackToWork(t)
      PROVE  UnitsConserved'
  BY <1>e, <1>6 DEF BackToWork, dealVars
<1>7. ASSUME OutOfWork(t)
      PROVE  UnitsConserved'
  BY <1>e, <1>7 DEF OutOfWork, dealVars
<1>8. ASSUME AskAggressive(t)
      PROVE  UnitsConserved'
  BY <1>e, <1>8 DEF AskAggressive, dealVars
<1>9. ASSUME Increment(t)
      PROVE  UnitsConserved'
  BY <1>e, <1>9 DEF Increment, dealVars
<1>10. ASSUME AskMultiple(t)
      PROVE  UnitsConserved'
  BY <1>e, <1>10, MultipleAsks DEF dealVars
<1>11. ASSUME AskPredictive(t)
      PROVE  UnitsConserved'
  BY <1>e, <1>11, PredictiveAsks DEF dealVars
<1>12. ASSUME Post(t)
      PROVE  UnitsConserved'
  BY <1>e, <1>12 DEF Post, dealVars
<1>13. ASSUME NoAnswer(t)
      PROVE  UnitsConserved'
  BY <1>e, <1>13 DEF NoAnswer, dealVars
<1>14. ASSUME NEW n \in 0..T, Answer(t, n)
      PROVE  UnitsConserved'
  <2>1. /\ pc[t] = "test" /\ created' = created + n /\ processed' = processed
        /\ localDepth' = [localDepth EXCEPT ![t] = @ + (IF n > 0 THEN 1 ELSE 0)]
        /\ received' = [received EXCEPT ![t] = IF n > 0 THEN n - 1 ELSE 0]
        /\ sharedDepth' = sharedDepth
    BY <1>14 DEF Answer, Goto
  <2>2. /\ localDepth'[t] = localDepth[t] + (IF n > 0 THEN 1 ELSE 0)
        /\ received'[t] = IF n > 0 THEN n - 1 ELSE 0
        /\ \A y \in Thread \ {t} : localDepth'[y] = localDepth[y] /\ received'[y] = received[y]
    BY <1>b, <2>1
  <2>3. received[t] = 0
    BY <1>a, <1>c, <2>1 DEF PlaceOf
  <2>4. n \in Nat
    BY Constants
  <2>5. Units'[t] = Units[t] + n
    BY <1>c, <1>d, <2>1, <2>2, <2>3, <2>4
  <2>6. \A y \in Thread \ {t} : Units'[y] = Units[y]
    BY <1>d, <2>1, <2>2
  <2>7. created' - processed' = (created - processed) + n
    BY <1>b, <2>1, <2>4
  <2> QED
    BY <2>4, <2>5, <2>6, <2>7, OneHasMore
<1>15. ASSUME NEW n \in 0..T, AnswerPredictive(t, n)
      PROVE  UnitsConserved'
  <2>0. n \in Nat
    BY Constants
  <2> DEFINE blockedSet == {v \in Thread \ {t} : statusJobSearch[v] = Blocked}
  <2>1. PICK b : b = Ascending(blockedSet) /\ b \in Seq(Thread)
    BY BlockedListed
  <2>2. PICK s : s = [v \in Thread |-> SharesOf(v, t, b, Shares(n, Len(b) + 1))]
    OBVIOUS
  <2>3. DOMAIN s = Thread /\ (\A v \in Thread : s[v] \in Nat) /\ SumFunction(s) = n
    BY <2>0, <2>1, <2>2, SharesAreDealt
  <2>4. /\ created' = created + n /\ processed' = processed
        /\ localDepth' = [v \in Thread |->
               localDepth[v] + SharesOf(v, t, Ascending(blockedSet),
                                        Shares(n, Len(Ascending(blockedSet)) + 1))]
        /\ sharedDepth' = sharedDepth /\ received' = received
    BY <1>15 DEF AnswerPredictive, dealVars
  <2>5. \A v \in Thread : localDepth'[v] = localDepth[v] + s[v]
    BY <2>1, <2>2, <2>4
  <2>6. ASSUME NEW v \in Thread
        PROVE  Units'[v] = Units[v] + s[v]
    <3>1. PICK l \in Nat, h \in Nat, r \in Nat, k \in Nat :
              l = localDepth[v] /\ h = sharedDepth[v] /\ r = received[v] /\ k = s[v]
      BY <1>c, <2>3
    <3>2. localDepth'[v] = l + k /\ sharedDepth'[v] = h /\ received'[v] = r
      BY <2>4, <2>5, <3>1
    <3>3. localDepth'[v] + sharedDepth'[v] + received'[v] = (l + h + r) + k
      BY <3>2
    <3> QED
      BY <1>d, <3>1, <3>3
  <2>7. PICK f, g, S : f = Units /\ g = Units' /\ S = Thread
    OBVIOUS
  <2>8. SumFunction(g) = SumFunction(f) + SumFunction(s)
    <3>1. DOMAIN f = S /\ DOMAIN s = S /\ DOMAIN g = S
      BY <2>3, <2>7, UnitsTyped, UnitsTypedAfter
    <3>2. \A x \in S : f[x] \in Int /\ s[x] \in Int /\ g[x] = f[x] + s[x]
      BY <2>3, <2>6, <2>7, UnitsTyped
    <3>3. IsFiniteSet(S)
      BY <2>7, Constants
    <3> QED
      BY <3>1, <3>2, <3>3, SumOfTwo
  <2>9. PICK m \in Nat, o \in Nat : m = SumFunction(f) /\ o = SumFunction(g)
    BY <2>7, UnitsTyped, UnitsTypedAfter
  <2>10. created = processed + m
    BY <2>7, <2>9 DEF UnitsConserved, Units
  <2>11. created' = processed' + o
    <3>1. o = m + n
      BY <2>3, <2>8, <2>9
    <3> QED
      BY <1>b, <2>0, <2>4, <2>10, <3>1
  <2> QED
    BY <2>7, <2>9, <2>11 DEF UnitsConserved, Units
<1>16. ASSUME Deal(t)
      PROVE  UnitsConserved'
  <2>1. PICK v \in Thread : /\ v = addRequestThreads[t][dealt[t] + 1] /\ v # t
                            /\ ss_localFullDepth(v) = 0
    <3>1. statusJobSearch[t] = Waiting
      BY <1>16, ListsAreMultiple DEF Deal
    <3>2. dealt[t] + received[t] <= Len(addRequestThreads[t]) /\ addRequestThreads[t] \in Seq(Thread)
          /\ received[t] > 0 /\ dealt[t] \in Nat /\ received[t] \in Nat
      <4>1. dealt[t] \in Nat
        BY Constants DEF Types
      <4> QED
        BY <1>c, <1>16, <3>1, <4>1, ListsAreMultiple DEF Dealing, Deal
    <3>3. PICK i \in Nat, q \in Seq(Thread) :
              i = dealt[t] + 1 /\ q = addRequestThreads[t] /\ i \in 1..Len(q) /\ i > dealt[t]
      BY <3>2
    <3>4. q[i] \in Thread /\ statusJobSearch[q[i]] = Blocked /\ ss_localFullDepth(q[i]) = 0
      <4>1. q[i] \in Thread
        BY <3>3
      <4>2. statusJobSearch[q[i]] = Blocked
        BY <3>1, <3>3 DEF Lists
      <4>3. ss_localFullDepth(q[i]) = 0
        BY <3>1, <3>3 DEF Dealing
      <4> QED
        BY <4>1, <4>2, <4>3
    <3>5. q[i] # t
      BY <3>1, <3>4 DEF Blocked, Waiting
    <3> QED
      BY <3>3, <3>4, <3>5
  <2>2. /\ localDepth' = [localDepth EXCEPT ![v] = @ + 1]
        /\ received' = [received EXCEPT ![t] = @ - 1]
        /\ sharedDepth' = sharedDepth /\ created' = created /\ processed' = processed
    BY <1>16, <2>1 DEF Deal
  <2>3. /\ localDepth'[v] = localDepth[v] + 1 /\ received'[v] = received[v]
        /\ localDepth'[t] = localDepth[t] /\ received'[t] = received[t] - 1
        /\ \A y \in Thread \ {v, t} : localDepth'[y] = localDepth[y] /\ received'[y] = received[y]
    BY <1>b, <2>1, <2>2
  <2>4. Units'[v] = Units[v] + 1 /\ Units'[t] = Units[t] - 1
    BY <1>c, <1>d, <2>2, <2>3
  <2>5. \A y \in Thread \ {v, t} : Units'[y] = Units[y]
    BY <1>d, <2>2, <2>3
  <2> QED
    BY <2>1, <2>2, <2>4, <2>5, OneMoves
<1>17. ASSUME SettleMultiple(t)
      PROVE  UnitsConserved'
  BY <1>e, <1>17 DEF SettleMultiple, dealVars
<1>18. ASSUME SettleAggressive(t)
      PROVE  UnitsConserved'
  BY <1>e, <1>18 DEF SettleAggressive, dealVars
<1>19. ASSUME Decrement(t)
      PROVE  UnitsConserved'
  BY <1>e, <1>19 DEF Decrement, dealVars
<1> QED
  BY <1>1, <1>2, <1>3, <1>4, <1>5, <1>6, <1>7, <1>8, <1>9, <1>10, <1>11, <1>12, <1>13, <1>14, <1>15, <1>16, <1>17, <1>18, <1>19, Actions

-----------------------------------------------------------------------------
(* The inductive invariant.                                                *)

\* At the beginning nobody has asked for anything, and thread 0 has all units.
LEMMA PolicyStarts ==
    ASSUME Init
    PROVE  PolicyInv
<1>1. Types
  BY Constants DEF Init, Types, Labels, Free, Waiting
<1>2. Places
  BY Constants DEF Init, Places, PlaceOf
<1>3. Statuses
  BY DEF Init, Statuses, StatusOf, Requesting, Free, Waiting
<1>4. Counting
  <2>1. Requests = {}
    BY DEF Init, Requests, Requesting
  <2>2. Cardinality({}) = 0
    BY FS_EmptySet
  <2>3. Limit \in 1..T /\ T \in Nat
    BY <1>1, Constants DEF Types
  <2> QED
    BY <2>1, <2>2, <2>3 DEF Init, Counting
<1>5. Lists /\ Dealing /\ BlockedHasAsker
  BY DEF Init, Lists, Dealing, BlockedHasAsker, Free, Blocked, Waiting
<1>6. UnitsConserved
  <2>1. PICK f, g, S : /\ f = [x \in Thread |-> 0] /\ g = Units /\ S = Thread
    OBVIOUS
  <2>2. /\ localDepth = [x \in Thread |-> IF x = 0 THEN Given ELSE 0]
        /\ sharedDepth = [x \in Thread |-> 0] /\ received = [x \in Thread |-> 0]
        /\ created = Given /\ processed = 0 /\ Given \in Nat
    BY Constants DEF Init
  <2>3. \A x \in Thread : Units[x] = IF x = 0 THEN Given ELSE 0
    BY <2>2 DEF Units, ss_localFullDepth
  <2>4. 0 \in Thread
    BY Constants DEF Thread
  <2>5. SumFunction(g) - SumFunction(f) = g[0] - f[0]
    <3>1. DOMAIN f = S /\ DOMAIN g = S /\ 0 \in S
      BY <2>1, <2>4 DEF Units
    <3>2. \A x \in S : f[x] \in Int /\ g[x] \in Int
      BY <2>1, <2>2, <2>3
    <3>3. \A x \in S \ {0} : g[x] = f[x]
      BY <2>1, <2>3
    <3>4. IsFiniteSet(S)
      BY <2>1, Constants
    <3> QED
      BY <3>1, <3>2, <3>3, <3>4, SumOneChanges
  <2>6. SumFunction(f) = 0 /\ SumFunction(g) \in Nat
    <3>1. f \in [S -> Nat] /\ g \in [S -> Nat] /\ IsFiniteSet(S) /\ \A x \in S : f[x] = 0
      <4>1. g \in [S -> Nat]
        BY <2>1, <2>2 DEF Units, ss_localFullDepth
      <4> QED
        BY <2>1, <4>1, Constants
    <3> QED
      BY <3>1, SumNat
  <2>7. g[0] = Given /\ f[0] = 0
    BY <2>1, <2>3, <2>4
  <2>8. SumFunction(g) = Given
    BY <2>2, <2>5, <2>6, <2>7
  <2> QED
    BY <2>1, <2>2, <2>8 DEF UnitsConserved, Units
<1> QED
  BY <1>1, <1>2, <1>3, <1>4, <1>5, <1>6 DEF PolicyInv

\* Every step keeps the invariant, and so does a step of nobody.
LEMMA PolicyStepsStay ==
    ASSUME AggressiveCounts, PolicyInv, [Next]_vars
    PROVE  PolicyInv'
<1>1. ASSUME NEW t \in Thread, Step(t)
      PROVE  PolicyInv'
  <2>1. Types /\ Places /\ Statuses /\ Counting /\ Lists /\ Dealing
        /\ BlockedHasAsker /\ UnitsConserved
    BY DEF PolicyInv
  <2>2. Types'
    BY <1>1, <2>1, TypesStay
  <2>3. Places'
    BY <1>1, <2>1, PlacesStay
  <2>4. Statuses'
    BY <1>1, <2>1, StatusesStay
  <2>5. Counting'
    BY <1>1, <2>1, CountingStays
  <2>6. Lists'
    BY <1>1, <2>1, <2>2, ListsStay
  <2>7. Dealing'
    BY <1>1, <2>1, <2>2, DealingStays
  <2>8. BlockedHasAsker'
    BY <1>1, <2>1, AskerStays
  <2>9. UnitsConserved'
    BY <1>1, <2>1, <2>2, UnitsStay
  <2> QED
    BY <2>2, <2>3, <2>4, <2>5, <2>6, <2>7, <2>8, <2>9 DEF PolicyInv
<1>2. ASSUME UNCHANGED vars
      PROVE  PolicyInv'
  <2>1. /\ threadsRequestPolicy' = threadsRequestPolicy /\ localDepth' = localDepth
        /\ sharedDepth' = sharedDepth /\ created' = created /\ processed' = processed
        /\ statusJobSearch' = statusJobSearch /\ mpi_processing' = mpi_processing
        /\ requestStatusMutex' = requestStatusMutex /\ addRequestThreads' = addRequestThreads
        /\ wanted' = wanted /\ asked' = asked /\ received' = received /\ dealt' = dealt
        /\ seen' = seen /\ pc' = pc
    BY <1>2 DEF vars, stackVars, requestVars, dealVars
  <2>2. Types /\ Places /\ Statuses /\ Counting /\ Lists /\ Dealing
        /\ BlockedHasAsker /\ UnitsConserved
    BY DEF PolicyInv
  <2>3. Types'
    BY <2>1, <2>2 DEF Types
  <2>4. Places' /\ Statuses'
    BY <2>1, <2>2 DEF Places, PlaceOf, Statuses, StatusOf, Requesting, Limit, Unlimited
  <2>5. Counting'
    <3>1. Requests' = Requests /\ Limit' = Limit /\ (Unlimited' <=> Unlimited)
      BY <2>1 DEF Requests, Requesting, Limit, Unlimited
    <3> QED
      BY <2>1, <2>2, <3>1 DEF Counting
  <2>6. Lists' /\ Dealing'
    BY <2>1, <2>2 DEF Lists, Dealing, ss_localFullDepth
  <2>7. BlockedHasAsker'
    BY <2>1, <2>2 DEF BlockedHasAsker
  <2>8. UnitsConserved'
    <3>1. \A x \in Thread : Units'[x] = Units[x]
      BY <2>1 DEF Units, ss_localFullDepth
    <3> QED
      BY <2>1, <2>2, <3>1, NothingMoves
  <2> QED
    BY <2>3, <2>4, <2>5, <2>6, <2>7, <2>8 DEF PolicyInv
<1> QED
  BY <1>1, <1>2 DEF Next

\* The invariant holds in every state of every run.
THEOREM PolicyInductive ==
    ASSUME AggressiveCounts
    PROVE  Spec => []PolicyInv
<1>1. Init => PolicyInv
  BY PolicyStarts
<1>2. PolicyInv /\ [Next]_vars => PolicyInv'
  BY PolicyStepsStay
<1> QED
  BY <1>1, <1>2, PTL DEF Spec

\* Every variable keeps its type; mpi_processing never leaves 0..T, although
\* AGGRESSIVE decrements it without the mutex.
THEOREM PolicyTypes ==
    ASSUME AggressiveCounts
    PROVE  Spec => []TypeOK
<1>1. PolicyInv => TypeOK
  <2> SUFFICES ASSUME PolicyInv
               PROVE  TypeOK
    OBVIOUS
  <2>1. Types /\ UnitsConserved
    BY DEF PolicyInv
  <2>2. PICK m \in Nat : created = processed + m
    BY <2>1, UnitsTyped DEF UnitsConserved, Units
  <2>3. processed \in 0..MaxUnits
    <3>1. created \in 0..MaxUnits /\ processed \in Nat /\ MaxUnits \in Nat
      BY <2>1, Constants DEF Types
    <3> QED
      BY <2>2, <3>1
  <2> QED
    BY <2>1, <2>3 DEF Types, TypeOK
<1> QED
  BY <1>1, PolicyInductive, PTL

\* No more requests of a process are unanswered than its limit allows
\* (mpiWorkRequestLimit), whichever threads make them.
THEOREM LimitIsKept ==
    ASSUME AggressiveCounts
    PROVE  Spec => []LimitKept
<1>1. PolicyInv => LimitKept
  <2> SUFFICES ASSUME PolicyInv
               PROVE  LimitKept
    OBVIOUS
  <2>1. Types /\ Counting
    BY DEF PolicyInv
  <2>2. {t \in Thread : wanted[t] > 0} \in SUBSET Requests
    BY DEF Requests, Requesting
  <2>3. PICK some \in Thread : TRUE
    BY Constants DEF Thread
  <2>4. IsFiniteSet(Requests) /\ Cardinality(Requests) \in 0..T
    BY <2>3, RequestsCounted
  <2>5. PICK w : w = {t \in Thread : wanted[t] > 0}
    OBVIOUS
  <2>6. Cardinality(w) <= Cardinality(Requests) /\ Cardinality(w) \in Nat
    BY <2>2, <2>4, <2>5, FS_Subset, FS_CardinalityType
  <2>7. Cardinality(Requests) <= Limit
    <3>1. CASE Unlimited
      BY <2>4, <3>1, Constants DEF Unlimited
    <3>2. CASE ~Unlimited
      BY <2>1, <3>2 DEF Counting
    <3> QED
      BY <3>1, <3>2
  <2>8. Limit \in Int /\ Cardinality(Requests) \in Int
    BY <2>1, <2>4, Constants DEF Types
  <2>9. Cardinality(w) <= Limit
    BY <2>6, <2>7, <2>8
  <2> QED
    BY <2>5, <2>9 DEF LimitKept
<1> QED
  BY <1>1, PolicyInductive, PTL

\* MULTIPLE deals units out to blocked threads only, whose stacks are empty, and
\* has a taker for every unit: it may write those stacks without their locks.
THEOREM DealtToBlockedOnly ==
    ASSUME AggressiveCounts
    PROVE  Spec => []DealtToBlocked
<1>1. PolicyInv => DealtToBlocked
  <2> SUFFICES ASSUME PolicyInv, NEW t \in Thread, pc[t] = "deal", received[t] > 0
               PROVE  /\ dealt[t] < Len(addRequestThreads[t])
                      /\ statusJobSearch[addRequestThreads[t][dealt[t] + 1]] = Blocked
                      /\ ss_localFullDepth(addRequestThreads[t][dealt[t] + 1]) = 0
    BY DEF DealtToBlocked
  <2>1. Types /\ Places /\ Statuses /\ Lists /\ Dealing
    BY DEF PolicyInv
  <2>2. statusJobSearch[t] = Waiting /\ addRequestThreads[t] \in Seq(Thread)
    BY <2>1, ListsAreMultiple
  <2>3. PICK d \in Nat, r \in Nat, l \in Nat :
            d = dealt[t] /\ r = received[t] /\ l = Len(addRequestThreads[t])
    <3>1. dealt[t] \in Nat /\ received[t] \in Nat
      BY <2>1, Constants DEF Types
    <3> QED
      BY <2>2, <3>1
  <2>4. d + r <= l
    BY <2>1, <2>2, <2>3 DEF Dealing
  <2>5. d < l /\ d + 1 \in 1..l /\ d + 1 > d
    BY <2>3, <2>4
  <2>6. statusJobSearch[addRequestThreads[t][d + 1]] = Blocked
    BY <2>1, <2>2, <2>3, <2>5 DEF Lists
  <2>7. ss_localFullDepth(addRequestThreads[t][d + 1]) = 0
    BY <2>1, <2>2, <2>3, <2>5 DEF Dealing
  <2> QED
    BY <2>3, <2>5, <2>6, <2>7
<1> QED
  BY <1>1, PolicyInductive, PTL

\* Whoever is blocked has been asked for by a thread that waits for an answer,
\* or, under PREDICTIVE, there is a thread that waits for one.
THEOREM BlockedHaveAskers ==
    ASSUME AggressiveCounts
    PROVE  Spec => []BlockedHasAsker
<1>1. PolicyInv => BlockedHasAsker
  BY DEF PolicyInv
<1> QED
  BY <1>1, PolicyInductive, PTL

\* Dealing an answer out neither loses a unit of work nor duplicates one.
THEOREM UnitsAreConserved ==
    ASSUME AggressiveCounts
    PROVE  Spec => []UnitsConserved
<1>1. PolicyInv => UnitsConserved
  BY DEF PolicyInv
<1> QED
  BY <1>1, PolicyInductive, PTL
=============================================================================
