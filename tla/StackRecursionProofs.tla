------------------------ MODULE StackRecursionProofs ------------------------
(***************************************************************************)
(* Theorems about StackRecursion, for every number of threads, chunk size, *)
(* initial stack size, tree, set of throwing problems and test limit.      *)
(***************************************************************************)
EXTENDS StackRecursion, FiniteSetTheorems, TLAPS

-----------------------------------------------------------------------------
(* The inductive invariant *)

\* A thief that reserves or copies holds its victim's lock, and nobody holds
\* a lock for anything else.
LockOwned ==
    /\ \A t \in Thread : pc[t] \in {"reserve", "copy"} =>
         stackLock[victimId[t]] = t
    /\ \A v \in Thread : stackLock[v] \in Thread =>
         /\ pc[stackLock[v]] \in {"reserve", "copy"}
         /\ victimId[stackLock[v]] = v

VictimIsOther ==
    \A t \in Thread : pc[t] \in {"steal", "reserve", "copy"} =>
        victimId[t] \in Thread \ {t}

\* What a thief has made sure of stays true until it has copied its chunk.
ChunkIsThere ==
    \A t \in Thread :
        /\ pc[t] \in {"reserve", "copy"} => top[t] + Chunk < stackSize[t]
        /\ pc[t] = "reserve" =>
             local[victimId[t]] - sharedStart[victimId[t]] >= Chunk
        /\ pc[t] = "copy" => sharedStart[victimId[t]] >= Chunk

\* Once its ss_acquire has failed, a thread has nothing, until it has stolen
\* or has left the barrier to search again.
EmptyLabels == {"find", "find_shared", "steal", "reserve", "copy", "check",
                "set_done", "spin", "leave", "clear", "result", "exited"}

EmptyWhenIdle ==
    \A t \in Thread :
        /\ pc[t] \in EmptyLabels => sharedStart[t] = top[t]
        /\ pc[t] = "start" => top[t] = 0

ExpandIsReady ==
    \A t \in Thread : pc[t] = "expand" =>
        local[t] < top[t] /\ Children[TopNode(t)] # <<>>

ScanInRange == \A t \in Thread : pc[t] = "find_shared" => scan[t] < N

\* SlotsInUse, slot by slot.
BeingCopied(v, i) ==
    \E t \in Thread : pc[t] = "copy" /\ victimId[t] = v /\ i \in Reserved(t)

SlotBySlot ==
    \A v \in Thread : \A i \in 0 .. stackSize[v] - 1 :
        stack[v][i] # NoNode <=> i \in Live(v) \/ BeingCopied(v, i)

CountIsRight == cb_count = Cardinality({t \in Thread : pc[t] \in AtBarrier})

\* Once the barrier has decided, nobody finds anything any more.
SettledLabels == AtBarrier \cup {"clear", "result", "exited", "work", "find", "find_shared"}

Settled(t) ==
    /\ pc[t] \in SettledLabels
    /\ sharedStart[t] = top[t]
    /\ pc[t] = "find_shared" => seenLocal[t] = local[Candidate(t)]

DoneIsSettled ==
    (cb_done \/ \E t \in Thread : pc[t] = "set_done") /\ Undisturbed =>
        \A t \in Thread : Settled(t)

StackInv ==
    StackShape /\ LockOwned /\ VictimIsOther /\ ChunkIsThere /\ SlotBySlot

PlaceInv == EmptyWhenIdle /\ ExpandIsReady /\ ScanInRange

IInv == TypeOK /\ StackInv /\ PlaceInv /\ CountIsRight /\ DoneIsSettled

-----------------------------------------------------------------------------
(* Arithmetic *)

\* Quotient and remainder.
LEMMA DivMod ==
    ASSUME NEW a \in Int, NEW c \in Nat \ {0}
    PROVE  /\ a = c * (a \div c) + (a % c)
           /\ a % c \in 0 .. c - 1
           /\ a \div c \in Int
OBVIOUS

\* The remainder is determined by the division.
LEMMA ModUnique ==
    ASSUME NEW a \in Int, NEW c \in Nat \ {0}, NEW q \in Int,
           NEW m \in 0 .. c - 1, a = c * q + m
    PROVE  a % c = m
BY Z3

\* Whole chunks stay whole chunks.
LEMMA ModAdd ==
    ASSUME NEW a \in Int, NEW c \in Nat \ {0}, NEW k \in Int, a % c = 0
    PROVE  (a + c * k) % c = 0
<1>1. a = c * (a \div c) /\ a \div c \in Int
  BY DivMod
<1>2. PICK q \in Int : a = c * q
  BY <1>1
<1>3. a + c * k = c * (q + k) + 0 /\ q + k \in Int /\ a + c * k \in Int
  BY <1>2, Z3
<1>4. 0 \in 0 .. c - 1
  OBVIOUS
<1> QED
  BY <1>3, <1>4, ModUnique

\* Less than a chunk, in whole chunks, is nothing.
LEMMA ModSmall ==
    ASSUME NEW a \in Nat, NEW c \in Nat \ {0}, a % c = 0, a < c
    PROVE  a = 0
OBVIOUS

\* What releaseMultipleNodes releases is whole chunks, and at least one chunk
\* stays.
LEMMA Released ==
    ASSUME NEW d \in Nat
    PROVE  /\ ReleasedNodes(d) \in Nat
           /\ ReleasedNodes(d) # 0 => ReleasedNodes(d) <= d - Chunk
           /\ \E k \in Int : ReleasedNodes(d) = Chunk * k
<1> USE SizesAssumption
<1>1. CASE d > 2 * Chunk
  <2>1. d \div Chunk - 1 \in Nat
    BY <1>1
  <2>2. Chunk * (d \div Chunk - 1) \in Nat /\ Chunk * (d \div Chunk - 1) <= d - Chunk
    BY <1>1
  <2>0. PICK q \in Int : q = d \div Chunk - 1
    BY <2>1
  <2>3. ReleasedNodes(d) = Chunk * (d \div Chunk - 1)
    BY <1>1 DEF ReleasedNodes
  <2>4. \E k \in Int : ReleasedNodes(d) = Chunk * k
    BY <2>0, <2>3, Zenon
  <2> QED
    BY <2>2, <2>3, <2>4, SMT
<1>2. CASE ~(d > 2 * Chunk)
  <2>1. ReleasedNodes(d) = 0 /\ 0 = Chunk * 0
    BY <1>2 DEF ReleasedNodes
  <2> QED
    BY <2>1
<1> QED
  BY <1>1, <1>2

\* findwork never looks at the stack of its own thread.
LEMMA CandidateIsOther ==
    ASSUME NEW t \in Thread, scan[t] \in 1 .. N - 1
    PROVE  Candidate(t) \in Thread \ {t}
<1> USE SizesAssumption DEF Thread
<1>1. CASE t + scan[t] < N
  <2>1. (t + scan[t]) % N = t + scan[t]
    BY <1>1
  <2> QED
    BY <2>1 DEF Candidate
<1>2. CASE t + scan[t] >= N
  <2>1. (t + scan[t]) % N = t + scan[t] - N
    BY <1>2
  <2> QED
    BY <2>1 DEF Candidate
<1> QED
  BY <1>1, <1>2

-----------------------------------------------------------------------------
(* The stacks *)

\* A step that leaves the stacks alone.
LEMMA ControlStep ==
    ASSUME IndexTypeOK, ThreadTypeOK, StackInv, UNCHANGED stackVars,
           NEW t \in Thread, NEW l \in Labels \ {"reserve", "copy"},
           pc[t] \notin {"reserve", "copy"},
           pc' = [pc EXCEPT ![t] = l],
           NEW w \in Thread \cup {NoThread},
           victimId' = [victimId EXCEPT ![t] = w],
           l = "steal" => w \in Thread \ {t}
    PROVE  StackInv'
<1> USE DEF stackVars, IndexTypeOK
<1>0. pc \in [Thread -> Labels] /\ victimId \in [Thread -> Thread \cup {NoThread}]
  BY DEF ThreadTypeOK
<1>1. StackShape'
  BY DEF StackInv, StackShape
<1>2. LockOwned'
  <2>1. \A u \in Thread : pc'[u] \in {"reserve", "copy"} =>
           u # t /\ pc'[u] = pc[u] /\ victimId'[u] = victimId[u]
    BY <1>0
  <2>2. \A u \in Thread : pc[u] \in {"reserve", "copy"} =>
           u # t /\ pc'[u] = pc[u] /\ victimId'[u] = victimId[u]
    BY <1>0
  <2> QED
    BY <2>1, <2>2 DEF StackInv, LockOwned
<1>3. VictimIsOther'
  BY <1>0 DEF StackInv, VictimIsOther
<1>4. ChunkIsThere'
  BY <1>0 DEF StackInv, ChunkIsThere
<1>5. SlotBySlot'
  <2>1. \A v, i : BeingCopied(v, i)' <=> BeingCopied(v, i)
    BY <1>0 DEF BeingCopied, Reserved
  <2> QED
    BY <2>1 DEF StackInv, SlotBySlot, Live
<1> QED
  BY <1>1, <1>2, <1>3, <1>4, <1>5 DEF StackInv

\* A slot being copied lies below the live ones.
LEMMA CopiedIsBelow ==
    ASSUME IndexTypeOK, NEW v \in Thread, NEW i, BeingCopied(v, i)
    PROVE  i \in Int /\ i < sharedStart[v]
BY SizesAssumption DEF IndexTypeOK, BeingCopied, Reserved

\* The problem on top of a stack.
LEMMA TopIsNode ==
    ASSUME IndexTypeOK, VectorTypeOK, StackInv, NEW t \in Thread, local[t] < top[t]
    PROVE  /\ TopNode(t) \in Node
           /\ top[t] - 1 \in 0 .. stackSize[t] - 1
<1>1. /\ top[t] \in Nat /\ local[t] \in Nat /\ sharedStart[t] \in Nat /\ stackSize[t] \in Nat
      /\ sharedStart[t] <= local[t] /\ top[t] <= stackSize[t]
  BY DEF IndexTypeOK, StackInv, StackShape
<1>2. top[t] - 1 \in 0 .. stackSize[t] - 1 /\ top[t] - 1 \in Live(t)
  BY <1>1 DEF Live
<1>3. stack[t][top[t] - 1] # NoNode
  BY <1>2 DEF StackInv, SlotBySlot
<1> QED
  BY <1>2, <1>3 DEF TopNode, VectorTypeOK

\* A step of a thread on its own stack: it takes or moves nothing that a thief
\* has reserved, and under a thief's lock it only adds to the shared portion.
LEMMA OwnStep ==
    ASSUME IndexTypeOK, ThreadTypeOK, StackInv, NEW t \in Thread,
           pc[t] \notin {"reserve", "copy"},
           pc'[t] \notin {"reserve", "copy", "steal"} \/ pc' = pc,
           victimId' = victimId, stackLock' = stackLock,
           \A u \in Thread \ {t} :
             /\ pc'[u] = pc[u] /\ stack'[u] = stack[u] /\ stackSize'[u] = stackSize[u]
             /\ sharedStart'[u] = sharedStart[u] /\ local'[u] = local[u] /\ top'[u] = top[u],
           stackLock[t] # NoThread =>
             sharedStart'[t] = sharedStart[t] /\ local'[t] >= local[t],
           sharedStart'[t] \in Nat, local'[t] \in Nat, top'[t] \in Nat,
           sharedStart'[t] <= local'[t], local'[t] <= top'[t], top'[t] <= stackSize'[t],
           (local'[t] - sharedStart'[t]) % Chunk = 0,
           \A i \in 0 .. stackSize'[t] - 1 :
             stack'[t][i] # NoNode <=>
               i \in sharedStart'[t] .. top'[t] - 1 \/ BeingCopied(t, i)
    PROVE  StackInv'
<1> USE SizesAssumption DEF IndexTypeOK
<1>0. pc \in [Thread -> Labels] /\ victimId \in [Thread -> Thread \cup {NoThread}]
  BY DEF ThreadTypeOK
<1>1. StackShape'
  BY DEF StackInv, StackShape
<1>2. LockOwned'
  <2>1. \A u \in Thread : pc'[u] \in {"reserve", "copy"} => u # t /\ pc'[u] = pc[u]
    OBVIOUS
  <2>2. \A u \in Thread : pc[u] \in {"reserve", "copy"} => u # t /\ pc'[u] = pc[u]
    OBVIOUS
  <2> QED
    BY <2>1, <2>2 DEF StackInv, LockOwned
<1>3. VictimIsOther'
  BY <1>0 DEF StackInv, VictimIsOther
<1>4. \A u \in Thread : pc[u] \in {"reserve", "copy"} =>
         /\ victimId[u] \in Thread
         /\ stackLock[victimId[u]] # NoThread
         /\ sharedStart'[victimId[u]] = sharedStart[victimId[u]]
         /\ local'[victimId[u]] >= local[victimId[u]]
         /\ local'[victimId[u]] \in Nat
  <2>1. \A u \in Thread : pc[u] \in {"reserve", "copy"} =>
          victimId[u] \in Thread /\ stackLock[victimId[u]] = u /\ u # NoThread
    BY <1>0 DEF StackInv, LockOwned, VictimIsOther, Thread, NoThread
  <2> QED
    BY <2>1
<1>5. ChunkIsThere'
  <2>1. \A u \in Thread : pc'[u] \in {"reserve", "copy"} => u # t /\ pc'[u] = pc[u]
    OBVIOUS
  <2>2. \A u \in Thread \ {t} : top'[u] = top[u] /\ stackSize'[u] = stackSize[u]
    OBVIOUS
  <2> QED
    BY <1>0, <1>4, <2>1, <2>2 DEF StackInv, ChunkIsThere
<1>6. SlotBySlot'
  <2>1. \A v, i : BeingCopied(v, i)' <=> BeingCopied(v, i)
    BY <1>0, <1>4 DEF BeingCopied, Reserved
  <2> QED
    BY <1>0, <2>1 DEF StackInv, SlotBySlot, Live
<1> QED
  BY <1>1, <1>2, <1>3, <1>5, <1>6 DEF StackInv

\* The root is put on the stack of thread 0.
LEMMA StartKeeps ==
    ASSUME IInv, NEW t \in Thread, Start(t)
    PROVE  TypeOK' /\ StackInv'
<1> USE SizesAssumption, TreeAssumption DEF IInv, TypeOK, At, Goto
<1>0. /\ pc \in [Thread -> Labels] /\ pc' = [pc EXCEPT ![t] = "work"] /\ pc[t] = "start"
      /\ IndexTypeOK /\ ThreadTypeOK /\ VectorTypeOK /\ SharedTypeOK
  BY DEF ThreadTypeOK, Start
<1>1. top[t] = 0 /\ local[t] = 0 /\ sharedStart[t] = 0
  BY <1>0 DEF PlaceInv, EmptyWhenIdle, StackInv, StackShape, IndexTypeOK
<1>2. ~BeingCopied(t, 0)
  BY <1>0, <1>1, CopiedIsBelow
<1>3. /\ victimId' = victimId /\ sharedStart' = sharedStart /\ local' = local
      /\ stackSize' = stackSize /\ stackLock' = stackLock
      /\ top' = [top EXCEPT ![t] = IF t = 0 THEN 1 ELSE 0]
      /\ stack' = IF t = 0 THEN [stack EXCEPT ![t][0] = Root] ELSE stack
  BY <1>0, <1>1 DEF Start, searchVars, IndexTypeOK
<1>4. /\ \A u \in Thread \ {t} : stack'[u] = stack[u]
      /\ \A i \in 0 .. stackSize[t] - 1 :
           stack'[t][i] = IF t = 0 /\ i = 0 THEN Root ELSE stack[t][i]
      /\ VectorTypeOK'
  BY <1>0, <1>3 DEF VectorTypeOK, IndexTypeOK
<1>5. \A i \in 0 .. stackSize'[t] - 1 :
        stack'[t][i] # NoNode <=>
          i \in sharedStart'[t] .. top'[t] - 1 \/ BeingCopied(t, i)
  BY <1>0, <1>1, <1>2, <1>3, <1>4 DEF StackInv, SlotBySlot, Live, IndexTypeOK
<1>6. /\ sharedStart'[t] \in Nat /\ local'[t] \in Nat /\ top'[t] \in Nat
      /\ sharedStart'[t] <= local'[t] /\ local'[t] <= top'[t] /\ top'[t] <= stackSize'[t]
      /\ (local'[t] - sharedStart'[t]) % Chunk = 0
  BY <1>0, <1>1, <1>3 DEF StackInv, StackShape, IndexTypeOK
<1>9. /\ sharedStart'[t] = sharedStart[t] /\ local'[t] >= local[t]
      /\ \A u \in Thread \ {t} :
           /\ pc'[u] = pc[u] /\ stackSize'[u] = stackSize[u]
           /\ sharedStart'[u] = sharedStart[u] /\ local'[u] = local[u] /\ top'[u] = top[u]
  BY <1>0, <1>1, <1>3 DEF IndexTypeOK
<1>10. pc[t] \notin {"reserve", "copy"} /\ (pc'[t] \notin {"reserve", "copy", "steal"} \/ pc' = pc)
  BY <1>0
<1>11. StackInv'
  BY <1>0, <1>4, <1>5, <1>6, <1>9, <1>10, <1>3, OwnStep
<1>7. IndexTypeOK' /\ ThreadTypeOK' /\ SharedTypeOK'
  BY <1>0, <1>1, <1>3 DEF IndexTypeOK, ThreadTypeOK, SharedTypeOK, Start, Labels,
                          barrierVars, searchVars, testVars, runVars
<1> QED
  BY <1>4, <1>7, <1>11

\* A problem is popped and solved in place.
LEMMA PopKeeps ==
    ASSUME IInv, NEW t \in Thread, SolveInPlace(t)
    PROVE  TypeOK' /\ StackInv'
<1> USE SizesAssumption, TreeAssumption DEF IInv, TypeOK, At
<1>0. /\ pc' = pc /\ pc[t] = "work" /\ local[t] < top[t]
      /\ IndexTypeOK /\ ThreadTypeOK /\ VectorTypeOK /\ SharedTypeOK
      /\ victimId' = victimId /\ sharedStart' = sharedStart /\ local' = local
      /\ stackSize' = stackSize /\ stackLock' = stackLock
      /\ top' = [top EXCEPT ![t] = @ - 1]
      /\ stack' = [stack EXCEPT ![t][top[t] - 1] = NoNode]
  BY DEF SolveInPlace, Examining, ss_localDepth, ss_pop, searchVars, IndexTypeOK
<1>1. TopNode(t) \in Node /\ top[t] - 1 \in 0 .. stackSize[t] - 1
  BY <1>0, TopIsNode
<1>2. ~BeingCopied(t, top[t] - 1)
  BY <1>0, CopiedIsBelow DEF StackInv, StackShape, IndexTypeOK
<1>4. /\ \A u \in Thread \ {t} : stack'[u] = stack[u]
      /\ \A i \in 0 .. stackSize[t] - 1 :
           stack'[t][i] = IF i = top[t] - 1 THEN NoNode ELSE stack[t][i]
      /\ VectorTypeOK'
  BY <1>0, <1>1 DEF VectorTypeOK
<1>5. \A i \in 0 .. stackSize'[t] - 1 :
        stack'[t][i] # NoNode <=>
          i \in sharedStart'[t] .. top'[t] - 1 \/ BeingCopied(t, i)
  <2> TAKE i \in 0 .. stackSize'[t] - 1
  <2>1. stack[t][i] # NoNode <=> i \in sharedStart[t] .. top[t] - 1 \/ BeingCopied(t, i)
    BY <1>0 DEF StackInv, SlotBySlot, Live
  <2>2. i = top[t] - 1 => i \notin sharedStart'[t] .. top'[t] - 1 /\ ~BeingCopied(t, i)
    BY <1>0, <1>2 DEF IndexTypeOK
  <2>3. i # top[t] - 1 =>
          (i \in sharedStart'[t] .. top'[t] - 1 <=> i \in sharedStart[t] .. top[t] - 1)
    BY <1>0, <1>1 DEF IndexTypeOK
  <2> QED
    BY <1>0, <1>4, <2>1, <2>2, <2>3
<1>6. /\ sharedStart'[t] \in Nat /\ local'[t] \in Nat /\ top'[t] \in Nat
      /\ sharedStart'[t] <= local'[t] /\ local'[t] <= top'[t] /\ top'[t] <= stackSize'[t]
      /\ (local'[t] - sharedStart'[t]) % Chunk = 0
  BY <1>0, <1>1 DEF StackInv, StackShape, IndexTypeOK
<1>9. /\ sharedStart'[t] = sharedStart[t] /\ local'[t] >= local[t]
      /\ \A u \in Thread \ {t} :
           /\ pc'[u] = pc[u] /\ stackSize'[u] = stackSize[u]
           /\ sharedStart'[u] = sharedStart[u] /\ local'[u] = local[u] /\ top'[u] = top[u]
  BY <1>0, <1>1 DEF IndexTypeOK
<1>10. pc[t] \notin {"reserve", "copy"} /\ (pc'[t] \notin {"reserve", "copy", "steal"} \/ pc' = pc)
  BY <1>0
<1>11. StackInv'
  BY <1>0, <1>4, <1>5, <1>6, <1>9, <1>10, OwnStep, ZenonT(40)
<1>7. IndexTypeOK'
  BY <1>0, <1>1 DEF IndexTypeOK
<1>8. ThreadTypeOK' /\ SharedTypeOK'
  <2>1. nNodes' \in [Thread -> Nat]
    BY <1>0 DEF ThreadTypeOK, SolveInPlace, Count
  <2>2. r' \in [Thread -> SUBSET Node]
    BY <1>0, <1>1 DEF ThreadTypeOK, SolveInPlace
  <2> QED
    BY <1>0, <2>1, <2>2 DEF ThreadTypeOK, SharedTypeOK, SolveInPlace,
                            barrierVars, searchVars, runVars
<1> QED
  BY <1>4, <1>7, <1>8, <1>11

\* Nobody copies from an unlocked stack.
LEMMA UnlockedNotCopied ==
    ASSUME StackInv, NEW v \in Thread, stackLock[v] = NoThread
    PROVE  \A i : ~BeingCopied(v, i)
BY DEF StackInv, LockOwned, BeingCopied, Thread, NoThread

\* A vector grows, and what it holds may move to its beginning.
LEMMA GrowKeeps ==
    ASSUME IInv, NEW t \in Thread, ss_growStackSize(t), pc' = pc,
           pc[t] \notin {"reserve", "copy"}, victimId' = victimId
    PROVE  IndexTypeOK' /\ VectorTypeOK' /\ StackInv'
<1> USE SizesAssumption DEF IInv, TypeOK, Unlocked
<1> DEFINE size == stackSize[t] + stackSize[t] \div 2 + 2
           base == IF top[t] > sharedStart[t] THEN sharedStart[t] ELSE 0
<1>0. /\ IndexTypeOK /\ ThreadTypeOK /\ VectorTypeOK /\ stackLock[t] = NoThread
      /\ stackLock' = stackLock
      /\ sharedStart[t] \in Nat /\ local[t] \in Nat /\ top[t] \in Nat
      /\ sharedStart[t] <= local[t] /\ local[t] <= top[t] /\ top[t] <= stackSize[t]
      /\ (local[t] - sharedStart[t]) % Chunk = 0
  BY DEF ss_growStackSize, StackInv, StackShape, IndexTypeOK
<1>1. size \in Nat \ {0} /\ size >= stackSize[t] /\ base \in Nat /\ base <= sharedStart[t]
  BY <1>0 DEF IndexTypeOK
<1>2. /\ stackSize' = [stackSize EXCEPT ![t] = size]
      /\ stack' = [stack EXCEPT ![t] =
                     [i \in 0 .. size - 1 |->
                        IF i + base < top[t] THEN stack[t][i + base] ELSE NoNode]]
      /\ top' = [top EXCEPT ![t] = @ - base]
      /\ local' = [local EXCEPT ![t] = @ - base]
      /\ sharedStart' = [sharedStart EXCEPT ![t] = @ - base]
  BY DEF ss_growStackSize
<1> HIDE DEF size, base
<1>3. /\ stackSize'[t] = size /\ top'[t] = top[t] - base /\ local'[t] = local[t] - base
      /\ sharedStart'[t] = sharedStart[t] - base
      /\ \A u \in Thread \ {t} :
           /\ stackSize'[u] = stackSize[u]
           /\ sharedStart'[u] = sharedStart[u] /\ local'[u] = local[u] /\ top'[u] = top[u]
  BY <1>0, <1>2 DEF IndexTypeOK
<1>4. /\ \A u \in Thread \ {t} : stack'[u] = stack[u]
      /\ stack'[t] = [i \in 0 .. size - 1 |->
                        IF i + base < top[t] THEN stack[t][i + base] ELSE NoNode]
      /\ DOMAIN stack' = Thread
  BY <1>0, <1>2 DEF VectorTypeOK
<1>5. VectorTypeOK'
  <2>1. \A i \in 0 .. size - 1 : i + base < top[t] => i + base \in 0 .. stackSize[t] - 1
    BY <1>0, <1>1 DEF IndexTypeOK
  <2>3. \A i \in 0 .. size - 1 :
          (IF i + base < top[t] THEN stack[t][i + base] ELSE NoNode) \in Node \cup {NoNode}
    BY <2>1 DEF VectorTypeOK
  <2>2. stack'[t] \in [0 .. size - 1 -> Node \cup {NoNode}]
    BY <1>4, <2>3
  <2> QED
    BY <1>0, <1>3, <1>4, <2>2 DEF VectorTypeOK
<1>6. \A i \in 0 .. stackSize'[t] - 1 :
        stack'[t][i] # NoNode <=>
          i \in sharedStart'[t] .. top'[t] - 1 \/ BeingCopied(t, i)
  <2> TAKE i \in 0 .. stackSize'[t] - 1
  <2>1. stack'[t][i] = IF i + base < top[t] THEN stack[t][i + base] ELSE NoNode
    BY <1>3, <1>4
  <2>2. ~BeingCopied(t, i) /\ ~BeingCopied(t, i + base)
    BY <1>0, UnlockedNotCopied
  <2>3. i + base < top[t] =>
          (stack[t][i + base] # NoNode <=> i + base \in sharedStart[t] .. top[t] - 1)
    <3>1. i + base < top[t] => i + base \in 0 .. stackSize[t] - 1
      BY <1>0, <1>1, <1>3 DEF IndexTypeOK
    <3> QED
      BY <3>1, <2>2 DEF StackInv, SlotBySlot, Live
  <2>4. i \in sharedStart'[t] .. top'[t] - 1 <=>
          i + base < top[t] /\ i + base \in sharedStart[t] .. top[t] - 1
    BY <1>0, <1>1, <1>3
  <2> QED
    BY <2>1, <2>2, <2>3, <2>4
<1>7. IndexTypeOK'
  BY <1>0, <1>1, <1>2, <1>3, SMTT(30) DEF IndexTypeOK, base
<1>8. /\ sharedStart'[t] \in Nat /\ local'[t] \in Nat /\ top'[t] \in Nat
      /\ sharedStart'[t] <= local'[t] /\ local'[t] <= top'[t]
      /\ local'[t] - sharedStart'[t] = local[t] - sharedStart[t]
  BY <1>0, <1>1, <1>3
<1>9. top'[t] <= stackSize'[t] /\ (local'[t] - sharedStart'[t]) % Chunk = 0
  BY <1>0, <1>1, <1>3, <1>8 DEF IndexTypeOK
<1>10. StackInv'
  BY <1>0, <1>3, <1>4, <1>6, <1>8, <1>9, OwnStep
<1> QED
  BY <1>5, <1>7, <1>10

\* A problem is replaced by its children, and some are released.
LEMMA ExpandKeeps ==
    ASSUME IInv, NEW t \in Thread, Expand(t)
    PROVE  TypeOK' /\ StackInv'
<1> USE SizesAssumption DEF IInv, TypeOK, At, Goto
<1> DEFINE n == TopNode(t)
           kids == Children[n]
           slot == top[t] - 1
           newTop == slot + Len(kids)
           released == ReleasedNodes(newTop - local[t])
<1>0. /\ IndexTypeOK /\ ThreadTypeOK /\ VectorTypeOK /\ SharedTypeOK
      /\ pc[t] = "expand" /\ local[t] < top[t] /\ kids # <<>>
      /\ victimId' = victimId /\ sharedStart' = sharedStart
      /\ stackSize' = stackSize /\ stackLock' = stackLock
      /\ sharedStart[t] \in Nat /\ local[t] \in Nat /\ top[t] \in Nat
      /\ sharedStart[t] <= local[t] /\ top[t] <= stackSize[t]
  BY DEF Expand, PlaceInv, ExpandIsReady, StackInv, StackShape, IndexTypeOK, searchVars
<1>room. top[t] + Len(kids) <= stackSize[t]
  BY DEF Expand
<1>whole. (local[t] - sharedStart[t]) % Chunk = 0
  BY DEF StackInv, StackShape
<1>1. n \in Node /\ slot \in 0 .. stackSize[t] - 1
  BY <1>0, TopIsNode
<1>2. kids \in Seq(Node) /\ Len(kids) \in Nat \ {0}
  BY <1>0, <1>1, TreeAssumption
<1>3. /\ top' = [top EXCEPT ![t] = newTop]
      /\ local' = [local EXCEPT ![t] = local[t] + released]
      /\ pc' = [pc EXCEPT ![t] = IF newTop - local[t] > 2 * Chunk THEN "cancel" ELSE "work"]
      /\ r' = [r EXCEPT ![t] = r[t] \cup {n}]
      /\ stack' = [stack EXCEPT ![t] =
                     [i \in DOMAIN @ |-> IF i \in slot .. newTop - 1
                                         THEN kids[i - slot + 1] ELSE @[i]]]
  BY DEF Expand
<1>4. PICK k \in Nat \ {0} : k = Len(kids)
  BY <1>2
<1>slots. /\ newTop = top[t] - 1 + k /\ slot = top[t] - 1
       /\ stackSize[t] \in Nat /\ top[t] + k <= stackSize[t]
  BY <1>0, <1>room, <1>4 DEF IndexTypeOK
<1> HIDE DEF n, kids
<1>5. /\ newTop \in Nat /\ newTop >= top[t] /\ newTop < stackSize[t] /\ newTop - local[t] \in Nat
      /\ slot \in Nat /\ slot < newTop /\ newTop = slot + k
      /\ local[t] <= slot /\ stackSize[t] \in Nat
  <2>1. /\ local[t] \in Nat /\ top[t] \in Nat /\ local[t] < top[t]
        /\ stackSize[t] \in Nat /\ top[t] + k <= stackSize[t]
    BY <1>0, <1>slots
  <2>2. newTop = top[t] - 1 + k
    BY <1>slots
  <2> HIDE DEF newTop
  <2> QED
    BY ONLY <2>1, <2>2, k \in Nat \ {0}, slot = top[t] - 1
<1> HIDE DEF slot, newTop
<1>chunks. /\ released \in Nat /\ local[t] + released <= newTop
       /\ (local[t] + released - sharedStart[t]) % Chunk = 0
  <2> DEFINE depth == newTop - local[t]
             a == local[t] - sharedStart[t]
  <2>1. depth \in Nat /\ a \in Int /\ a % Chunk = 0
    BY <1>0, <1>whole, <1>5
  <2>2. /\ released \in Nat
        /\ released # 0 => released <= depth - Chunk
        /\ \E m \in Int : released = Chunk * m
    <3> HIDE DEF depth
    <3> QED
      BY <2>1, Released DEF depth
  <2>3. PICK m \in Int : released = Chunk * m
    BY <2>2
  <2>4. (a + Chunk * m) % Chunk = 0
    <3> HIDE DEF a
    <3> QED
      BY <2>1, ModAdd
  <2>5. local[t] + released <= newTop
    BY <1>0, <1>5, <2>2
  <2> HIDE DEF released
  <2>6. local[t] + released - sharedStart[t] = a + released
    BY <1>0, <2>2
  <2>7. (local[t] + released - sharedStart[t]) % Chunk = 0
    BY <2>3, <2>4, <2>6
  <2> QED
    BY <2>2, <2>5, <2>7
<1> HIDE DEF released
<1>6. released \in Nat /\ local[t] + released <= newTop
  BY <1>chunks
<1>7. /\ top'[t] = newTop /\ local'[t] = local[t] + released
      /\ \A u \in Thread \ {t} : top'[u] = top[u] /\ local'[u] = local[u] /\ pc'[u] = pc[u]
  BY <1>3 DEF IndexTypeOK, ThreadTypeOK
<1>8. /\ \A u \in Thread \ {t} : stack'[u] = stack[u]
      /\ stack'[t] = [i \in 0 .. stackSize[t] - 1 |->
                        IF i \in slot .. newTop - 1 THEN kids[i - slot + 1] ELSE stack[t][i]]
      /\ DOMAIN stack' = Thread
  BY <1>0, <1>3 DEF VectorTypeOK
<1>9. \A i \in slot .. newTop - 1 : kids[i - slot + 1] \in Node
  <2> TAKE i \in slot .. newTop - 1
  <2>1. i - slot + 1 \in 1 .. k
    BY <1>5
  <2> QED
    BY <1>2, <1>4, <2>1
<1>10. VectorTypeOK'
  <2>1. \A i \in 0 .. stackSize[t] - 1 :
          (IF i \in slot .. newTop - 1 THEN kids[i - slot + 1] ELSE stack[t][i])
            \in Node \cup {NoNode}
    BY <1>9 DEF VectorTypeOK
  <2>2. stack'[t] \in [0 .. stackSize[t] - 1 -> Node \cup {NoNode}]
    BY <1>8, <2>1
  <2> QED
    BY <1>0, <1>8, <2>2 DEF VectorTypeOK
<1>11. \A i \in 0 .. stackSize'[t] - 1 :
         stack'[t][i] # NoNode <=>
           i \in sharedStart'[t] .. top'[t] - 1 \/ BeingCopied(t, i)
  <2> TAKE i \in 0 .. stackSize'[t] - 1
  <2>1. stack[t][i] # NoNode <=> i \in sharedStart[t] .. top[t] - 1 \/ BeingCopied(t, i)
    BY <1>0 DEF StackInv, SlotBySlot, Live
  <2>2. top'[t] = newTop
    BY <1>7
  <2>3. CASE i \in slot .. newTop - 1
    <3>1. stack'[t][i] # NoNode
      BY <1>0, <1>8, <1>9, <2>3, TreeAssumption
    <3>2. i \in sharedStart'[t] .. top'[t] - 1
      BY <1>0, <1>5, <2>2, <2>3
    <3> QED
      BY <3>1, <3>2
  <2>4. CASE i \notin slot .. newTop - 1
    <3>1. stack'[t][i] = stack[t][i]
      BY <1>0, <1>8, <2>4
    <3>2. i \in sharedStart[t] .. top[t] - 1 <=> i \in sharedStart'[t] .. top'[t] - 1
      <4>1. i \in sharedStart[t] .. top[t] - 1 <=> i \in sharedStart[t] .. slot
        BY <1>slots
      <4>2. i \in sharedStart'[t] .. top'[t] - 1 <=> i \in sharedStart[t] .. newTop - 1
        BY <1>0, <2>2
      <4>3. \A s \in Nat : s <= slot => (i \in s .. slot <=> i \in s .. newTop - 1)
        BY <1>5, <2>4
      <4>4. sharedStart[t] \in Nat /\ sharedStart[t] <= slot
        BY <1>0, <1>5
      <4> QED
        BY <4>1, <4>2, <4>3, <4>4
    <3> QED
      BY <2>1, <3>1, <3>2
  <2> QED
    BY <2>3, <2>4
<1>12. /\ sharedStart'[t] \in Nat /\ local'[t] \in Nat /\ top'[t] \in Nat
       /\ sharedStart'[t] <= local'[t] /\ local'[t] <= top'[t] /\ top'[t] <= stackSize'[t]
       /\ sharedStart'[t] = sharedStart[t] /\ local'[t] >= local[t]
       /\ \A u \in Thread \ {t} :
            /\ pc'[u] = pc[u] /\ stackSize'[u] = stackSize[u]
            /\ sharedStart'[u] = sharedStart[u] /\ local'[u] = local[u] /\ top'[u] = top[u]
  <2>1. /\ sharedStart'[t] = sharedStart[t] /\ local'[t] = local[t] + released
        /\ top'[t] = newTop /\ stackSize'[t] = stackSize[t]
    BY <1>0, <1>7
  <2>2. sharedStart[t] \in Nat /\ local[t] \in Nat /\ sharedStart[t] <= local[t]
    BY <1>0
  <2>3. \A u \in Thread \ {t} :
            /\ pc'[u] = pc[u] /\ stackSize'[u] = stackSize[u]
            /\ sharedStart'[u] = sharedStart[u] /\ local'[u] = local[u] /\ top'[u] = top[u]
    BY <1>0, <1>7
  <2> QED
    BY <1>5, <1>6, <2>1, <2>2, <2>3
<1>still. (local'[t] - sharedStart'[t]) % Chunk = 0
  BY <1>0, <1>chunks, <1>7
<1>13. pc[t] \notin {"reserve", "copy"} /\ pc'[t] \notin {"reserve", "copy", "steal"}
  BY <1>0, <1>3 DEF ThreadTypeOK
<1>14. StackInv'
  BY <1>0, <1>8, <1>11, <1>12, <1>still, <1>13, OwnStep, ZenonT(40)
<1>15. IndexTypeOK'
  <2>1. local[t] + released \in Nat /\ newTop \in Nat
    BY <1>0, <1>5, <1>6
  <2> QED
    BY <1>0, <1>3, <2>1 DEF IndexTypeOK
<1>16. ThreadTypeOK' /\ SharedTypeOK'
  <2>1. pc' \in [Thread -> Labels] /\ r' \in [Thread -> SUBSET Node]
    BY <1>1, <1>3 DEF ThreadTypeOK, Labels
  <2> QED
    BY <1>0, <2>1 DEF ThreadTypeOK, SharedTypeOK, Expand, barrierVars,
                      searchVars, testVars, runVars
<1> QED
  BY <1>10, <1>14, <1>15, <1>16

\* ss_acquire takes a chunk back under the lock.
LEMMA AcquireKeeps ==
    ASSUME IInv, NEW t \in Thread, Acquire(t)
    PROVE  TypeOK' /\ StackInv'
<1> USE DEF IInv, TypeOK
<1>0. /\ IndexTypeOK /\ ThreadTypeOK /\ VectorTypeOK /\ SharedTypeOK
      /\ pc[t] = "work" /\ stackLock[t] = NoThread
      /\ victimId' = victimId /\ stack' = stack /\ sharedStart' = sharedStart
      /\ top' = top /\ stackSize' = stackSize /\ stackLock' = stackLock
      /\ sharedStart[t] \in Nat /\ local[t] \in Nat /\ top[t] \in Nat
      /\ sharedStart[t] <= local[t] /\ local[t] <= top[t] /\ top[t] <= stackSize[t]
  BY DEF Acquire, StackInv, StackShape, IndexTypeOK, At, Unlocked
<1>1. SharedTypeOK' /\ VectorTypeOK'
  BY <1>0 DEF Acquire, SharedTypeOK, VectorTypeOK, barrierVars, runVars
<1>2. CASE local[t] - sharedStart[t] >= Chunk
  <2>1. local' = [local EXCEPT ![t] = local[t] - Chunk] /\ pc' = pc /\ scan' = scan
    BY <1>2 DEF Acquire
  <2>2. Chunk \in Nat \ {0}
    BY SizesAssumption
  <2>3. local'[t] = local[t] - Chunk /\ \A u \in Thread \ {t} : local'[u] = local[u]
    BY <2>1 DEF IndexTypeOK
  <2>4. /\ local[t] - Chunk \in Nat
        /\ sharedStart[t] <= local[t] - Chunk /\ local[t] - Chunk <= top[t]
    BY <1>0, <1>2, <2>2
  <2>5. (local[t] - Chunk - sharedStart[t]) % Chunk = 0
    <3>1. (local[t] - sharedStart[t]) % Chunk = 0
      BY DEF StackInv, StackShape
    <3> DEFINE a == local[t] - sharedStart[t]
    <3>2. a \in Int /\ local[t] - Chunk - sharedStart[t] = a + Chunk * (-1)
      BY <1>0, <2>2
    <3>3. (a + Chunk * (-1)) % Chunk = 0
      <4>1. a % Chunk = 0 /\ -1 \in Int
        BY <3>1
      <4> HIDE DEF a
      <4> QED
        BY <2>2, <3>2, <4>1, ModAdd
    <3> QED
      BY <3>2, <3>3
  <2>6. \A i \in 0 .. stackSize[t] - 1 :
           stack'[t][i] # NoNode <=>
             i \in sharedStart'[t] .. top'[t] - 1 \/ BeingCopied(t, i)
    BY <1>0 DEF StackInv, SlotBySlot, Live
  <2>7. StackInv'
    BY <1>0, <2>1, <2>3, <2>4, <2>5, <2>6, OwnStep
  <2>8. IndexTypeOK' /\ ThreadTypeOK'
    BY <1>0, <2>1, <2>4 DEF IndexTypeOK, ThreadTypeOK, Acquire, testVars
  <2> QED
    BY <1>1, <2>7, <2>8
<1>3. CASE ~(local[t] - sharedStart[t] >= Chunk)
  <2>1. local' = local /\ pc' = [pc EXCEPT ![t] = "find"] /\ scan' = [scan EXCEPT ![t] = 1]
    BY <1>3 DEF Acquire, Goto
  <2>2. 1 \in 1 .. N
    BY SizesAssumption
  <2>3. ThreadTypeOK'
    BY <1>0, <2>1, <2>2 DEF ThreadTypeOK, Acquire, testVars, Labels
  <2>4. StackInv'
    <3>1. victimId' = [victimId EXCEPT ![t] = victimId[t]] /\ victimId[t] \in Thread \cup {NoThread}
      BY <1>0 DEF ThreadTypeOK
    <3>2. "find" \in Labels \ {"reserve", "copy"} /\ UNCHANGED stackVars
      BY <1>0, <2>1 DEF Labels, stackVars
    <3>3. IndexTypeOK /\ ThreadTypeOK /\ StackInv /\ pc[t] \notin {"reserve", "copy"}
      BY <1>0
    <3> QED
      BY <2>1, <3>1, <3>2, <3>3, ControlStep
  <2>5. IndexTypeOK'
    BY <1>0, <2>1 DEF IndexTypeOK
  <2> QED
    BY <1>1, <2>3, <2>4, <2>5
<1> QED
  BY <1>2, <1>3

\* ss_mkEmpty under the lock: nobody copies from the stack.
LEMMA CutEmptyKeeps ==
    ASSUME IInv, NEW t \in Thread, CutEmpty(t)
    PROVE  TypeOK' /\ StackInv'
<1> USE DEF IInv, TypeOK
<1>0. /\ IndexTypeOK /\ ThreadTypeOK /\ VectorTypeOK /\ SharedTypeOK
      /\ pc[t] = "cut_empty" /\ stackLock[t] = NoThread
      /\ pc' = [pc EXCEPT ![t] = "work"]
      /\ victimId' = victimId /\ stackSize' = stackSize /\ stackLock' = stackLock
      /\ stack' = [stack EXCEPT ![t] = [i \in DOMAIN @ |-> NoNode]]
      /\ sharedStart' = [sharedStart EXCEPT ![t] = 0]
      /\ local' = [local EXCEPT ![t] = 0]
      /\ top' = [top EXCEPT ![t] = 0]
  BY DEF CutEmpty, At, Goto, Unlocked, searchVars
<1>1. /\ sharedStart'[t] = 0 /\ local'[t] = 0 /\ top'[t] = 0 /\ pc'[t] = "work"
      /\ \A u \in Thread \ {t} :
           /\ pc'[u] = pc[u] /\ stack'[u] = stack[u] /\ stackSize'[u] = stackSize[u]
           /\ sharedStart'[u] = sharedStart[u] /\ local'[u] = local[u] /\ top'[u] = top[u]
  BY <1>0 DEF IndexTypeOK, ThreadTypeOK, VectorTypeOK
<1>2. stack'[t] = [i \in 0 .. stackSize[t] - 1 |-> NoNode] /\ DOMAIN stack' = Thread
  BY <1>0 DEF VectorTypeOK
<1>3. \A i : ~BeingCopied(t, i)
  BY <1>0, UnlockedNotCopied
<1>4. \A i \in 0 .. stackSize'[t] - 1 :
        stack'[t][i] # NoNode <=>
          i \in sharedStart'[t] .. top'[t] - 1 \/ BeingCopied(t, i)
  BY <1>0, <1>1, <1>2, <1>3
<1>5. 0 <= stackSize[t] /\ 0 \in Nat /\ (0 - 0) % Chunk = 0
  BY SizesAssumption DEF IndexTypeOK
<1>6. StackInv'
  BY <1>0, <1>1, <1>4, <1>5, OwnStep
<1>7. IndexTypeOK' /\ VectorTypeOK'
  BY <1>0, <1>1, <1>2 DEF IndexTypeOK, VectorTypeOK
<1>8. ThreadTypeOK' /\ SharedTypeOK'
  BY <1>0 DEF ThreadTypeOK, SharedTypeOK, CutEmpty, Labels, barrierVars,
              searchVars, testVars, runVars
<1> QED
  BY <1>6, <1>7, <1>8

\* A thief locks the stack it has chosen.
LEMMA LockVictimKeeps ==
    ASSUME IInv, NEW t \in Thread, LockVictim(t)
    PROVE  TypeOK' /\ StackInv'
<1> USE DEF IInv, TypeOK
<1> DEFINE v == victimId[t]
<1>0. /\ IndexTypeOK /\ ThreadTypeOK /\ VectorTypeOK /\ SharedTypeOK
      /\ pc[t] = "steal" /\ stackLock[v] = NoThread /\ v \in Thread \ {t}
      /\ top[t] + Chunk < stackSize[t]
      /\ victimId' = victimId /\ stack' = stack /\ sharedStart' = sharedStart
      /\ local' = local /\ top' = top /\ stackSize' = stackSize
  BY DEF LockVictim, At, Unlocked, StackInv, VictimIsOther
<1>1. SharedTypeOK' /\ VectorTypeOK'
  BY <1>0 DEF LockVictim, SharedTypeOK, VectorTypeOK, barrierVars, runVars
<1>2. CASE local[v] - sharedStart[v] >= Chunk
  <2>1. /\ stackLock' = [stackLock EXCEPT ![v] = t] /\ scan' = scan
        /\ seenLocal' = [seenLocal EXCEPT ![t] = local[v]]
        /\ pc' = [pc EXCEPT ![t] = "reserve"]
    BY <1>2 DEF LockVictim, Goto
  <2>2. IndexTypeOK' /\ ThreadTypeOK'
    BY <1>0, <2>1 DEF IndexTypeOK, ThreadTypeOK, LockVictim, testVars, Labels
  <2>3. /\ \A u \in Thread \ {t} : pc'[u] = pc[u]
        /\ \A u \in Thread \ {v} : stackLock'[u] = stackLock[u]
        /\ stackLock'[v] = t /\ pc'[t] = "reserve"
    BY <1>0, <2>1 DEF IndexTypeOK, ThreadTypeOK
  <2>4. \A u \in Thread \ {t} : pc[u] \in {"reserve", "copy"} =>
          victimId[u] # v /\ victimId[u] \in Thread
    BY <1>0 DEF StackInv, LockOwned, VictimIsOther, Thread, NoThread
  <2>5. LockOwned'
    <3>1. \A u \in Thread : pc'[u] \in {"reserve", "copy"} => stackLock'[victimId[u]] = u
      <4> TAKE u \in Thread
      <4> HAVE pc'[u] \in {"reserve", "copy"}
      <4>1. CASE u = t
        BY <2>3, <4>1
      <4>2. CASE u # t
        BY <2>3, <2>4, <4>2 DEF StackInv, LockOwned
      <4> QED
        BY <4>1, <4>2
    <3>2. \A w \in Thread : stackLock'[w] \in Thread =>
            pc'[stackLock'[w]] \in {"reserve", "copy"} /\ victimId[stackLock'[w]] = w
      <4> TAKE w \in Thread
      <4> HAVE stackLock'[w] \in Thread
      <4>1. CASE w = v
        BY <2>3, <4>1
      <4>2. CASE w # v
        <5>1. stackLock'[w] = stackLock[w] /\ stackLock[w] # t
          BY <1>0, <2>3, <4>2 DEF StackInv, LockOwned
        <5> QED
          BY <2>3, <5>1 DEF StackInv, LockOwned
      <4> QED
        BY <4>1, <4>2
    <3> QED
      BY <1>0, <3>1, <3>2 DEF LockOwned
  <2>6. VictimIsOther'
    BY <1>0, <2>3 DEF StackInv, VictimIsOther
  <2>7. ChunkIsThere'
    BY <1>0, <1>2, <2>3 DEF StackInv, ChunkIsThere
  <2>8. SlotBySlot'
    <3>1. \A w, i : BeingCopied(w, i)' <=> BeingCopied(w, i)
      BY <1>0, <2>3 DEF BeingCopied, Reserved
    <3> QED
      BY <1>0, <3>1 DEF StackInv, SlotBySlot, Live
  <2>9. StackShape'
    BY <1>0 DEF StackInv, StackShape
  <2> QED
    BY <1>1, <2>2, <2>5, <2>6, <2>7, <2>8, <2>9 DEF StackInv
<1>3. CASE ~(local[v] - sharedStart[v] >= Chunk)
  <2>1. /\ stackLock' = stackLock /\ pc' = [pc EXCEPT ![t] = "find"]
        /\ scan' = [scan EXCEPT ![t] = 1] /\ seenLocal' = seenLocal
    BY <1>3 DEF LockVictim, Goto
  <2>2. 1 \in 1 .. N
    BY SizesAssumption
  <2>3. ThreadTypeOK' /\ IndexTypeOK'
    BY <1>0, <2>1, <2>2 DEF ThreadTypeOK, IndexTypeOK, LockVictim, testVars, Labels
  <2>4. StackInv'
    <3>1. victimId' = [victimId EXCEPT ![t] = victimId[t]] /\ victimId[t] \in Thread \cup {NoThread}
      BY <1>0 DEF ThreadTypeOK
    <3>2. "find" \in Labels \ {"reserve", "copy"} /\ UNCHANGED stackVars
      BY <1>0, <2>1 DEF Labels, stackVars
    <3> QED
      BY <1>0, <2>1, <3>1, <3>2, ControlStep
  <2> QED
    BY <1>1, <2>3, <2>4
<1> QED
  BY <1>2, <1>3

\* A thief moves sharedStart past the chunk it will copy, or gives up.
LEMMA ReserveKeeps ==
    ASSUME IInv, NEW t \in Thread, Reserve(t)
    PROVE  TypeOK' /\ StackInv'
<1> USE DEF IInv, TypeOK
<1> DEFINE v == victimId[t]
<1>0. /\ IndexTypeOK /\ ThreadTypeOK /\ VectorTypeOK /\ SharedTypeOK
      /\ pc[t] = "reserve" /\ stackLock[v] = t /\ v \in Thread \ {t}
      /\ local[v] - sharedStart[v] >= Chunk
      /\ sharedStart' = [sharedStart EXCEPT ![v] = sharedStart[v] + Chunk]
      /\ seenLocal' = [seenLocal EXCEPT ![t] = 0]
      /\ pc' = [pc EXCEPT ![t] = "copy"]
      /\ victimId' = victimId /\ stack' = stack /\ stackLock' = stackLock
      /\ local' = local /\ top' = top /\ stackSize' = stackSize
  BY DEF Reserve, At, Goto, StackInv, VictimIsOther, LockOwned, ChunkIsThere
<1>1. Chunk \in Nat \ {0}
  BY SizesAssumption
<1>2. /\ sharedStart[v] \in Nat /\ local[v] \in Nat /\ top[v] \in Nat /\ stackSize[v] \in Nat
      /\ local[v] <= top[v] /\ top[v] <= stackSize[v]
  BY <1>0 DEF IndexTypeOK, StackInv, StackShape
<1>3. /\ sharedStart'[v] = sharedStart[v] + Chunk /\ pc'[t] = "copy"
      /\ \A u \in Thread \ {v} : sharedStart'[u] = sharedStart[u]
      /\ \A u \in Thread \ {t} : pc'[u] = pc[u]
  BY <1>0 DEF IndexTypeOK, ThreadTypeOK
<1>4. sharedStart[v] + Chunk \in Nat /\ sharedStart[v] + Chunk <= local[v]
  BY <1>0, <1>1, <1>2
<1>5. (local[v] - (sharedStart[v] + Chunk)) % Chunk = 0
  <2> DEFINE a == local[v] - sharedStart[v]
  <2>1. a \in Int /\ local[v] - (sharedStart[v] + Chunk) = a + Chunk * (-1)
    BY <1>1, <1>2
  <2>2. a % Chunk = 0 /\ -1 \in Int
    BY <1>0 DEF StackInv, StackShape
  <2>3. (a + Chunk * (-1)) % Chunk = 0
    <3> HIDE DEF a
    <3> QED
      BY <1>1, <2>1, <2>2, ModAdd
  <2> QED
    BY <2>1, <2>3
<1>6. \A u \in Thread \ {t} : pc[u] \in {"reserve", "copy"} =>
        victimId[u] # v /\ victimId[u] \in Thread
  BY <1>0 DEF StackInv, LockOwned, VictimIsOther
<1>7. StackShape'
  BY <1>0, <1>2, <1>3, <1>4, <1>5 DEF StackInv, StackShape
<1>8. LockOwned' /\ VictimIsOther'
  BY <1>0, <1>3 DEF StackInv, LockOwned, VictimIsOther
<1>9. ChunkIsThere'
  <2>1. sharedStart'[v] >= Chunk
    BY <1>1, <1>2, <1>3
  <2>2. \A u \in Thread \ {t} : pc'[u] \in {"reserve", "copy"} =>
          pc'[u] = pc[u] /\ sharedStart'[victimId[u]] = sharedStart[victimId[u]]
    BY <1>3, <1>6
  <2>3. top[t] + Chunk < stackSize[t]
    BY <1>0 DEF StackInv, ChunkIsThere
  <2> QED
    BY <1>0, <1>3, <2>1, <2>2, <2>3 DEF StackInv, ChunkIsThere
<1>10. SlotBySlot'
  <2>1. \A w \in Thread \ {v} : \A i : BeingCopied(w, i)' <=> BeingCopied(w, i)
    BY <1>0, <1>3 DEF BeingCopied, Reserved
  <2>2. \A i : ~BeingCopied(v, i)
    <3>1. \A u \in Thread : pc[u] = "copy" => victimId[u] # v
      BY <1>0, <1>6
    <3> QED
      BY <3>1 DEF BeingCopied
  <2>3. \A i : BeingCopied(v, i)' <=> i \in sharedStart[v] .. sharedStart[v] + Chunk - 1
    <3>1. \A u \in Thread : pc'[u] = "copy" /\ victimId'[u] = v <=> u = t
      BY <1>0, <1>3, <1>6
    <3>2. Reserved(t)' = sharedStart[v] .. sharedStart[v] + Chunk - 1
      BY <1>0, <1>1, <1>2, <1>3 DEF Reserved
    <3> QED
      BY <3>1, <3>2 DEF BeingCopied
  <2>4. \A i \in 0 .. stackSize[v] - 1 :
          i \in sharedStart[v] .. top[v] - 1 <=>
            \/ i \in sharedStart[v] .. sharedStart[v] + Chunk - 1
            \/ i \in sharedStart[v] + Chunk .. top[v] - 1
    BY <1>1, <1>2, <1>4
  <2>5. \A i \in 0 .. stackSize[v] - 1 :
          stack'[v][i] # NoNode <=> i \in Live(v)' \/ BeingCopied(v, i)'
    BY <1>0, <1>3, <2>2, <2>3, <2>4 DEF StackInv, SlotBySlot, Live
  <2>6. \A w \in Thread \ {v} : \A i \in 0 .. stackSize[w] - 1 :
          stack'[w][i] # NoNode <=> i \in Live(w)' \/ BeingCopied(w, i)'
    BY <1>0, <1>3, <2>1 DEF StackInv, SlotBySlot, Live
  <2> QED
    BY <1>0, <2>5, <2>6 DEF SlotBySlot
<1>11. IndexTypeOK' /\ VectorTypeOK'
  BY <1>0, <1>4 DEF IndexTypeOK, VectorTypeOK
<1>12. ThreadTypeOK' /\ SharedTypeOK'
  BY <1>0 DEF ThreadTypeOK, SharedTypeOK, Reserve, Labels, barrierVars, testVars, runVars
<1> QED
  BY <1>7, <1>8, <1>9, <1>10, <1>11, <1>12 DEF StackInv

\* A thief copies its chunk and gives the lock back.
LEMMA CopyKeeps ==
    ASSUME IInv, NEW t \in Thread, Copy(t)
    PROVE  TypeOK' /\ StackInv'
<1> USE DEF IInv, TypeOK
<1> DEFINE v == victimId[t]
           from == sharedStart[v] - Chunk
<1>0. /\ IndexTypeOK /\ ThreadTypeOK /\ VectorTypeOK /\ SharedTypeOK
      /\ pc[t] = "copy" /\ stackLock[v] = t /\ v \in Thread \ {t}
      /\ top[t] + Chunk < stackSize[t] /\ sharedStart[v] >= Chunk
      /\ sharedStart[t] = top[t]
      /\ top' = [top EXCEPT ![t] = top[t] + Chunk]
      /\ stackLock' = [stackLock EXCEPT ![v] = NoThread]
      /\ pc' = [pc EXCEPT ![t] = "work"]
      /\ victimId' = victimId /\ sharedStart' = sharedStart
      /\ local' = local /\ stackSize' = stackSize
  BY DEF Copy, At, Goto, StackInv, VictimIsOther, LockOwned, ChunkIsThere,
         PlaceInv, EmptyWhenIdle, EmptyLabels, searchVars
<1>1. Chunk \in Nat \ {0}
  BY SizesAssumption
<1>2. \A u \in Thread :
        /\ sharedStart[u] \in Nat /\ local[u] \in Nat /\ top[u] \in Nat /\ stackSize[u] \in Nat
        /\ sharedStart[u] <= local[u] /\ local[u] <= top[u] /\ top[u] <= stackSize[u]
  BY <1>0 DEF IndexTypeOK, StackInv, StackShape
<1>3. /\ top'[t] = top[t] + Chunk /\ pc'[t] = "work" /\ stackLock'[v] = NoThread
      /\ \A u \in Thread \ {t} : top'[u] = top[u]
      /\ \A u \in Thread \ {v} : stackLock'[u] = stackLock[u]
      /\ \A u \in Thread \ {t} : pc'[u] = pc[u]
  BY <1>0 DEF IndexTypeOK, ThreadTypeOK
<1>4. /\ DOMAIN stack' = Thread
      /\ stack'[t] = [i \in 0 .. stackSize[t] - 1 |->
                        IF i \in top[t] .. top[t] + Chunk - 1
                        THEN stack[v][from + i - top[t]] ELSE stack[t][i]]
      /\ stack'[v] = [i \in 0 .. stackSize[v] - 1 |->
                        IF i \in Reserved(t) THEN NoNode ELSE stack[v][i]]
      /\ \A u \in Thread \ {t, v} : stack'[u] = stack[u]
  <2>1. /\ DOMAIN stack = Thread /\ t \in Thread /\ v \in Thread /\ t # v
        /\ DOMAIN stack[t] = 0 .. stackSize[t] - 1 /\ DOMAIN stack[v] = 0 .. stackSize[v] - 1
    BY <1>0 DEF VectorTypeOK
  <2>2. stack' =
             [stack EXCEPT
               ![t] = [i \in DOMAIN stack[t] |->
                         IF i \in top[t] .. top[t] + Chunk - 1
                         THEN stack[v][from + i - top[t]] ELSE stack[t][i]],
               ![v] = [i \in DOMAIN stack[v] |->
                         IF i \in Reserved(t) THEN NoNode ELSE stack[v][i]]]
    BY <2>1 DEF Copy
  <2> QED
    BY <2>1, <2>2
<1>5. \A u \in Thread \ {t} : pc[u] \in {"reserve", "copy"} =>
        victimId[u] # v /\ victimId[u] \in Thread
  BY <1>0 DEF StackInv, LockOwned, VictimIsOther
<1>6. Reserved(t) = from .. sharedStart[v] - 1 /\ from \in Nat
  BY <1>0, <1>1, <1>2 DEF Reserved
<1>7. \A i \in top[t] .. top[t] + Chunk - 1 :
        /\ from + i - top[t] \in 0 .. stackSize[v] - 1
        /\ from + i - top[t] \in Reserved(t)
  <2>1. /\ from \in Nat /\ from = sharedStart[v] - Chunk /\ Chunk \in Nat
        /\ sharedStart[v] \in Nat /\ stackSize[v] \in Nat /\ sharedStart[v] <= stackSize[v]
    BY <1>0, <1>1, <1>2, <1>6, SMTT(30)
  <2>2. top[t] \in Nat
    BY <1>2
  <2> HIDE DEF from
  <2>3. \A i \in top[t] .. top[t] + Chunk - 1 :
          from + i - top[t] \in from .. sharedStart[v] - 1
    BY ONLY <2>1, <2>2
  <2>4. \A j \in from .. sharedStart[v] - 1 : j \in 0 .. stackSize[v] - 1
    BY ONLY <2>1
  <2> QED
    BY <1>6, <2>3, <2>4
<1>8. \A i \in Reserved(t) : BeingCopied(v, i)
  BY <1>0 DEF BeingCopied
<1>9. \A i \in top[t] .. top[t] + Chunk - 1 : stack[v][from + i - top[t]] # NoNode
  BY <1>0, <1>7, <1>8 DEF StackInv, SlotBySlot
<1>10. VectorTypeOK'
  <2>1. \A i \in top[t] .. top[t] + Chunk - 1 :
          stack[v][from + i - top[t]] \in Node \cup {NoNode}
    BY <1>0, <1>7 DEF VectorTypeOK
  <2>2. stack'[t] \in [0 .. stackSize[t] - 1 -> Node \cup {NoNode}]
    <3>1. \A i \in 0 .. stackSize[t] - 1 :
            (IF i \in top[t] .. top[t] + Chunk - 1
             THEN stack[v][from + i - top[t]] ELSE stack[t][i]) \in Node \cup {NoNode}
      BY <2>1 DEF VectorTypeOK
    <3> QED
      BY <1>4, <3>1
  <2>3. stack'[v] \in [0 .. stackSize[v] - 1 -> Node \cup {NoNode}]
    <3>1. \A i \in 0 .. stackSize[v] - 1 :
            (IF i \in Reserved(t) THEN NoNode ELSE stack[v][i]) \in Node \cup {NoNode}
      BY <1>0 DEF VectorTypeOK
    <3> QED
      BY <1>4, <3>1
  <2>4. \A u \in Thread \ {t, v} : stack'[u] \in [0 .. stackSize[u] - 1 -> Node \cup {NoNode}]
    BY <1>0, <1>4 DEF VectorTypeOK
  <2> QED
    BY <1>0, <1>4, <2>2, <2>3, <2>4 DEF VectorTypeOK
<1>11. StackShape'
  <2>1. top'[t] <= stackSize[t] /\ local[t] <= top'[t]
    BY <1>0, <1>1, <1>2, <1>3
  <2> QED
    BY <1>0, <1>3, <2>1 DEF StackInv, StackShape
<1>12. LockOwned' /\ VictimIsOther'
  <2>1. \A u \in Thread : pc'[u] \in {"reserve", "copy"} => stackLock'[victimId[u]] = u
    BY <1>3, <1>5 DEF StackInv, LockOwned
  <2>2. \A w \in Thread : stackLock'[w] \in Thread =>
          /\ pc'[stackLock'[w]] \in {"reserve", "copy"}
          /\ victimId[stackLock'[w]] = w
    <3> TAKE w \in Thread
    <3> HAVE stackLock'[w] \in Thread
    <3>1. w # v
      BY <1>3 DEF Thread, NoThread
    <3>2. stackLock'[w] = stackLock[w] /\ stackLock[w] # t
      BY <1>0, <1>3, <3>1 DEF StackInv, LockOwned
    <3> QED
      BY <1>3, <3>2 DEF StackInv, LockOwned
  <2>3. VictimIsOther'
    BY <1>0, <1>3 DEF StackInv, VictimIsOther
  <2> QED
    BY <1>0, <2>1, <2>2, <2>3 DEF LockOwned
<1>13. ChunkIsThere'
  <2>1. \A u \in Thread : pc'[u] \in {"reserve", "copy"} => u # t /\ pc'[u] = pc[u]
    BY <1>3
  <2> QED
    BY <1>0, <1>3, <2>1 DEF StackInv, ChunkIsThere
<1>14. SlotBySlot'
  <2>1. \A w, i : BeingCopied(w, i)' <=> w # v /\ BeingCopied(w, i)
    <3>1. \A u \in Thread : pc'[u] = "copy" <=> u # t /\ pc[u] = "copy"
      BY <1>3
    <3> QED
      BY <1>0, <1>5, <3>1 DEF BeingCopied, Reserved
  <2>2. \A i : BeingCopied(v, i) <=> i \in Reserved(t)
    BY <1>0, <1>5 DEF BeingCopied
  <2>3. \A i \in 0 .. stackSize[v] - 1 :
          stack'[v][i] # NoNode <=> i \in Live(v)' \/ BeingCopied(v, i)'
    <3> TAKE i \in 0 .. stackSize[v] - 1
    <3>1. stack[v][i] # NoNode <=> i \in Live(v) \/ i \in Reserved(t)
      BY <1>0, <2>2 DEF StackInv, SlotBySlot
    <3>2. Live(v)' = Live(v)
      BY <1>0, <1>3 DEF Live
    <3>3. i \in Reserved(t) => i \notin Live(v)
      BY <1>0, <1>2, <1>6 DEF Live
    <3>4. stack'[v][i] = IF i \in Reserved(t) THEN NoNode ELSE stack[v][i]
      BY <1>4
    <3>5. ~BeingCopied(v, i)'
      BY <1>0, <2>1
    <3>6. i \in Live(v)' <=> i \in Live(v)
      BY <3>2
    <3> QED
      BY <3>1, <3>3, <3>4, <3>5, <3>6
  <2>4. \A i \in 0 .. stackSize[t] - 1 :
          stack'[t][i] # NoNode <=> i \in Live(t)' \/ BeingCopied(t, i)'
    <3> TAKE i \in 0 .. stackSize[t] - 1
    <3>1. stack[t][i] # NoNode <=> i \in Live(t) \/ BeingCopied(t, i)
      BY <1>0 DEF StackInv, SlotBySlot
    <3>2. Live(t)' = top[t] .. top[t] + Chunk - 1 /\ Live(t) = {}
      BY <1>0, <1>1, <1>2, <1>3 DEF Live
    <3>3. BeingCopied(t, i)' <=> BeingCopied(t, i)
      BY <1>0, <2>1
    <3>4. stack'[t][i] = IF i \in Live(t)' THEN stack[v][from + i - top[t]] ELSE stack[t][i]
      BY <1>4, <3>2
    <3>5. i \in Live(t)' => stack[v][from + i - top[t]] # NoNode
      BY <1>9, <3>2
    <3> QED
      BY <3>1, <3>2, <3>3, <3>4, <3>5
  <2>5. \A w \in Thread \ {t, v} : \A i \in 0 .. stackSize[w] - 1 :
          stack'[w][i] # NoNode <=> i \in Live(w)' \/ BeingCopied(w, i)'
    BY <1>0, <1>3, <1>4, <2>1 DEF StackInv, SlotBySlot, Live
  <2> QED
    BY <1>0, <2>3, <2>4, <2>5 DEF SlotBySlot
<1>15. IndexTypeOK'
  <2>1. top[t] + Chunk \in Nat /\ NoThread \in Thread \cup {NoThread}
    BY <1>1, <1>2
  <2> QED
    BY <1>0, <2>1 DEF IndexTypeOK
<1>16. ThreadTypeOK' /\ SharedTypeOK'
  BY <1>0 DEF ThreadTypeOK, SharedTypeOK, Copy, Labels, barrierVars, searchVars, testVars, runVars
<1> QED
  BY <1>10, <1>11, <1>12, <1>13, <1>14, <1>15, <1>16 DEF StackInv

-----------------------------------------------------------------------------
(* The barrier's count *)

Waiting == {t \in Thread : pc[t] \in AtBarrier}

\* A set of threads has at most N members, and N only if it has all.
LEMMA ThreadSet ==
    ASSUME NEW S \in SUBSET Thread
    PROVE  /\ IsFiniteSet(S)
           /\ Cardinality(S) \in 0 .. N
           /\ Cardinality(S) = N => S = Thread
<1>1. IsFiniteSet(Thread) /\ Cardinality(Thread) = N
  <2>1. 0 \in Int /\ N - 1 \in Int /\ ~(0 > N - 1) /\ (N - 1) - 0 + 1 = N
    BY SizesAssumption
  <2> QED
    BY <2>1, FS_Interval DEF Thread
<1>2. /\ IsFiniteSet(S) /\ Cardinality(S) <= N
      /\ N = Cardinality(S) => Thread = S
  BY <1>1, FS_Subset
<1>3. Cardinality(S) \in Nat
  BY <1>2, FS_CardinalityType
<1> QED
  BY <1>2, <1>3, SizesAssumption

\* In particular the set of those at the barrier.
LEMMA WaitingIsFinite ==
    /\ IsFiniteSet(Waiting)
    /\ Cardinality(Waiting) \in 0 .. N
    /\ Cardinality(Waiting) = N => Waiting = Thread
BY ThreadSet DEF Waiting

\* cb_count never exceeds the number of threads.
LEMMA CountInRange ==
    ASSUME CountIsRight'
    PROVE  cb_count' \in 0 .. N
<1>1. Cardinality({u \in Thread : pc'[u] \in AtBarrier}) \in 0 .. N
  BY ThreadSet
<1> QED
  BY <1>1 DEF CountIsRight

\* A step that takes its thread neither into nor out of the barrier.
LEMMA CountSame ==
    ASSUME CountIsRight, cb_count' = cb_count,
           \A u \in Thread : pc'[u] \in AtBarrier <=> pc[u] \in AtBarrier
    PROVE  CountIsRight'
<1>1. {u \in Thread : pc'[u] \in AtBarrier} = {u \in Thread : pc[u] \in AtBarrier}
  OBVIOUS
<1> QED
  BY <1>1 DEF CountIsRight

\* A thread that arrives at the barrier is counted ...
LEMMA ArriveCounts ==
    ASSUME CountIsRight, ThreadTypeOK, NEW t \in Thread, Arrive(t)
    PROVE  CountIsRight'
<1>1. /\ cb_count' = cb_count + 1 /\ pc' = [pc EXCEPT ![t] = "check"] /\ pc[t] = "find"
      /\ pc \in [Thread -> Labels]
  BY DEF Arrive, NothingFound, At, Goto, ThreadTypeOK
<1>2. {u \in Thread : pc'[u] \in AtBarrier} = Waiting \cup {t} /\ t \notin Waiting
  BY <1>1 DEF Waiting, AtBarrier
<1>3. Cardinality(Waiting \cup {t}) = Cardinality(Waiting) + 1
  BY <1>2, WaitingIsFinite, FS_AddElement
<1> QED
  BY <1>1, <1>2, <1>3 DEF CountIsRight, Waiting

\* ... and one that leaves it is counted out.
LEMMA LeaveCounts ==
    ASSUME CountIsRight, ThreadTypeOK, NEW t \in Thread, Leave(t)
    PROVE  CountIsRight'
<1>1. /\ cb_count' = cb_count - 1 /\ pc' = [pc EXCEPT ![t] = "clear"] /\ pc[t] = "leave"
      /\ pc \in [Thread -> Labels]
  BY DEF Leave, At, Goto, ThreadTypeOK
<1>2. {u \in Thread : pc'[u] \in AtBarrier} = Waiting \ {t} /\ t \in Waiting
  BY <1>1 DEF Waiting, AtBarrier
<1>3. Cardinality(Waiting \ {t}) = Cardinality(Waiting) - 1
  BY <1>2, WaitingIsFinite, FS_RemoveElement
<1> QED
  BY <1>1, <1>2, <1>3 DEF CountIsRight, Waiting

-----------------------------------------------------------------------------
(* The steps that leave the stacks alone *)

\* A step that moves one thread and no stack.
LEMMA QuietStep ==
    ASSUME IInv, UNCHANGED stackVars, UNCHANGED victimId,
           NEW t \in Thread, NEW l \in Labels \ {"steal", "reserve", "copy"},
           pc[t] \notin {"reserve", "copy"}, pc' = [pc EXCEPT ![t] = l]
    PROVE  IndexTypeOK' /\ VectorTypeOK' /\ StackInv'
<1>1. victimId' = [victimId EXCEPT ![t] = victimId[t]] /\ victimId[t] \in Thread \cup {NoThread}
  BY DEF IInv, TypeOK, ThreadTypeOK
<1>2. IndexTypeOK /\ ThreadTypeOK /\ VectorTypeOK /\ StackInv
  BY DEF IInv, TypeOK
<1>3. StackInv'
  BY <1>1, <1>2, ControlStep
<1>4. IndexTypeOK' /\ VectorTypeOK'
  BY <1>2 DEF IndexTypeOK, VectorTypeOK, stackVars
<1> QED
  BY <1>3, <1>4

\* The steps of a thread that change neither a stack nor its victim.
ControlActions(t) ==
    \/ Examine(t) \/ Cancel(t) \/ Cut(t) \/ CutCancel(t)
    \/ Throw(t) \/ ThrowDone(t) \/ ThrowCancel(t) \/ FindLocal(t)
    \/ Arrive(t) \/ Check(t) \/ SetDone(t) \/ Spin(t) \/ Leave(t) \/ Clear(t)
    \/ Result(t)

\* The steps of the control are of this kind.
LEMMA ControlIsQuiet ==
    ASSUME NEW t \in Thread, ControlActions(t)
    PROVE  /\ UNCHANGED stackVars /\ UNCHANGED victimId
           /\ pc[t] \notin {"reserve", "copy"}
           /\ \E l \in Labels \ {"steal", "reserve", "copy"} : pc' = [pc EXCEPT ![t] = l]
<1> USE DEF At, Goto, searchVars, Labels
<1>1. CASE Examine(t)
  BY <1>1 DEF Examine, Examining
<1>2. CASE Cancel(t)
  BY <1>2 DEF Cancel
<1>3. CASE Cut(t)
  BY <1>3 DEF Cut, Examining
<1>4. CASE CutCancel(t)
  BY <1>4 DEF CutCancel
<1>5. CASE Throw(t)
  BY <1>5 DEF Throw, Examining
<1>6. CASE ThrowDone(t)
  BY <1>6 DEF ThrowDone
<1>7. CASE ThrowCancel(t)
  BY <1>7 DEF ThrowCancel
<1>8. CASE FindLocal(t)
  BY <1>8 DEF FindLocal
<1>9. CASE Arrive(t)
  BY <1>9 DEF Arrive, NothingFound
<1>10. CASE Check(t)
  <2>1. CASE cb_count = N
    BY <1>10, <2>1 DEF Check
  <2>2. CASE cb_count # N
    BY <1>10, <2>2 DEF Check
  <2> QED
    BY <2>1, <2>2
<1>11. CASE SetDone(t)
  BY <1>11 DEF SetDone
<1>12. CASE Spin(t)
  BY <1>12 DEF Spin
<1>13. CASE Leave(t)
  BY <1>13 DEF Leave
<1>14. CASE Clear(t)
  BY <1>14 DEF Clear
<1>15. CASE Result(t)
  <2>1. CASE cb_done
    BY <1>15, <2>1 DEF Result
  <2>2. CASE ~cb_done
    BY <1>15, <2>2 DEF Result
  <2> QED
    BY <2>1, <2>2
<1> QED
  BY <1>1, <1>2, <1>3, <1>4, <1>5, <1>6, <1>7, <1>8, <1>9, <1>10, <1>11, <1>12,
     <1>13, <1>14, <1>15 DEF ControlActions

\* They keep the barrier's count right,
LEMMA ControlKeepsCount ==
    ASSUME IInv, NEW t \in Thread, ControlActions(t)
    PROVE  CountIsRight'
<1> USE DEF IInv, TypeOK
<1>0. CountIsRight /\ ThreadTypeOK /\ pc \in [Thread -> Labels]
  BY DEF ThreadTypeOK
<1>1. CASE Arrive(t)
  BY <1>0, <1>1, ArriveCounts
<1>2. CASE Leave(t)
  BY <1>0, <1>2, LeaveCounts
<1>3. ASSUME NEW l, pc' = [pc EXCEPT ![t] = l], cb_count' = cb_count,
             l \in AtBarrier <=> pc[t] \in AtBarrier
      PROVE  CountIsRight'
  <2>1. \A u \in Thread : pc'[u] \in AtBarrier <=> pc[u] \in AtBarrier
    BY <1>0, <1>3
  <2> QED
    BY <1>0, <1>3, <2>1, CountSame
<1> USE DEF At, Goto, AtBarrier
<1>4. CASE Examine(t)
  BY <1>3, <1>4 DEF Examine, Examining, barrierVars
<1>5. CASE Cancel(t)
  BY <1>3, <1>5 DEF Cancel
<1>6. CASE Cut(t)
  BY <1>3, <1>6 DEF Cut, Examining
<1>7. CASE CutCancel(t)
  BY <1>3, <1>7 DEF CutCancel
<1>8. CASE Throw(t)
  BY <1>3, <1>8 DEF Throw, Examining, barrierVars
<1>9. CASE ThrowDone(t)
  BY <1>3, <1>9 DEF ThrowDone
<1>10. CASE ThrowCancel(t)
  BY <1>3, <1>10 DEF ThrowCancel
<1>11. CASE FindLocal(t)
  BY <1>3, <1>11 DEF FindLocal, barrierVars
<1>12. CASE Check(t)
  <2>1. CASE cb_count = N
    BY <1>3, <1>12, <2>1 DEF Check, barrierVars
  <2>2. CASE cb_count # N
    BY <1>3, <1>12, <2>2 DEF Check, barrierVars
  <2> QED
    BY <2>1, <2>2
<1>13. CASE SetDone(t)
  BY <1>3, <1>13 DEF SetDone
<1>14. CASE Spin(t)
  BY <1>3, <1>14 DEF Spin, barrierVars
<1>15. CASE Clear(t)
  BY <1>3, <1>15 DEF Clear
<1>16. CASE Result(t)
  <2>1. CASE cb_done
    BY <1>3, <1>16, <2>1 DEF Result, barrierVars
  <2>2. CASE ~cb_done
    BY <1>3, <1>16, <2>2 DEF Result, barrierVars
  <2> QED
    BY <2>1, <2>2
<1> QED
  BY <1>1, <1>2, <1>4, <1>5, <1>6, <1>7, <1>8, <1>9, <1>10, <1>11, <1>12,
     <1>13, <1>14, <1>15, <1>16 DEF ControlActions

\* and the types,
LEMMA ControlKeepsTypes ==
    ASSUME IInv, NEW t \in Thread, ControlActions(t), cb_count' \in 0 .. N
    PROVE  ThreadTypeOK' /\ SharedTypeOK'
<1> USE DEF IInv, TypeOK
<1>0. ThreadTypeOK /\ SharedTypeOK /\ IndexTypeOK /\ pc \in [Thread -> Labels]
  BY DEF ThreadTypeOK
<1>1. pc' \in [Thread -> Labels] /\ victimId' = victimId
  <2>1. PICK l \in Labels : pc' = [pc EXCEPT ![t] = l]
    BY ControlIsQuiet
  <2> QED
    BY <1>0, <2>1, ControlIsQuiet
<1> USE DEF ThreadTypeOK, SharedTypeOK, barrierVars, searchVars, testVars, runVars
<1>2. CASE Examine(t)
  <2>1. nNodes' \in [Thread -> Nat]
    BY <1>0, <1>2 DEF Examine, Count
  <2> QED
    BY <1>0, <1>1, <1>2, <2>1 DEF Examine
<1>3. CASE Cancel(t)
  BY <1>0, <1>1, <1>3 DEF Cancel
<1>4. CASE Cut(t)
  BY <1>0, <1>1, <1>4 DEF Cut
<1>5. CASE CutCancel(t)
  BY <1>0, <1>1, <1>5 DEF CutCancel
<1>6. CASE Throw(t)
  BY <1>0, <1>1, <1>6 DEF Throw
<1>7. CASE ThrowDone(t)
  BY <1>0, <1>1, <1>7 DEF ThrowDone
<1>8. CASE ThrowCancel(t)
  BY <1>0, <1>1, <1>8 DEF ThrowCancel
<1>9. CASE FindLocal(t)
  <2>1. local[Candidate(t)] \in Nat
    <3>1. t + scan[t] \in Int /\ N \in Nat \ {0}
      BY <1>0, SizesAssumption DEF Thread
    <3>2. Candidate(t) \in Thread
      BY <3>1, DivMod DEF Candidate, Thread
    <3> QED
      BY <1>0, <3>2 DEF IndexTypeOK
  <2> QED
    BY <1>0, <1>1, <1>9, <2>1 DEF FindLocal
<1>10. CASE Arrive(t)
  BY <1>0, <1>1, <1>10 DEF Arrive
<1>11. CASE Check(t)
  BY <1>0, <1>1, <1>11 DEF Check
<1>12. CASE SetDone(t)
  BY <1>0, <1>1, <1>12 DEF SetDone
<1>13. CASE Spin(t)
  BY <1>0, <1>1, <1>13 DEF Spin
<1>14. CASE Leave(t)
  BY <1>0, <1>1, <1>14 DEF Leave
<1>15. CASE Clear(t)
  BY <1>0, <1>1, <1>15 DEF Clear
<1>16. CASE Result(t)
  BY <1>0, <1>1, <1>16 DEF Result
<1> QED
  BY <1>2, <1>3, <1>4, <1>5, <1>6, <1>7, <1>8, <1>9, <1>10, <1>11, <1>12,
     <1>13, <1>14, <1>15, <1>16 DEF ControlActions

\* and with these the shape of the stacks.
LEMMA ControlKeeps ==
    ASSUME IInv, NEW t \in Thread, ControlActions(t)
    PROVE  TypeOK' /\ StackInv'
<1>1. cb_count' \in 0 .. N
  BY ControlKeepsCount, CountInRange
<1>2. ThreadTypeOK' /\ SharedTypeOK'
  BY <1>1, ControlKeepsTypes
<1>3. /\ UNCHANGED stackVars /\ UNCHANGED victimId
      /\ pc[t] \notin {"reserve", "copy"}
      /\ \E l \in Labels \ {"steal", "reserve", "copy"} : pc' = [pc EXCEPT ![t] = l]
  BY ControlIsQuiet
<1>4. PICK l \in Labels \ {"steal", "reserve", "copy"} : pc' = [pc EXCEPT ![t] = l]
  BY <1>3
<1>5. IndexTypeOK' /\ VectorTypeOK' /\ StackInv'
  BY <1>3, <1>4, QuietStep
<1> QED
  BY <1>2, <1>5 DEF TypeOK

\* The second unlocked look at a victim chooses another thread.
LEMMA FindSharedKeeps ==
    ASSUME IInv, NEW t \in Thread, FindShared(t)
    PROVE  TypeOK' /\ StackInv'
<1>0. /\ IndexTypeOK /\ ThreadTypeOK /\ VectorTypeOK /\ SharedTypeOK /\ StackInv
      /\ pc[t] = "find_shared" /\ scan[t] \in 1 .. N - 1 /\ UNCHANGED stackVars
  BY SizesAssumption DEF IInv, TypeOK, ThreadTypeOK, PlaceInv, ScanInRange, FindShared, At
<1>1. Candidate(t) \in Thread \ {t}
  BY <1>0, CandidateIsOther
<1>2. IndexTypeOK' /\ VectorTypeOK'
  BY <1>0 DEF IndexTypeOK, VectorTypeOK, stackVars
<1>3. CASE seenLocal[t] - sharedStart[Candidate(t)] >= Chunk
  <2>1. /\ victimId' = [victimId EXCEPT ![t] = Candidate(t)]
        /\ pc' = [pc EXCEPT ![t] = "steal"] /\ scan' = scan
        /\ seenLocal' = [seenLocal EXCEPT ![t] = 0]
    BY <1>3 DEF FindShared, Goto
  <2>2. "steal" \in Labels \ {"reserve", "copy"} /\ Candidate(t) \in Thread \cup {NoThread}
    BY <1>1 DEF Labels
  <2>3. StackInv'
    BY <1>0, <1>1, <2>1, <2>2, ControlStep
  <2>4. ThreadTypeOK' /\ SharedTypeOK'
    BY <1>0, <2>1, <2>2 DEF ThreadTypeOK, SharedTypeOK, FindShared, barrierVars, testVars, runVars
  <2> QED
    BY <1>2, <2>3, <2>4 DEF TypeOK
<1>4. CASE ~(seenLocal[t] - sharedStart[Candidate(t)] >= Chunk)
  <2>1. /\ victimId' = victimId /\ scan' = [scan EXCEPT ![t] = scan[t] + 1]
        /\ pc' = [pc EXCEPT ![t] = "find"] /\ seenLocal' = [seenLocal EXCEPT ![t] = 0]
    BY <1>4 DEF FindShared, Goto
  <2>2. "find" \in Labels \ {"steal", "reserve", "copy"}
    BY DEF Labels
  <2>3. StackInv'
    BY <1>0, <2>1, <2>2, QuietStep
  <2>4. ThreadTypeOK' /\ SharedTypeOK'
    <3>1. scan[t] + 1 \in 1 .. N
      BY <1>0, SizesAssumption
    <3> QED
      BY <1>0, <2>1, <2>2, <3>1
         DEF ThreadTypeOK, SharedTypeOK, FindShared, barrierVars, testVars, runVars
  <2> QED
    BY <1>2, <2>3, <2>4 DEF TypeOK
<1> QED
  BY <1>3, <1>4

\* The two places where a stack grows.
LEMMA GrowthKeeps ==
    ASSUME IInv, NEW t \in Thread, GrowToExpand(t) \/ GrowToSteal(t)
    PROVE  TypeOK' /\ StackInv'
<1>1. /\ ss_growStackSize(t) /\ pc' = pc /\ pc[t] \notin {"reserve", "copy"}
      /\ victimId' = victimId
  BY DEF GrowToExpand, GrowToSteal, At, searchVars
<1>2. IndexTypeOK' /\ VectorTypeOK' /\ StackInv'
  BY <1>1, GrowKeeps
<1>3. ThreadTypeOK' /\ SharedTypeOK'
  BY <1>1 DEF IInv, TypeOK, ThreadTypeOK, SharedTypeOK, GrowToExpand, GrowToSteal,
              barrierVars, searchVars, testVars, runVars
<1> QED
  BY <1>2, <1>3 DEF TypeOK

\* The caller's steps.
LEMMA CallerKeeps ==
    ASSUME IInv, Join \/ Finish
    PROVE  TypeOK' /\ StackInv'
<1> USE DEF IInv, TypeOK
<1>1. UNCHANGED <<stackVars, pc, victimId>>
  BY DEF Join, Finish, searchVars
<1>2. IndexTypeOK' /\ VectorTypeOK'
  BY <1>1 DEF IndexTypeOK, VectorTypeOK, stackVars
<1>3. \A v, i : BeingCopied(v, i)' <=> BeingCopied(v, i)
  BY <1>1 DEF BeingCopied, Reserved, stackVars
<1>4. StackInv'
  BY <1>1, <1>3 DEF StackInv, StackShape, LockOwned, VictimIsOther, ChunkIsThere,
                    SlotBySlot, Live, stackVars
<1>5. ThreadTypeOK'
  BY DEF ThreadTypeOK, Join, Finish, searchVars, testVars
<1>6. SharedTypeOK'
  <2>1. CASE Join
    <3>1. joined \in 0 .. N /\ joined < N
      BY <2>1 DEF Join, SharedTypeOK
    <3>2. joined + 1 \in 0 .. N /\ joined \in Thread
      BY <3>1, SizesAssumption DEF Thread
    <3>3. rr' \in SUBSET Node
      BY <2>1, <3>2 DEF Join, SharedTypeOK, ThreadTypeOK
    <3> QED
      BY <2>1, <3>2, <3>3 DEF Join, SharedTypeOK, barrierVars
  <2>2. CASE Finish
    BY <2>2 DEF Finish, SharedTypeOK, barrierVars
  <2> QED
    BY <2>1, <2>2
<1> QED
  BY <1>2, <1>4, <1>5, <1>6

\* Every step keeps the types and the shape of the stacks.
LEMMA StackStep ==
    ASSUME IInv, Next
    PROVE  TypeOK' /\ StackInv'
<1>1. CASE Join \/ Finish
  BY <1>1, CallerKeeps
<1>2. ASSUME NEW t \in Thread, ThreadStep(t)
      PROVE  TypeOK' /\ StackInv'
  BY <1>2, ControlKeeps, StartKeeps, PopKeeps, GrowthKeeps, ExpandKeeps, CutEmptyKeeps,
     AcquireKeeps, FindSharedKeeps, LockVictimKeeps, ReserveKeeps, CopyKeeps
     DEF ThreadStep, ControlActions
<1> QED
  BY <1>1, <1>2 DEF Next

\* Every step keeps the barrier's count right.
LEMMA CountStep ==
    ASSUME IInv, Next
    PROVE  CountIsRight'
<1> USE DEF IInv, TypeOK
<1>0. CountIsRight /\ pc \in [Thread -> Labels]
  BY DEF ThreadTypeOK
<1>1. CASE Join \/ Finish
  <2>1. pc' = pc /\ cb_count' = cb_count
    BY <1>1 DEF Join, Finish, barrierVars
  <2> QED
    BY <1>0, <2>1, CountSame
<1>2. ASSUME NEW t \in Thread, ThreadStep(t)
      PROVE  CountIsRight'
  <2>1. CASE ControlActions(t)
    BY <2>1, ControlKeepsCount
  <2>2. ASSUME NEW l, pc' = [pc EXCEPT ![t] = l], cb_count' = cb_count,
               l \notin AtBarrier, pc[t] \notin AtBarrier
        PROVE  CountIsRight'
    <3>1. \A u \in Thread : pc'[u] \in AtBarrier <=> pc[u] \in AtBarrier
      BY <1>0, <2>2
    <3> QED
      BY <1>0, <2>2, <3>1, CountSame
  <2>3. ASSUME pc' = pc, cb_count' = cb_count
        PROVE  CountIsRight'
    BY <1>0, <2>3, CountSame
  <2> USE DEF At, Goto, AtBarrier, barrierVars
  <2>4. CASE Start(t)
    BY <2>2, <2>4 DEF Start
  <2>5. CASE SolveInPlace(t)
    BY <2>3, <2>5 DEF SolveInPlace
  <2>6. CASE GrowToExpand(t)
    BY <2>3, <2>6 DEF GrowToExpand
  <2>7. CASE Expand(t)
    <3>1. pc' = [pc EXCEPT ![t] = "cancel"] \/ pc' = [pc EXCEPT ![t] = "work"]
      BY <2>7 DEF Expand
    <3>2. cb_count' = cb_count /\ pc[t] = "expand"
      BY <2>7 DEF Expand
    <3> QED
      BY <2>2, <3>1, <3>2
  <2>8. CASE CutEmpty(t)
    BY <2>2, <2>8 DEF CutEmpty
  <2>9. CASE Acquire(t)
    <3>1. CASE local[t] - sharedStart[t] >= Chunk
      BY <2>3, <2>9, <3>1 DEF Acquire
    <3>2. CASE ~(local[t] - sharedStart[t] >= Chunk)
      BY <2>2, <2>9, <3>2 DEF Acquire
    <3> QED
      BY <3>1, <3>2
  <2>10. CASE FindShared(t)
    <3>1. CASE seenLocal[t] - sharedStart[Candidate(t)] >= Chunk
      BY <2>2, <2>10, <3>1 DEF FindShared
    <3>2. CASE ~(seenLocal[t] - sharedStart[Candidate(t)] >= Chunk)
      BY <2>2, <2>10, <3>2 DEF FindShared
    <3> QED
      BY <3>1, <3>2
  <2>11. CASE GrowToSteal(t)
    BY <2>3, <2>11 DEF GrowToSteal
  <2>12. CASE LockVictim(t)
    <3>1. CASE local[victimId[t]] - sharedStart[victimId[t]] >= Chunk
      BY <2>2, <2>12, <3>1 DEF LockVictim
    <3>2. CASE ~(local[victimId[t]] - sharedStart[victimId[t]] >= Chunk)
      BY <2>2, <2>12, <3>2 DEF LockVictim
    <3> QED
      BY <3>1, <3>2
  <2>13. CASE Reserve(t)
    BY <2>2, <2>13 DEF Reserve
  <2>14. CASE Copy(t)
    BY <2>2, <2>14 DEF Copy
  <2> QED
    BY <1>2, <2>1, <2>4, <2>5, <2>6, <2>7, <2>8, <2>9, <2>10, <2>11, <2>12,
       <2>13, <2>14 DEF ThreadStep, ControlActions
<1> QED
  BY <1>1, <1>2 DEF Next

-----------------------------------------------------------------------------
(* What a thread's place in its program says of its stack *)

\* A thread's own step leaves the place of the others as it was.
LEMMA PlaceOwn ==
    ASSUME PlaceInv, NEW t \in Thread,
           \A u \in Thread \ {t} :
             /\ pc'[u] = pc[u] /\ stack'[u] = stack[u] /\ sharedStart'[u] = sharedStart[u]
             /\ local'[u] = local[u] /\ top'[u] = top[u] /\ scan'[u] = scan[u],
           pc'[t] \in EmptyLabels => sharedStart'[t] = top'[t],
           pc'[t] = "start" => top'[t] = 0,
           pc'[t] = "expand" =>
             local'[t] < top'[t] /\ Children[stack'[t][top'[t] - 1]] # <<>>,
           pc'[t] = "find_shared" => scan'[t] < N
    PROVE  PlaceInv'
<1>1. EmptyWhenIdle'
  BY DEF PlaceInv, EmptyWhenIdle
<1>2. ExpandIsReady'
  BY DEF PlaceInv, ExpandIsReady, TopNode
<1>3. ScanInRange'
  BY DEF PlaceInv, ScanInRange
<1> QED
  BY <1>1, <1>2, <1>3 DEF PlaceInv

\* The steps of the control keep threads where PlaceInv says.
LEMMA ControlPlaces ==
    ASSUME NEW t \in Thread, ControlActions(t), pc \in [Thread -> Labels]
    PROVE  /\ pc'[t] \in EmptyLabels => pc[t] \in EmptyLabels
           /\ pc'[t] # "start" /\ scan' = scan
           /\ pc'[t] = "expand" => ss_localDepth(t) > 0 /\ Children[TopNode(t)] # <<>>
           /\ pc'[t] = "find_shared" => scan[t] < N
<1> USE DEF At, Goto, EmptyLabels, searchVars
<1>1. CASE Examine(t)
  BY <1>1 DEF Examine, Examining
<1>2. CASE Cancel(t)
  BY <1>2 DEF Cancel
<1>3. CASE Cut(t)
  BY <1>3 DEF Cut, Examining
<1>4. CASE CutCancel(t)
  BY <1>4 DEF CutCancel
<1>5. CASE Throw(t)
  BY <1>5 DEF Throw, Examining
<1>6. CASE ThrowDone(t)
  BY <1>6 DEF ThrowDone
<1>7. CASE ThrowCancel(t)
  BY <1>7 DEF ThrowCancel
<1>8. CASE FindLocal(t)
  BY <1>8 DEF FindLocal
<1>9. CASE Arrive(t)
  BY <1>9 DEF Arrive, NothingFound
<1>10. CASE Check(t)
  BY <1>10 DEF Check
<1>11. CASE SetDone(t)
  BY <1>11 DEF SetDone
<1>12. CASE Spin(t)
  BY <1>12 DEF Spin
<1>13. CASE Leave(t)
  BY <1>13 DEF Leave
<1>14. CASE Clear(t)
  BY <1>14 DEF Clear
<1>15. CASE Result(t)
  BY <1>15 DEF Result
<1> QED
  BY <1>1, <1>2, <1>3, <1>4, <1>5, <1>6, <1>7, <1>8, <1>9, <1>10, <1>11, <1>12,
     <1>13, <1>14, <1>15 DEF ControlActions

\* Every step keeps threads where PlaceInv says.
LEMMA PlaceStep ==
    ASSUME IInv, Next
    PROVE  PlaceInv'
<1> USE DEF IInv, TypeOK
<1>0. /\ PlaceInv /\ pc \in [Thread -> Labels] /\ IndexTypeOK /\ ThreadTypeOK /\ VectorTypeOK
      /\ \A u \in Thread :
           /\ sharedStart[u] \in Nat /\ local[u] \in Nat /\ top[u] \in Nat
           /\ sharedStart[u] <= local[u] /\ local[u] <= top[u] /\ top[u] <= stackSize[u]
  BY DEF ThreadTypeOK, IndexTypeOK, StackInv, StackShape
<1>1. CASE Join \/ Finish
  <2>1. UNCHANGED <<pc, stack, sharedStart, local, top, scan>>
    BY <1>1 DEF Join, Finish, stackVars, searchVars
  <2> QED
    BY <2>1 DEF PlaceInv, EmptyWhenIdle, ExpandIsReady, ScanInRange, TopNode
<1>2. ASSUME NEW t \in Thread, ThreadStep(t)
      PROVE  PlaceInv'
  <2>1. CASE ControlActions(t)
    <3>1. UNCHANGED <<stack, sharedStart, local, top>>
      BY <2>1, ControlIsQuiet DEF stackVars
    <3>2. \A u \in Thread \ {t} : pc'[u] = pc[u]
      BY <1>0, <2>1, ControlIsQuiet
    <3>3. /\ pc'[t] \in EmptyLabels => pc[t] \in EmptyLabels
          /\ pc'[t] # "start" /\ scan' = scan
          /\ pc'[t] = "expand" => ss_localDepth(t) > 0 /\ Children[TopNode(t)] # <<>>
          /\ pc'[t] = "find_shared" => scan[t] < N
      BY <1>0, <2>1, ControlPlaces
    <3>4. pc'[t] \in EmptyLabels => sharedStart'[t] = top'[t]
      BY <3>1, <3>3 DEF PlaceInv, EmptyWhenIdle
    <3>5. ss_localDepth(t) > 0 => local[t] < top[t]
      BY <1>0 DEF ss_localDepth
    <3>6. pc'[t] = "expand" =>
            local'[t] < top'[t] /\ Children[stack'[t][top'[t] - 1]] # <<>>
      BY <3>1, <3>3, <3>5 DEF TopNode
    <3> QED
      BY <1>0, <3>1, <3>2, <3>3, <3>4, <3>6, PlaceOwn
  \* A step of t on its own stack after which it is somewhere unassuming.
  <2>2. ASSUME \A u \in Thread \ {t} :
                 /\ stack'[u] = stack[u] /\ sharedStart'[u] = sharedStart[u]
                 /\ local'[u] = local[u] /\ top'[u] = top[u] /\ scan'[u] = scan[u],
               NEW l \in {"work", "cancel"}, pc' = [pc EXCEPT ![t] = l]
        PROVE  PlaceInv'
    <3>1. /\ pc'[t] \notin EmptyLabels /\ pc'[t] \notin {"start", "expand", "find_shared"}
          /\ \A u \in Thread \ {t} : pc'[u] = pc[u]
      BY <1>0, <2>2 DEF EmptyLabels
    <3> QED
      BY <1>0, <2>2, <3>1, PlaceOwn
  \* A step of t that leaves every stack alone and goes on with an empty one.
  <2>3. ASSUME UNCHANGED <<stack, sharedStart, top>>,
               \A u \in Thread \ {t} : local'[u] = local[u] /\ scan'[u] = scan[u],
               NEW l \in {"find", "steal", "reserve"}, pc' = [pc EXCEPT ![t] = l],
               sharedStart[t] = top[t]
        PROVE  PlaceInv'
    <3>1. /\ pc'[t] \notin {"start", "expand", "find_shared"}
          /\ \A u \in Thread \ {t} : pc'[u] = pc[u]
      BY <1>0, <2>3
    <3> QED
      BY <1>0, <2>3, <3>1, PlaceOwn
  <2> USE DEF At, Goto, searchVars
  <2>4. CASE Start(t)
    <3>1. /\ stack' = IF t = 0 THEN [stack EXCEPT ![0][top[0]] = Root] ELSE stack
          /\ top' = IF t = 0 THEN [top EXCEPT ![0] = @ + 1] ELSE top
          /\ UNCHANGED <<sharedStart, local, scan>> /\ pc' = [pc EXCEPT ![t] = "work"]
      BY <2>4 DEF Start
    <3>2. \A u \in Thread \ {t} : stack'[u] = stack[u] /\ top'[u] = top[u]
      BY <1>0, <3>1 DEF IndexTypeOK, VectorTypeOK
    <3> QED
      BY <2>2, <3>1, <3>2
  <2>5. CASE SolveInPlace(t)
    <3>1. /\ stack' = [stack EXCEPT ![t][top[t] - 1] = NoNode]
          /\ top' = [top EXCEPT ![t] = @ - 1]
          /\ UNCHANGED <<sharedStart, local, scan, pc>> /\ pc[t] = "work"
      BY <2>5 DEF SolveInPlace, ss_pop, Examining
    <3>2. \A u \in Thread \ {t} : stack'[u] = stack[u] /\ top'[u] = top[u]
      BY <1>0, <3>1 DEF IndexTypeOK, VectorTypeOK
    <3>3. pc' = [pc EXCEPT ![t] = "work"]
      BY <1>0, <3>1
    <3> QED
      BY <2>2, <3>1, <3>2, <3>3
  <2>7. CASE Expand(t)
    <3>1. pc' = [pc EXCEPT ![t] = "cancel"] \/ pc' = [pc EXCEPT ![t] = "work"]
      BY <2>7 DEF Expand
    <3>2. /\ \A u \in Thread \ {t} : stack'[u] = stack[u]
          /\ \A u \in Thread \ {t} : local'[u] = local[u]
          /\ \A u \in Thread \ {t} : top'[u] = top[u]
          /\ UNCHANGED <<sharedStart, scan>>
      BY <1>0, <2>7 DEF Expand, IndexTypeOK, VectorTypeOK
    <3> QED
      BY <2>2, <3>1, <3>2
  <2>8. CASE CutEmpty(t)
    <3>1. \A u \in Thread \ {t} :
            /\ stack'[u] = stack[u] /\ sharedStart'[u] = sharedStart[u]
            /\ local'[u] = local[u] /\ top'[u] = top[u] /\ scan'[u] = scan[u]
      BY <1>0, <2>8 DEF CutEmpty, IndexTypeOK, VectorTypeOK
    <3> QED
      BY <2>2, <2>8, <3>1 DEF CutEmpty
  <2>9. CASE Acquire(t)
    <3>1. CASE local[t] - sharedStart[t] >= Chunk
      <4>1. /\ local' = [local EXCEPT ![t] = @ - Chunk] /\ pc' = pc /\ pc[t] = "work"
            /\ UNCHANGED <<stack, sharedStart, top, scan>>
        BY <2>9, <3>1 DEF Acquire
      <4>2. pc' = [pc EXCEPT ![t] = "work"] /\ \A u \in Thread \ {t} : local'[u] = local[u]
        BY <1>0, <4>1 DEF IndexTypeOK
      <4> QED
        BY <2>2, <4>1, <4>2
    <3>2. CASE ~(local[t] - sharedStart[t] >= Chunk)
      <4>1. /\ pc' = [pc EXCEPT ![t] = "find"] /\ scan' = [scan EXCEPT ![t] = 1]
            /\ UNCHANGED <<stack, sharedStart, top, local>> /\ ss_localDepth(t) <= 0
        BY <2>9, <3>2 DEF Acquire
      <4>2. local[t] = top[t]
        BY <1>0, <4>1 DEF ss_localDepth
      <4>3. local[t] - sharedStart[t] \in Nat /\ local[t] - sharedStart[t] < Chunk
        BY <1>0, <3>2, SizesAssumption
      <4>4. local[t] - sharedStart[t] = 0
        <5>1. (local[t] - sharedStart[t]) % Chunk = 0
          BY DEF StackInv, StackShape
        <5> QED
          BY <4>3, <5>1, ModSmall, SizesAssumption
      <4>5. sharedStart[t] = top[t]
        BY <1>0, <4>2, <4>4
      <4>6. \A u \in Thread \ {t} : scan'[u] = scan[u]
        BY <1>0, <4>1 DEF ThreadTypeOK
      <4> QED
        BY <2>3, <4>1, <4>5, <4>6
    <3> QED
      BY <3>1, <3>2
  <2>10. CASE FindShared(t)
    <3>1. pc[t] = "find_shared" /\ UNCHANGED stackVars
      BY <2>10 DEF FindShared
    <3>2. sharedStart[t] = top[t]
      BY <3>1 DEF PlaceInv, EmptyWhenIdle, EmptyLabels
    <3>3. pc' = [pc EXCEPT ![t] = "steal"] \/ pc' = [pc EXCEPT ![t] = "find"]
      BY <2>10 DEF FindShared
    <3>4. \A u \in Thread \ {t} : scan'[u] = scan[u]
      BY <1>0, <2>10 DEF FindShared, ThreadTypeOK
    <3> QED
      BY <2>3, <3>1, <3>2, <3>3, <3>4 DEF stackVars
  <2>12. CASE LockVictim(t)
    <3>1. pc[t] = "steal" /\ UNCHANGED <<stack, sharedStart, local, top>>
      BY <2>12 DEF LockVictim
    <3>2. sharedStart[t] = top[t]
      BY <3>1 DEF PlaceInv, EmptyWhenIdle, EmptyLabels
    <3>3. pc' = [pc EXCEPT ![t] = "reserve"] \/ pc' = [pc EXCEPT ![t] = "find"]
      BY <2>12 DEF LockVictim
    <3>4. \A u \in Thread \ {t} : scan'[u] = scan[u]
      BY <1>0, <2>12 DEF LockVictim, ThreadTypeOK
    <3> QED
      BY <2>3, <3>1, <3>2, <3>3, <3>4
  <2>11. CASE GrowToSteal(t) \/ GrowToExpand(t)
    <3> DEFINE base == IF top[t] > sharedStart[t] THEN sharedStart[t] ELSE 0
    <3>1. /\ ss_growStackSize(t) /\ pc' = pc /\ scan' = scan
          /\ pc[t] \in {"steal", "expand"}
      BY <2>11 DEF GrowToSteal, GrowToExpand
    <3>2. /\ top'[t] = top[t] - base /\ local'[t] = local[t] - base
          /\ sharedStart'[t] = sharedStart[t] - base
          /\ \A u \in Thread \ {t} :
               /\ stack'[u] = stack[u] /\ sharedStart'[u] = sharedStart[u]
               /\ local'[u] = local[u] /\ top'[u] = top[u]
      BY <1>0, <3>1 DEF ss_growStackSize, IndexTypeOK, VectorTypeOK
    <3>3. pc[t] = "steal" => sharedStart'[t] = top'[t]
      BY <1>0, <3>2 DEF PlaceInv, EmptyWhenIdle, EmptyLabels
    <3>4. pc[t] = "expand" =>
            local'[t] < top'[t] /\ Children[stack'[t][top'[t] - 1]] # <<>>
      <4> HAVE pc[t] = "expand"
      <4>1. local[t] < top[t] /\ Children[TopNode(t)] # <<>>
        BY DEF PlaceInv, ExpandIsReady
      <4>2. /\ top[t] - base - 1 \in 0 .. stackSize[t] + stackSize[t] \div 2 + 1
            /\ top[t] - base - 1 + base = top[t] - 1 /\ top[t] - 1 < top[t]
            /\ local[t] - base < top[t] - base
        BY <1>0, <4>1 DEF IndexTypeOK
      <4> DEFINE size == stackSize[t] + stackSize[t] \div 2 + 2
      <4>3. size - 1 = stackSize[t] + stackSize[t] \div 2 + 1
        BY <1>0 DEF IndexTypeOK
      <4>4. stack' = [stack EXCEPT ![t] =
                        [i \in 0 .. size - 1 |->
                           IF i + base < top[t] THEN stack[t][i + base] ELSE NoNode]]
        BY ONLY <3>1 DEF ss_growStackSize
      <4> HIDE DEF size, base
      <4>5. stack'[t] = [i \in 0 .. size - 1 |->
                           IF i + base < top[t] THEN stack[t][i + base] ELSE NoNode]
        BY <1>0, <4>4 DEF VectorTypeOK
      <4>6. stack'[t][top[t] - base - 1] = stack[t][top[t] - 1]
        BY <4>2, <4>5, <4>3
      <4> QED
        BY <3>2, <4>1, <4>2, <4>6 DEF TopNode
    <3> QED
      BY <1>0, <3>1, <3>2, <3>3, <3>4, PlaceOwn DEF EmptyLabels
  <2>13. CASE Reserve(t)
    <3> DEFINE v == victimId[t]
    <3>1. /\ pc[t] = "reserve" /\ pc' = [pc EXCEPT ![t] = "copy"]
          /\ sharedStart' = [sharedStart EXCEPT ![v] = @ + Chunk]
          /\ UNCHANGED <<stack, local, top, scan>>
      BY <2>13 DEF Reserve
    <3>2. /\ \A u \in Thread \ {v} : sharedStart'[u] = sharedStart[u]
          /\ \A u \in Thread \ {t} : pc'[u] = pc[u]
          /\ pc'[t] = "copy" /\ v \in Thread \ {t}
          /\ local[v] - sharedStart[v] >= Chunk
      BY <1>0, <3>1 DEF IndexTypeOK, StackInv, VictimIsOther, ChunkIsThere
    <3>3. sharedStart[v] # top[v]
      BY <1>0, <3>2, SizesAssumption
    <3>4. EmptyWhenIdle'
      BY <3>1, <3>2, <3>3 DEF PlaceInv, EmptyWhenIdle, EmptyLabels
    <3>5. ExpandIsReady' /\ ScanInRange'
      BY <3>1, <3>2 DEF PlaceInv, ExpandIsReady, ScanInRange, TopNode
    <3> QED
      BY <3>4, <3>5 DEF PlaceInv
  <2>14. CASE Copy(t)
    <3> DEFINE v == victimId[t]
    <3>1. /\ pc[t] = "copy" /\ pc' = [pc EXCEPT ![t] = "work"]
          /\ top' = [top EXCEPT ![t] = @ + Chunk]
          /\ UNCHANGED <<sharedStart, local, scan>> /\ v \in Thread \ {t}
      BY <2>14 DEF Copy, StackInv, VictimIsOther
    <3>2. /\ \A u \in Thread \ {t} : top'[u] = top[u] /\ pc'[u] = pc[u]
          /\ pc'[t] = "work"
      BY <1>0, <3>1 DEF IndexTypeOK
    <3>3. \A u \in Thread \ {t, v} : stack'[u] = stack[u]
      BY <1>0, <2>14 DEF Copy, VectorTypeOK
    <3>4. stack'[v] = [i \in DOMAIN stack[v] |-> IF i \in Reserved(t) THEN NoNode ELSE stack[v][i]]
      BY <1>0, <2>14, <3>1 DEF Copy, VectorTypeOK
    <3>5. EmptyWhenIdle' /\ ScanInRange'
      BY <3>1, <3>2 DEF PlaceInv, EmptyWhenIdle, EmptyLabels, ScanInRange
    <3>6. local[v] < top[v] => stack'[v][top[v] - 1] = stack[v][top[v] - 1]
      <4> HAVE local[v] < top[v]
      <4>1. top[v] - 1 \in 0 .. stackSize[v] - 1 /\ top[v] - 1 >= sharedStart[v]
        BY <1>0, <3>1 DEF IndexTypeOK
      <4>2. top[v] - 1 \notin Reserved(t)
        BY <1>0, <3>1, <4>1, SizesAssumption DEF Reserved
      <4> QED
        BY <1>0, <3>1, <3>4, <4>1, <4>2 DEF VectorTypeOK
    <3>7. ExpandIsReady'
      BY <3>1, <3>2, <3>3, <3>6 DEF PlaceInv, ExpandIsReady, TopNode
    <3> QED
      BY <3>5, <3>7 DEF PlaceInv
  <2> QED
    BY <1>2, <2>1, <2>4, <2>5, <2>7, <2>8, <2>9, <2>10, <2>11, <2>12, <2>13, <2>14
       DEF ThreadStep, ControlActions
<1> QED
  BY <1>1, <1>2 DEF Next

-----------------------------------------------------------------------------
(* Once the barrier has decided, nothing is found any more *)

Decided == cb_done \/ \E t \in Thread : pc[t] = "set_done"

\* A disturbed search stays disturbed.
LEMMA DisturbedStays ==
    ASSUME IInv, Next, Undisturbed'
    PROVE  Undisturbed
<1> USE DEF IInv, TypeOK
<1>0. /\ pc \in [Thread -> Labels] /\ exitNormally \in [Thread -> BOOLEAN]
  BY DEF ThreadTypeOK
<1>1. CASE Join \/ Finish
  BY <1>1 DEF Join, Finish, testVars, Undisturbed
<1>2. ASSUME NEW t \in Thread, ThreadStep(t)
      PROVE  Undisturbed
  <2>1. CASE Cut(t)
    <3>1. exitNormally'[t] = FALSE
      BY <1>0, <2>1 DEF Cut
    <3> QED
      BY <3>1 DEF Undisturbed
  <2>2. CASE ThrowDone(t) \/ ThrowCancel(t) \/ Throw(t)
    <3>1. pc'[t] \in {"throw_done", "throw_cancel", "aborted"}
      BY <1>0, <2>2 DEF ThrowDone, ThrowCancel, Throw, Goto
    <3> QED
      BY <3>1 DEF Undisturbed
  <2>3. ASSUME exitNormally' = exitNormally, \A u \in Thread \ {t} : pc'[u] = pc[u],
               pc[t] \notin {"throw_done", "throw_cancel", "aborted"}
        PROVE  Undisturbed
    BY <2>3 DEF Undisturbed
  <2> USE DEF At, Goto, testVars, Examining
  <2>4. CASE Start(t) \/ SolveInPlace(t) \/ Examine(t) \/ GrowToExpand(t) \/ Expand(t) \/ Cancel(t)
    BY <1>0, <2>3, <2>4 DEF Start, SolveInPlace, Examine, GrowToExpand, Expand, Cancel
  <2>5. CASE CutCancel(t) \/ CutEmpty(t) \/ Acquire(t) \/ FindLocal(t) \/ FindShared(t)
    BY <1>0, <2>3, <2>5 DEF CutCancel, CutEmpty, Acquire, FindLocal, FindShared
  <2>6. CASE GrowToSteal(t) \/ LockVictim(t) \/ Reserve(t) \/ Copy(t) \/ Arrive(t)
    BY <1>0, <2>3, <2>6 DEF GrowToSteal, LockVictim, Reserve, Copy, Arrive, NothingFound
  <2>7. CASE Check(t) \/ SetDone(t) \/ Spin(t) \/ Leave(t) \/ Clear(t) \/ Result(t)
    BY <1>0, <2>3, <2>7 DEF Check, SetDone, Spin, Leave, Clear, Result
  <2> QED
    BY <1>2, <2>1, <2>2, <2>4, <2>5, <2>6, <2>7 DEF ThreadStep
<1> QED
  BY <1>1, <1>2 DEF Next

\* The barrier decides in Check, and then everybody is at the barrier.
LEMMA DecidingStep ==
    ASSUME IInv, Next, Decided', Undisturbed', ~Decided
    PROVE  \A t \in Thread : pc[t] \in AtBarrier /\ pc'[t] \in AtBarrier /\ UNCHANGED stackVars
<1> USE DEF IInv, TypeOK
<1>0. /\ pc \in [Thread -> Labels] /\ exitNormally \in [Thread -> BOOLEAN]
  BY DEF ThreadTypeOK
<1>1. CASE Join \/ Finish
  BY <1>1 DEF Join, Finish, barrierVars, Decided
<1>2. ASSUME NEW t \in Thread, ThreadStep(t)
      PROVE  \A u \in Thread : pc[u] \in AtBarrier /\ pc'[u] \in AtBarrier /\ UNCHANGED stackVars
  <2> USE DEF At, Goto, Examining, barrierVars
  <2>1. CASE Check(t)
    <3>1. CASE cb_count = N
      <4>1. Waiting = Thread
        BY <3>1, WaitingIsFinite DEF CountIsRight, Waiting
      <4>2. UNCHANGED stackVars /\ pc' = [pc EXCEPT ![t] = "set_done"]
        BY <2>1, <3>1 DEF Check
      <4> QED
        BY <1>0, <4>1, <4>2 DEF Waiting, AtBarrier
    <3>2. CASE cb_count # N
      <4>1. cb_done' = cb_done /\ pc' = [pc EXCEPT ![t] = "spin"]
        BY <2>1, <3>2 DEF Check
      <4> QED
        BY <1>0, <4>1 DEF Decided
    <3> QED
      BY <3>1, <3>2
  <2>2. CASE Cut(t)
    <3>1. exitNormally'[t] = FALSE
      BY <1>0, <2>2 DEF Cut
    <3> QED
      BY <3>1 DEF Undisturbed
  <2>3. CASE ThrowDone(t)
    <3>1. pc'[t] = "throw_cancel"
      BY <1>0, <2>3 DEF ThrowDone
    <3> QED
      BY <3>1 DEF Undisturbed
  <2>4. CASE SetDone(t)
    BY <2>4 DEF SetDone, Decided
  <2>5. ASSUME cb_done' = cb_done, \A u \in Thread \ {t} : pc'[u] = pc[u],
               pc'[t] = "set_done" => pc[t] = "set_done"
        PROVE  FALSE
    BY <2>5 DEF Decided
  <2>6. CASE Start(t) \/ SolveInPlace(t) \/ Examine(t) \/ GrowToExpand(t) \/ Expand(t) \/ Cancel(t)
    BY <1>0, <2>5, <2>6 DEF Start, SolveInPlace, Examine, GrowToExpand, Expand, Cancel
  <2>7. CASE CutCancel(t) \/ CutEmpty(t) \/ Acquire(t) \/ FindLocal(t) \/ FindShared(t)
    BY <1>0, <2>5, <2>7 DEF CutCancel, CutEmpty, Acquire, FindLocal, FindShared
  <2>8. CASE GrowToSteal(t) \/ LockVictim(t) \/ Reserve(t) \/ Copy(t) \/ Arrive(t)
    BY <1>0, <2>5, <2>8 DEF GrowToSteal, LockVictim, Reserve, Copy, Arrive, NothingFound
  <2>9. CASE Spin(t) \/ Leave(t) \/ Clear(t) \/ Result(t) \/ Throw(t) \/ ThrowCancel(t)
    BY <1>0, <2>5, <2>9 DEF Spin, Leave, Clear, Result, Throw, ThrowCancel
  <2> QED
    BY <1>2, <2>1, <2>2, <2>3, <2>4, <2>6, <2>7, <2>8, <2>9 DEF ThreadStep
<1> QED
  BY <1>1, <1>2 DEF Next

\* Once every thread is at a place without work, it stays so.
LEMMA SettledStays ==
    ASSUME IInv, Next, \A u \in Thread : Settled(u)
    PROVE  \A u \in Thread : Settled(u)'
<1> USE DEF IInv, TypeOK
<1>0. /\ pc \in [Thread -> Labels] /\ ThreadTypeOK
      /\ \A u \in Thread :
           /\ sharedStart[u] \in Nat /\ local[u] \in Nat /\ top[u] \in Nat
           /\ local[u] = sharedStart[u] /\ top[u] = sharedStart[u] /\ pc[u] \in SettledLabels
           /\ pc[u] = "find_shared" => seenLocal[u] = local[Candidate(u)]
  <2>1. /\ pc \in [Thread -> Labels] /\ ThreadTypeOK
        /\ \A u \in Thread : sharedStart[u] \in Nat /\ local[u] \in Nat /\ top[u] \in Nat
    BY DEF ThreadTypeOK, IndexTypeOK
  <2>2. ASSUME NEW u \in Thread
        PROVE  /\ local[u] = sharedStart[u] /\ top[u] = sharedStart[u]
               /\ pc[u] \in SettledLabels
               /\ pc[u] = "find_shared" => seenLocal[u] = local[Candidate(u)]
    <3>1. /\ sharedStart[u] = top[u] /\ pc[u] \in SettledLabels
          /\ pc[u] = "find_shared" => seenLocal[u] = local[Candidate(u)]
      BY DEF Settled
    <3>2. sharedStart[u] <= local[u] /\ local[u] <= top[u]
      BY DEF StackInv, StackShape
    <3> QED
      BY <2>1, <3>1, <3>2
  <2> QED
    BY <2>1, <2>2
<1>1. CASE Join \/ Finish
  <2>1. UNCHANGED <<stackVars, searchVars, pc>>
    BY <1>1 DEF Join, Finish
  <2> QED
    BY <2>1 DEF Settled, Candidate, stackVars, searchVars
<1>2. ASSUME NEW t \in Thread, ThreadStep(t)
      PROVE  \A u \in Thread : Settled(u)'
  <2>1. ASSUME UNCHANGED stackVars, \A u \in Thread \ {t} :
                 pc'[u] = pc[u] /\ scan'[u] = scan[u] /\ seenLocal'[u] = seenLocal[u],
               pc'[t] \in SettledLabels,
               pc'[t] = "find_shared" => seenLocal'[t] = local[Candidate(t)]
                                         /\ scan'[t] = scan[t]
        PROVE  \A u \in Thread : Settled(u)'
    BY <1>0, <2>1 DEF Settled, Candidate, stackVars
  <2>2. local[t] = top[t] /\ ~(ss_localDepth(t) > 0) /\ ~Examining(t)
    BY <1>0 DEF ss_localDepth, Examining
  <2> USE DEF At, Goto, searchVars, SettledLabels, AtBarrier
  <2>3. CASE Acquire(t)
    <3>1. ~(local[t] - sharedStart[t] >= Chunk)
      BY <1>0, SizesAssumption
    <3>2. /\ UNCHANGED stackVars /\ pc' = [pc EXCEPT ![t] = "find"]
          /\ scan' = [scan EXCEPT ![t] = 1] /\ seenLocal' = seenLocal
      BY <2>3, <3>1 DEF Acquire, stackVars
    <3> QED
      BY <1>0, <2>1, <3>2 DEF ThreadTypeOK
  <2>4. CASE FindLocal(t)
    <3>1. /\ UNCHANGED stackVars /\ pc' = [pc EXCEPT ![t] = "find_shared"]
          /\ scan' = scan /\ seenLocal' = [seenLocal EXCEPT ![t] = local[Candidate(t)]]
      BY <2>4 DEF FindLocal
    <3>2. seenLocal'[t] = local[Candidate(t)]
      BY <1>0, <3>1 DEF ThreadTypeOK
    <3> QED
      BY <1>0, <2>1, <3>1, <3>2 DEF ThreadTypeOK
  <2>5. CASE FindShared(t)
    <3>1. pc[t] = "find_shared" /\ UNCHANGED stackVars
      BY <2>5 DEF FindShared
    <3>2. Candidate(t) \in Thread
      <4>1. scan[t] \in 1 .. N - 1
        BY <1>0, <3>1, SizesAssumption DEF ThreadTypeOK, PlaceInv, ScanInRange
      <4> QED
        BY <4>1, CandidateIsOther
    <3>3. ~(seenLocal[t] - sharedStart[Candidate(t)] >= Chunk)
      BY <1>0, <3>1, <3>2, SizesAssumption
    <3>4. /\ pc' = [pc EXCEPT ![t] = "find"] /\ scan' = [scan EXCEPT ![t] = @ + 1]
          /\ seenLocal' = [seenLocal EXCEPT ![t] = 0]
      BY <2>5, <3>3 DEF FindShared
    <3> QED
      BY <1>0, <2>1, <3>1, <3>4 DEF ThreadTypeOK
  <2>6. CASE SolveInPlace(t) \/ Examine(t) \/ Cut(t) \/ Throw(t)
    BY <2>2, <2>6 DEF SolveInPlace, Examine, Cut, Throw
  <2>7. CASE Start(t) \/ GrowToExpand(t) \/ Expand(t) \/ Cancel(t) \/ CutCancel(t) \/ CutEmpty(t)
    BY <1>0, <2>7 DEF Start, GrowToExpand, Expand, Cancel, CutCancel, CutEmpty
  <2>8. CASE ThrowDone(t) \/ ThrowCancel(t) \/ GrowToSteal(t) \/ LockVictim(t) \/ Reserve(t) \/ Copy(t)
    BY <1>0, <2>8 DEF ThrowDone, ThrowCancel, GrowToSteal, LockVictim, Reserve, Copy
  <2>9. CASE Arrive(t) \/ Check(t) \/ SetDone(t)
    BY <1>0, <2>1, <2>9 DEF Arrive, NothingFound, Check, SetDone
  <2>10. CASE Spin(t) \/ Leave(t) \/ Clear(t) \/ Result(t)
    BY <1>0, <2>1, <2>10 DEF Spin, Leave, Clear, Result
  <2> QED
    BY <1>2, <2>3, <2>4, <2>5, <2>6, <2>7, <2>8, <2>9, <2>10 DEF ThreadStep
<1> QED
  BY <1>1, <1>2 DEF Next

\* Every step keeps the end of the search settled.
LEMMA DoneStep ==
    ASSUME IInv, Next
    PROVE  DoneIsSettled'
<1> SUFFICES ASSUME Decided', Undisturbed'
             PROVE  \A u \in Thread : Settled(u)'
  BY DEF DoneIsSettled, Decided
<1>1. Undisturbed
  BY DisturbedStays
<1>2. CASE Decided
  <2>1. \A u \in Thread : Settled(u)
    BY <1>1, <1>2 DEF IInv, DoneIsSettled, Decided
  <2> QED
    BY <2>1, SettledStays
<1>3. CASE ~Decided
  <2>1. \A u \in Thread : pc[u] \in AtBarrier /\ pc'[u] \in AtBarrier /\ UNCHANGED stackVars
    BY <1>3, DecidingStep
  <2>2. \A u \in Thread : sharedStart[u] = top[u]
    BY <2>1 DEF IInv, PlaceInv, EmptyWhenIdle, EmptyLabels, AtBarrier
  <2> QED
    BY <2>1, <2>2 DEF Settled, SettledLabels, AtBarrier, stackVars
<1> QED
  BY <1>2, <1>3

-----------------------------------------------------------------------------
(* The theorems *)

\* The inductive invariant holds at first ...
LEMMA InitOK ==
    ASSUME Init
    PROVE  IInv
<1> USE SizesAssumption DEF Init
<1>1. IndexTypeOK /\ VectorTypeOK
  BY DEF IndexTypeOK, VectorTypeOK, EmptyStack
<1>2. ThreadTypeOK /\ SharedTypeOK
  <2>1. 1 \in 1 .. N /\ 0 \in 0 .. N /\ "start" \in Labels
    BY DEF Labels
  <2> QED
    BY <2>1 DEF ThreadTypeOK, SharedTypeOK
<1>3. StackShape /\ LockOwned /\ VictimIsOther /\ ChunkIsThere
  BY DEF StackShape, LockOwned, VictimIsOther, ChunkIsThere, Thread, NoThread
<1>4. SlotBySlot
  BY DEF SlotBySlot, BeingCopied, Live, EmptyStack
<1>5. PlaceInv
  BY DEF PlaceInv, EmptyWhenIdle, ExpandIsReady, ScanInRange, EmptyLabels
<1>6. CountIsRight
  <2>1. {t \in Thread : pc[t] \in AtBarrier} = {}
    BY DEF AtBarrier
  <2> QED
    BY <2>1, FS_EmptySet DEF CountIsRight
<1>7. DoneIsSettled
  BY DEF DoneIsSettled
<1> QED
  BY <1>1, <1>2, <1>3, <1>4, <1>5, <1>6, <1>7 DEF IInv, TypeOK, StackInv

\* ... and after every step.
LEMMA NextOK ==
    ASSUME IInv, [Next]_vars
    PROVE  IInv'
<1>1. CASE Next
  BY <1>1, StackStep, PlaceStep, CountStep, DoneStep DEF IInv
<1>2. CASE UNCHANGED vars
  <2>1. UNCHANGED <<stack, sharedStart, local, top, stackSize, stackLock, nNodes, cb_count,
                    cb_cancel, cb_done, globalExceptionPtr, pc, r, scan, seenLocal, victimId,
                    exitNormally, joined, rr, outcome>>
    BY <1>2 DEF vars, stackVars, barrierVars, searchVars, testVars, runVars
  <2>2. TypeOK'
    BY <2>1 DEF IInv, TypeOK, IndexTypeOK, VectorTypeOK, ThreadTypeOK, SharedTypeOK
  <2>3. StackInv'
    BY <2>1 DEF IInv, StackInv, StackShape, LockOwned, VictimIsOther, ChunkIsThere,
                SlotBySlot, BeingCopied, Reserved, Live
  <2>4. PlaceInv' /\ CountIsRight'
    BY <2>1 DEF IInv, PlaceInv, EmptyWhenIdle, ExpandIsReady, ScanInRange, TopNode, CountIsRight
  <2>5. DoneIsSettled'
    BY <2>1 DEF IInv, DoneIsSettled, Undisturbed, Settled, Candidate
  <2> QED
    BY <2>2, <2>3, <2>4, <2>5 DEF IInv
<1> QED
  BY <1>1, <1>2

\* The inductive invariant: the claims about the fields of StealStack, about
\* cb_t and about the place of every thread in run_thread that hold together
\* after every step.
THEOREM Inductive == Spec => []IInv
<1>1. Init => IInv
  BY InitOK
<1>2. IInv /\ [Next]_vars => IInv'
  BY NextOK
<1> QED
  BY <1>1, <1>2, PTL DEF Spec

\* Every variable of the model keeps its type: in particular no index of a
\* StealStack becomes negative and cb_count stays between 0 and N.
THEOREM TypeCorrect == Spec => []TypeOK
<1>1. IInv => TypeOK
  BY DEF IInv
<1> QED
  BY <1>1, Inductive, PTL

\* The indices of every StealStack keep their order, and the shared portion
\* is made of whole chunks.
THEOREM StackKeepsShape == Spec => []StackShape
<1>1. IInv => StackShape
  BY DEF IInv, StackInv
<1> QED
  BY <1>1, Inductive, PTL

\* A slot of a StealStack's vector holds a problem exactly when it is live or
\* a thief that has reserved it in ss_steal has not copied it yet.
THEOREM SlotsAreInUse == Spec => []SlotsInUse
<1>1. IInv => SlotsInUse
  <2> SUFFICES ASSUME IInv, NEW v \in Thread, NEW i \in DOMAIN stack[v]
               PROVE  stack[v][i] # NoNode <=> i \in Live(v) \cup InFlight(v)
    BY DEF SlotsInUse
  <2>1. i \in 0 .. stackSize[v] - 1
    BY DEF IInv, TypeOK, VectorTypeOK
  <2>2. stack[v][i] # NoNode <=> i \in Live(v) \/ BeingCopied(v, i)
    BY <2>1 DEF IInv, StackInv, SlotBySlot
  <2>3. BeingCopied(v, i) <=> i \in InFlight(v)
    BY DEF BeingCopied, InFlight, Copying, At
  <2> QED
    BY <2>2, <2>3
<1> QED
  BY <1>1, Inductive, PTL

\* A thread that steals or waits at the barrier has nothing on its stack.
THEOREM ThievesAreEmpty == Spec => []ThiefIsEmpty
<1>1. IInv => ThiefIsEmpty
  BY DEF IInv, PlaceInv, EmptyWhenIdle, ThiefIsEmpty, EmptyLabels, AtBarrier
<1> QED
  BY <1>1, Inductive, PTL

\* The barrier never ends an undisturbed search while a problem lies on a
\* stack or is being moved from one to another.
THEOREM DoneOnlyWhenEmpty == Spec => []DoneMeansEmpty
<1>1. IInv => DoneMeansEmpty
  <2> SUFFICES ASSUME IInv, cb_done, Undisturbed, NEW t \in Thread
               PROVE  Live(t) = {} /\ ~Copying(t)
    BY DEF DoneMeansEmpty
  <2>1. Settled(t)
    BY DEF IInv, DoneIsSettled
  <2>2. sharedStart[t] = top[t] /\ pc[t] # "copy" /\ top[t] \in Nat
    BY <2>1 DEF Settled, SettledLabels, AtBarrier, IInv, TypeOK, IndexTypeOK
  <2> QED
    BY <2>2 DEF Live, Copying, At
<1> QED
  BY <1>1, Inductive, PTL
=============================================================================
