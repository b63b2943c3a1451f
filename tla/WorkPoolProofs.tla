--------------------------- MODULE WorkPoolProofs ---------------------------
(***************************************************************************)
(* The promise of parallel_stack_recursion, for every number of threads,   *)
(* chunk size, initial stack size and recursion: a run implements WorkPool,*)
(* a run_test knows whether it has seen the whole recursion, and an        *)
(* exception reaches the caller.                                           *)
(***************************************************************************)
EXTENDS StackRecursionProofs

-----------------------------------------------------------------------------
(* The inductive invariant, on top of IInv *)

\* What lies in the slots of the stacks s, and that it lies in one slot only.
Contents(s) == (UNION {{s[t][i] : i \in DOMAIN s[t]} : t \in Thread}) \ {NoNode}

Distinct(s) ==
    \A t, u \in Thread : \A i \in DOMAIN s[t], j \in DOMAIN s[u] :
        s[t][i] # NoNode /\ s[t][i] = s[u][j] => t = u /\ i = j

Unique == Distinct(stack)

\* The problems still to be processed: those on the stacks and all below them.
Pending == IF pc[0] = "start" THEN {Root} ELSE OnStacks
Remaining == UNION {Subtree[n] : n \in Pending}

\* No problem on a stack lies below another one, and nothing below it has
\* been processed yet.
Separate == \A m, n \in OnStacks : m # n => Subtree[m] \cap Subtree[n] = {}
Fresh == \A n \in OnStacks : Subtree[n] \cap Processed = {}

Unstarted == pc[0] = "start" => OnStacks = {} /\ Processed = {}

ForestInv == Unique /\ Separate /\ Fresh /\ Unstarted

\* Unless a test is cut, every problem is processed or still to be processed.
Whole == (\A t \in Thread : exitNormally[t]) => Processed \cup Remaining = Node

\* A thread that cuts a test is going to throw away the problem at its top,
\* and says so; from then on there is a problem that nobody will process.
Cutting ==
    \A t \in Thread : pc[t] \in {"cut_cancel", "cut_empty"} =>
        ~exitNormally[t] /\ local[t] < top[t]

Dropped ==
    \A t \in Thread : ~exitNormally[t] =>
        \/ pc[t] \in {"cut_cancel", "cut_empty"}
        \/ \E n \in Node : n \notin Processed \cup Remaining

\* How the threads end, and what run knows of it.
EndInv ==
    /\ \A t \in Thread : t < joined => pc[t] \in {"exited", "aborted"}
    /\ \A t \in Thread : pc[t] \in {"throw_done", "throw_cancel", "aborted"} =>
         globalExceptionPtr # NoNode
    /\ \A t \in Thread : pc[t] = "exited" => cb_done
    /\ globalExceptionPtr = NoNode => rr = UNION {r[t] : t \in 0 .. joined - 1}
    /\ outcome # "running" => joined = N
    /\ outcome = "returned" => globalExceptionPtr = NoNode
    /\ ~Testing => \A t \in Thread : exitNormally[t]

PoolInv == ForestInv /\ Whole /\ Cutting /\ Dropped /\ EndInv
-----------------------------------------------------------------------------
(* The contents of the stacks *)

\* A problem is on the stacks when it lies in some slot.
LEMMA InContents ==
    ASSUME NEW s, NEW n
    PROVE  n \in Contents(s) <=>
             n # NoNode /\ \E t \in Thread : \E i \in DOMAIN s[t] : s[t][i] = n
BY DEF Contents

\* OnStacks is what the stacks contain, before and after a step.
LEMMA OnStacksIs == OnStacks = Contents(stack) /\ OnStacks' = Contents(stack')
BY DEF OnStacks, Contents

\* What is on the stacks are problems.
LEMMA OnStacksAreNodes ==
    ASSUME VectorTypeOK
    PROVE  OnStacks \subseteq Node
<1> SUFFICES ASSUME NEW n \in OnStacks
             PROVE  n \in Node
  OBVIOUS
<1>1. PICK t \in Thread : \E i \in DOMAIN stack[t] : stack[t][i] = n
  BY OnStacksIs, InContents
<1>2. n # NoNode
  BY OnStacksIs, InContents
<1> QED
  BY <1>1, <1>2 DEF VectorTypeOK

\* A step that only empties slots.
LEMMA Emptied ==
    ASSUME NEW s, NEW s2, Distinct(s),
           \A t \in Thread : \A i \in DOMAIN s2[t] :
             s2[t][i] # NoNode => i \in DOMAIN s[t] /\ s2[t][i] = s[t][i]
    PROVE  Distinct(s2) /\ Contents(s2) \subseteq Contents(s)
<1>1. Distinct(s2)
  BY DEF Distinct
<1>2. ASSUME NEW n \in Contents(s2)
      PROVE  n \in Contents(s)
  <2>1. n # NoNode /\ \E t \in Thread : \E i \in DOMAIN s2[t] : s2[t][i] = n
    BY <1>2, InContents
  <2> QED
    BY <2>1, InContents
<1> QED
  BY <1>1, <1>2

\* A slot is emptied, and the problem that was in it is gone.
LEMMA Popped ==
    ASSUME NEW s, NEW s2, Distinct(s), NEW t \in Thread, NEW k \in DOMAIN s[t],
           s[t][k] # NoNode,
           \A u \in Thread : DOMAIN s2[u] = DOMAIN s[u],
           \A u \in Thread : \A i \in DOMAIN s[u] :
             s2[u][i] = IF u = t /\ i = k THEN NoNode ELSE s[u][i]
    PROVE  Distinct(s2) /\ Contents(s2) = Contents(s) \ {s[t][k]}
<1>1. Distinct(s2)
  BY Emptied
<1>2. ASSUME NEW n
      PROVE  n \in Contents(s2) <=> n \in Contents(s) /\ n # s[t][k]
  <2>1. n \in Contents(s2) => n \in Contents(s) /\ n # s[t][k]
    <3> SUFFICES ASSUME n \in Contents(s2)
                 PROVE  n \in Contents(s) /\ n # s[t][k]
      OBVIOUS
    <3>0. PICK u \in Thread : n # NoNode /\ \E i \in DOMAIN s2[u] : s2[u][i] = n
      BY InContents
    <3>1. PICK i \in DOMAIN s[u] : n # NoNode /\ s2[u][i] = n
      BY <3>0
    <3>2. ~(u = t /\ i = k) /\ s[u][i] = n
      BY <3>1
    <3>3. n # s[t][k]
      BY <3>1, <3>2 DEF Distinct
    <3> QED
      BY <3>1, <3>2, <3>3, InContents
  <2>2. n \in Contents(s) /\ n # s[t][k] => n \in Contents(s2)
    <3> SUFFICES ASSUME n \in Contents(s), n # s[t][k]
                 PROVE  n \in Contents(s2)
      OBVIOUS
    <3>0. PICK u \in Thread : n # NoNode /\ \E i \in DOMAIN s[u] : s[u][i] = n
      BY InContents
    <3>1. PICK i \in DOMAIN s[u] : n # NoNode /\ s[u][i] = n
      BY <3>0
    <3>2. s2[u][i] = n /\ i \in DOMAIN s2[u]
      BY <3>1
    <3> QED
      BY <3>1, <3>2, InContents
  <2> QED
    BY <2>1, <2>2
<1> QED
  BY <1>1, <1>2

-----------------------------------------------------------------------------
(* The steps that touch the stacks *)

\* Thread 0 puts the root on its stack, the others nothing.
LEMMA StartPuts ==
    ASSUME IInv, ForestInv, NEW t \in Thread, Start(t)
    PROVE  /\ Unique' /\ Processed' = Processed
           /\ Pending' = Pending /\ (pc'[0] # "start" => Pending' = OnStacks')
           /\ pc'[0] = "start" => OnStacks' = {}
<1>a. /\ pc \in [Thread -> Labels] /\ DOMAIN stack = Thread /\ top[t] = 0
      /\ stackSize[t] \in Nat \ {0} /\ DOMAIN stack[t] = 0 .. stackSize[t] - 1
      /\ pc[t] = "start"
  BY DEF IInv, TypeOK, ThreadTypeOK, VectorTypeOK, IndexTypeOK, PlaceInv, EmptyWhenIdle,
         Start, At
<1>0. /\ pc[t] = "start" /\ pc' = [pc EXCEPT ![t] = "work"] /\ pc \in [Thread -> Labels]
      /\ r' = r /\ DOMAIN stack = Thread /\ 0 \in Thread
      /\ top[t] = 0 /\ 0 \in DOMAIN stack[t]
      /\ stack' = IF t = 0 THEN [stack EXCEPT ![0][top[0]] = Root] ELSE stack
  BY <1>a, SizesAssumption DEF Start, Goto, Thread
<1>1. Processed' = Processed
  BY <1>0 DEF Processed
<1>2. CASE t = 0
  <2>1. OnStacks = {} /\ pc'[0] = "work"
    BY <1>0, <1>2 DEF ForestInv, Unstarted
  <2>2. ASSUME NEW u \in Thread, NEW i \in DOMAIN stack[u]
        PROVE  stack[u][i] = NoNode
    <3>1. stack[u][i] \notin Contents(stack)
      BY <2>1, OnStacksIs
    <3> QED
      BY <3>1, InContents
  <2>3. /\ \A u \in Thread : DOMAIN stack'[u] = DOMAIN stack[u]
        /\ \A u \in Thread : \A i \in DOMAIN stack[u] :
             stack'[u][i] = IF u = 0 /\ i = 0 THEN Root ELSE stack[u][i]
    BY <1>0, <1>2
  <2>4. Distinct(stack')
    <3>1. \A u \in Thread : \A i \in DOMAIN stack'[u] :
            stack'[u][i] # NoNode => u = 0 /\ i = 0
      BY <2>2, <2>3
    <3> QED
      BY <3>1 DEF Distinct
  <2>5. ASSUME NEW n
        PROVE  n \in Contents(stack') <=> n = Root
    <3>1. n \in Contents(stack') <=>
            n # NoNode /\ \E u \in Thread : \E i \in DOMAIN stack[u] : stack'[u][i] = n
      BY <2>3, InContents
    <3>2. \A u \in Thread : \A i \in DOMAIN stack[u] :
            stack'[u][i] = n /\ n # NoNode => n = Root
      BY <2>2, <2>3
    <3>3. stack'[0][0] = Root /\ 0 \in DOMAIN stack[0] /\ Root # NoNode
      BY <1>0, <1>2, <2>3, TreeAssumption
    <3> QED
      BY <1>0, <3>1, <3>2, <3>3
  <2>6. OnStacks' = {Root}
    BY <2>5, OnStacksIs
  <2>7. Pending = {Root} /\ Pending' = {Root}
    BY <1>0, <1>2, <2>1, <2>6 DEF Pending
  <2> QED
    BY <1>1, <2>1, <2>4, <2>6, <2>7 DEF Unique
<1>3. CASE t # 0
  <2>1. stack' = stack /\ pc'[0] = pc[0]
    BY <1>0, <1>3
  <2>2. OnStacks' = OnStacks
    BY <2>1, OnStacksIs
  <2> QED
    BY <1>1, <2>1, <2>2 DEF ForestInv, Unique, Pending, Unstarted
<1> QED
  BY <1>2, <1>3

\* The problem on top of a stack is one of those on the stacks.
LEMMA TopIsOnStacks ==
    ASSUME IInv, ForestInv, NEW t \in Thread, local[t] < top[t]
    PROVE  /\ TopNode(t) \in OnStacks /\ TopNode(t) \in Node
           /\ top[t] - 1 \in DOMAIN stack[t]
           /\ pc[0] # "start" /\ Pending = OnStacks
<1>1. TopNode(t) \in Node /\ top[t] - 1 \in 0 .. stackSize[t] - 1
  BY TopIsNode DEF IInv, TypeOK
<1>2. top[t] - 1 \in DOMAIN stack[t]
  BY <1>1 DEF IInv, TypeOK, VectorTypeOK
<1>3. TopNode(t) \in OnStacks
  BY <1>1, <1>2, OnStacksIs, InContents, TreeAssumption DEF TopNode
<1>4. pc[0] # "start"
  BY <1>3 DEF ForestInv, Unstarted
<1> QED
  BY <1>1, <1>2, <1>3, <1>4 DEF Pending

\* What is solved in place is a problem with all that is below it.
LEMMA SolvedIsSubtree ==
    ASSUME NEW n \in Node, n \in Parallel => Children[n] = <<>>
    PROVE  (IF n \in Parallel THEN {n} ELSE Subtree[n]) = Subtree[n]
<1>1. CASE n \in Parallel
  <2>1. Children[n] = <<>> /\ DOMAIN Children[n] = {}
    BY <1>1
  <2>2. Subtree[n] = {n} \cup UNION {Subtree[Children[n][i]] : i \in DOMAIN Children[n]}
    BY RecursionAssumption
  <2> QED
    BY <1>1, <2>1, <2>2
<1> QED
  BY <1>1

\* What a thread adds to its r is added to what has been processed.
LEMMA ProcessedGrows ==
    ASSUME ThreadTypeOK, NEW t \in Thread, NEW S, r' = [r EXCEPT ![t] = @ \cup S]
    PROVE  Processed' = Processed \cup S
<1>1. r'[t] = r[t] \cup S /\ \A u \in Thread \ {t} : r'[u] = r[u]
  BY DEF ThreadTypeOK
<1> QED
  BY <1>1 DEF Processed

\* A problem that is solved in place leaves its stack.
LEMMA SolveTakes ==
    ASSUME IInv, ForestInv, NEW t \in Thread, SolveInPlace(t)
    PROVE  /\ Unique' /\ Pending = OnStacks /\ Pending' = OnStacks' /\ pc'[0] # "start"
           /\ \E n \in OnStacks :
                /\ OnStacks' = OnStacks \ {n}
                /\ Processed' = Processed \cup Subtree[n]
<1> DEFINE n == TopNode(t)
<1> USE DEF IInv, TypeOK
<1>0. /\ pc' = pc /\ local[t] < top[t] /\ ThreadTypeOK /\ VectorTypeOK
      /\ stack' = [stack EXCEPT ![t][top[t] - 1] = NoNode]
      /\ n \in Parallel => Children[n] = <<>>
      /\ r' = [r EXCEPT ![t] = @ \cup IF n \in Parallel THEN {n} ELSE Subtree[n]]
  BY DEF SolveInPlace, Examining, ss_localDepth, ss_pop, IndexTypeOK
<1>1. /\ n \in OnStacks /\ n \in Node /\ top[t] - 1 \in DOMAIN stack[t]
      /\ pc[0] # "start" /\ Pending = OnStacks
  BY <1>0, TopIsOnStacks
<1>2. n = stack[t][top[t] - 1] /\ n # NoNode
  BY <1>1, TreeAssumption DEF TopNode
<1>3. /\ \A u \in Thread : DOMAIN stack'[u] = DOMAIN stack[u]
      /\ \A u \in Thread : \A i \in DOMAIN stack[u] :
           stack'[u][i] = IF u = t /\ i = top[t] - 1 THEN NoNode ELSE stack[u][i]
  BY <1>0, <1>1 DEF VectorTypeOK
<1>4. Distinct(stack)
  BY DEF ForestInv, Unique
<1> HIDE DEF n
<1>5. Distinct(stack') /\ Contents(stack') = Contents(stack) \ {n}
  BY <1>1, <1>2, <1>3, <1>4, Popped, SMTT(30)
<1>6. Processed' = Processed \cup Subtree[n]
  BY <1>0, <1>1, SolvedIsSubtree, ProcessedGrows
<1>7. Pending' = OnStacks' /\ pc'[0] # "start"
  BY <1>0, <1>1 DEF Pending
<1> QED
  BY <1>1, <1>5, <1>6, <1>7, OnStacksIs DEF Unique

\* The children of a problem are problems below it, no two of which are the
\* same or have anything below them in common.
LEMMA ChildrenAreApart ==
    ASSUME NEW n \in Node
    PROVE  /\ \A i \in DOMAIN Children[n] :
                /\ Children[n][i] \in Node /\ Children[n][i] \in Subtree[Children[n][i]]
                /\ Subtree[Children[n][i]] \subseteq Subtree[n] \ {n}
           /\ \A i, j \in DOMAIN Children[n] : i # j =>
                /\ Children[n][i] # Children[n][j]
                /\ Subtree[Children[n][i]] \cap Subtree[Children[n][j]] = {}
           /\ n \in Subtree[n] /\ Subtree[n] \subseteq Node
<1>1. /\ Subtree[n] = {n} \cup UNION {Subtree[Children[n][i]] : i \in DOMAIN Children[n]}
      /\ \A i, j \in DOMAIN Children[n] :
           /\ n \notin Subtree[Children[n][i]]
           /\ i # j => Subtree[Children[n][i]] \cap Subtree[Children[n][j]] = {}
  BY RecursionAssumption
<1>2. \A m \in Node : m \in Subtree[m] /\ Subtree[m] \subseteq Node
  BY RecursionAssumption, TreeAssumption
<1>3. \A i \in DOMAIN Children[n] : Children[n][i] \in Node
  BY TreeAssumption
<1>4. \A i \in DOMAIN Children[n] : Subtree[Children[n][i]] \subseteq Subtree[n]
  BY <1>1
<1> QED
  BY <1>1, <1>2, <1>3, <1>4

\* A problem that is split leaves its slot to its first child; the others lie
\* above it.
LEMMA ExpandSplits ==
    ASSUME IInv, ForestInv, NEW t \in Thread, Expand(t)
    PROVE  /\ Unique' /\ Pending = OnStacks /\ Pending' = OnStacks' /\ pc'[0] # "start"
           /\ \E n \in OnStacks :
                /\ OnStacks' = (OnStacks \ {n}) \cup {Children[n][i] : i \in DOMAIN Children[n]}
                /\ Processed' = Processed \cup {n}
<1> DEFINE n == TopNode(t)
           kids == Children[n]
           slot == top[t] - 1
           newTop == slot + Len(kids)
<1>0. /\ pc[t] = "expand" /\ local[t] < top[t] /\ ThreadTypeOK /\ VectorTypeOK /\ kids # <<>>
      /\ top[t] \in Nat /\ top[t] <= stackSize[t] /\ stackSize[t] \in Nat
      /\ DOMAIN stack[t] = 0 .. stackSize[t] - 1 /\ DOMAIN stack = Thread
      /\ pc \in [Thread -> Labels]
  BY DEF IInv, TypeOK, Expand, At, PlaceInv, ExpandIsReady, IndexTypeOK, StackInv, StackShape,
         VectorTypeOK, ThreadTypeOK
<1>1. /\ n \in OnStacks /\ n \in Node /\ slot \in DOMAIN stack[t]
      /\ pc[0] # "start" /\ Pending = OnStacks /\ n = stack[t][slot] /\ n # NoNode
  BY <1>0, TopIsOnStacks, TreeAssumption DEF TopNode
<1>2. kids \in Seq(Node)
  BY <1>1, TreeAssumption
<1>3. PICK k \in Nat \ {0} : k = Len(kids) /\ DOMAIN kids = 1 .. k
  <2>1. Len(kids) \in Nat /\ DOMAIN kids = 1 .. Len(kids) /\ Len(kids) # 0
    BY <1>0, <1>2
  <2> QED
    BY <2>1
<1>4. /\ top[t] + Len(kids) <= stackSize[t]
      /\ pc' = [pc EXCEPT ![t] = IF newTop - local[t] > 2 * Chunk THEN "cancel" ELSE "work"]
      /\ r' = [r EXCEPT ![t] = r[t] \cup {n}]
      /\ stack' = [stack EXCEPT ![t] =
                     [i \in DOMAIN @ |-> IF i \in slot .. newTop - 1
                                         THEN kids[i - slot + 1] ELSE @[i]]]
  BY DEF Expand, Goto
<1>k. newTop = slot + k /\ Len(kids) = k
  BY <1>3
<1> HIDE DEF n, kids, slot, newTop
<1>5. /\ \A u \in Thread : DOMAIN stack'[u] = DOMAIN stack[u]
      /\ \A u \in Thread : \A i \in DOMAIN stack[u] :
           stack'[u][i] = IF u = t /\ i \in slot .. slot + k - 1
                          THEN kids[i - slot + 1] ELSE stack[u][i]
  <2>1. \A u \in Thread : \A i \in DOMAIN stack[u] :
           stack'[u][i] = IF u = t /\ i \in slot .. newTop - 1
                          THEN kids[i - slot + 1] ELSE stack[u][i]
    BY <1>0, <1>4
  <2>2. \A u \in Thread : DOMAIN stack'[u] = DOMAIN stack[u]
    BY <1>0, <1>4
  <2>3. slot \in Int /\ newTop \in Int
    BY <1>0, <1>k DEF slot
  <2> QED
    BY <1>k, <2>1, <2>2, <2>3
<1>6. /\ slot \in Nat /\ slot + k <= stackSize[t] /\ slot = top[t] - 1
      /\ \A i \in slot .. slot + k - 1 : i - slot + 1 \in DOMAIN kids
      /\ \A j \in DOMAIN kids : slot + j - 1 \in slot .. slot + k - 1
                                /\ slot + j - 1 \in DOMAIN stack[t]
  <2>1. slot = top[t] - 1 /\ slot \in 0 .. stackSize[t] - 1
    BY <1>0, <1>1 DEF slot
  <2>2. slot \in Nat /\ slot + k <= stackSize[t]
    BY <1>0, <1>4, <1>k, <2>1
  <2>3. \A i \in slot .. slot + k - 1 : i - slot + 1 \in 1 .. k
    BY <2>2
  <2>4. \A j \in 1 .. k : slot + j - 1 \in slot .. slot + k - 1
                          /\ slot + j - 1 \in 0 .. stackSize[t] - 1
    BY <1>0, <2>2
  <2> QED
    BY <1>0, <1>3, <2>1, <2>2, <2>3, <2>4
<1>free. \A i \in slot + 1 .. slot + k - 1 : stack[t][i] = NoNode
  <2> TAKE i \in slot + 1 .. slot + k - 1
  <2>1. i \in 0 .. stackSize[t] - 1 /\ i >= top[t]
    <3>1. /\ slot \in Nat /\ slot + k <= stackSize[t] /\ slot = top[t] - 1
          /\ stackSize[t] \in Nat /\ top[t] \in Nat
      BY <1>0, <1>6
    <3>2. i >= slot + 1 /\ i <= slot + k - 1 /\ i \in Int
      BY <3>1
    <3> QED
      BY ONLY <3>1, <3>2, k \in Nat
  <2>2. sharedStart[t] <= top[t] /\ sharedStart[t] \in Nat
    BY DEF IInv, TypeOK, IndexTypeOK, StackInv, StackShape
  <2>3. i \notin Live(t) /\ ~BeingCopied(t, i)
    BY <1>0, <2>1, <2>2, CopiedIsBelow DEF Live, IInv, TypeOK
  <2> QED
    BY <2>1, <2>3 DEF IInv, StackInv, SlotBySlot
<1>7. /\ \A i \in DOMAIN kids :
           kids[i] \in Node /\ kids[i] \in Subtree[kids[i]] /\ Subtree[kids[i]] \subseteq Subtree[n]
      /\ \A i, j \in DOMAIN kids : i # j => kids[i] # kids[j]
      /\ n \in Subtree[n] /\ n \notin {kids[i] : i \in DOMAIN kids}
  BY <1>1, ChildrenAreApart DEF kids
\* What lies in another slot is not below n.
<1>8. ASSUME NEW u \in Thread, NEW i \in DOMAIN stack[u], stack[u][i] # NoNode,
             ~(u = t /\ i \in slot .. slot + k - 1)
      PROVE  /\ stack[u][i] \in OnStacks /\ stack[u][i] # n
             /\ stack[u][i] \notin {kids[j] : j \in DOMAIN kids}
  <2>1. stack[u][i] \in OnStacks
    BY <1>8, OnStacksIs, InContents
  <2>2. ~(u = t /\ i = slot)
    BY <1>3, <1>6, <1>8
  <2>3. stack[u][i] # n
    BY <1>1, <1>8, <2>2 DEF ForestInv, Unique, Distinct
  <2>4. Subtree[stack[u][i]] \cap Subtree[n] = {}
    BY <1>1, <2>1, <2>3 DEF ForestInv, Separate
  <2>5. stack[u][i] \in Subtree[stack[u][i]]
    <3>1. stack[u][i] \in Node
      BY <2>1, <1>0, OnStacksAreNodes
    <3> QED
      BY <3>1, ChildrenAreApart
  <2> QED
    BY <1>7, <2>1, <2>3, <2>4, <2>5
<1>9. Distinct(stack')
  <2> SUFFICES ASSUME NEW u \in Thread, NEW v \in Thread,
                      NEW i \in DOMAIN stack[u], NEW j \in DOMAIN stack[v],
                      stack'[u][i] # NoNode, stack'[u][i] = stack'[v][j]
               PROVE  u = v /\ i = j
    BY <1>5 DEF Distinct
  <2> DEFINE inU == u = t /\ i \in slot .. slot + k - 1
             inV == v = t /\ j \in slot .. slot + k - 1
  <2>1. CASE inU /\ inV
    <3>1. i - slot + 1 \in DOMAIN kids /\ j - slot + 1 \in DOMAIN kids
          /\ kids[i - slot + 1] = kids[j - slot + 1]
      BY <1>5, <1>6, <2>1
    <3>2. i - slot + 1 = j - slot + 1
      BY <1>7, <3>1
    <3> QED
      BY <1>6, <2>1, <3>2
  <2>2. CASE inU /\ ~inV
    <3>1. stack'[u][i] \in {kids[m] : m \in DOMAIN kids}
      BY <1>5, <1>6, <2>2
    <3>2. stack[v][j] = stack'[v][j]
      BY <1>5, <2>2
    <3> QED
      BY <1>8, <2>2, <3>1, <3>2
  <2>3. CASE ~inU /\ inV
    <3>1. stack'[v][j] \in {kids[m] : m \in DOMAIN kids}
      BY <1>5, <1>6, <2>3
    <3>2. stack[u][i] = stack'[u][i]
      BY <1>5, <2>3
    <3> QED
      BY <1>8, <2>3, <3>1, <3>2
  <2>4. CASE ~inU /\ ~inV
    <3>1. stack[u][i] = stack'[u][i] /\ stack[v][j] = stack'[v][j]
      BY <1>5, <2>4
    <3> QED
      BY <3>1 DEF ForestInv, Unique, Distinct
  <2> QED
    BY <2>1, <2>2, <2>3, <2>4
<1>10. ASSUME NEW m
       PROVE  m \in Contents(stack') <=>
                m \in (OnStacks \ {n}) \cup {kids[i] : i \in DOMAIN kids}
  <2>1. m \in Contents(stack') <=>
          m # NoNode /\ \E u \in Thread : \E i \in DOMAIN stack[u] : stack'[u][i] = m
    BY <1>5, InContents
  <2>2. ASSUME m # NoNode, NEW u \in Thread, NEW i \in DOMAIN stack[u], stack'[u][i] = m
        PROVE  m \in (OnStacks \ {n}) \cup {kids[j] : j \in DOMAIN kids}
    <3>1. CASE u = t /\ i \in slot .. slot + k - 1
      BY <1>5, <1>6, <2>2, <3>1
    <3>2. CASE ~(u = t /\ i \in slot .. slot + k - 1)
      <4>1. stack[u][i] = m
        BY <1>5, <2>2, <3>2
      <4> QED
        BY <1>8, <2>2, <3>2, <4>1
    <3> QED
      BY <3>1, <3>2
  <2>3. ASSUME NEW j \in DOMAIN kids, m = kids[j]
        PROVE  m \in Contents(stack')
    <3>1. PICK p \in DOMAIN stack[t] : p \in slot .. slot + k - 1 /\ p - slot + 1 = j
      <4>1. slot + j - 1 \in slot .. slot + k - 1 /\ slot + j - 1 \in DOMAIN stack[t]
            /\ (slot + j - 1) - slot + 1 = j
        BY <1>3, <1>6
      <4> QED
        BY <4>1
    <3>2. stack'[t][p] = m
      BY <1>5, <2>3, <3>1
    <3>3. m # NoNode
      BY <1>7, <2>3, TreeAssumption
    <3> QED
      BY <2>1, <3>1, <3>2, <3>3
  <2>4. ASSUME m \in OnStacks, m # n
        PROVE  m \in Contents(stack')
    <3>0. PICK u \in Thread : m # NoNode /\ \E i \in DOMAIN stack[u] : stack[u][i] = m
      BY <2>4, OnStacksIs, InContents
    <3>1. PICK i \in DOMAIN stack[u] : stack[u][i] = m
      BY <3>0
    <3>2. ~(u = t /\ i \in slot .. slot + k - 1)
      <4>1. SUFFICES ASSUME u = t, i \in slot .. slot + k - 1
                     PROVE  FALSE
        OBVIOUS
      <4>2. i = slot \/ i \in slot + 1 .. slot + k - 1
        BY <1>6, <4>1
      <4> QED
        BY <1>1, <1>free, <2>4, <3>0, <3>1, <4>1, <4>2
    <3>3. stack'[u][i] = m
      BY <1>5, <3>1, <3>2
    <3> QED
      BY <2>1, <3>0, <3>3
  <2> QED
    BY <2>1, <2>2, <2>3, <2>4
<1>11. OnStacks' = (OnStacks \ {n}) \cup {kids[i] : i \in DOMAIN kids}
  BY <1>10, OnStacksIs
<1>12. Processed' = Processed \cup {n}
  BY <1>0, <1>4, ProcessedGrows
<1>13. pc'[0] # "start" /\ Pending' = OnStacks'
  BY <1>0, <1>1, <1>4 DEF Pending
<1> QED
  BY <1>1, <1>9, <1>11, <1>12, <1>13 DEF Unique, kids

\* A vector that grows keeps what it holds, perhaps in lower slots.
LEMMA GrowthMoves ==
    ASSUME IInv, ForestInv, NEW t \in Thread, ss_growStackSize(t)
    PROVE  Unique' /\ OnStacks' = OnStacks
<1> USE DEF IInv, TypeOK
<1> DEFINE size == stackSize[t] + stackSize[t] \div 2 + 2
           base == IF top[t] > sharedStart[t] THEN sharedStart[t] ELSE 0
<1>0. /\ sharedStart[t] \in Nat /\ top[t] \in Nat /\ stackSize[t] \in Nat \ {0}
      /\ sharedStart[t] <= top[t] /\ top[t] <= stackSize[t]
      /\ DOMAIN stack = Thread /\ DOMAIN stack[t] = 0 .. stackSize[t] - 1
      /\ stackLock[t] = NoThread
  BY DEF ss_growStackSize, StackInv, StackShape, IndexTypeOK, VectorTypeOK, Unlocked
<1>1. size \in Nat /\ size >= stackSize[t] /\ base \in Nat /\ base <= sharedStart[t]
      /\ (sharedStart[t] < top[t] => base = sharedStart[t])
  BY <1>0
<1>2. stack' = [stack EXCEPT ![t] =
                  [i \in 0 .. size - 1 |->
                     IF i + base < top[t] THEN stack[t][i + base] ELSE NoNode]]
  BY DEF ss_growStackSize
<1> HIDE DEF size, base
<1>3. /\ DOMAIN stack'[t] = 0 .. size - 1
      /\ \A i \in 0 .. size - 1 :
           stack'[t][i] = IF i + base < top[t] THEN stack[t][i + base] ELSE NoNode
      /\ \A u \in Thread \ {t} : stack'[u] = stack[u]
  BY <1>0, <1>2
<1>4. ASSUME NEW i \in DOMAIN stack'[t], stack'[t][i] # NoNode
      PROVE  i \in Nat /\ i + base \in DOMAIN stack[t] /\ stack'[t][i] = stack[t][i + base]
  BY <1>0, <1>1, <1>3, <1>4, SMTT(30)
<1>5. ASSUME NEW i \in DOMAIN stack[t], stack[t][i] # NoNode
      PROVE  \E j \in DOMAIN stack'[t] : stack'[t][j] = stack[t][i]
  <2>1. ~BeingCopied(t, i)
    BY <1>0, UnlockedNotCopied
  <2>2. i \in sharedStart[t] .. top[t] - 1
    BY <1>0, <1>5, <2>1 DEF StackInv, SlotBySlot, Live
  <2>3. i - base \in 0 .. size - 1 /\ (i - base) + base = i /\ i < top[t]
    BY <1>0, <1>1, <2>2, SMTT(30)
  <2> QED
    BY <1>3, <2>3
<1>6. \A u, w \in Thread : \A i \in DOMAIN stack[u], j \in DOMAIN stack[w] :
        stack[u][i] # NoNode /\ stack[u][i] = stack[w][j] => u = w /\ i = j
  BY DEF ForestInv, Unique, Distinct
<1>7. Distinct(stack')
  <2> SUFFICES ASSUME NEW u \in Thread, NEW w \in Thread,
                      NEW i \in DOMAIN stack'[u], NEW j \in DOMAIN stack'[w],
                      stack'[u][i] # NoNode, stack'[u][i] = stack'[w][j]
               PROVE  u = w /\ i = j
    BY DEF Distinct
  <2>1. CASE u = t /\ w = t
    <3>1. i + base = j + base /\ i \in Nat /\ j \in Nat
      BY <1>4, <1>6, <2>1
    <3> QED
      BY <1>1, <2>1, <3>1
  <2>2. CASE u = t /\ w # t
    <3>1. i + base \in DOMAIN stack[t] /\ stack'[u][i] = stack[t][i + base]
      BY <1>4, <2>2
    <3>2. j \in DOMAIN stack[w] /\ stack'[w][j] = stack[w][j]
      BY <1>3, <2>2
    <3> QED
      BY <1>6, <2>2, <3>1, <3>2
  <2>3. CASE u # t /\ w = t
    <3>1. j + base \in DOMAIN stack[t] /\ stack'[w][j] = stack[t][j + base]
      BY <1>4, <2>3
    <3>2. i \in DOMAIN stack[u] /\ stack'[u][i] = stack[u][i]
      BY <1>3, <2>3
    <3> QED
      BY <1>6, <2>3, <3>1, <3>2
  <2>4. CASE u # t /\ w # t
    BY <1>3, <1>6, <2>4
  <2> QED
    BY <2>1, <2>2, <2>3, <2>4
<1>8. ASSUME NEW m
      PROVE  m \in Contents(stack') <=> m \in Contents(stack)
  <2>1. ASSUME NEW u \in Thread, NEW i \in DOMAIN stack'[u], stack'[u][i] = m, m # NoNode
        PROVE  \E w \in Thread : \E j \in DOMAIN stack[w] : stack[w][j] = m
    <3>1. CASE u = t
      BY <1>4, <2>1, <3>1
    <3>2. CASE u # t
      BY <1>3, <2>1, <3>2
    <3> QED
      BY <3>1, <3>2
  <2>2. ASSUME NEW u \in Thread, NEW i \in DOMAIN stack[u], stack[u][i] = m, m # NoNode
        PROVE  \E w \in Thread : \E j \in DOMAIN stack'[w] : stack'[w][j] = m
    <3>1. CASE u = t
      BY <1>5, <2>2, <3>1
    <3>2. CASE u # t
      BY <1>3, <2>2, <3>2
    <3> QED
      BY <3>1, <3>2
  <2> QED
    BY <2>1, <2>2, InContents
<1>9. Contents(stack') = Contents(stack)
  BY <1>8
<1> QED
  BY <1>7, <1>9, OnStacksIs DEF Unique

\* A chunk that a thief copies leaves the slots of its victim.
LEMMA CopyMoves ==
    ASSUME IInv, ForestInv, NEW t \in Thread, Copy(t)
    PROVE  Unique' /\ OnStacks' = OnStacks
<1> USE DEF IInv, TypeOK
<1> DEFINE v == victimId[t]
           from == sharedStart[v] - Chunk
<1>0. /\ v \in Thread /\ v # t /\ pc[t] = "copy"
      /\ top[t] + Chunk < stackSize[t] /\ sharedStart[v] >= Chunk /\ sharedStart[t] = top[t]
      /\ DOMAIN stack = Thread /\ DOMAIN stack[t] = 0 .. stackSize[t] - 1
      /\ DOMAIN stack[v] = 0 .. stackSize[v] - 1
  BY DEF Copy, At, StackInv, VictimIsOther, ChunkIsThere, VectorTypeOK,
         PlaceInv, EmptyWhenIdle, EmptyLabels
<1>1. /\ Chunk \in Nat \ {0} /\ top[t] \in Nat /\ stackSize[t] \in Nat
      /\ sharedStart[v] \in Nat /\ stackSize[v] \in Nat /\ sharedStart[v] <= stackSize[v]
  <2>1. sharedStart[v] <= local[v] /\ local[v] <= top[v] /\ top[v] <= stackSize[v]
    BY <1>0 DEF StackInv, StackShape
  <2> QED
    BY <1>0, <2>1, SizesAssumption DEF IndexTypeOK
<1>2. from \in Nat /\ Reserved(t) = from .. from + Chunk - 1
  BY <1>0, <1>1 DEF Reserved
<1>3. /\ DOMAIN stack' = Thread
      /\ stack'[t] = [i \in 0 .. stackSize[t] - 1 |->
                        IF i \in top[t] .. top[t] + Chunk - 1
                        THEN stack[v][from + i - top[t]] ELSE stack[t][i]]
      /\ stack'[v] = [i \in 0 .. stackSize[v] - 1 |->
                        IF i \in Reserved(t) THEN NoNode ELSE stack[v][i]]
      /\ \A u \in Thread \ {t, v} : stack'[u] = stack[u]
  <2>1. stack' =
             [stack EXCEPT
               ![t] = [i \in DOMAIN stack[t] |->
                         IF i \in top[t] .. top[t] + Chunk - 1
                         THEN stack[v][from + i - top[t]] ELSE stack[t][i]],
               ![v] = [i \in DOMAIN stack[v] |->
                         IF i \in Reserved(t) THEN NoNode ELSE stack[v][i]]]
    BY <1>0 DEF Copy
  <2> QED
    BY <1>0, <2>1
<1>vt. v \in Thread /\ v # t
  BY <1>0
<1>bound. from + Chunk <= stackSize[v]
  BY <1>0, <1>1
<1> HIDE DEF v, from
\* Where the slots of the thief come from, and where those of the victim go.
<1>4. ASSUME NEW i \in top[t] .. top[t] + Chunk - 1
      PROVE  /\ from + i - top[t] \in Reserved(t) /\ from + i - top[t] \in DOMAIN stack[v]
             /\ i \in DOMAIN stack[t] /\ stack[t][i] = NoNode
             /\ stack'[t][i] = stack[v][from + i - top[t]]
  <2>1. i \in 0 .. stackSize[t] - 1 /\ from + i - top[t] \in from .. from + Chunk - 1
    <3>1. i \in Int /\ i >= top[t] /\ i <= top[t] + Chunk - 1 /\ top[t] + Chunk < stackSize[t]
      BY <1>0, <1>1
    <3> QED
      BY <1>1, <1>2, <3>1, SMTT(30)
  <2>2. from + i - top[t] \in 0 .. stackSize[v] - 1
    BY <1>1, <1>2, <1>bound, <2>1, SMTT(30)
  <2>3. i \notin Live(t)
    BY <1>0, <1>1 DEF Live
  <2>4. ~BeingCopied(t, i)
    BY <1>0, <1>1, CopiedIsBelow
  <2>5. stack[t][i] = NoNode
    BY <2>1, <2>3, <2>4 DEF StackInv, SlotBySlot
  <2> QED
    BY <1>0, <1>2, <1>3, <2>1, <2>2, <2>5
<1>5. ASSUME NEW j \in Reserved(t)
      PROVE  /\ j \in DOMAIN stack[v]
             /\ \E i \in top[t] .. top[t] + Chunk - 1 : stack'[t][i] = stack[v][j]
  <2>1. j \in from .. from + Chunk - 1 /\ j \in Int /\ j \in 0 .. stackSize[v] - 1
    BY <1>1, <1>2, <1>bound
  <2>2. PICK i \in top[t] .. top[t] + Chunk - 1 : from + i - top[t] = j
    <3>1. top[t] + j - from \in top[t] .. top[t] + Chunk - 1
          /\ from + (top[t] + j - from) - top[t] = j
      BY <1>1, <1>2, <2>1
    <3> QED
      BY <3>1
  <2> QED
    BY <1>0, <1>4, <2>1, <2>2
<1>6. /\ DOMAIN stack'[t] = DOMAIN stack[t] /\ DOMAIN stack'[v] = DOMAIN stack[v]
      /\ \A i \in DOMAIN stack[t] : i \notin top[t] .. top[t] + Chunk - 1 =>
           stack'[t][i] = stack[t][i]
      /\ \A i \in DOMAIN stack[v] :
           stack'[v][i] = IF i \in Reserved(t) THEN NoNode ELSE stack[v][i]
      /\ \A u \in Thread : DOMAIN stack'[u] = DOMAIN stack[u]
  BY <1>0, <1>3
<1>7. \A u, w \in Thread : \A i \in DOMAIN stack[u], j \in DOMAIN stack[w] :
        stack[u][i] # NoNode /\ stack[u][i] = stack[w][j] => u = w /\ i = j
  BY DEF ForestInv, Unique, Distinct
<1>vic. ASSUME NEW p \in DOMAIN stack[v], NEW w \in Thread, NEW j \in DOMAIN stack[w],
               stack[v][p] # NoNode, stack[v][p] = stack[w][j]
        PROVE  v = w /\ p = j
  BY <1>vt, <1>7, <1>vic
\* A slot that is not filled with a stolen problem holds what it held, or nothing.
<1>8. ASSUME NEW u \in Thread, NEW i \in DOMAIN stack[u], stack'[u][i] # NoNode,
             ~(u = t /\ i \in top[t] .. top[t] + Chunk - 1)
      PROVE  stack'[u][i] = stack[u][i] /\ ~(u = v /\ i \in Reserved(t))
  BY <1>0, <1>3, <1>6, <1>8
<1>9. Distinct(stack')
  <2> DEFINE new(u, i) == u = t /\ i \in top[t] .. top[t] + Chunk - 1
  <2> SUFFICES ASSUME NEW u \in Thread, NEW w \in Thread,
                      NEW i \in DOMAIN stack[u], NEW j \in DOMAIN stack[w],
                      stack'[u][i] # NoNode, stack'[u][i] = stack'[w][j]
               PROVE  u = w /\ i = j
    BY <1>6 DEF Distinct
  <2>1. CASE new(u, i) /\ new(w, j)
    <3>1. PICK p \in DOMAIN stack[v] : p = from + i - top[t] /\ stack'[u][i] = stack[v][p]
      BY <1>4, <2>1
    <3>2. PICK q \in DOMAIN stack[v] : q = from + j - top[t] /\ stack'[w][j] = stack[v][q]
      BY <1>4, <2>1
    <3>3. p = q
      <4>1. stack[v][p] # NoNode /\ stack[v][p] = stack[v][q]
        BY <3>1, <3>2
      <4> QED
        BY <1>vt, <1>vic, <4>1
    <3>4. i \in Int /\ j \in Int
      BY <1>1, <2>1
    <3> QED
      BY <1>1, <1>2, <2>1, <3>1, <3>2, <3>3, <3>4
  <2>2. CASE new(u, i) /\ ~new(w, j)
    <3>1. PICK p \in DOMAIN stack[v] : p \in Reserved(t) /\ stack'[u][i] = stack[v][p]
      BY <1>4, <2>2
    <3>2. stack'[w][j] = stack[w][j] /\ ~(w = v /\ j \in Reserved(t))
      BY <1>8, <2>2
    <3> QED
      BY <1>vic, <2>2, <3>1, <3>2
  <2>3. CASE ~new(u, i) /\ new(w, j)
    <3>1. PICK p \in DOMAIN stack[v] : p \in Reserved(t) /\ stack'[w][j] = stack[v][p]
      BY <1>4, <2>3
    <3>2. stack'[u][i] = stack[u][i] /\ ~(u = v /\ i \in Reserved(t))
      BY <1>8, <2>3
    <3> QED
      BY <1>vic, <2>3, <3>1, <3>2
  <2>4. CASE ~new(u, i) /\ ~new(w, j)
    BY <1>7, <1>8, <2>4
  <2> QED
    BY <2>1, <2>2, <2>3, <2>4
<1>10. ASSUME NEW m
       PROVE  m \in Contents(stack') <=> m \in Contents(stack)
  <2>1. ASSUME NEW u \in Thread, NEW i \in DOMAIN stack'[u], stack'[u][i] = m, m # NoNode
        PROVE  \E w \in Thread : \E j \in DOMAIN stack[w] : stack[w][j] = m
    <3>1. CASE u = t /\ i \in top[t] .. top[t] + Chunk - 1
      BY <1>0, <1>4, <2>1, <3>1
    <3>2. CASE ~(u = t /\ i \in top[t] .. top[t] + Chunk - 1)
      BY <1>6, <1>8, <2>1, <3>2
    <3> QED
      BY <3>1, <3>2
  <2>2. ASSUME NEW u \in Thread, NEW i \in DOMAIN stack[u], stack[u][i] = m, m # NoNode
        PROVE  \E w \in Thread : \E j \in DOMAIN stack'[w] : stack'[w][j] = m
    <3>1. CASE u = v /\ i \in Reserved(t)
      <4>1. PICK j \in top[t] .. top[t] + Chunk - 1 : stack'[t][j] = m
        BY <1>5, <2>2, <3>1
      <4> QED
        BY <1>4, <1>6, <4>1
    <3>2. CASE u = v /\ i \notin Reserved(t)
      BY <1>6, <2>2, <3>2
    <3>3. CASE u = t
      <4>1. i \notin top[t] .. top[t] + Chunk - 1
        BY <1>4, <2>2, <3>3
      <4> QED
        BY <1>6, <2>2, <3>3, <4>1
    <3>4. CASE u \notin {t, v}
      BY <1>3, <2>2, <3>4
    <3> QED
      BY <3>1, <3>2, <3>3, <3>4
  <2> QED
    BY <2>1, <2>2, InContents
<1>11. Contents(stack') = Contents(stack)
  BY <1>10
<1> QED
  BY <1>9, <1>11, OnStacksIs DEF Unique

\* A thread that gives a test up empties its stack, and with it the problem at
\* the top, which nobody has processed.
LEMMA CutEmpties ==
    ASSUME IInv, ForestInv, Cutting, NEW t \in Thread, CutEmpty(t)
    PROVE  /\ Unique' /\ Pending = OnStacks /\ Pending' = OnStacks' /\ pc'[0] # "start"
           /\ Processed' = Processed
           /\ \E n \in OnStacks : OnStacks' \subseteq OnStacks \ {n}
           /\ ~exitNormally[t] /\ exitNormally' = exitNormally
<1> DEFINE n == TopNode(t)
<1>0. /\ pc[t] = "cut_empty" /\ local[t] < top[t] /\ ~exitNormally[t]
      /\ pc' = [pc EXCEPT ![t] = "work"] /\ pc \in [Thread -> Labels]
      /\ stack' = [stack EXCEPT ![t] = [i \in DOMAIN @ |-> NoNode]] /\ DOMAIN stack = Thread
      /\ r' = r /\ exitNormally' = exitNormally
  BY DEF CutEmpty, At, Goto, Cutting, IInv, TypeOK, ThreadTypeOK, VectorTypeOK, testVars
<1>1. /\ n \in OnStacks /\ n \in Node /\ top[t] - 1 \in DOMAIN stack[t]
      /\ pc[0] # "start" /\ Pending = OnStacks /\ n = stack[t][top[t] - 1] /\ n # NoNode
  BY <1>0, TopIsOnStacks, TreeAssumption DEF TopNode
<1> HIDE DEF n
<1>2. /\ \A i \in DOMAIN stack'[t] : stack'[t][i] = NoNode
      /\ \A u \in Thread \ {t} : stack'[u] = stack[u]
  BY <1>0
<1>3. Distinct(stack') /\ Contents(stack') \subseteq Contents(stack)
  <2>1. \A u \in Thread : \A i \in DOMAIN stack'[u] :
          stack'[u][i] # NoNode => i \in DOMAIN stack[u] /\ stack'[u][i] = stack[u][i]
    BY <1>2
  <2> QED
    BY <2>1, Emptied DEF ForestInv, Unique
<1>4. n \notin Contents(stack')
  <2> SUFFICES ASSUME NEW u \in Thread, NEW i \in DOMAIN stack'[u], stack'[u][i] = n
               PROVE  FALSE
    BY InContents
  <2>1. u # t /\ i \in DOMAIN stack[u] /\ stack[u][i] = n
    BY <1>1, <1>2
  <2> QED
    BY <1>1, <2>1 DEF ForestInv, Unique, Distinct
<1>5. Processed' = Processed /\ pc'[0] # "start"
  BY <1>0, <1>1 DEF Processed
<1>6. Pending' = OnStacks'
  BY <1>5 DEF Pending
<1>7. OnStacks' \subseteq OnStacks \ {n}
  BY <1>3, <1>4, OnStacksIs
<1>8. Unique'
  BY <1>3 DEF Unique
<1> QED
  BY <1>0, <1>1, <1>5, <1>6, <1>7, <1>8

\* The other steps of a thread touch neither the stacks nor the Returns.
OtherActions(t) ==
    \/ ControlActions(t) \/ Acquire(t) \/ FindShared(t) \/ LockVictim(t) \/ Reserve(t)

\* None of those actions writes a stack or a result, or starts the call again.
LEMMA OthersKeep ==
    ASSUME NEW t \in Thread, OtherActions(t), pc \in [Thread -> Labels]
    PROVE  stack' = stack /\ r' = r /\ (pc'[0] = "start" <=> pc[0] = "start")
<1> USE DEF At, Goto, stackVars
<1>1. CASE Examine(t)
  BY <1>1 DEF Examine, Examining
<1>2. CASE Cancel(t)
  BY <1>2 DEF Cancel
<1>3. CASE Cut(t)
  BY <1>3 DEF Cut, Examining
<1>4. CASE CutCancel(t)
  BY <1>4 DEF CutCancel
<1>5. CASE Throw(t)
  BY <1>5 DEF Throw, Examining
<1>6. CASE ThrowDone(t)
  BY <1>6 DEF ThrowDone
<1>7. CASE ThrowCancel(t)
  BY <1>7 DEF ThrowCancel
<1>8. CASE FindLocal(t)
  BY <1>8 DEF FindLocal
<1>9. CASE Arrive(t)
  BY <1>9 DEF Arrive, NothingFound
<1>10. CASE Check(t)
  BY <1>10 DEF Check
<1>11. CASE SetDone(t)
  BY <1>11 DEF SetDone
<1>12. CASE Spin(t)
  BY <1>12 DEF Spin
<1>13. CASE Leave(t)
  BY <1>13 DEF Leave
<1>14. CASE Clear(t)
  BY <1>14 DEF Clear
<1>15. CASE Result(t)
  BY <1>15 DEF Result
<1>16. CASE Acquire(t)
  <2>1. /\ stack' = stack /\ r' = r /\ pc[t] = "work"
        /\ pc' = pc \/ pc' = [pc EXCEPT ![t] = "find"]
    BY <1>16, Zenon DEF Acquire
  <2>2. CASE pc' = pc
    BY <2>1, <2>2
  <2>3. CASE pc' = [pc EXCEPT ![t] = "find"]
    BY <2>1, <2>3
  <2> QED
    BY <2>1, <2>2, <2>3
<1>17. CASE FindShared(t)
  <2>1. /\ stack' = stack /\ r' = r /\ pc[t] = "find_shared"
        /\ \E l \in {"steal", "find"} : pc' = [pc EXCEPT ![t] = l]
    BY <1>17, Zenon DEF FindShared
  <2> QED
    BY <2>1
<1>18. CASE LockVictim(t)
  <2>1. /\ stack' = stack /\ r' = r /\ pc[t] = "steal"
        /\ \E l \in {"reserve", "find"} : pc' = [pc EXCEPT ![t] = l]
    BY <1>18, Zenon DEF LockVictim
  <2> QED
    BY <2>1
<1>19. CASE Reserve(t)
  BY <1>19 DEF Reserve
<1> QED
  BY <1>1, <1>2, <1>3, <1>4, <1>5, <1>6, <1>7, <1>8, <1>9, <1>10, <1>11, <1>12,
     <1>13, <1>14, <1>15, <1>16, <1>17, <1>18, <1>19 DEF OtherActions, ControlActions

-----------------------------------------------------------------------------
(* What a step does to the pool *)

Kept == Processed' = Processed /\ Pending' = Pending

Solved ==
    \E n \in Pending : Pending' = Pending \ {n} /\ Processed' = Processed \cup Subtree[n]

Split ==
    \E n \in Pending :
        /\ Pending' = (Pending \ {n}) \cup {Children[n][i] : i \in DOMAIN Children[n]}
        /\ Processed' = Processed \cup {n}

CutShort ==
    /\ Processed' = Processed
    /\ \E n \in Pending : Pending' \subseteq Pending \ {n}
    /\ exitNormally' = exitNormally
    /\ \E t \in Thread : ~exitNormally[t] /\ CutEmpty(t)

\* Every step keeps the pool, or takes a problem from it with everything below
\* it, or splits a problem, or cuts the search short.
LEMMA StepKinds ==
    ASSUME IInv, ForestInv, Cutting, [Next]_vars
    PROVE  /\ Unique' /\ (pc'[0] = "start" => pc[0] = "start" /\ OnStacks' = {} /\ Kept)
           /\ Kept \/ Solved \/ Split \/ CutShort
<1>0. pc \in [Thread -> Labels] /\ 0 \in Thread
  BY SizesAssumption DEF IInv, TypeOK, ThreadTypeOK, Thread
<1>1. ASSUME stack' = stack, r' = r, pc'[0] = "start" <=> pc[0] = "start"
      PROVE  Unique' /\ Kept /\ (pc'[0] = "start" => pc[0] = "start" /\ OnStacks' = {})
  <2>1. OnStacks' = OnStacks /\ Processed' = Processed /\ Unique'
    BY <1>1 DEF OnStacks, Processed, Unique, ForestInv
  <2> QED
    BY <1>1, <2>1 DEF Pending, Kept, ForestInv, Unstarted
<1>2. CASE Join \/ Finish \/ UNCHANGED vars
  <2>1. stack' = stack /\ r' = r /\ pc' = pc
    BY <1>2 DEF Join, Finish, vars, stackVars
  <2> QED
    BY <1>1, <2>1
<1>3. ASSUME NEW t \in Thread, OtherActions(t)
      PROVE  Unique' /\ Kept /\ (pc'[0] = "start" => pc[0] = "start" /\ OnStacks' = {})
  BY <1>0, <1>1, <1>3, OthersKeep
<1>4. ASSUME NEW t \in Thread, GrowToExpand(t) \/ GrowToSteal(t) \/ Copy(t)
      PROVE  Unique' /\ Kept /\ (pc'[0] = "start" => pc[0] = "start" /\ OnStacks' = {})
  <2>1. r' = r /\ (pc'[0] = "start" <=> pc[0] = "start")
    BY <1>0, <1>4 DEF GrowToExpand, GrowToSteal, Copy, At, Goto
  <2>2. Unique' /\ OnStacks' = OnStacks
    BY <1>4, GrowthMoves, CopyMoves DEF GrowToExpand, GrowToSteal
  <2> QED
    BY <2>1, <2>2 DEF Pending, Kept, ForestInv, Unstarted, Processed
<1>5. ASSUME NEW t \in Thread, Start(t)
      PROVE  Unique' /\ Kept /\ (pc'[0] = "start" => pc[0] = "start" /\ OnStacks' = {})
  <2>1. pc'[0] = "start" => pc[0] = "start"
    BY <1>0, <1>5 DEF Start, At, Goto
  <2> QED
    BY <1>5, <2>1, StartPuts DEF Kept
<1>6. ASSUME NEW t \in Thread, SolveInPlace(t)
      PROVE  Unique' /\ pc'[0] # "start" /\ Solved
  BY <1>6, SolveTakes DEF Solved
<1>7. ASSUME NEW t \in Thread, Expand(t)
      PROVE  Unique' /\ pc'[0] # "start" /\ Split
  BY <1>7, ExpandSplits DEF Split
<1>8. ASSUME NEW t \in Thread, CutEmpty(t)
      PROVE  Unique' /\ pc'[0] # "start" /\ CutShort
  BY <1>8, CutEmpties DEF CutShort
<1>9. CASE \E t \in Thread : ThreadStep(t)
  BY <1>3, <1>4, <1>5, <1>6, <1>7, <1>8, <1>9 DEF ThreadStep, OtherActions, ControlActions
<1> QED
  BY <1>1, <1>2, <1>9 DEF Next

-----------------------------------------------------------------------------
(* Sets of problems *)

\* No problem of P is below another; nothing of D is below a problem of P;
\* the problems of P and all that is below them.
Apart(P) == \A m, n \in P : m # n => Subtree[m] \cap Subtree[n] = {}
Untouched(P, D) == \A n \in P : Subtree[n] \cap D = {}
Below(P) == UNION {Subtree[n] : n \in P}

\* A problem is solved with everything below it.
LEMMA SolvedSets ==
    ASSUME NEW P \in SUBSET Node, NEW D, Apart(P), Untouched(P, D), NEW n \in P
    PROVE  /\ Apart(P \ {n}) /\ Untouched(P \ {n}, D \cup Subtree[n])
           /\ (D \cup Subtree[n]) \cup Below(P \ {n}) = D \cup Below(P)
<1>1. Apart(P \ {n}) /\ Untouched(P \ {n}, D \cup Subtree[n])
  BY DEF Apart, Untouched
<1>2. Below(P) = Subtree[n] \cup Below(P \ {n})
  BY DEF Below
<1> QED
  BY <1>1, <1>2

\* A problem is processed and its children take its place.
LEMMA SplitSets ==
    ASSUME NEW P \in SUBSET Node, NEW D, Apart(P), Untouched(P, D), NEW n \in P,
           NEW Q, Q = (P \ {n}) \cup {Children[n][i] : i \in DOMAIN Children[n]}
    PROVE  /\ Apart(Q) /\ Untouched(Q, D \cup {n})
           /\ (D \cup {n}) \cup Below(Q) = D \cup Below(P)
<1> DEFINE C == {Children[n][i] : i \in DOMAIN Children[n]}
<1>0. /\ n \in Node /\ n \in Subtree[n]
      /\ Subtree[n] = {n} \cup UNION {Subtree[Children[n][i]] : i \in DOMAIN Children[n]}
      /\ \A i \in DOMAIN Children[n] : Subtree[Children[n][i]] \subseteq Subtree[n] \ {n}
      /\ \A i, j \in DOMAIN Children[n] : i # j =>
           Subtree[Children[n][i]] \cap Subtree[Children[n][j]] = {}
  BY ChildrenAreApart, RecursionAssumption
<1>1. /\ \A c \in C : Subtree[c] \subseteq Subtree[n] \ {n}
      /\ \A c, d \in C : c # d => Subtree[c] \cap Subtree[d] = {}
  BY <1>0
<1>2. Subtree[n] = {n} \cup Below(C)
  BY <1>0 DEF Below
<1>3. Q = (P \ {n}) \cup C
  OBVIOUS
<1> HIDE DEF C
<1>4. \A m \in P \ {n} : Subtree[m] \cap Subtree[n] = {}
  BY DEF Apart
<1>5. Apart(Q)
  BY <1>1, <1>3, <1>4 DEF Apart
<1>6. Untouched(Q, D \cup {n})
  <2> SUFFICES ASSUME NEW m \in Q, NEW x \in Subtree[m], x \in D \cup {n}
               PROVE  FALSE
    BY DEF Untouched
  <2>1. CASE m \in P \ {n}
    BY <1>0, <1>4, <2>1 DEF Untouched
  <2>2. CASE m \in C
    BY <1>1, <2>2 DEF Untouched
  <2> QED
    BY <1>3, <2>1, <2>2
<1>7. Below(Q) = Below(P \ {n}) \cup Below(C) /\ Below(P) = Below(P \ {n}) \cup Subtree[n]
  BY <1>3 DEF Below
<1> QED
  BY <1>2, <1>5, <1>6, <1>7

\* Problems are thrown away, one at least.
LEMMA CutSets ==
    ASSUME NEW P \in SUBSET Node, NEW D, Apart(P), Untouched(P, D), NEW n \in P,
           NEW Q \in SUBSET (P \ {n})
    PROVE  /\ Apart(Q) /\ Untouched(Q, D)
           /\ D \cup Below(Q) \subseteq D \cup Below(P) /\ n \notin D \cup Below(Q)
<1>1. n \in Subtree[n]
  BY ChildrenAreApart
<1>2. \A m \in Q : n \notin Subtree[m]
  BY <1>1 DEF Apart
<1>3. n \notin D
  BY <1>1 DEF Untouched
<1> QED
  BY <1>2, <1>3 DEF Apart, Untouched, Below

\* The problems still to be processed are apart and untouched, before the root
\* has been put on a stack too.
LEMMA PendingIsForest ==
    ASSUME IInv, ForestInv
    PROVE  /\ Pending \in SUBSET Node /\ Apart(Pending) /\ Untouched(Pending, Processed)
           /\ Remaining = Below(Pending)
<1>1. CASE pc[0] = "start"
  <2>1. Pending = {Root} /\ Processed = {}
    BY <1>1 DEF Pending, ForestInv, Unstarted
  <2> QED
    BY <2>1, TreeAssumption DEF Apart, Untouched, Below, Remaining
<1>2. CASE pc[0] # "start"
  <2>1. Pending = OnStacks
    BY <1>2 DEF Pending
  <2> QED
    BY <2>1, OnStacksAreNodes
       DEF Apart, Untouched, Below, Remaining, ForestInv, Separate, Fresh, IInv, TypeOK
<1> QED
  BY <1>1, <1>2

\* What has been processed or is still to be processed never grows, and gets
\* smaller only when the search is cut short.
LEMMA ForestStep ==
    ASSUME IInv, ForestInv, Cutting, [Next]_vars
    PROVE  /\ ForestInv'
           /\ \/ (Processed \cup Remaining)' = Processed \cup Remaining
              \/ /\ CutShort /\ (Processed \cup Remaining)' \subseteq Processed \cup Remaining
                 /\ \E n \in Node : n \notin (Processed \cup Remaining)'
<1>1. /\ Pending \in SUBSET Node /\ Apart(Pending) /\ Untouched(Pending, Processed)
      /\ Remaining = Below(Pending)
  BY PendingIsForest
<1>2. /\ Unique' /\ (pc'[0] = "start" => pc[0] = "start" /\ OnStacks' = {} /\ Kept)
      /\ Kept \/ Solved \/ Split \/ CutShort
  BY StepKinds
<1>3. Remaining' = Below(Pending')
  BY DEF Remaining, Below
<1>4. /\ Apart(Pending') /\ Untouched(Pending', Processed')
      /\ \/ Processed' \cup Below(Pending') = Processed \cup Below(Pending)
         \/ /\ CutShort
            /\ Processed' \cup Below(Pending') \subseteq Processed \cup Below(Pending)
            /\ \E n \in Node : n \notin Processed' \cup Below(Pending')
  <2>1. CASE Kept
    BY <1>1, <2>1 DEF Kept
  <2>2. CASE Solved
    <3>1. PICK n \in Pending :
            Pending' = Pending \ {n} /\ Processed' = Processed \cup Subtree[n]
      BY <2>2 DEF Solved
    <3>2. /\ Apart(Pending \ {n}) /\ Untouched(Pending \ {n}, Processed \cup Subtree[n])
          /\ (Processed \cup Subtree[n]) \cup Below(Pending \ {n}) = Processed \cup Below(Pending)
      BY <1>1, SolvedSets
    <3> QED
      BY <3>1, <3>2
  <2>3. CASE Split
    <3>1. PICK n \in Pending :
            /\ Pending' = (Pending \ {n}) \cup {Children[n][i] : i \in DOMAIN Children[n]}
            /\ Processed' = Processed \cup {n}
      BY <2>3 DEF Split
    <3>2. \A Q : Q = (Pending \ {n}) \cup {Children[n][i] : i \in DOMAIN Children[n]} =>
            /\ Apart(Q) /\ Untouched(Q, Processed \cup {n})
            /\ (Processed \cup {n}) \cup Below(Q) = Processed \cup Below(Pending)
      BY <1>1, SplitSets, ZenonT(40)
    <3> QED
      BY <3>1, <3>2
  <2>4. CASE CutShort
    <3>1. PICK n \in Pending : Pending' \subseteq Pending \ {n}
      BY <2>4 DEF CutShort
    <3>2. Processed' = Processed /\ n \in Node
      BY <1>1, <2>4 DEF CutShort
    <3> QED
      BY <1>1, <2>4, <3>1, <3>2, CutSets
  <2> QED
    BY <1>2, <2>1, <2>2, <2>3, <2>4
<1>5. Separate' /\ Fresh'
  <2>1. CASE pc'[0] = "start"
    BY <1>2, <2>1 DEF Separate, Fresh
  <2>2. CASE pc'[0] # "start"
    <3>1. Pending' = OnStacks'
      BY <2>2 DEF Pending
    <3> QED
      BY <1>4, <3>1 DEF Apart, Untouched, Separate, Fresh
  <2> QED
    BY <2>1, <2>2
<1>6. Unstarted'
  BY <1>2 DEF Unstarted, ForestInv, Kept
<1> QED
  BY <1>1, <1>2, <1>3, <1>4, <1>5, <1>6 DEF ForestInv

-----------------------------------------------------------------------------
(* How threads end *)

CutLabels == {"cut_cancel", "cut_empty"}
ThrowLabels == {"throw_done", "throw_cancel", "aborted"}

\* What a step of thread t leaves alone, and what it has done when it comes to
\* its end, throws, or gives a test up.
OwnEnd(t) ==
    /\ pc[t] \notin {"exited", "aborted"}
    /\ \A u \in Thread \ {t} :
         /\ pc'[u] = pc[u] /\ r'[u] = r[u] /\ exitNormally'[u] = exitNormally[u]
         /\ local'[u] = local[u] /\ top'[u] = top[u]
    /\ joined' = joined /\ rr' = rr /\ outcome' = outcome
    /\ cb_done => cb_done'
    /\ pc'[t] = "exited" => cb_done'
    /\ globalExceptionPtr # NoNode => globalExceptionPtr' # NoNode
    /\ pc'[t] \in ThrowLabels => globalExceptionPtr' # NoNode
    /\ exitNormally'[t] => exitNormally[t]
    /\ ~exitNormally'[t] => ~exitNormally[t] \/ (Testing /\ pc'[t] = "cut_cancel")
    /\ pc'[t] \in CutLabels => ~exitNormally'[t] /\ local'[t] < top'[t]
    /\ pc[t] \in CutLabels => pc'[t] \in CutLabels \/ CutEmpty(t)

\* Every step of a thread keeps to what OwnEnd allows.
LEMMA OwnEnds ==
    ASSUME IInv, Cutting, EndInv, NEW t \in Thread, ThreadStep(t)
    PROVE  OwnEnd(t)
<1>0. /\ pc \in [Thread -> Labels] /\ r \in [Thread -> SUBSET Node]
      /\ exitNormally \in [Thread -> BOOLEAN]
      /\ local \in [Thread -> Nat] /\ top \in [Thread -> Nat]
  BY DEF IInv, TypeOK, ThreadTypeOK, IndexTypeOK
<1>c. pc[t] \in {"cut_cancel", "cut_empty"} => ~exitNormally[t] /\ local[t] < top[t]
  BY DEF Cutting
<1>e. pc[t] \in {"throw_done", "throw_cancel", "aborted"} => globalExceptionPtr # NoNode
  BY DEF EndInv
<1> USE <1>0 DEF OwnEnd, CutLabels, ThrowLabels, At, Goto, stackVars, barrierVars,
                 searchVars, testVars, runVars
<1>1. CASE Start(t)
  BY <1>1 DEF Start
<1>2. CASE SolveInPlace(t)
  BY <1>2 DEF SolveInPlace, Examining, ss_pop
<1>3. CASE Examine(t)
  BY <1>3 DEF Examine, Examining
<1>4. CASE GrowToExpand(t)
  BY <1>4 DEF GrowToExpand, ss_growStackSize
<1>5. CASE Expand(t)
  BY <1>5 DEF Expand
<1>6. CASE Cancel(t)
  BY <1>6 DEF Cancel
<1>7. CASE Cut(t)
  BY <1>7 DEF Cut, Examining, OverLimit, ss_localDepth
<1>8. CASE CutCancel(t)
  BY <1>8, <1>c DEF CutCancel
<1>9. CASE CutEmpty(t)
  BY <1>9, <1>c DEF CutEmpty
<1>10. CASE Throw(t)
  <2>1. globalExceptionPtr' # NoNode
    BY <1>10, TreeAssumption DEF Throw
  <2> QED
    BY <1>10, <2>1 DEF Throw, Examining
<1>11. CASE ThrowDone(t)
  BY <1>11, <1>e DEF ThrowDone
<1>12. CASE ThrowCancel(t)
  BY <1>12, <1>e DEF ThrowCancel
<1>13. CASE Acquire(t)
  BY <1>13 DEF Acquire
<1>14. CASE FindLocal(t)
  BY <1>14 DEF FindLocal
<1>15. CASE FindShared(t)
  BY <1>15 DEF FindShared
<1>16. CASE GrowToSteal(t)
  BY <1>16 DEF GrowToSteal, ss_growStackSize
<1>17. CASE LockVictim(t)
  BY <1>17 DEF LockVictim
<1>18. CASE Reserve(t)
  BY <1>18 DEF Reserve
<1>19. CASE Copy(t)
  BY <1>19 DEF Copy
<1>20. CASE Arrive(t)
  BY <1>20 DEF Arrive, NothingFound
<1>21. CASE Check(t)
  BY <1>21 DEF Check
<1>22. CASE SetDone(t)
  BY <1>22 DEF SetDone
<1>23. CASE Spin(t)
  BY <1>23 DEF Spin
<1>24. CASE Leave(t)
  BY <1>24 DEF Leave
<1>25. CASE Clear(t)
  BY <1>25 DEF Clear
<1>26. CASE Result(t)
  BY <1>26 DEF Result
<1> QED
  BY <1>1, <1>2, <1>3, <1>4, <1>5, <1>6, <1>7, <1>8, <1>9, <1>10, <1>11, <1>12,
     <1>13, <1>14, <1>15, <1>16, <1>17, <1>18, <1>19, <1>20, <1>21, <1>22, <1>23,
     <1>24, <1>25, <1>26 DEF ThreadStep

\* run knows how its threads have ended.
LEMMA EndStep ==
    ASSUME IInv, Cutting, EndInv, [Next]_vars
    PROVE  EndInv'
<1>0. /\ joined \in 0 .. N /\ N \in Nat \ {0} /\ Thread = 0 .. N - 1 /\ pc \in [Thread -> Labels]
      /\ outcome \in {"running", "returned", "rethrown"}
  BY SizesAssumption DEF IInv, TypeOK, SharedTypeOK, ThreadTypeOK, Thread
<1>1. ASSUME NEW t \in Thread, ThreadStep(t)
      PROVE  EndInv'
  <2>1. OwnEnd(t)
    BY <1>1, OwnEnds
  <2>2. ~(t < joined)
    BY <2>1 DEF OwnEnd, EndInv
  <2>3. \A u \in 0 .. joined - 1 : u \in Thread /\ u # t
    BY <1>0, <2>2
  <2>4. \A u \in Thread : u < joined' => pc'[u] \in {"exited", "aborted"}
    BY <2>1, <2>2 DEF OwnEnd, EndInv
  <2>5. \A u \in Thread : pc'[u] \in {"throw_done", "throw_cancel", "aborted"} =>
          globalExceptionPtr' # NoNode
    BY <2>1 DEF OwnEnd, EndInv, ThrowLabels
  <2>6. \A u \in Thread : pc'[u] = "exited" => cb_done'
    BY <2>1 DEF OwnEnd, EndInv
  <2>7. globalExceptionPtr' = NoNode => rr' = UNION {r'[u] : u \in 0 .. joined' - 1}
    <3>1. \A u \in 0 .. joined - 1 : r'[u] = r[u]
      BY <2>1, <2>3 DEF OwnEnd
    <3>2. UNION {r'[u] : u \in 0 .. joined - 1} = UNION {r[u] : u \in 0 .. joined - 1}
      BY <3>1
    <3> QED
      BY <2>1, <3>2 DEF OwnEnd, EndInv
  <2>8. outcome' = "running"
    <3>1. outcome # "running" => t < joined
      BY <1>0 DEF EndInv
    <3> QED
      BY <2>1, <2>2, <3>1 DEF OwnEnd
  <2>9. ~Testing => \A u \in Thread : exitNormally'[u]
    BY <2>1 DEF OwnEnd, EndInv
  <2>10. /\ outcome' # "running" => joined' = N
         /\ outcome' = "returned" => globalExceptionPtr' = NoNode
    BY <2>8
  <2> QED
    BY <2>4, <2>5, <2>6, <2>7, <2>9, <2>10, Zenon DEF EndInv
<1>2. CASE Join
  <2>1. /\ joined < N /\ joined \in Thread /\ joined' = joined + 1
        /\ pc[joined] \in {"exited", "aborted"}
        /\ rr' = IF globalExceptionPtr = NoNode THEN rr \cup r[joined] ELSE rr
        /\ pc' = pc /\ r' = r /\ cb_done' = cb_done /\ globalExceptionPtr' = globalExceptionPtr
        /\ exitNormally' = exitNormally /\ outcome' = outcome /\ outcome = "running"
    BY <1>0, <1>2 DEF Join, EndInv, barrierVars, testVars
  <2>2. \A u \in Thread : u < joined + 1 => u < joined \/ u = joined
    BY <1>0
  <2>3. \A u \in Thread : u < joined' => pc'[u] \in {"exited", "aborted"}
    BY <2>1, <2>2 DEF EndInv
  <2>4. globalExceptionPtr = NoNode => rr' = UNION {r[u] : u \in 0 .. joined}
    <3>1. 0 .. joined = (0 .. joined - 1) \cup {joined}
      BY <1>0
    <3>2. ASSUME NEW x
          PROVE  x \in UNION {r[u] : u \in 0 .. joined} <=>
                   x \in UNION {r[u] : u \in 0 .. joined - 1} \/ x \in r[joined]
      BY <3>1
    <3>3. UNION {r[u] : u \in 0 .. joined} = (UNION {r[u] : u \in 0 .. joined - 1}) \cup r[joined]
      BY <3>2
    <3>4. globalExceptionPtr = NoNode => rr = UNION {r[u] : u \in 0 .. joined - 1}
      BY DEF EndInv
    <3> QED
      BY <2>1, <3>3, <3>4
  <2>5. joined' - 1 = joined
    BY <1>0, <2>1
  <2> QED
    BY <2>1, <2>3, <2>4, <2>5 DEF EndInv
<1>3. CASE Finish
  <2>1. /\ joined = N /\ joined' = joined /\ rr' = rr /\ pc' = pc /\ r' = r
        /\ cb_done' = cb_done /\ globalExceptionPtr' = globalExceptionPtr
        /\ exitNormally' = exitNormally
        /\ outcome' = IF globalExceptionPtr = NoNode THEN "returned" ELSE "rethrown"
    BY <1>3 DEF Finish, barrierVars, testVars
  <2> QED
    BY <2>1 DEF EndInv
<1>4. CASE UNCHANGED vars
  BY <1>4 DEF EndInv, vars, stackVars, barrierVars, searchVars, testVars, runVars
<1> QED
  BY <1>1, <1>2, <1>3, <1>4 DEF Next

\* A cut takes the problem at the top away, and nothing brings it back.
LEMMA CutStep ==
    ASSUME IInv, PoolInv, [Next]_vars
    PROVE  Cutting' /\ Dropped' /\ Whole'
<1>0. /\ ForestInv /\ Cutting /\ Dropped /\ Whole /\ EndInv
      /\ exitNormally \in [Thread -> BOOLEAN]
  BY DEF PoolInv, IInv, TypeOK, ThreadTypeOK
<1>1. \/ (Processed \cup Remaining)' = Processed \cup Remaining
      \/ /\ CutShort /\ (Processed \cup Remaining)' \subseteq Processed \cup Remaining
         /\ \E n \in Node : n \notin (Processed \cup Remaining)'
  BY <1>0, ForestStep
<1>2. (\E n \in Node : n \notin Processed \cup Remaining) =>
        \E n \in Node : n \notin (Processed \cup Remaining)'
  BY <1>1
<1>3. CASE Join \/ Finish \/ UNCHANGED vars
  <2>1. /\ pc' = pc /\ exitNormally' = exitNormally /\ local' = local /\ top' = top
        /\ r' = r /\ stack' = stack
    BY <1>3 DEF Join, Finish, vars, stackVars, testVars
  <2>2. Processed' = Processed /\ Remaining' = Remaining
    BY <2>1 DEF Processed, Remaining, Pending, OnStacks
  <2> QED
    BY <1>0, <2>1, <2>2 DEF Cutting, Dropped, Whole
<1>4. ASSUME NEW t \in Thread, ThreadStep(t)
      PROVE  Cutting' /\ Dropped' /\ Whole'
  <2>1. OwnEnd(t)
    BY <1>0, <1>4, OwnEnds
  <2>2. \A u \in Thread : exitNormally'[u] => exitNormally[u]
    BY <2>1 DEF OwnEnd
  <2>3. Cutting'
    BY <1>0, <2>1 DEF Cutting, OwnEnd, CutLabels
  <2>4. Whole'
    <3>1. CASE \A u \in Thread : exitNormally'[u]
      <4>1. \A u \in Thread : exitNormally[u]
        BY <2>2, <3>1
      <4>2. ~CutShort
        BY <4>1 DEF CutShort
      <4> QED
        BY <1>0, <1>1, <4>1, <4>2 DEF Whole
    <3> QED
      BY <3>1 DEF Whole
  <2>5. Dropped'
    <3> SUFFICES ASSUME NEW u \in Thread, ~exitNormally'[u], pc'[u] \notin CutLabels
                 PROVE  \E n \in Node : n \notin (Processed \cup Remaining)'
      BY DEF Dropped, CutLabels
    <3>1. CASE u # t
      <4>1. ~exitNormally[u] /\ pc[u] \notin CutLabels
        BY <2>1, <3>1 DEF OwnEnd
      <4> QED
        BY <1>0, <1>2, <4>1 DEF Dropped, CutLabels
    <3>2. CASE u = t
      <4>1. ~exitNormally[t]
        BY <2>1, <3>2 DEF OwnEnd, CutLabels
      <4>2. CASE pc[t] \in CutLabels
        <5>1. CutEmpty(t)
          BY <2>1, <3>2, <4>2 DEF OwnEnd
        <5>2. \E n \in OnStacks : OnStacks' \subseteq OnStacks \ {n}
          BY <1>0, <5>1, CutEmpties
        <5>3. Pending = OnStacks /\ Pending' = OnStacks' /\ Processed' = Processed
          BY <1>0, <5>1, CutEmpties
        <5>4. PICK n \in Pending : Pending' \in SUBSET (Pending \ {n})
          BY <5>2, <5>3
        <5>5. /\ Pending \in SUBSET Node /\ Apart(Pending) /\ Untouched(Pending, Processed)
              /\ Remaining' = Below(Pending')
          BY <1>0, PendingIsForest DEF Remaining, Below
        <5>6. n \notin Processed \cup Below(Pending')
          BY <5>4, <5>5, CutSets
        <5> QED
          BY <5>3, <5>4, <5>5, <5>6
      <4>3. CASE pc[t] \notin CutLabels
        BY <1>0, <1>2, <4>1, <4>3 DEF Dropped, CutLabels
      <4> QED
        BY <4>2, <4>3
    <3> QED
      BY <3>1, <3>2
  <2> QED
    BY <2>3, <2>4, <2>5
<1> QED
  BY <1>3, <1>4 DEF Next

\* The pool's invariant holds at the beginning...
LEMMA PoolInit ==
    ASSUME Init
    PROVE  PoolInv
<1>0. /\ 0 \in Thread /\ pc = [t \in Thread |-> "start"] /\ r = [t \in Thread |-> {}]
      /\ stack = [t \in Thread |-> EmptyStack] /\ joined = 0 /\ rr = {}
      /\ exitNormally = [t \in Thread |-> TRUE] /\ outcome = "running"
  BY SizesAssumption DEF Init, Thread
<1>1. \A t \in Thread : \A i \in DOMAIN stack[t] : stack[t][i] = NoNode
  BY <1>0 DEF EmptyStack
<1>2. OnStacks = {} /\ Unique
  BY <1>1 DEF OnStacks, Unique, Distinct
<1>3. Processed = {} /\ Remaining = Node
  BY <1>0, RecursionAssumption DEF Processed, Remaining, Pending
<1>4. ForestInv
  BY <1>2, <1>3 DEF ForestInv, Separate, Fresh, Unstarted
<1>5. Whole /\ Cutting /\ Dropped
  BY <1>0, <1>3 DEF Whole, Cutting, Dropped
<1>6. EndInv
  <2>1. 0 .. joined - 1 = {}
    BY <1>0
  <2>2. \A t \in Thread : ~(t < joined)
    BY <1>0, SizesAssumption DEF Thread
  <2> QED
    BY <1>0, <2>1, <2>2 DEF EndInv
<1> QED
  BY <1>4, <1>5, <1>6 DEF PoolInv

\* ... and after every step.
LEMMA PoolNext ==
    ASSUME IInv, PoolInv, [Next]_vars
    PROVE  PoolInv'
BY ForestStep, CutStep, EndStep DEF PoolInv

\* The inductive invariant of the pool: what lies on the stacks is a forest of
\* problems nobody has processed, whatever thieves, growing vectors and
\* releases do with them; nothing is lost unless a test is cut; and run knows
\* how every thread it has joined has ended.
THEOREM PoolInductive == Spec => []PoolInv
<1>1. Init => PoolInv
  BY PoolInit
<1>2. IInv /\ PoolInv /\ [Next]_vars => PoolInv'
  BY PoolNext
<1> QED
  BY <1>1, <1>2, Inductive, PTL DEF Spec

\* If a function of the body throws in any thread, run does not return
\* normally: the exception pointer is set before the thread ends.
THEOREM ThrowsAreRethrown == Spec => []ThrowIsRethrown
<1>1. PoolInv => ThrowIsRethrown
  BY DEF PoolInv, EndInv, ThrowIsRethrown
<1> QED
  BY <1>1, PoolInductive, PTL

\* When run returns every thread has left the barrier, nobody has thrown, and
\* rr combines what all the threads have processed.
LEMMA WhenReturned ==
    ASSUME IInv, PoolInv, outcome # "running", globalExceptionPtr = NoNode
    PROVE  /\ \A t \in Thread : pc[t] = "exited"
           /\ cb_done /\ rr = Processed
<1>0. N \in Nat \ {0} /\ Thread = 0 .. N - 1 /\ joined = N /\ 0 \in Thread
  BY SizesAssumption DEF PoolInv, EndInv, Thread
<1>1. \A t \in Thread : t < joined
  BY <1>0
<1>2. \A t \in Thread : pc[t] = "exited"
  BY <1>1 DEF PoolInv, EndInv
<1>3. cb_done
  BY <1>0, <1>2 DEF PoolInv, EndInv
<1>4. rr = Processed
  BY <1>0 DEF PoolInv, EndInv, Processed
<1> QED
  BY <1>2, <1>3, <1>4

\* When all the threads have left the barrier, and nobody has thrown or cut the
\* search short, no problem is left.
LEMMA AllExited ==
    ASSUME IInv, PoolInv, \A t \in Thread : pc[t] = "exited" /\ exitNormally[t]
    PROVE  Pending = {} /\ Processed = Node
<1>0. 0 \in Thread
  BY SizesAssumption DEF Thread
<1>1. Undisturbed /\ cb_done
  BY <1>0 DEF Undisturbed, PoolInv, EndInv
<1>2. \A t \in Thread : Settled(t)
  BY <1>1 DEF IInv, DoneIsSettled
<1>3. \A v \in Thread : \A i \in DOMAIN stack[v] : stack[v][i] = NoNode
  <2> TAKE v \in Thread
  <2> TAKE i \in DOMAIN stack[v]
  <2>1. i \in 0 .. stackSize[v] - 1 /\ top[v] \in Nat
    BY DEF IInv, TypeOK, VectorTypeOK, IndexTypeOK
  <2>2. i \notin Live(v)
    BY <1>2, <2>1 DEF Settled, Live
  <2>3. ~BeingCopied(v, i)
    BY DEF BeingCopied
  <2> QED
    BY <2>1, <2>2, <2>3 DEF IInv, StackInv, SlotBySlot
<1>4. Pending = {}
  BY <1>0, <1>3 DEF Pending, OnStacks
<1>5. Processed = Node
  <2>1. Remaining = {}
    BY <1>4 DEF Remaining
  <2> QED
    BY <2>1 DEF PoolInv, Whole
<1> QED
  BY <1>4, <1>5

\* run_test knows whether it has seen everything: all the threads say they have
\* left normally exactly when the result combines every problem.
THEOREM ExitNormallyExact == Spec => []ExitNormallyIsExact
<1>1. IInv /\ PoolInv => ExitNormallyIsExact
  <2> SUFFICES ASSUME IInv, PoolInv, outcome = "returned"
               PROVE  (\A t \in Thread : exitNormally[t]) <=> rr = Node
    BY DEF ExitNormallyIsExact
  <2>1. globalExceptionPtr = NoNode /\ outcome # "running"
    BY DEF PoolInv, EndInv
  <2>2. CASE \A t \in Thread : exitNormally[t]
    BY <2>1, <2>2, WhenReturned, AllExited
  <2>3. ASSUME NEW t \in Thread, ~exitNormally[t]
        PROVE  rr # Node
    <3>1. pc[t] = "exited" /\ rr = Processed
      BY <2>1, WhenReturned
    <3>2. \E n \in Node : n \notin Processed
      BY <2>3, <3>1 DEF PoolInv, Dropped
    <3> QED
      BY <3>1, <3>2
  <2> QED
    BY <2>2, <2>3
<1> QED
  BY <1>1, Inductive, PoolInductive, PTL

-----------------------------------------------------------------------------
(* run implements the pool of problems *)

\* The abstract state that stands for a state of the program: see ImplementsPool.
Answer == IF outcome = "returned" THEN rr ELSE {}

\* A step of a thread changes the pool as a step of WorkPool does, or not at all.
LEMMA ThreadRefines ==
    ASSUME ~Testing, IInv, PoolInv, NEW t \in Thread, ThreadStep(t)
    PROVE  Pool!WPNext \/ UNCHANGED Pool!wpVars
<1>0. OwnEnd(t)
  BY OwnEnds DEF PoolInv
<1>1. outcome = "running" /\ outcome' = outcome /\ Answer' = Answer
  <2>1. outcome # "running" => t < joined
    BY SizesAssumption DEF PoolInv, EndInv, Thread
  <2> QED
    BY <1>0, <2>1 DEF OwnEnd, PoolInv, EndInv, Answer
<1>2. Kept \/ Solved \/ Split
  <2>1. \A u \in Thread : exitNormally[u]
    BY DEF PoolInv, EndInv
  <2>2. ~CutShort
    BY <2>1 DEF CutShort
  <2>3. Next
    BY DEF Next
  <2> QED
    BY <2>2, <2>3, StepKinds DEF PoolInv
<1>3. /\ Pending \in SUBSET Node /\ Untouched(Pending, Processed)
      /\ \A n \in Pending : n \in Subtree[n]
  BY PendingIsForest, ChildrenAreApart DEF PoolInv
<1>4. CASE Kept
  BY <1>1, <1>4 DEF Pool!wpVars, Kept, Pending, Answer
<1>5. CASE Solved
  <2>1. PICK n \in Pending :
          Pending' = Pending \ {n} /\ Processed' = Processed \cup Subtree[n]
    BY <1>5 DEF Solved
  <2>2. n \in Node /\ Subtree[n] \cap Processed = {}
    BY <1>3 DEF Untouched
  <2>3. Pool!ProcessSubtree(n)
    BY <1>1, <2>1, <2>2 DEF Pool!ProcessSubtree, Pending, Answer
  <2> QED
    BY <2>2, <2>3 DEF Pool!WPNext
<1>6. CASE Split
  <2>1. PICK n \in Pending :
          /\ Pending' = (Pending \ {n}) \cup {Children[n][i] : i \in DOMAIN Children[n]}
          /\ Processed' = Processed \cup {n}
    BY <1>6 DEF Split
  <2>2. n \in Node /\ n \notin Processed
    BY <1>3 DEF Untouched
  <2>3. Pool!Process(n)
    BY <1>1, <2>1, <2>2 DEF Pool!Process, Pool!ChildrenOf, Pending, Answer
  <2> QED
    BY <2>2, <2>3 DEF Pool!WPNext
<1> QED
  BY <1>2, <1>4, <1>5, <1>6

\* So does a step of run's own thread.
LEMMA CallerRefines ==
    ASSUME ~Testing, IInv, PoolInv, Join \/ Finish
    PROVE  Pool!WPNext \/ UNCHANGED Pool!wpVars
<1>1. /\ Processed' = Processed /\ Pending' = Pending
  BY DEF Join, Finish, stackVars, Processed, Pending, OnStacks
<1>2. CASE Join
  <2>1. outcome' = outcome /\ outcome = "running"
    BY <1>2, SizesAssumption DEF Join, PoolInv, EndInv, IInv, TypeOK, SharedTypeOK
  <2> QED
    BY <1>1, <2>1 DEF Pool!wpVars, Pending, Answer
<1>3. CASE Finish /\ globalExceptionPtr # NoNode
  <2>1. outcome = "running" /\ outcome' = "rethrown"
    BY <1>3 DEF Finish
  <2> QED
    BY <1>1, <2>1 DEF Pool!WPNext, Pool!Rethrow, Pending, Answer
<1>4. CASE Finish /\ globalExceptionPtr = NoNode
  <2>1. /\ outcome = "running" /\ outcome' = "returned" /\ rr' = rr /\ joined = N
    BY <1>4 DEF Finish
  <2>2. 0 .. joined - 1 = Thread /\ \A t \in Thread : t < joined
    BY <2>1, SizesAssumption DEF Thread
  <2>3. \A t \in Thread : pc[t] = "exited"
    BY <1>4, <2>2 DEF PoolInv, EndInv
  <2>4. rr = Processed
    BY <1>4, <2>2 DEF PoolInv, EndInv, Processed
  <2>5. Pending = {}
    BY <2>3, AllExited DEF PoolInv, EndInv
  <2> QED
    BY <1>1, <2>1, <2>4, <2>5 DEF Pool!WPNext, Pool!Return, Pending, Answer
<1> QED
  BY <1>2, <1>3, <1>4

\* run keeps the promise of WorkPool: problems are taken from a pool one at a
\* time, each is processed once, and the result is returned only when none is
\* left and combines them all, or the exception is rethrown.
THEOREM RunImplementsPool ==
    ASSUME ~Testing
    PROVE  Spec => ImplementsPool
<1>1. Init => Pool!WPInit
  <2> SUFFICES ASSUME Init
               PROVE  Pool!WPInit
    OBVIOUS
  <2>1. pc[0] = "start" /\ Processed = {} /\ outcome = "running"
    BY SizesAssumption DEF Init, Thread, Processed
  <2> QED
    BY <2>1 DEF Pool!WPInit
<1>2. IInv /\ PoolInv /\ [Next]_vars => [Pool!WPNext]_(Pool!wpVars)
  <2> SUFFICES ASSUME IInv, PoolInv, [Next]_vars
               PROVE  Pool!WPNext \/ UNCHANGED Pool!wpVars
    OBVIOUS
  <2>1. CASE UNCHANGED vars
    BY <2>1 DEF Pool!wpVars, vars, stackVars, runVars, OnStacks, Processed
  <2> QED
    BY <2>1, ThreadRefines, CallerRefines DEF Next
<1> QED
  BY <1>1, <1>2, Inductive, PoolInductive, PTL DEF Spec, ImplementsPool, Pool!WPSpec

\* A run that returns has combined the results of every problem of the recursion.
THEOREM RunReturnsEverything ==
    ASSUME ~Testing
    PROVE  Spec => [](outcome = "returned" => rr = Node)
<1>1. IInv /\ PoolInv => (outcome = "returned" => rr = Node)
  BY WhenReturned, AllExited DEF PoolInv, EndInv
<1> QED
  BY <1>1, Inductive, PoolInductive, PTL
=============================================================================
