-------------------------- MODULE TokenRingProofs --------------------------
(***************************************************************************)
(* The ring of processes of dparallel_stack_recursion, for every number of *)
(* processes and of threads in each, every size of chunks and messages,    *)
(* and every recursion: no problem is lost on its way between stacks and   *)
(* processes, and the counters tell the work messages that are under way.  *)
(* The second part is about the end of a run.                              *)
(***************************************************************************)
EXTENDS TokenRing, LibraryTheorems

-----------------------------------------------------------------------------
(* Processes and threads *)

\* A worker is a thread of a process; neither of the two marks is one.
LEMMA WorkerIs ==
    /\ \A w \in Worker : w[1] \in Proc /\ w[2] \in Thread(w[1]) /\ w = <<w[1], w[2]>>
    /\ \A p \in Proc : \A t \in Thread(p) : <<p, t>> \in Worker
    /\ \A p \in Proc : T[p] \in Nat \ {0} /\ Leader(p) \in Worker
    /\ Nobody \notin Worker /\ Closed \notin Worker /\ Nobody # Closed
<1>1. ASSUME NEW w \in Worker
      PROVE  w[1] \in Proc /\ w[2] \in Thread(w[1]) /\ w = <<w[1], w[2]>>
  <2>1. PICK p \in Proc : w \in {p} \X Thread(p)
    BY DEF Worker
  <2> QED
    BY <2>1
<1>2. ASSUME NEW p \in Proc
      PROVE  /\ \A t \in Thread(p) : <<p, t>> \in Worker
             /\ T[p] \in Nat \ {0} /\ Leader(p) \in Worker
  <2>1. \A t \in Thread(p) : <<p, t>> \in {p} \X Thread(p)
    OBVIOUS
  <2>2. T[p] \in Nat \ {0}
    BY RingAssumption DEF Proc
  <2>3. 0 \in Thread(p)
    BY <2>2 DEF Thread
  <2> QED
    BY <2>1, <2>2, <2>3 DEF Worker, Leader
<1>3. \A w \in Worker : w[1] >= 0
  BY <1>1 DEF Proc
<1>4. Nobody \notin Worker /\ Closed \notin Worker /\ Nobody # Closed
  BY <1>3 DEF Nobody, Closed
<1> QED
  BY <1>1, <1>2, <1>4

\* The ring: every process has another one next to it.
LEMMA RingIs ==
    /\ N \in Nat \ {0, 1} /\ Proc = 0 .. N - 1 /\ 0 \in Proc /\ N - 1 \in Proc
    /\ \A p \in Proc : Next1(p) = IF p = N - 1 THEN 0 ELSE p + 1
    /\ \A p \in Proc : Next1(p) \in Proc /\ Next1(p) # p
<1>1. N \in Nat \ {0, 1} /\ Proc = 0 .. N - 1
  BY RingAssumption DEF Proc
<1>2. ASSUME NEW p \in Proc
      PROVE  Next1(p) = IF p = N - 1 THEN 0 ELSE p + 1
  <2>1. CASE p = N - 1
    <3>1. N % N = 0
      BY <1>1
    <3> QED
      BY <1>1, <2>1, <3>1 DEF Next1
  <2>2. CASE p # N - 1
    <3>1. p + 1 \in 0 .. N - 1
      BY <1>1, <2>2
    <3>2. \A a \in 0 .. N - 1 : a % N = a
      BY <1>1
    <3> QED
      BY <2>2, <3>1, <3>2 DEF Next1
  <2> QED
    BY <2>1, <2>2
<1>3. \A p \in Proc : Next1(p) \in Proc /\ Next1(p) # p
  BY <1>1, <1>2
<1> QED
  BY <1>1, <1>2, <1>3

\* The sizes of chunks and messages.
LEMMA SizesAre == ChunkSize \in Nat \ {0} /\ MessageSize \in Nat \ {0}
<1>1. \A a, b \in Nat \ {0} : a * b \in Nat \ {0}
  OBVIOUS
<1> QED
  BY <1>1, RingAssumption DEF MessageSize

\* There are finitely many of everything.
LEMMA RingIsFinite ==
    /\ IsFiniteSet(Proc) /\ IsFiniteSet(Worker)
    /\ \A p \in Proc : IsFiniteSet(Thread(p))
<1>1. IsFiniteSet(Proc)
  BY RingIs, FS_Interval
<1>2. ASSUME NEW p \in Proc
      PROVE  IsFiniteSet(Thread(p))
  <2>1. 0 \in Int /\ T[p] - 1 \in Int
    BY WorkerIs
  <2>2. IsFiniteSet(0 .. T[p] - 1)
    BY <2>1, FS_Interval
  <2> QED
    BY <2>2 DEF Thread
<1>3. IsFiniteSet(Worker)
  <2> DEFINE threads == [p \in Proc |-> {p} \X Thread(p)]
             all == {{p} \X Thread(p) : p \in Proc}
  <2>1. \A s \in all : IsFiniteSet(s)
    <3>1. ASSUME NEW p \in Proc
          PROVE  IsFiniteSet({p} \X Thread(p))
      <4>1. IsFiniteSet({p}) /\ IsFiniteSet(Thread(p))
        BY <1>2, FS_Singleton
      <4> HIDE DEF Thread
      <4> QED
        BY <4>1, FS_Product
    <3> QED
      BY <3>1
  <2>2. threads \in Surjection(Proc, all)
    BY DEF Surjection
  <2>3. IsFiniteSet(all)
    <3> HIDE DEF threads, all
    <3> QED
      BY <1>1, <2>2, FS_Surjection
  <2>4. IsFiniteSet(UNION all)
    <3> HIDE DEF all
    <3> QED
      BY <2>1, <2>3, FS_UNION
  <2> QED
    BY <2>4 DEF Worker
<1> QED
  BY <1>1, <1>2, <1>3

-----------------------------------------------------------------------------
(* Sums over the threads of all processes *)

\* What the threads of each process have, of a function of the workers, and
\* what all of them have.
Of(f) == [p \in Proc |-> SumFunction([t \in Thread(p) |-> f[<<p, t>>]])]
Total(f) == SumFunction(Of(f))

\* The sums are natural if the function is, and 0 only if it is 0 everywhere.
LEMMA TotalIsNat ==
    ASSUME NEW f \in [Worker -> Nat]
    PROVE  /\ Of(f) \in [Proc -> Nat] /\ Total(f) \in Nat
           /\ Total(f) = 0 <=> \A w \in Worker : f[w] = 0
           /\ \A p \in Proc : Of(f)[p] = 0 <=> \A t \in Thread(p) : f[<<p, t>>] = 0
<1>1. ASSUME NEW p \in Proc
      PROVE  /\ Of(f)[p] \in Nat
             /\ Of(f)[p] = 0 <=> \A t \in Thread(p) : f[<<p, t>>] = 0
  <2> DEFINE g == [t \in Thread(p) |-> f[<<p, t>>]]
  <2>1. g \in [Thread(p) -> Nat] /\ \A t \in Thread(p) : g[t] = f[<<p, t>>]
    BY WorkerIs
  <2>2. Of(f)[p] = SumFunction(g)
    BY DEF Of
  <2>3. IsFiniteSet(Thread(p))
    BY RingIsFinite
  <2> HIDE DEF g
  <2>4. SumFunction(g) \in Nat /\ (SumFunction(g) = 0 <=> \A t \in Thread(p) : g[t] = 0)
    BY <2>1, <2>3, SumNat
  <2> QED
    BY <2>1, <2>2, <2>4
<1>2. Of(f) \in [Proc -> Nat]
  <2>1. \A p \in Proc : Of(f)[p] \in Nat
    BY <1>1
  <2> QED
    BY <2>1 DEF Of
<1>3. Total(f) \in Nat /\ (Total(f) = 0 <=> \A p \in Proc : Of(f)[p] = 0)
  BY <1>2, RingIsFinite, SumNat DEF Total
<1>4. (\A p \in Proc : Of(f)[p] = 0) <=> \A w \in Worker : f[w] = 0
  BY <1>1, WorkerIs
<1> QED
  BY <1>1, <1>2, <1>3, <1>4

\* Two functions that differ at one worker have sums that differ by as much,
\* in that worker's process and in all.
LEMMA TotalOneChange ==
    ASSUME NEW f \in [Worker -> Nat], NEW g \in [Worker -> Nat], NEW w \in Worker,
           \A v \in Worker \ {w} : g[v] = f[v]
    PROVE  /\ \A p \in Proc \ {w[1]} : Of(g)[p] = Of(f)[p]
           /\ Of(g)[w[1]] - Of(f)[w[1]] = g[w] - f[w]
           /\ Total(g) - Total(f) = g[w] - f[w]
<1>1. w[1] \in Proc /\ w[2] \in Thread(w[1]) /\ w = <<w[1], w[2]>>
  BY WorkerIs
<1>2. /\ Of(f) \in [Proc -> Nat] /\ Of(g) \in [Proc -> Nat]
      /\ Total(f) \in Nat /\ Total(g) \in Nat
  BY TotalIsNat
<1>3. ASSUME NEW p \in Proc \ {w[1]}
      PROVE  Of(g)[p] = Of(f)[p]
  <2>1. \A t \in Thread(p) : <<p, t>> \in Worker \ {w}
    BY <1>1, WorkerIs
  <2>2. [t \in Thread(p) |-> g[<<p, t>>]] = [t \in Thread(p) |-> f[<<p, t>>]]
    BY <2>1, Zenon
  <2>3. /\ Of(g)[p] = SumFunction([t \in Thread(p) |-> g[<<p, t>>]])
        /\ Of(f)[p] = SumFunction([t \in Thread(p) |-> f[<<p, t>>]])
    BY Zenon DEF Of
  <2> QED
    BY <2>2, <2>3, Zenon
<1>4. Of(g)[w[1]] - Of(f)[w[1]] = g[w] - f[w]
  <2> DEFINE p == w[1]
             a == [t \in Thread(p) |-> f[<<p, t>>]]
             b == [t \in Thread(p) |-> g[<<p, t>>]]
  <2>1. /\ DOMAIN a = Thread(p) /\ DOMAIN b = Thread(p)
        /\ a[w[2]] = f[w] /\ b[w[2]] = g[w]
    BY <1>1, Zenon
  <2>2. \A t \in Thread(p) : a[t] \in Int /\ b[t] \in Int
    BY <1>1, WorkerIs
  <2>3. \A t \in Thread(p) \ {w[2]} : b[t] = a[t]
    <3>1. \A t \in Thread(p) \ {w[2]} : <<p, t>> \in Worker \ {w}
      BY <1>1, WorkerIs
    <3> QED
      BY <3>1
  <2>4. Of(f)[p] = SumFunction(a) /\ Of(g)[p] = SumFunction(b)
    BY <1>1, Zenon DEF Of
  <2>5. IsFiniteSet(Thread(p))
    BY <1>1, RingIsFinite
  <2> HIDE DEF p, a, b
  <2>6. w[2] \in Thread(p)
    BY <1>1 DEF p
  <2>7. SumFunction(b) - SumFunction(a) = b[w[2]] - a[w[2]]
    BY <2>1, <2>2, <2>3, <2>5, <2>6, SumOneChanges
  <2>8. Of(g)[p] - Of(f)[p] = g[w] - f[w]
    BY <2>1, <2>4, <2>7
  <2> QED
    BY <2>8 DEF p
<1>5. Total(g) - Total(f) = Of(g)[w[1]] - Of(f)[w[1]]
  <2>1. \A x \in Proc : Of(f)[x] \in Int /\ Of(g)[x] \in Int
    BY <1>2
  <2>2. DOMAIN Of(f) = Proc /\ DOMAIN Of(g) = Proc
    BY <1>2
  <2> DEFINE F == Of(f)
             G == Of(g)
  <2>3. /\ DOMAIN F = Proc /\ DOMAIN G = Proc /\ \A x \in Proc : F[x] \in Int /\ G[x] \in Int
        /\ \A y \in Proc \ {w[1]} : G[y] = F[y]
    BY <1>3, <2>1, <2>2
  <2> HIDE DEF F, G
  <2>4. SumFunction(G) - SumFunction(F) = G[w[1]] - F[w[1]]
    BY <1>1, <2>3, RingIsFinite, SumOneChanges
  <2> QED
    BY <2>4 DEF F, G, Total
<1> QED
  BY <1>2, <1>3, <1>4, <1>5

\* Two functions that differ at two workers.
LEMMA TotalTwoChanges ==
    ASSUME NEW f \in [Worker -> Nat], NEW g \in [Worker -> Nat],
           NEW w \in Worker, NEW v \in Worker, v # w,
           \A u \in Worker \ {w, v} : g[u] = f[u]
    PROVE  Total(g) - Total(f) = (g[w] - f[w]) + (g[v] - f[v])
<1> DEFINE h == [u \in Worker |-> IF u = w THEN g[w] ELSE f[u]]
<1>1. /\ h \in [Worker -> Nat] /\ h[w] = g[w] /\ h[v] = f[v]
      /\ \A u \in Worker \ {w} : h[u] = f[u]
      /\ \A u \in Worker \ {v} : g[u] = h[u]
  OBVIOUS
<1> HIDE DEF h
<1>2. Total(h) - Total(f) = h[w] - f[w]
  BY <1>1, TotalOneChange
<1>3. Total(g) - Total(h) = g[v] - h[v]
  BY <1>1, TotalOneChange
<1>4. /\ Total(f) \in Nat /\ Total(g) \in Nat /\ Total(h) \in Nat
      /\ f[w] \in Nat /\ f[v] \in Nat /\ g[w] \in Nat /\ g[v] \in Nat
  BY <1>1, TotalIsNat
<1> QED
  BY <1>1, <1>2, <1>3, <1>4
-----------------------------------------------------------------------------
(* The invariant *)

\* A thread that is about to ask has no request pending.
Posting == \A w \in Worker :
    pc[w] = "post" => ~waiting[w] /\ asked[w] < MaxRequests[w[1]]

\* A thread has a requester exactly while it deals with its request, and a
\* message in its buffer exactly when it is about to send it.
Serving == \A w \in Worker :
    (serving[w] # Nobody) <=> (pc[w] \in {"take", "send", "refuse"})
Loaded == \A w \in Worker :
    taken[w] = IF pc[w] = "send" THEN MessageSize ELSE 0

\* Where the request of a thread, or what has become of it, may be: on its way
\* to a process, with a listener, with the thread that serves it, on its way
\* back as the answer, and received but not yet counted.
Spots == ({"request"} \X Proc) \cup ({"listener", "service"} \X Worker)
           \cup ({"answer", "count"} \X {0})
IsAt(w, x) ==
    \/ x[1] = "request" /\ <<w, x[2]>> \in requests
    \/ x[1] = "listener" /\ wrin[x[2]] = w
    \/ x[1] = "service" /\ serving[x[2]] = w
    \/ x[1] = "answer" /\ answer[w] # Nothing
    \/ x[1] = "count" /\ pc[w] = "count"

\* It is in one place, and only while the thread waits for it or when it has
\* left without it.
AtMostOne == \A w \in Worker : \A x, y \in Spots : IsAt(w, x) /\ IsAt(w, y) => x = y
Awaited == \A w \in Worker : \A x \in Spots :
    IsAt(w, x) => waiting[w] \/ pc[w] \in {"barrier", "ended"}

-----------------------------------------------------------------------------
(* Types *)

\* The visit of a process leaves a well-formed token.
LEMMA VisitedType ==
    ASSUME TypeOK, NEW base \in {0, 2}, NEW p \in Proc, NEW r \in Nat, NEW s \in Nat
    PROVE  /\ Visited(base, p, r, s).recv_count \in [Proc -> Nat]
           /\ Visited(base, p, r, s).send_count \in [Proc -> Nat]
           /\ Visited(base, p, r, s).status \in [Proc -> 0 .. 4]
           /\ Restarted(base, p, r, s).recv_count \in [Proc -> Nat]
           /\ Restarted(base, p, r, s).send_count \in [Proc -> Nat]
           /\ Restarted(base, p, r, s).status \in [Proc -> 0 .. 4]
<1>1. /\ td_token.recv_count \in [Proc -> Nat] /\ td_token.send_count \in [Proc -> Nat]
      /\ td_token.status \in [Proc -> 0 .. 4]
  BY DEF TypeOK
<1>2. /\ Restarted(base, p, r, s).recv_count \in [Proc -> Nat]
      /\ Restarted(base, p, r, s).send_count \in [Proc -> Nat]
      /\ Restarted(base, p, r, s).status \in [Proc -> 0 .. 4]
  BY DEF Restarted
<1> QED
  BY <1>1, <1>2 DEF Visited

\* A token that is passed on is well-formed.
LEMMA PassType ==
    ASSUME NEW p \in Proc, NEW color \in {White, Pink, Red}, NEW counts,
           counts.recv_count \in [Proc -> Nat], counts.send_count \in [Proc -> Nat],
           counts.status \in [Proc -> 0 .. 4], Pass(p, color, counts)
    PROVE  td_token' \in [at : Proc, moving : BOOLEAN, color : {White, Pink, Red},
                          recv_count : [Proc -> Nat], send_count : [Proc -> Nat],
                          status : [Proc -> 0 .. 4]]
BY RingIs DEF Pass

\* A step of a thread keeps the types.
LEMMA TypeOfStep ==
    ASSUME TypeOK, Posting, Serving, Loaded, NEW w \in Worker, Step(w)
    PROVE  TypeOK'
<1> USE WorkerIs, SizesAre DEF Goto, workVars, askVars, netVars, countVars, tokenVars
<1>1. CASE SolveBase(w)
  BY <1>1 DEF TypeOK, SolveBase, Labels
<1>2. ASSUME NEW k \in Fanout, Expand(w, k)
      PROVE  TypeOK'
  <2> DEFINE depth == localDepth[w] - 1 + k
             kept == IF depth > 2 * ChunkSize THEN depth % ChunkSize ELSE depth
  <2>1. /\ localDepth[w] \in Nat \ {0} /\ k \in Nat /\ ChunkSize \in Nat \ {0}
        /\ sharedDepth[w] \in Nat /\ created + k \in Nat /\ processed + 1 \in Nat
    <3>1. /\ localDepth \in [Worker -> Nat] /\ sharedDepth \in [Worker -> Nat]
          /\ created \in Nat /\ processed \in Nat
      BY DEF TypeOK
    <3>2. k \in Nat
      BY RingAssumption
    <3>3. localDepth[w] > 0
      BY <1>2 DEF Expand
    <3> QED
      BY <3>1, <3>2, <3>3
  <2>2. depth \in Nat /\ kept \in Nat /\ depth - kept \in Nat
    <3>1. \A a \in Nat : \A b \in Nat \ {0} : a % b \in Nat /\ a % b < b
      OBVIOUS
    <3> QED
      BY <2>1, <3>1
  <2>3. sharedDepth[w] + depth - kept \in Nat
    BY <2>1, <2>2
  <2>4. /\ localDepth' = [localDepth EXCEPT ![w] = kept]
        /\ sharedDepth' = [sharedDepth EXCEPT ![w] = @ + depth - kept]
        /\ created' = created + k /\ processed' = processed + 1
        /\ \/ pc' = pc /\ resume' = resume
           \/ /\ pc' = [pc EXCEPT ![w] = "progress"]
              /\ resume' = [resume EXCEPT ![w] = "work"]
        /\ UNCHANGED <<askVars, netVars, countVars, tokenVars, serving, taken>>
    BY <1>2, Zenon DEF Expand
  <2> HIDE DEF depth, kept
  <2> QED
    <3>1. /\ localDepth' \in [Worker -> Nat] /\ sharedDepth' \in [Worker -> Nat]
          /\ created' \in Nat /\ processed' \in Nat
      BY <2>1, <2>2, <2>3, <2>4 DEF TypeOK
    <3>2. pc' \in [Worker -> Labels] /\ resume' \in [Worker -> {"work", "receive"}]
      <4>1. CASE pc' = pc /\ resume' = resume
        BY <4>1 DEF TypeOK
      <4>2. CASE /\ pc' = [pc EXCEPT ![w] = "progress"]
                 /\ resume' = [resume EXCEPT ![w] = "work"]
        BY <4>2 DEF TypeOK, Labels
      <4> QED
        BY <2>4, <4>1, <4>2
    <3> QED
      BY <2>4, <3>1, <3>2 DEF TypeOK
<1>3. CASE Acquire(w)
  <2>1. CASE sharedDepth[w] >= ChunkSize
    <3>1. sharedDepth[w] - ChunkSize \in Nat
      BY <2>1 DEF TypeOK
    <3> QED
      <4>1. /\ localDepth' = [localDepth EXCEPT ![w] = ChunkSize]
            /\ sharedDepth' = [sharedDepth EXCEPT ![w] = @ - ChunkSize]
            /\ UNCHANGED <<created, processed, askVars, netVars, countVars, tokenVars,
                           pc, resume, serving, taken>>
        BY <1>3, <2>1 DEF Acquire
      <4>2. localDepth' \in [Worker -> Nat] /\ sharedDepth' \in [Worker -> Nat]
        BY <3>1, <4>1 DEF TypeOK
      <4> QED
        BY <4>1, <4>2 DEF TypeOK
  <2>2. CASE ~(sharedDepth[w] >= ChunkSize)
    BY <1>3, <2>2, ZenonT(40) DEF TypeOK, Acquire, Labels
  <2> QED
    BY <2>1, <2>2
<1>4. ASSUME NEW v \in Siblings(w), StealHere(w, v)
      PROVE  TypeOK'
  BY <1>4, SMTT(30) DEF TypeOK, StealHere, Labels, Siblings
<1>5. CASE NothingHere(w)
  BY <1>5 DEF TypeOK, NothingHere, Labels
<1>6. CASE GetWork(w)
  BY <1>6 DEF TypeOK, GetWork, Labels
<1>7. CASE Post(w)
  <2>1. last_steal[w] \in Proc /\ NextVictim(w) \in Proc
    BY RingIs DEF TypeOK, NextVictim
  <2>2. asked[w] + 1 \in Nat /\ asked[w] + 1 <= MaxRequests[w[1]]
    <3>1. asked[w] \in Nat /\ asked[w] < MaxRequests[w[1]]
      BY <1>7 DEF TypeOK, Posting, Post
    <3>2. MaxRequests[w[1]] \in Nat
      BY RingAssumption DEF Proc
    <3> QED
      BY <3>1, <3>2
  <2>3. requests' \subseteq Worker \X Proc
    BY <1>7, <2>1 DEF TypeOK, Post
  <2>4. asked' \in [Worker -> Nat] /\ \A u \in Worker : asked'[u] <= MaxRequests[u[1]]
    BY <1>7, <2>2 DEF TypeOK, Post
  <2>5. ctrl_sent' \in [Proc -> Nat]
    BY <1>7 DEF TypeOK, Post
  <2> QED
    BY <1>7, <2>1, <2>3, <2>4, <2>5 DEF TypeOK, Post, Labels
<1>8. CASE ReceiveWork(w)
  <2>1. localDepth[w] + answer[w] \in Nat
    <3>1. localDepth[w] \in Nat /\ answer[w] \in {Nothing, 0, MessageSize}
      BY DEF TypeOK
    <3> QED
      BY <3>1, <1>8 DEF ReceiveWork, Nothing
  <2> QED
    BY <1>8, <2>1 DEF TypeOK, ReceiveWork, Labels
<1>9. CASE CountWork(w)
  BY <1>9 DEF TypeOK, CountWork, Labels
<1>10. CASE ReceiveRefusal(w)
  BY <1>10 DEF TypeOK, ReceiveRefusal, Labels
<1>11. CASE NoAnswer(w)
  BY <1>11 DEF TypeOK, NoAnswer, Labels
<1>12. CASE NoRequest(w)
  BY <1>12 DEF TypeOK, NoRequest, Labels
<1>13. CASE Accept(w)
  <2>1. wrin' \in [Worker -> Worker \cup {Nobody, Closed}]
    BY <1>13 DEF TypeOK, Accept
  <2>2. serving' \in [Worker -> Worker \cup {Nobody}]
    BY <1>13 DEF TypeOK, Accept
  <2>3. ctrl_recvd' \in [Proc -> Nat]
    BY <1>13 DEF TypeOK, Accept
  <2> QED
    BY <1>13, <2>1, <2>2, <2>3 DEF TypeOK, Accept, Labels
<1>14. ASSUME NEW v \in Worker, TakeForRemote(w, v)
      PROVE  TypeOK'
  <2>1. sharedDepth[v] - MessageSize \in Nat
    BY <1>14 DEF TypeOK, TakeForRemote
  <2>2. sharedDepth' \in [Worker -> Nat]
    BY <1>14, <2>1 DEF TypeOK, TakeForRemote
  <2> QED
    BY <1>14, <2>2 DEF TypeOK, TakeForRemote, Labels
<1>15. CASE NothingForRemote(w)
  BY <1>15 DEF TypeOK, NothingForRemote, Labels
<1>16. CASE SendWork(w)
  BY <1>16 DEF TypeOK, SendWork, Labels, Serving, Loaded
<1>17. CASE Refuse(w)
  BY <1>17 DEF TypeOK, Refuse, Labels, Serving
<1>18. CASE SkipToken(w)
  BY <1>18 DEF TypeOK, SkipToken, Labels, After
<1>19. CASE Clear(w)
  BY <1>19 DEF TypeOK, Clear, Labels
<1>20. CASE End(w)
  BY <1>20 DEF TypeOK, End, Labels
<1> QED
  BY <1>1, <1>2, <1>3, <1>4, <1>5, <1>6, <1>7, <1>8, <1>9, <1>10, <1>11, <1>12, <1>13, <1>14, <1>15, <1>16, <1>17, <1>18, <1>19, <1>20 DEF Step

\* A visit of the token keeps the types.
LEMMA TypeOfTokenStep ==
    ASSUME TypeOK, NEW p \in Proc, TokenStep(p)
    PROVE  TypeOK'
<1> USE DEF Goto, workVars, askVars, netVars, countVars
<1>0. Leader(p) \in Worker /\ \A q \in Proc : T[q] \in Nat
  <2>1. \A q \in Proc : T[q] \in Nat \ {0}
    BY WorkerIs
  <2>2. Leader(p) \in Worker
    BY WorkerIs
  <2> QED
    BY <2>1, <2>2
<1>1. CASE TakeToken(p)
  <2>1. td_token' \in [at : Proc, moving : BOOLEAN, color : {White, Pink, Red},
                        recv_count : [Proc -> Nat], send_count : [Proc -> Nat],
                        status : [Proc -> 0 .. 4]]
    BY <1>1 DEF TypeOK, TakeToken
  <2>2. pc' \in [Worker -> Labels]
    BY <1>0, <1>1 DEF TypeOK, TakeToken, Labels
  <2>3. scanned' \in [Proc -> Nat] /\ \A q \in Proc : scanned'[q] <= T[q]
    <3>1. \A q \in Proc : 0 <= T[q]
      BY <1>0
    <3>2. /\ scanned \in [Proc -> Nat] /\ \A q \in Proc : scanned[q] <= T[q]
          /\ scanned' = [scanned EXCEPT ![p] = 0]
      BY <1>1 DEF TypeOK, TakeToken
    <3> QED
      BY <3>1, <3>2
  <2> QED
    BY <1>1, <2>1, <2>2, <2>3 DEF TypeOK, TakeToken
<1>2. CASE Scan(p)
  <2>1. scanned' \in [Proc -> Nat] /\ \A q \in Proc : scanned'[q] <= T[q]
    <3>1. /\ scanned \in [Proc -> Nat] /\ \A q \in Proc : scanned[q] <= T[q]
          /\ T[p] \in Nat /\ scanned[p] < T[p]
          /\ scanned' = scanned \/ scanned' = [scanned EXCEPT ![p] = @ + 1]
      BY <1>0, <1>2 DEF TypeOK, Scan
    <3>2. CASE scanned' = [scanned EXCEPT ![p] = @ + 1]
      <4>1. scanned[p] + 1 \in Nat /\ scanned[p] + 1 <= T[p]
        <5>1. scanned[p] \in Nat /\ T[p] \in Nat /\ scanned[p] < T[p]
          BY <3>1
        <5> QED
          BY <5>1
      <4>2. \A q \in Proc : scanned'[q] = IF q = p THEN scanned[p] + 1 ELSE scanned[q]
        BY <3>1, <3>2
      <4> QED
        BY <3>1, <3>2, <4>1, <4>2
    <3> QED
      BY <3>1, <3>2
  <2>2. pc' \in [Worker -> Labels]
    <3>1. /\ pc \in [Worker -> Labels]
          /\ pc' = pc \/ pc' = [pc EXCEPT ![Leader(p)] = After(Leader(p), White)]
      BY <1>2 DEF TypeOK, Scan
    <3>2. After(Leader(p), White) \in Labels
      BY DEF After, Labels
    <3> QED
      BY <1>0, <3>1, <3>2
  <2> QED
    BY <1>2, <2>1, <2>2 DEF TypeOK, Scan
<1> DEFINE Token == [at : Proc, moving : BOOLEAN, color : {White, Pink, Red},
                     recv_count : [Proc -> Nat], send_count : [Proc -> Nat],
                     status : [Proc -> 0 .. 4]]
<1>3. CASE WhiteVisit(p)
  <2>1. /\ chunks_recvd[p] \in Nat /\ chunks_sent[p] \in Nat
        /\ ctrl_recvd[p] \in Nat /\ ctrl_sent[p] \in Nat
    BY DEF TypeOK
  <2>2. CASE p = 0 /\ Settled(0, p, chunks_recvd[p], chunks_sent[p])
    <3>1. td_token' \in Token
      <4>1. Pass(p, Pink, Restarted(2, p, ctrl_recvd[p], ctrl_sent[p]))
        BY <1>3, <2>2 DEF WhiteVisit
      <4> QED
        BY <2>1, <4>1, VisitedType, PassType
    <3>2. pc' \in [Worker -> Labels]
      BY <1>0, <1>3 DEF TypeOK, WhiteVisit, Labels
    <3>3. my_color' \in [Proc -> {White, Pink, Red}]
      BY <1>3, <2>2 DEF TypeOK, WhiteVisit
    <3> QED
      BY <1>3, <2>2, <3>1, <3>2, <3>3 DEF TypeOK, WhiteVisit
  <2>3. CASE ~(p = 0 /\ Settled(0, p, chunks_recvd[p], chunks_sent[p]))
    <3>1. td_token' \in Token
      <4>1. Pass(p, White, Visited(0, p, chunks_recvd[p], chunks_sent[p]))
        BY <1>3, <2>3 DEF WhiteVisit
      <4> QED
        BY <2>1, <4>1, VisitedType, PassType
    <3> QED
      BY <1>0, <1>3, <2>3, <3>1 DEF TypeOK, WhiteVisit, Labels
  <2> QED
    BY <2>2, <2>3
<1>4. CASE PinkVisit(p)
  <2> DEFINE color == IF p = 0 /\ Settled(2, p, ctrl_recvd[p], ctrl_sent[p]) THEN Red ELSE Pink
  <2>1. ctrl_recvd[p] \in Nat /\ ctrl_sent[p] \in Nat
    BY DEF TypeOK
  <2>2. /\ Pass(p, color, Visited(2, p, ctrl_recvd[p], ctrl_sent[p]))
        /\ Goto(Leader(p), "visit", After(Leader(p), color))
        /\ my_color' = [my_color EXCEPT ![p] = color]
        /\ UNCHANGED <<workVars, askVars, netVars, countVars, scanned, resume,
                       serving, taken>>
    BY <1>4, Zenon DEF PinkVisit
  <2>3. color \in {White, Pink, Red}
    OBVIOUS
  <2> HIDE DEF color
  <2>4. td_token' \in Token
    <3> DEFINE counts == Visited(2, p, ctrl_recvd[p], ctrl_sent[p])
    <3>1. /\ counts.recv_count \in [Proc -> Nat] /\ counts.send_count \in [Proc -> Nat]
          /\ counts.status \in [Proc -> 0 .. 4]
      BY <2>1, VisitedType
    <3>2. Pass(p, color, counts)
      BY <2>2
    <3> HIDE DEF counts
    <3> QED
      BY <2>3, <3>1, <3>2, PassType
  <2>5. pc' \in [Worker -> Labels]
    BY <1>0, <2>2 DEF TypeOK, After, Labels
  <2> QED
    BY <2>2, <2>3, <2>4, <2>5 DEF TypeOK
<1>5. CASE RedVisit(p)
  <2>1. td_token' \in Token
    <3>1. td_token \in Token /\ Next1(p) \in Proc
      BY RingIs DEF TypeOK
    <3> QED
      BY <1>5, <3>1 DEF RedVisit
  <2> QED
    BY <1>0, <1>5, <2>1 DEF TypeOK, RedVisit, Labels
<1> QED
  BY <1>1, <1>2, <1>3, <1>4, <1>5 DEF TokenStep

\* So does the delivery of a request.
LEMMA TypeOfDelivery ==
    ASSUME TypeOK, NEW p \in Proc, Deliver(p)
    PROVE  TypeOK'
<1>1. PICK t \in Thread(p), r \in Worker : Match(<<p, t>>, r)
  BY DEF Deliver
<1>2. <<p, t>> \in Worker
  BY WorkerIs
<1>3. wrin' \in [Worker -> Worker \cup {Nobody, Closed}]
  BY <1>1, <1>2 DEF TypeOK, Match
<1> QED
  BY <1>1, <1>2, <1>3 DEF TypeOK, Match, workVars, askVars, countVars, tokenVars

-----------------------------------------------------------------------------
(* What a thread has in its hands *)

\* A step of a thread keeps what a thread at each place holds.
LEMMA HandsOfStep ==
    ASSUME TypeOK, Posting, Serving, Loaded, NEW w \in Worker, Step(w)
    PROVE  Posting' /\ Serving' /\ Loaded'
<1> USE DEF Goto, askVars, netVars
<1>0. /\ pc \in [Worker -> Labels] /\ serving \in [Worker -> Worker \cup {Nobody}]
      /\ taken \in [Worker -> {0, MessageSize}] /\ resume[w] \in {"work", "receive"}
      /\ waiting \in [Worker -> BOOLEAN] /\ asked \in [Worker -> Nat]
      /\ wrin \in [Worker -> Worker \cup {Nobody, Closed}] /\ Nobody \notin Worker
  BY WorkerIs DEF TypeOK
<1>1. CASE SolveBase(w)
  BY <1>0, <1>1 DEF Posting, Serving, Loaded, SolveBase
<1>2. ASSUME NEW k \in Fanout, Expand(w, k)
      PROVE  Posting' /\ Serving' /\ Loaded'
  BY <1>0, <1>2 DEF Posting, Serving, Loaded, Expand
<1>3. CASE Acquire(w)
  BY <1>0, <1>3 DEF Posting, Serving, Loaded, Acquire
<1>4. ASSUME NEW v \in Siblings(w), StealHere(w, v)
      PROVE  Posting' /\ Serving' /\ Loaded'
  BY <1>0, <1>4 DEF Posting, Serving, Loaded, StealHere
<1>5. CASE NothingHere(w)
  BY <1>0, <1>5 DEF Posting, Serving, Loaded, NothingHere
<1>6. CASE GetWork(w)
  BY <1>0, <1>6 DEF Posting, Serving, Loaded, GetWork
<1>7. CASE Post(w)
  BY <1>0, <1>7 DEF Posting, Serving, Loaded, Post
<1>8. CASE ReceiveWork(w)
  BY <1>0, <1>8 DEF Posting, Serving, Loaded, ReceiveWork
<1>9. CASE CountWork(w)
  BY <1>0, <1>9 DEF Posting, Serving, Loaded, CountWork
<1>10. CASE ReceiveRefusal(w)
  BY <1>0, <1>10 DEF Posting, Serving, Loaded, ReceiveRefusal
<1>11. CASE NoAnswer(w)
  BY <1>0, <1>11 DEF Posting, Serving, Loaded, NoAnswer
<1>12. CASE NoRequest(w)
  BY <1>0, <1>12 DEF Posting, Serving, Loaded, NoRequest
<1>13. CASE Accept(w)
  BY <1>0, <1>13 DEF Posting, Serving, Loaded, Accept
<1>14. ASSUME NEW v \in Worker, TakeForRemote(w, v)
      PROVE  Posting' /\ Serving' /\ Loaded'
  BY <1>0, <1>14 DEF Posting, Serving, Loaded, TakeForRemote
<1>15. CASE NothingForRemote(w)
  BY <1>0, <1>15 DEF Posting, Serving, Loaded, NothingForRemote
<1>16. CASE SendWork(w)
  BY <1>0, <1>16 DEF Posting, Serving, Loaded, SendWork
<1>17. CASE Refuse(w)
  BY <1>0, <1>17 DEF Posting, Serving, Loaded, Refuse
<1>18. CASE SkipToken(w)
  BY <1>0, <1>18 DEF Posting, Serving, Loaded, SkipToken, After
<1>19. CASE Clear(w)
  BY <1>0, <1>19 DEF Posting, Serving, Loaded, Clear
<1>20. CASE End(w)
  BY <1>0, <1>20 DEF Posting, Serving, Loaded, End
<1> QED
  BY <1>1, <1>2, <1>3, <1>4, <1>5, <1>6, <1>7, <1>8, <1>9, <1>10, <1>11, <1>12, <1>13, <1>14, <1>15, <1>16, <1>17, <1>18, <1>19, <1>20 DEF Step

\* So does a visit of the token, and a delivery.
LEMMA HandsOfTokenStep ==
    ASSUME TypeOK, Posting, Serving, Loaded, NEW p \in Proc, TokenStep(p)
    PROVE  Posting' /\ Serving' /\ Loaded'
<1>0. /\ pc \in [Worker -> Labels] /\ Leader(p) \in Worker
  BY WorkerIs DEF TypeOK
<1> DEFINE ld == Leader(p)
<1>1. /\ UNCHANGED <<asked, waiting, serving, taken>>
      /\ pc[ld] \in {"token", "scan", "visit"}
      /\ \/ pc' = pc
         \/ \E l \in {"scan", "visit", "search", "work", "clear"} : pc' = [pc EXCEPT ![ld] = l]
  <2>1. CASE TakeToken(p)
    BY <2>1 DEF TakeToken, Goto, askVars
  <2>2. CASE Scan(p)
    BY <2>2 DEF Scan, askVars, After
  <2>3. CASE WhiteVisit(p)
    BY <2>3 DEF WhiteVisit, Goto, askVars
  <2>4. CASE PinkVisit(p)
    BY <2>4 DEF PinkVisit, Goto, askVars, After
  <2>5. CASE RedVisit(p)
    BY <2>5 DEF RedVisit, Goto, askVars
  <2> QED
    BY <2>1, <2>2, <2>3, <2>4, <2>5 DEF TokenStep
<1>2. /\ ld \in Worker
      /\ \A w \in Worker \ {ld} : pc'[w] = pc[w]
      /\ pc[ld] \in {"token", "scan", "visit"}
      /\ pc'[ld] \in {"token", "scan", "visit", "search", "work", "clear"}
  BY <1>0, <1>1
<1> HIDE DEF ld
<1> QED
  BY <1>1, <1>2 DEF Posting, Serving, Loaded

\* A delivery moves a request from its way to a listener: no thread moves, and
\* nobody's hands fill or empty.
LEMMA HandsOfDelivery ==
    ASSUME TypeOK, Posting, Serving, Loaded, NEW p \in Proc, Deliver(p)
    PROVE  Posting' /\ Serving' /\ Loaded'
BY DEF Deliver, Match, Posting, Serving, Loaded, askVars

-----------------------------------------------------------------------------
(* What becomes of a request *)

\* The five kinds of places.
LEMMA SpotsAre ==
    /\ \A q \in Proc : <<"request", q>> \in Spots
    /\ \A v \in Worker : <<"listener", v>> \in Spots /\ <<"service", v>> \in Spots
    /\ <<"answer", 0>> \in Spots /\ <<"count", 0>> \in Spots
    /\ \A x \in Spots :
        \/ \E q \in Proc : x = <<"request", q>>
        \/ \E v \in Worker : x = <<"listener", v>> \/ x = <<"service", v>>
        \/ x = <<"answer", 0>> \/ x = <<"count", 0>>
BY DEF Spots

\* What it means to be at each of them.
LEMMA PlacesAre ==
    ASSUME NEW w
    PROVE  /\ \A q : IsAt(w, <<"request", q>>) <=> <<w, q>> \in requests
           /\ \A v : IsAt(w, <<"listener", v>>) <=> wrin[v] = w
           /\ \A v : IsAt(w, <<"service", v>>) <=> serving[v] = w
           /\ IsAt(w, <<"answer", 0>>) <=> answer[w] # Nothing
           /\ IsAt(w, <<"count", 0>>) <=> pc[w] = "count"
BY DEF IsAt

\* Nothing comes to a place: the step has moved no request.
LEMMA NothingMoves ==
    ASSUME AtMostOne, Awaited,
           \A w \in Worker : \A x \in Spots : IsAt(w, x)' => IsAt(w, x),
           \A w \in Worker : \A x \in Spots : IsAt(w, x)' /\ waiting[w] => waiting'[w],
           \A w \in Worker : pc[w] \in {"barrier", "ended"} => pc'[w] \in {"barrier", "ended"}
    PROVE  AtMostOne' /\ Awaited'
BY DEF AtMostOne, Awaited

\* The request of r goes from one place to another.
LEMMA OneMoves ==
    ASSUME AtMostOne, Awaited, NEW r \in Worker, NEW a \in Spots, NEW b \in Spots,
           IsAt(r, a),
           \A w \in Worker \ {r} : \A x \in Spots : IsAt(w, x)' => IsAt(w, x),
           \A x \in Spots : IsAt(r, x)' => (IsAt(r, x) /\ x # a) \/ x = b,
           waiting' = waiting,
           \A w \in Worker : pc[w] \in {"barrier", "ended"} => pc'[w] \in {"barrier", "ended"}
    PROVE  AtMostOne' /\ Awaited'
<1>1. \A x \in Spots : IsAt(r, x)' => x = b
  BY DEF AtMostOne
<1>2. waiting'[r] \/ pc'[r] \in {"barrier", "ended"}
  BY DEF Awaited
<1>3. AtMostOne'
  BY <1>1 DEF AtMostOne
<1>4. Awaited'
  BY <1>1, <1>2 DEF Awaited
<1> QED
  BY <1>3, <1>4

\* A step that touches no message and no request leaves all where they are.
LEMMA SpotsStay ==
    ASSUME AtMostOne, Awaited,
           UNCHANGED <<requests, wrin, serving, answer, waiting>>,
           \A w \in Worker : pc'[w] = "count" => pc[w] = "count",
           \A w \in Worker : pc[w] \in {"barrier", "ended"} => pc'[w] \in {"barrier", "ended"}
    PROVE  AtMostOne' /\ Awaited'
<1>1. \A w \in Worker : \A x \in Spots : IsAt(w, x)' => IsAt(w, x)
  BY DEF IsAt
<1> QED
  BY <1>1, NothingMoves


\* A step of a thread keeps every request in one place.
LEMMA SpotsOfStep ==
    ASSUME TypeOK, Posting, Serving, Loaded, AtMostOne, Awaited, NEW w \in Worker, Step(w)
    PROVE  AtMostOne' /\ Awaited'
<1> USE DEF Goto
<1>0. /\ pc \in [Worker -> Labels] /\ serving \in [Worker -> Worker \cup {Nobody}]
      /\ resume[w] \in {"work", "receive"} /\ waiting \in [Worker -> BOOLEAN]
      /\ wrin \in [Worker -> Worker \cup {Nobody, Closed}] /\ Nobody \notin Worker
      /\ answer \in [Worker -> {Nothing, 0, MessageSize}] /\ Closed \notin Worker
      /\ requests \subseteq Worker \X Proc
  BY WorkerIs DEF TypeOK
<1>1. CASE SolveBase(w)
  <2>1. /\ UNCHANGED <<requests, wrin, serving, answer, waiting>>
        /\ \A u \in Worker : pc'[u] = "count" => pc[u] = "count"
        /\ \A u \in Worker : pc[u] \in {"barrier", "ended"} => pc'[u] \in {"barrier", "ended"}
    BY <1>0, <1>1 DEF SolveBase, askVars, netVars
  <2> QED
    BY <2>1, SpotsStay
<1>2. ASSUME NEW k \in Fanout, Expand(w, k)
      PROVE  AtMostOne' /\ Awaited'
  <2>1. /\ UNCHANGED <<requests, wrin, serving, answer, waiting>>
        /\ \A u \in Worker : pc'[u] = "count" => pc[u] = "count"
        /\ \A u \in Worker : pc[u] \in {"barrier", "ended"} => pc'[u] \in {"barrier", "ended"}
    BY <1>0, <1>2 DEF Expand, askVars, netVars
  <2> QED
    BY <2>1, SpotsStay
<1>3. CASE Acquire(w)
  <2>1. /\ UNCHANGED <<requests, wrin, serving, answer, waiting>>
        /\ \A u \in Worker : pc'[u] = "count" => pc[u] = "count"
        /\ \A u \in Worker : pc[u] \in {"barrier", "ended"} => pc'[u] \in {"barrier", "ended"}
    BY <1>0, <1>3 DEF Acquire, askVars, netVars
  <2> QED
    BY <2>1, SpotsStay
<1>4. ASSUME NEW v \in Siblings(w), StealHere(w, v)
      PROVE  AtMostOne' /\ Awaited'
  <2>1. /\ UNCHANGED <<requests, wrin, serving, answer, waiting>>
        /\ \A u \in Worker : pc'[u] = "count" => pc[u] = "count"
        /\ \A u \in Worker : pc[u] \in {"barrier", "ended"} => pc'[u] \in {"barrier", "ended"}
    BY <1>0, <1>4 DEF StealHere, askVars, netVars
  <2> QED
    BY <2>1, SpotsStay
<1>5. CASE NothingHere(w)
  <2>1. /\ UNCHANGED <<requests, wrin, serving, answer, waiting>>
        /\ \A u \in Worker : pc'[u] = "count" => pc[u] = "count"
        /\ \A u \in Worker : pc[u] \in {"barrier", "ended"} => pc'[u] \in {"barrier", "ended"}
    BY <1>0, <1>5 DEF NothingHere, askVars, netVars
  <2> QED
    BY <2>1, SpotsStay
<1>6. CASE GetWork(w)
  <2>1. /\ UNCHANGED <<requests, wrin, serving, answer, waiting>>
        /\ \A u \in Worker : pc'[u] = "count" => pc[u] = "count"
        /\ \A u \in Worker : pc[u] \in {"barrier", "ended"} => pc'[u] \in {"barrier", "ended"}
    BY <1>0, <1>6 DEF GetWork, askVars, netVars
  <2> QED
    BY <2>1, SpotsStay
<1>7. CASE NoAnswer(w)
  <2>1. /\ UNCHANGED <<requests, wrin, serving, answer, waiting>>
        /\ \A u \in Worker : pc'[u] = "count" => pc[u] = "count"
        /\ \A u \in Worker : pc[u] \in {"barrier", "ended"} => pc'[u] \in {"barrier", "ended"}
    BY <1>0, <1>7 DEF NoAnswer, askVars, netVars
  <2> QED
    BY <2>1, SpotsStay
<1>8. CASE NoRequest(w)
  <2>1. /\ UNCHANGED <<requests, wrin, serving, answer, waiting>>
        /\ \A u \in Worker : pc'[u] = "count" => pc[u] = "count"
        /\ \A u \in Worker : pc[u] \in {"barrier", "ended"} => pc'[u] \in {"barrier", "ended"}
    BY <1>0, <1>8 DEF NoRequest, askVars, netVars
  <2> QED
    BY <2>1, SpotsStay
<1>9. ASSUME NEW v \in Worker, TakeForRemote(w, v)
      PROVE  AtMostOne' /\ Awaited'
  <2>1. /\ UNCHANGED <<requests, wrin, serving, answer, waiting>>
        /\ \A u \in Worker : pc'[u] = "count" => pc[u] = "count"
        /\ \A u \in Worker : pc[u] \in {"barrier", "ended"} => pc'[u] \in {"barrier", "ended"}
    BY <1>0, <1>9 DEF TakeForRemote, askVars, netVars
  <2> QED
    BY <2>1, SpotsStay
<1>10. CASE NothingForRemote(w)
  <2>1. /\ UNCHANGED <<requests, wrin, serving, answer, waiting>>
        /\ \A u \in Worker : pc'[u] = "count" => pc[u] = "count"
        /\ \A u \in Worker : pc[u] \in {"barrier", "ended"} => pc'[u] \in {"barrier", "ended"}
    BY <1>0, <1>10 DEF NothingForRemote, askVars, netVars
  <2> QED
    BY <2>1, SpotsStay
<1>11. CASE SkipToken(w)
  <2>1. /\ UNCHANGED <<requests, wrin, serving, answer, waiting>>
        /\ \A u \in Worker : pc'[u] = "count" => pc[u] = "count"
        /\ \A u \in Worker : pc[u] \in {"barrier", "ended"} => pc'[u] \in {"barrier", "ended"}
    BY <1>0, <1>11 DEF SkipToken, After, askVars, netVars
  <2> QED
    BY <2>1, SpotsStay
<1>12. CASE End(w)
  <2>1. /\ UNCHANGED <<requests, wrin, serving, answer, waiting>>
        /\ \A u \in Worker : pc'[u] = "count" => pc[u] = "count"
        /\ \A u \in Worker : pc[u] \in {"barrier", "ended"} => pc'[u] \in {"barrier", "ended"}
    BY <1>0, <1>12 DEF End, askVars, netVars
  <2> QED
    BY <2>1, SpotsStay
<1> DEFINE left(u) == pc[u] \in {"barrier", "ended"}
<1>13. CASE Post(w)
  <2> DEFINE q == NextVictim(w)
             b == <<"request", q>>
  <2>1. /\ pc[w] = "post" /\ pc' = [pc EXCEPT ![w] = "progress"]
        /\ requests' = requests \cup {<<w, q>>} /\ waiting' = [waiting EXCEPT ![w] = TRUE]
        /\ UNCHANGED <<wrin, serving, answer>>
    BY <1>13, Zenon DEF Post
  <2>2. \A x \in Spots : ~IsAt(w, x)
    BY <2>1 DEF Posting, Awaited
  <2>3. \A u \in Worker \ {w} : \A x \in Spots : IsAt(u, x)' => IsAt(u, x)
    BY <1>0, <2>1 DEF IsAt
  <2>4. \A x \in Spots : IsAt(w, x)' => x = b
    <3>1. \A x \in Spots : IsAt(w, x)' => IsAt(w, x) \/ (x[1] = "request" /\ x[2] = q)
      BY <1>0, <2>1 DEF IsAt
    <3>2. \A x \in Spots : x[1] = "request" => x = <<"request", x[2]>>
      BY DEF Spots
    <3> QED
      BY <2>2, <3>1, <3>2
  <2> HIDE DEF b, q
  <2>5. AtMostOne'
    BY <2>3, <2>4 DEF AtMostOne
  <2>6. \A u \in Worker \ {w} : waiting'[u] = waiting[u] /\ pc'[u] = pc[u]
    BY <1>0, <2>1
  <2>7. waiting'[w]
    BY <1>0, <2>1
  <2>8. Awaited'
    BY <2>3, <2>6, <2>7 DEF Awaited
  <2> QED
    BY <2>5, <2>8
<1>14. CASE ReceiveWork(w)
  <2>1. /\ pc[w] = "receive" /\ pc' = [pc EXCEPT ![w] = "count"] /\ answer[w] > 0
        /\ answer' = [answer EXCEPT ![w] = Nothing]
        /\ UNCHANGED <<wrin, requests, serving, waiting>>
    BY <1>14 DEF ReceiveWork, askVars
  <2>2. answer[w] # Nothing
    BY <1>0, <2>1 DEF Nothing
  <2>3. IsAt(w, <<"answer", 0>>) /\ <<"answer", 0>> \in Spots /\ <<"count", 0>> \in Spots
    BY <2>2, SpotsAre, PlacesAre
  <2>4. \A u \in Worker \ {w} : \A x \in Spots : IsAt(u, x)' => IsAt(u, x)
    BY <1>0, <2>1 DEF IsAt
  <2>5. \A x \in Spots : IsAt(w, x)' => (IsAt(w, x) /\ x # <<"answer", 0>>) \/ x = <<"count", 0>>
    BY <1>0, <2>1 DEF IsAt, Spots
  <2>6. \A u \in Worker : left(u) => left(u)'
    BY <1>0, <2>1
  <2> QED
    BY <2>1, <2>3, <2>4, <2>5, <2>6, OneMoves
<1>15. CASE CountWork(w)
  <2>1. /\ pc[w] = "count" /\ pc' = [pc EXCEPT ![w] = "token"]
        /\ waiting' = [waiting EXCEPT ![w] = FALSE]
        /\ UNCHANGED <<wrin, requests, answer, serving>>
    BY <1>15 DEF CountWork, netVars
  <2>2. \A x \in Spots : IsAt(w, x) => x = <<"count", 0>>
    BY <2>1, SpotsAre, PlacesAre DEF AtMostOne
  <2>3. \A x \in Spots : ~IsAt(w, x)'
    <3>1. \A x \in Spots : IsAt(w, x)' => IsAt(w, x) /\ x # <<"count", 0>>
      BY <1>0, <2>1 DEF IsAt
    <3> QED
      BY <2>2, <3>1
  <2>4. \A u \in Worker \ {w} : \A x \in Spots : IsAt(u, x)' => IsAt(u, x)
    BY <1>0, <2>1 DEF IsAt
  <2>5. \A u \in Worker : left(u) => left(u)'
    BY <1>0, <2>1
  <2>6. \A u \in Worker \ {w} : waiting'[u] = waiting[u]
    BY <1>0, <2>1
  <2> QED
    BY <2>3, <2>4, <2>5, <2>6, NothingMoves
<1>16. CASE ReceiveRefusal(w)
  <2>1. /\ pc[w] = "receive" /\ pc' = [pc EXCEPT ![w] = "token"] /\ answer[w] # Nothing
        /\ answer' = [answer EXCEPT ![w] = Nothing]
        /\ waiting' = [waiting EXCEPT ![w] = FALSE]
        /\ UNCHANGED <<wrin, requests, serving>>
    BY <1>16 DEF ReceiveRefusal, Nothing
  <2>2. \A x \in Spots : IsAt(w, x) => x = <<"answer", 0>>
    BY <2>1, SpotsAre, PlacesAre DEF AtMostOne
  <2>3. \A x \in Spots : ~IsAt(w, x)'
    <3>1. \A x \in Spots : IsAt(w, x)' => IsAt(w, x) /\ x # <<"answer", 0>>
      BY <1>0, <2>1 DEF IsAt
    <3> QED
      BY <2>2, <3>1
  <2>4. \A u \in Worker \ {w} : \A x \in Spots : IsAt(u, x)' => IsAt(u, x)
    BY <1>0, <2>1 DEF IsAt
  <2>5. \A u \in Worker : left(u) => left(u)'
    BY <1>0, <2>1
  <2>6. \A u \in Worker \ {w} : waiting'[u] = waiting[u]
    BY <1>0, <2>1
  <2> QED
    BY <2>3, <2>4, <2>5, <2>6, NothingMoves
<1>17. CASE Accept(w)
  <2>0. PICK r \in Worker : r = wrin[w]
    BY <1>17 DEF Accept
  <2>1. /\ pc[w] = "progress" /\ pc' = [pc EXCEPT ![w] = "take"] /\ r \in Worker
        /\ serving' = [serving EXCEPT ![w] = r] /\ wrin' = [wrin EXCEPT ![w] = Nobody]
        /\ UNCHANGED <<requests, answer, waiting>>
    BY <1>17, <2>0 DEF Accept, askVars
  <2>3. /\ IsAt(r, <<"listener", w>>)
        /\ <<"listener", w>> \in Spots /\ <<"service", w>> \in Spots
    BY <2>0, <2>1, SpotsAre, PlacesAre
  <2>4. \A u \in Worker \ {r} : \A x \in Spots : IsAt(u, x)' => IsAt(u, x)
    <3>1. /\ \A u \in Worker \ {r} : \A v \in Worker : serving'[v] = u => serving[v] = u
          /\ \A u \in Worker : \A v \in Worker : wrin'[v] = u => wrin[v] = u
          /\ \A u \in Worker : pc'[u] = "count" => pc[u] = "count"
      BY <1>0, <2>1
    <3>2. \A x \in Spots : x[1] \in {"listener", "service"} => x[2] \in Worker
      BY DEF Spots
    <3> QED
      BY <2>1, <3>1, <3>2 DEF IsAt
  <2>5. \A x \in Spots : IsAt(r, x)' => (IsAt(r, x) /\ x # <<"listener", w>>) \/ x = <<"service", w>>
    <3>1. /\ \A v \in Worker : serving'[v] = r => serving[v] = r \/ v = w
          /\ \A v \in Worker : wrin'[v] = r => wrin[v] = r /\ v # w
          /\ pc'[r] = "count" => pc[r] = "count"
      BY <1>0, <2>1
    <3>2. \A x \in Spots : x[1] \in {"listener", "service"} => x[2] \in Worker /\ x = <<x[1], x[2]>>
      BY DEF Spots
    <3>3. \A x \in Spots : x = <<"listener", w>> => x[1] = "listener" /\ x[2] = w
      OBVIOUS
    <3> QED
      BY <2>1, <3>1, <3>2, <3>3 DEF IsAt
  <2>6. \A u \in Worker : left(u) => left(u)'
    BY <1>0, <2>1
  <2> QED
    BY <2>1, <2>3, <2>4, <2>5, <2>6, OneMoves
<1>18. ASSUME SendWork(w) \/ Refuse(w)
       PROVE  AtMostOne' /\ Awaited'
  <2>2. PICK r \in Worker : r = serving[w]
    BY <1>0, <1>18 DEF SendWork, Refuse, Serving
  <2>1. /\ pc[w] \in {"send", "refuse"} /\ pc' = [pc EXCEPT ![w] = resume[w]]
        /\ serving' = [serving EXCEPT ![w] = Nobody]
        /\ \E a : answer' = [answer EXCEPT ![r] = a]
        /\ UNCHANGED <<requests, wrin, waiting>>
    BY <1>18, <2>2 DEF SendWork, Refuse, askVars
  <2>3. /\ IsAt(r, <<"service", w>>)
        /\ <<"answer", 0>> \in Spots /\ <<"service", w>> \in Spots
    BY <2>2, SpotsAre, PlacesAre
  <2>4. \A u \in Worker \ {r} : \A x \in Spots : IsAt(u, x)' => IsAt(u, x)
    <3>1. /\ \A u \in Worker : \A v \in Worker : serving'[v] = u => serving[v] = u
          /\ \A u \in Worker \ {r} : answer'[u] = answer[u]
          /\ \A u \in Worker : pc'[u] = "count" => pc[u] = "count"
      BY <1>0, <2>1
    <3>2. \A x \in Spots : x[1] \in {"listener", "service"} => x[2] \in Worker
      BY DEF Spots
    <3> QED
      BY <2>1, <3>1, <3>2 DEF IsAt
  <2>5. \A x \in Spots : IsAt(r, x)' => (IsAt(r, x) /\ x # <<"service", w>>) \/ x = <<"answer", 0>>
    <3>1. /\ \A v \in Worker : serving'[v] = r => serving[v] = r /\ v # w
          /\ pc'[r] = "count" => pc[r] = "count"
      BY <1>0, <2>1, <2>2
    <3>2. /\ \A x \in Spots : x[1] \in {"listener", "service"} => x[2] \in Worker
          /\ \A x \in Spots : x[1] = "answer" => x = <<"answer", 0>>
      BY DEF Spots
    <3>3. \A x \in Spots : x = <<"service", w>> => x[1] = "service" /\ x[2] = w
      OBVIOUS
    <3> QED
      BY <2>1, <3>1, <3>2, <3>3 DEF IsAt
  <2>6. \A u \in Worker : left(u) => left(u)'
    BY <1>0, <2>1
  <2> QED
    BY <2>1, <2>2, <2>3, <2>4, <2>5, <2>6, OneMoves
<1>19. CASE Clear(w)
  <2>1. /\ pc[w] = "clear" /\ pc' = [pc EXCEPT ![w] = "barrier"]
        /\ wrin' = [wrin EXCEPT ![w] = Closed] /\ waiting' = [waiting EXCEPT ![w] = FALSE]
        /\ requests' \subseteq requests
        /\ UNCHANGED <<answer, serving>>
    BY <1>19 DEF Clear
  <2>2. \A u \in Worker : \A x \in Spots : IsAt(u, x)' => IsAt(u, x)
    <3>1. /\ \A u \in Worker : \A v \in Worker : wrin'[v] = u => wrin[v] = u
          /\ \A u \in Worker : pc'[u] = "count" => pc[u] = "count"
      BY <1>0, <2>1
    <3>2. \A x \in Spots : x[1] = "listener" => x[2] \in Worker
      BY DEF Spots
    <3> QED
      BY <2>1, <3>1, <3>2 DEF IsAt
  <2>3. AtMostOne'
    BY <2>2 DEF AtMostOne
  <2>4. \A u \in Worker : left(u)' \/ (waiting'[u] = waiting[u] /\ (left(u) => left(u)'))
    BY <1>0, <2>1
  <2>5. Awaited'
    BY <2>2, <2>4 DEF Awaited
  <2> QED
    BY <2>3, <2>5
<1> QED
  BY <1>1, <1>2, <1>3, <1>4, <1>5, <1>6, <1>7, <1>8, <1>9, <1>10, <1>11, <1>12,
     <1>13, <1>14, <1>15, <1>16, <1>17, <1>18, <1>19 DEF Step

\* So does a visit of the token ...
LEMMA SpotsOfTokenStep ==
    ASSUME TypeOK, AtMostOne, Awaited, NEW p \in Proc, TokenStep(p)
    PROVE  AtMostOne' /\ Awaited'
<1> DEFINE ld == Leader(p)
<1>0. pc \in [Worker -> Labels] /\ ld \in Worker
  BY WorkerIs DEF TypeOK
<1>1. /\ UNCHANGED <<requests, wrin, serving, answer, waiting>>
      /\ pc[ld] \in {"token", "scan", "visit"}
      /\ \/ pc' = pc
         \/ \E l \in {"scan", "visit", "search", "work", "clear"} : pc' = [pc EXCEPT ![ld] = l]
  <2>1. CASE TakeToken(p)
    BY <2>1 DEF TakeToken, Goto, askVars, netVars
  <2>2. CASE Scan(p)
    BY <2>2 DEF Scan, askVars, netVars, After
  <2>3. CASE WhiteVisit(p)
    BY <2>3 DEF WhiteVisit, Goto, askVars, netVars
  <2>4. CASE PinkVisit(p)
    BY <2>4 DEF PinkVisit, Goto, askVars, netVars, After
  <2>5. CASE RedVisit(p)
    BY <2>5 DEF RedVisit, Goto, askVars, netVars
  <2> QED
    BY <2>1, <2>2, <2>3, <2>4, <2>5 DEF TokenStep
<1>2. /\ \A w \in Worker : pc'[w] = "count" => pc[w] = "count"
      /\ \A w \in Worker : pc[w] \in {"barrier", "ended"} => pc'[w] \in {"barrier", "ended"}
  BY <1>0, <1>1
<1> QED
  BY <1>1, <1>2, SpotsStay

\* ... and the delivery, which moves a request from its way to a listener.
LEMMA SpotsOfDelivery ==
    ASSUME TypeOK, AtMostOne, Awaited, NEW p \in Proc, Deliver(p)
    PROVE  AtMostOne' /\ Awaited'
<1>1. PICK t \in Thread(p), r \in Worker : Match(<<p, t>>, r)
  BY DEF Deliver
<1> DEFINE v == <<p, t>>
<1>2. /\ v \in Worker /\ v[1] = p
  BY WorkerIs
<1> HIDE DEF v
<1>3. /\ <<r, p>> \in requests /\ requests' = requests \ {<<r, p>>}
      /\ wrin[v] = Nobody /\ wrin' = [wrin EXCEPT ![v] = r]
      /\ UNCHANGED <<answer, serving, waiting, pc>>
  BY <1>1, <1>2 DEF Match, askVars, v
<1>0. wrin \in [Worker -> Worker \cup {Nobody, Closed}]
  BY DEF TypeOK
<1>4. /\ IsAt(r, <<"request", p>>)
      /\ <<"request", p>> \in Spots /\ <<"listener", v>> \in Spots
  BY <1>2, <1>3, SpotsAre, PlacesAre
<1>5. \A u \in Worker \ {r} : \A x \in Spots : IsAt(u, x)' => IsAt(u, x)
  <2>1. \A u \in Worker \ {r} : \A z \in Worker : wrin'[z] = u => wrin[z] = u
    BY <1>0, <1>3
  <2>2. \A x \in Spots : x[1] = "listener" => x[2] \in Worker
    BY DEF Spots
  <2> QED
    BY <1>3, <2>1, <2>2 DEF IsAt
<1>6. \A x \in Spots : IsAt(r, x)' => (IsAt(r, x) /\ x # <<"request", p>>) \/ x = <<"listener", v>>
  <2>1. \A z \in Worker : wrin'[z] = r => wrin[z] = r \/ z = v
    BY <1>0, <1>3
  <2>2. \A x \in Spots : x[1] = "listener" => x[2] \in Worker /\ x = <<"listener", x[2]>>
    BY DEF Spots
  <2>3. \A x \in Spots : x = <<"request", p>> => x[1] = "request" /\ x[2] = p
    OBVIOUS
  <2> QED
    BY <1>3, <2>1, <2>2, <2>3 DEF IsAt
<1> QED
  BY <1>3, <1>4, <1>5, <1>6, OneMoves

-----------------------------------------------------------------------------
(* Work *)

\* The problems each thread has, in its stack and in its buffer, and those on
\* their way to it.
Loads == [w \in Worker |-> ss_localFullDepth(w) + taken[w]]
Afloat == [w \in Worker |-> IF answer[w] = Nothing THEN 0 ELSE answer[w]]

\* The sums the invariants speak of are sums over all the threads.
LEMMA SumsAreTotals ==
    /\ Held = Of(Loads) /\ Flying = Of(Afloat)
    /\ Held' = Of(Loads') /\ Flying' = Of(Afloat')
<1>1. \A p \in Proc : \A t \in Thread(p) : <<p, t>> \in Worker
  BY WorkerIs
<1>2. ASSUME NEW p \in Proc
      PROVE  /\ [t \in Thread(p) |-> Load(p, t)] = [t \in Thread(p) |-> Loads[<<p, t>>]]
             /\ [t \in Thread(p) |-> Load(p, t)'] = [t \in Thread(p) |-> Loads'[<<p, t>>]]
  <2>1. \A t \in Thread(p) : Load(p, t) = Loads[<<p, t>>] /\ Load(p, t)' = Loads'[<<p, t>>]
    BY <1>1, Zenon DEF Load, Loads
  <2> QED
    BY <2>1, Zenon
<1>3. ASSUME NEW p \in Proc
      PROVE  /\ [t \in Thread(p) |-> IF answer[<<p, t>>] = Nothing THEN 0 ELSE answer[<<p, t>>]]
                   = [t \in Thread(p) |-> Afloat[<<p, t>>]]
             /\ [t \in Thread(p) |-> IF answer'[<<p, t>>] = Nothing THEN 0 ELSE answer'[<<p, t>>]]
                   = [t \in Thread(p) |-> Afloat'[<<p, t>>]]
  <2>1. \A t \in Thread(p) :
            /\ (IF answer[<<p, t>>] = Nothing THEN 0 ELSE answer[<<p, t>>]) = Afloat[<<p, t>>]
            /\ (IF answer'[<<p, t>>] = Nothing THEN 0 ELSE answer'[<<p, t>>]) = Afloat'[<<p, t>>]
    BY <1>1, Zenon DEF Afloat
  <2> QED
    BY <2>1, Zenon
<1>4. Held = Of(Loads) /\ Held' = Of(Loads')
  BY <1>2, Zenon DEF Held, Of
<1>5. Flying = Of(Afloat) /\ Flying' = Of(Afloat')
  BY <1>3, Zenon DEF Flying, Of
<1> QED
  BY <1>4, <1>5

\* In numbers.
LEMMA WorkIs ==
    ASSUME TypeOK, TypeOK'
    PROVE  /\ Loads \in [Worker -> Nat] /\ Afloat \in [Worker -> Nat]
           /\ Loads' \in [Worker -> Nat] /\ Afloat' \in [Worker -> Nat]
           /\ Total(Loads) \in Nat /\ Total(Afloat) \in Nat
           /\ Total(Loads') \in Nat /\ Total(Afloat') \in Nat
           /\ WorkConserved <=> created = processed + Total(Loads) + Total(Afloat)
           /\ WorkConserved' <=> created' = processed' + Total(Loads') + Total(Afloat')
<1> USE SizesAre DEF ss_localFullDepth, Nothing
<1>1. /\ localDepth \in [Worker -> Nat] /\ sharedDepth \in [Worker -> Nat]
      /\ taken \in [Worker -> {0, MessageSize}] /\ answer \in [Worker -> {Nothing, 0, MessageSize}]
      /\ localDepth' \in [Worker -> Nat] /\ sharedDepth' \in [Worker -> Nat]
      /\ taken' \in [Worker -> {0, MessageSize}] /\ answer' \in [Worker -> {Nothing, 0, MessageSize}]
  BY DEF TypeOK
<1>2. /\ \A w \in Worker : Loads[w] \in Nat /\ Loads'[w] \in Nat
      /\ \A w \in Worker : Afloat[w] \in Nat /\ Afloat'[w] \in Nat
  <2>1. ASSUME NEW w \in Worker
        PROVE  Loads[w] \in Nat /\ Loads'[w] \in Nat
    <3>1. /\ localDepth[w] \in Nat /\ sharedDepth[w] \in Nat /\ taken[w] \in Nat
          /\ localDepth'[w] \in Nat /\ sharedDepth'[w] \in Nat /\ taken'[w] \in Nat
      BY <1>1
    <3> QED
      BY <3>1 DEF Loads
  <2>2. ASSUME NEW w \in Worker
        PROVE  Afloat[w] \in Nat /\ Afloat'[w] \in Nat
    BY <1>1 DEF Afloat
  <2> QED
    BY <2>1, <2>2
<1>3. /\ Loads \in [Worker -> Nat] /\ Afloat \in [Worker -> Nat]
      /\ Loads' \in [Worker -> Nat] /\ Afloat' \in [Worker -> Nat]
  BY <1>2 DEF Loads, Afloat
<1>4. /\ Total(Loads) \in Nat /\ Total(Afloat) \in Nat
      /\ Total(Loads') \in Nat /\ Total(Afloat') \in Nat
  BY <1>3, TotalIsNat
<1>5. /\ WorkConserved <=> created = processed + Total(Loads) + Total(Afloat)
      /\ WorkConserved' <=> created' = processed' + Total(Loads') + Total(Afloat')
  BY SumsAreTotals, Zenon DEF WorkConserved, Total
<1> QED
  BY <1>3, <1>4, <1>5

\* Work appears and disappears in the stacks of one thread and on the way to
\* one thread as it is created and processed.
LEMMA WorkChanges ==
    ASSUME TypeOK, TypeOK', WorkConserved, NEW w \in Worker, NEW r \in Worker,
           \A u \in Worker \ {w} : Loads'[u] = Loads[u],
           \A u \in Worker \ {r} : Afloat'[u] = Afloat[u],
           (created' - processed') - (created - processed)
               = (Loads'[w] - Loads[w]) + (Afloat'[r] - Afloat[r])
    PROVE  WorkConserved'
<1>1. /\ Loads \in [Worker -> Nat] /\ Afloat \in [Worker -> Nat]
      /\ Loads' \in [Worker -> Nat] /\ Afloat' \in [Worker -> Nat]
      /\ Total(Loads) \in Nat /\ Total(Afloat) \in Nat
      /\ Total(Loads') \in Nat /\ Total(Afloat') \in Nat
  BY WorkIs
<1>2. Total(Loads') - Total(Loads) = Loads'[w] - Loads[w]
  BY <1>1, TotalOneChange
<1>3. Total(Afloat') - Total(Afloat) = Afloat'[r] - Afloat[r]
  BY <1>1, TotalOneChange
<1>4. created \in Nat /\ processed \in Nat /\ created' \in Nat /\ processed' \in Nat
  BY DEF TypeOK
<1>5. created = processed + Total(Loads) + Total(Afloat)
  BY WorkIs
<1>6. /\ Loads[w] \in Nat /\ Loads'[w] \in Nat /\ Afloat[r] \in Nat /\ Afloat'[r] \in Nat
  BY <1>1
<1>7. created' = processed' + Total(Loads') + Total(Afloat')
  <2>1. PICK a \in Nat, b \in Nat, c \in Nat, d \in Nat :
            /\ a = Total(Loads) /\ b = Total(Loads')
            /\ c = Loads[w] /\ d = Loads'[w]
    BY <1>1, <1>6
  <2>2. PICK e \in Nat, f \in Nat, g \in Nat, h \in Nat :
            /\ e = Total(Afloat) /\ f = Total(Afloat')
            /\ g = Afloat[r] /\ h = Afloat'[r]
    BY <1>1, <1>6
  <2>3. /\ b - a = d - c /\ f - e = h - g /\ created = processed + a + e
        /\ (created' - processed') - (created - processed) = (d - c) + (h - g)
    BY <1>2, <1>3, <1>5, <2>1, <2>2, Zenon
  <2>4. created' = processed' + b + f
    <3>1. /\ a \in Nat /\ b \in Nat /\ c \in Nat /\ d \in Nat
          /\ e \in Nat /\ f \in Nat /\ g \in Nat /\ h \in Nat
      BY <2>1, <2>2
    <3> QED
      <4>1. PICK i \in Nat, j \in Nat, k \in Nat, l \in Nat :
                i = created /\ j = processed /\ k = created' /\ l = processed'
        BY <1>4
      <4>2. (k - l) - (i - j) = (d - c) + (h - g) /\ i = j + a + e /\ b - a = d - c /\ f - e = h - g
        BY <2>3, <4>1, Zenon
      <4>3. /\ i \in Nat /\ j \in Nat /\ k \in Nat /\ l \in Nat
        OBVIOUS
      <4>4. k = l + b + f
        BY <3>1, <4>2, <4>3
      <4> QED
        BY <4>1, <4>4, Zenon
  <2> QED
    BY <2>1, <2>2, <2>4, Zenon
<1> QED
  BY <1>7, WorkIs

\* Work goes from one thread to another.
LEMMA WorkMoves ==
    ASSUME TypeOK, TypeOK', WorkConserved, NEW w \in Worker, NEW v \in Worker, v # w,
           \A u \in Worker \ {w, v} : Loads'[u] = Loads[u],
           Loads'[w] - Loads[w] = Loads[v] - Loads'[v],
           UNCHANGED <<answer, created, processed>>
    PROVE  WorkConserved'
<1>1. /\ Loads \in [Worker -> Nat] /\ Loads' \in [Worker -> Nat]
      /\ Total(Loads) \in Nat /\ Total(Loads') \in Nat
  BY WorkIs
<1>2. Total(Loads') - Total(Loads) = (Loads'[w] - Loads[w]) + (Loads'[v] - Loads[v])
  BY <1>1, TotalTwoChanges
<1>3. /\ Loads[w] \in Nat /\ Loads'[w] \in Nat /\ Loads[v] \in Nat /\ Loads'[v] \in Nat
  BY <1>1
<1>4. Total(Loads') = Total(Loads)
  <2>1. PICK a \in Nat, b \in Nat, c \in Nat, d \in Nat, e \in Nat, f \in Nat :
            /\ a = Total(Loads) /\ b = Total(Loads')
            /\ c = Loads[w] /\ d = Loads'[w] /\ e = Loads[v] /\ f = Loads'[v]
    BY <1>1, <1>3
  <2>2. b - a = (d - c) + (f - e) /\ d - c = e - f
    BY <1>2, <2>1, Zenon
  <2> QED
    BY <2>1, <2>2
<1>5. Afloat' = Afloat
  BY DEF Afloat
<1> QED
  BY <1>4, <1>5, WorkIs, Zenon

\* No work moves.
LEMMA WorkStays ==
    ASSUME WorkConserved,
           UNCHANGED <<localDepth, sharedDepth, taken, answer, created, processed>>
    PROVE  WorkConserved'
<1>1. Loads' = Loads /\ Afloat' = Afloat
  BY DEF Loads, Afloat, ss_localFullDepth
<1>2. Held' = Held /\ Flying' = Flying
  BY <1>1, SumsAreTotals
<1> QED
  BY <1>2 DEF WorkConserved

\* A step of a thread conserves the work.
LEMMA WorkOfStep ==
    ASSUME TypeOK, TypeOK', Serving, Loaded, AtMostOne, WorkConserved,
           NEW w \in Worker, Step(w)
    PROVE  WorkConserved'
<1> USE DEF Goto
<1>0. /\ localDepth \in [Worker -> Nat] /\ sharedDepth \in [Worker -> Nat]
      /\ taken \in [Worker -> {0, MessageSize}] /\ answer \in [Worker -> {Nothing, 0, MessageSize}]
      /\ serving \in [Worker -> Worker \cup {Nobody}] /\ created \in Nat /\ processed \in Nat
      /\ ChunkSize \in Nat /\ MessageSize \in Nat \ {0}
  BY SizesAre DEF TypeOK
<1>00. /\ \A u \in Worker : Loads[u] = localDepth[u] + sharedDepth[u] + taken[u]
       /\ \A u \in Worker : Loads'[u] = localDepth'[u] + sharedDepth'[u] + taken'[u]
       /\ \A u \in Worker : Afloat[u] = IF answer[u] = Nothing THEN 0 ELSE answer[u]
       /\ \A u \in Worker : Afloat'[u] = IF answer'[u] = Nothing THEN 0 ELSE answer'[u]
  BY DEF Loads, Afloat, ss_localFullDepth
<1>1. CASE NothingHere(w)
  BY <1>1, WorkStays DEF NothingHere, workVars, netVars
<1>2. CASE GetWork(w)
  BY <1>2, WorkStays DEF GetWork, workVars, netVars
<1>3. CASE Post(w)
  BY <1>3, WorkStays DEF Post, workVars, netVars
<1>4. CASE CountWork(w)
  BY <1>4, WorkStays DEF CountWork, workVars, netVars
<1>5. CASE NoAnswer(w)
  BY <1>5, WorkStays DEF NoAnswer, workVars, netVars
<1>6. CASE NoRequest(w)
  BY <1>6, WorkStays DEF NoRequest, workVars, netVars
<1>7. CASE Accept(w)
  BY <1>7, WorkStays DEF Accept, workVars, netVars
<1>8. CASE NothingForRemote(w)
  BY <1>8, WorkStays DEF NothingForRemote, workVars, netVars
<1>9. CASE SkipToken(w)
  BY <1>9, WorkStays DEF SkipToken, workVars, netVars
<1>10. CASE Clear(w)
  BY <1>10, WorkStays DEF Clear, workVars, netVars
<1>11. CASE End(w)
  BY <1>11, WorkStays DEF End, workVars, netVars
<1>12. CASE SolveBase(w)
  <2>1. /\ localDepth[w] > 0 /\ localDepth' = [localDepth EXCEPT ![w] = @ - 1]
        /\ processed' = processed + 1
        /\ UNCHANGED <<sharedDepth, created, taken, answer>>
    BY <1>12 DEF SolveBase, netVars
  <2>2. /\ \A u \in Worker \ {w} : Loads'[u] = Loads[u]
        /\ \A u \in Worker \ {w} : Afloat'[u] = Afloat[u]
    BY <1>0, <1>00, <2>1
  <2>3. Loads'[w] - Loads[w] = -1 /\ Afloat'[w] - Afloat[w] = 0
    BY <1>0, <1>00, <2>1 DEF Nothing
  <2>4. (created' - processed') - (created - processed) = -1
    BY <1>0, <2>1
  <2> QED
    BY <2>2, <2>3, <2>4, WorkChanges
<1>13. ASSUME NEW k \in Fanout, Expand(w, k)
       PROVE  WorkConserved'
  <2> DEFINE depth == localDepth[w] - 1 + k
             kept == IF depth > 2 * ChunkSize THEN depth % ChunkSize ELSE depth
  <2>1. /\ localDepth[w] > 0 /\ localDepth' = [localDepth EXCEPT ![w] = kept]
        /\ sharedDepth' = [sharedDepth EXCEPT ![w] = @ + depth - kept]
        /\ created' = created + k /\ processed' = processed + 1
        /\ UNCHANGED <<taken, answer>>
    BY <1>13, Zenon DEF Expand, netVars
  <2>2. k \in Nat
    BY RingAssumption
  <2>3. localDepth'[w] \in Nat
    BY DEF TypeOK
  <2>4. depth \in Int /\ kept \in Int /\ depth = localDepth[w] - 1 + k
    <3>1. kept = localDepth'[w]
      BY <1>0, <2>1, Zenon
    <3> QED
      BY <1>0, <2>2, <2>3, <3>1
  <2> HIDE DEF depth, kept
  <2>5. /\ \A u \in Worker \ {w} : Loads'[u] = Loads[u]
        /\ \A u \in Worker \ {w} : Afloat'[u] = Afloat[u]
    BY <1>0, <1>00, <2>1
  <2>6. Loads'[w] - Loads[w] = k - 1 /\ Afloat'[w] - Afloat[w] = 0
    <3>1. /\ localDepth[w] \in Nat /\ sharedDepth[w] \in Nat /\ taken[w] \in Nat
          /\ localDepth'[w] = kept /\ sharedDepth'[w] = sharedDepth[w] + depth - kept
          /\ taken'[w] = taken[w]
      BY <1>0, <2>1
    <3>2. /\ Loads[w] = localDepth[w] + sharedDepth[w] + taken[w]
          /\ Loads'[w] = kept + (sharedDepth[w] + depth - kept) + taken[w]
      BY <1>00, <3>1
    <3>3. Loads'[w] - Loads[w] = k - 1
      BY <2>2, <2>4, <3>1, <3>2
    <3>4. Afloat'[w] = Afloat[w] /\ Afloat[w] \in Int
      BY <1>0, <1>00, <2>1 DEF Nothing
    <3> QED
      BY <3>3, <3>4
  <2>7. (created' - processed') - (created - processed) = k - 1
    BY <1>0, <2>1, <2>2
  <2> QED
    BY <2>5, <2>6, <2>7, <2>2, WorkChanges
<1>14. CASE Acquire(w)
  <2>1. /\ \/ /\ localDepth[w] = 0 /\ localDepth' = [localDepth EXCEPT ![w] = ChunkSize]
              /\ sharedDepth' = [sharedDepth EXCEPT ![w] = @ - ChunkSize]
           \/ UNCHANGED <<localDepth, sharedDepth>>
        /\ UNCHANGED <<created, processed, taken, answer>>
    BY <1>14 DEF Acquire, netVars
  <2>2. /\ \A u \in Worker \ {w} : Loads'[u] = Loads[u]
        /\ \A u \in Worker \ {w} : Afloat'[u] = Afloat[u]
    BY <1>0, <1>00, <2>1
  <2>3. Loads'[w] - Loads[w] = 0 /\ Afloat'[w] - Afloat[w] = 0
    BY <1>0, <1>00, <2>1 DEF Nothing
  <2>4. (created' - processed') - (created - processed) = 0
    BY <1>0, <2>1
  <2> QED
    BY <2>2, <2>3, <2>4, WorkChanges
<1>15. ASSUME NEW v \in Siblings(w), StealHere(w, v)
       PROVE  WorkConserved'
  <2>1. /\ localDepth' = [localDepth EXCEPT ![w] = @ + ChunkSize]
        /\ sharedDepth' = [sharedDepth EXCEPT ![v] = @ - ChunkSize]
        /\ UNCHANGED <<created, processed, taken, answer>>
    BY <1>15 DEF StealHere, netVars
  <2>2. v \in Worker /\ v # w
    BY DEF Siblings
  <2>3. \A u \in Worker \ {w, v} : Loads'[u] = Loads[u]
    BY <1>0, <1>00, <2>1
  <2>4. Loads'[w] - Loads[w] = ChunkSize /\ Loads[v] - Loads'[v] = ChunkSize
    BY <1>0, <1>00, <2>1, <2>2
  <2> QED
    BY <2>1, <2>2, <2>3, <2>4, WorkMoves
<1>16. CASE ReceiveWork(w)
  <2>1. /\ answer[w] > 0 /\ localDepth' = [localDepth EXCEPT ![w] = @ + answer[w]]
        /\ answer' = [answer EXCEPT ![w] = Nothing]
        /\ UNCHANGED <<sharedDepth, created, processed, taken>>
    BY <1>16 DEF ReceiveWork
  <2>2. /\ \A u \in Worker \ {w} : Loads'[u] = Loads[u]
        /\ \A u \in Worker \ {w} : Afloat'[u] = Afloat[u]
    BY <1>0, <1>00, <2>1
  <2>3. answer[w] \in Nat /\ answer[w] # Nothing
    BY <1>0, <2>1 DEF Nothing
  <2>4. Loads'[w] - Loads[w] = answer[w]
    BY <1>0, <1>00, <2>1, <2>3
  <2>5. Afloat'[w] = 0 /\ Afloat[w] = answer[w]
    BY <1>0, <1>00, <2>1, <2>3
  <2>6. (created' - processed') - (created - processed) = 0
    BY <1>0, <2>1
  <2> QED
    BY <2>2, <2>3, <2>4, <2>5, <2>6, WorkChanges
<1>17. CASE ReceiveRefusal(w)
  <2>1. /\ answer[w] = 0 /\ answer' = [answer EXCEPT ![w] = Nothing]
        /\ UNCHANGED <<localDepth, sharedDepth, created, processed, taken>>
    BY <1>17 DEF ReceiveRefusal, workVars
  <2>2. /\ \A u \in Worker \ {w} : Loads'[u] = Loads[u]
        /\ \A u \in Worker \ {w} : Afloat'[u] = Afloat[u]
    BY <1>0, <1>00, <2>1
  <2>3. Loads'[w] - Loads[w] = 0 /\ Afloat'[w] - Afloat[w] = 0
    BY <1>0, <1>00, <2>1 DEF Nothing
  <2>4. (created' - processed') - (created - processed) = 0
    BY <1>0, <2>1
  <2> QED
    BY <2>2, <2>3, <2>4, WorkChanges
<1>18. ASSUME NEW v \in Worker, TakeForRemote(w, v)
       PROVE  WorkConserved'
  <2>1. /\ pc[w] = "take"
        /\ sharedDepth' = [sharedDepth EXCEPT ![v] = @ - MessageSize]
        /\ taken' = [taken EXCEPT ![w] = MessageSize]
        /\ UNCHANGED <<localDepth, created, processed, answer>>
    BY <1>18 DEF TakeForRemote, netVars
  <2>2. taken[w] = 0
    BY <2>1 DEF Loaded
  <2>3. CASE v = w
    <3>1. /\ \A u \in Worker \ {w} : Loads'[u] = Loads[u]
          /\ \A u \in Worker \ {w} : Afloat'[u] = Afloat[u]
      BY <1>0, <1>00, <2>1, <2>3
    <3>2. Loads'[w] - Loads[w] = 0 /\ Afloat'[w] - Afloat[w] = 0
      BY <1>0, <1>00, <2>1, <2>2, <2>3 DEF Nothing
    <3>3. (created' - processed') - (created - processed) = 0
      BY <1>0, <2>1
    <3> QED
      BY <3>1, <3>2, <3>3, WorkChanges
  <2>4. CASE v # w
    <3>1. \A u \in Worker \ {w, v} : Loads'[u] = Loads[u]
      BY <1>0, <1>00, <2>1
    <3>2. Loads'[w] - Loads[w] = MessageSize /\ Loads[v] - Loads'[v] = MessageSize
      BY <1>0, <1>00, <2>1, <2>2, <2>4
    <3> QED
      BY <2>1, <2>4, <3>1, <3>2, WorkMoves
  <2> QED
    BY <2>3, <2>4
<1>19. ASSUME SendWork(w) \/ Refuse(w)
       PROVE  WorkConserved'
  <2>1. PICK r \in Worker : r = serving[w]
    BY <1>0, <1>19 DEF SendWork, Refuse, Serving
  <2>2. answer[r] = Nothing
    <3>1. /\ <<"service", w>> \in Spots /\ <<"answer", 0>> \in Spots
          /\ <<"service", w>> # <<"answer", 0>>
      BY SpotsAre
    <3>2. IsAt(r, <<"service", w>>)
      BY <2>1, PlacesAre
    <3>3. ~IsAt(r, <<"answer", 0>>)
      BY <3>1, <3>2 DEF AtMostOne
    <3> QED
      BY <3>3, PlacesAre
  <2>3. /\ taken'[w] = 0 /\ \A u \in Worker \ {w} : taken'[u] = taken[u]
        /\ answer' = [answer EXCEPT ![r] = taken[w]]
        /\ UNCHANGED <<localDepth, sharedDepth, created, processed>>
    BY <1>0, <1>19, <2>1 DEF SendWork, Refuse, workVars, Loaded
  <2>4. /\ \A u \in Worker \ {w} : Loads'[u] = Loads[u]
        /\ \A u \in Worker \ {r} : Afloat'[u] = Afloat[u]
    BY <1>0, <1>00, <2>3
  <2>5. Loads'[w] - Loads[w] = -taken[w] /\ taken[w] \in Nat
    BY <1>0, <1>00, <2>3
  <2>6. Afloat'[r] = taken[w] /\ Afloat[r] = 0
    BY <1>0, <1>00, <2>2, <2>3 DEF Nothing
  <2>7. (created' - processed') - (created - processed) = 0
    BY <1>0, <2>3
  <2> QED
    BY <2>4, <2>5, <2>6, <2>7, WorkChanges
<1> QED
  BY <1>1, <1>2, <1>3, <1>4, <1>5, <1>6, <1>7, <1>8, <1>9, <1>10, <1>11, <1>12,
     <1>13, <1>14, <1>15, <1>16, <1>17, <1>18, <1>19 DEF Step

\* The token and the deliveries move none.
LEMMA WorkOfTokenStep ==
    ASSUME WorkConserved, NEW p \in Proc, TokenStep(p) \/ Deliver(p)
    PROVE  WorkConserved'
<1>1. UNCHANGED <<localDepth, sharedDepth, taken, answer, created, processed>>
  <2> USE DEF workVars, netVars
  <2>1. CASE TakeToken(p)
    BY <2>1 DEF TakeToken
  <2>2. CASE Scan(p)
    BY <2>2 DEF Scan
  <2>3. CASE WhiteVisit(p)
    BY <2>3 DEF WhiteVisit
  <2>4. CASE PinkVisit(p)
    BY <2>4 DEF PinkVisit
  <2>5. CASE RedVisit(p)
    BY <2>5 DEF RedVisit
  <2>6. CASE Deliver(p)
    BY <2>6 DEF Deliver, Match
  <2> QED
    BY <2>1, <2>2, <2>3, <2>4, <2>5, <2>6 DEF TokenStep
<1> QED
  BY <1>1, WorkStays

-----------------------------------------------------------------------------
(* Counters *)

\* The threads a work message is on its way to, and those that have received
\* one and not counted it.
Answered == {w \in Worker : answer[w] > 0}
Counting == {w \in Worker : pc[w] = "count"}

\* In numbers.
LEMMA AccountIs ==
    ASSUME TypeOK, TypeOK'
    PROVE  /\ SumFunction(chunks_sent) \in Nat /\ SumFunction(chunks_recvd) \in Nat
           /\ SumFunction(chunks_sent)' \in Nat /\ SumFunction(chunks_recvd)' \in Nat
           /\ IsFiniteSet(Answered) /\ IsFiniteSet(Counting)
           /\ Cardinality(Answered) \in Nat /\ Cardinality(Counting) \in Nat
           /\ ChunkAccounting <=>
                SumFunction(chunks_sent) - SumFunction(chunks_recvd)
                    = Cardinality(Answered) + Cardinality(Counting)
           /\ ChunkAccounting' <=>
                SumFunction(chunks_sent)' - SumFunction(chunks_recvd)'
                    = Cardinality(Answered') + Cardinality(Counting')
<1>1. /\ chunks_sent \in [Proc -> Nat] /\ chunks_recvd \in [Proc -> Nat]
      /\ chunks_sent' \in [Proc -> Nat] /\ chunks_recvd' \in [Proc -> Nat]
  BY DEF TypeOK
<1>2. /\ SumFunction(chunks_sent) \in Nat /\ SumFunction(chunks_recvd) \in Nat
      /\ SumFunction(chunks_sent') \in Nat /\ SumFunction(chunks_recvd') \in Nat
  BY <1>1, RingIsFinite, SumNat
<1>3. IsFiniteSet(Answered) /\ IsFiniteSet(Counting)
  <2>1. Answered \in SUBSET Worker /\ Counting \in SUBSET Worker
    BY DEF Answered, Counting
  <2> QED
    BY <2>1, RingIsFinite, FS_Subset
<1>4. Cardinality(Answered) \in Nat /\ Cardinality(Counting) \in Nat
  BY <1>3, FS_CardinalityType
<1> QED
  BY <1>2, <1>3, <1>4 DEF ChunkAccounting, Answered, Counting

\* Nothing is sent, received or counted.
LEMMA AccountStays ==
    ASSUME ChunkAccounting, UNCHANGED <<chunks_sent, chunks_recvd>>,
           Answered' = Answered, Counting' = Counting
    PROVE  ChunkAccounting'
BY Zenon DEF ChunkAccounting, Answered, Counting

\* A step of a thread keeps the counters right.
LEMMA AccountOfStep ==
    ASSUME TypeOK, TypeOK', Serving, Loaded, AtMostOne, ChunkAccounting,
           NEW w \in Worker, Step(w)
    PROVE  ChunkAccounting'
<1> USE DEF Goto
<1>0. /\ pc \in [Worker -> Labels] /\ resume[w] \in {"work", "receive"}
      /\ taken \in [Worker -> {0, MessageSize}] /\ answer \in [Worker -> {Nothing, 0, MessageSize}]
      /\ serving \in [Worker -> Worker \cup {Nobody}] /\ MessageSize \in Nat \ {0}
      /\ chunks_sent \in [Proc -> Nat] /\ chunks_recvd \in [Proc -> Nat]
      /\ chunks_sent' \in [Proc -> Nat] /\ chunks_recvd' \in [Proc -> Nat]
      /\ w[1] \in Proc
  BY SizesAre, WorkerIs DEF TypeOK
<1>00. /\ SumFunction(chunks_sent) \in Nat /\ SumFunction(chunks_recvd) \in Nat
       /\ SumFunction(chunks_sent)' \in Nat /\ SumFunction(chunks_recvd)' \in Nat
       /\ IsFiniteSet(Answered) /\ IsFiniteSet(Counting)
       /\ Cardinality(Answered) \in Nat /\ Cardinality(Counting) \in Nat
       /\ SumFunction(chunks_sent) - SumFunction(chunks_recvd)
            = Cardinality(Answered) + Cardinality(Counting)
       /\ ChunkAccounting' <=>
            SumFunction(chunks_sent)' - SumFunction(chunks_recvd)'
                = Cardinality(Answered') + Cardinality(Counting')
  BY AccountIs
<1>1. CASE SolveBase(w)
  <2>1. UNCHANGED <<chunks_sent, chunks_recvd>>
    BY <1>1 DEF SolveBase, countVars
  <2>2. Answered' = Answered
    BY <1>0, <1>1 DEF SolveBase, netVars, Answered
  <2>3. Counting' = Counting
    BY <1>0, <1>1 DEF SolveBase, Counting
  <2> QED
    BY <2>1, <2>2, <2>3, AccountStays
<1>2. ASSUME NEW k \in Fanout, Expand(w, k)
      PROVE  ChunkAccounting'
  <2>1. UNCHANGED <<chunks_sent, chunks_recvd>>
    BY <1>2 DEF Expand, countVars
  <2>2. Answered' = Answered
    BY <1>0, <1>2 DEF Expand, netVars, Answered
  <2>3. Counting' = Counting
    BY <1>0, <1>2 DEF Expand, Counting
  <2> QED
    BY <2>1, <2>2, <2>3, AccountStays
<1>3. CASE Acquire(w)
  <2>1. UNCHANGED <<chunks_sent, chunks_recvd>>
    BY <1>3 DEF Acquire, countVars
  <2>2. Answered' = Answered
    BY <1>0, <1>3 DEF Acquire, netVars, Answered
  <2>3. Counting' = Counting
    BY <1>0, <1>3 DEF Acquire, Counting
  <2> QED
    BY <2>1, <2>2, <2>3, AccountStays
<1>4. ASSUME NEW v \in Siblings(w), StealHere(w, v)
      PROVE  ChunkAccounting'
  <2>1. UNCHANGED <<chunks_sent, chunks_recvd>>
    BY <1>4 DEF StealHere, countVars
  <2>2. Answered' = Answered
    BY <1>0, <1>4 DEF StealHere, netVars, Answered
  <2>3. Counting' = Counting
    BY <1>0, <1>4 DEF StealHere, Counting
  <2> QED
    BY <2>1, <2>2, <2>3, AccountStays
<1>5. CASE NothingHere(w)
  <2>1. UNCHANGED <<chunks_sent, chunks_recvd>>
    BY <1>5 DEF NothingHere, countVars
  <2>2. Answered' = Answered
    BY <1>0, <1>5 DEF NothingHere, netVars, Answered
  <2>3. Counting' = Counting
    BY <1>0, <1>5 DEF NothingHere, Counting
  <2> QED
    BY <2>1, <2>2, <2>3, AccountStays
<1>6. CASE GetWork(w)
  <2>1. UNCHANGED <<chunks_sent, chunks_recvd>>
    BY <1>6 DEF GetWork, countVars
  <2>2. Answered' = Answered
    BY <1>0, <1>6 DEF GetWork, netVars, Answered
  <2>3. Counting' = Counting
    BY <1>0, <1>6 DEF GetWork, Counting
  <2> QED
    BY <2>1, <2>2, <2>3, AccountStays
<1>7. CASE Post(w)
  <2>1. UNCHANGED <<chunks_sent, chunks_recvd>>
    BY <1>7 DEF Post, countVars
  <2>2. Answered' = Answered
    BY <1>0, <1>7 DEF Post, netVars, Answered
  <2>3. Counting' = Counting
    BY <1>0, <1>7 DEF Post, Counting
  <2> QED
    BY <2>1, <2>2, <2>3, AccountStays
<1>8. CASE ReceiveRefusal(w)
  <2>1. UNCHANGED <<chunks_sent, chunks_recvd>>
    BY <1>8 DEF ReceiveRefusal, countVars
  <2>2. Answered' = Answered
    BY <1>0, <1>8 DEF ReceiveRefusal, netVars, Answered, Nothing
  <2>3. Counting' = Counting
    BY <1>0, <1>8 DEF ReceiveRefusal, Counting
  <2> QED
    BY <2>1, <2>2, <2>3, AccountStays
<1>9. CASE NoAnswer(w)
  <2>1. UNCHANGED <<chunks_sent, chunks_recvd>>
    BY <1>9 DEF NoAnswer, countVars
  <2>2. Answered' = Answered
    BY <1>0, <1>9 DEF NoAnswer, netVars, Answered
  <2>3. Counting' = Counting
    BY <1>0, <1>9 DEF NoAnswer, Counting
  <2> QED
    BY <2>1, <2>2, <2>3, AccountStays
<1>10. CASE NoRequest(w)
  <2>1. UNCHANGED <<chunks_sent, chunks_recvd>>
    BY <1>10 DEF NoRequest, countVars
  <2>2. Answered' = Answered
    BY <1>0, <1>10 DEF NoRequest, netVars, Answered
  <2>3. Counting' = Counting
    BY <1>0, <1>10 DEF NoRequest, Counting
  <2> QED
    BY <2>1, <2>2, <2>3, AccountStays
<1>11. CASE Accept(w)
  <2>1. UNCHANGED <<chunks_sent, chunks_recvd>>
    BY <1>11 DEF Accept, countVars
  <2>2. Answered' = Answered
    BY <1>0, <1>11 DEF Accept, netVars, Answered
  <2>3. Counting' = Counting
    BY <1>0, <1>11 DEF Accept, Counting
  <2> QED
    BY <2>1, <2>2, <2>3, AccountStays
<1>12. ASSUME NEW v \in Worker, TakeForRemote(w, v)
      PROVE  ChunkAccounting'
  <2>1. UNCHANGED <<chunks_sent, chunks_recvd>>
    BY <1>12 DEF TakeForRemote, countVars
  <2>2. Answered' = Answered
    BY <1>0, <1>12 DEF TakeForRemote, netVars, Answered
  <2>3. Counting' = Counting
    BY <1>0, <1>12 DEF TakeForRemote, Counting
  <2> QED
    BY <2>1, <2>2, <2>3, AccountStays
<1>13. CASE NothingForRemote(w)
  <2>1. UNCHANGED <<chunks_sent, chunks_recvd>>
    BY <1>13 DEF NothingForRemote, countVars
  <2>2. Answered' = Answered
    BY <1>0, <1>13 DEF NothingForRemote, netVars, Answered
  <2>3. Counting' = Counting
    BY <1>0, <1>13 DEF NothingForRemote, Counting
  <2> QED
    BY <2>1, <2>2, <2>3, AccountStays
<1>14. CASE SkipToken(w)
  <2>1. UNCHANGED <<chunks_sent, chunks_recvd>>
    BY <1>14 DEF SkipToken, countVars
  <2>2. Answered' = Answered
    BY <1>0, <1>14 DEF SkipToken, netVars, Answered
  <2>3. Counting' = Counting
    BY <1>0, <1>14 DEF SkipToken, Counting, After
  <2> QED
    BY <2>1, <2>2, <2>3, AccountStays
<1>15. CASE Clear(w)
  <2>1. UNCHANGED <<chunks_sent, chunks_recvd>>
    BY <1>15 DEF Clear, countVars
  <2>2. Answered' = Answered
    BY <1>0, <1>15 DEF Clear, netVars, Answered
  <2>3. Counting' = Counting
    BY <1>0, <1>15 DEF Clear, Counting
  <2> QED
    BY <2>1, <2>2, <2>3, AccountStays
<1>16. CASE End(w)
  <2>1. UNCHANGED <<chunks_sent, chunks_recvd>>
    BY <1>16 DEF End, countVars
  <2>2. Answered' = Answered
    BY <1>0, <1>16 DEF End, netVars, Answered
  <2>3. Counting' = Counting
    BY <1>0, <1>16 DEF End, Counting
  <2> QED
    BY <2>1, <2>2, <2>3, AccountStays
<1>17. CASE ReceiveWork(w)
  <2>1. /\ pc[w] = "receive" /\ pc' = [pc EXCEPT ![w] = "count"] /\ answer[w] > 0
        /\ answer' = [answer EXCEPT ![w] = Nothing]
        /\ UNCHANGED <<chunks_sent, chunks_recvd>>
    BY <1>17 DEF ReceiveWork, countVars
  <2>2. Answered' = Answered \ {w} /\ w \in Answered
    BY <1>0, <2>1 DEF Answered, Nothing
  <2>3. Counting' = Counting \cup {w} /\ w \notin Counting
    BY <1>0, <2>1 DEF Counting
  <2>4. Cardinality(Answered') = Cardinality(Answered) - 1
    BY <1>00, <2>2, FS_RemoveElement
  <2>5. Cardinality(Counting') = Cardinality(Counting) + 1
    BY <1>00, <2>3, FS_AddElement
  <2>6. /\ SumFunction(chunks_sent)' = SumFunction(chunks_sent)
        /\ SumFunction(chunks_recvd)' = SumFunction(chunks_recvd)
    BY <2>1, Zenon
  <2> QED
    BY <1>00, <2>4, <2>5, <2>6
<1>18. CASE CountWork(w)
  <2>1. /\ pc[w] = "count" /\ pc' = [pc EXCEPT ![w] = "token"]
        /\ chunks_recvd' = [chunks_recvd EXCEPT ![w[1]] = @ + 1]
        /\ UNCHANGED <<answer, chunks_sent>>
    BY <1>18 DEF CountWork, netVars
  <2>2. Answered' = Answered
    BY <2>1 DEF Answered
  <2>3. Counting' = Counting \ {w} /\ w \in Counting
    BY <1>0, <2>1 DEF Counting
  <2>4. Cardinality(Counting') = Cardinality(Counting) - 1
    BY <1>00, <2>3, FS_RemoveElement
  <2>5. SumFunction(chunks_recvd)' = SumFunction(chunks_recvd) + 1
    <3>1. \A x \in Proc \ {w[1]} : chunks_recvd'[x] = chunks_recvd[x]
      BY <1>0, <2>1
    <3>2. chunks_recvd'[w[1]] - chunks_recvd[w[1]] = 1
      BY <1>0, <2>1
    <3>3. SumFunction(chunks_recvd') - SumFunction(chunks_recvd) = 1
      <4>1. \A x \in Proc : chunks_recvd[x] \in Int /\ chunks_recvd'[x] \in Int
        BY <1>0
      <4>2. DOMAIN chunks_recvd = Proc /\ DOMAIN chunks_recvd' = Proc
        BY <1>0
      <4> QED
        BY <1>0, <3>1, <3>2, <4>1, <4>2, RingIsFinite, SumOneChanges
    <3> QED
      BY <1>00, <3>3
  <2>6. SumFunction(chunks_sent)' = SumFunction(chunks_sent)
    BY <2>1, Zenon
  <2> QED
    BY <1>00, <2>2, <2>4, <2>5, <2>6
<1>19. CASE SendWork(w)
  <2>1. PICK r \in Worker : r = serving[w]
    BY <1>0, <1>19 DEF SendWork, Serving
  <2>2. answer[r] = Nothing
    <3>1. /\ <<"service", w>> \in Spots /\ <<"answer", 0>> \in Spots
          /\ <<"service", w>> # <<"answer", 0>>
      BY SpotsAre
    <3>2. IsAt(r, <<"service", w>>)
      BY <2>1, PlacesAre
    <3>3. ~IsAt(r, <<"answer", 0>>)
      BY <3>1, <3>2 DEF AtMostOne
    <3> QED
      BY <3>3, PlacesAre
  <2>3. /\ pc[w] = "send" /\ pc' = [pc EXCEPT ![w] = resume[w]]
        /\ chunks_sent' = [chunks_sent EXCEPT ![w[1]] = @ + 1]
        /\ answer' = [answer EXCEPT ![r] = MessageSize]
        /\ UNCHANGED chunks_recvd
    BY <1>19, <2>1 DEF SendWork, Loaded
  <2>4. Answered' = Answered \cup {r} /\ r \notin Answered
    BY <1>0, <2>2, <2>3 DEF Answered, Nothing
  <2>5. Counting' = Counting
    BY <1>0, <2>3 DEF Counting
  <2>6. Cardinality(Answered') = Cardinality(Answered) + 1
    BY <1>00, <2>4, FS_AddElement
  <2>7. SumFunction(chunks_sent)' = SumFunction(chunks_sent) + 1
    <3>1. \A x \in Proc \ {w[1]} : chunks_sent'[x] = chunks_sent[x]
      BY <1>0, <2>3
    <3>2. chunks_sent'[w[1]] - chunks_sent[w[1]] = 1
      BY <1>0, <2>3
    <3>3. SumFunction(chunks_sent') - SumFunction(chunks_sent) = 1
      <4>1. \A x \in Proc : chunks_sent[x] \in Int /\ chunks_sent'[x] \in Int
        BY <1>0
      <4>2. DOMAIN chunks_sent = Proc /\ DOMAIN chunks_sent' = Proc
        BY <1>0
      <4> QED
        BY <1>0, <3>1, <3>2, <4>1, <4>2, RingIsFinite, SumOneChanges
    <3> QED
      BY <1>00, <3>3
  <2>8. SumFunction(chunks_recvd)' = SumFunction(chunks_recvd)
    BY <2>3, Zenon
  <2> QED
    BY <1>00, <2>5, <2>6, <2>7, <2>8
<1>20. CASE Refuse(w)
  <2>1. PICK r \in Worker : r = serving[w]
    BY <1>0, <1>20 DEF Refuse, Serving
  <2>2. answer[r] = Nothing
    <3>1. /\ <<"service", w>> \in Spots /\ <<"answer", 0>> \in Spots
          /\ <<"service", w>> # <<"answer", 0>>
      BY SpotsAre
    <3>2. IsAt(r, <<"service", w>>)
      BY <2>1, PlacesAre
    <3>3. ~IsAt(r, <<"answer", 0>>)
      BY <3>1, <3>2 DEF AtMostOne
    <3> QED
      BY <3>3, PlacesAre
  <2>3. /\ pc[w] = "refuse" /\ pc' = [pc EXCEPT ![w] = resume[w]]
        /\ answer' = [answer EXCEPT ![r] = 0]
        /\ UNCHANGED <<chunks_sent, chunks_recvd>>
    BY <1>20, <2>1 DEF Refuse
  <2>4. Answered' = Answered
    BY <1>0, <2>2, <2>3 DEF Answered, Nothing
  <2>5. Counting' = Counting
    BY <1>0, <2>3 DEF Counting
  <2> QED
    BY <2>3, <2>4, <2>5, AccountStays
<1> QED
  BY <1>1, <1>2, <1>3, <1>4, <1>5, <1>6, <1>7, <1>8, <1>9, <1>10, <1>11, <1>12,
     <1>13, <1>14, <1>15, <1>16, <1>17, <1>18, <1>19, <1>20 DEF Step

\* The token and the deliveries count no work.
LEMMA AccountOfTokenStep ==
    ASSUME TypeOK, ChunkAccounting, NEW p \in Proc, TokenStep(p) \/ Deliver(p)
    PROVE  ChunkAccounting'
<1> DEFINE ld == Leader(p)
<1>0. pc \in [Worker -> Labels] /\ ld \in Worker
  BY WorkerIs DEF TypeOK
<1>1. /\ UNCHANGED <<chunks_sent, chunks_recvd, answer>>
      /\ \/ pc' = pc
         \/ pc[ld] # "count" /\ \E l : l # "count" /\ pc' = [pc EXCEPT ![ld] = l]
  <2> USE DEF countVars, netVars, Goto
  <2>1. CASE TakeToken(p)
    BY <2>1 DEF TakeToken
  <2>2. CASE Scan(p)
    BY <2>2 DEF Scan, After
  <2>3. CASE WhiteVisit(p)
    BY <2>3 DEF WhiteVisit
  <2>4. CASE PinkVisit(p)
    BY <2>4 DEF PinkVisit, After
  <2>5. CASE RedVisit(p)
    BY <2>5 DEF RedVisit
  <2>6. CASE Deliver(p)
    BY <2>6 DEF Deliver, Match
  <2> QED
    BY <2>1, <2>2, <2>3, <2>4, <2>5, <2>6 DEF TokenStep
<1>2. Answered' = Answered
  BY <1>1 DEF Answered
<1>3. Counting' = Counting
  BY <1>0, <1>1 DEF Counting
<1> QED
  BY <1>1, <1>2, <1>3, AccountStays

-----------------------------------------------------------------------------
(* The invariant holds *)

\* What holds of any number of threads: each request is in one place, and the
\* sums of problems and messages are as the counters say.
RingInv == TypeOK /\ Posting /\ Serving /\ Loaded /\ AtMostOne /\ Awaited
             /\ WorkConserved /\ ChunkAccounting

\* In the beginning thread 0 of each process has that process's problems.
LEMMA WorkOfInit ==
    ASSUME Init
    PROVE  /\ created \in Nat /\ WorkConserved
           /\ Held = First /\ Flying = [p \in Proc |-> 0]
<1>1. First \in [Proc -> Nat] /\ IsFiniteSet(Proc)
  BY RingAssumption, RingIsFinite DEF Proc
<1>2. created \in Nat /\ created = SumFunction(First) /\ processed = 0
  BY <1>1, SumNat DEF Init
<1>3. ASSUME NEW p \in Proc
      PROVE  Held[p] = First[p]
  <2> DEFINE f == [t \in Thread(p) |-> Load(p, t)]
             z == [t \in Thread(p) |-> 0]
  <2>1. \A t \in Thread(p) : f[t] = IF t = 0 THEN First[p] ELSE 0
    <3>1. \A t \in Thread(p) : <<p, t>> \in Worker
      BY WorkerIs
    <3>2. ASSUME NEW t \in Thread(p)
          PROVE  f[t] = IF t = 0 THEN First[p] ELSE 0
      <4>1. /\ localDepth[<<p, t>>] = IF t = 0 THEN First[p] ELSE 0
            /\ sharedDepth[<<p, t>>] = 0 /\ taken[<<p, t>>] = 0
        BY <3>1 DEF Init
      <4>2. First[p] \in Nat
        BY <1>1
      <4> QED
        BY <4>1, <4>2 DEF Load, ss_localFullDepth
    <3> QED
      BY <3>2
  <2>2. 0 \in Thread(p) /\ IsFiniteSet(Thread(p))
    <3>1. T[p] \in Nat \ {0}
      BY WorkerIs
    <3> QED
      BY <3>1, RingIsFinite DEF Thread
  <2>3. z \in [Thread(p) -> Nat] /\ \A t \in Thread(p) : z[t] = 0
    OBVIOUS
  <2>4. DOMAIN f = Thread(p) /\ DOMAIN z = Thread(p)
    OBVIOUS
  <2>5. Held[p] = SumFunction(f)
    BY Zenon DEF Held
  <2>6. First[p] \in Nat
    BY <1>1
  <2> HIDE DEF f, z
  <2>7. SumFunction(z) = 0
    BY <2>2, <2>3, SumNat
  <2>8. /\ \A t \in Thread(p) : z[t] \in Int /\ f[t] \in Int
        /\ \A t \in Thread(p) \ {0} : f[t] = z[t]
    BY <2>1, <2>3, <2>6
  <2>9. SumFunction(f) \in Int /\ SumFunction(f) - SumFunction(z) = f[0] - z[0]
    BY <2>2, <2>4, <2>8, SumOneChanges
  <2>10. f[0] = First[p] /\ z[0] = 0
    BY <2>1, <2>2, <2>3
  <2> QED
    BY <2>5, <2>6, <2>7, <2>9, <2>10
<1>4. Held = First
  <2>1. Held = [p \in Proc |-> Held[p]]
    BY DEF Held
  <2> QED
    BY <1>1, <1>3, <2>1
<1>5. SumFunction(Flying) = 0 /\ Flying = [p \in Proc |-> 0]
  <2>1. ASSUME NEW w \in Worker
        PROVE  Afloat[w] = 0
    BY DEF Init, Afloat
  <2>2. Afloat \in [Worker -> Nat]
    BY <2>1 DEF Afloat
  <2>3. Total(Afloat) = 0
    BY <2>1, <2>2, TotalIsNat
  <2>4. \A p \in Proc : \A t \in Thread(p) : Afloat[<<p, t>>] = 0
    BY <2>1, WorkerIs
  <2>5. Of(Afloat) \in [Proc -> Nat] /\ \A p \in Proc : Of(Afloat)[p] = 0
    BY <2>2, <2>4, TotalIsNat
  <2> QED
    BY <2>3, <2>5, SumsAreTotals DEF Total
<1>6. WorkConserved
  BY <1>2, <1>4, <1>5 DEF WorkConserved
<1> QED
  BY <1>2, <1>4, <1>5, <1>6

\* Nothing has been sent.
LEMMA RingInvInit ==
    ASSUME Init
    PROVE  RingInv
<1>1. created \in Nat /\ WorkConserved
  BY WorkOfInit
<1>2. TypeOK
  <2>1. \A p \in Proc : First[p] \in Nat /\ MaxRequests[p] \in Nat /\ (p + N - 1) % N \in Proc
    <3>1. \A a \in Int : \A b \in Nat \ {0} : a % b \in 0 .. b - 1
      OBVIOUS
    <3>2. ASSUME NEW p \in Proc
          PROVE  (p + N - 1) % N \in Proc
      <4>1. p + N - 1 \in Int /\ N \in Nat \ {0} /\ Proc = 0 .. N - 1
        BY RingIs
      <4> QED
        BY <3>1, <4>1
    <3>3. \A p \in Proc : First[p] \in Nat /\ MaxRequests[p] \in Nat
      BY RingAssumption DEF Proc
    <3> QED
      BY <3>2, <3>3
  <2>2. \A w \in Worker : w[1] \in Proc
    BY WorkerIs
  <2>3. /\ localDepth \in [Worker -> Nat] /\ last_steal \in [Worker -> Proc]
        /\ asked \in [Worker -> Nat] /\ \A w \in Worker : asked[w] <= MaxRequests[w[1]]
    BY <2>1, <2>2 DEF Init
  <2>4. scanned \in [Proc -> Nat] /\ \A p \in Proc : scanned[p] <= T[p]
    <3>1. \A p \in Proc : T[p] \in Nat \ {0}
      BY WorkerIs
    <3> QED
      BY <3>1 DEF Init
  <2>5. td_token \in [at : Proc, moving : BOOLEAN, color : {White, Pink, Red},
                      recv_count : [Proc -> Nat], send_count : [Proc -> Nat],
                      status : [Proc -> 0 .. 4]]
    BY RingIs DEF Init
  <2> QED
    BY <1>1, <2>3, <2>4, <2>5 DEF Init, TypeOK, Labels
<1>3. Posting /\ Serving /\ Loaded
  BY DEF Init, Posting, Serving, Loaded
<1>4. \A w \in Worker : \A x \in Spots : ~IsAt(w, x)
  <2>1. \A w \in Worker : w # Nobody
    BY WorkerIs
  <2>2. \A x \in Spots : x[1] \in {"listener", "service"} => x[2] \in Worker
    BY DEF Spots
  <2> QED
    BY <2>1, <2>2 DEF Init, IsAt
<1>5. AtMostOne /\ Awaited
  BY <1>4 DEF AtMostOne, Awaited
<1>6. ChunkAccounting
  <2>1. SumFunction(chunks_sent) = 0 /\ SumFunction(chunks_recvd) = 0
    <3>1. [p \in Proc |-> 0] \in [Proc -> Nat] /\ \A x \in Proc : [p \in Proc |-> 0][x] = 0
      OBVIOUS
    <3>2. SumFunction([p \in Proc |-> 0]) = 0
      BY <3>1, RingIsFinite, SumNat
    <3> QED
      BY <3>2 DEF Init
  <2>2. {w \in Worker : answer[w] > 0} = {} /\ {w \in Worker : pc[w] = "count"} = {}
    BY DEF Init, Nothing
  <2>3. Cardinality({}) = 0
    BY FS_EmptySet
  <2> QED
    BY <2>1, <2>2, <2>3 DEF ChunkAccounting
<1> QED
  BY <1>1, <1>2, <1>3, <1>5, <1>6 DEF RingInv

\* Every step keeps it.
LEMMA RingInvStep ==
    ASSUME RingInv, [Next]_vars
    PROVE  RingInv'
<1> USE DEF RingInv
<1>1. ASSUME NEW w \in Worker, Step(w)
      PROVE  RingInv'
  <2>1. TypeOK'
    BY <1>1, TypeOfStep
  <2> QED
    BY <1>1, <2>1, HandsOfStep, SpotsOfStep, WorkOfStep, AccountOfStep
<1>2. ASSUME NEW p \in Proc, TokenStep(p)
      PROVE  RingInv'
  BY <1>2, TypeOfTokenStep, HandsOfTokenStep, SpotsOfTokenStep, WorkOfTokenStep,
     AccountOfTokenStep
<1>3. ASSUME NEW p \in Proc, Deliver(p)
      PROVE  RingInv'
  BY <1>3, TypeOfDelivery, HandsOfDelivery, SpotsOfDelivery, WorkOfTokenStep,
     AccountOfTokenStep
<1>4. CASE UNCHANGED vars
  <2>1. TypeOK' /\ Posting' /\ Serving' /\ Loaded'
    BY <1>4 DEF vars, workVars, askVars, netVars, countVars, tokenVars, TypeOK,
                Posting, Serving, Loaded
  <2>2. AtMostOne' /\ Awaited'
    BY <1>4, SpotsStay DEF vars, askVars, netVars
  <2>3. WorkConserved'
    BY <1>4, WorkStays DEF vars, workVars, netVars
  <2>4. ChunkAccounting'
    BY <1>4, AccountStays DEF vars, netVars, countVars, Answered, Counting
  <2> QED
    BY <2>1, <2>2, <2>3, <2>4
<1>5. CASE Done
  BY <1>4, <1>5 DEF Done
<1> QED
  BY <1>1, <1>2, <1>3, <1>4, <1>5 DEF Next

\* TypeOK, the places of every request and both sums, for every ring of
\* processes, every number of threads, chunk size, input and recursion.
THEOREM RingInductive == Spec => []RingInv
<1>1. Init => RingInv
  BY RingInvInit
<1>2. RingInv /\ [Next]_vars => RingInv'
  BY RingInvStep
<1> QED
  BY <1>1, <1>2, PTL DEF Spec

\* Every variable of the ring keeps its type.
THEOREM RingTypes == Spec => []TypeOK
<1>1. RingInv => TypeOK
  BY DEF RingInv
<1> QED
  BY <1>1, RingInductive, PTL

\* No problem is lost or duplicated between the stacks, the buffers ow_buff and
\* iw_buff, and the messages.
THEOREM WorkIsConserved == Spec => []WorkConserved
<1>1. RingInv => WorkConserved
  BY DEF RingInv
<1> QED
  BY <1>1, RingInductive, PTL

\* chunks_sent and chunks_recvd tell the work messages that are under way.
THEOREM ChunksAreAccounted == Spec => []ChunkAccounting
<1>1. RingInv => ChunkAccounting
  BY DEF RingInv
<1> QED
  BY <1>1, RingInductive, PTL

-----------------------------------------------------------------------------
(***************************************************************************)
(* How the processes of dparallel_stack_recursion find out that a run is   *)
(* over, when each of them runs one thread: for every number of processes, *)
(* the token turns PINK only when no work is left, and RED only when no    *)
(* message is left, and until then each request gets exactly one answer.   *)
(* (With several threads in a process the first of these is false: a run   *)
(* of TokenRing shows it.)                                                 *)
(***************************************************************************)

\* The processes run one thread each.
OneThreadEach == \A p \in Proc : T[p] = 1

-----------------------------------------------------------------------------
(* A round of the token, of either colour *)

\* r lies on the way of the token from process a to process q.
OnTheWay(a, r, q) ==
    IF a <= q THEN a <= r /\ r <= q ELSE a <= r \/ r <= q

\* While the token collects the counters R (received) and S (sent), counts is
\* what it has collected and at where it is.  The processes it has not been
\* to are those ahead of it; a counter is confirmed only after all have been
\* collected; and a process whose messages received are still those collected
\* has sent none since and is calm, unless it is busy with one it has not
\* counted.
Collecting(counts, base) ==
    /\ \A p \in Proc : counts.status[p] \in {base, base + 1, base + 2}
    /\ (\E p \in Proc : counts.status[p] = base)
            => \A p \in Proc : counts.status[p] # base + 2
Ahead(counts, base, at) ==
    \A q, r \in Proc :
        counts.status[q] = base /\ OnTheWay(at, r, q) => counts.status[r] = base
Faithful(counts, base, R, S, Calm, Busy) ==
    \A p \in Proc : counts.status[p] # base =>
        /\ counts.recv_count[p] <= R[p]
        /\ counts.recv_count[p] = R[p] /\ p \notin Busy
                => counts.send_count[p] = S[p] /\ p \in Calm
Round(counts, at, base, R, S, Calm, Busy) ==
    /\ Collecting(counts, base)
    /\ Ahead(counts, base, at)
    /\ Faithful(counts, base, R, S, Calm, Busy)

\* The round will fail: if all are collected and as many messages have been
\* sent as received, there is a process the token will not confirm.
Collected(counts, base) ==
    /\ \A p \in Proc : counts.status[p] # base
    /\ SumFunction(counts.recv_count) = SumFunction(counts.send_count)
Failing(counts, base, R, Busy) ==
    Collected(counts, base) =>
        \E q \in Proc : /\ counts.status[q] = base + 1
                        /\ counts.recv_count[q] # R[q] \/ q \in Busy


-----------------------------------------------------------------------------
(* What keeps a round going *)

\* The counters move on: those received only grow, and a calm process sends
\* nothing and stays calm unless it receives something.
LEMMA RoundStays ==
    ASSUME NEW counts, NEW at, NEW base \in Int,
           NEW R \in [Proc -> Nat], NEW S, NEW Calm, NEW Busy,
           NEW R2 \in [Proc -> Nat], NEW S2, NEW Calm2, NEW Busy2,
           counts.recv_count \in [Proc -> Nat],
           Round(counts, at, base, R, S, Calm, Busy),
           \A p \in Proc :
               /\ R[p] <= R2[p]
               /\ R[p] = R2[p] /\ p \in Busy => p \in Busy2
               /\ R[p] = R2[p] /\ p \notin Busy2 /\ p \in Calm => S2[p] = S[p] /\ p \in Calm2
    PROVE  /\ Round(counts, at, base, R2, S2, Calm2, Busy2)
           /\ Failing(counts, base, R, Busy) => Failing(counts, base, R2, Busy2)
<1>1. Collecting(counts, base) /\ Ahead(counts, base, at)
  BY DEF Round
<1>2. ASSUME NEW p \in Proc, counts.status[p] # base
      PROVE  /\ counts.recv_count[p] <= R2[p]
             /\ counts.recv_count[p] = R2[p] /\ p \notin Busy2
                   => counts.send_count[p] = S2[p] /\ p \in Calm2
             /\ counts.recv_count[p] # R[p] \/ p \in Busy
                   => counts.recv_count[p] # R2[p] \/ p \in Busy2
  <2>1. /\ counts.recv_count[p] <= R[p]
        /\ counts.recv_count[p] = R[p] /\ p \notin Busy
              => counts.send_count[p] = S[p] /\ p \in Calm
    BY <1>2 DEF Round, Faithful
  <2>2. counts.recv_count[p] \in Nat /\ R[p] \in Nat /\ R2[p] \in Nat
    OBVIOUS
  <2>3. /\ R[p] <= R2[p]
        /\ R[p] = R2[p] /\ p \in Busy => p \in Busy2
        /\ R[p] = R2[p] /\ p \notin Busy2 /\ p \in Calm => S2[p] = S[p] /\ p \in Calm2
    OBVIOUS
  <2>4. counts.recv_count[p] = R2[p] => R[p] = R2[p] /\ counts.recv_count[p] = R[p]
    BY <2>1, <2>2, <2>3
  <2>5. counts.recv_count[p] <= R2[p]
    BY <2>1, <2>2, <2>3
  <2> QED
    BY <2>1, <2>3, <2>4, <2>5
<1>3. Faithful(counts, base, R2, S2, Calm2, Busy2)
  BY <1>2 DEF Faithful
<1>4. Failing(counts, base, R, Busy) => Failing(counts, base, R2, Busy2)
  <2> SUFFICES ASSUME Failing(counts, base, R, Busy), Collected(counts, base)
               PROVE  \E q \in Proc : /\ counts.status[q] = base + 1
                                      /\ counts.recv_count[q] # R2[q] \/ q \in Busy2
    BY Zenon DEF Failing
  <2>1. PICK q \in Proc : /\ counts.status[q] = base + 1
                          /\ counts.recv_count[q] # R[q] \/ q \in Busy
    BY Zenon DEF Failing
  <2>2. counts.status[q] # base
    BY <2>1
  <2> QED
    BY <1>2, <2>1, <2>2
<1> QED
  BY <1>1, <1>3, <1>4 DEF Round

\* A round in which everybody is confirmed and the sums agree has not failed.
LEMMA RoundEnds ==
    ASSUME NEW base \in Int, NEW R, NEW Busy, AllConfirmed(base), SumsAgree
    PROVE  ~Failing(td_token, base, R, Busy)
<1>1. \A p \in Proc : td_token.status[p] # base /\ td_token.status[p] # base + 1
  BY DEF AllConfirmed
<1>2. Collected(td_token, base)
  BY <1>1 DEF Collected, SumsAgree
<1> QED
  BY <1>1, <1>2 DEF Failing

\* The way of the token.
LEMMA WayOfToken ==
    ASSUME NEW p \in Proc
    PROVE  /\ \A q \in Proc : OnTheWay(p, p, q)
           /\ \A q, r \in Proc : q # p /\ OnTheWay(Next1(p), r, q)
                                    => OnTheWay(p, r, q) /\ r # p
<1>1. N \in Nat \ {0, 1} /\ Proc = 0 .. N - 1
  BY RingIs
<1>2. Next1(p) = IF p = N - 1 THEN 0 ELSE p + 1
  BY RingIs
<1> QED
  BY <1>1, <1>2 DEF OnTheWay

\* A calm process starts a round.
LEMMA RoundStarts ==
    ASSUME NEW base \in Int, NEW p \in Proc,
           NEW R, NEW S, NEW Calm, NEW Busy, p \in Calm, R[p] \in Nat
    PROVE  /\ Round(Restarted(base, p, R[p], S[p]), Next1(p), base, R, S, Calm, Busy)
           /\ Failing(Restarted(base, p, R[p], S[p]), base, R, Busy)
<1> DEFINE counts == Restarted(base, p, R[p], S[p])
<1>1. /\ \A q \in Proc : counts.status[q] = IF q = p THEN base + 1 ELSE base
      /\ counts.recv_count[p] = R[p] /\ counts.send_count[p] = S[p]
  BY DEF Restarted
<1> HIDE DEF counts
<1>2. base + 1 # base /\ base + 2 # base /\ base + 2 # base + 1
  OBVIOUS
<1>3. Collecting(counts, base)
  BY <1>1, <1>2 DEF Collecting
<1>4. Ahead(counts, base, Next1(p))
  BY <1>1, <1>2, WayOfToken DEF Ahead
<1>5. Faithful(counts, base, R, S, Calm, Busy)
  BY <1>1, <1>2 DEF Faithful
<1>6. Failing(counts, base, R, Busy)
  <2>1. Next1(p) \in Proc /\ Next1(p) # p
    BY RingIs
  <2>2. counts.status[Next1(p)] = base
    BY <1>1, <2>1
  <2> QED
    BY <2>1, <2>2 DEF Failing, Collected
<1> QED
  BY <1>3, <1>4, <1>5, <1>6 DEF Round, counts

\* The token visits a calm process: the round goes on, and if it was to fail it
\* is still to fail, or everybody is calm and the counters themselves agree.
LEMMA RoundVisits ==
    ASSUME TypeOK, NEW base \in {0, 2}, NEW p \in Proc,
           NEW R \in [Proc -> Nat], NEW S \in [Proc -> Nat], NEW Calm, NEW Busy,
           p \in Calm, p \notin Busy,
           Round(td_token, p, base, R, S, Calm, Busy)
    PROVE  /\ Round(Visited(base, p, R[p], S[p]), Next1(p), base, R, S, Calm, Busy)
           /\ Failing(td_token, base, R, Busy) =>
                \/ Failing(Visited(base, p, R[p], S[p]), base, R, Busy)
                \/ /\ \A q \in Proc : q \in Calm /\ q \notin Busy
                   /\ SumFunction(R) = SumFunction(S)
<1> DEFINE st == td_token.status
           rc == td_token.recv_count
           sc == td_token.send_count
           new == Visited(base, p, R[p], S[p])
<1>0. /\ rc \in [Proc -> Nat] /\ sc \in [Proc -> Nat] /\ st \in [Proc -> 0 .. 4]
      /\ base \in Int /\ base + 1 # base /\ base + 2 # base /\ base + 2 # base + 1
      /\ R[p] \in Nat /\ S[p] \in Nat
  BY DEF TypeOK
<1>1. /\ \A q \in Proc : st[q] \in {base, base + 1, base + 2}
      /\ (\E q \in Proc : st[q] = base) => \A q \in Proc : st[q] # base + 2
      /\ \A q, r \in Proc : st[q] = base /\ OnTheWay(p, r, q) => st[r] = base
  BY DEF Round, Collecting, Ahead
<1>2. \A q \in Proc : st[q] # base =>
          /\ rc[q] <= R[q]
          /\ rc[q] = R[q] /\ q \notin Busy => sc[q] = S[q] /\ q \in Calm
  BY DEF Round, Faithful
<1>3. st[p] # base => \A q \in Proc : st[q] # base
  BY <1>1, WayOfToken
<1>4. CASE st[p] = base
  <2>1. /\ new.recv_count = [rc EXCEPT ![p] = R[p]] /\ new.send_count = [sc EXCEPT ![p] = S[p]]
        /\ new.status = [st EXCEPT ![p] = base + 1]
    BY <1>4 DEF Visited
  <2> HIDE DEF new
  <2>2. /\ \A q \in Proc : new.status[q] = IF q = p THEN base + 1 ELSE st[q]
        /\ \A q \in Proc : new.recv_count[q] = IF q = p THEN R[p] ELSE rc[q]
        /\ \A q \in Proc : new.send_count[q] = IF q = p THEN S[p] ELSE sc[q]
        /\ new.recv_count \in [Proc -> Nat] /\ new.send_count \in [Proc -> Nat]
    BY <1>0, <2>1
  <2> HIDE DEF st, rc, sc
  <2>3. Collecting(new, base)
    BY <1>0, <1>1, <1>4, <2>2 DEF Collecting
  <2>4. Ahead(new, base, Next1(p))
    BY <1>0, <1>1, <2>2, WayOfToken DEF Ahead
  <2>5. Faithful(new, base, R, S, Calm, Busy)
    BY <1>0, <1>2, <2>2 DEF Faithful
  <2>6. ASSUME ~Failing(new, base, R, Busy)
        PROVE  /\ \A q \in Proc : q \in Calm /\ q \notin Busy
               /\ SumFunction(R) = SumFunction(S)
    <3>1. Collected(new, base) /\ \A q \in Proc : new.status[q] = base + 1 => new.recv_count[q] = R[q] /\ q \notin Busy
      BY <2>6 DEF Failing
    <3>2. \A q \in Proc : new.status[q] = base + 1
      BY <2>3, <3>1, <1>1, <1>4, <2>2, <1>0 DEF Collecting, Collected
    <3>3. \A q \in Proc : new.recv_count[q] = R[q] /\ q \notin Busy
      BY <3>1, <3>2
    <3>4. \A q \in Proc : new.send_count[q] = S[q] /\ q \in Calm
      BY <1>0, <2>5, <3>2, <3>3 DEF Faithful
    <3>5. new.recv_count = R /\ new.send_count = S
      BY <2>2, <3>3, <3>4
    <3>6. SumFunction(new.recv_count) = SumFunction(new.send_count)
      BY <3>1 DEF Collected
    <3> QED
      BY <3>3, <3>4, <3>5, <3>6
  <2> QED
    BY <2>3, <2>4, <2>5, <2>6 DEF Round, new
<1>5. CASE new = Restarted(base, p, R[p], S[p])
  <2>1. /\ Round(Restarted(base, p, R[p], S[p]), Next1(p), base, R, S, Calm, Busy)
        /\ Failing(Restarted(base, p, R[p], S[p]), base, R, Busy)
    BY <1>0, RoundStarts
  <2> HIDE DEF new
  <2>2. Round(new, Next1(p), base, R, S, Calm, Busy) /\ Failing(new, base, R, Busy)
    BY <1>5, <2>1
  <2> QED
    BY <2>2 DEF new
<1>6. CASE /\ st[p] = base + 1 /\ Unchanged(p, R[p], S[p])
           /\ new = [recv_count |-> rc, send_count |-> sc, status |-> [st EXCEPT ![p] = base + 2]]
  <2>1. new.recv_count = rc /\ new.send_count = sc /\ new.status = [st EXCEPT ![p] = base + 2]
    BY <1>6
  <2> HIDE DEF new
  <2>2. /\ \A q \in Proc : new.status[q] = IF q = p THEN base + 2 ELSE st[q]
        /\ rc[p] = R[p] /\ sc[p] = S[p]
    BY <1>0, <1>6, <2>1 DEF Unchanged
  <2>3. \A q \in Proc : st[q] # base /\ new.status[q] # base
    BY <1>0, <1>3, <1>6, <2>2
  <2> HIDE DEF st, rc, sc
  <2>4. Collecting(new, base)
    BY <1>0, <1>1, <2>2, <2>3 DEF Collecting
  <2>5. Ahead(new, base, Next1(p))
    BY <2>3 DEF Ahead
  <2>6. Faithful(new, base, R, S, Calm, Busy)
    BY <1>2, <2>1, <2>3 DEF Faithful
  <2>7. ASSUME Failing(td_token, base, R, Busy)
        PROVE  Failing(new, base, R, Busy)
    <3> SUFFICES ASSUME Collected(new, base)
                 PROVE  \E q \in Proc : /\ new.status[q] = base + 1
                                        /\ new.recv_count[q] # R[q] \/ q \in Busy
      BY Zenon DEF Failing
    <3>1. Collected(td_token, base)
      BY <2>1, <2>3 DEF Collected, st, rc, sc
    <3>2. PICK q \in Proc : st[q] = base + 1 /\ (rc[q] # R[q] \/ q \in Busy)
      BY <2>7, <3>1, Zenon DEF Failing, st, rc
    <3>3. q # p
      BY <2>2, <3>2
    <3> QED
      BY <2>1, <2>2, <3>2, <3>3
  <2> QED
    BY <2>4, <2>5, <2>6, <2>7 DEF Round, new
<1>7. CASE /\ st[p] = base + 2
           /\ new = [recv_count |-> rc, send_count |-> sc, status |-> st]
  <2>1. new.recv_count = rc /\ new.send_count = sc /\ new.status = st
    BY <1>7
  <2>2. \A q \in Proc : st[q] # base
    BY <1>0, <1>3, <1>7
  <2> HIDE DEF new
  <2>3. Collecting(new, base) /\ Ahead(new, base, Next1(p))
    BY <1>1, <2>1, <2>2 DEF Collecting, Ahead
  <2>4. Faithful(new, base, R, S, Calm, Busy)
    BY <1>2, <2>1 DEF Faithful
  <2>5. Failing(td_token, base, R, Busy) => Failing(new, base, R, Busy)
    BY <2>1 DEF Failing, Collected
  <2> QED
    BY <2>3, <2>4, <2>5 DEF Round, new
<1>8. \/ st[p] = base
      \/ new = Restarted(base, p, R[p], S[p])
      \/ /\ st[p] = base + 1 /\ Unchanged(p, R[p], S[p])
         /\ new = [recv_count |-> rc, send_count |-> sc, status |-> [st EXCEPT ![p] = base + 2]]
      \/ /\ st[p] = base + 2
         /\ new = [recv_count |-> rc, send_count |-> sc, status |-> st]
  <2>1. st[p] \in {base, base + 1, base + 2}
    BY <1>1
  <2>2. CASE st[p] = base + 1
    BY <1>0, <2>2 DEF Visited
  <2>3. CASE st[p] = base + 2
    BY <1>0, <2>3 DEF Visited
  <2> QED
    BY <2>1, <2>2, <2>3
<1> HIDE DEF st, rc, sc, new
<1>9. /\ Round(new, Next1(p), base, R, S, Calm, Busy)
      /\ Failing(td_token, base, R, Busy) =>
           \/ Failing(new, base, R, Busy)
           \/ /\ \A q \in Proc : q \in Calm /\ q \notin Busy
              /\ SumFunction(R) = SumFunction(S)
  BY <1>4, <1>5, <1>6, <1>7, <1>8 DEF new
<1> QED
  BY <1>9 DEF new

-----------------------------------------------------------------------------
(* The invariant *)

\* A process has no work.
Empty(w) == ss_localFullDepth(w) = 0 /\ taken[w] = 0
Idle == {p \in Proc : Empty(Leader(p))}
Landing == {p \in Proc : pc[Leader(p)] = "count"}

\* No work is left: what the WHITE rounds find out.
WorkOver ==
    \A w \in Worker : Empty(w) /\ ~(answer[w] > 0) /\ pc[w] # "count"

\* A process does not ask any more, and has nothing to answer.
Silent == {p \in Proc :
    my_color[p] # White /\ pc[Leader(p)] \notin {"post", "take", "send", "refuse"}}

\* No message is left: what the PINK rounds find out.
MessagesOver ==
    /\ requests = {} /\ Silent = Proc
    /\ \A w \in Worker : answer[w] = Nothing /\ wrin[w] \notin Worker /\ pc[w] # "count"

\* The token is with the process that looks at it; and who leaves is RED.
Holding == \A w \in Worker :
    pc[w] \in {"scan", "visit"} =>
        /\ td_token.at = w[1] /\ ~td_token.moving
        /\ (pc[w] = "scan") <=> (td_token.color = White)
        /\ pc[w] = "scan" /\ scanned[w[1]] > 0 => Empty(w)
Colors == \A p \in Proc :
    /\ my_color[p] # White => td_token.color # White
    /\ my_color[p] = Red => td_token.color = Red
Leaving == \A w \in Worker :
    pc[w] \in {"clear", "barrier", "ended"} => my_color[w[1]] = Red

\* ctrl_sent and ctrl_recvd, added over the ring, differ by the requests and
\* the refusals that are under way.
CtrlAccounting ==
    SumFunction(ctrl_sent) - SumFunction(ctrl_recvd) =
        Cardinality(requests) + Cardinality({w \in Worker : wrin[w] \in Worker})
          + Cardinality({w \in Worker : answer[w] = 0})

\* A request that is waited for is somewhere.
Present == \A w \in Worker : waiting[w] => \E x \in Spots : IsAt(w, x)

WhiteRound == td_token.color = White =>
    /\ Round(td_token, td_token.at, 0, chunks_recvd, chunks_sent, Idle, Landing)
    /\ WorkOver \/ Failing(td_token, 0, chunks_recvd, Landing)
PinkRound == td_token.color = Pink =>
    /\ Round(td_token, td_token.at, 2, ctrl_recvd, ctrl_sent, Silent, {})
    /\ MessagesOver \/ Failing(td_token, 2, ctrl_recvd, {})

\* What has been found out is so, and final.
Rounds ==
    /\ WhiteRound /\ PinkRound
    /\ td_token.color # White => WorkOver
    /\ td_token.color = Red => MessagesOver

\* All of it.
EndInv ==
    /\ RingInv /\ Holding /\ Colors /\ Leaving /\ CtrlAccounting /\ Present
    /\ Rounds

-----------------------------------------------------------------------------
(* One thread each *)

\* A worker is the leader of its process, and has nobody to steal from.
LEMMA LeadersOnly ==
    ASSUME OneThreadEach
    PROVE  /\ \A p \in Proc : Thread(p) = {0} /\ Leader(p) \in Worker /\ Leader(p)[1] = p
           /\ \A w \in Worker : w = Leader(w[1]) /\ w[1] \in Proc /\ Siblings(w) = {}
           /\ \A w, v \in Worker : w[1] = v[1] => w = v
<1>1. \A p \in Proc : Thread(p) = {0}
  BY DEF OneThreadEach, Thread
<1>2. \A p \in Proc : Leader(p) \in Worker /\ Leader(p)[1] = p
  BY WorkerIs DEF Leader
<1>3. ASSUME NEW w \in Worker
      PROVE  w = Leader(w[1]) /\ w[1] \in Proc
  <2>1. w[1] \in Proc /\ w[2] \in Thread(w[1]) /\ w = <<w[1], w[2]>>
    BY WorkerIs
  <2>2. w[2] = 0
    BY <1>1, <2>1
  <2> QED
    BY <2>1, <2>2 DEF Leader
<1>4. \A w, v \in Worker : w[1] = v[1] => w = v
  BY <1>3
<1>5. \A w \in Worker : Siblings(w) = {}
  BY <1>4 DEF Siblings
<1> QED
  BY <1>1, <1>2, <1>3, <1>4, <1>5

\* What the proofs about a step use of the types.
LEMMA TypesAre ==
    ASSUME TypeOK
    PROVE  /\ pc \in [Worker -> Labels] /\ resume \in [Worker -> {"work", "receive"}]
           /\ localDepth \in [Worker -> Nat] /\ sharedDepth \in [Worker -> Nat]
           /\ taken \in [Worker -> {0, MessageSize}]
           /\ answer \in [Worker -> {Nothing, 0, MessageSize}]
           /\ serving \in [Worker -> Worker \cup {Nobody}]
           /\ wrin \in [Worker -> Worker \cup {Nobody, Closed}]
           /\ requests \subseteq Worker \X Proc /\ waiting \in [Worker -> BOOLEAN]
           /\ my_color \in [Proc -> {White, Pink, Red}]
           /\ chunks_sent \in [Proc -> Nat] /\ chunks_recvd \in [Proc -> Nat]
           /\ ctrl_sent \in [Proc -> Nat] /\ ctrl_recvd \in [Proc -> Nat]
BY DEF TypeOK

\* A step of a thread touches its own stack, buffer and place, and its own
\* process's counters only.
LEMMA OthersStill ==
    ASSUME OneThreadEach, TypeOK, NEW w \in Worker, Step(w)
    PROVE  /\ \A u \in Worker \ {w} :
                /\ localDepth'[u] = localDepth[u] /\ sharedDepth'[u] = sharedDepth[u]
                /\ taken'[u] = taken[u] /\ pc'[u] = pc[u]
           /\ \A q \in Proc \ {w[1]} :
                /\ chunks_sent'[q] = chunks_sent[q] /\ chunks_recvd'[q] = chunks_recvd[q]
                /\ ctrl_sent'[q] = ctrl_sent[q] /\ ctrl_recvd'[q] = ctrl_recvd[q]
           /\ UNCHANGED tokenVars
<1> USE DEF Goto, workVars, countVars
<1>0. /\ pc \in [Worker -> Labels] /\ localDepth \in [Worker -> Nat]
      /\ sharedDepth \in [Worker -> Nat] /\ taken \in [Worker -> {0, MessageSize}]
      /\ chunks_sent \in [Proc -> Nat] /\ chunks_recvd \in [Proc -> Nat]
      /\ ctrl_sent \in [Proc -> Nat] /\ ctrl_recvd \in [Proc -> Nat]
  BY TypesAre
<1>00. Siblings(w) = {} /\ \A v \in Worker : v[1] = w[1] => v = w
  BY LeadersOnly
<1> DEFINE Goal ==
       /\ \A u \in Worker \ {w} :
                /\ localDepth'[u] = localDepth[u] /\ sharedDepth'[u] = sharedDepth[u]
                /\ taken'[u] = taken[u] /\ pc'[u] = pc[u]
       /\ \A q \in Proc \ {w[1]} :
                /\ chunks_sent'[q] = chunks_sent[q] /\ chunks_recvd'[q] = chunks_recvd[q]
                /\ ctrl_sent'[q] = ctrl_sent[q] /\ ctrl_recvd'[q] = ctrl_recvd[q]
       /\ UNCHANGED tokenVars
<1>1. ASSUME SolveBase(w)
      PROVE  Goal
  BY <1>0, <1>1 DEF SolveBase
<1>2. ASSUME NEW k \in Fanout, Expand(w, k)
      PROVE  Goal
  BY <1>0, <1>00, <1>2 DEF Expand
<1>3. ASSUME Acquire(w)
      PROVE  Goal
  BY <1>0, <1>3 DEF Acquire
<1>4. ASSUME NEW v \in Siblings(w), StealHere(w, v)
      PROVE  Goal
  BY <1>0, <1>00, <1>4 DEF StealHere
<1>5. ASSUME NothingHere(w)
      PROVE  Goal
  BY <1>0, <1>5 DEF NothingHere
<1>6. ASSUME GetWork(w)
      PROVE  Goal
  BY <1>0, <1>6 DEF GetWork
<1>7. ASSUME Post(w)
      PROVE  Goal
  BY <1>0, <1>7 DEF Post
<1>8. ASSUME ReceiveWork(w)
      PROVE  Goal
  BY <1>0, <1>8 DEF ReceiveWork
<1>9. ASSUME CountWork(w)
      PROVE  Goal
  BY <1>0, <1>9 DEF CountWork
<1>10. ASSUME ReceiveRefusal(w)
      PROVE  Goal
  BY <1>0, <1>10 DEF ReceiveRefusal
<1>11. ASSUME NoAnswer(w)
      PROVE  Goal
  BY <1>0, <1>11 DEF NoAnswer
<1>12. ASSUME NoRequest(w)
      PROVE  Goal
  BY <1>0, <1>12 DEF NoRequest
<1>13. ASSUME Accept(w)
      PROVE  Goal
  BY <1>0, <1>13 DEF Accept
<1>14. ASSUME NEW v \in Worker, TakeForRemote(w, v)
      PROVE  Goal
  BY <1>0, <1>00, <1>14 DEF TakeForRemote
<1>15. ASSUME NothingForRemote(w)
      PROVE  Goal
  BY <1>0, <1>15 DEF NothingForRemote
<1>16. ASSUME SendWork(w)
      PROVE  Goal
  BY <1>0, <1>16 DEF SendWork
<1>17. ASSUME Refuse(w)
      PROVE  Goal
  BY <1>0, <1>17 DEF Refuse
<1>18. ASSUME SkipToken(w)
      PROVE  Goal
  BY <1>0, <1>18 DEF SkipToken
<1>19. ASSUME Clear(w)
      PROVE  Goal
  BY <1>0, <1>19 DEF Clear
<1>20. ASSUME End(w)
      PROVE  Goal
  BY <1>0, <1>20 DEF End
<1> HIDE DEF Goal
<1>21. Goal
  BY <1>1, <1>2, <1>3, <1>4, <1>5, <1>6, <1>7, <1>8, <1>9, <1>10, <1>11, <1>12, <1>13, <1>14, <1>15, <1>16, <1>17, <1>18, <1>19, <1>20 DEF Step
<1> QED
  BY <1>21 DEF Goal

\* A thread comes to count work by receiving it.
LEMMA ReceiveWorkOnly ==
    ASSUME TypeOK, NEW w \in Worker, Step(w), pc[w] # "count", ~(answer[w] > 0)
    PROVE  pc'[w] # "count"
<1> USE DEF Goto
<1>0. pc \in [Worker -> Labels] /\ resume[w] \in {"work", "receive"}
  BY TypesAre
<1>1. ASSUME SolveBase(w)
      PROVE  pc'[w] # "count"
  BY <1>0, <1>1 DEF SolveBase, After
<1>2. ASSUME NEW k \in Fanout, Expand(w, k)
      PROVE  pc'[w] # "count"
  BY <1>0, <1>2 DEF Expand, After
<1>3. ASSUME Acquire(w)
      PROVE  pc'[w] # "count"
  BY <1>0, <1>3 DEF Acquire, After
<1>4. ASSUME NEW v \in Siblings(w), StealHere(w, v)
      PROVE  pc'[w] # "count"
  BY <1>0, <1>4 DEF StealHere, After
<1>5. ASSUME NothingHere(w)
      PROVE  pc'[w] # "count"
  BY <1>0, <1>5 DEF NothingHere, After
<1>6. ASSUME GetWork(w)
      PROVE  pc'[w] # "count"
  BY <1>0, <1>6 DEF GetWork, After
<1>7. ASSUME Post(w)
      PROVE  pc'[w] # "count"
  BY <1>0, <1>7 DEF Post, After
<1>8. ASSUME ReceiveWork(w)
      PROVE  pc'[w] # "count"
  BY <1>0, <1>8 DEF ReceiveWork, After
<1>9. ASSUME CountWork(w)
      PROVE  pc'[w] # "count"
  BY <1>0, <1>9 DEF CountWork, After
<1>10. ASSUME ReceiveRefusal(w)
      PROVE  pc'[w] # "count"
  BY <1>0, <1>10 DEF ReceiveRefusal, After
<1>11. ASSUME NoAnswer(w)
      PROVE  pc'[w] # "count"
  BY <1>0, <1>11 DEF NoAnswer, After
<1>12. ASSUME NoRequest(w)
      PROVE  pc'[w] # "count"
  BY <1>0, <1>12 DEF NoRequest, After
<1>13. ASSUME Accept(w)
      PROVE  pc'[w] # "count"
  BY <1>0, <1>13 DEF Accept, After
<1>14. ASSUME NEW v \in Worker, TakeForRemote(w, v)
      PROVE  pc'[w] # "count"
  BY <1>0, <1>14 DEF TakeForRemote, After
<1>15. ASSUME NothingForRemote(w)
      PROVE  pc'[w] # "count"
  BY <1>0, <1>15 DEF NothingForRemote, After
<1>16. ASSUME SendWork(w)
      PROVE  pc'[w] # "count"
  BY <1>0, <1>16 DEF SendWork, After
<1>17. ASSUME Refuse(w)
      PROVE  pc'[w] # "count"
  BY <1>0, <1>17 DEF Refuse, After
<1>18. ASSUME SkipToken(w)
      PROVE  pc'[w] # "count"
  BY <1>0, <1>18 DEF SkipToken, After
<1>19. ASSUME Clear(w)
      PROVE  pc'[w] # "count"
  BY <1>0, <1>19 DEF Clear, After
<1>20. ASSUME End(w)
      PROVE  pc'[w] # "count"
  BY <1>0, <1>20 DEF End, After
<1> QED
  BY <1>1, <1>2, <1>3, <1>4, <1>5, <1>6, <1>7, <1>8, <1>9, <1>10, <1>11, <1>12, <1>13, <1>14, <1>15, <1>16, <1>17, <1>18, <1>19, <1>20 DEF Step

\* A work message leaves from a thread that has one in its buffer.
LEMMA AnswersGrowBySending ==
    ASSUME TypeOK, NEW w \in Worker, Step(w), taken[w] = 0, \A u \in Worker : ~(answer[u] > 0)
    PROVE  \A u \in Worker : ~(answer'[u] > 0)
<1> USE DEF Goto
<1>0. answer \in [Worker -> {Nothing, 0, MessageSize}] /\ ~(Nothing > 0)
  BY TypesAre DEF Nothing
<1>1. ASSUME SolveBase(w)
      PROVE  \A u \in Worker : ~(answer'[u] > 0)
  BY <1>0, <1>1 DEF SolveBase, netVars
<1>2. ASSUME NEW k \in Fanout, Expand(w, k)
      PROVE  \A u \in Worker : ~(answer'[u] > 0)
  BY <1>0, <1>2 DEF Expand, netVars
<1>3. ASSUME Acquire(w)
      PROVE  \A u \in Worker : ~(answer'[u] > 0)
  BY <1>0, <1>3 DEF Acquire, netVars
<1>4. ASSUME NEW v \in Siblings(w), StealHere(w, v)
      PROVE  \A u \in Worker : ~(answer'[u] > 0)
  BY <1>0, <1>4 DEF StealHere, netVars
<1>5. ASSUME NothingHere(w)
      PROVE  \A u \in Worker : ~(answer'[u] > 0)
  BY <1>0, <1>5 DEF NothingHere, netVars
<1>6. ASSUME GetWork(w)
      PROVE  \A u \in Worker : ~(answer'[u] > 0)
  BY <1>0, <1>6 DEF GetWork, netVars
<1>7. ASSUME Post(w)
      PROVE  \A u \in Worker : ~(answer'[u] > 0)
  BY <1>0, <1>7 DEF Post, netVars
<1>8. ASSUME ReceiveWork(w)
      PROVE  \A u \in Worker : ~(answer'[u] > 0)
  BY <1>0, <1>8 DEF ReceiveWork, netVars
<1>9. ASSUME CountWork(w)
      PROVE  \A u \in Worker : ~(answer'[u] > 0)
  BY <1>0, <1>9 DEF CountWork, netVars
<1>10. ASSUME ReceiveRefusal(w)
      PROVE  \A u \in Worker : ~(answer'[u] > 0)
  BY <1>0, <1>10 DEF ReceiveRefusal, netVars
<1>11. ASSUME NoAnswer(w)
      PROVE  \A u \in Worker : ~(answer'[u] > 0)
  BY <1>0, <1>11 DEF NoAnswer, netVars
<1>12. ASSUME NoRequest(w)
      PROVE  \A u \in Worker : ~(answer'[u] > 0)
  BY <1>0, <1>12 DEF NoRequest, netVars
<1>13. ASSUME Accept(w)
      PROVE  \A u \in Worker : ~(answer'[u] > 0)
  BY <1>0, <1>13 DEF Accept, netVars
<1>14. ASSUME NEW v \in Worker, TakeForRemote(w, v)
      PROVE  \A u \in Worker : ~(answer'[u] > 0)
  BY <1>0, <1>14 DEF TakeForRemote, netVars
<1>15. ASSUME NothingForRemote(w)
      PROVE  \A u \in Worker : ~(answer'[u] > 0)
  BY <1>0, <1>15 DEF NothingForRemote, netVars
<1>16. ASSUME SendWork(w)
      PROVE  \A u \in Worker : ~(answer'[u] > 0)
  BY <1>0, <1>16 DEF SendWork, netVars
<1>17. ASSUME Refuse(w)
      PROVE  \A u \in Worker : ~(answer'[u] > 0)
  BY <1>0, <1>17 DEF Refuse, netVars
<1>18. ASSUME SkipToken(w)
      PROVE  \A u \in Worker : ~(answer'[u] > 0)
  BY <1>0, <1>18 DEF SkipToken, netVars
<1>19. ASSUME Clear(w)
      PROVE  \A u \in Worker : ~(answer'[u] > 0)
  BY <1>0, <1>19 DEF Clear, netVars
<1>20. ASSUME End(w)
      PROVE  \A u \in Worker : ~(answer'[u] > 0)
  BY <1>0, <1>20 DEF End, netVars
<1> QED
  BY <1>1, <1>2, <1>3, <1>4, <1>5, <1>6, <1>7, <1>8, <1>9, <1>10, <1>11, <1>12, <1>13, <1>14, <1>15, <1>16, <1>17, <1>18, <1>19, <1>20 DEF Step

\* What a step does to the work of its process: the counters grow; what has
\* been received is counted; and an idle process stays idle and sends nothing
\* unless it receives work.
LEMMA WorkEffects ==
    ASSUME OneThreadEach, TypeOK, Serving, Loaded, NEW w \in Worker, Step(w)
    PROVE  /\ chunks_recvd[w[1]] <= chunks_recvd'[w[1]]
           /\ pc[w] = "count" => pc'[w] = "count" \/ chunks_recvd'[w[1]] # chunks_recvd[w[1]]
           /\ Empty(w) /\ pc'[w] # "count" /\ pc[w] # "count"
                => Empty(w)' /\ chunks_sent'[w[1]] = chunks_sent[w[1]]
           /\ WorkOver => WorkOver'
<1> USE DEF Goto
<1>0. /\ pc \in [Worker -> Labels] /\ localDepth \in [Worker -> Nat] /\ w[1] \in Proc
      /\ sharedDepth \in [Worker -> Nat] /\ taken \in [Worker -> {0, MessageSize}]
      /\ chunks_sent \in [Proc -> Nat] /\ chunks_recvd \in [Proc -> Nat]
      /\ ChunkSize \in Nat \ {0} /\ MessageSize \in Nat \ {0}
      /\ Siblings(w) = {} /\ \A v \in Worker : v[1] = w[1] => v = w
      /\ pc[w] = "send" => taken[w] # 0
      /\ resume[w] \in {"work", "receive"}
  BY TypesAre, LeadersOnly, SizesAre DEF Loaded
<1>00. /\ Empty(w) <=> localDepth[w] + sharedDepth[w] = 0 /\ taken[w] = 0
       /\ Empty(w)' <=> localDepth'[w] + sharedDepth'[w] = 0 /\ taken'[w] = 0
       /\ localDepth[w] \in Nat /\ sharedDepth[w] \in Nat
       /\ chunks_recvd[w[1]] \in Nat
  BY <1>0 DEF Empty, ss_localFullDepth
<1>000. Empty(w) <=> localDepth[w] = 0 /\ sharedDepth[w] = 0 /\ taken[w] = 0
  BY <1>00
<1> DEFINE Goal ==
       /\ chunks_recvd[w[1]] <= chunks_recvd'[w[1]]
       /\ pc[w] = "count" => pc'[w] = "count" \/ chunks_recvd'[w[1]] # chunks_recvd[w[1]]
       /\ Empty(w) /\ pc'[w] # "count" /\ pc[w] # "count"
            => Empty(w)' /\ chunks_sent'[w[1]] = chunks_sent[w[1]]
<1>1. ASSUME SolveBase(w)
      PROVE  Goal
  <2>1. localDepth[w] > 0 /\ pc[w] = "work" /\ UNCHANGED chunks_recvd
    BY <1>1 DEF SolveBase, countVars
  <2> QED
    BY <1>00, <1>000, <2>1
<1>2. ASSUME NEW k \in Fanout, Expand(w, k)
      PROVE  Goal
  <2>1. localDepth[w] > 0 /\ pc[w] = "work" /\ UNCHANGED chunks_recvd
    BY <1>2 DEF Expand, countVars
  <2> QED
    BY <1>00, <1>000, <2>1
<1>3. ASSUME Acquire(w)
      PROVE  Goal
  <2>1. /\ pc[w] = "work" /\ UNCHANGED <<chunks_recvd, chunks_sent, taken>>
        /\ sharedDepth[w] >= ChunkSize \/ UNCHANGED <<localDepth, sharedDepth>>
    BY <1>3 DEF Acquire, countVars
  <2>2. sharedDepth[w] >= ChunkSize => sharedDepth[w] # 0
    BY <1>0, <1>00
  <2> QED
    BY <1>00, <1>000, <2>1, <2>2
<1>4. ASSUME NEW v \in Siblings(w), StealHere(w, v)
      PROVE  Goal
  BY <1>0, <1>00, <1>000, <1>4 DEF StealHere, workVars, countVars, After
<1>5. ASSUME NothingHere(w)
      PROVE  Goal
  BY <1>0, <1>00, <1>000, <1>5 DEF NothingHere, workVars, countVars, After
<1>6. ASSUME GetWork(w)
      PROVE  Goal
  BY <1>0, <1>00, <1>000, <1>6 DEF GetWork, workVars, countVars, After
<1>7. ASSUME Post(w)
      PROVE  Goal
  BY <1>0, <1>00, <1>000, <1>7 DEF Post, workVars, countVars, After
<1>8. ASSUME ReceiveWork(w)
      PROVE  Goal
  BY <1>0, <1>00, <1>000, <1>8 DEF ReceiveWork, workVars, countVars, After
<1>9. ASSUME CountWork(w)
      PROVE  Goal
  BY <1>0, <1>00, <1>000, <1>9 DEF CountWork, workVars, countVars, After
<1>10. ASSUME ReceiveRefusal(w)
      PROVE  Goal
  BY <1>0, <1>00, <1>000, <1>10 DEF ReceiveRefusal, workVars, countVars, After
<1>11. ASSUME NoAnswer(w)
      PROVE  Goal
  BY <1>0, <1>00, <1>000, <1>11 DEF NoAnswer, workVars, countVars, After
<1>12. ASSUME NoRequest(w)
      PROVE  Goal
  BY <1>0, <1>00, <1>000, <1>12 DEF NoRequest, workVars, countVars, After
<1>13. ASSUME Accept(w)
      PROVE  Goal
  BY <1>0, <1>00, <1>000, <1>13 DEF Accept, workVars, countVars, After
<1>14. ASSUME NEW v \in Worker, TakeForRemote(w, v)
      PROVE  Goal
  <2>1. v = w /\ sharedDepth[w] >= MessageSize /\ pc[w] = "take" /\ UNCHANGED chunks_recvd
    BY <1>0, <1>14 DEF TakeForRemote, countVars
  <2>2. sharedDepth[w] # 0
    BY <1>0, <1>00, <2>1
  <2> QED
    BY <1>00, <1>000, <2>1, <2>2
<1>15. ASSUME NothingForRemote(w)
      PROVE  Goal
  BY <1>0, <1>00, <1>000, <1>15 DEF NothingForRemote, workVars, countVars, After
<1>16. ASSUME SendWork(w)
      PROVE  Goal
  BY <1>0, <1>00, <1>000, <1>16 DEF SendWork, workVars, countVars, After
<1>17. ASSUME Refuse(w)
      PROVE  Goal
  BY <1>0, <1>00, <1>000, <1>17 DEF Refuse, workVars, countVars, After
<1>18. ASSUME SkipToken(w)
      PROVE  Goal
  BY <1>0, <1>00, <1>000, <1>18 DEF SkipToken, workVars, countVars, After
<1>19. ASSUME Clear(w)
      PROVE  Goal
  BY <1>0, <1>00, <1>000, <1>19 DEF Clear, workVars, countVars, After
<1>20. ASSUME End(w)
      PROVE  Goal
  BY <1>0, <1>00, <1>000, <1>20 DEF End, workVars, countVars, After
<1> HIDE DEF Goal
<1>21. Goal
  BY <1>1, <1>2, <1>3, <1>4, <1>5, <1>6, <1>7, <1>8, <1>9, <1>10, <1>11, <1>12, <1>13, <1>14, <1>15, <1>16, <1>17, <1>18, <1>19, <1>20 DEF Step
<1>22. ASSUME WorkOver
       PROVE  WorkOver'
  <2>1. /\ Empty(w) /\ pc[w] # "count" /\ \A u \in Worker : ~(answer[u] > 0)
    BY <1>22 DEF WorkOver
  <2>2. taken[w] = 0
    BY <2>1 DEF Empty
  <2>3. pc'[w] # "count"
    BY <1>0, <2>1, ReceiveWorkOnly
  <2>4. Empty(w)'
    BY <1>21, <2>1, <2>3 DEF Goal
  <2>5. \A u \in Worker : ~(answer'[u] > 0)
    BY <2>1, <2>2, AnswersGrowBySending
  <2>6. \A u \in Worker \ {w} : Empty(u)' /\ pc'[u] # "count"
    BY <1>22, OthersStill DEF WorkOver, Empty, ss_localFullDepth
  <2> QED
    BY <2>3, <2>4, <2>5, <2>6 DEF WorkOver
<1> QED
  BY <1>21, <1>22 DEF Goal

\* What a step does to the messages of its process: the counter of the control
\* messages received grows, and a silent process stays silent and sends none
\* unless it receives one.
LEMMA MessageEffects ==
    ASSUME OneThreadEach, TypeOK, NEW w \in Worker, Step(w)
    PROVE  /\ ctrl_recvd[w[1]] <= ctrl_recvd'[w[1]]
           /\ w[1] \in Silent /\ ctrl_recvd'[w[1]] = ctrl_recvd[w[1]]
                => w[1] \in Silent' /\ ctrl_sent'[w[1]] = ctrl_sent[w[1]]
<1> USE DEF Goto
<1>0. /\ pc \in [Worker -> Labels] /\ w[1] \in Proc /\ ctrl_sent \in [Proc -> Nat]
      /\ ctrl_recvd \in [Proc -> Nat] /\ ctrl_recvd[w[1]] \in Nat
      /\ resume[w] \in {"work", "receive"}
  BY TypesAre, LeadersOnly
<1>00. UNCHANGED my_color
  BY OthersStill DEF tokenVars
<1> DEFINE calm == my_color[w[1]] # White /\ pc[w] \notin {"post", "take", "send", "refuse"}
           Goal ==
             /\ ctrl_recvd[w[1]] <= ctrl_recvd'[w[1]]
             /\ calm /\ ctrl_recvd'[w[1]] = ctrl_recvd[w[1]]
                  => /\ pc'[w] \notin {"post", "take", "send", "refuse"}
                     /\ ctrl_sent'[w[1]] = ctrl_sent[w[1]]
<1>1. ASSUME SolveBase(w)
      PROVE  Goal
  BY <1>0, <1>1 DEF SolveBase, countVars, After
<1>2. ASSUME NEW k \in Fanout, Expand(w, k)
      PROVE  Goal
  BY <1>0, <1>2 DEF Expand, countVars, After
<1>3. ASSUME Acquire(w)
      PROVE  Goal
  BY <1>0, <1>3 DEF Acquire, countVars, After
<1>4. ASSUME NEW v \in Siblings(w), StealHere(w, v)
      PROVE  Goal
  BY <1>0, <1>4 DEF StealHere, countVars, After
<1>5. ASSUME NothingHere(w)
      PROVE  Goal
  BY <1>0, <1>5 DEF NothingHere, countVars, After
<1>6. ASSUME GetWork(w)
      PROVE  Goal
  BY <1>0, <1>6 DEF GetWork, countVars, After
<1>7. ASSUME Post(w)
      PROVE  Goal
  BY <1>0, <1>7 DEF Post, countVars, After
<1>8. ASSUME ReceiveWork(w)
      PROVE  Goal
  BY <1>0, <1>8 DEF ReceiveWork, countVars, After
<1>9. ASSUME CountWork(w)
      PROVE  Goal
  BY <1>0, <1>9 DEF CountWork, countVars, After
<1>10. ASSUME ReceiveRefusal(w)
      PROVE  Goal
  BY <1>0, <1>10 DEF ReceiveRefusal, countVars, After
<1>11. ASSUME NoAnswer(w)
      PROVE  Goal
  BY <1>0, <1>11 DEF NoAnswer, countVars, After
<1>12. ASSUME NoRequest(w)
      PROVE  Goal
  BY <1>0, <1>12 DEF NoRequest, countVars, After
<1>13. ASSUME Accept(w)
      PROVE  Goal
  BY <1>0, <1>13 DEF Accept, countVars, After
<1>14. ASSUME NEW v \in Worker, TakeForRemote(w, v)
      PROVE  Goal
  BY <1>0, <1>14 DEF TakeForRemote, countVars, After
<1>15. ASSUME NothingForRemote(w)
      PROVE  Goal
  BY <1>0, <1>15 DEF NothingForRemote, countVars, After
<1>16. ASSUME SendWork(w)
      PROVE  Goal
  BY <1>0, <1>16 DEF SendWork, countVars, After
<1>17. ASSUME Refuse(w)
      PROVE  Goal
  BY <1>0, <1>17 DEF Refuse, countVars, After
<1>18. ASSUME SkipToken(w)
      PROVE  Goal
  BY <1>0, <1>18 DEF SkipToken, countVars, After
<1>19. ASSUME Clear(w)
      PROVE  Goal
  BY <1>0, <1>19 DEF Clear, countVars, After
<1>20. ASSUME End(w)
      PROVE  Goal
  BY <1>0, <1>20 DEF End, countVars, After
<1>21. /\ w[1] \in Silent <=> calm
       /\ w[1] \in Silent' <=> /\ my_color'[w[1]] # White
                               /\ pc'[w] \notin {"post", "take", "send", "refuse"}
  BY <1>0, LeadersOnly DEF Silent
<1> HIDE DEF Goal
<1>22. Goal
  BY <1>1, <1>2, <1>3, <1>4, <1>5, <1>6, <1>7, <1>8, <1>9, <1>10, <1>11, <1>12, <1>13, <1>14, <1>15, <1>16, <1>17, <1>18, <1>19, <1>20 DEF Step
<1> QED
  BY <1>00, <1>21, <1>22 DEF Goal

\* When no message is left, none comes into being.
LEMMA MessagesStayOver ==
    ASSUME OneThreadEach, TypeOK, NEW w \in Worker, Step(w), MessagesOver
    PROVE  MessagesOver'
<1> USE DEF Goto
<1>0. /\ pc \in [Worker -> Labels] /\ wrin \in [Worker -> Worker \cup {Nobody, Closed}]
      /\ answer \in [Worker -> {Nothing, 0, MessageSize}] /\ w[1] \in Proc
      /\ resume[w] \in {"work", "receive"} /\ Closed \notin Worker
  BY TypesAre, LeadersOnly, WorkerIs
<1>00. /\ UNCHANGED my_color /\ \A u \in Worker \ {w} : pc'[u] = pc[u]
       /\ \A p \in Proc : Leader(p) \in Worker /\ Leader(p)[1] = p
       /\ w = Leader(w[1])
  BY OthersStill, LeadersOnly DEF tokenVars
<1>000. /\ requests = {} /\ my_color[w[1]] # White
        /\ pc[w] \notin {"post", "take", "send", "refuse", "count"}
        /\ \A u \in Worker : answer[u] = Nothing /\ wrin[u] \notin Worker /\ pc[u] # "count"
        /\ Nothing # 0 /\ ~(Nothing > 0)
  BY <1>0, <1>00 DEF MessagesOver, Silent, Nothing
<1> DEFINE Goal ==
       /\ requests' = {} /\ UNCHANGED answer
       /\ \A u \in Worker : wrin'[u] \notin Worker
       /\ pc'[w] \notin {"post", "take", "send", "refuse", "count"}
<1>1. ASSUME SolveBase(w)
      PROVE  Goal
  BY <1>0, <1>000, <1>1 DEF SolveBase, netVars, After
<1>2. ASSUME NEW k \in Fanout, Expand(w, k)
      PROVE  Goal
  BY <1>0, <1>000, <1>2 DEF Expand, netVars, After
<1>3. ASSUME Acquire(w)
      PROVE  Goal
  BY <1>0, <1>000, <1>3 DEF Acquire, netVars, After
<1>4. ASSUME NEW v \in Siblings(w), StealHere(w, v)
      PROVE  Goal
  BY <1>0, <1>000, <1>4 DEF StealHere, netVars, After
<1>5. ASSUME NothingHere(w)
      PROVE  Goal
  BY <1>0, <1>000, <1>5 DEF NothingHere, netVars, After
<1>6. ASSUME GetWork(w)
      PROVE  Goal
  BY <1>0, <1>000, <1>6 DEF GetWork, netVars, After
<1>7. ASSUME Post(w)
      PROVE  Goal
  BY <1>0, <1>000, <1>7 DEF Post, netVars, After
<1>8. ASSUME ReceiveWork(w)
      PROVE  Goal
  BY <1>0, <1>000, <1>8 DEF ReceiveWork, netVars, After
<1>9. ASSUME CountWork(w)
      PROVE  Goal
  BY <1>0, <1>000, <1>9 DEF CountWork, netVars, After
<1>10. ASSUME ReceiveRefusal(w)
      PROVE  Goal
  BY <1>0, <1>000, <1>10 DEF ReceiveRefusal, netVars, After
<1>11. ASSUME NoAnswer(w)
      PROVE  Goal
  BY <1>0, <1>000, <1>11 DEF NoAnswer, netVars, After
<1>12. ASSUME NoRequest(w)
      PROVE  Goal
  BY <1>0, <1>000, <1>12 DEF NoRequest, netVars, After
<1>13. ASSUME Accept(w)
      PROVE  Goal
  BY <1>0, <1>000, <1>13 DEF Accept, netVars, After
<1>14. ASSUME NEW v \in Worker, TakeForRemote(w, v)
      PROVE  Goal
  BY <1>0, <1>000, <1>14 DEF TakeForRemote, netVars, After
<1>15. ASSUME NothingForRemote(w)
      PROVE  Goal
  BY <1>0, <1>000, <1>15 DEF NothingForRemote, netVars, After
<1>16. ASSUME SendWork(w)
      PROVE  Goal
  BY <1>0, <1>000, <1>16 DEF SendWork, netVars, After
<1>17. ASSUME Refuse(w)
      PROVE  Goal
  BY <1>0, <1>000, <1>17 DEF Refuse, netVars, After
<1>18. ASSUME SkipToken(w)
      PROVE  Goal
  BY <1>0, <1>000, <1>18 DEF SkipToken, netVars, After
<1>19. ASSUME Clear(w)
      PROVE  Goal
  BY <1>0, <1>000, <1>19 DEF Clear, netVars, After
<1>20. ASSUME End(w)
      PROVE  Goal
  BY <1>0, <1>000, <1>20 DEF End, netVars, After
<1> HIDE DEF Goal
<1>21. Goal
  BY <1>1, <1>2, <1>3, <1>4, <1>5, <1>6, <1>7, <1>8, <1>9, <1>10, <1>11, <1>12, <1>13, <1>14, <1>15, <1>16, <1>17, <1>18, <1>19, <1>20 DEF Step
<1>22. Silent' = Proc
  <2>1. \A q \in Proc : my_color[q] # White /\ pc[Leader(q)] \notin {"post", "take", "send", "refuse"}
    BY DEF MessagesOver, Silent
  <2>2. \A q \in Proc : pc'[Leader(q)] \notin {"post", "take", "send", "refuse"}
    BY <1>00, <1>21, <2>1 DEF Goal
  <2> QED
    BY <1>00, <2>1, <2>2 DEF Silent
<1>23. \A u \in Worker : pc'[u] # "count"
  BY <1>00, <1>000, <1>21 DEF Goal
<1> QED
  BY <1>000, <1>21, <1>22, <1>23 DEF Goal, MessagesOver

-----------------------------------------------------------------------------
(* Control messages *)

\* The listeners that have matched a request, and the threads a refusal is on
\* its way to.
Matched == {w \in Worker : wrin[w] \in Worker}
Refused == {w \in Worker : answer[w] = 0}

\* In numbers.
LEMMA CtrlAccountIs ==
    ASSUME TypeOK, TypeOK'
    PROVE  /\ SumFunction(ctrl_sent) \in Nat /\ SumFunction(ctrl_recvd) \in Nat
           /\ SumFunction(ctrl_sent)' \in Nat /\ SumFunction(ctrl_recvd)' \in Nat
           /\ IsFiniteSet(requests) /\ IsFiniteSet(Matched) /\ IsFiniteSet(Refused)
           /\ Cardinality(requests) \in Nat
           /\ Cardinality(Matched) \in Nat /\ Cardinality(Refused) \in Nat
           /\ CtrlAccounting <=>
                SumFunction(ctrl_sent) - SumFunction(ctrl_recvd)
                    = Cardinality(requests) + Cardinality(Matched) + Cardinality(Refused)
           /\ CtrlAccounting' <=>
                SumFunction(ctrl_sent)' - SumFunction(ctrl_recvd)'
                    = Cardinality(requests') + Cardinality(Matched') + Cardinality(Refused')
<1>1. /\ ctrl_sent \in [Proc -> Nat] /\ ctrl_recvd \in [Proc -> Nat]
      /\ ctrl_sent' \in [Proc -> Nat] /\ ctrl_recvd' \in [Proc -> Nat]
  BY DEF TypeOK
<1>2. /\ SumFunction(ctrl_sent) \in Nat /\ SumFunction(ctrl_recvd) \in Nat
      /\ SumFunction(ctrl_sent') \in Nat /\ SumFunction(ctrl_recvd') \in Nat
  BY <1>1, RingIsFinite, SumNat
<1>3. IsFiniteSet(requests) /\ IsFiniteSet(Matched) /\ IsFiniteSet(Refused)
  <2>1. Matched \in SUBSET Worker /\ Refused \in SUBSET Worker
    BY DEF Matched, Refused
  <2>2. IsFiniteSet(Worker \X Proc)
    BY RingIsFinite, FS_Product
  <2>3. requests \in SUBSET (Worker \X Proc)
    BY TypesAre
  <2>4. IsFiniteSet(Matched) /\ IsFiniteSet(Refused)
    BY <2>1, RingIsFinite, FS_Subset
  <2>5. IsFiniteSet(requests)
    BY <2>2, <2>3, FS_Subset
  <2> QED
    BY <2>4, <2>5
<1>4. Cardinality(requests) \in Nat /\ Cardinality(Matched) \in Nat /\ Cardinality(Refused) \in Nat
  BY <1>3, FS_CardinalityType
<1> QED
  BY <1>2, <1>3, <1>4 DEF CtrlAccounting, Matched, Refused

\* No control message is sent, moved or counted.
LEMMA CtrlAccountStays ==
    ASSUME CtrlAccounting, UNCHANGED <<ctrl_sent, ctrl_recvd, requests>>,
           Matched' = Matched, Refused' = Refused
    PROVE  CtrlAccounting'
BY Zenon DEF CtrlAccounting, Matched, Refused

\* A counter of one process is incremented.
LEMMA CounterGrows ==
    ASSUME NEW f \in [Proc -> Nat], NEW g, NEW p \in Proc, g = [f EXCEPT ![p] = @ + 1]
    PROVE  SumFunction(g) = SumFunction(f) + 1
<1>1. f \in [Proc -> Int] /\ f[p] \in Int /\ f[p] + 1 \in Int /\ IsFiniteSet(Proc)
  BY RingIsFinite
<1>2. /\ SumFunction(f) \in Int
      /\ SumFunction([f EXCEPT ![p] = f[p] + 1]) = SumFunction(f) - f[p] + (f[p] + 1)
  <2> DEFINE v == f[p] + 1
  <2>1. v \in Int
    BY <1>1
  <2> HIDE DEF v
  <2>2. /\ SumFunction(f) \in Int
        /\ SumFunction([f EXCEPT ![p] = v]) = SumFunction(f) - f[p] + v
    BY <1>1, <2>1, SumExcept
  <2> QED
    BY <2>2 DEF v
<1>3. SumFunction(g) = SumFunction(f) - f[p] + (f[p] + 1)
  BY <1>2
<1> QED
  BY <1>1, <1>2, <1>3

\* Whoever serves a request has its only trace.
LEMMA ServedHasNoAnswer ==
    ASSUME AtMostOne, NEW w \in Worker, NEW r \in Worker, r = serving[w]
    PROVE  answer[r] = Nothing
<1>1. /\ <<"service", w>> \in Spots /\ <<"answer", 0>> \in Spots
      /\ <<"service", w>> # <<"answer", 0>>
  BY SpotsAre
<1>2. IsAt(r, <<"service", w>>)
  BY PlacesAre
<1>3. ~IsAt(r, <<"answer", 0>>)
  BY <1>1, <1>2 DEF AtMostOne
<1> QED
  BY <1>3, PlacesAre

\* A step of a thread keeps the counters right.
LEMMA CtrlAccountOfStep ==
    ASSUME TypeOK, TypeOK', Posting, Serving, Loaded, AtMostOne, Awaited, CtrlAccounting,
           Leaving, Colors, td_token.color = Red => MessagesOver,
           NEW w \in Worker, Step(w)
    PROVE  CtrlAccounting'
<1> USE DEF Goto
<1>0. /\ pc \in [Worker -> Labels] /\ resume[w] \in {"work", "receive"}
      /\ taken \in [Worker -> {0, MessageSize}] /\ answer \in [Worker -> {Nothing, 0, MessageSize}]
      /\ serving \in [Worker -> Worker \cup {Nobody}] /\ MessageSize \in Nat \ {0}
      /\ wrin \in [Worker -> Worker \cup {Nobody, Closed}]
      /\ Nobody \notin Worker /\ Closed \notin Worker
      /\ ctrl_sent \in [Proc -> Nat] /\ ctrl_recvd \in [Proc -> Nat] /\ w[1] \in Proc
  BY TypesAre, WorkerIs, SizesAre
<1>00. /\ SumFunction(ctrl_sent) \in Nat /\ SumFunction(ctrl_recvd) \in Nat
       /\ SumFunction(ctrl_sent)' \in Nat /\ SumFunction(ctrl_recvd)' \in Nat
       /\ IsFiniteSet(requests) /\ IsFiniteSet(Matched) /\ IsFiniteSet(Refused)
       /\ Cardinality(requests) \in Nat
       /\ Cardinality(Matched) \in Nat /\ Cardinality(Refused) \in Nat
       /\ SumFunction(ctrl_sent) - SumFunction(ctrl_recvd)
            = Cardinality(requests) + Cardinality(Matched) + Cardinality(Refused)
       /\ CtrlAccounting' <=>
            SumFunction(ctrl_sent)' - SumFunction(ctrl_recvd)'
                = Cardinality(requests') + Cardinality(Matched') + Cardinality(Refused')
  BY CtrlAccountIs
<1>1. CASE SolveBase(w)
  <2>1. UNCHANGED <<ctrl_sent, ctrl_recvd, requests, wrin, answer>>
    BY <1>1 DEF SolveBase, countVars, netVars
  <2> QED
    BY <2>1, CtrlAccountStays DEF Matched, Refused
<1>2. ASSUME NEW k \in Fanout, Expand(w, k)
      PROVE  CtrlAccounting'
  <2>1. UNCHANGED <<ctrl_sent, ctrl_recvd, requests, wrin, answer>>
    BY <1>2 DEF Expand, countVars, netVars
  <2> QED
    BY <2>1, CtrlAccountStays DEF Matched, Refused
<1>3. CASE Acquire(w)
  <2>1. UNCHANGED <<ctrl_sent, ctrl_recvd, requests, wrin, answer>>
    BY <1>3 DEF Acquire, countVars, netVars
  <2> QED
    BY <2>1, CtrlAccountStays DEF Matched, Refused
<1>4. ASSUME NEW v \in Siblings(w), StealHere(w, v)
      PROVE  CtrlAccounting'
  <2>1. UNCHANGED <<ctrl_sent, ctrl_recvd, requests, wrin, answer>>
    BY <1>4 DEF StealHere, countVars, netVars
  <2> QED
    BY <2>1, CtrlAccountStays DEF Matched, Refused
<1>5. CASE NothingHere(w)
  <2>1. UNCHANGED <<ctrl_sent, ctrl_recvd, requests, wrin, answer>>
    BY <1>5 DEF NothingHere, countVars, netVars
  <2> QED
    BY <2>1, CtrlAccountStays DEF Matched, Refused
<1>6. CASE GetWork(w)
  <2>1. UNCHANGED <<ctrl_sent, ctrl_recvd, requests, wrin, answer>>
    BY <1>6 DEF GetWork, countVars, netVars
  <2> QED
    BY <2>1, CtrlAccountStays DEF Matched, Refused
<1>7. CASE CountWork(w)
  <2>1. UNCHANGED <<ctrl_sent, ctrl_recvd, requests, wrin, answer>>
    BY <1>7 DEF CountWork, countVars, netVars
  <2> QED
    BY <2>1, CtrlAccountStays DEF Matched, Refused
<1>8. CASE NoAnswer(w)
  <2>1. UNCHANGED <<ctrl_sent, ctrl_recvd, requests, wrin, answer>>
    BY <1>8 DEF NoAnswer, countVars, netVars
  <2> QED
    BY <2>1, CtrlAccountStays DEF Matched, Refused
<1>9. CASE NoRequest(w)
  <2>1. UNCHANGED <<ctrl_sent, ctrl_recvd, requests, wrin, answer>>
    BY <1>9 DEF NoRequest, countVars, netVars
  <2> QED
    BY <2>1, CtrlAccountStays DEF Matched, Refused
<1>10. ASSUME NEW v \in Worker, TakeForRemote(w, v)
      PROVE  CtrlAccounting'
  <2>1. UNCHANGED <<ctrl_sent, ctrl_recvd, requests, wrin, answer>>
    BY <1>10 DEF TakeForRemote, countVars, netVars
  <2> QED
    BY <2>1, CtrlAccountStays DEF Matched, Refused
<1>11. CASE NothingForRemote(w)
  <2>1. UNCHANGED <<ctrl_sent, ctrl_recvd, requests, wrin, answer>>
    BY <1>11 DEF NothingForRemote, countVars, netVars
  <2> QED
    BY <2>1, CtrlAccountStays DEF Matched, Refused
<1>12. CASE SkipToken(w)
  <2>1. UNCHANGED <<ctrl_sent, ctrl_recvd, requests, wrin, answer>>
    BY <1>12 DEF SkipToken, countVars, netVars
  <2> QED
    BY <2>1, CtrlAccountStays DEF Matched, Refused
<1>13. CASE End(w)
  <2>1. UNCHANGED <<ctrl_sent, ctrl_recvd, requests, wrin, answer>>
    BY <1>13 DEF End, countVars, netVars
  <2> QED
    BY <2>1, CtrlAccountStays DEF Matched, Refused
<1>14. CASE Post(w)
  <2> DEFINE m == <<w, NextVictim(w)>>
  <2>1. /\ pc[w] = "post" /\ requests' = requests \cup {m}
        /\ ctrl_sent' = [ctrl_sent EXCEPT ![w[1]] = @ + 1]
        /\ UNCHANGED <<ctrl_recvd, wrin, answer>>
    BY <1>14, Zenon DEF Post
  <2>2. m \notin requests
    <3>1. \A x \in Spots : ~IsAt(w, x)
      BY <2>1 DEF Posting, Awaited
    <3>2. NextVictim(w) \in Proc
      BY RingIs DEF NextVictim, TypeOK
    <3>3. ~IsAt(w, <<"request", NextVictim(w)>>)
      BY <3>1, <3>2, SpotsAre
    <3> QED
      BY <3>3, PlacesAre
  <2> HIDE DEF m
  <2>3. Cardinality(requests') = Cardinality(requests) + 1
    BY <1>00, <2>1, <2>2, FS_AddElement
  <2>4. SumFunction(ctrl_sent)' = SumFunction(ctrl_sent) + 1
    BY <1>0, <2>1, CounterGrows
  <2>5. Matched' = Matched /\ Refused' = Refused /\ SumFunction(ctrl_recvd)' = SumFunction(ctrl_recvd)
    BY <2>1 DEF Matched, Refused
  <2> QED
    BY <1>00, <2>3, <2>4, <2>5
<1>15. CASE Accept(w)
  <2>1. /\ wrin[w] \in Worker /\ wrin' = [wrin EXCEPT ![w] = Nobody]
        /\ ctrl_recvd' = [ctrl_recvd EXCEPT ![w[1]] = @ + 1]
        /\ UNCHANGED <<ctrl_sent, requests, answer>>
    BY <1>15 DEF Accept
  <2>2. Matched' = Matched \ {w} /\ w \in Matched
    BY <1>0, <2>1 DEF Matched
  <2>3. Cardinality(Matched') = Cardinality(Matched) - 1
    BY <1>00, <2>2, FS_RemoveElement
  <2>4. SumFunction(ctrl_recvd)' = SumFunction(ctrl_recvd) + 1
    BY <1>0, <2>1, CounterGrows
  <2>5. requests' = requests /\ Refused' = Refused /\ SumFunction(ctrl_sent)' = SumFunction(ctrl_sent)
    BY <2>1 DEF Refused
  <2> QED
    BY <1>00, <2>3, <2>4, <2>5
<1>16. CASE Refuse(w)
  <2>1. PICK r \in Worker : r = serving[w]
    BY <1>0, <1>16 DEF Refuse, Serving
  <2>2. answer[r] = Nothing
    BY <2>1, ServedHasNoAnswer
  <2>3. /\ answer' = [answer EXCEPT ![r] = 0]
        /\ ctrl_sent' = [ctrl_sent EXCEPT ![w[1]] = @ + 1]
        /\ UNCHANGED <<ctrl_recvd, requests, wrin>>
    BY <1>16, <2>1 DEF Refuse
  <2>4. Refused' = Refused \cup {r} /\ r \notin Refused
    BY <1>0, <2>2, <2>3 DEF Refused, Nothing
  <2>5. Cardinality(Refused') = Cardinality(Refused) + 1
    BY <1>00, <2>4, FS_AddElement
  <2>6. SumFunction(ctrl_sent)' = SumFunction(ctrl_sent) + 1
    BY <1>0, <2>3, CounterGrows
  <2>7. requests' = requests /\ Matched' = Matched /\ SumFunction(ctrl_recvd)' = SumFunction(ctrl_recvd)
    BY <2>3 DEF Matched
  <2> QED
    BY <1>00, <2>5, <2>6, <2>7
<1>17. CASE ReceiveRefusal(w)
  <2>1. /\ answer[w] = 0 /\ answer' = [answer EXCEPT ![w] = Nothing]
        /\ ctrl_recvd' = [ctrl_recvd EXCEPT ![w[1]] = @ + 1]
        /\ UNCHANGED <<ctrl_sent, requests, wrin>>
    BY <1>17 DEF ReceiveRefusal
  <2>2. Refused' = Refused \ {w} /\ w \in Refused
    BY <1>0, <2>1 DEF Refused, Nothing
  <2>3. Cardinality(Refused') = Cardinality(Refused) - 1
    BY <1>00, <2>2, FS_RemoveElement
  <2>4. SumFunction(ctrl_recvd)' = SumFunction(ctrl_recvd) + 1
    BY <1>0, <2>1, CounterGrows
  <2>5. requests' = requests /\ Matched' = Matched /\ SumFunction(ctrl_sent)' = SumFunction(ctrl_sent)
    BY <2>1 DEF Matched
  <2> QED
    BY <1>00, <2>3, <2>4, <2>5
<1>18. CASE ReceiveWork(w)
  <2>1. /\ answer[w] > 0 /\ answer' = [answer EXCEPT ![w] = Nothing]
        /\ UNCHANGED <<ctrl_sent, ctrl_recvd, requests, wrin>>
    BY <1>18 DEF ReceiveWork, countVars
  <2>2. Refused' = Refused /\ Matched' = Matched
    BY <1>0, <2>1 DEF Refused, Matched, Nothing
  <2> QED
    BY <2>1, <2>2, CtrlAccountStays
<1>19. CASE SendWork(w)
  <2>1. PICK r \in Worker : r = serving[w]
    BY <1>0, <1>19 DEF SendWork, Serving
  <2>2. answer[r] = Nothing
    BY <2>1, ServedHasNoAnswer
  <2>3. /\ answer' = [answer EXCEPT ![r] = MessageSize]
        /\ UNCHANGED <<ctrl_sent, ctrl_recvd, requests, wrin>>
    BY <1>19, <2>1 DEF SendWork, Loaded
  <2>4. Refused' = Refused /\ Matched' = Matched
    BY <1>0, <2>2, <2>3 DEF Refused, Matched, Nothing
  <2> QED
    BY <2>3, <2>4, CtrlAccountStays
<1>20. CASE Clear(w)
  <2>1. MessagesOver
    BY <1>0, <1>20 DEF Clear, Leaving, Colors
  <2>2. requests = {} /\ wrin[w] \notin Worker
    BY <2>1 DEF MessagesOver
  <2>3. /\ requests' \subseteq requests /\ wrin' = [wrin EXCEPT ![w] = Closed]
        /\ UNCHANGED <<ctrl_sent, ctrl_recvd, answer>>
    BY <1>20 DEF Clear, countVars
  <2>4. requests' = requests /\ Refused' = Refused /\ Matched' = Matched
    BY <1>0, <2>2, <2>3 DEF Refused, Matched
  <2> QED
    BY <2>3, <2>4, CtrlAccountStays
<1> QED
  BY <1>1, <1>2, <1>3, <1>4, <1>5, <1>6, <1>7, <1>8, <1>9, <1>10, <1>11, <1>12,
     <1>13, <1>14, <1>15, <1>16, <1>17, <1>18, <1>19, <1>20 DEF Step

\* So does a delivery, which moves a request to a listener ...
LEMMA CtrlAccountOfDelivery ==
    ASSUME TypeOK, TypeOK', CtrlAccounting, NEW p \in Proc, Deliver(p)
    PROVE  CtrlAccounting'
<1>1. PICK t \in Thread(p), r \in Worker : Match(<<p, t>>, r)
  BY DEF Deliver
<1> DEFINE v == <<p, t>>
           m == <<r, p>>
<1>2. v \in Worker /\ v[1] = p
  BY WorkerIs
<1> HIDE DEF v
<1>3. /\ m \in requests /\ requests' = requests \ {m}
      /\ wrin[v] = Nobody /\ wrin' = [wrin EXCEPT ![v] = r]
      /\ UNCHANGED <<answer, ctrl_sent, ctrl_recvd>>
  BY <1>1, <1>2 DEF Match, countVars, v
<1> HIDE DEF m
<1>4. /\ wrin \in [Worker -> Worker \cup {Nobody, Closed}] /\ Nobody \notin Worker
  BY TypesAre, WorkerIs
<1>5. Matched' = Matched \cup {v} /\ v \notin Matched
  BY <1>2, <1>3, <1>4 DEF Matched
<1>6. IsFiniteSet(requests) /\ IsFiniteSet(Matched)
  BY CtrlAccountIs
<1>7. Cardinality(requests') = Cardinality(requests) - 1
  BY <1>3, <1>6, FS_RemoveElement
<1>8. Cardinality(Matched') = Cardinality(Matched) + 1
  BY <1>5, <1>6, FS_AddElement
<1>9. Refused' = Refused /\ ctrl_sent' = ctrl_sent /\ ctrl_recvd' = ctrl_recvd
  BY <1>3 DEF Refused
<1>10. /\ SumFunction(ctrl_sent)' = SumFunction(ctrl_sent)
       /\ SumFunction(ctrl_recvd)' = SumFunction(ctrl_recvd)
  BY <1>9, Zenon
<1> QED
  BY <1>7, <1>8, <1>9, <1>10, CtrlAccountIs

-----------------------------------------------------------------------------
(* A request that is waited for is somewhere *)

\* A request that stays where it is, or goes elsewhere, is still somewhere.
LEMMA StillPresent ==
    ASSUME Present,
           \A u \in Worker : waiting'[u] =>
               /\ waiting[u]
               /\ \/ \E x \in Spots : IsAt(u, x)'
                  \/ \A x \in Spots : IsAt(u, x) => IsAt(u, x)'
    PROVE  Present'
BY DEF Present

\* A step of a thread loses no request.
LEMMA PresentOfStep ==
    ASSUME TypeOK, Serving, AtMostOne, Awaited, Present,
           Leaving, Colors, td_token.color = Red => MessagesOver,
           NEW w \in Worker, Step(w)
    PROVE  Present'
<1> USE DEF Goto
<1>0. /\ pc \in [Worker -> Labels] /\ resume[w] \in {"work", "receive"}
      /\ answer \in [Worker -> {Nothing, 0, MessageSize}] /\ waiting \in [Worker -> BOOLEAN]
      /\ serving \in [Worker -> Worker \cup {Nobody}] /\ MessageSize \in Nat \ {0}
      /\ wrin \in [Worker -> Worker \cup {Nobody, Closed}]
      /\ Nobody \notin Worker /\ Closed \notin Worker
      /\ taken \in [Worker -> {0, MessageSize}] /\ w[1] \in Proc
      /\ requests \subseteq Worker \X Proc
  BY TypesAre, WorkerIs, SizesAre
<1>1. CASE SolveBase(w)
  <2>1. /\ UNCHANGED <<requests, wrin, answer, serving, waiting>>
        /\ \A u \in Worker : pc[u] = "count" => pc'[u] = "count"
    BY <1>0, <1>1 DEF SolveBase, askVars, netVars
  <2> QED
    BY <2>1, StillPresent DEF IsAt
<1>2. ASSUME NEW k \in Fanout, Expand(w, k)
      PROVE  Present'
  <2>1. /\ UNCHANGED <<requests, wrin, answer, serving, waiting>>
        /\ \A u \in Worker : pc[u] = "count" => pc'[u] = "count"
    BY <1>0, <1>2 DEF Expand, askVars, netVars
  <2> QED
    BY <2>1, StillPresent DEF IsAt
<1>3. CASE Acquire(w)
  <2>1. /\ UNCHANGED <<requests, wrin, answer, serving, waiting>>
        /\ \A u \in Worker : pc[u] = "count" => pc'[u] = "count"
    BY <1>0, <1>3 DEF Acquire, askVars, netVars
  <2> QED
    BY <2>1, StillPresent DEF IsAt
<1>4. ASSUME NEW v \in Siblings(w), StealHere(w, v)
      PROVE  Present'
  <2>1. /\ UNCHANGED <<requests, wrin, answer, serving, waiting>>
        /\ \A u \in Worker : pc[u] = "count" => pc'[u] = "count"
    BY <1>0, <1>4 DEF StealHere, askVars, netVars
  <2> QED
    BY <2>1, StillPresent DEF IsAt
<1>5. CASE NothingHere(w)
  <2>1. /\ UNCHANGED <<requests, wrin, answer, serving, waiting>>
        /\ \A u \in Worker : pc[u] = "count" => pc'[u] = "count"
    BY <1>0, <1>5 DEF NothingHere, askVars, netVars
  <2> QED
    BY <2>1, StillPresent DEF IsAt
<1>6. CASE GetWork(w)
  <2>1. /\ UNCHANGED <<requests, wrin, answer, serving, waiting>>
        /\ \A u \in Worker : pc[u] = "count" => pc'[u] = "count"
    BY <1>0, <1>6 DEF GetWork, askVars, netVars
  <2> QED
    BY <2>1, StillPresent DEF IsAt
<1>7. CASE NoAnswer(w)
  <2>1. /\ UNCHANGED <<requests, wrin, answer, serving, waiting>>
        /\ \A u \in Worker : pc[u] = "count" => pc'[u] = "count"
    BY <1>0, <1>7 DEF NoAnswer, askVars, netVars
  <2> QED
    BY <2>1, StillPresent DEF IsAt
<1>8. CASE NoRequest(w)
  <2>1. /\ UNCHANGED <<requests, wrin, answer, serving, waiting>>
        /\ \A u \in Worker : pc[u] = "count" => pc'[u] = "count"
    BY <1>0, <1>8 DEF NoRequest, askVars, netVars
  <2> QED
    BY <2>1, StillPresent DEF IsAt
<1>9. ASSUME NEW v \in Worker, TakeForRemote(w, v)
      PROVE  Present'
  <2>1. /\ UNCHANGED <<requests, wrin, answer, serving, waiting>>
        /\ \A u \in Worker : pc[u] = "count" => pc'[u] = "count"
    BY <1>0, <1>9 DEF TakeForRemote, askVars, netVars
  <2> QED
    BY <2>1, StillPresent DEF IsAt
<1>10. CASE NothingForRemote(w)
  <2>1. /\ UNCHANGED <<requests, wrin, answer, serving, waiting>>
        /\ \A u \in Worker : pc[u] = "count" => pc'[u] = "count"
    BY <1>0, <1>10 DEF NothingForRemote, askVars, netVars
  <2> QED
    BY <2>1, StillPresent DEF IsAt
<1>11. CASE SkipToken(w)
  <2>1. /\ UNCHANGED <<requests, wrin, answer, serving, waiting>>
        /\ \A u \in Worker : pc[u] = "count" => pc'[u] = "count"
    BY <1>0, <1>11 DEF SkipToken, askVars, netVars
  <2> QED
    BY <2>1, StillPresent DEF IsAt
<1>12. CASE End(w)
  <2>1. /\ UNCHANGED <<requests, wrin, answer, serving, waiting>>
        /\ \A u \in Worker : pc[u] = "count" => pc'[u] = "count"
    BY <1>0, <1>12 DEF End, askVars, netVars
  <2> QED
    BY <2>1, StillPresent DEF IsAt
<1>13. CASE Post(w)
  <2> DEFINE q == NextVictim(w)
  <2>1. /\ pc[w] = "post" /\ pc' = [pc EXCEPT ![w] = "progress"]
        /\ requests' = requests \cup {<<w, q>>} /\ waiting' = [waiting EXCEPT ![w] = TRUE]
        /\ UNCHANGED <<wrin, serving, answer>>
    BY <1>13, Zenon DEF Post
  <2>2. q \in Proc
    BY RingIs DEF NextVictim, TypeOK
  <2> HIDE DEF q
  <2>3. \A u \in Worker : \A x \in Spots : IsAt(u, x) => IsAt(u, x)'
    BY <1>0, <2>1 DEF IsAt
  <2>4. \A u \in Worker \ {w} : waiting'[u] = waiting[u]
    BY <1>0, <2>1
  <2>5. \E x \in Spots : IsAt(w, x)'
    <3>1. PICK q2 \in Proc : q2 = q
      BY <2>2
    <3>2. <<w, q2>> \in requests'
      BY <2>1, <3>1
    <3>3. <<"request", q2>> \in Spots
      BY SpotsAre
    <3>4. IsAt(w, <<"request", q2>>)'
      BY <3>2 DEF IsAt
    <3> QED
      BY <3>3, <3>4
  <2> QED
    BY <2>3, <2>4, <2>5 DEF Present
<1>14. CASE ReceiveWork(w)
  <2>1. /\ pc[w] = "receive" /\ pc' = [pc EXCEPT ![w] = "count"] /\ waiting[w]
        /\ answer' = [answer EXCEPT ![w] = Nothing]
        /\ UNCHANGED <<wrin, requests, serving, waiting>>
    BY <1>14 DEF ReceiveWork, askVars
  <2>2. <<"count", 0>> \in Spots /\ IsAt(w, <<"count", 0>>)'
    <3>1. pc'[w] = "count"
      BY <1>0, <2>1
    <3> QED
      BY <3>1, SpotsAre DEF IsAt
  <2>3. \A u \in Worker \ {w} : \A x \in Spots : IsAt(u, x) => IsAt(u, x)'
    BY <1>0, <2>1 DEF IsAt
  <2> QED
    BY <2>1, <2>2, <2>3, StillPresent
<1>15. ASSUME CountWork(w) \/ ReceiveRefusal(w)
       PROVE  Present'
  <2>1. /\ waiting' = [waiting EXCEPT ![w] = FALSE]
        /\ UNCHANGED <<wrin, requests, serving>>
        /\ \A u \in Worker \ {w} : pc'[u] = pc[u] /\ answer'[u] = answer[u]
    BY <1>0, <1>15 DEF CountWork, ReceiveRefusal, netVars
  <2>2. \A u \in Worker \ {w} : \A x \in Spots : IsAt(u, x) => IsAt(u, x)'
    BY <2>1 DEF IsAt
  <2>3. ~waiting'[w] /\ \A u \in Worker \ {w} : waiting'[u] = waiting[u]
    BY <1>0, <2>1
  <2> QED
    BY <2>2, <2>3, StillPresent
<1>16. CASE Accept(w)
  <2>1. PICK r \in Worker : r = wrin[w]
    BY <1>16 DEF Accept
  <2>2. /\ pc[w] = "progress" /\ pc' = [pc EXCEPT ![w] = "take"]
        /\ serving' = [serving EXCEPT ![w] = r] /\ wrin' = [wrin EXCEPT ![w] = Nobody]
        /\ UNCHANGED <<requests, answer, waiting>>
    BY <1>16, <2>1 DEF Accept, askVars
  <2>3. serving[w] = Nobody
    BY <2>2 DEF Serving
  <2>4. <<"service", w>> \in Spots /\ IsAt(r, <<"service", w>>)'
    <3>1. serving'[w] = r
      BY <1>0, <2>2
    <3> QED
      BY <3>1, SpotsAre DEF IsAt
  <2>5. \A u \in Worker \ {r} : \A x \in Spots : IsAt(u, x) => IsAt(u, x)'
    <3>1. \A u \in Worker \ {r} : \A v \in Worker :
              /\ serving[v] = u => serving'[v] = u
              /\ wrin[v] = u => wrin'[v] = u
      BY <1>0, <2>1, <2>2, <2>3
    <3>2. \A u \in Worker : pc[u] = "count" => pc'[u] = "count"
      BY <1>0, <2>2
    <3>3. \A x \in Spots : x[1] \in {"listener", "service"} => x[2] \in Worker
      BY DEF Spots
    <3> QED
      BY <2>2, <3>1, <3>2, <3>3 DEF IsAt
  <2> QED
    BY <2>2, <2>4, <2>5, StillPresent
<1>17. ASSUME SendWork(w) \/ Refuse(w)
       PROVE  Present'
  <2>1. PICK r \in Worker : r = serving[w]
    BY <1>0, <1>17 DEF SendWork, Refuse, Serving
  <2>2. /\ pc[w] \in {"send", "refuse"} /\ pc' = [pc EXCEPT ![w] = resume[w]]
        /\ serving' = [serving EXCEPT ![w] = Nobody]
        /\ \E a \in {0, MessageSize} : answer' = [answer EXCEPT ![r] = a]
        /\ UNCHANGED <<requests, wrin, waiting>>
    BY <1>0, <1>17, <2>1 DEF SendWork, Refuse, askVars
  <2>3. <<"answer", 0>> \in Spots /\ IsAt(r, <<"answer", 0>>)'
    <3>1. answer'[r] # Nothing
      BY <1>0, <2>2 DEF Nothing
    <3> QED
      BY <3>1, SpotsAre DEF IsAt
  <2>4. \A u \in Worker \ {r} : \A x \in Spots : IsAt(u, x) => IsAt(u, x)'
    <3>1. \A u \in Worker \ {r} :
              /\ \A v \in Worker : serving[v] = u => serving'[v] = u
              /\ answer'[u] = answer[u]
      BY <1>0, <2>1, <2>2
    <3>2. \A u \in Worker : pc[u] = "count" => pc'[u] = "count"
      BY <1>0, <2>2
    <3>3. \A x \in Spots : x[1] = "service" => x[2] \in Worker
      BY DEF Spots
    <3> QED
      BY <2>2, <3>1, <3>2, <3>3 DEF IsAt
  <2> QED
    BY <2>2, <2>3, <2>4, StillPresent
<1>18. CASE Clear(w)
  <2>1. MessagesOver
    BY <1>0, <1>18 DEF Clear, Leaving, Colors
  <2>2. requests = {} /\ wrin[w] \notin Worker
    BY <2>1 DEF MessagesOver
  <2>3. /\ pc[w] = "clear" /\ pc' = [pc EXCEPT ![w] = "barrier"]
        /\ wrin' = [wrin EXCEPT ![w] = Closed] /\ waiting' = [waiting EXCEPT ![w] = FALSE]
        /\ UNCHANGED <<answer, serving>>
    BY <1>18 DEF Clear
  <2>4. \A u \in Worker : waiting'[u] => waiting[u]
    BY <1>0, <2>3
  <2>5. \A u \in Worker : \A x \in Spots : IsAt(u, x) => IsAt(u, x)'
    <3>1. \A u \in Worker : \A v \in Worker : wrin[v] = u => wrin'[v] = u
      BY <1>0, <2>2, <2>3
    <3>2. \A u \in Worker : pc[u] = "count" => pc'[u] = "count"
      BY <1>0, <2>3
    <3>3. \A x \in Spots : x[1] = "listener" => x[2] \in Worker
      BY DEF Spots
    <3> QED
      BY <2>2, <2>3, <3>1, <3>2, <3>3 DEF IsAt
  <2> QED
    BY <2>4, <2>5, StillPresent
<1> QED
  BY <1>1, <1>2, <1>3, <1>4, <1>5, <1>6, <1>7, <1>8, <1>9, <1>10, <1>11, <1>12,
     <1>13, <1>14, <1>15, <1>16, <1>17, <1>18 DEF Step

\* Neither does a delivery.
LEMMA PresentOfDelivery ==
    ASSUME TypeOK, Present, NEW p \in Proc, Deliver(p)
    PROVE  Present'
<1>1. PICK t \in Thread(p), r \in Worker : Match(<<p, t>>, r)
  BY DEF Deliver
<1> DEFINE v == <<p, t>>
<1>2. v \in Worker /\ v[1] = p
  BY WorkerIs
<1> HIDE DEF v
<1>3. /\ requests' = requests \ {<<r, p>>}
      /\ wrin[v] = Nobody /\ wrin' = [wrin EXCEPT ![v] = r]
      /\ UNCHANGED <<answer, serving, waiting, pc>>
  BY <1>1, <1>2 DEF Match, askVars, v
<1>4. /\ wrin \in [Worker -> Worker \cup {Nobody, Closed}] /\ Nobody \notin Worker
  BY TypesAre, WorkerIs
<1>5. <<"listener", v>> \in Spots /\ IsAt(r, <<"listener", v>>)'
  <2>1. wrin'[v] = r
    BY <1>2, <1>3, <1>4
  <2> QED
    BY <1>2, <2>1, SpotsAre DEF IsAt
<1>6. \A u \in Worker \ {r} : \A x \in Spots : IsAt(u, x) => IsAt(u, x)'
  <2>1. \A u \in Worker : \A z \in Worker : wrin[z] = u => wrin'[z] = u
    BY <1>3, <1>4
  <2>2. \A x \in Spots : x[1] = "listener" => x[2] \in Worker
    BY DEF Spots
  <2> QED
    BY <1>3, <2>1, <2>2 DEF IsAt
<1> QED
  BY <1>3, <1>5, <1>6, StillPresent

-----------------------------------------------------------------------------
(* Who has the token, and who may leave *)

\* A thread gets to look at the token by taking it only, and leaves only when
\* its process is RED.
LEMMA PlacesOfStep ==
    ASSUME TypeOK, Leaving, NEW w \in Worker, Step(w)
    PROVE  /\ pc'[w] \notin {"scan", "visit"}
           /\ pc'[w] \in {"clear", "barrier", "ended"} => my_color[w[1]] = Red
<1> USE DEF Goto
<1>0. /\ pc \in [Worker -> Labels] /\ resume[w] \in {"work", "receive"}
      /\ pc[w] \in {"clear", "barrier", "ended"} => my_color[w[1]] = Red
      /\ White # Red
  BY TypesAre DEF Leaving, White, Red
<1> DEFINE Goal ==
       /\ pc'[w] \notin {"scan", "visit"}
       /\ pc'[w] \in {"clear", "barrier", "ended"} => my_color[w[1]] = Red
<1>1. ASSUME SolveBase(w)
      PROVE  Goal
  BY <1>0, <1>1 DEF SolveBase, After
<1>2. ASSUME NEW k \in Fanout, Expand(w, k)
      PROVE  Goal
  BY <1>0, <1>2 DEF Expand, After
<1>3. ASSUME Acquire(w)
      PROVE  Goal
  BY <1>0, <1>3 DEF Acquire, After
<1>4. ASSUME NEW v \in Siblings(w), StealHere(w, v)
      PROVE  Goal
  BY <1>0, <1>4 DEF StealHere, After
<1>5. ASSUME NothingHere(w)
      PROVE  Goal
  BY <1>0, <1>5 DEF NothingHere, After
<1>6. ASSUME GetWork(w)
      PROVE  Goal
  BY <1>0, <1>6 DEF GetWork, After
<1>7. ASSUME Post(w)
      PROVE  Goal
  BY <1>0, <1>7 DEF Post, After
<1>8. ASSUME ReceiveWork(w)
      PROVE  Goal
  BY <1>0, <1>8 DEF ReceiveWork, After
<1>9. ASSUME CountWork(w)
      PROVE  Goal
  BY <1>0, <1>9 DEF CountWork, After
<1>10. ASSUME ReceiveRefusal(w)
      PROVE  Goal
  BY <1>0, <1>10 DEF ReceiveRefusal, After
<1>11. ASSUME NoAnswer(w)
      PROVE  Goal
  BY <1>0, <1>11 DEF NoAnswer, After
<1>12. ASSUME NoRequest(w)
      PROVE  Goal
  BY <1>0, <1>12 DEF NoRequest, After
<1>13. ASSUME Accept(w)
      PROVE  Goal
  BY <1>0, <1>13 DEF Accept, After
<1>14. ASSUME NEW v \in Worker, TakeForRemote(w, v)
      PROVE  Goal
  BY <1>0, <1>14 DEF TakeForRemote, After
<1>15. ASSUME NothingForRemote(w)
      PROVE  Goal
  BY <1>0, <1>15 DEF NothingForRemote, After
<1>16. ASSUME SendWork(w)
      PROVE  Goal
  BY <1>0, <1>16 DEF SendWork, After
<1>17. ASSUME Refuse(w)
      PROVE  Goal
  BY <1>0, <1>17 DEF Refuse, After
<1>18. ASSUME SkipToken(w)
      PROVE  Goal
  BY <1>0, <1>18 DEF SkipToken, After
<1>19. ASSUME Clear(w)
      PROVE  Goal
  BY <1>0, <1>19 DEF Clear, After
<1>20. ASSUME End(w)
      PROVE  Goal
  BY <1>0, <1>20 DEF End, After
<1> HIDE DEF Goal
<1>21. Goal
  BY <1>1, <1>2, <1>3, <1>4, <1>5, <1>6, <1>7, <1>8, <1>9, <1>10, <1>11, <1>12, <1>13, <1>14, <1>15, <1>16, <1>17, <1>18, <1>19, <1>20 DEF Step
<1> QED
  BY <1>21 DEF Goal

\* A step of a thread leaves the token where it is.
LEMMA HoldingOfStep ==
    ASSUME OneThreadEach, TypeOK, Holding, Colors, Leaving, NEW w \in Worker, Step(w)
    PROVE  Holding' /\ Colors' /\ Leaving'
<1>1. /\ pc'[w] \notin {"scan", "visit"}
      /\ pc'[w] \in {"clear", "barrier", "ended"} => my_color[w[1]] = Red
  BY PlacesOfStep
<1>2. /\ UNCHANGED <<my_color, td_token, scanned>>
      /\ \A u \in Worker \ {w} : pc'[u] = pc[u] /\ (Empty(u) => Empty(u)')
  BY OthersStill DEF tokenVars, Empty, ss_localFullDepth
<1>3. Holding'
  BY <1>1, <1>2 DEF Holding
<1>4. Leaving'
  BY <1>1, <1>2 DEF Leaving
<1> QED
  BY <1>2, <1>3, <1>4 DEF Colors

\* What the visit of the token leaves alone, and where it leads the thread.
LEMMA TokenStill ==
    ASSUME OneThreadEach, TypeOK, Holding, NEW p \in Proc, TokenStep(p)
    PROVE  /\ UNCHANGED <<localDepth, sharedDepth, created, processed, taken>>
           /\ UNCHANGED <<waiting, wrin, requests, answer, serving>>
           /\ UNCHANGED <<chunks_sent, chunks_recvd, ctrl_sent, ctrl_recvd>>
           /\ td_token.at = p /\ Leader(p) \in Worker
           /\ \A u \in Worker \ {Leader(p)} : pc[u] \notin {"scan", "visit"} /\ pc'[u] = pc[u]
           /\ pc[Leader(p)] \in {"token", "scan", "visit"}
           /\ pc'[Leader(p)] \in {"scan", "visit", "clear", "work", "search"}
<1> DEFINE ld == Leader(p)
<1>0. pc \in [Worker -> Labels] /\ ld \in Worker /\ ld[1] = p /\ White # Red
  BY TypesAre, LeadersOnly DEF White, Red
<1> HIDE DEF ld
<1>1. /\ UNCHANGED <<workVars, askVars, netVars, countVars, serving, taken>>
      /\ pc[ld] \in {"scan", "visit"} \/ (pc[ld] = "token" /\ td_token.at = p)
      /\ pc'[ld] \in {"scan", "visit", "clear", "work", "search"}
      /\ \A u \in Worker \ {ld} : pc'[u] = pc[u]
  <2> USE DEF Goto, After, ld
  <2>1. CASE TakeToken(p)
    BY <1>0, <2>1 DEF TakeToken
  <2>2. CASE Scan(p)
    BY <1>0, <2>2 DEF Scan
  <2>3. CASE WhiteVisit(p)
    BY <1>0, <2>3 DEF WhiteVisit
  <2>4. CASE PinkVisit(p)
    BY <1>0, <2>4 DEF PinkVisit
  <2>5. CASE RedVisit(p)
    BY <1>0, <2>5 DEF RedVisit
  <2> QED
    BY <2>1, <2>2, <2>3, <2>4, <2>5 DEF TokenStep
<1>2. td_token.at = p
  BY <1>0, <1>1 DEF Holding
<1>3. ASSUME NEW u \in Worker \ {ld}
      PROVE  pc[u] \notin {"scan", "visit"}
  <2>1. pc[u] \in {"scan", "visit"} => u[1] = p
    BY <1>2 DEF Holding
  <2> QED
    BY <1>0, <2>1, LeadersOnly
<1> QED
  BY <1>0, <1>1, <1>2, <1>3 DEF workVars, askVars, netVars, countVars, ld

\* A visit of the token takes it over, looks, and passes it on.
LEMMA HoldingOfTokenStep ==
    ASSUME OneThreadEach, TypeOK, Loaded, Holding, Colors, Leaving,
           NEW p \in Proc, TokenStep(p)
    PROVE  Holding' /\ Colors' /\ Leaving'
<1> DEFINE ld == Leader(p)
<1>0. /\ pc \in [Worker -> Labels] /\ my_color \in [Proc -> {White, Pink, Red}]
      /\ ld \in Worker /\ ld[1] = p
      /\ White # Red /\ White # Pink /\ Pink # Red
      /\ scanned \in [Proc -> Nat] /\ T[p] = 1
  BY LeadersOnly DEF TypeOK, White, Pink, Red, OneThreadEach
<1>1. /\ td_token.at = p
      /\ \A u \in Worker \ {ld} : pc[u] \notin {"scan", "visit"} /\ pc'[u] = pc[u]
      /\ UNCHANGED <<localDepth, sharedDepth, taken>>
  BY TokenStill
<1>2. td_token \in [at : Proc, moving : BOOLEAN, color : {White, Pink, Red},
                    recv_count : [Proc -> Nat], send_count : [Proc -> Nat],
                    status : [Proc -> 0 .. 4]]
  BY DEF TypeOK
<1>3. CASE TakeToken(p)
  <2>1. /\ pc[ld] = "token"
        /\ pc' = [pc EXCEPT ![ld] = IF td_token.color = White THEN "scan" ELSE "visit"]
        /\ td_token' = [td_token EXCEPT !.moving = FALSE]
        /\ scanned' = [scanned EXCEPT ![p] = 0] /\ my_color' = my_color
    BY <1>3 DEF TakeToken, Goto
  <2> HIDE DEF ld
  <2>2. td_token'.at = p /\ ~td_token'.moving /\ td_token'.color = td_token.color
    BY <1>1, <1>2, <2>1
  <2>3. scanned'[p] = 0 /\ ~(scanned'[p] > 0)
    BY <1>0, <2>1
  <2>4. /\ pc'[ld] \in {"scan", "visit"} /\ (pc'[ld] = "scan") <=> (td_token.color = White)
    BY <1>0, <2>1
  <2>5. Holding'
    BY <1>0, <1>1, <2>2, <2>3, <2>4 DEF Holding
  <2>6. Colors'
    BY <2>1, <2>2 DEF Colors
  <2>7. Leaving'
    BY <1>0, <1>1, <2>1, <2>4 DEF Leaving
  <2> QED
    BY <2>5, <2>6, <2>7
<1>4. CASE Scan(p)
  <2>1. /\ pc[ld] = "scan" /\ scanned[p] < T[p] /\ UNCHANGED <<my_color, td_token>>
        /\ \/ /\ ss_localFullDepth(<<p, scanned[p]>>) = 0 /\ pc' = pc
           \/ pc' = [pc EXCEPT ![ld] = After(ld, White)]
    BY <1>4 DEF Scan
  <2>2. scanned[p] = 0
    BY <1>0, <2>1
  <2>3. pc'[ld] = "scan" => Empty(ld)'
    <3>1. ASSUME pc'[ld] = "scan"
          PROVE  ss_localFullDepth(ld) = 0
      BY <1>0, <2>1, <2>2, <3>1 DEF After, Leader
    <3>2. taken[ld] = 0
      BY <1>0, <2>1 DEF Loaded
    <3> QED
      BY <1>1, <3>1, <3>2 DEF Empty, ss_localFullDepth
  <2> HIDE DEF ld
  <2>4. pc'[ld] \in {"scan", "work", "search"}
    BY <1>0, <2>1 DEF After
  <2>5. Holding'
    BY <1>0, <1>1, <2>1, <2>3, <2>4 DEF Holding
  <2>6. Colors'
    BY <2>1 DEF Colors
  <2>7. Leaving'
    BY <1>0, <1>1, <2>1, <2>4 DEF Leaving
  <2> QED
    BY <2>5, <2>6, <2>7
<1>5. CASE WhiteVisit(p)
  <2>1. /\ pc[ld] = "scan" /\ pc' = [pc EXCEPT ![ld] = "search"]
        /\ \/ /\ my_color' = [my_color EXCEPT ![p] = Pink] /\ td_token'.color = Pink
           \/ my_color' = my_color /\ td_token'.color = White
    BY <1>5 DEF WhiteVisit, Goto, Pass
  <2> HIDE DEF ld
  <2>2. td_token.color = White
    BY <1>0, <2>1 DEF Holding
  <2>3. \A q \in Proc : my_color[q] = White
    BY <2>2 DEF Colors
  <2>4. pc'[ld] = "search"
    BY <1>0, <2>1
  <2>5. Holding'
    BY <1>0, <1>1, <2>4 DEF Holding
  <2>6. Colors'
    BY <1>0, <2>1, <2>3 DEF Colors
  <2>7. Leaving'
    <3>1. \A u \in Worker : u[1] \in Proc
      BY LeadersOnly
    <3>2. \A u \in Worker : pc[u] \notin {"clear", "barrier", "ended"}
      BY <1>0, <2>3, <3>1 DEF Leaving
    <3> QED
      BY <1>1, <2>4, <3>2 DEF Leaving
  <2> QED
    BY <2>5, <2>6, <2>7
<1>6. CASE PinkVisit(p)
  <2>1. /\ pc[ld] = "visit" /\ td_token.color = Pink
        /\ \/ /\ my_color' = [my_color EXCEPT ![p] = Pink] /\ td_token'.color = Pink
              /\ pc' = [pc EXCEPT ![ld] = After(ld, Pink)]
           \/ /\ my_color' = [my_color EXCEPT ![p] = Red] /\ td_token'.color = Red
              /\ pc' = [pc EXCEPT ![ld] = After(ld, Red)]
    BY <1>6 DEF PinkVisit, Goto, Pass
  <2> HIDE DEF ld
  <2>2. \A q \in Proc : my_color[q] # Red
    BY <1>0, <2>1 DEF Colors
  <2>3. /\ pc'[ld] \in {"work", "search", "clear"}
        /\ pc'[ld] = "clear" => my_color'[p] = Red
    BY <1>0, <2>1 DEF After
  <2>4. Holding'
    BY <1>0, <1>1, <2>3 DEF Holding
  <2>5. Colors'
    BY <1>0, <2>1, <2>2 DEF Colors
  <2>6. \A u \in Worker \ {ld} : pc'[u] \notin {"clear", "barrier", "ended"}
    <3>1. \A u \in Worker : pc[u] \in {"clear", "barrier", "ended"} => my_color[u[1]] = Red
      BY DEF Leaving
    <3>2. \A u \in Worker : u[1] \in Proc
      BY LeadersOnly
    <3> QED
      BY <1>1, <2>2, <3>1, <3>2
  <2>7. Leaving'
    BY <1>0, <2>3, <2>6 DEF Leaving
  <2> QED
    BY <2>4, <2>5, <2>7
<1>7. CASE RedVisit(p)
  <2>1. /\ pc[ld] = "visit" /\ td_token.color = Red /\ pc' = [pc EXCEPT ![ld] = "clear"]
        /\ my_color' = [my_color EXCEPT ![p] = Red]
        /\ td_token' = td_token \/ td_token' = [td_token EXCEPT !.at = Next1(p), !.moving = TRUE]
    BY <1>7 DEF RedVisit, Goto
  <2> HIDE DEF ld
  <2>2. td_token'.color = Red
    BY <1>2, <2>1
  <2>3. pc'[ld] = "clear" /\ my_color'[p] = Red
    BY <1>0, <2>1
  <2>4. Holding'
    BY <1>0, <1>1, <2>3 DEF Holding
  <2>5. Colors'
    BY <1>0, <2>1, <2>2 DEF Colors
  <2>6. \A q \in Proc : my_color[q] = Red => my_color'[q] = Red
    BY <1>0, <2>1
  <2>7. Leaving'
    <3>1. \A u \in Worker : u[1] \in Proc
      BY LeadersOnly
    <3> QED
      BY <1>0, <1>1, <2>3, <2>6, <3>1 DEF Leaving
  <2> QED
    BY <2>4, <2>5, <2>7
<1> QED
  BY <1>3, <1>4, <1>5, <1>6, <1>7 DEF TokenStep

\* The token carries no message.
LEMMA MessagesOfTokenStep ==
    ASSUME OneThreadEach, TypeOK, Holding, CtrlAccounting, Present,
           NEW p \in Proc, TokenStep(p)
    PROVE  CtrlAccounting' /\ Present'
<1>1. /\ UNCHANGED <<waiting, wrin, requests, answer, serving, ctrl_sent, ctrl_recvd>>
      /\ \A u \in Worker : pc[u] = "count" => pc'[u] = "count"
  BY TokenStill
<1>2. Matched' = Matched /\ Refused' = Refused
  BY <1>1 DEF Matched, Refused
<1>3. CtrlAccounting'
  BY <1>1, <1>2, CtrlAccountStays
<1>4. Present'
  BY <1>1, StillPresent DEF IsAt
<1> QED
  BY <1>3, <1>4

-----------------------------------------------------------------------------
(* The rounds *)

\* Only the counters of the token matter.
LEMMA RoundSame ==
    ASSUME NEW counts, NEW counts2, NEW at, NEW base, NEW R, NEW S, NEW Calm, NEW Busy,
           counts2.status = counts.status,
           counts2.recv_count = counts.recv_count, counts2.send_count = counts.send_count
    PROVE  /\ Round(counts, at, base, R, S, Calm, Busy)
                => Round(counts2, at, base, R, S, Calm, Busy)
           /\ Failing(counts, base, R, Busy) => Failing(counts2, base, R, Busy)
BY DEF Round, Collecting, Ahead, Faithful, Failing, Collected

\* When all processes are idle, and as many work messages have been received
\* and counted as sent, there is no work left.
LEMMA WorkOverFound ==
    ASSUME OneThreadEach, TypeOK, TypeOK', ChunkAccounting,
           \A q \in Proc : q \in Idle /\ q \notin Landing,
           SumFunction(chunks_recvd) = SumFunction(chunks_sent)
    PROVE  WorkOver
<1>1. Cardinality(Answered) + Cardinality(Counting) = 0
  BY AccountIs
<1>2. Cardinality(Answered) = 0
  BY <1>1, AccountIs
<1>3. Answered = {}
  BY <1>2, AccountIs, FS_EmptySet
<1>4. ASSUME NEW w \in Worker
      PROVE  Empty(w) /\ ~(answer[w] > 0) /\ pc[w] # "count"
  <2>1. w = Leader(w[1]) /\ w[1] \in Proc
    BY LeadersOnly
  <2>2. w[1] \in Idle /\ w[1] \notin Landing
    BY <2>1
  <2>3. Empty(w) /\ pc[w] # "count"
    BY <2>1, <2>2 DEF Idle, Landing
  <2>4. ~(answer[w] > 0)
    BY <1>3 DEF Answered
  <2> QED
    BY <2>3, <2>4
<1> QED
  BY <1>4 DEF WorkOver

\* When as many control messages have been received as sent, and no work is
\* left, there is no message left.
LEMMA MessagesOverFound ==
    ASSUME TypeOK, TypeOK', CtrlAccounting, WorkOver,
           SumFunction(ctrl_recvd) = SumFunction(ctrl_sent)
    PROVE  /\ requests = {}
           /\ \A w \in Worker : answer[w] = Nothing /\ wrin[w] \notin Worker /\ pc[w] # "count"
<1>1. Cardinality(requests) + Cardinality(Matched) + Cardinality(Refused) = 0
  BY CtrlAccountIs
<1>2. Cardinality(requests) = 0 /\ Cardinality(Matched) = 0 /\ Cardinality(Refused) = 0
  BY <1>1, CtrlAccountIs
<1>3. requests = {} /\ Matched = {} /\ Refused = {}
  BY <1>2, CtrlAccountIs, FS_EmptySet
<1>4. ASSUME NEW w \in Worker
      PROVE  answer[w] = Nothing /\ wrin[w] \notin Worker /\ pc[w] # "count"
  <2>1. answer[w] \in {Nothing, 0, MessageSize} /\ MessageSize > 0
    BY TypesAre, SizesAre
  <2>2. ~(answer[w] > 0) /\ pc[w] # "count"
    BY DEF WorkOver
  <2>3. answer[w] # 0 /\ wrin[w] \notin Worker
    BY <1>3 DEF Matched, Refused
  <2> QED
    BY <2>1, <2>2, <2>3
<1> QED
  BY <1>3, <1>4

\* A step of a thread keeps a round going, and what it has found out.
LEMMA RoundsOfStep ==
    ASSUME OneThreadEach, TypeOK, TypeOK', Serving, Loaded, Rounds, NEW w \in Worker, Step(w)
    PROVE  Rounds'
<1>0. /\ w = Leader(w[1]) /\ w[1] \in Proc
      /\ \A p \in Proc : Leader(p) \in Worker /\ Leader(p)[1] = p
      /\ UNCHANGED <<my_color, td_token>>
  BY LeadersOnly, OthersStill DEF tokenVars
<1>1. \A p \in Proc \ {w[1]} :
        /\ chunks_sent'[p] = chunks_sent[p] /\ chunks_recvd'[p] = chunks_recvd[p]
        /\ ctrl_sent'[p] = ctrl_sent[p] /\ ctrl_recvd'[p] = ctrl_recvd[p]
        /\ pc'[Leader(p)] = pc[Leader(p)]
        /\ Empty(Leader(p)) => Empty(Leader(p))'
  <2>1. \A p \in Proc \ {w[1]} : Leader(p) \in Worker \ {w}
    BY <1>0
  <2>2. \A u \in Worker \ {w} : pc'[u] = pc[u] /\ (Empty(u) => Empty(u)')
    BY OthersStill DEF Empty, ss_localFullDepth
  <2> QED
    BY <2>1, <2>2, OthersStill
<1>2. /\ chunks_recvd \in [Proc -> Nat] /\ ctrl_recvd \in [Proc -> Nat]
      /\ chunks_recvd' \in [Proc -> Nat] /\ ctrl_recvd' \in [Proc -> Nat]
      /\ td_token.recv_count \in [Proc -> Nat]
  BY DEF TypeOK
<1>3. ASSUME NEW p \in Proc
      PROVE  /\ chunks_recvd[p] <= chunks_recvd'[p]
             /\ chunks_recvd[p] = chunks_recvd'[p] /\ p \in Landing => p \in Landing'
             /\ chunks_recvd[p] = chunks_recvd'[p] /\ p \notin Landing' /\ p \in Idle
                    => chunks_sent'[p] = chunks_sent[p] /\ p \in Idle'
             /\ ctrl_recvd[p] <= ctrl_recvd'[p]
             /\ ctrl_recvd[p] = ctrl_recvd'[p] /\ p \in Silent
                    => ctrl_sent'[p] = ctrl_sent[p] /\ p \in Silent'
  <2>1. /\ p \in Landing <=> pc[Leader(p)] = "count"
        /\ p \in Landing' <=> pc'[Leader(p)] = "count"
        /\ p \in Idle <=> Empty(Leader(p))
        /\ p \in Idle' <=> Empty(Leader(p))'
    BY DEF Landing, Idle
  <2>2. CASE p = w[1]
    <3>1. Leader(p) = w
      BY <1>0, <2>2
    <3>2. Empty(Leader(p))' <=> Empty(w)'
      BY <3>1 DEF Empty, ss_localFullDepth
    <3>3. (p \in Landing <=> pc[w] = "count") /\ (p \in Landing' <=> pc'[w] = "count")
      BY <2>1, <3>1, Zenon
    <3>4. (p \in Idle <=> Empty(w)) /\ (p \in Idle' <=> Empty(w)')
      BY <2>1, <3>1, <3>2, Zenon
    <3>5. /\ chunks_recvd[p] <= chunks_recvd'[p]
          /\ pc[w] = "count" => pc'[w] = "count" \/ chunks_recvd'[p] # chunks_recvd[p]
          /\ Empty(w) /\ pc'[w] # "count" /\ pc[w] # "count"
                => Empty(w)' /\ chunks_sent'[p] = chunks_sent[p]
      BY <2>2, WorkEffects
    <3>6. /\ ctrl_recvd[p] <= ctrl_recvd'[p]
          /\ p \in Silent /\ ctrl_recvd'[p] = ctrl_recvd[p]
                => p \in Silent' /\ ctrl_sent'[p] = ctrl_sent[p]
      BY <2>2, MessageEffects
    <3> QED
      BY <3>3, <3>4, <3>5, <3>6, Zenon
  <2>3. CASE p # w[1]
    <3>1. chunks_recvd[p] \in Nat /\ ctrl_recvd[p] \in Nat
      BY <1>2
    <3>2. p \in Silent => p \in Silent'
      BY <1>0, <1>1, <2>3 DEF Silent
    <3> QED
      BY <1>1, <2>1, <2>3, <3>1, <3>2
  <2> QED
    BY <2>2, <2>3
<1>4. WorkOver => WorkOver'
  BY WorkEffects
<1>5. MessagesOver => MessagesOver'
  BY MessagesStayOver
<1>6. WhiteRound'
  <2> SUFFICES ASSUME td_token.color = White
               PROVE  /\ Round(td_token, td_token.at, 0, chunks_recvd', chunks_sent', Idle', Landing')
                      /\ WorkOver' \/ Failing(td_token, 0, chunks_recvd', Landing')
    BY <1>0 DEF WhiteRound
  <2>1. /\ Round(td_token, td_token.at, 0, chunks_recvd, chunks_sent, Idle, Landing)
        /\ WorkOver \/ Failing(td_token, 0, chunks_recvd, Landing)
    BY DEF Rounds, WhiteRound
  <2>2. \A p \in Proc :
            /\ chunks_recvd[p] <= chunks_recvd'[p]
            /\ chunks_recvd[p] = chunks_recvd'[p] /\ p \in Landing => p \in Landing'
            /\ chunks_recvd[p] = chunks_recvd'[p] /\ p \notin Landing' /\ p \in Idle
                    => chunks_sent'[p] = chunks_sent[p] /\ p \in Idle'
    BY <1>3
  <2>3. /\ Round(td_token, td_token.at, 0, chunks_recvd', chunks_sent', Idle', Landing')
        /\ Failing(td_token, 0, chunks_recvd, Landing) => Failing(td_token, 0, chunks_recvd', Landing')
    <3> HIDE DEF Idle, Landing
    <3>1. 0 \in Int
      OBVIOUS
    <3> QED
      BY <1>2, <2>1, <2>2, <3>1, RoundStays, SMTT(30)
  <2> QED
    BY <1>4, <2>1, <2>3
<1>7. PinkRound'
  <2> SUFFICES ASSUME td_token.color = Pink
               PROVE  /\ Round(td_token, td_token.at, 2, ctrl_recvd', ctrl_sent', Silent', {})
                      /\ MessagesOver' \/ Failing(td_token, 2, ctrl_recvd', {})
    BY <1>0 DEF PinkRound
  <2>1. /\ Round(td_token, td_token.at, 2, ctrl_recvd, ctrl_sent, Silent, {})
        /\ MessagesOver \/ Failing(td_token, 2, ctrl_recvd, {})
    BY DEF Rounds, PinkRound
  <2>2. \A p \in Proc :
            /\ ctrl_recvd[p] <= ctrl_recvd'[p]
            /\ ctrl_recvd[p] = ctrl_recvd'[p] /\ p \in Silent
                    => ctrl_sent'[p] = ctrl_sent[p] /\ p \in Silent'
    BY <1>3
  <2>3. /\ Round(td_token, td_token.at, 2, ctrl_recvd', ctrl_sent', Silent', {})
        /\ Failing(td_token, 2, ctrl_recvd, {}) => Failing(td_token, 2, ctrl_recvd', {})
    <3> HIDE DEF Silent
    <3>1. PICK none, none2 \in {{}} : none = {} /\ none2 = {}
      OBVIOUS
    <3>2. Round(td_token, td_token.at, 2, ctrl_recvd, ctrl_sent, Silent, none)
      BY <2>1, <3>1
    <3>3. 2 \in Int
      OBVIOUS
    <3>4. \A p \in Proc :
            /\ ctrl_recvd[p] <= ctrl_recvd'[p]
            /\ ctrl_recvd[p] = ctrl_recvd'[p] /\ p \in none => p \in none2
            /\ ctrl_recvd[p] = ctrl_recvd'[p] /\ p \notin none2 /\ p \in Silent
                    => ctrl_sent'[p] = ctrl_sent[p] /\ p \in Silent'
      BY <2>2, <3>1
    <3>5. /\ Round(td_token, td_token.at, 2, ctrl_recvd', ctrl_sent', Silent', none2)
          /\ Failing(td_token, 2, ctrl_recvd, none) => Failing(td_token, 2, ctrl_recvd', none2)
      BY <1>2, <3>2, <3>3, <3>4, RoundStays
    <3> QED
      BY <3>1, <3>5
  <2> QED
    BY <1>5, <2>1, <2>3
<1> QED
  BY <1>0, <1>4, <1>5, <1>6, <1>7 DEF Rounds

\* So does a step that concerns neither work nor the token.
LEMMA RoundsStill ==
    ASSUME Rounds,
           UNCHANGED <<localDepth, sharedDepth, taken, answer, pc, my_color, td_token>>,
           UNCHANGED <<chunks_sent, chunks_recvd, ctrl_sent, ctrl_recvd>>,
           MessagesOver => MessagesOver'
    PROVE  Rounds'
<1>1. Idle' = Idle /\ Landing' = Landing /\ Silent' = Silent
  BY DEF Idle, Landing, Silent, Empty, ss_localFullDepth
<1>2. WorkOver' <=> WorkOver
  BY DEF WorkOver, Empty, ss_localFullDepth
<1>3. WhiteRound'
  <2>1. td_token.color = White =>
            /\ Round(td_token, td_token.at, 0, chunks_recvd, chunks_sent, Idle, Landing)
            /\ WorkOver \/ Failing(td_token, 0, chunks_recvd, Landing)
    BY DEF Rounds, WhiteRound
  <2> QED
    BY <1>1, <1>2, <2>1, Zenon DEF WhiteRound
<1>4. PinkRound'
  <2>1. td_token.color = Pink =>
            /\ Round(td_token, td_token.at, 2, ctrl_recvd, ctrl_sent, Silent, {})
            /\ MessagesOver' \/ Failing(td_token, 2, ctrl_recvd, {})
    BY DEF Rounds, PinkRound
  <2> QED
    BY <1>1, <2>1, Zenon DEF PinkRound
<1> QED
  BY <1>2, <1>3, <1>4 DEF Rounds

\* A delivery is such a step: a request is under way.
LEMMA RoundsOfDelivery ==
    ASSUME Rounds, NEW p \in Proc, Deliver(p)
    PROVE  Rounds'
<1>1. /\ UNCHANGED <<localDepth, sharedDepth, taken, answer, pc, my_color, td_token>>
      /\ UNCHANGED <<chunks_sent, chunks_recvd, ctrl_sent, ctrl_recvd>>
      /\ requests # {}
  BY DEF Deliver, Match, workVars, countVars, tokenVars
<1>2. ~MessagesOver
  BY <1>1 DEF MessagesOver
<1> QED
  BY <1>1, <1>2, RoundsStill

\* The visit of the token goes on with the round, or starts the next one when
\* this one has found out what it was to find out.
LEMMA RoundsOfTokenStep ==
    ASSUME OneThreadEach, TypeOK, TypeOK', Holding, Loaded, Rounds,
           ChunkAccounting, CtrlAccounting, NEW p \in Proc, TokenStep(p)
    PROVE  Rounds'
<1> DEFINE ld == Leader(p)
<1>0. /\ pc \in [Worker -> Labels] /\ ld \in Worker /\ ld[1] = p
      /\ \A q \in Proc : Leader(q) \in Worker /\ Leader(q)[1] = q
      /\ my_color \in [Proc -> {White, Pink, Red}]
      /\ White # Red /\ White # Pink /\ Pink # Red
      /\ T[p] = 1
      /\ chunks_recvd \in [Proc -> Nat] /\ ctrl_recvd \in [Proc -> Nat]
      /\ chunks_sent \in [Proc -> Nat] /\ ctrl_sent \in [Proc -> Nat]
      /\ chunks_recvd[p] \in Nat /\ ctrl_recvd[p] \in Nat
      /\ td_token.recv_count \in [Proc -> Nat]
      /\ td_token \in [at : Proc, moving : BOOLEAN, color : {White, Pink, Red},
                       recv_count : [Proc -> Nat], send_count : [Proc -> Nat],
                       status : [Proc -> 0 .. 4]]
  BY LeadersOnly DEF TypeOK, White, Pink, Red, OneThreadEach
<1>1. /\ UNCHANGED <<localDepth, sharedDepth, taken, wrin, requests, answer>>
      /\ UNCHANGED <<chunks_sent, chunks_recvd, ctrl_sent, ctrl_recvd>>
      /\ td_token.at = p
      /\ \A u \in Worker \ {ld} : pc'[u] = pc[u]
      /\ pc[ld] \in {"token", "scan", "visit"}
      /\ pc'[ld] \in {"scan", "visit", "clear", "work", "search"}
  BY TokenStill
<1>2. Idle' = Idle
  BY <1>1 DEF Idle, Empty, ss_localFullDepth
<1> HIDE DEF ld
<1>3. \A q \in Proc : q # p => pc'[Leader(q)] = pc[Leader(q)]
  BY <1>0, <1>1
<1>4. Landing' = Landing /\ p \notin Landing
  BY <1>1, <1>3 DEF Landing, ld
<1>5. /\ \A q \in Proc : q \in Silent /\ (q = p => my_color'[p] # White)
                            /\ (q # p => my_color'[q] = my_color[q]) => q \in Silent'
      /\ my_color'[p] # White => p \in Silent'
  BY <1>1, <1>3 DEF Silent, ld
<1>6. WorkOver => WorkOver'
  BY <1>1 DEF WorkOver, Empty, ss_localFullDepth
<1>7. ASSUME MessagesOver, my_color'[p] # White,
             \A q \in Proc : q # p => my_color'[q] = my_color[q]
      PROVE  MessagesOver'
  <2>1. Silent' = Proc
    <3>1. Silent = Proc
      BY <1>7 DEF MessagesOver
    <3>2. \A q \in Proc : q \in Silent'
      BY <1>5, <1>7, <3>1
    <3>3. Silent' \subseteq Proc
      BY DEF Silent
    <3> QED
      BY <3>2, <3>3
  <2> QED
    BY <1>1, <1>7, <2>1 DEF MessagesOver
<1>8. CASE TakeToken(p) \/ Scan(p)
  <2>1. /\ td_token' = td_token \/ td_token' = [td_token EXCEPT !.moving = FALSE]
        /\ my_color' = my_color
    BY <1>8 DEF TakeToken, Scan
  <2>2. /\ td_token'.color = td_token.color /\ td_token'.at = td_token.at
        /\ td_token'.status = td_token.status
        /\ td_token'.recv_count = td_token.recv_count
        /\ td_token'.send_count = td_token.send_count
    BY <1>0, <2>1
  <2>3. Silent' = Silent
    BY <1>1, <1>3, <2>1 DEF Silent, ld
  <2>4. MessagesOver => MessagesOver'
    BY <1>1, <2>3 DEF MessagesOver
  <2>5. WhiteRound'
    <3> SUFFICES ASSUME td_token.color = White
                 PROVE  /\ Round(td_token', td_token.at, 0, chunks_recvd, chunks_sent, Idle, Landing)
                        /\ WorkOver' \/ Failing(td_token', 0, chunks_recvd, Landing)
      BY <1>1, <1>2, <1>4, <2>2 DEF WhiteRound
    <3>1. /\ Round(td_token, td_token.at, 0, chunks_recvd, chunks_sent, Idle, Landing)
          /\ WorkOver \/ Failing(td_token, 0, chunks_recvd, Landing)
      BY DEF Rounds, WhiteRound
    <3> QED
      BY <1>6, <2>2, <3>1, RoundSame
  <2>6. PinkRound'
    <3> SUFFICES ASSUME td_token.color = Pink
                 PROVE  /\ Round(td_token', td_token.at, 2, ctrl_recvd, ctrl_sent, Silent, {})
                        /\ MessagesOver' \/ Failing(td_token', 2, ctrl_recvd, {})
      BY <1>1, <2>2, <2>3 DEF PinkRound
    <3>1. /\ Round(td_token, td_token.at, 2, ctrl_recvd, ctrl_sent, Silent, {})
          /\ MessagesOver \/ Failing(td_token, 2, ctrl_recvd, {})
      BY DEF Rounds, PinkRound
    <3> QED
      BY <2>2, <2>4, <3>1, RoundSame
  <2> QED
    BY <1>6, <2>2, <2>4, <2>5, <2>6 DEF Rounds
<1>9. CASE WhiteVisit(p)
  <2> DEFINE r == chunks_recvd[p]
             s == chunks_sent[p]
  <2>1. /\ pc[ld] = "scan" /\ scanned[p] = T[p]
        /\ \/ /\ AllConfirmed(0) /\ SumsAgree /\ my_color' = [my_color EXCEPT ![p] = Pink]
              /\ Pass(p, Pink, Restarted(2, p, ctrl_recvd[p], ctrl_sent[p]))
           \/ my_color' = my_color /\ Pass(p, White, Visited(0, p, r, s))
    BY <1>9 DEF WhiteVisit, Goto, Settled, ld
  <2>2. td_token.color = White /\ Empty(ld)
    BY <1>0, <2>1 DEF Holding
  <2>3. /\ Round(td_token, p, 0, chunks_recvd, chunks_sent, Idle, Landing)
        /\ WorkOver \/ Failing(td_token, 0, chunks_recvd, Landing)
    BY <1>1, <2>2 DEF Rounds, WhiteRound
  <2>4. p \in Idle
    BY <2>2 DEF Idle, ld
  <2>5. CASE my_color' = my_color /\ Pass(p, White, Visited(0, p, r, s))
    <3> DEFINE new == Visited(0, p, r, s)
    <3>1. /\ Round(new, Next1(p), 0, chunks_recvd, chunks_sent, Idle, Landing)
          /\ Failing(td_token, 0, chunks_recvd, Landing) =>
                \/ Failing(new, 0, chunks_recvd, Landing)
                \/ /\ \A q \in Proc : q \in Idle /\ q \notin Landing
                   /\ SumFunction(chunks_recvd) = SumFunction(chunks_sent)
      <4>1. 0 \in {0, 2}
        OBVIOUS
      <4>2. /\ chunks_recvd \in [Proc -> Nat] /\ chunks_sent \in [Proc -> Nat]
            /\ p \notin Landing
        BY <1>0, <1>4
      <4> QED
        BY <2>3, <2>4, <4>1, <4>2, RoundVisits
    <3> HIDE DEF new
    <3>2. /\ td_token'.color = White /\ td_token'.at = Next1(p)
          /\ td_token'.status = new.status /\ td_token'.recv_count = new.recv_count
          /\ td_token'.send_count = new.send_count
      BY <2>5 DEF Pass, new
    <3>3. /\ Round(td_token', Next1(p), 0, chunks_recvd, chunks_sent, Idle, Landing)
          /\ Failing(new, 0, chunks_recvd, Landing) => Failing(td_token', 0, chunks_recvd, Landing)
      BY <3>1, <3>2, RoundSame
    <3>4. WorkOver \/ Failing(td_token', 0, chunks_recvd, Landing)
      BY <2>3, <3>1, <3>3, WorkOverFound
    <3>5. WhiteRound'
      BY <1>1, <1>2, <1>4, <1>6, <3>2, <3>3, <3>4 DEF WhiteRound
    <3> QED
      BY <1>0, <3>2, <3>5 DEF Rounds, PinkRound
  <2>6. CASE /\ AllConfirmed(0) /\ SumsAgree /\ my_color' = [my_color EXCEPT ![p] = Pink]
             /\ Pass(p, Pink, Restarted(2, p, ctrl_recvd[p], ctrl_sent[p]))
    <3> DEFINE new == Restarted(2, p, ctrl_recvd[p], ctrl_sent[p])
    <3>1. WorkOver
      BY <2>3, <2>6, RoundEnds
    <3>2. my_color'[p] # White
      BY <1>0, <2>6
    <3>3. p \in Silent'
      BY <1>5, <3>2
    <3>4. PICK none \in {{}} : none = {}
      OBVIOUS
    <3>5. 2 \in Int
      OBVIOUS
    <3>6. /\ Round(new, Next1(p), 2, ctrl_recvd, ctrl_sent, Silent', none)
          /\ Failing(new, 2, ctrl_recvd, none)
      BY <1>0, <3>3, <3>5, RoundStarts
    <3> HIDE DEF new
    <3>7. /\ td_token'.color = Pink /\ td_token'.at = Next1(p)
          /\ td_token'.status = new.status /\ td_token'.recv_count = new.recv_count
          /\ td_token'.send_count = new.send_count
      BY <2>6 DEF Pass, new
    <3>8. /\ Round(td_token', Next1(p), 2, ctrl_recvd, ctrl_sent, Silent', none)
          /\ Failing(td_token', 2, ctrl_recvd, none)
      BY <3>6, <3>7, RoundSame
    <3>9. PinkRound'
      BY <1>1, <3>4, <3>7, <3>8 DEF PinkRound
    <3> QED
      BY <1>0, <1>6, <3>1, <3>7, <3>9 DEF Rounds, WhiteRound
  <2> QED
    BY <2>1, <2>5, <2>6
<1>10. CASE PinkVisit(p)
  <2> DEFINE r == ctrl_recvd[p]
             s == ctrl_sent[p]
             new == Visited(2, p, r, s)
  <2>1. /\ td_token.color = Pink
        /\ \/ /\ AllConfirmed(2) /\ SumsAgree /\ my_color' = [my_color EXCEPT ![p] = Red]
              /\ Pass(p, Red, new)
           \/ my_color' = [my_color EXCEPT ![p] = Pink] /\ Pass(p, Pink, new)
    BY <1>10 DEF PinkVisit, Settled
  <2>2. my_color'[p] # White /\ \A q \in Proc : q # p => my_color'[q] = my_color[q]
    BY <1>0, <2>1
  <2>3. PICK none, none2 \in {{}} : none = {} /\ none2 = {}
    OBVIOUS
  <2>4. /\ Round(td_token, p, 2, ctrl_recvd, ctrl_sent, Silent, none)
        /\ MessagesOver \/ Failing(td_token, 2, ctrl_recvd, none)
    BY <1>1, <2>1, <2>3 DEF Rounds, PinkRound
  <2>5. WorkOver /\ p \in Silent'
    BY <1>0, <1>5, <2>1, <2>2 DEF Rounds
  <2>6. MessagesOver => MessagesOver'
    BY <1>7, <2>2
  <2>7. 2 \in Int
    OBVIOUS
  <2>8. CASE my_color' = [my_color EXCEPT ![p] = Pink] /\ Pass(p, Pink, new)
    <3>1. \A q \in Proc :
            /\ ctrl_recvd[q] <= ctrl_recvd'[q]
            /\ ctrl_recvd[q] = ctrl_recvd'[q] /\ q \in none => q \in none2
            /\ ctrl_recvd[q] = ctrl_recvd'[q] /\ q \notin none2 /\ q \in Silent
                    => ctrl_sent'[q] = ctrl_sent[q] /\ q \in Silent'
      BY <1>0, <1>1, <1>5, <2>2, <2>3
    <3>2. /\ Round(td_token, p, 2, ctrl_recvd, ctrl_sent, Silent', none2)
          /\ Failing(td_token, 2, ctrl_recvd, none) => Failing(td_token, 2, ctrl_recvd, none2)
      <4>1. /\ ctrl_recvd \in [Proc -> Nat] /\ ctrl_recvd' \in [Proc -> Nat]
            /\ td_token.recv_count \in [Proc -> Nat]
        BY <1>0, <1>1
      <4>2. /\ Round(td_token, p, 2, ctrl_recvd', ctrl_sent', Silent', none2)
            /\ Failing(td_token, 2, ctrl_recvd, none) => Failing(td_token, 2, ctrl_recvd', none2)
        BY <2>4, <2>7, <3>1, <4>1, RoundStays
      <4> QED
        BY <1>1, <4>2
    <3>3. p \notin none2
      BY <2>3
    <3>4. /\ Round(new, Next1(p), 2, ctrl_recvd, ctrl_sent, Silent', none2)
          /\ Failing(td_token, 2, ctrl_recvd, none2) =>
                \/ Failing(new, 2, ctrl_recvd, none2)
                \/ /\ \A q \in Proc : q \in Silent' /\ q \notin none2
                   /\ SumFunction(ctrl_recvd) = SumFunction(ctrl_sent)
      <4>1. 2 \in {0, 2}
        OBVIOUS
      <4>2. ctrl_recvd \in [Proc -> Nat] /\ ctrl_sent \in [Proc -> Nat]
        BY <1>0
      <4> QED
        BY <2>5, <3>2, <3>3, <4>1, <4>2, RoundVisits
    <3> HIDE DEF new
    <3>5. /\ td_token'.color = Pink /\ td_token'.at = Next1(p)
          /\ td_token'.status = new.status /\ td_token'.recv_count = new.recv_count
          /\ td_token'.send_count = new.send_count
      BY <2>8 DEF Pass
    <3>6. /\ Round(td_token', Next1(p), 2, ctrl_recvd, ctrl_sent, Silent', none2)
          /\ Failing(new, 2, ctrl_recvd, none2) => Failing(td_token', 2, ctrl_recvd, none2)
      BY <3>4, <3>5, RoundSame
    <3>7. ASSUME \A q \in Proc : q \in Silent',
                 SumFunction(ctrl_recvd) = SumFunction(ctrl_sent)
          PROVE  MessagesOver'
      <4>1. /\ requests = {}
            /\ \A w \in Worker : answer[w] = Nothing /\ wrin[w] \notin Worker /\ pc[w] # "count"
        BY <2>5, <3>7, MessagesOverFound
      <4>2. Silent' = Proc
        BY <3>7 DEF Silent
      <4> QED
        BY <1>1, <4>1, <4>2 DEF MessagesOver
    <3>8. MessagesOver' \/ Failing(td_token', 2, ctrl_recvd, none2)
      BY <2>4, <2>6, <3>2, <3>4, <3>6, <3>7
    <3>9. PinkRound'
      BY <1>1, <2>3, <3>5, <3>6, <3>8 DEF PinkRound
    <3> QED
      BY <1>0, <1>6, <2>5, <3>5, <3>9 DEF Rounds, WhiteRound
  <2>9. CASE /\ AllConfirmed(2) /\ SumsAgree /\ my_color' = [my_color EXCEPT ![p] = Red]
             /\ Pass(p, Red, new)
    <3>1. MessagesOver
      BY <2>4, <2>7, <2>9, RoundEnds
    <3>2. td_token'.color = Red
      BY <2>9 DEF Pass
    <3> QED
      BY <1>0, <1>6, <2>5, <2>6, <3>1, <3>2 DEF Rounds, WhiteRound, PinkRound
  <2> QED
    BY <2>1, <2>8, <2>9
<1>11. CASE RedVisit(p)
  <2>1. /\ td_token.color = Red /\ my_color' = [my_color EXCEPT ![p] = Red]
        /\ td_token' = td_token \/ td_token' = [td_token EXCEPT !.at = Next1(p), !.moving = TRUE]
    BY <1>11 DEF RedVisit
  <2>2. td_token'.color = Red
    BY <1>0, <2>1
  <2>3. my_color'[p] # White /\ \A q \in Proc : q # p => my_color'[q] = my_color[q]
    BY <1>0, <2>1
  <2>4. WorkOver /\ MessagesOver
    BY <1>0, <2>1 DEF Rounds
  <2> QED
    BY <1>0, <1>6, <1>7, <2>2, <2>3, <2>4 DEF Rounds, WhiteRound, PinkRound
<1> QED
  BY <1>8, <1>9, <1>10, <1>11 DEF TokenStep

-----------------------------------------------------------------------------
(* The invariant holds *)

\* It holds in the beginning: the token has collected nothing.
LEMMA EndInvInit ==
    ASSUME OneThreadEach, Init
    PROVE  EndInv
<1>0. RingInv
  BY RingInvInit
<1>1. White # Pink /\ White # Red
  BY DEF White, Pink, Red
<1>2. /\ td_token.color = White /\ td_token.at = 0
      /\ \A p \in Proc : td_token.status[p] = 0 /\ my_color[p] = White
      /\ \A w \in Worker : pc[w] = "work" /\ ~waiting[w]
  BY DEF Init
<1>3. Holding /\ Leaving /\ Present
  BY <1>2 DEF Holding, Leaving, Present
<1>4. Colors
  BY <1>1, <1>2 DEF Colors
<1>5. CtrlAccounting
  <2>1. SumFunction(ctrl_sent) = 0 /\ SumFunction(ctrl_recvd) = 0
    <3>1. [p \in Proc |-> 0] \in [Proc -> Nat] /\ \A x \in Proc : [p \in Proc |-> 0][x] = 0
      OBVIOUS
    <3>2. SumFunction([p \in Proc |-> 0]) = 0
      BY <3>1, RingIsFinite, SumNat
    <3> QED
      BY <3>2 DEF Init
  <2>2. /\ requests = {} /\ {w \in Worker : wrin[w] \in Worker} = {}
        /\ {w \in Worker : answer[w] = 0} = {}
    BY WorkerIs DEF Init, Nothing
  <2>3. Cardinality({}) = 0
    BY FS_EmptySet
  <2> QED
    BY <2>1, <2>2, <2>3, SMTT(30) DEF CtrlAccounting
<1>6. Rounds
  <2>1. 0 \in Proc
    BY RingIs
  <2>2. Round(td_token, td_token.at, 0, chunks_recvd, chunks_sent, Idle, Landing)
    BY <1>2 DEF Round, Collecting, Ahead, Faithful
  <2>3. Failing(td_token, 0, chunks_recvd, Landing)
    BY <1>2, <2>1 DEF Failing, Collected
  <2> QED
    BY <1>1, <1>2, <2>2, <2>3 DEF Rounds, WhiteRound, PinkRound
<1> QED
  BY <1>0, <1>3, <1>4, <1>5, <1>6 DEF EndInv

\* Every step keeps it.
LEMMA EndInvStep ==
    ASSUME OneThreadEach, EndInv, [Next]_vars
    PROVE  EndInv'
<1>0. /\ TypeOK /\ TypeOK' /\ Posting /\ Serving /\ Loaded /\ AtMostOne /\ Awaited
      /\ ChunkAccounting
      /\ RingInv' /\ Holding /\ Colors /\ Leaving /\ CtrlAccounting /\ Present /\ Rounds
      /\ td_token.color = Red => MessagesOver
  <2>1. RingInv'
    BY RingInvStep DEF EndInv
  <2>2. TypeOK'
    BY <2>1 DEF RingInv
  <2> QED
    BY <2>1, <2>2 DEF EndInv, RingInv, Rounds
<1>1. ASSUME NEW w \in Worker, Step(w)
      PROVE  EndInv'
  <2>1. Holding' /\ Colors' /\ Leaving'
    BY <1>0, <1>1, HoldingOfStep
  <2>2. CtrlAccounting'
    BY <1>0, <1>1, CtrlAccountOfStep
  <2>3. Present'
    BY <1>0, <1>1, PresentOfStep
  <2>4. Rounds'
    BY <1>0, <1>1, RoundsOfStep
  <2> QED
    BY <1>0, <2>1, <2>2, <2>3, <2>4 DEF EndInv
<1>2. ASSUME NEW p \in Proc, TokenStep(p)
      PROVE  EndInv'
  BY <1>0, <1>2, HoldingOfTokenStep, MessagesOfTokenStep, RoundsOfTokenStep DEF EndInv
<1>3. ASSUME NEW p \in Proc, Deliver(p)
      PROVE  EndInv'
  <2>1. UNCHANGED <<pc, my_color, td_token, scanned, localDepth, sharedDepth, taken>>
    BY <1>3 DEF Deliver, Match, workVars, tokenVars
  <2>2. Holding' /\ Colors' /\ Leaving'
    BY <1>0, <2>1 DEF Holding, Colors, Leaving, Empty, ss_localFullDepth
  <2> QED
    BY <1>0, <1>3, <2>2, CtrlAccountOfDelivery, PresentOfDelivery, RoundsOfDelivery DEF EndInv
<1>4. CASE UNCHANGED vars
  <2>1. /\ UNCHANGED <<localDepth, sharedDepth, taken, answer, pc, my_color, td_token>>
        /\ UNCHANGED <<chunks_sent, chunks_recvd, ctrl_sent, ctrl_recvd>>
        /\ UNCHANGED <<scanned, requests, wrin, serving, waiting>>
    BY <1>4 DEF vars, workVars, askVars, netVars, countVars, tokenVars
  <2>2. Holding' /\ Colors' /\ Leaving'
    BY <1>0, <2>1 DEF Holding, Colors, Leaving, Empty, ss_localFullDepth
  <2>3. CtrlAccounting'
    BY <1>0, <2>1, CtrlAccountStays DEF Matched, Refused
  <2>4. Present'
    BY <1>0, <2>1, StillPresent DEF IsAt
  <2>5. MessagesOver => MessagesOver'
    BY <2>1 DEF MessagesOver, Silent
  <2>6. Rounds'
    BY <1>0, <2>1, <2>5, RoundsStill
  <2> QED
    BY <1>0, <2>2, <2>3, <2>4, <2>6 DEF EndInv
<1>5. CASE Done
  BY <1>4, <1>5 DEF Done
<1> QED
  BY <1>1, <1>2, <1>3, <1>4, <1>5 DEF Next

\* How the end is found out, whatever the number of processes of one thread,
\* the chunk size, the input and the recursion.
THEOREM EndInductive ==
    ASSUME OneThreadEach
    PROVE  Spec => []EndInv
<1>1. Init => EndInv
  BY EndInvInit
<1>2. EndInv /\ [Next]_vars => EndInv'
  BY EndInvStep
<1> QED
  BY <1>1, <1>2, PTL DEF Spec

-----------------------------------------------------------------------------
(* What it is good for *)

\* When a process is RED no message is left, and nobody serves anybody.
LEMMA RedIsOver ==
    ASSUME OneThreadEach, EndInv, NEW p \in Proc, my_color[p] = Red
    PROVE  MessagesOver /\ WorkOver /\ \A w \in Worker : serving[w] = Nobody
<1>1. White # Red
  BY DEF White, Red
<1>2. td_token.color = Red
  BY DEF EndInv, Colors
<1>3. MessagesOver /\ WorkOver
  BY <1>1, <1>2 DEF EndInv, Rounds
<1>4. ASSUME NEW w \in Worker
      PROVE  serving[w] = Nobody
  <2>1. w = Leader(w[1]) /\ w[1] \in Proc
    BY LeadersOnly
  <2>2. w[1] \in Silent
    BY <1>3, <2>1 DEF MessagesOver
  <2>3. pc[Leader(w[1])] \notin {"take", "send", "refuse"}
    BY <2>2 DEF Silent
  <2> QED
    BY <2>1, <2>3 DEF EndInv, RingInv, Serving
<1> QED
  BY <1>3, <1>4

\* A request that is nowhere leaves no trace ...
LEMMA NoTraces ==
    ASSUME TypeOK, NEW w \in Worker, \A x \in Spots : ~IsAt(w, x)
    PROVE  Traces(w) = 0
<1>1. \A q \in Proc : <<w, q>> \notin requests
  BY SpotsAre DEF IsAt
<1>2. \A v \in Worker : wrin[v] # w /\ serving[v] # w
  BY SpotsAre, PlacesAre
<1>3. answer[w] = Nothing /\ pc[w] # "count"
  BY SpotsAre, PlacesAre
<1>4. /\ {m \in requests : m[1] = w} = {} /\ {v \in Worker : wrin[v] = w} = {}
      /\ {v \in Worker : serving[v] = w} = {}
  BY <1>1, <1>2, TypesAre
<1>5. Cardinality({}) = 0
  BY FS_EmptySet
<1> QED
  BY <1>3, <1>4, <1>5 DEF Traces

\* ... and one that is in one place leaves one.
LEMMA OneTrace ==
    ASSUME TypeOK, AtMostOne, NEW w \in Worker, NEW x \in Spots, IsAt(w, x)
    PROVE  Traces(w) = 1
<1> DEFINE A == {m \in requests : m[1] = w}
           B == {v \in Worker : wrin[v] = w}
           C == {v \in Worker : serving[v] = w}
<1>1. /\ \A q \in Proc : <<w, q>> \in requests <=> x = <<"request", q>>
      /\ \A v \in Worker : wrin[v] = w <=> x = <<"listener", v>>
      /\ \A v \in Worker : serving[v] = w <=> x = <<"service", v>>
      /\ answer[w] # Nothing <=> x = <<"answer", 0>>
      /\ pc[w] = "count" <=> x = <<"count", 0>>
  <2>1. \A y \in Spots : IsAt(w, y) <=> x = y
    BY DEF AtMostOne
  <2> QED
    BY <2>1, SpotsAre, PlacesAre
<1>2. \A m : m \in A <=> \E q \in Proc : m = <<w, q>> /\ x = <<"request", q>>
  <2>1. \A m \in requests : m[1] = w => \E q \in Proc : m = <<w, q>>
    BY TypesAre
  <2> QED
    BY <1>1, <2>1
<1>3. /\ \A v : v \in B <=> v \in Worker /\ x = <<"listener", v>>
      /\ \A v : v \in C <=> v \in Worker /\ x = <<"service", v>>
  BY <1>1
<1> HIDE DEF A, B, C
<1>4. Cardinality({}) = 0 /\ \A e : Cardinality({e}) = 1
  BY FS_EmptySet, FS_Singleton
<1>5. \/ \E q \in Proc : x = <<"request", q>>
      \/ \E v \in Worker : x = <<"listener", v>> \/ x = <<"service", v>>
      \/ x = <<"answer", 0>> \/ x = <<"count", 0>>
  BY SpotsAre
<1>6. \E n, k, j, a, c \in {0, 1} :
         /\ Cardinality(A) = n /\ Cardinality(B) = k /\ Cardinality(C) = j
         /\ a = (IF answer[w] # Nothing THEN 1 ELSE 0)
         /\ c = (IF pc[w] = "count" THEN 1 ELSE 0)
         /\ n + k + j + a + c = 1
  <2>1. ASSUME NEW q \in Proc, x = <<"request", q>>
        PROVE  Cardinality(A) = 1 /\ B = {} /\ C = {} /\ answer[w] = Nothing /\ pc[w] # "count"
    <3>1. A = {<<w, q>>}
      BY <1>2, <2>1
    <3>2. B = {} /\ C = {} /\ answer[w] = Nothing /\ pc[w] # "count"
      BY <1>1, <1>3, <2>1
    <3> QED
      BY <1>4, <3>1, <3>2
  <2>2. ASSUME NEW v \in Worker, x = <<"listener", v>>
        PROVE  Cardinality(B) = 1 /\ A = {} /\ C = {} /\ answer[w] = Nothing /\ pc[w] # "count"
    <3>1. B = {v}
      BY <1>3, <2>2
    <3>2. A = {} /\ C = {} /\ answer[w] = Nothing /\ pc[w] # "count"
      BY <1>1, <1>2, <1>3, <2>2
    <3> QED
      BY <1>4, <3>1, <3>2
  <2>3. ASSUME NEW v \in Worker, x = <<"service", v>>
        PROVE  Cardinality(C) = 1 /\ A = {} /\ B = {} /\ answer[w] = Nothing /\ pc[w] # "count"
    <3>1. C = {v}
      BY <1>3, <2>3
    <3>2. A = {} /\ B = {} /\ answer[w] = Nothing /\ pc[w] # "count"
      BY <1>1, <1>2, <1>3, <2>3
    <3> QED
      BY <1>4, <3>1, <3>2
  <2>4. ASSUME x = <<"answer", 0>>
        PROVE  A = {} /\ B = {} /\ C = {} /\ answer[w] # Nothing /\ pc[w] # "count"
    BY <1>1, <1>2, <1>3, <2>4
  <2>5. ASSUME x = <<"count", 0>>
        PROVE  A = {} /\ B = {} /\ C = {} /\ answer[w] = Nothing /\ pc[w] = "count"
    BY <1>1, <1>2, <1>3, <2>5
  <2> QED
    BY <1>4, <1>5, <2>1, <2>2, <2>3, <2>4, <2>5
<1>7. PICK n, k, j, a, c \in {0, 1} :
         /\ Cardinality(A) = n /\ Cardinality(B) = k /\ Cardinality(C) = j
         /\ a = (IF answer[w] # Nothing THEN 1 ELSE 0)
         /\ c = (IF pc[w] = "count" THEN 1 ELSE 0)
         /\ n + k + j + a + c = 1
  BY <1>6
<1>8. Traces(w) = n + k + j + a + c
  <2>1. Traces(w) = n + k + j + (IF answer[w] # Nothing THEN 1 ELSE 0)
                      + (IF pc[w] = "count" THEN 1 ELSE 0)
    BY <1>7, Zenon DEF Traces, A, B, C
  <2> QED
    BY <1>7, <2>1
<1> QED
  BY <1>7, <1>8

\* Answers are told apart by the thread number in their tag only: a waiting
\* thread gets exactly one, and nobody else gets any.
THEOREM AnswersAreUnique ==
    ASSUME OneThreadEach
    PROVE  Spec => []OneAnswerEach
<1>1. EndInv => OneAnswerEach
  <2> SUFFICES ASSUME EndInv, NEW w \in Worker
               PROVE  Traces(w) = IF waiting[w] THEN 1 ELSE 0
    BY DEF OneAnswerEach
  <2>0. /\ TypeOK /\ AtMostOne /\ Awaited /\ Present /\ Leaving /\ w[1] \in Proc
        /\ \A v \in Worker : v[1] \in Proc
    BY LeadersOnly DEF EndInv, RingInv
  <2>1. ASSUME waiting[w]
        PROVE  Traces(w) = 1
    <3>1. PICK x \in Spots : IsAt(w, x)
      BY <2>0, <2>1 DEF Present
    <3> QED
      BY <2>0, <3>1, OneTrace
  <2>2. ASSUME ~waiting[w]
        PROVE  Traces(w) = 0
    <3>1. ASSUME NEW x \in Spots, IsAt(w, x)
          PROVE  FALSE
      <4>1. my_color[w[1]] = Red
        BY <2>0, <2>2, <3>1 DEF Awaited, Leaving
      <4>2. MessagesOver /\ \A v \in Worker : serving[v] = Nobody
        BY <2>0, <4>1, RedIsOver
      <4>3. /\ requests = {} /\ answer[w] = Nothing /\ pc[w] # "count"
            /\ \A v \in Worker : wrin[v] # w /\ serving[v] # w
        BY <4>2, WorkerIs DEF MessagesOver
      <4>4. x[1] \in {"listener", "service"} => x[2] \in Worker
        BY <3>1 DEF Spots
      <4> QED
        BY <3>1, <4>3, <4>4 DEF IsAt
    <3> QED
      BY <2>0, <3>1, NoTraces
  <2> QED
    BY <2>1, <2>2
<1> QED
  BY <1>1, EndInductive, PTL

\* "This is safe now that the pink token has mopped up all outstanding
\* messages": when a process is RED nothing is unfinished anywhere.
THEOREM MessagesAreMoppedUp ==
    ASSUME OneThreadEach
    PROVE  Spec => []MoppedUp
<1>1. EndInv => MoppedUp
  <2> SUFFICES ASSUME EndInv, NEW p \in Proc, my_color[p] = Red
               PROVE  /\ requests = {}
                      /\ \A w \in Worker : /\ answer[w] = Nothing
                                           /\ wrin[w] \notin Worker
                                           /\ serving[w] = Nobody
    BY DEF MoppedUp
  <2> QED
    BY RedIsOver DEF MessagesOver
<1> QED
  BY <1>1, EndInductive, PTL

\* When all threads have left, every problem of the run has been processed.
THEOREM AllIsProcessed ==
    ASSUME OneThreadEach
    PROVE  Spec => []AllProcessed
<1>1. EndInv => AllProcessed
  <2> SUFFICES ASSUME EndInv, AllEnded
               PROVE  processed = created
    BY DEF AllProcessed
  <2>0. TypeOK /\ WorkConserved /\ Leaving
    BY DEF EndInv, RingInv
  <2>1. 0 \in Proc /\ Leader(0) \in Worker /\ Leader(0)[1] = 0
    BY RingIs, LeadersOnly
  <2>2. my_color[0] = Red
    BY <2>0, <2>1 DEF AllEnded, Leaving
  <2>3. WorkOver
    BY <2>1, <2>2, RedIsOver
  <2>4. /\ localDepth \in [Worker -> Nat] /\ sharedDepth \in [Worker -> Nat]
        /\ answer \in [Worker -> {Nothing, 0, MessageSize}] /\ MessageSize \in Nat \ {0}
    BY <2>0, TypesAre, SizesAre
  <2>5. ASSUME NEW w \in Worker
        PROVE  Loads[w] = 0 /\ Afloat[w] = 0
    <3>1. ss_localFullDepth(w) = 0 /\ taken[w] = 0
      BY <2>3 DEF WorkOver, Empty
    <3>2. answer[w] = Nothing \/ answer[w] = 0
      BY <2>3, <2>4 DEF WorkOver
    <3> QED
      BY <3>1, <3>2 DEF Loads, Afloat
  <2>6. Loads \in [Worker -> Nat] /\ Afloat \in [Worker -> Nat]
    BY <2>5 DEF Loads, Afloat
  <2>7. Total(Loads) = 0 /\ Total(Afloat) = 0
    BY <2>5, <2>6, TotalIsNat
  <2>8. SumFunction(Held) = 0 /\ SumFunction(Flying) = 0
    BY <2>7, SumsAreTotals DEF Total
  <2> QED
    BY <2>0, <2>8 DEF WorkConserved, TypeOK
<1> QED
  BY <1>1, EndInductive, PTL

-----------------------------------------------------------------------------
(* The processes share work as DistributedPool says *)

\* What the steps of DistributedPool see of a step of a thread: the work of one
\* process changes by what its thread has gained or lost, and what is on its
\* way to one process by what its thread is sent.
LEMMA HeldChanges ==
    ASSUME TypeOK, TypeOK', NEW w \in Worker, NEW r \in Worker,
           \A u \in Worker \ {w} : Loads'[u] = Loads[u],
           \A u \in Worker \ {r} : Afloat'[u] = Afloat[u]
    PROVE  /\ Held \in [Proc -> Nat] /\ Held' \in [Proc -> Nat]
           /\ Flying \in [Proc -> Nat] /\ Flying' \in [Proc -> Nat]
           /\ w[1] \in Proc /\ r[1] \in Proc
           /\ \A p \in Proc \ {w[1]} : Held'[p] = Held[p]
           /\ Held'[w[1]] - Held[w[1]] = Loads'[w] - Loads[w]
           /\ \A p \in Proc \ {r[1]} : Flying'[p] = Flying[p]
           /\ Flying'[r[1]] - Flying[r[1]] = Afloat'[r] - Afloat[r]
           /\ Loads[w] # 0 => Held[w[1]] # 0
<1>1. /\ Loads \in [Worker -> Nat] /\ Afloat \in [Worker -> Nat]
      /\ Loads' \in [Worker -> Nat] /\ Afloat' \in [Worker -> Nat]
  BY WorkIs
<1>2. /\ Held = Of(Loads) /\ Flying = Of(Afloat)
      /\ Held' = Of(Loads') /\ Flying' = Of(Afloat')
  BY SumsAreTotals
<1>3. w[1] \in Proc /\ r[1] \in Proc /\ w[2] \in Thread(w[1]) /\ w = <<w[1], w[2]>>
  BY WorkerIs
<1>4. PICK f \in [Worker -> Nat] : f = Loads
  BY <1>1
<1>5. PICK g \in [Worker -> Nat] : g = Loads'
  BY <1>1
<1>6. /\ Of(f) \in [Proc -> Nat] /\ Of(g) \in [Proc -> Nat]
      /\ \A p \in Proc \ {w[1]} : Of(g)[p] = Of(f)[p]
      /\ Of(g)[w[1]] - Of(f)[w[1]] = g[w] - f[w]
      /\ f[w] # 0 => Of(f)[w[1]] # 0
  <2>1. \A u \in Worker \ {w} : g[u] = f[u]
    BY <1>4, <1>5
  <2>2. /\ \A p \in Proc \ {w[1]} : Of(g)[p] = Of(f)[p]
        /\ Of(g)[w[1]] - Of(f)[w[1]] = g[w] - f[w]
    BY <2>1, TotalOneChange
  <2>3. /\ Of(f) \in [Proc -> Nat] /\ Of(g) \in [Proc -> Nat]
        /\ Of(f)[w[1]] = 0 <=> \A t \in Thread(w[1]) : f[<<w[1], t>>] = 0
    BY <1>3, TotalIsNat
  <2> QED
    BY <1>3, <2>2, <2>3
<1>7. PICK a \in [Worker -> Nat] : a = Afloat
  BY <1>1
<1>8. PICK b \in [Worker -> Nat] : b = Afloat'
  BY <1>1
<1>9. /\ Of(a) \in [Proc -> Nat] /\ Of(b) \in [Proc -> Nat]
      /\ \A p \in Proc \ {r[1]} : Of(b)[p] = Of(a)[p]
      /\ Of(b)[r[1]] - Of(a)[r[1]] = b[r] - a[r]
  <2>1. \A u \in Worker \ {r} : b[u] = a[u]
    BY <1>7, <1>8
  <2> QED
    BY <2>1, TotalOneChange, TotalIsNat
<1>10. Held = Of(f) /\ Held' = Of(g) /\ Flying = Of(a) /\ Flying' = Of(b)
  BY <1>2, <1>4, <1>5, <1>7, <1>8, Zenon
<1>11. f[w] = Loads[w] /\ g[w] = Loads'[w] /\ a[r] = Afloat[r] /\ b[r] = Afloat'[r]
  BY <1>4, <1>5, <1>7, <1>8, Zenon
<1> QED
  BY <1>3, <1>6, <1>9, <1>10, <1>11, Zenon

\* A step of a thread is a step of DistributedPool, or none.
LEMMA StepRefines ==
    ASSUME OneThreadEach, TypeOK, TypeOK', Serving, Loaded, AtMostOne, NEW w \in Worker, Step(w)
    PROVE  DP!DPNext \/ UNCHANGED DP!dpVars
<1> USE DEF Goto
<1>0. /\ localDepth \in [Worker -> Nat] /\ sharedDepth \in [Worker -> Nat]
      /\ taken \in [Worker -> {0, MessageSize}] /\ MessageSize \in Nat \ {0}
      /\ answer \in [Worker -> {Nothing, 0, MessageSize}]
      /\ Siblings(w) = {} /\ \A v \in Worker : v[1] = w[1] => v = w
      /\ ChunkSize \in Nat \ {0} /\ w[1] \in Proc /\ Nothing # 0
      /\ serving \in [Worker -> Worker \cup {Nobody}]
  BY TypesAre, SizesAre, LeadersOnly DEF Nothing
<1>00. \A m \in Nat \ {0}, a, b \in Nat :
           /\ b - a = 0 - m => m \in 1 .. a /\ b = a - m
           /\ b - a = m => b = a + m
  OBVIOUS
<1>1. UNCHANGED my_color
  BY OthersStill DEF tokenVars
<1>2. \A u \in Worker :
          /\ Loads[u] = localDepth[u] + sharedDepth[u] + taken[u]
          /\ Loads'[u] = localDepth'[u] + sharedDepth'[u] + taken'[u]
          /\ Afloat[u] = IF answer[u] = Nothing THEN 0 ELSE answer[u]
          /\ Afloat'[u] = IF answer'[u] = Nothing THEN 0 ELSE answer'[u]
  BY DEF Loads, Afloat, ss_localFullDepth
<1>3. \A u \in Worker \ {w} : Loads'[u] = Loads[u]
  BY <1>2, OthersStill
<1>4. ASSUME Loads'[w] = Loads[w], \A u \in Worker : Afloat'[u] = Afloat[u]
      PROVE  UNCHANGED DP!dpVars
  <2>1. Loads' = Loads /\ Afloat' = Afloat
    <3>1. \A u \in Worker : Loads'[u] = Loads[u]
      BY <1>3, <1>4
    <3> QED
      BY <1>4, <3>1 DEF Loads, Afloat
  <2>2. Held' = Held /\ Flying' = Flying
    BY <2>1, SumsAreTotals
  <2> QED
    BY <1>1, <2>2 DEF DP!dpVars
<1>5. ASSUME UNCHANGED <<localDepth, sharedDepth, taken, answer>>
      PROVE  UNCHANGED DP!dpVars
  BY <1>2, <1>4, <1>5
<1>6. ASSUME UNCHANGED answer, Loads[w] # 0, Loads'[w] >= Loads[w] - 1
      PROVE  DP!DPNext
  <2>1. \A u \in Worker : Afloat'[u] = Afloat[u]
    BY <1>2, <1>6
  <2>2. /\ Held \in [Proc -> Nat] /\ Held' \in [Proc -> Nat]
        /\ \A p \in Proc \ {w[1]} : Held'[p] = Held[p]
        /\ Held'[w[1]] - Held[w[1]] = Loads'[w] - Loads[w]
        /\ Held[w[1]] # 0
    BY <1>3, <1>6, <2>1, HeldChanges
  <2>3. Loads[w] \in Nat /\ Loads'[w] \in Nat
    BY WorkIs
  <2>4. Held[w[1]] > 0 /\ Held'[w[1]] >= Held[w[1]] - 1
    <3>1. Held[w[1]] \in Nat /\ Held'[w[1]] \in Nat
      BY <1>0, <2>2
    <3> QED
      BY <1>6, <2>2, <2>3, <3>1
  <2>5. Flying' = Flying
    <3>1. Afloat' = Afloat
      BY <2>1 DEF Afloat
    <3> QED
      BY <3>1, SumsAreTotals
  <2>6. DP!Work(w[1])
    BY <1>1, <2>2, <2>4, <2>5 DEF DP!Work
  <2> QED
    BY <1>0, <2>6 DEF DP!DPNext
<1>7. CASE SolveBase(w)
  <2>1. /\ localDepth[w] > 0 /\ localDepth' = [localDepth EXCEPT ![w] = @ - 1]
        /\ UNCHANGED <<sharedDepth, taken, answer>>
    BY <1>7 DEF SolveBase, netVars
  <2>2. Loads[w] # 0 /\ Loads'[w] >= Loads[w] - 1
    <3>1. localDepth'[w] = localDepth[w] - 1 /\ sharedDepth'[w] = sharedDepth[w] /\ taken'[w] = taken[w]
      BY <1>0, <2>1
    <3>2. localDepth[w] \in Nat /\ sharedDepth[w] \in Nat /\ taken[w] \in Nat
      BY <1>0
    <3> QED
      BY <1>2, <2>1, <3>1, <3>2
  <2> QED
    BY <1>6, <2>1, <2>2
<1>8. ASSUME NEW k \in Fanout, Expand(w, k)
      PROVE  DP!DPNext
  <2> DEFINE depth == localDepth[w] - 1 + k
             kept == IF depth > 2 * ChunkSize THEN depth % ChunkSize ELSE depth
  <2>1. /\ localDepth[w] > 0 /\ localDepth' = [localDepth EXCEPT ![w] = kept]
        /\ sharedDepth' = [sharedDepth EXCEPT ![w] = @ + depth - kept]
        /\ UNCHANGED <<taken, answer>>
    BY <1>8 DEF Expand, netVars
  <2>2. k \in Nat
    BY RingAssumption
  <2>3. depth \in Nat
    BY <1>0, <2>1, <2>2
  <2>4. kept \in Int
    <3>1. depth % ChunkSize \in Int
      BY <1>0, <2>3
    <3> QED
      BY <2>3, <3>1
  <2>5. Loads[w] # 0 /\ Loads'[w] >= Loads[w] - 1
    <3>1. /\ localDepth'[w] = kept /\ sharedDepth'[w] = sharedDepth[w] + depth - kept
          /\ taken'[w] = taken[w]
      BY <1>0, <2>1, Zenon
    <3> HIDE DEF kept
    <3>2. localDepth[w] \in Nat /\ sharedDepth[w] \in Nat /\ taken[w] \in Nat
      BY <1>0
    <3> QED
      BY <1>2, <2>1, <2>2, <2>4, <3>1, <3>2
  <2> QED
    BY <1>6, <2>1, <2>5
<1>9. CASE Acquire(w)
  <2>1. /\ \/ /\ localDepth[w] = 0 /\ sharedDepth[w] >= ChunkSize
              /\ localDepth' = [localDepth EXCEPT ![w] = ChunkSize]
              /\ sharedDepth' = [sharedDepth EXCEPT ![w] = @ - ChunkSize]
           \/ UNCHANGED <<localDepth, sharedDepth>>
        /\ UNCHANGED <<taken, answer>>
    BY <1>9 DEF Acquire, netVars
  <2>2. localDepth[w] \in Nat /\ sharedDepth[w] \in Nat /\ taken[w] \in Nat
    BY <1>0
  <2>3. Loads'[w] = Loads[w] /\ \A u \in Worker : Afloat'[u] = Afloat[u]
    BY <1>0, <1>2, <2>1, <2>2
  <2> QED
    BY <1>4, <2>3
<1>10. ASSUME NEW v \in Worker, TakeForRemote(w, v)
       PROVE  UNCHANGED DP!dpVars
  <2>1. /\ pc[w] = "take" /\ sharedDepth' = [sharedDepth EXCEPT ![w] = @ - MessageSize]
        /\ taken' = [taken EXCEPT ![w] = MessageSize] /\ UNCHANGED <<localDepth, answer>>
    BY <1>0, <1>10 DEF TakeForRemote, netVars
  <2>2. localDepth[w] \in Nat /\ sharedDepth[w] \in Nat /\ taken[w] = 0
    BY <1>0, <2>1 DEF Loaded
  <2>3. Loads'[w] = Loads[w] /\ \A u \in Worker : Afloat'[u] = Afloat[u]
    BY <1>0, <1>2, <2>1, <2>2
  <2> QED
    BY <1>4, <2>3
<1>11. CASE SendWork(w)
  <2>1. PICK r \in Worker : r = serving[w]
    BY <1>0, <1>11 DEF SendWork, Serving
  <2>2. answer[r] = Nothing
    BY <2>1, ServedHasNoAnswer
  <2>3. /\ taken[w] = MessageSize /\ taken' = [taken EXCEPT ![w] = 0]
        /\ answer' = [answer EXCEPT ![r] = MessageSize] /\ UNCHANGED <<localDepth, sharedDepth>>
    BY <1>11, <2>1 DEF SendWork, Loaded, workVars
  <2>4. /\ \A u \in Worker \ {r} : Afloat'[u] = Afloat[u]
        /\ Afloat[r] = 0 /\ Afloat'[r] = MessageSize
    BY <1>0, <1>2, <2>2, <2>3 DEF Nothing
  <2>5. Loads'[w] - Loads[w] = 0 - MessageSize
    <3>1. localDepth[w] \in Nat /\ sharedDepth[w] \in Nat /\ taken'[w] = 0
      BY <1>0, <2>3
    <3> QED
      BY <1>0, <1>2, <2>3, <3>1
  <2>6. /\ Held \in [Proc -> Nat] /\ Held' \in [Proc -> Nat]
        /\ Flying \in [Proc -> Nat] /\ Flying' \in [Proc -> Nat]
        /\ w[1] \in Proc /\ r[1] \in Proc
        /\ \A p \in Proc \ {w[1]} : Held'[p] = Held[p]
        /\ Held'[w[1]] - Held[w[1]] = 0 - MessageSize
        /\ \A p \in Proc \ {r[1]} : Flying'[p] = Flying[p]
        /\ Flying'[r[1]] - Flying[r[1]] = MessageSize
    BY <1>0, <1>3, <2>4, <2>5, HeldChanges
  <2>7. /\ Held[w[1]] \in Nat /\ Held'[w[1]] \in Nat
        /\ Flying[r[1]] \in Nat /\ Flying'[r[1]] \in Nat
    BY <2>6
  <2>8. /\ MessageSize \in 1 .. Held[w[1]] /\ Held'[w[1]] = Held[w[1]] - MessageSize
        /\ Flying'[r[1]] = Flying[r[1]] + MessageSize
    <3>1. MessageSize \in Nat \ {0}
      BY <1>0
    <3>2. MessageSize \in 1 .. Held[w[1]] /\ Held'[w[1]] = Held[w[1]] - MessageSize
      BY <1>00, <2>6, <2>7, <3>1
    <3>3. Flying'[r[1]] = Flying[r[1]] + MessageSize
      BY <1>00, <2>6, <2>7, <3>1, Zenon
    <3> QED
      BY <3>2, <3>3
  <2>9. /\ Held' = [Held EXCEPT ![w[1]] = @ - MessageSize]
        /\ Flying' = [Flying EXCEPT ![r[1]] = @ + MessageSize]
    BY <2>6, <2>8
  <2>10. DP!Ship(w[1], r[1])
    BY <1>1, <2>8, <2>9 DEF DP!Ship
  <2> QED
    BY <2>6, <2>10 DEF DP!DPNext
<1>12. CASE ReceiveWork(w)
  <2>1. /\ answer[w] > 0 /\ answer' = [answer EXCEPT ![w] = Nothing]
        /\ localDepth' = [localDepth EXCEPT ![w] = @ + answer[w]]
        /\ UNCHANGED <<sharedDepth, taken>>
    BY <1>12 DEF ReceiveWork
  <2>2. answer[w] = MessageSize
    BY <1>0, <2>1 DEF Nothing
  <2>3. /\ \A u \in Worker \ {w} : Afloat'[u] = Afloat[u]
        /\ Afloat[w] = MessageSize /\ Afloat'[w] = 0
    BY <1>0, <1>2, <2>1, <2>2 DEF Nothing
  <2>4. Loads'[w] - Loads[w] = MessageSize
    <3>1. localDepth[w] \in Nat /\ sharedDepth[w] \in Nat /\ taken[w] \in Nat
      BY <1>0
    <3>2. localDepth'[w] = localDepth[w] + MessageSize
      BY <1>0, <2>1, <2>2
    <3> QED
      BY <1>0, <1>2, <2>1, <3>1, <3>2
  <2>5. /\ Held \in [Proc -> Nat] /\ Held' \in [Proc -> Nat]
        /\ Flying \in [Proc -> Nat] /\ Flying' \in [Proc -> Nat]
        /\ \A p \in Proc \ {w[1]} : Held'[p] = Held[p]
        /\ Held'[w[1]] - Held[w[1]] = MessageSize
        /\ \A p \in Proc \ {w[1]} : Flying'[p] = Flying[p]
        /\ Flying'[w[1]] - Flying[w[1]] = 0 - MessageSize
    BY <1>0, <1>3, <2>3, <2>4, HeldChanges
  <2>6. /\ Held[w[1]] \in Nat /\ Held'[w[1]] \in Nat
        /\ Flying[w[1]] \in Nat /\ Flying'[w[1]] \in Nat
    BY <1>0, <2>5
  <2>7. /\ MessageSize \in 1 .. Flying[w[1]] /\ Held'[w[1]] = Held[w[1]] + MessageSize
        /\ Flying'[w[1]] = Flying[w[1]] - MessageSize
    <3>1. MessageSize \in Nat \ {0}
      BY <1>0
    <3>2. MessageSize \in 1 .. Flying[w[1]] /\ Flying'[w[1]] = Flying[w[1]] - MessageSize
      BY <1>00, <2>5, <2>6, <3>1
    <3>3. Held'[w[1]] = Held[w[1]] + MessageSize
      BY <1>00, <2>5, <2>6, <3>1, Zenon
    <3> QED
      BY <3>2, <3>3
  <2>8. /\ Held' = [Held EXCEPT ![w[1]] = @ + MessageSize]
        /\ Flying' = [Flying EXCEPT ![w[1]] = @ - MessageSize]
    BY <2>5, <2>7
  <2>9. DP!Land(w[1])
    BY <1>1, <2>7, <2>8 DEF DP!Land
  <2> QED
    BY <1>0, <2>9 DEF DP!DPNext
<1>13. CASE ReceiveRefusal(w)
  <2>1. /\ answer[w] = 0 /\ answer' = [answer EXCEPT ![w] = Nothing]
        /\ UNCHANGED <<localDepth, sharedDepth, taken>>
    BY <1>13 DEF ReceiveRefusal, workVars
  <2>2. Loads'[w] = Loads[w] /\ \A u \in Worker : Afloat'[u] = Afloat[u]
    BY <1>0, <1>2, <2>1
  <2> QED
    BY <1>4, <2>2
<1>14. CASE Refuse(w)
  <2>1. PICK r \in Worker : r = serving[w]
    BY <1>0, <1>14 DEF Refuse, Serving
  <2>2. answer[r] = Nothing
    BY <2>1, ServedHasNoAnswer
  <2>3. answer' = [answer EXCEPT ![r] = 0] /\ UNCHANGED <<localDepth, sharedDepth, taken>>
    BY <1>14, <2>1 DEF Refuse, workVars
  <2>4. Loads'[w] = Loads[w] /\ \A u \in Worker : Afloat'[u] = Afloat[u]
    BY <1>0, <1>2, <2>2, <2>3
  <2> QED
    BY <1>4, <2>4
<1>15. CASE \/ NothingHere(w) \/ GetWork(w) \/ Post(w) \/ CountWork(w) \/ NoAnswer(w)
            \/ NoRequest(w) \/ Accept(w) \/ NothingForRemote(w) \/ SkipToken(w)
            \/ Clear(w) \/ End(w)
  <2>1. UNCHANGED <<localDepth, sharedDepth, taken, answer>>
    BY <1>15 DEF NothingHere, GetWork, Post, CountWork, NoAnswer, NoRequest, Accept,
                 NothingForRemote, SkipToken, Clear, End, workVars, netVars
  <2> QED
    BY <1>5, <2>1
<1> QED
  BY <1>0, <1>7, <1>8, <1>9, <1>10, <1>11, <1>12, <1>13, <1>14, <1>15 DEF Step

\* A visit of the token declares the end when no work is left, or nothing.
LEMMA TokenRefines ==
    ASSUME OneThreadEach, EndInv, EndInv', NEW p \in Proc, TokenStep(p)
    PROVE  DP!DPNext \/ UNCHANGED DP!dpVars
<1> DEFINE declared == \E q \in Proc : my_color[q] # White
<1>0. /\ TypeOK /\ TypeOK' /\ my_color \in [Proc -> {White, Pink, Red}]
      /\ White # Pink /\ White # Red
  BY DEF EndInv, RingInv, TypeOK, White, Pink, Red
<1>1. UNCHANGED <<localDepth, sharedDepth, taken, answer>>
  BY <1>0, TokenStill DEF EndInv
<1>2. Loads' = Loads /\ Afloat' = Afloat
  BY <1>1 DEF Loads, Afloat, ss_localFullDepth
<1>3. Held' = Held /\ Flying' = Flying
  BY <1>2, SumsAreTotals
<1>4. declared => declared'
  <2>1. \A q \in Proc : my_color[q] # White => my_color'[q] # White
    <3>1. /\ \/ my_color' = my_color
             \/ \E c \in {Pink, Red} : my_color' = [my_color EXCEPT ![p] = c]
      BY DEF TokenStep, TakeToken, Scan, WhiteVisit, PinkVisit, RedVisit
    <3> QED
      BY <1>0, <3>1
  <2> QED
    BY <2>1
<1>5. ASSUME declared'
      PROVE  DP!NothingLeft
  <2>1. td_token'.color # White
    BY <1>5 DEF EndInv, Colors
  <2>2. WorkOver'
    BY <2>1 DEF EndInv, Rounds
  <2>3. ASSUME NEW w \in Worker
        PROVE  Loads[w] = 0 /\ Afloat[w] = 0
    <3>1. localDepth[w] + sharedDepth[w] = 0 /\ taken[w] = 0 /\ ~(answer[w] > 0)
      BY <1>1, <2>2 DEF WorkOver, Empty, ss_localFullDepth
    <3>2. answer[w] \in {Nothing, 0, MessageSize} /\ MessageSize > 0
      BY <1>0, TypesAre, SizesAre
    <3> QED
      BY <3>1, <3>2 DEF Loads, Afloat, ss_localFullDepth
  <2>4. Loads \in [Worker -> Nat] /\ Afloat \in [Worker -> Nat]
    BY <1>0, WorkIs
  <2>5. \A q \in Proc : \A t \in Thread(q) : <<q, t>> \in Worker
    BY WorkerIs
  <2>6. \A q \in Proc : Of(Loads)[q] = 0 /\ Of(Afloat)[q] = 0
    BY <2>3, <2>4, <2>5, TotalIsNat
  <2> QED
    BY <2>6, SumsAreTotals DEF DP!NothingLeft
<1>6. CASE declared'
  BY <1>3, <1>5, <1>6 DEF DP!DPNext, DP!Declare
<1>7. CASE ~declared'
  <2>1. ~declared
    BY <1>4, <1>7
  <2> QED
    BY <1>3, <1>7, <2>1 DEF DP!dpVars
<1> QED
  BY <1>6, <1>7

\* No process turns PINK while one of them has work or a work message is under
\* way: the processes do what DistributedPool promises.
THEOREM RingImplementsPool ==
    ASSUME OneThreadEach
    PROVE  Spec => ImplementsPool
<1>1. Init => DP!DPInit
  <2> SUFFICES ASSUME Init
               PROVE  DP!DPInit
    OBVIOUS
  <2>1. Held = First /\ Flying = [p \in Proc |-> 0]
    BY WorkOfInit
  <2>2. ~ \E p \in Proc : my_color[p] # White
    BY DEF Init
  <2> QED
    BY <2>1, <2>2 DEF DP!DPInit
<1>2. EndInv /\ EndInv' /\ [Next]_vars => [DP!DPNext]_(DP!dpVars)
  <2> SUFFICES ASSUME EndInv, EndInv', [Next]_vars
               PROVE  DP!DPNext \/ UNCHANGED DP!dpVars
    OBVIOUS
  <2>0. TypeOK /\ TypeOK' /\ Serving /\ Loaded /\ AtMostOne
    BY DEF EndInv, RingInv
  <2>1. ASSUME UNCHANGED <<localDepth, sharedDepth, taken, answer, my_color>>
        PROVE  UNCHANGED DP!dpVars
    <3>1. Loads' = Loads /\ Afloat' = Afloat
      BY <2>1 DEF Loads, Afloat, ss_localFullDepth
    <3>2. Held' = Held /\ Flying' = Flying
      BY <3>1, SumsAreTotals
    <3> QED
      BY <2>1, <3>2 DEF DP!dpVars
  <2>2. ASSUME NEW w \in Worker, Step(w)
        PROVE  DP!DPNext \/ UNCHANGED DP!dpVars
    BY <2>0, <2>2, StepRefines
  <2>3. ASSUME NEW p \in Proc, TokenStep(p)
        PROVE  DP!DPNext \/ UNCHANGED DP!dpVars
    BY <2>3, TokenRefines
  <2>4. ASSUME NEW p \in Proc, Deliver(p)
        PROVE  UNCHANGED DP!dpVars
    BY <2>1, <2>4 DEF Deliver, Match, workVars, tokenVars
  <2>5. CASE UNCHANGED vars
    BY <2>1, <2>5 DEF vars, workVars, netVars, tokenVars
  <2>6. CASE Done
    BY <2>5, <2>6 DEF Done
  <2> QED
    BY <2>2, <2>3, <2>4, <2>5, <2>6 DEF Next
<1> QED
  BY <1>1, <1>2, EndInductive, PTL DEF Spec, ImplementsPool, DP!DPSpec
=============================================================================
