------------------------- MODULE CallSequenceProofs -------------------------
(***************************************************************************)
(* Calls of dparallel_recursion in a row, for every number of processes,   *)
(* every program, and whatever the shares by cost are, as long as each     *)
(* problem has one owner: messages of different calls do not mix, rank 0   *)
(* reduces the results of its own call, and nobody waits for ever.         *)
(***************************************************************************)
EXTENDS CallSequence, LibraryTheorems

-----------------------------------------------------------------------------
(* The invariant *)

\* the calls of the program
Calls == 1 .. Len(program)

\* the results of a rank's problems in call k
Solved(k, r) == [i \in 1 .. nLocalElems(k, r) |-> <<k, firstGlobalElem(k, r) + i - 1>>]

\* what rank r sends in call k: how many messages, the g-th of them, and what
\* the first g count for
Chunks(k) == IF program[k].chunked /\ ~program[k].collective THEN 1 ELSE 0
PerProblem(k) ==
    (IF program[k].chunked \/ program[k].collective THEN 0 ELSE 1)
        + (IF program[k].inputs THEN 1 ELSE 0)
Length(k, r) ==
    IF program[k].end = "none" THEN 0 ELSE Chunks(k) + PerProblem(k) * nLocalElems(k, r)
ProblemOf(k, g) == (g - Chunks(k) - 1) \div PerProblem(k)
Sends(k, r, g) ==
    IF g <= Chunks(k)
    THEN [input |-> FALSE, tag |-> firstGlobalElem(k, r), data |-> Solved(k, r), call |-> k]
    ELSE [input |-> program[k].inputs /\ (g - Chunks(k) - 1) % PerProblem(k) = 0,
          tag |-> firstGlobalElem(k, r) + ProblemOf(k, g),
          data |-> <<Solved(k, r)[ProblemOf(k, g) + 1]>>, call |-> k]
Weight(k, r, g) == IF Chunks(k) = 1 /\ g > 0 THEN nLocalElems(k, r) + g - 1 ELSE g

Labels == {"distribute", "gather", "results", "end", "done"}

RankOK(r, k, p, c, l) ==
    /\ k \in 1 .. Len(program) + 1 /\ p \in Labels /\ c \in Nat
    /\ (p = "done") <=> (k = Len(program) + 1)
    /\ p = "gather" => program[k].end # "none" /\ program[k].collective /\ c = 0
    /\ p = "results" => program[k].end # "none"
    /\ p \in {"gather", "results", "end"} => l = Solved(k, r)
    /\ r = 0 /\ p = "distribute" => c = 0
    /\ r # 0 /\ p = "distribute" =>
          /\ c <= (IF Deals(k, 0) THEN nLocalElems(k, r) ELSE 0)
          /\ l = [i \in 1 .. c |-> <<k, firstGlobalElem(k, r) + i - 1>>]
    /\ r # 0 /\ p = "results" => c <= Length(k, r)

RootOK(k, p, c, d, res) ==
    /\ p \in {"distribute", "gather"} => res = <<>>
    /\ p = "results" /\ res = <<>> => c = 0 /\ ~program[k].collective
    /\ p = "results" /\ res # <<>> => DOMAIN res = 0 .. nGlobalElems(k) - 1
    /\ \A s \in Workers :
          /\ d[s] \in Nat
          /\ p # "done" /\ ~Deals(k, 0) => d[s] = 0
          /\ p # "done" /\ Deals(k, 0) => d[s] <= nLocalElems(k, s)
          /\ p \notin {"done", "distribute"} /\ Deals(k, 0) => d[s] = nLocalElems(k, s)

PostedOK(k, p, x) ==
    /\ x \in Nat
    /\ p \in {"results", "end"} /\ program[k].end # "none" /\ program[k].collective => x >= k

PlacesOK ==
    /\ \A r \in Ranks : RankOK(r, call[r], pc[r], count[r], local[r])
    /\ RootOK(call[0], pc[0], count[0], dealt, results)
    /\ \A r \in Workers : PostedOK(call[r], pc[r], posted[r])

Over(r, k) == call[r] > k \/ (call[r] = k /\ pc[r] = "end")

EndsOK ==
    \A q \in Ranks : \A k \in Calls : call[q] > k =>
        /\ program[k].end = "barrier" => \A r \in Ranks : Over(r, k)
        /\ program[k].end # "none" => Over(0, k)

SentBy(r, k, p, c) == IF p = "results" THEN c ELSE IF p = "end" THEN Length(k, r) ELSE 0
\* how many of them rank 0 has received, of a rank with call k, label p, count
\* c and outbox o
GotAs(r, k, p, c, o, j) ==
    IF k > j THEN Length(j, r) ELSE IF k = j THEN SentBy(r, j, p, c) - Len(o) ELSE 0
GotOf(r, j) == GotAs(r, call[r], pc[r], count[r], outbox[r], j)

OutOK(r, k, s, o) ==
    /\ \E M : o \in Seq(M)
    /\ Len(o) <= s
    /\ \A i \in 1 .. Len(o) : o[i] = Sends(k, r, s - Len(o) + i)

Collected == [r \in Workers |-> Weight(call[0], r, GotOf(r, call[0]))]

FlowsOK ==
    /\ \A r \in Workers :
          OutOK(r, call[r], SentBy(r, call[r], pc[r], count[r]), outbox[r])
    /\ \A r \in Workers : call[r] > call[0] =>
          Len(outbox[r]) = SentBy(r, call[r], pc[r], count[r])
    /\ \A r \in Workers : \A k \in Calls : Over(0, k) => GotOf(r, k) = Length(k, r)
    /\ pc[0] # "done" => count[0] = SumFunction(Collected)

DealtTo(r, k) ==
    IF ~Deals(k, 0) \/ k > call[0] THEN 0
    ELSE IF k = call[0] THEN dealt[r] ELSE nLocalElems(k, r)
TakenBy(r, k) ==
    IF ~Deals(k, 0) \/ k > call[r] THEN 0
    ELSE IF k = call[r] /\ pc[r] = "distribute" THEN count[r] ELSE nLocalElems(k, r)

\* what is in a worker's inbox b, whose first problem in call k is f[k]: those
\* from its T[k]-th problem up to its D[k]-th, call after call
OnlySent(f, b, T, D) ==
    \A x \in 1 .. Len(b) : \E k \in Calls, i \in Nat :
        b[x] = <<k, f[k] + i>> /\ T[k] <= i /\ i < D[k]
AllSent(f, b, T, D) ==
    \A k \in Calls : \A i \in Nat : T[k] <= i /\ i < D[k] =>
        \E x \in 1 .. Len(b) : b[x] = <<k, f[k] + i>>
InOrder(b) ==
    \A x, y \in 1 .. Len(b) : x < y =>
        b[x][1] < b[y][1] \/ (b[x][1] = b[y][1] /\ b[x][2] < b[y][2])
Held(f, b, T, D) ==
    /\ \E M : b \in Seq(M)
    /\ \A k \in Calls : T[k] <= D[k]
    /\ OnlySent(f, b, T, D) /\ AllSent(f, b, T, D) /\ InOrder(b)

InOK(r, b, T, D) == Held([k \in Calls |-> firstGlobalElem(k, r)], b, T, D)

InboxesOK ==
    \A r \in Workers :
        InOK(r, inbox[r], [k \in Calls |-> TakenBy(r, k)], [k \in Calls |-> DealtTo(r, k)])

\* what rank 0 has collected in call k, having received the first G[r] messages
\* of each worker r
Received(k, res, inp, G) ==
    /\ \A i \in DOMAIN res : i < nLocalElems(k, 0) \/ program[k].collective => res[i] = <<k, i>>
    /\ \A r \in Workers : \A g \in 1 .. G[r] :
          LET m == Sends(k, r, g)
          IN  IF m.input THEN <<m.tag, m.data[1]>> \in inp
              ELSE \A i \in m.tag .. m.tag + Len(m.data) - 1 : res[i] = <<k, i>>
    /\ inp \subseteq {<<i, <<k, i>>>> : i \in nLocalElems(k, 0) .. nGlobalElems(k) - 1}

ResultsOK ==
    /\ pc[0] = "results" /\ results # <<>> =>
          Received(call[0], results, inputs, [r \in Workers |-> GotOf(r, call[0])])
    /\ OwnResults

ShapesOK ==
    /\ call \in [Ranks -> Nat] /\ pc \in [Ranks -> Labels] /\ count \in [Ranks -> Nat]
    /\ local = [r \in Ranks |-> local[r]]
    /\ dealt \in [Workers -> Nat] /\ posted \in [Workers -> Nat]
    /\ inbox = [r \in Workers |-> inbox[r]] /\ outbox = [r \in Workers |-> outbox[r]]

CallsOK == ShapesOK /\ PlacesOK /\ EndsOK /\ FlowsOK /\ InboxesOK /\ ResultsOK

\* The plan of a state, which no step changes.
PlanOK ==
    /\ program \in Programs /\ buffered \in BOOLEAN
    /\ shares = [k \in DOMAIN program |-> elems_per_rank(program[k].costs, program[k].useCost)]

-----------------------------------------------------------------------------
(* The plan *)

LEMMA RanksAre ==
    /\ NProcs \in Nat \ {0, 1} /\ Ranks = 0 .. NProcs - 1
    /\ 0 \in Ranks /\ 0 \notin Workers /\ Workers \subseteq Ranks /\ Ranks = Workers \cup {0}
    /\ IsFiniteSet(Ranks) /\ IsFiniteSet(Workers)
  <1>1. NProcs \in Nat \ {0, 1} /\ Ranks = 0 .. NProcs - 1 /\ 0 \in Ranks
    BY NProcsAssumption DEF Ranks
  <1>2. IsFiniteSet(Ranks)
    BY <1>1, FS_Interval
  <1>3. IsFiniteSet(Workers)
    BY <1>2, FS_Subset DEF Workers
  <1> QED BY <1>1, <1>2, <1>3 DEF Workers

LEMMA PlanIs ==
    ASSUME PlanOK
    PROVE  /\ Len(program) \in Nat /\ DOMAIN program = Calls
           /\ \A k \in Calls :
                 /\ program[k] \in CallType
                 /\ nGlobalElems(k) \in Nat \ {0}
                 /\ shares[k] \in [Ranks -> Nat]
                 /\ SumFunctionOnSet(shares[k], 0 .. NProcs - 1) = nGlobalElems(k)
                 /\ \A r \in Ranks : nLocalElems(k, r) \in Nat
  <1>1. program \in Seq(CallType) /\ program \in Programs
    BY ProgramsAssumption DEF PlanOK
  <1>2. Len(program) \in Nat /\ DOMAIN program = Calls
    BY <1>1 DEF Calls
  <1>3. ASSUME NEW k \in Calls
        PROVE  /\ program[k] \in CallType
               /\ nGlobalElems(k) \in Nat \ {0}
               /\ shares[k] \in [Ranks -> Nat]
               /\ SumFunctionOnSet(shares[k], 0 .. NProcs - 1) = nGlobalElems(k)
               /\ \A r \in Ranks : nLocalElems(k, r) \in Nat
    <2>1. program[k] \in CallType
      BY <1>1, <1>2
    <2>2. PICK c : c = program[k].costs
      OBVIOUS
    <2>3. c \in Seq(Nat) /\ c # <<>>
      BY <2>1, <2>2 DEF CallType
    <2>4. Len(c) \in Nat \ {0}
      BY <2>3
    <2>5. nGlobalElems(k) \in Nat \ {0}
      BY <2>2, <2>4 DEF nGlobalElems
    <2>6. PICK e : e = elems_per_rank(program[k].costs, program[k].useCost)
      OBVIOUS
    <2>7. e \in [Ranks -> Nat] /\ FirstOf(e, NProcs) = Len(program[k].costs)
      BY <1>1, <1>2, <2>6, SharesAssumption
    <2>8. shares[k] = e
      BY <1>2, <2>6 DEF PlanOK
    <2>9. SumFunctionOnSet(shares[k], 0 .. NProcs - 1) = nGlobalElems(k)
      BY <2>7, <2>8 DEF FirstOf, nGlobalElems
    <2> QED BY <2>1, <2>5, <2>7, <2>8, <2>9 DEF nLocalElems
  <1> QED BY <1>2, <1>3

\* by number or by cost, the first problem of a rank follows those of the
\* ranks before it
LEMMA FirstIs ==
    ASSUME PlanOK, NEW k \in Calls, NEW r \in Ranks
    PROVE  firstGlobalElem(k, r) = SumFunctionOnSet(shares[k], 0 .. r - 1)
  <1>1. CASE program[k].useCost
    BY <1>1 DEF firstGlobalElem, FirstOf
  <1>2. CASE ~program[k].useCost
    <2>0. NProcs \in Nat \ {0, 1} /\ r \in Nat
      BY NProcsAssumption DEF Ranks
    <2>1. PICK n \in Nat : n = nGlobalElems(k)
      BY PlanIs
    <2>2. PICK q, m : q = n \div NProcs /\ m = n % NProcs
      OBVIOUS
    <2>3. q \in Nat /\ m \in Nat
      BY <2>0, <2>1, <2>2
    <2>4. shares[k] = [s \in Ranks |-> q + (IF s < m THEN 1 ELSE 0)]
      BY <1>2, <2>1, <2>2, PlanIs DEF PlanOK, elems_per_rank, ByElems, nGlobalElems
    <2>5. PICK f : f = shares[k]
      OBVIOUS
    <2>6. \A x \in 0 .. r - 1 : (x < m => f[x] = q + 1) /\ (~(x < m) => f[x] = q)
      <3>1. \A x \in 0 .. r - 1 : x \in Ranks
        BY <2>0, <2>3 DEF Ranks
      <3>2. ASSUME NEW x \in 0 .. r - 1
            PROVE  (x < m => f[x] = q + 1) /\ (~(x < m) => f[x] = q)
        <4>1. f[x] = q + (IF x < m THEN 1 ELSE 0)
          BY <2>4, <2>5, <3>1
        <4> QED BY <2>3, <4>1
      <3> QED BY <3>2
    <2>9. PICK j \in Nat : j = Min({r, m})
      <3>1. CASE r <= m
        BY <2>0, <2>3, <3>1 DEF Min
      <3>2. CASE ~(r <= m)
        BY <2>0, <2>3, <3>2 DEF Min
      <3> QED BY <3>1, <3>2
    <2>10. j = IF r <= m THEN r ELSE m
      <3>1. CASE r <= m
        BY <2>0, <2>3, <2>9, <3>1 DEF Min
      <3>2. CASE ~(r <= m)
        BY <2>0, <2>3, <2>9, <3>2 DEF Min
      <3> QED BY <3>1, <3>2
    <2>11. PICK g : g = [i \in 0 .. r |-> q * i + (IF i <= m THEN i ELSE m)]
      OBVIOUS
    <2>12. SumFunctionOnSet(f, 0 .. r - 1) = q * r + j
      <3>1. \A i \in 0 .. r : g[i] \in Int
        <4>1. \A i \in 0 .. r : q * i \in Int
          BY <2>0, <2>3
        <4> QED BY <2>0, <2>3, <2>11, <4>1
      <3>2. ASSUME NEW i \in 0 .. r - 1
            PROVE  f[i] \in Int /\ g[i + 1] = g[i] + f[i]
        <4>1. i \in 0 .. r /\ i + 1 \in 0 .. r /\ i \in Nat
          BY <2>0
        <4>2. PICK y \in Int : y = q * i
          BY <2>3, <4>1
        <4>3. q * (i + 1) = y + q
          BY <2>3, <4>1, <4>2
        <4>4. /\ g[i] = y + (IF i <= m THEN i ELSE m)
              /\ g[i + 1] = (y + q) + (IF i + 1 <= m THEN i + 1 ELSE m)
          BY <2>11, <4>1, <4>2, <4>3
        <4> QED BY <2>3, <2>6, <4>1, <4>4
      <3>3. r \in Nat /\ 0 \in 0 .. r /\ r \in 0 .. r
        BY <2>0
      <3>4. SumFunctionOnSet(f, 0 .. r - 1) = g[r] - g[0]
        <4>1. Telescopes(r, f, g)
          BY <3>1, <3>2, <3>3 DEF Telescopes
        <4>2. SumsTo(r, f, g)
          BY <4>1, SumIsDifference, Zenon
        <4> QED BY <3>3, <4>2 DEF SumsTo
      <3>5. q * 0 = 0 /\ q * r \in Int
        BY <2>0, <2>3
      <3>6. g[0] = 0 /\ g[r] = q * r + j
        BY <2>0, <2>3, <2>10, <2>11, <3>3, <3>5
      <3> QED BY <3>4, <3>5, <3>6
    <2> QED BY <1>2, <2>1, <2>2, <2>5, <2>9, <2>12 DEF firstGlobalElem
  <1> QED BY <1>1, <1>2

\* the portions of the ranks follow each other and together are all problems
LEMMA Portions ==
    ASSUME PlanOK, NEW k \in Calls
    PROVE  /\ \A r \in Ranks : firstGlobalElem(k, r) \in Nat
           /\ firstGlobalElem(k, 0) = 0
           /\ \A q, r \in Ranks : q < r =>
                 firstGlobalElem(k, q) + nLocalElems(k, q) <= firstGlobalElem(k, r)
           /\ \A r \in Ranks : firstGlobalElem(k, r) + nLocalElems(k, r) <= nGlobalElems(k)
           /\ \A i \in 0 .. nGlobalElems(k) - 1 : \E r \in Ranks :
                 firstGlobalElem(k, r) <= i /\ i < firstGlobalElem(k, r) + nLocalElems(k, r)
  <1>0. NProcs \in Nat \ {0, 1} /\ Ranks = 0 .. NProcs - 1
    BY NProcsAssumption DEF Ranks
  <1>1. PICK f : f = shares[k]
    OBVIOUS
  <1>2. /\ f \in [Ranks -> Nat] /\ \A r \in Ranks : nLocalElems(k, r) = f[r] /\ f[r] \in Nat
    BY <1>1, PlanIs DEF nLocalElems
  <1> DEFINE Before(r) == SumFunctionOnSet(f, 0 .. r - 1)
  <1>3. ASSUME NEW r \in 0 .. NProcs
        PROVE  IsFiniteSet(0 .. r - 1) /\ \A x \in 0 .. r - 1 : f[x] \in Nat
    <2>1. r \in Int /\ 0 \in Int /\ r - 1 \in Int
      BY <1>0
    <2>2. IsFiniteSet(0 .. r - 1)
      BY <2>1, FS_Interval
    <2>3. \A x \in 0 .. r - 1 : x \in Ranks
      BY <1>0
    <2> QED BY <1>2, <2>2, <2>3
  <1>4. ASSUME NEW r \in 0 .. NProcs
        PROVE  Before(r) \in Nat
    BY <1>3, SumOnNat
  <1>5. ASSUME NEW r \in Ranks
        PROVE  Before(r + 1) = Before(r) + f[r]
    <2>1. PICK c, d : c = 0 /\ d = r
      OBVIOUS
    <2>2. c \in Int /\ d \in Int /\ c <= d /\ \A x \in c .. d : f[x] \in Int
      BY <1>0, <1>2, <2>1
    <2>3. SumFunctionOnSet(f, c .. d) = f[d] + SumFunctionOnSet(f, c .. d - 1)
      BY <2>2, SumOfLast
    <2>4. 0 .. (r + 1) - 1 = c .. d
      BY <1>0, <2>1
    <2>5. Before(r) \in Nat /\ f[r] \in Nat
      BY <1>0, <1>2, <1>4
    <2> QED BY <2>1, <2>3, <2>4, <2>5
  <1>6. ASSUME NEW q \in 0 .. NProcs, NEW r \in 0 .. NProcs, q <= r
        PROVE  Before(q) <= Before(r)
    <2>1. 0 .. q - 1 \in SUBSET (0 .. r - 1)
      BY <1>0, <1>6
    <2>2. PICK S, T : S = 0 .. q - 1 /\ T = 0 .. r - 1
      OBVIOUS
    <2>3. IsFiniteSet(T) /\ (\A x \in T : f[x] \in Nat) /\ S \in SUBSET T
      BY <1>3, <2>1, <2>2
    <2>4. SumFunctionOnSet(f, S) <= SumFunctionOnSet(f, T)
      BY <2>3, SumOnPart
    <2> QED BY <2>2, <2>4
  <1>7. Before(0) = 0
    <2>1. 0 .. 0 - 1 = {}
      OBVIOUS
    <2> QED BY <2>1, SumOnEmpty
  <1>8. \A r \in Ranks : firstGlobalElem(k, r) = Before(r)
    BY <1>1, FirstIs
  <1>9. Before(NProcs) = nGlobalElems(k) /\ nGlobalElems(k) \in Nat
    BY <1>1, PlanIs
  <1> HIDE DEF Before
  <1>10. ASSUME NEW q \in Ranks, NEW r \in Ranks, q < r
         PROVE  Before(q) + f[q] <= Before(r)
    <2>1. q + 1 \in 0 .. NProcs /\ r \in 0 .. NProcs /\ q + 1 <= r
      BY <1>0, <1>10
    <2> QED BY <1>5, <1>6, <2>1
  <1>11. ASSUME NEW r \in Ranks PROVE Before(r) + f[r] <= nGlobalElems(k)
    <2>1. r + 1 \in 0 .. NProcs /\ NProcs \in 0 .. NProcs /\ r + 1 <= NProcs
      BY <1>0
    <2> QED BY <1>5, <1>6, <1>9, <2>1
  <1>12. ASSUME NEW i \in 0 .. nGlobalElems(k) - 1
         PROVE  \E r \in Ranks : Before(r) <= i /\ i < Before(r) + f[r]
    <2>0. i \in Nat /\ i < nGlobalElems(k)
      BY <1>9
    <2>1. PICK S : S = {r \in 0 .. NProcs : i < Before(r)}
      OBVIOUS
    <2>2. S \in SUBSET Nat /\ NProcs \in S
      BY <1>0, <1>9, <2>0, <2>1
    <2>3. PICK m \in S : \A y \in S : m <= y
      BY <2>2, SmallestNumber
    <2>4. m \in 0 .. NProcs /\ i < Before(m)
      BY <2>1
    <2>5. m # 0
      BY <1>7, <2>0, <2>4
    <2>6. m - 1 \in Ranks /\ m - 1 \in 0 .. NProcs /\ m - 1 \notin S
      BY <1>0, <2>3, <2>4, <2>5
    <2>7. Before(m - 1) \in Nat /\ ~(i < Before(m - 1))
      BY <1>4, <2>1, <2>6
    <2>8. Before((m - 1) + 1) = Before(m - 1) + f[m - 1] /\ (m - 1) + 1 = m
      BY <1>5, <2>4, <2>6
    <2> QED BY <2>0, <2>4, <2>6, <2>7, <2>8
  <1>13. 0 \in Ranks /\ \A r \in Ranks : r \in 0 .. NProcs
    BY <1>0
  <1> QED BY <1>2, <1>4, <1>7, <1>8, <1>10, <1>11, <1>12, <1>13

(* The plan depends on the program and the shares alone.                   *)
LEMMA PlanFrozen ==
    ASSUME program' = program, shares' = shares
    PROVE  /\ Calls' = Calls
           /\ \A k : /\ nGlobalElems(k)' = nGlobalElems(k) /\ External(k)' = External(k)
                     /\ Chunks(k)' = Chunks(k) /\ PerProblem(k)' = PerProblem(k)
           /\ \A k, r : /\ nLocalElems(k, r)' = nLocalElems(k, r)
                        /\ firstGlobalElem(k, r)' = firstGlobalElem(k, r)
                        /\ Solved(k, r)' = Solved(k, r) /\ Length(k, r)' = Length(k, r)
           /\ \A k, r, g : Sends(k, r, g)' = Sends(k, r, g) /\ Weight(k, r, g)' = Weight(k, r, g)
           /\ \A k, r : Deals(k, r)' <=> Deals(k, r)
  <1>1. Calls' = Calls
    BY DEF Calls
  <1>2. \A k : nGlobalElems(k)' = nGlobalElems(k)
    BY DEF nGlobalElems
  <1>3. \A k, r : nLocalElems(k, r)' = nLocalElems(k, r)
    BY DEF nLocalElems
  <1>4. \A k : /\ External(k)' = External(k)
               /\ Chunks(k)' = Chunks(k) /\ PerProblem(k)' = PerProblem(k)
    BY <1>2, <1>3 DEF External, Chunks, PerProblem
  <1>5. \A k, r : firstGlobalElem(k, r)' = firstGlobalElem(k, r)
    BY <1>2 DEF firstGlobalElem
  <1>6. \A k, r : Solved(k, r)' = Solved(k, r)
    BY <1>3, <1>5, Zenon DEF Solved
  <1>7. \A k, r : Length(k, r)' = Length(k, r)
    BY <1>3, <1>4 DEF Length
  <1>8. \A k, g : ProblemOf(k, g)' = ProblemOf(k, g)
    BY <1>4 DEF ProblemOf
  <1>9. \A k, r, g : Sends(k, r, g)' = Sends(k, r, g)
    <2> SUFFICES ASSUME NEW k, NEW r, NEW g PROVE Sends(k, r, g)' = Sends(k, r, g)
      OBVIOUS
    <2>1. /\ Chunks(k)' = Chunks(k) /\ PerProblem(k)' = PerProblem(k)
          /\ firstGlobalElem(k, r)' = firstGlobalElem(k, r)
          /\ Solved(k, r)' = Solved(k, r) /\ ProblemOf(k, g)' = ProblemOf(k, g)
          /\ program'[k] = program[k]
      BY <1>4, <1>5, <1>6, <1>8
    <2> QED BY <2>1 DEF Sends
  <1>10. \A k, r, g : Weight(k, r, g)' = Weight(k, r, g)
    BY <1>3, <1>4 DEF Weight
  <1>11. \A k, r : Deals(k, r)' <=> Deals(k, r)
    <2> SUFFICES ASSUME NEW k, NEW r PROVE Deals(k, r)' <=> Deals(k, r)
      OBVIOUS
    <2>1. Origin(program, k)' = Origin(program, k)
      BY DEF Origin
    <2>2. hasRoot(k, r)' <=> hasRoot(k, r)
      BY <1>3, <2>1 DEF hasRoot
    <2> QED BY <2>2 DEF Deals
  <1> QED BY <1>1, <1>2, <1>3, <1>4, <1>5, <1>6, <1>7, <1>9, <1>10, <1>11

(* A rank that deals does so with rank 0, unless rank 0 has a root and it  *)
(* has none, for it got no problems.                                       *)
LEMMA DealtAlike ==
    ASSUME PlanOK, NEW k \in Calls, NEW r \in Ranks
    PROVE  /\ hasRoot(k, r) => hasRoot(k, 0)
           /\ Deals(k, 0) => Deals(k, r)
           /\ Deals(k, r) => InBcast(k, r)
           /\ Deals(k, r) /\ InBcast(k, 0) => Deals(k, 0)
           /\ Deals(k, r) /\ ~Deals(k, 0) => nLocalElems(k, r) = 0
  <1>1. nLocalElems(k, r) \in Nat
    BY PlanIs
  <1>2. hasRoot(k, r) => hasRoot(k, 0)
    BY DEF hasRoot
  <1>3. hasRoot(k, 0) /\ ~hasRoot(k, r) => nLocalElems(k, r) = 0
    BY <1>1 DEF hasRoot
  <1>4. Deals(k, r) => InBcast(k, r)
    BY DEF Deals, InBcast
  <1> QED BY <1>2, <1>3, <1>4 DEF Deals, InBcast

(* So a rank that no broadcast holds does as rank 0.                       *)
LEMMA DealtTogether ==
    ASSUME PlanOK, NEW r \in Ranks, call[r] \in Calls, Told(r)
    PROVE  Deals(call[r], r) <=> Deals(call[r], 0)
  BY DealtAlike DEF Told

(* Where no root is lost, all the ranks enter the same broadcasts.         *)
LEMMA ToldInTime ==
    ASSUME PlanOK, RootsKept, NEW r \in Ranks, call[r] \in Calls, call[0] >= call[r]
    PROVE  Told(r)
  <1>1. PICK k : k = call[r]
    OBVIOUS
  <1>2. /\ k \in DOMAIN program /\ nLocalElems(k, r) \in Nat
        /\ nLocalElems(k, r) = elems_per_rank(program[k].costs, program[k].useCost)[r]
    BY <1>1, PlanIs DEF PlanOK, nLocalElems
  <1>3. r \in Workers \/ r = 0
    BY RanksAre
  <1>4. ASSUME hasRoot(k, 0), ~hasRoot(k, r) PROVE FALSE
    <2>1. PICK o : o = Origin(program, k)
      OBVIOUS
    <2>2. o < k /\ program[o].source = "root" /\ r # 0 /\ ~(nLocalElems(k, r) > 0)
      BY <1>4, <2>1, Zenon DEF hasRoot
    <2>3. \A x \in Workers : elems_per_rank(program[k].costs, program[k].useCost)[x] > 0
      BY <1>2, <2>1, <2>2, Zenon DEF RootsKept, KeepsRoots
    <2> QED BY <1>2, <1>3, <2>2, <2>3
  <1>5. InBcast(k, r) => InBcast(k, 0)
    BY <1>4 DEF InBcast
  <1> QED BY <1>1, <1>5 DEF Told

(* So what is said of a rank and of its messages does too.                 *)
LEMMA ViewFrozen ==
    ASSUME program' = program, shares' = shares
    PROVE  /\ \A r, k, p, c, l : RankOK(r, k, p, c, l)' <=> RankOK(r, k, p, c, l)
           /\ \A k, p, c, d, v : RootOK(k, p, c, d, v)' <=> RootOK(k, p, c, d, v)
           /\ \A k, p, x : PostedOK(k, p, x)' <=> PostedOK(k, p, x)
           /\ \A r, k, p, c : SentBy(r, k, p, c)' = SentBy(r, k, p, c)
           /\ \A r, k, s, o : OutOK(r, k, s, o)' <=> OutOK(r, k, s, o)
           /\ \A r, k, p, c, o, j : GotAs(r, k, p, c, o, j)' = GotAs(r, k, p, c, o, j)
           /\ \A r, b, T, D : InOK(r, b, T, D)' <=> InOK(r, b, T, D)
           /\ \A k, v, w, G : Received(k, v, w, G)' <=> Received(k, v, w, G)
  <1>1. /\ Calls' = Calls
        /\ \A k, r : /\ nLocalElems(k, r)' = nLocalElems(k, r)
                     /\ firstGlobalElem(k, r)' = firstGlobalElem(k, r)
                     /\ Solved(k, r)' = Solved(k, r) /\ Length(k, r)' = Length(k, r)
        /\ \A k, r, g : Sends(k, r, g)' = Sends(k, r, g)
        /\ \A k : nGlobalElems(k)' = nGlobalElems(k)
        /\ \A k, r : Deals(k, r)' <=> Deals(k, r)
    BY PlanFrozen
  <1>2. \A r, k, p, c, l : RankOK(r, k, p, c, l)' <=> RankOK(r, k, p, c, l)
    BY <1>1 DEF RankOK
  <1>3. \A k, p, c, d, v : RootOK(k, p, c, d, v)' <=> RootOK(k, p, c, d, v)
    BY <1>1 DEF RootOK
  <1>4. \A k, p, x : PostedOK(k, p, x)' <=> PostedOK(k, p, x)
    BY <1>1, Zenon DEF PostedOK
  <1>5. \A r, k, p, c : SentBy(r, k, p, c)' = SentBy(r, k, p, c)
    BY <1>1, Zenon DEF SentBy
  <1>6. \A r, k, s, o : OutOK(r, k, s, o)' <=> OutOK(r, k, s, o)
    BY <1>1, Zenon DEF OutOK
  <1>7. \A r, b, T, D : InOK(r, b, T, D)' <=> InOK(r, b, T, D)
    <2> SUFFICES ASSUME NEW r, NEW b, NEW T, NEW D PROVE InOK(r, b, T, D)' <=> InOK(r, b, T, D)
      OBVIOUS
    <2>1. Calls' = Calls
      BY <1>1
    <2>2. [k \in Calls |-> firstGlobalElem(k, r)]' = [k \in Calls |-> firstGlobalElem(k, r)]
      BY <1>1
    <2>3. \A f : Held(f, b, T, D)' <=> Held(f, b, T, D)
      BY <2>1, Zenon DEF Held, OnlySent, AllSent
    <2> QED BY <2>2, <2>3 DEF InOK
  <1>8. \A r, k, p, c, o, j : GotAs(r, k, p, c, o, j)' = GotAs(r, k, p, c, o, j)
    BY <1>1, <1>5, Zenon DEF GotAs
  <1>9. \A k, v, w, G : Received(k, v, w, G)' <=> Received(k, v, w, G)
    <2> SUFFICES ASSUME NEW k, NEW v, NEW w, NEW G
                 PROVE  Received(k, v, w, G)' <=> Received(k, v, w, G)
      OBVIOUS
    <2>1. /\ nLocalElems(k, 0)' = nLocalElems(k, 0) /\ nGlobalElems(k)' = nGlobalElems(k)
          /\ program'[k] = program[k] /\ \A r, g : Sends(k, r, g)' = Sends(k, r, g)
      BY <1>1
    <2> QED BY <2>1 DEF Received
  <1> QED BY <1>2, <1>3, <1>4, <1>5, <1>6, <1>7, <1>8, <1>9

-----------------------------------------------------------------------------
(* What is sent *)

\* what a message counts for is never nothing, as no rank has an empty chunk
LEMMA WeightsGrow ==
    ASSUME PlanOK, NEW k \in Calls, NEW r \in Workers
    PROVE  /\ Length(k, r) \in Nat /\ nLocalElems(k, r) \in Nat
           /\ \A g \in Nat : Weight(k, r, g) \in Nat
           /\ Weight(k, r, 0) = 0
           /\ Full(program[k]) => \A g, h \in Nat : g < h => Weight(k, r, g) < Weight(k, r, h)
  <1>1. r \in Ranks /\ program[k] \in CallType /\ nLocalElems(k, r) \in Nat
    BY PlanIs DEF Workers
  <1>2. PICK n \in Nat : n = nLocalElems(k, r)
    BY <1>1
  <1>3. PICK c, p : c = Chunks(k) /\ p = PerProblem(k)
    OBVIOUS
  <1>4. c \in {0, 1} /\ p \in 0 .. 2
    BY <1>3 DEF Chunks, PerProblem
  <1>5. Length(k, r) \in Nat
    <2>1. PICK x \in Nat : x = p * n
      BY <1>2, <1>4
    <2>2. Length(k, r) = IF program[k].end = "none" THEN 0 ELSE c + x
      BY <1>2, <1>3, <2>1, Zenon DEF Length
    <2> QED BY <1>4, <2>1, <2>2
  <1>6. \A g \in Nat : Weight(k, r, g) = IF c = 1 /\ g > 0 THEN n + g - 1 ELSE g
    BY <1>2, <1>3 DEF Weight
  <1>7. Full(program[k]) /\ c = 1 => n > 0
    <2>1. k \in DOMAIN program
      BY PlanIs
    <2>2. shares[k] = elems_per_rank(program[k].costs, program[k].useCost)
      BY <2>1 DEF PlanOK
    <2>3. c = 1 => program[k].chunked /\ ~program[k].collective
      BY <1>3 DEF Chunks
    <2> QED BY <1>1, <1>2, <2>2, <2>3 DEF Full, nLocalElems
  <1>8. Full(program[k]) => \A g, h \in Nat : g < h => Weight(k, r, g) < Weight(k, r, h)
    BY <1>2, <1>6, <1>7
  <1> QED BY <1>1, <1>2, <1>5, <1>6, <1>8

\* what the messages of a worker count for, one after the other
LEMMA CountedIs ==
    ASSUME PlanOK, NEW k \in Calls, NEW r \in Workers, NEW g \in Nat, g < Length(k, r)
    PROVE  /\ Counted(k, r, Sends(k, r, g + 1)) \in Nat
           /\ Weight(k, r, g + 1) = Weight(k, r, g) + Counted(k, r, Sends(k, r, g + 1))
  <1>1. r \in Ranks /\ program[k] \in CallType /\ nLocalElems(k, r) \in Nat
    BY PlanIs DEF Workers
  <1>2. PICK n \in Nat : n = nLocalElems(k, r)
    BY <1>1
  <1>3. PICK c, p : c = Chunks(k) /\ p = PerProblem(k)
    OBVIOUS
  <1>4. PICK b \in BOOLEAN : b = program[k].inputs
    BY <1>1 DEF CallType
  <1>5. PICK m : m = Sends(k, r, g + 1)
    OBVIOUS
  <1>6. Counted(k, r, m) = IF program[k].chunked /\ ~m.input THEN n ELSE 1
    BY <1>2 DEF Counted
  <1>7. /\ c = (IF program[k].chunked /\ ~program[k].collective THEN 1 ELSE 0)
        /\ p = (IF program[k].chunked \/ program[k].collective THEN 0 ELSE 1) + (IF b THEN 1 ELSE 0)
    BY <1>3, <1>4 DEF Chunks, PerProblem
  <1>8. m.input <=> g + 1 > c /\ b /\ ((g + 1) - c - 1) % p = 0
    <2>1. CASE g + 1 <= c
      <3>1. m.input = FALSE
        BY <1>3, <1>5, <2>1 DEF Sends
      <3> QED BY <1>7, <2>1, <3>1
    <2>2. CASE ~(g + 1 <= c)
      <3>0. ~(g + 1 <= Chunks(k))
        BY <1>3, <2>2
      <3>1. m = [input |-> program[k].inputs /\ ((g + 1) - Chunks(k) - 1) % PerProblem(k) = 0,
                 tag |-> firstGlobalElem(k, r) + ProblemOf(k, g + 1),
                 data |-> <<Solved(k, r)[ProblemOf(k, g + 1) + 1]>>, call |-> k]
        BY <1>5, <3>0, Zenon DEF Sends
      <3>2. m.input = (program[k].inputs /\ ((g + 1) - Chunks(k) - 1) % PerProblem(k) = 0)
        BY <3>1, Zenon
      <3>3. m.input = (b /\ ((g + 1) - c - 1) % p = 0)
        BY <1>3, <1>4, <3>2, Zenon
      <3>4. g + 1 > c
        BY <1>7, <2>2
      <3> QED BY <3>3, <3>4, Zenon
    <2> QED BY <2>1, <2>2
  <1>9. p # 0 \/ g < c
    <2>1. Length(k, r) \in {0, c + p * n}
      BY <1>2, <1>3 DEF Length
    <2>2. p = 0 => p * n = 0
      BY <1>2
    <2> QED BY <1>7, <2>1, <2>2
  <1>10. /\ Weight(k, r, g) = (IF c = 1 /\ g > 0 THEN n + g - 1 ELSE g)
         /\ Weight(k, r, g + 1) = (IF c = 1 THEN n + g ELSE g + 1)
    BY <1>2, <1>3 DEF Weight
  <1>11. CASE c = 1
    <2>1. CASE g = 0
      <3>1. Counted(k, r, m) = n
        BY <1>6, <1>7, <1>8, <1>11, <2>1
      <3> QED BY <1>5, <1>10, <1>11, <2>1, <3>1
    <2>2. CASE g # 0
      <3>1. p = 1 /\ b
        BY <1>7, <1>9, <1>11, <2>2
      <3>2. ((g + 1) - c - 1) % p = 0
        BY <1>11, <3>1
      <3>3. Counted(k, r, m) = 1
        BY <1>6, <1>8, <1>11, <2>2, <3>1, <3>2
      <3> QED BY <1>5, <1>10, <1>11, <2>2, <3>3
    <2> QED BY <2>1, <2>2
  <1>12. CASE c # 1
    <2>1. c = 0
      BY <1>7, <1>12
    <2>2. Counted(k, r, m) = 1
      <3>1. CASE ~program[k].chunked
        BY <1>6, <3>1
      <3>2. CASE program[k].chunked
        <4>1. p = 1 /\ b
          BY <1>7, <1>9, <2>1, <3>2
        <4>2. ((g + 1) - c - 1) % p = 0
          BY <2>1, <4>1
        <4> QED BY <1>6, <1>8, <2>1, <4>1, <4>2
      <3> QED BY <3>1, <3>2
    <2> QED BY <1>5, <1>10, <2>1, <2>2
  <1> QED BY <1>11, <1>12

\* rank 0 waits for all that the workers send
LEMMA ExternalIs ==
    ASSUME PlanOK, NEW k \in Calls, program[k].end # "none"
    PROVE  External(k) = SumFunction([r \in Workers |-> Weight(k, r, Length(k, r))])
  <1>1. PICK f : f = [r \in Workers |-> Weight(k, r, Length(k, r))]
    OBVIOUS
  <1>2. PICK n : n = shares[k]
    OBVIOUS
  <1>3. PICK e : e = (IF program[k].inputs THEN 1 ELSE 0) + (IF program[k].collective THEN 0 ELSE 1)
    OBVIOUS
  <1>4. e \in 0 .. 2
    BY <1>3
  <1>5. n \in [Ranks -> Nat] /\ SumFunctionOnSet(n, 0 .. NProcs - 1) = nGlobalElems(k)
    BY <1>2, PlanIs
  <1>6. Ranks = 0 .. NProcs - 1 /\ NProcs \in Nat \ {0, 1} /\ 0 \in Ranks
    BY NProcsAssumption DEF Ranks
  <1>7. IsFiniteSet(Ranks) /\ IsFiniteSet(Workers) /\ Workers = Ranks \ {0}
    <2>1. IsFiniteSet(Ranks)
      BY <1>6, FS_Interval
    <2> QED BY <2>1, FS_Subset DEF Workers
  <1>8. SumFunctionOnSet(n, Workers) \in Int /\ SumFunctionOnSet(n, Ranks) = n[0] + SumFunctionOnSet(n, Workers)
    <2>1. (\A x \in Ranks : n[x] \in Int) /\ \A x \in Workers : n[x] \in Int
      BY <1>5, <1>7
    <2>2. SumFunctionOnSet(n, Workers) \in Int
      BY <1>7, <2>1, SumOnInt
    <2>3. SumFunctionOnSet(n, Ranks) = n[0] + SumFunctionOnSet(n, Ranks \ {0})
      BY <1>6, <1>7, <2>1, SumOnRemove
    <2> QED BY <1>7, <2>2, <2>3
  <1>9. \A r \in Workers : f[r] = e * n[r]
    <2> SUFFICES ASSUME NEW r \in Workers PROVE f[r] = e * n[r]
      OBVIOUS
    <2>1. PICK m \in Nat : m = n[r] /\ m = nLocalElems(k, r)
      BY <1>2, <1>5, <1>7 DEF nLocalElems
    <2>2. PICK c, p : c = Chunks(k) /\ p = PerProblem(k)
      OBVIOUS
    <2>3. /\ c = (IF program[k].chunked /\ ~program[k].collective THEN 1 ELSE 0)
          /\ p = (IF program[k].chunked \/ program[k].collective THEN 0 ELSE 1)
                     + (IF program[k].inputs THEN 1 ELSE 0)
          /\ c + p \in {0, 1, 2} /\ c + p = e
      BY <1>3, <2>2 DEF Chunks, PerProblem
    <2>4. PICK x \in Nat : x = p * m
      <3>1. p \in Nat
        BY <2>3
      <3> QED BY <2>1, <3>1
    <2>5. Length(k, r) = c + x
      BY <2>1, <2>2, <2>4 DEF Length
    <2>6. f[r] = IF c = 1 /\ c + x > 0 THEN m + (c + x) - 1 ELSE c + x
      BY <1>1, <2>1, <2>2, <2>5 DEF Weight
    <2>7. CASE c = 1
      <3>1. e * m = m + x
        BY <2>1, <2>3, <2>4, <2>7
      <3> QED BY <2>1, <2>4, <2>6, <2>7, <3>1
    <2>8. CASE c # 1
      <3>1. c = 0 /\ e = p
        BY <2>3, <2>8
      <3> QED BY <2>1, <2>4, <2>6, <3>1
    <2> QED BY <2>7, <2>8
  <1>10. SumFunction(f) = e * SumFunctionOnSet(n, Workers)
    <2>1. \A x \in Workers : n[x] \in Int /\ f[x] = e * n[x]
      BY <1>5, <1>7, <1>9
    <2>0. PICK S, q : S = Workers /\ q = e
      OBVIOUS
    <2>4. IsFiniteSet(S) /\ q \in Int /\ \A x \in S : n[x] \in Int /\ f[x] = q * n[x]
      BY <1>4, <1>7, <2>0, <2>1
    <2>5. SumFunctionOnSet(f, S) = q * SumFunctionOnSet(n, S)
      BY <2>4, SumScaled
    <2>2. SumFunctionOnSet(f, Workers) = e * SumFunctionOnSet(n, Workers)
      BY <2>0, <2>5, Zenon
    <2>3. DOMAIN f = Workers
      BY <1>1
    <2> QED BY <2>2, <2>3 DEF SumFunction
  <1>11. PICK s \in Int : s = SumFunctionOnSet(n, Workers) /\ s = nGlobalElems(k) - nLocalElems(k, 0)
    <2>1. nLocalElems(k, 0) = n[0] /\ n[0] \in Nat
      BY <1>2, <1>5, <1>6 DEF nLocalElems
    <2> QED BY <1>5, <1>6, <1>8, <2>1
  <1>12. External(k) = e * s
    BY <1>3, <1>11 DEF External
  <1> QED BY <1>1, <1>10, <1>11, <1>12

\* a worker sends what the plan says
LEMMA MessagesAre ==
    ASSUME PlanOK, NEW r \in Workers, NEW k \in Calls, k = call[r], program[k].end # "none",
           local[r] = Solved(k, r)
    PROVE  /\ Len(Messages(r)) = Length(k, r)
           /\ \A g \in 1 .. Length(k, r) : Messages(r)[g] = Sends(k, r, g)
  <1>1. PICK M : M = Messages(r)
    OBVIOUS
  <1>2. PICK L \in Nat : L = Length(k, r)
    BY WeightsGrow
  <1>3. L = Chunks(k) + PerProblem(k) * nLocalElems(k, r)
    BY <1>2, Zenon DEF Length
  <1>4. M = [g \in 1 .. Chunks(k) + PerProblem(k) * nLocalElems(k, r) |->
                IF g <= Chunks(k)
                THEN [input |-> FALSE, tag |-> firstGlobalElem(k, r), data |-> local[r], call |-> k]
                ELSE [input |-> program[k].inputs /\ (g - Chunks(k) - 1) % PerProblem(k) = 0,
                      tag |-> firstGlobalElem(k, r) + ((g - Chunks(k) - 1) \div PerProblem(k)),
                      data |-> <<local[r][((g - Chunks(k) - 1) \div PerProblem(k)) + 1]>>,
                      call |-> k]]
    BY <1>1, Zenon DEF Messages, Call, Chunks, PerProblem
  <1>5. M = [g \in 1 .. L |-> Sends(k, r, g)]
    BY <1>3, <1>4, Zenon DEF Sends, ProblemOf
  <1> HIDE <1>4
  <1>6. Len(M) = L /\ \A g \in 1 .. L : M[g] = Sends(k, r, g)
    BY <1>5
  <1> QED BY <1>1, <1>2, <1>6

-----------------------------------------------------------------------------
(* The initial states *)

LEMMA StartsOK == ASSUME Init PROVE PlanOK /\ CallsOK
  <1>0. 0 \in Ranks /\ Workers \subseteq Ranks
    BY RanksAre
  <1>1. PlanOK
    BY ProgramsAssumption DEF PlanOK, Init
  <1>2. 1 \in Calls /\ Len(program) \in Nat /\ Len(program) # 0
    <2>1. program \in Seq(CallType) \ {<<>>}
      BY ProgramsAssumption DEF Init
    <2> QED BY <2>1 DEF Calls
  <1>3. /\ \A r \in Ranks : call[r] = 1 /\ pc[r] = "distribute" /\ count[r] = 0 /\ local[r] = <<>>
        /\ \A r \in Workers : dealt[r] = 0 /\ inbox[r] = <<>> /\ outbox[r] = <<>> /\ posted[r] = 0
        /\ results = <<>> /\ inputs = {}
    BY DEF Init
  <1>4. ShapesOK
    BY DEF Init, ShapesOK, Labels
  <1>5. PlacesOK
    <2>1. ASSUME NEW r \in Ranks PROVE RankOK(r, 1, "distribute", 0, <<>>)
      <3>1. nLocalElems(1, r) \in Nat
        BY <1>1, <1>2, PlanIs
      <3>2. [i \in 1 .. 0 |-> <<1, firstGlobalElem(1, r) + i - 1>>] = <<>>
        OBVIOUS
      <3> QED BY <1>2, <3>1, <3>2 DEF RankOK, Labels
    <2>2. RootOK(1, "distribute", 0, dealt, <<>>)
      <3>1. \A s \in Workers : nLocalElems(1, s) \in Nat
        BY <1>0, <1>1, <1>2, PlanIs
      <3> QED BY <1>3, <3>1 DEF RootOK
    <2>3. PostedOK(1, "distribute", 0)
      BY DEF PostedOK
    <2> QED BY <1>0, <1>3, <2>1, <2>2, <2>3, Zenon DEF PlacesOK
  <1>6. EndsOK
    BY <1>3 DEF EndsOK, Calls
  <1>7. \A r \in Workers : SentBy(r, call[r], pc[r], count[r]) = 0 /\ Len(outbox[r]) = 0
    BY <1>0, <1>3 DEF SentBy
  <1>8. \A k \in Calls : ~Over(0, k)
    BY <1>0, <1>3 DEF Over, Calls
  <1>9. FlowsOK
    <2>1. \A r \in Workers : OutOK(r, 1, 0, <<>>)
      BY DEF OutOK
    <2>2. \A r \in Workers : GotOf(r, 1) = 0
      BY <1>0, <1>3, <1>7 DEF GotOf, GotAs
    <2>3. \A r \in Workers : Weight(1, r, 0) = 0
      BY <1>1, <1>2, WeightsGrow
    <2>4. Collected \in [Workers -> Nat] /\ \A r \in Workers : Collected[r] = 0
      BY <1>0, <1>3, <2>2, <2>3 DEF Collected
    <2>5. IsFiniteSet(Workers)
      BY RanksAre
    <2>6. SumFunction(Collected) = 0
      BY <2>4, <2>5, SumNat
    <2> QED BY <1>0, <1>3, <1>7, <1>8, <2>1, <2>6 DEF FlowsOK
  <1>10. InboxesOK
    <2> SUFFICES ASSUME NEW r \in Workers
                 PROVE  InOK(r, inbox[r], [k \in Calls |-> TakenBy(r, k)], [k \in Calls |-> DealtTo(r, k)])
      BY DEF InboxesOK
    <2>1. PICK T, D : T = [k \in Calls |-> TakenBy(r, k)] /\ D = [k \in Calls |-> DealtTo(r, k)]
      OBVIOUS
    <2>2. \A k \in Calls : T[k] = 0 /\ D[k] = 0
      BY <1>0, <1>3, <2>1 DEF TakenBy, DealtTo, Calls
    <2>3. inbox[r] = <<>> /\ Len(<<>>) = 0
      BY <1>3
    <2>4. InOK(r, <<>>, T, D)
      BY <2>2, <2>3 DEF InOK, Held, OnlySent, AllSent, InOrder
    <2> QED BY <2>1, <2>3, <2>4
  <1>11. ResultsOK
    BY <1>0, <1>3 DEF ResultsOK, OwnResults
  <1> QED BY <1>1, <1>4, <1>5, <1>6, <1>9, <1>10, <1>11 DEF CallsOK

-----------------------------------------------------------------------------
(* Places *)

LEMMA StepIs ==
    ASSUME [Next]_vars
    PROVE  /\ program' = program /\ shares' = shares /\ buffered' = buffered
           /\ \/ RootGather \/ RootResize \/ Reduce \/ UNCHANGED vars
              \/ \E r \in Ranks : Run(r) \/ Leave(r)
              \/ \E r \in Workers : \/ Deal(r) \/ TakeProblem(r) \/ EnterGather(r)
                                    \/ SendResult(r) \/ RecvResult(r)
  <1>1. \/ RootGather \/ RootResize \/ Reduce \/ UNCHANGED vars
        \/ \E r \in Ranks : Run(r) \/ Leave(r)
        \/ \E r \in Workers : \/ Deal(r) \/ TakeProblem(r) \/ EnterGather(r)
                              \/ SendResult(r) \/ RecvResult(r)
    BY RanksAre DEF Next, RootStep, WorkerStep, Terminated
  <1>2. program' = program /\ shares' = shares /\ buffered' = buffered
    BY <1>1 DEF RootGather, RootResize, Reduce, vars, Run, Leave, Deal, TakeProblem, EnterGather,
                SendResult, RecvResult
  <1> QED BY <1>1, <1>2

LEMMA PlanStays == ASSUME PlanOK, [Next]_vars PROVE PlanOK'
  <1>1. program' = program /\ shares' = shares /\ buffered' = buffered
    BY StepIs
  <1> QED BY <1>1 DEF PlanOK

LEMMA ShapeOfExcept ==
    ASSUME NEW S, NEW f, f = [x \in S |-> f[x]], NEW g, NEW r, NEW v, g = [f EXCEPT ![r] = v]
    PROVE  g = [x \in S |-> g[x]]
  OBVIOUS

LEMMA ShapesStep == ASSUME PlanOK, ShapesOK, PlacesOK, [Next]_vars PROVE ShapesOK'
  <1>0. /\ call \in [Ranks -> Nat] /\ pc \in [Ranks -> Labels] /\ count \in [Ranks -> Nat]
        /\ local = [r \in Ranks |-> local[r]]
        /\ dealt \in [Workers -> Nat] /\ posted \in [Workers -> Nat]
        /\ inbox = [r \in Workers |-> inbox[r]] /\ outbox = [r \in Workers |-> outbox[r]]
        /\ 0 \in Ranks /\ Workers \subseteq Ranks
    BY RanksAre DEF ShapesOK
  <1>1. CASE RootGather \/ RootResize \/ Reduce \/ UNCHANGED vars
    BY <1>1, RanksAre DEF ShapesOK, RootGather, RootResize, Reduce, vars, Labels
  <1>2. ASSUME NEW r \in Ranks, Run(r) PROVE ShapesOK'
    <2>1. PICK l : local' = [local EXCEPT ![r] = l]
      BY <1>2 DEF Run
    <2>2. /\ call' = call /\ dealt' = dealt /\ posted' = posted
          /\ inbox' = inbox /\ outbox' = outbox /\ count' = [count EXCEPT ![r] = 0]
      BY <1>2 DEF Run
    <2>3. pc' \in [Ranks -> Labels]
      BY <1>0, <1>2 DEF Run, Labels
    <2>4. count' \in [Ranks -> Nat]
      BY <1>0, <2>2
    <2>5. local' = [x \in Ranks |-> local'[x]]
      BY <1>0, <2>1, ShapeOfExcept
    <2> QED BY <1>0, <2>2, <2>3, <2>4, <2>5 DEF ShapesOK
  <1>3. ASSUME NEW r \in Ranks, Leave(r) PROVE ShapesOK'
    <2>1. local' = [local EXCEPT ![r] = <<>>]
      BY <1>3 DEF Leave
    <2>2. /\ posted' = posted /\ inbox' = inbox /\ outbox' = outbox
          /\ count' = [count EXCEPT ![r] = 0] /\ call' = [call EXCEPT ![r] = call[r] + 1]
      BY <1>3 DEF Leave
    <2>3. pc' \in [Ranks -> Labels]
      BY <1>0, <1>3 DEF Leave, Labels
    <2>4. count' \in [Ranks -> Nat] /\ call' \in [Ranks -> Nat]
      BY <1>0, <2>2
    <2>5. local' = [x \in Ranks |-> local'[x]]
      BY <1>0, <2>1, ShapeOfExcept
    <2>6. dealt' \in [Workers -> Nat]
      BY <1>0, <1>3 DEF Leave
    <2> QED BY <1>0, <2>2, <2>3, <2>4, <2>5, <2>6 DEF ShapesOK
  <1>4. ASSUME NEW r \in Workers, Deal(r) \/ TakeProblem(r) PROVE ShapesOK'
    <2>1. PICK b : inbox' = [inbox EXCEPT ![r] = b]
      BY <1>4 DEF Deal, TakeProblem
    <2>2. inbox' = [x \in Workers |-> inbox'[x]]
      BY <1>0, <2>1, ShapeOfExcept
    <2>3. PICK l : local' = local \/ local' = [local EXCEPT ![r] = l]
      BY <1>4 DEF Deal, TakeProblem
    <2>4. local' = [x \in Ranks |-> local'[x]]
      BY <1>0, <2>3, ShapeOfExcept
    <2>5. /\ call' = call /\ pc' = pc /\ outbox' = outbox /\ posted' = posted
          /\ dealt' = dealt \/ dealt' = [dealt EXCEPT ![r] = dealt[r] + 1]
          /\ count' = count \/ count' = [count EXCEPT ![r] = count[r] + 1]
      BY <1>4 DEF Deal, TakeProblem
    <2>6. dealt' \in [Workers -> Nat] /\ count' \in [Ranks -> Nat]
      BY <1>0, <2>5
    <2> QED BY <1>0, <2>2, <2>4, <2>5, <2>6 DEF ShapesOK
  <1>5. ASSUME NEW r \in Workers, EnterGather(r) \/ SendResult(r) PROVE ShapesOK'
    <2>1. PICK o : outbox' = outbox \/ outbox' = [outbox EXCEPT ![r] = o]
      BY <1>5 DEF EnterGather, SendResult
    <2>2. outbox' = [x \in Workers |-> outbox'[x]]
      BY <1>0, <2>1, ShapeOfExcept
    <2>3. /\ call' = call /\ dealt' = dealt /\ inbox' = inbox /\ local' = local
          /\ pc' = pc \/ pc' = [pc EXCEPT ![r] = "end"] \/ pc' = [pc EXCEPT ![r] = "results"]
          /\ posted' = posted \/ posted' = [posted EXCEPT ![r] = call[r]]
          /\ count' = count \/ count' = [count EXCEPT ![r] = count[r] + 1]
      BY <1>5 DEF EnterGather, SendResult
    <2>4. posted' \in [Workers -> Nat] /\ count' \in [Ranks -> Nat]
      BY <1>0, <2>3
    <2>5. pc' \in [Ranks -> Labels]
      BY <1>0, <2>3 DEF Labels
    <2> QED BY <1>0, <2>2, <2>3, <2>4, <2>5 DEF ShapesOK
  <1>6. CASE \E r \in Workers : RecvResult(r)
    <2>1. PICK r \in Workers : RecvResult(r)
      BY <1>6
    <2>2. call[0] \in Calls /\ r \in Ranks
      <3>1. RankOK(0, call[0], pc[0], count[0], local[0]) /\ pc[0] = "results"
        BY <2>1, RanksAre DEF PlacesOK, RecvResult
      <3>2. Len(program) \in Nat
        BY PlanIs
      <3> QED BY <3>1, <3>2, RanksAre DEF RankOK, Calls
    <2>3. PICK c : c = Counted(call[0], r, Head(outbox[r]))
      OBVIOUS
    <2>4. c \in Nat
      BY <2>2, <2>3, PlanIs DEF Counted
    <2>5. /\ call' = call /\ pc' = pc /\ count' = [count EXCEPT ![0] = count[0] + c]
          /\ local' = local /\ dealt' = dealt /\ posted' = posted /\ inbox' = inbox
          /\ outbox' = [outbox EXCEPT ![r] = Tail(outbox[r])]
      BY <2>1, <2>3 DEF RecvResult
    <2>6. outbox' = [x \in Workers |-> outbox'[x]]
      BY <1>0, <2>5, ShapeOfExcept
    <2>7. count' \in [Ranks -> Nat]
      BY <1>0, <2>4, <2>5
    <2> QED BY <1>0, <2>5, <2>6, <2>7 DEF ShapesOK
  <1> QED BY <1>1, <1>2, <1>3, <1>4, <1>5, <1>6, StepIs

\* a rank goes on in its call, or has ended it and may leave it
LEMMA Forward ==
    ASSUME ShapesOK, [Next]_vars, NEW x \in Ranks
    PROVE  \/ call'[x] = call[x] /\ (pc[x] = "end" => pc'[x] = "end")
           \/ /\ call'[x] = call[x] + 1 /\ pc[x] = "end" /\ MayLeave(x)
              /\ pc'[x] \in {"distribute", "done"} /\ count'[x] = 0
  <1>1. CASE RootGather \/ RootResize \/ Reduce \/ UNCHANGED vars
    BY <1>1, RanksAre DEF ShapesOK, RootGather, RootResize, Reduce, vars
  <1>2. CASE \E r \in Ranks : Run(r)
    BY <1>2 DEF ShapesOK, Run
  <1>3. CASE \E r \in Ranks : Leave(r)
    BY <1>3, RanksAre DEF ShapesOK, Leave
  <1>4. CASE \E r \in Workers : Deal(r) \/ TakeProblem(r)
    BY <1>4, RanksAre DEF ShapesOK, Deal, TakeProblem
  <1>5. CASE \E r \in Workers : EnterGather(r) \/ SendResult(r) \/ RecvResult(r)
    <2>1. /\ call' = call
          /\ \/ pc' = pc
             \/ \E r \in Workers : \/ pc' = [pc EXCEPT ![r] = "results"] /\ pc[r] = "gather"
                                   \/ pc' = [pc EXCEPT ![r] = "end"]
      BY <1>5 DEF EnterGather, SendResult, RecvResult
    <2> QED BY <2>1, RanksAre DEF ShapesOK
  <1> QED BY <1>1, <1>2, <1>3, <1>4, <1>5, StepIs

LEMMA OverStays ==
    ASSUME ShapesOK, [Next]_vars, NEW x \in Ranks, NEW k \in Nat, Over(x, k)
    PROVE  Over(x, k)'
  <1>1. call[x] \in Nat
    BY DEF ShapesOK
  <1> QED BY <1>1, Forward DEF Over

\* no rank is past a call that others are still in, as far as the call's end
\* says so
LEMMA EndsStep == ASSUME PlanOK, ShapesOK, PlacesOK, EndsOK, [Next]_vars PROVE EndsOK'
  <1>0. program' = program /\ Calls' = Calls /\ Calls \subseteq Nat /\ 0 \in Ranks
    BY StepIs, PlanFrozen, RanksAre DEF Calls
  <1>1. SUFFICES ASSUME NEW q \in Ranks, NEW k \in Calls, call'[q] > k
        PROVE  /\ program[k].end = "barrier" => \A r \in Ranks : Over(r, k)'
               /\ program[k].end # "none" => Over(0, k)'
    BY <1>0, Zenon DEF EndsOK
  <1>2. call[q] \in Nat /\ k \in Nat
    BY <1>0 DEF ShapesOK
  <1>3. /\ program[k].end = "barrier" => \A r \in Ranks : Over(r, k)
        /\ program[k].end # "none" => Over(0, k)
    <2>1. CASE call[q] > k
      BY <2>1 DEF EndsOK
    <2>2. CASE ~(call[q] > k)
      <3>1. call[q] = k /\ MayLeave(q)
        BY <1>1, <1>2, <2>2, Forward
      <3>2. \A s \in Ranks : Past(s, q) => Over(s, k)
        BY <3>1 DEF Past, Over
      <3>3. program[k].end = "barrier" => \A s \in Ranks : Past(s, q)
        BY <3>1 DEF MayLeave, Call
      <3>4. program[k].end = "bcast" => Past(0, q)
        BY <3>1 DEF MayLeave, Call
      <3>5. program[k].end \in {"barrier", "bcast", "none"}
        BY PlanIs DEF CallType
      <3> QED BY <1>0, <3>2, <3>3, <3>4, <3>5, Zenon
    <2> QED BY <2>1, <2>2
  <1> QED BY <1>0, <1>2, <1>3, OverStays

\* what is on its way to a rank is of the call it is in or of a later one
LEMMA InboxIsAhead ==
    ASSUME PlanOK, ShapesOK, PlacesOK, NEW r \in Workers, NEW k \in Calls,
           TakenBy(r, k) < DealtTo(r, k)
    PROVE  Deals(k, 0) /\ call[r] <= k /\ k <= call[0]
  <1>0. 0 \in Ranks /\ r \in Ranks
    BY RanksAre
  <1>1. PICK a, z : a = call[0] /\ z = call[r]
    OBVIOUS
  <1>2. a \in Nat /\ z \in Nat /\ k \in Nat
    BY <1>0, <1>1 DEF ShapesOK, Calls
  <1>3. PICK n \in Nat : n = nLocalElems(k, r)
    BY <1>0, PlanIs
  <1>4. Deals(k, 0) /\ k <= a
    <2>1. TakenBy(r, k) \in Nat
      BY <1>0, <1>3 DEF TakenBy, ShapesOK
    <2>2. ~Deals(k, 0) \/ k > a => DealtTo(r, k) = 0
      BY <1>1 DEF DealtTo
    <2> QED BY <1>2, <2>1, <2>2
  <1>5. k < z => TakenBy(r, k) = n
    BY <1>1, <1>2, <1>3, <1>4 DEF TakenBy
  <1>6. DealtTo(r, k) <= n
    <2>1. CASE k # a
      BY <1>1, <1>2, <1>3, <1>4, <2>1 DEF DealtTo
    <2>2. CASE k = a
      <3>1. RankOK(0, a, pc[0], count[0], local[0]) /\ RootOK(a, pc[0], count[0], dealt, results)
        BY <1>0, <1>1 DEF PlacesOK
      <3>2. pc[0] # "done"
        <4>1. Len(program) \in Nat
          BY PlanIs
        <4> QED BY <2>2, <3>1, <4>1 DEF RankOK, Calls
      <3>3. dealt[r] <= n
        BY <1>3, <1>4, <2>2, <3>1, <3>2 DEF RootOK
      <3> QED BY <1>1, <1>4, <2>2, <3>3 DEF DealtTo
    <2> QED BY <2>1, <2>2
  <1>7. ~(k < z)
    <2>1. DealtTo(r, k) \in Nat
      BY <1>3 DEF DealtTo, ShapesOK
    <2> QED BY <1>3, <1>5, <1>6, <2>1
  <1> QED BY <1>1, <1>2, <1>4, <1>7

\* a worker that waits for its next problem has it first in its inbox
LEMMA HeadOfInbox ==
    ASSUME PlanOK, ShapesOK, PlacesOK, InboxesOK, NEW r \in Workers, inbox[r] # <<>>,
           pc[r] = "distribute", NEW k \in Calls, k = call[r], Deals(k, 0),
           count[r] < nLocalElems(k, r)
    PROVE  Head(inbox[r]) = <<k, firstGlobalElem(k, r) + count[r]>>
  <1>0. 0 \in Ranks /\ r \in Ranks /\ Calls \subseteq Nat
    BY RanksAre DEF Calls
  <1>1. PICK T, D : T = [j \in Calls |-> TakenBy(r, j)] /\ D = [j \in Calls |-> DealtTo(r, j)]
    OBVIOUS
  <1>2. PICK b : b = inbox[r]
    OBVIOUS
  <1>11. PICK f : f = [x \in Calls |-> firstGlobalElem(x, r)]
    OBVIOUS
  <1>3. Held(f, b, T, D)
    BY <1>1, <1>2, <1>11 DEF InboxesOK, InOK
  <1>4. PICK M : b \in Seq(M)
    BY <1>3 DEF Held
  <1>5. 1 \in 1 .. Len(b) /\ Head(b) = b[1] /\ Len(b) \in Nat
    BY <1>2, <1>4
  <1>6. PICK c \in Nat : c = count[r]
    BY <1>0 DEF ShapesOK
  <1>7. PICK j \in Calls, i \in Nat : b[1] = <<j, f[j] + i>> /\ T[j] <= i /\ i < D[j]
    BY <1>3, <1>5 DEF Held, OnlySent
  <1>8. T[k] = c
    BY <1>0, <1>1, <1>6 DEF TakenBy
  <1>9. call[0] \in Nat /\ j \in Nat /\ k \in Nat /\ k <= j /\ j <= call[0] /\ D[j] \in Int
    <2>1. call[0] \in Nat /\ j \in Nat /\ k \in Nat /\ T[j] \in Int /\ D[j] \in Int
      <3>1. \A x \in Calls : TakenBy(r, x) \in Nat /\ DealtTo(r, x) \in Nat
        <4>1. \A x \in Calls : nLocalElems(x, r) \in Nat
          BY <1>0, PlanIs
        <4> QED BY <1>0, <4>1 DEF TakenBy, DealtTo, ShapesOK
      <3> QED BY <1>0, <1>1, <3>1 DEF ShapesOK
    <2>2. TakenBy(r, j) < DealtTo(r, j)
      BY <1>1, <1>7, <2>1
    <2> QED BY <2>1, <2>2, InboxIsAhead
  <1>10. c < D[k]
    <2>1. CASE j = k
      BY <1>6, <1>7, <1>8, <1>9, <2>1
    <2>2. CASE j # k
      <3>1. D[k] = nLocalElems(k, r)
        BY <1>1, <1>9, <2>2 DEF DealtTo
      <3> QED BY <1>6, <3>1
    <2> QED BY <2>1, <2>2
  <1>12. f[k] \in Nat /\ f[j] \in Nat
    BY <1>0, <1>11, Portions
  <1>13. PICK x \in 1 .. Len(b) : b[x] = <<k, f[k] + c>>
    <2>1. T[k] <= c
      BY <1>6, <1>8
    <2> QED BY <1>3, <1>6, <1>10, <2>1, Zenon DEF Held, AllSent
  <1>14. x = 1
    <2>1. SUFFICES ASSUME x # 1 PROVE FALSE
      OBVIOUS
    <2>2. 1 < x
      BY <1>5, <2>1
    <2>3. b[1][1] < b[x][1] \/ (b[1][1] = b[x][1] /\ b[1][2] < b[x][2])
      BY <1>3, <1>5, <2>2 DEF Held, InOrder
    <2>5. j < k \/ (j = k /\ f[j] + i < f[k] + c)
      BY <1>7, <1>13, <2>3
    <2> QED BY <1>7, <1>8, <1>9, <1>12, <2>5
  <1> QED BY <1>2, <1>5, <1>6, <1>11, <1>13, <1>14

LEMMA PlacesKept ==
    ASSUME ShapesOK, PlacesOK, program' = program, shares' = shares,
           NEW r \in Ranks, NEW k, NEW p, NEW c, NEW l, NEW x,
           call' = [call EXCEPT ![r] = k], pc' = [pc EXCEPT ![r] = p],
           count' = [count EXCEPT ![r] = c], local' = [local EXCEPT ![r] = l],
           RankOK(r, k, p, c, l),
           r = 0 => posted' = posted /\ RootOK(k, p, c, dealt', results'),
           r # 0 => /\ posted' = [posted EXCEPT ![r] = x] /\ PostedOK(k, p, x)
                    /\ dealt' = dealt /\ results' = results
    PROVE  PlacesOK'
  <1>0. 0 \in Ranks /\ Workers = Ranks \ {0}
    BY RanksAre
  <1>1. /\ call \in [Ranks -> Nat] /\ pc \in [Ranks -> Labels] /\ count \in [Ranks -> Nat]
        /\ local = [y \in Ranks |-> local[y]] /\ posted \in [Workers -> Nat]
    BY DEF ShapesOK
  <1>2. call'[r] = k /\ pc'[r] = p /\ count'[r] = c /\ local'[r] = l
    BY <1>1
  <1>3. ASSUME NEW y \in Ranks, y # r
        PROVE  call'[y] = call[y] /\ pc'[y] = pc[y] /\ count'[y] = count[y] /\ local'[y] = local[y]
    BY <1>1, <1>3
  <1>4. ASSUME NEW y \in Ranks PROVE RankOK(y, call'[y], pc'[y], count'[y], local'[y])
    <2>1. CASE y = r
      BY <1>2, <2>1
    <2>2. CASE y # r
      BY <1>3, <2>2, Zenon DEF PlacesOK
    <2> QED BY <2>1, <2>2
  <1>5. RootOK(call'[0], pc'[0], count'[0], dealt', results')
    <2>1. CASE r = 0
      BY <1>2, <2>1
    <2>2. CASE r # 0
      BY <1>0, <1>3, <2>2, Zenon DEF PlacesOK
    <2> QED BY <2>1, <2>2
  <1>6. ASSUME NEW y \in Workers PROVE PostedOK(call'[y], pc'[y], posted'[y])
    <2>1. CASE y = r
      <3>1. posted'[y] = x /\ r # 0
        BY <1>0, <1>1, <2>1
      <3> QED BY <1>2, <2>1, <3>1
    <2>2. CASE y # r
      <3>1. posted'[y] = posted[y] /\ y \in Ranks
        BY <1>0, <1>1, <2>2
      <3> QED BY <1>3, <2>2, <3>1, Zenon DEF PlacesOK
    <2> QED BY <2>1, <2>2
  <1> QED BY <1>4, <1>5, <1>6, ViewFrozen, Zenon DEF PlacesOK

\* a rank's label tells whether it is still in a call
LEMMA InACall ==
    ASSUME PlanOK, ShapesOK, PlacesOK, NEW r \in Ranks
    PROVE  /\ RankOK(r, call[r], pc[r], count[r], local[r])
           /\ call[r] \in Nat /\ pc[r] \in Labels /\ count[r] \in Nat
           /\ pc[r] # "done" => call[r] \in Calls
           /\ call[r] \in Calls => pc[r] # "done"
  <1>1. RankOK(r, call[r], pc[r], count[r], local[r])
    BY DEF PlacesOK
  <1>2. Len(program) \in Nat
    BY PlanIs
  <1> QED BY <1>1, <1>2 DEF RankOK, Calls, ShapesOK

LEMMA DealPlaces ==
    ASSUME PlanOK, ShapesOK, PlacesOK, NEW s \in Workers, Deal(s)
    PROVE  PlacesOK'
  <1>1. /\ program' = program /\ shares' = shares /\ call' = call /\ pc' = pc /\ count' = count
        /\ local' = local /\ posted' = posted /\ results' = results
        /\ dealt' = [dealt EXCEPT ![s] = @ + 1] /\ dealt[s] < nLocalElems(call[0], s)
        /\ pc[0] = "distribute" /\ Deals(call[0], 0)
    BY DEF Deal, Call
  <1>2. /\ call' = [call EXCEPT ![0] = call[0]] /\ pc' = [pc EXCEPT ![0] = pc[0]]
        /\ count' = [count EXCEPT ![0] = count[0]] /\ local' = [local EXCEPT ![0] = local[0]]
    BY <1>1 DEF ShapesOK
  <1>3. 0 \in Ranks /\ Workers \subseteq Ranks
    BY RanksAre
  <1>4. call[0] \in Calls
    BY <1>1, <1>3, InACall
  <1>5. nLocalElems(call[0], s) \in Nat
    BY <1>3, <1>4, PlanIs
  <1>6. RootOK(call[0], pc[0], count[0], dealt, results)
    BY DEF PlacesOK
  <1>7. \A w \in Workers : dealt'[w] = IF w = s THEN dealt[w] + 1 ELSE dealt[w]
    BY <1>1 DEF ShapesOK
  <1>8. RootOK(call[0], pc[0], count[0], dealt', results')
    BY <1>1, <1>5, <1>6, <1>7 DEF RootOK
  <1>9. RankOK(0, call[0], pc[0], count[0], local[0])
    BY <1>3, InACall
  <1>10. PICK r, k, p, c, l : r = 0 /\ k = call[0] /\ p = pc[0] /\ c = count[0] /\ l = local[0]
    OBVIOUS
  <1>11. /\ program' = program /\ shares' = shares /\ r \in Ranks
         /\ call' = [call EXCEPT ![r] = k] /\ pc' = [pc EXCEPT ![r] = p]
         /\ count' = [count EXCEPT ![r] = c] /\ local' = [local EXCEPT ![r] = l]
         /\ RankOK(r, k, p, c, l)
         /\ r = 0 => posted' = posted /\ RootOK(k, p, c, dealt', results')
    BY <1>1, <1>2, <1>3, <1>8, <1>9, <1>10
  <1> QED BY <1>10, <1>11, PlacesKept

LEMMA TakePlaces ==
    ASSUME PlanOK, ShapesOK, PlacesOK, InboxesOK, NEW r \in Workers, TakeProblem(r)
    PROVE  PlacesOK'
  <1>0. r \in Ranks /\ r # 0
    BY RanksAre
  <1>1. PICK k, c, l : k = call[r] /\ c = count[r] /\ l = local[r]
    OBVIOUS
  <1>2. /\ program' = program /\ shares' = shares /\ call' = call /\ pc' = pc
        /\ count' = [count EXCEPT ![r] = c + 1] /\ posted' = posted /\ results' = results
        /\ dealt' = dealt /\ local' = [local EXCEPT ![r] = Append(l, Head(inbox[r]))]
        /\ pc[r] = "distribute" /\ Deals(k, 0) /\ c < nLocalElems(k, r) /\ inbox[r] # <<>>
    <2>1. pc[r] = "distribute" /\ Deals(k, r) /\ Told(r)
      BY <1>1 DEF TakeProblem
    <2>2. Deals(k, 0)
      BY <1>0, <1>1, <2>1, InACall, DealtTogether
    <2> QED BY <1>1, <2>2 DEF TakeProblem
  <1>3. /\ call' = [call EXCEPT ![r] = k] /\ pc' = [pc EXCEPT ![r] = "distribute"]
        /\ posted' = [posted EXCEPT ![r] = posted[r]]
    BY <1>1, <1>2 DEF ShapesOK
  <1>4. k \in Calls /\ c \in Nat /\ RankOK(r, k, "distribute", c, l)
    BY <1>0, <1>1, <1>2, InACall
  <1>5. PICK n \in Nat : n = nLocalElems(k, r)
    BY <1>0, <1>4, PlanIs
  <1>6. PICK f \in Nat : f = firstGlobalElem(k, r)
    BY <1>0, <1>4, Portions
  <1>7. Head(inbox[r]) = <<k, f + c>>
    BY <1>1, <1>2, <1>4, <1>6, HeadOfInbox
  <1>8. l = [i \in 1 .. c |-> <<k, f + i - 1>>]
    BY <1>0, <1>4, <1>6, Zenon DEF RankOK
  <1>9. Append(l, <<k, f + c>>) = [i \in 1 .. c + 1 |-> <<k, f + i - 1>>]
    BY <1>4, <1>6, <1>8, SMTT(40)
  <1>10. RankOK(r, k, "distribute", c + 1, Append(l, <<k, f + c>>))
    <2>1. PICK m : m = Append(l, <<k, f + c>>)
      OBVIOUS
    <2>2. m = [i \in 1 .. c + 1 |-> <<k, firstGlobalElem(k, r) + i - 1>>]
      BY <1>6, <1>9, <2>1
    <2>3. c + 1 <= nLocalElems(k, r) /\ c + 1 \in Nat
      BY <1>2, <1>4, <1>5
    <2>4. RankOK(r, k, "distribute", c + 1, m)
      BY <1>0, <1>2, <1>4, <2>2, <2>3 DEF RankOK
    <2> QED BY <2>1, <2>4
  <1>11. PostedOK(k, "distribute", posted[r])
    BY <1>1, <1>2 DEF PlacesOK
  <1>12. PICK p, d, m, x : p = "distribute" /\ d = c + 1 /\ m = Append(l, <<k, f + c>>) /\ x = posted[r]
    OBVIOUS
  <1>13. /\ program' = program /\ shares' = shares
         /\ call' = [call EXCEPT ![r] = k] /\ pc' = [pc EXCEPT ![r] = p]
         /\ count' = [count EXCEPT ![r] = d] /\ local' = [local EXCEPT ![r] = m]
         /\ RankOK(r, k, p, d, m)
         /\ r # 0 => /\ posted' = [posted EXCEPT ![r] = x] /\ PostedOK(k, p, x)
                     /\ dealt' = dealt /\ results' = results
    BY <1>2, <1>3, <1>7, <1>10, <1>11, <1>12
  <1> QED BY <1>0, <1>13, PlacesKept

LEMMA RunPlaces ==
    ASSUME PlanOK, ShapesOK, PlacesOK, NEW r \in Ranks, Run(r)
    PROVE  PlacesOK'
  <1>0. 0 \in Ranks /\ Workers = Ranks \ {0}
    BY RanksAre
  <1>1. PICK k, l, e : k = call[r] /\ e = program[k].end
                       /\ l = IF r # 0 /\ Deals(k, 0) THEN local[r] ELSE Solved(k, r)
    OBVIOUS
  <1>2. PICK p : p = IF e = "none" THEN "end" ELSE IF program[k].collective THEN "gather" ELSE "results"
    OBVIOUS
  <1>3. pc[r] = "distribute"
    BY DEF Run
  <1>4. /\ program' = program /\ shares' = shares /\ call' = call /\ dealt' = dealt
        /\ posted' = posted /\ results' = results /\ count' = [count EXCEPT ![r] = 0]
    BY DEF Run
  <1>5. pc' = [pc EXCEPT ![r] = p]
    BY <1>1, <1>2, Zenon DEF Run, Call
  <1>8. k \in Calls /\ RankOK(r, k, "distribute", count[r], local[r])
    BY <1>1, <1>3, InACall
  <1>17. Deals(k, r) <=> Deals(k, 0)
    BY <1>1, <1>8, DealtTogether DEF Run
  <1>6. local' = [local EXCEPT ![r] = l]
    BY <1>1, <1>17, Zenon DEF Run, Call, Solved
  <1>7. Deals(k, 0) => IF r = 0 THEN \A s \in Workers : dealt[s] = nLocalElems(call[0], s)
                       ELSE count[r] = nLocalElems(k, r)
    BY <1>1, <1>17 DEF Run
  <1>9. l = Solved(k, r)
    <2>1. CASE r # 0 /\ Deals(k, 0)
      <3>1. local[r] = [i \in 1 .. count[r] |-> <<k, firstGlobalElem(k, r) + i - 1>>]
        BY <1>8, <2>1, Zenon DEF RankOK
      <3>2. count[r] = nLocalElems(k, r)
        BY <1>7, <2>1
      <3>3. local[r] = Solved(k, r)
        BY <3>1, <3>2, Zenon DEF Solved
      <3> QED BY <1>1, <2>1, <3>3
    <2>2. CASE ~(r # 0 /\ Deals(k, 0))
      BY <1>1, <2>2
    <2> QED BY <2>1, <2>2
  <1>10. Length(k, r) \in Nat \/ r = 0
    BY <1>0, <1>8, WeightsGrow
  <1>11. RankOK(r, k, p, 0, l)
    BY <1>1, <1>2, <1>8, <1>9, <1>10 DEF RankOK, Labels
  <1>12. ASSUME r = 0 PROVE RootOK(k, p, 0, dealt, results)
    <2>1. RootOK(k, "distribute", count[0], dealt, results)
      BY <1>1, <1>3, <1>12 DEF PlacesOK
    <2>2. Deals(k, 0) => \A s \in Workers : dealt[s] = nLocalElems(k, s)
      BY <1>1, <1>7, <1>12
    <2>3. \A s \in Workers : nLocalElems(k, s) \in Nat
      BY <1>0, <1>8, PlanIs
    <2>4. p \in {"end", "gather", "results"} /\ (p = "results" => ~program[k].collective)
      BY <1>2
    <2> QED BY <2>1, <2>2, <2>3, <2>4 DEF RootOK
  <1>13. ASSUME r # 0 PROVE PostedOK(k, p, posted[r])
    <2>1. posted[r] \in Nat
      BY <1>0, <1>13 DEF ShapesOK
    <2> QED BY <1>1, <1>2, <2>1 DEF PostedOK
  <1>14. call' = [call EXCEPT ![r] = k] /\ (r # 0 => posted' = [posted EXCEPT ![r] = posted[r]])
    BY <1>0, <1>1, <1>4 DEF ShapesOK
  <1>15. PICK c, x : c = 0 /\ x = posted[r]
    OBVIOUS
  <1>16. /\ program' = program /\ shares' = shares
         /\ call' = [call EXCEPT ![r] = k] /\ pc' = [pc EXCEPT ![r] = p]
         /\ count' = [count EXCEPT ![r] = c] /\ local' = [local EXCEPT ![r] = l]
         /\ RankOK(r, k, p, c, l)
         /\ r = 0 => posted' = posted /\ RootOK(k, p, c, dealt', results')
         /\ r # 0 => /\ posted' = [posted EXCEPT ![r] = x] /\ PostedOK(k, p, x)
                     /\ dealt' = dealt /\ results' = results
    BY <1>4, <1>5, <1>6, <1>11, <1>12, <1>13, <1>14, <1>15
  <1> QED BY <1>16, PlacesKept

LEMMA EnterPlaces ==
    ASSUME PlanOK, ShapesOK, PlacesOK, NEW r \in Workers, EnterGather(r)
    PROVE  PlacesOK'
  <1>0. r \in Ranks /\ r # 0
    BY RanksAre
  <1>1. PICK k, p, c, l : k = call[r] /\ p = "results" /\ c = count[r] /\ l = local[r]
    OBVIOUS
  <1>2. /\ program' = program /\ shares' = shares /\ call' = call /\ count' = count
        /\ local' = local /\ dealt' = dealt /\ results' = results
        /\ pc[r] = "gather" /\ pc' = [pc EXCEPT ![r] = p] /\ posted' = [posted EXCEPT ![r] = k]
    BY <1>1 DEF EnterGather
  <1>3. k \in Calls /\ RankOK(r, k, "gather", c, l)
    BY <1>0, <1>1, <1>2, InACall
  <1>4. Length(k, r) \in Nat
    BY <1>3, WeightsGrow
  <1>5. RankOK(r, k, p, c, l)
    BY <1>0, <1>1, <1>3, <1>4 DEF RankOK, Labels
  <1>6. PostedOK(k, p, k)
    BY <1>3 DEF PostedOK, Calls
  <1>7. /\ call' = [call EXCEPT ![r] = k] /\ count' = [count EXCEPT ![r] = c]
        /\ local' = [local EXCEPT ![r] = l]
    BY <1>0, <1>1, <1>2 DEF ShapesOK
  <1>8. r # 0 => /\ posted' = [posted EXCEPT ![r] = k] /\ PostedOK(k, p, k)
                 /\ dealt' = dealt /\ results' = results
    BY <1>2, <1>6
  <1> QED BY <1>0, <1>2, <1>5, <1>7, <1>8, PlacesKept

LEMMA SendPlaces ==
    ASSUME PlanOK, ShapesOK, PlacesOK, NEW r \in Workers, SendResult(r)
    PROVE  PlacesOK'
  <1>0. r \in Ranks /\ r # 0
    BY RanksAre
  <1>1. PICK k, l : k = call[r] /\ l = local[r]
    OBVIOUS
  <1>2. /\ program' = program /\ shares' = shares /\ call' = call
        /\ local' = local /\ dealt' = dealt /\ results' = results /\ posted' = posted
        /\ pc[r] = "results"
    BY DEF SendResult
  <1>3. k \in Calls /\ count[r] \in Nat /\ RankOK(r, k, "results", count[r], l)
    BY <1>0, <1>1, <1>2, InACall
  <1>4. Length(k, r) \in Nat /\ Len(Messages(r)) = Length(k, r)
    <2>1. program[k].end # "none" /\ local[r] = Solved(k, r)
      BY <1>1, <1>3 DEF RankOK
    <2> QED BY <1>1, <1>3, <2>1, WeightsGrow, MessagesAre
  <1>5. PICK p, c : /\ pc' = [pc EXCEPT ![r] = p] /\ count' = [count EXCEPT ![r] = c]
                    /\ \/ p = "results" /\ c = count[r] + 1 /\ count[r] < Length(k, r)
                       \/ p = "end" /\ c = count[r]
    <2>1. CASE count[r] < Len(Messages(r))
      <3>1. pc' = [pc EXCEPT ![r] = "results"] /\ count' = [count EXCEPT ![r] = count[r] + 1]
        BY <1>2, <2>1 DEF SendResult, ShapesOK
      <3> QED BY <1>4, <2>1, <3>1
    <2>2. CASE ~(count[r] < Len(Messages(r)))
      <3>1. pc' = [pc EXCEPT ![r] = "end"] /\ count' = [count EXCEPT ![r] = count[r]]
        BY <1>2, <2>2 DEF SendResult, ShapesOK
      <3> QED BY <3>1
    <2> QED BY <2>1, <2>2
  <1>6. RankOK(r, k, p, c, l)
    BY <1>0, <1>3, <1>4, <1>5 DEF RankOK, Labels
  <1>7. PICK x : x = posted[r]
    OBVIOUS
  <1>8. PostedOK(k, p, x)
    <2>1. PostedOK(k, "results", x)
      BY <1>1, <1>2, <1>7 DEF PlacesOK
    <2> QED BY <1>5, <2>1 DEF PostedOK
  <1>9. /\ call' = [call EXCEPT ![r] = k] /\ local' = [local EXCEPT ![r] = l]
        /\ posted' = [posted EXCEPT ![r] = x]
    BY <1>0, <1>1, <1>2, <1>7 DEF ShapesOK
  <1>10. r # 0 => /\ posted' = [posted EXCEPT ![r] = x] /\ PostedOK(k, p, x)
                  /\ dealt' = dealt /\ results' = results
    BY <1>2, <1>8, <1>9
  <1> QED BY <1>0, <1>2, <1>5, <1>6, <1>9, <1>10, PlacesKept

LEMMA RootPlaces ==
    ASSUME PlanOK, ShapesOK, PlacesOK, RootGather \/ RootResize \/ Reduce
    PROVE  PlacesOK'
  <1>0. 0 \in Ranks
    BY RanksAre
  <1>1. PICK r, k, c, l : r = 0 /\ k = call[0] /\ c = count[0] /\ l = local[0]
    OBVIOUS
  <1>2. /\ program' = program /\ shares' = shares /\ call' = call /\ count' = count
        /\ local' = local /\ dealt' = dealt /\ posted' = posted
        /\ pc[0] \in {"gather", "results"}
    BY DEF RootGather, RootResize, Reduce
  <1>3. k \in Calls /\ c \in Nat /\ RankOK(0, k, pc[0], c, l) /\ RootOK(k, pc[0], c, dealt, results)
    BY <1>0, <1>1, <1>2, InACall DEF PlacesOK
  <1>4. PICK p : /\ pc' = [pc EXCEPT ![0] = p]
                 /\ \/ /\ p = "results" /\ DOMAIN results' = 0 .. nGlobalElems(k) - 1
                       /\ pc[0] = "gather" \/ pc[0] = "results"
                    \/ p = "end" /\ pc[0] = "results"
    <2>1. CASE RootGather
      <3>1. DOMAIN results' = 0 .. nGlobalElems(k) - 1
        BY <1>1, <2>1 DEF RootGather, Resized
      <3> QED BY <2>1, <3>1 DEF RootGather
    <2>2. CASE RootResize
      <3>1. DOMAIN results' = 0 .. nGlobalElems(k) - 1
        BY <1>1, <2>2 DEF RootResize, Resized
      <3>2. pc' = [pc EXCEPT ![0] = "results"] /\ pc[0] = "results"
        BY <1>0, <2>2 DEF RootResize, ShapesOK
      <3> QED BY <3>1, <3>2
    <2>3. CASE Reduce
      BY <2>3 DEF Reduce
    <2> QED BY <2>1, <2>2, <2>3
  <1>5. RankOK(r, k, p, c, l)
    BY <1>1, <1>3, <1>4 DEF RankOK, Labels
  <1>6. RootOK(k, p, c, dealt', results')
    <2>1. CASE p = "results"
      <3>1. nGlobalElems(k) \in Nat \ {0}
        BY <1>3, PlanIs
      <3>2. DOMAIN results' = 0 .. nGlobalElems(k) - 1
        BY <1>4, <2>1
      <3>3. 0 \in DOMAIN results'
        BY <3>1, <3>2
      <3>4. results' # <<>>
        BY <3>3
      <3> QED BY <1>2, <1>3, <1>4, <2>1, <3>2, <3>4 DEF RootOK
    <2>2. CASE p # "results"
      BY <1>2, <1>3, <1>4, <2>2 DEF RootOK
    <2> QED BY <2>1, <2>2
  <1>7. /\ call' = [call EXCEPT ![r] = k] /\ count' = [count EXCEPT ![r] = c]
        /\ local' = [local EXCEPT ![r] = l] /\ pc' = [pc EXCEPT ![r] = p] /\ r \in Ranks
    BY <1>0, <1>1, <1>2, <1>4 DEF ShapesOK
  <1>8. r = 0 => posted' = posted /\ RootOK(k, p, c, dealt', results')
    BY <1>2, <1>6
  <1>9. PICK x : x = 0
    OBVIOUS
  <1>10. r # 0 => /\ posted' = [posted EXCEPT ![r] = x] /\ PostedOK(k, p, x)
                  /\ dealt' = dealt /\ results' = results
    BY <1>1
  <1> QED BY <1>2, <1>5, <1>7, <1>8, <1>10, PlacesKept

LEMMA RecvPlaces ==
    ASSUME PlanOK, ShapesOK, PlacesOK, NEW s \in Workers, RecvResult(s)
    PROVE  PlacesOK'
  <1>0. 0 \in Ranks /\ s \in Ranks
    BY RanksAre
  <1>1. PICK r, k, p, l : r = 0 /\ k = call[0] /\ p = "results" /\ l = local[0]
    OBVIOUS
  <1>2. /\ program' = program /\ shares' = shares /\ call' = call
        /\ local' = local /\ dealt' = dealt /\ posted' = posted
        /\ pc[0] = "results" /\ pc' = pc /\ results # <<>>
    BY DEF RecvResult
  <1>3. k \in Calls /\ RankOK(0, k, p, count[0], l) /\ RootOK(k, p, count[0], dealt, results)
    BY <1>0, <1>1, <1>2, InACall DEF PlacesOK
  <1>4. count[0] \in Nat
    BY <1>0 DEF ShapesOK
  <1>5. Counted(k, s, Head(outbox[s])) \in Nat
    BY <1>0, <1>3, PlanIs DEF Counted
  <1>6. PICK c \in Nat : count' = [count EXCEPT ![0] = c]
    <2>1. PICK d : d = Counted(k, s, Head(outbox[s]))
      OBVIOUS
    <2>2. count' = [count EXCEPT ![0] = count[0] + d]
      BY <1>1, <2>1 DEF RecvResult
    <2>3. count[0] + d \in Nat
      BY <1>4, <1>5, <2>1
    <2> QED BY <2>2, <2>3
  <1>7. RankOK(r, k, p, c, l)
    BY <1>1, <1>3, <1>6 DEF RankOK
  <1>8. DOMAIN results' = 0 .. nGlobalElems(k) - 1 /\ results' # <<>>
    <2>1. DOMAIN results = 0 .. nGlobalElems(k) - 1
      BY <1>1, <1>2, <1>3 DEF RootOK
    <2>2. DOMAIN results' = DOMAIN results
      BY DEF RecvResult
    <2>3. nGlobalElems(k) \in Nat \ {0}
      BY <1>3, PlanIs
    <2>4. 0 \in DOMAIN results'
      BY <2>1, <2>2, <2>3
    <2>5. results' # <<>>
      BY <2>4
    <2> QED BY <2>1, <2>2, <2>5
  <1>9. RootOK(k, p, c, dealt', results')
    BY <1>1, <1>2, <1>3, <1>8 DEF RootOK
  <1>10. /\ call' = [call EXCEPT ![r] = k] /\ count' = [count EXCEPT ![r] = c]
         /\ local' = [local EXCEPT ![r] = l] /\ pc' = [pc EXCEPT ![r] = p] /\ r \in Ranks
    BY <1>0, <1>1, <1>2, <1>6 DEF ShapesOK
  <1>11. r = 0 => posted' = posted /\ RootOK(k, p, c, dealt', results')
    BY <1>2, <1>9
  <1>12. PICK x : x = 0
    OBVIOUS
  <1>13. r # 0 => /\ posted' = [posted EXCEPT ![r] = x] /\ PostedOK(k, p, x)
                  /\ dealt' = dealt /\ results' = results
    BY <1>1
  <1> QED BY <1>2, <1>7, <1>10, <1>11, <1>13, PlacesKept

LEMMA LeavePlaces ==
    ASSUME PlanOK, ShapesOK, PlacesOK, NEW r \in Ranks, Leave(r)
    PROVE  PlacesOK'
  <1>0. 0 \in Ranks /\ Workers = Ranks \ {0}
    BY RanksAre
  <1>1. PICK j : j = call[r]
    OBVIOUS
  <1>2. PICK p : p = IF j = Len(program) THEN "done" ELSE "distribute"
    OBVIOUS
  <1>3. PICK k, c, l, x : k = j + 1 /\ c = 0 /\ l = <<>> /\ x = posted[r]
    OBVIOUS
  <1>4. /\ program' = program /\ shares' = shares /\ posted' = posted /\ pc[r] = "end"
        /\ call' = [call EXCEPT ![r] = k] /\ pc' = [pc EXCEPT ![r] = p]
        /\ count' = [count EXCEPT ![r] = c] /\ local' = [local EXCEPT ![r] = l]
    BY <1>1, <1>2, <1>3 DEF Leave
  <1>5. j \in Calls
    BY <1>1, <1>4, InACall
  <1>6. Len(program) \in Nat /\ j \in 1 .. Len(program)
    BY <1>5, PlanIs DEF Calls
  <1>7. p = "distribute" => k \in Calls
    BY <1>2, <1>3, <1>6 DEF Calls
  <1>8. RankOK(r, k, p, c, l)
    <2>1. p = "distribute" => nLocalElems(k, r) \in Nat
      BY <1>7, PlanIs
    <2>2. l = [i \in 1 .. c |-> <<k, firstGlobalElem(k, r) + i - 1>>]
      BY <1>3
    <2> QED BY <1>2, <1>3, <1>6, <2>1, <2>2 DEF RankOK, Labels
  <1>9. r = 0 => posted' = posted /\ RootOK(k, p, c, dealt', results')
    <2>1. SUFFICES ASSUME r = 0 PROVE RootOK(k, p, c, dealt', results')
      BY <1>4
    <2>2. dealt' = [s \in Workers |-> 0] /\ results' = <<>>
      BY <2>1 DEF Leave
    <2>3. \A s \in Workers : p = "distribute" => nLocalElems(k, s) \in Nat
      BY <1>0, <1>7, PlanIs
    <2> QED BY <1>2, <1>3, <2>2, <2>3 DEF RootOK
  <1>10. r # 0 => /\ posted' = [posted EXCEPT ![r] = x] /\ PostedOK(k, p, x)
                  /\ dealt' = dealt /\ results' = results
    <2>1. SUFFICES ASSUME r # 0
          PROVE  /\ posted' = [posted EXCEPT ![r] = x] /\ PostedOK(k, p, x)
                 /\ dealt' = dealt /\ results' = results
      OBVIOUS
    <2>2. dealt' = dealt /\ results' = results
      BY <2>1 DEF Leave
    <2>3. posted' = [posted EXCEPT ![r] = x] /\ x \in Nat
      BY <1>0, <1>3, <1>4, <2>1 DEF ShapesOK
    <2> QED BY <1>2, <2>2, <2>3 DEF PostedOK
  <1> QED BY <1>4, <1>8, <1>9, <1>10, PlacesKept

LEMMA PlacesStep ==
    ASSUME PlanOK, ShapesOK, PlacesOK, InboxesOK, [Next]_vars
    PROVE  PlacesOK'
  <1>1. CASE UNCHANGED vars
    <2>1. /\ program' = program /\ shares' = shares /\ call' = call /\ pc' = pc /\ count' = count
          /\ local' = local /\ dealt' = dealt /\ posted' = posted /\ results' = results
      BY <1>1 DEF vars
    <2> QED BY <2>1, ViewFrozen, Zenon DEF PlacesOK
  <1> QED BY <1>1, StepIs, DealPlaces, TakePlaces, RunPlaces, EnterPlaces, SendPlaces, RootPlaces,
             RecvPlaces, LeavePlaces

-----------------------------------------------------------------------------
(* Messages to rank 0 *)

\* what a step other than rank 0's receive does to what a worker has sent
LEMMA SenderMoves ==
    ASSUME PlanOK, ShapesOK, PlacesOK, FlowsOK, [Next]_vars, \A r \in Workers : ~RecvResult(r),
           NEW x \in Workers
    PROVE  \/ /\ call'[x] = call[x] /\ outbox'[x] = outbox[x]
              /\ SentBy(x, call[x], pc'[x], count'[x]) = SentBy(x, call[x], pc[x], count[x])
           \/ /\ call'[x] = call[x] /\ pc[x] = "results" /\ pc'[x] = "results"
              /\ count'[x] = count[x] + 1
              /\ outbox'[x] = Append(outbox[x], Sends(call[x], x, count[x] + 1))
           \/ /\ call'[x] = call[x] + 1 /\ pc[x] = "end" /\ MayLeave(x)
              /\ pc'[x] \in {"distribute", "done"} /\ outbox'[x] = outbox[x]
  <1>0. x \in Ranks /\ x # 0 /\ 0 \in Ranks
    BY RanksAre
  <1>1. RankOK(x, call[x], pc[x], count[x], local[x]) /\ call[x] \in Nat /\ count[x] \in Nat
    BY <1>0, InACall
  <1>2. CASE RootGather \/ RootResize \/ Reduce \/ UNCHANGED vars
    BY <1>0, <1>2 DEF ShapesOK, RootGather, RootResize, Reduce, vars
  <1>3. CASE \E r \in Workers : Deal(r) \/ TakeProblem(r)
    <2>1. /\ call' = call /\ pc' = pc /\ outbox' = outbox
          /\ count'[x] = count[x] \/ pc[x] = "distribute"
      BY <1>0, <1>3 DEF Deal, TakeProblem, ShapesOK
    <2> QED BY <2>1 DEF SentBy
  <1>4. CASE \E r \in Workers : EnterGather(r)
    <2>1. PICK r \in Workers : EnterGather(r)
      BY <1>4
    <2>2. /\ call' = call /\ outbox' = outbox /\ count' = count /\ pc[r] = "gather"
          /\ pc' = [pc EXCEPT ![r] = "results"]
      BY <2>1 DEF EnterGather
    <2>3. CASE x = r
      <3>1. count[x] = 0
        BY <1>1, <2>2, <2>3 DEF RankOK
      <3>2. pc[x] = "gather" /\ pc'[x] = "results" /\ count'[x] = 0
        BY <1>0, <2>2, <2>3, <3>1 DEF ShapesOK
      <3> QED BY <2>2, <3>2 DEF SentBy
    <2>4. CASE x # r
      BY <1>0, <2>2, <2>4 DEF ShapesOK
    <2> QED BY <2>3, <2>4
  <1>5. CASE \E r \in Workers : SendResult(r)
    <2>1. PICK r \in Workers : SendResult(r)
      BY <1>5
    <2>2. CASE x # r
      <3>1. /\ call' = call /\ outbox'[x] = outbox[x] /\ count'[x] = count[x] /\ pc'[x] = pc[x]
        BY <1>0, <2>1, <2>2 DEF SendResult, ShapesOK
      <3> QED BY <3>1
    <2>3. CASE x = r
      <3>1. pc[x] = "results" /\ call' = call
        BY <2>1, <2>3 DEF SendResult
      <3>2. PICK k \in Calls : k = call[x]
        BY <1>0, <3>1, InACall
      <3>3. program[k].end # "none" /\ local[x] = Solved(k, x) /\ count[x] <= Length(k, x)
        BY <1>0, <1>1, <3>1, <3>2 DEF RankOK
      <3>4. /\ Len(Messages(x)) = Length(k, x) /\ Length(k, x) \in Nat
            /\ \A g \in 1 .. Length(k, x) : Messages(x)[g] = Sends(k, x, g)
        BY <3>2, <3>3, MessagesAre, WeightsGrow
      <3>5. CASE count[x] < Length(k, x)
        <4>1. /\ outbox'[x] = Append(outbox[x], Messages(x)[count[x] + 1])
              /\ count'[x] = count[x] + 1 /\ pc'[x] = pc[x]
          BY <1>0, <2>1, <2>3, <3>4, <3>5 DEF SendResult, ShapesOK
        <4>2. Messages(x)[count[x] + 1] = Sends(k, x, count[x] + 1)
          BY <1>1, <3>4, <3>5
        <4> QED BY <3>1, <3>2, <4>1, <4>2
      <3>6. CASE ~(count[x] < Length(k, x))
        <4>1. outbox' = outbox /\ count' = count /\ pc'[x] = "end"
          BY <1>0, <2>1, <2>3, <3>4, <3>6 DEF SendResult, ShapesOK
        <4>2. count[x] = Length(k, x)
          BY <1>1, <3>3, <3>4, <3>6
        <4> QED BY <3>1, <3>2, <4>1, <4>2 DEF SentBy
      <3> QED BY <3>5, <3>6
    <2> QED BY <2>2, <2>3
  <1>6. CASE \E r \in Ranks : Run(r)
    <2>1. PICK r \in Ranks : Run(r)
      BY <1>6
    <2>2. /\ call' = call /\ outbox' = outbox /\ pc[r] = "distribute"
          /\ count' = [count EXCEPT ![r] = 0]
      BY <2>1 DEF Run
    <2>3. CASE x # r
      <3>1. count'[x] = count[x] /\ pc'[x] = pc[x]
        BY <1>0, <2>1, <2>2, <2>3 DEF Run, ShapesOK
      <3> QED BY <2>2, <3>1
    <2>4. CASE x = r
      <3>1. count'[x] = 0 /\ pc[x] = "distribute"
        BY <1>0, <2>2, <2>4 DEF ShapesOK
      <3>2. pc'[x] \in {"end", "gather", "results"} /\ (pc'[x] = "end" => program[call[x]].end = "none")
        BY <1>0, <2>1, <2>4 DEF Run, Call, ShapesOK
      <3>3. pc'[x] = "end" => Length(call[x], x) = 0
        BY <3>2 DEF Length
      <3> QED BY <2>2, <3>1, <3>2, <3>3 DEF SentBy
    <2> QED BY <2>3, <2>4
  <1>7. CASE \E r \in Ranks : Leave(r)
    <2>1. PICK r \in Ranks : Leave(r)
      BY <1>7
    <2>2. /\ outbox' = outbox /\ pc[r] = "end" /\ MayLeave(r)
          /\ call' = [call EXCEPT ![r] = call[r] + 1] /\ count' = [count EXCEPT ![r] = 0]
          /\ pc' = [pc EXCEPT ![r] = IF call[r] = Len(program) THEN "done" ELSE "distribute"]
      BY <2>1 DEF Leave
    <2>3. CASE x # r
      <3>1. count'[x] = count[x] /\ pc'[x] = pc[x] /\ call'[x] = call[x]
        BY <1>0, <2>2, <2>3 DEF ShapesOK
      <3> QED BY <2>2, <3>1
    <2>4. CASE x = r
      <3>1. call'[x] = call[x] + 1 /\ pc'[x] \in {"distribute", "done"}
        BY <1>0, <2>2, <2>4 DEF ShapesOK
      <3> QED BY <2>2, <2>4, <3>1
    <2> QED BY <2>3, <2>4
  <1> QED BY <1>2, <1>3, <1>4, <1>5, <1>6, <1>7, StepIs

LEMMA SendersStep ==
    ASSUME PlanOK, ShapesOK, PlacesOK, FlowsOK, [Next]_vars, \A r \in Workers : ~RecvResult(r),
           NEW x \in Workers
    PROVE  /\ OutOK(x, call'[x], SentBy(x, call'[x], pc'[x], count'[x]), outbox'[x])
           /\ call'[x] > call'[0] => Len(outbox'[x]) = SentBy(x, call'[x], pc'[x], count'[x])
           /\ \A j \in Calls : GotAs(x, call'[x], pc'[x], count'[x], outbox'[x], j) = GotOf(x, j)
  <1>0. x \in Ranks /\ x # 0 /\ 0 \in Ranks /\ Calls \subseteq Nat
    BY RanksAre DEF Calls
  <1>1. PICK k, p, c, o : k = call[x] /\ p = pc[x] /\ c = count[x] /\ o = outbox[x]
    OBVIOUS
  <1>2. RankOK(x, k, p, c, local[x]) /\ k \in Nat /\ c \in Nat /\ (p # "done" => k \in Calls)
    BY <1>0, <1>1, InACall
  <1>3. PICK s : s = SentBy(x, k, p, c)
    OBVIOUS
  <1>4. s \in Nat
    <2>1. p # "done" => Length(k, x) \in Nat
      BY <1>2, WeightsGrow
    <2> QED BY <1>2, <1>3, <2>1 DEF SentBy
  <1>5. OutOK(x, k, s, o) /\ (k > call[0] => Len(o) = s)
    BY <1>1, <1>3 DEF FlowsOK
  <1>6. PICK M : o \in Seq(M)
    BY <1>5 DEF OutOK
  <1>7. Len(o) \in Nat /\ Len(o) <= s
    BY <1>5, <1>6 DEF OutOK
  <1>8. call[0] \in Nat /\ call'[0] \in Nat /\ call'[0] >= call[0]
    <2>1. call[0] \in Nat
      BY <1>0 DEF ShapesOK
    <2> QED BY <1>0, <2>1, Forward
  <1>9. PICK h, q, d, w : h = call'[x] /\ q = pc'[x] /\ d = count'[x] /\ w = outbox'[x]
    OBVIOUS
  <1>10. \A j \in Calls : GotOf(x, j) = GotAs(x, k, p, c, o, j)
    BY <1>1 DEF GotOf
  <1>11. CASE h = k /\ w = o /\ SentBy(x, k, q, d) = s
    <2>1. \A j \in Calls : GotAs(x, h, q, d, w, j) = GotAs(x, k, p, c, o, j)
      BY <1>3, <1>11 DEF GotAs
    <2>2. h > call'[0] => k > call[0]
      BY <1>2, <1>8, <1>11
    <2> QED BY <1>5, <1>9, <1>10, <1>11, <2>1, <2>2
  <1>12. CASE h = k /\ p = "results" /\ q = "results" /\ d = c + 1 /\ w = Append(o, Sends(k, x, c + 1))
    <2>1. s = c /\ SentBy(x, k, q, d) = c + 1
      BY <1>3, <1>12 DEF SentBy
    <2>2. PICK m : m = Sends(k, x, c + 1)
      OBVIOUS
    <2>3. /\ Len(w) = Len(o) + 1 /\ w[Len(o) + 1] = m /\ \A i \in 1 .. Len(o) : w[i] = o[i]
      BY <1>6, <1>12, <2>2
    <2>4. \E N : w \in Seq(N)
      <3>1. o \in Seq(M \cup {m}) /\ m \in M \cup {m}
        BY <1>6
      <3>2. w \in Seq(M \cup {m})
        BY <1>12, <2>2, <3>1
      <3> QED BY <3>2
    <2>5. ASSUME NEW i \in 1 .. Len(w) PROVE w[i] = Sends(k, x, (c + 1) - Len(w) + i)
      <3>1. CASE i \in 1 .. Len(o)
        <4>1. o[i] = Sends(k, x, s - Len(o) + i)
          BY <1>5, <3>1 DEF OutOK
        <4>2. s - Len(o) + i = (c + 1) - Len(w) + i
          BY <1>2, <1>7, <2>1, <2>3
        <4> QED BY <2>3, <3>1, <4>1, <4>2
      <3>2. CASE i = Len(o) + 1
        <4>1. (c + 1) - Len(w) + i = c + 1
          BY <1>2, <1>7, <2>3, <3>2
        <4> QED BY <2>2, <2>3, <3>2, <4>1
      <3> QED BY <1>7, <2>3, <3>1, <3>2
    <2>6. OutOK(x, k, c + 1, w)
      BY <1>2, <1>7, <2>1, <2>3, <2>4, <2>5 DEF OutOK
    <2>7. \A j \in Calls : GotAs(x, h, q, d, w, j) = GotAs(x, k, p, c, o, j)
      <3>1. (c + 1) - Len(w) = c - Len(o)
        BY <1>2, <1>7, <2>3
      <3>2. SentBy(x, k, q, d) - Len(w) = SentBy(x, k, p, c) - Len(o)
        BY <1>3, <2>1, <3>1
      <3> QED BY <1>12, <3>2 DEF GotAs
    <2>8. h > call'[0] => Len(w) = c + 1
      BY <1>2, <1>5, <1>7, <1>8, <1>12, <2>1, <2>3
    <2> QED BY <1>9, <1>10, <1>12, <2>1, <2>6, <2>7, <2>8
  <1>13. CASE h = k + 1 /\ p = "end" /\ MayLeave(x) /\ q \in {"distribute", "done"} /\ w = o
    <2>1. k \in Calls /\ s = Length(k, x) /\ SentBy(x, h, q, d) = 0
      BY <1>2, <1>3, <1>13 DEF SentBy
    <2>2. Len(o) = 0
      <3>1. CASE program[k].end = "none"
        BY <1>4, <1>7, <2>1, <3>1 DEF Length
      <3>2. CASE program[k].end # "none"
        <4>1. program[k].end \in {"barrier", "bcast", "none"}
          BY <2>1, PlanIs DEF CallType
        <4>2. Past(0, x)
          BY <1>0, <1>1, <1>13, <3>2, <4>1 DEF MayLeave, Call
        <4>3. Over(0, k)
          BY <1>1, <4>2 DEF Past, Over
        <4>4. GotOf(x, k) = Length(k, x)
          BY <2>1, <4>3 DEF FlowsOK
        <4>5. GotOf(x, k) = s - Len(o)
          <5>1. GotOf(x, k) = GotAs(x, k, p, c, o, k)
            BY <1>10, <2>1
          <5>2. ~(k > k)
            BY <1>2
          <5>3. GotAs(x, k, p, c, o, k) = SentBy(x, k, p, c) - Len(o)
            BY <5>2, Zenon DEF GotAs
          <5> QED BY <1>3, <5>1, <5>3
        <4> QED BY <1>4, <1>7, <2>1, <4>4, <4>5
      <3> QED BY <3>1, <3>2
    <2>3. OutOK(x, h, 0, w)
      BY <1>6, <1>13, <2>2 DEF OutOK
    <2>4. ASSUME NEW j \in Calls PROVE GotAs(x, h, q, d, w, j) = GotAs(x, k, p, c, o, j)
      <3>0. j \in Nat
        BY <1>0
      <3>1. CASE j < k
        BY <1>2, <1>13, <3>0, <3>1 DEF GotAs
      <3>2. CASE j = k
        <4>1. GotAs(x, h, q, d, w, j) = Length(k, x)
          BY <1>2, <1>13, <3>2 DEF GotAs
        <4>2. GotAs(x, k, p, c, o, j) = s - Len(o)
          BY <1>2, <1>3, <3>2 DEF GotAs
        <4> QED BY <1>4, <2>1, <2>2, <4>1, <4>2
      <3>3. CASE j > k
        <4>1. GotAs(x, k, p, c, o, j) = 0
          BY <1>2, <3>0, <3>3 DEF GotAs
        <4>2. GotAs(x, h, q, d, w, j) \in {0, SentBy(x, h, q, d) - Len(w)}
          BY <1>2, <1>13, <3>0, <3>3 DEF GotAs
        <4> QED BY <1>13, <2>1, <2>2, <4>1, <4>2
      <3> QED BY <1>2, <3>0, <3>1, <3>2, <3>3
    <2> QED BY <1>9, <1>10, <1>13, <2>1, <2>2, <2>3, <2>4
  <1> QED
    <2>1. \/ h = k /\ w = o /\ SentBy(x, k, q, d) = s
          \/ h = k /\ p = "results" /\ q = "results" /\ d = c + 1 /\ w = Append(o, Sends(k, x, c + 1))
          \/ h = k + 1 /\ p = "end" /\ MayLeave(x) /\ q \in {"distribute", "done"} /\ w = o
      BY <1>1, <1>3, <1>9, SenderMoves
    <2> QED BY <1>11, <1>12, <1>13, <2>1

LEMMA GotOfBounds ==
    ASSUME PlanOK, ShapesOK, PlacesOK, FlowsOK, NEW r \in Workers, NEW j \in Calls
    PROVE  /\ GotOf(r, j) \in Nat /\ GotOf(r, j) <= Length(j, r)
           /\ call[r] = j => GotOf(r, j) = SentBy(r, j, pc[r], count[r]) - Len(outbox[r])
           /\ call[r] < j => GotOf(r, j) = 0
           /\ call[r] > j => GotOf(r, j) = Length(j, r)
           /\ Len(outbox[r]) \in Nat /\ SentBy(r, call[r], pc[r], count[r]) \in Nat
           /\ Len(outbox[r]) <= SentBy(r, call[r], pc[r], count[r])
           /\ SentBy(r, j, pc[r], count[r]) <= Length(j, r) \/ call[r] # j
  <1>0. r \in Ranks /\ r # 0 /\ j \in Nat
    BY RanksAre DEF Calls
  <1>1. PICK k, p, c, o : k = call[r] /\ p = pc[r] /\ c = count[r] /\ o = outbox[r]
    OBVIOUS
  <1>2. RankOK(r, k, p, c, local[r]) /\ k \in Nat /\ c \in Nat /\ (p # "done" => k \in Calls)
    BY <1>0, <1>1, InACall
  <1>3. PICK L \in Nat : L = Length(j, r)
    BY WeightsGrow
  <1>4. OutOK(r, k, SentBy(r, k, p, c), o)
    BY <1>1 DEF FlowsOK
  <1>5. PICK M : o \in Seq(M)
    BY <1>4 DEF OutOK
  <1>6. Len(o) \in Nat /\ Len(o) <= SentBy(r, k, p, c)
    BY <1>4, <1>5 DEF OutOK
  <1>7. SentBy(r, k, p, c) \in Nat
    <2>1. p # "done" => Length(k, r) \in Nat
      BY <1>2, WeightsGrow
    <2> QED BY <1>2, <2>1 DEF SentBy
  <1>8. CASE k = j
    <2>1. SentBy(r, j, p, c) <= L
      <3>1. p = "results" => c <= L
        BY <1>0, <1>2, <1>3, <1>8 DEF RankOK
      <3> QED BY <1>3, <3>1 DEF SentBy
    <2>2. GotOf(r, j) = SentBy(r, j, p, c) - Len(o)
      BY <1>0, <1>1, <1>8 DEF GotOf, GotAs
    <2> QED BY <1>0, <1>1, <1>3, <1>6, <1>7, <1>8, <2>1, <2>2
  <1>9. CASE k > j
    BY <1>0, <1>1, <1>2, <1>3, <1>6, <1>7, <1>9 DEF GotOf, GotAs
  <1>10. CASE k < j
    BY <1>0, <1>1, <1>2, <1>3, <1>6, <1>7, <1>10 DEF GotOf, GotAs
  <1> QED BY <1>0, <1>2, <1>8, <1>9, <1>10

\* what is on its way to rank 0 is of its call or a later one, and what it is
\* about to receive is the next message of a worker in the same call
LEMMA HeadIsOfCall ==
    ASSUME PlanOK, ShapesOK, PlacesOK, EndsOK, FlowsOK, NEW r \in Workers, outbox[r] # <<>>
    PROVE  /\ call[r] \in Calls /\ call[r] >= call[0]
           /\ pc[0] = "results" =>
                 /\ call[r] = call[0] /\ GotOf(r, call[r]) < Length(call[r], r)
                 /\ Head(outbox[r]) = Sends(call[r], r, GotOf(r, call[r]) + 1)
  <1>0. r \in Ranks /\ r # 0 /\ 0 \in Ranks /\ Calls \subseteq Nat
    BY RanksAre DEF Calls
  <1>1. PICK k, o, s : k = call[r] /\ o = outbox[r] /\ s = SentBy(r, call[r], pc[r], count[r])
    OBVIOUS
  <1>2. OutOK(r, k, s, o)
    BY <1>1 DEF FlowsOK
  <1>3. PICK M : o \in Seq(M)
    BY <1>2 DEF OutOK
  <1>4. Len(o) \in Nat /\ Len(o) > 0 /\ Len(o) <= s
    BY <1>1, <1>2, <1>3 DEF OutOK
  <1>5. k \in Calls
    <2>1. pc[r] # "done"
      BY <1>1, <1>4 DEF SentBy
    <2> QED BY <1>0, <1>1, <2>1, InACall
  <1>6. /\ GotOf(r, k) = s - Len(o) /\ s \in Nat /\ s <= Length(k, r) /\ Length(k, r) \in Nat
    BY <1>1, <1>5, GotOfBounds, WeightsGrow
  <1>7. call[0] \in Nat /\ k \in Nat
    BY <1>0, <1>5 DEF ShapesOK
  <1>8. k >= call[0]
    <2>1. SUFFICES ASSUME k < call[0] PROVE FALSE
      BY <1>7
    <2>2. GotOf(r, k) = Length(k, r)
      BY <1>5, <1>7, <2>1 DEF FlowsOK, Over
    <2> QED BY <1>4, <1>6, <2>2
  <1>9. ASSUME pc[0] = "results"
        PROVE  k = call[0] /\ GotOf(r, k) < Length(k, r) /\ Head(o) = Sends(k, r, GotOf(r, k) + 1)
    <2>1. call[0] \in Calls /\ program[call[0]].end # "none"
      <3>1. RankOK(0, call[0], pc[0], count[0], local[0]) /\ call[0] \in Calls
        BY <1>0, <1>9, InACall
      <3> QED BY <1>9, <3>1 DEF RankOK
    <2>2. k = call[0]
      <3>1. SUFFICES ASSUME k > call[0] PROVE FALSE
        BY <1>7, <1>8
      <3>2. Over(0, call[0])
        BY <1>0, <1>1, <2>1, <3>1 DEF EndsOK
      <3> QED BY <1>7, <1>9, <3>2 DEF Over
    <2>3. Head(o) = o[1] /\ 1 \in 1 .. Len(o)
      BY <1>3, <1>4
    <2>4. o[1] = Sends(k, r, s - Len(o) + 1)
      BY <1>2, <2>3 DEF OutOK
    <2> QED BY <1>4, <1>6, <2>2, <2>3, <2>4
  <1> QED BY <1>1, <1>5, <1>8, <1>9

\* rank 0 has what it waits for once it has counted so much
LEMMA AllGot ==
    ASSUME PlanOK, ShapesOK, PlacesOK, FlowsOK, NEW k \in Calls, k = call[0], Full(program[k]),
           pc[0] = "results", count[0] >= External(k)
    PROVE  count[0] = External(k) /\ \A r \in Workers : GotOf(r, k) = Length(k, r)
  <1>0. IsFiniteSet(Workers) /\ 0 \in Ranks
    BY RanksAre
  <1>1. PICK f, h : /\ f = [r \in Workers |-> Weight(k, r, GotOf(r, k))]
                    /\ h = [r \in Workers |-> Weight(k, r, Length(k, r))]
    OBVIOUS
  <1>2. program[k].end # "none"
    <2>1. RankOK(0, k, pc[0], count[0], local[0])
      BY <1>0, InACall
    <2> QED BY <2>1 DEF RankOK
  <1>3. count[0] = SumFunction(f) /\ External(k) = SumFunction(h)
    BY <1>1, <1>2, ExternalIs DEF FlowsOK, Collected
  <1>4. ASSUME NEW r \in Workers
        PROVE  /\ f[r] \in Nat /\ h[r] \in Nat /\ f[r] <= h[r]
               /\ GotOf(r, k) # Length(k, r) => f[r] < h[r]
    <2>1. PICK g \in Nat, L \in Nat : g = GotOf(r, k) /\ L = Length(k, r) /\ g <= L
      BY GotOfBounds, WeightsGrow
    <2>2. f[r] = Weight(k, r, g) /\ h[r] = Weight(k, r, L)
      BY <1>1, <2>1
    <2>3. Weight(k, r, g) \in Nat /\ Weight(k, r, L) \in Nat
      BY <2>1, WeightsGrow
    <2>4. g < L => Weight(k, r, g) < Weight(k, r, L)
      BY <2>1, WeightsGrow
    <2> QED BY <2>1, <2>2, <2>3, <2>4
  <1>5. PICK d : d = [r \in Workers |-> h[r] - f[r]]
    OBVIOUS
  <1>6. /\ d \in [Workers -> Nat] /\ DOMAIN f = Workers /\ DOMAIN d = Workers /\ DOMAIN h = Workers
        /\ \A r \in Workers : f[r] \in Int /\ d[r] \in Int /\ h[r] = f[r] + d[r]
    BY <1>1, <1>4, <1>5
  <1>7. SumFunction(f) \in Int /\ SumFunction(d) \in Int /\ SumFunction(h) = SumFunction(f) + SumFunction(d)
    BY <1>0, <1>6, SumOfTwo
  <1>8. SumFunction(d) \in Nat /\ (SumFunction(d) = 0 <=> \A r \in Workers : d[r] = 0)
    BY <1>0, <1>6, SumNat
  <1>9. SumFunction(d) = 0
    BY <1>3, <1>7, <1>8
  <1>10. \A r \in Workers : d[r] = 0
    BY <1>8, <1>9
  <1>11. \A r \in Workers : GotOf(r, k) = Length(k, r)
    BY <1>4, <1>6, <1>10
  <1> QED BY <1>3, <1>7, <1>9, <1>11

\* in the call that rank 0 has just begun, it has received nothing
LEMMA NothingGotYet ==
    ASSUME PlanOK, ShapesOK, PlacesOK, EndsOK, FlowsOK, NEW k \in Calls, k > call[0]
    PROVE  \A r \in Workers : GotOf(r, k) = 0
  <1> SUFFICES ASSUME NEW r \in Workers PROVE GotOf(r, k) = 0
    OBVIOUS
  <1>0. r \in Ranks /\ 0 \in Ranks /\ k \in Nat /\ call[r] \in Nat /\ call[0] \in Nat
    BY RanksAre DEF Calls, ShapesOK
  <1>1. CASE call[r] < k
    BY <1>1, GotOfBounds
  <1>2. CASE call[r] = k
    <2>1. Len(outbox[r]) = SentBy(r, call[r], pc[r], count[r])
      BY <1>2 DEF FlowsOK
    <2>2. GotOf(r, k) = SentBy(r, k, pc[r], count[r]) - Len(outbox[r]) /\ Len(outbox[r]) \in Nat
      BY <1>2, GotOfBounds
    <2> QED BY <1>2, <2>1, <2>2
  <1>3. CASE call[r] > k
    <2>1. ~Over(0, k)
      BY <1>0 DEF Over
    <2>2. program[k].end = "none"
      BY <1>0, <1>3, <2>1 DEF EndsOK
    <2>3. GotOf(r, k) = Length(k, r)
      BY <1>3, GotOfBounds
    <2> QED BY <2>2, <2>3 DEF Length
  <1> QED BY <1>0, <1>1, <1>2, <1>3

\* rank 0 ends a call with all that is sent in it
LEMMA RootEnds ==
    ASSUME PlanOK, ShapesOK, PlacesOK, EndsOK, FlowsOK, ChunksFull, [Next]_vars, NEW j \in Calls,
           Over(0, j)', ~Over(0, j)
    PROVE  /\ j = call[0] /\ \A r \in Workers : GotOf(r, j) = Length(j, r)
           /\ (Reduce /\ count[0] = External(j)) \/ program[j].end = "none"
  <1>0. 0 \in Ranks /\ j \in Nat /\ call[0] \in Nat /\ j \in DOMAIN program
    BY RanksAre, PlanIs DEF Calls, ShapesOK
  <1>1. call'[0] = call[0] /\ call[0] = j /\ pc[0] # "end" /\ pc'[0] = "end"
    <2>1. call'[0] > j \/ (call'[0] = j /\ pc'[0] = "end")
      BY DEF Over
    <2>2. ~(call[0] > j) /\ ~(call[0] = j /\ pc[0] = "end")
      BY DEF Over
    <2>3. \/ call'[0] = call[0]
          \/ /\ call'[0] = call[0] + 1 /\ pc[0] = "end" /\ pc'[0] \in {"distribute", "done"}
      BY <1>0, Forward
    <2> QED BY <1>0, <2>1, <2>2, <2>3
  <1>2. Reduce \/ Run(0)
    <2>1. ~RootGather /\ ~RootResize /\ ~UNCHANGED vars
      BY <1>0, <1>1 DEF RootGather, RootResize, vars, ShapesOK
    <2>2. \A r \in Ranks : ~Leave(r)
      <3>1. ASSUME NEW r \in Ranks, Leave(r) PROVE FALSE
        <4>1. r # 0
          BY <1>0, <1>1, <3>1 DEF Leave, ShapesOK
        <4> QED BY <1>0, <1>1, <3>1, <4>1 DEF Leave, ShapesOK
      <3> QED BY <3>1
    <2>3. \A r \in Workers : ~(\/ Deal(r) \/ TakeProblem(r) \/ EnterGather(r)
                               \/ SendResult(r) \/ RecvResult(r))
      <3>1. ASSUME NEW r \in Workers, Deal(r) \/ TakeProblem(r) \/ RecvResult(r) PROVE FALSE
        BY <1>1, <3>1 DEF Deal, TakeProblem, RecvResult
      <3>2. ASSUME NEW r \in Workers, EnterGather(r) \/ SendResult(r) PROVE FALSE
        BY <1>0, <1>1, <3>2, RanksAre DEF EnterGather, SendResult, ShapesOK
      <3> QED BY <3>1, <3>2
    <2>4. \A r \in Ranks : Run(r) => r = 0
      BY <1>0, <1>1 DEF Run, ShapesOK
    <2> QED BY <2>1, <2>2, <2>3, <2>4, StepIs
  <1>3. CASE Reduce
    <2>1. pc[0] = "results" /\ count[0] >= External(call[0])
      BY <1>3 DEF Reduce
    <2>2. Full(program[j])
      BY <1>0 DEF ChunksFull
    <2> QED BY <1>1, <1>3, <2>1, <2>2, AllGot
  <1>4. CASE Run(0)
    <2>1. program[j].end = "none"
      BY <1>0, <1>1, <1>4 DEF Run, Call, ShapesOK
    <2>2. \A r \in Workers : Length(j, r) = 0
      BY <2>1 DEF Length
    <2>3. \A r \in Workers : GotOf(r, j) = Length(j, r)
      BY <2>2, GotOfBounds
    <2> QED BY <1>1, <2>1, <2>3
  <1> QED BY <1>2, <1>3, <1>4

LEMMA FlowsStep ==
    ASSUME PlanOK, ShapesOK, PlacesOK, EndsOK, FlowsOK, ChunksFull, [Next]_vars,
           PlacesOK', ShapesOK', \A r \in Workers : ~RecvResult(r)
    PROVE  FlowsOK'
  <1>0. /\ program' = program /\ shares' = shares /\ Calls' = Calls /\ Calls \subseteq Nat
        /\ 0 \in Ranks /\ 0 \notin Workers /\ Workers \subseteq Ranks /\ IsFiniteSet(Workers)
    BY StepIs, PlanFrozen, RanksAre DEF Calls
  <1>1. ASSUME NEW r \in Workers
        PROVE  /\ OutOK(r, call'[r], SentBy(r, call'[r], pc'[r], count'[r]), outbox'[r])
               /\ call'[r] > call'[0] => Len(outbox'[r]) = SentBy(r, call'[r], pc'[r], count'[r])
    BY SendersStep
  <1>2. ASSUME NEW r \in Workers
        PROVE  /\ OutOK(r, call[r], SentBy(r, call[r], pc[r], count[r]), outbox[r])'
               /\ (call[r] > call[0] => Len(outbox[r]) = SentBy(r, call[r], pc[r], count[r]))'
    BY <1>0, <1>1, ViewFrozen, Zenon
  <1>3. \A r \in Workers, j \in Calls : GotOf(r, j)' = GotOf(r, j)
    <2> SUFFICES ASSUME NEW r \in Workers, NEW j \in Calls PROVE GotOf(r, j)' = GotOf(r, j)
      OBVIOUS
    <2>1. GotAs(r, call'[r], pc'[r], count'[r], outbox'[r], j) = GotOf(r, j)
      BY SendersStep
    <2>2. GotAs(r, call[r], pc[r], count[r], outbox[r], j)'
            = GotAs(r, call'[r], pc'[r], count'[r], outbox'[r], j)
      BY <1>0, ViewFrozen, Zenon
    <2> QED BY <2>1, <2>2 DEF GotOf
  <1>4. ASSUME NEW r \in Workers, NEW j \in Calls, Over(0, j)' PROVE GotOf(r, j)' = Length(j, r)'
    <2>1. Length(j, r)' = Length(j, r)
      BY <1>0, PlanFrozen
    <2>2. GotOf(r, j) = Length(j, r)
      BY <1>4, RootEnds DEF FlowsOK
    <2> QED BY <1>3, <2>1, <2>2
  <1>5. ASSUME pc'[0] # "done" PROVE count'[0] = SumFunction(Collected')
    <2>1. PICK k, a : k = call'[0] /\ a = call[0]
      OBVIOUS
    <2>2. k \in Calls /\ k \in Nat /\ a \in Nat
      <3>1. RankOK(0, k, pc'[0], count'[0], local'[0])
        BY <1>0, <2>1, ViewFrozen DEF PlacesOK
      <3>2. Len(program) \in Nat
        BY PlanIs
      <3> QED BY <1>0, <1>5, <2>1, <3>1, <3>2 DEF RankOK, Calls, ShapesOK
    <2>3. Collected' = [r \in Workers |-> Weight(k, r, GotOf(r, k))]
      <3>1. Collected' = [r \in Workers |-> Weight(call[0], r, GotOf(r, call[0]))']
        BY Zenon DEF Collected
      <3>2. ASSUME NEW r \in Workers
            PROVE  Weight(call[0], r, GotOf(r, call[0]))' = Weight(k, r, GotOf(r, k))
        <4>1. PICK g : g = GotOf(r, k)
          OBVIOUS
        <4>2. GotOf(r, k)' = g
          BY <1>3, <2>2, <4>1
        <4>3. GotOf(r, call[0])' = g
          BY <2>1, <4>2
        <4>4. Weight(call[0], r, GotOf(r, call[0]))' = Weight(k, r, g)'
          BY <2>1, <4>3
        <4>5. Weight(k, r, g)' = Weight(k, r, g)
          BY <1>0, PlanFrozen
        <4> QED BY <4>1, <4>4, <4>5
      <3> QED BY <3>1, <3>2
    <2>4. CASE k = a
      <3>1. pc[0] # "done"
        BY <1>0, <2>1, <2>2, <2>4, InACall
      <3>2. Collected' = Collected
        BY <2>1, <2>3, <2>4 DEF Collected
      <3>3. count'[0] = count[0]
        <4>1. CASE \E r \in Ranks : Run(r)
          <5>1. PICK r \in Ranks : Run(r)
            BY <4>1
          <5>2. count' = [count EXCEPT ![r] = 0] /\ pc[r] = "distribute"
            BY <5>1 DEF Run
          <5>3. r = 0 => count[0] = 0
            <6>1. RankOK(0, call[0], pc[0], count[0], local[0])
              BY <1>0, InACall
            <6> QED BY <5>2, <6>1 DEF RankOK
          <5> QED BY <1>0, <5>2, <5>3 DEF ShapesOK
        <4>2. CASE \E r \in Ranks : Leave(r)
          <5>1. PICK r \in Ranks : Leave(r)
            BY <4>2
          <5>2. r # 0
            <6>1. call'[r] = call[r] + 1
              BY <5>1 DEF Leave, ShapesOK
            <6>2. r = 0 => call'[0] = call[0] + 1
              BY <6>1
            <6>3. a + 1 # a
              BY <2>2
            <6> QED BY <2>1, <2>4, <6>2, <6>3
          <5> QED BY <1>0, <5>1, <5>2 DEF Leave, ShapesOK
        <4>3. CASE RootGather \/ RootResize \/ Reduce \/ UNCHANGED vars
          BY <4>3 DEF RootGather, RootResize, Reduce, vars
        <4>4. CASE \E r \in Workers : Deal(r) \/ TakeProblem(r) \/ EnterGather(r) \/ SendResult(r)
          BY <1>0, <4>4 DEF Deal, TakeProblem, EnterGather, SendResult, ShapesOK
        <4> QED BY <4>1, <4>2, <4>3, <4>4, StepIs
      <3> QED BY <3>1, <3>2, <3>3 DEF FlowsOK
    <2>5. CASE k # a
      <3>1. k = a + 1 /\ count'[0] = 0
        BY <1>0, <2>1, <2>5, Forward
      <3>2. \A r \in Workers : GotOf(r, k) = 0
        BY <2>1, <2>2, <3>1, NothingGotYet
      <3>3. \A r \in Workers : Weight(k, r, 0) = 0
        BY <2>2, WeightsGrow
      <3>4. Collected' \in [Workers -> Nat] /\ \A r \in Workers : Collected'[r] = 0
        BY <2>3, <3>2, <3>3
      <3> QED BY <1>0, <3>1, <3>4, SumNat
    <2> QED BY <2>4, <2>5
  <1> QED BY <1>0, <1>2, <1>4, <1>5, Zenon DEF FlowsOK

\* what rank 0 has received of each worker when it receives one more message
LEMMA RecvGot ==
    ASSUME PlanOK, ShapesOK, PlacesOK, EndsOK, FlowsOK, [Next]_vars,
           NEW s \in Workers, RecvResult(s), NEW k, k = call[0], NEW g, g = GotOf(s, k)
    PROVE  /\ k \in Calls /\ g \in Nat /\ g < Length(k, s) /\ Head(outbox[s]) = Sends(k, s, g + 1)
           /\ \A r \in Workers, j \in Calls :
                 GotOf(r, j)' = IF r = s /\ j = k THEN g + 1 ELSE GotOf(r, j)
  <1>0. /\ program' = program /\ shares' = shares /\ Calls' = Calls /\ Calls \subseteq Nat
        /\ 0 \in Ranks /\ 0 \notin Workers /\ Workers \subseteq Ranks /\ IsFiniteSet(Workers)
    BY StepIs, PlanFrozen, RanksAre DEF Calls
  <1>1. /\ call' = call /\ pc' = pc /\ pc[0] = "results" /\ outbox[s] # <<>>
        /\ outbox' = [outbox EXCEPT ![s] = Tail(outbox[s])]
        /\ count' = [count EXCEPT ![0] = count[0] + Counted(call[0], s, Head(outbox[s]))]
    BY DEF RecvResult
  <1>2. k = call[0]
    OBVIOUS
  <1>3. g \in Nat /\ g = GotOf(s, k)
    <2>1. call[s] = k /\ k \in Calls
      BY <1>1, <1>2, HeadIsOfCall
    <2> QED BY <2>1, GotOfBounds
  <1>4. k \in Calls /\ call[s] = k /\ g < Length(k, s) /\ Head(outbox[s]) = Sends(k, s, g + 1)
    BY <1>1, <1>2, <1>3, HeadIsOfCall
  <1>5. PICK n, o : n = SentBy(s, k, pc[s], count[s]) /\ o = outbox[s]
    OBVIOUS
  <1>6. g = n - Len(o) /\ n \in Nat /\ Len(o) \in Nat /\ Len(o) <= n
    BY <1>3, <1>4, <1>5, GotOfBounds
  <1>7. OutOK(s, k, n, o)
    BY <1>4, <1>5 DEF FlowsOK
  <1>8. PICK M : o \in Seq(M)
    BY <1>7 DEF OutOK
  <1>9. Len(Tail(o)) = Len(o) - 1 /\ Tail(o) \in Seq(M) /\ \A i \in 1 .. Len(o) - 1 : Tail(o)[i] = o[i + 1]
    BY <1>1, <1>5, <1>8
  <1>11. outbox'[s] = Tail(o) /\ \A r \in Workers \ {s} : outbox'[r] = outbox[r]
    BY <1>1, <1>5 DEF ShapesOK
  <1>12. \A r \in Workers : count'[r] = count[r]
    BY <1>0, <1>1 DEF ShapesOK
  <1>15. ASSUME NEW r \in Workers, NEW j \in Calls
         PROVE  GotOf(r, j)' = IF r = s /\ j = k THEN g + 1 ELSE GotOf(r, j)
    <2>1. GotOf(r, j)' = GotAs(r, call[r], pc[r], count[r], outbox'[r], j)
      <3>1. GotAs(r, call[r], pc[r], count[r], outbox[r], j)'
              = GotAs(r, call'[r], pc'[r], count'[r], outbox'[r], j)
        BY <1>0, ViewFrozen, Zenon
      <3> QED BY <1>1, <1>12, <3>1 DEF GotOf
    <2>2. CASE r # s
      BY <1>11, <2>1, <2>2 DEF GotOf
    <2>3. CASE r = s /\ j = k
      <3>1. ~(k > k)
        BY <1>0, <1>4
      <3>2. GotOf(r, j)' = n - Len(Tail(o))
        BY <1>4, <1>5, <1>11, <2>1, <2>3, <3>1 DEF GotAs
      <3> QED BY <1>6, <1>9, <2>3, <3>2
    <2>4. CASE r = s /\ j # k
      BY <1>4, <2>1, <2>4 DEF GotOf, GotAs
    <2> QED BY <2>2, <2>3, <2>4
  <1> QED BY <1>3, <1>4, <1>15

LEMMA RecvFlows ==
    ASSUME PlanOK, ShapesOK, PlacesOK, EndsOK, FlowsOK, [Next]_vars,
           NEW s \in Workers, RecvResult(s)
    PROVE  FlowsOK'
  <1>0. /\ program' = program /\ shares' = shares /\ Calls' = Calls /\ Calls \subseteq Nat
        /\ 0 \in Ranks /\ 0 \notin Workers /\ Workers \subseteq Ranks /\ IsFiniteSet(Workers)
    BY StepIs, PlanFrozen, RanksAre DEF Calls
  <1>1. /\ call' = call /\ pc' = pc /\ pc[0] = "results" /\ outbox[s] # <<>>
        /\ outbox' = [outbox EXCEPT ![s] = Tail(outbox[s])]
        /\ count' = [count EXCEPT ![0] = count[0] + Counted(call[0], s, Head(outbox[s]))]
    BY DEF RecvResult
  <1>2. PICK k : k = call[0]
    OBVIOUS
  <1>3. PICK g \in Nat : g = GotOf(s, k)
    <2>1. call[s] = k /\ k \in Calls
      BY <1>1, <1>2, HeadIsOfCall
    <2> QED BY <2>1, GotOfBounds
  <1>4. k \in Calls /\ call[s] = k /\ g < Length(k, s) /\ Head(outbox[s]) = Sends(k, s, g + 1)
    BY <1>1, <1>2, <1>3, HeadIsOfCall
  <1>5. PICK n, o : n = SentBy(s, k, pc[s], count[s]) /\ o = outbox[s]
    OBVIOUS
  <1>6. g = n - Len(o) /\ n \in Nat /\ Len(o) \in Nat /\ Len(o) <= n
    BY <1>3, <1>4, <1>5, GotOfBounds
  <1>7. OutOK(s, k, n, o)
    BY <1>4, <1>5 DEF FlowsOK
  <1>8. PICK M : o \in Seq(M)
    BY <1>7 DEF OutOK
  <1>9. Len(Tail(o)) = Len(o) - 1 /\ Tail(o) \in Seq(M) /\ \A i \in 1 .. Len(o) - 1 : Tail(o)[i] = o[i + 1]
    BY <1>1, <1>5, <1>8
  <1>10. OutOK(s, k, n, Tail(o))
    <2>1. ASSUME NEW i \in 1 .. Len(Tail(o)) PROVE Tail(o)[i] = Sends(k, s, n - Len(Tail(o)) + i)
      <3>1. i + 1 \in 1 .. Len(o) /\ i \in 1 .. Len(o) - 1
        BY <1>6, <1>9
      <3>2. o[i + 1] = Sends(k, s, n - Len(o) + (i + 1))
        BY <1>7, <3>1 DEF OutOK
      <3>3. n - Len(o) + (i + 1) = n - Len(Tail(o)) + i
        BY <1>6, <1>9
      <3> QED BY <1>9, <3>1, <3>2, <3>3
    <2> QED BY <1>6, <1>9, <2>1 DEF OutOK
  <1>11. outbox'[s] = Tail(o) /\ \A r \in Workers \ {s} : outbox'[r] = outbox[r]
    BY <1>1, <1>5 DEF ShapesOK
  <1>12. \A r \in Workers : count'[r] = count[r]
    BY <1>0, <1>1 DEF ShapesOK
  <1>13. ASSUME NEW r \in Workers
         PROVE  /\ OutOK(r, call'[r], SentBy(r, call'[r], pc'[r], count'[r]), outbox'[r])
                /\ call'[r] > call'[0] => Len(outbox'[r]) = SentBy(r, call'[r], pc'[r], count'[r])
    <2>1. CASE r = s
      <3>1. ~(k > k)
        BY <1>0, <1>4
      <3> QED BY <1>1, <1>2, <1>4, <1>5, <1>10, <1>11, <1>12, <2>1, <3>1
    <2>2. CASE r # s
      BY <1>1, <1>11, <1>12, <2>2 DEF FlowsOK
    <2> QED BY <2>1, <2>2
  <1>14. ASSUME NEW r \in Workers
         PROVE  /\ OutOK(r, call[r], SentBy(r, call[r], pc[r], count[r]), outbox[r])'
                /\ (call[r] > call[0] => Len(outbox[r]) = SentBy(r, call[r], pc[r], count[r]))'
    BY <1>0, <1>13, ViewFrozen, Zenon
  <1>15. \A r \in Workers, j \in Calls :
            GotOf(r, j)' = IF r = s /\ j = k THEN g + 1 ELSE GotOf(r, j)
    BY <1>2, <1>3, RecvGot
  <1>16. ASSUME NEW r \in Workers, NEW j \in Calls, Over(0, j)' PROVE GotOf(r, j)' = Length(j, r)'
    <2>1. Length(j, r)' = Length(j, r)
      BY <1>0, PlanFrozen
    <2>2. Over(0, j)
      BY <1>1, <1>16 DEF Over
    <2>3. j # k
      BY <1>0, <1>1, <1>2, <1>4, <2>2 DEF Over
    <2>4. GotOf(r, j) = Length(j, r)
      BY <2>2 DEF FlowsOK
    <2> QED BY <1>15, <2>1, <2>3, <2>4
  <1>17. count'[0] = SumFunction(Collected')
    <2>1. PICK f, h : f = Collected /\ h = Collected'
      OBVIOUS
    <2>2. f = [r \in Workers |-> Weight(k, r, GotOf(r, k))]
      BY <1>2, <2>1 DEF Collected
    <2>3. h = [r \in Workers |-> Weight(k, r, IF r = s THEN g + 1 ELSE GotOf(r, k))]
      <3>1. h = [r \in Workers |-> Weight(call[0], r, GotOf(r, call[0]))']
        BY <2>1, Zenon DEF Collected
      <3>2. ASSUME NEW r \in Workers
            PROVE  Weight(call[0], r, GotOf(r, call[0]))' = Weight(k, r, IF r = s THEN g + 1 ELSE GotOf(r, k))
        <4>1. PICK x : x = IF r = s THEN g + 1 ELSE GotOf(r, k)
          OBVIOUS
        <4>2. GotOf(r, k)' = x
          BY <1>4, <1>15, <4>1
        <4>3. call'[0] = k
          BY <1>1, <1>2
        <4>4. GotOf(r, call[0])' = x
          BY <4>2, <4>3
        <4>5. Weight(call[0], r, GotOf(r, call[0]))' = Weight(k, r, x)'
          BY <4>3, <4>4
        <4>6. Weight(k, r, x)' = Weight(k, r, x)
          BY <1>0, PlanFrozen
        <4> QED BY <4>1, <4>5, <4>6
      <3> QED BY <3>1, <3>2
    <2>4. PICK c \in Nat : c = Counted(k, s, Sends(k, s, g + 1)) /\ Weight(k, s, g + 1) = Weight(k, s, g) + c
      BY <1>4, CountedIs
    <2>5. /\ DOMAIN f = Workers /\ DOMAIN h = Workers
          /\ \A r \in Workers : f[r] \in Int /\ h[r] \in Int
          /\ \A r \in Workers \ {s} : h[r] = f[r]
          /\ h[s] - f[s] = c
      <3>1. \A r \in Workers : GotOf(r, k) \in Nat
        BY <1>4, GotOfBounds
      <3>2. \A r \in Workers, x \in Nat : Weight(k, r, x) \in Nat
        BY <1>4, WeightsGrow
      <3>3. f[s] = Weight(k, s, g) /\ h[s] = Weight(k, s, g + 1) /\ g + 1 \in Nat
        BY <1>3, <2>2, <2>3
      <3> QED BY <1>3, <2>2, <2>3, <2>4, <3>1, <3>2, <3>3
    <2>6. SumFunction(f) \in Int /\ SumFunction(h) \in Int /\ SumFunction(h) - SumFunction(f) = c
      BY <1>0, <2>5, SumOneChanges
    <2>7. count[0] = SumFunction(f)
      BY <1>1, <2>1 DEF FlowsOK
    <2>8. count'[0] = count[0] + c
      <3>1. Head(outbox[s]) = Sends(k, s, g + 1)
        BY <1>4
      <3> QED BY <1>0, <1>1, <1>2, <2>4, <3>1 DEF ShapesOK
    <2> QED BY <2>1, <2>4, <2>6, <2>7, <2>8
  <1> QED BY <1>0, <1>14, <1>16, <1>17, Zenon DEF FlowsOK

-----------------------------------------------------------------------------
(* Problems on their way *)

LEMMA InboxGrows ==
    ASSUME PlanOK, NEW r \in Workers, NEW b, NEW T \in [Calls -> Nat], NEW D \in [Calls -> Nat],
           InOK(r, b, T, D), NEW k \in Calls, \A j \in Calls : j > k => D[j] = 0,
           NEW E, E = [D EXCEPT ![k] = D[k] + 1],
           NEW w, w = Append(b, <<k, firstGlobalElem(k, r) + D[k]>>)
    PROVE  InOK(r, w, T, E)
  <1>0. Calls \subseteq Nat /\ r \in Ranks
    BY RanksAre DEF Calls
  <1>1. PICK f : f = [j \in Calls |-> firstGlobalElem(j, r)]
    OBVIOUS
  <1>2. \A j \in Calls : f[j] \in Nat /\ f[j] = firstGlobalElem(j, r)
    BY <1>0, <1>1, Portions
  <1>h. Held(f, b, T, D)
    BY <1>1 DEF InOK
  <1>3. PICK M : b \in Seq(M)
    BY <1>h DEF Held
  <1>4. PICK m, n : m = <<k, f[k] + D[k]>> /\ n = Len(b)
    OBVIOUS
  <1>5. n \in Nat /\ Len(w) = n + 1 /\ w[n + 1] = m /\ \A x \in 1 .. n : w[x] = b[x]
    BY <1>2, <1>3, <1>4
  <1>6. \E N : w \in Seq(N)
    <2>1. b \in Seq(M \cup {m}) /\ m \in M \cup {m} /\ w = Append(b, m)
      BY <1>2, <1>3, <1>4
    <2>2. w \in Seq(M \cup {m})
      BY <2>1, SMTT(40)
    <2> QED BY <2>2
  <1>7. \A j \in Calls : E[j] = IF j = k THEN D[k] + 1 ELSE D[j]
    OBVIOUS
  <1>8. /\ \A j \in Calls : T[j] <= D[j]
        /\ \A x \in 1 .. n : \E j \in Calls, i \in Nat :
              b[x] = <<j, f[j] + i>> /\ T[j] <= i /\ i < D[j]
    BY <1>h, <1>4 DEF Held, OnlySent
  <1>a. \A j \in Calls : \A i \in Nat : T[j] <= i /\ i < D[j] =>
           \E x \in 1 .. n : b[x] = <<j, f[j] + i>>
    BY <1>h, <1>4 DEF Held, AllSent
  <1>o. \A x, y \in 1 .. n : x < y =>
           b[x][1] < b[y][1] \/ (b[x][1] = b[y][1] /\ b[x][2] < b[y][2])
    BY <1>h, <1>4 DEF Held, InOrder
  <1>9. \A j \in Calls : T[j] <= E[j]
    BY <1>7, <1>8
  <1>10. ASSUME NEW x \in 1 .. Len(w)
         PROVE  \E j \in Calls, i \in Nat : w[x] = <<j, f[j] + i>> /\ T[j] <= i /\ i < E[j]
    <2>1. CASE x = n + 1
      <3>1. w[x] = <<k, f[k] + D[k]>> /\ T[k] <= D[k] /\ D[k] < E[k] /\ D[k] \in Nat
        BY <1>4, <1>5, <1>7, <1>8, <2>1
      <3> QED BY <3>1
    <2>2. CASE x # n + 1
      <3>1. x \in 1 .. n
        BY <1>5, <2>2
      <3>2. PICK j \in Calls, i \in Nat : b[x] = <<j, f[j] + i>> /\ T[j] <= i /\ i < D[j]
        BY <1>8, <3>1
      <3>3. w[x] = <<j, f[j] + i>> /\ i < E[j]
        BY <1>5, <1>7, <3>1, <3>2
      <3> QED BY <3>2, <3>3
    <2> QED BY <2>1, <2>2
  <1>11. ASSUME NEW j \in Calls, NEW i \in Nat, T[j] <= i, i < E[j]
         PROVE  \E x \in 1 .. Len(w) : w[x] = <<j, f[j] + i>>
    <2>1. CASE j = k /\ i = D[k]
      <3>1. n + 1 \in 1 .. Len(w) /\ w[n + 1] = <<j, f[j] + i>>
        BY <1>4, <1>5, <2>1
      <3> QED BY <3>1
    <2>2. CASE ~(j = k /\ i = D[k])
      <3>1. i < D[j]
        BY <1>7, <1>11, <2>2
      <3>2. PICK x \in 1 .. n : b[x] = <<j, f[j] + i>>
        BY <1>a, <1>11, <3>1
      <3>3. x \in 1 .. Len(w) /\ w[x] = <<j, f[j] + i>>
        BY <1>5, <3>2
      <3> QED BY <3>3
    <2> QED BY <2>1, <2>2
  <1>12. ASSUME NEW x \in 1 .. Len(w), NEW y \in 1 .. Len(w), x < y
         PROVE  w[x][1] < w[y][1] \/ (w[x][1] = w[y][1] /\ w[x][2] < w[y][2])
    <2>1. x \in 1 .. n
      BY <1>5, <1>12
    <2>2. CASE y = n + 1
      <3>1. PICK j \in Calls, i \in Nat : b[x] = <<j, f[j] + i>> /\ T[j] <= i /\ i < D[j]
        BY <1>8, <2>1
      <3>2. w[x][1] = j /\ w[x][2] = f[j] + i /\ w[y][1] = k /\ w[y][2] = f[k] + D[k]
        BY <1>4, <1>5, <2>1, <2>2, <3>1
      <3>3. j <= k
        <4>1. D[j] # 0
          BY <3>1
        <4>2. ~(j > k)
          BY <4>1
        <4> QED BY <1>0, <4>2
      <3>4. j = k => f[j] + i < f[k] + D[k]
        BY <1>2, <3>1
      <3> QED BY <1>0, <3>2, <3>3, <3>4, SMTT(40)
    <2>3. CASE y # n + 1
      <3>1. y \in 1 .. n
        BY <1>5, <2>3
      <3>2. w[x] = b[x] /\ w[y] = b[y]
        BY <1>5, <2>1, <3>1
      <3>3. b[x][1] < b[y][1] \/ (b[x][1] = b[y][1] /\ b[x][2] < b[y][2])
        BY <1>o, <1>12, <2>1, <3>1
      <3> QED BY <3>2, <3>3, Zenon
    <2> QED BY <2>2, <2>3
  <1>13. OnlySent(f, w, T, E) /\ AllSent(f, w, T, E) /\ InOrder(w)
    BY <1>10, <1>11, <1>12 DEF OnlySent, AllSent, InOrder
  <1> QED BY <1>1, <1>6, <1>9, <1>13 DEF InOK, Held

LEMMA InboxShrinks ==
    ASSUME PlanOK, NEW r \in Workers, NEW b, NEW T \in [Calls -> Nat], NEW D \in [Calls -> Nat],
           InOK(r, b, T, D), NEW k \in Calls, b # <<>>,
           Head(b) = <<k, firstGlobalElem(k, r) + T[k]>>, NEW E, E = [T EXCEPT ![k] = T[k] + 1]
    PROVE  InOK(r, Tail(b), E, D)
  <1>0. Calls \subseteq Nat /\ r \in Ranks
    BY RanksAre DEF Calls
  <1>1. PICK f : f = [j \in Calls |-> firstGlobalElem(j, r)]
    OBVIOUS
  <1>2. \A j \in Calls : f[j] \in Nat /\ f[j] = firstGlobalElem(j, r)
    BY <1>0, <1>1, Portions
  <1>h. Held(f, b, T, D)
    BY <1>1 DEF InOK
  <1>3. PICK M : b \in Seq(M)
    BY <1>h DEF Held
  <1>4. PICK w, n : w = Tail(b) /\ n = Len(b)
    OBVIOUS
  <1>5. /\ n \in Nat \ {0} /\ Len(w) = n - 1 /\ w \in Seq(M) /\ Head(b) = b[1] /\ 1 \in 1 .. n
        /\ \A x \in 1 .. n - 1 : w[x] = b[x + 1]
    BY <1>3, <1>4
  <1>6. b[1] = <<k, f[k] + T[k]>>
    BY <1>2, <1>5
  <1>7. \A j \in Calls : E[j] = IF j = k THEN T[k] + 1 ELSE T[j]
    OBVIOUS
  <1>8. /\ \A j \in Calls : T[j] <= D[j]
        /\ \A x \in 1 .. n : \E j \in Calls, i \in Nat :
              b[x] = <<j, f[j] + i>> /\ T[j] <= i /\ i < D[j]
    BY <1>h, <1>4 DEF Held, OnlySent
  <1>a. \A j \in Calls : \A i \in Nat : T[j] <= i /\ i < D[j] =>
           \E x \in 1 .. n : b[x] = <<j, f[j] + i>>
    BY <1>h, <1>4 DEF Held, AllSent
  <1>o. \A x, y \in 1 .. n : x < y =>
           b[x][1] < b[y][1] \/ (b[x][1] = b[y][1] /\ b[x][2] < b[y][2])
    BY <1>h, <1>4 DEF Held, InOrder
  <1>9. \A j \in Calls : E[j] <= D[j]
    <2>1. PICK j \in Calls, i \in Nat : b[1] = <<j, f[j] + i>> /\ T[j] <= i /\ i < D[j]
      BY <1>5, <1>8
    <2>2. j = k /\ f[k] + i = f[k] + T[k]
      BY <1>6, <2>1
    <2>3. i = T[k]
      BY <1>2, <2>2
    <2>4. T[k] + 1 <= D[k]
      BY <2>1, <2>2, <2>3
    <2> QED BY <1>7, <1>8, <2>4
  <1>10. ASSUME NEW x \in 1 .. Len(w)
         PROVE  \E j \in Calls, i \in Nat : w[x] = <<j, f[j] + i>> /\ E[j] <= i /\ i < D[j]
    <2>1. x \in 1 .. n - 1 /\ x + 1 \in 1 .. n /\ 1 < x + 1
      BY <1>5
    <2>2. PICK j \in Calls, i \in Nat : b[x + 1] = <<j, f[j] + i>> /\ T[j] <= i /\ i < D[j]
      BY <1>8, <2>1
    <2>3. b[1][1] < b[x + 1][1] \/ (b[1][1] = b[x + 1][1] /\ b[1][2] < b[x + 1][2])
      BY <1>5, <1>o, <2>1
    <2>4. k < j \/ (k = j /\ f[k] + T[k] < f[j] + i)
      BY <1>6, <2>2, <2>3
    <2>5. E[j] <= i
      BY <1>0, <1>2, <1>7, <2>2, <2>4
    <2> QED BY <1>5, <2>1, <2>2, <2>5
  <1>11. ASSUME NEW j \in Calls, NEW i \in Nat, E[j] <= i, i < D[j]
         PROVE  \E x \in 1 .. Len(w) : w[x] = <<j, f[j] + i>>
    <2>1. T[j] <= i
      BY <1>7, <1>11
    <2>2. PICK x \in 1 .. n : b[x] = <<j, f[j] + i>>
      BY <1>a, <1>11, <2>1
    <2>3. x # 1
      <3>1. SUFFICES ASSUME x = 1 PROVE FALSE
        OBVIOUS
      <3>2. j = k /\ f[k] + i = f[k] + T[k]
        BY <1>6, <2>2, <3>1
      <3>3. i = T[k]
        BY <1>2, <3>2
      <3> QED BY <1>7, <1>11, <3>2, <3>3
    <2>4. x - 1 \in 1 .. n - 1 /\ (x - 1) + 1 = x
      BY <1>5, <2>3
    <2>5. w[x - 1] = <<j, f[j] + i>> /\ x - 1 \in 1 .. Len(w)
      BY <1>5, <2>2, <2>4
    <2> QED BY <2>5
  <1>12. ASSUME NEW x \in 1 .. Len(w), NEW y \in 1 .. Len(w), x < y
         PROVE  w[x][1] < w[y][1] \/ (w[x][1] = w[y][1] /\ w[x][2] < w[y][2])
    <2>1. /\ x \in 1 .. n - 1 /\ y \in 1 .. n - 1 /\ x + 1 \in 1 .. n /\ y + 1 \in 1 .. n
          /\ x + 1 < y + 1
      BY <1>5, <1>12
    <2>2. \/ b[x + 1][1] < b[y + 1][1]
          \/ b[x + 1][1] = b[y + 1][1] /\ b[x + 1][2] < b[y + 1][2]
      BY <1>o, <2>1
    <2> QED BY <1>5, <2>1, <2>2
  <1>13. OnlySent(f, w, E, D) /\ AllSent(f, w, E, D) /\ InOrder(w)
    BY <1>10, <1>11, <1>12 DEF OnlySent, AllSent, InOrder
  <1> QED BY <1>1, <1>4, <1>5, <1>9, <1>13 DEF InOK, Held

\* the other steps neither deal nor take problems
LEMMA NothingMoves ==
    ASSUME PlanOK, ShapesOK, PlacesOK, [Next]_vars,
           \A r \in Workers : ~Deal(r) /\ ~TakeProblem(r), NEW x \in Workers, NEW j \in Calls
    PROVE  inbox' = inbox /\ TakenBy(x, j)' = TakenBy(x, j) /\ DealtTo(x, j)' = DealtTo(x, j)
  <1>0. /\ program' = program /\ 0 \in Ranks /\ x \in Ranks /\ x # 0 /\ Workers \subseteq Ranks
        /\ j \in Nat /\ nLocalElems(j, x)' = nLocalElems(j, x)
        /\ Deals(j, 0)' <=> Deals(j, 0)
    BY StepIs, PlanFrozen, RanksAre DEF Calls
  <1>1. CASE RootGather \/ RootResize \/ Reduce \/ UNCHANGED vars
    <2>1. /\ call' = call /\ count' = count /\ inbox' = inbox /\ dealt' = dealt
          /\ pc'[x] = pc[x]
      BY <1>0, <1>1 DEF RootGather, RootResize, Reduce, vars, ShapesOK
    <2> QED BY <1>0, <2>1 DEF TakenBy, DealtTo
  <1>2. CASE \E r \in Workers : EnterGather(r) \/ SendResult(r) \/ RecvResult(r)
    <2>1. /\ call' = call /\ inbox' = inbox /\ dealt' = dealt
          /\ pc'[x] = "distribute" <=> pc[x] = "distribute"
          /\ pc[x] = "distribute" => count'[x] = count[x]
      BY <1>0, <1>2 DEF EnterGather, SendResult, RecvResult, ShapesOK
    <2> QED BY <1>0, <2>1 DEF TakenBy, DealtTo
  <1>3. ASSUME NEW r \in Ranks, Run(r)
        PROVE  inbox' = inbox /\ TakenBy(x, j)' = TakenBy(x, j) /\ DealtTo(x, j)' = DealtTo(x, j)
    <2>1. call' = call /\ inbox' = inbox /\ dealt' = dealt
      BY <1>3 DEF Run
    <2>2. DealtTo(x, j)' = DealtTo(x, j)
      BY <1>0, <2>1 DEF DealtTo
    <2>3. CASE r # x
      <3>1. pc'[x] = pc[x] /\ count'[x] = count[x]
        BY <1>0, <1>3, <2>3 DEF Run, ShapesOK
      <3> QED BY <1>0, <2>1, <2>2, <3>1 DEF TakenBy
    <2>4. CASE r = x
      <3>1. /\ pc[x] = "distribute" /\ pc'[x] # "distribute"
            /\ Deals(call[x], 0) => count[x] = nLocalElems(call[x], x)
        <4>1. /\ pc[x] = "distribute" /\ pc'[x] # "distribute" /\ Told(x)
              /\ Deals(call[x], x) => count[x] = nLocalElems(call[x], x)
          BY <1>0, <1>3, <2>4 DEF Run, ShapesOK
        <4> QED BY <1>0, <4>1, InACall, DealtTogether
      <3> QED BY <1>0, <2>1, <2>2, <3>1 DEF TakenBy
    <2> QED BY <2>3, <2>4
  <1>4. ASSUME NEW r \in Ranks, Leave(r)
        PROVE  inbox' = inbox /\ TakenBy(x, j)' = TakenBy(x, j) /\ DealtTo(x, j)' = DealtTo(x, j)
    <2>1. inbox' = inbox /\ pc[r] = "end" /\ call' = [call EXCEPT ![r] = call[r] + 1]
      BY <1>4 DEF Leave
    <2>2. call[r] \in Nat /\ call'[r] = call[r] + 1
      BY <2>1 DEF ShapesOK
    <2>3. CASE r = x
      <3>1. dealt' = dealt /\ call'[0] = call[0]
        BY <1>0, <1>4, <2>1, <2>3 DEF Leave, ShapesOK
      <3>2. DealtTo(x, j)' = DealtTo(x, j)
        BY <1>0, <3>1 DEF DealtTo
      <3>3. count'[x] = 0
        BY <1>0, <1>4, <2>3 DEF Leave, ShapesOK
      <3>4. TakenBy(x, j)' = TakenBy(x, j)
        <4>1. CASE j <= call[x]
          BY <1>0, <2>1, <2>2, <2>3, <4>1 DEF TakenBy
        <4>2. CASE j = call[x] + 1
          <5>1. pc'[x] = "distribute"
            <6>1. Len(program) \in Nat /\ j <= Len(program)
              BY PlanIs DEF Calls
            <6>2. call[r] # Len(program)
              BY <2>2, <2>3, <4>2, <6>1
            <6>3. pc' = [pc EXCEPT ![r] = "distribute"]
              BY <1>4, <6>2 DEF Leave
            <6> QED BY <1>0, <2>3, <6>3 DEF ShapesOK
          <5>2. TakenBy(x, j) = 0
            BY <2>2, <2>3, <4>2 DEF TakenBy
          <5>3. TakenBy(x, j)' = 0
            BY <1>0, <2>2, <2>3, <3>3, <4>2, <5>1 DEF TakenBy
          <5> QED BY <5>2, <5>3
        <4>3. CASE j > call[x] + 1
          BY <1>0, <2>1, <2>2, <2>3, <4>3 DEF TakenBy
        <4> QED BY <1>0, <2>2, <2>3, <4>1, <4>2, <4>3
      <3> QED BY <2>1, <3>2, <3>4
    <2>4. CASE r # x
      <3>1. pc'[x] = pc[x] /\ count'[x] = count[x] /\ call'[x] = call[x]
        BY <1>0, <1>4, <2>4 DEF Leave, ShapesOK
      <3>2. TakenBy(x, j)' = TakenBy(x, j)
        BY <1>0, <3>1 DEF TakenBy
      <3>3. DealtTo(x, j)' = DealtTo(x, j)
        <4>1. CASE r # 0
          <5>1. dealt' = dealt /\ call'[0] = call[0]
            BY <1>0, <1>4, <2>1, <4>1 DEF Leave, ShapesOK
          <5> QED BY <1>0, <5>1 DEF DealtTo
        <4>2. CASE r = 0
          <5>1. dealt'[x] = 0 /\ pc[0] = "end" /\ call'[0] = call[0] + 1 /\ call[0] \in Nat
            BY <1>4, <2>1, <2>2, <4>2 DEF Leave
          <5>2. RootOK(call[0], pc[0], count[0], dealt, results)
            BY DEF PlacesOK
          <5>3. Deals(call[0], 0) => dealt[x] = nLocalElems(call[0], x)
            BY <5>1, <5>2 DEF RootOK
          <5>4. CASE j <= call[0]
            BY <1>0, <5>1, <5>3, <5>4 DEF DealtTo
          <5>5. CASE j > call[0]
            BY <1>0, <5>1, <5>5 DEF DealtTo
          <5> QED BY <1>0, <5>1, <5>4, <5>5
        <4> QED BY <4>1, <4>2
      <3> QED BY <2>1, <3>2, <3>3
    <2> QED BY <2>3, <2>4
  <1> QED BY <1>1, <1>2, <1>3, <1>4, StepIs

LEMMA InboxesKept ==
    ASSUME program' = program, shares' = shares,
           \A r \in Workers :
               InOK(r, inbox'[r], [k \in Calls |-> TakenBy(r, k)'], [k \in Calls |-> DealtTo(r, k)'])
    PROVE  InboxesOK'
  <1> SUFFICES ASSUME NEW r \in Workers
      PROVE  InOK(r, inbox[r], [k \in Calls |-> TakenBy(r, k)], [k \in Calls |-> DealtTo(r, k)])'
    BY DEF InboxesOK
  <1>1. PICK b, T, D : /\ b = inbox'[r] /\ T = [k \in Calls |-> TakenBy(r, k)']
                       /\ D = [k \in Calls |-> DealtTo(r, k)']
    OBVIOUS
  <1>2. InOK(r, b, T, D)
    BY <1>1
  <1>3. InOK(r, b, T, D)'
    BY <1>2, ViewFrozen
  <1>4. [k \in Calls |-> TakenBy(r, k)]' = T /\ [k \in Calls |-> DealtTo(r, k)]' = D
    <2>1. Calls' = Calls
      BY PlanFrozen
    <2> QED BY <1>1, <2>1
  <1> QED BY <1>1, <1>3, <1>4

LEMMA CountsAreNat ==
    ASSUME PlanOK, ShapesOK, NEW x \in Workers
    PROVE  \A j \in Calls : TakenBy(x, j) \in Nat /\ DealtTo(x, j) \in Nat
  <1>1. \A j \in Calls : nLocalElems(j, x) \in Nat
    BY RanksAre, PlanIs
  <1> QED BY <1>1, RanksAre DEF TakenBy, DealtTo, ShapesOK

LEMMA DealInboxes ==
    ASSUME PlanOK, ShapesOK, PlacesOK, InboxesOK, [Next]_vars, NEW s \in Workers, Deal(s)
    PROVE  InboxesOK'
  <1>0. /\ program' = program /\ shares' = shares /\ 0 \in Ranks /\ Workers \subseteq Ranks
        /\ Calls \subseteq Nat
    BY StepIs, RanksAre DEF Calls
  <1>1. PICK k, d : k = call[0] /\ d = dealt[s]
    OBVIOUS
  <1>2. /\ pc[0] = "distribute" /\ Deals(k, 0) /\ call' = call /\ pc' = pc /\ count' = count
        /\ inbox' = [inbox EXCEPT ![s] = Append(inbox[s], <<k, firstGlobalElem(k, s) + d>>)]
        /\ dealt' = [dealt EXCEPT ![s] = d + 1]
    BY <1>1 DEF Deal, Call
  <1>3. k \in Calls /\ d \in Nat
    BY <1>0, <1>1, <1>2, InACall DEF ShapesOK
  <1>4. ASSUME NEW x \in Workers
        PROVE  InOK(x, inbox'[x], [j \in Calls |-> TakenBy(x, j)'], [j \in Calls |-> DealtTo(x, j)'])
    <2>1. PICK b, T, D : /\ b = inbox[x] /\ T = [j \in Calls |-> TakenBy(x, j)]
                         /\ D = [j \in Calls |-> DealtTo(x, j)]
      OBVIOUS
    <2>2. InOK(x, b, T, D) /\ T \in [Calls -> Nat] /\ D \in [Calls -> Nat]
      BY <2>1, CountsAreNat DEF InboxesOK
    <2>3. \A j \in Calls : nLocalElems(j, x)' = nLocalElems(j, x) /\ (Deals(j, 0)' <=> Deals(j, 0))
      BY <1>0, PlanFrozen
    <2>4. [j \in Calls |-> TakenBy(x, j)'] = T
      BY <1>0, <1>2, <2>1, <2>3 DEF TakenBy
    <2>5. CASE x # s
      <3>1. inbox'[x] = b /\ dealt'[x] = dealt[x]
        BY <1>2, <2>1, <2>5 DEF ShapesOK
      <3>2. [j \in Calls |-> DealtTo(x, j)'] = D
        BY <1>0, <1>2, <2>1, <2>3, <3>1 DEF DealtTo
      <3> QED BY <2>2, <2>4, <3>1, <3>2
    <2>6. CASE x = s
      <3>1. inbox'[x] = Append(b, <<k, firstGlobalElem(k, x) + d>>) /\ dealt'[x] = d + 1
        BY <1>2, <2>1, <2>6 DEF ShapesOK
      <3>2. D[k] = d
        BY <1>0, <1>1, <1>2, <1>3, <2>1, <2>6 DEF DealtTo
      <3>3. \A j \in Calls : j > k => D[j] = 0
        BY <1>1, <2>1 DEF DealtTo
      <3>4. PICK E : E = [j \in Calls |-> DealtTo(x, j)']
        OBVIOUS
      <3>5. E = [D EXCEPT ![k] = D[k] + 1]
        <4>1. \A j \in Calls : DealtTo(x, j)' = IF j = k THEN d + 1 ELSE DealtTo(x, j)
          BY <1>0, <1>1, <1>2, <1>3, <2>3, <3>1 DEF DealtTo
        <4> QED BY <2>1, <3>2, <3>4, <4>1
      <3>6. PICK w : w = Append(b, <<k, firstGlobalElem(k, x) + D[k]>>)
        OBVIOUS
      <3>7. InOK(x, w, T, E)
        BY <1>3, <2>2, <3>3, <3>5, <3>6, InboxGrows
      <3>8. inbox'[x] = w
        BY <3>1, <3>2, <3>6
      <3> QED BY <2>4, <3>4, <3>7, <3>8
    <2> QED BY <2>5, <2>6
  <1> QED BY <1>0, <1>4, InboxesKept

LEMMA TakeInboxes ==
    ASSUME PlanOK, ShapesOK, PlacesOK, InboxesOK, [Next]_vars, NEW s \in Workers, TakeProblem(s)
    PROVE  InboxesOK'
  <1>0. /\ program' = program /\ shares' = shares /\ s \in Ranks /\ Workers \subseteq Ranks
        /\ Calls \subseteq Nat
    BY StepIs, RanksAre DEF Calls
  <1>1. PICK k, c : k = call[s] /\ c = count[s]
    OBVIOUS
  <1>2. /\ pc[s] = "distribute" /\ Deals(k, 0) /\ call' = call /\ pc' = pc /\ dealt' = dealt
        /\ count' = [count EXCEPT ![s] = c + 1] /\ inbox' = [inbox EXCEPT ![s] = Tail(inbox[s])]
        /\ inbox[s] # <<>> /\ c < nLocalElems(k, s)
    <2>1. pc[s] = "distribute" /\ Deals(k, s) /\ Told(s)
      BY <1>1 DEF TakeProblem
    <2>2. Deals(k, 0)
      BY <1>0, <1>1, <2>1, InACall, DealtTogether
    <2> QED BY <1>1, <2>2 DEF TakeProblem
  <1>3. k \in Calls /\ c \in Nat
    BY <1>0, <1>1, <1>2, InACall
  <1>4. Head(inbox[s]) = <<k, firstGlobalElem(k, s) + c>>
    BY <1>1, <1>2, <1>3, HeadOfInbox
  <1>5. ASSUME NEW x \in Workers
        PROVE  InOK(x, inbox'[x], [j \in Calls |-> TakenBy(x, j)'], [j \in Calls |-> DealtTo(x, j)'])
    <2>1. PICK b, T, D : /\ b = inbox[x] /\ T = [j \in Calls |-> TakenBy(x, j)]
                         /\ D = [j \in Calls |-> DealtTo(x, j)]
      OBVIOUS
    <2>2. InOK(x, b, T, D) /\ T \in [Calls -> Nat] /\ D \in [Calls -> Nat]
      BY <2>1, CountsAreNat DEF InboxesOK
    <2>3. \A j \in Calls : nLocalElems(j, x)' = nLocalElems(j, x) /\ (Deals(j, 0)' <=> Deals(j, 0))
      BY <1>0, PlanFrozen
    <2>4. [j \in Calls |-> DealtTo(x, j)'] = D
      BY <1>0, <1>2, <2>1, <2>3 DEF DealtTo
    <2>5. CASE x # s
      <3>1. inbox'[x] = b /\ count'[x] = count[x]
        BY <1>0, <1>2, <2>1, <2>5 DEF ShapesOK
      <3>2. [j \in Calls |-> TakenBy(x, j)'] = T
        BY <1>0, <1>2, <2>1, <2>3, <3>1 DEF TakenBy
      <3> QED BY <2>2, <2>4, <3>1, <3>2
    <2>6. CASE x = s
      <3>1. inbox'[x] = Tail(b) /\ count'[x] = c + 1
        BY <1>0, <1>2, <2>1, <2>6 DEF ShapesOK
      <3>2. T[k] = c
        BY <1>0, <1>1, <1>2, <1>3, <2>1, <2>6 DEF TakenBy
      <3>3. PICK E : E = [j \in Calls |-> TakenBy(x, j)']
        OBVIOUS
      <3>4. E = [T EXCEPT ![k] = T[k] + 1]
        <4>1. \A j \in Calls : TakenBy(x, j)' = IF j = k THEN c + 1 ELSE TakenBy(x, j)
          BY <1>0, <1>1, <1>2, <1>3, <2>3, <2>6, <3>1 DEF TakenBy
        <4> QED BY <2>1, <3>2, <3>3, <4>1
      <3>5. Head(b) = <<k, firstGlobalElem(k, x) + T[k]>> /\ b # <<>>
        BY <1>2, <1>4, <2>1, <2>6, <3>2
      <3>6. InOK(x, Tail(b), E, D)
        BY <1>3, <2>2, <3>4, <3>5, InboxShrinks
      <3> QED BY <2>4, <3>1, <3>3, <3>6
    <2> QED BY <2>5, <2>6
  <1> QED BY <1>0, <1>5, InboxesKept

LEMMA InboxesStep ==
    ASSUME PlanOK, ShapesOK, PlacesOK, InboxesOK, [Next]_vars
    PROVE  InboxesOK'
  <1>1. CASE \A r \in Workers : ~Deal(r) /\ ~TakeProblem(r)
    <2>1. program' = program /\ shares' = shares
      BY StepIs
    <2>2. ASSUME NEW x \in Workers
          PROVE  InOK(x, inbox'[x], [j \in Calls |-> TakenBy(x, j)'], [j \in Calls |-> DealtTo(x, j)'])
      <3>1. \A j \in Calls : TakenBy(x, j)' = TakenBy(x, j) /\ DealtTo(x, j)' = DealtTo(x, j)
        BY <1>1, NothingMoves
      <3>2. PICK j \in Calls : TRUE
        <4>1. program \in Seq(CallType) \ {<<>>}
          BY ProgramsAssumption DEF PlanOK
        <4>2. 1 \in Calls
          BY <4>1 DEF Calls
        <4> QED BY <4>2
      <3>3. inbox' = inbox
        BY <1>1, <3>2, NothingMoves
      <3>4. /\ [k \in Calls |-> TakenBy(x, k)'] = [k \in Calls |-> TakenBy(x, k)]
            /\ [k \in Calls |-> DealtTo(x, k)'] = [k \in Calls |-> DealtTo(x, k)]
        BY <3>1
      <3> QED BY <3>3, <3>4 DEF InboxesOK
    <2> QED BY <2>1, <2>2, InboxesKept
  <1> QED BY <1>1, DealInboxes, TakeInboxes

-----------------------------------------------------------------------------
(* Results *)

\* the problem that a message of a worker is about
LEMMA ProblemIs ==
    ASSUME PlanOK, NEW k \in Calls, NEW r \in Workers, NEW g \in 1 .. Length(k, r), g > Chunks(k)
    PROVE  /\ PerProblem(k) \in {1, 2} /\ Chunks(k) \in {0, 1}
           /\ ProblemOf(k, g) \in 0 .. nLocalElems(k, r) - 1
  <1>1. PICK n \in Nat : n = nLocalElems(k, r)
    BY PlanIs DEF Workers
  <1>2. PICK c, p : c = Chunks(k) /\ p = PerProblem(k)
    OBVIOUS
  <1>3. c \in {0, 1} /\ p \in 0 .. 2
    BY <1>2 DEF Chunks, PerProblem
  <1>4. Length(k, r) \in Nat
    BY WeightsGrow
  <1>5. Length(k, r) = c + p * n
    <2>1. Length(k, r) # 0
      BY <1>4
    <2>2. Length(k, r) = IF program[k].end = "none" THEN 0 ELSE c + p * n
      BY <1>1, <1>2, Zenon DEF Length
    <2> QED BY <2>1, <2>2
  <1>6. g \in Nat /\ g > c /\ g <= c + p * n
    BY <1>2, <1>4, <1>5
  <1>7. p # 0
    <2>1. 0 * n = 0
      BY <1>1
    <2> QED BY <1>3, <1>6, <2>1
  <1>8. (g - c - 1) \div p \in 0 .. n - 1
    <2>1. CASE p = 1
      BY <1>1, <1>3, <1>6, <2>1
    <2>2. CASE p = 2
      BY <1>1, <1>3, <1>6, <2>2
    <2> QED BY <1>3, <1>7, <2>1, <2>2
  <1> QED BY <1>1, <1>2, <1>3, <1>7, <1>8 DEF ProblemOf

\* a message carries the results, or the input, of its call at their indices
LEMMA SendsAre ==
    ASSUME PlanOK, NEW k \in Calls, NEW r \in Workers, NEW g \in 1 .. Length(k, r),
           NEW m, m = Sends(k, r, g)
    PROVE  /\ m.input \in BOOLEAN
           /\ m.input => m.data[1] = <<k, m.tag>> /\ m.tag \in nLocalElems(k, 0) .. nGlobalElems(k) - 1
           /\ ~m.input => \A i \in m.tag .. m.tag + Len(m.data) - 1 :
                 i \in 0 .. nGlobalElems(k) - 1 /\ m.data[i - m.tag + 1] = <<k, i>>
  <1>1. PICK n, a, e, w : /\ n = nLocalElems(k, r) /\ a = firstGlobalElem(k, r)
                          /\ e = nGlobalElems(k) /\ w = nLocalElems(k, 0)
    OBVIOUS
  <1>2. n \in Nat /\ a \in Nat /\ e \in Nat /\ w \in Nat /\ w <= a /\ a + n <= e
    <2>1. r \in Ranks /\ 0 \in Ranks /\ 0 < r
      BY RanksAre DEF Workers
    <2>2. n \in Nat /\ e \in Nat /\ w \in Nat /\ a \in Nat
      BY <1>1, <2>1, PlanIs, Portions
    <2>3. firstGlobalElem(k, 0) = 0 /\ firstGlobalElem(k, 0) + nLocalElems(k, 0) <= a /\ a + n <= e
      BY <1>1, <2>1, Portions
    <2> QED BY <1>1, <2>2, <2>3
  <1>3. PICK d : d = Solved(k, r)
    OBVIOUS
  <1>4. Len(d) = n /\ \A i \in 1 .. n : d[i] = <<k, a + i - 1>>
    BY <1>1, <1>2, <1>3 DEF Solved
  <1>5. CASE g <= Chunks(k)
    <2>1. m = [input |-> FALSE, tag |-> a, data |-> d, call |-> k]
      BY <1>1, <1>3, <1>5, Zenon DEF Sends
    <2>2. ~m.input /\ m.tag = a /\ m.data = d /\ m.input \in BOOLEAN
      BY <2>1
    <2>3. ASSUME NEW i \in a .. a + n - 1
          PROVE  i \in 0 .. e - 1 /\ d[i - a + 1] = <<k, i>>
      <3>1. i - a + 1 \in 1 .. n /\ a + (i - a + 1) - 1 = i
        BY <1>2
      <3>2. d[i - a + 1] = <<k, a + (i - a + 1) - 1>>
        BY <1>4, <3>1
      <3> QED BY <1>2, <3>1, <3>2
    <2> QED BY <1>1, <1>4, <2>2, <2>3
  <1>6. CASE ~(g <= Chunks(k))
    <2>0. Chunks(k) \in {0, 1}
      BY DEF Chunks
    <2>1. g > Chunks(k)
      BY <1>6, <2>0, WeightsGrow
    <2>2. PICK q : q = ProblemOf(k, g)
      OBVIOUS
    <2>3. q \in 0 .. n - 1
      BY <1>1, <2>1, <2>2, ProblemIs
    <2>4. m = [input |-> program[k].inputs /\ (g - Chunks(k) - 1) % PerProblem(k) = 0,
               tag |-> a + q, data |-> <<d[q + 1]>>, call |-> k]
      BY <1>1, <1>3, <1>6, <2>2, Zenon DEF Sends
    <2>5. m.tag = a + q /\ m.data = <<d[q + 1]>> /\ m.input \in BOOLEAN
      <3>1. m.tag = a + q /\ m.data = <<d[q + 1]>>
        BY <2>4
      <3>2. m.input = (program[k].inputs /\ (g - Chunks(k) - 1) % PerProblem(k) = 0)
        BY <2>4
      <3>3. program[k].inputs \in BOOLEAN
        BY PlanIs DEF CallType
      <3>4. m.input \in BOOLEAN
        BY <3>2, <3>3, Zenon
      <3> QED BY <3>1, <3>4
    <2>6. d[q + 1] = <<k, a + q>>
      <3>1. q + 1 \in 1 .. n /\ a + (q + 1) - 1 = a + q
        BY <1>2, <2>3
      <3>2. d[q + 1] = <<k, a + (q + 1) - 1>>
        BY <1>4, <3>1
      <3> QED BY <3>1, <3>2
    <2>7. PICK t : t = a + q
      OBVIOUS
    <2>8. t \in w .. e - 1 /\ t \in 0 .. e - 1 /\ t \in Nat
      BY <1>2, <2>3, <2>7
    <2>9. m.tag = t /\ Len(m.data) = 1 /\ m.data[1] = <<k, t>>
      BY <2>5, <2>6, <2>7
    <2>10. \A i \in t .. t + 1 - 1 : i = t /\ i - t + 1 = 1
      BY <2>8
    <2> QED BY <1>1, <2>5, <2>8, <2>9, <2>10
  <1> QED BY <1>5, <1>6

\* every problem of a worker is among what it sends
LEMMA IsSent ==
    ASSUME PlanOK, NEW k \in Calls, NEW r \in Workers, program[k].end # "none",
           NEW i \in Nat, firstGlobalElem(k, r) <= i, i < firstGlobalElem(k, r) + nLocalElems(k, r)
    PROVE  /\ ~program[k].collective => \E g \in 1 .. Length(k, r) :
                 LET m == Sends(k, r, g) IN ~m.input /\ i \in m.tag .. m.tag + Len(m.data) - 1
           /\ program[k].inputs => \E g \in 1 .. Length(k, r) :
                 Sends(k, r, g).input /\ Sends(k, r, g).tag = i
  <1>1. PICK n \in Nat, a \in Nat : n = nLocalElems(k, r) /\ a = firstGlobalElem(k, r)
    BY PlanIs, Portions DEF Workers
  <1>2. PICK c, p : c = Chunks(k) /\ p = PerProblem(k)
    OBVIOUS
  <1>3. PICK x, y, z : x = program[k].chunked /\ y = program[k].collective /\ z = program[k].inputs
    OBVIOUS
  <1>4. x \in BOOLEAN /\ y \in BOOLEAN /\ z \in BOOLEAN
    BY <1>3, PlanIs DEF CallType
  <1>5. /\ c = (IF x /\ ~y THEN 1 ELSE 0)
        /\ p = (IF x \/ y THEN 0 ELSE 1) + (IF z THEN 1 ELSE 0)
    BY <1>2, <1>3 DEF Chunks, PerProblem
  <1>6. Length(k, r) = c + p * n
    BY <1>1, <1>2, Zenon DEF Length
  <1>7. PICK j \in Nat : j = i - a /\ j < n
    BY <1>1
  <1>8. \A g : g > c /\ g \in Nat => 
           /\ Sends(k, r, g).input = (z /\ (g - c - 1) % p = 0)
           /\ Sends(k, r, g).tag = a + ((g - c - 1) \div p)
           /\ Len(Sends(k, r, g).data) = 1
    <2> SUFFICES ASSUME NEW g \in Nat, g > c
                 PROVE  /\ Sends(k, r, g).input = (z /\ (g - c - 1) % p = 0)
                        /\ Sends(k, r, g).tag = a + ((g - c - 1) \div p)
                        /\ Len(Sends(k, r, g).data) = 1
      OBVIOUS
    <2>1. ~(g <= c)
      BY <1>4, <1>5
    <2>2. PICK m : m = Sends(k, r, g)
      OBVIOUS
    <2>3. m = [input |-> z /\ (g - c - 1) % p = 0, tag |-> a + ((g - c - 1) \div p),
               data |-> <<Solved(k, r)[((g - c - 1) \div p) + 1]>>, call |-> k]
      BY <1>1, <1>2, <1>3, <2>1, <2>2, Zenon DEF Sends, ProblemOf
    <2>4. m.input = (z /\ (g - c - 1) % p = 0)
      BY <2>3, Zenon
    <2>5. m.tag = a + ((g - c - 1) \div p) /\ Len(m.data) = 1
      BY <2>3
    <2> QED BY <2>2, <2>4, <2>5
  <1>9. CASE p = 1 /\ z
    <2>1. PICK g \in Nat : g = (j + c) + 1
      BY <1>4, <1>5, <1>7
    <2>2. g - c - 1 = j /\ g > c
      BY <1>4, <1>5, <1>7, <2>1
    <2>3. j % p = 0 /\ j \div p = j
      BY <1>7, <1>9
    <2>4. g \in 1 .. Length(k, r)
      BY <1>1, <1>4, <1>5, <1>6, <1>7, <1>9, <2>1
    <2>5. Sends(k, r, g).input /\ Sends(k, r, g).tag = i
      <3>1. Sends(k, r, g).input = (z /\ j % p = 0) /\ Sends(k, r, g).tag = a + (j \div p)
        BY <1>8, <2>2
      <3>2. Sends(k, r, g).input
        BY <1>4, <1>9, <2>3, <3>1, Zenon
      <3> QED BY <1>1, <1>7, <2>3, <3>1, <3>2
    <2> HIDE <1>8
    <2>6. CASE c = 1
      <3>1. 1 <= Chunks(k)
        BY <1>2, <2>6
      <3>2. PICK m : m = Sends(k, r, 1)
        OBVIOUS
      <3>3. m = [input |-> FALSE, tag |-> a, data |-> Solved(k, r), call |-> k]
        BY <1>1, <3>1, <3>2, Zenon DEF Sends
      <3>4. Len(Solved(k, r)) = n
        BY <1>1 DEF Solved
      <3>5. ~m.input /\ i \in m.tag .. m.tag + Len(m.data) - 1
        BY <1>1, <1>7, <3>3, <3>4
      <3>6. 1 \in 1 .. Length(k, r)
        BY <1>1, <1>6, <1>9, <2>6
      <3> QED BY <2>4, <2>5, <3>2, <3>5, <3>6
    <2>7. CASE c # 1
      <3>1. y
        BY <1>4, <1>5, <1>9, <2>7
      <3> QED BY <1>3, <2>4, <2>5, <3>1
    <2> QED BY <2>6, <2>7
  <1>10. CASE p = 1 /\ ~z
    <2>1. c = 0
      BY <1>4, <1>5, <1>10
    <2>2. PICK g \in Nat : g = j + 1
      BY <1>7
    <2>3. g - c - 1 = j /\ g > c /\ g \in 1 .. Length(k, r)
      BY <1>1, <1>6, <1>7, <1>10, <2>1, <2>2
    <2>4. j \div p = j
      BY <1>7, <1>10
    <2>5. PICK m : m = Sends(k, r, g)
      OBVIOUS
    <2>6. m.input = (z /\ j % p = 0) /\ m.tag = a + (j \div p) /\ Len(m.data) = 1
      BY <1>8, <2>3, <2>5
    <2>7. ~m.input
      BY <1>4, <1>10, <2>6, Zenon
    <2>8. i \in m.tag .. m.tag + Len(m.data) - 1
      BY <1>1, <1>7, <2>4, <2>6
    <2> QED BY <1>3, <1>10, <2>3, <2>5, <2>7, <2>8
  <1>11. CASE p = 2
    <2>1. c = 0 /\ z
      BY <1>4, <1>5, <1>11
    <2>2. PICK g \in Nat, h \in Nat : g = 2 * j + 1 /\ h = 2 * j + 2
      BY <1>7
    <2>3. g - c - 1 = 2 * j /\ g > c /\ h - c - 1 = 2 * j + 1 /\ h > c
      BY <1>7, <2>1, <2>2
    <2>4. g \in 1 .. Length(k, r) /\ h \in 1 .. Length(k, r)
      BY <1>1, <1>6, <1>7, <1>11, <2>1, <2>2
    <2>5. /\ (2 * j) % p = 0 /\ (2 * j) \div p = j
          /\ (2 * j + 1) % p = 1 /\ (2 * j + 1) \div p = j
      BY <1>7, <1>11
    <2>6. PICK m, q : m = Sends(k, r, g) /\ q = Sends(k, r, h)
      OBVIOUS
    <2>7. /\ m.input = (z /\ (2 * j) % p = 0) /\ m.tag = a + ((2 * j) \div p)
          /\ q.input = (z /\ (2 * j + 1) % p = 0) /\ q.tag = a + ((2 * j + 1) \div p)
          /\ Len(q.data) = 1
      BY <1>8, <2>3, <2>6
    <2>8. (2 * j + 1) % p # 0
      BY <2>5
    <2>9. m.input /\ ~q.input
      BY <1>4, <2>1, <2>5, <2>7, <2>8, Zenon
    <2>10. m.tag = i /\ i \in q.tag .. q.tag + Len(q.data) - 1
      BY <1>1, <1>7, <2>5, <2>7
    <2> QED BY <2>4, <2>6, <2>9, <2>10
  <1>12. CASE p = 0
    <2>1. ~z /\ (x \/ y)
      BY <1>4, <1>5, <1>12
    <2>2. CASE c = 1
      <3>1. 1 <= Chunks(k)
        BY <1>2, <2>2
      <3>2. PICK m : m = Sends(k, r, 1)
        OBVIOUS
      <3>3. m = [input |-> FALSE, tag |-> a, data |-> Solved(k, r), call |-> k]
        BY <1>1, <3>1, <3>2, Zenon DEF Sends
      <3>4. Len(Solved(k, r)) = n
        BY <1>1 DEF Solved
      <3>5. ~m.input /\ i \in m.tag .. m.tag + Len(m.data) - 1
        BY <1>1, <1>7, <3>3, <3>4
      <3>6. 1 \in 1 .. Length(k, r)
        BY <1>1, <1>6, <1>12, <2>2
      <3> QED BY <1>3, <2>1, <3>2, <3>5, <3>6
    <2>3. CASE c # 1
      <3>1. y
        BY <1>4, <1>5, <2>1, <2>3
      <3> QED BY <1>3, <2>1, <3>1
    <2> QED BY <2>2, <2>3
  <1>13. p \in {0, 1, 2}
    BY <1>5
  <1> QED BY <1>4, <1>9, <1>10, <1>11, <1>12, <1>13

\* a message puts results of its call at their indices, and spoils none
LEMMA RecvResults ==
    ASSUME PlanOK, ShapesOK, PlacesOK, EndsOK, FlowsOK, ResultsOK, [Next]_vars,
           NEW s \in Workers, RecvResult(s)
    PROVE  ResultsOK'
  <1>0. program' = program /\ shares' = shares /\ 0 \in Ranks
    BY StepIs, RanksAre
  <1>1. PICK k, g, m : k = call[0] /\ g = GotOf(s, k) /\ m = Head(outbox[s])
    OBVIOUS
  <1>2. /\ k \in Calls /\ g \in Nat /\ g < Length(k, s) /\ m = Sends(k, s, g + 1)
        /\ \A r \in Workers, j \in Calls : GotOf(r, j)' = IF r = s /\ j = k THEN g + 1 ELSE GotOf(r, j)
    BY <1>1, RecvGot
  <1>3. /\ call' = call /\ pc' = pc /\ pc[0] = "results" /\ results # <<>>
        /\ m.input => inputs' = inputs \cup {<<m.tag, m.data[1]>>} /\ results' = results
        /\ ~m.input =>
              /\ inputs' = inputs
              /\ results' = [i \in DOMAIN results |-> IF i \in m.tag .. m.tag + Len(m.data) - 1
                                                      THEN m.data[i - m.tag + 1] ELSE results[i]]
    BY <1>1 DEF RecvResult
  <1>4. PICK G, H : /\ G = [r \in Workers |-> GotOf(r, k)]
                    /\ H = [r \in Workers |-> IF r = s THEN g + 1 ELSE GotOf(r, k)]
    OBVIOUS
  <1>5. Received(k, results, inputs, G)
    BY <1>1, <1>3, <1>4 DEF ResultsOK
  <1>6. DOMAIN results = 0 .. nGlobalElems(k) - 1
    BY <1>1, <1>3 DEF PlacesOK, RootOK
  <1>7. g + 1 \in 1 .. Length(k, s)
    BY <1>2, WeightsGrow
  <1>8. /\ m.input => m.data[1] = <<k, m.tag>> /\ m.tag \in nLocalElems(k, 0) .. nGlobalElems(k) - 1
        /\ ~m.input => \A i \in m.tag .. m.tag + Len(m.data) - 1 :
              i \in 0 .. nGlobalElems(k) - 1 /\ m.data[i - m.tag + 1] = <<k, i>>
    BY <1>2, <1>7, SendsAre
  <1>9. /\ DOMAIN results' = DOMAIN results
        /\ \A i \in DOMAIN results : results[i] = <<k, i>> => results'[i] = <<k, i>>
        /\ ~m.input => \A i \in m.tag .. m.tag + Len(m.data) - 1 : results'[i] = <<k, i>>
    <2>1. CASE m.input
      BY <1>3, <2>1
    <2>2. CASE ~m.input
      BY <1>3, <1>6, <1>8, <2>2
    <2> QED BY <2>1, <2>2
  <1>10. inputs \subseteq inputs' /\ (m.input => <<m.tag, m.data[1]>> \in inputs')
    BY <1>3
  <1>11. ASSUME NEW r \in Workers, NEW x \in 1 .. H[r], NEW q, q = Sends(k, r, x)
         PROVE  /\ q.input => <<q.tag, q.data[1]>> \in inputs'
                /\ ~q.input => \A i \in q.tag .. q.tag + Len(q.data) - 1 : results'[i] = <<k, i>>
    <2>1. CASE r = s /\ x = g + 1
      BY <1>2, <1>9, <1>10, <1>11, <2>1
    <2>2. CASE ~(r = s /\ x = g + 1)
      <3>1. G[r] \in Nat /\ G[r] <= Length(k, r) /\ Length(k, r) \in Nat
        BY <1>2, <1>4, GotOfBounds, WeightsGrow
      <3>2. x \in 1 .. G[r]
        BY <1>1, <1>2, <1>4, <2>2, <3>1
      <3>3. x \in 1 .. Length(k, r)
        BY <3>1, <3>2
      <3>4. ~q.input => \A i \in q.tag .. q.tag + Len(q.data) - 1 : i \in 0 .. nGlobalElems(k) - 1
        BY <1>2, <1>11, <3>3, SendsAre
      <3>5. /\ q.input => <<q.tag, q.data[1]>> \in inputs
            /\ ~q.input => \A i \in q.tag .. q.tag + Len(q.data) - 1 : results[i] = <<k, i>>
        BY <1>5, <1>11, <3>2 DEF Received
      <3> QED BY <1>6, <1>9, <1>10, <3>4, <3>5
    <2> QED BY <2>1, <2>2
  <1>12. Received(k, results', inputs', H)
    <2>1. \A i \in DOMAIN results' : i < nLocalElems(k, 0) \/ program[k].collective => results'[i] = <<k, i>>
      BY <1>5, <1>9 DEF Received
    <2>2. inputs' \subseteq {<<i, <<k, i>>>> : i \in nLocalElems(k, 0) .. nGlobalElems(k) - 1}
      BY <1>3, <1>5, <1>8 DEF Received
    <2> QED BY <1>11, <2>1, <2>2 DEF Received
  <1>13. Received(call[0], results, inputs, [r \in Workers |-> GotOf(r, call[0])])'
    <2>0. PICK v, w : v = results' /\ w = inputs'
      OBVIOUS
    <2>1. Received(k, v, w, H)'
      BY <1>0, <1>12, <2>0, ViewFrozen
    <2>2. call'[0] = k
      BY <1>1, <1>3
    <2>3. [r \in Workers |-> GotOf(r, call[0])]' = H
      <3>1. ASSUME NEW r \in Workers PROVE GotOf(r, call[0])' = IF r = s THEN g + 1 ELSE GotOf(r, k)
        <4>1. GotOf(r, k)' = IF r = s THEN g + 1 ELSE GotOf(r, k)
          BY <1>2
        <4> QED BY <2>2, <4>1
      <3> QED BY <1>4, <3>1
    <2> QED BY <2>0, <2>1, <2>2, <2>3
  <1>14. OwnResults'
    BY <1>0, <1>3 DEF OwnResults
  <1> QED BY <1>13, <1>14 DEF ResultsOK

\* before the first message, the array has room for all, and the collective's
LEMMA ResizeResults ==
    ASSUME PlanOK, ShapesOK, PlacesOK, FlowsOK, ChunksFull, [Next]_vars, RootGather \/ RootResize
    PROVE  ResultsOK'
  <1>0. /\ program' = program /\ shares' = shares /\ 0 \in Ranks /\ 0 \notin Workers
        /\ Workers \subseteq Ranks /\ IsFiniteSet(Workers)
    BY StepIs, RanksAre
  <1>1. PICK k : k = call[0]
    OBVIOUS
  <1>2. PICK b \in BOOLEAN : b <=> RootGather
    <2>1. TRUE \in BOOLEAN /\ FALSE \in BOOLEAN
      OBVIOUS
    <2> QED BY <2>1, Zenon
  <1>3. /\ call' = call /\ count' = count /\ outbox' = outbox /\ pc'[0] = "results"
        /\ (\A r \in Workers : pc'[r] = pc[r]) /\ inputs' = {}
        /\ pc[0] \in {"gather", "results"} /\ (~b => results = <<>> /\ ~program[k].collective)
        /\ results' = Resized(b)
    <2>1. CASE RootGather
      BY <1>0, <1>2, <2>1 DEF RootGather, ShapesOK
    <2>2. CASE ~RootGather
      BY <1>0, <1>1, <1>2, <2>2 DEF RootResize, Call
    <2> QED BY <2>1, <2>2
  <1>4. k \in Calls /\ RankOK(0, k, pc[0], count[0], local[0]) /\ RootOK(k, pc[0], count[0], dealt, results)
    BY <1>0, <1>1, <1>3, InACall DEF PlacesOK
  <1>5. local[0] = Solved(k, 0)
    BY <1>3, <1>4 DEF RankOK
  <1>6. count[0] = 0
    <2>1. CASE pc[0] = "gather"
      BY <1>4, <2>1 DEF RankOK
    <2>2. CASE pc[0] = "results"
      <3>1. ~b
        BY <1>2, <2>2 DEF RootGather
      <3> QED BY <1>3, <1>4, <2>2, <3>1 DEF RootOK
    <2> QED BY <1>3, <2>1, <2>2
  <1>7. ASSUME NEW r \in Workers PROVE GotOf(r, k) = 0
    <2>1. PICK f : f = [x \in Workers |-> Weight(k, x, GotOf(x, k))]
      OBVIOUS
    <2>2. \A x \in Workers : GotOf(x, k) \in Nat
      BY <1>4, GotOfBounds
    <2>3. \A x \in Workers : \A g \in Nat : Weight(k, x, g) \in Nat
      BY <1>4, WeightsGrow
    <2>4. f \in [Workers -> Nat]
      BY <2>1, <2>2, <2>3
    <2>5. SumFunction(f) = 0
      BY <1>1, <1>3, <1>6, <2>1 DEF FlowsOK, Collected
    <2>6. Weight(k, r, GotOf(r, k)) = 0
      BY <1>0, <2>1, <2>4, <2>5, SumNat
    <2>7. Full(program[k])
      BY <1>4, PlanIs DEF ChunksFull
    <2>8. PICK g \in Nat : g = GotOf(r, k)
      BY <2>2
    <2>9. 0 < g => Weight(k, r, 0) < Weight(k, r, g)
      BY <1>4, <2>7, WeightsGrow
    <2>10. Weight(k, r, 0) = 0
      BY <1>4, WeightsGrow
    <2> QED BY <2>6, <2>8, <2>9, <2>10
  <1>8. ASSUME NEW r \in Workers PROVE GotOf(r, k)' = 0
    <2>1. GotAs(r, call[r], pc[r], count[r], outbox[r], k)'
            = GotAs(r, call'[r], pc'[r], count'[r], outbox'[r], k)
      BY <1>0, ViewFrozen, Zenon
    <2> QED BY <1>3, <1>7, <2>1 DEF GotOf
  <1>9. /\ nLocalElems(k, 0) \in Nat /\ nGlobalElems(k) \in Nat /\ firstGlobalElem(k, 0) = 0
    BY <1>0, <1>4, PlanIs, Portions
  <1>10. \A i \in DOMAIN results' : i < nLocalElems(k, 0) \/ program[k].collective => results'[i] = <<k, i>>
    <2>1. results' = [i \in 0 .. nGlobalElems(k) - 1 |->
                         IF i < nLocalElems(k, 0) THEN Solved(k, 0)[i + 1]
                         ELSE IF b THEN <<k, i>> ELSE NONE]
      BY <1>1, <1>3, <1>5, Zenon DEF Resized
    <2>2. \A i \in 0 .. nGlobalElems(k) - 1 : i < nLocalElems(k, 0) => Solved(k, 0)[i + 1] = <<k, i>>
      BY <1>9 DEF Solved
    <2>3. program[k].collective => b
      BY <1>3
    <2> QED BY <2>1, <2>2, <2>3
  <1>11. PICK v, w, H : v = results' /\ w = inputs' /\ H = [r \in Workers |-> 0]
    OBVIOUS
  <1>12. Received(k, v, w, H)
    BY <1>3, <1>10, <1>11 DEF Received
  <1>13. Received(call[0], results, inputs, [r \in Workers |-> GotOf(r, call[0])])'
    <2>1. Received(k, v, w, H)'
      BY <1>0, <1>12, ViewFrozen
    <2>2. call'[0] = k
      BY <1>1, <1>3
    <2>3. \A r \in Workers : GotOf(r, call[0])' = 0
      BY <1>8, <2>2
    <2>4. [r \in Workers |-> GotOf(r, call[0])]' = H
      BY <1>11, <2>3
    <2> QED BY <1>11, <2>1, <2>2, <2>4
  <1>14. OwnResults'
    BY <1>3 DEF OwnResults
  <1> QED BY <1>13, <1>14 DEF ResultsOK

\* once it has all, rank 0 has the results of the call, and no others
LEMMA ReduceResults ==
    ASSUME PlanOK, ShapesOK, PlacesOK, FlowsOK, ResultsOK, ChunksFull, [Next]_vars, Reduce
    PROVE  ResultsOK'
  <1>0. /\ program' = program /\ shares' = shares /\ 0 \in Ranks /\ Ranks = Workers \cup {0}
    BY StepIs, RanksAre
  <1>1. PICK k, n, w : k = call[0] /\ n = nGlobalElems(k) /\ w = nLocalElems(k, 0)
    OBVIOUS
  <1>2. /\ call' = call /\ count' = count /\ results' = results /\ inputs' = inputs /\ pc'[0] = "end"
        /\ pc[0] = "results" /\ results # <<>> /\ count[0] >= External(k)
    BY <1>0, <1>1 DEF Reduce, ShapesOK
  <1>3. k \in Calls /\ RankOK(0, k, pc[0], count[0], local[0])
    BY <1>0, <1>1, <1>2, InACall
  <1>4. program[k].end # "none"
    BY <1>2, <1>3 DEF RankOK
  <1>5. Full(program[k])
    BY <1>3, PlanIs DEF ChunksFull
  <1>6. count[0] = External(k) /\ \A r \in Workers : GotOf(r, k) = Length(k, r)
    BY <1>1, <1>2, <1>3, <1>5, AllGot
  <1>7. PICK G : G = [r \in Workers |-> GotOf(r, k)]
    OBVIOUS
  <1>8. Received(k, results, inputs, G)
    BY <1>1, <1>2, <1>7 DEF ResultsOK
  <1>9. DOMAIN results = 0 .. n - 1
    BY <1>1, <1>2 DEF PlacesOK, RootOK
  <1>10. n \in Nat /\ w \in Nat /\ firstGlobalElem(k, 0) = 0
    BY <1>0, <1>1, <1>3, PlanIs, Portions
  <1>11. ASSUME NEW i \in 0 .. n - 1, ~(i < w)
         PROVE  /\ ~program[k].collective => results[i] = <<k, i>>
                /\ program[k].inputs => <<i, <<k, i>>>> \in inputs
    <2>1. PICK r \in Ranks : /\ firstGlobalElem(k, r) <= i
                             /\ i < firstGlobalElem(k, r) + nLocalElems(k, r)
      BY <1>1, <1>3, Portions
    <2>2. r \in Workers
      BY <1>0, <1>1, <1>10, <1>11, <2>1
    <2>3. i \in Nat
      BY <1>10
    <2>4. /\ ~program[k].collective => \E g \in 1 .. Length(k, r) :
                LET m == Sends(k, r, g) IN ~m.input /\ i \in m.tag .. m.tag + Len(m.data) - 1
          /\ program[k].inputs => \E g \in 1 .. Length(k, r) :
                Sends(k, r, g).input /\ Sends(k, r, g).tag = i
      BY <1>3, <1>4, <2>1, <2>2, <2>3, IsSent
    <2>5. G[r] = Length(k, r)
      BY <1>6, <1>7, <2>2
    <2>6. ~program[k].collective => results[i] = <<k, i>>
      BY <1>8, <2>2, <2>4, <2>5 DEF Received
    <2>7. ASSUME program[k].inputs PROVE <<i, <<k, i>>>> \in inputs
      <3>1. PICK g \in 1 .. Length(k, r) : Sends(k, r, g).input /\ Sends(k, r, g).tag = i
        BY <2>4, <2>7
      <3>2. <<Sends(k, r, g).tag, Sends(k, r, g).data[1]>> \in inputs
        BY <1>8, <2>2, <2>5, <3>1 DEF Received
      <3>3. Sends(k, r, g).data[1] = <<k, Sends(k, r, g).tag>>
        BY <1>3, <2>2, <3>1, SendsAre
      <3> QED BY <3>1, <3>2, <3>3
    <2> QED BY <2>6, <2>7
  <1>12. \A i \in 0 .. n - 1 : results[i] = <<k, i>>
    <2>1. ASSUME NEW i \in 0 .. n - 1, i < w \/ program[k].collective PROVE results[i] = <<k, i>>
      BY <1>1, <1>8, <1>9, <2>1 DEF Received
    <2> QED BY <1>11, <2>1
  <1>13. program[k].inputs => inputs = {<<i, <<k, i>>>> : i \in w .. n - 1}
    <2> SUFFICES ASSUME program[k].inputs PROVE inputs = {<<i, <<k, i>>>> : i \in w .. n - 1}
      OBVIOUS
    <2>1. inputs \subseteq {<<i, <<k, i>>>> : i \in w .. n - 1}
      BY <1>1, <1>8 DEF Received
    <2>2. \A i \in w .. n - 1 : <<i, <<k, i>>>> \in inputs
      BY <1>10, <1>11
    <2> QED BY <2>1, <2>2
  <1>14. OwnResults'
    <2>1. /\ nGlobalElems(k)' = n /\ nLocalElems(k, 0)' = w /\ External(k)' = External(k)
          /\ call'[0] = k /\ count'[0] = count[0]
      BY <1>0, <1>1, <1>2, PlanFrozen
    <2> QED BY <1>0, <1>2, <1>6, <1>12, <1>13, <2>1 DEF OwnResults, Call
  <1> QED BY <1>2, <1>14 DEF ResultsOK

LEMMA ResultsStep ==
    ASSUME PlanOK, ShapesOK, PlacesOK, EndsOK, FlowsOK, ResultsOK, ChunksFull, [Next]_vars
    PROVE  ResultsOK'
  <1>0. program' = program /\ shares' = shares /\ 0 \in Ranks /\ 0 \notin Workers /\ Ranks = Workers \cup {0}
    BY StepIs, RanksAre
  <1>1. CASE \E r \in Workers : RecvResult(r)
    BY <1>1, RecvResults
  <1>2. CASE RootGather \/ RootResize
    BY <1>2, ResizeResults
  <1>3. CASE Reduce
    BY <1>3, ReduceResults
  <1>4. CASE Run(0)
    <2>1. PICK k : k = call[0]
      OBVIOUS
    <2>2. /\ pc[0] = "distribute" /\ call'[0] = k /\ results' = results
          /\ pc'[0] = IF program[k].end = "none" THEN "end"
                      ELSE IF program[k].collective THEN "gather" ELSE "results"
      BY <1>0, <1>4, <2>1 DEF Run, Call, ShapesOK
    <2>3. results = <<>>
      BY <2>2 DEF PlacesOK, RootOK
    <2>4. OwnResults'
      BY <1>0, <2>2 DEF OwnResults, Call
    <2> QED BY <2>2, <2>3, <2>4 DEF ResultsOK
  <1>5. CASE Leave(0)
    <2>1. pc'[0] \in {"done", "distribute"}
      BY <1>0, <1>5 DEF Leave, ShapesOK
    <2> QED BY <2>1 DEF ResultsOK, OwnResults
  <1>6. CASE /\ \A r \in Workers : ~RecvResult(r)
             /\ ~RootGather /\ ~RootResize /\ ~Reduce /\ ~Run(0) /\ ~Leave(0)
    <2>1. call'[0] = call[0] /\ pc'[0] = pc[0] /\ count'[0] = count[0] /\ results' = results /\ inputs' = inputs
      <3>1. CASE UNCHANGED vars
        BY <3>1 DEF vars
      <3>2. ASSUME NEW r \in Workers, Run(r) \/ Leave(r)
            PROVE  call'[0] = call[0] /\ pc'[0] = pc[0] /\ count'[0] = count[0] /\ results' = results /\ inputs' = inputs
        <4>1. r # 0
          BY <1>0
        <4>2. CASE Run(r)
          BY <1>0, <4>1, <4>2 DEF Run, ShapesOK
        <4>3. CASE Leave(r)
          BY <1>0, <4>1, <4>3 DEF Leave, ShapesOK
        <4> QED BY <3>2, <4>2, <4>3
      <3>3. ASSUME NEW r \in Workers, Deal(r) \/ TakeProblem(r) \/ EnterGather(r) \/ SendResult(r)
            PROVE  call'[0] = call[0] /\ pc'[0] = pc[0] /\ count'[0] = count[0] /\ results' = results /\ inputs' = inputs
        <4>1. r # 0
          BY <1>0
        <4>2. CASE Deal(r)
          BY <4>2 DEF Deal
        <4>3. CASE TakeProblem(r)
          BY <1>0, <4>1, <4>3 DEF TakeProblem, ShapesOK
        <4>4. CASE EnterGather(r)
          BY <1>0, <4>1, <4>4 DEF EnterGather, ShapesOK
        <4>5. CASE SendResult(r)
          BY <1>0, <4>1, <4>5 DEF SendResult, ShapesOK
        <4> QED BY <3>3, <4>2, <4>3, <4>4, <4>5
      <3> QED BY <1>0, <1>6, <3>1, <3>2, <3>3, StepIs
    <2>2. PICK k : k = call[0]
      OBVIOUS
    <2>3. OwnResults'
      <3>1. /\ nGlobalElems(k)' = nGlobalElems(k) /\ nLocalElems(k, 0)' = nLocalElems(k, 0)
            /\ External(k)' = External(k)
        BY <1>0, PlanFrozen
      <3>2. OwnResults
        BY DEF ResultsOK
      <3> QED BY <1>0, <2>1, <2>2, <3>1, <3>2 DEF OwnResults, Call
    <2>4. ASSUME pc[0] = "results", results # <<>>
          PROVE  Received(call[0], results, inputs, [r \in Workers |-> GotOf(r, call[0])])'
      <3>1. k \in Calls
        BY <1>0, <2>2, <2>4, InACall
      <3>2. ASSUME NEW r \in Workers PROVE GotOf(r, k)' = GotOf(r, k)
        <4>1. GotAs(r, call[r], pc[r], count[r], outbox[r], k)'
                = GotAs(r, call'[r], pc'[r], count'[r], outbox'[r], k)
          BY <1>0, ViewFrozen, Zenon
        <4>2. GotAs(r, call'[r], pc'[r], count'[r], outbox'[r], k) = GotOf(r, k)
          BY <1>6, <3>1, SendersStep
        <4> QED BY <4>1, <4>2 DEF GotOf
      <3>3. PICK v, w, H : v = results /\ w = inputs /\ H = [r \in Workers |-> GotOf(r, k)]
        OBVIOUS
      <3>4. Received(k, v, w, H)
        BY <2>2, <2>4, <3>3 DEF ResultsOK
      <3>5. Received(k, v, w, H)'
        BY <1>0, <3>4, ViewFrozen
      <3>6. [r \in Workers |-> GotOf(r, call[0])]' = H
        <4>1. \A r \in Workers : GotOf(r, call[0])' = GotOf(r, k)
          BY <2>1, <2>2, <3>2
        <4> QED BY <3>3, <4>1
      <3> QED BY <2>1, <2>2, <3>3, <3>5, <3>6
    <2> QED BY <2>1, <2>3, <2>4 DEF ResultsOK
  <1> QED BY <1>1, <1>2, <1>3, <1>4, <1>5, <1>6

-----------------------------------------------------------------------------
(* The invariant and what it implies *)

LEMMA CallsStep == ASSUME PlanOK, ChunksFull, CallsOK, [Next]_vars PROVE CallsOK'
  <1>1. ShapesOK /\ PlacesOK /\ EndsOK /\ FlowsOK /\ InboxesOK /\ ResultsOK
    BY DEF CallsOK
  <1>2. ShapesOK' /\ PlacesOK'
    BY <1>1, ShapesStep, PlacesStep
  <1>3. EndsOK' /\ InboxesOK' /\ ResultsOK'
    BY <1>1, EndsStep, InboxesStep, ResultsStep
  <1>4. FlowsOK'
    BY <1>1, <1>2, FlowsStep, RecvFlows
  <1> QED BY <1>2, <1>3, <1>4 DEF CallsOK

(* In a program whose chunks are never empty, the plan stays and the       *)
(* invariant of the calls holds in every state.                            *)
THEOREM CallsInductive == Spec => []PlanOK /\ [](ChunksFull => CallsOK)
  <1>1. Init => PlanOK /\ (ChunksFull => CallsOK)
    BY StartsOK
  <1>2. PlanOK /\ (ChunksFull => CallsOK) /\ [Next]_vars => (PlanOK /\ (ChunksFull => CallsOK))'
    <2> SUFFICES ASSUME PlanOK, ChunksFull => CallsOK, [Next]_vars
                 PROVE  PlanOK' /\ (ChunksFull' => CallsOK')
      OBVIOUS
    <2>1. PlanOK' /\ program' = program
      BY PlanStays, StepIs
    <2>2. ChunksFull' <=> ChunksFull
      BY <2>1 DEF ChunksFull
    <2> QED BY <2>1, <2>2, CallsStep
  <1> QED BY <1>1, <1>2, PTL DEF Spec

LEMMA NothingMixes == ASSUME PlanOK, CallsOK PROVE CallsDoNotMix
  <1>0. ShapesOK /\ PlacesOK /\ EndsOK /\ FlowsOK /\ InboxesOK
    BY DEF CallsOK
  <1>1. \A k, r, g : Sends(k, r, g).call = k
    BY DEF Sends
  <1> SUFFICES ASSUME NEW r \in Workers
               PROVE  /\ \A i \in DOMAIN outbox[r] : outbox[r][i].call >= call[0]
                      /\ outbox[r] # <<>> /\ pc[0] = "results" => Head(outbox[r]).call = call[0]
                      /\ \A i \in DOMAIN inbox[r] : inbox[r][i][1] >= call[r]
    BY Zenon DEF CallsDoNotMix
  <1>2. PICK o, b : o = outbox[r] /\ b = inbox[r]
    OBVIOUS
  <1>3. ASSUME NEW i \in DOMAIN o PROVE o[i].call >= call[0]
    <2>1. PICK s : s = SentBy(r, call[r], pc[r], count[r])
      OBVIOUS
    <2>2. OutOK(r, call[r], s, o)
      BY <1>0, <1>2, <2>1 DEF FlowsOK
    <2>3. PICK M : o \in Seq(M)
      BY <2>2 DEF OutOK
    <2>4. i \in 1 .. Len(o) /\ o # <<>>
      BY <2>3
    <2>5. o[i] = Sends(call[r], r, s - Len(o) + i)
      BY <2>2, <2>4 DEF OutOK
    <2>6. call[r] >= call[0]
      BY <1>0, <1>2, <2>4, HeadIsOfCall
    <2> QED BY <1>1, <2>5, <2>6
  <1>4. o # <<>> /\ pc[0] = "results" => Head(o).call = call[0]
    BY <1>0, <1>1, <1>2, HeadIsOfCall
  <1>5. ASSUME NEW i \in DOMAIN b PROVE b[i][1] >= call[r]
    <2>1. PICK f, T, D : /\ f = [k \in Calls |-> firstGlobalElem(k, r)]
                         /\ T = [k \in Calls |-> TakenBy(r, k)] /\ D = [k \in Calls |-> DealtTo(r, k)]
      OBVIOUS
    <2>2. Held(f, b, T, D)
      BY <1>0, <1>2, <2>1 DEF InboxesOK, InOK
    <2>3. PICK M : b \in Seq(M)
      BY <2>2 DEF Held
    <2>4. i \in 1 .. Len(b)
      BY <2>3
    <2>5. PICK k \in Calls, j \in Nat : b[i] = <<k, f[k] + j>> /\ T[k] <= j /\ j < D[k]
      BY <2>2, <2>4 DEF Held, OnlySent
    <2>6. TakenBy(r, k) \in Nat /\ DealtTo(r, k) \in Nat
      BY <1>0, CountsAreNat
    <2>7. TakenBy(r, k) < DealtTo(r, k)
      BY <2>1, <2>5, <2>6
    <2>8. call[r] <= k /\ call[r] \in Nat /\ k \in Nat
      BY <1>0, <2>7, InboxIsAhead, RanksAre, SMTT(40) DEF Calls, ShapesOK
    <2> QED BY <2>5, <2>8
  <1> QED BY <1>2, <1>3, <1>4, <1>5

(* Messages of different calls do not mix: neither end of a call (the      *)
(* barrier, the broadcast, or none when nothing is returned) lets a message*)
(* of one call be received in another.  The hypotheses are those of        *)
(* programs whose collectives match and whose chunks rank 0 waits for.     *)
THEOREM CallsStayApart == Spec => [](ChunksFull /\ RootsKept => CallsDoNotMix)
  <1>1. PlanOK /\ (ChunksFull => CallsOK) => (ChunksFull /\ RootsKept => CallsDoNotMix)
    BY NothingMixes
  <1> QED BY <1>1, CallsInductive, PTL

(* When rank 0 reduces, it has counted exactly what it waits for, and has  *)
(* the result of every problem, and the inputs the call asks for, in the   *)
(* order of the problems.                                                  *)
THEOREM ResultsAreOwn == Spec => [](ChunksFull /\ RootsKept => OwnResults)
  <1>1. CallsOK => OwnResults
    BY DEF CallsOK, ResultsOK
  <1> QED BY <1>1, CallsInductive, PTL

-----------------------------------------------------------------------------
(* Nobody waits for ever *)

\* a worker that waits for a problem is in the call that rank 0 is dealing
LEMMA WaitsForDeal ==
    ASSUME PlanOK, RootsKept, CallsOK, NEW r \in Workers, pc[r] = "distribute", Waits(r),
           call[r] <= call[0]
    PROVE  inbox[r] = <<>> /\ call[0] = call[r] /\ pc[0] = "distribute"
  <1>0. ShapesOK /\ PlacesOK /\ InboxesOK /\ r \in Ranks /\ r # 0 /\ 0 \in Ranks
    BY RanksAre DEF CallsOK
  <1>1. PICK k : k = call[r]
    OBVIOUS
  <1>2. k \in Calls /\ k \in Nat /\ call[0] \in Nat /\ count[r] \in Nat
    BY <1>0, <1>1, InACall
  <1>3. Deals(k, 0) /\ count[r] < nLocalElems(k, r) /\ inbox[r] = <<>>
    <2>1. Told(r)
      BY <1>0, <1>1, <1>2, ToldInTime
    <2>2. Deals(k, r) /\ count[r] < nLocalElems(k, r) /\ inbox[r] = <<>>
      BY <1>0, <1>1, <2>1 DEF Waits
    <2> QED BY <1>0, <1>1, <1>2, <2>1, <2>2, DealtTogether
  <1>4. TakenBy(r, k) = count[r]
    BY <1>1, <1>2, <1>3 DEF TakenBy
  <1>5. DealtTo(r, k) = count[r]
    <2>1. PICK f, T, D : /\ f = [j \in Calls |-> firstGlobalElem(j, r)]
                         /\ T = [j \in Calls |-> TakenBy(r, j)] /\ D = [j \in Calls |-> DealtTo(r, j)]
      OBVIOUS
    <2>2. Held(f, inbox[r], T, D)
      BY <1>0, <2>1 DEF InboxesOK, InOK
    <2>3. T[k] = count[r] /\ D[k] = DealtTo(r, k) /\ D[k] \in Nat
      BY <1>0, <1>2, <1>4, <2>1, CountsAreNat
    <2>4. T[k] <= D[k]
      BY <1>2, <2>2 DEF Held
    <2>5. ~(T[k] < D[k])
      <3>1. AllSent(f, inbox[r], T, D)
        BY <2>2 DEF Held
      <3>2. PICK t \in Nat : t = T[k]
        BY <1>2, <2>3
      <3>3. t <= t
        OBVIOUS
      <3>4. t < D[k] => \E x \in 1 .. Len(inbox[r]) : TRUE
        BY <1>2, <3>1, <3>2, <3>3, Zenon DEF AllSent
      <3>5. Len(inbox[r]) = 0
        BY <1>3
      <3>6. ~(\E x \in 1 .. 0 : TRUE)
        OBVIOUS
      <3> QED BY <3>2, <3>4, <3>5, <3>6
    <2> QED BY <1>2, <2>3, <2>4, <2>5
  <1>6. call[0] = k
    <2>1. nLocalElems(k, r) \in Nat
      BY <1>0, <1>2, PlanIs
    <2> QED BY <1>1, <1>2, <1>3, <1>5, <2>1 DEF DealtTo
  <1>7. pc[0] = "distribute"
    <2>1. dealt[r] = count[r]
      BY <1>2, <1>3, <1>5, <1>6 DEF DealtTo
    <2>2. pc[0] # "done"
      BY <1>0, <1>2, <1>6, InACall
    <2>3. RootOK(k, pc[0], count[0], dealt, results)
      BY <1>0, <1>6 DEF PlacesOK
    <2>4. nLocalElems(k, r) \in Nat
      BY <1>0, <1>2, PlanIs
    <2> QED BY <1>2, <1>3, <2>1, <2>2, <2>3, <2>4 DEF RootOK
  <1> QED BY <1>1, <1>3, <1>6, <1>7

\* who is behind rank 0 has all that it needs from the others
LEMMA BehindGoesOn ==
    ASSUME PlanOK, RootsKept, CallsOK, NEW r \in Workers, call[r] < call[0]
    PROVE  pc[r] # "done" /\ ~Waits(r)
  <1>0. /\ ShapesOK /\ PlacesOK /\ EndsOK /\ FlowsOK
        /\ r \in Ranks /\ r # 0 /\ 0 \in Ranks
    BY RanksAre DEF CallsOK
  <1>1. PICK k, n : k = call[r] /\ n = call[0]
    OBVIOUS
  <1>2. k \in Nat /\ n \in Nat /\ k < n /\ pc[r] # "done" /\ k \in Calls
    <2>1. RankOK(0, n, pc[0], count[0], local[0]) /\ RankOK(r, k, pc[r], count[r], local[r])
      BY <1>0, <1>1, InACall
    <2>2. n \in 1 .. Len(program) + 1 /\ k \in 1 .. Len(program) + 1 /\ Len(program) \in Nat
      BY <2>1, PlanIs DEF RankOK
    <2>3. k \in Calls
      BY <1>1, <2>2 DEF Calls
    <2> QED BY <1>0, <1>1, <2>2, <2>3, InACall
  <1>3. ASSUME Waits(r), pc[r] = "distribute" PROVE FALSE
    <2>1. call[0] = call[r]
      BY <1>1, <1>2, <1>3, WaitsForDeal
    <2> QED BY <1>1, <1>2, <2>1
  <1>4. ASSUME Waits(r), pc[r] = "results" PROVE FALSE
    <2>1. outbox[r] # <<>>
      BY <1>0, <1>4 DEF Waits, Returned
    <2>2. call[r] >= call[0]
      BY <1>0, <2>1, HeadIsOfCall
    <2> QED BY <1>1, <1>2, <2>2
  <1>5. ASSUME Waits(r), pc[r] = "end" PROVE FALSE
    <2>1. ~MayLeave(r)
      BY <1>0, <1>5 DEF Waits
    <2>2. program[k].end = "barrier" => \A s \in Ranks : Past(s, r)
      BY <1>0, <1>1, <1>2 DEF EndsOK, Over, Past
    <2>3. Past(0, r)
      BY <1>1, <1>2 DEF Past
    <2> QED BY <1>1, <2>1, <2>2, <2>3 DEF MayLeave, Call
  <1>6. Waits(r) => pc[r] \in {"distribute", "results", "end"}
    BY <1>0 DEF Waits
  <1> QED BY <1>2, <1>3, <1>4, <1>5, <1>6

\* in a call that ends with a barrier or a broadcast nobody is ahead of rank 0
LEMMA NobodyAhead ==
    ASSUME PlanOK, CallsOK, NEW k \in Calls, k = call[0], pc[0] # "end", program[k].end # "none",
           NEW r \in Workers
    PROVE  call[r] <= k
  <1>0. EndsOK /\ ShapesOK /\ r \in Ranks /\ 0 \in Ranks
    BY RanksAre DEF CallsOK
  <1>1. k \in Nat /\ call[r] \in Nat
    BY <1>0 DEF Calls, ShapesOK
  <1>2. call[r] > k => Over(0, k)
    BY <1>0 DEF EndsOK
  <1>3. ~Over(0, k)
    <2>1. ~(k > k)
      BY <1>1
    <2> QED BY <2>1 DEF Over
  <1> QED BY <1>1, <1>2, <1>3

\* a worker in rank 0's call that is neither dealt problems, nor sending, nor
\* at the end of the call, does not wait
LEMMA WaitsWithRoot ==
    ASSUME PlanOK, RootsKept, CallsOK, NEW r \in Workers, call[r] = call[0], Waits(r),
           pc[0] # "distribute"
    PROVE  pc[r] = "end" \/ (pc[r] = "results" /\ outbox[r] # <<>>)
  <1>1. r \in Ranks /\ r # 0 /\ call[0] \in Nat
    BY RanksAre DEF CallsOK, ShapesOK
  <1>2. pc[r] # "distribute"
    BY <1>1, WaitsForDeal
  <1> QED BY <1>1, <1>2 DEF Waits, Returned

\* rank 0 cannot wait when all the others do or are done
LEMMA RootGoesOn ==
    ASSUME PlanOK, RootsKept, CallsOK, pc[0] # "done", Waits(0),
           \A r \in Workers : pc[r] = "done" \/ Waits(r)
    PROVE  FALSE
  <1>0. /\ ShapesOK /\ PlacesOK /\ EndsOK /\ FlowsOK /\ InboxesOK
        /\ 0 \in Ranks /\ 0 \notin Workers /\ Workers \subseteq Ranks /\ Ranks = Workers \cup {0}
    BY RanksAre DEF CallsOK
  <1>1. PICK k : k = call[0]
    OBVIOUS
  <1>2. k \in Calls /\ k \in Nat /\ RankOK(0, k, pc[0], count[0], local[0])
    BY <1>0, <1>1, InACall DEF Calls
  <1>3. ASSUME NEW r \in Workers PROVE call[r] \in Nat /\ call[r] >= k
    <2>1. call[r] \in Nat /\ ~(call[r] < k)
      BY <1>0, <1>1, BehindGoesOn DEF ShapesOK
    <2> QED BY <1>2, <2>1
  <1>4. ASSUME NEW r \in Workers, call[r] = k PROVE Waits(r)
    BY <1>0, <1>2, <1>4, InACall
  <1>5. CASE pc[0] = "distribute"
    <2>1. PICK r \in Workers : inbox[r] # <<>>
      <3>1. Told(0)
        BY <1>0, <1>1, <1>2, ToldInTime
      <3> QED BY <1>5, <3>1 DEF Waits, Returned
    <2>2. PICK f, T, D : /\ f = [j \in Calls |-> firstGlobalElem(j, r)]
                         /\ T = [j \in Calls |-> TakenBy(r, j)] /\ D = [j \in Calls |-> DealtTo(r, j)]
      OBVIOUS
    <2>3. Held(f, inbox[r], T, D)
      BY <1>0, <2>2 DEF InboxesOK, InOK
    <2>4. 1 \in 1 .. Len(inbox[r])
      <3>1. PICK M : inbox[r] \in Seq(M)
        BY <2>3 DEF Held
      <3> QED BY <2>1, <3>1
    <2>5. PICK j \in Calls, i \in Nat : T[j] <= i /\ i < D[j]
      BY <2>3, <2>4 DEF Held, OnlySent
    <2>6. TakenBy(r, j) \in Nat /\ DealtTo(r, j) \in Nat /\ TakenBy(r, j) < DealtTo(r, j)
      BY <1>0, <2>2, <2>5, CountsAreNat
    <2>7. Deals(j, 0) /\ call[r] <= j /\ j <= call[0]
      BY <1>0, <2>6, InboxIsAhead
    <2>8. j = k /\ call[r] = k
      BY <1>1, <1>2, <1>3, <2>7 DEF Calls
    <2>9. pc[r] = "distribute"
      <3>1. pc[r] # "distribute" => TakenBy(r, k) = nLocalElems(k, r)
        BY <1>2, <2>7, <2>8 DEF TakenBy
      <3>2. DealtTo(r, k) = dealt[r]
        BY <1>1, <1>2, <2>7, <2>8 DEF DealtTo
      <3>3. dealt[r] <= nLocalElems(k, r)
        BY <1>0, <1>1, <1>5, <2>7, <2>8 DEF PlacesOK, RootOK
      <3>4. nLocalElems(k, r) \in Nat
        BY <1>0, <1>2, PlanIs
      <3> QED BY <2>6, <2>8, <3>1, <3>2, <3>3, <3>4
    <2>10. Waits(r)
      BY <1>4, <2>8
    <2>11. call[r] <= call[0]
      BY <1>1, <1>2, <2>8
    <2> QED BY <2>1, <2>9, <2>10, <2>11, WaitsForDeal
  <1>6. CASE pc[0] = "gather"
    <2>1. PICK r \in Workers : posted[r] < k
      BY <1>1, <1>6 DEF Waits
    <2>2. program[k].end # "none" /\ program[k].collective
      BY <1>2, <1>6 DEF RankOK
    <2>3. call[r] = k
      <3>1. call[r] <= k
        BY <1>1, <1>2, <1>6, <2>2, NobodyAhead
      <3> QED BY <1>2, <1>3, <3>1
    <2>4. pc[r] \in {"results", "end"}
      <3>1. Waits(r)
        BY <1>4, <2>3
      <3> QED BY <1>1, <1>6, <2>3, <3>1, WaitsWithRoot
    <2>5. PostedOK(k, pc[r], posted[r])
      BY <1>0, <2>3 DEF PlacesOK
    <2>6. posted[r] >= k /\ posted[r] \in Nat
      BY <2>2, <2>4, <2>5 DEF PostedOK
    <2> QED BY <1>2, <2>1, <2>6
  <1>7. CASE pc[0] = "results"
    <2>1. count[0] < External(k) /\ \A r \in Workers : outbox[r] = <<>>
      BY <1>0, <1>1, <1>7 DEF Waits
    <2>2. program[k].end # "none"
      BY <1>2, <1>7 DEF RankOK
    <2>3. PICK r \in Workers : GotOf(r, k) # Length(k, r)
      <3>1. ASSUME \A r \in Workers : GotOf(r, k) = Length(k, r) PROVE FALSE
        <4>1. Collected = [r \in Workers |-> Weight(k, r, Length(k, r))]
          BY <1>1, <3>1 DEF Collected
        <4>2. count[0] = External(k)
          BY <1>0, <1>2, <1>7, <2>2, <4>1, ExternalIs DEF FlowsOK
        <4>3. count[0] \in Nat
          BY <1>0 DEF ShapesOK
        <4> QED BY <2>1, <4>2, <4>3
      <3> QED BY <3>1
    <2>4. call[r] = k
      <3>1. call[r] <= k
        BY <1>1, <1>2, <1>7, <2>2, NobodyAhead
      <3> QED BY <1>2, <1>3, <3>1
    <2>5. pc[r] = "end"
      <3>1. Waits(r)
        BY <1>4, <2>4
      <3> QED BY <1>1, <1>7, <2>1, <2>4, <3>1, WaitsWithRoot
    <2>6. GotOf(r, k) = SentBy(r, k, pc[r], count[r]) - Len(outbox[r])
      BY <1>0, <1>2, <2>4, GotOfBounds
    <2>7. SentBy(r, k, pc[r], count[r]) = Length(k, r) /\ Len(outbox[r]) = 0 /\ Length(k, r) \in Nat
      BY <1>2, <2>1, <2>5, WeightsGrow DEF SentBy
    <2> QED BY <2>3, <2>6, <2>7
  <1>8. CASE pc[0] = "end"
    <2>1. ~MayLeave(0)
      BY <1>8 DEF Waits
    <2>2. Past(0, 0)
      BY <1>8 DEF Past
    <2>3. PICK s \in Ranks : ~Past(s, 0)
      BY <2>1, <2>2 DEF MayLeave
    <2>4. s \in Workers /\ call[s] = k /\ pc[s] # "end"
      <3>1. s \in Workers
        BY <1>0, <2>2, <2>3
      <3> QED BY <1>1, <1>2, <1>3, <2>3, <3>1 DEF Past
    <2>5. pc[s] = "results" /\ outbox[s] # <<>>
      <3>1. Waits(s)
        BY <1>4, <2>4
      <3> QED BY <1>1, <1>8, <2>4, <3>1, WaitsWithRoot
    <2>6. GotOf(s, k) = Length(k, s)
      BY <1>0, <1>1, <1>2, <1>8, <2>4 DEF FlowsOK, Over
    <2>7. /\ GotOf(s, k) = SentBy(s, k, pc[s], count[s]) - Len(outbox[s])
          /\ SentBy(s, k, pc[s], count[s]) <= Length(k, s) /\ Length(k, s) \in Nat
          /\ SentBy(s, k, pc[s], count[s]) \in Nat /\ Len(outbox[s]) \in Nat
      BY <1>0, <1>2, <2>4, GotOfBounds, WeightsGrow
    <2>8. Len(outbox[s]) # 0
      <3>1. PICK M : outbox[s] \in Seq(M)
        BY <1>0, <2>4 DEF FlowsOK, OutOK
      <3> QED BY <2>5, <3>1
    <2> QED BY <2>6, <2>7, <2>8
  <1>9. pc[0] \in {"distribute", "gather", "results", "end"}
    BY <1>0 DEF ShapesOK, Labels
  <1> QED BY <1>5, <1>6, <1>7, <1>8, <1>9

LEMMA SomebodyGoesOn == ASSUME PlanOK, RootsKept, CallsOK PROVE NeverStuck
  <1>0. /\ ShapesOK /\ PlacesOK /\ 0 \in Ranks /\ Workers \subseteq Ranks /\ Ranks = Workers \cup {0}
    BY RanksAre DEF CallsOK
  <1> SUFFICES ASSUME ~AllDone, \A r \in Ranks : pc[r] = "done" \/ Waits(r)
               PROVE  FALSE
    BY DEF NeverStuck
  <1>1. CASE pc[0] # "done"
    BY <1>0, <1>1, RootGoesOn
  <1>2. CASE pc[0] = "done"
    <2>1. PICK r \in Ranks : pc[r] # "done"
      BY DEF AllDone
    <2>2. r \in Workers /\ Waits(r)
      BY <1>0, <1>2, <2>1
    <2>3. RankOK(0, call[0], pc[0], count[0], local[0]) /\ call[r] \in Nat /\ call[r] \in 1 .. Len(program) + 1
      BY <1>0, <2>2, InACall DEF RankOK
    <2>4. call[r] < call[0]
      <3>1. call[0] = Len(program) + 1 /\ Len(program) \in Nat
        BY <1>2, <2>3, PlanIs DEF RankOK
      <3>2. RankOK(r, call[r], pc[r], count[r], local[r])
        BY <1>0, <2>2, InACall
      <3>3. call[r] # Len(program) + 1
        BY <2>1, <3>2 DEF RankOK
      <3> QED BY <2>3, <3>1, <3>3
    <2> QED BY <2>2, <2>4, BehindGoesOn
  <1> QED BY <1>1, <1>2

(* In every state some rank has a step to take, or all are done, buffered  *)
(* sends or not: no two ranks of a call, nor of two calls, wait for each   *)
(* other.  This is so of programs that give an Info with problems again    *)
(* only when no worker was left without any (RootsKept).                   *)
THEOREM CallsNeverStick == Spec => [](ChunksFull /\ RootsKept => NeverStuck)
  <1>1. PlanOK /\ (ChunksFull => CallsOK) => (ChunksFull /\ RootsKept => NeverStuck)
    BY SomebodyGoesOn
  <1> QED BY <1>1, CallsInductive, PTL
=============================================================================
