------------------------ MODULE ChunkSelectorProofs ------------------------
(***************************************************************************)
(* Proofs about ChunkSelector, for any options, any preset of levels, any  *)
(* number of chunks and any speeds: which chunks wait for a test, that the *)
(* chunk with the best speed is never discarded, how even the tests are,   *)
(* and how many rounds there are.                                          *)
(***************************************************************************)
EXTENDS ChunkSelector, LibraryTheorems, SequenceTheorems

\* Where the selector stands, and what has been measured of each chunk.
Types ==
    /\ opt \in Options
    /\ pc \in {"call", "phase2", "test", "finish", "done", "failed"}
    /\ phase \in {1, 2} /\ (pc = "phase2" => phase = 2)
    /\ phase2I \in Nat /\ actualBlock \in Nat \cup {-1}
    /\ tolerance \in 0 .. 99
    /\ historyOfChunks \in SUBSET (Nat \ {0}) /\ IsFiniteSet(historyOfChunks)
    /\ selectedChunks \subseteq historyOfChunks
    /\ toCheckChunks \in Seq(Nat \ {0})
    /\ bestSpeedGlobal \in Nat \cup {-1}

\* The speeds of a chunk are kept in order.
InOrder(arr) == \A i, j \in 1 .. Len(arr) : i <= j => arr[i] <= arr[j]

\* What has been measured: nothing is faster than bestSpeedGlobal, which, when
\* the best speed is the score, an eligible chunk has.
Measured ==
    /\ \A c \in selectedChunks :
           /\ speedArr[c] \in Seq(Speeds) /\ InOrder(speedArr[c])
           /\ c \in Scored => BestSpeed(speedArr[c]) <= bestSpeedGlobal
    /\ BestSurvives

\* Every eligible chunk has been tested or, in phase 1, is going to be.
Running == pc \in {"call", "phase2", "test"}
Tested ==
    Running => \A c \in selectedChunks :
        \/ c \in Scored
        \/ /\ phase = 1
           /\ c \in ToSet(toCheckChunks) \/ (pc = "test" /\ c = checkNo)

SelectorInv == Types /\ Measured /\ Tested /\ QueueSound

-----------------------------------------------------------------------------
(* Numbers and queues.                                                     *)

\* A finite set of numbers has a smallest one, which is Min of it.
LEMMA Least ==
    ASSUME NEW S \in SUBSET Int, IsFiniteSet(S), S # {}
    PROVE  Min(S) \in S /\ \A y \in S : Min(S) <= y
<1>1. PICK a : a = Ascending(S)
  OBVIOUS
<1>2. PICK n \in Nat : n = Cardinality(S)
  BY FS_CardinalityType
<1>3. /\ a \in Seq(S) /\ Len(a) = n
      /\ \A c \in S : \E i \in 1 .. n : a[i] = c
      /\ \A i, j \in 1 .. n : i < j => a[i] < a[j]
  BY <1>1, <1>2, AscendingLists
<1>4. 1 \in 1 .. n
  <2>1. PICK c \in S : TRUE
    OBVIOUS
  <2>2. PICK i \in 1 .. n : a[i] = c
    BY <1>3, <2>1
  <2> QED
    BY <2>2
<1>5. a[1] \in S
  BY <1>3, <1>4
<1>6. ASSUME NEW y \in S
      PROVE  a[1] <= y
  <2>1. PICK i \in 1 .. n : a[i] = y
    BY <1>3
  <2>2. i = 1 \/ a[1] < a[i]
    BY <1>3, <1>4
  <2>3. a[1] \in Int /\ y \in Int
    BY <1>5
  <2> QED
    BY <2>1, <2>2, <2>3
<1>7. \E x \in S : \A y \in S : x =< y
  BY <1>5, <1>6
<1> QED
  BY <1>7 DEF Min

\* A queue of chunks: each at most once.
IsQueue(q, S) == q \in Seq(S) /\ IsInjective(q)

\* The members of a sequence.
LEMMA Members ==
    ASSUME NEW S, NEW q \in Seq(S)
    PROVE  /\ Len(q) \in Nat /\ DOMAIN q = 1 .. Len(q)
           /\ ToSet(q) = {q[i] : i \in 1 .. Len(q)} /\ ToSet(q) \subseteq S
BY DEF ToSet

\* A set in ascending order.
LEMMA AscendingQueue ==
    ASSUME NEW S \in SUBSET Int, IsFiniteSet(S)
    PROVE  /\ IsQueue(Ascending(S), S) /\ ToSet(Ascending(S)) = S
           /\ S # {} => Ascending(S) # <<>>
<1>1. PICK a : a = Ascending(S)
  OBVIOUS
<1>2. PICK n \in Nat : n = Cardinality(S)
  BY FS_CardinalityType
<1>3. /\ a \in Seq(S) /\ Len(a) = n
      /\ \A c \in S : \E i \in 1 .. n : a[i] = c
      /\ \A i, j \in 1 .. n : i # j => a[i] # a[j]
  BY <1>1, <1>2, AscendingLists
<1>4. DOMAIN a = 1 .. n /\ ToSet(a) = {a[i] : i \in 1 .. n} /\ ToSet(a) \subseteq S
  BY <1>3, Members
<1>5. IsInjective(a)
  BY <1>3, <1>4 DEF IsInjective
<1>6. ToSet(a) = S
  BY <1>3, <1>4
<1>7. S # {} => a # <<>>
  <2>1. ASSUME a = <<>>
        PROVE  S = {}
    BY <1>3, <2>1
  <2> QED
    BY <2>1
<1> QED
  BY <1>1, <1>3, <1>5, <1>6, <1>7 DEF IsQueue

\* From(w, S) is S, each member once, whatever the order starts with.
LEMMA FromQueue ==
    ASSUME NEW S \in SUBSET Int, IsFiniteSet(S), NEW w \in Int
    PROVE  /\ IsQueue(From(w, S), S) /\ ToSet(From(w, S)) = S
           /\ S # {} => From(w, S) # <<>>
<1> DEFINE A == {c \in S : c >= w}
           B == {c \in S : c < w}
<1>1. PICK a, b : a = Ascending(A) /\ b = Ascending(B)
  OBVIOUS
<1>2. /\ A \in SUBSET Int /\ B \in SUBSET Int /\ IsFiniteSet(A) /\ IsFiniteSet(B)
      /\ A \cap B = {} /\ A \cup B = S
  <2>1. A \in SUBSET S /\ B \in SUBSET S
    OBVIOUS
  <2>2. IsFiniteSet(A) /\ IsFiniteSet(B)
    BY <2>1, FS_Subset
  <2>3. \A c \in S : (c >= w) <=> ~(c < w)
    OBVIOUS
  <2> QED
    BY <2>1, <2>2, <2>3
<1> HIDE DEF A, B
<1>3. IsQueue(a, A) /\ ToSet(a) = A /\ IsQueue(b, B) /\ ToSet(b) = B
  BY <1>1, <1>2, AscendingQueue
<1>4. PICK q : q = a \o b
  OBVIOUS
<1>5. From(w, S) = q
  BY <1>1, <1>4 DEF From, A, B
<1>6. PICK m \in Nat, n \in Nat : m = Len(a) /\ n = Len(b)
  BY <1>3, Members DEF IsQueue
<1>7. a \in Seq(S) /\ b \in Seq(S)
  BY <1>2, <1>3 DEF IsQueue
<1>8. /\ q \in Seq(S) /\ Len(q) = m + n
      /\ \A i \in 1 .. (m + n) : q[i] = IF i <= m THEN a[i] ELSE b[i - m]
  BY <1>4, <1>6, <1>7
<1>9. /\ \A i \in 1 .. m : a[i] \in A
      /\ \A i \in 1 .. n : b[i] \in B
      /\ \A i, j \in 1 .. m : a[i] = a[j] => i = j
      /\ \A i, j \in 1 .. n : b[i] = b[j] => i = j
      /\ \A c \in A : \E i \in 1 .. m : a[i] = c
      /\ \A c \in B : \E i \in 1 .. n : b[i] = c
  <2>1. /\ \A i \in 1 .. m : a[i] \in A
        /\ \A i, j \in 1 .. m : a[i] = a[j] => i = j
        /\ \A c \in A : \E i \in 1 .. m : a[i] = c
    <3>1. a \in Seq(A) /\ IsInjective(a) /\ ToSet(a) = A
      BY <1>3 DEF IsQueue
    <3>2. DOMAIN a = 1 .. m /\ ToSet(a) = {a[i] : i \in 1 .. m}
      BY <1>6, <3>1, Members
    <3> QED
      BY <3>1, <3>2 DEF IsInjective
  <2>2. /\ \A i \in 1 .. n : b[i] \in B
        /\ \A i, j \in 1 .. n : b[i] = b[j] => i = j
        /\ \A c \in B : \E i \in 1 .. n : b[i] = c
    <3>1. b \in Seq(B) /\ IsInjective(b) /\ ToSet(b) = B
      BY <1>3 DEF IsQueue
    <3>2. DOMAIN b = 1 .. n /\ ToSet(b) = {b[i] : i \in 1 .. n}
      BY <1>6, <3>1, Members
    <3> QED
      BY <3>1, <3>2 DEF IsInjective
  <2> QED
    BY <2>1, <2>2
<1>10. ASSUME NEW i \in 1 .. (m + n), NEW j \in 1 .. (m + n), q[i] = q[j]
       PROVE  i = j
  <2>1. CASE i <= m /\ j <= m
    BY <1>8, <1>9, <1>10, <2>1
  <2>2. CASE i <= m /\ ~(j <= m)
    <3>1. i \in 1 .. m /\ j - m \in 1 .. n
      BY <2>2
    <3> QED
      BY <1>2, <1>8, <1>9, <1>10, <2>2, <3>1
  <2>3. CASE ~(i <= m) /\ j <= m
    <3>1. j \in 1 .. m /\ i - m \in 1 .. n
      BY <2>3
    <3> QED
      BY <1>2, <1>8, <1>9, <1>10, <2>3, <3>1
  <2>4. CASE ~(i <= m) /\ ~(j <= m)
    <3>1. j - m \in 1 .. n /\ i - m \in 1 .. n
      BY <2>4
    <3>2. b[i - m] = b[j - m]
      BY <1>8, <1>10, <2>4
    <3>3. i - m = j - m
      BY <1>9, <3>1, <3>2
    <3> QED
      BY <3>3
  <2> QED
    BY <2>1, <2>2, <2>3, <2>4
<1>11. DOMAIN q = 1 .. (m + n) /\ ToSet(q) = {q[i] : i \in 1 .. (m + n)} /\ ToSet(q) \subseteq S
  BY <1>8, Members
<1>12. IsInjective(q)
  BY <1>10, <1>11 DEF IsInjective
<1>13. ASSUME NEW c \in S
       PROVE  c \in ToSet(q)
  <2>1. CASE c \in A
    <3>1. PICK i \in 1 .. m : a[i] = c
      BY <1>9, <2>1
    <3>2. i \in 1 .. (m + n) /\ q[i] = c
      BY <1>8, <3>1
    <3> QED
      BY <1>11, <3>2
  <2>2. CASE c \in B
    <3>1. PICK i \in 1 .. n : b[i] = c
      BY <1>9, <2>2
    <3>2. m + i \in 1 .. (m + n) /\ ~(m + i <= m) /\ (m + i) - m = i
      OBVIOUS
    <3>3. q[m + i] = c
      BY <1>8, <3>1, <3>2
    <3> QED
      BY <1>11, <3>2, <3>3
  <2> QED
    BY <1>2, <2>1, <2>2
<1>14. ToSet(q) = S
  BY <1>11, <1>13
<1>15. S # {} => q # <<>>
  <2>1. ASSUME q = <<>>
        PROVE  ToSet(q) = {}
    BY <1>8, <1>11, <2>1
  <2> QED
    BY <1>14, <2>1
<1> QED
  BY <1>5, <1>8, <1>12, <1>14, <1>15 DEF IsQueue

\* The chunk that is returned leaves the queue.
LEMMA QueuePopped ==
    ASSUME NEW S, NEW q, IsQueue(q, S), q # <<>>
    PROVE  /\ Head(q) \in ToSet(q) /\ IsQueue(Tail(q), S)
           /\ ToSet(Tail(q)) = ToSet(q) \ {Head(q)}
<1>1. PICK n \in Nat : n = Len(q)
  BY DEF IsQueue
<1>2. /\ q \in Seq(S) /\ n > 0 /\ ToSet(q) = {q[i] : i \in 1 .. n}
      /\ \A i, j \in 1 .. n : q[i] = q[j] => i = j
  BY <1>1, Members DEF IsQueue, IsInjective
<1>3. PICK r : r = Tail(q)
  OBVIOUS
<1>4. /\ Head(q) = q[1] /\ r \in Seq(S) /\ Len(r) = n - 1
      /\ \A i \in 1 .. (n - 1) : r[i] = q[i + 1]
  BY <1>1, <1>2, <1>3, HeadTailProperties
<1>5. DOMAIN r = 1 .. (n - 1) /\ ToSet(r) = {r[i] : i \in 1 .. (n - 1)}
  BY <1>4, Members
<1>6. ASSUME NEW i \in 1 .. (n - 1), NEW j \in 1 .. (n - 1), r[i] = r[j]
      PROVE  i = j
  <2>1. i + 1 \in 1 .. n /\ j + 1 \in 1 .. n /\ q[i + 1] = q[j + 1]
    BY <1>1, <1>4, <1>6
  <2>2. i + 1 = j + 1
    BY <1>2, <2>1
  <2> QED
    BY <2>2
<1>7. IsInjective(r)
  BY <1>5, <1>6 DEF IsInjective
<1>8. Head(q) \in ToSet(q)
  BY <1>2, <1>4
<1>9. ASSUME NEW c \in ToSet(r)
      PROVE  c \in ToSet(q) \ {Head(q)}
  <2>1. PICK i \in 1 .. (n - 1) : r[i] = c
    BY <1>5
  <2>2. i + 1 \in 1 .. n /\ q[i + 1] = c /\ i + 1 # 1 /\ 1 \in 1 .. n
    BY <1>2, <1>4, <2>1
  <2> QED
    BY <1>2, <1>4, <2>2
<1>10. ASSUME NEW c \in ToSet(q) \ {Head(q)}
       PROVE  c \in ToSet(r)
  <2>1. PICK i \in 1 .. n : q[i] = c
    BY <1>2
  <2>2. i # 1
    BY <1>4, <1>10, <2>1
  <2>3. i - 1 \in 1 .. (n - 1) /\ (i - 1) + 1 = i
    BY <2>2
  <2>4. r[i - 1] = c
    BY <1>4, <2>1, <2>3
  <2> QED
    BY <1>5, <2>3, <2>4
<1> QED
  BY <1>3, <1>4, <1>7, <1>8, <1>9, <1>10 DEF IsQueue

-----------------------------------------------------------------------------
(* Which chunks are kept, and which are new.                               *)

\* The parameters.
LEMMA Parameters ==
    ASSUME Types
    PROVE  /\ opt.preset \in Seq(Nat \ {0}) /\ opt.rounds \in Nat /\ opt.calcMode \in 0 .. 2
           /\ opt.mode \in 0 .. 3 /\ opt.defaultChunk \in Nat
           /\ numToleranceLevels \in Nat
           /\ initTolerance \in Nat /\ finalTolerance \in Nat /\ initTolerance < 100
           /\ finalTolerance <= initTolerance /\ Speeds \subseteq Nat \ {0}
           /\ Speeds \in SUBSET Int /\ maxNumChunksTestAllowed \in Nat
<1>1. opt \in OptionType
  BY SelectorAssumption DEF Types
<1>2. /\ opt.preset \in Seq(Nat \ {0}) /\ opt.rounds \in Nat /\ opt.calcMode \in 0 .. 2
      /\ opt.mode \in 0 .. 3 /\ opt.defaultChunk \in Nat
  BY <1>1 DEF OptionType
<1>3. numToleranceLevels \in Nat
  BY <1>2 DEF numToleranceLevels
<1> QED
  BY <1>2, <1>3, SelectorAssumption

\* The tolerance of a level is between the two that are given.
LEMMA ToleranceOfLevel ==
    ASSUME Types, NEW level \in Nat, NEW maxLevel \in Nat
    PROVE  getLevelTolerance(level, maxLevel) \in 0 .. 99
<1>0. PICK a \in Nat, b \in Nat : a = initTolerance /\ b = finalTolerance /\ b <= a /\ a < 100
  BY Parameters
<1>1. CASE level >= maxLevel
  BY <1>0, <1>1 DEF getLevelTolerance
<1>2. CASE ~(level >= maxLevel)
  <2>1. PICK d \in Nat, r \in Nat, k \in Nat :
            d = a - b /\ r = maxLevel - (level + 1) /\ k = level + 1
    BY <1>0, <1>2
  <2>2. maxLevel > 0 /\ maxLevel = r + k
    BY <1>2, <2>1
  <2>3. d * maxLevel = d * r + d * k /\ a * maxLevel = b * maxLevel + d * maxLevel
    BY <1>0, <2>1, <2>2
  <2>4. b * maxLevel \in Nat /\ d * r \in Nat /\ d * k \in Nat
    BY <1>0, <2>1
  <2>5. PICK x \in Nat : x = a * maxLevel - d * k
    BY <2>3, <2>4
  <2>6. x <= a * maxLevel
    BY <1>0, <2>3, <2>4, <2>5
  <2>7. x \div maxLevel \in Nat /\ x \div maxLevel <= a
    BY <1>0, <2>2, <2>5, <2>6
  <2>8. getLevelTolerance(level, maxLevel) = x \div maxLevel
    BY <1>0, <1>2, <2>1, <2>5 DEF getLevelTolerance
  <2> QED
    BY <1>0, <2>7, <2>8
<1> QED
  BY <1>1, <1>2

\* The eligible chunks are finitely many positive numbers, and so are those
\* that a discard leaves.
LEMMA Eligible ==
    ASSUME Types, NEW S \in SUBSET selectedChunks
    PROVE  S \in SUBSET (Nat \ {0}) /\ S \in SUBSET Int /\ IsFiniteSet(S)
<1>1. S \in SUBSET historyOfChunks /\ historyOfChunks \in SUBSET (Nat \ {0})
      /\ IsFiniteSet(historyOfChunks)
  BY DEF Types
<1>2. IsFiniteSet(S)
  BY <1>1, FS_Subset
<1> QED
  BY <1>1, <1>2

\* Discarding never adds a chunk.
LEMMA KeptIsEligible ==
    ASSUME NEW tol
    PROVE  Kept(tol) \in SUBSET selectedChunks /\ discardWorstChunk \in SUBSET selectedChunks
BY DEF Kept, discardWorstChunk

\* The values of a function of a finite set.
LEMMA ValuesFinite ==
    ASSUME NEW S, IsFiniteSet(S), NEW f, DOMAIN f = S, f = [x \in S |-> f[x]]
    PROVE  IsFiniteSet({f[x] : x \in S})
<1> DEFINE V == {f[x] : x \in S}
<1>1. f \in Surjection(S, V)
  BY DEF Surjection
<1> HIDE DEF V
<1>2. IsFiniteSet(V)
  BY <1>1, FS_Surjection
<1> QED
  BY <1>2 DEF V

\* The new neighbors have not been explored.
LEMMA NeighborsAreNew ==
    ASSUME Types, NEW S \in SUBSET selectedChunks
    PROVE  /\ IsQueue(Neighbors(S), Nat \ {0}) /\ IsFiniteSet(ToSet(Neighbors(S)))
           /\ ToSet(Neighbors(S)) \cap historyOfChunks = {}
<1> DEFINE around == {c + 1 : c \in S} \cup {c - 1 : c \in S \ {1}}
           fresh == around \ historyOfChunks
           room == maxNumChunksTestAllowed - Cardinality(historyOfChunks)
<1>1. S \in SUBSET (Nat \ {0}) /\ IsFiniteSet(S)
  BY Eligible
<1>2. around \in SUBSET (Nat \ {0})
  BY <1>1
<1>3. IsFiniteSet(around)
  <2>1. IsFiniteSet({c + 1 : c \in S})
    <3>1. PICK f : f = [c \in S |-> c + 1]
      OBVIOUS
    <3>2. IsFiniteSet({f[c] : c \in S})
      BY <1>1, <3>1, ValuesFinite
    <3>3. {f[c] : c \in S} = {c + 1 : c \in S}
      BY <3>1
    <3> QED
      BY <3>2, <3>3
  <2>2. IsFiniteSet(S \ {1})
    BY <1>1, FS_Subset
  <2>3. IsFiniteSet({c - 1 : c \in S \ {1}})
    <3>1. PICK f, R : f = [c \in R |-> c - 1] /\ R = S \ {1}
      OBVIOUS
    <3>2. IsFiniteSet({f[c] : c \in R})
      BY <2>2, <3>1, ValuesFinite
    <3>3. {f[c] : c \in R} = {c - 1 : c \in S \ {1}}
      BY <3>1
    <3> QED
      BY <3>2, <3>3
  <2> QED
    BY <2>1, <2>3, FS_Union
<1> HIDE DEF around
<1>4. fresh \in SUBSET (Nat \ {0}) /\ fresh \in SUBSET Int /\ IsFiniteSet(fresh)
      /\ fresh \cap historyOfChunks = {}
  <2>1. fresh \in SUBSET around
    OBVIOUS
  <2>2. IsFiniteSet(fresh)
    BY <1>3, <2>1, FS_Subset
  <2>3. fresh \in SUBSET (Nat \ {0})
    BY <1>2, <2>1
  <2>4. fresh \in SUBSET Int
    BY <2>3
  <2> QED
    BY <2>2, <2>3, <2>4
<1>5. PICK a, f : a = Ascending(fresh) /\ f = fresh
  OBVIOUS
<1>6. IsQueue(a, f) /\ ToSet(a) = f
  BY <1>4, <1>5, AscendingQueue
<1>7. PICK n \in Nat : n = Len(a)
  BY <1>6 DEF IsQueue
<1>8. PICK k \in 0 .. n : Neighbors(S) = SubSeq(a, 1, k)
  <2>1. room \in Int
    <3>1. Cardinality(historyOfChunks) \in Nat
      BY FS_CardinalityType DEF Types
    <3> QED
      BY <3>1, Parameters
  <2>2. PICK r \in Int : r = room
    BY <2>1
  <2>3. PICK x : x = Max({r, 0})
    OBVIOUS
  <2>4. x \in Nat
    <3>1. \E y \in {r, 0} : \A z \in {r, 0} : y >= z
      <4>1. CASE r >= 0
        BY <2>2, <4>1
      <4>2. CASE ~(r >= 0)
        BY <2>2, <4>2
      <4> QED
        BY <4>1, <4>2
    <3>2. x \in {r, 0} /\ \A z \in {r, 0} : x >= z
      BY <2>3, <3>1 DEF Max
    <3> QED
      BY <2>2, <3>2
  <2>5. PICK k : k = Min({x, n})
    OBVIOUS
  <2>6. k \in 0 .. n
    <3>1. {x, n} \in SUBSET Int /\ IsFiniteSet({x, n}) /\ {x, n} # {}
      <4>1. IsFiniteSet({x, n})
        <5>1. IsFiniteSet({x}) /\ {x, n} = {x} \cup {n}
          BY FS_Singleton
        <5> QED
          BY <5>1, FS_AddElement
      <4> QED
        BY <2>4, <4>1
    <3>2. k \in {x, n} /\ \A y \in {x, n} : k <= y
      BY <2>5, <3>1, Least
    <3> QED
      BY <2>4, <3>2
  <2>7. Neighbors(S) = SubSeq(a, 1, k)
    BY <1>5, <1>7, <2>2, <2>3, <2>5 DEF Neighbors, around
  <2> QED
    BY <2>6, <2>7
<1>9. PICK q : q = SubSeq(a, 1, k)
  OBVIOUS
<1>10. a \in Seq(f) /\ IsInjective(a) /\ DOMAIN a = 1 .. n
  BY <1>6, <1>7, Members DEF IsQueue
<1>11. q \in Seq(f) /\ Len(q) = k /\ \A i \in 1 .. k : q[i] = a[i]
  <2>1. \A i \in 1 .. k : i \in 1 .. n /\ 1 + i - 1 = i
    OBVIOUS
  <2>2. k \in Int /\ k <= n /\ n = Len(a)
    BY <1>7
  <2>3. q \in Seq(f) /\ Len(q) = k
    BY <1>9, <1>10, <2>2
  <2>4. \A i \in 1 .. k : q[i] = a[i]
    BY <1>9, <1>10, <2>1, <2>2
  <2> QED
    BY <2>3, <2>4
<1>12. IsInjective(q)
  <2>1. DOMAIN q = 1 .. k
    BY <1>11, Members
  <2>2. \A i \in 1 .. k : i \in 1 .. n
    OBVIOUS
  <2> QED
    BY <1>10, <1>11, <2>1, <2>2 DEF IsInjective
<1>13. ToSet(q) \in SUBSET f
  BY <1>11, Members
<1>14. IsFiniteSet(ToSet(q))
  BY <1>4, <1>5, <1>13, FS_Subset
<1>15. q \in Seq(Nat \ {0})
  <2>1. f \in SUBSET (Nat \ {0})
    BY <1>4, <1>5
  <2> QED
    BY <1>11, <2>1, SeqMonotonic
<1> QED
  BY <1>4, <1>5, <1>8, <1>9, <1>12, <1>13, <1>14, <1>15 DEF IsQueue

-----------------------------------------------------------------------------
(* Speeds and scores.                                                      *)

\* A speed is put in its place, so the last one is the best.
LEMMA InsertedInOrder ==
    ASSUME NEW arr \in Seq(Speeds), InOrder(arr), NEW s \in Speeds, Speeds \in SUBSET Int
    PROVE  LET new == Inserted(s, arr) IN
           /\ new \in Seq(Speeds) /\ InOrder(new) /\ Len(new) = Len(arr) + 1
           /\ s <= BestSpeed(new)
           /\ Len(arr) > 0 => BestSpeed(arr) <= BestSpeed(new)
           /\ BestSpeed(new) = s \/ (Len(arr) > 0 /\ BestSpeed(new) = BestSpeed(arr))
<1>1. PICK n \in Nat : n = Len(arr) /\ DOMAIN arr = 1 .. n
  OBVIOUS
<1>2. \A i \in 1 .. n : arr[i] \in Speeds /\ arr[i] \in Int
  <2>1. \A i \in 1 .. n : arr[i] \in Speeds
    BY <1>1, ElementOfSeq
  <2> QED
    BY <2>1
<1>3. s \in Int
  OBVIOUS
<1> DEFINE D == {i \in DOMAIN arr : arr[i] > s} \cup {Len(arr) + 1}
<1>4. PICK k : k = Min(D)
  OBVIOUS
<1>5. /\ k \in 1 .. (n + 1)
      /\ \A i \in 1 .. n : i < k => arr[i] <= s
      /\ k <= n => arr[k] > s
  <2>1. D \in SUBSET (1 .. (n + 1)) /\ D # {} /\ n + 1 \in D
    BY <1>1
  <2>2. IsFiniteSet(1 .. (n + 1))
    BY <1>1, FS_Interval
  <2>3. IsFiniteSet(D) /\ D \in SUBSET Int
    <3>1. IsFiniteSet(D)
      BY <2>1, <2>2, FS_Subset
    <3>2. D \in SUBSET Int
      BY <2>1
    <3> QED
      BY <3>1, <3>2
  <2>4. \A i \in 1 .. n : i \in D <=> arr[i] > s
    BY <1>1
  <2> HIDE DEF D
  <2>5. k \in D /\ \A i \in D : k <= i
    BY <1>4, <2>1, <2>3, Least
  <2>6. k \in 1 .. (n + 1)
    BY <2>1, <2>5
  <2>7. ASSUME NEW i \in 1 .. n, i < k
        PROVE  arr[i] <= s
    <3>1. i \notin D
      BY <2>5, <2>6, <2>7
    <3> QED
      BY <1>2, <1>3, <2>4, <3>1
  <2>8. k <= n => arr[k] > s
    <3>1. k <= n => k \in 1 .. n
      BY <2>6
    <3> QED
      BY <2>4, <2>5, <3>1
  <2> QED
    BY <2>6, <2>7, <2>8
<1>6. PICK q : q = Inserted(s, arr)
  OBVIOUS
<1>7. PICK a, b : a = SubSeq(arr, 1, k - 1) /\ b = SubSeq(arr, k, n)
  OBVIOUS
<1>8. q = a \o <<s>> \o b
  BY <1>1, <1>4, <1>6, <1>7 DEF Inserted, InsertAt
<1>9. a \in Seq(Speeds) /\ Len(a) = k - 1 /\ \A i \in 1 .. (k - 1) : a[i] = arr[i]
  <2>1. k - 1 \in Int /\ k - 1 <= n /\ \A i \in 1 .. (k - 1) : 1 + i - 1 = i
    BY <1>5
  <2>2. a \in Seq(Speeds) /\ Len(a) = k - 1
    BY <1>1, <1>5, <1>7, <2>1
  <2>3. \A i \in 1 .. (k - 1) : a[i] = arr[i]
    BY <1>1, <1>7, <2>1
  <2> QED
    BY <2>2, <2>3
<1>10. b \in Seq(Speeds) /\ Len(b) = n - k + 1 /\ \A i \in 1 .. (n - k + 1) : b[i] = arr[k + i - 1]
  BY <1>1, <1>5, <1>7, SubSeqProperties
<1>11. /\ q \in Seq(Speeds) /\ Len(q) = n + 1
       /\ \A i \in 1 .. (n + 1) : q[i] = IF i < k THEN arr[i] ELSE IF i = k THEN s ELSE arr[i - 1]
  <2>1. PICK c : c = a \o <<s>>
    OBVIOUS
  <2>2. /\ c \in Seq(Speeds) /\ Len(c) = k
        /\ \A i \in 1 .. k : c[i] = IF i < k THEN arr[i] ELSE s
    <3>1. <<s>> \in Seq(Speeds) /\ Len(<<s>>) = 1 /\ <<s>>[1] = s
      OBVIOUS
    <3>2. c \in Seq(Speeds) /\ Len(c) = k
      BY <1>5, <1>9, <2>1, <3>1
    <3>3. ASSUME NEW i \in 1 .. k
          PROVE  c[i] = IF i < k THEN arr[i] ELSE s
      <4>1. CASE i < k
        <5>1. i \in 1 .. (k - 1)
          BY <1>5, <4>1
        <5> QED
          BY <1>9, <2>1, <4>1, <5>1
      <4>2. CASE i = k
        <5>1. ~(i <= k - 1) /\ i - (k - 1) = 1
          BY <1>5, <4>2
        <5> QED
          BY <1>5, <1>9, <2>1, <3>1, <4>2, <5>1
      <4> QED
        BY <1>5, <4>1, <4>2
    <3> QED
      BY <3>2, <3>3
  <2>3. q = c \o b
    BY <1>8, <2>1
  <2>4. q \in Seq(Speeds) /\ Len(q) = n + 1
    <3>1. q \in Seq(Speeds) /\ Len(q) = k + (n - k + 1)
      BY <1>10, <2>2, <2>3, ConcatProperties
    <3>2. k + (n - k + 1) = n + 1
      BY <1>5
    <3> QED
      BY <3>1, <3>2
  <2>5. ASSUME NEW i \in 1 .. (n + 1)
        PROVE  q[i] = IF i < k THEN arr[i] ELSE IF i = k THEN s ELSE arr[i - 1]
    <3>1. CASE i <= k
      <4>1. i \in 1 .. k /\ q[i] = c[i]
        BY <1>5, <1>10, <2>2, <2>3, <3>1
      <4> QED
        BY <1>5, <2>2, <3>1, <4>1
    <3>2. CASE ~(i <= k)
      <4>1. i - k \in 1 .. (n - k + 1) /\ k + (i - k) - 1 = i - 1 /\ ~(i < k) /\ i # k
        BY <1>5, <3>2
      <4>2. q[i] = b[i - k]
        BY <1>5, <1>10, <2>2, <2>3, <3>2, SMTT(30)
      <4> QED
        BY <1>10, <4>1, <4>2
    <3> QED
      BY <3>1, <3>2
  <2> QED
    BY <2>4, <2>5
<1>12. \A i, j \in 1 .. n : i <= j => arr[i] <= arr[j]
  BY <1>1 DEF InOrder
<1>13. \A i \in 1 .. n : i >= k => arr[i] > s
  <2> SUFFICES ASSUME NEW i \in 1 .. n, i >= k
               PROVE  arr[i] > s
    OBVIOUS
  <2>1. k \in 1 .. n /\ arr[k] > s /\ arr[k] <= arr[i]
    BY <1>5, <1>12
  <2> QED
    BY <1>2, <1>3, <2>1
<1>14. ASSUME NEW i \in 1 .. (n + 1), NEW j \in 1 .. (n + 1), i < j
       PROVE  q[i] <= q[j]
  <2>1. CASE j < k
    <3>1. i \in 1 .. n /\ j \in 1 .. n /\ q[i] = arr[i] /\ q[j] = arr[j]
      BY <1>5, <1>11, <1>14, <2>1
    <3> QED
      BY <1>12, <1>14, <3>1
  <2>2. CASE j = k
    <3>1. i \in 1 .. n /\ i < k /\ q[i] = arr[i] /\ q[j] = s
      BY <1>5, <1>11, <1>14, <2>2
    <3> QED
      BY <1>5, <3>1
  <2>3. CASE j > k /\ i < k
    <3>1. i \in 1 .. n /\ j - 1 \in 1 .. n /\ q[i] = arr[i] /\ q[j] = arr[j - 1] /\ i <= j - 1
      BY <1>5, <1>11, <1>14, <2>3
    <3> QED
      BY <1>12, <3>1
  <2>4. CASE j > k /\ i = k
    <3>1. j - 1 \in 1 .. n /\ q[i] = s /\ q[j] = arr[j - 1] /\ j - 1 >= k
      BY <1>5, <1>11, <1>14, <2>4
    <3> QED
      BY <1>2, <1>3, <1>13, <3>1
  <2>5. CASE j > k /\ i > k
    <3>1. /\ j - 1 \in 1 .. n /\ i - 1 \in 1 .. n /\ i - 1 <= j - 1
          /\ q[i] = arr[i - 1] /\ q[j] = arr[j - 1]
      BY <1>5, <1>11, <1>14, <2>5
    <3> QED
      BY <1>12, <3>1
  <2> QED
    BY <1>5, <2>1, <2>2, <2>3, <2>4, <2>5
<1>15. InOrder(q)
  <2>1. \A i \in 1 .. (n + 1) : q[i] \in Int
    <3>1. \A i \in 1 .. (n + 1) : q[i] \in Speeds
      BY <1>11, ElementOfSeq
    <3> QED
      BY <3>1
  <2> QED
    BY <1>11, <1>14, <2>1 DEF InOrder
<1>16. q[n + 1] = IF k = n + 1 THEN s ELSE arr[n]
  BY <1>5, <1>11
<1>17. BestSpeed(q) = q[n + 1] /\ BestSpeed(arr) = arr[n]
  BY <1>1, <1>11 DEF BestSpeed
<1>18. CASE k = n + 1
  <2>1. n > 0 => n \in 1 .. n /\ n < k
    BY <1>18
  <2>2. n > 0 => arr[n] <= s
    BY <1>5, <2>1
  <2>3. s <= s
    BY <1>3
  <2>4. q[n + 1] = s
    BY <1>16, <1>18
  <2> QED
    BY <1>1, <1>6, <1>11, <1>15, <1>17, <2>2, <2>3, <2>4
<1>19. CASE k # n + 1
  <2>1. n \in 1 .. n /\ n >= k /\ n > 0
    BY <1>5, <1>19
  <2>2. arr[n] > s /\ arr[n] \in Int
    BY <1>2, <1>13, <2>1
  <2>3. q[n + 1] = arr[n]
    BY <1>16, <1>19
  <2>4. s <= arr[n] /\ arr[n] <= arr[n]
    BY <1>3, <2>2
  <2> QED
    BY <1>1, <1>6, <1>11, <1>15, <1>17, <2>1, <2>3, <2>4
<1> QED
  BY <1>18, <1>19

\* With calcMode 2 the score of a chunk is its best speed.
LEMMA ScoreIsBest ==
    ASSUME Types, Measured, opt.calcMode = 2
    PROVE  /\ DOMAIN calculateScore = Scored
           /\ \A c \in Scored :
                  /\ calculateScore[c] = <<BestSpeed(speedArr[c]), 1>>
                  /\ BestSpeed(speedArr[c]) \in Nat \ {0}
                  /\ BestSpeed(speedArr[c]) <= bestSpeedGlobal
<1>1. \A c \in Scored : calculateScore[c] = <<BestSpeed(speedArr[c]), 1>>
  BY DEF calculateScore
<1>2. ASSUME NEW c \in Scored
      PROVE  /\ BestSpeed(speedArr[c]) \in Nat \ {0}
             /\ BestSpeed(speedArr[c]) <= bestSpeedGlobal
  <2>1. /\ c \in selectedChunks /\ speedArr[c] \in Seq(Speeds) /\ Len(speedArr[c]) > 0
        /\ BestSpeed(speedArr[c]) <= bestSpeedGlobal
    BY DEF Scored, ntests, Measured
  <2>2. Len(speedArr[c]) \in 1 .. Len(speedArr[c])
    BY <2>1
  <2>3. BestSpeed(speedArr[c]) \in Speeds
    BY <2>1, <2>2 DEF BestSpeed
  <2> QED
    BY <2>1, <2>3, Parameters
<1> QED
  BY <1>1, <1>2 DEF calculateScore

\* A discard with a tolerance leaves a chunk with the best speed.
LEMMA BestIsWithin ==
    ASSUME Types, Measured, NEW tol \in 0 .. 99, opt.calcMode = 2, bestSpeedGlobal > 0
    PROVE  \E c \in Kept(tol) : c \in Scored /\ BestSpeed(speedArr[c]) = bestSpeedGlobal
<1>1. PICK g \in Nat : g = bestSpeedGlobal /\ g > 0
  BY DEF Types
<1>2. PICK c \in Scored : BestSpeed(speedArr[c]) = g
  BY <1>1 DEF Measured, BestSurvives
<1>3. PICK score : score = calculateScore
  OBVIOUS
<1>4. /\ DOMAIN score = Scored
      /\ \A d \in Scored : \E x \in Nat \ {0} :
             score[d] = <<x, 1>> /\ x = BestSpeed(speedArr[d]) /\ x <= g
  BY <1>1, <1>3, ScoreIsBest
<1>5. score[c] = <<g, 1>>
  BY <1>2, <1>4
<1>6. PICK b : b = getBestScoredChunk(score)
  OBVIOUS
<1> DEFINE M == {x \in DOMAIN score : \A d \in DOMAIN score : ~Lower(score[x], score[d])}
<1>7. c \in M
  <2>1. ASSUME NEW d \in Scored
        PROVE  ~Lower(score[c], score[d])
    <3>1. PICK x \in Nat : score[d] = <<x, 1>> /\ x <= g
      BY <1>4
    <3> QED
      BY <1>5, <3>1 DEF Lower
  <2> QED
    BY <1>4, <2>1
<1>8. b \in Scored /\ ~Lower(score[b], score[c])
  <2>1. M \in SUBSET Scored
    BY <1>4
  <2>2. Scored \in SUBSET selectedChunks
    BY DEF Scored
  <2>3. M \in SUBSET Int /\ IsFiniteSet(M)
    BY <2>1, <2>2, Eligible
  <2>4. Min(M) \in M
    BY <1>7, <2>3, Least
  <2>5. b = Min(M)
    BY <1>6 DEF getBestScoredChunk
  <2> QED
    BY <1>2, <1>4, <2>4, <2>5
<1>9. score[b] = <<g, 1>>
  <2>1. PICK x \in Nat : score[b] = <<x, 1>> /\ x <= g
    BY <1>4, <1>8
  <2>2. ~(x < g)
    BY <1>5, <1>8, <2>1 DEF Lower
  <2>3. x = g
    BY <2>1, <2>2
  <2> QED
    BY <2>1, <2>3
<1>10. g * 1 * 100 >= g * 1 * (100 - tol)
  <2>1. PICK r \in Nat : r = 100 - tol /\ 100 = r + tol
    OBVIOUS
  <2>2. g * 100 = g * r + g * tol /\ g * r \in Nat /\ g * tol \in Nat
    BY <2>1
  <2> QED
    BY <2>1, <2>2
<1>11. score[c][1] * score[b][2] * 100 >= score[b][1] * score[c][2] * (100 - tol)
  BY <1>5, <1>9, <1>10
<1>12. c \in selectedChunks
  BY DEF Scored
<1>13. c \in Kept(tol)
  BY <1>3, <1>6, <1>11, <1>12 DEF Kept
<1> QED
  BY <1>1, <1>2, <1>13

\* When all are tested, the worst chunk is not the only one with the best speed.
LEMMA BestIsNotWorst ==
    ASSUME Types, Measured, opt.calcMode = 2, bestSpeedGlobal > 0, selectedChunks \subseteq Scored
    PROVE  \E c \in discardWorstChunk : c \in Scored /\ BestSpeed(speedArr[c]) = bestSpeedGlobal
<1>0. Scored = selectedChunks
  BY DEF Scored
<1>1. PICK g \in Nat : g = bestSpeedGlobal /\ g > 0
  BY DEF Types
<1>2. PICK c \in Scored : BestSpeed(speedArr[c]) = g
  BY <1>1 DEF Measured, BestSurvives
<1>3. CASE ~(Cardinality(selectedChunks) > 1)
  BY <1>0, <1>1, <1>2, <1>3 DEF discardWorstChunk
<1>4. CASE Cardinality(selectedChunks) > 1
  <2>1. PICK score : score = calculateScore
    OBVIOUS
  <2>2. /\ DOMAIN score = Scored
        /\ \A d \in Scored : \E x \in Nat \ {0} :
               score[d] = <<x, 1>> /\ x = BestSpeed(speedArr[d]) /\ x <= g
    BY <1>1, <2>1, ScoreIsBest
  <2>3. PICK w : w = getWorstScoredChunk(score)
    OBVIOUS
  <2>4. discardWorstChunk = Scored \ {w}
    BY <1>0, <1>4, <2>1, <2>3 DEF discardWorstChunk
  <2>5. CASE c # w
    BY <1>1, <1>2, <2>4, <2>5
  <2>6. CASE c = w
    <3> DEFINE M == {x \in DOMAIN score : \A d \in DOMAIN score : ~Lower(score[d], score[x])}
    <3>1. M # {}
      <4>1. PICK f : f = [d \in Scored |-> score[d][1]]
        OBVIOUS
      <4>2. PICK V : V = {f[d] : d \in Scored}
        OBVIOUS
      <4>3. \A d \in Scored : f[d] \in Nat /\ score[d] = <<f[d], 1>>
        BY <2>2, <4>1
      <4>4. IsFiniteSet(V)
        <5>1. IsFiniteSet(Scored)
          BY <1>0, Eligible
        <5> QED
          BY <4>1, <4>2, <5>1, ValuesFinite
      <4>5. V \in SUBSET Int /\ V # {}
        BY <1>2, <4>2, <4>3
      <4>6. Min(V) \in V /\ \A y \in V : Min(V) <= y
        BY <4>4, <4>5, Least
      <4>7. PICK x \in Scored : \A d \in Scored : f[x] <= f[d]
        BY <4>2, <4>6
      <4>8. \A d \in Scored : ~Lower(score[d], score[x])
        <5> SUFFICES ASSUME NEW d \in Scored
                     PROVE  ~Lower(score[d], score[x])
          OBVIOUS
        <5>1. PICK i \in Nat, j \in Nat : i = f[d] /\ j = f[x] /\ j <= i
          BY <4>3, <4>7
        <5>2. score[d] = <<i, 1>> /\ score[x] = <<j, 1>>
          BY <4>3, <5>1
        <5> QED
          BY <5>1, <5>2 DEF Lower
      <4> QED
        BY <2>2, <4>8
    <3>2. w \in M
      <4>1. M \in SUBSET selectedChunks
        BY <1>0, <2>2
      <4>2. M \in SUBSET Int /\ IsFiniteSet(M)
        BY <4>1, Eligible
      <4>3. Min(M) \in M
        BY <3>1, <4>2, Least
      <4> QED
        BY <2>3, <4>3 DEF getWorstScoredChunk
    <3>3. PICK d \in Scored : d # w
      <4>1. ASSUME Scored \subseteq {w}
            PROVE  FALSE
        <5>1. Scored = {w}
          BY <1>2, <4>1
        <5>2. Cardinality(selectedChunks) = 1
          BY <1>0, <5>1, FS_Singleton
        <5> QED
          BY <1>4, <5>2
      <4> QED
        BY <4>1
    <3>4. ~Lower(score[d], score[c])
      BY <2>2, <2>6, <3>2
    <3>5. PICK x \in Nat : score[d] = <<x, 1>> /\ x = BestSpeed(speedArr[d]) /\ x <= g
      BY <2>2
    <3>6. score[c] = <<g, 1>>
      BY <1>2, <2>2
    <3>7. ~(x < g)
      BY <3>4, <3>5, <3>6 DEF Lower
    <3>8. x = g
      BY <3>5, <3>7
    <3> QED
      BY <1>1, <2>4, <3>3, <3>5, <3>8
  <2> QED
    BY <2>5, <2>6
<1> QED
  BY <1>3, <1>4

-----------------------------------------------------------------------------
(* What the actions have in common.                                        *)

\* The head of a queue of eligible chunks is returned for a test.
LEMMA ReturnedSound ==
    ASSUME NEW q, IsQueue(q, Nat \ {0}), q # <<>>, Return(q), ToSet(q) \subseteq selectedChunks'
    PROVE  /\ toCheckChunks' \in Seq(Nat \ {0}) /\ QueueSound' /\ pc' = "test"
           /\ checkNo' \in ToSet(q) /\ ToSet(toCheckChunks') = ToSet(q) \ {checkNo'}
<1>1. toCheckChunks' = Tail(q) /\ checkNo' = Head(q) /\ pc' = "test"
  BY DEF Return
<1>2. /\ Head(q) \in ToSet(q) /\ IsQueue(Tail(q), Nat \ {0})
      /\ ToSet(Tail(q)) = ToSet(q) \ {Head(q)}
  BY QueuePopped
<1>3. /\ toCheckChunks' \in Seq(Nat \ {0}) /\ IsInjective(toCheckChunks')
      /\ checkNo' \in ToSet(q) /\ ToSet(toCheckChunks') = ToSet(q) \ {checkNo'}
  BY <1>1, <1>2 DEF IsQueue
<1> QED
  BY <1>1, <1>3 DEF QueueSound

\* Chunks are discarded, but not all with the best speed.
LEMMA DiscardSound ==
    ASSUME Types, Measured, NEW K \in SUBSET selectedChunks,
           speedArr' = Restricted(K), opt' = opt, bestSpeedGlobal' = bestSpeedGlobal,
           opt.calcMode = 2 /\ bestSpeedGlobal > 0 =>
               \E c \in K : c \in Scored /\ BestSpeed(speedArr[c]) = bestSpeedGlobal
    PROVE  Measured' /\ selectedChunks' = K /\ Scored' = Scored \cap K
<1>1. selectedChunks' = K /\ \A c \in K : speedArr'[c] = speedArr[c]
  BY DEF selectedChunks, Restricted
<1>2. Scored' = Scored \cap K
  BY <1>1 DEF Scored, ntests
<1>3. \A c \in K : BestSpeed(speedArr'[c]) = BestSpeed(speedArr[c])
  BY <1>1
<1>4. BestSurvives'
  <2> SUFFICES ASSUME opt.calcMode = 2, bestSpeedGlobal > 0
               PROVE  \E c \in Scored' : BestSpeed(speedArr'[c]) = bestSpeedGlobal
    BY DEF BestSurvives, BestSpeed
  <2>1. PICK c \in K : c \in Scored /\ BestSpeed(speedArr[c]) = bestSpeedGlobal
    OBVIOUS
  <2> QED
    BY <1>2, <1>3, <2>1
<1>5. ASSUME NEW c \in K
      PROVE  /\ speedArr'[c] \in Seq(Speeds) /\ InOrder(speedArr'[c])
             /\ c \in Scored' => BestSpeed(speedArr'[c]) <= bestSpeedGlobal
  <2>1. /\ speedArr[c] \in Seq(Speeds) /\ InOrder(speedArr[c])
        /\ c \in Scored => BestSpeed(speedArr[c]) <= bestSpeedGlobal
    BY DEF Measured
  <2> QED
    BY <1>1, <1>2, <2>1
<1>6. Measured'
  <2>1. \A c \in selectedChunks' :
            /\ speedArr'[c] \in Seq(Speeds) /\ InOrder(speedArr'[c])
            /\ c \in Scored' => BestSpeed(speedArr'[c]) <= bestSpeedGlobal'
    BY <1>1, <1>5
  <2> QED
    BY <1>4, <2>1 DEF Measured, InOrder, BestSpeed
<1> QED
  BY <1>1, <1>2, <1>6

\* Nothing is measured or discarded.
LEMMA NothingMeasured ==
    ASSUME Measured, opt' = opt, speedArr' = speedArr, bestSpeedGlobal' = bestSpeedGlobal
    PROVE  Measured' /\ selectedChunks' = selectedChunks /\ Scored' = Scored
BY DEF Measured, BestSurvives, selectedChunks, Scored, ntests, InOrder, BestSpeed

\* In phase 2 all eligible chunks have been tested.
LEMMA AllTested ==
    ASSUME Types, Tested, Running, phase = 2
    PROVE  selectedChunks = Scored
<1>1. \A c \in selectedChunks : c \in Scored
  BY DEF Tested
<1>2. Scored \subseteq selectedChunks
  BY DEF Scored
<1> QED
  BY <1>1, <1>2

-----------------------------------------------------------------------------
(* One action at a time.                                                   *)

\* The time is over: the selector finishes, in mode 3 without the worst chunk.
LEMMA CallTimeoutStays ==
    ASSUME SelectorInv, CallTimeout
    PROVE  SelectorInv'
<1>1. Types /\ Measured /\ Tested /\ QueueSound
  BY DEF SelectorInv
<1>2. /\ pc = "call" /\ pc' = "finish" /\ opt' = opt /\ historyOfChunks' = historyOfChunks
      /\ toCheckChunks' = toCheckChunks /\ phase' = phase /\ phase2I' = phase2I
      /\ actualBlock' = actualBlock /\ bestSpeedGlobal' = bestSpeedGlobal
      /\ tolerance' = finalTolerance \/ tolerance' = tolerance
      /\ \/ phase = 2 /\ speedArr' = Restricted(discardWorstChunk)
         \/ speedArr' = speedArr
  BY DEF CallTimeout
<1>3. Measured' /\ selectedChunks' \in SUBSET selectedChunks
  <2>1. CASE phase = 2 /\ speedArr' = Restricted(discardWorstChunk)
    <3>1. PICK K : K = discardWorstChunk
      OBVIOUS
    <3>2. K \in SUBSET selectedChunks
      BY <3>1, KeptIsEligible
    <3>3. selectedChunks \subseteq Scored
      BY <1>1, <1>2, <2>1, AllTested DEF Running
    <3>4. opt.calcMode = 2 /\ bestSpeedGlobal > 0 =>
              \E c \in K : c \in Scored /\ BestSpeed(speedArr[c]) = bestSpeedGlobal
      BY <1>1, <3>1, <3>3, BestIsNotWorst
    <3>5. speedArr' = Restricted(K)
      BY <2>1, <3>1
    <3>6. Measured' /\ selectedChunks' = K
      BY <1>1, <1>2, <3>2, <3>4, <3>5, DiscardSound
    <3> QED
      BY <3>2, <3>6
  <2>2. CASE speedArr' = speedArr
    BY <1>1, <1>2, <2>2, NothingMeasured
  <2> QED
    BY <1>2, <2>1, <2>2
<1>4. Types'
  <2>1. finalTolerance \in 0 .. 99
    <3>1. PICK a \in Nat, b \in Nat : a = initTolerance /\ b = finalTolerance /\ b <= a /\ a < 100
      BY <1>1, Parameters
    <3> QED
      BY <3>1
  <2> QED
    BY <1>1, <1>2, <1>3, <2>1 DEF Types
<1>5. Tested' /\ QueueSound'
  BY <1>1, <1>2 DEF Tested, Running, QueueSound
<1> QED
  BY <1>3, <1>4, <1>5 DEF SelectorInv

\* Phase 1 goes on with the next chunk of the queue.
LEMMA CallQueuedStays ==
    ASSUME SelectorInv, CallQueued
    PROVE  SelectorInv'
<1>1. Types /\ Measured /\ Tested /\ QueueSound
  BY DEF SelectorInv
<1>2. /\ pc = "call" /\ phase = 1 /\ toCheckChunks # <<>> /\ Return(toCheckChunks)
      /\ opt' = opt /\ speedArr' = speedArr /\ historyOfChunks' = historyOfChunks
      /\ tolerance' = tolerance /\ phase' = phase /\ phase2I' = phase2I
      /\ actualBlock' = actualBlock /\ bestSpeedGlobal' = bestSpeedGlobal
  BY DEF CallQueued
<1>3. Measured' /\ selectedChunks' = selectedChunks /\ Scored' = Scored
  BY <1>1, <1>2, NothingMeasured
<1>4. /\ toCheckChunks' \in Seq(Nat \ {0}) /\ QueueSound' /\ pc' = "test"
      /\ ToSet(toCheckChunks') = ToSet(toCheckChunks) \ {checkNo'}
  <2>1. IsQueue(toCheckChunks, Nat \ {0})
    BY <1>1 DEF Types, IsQueue, QueueSound
  <2>2. ToSet(toCheckChunks) \subseteq selectedChunks'
    BY <1>1, <1>2, <1>3 DEF QueueSound
  <2> QED
    BY <1>2, <2>1, <2>2, ReturnedSound
<1>5. Types'
  BY <1>1, <1>2, <1>3, <1>4 DEF Types
<1>6. Tested'
  <2>1. \A c \in selectedChunks : c \in Scored \/ c \in ToSet(toCheckChunks)
    BY <1>1, <1>2 DEF Tested, Running
  <2> QED
    BY <1>2, <1>3, <1>4, <2>1 DEF Tested
<1> QED
  BY <1>3, <1>4, <1>5, <1>6 DEF SelectorInv

\* Phase 1 discards chunks and adds neighbors of the others.
LEMMA CallExploreStays ==
    ASSUME SelectorInv, CallExplore
    PROVE  SelectorInv'
<1>1. Types /\ Measured /\ Tested /\ QueueSound
  BY DEF SelectorInv
<1>2. PICK kept, new : kept = Kept(tolerance) /\ new = Neighbors(kept)
  OBVIOUS
<1>3. /\ pc = "call" /\ phase = 1 /\ toCheckChunks = <<>>
      /\ speedArr' = [c \in kept \cup ToSet(new) |-> IF c \in kept THEN speedArr[c] ELSE <<>>]
      /\ historyOfChunks' = historyOfChunks \cup ToSet(new)
      /\ \/ new # <<>> /\ Return(new) /\ phase' = phase
         \/ new = <<>> /\ phase' = 2 /\ pc' = "phase2" /\ toCheckChunks' = toCheckChunks
      /\ opt' = opt /\ tolerance' = tolerance /\ phase2I' = phase2I
      /\ actualBlock' = actualBlock /\ bestSpeedGlobal' = bestSpeedGlobal
  BY <1>2 DEF CallExplore
<1>4. kept \in SUBSET selectedChunks /\ tolerance \in 0 .. 99
  BY <1>1, <1>2, KeptIsEligible DEF Types
<1>5. /\ IsQueue(new, Nat \ {0}) /\ IsFiniteSet(ToSet(new))
      /\ ToSet(new) \cap historyOfChunks = {} /\ ToSet(new) \in SUBSET (Nat \ {0})
  <2>1. /\ IsQueue(new, Nat \ {0}) /\ IsFiniteSet(ToSet(new))
        /\ ToSet(new) \cap historyOfChunks = {}
    BY <1>1, <1>2, <1>4, NeighborsAreNew
  <2> QED
    BY <2>1, Members DEF IsQueue
<1>6. /\ selectedChunks' = kept \cup ToSet(new)
      /\ \A c \in kept : speedArr'[c] = speedArr[c]
      /\ \A c \in ToSet(new) : c \notin kept /\ speedArr'[c] = <<>>
  <2>1. \A c \in ToSet(new) : c \notin kept
    BY <1>1, <1>4, <1>5 DEF Types
  <2> QED
    BY <1>3, <2>1 DEF selectedChunks
<1>7. selectedChunks = Scored
  <2>1. ToSet(toCheckChunks) = {}
    BY <1>3 DEF ToSet
  <2> QED
    BY <1>1, <1>3, <2>1 DEF Tested, Running, Scored
<1>8. Scored' = kept
  <2>1. \A c \in kept : Len(speedArr'[c]) > 0
    BY <1>4, <1>6, <1>7 DEF Scored, ntests
  <2>2. \A c \in ToSet(new) : ~(Len(speedArr'[c]) > 0)
    BY <1>6
  <2> QED
    BY <1>6, <2>1, <2>2 DEF Scored, ntests
<1>9. Measured'
  <2>1. ASSUME NEW c \in selectedChunks'
        PROVE  /\ speedArr'[c] \in Seq(Speeds) /\ InOrder(speedArr'[c])
               /\ c \in Scored' => BestSpeed(speedArr'[c]) <= bestSpeedGlobal
    <3>1. CASE c \in kept
      BY <1>1, <1>4, <1>6, <1>7, <3>1 DEF Measured
    <3>2. CASE c \in ToSet(new)
      <4>1. speedArr'[c] = <<>> /\ c \notin Scored'
        BY <1>6, <1>8, <3>2
      <4>2. <<>> \in Seq(Speeds) /\ InOrder(<<>>)
        BY DEF InOrder
      <4> QED
        BY <4>1, <4>2
    <3> QED
      BY <1>6, <3>1, <3>2
  <2>2. ASSUME opt.calcMode = 2, bestSpeedGlobal > 0
        PROVE  \E c \in Scored' : BestSpeed(speedArr'[c]) = bestSpeedGlobal
    <3>1. PICK c \in kept : BestSpeed(speedArr[c]) = bestSpeedGlobal
      BY <1>1, <1>2, <1>4, <2>2, BestIsWithin
    <3> QED
      BY <1>6, <1>8, <3>1
  <2>3. BestSurvives'
    BY <1>3, <2>2 DEF BestSurvives, BestSpeed
  <2> QED
    BY <1>3, <2>1, <2>3 DEF Measured, InOrder, BestSpeed
<1>10. CASE new # <<>> /\ Return(new) /\ phase' = phase
  <2>1. /\ toCheckChunks' \in Seq(Nat \ {0}) /\ QueueSound' /\ pc' = "test"
        /\ ToSet(toCheckChunks') = ToSet(new) \ {checkNo'}
    BY <1>5, <1>6, <1>10, ReturnedSound
  <2>2. Types'
    <3>1. historyOfChunks' \in SUBSET (Nat \ {0}) /\ IsFiniteSet(historyOfChunks')
          /\ selectedChunks' \subseteq historyOfChunks'
      BY <1>1, <1>3, <1>4, <1>5, <1>6, FS_Union DEF Types
    <3> QED
      BY <1>1, <1>3, <1>10, <2>1, <3>1 DEF Types
  <2>3. Tested'
    BY <1>3, <1>6, <1>8, <1>10, <2>1 DEF Tested
  <2> QED
    BY <1>9, <2>1, <2>2, <2>3 DEF SelectorInv
<1>11. CASE new = <<>> /\ phase' = 2 /\ pc' = "phase2" /\ toCheckChunks' = toCheckChunks
  <2>1. ToSet(new) = {} /\ ToSet(toCheckChunks') = {}
    BY <1>3, <1>11 DEF ToSet
  <2>2. Types'
    <3>1. historyOfChunks' = historyOfChunks /\ selectedChunks' \subseteq historyOfChunks'
      BY <1>1, <1>3, <1>4, <1>6, <2>1 DEF Types
    <3> QED
      BY <1>1, <1>3, <1>11, <3>1 DEF Types
  <2>3. Tested'
    BY <1>6, <1>8, <2>1 DEF Tested
  <2>4. QueueSound'
    BY <1>1, <1>11, <2>1 DEF QueueSound
  <2> QED
    BY <1>9, <2>2, <2>3, <2>4 DEF SelectorInv
<1> QED
  BY <1>3, <1>10, <1>11

\* A call in phase 2, which finds a chunk in the queue.
LEMMA Phase2QueuedStays ==
    ASSUME SelectorInv, CallPhase2 \/ Phase2Queued
    PROVE  SelectorInv'
<1>1. Types /\ Measured /\ Tested /\ QueueSound
  BY DEF SelectorInv
<1>2. /\ opt' = opt /\ speedArr' = speedArr /\ historyOfChunks' = historyOfChunks
      /\ tolerance' = tolerance /\ phase' = phase /\ phase2I' = phase2I
      /\ actualBlock' = actualBlock /\ bestSpeedGlobal' = bestSpeedGlobal
      /\ pc \in {"call", "phase2"} /\ phase = 2
  BY <1>1 DEF CallPhase2, Phase2Queued, Types
<1>3. Measured' /\ selectedChunks' = selectedChunks /\ Scored' = Scored
  BY <1>1, <1>2, NothingMeasured
<1>4. Tested'
  BY <1>1, <1>2, <1>3, AllTested DEF Tested, Running
<1>5. CASE CallPhase2
  <2>1. pc' = "phase2" /\ toCheckChunks' = toCheckChunks
    BY <1>5 DEF CallPhase2
  <2>2. Types' /\ QueueSound'
    BY <1>1, <1>2, <1>3, <2>1 DEF Types, QueueSound
  <2> QED
    BY <1>3, <1>4, <2>2 DEF SelectorInv
<1>6. CASE Phase2Queued
  <2>1. toCheckChunks # <<>> /\ Return(toCheckChunks) /\ pc = "phase2"
    BY <1>6 DEF Phase2Queued
  <2>2. IsQueue(toCheckChunks, Nat \ {0}) /\ ToSet(toCheckChunks) \subseteq selectedChunks'
    BY <1>1, <1>3, <2>1 DEF Types, IsQueue, QueueSound
  <2>3. toCheckChunks' \in Seq(Nat \ {0}) /\ QueueSound' /\ pc' = "test"
    BY <2>1, <2>2, ReturnedSound
  <2>4. Types'
    BY <1>1, <1>2, <1>3, <2>3 DEF Types
  <2> QED
    BY <1>3, <1>4, <2>3, <2>4 DEF SelectorInv
<1> QED
  BY <1>5, <1>6

\* A late level is abandoned: those who are left wait for the next one.
LEMMA SkipLevelStays ==
    ASSUME SelectorInv, SkipLevel
    PROVE  SelectorInv'
<1>1. Types /\ Measured /\ Tested /\ QueueSound
  BY DEF SelectorInv
<1>2. PICK K, w, m, q : /\ K = Kept(tolerance) /\ m = numToleranceLevels
                        /\ w = (IF toCheckChunks = <<>> THEN -1 ELSE Head(toCheckChunks))
                        /\ q = From(w, K)
  OBVIOUS
<1>3. /\ pc = "phase2" /\ pc' = pc /\ opt' = opt /\ historyOfChunks' = historyOfChunks
      /\ phase' = phase /\ bestSpeedGlobal' = bestSpeedGlobal
      /\ speedArr' = Restricted(K)
      /\ toCheckChunks' = q \/ toCheckChunks' = <<>>
      /\ actualBlock' = actualBlock + 1 /\ phase2I' = actualBlock + 1
      /\ tolerance' = getLevelTolerance(actualBlock + 1, m)
      /\ actualBlock \in 0 .. m - 2
  BY <1>2 DEF SkipLevel, Resume, LevelIsLate
<1>4. phase = 2 /\ tolerance \in 0 .. 99 /\ m \in Nat
  BY <1>1, <1>2, <1>3, Parameters DEF Types
<1>5. /\ K \in SUBSET selectedChunks /\ K \in SUBSET (Nat \ {0}) /\ K \in SUBSET Int
      /\ IsFiniteSet(K)
  <2>1. K \in SUBSET selectedChunks
    BY <1>2, KeptIsEligible
  <2> QED
    BY <1>1, <2>1, Eligible
<1>6. Measured' /\ selectedChunks' = K /\ Scored' = Scored \cap K
  <2>1. opt.calcMode = 2 /\ bestSpeedGlobal > 0 =>
            \E c \in K : c \in Scored /\ BestSpeed(speedArr[c]) = bestSpeedGlobal
    BY <1>1, <1>2, <1>4, BestIsWithin
  <2> QED
    BY <1>1, <1>3, <1>5, <2>1, DiscardSound
<1>7. /\ toCheckChunks' \in Seq(Nat \ {0}) /\ IsInjective(toCheckChunks')
      /\ ToSet(toCheckChunks') \subseteq K
  <2>1. CASE toCheckChunks' = q
    <3>1. w \in Int
      <4>1. CASE toCheckChunks = <<>>
        BY <1>2, <4>1
      <4>2. CASE toCheckChunks # <<>>
        <5>1. Head(toCheckChunks) \in Nat \ {0}
          BY <1>1, <4>2 DEF Types
        <5> QED
          BY <1>2, <4>2, <5>1
      <4> QED
        BY <4>1, <4>2
    <3>2. q \in Seq(K) /\ IsInjective(q) /\ ToSet(q) = K
      BY <1>2, <1>5, <3>1, FromQueue DEF IsQueue
    <3>3. q \in Seq(Nat \ {0})
      BY <1>5, <3>2, SeqMonotonic
    <3> QED
      BY <2>1, <3>2, <3>3
  <2>2. CASE toCheckChunks' = <<>>
    BY <2>2 DEF IsInjective, ToSet
  <2> QED
    BY <1>3, <2>1, <2>2
<1>8. Types'
  <2>1. PICK l \in Nat : l = actualBlock + 1
    BY <1>3, <1>4
  <2>2. tolerance' \in 0 .. 99
    BY <1>1, <1>3, <1>4, <2>1, ToleranceOfLevel
  <2> QED
    BY <1>1, <1>3, <1>5, <1>6, <1>7, <2>1, <2>2 DEF Types
<1>9. Tested'
  <2>1. selectedChunks = Scored
    BY <1>1, <1>3, <1>4, AllTested DEF Running
  <2> QED
    BY <1>5, <1>6, <2>1 DEF Tested
<1>10. QueueSound'
  BY <1>3, <1>6, <1>7 DEF QueueSound
<1> QED
  BY <1>6, <1>8, <1>9, <1>10 DEF SelectorInv

\* A round begins with any queue of the chunks that are left.
LEMMA RoundBegins ==
    ASSUME SelectorInv, pc = "phase2", NEW K \in SUBSET selectedChunks,
           NEW q, IsQueue(q, K), ToSet(q) = K, q # <<>>, Return(q),
           speedArr' = Restricted(K), opt' = opt, bestSpeedGlobal' = bestSpeedGlobal,
           opt.calcMode = 2 /\ bestSpeedGlobal > 0 =>
               \E c \in K : c \in Scored /\ BestSpeed(speedArr[c]) = bestSpeedGlobal
    PROVE  /\ Measured' /\ Tested' /\ QueueSound' /\ pc' = "test"
           /\ selectedChunks' = K /\ toCheckChunks' \in Seq(Nat \ {0})
<1>1. Types /\ Measured /\ Tested /\ QueueSound
  BY DEF SelectorInv
<1>2. phase = 2
  BY <1>1 DEF Types
<1>3. Measured' /\ selectedChunks' = K /\ Scored' = Scored \cap K
  BY <1>1, DiscardSound
<1>4. selectedChunks = Scored
  BY <1>1, <1>2, AllTested DEF Running
<1>5. IsQueue(q, Nat \ {0})
  <2>1. K \in SUBSET (Nat \ {0})
    BY <1>1, Eligible
  <2> QED
    BY <2>1, SeqMonotonic DEF IsQueue
<1>6. toCheckChunks' \in Seq(Nat \ {0}) /\ QueueSound' /\ pc' = "test"
  BY <1>3, <1>5, ReturnedSound
<1>7. Tested'
  BY <1>3, <1>4 DEF Tested
<1> QED
  BY <1>3, <1>6, <1>7

\* FewestFirst starts with the first of the chunks with the fewest tests.
LEMMA FewestFirstIs ==
    ASSUME Types, Measured, NEW K \in SUBSET selectedChunks, K # {}
    PROVE  \E w \in K : /\ FewestFirst(K) = From(w, K)
                        /\ \A c \in K : ntests(w) <= ntests(c)
                        /\ \A c \in K : ntests(c) = ntests(w) => w <= c
<1>1. K \in SUBSET Int /\ IsFiniteSet(K)
  BY Eligible
<1>2. PICK f : f = [c \in K |-> ntests(c)]
  OBVIOUS
<1>3. PICK V : V = {f[c] : c \in K}
  OBVIOUS
<1>4. \A c \in K : f[c] \in Nat /\ f[c] = ntests(c)
  BY <1>2 DEF ntests, Measured
<1>5. V \in SUBSET Int /\ V # {} /\ IsFiniteSet(V)
  <2>1. V \in SUBSET Int /\ V # {}
    BY <1>3, <1>4
  <2>2. DOMAIN f = K /\ f = [c \in K |-> f[c]]
    BY <1>2
  <2>3. IsFiniteSet({f[c] : c \in K})
    BY <1>1, <2>2, ValuesFinite
  <2> QED
    BY <1>3, <2>1, <2>3
<1>6. Min(V) \in V /\ \A y \in V : Min(V) <= y
  BY <1>5, Least
<1>7. PICK W, w : W = {c \in K : ntests(c) = Min(V)} /\ w = Min(W)
  OBVIOUS
<1>8. w \in W /\ \A y \in W : w <= y
  <2>1. W \in SUBSET K /\ W # {}
    BY <1>3, <1>4, <1>6, <1>7
  <2>2. IsFiniteSet(W)
    BY <1>1, <2>1, FS_Subset
  <2> QED
    BY <1>1, <1>7, <2>1, <2>2, Least
<1>9. FewestFirst(K) = From(w, K)
  <2>1. V = {ntests(c) : c \in K}
    BY <1>3, <1>4
  <2> QED
    BY <1>7, <2>1 DEF FewestFirst
<1>10. w \in K /\ ntests(w) = Min(V)
  BY <1>7, <1>8
<1>11. \A c \in K : ntests(c) \in V
  BY <1>3, <1>4
<1>12. \A c \in K : ntests(w) <= ntests(c)
  BY <1>6, <1>10, <1>11
<1>13. \A c \in K : ntests(c) = ntests(w) => w <= c
  BY <1>7, <1>8, <1>10
<1> QED
  BY <1>9, <1>10, <1>12, <1>13

\* All those chunks are in the queue it makes.
LEMMA FewestFirstQueue ==
    ASSUME Types, Measured, NEW K \in SUBSET selectedChunks, K # {}
    PROVE  /\ IsQueue(FewestFirst(K), K) /\ ToSet(FewestFirst(K)) = K
           /\ FewestFirst(K) # <<>>
<1>1. K \in SUBSET Int /\ IsFiniteSet(K)
  BY Eligible
<1>2. PICK w \in K : FewestFirst(K) = From(w, K)
  BY FewestFirstIs
<1>3. w \in Int
  BY <1>1
<1> QED
  BY <1>1, <1>2, <1>3, FromQueue

\* A set with more than one member has one.
LEMMA SeveralIsSome ==
    ASSUME NEW S, Cardinality(S) > 1
    PROVE  S # {}
<1>1. ASSUME S = {}
      PROVE  FALSE
  BY <1>1, FS_EmptySet
<1> QED
  BY <1>1

\* A round is over in mode 0.
LEMMA Phase2RoundStays ==
    ASSUME SelectorInv, Phase2Round
    PROVE  SelectorInv'
<1>1. Types /\ Measured /\ Tested /\ QueueSound
  BY DEF SelectorInv
<1>2. PICK K, q, m : K = Kept(tolerance) /\ q = FewestFirst(K) /\ m = numToleranceLevels
  OBVIOUS
<1>3. /\ pc = "phase2" /\ opt' = opt /\ historyOfChunks' = historyOfChunks
      /\ phase' = phase /\ bestSpeedGlobal' = bestSpeedGlobal
      /\ toCheckChunks = <<>>
      /\ speedArr' = Restricted(K)
      /\ \/ /\ Cardinality(K) > 1 /\ phase2I < m
            /\ tolerance' = getLevelTolerance(phase2I, m)
            /\ Return(q) /\ actualBlock' = phase2I
            /\ phase2I' = phase2I \/ phase2I' = phase2I + 1
         \/ /\ pc' = "finish" /\ tolerance' = tolerance /\ toCheckChunks' = toCheckChunks
            /\ actualBlock' = actualBlock /\ phase2I' = phase2I
  BY <1>2 DEF Phase2Round, Advance
<1>4. phase = 2 /\ tolerance \in 0 .. 99 /\ phase2I \in Nat /\ m \in Nat
  BY <1>1, <1>2, <1>3, Parameters DEF Types
<1>5. K \in SUBSET selectedChunks
  BY <1>2, KeptIsEligible
<1>6. opt.calcMode = 2 /\ bestSpeedGlobal > 0 =>
          \E c \in K : c \in Scored /\ BestSpeed(speedArr[c]) = bestSpeedGlobal
  BY <1>1, <1>2, <1>4, BestIsWithin
<1>7. selectedChunks' \subseteq historyOfChunks'
  BY <1>1, <1>3, <1>5 DEF Types, selectedChunks, Restricted
<1>8. ASSUME Cardinality(K) > 1, phase2I < m,
             tolerance' = getLevelTolerance(phase2I, m),
             Return(q), actualBlock' = phase2I,
             phase2I' = phase2I \/ phase2I' = phase2I + 1
      PROVE  SelectorInv'
  <2>1. IsQueue(q, K) /\ ToSet(q) = K /\ q # <<>>
    BY <1>1, <1>2, <1>5, <1>8, SeveralIsSome, FewestFirstQueue
  <2>2. /\ Measured' /\ Tested' /\ QueueSound' /\ pc' = "test"
        /\ toCheckChunks' \in Seq(Nat \ {0})
    BY <1>3, <1>5, <1>6, <1>8, <2>1, RoundBegins
  <2>3. tolerance' \in 0 .. 99
    BY <1>1, <1>4, <1>8, ToleranceOfLevel
  <2>4. phase2I' \in Nat
    BY <1>4, <1>8
  <2>5. Types'
    BY <1>1, <1>3, <1>4, <1>7, <1>8, <2>2, <2>3, <2>4 DEF Types
  <2> QED
    BY <2>2, <2>5 DEF SelectorInv
<1>9. ASSUME pc' = "finish", tolerance' = tolerance, toCheckChunks' = toCheckChunks,
             actualBlock' = actualBlock, phase2I' = phase2I
      PROVE  SelectorInv'
  <2>1. Measured'
    BY <1>1, <1>3, <1>5, <1>6, DiscardSound
  <2>2. Types'
    BY <1>1, <1>3, <1>7, <1>9 DEF Types
  <2>3. Tested' /\ QueueSound'
    BY <1>1, <1>9 DEF Tested, Running, QueueSound
  <2> QED
    BY <2>1, <2>2, <2>3 DEF SelectorInv
<1> QED
  BY <1>3, <1>8, <1>9

\* A round is over in the other modes.
LEMMA FixedRoundStays ==
    ASSUME SelectorInv, FixedRound
    PROVE  SelectorInv'
<1>1. Types /\ Measured /\ Tested /\ QueueSound
  BY DEF SelectorInv
<1>2. PICK K, q, m : K = Left /\ q = Ascending(K) /\ m = opt.rounds
  OBVIOUS
<1>3. /\ pc = "phase2" /\ opt' = opt /\ historyOfChunks' = historyOfChunks
      /\ phase' = phase /\ bestSpeedGlobal' = bestSpeedGlobal /\ actualBlock' = actualBlock
      /\ opt.mode # 0 /\ speedArr' = Restricted(K)
      /\ tolerance' = getLevelTolerance(phase2I, m) \/ tolerance' = tolerance
      /\ \/ Cardinality(K) > 1 /\ Return(q) /\ phase2I' = phase2I + 1
         \/ pc' = "finish" /\ toCheckChunks' = toCheckChunks /\ phase2I' = phase2I
  BY <1>2 DEF FixedRound
<1>4. phase = 2 /\ tolerance \in 0 .. 99 /\ phase2I \in Nat /\ m \in Nat /\ opt.mode \in 1 .. 3
  BY <1>1, <1>2, <1>3, Parameters DEF Types
<1>5. K = Kept(tolerance) \/ K = selectedChunks \/ K = discardWorstChunk
  BY <1>2, <1>4 DEF Left
<1>6. K \in SUBSET selectedChunks
  BY <1>5, KeptIsEligible
<1>7. selectedChunks = Scored
  BY <1>1, <1>3, <1>4, AllTested DEF Running
<1>8. ASSUME opt.calcMode = 2, bestSpeedGlobal > 0
      PROVE  \E c \in K : c \in Scored /\ BestSpeed(speedArr[c]) = bestSpeedGlobal
  <2>1. CASE K = Kept(tolerance)
    BY <1>1, <1>4, <1>8, <2>1, BestIsWithin
  <2>2. CASE K = selectedChunks
    BY <1>1, <1>7, <1>8, <2>2 DEF Measured, BestSurvives
  <2>3. CASE K = discardWorstChunk
    BY <1>1, <1>7, <1>8, <2>3, BestIsNotWorst
  <2> QED
    BY <1>5, <2>1, <2>2, <2>3
<1>9. tolerance' \in 0 .. 99
  BY <1>1, <1>3, <1>4, ToleranceOfLevel
<1>10. selectedChunks' \subseteq historyOfChunks'
  BY <1>1, <1>3, <1>6 DEF Types, selectedChunks, Restricted
<1>11. ASSUME Cardinality(K) > 1, Return(q), phase2I' = phase2I + 1
       PROVE  SelectorInv'
  <2>1. IsQueue(q, K) /\ ToSet(q) = K /\ q # <<>>
    <3>1. K \in SUBSET Int /\ IsFiniteSet(K) /\ K # {}
      BY <1>1, <1>6, <1>11, Eligible, SeveralIsSome
    <3> QED
      BY <1>2, <3>1, AscendingQueue
  <2>2. /\ Measured' /\ Tested' /\ QueueSound' /\ pc' = "test"
        /\ toCheckChunks' \in Seq(Nat \ {0})
    BY <1>3, <1>6, <1>8, <1>11, <2>1, RoundBegins
  <2>3. phase2I' \in Nat
    BY <1>4, <1>11
  <2>4. Types'
    BY <1>1, <1>3, <1>4, <1>9, <1>10, <2>2, <2>3 DEF Types
  <2> QED
    BY <2>2, <2>4 DEF SelectorInv
<1>12. ASSUME pc' = "finish", toCheckChunks' = toCheckChunks, phase2I' = phase2I
       PROVE  SelectorInv'
  <2>1. Measured'
    BY <1>1, <1>3, <1>6, <1>8, DiscardSound
  <2>2. Types'
    BY <1>1, <1>3, <1>4, <1>9, <1>10, <1>12 DEF Types
  <2>3. Tested' /\ QueueSound'
    BY <1>1, <1>12 DEF Tested, Running, QueueSound
  <2> QED
    BY <2>1, <2>2, <2>3 DEF SelectorInv
<1> QED
  BY <1>3, <1>11, <1>12

\* The last look at the scores.
LEMMA FinishStays ==
    ASSUME SelectorInv, Finish
    PROVE  SelectorInv'
<1>1. Types /\ Measured /\ Tested /\ QueueSound
  BY DEF SelectorInv
<1>2. PICK K : K = Kept(tolerance)
  OBVIOUS
<1>3. /\ pc' = "done" /\ opt' = opt /\ historyOfChunks' = historyOfChunks
      /\ phase' = phase /\ bestSpeedGlobal' = bestSpeedGlobal /\ tolerance' = tolerance
      /\ toCheckChunks' = toCheckChunks /\ phase2I' = phase2I /\ actualBlock' = actualBlock
      /\ speedArr' = Restricted(K) \/ speedArr' = speedArr
  BY <1>2 DEF Finish
<1>4. Measured' /\ selectedChunks' \in SUBSET selectedChunks
  <2>1. CASE speedArr' = Restricted(K)
    <3>1. K \in SUBSET selectedChunks
      BY <1>2, KeptIsEligible
    <3>2. opt.calcMode = 2 /\ bestSpeedGlobal > 0 =>
              \E c \in K : c \in Scored /\ BestSpeed(speedArr[c]) = bestSpeedGlobal
      BY <1>1, <1>2, BestIsWithin DEF Types
    <3>3. Measured' /\ selectedChunks' = K
      BY <1>1, <1>3, <2>1, <3>1, <3>2, DiscardSound
    <3> QED
      BY <3>1, <3>3
  <2>2. CASE speedArr' = speedArr
    BY <1>1, <1>3, <2>2, NothingMeasured
  <2> QED
    BY <1>3, <2>1, <2>2
<1>5. Types'
  BY <1>1, <1>3, <1>4 DEF Types
<1>6. Tested' /\ QueueSound'
  BY <1>1, <1>3 DEF Tested, Running, QueueSound
<1> QED
  BY <1>4, <1>5, <1>6 DEF SelectorInv

\* The larger of two numbers.
LEMMA LargerOf ==
    ASSUME NEW a \in Int, NEW b \in Int
    PROVE  Max({a, b}) = IF a >= b THEN a ELSE b
<1>1. PICK x : x = Max({a, b})
  OBVIOUS
<1>2. \E y \in {a, b} : \A z \in {a, b} : y >= z
  <2>1. CASE a >= b
    BY <2>1
  <2>2. CASE ~(a >= b)
    BY <2>2
  <2> QED
    BY <2>1, <2>2
<1>3. x \in {a, b} /\ \A z \in {a, b} : x >= z
  BY <1>1, <1>2 DEF Max
<1> QED
  BY <1>1, <1>3

\* A speed is measured of the chunk under test, which is still eligible.
LEMMA SetSpeedStays ==
    ASSUME SelectorInv, NEW s \in Speeds, setChunkSpeed(s)
    PROVE  SelectorInv'
<1>1. Types /\ Measured /\ Tested /\ QueueSound
  BY DEF SelectorInv
<1>2. /\ pc = "test" /\ pc' = "call" /\ checkNo' = checkNo
      /\ opt' = opt /\ historyOfChunks' = historyOfChunks /\ toCheckChunks' = toCheckChunks
      /\ tolerance' = tolerance /\ phase' = phase /\ phase2I' = phase2I
      /\ actualBlock' = actualBlock
      /\ bestSpeedGlobal' = Max({bestSpeedGlobal, s})
      /\ speedArr' = [c \in selectedChunks \cup {checkNo} |->
                         LET was == IF c \in selectedChunks THEN speedArr[c] ELSE <<>>
                         IN  IF c = checkNo THEN Inserted(s, was) ELSE was]
  BY DEF setChunkSpeed
<1>3. PICK k : k = checkNo
  OBVIOUS
<1>4. k \in selectedChunks /\ k \notin ToSet(toCheckChunks)
  BY <1>1, <1>2, <1>3 DEF QueueSound
<1>5. PICK old, new : old = speedArr[k] /\ new = Inserted(s, old)
  OBVIOUS
<1>6. /\ selectedChunks' = selectedChunks /\ speedArr'[k] = new
      /\ \A c \in selectedChunks : c # k => speedArr'[c] = speedArr[c]
  BY <1>2, <1>3, <1>4, <1>5 DEF selectedChunks
<1>7. PICK g \in Nat \cup {-1}, h \in Nat :
          g = bestSpeedGlobal /\ h = (IF g >= s THEN g ELSE s) /\ h = bestSpeedGlobal'
  <2>1. s \in Nat \ {0} /\ bestSpeedGlobal \in Nat \cup {-1}
    BY <1>1, Parameters DEF Types
  <2>2. bestSpeedGlobal' = IF bestSpeedGlobal >= s THEN bestSpeedGlobal ELSE s
    BY <1>2, <2>1, LargerOf
  <2> QED
    BY <2>1, <2>2
<1>8. s \in Nat \ {0} /\ g <= h /\ s <= h
  <2>1. s \in Nat \ {0}
    BY <1>1, Parameters
  <2> QED
    BY <1>7, <2>1
<1>9. /\ old \in Seq(Speeds) /\ InOrder(old)
      /\ k \in Scored => BestSpeed(old) <= g
  BY <1>1, <1>4, <1>5, <1>7 DEF Measured
<1>10. /\ new \in Seq(Speeds) /\ InOrder(new) /\ Len(new) = Len(old) + 1
       /\ s <= BestSpeed(new)
       /\ Len(old) > 0 => BestSpeed(old) <= BestSpeed(new)
       /\ BestSpeed(new) = s \/ (Len(old) > 0 /\ BestSpeed(new) = BestSpeed(old))
  BY <1>1, <1>5, <1>9, InsertedInOrder, Parameters
<1>11. Len(old) > 0 => k \in Scored
  BY <1>4, <1>5 DEF Scored, ntests
<1>12. Scored' = Scored \cup {k}
  <2>1. Len(new) > 0
    BY <1>9, <1>10
  <2>2. \A c \in selectedChunks : c # k =>
            (Len(speedArr'[c]) > 0 <=> Len(speedArr[c]) > 0)
    BY <1>6
  <2> QED
    BY <1>4, <1>6, <2>1, <2>2 DEF Scored, ntests
<1>13. BestSpeed(new) \in Nat /\ BestSpeed(new) <= h /\ (h = s => BestSpeed(new) = h)
  <2>1. PICK n \in Nat : n = Len(new) /\ n \in 1 .. n
    BY <1>9, <1>10
  <2>2. BestSpeed(new) \in Nat
    <3>1. new[n] \in Speeds
      BY <1>10, <2>1, ElementOfSeq
    <3> QED
      BY <1>1, <2>1, <3>1, Parameters DEF BestSpeed
  <2>3. CASE BestSpeed(new) = s
    BY <1>8, <2>2, <2>3
  <2>4. CASE Len(old) > 0 /\ BestSpeed(new) = BestSpeed(old)
    <3>1. BestSpeed(new) <= g
      BY <1>9, <1>11, <2>4
    <3> QED
      BY <1>7, <1>8, <1>10, <2>2, <3>1
  <2> QED
    BY <1>10, <2>3, <2>4
<1>14. ASSUME NEW c \in selectedChunks'
       PROVE  /\ speedArr'[c] \in Seq(Speeds) /\ InOrder(speedArr'[c])
              /\ c \in Scored' => BestSpeed(speedArr'[c]) <= h
  <2>1. CASE c = k
    BY <1>6, <1>10, <1>13, <2>1
  <2>2. CASE c # k
    <3>1. c \in selectedChunks /\ speedArr'[c] = speedArr[c] /\ (c \in Scored' => c \in Scored)
      BY <1>6, <1>12, <2>2
    <3>2. /\ speedArr[c] \in Seq(Speeds) /\ InOrder(speedArr[c])
          /\ c \in Scored => BestSpeed(speedArr[c]) <= g
      BY <1>1, <1>7, <3>1 DEF Measured
    <3>3. c \in Scored => BestSpeed(speedArr[c]) \in Nat
      <4>1. ASSUME c \in Scored
            PROVE  BestSpeed(speedArr[c]) \in Nat
        <5>1. PICK n \in Nat : n = Len(speedArr[c]) /\ n \in 1 .. n
          BY <3>2, <4>1 DEF Scored, ntests
        <5>2. speedArr[c][n] \in Speeds
          BY <3>2, <5>1, ElementOfSeq
        <5> QED
          BY <1>1, <5>1, <5>2, Parameters DEF BestSpeed
      <4> QED
        BY <4>1
    <3>4. c \in Scored => BestSpeed(speedArr[c]) <= h
      BY <1>7, <1>8, <3>2, <3>3
    <3> QED
      BY <3>1, <3>2, <3>4
  <2> QED
    BY <2>1, <2>2
<1>15. ASSUME opt.calcMode = 2, h > 0
       PROVE  \E c \in Scored' : BestSpeed(speedArr'[c]) = h
  <2>1. CASE h = s
    BY <1>6, <1>12, <1>13, <2>1
  <2>2. CASE h # s
    <3>1. h = g /\ g > 0
      BY <1>7, <1>15, <2>2
    <3>2. PICK c \in Scored : BestSpeed(speedArr[c]) = g
      BY <1>1, <1>7, <1>15, <3>1 DEF Measured, BestSurvives
    <3>3. CASE c = k
      <4>1. BestSpeed(old) = g /\ Len(old) > 0
        BY <1>5, <3>2, <3>3 DEF Scored, ntests
      <4>2. BestSpeed(new) = h
        BY <1>10, <1>13, <3>1, <4>1
      <4> QED
        BY <1>6, <1>12, <4>2
    <3>4. CASE c # k
      <4>1. c \in selectedChunks
        BY DEF Scored
      <4>2. speedArr'[c] = speedArr[c]
        BY <1>6, <3>4, <4>1
      <4> QED
        BY <1>12, <3>1, <3>2, <4>2
    <3> QED
      BY <3>3, <3>4
  <2> QED
    BY <2>1, <2>2
<1>16. Measured'
  BY <1>2, <1>7, <1>14, <1>15, ZenonT(30) DEF Measured, BestSurvives, InOrder, BestSpeed
<1>17. Types'
  BY <1>1, <1>2, <1>6, <1>7 DEF Types
<1>18. QueueSound'
  BY <1>1, <1>2, <1>6 DEF QueueSound
<1>19. Tested'
  <2>1. \A c \in selectedChunks : c \in Scored \/ (phase = 1 /\ c \in ToSet(toCheckChunks)) \/ c = k
    BY <1>1, <1>2, <1>3 DEF Tested, Running
  <2> QED
    BY <1>2, <1>6, <1>12, <2>1 DEF Tested
<1> QED
  BY <1>16, <1>17, <1>18, <1>19 DEF SelectorInv

\* A step that leaves all but pc alone, when the run is over.
LEMMA EndStays ==
    ASSUME SelectorInv, TestFails \/ UNCHANGED vars
    PROVE  SelectorInv'
<1>1. Types /\ Measured /\ Tested /\ QueueSound
  BY DEF SelectorInv
<1>2. /\ opt' = opt /\ speedArr' = speedArr /\ historyOfChunks' = historyOfChunks
      /\ toCheckChunks' = toCheckChunks /\ tolerance' = tolerance /\ phase' = phase
      /\ phase2I' = phase2I /\ actualBlock' = actualBlock
      /\ bestSpeedGlobal' = bestSpeedGlobal /\ checkNo' = checkNo
      /\ pc' = pc \/ pc' = "failed"
  BY DEF TestFails, vars
<1>3. Measured' /\ selectedChunks' = selectedChunks /\ Scored' = Scored
  BY <1>1, <1>2, NothingMeasured
<1>4. Types'
  BY <1>1, <1>2, <1>3 DEF Types
<1>5. Tested'
  BY <1>1, <1>2, <1>3 DEF Tested, Running
<1>6. QueueSound'
  BY <1>1, <1>2, <1>3 DEF QueueSound
<1> QED
  BY <1>3, <1>4, <1>5, <1>6 DEF SelectorInv

-----------------------------------------------------------------------------
\* The selector starts with the mandatory chunks, none of which has been tested.
LEMMA SelectorStarts ==
    ASSUME Init
    PROVE  SelectorInv
<1>1. PICK H, q : H = historyOfChunks /\ q = Ascending(H)
  OBVIOUS
<1>2. /\ opt \in Options /\ H = initial_mandatory_chunks \cup ({opt.defaultChunk} \ {0})
      /\ speedArr = [c \in H |-> <<>>] /\ toCheckChunks = q /\ pc = "call"
      /\ tolerance = initTolerance /\ phase = 1 /\ phase2I = 0 /\ actualBlock = -1
      /\ bestSpeedGlobal = -1
  BY <1>1 DEF Init
<1>3. H \in SUBSET (Nat \ {0}) /\ IsFiniteSet(H)
  <2>1. opt.defaultChunk \in Nat
    BY <1>2, SelectorAssumption DEF OptionType
  <2>2. {opt.defaultChunk} \ {0} \in SUBSET {opt.defaultChunk} /\ IsFiniteSet({opt.defaultChunk})
    BY FS_Singleton
  <2>3. IsFiniteSet({opt.defaultChunk} \ {0})
    BY <2>2, FS_Subset
  <2>4. IsFiniteSet(H)
    BY <1>2, <2>3, SelectorAssumption, FS_Union
  <2> QED
    BY <1>2, <2>1, <2>4, SelectorAssumption
<1>4. H \in SUBSET Int
  BY <1>3
<1>5. q \in Seq(H) /\ IsInjective(q) /\ ToSet(q) = H
  BY <1>1, <1>3, <1>4, AscendingQueue DEF IsQueue
<1>6. selectedChunks = H /\ \A c \in H : speedArr[c] = <<>>
  BY <1>2 DEF selectedChunks
<1>7. Scored = {}
  BY <1>6 DEF Scored, ntests
<1>8. q \in Seq(Nat \ {0})
  BY <1>3, <1>5, SeqMonotonic
<1>9. tolerance \in 0 .. 99
  BY <1>2, SelectorAssumption
<1>10. Types
  BY <1>1, <1>2, <1>3, <1>6, <1>8, <1>9 DEF Types
<1>11. Measured
  <2>1. <<>> \in Seq(Speeds) /\ InOrder(<<>>)
    BY DEF InOrder
  <2>2. BestSurvives
    BY <1>2 DEF BestSurvives
  <2> QED
    BY <1>6, <1>7, <2>1, <2>2 DEF Measured
<1>12. Tested /\ QueueSound
  BY <1>2, <1>5, <1>6 DEF Tested, QueueSound
<1> QED
  BY <1>10, <1>11, <1>12 DEF SelectorInv

\* Every step keeps the invariant.
LEMMA SelectorStays ==
    ASSUME SelectorInv, [Next]_vars
    PROVE  SelectorInv'
<1>1. CASE CallTimeout
  BY <1>1, CallTimeoutStays
<1>2. CASE CallQueued
  BY <1>2, CallQueuedStays
<1>3. CASE CallExplore
  BY <1>3, CallExploreStays
<1>4. CASE CallPhase2 \/ Phase2Queued
  BY <1>4, Phase2QueuedStays
<1>5. CASE SkipLevel
  BY <1>5, SkipLevelStays
<1>6. CASE Phase2Round
  BY <1>6, Phase2RoundStays
<1>7. CASE FixedRound
  BY <1>7, FixedRoundStays
<1>8. CASE Finish
  BY <1>8, FinishStays
<1>9. CASE TestFails \/ UNCHANGED vars
  BY <1>9, EndStays
<1>10. CASE \E s \in Speeds : setChunkSpeed(s)
  BY <1>10, SetSpeedStays
<1> QED
  BY <1>1, <1>2, <1>3, <1>4, <1>5, <1>6, <1>7, <1>8, <1>9, <1>10 DEF Next, Step, Over

\* The invariant of the selector: where it stands, what it has measured, that
\* all eligible chunks have been tested when some are compared, and its queue.
THEOREM SelectorInductive == Spec => []SelectorInv
<1>1. Init => SelectorInv
  BY SelectorStarts
<1>2. SelectorInv /\ [Next]_vars => SelectorInv'
  BY SelectorStays
<1> QED
  BY <1>1, <1>2, PTL DEF Spec

\* QueueSound, for any options, chunks and speeds: a chunk that waits for a test
\* is eligible and waits once, also after a late level has dropped the rest of
\* its round, so setChunkSpeed never brings a discarded chunk back.
THEOREM QueueIsSound == Spec => []QueueSound
<1>1. SelectorInv => QueueSound
  BY DEF SelectorInv
<1> QED
  BY <1>1, SelectorInductive, PTL

\* BestSurvives, for any options, chunks and speeds: no discard, of any mode and
\* with any tolerance, loses the chunk whose best speed is bestSpeedGlobal.
THEOREM BestIsKept == Spec => []BestSurvives
<1>1. SelectorInv => BestSurvives
  BY DEF SelectorInv, Measured
<1> QED
  BY <1>1, SelectorInductive, PTL

-----------------------------------------------------------------------------
(* How even the tests are, said of any queue q and set u of chunks under   *)
(* test, so that the lemmas need no primes.                                *)

\* The tests a chunk has when the round is over.
Waits(q, u, c) == c \in ToSet(q) \/ c \in u
Rank(arr, q, u, c) == Len(arr[c]) + (IF Waits(q, u, c) THEN 1 ELSE 0)

\* No level has been left half done: all chunks will have m tests, and in phase
\* 2 those that wait are larger than the others.
AllAlike(arr, q, u, ph, m) ==
    /\ \A c \in DOMAIN arr : Rank(arr, q, u, c) = m
    /\ ph = 1 => m = 1
    /\ ph = 2 => /\ \A i, j \in DOMAIN q : i < j => q[i] < q[j]
                 /\ \A j \in DOMAIN q, c \in DOMAIN arr : c \notin ToSet(q) => c < q[j]

\* One level has: the chunks from w on are one test behind, and come first.
OneBehind(arr, q, u, m, w) ==
    /\ \A c \in DOMAIN arr : Rank(arr, q, u, c) = IF c < w THEN m + 1 ELSE m
    /\ \A i, j \in DOMAIN q : i < j /\ q[j] >= w => q[i] >= w
    /\ \A c, d \in DOMAIN arr : d >= w /\ Waits(q, u, d) /\ c < w => c \in ToSet(q)

\* Several levels have.
Within(arr, q, u, k) ==
    \A c, d \in DOMAIN arr : Rank(arr, q, u, c) <= Rank(arr, q, u, d) + k

\* In block a, when p deadlines have passed.
Even(arr, q, u, ph, a, p) ==
    \/ \E m \in Nat : AllAlike(arr, q, u, ph, m)
    \/ /\ ph = 2 /\ a >= 1 /\ p >= 1
       /\ \E m \in Nat, w \in Int : OneBehind(arr, q, u, m, w)
    \/ /\ ph = 2
       /\ \E k \in Nat : 1 <= k /\ k < a /\ k < p /\ Within(arr, q, u, k)

\* A table of tests: of numbered chunks.
IsTable(arr) == DOMAIN arr \in SUBSET Int /\ \A c \in DOMAIN arr : Len(arr[c]) \in Nat

\* Even means that the tests differ by one or by the deadlines that have passed.
LEMMA EvenEnough ==
    ASSUME NEW arr, IsTable(arr), NEW q, NEW u, NEW ph, NEW a \in Int, NEW p \in Nat,
           Even(arr, q, u, ph, a, p), NEW c \in DOMAIN arr, NEW d \in DOMAIN arr
    PROVE  Len(arr[c]) <= Len(arr[d]) + (IF p >= 1 THEN p ELSE 1)
<1>1. PICK x \in Nat, y \in Nat : x = Len(arr[c]) /\ y = Len(arr[d])
  BY DEF IsTable
<1>2. /\ Rank(arr, q, u, c) = x + (IF Waits(q, u, c) THEN 1 ELSE 0)
      /\ Rank(arr, q, u, d) = y + (IF Waits(q, u, d) THEN 1 ELSE 0)
  BY <1>1 DEF Rank
<1>3. CASE \E m \in Nat : AllAlike(arr, q, u, ph, m)
  <2>1. PICK m \in Nat : Rank(arr, q, u, c) = m /\ Rank(arr, q, u, d) = m
    BY <1>3 DEF AllAlike
  <2>2. x <= y + 1
    BY <1>2, <2>1
  <2> QED
    BY <1>1, <2>2
<1>4. CASE p >= 1 /\ \E m \in Nat, w \in Int : OneBehind(arr, q, u, m, w)
  <2>1. PICK m \in Nat, w \in Int : OneBehind(arr, q, u, m, w)
    BY <1>4
  <2>2. c \in Int /\ d \in Int
    BY DEF IsTable
  <2>3. /\ Rank(arr, q, u, c) = IF c < w THEN m + 1 ELSE m
        /\ Rank(arr, q, u, d) = IF d < w THEN m + 1 ELSE m
        /\ c < w /\ d >= w /\ Waits(q, u, d) => Waits(q, u, c)
    BY <2>1 DEF OneBehind, Waits
  <2>4. x <= y + 1
    BY <1>2, <2>2, <2>3
  <2> QED
    BY <1>1, <1>4, <2>4
<1>5. CASE \E k \in Nat : 1 <= k /\ k < a /\ k < p /\ Within(arr, q, u, k)
  <2>1. PICK k \in Nat : k < p /\ Rank(arr, q, u, c) <= Rank(arr, q, u, d) + k
    BY <1>5 DEF Within
  <2>2. x <= y + p
    BY <1>2, <2>1
  <2> QED
    BY <1>1, <2>1, <2>2
<1> QED
  BY <1>3, <1>4, <1>5 DEF Even

\* The next chunk of the queue is tested.
LEMMA EvenPop ==
    ASSUME NEW arr, IsTable(arr), NEW q, IsQueue(q, Nat \ {0}), q # <<>>, NEW ph,
           NEW a, NEW p, Even(arr, q, {}, ph, a, p)
    PROVE  Even(arr, Tail(q), {Head(q)}, ph, a, p)
<1>1. PICK r, h : r = Tail(q) /\ h = Head(q)
  OBVIOUS
<1>2. PICK n \in Nat : n = Len(q)
  BY DEF IsQueue
<1>3. /\ q \in Seq(Nat \ {0}) /\ n > 0 /\ DOMAIN q = 1 .. n /\ ToSet(q) = {q[i] : i \in 1 .. n}
      /\ \A i \in 1 .. n : q[i] \in Nat
  <2>1. q \in Seq(Nat \ {0}) /\ n > 0
    BY <1>2 DEF IsQueue
  <2>2. DOMAIN q = 1 .. n /\ ToSet(q) = {q[i] : i \in 1 .. n}
    BY <1>2, <2>1, Members
  <2> QED
    BY <1>2, <2>1, <2>2
<1>4. h \in ToSet(q) /\ ToSet(r) = ToSet(q) \ {h}
  BY <1>1, QueuePopped
<1>5. /\ h = q[1] /\ Len(r) = n - 1 /\ DOMAIN r = 1 .. (n - 1)
      /\ \A i \in 1 .. (n - 1) : r[i] = q[i + 1]
  <2>1. /\ h = q[1] /\ r \in Seq(Nat \ {0}) /\ Len(r) = n - 1
        /\ \A i \in 1 .. (n - 1) : r[i] = q[i + 1]
    BY <1>1, <1>2, <1>3, HeadTailProperties
  <2> QED
    BY <2>1, Members
<1>6. \A c : Waits(r, {h}, c) <=> Waits(q, {}, c)
  BY <1>4 DEF Waits
<1>7. \A c \in DOMAIN arr : Rank(arr, r, {h}, c) = Rank(arr, q, {}, c)
  BY <1>6 DEF Rank
<1>8. \A i \in 1 .. (n - 1) : i + 1 \in 1 .. n /\ 1 < i + 1 /\ 1 \in 1 .. n
  BY <1>3
<1>9. ASSUME NEW m \in Nat, AllAlike(arr, q, {}, ph, m)
      PROVE  AllAlike(arr, r, {h}, ph, m)
  <2>1. ASSUME ph = 2
        PROVE  /\ \A i, j \in DOMAIN r : i < j => r[i] < r[j]
               /\ \A j \in DOMAIN r, c \in DOMAIN arr : c \notin ToSet(r) => c < r[j]
    <3>1. /\ \A i, j \in 1 .. n : i < j => q[i] < q[j]
          /\ \A j \in 1 .. n, c \in DOMAIN arr : c \notin ToSet(q) => c < q[j]
      BY <1>3, <1>9, <2>1 DEF AllAlike
    <3>2. ASSUME NEW i \in 1 .. (n - 1), NEW j \in 1 .. (n - 1), i < j
          PROVE  r[i] < r[j]
      <4>1. q[i + 1] < q[j + 1]
        BY <1>8, <3>1, <3>2
      <4> QED
        BY <1>5, <4>1
    <3>3. ASSUME NEW j \in 1 .. (n - 1), NEW c \in DOMAIN arr, c \notin ToSet(r)
          PROVE  c < r[j]
      <4>1. CASE c = h
        BY <1>5, <1>8, <3>1, <4>1
      <4>2. CASE c # h
        <5>1. c \notin ToSet(q)
          BY <1>4, <3>3, <4>2
        <5> QED
          BY <1>5, <1>8, <3>1, <5>1
      <4> QED
        BY <4>1, <4>2
    <3> QED
      BY <1>5, <3>2, <3>3
  <2> QED
    BY <1>7, <1>9, <2>1 DEF AllAlike
<1>10. ASSUME NEW m \in Nat, NEW w \in Int, OneBehind(arr, q, {}, m, w)
       PROVE  OneBehind(arr, r, {h}, m, w)
  <2>1. \A i, j \in 1 .. n : i < j /\ q[j] >= w => q[i] >= w
    BY <1>3, <1>10 DEF OneBehind
  <2>2. ASSUME NEW i \in 1 .. (n - 1), NEW j \in 1 .. (n - 1), i < j, r[j] >= w
        PROVE  r[i] >= w
    <3>1. q[j + 1] >= w
      BY <1>5, <2>2
    <3>2. q[i + 1] >= w
      BY <1>8, <2>1, <2>2, <3>1
    <3> QED
      BY <1>5, <3>2
  <2>3. ASSUME NEW c \in DOMAIN arr, NEW d \in DOMAIN arr, d >= w, Waits(r, {h}, d), c < w
        PROVE  c \in ToSet(r)
    <3>1. c \in ToSet(q) /\ d \in ToSet(q) /\ c \in Int /\ d \in Int
      BY <1>6, <1>10, <2>3 DEF OneBehind, Waits, IsTable
    <3>2. PICK j \in 1 .. n : q[j] = d
      BY <1>3, <3>1
    <3>3. q[1] >= w
      <4>1. j = 1 \/ 1 < j
        OBVIOUS
      <4> QED
        BY <1>3, <2>1, <2>3, <3>2, <4>1
    <3>4. c # h
      BY <1>5, <2>3, <3>1, <3>3
    <3> QED
      BY <1>4, <3>1, <3>4
  <2> QED
    BY <1>5, <1>7, <1>10, <2>2, <2>3 DEF OneBehind
<1>11. ASSUME NEW k \in Nat, Within(arr, q, {}, k)
       PROVE  Within(arr, r, {h}, k)
  BY <1>7, <1>11 DEF Within
<1>12. Even(arr, r, {h}, ph, a, p)
  BY <1>9, <1>10, <1>11 DEF Even
<1> QED
  BY <1>1, <1>12

\* A chunk has been tested.
LEMMA EvenTested ==
    ASSUME NEW arr, NEW brr, NEW q, NEW k, NEW ph, NEW a, NEW p,
           IsTable(arr), k \in DOMAIN arr, k \notin ToSet(q),
           DOMAIN brr = DOMAIN arr, Len(brr[k]) = Len(arr[k]) + 1,
           \A c \in DOMAIN arr : c # k => Len(brr[c]) = Len(arr[c]),
           Even(arr, q, {k}, ph, a, p)
    PROVE  Even(brr, q, {}, ph, a, p)
<1>1. \A c \in DOMAIN arr : Rank(brr, q, {}, c) = Rank(arr, q, {k}, c)
  <2> SUFFICES ASSUME NEW c \in DOMAIN arr
               PROVE  Rank(brr, q, {}, c) = Rank(arr, q, {k}, c)
    OBVIOUS
  <2>1. Len(arr[c]) \in Nat
    BY DEF IsTable
  <2>2. CASE c = k
    BY <2>1, <2>2 DEF Rank, Waits
  <2>3. CASE c # k
    BY <2>1, <2>3 DEF Rank, Waits
  <2> QED
    BY <2>2, <2>3
<1>2. \A c : Waits(q, {}, c) => Waits(q, {k}, c)
  BY DEF Waits
<1>3. ASSUME NEW m \in Nat, AllAlike(arr, q, {k}, ph, m)
      PROVE  AllAlike(brr, q, {}, ph, m)
  BY <1>1, <1>3 DEF AllAlike
<1>4. ASSUME NEW m \in Nat, NEW w \in Int, OneBehind(arr, q, {k}, m, w)
      PROVE  OneBehind(brr, q, {}, m, w)
  BY <1>1, <1>2, <1>4 DEF OneBehind
<1>5. ASSUME NEW j \in Nat, Within(arr, q, {k}, j)
      PROVE  Within(brr, q, {}, j)
  <2> SUFFICES ASSUME NEW c \in DOMAIN brr, NEW d \in DOMAIN brr
               PROVE  Rank(brr, q, {}, c) <= Rank(brr, q, {}, d) + j
    BY DEF Within
  <2>1. Rank(arr, q, {k}, c) <= Rank(arr, q, {k}, d) + j
    BY <1>5 DEF Within
  <2>2. /\ Rank(brr, q, {}, c) = Rank(arr, q, {k}, c)
        /\ Rank(brr, q, {}, d) = Rank(arr, q, {k}, d)
    BY <1>1
  <2> QED
    BY <2>1, <2>2
<1> QED
  BY <1>3, <1>4, <1>5 DEF Even

\* Chunks are discarded, time goes by, and later blocks begin.
LEMMA EvenDiscard ==
    ASSUME NEW arr, NEW brr, NEW q, NEW u, NEW ph, NEW a \in Int, NEW p \in Nat,
           NEW a2 \in Int, NEW p2 \in Nat, a <= a2, p <= p2,
           DOMAIN brr \in SUBSET DOMAIN arr, \A c \in DOMAIN brr : brr[c] = arr[c],
           Even(arr, q, u, ph, a, p)
    PROVE  Even(brr, q, u, ph, a2, p2)
<1>1. \A c \in DOMAIN brr : c \in DOMAIN arr /\ Rank(brr, q, u, c) = Rank(arr, q, u, c)
  BY DEF Rank
<1>2. ASSUME NEW m \in Nat, AllAlike(arr, q, u, ph, m)
      PROVE  AllAlike(brr, q, u, ph, m)
  BY <1>1, <1>2 DEF AllAlike
<1>3. ASSUME NEW m \in Nat, NEW w \in Int, OneBehind(arr, q, u, m, w)
      PROVE  OneBehind(brr, q, u, m, w)
  BY <1>1, <1>3 DEF OneBehind
<1>4. ASSUME NEW k \in Nat, Within(arr, q, u, k)
      PROVE  Within(brr, q, u, k)
  BY <1>1, <1>4 DEF Within
<1>5. (a >= 1 => a2 >= 1) /\ (p >= 1 => p2 >= 1)
      /\ \A k \in Nat : (k < a => k < a2) /\ (k < p => k < p2)
  OBVIOUS
<1> QED
  BY <1>2, <1>3, <1>4, <1>5 DEF Even

\* The order of From(w, S): what is not below w comes first, in ascending order.
LEMMA FromOrder ==
    ASSUME NEW S \in SUBSET Int, IsFiniteSet(S), NEW w \in Int
    PROVE  /\ From(w, S) \in Seq(S)
           /\ \A i, j \in DOMAIN From(w, S) : i < j =>
                  /\ From(w, S)[j] >= w => From(w, S)[i] >= w
                  /\ (From(w, S)[i] >= w) = (From(w, S)[j] >= w)
                         => From(w, S)[i] < From(w, S)[j]
<1> DEFINE A == {c \in S : c >= w}
           B == {c \in S : c < w}
<1>1. PICK a, b, q : a = Ascending(A) /\ b = Ascending(B) /\ q = a \o b
  OBVIOUS
<1>2. /\ A \in SUBSET Int /\ B \in SUBSET Int /\ IsFiniteSet(A) /\ IsFiniteSet(B)
      /\ A \in SUBSET S /\ B \in SUBSET S
  <2>1. A \in SUBSET S /\ B \in SUBSET S
    OBVIOUS
  <2>2. IsFiniteSet(A) /\ IsFiniteSet(B)
    BY <2>1, FS_Subset
  <2> QED
    BY <2>1, <2>2
<1>3. From(w, S) = q
  BY <1>1 DEF From
<1>4. PICK m \in Nat, n \in Nat : m = Cardinality(A) /\ n = Cardinality(B)
  BY <1>2, FS_CardinalityType
<1>5. (\A c \in A : c >= w) /\ (\A c \in B : c < w)
  OBVIOUS
<1> HIDE DEF A, B
<1>6. a \in Seq(A) /\ Len(a) = m /\ \A i, j \in 1 .. m : i < j => a[i] < a[j]
  BY <1>1, <1>2, <1>4, AscendingLists
<1>7. b \in Seq(B) /\ Len(b) = n /\ \A i, j \in 1 .. n : i < j => b[i] < b[j]
  BY <1>1, <1>2, <1>4, AscendingLists
<1>8. a \in Seq(S) /\ b \in Seq(S)
  BY <1>2, <1>6, <1>7, SeqMonotonic
<1>9. /\ q \in Seq(S) /\ Len(q) = m + n
      /\ \A i \in 1 .. (m + n) : q[i] = IF i <= m THEN a[i] ELSE b[i - m]
  <2>1. PICK x \in Seq(S), y \in Seq(S) : x = a /\ y = b
    BY <1>8
  <2>2. q = x \o y /\ Len(x) = m /\ Len(y) = n
    BY <1>1, <1>6, <1>7, <2>1
  <2>3. /\ q \in Seq(S) /\ Len(q) = m + n
        /\ \A i \in 1 .. (m + n) : q[i] = IF i <= m THEN x[i] ELSE y[i - m]
    BY <2>2
  <2> QED
    BY <2>1, <2>3
<1>10. DOMAIN q = 1 .. (m + n)
  BY <1>9
<1>11. \A i \in 1 .. m : a[i] \in Int /\ a[i] >= w
  <2>1. \A i \in 1 .. m : a[i] \in A
    BY <1>6, ElementOfSeq
  <2> QED
    BY <1>2, <1>5, <2>1
<1>12. \A i \in 1 .. n : b[i] \in Int /\ b[i] < w
  <2>1. \A i \in 1 .. n : b[i] \in B
    BY <1>7, ElementOfSeq
  <2> QED
    BY <1>2, <1>5, <2>1
<1>13. ASSUME NEW i \in 1 .. (m + n), NEW j \in 1 .. (m + n), i < j
       PROVE  /\ q[j] >= w => q[i] >= w
              /\ (q[i] >= w) = (q[j] >= w) => q[i] < q[j]
  <2>1. CASE j <= m
    <3>1. i \in 1 .. m /\ j \in 1 .. m /\ q[i] = a[i] /\ q[j] = a[j]
      BY <1>9, <1>13, <2>1
    <3> QED
      BY <1>6, <1>11, <1>13, <3>1
  <2>2. CASE i <= m /\ ~(j <= m)
    <3>1. i \in 1 .. m /\ j - m \in 1 .. n /\ q[i] = a[i] /\ q[j] = b[j - m]
      BY <1>9, <2>2
    <3>2. q[i] \in Int /\ q[i] >= w /\ q[j] \in Int /\ q[j] < w
      BY <1>11, <1>12, <3>1
    <3>3. ~(q[j] >= w)
      BY <3>2
    <3> QED
      BY <3>2, <3>3
  <2>3. CASE ~(i <= m) /\ ~(j <= m)
    <3>1. i - m \in 1 .. n /\ j - m \in 1 .. n /\ q[i] = b[i - m] /\ q[j] = b[j - m]
          /\ i - m < j - m
      BY <1>9, <1>13, <2>3
    <3>2. q[i] < q[j] /\ q[j] \in Int /\ q[j] < w
      BY <1>7, <1>12, <3>1
    <3>3. ~(q[j] >= w)
      BY <3>2
    <3> QED
      BY <3>2, <3>3
  <2> QED
    BY <1>13, <2>1, <2>2, <2>3
<1> QED
  BY <1>3, <1>9, <1>10, <1>13

\* A round of all chunks, in ascending order, begins.
LEMMA EvenAscending ==
    ASSUME NEW arr, IsTable(arr), IsFiniteSet(DOMAIN arr), NEW m \in Nat,
           NEW u, \A c \in DOMAIN arr : c \notin u,
           AllAlike(arr, <<>>, u, 2, m)
    PROVE  AllAlike(arr, Ascending(DOMAIN arr), {}, 2, m + 1)
<1>1. PICK K, q : K = DOMAIN arr /\ q = Ascending(K)
  OBVIOUS
<1>2. PICK n \in Nat : n = Cardinality(K)
  BY <1>1, FS_CardinalityType
<1>3. K \in SUBSET Int /\ IsFiniteSet(K)
  BY <1>1 DEF IsTable
<1>4. q \in Seq(K) /\ Len(q) = n /\ ToSet(q) = K /\ \A i, j \in 1 .. n : i < j => q[i] < q[j]
  BY <1>1, <1>2, <1>3, AscendingLists, AscendingQueue
<1>5. DOMAIN q = 1 .. n
  BY <1>4
<1>6. ASSUME NEW c \in K
      PROVE  Rank(arr, q, {}, c) = m + 1
  <2>1. ToSet(<<>>) = {}
    BY DEF ToSet
  <2>2. Rank(arr, <<>>, u, c) = m /\ ~Waits(<<>>, u, c)
    BY <1>1, <2>1 DEF AllAlike, Waits
  <2>3. Len(arr[c]) = m
    BY <1>1, <2>2 DEF Rank, IsTable
  <2> QED
    BY <1>4, <2>3 DEF Rank, Waits
<1> QED
  BY <1>1, <1>4, <1>5, <1>6 DEF AllAlike

\* What a chunk has while none waits.
LEMMA NoneWaits ==
    ASSUME NEW arr, IsTable(arr), NEW c \in DOMAIN arr
    PROVE  Rank(arr, <<>>, {}, c) = Len(arr[c])
<1>1. ~Waits(<<>>, {}, c)
  BY DEF Waits, ToSet
<1> QED
  BY <1>1 DEF Rank, IsTable

\* A round begins with the chunks that have the fewest tests.
LEMMA EvenRound ==
    ASSUME NEW arr, IsTable(arr), IsFiniteSet(DOMAIN arr), NEW a, NEW p,
           NEW w \in DOMAIN arr, \A c \in DOMAIN arr : Len(arr[w]) <= Len(arr[c]),
           \A c \in DOMAIN arr : Len(arr[c]) = Len(arr[w]) => w <= c,
           Even(arr, <<>>, {}, 2, a, p)
    PROVE  Even(arr, From(w, DOMAIN arr), {}, 2, a, p)
<1>1. PICK K, q : K = DOMAIN arr /\ q = From(w, K)
  OBVIOUS
<1>2. K \in SUBSET Int /\ IsFiniteSet(K) /\ w \in K /\ w \in Int
  BY <1>1 DEF IsTable
<1>3. /\ q \in Seq(K) /\ ToSet(q) = K
      /\ \A i, j \in DOMAIN q : i < j =>
             /\ q[j] >= w => q[i] >= w
             /\ (q[i] >= w) = (q[j] >= w) => q[i] < q[j]
  BY <1>1, <1>2, FromOrder, FromQueue
<1>4. \A i \in DOMAIN q : q[i] \in K /\ q[i] \in Int
  <2>1. DOMAIN q = 1 .. Len(q)
    BY <1>3, Members
  <2>2. \A i \in 1 .. Len(q) : q[i] \in K
    BY <1>3, ElementOfSeq
  <2> QED
    BY <1>2, <2>1, <2>2
<1>5. \A c \in K : Waits(q, {}, c) /\ Rank(arr, q, {}, c) = Len(arr[c]) + 1
  BY <1>3 DEF Waits, Rank
<1>6. \A c \in K : Rank(arr, <<>>, {}, c) = Len(arr[c]) /\ Len(arr[c]) \in Nat
  BY <1>1, NoneWaits DEF IsTable
<1>7. CASE \E m \in Nat : AllAlike(arr, <<>>, {}, 2, m)
  <2>1. PICK m \in Nat : \A c \in K : Len(arr[c]) = m
    BY <1>1, <1>6, <1>7 DEF AllAlike
  <2>2. \A c \in K : w <= c
    BY <1>1, <1>2, <2>1
  <2>3. \A i, j \in DOMAIN q : i < j => q[i] < q[j]
    <3> SUFFICES ASSUME NEW i \in DOMAIN q, NEW j \in DOMAIN q, i < j
                 PROVE  q[i] < q[j]
      OBVIOUS
    <3>1. q[i] >= w /\ q[j] >= w
      BY <1>2, <1>4, <2>2
    <3> QED
      BY <1>3, <3>1
  <2>4. m + 1 \in Nat /\ \A c \in K : Rank(arr, q, {}, c) = m + 1
    BY <1>5, <2>1
  <2>5. AllAlike(arr, q, {}, 2, m + 1)
    BY <1>1, <1>3, <2>3, <2>4 DEF AllAlike
  <2> QED
    BY <1>1, <2>4, <2>5 DEF Even
<1>8. CASE a >= 1 /\ p >= 1 /\ \E m \in Nat, v \in Int : OneBehind(arr, <<>>, {}, m, v)
  <2>0. PICK m \in Nat, v \in Int : OneBehind(arr, <<>>, {}, m, v)
    BY <1>8
  <2>1. \A c \in K : Len(arr[c]) = IF c < v THEN m + 1 ELSE m
    BY <1>1, <1>6, <2>0 DEF OneBehind
  <2>2. \A c \in K : Rank(arr, q, {}, c) = IF c < v THEN (m + 1) + 1 ELSE m + 1
    BY <1>5, <2>1
  <2>3. \A c \in K : c \in ToSet(q)
    BY <1>3
  <2>4. ASSUME NEW i \in DOMAIN q, NEW j \in DOMAIN q, i < j, q[j] >= v
        PROVE  q[i] >= v
    <3>1. Len(arr[q[j]]) = m
      BY <1>2, <1>4, <2>1, <2>4
    <3>2. Len(arr[w]) <= m
      BY <1>1, <1>4, <3>1
    <3>3. w >= v /\ Len(arr[w]) = m
      BY <1>2, <2>1, <3>2
    <3>4. q[j] >= w
      BY <1>1, <1>4, <3>1, <3>3
    <3>5. q[i] >= w
      BY <1>3, <2>4, <3>4
    <3> QED
      BY <1>2, <1>4, <3>3, <3>5
  <2>5. OneBehind(arr, q, {}, m + 1, v)
    BY <1>1, <2>2, <2>3, <2>4 DEF OneBehind
  <2> QED
    BY <1>1, <1>8, <2>5 DEF Even
<1>9. CASE \E k \in Nat : 1 <= k /\ k < a /\ k < p /\ Within(arr, <<>>, {}, k)
  <2>1. PICK k \in Nat : 1 <= k /\ k < a /\ k < p /\ Within(arr, <<>>, {}, k)
    BY <1>9
  <2>2. ASSUME NEW c \in K, NEW d \in K
        PROVE  Rank(arr, q, {}, c) <= Rank(arr, q, {}, d) + k
    <3>1. Rank(arr, <<>>, {}, c) <= Rank(arr, <<>>, {}, d) + k
      BY <1>1, <2>1 DEF Within
    <3>2. PICK x \in Nat, y \in Nat : x = Len(arr[c]) /\ y = Len(arr[d])
      BY <1>6
    <3>3. x <= y + k
      BY <1>6, <3>1, <3>2
    <3>4. x + 1 <= y + 1 + k
      BY <3>3
    <3> QED
      BY <1>5, <3>2, <3>4
  <2>3. Within(arr, q, {}, k)
    BY <1>1, <2>2 DEF Within
  <2> QED
    BY <1>1, <2>1, <2>3 DEF Even
<1> QED
  BY <1>7, <1>8, <1>9 DEF Even

\* One chunk, or none, is even with itself.
LEMMA EvenSingle ==
    ASSUME NEW arr, IsTable(arr), \A c, d \in DOMAIN arr : c = d, NEW a, NEW p
    PROVE  Even(arr, <<>>, {}, 2, a, p)
<1>1. \E m \in Nat : \A c \in DOMAIN arr : Rank(arr, <<>>, {}, c) = m
  <2>1. CASE DOMAIN arr = {}
    <3>1. \A c \in DOMAIN arr : Rank(arr, <<>>, {}, c) = 0
      BY <2>1
    <3> QED
      BY <3>1
  <2>2. CASE DOMAIN arr # {}
    <3>1. PICK d \in DOMAIN arr : TRUE
      BY <2>2
    <3>2. Len(arr[d]) \in Nat
      BY DEF IsTable
    <3>3. \A c \in DOMAIN arr : Rank(arr, <<>>, {}, c) = Len(arr[d])
      BY NoneWaits
    <3> QED
      BY <3>2, <3>3
  <2> QED
    BY <2>1, <2>2
<1>2. PICK m \in Nat : \A c \in DOMAIN arr : Rank(arr, <<>>, {}, c) = m
  BY <1>1
<1>3. DOMAIN <<>> = {}
  OBVIOUS
<1>4. AllAlike(arr, <<>>, {}, 2, m)
  BY <1>2, <1>3 DEF AllAlike
<1> QED
  BY <1>4 DEF Even

\* A level is abandoned with the queue q, and all start again with the one whose
\* turn it was.
LEMMA EvenSkip ==
    ASSUME NEW arr, IsTable(arr), IsFiniteSet(DOMAIN arr), DOMAIN arr \in SUBSET Nat,
           NEW q \in Seq(Nat \ {0}), NEW a \in Nat, NEW p \in Nat, p > a, NEW w \in Int,
           w = (IF q = <<>> THEN -1 ELSE Head(q)),
           Even(arr, q, {}, 2, a, p)
    PROVE  Even(arr, From(w, DOMAIN arr), {}, 2, a + 1, p)
<1>1. PICK K, r : K = DOMAIN arr /\ r = From(w, K)
  OBVIOUS
<1>2. K \in SUBSET Int /\ IsFiniteSet(K)
  BY <1>1 DEF IsTable
<1>3. /\ r \in Seq(K) /\ ToSet(r) = K
      /\ \A i, j \in DOMAIN r : i < j =>
             /\ r[j] >= w => r[i] >= w
             /\ (r[i] >= w) = (r[j] >= w) => r[i] < r[j]
  <2>1. PICK v \in Int : v = w
    OBVIOUS
  <2>2. /\ From(v, K) \in Seq(K)
        /\ \A i, j \in DOMAIN From(v, K) : i < j =>
               /\ From(v, K)[j] >= v => From(v, K)[i] >= v
               /\ (From(v, K)[i] >= v) = (From(v, K)[j] >= v)
                      => From(v, K)[i] < From(v, K)[j]
    BY ONLY <1>2, FromOrder
  <2>3. ToSet(From(v, K)) = K
    BY ONLY <1>2, FromQueue
  <2>4. r = From(v, K)
    BY <1>1, <2>1
  <2> QED
    BY ONLY <2>1, <2>2, <2>3, <2>4
<1>4. \A i \in DOMAIN r : r[i] \in K /\ r[i] \in Int
  <2>1. DOMAIN r = 1 .. Len(r)
    BY <1>3, Members
  <2>2. \A i \in 1 .. Len(r) : r[i] \in K
    BY <1>3, ElementOfSeq
  <2> QED
    BY <1>2, <2>1, <2>2
<1>5. \A c \in K : Waits(r, {}, c) /\ Rank(arr, r, {}, c) = Len(arr[c]) + 1
  BY <1>3 DEF Waits, Rank
<1>6. \A c \in K : Len(arr[c]) \in Nat /\ c \in Int
  BY <1>1, <1>2 DEF IsTable
<1>7. CASE \E m \in Nat : AllAlike(arr, q, {}, 2, m)
  <2>1. PICK m \in Nat : AllAlike(arr, q, {}, 2, m)
    BY <1>7
  <2>2. \A c \in K : Len(arr[c]) + (IF c \in ToSet(q) THEN 1 ELSE 0) = m
    BY <1>1, <2>1 DEF AllAlike, Rank, Waits
  <2>3. CASE q = <<>>
    <3>1. w = -1 /\ ToSet(q) = {}
      BY <2>3 DEF ToSet
    <3>2. \A c \in K : c >= w
      BY <1>1, <3>1
    <3>3. \A c \in K : Rank(arr, r, {}, c) = m + 1
      <4> SUFFICES ASSUME NEW c \in K
                   PROVE  Rank(arr, r, {}, c) = m + 1
        OBVIOUS
      <4>1. Len(arr[c]) = m
        BY <1>6, <2>2, <3>1
      <4> QED
        BY <1>5, <4>1
    <3>4. \A i, j \in DOMAIN r : i < j => r[i] < r[j]
      <4> SUFFICES ASSUME NEW i \in DOMAIN r, NEW j \in DOMAIN r, i < j
                   PROVE  r[i] < r[j]
        OBVIOUS
      <4>1. r[i] >= w /\ r[j] >= w
        BY <1>4, <3>2
      <4> QED
        BY <1>3, <4>1
    <3>5. AllAlike(arr, r, {}, 2, m + 1)
      BY <1>1, <1>3, <3>3, <3>4 DEF AllAlike
    <3>6. m + 1 \in Nat
      OBVIOUS
    <3> QED
      BY <1>1, <3>5, <3>6 DEF Even
  <2>4. CASE q # <<>>
    <3>1. PICK n \in Nat : n = Len(q) /\ n > 0 /\ DOMAIN q = 1 .. n
      BY <2>4
    <3>2. w = q[1] /\ 1 \in 1 .. n /\ \A i \in 1 .. n : q[i] \in Nat
      BY <2>4, <3>1
    <3>3. ToSet(q) = {q[i] : i \in 1 .. n}
      BY <3>1, Members
    <3>4. /\ \A i, j \in 1 .. n : i < j => q[i] < q[j]
          /\ \A j \in 1 .. n, c \in K : c \notin ToSet(q) => c < q[j]
      BY <1>1, <2>1, <3>1 DEF AllAlike
    <3>5. ASSUME NEW c \in K
          PROVE  c < w <=> c \notin ToSet(q)
      <4>1. ASSUME c \in ToSet(q)
            PROVE  ~(c < w)
        <5>1. PICK j \in 1 .. n : c = q[j]
          BY <3>3, <4>1
        <5>2. j = 1 \/ q[1] < q[j]
          BY <3>2, <3>4
        <5> QED
          BY <3>2, <5>1, <5>2
      <4>2. ASSUME c \notin ToSet(q)
            PROVE  c < w
        BY <3>2, <3>4, <4>2
      <4> QED
        BY <4>1, <4>2
    <3>6. \A c \in K : Rank(arr, r, {}, c) = IF c < w THEN m + 1 ELSE m
      <4> SUFFICES ASSUME NEW c \in K
                   PROVE  Rank(arr, r, {}, c) = IF c < w THEN m + 1 ELSE m
        OBVIOUS
      <4>1. PICK x \in Nat : x = Len(arr[c])
        BY <1>6
      <4>2. x + (IF c < w THEN 0 ELSE 1) = m
        BY <2>2, <3>5, <4>1
      <4>3. x + 1 = IF c < w THEN m + 1 ELSE m
        BY <4>2
      <4> QED
        BY <1>5, <4>1, <4>3
    <3>7. \A c \in K : c \in ToSet(r)
      BY <1>3
    <3>8. \A i, j \in DOMAIN r : i < j /\ r[j] >= w => r[i] >= w
      BY <1>3
    <3>9. OneBehind(arr, r, {}, m, w)
      BY <1>1, <3>6, <3>7, <3>8 DEF OneBehind
    <3>10. a + 1 >= 1 /\ p >= 1
      OBVIOUS
    <3> QED
      BY <1>1, <3>9, <3>10 DEF Even
  <2> QED
    BY <2>3, <2>4
<1>8. ASSUME a >= 1,
             NEW k \in Nat, 1 <= k, k < a + 1, k < p,
             \A c, d \in K : Len(arr[c]) <= Len(arr[d]) + k
      PROVE  Even(arr, r, {}, 2, a + 1, p)
  <2>1. ASSUME NEW c \in K, NEW d \in K
        PROVE  Rank(arr, r, {}, c) <= Rank(arr, r, {}, d) + k
    <3>1. PICK x \in Nat, y \in Nat : x = Len(arr[c]) /\ y = Len(arr[d])
      BY <1>6
    <3>2. x <= y + k
      BY <1>8, <3>1
    <3>3. x + 1 <= y + 1 + k
      BY <3>2
    <3> QED
      BY <1>5, <3>1, <3>3
  <2>2. Within(arr, r, {}, k)
    BY <1>1, <2>1 DEF Within
  <2> QED
    BY <1>8, <2>2 DEF Even
<1>9. CASE a >= 1 /\ \E m \in Nat, v \in Int : OneBehind(arr, q, {}, m, v)
  <2>1. PICK m \in Nat, v \in Int : OneBehind(arr, q, {}, m, v)
    BY <1>9
  <2>2. Even(arr, q, {}, 2, 1, 1)
    BY <2>1 DEF Even
  <2>3. \A c, d \in K : Len(arr[c]) <= Len(arr[d]) + 1
    BY <1>1, <2>2, EvenEnough
  <2>4. 1 <= 1 /\ 1 < a + 1 /\ 1 < p
    BY <1>9
  <2> QED
    BY <1>1, <1>8, <1>9, <2>3, <2>4
<1>10. CASE \E k \in Nat : 1 <= k /\ k < a /\ k < p /\ Within(arr, q, {}, k)
  <2>1. PICK k \in Nat : 1 <= k /\ k < a /\ k < p /\ Within(arr, q, {}, k)
    BY <1>10
  <2>2. PICK l \in Nat : l = k + 1
    OBVIOUS
  <2>3. a >= 1 /\ 1 <= l /\ l < a + 1 /\ l < p
    BY <2>1, <2>2
  <2>4. ASSUME NEW c \in K, NEW d \in K
        PROVE  Len(arr[c]) <= Len(arr[d]) + l
    <3>1. PICK x \in Nat, y \in Nat : x = Len(arr[c]) /\ y = Len(arr[d])
      BY <1>6
    <3>2. Rank(arr, q, {}, c) <= Rank(arr, q, {}, d) + k
      BY <1>1, <2>1 DEF Within
    <3>3. /\ Rank(arr, q, {}, c) = x \/ Rank(arr, q, {}, c) = x + 1
          /\ Rank(arr, q, {}, d) = y \/ Rank(arr, q, {}, d) = y + 1
      <4>1. /\ Rank(arr, q, {}, c) = x + (IF Waits(q, {}, c) THEN 1 ELSE 0)
            /\ Rank(arr, q, {}, d) = y + (IF Waits(q, {}, d) THEN 1 ELSE 0)
        BY <3>1 DEF Rank
      <4> QED
        BY <4>1
    <3>4. x <= y + l
      BY <2>2, <3>2, <3>3
    <3> QED
      BY <3>1, <3>4
  <2> QED
    BY <1>1, <1>8, <2>3, <2>4
<1> QED
  BY <1>1, <1>7, <1>9, <1>10 DEF Even

-----------------------------------------------------------------------------
(* The tests of the selector.                                              *)

UnderTest == IF pc \in {"test", "failed"} THEN {checkNo} ELSE {}

EvenNow == Even(speedArr, toCheckChunks, UnderTest, phase, actualBlock, passed)

\* Blocks and deadlines only advance, and there are blocks only in mode 0.
EvenInv ==
    /\ EvenNow
    /\ passed \in Nat /\ phase2I >= actualBlock
    /\ opt.mode # 0 => actualBlock = -1

\* The measured speeds are a table.
LEMMA SpeedsAreTable ==
    ASSUME Types, Measured
    PROVE  IsTable(speedArr) /\ IsFiniteSet(selectedChunks) /\ selectedChunks \in SUBSET Nat
<1>1. selectedChunks \in SUBSET (Nat \ {0}) /\ IsFiniteSet(selectedChunks)
  BY Eligible
<1>2. \A c \in selectedChunks : Len(speedArr[c]) \in Nat
  BY DEF Measured
<1> QED
  BY <1>1, <1>2 DEF IsTable, selectedChunks

\* A part of it is one too.
LEMMA PartIsTable ==
    ASSUME Types, Measured, NEW K \in SUBSET selectedChunks
    PROVE  /\ IsTable(Restricted(K)) /\ DOMAIN Restricted(K) = K
           /\ DOMAIN Restricted(K) \in SUBSET DOMAIN speedArr
           /\ \A c \in K : Restricted(K)[c] = speedArr[c]
<1>1. /\ DOMAIN Restricted(K) = K /\ \A c \in K : Restricted(K)[c] = speedArr[c]
      /\ DOMAIN Restricted(K) \in SUBSET DOMAIN speedArr
  BY DEF Restricted, selectedChunks
<1>2. \A c \in K : c \in DOMAIN speedArr /\ Len(speedArr[c]) \in Nat /\ c \in Int
  BY SpeedsAreTable DEF IsTable, selectedChunks
<1> QED
  BY <1>1, <1>2 DEF IsTable

\* Deadlines pass and do not return.
LEMMA ClockAdvances ==
    ASSUME Types, passed \in Nat, Clock
    PROVE  passed' \in Nat /\ passed <= passed'
<1>1. AllPassed \in Nat
  BY Parameters DEF AllPassed
<1> QED
  BY <1>1 DEF Clock

\* A chunk that is returned is under test.
LEMMA ReturnIsEven ==
    ASSUME NEW q, IsQueue(q, Nat \ {0}), q # <<>>, Return(q), IsTable(speedArr'),
           Even(speedArr', q, {}, phase', actualBlock', passed')
    PROVE  EvenNow'
<1>1. PICK arr, ph, a, p : arr = speedArr' /\ ph = phase' /\ a = actualBlock' /\ p = passed'
  OBVIOUS
<1>2. Even(arr, Tail(q), {Head(q)}, ph, a, p)
  BY <1>1, EvenPop
<1>3. toCheckChunks' = Tail(q) /\ UnderTest' = {Head(q)}
  BY DEF Return, UnderTest
<1> QED
  BY <1>1, <1>2, <1>3 DEF EvenNow

\* What is said of K when it has at most one member.
LEMMA AtMostOne ==
    ASSUME NEW K, IsFiniteSet(K), ~(Cardinality(K) > 1), NEW c \in K, NEW d \in K
    PROVE  c = d
<1>1. ASSUME c # d
      PROVE  FALSE
  <2>1. {c, d} = {c} \cup {d} /\ d \notin {c}
    BY <1>1
  <2>2. Cardinality({c}) = 1 /\ IsFiniteSet({c})
    BY FS_Singleton
  <2>3. Cardinality({c, d}) = 2
    <3>1. PICK S : S = {c}
      OBVIOUS
    <3>2. Cardinality(S \cup {d}) = Cardinality(S) + 1
      <4>1. IsFiniteSet(S) /\ d \notin S
        BY <2>1, <2>2, <3>1
      <4> QED
        BY <4>1, FS_AddElement
    <3>3. S \cup {d} = {c, d} /\ Cardinality(S) = 1
      BY <2>1, <2>2, <3>1
    <3> QED
      BY <3>2, <3>3, SMTT(30)
  <2>4. Cardinality({c, d}) <= Cardinality(K)
    BY FS_Subset
  <2>5. Cardinality(K) \in Nat
    BY FS_CardinalityType
  <2> QED
    BY <2>3, <2>4, <2>5
<1> QED
  BY <1>1

\* Some chunks are discarded, while the queue and what is under test stay.
LEMMA DiscardIsEven ==
    ASSUME SelectorInv, EvenInv, NEW K \in SUBSET selectedChunks,
           NEW a \in Int, actualBlock <= a, NEW p \in Nat, passed <= p
    PROVE  Even(Restricted(K), toCheckChunks, UnderTest, phase, a, p)
<1>1. Types /\ Measured /\ passed \in Nat /\ EvenNow /\ actualBlock \in Int
  BY DEF SelectorInv, EvenInv, Types
<1>2. PICK brr : brr = Restricted(K)
  OBVIOUS
<1>3. DOMAIN brr \in SUBSET DOMAIN speedArr /\ \A c \in DOMAIN brr : brr[c] = speedArr[c]
  BY <1>1, <1>2, PartIsTable
<1>4. Even(brr, toCheckChunks, UnderTest, phase, a, p)
  BY <1>1, <1>3, EvenDiscard DEF EvenNow
<1> QED
  BY <1>2, <1>4

\* None is discarded, but time goes by.
LEMMA TimeIsEven ==
    ASSUME SelectorInv, EvenInv, NEW a \in Int, actualBlock <= a, NEW p \in Nat, passed <= p
    PROVE  Even(speedArr, toCheckChunks, UnderTest, phase, a, p)
<1>1. passed \in Nat /\ EvenNow /\ actualBlock \in Int
  BY DEF SelectorInv, EvenInv, Types
<1>2. DOMAIN speedArr \in SUBSET DOMAIN speedArr
  OBVIOUS
<1> QED
  BY <1>1, <1>2, EvenDiscard DEF EvenNow

\* A call that finds the time over discards at most one chunk.
LEMMA CallTimeoutEven ==
    ASSUME SelectorInv, EvenInv, CallTimeout
    PROVE  EvenInv'
<1>1. Types /\ Measured /\ passed \in Nat /\ actualBlock \in Int
  BY DEF SelectorInv, EvenInv, Types
<1>2. PICK K : K = discardWorstChunk
  OBVIOUS
<1>3. /\ pc = "call" /\ pc' = "finish" /\ toCheckChunks' = toCheckChunks /\ phase' = phase
      /\ actualBlock' = actualBlock /\ phase2I' = phase2I /\ opt' = opt /\ Clock
      /\ speedArr' = Restricted(K) \/ speedArr' = speedArr
  BY <1>2 DEF CallTimeout
<1>4. PICK a \in Int, p \in Nat : a = actualBlock /\ p = passed' /\ passed <= p
  BY <1>1, <1>3, ClockAdvances
<1>5. UnderTest' = UnderTest
  BY <1>3 DEF UnderTest
<1>6. Even(speedArr', toCheckChunks, UnderTest, phase, a, p)
  <2>1. CASE speedArr' = Restricted(K)
    <3>1. K \in SUBSET selectedChunks
      BY <1>2, KeptIsEligible
    <3> QED
      BY <1>4, <2>1, <3>1, DiscardIsEven
  <2>2. CASE speedArr' = speedArr
    BY <1>4, <2>2, TimeIsEven
  <2> QED
    BY <1>3, <2>1, <2>2
<1>7. EvenNow'
  BY <1>3, <1>4, <1>5, <1>6 DEF EvenNow
<1> QED
  BY <1>3, <1>4, <1>7 DEF EvenInv

\* A call that takes the next chunk of the queue.
LEMMA QueuedEven ==
    ASSUME SelectorInv, EvenInv, CallQueued \/ Phase2Queued
    PROVE  EvenInv'
<1>1. Types /\ Measured /\ QueueSound /\ passed \in Nat /\ actualBlock \in Int
  BY DEF SelectorInv, EvenInv, Types
<1>2. /\ pc \in {"call", "phase2"} /\ toCheckChunks # <<>> /\ Return(toCheckChunks)
      /\ phase' = phase /\ actualBlock' = actualBlock /\ phase2I' = phase2I /\ opt' = opt
      /\ Clock \/ passed' = passed
  BY DEF CallQueued, Phase2Queued, InTime
<1>3. PICK a \in Int, p \in Nat : a = actualBlock /\ p = passed' /\ passed <= p
  BY <1>1, <1>2, ClockAdvances
<1>4. speedArr' = speedArr
  BY DEF CallQueued, Phase2Queued
<1>5. UnderTest = {}
  BY <1>2 DEF UnderTest
<1>6. Even(speedArr, toCheckChunks, {}, phase, a, p)
  BY <1>3, <1>5, TimeIsEven
<1>7. IsQueue(toCheckChunks, Nat \ {0})
  BY <1>1, <1>2 DEF Types, IsQueue, QueueSound
<1>8. EvenNow'
  <2>1. PICK q : q = toCheckChunks
    OBVIOUS
  <2>2. IsTable(speedArr') /\ Even(speedArr', q, {}, phase', actualBlock', passed')
    BY <1>1, <1>2, <1>3, <1>4, <1>6, <2>1, SpeedsAreTable
  <2> QED
    BY <1>2, <1>7, <2>1, <2>2, ReturnIsEven
<1> QED
  BY <1>2, <1>3, <1>8 DEF EvenInv

\* In phase 1 each chunk is tested once.
LEMMA CallExploreEven ==
    ASSUME SelectorInv, EvenInv, CallExplore
    PROVE  EvenInv'
<1>1. Types /\ Measured /\ passed \in Nat /\ actualBlock \in Int
  BY DEF SelectorInv, EvenInv, Types
<1>2. PICK kept, new : kept = Kept(tolerance) /\ new = Neighbors(kept)
  OBVIOUS
<1>3. /\ pc = "call" /\ phase = 1 /\ toCheckChunks = <<>> /\ Clock
      /\ speedArr' = [c \in kept \cup ToSet(new) |-> IF c \in kept THEN speedArr[c] ELSE <<>>]
      /\ \/ new # <<>> /\ Return(new) /\ phase' = phase
         \/ new = <<>> /\ phase' = 2 /\ pc' = "phase2" /\ toCheckChunks' = toCheckChunks
      /\ opt' = opt /\ phase2I' = phase2I /\ actualBlock' = actualBlock
  BY <1>2 DEF CallExplore, InTime
<1>4. PICK a \in Int, p \in Nat : a = actualBlock /\ p = passed' /\ passed <= p
  BY <1>1, <1>3, ClockAdvances
<1>5. kept \in SUBSET selectedChunks
  BY <1>2, KeptIsEligible
<1>6. /\ IsQueue(new, Nat \ {0}) /\ ToSet(new) \in SUBSET (Nat \ {0})
      /\ \A c \in ToSet(new) : c \notin kept
  <2>1. IsQueue(new, Nat \ {0}) /\ ToSet(new) \cap historyOfChunks = {}
    BY <1>1, <1>2, <1>5, NeighborsAreNew
  <2> QED
    BY <1>1, <1>5, <2>1, Members DEF IsQueue, Types
<1>7. PICK arr : arr = speedArr'
  OBVIOUS
<1>8. /\ DOMAIN arr = kept \cup ToSet(new) /\ \A c \in kept : arr[c] = speedArr[c]
      /\ \A c \in ToSet(new) : Len(arr[c]) = 0
  <2>1. Len(<<>>) = 0
    OBVIOUS
  <2> QED
    BY <1>3, <1>6, <1>7, <2>1
<1>9. \A c \in kept : Len(arr[c]) = 1
  <2>1. UnderTest = {}
    BY <1>3 DEF UnderTest
  <2>2. Even(speedArr, <<>>, {}, 1, actualBlock, passed)
    BY <1>3, <2>1 DEF EvenInv, EvenNow
  <2>3. PICK m \in Nat : AllAlike(speedArr, <<>>, {}, 1, m)
    BY <2>2 DEF Even
  <2>4. \A c \in selectedChunks : Rank(speedArr, <<>>, {}, c) = 1
    BY <2>3 DEF AllAlike, selectedChunks
  <2>5. \A c \in selectedChunks : Len(speedArr[c]) = 1
    BY <1>1, <2>4, SpeedsAreTable, NoneWaits DEF selectedChunks
  <2> QED
    BY <1>5, <1>8, <2>5
<1>10. IsTable(arr)
  <2>1. kept \in SUBSET Int
    BY <1>1, <1>5, Eligible
  <2> QED
    BY <1>6, <1>8, <1>9, <2>1 DEF IsTable
<1>11. \A c \in DOMAIN arr : Rank(arr, new, {}, c) = 1
  <2> SUFFICES ASSUME NEW c \in DOMAIN arr
               PROVE  Rank(arr, new, {}, c) = 1
    OBVIOUS
  <2>1. CASE c \in kept
    <3>1. ~Waits(new, {}, c) /\ Len(arr[c]) = 1
      BY <1>6, <1>9, <2>1 DEF Waits
    <3> QED
      BY <3>1 DEF Rank
  <2>2. CASE c \in ToSet(new)
    <3>1. Waits(new, {}, c) /\ Len(arr[c]) = 0
      BY <1>8, <2>2 DEF Waits
    <3> QED
      BY <3>1 DEF Rank
  <2> QED
    BY <1>8, <2>1, <2>2
<1>12. CASE new # <<>> /\ Return(new) /\ phase' = phase
  <2>1. AllAlike(arr, new, {}, 1, 1)
    BY <1>11 DEF AllAlike
  <2>2. Even(arr, new, {}, 1, a, p)
    BY <2>1 DEF Even
  <2>3. IsTable(speedArr') /\ Even(speedArr', new, {}, phase', actualBlock', passed')
    BY <1>3, <1>4, <1>7, <1>10, <1>12, <2>2
  <2>4. EvenNow'
    BY <1>6, <1>12, <2>3, ReturnIsEven
  <2> QED
    BY <1>3, <1>4, <2>4 DEF EvenInv
<1>13. CASE new = <<>> /\ phase' = 2 /\ pc' = "phase2" /\ toCheckChunks' = toCheckChunks
  <2>1. DOMAIN <<>> = {}
    OBVIOUS
  <2>2. AllAlike(arr, <<>>, {}, 2, 1)
    BY <1>11, <1>13, <2>1 DEF AllAlike
  <2>3. Even(arr, <<>>, {}, 2, a, p)
    BY <2>2 DEF Even
  <2>4. UnderTest' = {} /\ toCheckChunks' = <<>>
    BY <1>3, <1>13 DEF UnderTest
  <2>5. EvenNow'
    BY <1>3, <1>4, <1>7, <1>13, <2>3, <2>4 DEF EvenNow
  <2> QED
    BY <1>3, <1>4, <2>5 DEF EvenInv
<1> QED
  BY <1>3, <1>12, <1>13

\* A late level counts for one.
LEMMA SkipLevelEven ==
    ASSUME SelectorInv, EvenInv, SkipLevel
    PROVE  EvenInv'
<1>1. Types /\ Measured /\ passed \in Nat /\ actualBlock \in Int
  BY DEF SelectorInv, EvenInv, Types
<1>2. PICK K, w, arr, q : /\ K = Kept(tolerance) /\ arr = Restricted(K) /\ q = toCheckChunks
                          /\ w = (IF q = <<>> THEN -1 ELSE Head(q))
  OBVIOUS
<1>3. PICK b : b = actualBlock + 1
  OBVIOUS
<1>4. /\ pc = "phase2" /\ pc' = pc /\ opt' = opt /\ phase' = phase /\ passed' = passed
      /\ opt.mode = 0 /\ speedArr' = arr
      /\ toCheckChunks' = (IF Cardinality(K) > 1 THEN From(w, K) ELSE <<>>)
      /\ actualBlock' = b /\ phase2I' = b
      /\ actualBlock \in Nat /\ passed > actualBlock
  <2>1. actualBlock \in 0 .. numToleranceLevels - 2 /\ numToleranceLevels \in Nat
    BY <1>1, Parameters DEF SkipLevel, LevelIsLate
  <2>2. actualBlock \in Nat
    BY <2>1
  <2> QED
    BY <1>2, <1>3, <2>2 DEF SkipLevel, Resume, LevelIsLate
<1>5. PICK a \in Nat, p \in Nat : a = actualBlock /\ p = passed /\ b = a + 1 /\ p > a
  BY <1>1, <1>3, <1>4
<1>6. K \in SUBSET selectedChunks
  BY <1>2, KeptIsEligible
<1>7. IsTable(arr) /\ DOMAIN arr = K
  BY <1>1, <1>2, <1>6, PartIsTable
<1>8. K \in SUBSET Nat /\ IsFiniteSet(K)
  <2>1. K \in SUBSET (Nat \ {0}) /\ IsFiniteSet(K)
    BY <1>1, <1>6, Eligible
  <2> QED
    BY <2>1
<1>9. UnderTest = {} /\ UnderTest' = {} /\ phase = 2
  BY <1>1, <1>4 DEF UnderTest, Types
<1>10. Even(arr, toCheckChunks', {}, 2, b, p)
  <2>1. CASE Cardinality(K) > 1
    <3>1. a \in Int /\ a <= a /\ p <= p
      OBVIOUS
    <3>2. Even(Restricted(K), toCheckChunks, UnderTest, phase, a, p)
      BY <1>5, <1>6, <3>1, DiscardIsEven
    <3>3. Even(arr, q, {}, 2, a, p)
      BY <1>2, <1>9, <3>2
    <3>4. q \in Seq(Nat \ {0})
      BY <1>1, <1>2 DEF Types
    <3>5. w \in Int
      <4>1. CASE q = <<>>
        BY <1>2, <4>1
      <4>2. CASE q # <<>>
        <5>1. Head(q) \in Nat \ {0}
          BY <3>4, <4>2
        <5> QED
          BY <1>2, <4>2, <5>1
      <4> QED
        BY <4>1, <4>2
    <3>6. Even(arr, From(w, DOMAIN arr), {}, 2, a + 1, p)
      BY <1>2, <1>5, <1>7, <1>8, <3>3, <3>4, <3>5, EvenSkip
    <3> QED
      BY <1>4, <1>5, <1>7, <2>1, <3>6
  <2>2. CASE ~(Cardinality(K) > 1)
    <3>1. \A c, d \in K : c = d
      BY <1>8, <2>2, AtMostOne
    <3>2. Even(arr, <<>>, {}, 2, b, p)
      BY <1>7, <3>1, EvenSingle
    <3> QED
      BY <1>4, <2>2, <3>2
  <2> QED
    BY <2>1, <2>2
<1>11. EvenNow'
  BY <1>4, <1>5, <1>9, <1>10 DEF EvenNow
<1>12. b >= b
  BY <1>5
<1> QED
  BY <1>1, <1>4, <1>11, <1>12 DEF EvenInv

\* A round is over in mode 0.
LEMMA Phase2RoundEven ==
    ASSUME SelectorInv, EvenInv, Phase2Round
    PROVE  EvenInv'
<1>1. Types /\ Measured /\ passed \in Nat /\ actualBlock \in Int
  BY DEF SelectorInv, EvenInv, Types
<1>2. PICK K, q, arr : K = Kept(tolerance) /\ q = FewestFirst(K) /\ arr = Restricted(K)
  OBVIOUS
<1>3. /\ pc = "phase2" /\ opt' = opt /\ phase' = phase /\ passed' = passed
      /\ toCheckChunks = <<>> /\ opt.mode = 0 /\ speedArr' = arr
      /\ \/ /\ Cardinality(K) > 1 /\ Return(q) /\ actualBlock' = phase2I
            /\ phase2I' = phase2I \/ phase2I' = phase2I + 1
         \/ /\ pc' = "finish" /\ toCheckChunks' = toCheckChunks
            /\ actualBlock' = actualBlock /\ phase2I' = phase2I
  BY <1>2 DEF Phase2Round, Advance
<1>4. PICK i \in Nat, p \in Nat, a \in Int : i = phase2I /\ p = passed /\ a = actualBlock /\ a <= i
  BY <1>1 DEF Types, EvenInv
<1>5. K \in SUBSET selectedChunks
  BY <1>2, KeptIsEligible
<1>6. IsTable(arr) /\ DOMAIN arr = K /\ \A c \in K : arr[c] = speedArr[c]
  BY <1>1, <1>2, <1>5, PartIsTable
<1>7. UnderTest = {} /\ phase = 2
  BY <1>1, <1>3 DEF UnderTest, Types
<1>8. Even(arr, <<>>, {}, 2, i, p)
  <2>1. Even(Restricted(K), toCheckChunks, UnderTest, phase, i, p)
    BY <1>4, <1>5, DiscardIsEven
  <2> QED
    BY <1>2, <1>3, <1>7, <2>1
<1>9. ASSUME Cardinality(K) > 1, Return(q), actualBlock' = phase2I,
             phase2I' = phase2I \/ phase2I' = phase2I + 1
      PROVE  EvenInv'
  <2>1. K \in SUBSET (Nat \ {0}) /\ IsFiniteSet(K) /\ K # {}
    BY <1>1, <1>5, <1>9, Eligible, SeveralIsSome
  <2>2. PICK w \in K : /\ q = From(w, K)
                       /\ \A c \in K : ntests(w) <= ntests(c)
                       /\ \A c \in K : ntests(c) = ntests(w) => w <= c
    BY <1>1, <1>2, <1>5, <2>1, FewestFirstIs
  <2>3. \A c \in K : Len(arr[w]) <= Len(arr[c]) /\ (Len(arr[c]) = Len(arr[w]) => w <= c)
    BY <1>6, <2>2 DEF ntests
  <2>4. Even(arr, q, {}, 2, i, p)
    BY <1>6, <1>8, <2>1, <2>2, <2>3, EvenRound
  <2>5. IsQueue(q, Nat \ {0}) /\ q # <<>>
    <3>1. IsQueue(q, K) /\ q # <<>>
      BY <1>1, <1>2, <1>5, <2>1, FewestFirstQueue
    <3> QED
      BY <2>1, <3>1, SeqMonotonic DEF IsQueue
  <2>6. IsTable(speedArr') /\ Even(speedArr', q, {}, phase', actualBlock', passed')
    BY <1>3, <1>4, <1>6, <1>7, <1>9, <2>4
  <2>7. EvenNow'
    BY <1>9, <2>5, <2>6, ReturnIsEven
  <2>8. passed' \in Nat /\ phase2I' >= actualBlock' /\ opt'.mode = 0
    BY <1>3, <1>4, <1>9
  <2> QED
    BY <2>7, <2>8 DEF EvenInv
<1>10. ASSUME pc' = "finish", toCheckChunks' = toCheckChunks,
              actualBlock' = actualBlock, phase2I' = phase2I
       PROVE  EvenInv'
  <2>1. a \in Int /\ a <= a
    OBVIOUS
  <2>2. Even(Restricted(K), toCheckChunks, UnderTest, phase, a, p)
    BY <1>4, <1>5, <2>1, DiscardIsEven
  <2>3. UnderTest' = UnderTest
    BY <1>7, <1>10 DEF UnderTest
  <2>4. EvenNow'
    BY <1>2, <1>3, <1>4, <1>10, <2>2, <2>3 DEF EvenNow
  <2>5. passed' \in Nat /\ phase2I' >= actualBlock' /\ opt'.mode = 0
    BY <1>3, <1>4, <1>10
  <2> QED
    BY <2>4, <2>5 DEF EvenInv
<1> QED
  BY <1>3, <1>9, <1>10

\* A round is over in the other modes, in which no level is late.
LEMMA FixedRoundEven ==
    ASSUME SelectorInv, EvenInv, FixedRound
    PROVE  EvenInv'
<1>1. Types /\ Measured /\ passed \in Nat /\ actualBlock = -1
  BY DEF SelectorInv, EvenInv, Types, FixedRound
<1>2. PICK K, q, arr : K = Left /\ q = Ascending(K) /\ arr = Restricted(K)
  OBVIOUS
<1>3. /\ pc = "phase2" /\ opt' = opt /\ phase' = phase /\ passed' = passed
      /\ toCheckChunks = <<>> /\ opt.mode # 0 /\ speedArr' = arr /\ actualBlock' = actualBlock
      /\ \/ Cardinality(K) > 1 /\ Return(q) /\ phase2I' = phase2I + 1
         \/ pc' = "finish" /\ toCheckChunks' = toCheckChunks /\ phase2I' = phase2I
  BY <1>2 DEF FixedRound
<1>4. PICK p \in Nat : p = passed
  BY <1>1
<1>5. K \in SUBSET selectedChunks
  <2>1. opt.mode \in 1 .. 3
    BY <1>1, <1>3, Parameters
  <2>2. K = Kept(tolerance) \/ K = selectedChunks \/ K = discardWorstChunk
    BY <1>2, <2>1 DEF Left
  <2> QED
    BY <2>2, KeptIsEligible
<1>6. IsTable(arr) /\ DOMAIN arr = K
  BY <1>1, <1>2, <1>5, PartIsTable
<1>7. UnderTest = {} /\ phase = 2 /\ phase2I \in Nat
  BY <1>1, <1>3 DEF UnderTest, Types
<1>8. Even(arr, <<>>, {}, 2, -1, p)
  <2>1. -1 \in Int /\ actualBlock <= -1 /\ passed <= p
    BY <1>1, <1>4
  <2>2. Even(Restricted(K), toCheckChunks, UnderTest, phase, -1, p)
    BY <1>5, <2>1, DiscardIsEven
  <2> QED
    BY <1>2, <1>3, <1>7, <2>2
<1>9. ASSUME Cardinality(K) > 1, Return(q), phase2I' = phase2I + 1
      PROVE  EvenInv'
  <2>1. K \in SUBSET (Nat \ {0}) /\ K \in SUBSET Int /\ IsFiniteSet(K) /\ K # {}
    BY <1>1, <1>5, <1>9, Eligible, SeveralIsSome
  <2>2. PICK m \in Nat : AllAlike(arr, <<>>, {}, 2, m)
    BY <1>8 DEF Even
  <2>3. AllAlike(arr, q, {}, 2, m + 1) /\ m + 1 \in Nat
    BY <1>2, <1>6, <2>1, <2>2, EvenAscending
  <2>4. Even(arr, q, {}, 2, -1, p)
    BY <2>3 DEF Even
  <2>5. IsQueue(q, Nat \ {0}) /\ q # <<>>
    <3>1. IsQueue(q, K) /\ q # <<>>
      BY <1>2, <2>1, AscendingQueue
    <3> QED
      BY <2>1, <3>1, SeqMonotonic DEF IsQueue
  <2>6. IsTable(speedArr') /\ Even(speedArr', q, {}, phase', actualBlock', passed')
    BY <1>1, <1>3, <1>4, <1>6, <1>7, <2>4
  <2>7. EvenNow'
    BY <1>9, <2>5, <2>6, ReturnIsEven
  <2>8. passed' \in Nat /\ phase2I' >= actualBlock' /\ actualBlock' = -1
    BY <1>1, <1>3, <1>7, <1>9
  <2> QED
    BY <2>7, <2>8 DEF EvenInv
<1>10. ASSUME pc' = "finish", toCheckChunks' = toCheckChunks, phase2I' = phase2I
       PROVE  EvenInv'
  <2>1. UnderTest' = {}
    BY <1>10 DEF UnderTest
  <2>2. EvenNow'
    BY <1>1, <1>3, <1>4, <1>7, <1>8, <1>10, <2>1 DEF EvenNow
  <2>3. passed' \in Nat /\ phase2I' >= actualBlock' /\ actualBlock' = -1
    BY <1>1, <1>3, <1>7, <1>10
  <2> QED
    BY <2>2, <2>3 DEF EvenInv
<1> QED
  BY <1>3, <1>9, <1>10

\* The last look at the scores, a test that fails, a call in phase 2, no step.
LEMMA OthersEven ==
    ASSUME SelectorInv, EvenInv, Finish \/ TestFails \/ CallPhase2 \/ UNCHANGED vars
    PROVE  EvenInv'
<1>1. Types /\ Measured /\ passed \in Nat /\ actualBlock \in Int
  BY DEF SelectorInv, EvenInv, Types
<1>2. PICK K : K = Kept(tolerance)
  OBVIOUS
<1>4. /\ toCheckChunks' = toCheckChunks /\ phase' = phase /\ actualBlock' = actualBlock
      /\ phase2I' = phase2I /\ opt' = opt
      /\ speedArr' = Restricted(K) \/ speedArr' = speedArr
      /\ Clock \/ passed' = passed
  BY <1>2 DEF Finish, TestFails, CallPhase2, InTime, vars
<1>5. UnderTest' = UnderTest
  BY DEF Finish, TestFails, CallPhase2, UnderTest, vars
<1>6. PICK a \in Int, p \in Nat : a = actualBlock /\ p = passed' /\ passed <= p
  BY <1>1, <1>4, ClockAdvances
<1>7. Even(speedArr', toCheckChunks, UnderTest, phase, a, p)
  <2>1. CASE speedArr' = Restricted(K)
    <3>1. K \in SUBSET selectedChunks
      BY <1>2, KeptIsEligible
    <3> QED
      BY <1>6, <2>1, <3>1, DiscardIsEven
  <2>2. CASE speedArr' = speedArr
    BY <1>6, <2>2, TimeIsEven
  <2> QED
    BY <1>4, <2>1, <2>2
<1>8. EvenNow'
  BY <1>4, <1>5, <1>6, <1>7 DEF EvenNow
<1> QED
  BY <1>4, <1>6, <1>8 DEF EvenInv

\* A test that succeeds.
LEMMA SetSpeedEven ==
    ASSUME SelectorInv, EvenInv, NEW s \in Speeds, setChunkSpeed(s)
    PROVE  EvenInv'
<1>1. Types /\ Measured /\ QueueSound /\ passed \in Nat /\ actualBlock \in Int
  BY DEF SelectorInv, EvenInv, Types
<1>2. /\ pc = "test" /\ pc' = "call" /\ opt' = opt /\ toCheckChunks' = toCheckChunks
      /\ phase' = phase /\ phase2I' = phase2I /\ actualBlock' = actualBlock /\ passed' = passed
      /\ speedArr' = [c \in selectedChunks \cup {checkNo} |->
                         LET was == IF c \in selectedChunks THEN speedArr[c] ELSE <<>>
                         IN  IF c = checkNo THEN Inserted(s, was) ELSE was]
  BY DEF setChunkSpeed
<1>3. PICK k, old, arr, brr : k = checkNo /\ old = speedArr[k] /\ arr = speedArr /\ brr = speedArr'
  OBVIOUS
<1>4. k \in DOMAIN arr /\ k \notin ToSet(toCheckChunks)
  BY <1>1, <1>2, <1>3 DEF QueueSound, selectedChunks
<1>5. /\ DOMAIN brr = DOMAIN arr /\ brr[k] = Inserted(s, old)
      /\ \A c \in DOMAIN arr : c # k => brr[c] = arr[c]
  BY <1>2, <1>3, <1>4 DEF selectedChunks
<1>6. old \in Seq(Speeds) /\ InOrder(old)
  BY <1>1, <1>3, <1>4 DEF Measured, selectedChunks
<1>7. Len(brr[k]) = Len(arr[k]) + 1
  <2>1. Len(Inserted(s, old)) = Len(old) + 1
    BY <1>1, <1>6, InsertedInOrder, Parameters
  <2> QED
    BY <1>3, <1>5, <2>1
<1>8. IsTable(arr)
  BY <1>1, <1>3, SpeedsAreTable
<1>9. UnderTest = {k} /\ UnderTest' = {}
  BY <1>2, <1>3 DEF UnderTest
<1>10. Even(arr, toCheckChunks, {k}, phase, actualBlock, passed)
  BY <1>3, <1>9 DEF EvenInv, EvenNow
<1>11. Even(brr, toCheckChunks, {}, phase, actualBlock, passed)
  BY <1>4, <1>5, <1>7, <1>8, <1>10, EvenTested
<1>12. EvenNow'
  BY <1>2, <1>3, <1>9, <1>11 DEF EvenNow
<1> QED
  BY <1>2, <1>12 DEF EvenInv

\* At the beginning no chunk has been tested, and all wait.
LEMMA EvenStarts ==
    ASSUME Init
    PROVE  EvenInv
<1>1. Types /\ Measured
  BY SelectorStarts DEF SelectorInv
<1>2. PICK H, q : H = historyOfChunks /\ q = Ascending(H)
  OBVIOUS
<1>3. /\ speedArr = [c \in H |-> <<>>] /\ toCheckChunks = q /\ pc = "call" /\ phase = 1
      /\ phase2I = 0 /\ actualBlock = -1 /\ passed = 0
  BY <1>2 DEF Init
<1>4. ToSet(q) = H
  <2>1. H \in SUBSET Int /\ IsFiniteSet(H)
    BY <1>1, <1>2 DEF Types
  <2> QED
    BY <1>2, <2>1, AscendingQueue
<1>5. \A c \in DOMAIN speedArr : Rank(speedArr, q, {}, c) = 1
  <2> SUFFICES ASSUME NEW c \in DOMAIN speedArr
               PROVE  Rank(speedArr, q, {}, c) = 1
    OBVIOUS
  <2>1. c \in H /\ Len(speedArr[c]) = 0
    BY <1>3
  <2>2. Waits(q, {}, c)
    BY <1>4, <2>1 DEF Waits
  <2> QED
    BY <2>1, <2>2 DEF Rank
<1>6. AllAlike(speedArr, q, {}, 1, 1)
  BY <1>5 DEF AllAlike
<1>7. UnderTest = {}
  BY <1>3 DEF UnderTest
<1>8. EvenNow
  BY <1>3, <1>6, <1>7 DEF EvenNow, Even
<1> QED
  BY <1>3, <1>8 DEF EvenInv

\* Every step keeps the tests even.
LEMMA EvenStays ==
    ASSUME SelectorInv, EvenInv, [Next]_vars
    PROVE  EvenInv'
<1>1. CASE CallTimeout
  BY <1>1, CallTimeoutEven
<1>2. CASE CallQueued \/ Phase2Queued
  BY <1>2, QueuedEven
<1>3. CASE CallExplore
  BY <1>3, CallExploreEven
<1>4. CASE SkipLevel
  BY <1>4, SkipLevelEven
<1>5. CASE Phase2Round
  BY <1>5, Phase2RoundEven
<1>6. CASE FixedRound
  BY <1>6, FixedRoundEven
<1>7. CASE Finish \/ TestFails \/ CallPhase2 \/ UNCHANGED vars
  BY <1>7, OthersEven
<1>8. CASE \E s \in Speeds : setChunkSpeed(s)
  BY <1>8, SetSpeedEven
<1> QED
  BY <1>1, <1>2, <1>3, <1>4, <1>5, <1>6, <1>7, <1>8 DEF Next, Step, Over

\* TestsEven, for any options, preset of levels, chunks and speeds, and however
\* often a level is late: eligible chunks are compared after as many tests each,
\* give or take one, or one for each deadline that has passed.
THEOREM TestsAreEven == Spec => []TestsEven
<1>1. Init => EvenInv
  BY EvenStarts
<1>2. SelectorInv /\ EvenInv /\ [Next]_vars => EvenInv'
  BY EvenStays
<1>3. SelectorInv /\ EvenInv => TestsEven
  <2> SUFFICES ASSUME SelectorInv, EvenInv, NEW c \in selectedChunks, NEW d \in selectedChunks
               PROVE  ntests(c) <= ntests(d) + Max({1, passed})
    BY DEF TestsEven
  <2>1. PICK p \in Nat : p = passed
    BY DEF EvenInv
  <2>2. Max({1, p}) = IF p >= 1 THEN p ELSE 1
    <3>1. Max({1, p}) = IF 1 >= p THEN 1 ELSE p
      BY LargerOf
    <3> QED
      BY <3>1
  <2>3. IsTable(speedArr) /\ actualBlock \in Int
    BY SpeedsAreTable DEF SelectorInv, Types
  <2>4. Even(speedArr, toCheckChunks, UnderTest, phase, actualBlock, p)
    BY <2>1 DEF EvenInv, EvenNow
  <2>5. Len(speedArr[c]) <= Len(speedArr[d]) + (IF p >= 1 THEN p ELSE 1)
    BY <2>3, <2>4, EvenEnough DEF selectedChunks
  <2> QED
    BY <2>1, <2>2, <2>5 DEF ntests
<1> QED
  BY <1>1, <1>2, <1>3, SelectorInductive, PTL DEF Spec

-----------------------------------------------------------------------------
(* How many rounds there are.                                              *)

\* The rounds a level of mode 0 may have, those of the levels before i, and
\* those that have begun in round j of level i.
Rounds(o, late) ==
    [l \in DOMAIN o.preset |->
        IF late /\ l > 1 THEN Max({2, o.preset[l]}) ELSE o.preset[l]]
Through(f, i) == SumFunctionOnSet(f, 1 .. i)
Begun(o, late, i, j) ==
    IF o.mode # 0 THEN i ELSE Through(Rounds(o, late), i) + j

\* Where the selector may be: a level that has begun is not over.
AtRound(o, late, ph, a, i, j) ==
    /\ i \in Nat /\ j \in Nat
    /\ ph = 1 => i = 0 /\ j = 0
    /\ o.mode # 0 => i <= o.rounds
    /\ o.mode = 0 =>
           /\ i <= Len(o.preset) /\ a < Len(o.preset)
           /\ (i = a /\ j >= 1) \/ (i = a + 1 /\ j = 0)
           /\ i < Len(o.preset) => j < Rounds(o, late)[i + 1]

\* No chunk will have more than n tests when the round is over and, unless a level
\* has been late, all will have n.
Ranked(arr, q, u, late, n) ==
    \A c \in DOMAIN arr :
        /\ Rank(arr, q, u, c) <= n
        /\ ~late => Rank(arr, q, u, c) = n

\* A deadline has passed.
Late == passed > 0

\* All rounds are over.
AllBegun ==
    toCheckChunks = <<>> /\ Begun(opt, Late, phase2I, phase2J) = Promised(Late)

\* The tests of every chunk are those of the rounds that have begun, after the one
\* of phase 1, and when the selector stops without a deadline it is because all
\* rounds are over or one chunk is left.
RoundInv ==
    /\ AtRound(opt, Late, phase, actualBlock, phase2I, phase2J)
    /\ Ranked(speedArr, toCheckChunks, UnderTest, Late, 1 + Begun(opt, Late, phase2I, phase2J))
    /\ pc \in {"finish", "done"} /\ ~Late =>
           ~(Cardinality(selectedChunks) > 1) \/ AllBegun

\* Each level has a round, as many as its preset, and two if it may be entered late.
LEMMA RoundsAre ==
    ASSUME Types, NEW late \in BOOLEAN
    PROVE  /\ Len(opt.preset) \in Nat /\ Len(opt.preset) >= 1
           /\ DOMAIN Rounds(opt, late) = 1 .. Len(opt.preset)
           /\ \A l \in 1 .. Len(opt.preset) :
                  /\ Rounds(opt, late)[l] \in Nat \ {0} /\ opt.preset[l] \in Nat \ {0}
                  /\ opt.preset[l] <= Rounds(opt, late)[l]
                  /\ ~late => Rounds(opt, late)[l] = opt.preset[l]
                  /\ late /\ l > 1 => Rounds(opt, late)[l] >= 2
<1>1. PICK r, f : r = opt.preset /\ f = Rounds(opt, late)
  OBVIOUS
<1>2. r \in Seq(Nat \ {0}) /\ r # <<>>
  <2>1. opt \in OptionType
    BY SelectorAssumption DEF Types
  <2> QED
    BY <1>1, <2>1 DEF OptionType
<1>3. PICK n \in Nat : n = Len(r) /\ n >= 1 /\ DOMAIN r = 1 .. n
  BY <1>2
<1>4. /\ DOMAIN f = 1 .. n
      /\ \A l \in 1 .. n : f[l] = IF late /\ l > 1 THEN Max({2, r[l]}) ELSE r[l]
  BY <1>1, <1>3 DEF Rounds
<1>5. ASSUME NEW l \in 1 .. n
      PROVE  /\ f[l] \in Nat \ {0} /\ r[l] \in Nat \ {0} /\ r[l] <= f[l]
             /\ ~late => f[l] = r[l]
             /\ late /\ l > 1 => f[l] >= 2
  <2>1. PICK x \in Nat \ {0} : x = r[l]
    BY <1>2, <1>3
  <2>2. Max({2, x}) = IF 2 >= x THEN 2 ELSE x
    BY LargerOf
  <2>3. f[l] = IF late /\ l > 1 THEN (IF 2 >= x THEN 2 ELSE x) ELSE x
    BY <1>4, <2>1, <2>2
  <2> QED
    BY <2>1, <2>3
<1> QED
  BY <1>1, <1>3, <1>4, <1>5

\* The rounds of the first levels.
LEMMA ThroughGrows ==
    ASSUME NEW n \in Nat, NEW f, \A l \in 1 .. n : f[l] \in Nat, NEW i \in 0 .. n
    PROVE  /\ Through(f, 0) = 0 /\ Through(f, i) \in Nat /\ Through(f, i) <= Through(f, n)
           /\ i < n => Through(f, i + 1) = Through(f, i) + f[i + 1]
<1>1. Through(f, 0) = 0
  <2>1. 1 .. 0 = {}
    OBVIOUS
  <2> QED
    BY <2>1, SumOnEmpty DEF Through
<1>2. 1 .. i \in SUBSET (1 .. n) /\ IsFiniteSet(1 .. n) /\ IsFiniteSet(1 .. i)
  BY FS_Interval
<1>3. Through(f, i) \in Nat
  <2>1. \A l \in 1 .. i : f[l] \in Nat
    BY <1>2
  <2> QED
    BY <1>2, <2>1, SumOnNat DEF Through
<1>4. Through(f, i) <= Through(f, n)
  BY <1>2, SumOnPart DEF Through
<1>5. ASSUME i < n
      PROVE  Through(f, i + 1) = Through(f, i) + f[i + 1]
  <2>1. PICK k \in 1 .. n : k = i + 1
    BY <1>5
  <2>2. IsFiniteSet(1 .. k) /\ k \in 1 .. k /\ (1 .. k) \ {k} = 1 .. i
    BY <2>1, FS_Interval
  <2>3. \A l \in 1 .. k : f[l] \in Int
    BY <2>1
  <2>4. Through(f, k) = f[k] + Through(f, i)
    <3>1. SumFunctionOnSet(f, 1 .. k) = f[k] + SumFunctionOnSet(f, (1 .. k) \ {k})
      BY <2>2, <2>3, SumOnRemove
    <3> QED
      BY <2>2, <3>1 DEF Through
  <2>5. f[k] \in Nat
    BY <2>1
  <2> QED
    BY <1>3, <2>1, <2>4, <2>5
<1> QED
  BY <1>1, <1>3, <1>4, <1>5

\* The promise of mode 0 is the sum of the rounds of all levels.
LEMMA PromisedIs ==
    ASSUME Types, NEW late \in BOOLEAN
    PROVE  Promised(late) = IF opt.mode # 0 THEN opt.rounds
                                            ELSE Through(Rounds(opt, late), Len(opt.preset))
<1>1. PICK f : f = Rounds(opt, late)
  OBVIOUS
<1>2. DOMAIN f = 1 .. Len(opt.preset)
  BY <1>1, RoundsAre
<1>3. SumFunction(f) = Through(f, Len(opt.preset))
  BY <1>2 DEF SumFunction, Through
<1>4. Promised(late) = IF opt.mode # 0 THEN opt.rounds ELSE SumFunction(f)
  BY <1>1 DEF Promised, Rounds
<1> QED
  BY <1>1, <1>3, <1>4

\* At first no round has begun.
LEMMA NoneBegun ==
    ASSUME NEW o, NEW late
    PROVE  Begun(o, late, 0, 0) = 0
<1>1. Through(Rounds(o, late), 0) = 0
  <2>1. 1 .. 0 = {}
    OBVIOUS
  <2> QED
    BY <2>1, SumOnEmpty DEF Through
<1> QED
  BY <1>1 DEF Begun

\* No more rounds begin than are promised, and all have when the levels are over.
LEMMA BegunEnds ==
    ASSUME Types, NEW late \in BOOLEAN, NEW ph, NEW a \in Int, NEW i, NEW j,
           AtRound(opt, late, ph, a, i, j)
    PROVE  /\ Begun(opt, late, i, j) \in Nat /\ Promised(late) \in Nat
           /\ Begun(opt, late, i, j) <= Promised(late)
           /\ opt.mode = 0 /\ ~(i < Len(opt.preset)) => Begun(opt, late, i, j) = Promised(late)
           /\ opt.mode # 0 /\ ~(i < opt.rounds) => Begun(opt, late, i, j) = Promised(late)
<1>1. i \in Nat /\ j \in Nat
  BY DEF AtRound
<1>2. CASE opt.mode # 0
  <2>1. PICK r \in Nat : r = opt.rounds
    BY Parameters
  <2>2. Promised(late) = r /\ Begun(opt, late, i, j) = i /\ i <= r
    BY <1>2, <2>1, PromisedIs DEF Begun, AtRound
  <2> QED
    BY <1>1, <1>2, <2>1, <2>2
<1>3. CASE opt.mode = 0
  <2>1. PICK f, n : f = Rounds(opt, late) /\ n = Len(opt.preset)
    OBVIOUS
  <2>2. n \in Nat /\ \A l \in 1 .. n : f[l] \in Nat
    BY <2>1, RoundsAre
  <2>3. /\ i \in 0 .. n /\ a < n /\ (i = a \/ (i = a + 1 /\ j = 0))
        /\ i < n => j < f[i + 1]
    BY <1>1, <1>3, <2>1, <2>2 DEF AtRound
  <2>4. /\ Promised(late) = Through(f, n) /\ Begun(opt, late, i, j) = Through(f, i) + j
    BY <1>3, <2>1, PromisedIs DEF Begun
  <2>5. /\ Through(f, i) \in Nat /\ Through(f, n) \in Nat /\ Through(f, i) <= Through(f, n)
        /\ i < n => Through(f, i + 1) = Through(f, i) + f[i + 1]
    <3>1. n \in 0 .. n
      BY <2>2
    <3> QED
      BY <2>2, <2>3, <3>1, ThroughGrows
  <2>6. CASE i < n
    <3>1. PICK k \in 1 .. n : k = i + 1
      BY <2>2, <2>3, <2>6
    <3>2. Through(f, k) <= Through(f, n) /\ Through(f, k) \in Nat
      <4>1. k \in 0 .. n
        OBVIOUS
      <4> QED
        BY <2>2, <4>1, ThroughGrows
    <3>3. Through(f, k) = Through(f, i) + f[k] /\ j < f[k] /\ f[k] \in Nat
      BY <2>2, <2>3, <2>5, <2>6, <3>1
    <3> QED
      BY <1>1, <1>3, <2>1, <2>4, <2>5, <2>6, <3>2, <3>3, SMTT(30)
  <2>7. CASE ~(i < n)
    <3>1. i = n /\ j = 0
      BY <2>2, <2>3, <2>7
    <3> QED
      BY <1>3, <2>1, <2>4, <2>5, <3>1
  <2> QED
    BY <2>6, <2>7
<1> QED
  BY <1>2, <1>3

\* A deadline that passes only adds to what may have begun.
LEMMA BegunLater ==
    ASSUME Types, NEW ph, NEW a \in Int, NEW i, NEW j, AtRound(opt, FALSE, ph, a, i, j)
    PROVE  /\ AtRound(opt, TRUE, ph, a, i, j)
           /\ Begun(opt, FALSE, i, j) <= Begun(opt, TRUE, i, j)
<1>1. PICK f, g, n : f = Rounds(opt, FALSE) /\ g = Rounds(opt, TRUE) /\ n = Len(opt.preset)
  OBVIOUS
<1>2. /\ n \in Nat
      /\ \A l \in 1 .. n : f[l] = opt.preset[l] /\ f[l] \in Nat
  BY <1>1, RoundsAre
<1>3. \A l \in 1 .. n : opt.preset[l] <= g[l] /\ g[l] \in Nat
  BY <1>1, RoundsAre
<1>4. \A l \in 1 .. n : f[l] <= g[l]
  BY <1>2, <1>3
<1>5. i \in Nat /\ j \in Nat
  BY DEF AtRound
<1>6. AtRound(opt, TRUE, ph, a, i, j)
  <2>1. ASSUME opt.mode = 0, i < n
        PROVE  j < g[i + 1]
    <3>1. PICK k \in 1 .. n : k = i + 1
      BY <1>2, <1>5, <2>1
    <3>2. j < f[k]
      BY <1>1, <2>1, <3>1 DEF AtRound
    <3>3. f[k] \in Nat /\ g[k] \in Nat /\ f[k] <= g[k]
      BY <1>2, <1>3, <1>4
    <3> QED
      BY <1>5, <3>1, <3>2, <3>3
  <2> QED
    BY <1>1, <2>1 DEF AtRound
<1>7. CASE opt.mode # 0
  <2>1. Begun(opt, FALSE, i, j) = i /\ Begun(opt, TRUE, i, j) = i /\ i <= i
    BY <1>5, <1>7 DEF Begun
  <2> QED
    BY <1>6, <2>1, Zenon
<1>8. CASE opt.mode = 0
  <2>1. i \in 0 .. n
    BY <1>1, <1>2, <1>5, <1>8 DEF AtRound
  <2>2. Through(f, i) \in Nat /\ Through(g, i) \in Nat
    BY <1>2, <1>3, <2>1, ThroughGrows
  <2>3. Through(f, i) <= Through(g, i)
    <3>1. IsFiniteSet(1 .. i)
      BY <2>1, FS_Interval
    <3>2. \A l \in 1 .. i : f[l] \in Int /\ g[l] \in Int /\ f[l] <= g[l]
      BY <1>2, <1>3, <1>4, <2>1
    <3> QED
      BY <3>1, <3>2, SumOnLess DEF Through
  <2>4. Begun(opt, FALSE, i, j) = Through(f, i) + j /\ Begun(opt, TRUE, i, j) = Through(g, i) + j
    BY <1>1, <1>8 DEF Begun
  <2>5. Through(f, i) + j <= Through(g, i) + j
    BY <1>5, <2>2, <2>3
  <2> QED
    BY <1>6, <2>4, <2>5, Zenon
<1> QED
  BY <1>7, <1>8

\* The next round of a level, or the last one, begins.
LEMMA BegunAdvances ==
    ASSUME Types, NEW late \in BOOLEAN, NEW a \in Int, opt.mode = 0,
           AtRound(opt, late, 2, a, phase2I, phase2J), phase2I < Len(opt.preset),
           NEW i2, NEW j2, i2 = Advance[1], j2 = Advance[2]
    PROVE  /\ AtRound(opt, late, 2, phase2I, i2, j2)
           /\ Begun(opt, late, phase2I, phase2J) + 1 <= Begun(opt, late, i2, j2)
           /\ ~late => Begun(opt, late, phase2I, phase2J) + 1 = Begun(opt, late, i2, j2)
<1>1. PICK f, n, i, j : /\ f = Rounds(opt, late) /\ n = Len(opt.preset)
                        /\ i = phase2I /\ j = phase2J
  OBVIOUS
<1>2. /\ n \in Nat
      /\ \A l \in 1 .. n : /\ f[l] \in Nat \ {0} /\ opt.preset[l] \in Nat
                           /\ opt.preset[l] <= f[l] /\ (~late => f[l] = opt.preset[l])
  BY <1>1, RoundsAre
<1>3. /\ i \in Nat /\ j \in Nat /\ i < n /\ (i = a \/ j = 0) /\ j < f[i + 1] /\ i \in 0 .. n
  BY <1>1, <1>2 DEF AtRound
<1>4. PICK k \in 1 .. n : k = i + 1
  BY <1>2, <1>3
<1>5. PICK r \in Nat, s \in Nat : r = opt.preset[k] /\ s = f[k] /\ r <= s /\ (~late => r = s) /\ j < s
  BY <1>2, <1>3, <1>4
<1>6. Through(f, i) \in Nat /\ Through(f, k) = Through(f, i) + s
  <2>1. n \in Nat /\ i \in 0 .. n /\ i < n /\ \A l \in 1 .. n : f[l] \in Nat
    BY <1>2, <1>3
  <2>2. Through(f, i) \in Nat /\ Through(f, i + 1) = Through(f, i) + f[i + 1]
    BY <2>1, ThroughGrows
  <2> QED
    BY <1>4, <1>5, <2>2
<1>7. \A x, y : Begun(opt, late, x, y) = Through(f, x) + y
  BY <1>1 DEF Begun
<1>8. CASE j + 1 >= r
  <2>1. i2 = k /\ j2 = 0
    BY <1>1, <1>4, <1>5, <1>8 DEF Advance
  <2>2. k < n => 0 < f[k + 1]
    <3>1. ASSUME k < n
          PROVE  k + 1 \in 1 .. n
      BY <1>2, <3>1
    <3>2. ASSUME k < n
          PROVE  f[k + 1] \in Nat \ {0}
      BY <1>2, <3>1, <3>2
    <3> QED
      BY <3>2
  <2>3. AtRound(opt, late, 2, i, k, 0)
    BY <1>1, <1>2, <1>3, <1>4, <2>2 DEF AtRound
  <2>4. Begun(opt, late, i, j) = Through(f, i) + j /\ Begun(opt, late, k, 0) = Through(f, k) + 0
    BY <1>7
  <2>5. PICK x \in Nat : x = Through(f, i) /\ Through(f, k) = x + s
    BY <1>6
  <2>6. (x + j) + 1 <= (x + s) + 0 /\ (r = s => (x + j) + 1 = (x + s) + 0)
    <3>1. j \in Nat /\ j + 1 >= r /\ j < s
      BY <1>3, <1>5, <1>8
    <3> QED
      BY <3>1, <2>5, SMTT(30)
  <2>7. /\ Begun(opt, late, i, j) + 1 <= Begun(opt, late, k, 0)
        /\ r = s => Begun(opt, late, i, j) + 1 = Begun(opt, late, k, 0)
    BY <2>4, <2>5, <2>6
  <2> QED
    BY <1>1, <1>5, <2>1, <2>3, <2>7
<1>9. CASE ~(j + 1 >= r)
  <2>1. i2 = i /\ j2 = j + 1
    BY <1>1, <1>4, <1>5, <1>9 DEF Advance
  <2>2. j + 1 < f[i + 1] /\ j + 1 \in Nat /\ j + 1 >= 1
    BY <1>3, <1>4, <1>5, <1>9
  <2>3. AtRound(opt, late, 2, i, i, j + 1)
    BY <1>1, <1>2, <1>3, <2>2 DEF AtRound
  <2>4. /\ Begun(opt, late, i, j) = Through(f, i) + j
        /\ Begun(opt, late, i, j + 1) = Through(f, i) + (j + 1)
    BY <1>7
  <2>5. Begun(opt, late, i, j) + 1 = Begun(opt, late, i, j + 1) /\ Begun(opt, late, i, j + 1) \in Nat
    BY <1>3, <1>6, <2>4
  <2> QED
    BY <1>1, <2>1, <2>3, <2>5
<1> QED
  BY <1>3, <1>5, <1>8, <1>9

\* A level is late: the next one begins with its first round.
LEMMA BegunSkips ==
    ASSUME Types, NEW late \in BOOLEAN, late, NEW a \in Nat, opt.mode = 0, a + 1 < Len(opt.preset),
           NEW i, NEW j, AtRound(opt, late, 2, a, i, j)
    PROVE  /\ AtRound(opt, late, 2, a + 1, a + 1, 1)
           /\ Begun(opt, late, i, j) + 1 <= Begun(opt, late, a + 1, 1)
<1>1. PICK f, n : f = Rounds(opt, late) /\ n = Len(opt.preset)
  OBVIOUS
<1>2. n \in Nat /\ \A l \in 1 .. n : f[l] \in Nat /\ (l > 1 => f[l] >= 2)
  BY <1>1, RoundsAre
<1>3. PICK k \in 1 .. n : k = a + 1 /\ k < n
  BY <1>1, <1>2
<1>4. /\ i \in Nat /\ j \in Nat /\ (i = a \/ (i = k /\ j = 0)) /\ j < f[i + 1]
  BY <1>1, <1>2, <1>3 DEF AtRound
<1>5. AtRound(opt, late, 2, k, k, 1)
  <2>1. 1 < f[k + 1]
    <3>1. k + 1 \in 1 .. n /\ k + 1 > 1
      BY <1>2, <1>3
    <3> QED
      BY <1>2, <3>1
  <2>2. 1 < Rounds(opt, late)[k + 1]
    BY <1>1, <2>1
  <2>3. k \in Nat /\ 1 \in Nat /\ k <= Len(opt.preset) /\ k < Len(opt.preset) /\ 1 >= 1
    BY <1>1, <1>2, <1>3
  <2>4. 2 # 1
    OBVIOUS
  <2> QED
    BY <2>2, <2>3, <2>4, Zenon DEF AtRound
<1>6. /\ Begun(opt, late, i, j) = Through(f, i) + j
      /\ Begun(opt, late, k, 1) = Through(f, k) + 1
  BY <1>1 DEF Begun
<1>7. Through(f, a) \in Nat /\ Through(f, k) = Through(f, a) + f[k] /\ f[k] \in Nat
  <2>1. a \in 0 .. n /\ a < n /\ \A l \in 1 .. n : f[l] \in Nat
    BY <1>2, <1>3
  <2>2. Through(f, a) \in Nat /\ Through(f, a + 1) = Through(f, a) + f[a + 1]
    BY <1>2, <2>1, ThroughGrows
  <2> QED
    BY <1>3, <2>1, <2>2
<1>8. Through(f, i) + j + 1 <= Through(f, k) + 1
  <2>1. CASE i = a
    <3>1. j < f[k]
      BY <1>3, <1>4, <2>1
    <3> QED
      BY <1>4, <1>7, <2>1, <3>1
  <2>2. CASE i = k /\ j = 0
    BY <1>7, <2>2
  <2> QED
    BY <1>4, <2>1, <2>2
<1> QED
  BY <1>3, <1>5, <1>6, <1>8

\* Some chunks are discarded, and there is time for more tests.
LEMMA RankedPart ==
    ASSUME NEW arr, IsTable(arr), NEW brr, NEW q, NEW u, NEW late, NEW later,
           NEW n \in Nat, NEW m \in Nat, n <= m, ~later => ~late /\ n = m,
           DOMAIN brr \in SUBSET DOMAIN arr, \A c \in DOMAIN brr : brr[c] = arr[c],
           Ranked(arr, q, u, late, n)
    PROVE  Ranked(brr, q, u, later, m)
<1> SUFFICES ASSUME NEW c \in DOMAIN brr
             PROVE  Rank(brr, q, u, c) <= m /\ (~later => Rank(brr, q, u, c) = m)
  BY DEF Ranked
<1>1. c \in DOMAIN arr /\ Rank(brr, q, u, c) = Rank(arr, q, u, c)
  BY DEF Rank
<1>2. Rank(arr, q, u, c) <= n /\ (~late => Rank(arr, q, u, c) = n)
  BY <1>1 DEF Ranked
<1>3. Rank(arr, q, u, c) \in Nat
  BY <1>1 DEF Rank, IsTable
<1> QED
  BY <1>1, <1>2, <1>3

\* The next chunk of the queue is tested,
LEMMA RankedPop ==
    ASSUME NEW arr, NEW q, NEW S, IsQueue(q, S), q # <<>>, NEW late, NEW n,
           Ranked(arr, q, {}, late, n)
    PROVE  Ranked(arr, Tail(q), {Head(q)}, late, n)
<1>1. PICK r, h : r = Tail(q) /\ h = Head(q)
  OBVIOUS
<1>2. h \in ToSet(q) /\ ToSet(r) = ToSet(q) \ {h}
  BY <1>1, QueuePopped
<1>3. \A c : Waits(r, {h}, c) <=> Waits(q, {}, c)
  BY <1>2 DEF Waits
<1>4. \A c \in DOMAIN arr : Rank(arr, r, {h}, c) = Rank(arr, q, {}, c)
  BY <1>3 DEF Rank
<1>5. Ranked(arr, r, {h}, late, n)
  BY <1>4 DEF Ranked
<1> QED
  BY <1>1, <1>5

\* and has been tested.
LEMMA RankedTested ==
    ASSUME NEW arr, NEW brr, NEW q, NEW k, NEW late, NEW n,
           IsTable(arr), k \in DOMAIN arr, k \notin ToSet(q),
           DOMAIN brr = DOMAIN arr, Len(brr[k]) = Len(arr[k]) + 1,
           \A c \in DOMAIN arr : c # k => Len(brr[c]) = Len(arr[c]),
           Ranked(arr, q, {k}, late, n)
    PROVE  Ranked(brr, q, {}, late, n)
<1>1. \A c \in DOMAIN arr : Rank(brr, q, {}, c) = Rank(arr, q, {k}, c)
  <2> SUFFICES ASSUME NEW c \in DOMAIN arr
               PROVE  Rank(brr, q, {}, c) = Rank(arr, q, {k}, c)
    OBVIOUS
  <2>1. Len(arr[c]) \in Nat
    BY DEF IsTable
  <2>2. CASE c = k
    BY <2>1, <2>2 DEF Rank, Waits
  <2>3. CASE c # k
    BY <2>1, <2>3 DEF Rank, Waits
  <2> QED
    BY <2>2, <2>3
<1> QED
  BY <1>1 DEF Ranked

\* A round begins, in whatever order and for whichever chunks: when all have had
\* their tests, and all are to be tested, all will have one more.
LEMMA RankedRound ==
    ASSUME NEW arr, IsTable(arr), NEW q, NEW r, NEW late, NEW later,
           NEW n \in Nat, NEW m \in Nat, n + 1 <= m,
           ~later => ~late /\ q = <<>> /\ ToSet(r) = DOMAIN arr /\ n + 1 = m,
           Ranked(arr, q, {}, late, n)
    PROVE  Ranked(arr, r, {}, later, m)
<1> SUFFICES ASSUME NEW c \in DOMAIN arr
             PROVE  Rank(arr, r, {}, c) <= m /\ (~later => Rank(arr, r, {}, c) = m)
  BY DEF Ranked
<1>1. PICK x \in Nat : x = Len(arr[c])
  BY DEF IsTable
<1>2. /\ Rank(arr, q, {}, c) = x + (IF Waits(q, {}, c) THEN 1 ELSE 0)
      /\ Rank(arr, r, {}, c) = x + (IF Waits(r, {}, c) THEN 1 ELSE 0)
  BY <1>1 DEF Rank
<1>3. Rank(arr, q, {}, c) <= n /\ (~late => Rank(arr, q, {}, c) = n)
  BY DEF Ranked
<1>4. x <= n
  BY <1>2, <1>3
<1>5. Rank(arr, r, {}, c) <= m
  BY <1>2, <1>4
<1>6. ASSUME ~later
      PROVE  Rank(arr, r, {}, c) = m
  <2>1. Rank(arr, <<>>, {}, c) = x
    BY <1>1, NoneWaits
  <2>2. x = n
    BY <1>3, <1>6, <2>1
  <2>3. Waits(r, {}, c)
    BY <1>6 DEF Waits
  <2> QED
    BY <1>2, <1>6, <2>2, <2>3
<1> QED
  BY <1>5, <1>6

\* Time goes by, and some chunks are discarded.
LEMMA RoundLater ==
    ASSUME SelectorInv, EvenInv, RoundInv, NEW p \in Nat, passed <= p,
           NEW late \in BOOLEAN, late <=> p > 0, NEW brr,
           DOMAIN brr \in SUBSET selectedChunks, \A c \in DOMAIN brr : brr[c] = speedArr[c]
    PROVE  /\ AtRound(opt, late, phase, actualBlock, phase2I, phase2J)
           /\ Begun(opt, late, phase2I, phase2J) \in Nat
           /\ Ranked(brr, toCheckChunks, UnderTest, late, 1 + Begun(opt, late, phase2I, phase2J))
<1>1. Types /\ Measured /\ passed \in Nat /\ actualBlock \in Int
  BY DEF SelectorInv, EvenInv, Types
<1>2. PICK was \in BOOLEAN : was = Late
  <2>1. Late \in BOOLEAN
    BY DEF Late
  <2> QED
    BY <2>1, Zenon
<1>3. was => late
  BY <1>1, <1>2 DEF Late
<1>4. /\ AtRound(opt, was, phase, actualBlock, phase2I, phase2J)
      /\ Ranked(speedArr, toCheckChunks, UnderTest, was, 1 + Begun(opt, was, phase2I, phase2J))
  BY <1>2 DEF RoundInv
<1>5. IsTable(speedArr) /\ DOMAIN brr \in SUBSET DOMAIN speedArr
  BY <1>1, SpeedsAreTable DEF selectedChunks
<1>6. Begun(opt, was, phase2I, phase2J) \in Nat
  BY <1>1, <1>4, BegunEnds
<1>7. /\ AtRound(opt, late, phase, actualBlock, phase2I, phase2J)
      /\ Begun(opt, was, phase2I, phase2J) <= Begun(opt, late, phase2I, phase2J)
      /\ ~late => ~was /\ Begun(opt, was, phase2I, phase2J) = Begun(opt, late, phase2I, phase2J)
  <2>1. CASE late = was
    <3>1. Begun(opt, was, phase2I, phase2J) = Begun(opt, late, phase2I, phase2J)
      BY <2>1
    <3>2. AtRound(opt, late, phase, actualBlock, phase2I, phase2J)
      BY <1>4, <2>1
    <3> QED
      BY <1>6, <2>1, <3>1, <3>2
  <2>2. CASE was = FALSE /\ late = TRUE
    <3>1. AtRound(opt, FALSE, phase, actualBlock, phase2I, phase2J)
      BY <1>4, <2>2
    <3>2. /\ AtRound(opt, TRUE, phase, actualBlock, phase2I, phase2J)
          /\ Begun(opt, FALSE, phase2I, phase2J) <= Begun(opt, TRUE, phase2I, phase2J)
      BY <1>1, <3>1, BegunLater
    <3> QED
      BY <2>2, <3>2
  <2> QED
    BY <1>3, <2>1, <2>2
<1>8. Begun(opt, late, phase2I, phase2J) \in Nat
  BY <1>1, <1>7, BegunEnds
<1>9. PICK n \in Nat, m \in Nat : /\ n = 1 + Begun(opt, was, phase2I, phase2J)
                                  /\ m = 1 + Begun(opt, late, phase2I, phase2J)
  BY <1>6, <1>8
<1>10. n <= m /\ (~late => ~was /\ n = m)
  BY <1>6, <1>7, <1>8, <1>9
<1>11. Ranked(speedArr, toCheckChunks, UnderTest, was, n)
  BY <1>4, <1>9
<1>12. Ranked(brr, toCheckChunks, UnderTest, late, m)
  BY <1>5, <1>10, <1>11, RankedPart
<1> QED
  BY <1>7, <1>8, <1>9, <1>12

\* A chunk that is returned is under test.
LEMMA RoundReturns ==
    ASSUME NEW q, NEW S, IsQueue(q, S), q # <<>>, Return(q), NEW late \in BOOLEAN, late = Late',
           AtRound(opt', late, phase', actualBlock', phase2I', phase2J'),
           Ranked(speedArr', q, {}, late, 1 + Begun(opt', late, phase2I', phase2J'))
    PROVE  RoundInv'
<1>1. PICK arr, n : arr = speedArr' /\ n = 1 + Begun(opt', late, phase2I', phase2J')
  OBVIOUS
<1>2. Ranked(arr, Tail(q), {Head(q)}, late, n)
  BY <1>1, RankedPop
<1>3. toCheckChunks' = Tail(q) /\ UnderTest' = {Head(q)} /\ pc' = "test"
  BY DEF Return, UnderTest
<1> QED
  BY <1>1, <1>2, <1>3 DEF RoundInv

\* What an action knows of the time.
LEMMA LaterOrSame ==
    ASSUME Types, passed \in Nat, Clock \/ passed' = passed
    PROVE  \E p \in Nat, late \in BOOLEAN :
               p = passed' /\ passed <= p /\ late = Late' /\ (late <=> p > 0)
<1>1. PICK p \in Nat : p = passed' /\ passed <= p
  BY ClockAdvances
<1>2. Late' \in BOOLEAN /\ (Late' <=> p > 0)
  BY <1>1 DEF Late
<1> QED
  BY <1>1, <1>2, Zenon

\* A call that finds the time over ends all levels.
LEMMA CallTimeoutRound ==
    ASSUME SelectorInv, EvenInv, RoundInv, CallTimeout
    PROVE  RoundInv'
<1>1. Types /\ Measured /\ passed \in Nat
  BY DEF SelectorInv, EvenInv
<1>2. PICK K : K = discardWorstChunk
  OBVIOUS
<1>3. /\ pc = "call" /\ pc' = "finish" /\ toCheckChunks' = toCheckChunks /\ phase' = phase
      /\ actualBlock' = actualBlock /\ phase2I' = phase2I /\ phase2J' = phase2J /\ opt' = opt
      /\ Clock /\ passed' = Len(opt.preset)
      /\ speedArr' = Restricted(K) \/ speedArr' = speedArr
  BY <1>2 DEF CallTimeout, AllPassed, numToleranceLevels
<1>4. passed' \in Nat /\ passed <= passed' /\ passed' > 0
  <2>1. Len(opt.preset) \in Nat /\ Len(opt.preset) >= 1
    BY <1>1, RoundsAre
  <2> QED
    BY <1>1, <1>3, <2>1, ClockAdvances
<1>5. PICK p \in Nat, late \in BOOLEAN : p = passed' /\ late = Late' /\ (late <=> p > 0) /\ late
  BY <1>4 DEF Late
<1>6. PICK brr : brr = speedArr'
  OBVIOUS
<1>7. DOMAIN brr \in SUBSET selectedChunks /\ \A c \in DOMAIN brr : brr[c] = speedArr[c]
  <2>1. CASE brr = speedArr
    BY <2>1 DEF selectedChunks
  <2>2. CASE brr = Restricted(K)
    <3>1. K \in SUBSET selectedChunks
      BY <1>2, KeptIsEligible
    <3> QED
      BY <1>1, <2>2, <3>1, PartIsTable
  <2> QED
    BY <1>3, <1>6, <2>1, <2>2
<1>8. /\ AtRound(opt, late, phase, actualBlock, phase2I, phase2J)
      /\ Ranked(brr, toCheckChunks, UnderTest, late, 1 + Begun(opt, late, phase2I, phase2J))
  BY <1>4, <1>5, <1>7, RoundLater
<1>9. UnderTest' = UnderTest
  BY <1>3 DEF UnderTest
<1>10. Late'
  BY <1>5
<1> QED
  BY <1>3, <1>5, <1>6, <1>8, <1>9, <1>10 DEF RoundInv

\* A call that takes the next chunk of the queue.
LEMMA QueuedRound ==
    ASSUME SelectorInv, EvenInv, RoundInv, CallQueued \/ Phase2Queued
    PROVE  RoundInv'
<1>1. Types /\ Measured /\ QueueSound /\ passed \in Nat
  BY DEF SelectorInv, EvenInv
<1>2. PICK q : q = toCheckChunks
  OBVIOUS
<1>3. /\ pc \in {"call", "phase2"} /\ q # <<>> /\ Return(q)
      /\ phase' = phase /\ actualBlock' = actualBlock /\ phase2I' = phase2I /\ opt' = opt
      /\ phase2J' = phase2J /\ speedArr' = speedArr
      /\ Clock \/ passed' = passed
  BY <1>2 DEF CallQueued, Phase2Queued, InTime
<1>4. PICK p \in Nat, late \in BOOLEAN :
          p = passed' /\ passed <= p /\ late = Late' /\ (late <=> p > 0)
  BY <1>1, <1>3, LaterOrSame
<1>5. UnderTest = {}
  BY <1>3 DEF UnderTest
<1>6. DOMAIN speedArr \in SUBSET selectedChunks
  BY DEF selectedChunks
<1>7. /\ AtRound(opt, late, phase, actualBlock, phase2I, phase2J)
      /\ Ranked(speedArr, q, {}, late, 1 + Begun(opt, late, phase2I, phase2J))
  BY <1>2, <1>4, <1>5, <1>6, RoundLater
<1>8. IsQueue(q, Nat \ {0})
  BY <1>1, <1>2, <1>3 DEF Types, IsQueue, QueueSound
<1>9. /\ AtRound(opt', late, phase', actualBlock', phase2I', phase2J')
      /\ Ranked(speedArr', q, {}, late, 1 + Begun(opt', late, phase2I', phase2J'))
  BY <1>3, <1>7
<1> QED
  BY <1>3, <1>4, <1>8, <1>9, RoundReturns

\* Phase 1 is the first test of every chunk, before any round.
LEMMA CallExploreRound ==
    ASSUME SelectorInv, EvenInv, RoundInv, CallExplore
    PROVE  RoundInv'
<1>1. Types /\ Measured /\ passed \in Nat
  BY DEF SelectorInv, EvenInv
<1>2. PICK kept, new : kept = Kept(tolerance) /\ new = Neighbors(kept)
  OBVIOUS
<1>3. /\ pc = "call" /\ phase = 1 /\ toCheckChunks = <<>> /\ Clock
      /\ speedArr' = [c \in kept \cup ToSet(new) |-> IF c \in kept THEN speedArr[c] ELSE <<>>]
      /\ \/ new # <<>> /\ Return(new) /\ phase' = 1
         \/ new = <<>> /\ phase' = 2 /\ pc' = "phase2" /\ toCheckChunks' = toCheckChunks
      /\ opt' = opt /\ phase2I' = phase2I /\ phase2J' = phase2J /\ actualBlock' = actualBlock
  BY <1>2 DEF CallExplore, InTime
<1>4. PICK p \in Nat, late \in BOOLEAN :
          p = passed' /\ passed <= p /\ late = Late' /\ (late <=> p > 0)
  BY <1>1, <1>3, LaterOrSame
<1>5. kept \in SUBSET selectedChunks
  BY <1>2, KeptIsEligible
<1>6. IsQueue(new, Nat \ {0}) /\ \A c \in ToSet(new) : c \notin kept
  <2>1. IsQueue(new, Nat \ {0}) /\ ToSet(new) \cap historyOfChunks = {}
    BY <1>1, <1>2, <1>5, NeighborsAreNew
  <2> QED
    BY <1>1, <1>5, <2>1 DEF Types
<1>7. PICK arr, krr : arr = speedArr' /\ krr = Restricted(kept)
  OBVIOUS
<1>8. /\ IsTable(krr) /\ DOMAIN krr = kept /\ DOMAIN krr \in SUBSET selectedChunks
      /\ \A c \in kept : krr[c] = speedArr[c]
  BY <1>1, <1>5, <1>7, PartIsTable
<1>9. UnderTest = {} /\ UnderTest' = (IF pc' = "test" THEN {checkNo'} ELSE {})
  <2>1. pc' \in {"test", "phase2"}
    BY <1>3 DEF Return
  <2> QED
    BY <1>3, <2>1 DEF UnderTest
<1>10. /\ AtRound(opt, late, 1, actualBlock, phase2I, phase2J)
       /\ Begun(opt, late, phase2I, phase2J) \in Nat
       /\ Ranked(krr, <<>>, {}, late, 1 + Begun(opt, late, phase2I, phase2J))
  <2>1. \A c \in DOMAIN krr : krr[c] = speedArr[c]
    BY <1>8
  <2> QED
    BY <1>3, <1>4, <1>8, <1>9, <2>1, RoundLater
<1>11. AtRound(opt, late, 2, actualBlock, phase2I, phase2J)
  BY <1>10 DEF AtRound
<1>12. 1 + Begun(opt, late, phase2I, phase2J) = 1
  <2>1. phase2I = 0 /\ phase2J = 0
    BY <1>10 DEF AtRound
  <2>2. Begun(opt, late, phase2I, phase2J) = 0
    BY <2>1, NoneBegun
  <2> QED
    BY <2>2
<1>13. Ranked(arr, new, {}, late, 1)
  <2> SUFFICES ASSUME NEW c \in DOMAIN arr
               PROVE  Rank(arr, new, {}, c) <= 1 /\ (~late => Rank(arr, new, {}, c) = 1)
    BY DEF Ranked
  <2>1. CASE c \in kept
    <3>1. ~Waits(new, {}, c) /\ arr[c] = krr[c]
      BY <1>3, <1>6, <1>7, <1>8, <2>1 DEF Waits
    <3>2. Rank(krr, <<>>, {}, c) <= 1 /\ (~late => Rank(krr, <<>>, {}, c) = 1)
      BY <1>8, <1>10, <1>12, <2>1 DEF Ranked
    <3>3. Rank(krr, <<>>, {}, c) = Len(krr[c]) /\ Len(krr[c]) \in Nat
      BY <1>8, <2>1, NoneWaits DEF IsTable
    <3>4. Rank(arr, new, {}, c) = Len(krr[c])
      BY <3>1, <3>3 DEF Rank
    <3> QED
      BY <3>2, <3>3, <3>4
  <2>2. CASE ~(c \in kept)
    <3>1. c \in ToSet(new) /\ arr[c] = <<>>
      BY <1>3, <1>7, <2>2
    <3>2. Waits(new, {}, c) /\ Len(arr[c]) = 0
      BY <3>1 DEF Waits
    <3> QED
      BY <3>2 DEF Rank
  <2> QED
    BY <2>1, <2>2
<1>14. Ranked(arr, new, {}, late, 1 + Begun(opt, late, phase2I, phase2J))
  BY <1>12, <1>13
<1>15. CASE new # <<>> /\ Return(new) /\ phase' = 1
  <2>1. /\ AtRound(opt', late, phase', actualBlock', phase2I', phase2J')
        /\ Ranked(speedArr', new, {}, late, 1 + Begun(opt', late, phase2I', phase2J'))
    BY <1>3, <1>7, <1>10, <1>14, <1>15
  <2> QED
    BY <1>4, <1>6, <1>15, <2>1, RoundReturns
<1>16. CASE new = <<>> /\ phase' = 2 /\ pc' = "phase2" /\ toCheckChunks' = toCheckChunks
  <2>1. UnderTest' = {} /\ toCheckChunks' = new
    BY <1>3, <1>9, <1>16
  <2> QED
    BY <1>3, <1>4, <1>7, <1>11, <1>14, <1>16, <2>1 DEF RoundInv
<1> QED
  BY <1>3, <1>15, <1>16

\* A level that is late gives way to the first round of the next one.
LEMMA SkipLevelRound ==
    ASSUME SelectorInv, EvenInv, RoundInv, SkipLevel
    PROVE  RoundInv'
<1>1. Types /\ Measured /\ passed \in Nat
  BY DEF SelectorInv, EvenInv
<1>2. PICK K, arr, q, a : /\ K = Kept(tolerance) /\ arr = Restricted(K) /\ q = toCheckChunks
                          /\ a = actualBlock
  OBVIOUS
<1>3. PICK n \in Nat : n = Len(opt.preset)
  BY <1>1, RoundsAre
<1>4. /\ pc = "phase2" /\ pc' = pc /\ opt' = opt /\ phase' = phase /\ passed' = passed
      /\ opt.mode = 0 /\ speedArr' = arr
      /\ actualBlock' = a + 1 /\ phase2I' = a + 1 /\ phase2J' = 1
      /\ a \in 0 .. (n - 2) /\ passed > a
  BY <1>2, <1>3 DEF SkipLevel, LevelIsLate, numToleranceLevels
<1>5. PICK p \in Nat, late \in BOOLEAN :
          p = passed' /\ passed <= p /\ late = Late' /\ (late <=> p > 0)
  BY <1>1, <1>4, LaterOrSame
<1>6. late /\ a \in Nat /\ a + 1 < n
  BY <1>1, <1>3, <1>4, <1>5
<1>7. K \in SUBSET selectedChunks
  BY <1>2, KeptIsEligible
<1>8. /\ IsTable(arr) /\ DOMAIN arr \in SUBSET selectedChunks
      /\ \A c \in DOMAIN arr : arr[c] = speedArr[c]
  BY <1>1, <1>2, <1>7, PartIsTable
<1>9. UnderTest = {} /\ UnderTest' = {} /\ phase = 2
  BY <1>1, <1>4 DEF UnderTest, Types
<1>10. /\ AtRound(opt, late, 2, a, phase2I, phase2J)
       /\ Begun(opt, late, phase2I, phase2J) \in Nat
       /\ Ranked(arr, q, {}, late, 1 + Begun(opt, late, phase2I, phase2J))
  BY <1>2, <1>5, <1>8, <1>9, RoundLater
<1>11. /\ AtRound(opt, late, 2, a + 1, a + 1, 1)
       /\ Begun(opt, late, phase2I, phase2J) + 1 <= Begun(opt, late, a + 1, 1)
  BY <1>1, <1>3, <1>4, <1>6, <1>10, BegunSkips
<1>12. Begun(opt, late, a + 1, 1) \in Nat
  <2>1. PICK b \in Int : b = a + 1
    BY <1>6
  <2> QED
    BY <1>1, <1>11, <2>1, BegunEnds
<1>13. PICK r : r = toCheckChunks'
  OBVIOUS
<1>14. PICK x \in Nat, y \in Nat : /\ x = 1 + Begun(opt, late, phase2I, phase2J)
                                   /\ y = 1 + Begun(opt, late, a + 1, 1) /\ x + 1 <= y
  BY <1>10, <1>11, <1>12
<1>15. Ranked(arr, q, {}, late, x)
  BY <1>10, <1>14
<1>16. Ranked(arr, r, {}, late, y)
  <2>1. IsTable(arr) /\ x + 1 <= y
    BY <1>8, <1>14
  <2>2. ~late => ~late /\ q = <<>> /\ ToSet(r) = DOMAIN arr /\ x + 1 = y
    BY <1>6
  <2> QED
    BY <1>15, <2>1, <2>2, RankedRound, ZenonT(40)
<1> QED
  BY <1>4, <1>5, <1>9, <1>11, <1>13, <1>14, <1>16 DEF RoundInv

\* A round is over in mode 0.
LEMMA Phase2RoundRound ==
    ASSUME SelectorInv, EvenInv, RoundInv, Phase2Round
    PROVE  RoundInv'
<1>1. Types /\ Measured /\ passed \in Nat /\ actualBlock \in Int
  BY DEF SelectorInv, EvenInv, Types
<1>2. PICK K, q, arr, i2, j2 : /\ K = Kept(tolerance) /\ q = FewestFirst(K) /\ arr = Restricted(K)
                               /\ i2 = Advance[1] /\ j2 = Advance[2]
  OBVIOUS
<1>3. /\ pc = "phase2" /\ opt' = opt /\ phase' = phase /\ passed' = passed
      /\ toCheckChunks = <<>> /\ opt.mode = 0 /\ speedArr' = arr
      /\ \/ /\ Cardinality(K) > 1 /\ phase2I < Len(opt.preset)
            /\ Return(q) /\ actualBlock' = phase2I /\ phase2I' = i2 /\ phase2J' = j2
         \/ /\ ~(Cardinality(K) > 1) \/ ~(phase2I < Len(opt.preset))
            /\ pc' = "finish" /\ toCheckChunks' = toCheckChunks
            /\ actualBlock' = actualBlock /\ phase2I' = phase2I /\ phase2J' = phase2J
  BY <1>2 DEF Phase2Round, numToleranceLevels
<1>4. PICK p \in Nat, late \in BOOLEAN :
          p = passed' /\ passed <= p /\ late = Late' /\ (late <=> p > 0)
  BY <1>1, <1>3, LaterOrSame
<1>5. K \in SUBSET selectedChunks
  BY <1>2, KeptIsEligible
<1>6. /\ IsTable(arr) /\ DOMAIN arr = K /\ DOMAIN arr \in SUBSET selectedChunks
      /\ \A c \in DOMAIN arr : arr[c] = speedArr[c]
  BY <1>1, <1>2, <1>5, PartIsTable
<1>7. UnderTest = {} /\ phase = 2
  BY <1>1, <1>3 DEF UnderTest, Types
<1>8. /\ AtRound(opt, late, 2, actualBlock, phase2I, phase2J)
      /\ Begun(opt, late, phase2I, phase2J) \in Nat
      /\ Ranked(arr, <<>>, {}, late, 1 + Begun(opt, late, phase2I, phase2J))
  BY <1>3, <1>4, <1>6, <1>7, RoundLater
<1>9. ASSUME Cardinality(K) > 1, phase2I < Len(opt.preset), Return(q),
             actualBlock' = phase2I, phase2I' = i2, phase2J' = j2
      PROVE  RoundInv'
  <2>1. /\ AtRound(opt, late, 2, phase2I, i2, j2)
        /\ Begun(opt, late, phase2I, phase2J) + 1 <= Begun(opt, late, i2, j2)
        /\ ~late => Begun(opt, late, phase2I, phase2J) + 1 = Begun(opt, late, i2, j2)
    BY <1>1, <1>2, <1>3, <1>8, <1>9, BegunAdvances
  <2>2. Begun(opt, late, i2, j2) \in Nat
    <3>1. phase2I \in Int
      BY <1>1 DEF Types
    <3> QED
      BY <1>1, <2>1, <3>1, BegunEnds
  <2>3. PICK x \in Nat, y \in Nat : /\ x = 1 + Begun(opt, late, phase2I, phase2J)
                                    /\ y = 1 + Begun(opt, late, i2, j2)
                                    /\ x + 1 <= y /\ (~late => x + 1 = y)
    BY <1>8, <2>1, <2>2
  <2>4. K # {}
    BY <1>9, SeveralIsSome
  <2>5. IsQueue(q, K) /\ ToSet(q) = K /\ q # <<>>
    BY <1>1, <1>2, <1>5, <2>4, FewestFirstQueue
  <2>6. Ranked(arr, <<>>, {}, late, x)
    BY <1>8, <2>3
  <2>7. Ranked(arr, q, {}, late, y)
    <3>1. PICK e : e = <<>>
      OBVIOUS
    <3>2. ~late => ~late /\ e = <<>> /\ ToSet(q) = DOMAIN arr /\ x + 1 = y
      BY <1>6, <2>3, <2>5, <3>1
    <3>3. Ranked(arr, e, {}, late, x)
      BY <2>6, <3>1
    <3>4. IsTable(arr) /\ x + 1 <= y
      BY <1>6, <2>3
    <3> QED
      BY <3>2, <3>3, <3>4, RankedRound, ZenonT(40)
  <2>8. /\ AtRound(opt', late, phase', actualBlock', phase2I', phase2J')
        /\ Ranked(speedArr', q, {}, late, 1 + Begun(opt', late, phase2I', phase2J'))
    BY <1>3, <1>7, <1>9, <2>1, <2>3, <2>7
  <2> QED
    BY <1>4, <1>9, <2>5, <2>8, RoundReturns
<1>10. ASSUME ~(Cardinality(K) > 1) \/ ~(phase2I < Len(opt.preset)), pc' = "finish",
              toCheckChunks' = toCheckChunks,
              actualBlock' = actualBlock, phase2I' = phase2I, phase2J' = phase2J
       PROVE  RoundInv'
  <2>1. ~(phase2I < Len(opt.preset)) => Begun(opt, late, phase2I, phase2J) = Promised(late)
    BY <1>1, <1>3, <1>8, BegunEnds
  <2>2. Promised(late)' = Promised(late)
    BY <1>3 DEF Promised
  <2>3. UnderTest' = {} /\ selectedChunks' = K
    BY <1>3, <1>6, <1>10 DEF UnderTest, selectedChunks
  <2>4. AtRound(opt', late, phase', actualBlock', phase2I', phase2J')
    BY <1>3, <1>7, <1>8, <1>10
  <2>5. Ranked(speedArr', toCheckChunks', UnderTest', late, 1 + Begun(opt', late, phase2I', phase2J'))
    BY <1>3, <1>8, <1>10, <2>3
  <2>6. ~(Cardinality(selectedChunks') > 1) \/ AllBegun'
    BY <1>3, <1>4, <1>10, <2>1, <2>2, <2>3 DEF AllBegun
  <2> QED
    BY <1>4, <2>4, <2>5, <2>6 DEF RoundInv
<1> QED
  BY <1>3, <1>9, <1>10

\* A round is over in the modes with a fixed number of them.
LEMMA FixedRoundRound ==
    ASSUME SelectorInv, EvenInv, RoundInv, FixedRound
    PROVE  RoundInv'
<1>1. Types /\ Measured /\ passed \in Nat /\ actualBlock \in Int
  BY DEF SelectorInv, EvenInv, Types
<1>2. PICK K, q, arr : K = Left /\ q = Ascending(K) /\ arr = Restricted(K)
  OBVIOUS
<1>3. /\ pc = "phase2" /\ opt' = opt /\ phase' = phase /\ passed' = passed
      /\ toCheckChunks = <<>> /\ opt.mode # 0 /\ speedArr' = arr
      /\ actualBlock' = actualBlock /\ phase2J' = phase2J
      /\ \/ /\ Cardinality(K) > 1 /\ phase2I < opt.rounds
            /\ Return(q) /\ phase2I' = phase2I + 1
         \/ /\ ~(Cardinality(K) > 1) \/ ~(phase2I < opt.rounds)
            /\ pc' = "finish" /\ toCheckChunks' = toCheckChunks /\ phase2I' = phase2I
  BY <1>2 DEF FixedRound
<1>4. PICK p \in Nat, late \in BOOLEAN :
          p = passed' /\ passed <= p /\ late = Late' /\ (late <=> p > 0)
  BY <1>1, <1>3, LaterOrSame
<1>5. K \in SUBSET selectedChunks
  <2>1. opt.mode \in 1 .. 3
    BY <1>1, <1>3, Parameters
  <2>2. K = Kept(tolerance) \/ K = selectedChunks \/ K = discardWorstChunk
    BY <1>2, <2>1 DEF Left
  <2> QED
    BY <2>2, KeptIsEligible
<1>6. /\ IsTable(arr) /\ DOMAIN arr = K /\ DOMAIN arr \in SUBSET selectedChunks
      /\ \A c \in DOMAIN arr : arr[c] = speedArr[c]
  BY <1>1, <1>2, <1>5, PartIsTable
<1>7. UnderTest = {} /\ phase = 2
  BY <1>1, <1>3 DEF UnderTest, Types
<1>8. /\ AtRound(opt, late, 2, actualBlock, phase2I, phase2J)
      /\ Begun(opt, late, phase2I, phase2J) \in Nat
      /\ Ranked(arr, <<>>, {}, late, 1 + Begun(opt, late, phase2I, phase2J))
  BY <1>3, <1>4, <1>6, <1>7, RoundLater
<1>9. ASSUME Cardinality(K) > 1, phase2I < opt.rounds, Return(q), phase2I' = phase2I + 1
      PROVE  RoundInv'
  <2>1. phase2I \in Nat /\ phase2J \in Nat /\ opt.rounds \in Nat
    BY <1>1, <1>8, Parameters DEF AtRound
  <2>2. phase2I + 1 \in Nat /\ phase2I + 1 <= opt.rounds /\ 2 # 1
    BY <1>9, <2>1
  <2>3. AtRound(opt, late, 2, actualBlock, phase2I + 1, phase2J)
    BY <1>3, <2>1, <2>2, Zenon DEF AtRound
  <2>4. /\ Begun(opt, late, phase2I, phase2J) = phase2I
        /\ Begun(opt, late, phase2I + 1, phase2J) = phase2I + 1
    BY <1>3 DEF Begun
  <2>5. PICK x \in Nat, y \in Nat : /\ x = 1 + Begun(opt, late, phase2I, phase2J)
                                    /\ y = 1 + Begun(opt, late, phase2I + 1, phase2J)
                                    /\ x + 1 = y /\ x + 1 <= y
    BY <2>1, <2>4
  <2>6. K \in SUBSET Int /\ IsFiniteSet(K) /\ K # {}
    BY <1>1, <1>5, <1>9, Eligible, SeveralIsSome
  <2>7. IsQueue(q, K) /\ ToSet(q) = K /\ q # <<>>
    BY <1>2, <2>6, AscendingQueue
  <2>8. Ranked(arr, q, {}, late, y)
    <3>1. PICK e : e = <<>>
      OBVIOUS
    <3>2. ~late => ~late /\ e = <<>> /\ ToSet(q) = DOMAIN arr /\ x + 1 = y
      BY <1>6, <2>5, <2>7, <3>1
    <3>3. Ranked(arr, e, {}, late, x)
      BY <1>8, <2>5, <3>1
    <3>4. IsTable(arr) /\ x + 1 <= y
      BY <1>6, <2>5
    <3> QED
      BY <3>2, <3>3, <3>4, RankedRound, ZenonT(40)
  <2>9. /\ AtRound(opt', late, phase', actualBlock', phase2I', phase2J')
        /\ Ranked(speedArr', q, {}, late, 1 + Begun(opt', late, phase2I', phase2J'))
    BY <1>3, <1>7, <1>9, <2>3, <2>5, <2>8
  <2> QED
    BY <1>4, <1>9, <2>7, <2>9, RoundReturns
<1>10. ASSUME ~(Cardinality(K) > 1) \/ ~(phase2I < opt.rounds), pc' = "finish",
              toCheckChunks' = toCheckChunks, phase2I' = phase2I
       PROVE  RoundInv'
  <2>1. ~(phase2I < opt.rounds) => Begun(opt, late, phase2I, phase2J) = Promised(late)
    BY <1>1, <1>3, <1>8, BegunEnds
  <2>2. Promised(late)' = Promised(late)
    BY <1>3 DEF Promised
  <2>3. UnderTest' = {} /\ selectedChunks' = K
    BY <1>3, <1>6, <1>10 DEF UnderTest, selectedChunks
  <2>4. AtRound(opt', late, phase', actualBlock', phase2I', phase2J')
    BY <1>3, <1>7, <1>8, <1>10
  <2>5. Ranked(speedArr', toCheckChunks', UnderTest', late, 1 + Begun(opt', late, phase2I', phase2J'))
    BY <1>3, <1>8, <1>10, <2>3
  <2>6. ~(Cardinality(selectedChunks') > 1) \/ AllBegun'
    BY <1>3, <1>4, <1>10, <2>1, <2>2, <2>3 DEF AllBegun
  <2> QED
    BY <1>4, <2>4, <2>5, <2>6 DEF RoundInv
<1> QED
  BY <1>3, <1>9, <1>10

\* The last look at the scores, a test that fails, a call in phase 2, no step.
LEMMA OthersRound ==
    ASSUME SelectorInv, EvenInv, RoundInv, Finish \/ TestFails \/ CallPhase2 \/ UNCHANGED vars
    PROVE  RoundInv'
<1>1. Types /\ Measured /\ passed \in Nat
  BY DEF SelectorInv, EvenInv
<1>2. PICK K, brr : K = Kept(tolerance) /\ brr = speedArr'
  OBVIOUS
<1>3. /\ toCheckChunks' = toCheckChunks /\ phase' = phase /\ actualBlock' = actualBlock
      /\ phase2I' = phase2I /\ phase2J' = phase2J /\ opt' = opt
      /\ brr = Restricted(K) \/ brr = speedArr
      /\ Clock \/ passed' = passed
      /\ pc' \in {"finish", "done"} => pc \in {"finish", "done"} /\ passed' = passed
  BY <1>2 DEF Finish, TestFails, CallPhase2, InTime, vars
<1>4. PICK p \in Nat, late \in BOOLEAN :
          p = passed' /\ passed <= p /\ late = Late' /\ (late <=> p > 0)
  BY <1>1, <1>3, LaterOrSame
<1>5. UnderTest' = UnderTest
  BY DEF Finish, TestFails, CallPhase2, UnderTest, vars
<1>6. DOMAIN brr \in SUBSET selectedChunks /\ \A c \in DOMAIN brr : brr[c] = speedArr[c]
  <2>1. CASE brr = speedArr
    BY <2>1 DEF selectedChunks
  <2>2. CASE brr = Restricted(K)
    <3>1. K \in SUBSET selectedChunks
      BY <1>2, KeptIsEligible
    <3> QED
      BY <1>1, <2>2, <3>1, PartIsTable
  <2> QED
    BY <1>3, <2>1, <2>2
<1>7. /\ AtRound(opt, late, phase, actualBlock, phase2I, phase2J)
      /\ Ranked(brr, toCheckChunks, UnderTest, late, 1 + Begun(opt, late, phase2I, phase2J))
  BY <1>4, <1>6, RoundLater
<1>8. ASSUME pc' \in {"finish", "done"}, ~late
      PROVE  ~(Cardinality(selectedChunks') > 1) \/ AllBegun'
  <2>1. pc \in {"finish", "done"} /\ Late = late
    BY <1>3, <1>4, <1>8 DEF Late
  <2>2. ~(Cardinality(selectedChunks) > 1) \/ AllBegun
    BY <1>8, <2>1 DEF RoundInv
  <2>3. CASE AllBegun
    <3>1. Promised(late)' = Promised(late)
      BY <1>3 DEF Promised
    <3>2. toCheckChunks = <<>> /\ Begun(opt, late, phase2I, phase2J) = Promised(late)
      BY <2>1, <2>3 DEF AllBegun
    <3> QED
      BY <1>3, <1>4, <3>1, <3>2 DEF AllBegun
  <2>4. CASE ~(Cardinality(selectedChunks) > 1)
    <3>1. selectedChunks' \in SUBSET selectedChunks
      BY <1>2, <1>6 DEF selectedChunks
    <3>2. IsFiniteSet(selectedChunks)
      BY <1>1, SpeedsAreTable
    <3>3. /\ Cardinality(selectedChunks') <= Cardinality(selectedChunks)
          /\ Cardinality(selectedChunks') \in Nat /\ Cardinality(selectedChunks) \in Nat
      BY <3>1, <3>2, FS_Subset, FS_CardinalityType
    <3> QED
      BY <2>4, <3>3
  <2> QED
    BY <2>2, <2>3, <2>4
<1> QED
  BY <1>2, <1>3, <1>4, <1>5, <1>7, <1>8 DEF RoundInv

\* A test that succeeds.
LEMMA SetSpeedRound ==
    ASSUME SelectorInv, EvenInv, RoundInv, NEW s \in Speeds, setChunkSpeed(s)
    PROVE  RoundInv'
<1>1. Types /\ Measured /\ QueueSound /\ passed \in Nat
  BY DEF SelectorInv, EvenInv
<1>2. /\ pc = "test" /\ pc' = "call" /\ opt' = opt /\ toCheckChunks' = toCheckChunks
      /\ phase' = phase /\ phase2I' = phase2I /\ phase2J' = phase2J
      /\ actualBlock' = actualBlock /\ passed' = passed
      /\ speedArr' = [c \in selectedChunks \cup {checkNo} |->
                         LET was == IF c \in selectedChunks THEN speedArr[c] ELSE <<>>
                         IN  IF c = checkNo THEN Inserted(s, was) ELSE was]
  BY DEF setChunkSpeed
<1>3. PICK k, old, arr, brr : k = checkNo /\ old = speedArr[k] /\ arr = speedArr /\ brr = speedArr'
  OBVIOUS
<1>4. k \in DOMAIN arr /\ k \notin ToSet(toCheckChunks)
  BY <1>1, <1>2, <1>3 DEF QueueSound, selectedChunks
<1>5. /\ DOMAIN brr = DOMAIN arr /\ brr[k] = Inserted(s, old)
      /\ \A c \in DOMAIN arr : c # k => brr[c] = arr[c]
  BY <1>2, <1>3, <1>4 DEF selectedChunks
<1>6. old \in Seq(Speeds) /\ InOrder(old)
  BY <1>1, <1>3, <1>4 DEF Measured, selectedChunks
<1>7. Len(brr[k]) = Len(arr[k]) + 1
  <2>1. Len(Inserted(s, old)) = Len(old) + 1
    BY <1>1, <1>6, InsertedInOrder, Parameters
  <2> QED
    BY <1>3, <1>5, <2>1
<1>8. IsTable(arr)
  BY <1>1, <1>3, SpeedsAreTable
<1>9. UnderTest = {k} /\ UnderTest' = {}
  BY <1>2, <1>3 DEF UnderTest
<1>10. PICK late, n : late = Late /\ n = 1 + Begun(opt, late, phase2I, phase2J)
  OBVIOUS
<1>11. Ranked(arr, toCheckChunks, {k}, late, n)
  BY <1>3, <1>9, <1>10 DEF RoundInv
<1>12. Ranked(brr, toCheckChunks, {}, late, n)
  BY <1>4, <1>5, <1>7, <1>8, <1>11, RankedTested
<1>13. Late' = late
  BY <1>2, <1>10 DEF Late
<1>14. AtRound(opt, late, phase, actualBlock, phase2I, phase2J)
  BY <1>10 DEF RoundInv
<1> QED
  BY <1>2, <1>3, <1>9, <1>10, <1>12, <1>13, <1>14 DEF RoundInv

\* At the beginning no round has begun.
LEMMA RoundStarts ==
    ASSUME Init
    PROVE  RoundInv
<1>1. Types
  BY SelectorStarts DEF SelectorInv
<1>2. PICK H, q : H = historyOfChunks /\ q = Ascending(H)
  OBVIOUS
<1>3. /\ speedArr = [c \in H |-> <<>>] /\ toCheckChunks = q /\ pc = "call" /\ phase = 1
      /\ phase2I = 0 /\ phase2J = 0 /\ actualBlock = -1 /\ passed = 0
  BY <1>2 DEF Init
<1>4. ToSet(q) = H
  <2>1. H \in SUBSET Int /\ IsFiniteSet(H)
    BY <1>1, <1>2 DEF Types
  <2> QED
    BY <1>2, <2>1, AscendingQueue
<1>5. PICK late \in BOOLEAN : late = Late
  <2>1. Late \in BOOLEAN
    BY DEF Late
  <2> QED
    BY <2>1, Zenon
<1>6. AtRound(opt, late, phase, actualBlock, phase2I, phase2J)
  <2>1. PICK n, f : n = Len(opt.preset) /\ f = Rounds(opt, late)
    OBVIOUS
  <2>2. n \in Nat /\ n >= 1 /\ \A l \in 1 .. n : f[l] \in Nat \ {0}
    BY <1>1, <2>1, RoundsAre
  <2>3. 1 \in 1 .. n
    BY <2>2
  <2>4. f[1] \in Nat \ {0}
    BY <2>2, <2>3
  <2>5. 0 < f[0 + 1] /\ 0 <= n /\ -1 < n
    BY <2>2, <2>4
  <2>6. opt.rounds \in Nat
    BY <1>1, Parameters
  <2> QED
    BY <1>3, <2>1, <2>5, <2>6 DEF AtRound
<1>7. 1 + Begun(opt, late, phase2I, phase2J) = 1
  <2>1. Begun(opt, late, phase2I, phase2J) = 0
    BY <1>3, NoneBegun
  <2> QED
    BY <2>1
<1>8. Ranked(speedArr, q, {}, late, 1)
  <2> SUFFICES ASSUME NEW c \in DOMAIN speedArr
               PROVE  Rank(speedArr, q, {}, c) = 1
    BY DEF Ranked
  <2>1. c \in H /\ Len(speedArr[c]) = 0
    BY <1>3
  <2>2. Waits(q, {}, c)
    BY <1>4, <2>1 DEF Waits
  <2> QED
    BY <2>1, <2>2 DEF Rank
<1>9. UnderTest = {}
  BY <1>3 DEF UnderTest
<1> QED
  BY <1>3, <1>5, <1>6, <1>7, <1>8, <1>9 DEF RoundInv

\* Every step keeps count of the rounds.
LEMMA RoundStays ==
    ASSUME SelectorInv, EvenInv, RoundInv, [Next]_vars
    PROVE  RoundInv'
<1>1. CASE CallTimeout
  BY <1>1, CallTimeoutRound
<1>2. CASE CallQueued \/ Phase2Queued
  BY <1>2, QueuedRound
<1>3. CASE CallExplore
  BY <1>3, CallExploreRound
<1>4. CASE SkipLevel
  BY <1>4, SkipLevelRound
<1>5. CASE Phase2Round
  BY <1>5, Phase2RoundRound
<1>6. CASE FixedRound
  BY <1>6, FixedRoundRound
<1>7. CASE Finish \/ TestFails \/ CallPhase2 \/ UNCHANGED vars
  BY <1>7, OthersRound
<1>8. CASE \E s \in Speeds : setChunkSpeed(s)
  BY <1>8, SetSpeedRound
<1> QED
  BY <1>1, <1>2, <1>3, <1>4, <1>5, <1>6, <1>7, <1>8 DEF Next, Step, Over

\* What is promised follows from the count of the rounds.
LEMMA RoundsEnough ==
    ASSUME SelectorInv, EvenInv, RoundInv
    PROVE  RoundsPromised
<1>1. Types /\ Measured /\ passed \in Nat /\ actualBlock \in Int
  BY DEF SelectorInv, EvenInv, Types
<1>2. PICK late \in BOOLEAN : late = Late
  <2>1. Late \in BOOLEAN
    BY DEF Late
  <2> QED
    BY <2>1, Zenon
<1>3. /\ AtRound(opt, late, phase, actualBlock, phase2I, phase2J)
      /\ Ranked(speedArr, toCheckChunks, UnderTest, late, 1 + Begun(opt, late, phase2I, phase2J))
  BY <1>2 DEF RoundInv
<1>4. PICK x \in Nat, y \in Nat : /\ x = Begun(opt, late, phase2I, phase2J)
                                  /\ y = Promised(late) /\ x <= y
  BY <1>1, <1>3, BegunEnds
<1>5. IsTable(speedArr)
  BY <1>1, SpeedsAreTable
<1>6. ASSUME NEW c \in selectedChunks
      PROVE  ntests(c) <= 1 + y
  <2>1. PICK z \in Nat : z = Len(speedArr[c])
    BY <1>5 DEF IsTable, selectedChunks
  <2>2. Rank(speedArr, toCheckChunks, UnderTest, c) <= 1 + x
    BY <1>3, <1>4 DEF Ranked, selectedChunks
  <2>3. z <= Rank(speedArr, toCheckChunks, UnderTest, c)
        /\ Rank(speedArr, toCheckChunks, UnderTest, c) \in Nat
    <3>1. Rank(speedArr, toCheckChunks, UnderTest, c)
              = z + (IF Waits(toCheckChunks, UnderTest, c) THEN 1 ELSE 0)
      BY <2>1 DEF Rank
    <3> QED
      BY <3>1
  <2> QED
    BY <1>4, <2>1, <2>2, <2>3 DEF ntests
<1>7. ASSUME pc = "done", passed = 0, Cardinality(selectedChunks) > 1, NEW c \in selectedChunks
      PROVE  ntests(c) = 1 + Promised(FALSE)
  <2>1. late = FALSE
    <3>1. ~(0 > 0)
      OBVIOUS
    <3>2. ~Late
      BY <1>7, <3>1 DEF Late
    <3> QED
      BY <1>2, <3>2, Zenon
  <2>2. AllBegun
    BY <1>2, <1>7, <2>1 DEF RoundInv
  <2>3. toCheckChunks = <<>> /\ x = y /\ y = Promised(FALSE)
    BY <1>2, <1>4, <2>1, <2>2 DEF AllBegun
  <2>4. UnderTest = {}
    BY <1>7 DEF UnderTest
  <2>5. Rank(speedArr, <<>>, {}, c) = 1 + x
    BY <1>3, <1>4, <2>1, <2>3, <2>4 DEF Ranked, selectedChunks
  <2>6. Rank(speedArr, <<>>, {}, c) = Len(speedArr[c])
    BY <1>5, NoneWaits DEF selectedChunks
  <2> QED
    BY <2>3, <2>5, <2>6 DEF ntests
<1>8. Promised(passed > 0) = y
  BY <1>2, <1>4 DEF Late
<1> QED
  BY <1>6, <1>7, <1>8 DEF RoundsPromised

\* RoundsPromised, for any options, preset of levels, chunks and speeds: no chunk
\* is tested more often than the options say, also when levels are late and their
\* successors have a round more, and without a deadline whoever is left at the end
\* has had exactly those rounds.
THEOREM RoundsAreKept == Spec => []RoundsPromised
<1>1. Init => EvenInv /\ RoundInv
  BY EvenStarts, RoundStarts
<1>2. SelectorInv /\ EvenInv /\ RoundInv /\ [Next]_vars => EvenInv' /\ RoundInv'
  BY EvenStays, RoundStays
<1>3. SelectorInv /\ EvenInv /\ RoundInv => RoundsPromised
  BY RoundsEnough
<1> QED
  BY <1>1, <1>2, <1>3, SelectorInductive, PTL DEF Spec
=============================================================================
