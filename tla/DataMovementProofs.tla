------------------------- MODULE DataMovementProofs -------------------------
(***************************************************************************)
(* Data movement under PrioritizeDM, for every arity, every number of      *)
(* processes and every set of calls.                                       *)
(*                                                                         *)
(* First the plan of one level: the ranks with a surplus precede those that*)
(* lack problems (SendersPrecedeReceivers), and both ends of a transfer    *)
(* work out the same plan.  Then the transfers of a whole call: each has a *)
(* key, keys are ordered, every rank goes through its own in that order,   *)
(* and a channel holds those that one end has passed and the other has not *)
(* (MovesOK).  From this follow that what arrives is what is expected      *)
(* (PlansAreAgreed), that there is room for it (ResultsHaveRoom), and that *)
(* nobody waits for ever (NobodyIsStuck).  Last where the problems are: a  *)
(* path from the root down meets exactly one of them (ProblemsOK), so that *)
(* none is lost and none is solved twice (ProblemsArePartitioned).         *)
(***************************************************************************)
EXTENDS DataMovement, SequenceTheorems, LibraryTheorems

(* Quotient and remainder.                                                 *)
LEMMA DivMod ==
    ASSUME NEW a \in Nat, NEW b \in Nat \ {0}
    PROVE  /\ a \div b \in Nat
           /\ a % b \in 0 .. b - 1
           /\ a = b * (a \div b) + (a % b)
  OBVIOUS

(* A number that lies between two multiples of b has its quotient between  *)
(* them.                                                                   *)
LEMMA DivBounds ==
    ASSUME NEW a \in Nat, NEW b \in Nat \ {0}, NEW lo \in Nat, NEW hi \in Nat,
           b * lo <= a, a < b * hi
    PROVE  lo <= a \div b /\ a \div b < hi
  <1> DEFINE q == a \div b
  <1>1. q \in Nat /\ a >= b * q /\ a < b * q + b
    BY DivMod
  <1> HIDE DEF q
  <1>2. lo <= q
    <2>1. SUFFICES ASSUME q + 1 <= lo PROVE FALSE
      BY <1>1
    <2>2. b * (q + 1) <= b * lo
      BY <1>1, <2>1
    <2>3. b * (q + 1) = b * q + b
      BY <1>1
    <2> QED BY <1>1, <2>2, <2>3
  <1>3. q < hi
    <2>1. SUFFICES ASSUME hi <= q PROVE FALSE
      BY <1>1
    <2>2. b * hi <= b * q
      BY <1>1, <2>1
    <2> QED BY <1>1, <2>2
  <1> QED BY <1>2, <1>3 DEF q

(* The share of a rank in the block distribution (nLocalElems) is a number *)
(* of problems.                                                            *)
LEMMA SharesAreNat ==
    ASSUME NEW i \in Int, NEW g \in Nat, NEW p \in Nat \ {0}
    PROVE  NLocal(i, g, p) \in Nat
  <1>1. g \div p \in Nat
    BY DivMod
  <1> QED BY <1>1 DEF NLocal

(* The ranks that had one more problem than the others before the problems *)
(* were split have at least what they are due, the others at most.         *)
LEMMA SurplusOfRank ==
    ASSUME NEW n \in Nat \ {0}, NEW p \in Nat \ {0}, NEW g \in Nat,
           NEW i \in 0 .. p - 1
    PROVE  LET r == (g \div n) % p
           IN  /\ i < r => Have(i, g, n, p) >= Due(i, g, p)
               /\ i >= r => Have(i, g, n, p) <= Due(i, g, p)
  <1> DEFINE h == g \div n
             q == h \div p
             r == h % p
             e == g % n
             d == g \div p
  <1>1. h \in Nat /\ e \in 0 .. n - 1 /\ g = n * h + e
    BY DivMod
  <1>2. q \in Nat /\ r \in 0 .. p - 1 /\ h = p * q + r
    BY <1>1, DivMod
  <1>3. Have(i, g, n, p) = n * (q + (IF i < r THEN 1 ELSE 0))
    BY DEF Have, NLocal
  <1>4. Due(i, g, p) = d + (IF i < g % p THEN 1 ELSE 0)
    BY DEF Due, NLocal
  <1>5. d \in Nat
    BY DivMod
  <1> HIDE DEF h, q, r, e, d
  <1>6. g = p * (n * q) + (n * r + e)
    BY <1>1, <1>2
  <1>7. n * r + e < p * n
    <2>1. n * r <= n * (p - 1)
      BY <1>2
    <2>2. n * (p - 1) = n * p - n
      OBVIOUS
    <2> QED BY <1>1, <1>2, <2>1, <2>2
  <1>8. /\ n * q \in Nat
        /\ p * (n * q) <= g
        /\ g < p * (n * q + n)
    <2>1. p * (n * q + n) = p * (n * q) + p * n
      BY <1>2
    <2>2. n * q \in Nat /\ n * r \in Nat /\ p * (n * q) \in Nat
      BY <1>2
    <2> QED BY <1>1, <1>6, <1>7, <2>1, <2>2
  <1>9. n * q <= d /\ d < n * q + n
    <2> DEFINE lo == n * q
    <2>1. lo \in Nat /\ lo + n \in Nat /\ p * lo <= g /\ g < p * (lo + n)
      BY <1>8
    <2> HIDE DEF lo
    <2>2. lo <= g \div p /\ g \div p < lo + n
      BY <2>1, DivBounds
    <2> QED BY <2>2 DEF lo, d
  <1>10. CASE i < r
    <2>1. Have(i, g, n, p) = n * q + n
      <3>1. n * (q + 1) = n * q + n
        BY <1>2
      <3> QED BY <1>3, <1>10, <3>1
    <2>2. Due(i, g, p) \in {d, d + 1}
      BY <1>4, <1>5
    <2> QED BY <2>1, <2>2, <1>2, <1>5, <1>8, <1>9, <1>10 DEF r, h
  <1>11. CASE ~(i < r)
    <2>1. Have(i, g, n, p) = n * q
      <3>1. n * (q + 0) = n * q
        BY <1>2
      <3> QED BY <1>3, <1>11, <3>1
    <2>2. Due(i, g, p) \in {d, d + 1}
      BY <1>4, <1>5
    <2> QED BY <2>1, <2>2, <1>2, <1>5, <1>8, <1>9, <1>11 DEF r, h
  <1> QED BY <1>10, <1>11

---------------------------------------------------------------------------
(* What SendersFirst needs of a state: the call is one of Cases and every  *)
(* rank counts its problems with a natural number.                         *)
CountOK == conf \in Cases /\ nglobal \in [Ranks -> Nat]

(* It holds at first ...                                                   *)
LEMMA CountInit == Init => CountOK
  BY DEF Init, CountOK

(* ... and after every step: a split multiplies the count of a rank by the *)
(* arity, a reduction divides it.                                          *)
LEMMA CountStep == CountOK /\ [Next]_vars => CountOK'
  <1> SUFFICES ASSUME CountOK, [Next]_vars PROVE CountOK'
    OBVIOUS
  <1> USE DEF CountOK, Ranks, P, N
  <1>1. ASSUME NEW r \in Ranks, Step(r) PROVE CountOK'
    <2>1. N \in Nat \ {0} /\ nglobal[r] \in Nat
      BY CasesAssumption
    <2>2. CASE Split(r)
      <3>1. N * nglobal[r] \in Nat
        BY <2>1
      <3> QED BY <2>2, <3>1 DEF Split
    <2>3. CASE Reduce(r)
      <3>1. nglobal[r] \div N \in Nat
        BY <2>1, DivMod
      <3> QED BY <2>3, <3>1 DEF Reduce
    <2>4. CASE Send(r) \/ Recv(r) \/ Commit(r) \/ Run(r) \/ Gather(r) \/ Finish(r)
      BY <2>4 DEF Send, Recv, Commit, Run, Gather, Finish
    <2> QED BY <1>1, <2>2, <2>3, <2>4 DEF Step
  <1>2. CASE UNCHANGED vars
    BY <1>2 DEF vars
  <1> QED BY <1>1, <1>2 DEF Next, Terminated

(* At one level, whatever the number of problems.                          *)
LEMMA SendersFirstAtLevel ==
    ASSUME NEW n \in Nat \ {0}, NEW p \in Nat \ {0}, NEW g \in Nat,
           NEW i \in 0 .. p - 1, NEW j \in 0 .. p - 1,
           Have(i, g, n, p) - Due(i, g, p) > 0,
           Have(j, g, n, p) - Due(j, g, p) < 0
    PROVE  i < j
  <1> DEFINE k == (g \div n) % p
  <1>1. g \div n \in Nat
    BY DivMod
  <1>2. k \in 0 .. p - 1
    BY <1>1, DivMod
  <1>3. \A s \in 0 .. p - 1 : Have(s, g, n, p) \in Int /\ Due(s, g, p) \in Int
    <2> SUFFICES ASSUME NEW s \in 0 .. p - 1
                 PROVE  Have(s, g, n, p) \in Int /\ Due(s, g, p) \in Int
      OBVIOUS
    <2> DEFINE h == g \div n
    <2>1. s \in Int /\ h \in Nat
      BY <1>1
    <2> HIDE DEF h
    <2>2. NLocal(s, h, p) \in Nat /\ NLocal(s, g, p) \in Nat
      BY <2>1, SharesAreNat
    <2> QED BY <2>2 DEF Have, Due, h
  <1>4. \A s \in 0 .. p - 1 : /\ s < k => Have(s, g, n, p) >= Due(s, g, p)
                              /\ s >= k => Have(s, g, n, p) <= Due(s, g, p)
    BY SurplusOfRank
  <1> HIDE DEF k
  <1> QED BY <1>2, <1>3, <1>4

(* At every level of every call the ranks with a surplus precede the ranks *)
(* that lack problems, which is what the plan of a level is worked out     *)
(* from.                                                                   *)
THEOREM SendersPrecedeReceivers == Spec => []SendersFirst
  <1>1. CountOK => SendersFirst
    <2> SUFFICES ASSUME CountOK, NEW r \in Ranks, NEW i \in Ranks, NEW j \in Ranks,
                        Surplus(i, nglobal[r]) > 0, Surplus(j, nglobal[r]) < 0
                 PROVE  i < j
      BY DEF SendersFirst
    <2>1. /\ N \in Nat \ {0} /\ P \in Nat \ {0} /\ nglobal[r] \in Nat
          /\ i \in 0 .. P - 1 /\ j \in 0 .. P - 1
      BY CasesAssumption DEF CountOK, N, P, Ranks
    <2>2. /\ Have(i, nglobal[r], N, P) - Due(i, nglobal[r], P) > 0
          /\ Have(j, nglobal[r], N, P) - Due(j, nglobal[r], P) < 0
      BY DEF Surplus, HaveOf, DueOf
    <2> QED BY <2>1, <2>2, SendersFirstAtLevel
  <1> QED BY <1>1, CountInit, CountStep, PTL DEF Spec
---------------------------------------------------------------------------
(* The plan of a level.  D is what each of p ranks has in excess; the ranks*)
(* before k may have a surplus and the others may lack problems; A adds up *)
(* the excess of the ranks before.                                         *)
IsPlan(D, p, k, A) ==
    /\ k \in 0 .. p
    /\ \A i \in 0 .. p - 1 : D[i] \in Int
    /\ \A i \in 0 .. p - 1 : (i < k => D[i] >= 0) /\ (i >= k => D[i] <= 0)
    /\ \A i, j \in 0 .. p - 1 : i < j /\ j < k /\ D[i] > 0 => D[j] > 0
    /\ \A i, j \in 0 .. p - 1 : k <= i /\ i < j /\ D[j] < 0 => D[i] < 0
    /\ \A i \in 0 .. p : A[i] \in Int
    /\ A[0] = 0 /\ A[p] = 0
    /\ \A i \in 0 .. p - 1 : A[i + 1] = A[i] + D[i]

(* All the shares of g problems are g problems.                            *)
LEMMA SharesAddUp ==
    ASSUME NEW p \in Nat \ {0}, NEW g \in Nat, NEW f,
           \A i \in 0 .. p - 1 : f[i] = NLocal(i, g, p)
    PROVE  SumFunctionOnSet(f, 0 .. p - 1) = g
  <1> DEFINE S == 0 .. p - 1
             q == g \div p
             e == g % p
             X == 0 .. e - 1
  <1>1. q \in Nat /\ e \in 0 .. p - 1 /\ g = p * q + e
    BY DivMod
  <1>2. IsFiniteSet(S) /\ Cardinality(S) = p
    BY FS_Interval
  <1>3. Cardinality(S \cap X) = e
    <2>1. S \cap X = 0 .. e - 1
      BY <1>1
    <2>2. e - 1 \in Int
      BY <1>1
    <2>3. Cardinality(0 .. e - 1) = e
      BY <1>1, <2>2, FS_Interval
    <2> QED BY <2>1, <2>3
  <1>4. \A x \in S : f[x] = q + (IF x \in X THEN 1 ELSE 0)
    BY <1>1 DEF NLocal
  <1> HIDE DEF S, X, q, e
  <1>5. SumFunctionOnSet(f, S) = q * Cardinality(S) + Cardinality(S \cap X)
    BY <1>1, <1>2, <1>4, SumOfShares
  <1>6. q * p + e = p * q + e
    BY <1>1
  <1> QED BY <1>1, <1>2, <1>3, <1>5, <1>6 DEF S

(* Every n-fold of h problems leaves a plan.                               *)
LEMMA QuotientOfMultiple ==
    ASSUME NEW n \in Nat \ {0}, NEW h \in Nat
    PROVE  (n * h) \div n = h /\ n * h \in Nat
  <1>1. n * h \in Nat /\ n * h <= n * h /\ n * h < n * (h + 1)
    <2>1. n * (h + 1) = n * h + n
      OBVIOUS
    <2> QED BY <2>1
  <1>2. h <= (n * h) \div n /\ (n * h) \div n < h + 1
    BY <1>1, DivBounds
  <1>3. (n * h) \div n \in Nat
    BY <1>1, DivMod
  <1> QED BY <1>1, <1>2, <1>3

(* The excess over all ranks is nothing.                                   *)
LEMMA ExcessAddsUp ==
    ASSUME NEW n \in Nat \ {0}, NEW p \in Nat \ {0}, NEW h \in Nat, NEW D,
           D = [i \in 0 .. p - 1 |-> Have(i, n * h, n, p) - Due(i, n * h, p)]
    PROVE  SumFunctionOnSet(D, 0 .. p - 1) = 0
  <1> DEFINE S == 0 .. p - 1
             g == n * h
             Fh == [i \in S |-> NLocal(i, h, p)]
             Fg == [i \in S |-> NLocal(i, g, p)]
             Hv == [i \in S |-> n * Fh[i]]
  <1>1. g \in Nat /\ g \div n = h /\ IsFiniteSet(S)
    BY QuotientOfMultiple, FS_Interval
  <1>2. \A i \in S : NLocal(i, h, p) \in Nat /\ NLocal(i, g, p) \in Nat
    <2> SUFFICES ASSUME NEW i \in S
                 PROVE  NLocal(i, h, p) \in Nat /\ NLocal(i, g, p) \in Nat
      OBVIOUS
    <2>1. i \in Int
      OBVIOUS
    <2> HIDE DEF S, g
    <2> QED BY <1>1, <2>1, SharesAreNat
  <1>3. \A i \in S : D[i] = n * NLocal(i, h, p) - NLocal(i, g, p)
    BY <1>1 DEF Have, Due
  <1>4. SumFunctionOnSet(Fh, S) = h
    <2>1. \A i \in 0 .. p - 1 : Fh[i] = NLocal(i, h, p)
      OBVIOUS
    <2> HIDE DEF Fh
    <2> QED BY <2>1, SharesAddUp
  <1>5. SumFunctionOnSet(Fg, S) = g
    <2>1. \A i \in 0 .. p - 1 : Fg[i] = NLocal(i, g, p)
      OBVIOUS
    <2> HIDE DEF Fg, g
    <2> QED BY <1>1, <2>1, SharesAddUp
  <1>6. SumFunctionOnSet(Hv, S) = n * h
    <2>1. \A x \in S : Fh[x] \in Int /\ Hv[x] = n * Fh[x]
      BY <1>2
    <2> HIDE DEF Fh, Hv, S
    <2>2. SumFunctionOnSet(Hv, S) = n * SumFunctionOnSet(Fh, S)
      BY <1>1, <2>1, SumScaled
    <2> QED BY <1>4, <2>2
  <1>7. /\ DOMAIN D = S /\ DOMAIN Fg = S /\ DOMAIN Hv = S
        /\ \A x \in S : D[x] \in Int /\ Fg[x] \in Int /\ Hv[x] = D[x] + Fg[x]
    <2>1. \A x \in S : \E a \in Int, b \in Int :
              /\ D[x] = a - b /\ Fg[x] = b /\ Hv[x] = a
      <3> SUFFICES ASSUME NEW x \in S
                   PROVE  \E a \in Int, b \in Int : D[x] = a - b /\ Fg[x] = b /\ Hv[x] = a
        OBVIOUS
      <3>1. n * NLocal(x, h, p) \in Int /\ NLocal(x, g, p) \in Int
        BY <1>2
      <3>2. D[x] = n * NLocal(x, h, p) - NLocal(x, g, p)
        BY <1>3
      <3>3. Fg[x] = NLocal(x, g, p) /\ Hv[x] = n * NLocal(x, h, p)
        OBVIOUS
      <3> HIDE DEF Fg, Hv
      <3> QED BY <3>1, <3>2, <3>3
    <2>2. ASSUME NEW x \in S PROVE D[x] \in Int /\ Fg[x] \in Int /\ Hv[x] = D[x] + Fg[x]
      <3>1. PICK a \in Int, b \in Int : D[x] = a - b /\ Fg[x] = b /\ Hv[x] = a
        BY <2>1
      <3> HIDE DEF Fg, Hv
      <3> QED BY <3>1
    <2> QED BY <2>1, <2>2
  <1> HIDE DEF S, Fg, Hv
  <1>8. SumFunction(D) \in Int /\ SumFunction(Hv) = SumFunction(D) + SumFunction(Fg)
    <2>1. PICK a, b, c, T : a = D /\ b = Fg /\ c = Hv /\ T = S
      OBVIOUS
    <2>2. IsFiniteSet(T) /\ DOMAIN a = T /\ DOMAIN b = T /\ DOMAIN c = T
      BY <1>1, <1>7, <2>1
    <2>3. \A x \in T : a[x] \in Int /\ b[x] \in Int /\ c[x] = a[x] + b[x]
      BY <1>7, <2>1
    <2>4. SumFunction(a) \in Int /\ SumFunction(c) = SumFunction(a) + SumFunction(b)
      BY <2>2, <2>3, SumOfTwo, SMTT(20)
    <2> QED BY <2>1, <2>4
  <1>9. /\ SumFunction(D) = SumFunctionOnSet(D, S) /\ SumFunction(Hv) = SumFunctionOnSet(Hv, S)
        /\ SumFunction(Fg) = SumFunctionOnSet(Fg, S)
    BY <1>7 DEF SumFunction
  <1>10. SumFunctionOnSet(D, S) \in Int /\ g = SumFunctionOnSet(D, S) + g
    BY <1>5, <1>6, <1>8, <1>9
  <1> HIDE DEF g
  <1> QED BY <1>1, <1>10 DEF S

(* What the ranks before each have in excess, and between any two ranks.   *)
LEMMA ExcessBefore ==
    ASSUME NEW p \in Nat, NEW D \in [0 .. p - 1 -> Int], SumFunctionOnSet(D, 0 .. p - 1) = 0
    PROVE  \E A \in [0 .. p -> Int] :
              /\ A[0] = 0 /\ A[p] = 0
              /\ \A i \in 0 .. p - 1 : A[i + 1] = A[i] + D[i]
  <1> DEFINE Sum(s) == SumFunctionOnSet(D, s)
             A == [i \in 0 .. p |-> Sum(0 .. i - 1)]
  <1>1. ASSUME NEW i \in 0 .. p
        PROVE  Sum(0 .. i - 1) \in Int
    <2>1. 0 \in Int /\ i - 1 \in Int /\ \A x \in 0 .. i - 1 : D[x] \in Int
      OBVIOUS
    <2> QED BY <2>1, SumOnIntervalInt
  <1>2. A \in [0 .. p -> Int]
    BY <1>1
  <1>3. A[0] = 0
    <2>1. A[0] = Sum(0 .. 0 - 1) /\ 0 .. 0 - 1 = {}
      OBVIOUS
    <2> HIDE DEF A
    <2> QED BY <2>1, SumOnEmpty
  <1>4. A[p] = 0
    OBVIOUS
  <1>5. ASSUME NEW i \in 0 .. p - 1
        PROVE  A[i + 1] = A[i] + D[i]
    <2>1. A[i + 1] = Sum(0 .. (i + 1) - 1) /\ A[i] = Sum(0 .. i - 1)
      BY <1>5
    <2>2. /\ 0 .. (i + 1) - 1 = 0 .. i /\ 0 <= i
          /\ \A x \in 0 .. i : D[x] \in Int
          /\ 0 \in Int /\ i \in Int
      BY <1>5
    <2>3. SumFunctionOnSet(D, 0 .. i) = D[i] + SumFunctionOnSet(D, 0 .. i - 1)
      BY <2>2, SumOfLast, SMTT(20)
    <2>8. PICK x \in Int, y \in Int : x = D[i] /\ y = Sum(0 .. i - 1)
      BY <1>1, <1>5
    <2> HIDE DEF A
    <2>9. A[i + 1] = x + y /\ A[i] = y
      BY <2>1, <2>2, <2>3, <2>8
    <2> QED BY <2>8, <2>9
  <1> HIDE DEF A
  <1> QED BY <1>2, <1>3, <1>4, <1>5

LEMMA LevelIsPlan ==
    ASSUME NEW n \in Nat \ {0}, NEW p \in Nat \ {0}, NEW h \in Nat, NEW D,
           D = [i \in 0 .. p - 1 |-> Have(i, n * h, n, p) - Due(i, n * h, p)]
    PROVE  \E k, A : IsPlan(D, p, k, A)
  <1> DEFINE g == n * h
             q == h \div p
             r == h % p
             e == g % p
             d == g \div p
             one(b) == IF b THEN 1 ELSE 0
  <1>1. g \in Nat /\ g \div n = h
    BY QuotientOfMultiple
  <1>2. q \in Nat /\ r \in 0 .. p - 1 /\ h = p * q + r
    BY DivMod
  <1>3. d \in Nat /\ e \in 0 .. p - 1 /\ g = p * d + e
    BY <1>1, DivMod
  <1>4. \A i \in 0 .. p - 1 : /\ D[i] = n * (q + one(i < r)) - (d + one(i < e))
                              /\ i < r => D[i] >= 0
                              /\ i >= r => D[i] <= 0
    <2> SUFFICES ASSUME NEW i \in 0 .. p - 1
                 PROVE  /\ D[i] = n * (q + one(i < r)) - (d + one(i < e))
                        /\ i < r => D[i] >= 0
                        /\ i >= r => D[i] <= 0
      OBVIOUS
    <2>1. D[i] = Have(i, g, n, p) - Due(i, g, p)
      OBVIOUS
    <2>2. Have(i, g, n, p) = n * (q + one(i < r)) /\ Due(i, g, p) = d + one(i < e)
      BY <1>1 DEF Have, Due, NLocal
    <2>3. /\ i < (g \div n) % p => Have(i, g, n, p) >= Due(i, g, p)
          /\ i >= (g \div n) % p => Have(i, g, n, p) <= Due(i, g, p)
      <3> HIDE DEF g
      <3> QED BY <1>1, SurplusOfRank
    <2>4. n * (q + one(i < r)) \in Int /\ d + one(i < e) \in Int
      BY <1>2, <1>3
    <2> HIDE DEF g, d, e, q
    <2>5. /\ i < r => Have(i, g, n, p) >= Due(i, g, p)
          /\ i >= r => Have(i, g, n, p) <= Due(i, g, p)
      BY <1>1, <2>3
    <2> QED BY <2>1, <2>2, <2>4, <2>5
  <1>5. \A i \in 0 .. p - 1 : D[i] \in Int
    <2> HIDE DEF g, q, r, d, e
    <2>1. \A i \in 0 .. p - 1 : n * (q + one(i < r)) \in Int /\ d + one(i < e) \in Int
      BY <1>2, <1>3
    <2> HIDE DEF one
    <2> QED BY <1>4, <2>1
  <1>6. PICK A \in [0 .. p -> Int] :
            /\ A[0] = 0 /\ A[p] = 0
            /\ \A i \in 0 .. p - 1 : A[i + 1] = A[i] + D[i]
    <2>1. SumFunctionOnSet(D, 0 .. p - 1) = 0
      BY ExcessAddsUp
    <2>2. DOMAIN D = 0 .. p - 1 /\ D = [i \in DOMAIN D |-> D[i]]
      OBVIOUS
    <2>3. D \in [0 .. p - 1 -> Int]
      BY <1>5, <2>2
    <2>4. p \in Nat
      OBVIOUS
    <2> QED BY <2>1, <2>3, <2>4, ExcessBefore
  <1>7. ASSUME NEW i \in 0 .. p - 1, NEW j \in 0 .. p - 1, i < j
        PROVE  /\ j < r /\ D[i] > 0 => D[j] > 0
               /\ r <= i /\ D[j] < 0 => D[i] < 0
    <2>0. q \in Nat
      BY <1>2
    <2> HIDE DEF q
    <2>1. PICK x \in Int, y \in Int : x = n * (q + 1) /\ y = n * (q + 0)
      BY <2>0
    <2>2. /\ D[i] = (IF i < r THEN x ELSE y) - (d + one(i < e))
          /\ D[j] = (IF j < r THEN x ELSE y) - (d + one(j < e))
      BY <1>4, <2>1
    <2> HIDE DEF g, q, r, d, e
    <2> QED BY <1>2, <1>3, <1>7, <2>1, <2>2
  <1>8. D \in [0 .. p - 1 -> Int]
    <2>1. DOMAIN D = 0 .. p - 1 /\ D = [i \in DOMAIN D |-> D[i]]
      OBVIOUS
    <2> QED BY <1>5, <2>1
  <1>9. IsPlan(D, p, r, A)
    <2>1. r \in 0 .. p
      BY <1>2
    <2> HIDE DEF g, q, r, d, e
    <2>2. \A i, j \in 0 .. p - 1 : /\ i < j /\ j < r /\ D[i] > 0 => D[j] > 0
                                   /\ r <= i /\ i < j /\ D[j] < 0 => D[i] < 0
      BY <1>7
    <2>3. \A i \in 0 .. p - 1 : (i < r => D[i] >= 0) /\ (i >= r => D[i] <= 0)
      BY <1>4
    <2> QED BY <1>6, <1>8, <2>1, <2>2, <2>3 DEF IsPlan
  <1> QED BY <1>9
(* What ranks have in excess before each does not fall up to k nor rise    *)
(* from there.                                                             *)
LEMMA PlanRises ==
    ASSUME NEW p \in Nat, NEW D, NEW k, NEW A, IsPlan(D, p, k, A),
           NEW a \in 0 .. p, NEW b \in a .. p
    PROVE  /\ b <= k => A[a] <= A[b]
           /\ k <= a => A[b] <= A[a]
  <1> DEFINE S == {c \in a .. p : \/ c <= k /\ ~(A[a] <= A[c])
                                  \/ k <= a /\ ~(A[c] <= A[a])}
  <1> SUFFICES ASSUME S # {} PROVE FALSE
    OBVIOUS
  <1>1. S \in SUBSET Nat
    OBVIOUS
  <1> HIDE DEF S
  <1>2. PICK c \in S : \A d \in S : c <= d
    BY <1>1, SmallestNumber
  <1>3. c \in a .. p /\ ((c <= k /\ ~(A[a] <= A[c])) \/ (k <= a /\ ~(A[c] <= A[a])))
    BY <1>2 DEF S
  <1>4. \A i \in 0 .. p : A[i] \in Int
    BY DEF IsPlan
  <1>5. c # a
    BY <1>3, <1>4
  <1>6. PICK e \in Int : a <= e /\ e <= p - 1 /\ c = e + 1
    <2>1. c - 1 \in Int /\ a <= c - 1 /\ c - 1 <= p - 1 /\ c = (c - 1) + 1
      BY <1>3, <1>5
    <2> QED BY <2>1
  <1>7. ~(e <= k /\ ~(A[a] <= A[e])) /\ ~(k <= a /\ ~(A[e] <= A[a]))
    <2>1. e \in a .. p
      BY <1>6
    <2>2. e \notin S
      BY <1>1, <1>2, <1>6
    <2> QED BY <2>1, <2>2 DEF S
  <1>8. PICK u \in Int, v \in Int, w \in Int :
            /\ u = D[e] /\ v = A[e] /\ w = A[a] /\ A[c] = v + u
            /\ e < k => u >= 0
            /\ e >= k => u <= 0
    <2>1. e \in 0 .. p - 1 /\ e \in 0 .. p /\ a \in 0 .. p
      BY <1>6
    <2>2. /\ D[e] \in Int /\ A[e] \in Int /\ A[a] \in Int /\ A[c] = A[e] + D[e]
          /\ (e < k => D[e] >= 0) /\ (e >= k => D[e] <= 0)
      BY <1>4, <1>6, <2>1 DEF IsPlan
    <2> QED BY <2>2
  <1>9. k \in Nat
    BY DEF IsPlan
  <1> QED BY <1>3, <1>6, <1>7, <1>8, <1>9
LEMMA PlanBounds ==
    ASSUME NEW p \in Nat, NEW D, NEW k, NEW A, IsPlan(D, p, k, A), NEW i \in 0 .. p
    PROVE  0 <= A[i] /\ A[i] <= A[k]
  <1>1. k \in 0 .. p /\ 0 \in 0 .. p /\ p \in 0 .. p /\ A[0] = 0 /\ A[p] = 0 /\ A[i] \in Int
    BY DEF IsPlan
  <1>2. CASE i <= k
    <2>1. i \in 0 .. p /\ k \in i .. p
      BY <1>1, <1>2
    <2>2. A[0] <= A[i]
      BY <1>1, <1>2, PlanRises
    <2>3. A[i] <= A[k]
      BY <1>2, <2>1, PlanRises
    <2> QED BY <1>1, <2>2, <2>3
  <1>3. CASE ~(i <= k)
    <2>1. i \in k .. p /\ p \in i .. p /\ k <= i
      BY <1>1, <1>3
    <2>2. A[p] <= A[i]
      BY <1>1, <2>1, PlanRises
    <2>3. A[i] <= A[k]
      BY <1>1, <2>1, PlanRises
    <2> QED BY <1>1, <2>2, <2>3
  <1> QED BY <1>2, <1>3

(* The smallest number of a set, and of a pair.                            *)
LEMMA MinIs ==
    ASSUME NEW S \in SUBSET Nat, S # {}
    PROVE  Min(S) \in S /\ \A y \in S : Min(S) <= y
  <1>1. \E x \in S : \A y \in S : x <= y
    BY SmallestNumber
  <1> QED BY <1>1 DEF Min

LEMMA MinMaxOfPair ==
    ASSUME NEW a \in Int, NEW b \in Int
    PROVE  /\ Min({a, b}) = IF a <= b THEN a ELSE b
           /\ Max({a, b}) = IF a <= b THEN b ELSE a
  BY DEF Min, Max

(* Where the item of number amount is, counted from rank a on.             *)
LEMMA LocateIs ==
    ASSUME P \in Nat, NEW F, NEW B,
           \A i \in 0 .. P : B[i] \in Int,
           \A i \in 0 .. P - 1 : F[i] \in Int /\ B[i + 1] = B[i] + F[i],
           NEW a \in 0 .. P - 1, NEW amount \in Nat,
           NEW l \in a .. P - 1, B[l + 1] - B[a] > amount
    PROVE  \E i \in a .. P - 1 :
              /\ Locate(amount, a, F) = [rank |-> i, moved |-> amount - (B[i] - B[a])]
              /\ B[i] - B[a] <= amount /\ amount < B[i + 1] - B[a]
  <1> DEFINE before(i) == SumFunctionOnSet(F, a .. i - 1)
             S == {j \in a .. P - 1 : before(j + 1) > amount}
             m == Min(S)
  <1>1. ASSUME NEW i \in a .. P
        PROVE  before(i) = B[i] - B[a]
    <2>1. PICK p \in Nat : p = P
      OBVIOUS
    <2>2. /\ \A j \in 0 .. p : B[j] \in Int
          /\ \A j \in 0 .. p - 1 : F[j] \in Int /\ B[j + 1] = B[j] + F[j]
          /\ a \in 0 .. p /\ i \in a .. p
      BY <1>1, <2>1
    <2> HIDE DEF P
    <2>3. SumFunctionOnSet(F, a .. i - 1) = B[i] - B[a]
      BY <2>2, SumTelescopes, ZenonT(30)
    <2> QED BY <2>3
  <1> HIDE DEF before
  <1>2. \A j \in a .. P - 1 : j + 1 \in a .. P /\ j \in a .. P
    OBVIOUS
  <1>3. l \in S
    <2>1. before(l + 1) = B[l + 1] - B[a]
      BY <1>1, <1>2
    <2> QED BY <2>1
  <1>4. S \in SUBSET Nat /\ S # {}
    <2>1. \A j \in a .. P - 1 : j \in Nat
      OBVIOUS
    <2>2. S \subseteq a .. P - 1
      OBVIOUS
    <2> HIDE DEF S
    <2> QED BY <1>3, <2>1, <2>2
  <1> HIDE DEF S
  <1>5. m \in S /\ \A y \in S : m <= y
    BY <1>4, MinIs
  <1>6. m \in a .. P - 1 /\ before(m + 1) > amount
    BY <1>5 DEF S
  <1>7. before(m + 1) = B[m + 1] - B[a] /\ before(m) = B[m] - B[a]
    BY <1>1, <1>2, <1>6
  <1>8. before(m) <= amount
    <2>1. CASE m = a
      <3>1. B[a] \in Int
        OBVIOUS
      <3> QED BY <1>7, <2>1, <3>1
    <2>2. CASE m # a
      <3>1. PICK e \in Int : a <= e /\ e <= P - 1 /\ m = e + 1
        <4>1. m - 1 \in Int /\ a <= m - 1 /\ m - 1 <= P - 1 /\ m = (m - 1) + 1
          BY <1>6, <2>2
        <4> HIDE DEF m
        <4> QED BY <4>1
      <3>2. e \in a .. P - 1 /\ e < m
        BY <3>1
      <3>3. e \notin S
        <4>1. m \in Int
          BY <1>6
        <4> HIDE DEF m
        <4> QED BY <1>5, <3>2, <4>1
      <3>4. ~(before(e + 1) > amount)
        BY <3>2, <3>3 DEF S
      <3>5. before(m) \in Int
        <4>1. m \in 0 .. P /\ a \in 0 .. P
          BY <1>6
        <4>2. B[m] \in Int /\ B[a] \in Int
          BY <4>1
        <4> QED BY <1>7, <4>2
      <3> QED BY <3>1, <3>4, <3>5
    <2> QED BY <2>1, <2>2
  <1>9. Locate(amount, a, F) = [rank |-> m, moved |-> amount - before(m)]
    BY DEF Locate, before, S
  <1> HIDE DEF m
  <1> QED BY <1>6, <1>7, <1>8, <1>9
(* The excess of the ranks before rank s that have some is A[s] when s has *)
(* some too; when s lacks problems, the lack of those before it is what A  *)
(* has fallen by since its top.                                            *)
LEMMA ExcessOfSome ==
    ASSUME NEW p \in Nat, NEW D, NEW k, NEW A, IsPlan(D, p, k, A), NEW s \in 0 .. p - 1, D[s] > 0
    PROVE  SumFunctionOnSet(D, {i \in 0 .. s - 1 : D[i] > 0}) = A[s]
  <1>1. /\ \A i \in 0 .. p : A[i] \in Int
        /\ \A i \in 0 .. p - 1 : D[i] \in Int /\ A[i + 1] = A[i] + D[i]
        /\ A[0] = 0 /\ k \in Int
    BY DEF IsPlan
  <1>2. s < k
    <2>1. s >= k => D[s] <= 0
      BY DEF IsPlan
    <2> QED BY <1>1, <2>1
  <1>3. PICK S : S = 0 .. s - 1
    OBVIOUS
  <1>4. IsFiniteSet(S) /\ \A i \in S : D[i] \in Nat
    <2>1. IsFiniteSet(0 .. s - 1)
      BY FS_Interval
    <2>2. \A i \in 0 .. s - 1 : D[i] \in Int /\ D[i] >= 0
      BY <1>1, <1>2 DEF IsPlan
    <2> QED BY <1>3, <2>1, <2>2
  <1>5. SumFunctionOnSet(D, {i \in S : D[i] > 0}) = SumFunctionOnSet(D, S)
    BY <1>4, SumOfPositive
  <1>6. SumFunctionOnSet(D, 0 .. s - 1) = A[s] - A[0]
    <2>1. PICK a : a = 0
      OBVIOUS
    <2>2. a \in 0 .. p /\ s \in a .. p
      BY <2>1
    <2>3. SumFunctionOnSet(D, a .. s - 1) = A[s] - A[a]
      BY <1>1, <2>2, SumTelescopes, ZenonT(30)
    <2> QED BY <2>1, <2>3
  <1>7. A[s] \in Int
    BY <1>1
  <1> QED BY <1>1, <1>3, <1>5, <1>6, <1>7

LEMMA LackOfSome ==
    ASSUME NEW p \in Nat, NEW D, NEW k, NEW A, IsPlan(D, p, k, A), NEW s \in 0 .. p - 1, D[s] < 0,
           NEW L, \A i \in 0 .. p - 1 : L[i] = -D[i]
    PROVE  SumFunctionOnSet(L, {i \in 0 .. s - 1 : L[i] > 0}) = A[k] - A[s]
  <1>1. /\ \A i \in 0 .. p : A[i] \in Int
        /\ \A i \in 0 .. p - 1 : D[i] \in Int /\ A[i + 1] = A[i] + D[i]
        /\ k \in 0 .. p
    BY DEF IsPlan
  <1>2. k <= s
    <2>1. s < k => D[s] >= 0
      BY DEF IsPlan
    <2> QED BY <1>1, <2>1
  <1>3. PICK S : S = k .. s - 1
    OBVIOUS
  <1>4. \A i \in 0 .. s - 1 : L[i] \in Int /\ (i < k => ~(L[i] > 0)) /\ (k <= i => L[i] \in Nat)
    <2>1. \A i \in 0 .. s - 1 : /\ D[i] \in Int /\ L[i] = -D[i]
                                /\ (i < k => D[i] >= 0) /\ (i >= k => D[i] <= 0)
      BY <1>1 DEF IsPlan
    <2> QED BY <2>1
  <1>5. IsFiniteSet(S) /\ \A i \in S : L[i] \in Nat
    <2>1. IsFiniteSet(k .. s - 1)
      BY <1>1, FS_Interval
    <2>2. \A i \in k .. s - 1 : L[i] \in Nat
      BY <1>1, <1>4
    <2> QED BY <1>3, <2>1, <2>2
  <1>6. SumFunctionOnSet(L, {i \in S : L[i] > 0}) = SumFunctionOnSet(L, S)
    BY <1>5, SumOfPositive
  <1>7. {i \in S : L[i] > 0} = {i \in 0 .. s - 1 : L[i] > 0}
    BY <1>1, <1>2, <1>3, <1>4
  <1>8. SumFunctionOnSet(L, k .. s - 1) = A[k] - A[s]
    <2>1. PICK B : B = [i \in 0 .. p |-> -A[i]]
      OBVIOUS
    <2>2. /\ \A i \in 0 .. p : B[i] \in Int /\ B[i] = -A[i]
          /\ \A i \in 0 .. p - 1 : L[i] \in Int /\ B[i + 1] = B[i] + L[i]
      <3>1. \A i \in 0 .. p : B[i] \in Int /\ B[i] = -A[i]
        BY <1>1, <2>1
      <3>2. ASSUME NEW i \in 0 .. p - 1
            PROVE  L[i] \in Int /\ B[i + 1] = B[i] + L[i]
        <4>1. i \in 0 .. p /\ i + 1 \in 0 .. p
          OBVIOUS
        <4>2. PICK x \in Int, y \in Int : x = A[i] /\ y = D[i] /\ A[i + 1] = x + y
          BY <1>1, <4>1
        <4>3. B[i] = -x /\ B[i + 1] = -(x + y) /\ L[i] = -y
          BY <3>1, <4>1, <4>2
        <4> QED BY <4>3
      <3> QED BY <3>1, <3>2
    <2>3. s \in k .. p /\ k \in 0 .. p /\ s \in 0 .. p
      BY <1>1, <1>2
    <2>4. SumFunctionOnSet(L, k .. s - 1) = B[s] - B[k]
      BY <2>2, <2>3, SumTelescopes, ZenonT(30)
    <2>5. PICK x \in Int, y \in Int : x = A[s] /\ y = A[k] /\ B[s] = -x /\ B[k] = -y
      BY <1>1, <2>2, <2>3
    <2> QED BY <2>4, <2>5, SMTT(40)
  <1> QED BY <1>3, <1>6, <1>7, <1>8
LEMMA FallsSomewhere ==
    ASSUME NEW p \in Nat, NEW D, NEW k, NEW A, IsPlan(D, p, k, A),
           NEW a \in 0 .. p, NEW b \in a .. p, A[b] < A[a]
    PROVE  \E j \in a .. b - 1 : D[j] < 0
  <1> DEFINE S == {c \in a .. b : A[c] < A[a]}
  <1>0. /\ \A i \in 0 .. p : A[i] \in Int
        /\ \A i \in 0 .. p - 1 : D[i] \in Int /\ A[i + 1] = A[i] + D[i]
    BY DEF IsPlan
  <1>1. S \in SUBSET Nat /\ b \in S
    OBVIOUS
  <1> HIDE DEF S
  <1>2. PICK c \in S : \A d \in S : c <= d
    BY <1>1, SmallestNumber
  <1>3. c \in a .. b /\ A[c] < A[a]
    BY <1>2 DEF S
  <1>4. c # a
    <2>1. A[a] \in Int
      BY <1>0
    <2> QED BY <1>3, <2>1
  <1>5. PICK e \in Int : a <= e /\ e <= b - 1 /\ c = e + 1
    <2>1. c - 1 \in Int /\ a <= c - 1 /\ c - 1 <= b - 1 /\ c = (c - 1) + 1
      BY <1>3, <1>4
    <2> QED BY <2>1
  <1>6. ~(A[e] < A[a])
    <2>1. e \in a .. b
      BY <1>5
    <2>2. e \notin S
      BY <1>1, <1>2, <1>5
    <2> QED BY <2>1, <2>2 DEF S
  <1>7. PICK x \in Int, y \in Int, z \in Int : x = A[e] /\ y = D[e] /\ z = A[a] /\ A[c] = x + y
    <2>1. e \in 0 .. p - 1 /\ e \in 0 .. p /\ a \in 0 .. p
      BY <1>5
    <2> QED BY <1>0, <1>5, <2>1
  <1>8. y < 0
    BY <1>3, <1>6, <1>7
  <1>9. e \in a .. b - 1
    BY <1>5
  <1> QED BY <1>7, <1>8, <1>9

(* How the numbers of the items of the ranks follow each other.            *)
LEMMA PlanOrder ==
    ASSUME NEW p \in Nat, NEW D, NEW k, NEW A, IsPlan(D, p, k, A), NEW s \in 0 .. p - 1
    PROVE  /\ D[s] > 0 => /\ A[s + 1] <= A[k]
                          /\ A[s + 1] < A[k] => s + 1 \in 0 .. p - 1 /\ D[s + 1] > 0
                          /\ \A t \in 0 .. p - 1 : s < t /\ D[t] > 0 => A[s + 1] <= A[t]
           /\ D[s] < 0 => /\ A[s + 1] >= 0
                          /\ A[s + 1] > 0 => s + 1 \in 0 .. p - 1 /\ D[s + 1] < 0
                          /\ \A t \in 0 .. p - 1 : s < t /\ D[t] < 0 => A[t] <= A[s + 1]
  <1>1. /\ \A i \in 0 .. p : A[i] \in Int
        /\ \A i \in 0 .. p - 1 : D[i] \in Int
        /\ k \in 0 .. p /\ A[p] = 0 /\ s + 1 \in 0 .. p
        /\ \A i \in 0 .. p - 1 : (i < k => D[i] >= 0) /\ (i >= k => D[i] <= 0)
    BY DEF IsPlan
  <1>2. A[s + 1] \in Int /\ A[k] \in Int /\ 0 <= A[s + 1] /\ A[s + 1] <= A[k]
    BY <1>1, PlanBounds
  <1>3. ASSUME D[s] > 0, A[s + 1] < A[k]
        PROVE  s + 1 \in 0 .. p - 1 /\ D[s + 1] > 0
    <2>1. s < k
      BY <1>1, <1>3
    <2>2. s + 1 # k
      BY <1>2, <1>3
    <2>3. s + 1 < k /\ s + 1 \in 0 .. p - 1
      BY <1>1, <2>1, <2>2
    <2> QED BY <1>3, <2>3 DEF IsPlan
  <1>4. ASSUME D[s] > 0, NEW t \in 0 .. p - 1, s < t, D[t] > 0
        PROVE  A[s + 1] <= A[t]
    <2>1. t < k /\ t <= k /\ t \in s + 1 .. p /\ s + 1 \in 0 .. p
      BY <1>1, <1>4
    <2> QED BY <2>1, PlanRises
  <1>5. ASSUME D[s] < 0, A[s + 1] > 0
        PROVE  s + 1 \in 0 .. p - 1 /\ D[s + 1] < 0
    <2>1. k <= s
      BY <1>1, <1>5
    <2>2. PICK a : a = s + 1
      OBVIOUS
    <2>3. a \in 0 .. p /\ p \in a .. p /\ A[p] < A[a]
      BY <1>1, <1>5, <2>2
    <2>4. PICK j \in a .. p - 1 : D[j] < 0
      BY <2>3, FallsSomewhere
    <2>5. s + 1 \in 0 .. p - 1 /\ j \in 0 .. p - 1 /\ k <= s + 1 /\ (s + 1 < j \/ s + 1 = j)
      BY <1>1, <2>1, <2>2, <2>4
    <2> QED BY <2>4, <2>5 DEF IsPlan
  <1>6. ASSUME D[s] < 0, NEW t \in 0 .. p - 1, s < t, D[t] < 0
        PROVE  A[t] <= A[s + 1]
    <2>1. k <= s + 1 /\ t \in s + 1 .. p /\ s + 1 \in 0 .. p
      BY <1>1, <1>6
    <2> QED BY <2>1, PlanRises
  <1> QED BY <1>2, <1>3, <1>4, <1>5, <1>6
(* Where a rank with a surplus sends its first problem: to the rank that   *)
(* lacks the problem of its number.                                        *)
LEMMA DestinationIs ==
    ASSUME P \in Nat, NEW g, NEW k, NEW A, NEW D, NEW L, D = Surpluses(g), L = Lacks(g),
           \A i \in 0 .. P - 1 : D[i] = Surplus(i, g) /\ L[i] = -D[i],
           IsPlan(D, P, k, A), NEW r \in 0 .. P - 1, D[r] > 0
    PROVE  \E i \in 0 .. P - 1 :
              /\ destination_first_external_problem(r, g)
                    = [rank |-> i, moved |-> A[r] - (A[k] - A[i])]
              /\ D[i] < 0
              /\ A[k] - A[i] <= A[r] /\ A[r] < A[k] - A[i + 1]
  <1>1. /\ \A i \in 0 .. P : A[i] \in Int
        /\ \A i \in 0 .. P - 1 : D[i] \in Int /\ A[i + 1] = A[i] + D[i]
        /\ k \in 0 .. P /\ A[P] = 0 /\ A[0] = 0
        /\ \A i \in 0 .. P - 1 : (i < k => D[i] >= 0) /\ (i >= k => D[i] <= 0)
    BY DEF IsPlan
  <1>2. r < k
    BY <1>1
  <1>3. 0 <= A[r] /\ A[r] < A[k] /\ A[r] \in Int /\ A[k] \in Int
    <2>1. r + 1 \in 0 .. P /\ r \in 0 .. P
      OBVIOUS
    <2>2. 0 <= A[r] /\ A[r + 1] <= A[k]
      BY <2>1, PlanBounds
    <2>3. PICK x \in Int, y \in Int, z \in Int :
              x = A[r] /\ y = D[r] /\ z = A[k] /\ A[r + 1] = x + y
      BY <1>1, <2>1
    <2> QED BY <2>2, <2>3
  <1>4. SumFunctionOnSet(D, 0 .. r - 1) = A[r]
    <2>1. PICK a : a = 0
      OBVIOUS
    <2>2. PICK p \in Nat : p = P
      OBVIOUS
    <2>3. /\ a \in 0 .. p /\ r \in a .. p
          /\ \A i \in 0 .. p : A[i] \in Int
          /\ \A i \in 0 .. p - 1 : D[i] \in Int /\ A[i + 1] = A[i] + D[i]
      BY <1>1, <2>1, <2>2
    <2>4. SumFunctionOnSet(D, a .. r - 1) = A[r] - A[a]
      BY <2>3, SumTelescopes
    <2> QED BY <1>1, <1>3, <2>1, <2>4
  <1> DEFINE S == {i \in r + 1 .. P - 1 : Surplus(i, g) < 0}
             f == Min(S)
  <1>5. \E j \in k .. P - 1 : D[j] < 0
    <2>1. P \in k .. P /\ A[P] < A[k]
      BY <1>1, <1>3
    <2> QED BY <1>1, <2>1, FallsSomewhere
  <1>6. f \in S /\ \A y \in S : f <= y
    <2>1. S \in SUBSET Nat
      OBVIOUS
    <2>2. S # {}
      BY <1>1, <1>2, <1>5
    <2> HIDE DEF S
    <2> QED BY <2>1, <2>2, MinIs
  <1>7. f \in 0 .. P - 1 /\ k <= f /\ D[f] < 0
    <2>1. f \in r + 1 .. P - 1 /\ Surplus(f, g) < 0
      BY <1>6
    <2> HIDE DEF f
    <2> QED BY <1>1, <2>1
  <1>8. A[f] = A[k]
    <2>1. SUFFICES ASSUME A[f] # A[k] PROVE FALSE
      OBVIOUS
    <2>2. f \in k .. P /\ f \in 0 .. P
      <3> HIDE DEF f
      <3> QED BY <1>1, <1>7
    <2>3. A[f] < A[k]
      <3>1. A[f] <= A[k] /\ A[f] \in Int
        <4> HIDE DEF f
        <4> QED BY <1>1, <2>2, PlanBounds
      <3> QED BY <1>3, <2>1, <3>1
    <2> HIDE DEF f
    <2>4. PICK j \in k .. f - 1 : D[j] < 0
      BY <1>1, <2>2, <2>3, FallsSomewhere
    <2>5. j \in r + 1 .. P - 1 /\ j < f /\ j \in 0 .. P - 1
      BY <1>1, <1>2, <1>7, <2>4
    <2>6. j \in S
      BY <2>4, <2>5
    <2> HIDE DEF S
    <2> QED BY <1>6, <1>7, <2>5, <2>6
  <1> HIDE DEF f
  <1>9. PICK B : B = [i \in 0 .. P |-> -A[i]]
    OBVIOUS
  <1>10. /\ \A i \in 0 .. P : B[i] \in Int /\ B[i] = -A[i]
         /\ \A i \in 0 .. P - 1 : L[i] \in Int /\ B[i + 1] = B[i] + L[i]
    <2>1. \A i \in 0 .. P : B[i] \in Int /\ B[i] = -A[i]
      BY <1>1, <1>9
    <2>2. ASSUME NEW i \in 0 .. P - 1
          PROVE  L[i] \in Int /\ B[i + 1] = B[i] + L[i]
      <3>1. i \in 0 .. P /\ i + 1 \in 0 .. P
        OBVIOUS
      <3>2. PICK x \in Int, y \in Int : x = A[i] /\ y = D[i] /\ A[i + 1] = x + y
        BY <1>1, <3>1
      <3>3. B[i] = -x /\ B[i + 1] = -(x + y) /\ L[i] = -y
        BY <2>1, <3>1, <3>2
      <3> QED BY <3>3
    <2> QED BY <2>1, <2>2
  <1>11. PICK l : l = P - 1
    OBVIOUS
  <1>12. l \in f .. P - 1 /\ B[l + 1] - B[f] > A[r] /\ A[r] \in Nat
    <2>1. l + 1 = P /\ P \in 0 .. P /\ f \in 0 .. P
      BY <1>7, <1>11
    <2>2. B[P] = 0 /\ B[f] = -A[k]
      BY <1>1, <1>8, <1>10, <2>1
    <2> QED BY <1>3, <1>7, <1>11, <2>1, <2>2
  <1>13. PICK i \in f .. P - 1 :
            /\ Locate(A[r], f, L) = [rank |-> i, moved |-> A[r] - (B[i] - B[f])]
            /\ B[i] - B[f] <= A[r] /\ A[r] < B[i + 1] - B[f]
    BY <1>7, <1>10, <1>12, LocateIs
  <1>14. destination_first_external_problem(r, g) = Locate(A[r], f, L)
    BY <1>4 DEF destination_first_external_problem, f, S
  <1>15. /\ i \in 0 .. P - 1 /\ B[i] - B[f] = A[k] - A[i]
         /\ B[i + 1] - B[f] = A[k] - A[i + 1]
         /\ A[i + 1] = A[i] + D[i] /\ A[i] \in Int /\ D[i] \in Int
    <2>1. i \in 0 .. P - 1 /\ i \in 0 .. P /\ i + 1 \in 0 .. P /\ f \in 0 .. P
      BY <1>7, <1>13
    <2>2. PICK x \in Int, y \in Int : x = A[i] /\ y = A[i + 1]
      BY <1>1, <2>1
    <2>3. B[i] = -x /\ B[i + 1] = -y /\ B[f] = -A[k]
      BY <1>8, <1>10, <2>1, <2>2
    <2> QED BY <1>1, <1>3, <2>1, <2>2, <2>3
  <1>16. D[i] < 0
    <2>1. PICK x \in Int, y \in Int, z \in Int, w \in Int :
              x = A[i] /\ y = D[i] /\ z = A[k] /\ w = A[r] /\ A[i + 1] = x + y
      BY <1>3, <1>15
    <2>2. z - x <= w /\ w < z - (x + y)
      BY <1>13, <1>15, <2>1
    <2> QED BY <2>1, <2>2
  <1> QED BY <1>13, <1>14, <1>15, <1>16
(* From whom a rank that lacks problems receives its first one: from the   *)
(* rank that has the problem of its number.                                *)
LEMMA SourceIs ==
    ASSUME P \in Nat, NEW g, NEW k, NEW A, NEW D, NEW L, D = Surpluses(g), L = Lacks(g),
           \A i \in 0 .. P - 1 : D[i] = Surplus(i, g) /\ L[i] = -D[i],
           IsPlan(D, P, k, A), NEW r \in 0 .. P - 1, D[r] < 0
    PROVE  \E i \in 0 .. P - 1 :
              /\ source_first_external_problem(r, g)
                    = [rank |-> i, moved |-> (A[k] - A[r]) - A[i]]
              /\ D[i] > 0
              /\ A[i] <= A[k] - A[r] /\ A[k] - A[r] < A[i + 1]
  <1>1. /\ \A i \in 0 .. P : A[i] \in Int
        /\ \A i \in 0 .. P - 1 : D[i] \in Int /\ A[i + 1] = A[i] + D[i]
        /\ k \in 0 .. P /\ A[P] = 0 /\ A[0] = 0
        /\ \A i \in 0 .. P - 1 : (i < k => D[i] >= 0) /\ (i >= k => D[i] <= 0)
    BY DEF IsPlan
  <1>2. k <= r
    BY <1>1
  <1>3. 0 < A[r] /\ A[r] <= A[k] /\ A[r] \in Int /\ A[k] \in Int
    <2>1. r + 1 \in 0 .. P /\ r \in 0 .. P
      OBVIOUS
    <2>2. 0 <= A[r + 1] /\ A[r] <= A[k]
      BY <2>1, PlanBounds
    <2>3. PICK x \in Int, y \in Int, z \in Int :
              x = A[r] /\ y = D[r] /\ z = A[k] /\ A[r + 1] = x + y
      BY <1>1, <2>1
    <2> QED BY <2>2, <2>3
  <1> DEFINE S == {i \in 0 .. P - 1 : Surplus(i, g) < 0}
             f == Min(S)
  <1>4. f \in S /\ \A y \in S : f <= y
    <2>1. S \in SUBSET Nat /\ r \in S
      OBVIOUS
    <2> HIDE DEF S
    <2> QED BY <2>1, MinIs
  <1>5. f \in 0 .. P - 1 /\ k <= f /\ f <= r /\ D[f] < 0
    <2>1. r \in S
      OBVIOUS
    <2>2. f <= r
      <3> HIDE DEF S, f
      <3> QED BY <1>4, <2>1
    <2>3. f \in 0 .. P - 1 /\ Surplus(f, g) < 0
      BY <1>4
    <2> HIDE DEF f
    <2> QED BY <1>1, <2>2, <2>3
  <1>6. A[f] = A[k]
    <2>1. SUFFICES ASSUME A[f] # A[k] PROVE FALSE
      OBVIOUS
    <2>2. f \in k .. P /\ f \in 0 .. P
      <3> HIDE DEF f
      <3> QED BY <1>1, <1>5
    <2>3. A[f] < A[k]
      <3>1. A[f] <= A[k] /\ A[f] \in Int
        <4> HIDE DEF f
        <4> QED BY <1>1, <2>2, PlanBounds
      <3> QED BY <1>3, <2>1, <3>1
    <2> HIDE DEF f
    <2>4. PICK j \in k .. f - 1 : D[j] < 0
      BY <1>1, <2>2, <2>3, FallsSomewhere
    <2>5. j < f /\ j \in 0 .. P - 1
      BY <1>1, <1>2, <1>5, <2>4
    <2>6. j \in S
      BY <2>4, <2>5
    <2> HIDE DEF S
    <2> QED BY <1>4, <1>5, <2>5, <2>6
  <1> HIDE DEF f
  <1>7. PICK B : B = [i \in 0 .. P |-> -A[i]]
    OBVIOUS
  <1>8. /\ \A i \in 0 .. P : B[i] \in Int /\ B[i] = -A[i]
        /\ \A i \in 0 .. P - 1 : L[i] \in Int /\ B[i + 1] = B[i] + L[i]
    <2>1. \A i \in 0 .. P : B[i] \in Int /\ B[i] = -A[i]
      BY <1>1, <1>7
    <2>2. ASSUME NEW i \in 0 .. P - 1
          PROVE  L[i] \in Int /\ B[i + 1] = B[i] + L[i]
      <3>1. i \in 0 .. P /\ i + 1 \in 0 .. P
        OBVIOUS
      <3>2. PICK x \in Int, y \in Int : x = A[i] /\ y = D[i] /\ A[i + 1] = x + y
        BY <1>1, <3>1
      <3>3. B[i] = -x /\ B[i + 1] = -(x + y) /\ L[i] = -y
        BY <2>1, <3>1, <3>2
      <3> QED BY <3>3
    <2> QED BY <2>1, <2>2
  <1>9. PICK n \in Nat : n = A[k] - A[r]
    BY <1>3
  <1>10. SumFunctionOnSet(L, f .. r - 1) = n
    <2>1. PICK p \in Nat : p = P
      OBVIOUS
    <2>2. /\ f \in 0 .. p /\ r \in f .. p
          /\ \A i \in 0 .. p : B[i] \in Int
          /\ \A i \in 0 .. p - 1 : L[i] \in Int /\ B[i + 1] = B[i] + L[i]
      BY <1>5, <1>8, <2>1
    <2>3. SumFunctionOnSet(L, f .. r - 1) = B[r] - B[f]
      BY <2>2, SumTelescopes, ZenonT(30)
    <2>4. B[r] = -A[r] /\ B[f] = -A[k]
      BY <1>6, <1>8, <2>1, <2>2
    <2> QED BY <1>3, <1>9, <2>3, <2>4
  <1>11. PICK a, l : a = 0 /\ l = k - 1
    OBVIOUS
  <1>12. l \in a .. P - 1 /\ a \in 0 .. P - 1 /\ A[l + 1] - A[a] > n
    <2>1. k # 0
      BY <1>1, <1>3
    <2> QED BY <1>1, <1>3, <1>9, <1>11, <2>1
  <1>13. PICK i \in a .. P - 1 :
            /\ Locate(n, a, D) = [rank |-> i, moved |-> n - (A[i] - A[a])]
            /\ A[i] - A[a] <= n /\ n < A[i + 1] - A[a]
    BY <1>1, <1>12, LocateIs
  <1>14. source_first_external_problem(r, g) = Locate(n, 0, D)
    BY <1>10 DEF source_first_external_problem, f, S, Ranks
  <1>15. i \in 0 .. P - 1 /\ A[i] \in Int /\ A[i + 1] \in Int /\ A[a] = 0
    <2>1. i \in 0 .. P - 1 /\ i \in 0 .. P /\ i + 1 \in 0 .. P
      BY <1>11, <1>13
    <2> QED BY <1>1, <1>11, <2>1
  <1>16. PICK x \in Int, y \in Int : x = A[i] /\ y = D[i] /\ A[i + 1] = x + y
    BY <1>1, <1>15
  <1>17. x <= n /\ n < x + y /\ n - (A[i] - A[a]) = n - x
    BY <1>13, <1>15, <1>16
  <1>18. D[i] > 0
    BY <1>16, <1>17
  <1>19. source_first_external_problem(r, g) = [rank |-> i, moved |-> n - x]
    BY <1>11, <1>13, <1>14, <1>17
  <1> QED BY <1>9, <1>15, <1>16, <1>17, <1>18, <1>19
(* What both ends of the transfers of level g agree on: T items change     *)
(* rank, those of rank s are numbered from lo[s] to hi[s] - 1, every rank  *)
(* finds the peer that has, or lacks, its first one, and the next peer is  *)
(* the next rank.                                                          *)
Agreed(g, lo, hi, T) ==
    /\ T \in Nat
    /\ \A s \in Ranks : /\ Surplus(s, g) \in Int /\ HaveOf(s, g) \in Nat /\ DueOf(s, g) \in Nat
                        /\ lo[s] \in Nat /\ hi[s] \in Nat /\ hi[s] <= T
                        /\ Surplus(s, g) > 0 => hi[s] = lo[s] + Surplus(s, g)
                        /\ Surplus(s, g) <= 0 => hi[s] = lo[s] - Surplus(s, g)
                        /\ Slots(s, g) = lo[s] .. hi[s] - 1
    /\ \A s \in Ranks : Surplus(s, g) > 0 =>
          \E i \in Ranks : /\ destination_first_external_problem(s, g)
                                 = [rank |-> i, moved |-> lo[s] - lo[i]]
                           /\ Surplus(i, g) < 0 /\ lo[i] <= lo[s] /\ lo[s] < hi[i]
    /\ \A s \in Ranks : Surplus(s, g) < 0 =>
          \E i \in Ranks : /\ source_first_external_problem(s, g)
                                 = [rank |-> i, moved |-> lo[s] - lo[i]]
                           /\ Surplus(i, g) > 0 /\ lo[i] <= lo[s] /\ lo[s] < hi[i]
    /\ \A s \in Ranks : Surplus(s, g) > 0 /\ hi[s] < T =>
          s + 1 \in Ranks /\ Surplus(s + 1, g) > 0 /\ lo[s + 1] = hi[s]
    /\ \A s \in Ranks : Surplus(s, g) < 0 /\ hi[s] < T =>
          s + 1 \in Ranks /\ Surplus(s + 1, g) < 0 /\ lo[s + 1] = hi[s]
    /\ \A s, t \in Ranks : s < t /\ Surplus(s, g) > 0 /\ Surplus(t, g) > 0 => hi[s] <= lo[t]
    /\ \A s, t \in Ranks : s < t /\ Surplus(s, g) < 0 /\ Surplus(t, g) < 0 => hi[s] <= lo[t]

(* They do at every level.                                                 *)
LEMMA LevelAgreed ==
    ASSUME conf \in Cases, NEW h \in Nat
    PROVE  \E lo, hi, T : Agreed(N * h, lo, hi, T)
  <1>1. N \in Nat \ {0} /\ P \in Nat \ {0}
    BY CasesAssumption DEF N, P
  <1>2. PICK g, D, L : g = N * h /\ D = Surpluses(g) /\ L = Lacks(g)
    OBVIOUS
  <1>3. D = [i \in 0 .. P - 1 |-> Have(i, N * h, N, P) - Due(i, N * h, P)]
    BY <1>2 DEF Surpluses, Surplus, HaveOf, DueOf, Ranks
  <1>4. PICK k, A : IsPlan(D, P, k, A)
    <2>1. PICK n \in Nat \ {0}, p \in Nat \ {0} : n = N /\ p = P
      BY <1>1
    <2>2. D = [i \in 0 .. p - 1 |-> Have(i, n * h, n, p) - Due(i, n * h, p)]
      BY <1>3, <2>1
    <2>3. \E k, A : IsPlan(D, p, k, A)
      BY <2>2, LevelIsPlan
    <2> QED BY <2>1, <2>3
  <1>5. /\ \A i \in 0 .. P : A[i] \in Int
        /\ \A i \in 0 .. P - 1 : D[i] \in Int /\ A[i + 1] = A[i] + D[i]
        /\ k \in 0 .. P
    BY <1>4 DEF IsPlan
  <1>6. \A i \in 0 .. P - 1 : D[i] = Surplus(i, g) /\ L[i] = -D[i]
    BY <1>2 DEF Surpluses, Lacks, Ranks
  <1>7. \A i \in 0 .. P - 1 : HaveOf(i, g) \in Nat /\ DueOf(i, g) \in Nat
    <2> SUFFICES ASSUME NEW i \in 0 .. P - 1
                 PROVE  HaveOf(i, g) \in Nat /\ DueOf(i, g) \in Nat
      OBVIOUS
    <2>1. PICK n \in Nat \ {0}, p \in Nat \ {0} : n = N /\ p = P
      BY <1>1
    <2>2. g \in Nat /\ g \div n \in Nat /\ i \in Int
      BY <1>2, <2>1, QuotientOfMultiple, DivMod
    <2>3. PICK x \in Nat, y \in Nat : x = NLocal(i, g \div n, p) /\ y = NLocal(i, g, p)
      BY <2>2, SharesAreNat
    <2>4. HaveOf(i, g) = n * x /\ DueOf(i, g) = y
      BY <2>1, <2>3 DEF HaveOf, DueOf, Have, Due
    <2>5. n * x \in Nat
      OBVIOUS
    <2> QED BY <2>4, <2>5
  <1>8. PICK T \in Nat : T = A[k] /\ \A i \in 0 .. P : 0 <= A[i] /\ A[i] <= T
    <2>1. P \in Nat
      BY <1>1
    <2>2. \A i \in 0 .. P : 0 <= A[i] /\ A[i] <= A[k]
      BY <1>4, <2>1, PlanBounds
    <2>3. A[k] \in Int /\ 0 <= A[k]
      BY <1>5, <2>2
    <2> QED BY <2>2, <2>3
  <1> DEFINE lo == [s \in 0 .. P - 1 |-> IF D[s] > 0 THEN A[s] ELSE T - A[s]]
             hi == [s \in 0 .. P - 1 |-> IF D[s] > 0 THEN A[s + 1] ELSE T - A[s + 1]]
  <1>9. \A s \in 0 .. P - 1 : /\ s \in 0 .. P /\ s + 1 \in 0 .. P
                              /\ lo[s] = IF D[s] > 0 THEN A[s] ELSE T - A[s]
                              /\ hi[s] = IF D[s] > 0 THEN A[s + 1] ELSE T - A[s + 1]
    BY <1>1
  <1> HIDE DEF lo, hi
  <1>10. \A s \in 0 .. P - 1 : /\ lo[s] \in Nat /\ hi[s] \in Nat /\ hi[s] <= T
                               /\ D[s] > 0 => hi[s] = lo[s] + D[s]
                               /\ D[s] <= 0 => hi[s] = lo[s] - D[s]
    <2> SUFFICES ASSUME NEW s \in 0 .. P - 1
                 PROVE  /\ lo[s] \in Nat /\ hi[s] \in Nat /\ hi[s] <= T
                        /\ D[s] > 0 => hi[s] = lo[s] + D[s]
                        /\ D[s] <= 0 => hi[s] = lo[s] - D[s]
      OBVIOUS
    <2>1. PICK x \in Int, d \in Int : /\ x = A[s] /\ d = D[s] /\ A[s + 1] = x + d
                                      /\ 0 <= x /\ x <= T /\ 0 <= x + d /\ x + d <= T
      BY <1>5, <1>8, <1>9
    <2>2. lo[s] = (IF d > 0 THEN x ELSE T - x) /\ hi[s] = (IF d > 0 THEN x + d ELSE T - (x + d))
      BY <1>9, <2>1
    <2> QED BY <2>1, <2>2
  <1>11. \A s \in 0 .. P - 1 : Slots(s, g) = lo[s] .. hi[s] - 1
    <2> SUFFICES ASSUME NEW s \in 0 .. P - 1
                 PROVE  Slots(s, g) = lo[s] .. hi[s] - 1
      OBVIOUS
    <2>1. PICK items : items = IF D[s] > 0 THEN D ELSE L
      OBVIOUS
    <2>2. PICK first : first = SumFunctionOnSet(items, {i \in 0 .. s - 1 : items[i] > 0})
      OBVIOUS
    <2>3. Slots(s, g) = first .. first + items[s] - 1
      BY <1>2, <1>6, <2>1, <2>2 DEF Slots
    <2>4. PICK x \in Int, d \in Int : x = A[s] /\ d = D[s] /\ A[s + 1] = x + d
      BY <1>5, <1>9
    <2>5. CASE D[s] > 0
      <3>1. first = A[s]
        BY <1>1, <1>4, <2>1, <2>2, <2>5, ExcessOfSome
      <3>2. items[s] = d /\ lo[s] = x /\ hi[s] = x + d
        BY <1>9, <2>1, <2>4, <2>5
      <3>3. first + items[s] - 1 = x + d - 1 /\ hi[s] - 1 = x + d - 1 /\ first = x
        BY <2>4, <3>1, <3>2
      <3> QED BY <2>3, <3>2, <3>3
    <2>6. CASE D[s] < 0
      <3>1. items = L
        BY <2>1, <2>4, <2>6
      <3>2. first = A[k] - A[s]
        BY <1>1, <1>4, <1>6, <2>2, <2>6, <3>1, LackOfSome
      <3>3. items[s] = -d /\ lo[s] = T - x /\ hi[s] = T - (x + d)
        BY <1>6, <1>9, <2>4, <2>6, <3>1
      <3>4. first = T - x /\ first + items[s] - 1 = T - (x + d) - 1 /\ hi[s] - 1 = T - (x + d) - 1
        BY <1>8, <2>4, <3>2, <3>3
      <3> QED BY <2>3, <3>3, <3>4
    <2>7. CASE D[s] = 0
      <3>1. items = L
        BY <2>1, <2>7
      <3>2. first \in Int
        <4>1. PICK S : S = {i \in 0 .. s - 1 : items[i] > 0}
          OBVIOUS
        <4>2. \A i \in 0 .. s - 1 : items[i] \in Int
          <5>1. \A i \in 0 .. s - 1 : i \in 0 .. P - 1
            BY <1>1
          <5>2. \A i \in 0 .. P - 1 : items[i] \in Int
            BY <1>5, <1>6, <3>1
          <5> QED BY <5>1, <5>2
        <4>3. S \subseteq 0 .. s - 1 /\ \A i \in S : items[i] \in Int
          BY <4>1, <4>2
        <4>4. IsFiniteSet(0 .. s - 1)
          BY FS_Interval
        <4>5. IsFiniteSet(S)
          BY <4>3, <4>4, FS_Subset
        <4> QED BY <2>2, <4>1, <4>3, <4>5, SumOnInt
      <3>3. items[s] = 0 /\ lo[s] = T - x /\ hi[s] = T - x
        BY <1>6, <1>9, <2>4, <2>7, <3>1
      <3>4. first .. first + items[s] - 1 = {} /\ lo[s] .. hi[s] - 1 = {}
        BY <2>4, <3>2, <3>3
      <3> QED BY <2>3, <3>4
    <2> QED BY <2>4, <2>5, <2>6, <2>7
  <1>12. ASSUME NEW s \in 0 .. P - 1, D[s] > 0
         PROVE  \E i \in 0 .. P - 1 :
                    /\ destination_first_external_problem(s, g)
                          = [rank |-> i, moved |-> lo[s] - lo[i]]
                    /\ D[i] < 0 /\ lo[i] <= lo[s] /\ lo[s] < hi[i]
    <2>1. PICK i \in 0 .. P - 1 :
              /\ destination_first_external_problem(s, g)
                    = [rank |-> i, moved |-> A[s] - (A[k] - A[i])]
              /\ D[i] < 0
              /\ A[k] - A[i] <= A[s] /\ A[s] < A[k] - A[i + 1]
      BY <1>1, <1>2, <1>4, <1>6, <1>12, DestinationIs
    <2>2. ~(D[i] > 0)
      BY <1>5, <2>1
    <2>3. lo[s] = A[s] /\ lo[i] = A[k] - A[i] /\ hi[i] = A[k] - A[i + 1]
      BY <1>8, <1>9, <1>12, <2>2
    <2> QED BY <2>1, <2>3
  <1>13. ASSUME NEW s \in 0 .. P - 1, D[s] < 0
         PROVE  \E i \in 0 .. P - 1 :
                    /\ source_first_external_problem(s, g)
                          = [rank |-> i, moved |-> lo[s] - lo[i]]
                    /\ D[i] > 0 /\ lo[i] <= lo[s] /\ lo[s] < hi[i]
    <2>1. PICK i \in 0 .. P - 1 :
              /\ source_first_external_problem(s, g)
                    = [rank |-> i, moved |-> (A[k] - A[s]) - A[i]]
              /\ D[i] > 0
              /\ A[i] <= A[k] - A[s] /\ A[k] - A[s] < A[i + 1]
      BY <1>1, <1>2, <1>4, <1>6, <1>13, SourceIs
    <2>2. ~(D[s] > 0)
      BY <1>5, <1>13
    <2>3. lo[s] = A[k] - A[s] /\ lo[i] = A[i] /\ hi[i] = A[i + 1]
      BY <1>8, <1>9, <2>1, <2>2
    <2> QED BY <2>1, <2>3
  <1>14. ASSUME NEW s \in 0 .. P - 1
         PROVE  /\ D[s] > 0 => /\ hi[s] < T => /\ s + 1 \in 0 .. P - 1 /\ D[s + 1] > 0
                                               /\ lo[s + 1] = hi[s]
                               /\ \A t \in 0 .. P - 1 : s < t /\ D[t] > 0 => hi[s] <= lo[t]
                /\ D[s] < 0 => /\ hi[s] < T => /\ s + 1 \in 0 .. P - 1 /\ D[s + 1] < 0
                                               /\ lo[s + 1] = hi[s]
                               /\ \A t \in 0 .. P - 1 : s < t /\ D[t] < 0 => hi[s] <= lo[t]
    <2>1. P \in Nat
      BY <1>1
    <2>2. /\ D[s] > 0 => /\ A[s + 1] <= A[k]
                         /\ A[s + 1] < A[k] => s + 1 \in 0 .. P - 1 /\ D[s + 1] > 0
                         /\ \A t \in 0 .. P - 1 : s < t /\ D[t] > 0 => A[s + 1] <= A[t]
          /\ D[s] < 0 => /\ A[s + 1] >= 0
                         /\ A[s + 1] > 0 => s + 1 \in 0 .. P - 1 /\ D[s + 1] < 0
                         /\ \A t \in 0 .. P - 1 : s < t /\ D[t] < 0 => A[t] <= A[s + 1]
      BY <1>4, <2>1, PlanOrder
    <2>3. CASE D[s] > 0
      <3>1. hi[s] = A[s + 1] /\ \A t \in 0 .. P - 1 : D[t] > 0 => lo[t] = A[t]
        BY <1>9, <2>3
      <3>2. hi[s] < T => s + 1 \in 0 .. P - 1 /\ D[s + 1] > 0 /\ lo[s + 1] = hi[s]
        BY <1>8, <2>2, <2>3, <3>1
      <3>3. \A t \in 0 .. P - 1 : s < t /\ D[t] > 0 => hi[s] <= lo[t]
        BY <2>2, <2>3, <3>1
      <3>4. ~(D[s] < 0)
        BY <1>5, <2>3
      <3> QED BY <3>2, <3>3, <3>4
    <2>4. CASE D[s] < 0
      <3>1. \A t \in 0 .. P - 1 : D[t] < 0 => ~(D[t] > 0)
        BY <1>5
      <3>2. hi[s] = T - A[s + 1] /\ \A t \in 0 .. P - 1 : D[t] < 0 => lo[t] = T - A[t]
        BY <1>9, <2>4, <3>1
      <3>3. A[s + 1] \in Int /\ s + 1 \in 0 .. P
        BY <1>5, <1>9
      <3>4. hi[s] < T => A[s + 1] > 0
        BY <3>2, <3>3
      <3>5. hi[s] < T => s + 1 \in 0 .. P - 1 /\ D[s + 1] < 0
        BY <2>2, <2>4, <3>4
      <3>6. hi[s] < T => lo[s + 1] = hi[s]
        BY <3>2, <3>5
      <3>7. ASSUME NEW t \in 0 .. P - 1, s < t, D[t] < 0
            PROVE  hi[s] <= lo[t]
        <4>1. A[t] <= A[s + 1] /\ lo[t] = T - A[t] /\ A[t] \in Int
          BY <1>5, <1>9, <2>2, <2>4, <3>2, <3>7
        <4> QED BY <3>2, <3>3, <4>1
      <3>8. ~(D[s] > 0)
        BY <3>1, <2>4
      <3> QED BY <3>5, <3>6, <3>7, <3>8
    <2>5. CASE ~(D[s] > 0) /\ ~(D[s] < 0)
      BY <2>5
    <2> QED BY <2>3, <2>4, <2>5
  <1>15. Agreed(g, lo, hi, T)
    <2>1. Ranks = 0 .. P - 1
      BY DEF Ranks
    <2>2. \A s \in Ranks : /\ Surplus(s, g) \in Int /\ HaveOf(s, g) \in Nat /\ DueOf(s, g) \in Nat
                           /\ lo[s] \in Nat /\ hi[s] \in Nat /\ hi[s] <= T
                           /\ Surplus(s, g) > 0 => hi[s] = lo[s] + Surplus(s, g)
                           /\ Surplus(s, g) <= 0 => hi[s] = lo[s] - Surplus(s, g)
                           /\ Slots(s, g) = lo[s] .. hi[s] - 1
      BY <1>5, <1>6, <1>7, <1>10, <1>11, <2>1
    <2>3. \A s \in Ranks : Surplus(s, g) > 0 =>
             \E i \in Ranks : /\ destination_first_external_problem(s, g)
                                    = [rank |-> i, moved |-> lo[s] - lo[i]]
                              /\ Surplus(i, g) < 0 /\ lo[i] <= lo[s] /\ lo[s] < hi[i]
      BY <1>6, <1>12, <2>1
    <2>4. \A s \in Ranks : Surplus(s, g) < 0 =>
             \E i \in Ranks : /\ source_first_external_problem(s, g)
                                    = [rank |-> i, moved |-> lo[s] - lo[i]]
                              /\ Surplus(i, g) > 0 /\ lo[i] <= lo[s] /\ lo[s] < hi[i]
      BY <1>6, <1>13, <2>1
    <2>5. /\ \A s \in Ranks : Surplus(s, g) > 0 /\ hi[s] < T =>
                s + 1 \in Ranks /\ Surplus(s + 1, g) > 0 /\ lo[s + 1] = hi[s]
          /\ \A s \in Ranks : Surplus(s, g) < 0 /\ hi[s] < T =>
                s + 1 \in Ranks /\ Surplus(s + 1, g) < 0 /\ lo[s + 1] = hi[s]
      BY <1>6, <1>14, <2>1
    <2>6. /\ \A s, t \in Ranks : s < t /\ Surplus(s, g) > 0 /\ Surplus(t, g) > 0 => hi[s] <= lo[t]
          /\ \A s, t \in Ranks : s < t /\ Surplus(s, g) < 0 /\ Surplus(t, g) < 0 => hi[s] <= lo[t]
      BY <1>6, <1>14, <2>1
    <2> QED BY <1>8, <2>2, <2>3, <2>4, <2>5, <2>6 DEF Agreed
  <1> QED BY <1>2, <1>15
---------------------------------------------------------------------------
(* The numbers of problems a run goes through: the powers of the arity.    *)
Closed(S, n) == 1 \in S /\ \A x \in S : n * x \in S

LevelsOf(n) == {g \in Nat : \A S \in SUBSET Nat : Closed(S, n) => g \in S}

LEMMA LevelsAre ==
    ASSUME NEW n \in Nat \ {0, 1}
    PROVE  /\ LevelsOf(n) \subseteq Nat \ {0}
           /\ 1 \in LevelsOf(n)
           /\ \A g \in LevelsOf(n) : n * g \in LevelsOf(n) /\ n * g > g
           /\ \A g \in LevelsOf(n) : g # 1 => \E h \in LevelsOf(n) : g = n * h
           /\ \A g, h \in LevelsOf(n) : g < h => n * g <= h
  <1>1. 1 \in LevelsOf(n)
    BY DEF LevelsOf, Closed
  <1>2. ASSUME NEW g \in LevelsOf(n)
        PROVE  n * g \in LevelsOf(n)
    <2>1. g \in Nat /\ n * g \in Nat
      BY DEF LevelsOf
    <2>2. ASSUME NEW S \in SUBSET Nat, Closed(S, n)
          PROVE  n * g \in S
      <3>1. g \in S
        BY <2>2 DEF LevelsOf
      <3> QED BY <2>2, <3>1 DEF Closed
    <2> QED BY <2>1, <2>2 DEF LevelsOf
  <1>3. \A S \in SUBSET Nat : Closed(S, n) => LevelsOf(n) \subseteq S
    BY DEF LevelsOf
  <1>4. LevelsOf(n) \subseteq Nat \ {0}
    <2>1. PICK S : S = Nat \ {0}
      OBVIOUS
    <2>2. \A x \in S : n * x \in Nat /\ n * x # 0
      <3> SUFFICES ASSUME NEW x \in S PROVE n * x \in Nat /\ n * x # 0
        OBVIOUS
      <3>1. x \in Nat \ {0}
        BY <2>1
      <3> QED BY <3>1
    <2>3. S \in SUBSET Nat /\ Closed(S, n)
      BY <2>1, <2>2 DEF Closed
    <2> QED BY <1>3, <2>1, <2>3
  <1>5. \A g \in LevelsOf(n) : n * g > g
    <2> SUFFICES ASSUME NEW g \in LevelsOf(n) PROVE n * g > g
      OBVIOUS
    <2>1. g \in Nat \ {0}
      BY <1>4
    <2>2. n * g >= 2 * g
      BY <2>1
    <2> QED BY <2>1, <2>2
  <1>6. \A g \in LevelsOf(n) : g # 1 => \E h \in LevelsOf(n) : g = n * h
    <2>1. PICK S : S = {g \in LevelsOf(n) : g = 1 \/ \E h \in LevelsOf(n) : g = n * h}
      OBVIOUS
    <2>2. S \in SUBSET Nat
      BY <1>4, <2>1
    <2>3. Closed(S, n)
      BY <1>1, <1>2, <2>1 DEF Closed
    <2>4. LevelsOf(n) \subseteq S
      BY <1>3, <2>2, <2>3
    <2> QED BY <2>1, <2>4
  <1>7. \A g, h \in LevelsOf(n) : g < h => n * g <= h
    <2>1. PICK S : S = {g \in LevelsOf(n) : \A h \in LevelsOf(n) : g < h => n * g <= h}
      OBVIOUS
    <2>2. S \in SUBSET Nat
      BY <1>4, <2>1
    <2>3. 1 \in S
      <3>1. ASSUME NEW h \in LevelsOf(n), 1 < h
            PROVE  n * 1 <= h
        <4>1. h # 1
          BY <3>1
        <4>2. PICK e \in LevelsOf(n) : h = n * e
          BY <1>6, <4>1
        <4>3. e \in Nat \ {0}
          BY <1>4
        <4>4. n * 1 <= n * e
          BY <4>3
        <4> QED BY <4>2, <4>4
      <3> QED BY <1>1, <2>1, <3>1
    <2>4. ASSUME NEW g \in S
          PROVE  n * g \in S
      <3>1. g \in LevelsOf(n) /\ g \in Nat \ {0} /\ n * g \in LevelsOf(n)
        BY <1>2, <1>4, <2>1
      <3>2. ASSUME NEW h \in LevelsOf(n), n * g < h
            PROVE  n * (n * g) <= h
        <4>1. h \in Nat /\ n * g >= 1
          BY <1>4, <3>1
        <4>2. h # 1
          BY <3>1, <3>2, <4>1
        <4>3. PICK e \in LevelsOf(n) : h = n * e
          BY <1>6, <4>2
        <4>4. e \in Nat \ {0}
          BY <1>4
        <4>5. g < e
          <5>1. SUFFICES ASSUME e <= g PROVE FALSE
            BY <3>1, <4>4
          <5>2. n * e <= n * g
            BY <3>1, <4>4, <5>1
          <5> QED BY <3>1, <3>2, <4>1, <4>3, <5>2
        <4>6. n * g <= e
          BY <2>1, <4>5
        <4>7. n * (n * g) <= n * e
          <5>1. PICK u \in Nat : u = n * g
            BY <3>1
          <5>2. n * u <= n * e
            BY <4>4, <4>6, <5>1
          <5> QED BY <5>1, <5>2
        <4> QED BY <4>3, <4>7
      <3> QED BY <2>1, <3>1, <3>2
    <2>5. Closed(S, n)
      BY <2>3, <2>4 DEF Closed
    <2>6. LevelsOf(n) \subseteq S
      BY <1>3, <2>2, <2>5
    <2> QED BY <2>1, <2>6
  <1> QED BY <1>1, <1>2, <1>4, <1>5, <1>6, <1>7
---------------------------------------------------------------------------
(* The loop of one rank over the items it sends or receives at a level.    *)
PartsOf(back) == IF back THEN conf.moves ELSE <<"input">>

LeastOf(r, g) == Min({HaveOf(r, g), DueOf(r, g)})
MostOf(r, g) == Max({HaveOf(r, g), DueOf(r, g)})

\* the number of the item x is at
SlotAt(r, g, x) == Min(Slots(r, g)) + x.pos - LeastOf(r, g)

\* the peers of a rank are on the other side
Opposite(r, s, g) == \/ Surplus(r, g) > 0 /\ Surplus(s, g) < 0
                     \/ Surplus(r, g) < 0 /\ Surplus(s, g) > 0

XferOK(r, g, x, parts) ==
    /\ x = [pos |-> x.pos, last |-> x.last, peer |-> x.peer, moved |-> x.moved, part |-> x.part]
    /\ x.pos \in Nat /\ x.last \in Nat /\ x.part \in 1 .. parts
    /\ Surplus(r, g) = 0 => x.pos = x.last
    /\ Surplus(r, g) # 0 => LeastOf(r, g) <= x.pos /\ x.pos <= x.last /\ x.last = MostOf(r, g)
    /\ x.pos < x.last => /\ x.peer \in Ranks
                         /\ Opposite(r, x.peer, g)
                         /\ SlotAt(r, g, x) \in Slots(x.peer, g)
                         /\ x.moved = SlotAt(r, g, x) - Min(Slots(x.peer, g))

(* What is agreed of one rank.                                             *)
LEMMA AgreedOn ==
    ASSUME NEW g, NEW lo, NEW hi, NEW T, Agreed(g, lo, hi, T), NEW s \in Ranks
    PROVE  /\ Surplus(s, g) \in Int /\ HaveOf(s, g) \in Nat /\ DueOf(s, g) \in Nat
           /\ lo[s] \in Nat /\ hi[s] \in Nat /\ hi[s] <= T /\ T \in Nat
           /\ Surplus(s, g) > 0 => hi[s] = lo[s] + Surplus(s, g)
           /\ Surplus(s, g) <= 0 => hi[s] = lo[s] - Surplus(s, g)
           /\ Slots(s, g) = lo[s] .. hi[s] - 1
  BY Zenon DEF Agreed

(* The first number of a rank that has any.                                *)
LEMMA FirstSlot ==
    ASSUME NEW g, NEW lo, NEW hi, NEW T, Agreed(g, lo, hi, T), NEW s \in Ranks, Surplus(s, g) # 0
    PROVE  /\ Slots(s, g) = lo[s] .. hi[s] - 1 /\ lo[s] \in Nat /\ hi[s] \in Nat /\ lo[s] < hi[s]
           /\ Min(Slots(s, g)) = lo[s]
  <1>1. Slots(s, g) = lo[s] .. hi[s] - 1 /\ lo[s] \in Nat /\ hi[s] \in Nat /\ lo[s] < hi[s]
    BY AgreedOn
  <1>2. Slots(s, g) \in SUBSET Nat /\ lo[s] \in Slots(s, g)
    BY <1>1
  <1>3. Min(Slots(s, g)) \in Slots(s, g) /\ Min(Slots(s, g)) <= lo[s]
    BY <1>2, MinIs
  <1> QED BY <1>1, <1>3

(* The numbers a rank has in its hands and those of its items.             *)
LEMMA LeastAndMost ==
    ASSUME NEW g, NEW lo, NEW hi, NEW T, Agreed(g, lo, hi, T), NEW s \in Ranks
    PROVE  /\ LeastOf(s, g) \in Nat /\ MostOf(s, g) \in Nat
           /\ MostOf(s, g) - LeastOf(s, g) = hi[s] - lo[s]
  <1>1. PICK h \in Nat, d \in Nat, l \in Nat, u \in Nat :
            /\ h = HaveOf(s, g) /\ d = DueOf(s, g) /\ Surplus(s, g) = h - d
            /\ l = lo[s] /\ u = hi[s]
    BY AgreedOn DEF Surplus
  <1>2. u - l = IF h > d THEN h - d ELSE d - h
    <2>1. /\ Surplus(s, g) > 0 => hi[s] = lo[s] + Surplus(s, g)
          /\ Surplus(s, g) <= 0 => hi[s] = lo[s] - Surplus(s, g)
      BY AgreedOn
    <2>2. (h - d > 0 => u = l + (h - d)) /\ (h - d <= 0 => u = l - (h - d))
      BY <1>1, <2>1
    <2> QED BY <2>2
  <1>3. LeastOf(s, g) = (IF h <= d THEN h ELSE d) /\ MostOf(s, g) = (IF h <= d THEN d ELSE h)
    BY <1>1, MinMaxOfPair DEF LeastOf, MostOf
  <1> QED BY <1>1, <1>2, <1>3

(* The loop starts with the first item of the rank, at the peer of that    *)
(* item.                                                                   *)
LEMMA StartOK ==
    ASSUME NEW g, NEW lo, NEW hi, NEW T, Agreed(g, lo, hi, T), NEW r \in Ranks,
           NEW parts \in {1, 2}, NEW x, x = StartXfer(r, g)
    PROVE  /\ XferOK(r, g, x, parts)
           /\ x.part = 1
           /\ Surplus(r, g) # 0 => SlotAt(r, g, x) = lo[r]
  <1>1. Surplus(r, g) \in Int /\ lo[r] \in Nat
    BY AgreedOn
  <1>2. CASE Surplus(r, g) = 0
    <2>1. x = Idle
      BY <1>2 DEF StartXfer
    <2>2. /\ x = [pos |-> x.pos, last |-> x.last, peer |-> x.peer, moved |-> x.moved,
                  part |-> x.part]
          /\ x.pos = 0 /\ x.last = 0 /\ x.part = 1
      BY <2>1 DEF Idle
    <2> QED BY <1>2, <2>2 DEF XferOK
  <1>3. CASE Surplus(r, g) # 0
    <2>1. PICK i, first :
              /\ i \in Ranks
              /\ first = IF Surplus(r, g) > 0 THEN destination_first_external_problem(r, g)
                                              ELSE source_first_external_problem(r, g)
              /\ first = [rank |-> i, moved |-> lo[r] - lo[i]]
              /\ Opposite(r, i, g) /\ lo[i] <= lo[r] /\ lo[r] < hi[i]
      <3>1. CASE Surplus(r, g) > 0
        <4>1. PICK i \in Ranks : /\ destination_first_external_problem(r, g)
                                       = [rank |-> i, moved |-> lo[r] - lo[i]]
                                 /\ Surplus(i, g) < 0 /\ lo[i] <= lo[r] /\ lo[r] < hi[i]
          BY <3>1 DEF Agreed
        <4> QED BY <3>1, <4>1 DEF Opposite
      <3>2. CASE ~(Surplus(r, g) > 0)
        <4>1. Surplus(r, g) < 0
          BY <1>1, <1>3, <3>2
        <4>2. PICK i \in Ranks : /\ source_first_external_problem(r, g)
                                       = [rank |-> i, moved |-> lo[r] - lo[i]]
                                 /\ Surplus(i, g) > 0 /\ lo[i] <= lo[r] /\ lo[r] < hi[i]
          BY <4>1 DEF Agreed
        <4> QED BY <3>2, <4>1, <4>2 DEF Opposite
      <3> QED BY <3>1, <3>2
    <2>2. x = [pos |-> LeastOf(r, g), last |-> MostOf(r, g), peer |-> i,
               moved |-> lo[r] - lo[i], part |-> 1]
      <3>1. x = [pos |-> LeastOf(r, g), last |-> MostOf(r, g), peer |-> first.rank,
                 moved |-> first.moved, part |-> 1]
        BY <1>3, <2>1, Zenon DEF StartXfer, LeastOf, MostOf
      <3>2. first.rank = i /\ first.moved = lo[r] - lo[i]
        BY <2>1
      <3> QED BY <3>1, <3>2
    <2>3. /\ x.pos = LeastOf(r, g) /\ x.last = MostOf(r, g) /\ x.peer = i
          /\ x.moved = lo[r] - lo[i] /\ x.part = 1
          /\ x = [pos |-> x.pos, last |-> x.last, peer |-> x.peer, moved |-> x.moved,
                  part |-> x.part]
      BY <2>2
    <2>4. LeastOf(r, g) \in Nat /\ MostOf(r, g) \in Nat /\ LeastOf(r, g) <= MostOf(r, g)
      <3>1. /\ LeastOf(r, g) \in Nat /\ MostOf(r, g) \in Nat
            /\ MostOf(r, g) - LeastOf(r, g) = hi[r] - lo[r]
        BY LeastAndMost
      <3>2. lo[r] < hi[r] /\ lo[r] \in Nat /\ hi[r] \in Nat
        BY <1>3, FirstSlot
      <3> QED BY <3>1, <3>2
    <2>5. SlotAt(r, g, x) = lo[r]
      <3>1. Min(Slots(r, g)) = lo[r]
        BY <1>3, FirstSlot
      <3> QED BY <1>1, <2>3, <2>4, <3>1 DEF SlotAt
    <2>6. lo[r] \in Slots(i, g) /\ Min(Slots(i, g)) = lo[i]
      <3>1. Surplus(i, g) # 0
        BY <2>1 DEF Opposite
      <3>2. /\ Slots(i, g) = lo[i] .. hi[i] - 1 /\ lo[i] \in Nat /\ hi[i] \in Nat
            /\ Min(Slots(i, g)) = lo[i]
        BY <2>1, <3>1, FirstSlot
      <3> QED BY <1>1, <2>1, <3>2
    <2> QED BY <1>3, <2>1, <2>3, <2>4, <2>5, <2>6 DEF XferOK
  <1> QED BY <1>2, <1>3
(* The loop goes on to the next part of its item or to the next item, and  *)
(* turns to the next peer when the one it is at is served.                 *)
Next1(r, g, x, parts) ==
    LET served == IF Surplus(r, g) > 0 THEN finished_receives(x.peer, g, x.moved + 1)
                                       ELSE finished_sends(x.peer, g, x.moved + 1)
    IN  IF x.part < parts THEN [x EXCEPT !.part = @ + 1]
        ELSE [pos |-> x.pos + 1, last |-> x.last, part |-> 1,
              peer |-> IF served THEN x.peer + 1 ELSE x.peer,
              moved |-> IF served THEN 0 ELSE x.moved + 1]

LEMMA NextOK ==
    ASSUME NEW g, NEW lo, NEW hi, NEW T, Agreed(g, lo, hi, T), NEW r \in Ranks,
           NEW parts \in {1, 2}, NEW x, XferOK(r, g, x, parts), x.pos < x.last,
           NEW y, y = Next1(r, g, x, parts)
    PROVE  /\ XferOK(r, g, y, parts)
           /\ x.part < parts => SlotAt(r, g, y) = SlotAt(r, g, x) /\ y.part = x.part + 1
           /\ ~(x.part < parts) => SlotAt(r, g, y) = SlotAt(r, g, x) + 1 /\ y.part = 1
  <1>a. PICK pos, last, peer, moved, part :
            /\ pos = x.pos /\ last = x.last /\ peer = x.peer /\ moved = x.moved
            /\ part = x.part
    OBVIOUS
  <1>0. /\ x = [pos |-> pos, last |-> last, peer |-> peer, moved |-> moved, part |-> part]
        /\ pos \in Nat /\ last \in Nat /\ part \in 1 .. parts /\ pos < last
    BY <1>a DEF XferOK
  <1>1. /\ x.pos = pos /\ x.last = last /\ x.peer = peer /\ x.moved = moved /\ x.part = part
        /\ DOMAIN x = {"pos", "last", "peer", "moved", "part"}
    BY <1>0
  <1>2. Surplus(r, g) # 0 /\ Surplus(r, g) \in Int
    BY <1>0, <1>1, AgreedOn DEF XferOK
  <1>3. /\ Slots(r, g) = lo[r] .. hi[r] - 1 /\ lo[r] \in Nat /\ hi[r] \in Nat /\ lo[r] < hi[r]
        /\ Min(Slots(r, g)) = lo[r]
    BY <1>2, FirstSlot
  <1>4. /\ LeastOf(r, g) \in Nat /\ MostOf(r, g) \in Nat
        /\ MostOf(r, g) - LeastOf(r, g) = hi[r] - lo[r]
    BY LeastAndMost
  <1>5. LeastOf(r, g) <= pos /\ last = MostOf(r, g)
    BY <1>0, <1>1, <1>2 DEF XferOK
  <1>6. PICK n \in Nat : n = SlotAt(r, g, x) /\ n < hi[r] /\ lo[r] <= n
    <2>1. SlotAt(r, g, x) = lo[r] + pos - LeastOf(r, g)
      BY <1>1, <1>3 DEF SlotAt
    <2>2. PICK l \in Nat, u \in Nat, a \in Nat, b \in Nat :
              /\ l = LeastOf(r, g) /\ u = MostOf(r, g) /\ a = lo[r] /\ b = hi[r]
              /\ u - l = b - a /\ l <= pos /\ pos < u
      BY <1>0, <1>3, <1>4, <1>5
    <2>3. a + pos - l \in Nat /\ a + pos - l < b /\ a <= a + pos - l
      BY <1>0, <2>2
    <2> QED BY <2>1, <2>2, <2>3
  <1>7. /\ peer \in Ranks /\ Opposite(r, peer, g) /\ n \in Slots(peer, g)
        /\ moved = n - Min(Slots(peer, g)) /\ Surplus(peer, g) \in Int /\ Surplus(peer, g) # 0
    <2>1. /\ peer \in Ranks /\ Opposite(r, peer, g) /\ n \in Slots(peer, g)
          /\ moved = n - Min(Slots(peer, g))
      BY <1>0, <1>1, <1>6 DEF XferOK
    <2>2. Surplus(peer, g) \in Int
      BY <2>1, AgreedOn
    <2>3. Surplus(peer, g) # 0
      BY <2>1, <2>2 DEF Opposite
    <2> QED BY <2>1, <2>2, <2>3
  <1>8. /\ Slots(peer, g) = lo[peer] .. hi[peer] - 1 /\ lo[peer] \in Nat /\ hi[peer] \in Nat
        /\ Min(Slots(peer, g)) = lo[peer]
    BY <1>7, FirstSlot
  <1>9. moved = n - lo[peer] /\ moved \in Nat /\ lo[peer] <= n /\ n < hi[peer]
    BY <1>7, <1>8
  <1>10. CASE part < parts
    <2>1. y = [pos |-> pos, last |-> last, peer |-> peer, moved |-> moved, part |-> part + 1]
      BY <1>0, <1>1, <1>10 DEF Next1
    <2>2. /\ y.pos = pos /\ y.last = last /\ y.peer = peer /\ y.moved = moved /\ y.part = part + 1
          /\ y = [pos |-> y.pos, last |-> y.last, peer |-> y.peer, moved |-> y.moved,
                  part |-> y.part]
      BY <2>1
    <2>3. SlotAt(r, g, y) = SlotAt(r, g, x)
      BY <1>1, <2>2 DEF SlotAt
    <2>4. part + 1 \in 1 .. parts
      BY <1>0, <1>10
    <2>5. XferOK(r, g, y, parts)
      BY <1>0, <1>2, <1>5, <1>6, <1>7, <2>2, <2>3, <2>4 DEF XferOK
    <2> QED BY <1>1, <1>10, <2>2, <2>3, <2>5
  <1>11. CASE ~(part < parts)
    <2> DEFINE served == IF Surplus(r, g) > 0 THEN finished_receives(peer, g, moved + 1)
                                              ELSE finished_sends(peer, g, moved + 1)
    <2>1. y = [pos |-> pos + 1, last |-> last, part |-> 1,
               peer |-> IF served THEN peer + 1 ELSE peer,
               moved |-> IF served THEN 0 ELSE moved + 1]
      BY <1>1, <1>11 DEF Next1
    <2>2. served <=> n + 1 >= hi[peer]
      <3>1. PICK h \in Nat, d \in Nat : /\ h = HaveOf(peer, g) /\ d = DueOf(peer, g)
                                        /\ Surplus(peer, g) = h - d
        BY <1>7, AgreedOn DEF Surplus
      <3>2. /\ finished_receives(peer, g, moved + 1) <=> h + (moved + 1) >= d
            /\ finished_sends(peer, g, moved + 1) <=> h - (moved + 1) <= d
        BY <3>1 DEF finished_receives, finished_sends
      <3>3. /\ h - d > 0 => hi[peer] = lo[peer] + (h - d)
            /\ h - d <= 0 => hi[peer] = lo[peer] - (h - d)
        <4>1. /\ Surplus(peer, g) > 0 => hi[peer] = lo[peer] + Surplus(peer, g)
              /\ Surplus(peer, g) <= 0 => hi[peer] = lo[peer] - Surplus(peer, g)
          BY <1>7, AgreedOn
        <4> QED BY <3>1, <4>1
      <3>4. CASE Surplus(r, g) > 0
        <4>1. h - d < 0
          BY <1>2, <1>7, <3>1, <3>4 DEF Opposite
        <4>2. served <=> h + (moved + 1) >= d
          BY <3>2, <3>4
        <4>3. PICK u \in Nat, l \in Nat, m \in Nat :
                  /\ u = hi[peer] /\ l = lo[peer] /\ m = moved /\ m = n - l
                  /\ u = l - (h - d)
          BY <1>8, <1>9, <3>3, <4>1
        <4>4. h + (m + 1) >= d <=> n + 1 >= u
          BY <4>3
        <4> QED BY <4>2, <4>3, <4>4, Zenon
      <3>5. CASE ~(Surplus(r, g) > 0)
        <4>1. h - d > 0
          BY <1>2, <1>7, <3>1, <3>5 DEF Opposite
        <4>2. served <=> h - (moved + 1) <= d
          BY <3>2, <3>5
        <4>3. PICK u \in Nat, l \in Nat, m \in Nat :
                  /\ u = hi[peer] /\ l = lo[peer] /\ m = moved /\ m = n - l
                  /\ u = l + (h - d)
          BY <1>8, <1>9, <3>3, <4>1
        <4>4. h - (m + 1) <= d <=> n + 1 >= u
          BY <4>3
        <4> QED BY <4>2, <4>3, <4>4, Zenon
      <3> QED BY <3>4, <3>5
    <2>3. PICK peer2, moved2 : /\ peer2 = IF n + 1 >= hi[peer] THEN peer + 1 ELSE peer
                               /\ moved2 = IF n + 1 >= hi[peer] THEN 0 ELSE moved + 1
      OBVIOUS
    <2> HIDE DEF served
    <2>4. y = [pos |-> pos + 1, last |-> last, peer |-> peer2, moved |-> moved2, part |-> 1]
      <3>1. CASE n + 1 >= hi[peer]
        BY <2>1, <2>2, <2>3, <3>1
      <3>2. CASE ~(n + 1 >= hi[peer])
        BY <2>1, <2>2, <2>3, <3>2
      <3> QED BY <3>1, <3>2
    <2>5. /\ y.pos = pos + 1 /\ y.last = last /\ y.peer = peer2 /\ y.moved = moved2 /\ y.part = 1
          /\ y = [pos |-> y.pos, last |-> y.last, peer |-> y.peer, moved |-> y.moved,
                  part |-> y.part]
      BY <2>4
    <2>6. SlotAt(r, g, y) = n + 1
      <3>1. n = lo[r] + pos - LeastOf(r, g)
        BY <1>1, <1>3, <1>6 DEF SlotAt
      <3>2. SlotAt(r, g, y) = lo[r] + (pos + 1) - LeastOf(r, g)
        BY <1>3, <2>5 DEF SlotAt
      <3> QED BY <1>0, <1>3, <1>4, <3>1, <3>2, SMTT(20)
    <2>7. ASSUME pos + 1 < last
          PROVE  /\ peer2 \in Ranks /\ Opposite(r, peer2, g) /\ n + 1 \in Slots(peer2, g)
                 /\ moved2 = (n + 1) - Min(Slots(peer2, g))
      <3>1. n + 1 < hi[r]
        <4>1. n = lo[r] + pos - LeastOf(r, g)
          BY <1>1, <1>3, <1>6 DEF SlotAt
        <4> QED BY <1>0, <1>3, <1>4, <1>5, <2>7, <4>1, SMTT(20)
      <3>2. CASE n + 1 >= hi[peer]
        <4>1. hi[peer] = n + 1 /\ peer2 = peer + 1 /\ moved2 = 0
          BY <1>8, <1>9, <2>3, <3>2
        <4>2. hi[peer] < T
          <5>1. hi[r] <= T /\ T \in Nat
            BY <1>7, AgreedOn
          <5> QED BY <1>3, <1>8, <3>1, <4>1, <5>1
        <4>3. peer2 \in Ranks /\ Opposite(r, peer2, g) /\ lo[peer2] = n + 1
          <5>1. CASE Surplus(r, g) > 0
            <6>1. Surplus(peer, g) < 0
              BY <1>2, <1>7, <5>1 DEF Opposite
            <6>2. peer + 1 \in Ranks /\ Surplus(peer + 1, g) < 0 /\ lo[peer + 1] = hi[peer]
              BY <1>7, <4>2, <6>1, Zenon DEF Agreed
            <6> QED BY <4>1, <5>1, <6>2 DEF Opposite
          <5>2. CASE ~(Surplus(r, g) > 0)
            <6>1. Surplus(peer, g) > 0 /\ Surplus(r, g) < 0
              BY <1>2, <1>7, <5>2 DEF Opposite
            <6>2. peer + 1 \in Ranks /\ Surplus(peer + 1, g) > 0 /\ lo[peer + 1] = hi[peer]
              BY <1>7, <4>2, <6>1, Zenon DEF Agreed
            <6> QED BY <4>1, <6>1, <6>2 DEF Opposite
          <5> QED BY <5>1, <5>2
        <4>4. Surplus(peer2, g) # 0
          BY <4>3 DEF Opposite
        <4>5. /\ Slots(peer2, g) = lo[peer2] .. hi[peer2] - 1 /\ lo[peer2] \in Nat
              /\ hi[peer2] \in Nat /\ lo[peer2] < hi[peer2] /\ Min(Slots(peer2, g)) = lo[peer2]
          BY <4>3, <4>4, FirstSlot
        <4> QED BY <4>1, <4>3, <4>5
      <3>3. CASE ~(n + 1 >= hi[peer])
        <4>1. peer2 = peer /\ moved2 = moved + 1
          BY <2>3, <3>3
        <4>2. PICK u \in Nat, l \in Nat :
                  u = hi[peer] /\ l = lo[peer] /\ moved = n - l /\ l <= n /\ n + 1 < u
          BY <1>8, <1>9, <3>3
        <4>3. n + 1 \in l .. u - 1 /\ moved + 1 = (n + 1) - l
          BY <4>2
        <4> QED BY <1>7, <1>8, <4>1, <4>2, <4>3
      <3> QED BY <3>2, <3>3
    <2>8. XferOK(r, g, y, parts)
      <3>1. 1 \in 1 .. parts /\ pos + 1 \in Nat /\ pos + 1 <= last /\ LeastOf(r, g) <= pos + 1
        BY <1>0, <1>4, <1>5
      <3> QED BY <1>0, <1>2, <1>5, <2>5, <2>6, <2>7, <3>1 DEF XferOK
    <2> QED BY <1>1, <1>6, <1>11, <2>5, <2>6, <2>8
  <1> QED BY <1>1, <1>10, <1>11
---------------------------------------------------------------------------
(* Where a rank is, and what it has already sent or received there.        *)
Reached(g) == \A h \in LevelsOf(N) : h < g => ~Balanced(h)

Late(p) == p \in {"gather", "up", "done"}

ViewOK(r, p, g, x) ==
    /\ p \in {"split", "down", "gather", "up", "done"}
    /\ g \in LevelsOf(N) /\ Reached(g)
    /\ p = "done" => g = 1
    /\ p \in {"down", "up"} => g # 1 /\ XferOK(r, g, x, Len(PartsOf(p = "up")))

\* a part of an item of a level, on the way down or back
Keys == [back : BOOLEAN, level : Nat, slot : Nat, part : {1, 2}]

Before(a, b) == a.slot < b.slot \/ (a.slot = b.slot /\ a.part < b.part)

Prec(a, b) ==
    \/ ~a.back /\ b.back
    \/ ~a.back /\ ~b.back /\ (a.level < b.level \/ (a.level = b.level /\ Before(a, b)))
    \/ a.back /\ b.back /\ (b.level < a.level \/ (a.level = b.level /\ Before(a, b)))

\* what rank r sends or receives in a run
Own(r, k) ==
    /\ k \in Keys
    /\ k.level \in LevelsOf(N) /\ k.level # 1 /\ Reached(k.level)
    /\ k.part \in 1 .. Len(PartsOf(k.back))
    /\ Surplus(r, k.level) # 0 /\ k.slot \in Slots(r, k.level)

PassedItem(slot, part, k) == k.slot < slot \/ (k.slot = slot /\ k.part < part)

PassedBy(r, p, g, x, k) ==
    IF k.back
    THEN Late(p) /\ \/ g < k.level
                    \/ p = "up" /\ g = k.level /\ PassedItem(SlotAt(r, g, x), x.part, k)
    ELSE \/ Late(p)
         \/ k.level < g
         \/ k.level = g /\ (p = "split" \/ PassedItem(SlotAt(r, g, x), x.part, k))

PassedSet(r, p, g, x) == {k \in Keys : Own(r, k) /\ PassedBy(r, p, g, x, k)}

(* What a call is given.                                                   *)
LEMMA CallIs ==
    ASSUME conf \in Cases
    PROVE  /\ N \in Nat \ {0, 1} /\ P \in Nat \ {0, 1}
           /\ \A b \in BOOLEAN : Len(PartsOf(b)) \in {1, 2}
           /\ Len(PartsOf(FALSE)) = 1
  BY CasesAssumption DEF N, P, PartsOf, Moves

(* Both ends agree on the levels of a run.                                 *)
LEMMA LevelOfRun ==
    ASSUME conf \in Cases, NEW g \in LevelsOf(N), g # 1
    PROVE  \E lo, hi, T : Agreed(g, lo, hi, T)
  <1>1. \E h \in LevelsOf(N) : g = N * h
    BY CallIs, LevelsAre
  <1>2. PICK h \in Nat : g = N * h
    BY <1>1 DEF LevelsOf
  <1> QED BY <1>2, LevelAgreed

(* A level is reached from the one before, and those before it are.        *)
LEMMA ReachedNext ==
    ASSUME conf \in Cases, NEW g \in LevelsOf(N), Reached(g)
    PROVE  /\ ~Balanced(g) => Reached(N * g)
           /\ \A h \in LevelsOf(N) : h <= g => Reached(h)
  <1>0. N \in Nat \ {0, 1}
    BY CallIs
  <1>1. LevelsOf(N) \subseteq Nat \ {0}
    BY <1>0, LevelsAre
  <1>2. ASSUME ~Balanced(g), NEW h \in LevelsOf(N), h < N * g
        PROVE  ~Balanced(h)
    <2>1. h \in Nat /\ g \in Nat /\ (g < h => N * g <= h) /\ N * g \in Nat
      BY <1>0, <1>1, LevelsAre
    <2>2. h < g \/ h = g
      BY <1>2, <2>1
    <2> QED BY <1>2, <2>2 DEF Reached
  <1>3. ASSUME NEW h \in LevelsOf(N), h <= g, NEW e \in LevelsOf(N), e < h
        PROVE  ~Balanced(e)
    <2>1. h \in Nat /\ g \in Nat /\ e \in Nat
      BY <1>1
    <2>2. e < g
      BY <1>3, <2>1
    <2> QED BY <2>2 DEF Reached
  <1> QED BY <1>2, <1>3 DEF Reached

(* The places before the first and after the last item of a rank.          *)
LEMMA NonePassed ==
    ASSUME NEW g, NEW lo, NEW hi, NEW T, Agreed(g, lo, hi, T), NEW r \in Ranks,
           NEW k, Own(r, k), k.level = g
    PROVE  ~PassedItem(lo[r], 1, k)
  <1>1. Slots(r, g) = lo[r] .. hi[r] - 1 /\ lo[r] \in Nat /\ hi[r] \in Nat
    BY FirstSlot DEF Own
  <1>2. k.slot \in Nat /\ k.slot >= lo[r] /\ k.part \in {1, 2}
    BY <1>1 DEF Own, Keys
  <1> QED BY <1>1, <1>2 DEF PassedItem

LEMMA AllPassed ==
    ASSUME NEW g, NEW lo, NEW hi, NEW T, Agreed(g, lo, hi, T), NEW r \in Ranks,
           NEW parts \in {1, 2}, NEW x, XferOK(r, g, x, parts), x.pos = x.last,
           NEW k, Own(r, k), k.level = g
    PROVE  PassedItem(SlotAt(r, g, x), x.part, k)
  <1>0. Surplus(r, g) # 0
    BY DEF Own
  <1>1. /\ Slots(r, g) = lo[r] .. hi[r] - 1 /\ lo[r] \in Nat /\ hi[r] \in Nat
        /\ Min(Slots(r, g)) = lo[r]
    BY <1>0, FirstSlot
  <1>2. k.slot \in Nat /\ k.slot < hi[r]
    BY <1>1 DEF Own, Keys
  <1>3. x.pos \in Nat /\ x.pos = MostOf(r, g)
    BY <1>0 DEF XferOK
  <1>4. /\ LeastOf(r, g) \in Nat /\ MostOf(r, g) \in Nat
        /\ MostOf(r, g) - LeastOf(r, g) = hi[r] - lo[r]
    BY LeastAndMost
  <1>5. SlotAt(r, g, x) = hi[r]
    BY <1>1, <1>3, <1>4 DEF SlotAt
  <1> QED BY <1>2, <1>5 DEF PassedItem

(* The steps of a rank that move nothing leave what it has passed as it    *)
(* is: a split turns to the first item of the next level ...               *)
LEMMA SplitView ==
    ASSUME conf \in Cases, NEW r \in Ranks, NEW g, NEW x, ViewOK(r, "split", g, x), ~Balanced(g),
           NEW y, y = StartXfer(r, N * g)
    PROVE  ViewOK(r, "down", N * g, y) /\ PassedSet(r, "down", N * g, y) = PassedSet(r, "split", g, x)
  <1>0. N \in Nat \ {0, 1} /\ g \in LevelsOf(N) /\ Reached(g) /\ Len(PartsOf(FALSE)) = 1
    BY CallIs DEF ViewOK
  <1>1. LevelsOf(N) \subseteq Nat \ {0} /\ N * g \in LevelsOf(N) /\ N * g > g /\ Reached(N * g)
    BY <1>0, LevelsAre, ReachedNext
  <1>2. N * g # 1 /\ g \in Nat /\ N * g \in Nat
    BY <1>0, <1>1
  <1>3. PICK lo, hi, T : Agreed(N * g, lo, hi, T)
    BY <1>1, <1>2, LevelOfRun
  <1>4. /\ XferOK(r, N * g, y, 1) /\ y.part = 1
        /\ Surplus(r, N * g) # 0 => SlotAt(r, N * g, y) = lo[r]
    BY <1>3, StartOK
  <1>5. ViewOK(r, "down", N * g, y)
    BY <1>0, <1>1, <1>2, <1>4 DEF ViewOK
  <1>6. ASSUME NEW k, Own(r, k)
        PROVE  PassedBy(r, "down", N * g, y, k) <=> PassedBy(r, "split", g, x, k)
    <2>1. k.level \in LevelsOf(N) /\ k.level \in Nat /\ Surplus(r, k.level) # 0 /\ k.back \in BOOLEAN
      BY <1>1, <1>6 DEF Own, Keys
    <2>2. g < k.level => N * g <= k.level
      BY <1>0, <2>1, LevelsAre
    <2>3. k.level < N * g <=> (k.level < g \/ k.level = g)
      BY <1>1, <1>2, <2>1, <2>2
    <2>4. k.level = N * g => ~PassedItem(SlotAt(r, N * g, y), y.part, k)
      BY <1>3, <1>4, <1>6, <2>1, NonePassed
    <2> QED BY <2>1, <2>3, <2>4, Zenon DEF PassedBy, Late
  <1> QED BY <1>5, <1>6, Zenon DEF PassedSet

(* ... a level is left when its last item is through ...                   *)
LEMMA CommitView ==
    ASSUME conf \in Cases, NEW r \in Ranks, NEW g, NEW x, ViewOK(r, "down", g, x), x.pos = x.last
    PROVE  ViewOK(r, "split", g, x) /\ PassedSet(r, "split", g, x) = PassedSet(r, "down", g, x)
  <1>0. g \in LevelsOf(N) /\ Reached(g) /\ g # 1 /\ XferOK(r, g, x, 1)
    BY CallIs DEF ViewOK
  <1>1. PICK lo, hi, T : Agreed(g, lo, hi, T)
    BY <1>0, LevelOfRun
  <1>2. ViewOK(r, "split", g, x)
    BY <1>0 DEF ViewOK
  <1>3. ASSUME NEW k, Own(r, k)
        PROVE  PassedBy(r, "split", g, x, k) <=> PassedBy(r, "down", g, x, k)
    <2>1. k.level = g => PassedItem(SlotAt(r, g, x), x.part, k)
      BY <1>0, <1>1, <1>3, AllPassed
    <2> QED BY <2>1, Zenon DEF PassedBy, Late
  <1> QED BY <1>2, <1>3, Zenon DEF PassedSet

(* ... a balanced level is the last one ...                                *)
LEMMA RunView ==
    ASSUME conf \in Cases, NEW r \in Ranks, NEW g, NEW x, ViewOK(r, "split", g, x), Balanced(g)
    PROVE  ViewOK(r, "gather", g, x) /\ PassedSet(r, "gather", g, x) = PassedSet(r, "split", g, x)
  <1>0. LevelsOf(N) \subseteq Nat \ {0} /\ g \in LevelsOf(N) /\ Reached(g)
    BY CallIs, LevelsAre DEF ViewOK
  <1>1. ViewOK(r, "gather", g, x)
    BY <1>0 DEF ViewOK
  <1>2. ASSUME NEW k, Own(r, k)
        PROVE  PassedBy(r, "gather", g, x, k) <=> PassedBy(r, "split", g, x, k)
    <2>1. k.level \in Nat /\ g \in Nat /\ ~(g < k.level)
      BY <1>0, <1>2 DEF Own, Reached
    <2>2. k.level < g \/ k.level = g
      BY <2>1
    <2> QED BY <2>1, <2>2, Zenon DEF PassedBy, Late
  <1> QED BY <1>1, <1>2, Zenon DEF PassedSet

(* ... the way back starts with the first item of that level ...           *)
LEMMA GatherView ==
    ASSUME conf \in Cases, NEW r \in Ranks, NEW g, NEW x, ViewOK(r, "gather", g, x), g > 1,
           NEW y, y = StartXfer(r, g)
    PROVE  ViewOK(r, "up", g, y) /\ PassedSet(r, "up", g, y) = PassedSet(r, "gather", g, x)
  <1>0. /\ LevelsOf(N) \subseteq Nat \ {0} /\ g \in LevelsOf(N) /\ Reached(g)
        /\ Len(PartsOf(TRUE)) \in {1, 2}
    BY CallIs, LevelsAre DEF ViewOK
  <1>1. g # 1
    OBVIOUS
  <1>2. PICK lo, hi, T : Agreed(g, lo, hi, T)
    BY <1>0, <1>1, LevelOfRun
  <1>3. /\ XferOK(r, g, y, Len(PartsOf(TRUE))) /\ y.part = 1
        /\ Surplus(r, g) # 0 => SlotAt(r, g, y) = lo[r]
    <2>1. PICK parts \in {1, 2} : parts = Len(PartsOf(TRUE))
      BY <1>0
    <2>2. /\ XferOK(r, g, y, parts) /\ y.part = 1
          /\ Surplus(r, g) # 0 => SlotAt(r, g, y) = lo[r]
      BY <1>2, StartOK
    <2> QED BY <2>1, <2>2
  <1>4. ViewOK(r, "up", g, y)
    BY <1>0, <1>1, <1>3 DEF ViewOK
  <1>5. ASSUME NEW k, Own(r, k)
        PROVE  PassedBy(r, "up", g, y, k) <=> PassedBy(r, "gather", g, x, k)
    <2>1. Surplus(r, k.level) # 0
      BY <1>5 DEF Own
    <2>2. k.level = g => ~PassedItem(SlotAt(r, g, y), y.part, k)
      BY <1>2, <1>3, <1>5, <2>1, NonePassed
    <2> QED BY <2>2, Zenon DEF PassedBy, Late
  <1> QED BY <1>4, <1>5, Zenon DEF PassedSet

(* ... a reduction turns to the level above ...                            *)
LEMMA ReduceView ==
    ASSUME conf \in Cases, NEW r \in Ranks, NEW g, NEW x, ViewOK(r, "up", g, x), x.pos = x.last
    PROVE  /\ ViewOK(r, "gather", g \div N, x)
           /\ PassedSet(r, "gather", g \div N, x) = PassedSet(r, "up", g, x)
  <1>0. /\ N \in Nat \ {0, 1} /\ g \in LevelsOf(N) /\ Reached(g) /\ g # 1
        /\ Len(PartsOf(TRUE)) \in {1, 2} /\ XferOK(r, g, x, Len(PartsOf(TRUE)))
    BY CallIs DEF ViewOK
  <1>1. LevelsOf(N) \subseteq Nat \ {0}
    BY <1>0, LevelsAre
  <1>2. PICK h \in LevelsOf(N) : g = N * h
    BY <1>0, LevelsAre
  <1>3. h \in Nat /\ N * h > h /\ g \in Nat
    BY <1>0, <1>1, <1>2, LevelsAre
  <1>4. g \div N = h
    BY <1>0, <1>2, <1>3, QuotientOfMultiple
  <1>5. h < g /\ Reached(h)
    BY <1>0, <1>2, <1>3, ReachedNext
  <1>6. ViewOK(r, "gather", h, x)
    BY <1>5 DEF ViewOK
  <1>7. PICK lo, hi, T : Agreed(g, lo, hi, T)
    BY <1>0, LevelOfRun
  <1>8. ASSUME NEW k, Own(r, k)
        PROVE  PassedBy(r, "gather", h, x, k) <=> PassedBy(r, "up", g, x, k)
    <2>1. k.level \in LevelsOf(N) /\ k.level \in Nat
      BY <1>1, <1>8 DEF Own
    <2>2. h < k.level => g <= k.level
      BY <1>0, <1>2, <2>1, LevelsAre
    <2>3. h < k.level <=> (g < k.level \/ g = k.level)
      BY <1>3, <1>5, <2>1, <2>2
    <2>4. k.level = g => PassedItem(SlotAt(r, g, x), x.part, k)
      BY <1>0, <1>7, <1>8, AllPassed
    <2> QED BY <2>3, <2>4, Zenon DEF PassedBy, Late
  <1> QED BY <1>4, <1>6, <1>8, Zenon DEF PassedSet

(* ... and the top level is the end.                                       *)
LEMMA FinishView ==
    ASSUME NEW r, NEW x, ViewOK(r, "gather", 1, x)
    PROVE  ViewOK(r, "done", 1, x) /\ PassedSet(r, "done", 1, x) = PassedSet(r, "gather", 1, x)
  <1>1. ViewOK(r, "done", 1, x)
    BY DEF ViewOK
  <1>2. \A k : PassedBy(r, "done", 1, x, k) <=> PassedBy(r, "gather", 1, x, k)
    BY Zenon DEF PassedBy, Late
  <1> QED BY <1>1, <1>2, Zenon DEF PassedSet

---------------------------------------------------------------------------
(* The steps that move something: what they move is the item and the part  *)
(* the rank is at.                                                         *)
KeyAt(r, p, g, x) == [back |-> p = "up", level |-> g, slot |-> SlotAt(r, g, x), part |-> x.part]

LEMMA KeyAtOwn ==
    ASSUME conf \in Cases, NEW r \in Ranks, NEW p \in {"down", "up"}, NEW g, NEW x,
           ViewOK(r, p, g, x), x.pos < x.last
    PROVE  /\ Own(r, KeyAt(r, p, g, x))
           /\ ~PassedBy(r, p, g, x, KeyAt(r, p, g, x))
           /\ Own(x.peer, KeyAt(r, p, g, x))
           /\ x.peer \in Ranks /\ Opposite(r, x.peer, g)
  <1>1. PICK parts \in {1, 2} : parts = Len(PartsOf(p = "up"))
    BY CallIs
  <1>2. g \in LevelsOf(N) /\ Reached(g) /\ g # 1 /\ XferOK(r, g, x, parts)
    BY <1>1 DEF ViewOK
  <1>3. /\ x.peer \in Ranks /\ Opposite(r, x.peer, g) /\ SlotAt(r, g, x) \in Slots(x.peer, g)
        /\ x.part \in 1 .. parts
    BY <1>2 DEF XferOK
  <1>4. PICK lo, hi, T : Agreed(g, lo, hi, T)
    BY <1>2, LevelOfRun
  <1>5. Surplus(r, g) # 0 /\ Surplus(x.peer, g) # 0
    BY <1>3 DEF Opposite
  <1>6. Slots(r, g) = lo[r] .. hi[r] - 1 /\ lo[r] \in Nat /\ hi[r] \in Nat /\ Min(Slots(r, g)) = lo[r]
    BY <1>4, <1>5, FirstSlot
  <1>7. SlotAt(r, g, x) \in Slots(r, g) /\ SlotAt(r, g, x) \in Nat
    <2>1. /\ LeastOf(r, g) \in Nat /\ MostOf(r, g) \in Nat
          /\ MostOf(r, g) - LeastOf(r, g) = hi[r] - lo[r]
      BY <1>4, LeastAndMost
    <2>2. x.pos \in Nat /\ LeastOf(r, g) <= x.pos /\ x.pos < MostOf(r, g)
      BY <1>2, <1>5 DEF XferOK
    <2> QED BY <1>6, <2>1, <2>2, SMTT(20) DEF SlotAt
  <1>8. PICK k : k = KeyAt(r, p, g, x)
    OBVIOUS
  <1>9. /\ k.back = (p = "up") /\ k.level = g /\ k.slot = SlotAt(r, g, x) /\ k.part = x.part
        /\ k.back \in BOOLEAN
        /\ k = [back |-> k.back, level |-> k.level, slot |-> k.slot, part |-> k.part]
    BY <1>8 DEF KeyAt
  <1>10. g \in Nat
    BY <1>2 DEF LevelsOf
  <1>11. k.part \in {1, 2}
    BY <1>3, <1>9
  <1>12. k \in Keys
    BY <1>7, <1>9, <1>10, <1>11 DEF Keys
  <1>13. k.part \in 1 .. Len(PartsOf(k.back))
    BY <1>1, <1>3, <1>9
  <1>14. Own(r, k) /\ Own(x.peer, k)
    BY <1>2, <1>3, <1>5, <1>7, <1>9, <1>12, <1>13 DEF Own
  <1>15. ~PassedItem(SlotAt(r, g, x), x.part, k)
    BY <1>7, <1>9, <1>11 DEF PassedItem
  <1>16. ~PassedBy(r, p, g, x, k)
    <2>1. ~(g < g)
      BY <1>10
    <2> QED BY <1>9, <1>15, <2>1, Zenon DEF PassedBy, Late
  <1> QED BY <1>3, <1>8, <1>14, <1>16

(* What a rank has passed grows by just that.                              *)
LEMMA MoveView ==
    ASSUME conf \in Cases, NEW r \in Ranks, NEW p \in {"down", "up"}, NEW g, NEW x,
           ViewOK(r, p, g, x), x.pos < x.last,
           NEW y, y = Next1(r, g, x, Len(PartsOf(p = "up")))
    PROVE  /\ ViewOK(r, p, g, y)
           /\ PassedSet(r, p, g, y) = PassedSet(r, p, g, x) \cup {KeyAt(r, p, g, x)}
  <1>1. PICK parts \in {1, 2} : parts = Len(PartsOf(p = "up"))
    BY CallIs
  <1>2. g \in LevelsOf(N) /\ Reached(g) /\ g # 1 /\ XferOK(r, g, x, parts)
    BY <1>1 DEF ViewOK
  <1>3. PICK lo, hi, T : Agreed(g, lo, hi, T)
    BY <1>2, LevelOfRun
  <1>4. y = Next1(r, g, x, parts)
    BY <1>1
  <1>5. /\ XferOK(r, g, y, parts)
        /\ x.part < parts => SlotAt(r, g, y) = SlotAt(r, g, x) /\ y.part = x.part + 1
        /\ ~(x.part < parts) => SlotAt(r, g, y) = SlotAt(r, g, x) + 1 /\ y.part = 1
    BY <1>2, <1>3, <1>4, NextOK
  <1>6. ViewOK(r, p, g, y)
    BY <1>1, <1>2, <1>5 DEF ViewOK
  <1>7. PICK c : c = KeyAt(r, p, g, x)
    OBVIOUS
  <1>8. Own(r, c) /\ ~PassedBy(r, p, g, x, c)
    BY <1>7, KeyAtOwn
  <1>9. c.back = (p = "up") /\ c.level = g /\ c.slot = SlotAt(r, g, x) /\ c.part = x.part
    BY <1>7 DEF KeyAt
  <1>10. ASSUME NEW k, Own(r, k)
         PROVE  PassedBy(r, p, g, y, k) <=> PassedBy(r, p, g, x, k) \/ k = c
    <2>0. g \in Nat /\ ~(g < g)
      BY <1>2 DEF LevelsOf
    <2>1. CASE k.level = g /\ k.back = (p = "up")
      <3>1. PassedItem(SlotAt(r, g, y), y.part, k) <=>
               PassedItem(SlotAt(r, g, x), x.part, k) \/ (k.slot = c.slot /\ k.part = c.part)
        <4>1. PICK s \in Nat, q \in 1 .. 2 : s = c.slot /\ q = c.part
          BY <1>8 DEF Own, Keys
        <4>2. PICK t \in Nat, u \in 1 .. parts : t = k.slot /\ u = k.part
          BY <1>1, <1>10, <2>1 DEF Own, Keys
        <4>3. SlotAt(r, g, x) = s /\ x.part = q
          BY <1>9, <4>1
        <4>4. SlotAt(r, g, y) = (IF q < parts THEN s ELSE s + 1)
              /\ y.part = (IF q < parts THEN q + 1 ELSE 1)
          BY <1>5, <4>3
        <4>5. q <= parts
          BY <1>2, <4>3 DEF XferOK
        <4> QED BY <4>1, <4>2, <4>3, <4>4, <4>5, SMTT(30) DEF PassedItem
      <3>2. (k.slot = c.slot /\ k.part = c.part) <=> k = c
        <4>1. k = [back |-> k.back, level |-> k.level, slot |-> k.slot, part |-> k.part]
          BY <1>10 DEF Own, Keys
        <4>2. c = [back |-> c.back, level |-> c.level, slot |-> c.slot, part |-> c.part]
          BY <1>8 DEF Own, Keys
        <4>3. k.back = c.back /\ k.level = c.level
          BY <1>9, <2>1
        <4> QED BY <4>1, <4>2, <4>3
      <3>3. CASE p = "up"
        <4>1. k.back
          BY <2>1, <3>3
        <4> QED BY <2>0, <2>1, <3>1, <3>2, <3>3, <4>1, Zenon DEF PassedBy, Late
      <3>4. CASE p = "down"
        <4>1. ~k.back
          BY <2>1, <3>4
        <4> QED BY <2>0, <2>1, <3>1, <3>2, <3>4, <4>1, Zenon DEF PassedBy, Late
      <3> QED BY <3>3, <3>4
    <2>2. CASE ~(k.level = g /\ k.back = (p = "up"))
      <3>1. k # c
        BY <1>9, <2>2
      <3>2. PassedBy(r, p, g, y, k) <=> PassedBy(r, p, g, x, k)
        <4>1. CASE k.level # g
          BY <4>1, Zenon DEF PassedBy, Late
        <4>2. CASE k.level = g /\ k.back /\ p = "down"
          BY <4>2, Zenon DEF PassedBy, Late
        <4>3. CASE k.level = g /\ ~k.back /\ p = "up"
          BY <4>3, Zenon DEF PassedBy, Late
        <4>4. k.back \in BOOLEAN
          BY <1>10 DEF Own, Keys
        <4> QED BY <2>2, <4>1, <4>2, <4>3, <4>4
      <3> QED BY <3>1, <3>2, Zenon
    <2> QED BY <2>1, <2>2
  <1>11. PassedSet(r, p, g, y) = PassedSet(r, p, g, x) \cup {c}
    <2>1. c \in Keys
      BY <1>8 DEF Own
    <2> QED BY <1>8, <1>10, <2>1, Zenon DEF PassedSet
  <1> QED BY <1>6, <1>7, <1>11

(* The order of the items is total on those of one rank ...                *)
LEMMA ItemsInOrder ==
    ASSUME NEW a \in Keys, NEW b \in Keys
    PROVE  /\ a = b \/ Prec(a, b) \/ Prec(b, a)
           /\ ~(Prec(a, b) /\ Prec(b, a))
           /\ ~Prec(a, a)
  <1>1. /\ a = [back |-> a.back, level |-> a.level, slot |-> a.slot, part |-> a.part]
        /\ b = [back |-> b.back, level |-> b.level, slot |-> b.slot, part |-> b.part]
        /\ a.back \in BOOLEAN /\ b.back \in BOOLEAN
    BY DEF Keys
  <1>2. PICK la \in Nat, sa \in Nat, pa \in Nat : la = a.level /\ sa = a.slot /\ pa = a.part
    BY DEF Keys
  <1>3. PICK lb \in Nat, sb \in Nat, pb \in Nat : lb = b.level /\ sb = b.slot /\ pb = b.part
    BY DEF Keys
  <1>4. CASE a.back /\ b.back
    <2>1. (Prec(a, b) <=> (lb < la \/ (la = lb /\ (sa < sb \/ (sa = sb /\ pa < pb)))))
      BY <1>2, <1>3, <1>4 DEF Prec, Before
    <2>2. (Prec(b, a) <=> (la < lb \/ (la = lb /\ (sb < sa \/ (sa = sb /\ pb < pa)))))
      BY <1>2, <1>3, <1>4 DEF Prec, Before
    <2>3. ~Prec(a, a)
      BY <1>2, <1>4 DEF Prec, Before
    <2>4. la = lb /\ sa = sb /\ pa = pb => a = b
      BY <1>1, <1>2, <1>3, <1>4
    <2> QED BY <2>1, <2>2, <2>3, <2>4
  <1>5. CASE ~a.back /\ ~b.back
    <2>1. (Prec(a, b) <=> (la < lb \/ (la = lb /\ (sa < sb \/ (sa = sb /\ pa < pb)))))
      BY <1>2, <1>3, <1>5 DEF Prec, Before
    <2>2. (Prec(b, a) <=> (lb < la \/ (la = lb /\ (sb < sa \/ (sa = sb /\ pb < pa)))))
      BY <1>2, <1>3, <1>5 DEF Prec, Before
    <2>3. ~Prec(a, a)
      BY <1>2, <1>5 DEF Prec, Before
    <2>4. la = lb /\ sa = sb /\ pa = pb => a = b
      BY <1>1, <1>2, <1>3, <1>5
    <2> QED BY <2>1, <2>2, <2>3, <2>4
  <1>6. CASE a.back /\ ~b.back
    BY <1>2, <1>6 DEF Prec, Before
  <1>7. CASE ~a.back /\ b.back
    BY <1>2, <1>7 DEF Prec, Before
  <1> QED BY <1>1, <1>4, <1>5, <1>6, <1>7

(* ... and every rank passes its items in that order.                      *)
InOrder(r, A) == \A a, b : Own(r, a) /\ b \in A /\ Prec(a, b) => a \in A

LEMMA PassedInOrder ==
    ASSUME conf \in Cases, NEW r \in Ranks, NEW p, NEW g, NEW x, ViewOK(r, p, g, x)
    PROVE  InOrder(r, PassedSet(r, p, g, x))
  <1> SUFFICES ASSUME NEW a, NEW b, Own(r, a), Own(r, b), PassedBy(r, p, g, x, b), Prec(a, b)
               PROVE  PassedBy(r, p, g, x, a)
    BY Zenon DEF InOrder, PassedSet, Own
  <1>1. PICK la \in Nat, sa \in Nat, pa \in Nat : la = a.level /\ sa = a.slot /\ pa = a.part
    BY DEF Own, Keys
  <1>2. PICK lb \in Nat, sb \in Nat, pb \in Nat : lb = b.level /\ sb = b.slot /\ pb = b.part
    BY DEF Own, Keys
  <1>3. PICK h \in Nat : h = g
    BY DEF ViewOK, LevelsOf
  <1>4. a.back \in BOOLEAN /\ b.back \in BOOLEAN
    BY DEF Own, Keys
  <1>5. p \in {"split", "down", "gather", "up", "done"}
    BY DEF ViewOK
  <1>6. ASSUME p \in {"down", "up"}, a.level = g \/ b.level = g
        PROVE  SlotAt(r, g, x) \in Int
    <2>1. Surplus(r, g) # 0
      BY <1>6 DEF Own
    <2>2. g \in LevelsOf(N) /\ g # 1 /\ XferOK(r, g, x, Len(PartsOf(p = "up")))
      BY <1>6 DEF ViewOK
    <2>3. PICK lo, hi, T : Agreed(g, lo, hi, T)
      BY <2>2, LevelOfRun
    <2>4. Min(Slots(r, g)) = lo[r] /\ lo[r] \in Nat
      BY <2>1, <2>3, FirstSlot
    <2>5. LeastOf(r, g) \in Nat
      BY <2>3, LeastAndMost
    <2>6. x.pos \in Nat
      BY <2>2 DEF XferOK
    <2> QED BY <2>4, <2>5, <2>6 DEF SlotAt
  <1>7. ASSUME NEW i \in Int, NEW u, PassedItem(i, u, b), Before(a, b), u \in Nat
        PROVE  PassedItem(i, u, a)
    BY <1>1, <1>2, <1>7 DEF PassedItem, Before
  <1>8. CASE Late(p) /\ ~a.back
    BY <1>8, Zenon DEF PassedBy
  <1>9. CASE Late(p) /\ a.back
    <2>1. b.back /\ (lb < la \/ (la = lb /\ Before(a, b)))
      BY <1>1, <1>2, <1>9 DEF Prec
    <2>2. h < lb \/ (p = "up" /\ h = lb /\ PassedItem(SlotAt(r, g, x), x.part, b))
      BY <1>2, <1>3, <2>1 DEF PassedBy
    <2>3. CASE h < la
      BY <1>1, <1>3, <1>9, <2>3 DEF PassedBy
    <2>4. CASE ~(h < la)
      <3>1. p = "up" /\ h = lb /\ la = lb /\ Before(a, b) /\ PassedItem(SlotAt(r, g, x), x.part, b)
        BY <2>1, <2>2, <2>4
      <3>2. SlotAt(r, g, x) \in Int
        BY <1>2, <1>3, <1>6, <3>1
      <3>3. x.part \in Nat
        BY <3>1 DEF ViewOK, XferOK
      <3>4. PassedItem(SlotAt(r, g, x), x.part, a)
        BY <1>7, <3>1, <3>2, <3>3
      <3> QED BY <1>1, <1>3, <1>9, <3>1, <3>4 DEF PassedBy
    <2> QED BY <2>3, <2>4
  <1>10. CASE ~Late(p)
    <2>1. ~b.back
      BY <1>4, <1>10 DEF PassedBy
    <2>2. ~a.back /\ (la < lb \/ (la = lb /\ Before(a, b)))
      BY <1>1, <1>2, <1>4, <2>1 DEF Prec
    <2>3. lb < h \/ (lb = h /\ (p = "split" \/ PassedItem(SlotAt(r, g, x), x.part, b)))
      BY <1>2, <1>3, <1>10, <2>1 DEF PassedBy
    <2>4. CASE la < h
      BY <1>1, <1>3, <1>10, <2>2, <2>4 DEF PassedBy
    <2>5. CASE ~(la < h)
      <3>1. lb = h /\ la = lb /\ Before(a, b)
            /\ (p = "split" \/ PassedItem(SlotAt(r, g, x), x.part, b))
        BY <2>2, <2>3, <2>5
      <3>2. CASE p = "split"
        BY <1>1, <1>3, <2>2, <3>1, <3>2 DEF PassedBy
      <3>3. CASE p # "split"
        <4>1. p = "down"
          BY <1>5, <1>10, <3>3 DEF Late
        <4>2. SlotAt(r, g, x) \in Int
          BY <1>2, <1>3, <1>6, <3>1, <4>1
        <4>3. x.part \in Nat
          BY <4>1 DEF ViewOK, XferOK
        <4>4. PassedItem(SlotAt(r, g, x), x.part, a)
          BY <1>7, <3>1, <3>3, <4>2, <4>3
        <4> QED BY <1>1, <1>3, <2>2, <3>1, <4>4 DEF PassedBy
      <3> QED BY <3>2, <3>3
    <2> QED BY <2>4, <2>5
  <1> QED BY <1>4, <1>8, <1>9, <1>10

(* No two ranks of one side have the same item.                            *)
LEMMA ItemsApart ==
    ASSUME conf \in Cases, NEW r \in Ranks, NEW s \in Ranks, NEW k, Own(r, k), Own(s, k),
           (Surplus(r, k.level) > 0) <=> (Surplus(s, k.level) > 0)
    PROVE  r = s
  <1>1. PICK g : g = k.level
    OBVIOUS
  <1>2. g \in LevelsOf(N) /\ g # 1 /\ Surplus(r, g) # 0 /\ Surplus(s, g) # 0
    BY <1>1 DEF Own
  <1>3. PICK lo, hi, T : Agreed(g, lo, hi, T)
    BY <1>2, LevelOfRun
  <1>4. Slots(r, g) = lo[r] .. hi[r] - 1 /\ lo[r] \in Nat /\ hi[r] \in Nat
    BY <1>2, <1>3, FirstSlot
  <1>5. Slots(s, g) = lo[s] .. hi[s] - 1 /\ lo[s] \in Nat /\ hi[s] \in Nat
    BY <1>2, <1>3, FirstSlot
  <1>6. Surplus(r, g) \in Int /\ Surplus(s, g) \in Int
    BY <1>3, AgreedOn
  <1>7. /\ k.slot \in Nat /\ lo[r] <= k.slot /\ k.slot < hi[r]
        /\ lo[s] <= k.slot /\ k.slot < hi[s]
    BY <1>1, <1>4, <1>5 DEF Own, Keys
  <1>8. ASSUME NEW a \in Ranks, NEW b \in Ranks, a < b,
               (Surplus(a, g) > 0 /\ Surplus(b, g) > 0) \/ (Surplus(a, g) < 0 /\ Surplus(b, g) < 0)
        PROVE  hi[a] <= lo[b]
    <2>1. CASE Surplus(a, g) > 0 /\ Surplus(b, g) > 0
      BY <1>3, <1>8, <2>1, Zenon DEF Agreed
    <2>2. CASE Surplus(a, g) < 0 /\ Surplus(b, g) < 0
      BY <1>3, <1>8, <2>2, Zenon DEF Agreed
    <2> QED BY <1>8, <2>1, <2>2
  <1>9. /\ r \in Int /\ s \in Int
        /\ \/ Surplus(r, g) > 0 /\ Surplus(s, g) > 0
           \/ Surplus(r, g) < 0 /\ Surplus(s, g) < 0
    BY <1>1, <1>2, <1>6 DEF Ranks
  <1>10. ~(r < s)
    <2>1. r < s => hi[r] <= lo[s]
      BY <1>8, <1>9
    <2> QED BY <1>4, <1>5, <1>7, <2>1
  <1>11. ~(s < r)
    <2>1. s < r => hi[s] <= lo[r]
      BY <1>8, <1>9
    <2> QED BY <1>4, <1>5, <1>7, <2>1
  <1> QED BY <1>9, <1>10, <1>11

---------------------------------------------------------------------------
(* What is on the way from s to r: the items that s has sent and r has not *)
(* received, in the order of both.  A and B are what s and r have passed.  *)
Carried(s, r) ==
    {k \in Keys : /\ Own(s, k) /\ Own(r, k) /\ Opposite(s, r, k.level)
                  /\ (Surplus(s, k.level) > 0) # k.back}

Matches(m, k) == m.part = PartsOf(k.back)[k.part] /\ m.at = <<k.back, k.level, k.slot>>

Lists(K, n, S) ==
    /\ \A i \in 1 .. n : K[i] \in S
    /\ \A k \in S : \E i \in 1 .. n : K[i] = k
    /\ \A i, j \in 1 .. n : i < j => Prec(K[i], K[j])

FlowOK(c, s, r, A, B) ==
    /\ \E M : c \in Seq(M)
    /\ Carried(s, r) \cap B \subseteq A
    /\ \E K : /\ Lists(K, Len(c), (Carried(s, r) \cap A) \ B)
              /\ \A i \in 1 .. Len(c) : Matches(c[i], K[i])

(* s sends the item it is at.                                              *)
LEMMA FlowSent ==
    ASSUME NEW c, NEW s, NEW r, NEW A, NEW B, FlowOK(c, s, r, A, B),
           NEW k \in Carried(s, r), k \notin A, \A a \in A : Own(s, a) => Prec(a, k),
           NEW m, Matches(m, k)
    PROVE  FlowOK(Append(c, m), s, r, A \cup {k}, B)
  <1>1. PICK M : c \in Seq(M)
    BY DEF FlowOK
  <1>2. PICK K : /\ Lists(K, Len(c), (Carried(s, r) \cap A) \ B)
                 /\ \A i \in 1 .. Len(c) : Matches(c[i], K[i])
    BY DEF FlowOK
  <1>3. Carried(s, r) \cap B \subseteq A /\ k \notin B
    BY DEF FlowOK
  <1>4. PICK n \in Nat : n = Len(c)
    BY <1>1
  <1>5. PICK d : d = Append(c, m)
    OBVIOUS
  <1>6. /\ d \in Seq(M \cup {m}) /\ Len(d) = n + 1 /\ d[n + 1] = m
        /\ \A i \in 1 .. n : d[i] = c[i]
    <2>1. c \in Seq(M \cup {m})
      BY <1>1
    <2>2. PICK W : W = M \cup {m}
      OBVIOUS
    <2>3. c \in Seq(W) /\ m \in W
      BY <2>1, <2>2
    <2>4. /\ d \in Seq(W) /\ Len(d) = Len(c) + 1 /\ d[Len(c) + 1] = m
          /\ \A i \in 1 .. Len(c) : d[i] = c[i]
      BY <1>5, <2>3
    <2> QED BY <1>4, <2>2, <2>4
  <1>7. PICK L : L = [i \in 1 .. n + 1 |-> IF i <= n THEN K[i] ELSE k]
    OBVIOUS
  <1>8. (\A i \in 1 .. n : i \in 1 .. n + 1 /\ L[i] = K[i]) /\ L[n + 1] = k /\ n + 1 \in 1 .. n + 1
    BY <1>4, <1>7
  <1>9. \A i \in 1 .. n + 1 : i \in 1 .. n \/ i = n + 1
    BY <1>4
  <1>10. PICK S, S1 : S = (Carried(s, r) \cap A) \ B /\ S1 = (Carried(s, r) \cap (A \cup {k})) \ B
    OBVIOUS
  <1>11. S1 = S \cup {k}
    BY <1>3, <1>10
  <1>12. /\ \A i \in 1 .. n : K[i] \in S
         /\ \A a \in S : \E i \in 1 .. n : K[i] = a
         /\ \A i, j \in 1 .. n : i < j => Prec(K[i], K[j])
    BY <1>2, <1>4, <1>10, Zenon DEF Lists
  <1>13. \A a \in S : Prec(a, k)
    BY <1>10 DEF Carried
  <1>14. \A i \in 1 .. n + 1 : L[i] \in S1
    BY <1>8, <1>9, <1>11, <1>12
  <1>15. \A a \in S1 : \E i \in 1 .. n + 1 : L[i] = a
    BY <1>8, <1>11, <1>12
  <1>16. ASSUME NEW i \in 1 .. n + 1, NEW j \in 1 .. n + 1, i < j
         PROVE  Prec(L[i], L[j])
    <2>1. i \in 1 .. n
      BY <1>4, <1>16
    <2>2. CASE j \in 1 .. n
      BY <1>8, <1>12, <1>16, <2>1, <2>2
    <2>3. CASE j = n + 1
      BY <1>8, <1>12, <1>13, <2>1, <2>3
    <2> QED BY <1>9, <2>2, <2>3
  <1>17. \A i \in 1 .. n + 1 : Matches(d[i], L[i])
    BY <1>2, <1>4, <1>6, <1>8, <1>9
  <1>18. Lists(L, Len(d), S1)
    BY <1>6, <1>14, <1>15, <1>16, Zenon DEF Lists
  <1>19. Carried(s, r) \cap B \subseteq A \cup {k}
    BY <1>3
  <1> QED BY <1>5, <1>6, <1>10, <1>17, <1>18, <1>19 DEF FlowOK

(* r receives: what comes first is the item r is at.                       *)
LEMMA FlowReceived ==
    ASSUME NEW c, NEW s, NEW r, NEW A, NEW B, FlowOK(c, s, r, A, B), c # <<>>,
           InOrder(s, A),
           NEW k \in Carried(s, r), k \notin B,
           \A a : Own(r, a) /\ a \notin B => a = k \/ Prec(k, a)
    PROVE  Matches(Head(c), k) /\ FlowOK(Tail(c), s, r, A, B \cup {k})
  <1>1. PICK M : c \in Seq(M)
    BY DEF FlowOK
  <1>2. PICK K : /\ Lists(K, Len(c), (Carried(s, r) \cap A) \ B)
                 /\ \A i \in 1 .. Len(c) : Matches(c[i], K[i])
    BY DEF FlowOK
  <1>3. Carried(s, r) \cap B \subseteq A
    BY DEF FlowOK
  <1>4. PICK n \in Nat : n + 1 = Len(c)
    <2>1. Len(c) \in Nat /\ Len(c) # 0
      BY <1>1
    <2>2. Len(c) - 1 \in Nat /\ (Len(c) - 1) + 1 = Len(c)
      BY <2>1
    <2> QED BY <2>2
  <1>5. PICK d : d = Tail(c)
    OBVIOUS
  <1>6. /\ d \in Seq(M) /\ Len(d) = n /\ Head(c) = c[1]
        /\ \A i \in 1 .. n : d[i] = c[i + 1]
    <2>1. Len(c) - 1 = n
      BY <1>4
    <2> QED BY <1>1, <1>4, <1>5, <2>1
  <1>7. PICK L : L = [i \in 1 .. n |-> K[i + 1]]
    OBVIOUS
  <1>8. \A i \in 1 .. n : i + 1 \in 1 .. n + 1 /\ L[i] = K[i + 1]
    BY <1>7
  <1>9. PICK S, S1 : S = (Carried(s, r) \cap A) \ B /\ S1 = (Carried(s, r) \cap A) \ (B \cup {k})
    OBVIOUS
  <1>10. /\ \A i \in 1 .. n + 1 : K[i] \in S
         /\ \A a \in S : \E i \in 1 .. n + 1 : K[i] = a
         /\ \A i, j \in 1 .. n + 1 : i < j => Prec(K[i], K[j])
    BY <1>2, <1>4, <1>9, Zenon DEF Lists
  <1>11. 1 \in 1 .. n + 1 /\ \A i \in 1 .. n + 1 : i = 1 \/ 1 < i
    OBVIOUS
  <1>12. \A a \in S : a \in Keys /\ Own(s, a) /\ Own(r, a) /\ a \in A /\ a \notin B
    BY <1>9 DEF Carried
  <1>13. k \in Keys /\ Own(s, k)
    BY DEF Carried
  <1>14. K[1] = k
    <2>1. K[1] \in S
      BY <1>10, <1>11
    <2>2. CASE Prec(k, K[1])
      <3>1. k \in A
        BY <1>12, <1>13, <2>1, <2>2 DEF InOrder
      <3>2. k \in S
        BY <1>9, <3>1
      <3>3. PICK i \in 1 .. n + 1 : K[i] = k
        BY <1>10, <3>2
      <3>4. i = 1 \/ Prec(K[1], k)
        BY <1>10, <1>11, <3>3
      <3>5. ~Prec(K[1], k)
        BY <1>12, <1>13, <2>1, <2>2, ItemsInOrder
      <3> QED BY <3>3, <3>4, <3>5
    <2> QED BY <1>12, <2>1, <2>2
  <1>15. k \in S /\ k \in A
    BY <1>10, <1>11, <1>12, <1>14
  <1>16. S1 = S \ {k}
    BY <1>9
  <1>17. \A i \in 1 .. n : L[i] \in S1
    <2> SUFFICES ASSUME NEW i \in 1 .. n PROVE L[i] \in S1
      OBVIOUS
    <2>1. i + 1 \in 1 .. n + 1 /\ L[i] = K[i + 1] /\ 1 < i + 1
      BY <1>8
    <2>2. Prec(k, L[i]) /\ L[i] \in S
      BY <1>10, <1>11, <1>14, <2>1
    <2>3. L[i] # k
      BY <1>13, <2>2, ItemsInOrder
    <2> QED BY <1>16, <2>2, <2>3
  <1>18. \A a \in S1 : \E i \in 1 .. n : L[i] = a
    <2> SUFFICES ASSUME NEW a \in S1 PROVE \E i \in 1 .. n : L[i] = a
      OBVIOUS
    <2>1. PICK i \in 1 .. n + 1 : K[i] = a
      BY <1>10, <1>16
    <2>2. i # 1
      BY <1>14, <1>16, <2>1
    <2>3. i - 1 \in 1 .. n /\ (i - 1) + 1 = i
      BY <2>2
    <2> QED BY <1>8, <2>1, <2>3
  <1>19. ASSUME NEW i \in 1 .. n, NEW j \in 1 .. n, i < j
         PROVE  Prec(L[i], L[j])
    <2>1. i + 1 < j + 1
      BY <1>19
    <2> QED BY <1>8, <1>10, <2>1
  <1>20. \A i \in 1 .. n : Matches(d[i], L[i])
    <2> SUFFICES ASSUME NEW i \in 1 .. n PROVE Matches(d[i], L[i])
      OBVIOUS
    <2>1. i + 1 \in 1 .. n + 1 /\ d[i] = c[i + 1] /\ L[i] = K[i + 1]
      BY <1>6, <1>8
    <2> QED BY <1>2, <1>4, <2>1
  <1>21. Lists(L, Len(d), S1)
    BY <1>6, <1>17, <1>18, <1>19, Zenon DEF Lists
  <1>22. Carried(s, r) \cap (B \cup {k}) \subseteq A
    BY <1>3, <1>15
  <1>23. Matches(Head(c), k)
    BY <1>2, <1>4, <1>6, <1>11, <1>14
  <1> QED BY <1>5, <1>6, <1>9, <1>20, <1>21, <1>22, <1>23 DEF FlowOK

(* Nothing of the others is disturbed.                                     *)
LEMMA FlowKept ==
    ASSUME NEW c, NEW s, NEW r, NEW A, NEW B, FlowOK(c, s, r, A, B),
           NEW A1, NEW B1, Carried(s, r) \cap A1 = Carried(s, r) \cap A,
           Carried(s, r) \cap B1 = Carried(s, r) \cap B
    PROVE  FlowOK(c, s, r, A1, B1)
  <1>1. (Carried(s, r) \cap A1) \ B1 = (Carried(s, r) \cap A) \ B
    OBVIOUS
  <1>2. Carried(s, r) \cap B \subseteq A <=> Carried(s, r) \cap B1 \subseteq A1
    OBVIOUS
  <1> QED BY <1>1, <1>2, Zenon DEF FlowOK

---------------------------------------------------------------------------
(* The plan depends on the call alone.                                     *)
LEMMA PlanFrozen ==
    ASSUME conf' = conf
    PROVE  /\ N' = N /\ P' = P /\ Ranks' = Ranks
           /\ \A i, g : HaveOf(i, g)' = HaveOf(i, g) /\ DueOf(i, g)' = DueOf(i, g)
           /\ \A i, g : Surplus(i, g)' = Surplus(i, g)
           /\ \A s, g : Slots(s, g)' = Slots(s, g)
           /\ \A g : Balanced(g)' <=> Balanced(g)
           /\ \A b : PartsOf(b)' = PartsOf(b)
  <1>1. N' = N /\ P' = P /\ Ranks' = Ranks
    BY DEF N, P, Ranks
  <1>2. \A i, g : HaveOf(i, g)' = HaveOf(i, g) /\ DueOf(i, g)' = DueOf(i, g)
    BY <1>1 DEF HaveOf, DueOf
  <1>3. \A i, g : Surplus(i, g)' = Surplus(i, g)
    BY <1>2 DEF Surplus
  <1>4. \A g : Surpluses(g)' = Surpluses(g) /\ Lacks(g)' = Lacks(g)
    BY <1>1, <1>3 DEF Surpluses, Lacks
  <1>5. \A s, g : Slots(s, g)' = Slots(s, g)
    BY <1>3, <1>4, ZenonT(30) DEF Slots
  <1>6. \A g : Balanced(g)' <=> Balanced(g)
    BY <1>1 DEF Balanced
  <1>7. \A b : PartsOf(b)' = PartsOf(b)
    BY DEF PartsOf
  <1> QED BY <1>1, <1>2, <1>3, <1>5, <1>6, <1>7

(* So what is said of a rank and of what is on the way does too.           *)
LEMMA ViewFrozen ==
    ASSUME conf' = conf
    PROVE  /\ \A r, p, g, x : ViewOK(r, p, g, x)' <=> ViewOK(r, p, g, x)
           /\ \A r, p, g, x : PassedSet(r, p, g, x)' = PassedSet(r, p, g, x)
           /\ \A c, s, r, A, B : FlowOK(c, s, r, A, B)' <=> FlowOK(c, s, r, A, B)
           /\ \A r, g, x : SlotAt(r, g, x)' = SlotAt(r, g, x)
  <1>1. /\ N' = N /\ P' = P /\ Ranks' = Ranks
        /\ \A i, g : HaveOf(i, g)' = HaveOf(i, g) /\ DueOf(i, g)' = DueOf(i, g)
        /\ \A i, g : Surplus(i, g)' = Surplus(i, g)
        /\ \A s, g : Slots(s, g)' = Slots(s, g)
        /\ \A g : Balanced(g)' <=> Balanced(g)
        /\ \A b : PartsOf(b)' = PartsOf(b)
    BY PlanFrozen
  <1>2. \A r, g : LeastOf(r, g)' = LeastOf(r, g) /\ MostOf(r, g)' = MostOf(r, g)
    BY <1>1 DEF LeastOf, MostOf
  <1>3. \A r, g, x : SlotAt(r, g, x)' = SlotAt(r, g, x)
    BY <1>1, <1>2 DEF SlotAt
  <1>4. \A r, s, g : Opposite(r, s, g)' <=> Opposite(r, s, g)
    BY <1>1 DEF Opposite
  <1>5. \A g : Reached(g)' <=> Reached(g)
    BY <1>1 DEF Reached
  <1>6. \A r, g, x, parts : XferOK(r, g, x, parts)' <=> XferOK(r, g, x, parts)
    BY <1>1, <1>2, <1>3, <1>4 DEF XferOK
  <1>7. \A r, p, g, x : ViewOK(r, p, g, x)' <=> ViewOK(r, p, g, x)
    BY <1>1, <1>5, <1>6 DEF ViewOK
  <1>8. \A r, k : Own(r, k)' <=> Own(r, k)
    BY <1>1, <1>5 DEF Own
  <1>9. \A r, p, g, x, k : PassedBy(r, p, g, x, k)' <=> PassedBy(r, p, g, x, k)
    BY <1>3 DEF PassedBy
  <1>10. \A r, p, g, x : PassedSet(r, p, g, x)' = PassedSet(r, p, g, x)
    BY <1>8, <1>9 DEF PassedSet
  <1>11. \A s, r : Carried(s, r)' = Carried(s, r)
    BY <1>1, <1>4, <1>8 DEF Carried
  <1>12. \A m, k : Matches(m, k)' <=> Matches(m, k)
    BY <1>1 DEF Matches
  <1>13. \A c, s, r, A, B : FlowOK(c, s, r, A, B)' <=> FlowOK(c, s, r, A, B)
    <2> SUFFICES ASSUME NEW c, NEW s, NEW r, NEW A, NEW B
                 PROVE  FlowOK(c, s, r, A, B)' <=> FlowOK(c, s, r, A, B)
      OBVIOUS
    <2>1. Carried(s, r)' = Carried(s, r)
      BY <1>11
    <2>2. (\E K : /\ Lists(K, Len(c), (Carried(s, r)' \cap A) \ B)
                 /\ \A i \in 1 .. Len(c) : Matches(c[i], K[i])')
             <=> (\E K : /\ Lists(K, Len(c), (Carried(s, r) \cap A) \ B)
                        /\ \A i \in 1 .. Len(c) : Matches(c[i], K[i]))
      BY <1>12, <2>1, Zenon
    <2> QED BY <2>1, <2>2, Zenon DEF FlowOK
  <1> QED BY <1>3, <1>7, <1>10, <1>13

(* The inductive invariant: every rank is at a place of its plan, and what *)
(* is on the way is what one end has sent and the other has not received.  *)
PassedOf(r) == PassedSet(r, pc[r], nglobal[r], xfer[r])

MovesOK ==
    /\ conf \in Cases
    /\ pc = [r \in Ranks |-> pc[r]]
    /\ nglobal = [r \in Ranks |-> nglobal[r]]
    /\ xfer = [r \in Ranks |-> xfer[r]]
    /\ chan = [e \in Ranks \X Ranks |-> chan[e]]
    /\ \A r \in Ranks : ViewOK(r, pc[r], nglobal[r], xfer[r])
    /\ \A s, r \in Ranks : FlowOK(chan[<<s, r>>], s, r, PassedOf(s), PassedOf(r))

LEMMA MovesNext ==
    ASSUME MovesOK, conf' = conf,
           pc' = [r \in Ranks |-> pc'[r]], nglobal' = [r \in Ranks |-> nglobal'[r]],
           xfer' = [r \in Ranks |-> xfer'[r]], chan' = [e \in Ranks \X Ranks |-> chan'[e]],
           \A r \in Ranks : ViewOK(r, pc'[r], nglobal'[r], xfer'[r]),
           \A s, r \in Ranks : FlowOK(chan'[<<s, r>>], s, r,
                                      PassedSet(s, pc'[s], nglobal'[s], xfer'[s]),
                                      PassedSet(r, pc'[r], nglobal'[r], xfer'[r]))
    PROVE  MovesOK'
  <1>1. Ranks' = Ranks
    BY PlanFrozen
  <1>2. \A r \in Ranks : ViewOK(r, pc[r], nglobal[r], xfer[r])'
    <2> SUFFICES ASSUME NEW r \in Ranks PROVE ViewOK(r, pc[r], nglobal[r], xfer[r])'
      OBVIOUS
    <2>1. PICK p, g, x : p = pc'[r] /\ g = nglobal'[r] /\ x = xfer'[r]
      OBVIOUS
    <2>2. ViewOK(r, p, g, x)'
      BY <2>1, ViewFrozen
    <2> QED BY <2>1, <2>2
  <1>3. \A r \in Ranks : PassedOf(r)' = PassedSet(r, pc'[r], nglobal'[r], xfer'[r])
    <2> SUFFICES ASSUME NEW r \in Ranks
                 PROVE  PassedOf(r)' = PassedSet(r, pc'[r], nglobal'[r], xfer'[r])
      OBVIOUS
    <2>1. PICK p, g, x : p = pc'[r] /\ g = nglobal'[r] /\ x = xfer'[r]
      OBVIOUS
    <2>2. PassedSet(r, p, g, x)' = PassedSet(r, p, g, x)
      BY ViewFrozen
    <2> QED BY <2>1, <2>2 DEF PassedOf
  <1>4. \A s, r \in Ranks : FlowOK(chan[<<s, r>>], s, r, PassedOf(s), PassedOf(r))'
    <2> SUFFICES ASSUME NEW s \in Ranks, NEW r \in Ranks
                 PROVE  FlowOK(chan[<<s, r>>], s, r, PassedOf(s), PassedOf(r))'
      OBVIOUS
    <2>1. PICK c, A, B : c = chan'[<<s, r>>] /\ A = PassedOf(s)' /\ B = PassedOf(r)'
      OBVIOUS
    <2>2. FlowOK(c, s, r, A, B)
      BY <1>3, <2>1
    <2>3. FlowOK(c, s, r, A, B)'
      BY <2>2, ViewFrozen
    <2> QED BY <2>1, <2>3
  <1> QED BY <1>1, <1>2, <1>4 DEF MovesOK

(* The item a rank is at: all it has passed come before it, and it comes   *)
(* before all others.                                                      *)
LEMMA KeyIsNext ==
    ASSUME conf \in Cases, NEW r \in Ranks, NEW p \in {"down", "up"}, NEW g, NEW x,
           ViewOK(r, p, g, x), x.pos < x.last, NEW A, A = PassedSet(r, p, g, x),
           NEW k, k = KeyAt(r, p, g, x)
    PROVE  /\ k \notin A
           /\ \A a \in A : Prec(a, k)
           /\ \A a : Own(r, a) /\ a \notin A => a = k \/ Prec(k, a)
  <1>1. Own(r, k) /\ ~PassedBy(r, p, g, x, k) /\ k \in Keys
    BY KeyAtOwn DEF Own
  <1>2. k \notin A
    BY <1>1 DEF PassedSet
  <1>3. PICK y, A1 : y = Next1(r, g, x, Len(PartsOf(p = "up"))) /\ A1 = PassedSet(r, p, g, y)
    OBVIOUS
  <1>4. ViewOK(r, p, g, y) /\ A1 = A \cup {k}
    BY <1>3, MoveView
  <1>5. InOrder(r, A) /\ InOrder(r, A1)
    BY <1>3, <1>4, PassedInOrder
  <1>6. \A a \in A : a \in Keys /\ Own(r, a)
    BY DEF PassedSet
  <1>7. ASSUME NEW a \in A PROVE Prec(a, k)
    <2>1. ~Prec(k, a)
      BY <1>1, <1>2, <1>5 DEF InOrder
    <2> QED BY <1>1, <1>2, <1>6, <2>1, ItemsInOrder
  <1>8. ASSUME NEW a, Own(r, a), a \notin A PROVE a = k \/ Prec(k, a)
    <2>1. a \in Keys
      BY <1>8 DEF Own
    <2>2. Prec(a, k) => a \in A1
      BY <1>4, <1>5, <1>8 DEF InOrder
    <2>3. Prec(a, k) => a = k
      BY <1>4, <1>8, <2>2
    <2> QED BY <1>1, <2>1, <2>3, ItemsInOrder
  <1> QED BY <1>2, <1>7, <1>8

(* A rank that moves an item is one end of its transfer, its peer is the   *)
(* other.                                                                  *)
LEMMA KeyCarried ==
    ASSUME MovesOK, NEW r \in Ranks, Moving(r),
           NEW k, k = KeyAt(r, pc[r], nglobal[r], xfer[r]), NEW s, s = xfer[r].peer
    PROVE  /\ s \in Ranks /\ s # r /\ Own(r, k) /\ Own(s, k)
           /\ Opposite(r, s, nglobal[r]) /\ Opposite(s, r, nglobal[r])
           /\ Surplus(r, nglobal[r]) \in Int /\ Surplus(s, nglobal[r]) \in Int
           /\ k.level = nglobal[r] /\ k.back = Back(r)
           /\ Sender(r) => k \in Carried(r, s)
           /\ ~Sender(r) => k \in Carried(s, r)
           /\ Slot(r) \in Slots(s, nglobal[r])
  <1>1. PICK p, g, x : p = pc[r] /\ g = nglobal[r] /\ x = xfer[r]
    OBVIOUS
  <1>2. conf \in Cases /\ p \in {"down", "up"} /\ ViewOK(r, p, g, x) /\ x.pos < x.last
    BY <1>1 DEF MovesOK, Moving
  <1>3. k = KeyAt(r, p, g, x) /\ s = x.peer
    BY <1>1
  <1>4. Own(r, k) /\ Own(s, k) /\ s \in Ranks /\ Opposite(r, s, g)
    BY <1>2, <1>3, KeyAtOwn
  <1>5. /\ k.level = g /\ k.back = (p = "up") /\ k.slot = SlotAt(r, g, x)
        /\ k.back \in BOOLEAN /\ k \in Keys
    BY <1>3, <1>4 DEF KeyAt, Own
  <1>6. g \in LevelsOf(N) /\ g # 1
    BY <1>4, <1>5 DEF Own
  <1>7. PICK lo, hi, T : Agreed(g, lo, hi, T)
    BY <1>2, <1>6, LevelOfRun
  <1>8. Surplus(r, g) \in Int /\ Surplus(s, g) \in Int
    BY <1>4, <1>7, AgreedOn
  <1>9. Opposite(s, r, g) /\ s # r /\ ((Surplus(s, g) > 0) <=> ~(Surplus(r, g) > 0))
    BY <1>4, <1>8 DEF Opposite
  <1>10. Sender(r) <=> ((Surplus(r, g) > 0) # k.back)
    BY <1>1, <1>5 DEF Sender, Back
  <1>11. Sender(r) => k \in Carried(r, s)
    BY <1>4, <1>5, <1>10 DEF Carried
  <1>12. ~Sender(r) => ((Surplus(s, g) > 0) # k.back)
    BY <1>5, <1>9, <1>10
  <1>13. ~Sender(r) => k \in Carried(s, r)
    BY <1>4, <1>5, <1>9, <1>12 DEF Carried
  <1>14. Slot(r) = k.slot
    BY <1>1, <1>5 DEF Slot, SlotAt, LeastOf
  <1>15. Slot(r) \in Slots(s, g)
    BY <1>4, <1>5, <1>14 DEF Own
  <1>16. k.back = Back(r)
    BY <1>1, <1>5 DEF Back
  <1> QED BY <1>1, <1>4, <1>5, <1>8, <1>9, <1>11, <1>13, <1>15, <1>16

(* It holds at first: nothing is passed and nothing is on the way ...      *)
LEMMA MovesInit == Init => MovesOK
  <1> SUFFICES ASSUME Init PROVE MovesOK
    OBVIOUS
  <1>0. conf \in Cases
    BY DEF Init
  <1>1. N \in Nat \ {0, 1}
    BY <1>0, CallIs
  <1>2. LevelsOf(N) \subseteq Nat \ {0} /\ 1 \in LevelsOf(N)
    BY <1>1, LevelsAre
  <1>3. Reached(1)
    BY <1>2 DEF Reached
  <1>4. \A r \in Ranks : pc[r] = "split" /\ nglobal[r] = 1 /\ xfer[r] = Idle
    BY DEF Init
  <1>5. \A r \in Ranks : ViewOK(r, pc[r], nglobal[r], xfer[r])
    BY <1>2, <1>3, <1>4 DEF ViewOK
  <1>6. \A r \in Ranks : PassedOf(r) = {}
    <2>1. ASSUME NEW r \in Ranks, NEW k, Own(r, k)
          PROVE  ~PassedBy(r, "split", 1, Idle, k)
      <3>1. k.level \in Nat \ {0} /\ k.level # 1
        BY <1>2, <2>1 DEF Own
      <3>2. ~(k.level < 1) /\ ~(k.level = 1)
        BY <3>1
      <3> QED BY <3>2 DEF PassedBy, Late
    <2> QED BY <1>4, <2>1 DEF PassedOf, PassedSet
  <1>7. ASSUME NEW s \in Ranks, NEW r \in Ranks
        PROVE  FlowOK(chan[<<s, r>>], s, r, PassedOf(s), PassedOf(r))
    <2>1. chan[<<s, r>>] = <<>>
      <3>1. PICK e : e = <<s, r>>
        OBVIOUS
      <3>2. e \in Ranks \X Ranks
        BY <3>1
      <3>3. chan[e] = <<>>
        BY <3>2 DEF Init
      <3> QED BY <3>1, <3>3
    <2>2. <<>> \in Seq({}) /\ Len(<<>>) = 0
      OBVIOUS
    <2>3. Lists(<<>>, 0, {})
      BY DEF Lists
    <2>4. FlowOK(<<>>, s, r, {}, {})
      <3>1. (Carried(s, r) \cap {}) \ {} = {}
        OBVIOUS
      <3> QED BY <2>2, <2>3, <3>1 DEF FlowOK
    <2> QED BY <1>6, <2>1, <2>4
  <1> QED BY <1>0, <1>5, <1>7 DEF MovesOK, Init

(* ... the steps of a rank that move nothing keep it ...                   *)
LEMMA QuietStep ==
    ASSUME MovesOK, conf' = conf, chan' = chan, NEW r \in Ranks, NEW p, NEW g, NEW x,
           pc' = [pc EXCEPT ![r] = p], nglobal' = [nglobal EXCEPT ![r] = g],
           xfer' = [xfer EXCEPT ![r] = x],
           ViewOK(r, p, g, x), PassedSet(r, p, g, x) = PassedOf(r)
    PROVE  MovesOK'
  <1>1. /\ pc = [t \in Ranks |-> pc[t]] /\ nglobal = [t \in Ranks |-> nglobal[t]]
        /\ xfer = [t \in Ranks |-> xfer[t]] /\ chan = [e \in Ranks \X Ranks |-> chan[e]]
    BY DEF MovesOK
  <1>2. /\ pc' = [t \in Ranks |-> pc'[t]] /\ nglobal' = [t \in Ranks |-> nglobal'[t]]
        /\ xfer' = [t \in Ranks |-> xfer'[t]] /\ chan' = [e \in Ranks \X Ranks |-> chan'[e]]
    BY <1>1
  <1>3. /\ pc'[r] = p /\ nglobal'[r] = g /\ xfer'[r] = x
        /\ \A t \in Ranks : t # r => pc'[t] = pc[t] /\ nglobal'[t] = nglobal[t] /\ xfer'[t] = xfer[t]
    BY <1>1
  <1>4. \A t \in Ranks : ViewOK(t, pc'[t], nglobal'[t], xfer'[t])
    BY <1>3 DEF MovesOK
  <1>5. \A t \in Ranks : PassedSet(t, pc'[t], nglobal'[t], xfer'[t]) = PassedOf(t)
    BY <1>3 DEF PassedOf
  <1>6. \A s, t \in Ranks : FlowOK(chan'[<<s, t>>], s, t,
                                   PassedSet(s, pc'[s], nglobal'[s], xfer'[s]),
                                   PassedSet(t, pc'[t], nglobal'[t], xfer'[t]))
    <2> SUFFICES ASSUME NEW s \in Ranks, NEW t \in Ranks
                 PROVE  FlowOK(chan'[<<s, t>>], s, t,
                               PassedSet(s, pc'[s], nglobal'[s], xfer'[s]),
                               PassedSet(t, pc'[t], nglobal'[t], xfer'[t]))
      BY Zenon
    <2>1. FlowOK(chan[<<s, t>>], s, t, PassedOf(s), PassedOf(t))
      BY Zenon DEF MovesOK
    <2>2. /\ PassedSet(s, pc'[s], nglobal'[s], xfer'[s]) = PassedOf(s)
          /\ PassedSet(t, pc'[t], nglobal'[t], xfer'[t]) = PassedOf(t)
      BY <1>5, Zenon
    <2> QED BY <2>1, <2>2
  <1> QED BY <1>2, <1>4, <1>6, MovesNext

(* ... what moves is labelled with the item and its part, ...              *)
LEMMA KeyLabel ==
    ASSUME NEW r, NEW k, k = KeyAt(r, pc[r], nglobal[r], xfer[r])
    PROVE  /\ PartsOf(k.back)[k.part] = Part(r)
           /\ <<k.back, k.level, k.slot>> = <<Back(r), nglobal[r], Slot(r)>>
  <1>1. /\ k.back = (pc[r] = "up") /\ k.level = nglobal[r]
        /\ k.slot = SlotAt(r, nglobal[r], xfer[r]) /\ k.part = xfer[r].part
    BY DEF KeyAt
  <1>2. k.back = Back(r)
    BY <1>1 DEF Back
  <1>3. PartsOf(k.back) = Parts(r)
    BY <1>2 DEF PartsOf, Parts
  <1>4. Slot(r) = k.slot
    BY <1>1 DEF Slot, SlotAt, LeastOf
  <1> QED BY <1>1, <1>2, <1>3, <1>4 DEF Part

(* ... and concerns no other rank.                                         *)
LEMMA KeyElsewhere ==
    ASSUME MovesOK, NEW r \in Ranks, Moving(r),
           NEW k, k = KeyAt(r, pc[r], nglobal[r], xfer[r]), NEW s, s = xfer[r].peer,
           NEW a \in Ranks
    PROVE  /\ k \in Carried(r, a) => Sender(r) /\ a = s
           /\ k \in Carried(a, r) => ~Sender(r) /\ a = s
  <1>1. /\ s \in Ranks /\ Own(s, k) /\ Opposite(r, s, nglobal[r])
        /\ Surplus(r, nglobal[r]) \in Int /\ k.level = nglobal[r] /\ k.back = Back(r)
    BY KeyCarried
  <1>2. conf \in Cases /\ k.back \in BOOLEAN
    BY <1>1 DEF MovesOK, Back
  <1>3. PICK g : g = nglobal[r]
    OBVIOUS
  <1>4. Sender(r) <=> ((Surplus(r, g) > 0) # k.back)
    BY <1>1, <1>3 DEF Sender
  <1>5. PICK i \in Int : i = Surplus(r, g)
    BY <1>1, <1>3
  <1>6. ASSUME k \in Carried(r, a)
        PROVE  Sender(r) /\ a = s
    <2>1. Own(a, k) /\ Opposite(r, a, g) /\ ((Surplus(r, g) > 0) # k.back)
      BY <1>1, <1>3, <1>6 DEF Carried
    <2>2. PICK b \in Int, c \in Int : b = Surplus(a, g) /\ c = Surplus(s, g)
      <3>1. g \in LevelsOf(N) /\ g # 1
        BY <1>1, <1>3 DEF Own
      <3>2. PICK lo, hi, T : Agreed(g, lo, hi, T)
        BY <1>2, <3>1, LevelOfRun
      <3>3. Surplus(a, g) \in Int /\ Surplus(s, g) \in Int
        BY <1>1, <3>2, AgreedOn
      <3> QED BY <3>3
    <2>3. (b > 0) <=> (c > 0)
      BY <1>1, <1>3, <1>5, <2>1, <2>2 DEF Opposite
    <2>4. (Surplus(a, k.level) > 0) <=> (Surplus(s, k.level) > 0)
      BY <1>1, <1>3, <2>2, <2>3
    <2>5. a = s
      BY <1>1, <1>2, <2>1, <2>4, ItemsApart
    <2> QED BY <1>4, <2>1, <2>5
  <1>7. ASSUME k \in Carried(a, r)
        PROVE  ~Sender(r) /\ a = s
    <2>1. Own(a, k) /\ Opposite(a, r, g) /\ ((Surplus(a, g) > 0) # k.back)
      BY <1>1, <1>3, <1>7 DEF Carried
    <2>2. PICK b \in Int, c \in Int : b = Surplus(a, g) /\ c = Surplus(s, g)
      <3>1. g \in LevelsOf(N) /\ g # 1
        BY <1>1, <1>3 DEF Own
      <3>2. PICK lo, hi, T : Agreed(g, lo, hi, T)
        BY <1>2, <3>1, LevelOfRun
      <3>3. Surplus(a, g) \in Int /\ Surplus(s, g) \in Int
        BY <1>1, <3>2, AgreedOn
      <3> QED BY <3>3
    <2>3. ((b > 0) <=> (c > 0)) /\ ((b > 0) <=> ~(i > 0))
      BY <1>1, <1>3, <1>5, <2>1, <2>2 DEF Opposite
    <2>4. (Surplus(a, k.level) > 0) <=> (Surplus(s, k.level) > 0)
      BY <1>1, <1>3, <2>2, <2>3
    <2>5. a = s
      BY <1>1, <1>2, <2>1, <2>4, ItemsApart
    <2>6. ~((Surplus(r, g) > 0) # k.back)
      <3>1. (Surplus(a, g) > 0) <=> ~(Surplus(r, g) > 0)
        BY <1>5, <2>2, <2>3
      <3> QED BY <1>2, <2>1, <3>1
    <2> QED BY <1>4, <2>5, <2>6
  <1> QED BY <1>6, <1>7

(* The loop of the rank goes on, and it has passed one more.               *)
LEMMA RankMoves ==
    ASSUME MovesOK, NEW r \in Ranks, Moving(r), conf' = conf, pc' = pc, nglobal' = nglobal,
           xfer' = [xfer EXCEPT ![r] = Advance(r)],
           NEW k, k = KeyAt(r, pc[r], nglobal[r], xfer[r])
    PROVE  /\ xfer' = [t \in Ranks |-> xfer'[t]]
           /\ \A t \in Ranks : ViewOK(t, pc'[t], nglobal'[t], xfer'[t])
           /\ PassedSet(r, pc'[r], nglobal'[r], xfer'[r]) = PassedOf(r) \cup {k}
           /\ \A t \in Ranks : t # r =>
                 PassedSet(t, pc'[t], nglobal'[t], xfer'[t]) = PassedOf(t)
  <1>1. PICK p, g, x : p = pc[r] /\ g = nglobal[r] /\ x = xfer[r]
    OBVIOUS
  <1>2. conf \in Cases /\ p \in {"down", "up"} /\ ViewOK(r, p, g, x) /\ x.pos < x.last
    BY <1>1 DEF MovesOK, Moving
  <1>3. PICK y : y = Next1(r, g, x, Len(PartsOf(p = "up")))
    OBVIOUS
  <1>4. y = Advance(r)
    <2>1. Parts(r) = PartsOf(p = "up")
      BY <1>1 DEF Parts, PartsOf, Back
    <2> QED BY <1>1, <1>3, <2>1 DEF Advance, Next1
  <1>5. k = KeyAt(r, p, g, x)
    BY <1>1
  <1>6. ViewOK(r, p, g, y) /\ PassedSet(r, p, g, y) = PassedSet(r, p, g, x) \cup {k}
    BY <1>2, <1>3, <1>5, MoveView
  <1>7. xfer = [t \in Ranks |-> xfer[t]]
    BY DEF MovesOK
  <1>8. xfer'[r] = y /\ \A t \in Ranks : t # r => xfer'[t] = xfer[t]
    BY <1>4, <1>7
  <1>9. \A t \in Ranks : ViewOK(t, pc'[t], nglobal'[t], xfer'[t])
    BY <1>1, <1>6, <1>8 DEF MovesOK
  <1>10. PassedSet(r, pc'[r], nglobal'[r], xfer'[r]) = PassedOf(r) \cup {k}
    BY <1>1, <1>6, <1>8 DEF PassedOf
  <1>11. \A t \in Ranks : t # r =>
             PassedSet(t, pc'[t], nglobal'[t], xfer'[t]) = PassedOf(t)
    BY <1>8 DEF PassedOf
  <1>12. xfer' = [t \in Ranks |-> xfer'[t]]
    BY <1>7
  <1> QED BY <1>9, <1>10, <1>11, <1>12

(* A send puts the item of the rank at the end of what is on the way to    *)
(* its peer ...                                                            *)
LEMMA SendKeeps ==
    ASSUME MovesOK, NEW r \in Ranks, Send(r)
    PROVE  MovesOK'
  <1>0. /\ Moving(r) /\ Sender(r) /\ conf' = conf /\ pc' = pc /\ nglobal' = nglobal
        /\ xfer' = [xfer EXCEPT ![r] = Advance(r)]
    BY DEF Send
  <1>1. PICK k, s : k = KeyAt(r, pc[r], nglobal[r], xfer[r]) /\ s = xfer[r].peer
    OBVIOUS
  <1>2. PICK m : /\ m.part = Part(r) /\ m.at = <<Back(r), nglobal[r], Slot(r)>>
                 /\ chan' = [chan EXCEPT ![<<r, s>>] = Append(@, m)]
    <2>1. PICK level : level = IF Back(r) THEN depth[r] ELSE Len(tree[r])
      OBVIOUS
    <2>2. PICK cell : cell = IF Part(r) = "result" THEN Cell(results[r][xfer[r].pos])
                             ELSE IF Back(r) THEN Occupant(r, level, xfer[r].pos)
                             ELSE tree[r][level][xfer[r].pos]
      OBVIOUS
    <2>3. PICK m : m = [part |-> Part(r), cell |-> cell, at |-> <<Back(r), nglobal[r], Slot(r)>>]
      OBVIOUS
    <2>4. chan' = [chan EXCEPT ![<<r, s>>] = Append(@, m)]
      BY <1>1, <2>1, <2>2, <2>3, Zenon DEF Send
    <2> QED BY <2>3, <2>4
  <1>3. s \in Ranks /\ s # r /\ k \in Carried(r, s)
    BY <1>0, <1>1, KeyCarried
  <1>4. Matches(m, k)
    BY <1>1, <1>2, KeyLabel DEF Matches
  <1>5. /\ xfer' = [t \in Ranks |-> xfer'[t]]
        /\ \A t \in Ranks : ViewOK(t, pc'[t], nglobal'[t], xfer'[t])
        /\ PassedSet(r, pc'[r], nglobal'[r], xfer'[r]) = PassedOf(r) \cup {k}
        /\ \A t \in Ranks : t # r =>
              PassedSet(t, pc'[t], nglobal'[t], xfer'[t]) = PassedOf(t)
    BY <1>0, <1>1, RankMoves
  <1>6. k \notin PassedOf(r) /\ \A a \in PassedOf(r) : Prec(a, k)
    <2>1. PICK p, g, x : p = pc[r] /\ g = nglobal[r] /\ x = xfer[r]
      OBVIOUS
    <2>2. conf \in Cases /\ p \in {"down", "up"} /\ ViewOK(r, p, g, x) /\ x.pos < x.last
      BY <1>0, <2>1 DEF MovesOK, Moving
    <2>3. PICK A : A = PassedSet(r, p, g, x)
      OBVIOUS
    <2>4. k = KeyAt(r, p, g, x)
      BY <1>1, <2>1
    <2>5. k \notin A /\ \A a \in A : Prec(a, k)
      BY <2>2, <2>3, <2>4, KeyIsNext
    <2> QED BY <2>1, <2>3, <2>5 DEF PassedOf
  <1>7. chan = [e \in Ranks \X Ranks |-> chan[e]]
    BY DEF MovesOK
  <1>8. PICK e : e = <<r, s>> /\ e \in Ranks \X Ranks
    <2>1. <<r, s>> \in Ranks \X Ranks
      BY <1>3
    <2> QED BY <2>1
  <1>9. /\ chan' = [f \in Ranks \X Ranks |-> chan'[f]]
        /\ chan'[e] = Append(chan[e], m)
        /\ \A f \in Ranks \X Ranks : f # e => chan'[f] = chan[f]
    BY <1>2, <1>7, <1>8
  <1>10. ASSUME NEW a \in Ranks, NEW b \in Ranks
         PROVE  FlowOK(chan'[<<a, b>>], a, b,
                       PassedSet(a, pc'[a], nglobal'[a], xfer'[a]),
                       PassedSet(b, pc'[b], nglobal'[b], xfer'[b]))
    <2>0. PICK A, B, c : A = PassedOf(a) /\ B = PassedOf(b) /\ c = chan[<<a, b>>]
      OBVIOUS
    <2>1. FlowOK(c, a, b, A, B)
      BY <2>0 DEF MovesOK
    <2>2. PICK A1, B1 : /\ A1 = PassedSet(a, pc'[a], nglobal'[a], xfer'[a])
                        /\ B1 = PassedSet(b, pc'[b], nglobal'[b], xfer'[b])
      OBVIOUS
    <2>3. (a = r => A1 = A \cup {k}) /\ (a # r => A1 = A)
      BY <1>5, <2>0, <2>2
    <2>4. (b = r => B1 = B \cup {k}) /\ (b # r => B1 = B)
      BY <1>5, <2>0, <2>2
    <2>5. CASE a = r /\ b = s
      <3>1. A1 = A \cup {k} /\ B1 = B
        BY <1>3, <2>3, <2>4, <2>5
      <3>2. chan'[<<a, b>>] = Append(c, m)
        BY <1>8, <1>9, <2>0, <2>5
      <3>3. k \in Carried(a, b) /\ k \notin A /\ \A i \in A : Own(a, i) => Prec(i, k)
        BY <1>3, <1>6, <2>0, <2>5
      <3>4. FlowOK(Append(c, m), a, b, A \cup {k}, B)
        BY <1>4, <2>1, <3>3, FlowSent
      <3> QED BY <2>2, <3>1, <3>2, <3>4
    <2>6. CASE ~(a = r /\ b = s)
      <3>1. chan'[<<a, b>>] = c
        <4>1. <<a, b>> \in Ranks \X Ranks /\ <<a, b>> # <<r, s>>
          BY <2>6
        <4>2. PICK f : f = <<a, b>> /\ f \in Ranks \X Ranks /\ f # e
          BY <1>8, <4>1
        <4> QED BY <1>9, <2>0, <4>2
      <3>2. a = r => k \notin Carried(a, b)
        BY <1>0, <1>1, <2>6, KeyElsewhere
      <3>3. b = r => k \notin Carried(a, b)
        BY <1>0, <1>1, KeyElsewhere
      <3>4. Carried(a, b) \cap A1 = Carried(a, b) \cap A
        BY <2>3, <3>2
      <3>5. Carried(a, b) \cap B1 = Carried(a, b) \cap B
        BY <2>4, <3>3
      <3>6. FlowOK(c, a, b, A1, B1)
        BY <2>1, <3>4, <3>5, FlowKept
      <3> QED BY <2>2, <3>1, <3>6
    <2> QED BY <2>5, <2>6
  <1>11. pc' = [t \in Ranks |-> pc'[t]] /\ nglobal' = [t \in Ranks |-> nglobal'[t]]
    BY <1>0 DEF MovesOK
  <1> QED BY <1>0, <1>5, <1>9, <1>10, <1>11, MovesNext

(* ... and the first of what is on the way to a rank that receives is the  *)
(* item it is at.                                                          *)
LEMMA FirstIsNext ==
    ASSUME MovesOK, NEW r \in Ranks, Moving(r), ~Sender(r),
           NEW k, k = KeyAt(r, pc[r], nglobal[r], xfer[r]), NEW s, s = xfer[r].peer,
           chan[<<s, r>>] # <<>>
    PROVE  /\ Matches(Head(chan[<<s, r>>]), k)
           /\ FlowOK(Tail(chan[<<s, r>>]), s, r, PassedOf(s), PassedOf(r) \cup {k})
  <1>1. s \in Ranks /\ s # r /\ k \in Carried(s, r)
    BY KeyCarried
  <1>2. PICK A, B, c : A = PassedOf(s) /\ B = PassedOf(r) /\ c = chan[<<s, r>>]
    OBVIOUS
  <1>3. FlowOK(c, s, r, A, B)
    BY <1>1, <1>2 DEF MovesOK
  <1>4. InOrder(s, A)
    <2>1. PICK p, g, x : p = pc[s] /\ g = nglobal[s] /\ x = xfer[s]
      OBVIOUS
    <2>2. conf \in Cases /\ ViewOK(s, p, g, x)
      BY <1>1, <2>1 DEF MovesOK
    <2>3. InOrder(s, PassedSet(s, p, g, x))
      BY <1>1, <2>2, PassedInOrder
    <2> QED BY <1>2, <2>1, <2>3 DEF PassedOf
  <1>5. k \notin B /\ \A a : Own(r, a) /\ a \notin B => a = k \/ Prec(k, a)
    <2>1. PICK p, g, x : p = pc[r] /\ g = nglobal[r] /\ x = xfer[r]
      OBVIOUS
    <2>2. conf \in Cases /\ p \in {"down", "up"} /\ ViewOK(r, p, g, x) /\ x.pos < x.last
      BY <2>1 DEF MovesOK, Moving
    <2>3. k = KeyAt(r, p, g, x) /\ B = PassedSet(r, p, g, x)
      BY <1>2, <2>1 DEF PassedOf
    <2> QED BY <2>2, <2>3, KeyIsNext
  <1>6. c # <<>>
    BY <1>2
  <1>7. Matches(Head(c), k) /\ FlowOK(Tail(c), s, r, A, B \cup {k})
    BY <1>1, <1>3, <1>4, <1>5, <1>6, FlowReceived
  <1> QED BY <1>2, <1>7

(* A receive takes it away ...                                             *)
LEMMA RecvKeeps ==
    ASSUME MovesOK, NEW r \in Ranks, Recv(r)
    PROVE  MovesOK'
  <1>1. PICK k, s : k = KeyAt(r, pc[r], nglobal[r], xfer[r]) /\ s = xfer[r].peer
    OBVIOUS
  <1>2. /\ Moving(r) /\ ~Sender(r) /\ conf' = conf /\ pc' = pc /\ nglobal' = nglobal
        /\ xfer' = [xfer EXCEPT ![r] = Advance(r)]
        /\ chan[<<s, r>>] # <<>>
        /\ chan' = [chan EXCEPT ![<<s, r>>] = Tail(@)]
    BY <1>1 DEF Recv
  <1>3. s \in Ranks /\ s # r
    BY <1>1, <1>2, KeyCarried
  <1>4. FlowOK(Tail(chan[<<s, r>>]), s, r, PassedOf(s), PassedOf(r) \cup {k})
    BY <1>1, <1>2, FirstIsNext
  <1>5. /\ xfer' = [t \in Ranks |-> xfer'[t]]
        /\ \A t \in Ranks : ViewOK(t, pc'[t], nglobal'[t], xfer'[t])
        /\ PassedSet(r, pc'[r], nglobal'[r], xfer'[r]) = PassedOf(r) \cup {k}
        /\ \A t \in Ranks : t # r =>
              PassedSet(t, pc'[t], nglobal'[t], xfer'[t]) = PassedOf(t)
    BY <1>1, <1>2, RankMoves
  <1>7. chan = [e \in Ranks \X Ranks |-> chan[e]]
    BY DEF MovesOK
  <1>8. PICK e : e = <<s, r>> /\ e \in Ranks \X Ranks
    <2>1. <<s, r>> \in Ranks \X Ranks
      BY <1>3
    <2> QED BY <2>1
  <1>9. /\ chan' = [f \in Ranks \X Ranks |-> chan'[f]]
        /\ chan'[e] = Tail(chan[e])
        /\ \A f \in Ranks \X Ranks : f # e => chan'[f] = chan[f]
    BY <1>2, <1>7, <1>8
  <1>10. ASSUME NEW a \in Ranks, NEW b \in Ranks
         PROVE  FlowOK(chan'[<<a, b>>], a, b,
                       PassedSet(a, pc'[a], nglobal'[a], xfer'[a]),
                       PassedSet(b, pc'[b], nglobal'[b], xfer'[b]))
    <2>0. PICK A, B, c : A = PassedOf(a) /\ B = PassedOf(b) /\ c = chan[<<a, b>>]
      OBVIOUS
    <2>1. FlowOK(c, a, b, A, B)
      BY <2>0 DEF MovesOK
    <2>2. PICK A1, B1 : /\ A1 = PassedSet(a, pc'[a], nglobal'[a], xfer'[a])
                        /\ B1 = PassedSet(b, pc'[b], nglobal'[b], xfer'[b])
      OBVIOUS
    <2>3. (a = r => A1 = A \cup {k}) /\ (a # r => A1 = A)
      BY <1>5, <2>0, <2>2
    <2>4. (b = r => B1 = B \cup {k}) /\ (b # r => B1 = B)
      BY <1>5, <2>0, <2>2
    <2>5. CASE a = s /\ b = r
      <3>1. A1 = A /\ B1 = B \cup {k}
        BY <1>3, <2>3, <2>4, <2>5
      <3>2. chan'[<<a, b>>] = Tail(chan[<<s, r>>])
        BY <1>8, <1>9, <2>5
      <3> QED BY <1>4, <2>0, <2>2, <2>5, <3>1, <3>2
    <2>6. CASE ~(a = s /\ b = r)
      <3>1. chan'[<<a, b>>] = c
        <4>1. <<a, b>> \in Ranks \X Ranks /\ <<a, b>> # <<s, r>>
          BY <2>6
        <4>2. PICK f : f = <<a, b>> /\ f \in Ranks \X Ranks /\ f # e
          BY <1>8, <4>1
        <4> QED BY <1>9, <2>0, <4>2
      <3>2. a = r => k \notin Carried(a, b)
        BY <1>1, <1>2, KeyElsewhere
      <3>3. b = r => k \notin Carried(a, b)
        BY <1>1, <1>2, <2>6, KeyElsewhere
      <3>4. Carried(a, b) \cap A1 = Carried(a, b) \cap A
        BY <2>3, <3>2
      <3>5. Carried(a, b) \cap B1 = Carried(a, b) \cap B
        BY <2>4, <3>3
      <3>6. FlowOK(c, a, b, A1, B1)
        BY <2>1, <3>4, <3>5, FlowKept
      <3> QED BY <2>2, <3>1, <3>6
    <2> QED BY <2>5, <2>6
  <1>11. pc' = [t \in Ranks |-> pc'[t]] /\ nglobal' = [t \in Ranks |-> nglobal'[t]]
    BY <1>2 DEF MovesOK
  <1> QED BY <1>2, <1>5, <1>9, <1>10, <1>11, MovesNext

(* ... and so every step keeps the invariant.                              *)
LEMMA MovesStep == MovesOK /\ [Next]_vars => MovesOK'
  <1> SUFFICES ASSUME MovesOK, [Next]_vars PROVE MovesOK'
    OBVIOUS
  <1>0. /\ conf \in Cases /\ pc = [t \in Ranks |-> pc[t]]
        /\ nglobal = [t \in Ranks |-> nglobal[t]] /\ xfer = [t \in Ranks |-> xfer[t]]
    BY DEF MovesOK
  <1>1. ASSUME NEW r \in Ranks, Step(r) PROVE MovesOK'
    <2>0. PICK g, x : g = nglobal[r] /\ x = xfer[r]
      OBVIOUS
    <2>1. ViewOK(r, pc[r], g, x) /\ PassedOf(r) = PassedSet(r, pc[r], g, x)
      BY <2>0 DEF MovesOK, PassedOf
    <2>2. CASE Split(r)
      <3>1. PICK y : y = StartXfer(r, N * g)
        OBVIOUS
      <3>2. /\ pc[r] = "split" /\ ~Balanced(g) /\ conf' = conf /\ chan' = chan
            /\ pc' = [pc EXCEPT ![r] = "down"] /\ nglobal' = [nglobal EXCEPT ![r] = N * g]
            /\ xfer' = [xfer EXCEPT ![r] = y]
        BY <2>0, <2>2, <3>1, Zenon DEF Split
      <3>3. ViewOK(r, "down", N * g, y) /\ PassedSet(r, "down", N * g, y) = PassedOf(r)
        BY <1>0, <2>1, <3>1, <3>2, SplitView
      <3> QED BY <3>2, <3>3, QuietStep
    <2>3. CASE Commit(r)
      <3>1. /\ pc[r] = "down" /\ x.pos = x.last /\ conf' = conf /\ chan' = chan
            /\ pc' = [pc EXCEPT ![r] = "split"] /\ nglobal' = nglobal /\ xfer' = xfer
        BY <2>0, <2>3 DEF Commit, Moved
      <3>2. nglobal' = [nglobal EXCEPT ![r] = g] /\ xfer' = [xfer EXCEPT ![r] = x]
        BY <1>0, <2>0, <3>1
      <3>3. ViewOK(r, "split", g, x) /\ PassedSet(r, "split", g, x) = PassedOf(r)
        BY <1>0, <2>1, <3>1, CommitView
      <3> QED BY <3>1, <3>2, <3>3, QuietStep
    <2>4. CASE Run(r)
      <3>1. /\ pc[r] = "split" /\ Balanced(g) /\ conf' = conf /\ chan' = chan
            /\ pc' = [pc EXCEPT ![r] = "gather"] /\ nglobal' = nglobal /\ xfer' = xfer
        BY <2>0, <2>4 DEF Run
      <3>2. nglobal' = [nglobal EXCEPT ![r] = g] /\ xfer' = [xfer EXCEPT ![r] = x]
        BY <1>0, <2>0, <3>1
      <3>3. ViewOK(r, "gather", g, x) /\ PassedSet(r, "gather", g, x) = PassedOf(r)
        BY <1>0, <2>1, <3>1, RunView
      <3> QED BY <3>1, <3>2, <3>3, QuietStep
    <2>5. CASE Gather(r)
      <3>1. PICK y : y = StartXfer(r, g)
        OBVIOUS
      <3>2. /\ pc[r] = "gather" /\ g > 1 /\ conf' = conf /\ chan' = chan
            /\ pc' = [pc EXCEPT ![r] = "up"] /\ nglobal' = nglobal
            /\ xfer' = [xfer EXCEPT ![r] = y]
        BY <2>0, <2>5, <3>1 DEF Gather
      <3>3. nglobal' = [nglobal EXCEPT ![r] = g]
        BY <1>0, <2>0, <3>2
      <3>4. ViewOK(r, "up", g, y) /\ PassedSet(r, "up", g, y) = PassedOf(r)
        BY <1>0, <2>1, <3>1, <3>2, GatherView
      <3> QED BY <3>2, <3>3, <3>4, QuietStep
    <2>6. CASE Reduce(r)
      <3>1. /\ pc[r] = "up" /\ x.pos = x.last /\ conf' = conf /\ chan' = chan
            /\ pc' = [pc EXCEPT ![r] = "gather"] /\ nglobal' = [nglobal EXCEPT ![r] = g \div N]
            /\ xfer' = xfer
        BY <2>0, <2>6, Zenon DEF Reduce, Moved
      <3>2. xfer' = [xfer EXCEPT ![r] = x]
        BY <1>0, <2>0, <3>1
      <3>3. ViewOK(r, "gather", g \div N, x) /\ PassedSet(r, "gather", g \div N, x) = PassedOf(r)
        BY <1>0, <2>1, <3>1, ReduceView
      <3> QED BY <3>1, <3>2, <3>3, QuietStep
    <2>7. CASE Finish(r)
      <3>1. /\ pc[r] = "gather" /\ g = 1 /\ conf' = conf /\ chan' = chan
            /\ pc' = [pc EXCEPT ![r] = "done"] /\ nglobal' = nglobal /\ xfer' = xfer
        BY <2>0, <2>7 DEF Finish
      <3>2. nglobal' = [nglobal EXCEPT ![r] = g] /\ xfer' = [xfer EXCEPT ![r] = x]
        BY <1>0, <2>0, <3>1
      <3>3. ViewOK(r, "done", g, x) /\ PassedSet(r, "done", g, x) = PassedOf(r)
        BY <2>1, <3>1, FinishView
      <3> QED BY <3>1, <3>2, <3>3, QuietStep
    <2>8. CASE Send(r) \/ Recv(r)
      BY <2>8, SendKeeps, RecvKeeps
    <2> QED BY <1>1, <2>2, <2>3, <2>4, <2>5, <2>6, <2>7, <2>8 DEF Step
  <1>2. CASE UNCHANGED vars
    <2>1. /\ conf' = conf /\ pc' = pc /\ nglobal' = nglobal /\ xfer' = xfer /\ chan' = chan
      BY <1>2 DEF vars
    <2>2. \A r \in Ranks : PassedSet(r, pc'[r], nglobal'[r], xfer'[r]) = PassedOf(r)
      BY <2>1 DEF PassedOf
    <2>3. \A s, r \in Ranks : FlowOK(chan'[<<s, r>>], s, r,
                                     PassedSet(s, pc'[s], nglobal'[s], xfer'[s]),
                                     PassedSet(r, pc'[r], nglobal'[r], xfer'[r]))
      <3> SUFFICES ASSUME NEW s \in Ranks, NEW r \in Ranks
                   PROVE  FlowOK(chan'[<<s, r>>], s, r,
                                 PassedSet(s, pc'[s], nglobal'[s], xfer'[s]),
                                 PassedSet(r, pc'[r], nglobal'[r], xfer'[r]))
        BY Zenon
      <3>1. FlowOK(chan[<<s, r>>], s, r, PassedOf(s), PassedOf(r))
        BY Zenon DEF MovesOK
      <3> QED BY <2>1, <2>2, <3>1
    <2>4. \A r \in Ranks : ViewOK(r, pc'[r], nglobal'[r], xfer'[r])
      BY <2>1 DEF MovesOK
    <2>5. /\ pc' = [t \in Ranks |-> pc'[t]] /\ nglobal' = [t \in Ranks |-> nglobal'[t]]
          /\ xfer' = [t \in Ranks |-> xfer'[t]] /\ chan' = [e \in Ranks \X Ranks |-> chan'[e]]
      BY <2>1 DEF MovesOK
    <2> QED BY <2>1, <2>3, <2>4, <2>5, MovesNext
  <1> QED BY <1>1, <1>2 DEF Next, Terminated

(* When every rank is done nothing is left on the way.                     *)
LEMMA NothingLeft ==
    ASSUME MovesOK, AllDone, NEW s \in Ranks, NEW r \in Ranks
    PROVE  chan[<<s, r>>] = <<>>
  <1>1. PICK A, B, c, x : /\ A = PassedOf(s) /\ B = PassedOf(r) /\ c = chan[<<s, r>>]
                          /\ x = xfer[r]
    OBVIOUS
  <1>2. conf \in Cases /\ ViewOK(r, "done", 1, x) /\ B = PassedSet(r, "done", 1, x)
    <2>1. pc[r] = "done" /\ ViewOK(r, "done", nglobal[r], x)
      BY <1>1 DEF MovesOK, AllDone
    <2>2. nglobal[r] = 1
      BY <2>1 DEF ViewOK
    <2> QED BY <1>1, <2>1, <2>2 DEF MovesOK, PassedOf
  <1>3. LevelsOf(N) \subseteq Nat \ {0}
    BY <1>2, CallIs, LevelsAre
  <1>4. ASSUME NEW k \in Carried(s, r) PROVE k \in B
    <2>1. k \in Keys /\ Own(r, k)
      BY DEF Carried
    <2>2. k.level \in Nat \ {0} /\ k.level # 1
      BY <1>3, <2>1 DEF Own
    <2>3. 1 < k.level
      BY <2>2
    <2>4. PassedBy(r, "done", 1, x, k)
      BY <2>3, Zenon DEF PassedBy, Late
    <2> QED BY <1>2, <2>1, <2>4 DEF PassedSet
  <1>5. FlowOK(c, s, r, A, B)
    BY <1>1 DEF MovesOK
  <1>6. (Carried(s, r) \cap A) \ B = {}
    BY <1>4
  <1>7. PICK K : Lists(K, Len(c), {})
    BY <1>5, <1>6, Zenon DEF FlowOK
  <1>8. PICK M : c \in Seq(M)
    BY <1>5 DEF FlowOK
  <1>9. Len(c) = 0
    <2>1. Len(c) \in Nat
      BY <1>8
    <2>2. \A i \in 1 .. Len(c) : FALSE
      BY <1>7 DEF Lists
    <2>3. Len(c) >= 1 => 1 \in 1 .. Len(c)
      BY <2>1
    <2> QED BY <2>1, <2>2, <2>3
  <1> QED BY <1>1, <1>8, <1>9

(* Nobody tells a rank the plan of a level, and yet both ends of every     *)
(* transfer agree on it: a rank turns to the peer that has, or lacks, the  *)
(* item it is at, what arrives is that item of that level, and no message  *)
(* is left over.                                                           *)
THEOREM PlansAreAgreed == Spec => []PlansAgree
  <1>1. MovesOK => PlansAgree
    <2> SUFFICES ASSUME MovesOK PROVE PlansAgree
      OBVIOUS
    <2>1. ASSUME NEW r \in Ranks, Moving(r), NEW s, s = xfer[r].peer, NEW g, g = nglobal[r]
          PROVE  /\ s \in Ranks
                 /\ Surplus(s, g) * Surplus(r, g) < 0
                 /\ Slot(r) \in Slots(s, g)
                 /\ ~Sender(r) /\ chan[s, r] # <<>> =>
                       /\ Head(chan[s, r]).part = Part(r)
                       /\ Head(chan[s, r]).at = <<Back(r), g, Slot(r)>>
      <3>1. PICK k : k = KeyAt(r, pc[r], nglobal[r], xfer[r])
        OBVIOUS
      <3>2. /\ s \in Ranks /\ Opposite(r, s, g) /\ Slot(r) \in Slots(s, g)
            /\ Surplus(r, g) \in Int /\ Surplus(s, g) \in Int
        BY <2>1, <3>1, KeyCarried
      <3>3. Surplus(s, g) * Surplus(r, g) < 0
        <4>1. PICK i \in Int, j \in Int : i = Surplus(s, g) /\ j = Surplus(r, g)
          BY <3>2
        <4>2. (j > 0 /\ i < 0) \/ (j < 0 /\ i > 0)
          BY <3>2, <4>1 DEF Opposite
        <4>3. \A a, b \in Nat : a > 0 /\ b > 0 => a * b > 0
          OBVIOUS
        <4>4. CASE j > 0 /\ i < 0
          <5>1. PICK a \in Nat, b \in Nat : a = -i /\ b = j /\ a > 0 /\ b > 0
            BY <4>1, <4>4
          <5>2. a * b > 0
            BY <4>3, <5>1
          <5>3. i * j = -(a * b)
            BY <4>1, <5>1
          <5>4. a * b \in Int
            BY <5>1
          <5> QED BY <4>1, <5>2, <5>3, <5>4
        <4>5. CASE j < 0 /\ i > 0
          <5>1. PICK a \in Nat, b \in Nat : a = -j /\ b = i /\ a > 0 /\ b > 0
            BY <4>1, <4>5
          <5>2. b * a > 0
            BY <4>3, <5>1
          <5>3. i * j = -(b * a)
            BY <4>1, <5>1
          <5>4. b * a \in Int
            BY <5>1
          <5> QED BY <4>1, <5>2, <5>3, <5>4
        <4> QED BY <4>2, <4>4, <4>5
      <3>4. ASSUME ~Sender(r), chan[s, r] # <<>>
            PROVE  /\ Head(chan[s, r]).part = Part(r)
                   /\ Head(chan[s, r]).at = <<Back(r), g, Slot(r)>>
        <4>1. Matches(Head(chan[<<s, r>>]), k)
          BY <2>1, <3>1, <3>4, FirstIsNext
        <4>2. /\ PartsOf(k.back)[k.part] = Part(r)
              /\ <<k.back, k.level, k.slot>> = <<Back(r), g, Slot(r)>>
          BY <2>1, <3>1, KeyLabel
        <4> QED BY <4>1, <4>2 DEF Matches
      <3> QED BY <3>2, <3>3, <3>4
    <2>2. ASSUME AllDone PROVE \A p \in Ranks \X Ranks : chan[p] = <<>>
      <3> SUFFICES ASSUME NEW p \in Ranks \X Ranks PROVE chan[p] = <<>>
        OBVIOUS
      <3>1. p[1] \in Ranks /\ p[2] \in Ranks /\ p = <<p[1], p[2]>>
        OBVIOUS
      <3>2. chan[<<p[1], p[2]>>] = <<>>
        BY <2>2, <3>1, NothingLeft
      <3> QED BY <3>1, <3>2
    <2> QED BY <2>1, <2>2 DEF PlansAgree
  <1> QED BY <1>1, MovesInit, MovesStep, PTL DEF Spec
---------------------------------------------------------------------------
(* More problems in all are no fewer for any rank.                         *)
LEMMA SharesGrow ==
    ASSUME NEW i \in Int, NEW a \in Nat, NEW b \in Nat, a <= b, NEW p \in Nat \ {0}
    PROVE  NLocal(i, a, p) <= NLocal(i, b, p)
  <1>1. PICK q \in Nat, e \in Nat : q = a \div p /\ e = a % p /\ a = p * q + e /\ e < p
    BY DivMod
  <1>2. PICK u \in Nat, f \in Nat : u = b \div p /\ f = b % p /\ b = p * u + f /\ f < p
    BY DivMod
  <1>3. q <= u
    <2>1. SUFFICES ASSUME u + 1 <= q PROVE FALSE
      BY <1>1, <1>2
    <2>2. p * (u + 1) <= p * q
      BY <1>1, <1>2, <2>1
    <2>3. p * (u + 1) = p * u + p
      BY <1>2
    <2>4. PICK v \in Nat, w \in Nat : v = p * u /\ w = p * q
      BY <1>1, <1>2
    <2> QED BY <1>1, <1>2, <2>2, <2>3, <2>4
  <1>4. q = u => e <= f
    <2>1. PICK v \in Nat, w \in Nat : v = p * u /\ w = p * q
      BY <1>1, <1>2
    <2> QED BY <1>1, <1>2, <2>1
  <1> QED BY <1>1, <1>2, <1>3, <1>4 DEF NLocal

(* The room a rank has for results: on the way back at least for what it   *)
(* had of the level when the level was split, and for as many before it    *)
(* starts on a level once it has made room or given results away.          *)
RoomOK(r, p, g, D, u) ==
    /\ p \in {"split", "down"} => u
    /\ p = "gather" => \E m \in Nat : /\ D = 0 .. m - 1
                                      /\ NLocal(r, g, P) <= m
                                      /\ ~u => N * NLocal(r, g, P) <= m
    /\ p = "up" => \E m \in Nat : D = 0 .. m - 1 /\ HaveOf(r, g) <= m

RoomsOK ==
    /\ results = [r \in Ranks |-> results[r]]
    /\ unsaved = [r \in Ranks |-> unsaved[r]]
    /\ RecvResults => \A r \in Ranks : RoomOK(r, pc[r], nglobal[r], DOMAIN results[r], unsaved[r])

(* What a rank had of a level, in terms of the level before.               *)
LEMMA RoomOfLevel ==
    ASSUME conf \in Cases, NEW r \in Ranks, NEW g \in LevelsOf(N)
    PROVE  /\ NLocal(r, g, P) \in Nat /\ NLocal(r, g, P) = DueOf(r, g)
           /\ HaveOf(r, N * g) = N * NLocal(r, g, P) /\ HaveOf(r, N * g) \in Nat
           /\ NLocal(r, g, P) <= HaveOf(r, N * g)
           /\ g # 1 => HaveOf(r, g) \in Nat /\ HaveOf(r, g) <= HaveOf(r, N * g)
  <1>1. N \in Nat \ {0, 1} /\ P \in Nat \ {0} /\ r \in Int
    BY CallIs DEF Ranks
  <1>2. LevelsOf(N) \subseteq Nat \ {0}
    BY <1>1, LevelsAre
  <1>3. g \in Nat
    BY <1>2
  <1>4. NLocal(r, g, P) \in Nat
    BY <1>1, <1>3, SharesAreNat
  <1>5. HaveOf(r, N * g) = N * NLocal(r, g, P)
    <2>1. (N * g) \div N = g
      BY <1>1, <1>3, QuotientOfMultiple
    <2> QED BY <2>1 DEF HaveOf, Have
  <1>6. PICK l \in Nat : l = NLocal(r, g, P)
    BY <1>4
  <1>7. N * l \in Nat /\ l <= N * l
    BY <1>1
  <1>8. ASSUME g # 1
        PROVE  HaveOf(r, g) \in Nat /\ HaveOf(r, g) <= HaveOf(r, N * g)
    <2>1. PICK h \in LevelsOf(N) : g = N * h
      BY <1>1, <1>8, LevelsAre
    <2>2. h \in Nat /\ h <= g
      BY <1>1, <1>2, <2>1, LevelsAre
    <2>3. g \div N = h
      BY <1>1, <2>1, <2>2, QuotientOfMultiple
    <2>4. HaveOf(r, g) = N * NLocal(r, h, P)
      BY <2>3 DEF HaveOf, Have
    <2>5. NLocal(r, h, P) \in Nat /\ NLocal(r, h, P) <= NLocal(r, g, P)
      BY <1>1, <1>3, <2>2, SharesAreNat, SharesGrow
    <2>6. PICK k \in Nat : k = NLocal(r, h, P) /\ k <= l
      BY <1>6, <2>5
    <2>7. N * k \in Nat /\ N * k <= N * l
      BY <1>1, <2>6
    <2> QED BY <1>5, <1>6, <2>4, <2>6, <2>7
  <1> QED BY <1>4, <1>5, <1>6, <1>7, <1>8 DEF DueOf, Due

LEMMA RoomFrozen ==
    ASSUME conf' = conf
    PROVE  /\ \A r, p, g, D, u : RoomOK(r, p, g, D, u)' <=> RoomOK(r, p, g, D, u)
           /\ RecvResults' <=> RecvResults
  <1>1. N' = N /\ P' = P /\ \A i, g : HaveOf(i, g)' = HaveOf(i, g)
    BY PlanFrozen
  <1>2. \A r, p, g, D, u : RoomOK(r, p, g, D, u)' <=> RoomOK(r, p, g, D, u)
    <2> SUFFICES ASSUME NEW r, NEW p, NEW g, NEW D, NEW u
                 PROVE  RoomOK(r, p, g, D, u)' <=> RoomOK(r, p, g, D, u)
      OBVIOUS
    <2>1. HaveOf(r, g)' = HaveOf(r, g)
      BY <1>1
    <2> QED BY <1>1, <2>1, Zenon DEF RoomOK
  <1>3. RecvResults' <=> RecvResults
    BY DEF RecvResults
  <1> QED BY <1>2, <1>3

\* a rank whose results keep their room while the others stay as they are
LEMMA RoomStep ==
    ASSUME MovesOK, RoomsOK, conf' = conf, NEW r \in Ranks, NEW p, NEW g, NEW R, NEW u,
           pc' = [pc EXCEPT ![r] = p], nglobal' = [nglobal EXCEPT ![r] = g],
           results' = [results EXCEPT ![r] = R], unsaved' = [unsaved EXCEPT ![r] = u],
           RecvResults => RoomOK(r, p, g, DOMAIN R, u)
    PROVE  RoomsOK'
  <1>1. /\ pc = [t \in Ranks |-> pc[t]] /\ nglobal = [t \in Ranks |-> nglobal[t]]
        /\ results = [t \in Ranks |-> results[t]] /\ unsaved = [t \in Ranks |-> unsaved[t]]
    BY DEF MovesOK, RoomsOK
  <1>2. Ranks' = Ranks
    BY PlanFrozen
  <1>3. /\ pc'[r] = p /\ nglobal'[r] = g /\ results'[r] = R /\ unsaved'[r] = u
        /\ \A t \in Ranks : t # r => /\ pc'[t] = pc[t] /\ nglobal'[t] = nglobal[t]
                                     /\ results'[t] = results[t] /\ unsaved'[t] = unsaved[t]
    BY <1>1
  <1>4. ASSUME RecvResults', NEW t \in Ranks
        PROVE  RoomOK(t, pc[t], nglobal[t], DOMAIN results[t], unsaved[t])'
    <2>1. PICK q, h, D, v : /\ q = pc'[t] /\ h = nglobal'[t] /\ D = DOMAIN results'[t]
                            /\ v = unsaved'[t]
      OBVIOUS
    <2>2. RecvResults
      BY <1>4, RoomFrozen
    <2>3. RoomOK(t, q, h, D, v)
      <3>1. CASE t = r
        BY <1>3, <2>1, <2>2, <3>1
      <3>2. CASE t # r
        <4>1. RoomOK(t, pc[t], nglobal[t], DOMAIN results[t], unsaved[t])
          BY <2>2 DEF RoomsOK
        <4> QED BY <1>3, <2>1, <3>2, <4>1
      <3> QED BY <3>1, <3>2
    <2>4. RoomOK(t, q, h, D, v)'
      BY <2>3, RoomFrozen
    <2> QED BY <2>1, <2>4
  <1>5. /\ results' = [t \in Ranks |-> results'[t]] /\ unsaved' = [t \in Ranks |-> unsaved'[t]]
    BY <1>1
  <1> QED BY <1>2, <1>4, <1>5 DEF RoomsOK

LEMMA RoomsInit == Init => RoomsOK
  <1> SUFFICES ASSUME Init PROVE RoomsOK
    OBVIOUS
  <1>1. /\ results = [r \in Ranks |-> <<>>] /\ unsaved = [r \in Ranks |-> RecvResults]
        /\ \A r \in Ranks : pc[r] = "split"
    BY DEF Init
  <1>2. ASSUME RecvResults, NEW r \in Ranks
        PROVE  RoomOK(r, pc[r], nglobal[r], DOMAIN results[r], unsaved[r])
    <2>1. unsaved[r] = RecvResults
      BY <1>1
    <2> QED BY <1>1, <1>2, <2>1 DEF RoomOK
  <1> QED BY <1>1, <1>2 DEF RoomsOK

LEMMA RoomsStep == MovesOK /\ RoomsOK /\ [Next]_vars => RoomsOK'
  <1> SUFFICES ASSUME MovesOK, RoomsOK, [Next]_vars PROVE RoomsOK'
    OBVIOUS
  <1>0. /\ conf \in Cases /\ pc = [t \in Ranks |-> pc[t]]
        /\ nglobal = [t \in Ranks |-> nglobal[t]]
        /\ results = [t \in Ranks |-> results[t]] /\ unsaved = [t \in Ranks |-> unsaved[t]]
    BY DEF MovesOK, RoomsOK
  <1>1. ASSUME NEW r \in Ranks, Step(r) PROVE RoomsOK'
    <2>0. PICK p, g, R, u : p = pc[r] /\ g = nglobal[r] /\ R = results[r] /\ u = unsaved[r]
      OBVIOUS
    <2>a. RecvResults => RoomOK(r, p, g, DOMAIN R, u)
      BY <2>0 DEF RoomsOK
    <2>b. g \in LevelsOf(N) /\ (p \in {"down", "up"} => g # 1) /\ N \in Nat \ {0, 1}
      BY <1>0, <2>0, CallIs DEF MovesOK, ViewOK
    <2>c. LevelsOf(N) \subseteq Nat \ {0}
      BY <2>b, LevelsAre
    <2>d. /\ pc = [pc EXCEPT ![r] = p] /\ nglobal = [nglobal EXCEPT ![r] = g]
          /\ results = [results EXCEPT ![r] = R] /\ unsaved = [unsaved EXCEPT ![r] = u]
      BY <1>0, <2>0
    <2>1. CASE Split(r)
      <3>1. /\ p = "split" /\ conf' = conf /\ pc' = [pc EXCEPT ![r] = "down"]
            /\ nglobal' = [nglobal EXCEPT ![r] = N * g] /\ results' = results /\ unsaved' = unsaved
        BY <2>0, <2>1, Zenon DEF Split
      <3>2. PICK h : h = N * g
        OBVIOUS
      <3>3. RecvResults => RoomOK(r, "down", h, DOMAIN R, u)
        BY <2>a, <3>1, <3>2 DEF RoomOK
      <3>4. /\ conf' = conf /\ pc' = [pc EXCEPT ![r] = "down"]
            /\ nglobal' = [nglobal EXCEPT ![r] = h]
            /\ results' = [results EXCEPT ![r] = R] /\ unsaved' = [unsaved EXCEPT ![r] = u]
        BY <2>d, <3>1, <3>2
      <3> QED BY <3>3, <3>4, RoomStep
    <2>2. CASE Send(r)
      <3>1. /\ conf' = conf /\ pc' = pc /\ nglobal' = nglobal /\ results' = results
            /\ unsaved' = unsaved
        BY <2>2, Zenon DEF Send
      <3>2. /\ conf' = conf /\ pc' = [pc EXCEPT ![r] = p] /\ nglobal' = [nglobal EXCEPT ![r] = g]
            /\ results' = [results EXCEPT ![r] = R] /\ unsaved' = [unsaved EXCEPT ![r] = u]
        BY <2>d, <3>1
      <3> QED BY <2>a, <3>2, RoomStep
    <2>3. CASE Recv(r)
      <3>1. conf' = conf /\ pc' = pc /\ nglobal' = nglobal /\ unsaved' = unsaved
        BY <2>3 DEF Recv
      <3>2. PICK R1 : results' = [results EXCEPT ![r] = R1] /\ DOMAIN R1 = DOMAIN R
        <4>1. CASE Part(r) = "result"
          <5>1. PICK cell : cell = IF Head(chan[xfer[r].peer, r]).part = Part(r)
                                   THEN Head(chan[xfer[r].peer, r]).cell ELSE Cell(WRONG)
            OBVIOUS
          <5>2. results' = [results EXCEPT ![r][xfer[r].pos] = cell.id]
            BY <2>3, <4>1, <5>1, Zenon DEF Recv
          <5>3. PICK R1 : R1 = [R EXCEPT ![xfer[r].pos] = cell.id]
            OBVIOUS
          <5>4. results' = [results EXCEPT ![r] = R1]
            BY <2>0, <5>2, <5>3
          <5>5. DOMAIN R1 = DOMAIN R
            BY <5>3
          <5> QED BY <5>4, <5>5, Zenon
        <4>2. CASE Part(r) # "result"
          <5>1. results' = results
            BY <2>3, <4>2 DEF Recv
          <5> QED BY <2>d, <5>1
        <4> QED BY <4>1, <4>2
      <3>3. /\ pc' = [pc EXCEPT ![r] = p] /\ nglobal' = [nglobal EXCEPT ![r] = g]
            /\ unsaved' = [unsaved EXCEPT ![r] = u]
        BY <2>d, <3>1
      <3>4. RecvResults => RoomOK(r, p, g, DOMAIN R1, u)
        BY <2>a, <3>2
      <3> QED BY <3>1, <3>2, <3>3, <3>4, RoomStep
    <2>4. CASE Commit(r)
      <3>1. /\ p = "down" /\ conf' = conf /\ pc' = [pc EXCEPT ![r] = "split"]
            /\ nglobal' = nglobal /\ results' = results /\ unsaved' = unsaved
        BY <2>0, <2>4, Zenon DEF Commit
      <3>2. RecvResults => RoomOK(r, "split", g, DOMAIN R, u)
        BY <2>a, <3>1 DEF RoomOK
      <3>3. /\ nglobal' = [nglobal EXCEPT ![r] = g] /\ results' = [results EXCEPT ![r] = R]
            /\ unsaved' = [unsaved EXCEPT ![r] = u]
        BY <2>d, <3>1
      <3> QED BY <3>1, <3>2, <3>3, RoomStep
    <2>5. CASE Run(r)
      <3>0. PICK lv : lv = tree[r][Len(tree[r])]
        OBVIOUS
      <3>1. PICK n, R1 :
               /\ n = NLocal(r, g, P)
               /\ R1 = IF RecvResults THEN [i \in 0 .. n - 1 |-> lv[i].id] ELSE <<>>
        OBVIOUS
      <3>2. /\ p = "split" /\ conf' = conf /\ pc' = [pc EXCEPT ![r] = "gather"]
            /\ nglobal' = nglobal /\ results' = [results EXCEPT ![r] = R1] /\ unsaved' = unsaved
        BY <2>0, <2>5, <3>0, <3>1, Zenon DEF Run
      <3>3. n \in Nat
        BY <1>0, <2>b, <3>1, RoomOfLevel
      <3>4. RecvResults => RoomOK(r, "gather", g, DOMAIN R1, u)
        BY <2>a, <3>1, <3>2, <3>3 DEF RoomOK
      <3>5. /\ conf' = conf /\ pc' = [pc EXCEPT ![r] = "gather"]
            /\ nglobal' = [nglobal EXCEPT ![r] = g]
            /\ results' = [results EXCEPT ![r] = R1] /\ unsaved' = [unsaved EXCEPT ![r] = u]
        BY <2>d, <3>2
      <3> QED BY <3>4, <3>5, RoomStep
    <2>6. CASE Gather(r)
      <3>0. PICK receives, sends : receives = (Surplus(r, g) > 0) /\ sends = (Surplus(r, g) < 0)
        OBVIOUS
      <3>1. PICK R1, u1 :
               /\ R1 = IF receives /\ u
                       THEN [i \in 0 .. Room(r, g) - 1 |-> IF i \in DOMAIN R THEN R[i] ELSE NONE]
                       ELSE R
               /\ u1 = (u /\ ~receives /\ ~sends)
        OBVIOUS
      <3>2. /\ p = "gather" /\ g > 1 /\ conf' = conf /\ pc' = [pc EXCEPT ![r] = "up"]
            /\ nglobal' = nglobal
        BY <2>0, <2>6 DEF Gather
      <3>3. results' = [results EXCEPT ![r] = R1]
        BY <2>0, <2>6, <3>0, <3>1 DEF Gather
      <3>4. unsaved' = [unsaved EXCEPT ![r] = u1]
        BY <2>0, <2>6, <3>0, <3>1, Zenon DEF Gather
      <3>5. PICK h \in LevelsOf(N) : g = N * h
        <4>1. g # 1
          BY <2>b, <2>c, <3>2
        <4> QED BY <2>b, <4>1, LevelsAre
      <3>6. /\ HaveOf(r, g) \in Nat /\ NLocal(r, g, P) \in Nat /\ NLocal(r, g, P) = DueOf(r, g)
            /\ HaveOf(r, g) <= HaveOf(r, N * g) /\ HaveOf(r, N * g) = N * NLocal(r, g, P)
        BY <1>0, <2>b, <2>c, <3>2, RoomOfLevel
      <3>7. ASSUME RecvResults PROVE RoomOK(r, "up", g, DOMAIN R1, u1)
        <4>1. PICK m \in Nat : /\ DOMAIN R = 0 .. m - 1
                               /\ NLocal(r, g, P) <= m
                               /\ ~u => N * NLocal(r, g, P) <= m
          BY <2>a, <3>2, <3>7 DEF RoomOK
        <4>2. CASE receives /\ u
          <5>1. DOMAIN R1 = 0 .. HaveOf(r, g) - 1
            BY <3>1, <4>2 DEF Room
          <5> QED BY <3>6, <5>1 DEF RoomOK
        <4>3. CASE ~(receives /\ u)
          <5>1. R1 = R
            BY <3>1, <4>3
          <5>2. HaveOf(r, g) <= m
            <6>1. CASE ~u
              <7>1. HaveOf(r, N * g) \in Nat /\ HaveOf(r, N * g) <= m
                BY <1>0, <2>b, <3>6, <4>1, <6>1, RoomOfLevel
              <7> QED BY <3>6, <7>1
            <6>2. CASE u
              <7>1. ~(Surplus(r, g) > 0)
                BY <3>0, <4>3, <6>2
              <7> QED BY <3>6, <4>1, <7>1 DEF Surplus
            <6> QED BY <6>1, <6>2
          <5> QED BY <4>1, <5>1, <5>2 DEF RoomOK
        <4> QED BY <4>2, <4>3
      <3>8. /\ conf' = conf /\ pc' = [pc EXCEPT ![r] = "up"]
            /\ nglobal' = [nglobal EXCEPT ![r] = g]
        BY <2>d, <3>2
      <3> QED BY <3>3, <3>4, <3>7, <3>8, RoomStep
    <2>7. CASE Reduce(r)
      <3>1. /\ p = "up" /\ conf' = conf /\ pc' = [pc EXCEPT ![r] = "gather"]
            /\ nglobal' = [nglobal EXCEPT ![r] = g \div N] /\ unsaved' = unsaved
        BY <2>0, <2>7, Zenon DEF Reduce
      <3>2. PICK h \in LevelsOf(N) : g = N * h
        BY <2>b, <3>1, LevelsAre
      <3>3. g \div N = h
        BY <2>b, <2>c, <3>2, QuotientOfMultiple
      <3>4. PICK R1 : results' = [results EXCEPT ![r] = R1] /\ DOMAIN R1 = DOMAIN R
        <4>1. PICK n, up, lv : /\ n = NLocal(r, g \div N, P) /\ up = DepthAbove(r, n)
                               /\ lv = tree[r][up]
          OBVIOUS
        <4>2. CASE n = 0
          <5>1. results' = results
            BY <2>0, <2>7, <4>1, <4>2, Zenon DEF Reduce
          <5> QED BY <2>d, <5>1
        <4>3. CASE n # 0
          <5>1. results' = [results EXCEPT ![r] =
                                  [i \in DOMAIN @ |->
                                     IF i < n THEN Reduced(lv[i].id, results[r], N * i)
                                     ELSE NONE]]
            BY <2>0, <2>7, <4>1, <4>3, Zenon DEF Reduce
          <5>2. PICK R1 : R1 = [i \in DOMAIN R |->
                                  IF i < n THEN Reduced(lv[i].id, results[r], N * i) ELSE NONE]
            OBVIOUS
          <5>3. results' = [results EXCEPT ![r] = R1]
            BY <2>0, <5>1, <5>2
          <5>4. DOMAIN R1 = DOMAIN R
            BY <5>2
          <5> QED BY <5>3, <5>4, Zenon
        <4> QED BY <4>2, <4>3
      <3>5. ASSUME RecvResults PROVE RoomOK(r, "gather", h, DOMAIN R, u)
        <4>1. PICK m \in Nat : DOMAIN R = 0 .. m - 1 /\ HaveOf(r, g) <= m
          BY <2>a, <3>1, <3>5 DEF RoomOK
        <4>2. /\ HaveOf(r, g) = N * NLocal(r, h, P) /\ HaveOf(r, g) \in Nat
              /\ NLocal(r, h, P) <= HaveOf(r, g) /\ NLocal(r, h, P) \in Nat
          BY <1>0, <3>2, RoomOfLevel
        <4>3. NLocal(r, h, P) <= m
          BY <4>1, <4>2
        <4> QED BY <4>1, <4>2, <4>3 DEF RoomOK
      <3>6. RecvResults => RoomOK(r, "gather", h, DOMAIN R1, u)
        BY <3>4, <3>5
      <3>7. nglobal' = [nglobal EXCEPT ![r] = h] /\ unsaved' = [unsaved EXCEPT ![r] = u]
        BY <2>d, <3>1, <3>3
      <3> QED BY <3>1, <3>4, <3>6, <3>7, RoomStep
    <2>8. CASE Finish(r)
      <3>1. /\ conf' = conf /\ pc' = [pc EXCEPT ![r] = "done"]
            /\ nglobal' = nglobal /\ results' = results /\ unsaved' = unsaved
        BY <2>8 DEF Finish
      <3>2. RoomOK(r, "done", g, DOMAIN R, u)
        BY DEF RoomOK
      <3>3. /\ nglobal' = [nglobal EXCEPT ![r] = g]
            /\ results' = [results EXCEPT ![r] = R] /\ unsaved' = [unsaved EXCEPT ![r] = u]
        BY <2>d, <3>1
      <3> QED BY <3>1, <3>2, <3>3, RoomStep
    <2> QED BY <1>1, <2>1, <2>2, <2>3, <2>4, <2>5, <2>6, <2>7, <2>8 DEF Step
  <1>2. CASE UNCHANGED vars
    <2>1. /\ conf' = conf /\ pc' = pc /\ nglobal' = nglobal /\ results' = results
          /\ unsaved' = unsaved
      BY <1>2 DEF vars
    <2>2. Ranks' = Ranks
      BY <2>1, PlanFrozen
    <2>3. ASSUME RecvResults', NEW t \in Ranks
          PROVE  RoomOK(t, pc[t], nglobal[t], DOMAIN results[t], unsaved[t])'
      <3>1. PICK q, h, D, v : /\ q = pc[t] /\ h = nglobal[t] /\ D = DOMAIN results[t]
                              /\ v = unsaved[t]
        OBVIOUS
      <3>2. RoomOK(t, q, h, D, v)
        BY <2>1, <2>3, <3>1, RoomFrozen DEF RoomsOK
      <3>3. RoomOK(t, q, h, D, v)'
        BY <2>1, <3>2, RoomFrozen
      <3> QED BY <2>1, <3>1, <3>3
    <2> QED BY <1>0, <2>1, <2>2, <2>3 DEF RoomsOK
  <1> QED BY <1>1, <1>2 DEF Next, Terminated

(* distributed_reduce_tree makes room for results once, before the first   *)
(* exchange of a rank: no result ever arrives beyond it.                   *)
THEOREM ResultsHaveRoom == Spec => []ResultsFit
  <1>1. MovesOK /\ RoomsOK => ResultsFit
    <2> SUFFICES ASSUME MovesOK, RoomsOK, NEW r \in Ranks, Moving(r), ~Sender(r),
                        Part(r) = "result"
                 PROVE  xfer[r].pos \in DOMAIN results[r]
      BY DEF ResultsFit
    <2>0. PICK p, g, x : p = pc[r] /\ g = nglobal[r] /\ x = xfer[r]
      OBVIOUS
    <2>1. conf \in Cases /\ p \in {"down", "up"} /\ ViewOK(r, p, g, x) /\ x.pos < x.last
      BY <2>0 DEF MovesOK, Moving
    <2>2. PICK parts \in {1, 2} : parts = Len(PartsOf(p = "up"))
      BY <2>1, CallIs
    <2>3. g \in LevelsOf(N) /\ g # 1 /\ XferOK(r, g, x, parts)
      BY <2>1, <2>2 DEF ViewOK
    <2>4. x.part \in 1 .. parts /\ x.pos \in Nat /\ x.last \in Nat
      BY <2>3 DEF XferOK
    <2>5. Part(r) = PartsOf(p = "up")[x.part]
      BY <2>0 DEF Part, Parts, PartsOf, Back
    <2>6. p = "up" /\ RecvResults
      <3>1. CASE p = "down"
        BY <2>2, <2>4, <2>5, <3>1 DEF PartsOf
      <3>2. CASE p = "up" /\ ~RecvResults
        BY <2>2, <2>4, <2>5, <3>2 DEF PartsOf, RecvResults
      <3> QED BY <2>1, <3>1, <3>2
    <2>7. Surplus(r, g) > 0
      BY <2>0, <2>6 DEF Sender, Back
    <2>8. HaveOf(r, g) \in Nat /\ DueOf(r, g) \in Nat /\ Surplus(r, g) \in Int
      <3>1. PICK lo, hi, T : Agreed(g, lo, hi, T)
        BY <2>1, <2>3, LevelOfRun
      <3> QED BY <3>1, AgreedOn
    <2>9. x.last = HaveOf(r, g)
      <3>1. x.last = MostOf(r, g)
        BY <2>3, <2>7, <2>8 DEF XferOK
      <3>2. HaveOf(r, g) > DueOf(r, g)
        BY <2>7, <2>8 DEF Surplus
      <3>3. PICK a \in Nat, b \in Nat : a = HaveOf(r, g) /\ b = DueOf(r, g) /\ a > b
        BY <2>8, <3>2
      <3>4. Max({a, b}) = a
        BY <3>3, MinMaxOfPair
      <3> QED BY <3>1, <3>3, <3>4 DEF MostOf
    <2>10. PICK m \in Nat : DOMAIN results[r] = 0 .. m - 1 /\ HaveOf(r, g) <= m
      <3>1. RoomOK(r, "up", g, DOMAIN results[r], unsaved[r])
        BY <2>0, <2>6 DEF RoomsOK
      <3> QED BY <3>1 DEF RoomOK
    <2>11. x.pos \in 0 .. m - 1
      BY <2>1, <2>4, <2>8, <2>9, <2>10
    <2> QED BY <2>0, <2>10, <2>11
  <1>2. Init => MovesOK /\ RoomsOK
    BY MovesInit, RoomsInit
  <1>3. MovesOK /\ RoomsOK /\ [Next]_vars => (MovesOK /\ RoomsOK)'
    BY MovesStep, RoomsStep
  <1> QED BY <1>1, <1>2, <1>3, PTL DEF Spec
---------------------------------------------------------------------------
(* The order of the items is transitive, so among finitely many there is a *)
(* first one.                                                              *)
LEMMA OrderIsTransitive ==
    ASSUME NEW a \in Keys, NEW b \in Keys, NEW c \in Keys, Prec(a, b), Prec(b, c)
    PROVE  Prec(a, c)
  <1>1. a.back \in BOOLEAN /\ b.back \in BOOLEAN /\ c.back \in BOOLEAN
    BY DEF Keys
  <1>2. PICK la \in Nat, sa \in Nat, pa \in Nat : la = a.level /\ sa = a.slot /\ pa = a.part
    BY DEF Keys
  <1>3. PICK lb \in Nat, sb \in Nat, pb \in Nat : lb = b.level /\ sb = b.slot /\ pb = b.part
    BY DEF Keys
  <1>4. PICK lc \in Nat, sc \in Nat, pc1 \in Nat : lc = c.level /\ sc = c.slot /\ pc1 = c.part
    BY DEF Keys
  <1>5. CASE a.back /\ c.back
    <2>1. b.back
      BY <1>1, <1>5 DEF Prec
    <2>2. lb < la \/ (la = lb /\ (sa < sb \/ (sa = sb /\ pa < pb)))
      BY <1>2, <1>3, <1>5, <2>1 DEF Prec, Before
    <2>3. lc < lb \/ (lb = lc /\ (sb < sc \/ (sb = sc /\ pb < pc1)))
      BY <1>3, <1>4, <1>5, <2>1 DEF Prec, Before
    <2>4. lc < la \/ (la = lc /\ (sa < sc \/ (sa = sc /\ pa < pc1)))
      BY <2>2, <2>3
    <2> QED BY <1>2, <1>4, <1>5, <2>4 DEF Prec, Before
  <1>6. CASE ~a.back /\ ~c.back
    <2>1. ~b.back
      BY <1>1, <1>6 DEF Prec
    <2>2. la < lb \/ (la = lb /\ (sa < sb \/ (sa = sb /\ pa < pb)))
      BY <1>2, <1>3, <1>6, <2>1 DEF Prec, Before
    <2>3. lb < lc \/ (lb = lc /\ (sb < sc \/ (sb = sc /\ pb < pc1)))
      BY <1>3, <1>4, <1>6, <2>1 DEF Prec, Before
    <2>4. la < lc \/ (la = lc /\ (sa < sc \/ (sa = sc /\ pa < pc1)))
      BY <2>2, <2>3
    <2> QED BY <1>2, <1>4, <1>6, <2>4 DEF Prec, Before
  <1>7. CASE a.back /\ ~c.back
    BY <1>1, <1>7 DEF Prec
  <1>8. CASE ~a.back /\ c.back
    BY <1>8 DEF Prec
  <1> QED BY <1>1, <1>5, <1>6, <1>7, <1>8

LEMMA FirstItem ==
    ASSUME NEW W, IsFiniteSet(W), W # {}, NEW f, \A t \in W : f[t] \in Keys
    PROVE  \E r \in W : \A t \in W : ~Prec(f[t], f[r])
  <1>1. PICK F : F = {{t \in W : Prec(f[t], f[r])} : r \in W}
    OBVIOUS
  <1>2. F \in SUBSET SUBSET W /\ F # {}
    BY <1>1
  <1>3. PICK m \in F : \A s \in F : s \subseteq m => s = m
    BY <1>2, SmallestSet
  <1>4. PICK r \in W : m = {t \in W : Prec(f[t], f[r])}
    BY <1>1
  <1>5. ASSUME NEW t \in W, Prec(f[t], f[r])
        PROVE  FALSE
    <2>1. PICK s : s = {u \in W : Prec(f[u], f[t])}
      OBVIOUS
    <2>2. s \in F
      BY <1>1, <2>1
    <2>3. s \subseteq m
      BY <1>4, <1>5, <2>1, OrderIsTransitive
    <2>4. t \in m
      BY <1>4, <1>5
    <2>5. t \notin s
      BY <2>1, ItemsInOrder
    <2> QED BY <1>3, <2>2, <2>3, <2>4, <2>5
  <1> QED BY <1>5

(* The item a rank that waits needs somebody else to move: the one it is   *)
(* to receive, or one it has sent and the other has not received.          *)
AwaitedBy(r, k) ==
    /\ k \in Keys
    /\ \/ /\ Moving(r) /\ ~Sender(r) /\ chan[<<xfer[r].peer, r>>] = <<>>
          /\ k = KeyAt(r, pc[r], nglobal[r], xfer[r])
       \/ \E t \in Ranks : k \in (Carried(r, t) \cap PassedOf(r)) \ PassedOf(t)

(* What is on the way is a message, and a message is on the way.           *)
LEMMA OnTheWay ==
    ASSUME MovesOK, NEW s \in Ranks, NEW r \in Ranks
    PROVE  (chan[<<s, r>>] # <<>>)
              <=> (\E k : k \in (Carried(s, r) \cap PassedOf(s)) \ PassedOf(r))
  <1>1. PICK c, A, B : c = chan[<<s, r>>] /\ A = PassedOf(s) /\ B = PassedOf(r)
    OBVIOUS
  <1>2. FlowOK(c, s, r, A, B)
    BY <1>1 DEF MovesOK
  <1>3. PICK M : c \in Seq(M)
    BY <1>2 DEF FlowOK
  <1>4. PICK S : S = (Carried(s, r) \cap A) \ B
    OBVIOUS
  <1>5. PICK K : Lists(K, Len(c), S)
    BY <1>2, <1>4, Zenon DEF FlowOK
  <1>6. (\A i \in 1 .. Len(c) : K[i] \in S) /\ (\A k \in S : \E i \in 1 .. Len(c) : K[i] = k)
    BY <1>5, Zenon DEF Lists
  <1>7. ASSUME c # <<>> PROVE \E k : k \in S
    <2>1. 1 \in 1 .. Len(c)
      BY <1>3, <1>7
    <2> QED BY <1>6, <2>1
  <1>8. ASSUME NEW k \in S PROVE c # <<>>
    <2>1. PICK i \in 1 .. Len(c) : K[i] = k
      BY <1>6
    <2>2. c # <<>>
      BY <1>3, <2>1
    <2> QED BY <2>2
  <1> QED BY <1>1, <1>4, <1>7, <1>8

LEMMA WaitsForItem ==
    ASSUME MovesOK, NEW r \in Ranks, Waits(r)
    PROVE  \E k : AwaitedBy(r, k)
  <1>1. CASE Moving(r) /\ ~Sender(r) /\ chan[xfer[r].peer, r] = <<>>
    <2>1. PICK k, s : k = KeyAt(r, pc[r], nglobal[r], xfer[r]) /\ s = xfer[r].peer
      OBVIOUS
    <2>2. k \in Keys
      BY <1>1, <2>1, KeyCarried DEF Own
    <2> QED BY <1>1, <2>1, <2>2 DEF AwaitedBy
  <1>2. CASE ~Returned(r)
    <2>1. PICK t \in Ranks : chan[<<r, t>>] # <<>>
      BY <1>2 DEF Returned
    <2>2. PICK k : k \in (Carried(r, t) \cap PassedOf(r)) \ PassedOf(t)
      BY <2>1, OnTheWay
    <2>3. k \in Keys
      BY <2>2 DEF Carried
    <2> QED BY <2>2, <2>3 DEF AwaitedBy
  <1> QED BY <1>1, <1>2 DEF Waits

(* The rank it needs is not done, and if it waits too then for an earlier  *)
(* item.                                                                   *)
LEMMA WaitsForEarlier ==
    ASSUME MovesOK, NEW r \in Ranks, NEW k, AwaitedBy(r, k)
    PROVE  \E t \in Ranks : pc[t] # "done" /\ \A i : AwaitedBy(t, i) => Prec(i, k)
  <1>0. conf \in Cases /\ k \in Keys
    BY DEF MovesOK, AwaitedBy
  <1>1. PICK t \in Ranks :
            /\ Own(t, k) /\ k \notin PassedOf(t)
            /\ \/ /\ Moving(r) /\ ~Sender(r) /\ k = KeyAt(r, pc[r], nglobal[r], xfer[r])
                  /\ k \in Carried(t, r)
               \/ k \in (Carried(r, t) \cap PassedOf(r)) \ PassedOf(t)
    <2>1. CASE /\ Moving(r) /\ ~Sender(r) /\ chan[<<xfer[r].peer, r>>] = <<>>
               /\ k = KeyAt(r, pc[r], nglobal[r], xfer[r])
      <3>1. PICK t : t = xfer[r].peer
        OBVIOUS
      <3>2. t \in Ranks /\ Own(t, k) /\ k \in Carried(t, r)
        BY <2>1, <3>1, KeyCarried
      <3>3. k \notin PassedOf(r)
        <4>1. PICK p, g, x : p = pc[r] /\ g = nglobal[r] /\ x = xfer[r]
          OBVIOUS
        <4>2. p \in {"down", "up"} /\ ViewOK(r, p, g, x) /\ x.pos < x.last
          BY <2>1, <4>1 DEF MovesOK, Moving
        <4>3. k = KeyAt(r, p, g, x) /\ PassedOf(r) = PassedSet(r, p, g, x)
          BY <2>1, <4>1 DEF PassedOf
        <4>4. PICK A : A = PassedSet(r, p, g, x)
          OBVIOUS
        <4>5. k \notin A
          BY <1>0, <4>2, <4>3, <4>4, KeyIsNext
        <4> QED BY <4>3, <4>4, <4>5
      <3>4. k \notin PassedOf(t)
        BY <2>1, <3>1, <3>2, <3>3, OnTheWay
      <3> QED BY <2>1, <3>2, <3>4
    <2>2. CASE \E t \in Ranks : k \in (Carried(r, t) \cap PassedOf(r)) \ PassedOf(t)
      BY <2>2 DEF Carried
    <2> QED BY <2>1, <2>2 DEF AwaitedBy
  <1>2. pc[t] # "done"
    <2> SUFFICES ASSUME pc[t] = "done" PROVE FALSE
      OBVIOUS
    <2>1. ViewOK(t, "done", nglobal[t], xfer[t])
      BY DEF MovesOK
    <2>2. nglobal[t] = 1
      BY <2>1 DEF ViewOK
    <2>3. k.level \in Nat \ {0} /\ k.level # 1
      BY <1>0, <1>1, CallIs, LevelsAre DEF Own
    <2>4. 1 < k.level
      BY <2>3
    <2>5. PassedBy(t, "done", 1, xfer[t], k)
      BY <2>4, Zenon DEF PassedBy, Late
    <2> QED BY <1>0, <1>1, <2>2, <2>5 DEF PassedOf, PassedSet
  <1>3. ASSUME NEW i, AwaitedBy(t, i)
        PROVE  Prec(i, k)
    <2>1. CASE /\ Moving(t) /\ ~Sender(t) /\ chan[<<xfer[t].peer, t>>] = <<>>
               /\ i = KeyAt(t, pc[t], nglobal[t], xfer[t])
      <3>1. k = i \/ Prec(i, k)
        <4>1. PICK p, g, x : p = pc[t] /\ g = nglobal[t] /\ x = xfer[t]
          OBVIOUS
        <4>2. p \in {"down", "up"} /\ ViewOK(t, p, g, x) /\ x.pos < x.last
          BY <2>1, <4>1 DEF MovesOK, Moving
        <4>3. PICK A : A = PassedSet(t, p, g, x)
          OBVIOUS
        <4>4. i = KeyAt(t, p, g, x) /\ k \notin A
          BY <1>1, <2>1, <4>1, <4>3 DEF PassedOf
        <4>5. \A a : Own(t, a) /\ a \notin A => a = i \/ Prec(i, a)
          BY <1>0, <4>2, <4>3, <4>4, KeyIsNext
        <4> QED BY <1>1, <4>4, <4>5
      <3>2. k # i
        <4> SUFFICES ASSUME k = i PROVE FALSE
          OBVIOUS
        <4>1. PICK s : s = xfer[t].peer
          OBVIOUS
        <4>2. k = KeyAt(t, pc[t], nglobal[t], xfer[t])
          BY <2>1
        <4>3. k \notin Carried(t, r)
          BY <2>1, <4>1, <4>2, KeyElsewhere
        <4>4. k \in (Carried(r, t) \cap PassedOf(r)) \ PassedOf(t)
          BY <1>1, <4>3
        <4>5. r = s
          BY <2>1, <4>1, <4>2, <4>4, KeyElsewhere
        <4>6. chan[<<r, t>>] # <<>>
          BY <4>4, OnTheWay
        <4> QED BY <2>1, <4>1, <4>5, <4>6
      <3> QED BY <3>1, <3>2
    <2>2. CASE \E s \in Ranks : i \in (Carried(t, s) \cap PassedOf(t)) \ PassedOf(s)
      <3>1. i \in PassedOf(t) /\ i \in Keys
        BY <2>2 DEF Carried
      <3>2. InOrder(t, PassedOf(t))
        <4>1. PICK p, g, x : p = pc[t] /\ g = nglobal[t] /\ x = xfer[t]
          OBVIOUS
        <4>2. ViewOK(t, p, g, x)
          BY <4>1 DEF MovesOK
        <4>3. InOrder(t, PassedSet(t, p, g, x))
          BY <1>0, <4>2, PassedInOrder
        <4> QED BY <4>1, <4>3 DEF PassedOf
      <3>3. ~Prec(k, i)
        BY <1>1, <3>1, <3>2 DEF InOrder
      <3>4. k # i
        BY <1>1, <3>1
      <3> QED BY <1>0, <3>1, <3>3, <3>4, ItemsInOrder
    <2> QED BY <1>3, <2>1, <2>2 DEF AwaitedBy
  <1> QED BY <1>2, <1>3

(* No exchange gets stuck, whatever the arity, the number of processes and *)
(* the order in which ranks send and receive, although every MPI_Send may  *)
(* wait for its receive: of the ranks that wait, the one that waits for    *)
(* the first item would need a rank that waits for an earlier one.         *)
THEOREM NobodyIsStuck == Spec => []NoDeadlock
  <1>1. MovesOK => NoDeadlock
    <2> SUFFICES ASSUME MovesOK, ~AllDone, \A r \in Ranks : pc[r] # "done" => Waits(r)
                 PROVE  FALSE
      BY DEF NoDeadlock
    <2>1. PICK W : W = {r \in Ranks : pc[r] # "done"}
      OBVIOUS
    <2>2. W # {} /\ W \subseteq Ranks
      BY <2>1 DEF AllDone
    <2>3. IsFiniteSet(W)
      <3>1. conf \in Cases
        BY DEF MovesOK
      <3>2. P - 1 \in Int
        BY <3>1, CallIs
      <3>3. IsFiniteSet(Ranks)
        BY <3>2, FS_Interval DEF Ranks
      <3> QED BY <2>2, <3>3, FS_Subset
    <2>4. PICK f : f = [r \in W |-> CHOOSE k : AwaitedBy(r, k)]
      OBVIOUS
    <2>5. \A r \in W : AwaitedBy(r, f[r])
      BY <2>1, <2>4, WaitsForItem
    <2>6. \A r \in W : f[r] \in Keys
      BY <2>5 DEF AwaitedBy
    <2>7. PICK r \in W : \A t \in W : ~Prec(f[t], f[r])
      BY <2>2, <2>3, <2>6, FirstItem
    <2>8. PICK k : k = f[r] /\ AwaitedBy(r, k)
      BY <2>5
    <2>9. PICK t \in Ranks : pc[t] # "done" /\ \A i : AwaitedBy(t, i) => Prec(i, k)
      BY <2>2, <2>8, WaitsForEarlier
    <2>10. t \in W
      BY <2>1, <2>9
    <2> QED BY <2>5, <2>7, <2>8, <2>9, <2>10
  <1> QED BY <1>1, MovesInit, MovesStep, PTL DEF Spec
---------------------------------------------------------------------------
(* Where the problems are.  A path is a way from the root down that never  *)
(* ends; a problem is on it if the path goes through the problem.          *)
Ids == Seq(0 .. N - 1) \cup {BLANK}
Paths == [Nat \ {0} -> 0 .. N - 1]
On(id, path) == id # BLANK /\ \A i \in 1 .. Len(id) : id[i] = path[i]

(* What a rank at p with n problems in its level, t its tree and R those it*)
(* ran, has in its hands: the positions and the problem of each.           *)
Working(p) == p \in {"split", "down"}

CellsOf(r, p, g) == IF p = "split" THEN DueOf(r, g) ELSE MostOf(r, g)

Owned(r, p, g, x, R) ==
    IF ~Working(p) THEN DOMAIN R
    ELSE IF p = "split" THEN 0 .. DueOf(r, g) - 1
    ELSE IF Surplus(r, g) > 0 THEN (0 .. DueOf(r, g) - 1) \cup (x.pos .. HaveOf(r, g) - 1)
    ELSE 0 .. (IF Surplus(r, g) = 0 THEN HaveOf(r, g) ELSE x.pos) - 1

ProblemAt(p, t, R, i) == IF Working(p) THEN t[Len(t)][i].id ELSE R[i]

Has(r, p, g, x, t, R, i, path) == i \in Owned(r, p, g, x, R) /\ On(ProblemAt(p, t, R, i), path)

CellsOK(r, p, g, t, R) ==
    IF Working(p)
    THEN /\ \E M : t \in Seq(M)
         /\ \A i \in 0 .. CellsOf(r, p, g) - 1 : /\ t # <<>>
                                                 /\ i \in DOMAIN t[Len(t)]
                                                 /\ t[Len(t)][i].id \in Ids
    ELSE (\E m \in Nat : DOMAIN R = 1 .. m) /\ \A i \in DOMAIN R : R[i] \in Ids

(* ... and what is on its way down in the messages c.                      *)
Carries(c, i, path) == i \in 1 .. Len(c) /\ ~c[i].at[1] /\ On(c[i].cell.id, path)

MailOK(c) == \A i \in 1 .. Len(c) : ~c[i].at[1] => c[i].cell.id \in Ids

There(s, t, i, path) ==
    IF s = t THEN Has(s, pc[s], nglobal[s], xfer[s], tree[s], ran[s], i, path)
             ELSE Carries(chan[<<s, t>>], i, path)

(* Every path meets exactly one problem.                                   *)
One(path) ==
    /\ \E s, t \in Ranks : \E i : There(s, t, i, path)
    /\ \A s, t, u, v \in Ranks : \A i, j :
          There(s, t, i, path) /\ There(u, v, j, path) => s = u /\ t = v /\ i = j

ProblemsOK ==
    /\ tree = [r \in Ranks |-> tree[r]]
    /\ ran = [r \in Ranks |-> ran[r]]
    /\ \A r \in Ranks : CellsOK(r, pc[r], nglobal[r], tree[r], ran[r])
    /\ \A s, t \in Ranks : MailOK(chan[<<s, t>>])
    /\ \A path \in Paths : One(path)

(* All this depends on the call alone.                                     *)
LEMMA HandsFrozen ==
    ASSUME conf' = conf
    PROVE  /\ Ids' = Ids /\ Paths' = Paths
           /\ \A r, p, g, t, R : CellsOK(r, p, g, t, R)' <=> CellsOK(r, p, g, t, R)
           /\ \A r, p, g, x, t, R, i, path :
                 Has(r, p, g, x, t, R, i, path)' <=> Has(r, p, g, x, t, R, i, path)
           /\ \A c : MailOK(c)' <=> MailOK(c)
  <1>1. /\ N' = N
        /\ \A i, g : HaveOf(i, g)' = HaveOf(i, g) /\ DueOf(i, g)' = DueOf(i, g)
        /\ \A i, g : Surplus(i, g)' = Surplus(i, g)
    BY PlanFrozen
  <1>2. Ids' = Ids /\ Paths' = Paths
    BY <1>1 DEF Ids, Paths
  <1>3. \A r, p, g : CellsOf(r, p, g)' = CellsOf(r, p, g)
    BY <1>1 DEF CellsOf, MostOf
  <1>4. ASSUME NEW r, NEW p, NEW g, NEW t, NEW R
        PROVE  CellsOK(r, p, g, t, R)' <=> CellsOK(r, p, g, t, R)
    <2>1. CellsOf(r, p, g)' = CellsOf(r, p, g)
      BY <1>3
    <2> QED BY <1>2, <2>1 DEF CellsOK
  <1>5. ASSUME NEW r, NEW p, NEW g, NEW x, NEW t, NEW R, NEW i, NEW path
        PROVE  Has(r, p, g, x, t, R, i, path)' <=> Has(r, p, g, x, t, R, i, path)
    <2>1. HaveOf(r, g)' = HaveOf(r, g) /\ DueOf(r, g)' = DueOf(r, g) /\ Surplus(r, g)' = Surplus(r, g)
      BY <1>1
    <2>2. Owned(r, p, g, x, R)' = Owned(r, p, g, x, R)
      BY <2>1, Zenon DEF Owned
    <2> QED BY <2>2 DEF Has
  <1>6. ASSUME NEW c PROVE MailOK(c)' <=> MailOK(c)
    BY <1>2 DEF MailOK
  <1> QED BY <1>2, <1>4, <1>5, <1>6

(* A rank that does something with what it has: it has a problem on a path *)
(* iff it had one before, and one only if it had one only.                 *)
SameHand(r, p, g, x, t, R, q, h, y, u, Q, path) ==
    /\ (\E i : Has(r, p, g, x, t, R, i, path)) <=> (\E i : Has(r, q, h, y, u, Q, i, path))
    /\ (\A i, j : Has(r, p, g, x, t, R, i, path) /\ Has(r, p, g, x, t, R, j, path) => i = j)
          => (\A i, j : Has(r, q, h, y, u, Q, i, path) /\ Has(r, q, h, y, u, Q, j, path) => i = j)

LEMMA HandStep ==
    ASSUME MovesOK, ProblemsOK, conf' = conf, chan' = chan, NEW r \in Ranks,
           NEW p, NEW g, NEW x, NEW t, NEW R,
           pc' = [pc EXCEPT ![r] = p], nglobal' = [nglobal EXCEPT ![r] = g],
           xfer' = [xfer EXCEPT ![r] = x], tree' = [tree EXCEPT ![r] = t],
           ran' = [ran EXCEPT ![r] = R],
           CellsOK(r, p, g, t, R),
           \A path \in Paths : SameHand(r, pc[r], nglobal[r], xfer[r], tree[r], ran[r],
                                        p, g, x, t, R, path)
    PROVE  ProblemsOK'
  <1>1. /\ pc = [s \in Ranks |-> pc[s]] /\ nglobal = [s \in Ranks |-> nglobal[s]]
        /\ xfer = [s \in Ranks |-> xfer[s]] /\ tree = [s \in Ranks |-> tree[s]]
        /\ ran = [s \in Ranks |-> ran[s]]
    BY DEF MovesOK, ProblemsOK
  <1>2. Ranks' = Ranks /\ Paths' = Paths
    BY PlanFrozen, HandsFrozen
  <1>3. /\ pc'[r] = p /\ nglobal'[r] = g /\ xfer'[r] = x /\ tree'[r] = t /\ ran'[r] = R
        /\ \A s \in Ranks : s # r => /\ pc'[s] = pc[s] /\ nglobal'[s] = nglobal[s]
                                     /\ xfer'[s] = xfer[s] /\ tree'[s] = tree[s]
                                     /\ ran'[s] = ran[s]
    BY <1>1
  <1>4. ASSUME NEW s \in Ranks
        PROVE  CellsOK(s, pc[s], nglobal[s], tree[s], ran[s])'
    <2>1. PICK q, h, u, Q : q = pc'[s] /\ h = nglobal'[s] /\ u = tree'[s] /\ Q = ran'[s]
      OBVIOUS
    <2>2. CellsOK(s, q, h, u, Q)
      BY <1>3, <2>1 DEF ProblemsOK
    <2>3. CellsOK(s, q, h, u, Q)'
      BY <2>2, HandsFrozen
    <2> QED BY <2>1, <2>3
  <1>5. ASSUME NEW s \in Ranks, NEW u \in Ranks
        PROVE  MailOK(chan[<<s, u>>])'
    <2>1. PICK c : c = chan[<<s, u>>] /\ chan'[<<s, u>>] = c
      OBVIOUS
    <2>2. MailOK(c)'
      BY <2>1, HandsFrozen DEF ProblemsOK
    <2> QED BY <2>1, <2>2
  <1>6. ASSUME NEW path \in Paths PROVE One(path)'
    <2>1. ASSUME NEW s \in Ranks, NEW u \in Ranks, NEW i, s # r \/ u # r
          PROVE  There(s, u, i, path)' <=> There(s, u, i, path)
      <3>1. CASE s # u
        BY <3>1 DEF There, Carries, On
      <3>2. CASE s = u
        <4>1. PICK q, h, y, w, Q : /\ q = pc[s] /\ h = nglobal[s] /\ y = xfer[s] /\ w = tree[s]
                                   /\ Q = ran[s]
          OBVIOUS
        <4>2. q = pc'[s] /\ h = nglobal'[s] /\ y = xfer'[s] /\ w = tree'[s] /\ Q = ran'[s]
          BY <1>3, <2>1, <3>2, <4>1
        <4>3. Has(s, q, h, y, w, Q, i, path)' <=> Has(s, q, h, y, w, Q, i, path)
          BY HandsFrozen
        <4> QED BY <3>2, <4>1, <4>2, <4>3 DEF There
      <3> QED BY <3>1, <3>2
    <2>2. \A i : There(r, r, i, path)' <=> Has(r, p, g, x, t, R, i, path)
      <3> SUFFICES ASSUME NEW i
                   PROVE  There(r, r, i, path)' <=> Has(r, p, g, x, t, R, i, path)
        OBVIOUS
      <3>1. Has(r, p, g, x, t, R, i, path)' <=> Has(r, p, g, x, t, R, i, path)
        BY HandsFrozen
      <3> QED BY <1>3, <3>1 DEF There
    <2>3. \A i : There(r, r, i, path)
                   <=> Has(r, pc[r], nglobal[r], xfer[r], tree[r], ran[r], i, path)
      BY DEF There
    <2>4. /\ (\E i : There(r, r, i, path)) <=> (\E i : There(r, r, i, path)')
          /\ (\A i, j : There(r, r, i, path) /\ There(r, r, j, path) => i = j)
                => (\A i, j : There(r, r, i, path)' /\ There(r, r, j, path)' => i = j)
      <3>1. SameHand(r, pc[r], nglobal[r], xfer[r], tree[r], ran[r], p, g, x, t, R, path)
        OBVIOUS
      <3> QED BY <2>2, <2>3, <3>1, Zenon DEF SameHand
    <2>5. One(path)
      BY DEF ProblemsOK
    <2>6. \A s, u \in Ranks : (\E i : There(s, u, i, path)) <=> (\E i : There(s, u, i, path)')
      BY <2>1, <2>4, Zenon
    <2>7. \E s, u \in Ranks : \E i : There(s, u, i, path)'
      BY <2>5, <2>6, Zenon DEF One
    <2>8. ASSUME NEW s \in Ranks, NEW u \in Ranks, NEW v \in Ranks, NEW w \in Ranks, NEW i, NEW j,
                 There(s, u, i, path)', There(v, w, j, path)'
          PROVE  s = v /\ u = w /\ i = j
      <3>1. s = v /\ u = w
        <4>1. (\E k : There(s, u, k, path)) /\ (\E k : There(v, w, k, path))
          BY <2>6, <2>8, Zenon
        <4> QED BY <2>5, <4>1, Zenon DEF One
      <3>2. CASE s = r /\ u = r
        <4>1. \A k, l : There(r, r, k, path) /\ There(r, r, l, path) => k = l
          BY <2>5, Zenon DEF One
        <4> QED BY <2>4, <2>8, <3>1, <3>2, <4>1, Zenon
      <3>3. CASE ~(s = r /\ u = r)
        <4>1. There(s, u, i, path) /\ There(v, w, j, path)
          BY <2>1, <2>8, <3>1, <3>3
        <4> QED BY <2>5, <4>1, Zenon DEF One
      <3> QED BY <3>1, <3>2, <3>3
    <2> QED BY <1>2, <2>7, <2>8 DEF One
  <1>7. tree' = [s \in Ranks |-> tree'[s]] /\ ran' = [s \in Ranks |-> ran'[s]]
    BY <1>1
  <1> QED BY <1>2, <1>4, <1>5, <1>6, <1>7 DEF ProblemsOK

(* What the loop of a rank on its way down says of its positions.          *)
LEMMA DownView ==
    ASSUME MovesOK, NEW r \in Ranks, pc[r] = "down", NEW g, g = nglobal[r], NEW x, x = xfer[r]
    PROVE  /\ HaveOf(r, g) \in Nat /\ DueOf(r, g) \in Nat
           /\ Surplus(r, g) = HaveOf(r, g) - DueOf(r, g)
           /\ MostOf(r, g) = IF HaveOf(r, g) <= DueOf(r, g) THEN DueOf(r, g) ELSE HaveOf(r, g)
           /\ x.pos \in Nat /\ x.part = 1
           /\ Surplus(r, g) = 0 => x.pos = x.last
           /\ Surplus(r, g) > 0 => DueOf(r, g) <= x.pos /\ x.pos <= x.last /\ x.last = HaveOf(r, g)
           /\ Surplus(r, g) < 0 => HaveOf(r, g) <= x.pos /\ x.pos <= x.last /\ x.last = DueOf(r, g)
  <1>1. conf \in Cases /\ ViewOK(r, "down", g, x)
    BY DEF MovesOK
  <1>2. g \in LevelsOf(N) /\ g # 1 /\ XferOK(r, g, x, 1)
    BY <1>1, CallIs DEF ViewOK
  <1>3. HaveOf(r, g) \in Nat /\ DueOf(r, g) \in Nat
    BY <1>1, <1>2, RoomOfLevel
  <1>4. PICK h \in Nat, d \in Nat : h = HaveOf(r, g) /\ d = DueOf(r, g) /\ Surplus(r, g) = h - d
    BY <1>3 DEF Surplus
  <1>5. /\ LeastOf(r, g) = IF h <= d THEN h ELSE d
        /\ MostOf(r, g) = IF h <= d THEN d ELSE h
    BY <1>4, MinMaxOfPair DEF LeastOf, MostOf
  <1>6. x.pos \in Nat /\ x.part = 1 /\ (Surplus(r, g) = 0 => x.pos = x.last)
    BY <1>2 DEF XferOK
  <1>7. Surplus(r, g) # 0 => LeastOf(r, g) <= x.pos /\ x.pos <= x.last /\ x.last = MostOf(r, g)
    BY <1>2 DEF XferOK
  <1> QED BY <1>4, <1>5, <1>6, <1>7

(* A blank is no problem, and a hole is neither.                           *)
LEMMA BlankIsNone ==
    ASSUME conf \in Cases
    PROVE  BLANK \notin Seq(0 .. N - 1) /\ HOLE \notin Ids
  <1>1. N \in Nat
    BY CallIs
  <1>2. ASSUME NEW a, <<a>> \in Seq(0 .. N - 1) PROVE a \in 0 .. N - 1
    <2>1. Len(<<a>>) = 1 /\ <<a>>[1] = a
      OBVIOUS
    <2> QED BY <1>2, <2>1
  <1>3. -2 \notin 0 .. N - 1 /\ -1 \notin 0 .. N - 1
    BY <1>1
  <1>4. HOLE # BLANK
    <2>1. HOLE[1] = -1 /\ BLANK[1] = -2
      BY DEF HOLE, BLANK
    <2> QED BY <2>1
  <1> QED BY <1>2, <1>3, <1>4 DEF BLANK, HOLE, Ids

(* A path that meets a problem meets one of its children: the first if it  *)
(* is a base case, which moves down.                                       *)
ChildNo(id, path) == IF IsBase(id) THEN 0 ELSE path[Len(id) + 1]

LEMMA ChildOn ==
    ASSUME conf \in Cases, NEW cell, cell.id \in Ids, NEW path \in Paths, NEW k \in 0 .. N - 1
    PROVE  /\ Child(cell, k).id \in Ids
           /\ ChildNo(cell.id, path) \in 0 .. N - 1
           /\ On(Child(cell, k).id, path) <=> On(cell.id, path) /\ k = ChildNo(cell.id, path)
  <1>1. N \in Nat \ {0, 1} /\ BLANK \notin Seq(0 .. N - 1)
    BY CallIs, BlankIsNone
  <1>2. \A id : Cell(id).id = id
    BY DEF Cell
  <1>3. CASE IsBase(cell.id)
    <2>1. Child(cell, k).id = IF k = 0 THEN cell.id ELSE BLANK
      BY <1>2, <1>3 DEF Child
    <2>2. ~On(BLANK, path) /\ BLANK \in Ids
      BY DEF On, Ids
    <2> QED BY <1>1, <1>3, <2>1, <2>2 DEF ChildNo
  <1>4. CASE ~IsBase(cell.id)
    <2>1. PICK id \in Seq(0 .. N - 1) : id = cell.id /\ id # BLANK
      BY <1>4 DEF IsBase, Ids
    <2>2. Child(cell, k).id = Append(id, k)
      BY <1>2, <1>4, <2>1 DEF Child
    <2>3. PICK n \in Nat : n = Len(id)
      BY <2>1
    <2>4. PICK a : a = Append(id, k)
      OBVIOUS
    <2>5. /\ a \in Seq(0 .. N - 1) /\ Len(a) = n + 1 /\ a[n + 1] = k
          /\ \A i \in 1 .. n : a[i] = id[i]
      BY <2>1, <2>3, <2>4
    <2>6. a # BLANK /\ a \in Ids
      BY <1>1, <2>5 DEF Ids
    <2>7. 1 .. n + 1 = (1 .. n) \cup {n + 1}
      BY <2>3
    <2>8. On(a, path) <=> On(id, path) /\ k = path[n + 1]
      BY <2>1, <2>3, <2>5, <2>6, <2>7 DEF On
    <2>9. path[n + 1] \in 0 .. N - 1
      <3>1. n + 1 \in Nat \ {0}
        BY <2>3
      <3> QED BY <3>1 DEF Paths
    <2> QED BY <1>4, <2>1, <2>2, <2>3, <2>4, <2>6, <2>8, <2>9 DEF ChildNo
  <1> QED BY <1>3, <1>4

(* The number of a child and the problem it is a child of.                 *)
LEMMA ChildOf ==
    ASSUME NEW n \in Nat \ {0}, NEW m \in Nat, NEW i \in 0 .. m - 1, NEW k \in 0 .. n - 1
    PROVE  /\ n * i + k \in 0 .. n * m - 1
           /\ (n * i + k) \div n = i /\ (n * i + k) % n = k
  <1>1. PICK a \in Nat : a = n * i
    OBVIOUS
  <1>2. n * (i + 1) = a + n
    BY <1>1
  <1>3. n * (i + 1) <= n * m
    OBVIOUS
  <1>4. PICK b \in Nat : b = n * m /\ a + n <= b
    BY <1>2, <1>3
  <1>5. PICK c \in Nat : c = a + k /\ a <= c /\ c < a + n
    BY <1>1
  <1>6. c \div n = i
    <2>1. i \in Nat /\ i + 1 \in Nat /\ n * i <= c /\ c < n * (i + 1)
      BY <1>1, <1>2, <1>5
    <2>2. c \div n \in Nat /\ i <= c \div n /\ c \div n < i + 1
      BY <2>1, DivBounds, DivMod
    <2> QED BY <2>2
  <1>7. c % n = k
    <2>1. c = n * (c \div n) + (c % n) /\ c % n \in Nat
      BY DivMod
    <2>2. c = a + (c % n)
      BY <1>1, <1>6, <2>1
    <2> QED BY <1>5, <2>1, <2>2
  <1>8. c \in 0 .. b - 1
    BY <1>4, <1>5
  <1> QED BY <1>1, <1>4, <1>5, <1>6, <1>7, <1>8

LEMMA ParentOf ==
    ASSUME NEW n \in Nat \ {0}, NEW m \in Nat, NEW j \in 0 .. n * m - 1
    PROVE  j \div n \in 0 .. m - 1 /\ j % n \in 0 .. n - 1 /\ j = n * (j \div n) + (j % n)
  <1>1. PICK b \in Nat : b = n * m
    OBVIOUS
  <1>2. j \in Nat /\ j < n * m
    BY <1>1
  <1>3. n * 0 <= j
    BY <1>2
  <1>4. j \div n < m
    BY <1>2, <1>3, DivBounds
  <1>5. j \div n \in Nat /\ j % n \in 0 .. n - 1 /\ j = n * (j \div n) + (j % n)
    BY <1>2, DivMod
  <1> QED BY <1>4, <1>5

(* A split: every problem of the rank becomes its children.                *)
LEMMA SplitKeeps ==
    ASSUME MovesOK, ProblemsOK, NEW r \in Ranks, Split(r)
    PROVE  ProblemsOK'
  <1>1. PICK g, x, t, R : g = nglobal[r] /\ x = xfer[r] /\ t = tree[r] /\ R = ran[r]
    OBVIOUS
  <1>2. PICK h, m, size, lv, y :
            /\ h = N * g /\ m = NLocal(r, g, P) /\ size = Max({HaveOf(r, h), DueOf(r, h)})
            /\ lv = t[Len(t)] /\ y = StartXfer(r, h)
    OBVIOUS
  <1>3. PICK left, next :
            /\ left = [i \in DOMAIN lv |-> IF i < m /\ IsBase(lv[i].id) THEN Cell(HOLE) ELSE lv[i]]
            /\ next = [p \in 0 .. size - 1 |->
                          IF p < N * m THEN Child(lv[p \div N], p % N) ELSE Cell(BLANK)]
    OBVIOUS
  <1>4. PICK u : u = IF m > 0 THEN Append([t EXCEPT ![Len(t)] = left], next)
                     ELSE IF size > 0 THEN Append(t, next) ELSE t
    OBVIOUS
  <1>5. /\ pc[r] = "split" /\ ~Balanced(g) /\ conf' = conf /\ chan' = chan /\ ran' = ran
        /\ pc' = [pc EXCEPT ![r] = "down"] /\ nglobal' = [nglobal EXCEPT ![r] = h]
        /\ xfer' = [xfer EXCEPT ![r] = y]
    BY <1>1, <1>2, Zenon DEF Split
  <1>6. tree' = [tree EXCEPT ![r] = u]
    BY <1>1, <1>2, <1>3, <1>4, Zenon DEF Split
  <1>7. /\ conf \in Cases /\ N \in Nat \ {0, 1} /\ g \in LevelsOf(N)
        /\ ViewOK(r, "split", g, x) /\ CellsOK(r, "split", g, t, R)
        /\ ran = [s \in Ranks |-> ran[s]]
    BY <1>1, <1>5, CallIs DEF MovesOK, ProblemsOK, ViewOK
  <1>8. m \in Nat /\ m = DueOf(r, g) /\ HaveOf(r, h) = N * m /\ N * m \in Nat
    BY <1>2, <1>7, RoomOfLevel
  <1>9. h \in LevelsOf(N) /\ h # 1
    <2>1. LevelsOf(N) \subseteq Nat \ {0} /\ N * g \in LevelsOf(N) /\ N * g > g
      BY <1>7, LevelsAre
    <2>2. h \in LevelsOf(N) /\ h > g /\ h \in Nat /\ g \in Nat \ {0}
      BY <1>2, <1>7, <2>1
    <2> QED BY <2>2
  <1>10. PICK b \in Nat, d \in Nat : b = N * m /\ b = HaveOf(r, h) /\ d = DueOf(r, h)
    BY <1>7, <1>8, <1>9, RoomOfLevel
  <1>11. /\ Surplus(r, h) = b - d /\ size = (IF b <= d THEN d ELSE b) /\ size = MostOf(r, h)
         /\ LeastOf(r, h) = IF b <= d THEN b ELSE d
    <2>1. Surplus(r, h) = b - d
      BY <1>10 DEF Surplus
    <2>2. size = Max({b, d}) /\ MostOf(r, h) = Max({b, d}) /\ LeastOf(r, h) = Min({b, d})
      BY <1>2, <1>10 DEF MostOf, LeastOf
    <2> QED BY <2>1, <2>2, MinMaxOfPair
  <1>12. Surplus(r, h) # 0 => y.pos = LeastOf(r, h)
    BY <1>2 DEF StartXfer, LeastOf
  <1>13. /\ \E M : t \in Seq(M)
         /\ \A i \in 0 .. m - 1 : t # <<>> /\ i \in DOMAIN lv /\ lv[i].id \in Ids
    BY <1>2, <1>7, <1>8 DEF CellsOK, CellsOf, Working
  <1>14. m > 0 => b > 0
    <2> SUFFICES ASSUME m > 0 PROVE b > 0
      OBVIOUS
    <2>1. N * m >= m
      BY <1>7, <1>8
    <2> QED BY <1>8, <1>10, <2>1
  <1>15. /\ \E M : u \in Seq(M)
         /\ size > 0 => u # <<>> /\ u[Len(u)] = next
    <2>1. PICK M : t \in Seq(M)
      BY <1>13
    <2>2. CASE m > 0
      <3>1. PICK v : v = [t EXCEPT ![Len(t)] = left]
        OBVIOUS
      <3>2. v \in Seq(M \cup {left})
        <4>1. 0 \in 0 .. m - 1
          BY <1>8, <2>2
        <4>2. t # <<>> /\ t \in Seq(M \cup {left})
          BY <1>13, <2>1, <4>1
        <4>3. Len(t) \in 1 .. Len(t) /\ left \in M \cup {left}
          BY <4>2
        <4> QED BY <3>1, <4>2, <4>3, ExceptSeq
      <3>3. v \in Seq(M \cup {left, next}) /\ u = Append(v, next)
        BY <1>4, <2>2, <3>1, <3>2
      <3> QED BY <3>3
    <2>3. CASE ~(m > 0) /\ size > 0
      <3>1. t \in Seq(M \cup {next}) /\ u = Append(t, next)
        BY <1>4, <2>1, <2>3
      <3> QED BY <3>1
    <2>4. CASE ~(m > 0) /\ ~(size > 0)
      BY <1>4, <2>1, <2>4
    <2> QED BY <2>2, <2>3, <2>4
  <1>16. ASSUME NEW j \in 0 .. b - 1
         PROVE  /\ j \in 0 .. size - 1 /\ size > 0 /\ next[j] = Child(lv[j \div N], j % N)
                /\ j \div N \in 0 .. m - 1 /\ j % N \in 0 .. N - 1
                /\ j = N * (j \div N) + (j % N)
                /\ lv[j \div N].id \in Ids
    <2>1. j \in 0 .. size - 1 /\ j < N * m /\ size > 0
      BY <1>10, <1>11
    <2>2. j \div N \in 0 .. m - 1 /\ j % N \in 0 .. N - 1 /\ j = N * (j \div N) + (j % N)
      BY <1>7, <1>8, <1>10, ParentOf
    <2> QED BY <1>3, <1>13, <2>1, <2>2
  <1>17. CellsOK(r, "down", h, u, R)
    <2>1. ASSUME NEW i \in 0 .. size - 1
          PROVE  u # <<>> /\ i \in DOMAIN u[Len(u)] /\ u[Len(u)][i].id \in Ids
      <3>1. size > 0 /\ u # <<>> /\ u[Len(u)] = next /\ i \in DOMAIN next
        BY <1>3, <1>11, <1>15
      <3>2. CASE i < N * m
        <4>1. i \in 0 .. b - 1
          BY <1>10, <3>2
        <4>2. next[i] = Child(lv[i \div N], i % N) /\ i % N \in 0 .. N - 1 /\ lv[i \div N].id \in Ids
          BY <1>16, <4>1
        <4>3. PICK path : path = [k \in Nat \ {0} |-> 0]
          OBVIOUS
        <4>4. path \in Paths
          BY <1>7, <4>3 DEF Paths
        <4>5. next[i].id \in Ids
          BY <1>7, <4>2, <4>4, ChildOn
        <4> QED BY <3>1, <4>5
      <3>3. CASE ~(i < N * m)
        <4>1. next[i] = Cell(BLANK)
          BY <1>3, <3>3
        <4> QED BY <3>1, <4>1 DEF Cell, Ids
      <3> QED BY <3>2, <3>3
    <2> QED BY <1>11, <1>15, <2>1 DEF CellsOK, CellsOf, Working
  <1>18. Owned(r, "down", h, y, R) = 0 .. b - 1
    <2>1. Owned(r, "down", h, y, R) =
             IF Surplus(r, h) > 0 THEN (0 .. d - 1) \cup (y.pos .. b - 1)
             ELSE 0 .. (IF Surplus(r, h) = 0 THEN b ELSE y.pos) - 1
      BY <1>10 DEF Owned, Working
    <2>2. CASE Surplus(r, h) > 0
      <3>1. y.pos = d /\ d < b
        BY <1>10, <1>11, <1>12, <2>2
      <3>2. (0 .. d - 1) \cup (d .. b - 1) = 0 .. b - 1
        BY <1>10, <3>1
      <3> QED BY <2>1, <2>2, <3>1, <3>2
    <2>3. CASE Surplus(r, h) = 0
      BY <2>1, <2>3
    <2>4. CASE ~(Surplus(r, h) > 0) /\ Surplus(r, h) # 0
      <3>1. y.pos = b
        BY <1>11, <1>12, <2>4
      <3> QED BY <2>1, <2>4, <3>1
    <2> QED BY <2>2, <2>3, <2>4
  <1>19. ASSUME NEW path \in Paths
         PROVE  SameHand(r, "split", g, x, t, R, "down", h, y, u, R, path)
    <2>1. \A i : Has(r, "split", g, x, t, R, i, path) <=> i \in 0 .. m - 1 /\ On(lv[i].id, path)
      BY <1>2, <1>8 DEF Has, Owned, ProblemAt, Working
    <2>2. ASSUME NEW j
          PROVE  Has(r, "down", h, y, u, R, j, path)
                    <=> /\ j \in 0 .. b - 1
                        /\ On(lv[j \div N].id, path)
                        /\ j % N = ChildNo(lv[j \div N].id, path)
      <3>1. Has(r, "down", h, y, u, R, j, path) <=> j \in 0 .. b - 1 /\ On(u[Len(u)][j].id, path)
        BY <1>18 DEF Has, ProblemAt, Working
      <3>2. ASSUME j \in 0 .. b - 1
            PROVE  On(u[Len(u)][j].id, path)
                      <=> On(lv[j \div N].id, path) /\ j % N = ChildNo(lv[j \div N].id, path)
        <4>1. /\ size > 0 /\ next[j] = Child(lv[j \div N], j % N) /\ j % N \in 0 .. N - 1
              /\ lv[j \div N].id \in Ids
          BY <1>16, <3>2
        <4>2. On(next[j].id, path)
                 <=> On(lv[j \div N].id, path) /\ j % N = ChildNo(lv[j \div N].id, path)
          BY <1>7, <4>1, ChildOn
        <4> QED BY <1>15, <4>1, <4>2
      <3> QED BY <3>1, <3>2
    <2>3. ASSUME NEW i, Has(r, "split", g, x, t, R, i, path)
          PROVE  \E j : Has(r, "down", h, y, u, R, j, path)
      <3>1. i \in 0 .. m - 1 /\ On(lv[i].id, path) /\ lv[i].id \in Ids
        BY <1>13, <2>1, <2>3
      <3>2. PICK k \in 0 .. N - 1 : k = ChildNo(lv[i].id, path)
        <4>1. 0 \in 0 .. N - 1
          BY <1>7
        <4> QED BY <1>7, <3>1, <4>1, ChildOn
      <3>3. PICK j : j = N * i + k
        OBVIOUS
      <3>4. j \in 0 .. b - 1 /\ j \div N = i /\ j % N = k
        BY <1>7, <1>8, <1>10, <3>1, <3>3, ChildOf
      <3> QED BY <2>2, <3>1, <3>2, <3>4
    <2>4. ASSUME NEW j, Has(r, "down", h, y, u, R, j, path)
          PROVE  Has(r, "split", g, x, t, R, j \div N, path)
      BY <1>16, <2>1, <2>2, <2>4
    <2>5. ASSUME \A i, j :
                    Has(r, "split", g, x, t, R, i, path) /\ Has(r, "split", g, x, t, R, j, path)
                       => i = j
          PROVE  \A i, j :
                    Has(r, "down", h, y, u, R, i, path) /\ Has(r, "down", h, y, u, R, j, path)
                       => i = j
      <3> SUFFICES ASSUME NEW i, NEW j, Has(r, "down", h, y, u, R, i, path),
                          Has(r, "down", h, y, u, R, j, path)
                   PROVE  i = j
        OBVIOUS
      <3>1. i \div N = j \div N
        BY <2>4, <2>5
      <3>2. i % N = j % N /\ i \in 0 .. b - 1 /\ j \in 0 .. b - 1
        BY <2>2, <3>1
      <3>3. i = N * (i \div N) + (i % N) /\ j = N * (j \div N) + (j % N)
        BY <1>16, <3>2
      <3> QED BY <3>1, <3>2, <3>3
    <2>6. (\E i : Has(r, "split", g, x, t, R, i, path))
             <=> (\E i : Has(r, "down", h, y, u, R, i, path))
      BY <2>3, <2>4, Zenon
    <2> QED BY <2>5, <2>6, Zenon DEF SameHand
  <1>20. ran' = [ran EXCEPT ![r] = R]
    BY <1>1, <1>5, <1>7
  <1>21. \A path \in Paths : SameHand(r, pc[r], nglobal[r], xfer[r], tree[r], ran[r],
                                      "down", h, y, u, R, path)
    BY <1>1, <1>5, <1>19
  <1> QED BY <1>5, <1>6, <1>17, <1>20, <1>21, HandStep

(* A rank that has its problems as before.                                 *)
LEMMA HandKept ==
    ASSUME NEW r, NEW p, NEW g, NEW x, NEW t, NEW R, NEW q, NEW h, NEW y, NEW u, NEW Q, NEW path,
           \A i : Has(r, p, g, x, t, R, i, path) <=> Has(r, q, h, y, u, Q, i, path)
    PROVE  SameHand(r, p, g, x, t, R, q, h, y, u, Q, path)
  BY Zenon DEF SameHand

(* The end of a level: a rank has what it is due.                          *)
LEMMA CommitKeeps ==
    ASSUME MovesOK, ProblemsOK, NEW r \in Ranks, Commit(r)
    PROVE  ProblemsOK'
  <1>1. PICK g, x, t, R : g = nglobal[r] /\ x = xfer[r] /\ t = tree[r] /\ R = ran[r]
    OBVIOUS
  <1>2. PICK lv, kept : lv = t[Len(t)] /\ kept = [i \in 0 .. DueOf(r, g) - 1 |-> lv[i]]
    OBVIOUS
  <1>3. PICK u : u = IF Surplus(r, g) > 0 /\ ~GatherInput THEN [t EXCEPT ![Len(t)] = kept] ELSE t
    OBVIOUS
  <1>4. /\ pc[r] = "down" /\ x.pos = x.last /\ conf' = conf /\ chan' = chan /\ ran' = ran
        /\ pc' = [pc EXCEPT ![r] = "split"] /\ nglobal' = nglobal /\ xfer' = xfer
    BY <1>1, Zenon DEF Commit, Moved
  <1>5. tree' = [tree EXCEPT ![r] = u]
    BY <1>1, <1>2, <1>3, Zenon DEF Commit
  <1>6. /\ nglobal' = [nglobal EXCEPT ![r] = g] /\ xfer' = [xfer EXCEPT ![r] = x]
        /\ ran' = [ran EXCEPT ![r] = R]
    BY <1>1, <1>4 DEF MovesOK, ProblemsOK
  <1>7. PICK b \in Nat, d \in Nat :
            /\ b = HaveOf(r, g) /\ d = DueOf(r, g) /\ Surplus(r, g) = b - d
            /\ MostOf(r, g) = IF b <= d THEN d ELSE b
    BY <1>1, <1>4, DownView
  <1>8. /\ Surplus(r, g) > 0 => x.pos = b
        /\ Surplus(r, g) < 0 => x.pos = d
    BY <1>1, <1>4, <1>7, DownView
  <1>9. CellsOK(r, "down", g, t, R)
    BY <1>1, <1>4 DEF ProblemsOK
  <1>10. /\ \E M : t \in Seq(M)
         /\ \A i \in 0 .. d - 1 : t # <<>> /\ i \in DOMAIN lv /\ lv[i].id \in Ids
    <2>1. /\ \E M : t \in Seq(M)
          /\ \A i \in 0 .. MostOf(r, g) - 1 : t # <<>> /\ i \in DOMAIN lv /\ lv[i].id \in Ids
      BY <1>2, <1>9 DEF CellsOK, CellsOf, Working
    <2> QED BY <1>7, <2>1
  <1>11. /\ \E M : u \in Seq(M)
         /\ \A i \in 0 .. d - 1 : /\ u # <<>> /\ i \in DOMAIN u[Len(u)]
                                  /\ u[Len(u)][i] = lv[i]
    <2>1. CASE Surplus(r, g) > 0 /\ ~GatherInput /\ d > 0
      <3>1. PICK M : t \in Seq(M)
        BY <1>10
      <3>2. 0 \in 0 .. d - 1
        BY <1>7, <2>1
      <3>3. t # <<>> /\ t \in Seq(M \cup {kept})
        BY <1>10, <3>1, <3>2
      <3>4. Len(t) \in 1 .. Len(t) /\ kept \in M \cup {kept}
        BY <3>3
      <3>5. /\ u \in Seq(M \cup {kept}) /\ Len(u) = Len(t) /\ u[Len(t)] = kept
        BY <1>3, <2>1, <3>3, <3>4, ExceptSeq
      <3>6. u # <<>>
        BY <3>4, <3>5
      <3>7. DOMAIN kept = 0 .. d - 1 /\ \A i \in 0 .. d - 1 : kept[i] = lv[i]
        BY <1>2, <1>7
      <3> QED BY <3>5, <3>6, <3>7
    <2>2. CASE ~(Surplus(r, g) > 0 /\ ~GatherInput)
      BY <1>2, <1>3, <1>10, <2>2
    <2>3. CASE Surplus(r, g) > 0 /\ ~GatherInput /\ ~(d > 0)
      <3>1. PICK M : t \in Seq(M)
        BY <1>10
      <3>2. t \in Seq(M \cup {kept}) /\ kept \in M \cup {kept}
        BY <3>1
      <3>3. u \in Seq(M \cup {kept})
        <4>1. CASE Len(t) \in 1 .. Len(t)
          BY <1>3, <2>3, <3>2, <4>1, ExceptSeq
        <4>2. CASE Len(t) \notin 1 .. Len(t)
          <5>1. DOMAIN t = 1 .. Len(t)
            BY <3>1
          <5>2. u = t
            BY <1>3, <2>3, <3>1, <4>2, <5>1
          <5> QED BY <3>2, <5>2
        <4> QED BY <4>1, <4>2
      <3>4. 0 .. d - 1 = {}
        BY <1>7, <2>3
      <3> QED BY <3>3, <3>4
    <2> QED BY <2>1, <2>2, <2>3
  <1>12. CellsOK(r, "split", g, u, R)
    BY <1>7, <1>10, <1>11 DEF CellsOK, CellsOf, Working
  <1>13. ASSUME NEW path \in Paths
         PROVE  SameHand(r, "down", g, x, t, R, "split", g, x, u, R, path)
    <2>1. Owned(r, "split", g, x, R) = 0 .. d - 1
      BY <1>7 DEF Owned, Working
    <2>2. Owned(r, "down", g, x, R) = 0 .. d - 1
      <3>1. Owned(r, "down", g, x, R) =
               IF Surplus(r, g) > 0 THEN (0 .. d - 1) \cup (x.pos .. b - 1)
               ELSE 0 .. (IF Surplus(r, g) = 0 THEN b ELSE x.pos) - 1
        BY <1>7 DEF Owned, Working
      <3>2. CASE Surplus(r, g) > 0
        <4>1. x.pos .. b - 1 = {}
          BY <1>7, <1>8, <3>2
        <4> QED BY <3>1, <3>2, <4>1
      <3>3. CASE Surplus(r, g) = 0
        BY <1>7, <3>1, <3>3
      <3>4. CASE ~(Surplus(r, g) > 0) /\ Surplus(r, g) # 0
        <4>1. x.pos = d
          BY <1>7, <1>8, <3>4
        <4> QED BY <3>1, <3>4, <4>1
      <3> QED BY <3>2, <3>3, <3>4
    <2>3. ASSUME NEW i
          PROVE  Has(r, "down", g, x, t, R, i, path) <=> Has(r, "split", g, x, u, R, i, path)
      <3>1. i \in 0 .. d - 1 => ProblemAt("down", t, R, i) = ProblemAt("split", u, R, i)
        BY <1>2, <1>11 DEF ProblemAt, Working
      <3> QED BY <2>1, <2>2, <3>1, Zenon DEF Has
    <2> QED BY <2>3, HandKept
  <1>14. \A path \in Paths : SameHand(r, pc[r], nglobal[r], xfer[r], tree[r], ran[r],
                                      "split", g, x, u, R, path)
    BY <1>1, <1>4, <1>13
  <1> QED BY <1>4, <1>5, <1>6, <1>12, <1>14, HandStep

(* The rank runs what it has.                                              *)
LEMMA RunKeeps ==
    ASSUME MovesOK, ProblemsOK, NEW r \in Ranks, Run(r)
    PROVE  ProblemsOK'
  <1>1. PICK g, x, t, R : g = nglobal[r] /\ x = xfer[r] /\ t = tree[r] /\ R = ran[r]
    OBVIOUS
  <1>2. PICK n, lv : n = NLocal(r, g, P) /\ lv = t[Len(t)]
    OBVIOUS
  <1>3. PICK Q, run : /\ Q = [i \in 1 .. n |-> lv[i - 1].id]
                      /\ run = [i \in DOMAIN lv |-> [lv[i] EXCEPT !.done = i < n \/ @]]
    OBVIOUS
  <1>4. PICK u : u = [t EXCEPT ![Len(t)] = run]
    OBVIOUS
  <1>5. /\ pc[r] = "split" /\ conf' = conf /\ chan' = chan /\ nglobal' = nglobal /\ xfer' = xfer
        /\ pc' = [pc EXCEPT ![r] = "gather"] /\ ran' = [ran EXCEPT ![r] = Q]
    BY <1>1, <1>2, <1>3, Zenon DEF Run
  <1>6. tree' = [tree EXCEPT ![r] = u]
    <2>1. tree' = [tree EXCEPT ![r][Len(tree[r])] =
                      [i \in DOMAIN lv |-> [lv[i] EXCEPT !.done = i < n \/ @]]]
      BY <1>1, <1>2, Zenon DEF Run
    <2>2. tree' = [tree EXCEPT ![r][Len(t)] = run]
      BY <1>1, <1>3, <2>1
    <2> QED BY <1>1, <1>4, <2>2
  <1>7. nglobal' = [nglobal EXCEPT ![r] = g] /\ xfer' = [xfer EXCEPT ![r] = x]
    BY <1>1, <1>5 DEF MovesOK
  <1>8. n \in Nat /\ n = DueOf(r, g)
    BY <1>1, <1>2, RoomOfLevel DEF MovesOK, ViewOK
  <1>9. \A i \in 0 .. n - 1 : lv[i].id \in Ids
    <2>1. CellsOK(r, "split", g, t, R)
      BY <1>1, <1>5 DEF ProblemsOK
    <2> QED BY <1>2, <1>8, <2>1 DEF CellsOK, CellsOf, Working
  <1>10. CellsOK(r, "gather", g, u, Q)
    <2>1. DOMAIN Q = 1 .. n /\ \A i \in 1 .. n : Q[i] = lv[i - 1].id /\ i - 1 \in 0 .. n - 1
      BY <1>3, <1>8
    <2>2. \A i \in 1 .. n : Q[i] \in Ids
      BY <1>9, <2>1
    <2> QED BY <1>8, <2>1, <2>2 DEF CellsOK, Working
  <1>11. ASSUME NEW path \in Paths
         PROVE  SameHand(r, "split", g, x, t, R, "gather", g, x, u, Q, path)
    <2>1. ASSUME NEW i
          PROVE  Has(r, "split", g, x, t, R, i, path) <=> i \in 0 .. n - 1 /\ On(lv[i].id, path)
      BY <1>2, <1>8 DEF Has, Owned, ProblemAt, Working
    <2>2. ASSUME NEW i
          PROVE  Has(r, "gather", g, x, u, Q, i, path) <=> i \in 1 .. n /\ On(lv[i - 1].id, path)
      BY <1>3 DEF Has, Owned, ProblemAt, Working
    <2>3. ASSUME NEW i, Has(r, "split", g, x, t, R, i, path)
          PROVE  Has(r, "gather", g, x, u, Q, i + 1, path)
      <3>1. i \in 0 .. n - 1 /\ On(lv[i].id, path)
        BY <2>1, <2>3
      <3>2. i + 1 \in 1 .. n /\ (i + 1) - 1 = i
        BY <1>8, <3>1
      <3> QED BY <2>2, <3>1, <3>2
    <2>4. ASSUME NEW i, Has(r, "gather", g, x, u, Q, i, path)
          PROVE  i \in 1 .. n /\ Has(r, "split", g, x, t, R, i - 1, path)
      <3>1. i \in 1 .. n /\ On(lv[i - 1].id, path)
        BY <2>2, <2>4
      <3>2. i - 1 \in 0 .. n - 1
        BY <1>8, <3>1
      <3> QED BY <2>1, <3>1, <3>2
    <2>5. (\E i : Has(r, "split", g, x, t, R, i, path))
             <=> (\E i : Has(r, "gather", g, x, u, Q, i, path))
      BY <2>3, <2>4, Zenon
    <2>6. ASSUME \A i, j :
                    Has(r, "split", g, x, t, R, i, path) /\ Has(r, "split", g, x, t, R, j, path)
                       => i = j
          PROVE  \A i, j :
                    Has(r, "gather", g, x, u, Q, i, path) /\ Has(r, "gather", g, x, u, Q, j, path)
                       => i = j
      <3> SUFFICES ASSUME NEW i, NEW j, Has(r, "gather", g, x, u, Q, i, path),
                          Has(r, "gather", g, x, u, Q, j, path)
                   PROVE  i = j
        OBVIOUS
      <3>1. i - 1 = j - 1 /\ i \in 1 .. n /\ j \in 1 .. n
        BY <2>4, <2>6
      <3> QED BY <1>8, <3>1
    <2> QED BY <2>5, <2>6, Zenon DEF SameHand
  <1>12. \A path \in Paths : SameHand(r, pc[r], nglobal[r], xfer[r], tree[r], ran[r],
                                      "gather", g, x, u, Q, path)
    BY <1>1, <1>5, <1>11
  <1> QED BY <1>5, <1>6, <1>7, <1>10, <1>12, HandStep

(* On the way back the list of what a rank ran stays as it is.             *)
LEMMA BackKeeps ==
    ASSUME MovesOK, ProblemsOK, NEW r \in Ranks, conf' = conf, chan' = chan, ran' = ran,
           NEW q, NEW h, NEW y, NEW u, ~Working(pc[r]), ~Working(q),
           pc' = [pc EXCEPT ![r] = q], nglobal' = [nglobal EXCEPT ![r] = h],
           xfer' = [xfer EXCEPT ![r] = y], tree' = [tree EXCEPT ![r] = u]
    PROVE  ProblemsOK'
  <1>1. PICK p, g, x, t, R :
            p = pc[r] /\ g = nglobal[r] /\ x = xfer[r] /\ t = tree[r] /\ R = ran[r]
    OBVIOUS
  <1>2. ran' = [ran EXCEPT ![r] = R]
    BY <1>1 DEF ProblemsOK
  <1>3. CellsOK(r, q, h, u, R)
    <2>1. CellsOK(r, p, g, t, R)
      BY <1>1 DEF ProblemsOK
    <2> QED BY <1>1, <2>1 DEF CellsOK
  <1>4. ASSUME NEW path \in Paths
        PROVE  SameHand(r, p, g, x, t, R, q, h, y, u, R, path)
    <2>1. \A i : Has(r, p, g, x, t, R, i, path) <=> Has(r, q, h, y, u, R, i, path)
      BY <1>1, Zenon DEF Has, Owned, ProblemAt
    <2> QED BY <2>1, HandKept
  <1> QED BY <1>1, <1>2, <1>3, <1>4, HandStep

(* A rank that goes on in its loop keeps the others, their problems and    *)
(* their messages as they are; c is what is now on the way from a to b.    *)
OthersKeep(r, y, u, a, b, c) ==
    /\ tree' = [v \in Ranks |-> tree'[v]] /\ ran' = [v \in Ranks |-> ran'[v]]
    /\ \A v \in Ranks : CellsOK(v, pc[v], nglobal[v], tree[v], ran[v])'
    /\ \A v, w \in Ranks : MailOK(chan[<<v, w>>])'
    /\ \A path, i : There(r, r, i, path)'
                       <=> Has(r, pc[r], nglobal[r], y, u, ran[r], i, path)
    /\ \A path, i : There(a, b, i, path)' <=> Carries(c, i, path)
    /\ \A v, w \in Ranks : ~(v = r /\ w = r) /\ ~(v = a /\ w = b) =>
          \A path, i : There(v, w, i, path)' <=> There(v, w, i, path)

LEMMA OthersKept ==
    ASSUME MovesOK, ProblemsOK, conf' = conf, pc' = pc, nglobal' = nglobal, ran' = ran,
           NEW r \in Ranks, NEW y, NEW u, NEW a \in Ranks, NEW b \in Ranks, NEW c, a # b,
           xfer' = [xfer EXCEPT ![r] = y], tree' = [tree EXCEPT ![r] = u],
           chan' = [chan EXCEPT ![<<a, b>>] = c],
           CellsOK(r, pc[r], nglobal[r], u, ran[r]), MailOK(c)
    PROVE  OthersKeep(r, y, u, a, b, c)
  <1>1. /\ pc = [v \in Ranks |-> pc[v]] /\ nglobal = [v \in Ranks |-> nglobal[v]]
        /\ xfer = [v \in Ranks |-> xfer[v]] /\ tree = [v \in Ranks |-> tree[v]]
        /\ ran = [v \in Ranks |-> ran[v]] /\ chan = [e \in Ranks \X Ranks |-> chan[e]]
    BY DEF MovesOK, ProblemsOK
  <1>2. Ranks' = Ranks
    BY PlanFrozen
  <1>3. /\ xfer'[r] = y /\ tree'[r] = u
        /\ \A v \in Ranks : v # r => xfer'[v] = xfer[v] /\ tree'[v] = tree[v]
    BY <1>1
  <1>4. ASSUME NEW v \in Ranks, NEW w \in Ranks
        PROVE  /\ v = a /\ w = b => chan'[<<v, w>>] = c
               /\ ~(v = a /\ w = b) => chan'[<<v, w>>] = chan[<<v, w>>]
    <2>1. PICK e, f : e = <<a, b>> /\ f = <<v, w>> /\ e \in Ranks \X Ranks /\ f \in Ranks \X Ranks
      <3>1. <<a, b>> \in Ranks \X Ranks /\ <<v, w>> \in Ranks \X Ranks
        OBVIOUS
      <3> QED BY <3>1
    <2>2. chan' = [chan EXCEPT ![e] = c]
      BY <2>1
    <2>3. chan'[f] = IF f = e THEN c ELSE chan[f]
      BY <1>1, <2>1, <2>2
    <2>4. f = e <=> v = a /\ w = b
      BY <2>1
    <2> QED BY <2>1, <2>3, <2>4
  <1>5. ASSUME NEW v \in Ranks PROVE CellsOK(v, pc[v], nglobal[v], tree[v], ran[v])'
    <2>1. PICK q, h, z, Q : q = pc'[v] /\ h = nglobal'[v] /\ z = tree'[v] /\ Q = ran'[v]
      OBVIOUS
    <2>2. CellsOK(v, q, h, z, Q)
      BY <1>3, <2>1 DEF ProblemsOK
    <2>3. CellsOK(v, q, h, z, Q)'
      BY <2>2, HandsFrozen
    <2> QED BY <2>1, <2>3
  <1>6. ASSUME NEW v \in Ranks, NEW w \in Ranks PROVE MailOK(chan[<<v, w>>])'
    <2>1. PICK d : d = chan'[<<v, w>>]
      OBVIOUS
    <2>2. MailOK(d)
      BY <1>4, <2>1 DEF ProblemsOK
    <2>3. MailOK(d)'
      BY <2>2, HandsFrozen
    <2> QED BY <2>1, <2>3
  <1>7. ASSUME NEW path, NEW i
        PROVE  There(r, r, i, path)' <=> Has(r, pc[r], nglobal[r], y, u, ran[r], i, path)
    <2>1. PICK q, h, Q : q = pc[r] /\ h = nglobal[r] /\ Q = ran[r]
      OBVIOUS
    <2>2. Has(r, q, h, y, u, Q, i, path)' <=> Has(r, q, h, y, u, Q, i, path)
      BY HandsFrozen
    <2>3. q = pc'[r] /\ h = nglobal'[r] /\ Q = ran'[r]
      BY <2>1
    <2> QED BY <1>3, <2>1, <2>2, <2>3 DEF There
  <1>8. ASSUME NEW path, NEW i
        PROVE  There(a, b, i, path)' <=> Carries(c, i, path)
    <2>1. chan'[<<a, b>>] = c
      BY <1>4
    <2>2. Carries(c, i, path)' <=> Carries(c, i, path)
      BY DEF Carries, On
    <2> QED BY <2>1, <2>2 DEF There
  <1>9. ASSUME NEW v \in Ranks, NEW w \in Ranks, ~(v = r /\ w = r), ~(v = a /\ w = b),
               NEW path, NEW i
        PROVE  There(v, w, i, path)' <=> There(v, w, i, path)
    <2>1. CASE v # w
      <3>1. PICK d : d = chan[<<v, w>>] /\ d = chan'[<<v, w>>]
        BY <1>4, <1>9
      <3>2. Carries(d, i, path)' <=> Carries(d, i, path)
        BY DEF Carries, On
      <3> QED BY <2>1, <3>1, <3>2 DEF There
    <2>2. CASE v = w
      <3>1. PICK q, h, z, l, Q :
                q = pc[v] /\ h = nglobal[v] /\ z = xfer[v] /\ l = tree[v] /\ Q = ran[v]
        OBVIOUS
      <3>2. q = pc'[v] /\ h = nglobal'[v] /\ z = xfer'[v] /\ l = tree'[v] /\ Q = ran'[v]
        BY <1>3, <1>9, <2>2, <3>1
      <3>3. Has(v, q, h, z, l, Q, i, path)' <=> Has(v, q, h, z, l, Q, i, path)
        BY HandsFrozen
      <3> QED BY <2>2, <3>1, <3>2, <3>3 DEF There
    <2> QED BY <2>1, <2>2
  <1>10. tree' = [v \in Ranks |-> tree'[v]] /\ ran' = [v \in Ranks |-> ran'[v]]
    BY <1>1
  <1> QED BY <1>5, <1>6, <1>7, <1>8, <1>9, <1>10 DEF OthersKeep

(* The loop on the way down moves one problem at a time.                   *)
LEMMA DownAdvances ==
    ASSUME MovesOK, NEW r \in Ranks, pc[r] = "down"
    PROVE  Advance(r).pos = xfer[r].pos + 1 /\ Part(r) = "input" /\ ~Back(r)
  <1>1. Parts(r) = <<"input">> /\ ~Back(r)
    BY DEF Parts, Back
  <1>2. xfer[r].part = 1
    BY DownView
  <1>3. Len(<<"input">>) = 1 /\ <<"input">>[1] = "input"
    OBVIOUS
  <1> QED BY <1>1, <1>2, <1>3 DEF Advance, Part

(* What a rank has on its way down is in its level.                        *)
LEMMA OwnedAreCells ==
    ASSUME MovesOK, NEW r \in Ranks, pc[r] = "down", NEW R
    PROVE  Owned(r, "down", nglobal[r], xfer[r], R) \subseteq 0 .. CellsOf(r, "down", nglobal[r]) - 1
  <1>1. PICK g, x : g = nglobal[r] /\ x = xfer[r]
    OBVIOUS
  <1>2. PICK b \in Nat, e \in Nat :
            /\ b = HaveOf(r, g) /\ e = DueOf(r, g) /\ Surplus(r, g) = b - e
            /\ MostOf(r, g) = IF b <= e THEN e ELSE b
    BY <1>1, DownView
  <1>3. /\ x.pos \in Nat
        /\ Surplus(r, g) < 0 => x.pos <= x.last /\ x.last = e
    BY <1>1, <1>2, DownView
  <1>4. Owned(r, "down", g, x, R) =
           IF Surplus(r, g) > 0 THEN (0 .. e - 1) \cup (x.pos .. b - 1)
           ELSE 0 .. (IF Surplus(r, g) = 0 THEN b ELSE x.pos) - 1
    BY <1>2 DEF Owned, Working
  <1>5. CellsOf(r, "down", g) = IF b <= e THEN e ELSE b
    BY <1>2 DEF CellsOf
  <1>6. PICK z \in Nat : z = x.pos
    BY <1>3
  <1>7. CASE Surplus(r, g) > 0
    <2>1. e < b
      BY <1>2, <1>7
    <2>2. (0 .. e - 1) \cup (z .. b - 1) \subseteq 0 .. b - 1
      BY <2>1
    <2>3. CellsOf(r, "down", g) = b
      BY <1>5, <2>1
    <2> QED BY <1>1, <1>4, <1>6, <1>7, <2>2, <2>3
  <1>8. CASE Surplus(r, g) = 0
    <2>1. CellsOf(r, "down", g) = b
      BY <1>2, <1>5, <1>8
    <2> QED BY <1>1, <1>4, <1>8, <2>1
  <1>9. CASE Surplus(r, g) < 0
    <2>1. CellsOf(r, "down", g) = e /\ z <= e
      BY <1>2, <1>3, <1>5, <1>6, <1>9
    <2>2. 0 .. z - 1 \subseteq 0 .. e - 1
      BY <2>1
    <2>3. ~(Surplus(r, g) > 0) /\ Surplus(r, g) # 0
      BY <1>2, <1>9
    <2> QED BY <1>1, <1>4, <1>6, <2>1, <2>2, <2>3
  <1>10. Surplus(r, g) > 0 \/ Surplus(r, g) = 0 \/ Surplus(r, g) < 0
    BY <1>2
  <1> QED BY <1>7, <1>8, <1>9, <1>10

(* A send takes a problem from the hands of a rank ...                     *)
LEMMA SendKeepsProblems ==
    ASSUME MovesOK, ProblemsOK, NEW r \in Ranks, Send(r)
    PROVE  ProblemsOK'
  <1>1. PICK p, g, x, t, R, s :
            /\ p = pc[r] /\ g = nglobal[r] /\ x = xfer[r] /\ t = tree[r] /\ R = ran[r]
            /\ s = xfer[r].peer
    OBVIOUS
  <1>2. PICK c, y : c = chan[<<r, s>>] /\ y = Advance(r)
    OBVIOUS
  <1>3. /\ Moving(r) /\ Sender(r) /\ conf' = conf /\ pc' = pc /\ nglobal' = nglobal
        /\ tree' = tree /\ ran' = ran /\ xfer' = [xfer EXCEPT ![r] = y]
    BY <1>2, Zenon DEF Send
  <1>4. PICK m : /\ m.at = <<Back(r), g, Slot(r)>>
                 /\ p = "down" => m.cell = t[Len(t)][x.pos]
                 /\ chan' = [chan EXCEPT ![<<r, s>>] = Append(c, m)]
    <2>1. PICK level : level = IF Back(r) THEN depth[r] ELSE Len(tree[r])
      OBVIOUS
    <2>2. PICK cell : cell = IF Part(r) = "result" THEN Cell(results[r][xfer[r].pos])
                             ELSE IF Back(r) THEN Occupant(r, level, xfer[r].pos)
                             ELSE tree[r][level][xfer[r].pos]
      OBVIOUS
    <2>3. PICK m : m = [part |-> Part(r), cell |-> cell, at |-> <<Back(r), nglobal[r], Slot(r)>>]
      OBVIOUS
    <2>4. chan' = [chan EXCEPT ![<<r, s>>] = Append(@, m)]
      BY <1>1, <2>1, <2>2, <2>3, Zenon DEF Send
    <2>5. chan' = [chan EXCEPT ![<<r, s>>] = Append(c, m)]
      BY <1>2, <2>4
    <2>6. p = "down" => cell = t[Len(t)][x.pos]
      <3> SUFFICES ASSUME p = "down" PROVE cell = t[Len(t)][x.pos]
        OBVIOUS
      <3>1. Part(r) = "input" /\ ~Back(r)
        BY <1>1, DownAdvances
      <3> QED BY <1>1, <2>1, <2>2, <3>1
    <2> QED BY <1>1, <2>3, <2>5, <2>6
  <1>5. s \in Ranks /\ s # r /\ p \in {"down", "up"} /\ x.pos < x.last
    <2>1. PICK k : k = KeyAt(r, pc[r], nglobal[r], xfer[r])
      OBVIOUS
    <2> QED BY <1>1, <1>3, <2>1, KeyCarried DEF Moving
  <1>6. PICK n \in Nat : n = Len(c) /\ \E M : c \in Seq(M)
    <2>1. FlowOK(c, r, s, PassedOf(r), PassedOf(s))
      BY <1>2, <1>5, Zenon DEF MovesOK
    <2>2. PICK M : c \in Seq(M)
      BY <2>1 DEF FlowOK
    <2> QED BY <2>2
  <1>7. PICK d : d = Append(c, m)
    OBVIOUS
  <1>8. Len(d) = n + 1 /\ d[n + 1] = m /\ \A i \in 1 .. n : d[i] = c[i]
    BY <1>6, <1>7
  <1>9. m.at[1] <=> p = "up"
    <2>1. Back(r) <=> p = "up"
      BY <1>1 DEF Back
    <2>2. m.at[1] = Back(r)
      BY <1>4
    <2> QED BY <2>1, <2>2
  <1>10. CellsOK(r, p, g, t, R) /\ MailOK(c)
    BY <1>1, <1>2, <1>5 DEF ProblemsOK
  <1>11. p = "down" => /\ x.pos \in Nat /\ x.pos \in 0 .. CellsOf(r, p, g) - 1
                       /\ \A i : i \in Owned(r, p, g, y, R) <=> i \in Owned(r, p, g, x, R) /\ i # x.pos
                       /\ x.pos \in Owned(r, p, g, x, R)
    <2> SUFFICES ASSUME p = "down"
                 PROVE  /\ x.pos \in Nat /\ x.pos \in 0 .. CellsOf(r, p, g) - 1
                        /\ \A i : i \in Owned(r, p, g, y, R)
                                     <=> i \in Owned(r, p, g, x, R) /\ i # x.pos
                        /\ x.pos \in Owned(r, p, g, x, R)
      OBVIOUS
    <2>1. PICK b \in Nat, e \in Nat :
              /\ b = HaveOf(r, g) /\ e = DueOf(r, g) /\ Surplus(r, g) = b - e
              /\ MostOf(r, g) = IF b <= e THEN e ELSE b
      BY <1>1, DownView
    <2>2. Surplus(r, g) > 0
      BY <1>1, <1>3 DEF Sender, Back
    <2>3. x.pos \in Nat /\ e <= x.pos /\ x.pos < b
      BY <1>1, <1>5, <2>1, <2>2, DownView
    <2>4. y.pos = x.pos + 1
      BY <1>1, <1>2, DownAdvances
    <2>5. /\ Owned(r, p, g, x, R) = (0 .. e - 1) \cup (x.pos .. b - 1)
          /\ Owned(r, p, g, y, R) = (0 .. e - 1) \cup (x.pos + 1 .. b - 1)
      BY <2>1, <2>2, <2>4 DEF Owned, Working
    <2>6. CellsOf(r, p, g) = b
      BY <2>1, <2>2 DEF CellsOf
    <2> QED BY <2>1, <2>3, <2>5, <2>6
  <1>12. p = "down" => m.cell.id \in Ids
    <2> SUFFICES ASSUME p = "down" PROVE m.cell.id \in Ids
      OBVIOUS
    <2>1. t[Len(t)][x.pos].id \in Ids
      BY <1>10, <1>11 DEF CellsOK, Working
    <2> QED BY <1>4, <2>1
  <1>13. MailOK(d)
    <2>1. ASSUME NEW i \in 1 .. Len(d), ~d[i].at[1] PROVE d[i].cell.id \in Ids
      <3>1. i \in 1 .. n \/ i = n + 1
        BY <1>6, <1>8
      <3>2. CASE i \in 1 .. n
        BY <1>6, <1>8, <1>10, <2>1, <3>2 DEF MailOK
      <3>3. CASE i = n + 1
        BY <1>5, <1>8, <1>9, <1>12, <2>1, <3>3
      <3> QED BY <3>1, <3>2, <3>3
    <2> QED BY <2>1 DEF MailOK
  <1>14. tree' = [tree EXCEPT ![r] = t] /\ chan' = [chan EXCEPT ![<<r, s>>] = d]
    BY <1>1, <1>3, <1>4, <1>7 DEF ProblemsOK
  <1>15. /\ tree' = [v \in Ranks |-> tree'[v]] /\ ran' = [v \in Ranks |-> ran'[v]]
         /\ \A v \in Ranks : CellsOK(v, pc[v], nglobal[v], tree[v], ran[v])'
         /\ \A v, w \in Ranks : MailOK(chan[<<v, w>>])'
         /\ \A path, i : There(r, r, i, path)' <=> Has(r, p, g, y, t, R, i, path)
         /\ \A path, i : There(r, s, i, path)' <=> Carries(d, i, path)
         /\ \A v, w \in Ranks : ~(v = r /\ w = r) /\ ~(v = r /\ w = s) =>
               \A path, i : There(v, w, i, path)' <=> There(v, w, i, path)
    <2>1. CellsOK(r, pc[r], nglobal[r], t, ran[r])
      BY <1>1, <1>10
    <2>2. /\ tree' = [v \in Ranks |-> tree'[v]] /\ ran' = [v \in Ranks |-> ran'[v]]
          /\ \A v \in Ranks : CellsOK(v, pc[v], nglobal[v], tree[v], ran[v])'
          /\ \A v, w \in Ranks : MailOK(chan[<<v, w>>])'
          /\ \A path, i : There(r, r, i, path)'
                             <=> Has(r, pc[r], nglobal[r], y, t, ran[r], i, path)
          /\ \A path, i : There(r, s, i, path)' <=> Carries(d, i, path)
          /\ \A v, w \in Ranks : ~(v = r /\ w = r) /\ ~(v = r /\ w = s) =>
                \A path, i : There(v, w, i, path)' <=> There(v, w, i, path)
      <3>1. OthersKeep(r, y, t, r, s, d)
        BY <1>3, <1>5, <1>13, <1>14, <2>1, OthersKept
      <3> QED BY <3>1 DEF OthersKeep
    <2> QED BY <1>1, <2>2, Zenon
  <1>16. ASSUME NEW path \in Paths PROVE One(path)'
    <2>1. ASSUME NEW i
          PROVE  There(r, r, i, path)' <=> There(r, r, i, path) /\ ~(p = "down" /\ i = x.pos)
      <3>1. There(r, r, i, path) <=> Has(r, p, g, x, t, R, i, path)
        BY <1>1 DEF There
      <3>2. CASE p = "down"
        BY <1>11, <1>15, <3>1, <3>2, Zenon DEF Has
      <3>3. CASE p = "up"
        <4>1. Has(r, p, g, y, t, R, i, path) <=> Has(r, p, g, x, t, R, i, path)
          BY <3>3 DEF Has, Owned, Working
        <4> QED BY <1>15, <3>1, <3>3, <4>1
      <3> QED BY <1>5, <3>2, <3>3
    <2>2. p = "down" => (There(r, r, x.pos, path) <=> On(m.cell.id, path))
      <3> SUFFICES ASSUME p = "down" PROVE There(r, r, x.pos, path) <=> On(m.cell.id, path)
        OBVIOUS
      <3>1. There(r, r, x.pos, path) <=> Has(r, p, g, x, t, R, x.pos, path)
        BY <1>1 DEF There
      <3>2. Has(r, p, g, x, t, R, x.pos, path) <=> On(t[Len(t)][x.pos].id, path)
        BY <1>11 DEF Has, ProblemAt, Working
      <3> QED BY <1>4, <3>1, <3>2
    <2>3. ASSUME NEW i
          PROVE  There(r, s, i, path)'
                    <=> There(r, s, i, path) \/ (i = n + 1 /\ p = "down" /\ On(m.cell.id, path))
      <3>1. There(r, s, i, path) <=> Carries(c, i, path)
        BY <1>2, <1>5 DEF There
      <3>2. Carries(d, i, path)
               <=> Carries(c, i, path) \/ (i = n + 1 /\ p = "down" /\ On(m.cell.id, path))
        <4>1. i \in 1 .. Len(d) <=> i \in 1 .. n \/ i = n + 1
          BY <1>6, <1>8
        <4>2. n + 1 \notin 1 .. n
          BY <1>6
        <4>3. CASE i \in 1 .. n
          BY <1>6, <1>8, <4>1, <4>2, <4>3 DEF Carries
        <4>4. CASE i = n + 1
          BY <1>5, <1>6, <1>8, <1>9, <4>1, <4>2, <4>4 DEF Carries
        <4>5. CASE ~(i \in 1 .. n) /\ i # n + 1
          BY <1>6, <4>1, <4>5 DEF Carries
        <4> QED BY <4>3, <4>4, <4>5
      <3> QED BY <1>15, <3>1, <3>2
    <2>4. \A v, w \in Ranks : ~(v = r /\ w = r) /\ ~(v = r /\ w = s) =>
             \A i : There(v, w, i, path)' <=> There(v, w, i, path)
      BY <1>15
    <2>5. One(path)
      BY DEF ProblemsOK
    <2>6. Ranks' = Ranks
      BY <1>3, PlanFrozen
    <2>7. \E v, w \in Ranks : \E i : There(v, w, i, path)'
      <3>0. PICK v \in Ranks, w \in Ranks : \E i : There(v, w, i, path)
        BY <2>5, Zenon DEF One
      <3>1. PICK i : There(v, w, i, path)
        BY <3>0
      <3>2. CASE v = r /\ w = r /\ p = "down" /\ i = x.pos
        BY <1>5, <2>2, <2>3, <3>1, <3>2
      <3>3. CASE v = r /\ w = r /\ ~(p = "down" /\ i = x.pos)
        BY <2>1, <3>1, <3>3
      <3>4. CASE v = r /\ w = s
        BY <1>5, <2>3, <3>1, <3>4
      <3>5. CASE ~(v = r /\ w = r) /\ ~(v = r /\ w = s)
        BY <2>4, <3>1, <3>5
      <3> QED BY <3>2, <3>3, <3>4, <3>5
    <2>8. ASSUME NEW v \in Ranks, NEW w \in Ranks, NEW i, There(v, w, i, path)'
          PROVE  IF v = r /\ w = s /\ ~There(r, s, i, path)
                 THEN i = n + 1 /\ p = "down" /\ There(r, r, x.pos, path)
                 ELSE There(v, w, i, path) /\ ~(v = r /\ w = r /\ p = "down" /\ i = x.pos)
      <3>1. CASE v = r /\ w = r
        BY <1>5, <2>1, <2>8, <3>1
      <3>2. CASE v = r /\ w = s
        BY <1>5, <2>2, <2>3, <2>8, <3>2
      <3>3. CASE ~(v = r /\ w = r) /\ ~(v = r /\ w = s)
        BY <2>4, <2>8, <3>3
      <3> QED BY <3>1, <3>2, <3>3
    <2>9. ASSUME NEW a \in Ranks, NEW b \in Ranks, NEW v \in Ranks, NEW w \in Ranks, NEW i, NEW j,
                 There(a, b, i, path)', There(v, w, j, path)'
          PROVE  a = v /\ b = w /\ i = j
      <3>1. \A e, f, k, l \in Ranks : \A z, o :
               There(e, f, z, path) /\ There(k, l, o, path) => e = k /\ f = l /\ z = o
        BY <2>5, Zenon DEF One
      <3>2. CASE p = "down" /\ There(r, r, x.pos, path)
        <4>1. \A e, f \in Ranks : \A z : There(e, f, z, path) => e = r /\ f = r /\ z = x.pos
          BY <3>1, <3>2, Zenon
        <4>2. a = r /\ b = s /\ i = n + 1
          BY <2>8, <2>9, <3>2, <4>1
        <4>3. v = r /\ w = s /\ j = n + 1
          BY <2>8, <2>9, <3>2, <4>1
        <4> QED BY <4>2, <4>3
      <3>3. CASE ~(p = "down" /\ There(r, r, x.pos, path))
        <4>1. There(a, b, i, path) /\ There(v, w, j, path)
          BY <2>8, <2>9, <3>3
        <4> QED BY <3>1, <4>1
      <3> QED BY <3>2, <3>3
    <2> QED BY <2>6, <2>7, <2>9 DEF One
  <1>17. Ranks' = Ranks /\ Paths' = Paths
    BY <1>3, PlanFrozen, HandsFrozen
  <1> QED BY <1>15, <1>16, <1>17 DEF ProblemsOK

(* ... and the receive puts it into those of another.                      *)
LEMMA RecvKeepsProblems ==
    ASSUME MovesOK, ProblemsOK, NEW r \in Ranks, Recv(r)
    PROVE  ProblemsOK'
  <1>1. PICK p, g, x, t, R, s :
            /\ p = pc[r] /\ g = nglobal[r] /\ x = xfer[r] /\ t = tree[r] /\ R = ran[r]
            /\ s = xfer[r].peer
    OBVIOUS
  <1>2. PICK c, y, m : c = chan[<<s, r>>] /\ y = Advance(r) /\ m = Head(c)
    OBVIOUS
  <1>3. /\ Moving(r) /\ ~Sender(r) /\ conf' = conf /\ pc' = pc /\ nglobal' = nglobal
        /\ ran' = ran /\ xfer' = [xfer EXCEPT ![r] = y]
        /\ c # <<>> /\ chan' = [chan EXCEPT ![<<s, r>>] = Tail(c)]
    BY <1>1, <1>2 DEF Recv
  <1>4. PICK k : k = KeyAt(r, pc[r], nglobal[r], xfer[r])
    OBVIOUS
  <1>5. s \in Ranks /\ s # r /\ p \in {"down", "up"} /\ x.pos < x.last
    BY <1>1, <1>3, <1>4, KeyCarried DEF Moving
  <1>6. m.part = Part(r) /\ m.at = <<Back(r), g, Slot(r)>>
    <2>1. Matches(m, k)
      BY <1>1, <1>2, <1>3, <1>4, FirstIsNext
    <2>2. /\ PartsOf(k.back)[k.part] = Part(r)
          /\ <<k.back, k.level, k.slot>> = <<Back(r), g, Slot(r)>>
      BY <1>1, <1>4, KeyLabel
    <2> QED BY <2>1, <2>2 DEF Matches
  <1>7. m.at[1] <=> p = "up"
    <2>1. Back(r) <=> p = "up"
      BY <1>1 DEF Back
    <2>2. m.at[1] = Back(r)
      BY <1>6
    <2> QED BY <2>1, <2>2
  <1>8. PICK n \in Nat : n = Len(c) /\ n # 0 /\ \E M : c \in Seq(M)
    <2>1. FlowOK(c, s, r, PassedOf(s), PassedOf(r))
      BY <1>2, <1>5, Zenon DEF MovesOK
    <2>2. PICK M : c \in Seq(M)
      BY <2>1 DEF FlowOK
    <2> QED BY <1>3, <2>2
  <1>9. PICK d : d = Tail(c)
    OBVIOUS
  <1>10. Len(d) = n - 1 /\ c[1] = m /\ \A i \in 1 .. n - 1 : d[i] = c[i + 1]
    BY <1>2, <1>3, <1>8, <1>9
  <1>11. CellsOK(r, p, g, t, R) /\ MailOK(c)
    BY <1>1, <1>2, <1>5 DEF ProblemsOK
  <1>12. p = "down" => /\ x.pos \in 0 .. CellsOf(r, p, g) - 1
                       /\ \A i : i \in Owned(r, p, g, y, R) <=> i \in Owned(r, p, g, x, R) \/ i = x.pos
                       /\ x.pos \notin Owned(r, p, g, x, R)
    <2> SUFFICES ASSUME p = "down"
                 PROVE  /\ x.pos \in 0 .. CellsOf(r, p, g) - 1
                        /\ \A i : i \in Owned(r, p, g, y, R)
                                     <=> i \in Owned(r, p, g, x, R) \/ i = x.pos
                        /\ x.pos \notin Owned(r, p, g, x, R)
      OBVIOUS
    <2>1. PICK b \in Nat, e \in Nat :
              /\ b = HaveOf(r, g) /\ e = DueOf(r, g) /\ Surplus(r, g) = b - e
              /\ MostOf(r, g) = IF b <= e THEN e ELSE b
      BY <1>1, DownView
    <2>2. Surplus(r, g) < 0
      <3>1. ~(Surplus(r, g) > 0)
        BY <1>1, <1>3 DEF Sender, Back
      <3>2. x.pos \in Nat /\ (Surplus(r, g) = 0 => x.pos = x.last)
        BY <1>1, DownView
      <3> QED BY <1>5, <2>1, <3>1, <3>2
    <2>3. x.pos \in Nat /\ b <= x.pos /\ x.pos < e
      BY <1>1, <1>5, <2>1, <2>2, DownView
    <2>4. y.pos = x.pos + 1
      BY <1>1, <1>2, DownAdvances
    <2>5. Owned(r, p, g, x, R) = 0 .. x.pos - 1 /\ Owned(r, p, g, y, R) = 0 .. (x.pos + 1) - 1
      BY <2>1, <2>2, <2>4 DEF Owned, Working
    <2>6. CellsOf(r, p, g) = e
      BY <2>1, <2>2 DEF CellsOf
    <2>7. PICK z \in Nat : z = x.pos /\ z < e
      BY <2>1, <2>3
    <2>8. z \in 0 .. e - 1 /\ z \notin 0 .. z - 1
      BY <2>7
    <2>9. \A i : i \in 0 .. (z + 1) - 1 <=> i \in 0 .. z - 1 \/ i = z
      BY <2>7
    <2> QED BY <2>5, <2>6, <2>7, <2>8, <2>9
  <1>13. 1 \in 1 .. Len(c)
    BY <1>8
  <1>14. p = "down" => m.cell.id \in Ids
    BY <1>7, <1>10, <1>11, <1>13 DEF MailOK
  <1>15. MailOK(d)
    <2>1. ASSUME NEW i \in 1 .. Len(d), ~d[i].at[1] PROVE d[i].cell.id \in Ids
      <3>1. i + 1 \in 1 .. Len(c) /\ d[i] = c[i + 1]
        BY <1>8, <1>10
      <3> QED BY <1>11, <2>1, <3>1 DEF MailOK
    <2> QED BY <2>1 DEF MailOK
  <1>16. PICK u :
            /\ tree' = [tree EXCEPT ![r] = u]
            /\ p = "down" => u = [t EXCEPT ![Len(t)] = [t[Len(t)] EXCEPT ![x.pos] = m.cell]]
    <2>1. PICK level, cell : /\ level = IF Back(r) THEN depth[r] ELSE Len(tree[r])
                             /\ cell = IF m.part = Part(r) THEN m.cell ELSE Cell(WRONG)
      OBVIOUS
    <2>2. cell = m.cell
      BY <1>6, <2>1
    <2>3. CASE Part(r) = "result"
      <3>1. tree' = tree
        BY <2>3 DEF Recv
      <3>2. tree' = [tree EXCEPT ![r] = t]
        BY <1>1, <3>1 DEF ProblemsOK
      <3>3. p # "down"
        BY <1>1, <2>3, DownAdvances
      <3> QED BY <3>2, <3>3
    <2>4. CASE Part(r) # "result"
      <3>1. tree' = [tree EXCEPT ![r][level][x.pos] = IF @.id = HOLE THEN Cell(WRONG) ELSE cell]
        BY <1>1, <1>2, <2>1, <2>4, Zenon DEF Recv
      <3>2. PICK u : u = [t EXCEPT ![level][x.pos] = IF @.id = HOLE THEN Cell(WRONG) ELSE cell]
        OBVIOUS
      <3>3. tree' = [tree EXCEPT ![r] = u]
        BY <1>1, <3>1, <3>2
      <3>4. ASSUME p = "down"
            PROVE  u = [t EXCEPT ![Len(t)] = [t[Len(t)] EXCEPT ![x.pos] = m.cell]]
        <4>1. level = Len(t)
          BY <1>1, <2>1, <3>4, DownAdvances
        <4>2. t[level][x.pos].id \in Ids
          BY <1>11, <1>12, <3>4, <4>1 DEF CellsOK, Working
        <4>3. HOLE \notin Ids
          BY BlankIsNone DEF MovesOK
        <4>4. t[level][x.pos].id # HOLE
          BY <4>2, <4>3
        <4>5. u = [t EXCEPT ![level] = [t[level] EXCEPT ![x.pos] =
                      IF t[level][x.pos].id = HOLE THEN Cell(WRONG) ELSE cell]]
          BY <3>2
        <4> QED BY <2>2, <4>1, <4>4, <4>5
      <3> QED BY <3>3, <3>4
    <2> QED BY <2>3, <2>4
  <1>17. p = "down" => /\ u # <<>> /\ Len(u) = Len(t)
                       /\ \E M : u \in Seq(M)
                       /\ u[Len(u)] = [t[Len(t)] EXCEPT ![x.pos] = m.cell]
                       /\ x.pos \in DOMAIN t[Len(t)]
    <2> SUFFICES ASSUME p = "down"
                 PROVE  /\ u # <<>> /\ Len(u) = Len(t)
                        /\ \E M : u \in Seq(M)
                        /\ u[Len(u)] = [t[Len(t)] EXCEPT ![x.pos] = m.cell]
                        /\ x.pos \in DOMAIN t[Len(t)]
      OBVIOUS
    <2>1. PICK M : t \in Seq(M)
      BY <1>11 DEF CellsOK, Working
    <2>2. t # <<>> /\ x.pos \in DOMAIN t[Len(t)]
      BY <1>11, <1>12 DEF CellsOK, Working
    <2>3. PICK lv : lv = [t[Len(t)] EXCEPT ![x.pos] = m.cell]
      OBVIOUS
    <2>4. t \in Seq(M \cup {lv}) /\ lv \in M \cup {lv} /\ Len(t) \in 1 .. Len(t)
      BY <2>1, <2>2
    <2>5. u = [t EXCEPT ![Len(t)] = lv]
      BY <1>16, <2>3
    <2>6. u \in Seq(M \cup {lv}) /\ Len(u) = Len(t) /\ u[Len(t)] = lv
      BY <2>4, <2>5, ExceptSeq
    <2>7. u # <<>>
      BY <2>4, <2>6
    <2> QED BY <2>2, <2>3, <2>6, <2>7
  <1>18. p = "down" => /\ DOMAIN u[Len(u)] = DOMAIN t[Len(t)]
                       /\ u[Len(u)][x.pos] = m.cell
                       /\ \A i \in DOMAIN t[Len(t)] : i # x.pos => u[Len(u)][i] = t[Len(t)][i]
    BY <1>17
  <1>19. CellsOK(r, p, g, u, R)
    <2>1. CASE p = "down"
      <3>1. \A i \in 0 .. CellsOf(r, p, g) - 1 : i \in DOMAIN t[Len(t)] /\ t[Len(t)][i].id \in Ids
        BY <1>11, <2>1 DEF CellsOK, Working
      <3>2. \A i \in 0 .. CellsOf(r, p, g) - 1 : /\ u # <<>>
                                                /\ i \in DOMAIN u[Len(u)]
                                                /\ u[Len(u)][i].id \in Ids
        BY <1>14, <1>17, <1>18, <2>1, <3>1
      <3> QED BY <1>17, <2>1, <3>2 DEF CellsOK, Working
    <2>2. CASE p = "up"
      BY <1>11, <2>2 DEF CellsOK, Working
    <2> QED BY <1>5, <2>1, <2>2
  <1>20. /\ tree' = [v \in Ranks |-> tree'[v]] /\ ran' = [v \in Ranks |-> ran'[v]]
         /\ \A v \in Ranks : CellsOK(v, pc[v], nglobal[v], tree[v], ran[v])'
         /\ \A v, w \in Ranks : MailOK(chan[<<v, w>>])'
         /\ \A path, i : There(r, r, i, path)' <=> Has(r, p, g, y, u, R, i, path)
         /\ \A path, i : There(s, r, i, path)' <=> Carries(d, i, path)
         /\ \A v, w \in Ranks : ~(v = r /\ w = r) /\ ~(v = s /\ w = r) =>
               \A path, i : There(v, w, i, path)' <=> There(v, w, i, path)
    <2>0. /\ conf' = conf /\ pc' = pc /\ nglobal' = nglobal /\ ran' = ran
          /\ xfer' = [xfer EXCEPT ![r] = y] /\ tree' = [tree EXCEPT ![r] = u]
          /\ s \in Ranks /\ s # r
      BY <1>3, <1>5, <1>16
    <2>1. CellsOK(r, pc[r], nglobal[r], u, ran[r]) /\ chan' = [chan EXCEPT ![<<s, r>>] = d]
      BY <1>1, <1>3, <1>9, <1>19
    <2>2. /\ tree' = [v \in Ranks |-> tree'[v]] /\ ran' = [v \in Ranks |-> ran'[v]]
          /\ \A v \in Ranks : CellsOK(v, pc[v], nglobal[v], tree[v], ran[v])'
          /\ \A v, w \in Ranks : MailOK(chan[<<v, w>>])'
          /\ \A path, i : There(r, r, i, path)'
                             <=> Has(r, pc[r], nglobal[r], y, u, ran[r], i, path)
          /\ \A path, i : There(s, r, i, path)' <=> Carries(d, i, path)
          /\ \A v, w \in Ranks : ~(v = r /\ w = r) /\ ~(v = s /\ w = r) =>
                \A path, i : There(v, w, i, path)' <=> There(v, w, i, path)
      <3>1. OthersKeep(r, y, u, s, r, d)
        BY <1>15, <2>0, <2>1, OthersKept
      <3> QED BY <3>1 DEF OthersKeep
    <2> QED BY <1>1, <2>2, Zenon
  <1>21. ASSUME NEW path \in Paths PROVE One(path)'
    <2>0. PICK came : came = (p = "down" /\ On(m.cell.id, path))
      OBVIOUS
    <2>1. ASSUME NEW i
          PROVE  There(r, r, i, path)' <=> There(r, r, i, path) \/ (i = x.pos /\ came)
      <3>1. There(r, r, i, path) <=> Has(r, p, g, x, t, R, i, path)
        BY <1>1 DEF There
      <3>2. CASE p = "down"
        <4>1. i \in Owned(r, p, g, x, R) => i \in DOMAIN t[Len(t)]
          <5>1. Owned(r, p, g, x, R) \subseteq 0 .. CellsOf(r, p, g) - 1
            BY <1>12, <3>2, OwnedAreCells, <1>1
          <5> QED BY <1>11, <3>2, <5>1 DEF CellsOK, Working
        <4>2. i \in Owned(r, p, g, x, R) => u[Len(u)][i] = t[Len(t)][i]
          BY <1>12, <1>18, <3>2, <4>1
        <4>3. Has(r, p, g, y, u, R, i, path)
                 <=> i \in Owned(r, p, g, y, R) /\ On(u[Len(u)][i].id, path)
          BY <3>2 DEF Has, ProblemAt, Working
        <4>4. Has(r, p, g, x, t, R, i, path)
                 <=> i \in Owned(r, p, g, x, R) /\ On(t[Len(t)][i].id, path)
          BY <3>2 DEF Has, ProblemAt, Working
        <4> QED BY <1>12, <1>18, <1>20, <2>0, <3>1, <3>2, <4>2, <4>3, <4>4
      <3>3. CASE p = "up"
        <4>1. Has(r, p, g, y, u, R, i, path) <=> Has(r, p, g, x, t, R, i, path)
          BY <3>3 DEF Has, Owned, ProblemAt, Working
        <4> QED BY <1>20, <2>0, <3>1, <3>3, <4>1
      <3> QED BY <1>5, <3>2, <3>3
    <2>2. There(s, r, 1, path) <=> came
      <3>1. There(s, r, 1, path) <=> Carries(c, 1, path)
        BY <1>2, <1>5 DEF There
      <3>2. Carries(c, 1, path) <=> came
        BY <1>5, <1>7, <1>10, <1>13, <2>0 DEF Carries
      <3> QED BY <3>1, <3>2
    <2>3. ASSUME NEW i
          PROVE  There(s, r, i, path)' <=> i \in 1 .. n - 1 /\ There(s, r, i + 1, path)
      <3>1. There(s, r, i + 1, path) <=> Carries(c, i + 1, path)
        BY <1>2, <1>5 DEF There
      <3>2. Carries(d, i, path) <=> i \in 1 .. n - 1 /\ Carries(c, i + 1, path)
        <4>1. i \in 1 .. n - 1 => i + 1 \in 1 .. n
          BY <1>8
        <4> QED BY <1>8, <1>10, <4>1 DEF Carries
      <3> QED BY <1>20, <3>1, <3>2
    <2>4. \A v, w \in Ranks : ~(v = r /\ w = r) /\ ~(v = s /\ w = r) =>
             \A i : There(v, w, i, path)' <=> There(v, w, i, path)
      BY <1>20
    <2>5. \A e, f, o, l \in Ranks : \A i, j :
             There(e, f, i, path) /\ There(o, l, j, path) => e = o /\ f = l /\ i = j
      BY Zenon DEF ProblemsOK, One
    <2>6. Ranks' = Ranks
      BY <1>3, PlanFrozen
    <2>7. \E v, w \in Ranks : \E i : There(v, w, i, path)'
      <3>0. PICK v \in Ranks, w \in Ranks : \E i : There(v, w, i, path)
        BY Zenon DEF ProblemsOK, One
      <3>1. PICK i : There(v, w, i, path)
        BY <3>0
      <3>2. CASE v = s /\ w = r /\ i = 1
        BY <2>1, <2>2, <3>1, <3>2
      <3>3. CASE v = s /\ w = r /\ i # 1
        <4>1. i \in 1 .. n
          BY <1>2, <1>5, <1>8, <3>1, <3>3 DEF There, Carries
        <4>2. i - 1 \in 1 .. n - 1 /\ (i - 1) + 1 = i
          BY <1>8, <3>3, <4>1
        <4>3. There(s, r, i - 1, path)'
          BY <2>3, <3>1, <3>3, <4>2
        <4> QED BY <1>5, <4>3
      <3>4. CASE v = r /\ w = r
        BY <2>1, <3>1, <3>4
      <3>5. CASE ~(v = r /\ w = r) /\ ~(v = s /\ w = r)
        BY <2>4, <3>1, <3>5
      <3> QED BY <3>2, <3>3, <3>4, <3>5
    <2>8. ASSUME NEW v \in Ranks, NEW w \in Ranks, NEW i, There(v, w, i, path)'
          PROVE  \/ v = r /\ w = r /\ i = x.pos /\ came
                 \/ v = s /\ w = r /\ i \in 1 .. n - 1 /\ There(s, r, i + 1, path)
                 \/ ~(v = s /\ w = r) /\ There(v, w, i, path)
      <3>1. CASE v = r /\ w = r
        BY <1>5, <2>1, <2>8, <3>1
      <3>2. CASE v = s /\ w = r
        BY <2>3, <2>8, <3>2
      <3>3. CASE ~(v = r /\ w = r) /\ ~(v = s /\ w = r)
        BY <2>4, <2>8, <3>3
      <3> QED BY <3>1, <3>2, <3>3
    <2>9. ASSUME NEW a \in Ranks, NEW b \in Ranks, NEW v \in Ranks, NEW w \in Ranks, NEW i, NEW j,
                 There(a, b, i, path)', There(v, w, j, path)'
          PROVE  a = v /\ b = w /\ i = j
      <3>1. CASE came
        <4>1. \A e, f \in Ranks : \A z : There(e, f, z, path) => e = s /\ f = r /\ z = 1
          BY <1>5, <2>2, <2>5, <3>1, Zenon
        <4>2. \A z \in 1 .. n - 1 : z + 1 # 1
          BY <1>8
        <4>3. a = r /\ b = r /\ i = x.pos
          BY <1>5, <2>8, <2>9, <4>1, <4>2
        <4>4. v = r /\ w = r /\ j = x.pos
          BY <1>5, <2>8, <2>9, <4>1, <4>2
        <4> QED BY <4>3, <4>4
      <3>2. CASE ~came
        <4>1. \/ a = s /\ b = r /\ i \in 1 .. n - 1 /\ There(s, r, i + 1, path)
              \/ ~(a = s /\ b = r) /\ There(a, b, i, path)
          BY <2>8, <2>9, <3>2
        <4>2. \/ v = s /\ w = r /\ j \in 1 .. n - 1 /\ There(s, r, j + 1, path)
              \/ ~(v = s /\ w = r) /\ There(v, w, j, path)
          BY <2>8, <2>9, <3>2
        <4>3. CASE a = s /\ b = r
          <5>1. i \in 1 .. n - 1 /\ There(s, r, i + 1, path)
            BY <4>1, <4>3
          <5>2. v = s /\ w = r
            BY <1>5, <2>5, <4>2, <5>1
          <5>3. j \in 1 .. n - 1 /\ There(s, r, j + 1, path)
            BY <4>2, <5>2
          <5>4. i + 1 = j + 1
            BY <1>5, <2>5, <5>1, <5>3
          <5> QED BY <1>8, <4>3, <5>1, <5>2, <5>3, <5>4
        <4>4. CASE ~(a = s /\ b = r)
          <5>1. There(a, b, i, path)
            BY <4>1, <4>4
          <5>2. ~(v = s /\ w = r)
            BY <1>5, <2>5, <4>2, <4>4, <5>1
          <5>3. There(v, w, j, path)
            BY <4>2, <5>2
          <5> QED BY <2>5, <5>1, <5>3
        <4> QED BY <4>3, <4>4
      <3> QED BY <3>1, <3>2
    <2> QED BY <2>6, <2>7, <2>9 DEF One
  <1>22. Ranks' = Ranks /\ Paths' = Paths
    BY <1>3, PlanFrozen, HandsFrozen
  <1> QED BY <1>20, <1>21, <1>22 DEF ProblemsOK

(* In the beginning rank 0 has the root problem and nobody else has any.   *)
LEMMA RootShare ==
    ASSUME conf \in Cases, NEW r \in Ranks
    PROVE  DueOf(r, 1) = IF r = 0 THEN 1 ELSE 0
  <1>1. PICK p \in Nat \ {0} : p = P /\ 2 <= p /\ r \in 0 .. p - 1
    BY CallIs DEF Ranks
  <1>2. 1 \div p = 0 /\ 1 % p = 1
    <2>1. PICK q \in Nat, e \in Nat : q = 1 \div p /\ e = 1 % p /\ 1 = p * q + e
      BY <1>1, DivMod
    <2>2. q = 0
      <3>1. SUFFICES ASSUME 1 <= q PROVE FALSE
        BY <2>1
      <3>2. p * 1 <= p * q
        BY <1>1, <2>1, <3>1
      <3> QED BY <1>1, <2>1, <3>2
    <2>3. p * 0 = 0
      BY <1>1
    <2> QED BY <2>1, <2>2, <2>3
  <1> QED BY <1>1, <1>2 DEF DueOf, Due, NLocal

LEMMA ProblemsInit == Init => ProblemsOK
  <1> SUFFICES ASSUME Init PROVE ProblemsOK
    OBVIOUS
  <1>1. conf \in Cases /\ 0 \in Ranks
    BY CallIs DEF Init, Ranks
  <1>2. PICK root : root = [i \in {0} |-> Cell(<<>>)]
    OBVIOUS
  <1>3. /\ \A r \in Ranks : /\ pc[r] = "split" /\ nglobal[r] = 1 /\ ran[r] = <<>>
                            /\ tree[r] = IF r = 0 THEN <<root>> ELSE <<>>
        /\ tree = [r \in Ranks |-> tree[r]] /\ ran = [r \in Ranks |-> ran[r]]
    BY <1>2 DEF Init
  <1>4. root[0].id = <<>> /\ DOMAIN root = {0}
    BY <1>2 DEF Cell
  <1>5. <<>> \in Ids /\ <<>> # BLANK
    BY DEF Ids, BLANK
  <1>6. ASSUME NEW r \in Ranks
        PROVE  CellsOK(r, pc[r], nglobal[r], tree[r], ran[r])
    <2>1. CellsOf(r, "split", 1) = IF r = 0 THEN 1 ELSE 0
      BY <1>1, RootShare DEF CellsOf
    <2>2. CASE r = 0
      <3>1. /\ <<root>> # <<>> /\ <<root>>[Len(<<root>>)] = root
            /\ \E M : <<root>> \in Seq(M)
        <4>1. PICK M : M = {root}
          OBVIOUS
        <4>2. <<root>> \in Seq(M)
          BY <4>1
        <4>3. Len(<<root>>) = 1 /\ <<root>>[1] = root
          OBVIOUS
        <4> QED BY <4>2, <4>3
      <3>2. \A i \in 0 .. 1 - 1 : i = 0
        OBVIOUS
      <3>3. tree[r] = <<root>> /\ pc[r] = "split" /\ nglobal[r] = 1
        BY <1>3, <2>2
      <3>4. \A i \in 0 .. 1 - 1 : i \in DOMAIN root /\ root[i].id \in Ids
        BY <1>4, <1>5, <3>2
      <3> QED BY <2>1, <2>2, <3>1, <3>3, <3>4 DEF CellsOK, Working
    <2>3. CASE r # 0
      <3>1. <<>> \in Seq({}) /\ 0 .. 0 - 1 = {}
        OBVIOUS
      <3> QED BY <1>3, <2>1, <2>3, <3>1 DEF CellsOK, Working
    <2> QED BY <2>2, <2>3
  <1>7. ASSUME NEW s \in Ranks, NEW t \in Ranks
        PROVE  chan[<<s, t>>] = <<>>
    <2>1. PICK e : e = <<s, t>>
      OBVIOUS
    <2>2. e \in Ranks \X Ranks
      BY <2>1
    <2>3. chan[e] = <<>>
      BY <2>2 DEF Init
    <2> QED BY <2>1, <2>3
  <1>8. \A s, t \in Ranks : MailOK(chan[<<s, t>>])
    BY <1>7 DEF MailOK
  <1>9. ASSUME NEW path \in Paths PROVE One(path)
    <2>1. On(<<>>, path)
      BY <1>5 DEF On
    <2>2. ASSUME NEW s \in Ranks, NEW t \in Ranks, NEW i
          PROVE  There(s, t, i, path) <=> s = 0 /\ t = 0 /\ i = 0
      <3>1. CASE s # t
        BY <1>7, <3>1 DEF There, Carries
      <3>2. CASE s = t
        <4>1. There(s, t, i, path) <=> Has(s, "split", 1, xfer[s], tree[s], ran[s], i, path)
          BY <1>3, <3>2 DEF There
        <4>2. Owned(s, "split", 1, xfer[s], ran[s]) = 0 .. (IF s = 0 THEN 1 ELSE 0) - 1
          BY <1>1, RootShare DEF Owned, Working
        <4>3. CASE s = 0
          <5>1. Owned(s, "split", 1, xfer[s], ran[s]) = {0}
            BY <4>2, <4>3
          <5>2. ProblemAt("split", tree[s], ran[s], 0) = <<>>
            BY <1>3, <1>4, <4>3 DEF ProblemAt, Working
          <5> QED BY <2>1, <3>2, <4>1, <4>3, <5>1, <5>2 DEF Has
        <4>4. CASE s # 0
          <5>1. Owned(s, "split", 1, xfer[s], ran[s]) = {}
            BY <4>2, <4>4
          <5> QED BY <4>1, <4>4, <5>1 DEF Has
        <4> QED BY <4>3, <4>4
      <3> QED BY <3>1, <3>2
    <2> QED BY <1>1, <2>2 DEF One
  <1> QED BY <1>3, <1>6, <1>8, <1>9 DEF ProblemsOK

LEMMA ProblemsStep == MovesOK /\ ProblemsOK /\ [Next]_vars => ProblemsOK'
  <1> SUFFICES ASSUME MovesOK, ProblemsOK, [Next]_vars PROVE ProblemsOK'
    OBVIOUS
  <1>0. /\ pc = [t \in Ranks |-> pc[t]] /\ nglobal = [t \in Ranks |-> nglobal[t]]
        /\ xfer = [t \in Ranks |-> xfer[t]] /\ tree = [t \in Ranks |-> tree[t]]
    BY DEF MovesOK, ProblemsOK
  <1>1. ASSUME NEW r \in Ranks, Step(r) PROVE ProblemsOK'
    <2>0. PICK g, x, t : g = nglobal[r] /\ x = xfer[r] /\ t = tree[r]
      OBVIOUS
    <2>1. /\ nglobal = [nglobal EXCEPT ![r] = g] /\ xfer = [xfer EXCEPT ![r] = x]
          /\ tree = [tree EXCEPT ![r] = t]
      BY <1>0, <2>0
    <2>2. CASE Gather(r)
      <3>1. PICK y : y = StartXfer(r, g)
        OBVIOUS
      <3>2. /\ conf' = conf /\ chan' = chan /\ ran' = ran /\ pc[r] = "gather"
            /\ pc' = [pc EXCEPT ![r] = "up"] /\ nglobal' = nglobal
            /\ xfer' = [xfer EXCEPT ![r] = y] /\ tree' = tree
        BY <2>0, <2>2, <3>1, Zenon DEF Gather
      <3>3. ~Working(pc[r]) /\ ~Working("up")
        BY <3>2 DEF Working
      <3>4. nglobal' = [nglobal EXCEPT ![r] = g] /\ tree' = [tree EXCEPT ![r] = t]
        BY <2>1, <3>2
      <3> QED BY <3>2, <3>3, <3>4, BackKeeps
    <2>3. CASE Reduce(r)
      <3>1. PICK h, n, up : /\ h = g \div N /\ n = NLocal(r, h, P) /\ up = DepthAbove(r, n)
        OBVIOUS
      <3>2. /\ conf' = conf /\ chan' = chan /\ ran' = ran /\ pc[r] = "up"
            /\ pc' = [pc EXCEPT ![r] = "gather"] /\ nglobal' = [nglobal EXCEPT ![r] = h]
            /\ xfer' = xfer
        BY <2>0, <2>3, <3>1, Zenon DEF Reduce
      <3>3. ~Working(pc[r]) /\ ~Working("gather")
        BY <3>2 DEF Working
      <3>4. PICK u : tree' = [tree EXCEPT ![r] = u]
        <4>1. \/ tree' = tree
              \/ \E b : tree' = [tree EXCEPT ![r][up] = b]
          BY <2>0, <2>3, <3>1, Zenon DEF Reduce
        <4>2. CASE tree' = tree
          BY <2>1, <4>2
        <4>3. ASSUME NEW b, tree' = [tree EXCEPT ![r][up] = b]
              PROVE  \E u : tree' = [tree EXCEPT ![r] = u]
          <5>1. PICK u : u = [tree[r] EXCEPT ![up] = b]
            OBVIOUS
          <5>2. tree' = [tree EXCEPT ![r] = u]
            BY <4>3, <5>1
          <5> QED BY <5>2
        <4> QED BY <4>1, <4>2, <4>3
      <3>5. xfer' = [xfer EXCEPT ![r] = x]
        BY <2>1, <3>2
      <3> QED BY <3>2, <3>3, <3>4, <3>5, BackKeeps
    <2>4. CASE Finish(r)
      <3>1. /\ conf' = conf /\ chan' = chan /\ ran' = ran /\ pc[r] = "gather"
            /\ pc' = [pc EXCEPT ![r] = "done"] /\ nglobal' = nglobal /\ xfer' = xfer /\ tree' = tree
        BY <2>4, Zenon DEF Finish
      <3>2. ~Working(pc[r]) /\ ~Working("done")
        BY <3>1 DEF Working
      <3>3. /\ nglobal' = [nglobal EXCEPT ![r] = g] /\ xfer' = [xfer EXCEPT ![r] = x]
            /\ tree' = [tree EXCEPT ![r] = t]
        BY <2>1, <3>1
      <3> QED BY <3>1, <3>2, <3>3, BackKeeps
    <2> QED BY <1>1, <2>2, <2>3, <2>4, SplitKeeps, SendKeepsProblems, RecvKeepsProblems,
               CommitKeeps, RunKeeps DEF Step
  <1>2. CASE UNCHANGED vars
    <2>0. /\ conf' = conf /\ pc' = pc /\ nglobal' = nglobal /\ xfer' = xfer /\ tree' = tree
          /\ ran' = ran /\ chan' = chan
      BY <1>2 DEF vars
    <2>1. Ranks' = Ranks /\ Paths' = Paths
      BY <2>0, PlanFrozen, HandsFrozen
    <2>2. ASSUME NEW r \in Ranks PROVE CellsOK(r, pc[r], nglobal[r], tree[r], ran[r])'
      <3>1. PICK p, g, t, R : p = pc[r] /\ g = nglobal[r] /\ t = tree[r] /\ R = ran[r]
        OBVIOUS
      <3>2. CellsOK(r, p, g, t, R)
        BY <3>1 DEF ProblemsOK
      <3>3. CellsOK(r, p, g, t, R)'
        BY <2>0, <3>2, HandsFrozen
      <3>4. pc'[r] = p /\ nglobal'[r] = g /\ tree'[r] = t /\ ran'[r] = R
        BY <2>0, <3>1
      <3> QED BY <3>3, <3>4
    <2>3. ASSUME NEW s \in Ranks, NEW t \in Ranks PROVE MailOK(chan[<<s, t>>])'
      <3>1. PICK c : c = chan[<<s, t>>] /\ chan'[<<s, t>>] = c
        BY <2>0
      <3>2. MailOK(c)'
        BY <2>0, <3>1, HandsFrozen DEF ProblemsOK
      <3> QED BY <3>1, <3>2
    <2>4. ASSUME NEW path \in Paths PROVE One(path)'
      <3>1. ASSUME NEW s, NEW t, NEW i PROVE There(s, t, i, path)' <=> There(s, t, i, path)
        <4>1. PICK p, g, x, v, R : /\ p = pc[s] /\ g = nglobal[s] /\ x = xfer[s]
                                   /\ v = tree[s] /\ R = ran[s]
          OBVIOUS
        <4>2. PICK c : c = chan[<<s, t>>]
          OBVIOUS
        <4>3. Has(s, p, g, x, v, R, i, path)' <=> Has(s, p, g, x, v, R, i, path)
          BY <2>0, HandsFrozen
        <4>4. Carries(c, i, path)' <=> Carries(c, i, path)
          BY DEF Carries, On
        <4>5. /\ pc'[s] = p /\ nglobal'[s] = g /\ xfer'[s] = x /\ tree'[s] = v /\ ran'[s] = R
              /\ chan'[<<s, t>>] = c
          BY <2>0, <4>1, <4>2
        <4> QED BY <4>1, <4>2, <4>3, <4>4, <4>5 DEF There
      <3>2. One(path)
        BY DEF ProblemsOK
      <3> QED BY <2>1, <3>1, <3>2 DEF One
    <2>5. tree' = [v \in Ranks |-> tree'[v]] /\ ran' = [v \in Ranks |-> ran'[v]]
      BY <2>0 DEF ProblemsOK
    <2> QED BY <2>1, <2>2, <2>3, <2>4, <2>5 DEF ProblemsOK
  <1> QED BY <1>1, <1>2 DEF Next, Terminated

(* What a function makes of a finite set is finite.                        *)
LEMMA FiniteImage ==
    ASSUME NEW S, IsFiniteSet(S), NEW f
    PROVE  IsFiniteSet({f[x] : x \in S})
  <1>1. PICK T : T = {f[x] : x \in S}
    OBVIOUS
  <1>2. [x \in S |-> f[x]] \in Surjection(S, T)
    BY <1>1 DEF Surjection
  <1> QED BY <1>1, <1>2, FS_Surjection

(* Finitely many numbers have a bound, and so a largest one ...            *)
LEMMA FiniteIsBounded ==
    ASSUME NEW W, IsFiniteSet(W), \A y \in W : y \in Nat
    PROVE  \E b \in Nat : \A y \in W : y <= b
  <1> DEFINE F == {s \in SUBSET W : ~ \E b \in Nat : \A y \in s : y <= b}
  <1> SUFFICES ASSUME F # {} PROVE FALSE
    BY Zenon
  <1>1. F \in SUBSET SUBSET W
    OBVIOUS
  <1> HIDE DEF F
  <1>2. PICK m \in F : \A s \in F : s \subseteq m => s = m
    BY <1>1, SmallestSet
  <1>3. m \in SUBSET W /\ ~ \E b \in Nat : \A y \in m : y <= b
    BY DEF F
  <1>4. m # {}
    <2>1. 0 \in Nat /\ \A y \in {} : y <= 0
      OBVIOUS
    <2> QED BY <1>3, <2>1
  <1>5. PICK x \in m : TRUE
    BY <1>4
  <1>6. m \ {x} \in SUBSET W /\ m \ {x} \subseteq m /\ m \ {x} # m
    BY <1>3, <1>5
  <1>7. m \ {x} \notin F
    BY <1>2, <1>6
  <1>8. PICK b \in Nat : \A y \in m \ {x} : y <= b
    BY <1>6, <1>7, Zenon DEF F
  <1>9. PICK d \in Nat : b <= d /\ x <= d
    <2>1. x \in Nat
      BY <1>3
    <2> QED BY <2>1
  <1>10. \A y \in m : y <= d
    <2>1. \A y \in m : y \in Nat
      BY <1>3
    <2> QED BY <1>8, <1>9, <2>1
  <1> QED BY <1>3, <1>10

(* ... which is what Max gives.                                            *)
LEMMA MaxIs ==
    ASSUME NEW S \in SUBSET Nat, IsFiniteSet(S), S # {}
    PROVE  Max(S) \in S /\ \A y \in S : y <= Max(S)
  <1>1. PICK a \in Nat : \A y \in S : y <= a
    BY FiniteIsBounded
  <1>2. PICK U : U = {b \in Nat : \A y \in S : y <= b}
    OBVIOUS
  <1>3. U \in SUBSET Nat /\ U # {}
    BY <1>1, <1>2
  <1>4. PICK u \in U : \A b \in U : u <= b
    BY <1>3, SmallestNumber
  <1>5. u \in Nat /\ \A y \in S : y <= u
    BY <1>2
  <1>6. u \in S
    <2> SUFFICES ASSUME u \notin S PROVE FALSE
      OBVIOUS
    <2>1. PICK x \in S : TRUE
      OBVIOUS
    <2>2. \A y \in S : y \in Nat /\ y < u
      BY <1>5
    <2>3. u - 1 \in Nat /\ \A y \in S : y <= u - 1
      BY <1>5, <2>1, <2>2
    <2>4. u - 1 \in U
      BY <1>2, <2>3
    <2> QED BY <1>4, <1>5, <2>4
  <1>7. \E x \in S : \A y \in S : x >= y
    BY <1>5, <1>6
  <1>8. Max(S) \in S /\ \A y \in S : Max(S) >= y
    BY <1>7 DEF Max
  <1>9. Max(S) \in Nat
    BY <1>8
  <1> QED BY <1>8, <1>9

(* The positions of problems with s = t in the hands of s, or on their way *)
(* down from s to t, and the problem at one of them.                       *)
IndicesOf(s, t) ==
    IF s = t THEN Owned(s, pc[s], nglobal[s], xfer[s], ran[s])
    ELSE {j \in 1 .. Len(chan[<<s, t>>]) : ~chan[<<s, t>>][j].at[1]}

IdAt(s, t, i) == IF s = t THEN ProblemAt(pc[s], tree[s], ran[s], i) ELSE chan[<<s, t>>][i].cell.id

LEMMA ThereIs ==
    ASSUME NEW s, NEW t, NEW i, NEW path
    PROVE  There(s, t, i, path) <=> i \in IndicesOf(s, t) /\ On(IdAt(s, t, i), path)
  <1>1. CASE s = t
    BY <1>1 DEF There, Has, IndicesOf, IdAt
  <1>2. CASE s # t
    BY <1>2 DEF There, Carries, IndicesOf, IdAt
  <1> QED BY <1>1, <1>2

(* Nobody sends to itself.                                                 *)
LEMMA NoneToItself ==
    ASSUME MovesOK, NEW r \in Ranks
    PROVE  chan[<<r, r>>] = <<>>
  <1>1. PICK c, A : c = chan[<<r, r>>] /\ A = PassedOf(r)
    OBVIOUS
  <1>2. FlowOK(c, r, r, A, A)
    BY <1>1 DEF MovesOK
  <1>3. PICK M : c \in Seq(M)
    BY <1>2 DEF FlowOK
  <1>4. (Carried(r, r) \cap A) \ A = {}
    OBVIOUS
  <1>5. PICK K : Lists(K, Len(c), {})
    BY <1>2, <1>4, Zenon DEF FlowOK
  <1>6. \A i \in 1 .. Len(c) : FALSE
    BY <1>5 DEF Lists
  <1>7. Len(c) \in Nat /\ (Len(c) >= 1 => 1 \in 1 .. Len(c))
    BY <1>3
  <1>8. Len(c) = 0
    BY <1>6, <1>7
  <1> QED BY <1>1, <1>3, <1>8

(* The places are these positions.                                         *)
LEMMA PlacesAre ==
    ASSUME MovesOK, ProblemsOK, NEW h
    PROVE  h \in Places <=> \E s, t \in Ranks : \E i \in IndicesOf(s, t) : h = <<s, t, i, IdAt(s, t, i)>>
  <1>1. ASSUME NEW r \in Ranks
        PROVE  Held(r) = {<<r, r, i, IdAt(r, r, i)>> : i \in IndicesOf(r, r)}
    <2>1. PICK p, g, x, t, R : /\ p = pc[r] /\ g = nglobal[r] /\ x = xfer[r]
                               /\ t = tree[r] /\ R = ran[r]
      OBVIOUS
    <2>2. /\ IndicesOf(r, r) = Owned(r, p, g, x, R)
          /\ \A i : IdAt(r, r, i) = ProblemAt(p, t, R, i)
      BY <2>1 DEF IndicesOf, IdAt
    <2>3. p \in {"split", "down", "gather", "up", "done"}
      BY <2>1 DEF MovesOK, ViewOK
    <2>4. CASE p = "split"
      <3>1. Held(r) = {<<r, r, i, t[Len(t)][i].id>> : i \in 0 .. DueOf(r, g) - 1}
        BY <2>1, <2>4 DEF Held
      <3>2. Owned(r, p, g, x, R) = 0 .. DueOf(r, g) - 1
        BY <2>4 DEF Owned, Working
      <3>3. \A i : IdAt(r, r, i) = t[Len(t)][i].id
        BY <2>2, <2>4 DEF ProblemAt, Working
      <3> QED BY <2>2, <3>1, <3>2, <3>3
    <2>5. CASE p = "down"
      <3>0. Sender(r) <=> Surplus(r, g) > 0
        BY <2>1, <2>5 DEF Sender, Back
      <3>1. Held(r) = {<<r, r, i, t[Len(t)][i].id>> : i \in Owned(r, p, g, x, R)}
        <4>1. CASE Surplus(r, g) > 0
          <5>1. Held(r) = {<<r, r, i, t[Len(t)][i].id>> :
                              i \in 0 .. DueOf(r, g) - 1 \cup x.pos .. HaveOf(r, g) - 1}
            BY <2>1, <2>5, <3>0, <4>1 DEF Held
          <5>2. Owned(r, p, g, x, R) = (0 .. DueOf(r, g) - 1) \cup (x.pos .. HaveOf(r, g) - 1)
            BY <2>5, <4>1 DEF Owned, Working
          <5> QED BY <5>1, <5>2
        <4>2. CASE ~(Surplus(r, g) > 0)
          <5>1. Held(r) = {<<r, r, i, t[Len(t)][i].id>> :
                      i \in 0 .. (IF Surplus(r, g) = 0 THEN HaveOf(r, g) ELSE x.pos) - 1}
            BY <2>1, <2>5, <3>0, <4>2 DEF Held
          <5>2. Owned(r, p, g, x, R) =
                   0 .. (IF Surplus(r, g) = 0 THEN HaveOf(r, g) ELSE x.pos) - 1
            BY <2>5, <4>2 DEF Owned, Working
          <5> QED BY <5>1, <5>2
        <4> QED BY <4>1, <4>2
      <3>2. \A i : IdAt(r, r, i) = t[Len(t)][i].id
        BY <2>2, <2>5 DEF ProblemAt, Working
      <3> QED BY <2>2, <3>1, <3>2
    <2>6. CASE p \in {"gather", "up", "done"}
      <3>1. Held(r) = {<<r, r, i, R[i]>> : i \in DOMAIN R}
        BY <2>1, <2>6 DEF Held
      <3>2. Owned(r, p, g, x, R) = DOMAIN R /\ \A i : IdAt(r, r, i) = R[i]
        BY <2>2, <2>6 DEF Owned, ProblemAt, Working
      <3> QED BY <2>2, <3>1, <3>2
    <2> QED BY <2>3, <2>4, <2>5, <2>6
  <1>2. ASSUME NEW s \in Ranks, NEW t \in Ranks
        PROVE  DOMAIN chan[<<s, t>>] = 1 .. Len(chan[<<s, t>>])
    <2>1. PICK c : c = chan[<<s, t>>]
      OBVIOUS
    <2>2. FlowOK(c, s, t, PassedOf(s), PassedOf(t))
      BY <2>1 DEF MovesOK
    <2>3. PICK M : c \in Seq(M)
      BY <2>2 DEF FlowOK
    <2> QED BY <2>1, <2>3
  <1>3. h \in InFlight <=> \E s, t \in Ranks : s # t /\ \E i \in IndicesOf(s, t) : h = <<s, t, i, IdAt(s, t, i)>>
    <2>1. ASSUME NEW s \in Ranks, NEW t \in Ranks, s # t,
                 NEW i \in IndicesOf(s, t), h = <<s, t, i, IdAt(s, t, i)>>
          PROVE  h \in InFlight
      <3>1. PICK p : p = <<s, t>>
        OBVIOUS
      <3>2. p \in Ranks \X Ranks /\ p[1] = s /\ p[2] = t
        BY <3>1
      <3>3. i \in DOMAIN chan[p] /\ ~chan[p][i].at[1] /\ IdAt(s, t, i) = chan[p][i].cell.id
        BY <1>2, <2>1, <3>1 DEF IndicesOf, IdAt
      <3>4. h = <<p[1], p[2], i, chan[p][i].cell.id>>
        BY <2>1, <3>2, <3>3
      <3> QED BY <3>2, <3>3, <3>4 DEF InFlight
    <2>2. ASSUME h \in InFlight
          PROVE  \E s, t \in Ranks : s # t /\ \E i \in IndicesOf(s, t) : h = <<s, t, i, IdAt(s, t, i)>>
      <3>1. PICK p \in Ranks \X Ranks :
               h \in {<<p[1], p[2], i, chan[p][i].cell.id>> : i \in {j \in DOMAIN chan[p] : ~chan[p][j].at[1]}}
        BY <2>2 DEF InFlight
      <3>2. PICK i \in DOMAIN chan[p] :
               ~chan[p][i].at[1] /\ h = <<p[1], p[2], i, chan[p][i].cell.id>>
        BY <3>1
      <3>3. PICK s \in Ranks, t \in Ranks : s = p[1] /\ t = p[2] /\ p = <<s, t>>
        OBVIOUS
      <3>4. i \in 1 .. Len(chan[<<s, t>>])
        BY <1>2, <3>3
      <3>5. s # t
        <4> SUFFICES ASSUME s = t PROVE FALSE
          OBVIOUS
        <4>1. chan[<<s, t>>] = <<>>
          BY NoneToItself
        <4> QED BY <3>4, <4>1
      <3>6. i \in IndicesOf(s, t) /\ h = <<s, t, i, IdAt(s, t, i)>>
        BY <3>2, <3>3, <3>4, <3>5 DEF IndicesOf, IdAt
      <3> QED BY <3>5, <3>6
    <2> QED BY <2>1, <2>2
  <1>4. h \in UNION {Held(r) : r \in Ranks}
           <=> \E r \in Ranks : \E i \in IndicesOf(r, r) : h = <<r, r, i, IdAt(r, r, i)>>
    BY <1>1
  <1> QED BY <1>3, <1>4 DEF Places

(* There are finitely many of them, each with a problem or a blank.        *)
LEMMA PlacesFinite ==
    ASSUME MovesOK, ProblemsOK, NEW s \in Ranks, NEW t \in Ranks
    PROVE  IsFiniteSet(IndicesOf(s, t)) /\ \A i \in IndicesOf(s, t) : IdAt(s, t, i) \in Ids
  <1>1. CASE s # t
    <2>1. PICK c : c = chan[<<s, t>>]
      OBVIOUS
    <2>2. FlowOK(c, s, t, PassedOf(s), PassedOf(t)) /\ MailOK(c)
      BY <2>1 DEF MovesOK, ProblemsOK
    <2>3. PICK M : c \in Seq(M)
      BY <2>2 DEF FlowOK
    <2>4. PICK n \in Nat : n = Len(c)
      BY <2>3
    <2>5. IndicesOf(s, t) \subseteq 1 .. n
      BY <1>1, <2>1, <2>4 DEF IndicesOf
    <2>6. IsFiniteSet(1 .. n)
      BY <2>4, FS_Interval
    <2>7. \A i \in IndicesOf(s, t) : IdAt(s, t, i) \in Ids
      BY <1>1, <2>1, <2>2 DEF IndicesOf, IdAt, MailOK
    <2> QED BY <2>5, <2>6, <2>7, FS_Subset
  <1>2. CASE s = t
    <2>1. PICK p, g, x, u, R : /\ p = pc[s] /\ g = nglobal[s] /\ x = xfer[s]
                               /\ u = tree[s] /\ R = ran[s]
      OBVIOUS
    <2>2. CellsOK(s, p, g, u, R)
      BY <2>1 DEF ProblemsOK
    <2>3. IndicesOf(s, t) = Owned(s, p, g, x, R) /\ \A i : IdAt(s, t, i) = ProblemAt(p, u, R, i)
      BY <1>2, <2>1 DEF IndicesOf, IdAt
    <2>4. CASE Working(p)
      <3>1. /\ CellsOf(s, p, g) \in Nat
            /\ Owned(s, p, g, x, R) \subseteq 0 .. CellsOf(s, p, g) - 1
        <4>1. CASE p = "split"
          <5>1. DueOf(s, g) \in Nat
            BY <2>1, RoomOfLevel DEF MovesOK, ViewOK
          <5> QED BY <4>1, <5>1 DEF CellsOf, Owned, Working
        <4>2. CASE p = "down"
          <5>1. MostOf(s, g) \in Nat
            <6>1. PICK b \in Nat, e \in Nat : MostOf(s, g) = IF b <= e THEN e ELSE b
              BY <2>1, <4>2, DownView
            <6> QED BY <6>1
          <5> QED BY <2>1, <4>2, <5>1, OwnedAreCells DEF CellsOf
        <4> QED BY <2>4, <4>1, <4>2 DEF Working
      <3>2. IsFiniteSet(0 .. CellsOf(s, p, g) - 1)
        BY <3>1, FS_Interval
      <3>3. \A i \in Owned(s, p, g, x, R) : ProblemAt(p, u, R, i) \in Ids
        BY <2>2, <2>4, <3>1 DEF CellsOK, ProblemAt
      <3> QED BY <2>3, <3>1, <3>2, <3>3, FS_Subset
    <2>5. CASE ~Working(p)
      <3>1. PICK m \in Nat : DOMAIN R = 1 .. m
        BY <2>2, <2>5 DEF CellsOK
      <3>2. Owned(s, p, g, x, R) = 1 .. m /\ \A i \in 1 .. m : ProblemAt(p, u, R, i) \in Ids
        BY <2>2, <2>5, <3>1 DEF CellsOK, Owned, ProblemAt
      <3>3. IsFiniteSet(1 .. m)
        BY FS_Interval
      <3> QED BY <2>3, <3>2, <3>3
    <2> QED BY <2>4, <2>5
  <1> QED BY <1>1, <1>2

(* A way that goes on as a path does meets the same problems.              *)
LEMMA CoversIs ==
    ASSUME conf \in Cases, NEW d \in Nat, NEW path \in [1 .. d -> 0 .. N - 1],
           NEW way, \A i \in 1 .. d : way[i] = path[i],
           NEW id \in Ids, Len(id) <= d
    PROVE  Covers(id, path) <=> On(id, way)
  <1>1. CASE id = BLANK
    BY <1>1 DEF Covers, On
  <1>2. CASE id # BLANK
    <2>1. id \in Seq(0 .. N - 1)
      BY <1>2 DEF Ids
    <2>2. PICK n \in Nat : n = Len(id) /\ n <= d
      BY <2>1
    <2>3. PICK T : T = 0 .. N - 1
      OBVIOUS
    <2>4. Len(path) = d
      OBVIOUS
    <2>5. \A i \in 1 .. n : path[i] \in T /\ i \in 1 .. d
      BY <2>2, <2>3
    <2>6. PICK s : s = SubSeq(path, 1, n)
      OBVIOUS
    <2>7. s \in Seq(T) /\ Len(s) = n /\ \A i \in 1 .. n : s[i] = path[i]
      <3>1. 1 \in Int /\ n \in Int
        BY <2>2
      <3>2. /\ SubSeq(path, 1, n) \in Seq(T)
            /\ Len(SubSeq(path, 1, n)) = IF 1 <= n THEN n - 1 + 1 ELSE 0
            /\ \A i \in 1 .. n - 1 + 1 : SubSeq(path, 1, n)[i] = path[1 + i - 1]
        BY <2>5, <3>1, SubSeqProperties
      <3>3. Len(s) = n
        BY <2>2, <2>6, <3>2
      <3>4. ASSUME NEW i \in 1 .. n PROVE s[i] = path[i]
        <4>1. i \in 1 .. n - 1 + 1 /\ 1 + i - 1 = i
          BY <2>2, <3>4
        <4> QED BY <2>6, <3>2, <4>1
      <3> QED BY <2>6, <3>2, <3>3, <3>4
    <2>8. Covers(id, path) <=> s = id
      BY <1>2, <2>2, <2>4, <2>6 DEF Covers
    <2>9. On(id, way) <=> \A i \in 1 .. n : id[i] = way[i]
      BY <1>2, <2>2 DEF On
    <2>10. (\A i \in 1 .. n : id[i] = way[i]) <=> \A i \in 1 .. n : id[i] = s[i]
      BY <2>5, <2>7
    <2>11. (\A i \in 1 .. n : id[i] = s[i]) => s = id
      <3> SUFFICES ASSUME \A i \in 1 .. n : id[i] = s[i] PROVE s = id
        OBVIOUS
      <3>1. id \in Seq(T) /\ s \in Seq(T) /\ Len(s) = Len(id)
        BY <2>1, <2>2, <2>3, <2>7
      <3>2. \A i \in 1 .. Len(s) : s[i] = id[i]
        BY <2>7
      <3> QED BY <3>1, <3>2, SeqEqual
    <2> QED BY <2>8, <2>9, <2>10, <2>11
  <1> QED BY <1>1, <1>2

(* What is in the places, as ProblemsPartitioned counts it.                *)
LEMMA PartitionHolds ==
    ASSUME MovesOK, ProblemsOK
    PROVE  ProblemsPartitioned
  <1>1. conf \in Cases /\ N \in Nat \ {0, 1} /\ P \in Nat
    BY CallIs DEF MovesOK
  <1>2. PICK D : D = {Len(h[4]) : h \in Places}
    OBVIOUS
  <1>3. PICK Pairs : Pairs = Ranks \X Ranks
    OBVIOUS
  <1>4. PICK of : of = [e \in Pairs |-> {Len(IdAt(e[1], e[2], i)) : i \in IndicesOf(e[1], e[2])}]
    OBVIOUS
  <1>5. ASSUME NEW id \in Ids PROVE Len(id) \in Nat
    <2>1. Len(BLANK) = 1
      BY DEF BLANK
    <2> QED BY <2>1 DEF Ids
  <1>6. IsFiniteSet(Pairs)
    <2>1. IsFiniteSet(Ranks)
      BY <1>1, FS_Interval DEF Ranks
    <2> QED BY <1>3, <2>1, FS_Product
  <1>7. ASSUME NEW e \in Pairs PROVE IsFiniteSet(of[e]) /\ of[e] \subseteq Nat
    <2>1. PICK s \in Ranks, t \in Ranks : s = e[1] /\ t = e[2]
      BY <1>3
    <2>2. IsFiniteSet(IndicesOf(s, t)) /\ \A i \in IndicesOf(s, t) : IdAt(s, t, i) \in Ids
      BY PlacesFinite
    <2>3. PICK S : S = IndicesOf(s, t)
      OBVIOUS
    <2>4. PICK f : f = [i \in S |-> Len(IdAt(s, t, i))]
      OBVIOUS
    <2>5. of[e] = {f[i] : i \in S}
      BY <1>4, <2>1, <2>3, <2>4
    <2>6. IsFiniteSet({f[i] : i \in S})
      BY <2>2, <2>3, FiniteImage
    <2>7. \A i \in S : f[i] \in Nat
      BY <1>5, <2>2, <2>3, <2>4
    <2> QED BY <2>5, <2>6, <2>7
  <1>8. D = UNION {of[e] : e \in Pairs}
    <2>1. ASSUME NEW h \in Places PROVE \E e \in Pairs : Len(h[4]) \in of[e]
      <3>1. PICK s \in Ranks, t \in Ranks : \E i \in IndicesOf(s, t) : h = <<s, t, i, IdAt(s, t, i)>>
        BY PlacesAre
      <3>2. PICK i \in IndicesOf(s, t) : h = <<s, t, i, IdAt(s, t, i)>>
        BY <3>1
      <3>3. h[4] = IdAt(s, t, i)
        BY <3>2
      <3>4. PICK e : e = <<s, t>>
        OBVIOUS
      <3>5. e \in Pairs /\ e[1] = s /\ e[2] = t
        BY <1>3, <3>4
      <3>6. Len(IdAt(s, t, i)) \in of[e]
        BY <1>4, <3>5
      <3> QED BY <3>3, <3>5, <3>6
    <2>2. ASSUME NEW e \in Pairs, NEW n \in of[e] PROVE \E h \in Places : n = Len(h[4])
      <3>1. PICK s \in Ranks, t \in Ranks : s = e[1] /\ t = e[2]
        BY <1>3
      <3>2. PICK i \in IndicesOf(s, t) : n = Len(IdAt(s, t, i))
        BY <1>4, <3>1
      <3>3. PICK h : h = <<s, t, i, IdAt(s, t, i)>>
        OBVIOUS
      <3>4. h \in Places
        BY <3>3, PlacesAre
      <3>5. h[4] = IdAt(s, t, i)
        BY <3>3
      <3> QED BY <3>2, <3>4, <3>5
    <2> QED BY <1>2, <2>1, <2>2
  <1>9. IsFiniteSet(D) /\ D \in SUBSET Nat
    <2>1. IsFiniteSet({of[e] : e \in Pairs})
      BY <1>6, FiniteImage
    <2>2. IsFiniteSet(UNION {of[e] : e \in Pairs})
      BY <1>7, <2>1, FS_UNION
    <2> QED BY <1>7, <1>8, <2>2
  <1>10. ASSUME NEW way \in Paths
         PROVE  \E s, t \in Ranks : \E i :
                   /\ i \in IndicesOf(s, t) /\ On(IdAt(s, t, i), way)
                   /\ \A u, v \in Ranks : \A j \in IndicesOf(u, v) :
                         On(IdAt(u, v, j), way) => u = s /\ v = t /\ j = i
    <2>1. One(way)
      BY DEF ProblemsOK
    <2>2. PICK s \in Ranks, t \in Ranks : \E i : There(s, t, i, way)
      BY <2>1 DEF One
    <2>3. PICK i : There(s, t, i, way)
      BY <2>2
    <2>4. ASSUME NEW u \in Ranks, NEW v \in Ranks, NEW j \in IndicesOf(u, v), On(IdAt(u, v, j), way)
          PROVE  u = s /\ v = t /\ j = i
      <3>1. There(u, v, j, way)
        BY <2>4, ThereIs
      <3> QED BY <2>1, <2>3, <3>1, Zenon DEF One
    <2>5. i \in IndicesOf(s, t) /\ On(IdAt(s, t, i), way)
      BY <2>3, ThereIs
    <2> QED BY <2>4, <2>5
  <1>11. D # {}
    <2>1. PICK way : way \in Paths
      <3>1. [i \in Nat \ {0} |-> 0] \in Paths
        BY <1>1 DEF Paths
      <3> QED BY <3>1
    <2>2. PICK s \in Ranks, t \in Ranks : \E i : i \in IndicesOf(s, t)
      BY <1>10, <2>1
    <2>3. PICK i : i \in IndicesOf(s, t)
      BY <2>2
    <2>4. PICK h : h = <<s, t, i, IdAt(s, t, i)>>
      OBVIOUS
    <2>5. h \in Places
      BY <2>3, <2>4, PlacesAre
    <2> QED BY <1>2, <2>5
  <1>12. PICK d \in Nat : d = Max(D) /\ \A n \in D : n <= d
    BY <1>9, <1>11, MaxIs
  <1>13. ASSUME NEW path \in [1 .. d -> 0 .. N - 1]
         PROVE  Cardinality({h \in Places : Covers(h[4], path)}) = 1
    <2>1. PICK way : way = [i \in Nat \ {0} |-> IF i <= d THEN path[i] ELSE 0]
      OBVIOUS
    <2>2. way \in Paths /\ \A i \in 1 .. d : way[i] = path[i]
      <3>1. \A i \in Nat \ {0} : i <= d => i \in 1 .. d
        BY <1>12
      <3>2. \A i \in 1 .. d : i \in Nat \ {0} /\ i <= d
        BY <1>12
      <3> QED BY <1>1, <2>1, <3>1, <3>2 DEF Paths
    <2>3. ASSUME NEW s \in Ranks, NEW t \in Ranks, NEW i \in IndicesOf(s, t)
          PROVE  Covers(IdAt(s, t, i), path) <=> On(IdAt(s, t, i), way)
      <3>1. PICK h : h = <<s, t, i, IdAt(s, t, i)>>
        OBVIOUS
      <3>2. h \in Places
        BY <3>1, PlacesAre
      <3>3. h[4] = IdAt(s, t, i)
        BY <3>1
      <3>4. Len(IdAt(s, t, i)) <= d
        BY <1>2, <1>12, <3>2, <3>3
      <3>5. IdAt(s, t, i) \in Ids
        BY PlacesFinite
      <3> QED BY <1>1, <2>2, <3>4, <3>5, CoversIs
    <2>4. PICK s \in Ranks, t \in Ranks : \E i :
             /\ i \in IndicesOf(s, t) /\ On(IdAt(s, t, i), way)
             /\ \A u, v \in Ranks : \A j \in IndicesOf(u, v) :
                   On(IdAt(u, v, j), way) => u = s /\ v = t /\ j = i
      BY <1>10, <2>2
    <2>5. PICK i : /\ i \in IndicesOf(s, t) /\ On(IdAt(s, t, i), way)
                   /\ \A u, v \in Ranks : \A j \in IndicesOf(u, v) :
                         On(IdAt(u, v, j), way) => u = s /\ v = t /\ j = i
      BY <2>4
    <2>6. PICK h : h = <<s, t, i, IdAt(s, t, i)>>
      OBVIOUS
    <2>7. h \in Places /\ Covers(h[4], path)
      <3>1. h \in Places
        BY <2>5, <2>6, PlacesAre
      <3>2. h[4] = IdAt(s, t, i)
        BY <2>6
      <3> QED BY <2>3, <2>5, <3>1, <3>2
    <2>8. ASSUME NEW k \in Places, Covers(k[4], path) PROVE k = h
      <3>1. PICK u \in Ranks, v \in Ranks : \E j \in IndicesOf(u, v) : k = <<u, v, j, IdAt(u, v, j)>>
        BY PlacesAre
      <3>2. PICK j \in IndicesOf(u, v) : k = <<u, v, j, IdAt(u, v, j)>>
        BY <3>1
      <3>3. k[4] = IdAt(u, v, j)
        BY <3>2
      <3>4. On(IdAt(u, v, j), way)
        BY <2>3, <2>8, <3>3
      <3>5. u = s /\ v = t /\ j = i
        BY <2>5, <3>4
      <3> QED BY <2>6, <3>2, <3>5
    <2>9. {k \in Places : Covers(k[4], path)} = {h}
      BY <2>7, <2>8
    <2> QED BY <2>9, FS_Singleton
  <1> QED BY <1>2, <1>12, <1>13 DEF ProblemsPartitioned

(* While ranks split and exchange problems at their own pace, every problem*)
(* that is still to be solved is in exactly one place: in the hands of a   *)
(* rank, in a message, or among those a rank has run.  None is lost or     *)
(* solved twice, whatever the arity, the number of ranks, the balance      *)
(* asked for and the problems that are base cases.                         *)
THEOREM ProblemsArePartitioned == Spec => []ProblemsPartitioned
  <1>1. Init => MovesOK /\ ProblemsOK
    BY MovesInit, ProblemsInit
  <1>2. MovesOK /\ ProblemsOK /\ [Next]_vars => (MovesOK /\ ProblemsOK)'
    BY MovesStep, ProblemsStep
  <1>3. MovesOK /\ ProblemsOK => ProblemsPartitioned
    BY PartitionHolds
  <1> QED BY <1>1, <1>2, <1>3, PTL DEF Spec
=============================================================================
