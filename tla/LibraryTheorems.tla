-------------------------- MODULE LibraryTheorems --------------------------
(***************************************************************************)
(* Lemmas about the operators the specifications share: sums, and sets in  *)
(* ascending order.                                                        *)
(*                                                                         *)
(* SumFunction and SumFunctionOnSet of the community module Functions are  *)
(* folds, and a fold is defined by recursion on subsets: that the recursion*)
(* has a solution, and only one, is shown by looking at a smallest set on  *)
(* which it would not.                                                     *)
(***************************************************************************)
EXTENDS Integers, Sequences, FiniteSets, Functions, Orders, FiniteSetTheorems, TLAPS

-----------------------------------------------------------------------------
(* Smallest sets *)

\* Among subsets of a finite set there is one that contains no other.
LEMMA SmallestSet ==
    ASSUME NEW S, IsFiniteSet(S), NEW F \in SUBSET SUBSET S, F # {}
    PROVE  \E m \in F : \A s \in F : s \subseteq m => s = m
<1>1. F \subseteq FiniteSubsetsOf(S)
  BY FS_Subset DEF FiniteSubsetsOf
<1>2. IsWellFoundedOn(StrictSubsetOrdering(S), FiniteSubsetsOf(S))
  BY FS_StrictSubsetOrderingWellFounded
<1>3. PICK m \in F : \A s \in F : <<s, m>> \notin StrictSubsetOrdering(S)
  BY <1>1, <1>2, WFMin
<1>4. ASSUME NEW s \in F, s \subseteq m, s # m
      PROVE  FALSE
  <2>1. <<s, m>> \in StrictSubsetOrdering(S)
    BY <1>4 DEF StrictSubsetOrdering
  <2> QED
    BY <1>3, <2>1
<1> QED
  BY <1>3, <1>4

\* Among natural numbers there is a smallest one.
LEMMA SmallestNumber ==
    ASSUME NEW S \in SUBSET Nat, S # {}
    PROVE  \E x \in S : \A y \in S : x <= y
<1>1. PICK top \in S : TRUE
  OBVIOUS
<1>2. top \in Nat
  OBVIOUS
<1> DEFINE T == 0 .. top
           F == {0 .. x : x \in {y \in S : y <= top}}
<1>3. F \in SUBSET SUBSET T /\ 0 .. top \in F /\ IsFiniteSet(T)
  <2>1. \A x \in Nat : x <= top => 0 .. x \subseteq 0 .. top
    BY <1>2
  <2>2. IsFiniteSet(0 .. top)
    BY <1>2, FS_Interval
  <2>3. top <= top
    BY <1>2
  <2> QED
    BY <1>1, <2>1, <2>2, <2>3
<1> HIDE DEF F, T
<1>4. F # {}
  BY <1>3
<1>5. PICK m \in F : \A s \in F : s \subseteq m => s = m
  BY <1>3, <1>4, SmallestSet
<1>6. PICK x \in S : m = 0 .. x /\ x <= top
  BY <1>5 DEF F
<1>7. ASSUME NEW y \in S
      PROVE  x <= y
  <2> SUFFICES ASSUME y < x
               PROVE  FALSE
    BY <1>7
  <2>1. 0 .. y \in F
    BY <1>2, <1>6 DEF F
  <2>2. 0 .. y \subseteq 0 .. x /\ x \notin 0 .. y /\ x \in 0 .. x
    BY <1>7
  <2> QED
    BY <1>5, <1>6, <2>1, <2>2
<1> QED
  BY <1>7

-----------------------------------------------------------------------------
(* The recursion behind SumFunctionOnSet *)

Pick(s) == CHOOSE x \in s : TRUE
Rest(s) == s \ {Pick(s)}

\* g sums fun over every subset of S.
SumsOn(fun, S, g) ==
    g = [s \in SUBSET S |-> IF s = {} THEN 0 ELSE fun[Pick(s)] + g[Rest(s)]]

\* SumFunctionOnSet is the value on S of a function that sums.
LEMMA SumIsChosen ==
    ASSUME NEW fun, NEW S
    PROVE  SumFunctionOnSet(fun, S) = (CHOOSE g : SumsOn(fun, S, g))[S]
BY Zenon DEF SumFunctionOnSet, FoldFunctionOnSet, MapThenFoldSet, SumsOn, Pick, Rest

\* The element that is picked is one of the set.
LEMMA PickIsIn ==
    ASSUME NEW s, s # {}
    PROVE  Pick(s) \in s /\ Rest(s) \subseteq s /\ Rest(s) # s
BY DEF Pick, Rest

\* What a function that sums says of a set.
LEMMA SumsOnValue ==
    ASSUME NEW fun, NEW S, NEW g, SumsOn(fun, S, g), NEW s \in SUBSET S
    PROVE  /\ s = {} => g[s] = 0
           /\ s # {} => g[s] = fun[Pick(s)] + g[Rest(s)]
<1>1. g[s] = IF s = {} THEN 0 ELSE fun[Pick(s)] + g[Rest(s)]
  BY Zenon DEF SumsOn
<1> QED
  BY <1>1

\* Two functions that sum agree wherever both do.
LEMMA SumsOnAgree ==
    ASSUME NEW fun, NEW S1, NEW S2, IsFiniteSet(S1), NEW g1, NEW g2,
           SumsOn(fun, S1, g1), SumsOn(fun, S2, g2), NEW v \in SUBSET S1, v \subseteq S2
    PROVE  g1[v] = g2[v]
<1> DEFINE F == {s \in SUBSET S1 : s \subseteq S2 /\ g1[s] # g2[s]}
<1> SUFFICES ASSUME F # {}
             PROVE  FALSE
  OBVIOUS
<1>0. F \in SUBSET SUBSET S1
  OBVIOUS
<1> HIDE DEF F
<1>1. PICK m \in F : \A s \in F : s \subseteq m => s = m
  BY <1>0, SmallestSet
<1> USE DEF F
<1>2. m \in SUBSET S1 /\ m \in SUBSET S2 /\ g1[m] # g2[m]
  BY <1>1
<1>3. m # {}
  BY <1>2, SumsOnValue
<1>4. Rest(m) \in SUBSET S1 /\ Rest(m) \subseteq S2 /\ Rest(m) \subseteq m /\ Rest(m) # m
  BY <1>2, <1>3, PickIsIn
<1>5. g1[Rest(m)] = g2[Rest(m)]
  BY <1>1, <1>4
<1>6. g1[m] = fun[Pick(m)] + g1[Rest(m)] /\ g2[m] = fun[Pick(m)] + g2[Rest(m)]
  BY <1>2, <1>3, SumsOnValue
<1> QED
  BY <1>2, <1>5, <1>6

\* There is such a function for every finite set.
LEMMA SumsOnExists ==
    ASSUME NEW fun, NEW S, IsFiniteSet(S)
    PROVE  \E g : SumsOn(fun, S, g)
<1> DEFINE F == {s \in SUBSET S : ~ \E g : SumsOn(fun, s, g)}
<1> SUFFICES ASSUME F # {}
             PROVE  FALSE
  OBVIOUS
<1>0. F \in SUBSET SUBSET S
  OBVIOUS
<1> HIDE DEF F
<1>1. PICK m \in F : \A s \in F : s \subseteq m => s = m
  BY <1>0, SmallestSet
<1> USE DEF F
<1>2. m \in SUBSET S /\ ~ \E g : SumsOn(fun, m, g)
  BY <1>1
<1> HIDE DEF F
<1>3. \A s \in SUBSET m : s # m => \E g : SumsOn(fun, s, g)
  BY <1>1, <1>2 DEF F
<1> DEFINE of(s) == CHOOSE g : SumsOn(fun, s, g)
<1>4. \A s \in SUBSET m : s # m => SumsOn(fun, s, of(s)) /\ IsFiniteSet(s)
  BY <1>2, <1>3, FS_Subset
<1> DEFINE g == [s \in SUBSET m |-> IF s = {} THEN 0 ELSE fun[Pick(s)] + of(Rest(s))[Rest(s)]]
<1> HIDE DEF of
<1>5. ASSUME NEW s \in SUBSET m, s # {}
      PROVE  of(Rest(s))[Rest(s)] = g[Rest(s)]
  <2>1. Rest(s) \in SUBSET m /\ Rest(s) # m
    BY <1>5, PickIsIn
  <2>2. SumsOn(fun, Rest(s), of(Rest(s))) /\ IsFiniteSet(Rest(s))
    BY <1>4, <2>1
  <2>3. CASE Rest(s) = {}
    <3>1. of(Rest(s))[Rest(s)] = 0
      BY <2>2, <2>3, SumsOnValue
    <3>2. g[Rest(s)] = 0
      BY <2>1, <2>3
    <3> QED
      BY <3>1, <3>2
  <2>4. CASE Rest(s) # {}
    <3> DEFINE u == Rest(s)
    <3>1. of(u)[u] = fun[Pick(u)] + of(u)[Rest(u)]
      BY <2>2, <2>4, SumsOnValue
    <3>2. g[u] = fun[Pick(u)] + of(Rest(u))[Rest(u)]
      BY <2>1, <2>4
    <3>3. Rest(u) \in SUBSET u /\ Rest(u) \in SUBSET m /\ Rest(u) # m
      BY <2>1, <2>4, PickIsIn
    <3>4. SumsOn(fun, Rest(u), of(Rest(u))) /\ IsFiniteSet(Rest(u))
      BY <1>4, <3>3
    <3>5. of(Rest(u))[Rest(u)] = of(u)[Rest(u)]
      BY <2>2, <3>3, <3>4, SumsOnAgree
    <3> QED
      BY <3>1, <3>2, <3>5
  <2> QED
    BY <2>3, <2>4
<1>6. SumsOn(fun, m, g)
  BY <1>5 DEF SumsOn
<1> QED
  BY <1>2, <1>6

\* The sum over a set is an element of it and the sum over the others.
LEMMA SumOnStep ==
    ASSUME NEW fun, NEW S, IsFiniteSet(S)
    PROVE  /\ S = {} => SumFunctionOnSet(fun, S) = 0
           /\ S # {} => SumFunctionOnSet(fun, S)
                          = fun[Pick(S)] + SumFunctionOnSet(fun, Rest(S))
<1> DEFINE of(s) == CHOOSE g : SumsOn(fun, s, g)
<1>1. SumsOn(fun, S, of(S)) /\ SumFunctionOnSet(fun, S) = of(S)[S]
  BY SumsOnExists, SumIsChosen
<1>2. S = {} => of(S)[S] = 0
  BY <1>1, SumsOnValue
<1>3. ASSUME S # {}
      PROVE  SumFunctionOnSet(fun, S) = fun[Pick(S)] + SumFunctionOnSet(fun, Rest(S))
  <2>1. Rest(S) \in SUBSET S /\ IsFiniteSet(Rest(S))
    BY <1>3, PickIsIn, FS_Subset
  <2>2. SumsOn(fun, Rest(S), of(Rest(S))) /\ SumFunctionOnSet(fun, Rest(S)) = of(Rest(S))[Rest(S)]
    BY <2>1, SumsOnExists, SumIsChosen
  <2> HIDE DEF of
  <2>3. of(Rest(S))[Rest(S)] = of(S)[Rest(S)]
    BY <1>1, <2>1, <2>2, SumsOnAgree
  <2>4. of(S)[S] = fun[Pick(S)] + of(S)[Rest(S)]
    BY <1>1, <1>3, SumsOnValue
  <2> QED
    BY <1>1, <2>2, <2>3, <2>4
<1> QED
  BY <1>1, <1>2, <1>3

-----------------------------------------------------------------------------
(* Sums over a set *)

\* Sums of naturals are naturals, and sums of integers integers.
LEMMA SumOnInt ==
    ASSUME NEW fun, NEW S, IsFiniteSet(S), \A x \in S : fun[x] \in Int
    PROVE  SumFunctionOnSet(fun, S) \in Int
<1> DEFINE F == {s \in SUBSET S : SumFunctionOnSet(fun, s) \notin Int}
<1> SUFFICES ASSUME F # {}
             PROVE  FALSE
  BY Zenon
<1>0. F \in SUBSET SUBSET S
  OBVIOUS
<1> HIDE DEF F
<1>1. PICK m \in F : \A s \in F : s \subseteq m => s = m
  BY <1>0, SmallestSet
<1> USE DEF F
<1>2. m \in SUBSET S /\ SumFunctionOnSet(fun, m) \notin Int /\ IsFiniteSet(m)
  BY <1>1, FS_Subset
<1>3. m # {}
  BY <1>2, SumOnStep
<1>4. Rest(m) \in SUBSET S /\ Rest(m) \subseteq m /\ Rest(m) # m /\ Pick(m) \in S
  BY <1>2, <1>3, PickIsIn
<1>5. SumFunctionOnSet(fun, Rest(m)) \in Int
  BY <1>1, <1>4
<1>6. SumFunctionOnSet(fun, m) = fun[Pick(m)] + SumFunctionOnSet(fun, Rest(m))
  BY <1>2, <1>3, SumOnStep
<1> QED
  BY <1>2, <1>4, <1>5, <1>6

\* Any element may be taken out first.
LEMMA SumOnRemove ==
    ASSUME NEW fun, NEW S, IsFiniteSet(S), \A x \in S : fun[x] \in Int, NEW x \in S
    PROVE  SumFunctionOnSet(fun, S) = fun[x] + SumFunctionOnSet(fun, S \ {x})
<1> DEFINE Sum(s) == SumFunctionOnSet(fun, s)
           F == {s \in SUBSET S : ~ \A y \in s : Sum(s) = fun[y] + Sum(s \ {y})}
<1> SUFFICES ASSUME F # {}
             PROVE  FALSE
  <2>1. F = {} => S \notin F
    OBVIOUS
  <2>2. S \notin F => \A y \in S : Sum(S) = fun[y] + Sum(S \ {y})
    OBVIOUS
  <2> QED
    BY <2>1, <2>2
<1>0. F \in SUBSET SUBSET S
  OBVIOUS
<1> HIDE DEF F
<1>1. PICK m \in F : \A s \in F : s \subseteq m => s = m
  BY <1>0, SmallestSet
<1>2. /\ m \in SUBSET S /\ ~ \A y \in m : Sum(m) = fun[y] + Sum(m \ {y})
      /\ \A s \in SUBSET S : s \notin F => \A y \in s : Sum(s) = fun[y] + Sum(s \ {y})
  BY <1>1 DEF F
<1>3. PICK y \in m : Sum(m) # fun[y] + Sum(m \ {y})
  BY <1>2
<1> DEFINE p == Pick(m)
<1>4. p \in m /\ Rest(m) = m \ {p}
  BY <1>3, PickIsIn DEF Rest
<1>5. \A s \in SUBSET S : IsFiniteSet(s) /\ Sum(s) \in Int
  BY FS_Subset, SumOnInt
<1>6. Sum(m) = fun[p] + Sum(m \ {p})
  <2>1. IsFiniteSet(m) /\ m # {}
    BY <1>2, <1>3, <1>5
  <2>2. SumFunctionOnSet(fun, m) = fun[Pick(m)] + SumFunctionOnSet(fun, Rest(m))
    BY <2>1, SumOnStep
  <2> QED
    BY <1>4, <2>2
<1> HIDE DEF p, Sum
<1>7. y # p
  BY <1>3, <1>6
<1>8. Sum(m \ {p}) = fun[y] + Sum((m \ {p}) \ {y})
  <2>1. m \ {p} \in SUBSET S /\ m \ {p} \subseteq m /\ m \ {p} # m /\ y \in m \ {p}
    BY <1>2, <1>3, <1>4, <1>7
  <2> QED
    BY <1>1, <1>2, <2>1
<1>9. Sum(m \ {y}) = fun[p] + Sum((m \ {y}) \ {p})
  <2>1. m \ {y} \in SUBSET S /\ m \ {y} \subseteq m /\ m \ {y} # m /\ p \in m \ {y}
    BY <1>2, <1>3, <1>4, <1>7
  <2> QED
    BY <1>1, <1>2, <2>1
<1>10. (m \ {p}) \ {y} = (m \ {y}) \ {p}
  OBVIOUS
<1>11. PICK z \in Int : z = Sum((m \ {p}) \ {y})
  BY <1>2, <1>5
<1>12. fun[y] \in Int /\ fun[p] \in Int
  BY <1>2, <1>3, <1>4
<1>13. Sum(m \ {p}) = fun[y] + z /\ Sum(m \ {y}) = fun[p] + z
  BY <1>8, <1>9, <1>10, <1>11
<1>14. Sum(m) = fun[p] + (fun[y] + z) /\ Sum(m) # fun[y] + (fun[p] + z)
  BY <1>3, <1>6, <1>13
<1> QED
  BY <1>11, <1>12, <1>14

\* Functions that agree on a set have the same sum over it.
LEMMA SumOnSame ==
    ASSUME NEW f, NEW g, NEW S, IsFiniteSet(S), \A x \in S : f[x] = g[x]
    PROVE  SumFunctionOnSet(f, S) = SumFunctionOnSet(g, S)
<1> DEFINE F == {s \in SUBSET S : SumFunctionOnSet(f, s) # SumFunctionOnSet(g, s)}
<1> SUFFICES ASSUME F # {}
             PROVE  FALSE
  BY Zenon
<1>0. F \in SUBSET SUBSET S
  OBVIOUS
<1> HIDE DEF F
<1>1. PICK m \in F : \A s \in F : s \subseteq m => s = m
  BY <1>0, SmallestSet
<1> USE DEF F
<1>2. /\ m \in SUBSET S /\ SumFunctionOnSet(f, m) # SumFunctionOnSet(g, m)
      /\ IsFiniteSet(m)
  BY <1>1, FS_Subset
<1>3. m # {}
  BY <1>2, SumOnStep
<1>4. Rest(m) \in SUBSET S /\ Rest(m) \subseteq m /\ Rest(m) # m /\ Pick(m) \in S
  BY <1>2, <1>3, PickIsIn
<1>5. SumFunctionOnSet(f, Rest(m)) = SumFunctionOnSet(g, Rest(m))
  BY <1>1, <1>4
<1>6. /\ SumFunctionOnSet(f, m) = f[Pick(m)] + SumFunctionOnSet(f, Rest(m))
      /\ SumFunctionOnSet(g, m) = g[Pick(m)] + SumFunctionOnSet(g, Rest(m))
  BY <1>2, <1>3, SumOnStep
<1> QED
  BY <1>2, <1>4, <1>5, <1>6

\* The sum over one element, and over none.
LEMMA SumOnEmpty ==
    ASSUME NEW fun
    PROVE  SumFunctionOnSet(fun, {}) = 0
BY SumOnStep, FS_EmptySet

\* A sum of naturals is a natural, at least as large as each of them.
LEMMA SumOnNat ==
    ASSUME NEW fun, NEW S, IsFiniteSet(S), \A x \in S : fun[x] \in Nat
    PROVE  /\ SumFunctionOnSet(fun, S) \in Nat
           /\ \A x \in S : fun[x] <= SumFunctionOnSet(fun, S)
<1>0. \A s \in SUBSET S : IsFiniteSet(s) /\ SumFunctionOnSet(fun, s) \in Int
  BY FS_Subset, SumOnInt
<1> DEFINE F == {s \in SUBSET S : SumFunctionOnSet(fun, s) \notin Nat}
<1>1. F = {}
  <2> SUFFICES ASSUME F # {}
               PROVE  FALSE
    OBVIOUS
  <2>0. F \in SUBSET SUBSET S
    OBVIOUS
  <2> HIDE DEF F
  <2>1. PICK m \in F : \A s \in F : s \subseteq m => s = m
    BY <2>0, SmallestSet
  <2> USE DEF F
  <2>2. m \in SUBSET S /\ SumFunctionOnSet(fun, m) \notin Nat /\ IsFiniteSet(m)
    BY <1>0, <2>1
  <2>3. m # {}
    BY <2>2, SumOnEmpty
  <2>4. Rest(m) \in SUBSET S /\ Rest(m) \subseteq m /\ Rest(m) # m /\ Pick(m) \in S
    BY <2>2, <2>3, PickIsIn
  <2>5. SumFunctionOnSet(fun, Rest(m)) \in Nat
    BY <2>1, <2>4
  <2>6. SumFunctionOnSet(fun, m) = fun[Pick(m)] + SumFunctionOnSet(fun, Rest(m))
    BY <2>2, <2>3, SumOnStep
  <2> QED
    BY <2>2, <2>4, <2>5, <2>6
<1>2. \A s \in SUBSET S : SumFunctionOnSet(fun, s) \in Nat
  BY <1>1
<1>3. ASSUME NEW x \in S
      PROVE  fun[x] <= SumFunctionOnSet(fun, S)
  <2>1. SumFunctionOnSet(fun, S) = fun[x] + SumFunctionOnSet(fun, S \ {x})
    BY SumOnRemove
  <2>2. SumFunctionOnSet(fun, S \ {x}) \in Nat /\ fun[x] \in Nat
    BY <1>2
  <2> QED
    BY <2>1, <2>2
<1> QED
  BY <1>2, <1>3

-----------------------------------------------------------------------------
(* Sums of whole functions *)

\* A part of a sum of naturals is no larger than all of it.
LEMMA SumOnPart ==
    ASSUME NEW fun, NEW S, IsFiniteSet(S), \A x \in S : fun[x] \in Nat, NEW P \in SUBSET S
    PROVE  SumFunctionOnSet(fun, P) <= SumFunctionOnSet(fun, S)
<1> DEFINE Sum(s) == SumFunctionOnSet(fun, s)
           F == {s \in SUBSET S : \E v \in SUBSET s : ~(Sum(v) <= Sum(s))}
<1> SUFFICES ASSUME F # {}
             PROVE  FALSE
  <2>1. F = {} => S \notin F
    OBVIOUS
  <2> QED
    BY <2>1
<1>1. F \in SUBSET SUBSET S
  OBVIOUS
<1> HIDE DEF F
<1>2. PICK m \in F : \A s \in F : s \subseteq m => s = m
  BY <1>1, SmallestSet
<1> USE DEF F
<1>3. PICK v \in SUBSET m : ~(Sum(v) <= Sum(m))
  BY <1>2
<1>4. \A s \in SUBSET S : Sum(s) \in Nat
  BY FS_Subset, SumOnNat
<1>5. v # m
  BY <1>1, <1>2, <1>3, <1>4
<1>6. PICK x \in m : x \notin v
  BY <1>5
<1>7. m \ {x} \notin F
  BY <1>2, <1>6
<1>8. Sum(v) <= Sum(m \ {x})
  <2>1. m \ {x} \in SUBSET S /\ v \in SUBSET (m \ {x})
    BY <1>1, <1>2, <1>6
  <2> QED
    BY <1>7, <2>1
<1>9. Sum(m) = fun[x] + Sum(m \ {x})
  <2>1. IsFiniteSet(m) /\ \A y \in m : fun[y] \in Int
    BY <1>1, <1>2, FS_Subset
  <2> QED
    BY <1>6, <2>1, SumOnRemove
<1>10. /\ Sum(v) \in Nat /\ Sum(m) \in Nat /\ Sum(m \ {x}) \in Nat /\ fun[x] \in Nat
  <2>1. m \in SUBSET S /\ v \in SUBSET S /\ m \ {x} \in SUBSET S /\ x \in S
    BY <1>1, <1>2, <1>6
  <2> QED
    BY <1>4, <2>1
<1> HIDE DEF F, Sum
<1> QED
  BY <1>3, <1>8, <1>9, <1>10

\* A sum of smaller integers is smaller.
LEMMA SumOnLess ==
    ASSUME NEW f, NEW g, NEW S, IsFiniteSet(S),
           \A x \in S : f[x] \in Int /\ g[x] \in Int /\ f[x] <= g[x]
    PROVE  SumFunctionOnSet(f, S) <= SumFunctionOnSet(g, S)
<1> DEFINE Sf(s) == SumFunctionOnSet(f, s)
           Sg(s) == SumFunctionOnSet(g, s)
           F == {s \in SUBSET S : ~(Sf(s) <= Sg(s))}
<1> SUFFICES ASSUME F # {}
             PROVE  FALSE
  <2>1. F = {} => S \notin F
    OBVIOUS
  <2> QED
    BY <2>1
<1>1. F \in SUBSET SUBSET S
  OBVIOUS
<1> HIDE DEF F
<1>2. PICK m \in F : \A s \in F : s \subseteq m => s = m
  BY <1>1, SmallestSet
<1> USE DEF F
<1>3. m \in SUBSET S /\ ~(Sf(m) <= Sg(m)) /\ IsFiniteSet(m)
  BY <1>1, <1>2, FS_Subset
<1>4. m # {}
  <2>1. Sf({}) = 0 /\ Sg({}) = 0
    BY SumOnEmpty
  <2> QED
    BY <1>3, <2>1
<1>5. PICK x \in m : TRUE
  BY <1>4
<1>6. m \ {x} \notin F
  BY <1>2, <1>5
<1>7. Sf(m \ {x}) <= Sg(m \ {x})
  BY <1>3, <1>6
<1>8. Sf(m) = f[x] + Sf(m \ {x}) /\ Sg(m) = g[x] + Sg(m \ {x})
  <2>1. \A y \in m : f[y] \in Int /\ g[y] \in Int
    BY <1>3
  <2>2. Sf(m) = f[x] + Sf(m \ {x})
    BY <1>3, <1>5, <2>1, SumOnRemove
  <2>3. Sg(m) = g[x] + Sg(m \ {x})
    BY <1>3, <1>5, <2>1, SumOnRemove
  <2> QED
    BY <2>2, <2>3
<1>9. /\ Sf(m \ {x}) \in Int /\ Sg(m \ {x}) \in Int
      /\ f[x] \in Int /\ g[x] \in Int /\ f[x] <= g[x]
  <2>1. IsFiniteSet(m \ {x}) /\ \A y \in m \ {x} : f[y] \in Int /\ g[y] \in Int
    BY <1>3, FS_Subset
  <2> QED
    BY <1>3, <1>5, <2>1, SumOnInt
<1> HIDE DEF F, Sf, Sg
<1> QED
  BY <1>3, <1>7, <1>8, <1>9

\* The sum of a function with finitely many natural values, and when it is 0.
LEMMA SumNat ==
    ASSUME NEW S, IsFiniteSet(S), NEW f \in [S -> Nat]
    PROVE  /\ SumFunction(f) \in Nat
           /\ SumFunction(f) = 0 <=> \A x \in S : f[x] = 0
<1>1. SumFunction(f) = SumFunctionOnSet(f, S)
  BY DEF SumFunction
<1>2. SumFunction(f) \in Nat /\ \A x \in S : f[x] <= SumFunction(f)
  BY <1>1, SumOnNat
<1>3. SumFunction(f) = 0 => \A x \in S : f[x] = 0
  BY <1>2
<1>4. ASSUME \A x \in S : f[x] = 0
      PROVE  SumFunction(f) = 0
  <2>1. CASE S = {}
    BY <1>1, <2>1, SumOnEmpty
  <2>2. CASE S # {}
    <3> DEFINE F == {s \in SUBSET S : SumFunctionOnSet(f, s) # 0}
    <3> SUFFICES ASSUME F # {}
                 PROVE  FALSE
      BY <1>1
    <3>0. F \in SUBSET SUBSET S
      OBVIOUS
    <3> HIDE DEF F
    <3>1. PICK m \in F : \A s \in F : s \subseteq m => s = m
      BY <3>0, SmallestSet
    <3> USE DEF F
    <3>2. m \in SUBSET S /\ SumFunctionOnSet(f, m) # 0 /\ IsFiniteSet(m)
      BY <3>1, FS_Subset
    <3>3. m # {}
      BY <3>2, SumOnEmpty
    <3>4. Rest(m) \in SUBSET S /\ Rest(m) \subseteq m /\ Rest(m) # m /\ Pick(m) \in S
      BY <3>2, <3>3, PickIsIn
    <3>5. SumFunctionOnSet(f, Rest(m)) = 0 /\ f[Pick(m)] = 0
      BY <1>4, <3>1, <3>4
    <3>6. SumFunctionOnSet(f, m) = f[Pick(m)] + SumFunctionOnSet(f, Rest(m))
      BY <3>2, <3>3, SumOnStep
    <3> QED
      BY <3>2, <3>5, <3>6
  <2> QED
    BY <2>1, <2>2
<1> QED
  BY <1>2, <1>3, <1>4

\* A sum changes as much as the one value that changes.
LEMMA SumOneChanges ==
    ASSUME NEW S, IsFiniteSet(S), NEW f, NEW g, DOMAIN f = S, DOMAIN g = S,
           \A x \in S : f[x] \in Int /\ g[x] \in Int, NEW x \in S,
           \A y \in S \ {x} : g[y] = f[y]
    PROVE  /\ SumFunction(f) \in Int /\ SumFunction(g) \in Int
           /\ SumFunction(g) - SumFunction(f) = g[x] - f[x]
<1>1. /\ SumFunction(f) = SumFunctionOnSet(f, S) /\ SumFunction(g) = SumFunctionOnSet(g, S)
      /\ SumFunction(f) \in Int /\ SumFunction(g) \in Int
  BY SumOnInt DEF SumFunction
<1>2. /\ SumFunctionOnSet(f, S) = f[x] + SumFunctionOnSet(f, S \ {x})
      /\ SumFunctionOnSet(g, S) = g[x] + SumFunctionOnSet(g, S \ {x})
  BY SumOnRemove
<1>3. IsFiniteSet(S \ {x})
  BY FS_RemoveElement
<1>4. PICK rest \in Int : /\ SumFunctionOnSet(f, S \ {x}) = rest
                          /\ SumFunctionOnSet(g, S \ {x}) = rest
  <2>1. SumFunctionOnSet(f, S \ {x}) = SumFunctionOnSet(g, S \ {x})
    BY <1>3, SumOnSame
  <2>2. SumFunctionOnSet(f, S \ {x}) \in Int
    BY <1>3, SumOnInt
  <2> QED
    BY <2>1, <2>2
<1> QED
  BY <1>1, <1>2, <1>4

\* So it does when the value is set by EXCEPT,
LEMMA SumExcept ==
    ASSUME NEW S, IsFiniteSet(S), NEW f \in [S -> Int], NEW x \in S, NEW v \in Int
    PROVE  /\ SumFunction(f) \in Int
           /\ SumFunction([f EXCEPT ![x] = v]) = SumFunction(f) - f[x] + v
<1> DEFINE g == [f EXCEPT ![x] = v]
<1>1. /\ DOMAIN g = S /\ g[x] = v /\ \A y \in S \ {x} : g[y] = f[y]
      /\ \A y \in S : f[y] \in Int /\ g[y] \in Int
  OBVIOUS
<1> HIDE DEF g
<1>2. /\ SumFunction(f) \in Int /\ SumFunction(g) \in Int
      /\ SumFunction(g) - SumFunction(f) = g[x] - f[x]
  BY <1>1, SumOneChanges
<1>3. SumFunction(g) = SumFunction(f) - f[x] + v
  BY <1>1, <1>2
<1> QED
  BY <1>2, <1>3 DEF g

\* and when two values change, by both changes.
LEMMA SumTwoChange ==
    ASSUME NEW S, IsFiniteSet(S), NEW f, NEW g, DOMAIN f = S, DOMAIN g = S,
           \A x \in S : f[x] \in Int /\ g[x] \in Int, NEW x \in S, NEW z \in S, x # z,
           \A y \in S \ {x, z} : g[y] = f[y]
    PROVE  /\ SumFunction(f) \in Int /\ SumFunction(g) \in Int
           /\ SumFunction(g) - SumFunction(f) = (g[x] - f[x]) + (g[z] - f[z])
<1> DEFINE h == [y \in S |-> IF y = x THEN g[x] ELSE f[y]]
<1>1. /\ DOMAIN h = S /\ h[x] = g[x] /\ h[z] = f[z] /\ \A y \in S \ {x} : h[y] = f[y]
      /\ \A y \in S \ {z} : g[y] = h[y]
      /\ \A y \in S : h[y] \in Int
  OBVIOUS
<1> HIDE DEF h
<1>2. /\ SumFunction(f) \in Int /\ SumFunction(h) \in Int
      /\ SumFunction(h) - SumFunction(f) = h[x] - f[x]
  BY <1>1, SumOneChanges
<1>3. /\ SumFunction(g) \in Int
      /\ SumFunction(g) - SumFunction(h) = g[z] - h[z]
  <2>1. \A y \in S : h[y] \in Int /\ g[y] \in Int
    BY <1>1
  <2>2. \A y \in S \ {z} : g[y] = h[y]
    BY <1>1
  <2> QED
    BY <1>1, <2>1, <2>2, SumOneChanges
<1> QED
  BY <1>1, <1>2, <1>3

\* The sum of two functions added up.
LEMMA SumOfTwo ==
    ASSUME NEW S, IsFiniteSet(S), NEW f, NEW g, NEW h,
           DOMAIN f = S, DOMAIN g = S, DOMAIN h = S,
           \A x \in S : f[x] \in Int /\ g[x] \in Int /\ h[x] = f[x] + g[x]
    PROVE  /\ SumFunction(f) \in Int /\ SumFunction(g) \in Int
           /\ SumFunction(h) = SumFunction(f) + SumFunction(g)
<1> DEFINE F == {s \in SUBSET S :
                    SumFunctionOnSet(h, s) # SumFunctionOnSet(f, s) + SumFunctionOnSet(g, s)}
<1>0. \A s \in SUBSET S : /\ IsFiniteSet(s)
                          /\ SumFunctionOnSet(f, s) \in Int /\ SumFunctionOnSet(g, s) \in Int
  BY FS_Subset, SumOnInt
<1>1. F = {}
  <2> SUFFICES ASSUME F # {}
               PROVE  FALSE
    OBVIOUS
  <2>0. F \in SUBSET SUBSET S
    OBVIOUS
  <2> HIDE DEF F
  <2>1. PICK m \in F : \A s \in F : s \subseteq m => s = m
    BY <2>0, SmallestSet
  <2> USE DEF F
  <2>2. /\ m \in SUBSET S /\ IsFiniteSet(m)
        /\ SumFunctionOnSet(h, m) # SumFunctionOnSet(f, m) + SumFunctionOnSet(g, m)
    BY <1>0, <2>1
  <2>3. m # {}
    <3> SUFFICES ASSUME m = {}
                 PROVE  FALSE
      OBVIOUS
    <3>1. SumFunctionOnSet(h, m) = 0 /\ SumFunctionOnSet(f, m) = 0 /\ SumFunctionOnSet(g, m) = 0
      BY SumOnEmpty
    <3> QED
      BY <2>2, <3>1
  <2>4. /\ Rest(m) \in SUBSET S /\ Rest(m) \subseteq m /\ Rest(m) # m /\ Pick(m) \in S
    BY <2>2, <2>3, PickIsIn
  <2>5. SumFunctionOnSet(h, Rest(m)) = SumFunctionOnSet(f, Rest(m)) + SumFunctionOnSet(g, Rest(m))
    BY <2>1, <2>4
  <2>6. /\ SumFunctionOnSet(h, m) = h[Pick(m)] + SumFunctionOnSet(h, Rest(m))
        /\ SumFunctionOnSet(f, m) = f[Pick(m)] + SumFunctionOnSet(f, Rest(m))
        /\ SumFunctionOnSet(g, m) = g[Pick(m)] + SumFunctionOnSet(g, Rest(m))
    BY <2>2, <2>3, SumOnStep
  <2>7. PICK a \in Int, b \in Int, c \in Int, d \in Int :
            /\ a = SumFunctionOnSet(f, Rest(m)) /\ b = SumFunctionOnSet(g, Rest(m))
            /\ c = f[Pick(m)] /\ d = g[Pick(m)] /\ h[Pick(m)] = c + d
    BY <1>0, <2>4
  <2>8. (c + d) + (a + b) = (c + a) + (d + b)
    OBVIOUS
  <2> QED
    BY <2>2, <2>5, <2>6, <2>7, <2>8
<1>2. SumFunctionOnSet(h, S) = SumFunctionOnSet(f, S) + SumFunctionOnSet(g, S)
  BY <1>1
<1> QED
  BY <1>0, <1>2 DEF SumFunction

\* Elements that have q each, and those of A one more.
LEMMA SumOfShares ==
    ASSUME NEW f, NEW S, IsFiniteSet(S), NEW q \in Int, NEW A,
           \A x \in S : f[x] = q + (IF x \in A THEN 1 ELSE 0)
    PROVE  SumFunctionOnSet(f, S) = q * Cardinality(S) + Cardinality(S \cap A)
<1> DEFINE F == {s \in SUBSET S :
                    SumFunctionOnSet(f, s) # q * Cardinality(s) + Cardinality(s \cap A)}
<1> SUFFICES ASSUME F # {}
             PROVE  FALSE
  BY Zenon
<1>0. F \in SUBSET SUBSET S
  OBVIOUS
<1> HIDE DEF F
<1>1. PICK m \in F : \A s \in F : s \subseteq m => s = m
  BY <1>0, SmallestSet
<1>2. /\ m \in SUBSET S /\ IsFiniteSet(m)
      /\ SumFunctionOnSet(f, m) # q * Cardinality(m) + Cardinality(m \cap A)
  BY <1>1, FS_Subset DEF F
<1>3. m # {}
  <2> SUFFICES ASSUME m = {}
               PROVE  FALSE
    OBVIOUS
  <2>1. SumFunctionOnSet(f, m) = 0 /\ Cardinality(m) = 0 /\ Cardinality(m \cap A) = 0
    BY SumOnEmpty, FS_EmptySet
  <2>2. q * 0 + 0 = 0
    OBVIOUS
  <2> QED
    BY <1>2, <2>1, <2>2
<1>4. PICK x \in m : TRUE
  BY <1>3
<1> DEFINE s == m \ {x}
<1>5. s \in SUBSET S /\ s \subseteq m /\ s # m /\ IsFiniteSet(s)
  BY <1>2, FS_Subset
<1>6. SumFunctionOnSet(f, s) = q * Cardinality(s) + Cardinality(s \cap A)
  BY <1>1, <1>5 DEF F
<1>7. SumFunctionOnSet(f, m) = f[x] + SumFunctionOnSet(f, s)
  <2>1. \A y \in m : f[y] \in Int
    BY <1>2
  <2> QED
    BY <1>2, <2>1, SumOnRemove
<1>8. PICK c \in Nat : Cardinality(s) = c /\ Cardinality(m) = c + 1
  <2>1. Cardinality(s) = Cardinality(m) - 1 /\ Cardinality(m) \in Nat /\ Cardinality(s) \in Nat
    BY <1>2, <1>5, FS_RemoveElement, FS_CardinalityType
  <2> QED
    BY <2>1
<1>9. PICK a \in Nat : /\ Cardinality(s \cap A) = a
                       /\ Cardinality(m \cap A) = a + (IF x \in A THEN 1 ELSE 0)
  <2>1. IsFiniteSet(m \cap A) /\ IsFiniteSet(s \cap A)
    BY <1>2, <1>5, FS_Intersection
  <2>2. Cardinality(m \cap A) \in Nat /\ Cardinality(s \cap A) \in Nat
    BY <2>1, FS_CardinalityType
  <2>3. s \cap A = (m \cap A) \ {x}
    OBVIOUS
  <2>4. x \in m \cap A <=> x \in A
    BY <1>4
  <2>5. Cardinality((m \cap A) \ {x})
            = IF x \in m \cap A THEN Cardinality(m \cap A) - 1 ELSE Cardinality(m \cap A)
    BY <2>1, FS_RemoveElement
  <2>6. PICK a \in Nat, b \in Nat : a = Cardinality(s \cap A) /\ b = Cardinality(m \cap A)
    BY <2>2
  <2>7. a = IF x \in A THEN b - 1 ELSE b
    BY <2>3, <2>4, <2>5, <2>6
  <2>8. b = a + (IF x \in A THEN 1 ELSE 0)
    BY <2>7
  <2> QED
    BY <2>6, <2>8
<1>10. PICK e \in {0, 1} : f[x] = q + e /\ Cardinality(m \cap A) = a + e
  BY <1>2, <1>9
<1>11. SumFunctionOnSet(f, m) = (q + e) + (q * c + a)
  BY <1>6, <1>7, <1>8, <1>9, <1>10
<1>12. (q + e) + (q * c + a) = q * (c + 1) + (a + e)
  OBVIOUS
<1> QED
  BY <1>2, <1>8, <1>10, <1>11, <1>12

\* A factor common to all elements.
LEMMA SumScaled ==
    ASSUME NEW S, IsFiniteSet(S), NEW f, NEW g, NEW q \in Int,
           \A x \in S : g[x] \in Int /\ f[x] = q * g[x]
    PROVE  SumFunctionOnSet(f, S) = q * SumFunctionOnSet(g, S)
<1> DEFINE F == {s \in SUBSET S : SumFunctionOnSet(f, s) # q * SumFunctionOnSet(g, s)}
<1> SUFFICES ASSUME F # {}
             PROVE  FALSE
  BY Zenon
<1>0. F \in SUBSET SUBSET S
  OBVIOUS
<1> HIDE DEF F
<1>1. PICK m \in F : \A s \in F : s \subseteq m => s = m
  BY <1>0, SmallestSet
<1>2. m \in SUBSET S /\ IsFiniteSet(m) /\ SumFunctionOnSet(f, m) # q * SumFunctionOnSet(g, m)
  BY <1>1, FS_Subset DEF F
<1>3. m # {}
  <2> SUFFICES ASSUME m = {}
               PROVE  FALSE
    OBVIOUS
  <2>1. SumFunctionOnSet(f, m) = 0 /\ SumFunctionOnSet(g, m) = 0
    BY SumOnEmpty
  <2> QED
    BY <1>2, <2>1
<1>4. /\ Rest(m) \in SUBSET S /\ Rest(m) \subseteq m /\ Rest(m) # m /\ Pick(m) \in S
      /\ IsFiniteSet(Rest(m))
  BY <1>2, <1>3, PickIsIn, FS_Subset
<1>5. SumFunctionOnSet(f, Rest(m)) = q * SumFunctionOnSet(g, Rest(m))
  BY <1>1, <1>4 DEF F
<1>6. /\ SumFunctionOnSet(f, m) = f[Pick(m)] + SumFunctionOnSet(f, Rest(m))
      /\ SumFunctionOnSet(g, m) = g[Pick(m)] + SumFunctionOnSet(g, Rest(m))
  BY <1>2, <1>3, SumOnStep
<1>7. \A x \in Rest(m) : g[x] \in Int
  BY <1>4
<1>8. PICK a \in Int, b \in Int : a = g[Pick(m)] /\ b = SumFunctionOnSet(g, Rest(m))
  BY <1>4, <1>7, SumOnInt
<1>9. f[Pick(m)] = q * a
  BY <1>4, <1>8
<1>10. q * a + q * b = q * (a + b)
  OBVIOUS
<1> QED
  BY <1>2, <1>5, <1>6, <1>8, <1>9, <1>10

\* The sum over an interval.
LEMMA SumOnIntervalInt ==
    ASSUME NEW f, NEW c \in Int, NEW d \in Int, \A x \in c .. d : f[x] \in Int
    PROVE  IsFiniteSet(c .. d) /\ SumFunctionOnSet(f, c .. d) \in Int
<1> DEFINE S == c .. d
<1>1. IsFiniteSet(S)
  BY FS_Interval
<1>2. \A x \in S : f[x] \in Int
  OBVIOUS
<1> HIDE DEF S
<1>3. SumFunctionOnSet(f, S) \in Int
  BY <1>1, <1>2, SumOnInt
<1> QED
  BY <1>1, <1>3 DEF S

\* The last element of an interval added last.
LEMMA SumOfLast ==
    ASSUME NEW f, NEW c \in Int, NEW d \in Int, c <= d, \A x \in c .. d : f[x] \in Int
    PROVE  SumFunctionOnSet(f, c .. d) = f[d] + SumFunctionOnSet(f, c .. d - 1)
<1> DEFINE S == c .. d
<1>1. IsFiniteSet(S) /\ d \in S /\ (\A x \in S : f[x] \in Int) /\ S \ {d} = c .. d - 1
  BY FS_Interval
<1> HIDE DEF S
<1>2. SumFunctionOnSet(f, S) = f[d] + SumFunctionOnSet(f, S \ {d})
  BY <1>1, SumOnRemove
<1> QED
  BY <1>1, <1>2 DEF S

\* The sum over an interval of the differences of successive values.
LEMMA SumTelescopes ==
    ASSUME NEW p \in Nat, NEW f, NEW g,
           \A i \in 0 .. p : g[i] \in Int,
           \A i \in 0 .. p - 1 : f[i] \in Int /\ g[i + 1] = g[i] + f[i],
           NEW a \in 0 .. p, NEW b \in a .. p
    PROVE  SumFunctionOnSet(f, a .. b - 1) = g[b] - g[a]
<1> DEFINE S == {c \in a .. p : SumFunctionOnSet(f, a .. c - 1) # g[c] - g[a]}
<1> SUFFICES ASSUME S # {}
             PROVE  FALSE
  BY Zenon
<1>1. S \in SUBSET Nat
  OBVIOUS
<1> HIDE DEF S
<1>2. PICK c \in S : \A d \in S : c <= d
  BY <1>1, SmallestNumber
<1>3. c \in a .. p /\ SumFunctionOnSet(f, a .. c - 1) # g[c] - g[a]
  BY <1>2 DEF S
<1>4. c # a
  <2> SUFFICES ASSUME c = a
               PROVE  FALSE
    OBVIOUS
  <2>1. a .. c - 1 = {} /\ g[a] \in Int
    OBVIOUS
  <2>2. SumFunctionOnSet(f, a .. c - 1) = 0
    BY <2>1, SumOnEmpty
  <2> QED
    BY <1>3, <2>1, <2>2
<1>5. PICK e \in Int : a <= e /\ e <= p - 1 /\ c = e + 1
  <2>1. c - 1 \in Int /\ a <= c - 1 /\ c - 1 <= p - 1 /\ c = (c - 1) + 1
    BY <1>3, <1>4
  <2> QED
    BY <2>1
<1>6. SumFunctionOnSet(f, a .. e - 1) = g[e] - g[a]
  <2>1. e \in a .. p
    BY <1>5
  <2>2. e \notin S
    BY <1>1, <1>2, <1>5
  <2> QED
    BY <2>1, <2>2 DEF S
<1>7. SumFunctionOnSet(f, a .. e) = f[e] + SumFunctionOnSet(f, a .. e - 1)
  <2>1. a \in Int /\ e \in Int /\ a <= e /\ \A x \in a .. e : f[x] \in Int
    BY <1>5
  <2> QED
    BY <2>1, SumOfLast
<1>8. PICK u \in Int, v \in Int, w \in Int : u = f[e] /\ v = g[e] /\ w = g[a] /\ g[c] = v + u
  BY <1>5
<1>9. a .. c - 1 = a .. e
  BY <1>5
<1>10. SumFunctionOnSet(f, a .. c - 1) = u + (v - w) /\ g[c] - g[a] = (v + u) - w
  BY <1>6, <1>7, <1>8, <1>9
<1> QED
  BY <1>3, <1>10

\* The same, with the condition and the result under names.
Telescopes(p, f, g) ==
    /\ p \in Nat
    /\ \A i \in 0 .. p : g[i] \in Int
    /\ \A i \in 0 .. p - 1 : f[i] \in Int /\ g[i + 1] = g[i] + f[i]
SumsTo(p, f, g) ==
    \A a \in 0 .. p : \A b \in a .. p : SumFunctionOnSet(f, a .. b - 1) = g[b] - g[a]

LEMMA SumIsDifference ==
    ASSUME NEW p, NEW f, NEW g, Telescopes(p, f, g)
    PROVE  SumsTo(p, f, g)
<1>1. ASSUME NEW a \in 0 .. p, NEW b \in a .. p
      PROVE  SumFunctionOnSet(f, a .. b - 1) = g[b] - g[a]
  BY SumTelescopes, ZenonT(60) DEF Telescopes
<1> QED
  BY <1>1 DEF SumsTo

\* Elements that have nothing may be left out of a sum.
LEMMA SumOfPositive ==
    ASSUME NEW S, IsFiniteSet(S), NEW f, \A x \in S : f[x] \in Nat
    PROVE  SumFunctionOnSet(f, {x \in S : f[x] > 0}) = SumFunctionOnSet(f, S)
<1> DEFINE Some(s) == {x \in s : f[x] > 0}
           F == {s \in SUBSET S : SumFunctionOnSet(f, Some(s)) # SumFunctionOnSet(f, s)}
<1> SUFFICES ASSUME F # {}
             PROVE  FALSE
  BY Zenon
<1>0. F \in SUBSET SUBSET S
  OBVIOUS
<1> HIDE DEF F
<1>1. PICK m \in F : \A s \in F : s \subseteq m => s = m
  BY <1>0, SmallestSet
<1>2. /\ m \in SUBSET S /\ IsFiniteSet(m)
      /\ SumFunctionOnSet(f, Some(m)) # SumFunctionOnSet(f, m)
  BY <1>1, FS_Subset DEF F
<1>3. m # {}
  <2> SUFFICES ASSUME m = {}
               PROVE  FALSE
    OBVIOUS
  <2>1. Some(m) = m
    OBVIOUS
  <2> HIDE DEF Some
  <2> QED
    BY <1>2, <2>1
<1>4. PICK x \in m : TRUE
  BY <1>3
<1> DEFINE s == m \ {x}
<1>5. s \in SUBSET S /\ s \subseteq m /\ s # m
  BY <1>2
<1>6. SumFunctionOnSet(f, Some(s)) = SumFunctionOnSet(f, s)
  BY <1>1, <1>5 DEF F
<1>7. SumFunctionOnSet(f, m) = f[x] + SumFunctionOnSet(f, s)
  <2>1. \A y \in m : f[y] \in Int
    BY <1>2
  <2> QED
    BY <1>2, <2>1, SumOnRemove
<1>8. CASE f[x] > 0
  <2>1. Some(m) \ {x} = Some(s) /\ x \in Some(m) /\ Some(m) \subseteq m
    BY <1>8
  <2>2. IsFiniteSet(Some(m)) /\ \A y \in Some(m) : f[y] \in Int
    BY <1>2, <2>1, FS_Subset
  <2> HIDE DEF Some, s
  <2>3. SumFunctionOnSet(f, Some(m)) = f[x] + SumFunctionOnSet(f, Some(m) \ {x})
    BY <2>1, <2>2, SumOnRemove
  <2> QED
    BY <1>2, <1>6, <1>7, <2>1, <2>3
<1>9. CASE ~(f[x] > 0)
  <2>1. Some(m) = Some(s) /\ f[x] = 0
    BY <1>2, <1>9
  <2>2. SumFunctionOnSet(f, s) \in Int
    <3>1. IsFiniteSet(s) /\ \A y \in s : f[y] \in Int
      BY <1>2, FS_Subset
    <3> QED
      BY <3>1, SumOnInt
  <2> HIDE DEF Some, s
  <2> QED
    BY <1>2, <1>6, <1>7, <2>1, <2>2
<1> QED
  BY <1>8, <1>9

\* A sum may be taken group by group.
LEMMA SumByGroups ==
    ASSUME NEW f, NEW S, IsFiniteSet(S), \A x \in S : f[x] \in Int,
           NEW V, IsFiniteSet(V), NEW d, \A x \in S : d[x] \in V
    PROVE  /\ \A v \in V : SumFunctionOnSet(f, {x \in S : d[x] = v}) \in Int
           /\ SumFunctionOnSet(f, S) =
                  SumFunction([v \in V |-> SumFunctionOnSet(f, {x \in S : d[x] = v})])
<1> DEFINE Group(s, v) == {x \in s : d[x] = v}
           Groups(s) == [v \in V |-> SumFunctionOnSet(f, Group(s, v))]
           F == {s \in SUBSET S : SumFunctionOnSet(f, s) # SumFunction(Groups(s))}
<1>0. ASSUME NEW s \in SUBSET S
      PROVE  /\ IsFiniteSet(s) /\ SumFunctionOnSet(f, s) \in Int
             /\ \A v \in V : IsFiniteSet(Group(s, v)) /\ SumFunctionOnSet(f, Group(s, v)) \in Int
  <2>1. IsFiniteSet(s) /\ \A v \in V : IsFiniteSet(Group(s, v)) /\ Group(s, v) \subseteq S
    BY FS_Subset
  <2>2. SumFunctionOnSet(f, s) \in Int
    BY <2>1, SumOnInt
  <2>3. ASSUME NEW v \in V
        PROVE  SumFunctionOnSet(f, Group(s, v)) \in Int
    <3>1. \A x \in Group(s, v) : f[x] \in Int
      OBVIOUS
    <3> HIDE DEF Group
    <3> QED
      BY <2>1, <3>1, SumOnInt
  <2> QED
    BY <2>1, <2>2, <2>3
<1>1. F = {}
  <2> SUFFICES ASSUME F # {}
               PROVE  FALSE
    OBVIOUS
  <2>0. F \in SUBSET SUBSET S
    OBVIOUS
  <2> HIDE DEF F
  <2>1. PICK m \in F : \A s \in F : s \subseteq m => s = m
    BY <2>0, SmallestSet
  <2>2. m \in SUBSET S /\ SumFunctionOnSet(f, m) # SumFunction(Groups(m))
    BY <2>1 DEF F
  <2>3. m # {}
    <3> SUFFICES ASSUME m = {}
                 PROVE  FALSE
      OBVIOUS
    <3>1. \A v \in V : Groups(m)[v] = 0
      <4>1. \A v \in V : Group(m, v) = {}
        OBVIOUS
      <4> HIDE DEF Group
      <4> QED
        BY <4>1, SumOnEmpty
    <3>2. Groups(m) \in [V -> Nat]
      <4>1. Groups(m) = [v \in V |-> Groups(m)[v]]
        OBVIOUS
      <4> HIDE DEF Groups
      <4> QED
        BY <3>1, <4>1
    <3> HIDE DEF Groups
    <3>3. SumFunction(Groups(m)) = 0
      BY <3>1, <3>2, SumNat
    <3>4. SumFunctionOnSet(f, m) = 0
      BY SumOnEmpty
    <3> QED
      BY <2>2, <3>3, <3>4
  <2>4. PICK p \in m : TRUE
    BY <2>3
  <2> DEFINE s == m \ {p}
  <2>5. s \in SUBSET S /\ s \subseteq m /\ s # m /\ p \in S /\ d[p] \in V
    BY <2>2, <2>4
  <2>6. SumFunctionOnSet(f, s) = SumFunction(Groups(s))
    BY <2>1, <2>5 DEF F
  <2>7. SumFunctionOnSet(f, m) = f[p] + SumFunctionOnSet(f, s)
    <3>1. IsFiniteSet(m) /\ \A x \in m : f[x] \in Int
      BY <1>0, <2>2
    <3> QED
      BY <3>1, SumOnRemove
  <2>8. \A v \in V \ {d[p]} : Group(m, v) = Group(s, v)
    OBVIOUS
  <2>9. SumFunctionOnSet(f, Group(m, d[p])) = f[p] + SumFunctionOnSet(f, Group(s, d[p]))
    <3>1. Group(s, d[p]) = Group(m, d[p]) \ {p} /\ p \in Group(m, d[p])
      OBVIOUS
    <3>2. IsFiniteSet(Group(m, d[p])) /\ \A x \in Group(m, d[p]) : f[x] \in Int
      BY <1>0, <2>2, <2>5
    <3> HIDE DEF Group
    <3>3. SumFunctionOnSet(f, Group(m, d[p])) = f[p] + SumFunctionOnSet(f, Group(m, d[p]) \ {p})
      BY <3>1, <3>2, SumOnRemove
    <3> QED
      BY <3>1, <3>3
  <2>10. /\ DOMAIN Groups(s) = V /\ DOMAIN Groups(m) = V
         /\ \A v \in V : Groups(s)[v] \in Int /\ Groups(m)[v] \in Int
         /\ \A v \in V \ {d[p]} : Groups(m)[v] = Groups(s)[v]
         /\ Groups(m)[d[p]] = f[p] + Groups(s)[d[p]]
    <3>1. \A v \in V : /\ SumFunctionOnSet(f, Group(s, v)) \in Int
                       /\ SumFunctionOnSet(f, Group(m, v)) \in Int
      BY <1>0, <2>2, <2>5
    <3> HIDE DEF Group
    <3> QED
      BY <2>5, <2>8, <2>9, <3>1
  <2> HIDE DEF Groups
  <2>11. /\ SumFunction(Groups(s)) \in Int /\ SumFunction(Groups(m)) \in Int
         /\ SumFunction(Groups(m)) - SumFunction(Groups(s)) = Groups(m)[d[p]] - Groups(s)[d[p]]
    <3>1. d[p] \in V /\ IsFiniteSet(V)
      BY <2>5
    <3>2. /\ DOMAIN Groups(s) = V /\ DOMAIN Groups(m) = V
          /\ \A v \in V : Groups(s)[v] \in Int /\ Groups(m)[v] \in Int
          /\ \A v \in V \ {d[p]} : Groups(m)[v] = Groups(s)[v]
      BY <2>10
    <3>3. PICK g, h, y : g = Groups(s) /\ h = Groups(m) /\ y = d[p]
      OBVIOUS
    <3>4. /\ DOMAIN g = V /\ DOMAIN h = V
          /\ \A v \in V : g[v] \in Int /\ h[v] \in Int
          /\ y \in V /\ \A v \in V \ {y} : h[v] = g[v]
      BY <3>1, <3>2, <3>3
    <3>5. /\ SumFunction(g) \in Int /\ SumFunction(h) \in Int
          /\ SumFunction(h) - SumFunction(g) = h[y] - g[y]
      BY <3>1, <3>4, SumOneChanges
    <3> QED
      BY <3>3, <3>5
  <2>12. f[p] \in Int /\ Groups(s)[d[p]] \in Int
    BY <2>5, <2>10
  <2>13. SumFunction(Groups(m)) = f[p] + SumFunction(Groups(s))
    BY <2>10, <2>11, <2>12
  <2> QED
    BY <2>2, <2>6, <2>7, <2>13
<1>2. SumFunctionOnSet(f, S) = SumFunction(Groups(S))
  BY <1>1
<1>3. \A v \in V : SumFunctionOnSet(f, Group(S, v)) \in Int
  BY <1>0
<1> QED
  BY <1>2, <1>3

-----------------------------------------------------------------------------
(* Sets in ascending order *)

\* A larger number of a set has more of it below.
LEMMA BelowGrows ==
    ASSUME NEW S \in SUBSET Int, IsFiniteSet(S), NEW c \in S, NEW d \in S, c < d
    PROVE  Cardinality(Below(c, S)) < Cardinality(Below(d, S))
<1>0. c \in Int /\ d \in Int /\ S \subseteq Int
  OBVIOUS
<1>1. Below(c, S) \in SUBSET Below(d, S) /\ c \in Below(d, S) /\ c \notin Below(c, S)
  <2>1. \A x \in S : x < c => x < d
    BY <1>0
  <2>2. ~ c < c
    BY <1>0
  <2> QED
    BY <2>1, <2>2 DEF Below
<1>2. IsFiniteSet(Below(d, S))
  BY FS_Subset DEF Below
<1>3. /\ Cardinality(Below(c, S)) <= Cardinality(Below(d, S))
      /\ Cardinality(Below(c, S)) # Cardinality(Below(d, S))
  BY <1>1, <1>2, FS_Subset
<1>4. Cardinality(Below(c, S)) \in Nat /\ Cardinality(Below(d, S)) \in Nat
  BY <1>1, <1>2, FS_Subset, FS_CardinalityType
<1> QED
  BY <1>3, <1>4

\* For every number of numbers below there is one of the set.
LEMMA EveryRank ==
    ASSUME NEW S \in SUBSET Int, IsFiniteSet(S), NEW i \in 1 .. Cardinality(S)
    PROVE  \E c \in S : Cardinality(Below(c, S)) = i - 1
<1> DEFINE rank == [c \in S |-> Cardinality(Below(c, S))]
           R == 0 .. Cardinality(S) - 1
<1>0. Cardinality(S) \in Nat
  BY FS_CardinalityType
<1>1. ASSUME NEW c \in S
      PROVE  Cardinality(Below(c, S)) \in R
  <2>1. Below(c, S) \in SUBSET S /\ c \notin Below(c, S)
    BY DEF Below
  <2>2. IsFiniteSet(Below(c, S)) /\ Cardinality(Below(c, S)) \in Nat
    BY <2>1, FS_Subset, FS_CardinalityType
  <2>3. Cardinality(Below(c, S)) <= Cardinality(S) /\ Cardinality(Below(c, S)) # Cardinality(S)
    BY <2>1, FS_Subset
  <2> QED
    BY <1>0, <2>2, <2>3
<1>2. \A c, d \in S : rank[c] = rank[d] => c = d
  <2> SUFFICES ASSUME NEW c \in S, NEW d \in S, rank[c] = rank[d], c # d
               PROVE  FALSE
    OBVIOUS
  <2>1. c < d \/ d < c
    OBVIOUS
  <2>2. rank[c] \in Nat /\ rank[d] \in Nat
    BY <1>0, <1>1
  <2>3. rank[c] < rank[d] \/ rank[d] < rank[c]
    BY <2>1, BelowGrows
  <2> QED
    BY <2>2, <2>3
<1>3. rank \in Injection(S, R)
  BY <1>1, <1>2 DEF Injection, IsInjective
<1>4. IsFiniteSet(R) /\ Cardinality(R) = Cardinality(S)
  <2>1. PICK n \in Nat : n = Cardinality(S) /\ n # 0
    BY <1>0
  <2>2. n - 1 \in Int /\ 0 \in Int
    BY <2>1
  <2>3. IsFiniteSet(0 .. n - 1) /\ Cardinality(0 .. n - 1) = IF 0 > n - 1 THEN 0 ELSE (n - 1) - 0 + 1
    BY <2>2, FS_Interval
  <2> QED
    BY <2>1, <2>3
<1>5. rank \in Surjection(S, R)
  BY <1>3, <1>4, FS_Injection
<1>6. i - 1 \in R
  BY <1>0
<1> HIDE DEF R
<1> QED
  BY <1>5, <1>6 DEF Surjection

\* Ascending lists a finite set of numbers: every one, once, in order.
LEMMA AscendingLists ==
    ASSUME NEW S \in SUBSET Int, IsFiniteSet(S)
    PROVE  /\ Cardinality(S) \in Nat
           /\ Ascending(S) \in Seq(S)
           /\ Len(Ascending(S)) = Cardinality(S)
           /\ \A c \in S : \E i \in 1 .. Cardinality(S) : Ascending(S)[i] = c
           /\ \A i, j \in 1 .. Cardinality(S) :
                  i # j => Ascending(S)[i] # Ascending(S)[j]
           /\ \A i, j \in 1 .. Cardinality(S) :
                  i < j => Ascending(S)[i] < Ascending(S)[j]
<1> DEFINE n == Cardinality(S)
           a == Ascending(S)
<1>0. n \in Nat
  BY FS_CardinalityType
<1>1. ASSUME NEW i \in 1 .. n
      PROVE  a[i] \in S /\ Cardinality(Below(a[i], S)) = i - 1
  <2>1. a[i] = CHOOSE c \in S : Cardinality(Below(c, S)) = i - 1
    BY DEF Ascending
  <2>2. \E c \in S : Cardinality(Below(c, S)) = i - 1
    BY EveryRank
  <2> QED
    BY <2>1, <2>2
<1>2. a \in [1 .. n -> S]
  <2>1. a = [i \in 1 .. n |-> a[i]]
    BY DEF Ascending
  <2> HIDE DEF a
  <2> QED
    BY <1>1, <2>1
<1> HIDE DEF a
<1>3. a \in Seq(S) /\ Len(a) = n
  BY <1>0, <1>2
<1>4. \A i, j \in 1 .. n : i # j => a[i] # a[j]
  BY <1>0, <1>1
<1>5. \A c \in S : \E i \in 1 .. n : a[i] = c
  <2>1. a \in Injection(1 .. n, S)
    BY <1>2, <1>4 DEF Injection, IsInjective
  <2>2. Cardinality(1 .. n) = Cardinality(S)
    BY <1>0, FS_Interval
  <2>3. a \in Surjection(1 .. n, S)
    BY <2>1, <2>2, FS_Injection
  <2> QED
    BY <2>3 DEF Surjection
<1>6. ASSUME NEW i \in 1 .. n, NEW j \in 1 .. n, i < j
      PROVE  a[i] < a[j]
  <2>1. a[i] \in S /\ a[j] \in S /\ Cardinality(Below(a[i], S)) = i - 1
        /\ Cardinality(Below(a[j], S)) = j - 1
    BY <1>1
  <2>2. a[i] # a[j]
    BY <1>4, <1>6
  <2>3. ~ a[j] < a[i]
    <3> SUFFICES ASSUME a[j] < a[i]
                 PROVE  FALSE
      OBVIOUS
    <3>1. Cardinality(Below(a[j], S)) < Cardinality(Below(a[i], S))
      BY <2>1, BelowGrows
    <3> QED
      BY <1>6, <2>1, <3>1
  <2>4. a[i] \in Int /\ a[j] \in Int
    BY <2>1
  <2> QED
    BY <2>2, <2>3, <2>4
<1> QED
  BY <1>0, <1>3, <1>4, <1>5, <1>6 DEF a
=============================================================================
