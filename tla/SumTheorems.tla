----------------------------- MODULE SumTheorems -----------------------------
(***************************************************************************)
(* Facts about SumFunction, the sum of the values of an integer function   *)
(* with a finite domain: balances over orders, quantities over ledger      *)
(* entries.  The provers cannot instantiate the library's induction        *)
(* theorems, which take a predicate; instead, a set of counterexamples is  *)
(* shown to be empty because it would have a smallest element.             *)
(***************************************************************************)
EXTENDS Functions, FiniteSets, FiniteSetTheorems, WellFoundedInduction, TLAPS

(* Every set of naturals that is not empty has a least element.            *)
LEMMA LeastNat ==
  ASSUME NEW T \in SUBSET Nat, T # {}
  PROVE  \E n \in T : \A m \in T : n <= m
<1>1. IsWellFoundedOn(OpToRel(<, Nat), Nat)
  BY NatLessThanWellFounded
<1>2. PICK n \in T : \A m \in T : ~(<<m, n>> \in OpToRel(<, Nat))
  BY <1>1, WFMin
<1>3. \A m \in T : ~(m < n)
  BY <1>2 DEF OpToRel
<1> QED
  BY <1>3

(* Every set of subsets of a finite set has a smallest member.             *)
LEMMA SmallestSubset ==
  ASSUME NEW S, IsFiniteSet(S), NEW C \in SUBSET SUBSET S, C # {}
  PROVE  \E s \in C : \A t \in C : Cardinality(s) <= Cardinality(t)
<1> DEFINE T == {n \in Nat : \E s \in C : Cardinality(s) = n}
<1>1. \A s \in C : Cardinality(s) \in Nat
  BY FS_Subset, FS_CardinalityType
<1>2. T # {}
  BY <1>1
<1>3. PICK n \in T : \A m \in T : n <= m
  BY <1>2, LeastNat
<1>4. \A t \in C : n <= Cardinality(t)
  BY <1>1, <1>3
<1> QED
  BY <1>3, <1>4

-----------------------------------------------------------------------------
(* The recursive function behind the fold.                                 *)

Pick(s) == CHOOSE x \in s : TRUE

Equation(g, f, s) == g[s] = IF s = {} THEN 0 ELSE f[Pick(s)] + g[s \ {Pick(s)}]

IsFold(g, f, S) ==
  g = [s \in SUBSET S |-> IF s = {} THEN 0 ELSE f[Pick(s)] + g[s \ {Pick(s)}]]

TheFold(f, S) == CHOOSE g : IsFold(g, f, S)

LEMMA SumIsFold ==
  ASSUME NEW f, NEW S
  PROVE  SumFunctionOnSet(f, S) = TheFold(f, S)[S]
BY DEF SumFunctionOnSet, FoldFunctionOnSet, MapThenFoldSet, TheFold, IsFold, Pick

LEMMA PickInSet == ASSUME NEW s, s # {} PROVE Pick(s) \in s
BY DEF Pick

Below(S, n) == {s \in SUBSET S : Cardinality(s) <= n}

LEMMA SmallerBelow ==
  ASSUME NEW S, IsFiniteSet(S), NEW n \in Nat, NEW s \in SUBSET S, s # {}, Cardinality(s) <= n + 1
  PROVE  s \ {Pick(s)} \in Below(S, n)
<1>1. Pick(s) \in s
  BY PickInSet
<1>2. IsFiniteSet(s)
  BY FS_Subset
<1>3. Cardinality(s) \in Nat /\ Cardinality(s \ {Pick(s)}) = Cardinality(s) - 1
  BY <1>1, <1>2, FS_RemoveElement, FS_CardinalityType
<1> QED
  BY <1>3 DEF Below

(* The fixed point exists: it is built size by size.                       *)
LEMMA FoldExists ==
  ASSUME NEW f, NEW S, IsFiniteSet(S)
  PROVE  \E g : IsFold(g, f, S)
<1> DEFINE Solves(g, n) ==
      g = [s \in Below(S, n) |-> IF s = {} THEN 0 ELSE f[Pick(s)] + g[s \ {Pick(s)}]]
           Unsolved == {n \in Nat : ~ \E g : Solves(g, n)}
<1>1. Unsolved = {}
  <2> SUFFICES ASSUME Unsolved # {} PROVE FALSE
    OBVIOUS
  <2>1. PICK n \in Unsolved : \A m \in Unsolved : n <= m
    <3> HIDE DEF Solves
    <3> QED
      BY LeastNat
  <2>2. n # 0
    <3> SUFFICES ASSUME n = 0 PROVE FALSE
      OBVIOUS
    <3> DEFINE g == [s \in Below(S, n) |-> 0]
    <3>1. \A s \in Below(S, n) : s = {}
      BY FS_Subset, FS_EmptySet, FS_CardinalityType DEF Below
    <3>2. Solves(g, n)
      BY <3>1
    <3> QED
      BY <3>2
  <2>3. n - 1 \in Nat /\ n - 1 \notin Unsolved
    <3> HIDE DEF Solves
    <3> QED
      BY <2>1, <2>2
  <2>4. PICK g : Solves(g, n - 1)
    BY <2>3
  <2> DEFINE h == [s \in Below(S, n) |-> IF s = {} THEN 0 ELSE f[Pick(s)] + g[s \ {Pick(s)}]]
  <2>5. \A s \in Below(S, n) : s # {} => s \ {Pick(s)} \in Below(S, n - 1)
    BY <2>3, SmallerBelow DEF Below
  <2>6. Below(S, n - 1) \subseteq Below(S, n)
    BY FS_Subset, FS_CardinalityType DEF Below
  <2>7. \A s \in Below(S, n - 1) : h[s] = g[s]
    BY <2>4, <2>6
  <2>8. \A s \in Below(S, n) : s # {} => h[s \ {Pick(s)}] = g[s \ {Pick(s)}]
    BY <2>5, <2>7
  <2>9. Solves(h, n)
    BY <2>8
  <2> QED
    BY <2>9
<1>2. Cardinality(S) \in Nat
  BY FS_CardinalityType
<1>3. PICK g : Solves(g, Cardinality(S))
  BY <1>1, <1>2
<1>4. Below(S, Cardinality(S)) = SUBSET S
  BY FS_Subset DEF Below
<1> QED
  BY <1>3, <1>4 DEF IsFold

LEMMA FoldEquation ==
  ASSUME NEW f, NEW S, IsFiniteSet(S)
  PROVE  /\ TheFold(f, S)[{}] = 0
         /\ \A s \in SUBSET S : s # {} =>
              TheFold(f, S)[s] = f[Pick(s)] + TheFold(f, S)[s \ {Pick(s)}]
<1>1. IsFold(TheFold(f, S), f, S)
  BY FoldExists DEF TheFold
<1> HIDE DEF TheFold
<1> DEFINE g == TheFold(f, S)
<1>2. \A s \in SUBSET S : g[s] = IF s = {} THEN 0 ELSE f[Pick(s)] + g[s \ {Pick(s)}]
  BY <1>1 DEF IsFold
<1> QED
  BY <1>2

(* A sum depends on the values at the points that are summed only.         *)
LEMMA FoldsAgree ==
  ASSUME NEW f, NEW h, NEW S, NEW T, IsFiniteSet(S), IsFiniteSet(T),
         NEW s \in SUBSET (S \cap T), \A x \in s : f[x] = h[x]
  PROVE  TheFold(f, S)[s] = TheFold(h, T)[s]
<1> DEFINE C == {t \in SUBSET s : TheFold(f, S)[t] # TheFold(h, T)[t]}
<1> SUFFICES ASSUME C # {} PROVE FALSE
  OBVIOUS
<1>1. IsFiniteSet(s)
  BY FS_Subset
<1>2. PICK t \in C : \A u \in C : Cardinality(t) <= Cardinality(u)
  BY <1>1, SmallestSubset
<1>3. t # {}
  BY <1>2, FoldEquation
<1> DEFINE u == t \ {Pick(t)}
<1>4. Pick(t) \in t /\ IsFiniteSet(t) /\ u \in SUBSET s
  BY <1>1, <1>3, PickInSet, FS_Subset
<1>5. Cardinality(t) \in Nat /\ Cardinality(u) = Cardinality(t) - 1
  BY <1>4, FS_RemoveElement, FS_CardinalityType
<1>6. TheFold(f, S)[u] = TheFold(h, T)[u]
  BY <1>2, <1>4, <1>5
<1>7. t \in SUBSET S /\ t \in SUBSET T
  BY <1>2
<1>8. /\ TheFold(f, S)[t] = f[Pick(t)] + TheFold(f, S)[u]
      /\ TheFold(h, T)[t] = h[Pick(t)] + TheFold(h, T)[u]
  <2> HIDE DEF C
  <2>1. TheFold(f, S)[t] = f[Pick(t)] + TheFold(f, S)[u]
    BY <1>3, <1>7, FoldEquation
  <2>2. TheFold(h, T)[t] = h[Pick(t)] + TheFold(h, T)[u]
    BY <1>3, <1>7, FoldEquation
  <2> QED
    BY <2>1, <2>2
<1>9. f[Pick(t)] = h[Pick(t)]
  BY <1>2, <1>4
<1>10. TheFold(f, S)[t] # TheFold(h, T)[t]
  BY <1>2
<1> HIDE DEF C, u
<1> QED
  BY <1>6, <1>8, <1>9, <1>10

-----------------------------------------------------------------------------
(* Sums over subsets of the domain.                                        *)

LEMMA SumEmpty == ASSUME NEW f PROVE SumFunctionOnSet(f, {}) = 0
BY SumIsFold, FoldEquation, FS_EmptySet

LEMMA SumPick ==
  ASSUME NEW f, NEW S, IsFiniteSet(S), S # {}
  PROVE  SumFunctionOnSet(f, S) = f[Pick(S)] + SumFunctionOnSet(f, S \ {Pick(S)})
<1> DEFINE u == S \ {Pick(S)}
<1>1. IsFiniteSet(u) /\ u \in SUBSET (S \cap u)
  BY FS_RemoveElement
<1>2. TheFold(f, S)[u] = TheFold(f, u)[u]
  BY <1>1, FoldsAgree
<1> QED
  BY <1>2, SumIsFold, FoldEquation

LEMMA SumsAgree ==
  ASSUME NEW f, NEW h, NEW S, IsFiniteSet(S), \A x \in S : f[x] = h[x]
  PROVE  SumFunctionOnSet(f, S) = SumFunctionOnSet(h, S)
<1>1. S \in SUBSET (S \cap S)
  OBVIOUS
<1>2. TheFold(f, S)[S] = TheFold(h, S)[S]
  BY <1>1, FoldsAgree
<1> QED
  BY <1>2, SumIsFold

LEMMA SumInt ==
  ASSUME NEW f, NEW S, IsFiniteSet(S), \A x \in S : f[x] \in Int
  PROVE  SumFunctionOnSet(f, S) \in Int
<1> DEFINE C == {t \in SUBSET S : SumFunctionOnSet(f, t) \notin Int}
<1> SUFFICES ASSUME C # {} PROVE FALSE
  OBVIOUS
<1>1. PICK t \in C : \A u \in C : Cardinality(t) <= Cardinality(u)
  BY SmallestSubset
<1>2. t # {}
  BY <1>1, SumEmpty
<1> DEFINE u == t \ {Pick(t)}
<1>3. Pick(t) \in t /\ IsFiniteSet(t) /\ u \in SUBSET S
  BY <1>2, PickInSet, FS_Subset
<1>4. Cardinality(t) \in Nat /\ Cardinality(u) = Cardinality(t) - 1
  BY <1>3, FS_RemoveElement, FS_CardinalityType
<1>5. SumFunctionOnSet(f, u) \in Int
  BY <1>1, <1>3, <1>4
<1>6. SumFunctionOnSet(f, t) = f[Pick(t)] + SumFunctionOnSet(f, u)
  BY <1>2, <1>3, SumPick
<1> QED
  BY <1>1, <1>3, <1>5, <1>6

(* The order of summation does not matter: any point can be taken out.     *)
LEMMA SumSplit ==
  ASSUME NEW f, NEW S, IsFiniteSet(S), \A x \in S : f[x] \in Int, NEW y \in S
  PROVE  SumFunctionOnSet(f, S) = f[y] + SumFunctionOnSet(f, S \ {y})
<1> DEFINE Sum(t) == SumFunctionOnSet(f, t)
           C == {t \in SUBSET S : \E z \in t : Sum(t) # f[z] + Sum(t \ {z})}
<1> SUFFICES ASSUME C # {} PROVE FALSE
  OBVIOUS
<1>1. PICK t \in C : \A u \in C : Cardinality(t) <= Cardinality(u)
  <2> HIDE DEF Sum
  <2> QED
    BY SmallestSubset
<1>2. PICK z \in t : Sum(t) # f[z] + Sum(t \ {z})
  BY <1>1
<1> DEFINE x == Pick(t)
<1>3. x \in t /\ t \in SUBSET S /\ IsFiniteSet(t)
  BY <1>2, PickInSet, FS_Subset
<1>4. Sum(t) = f[x] + Sum(t \ {x})
  BY <1>2, <1>3, SumPick
<1>5. x # z
  BY <1>2, <1>4
<1>6. \A v \in t : IsFiniteSet(t \ {v}) /\ Cardinality(t \ {v}) = Cardinality(t) - 1
  BY <1>3, FS_RemoveElement
<1>7. Cardinality(t) \in Nat
  BY <1>3, FS_CardinalityType
<1>8. \A v \in t : t \ {v} \notin C
  <2> HIDE DEF C
  <2> QED
    BY <1>1, <1>6, <1>7
<1>9. \A v, w \in t : v # w => Sum(t \ {v}) = f[w] + Sum((t \ {v}) \ {w})
  <2> SUFFICES ASSUME NEW v \in t, NEW w \in t, v # w, Sum(t \ {v}) # f[w] + Sum((t \ {v}) \ {w})
      PROVE  FALSE
    OBVIOUS
  <2>1. t \ {v} \in SUBSET S /\ w \in t \ {v}
    BY <1>3
  <2> HIDE DEF Sum
  <2> QED
    BY <1>8, <2>1
<1>10. (t \ {x}) \ {z} = (t \ {z}) \ {x}
  OBVIOUS
<1>11. /\ Sum(t \ {x}) = f[z] + Sum((t \ {x}) \ {z})
       /\ Sum(t \ {z}) = f[x] + Sum((t \ {x}) \ {z})
  BY <1>3, <1>5, <1>9, <1>10
<1>12. Sum((t \ {x}) \ {z}) \in Int /\ f[x] \in Int /\ f[z] \in Int
  <2>1. (t \ {x}) \ {z} \in SUBSET S /\ IsFiniteSet((t \ {x}) \ {z})
    BY <1>3, <1>6, FS_RemoveElement
  <2> QED
    BY <1>3, <2>1, SumInt
<1> HIDE DEF Sum, x
<1> QED
  BY <1>2, <1>4, <1>11, <1>12

-----------------------------------------------------------------------------
(* Sums of functions.                                                      *)

THEOREM SumFunctionInt ==
  ASSUME NEW S, IsFiniteSet(S), NEW f \in [S -> Int]
  PROVE  SumFunction(f) \in Int
BY SumInt DEF SumFunction

THEOREM SumFunctionZero ==
  ASSUME NEW S, IsFiniteSet(S), NEW f \in [S -> Int], \A x \in S : f[x] = 0
  PROVE  SumFunction(f) = 0
<1> DEFINE C == {t \in SUBSET S : SumFunctionOnSet(f, t) # 0}
<1> SUFFICES ASSUME C # {} PROVE FALSE
  BY DEF SumFunction
<1>1. PICK t \in C : \A u \in C : Cardinality(t) <= Cardinality(u)
  BY SmallestSubset
<1>2. t # {}
  BY <1>1, SumEmpty
<1> DEFINE u == t \ {Pick(t)}
<1>3. Pick(t) \in t /\ IsFiniteSet(t) /\ u \in SUBSET S
  BY <1>2, PickInSet, FS_Subset
<1>4. Cardinality(t) \in Nat /\ Cardinality(u) = Cardinality(t) - 1
  BY <1>3, FS_RemoveElement, FS_CardinalityType
<1>5. SumFunctionOnSet(f, u) = 0
  BY <1>1, <1>3, <1>4
<1>6. SumFunctionOnSet(f, t) = f[Pick(t)] + SumFunctionOnSet(f, u)
  BY <1>2, <1>3, SumPick
<1> QED
  BY <1>1, <1>3, <1>5, <1>6

(* Changing one value changes the sum by as much: what a step that writes  *)
(* one row does to a total over all rows.                                  *)
THEOREM SumFunctionUpdate ==
  ASSUME NEW S, IsFiniteSet(S), NEW f \in [S -> Int], NEW g \in [S -> Int], NEW y \in S,
         \A x \in S \ {y} : g[x] = f[x]
  PROVE  SumFunction(g) = SumFunction(f) - f[y] + g[y]
<1>1. IsFiniteSet(S \ {y})
  BY FS_RemoveElement
<1>2. SumFunctionOnSet(f, S \ {y}) = SumFunctionOnSet(g, S \ {y})
  BY <1>1, SumsAgree
<1>3. SumFunctionOnSet(f, S \ {y}) \in Int
  BY <1>1, SumInt
<1>4. /\ SumFunction(f) = f[y] + SumFunctionOnSet(f, S \ {y})
      /\ SumFunction(g) = g[y] + SumFunctionOnSet(g, S \ {y})
  BY SumSplit DEF SumFunction
<1>5. f[y] \in Int /\ g[y] \in Int
  OBVIOUS
<1> QED
  BY <1>2, <1>3, <1>4, <1>5

(* One more point, as in a ledger of one more entry: the sum grows by its  *)
(* value.                                                                  *)
THEOREM SumFunctionExtend ==
  ASSUME NEW S, IsFiniteSet(S), NEW y \in S,
         NEW T \in SUBSET S, y \notin T, \A x \in S : x = y \/ x \in T,
         NEW f \in [T -> Int], NEW g \in [S -> Int], \A x \in T : g[x] = f[x]
  PROVE  SumFunction(g) = SumFunction(f) + g[y]
<1>1. T = S \ {y} /\ IsFiniteSet(T)
  BY FS_RemoveElement
<1>2. SumFunction(g) = g[y] + SumFunctionOnSet(g, T)
  BY <1>1, SumSplit DEF SumFunction
<1>3. SumFunctionOnSet(g, T) = SumFunctionOnSet(f, T)
  BY <1>1, SumsAgree
<1>4. SumFunctionOnSet(f, T) \in Int /\ g[y] \in Int
  BY <1>1, SumInt
<1> QED
  BY <1>2, <1>3, <1>4 DEF SumFunction

(* Summing the sizes of a family of sets counts the pairs of an index and  *)
(* a member.                                                               *)
THEOREM SumOfCardinalities ==
  ASSUME NEW R, IsFiniteSet(R), NEW M, IsFiniteSet(M), NEW P \in [R -> SUBSET M],
         NEW f, f = [y \in R |-> Cardinality(P[y])]
  PROVE  SumFunction(f) = Cardinality({v \in R \X M : v[2] \in P[v[1]]})
<1> DEFINE Pairs(t) == {v \in t \X M : v[2] \in P[v[1]]}
           Sizes(t) == [y \in t |-> Cardinality(P[y])]
           C == {t \in SUBSET R : SumFunction(Sizes(t)) # Cardinality(Pairs(t))}
<1> SUFFICES ASSUME C # {} PROVE FALSE
  OBVIOUS
<1>1. PICK t \in C : \A u \in C : Cardinality(t) <= Cardinality(u)
  <2> HIDE DEF Pairs, Sizes
  <2> QED
    BY SmallestSubset
<1>2. \A y \in R : P[y] \subseteq M /\ IsFiniteSet(P[y]) /\ Cardinality(P[y]) \in Nat
  BY FS_Subset, FS_CardinalityType
<1>3. t \subseteq R /\ IsFiniteSet(t)
  BY FS_Subset
<1>4. ASSUME NEW u \in SUBSET R, IsFiniteSet(u)
      PROVE  Sizes(u) \in [u -> Int] /\ IsFiniteSet(Pairs(u)) /\ Cardinality(Pairs(u)) \in Nat
  <2>1. Sizes(u) \in [u -> Int]
    BY <1>2
  <2>2. IsFiniteSet(u \X M)
    BY <1>4, FS_Product
  <2>3. Pairs(u) \in SUBSET (u \X M)
    OBVIOUS
  <2> QED
    BY <2>1, <2>2, <2>3, FS_Subset, FS_CardinalityType
<1>5. t # {}
  <2> SUFFICES ASSUME t = {} PROVE FALSE
    OBVIOUS
  <2>1. Pairs(t) = {} /\ Cardinality(Pairs(t)) = 0
    BY FS_EmptySet
  <2>2. SumFunction(Sizes(t)) = 0
    BY <1>3, <1>4, SumFunctionZero
  <2> QED
    BY <2>1, <2>2
<1>6. PICK y : y \in t
  BY <1>5
<1> DEFINE u == t \ {y}
<1>7. u \in SUBSET R /\ IsFiniteSet(u) /\ Cardinality(u) < Cardinality(t)
  <2>1. IsFiniteSet(t \ {y}) /\ Cardinality(t \ {y}) = Cardinality(t) - 1
    BY <1>3, <1>6, FS_RemoveElement
  <2>2. Cardinality(t) \in Nat
    BY <1>3, FS_CardinalityType
  <2> QED
    BY <1>3, <2>1, <2>2
<1>8. u \notin C
  BY <1>1, <1>7, FS_CardinalityType, <1>3
<1>9. SumFunction(Sizes(u)) = Cardinality(Pairs(u))
  BY <1>7, <1>8
<1>10. SumFunction(Sizes(t)) = SumFunction(Sizes(u)) + Cardinality(P[y])
  <2>1. Sizes(t)[y] = Cardinality(P[y]) /\ \A x \in u : Sizes(t)[x] = Sizes(u)[x]
    BY <1>6
  <2>2. u \in SUBSET t /\ y \notin u /\ \A x \in t : x = y \/ x \in u
    OBVIOUS
  <2>3. Sizes(u) \in [u -> Int] /\ Sizes(t) \in [t -> Int]
    BY <1>3, <1>4, <1>7
  <2> HIDE DEF Sizes, u
  <2> QED
    BY <1>3, <1>6, <2>1, <2>2, <2>3, SumFunctionExtend
<1>11. Cardinality(Pairs(t)) = Cardinality(Pairs(u)) + Cardinality(P[y])
  <2>1. Pairs(t) = Pairs(u) \cup ({y} \X P[y])
    BY <1>2, <1>3, <1>6
  <2>2. Pairs(u) \cap ({y} \X P[y]) = {}
    OBVIOUS
  <2>3. IsFiniteSet({y}) /\ Cardinality({y}) = 1
    BY FS_Singleton
  <2>4. IsFiniteSet({y} \X P[y]) /\ Cardinality({y} \X P[y]) = Cardinality({y}) * Cardinality(P[y])
    BY <1>2, <1>3, <1>6, <2>3, FS_Product
  <2>5. Cardinality({y} \X P[y]) = Cardinality(P[y])
    BY <1>2, <1>3, <1>6, <2>3, <2>4
  <2>6. IsFiniteSet(Pairs(u))
    BY <1>4, <1>7
  <2>7. Cardinality({}) = 0 /\ Cardinality(Pairs(u)) \in Nat /\ Cardinality(P[y]) \in Nat
    BY <1>2, <1>3, <1>4, <1>6, <1>7, FS_EmptySet
  <2> HIDE DEF Pairs, u
  <2>8. Cardinality(Pairs(u) \cup ({y} \X P[y]))
          = Cardinality(Pairs(u)) + Cardinality({y} \X P[y]) - Cardinality(Pairs(u) \cap ({y} \X P[y]))
    BY <2>4, <2>6, FS_Union
  <2> QED
    <3>1. PICK S : S = Pairs(u)
      OBVIOUS
    <3>2. PICK T : T = {y} \X P[y]
      OBVIOUS
    <3>3. Cardinality(S \cup T) = Cardinality(S) + Cardinality(T) - Cardinality(S \cap T)
      BY <2>8, <3>1, <3>2
    <3>4. S \cap T = {} /\ Cardinality(S) \in Nat /\ Cardinality(T) = Cardinality(P[y])
      BY <2>2, <2>5, <2>7, <3>1, <3>2
    <3>5. Cardinality(S \cap T) = 0 /\ Cardinality(P[y]) \in Nat
      BY <2>7, <3>4, Zenon
    <3>6. Cardinality(S \cup T) = Cardinality(S) + Cardinality(P[y])
      <4>1. PICK n : n = Cardinality(S \cap T)
        OBVIOUS
      <4> QED
        BY <3>3, <3>4, <3>5, <4>1
    <3> QED
      BY <2>1, <3>1, <3>2, <3>6
<1> QED
  BY <1>1, <1>9, <1>10, <1>11
==============================================================================
