----------------------------- MODULE SumTheorems -----------------------------
(***************************************************************************)
(* Sums of the values of a function over a finite set, as the quotas and   *)
(* ledgers of the models take them (SumFunctionOnSet of Functions).        *)
(*                                                                         *)
(* The induction theorems of the library take an operator.  Here sets      *)
(* stand for the predicates: a set of counterexamples has a least one.     *)
(***************************************************************************)
EXTENDS Integers, FiniteSets, Functions, FiniteSetTheorems, WellFoundedInduction, TLAPS

(* Every set of naturals has a least one.                                   *)
LEMMA LeastNumber ==
  ASSUME NEW B, B \subseteq Nat, B # {}
  PROVE  \E n \in B : \A m \in B : n <= m
<1>1. IsWellFoundedOn(OpToRel(<, Nat), Nat)
  BY NatLessThanWellFounded, Zenon
<1>2. PICK n \in B : \A m \in B : <<m, n>> \notin OpToRel(<, Nat)
  BY <1>1, WFMin
<1>3. \A m \in B : ~(m < n)
  BY <1>2 DEF OpToRel
<1> QED
  BY <1>3

(* Every set of subsets of a finite set has a minimal one.                  *)
LEMMA MinimalSubset ==
  ASSUME NEW S, IsFiniteSet(S), NEW B, B \subseteq SUBSET S, B # {}
  PROVE  \E T \in B : \A U \in B : U \subseteq T => U = T
<1>1. IsWellFoundedOn(StrictSubsetOrdering(S), SUBSET S)
  BY FS_StrictSubsetOrderingWellFounded, FS_FiniteSubsetsOfFinite
<1>2. PICK T \in B : \A U \in B : <<U, T>> \notin StrictSubsetOrdering(S)
  BY <1>1, WFMin
<1>3. \A U \in B : U \subseteq T => U = T
  BY <1>2 DEF StrictSubsetOrdering
<1> QED
  BY <1>3

-----------------------------------------------------------------------------
(* The step of the recursion that defines a sum, and what it is a step of.  *)
First(s)      == CHOOSE x \in s : TRUE
Step(f, g, s) == IF s = {} THEN 0 ELSE f[First(s)] + g[s \ {First(s)}]
SumsOf(f, S)  == CHOOSE g : g = [s \in SUBSET S |-> Step(f, g, s)]

LEMMA SumIsStep == ASSUME NEW f, NEW S PROVE SumFunctionOnSet(f, S) = SumsOf(f, S)[S]
BY DEF SumFunctionOnSet, FoldFunctionOnSet, MapThenFoldSet, SumsOf, Step, First

LEMMA FirstIn == ASSUME NEW s, s # {} PROVE First(s) \in s
BY DEF First

(* Values on the subsets of S that follow the recursion. *)
Sums(f, S, g) == g \in [SUBSET S -> Int] /\ \A s \in SUBSET S : g[s] = Step(f, g, s)

(* The recursion has a solution: up to any number of elements, hence all.    *)
LEMMA SumsExist ==
  ASSUME NEW S, IsFiniteSet(S), NEW f, \A x \in S : f[x] \in Int
  PROVE  Sums(f, S, SumsOf(f, S))
<1> DEFINE Upto(g, n) == \A s \in SUBSET S : Cardinality(s) <= n => g[s] = Step(f, g, s)
           B == {n \in Nat : \A g \in [SUBSET S -> Int] : ~Upto(g, n)}
<1>1. \A s \in SUBSET S : IsFiniteSet(s) /\ Cardinality(s) \in Nat /\ Cardinality(s) <= Cardinality(S)
  BY FS_Subset, FS_CardinalityType
<1>2. \A s \in SUBSET S : s # {} =>
        /\ First(s) \in S /\ s \ {First(s)} \in SUBSET S
        /\ Cardinality(s \ {First(s)}) = Cardinality(s) - 1
  BY <1>1, FirstIn, FS_RemoveElement
<1>3. \A g \in [SUBSET S -> Int], s \in SUBSET S : Step(f, g, s) \in Int
  <2> SUFFICES ASSUME NEW g \in [SUBSET S -> Int], NEW s \in SUBSET S, s # {}
               PROVE  f[First(s)] + g[s \ {First(s)}] \in Int
    BY DEF Step
  <2>1. f[First(s)] \in Int /\ g[s \ {First(s)}] \in Int
    BY <1>2
  <2> QED
    BY <2>1
<1>4. \A n \in Nat : \E g \in [SUBSET S -> Int] : Upto(g, n)
  <2>1. SUFFICES ASSUME B # {} PROVE FALSE
    OBVIOUS
  <2>2. PICK n \in B : \A m \in B : n <= m
    <3>1. B \subseteq Nat
      OBVIOUS
    <3> HIDE DEF B
    <3> QED
      BY <2>1, <3>1, LeastNumber
  <2>3. n \in Nat /\ \A g \in [SUBSET S -> Int] : ~Upto(g, n)
    BY <2>2
  <2>4. n # 0
    <3>1. \A s \in SUBSET S : Cardinality(s) <= 0 => s = {}
      BY <1>1, FS_EmptySet
    <3>2. Upto([s \in SUBSET S |-> 0], 0)
      BY <3>1 DEF Step
    <3> QED
      BY <2>3, <3>2
  <2>5. PICK g \in [SUBSET S -> Int] : Upto(g, n - 1)
    <3>1. n - 1 \in Nat /\ ~(n <= n - 1)
      BY <2>3, <2>4
    <3>2. n - 1 \notin B
      <4> HIDE DEF B
      <4> QED
        BY <2>2, <3>1
    <3> QED
      BY <3>1, <3>2
  <2> DEFINE h == [s \in SUBSET S |-> IF Cardinality(s) = n THEN Step(f, g, s) ELSE g[s]]
  <2>6. h \in [SUBSET S -> Int]
    BY <1>3
  <2>7. \A s \in SUBSET S : Cardinality(s) <= n => Step(f, h, s) = Step(f, g, s)
    <3> SUFFICES ASSUME NEW s \in SUBSET S, Cardinality(s) <= n, s # {}
                 PROVE  h[s \ {First(s)}] = g[s \ {First(s)}]
      BY DEF Step
    <3> QED
      BY <1>1, <1>2, <2>3
  <2>8. Upto(h, n)
    <3> SUFFICES ASSUME NEW s \in SUBSET S, Cardinality(s) <= n PROVE h[s] = Step(f, h, s)
      OBVIOUS
    <3>1. Cardinality(s) # n => Cardinality(s) <= n - 1
      BY <1>1, <2>3
    <3> HIDE DEF Upto
    <3>2. Cardinality(s) # n => g[s] = Step(f, g, s)
      BY <2>5, <3>1 DEF Upto
    <3> QED
      BY <2>7, <3>2
  <2> QED
    BY <2>3, <2>6, <2>8
<1>5. PICK g \in [SUBSET S -> Int] : Upto(g, Cardinality(S))
  BY <1>1, <1>4
<1>6. g = [s \in SUBSET S |-> Step(f, g, s)]
  BY <1>1, <1>5
<1>7. SumsOf(f, S) = [s \in SUBSET S |-> Step(f, SumsOf(f, S), s)]
  BY <1>6 DEF SumsOf
<1> DEFINE h == SumsOf(f, S)
<1>8. h \in [SUBSET S -> Int]
  <2> DEFINE C == {s \in SUBSET S : h[s] \notin Int}
  <2>1. \A s \in SUBSET S : h[s] = Step(f, h, s)
    BY <1>7
  <2>2. SUFFICES ASSUME C # {} PROVE FALSE
    BY <1>7
  <2>3. PICK s \in C : \A u \in C : u \subseteq s => u = s
    <3>1. C \subseteq SUBSET S
      OBVIOUS
    <3> HIDE DEF C
    <3> QED
      BY <2>2, <3>1, MinimalSubset
  <2>4. s \in SUBSET S /\ h[s] \notin Int
    OBVIOUS
  <2>5. s # {}
    <3> HIDE DEF h
    <3>1. s = {} => h[s] = 0
      BY <2>1, <2>4 DEF Step
    <3> QED
      BY <2>4, <3>1
  <2>6. s \ {First(s)} \subseteq s /\ s \ {First(s)} # s /\ f[First(s)] \in Int
    BY <1>2, <2>5, <2>4, FirstIn
  <2>7. h[s \ {First(s)}] \in Int
    BY <2>3, <2>4, <2>6
  <2>8. h[s] = f[First(s)] + h[s \ {First(s)}]
    BY <2>1, <2>4, <2>5 DEF Step
  <2> HIDE DEF h
  <2> QED
    BY <2>4, <2>6, <2>7, <2>8
<1> HIDE DEF Upto, B
<1> QED
  BY <1>7, <1>8 DEF Sums

(* Solutions agree wherever both are defined. *)
LEMMA SumsAgree ==
  ASSUME NEW S, IsFiniteSet(S), NEW f, NEW T \in SUBSET S, NEW g, NEW h,
         Sums(f, T, g), Sums(f, S, h)
  PROVE  g[T] = h[T]
<1> DEFINE B == {s \in SUBSET T : g[s] # h[s]}
<1>1. SUFFICES ASSUME B # {} PROVE FALSE
  OBVIOUS
<1>2. IsFiniteSet(T) /\ B \subseteq SUBSET T
  BY FS_Subset
<1>3. PICK s \in B : \A u \in B : u \subseteq s => u = s
  <2> HIDE DEF B
  <2> QED
    BY <1>1, <1>2, MinimalSubset
<1>4. s \in SUBSET T /\ s \in SUBSET S /\ g[s] # h[s]
  OBVIOUS
<1>5. g[s] = Step(f, g, s) /\ h[s] = Step(f, h, s)
  BY <1>4 DEF Sums
<1>6. s # {}
  BY <1>4, <1>5 DEF Step
<1>7. g[s \ {First(s)}] = h[s \ {First(s)}]
  <2>1. s \ {First(s)} \subseteq s /\ s \ {First(s)} # s /\ s \ {First(s)} \in SUBSET T
    BY <1>4, <1>6, FirstIn
  <2> QED
    BY <1>3, <2>1
<1> QED
  BY <1>4, <1>5, <1>7 DEF Step

LEMMA SumOnSubset ==
  ASSUME NEW S, IsFiniteSet(S), NEW f, \A x \in S : f[x] \in Int, NEW T \in SUBSET S
  PROVE  SumFunctionOnSet(f, T) = SumsOf(f, S)[T]
<1>1. IsFiniteSet(T) /\ \A x \in T : f[x] \in Int
  BY FS_Subset
<1>2. Sums(f, T, SumsOf(f, T)) /\ Sums(f, S, SumsOf(f, S))
  BY <1>1, SumsExist
<1> QED
  BY <1>2, SumsAgree, SumIsStep

(* The sum over no elements, and what one element adds. *)
LEMMA SumEmpty == ASSUME NEW f PROVE SumFunctionOnSet(f, {}) = 0
<1>1. IsFiniteSet({}) /\ \A x \in {} : f[x] \in Int
  BY FS_EmptySet
<1>2. Sums(f, {}, SumsOf(f, {}))
  BY <1>1, SumsExist
<1> QED
  BY <1>2, SumIsStep DEF Sums, Step

LEMMA SumInt ==
  ASSUME NEW S, IsFiniteSet(S), NEW f, \A x \in S : f[x] \in Int
  PROVE  SumFunctionOnSet(f, S) \in Int
BY SumsExist, SumIsStep DEF Sums

LEMMA SumRemove ==
  ASSUME NEW S, IsFiniteSet(S), NEW f, \A x \in S : f[x] \in Int, NEW x \in S
  PROVE  SumFunctionOnSet(f, S) = f[x] + SumFunctionOnSet(f, S \ {x})
<1> DEFINE g == SumsOf(f, S)
           Taken(s, y) == g[s] = f[y] + g[s \ {y}]
           B == {s \in SUBSET S : \E y \in s : ~Taken(s, y)}
<1>1. Sums(f, S, g)
  BY SumsExist
<1> HIDE DEF g
<1>2. SUFFICES Taken(S, x)
  BY SumOnSubset DEF g
<1>3. SUFFICES ASSUME B # {} PROVE FALSE
  OBVIOUS
<1>4. PICK s \in B : \A u \in B : u \subseteq s => u = s
  <2>1. B \subseteq SUBSET S
    OBVIOUS
  <2> HIDE DEF B
  <2> QED
    BY <1>3, <2>1, MinimalSubset
<1>5. PICK y \in s : ~Taken(s, y)
  OBVIOUS
<1> DEFINE c == First(s)
<1>6. s \in SUBSET S /\ c \in s /\ g[s] = f[c] + g[s \ {c}]
  BY <1>1, FirstIn DEF Sums, Step
<1> HIDE DEF c
<1>7. c # y
  BY <1>5, <1>6
<1>8. \A u \in SUBSET S : u \subseteq s /\ u # s => \A z \in u : Taken(u, z)
  BY <1>4
<1>9. Taken(s \ {c}, y) /\ Taken(s \ {y}, c)
  <2>1. \A z, t \in s : z # t => /\ s \ {z} \in SUBSET S /\ s \ {z} \subseteq s /\ s \ {z} # s
                                 /\ t \in s \ {z}
    BY <1>6
  <2> HIDE DEF Taken
  <2> QED
    BY <1>6, <1>7, <1>8, <2>1
<1>10. (s \ {c}) \ {y} = (s \ {y}) \ {c}
  OBVIOUS
<1>11. f[c] \in Int /\ f[y] \in Int /\ g[(s \ {c}) \ {y}] \in Int
  <2>1. (s \ {c}) \ {y} \in SUBSET S /\ c \in S /\ y \in S
    BY <1>6
  <2> QED
    BY <1>1, <2>1 DEF Sums
<1> DEFINE rest == g[(s \ {c}) \ {y}]
<1>12. g[s \ {c}] = f[y] + rest /\ g[s \ {y}] = f[c] + rest
  BY <1>9, <1>10
<1> HIDE DEF rest
<1>13. rest \in Int
  BY <1>11 DEF rest
<1> QED
  BY <1>5, <1>6, <1>11, <1>12, <1>13

LEMMA SumAdd ==
  ASSUME NEW S, IsFiniteSet(S), NEW x, x \notin S, NEW f, \A y \in S \cup {x} : f[y] \in Int
  PROVE  SumFunctionOnSet(f, S \cup {x}) = SumFunctionOnSet(f, S) + f[x]
<1>1. IsFiniteSet(S \cup {x}) /\ (S \cup {x}) \ {x} = S /\ x \in S \cup {x}
  BY FS_AddElement
<1>2. SumFunctionOnSet(f, S \cup {x}) = f[x] + SumFunctionOnSet(f, S)
  BY <1>1, SumRemove
<1>3. SumFunctionOnSet(f, S) \in Int
  BY SumInt
<1> QED
  BY <1>2, <1>3

(* The sum depends only on the values it adds up. *)
LEMMA SumSame ==
  ASSUME NEW S, IsFiniteSet(S), NEW f, NEW g, \A x \in S : f[x] \in Int /\ f[x] = g[x]
  PROVE  SumFunctionOnSet(f, S) = SumFunctionOnSet(g, S)
<1> DEFINE B == {s \in SUBSET S : SumFunctionOnSet(f, s) # SumFunctionOnSet(g, s)}
<1>1. SUFFICES ASSUME B # {} PROVE FALSE
  OBVIOUS
<1>2. PICK s \in B : \A u \in B : u \subseteq s => u = s
  <2>1. B \subseteq SUBSET S
    OBVIOUS
  <2> HIDE DEF B
  <2> QED
    BY <1>1, <2>1, MinimalSubset
<1>3. s \in SUBSET S /\ SumFunctionOnSet(f, s) # SumFunctionOnSet(g, s) /\ IsFiniteSet(s)
  BY FS_Subset
<1>4. PICK x \in s : TRUE
  BY <1>3, SumEmpty
<1>5. SumFunctionOnSet(f, s \ {x}) = SumFunctionOnSet(g, s \ {x})
  <2>1. s \ {x} \in SUBSET S /\ s \ {x} \subseteq s /\ s \ {x} # s
    BY <1>3
  <2> QED
    BY <1>2, <2>1
<1>6. \A y \in s : f[y] \in Int /\ g[y] \in Int /\ f[y] = g[y]
  BY <1>3
<1>7. /\ SumFunctionOnSet(f, s) = f[x] + SumFunctionOnSet(f, s \ {x})
      /\ SumFunctionOnSet(g, s) = g[x] + SumFunctionOnSet(g, s \ {x})
  BY <1>3, <1>6, SumRemove
<1> QED
  BY <1>3, <1>5, <1>6, <1>7

(* Fewer numbers have no greater sum. *)
LEMMA SumSubset ==
  ASSUME NEW S, IsFiniteSet(S), NEW f, \A x \in S : f[x] \in Nat, NEW T \in SUBSET S
  PROVE  /\ SumFunctionOnSet(f, T) \in Nat
         /\ SumFunctionOnSet(f, T) <= SumFunctionOnSet(f, S)
<1> DEFINE Below(u, s) == /\ SumFunctionOnSet(f, u) \in Nat
                          /\ SumFunctionOnSet(f, u) <= SumFunctionOnSet(f, s)
           B == {s \in SUBSET S : \E u \in SUBSET s : ~Below(u, s)}
<1>1. SUFFICES ASSUME B # {} PROVE FALSE
  OBVIOUS
<1>2. PICK s \in B : \A u \in B : u \subseteq s => u = s
  <2>1. B \subseteq SUBSET S
    OBVIOUS
  <2> HIDE DEF B
  <2> QED
    BY <1>1, <2>1, MinimalSubset
<1>3. PICK u \in SUBSET s : ~Below(u, s)
  OBVIOUS
<1>4. s \in SUBSET S /\ IsFiniteSet(s) /\ \A x \in s : f[x] \in Nat
  BY FS_Subset
<1>5. \A x \in s : \A t \in SUBSET (s \ {x}) : Below(t, s \ {x})
  <2> TAKE x \in s
  <2>1. s \ {x} \in SUBSET S /\ s \ {x} \subseteq s /\ s \ {x} # s
    BY <1>4
  <2> HIDE DEF Below
  <2> QED
    BY <1>2, <2>1
<1>6. \A x \in s : SumFunctionOnSet(f, s) = f[x] + SumFunctionOnSet(f, s \ {x})
  BY <1>4, SumRemove
<1>7. SumFunctionOnSet(f, s) \in Int
  BY <1>4, SumInt
<1>8. CASE u = s
  <2>1. CASE s = {}
    BY <1>3, <1>8, <2>1, SumEmpty
  <2>2. ASSUME NEW x \in s PROVE Below(s, s)
    <3>1. SumFunctionOnSet(f, s \ {x}) \in Nat /\ f[x] \in Nat
      BY <1>4, <1>5
    <3> QED
      BY <1>6, <3>1
  <2> QED
    BY <1>3, <1>8, <2>1, <2>2
<1>9. CASE u # s
  <2>1. PICK x \in s : u \in SUBSET (s \ {x})
    BY <1>9
  <2>2. Below(u, s \ {x}) /\ Below(s \ {x}, s \ {x}) /\ f[x] \in Nat
    BY <1>4, <1>5, <2>1
  <2> QED
    BY <1>3, <1>6, <2>2
<1> QED
  BY <1>8, <1>9
=============================================================================
