------------------------------ MODULE SetFacts ------------------------------
(***************************************************************************)
(* What MapThenSumSet computes for finite sets, the sum of the values of a *)
(* function, whatever order its CHOOSE takes the elements in; and that Max *)
(* and Min find what they are named for.                                   *)
(*                                                                         *)
(* The library's induction theorems have an operator as a parameter.       *)
(* Induction is done here by the least counterexample: a set of subsets of *)
(* a finite set has a member without a smaller one, a fact about sets.     *)
(***************************************************************************)
EXTENDS Integers, FiniteSets, FiniteSetsExt, Folds, FiniteSetTheorems, TLAPS

\* The sum of f over T.
Total(f, T) == MapThenSumSet(LAMBDA x : f[x], T)

\* The element that is added first, and the recursion of MapThenFoldSet.
Pick(s) == CHOOSE x \in s : TRUE
Rest(s) == s \ {Pick(s)}
Step(f, g, s) == IF s = {} THEN 0 ELSE f[Pick(s)] + g[Rest(s)]
Adds(f, g, T) == g = [s \in SUBSET T |-> Step(f, g, s)]

\* A non-empty set of subsets of a finite set has a smallest member.
LEMMA SmallestSubset ==
  ASSUME NEW S, IsFiniteSet(S), NEW B, B \subseteq SUBSET S, B # {}
  PROVE  \E T \in B : \A U \in B : ~(U \subseteq T /\ U # T)
  <1>1. IsWellFoundedOn(StrictSubsetOrdering(S), SUBSET S)
    BY FS_StrictSubsetOrderingWellFounded, FS_FiniteSubsetsOfFinite
  <1>2. \E T \in B : \A U \in B : ~(<<U, T>> \in StrictSubsetOrdering(S))
    BY <1>1, WFMin
  <1>3. \A T, U \in B : U \subseteq T /\ U # T => <<U, T>> \in StrictSubsetOrdering(S)
    BY DEF StrictSubsetOrdering
  <1> QED  BY <1>2, <1>3

\* What is left after the first element is smaller.
LEMMA PickIsMember ==
  ASSUME NEW s, s # {}
  PROVE  Pick(s) \in s /\ Rest(s) \subseteq s /\ Rest(s) # s
  BY DEF Pick, Rest

\* The values of a function on a finite set.
LEMMA ImageFinite ==
  ASSUME NEW S, IsFiniteSet(S), NEW f
  PROVE  IsFiniteSet({f[x] : x \in S})
  <1> DEFINE T == {f[x] : x \in S}
             g == [x \in S |-> f[x]]
  <1>1. g \in Surjection(S, T)
    BY DEF Surjection
  <1> HIDE DEF g
  <1> QED  BY <1>1, FS_Surjection

\* Two functions that satisfy the recursion agree where both are defined.
LEMMA AddsUnique ==
  ASSUME NEW f, NEW S, IsFiniteSet(S), NEW T \in SUBSET S, NEW U \in SUBSET S,
         NEW g, NEW h, Adds(f, g, T), Adds(f, h, U)
  PROVE  \A s \in SUBSET (T \cap U) : g[s] = h[s]
  <1> DEFINE Bad == {s \in SUBSET S : s \subseteq T \cap U /\ g[s] # h[s]}
  <1> SUFFICES ASSUME Bad # {}  PROVE FALSE
    OBVIOUS
  <1>0. Bad \subseteq SUBSET S
    OBVIOUS
  <1>1. PICK s \in Bad : \A u \in Bad : ~(u \subseteq s /\ u # s)
    <2> HIDE DEF Bad
    <2> QED  BY <1>0, SmallestSubset
  <1>2. g[s] = Step(f, g, s) /\ h[s] = Step(f, h, s)
    <2>1. s \in SUBSET T /\ s \in SUBSET U
      OBVIOUS
    <2> QED  BY <2>1 DEF Adds
  <1>3. s # {}
    BY <1>2 DEF Step
  <1>4. g[Rest(s)] = h[Rest(s)]
    BY <1>1, <1>3, PickIsMember
  <1> QED  BY <1>2, <1>3, <1>4 DEF Step

\* There is one for each subset of a finite set.
LEMMA AddsExists ==
  ASSUME NEW f, NEW S, IsFiniteSet(S)
  PROVE  \A T \in SUBSET S : \E g : Adds(f, g, T)
  <1> DEFINE Bad == {T \in SUBSET S : ~ \E g : Adds(f, g, T)}
  <1> SUFFICES ASSUME Bad # {}  PROVE FALSE
    OBVIOUS
  <1>0. Bad \subseteq SUBSET S
    OBVIOUS
  <1>1. PICK T \in Bad : \A U \in Bad : ~(U \subseteq T /\ U # T)
    <2> HIDE DEF Bad
    <2> QED  BY <1>0, SmallestSubset
  <1> DEFINE H(u) == CHOOSE h : Adds(f, h, u)
             g    == [s \in SUBSET T |-> IF s = {} THEN 0
                                         ELSE f[Pick(s)] + H(Rest(s))[Rest(s)]]
  <1>2. \A u \in SUBSET T : u # T => Adds(f, H(u), u)
    BY <1>1
  <1>3. ASSUME NEW s \in SUBSET T, s # {}
        PROVE  g[Rest(s)] = H(Rest(s))[Rest(s)]
    <2> DEFINE u == Rest(s)
    <2>1. u \in SUBSET T /\ u # T
      BY <1>3, PickIsMember
    <2>2. H(u)[u] = Step(f, H(u), u)
      <3>1. Adds(f, H(u), u)
        BY <1>2, <2>1
      <3> HIDE DEF H, u
      <3> QED  BY <3>1 DEF Adds
    <2>3. CASE u = {}
      BY <2>1, <2>2, <2>3 DEF Step
    <2>4. CASE u # {}
      <3>1. Rest(u) \in SUBSET u /\ Rest(u) \in SUBSET T /\ Rest(u) # T
        BY <2>1, <2>4, PickIsMember
      <3>2. Adds(f, H(Rest(u)), Rest(u)) /\ Adds(f, H(u), u)
        BY <1>2, <2>1, <3>1
      <3>3. u \in SUBSET S /\ Rest(u) \in SUBSET S /\ Rest(u) \in SUBSET (Rest(u) \cap u)
        BY <2>1, <3>1
      <3> HIDE DEF H, u
      <3>4. H(Rest(u))[Rest(u)] = H(u)[Rest(u)]
        BY <3>2, <3>3, AddsUnique
      <3>5. g[u] = f[Pick(u)] + H(Rest(u))[Rest(u)]
        BY <2>1, <2>4
      <3> QED  BY <2>2, <2>4, <3>4, <3>5 DEF Step, u
    <2> QED  BY <2>3, <2>4
  <1>4. Adds(f, g, T)
    <2>1. ASSUME NEW s \in SUBSET T
          PROVE  g[s] = Step(f, g, s)
      <3> HIDE DEF H
      <3>1. g[s] = IF s = {} THEN 0 ELSE f[Pick(s)] + H(Rest(s))[Rest(s)]
        OBVIOUS
      <3> HIDE DEF g
      <3> QED  BY <3>1, <1>3 DEF Step
    <2>2. g = [s \in SUBSET T |-> g[s]]
      OBVIOUS
    <2> HIDE DEF g
    <2> QED  BY <2>1, <2>2 DEF Adds
  <1> QED  BY <1>1, <1>4

\* The sum over a set, by the sum over the set without its first element.
LEMMA SumStep ==
  ASSUME NEW f, NEW T, IsFiniteSet(T)
  PROVE  Total(f, T) = IF T = {} THEN 0 ELSE f[Pick(T)] + Total(f, Rest(T))
  <1> DEFINE G(U) == CHOOSE g : Adds(f, g, U)
  <1>1. \A U : Total(f, U) = G(U)[U]
    BY DEF Total, MapThenSumSet, MapThenFoldSet, Adds, Step, Pick, Rest
  <1>2. \A U \in SUBSET T : Adds(f, G(U), U)
    BY AddsExists
  <1>3. Rest(T) \in SUBSET T /\ Rest(T) \in SUBSET (T \cap Rest(T)) /\ T \in SUBSET T
    BY DEF Rest
  <1>4. Adds(f, G(T), T) /\ Adds(f, G(Rest(T)), Rest(T))
    BY <1>2, <1>3
  <1> HIDE DEF G
  <1>5. G(T)[Rest(T)] = G(Rest(T))[Rest(T)]
    BY <1>3, <1>4, AddsUnique
  <1>6. G(T)[T] = Step(f, G(T), T)
    BY <1>3, <1>4 DEF Adds
  <1> QED  BY <1>1, <1>5, <1>6 DEF Step

\* The sum of integers is an integer, whichever element is taken out of it first.
LEMMA SumTakeOut ==
  ASSUME NEW S, IsFiniteSet(S), NEW f, \A x \in S : f[x] \in Int
  PROVE  \A T \in SUBSET S : /\ Total(f, T) \in Int
                             /\ \A x \in T : Total(f, T) = f[x] + Total(f, T \ {x})
  <1> DEFINE Good(T) == /\ Total(f, T) \in Int
                        /\ \A x \in T : Total(f, T) = f[x] + Total(f, T \ {x})
             Bad == {T \in SUBSET S : ~ Good(T)}
  <1> SUFFICES ASSUME Bad # {}  PROVE FALSE
    OBVIOUS
  <1>0. Bad \subseteq SUBSET S
    OBVIOUS
  <1>1. PICK T \in Bad : \A U \in Bad : ~(U \subseteq T /\ U # T)
    <2> HIDE DEF Bad
    <2> QED  BY <1>0, SmallestSubset
  <1>2. \A U \in SUBSET T : U # T => Good(U)
    BY <1>1
  <1>3. IsFiniteSet(T)
    BY FS_Subset
  <1>4. Total(f, T) = IF T = {} THEN 0 ELSE f[Pick(T)] + Total(f, Rest(T))
    BY <1>3, SumStep
  <1>5. CASE T = {}
    BY <1>4, <1>5
  <1>6. CASE T # {}
    <2>1. Pick(T) \in T /\ Good(Rest(T))
      BY <1>2, <1>6, PickIsMember
    <2>2. f[Pick(T)] \in Int /\ Total(f, Rest(T)) \in Int
      BY <2>1
    <2>3. ASSUME NEW x \in T
          PROVE  Total(f, T) = f[x] + Total(f, T \ {x})
      <3>1. CASE x = Pick(T)
        BY <1>4, <1>6, <3>1 DEF Rest
      <3>2. CASE x # Pick(T)
        <4> DEFINE y == Pick(T)
        <4>1. x \in Rest(T) /\ y \in T \ {x} /\ y \in T
          BY <2>1, <3>2 DEF Rest
        <4>2. Good(T \ {x})
          BY <1>2
        <4>0. Rest(T) = T \ {y}
          BY DEF Rest
        <4>3. (T \ {x}) \ {y} = (T \ {y}) \ {x}
          OBVIOUS
        <4> HIDE DEF y
        <4>4. Good((T \ {y}) \ {x})
          <5>1. (T \ {y}) \ {x} \in SUBSET T /\ (T \ {y}) \ {x} # T
            BY <4>1
          <5> HIDE DEF Good
          <5> QED  BY <1>2, <5>1
        <4>5. /\ Total(f, T \ {y}) = f[x] + Total(f, (T \ {y}) \ {x})
              /\ Total(f, T \ {x}) = f[y] + Total(f, (T \ {y}) \ {x})
              /\ Total(f, (T \ {y}) \ {x}) \in Int /\ f[x] \in Int /\ f[y] \in Int
          BY <2>1, <4>0, <4>1, <4>2, <4>3, <4>4
        <4>6. Total(f, T) = f[y] + Total(f, T \ {y})
          BY <1>4, <1>6, <4>0 DEF y
        <4> QED  BY <4>5, <4>6
      <3> QED  BY <3>1, <3>2
    <2>4. Total(f, T) \in Int
      BY <1>4, <1>6, <2>2
    <2> QED  BY <2>3, <2>4
  <1> QED  BY <1>5, <1>6

\* Nothing is added to 0.
LEMMA SumEmpty ==
  ASSUME NEW f
  PROVE  Total(f, {}) = 0
  BY SumStep, FS_EmptySet

\* One more element is added.
LEMMA SumAdd ==
  ASSUME NEW f, NEW T, IsFiniteSet(T), NEW x, x \notin T, \A y \in T \cup {x} : f[y] \in Int
  PROVE  Total(f, T \cup {x}) = Total(f, T) + f[x] /\ Total(f, T) \in Int
  <1>1. IsFiniteSet(T \cup {x}) /\ (T \cup {x}) \ {x} = T
    BY FS_AddElement
  <1>2. T \in SUBSET (T \cup {x}) /\ T \cup {x} \in SUBSET (T \cup {x}) /\ x \in T \cup {x}
    OBVIOUS
  <1>3. Total(f, T \cup {x}) = f[x] + Total(f, T) /\ Total(f, T) \in Int
    BY <1>1, <1>2, SumTakeOut
  <1> QED  BY <1>3

\* Functions that agree on a set have the same sum over it.
LEMMA SumAgree ==
  ASSUME NEW f, NEW g, NEW S, IsFiniteSet(S), \A x \in S : f[x] = g[x]
  PROVE  Total(f, S) = Total(g, S)
  <1> DEFINE Bad == {T \in SUBSET S : Total(f, T) # Total(g, T)}
  <1> SUFFICES ASSUME Bad # {}  PROVE FALSE
    OBVIOUS
  <1>0. Bad \subseteq SUBSET S
    OBVIOUS
  <1>1. PICK T \in Bad : \A U \in Bad : ~(U \subseteq T /\ U # T)
    <2> HIDE DEF Bad
    <2> QED  BY <1>0, SmallestSubset
  <1>2. IsFiniteSet(T)
    BY FS_Subset
  <1>3. /\ Total(f, T) = IF T = {} THEN 0 ELSE f[Pick(T)] + Total(f, Rest(T))
        /\ Total(g, T) = IF T = {} THEN 0 ELSE g[Pick(T)] + Total(g, Rest(T))
    BY <1>2, SumStep
  <1>4. T # {}
    BY <1>3
  <1>5. Pick(T) \in S /\ Total(f, Rest(T)) = Total(g, Rest(T))
    BY <1>1, <1>4, PickIsMember
  <1> QED  BY <1>3, <1>4, <1>5

\* One value of the function changes.
LEMMA SumChange ==
  ASSUME NEW S, IsFiniteSet(S), NEW f, NEW g, NEW p \in S,
         \A x \in S : f[x] \in Int /\ g[x] \in Int,
         \A x \in S \ {p} : f[x] = g[x]
  PROVE  Total(g, S) = Total(f, S) - f[p] + g[p] /\ Total(f, S) \in Int
  <1>1. IsFiniteSet(S \ {p})
    BY FS_RemoveElement
  <1>2. Total(f, S \ {p}) = Total(g, S \ {p})
    BY <1>1, SumAgree
  <1>3. S \in SUBSET S /\ S \ {p} \in SUBSET S
    OBVIOUS
  <1>4. /\ Total(f, S) = f[p] + Total(f, S \ {p}) /\ Total(f, S \ {p}) \in Int
        /\ Total(g, S) = g[p] + Total(g, S \ {p}) /\ Total(f, S) \in Int
    BY <1>3, SumTakeOut
  <1> QED  BY <1>2, <1>4

\* Nothing but zeros is added.
LEMMA SumOfZeros ==
  ASSUME NEW S, IsFiniteSet(S), NEW f, \A x \in S : f[x] = 0
  PROVE  Total(f, S) = 0
  <1> DEFINE Bad == {T \in SUBSET S : Total(f, T) # 0}
  <1> SUFFICES ASSUME Bad # {}  PROVE FALSE
    OBVIOUS
  <1>0. Bad \subseteq SUBSET S
    OBVIOUS
  <1>1. PICK T \in Bad : \A U \in Bad : ~(U \subseteq T /\ U # T)
    <2> HIDE DEF Bad
    <2> QED  BY <1>0, SmallestSubset
  <1>2. Total(f, T) = IF T = {} THEN 0 ELSE f[Pick(T)] + Total(f, Rest(T))
    BY FS_Subset, SumStep
  <1>3. T # {}
    BY <1>2
  <1>4. f[Pick(T)] = 0 /\ Total(f, Rest(T)) = 0
    BY <1>1, <1>3, PickIsMember
  <1> QED  BY <1>2, <1>3, <1>4

\* The sum of one value.
LEMMA SumOne ==
  ASSUME NEW f, NEW x, f[x] \in Int
  PROVE  Total(f, {x}) = f[x]
  <1>1. IsFiniteSet({}) /\ {} \cup {x} = {x} /\ x \notin {} /\ Total(f, {}) = 0
    BY FS_EmptySet, SumEmpty
  <1>2. Total(f, {} \cup {x}) = Total(f, {}) + f[x]
    BY <1>1, SumAdd
  <1> QED  BY <1>1, <1>2

\* Nothing negative is added.
LEMMA SumNonNegative ==
  ASSUME NEW S, IsFiniteSet(S), NEW f, \A x \in S : f[x] \in Nat
  PROVE  Total(f, S) \in Nat
  <1> DEFINE Bad == {T \in SUBSET S : Total(f, T) \notin Nat}
  <1> SUFFICES ASSUME Bad # {}  PROVE FALSE
    OBVIOUS
  <1>0. Bad \subseteq SUBSET S
    OBVIOUS
  <1>1. PICK T \in Bad : \A U \in Bad : ~(U \subseteq T /\ U # T)
    <2> HIDE DEF Bad
    <2> QED  BY <1>0, SmallestSubset
  <1>2. Total(f, T) = IF T = {} THEN 0 ELSE f[Pick(T)] + Total(f, Rest(T))
    BY FS_Subset, SumStep
  <1>3. T # {}
    BY <1>2
  <1>4. f[Pick(T)] \in Nat /\ Total(f, Rest(T)) \in Nat
    BY <1>1, <1>3, PickIsMember
  <1> QED  BY <1>2, <1>3, <1>4

\* The sum of zeros and ones counts the ones.
LEMMA SumCounts ==
  ASSUME NEW S, IsFiniteSet(S), NEW f, \A x \in S : f[x] \in {0, 1}
  PROVE  Total(f, S) = Cardinality({x \in S : f[x] = 1})
  <1> DEFINE Ones(T) == {x \in T : f[x] = 1}
             Bad == {T \in SUBSET S : Total(f, T) # Cardinality(Ones(T))}
  <1> SUFFICES ASSUME Bad # {}  PROVE FALSE
    OBVIOUS
  <1>0. Bad \subseteq SUBSET S
    OBVIOUS
  <1>1. PICK T \in Bad : \A U \in Bad : ~(U \subseteq T /\ U # T)
    <2> HIDE DEF Bad
    <2> QED  BY <1>0, SmallestSubset
  <1>2. Total(f, T) = IF T = {} THEN 0 ELSE f[Pick(T)] + Total(f, Rest(T))
    BY FS_Subset, SumStep
  <1>3. T # {}
    <2>1. Ones({}) = {}
      OBVIOUS
    <2> QED  BY <1>2, <2>1, FS_EmptySet
  <1>4. /\ Pick(T) \in T /\ Pick(T) \in S /\ Rest(T) \in SUBSET S
        /\ Total(f, Rest(T)) = Cardinality(Ones(Rest(T)))
    BY <1>1, <1>3, PickIsMember
  <1>5. IsFiniteSet(Ones(Rest(T))) /\ Cardinality(Ones(Rest(T))) \in Nat
    BY <1>4, FS_Subset, FS_CardinalityType
  <1>6. CASE f[Pick(T)] = 1
    <2>1. Ones(T) = Ones(Rest(T)) \cup {Pick(T)} /\ Pick(T) \notin Ones(Rest(T))
      BY <1>4, <1>6 DEF Rest
    <2> HIDE DEF Ones
    <2>2. Cardinality(Ones(T)) = Cardinality(Ones(Rest(T))) + 1
      BY <1>5, <2>1, FS_AddElement
    <2>3. Total(f, T) # Cardinality(Ones(T))
      BY <1>1
    <2> QED  BY <1>2, <1>3, <1>4, <1>5, <1>6, <2>2, <2>3
  <1>7. CASE f[Pick(T)] = 0
    <2>1. Ones(T) = Ones(Rest(T))
      BY <1>4, <1>7 DEF Rest
    <2> QED  BY <1>2, <1>3, <1>4, <1>5, <1>7, <2>1
  <1> QED  BY <1>4, <1>6, <1>7

-----------------------------------------------------------------------------
\* A finite set of integers has a greatest member, ...
LEMMA HasGreatest ==
  ASSUME NEW S, IsFiniteSet(S), \A x \in S : x \in Int
  PROVE  \A T \in SUBSET S : T # {} => \E x \in T : \A y \in T : x >= y
  <1> DEFINE Bad == {T \in SUBSET S : T # {} /\ ~ \E x \in T : \A y \in T : x >= y}
  <1> SUFFICES ASSUME Bad # {}  PROVE FALSE
    OBVIOUS
  <1>0. Bad \subseteq SUBSET S
    OBVIOUS
  <1>1. PICK T \in Bad : \A U \in Bad : ~(U \subseteq T /\ U # T)
    <2> HIDE DEF Bad
    <2> QED  BY <1>0, SmallestSubset
  <1>2. PICK z \in T : z \in Int
    OBVIOUS
  <1>3. CASE T \ {z} = {}
    <2>1. \A y \in T : z >= y
      BY <1>2, <1>3
    <2> QED  BY <2>1
  <1>4. CASE T \ {z} # {}
    <2>1. \E x \in T \ {z} : \A y \in T \ {z} : x >= y
      <3>1. T \ {z} \in SUBSET S /\ T \ {z} \subseteq T /\ T \ {z} # T
        OBVIOUS
      <3> QED  BY <1>1, <1>4, <3>1
    <2>2. PICK x \in T \ {z} : \A y \in T \ {z} : x >= y
      BY <2>1
    <2>3. x \in Int /\ \A y \in T : y \in Int
      OBVIOUS
    <2>4. CASE x >= z
      BY <2>2, <2>4
    <2>5. CASE ~(x >= z)
      <3>1. \A y \in T : z >= y
        BY <1>2, <2>2, <2>3, <2>5
      <3> QED  BY <3>1
    <2> QED  BY <2>4, <2>5
  <1> QED  BY <1>3, <1>4

\* ... and Max finds it.
LEMMA MaxExists ==
  ASSUME NEW S, IsFiniteSet(S), S \subseteq Int, S # {}
  PROVE  Max(S) \in S /\ \A y \in S : Max(S) >= y
  <1>1. \E x \in S : \A y \in S : x >= y
    BY HasGreatest
  <1> QED  BY <1>1 DEF Max

\* A finite set of integers has a least member, ...
LEMMA HasLeast ==
  ASSUME NEW S, IsFiniteSet(S), \A x \in S : x \in Int
  PROVE  \A T \in SUBSET S : T # {} => \E x \in T : \A y \in T : x <= y
  <1> DEFINE Bad == {T \in SUBSET S : T # {} /\ ~ \E x \in T : \A y \in T : x <= y}
  <1> SUFFICES ASSUME Bad # {}  PROVE FALSE
    OBVIOUS
  <1>0. Bad \subseteq SUBSET S
    OBVIOUS
  <1>1. PICK T \in Bad : \A U \in Bad : ~(U \subseteq T /\ U # T)
    <2> HIDE DEF Bad
    <2> QED  BY <1>0, SmallestSubset
  <1>2. PICK z \in T : z \in Int
    OBVIOUS
  <1>3. CASE T \ {z} = {}
    <2>1. \A y \in T : z <= y
      BY <1>2, <1>3
    <2> QED  BY <2>1
  <1>4. CASE T \ {z} # {}
    <2>1. \E x \in T \ {z} : \A y \in T \ {z} : x <= y
      <3>1. T \ {z} \in SUBSET S /\ T \ {z} \subseteq T /\ T \ {z} # T
        OBVIOUS
      <3> QED  BY <1>1, <1>4, <3>1
    <2>2. PICK x \in T \ {z} : \A y \in T \ {z} : x <= y
      BY <2>1
    <2>3. x \in Int /\ \A y \in T : y \in Int
      OBVIOUS
    <2>4. CASE x <= z
      BY <2>2, <2>4
    <2>5. CASE ~(x <= z)
      <3>1. \A y \in T : z <= y
        BY <1>2, <2>2, <2>3, <2>5
      <3> QED  BY <3>1
    <2> QED  BY <2>4, <2>5
  <1> QED  BY <1>3, <1>4

\* ... and Min finds it.
LEMMA MinExists ==
  ASSUME NEW S, IsFiniteSet(S), S \subseteq Int, S # {}
  PROVE  Min(S) \in S /\ \A y \in S : Min(S) <= y
  <1>1. \E x \in S : \A y \in S : x <= y
    BY HasLeast
  <1> QED  BY <1>1 DEF Min

=============================================================================
