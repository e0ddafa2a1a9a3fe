----------------------------- MODULE SumLemmas ------------------------------
(***************************************************************************)
(* Sums over finite sets, as SumFunctionOnSet and SumFunction of the       *)
(* community modules define them: by a recursive function that takes the   *)
(* elements of a set away one at a time.  The lemmas say what the proofs   *)
(* about money need: a sum does not depend on the order, and changing one  *)
(* summand changes the sum by as much.                                     *)
(***************************************************************************)
EXTENDS Functions, FiniteSetTheorems, NaturalsInduction, TLAPS

\* Some obligations are large; each prover call may take a minute.
USE SMTT(60)

\* Induction with a set in place of a predicate: a set that contains 0 and
\* the successor of each of its numbers contains them all.
LEMMA NatSetInduction ==
  ASSUME NEW S, 0 \in S, \A n \in Nat : n \in S => n + 1 \in S
  PROVE  \A n \in Nat : n \in S
<1> DEFINE T == Nat \ S
<1>1. SUFFICES ASSUME T # {} PROVE FALSE
  OBVIOUS
<1>2. IsWellFoundedOn(OpToRel(<, Nat), Nat)
  BY Zenon, NatLessThanWellFounded
<1>3. PICK x \in T : \A y \in T : ~ (<<y, x>> \in OpToRel(<, Nat))
  <2> HIDE DEF T
  <2>1. T \subseteq Nat
    BY DEF T
  <2> QED BY Zenon, <1>1, <1>2, <2>1, WFMin
<1>4. \A y \in T : ~(y < x)
  BY Zenon, <1>3 DEF OpToRel
<1>5. x # 0 /\ x \in Nat
  OBVIOUS
<1>6. x - 1 \in Nat /\ x - 1 < x /\ x = (x - 1) + 1
  BY <1>5
<1>7. x - 1 \in S
  BY <1>4, <1>6
<1> QED BY <1>6, <1>7

\* A property of finite sets that holds for {} and, with a set from which one
\* element is taken, for the set, holds for every subset of S that has it.
LEMMA SubsetInduction ==
  ASSUME NEW S, IsFiniteSet(S), NEW Good,
         {} \in Good,
         \A T \in SUBSET S : T # {} /\ (\A x \in T : T \ {x} \in Good) => T \in Good
  PROVE  \A T \in SUBSET S : T \in Good
<1> DEFINE Has(n) == \A T \in SUBSET S : Cardinality(T) = n => T \in Good
           N      == {n \in Nat : Has(n)}
<1>0. \A T \in SUBSET S : IsFiniteSet(T) /\ Cardinality(T) \in Nat
  BY FS_Subset, FS_CardinalityType
<1>1. Has(0)
  <2>1. \A T \in SUBSET S : Cardinality(T) = 0 => T = {}
    BY Zenon, <1>0, FS_EmptySet
  <2> QED BY Zenon, <2>1
<1>2. ASSUME NEW n \in Nat, Has(n) PROVE Has(n + 1)
  <2> SUFFICES ASSUME NEW T \in SUBSET S, Cardinality(T) = n + 1
               PROVE  T \in Good
    BY Zenon
  <2>1. T # {}
    <3>1. n + 1 # 0
      OBVIOUS
    <3> QED BY Zenon, <3>1, FS_EmptySet
  <2>2. ASSUME NEW x \in T PROVE T \ {x} \in Good
    <3>1. Cardinality(T \ {x}) = (n + 1) - 1
      <4>1. Cardinality(T \ {x}) = IF x \in T THEN Cardinality(T) - 1 ELSE Cardinality(T)
        BY Zenon, <1>0, FS_RemoveElement
      <4> QED BY Zenon, <4>1
    <3>2. (n + 1) - 1 = n
      OBVIOUS
    <3>3. T \ {x} \in SUBSET S
      OBVIOUS
    <3> QED BY Zenon, <1>2, <3>1, <3>2, <3>3
  <2> QED BY Zenon, <2>1, <2>2
<1> HIDE DEF Has
<1>3. \A n \in Nat : n \in N
  <2>1. 0 \in N /\ \A n \in Nat : n \in N => n + 1 \in N
    BY <1>1, <1>2
  <2> HIDE DEF N
  <2> QED BY <2>1, NatSetInduction
<1>4. ASSUME NEW T \in SUBSET S PROVE T \in Good
  <2>1. Has(Cardinality(T))
    BY Zenon, <1>0, <1>3
  <2> QED BY Zenon, <2>1 DEF Has
<1> QED BY <1>4

-----------------------------------------------------------------------------
(***************************************************************************)
(* The defining equation.                                                  *)
(***************************************************************************)

Pick(s) == CHOOSE x \in s : TRUE

\* One step of the recursion for the subset s of S.
SumStep(f, g, s) == IF s = {} THEN 0 ELSE f[Pick(s)] + g[s \ {Pick(s)}]

SumBody(f, S, g) == [s \in SUBSET S |-> SumStep(f, g, s)]

\* SumFunctionOnSet is the recursive function it is defined by.
LEMMA SumDef ==
  ASSUME NEW f, NEW S
  PROVE  SumFunctionOnSet(f, S) = (CHOOSE g : g = SumBody(f, S, g))[S]
BY DEF SumFunctionOnSet, FoldFunctionOnSet, MapThenFoldSet, SumBody, SumStep, Pick

\* Every nonempty set has the element that is picked.
LEMMA Picked ==
  ASSUME NEW s, s # {}
  PROVE  Pick(s) \in s
BY DEF Pick

\* There is such a function for every finite set.
LEMMA SumExists ==
  ASSUME NEW f, NEW S, IsFiniteSet(S)
  PROVE  \E g : g = SumBody(f, S, g)
<1> DEFINE Upto(n, g) == /\ g = [s \in SUBSET S |-> g[s]]
                         /\ \A s \in SUBSET S : Cardinality(s) <= n => g[s] = SumStep(f, g, s)
           N == {n \in Nat : \E g : Upto(n, g)}
<1>0. \A s \in SUBSET S : IsFiniteSet(s) /\ Cardinality(s) \in Nat
  BY FS_Subset, FS_CardinalityType
<1>1. \E g : Upto(0, g)
  <2> DEFINE g == [s \in SUBSET S |-> 0]
  <2>1. ASSUME NEW s \in SUBSET S, Cardinality(s) <= 0 PROVE g[s] = SumStep(f, g, s)
    <3>1. Cardinality(s) = 0
      BY <1>0, <2>1
    <3>2. s = {}
      BY Zenon, <1>0, <3>1, FS_EmptySet
    <3> QED BY <3>2 DEF SumStep
  <2>2. g = [s \in SUBSET S |-> g[s]]
    OBVIOUS
  <2> HIDE DEF g
  <2> QED BY Zenon, <2>1, <2>2
<1>2. ASSUME NEW n \in Nat, NEW g, Upto(n, g) PROVE \E h : Upto(n + 1, h)
  <2> DEFINE h == [s \in SUBSET S |-> IF Cardinality(s) = n + 1 THEN SumStep(f, g, s) ELSE g[s]]
  <2>1. ASSUME NEW s \in SUBSET S, Cardinality(s) <= n + 1, s # {}
        PROVE  /\ s \ {Pick(s)} \in SUBSET S
               /\ Cardinality(s \ {Pick(s)}) # n + 1
    <3>1. Pick(s) \in s
      BY Zenon, <2>1, Picked
    <3>2. Cardinality(s \ {Pick(s)}) = Cardinality(s) - 1
      BY Zenon, <1>0, <3>1, FS_RemoveElement
    <3>3. Cardinality(s) \in Nat
      BY <1>0
    <3> QED BY <2>1, <3>2, <3>3
  <2>2. ASSUME NEW s \in SUBSET S, Cardinality(s) <= n + 1
        PROVE  SumStep(f, h, s) = SumStep(f, g, s)
    <3>1. CASE s = {}
      BY <3>1 DEF SumStep
    <3>2. CASE s # {}
      <4>1. h[s \ {Pick(s)}] = g[s \ {Pick(s)}]
        BY Zenon, <2>1, <2>2, <3>2
      <4> HIDE DEF h
      <4> QED BY <4>1 DEF SumStep
    <3> QED BY <3>1, <3>2
  <2>3. ASSUME NEW s \in SUBSET S, Cardinality(s) <= n + 1
        PROVE  h[s] = SumStep(f, h, s)
    <3>1. CASE Cardinality(s) = n + 1
      <4>1. h[s] = SumStep(f, g, s)
        BY Zenon, <3>1
      <4> QED BY Zenon, <2>2, <2>3, <4>1
    <3>2. CASE Cardinality(s) # n + 1
      <4>1. Cardinality(s) <= n
        BY <1>0, <2>3, <3>2
      <4>2. h[s] = g[s] /\ g[s] = SumStep(f, g, s)
        BY Zenon, <1>2, <3>2, <4>1
      <4> QED BY Zenon, <2>2, <2>3, <4>2
    <3> QED BY <3>1, <3>2
  <2>4. h = [s \in SUBSET S |-> h[s]]
    OBVIOUS
  <2> HIDE DEF h
  <2> QED BY Zenon, <2>3, <2>4
<1> HIDE DEF Upto
<1>3. \A n \in Nat : n \in N
  <2>1. 0 \in N /\ \A n \in Nat : n \in N => n + 1 \in N
    BY <1>1, <1>2
  <2> HIDE DEF N
  <2> QED BY <2>1, NatSetInduction
<1>4. PICK g : Upto(Cardinality(S), g)
  BY Zenon, <1>0, <1>3
<1>5. \A s \in SUBSET S : Cardinality(s) <= Cardinality(S)
  BY FS_Subset
<1>6. \A s \in SUBSET S : g[s] = SumStep(f, g, s)
  BY Zenon, <1>4, <1>5 DEF Upto
<1>7. g = [s \in SUBSET S |-> g[s]]
  BY Zenon, <1>4 DEF Upto
<1>8. g = SumBody(f, S, g)
  BY Zenon, <1>6, <1>7 DEF SumBody
<1> QED BY <1>8

\* Two such functions, for S and for a subset of it, agree.
LEMMA SumUnique ==
  ASSUME NEW f, NEW S, IsFiniteSet(S), NEW T \in SUBSET S,
         NEW g, g = SumBody(f, S, g), NEW h, h = SumBody(f, T, h)
  PROVE  g[T] = h[T]
<1> DEFINE Good == {s \in SUBSET T : g[s] = h[s]}
<1>1. /\ \A s \in SUBSET T : g[s] = SumStep(f, g, s)
      /\ \A s \in SUBSET T : h[s] = SumStep(f, h, s)
  <2> DEFINE u == SumBody(f, S, g)
             v == SumBody(f, T, h)
  <2>1. /\ \A s \in SUBSET T : u[s] = SumStep(f, g, s)
        /\ \A s \in SUBSET T : v[s] = SumStep(f, h, s)
    BY DEF SumBody
  <2> HIDE DEF u, v
  <2>2. g = u /\ h = v
    BY DEF u, v
  <2> QED BY <2>1, <2>2
<1>2. {} \in Good
  <2>1. g[{}] = 0 /\ h[{}] = 0
    BY Zenon, <1>1 DEF SumStep
  <2> QED BY Zenon, <2>1
<1>3. ASSUME NEW s \in SUBSET T, s # {}, \A x \in s : s \ {x} \in Good
      PROVE  s \in Good
  <2>1. Pick(s) \in s
    BY Zenon, <1>3, Picked
  <2>2. g[s \ {Pick(s)}] = h[s \ {Pick(s)}]
    BY Zenon, <1>3, <2>1
  <2>3. g[s] = h[s]
    BY Zenon, <1>1, <1>3, <2>2 DEF SumStep
  <2> QED BY Zenon, <2>3
<1>4. IsFiniteSet(T)
  BY FS_Subset
<1>5. \A s \in SUBSET T : s \in Good
  <2> HIDE DEF Good
  <2> QED BY Zenon, <1>2, <1>3, <1>4, SubsetInduction
<1> QED BY <1>5

\* The sum over a finite set is 0, or a summand and the sum over the others.
LEMMA SumEquation ==
  ASSUME NEW f, NEW S, IsFiniteSet(S)
  PROVE  SumFunctionOnSet(f, S) =
            IF S = {} THEN 0 ELSE f[Pick(S)] + SumFunctionOnSet(f, S \ {Pick(S)})
<1> DEFINE G(T) == CHOOSE g : g = SumBody(f, T, g)
           T    == S \ {Pick(S)}
<1>1. T \in SUBSET S /\ IsFiniteSet(T)
  BY FS_Subset
<1>2. G(S) = SumBody(f, S, G(S)) /\ G(T) = SumBody(f, T, G(T))
  BY <1>1, SumExists
<1>3. G(S)[T] = G(T)[T]
  <2> HIDE DEF G, T
  <2> QED BY <1>1, <1>2, SumUnique
<1>4. SumFunctionOnSet(f, S) = G(S)[S] /\ SumFunctionOnSet(f, T) = G(T)[T]
  BY Zenon, SumDef
<1> HIDE DEF G
<1>5. G(S)[S] = SumStep(f, G(S), S)
  <2> DEFINE u == SumBody(f, S, G(S))
  <2>1. u[S] = SumStep(f, G(S), S)
    BY DEF SumBody
  <2> HIDE DEF u
  <2>2. G(S) = u
    BY <1>2 DEF u
  <2> QED BY <2>1, <2>2
<1> QED BY <1>3, <1>4, <1>5 DEF SumStep
-----------------------------------------------------------------------------
(***************************************************************************)
(* What follows from it.                                                   *)
(***************************************************************************)

\* Sums of integers are integers.
LEMMA SumType ==
  ASSUME NEW S, IsFiniteSet(S), NEW f, \A x \in S : f[x] \in Int
  PROVE  \A T \in SUBSET S : SumFunctionOnSet(f, T) \in Int
<1> DEFINE Good == {T \in SUBSET S : SumFunctionOnSet(f, T) \in Int}
<1>1. {} \in Good
  <2>1. SumFunctionOnSet(f, {}) = 0
    BY Zenon, SumEquation, FS_EmptySet
  <2> QED BY <2>1
<1>2. ASSUME NEW T \in SUBSET S, T # {}, \A x \in T : T \ {x} \in Good
      PROVE  T \in Good
  <2>1. Pick(T) \in T
    BY Zenon, <1>2, Picked
  <2>2. f[Pick(T)] \in Int /\ SumFunctionOnSet(f, T \ {Pick(T)}) \in Int
    BY Zenon, <1>2, <2>1
  <2>3. IsFiniteSet(T)
    BY Zenon, FS_Subset
  <2>4. SumFunctionOnSet(f, T) = f[Pick(T)] + SumFunctionOnSet(f, T \ {Pick(T)})
    BY Zenon, <1>2, <2>3, SumEquation
  <2> QED BY <2>2, <2>4
<1>3. \A T \in SUBSET S : T \in Good
  <2> HIDE DEF Good
  <2> QED BY Zenon, <1>1, <1>2, SubsetInduction
<1> QED BY Zenon, <1>3

\* Any element can be taken out of a sum first.
LEMMA SumRemove ==
  ASSUME NEW S, IsFiniteSet(S), NEW f, \A x \in S : f[x] \in Int, NEW z \in S
  PROVE  SumFunctionOnSet(f, S) = f[z] + SumFunctionOnSet(f, S \ {z})
<1> DEFINE Sum(T) == SumFunctionOnSet(f, T)
           Good   == {T \in SUBSET S : \A x \in T : Sum(T) = f[x] + Sum(T \ {x})}
<1>1. {} \in Good
  OBVIOUS
<1>2. ASSUME NEW T \in SUBSET S, T # {}, \A x \in T : T \ {x} \in Good
      PROVE  T \in Good
  <2> DEFINE y == Pick(T)
  <2>1. y \in T
    BY Zenon, <1>2, Picked
  <2>2. Sum(T) = f[y] + Sum(T \ {y})
    BY Zenon, <1>2, FS_Subset, SumEquation
  <2> SUFFICES ASSUME NEW x \in T, x # y PROVE Sum(T) = f[x] + Sum(T \ {x})
    BY <2>2
  <2> DEFINE R == (T \ {x}) \ {y}
  <2>3. R = (T \ {y}) \ {x}
    OBVIOUS
  <2>4. T \ {x} \in Good /\ T \ {y} \in Good /\ x \in T \ {y} /\ y \in T \ {x}
    BY <1>2, <2>1
  <2>5. Sum(T \ {x}) = f[y] + Sum(R) /\ Sum(T \ {y}) = f[x] + Sum(R)
    BY Zenon, <2>3, <2>4
  <2>6. R \in SUBSET S
    OBVIOUS
  <2>7. f[x] \in Int /\ f[y] \in Int /\ Sum(R) \in Int
    BY Zenon, <2>1, <2>6, SumType
  <2> HIDE DEF Sum, R, y
  <2> QED BY <2>2, <2>5, <2>7
<1>3. \A T \in SUBSET S : T \in Good
  <2> HIDE DEF Good
  <2> QED BY Zenon, <1>1, <1>2, SubsetInduction
<1>4. S \in SUBSET S
  OBVIOUS
<1> QED BY Zenon, <1>3, <1>4

\* A sum depends on the values at the elements of the set only.
LEMMA SumSame ==
  ASSUME NEW S, IsFiniteSet(S), NEW f, NEW g, \A x \in S : f[x] = g[x]
  PROVE  SumFunctionOnSet(f, S) = SumFunctionOnSet(g, S)
<1> DEFINE Good == {T \in SUBSET S : SumFunctionOnSet(f, T) = SumFunctionOnSet(g, T)}
<1>1. {} \in Good
  <2>1. SumFunctionOnSet(f, {}) = 0 /\ SumFunctionOnSet(g, {}) = 0
    BY Zenon, SumEquation, FS_EmptySet
  <2> QED BY Zenon, <2>1
<1>2. ASSUME NEW T \in SUBSET S, T # {}, \A x \in T : T \ {x} \in Good
      PROVE  T \in Good
  <2>1. Pick(T) \in T
    BY Zenon, <1>2, Picked
  <2>2. /\ f[Pick(T)] = g[Pick(T)]
        /\ SumFunctionOnSet(f, T \ {Pick(T)}) = SumFunctionOnSet(g, T \ {Pick(T)})
    BY Zenon, <1>2, <2>1
  <2>3. IsFiniteSet(T)
    BY Zenon, FS_Subset
  <2>4. /\ SumFunctionOnSet(f, T) = f[Pick(T)] + SumFunctionOnSet(f, T \ {Pick(T)})
        /\ SumFunctionOnSet(g, T) = g[Pick(T)] + SumFunctionOnSet(g, T \ {Pick(T)})
    BY Zenon, <1>2, <2>3, SumEquation
  <2>5. SumFunctionOnSet(f, T) = SumFunctionOnSet(g, T)
    BY Zenon, <2>2, <2>4
  <2> QED BY Zenon, <2>5
<1>3. \A T \in SUBSET S : T \in Good
  <2> HIDE DEF Good
  <2> QED BY Zenon, <1>1, <1>2, SubsetInduction
<1> QED BY Zenon, <1>3

\* Sums of natural numbers are natural numbers, no summand exceeds them, and
\* they are 0 when all summands are.
LEMMA SumNat ==
  ASSUME NEW S, IsFiniteSet(S), NEW f, \A x \in S : f[x] \in Nat
  PROVE  /\ SumFunctionOnSet(f, S) \in Nat
         /\ \A x \in S : f[x] <= SumFunctionOnSet(f, S)
         /\ (\A x \in S : f[x] = 0) => SumFunctionOnSet(f, S) = 0
<1> DEFINE Sum(T) == SumFunctionOnSet(f, T)
           Zero   == \A x \in S : f[x] = 0
           Good   == {T \in SUBSET S : Sum(T) \in Nat /\ (Zero => Sum(T) = 0)}
<1>0. \A x \in S : f[x] \in Int
  OBVIOUS
<1>1. {} \in Good
  <2>1. Sum({}) = 0
    BY Zenon, SumEquation, FS_EmptySet
  <2> HIDE DEF Sum, Zero
  <2> QED BY <2>1
<1>2. ASSUME NEW T \in SUBSET S, T # {}, \A x \in T : T \ {x} \in Good
      PROVE  T \in Good
  <2>1. PICK x \in T : TRUE
    BY <1>2
  <2>2. f[x] \in Nat /\ Sum(T \ {x}) \in Nat /\ (Zero => f[x] = 0 /\ Sum(T \ {x}) = 0)
    BY Zenon, <1>2
  <2>3. IsFiniteSet(T) /\ \A y \in T : f[y] \in Int
    BY Zenon, <1>0, FS_Subset
  <2>4. Sum(T) = f[x] + Sum(T \ {x})
    BY Zenon, <2>3, SumRemove
  <2> HIDE DEF Sum, Zero
  <2> QED BY <2>2, <2>4
<1>3. \A T \in SUBSET S : T \in Good
  <2> HIDE DEF Good
  <2> QED BY Zenon, <1>1, <1>2, SubsetInduction
<1>4. ASSUME NEW x \in S PROVE f[x] <= Sum(S)
  <2>1. Sum(S) = f[x] + Sum(S \ {x})
    BY Zenon, <1>0, SumRemove
  <2>2. S \ {x} \in SUBSET S
    OBVIOUS
  <2>3. Sum(S \ {x}) \in Nat /\ f[x] \in Nat
    BY Zenon, <1>3, <2>2
  <2> HIDE DEF Sum
  <2> QED BY <2>1, <2>3
<1> HIDE DEF Sum, Zero
<1> QED BY <1>3, <1>4 DEF Sum, Zero

\* Writing one value of a function changes its sum by the difference.
LEMMA SumExcept ==
  ASSUME NEW S, IsFiniteSet(S), NEW f \in [S -> Int], NEW x \in S, NEW v \in Int
  PROVE  /\ SumFunction(f) \in Int
         /\ SumFunction([f EXCEPT ![x] = v]) = (SumFunction(f) - f[x]) + v
<1> DEFINE g == [f EXCEPT ![x] = v]
           R == S \ {x}
<1>1. /\ DOMAIN f = S /\ DOMAIN g = S /\ g[x] = v
      /\ \A y \in S : f[y] \in Int /\ g[y] \in Int
      /\ \A y \in R : f[y] = g[y]
      /\ R \in SUBSET S
  OBVIOUS
<1> HIDE DEF g, R
<1>2. IsFiniteSet(R)
  BY Zenon, <1>1, FS_Subset
<1>3. SumFunctionOnSet(f, R) = SumFunctionOnSet(g, R)
  BY Zenon, <1>1, <1>2, SumSame
<1>4. SumFunctionOnSet(f, R) \in Int
  BY Zenon, <1>1, SumType
<1>5. /\ SumFunctionOnSet(f, S) = f[x] + SumFunctionOnSet(f, R)
      /\ SumFunctionOnSet(g, S) = v + SumFunctionOnSet(g, R)
  BY Zenon, <1>1, SumRemove DEF R
<1>6. /\ SumFunction(f) = f[x] + SumFunctionOnSet(f, R)
      /\ SumFunction(g) = v + SumFunctionOnSet(f, R)
  BY Zenon, <1>1, <1>3, <1>5 DEF SumFunction
<1> QED BY <1>1, <1>4, <1>6 DEF g

\* The sum of a function to the natural numbers.
LEMMA SumBounds ==
  ASSUME NEW S, IsFiniteSet(S), NEW f \in [S -> Nat]
  PROVE  /\ SumFunction(f) \in Nat
         /\ \A x \in S : f[x] <= SumFunction(f)
         /\ (\A x \in S : f[x] = 0) => SumFunction(f) = 0
<1>1. DOMAIN f = S /\ \A x \in S : f[x] \in Nat
  OBVIOUS
<1> QED BY Zenon, <1>1, SumNat DEF SumFunction

=============================================================================
