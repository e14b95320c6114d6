-------------------------- MODULE FiniteSums_proofs --------------------------
(***************************************************************************)
(* Facts about numbers and sums that no model is needed for: a set of      *)
(* naturals has a least element, and a greatest if it is bounded; what     *)
(* holds of 0 and of every successor holds of all naturals; and the sum    *)
(* SumFunctionOnSet of a finite set of terms, which is recursive, can be   *)
(* taken in any order.                                                     *)
(***************************************************************************)
EXTENDS Integers, Functions, FiniteSets, FiniteSetTheorems, WellFoundedInduction, TLAPS

-----------------------------------------------------------------------------
(* Naturals                                                                *)

Less == {ss \in Nat \X Nat : ss[1] < ss[2]}

(* The order of the naturals is well founded.                             *)
LEMMA LessIsWellFounded == IsWellFoundedOn(Less, Nat)
<1>1. OpToRel(<, Nat) = Less
  BY Zenon DEF OpToRel, Less
<1> QED BY <1>1, NatLessThanWellFounded, Zenon

(* A set of naturals has a least element.                                  *)
LEMMA Least ==
  ASSUME NEW T \in SUBSET Nat, T # {}
  PROVE  \E n \in T : \A m \in T : n <= m
<1>2. PICK n \in T : \A m \in T : ~ (<<m, n>> \in Less)
  BY LessIsWellFounded, WFMin
<1>3. ASSUME NEW m \in T PROVE n <= m
  <2>1. m \in Nat /\ n \in Nat /\ <<m, n>> \in Nat \X Nat
    OBVIOUS
  <2>2. <<m, n>>[1] = m /\ <<m, n>>[2] = n
    OBVIOUS
  <2>3. ~ (m < n)
    BY <1>2, <2>1, <2>2 DEF Less
  <2> QED BY <2>1, <2>3
<1> QED BY <1>2, <1>3

(* Induction: the least natural outside T would have its predecessor in T. *)
LEMMA SetInduction ==
  ASSUME NEW T \in SUBSET Nat, 0 \in T, \A n \in T : n + 1 \in T
  PROVE  T = Nat
<1> SUFFICES ASSUME Nat \ T # {} PROVE FALSE
  OBVIOUS
<1>1. PICK n \in Nat \ T : \A m \in Nat \ T : n <= m
  BY Least
<1>2. n # 0 /\ n - 1 \in Nat
  BY <1>1
<1>3. n - 1 \in T
  BY <1>1, <1>2
<1>4. n - 1 + 1 = n
  BY <1>1
<1> QED BY <1>1, <1>3, <1>4

(* A bounded set of naturals has a greatest element: its least bound.      *)
LEMMA Greatest ==
  ASSUME NEW T \in SUBSET Nat, T # {}, NEW b \in Nat, \A t \in T : t <= b
  PROVE  \E n \in T : \A m \in T : m <= n
<1> DEFINE U == {n \in Nat : \A t \in T : t <= n}
<1>1. PICK u \in U : \A v \in U : u <= v
  <2>1. b \in U /\ U \in SUBSET Nat
    OBVIOUS
  <2> HIDE DEF U
  <2> QED BY <2>1, Least
<1>2. CASE u \in T
  BY <1>1, <1>2
<1>3. CASE u \notin T
  <2>1. PICK x \in T : TRUE
    OBVIOUS
  <2>2. \A t \in T : t < u
    BY <1>1, <1>3
  <2>3. u - 1 \in U
    BY <2>1, <2>2, <1>1
  <2> QED BY <2>3, <1>1
<1> QED BY <1>2, <1>3

-----------------------------------------------------------------------------
(* Sums                                                                    *)

Pick(s) == CHOOSE x \in s : TRUE

(* The recursion of the sum, on the subsets of its terms.                  *)
Step(f, g, s) == IF s = {} THEN 0 ELSE f[Pick(s)] + g[s \ {Pick(s)}]

SumFn(f, S) == CHOOSE g : g = [s \in SUBSET S |-> Step(f, g, s)]

(* What is picked is a member.                                             *)
LEMMA PickIn == ASSUME NEW s, s # {} PROVE Pick(s) \in s
BY DEF Pick

(* The community modules' sum is this recursive function.                  *)
LEMMA Unfold == ASSUME NEW f, NEW S PROVE SumFunctionOnSet(f, S) = SumFn(f, S)[S]
BY Zenon DEF SumFunctionOnSet, FoldFunctionOnSet, MapThenFoldSet, SumFn, Step, Pick

(* A part of a finite set without one of its elements.                     *)
LEMMA SmallerSet ==
  ASSUME NEW S, IsFiniteSet(S), NEW s \in SUBSET S, s # {}, NEW x \in s
  PROVE  /\ IsFiniteSet(s) /\ Cardinality(s) \in Nat /\ s \ {x} \in SUBSET S
         /\ IsFiniteSet(s \ {x}) /\ Cardinality(s \ {x}) = Cardinality(s) - 1
         /\ Cardinality(s \ {x}) \in Nat
<1>1. IsFiniteSet(s)
  BY FS_Subset
<1> QED BY <1>1, FS_RemoveElement, FS_CardinalityType

(* There is a function with this recursion: for each n, one that obeys it  *)
(* on the sets of up to n elements.                                        *)
LEMMA SumFnExists ==
  ASSUME NEW f, NEW S, IsFiniteSet(S)
  PROVE  SumFn(f, S) = [s \in SUBSET S |-> Step(f, SumFn(f, S), s)]
<1> DEFINE Good(g, n) == \A s \in SUBSET S : Cardinality(s) <= n => g[s] = Step(f, g, s)
           T == {n \in Nat : \E g : Good(g, n)}
<1>1. 0 \in T
  <2> DEFINE g == [s \in SUBSET S |-> 0]
  <2>1. ASSUME NEW s \in SUBSET S, Cardinality(s) <= 0 PROVE g[s] = Step(f, g, s)
    <3>1. IsFiniteSet(s) /\ Cardinality(s) \in Nat
      BY FS_Subset, FS_CardinalityType
    <3>2. s = {}
      BY <2>1, <3>1, FS_EmptySet
    <3> QED BY <3>2 DEF Step
  <2> HIDE DEF g
  <2>2. Good(g, 0)
    BY <2>1
  <2> QED BY <2>2
<1>2. ASSUME NEW n \in T PROVE n + 1 \in T
  <2>1. PICK g : Good(g, n)
    BY <1>2
  <2> DEFINE h == [s \in SUBSET S |-> Step(f, g, s)]
  <2>2. ASSUME NEW s \in SUBSET S, Cardinality(s) <= n + 1 PROVE h[s] = Step(f, h, s)
    <3>1. CASE s = {}
      BY <3>1 DEF Step
    <3>2. CASE s # {}
      <4> DEFINE r == s \ {Pick(s)}
      <4>0. Pick(s) \in s
        BY <3>2, PickIn
      <4>1. r \in SUBSET S /\ Cardinality(r) <= n
        <5>1. Cardinality(s) \in Nat /\ r \in SUBSET S /\ Cardinality(r) = Cardinality(s) - 1
          BY <3>2, <4>0, SmallerSet
        <5> QED BY <2>2, <5>1
      <4>2. h[r] = Step(f, g, r) /\ h[s] = Step(f, g, s)
        BY <4>1
      <4>3. g[r] = Step(f, g, r)
        BY <4>1, <2>1
      <4>4. g[r] = h[r]
        BY <4>2, <4>3
      <4>5. Step(f, g, s) = f[Pick(s)] + g[r] /\ Step(f, h, s) = f[Pick(s)] + h[r]
        BY <3>2 DEF Step
      <4> QED BY <4>2, <4>4, <4>5
    <3> QED BY <3>1, <3>2
  <2> HIDE DEF h
  <2>3. Good(h, n + 1)
    BY <2>2
  <2> QED BY <2>3
<1>3. T = Nat
  <2> T \in SUBSET Nat
    OBVIOUS
  <2> HIDE DEF T
  <2> QED BY <1>1, <1>2, SetInduction
<1>4. Cardinality(S) \in T
  BY <1>3, FS_CardinalityType
<1>5. PICK g : Good(g, Cardinality(S))
  BY <1>4
<1> DEFINE h == [s \in SUBSET S |-> Step(f, g, s)]
<1>6. ASSUME NEW s \in SUBSET S PROVE Step(f, g, s) = Step(f, h, s)
  <2>1. CASE s = {}
    BY <2>1 DEF Step
  <2>2. CASE s # {}
    <3> DEFINE r == s \ {Pick(s)}
    <3>1. r \in SUBSET S /\ Cardinality(r) <= Cardinality(S)
      BY <2>2, PickIn, FS_Subset
    <3>2. g[r] = h[r]
      BY <3>1, <1>5
    <3>3. Step(f, g, s) = f[Pick(s)] + g[r] /\ Step(f, h, s) = f[Pick(s)] + h[r]
      BY <2>2 DEF Step
    <3> HIDE DEF r, h
    <3> QED BY <3>2, <3>3
  <2> QED BY <2>1, <2>2
<1>7. h = [s \in SUBSET S |-> Step(f, h, s)]
  <2>1. h = [s \in SUBSET S |-> Step(f, g, s)]
    OBVIOUS
  <2> HIDE DEF h
  <2> QED BY <1>6, <2>1
<1> HIDE DEF h
<1> QED BY <1>7, Zenon DEF SumFn

(* What the function is on each part of the set.                           *)
LEMMA SumFnStep ==
  ASSUME NEW f, NEW S, IsFiniteSet(S), NEW s \in SUBSET S
  PROVE  SumFn(f, S)[s] = Step(f, SumFn(f, S), s)
<1> DEFINE g == SumFn(f, S)
<1>1. g = [r \in SUBSET S |-> Step(f, g, r)]
  BY SumFnExists
<1> HIDE DEF g
<1>2. g[s] = Step(f, g, s)
  BY <1>1
<1> QED BY <1>2 DEF g

(* The functions of a set and of a part of it agree on the part.           *)
LEMMA SumFnAgree ==
  ASSUME NEW f, NEW S, IsFiniteSet(S), NEW R \in SUBSET S
  PROVE  SumFn(f, S)[R] = SumFn(f, R)[R]
<1> DEFINE g == SumFn(f, S)
           h == SumFn(f, R)
           T == {n \in Nat : \A s \in SUBSET R : Cardinality(s) <= n => g[s] = h[s]}
<1>0. IsFiniteSet(R) /\ Cardinality(R) \in Nat
  BY FS_Subset, FS_CardinalityType
<1>1. /\ \A s \in SUBSET R : g[s] = Step(f, g, s)
      /\ \A s \in SUBSET R : h[s] = Step(f, h, s)
  <2>1. ASSUME NEW s \in SUBSET R PROVE s \in SUBSET S
    OBVIOUS
  <2> QED BY <1>0, <2>1, SumFnStep
<1> HIDE DEF g, h
<1>2. 0 \in T
  <2>1. ASSUME NEW s \in SUBSET R, Cardinality(s) <= 0 PROVE g[s] = h[s]
    <3>1. IsFiniteSet(s) /\ Cardinality(s) \in Nat
      BY <1>0, FS_Subset, FS_CardinalityType
    <3>2. s = {}
      BY <2>1, <3>1, FS_EmptySet
    <3> QED BY <1>1, <3>2 DEF Step
  <2> QED BY <2>1
<1>3. ASSUME NEW n \in T PROVE n + 1 \in T
  <2>1. ASSUME NEW s \in SUBSET R, Cardinality(s) <= n + 1 PROVE g[s] = h[s]
    <3>1. CASE s = {}
      BY <1>1, <3>1 DEF Step
    <3>2. CASE s # {}
      <4> DEFINE r == s \ {Pick(s)}
      <4>1. r \in SUBSET R /\ Cardinality(r) <= n
        BY <1>0, <2>1, <3>2, PickIn, SmallerSet
      <4>2. g[r] = h[r]
        BY <1>3, <4>1
      <4>3. Step(f, g, s) = f[Pick(s)] + g[r] /\ Step(f, h, s) = f[Pick(s)] + h[r]
        BY <3>2 DEF Step
      <4> HIDE DEF r
      <4> QED BY <1>1, <4>2, <4>3
    <3> QED BY <3>1, <3>2
  <2> QED BY <2>1
<1>4. T = Nat
  <2> T \in SUBSET Nat
    OBVIOUS
  <2> HIDE DEF T
  <2> QED BY <1>2, <1>3, SetInduction
<1>5. Cardinality(R) \in T
  BY <1>0, <1>4
<1> QED BY <1>5 DEF g, h

(* The sum of no terms.                                                    *)
LEMMA SumEmpty == ASSUME NEW f PROVE SumFunctionOnSet(f, {}) = 0
<1>2. SumFn(f, {})[{}] = Step(f, SumFn(f, {}), {})
  BY SumFnStep, FS_EmptySet
<1> QED BY <1>2, Unfold DEF Step

(* The first term and the rest.                                            *)
LEMMA SumPicked ==
  ASSUME NEW f, NEW S, IsFiniteSet(S), S # {}
  PROVE  SumFunctionOnSet(f, S) = f[Pick(S)] + SumFunctionOnSet(f, S \ {Pick(S)})
<1> DEFINE g == SumFn(f, S)
           r == S \ {Pick(S)}
<1>1. g[S] = Step(f, g, S)
  BY SumFnStep
<1>2. g[r] = SumFn(f, r)[r]
  BY SumFnAgree
<1>3. Step(f, g, S) = f[Pick(S)] + g[r]
  BY DEF Step
<1>4. SumFunctionOnSet(f, S) = g[S] /\ SumFunctionOnSet(f, r) = SumFn(f, r)[r]
  BY Unfold
<1> QED BY <1>1, <1>2, <1>3, <1>4

(* Any term can be taken first.                                            *)
LEMMA SumAny ==
  ASSUME NEW f, NEW S, IsFiniteSet(S), \A x \in S : f[x] \in Int, NEW a \in S
  PROVE  SumFunctionOnSet(f, S) \in Int /\ SumFunctionOnSet(f, S) = f[a] + SumFunctionOnSet(f, S \ {a})
<1> DEFINE Sum(s) == SumFunctionOnSet(f, s)
           Fine(s) == Sum(s) \in Int /\ \A x \in s : Sum(s) = f[x] + Sum(s \ {x})
           T == {n \in Nat : \A s \in SUBSET S : Cardinality(s) <= n => Fine(s)}
<1>0. \A s \in SUBSET S : s # {} => Sum(s) = f[Pick(s)] + Sum(s \ {Pick(s)})
  BY SumPicked, FS_Subset
<1>00. Sum({}) = 0
  BY SumEmpty
<1> HIDE DEF Sum
<1>1. 0 \in T
  <2>1. ASSUME NEW s \in SUBSET S, Cardinality(s) <= 0 PROVE Fine(s)
    <3>1. IsFiniteSet(s) /\ Cardinality(s) \in Nat
      BY FS_Subset, FS_CardinalityType
    <3>2. s = {}
      BY <2>1, <3>1, FS_EmptySet
    <3> QED BY <1>00, <3>2
  <2> QED BY <2>1
<1>2. ASSUME NEW n \in T PROVE n + 1 \in T
  <2>1. ASSUME NEW s \in SUBSET S, Cardinality(s) <= n + 1 PROVE Fine(s)
    <3>1. CASE s = {}
      BY <1>00, <3>1
    <3>2. CASE s # {}
      <4> DEFINE c == Pick(s)
      <4>1. c \in s
        BY <3>2, PickIn
      <4>2. \A x \in s : s \ {x} \in SUBSET S /\ Cardinality(s \ {x}) <= n
        <5>1. \A x \in s : /\ Cardinality(s) \in Nat /\ s \ {x} \in SUBSET S
                           /\ Cardinality(s \ {x}) = Cardinality(s) - 1
          BY <3>2, SmallerSet
        <5> QED BY <2>1, <5>1
      <4>3. \A x \in s : Fine(s \ {x})
        BY <1>2, <4>2
      <4>4. Sum(s) = f[c] + Sum(s \ {c})
        BY <1>0, <3>2
      <4>5. Sum(s) \in Int
        <5>1. f[c] \in Int /\ Sum(s \ {c}) \in Int
          BY <4>1, <4>3
        <5> QED BY <4>4, <5>1
      <4> HIDE DEF c
      <4>6. ASSUME NEW x \in s PROVE Sum(s) = f[x] + Sum(s \ {x})
        <5>1. CASE x = c
          BY <4>4, <5>1
        <5>2. CASE x # c
          <6>1. Sum(s \ {c}) = f[x] + Sum((s \ {c}) \ {x})
            BY <4>1, <4>3, <5>2
          <6>2. Sum(s \ {x}) = f[c] + Sum((s \ {x}) \ {c})
            BY <4>1, <4>3, <5>2
          <6>3. (s \ {c}) \ {x} = (s \ {x}) \ {c}
            OBVIOUS
          <6>4. Sum((s \ {c}) \ {x}) \in Int
            <7>1. (s \ {c}) \ {x} \in SUBSET S /\ Cardinality((s \ {c}) \ {x}) <= n
              <8>1. IsFiniteSet(s) /\ IsFiniteSet(s \ {c})
                BY FS_Subset
              <8>2. x \in s \ {c}
                BY <5>2
              <8>3. Cardinality((s \ {c}) \ {x}) = Cardinality(s \ {c}) - 1
                BY <8>1, <8>2, FS_RemoveElement
              <8>4. Cardinality(s \ {c}) \in Nat /\ Cardinality(s \ {c}) <= n
                BY <8>1, <4>1, <4>2, FS_CardinalityType
              <8> QED BY <8>3, <8>4
            <7> QED BY <1>2, <7>1
          <6>5. f[x] \in Int /\ f[c] \in Int
            BY <4>1
          <6> QED BY <4>4, <6>1, <6>2, <6>3, <6>4, <6>5
        <5> QED BY <5>1, <5>2
      <4> QED BY <4>5, <4>6
    <3> QED BY <3>1, <3>2
  <2> QED BY <2>1
<1>3. T = Nat
  <2> T \in SUBSET Nat
    OBVIOUS
  <2> HIDE DEF T
  <2> QED BY <1>1, <1>2, SetInduction
<1>4. Cardinality(S) \in T
  BY <1>3, FS_CardinalityType
<1>5. Fine(S)
  BY <1>4
<1> QED BY <1>5 DEF Sum

(* A set of a finite set that holds the empty one, and every set that it   *)
(* holds with one more element, holds all of its subsets.                  *)
LEMMA SubsetInduction ==
  ASSUME NEW S, IsFiniteSet(S), NEW G \in SUBSET SUBSET S,
         {} \in G, \A s \in SUBSET S : \A x \in s : s \ {x} \in G => s \in G
  PROVE  S \in G
<1> DEFINE T == {n \in Nat : \A s \in SUBSET S : Cardinality(s) <= n => s \in G}
<1>1. 0 \in T
  <2>1. ASSUME NEW s \in SUBSET S, Cardinality(s) <= 0 PROVE s \in G
    <3>1. IsFiniteSet(s) /\ Cardinality(s) \in Nat
      BY FS_Subset, FS_CardinalityType
    <3> QED BY <2>1, <3>1, FS_EmptySet
  <2> QED BY <2>1
<1>2. ASSUME NEW n \in T PROVE n + 1 \in T
  <2>1. ASSUME NEW s \in SUBSET S, Cardinality(s) <= n + 1 PROVE s \in G
    <3>1. CASE s = {}
      BY <3>1
    <3>2. CASE s # {}
      <4>1. PICK x \in s : TRUE
        BY <3>2
      <4>2. Cardinality(s) \in Nat /\ s \ {x} \in SUBSET S /\ Cardinality(s \ {x}) = Cardinality(s) - 1
        BY <3>2, <4>1, SmallerSet
      <4>3. s \ {x} \in G
        BY <1>2, <2>1, <4>2
      <4> QED BY <4>1, <4>3
    <3> QED BY <3>1, <3>2
  <2> QED BY <2>1
<1>3. T = Nat
  <2> T \in SUBSET Nat
    OBVIOUS
  <2> HIDE DEF T
  <2> QED BY <1>1, <1>2, SetInduction
<1>4. Cardinality(S) \in T
  BY <1>3, FS_CardinalityType
<1> QED BY <1>4

(* A sum of integers is an integer.                                        *)
LEMMA SumInt ==
  ASSUME NEW f, NEW S, IsFiniteSet(S), \A x \in S : f[x] \in Int
  PROVE  SumFunctionOnSet(f, S) \in Int
<1>1. CASE S = {}
  BY <1>1, SumEmpty
<1>2. CASE S # {}
  BY <1>2, SumAny
<1> QED BY <1>1, <1>2

(* A sum of naturals is a natural.                                         *)
LEMMA SumNat ==
  ASSUME NEW f, NEW S, IsFiniteSet(S), \A x \in S : f[x] \in Nat
  PROVE  SumFunctionOnSet(f, S) \in Nat
<1> DEFINE Sum(s) == SumFunctionOnSet(f, s)
           G == {s \in SUBSET S : Sum(s) \in Nat}
<1>1. {} \in G
  BY SumEmpty
<1>2. ASSUME NEW s \in SUBSET S, NEW x \in s, s \ {x} \in G PROVE s \in G
  <2>1. IsFiniteSet(s) /\ \A y \in s : f[y] \in Int
    BY FS_Subset
  <2>2. Sum(s) = f[x] + Sum(s \ {x})
    BY <2>1, SumAny
  <2>3. f[x] \in Nat /\ Sum(s \ {x}) \in Nat
    BY <1>2
  <2> QED BY <2>2, <2>3
<1>3. G \in SUBSET SUBSET S
  OBVIOUS
<1>4. S \in G
  <2> HIDE DEF G
  <2> QED BY <1>1, <1>2, <1>3, SubsetInduction
<1> QED BY <1>4

(* The sum depends on its terms only.                                      *)
LEMMA SumSame ==
  ASSUME NEW f, NEW g, NEW S, IsFiniteSet(S), \A x \in S : f[x] \in Int /\ f[x] = g[x]
  PROVE  SumFunctionOnSet(f, S) = SumFunctionOnSet(g, S)
<1> DEFINE Sum(h, s) == SumFunctionOnSet(h, s)
           G == {s \in SUBSET S : Sum(f, s) = Sum(g, s)}
<1>1. {} \in G
  BY SumEmpty
<1>2. ASSUME NEW s \in SUBSET S, NEW x \in s, s \ {x} \in G PROVE s \in G
  <2>1. IsFiniteSet(s) /\ \A y \in s : f[y] \in Int /\ g[y] \in Int
    BY FS_Subset
  <2>2. Sum(f, s) = f[x] + Sum(f, s \ {x})
    BY <2>1, SumAny
  <2>3. Sum(g, s) = g[x] + Sum(g, s \ {x})
    BY <2>1, SumAny
  <2>4. Sum(f, s \ {x}) = Sum(g, s \ {x}) /\ f[x] = g[x]
    BY <1>2
  <2> HIDE DEF Sum
  <2>5. Sum(f, s) = Sum(g, s)
    BY <2>2, <2>3, <2>4
  <2> QED BY <2>5
<1>3. G \in SUBSET SUBSET S
  OBVIOUS
<1>4. S \in G
  <2> HIDE DEF G
  <2> QED BY <1>1, <1>2, <1>3, SubsetInduction
<1> QED BY <1>4

(* The sum of a part of the terms is no larger.                            *)
LEMMA SumMonotone ==
  ASSUME NEW f, NEW S, IsFiniteSet(S), \A x \in S : f[x] \in Nat, NEW R \in SUBSET S
  PROVE  SumFunctionOnSet(f, R) <= SumFunctionOnSet(f, S)
<1> DEFINE Sum(s) == SumFunctionOnSet(f, s)
           D == S \ R
           G == {s \in SUBSET D : Sum(R) <= Sum(R \cup s)}
<1>0. ASSUME NEW s \in SUBSET S PROVE Sum(s) \in Nat
  BY FS_Subset, SumNat
<1>1. {} \in G
  <2>1. R \cup {} = R /\ Sum(R) \in Nat
    BY <1>0
  <2> HIDE DEF Sum
  <2> QED BY <2>1
<1>2. ASSUME NEW s \in SUBSET D, NEW x \in s, s \ {x} \in G PROVE s \in G
  <2>1. IsFiniteSet(R \cup s) /\ \A y \in R \cup s : f[y] \in Int
    BY FS_Subset
  <2>2. Sum(R \cup s) = f[x] + Sum((R \cup s) \ {x})
    BY <2>1, SumAny
  <2>3. (R \cup s) \ {x} = R \cup (s \ {x})
    OBVIOUS
  <2>4. f[x] \in Nat /\ Sum(R) \in Nat /\ Sum(R \cup (s \ {x})) \in Nat
    BY <1>0
  <2>5. Sum(R) <= Sum(R \cup (s \ {x}))
    BY <1>2
  <2> HIDE DEF Sum
  <2>6. Sum(R) <= Sum(R \cup s)
    BY <2>2, <2>3, <2>4, <2>5
  <2> QED BY <2>6
<1>3. G \in SUBSET SUBSET D /\ IsFiniteSet(D)
  BY FS_Difference
<1>4. D \in G
  <2> HIDE DEF G
  <2> QED BY <1>1, <1>2, <1>3, SubsetInduction
<1>5. R \cup D = S
  OBVIOUS
<1> QED BY <1>4, <1>5

(* The union of the sets that a function gives.                            *)
UnionOf(F, S) == UNION {F[x] : x \in S}

(* The sizes of sets that have nothing in common add up to that of their   *)
(* union.                                                                  *)
LEMMA SumOfSizes ==
  ASSUME NEW f, NEW F, NEW S, IsFiniteSet(S),
         \A x \in S : IsFiniteSet(F[x]) /\ f[x] = Cardinality(F[x]),
         \A x, y \in S : x # y => F[x] \cap F[y] = {}
  PROVE  IsFiniteSet(UnionOf(F, S)) /\ SumFunctionOnSet(f, S) = Cardinality(UnionOf(F, S))
<1> DEFINE U(s) == UnionOf(F, s)
           Sum(s) == SumFunctionOnSet(f, s)
           G == {s \in SUBSET S : IsFiniteSet(U(s)) /\ Sum(s) = Cardinality(U(s))}
<1>0. \A x \in S : f[x] \in Nat
  BY FS_CardinalityType
<1>1. {} \in G
  <2>1. U({}) = {}
    BY DEF UnionOf
  <2> QED BY <2>1, SumEmpty, FS_EmptySet
<1>2. ASSUME NEW s \in SUBSET S, NEW x \in s, s \ {x} \in G PROVE s \in G
  <2>1. IsFiniteSet(s) /\ \A y \in s : f[y] \in Int
    BY <1>0, FS_Subset
  <2>2. Sum(s) = f[x] + Sum(s \ {x})
    BY <2>1, SumAny
  <2>3. U(s) = F[x] \cup U(s \ {x})
    BY DEF UnionOf
  <2>4. F[x] \cap U(s \ {x}) = {}
    BY DEF UnionOf
  <2>5. IsFiniteSet(F[x]) /\ IsFiniteSet(U(s \ {x})) /\ Sum(s \ {x}) = Cardinality(U(s \ {x})) /\ f[x] = Cardinality(F[x])
    BY <1>2
  <2> HIDE DEF U, Sum
  <2>6. /\ IsFiniteSet(F[x] \cup U(s \ {x}))
        /\ Cardinality(F[x] \cup U(s \ {x})) = Cardinality(F[x]) + Cardinality(U(s \ {x})) - Cardinality(F[x] \cap U(s \ {x}))
    BY <2>5, FS_Union
  <2>7. Cardinality(F[x] \cap U(s \ {x})) = 0
    BY <2>4, FS_EmptySet
  <2>8. Cardinality(F[x]) \in Nat /\ Cardinality(U(s \ {x})) \in Nat
    BY <2>5, FS_CardinalityType
  <2>9. IsFiniteSet(U(s)) /\ Sum(s) = Cardinality(U(s))
    BY <2>2, <2>3, <2>5, <2>6, <2>7, <2>8
  <2> QED BY <2>9
<1>3. G \in SUBSET SUBSET S
  OBVIOUS
<1>4. S \in G
  <2> HIDE DEF G
  <2> QED BY <1>1, <1>2, <1>3, SubsetInduction
<1> QED BY <1>4

(* The image of a finite set is finite.                                    *)
LEMMA FiniteImage ==
  ASSUME NEW S, IsFiniteSet(S), NEW f
  PROVE  IsFiniteSet({f[x] : x \in S})
<1> DEFINE R == {f[x] : x \in S}
           g == [x \in S |-> f[x]]
<1>1. g \in Surjection(S, R)
  BY DEF Surjection
<1> QED BY <1>1, FS_Surjection

(* A finite union of finite sets is finite.                                *)
LEMMA FiniteUnion ==
  ASSUME NEW S, IsFiniteSet(S), NEW F, \A x \in S : IsFiniteSet(F[x])
  PROVE  IsFiniteSet(UnionOf(F, S))
<1>1. IsFiniteSet({F[x] : x \in S})
  BY FiniteImage
<1> QED BY <1>1, FS_UNION DEF UnionOf

(* The numbers between two bounds.                                         *)
LEMMA SizeWithin ==
  ASSUME NEW from \in Nat, NEW to \in Nat, from <= to, NEW V, V \subseteq from .. to - 1
  PROVE  IsFiniteSet(V) /\ Cardinality(V) \in Nat /\ Cardinality(V) <= to - from
<1>1. from \in Int /\ to - 1 \in Int
  OBVIOUS
<1>2. /\ IsFiniteSet(from .. to - 1)
      /\ Cardinality(from .. to - 1) = IF from > to - 1 THEN 0 ELSE to - 1 - from + 1
  BY <1>1, FS_Interval
<1>3. Cardinality(from .. to - 1) = to - from
  BY <1>2
<1>4. IsFiniteSet(V) /\ Cardinality(V) <= Cardinality(from .. to - 1)
  BY <1>2, FS_Subset
<1> QED BY <1>3, <1>4, FS_CardinalityType
=============================================================================
