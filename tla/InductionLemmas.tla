-------------------------- MODULE InductionLemmas --------------------------
(***************************************************************************)
(* Induction over numbers and finite sets in the form that the proofs use  *)
(* it: what holds is given as the set of those for which it holds.         *)
(***************************************************************************)
EXTENDS Integers, FiniteSetsExt, FiniteSetTheorems, WellFoundedInduction, TLAPS

\* A set of natural numbers has a least one.
LEMMA LeastNumber ==
  ASSUME NEW S, S \subseteq Nat, S # {}
  PROVE  \E x \in S : \A y \in S : x <= y
<1> DEFINE less == {ss \in Nat \X Nat : ss[1] < ss[2]}
<1>1. IsWellFoundedOn(less, Nat)
  BY NatLessThanWellFounded DEF OpToRel
<1>2. PICK x \in S : \A y \in S : ~ (<<y, x>> \in less)
  <2> HIDE DEF less
  <2> QED
    BY <1>1, WFMin
<1>3. ASSUME NEW y \in S
      PROVE  x <= y
  <2>1. x \in Nat /\ y \in Nat
    OBVIOUS
  <2>2. y < x => <<y, x>> \in less
    BY <2>1
  <2> QED
    BY <1>2, <2>1, <2>2
<1> QED
  BY <1>3

LEMMA MinIsLeast ==
  ASSUME NEW S, S \subseteq Nat, S # {}
  PROVE  Min(S) \in S /\ \A y \in S : Min(S) <= y
  BY LeastNumber DEF Min

\* A set with a bound has a greatest one.
LEMMA MaxIsGreatest ==
  ASSUME NEW S, S \subseteq Nat, S # {}, NEW n \in Nat, \A y \in S : y <= n
  PROVE  Max(S) \in S /\ \A y \in S : y <= Max(S)
<1> DEFINE T == {n - y : y \in S}
<1>1. T \subseteq Nat /\ T # {}
  <2>1. \A y \in S : n - y \in Nat
    OBVIOUS
  <2>2. T \subseteq Nat
    BY <2>1
  <2>3. PICK y \in S : TRUE
    OBVIOUS
  <2>4. n - y \in T
    OBVIOUS
  <2> QED
    BY <2>2, <2>4
<1> HIDE DEF T
<1>2. PICK x \in T : \A y \in T : x <= y
  BY <1>1, LeastNumber
<1>3. PICK z \in S : x = n - z
  BY DEF T
<1>4. ASSUME NEW y \in S
      PROVE  y <= z
  <2>1. n - y \in T
    BY DEF T
  <2> QED
    BY <1>2, <1>3, <2>1
<1>5. \A y \in S : z >= y
  BY <1>4
<1> QED
  BY <1>5 DEF Max

\* Induction over the natural numbers.
LEMMA NumberInduction ==
  ASSUME NEW P, 0 \in P, \A n \in Nat : n \in P => n + 1 \in P
  PROVE  Nat \subseteq P
<1> DEFINE S == Nat \ P
<1> SUFFICES ASSUME S # {} PROVE FALSE
  OBVIOUS
<1>1. PICK x \in S : \A y \in S : x <= y
  <2>1. S \subseteq Nat
    OBVIOUS
  <2> HIDE DEF S
  <2> QED
    BY <2>1, LeastNumber
<1>2. x # 0
  OBVIOUS
<1>3. x - 1 \in Nat /\ x - 1 \in P
  BY <1>1, <1>2
<1> QED
  BY <1>3

\* A function on 0 .. n whose values are made from the one before is defined, and
\* has its values where H has them.
Stays(n, V, H) == \A k \in 1 .. n : \A v \in V : H[k][v] \in V
Stepwise(n, V, b, H, f) == f \in [0 .. n -> V] /\ f[0] = b /\ \A k \in 1 .. n : f[k] = H[k][f[k - 1]]

LEMMA StepwiseExists ==
  ASSUME NEW n \in Nat, NEW V, NEW b \in V, NEW H, Stays(n, V, H)
  PROVE  \E f : Stepwise(n, V, b, H, f)
<1> USE DEF Stays, Stepwise
<1> DEFINE Good(m, g) == Stepwise(m, V, b, H, g)
           P == {m \in Nat : m <= n => \E g : Good(m, g)}
<1>1. 0 \in P
  <2>1. Good(0, [k \in 0 .. 0 |-> b])
    OBVIOUS
  <2> QED
    BY <2>1
<1>2. ASSUME NEW m \in Nat, m \in P
      PROVE  m + 1 \in P
  <2> SUFFICES ASSUME m + 1 <= n PROVE \E g : Good(m + 1, g)
    OBVIOUS
  <2>1. PICK g : Good(m, g)
    BY <1>2
  <2>2. PICK v \in V : v = H[m + 1][g[m]]
    BY <2>1
  <2> DEFINE h == [k \in 0 .. m + 1 |-> IF k = m + 1 THEN v ELSE g[k]]
  <2>3. h \in [0 .. m + 1 -> V] /\ h[0] = b
    BY <2>1
  <2>4. ASSUME NEW k \in 1 .. m + 1
        PROVE  h[k] = H[k][h[k - 1]]
    <3>1. h[k - 1] = g[k - 1]
      OBVIOUS
    <3>2. CASE k = m + 1
      BY <2>2, <3>1, <3>2
    <3>3. CASE k # m + 1
      BY <2>1, <3>1, <3>3
    <3> QED
      BY <3>2, <3>3
  <2>5. Good(m + 1, h)
    BY <2>3, <2>4
  <2> QED
    BY <2>5
<1>3. Nat \subseteq P
  <2> HIDE DEF P
  <2> QED
    BY <1>1, <1>2, NumberInduction
<1>4. PICK f : Good(n, f)
  <2>1. n \in P
    BY ONLY <1>3, n \in Nat
  <2> QED
    BY <2>1
<1> QED
  BY <1>4

\* Induction over the subsets of a finite set.
LEMMA SetInduction ==
  ASSUME NEW S, IsFiniteSet(S), NEW P, {} \in P,
         \A T \in SUBSET S : \A x \in S \ T : T \in P => T \cup {x} \in P
  PROVE  SUBSET S \subseteq P
<1> DEFINE Q == {n \in Nat : \A T \in SUBSET S : Cardinality(T) = n => T \in P}
<1>1. \A T \in SUBSET S : IsFiniteSet(T) /\ Cardinality(T) \in Nat
  BY FS_Subset, FS_CardinalityType
<1>2. 0 \in Q
  BY <1>1, FS_EmptySet
<1>3. ASSUME NEW n \in Nat, n \in Q
      PROVE  n + 1 \in Q
  <2> SUFFICES ASSUME NEW T \in SUBSET S, Cardinality(T) = n + 1 PROVE T \in P
    OBVIOUS
  <2>0. IsFiniteSet(T)
    BY <1>1
  <2>1. PICK x \in T : TRUE
    BY <2>0, FS_EmptySet
  <2>2. Cardinality(T \ {x}) = n
    <3>1. Cardinality(T \ {x}) = IF x \in T THEN Cardinality(T) - 1 ELSE Cardinality(T)
      BY ONLY <2>0, FS_RemoveElement
    <3> QED
      BY <3>1
  <2>3. T \ {x} \in P
    BY <1>3, <2>2
  <2>4. T = (T \ {x}) \cup {x}
    OBVIOUS
  <2> QED
    BY <2>3, <2>4
<1>4. Nat \subseteq Q
  <2> HIDE DEF Q
  <2> QED
    BY <1>2, <1>3, NumberInduction
<1> QED
  BY <1>1, <1>4

-----------------------------------------------------------------------------
(* Sums.                                                                   *)

\* h gives the sum of f over each subset of its domain.
Adds(h, f) ==
  /\ h \in [SUBSET DOMAIN f -> Int]
  /\ h[{}] = 0
  /\ \A s \in SUBSET DOMAIN f : \A x \in DOMAIN f \ s : h[s \cup {x}] = f[x] + h[s]

\* How SumFunction is computed.
SumStep(h, f, s) == IF s = {} THEN 0 ELSE LET x == CHOOSE x \in s : TRUE IN f[x] + h[s \ {x}]

\* The sums over the sets of at most n elements are defined.
LEMMA SumsExist ==
  ASSUME NEW f, IsFiniteSet(DOMAIN f)
  PROVE  \E h : h = [s \in SUBSET DOMAIN f |-> SumStep(h, f, s)]
<1> DEFINE D == DOMAIN f
           Small(n) == {s \in SUBSET D : Cardinality(s) <= n}
           P == {n \in Nat : \E h : h = [s \in Small(n) |-> SumStep(h, f, s)]}
<1>1. \A s \in SUBSET D : IsFiniteSet(s) /\ Cardinality(s) \in Nat
  BY FS_Subset, FS_CardinalityType
<1>2. ASSUME NEW s \in SUBSET D, s # {}
      PROVE  LET x == CHOOSE x \in s : TRUE
             IN  x \in s /\ s \ {x} \in SUBSET D /\ Cardinality(s \ {x}) = Cardinality(s) - 1
  <2> DEFINE x == CHOOSE x \in s : TRUE
  <2>1. x \in s
    BY <1>2
  <2>2. IsFiniteSet(s)
    BY <1>1
  <2> HIDE DEF x
  <2>3. Cardinality(s \ {x}) = Cardinality(s) - 1
    BY <2>1, <2>2, FS_RemoveElement
  <2>4. x \in s /\ s \ {x} \in SUBSET D /\ Cardinality(s \ {x}) = Cardinality(s) - 1
    BY <2>1, <2>3
  <2> QED
    BY <2>4 DEF x
<1>3. 0 \in P
  <2> DEFINE h == [s \in Small(0) |-> 0]
  <2>1. \A s \in Small(0) : s = {}
    <3>1. ASSUME NEW s \in Small(0) PROVE s = {}
      <4>1. IsFiniteSet(s) /\ Cardinality(s) = 0
        BY <1>1
      <4> QED
        BY <4>1, FS_EmptySet
    <3> QED
      BY <3>1
  <2>2. h = [s \in Small(0) |-> SumStep(h, f, s)]
    BY <2>1 DEF SumStep
  <2> QED
    BY <2>2
<1>4. ASSUME NEW n \in Nat, n \in P
      PROVE  n + 1 \in P
  <2>1. PICK h : h = [s \in Small(n) |-> SumStep(h, f, s)]
    BY <1>4
  <2> DEFINE g == [s \in Small(n + 1) |-> SumStep(h, f, s)]
  <2>2. ASSUME NEW s \in Small(n)
        PROVE  g[s] = h[s]
    <3>1. s \in Small(n + 1)
      BY <1>1
    <3>2. h[s] = SumStep(h, f, s)
      BY <2>1
    <3> QED
      BY <3>1, <3>2
  <2>3. ASSUME NEW s \in Small(n + 1)
        PROVE  SumStep(g, f, s) = SumStep(h, f, s)
    <3>1. CASE s = {}
      BY <3>1 DEF SumStep
    <3>2. CASE s # {}
      <4> DEFINE x == CHOOSE x \in s : TRUE
      <4>1. s \ {x} \in Small(n)
        BY <1>1, <1>2, <3>2
      <4>2. g[s \ {x}] = h[s \ {x}]
        BY <2>2, <4>1
      <4> QED
        BY <3>2, <4>2 DEF SumStep
    <3> QED
      BY <3>1, <3>2
  <2>4. g = [s \in Small(n + 1) |-> SumStep(g, f, s)]
    BY <2>3
  <2> HIDE DEF g
  <2>5. \E k : k = [s \in Small(n + 1) |-> SumStep(k, f, s)]
    BY <2>4
  <2> QED
    BY <2>5
<1>5. Nat \subseteq P
  <2> HIDE DEF P
  <2> QED
    BY <1>3, <1>4, NumberInduction
<1>6. PICK n \in Nat : n = Cardinality(D)
  BY <1>1
<1>7. Small(n) = SUBSET D
  BY <1>6, FS_Subset, <1>1
<1>8. n \in P
  BY <1>5
<1> QED
  BY <1>7, <1>8

LEMMA SumIsStepwise ==
  ASSUME NEW f, IsFiniteSet(DOMAIN f)
  PROVE  \E h : h = [s \in SUBSET DOMAIN f |-> SumStep(h, f, s)] /\ SumFunction(f) = h[DOMAIN f]
<1> DEFINE h == CHOOSE h : h = [s \in SUBSET DOMAIN f |-> SumStep(h, f, s)]
<1>1. h = [s \in SUBSET DOMAIN f |-> SumStep(h, f, s)]
  BY SumsExist
<1>2. SumFunction(f) = h[DOMAIN f]
  BY DEF SumFunction, SumFunctionOnSet, FoldFunctionOnSet, MapThenFoldSet, SumStep
<1> HIDE DEF h
<1> QED
  BY <1>1, <1>2

\* The sum does not depend on the order.
LEMMA SumAdds ==
  ASSUME NEW f, IsFiniteSet(DOMAIN f), \A x \in DOMAIN f : f[x] \in Int
  PROVE  \E h : Adds(h, f) /\ SumFunction(f) = h[DOMAIN f]
<1> DEFINE D == DOMAIN f
<1>1. PICK h : h = [s \in SUBSET D |-> SumStep(h, f, s)] /\ SumFunction(f) = h[D]
  BY SumIsStepwise
<1>2. \A s \in SUBSET D : IsFiniteSet(s) /\ Cardinality(s) \in Nat
  BY FS_Subset, FS_CardinalityType
<1>3. h[{}] = 0
  <2>1. h[{}] = SumStep(h, f, {})
    BY <1>1
  <2> QED
    BY <2>1 DEF SumStep
<1>4. ASSUME NEW s \in SUBSET D, s # {}
      PROVE  \E x \in s : h[s] = f[x] + h[s \ {x}]
  <2>1. h[s] = SumStep(h, f, s)
    BY <1>1
  <2> QED
    BY <2>1, <1>4 DEF SumStep
<1> DEFINE Good(s) == h[s] \in Int /\ \A x \in s : h[s] = f[x] + h[s \ {x}]
           P == {n \in Nat : \A s \in SUBSET D : Cardinality(s) <= n => Good(s)}
<1>5. 0 \in P
  <2> SUFFICES ASSUME NEW s \in SUBSET D, Cardinality(s) <= 0 PROVE Good(s)
    OBVIOUS
  <2>1. IsFiniteSet(s) /\ Cardinality(s) = 0
    BY <1>2
  <2>2. s = {}
    BY <2>1, FS_EmptySet
  <2> QED
    BY <1>3, <2>2
<1>6. ASSUME NEW n \in Nat, n \in P
      PROVE  n + 1 \in P
  <2> SUFFICES ASSUME NEW s \in SUBSET D, Cardinality(s) <= n + 1 PROVE Good(s)
    OBVIOUS
  <2>1. \A t \in SUBSET D : Cardinality(t) <= n => Good(t)
    BY <1>6
  <2>2. \A x \in s : s \ {x} \in SUBSET D /\ Cardinality(s \ {x}) <= n
    <3>1. ASSUME NEW x \in s PROVE Cardinality(s \ {x}) <= n
      <4>1. IsFiniteSet(s) /\ Cardinality(s) \in Nat
        BY <1>2
      <4>2. Cardinality(s \ {x}) = IF x \in s THEN Cardinality(s) - 1 ELSE Cardinality(s)
        BY ONLY <4>1, FS_RemoveElement
      <4> QED
        BY <4>1, <4>2
    <3> QED
      BY <3>1
  <2>3. CASE s = {}
    BY <1>3, <2>3
  <2>4. CASE s # {}
    <3>1. PICK y \in s : h[s] = f[y] + h[s \ {y}]
      BY <1>4, <2>4
    <3> HIDE DEF Good
    <3>2. \A x \in s : Good(s \ {x})
      BY <2>1, <2>2
    <3> USE DEF Good
    <3>3. h[s] \in Int
      BY <3>1, <3>2
    <3>4. ASSUME NEW x \in s, x # y
          PROVE  h[s] = f[x] + h[s \ {x}]
      <4>1. h[s \ {x}] = f[y] + h[(s \ {x}) \ {y}] /\ h[s \ {y}] = f[x] + h[(s \ {y}) \ {x}]
        BY <3>2, <3>4
      <4>2. (s \ {x}) \ {y} = (s \ {y}) \ {x}
        OBVIOUS
      <4>3. (s \ {x}) \ {y} \in SUBSET D /\ Cardinality((s \ {x}) \ {y}) <= n
        <5>1. s \ {x} \in SUBSET D /\ Cardinality(s \ {x}) \in Nat /\ Cardinality(s \ {x}) <= n /\ IsFiniteSet(s \ {x})
          BY <1>2, <2>2
        <5>2. Cardinality((s \ {x}) \ {y}) <= Cardinality(s \ {x}) /\ Cardinality((s \ {x}) \ {y}) \in Nat
          BY <5>1, <1>2, FS_Subset
        <5> QED
          BY <5>1, <5>2
      <4>4. h[(s \ {x}) \ {y}] \in Int
        BY <2>1, <4>3
      <4>5. f[x] \in Int /\ f[y] \in Int
        OBVIOUS
      <4>6. PICK a \in Int, b \in Int, c \in Int : a = f[x] /\ b = f[y] /\ c = h[(s \ {x}) \ {y}]
        BY <4>4, <4>5
      <4>7. h[s \ {x}] = b + c /\ h[s] = b + (a + c)
        BY <3>1, <4>1, <4>2, <4>6
      <4> QED
        BY <4>6, <4>7
    <3> QED
      BY <3>1, <3>3, <3>4
  <2> QED
    BY <2>3, <2>4
<1>7. Nat \subseteq P
  <2> HIDE DEF P
  <2> QED
    BY <1>5, <1>6, NumberInduction
<1>8. \A s \in SUBSET D : Good(s)
  BY <1>2, <1>7
<1>9. h \in [SUBSET D -> Int]
  <2>1. \A s \in SUBSET D : h[s] \in Int
    BY <1>8
  <2>2. h = [s \in SUBSET D |-> h[s]]
    BY <1>1
  <2> QED
    BY <2>1, <2>2
<1>10. ASSUME NEW s \in SUBSET D, NEW x \in D \ s
       PROVE  h[s \cup {x}] = f[x] + h[s]
  <2>1. s \cup {x} \in SUBSET D /\ (s \cup {x}) \ {x} = s
    OBVIOUS
  <2> HIDE DEF Good
  <2>2. Good(s \cup {x})
    BY <1>8, <2>1
  <2> QED
    BY <2>1, <2>2 DEF Good
<1> QED
  BY <1>1, <1>3, <1>9, <1>10 DEF Adds

\* Two functions that differ in one place.
LEMMA SumDiffers ==
  ASSUME NEW f, IsFiniteSet(DOMAIN f), \A x \in DOMAIN f : f[x] \in Int,
         NEW g, DOMAIN g = DOMAIN f, \A x \in DOMAIN f : g[x] \in Int,
         NEW z \in DOMAIN f, \A x \in DOMAIN f \ {z} : g[x] = f[x]
  PROVE  SumFunction(g) - SumFunction(f) = g[z] - f[z]
<1> DEFINE D == DOMAIN f
<1>1. PICK h : Adds(h, f) /\ SumFunction(f) = h[D]
  BY SumAdds
<1>2. PICK k : Adds(k, g) /\ SumFunction(g) = k[D]
  BY SumAdds
<1> DEFINE P == {s \in SUBSET D : z \notin s => k[s] = h[s]}
<1>3. SUBSET D \subseteq P
  <2>1. {} \in P
    BY <1>1, <1>2 DEF Adds
  <2>2. ASSUME NEW T \in SUBSET D, NEW x \in D \ T, T \in P
        PROVE  T \cup {x} \in P
    <3>1. k[T \cup {x}] = g[x] + k[T] /\ h[T \cup {x}] = f[x] + h[T]
      BY <1>1, <1>2 DEF Adds
    <3> QED
      BY <2>2, <3>1
  <2>3. IsFiniteSet(D)
    OBVIOUS
  <2> HIDE DEF P, D
  <2>4. \A T \in SUBSET D : \A x \in D \ T : T \in P => T \cup {x} \in P
    BY <2>2
  <2> QED
    BY <2>1, <2>3, <2>4, SetInduction
<1>4. k[D \ {z}] = h[D \ {z}] /\ h[D \ {z}] \in Int
  BY <1>1, <1>3 DEF Adds
<1>5. (D \ {z}) \cup {z} = D /\ z \in D \ (D \ {z})
  OBVIOUS
<1>6. h[D] = f[z] + h[D \ {z}] /\ k[D] = g[z] + k[D \ {z}]
  <2>1. D \ {z} \in SUBSET D
    OBVIOUS
  <2>2. h[(D \ {z}) \cup {z}] = f[z] + h[D \ {z}]
    BY <1>1, <1>5, <2>1 DEF Adds
  <2>3. k[(D \ {z}) \cup {z}] = g[z] + k[D \ {z}]
    BY <1>2, <1>5, <2>1 DEF Adds
  <2> QED
    BY <1>5, <2>2, <2>3
<1> QED
  BY <1>1, <1>2, <1>4, <1>6

\* A function with one place more than another.
LEMMA SumWithout ==
  ASSUME NEW f, IsFiniteSet(DOMAIN f), \A x \in DOMAIN f : f[x] \in Int,
         NEW z \in DOMAIN f, NEW g, DOMAIN g = DOMAIN f \ {z}, \A x \in DOMAIN g : g[x] = f[x]
  PROVE  SumFunction(f) = SumFunction(g) + f[z] /\ SumFunction(g) \in Int
<1> DEFINE D == DOMAIN f
           E == DOMAIN g
<1>1. PICK h : Adds(h, f) /\ SumFunction(f) = h[D]
  BY SumAdds
<1>2. IsFiniteSet(E) /\ \A x \in E : g[x] \in Int
  BY FS_Subset
<1>3. PICK k : Adds(k, g) /\ SumFunction(g) = k[E]
  BY <1>2, SumAdds
<1> DEFINE P == {s \in SUBSET E : k[s] = h[s]}
<1>4. SUBSET E \subseteq P
  <2>1. {} \in P
    BY <1>1, <1>3 DEF Adds
  <2>2. ASSUME NEW T \in SUBSET E, NEW x \in E \ T, T \in P
        PROVE  T \cup {x} \in P
    <3>1. k[T \cup {x}] = g[x] + k[T] /\ h[T \cup {x}] = f[x] + h[T]
      BY <1>1, <1>3 DEF Adds
    <3> QED
      BY <2>2, <3>1
  <2> HIDE DEF P, D, E
  <2>3. \A T \in SUBSET E : \A x \in E \ T : T \in P => T \cup {x} \in P
    BY <2>2
  <2> QED
    BY <1>2, <2>1, <2>3, SetInduction
<1>5. k[E] = h[E] /\ k[E] \in Int
  BY <1>3, <1>4 DEF Adds
<1>6. h[D] = f[z] + h[E]
  <2>1. E \cup {z} = D /\ z \in D \ E /\ E \in SUBSET D
    OBVIOUS
  <2>2. h[E \cup {z}] = f[z] + h[E]
    BY <1>1, <2>1 DEF Adds
  <2> QED
    BY <2>1, <2>2
<1> QED
  BY <1>1, <1>3, <1>5, <1>6
=============================================================================
