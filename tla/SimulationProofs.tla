-------------------------- MODULE SimulationProofs ---------------------------
(***************************************************************************)
(* Proofs about the simulator's ticks: conservation of what is made, used  *)
(* and sold, the reports of lost output, the hours of the operators, and   *)
(* the times of the collections.                                           *)
(***************************************************************************)
EXTENDS Simulation, FiniteSetTheorems, WellFoundedInduction, TLAPS

-----------------------------------------------------------------------------
(* Sums.  Least elements replace induction: a set without a least element  *)
(* is empty.                                                               *)

\* A nonempty set of subsets of a finite set has a smallest member.
LEMMA SmallestSubset ==
  ASSUME NEW S, IsFiniteSet(S), NEW T, T \subseteq SUBSET S, T # {}
  PROVE  \E t \in T : \A u \in T : ~(u \subseteq t /\ u # t)
<1>1. FiniteSubsetsOf(S) = SUBSET S
  BY FS_FiniteSubsetsOfFinite
<1>2. IsWellFoundedOn(StrictSubsetOrdering(S), SUBSET S)
  BY <1>1, FS_StrictSubsetOrderingWellFounded
<1>3. PICK t \in T : \A u \in T : ~(<<u, t>> \in StrictSubsetOrdering(S))
  BY <1>2, WFMin
<1>4. \A u \in T : u \subseteq t /\ u # t => <<u, t>> \in StrictSubsetOrdering(S)
  BY DEF StrictSubsetOrdering
<1>5. ASSUME NEW u \in T, u \subseteq t, u # t PROVE FALSE
  BY <1>3, <1>4, <1>5, Zenon
<1> QED BY <1>5, Zenon

\* So has a nonempty set of natural numbers.
LEMMA SmallestNumber ==
  ASSUME NEW T, T \subseteq Nat, T # {}
  PROVE  \E n \in T : \A m \in T : n <= m
<1>1. PICK k \in T : TRUE
  OBVIOUS
<1> DEFINE low == {n \in T : n <= k}
           below == {1 .. n : n \in low}
<1>2. PICK K : K = 1 .. k
  OBVIOUS
<1>3. IsFiniteSet(K) /\ below \subseteq SUBSET K /\ below # {}
  <2>1. IsFiniteSet(1 .. k)
    BY FS_Interval
  <2>2. \A u \in below : u \subseteq 1 .. k
    OBVIOUS
  <2> QED BY <2>1, <2>2, <1>2
<1>4. PICK t \in below : \A u \in below : ~(u \subseteq t /\ u # t)
  <2> HIDE DEF below
  <2> QED BY <1>3, SmallestSubset
<1>5. PICK n \in low : t = 1 .. n
  BY <1>4
<1>6. ASSUME NEW m \in T, m < n PROVE FALSE
  <2>1. m \in low /\ (1 .. m) \subseteq (1 .. n) /\ n \in 1 .. n /\ n \notin 1 .. m
    BY <1>5, <1>6
  <2> QED BY <2>1, <1>4, <1>5
<1> QED BY <1>5, <1>6

Pick(s) == CHOOSE x \in s : TRUE

Sums(f, S, g) ==
  g = [s \in SUBSET S |-> IF s = {} THEN 0 ELSE f[Pick(s)] + g[s \ {Pick(s)}]]

LEMMA Picked == \A s : s # {} => Pick(s) \in s
BY DEF Pick

LEMMA SumDef ==
  ASSUME NEW f, NEW S
  PROVE  SumFunctionOnSet(f, S) = (CHOOSE g : Sums(f, S, g))[S]
BY DEF SumFunctionOnSet, FoldFunctionOnSet, MapThenFoldSet, Sums, Pick

LEMMA SumExists ==
  ASSUME NEW f, NEW S, IsFiniteSet(S), \A x \in S : f[x] \in Int
  PROVE  \E g \in [SUBSET S -> Int] : Sums(f, S, g)
<1> DEFINE UpTo(n, g) == \A s \in SUBSET S : Cardinality(s) <= n =>
                           g[s] = IF s = {} THEN 0 ELSE f[Pick(s)] + g[s \ {Pick(s)}]
           missing == {n \in Nat : ~\E g \in [SUBSET S -> Int] : UpTo(n, g)}
<1>1. \A s \in SUBSET S : IsFiniteSet(s) /\ Cardinality(s) \in Nat
  BY FS_Subset, FS_CardinalityType
<1>2. missing = {}
  <2> SUFFICES ASSUME missing # {} PROVE FALSE
    OBVIOUS
  <2>1. PICK n \in missing : \A m \in missing : n <= m
    BY SmallestNumber
  <2>2. n # 0
    <3>1. \A s \in SUBSET S : Cardinality(s) <= 0 => s = {}
      BY <1>1, FS_EmptySet
    <3>2. PICK zero \in [SUBSET S -> Int] : zero = [s \in SUBSET S |-> 0]
      <4>1. [s \in SUBSET S |-> 0] \in [SUBSET S -> Int]
        OBVIOUS
      <4> QED BY <4>1, Zenon
    <3>3. UpTo(0, zero)
      BY <3>1, <3>2
    <3>4. 0 \notin missing
      BY <3>3
    <3> QED BY <3>4, <2>1
  <2>3. PICK g \in [SUBSET S -> Int] : UpTo(n - 1, g)
    <3>1. n - 1 \in Nat
      BY <2>1, <2>2
    <3>2. n - 1 \notin missing
      <4>1. n \in Nat
        OBVIOUS
      <4> HIDE DEF missing
      <4> QED BY <4>1, <2>1, <3>1
    <3> QED BY <3>1, <3>2
  <2> DEFINE h == [s \in SUBSET S |-> IF Cardinality(s) = n THEN f[Pick(s)] + g[s \ {Pick(s)}] ELSE g[s]]
  <2>4. ASSUME NEW s \in SUBSET S, s # {}
        PROVE  /\ Pick(s) \in s /\ s \ {Pick(s)} \in SUBSET S
               /\ Cardinality(s \ {Pick(s)}) = Cardinality(s) - 1
    <3>1. Pick(s) \in s
      BY <2>4, Picked
    <3>2. IsFiniteSet(s)
      BY <1>1
    <3>3. Cardinality(s \ {Pick(s)}) = Cardinality(s) - 1
      BY <3>1, <3>2, FS_RemoveElement
    <3> QED BY <3>1, <3>3
  <2>5. h \in [SUBSET S -> Int]
    <3>1. \A s \in SUBSET S : Cardinality(s) = n => s # {}
      BY <2>2, FS_EmptySet
    <3> QED BY <2>4, <3>1
  <2>6. UpTo(n, h)
    <3> SUFFICES ASSUME NEW s \in SUBSET S, Cardinality(s) <= n
                 PROVE  h[s] = IF s = {} THEN 0 ELSE f[Pick(s)] + h[s \ {Pick(s)}]
      OBVIOUS
    <3>1. CASE s = {}
      BY <3>1, <2>2, <2>3, FS_EmptySet
    <3>2. CASE s # {}
      <4>1. h[s \ {Pick(s)}] = g[s \ {Pick(s)}]
        BY <3>2, <2>4, <1>1
      <4>2. h[s] = f[Pick(s)] + g[s \ {Pick(s)}]
        <5>1. CASE Cardinality(s) = n
          BY <5>1
        <5>2. CASE Cardinality(s) # n
          BY <5>2, <2>3, <3>2, <1>1
        <5> QED BY <5>1, <5>2
      <4> QED BY <4>1, <4>2, <3>2
    <3> QED BY <3>1, <3>2
  <2> QED BY <2>1, <2>5, <2>6
<1>3. PICK g \in [SUBSET S -> Int] : UpTo(Cardinality(S), g)
  BY <1>1, <1>2
<1>4. \A s \in SUBSET S : Cardinality(s) <= Cardinality(S)
  BY FS_Subset
<1>5. Sums(f, S, g)
  BY <1>3, <1>4 DEF Sums
<1> QED BY <1>5

\* What is summed is the values at the elements: two sums that agree on them
\* are the same.
LEMMA SumsAgree ==
  ASSUME NEW f, NEW S, NEW g, IsFiniteSet(S), Sums(f, S, g),
         NEW h, NEW R, NEW k, Sums(h, R, k),
         NEW T, T \subseteq S, T \subseteq R, \A x \in T : f[x] = h[x]
  PROVE  g[T] = k[T]
<1> DEFINE odd == {s \in SUBSET T : g[s] # k[s]}
<1> SUFFICES ASSUME odd # {} PROVE FALSE
  OBVIOUS
<1>1. IsFiniteSet(T)
  BY FS_Subset
<1>2. PICK s \in odd : \A u \in odd : ~(u \subseteq s /\ u # s)
  <2>1. odd \subseteq SUBSET T
    OBVIOUS
  <2> HIDE DEF odd
  <2> QED BY <1>1, <2>1, SmallestSubset
<1>3. s # {}
  BY DEF Sums
<1>4. Pick(s) \in s
  BY <1>3, Picked
<1>5. s \ {Pick(s)} \in SUBSET T /\ s \ {Pick(s)} \notin odd
  <2>1. s \ {Pick(s)} \in SUBSET T /\ s \ {Pick(s)} \subseteq s /\ s \ {Pick(s)} # s
    BY <1>4
  <2> QED BY <2>1, <1>2
<1>6. g[s] = f[Pick(s)] + g[s \ {Pick(s)}] /\ k[s] = h[Pick(s)] + k[s \ {Pick(s)}]
  <2>1. s \in SUBSET S /\ s \in SUBSET R
    OBVIOUS
  <2> QED BY <2>1, <1>3 DEF Sums
<1>7. f[Pick(s)] = h[Pick(s)]
  BY <1>4
<1> QED BY <1>5, <1>6, <1>7

LEMMA TotalIs ==
  ASSUME NEW f, NEW S, IsFiniteSet(S), \A x \in S : f[x] \in Int
  PROVE  \E g \in [SUBSET S -> Int] : Sums(f, S, g) /\ SumFunctionOnSet(f, S) = g[S]
<1>1. PICK g \in [SUBSET S -> Int] : Sums(f, S, g)
  BY SumExists
<1>2. PICK k : k = CHOOSE any : Sums(f, S, any)
  OBVIOUS
<1>3. Sums(f, S, k)
  BY <1>1, <1>2
<1>4. SumFunctionOnSet(f, S) = k[S]
  BY <1>2, SumDef
<1>5. k[S] = g[S]
  BY <1>1, <1>3, SumsAgree
<1> QED BY <1>1, <1>4, <1>5

LEMMA TotalOfNone == \A f : SumFunctionOnSet(f, {}) = 0
<1> SUFFICES ASSUME NEW f PROVE SumFunctionOnSet(f, {}) = 0
  OBVIOUS
<1>1. IsFiniteSet({})
  BY FS_EmptySet
<1>2. PICK g \in [SUBSET {} -> Int] : Sums(f, {}, g) /\ SumFunctionOnSet(f, {}) = g[{}]
  BY <1>1, TotalIs
<1> QED BY <1>2 DEF Sums

LEMMA TotalAgrees ==
  ASSUME NEW S, IsFiniteSet(S), NEW f, NEW h, \A x \in S : f[x] \in Int /\ f[x] = h[x]
  PROVE  SumFunctionOnSet(f, S) = SumFunctionOnSet(h, S)
<1>1. PICK g \in [SUBSET S -> Int] : Sums(f, S, g) /\ SumFunctionOnSet(f, S) = g[S]
  BY TotalIs
<1>2. PICK k \in [SUBSET S -> Int] : Sums(h, S, k) /\ SumFunctionOnSet(h, S) = k[S]
  BY TotalIs
<1> QED BY <1>1, <1>2, SumsAgree

\* The sum does not depend on the order: any element may be taken out first.
InAnyOrder(f, S, g) == \A T \in SUBSET S : \A x \in T : g[T] = f[x] + g[T \ {x}]

LEMMA AnyFirst ==
  ASSUME NEW f, NEW S, IsFiniteSet(S), \A x \in S : f[x] \in Int,
         NEW g, g \in [SUBSET S -> Int], Sums(f, S, g)
  PROVE  InAnyOrder(f, S, g)
<1> DEFINE odd == {s \in SUBSET S : \E y \in s : g[s] # f[y] + g[s \ {y}]}
<1> SUFFICES ASSUME odd # {} PROVE FALSE
  BY DEF InAnyOrder
<1>1. PICK s \in odd : \A u \in odd : ~(u \subseteq s /\ u # s)
  <2>1. odd \subseteq SUBSET S
    OBVIOUS
  <2> HIDE DEF odd
  <2> QED BY <2>1, SmallestSubset
<1>2. PICK y \in s : g[s] # f[y] + g[s \ {y}]
  OBVIOUS
<1>3. PICK c : c = Pick(s)
  OBVIOUS
<1>4. c \in s /\ g[s] = f[c] + g[s \ {c}]
  BY <1>2, <1>3, Picked DEF Sums
<1>5. c # y
  BY <1>2, <1>4
<1>6. g[s \ {c}] = f[y] + g[(s \ {c}) \ {y}]
  <2>1. s \ {c} \in SUBSET S /\ s \ {c} \subseteq s /\ s \ {c} # s /\ y \in s \ {c}
    BY <1>4, <1>5
  <2>2. s \ {c} \notin odd
    BY <2>1, <1>1
  <2> QED BY <2>1, <2>2
<1>7. g[s \ {y}] = f[c] + g[(s \ {y}) \ {c}]
  <2>1. s \ {y} \in SUBSET S /\ s \ {y} \subseteq s /\ s \ {y} # s /\ c \in s \ {y}
    BY <1>4, <1>5
  <2>2. s \ {y} \notin odd
    BY <2>1, <1>1
  <2> QED BY <2>1, <2>2
<1>8. PICK r : r = g[(s \ {c}) \ {y}]
  OBVIOUS
<1>9. r \in Int /\ r = g[(s \ {y}) \ {c}]
  <2>1. (s \ {c}) \ {y} = (s \ {y}) \ {c} /\ (s \ {c}) \ {y} \in SUBSET S
    OBVIOUS
  <2> QED BY <1>8, <2>1
<1>10. f[c] \in Int /\ f[y] \in Int
  BY <1>4
<1>11. g[s] = f[c] + (f[y] + r) /\ g[s \ {y}] = f[c] + r
  BY <1>4, <1>6, <1>7, <1>8, <1>9
<1>12. g[s] = f[y] + g[s \ {y}]
  BY <1>9, <1>10, <1>11
<1> QED BY <1>2, <1>12

LEMMA TotalWithout ==
  ASSUME NEW f, NEW S, IsFiniteSet(S), \A x \in S : f[x] \in Int, NEW x \in S
  PROVE  SumFunctionOnSet(f, S) = f[x] + SumFunctionOnSet(f, S \ {x})
<1>1. PICK g \in [SUBSET S -> Int] : Sums(f, S, g) /\ SumFunctionOnSet(f, S) = g[S]
  BY TotalIs
<1>2. IsFiniteSet(S \ {x})
  BY FS_RemoveElement
<1>3. PICK k \in [SUBSET (S \ {x}) -> Int] : Sums(f, S \ {x}, k) /\ SumFunctionOnSet(f, S \ {x}) = k[S \ {x}]
  BY <1>2, TotalIs
<1>4. g[S] = f[x] + g[S \ {x}]
  <2>0. Sums(f, S, g) /\ g \in [SUBSET S -> Int]
    BY <1>1
  <2>1. InAnyOrder(f, S, g)
    BY <2>0, AnyFirst
  <2>2. S \in SUBSET S
    OBVIOUS
  <2> QED BY <2>1, <2>2 DEF InAnyOrder
<1>5. g[S \ {x}] = k[S \ {x}]
  BY <1>1, <1>2, <1>3, SumsAgree
<1> QED BY <1>1, <1>3, <1>4, <1>5

LEMMA TotalIsInt ==
  ASSUME NEW f, NEW S, IsFiniteSet(S), \A x \in S : f[x] \in Int
  PROVE  SumFunctionOnSet(f, S) \in Int
<1>1. PICK g \in [SUBSET S -> Int] : SumFunctionOnSet(f, S) = g[S]
  BY TotalIs
<1>2. S \in SUBSET S
  OBVIOUS
<1> QED BY <1>1, <1>2

LEMMA TotalChanges ==
  ASSUME NEW S, IsFiniteSet(S), NEW f, NEW h, NEW x \in S, h[x] \in Int,
         \A y \in S : f[y] \in Int, \A y \in S \ {x} : h[y] = f[y]
  PROVE  SumFunctionOnSet(h, S) = SumFunctionOnSet(f, S) + h[x] - f[x]
<1>1. \A y \in S : h[y] \in Int
  OBVIOUS
<1>2. IsFiniteSet(S \ {x})
  BY FS_RemoveElement
<1>3. SumFunctionOnSet(h, S \ {x}) = SumFunctionOnSet(f, S \ {x})
  BY <1>1, <1>2, TotalAgrees
<1>4. SumFunctionOnSet(h, S) = h[x] + SumFunctionOnSet(h, S \ {x})
  BY <1>1, TotalWithout
<1>5. SumFunctionOnSet(f, S) = f[x] + SumFunctionOnSet(f, S \ {x})
  BY TotalWithout
<1>6. SumFunctionOnSet(f, S \ {x}) \in Int /\ f[x] \in Int
  BY <1>2, TotalIsInt
<1> QED BY <1>3, <1>4, <1>5, <1>6

\* Sums add up term by term.
LEMMA TotalAdds ==
  ASSUME NEW S, IsFiniteSet(S), NEW f, NEW h, NEW d,
         \A x \in S : f[x] \in Int /\ d[x] \in Int /\ h[x] = f[x] + d[x]
  PROVE  SumFunctionOnSet(h, S) = SumFunctionOnSet(f, S) + SumFunctionOnSet(d, S)
<1> DEFINE odd == {s \in SUBSET S : SumFunctionOnSet(h, s) # SumFunctionOnSet(f, s) + SumFunctionOnSet(d, s)}
<1> SUFFICES ASSUME odd # {} PROVE FALSE
  OBVIOUS
<1>1. PICK s \in odd : \A u \in odd : ~(u \subseteq s /\ u # s)
  <2>1. odd \subseteq SUBSET S
    OBVIOUS
  <2> HIDE DEF odd
  <2> QED BY <2>1, SmallestSubset
<1>2. IsFiniteSet(s)
  BY FS_Subset
<1>3. s # {}
  <2> SUFFICES ASSUME s = {} PROVE FALSE
    OBVIOUS
  <2>1. SumFunctionOnSet(f, s) = 0 /\ SumFunctionOnSet(h, s) = 0 /\ SumFunctionOnSet(d, s) = 0
    BY TotalOfNone
  <2> QED BY <2>1, <1>1
<1>4. PICK x \in s : TRUE
  BY <1>3
<1>5. IsFiniteSet(s \ {x}) /\ s \ {x} \in SUBSET S
  BY <1>2, FS_RemoveElement
<1>6. SumFunctionOnSet(h, s \ {x}) = SumFunctionOnSet(f, s \ {x}) + SumFunctionOnSet(d, s \ {x})
  <2>1. s \ {x} \subseteq s /\ s \ {x} # s
    BY <1>4
  <2>2. s \ {x} \notin odd
    BY <2>1, <1>1
  <2> QED BY <2>2, <1>5
<1>7. SumFunctionOnSet(f, s) = f[x] + SumFunctionOnSet(f, s \ {x})
  BY <1>2, <1>4, TotalWithout
<1>8. SumFunctionOnSet(d, s) = d[x] + SumFunctionOnSet(d, s \ {x})
  BY <1>2, <1>4, TotalWithout
<1>9. SumFunctionOnSet(h, s) = h[x] + SumFunctionOnSet(h, s \ {x})
  <2>1. \A y \in s : h[y] \in Int
    OBVIOUS
  <2> QED BY <1>2, <1>4, <2>1, TotalWithout
<1>10. SumFunctionOnSet(f, s \ {x}) \in Int /\ SumFunctionOnSet(d, s \ {x}) \in Int
  BY <1>5, TotalIsInt
<1>11. f[x] \in Int /\ d[x] \in Int /\ h[x] = f[x] + d[x]
  BY <1>4
<1>12. SumFunctionOnSet(h, s) = SumFunctionOnSet(f, s) + SumFunctionOnSet(d, s)
  BY <1>6, <1>7, <1>8, <1>9, <1>10, <1>11
<1> QED BY <1>1, <1>12

\* A sum is no more than what bounds it term by term.
LEMMA TotalBounded ==
  ASSUME NEW S, IsFiniteSet(S), NEW f, NEW h,
         \A x \in S : f[x] \in Int /\ h[x] \in Int /\ f[x] <= h[x]
  PROVE  SumFunctionOnSet(f, S) <= SumFunctionOnSet(h, S)
<1> DEFINE odd == {s \in SUBSET S : ~(SumFunctionOnSet(f, s) <= SumFunctionOnSet(h, s))}
<1> SUFFICES ASSUME odd # {} PROVE FALSE
  OBVIOUS
<1>1. PICK s \in odd : \A u \in odd : ~(u \subseteq s /\ u # s)
  <2>1. odd \subseteq SUBSET S
    OBVIOUS
  <2> HIDE DEF odd
  <2> QED BY <2>1, SmallestSubset
<1>2. IsFiniteSet(s)
  BY FS_Subset
<1>3. s # {}
  BY TotalOfNone
<1>4. PICK x \in s : TRUE
  BY <1>3
<1>5. IsFiniteSet(s \ {x}) /\ s \ {x} \in SUBSET S
  BY <1>2, FS_RemoveElement
<1>6. SumFunctionOnSet(f, s \ {x}) <= SumFunctionOnSet(h, s \ {x})
  <2>1. s \ {x} \subseteq s /\ s \ {x} # s
    BY <1>4
  <2>2. s \ {x} \notin odd
    BY <2>1, <1>1
  <2> QED BY <2>2, <1>5
<1>7. SumFunctionOnSet(f, s) = f[x] + SumFunctionOnSet(f, s \ {x})
  BY <1>2, <1>4, TotalWithout
<1>8. SumFunctionOnSet(h, s) = h[x] + SumFunctionOnSet(h, s \ {x})
  BY <1>2, <1>4, TotalWithout
<1>9. SumFunctionOnSet(f, s \ {x}) \in Int /\ SumFunctionOnSet(h, s \ {x}) \in Int
  BY <1>5, TotalIsInt
<1>10. f[x] \in Int /\ h[x] \in Int /\ f[x] <= h[x]
  BY <1>4
<1>11. SumFunctionOnSet(f, s) <= SumFunctionOnSet(h, s)
  BY <1>6, <1>7, <1>8, <1>9, <1>10
<1> QED BY <1>1, <1>11

\* A factor common to all terms.
LEMMA TotalScales ==
  ASSUME NEW S, IsFiniteSet(S), NEW f, NEW h, NEW k \in Int,
         \A x \in S : f[x] \in Int /\ h[x] = k * f[x]
  PROVE  SumFunctionOnSet(h, S) = k * SumFunctionOnSet(f, S)
<1> DEFINE odd == {s \in SUBSET S : SumFunctionOnSet(h, s) # k * SumFunctionOnSet(f, s)}
<1> SUFFICES ASSUME odd # {} PROVE FALSE
  OBVIOUS
<1>1. PICK s \in odd : \A u \in odd : ~(u \subseteq s /\ u # s)
  <2>1. odd \subseteq SUBSET S
    OBVIOUS
  <2> HIDE DEF odd
  <2> QED BY <2>1, SmallestSubset
<1>2. IsFiniteSet(s)
  BY FS_Subset
<1>3. s # {}
  <2> SUFFICES ASSUME s = {} PROVE FALSE
    OBVIOUS
  <2>1. SumFunctionOnSet(f, s) = 0 /\ SumFunctionOnSet(h, s) = 0
    BY TotalOfNone
  <2> QED BY <2>1, <1>1
<1>4. PICK x \in s : TRUE
  BY <1>3
<1>5. IsFiniteSet(s \ {x}) /\ s \ {x} \in SUBSET S
  BY <1>2, FS_RemoveElement
<1>6. SumFunctionOnSet(h, s \ {x}) = k * SumFunctionOnSet(f, s \ {x})
  <2>1. s \ {x} \subseteq s /\ s \ {x} # s
    BY <1>4
  <2>2. s \ {x} \notin odd
    BY <2>1, <1>1
  <2> QED BY <2>2, <1>5
<1>7. SumFunctionOnSet(f, s) = f[x] + SumFunctionOnSet(f, s \ {x})
  BY <1>2, <1>4, TotalWithout
<1>8. SumFunctionOnSet(h, s) = h[x] + SumFunctionOnSet(h, s \ {x})
  <2>1. \A y \in s : h[y] \in Int
    OBVIOUS
  <2> QED BY <1>2, <1>4, <2>1, TotalWithout
<1>9. PICK p, q \in Int : p = f[x] /\ q = SumFunctionOnSet(f, s \ {x})
  BY <1>4, <1>5, TotalIsInt
<1>10. SumFunctionOnSet(h, s) = k * p + k * q /\ SumFunctionOnSet(f, s) = p + q
  BY <1>4, <1>6, <1>7, <1>8, <1>9
<1>11. k * p + k * q = k * (p + q)
  OBVIOUS
<1>12. SumFunctionOnSet(h, s) = k * SumFunctionOnSet(f, s)
  BY <1>10, <1>11
<1> QED BY <1>1, <1>12

-----------------------------------------------------------------------------
(* Numbers.                                                                *)

LEMMA MinOfTwo == \A a, b \in Int : Min({a, b}) = IF a <= b THEN a ELSE b
<1> SUFFICES ASSUME NEW a \in Int, NEW b \in Int PROVE Min({a, b}) = IF a <= b THEN a ELSE b
  OBVIOUS
<1> DEFINE m == IF a <= b THEN a ELSE b
<1>1. m \in {a, b} /\ \A y \in {a, b} : m <= y
  OBVIOUS
<1>2. Min({a, b}) \in {a, b} /\ \A y \in {a, b} : Min({a, b}) <= y
  BY <1>1 DEF Min
<1> QED BY <1>1, <1>2

LEMMA MaxOfTwo == \A a, b \in Int : Max({a, b}) = IF a >= b THEN a ELSE b
<1> SUFFICES ASSUME NEW a \in Int, NEW b \in Int PROVE Max({a, b}) = IF a >= b THEN a ELSE b
  OBVIOUS
<1> DEFINE m == IF a >= b THEN a ELSE b
<1>1. m \in {a, b} /\ \A y \in {a, b} : m >= y
  OBVIOUS
<1>2. Max({a, b}) \in {a, b} /\ \A y \in {a, b} : Max({a, b}) >= y
  BY <1>1 DEF Max
<1> QED BY <1>1, <1>2

LEMMA Quotients ==
  ASSUME NEW a \in Nat, NEW b \in Nat \ {0}
  PROVE  a \div b \in Nat /\ (a \div b) * b <= a /\ a < (a \div b + 1) * b
OBVIOUS

LEMMA Products ==
  /\ \A a, b \in Nat : a * b \in Nat
  /\ \A a, b, c \in Nat : a <= b => a * c <= b * c
OBVIOUS

-----------------------------------------------------------------------------
(* What the rooms of a base are, and the length of a tick.                 *)

LEMMA BaseIs ==
  ASSUME TypeOK
  PROVE  /\ IsFiniteSet(Rooms) /\ Rooms = 1 .. Len(base.rooms) /\ Len(base.rooms) \in Nat
         /\ \A r \in Rooms : base.rooms[r] \in RoomData
         /\ base.every \in Nat /\ base.depot \in [Goods -> Nat] /\ base.stock \in StockData
         /\ base.slots \subseteq Slots
         /\ \A r \in Rooms : base.rooms[r].kind = "trading" => base.rooms[r].item \in Goods
<1>1. base \in BaseData /\ \A r \in Rooms : base.rooms[r].kind = "trading" => base.rooms[r].item \in Goods
  BY BasesAssumption DEF TypeOK, Rooms
<1>2. base.rooms \in Seq(RoomData) /\ base.every \in Nat /\ base.depot \in [Goods -> Nat]
      /\ base.stock \in StockData /\ base.slots \subseteq Slots
  BY <1>1 DEF BaseData
<1>3. Rooms = 1 .. Len(base.rooms) /\ Len(base.rooms) \in Nat
  BY <1>2 DEF Rooms
<1>4. IsFiniteSet(Rooms)
  BY <1>3, FS_Interval
<1>5. \A r \in Rooms : base.rooms[r] \in RoomData
  BY <1>2, <1>3
<1> QED BY <1>1, <1>2, <1>3, <1>4, <1>5

LEMMA SpanIs ==
  ASSUME TypeOK
  PROVE  /\ Span \in Nat /\ hour \in Nat /\ hour + Span \in 0 .. Horizon
<1>1. hour \in Int /\ hour >= 0 /\ hour <= Horizon /\ Tick \in Nat /\ Horizon \in Nat
  BY TimeAssumption DEF TypeOK
<1>2. Tick \in Int /\ Horizon - hour \in Int
  BY <1>1
<1>3. Span = IF Tick <= Horizon - hour THEN Tick ELSE Horizon - hour
  BY <1>2, MinOfTwo DEF Span
<1> QED BY <1>1, <1>3

\* What a Factory makes in a tick: no more than the input there is.
FactoryMakes(r, n, full, starved) ==
  LET room == base.rooms[r] IN
  /\ totals' = [totals EXCEPT !.used = @ + n * room.cost,
                              !.made = IF Periodic THEN @ ELSE Delivered(@, room.item, n)]
  /\ stock.tracked /\ room.cost > 0 =>
       n * room.cost <= stock.left /\ stock' = [stock EXCEPT !.left = @ - n * room.cost]
  /\ ~(stock.tracked /\ room.cost > 0) => stock' = stock
  /\ depot' = IF Periodic THEN depot ELSE Delivered(depot, room.item, n)
  /\ run' = [run EXCEPT ![r].stored = IF Periodic THEN @ + n ELSE @,
                        ![r].made = IF Periodic THEN @ ELSE @ + n,
                        ![r].full = @ \/ full, ![r].starved = starved]
  /\ {e.who : e \in {x \in news' : x.kind = "full"}} = IF full /\ ~run[r].full THEN {r} ELSE {}
  /\ lost' = IF full THEN lost \cup {r} ELSE lost
  /\ \A e \in news' : e.at = hour

LEMMA FactoryIs ==
  ASSUME TypeOK, NEW r \in Rooms, NEW rate \in Rates, NEW limit \in Limits, Factory(r, rate, limit)
  PROVE  \/ UNCHANGED <<production, lost>> /\ news' = {}
         \/ \E n \in Nat, full \in BOOLEAN, starved \in BOOLEAN : FactoryMakes(r, n, full, starved)
<1> DEFINE room == base.rooms[r]
           byTime == rate * Span
           bound == stock.tracked /\ room.cost > 0
           byInput == IF bound THEN Min({byTime, stock.left \div room.cost}) ELSE byTime
           byStore == IF Periodic THEN Max({0, limit - run[r].stored * room.weight}) \div room.weight ELSE byTime
           batches == Min({byInput, byStore})
           storage == byStore < byInput
           input == ~storage /\ byInput < byTime
<1>1. room \in RoomData /\ run[r] \in RunData /\ rate \in Nat /\ limit \in Nat /\ Span \in Nat
  BY BaseIs, SpanIs, RatesAssumption DEF TypeOK
<1>2. room.cost \in Nat /\ room.weight \in Nat \ {0} /\ run[r].stored \in Nat
  BY <1>1 DEF RoomData, RunData
<1>3. stock.left \in Nat /\ stock.tracked \in BOOLEAN /\ stock \in StockData
  BY DEF TypeOK, StockData
<1>4. byTime \in Nat
  BY <1>1, Products
<1>5. byInput \in Nat /\ (bound => byInput * room.cost <= stock.left)
  <2> DEFINE q == stock.left \div room.cost
  <2>1. CASE bound
    <3>1. q \in Nat /\ q * room.cost <= stock.left
      BY <1>2, <1>3, <2>1, Quotients
    <3>2. byInput = IF byTime <= q THEN byTime ELSE q
      BY <1>4, <2>1, <3>1, MinOfTwo
    <3>3. byInput \in Nat /\ byInput <= q
      BY <1>4, <3>1, <3>2
    <3>4. byInput * room.cost <= q * room.cost /\ byInput * room.cost \in Nat /\ q * room.cost \in Nat
      BY <3>1, <3>3, <1>2, Products
    <3> HIDE DEF byInput, q
    <3> QED BY <3>1, <3>3, <3>4, <1>3
  <2>2. CASE ~bound
    BY <2>2, <1>4
  <2> QED BY <2>1, <2>2
<1>6. byStore \in Nat
  <2> DEFINE free == limit - run[r].stored * room.weight
  <2>1. run[r].stored * room.weight \in Nat
    BY <1>2, Products
  <2>2. free \in Int
    BY <1>1, <2>1
  <2>3. Max({0, free}) \in Nat
    <3> HIDE DEF free
    <3> QED BY <2>2, MaxOfTwo
  <2>4. Max({0, free}) \div room.weight \in Nat
    BY <2>3, <1>2, Quotients
  <2> QED BY <2>4, <1>4
<1>7. batches \in Nat /\ batches <= byInput
  <2> HIDE DEF byInput, byStore
  <2> QED BY <1>5, <1>6, MinOfTwo
<1>8. batches * room.cost \in Nat /\ (bound => batches * room.cost <= stock.left)
  <2>1. batches * room.cost \in Nat /\ batches * room.cost <= byInput * room.cost /\ byInput * room.cost \in Nat
    BY <1>2, <1>5, <1>7, Products
  <2> HIDE DEF batches, byInput
  <2> QED BY <2>1, <1>5, <1>3
<1>9. bound => Max({0, stock.left - batches * room.cost}) = stock.left - batches * room.cost
  <2>1. PICK k \in Nat : k = batches * room.cost
    BY <1>8
  <2>2. bound => 0 <= stock.left - k
    BY <1>8, <2>1, <1>3
  <2>3. stock.left - k \in Int
    BY <1>3
  <2>4. bound => Max({0, stock.left - k}) = stock.left - k
    <3> HIDE DEF bound
    <3> QED BY <2>2, <2>3, MaxOfTwo
  <2> HIDE DEF bound, batches
  <2> QED BY <2>1, <2>4
<1>10. CASE byTime = 0 \/ (room.instant /\ ~stock.tracked)
  BY <1>10 DEF Factory
<1>11. CASE ~(byTime = 0 \/ (room.instant /\ ~stock.tracked))
  <2>1. /\ totals' = [totals EXCEPT !.used = @ + batches * room.cost,
                          !.made = IF Periodic THEN @ ELSE Delivered(@, room.item, batches)]
        /\ stock' = IF bound THEN [stock EXCEPT !.left = Max({0, @ - batches * room.cost})] ELSE stock
        /\ depot' = IF Periodic THEN depot ELSE Delivered(depot, room.item, batches)
        /\ run' = [run EXCEPT ![r].stored = IF Periodic THEN @ + batches ELSE @,
                              ![r].made = IF Periodic THEN @ ELSE @ + batches,
                              ![r].full = @ \/ storage, ![r].starved = input]
        /\ news' = EventIf(storage /\ ~run[r].full, Event("full", r, hour))
                   \cup EventIf(input /\ ~run[r].starved, Event("starved", r, hour))
        /\ lost' = IF storage THEN lost \cup {r} ELSE lost
    BY <1>11 DEF Factory
  <2>2. PICK full \in BOOLEAN : full = storage
    <3>1. storage \in BOOLEAN
      <4> HIDE DEF byStore, byInput
      <4> QED BY <1>5, <1>6
    <3> HIDE DEF storage
    <3> QED BY <3>1
  <2>3. PICK starved \in BOOLEAN : starved = input
    <3>1. input \in BOOLEAN
      <4> HIDE DEF byStore, byInput, byTime
      <4> QED BY <1>4, <1>5, <1>6
    <3> HIDE DEF input
    <3> QED BY <3>1
  <2>4. PICK n \in Nat : n = batches
    BY <1>7
  <2>5. {e.who : e \in {x \in news' : x.kind = "full"}} = (IF full /\ ~run[r].full THEN {r} ELSE {})
        /\ \A e \in news' : e.at = hour
    <3> DEFINE told1 == Event("full", r, hour)
               told2 == Event("starved", r, hour)
    <3> HIDE DEF storage, input
    <3>1. /\ told1.kind = "full" /\ told1.who = r /\ told1.at = hour
          /\ told2.kind # "full" /\ told2.at = hour
      BY DEF Event
    <3>2. news' = (IF full /\ ~run[r].full THEN {told1} ELSE {}) \cup (IF starved /\ ~run[r].starved THEN {told2} ELSE {})
      BY <2>1, <2>2, <2>3 DEF EventIf
    <3> HIDE DEF told1, told2
    <3>3. {x \in news' : x.kind = "full"} = IF full /\ ~run[r].full THEN {told1} ELSE {}
      BY <3>1, <3>2
    <3>4. {e.who : e \in {x \in news' : x.kind = "full"}} = IF full /\ ~run[r].full THEN {r} ELSE {}
      BY <3>1, <3>3
    <3>5. \A e \in news' : e.at = hour
      BY <3>1, <3>2
    <3> QED BY <3>4, <3>5
  <2>6. FactoryMakes(r, n, full, starved)
    <3> HIDE DEF storage, input, batches
    <3> QED BY <2>1, <2>2, <2>3, <2>4, <2>5, <1>8, <1>9 DEF FactoryMakes
  <2> QED BY <2>6
<1> QED BY <1>10, <1>11

\* What the other rooms make touches one room and may report it full.
Marked(r, full) ==
  /\ run'[r].full = (run[r].full \/ full)
  /\ {e.who : e \in {x \in news' : x.kind = "full"}} = IF full /\ ~run[r].full THEN {r} ELSE {}
  /\ lost' = IF full THEN lost \cup {r} ELSE lost

Touched(r) ==
  /\ run' \in [Rooms -> RunData]
  /\ \A x \in Rooms : x # r => run'[x] = run[x]
  /\ run'[r].orders = run[r].orders
  /\ \A e \in news' : e.at \in Nat
  /\ UNCHANGED <<depot, stock, totals>>

LEMMA FilledIs ==
  ASSUME TypeOK, NEW r \in Rooms, NEW amount \in Nat, NEW limit \in Nat,
         NEW field \in {"pending", "stored"}, Filled(r, amount, limit, field)
  PROVE  Touched(r) /\ run'[r].progress = run[r].progress /\ \E full \in BOOLEAN : Marked(r, full)
<1> DEFINE free == Max({0, limit - run[r][field]})
           put == Min({amount, free})
<1>1. run \in [Rooms -> RunData] /\ run[r] \in RunData /\ hour \in Nat
  BY SpanIs DEF TypeOK
<1>2. run[r].pending \in Nat /\ run[r].stored \in Nat /\ run[r][field] \in Nat
  BY <1>1 DEF RunData
<1>3. put \in Nat
  <2>1. limit - run[r][field] \in Int
    BY <1>2
  <2>2. free \in Nat
    BY <2>1, MaxOfTwo
  <2> HIDE DEF free
  <2> QED BY <2>2, MinOfTwo
<1>4. PICK n \in Nat : n = put
  BY <1>3
<1>5. PICK full \in BOOLEAN : full = (n < amount)
  <2> DEFINE short == n < amount
  <2>1. short \in BOOLEAN
    OBVIOUS
  <2> HIDE DEF short
  <2>2. \E full \in BOOLEAN : full = short
    BY <2>1
  <2> QED BY <2>2 DEF short
<1>51. PICK mark \in BOOLEAN : mark = (run[r].full \/ full)
  <2>1. run[r].full \in BOOLEAN
    BY <1>1 DEF RunData
  <2> QED BY <2>1
<1>6. /\ run' = [run EXCEPT ![r][field] = @ + n, ![r].full = @ \/ full]
      /\ news' = EventIf(full /\ ~run[r].full, Event("full", r, hour))
      /\ lost' = IF full THEN lost \cup {r} ELSE lost
      /\ UNCHANGED <<depot, stock, totals>>
  BY <1>4, <1>5 DEF Filled
<1>7. /\ run' \in [Rooms -> RunData] /\ \A x \in Rooms : x # r => run'[x] = run[x]
      /\ run'[r].orders = run[r].orders /\ run'[r].progress = run[r].progress
      /\ run'[r].full = (run[r].full \/ full)
  <2>1. CASE field = "pending"
    <3> DEFINE new == [run[r] EXCEPT !.pending = @ + n, !.full = mark]
    <3>1. run' = [run EXCEPT ![r] = new]
      BY <1>6, <1>51, <1>1, <2>1
    <3>2. new \in RunData
      <4>1. PICK sum \in Nat : sum = run[r].pending + n
        BY <1>2
      <4>2. PICK v \in RunData : v = run[r]
        BY <1>1
      <4>3. [v EXCEPT !.pending = sum, !.full = mark] \in RunData
        BY DEF RunData
      <4> QED BY <4>1, <4>2, <4>3
    <3>3. new.orders = run[r].orders /\ new.progress = run[r].progress /\ new.full = mark
      BY <1>1 DEF RunData
    <3> HIDE DEF new
    <3> QED BY <3>1, <3>2, <3>3, <1>1, <1>51
  <2>2. CASE field = "stored"
    <3> DEFINE new == [run[r] EXCEPT !.stored = @ + n, !.full = mark]
    <3>1. run' = [run EXCEPT ![r] = new]
      BY <1>6, <1>51, <1>1, <2>2
    <3>2. new \in RunData
      <4>1. PICK sum \in Nat : sum = run[r].stored + n
        BY <1>2
      <4>2. PICK v \in RunData : v = run[r]
        BY <1>1
      <4>3. [v EXCEPT !.stored = sum, !.full = mark] \in RunData
        BY DEF RunData
      <4> QED BY <4>1, <4>2, <4>3
    <3>3. new.orders = run[r].orders /\ new.progress = run[r].progress /\ new.full = mark
      BY <1>1 DEF RunData
    <3> HIDE DEF new
    <3> QED BY <3>1, <3>2, <3>3, <1>1, <1>51
  <2> QED BY <2>1, <2>2
<1>8. /\ {e.who : e \in {x \in news' : x.kind = "full"}} = IF full /\ ~run[r].full THEN {r} ELSE {}
      /\ \A e \in news' : e.at \in Nat
  <2> DEFINE it == Event("full", r, hour)
  <2>1. it.kind = "full" /\ it.who = r /\ it.at = hour
    BY DEF Event
  <2>2. news' = IF full /\ ~run[r].full THEN {it} ELSE {}
    BY <1>6 DEF EventIf
  <2> HIDE DEF it
  <2>3. {x \in news' : x.kind = "full"} = news'
    BY <2>1, <2>2
  <2> QED BY <2>1, <2>2, <2>3, <1>1
<1>9. Marked(r, full)
  BY <1>6, <1>7, <1>8 DEF Marked
<1>10. Touched(r)
  BY <1>6, <1>7, <1>8 DEF Touched
<1> QED BY <1>7, <1>9, <1>10

TrainingFits == \A r \in Rooms : run[r].progress <= base.rooms[r].target

LEMMA TrainingIs ==
  ASSUME TypeOK, TrainingFits, NEW r \in Rooms, NEW rate \in Nat, Training(r, rate)
  PROVE  \/ UNCHANGED <<production, lost>> /\ news' = {}
         \/ Touched(r) /\ Marked(r, FALSE) /\ run'[r].progress <= base.rooms[r].target
<1> DEFINE need == base.rooms[r].target - run[r].progress
           over == rate * Span >= need
           when == hour + (IF rate > 0 THEN need \div rate ELSE Span)
<1>1. /\ run \in [Rooms -> RunData] /\ run[r] \in RunData /\ base.rooms[r].target \in Nat
      /\ hour \in Nat /\ Span \in Nat
  BY BaseIs, SpanIs DEF TypeOK, RoomData
<1>2. run[r].progress \in Nat /\ run[r].progress <= base.rooms[r].target
  BY <1>1 DEF RunData, TrainingFits
<1>3. need \in Nat /\ rate * Span \in Nat
  BY <1>1, <1>2, Products
<1>4. when \in Nat
  <2>1. rate > 0 => need \div rate \in Nat
    BY <1>3, Quotients
  <2> HIDE DEF need
  <2> QED BY <2>1, <1>1
<1>5. CASE run[r].doneAt >= 0
  BY <1>5 DEF Training
<1>6. CASE ~(run[r].doneAt >= 0)
  <2>1. PICK gain \in Nat : gain = rate * Span
    BY <1>3
  <2>2. /\ run' = IF over THEN [run EXCEPT ![r].progress = base.rooms[r].target, ![r].doneAt = when]
                  ELSE [run EXCEPT ![r].progress = @ + gain]
        /\ news' = EventIf(over, Event("trained", r, when))
        /\ UNCHANGED <<depot, stock, totals, lost>>
    BY <1>6, <2>1 DEF Training
  <2>3. PICK at \in Nat : at = when
    BY <1>4
  <2>4. over <=> gain >= need
    BY <2>1
  <2>5. /\ run' \in [Rooms -> RunData] /\ \A x \in Rooms : x # r => run'[x] = run[x]
        /\ run'[r].orders = run[r].orders /\ run'[r].full = run[r].full
        /\ run'[r].progress <= base.rooms[r].target
    <3>1. CASE over
      <4>1. run' = [run EXCEPT ![r].progress = base.rooms[r].target, ![r].doneAt = at]
        BY <2>2, <2>3, <3>1
      <4>2. PICK done \in Nat : done = base.rooms[r].target
        BY <1>1
      <4> DEFINE new == [run[r] EXCEPT !.progress = done, !.doneAt = at]
      <4>3. run' = [run EXCEPT ![r] = new]
        BY <4>1, <4>2, <1>1
      <4>4. new \in RunData
        <5>1. PICK v \in RunData : v = run[r]
          BY <1>1
        <5>2. at \in Int
          OBVIOUS
        <5>3. [v EXCEPT !.progress = done, !.doneAt = at] \in RunData
          BY <5>2 DEF RunData
        <5> QED BY <5>1, <5>3
      <4>5. new.orders = run[r].orders /\ new.progress = done /\ new.full = run[r].full
        BY <1>1 DEF RunData
      <4> HIDE DEF new
      <4> QED BY <4>2, <4>3, <4>4, <4>5, <1>1
    <3>2. CASE ~over
      <4>1. run' = [run EXCEPT ![r].progress = @ + gain]
        BY <2>2, <3>2
      <4>2. run[r].progress + gain <= base.rooms[r].target
        BY <3>2, <2>4, <1>1, <1>2
      <4>3. run'[r].progress = run[r].progress + gain
        BY <4>1, <1>1 DEF RunData
      <4> QED BY <4>1, <4>2, <4>3, <1>1, <1>2 DEF RunData
    <3> QED BY <3>1, <3>2
  <2>6. {e.who : e \in {x \in news' : x.kind = "full"}} = {} /\ \A e \in news' : e.at \in Nat
    <3> DEFINE it == Event("trained", r, when)
    <3>1. it.kind # "full" /\ it.at \in Nat
      BY <1>4 DEF Event
    <3>2. news' \subseteq {it}
      BY <2>2 DEF EventIf
    <3> HIDE DEF it
    <3> QED BY <3>1, <3>2
  <2>7. Touched(r)
    BY <2>2, <2>5, <2>6 DEF Touched
  <2>8. Marked(r, FALSE)
    BY <2>2, <2>5, <2>6, <1>1 DEF Marked, RunData
  <2> QED BY <2>5, <2>7, <2>8
<1> QED BY <1>5, <1>6

LEMMA GainedIs ==
  ASSUME TypeOK, NEW r \in Rooms, NEW amount \in Nat, Gained(r, amount)
  PROVE  Touched(r) /\ Marked(r, FALSE) /\ run'[r].progress = run[r].progress
<1>1. run \in [Rooms -> RunData] /\ run[r] \in RunData
  BY DEF TypeOK
<1>2. run' = [run EXCEPT ![r].made = @ + amount] /\ news' = {} /\ UNCHANGED <<depot, stock, totals, lost>>
  BY DEF Gained
<1>3. /\ run' \in [Rooms -> RunData] /\ \A x \in Rooms : x # r => run'[x] = run[x]
      /\ run'[r].orders = run[r].orders /\ run'[r].full = run[r].full /\ run'[r].progress = run[r].progress
  BY <1>1, <1>2 DEF RunData
<1>4. run[r].full \in BOOLEAN
  BY <1>1 DEF RunData
<1> QED BY <1>2, <1>3, <1>4 DEF Touched, Marked

-----------------------------------------------------------------------------
(* Orders.                                                                 *)

LEMMA TotalOfNats ==
  ASSUME NEW f, NEW S, IsFiniteSet(S), \A x \in S : f[x] \in Nat
  PROVE  SumFunctionOnSet(f, S) \in Nat
<1>1. PICK zero : zero = [x \in S |-> 0]
  OBVIOUS
<1>2. SumFunctionOnSet(zero, S) = 0 * SumFunctionOnSet(f, S)
  <2>1. \A x \in S : f[x] \in Int /\ zero[x] = 0 * f[x]
    BY <1>1
  <2> QED BY <2>1, TotalScales
<1>3. SumFunctionOnSet(f, S) \in Int
  BY TotalIsInt
<1>4. SumFunctionOnSet(zero, S) <= SumFunctionOnSet(f, S)
  <2>1. \A x \in S : zero[x] \in Int /\ f[x] \in Int /\ zero[x] <= f[x]
    BY <1>1
  <2> QED BY <2>1, TotalBounded
<1>5. 0 * SumFunctionOnSet(f, S) = 0
  BY <1>3
<1> QED BY <1>2, <1>3, <1>4, <1>5

LEMMA PostsAre ==
  ASSUME TypeOK, NEW item
  PROVE  /\ IsFiniteSet(Dealing("trading", item)) /\ Dealing("trading", item) \subseteq Rooms
         /\ IsFiniteSet(Dealing("factory", item)) /\ Dealing("factory", item) \subseteq Rooms
         /\ \A r \in Rooms : base.rooms[r].input \in Nat /\ base.rooms[r].cost \in Nat
<1>1. Dealing("trading", item) \subseteq Rooms /\ Dealing("factory", item) \subseteq Rooms
  BY DEF Dealing
<1>2. IsFiniteSet(Rooms) /\ \A r \in Rooms : base.rooms[r] \in RoomData
  BY BaseIs
<1>3. \A r \in Rooms : base.rooms[r].input \in Nat /\ base.rooms[r].cost \in Nat
  BY <1>2 DEF RoomData
<1> QED BY <1>1, <1>2, <1>3, FS_Subset

\* What one post needs for the orders it has waiting.
Needed(runs) == [p \in Rooms |-> runs[p].pending * base.rooms[p].input]

LEMMA DemandIs ==
  ASSUME TypeOK, NEW runs \in [Rooms -> RunData], NEW item
  PROVE  /\ \A p \in Rooms : runs[p].pending \in Nat /\ Needed(runs)[p] \in Nat
         /\ Demand(runs, item) = SumFunctionOnSet(Needed(runs), Dealing("trading", item))
         /\ Demand(runs, item) \in Nat
<1>1. \A p \in Rooms : runs[p].pending \in Nat
  BY DEF RunData
<1>2. \A p \in Rooms : Needed(runs)[p] \in Nat
  BY <1>1, PostsAre, Products DEF Needed
<1>3. Demand(runs, item) = SumFunctionOnSet(Needed(runs), Dealing("trading", item))
  BY DEF Demand, Needed
<1>4. \A p \in Dealing("trading", item) : Needed(runs)[p] \in Nat
  BY <1>2, PostsAre
<1> QED BY <1>1, <1>2, <1>3, <1>4, PostsAre, TotalOfNats

\* A post fulfils no more than it has waiting.
LEMMA FulfilsIs ==
  ASSUME TypeOK, NEW runs \in [Rooms -> RunData], NEW have \in [Goods -> Nat],
         NEW r \in Rooms, base.rooms[r].kind = "trading"
  PROVE  Fulfils(runs, have, r) \in Nat /\ Fulfils(runs, have, r) <= runs[r].pending
<1>1. PICK item \in Goods : item = base.rooms[r].item
  BY BaseIs
<1>2. PICK n \in Nat : n = runs[r].pending
  BY DemandIs
<1>3. PICK d \in Nat : d = Demand(runs, item)
  BY DemandIs
<1>4. PICK h \in Nat : h = have[item]
  BY <1>1
<1>5. Fulfils(runs, have, r) = IF d <= h THEN n ELSE (n * h) \div d
  BY <1>1, <1>2, <1>3, <1>4 DEF Fulfils
<1>6. CASE d <= h
  BY <1>2, <1>5, <1>6
<1>7. CASE ~(d <= h)
  <2>1. d \in Nat \ {0} /\ n * h \in Nat
    BY <1>4, <1>7, Products
  <2>2. PICK q \in Nat : q = (n * h) \div d /\ q * d <= n * h
    BY <2>1, Quotients
  <2>3. n * h <= n * d
    BY <1>7
  <2>4. q <= n
    <3> SUFFICES ASSUME q >= n + 1 PROVE FALSE
      OBVIOUS
    <3>1. q * d >= (n + 1) * d
      OBVIOUS
    <3>2. (n + 1) * d = n * d + d
      OBVIOUS
    <3>3. n * d \in Nat /\ q * d \in Nat /\ n * h \in Nat
      BY Products
    <3> QED BY <2>1, <2>2, <2>3, <3>1, <3>2, <3>3
  <2> QED BY <1>2, <1>5, <1>7, <2>2, <2>4
<1> QED BY <1>6, <1>7

\* What the posts of an item take is no more than there is of it.
Taken(runs, have, item) ==
  SumFunctionOnSet([r \in Dealing("trading", item) |-> Fulfils(runs, have, r) * base.rooms[r].input],
                   Dealing("trading", item))

LEMMA Rearranged == \A a, b, c \in Int : a * (b * c) = (b * a) * c
OBVIOUS

LEMMA TakenFits ==
  ASSUME TypeOK, NEW runs \in [Rooms -> RunData], NEW have \in [Goods -> Nat], NEW item \in Goods
  PROVE  Taken(runs, have, item) \in Nat /\ Taken(runs, have, item) <= have[item]
<1> DEFINE posts == Dealing("trading", item)
           takes == [r \in posts |-> Fulfils(runs, have, r) * base.rooms[r].input]
<1>1. IsFiniteSet(posts) /\ posts \subseteq Rooms
  BY PostsAre
<1>2. \A r \in posts : base.rooms[r].kind = "trading" /\ base.rooms[r].item = item
  BY DEF Dealing
<1>3. \A r \in posts : Fulfils(runs, have, r) \in Nat /\ base.rooms[r].input \in Nat
  BY <1>1, <1>2, FulfilsIs, PostsAre
<1>4. \A r \in posts : takes[r] = Fulfils(runs, have, r) * base.rooms[r].input
  OBVIOUS
<1>5. \A r \in posts : takes[r] \in Nat
  BY <1>3, <1>4, Products
<1>6. Taken(runs, have, item) = SumFunctionOnSet(takes, posts)
  BY DEF Taken
<1>7. PICK need : need = Needed(runs)
  OBVIOUS
<1>8. PICK d \in Nat : d = Demand(runs, item) /\ d = SumFunctionOnSet(need, posts)
  BY <1>7, DemandIs
<1>9. PICK h \in Nat : h = have[item]
  OBVIOUS
<1>10. \A r \in posts : need[r] \in Nat /\ need[r] = runs[r].pending * base.rooms[r].input /\ runs[r].pending \in Nat
  BY <1>1, <1>7, DemandIs DEF Needed
<1>11. PICK t \in Nat : t = SumFunctionOnSet(takes, posts)
  <2> HIDE DEF takes, posts
  <2> QED BY <1>1, <1>5, TotalOfNats
<1> HIDE DEF takes, posts
<1>12. CASE d <= h
  <2>1. \A r \in posts : Fulfils(runs, have, r) = runs[r].pending
    BY <1>2, <1>8, <1>9, <1>12 DEF Fulfils
  <2>2. \A r \in posts : need[r] \in Int /\ need[r] = takes[r]
    BY <1>4, <1>10, <2>1
  <2>3. t = d
    BY <1>1, <1>8, <1>11, <2>2, TotalAgrees
  <2> QED BY <1>6, <1>9, <1>11, <1>12, <2>3
<1>13. CASE ~(d <= h)
  <2>1. PICK twice : twice = [r \in posts |-> d * takes[r]]
    OBVIOUS
  <2>2. PICK shares : shares = [r \in posts |-> h * need[r]]
    OBVIOUS
  <2>3. \A r \in posts : twice[r] \in Int /\ shares[r] \in Int /\ twice[r] <= shares[r]
    <3> SUFFICES ASSUME NEW r \in posts
                 PROVE  twice[r] \in Int /\ shares[r] \in Int /\ twice[r] <= shares[r]
      OBVIOUS
    <3>1. PICK p \in Nat, i \in Nat : p = runs[r].pending /\ i = base.rooms[r].input
      BY <1>3, <1>10
    <3>2. Fulfils(runs, have, r) = (p * h) \div d
      BY <1>2, <1>8, <1>9, <1>13, <3>1 DEF Fulfils
    <3>3. p * h \in Nat /\ d \in Nat \ {0}
      BY <1>9, <1>13, Products
    <3>4. PICK q \in Nat : q = (p * h) \div d /\ q * d <= p * h
      BY <3>3, Quotients
    <3>5. takes[r] = q * i /\ need[r] = p * i
      BY <1>4, <1>10, <3>1, <3>2, <3>4
    <3>6. d * (q * i) = (q * d) * i /\ h * (p * i) = (p * h) * i
      BY Rearranged
    <3>7. (q * d) * i <= (p * h) * i /\ (q * d) * i \in Nat /\ (p * h) * i \in Nat
      BY <3>4, Products
    <3>8. twice[r] = d * (q * i) /\ shares[r] = h * (p * i)
      BY <2>1, <2>2, <3>5
    <3> QED BY <3>6, <3>7, <3>8
  <2>4. SumFunctionOnSet(twice, posts) = d * t
    <3>1. \A r \in posts : takes[r] \in Int /\ twice[r] = d * takes[r]
      BY <1>5, <2>1
    <3> QED BY <1>1, <1>11, <3>1, TotalScales
  <2>5. SumFunctionOnSet(shares, posts) = h * d
    <3>1. \A r \in posts : need[r] \in Int /\ shares[r] = h * need[r]
      BY <1>10, <2>2
    <3> QED BY <1>1, <1>8, <3>1, TotalScales
  <2>6. d * t <= h * d
    BY <1>1, <2>3, <2>4, <2>5, TotalBounded
  <2>7. t <= h
    <3> SUFFICES ASSUME t >= h + 1 PROVE FALSE
      OBVIOUS
    <3>1. d * t >= d * (h + 1)
      OBVIOUS
    <3>2. d * (h + 1) = h * d + d /\ d > 0
      BY <1>13
    <3>3. d * t \in Nat /\ h * d \in Nat
      BY Products
    <3> QED BY <2>6, <3>1, <3>2, <3>3
  <2> QED BY <1>6, <1>9, <1>11, <2>7
<1> QED BY <1>12, <1>13

\* What fulfilling the orders changes.
Sold(runs, have) ==
  /\ run' \in [Rooms -> RunData]
  /\ \A r \in Rooms :
       /\ run'[r].stored = runs[r].stored /\ run'[r].made = runs[r].made
       /\ run'[r].full = runs[r].full /\ run'[r].progress = runs[r].progress
       /\ base.rooms[r].kind = "trading" => run'[r].orders = runs[r].orders + Fulfils(runs, have, r)
  /\ depot' = [item \in Goods |-> have[item] - Taken(runs, have, item)] /\ depot' \in [Goods -> Nat]
  /\ totals' \in [made : [Goods -> Nat], used : Nat, sold : [Goods -> Nat]]
  /\ totals'.used = totals.used
  /\ \A item \in Goods : /\ totals'.made[item] = totals.made[item] + have[item] - depot[item]
                         /\ totals'.sold[item] = totals.sold[item] + Taken(runs, have, item)
  /\ {x \in news' : x.kind = "full"} = {} /\ \A e \in news' : e.at \in Nat
  /\ stock' = stock

LEMMA SellsIs ==
  ASSUME TypeOK, NEW runs \in [Rooms -> RunData], NEW have \in [Goods -> Nat],
         \A item \in Goods : have[item] >= depot[item], Sells(runs, have)
  PROVE  Sold(runs, have)
<1> DEFINE posts == {r \in Of({"trading"}) : runs[r].pending > 0}
           Short(r) == Demand(runs, base.rooms[r].item) > have[base.rooms[r].item]
           F(r) == Fulfils(runs, have, r)
           M(item) == SumFunctionOnSet(
             [r \in Dealing("trading", item) |-> Fulfils(runs, have, r) * base.rooms[r].input],
             Dealing("trading", item))
<1>1. /\ run' = [r \in Rooms |->
            IF r \notin posts THEN runs[r]
            ELSE [runs[r] EXCEPT !.pending = @ - F(r), !.orders = @ + F(r), !.starved = Short(r)]]
      /\ depot' = [item \in DOMAIN have |-> Max({0, have[item] - M(item)})]
      /\ totals' = [totals EXCEPT
           !.made = [item \in DOMAIN @ |-> @[item] + have[item] - depot[item]],
           !.sold = [item \in DOMAIN @ |-> @[item] + M(item)]]
      /\ news' = {Event("starved", r, hour) : r \in {x \in posts : Short(x) /\ ~runs[x].starved}}
                 \cup EventIf(pc = "collect", Event("collected", 0, hour))
      /\ stock' = stock
  BY DEF Sells
<1>2. \A item : M(item) = Taken(runs, have, item)
  BY DEF Taken
<1> HIDE DEF M
<1>3. posts \subseteq Rooms /\ \A r \in posts : base.rooms[r].kind = "trading"
  BY DEF Of
<1>4. \A r \in Rooms : base.rooms[r].kind = "trading" => F(r) \in Nat /\ F(r) <= runs[r].pending
  BY FulfilsIs
<1>5. \A r \in Rooms : Short(r) \in BOOLEAN
  <2> SUFFICES ASSUME NEW r \in Rooms PROVE Short(r) \in BOOLEAN
    OBVIOUS
  <2> QED OBVIOUS
<1>6. ASSUME NEW r \in posts
      PROVE  /\ [runs[r] EXCEPT !.pending = @ - F(r), !.orders = @ + F(r), !.starved = Short(r)] \in RunData
             /\ run'[r].stored = runs[r].stored /\ run'[r].made = runs[r].made
             /\ run'[r].full = runs[r].full /\ run'[r].progress = runs[r].progress
             /\ run'[r].orders = runs[r].orders + F(r)
  <2>1. PICK v \in RunData : v = runs[r]
    BY <1>3
  <2>2. PICK n \in Nat : n = F(r) /\ n <= v.pending
    BY <1>3, <1>4, <2>1
  <2>3. PICK b \in BOOLEAN : b = Short(r)
    BY <1>3, <1>5
  <2>4. v.pending \in Nat /\ v.orders \in Nat
    BY DEF RunData
  <2>5. PICK p \in Nat, o \in Nat : p = v.pending - n /\ o = v.orders + n
    BY <2>2, <2>4
  <2> DEFINE new == [v EXCEPT !.pending = p, !.orders = o, !.starved = b]
  <2>6. new \in RunData
    BY DEF RunData
  <2>7. /\ new.stored = v.stored /\ new.made = v.made /\ new.full = v.full
        /\ new.progress = v.progress /\ new.orders = v.orders + n
    BY <2>5 DEF RunData
  <2>8. [runs[r] EXCEPT !.pending = @ - F(r), !.orders = @ + F(r), !.starved = Short(r)] = new
    BY <2>1, <2>2, <2>3, <2>5
  <2>9. run'[r] = new
    <3> HIDE DEF new, Short, F
    <3> QED BY <1>1, <1>3, <2>8
  <2> HIDE DEF new, Short, F
  <2> QED BY <2>1, <2>2, <2>6, <2>7, <2>8, <2>9
<1>7. ASSUME NEW r \in Rooms, r \notin posts, base.rooms[r].kind = "trading"
      PROVE  runs[r].orders = runs[r].orders + F(r)
  <2>1. runs[r].pending \in Nat /\ runs[r].orders \in Nat
    BY DEF RunData
  <2>2. runs[r].pending = 0
    BY <1>7, <2>1 DEF Of
  <2> HIDE DEF F
  <2> QED BY <1>4, <1>7, <2>1, <2>2
<1>8. /\ run' \in [Rooms -> RunData]
      /\ \A r \in Rooms :
           /\ run'[r].stored = runs[r].stored /\ run'[r].made = runs[r].made
           /\ run'[r].full = runs[r].full /\ run'[r].progress = runs[r].progress
           /\ base.rooms[r].kind = "trading" => run'[r].orders = runs[r].orders + F(r)
  <2>1. \A r \in Rooms : r \notin posts => run'[r] = runs[r]
    BY <1>1
  <2>2. \A r \in posts : run'[r] \in RunData
    <3> HIDE DEF Short, F, posts
    <3> QED BY <1>1, <1>3, <1>6
  <2>3. run' \in [Rooms -> RunData]
    <3>1. run' = [r \in Rooms |-> run'[r]]
      BY <1>1
    <3>2. \A r \in Rooms : run'[r] \in RunData
      BY <2>1, <2>2
    <3> QED BY <3>1, <3>2
  <2> HIDE DEF Short, F, posts
  <2> QED BY <2>1, <2>3, <1>6, <1>7
<1>9. depot' = [item \in Goods |-> have[item] - Taken(runs, have, item)] /\ depot' \in [Goods -> Nat]
  <2>1. \A item \in Goods : /\ have[item] - Taken(runs, have, item) \in Nat
                            /\ Max({0, have[item] - Taken(runs, have, item)}) = have[item] - Taken(runs, have, item)
    <3> SUFFICES ASSUME NEW item \in Goods
                 PROVE  /\ have[item] - Taken(runs, have, item) \in Nat
                        /\ Max({0, have[item] - Taken(runs, have, item)}) = have[item] - Taken(runs, have, item)
      OBVIOUS
    <3>1. PICK k \in Nat : k = have[item] - Taken(runs, have, item)
      BY TakenFits
    <3>2. Max({0, k}) = k
      BY MaxOfTwo
    <3> QED BY <3>1, <3>2
  <2> QED BY <1>1, <1>2, <2>1
<1>10. /\ totals' \in [made : [Goods -> Nat], used : Nat, sold : [Goods -> Nat]]
       /\ totals'.used = totals.used
       /\ \A item \in Goods : /\ totals'.made[item] = totals.made[item] + have[item] - depot[item]
                              /\ totals'.sold[item] = totals.sold[item] + Taken(runs, have, item)
  <2>1. /\ totals \in [made : [Goods -> Nat], used : Nat, sold : [Goods -> Nat]]
        /\ totals.made \in [Goods -> Nat] /\ totals.sold \in [Goods -> Nat] /\ totals.used \in Nat
        /\ depot \in [Goods -> Nat]
    BY DEF TypeOK
  <2>2. PICK made : made = [item \in Goods |-> totals.made[item] + have[item] - depot[item]]
    OBVIOUS
  <2>3. PICK sold : sold = [item \in Goods |-> totals.sold[item] + Taken(runs, have, item)]
    OBVIOUS
  <2>4. made \in [Goods -> Nat]
    BY <2>1, <2>2
  <2>5. sold \in [Goods -> Nat]
    <3>1. \A item \in Goods : Taken(runs, have, item) \in Nat
      BY TakenFits
    <3> QED BY <2>1, <2>3, <3>1
  <2>6. totals' = [totals EXCEPT !.made = made, !.sold = sold]
    BY <1>1, <1>2, <2>1, <2>2, <2>3
  <2> QED BY <2>1, <2>2, <2>3, <2>4, <2>5, <2>6
<1>11. {x \in news' : x.kind = "full"} = {} /\ \A e \in news' : e.at \in Nat
  <2>1. \A e \in news' : (\E r \in posts : e = Event("starved", r, hour)) \/ e = Event("collected", 0, hour)
    BY <1>1 DEF EventIf
  <2>2. \A r : /\ Event("starved", r, hour).kind # "full" /\ Event("starved", r, hour).at = hour
               /\ Event("collected", r, hour).kind # "full" /\ Event("collected", r, hour).at = hour
    BY DEF Event
  <2> QED BY <2>1, <2>2, SpanIs
<1> QED BY <1>1, <1>8, <1>9, <1>10, <1>11 DEF Sold

-----------------------------------------------------------------------------
(* The books: what was made, used and sold.                                *)

OrdersOf(runs) == [r \in Rooms |-> runs[r].orders * base.rooms[r].input]
MadeOf(runs) == [r \in Rooms |-> runs[r].made]
InputsOf(runs) == [r \in Rooms |-> (runs[r].stored + runs[r].made) * base.rooms[r].cost]

Books(runs, have, rock, sums) ==
  /\ \A item \in Goods :
       /\ have[item] = base.depot[item] + sums.made[item] - sums.sold[item] /\ have[item] >= 0
       /\ sums.sold[item] = SumFunctionOnSet(OrdersOf(runs), Dealing("trading", item))
       /\ sums.made[item] = SumFunctionOnSet(MadeOf(runs), Dealing("factory", item))
  /\ sums.used = SumFunctionOnSet(InputsOf(runs), Of({"factory"}))
  /\ rock.tracked => rock.left = base.stock.left - sums.used /\ rock.left >= 0

LEMMA BooksAre ==
  ASSUME TypeOK
  PROVE  NothingIsLost <=> Books(run, depot, stock, totals)
<1>1. DOMAIN depot = Goods
  BY DEF TypeOK
<1> QED BY <1>1 DEF NothingIsLost, Books, OrdersOf, MadeOf, InputsOf

LEMMA BooksAreNext ==
  ASSUME base' = base, depot' \in [Goods -> Nat], Books(run', depot', stock', totals')
  PROVE  NothingIsLost'
<1>1. DOMAIN depot' = Goods
  OBVIOUS
<1>2. Rooms' = Rooms
  BY DEF Rooms
<1>3. /\ \A kind, item : Dealing(kind, item)' = Dealing(kind, item)
      /\ Of({"factory"})' = Of({"factory"})
  BY <1>2 DEF Dealing, Of
<1> QED BY <1>1, <1>2, <1>3 DEF NothingIsLost, Books, OrdersOf, MadeOf, InputsOf

\* The terms of the sums are numbers.
LEMMA TermsAre ==
  ASSUME TypeOK, NEW runs \in [Rooms -> RunData]
  PROVE  /\ \A r \in Rooms : /\ OrdersOf(runs)[r] \in Nat /\ MadeOf(runs)[r] \in Nat /\ InputsOf(runs)[r] \in Nat
                            /\ runs[r].stored \in Nat /\ runs[r].made \in Nat /\ runs[r].orders \in Nat
         /\ IsFiniteSet(Of({"factory"})) /\ Of({"factory"}) \subseteq Rooms
<1>1. \A r \in Rooms : runs[r].stored \in Nat /\ runs[r].made \in Nat /\ runs[r].orders \in Nat
  BY DEF RunData
<1>2. \A r \in Rooms : base.rooms[r].input \in Nat /\ base.rooms[r].cost \in Nat
  BY PostsAre
<1>3. \A r \in Rooms : OrdersOf(runs)[r] \in Nat /\ MadeOf(runs)[r] \in Nat /\ InputsOf(runs)[r] \in Nat
  <2> SUFFICES ASSUME NEW r \in Rooms
               PROVE  OrdersOf(runs)[r] \in Nat /\ MadeOf(runs)[r] \in Nat /\ InputsOf(runs)[r] \in Nat
    OBVIOUS
  <2>1. PICK all \in Nat : all = runs[r].stored + runs[r].made
    BY <1>1
  <2>2. all * base.rooms[r].cost \in Nat /\ runs[r].orders * base.rooms[r].input \in Nat
    BY <1>1, <1>2, Products
  <2> QED BY <1>1, <2>1, <2>2 DEF OrdersOf, MadeOf, InputsOf
<1>4. Of({"factory"}) \subseteq Rooms
  BY DEF Of
<1>5. IsFiniteSet(Of({"factory"}))
  BY <1>4, BaseIs, FS_Subset
<1> QED BY <1>1, <1>3, <1>4, <1>5

\* A room that is not a Factory leaves the books alone until it sells.
LEMMA TouchedKeepsBooks ==
  ASSUME TypeOK, NothingIsLost, NEW r \in Rooms, base.rooms[r].kind # "factory", Touched(r)
  PROVE  Books(run', depot', stock', totals')
<1>1. /\ run \in [Rooms -> RunData] /\ run' \in [Rooms -> RunData]
      /\ \A x \in Rooms : x # r => run'[x] = run[x]
      /\ run'[r].orders = run[r].orders /\ depot' = depot /\ stock' = stock /\ totals' = totals
  BY DEF TypeOK, Touched
<1>2. PICK runs : runs = run'
  OBVIOUS
<1>3. \A x \in Rooms : OrdersOf(run)[x] \in Int /\ OrdersOf(run)[x] = OrdersOf(runs)[x]
  BY <1>1, <1>2, TermsAre DEF OrdersOf
<1>4. \A x \in Rooms : base.rooms[x].kind = "factory" =>
        /\ MadeOf(run)[x] \in Int /\ MadeOf(run)[x] = MadeOf(runs)[x]
        /\ InputsOf(run)[x] \in Int /\ InputsOf(run)[x] = InputsOf(runs)[x]
  BY <1>1, <1>2, TermsAre DEF MadeOf, InputsOf
<1>5. ASSUME NEW item \in Goods
      PROVE  /\ SumFunctionOnSet(OrdersOf(run), Dealing("trading", item)) = SumFunctionOnSet(OrdersOf(runs), Dealing("trading", item))
             /\ SumFunctionOnSet(MadeOf(run), Dealing("factory", item)) = SumFunctionOnSet(MadeOf(runs), Dealing("factory", item))
  <2>1. PICK posts : posts = Dealing("trading", item)
    OBVIOUS
  <2>2. PICK makers : makers = Dealing("factory", item)
    OBVIOUS
  <2>3. IsFiniteSet(posts) /\ \A x \in posts : OrdersOf(run)[x] \in Int /\ OrdersOf(run)[x] = OrdersOf(runs)[x]
    BY <1>3, <2>1, PostsAre
  <2>4. \A x \in makers : x \in Rooms /\ base.rooms[x].kind = "factory"
    BY <2>2 DEF Dealing
  <2>5. IsFiniteSet(makers) /\ \A x \in makers : MadeOf(run)[x] \in Int /\ MadeOf(run)[x] = MadeOf(runs)[x]
    BY <1>4, <2>2, <2>4, PostsAre
  <2> QED BY <2>1, <2>2, <2>3, <2>5, TotalAgrees
<1>6. SumFunctionOnSet(InputsOf(run), Of({"factory"})) = SumFunctionOnSet(InputsOf(runs), Of({"factory"}))
  <2>1. PICK makers : makers = Of({"factory"})
    OBVIOUS
  <2>2. \A x \in makers : x \in Rooms /\ base.rooms[x].kind = "factory"
    BY <2>1 DEF Of
  <2>3. IsFiniteSet(makers) /\ \A x \in makers : InputsOf(run)[x] \in Int /\ InputsOf(run)[x] = InputsOf(runs)[x]
    BY <1>1, <1>4, <2>1, <2>2, TermsAre
  <2> QED BY <2>1, <2>3, TotalAgrees
<1>7. Books(run, depot, stock, totals)
  BY BooksAre
<1> QED BY <1>1, <1>2, <1>5, <1>6, <1>7 DEF Books

\* Where stores can be full, and the report that each full one is marked by.
MarksAre ==
  \A r \in Rooms : run[r].full => r \in told /\ base.rooms[r].kind \in {"factory", "trading", "office"}

LEMMA MarkedIsTold ==
  ASSUME TypeOK, MarksAre, LossesAreReported, NEW r \in Rooms, NEW full \in BOOLEAN, Marked(r, full), Told,
         full => base.rooms[r].kind \in {"factory", "trading", "office"},
         run' \in [Rooms -> RunData], \A x \in Rooms : x # r => run'[x] = run[x], base' = base
  PROVE  MarksAre' /\ LossesAreReported' /\ (lost \subseteq Rooms)' /\ (told \subseteq Rooms)'
<1>1. lost \subseteq Rooms /\ told = lost /\ Rooms' = Rooms
  BY DEF TypeOK, LossesAreReported, Rooms
<1>2. told' = told \cup (IF full /\ ~run[r].full THEN {r} ELSE {})
  BY DEF Told, Marked
<1>3. run'[r].full = (run[r].full \/ full) /\ lost' = IF full THEN lost \cup {r} ELSE lost
  BY DEF Marked
<1>4. \A x \in Rooms : run[x].full => x \in told /\ base.rooms[x].kind \in {"factory", "trading", "office"}
  BY DEF MarksAre
<1>5. told' = lost'
  BY <1>1, <1>2, <1>3, <1>4
<1>6. \A x \in Rooms : run'[x].full => x \in told' /\ base.rooms[x].kind \in {"factory", "trading", "office"}
  BY <1>1, <1>2, <1>3, <1>4, <1>5
<1>7. MarksAre'
  BY <1>1, <1>6 DEF MarksAre
<1>8. lost' \subseteq Rooms' /\ told' \subseteq Rooms'
  BY <1>1, <1>3, <1>5
<1>9. LossesAreReported'
  BY <1>5 DEF LossesAreReported
<1> QED BY <1>7, <1>8, <1>9

LEMMA Distributes == \A a, b, c \in Int : (a + b) * c = a * c + b * c
OBVIOUS

\* Batches leave the store of input and reach the room's store, or the depot.
LEMMA FactoryKeepsBooks ==
  ASSUME TypeOK, NothingIsLost, NEW r \in Rooms, base.rooms[r].kind = "factory",
         NEW n \in Nat, NEW full \in BOOLEAN, NEW starved \in BOOLEAN, FactoryMakes(r, n, full, starved)
  PROVE  /\ run' \in [Rooms -> RunData] /\ \A x \in Rooms : x # r => run'[x] = run[x]
         /\ run'[r].progress = run[r].progress
         /\ depot' \in [Goods -> Nat] /\ stock' \in StockData
         /\ totals' \in [made : [Goods -> Nat], used : Nat, sold : [Goods -> Nat]]
         /\ Marked(r, full) /\ \A e \in news' : e.at \in Nat
         /\ Books(run', depot', stock', totals')
<1> DEFINE cost == base.rooms[r].cost
           item == base.rooms[r].item
<1>1. /\ run \in [Rooms -> RunData] /\ run[r] \in RunData /\ cost \in Nat /\ hour \in Nat
      /\ stock \in StockData /\ stock.left \in Nat /\ stock.tracked \in BOOLEAN /\ depot \in [Goods -> Nat]
      /\ totals \in [made : [Goods -> Nat], used : Nat, sold : [Goods -> Nat]]
      /\ totals.made \in [Goods -> Nat] /\ totals.used \in Nat /\ totals.sold \in [Goods -> Nat]
  BY BaseIs, SpanIs DEF TypeOK, RoomData, StockData
<1>2. PICK c \in Nat : c = cost
  BY <1>1
<1>3. PICK u \in Nat : u = n * c
  BY Products
<1>4. PICK mark \in BOOLEAN : mark = (run[r].full \/ full)
  <2>1. run[r].full \in BOOLEAN
    BY <1>1 DEF RunData
  <2> QED BY <2>1
<1>5. PICK kept \in Nat, given \in Nat : /\ kept = (IF Periodic THEN n ELSE 0) /\ given = (IF Periodic THEN 0 ELSE n)
                                         /\ kept + given = n
  OBVIOUS
<1>6. PICK v \in RunData : v = run[r]
  BY <1>1
<1>7. v.stored \in Nat /\ v.made \in Nat
  BY DEF RunData
<1>8. PICK s \in Nat, m \in Nat : s = v.stored + kept /\ m = v.made + given
  BY <1>7
<1> DEFINE new == [v EXCEPT !.stored = s, !.made = m, !.full = mark, !.starved = starved]
<1>9. new \in RunData
  BY DEF RunData
<1>10. /\ new.stored = s /\ new.made = m /\ new.full = mark
       /\ new.progress = v.progress /\ new.orders = v.orders
  BY DEF RunData
<1>11. run' = [run EXCEPT ![r] = new]
  <2>1. run' = [run EXCEPT ![r].stored = IF Periodic THEN @ + n ELSE @,
                           ![r].made = IF Periodic THEN @ ELSE @ + n,
                           ![r].full = @ \/ full, ![r].starved = starved]
    BY DEF FactoryMakes
  <2>2. CASE Periodic
    <3>1. s = run[r].stored + n /\ m = run[r].made
      BY <1>5, <1>6, <1>7, <1>8, <2>2
    <3> QED BY <2>1, <2>2, <3>1, <1>1, <1>4, <1>6
  <2>3. CASE ~Periodic
    <3>1. s = run[r].stored /\ m = run[r].made + n
      BY <1>5, <1>6, <1>7, <1>8, <2>3
    <3> QED BY <2>1, <2>3, <3>1, <1>1, <1>4, <1>6
  <2> QED BY <2>2, <2>3
<1> HIDE DEF new
<1>12. PICK runs \in [Rooms -> RunData] : runs = run' /\ runs[r] = new /\ \A x \in Rooms : x # r => runs[x] = run[x]
  BY <1>1, <1>9, <1>11
<1>13. totals' = [totals EXCEPT !.used = @ + u, !.made = IF Periodic THEN @ ELSE Delivered(@, item, n)]
  BY <1>2, <1>3 DEF FactoryMakes
<1>14. PICK gifts \in [Goods -> Nat] : gifts = [g \in Goods |-> IF g = item THEN given ELSE 0]
  OBVIOUS
<1>15. /\ totals' \in [made : [Goods -> Nat], used : Nat, sold : [Goods -> Nat]]
       /\ totals'.sold = totals.sold /\ totals'.used = totals.used + u
       /\ \A g \in Goods : totals'.made[g] = totals.made[g] + gifts[g]
  <2>1. PICK made \in [Goods -> Nat] : made = [g \in Goods |-> totals.made[g] + gifts[g]]
    <3>1. \A g \in Goods : totals.made[g] + gifts[g] \in Nat
      BY <1>1
    <3>2. [g \in Goods |-> totals.made[g] + gifts[g]] \in [Goods -> Nat]
      BY <3>1
    <3> QED BY <3>2, Zenon
  <2>2. made = IF Periodic THEN totals.made ELSE Delivered(totals.made, item, n)
    BY <2>1, <1>1, <1>5, <1>14 DEF Delivered
  <2>3. PICK used \in Nat : used = totals.used + u
    BY <1>1
  <2>4. totals' = [totals EXCEPT !.used = used, !.made = made]
    BY <1>1, <1>13, <2>2, <2>3
  <2> QED BY <1>1, <2>1, <2>3, <2>4
<1>16. depot' \in [Goods -> Nat] /\ \A g \in Goods : depot'[g] = depot[g] + gifts[g]
  <2>1. depot' = IF Periodic THEN depot ELSE Delivered(depot, item, n)
    BY DEF FactoryMakes
  <2> QED BY <2>1, <1>1, <1>5, <1>14 DEF Delivered
<1>17. stock' \in StockData /\ stock'.tracked = stock.tracked /\ (stock.tracked => stock'.left = stock.left - u)
  <2>1. CASE stock.tracked /\ c > 0
    <3>1. u <= stock.left /\ stock' = [stock EXCEPT !.left = @ - u]
      BY <1>2, <1>3, <2>1 DEF FactoryMakes
    <3>2. PICK left \in Nat : left = stock.left - u
      BY <3>1, <1>1
    <3>3. stock' = [stock EXCEPT !.left = left]
      BY <3>1, <3>2, <1>1 DEF StockData
    <3> QED BY <3>2, <3>3, <1>1 DEF StockData
  <2>2. CASE ~(stock.tracked /\ c > 0)
    <3>1. stock' = stock
      BY <1>2, <2>2 DEF FactoryMakes
    <3>2. stock.tracked => u = 0
      <4>1. stock.tracked => c = 0
        BY <2>2
      <4> QED BY <4>1, <1>3
    <3> QED BY <3>1, <3>2, <1>1
  <2> QED BY <2>1, <2>2
<1>18. Marked(r, full) /\ \A e \in news' : e.at \in Nat
  <2>1. run'[r].full = (run[r].full \/ full)
    BY <1>4, <1>10, <1>12
  <2> QED BY <2>1, <1>1 DEF FactoryMakes, Marked
<1>19. Books(run, depot, stock, totals)
  BY BooksAre
<1>20. ASSUME NEW g \in Goods
       PROVE  /\ SumFunctionOnSet(OrdersOf(runs), Dealing("trading", g)) = SumFunctionOnSet(OrdersOf(run), Dealing("trading", g))
              /\ SumFunctionOnSet(MadeOf(runs), Dealing("factory", g)) = SumFunctionOnSet(MadeOf(run), Dealing("factory", g)) + gifts[g]
  <2>1. PICK posts : posts = Dealing("trading", g)
    OBVIOUS
  <2>2. IsFiniteSet(posts) /\ posts \subseteq Rooms
    BY <2>1, PostsAre
  <2>3. \A x \in posts : OrdersOf(runs)[x] \in Int /\ OrdersOf(runs)[x] = OrdersOf(run)[x]
    <3>1. \A x \in Rooms : runs[x].orders = run[x].orders
      BY <1>6, <1>10, <1>12
    <3> QED BY <2>2, <3>1, TermsAre DEF OrdersOf
  <2>4. SumFunctionOnSet(OrdersOf(runs), posts) = SumFunctionOnSet(OrdersOf(run), posts)
    BY <2>2, <2>3, TotalAgrees
  <2>5. PICK makers : makers = Dealing("factory", g)
    OBVIOUS
  <2>6. IsFiniteSet(makers) /\ makers \subseteq Rooms /\ (r \in makers <=> g = item)
    BY <2>5, PostsAre DEF Dealing
  <2>7. \A x \in makers : /\ MadeOf(run)[x] \in Int /\ MadeOf(runs)[x] \in Int
                          /\ x # r => MadeOf(runs)[x] = MadeOf(run)[x]
    BY <2>6, <1>1, <1>12, TermsAre DEF MadeOf
  <2>8. MadeOf(runs)[r] = MadeOf(run)[r] + given
    BY <1>6, <1>8, <1>10, <1>12 DEF MadeOf
  <2>9. PICK old, now : old = MadeOf(run) /\ now = MadeOf(runs)
    OBVIOUS
  <2>10. CASE g = item
    <3>1. SumFunctionOnSet(now, makers) = SumFunctionOnSet(old, makers) + now[r] - old[r]
      <4>1. r \in makers /\ now[r] \in Int
        BY <2>6, <2>7, <2>9, <2>10
      <4>2. (\A x \in makers : old[x] \in Int) /\ (\A x \in makers \ {r} : now[x] = old[x])
        BY <2>7, <2>9
      <4> QED BY <4>1, <4>2, <2>6, TotalChanges
    <3>2. SumFunctionOnSet(old, makers) \in Int
      BY <2>6, <2>7, <2>9, TotalIsInt
    <3>3. now[r] = old[r] + given /\ old[r] \in Int /\ gifts[g] = given
      BY <2>6, <2>7, <2>8, <2>9, <2>10, <1>14
    <3> QED BY <2>1, <2>4, <2>5, <2>9, <3>1, <3>2, <3>3
  <2>11. CASE g # item
    <3>1. r \notin makers /\ gifts[g] = 0
      BY <2>6, <2>11, <1>14
    <3>2. \A x \in makers : now[x] \in Int /\ now[x] = old[x]
      BY <2>7, <2>9, <3>1
    <3>3. SumFunctionOnSet(now, makers) = SumFunctionOnSet(old, makers)
      BY <2>6, <3>2, TotalAgrees
    <3>4. SumFunctionOnSet(old, makers) \in Int
      BY <2>6, <2>7, <2>9, TotalIsInt
    <3> QED BY <2>1, <2>4, <2>5, <2>9, <3>1, <3>3, <3>4
  <2> QED BY <2>10, <2>11
<1>21. SumFunctionOnSet(InputsOf(runs), Of({"factory"})) = SumFunctionOnSet(InputsOf(run), Of({"factory"})) + u
  <2>1. PICK makers : makers = Of({"factory"})
    OBVIOUS
  <2>2. IsFiniteSet(makers) /\ makers \subseteq Rooms /\ r \in makers
    BY <2>1, TermsAre, <1>1 DEF Of
  <2>3. PICK old, now : old = InputsOf(run) /\ now = InputsOf(runs)
    OBVIOUS
  <2>4. \A x \in makers : old[x] \in Int /\ now[x] \in Int /\ (x # r => now[x] = old[x])
    BY <2>2, <2>3, <1>1, <1>12, TermsAre DEF InputsOf
  <2>5. now[r] = old[r] + u
    <3>1. PICK k \in Nat : k = v.stored + v.made
      BY <1>7
    <3>2. s + m = k + n
      BY <3>1, <1>5, <1>7, <1>8
    <3>3. old[r] = k * c
      BY <2>3, <3>1, <1>2, <1>6 DEF InputsOf
    <3>4. now[r] = (s + m) * c
      BY <2>3, <1>2, <1>10, <1>12 DEF InputsOf
    <3>5. (k + n) * c = k * c + n * c
      BY Distributes
    <3> QED BY <3>2, <3>3, <3>4, <3>5, <1>3
  <2>6. SumFunctionOnSet(now, makers) = SumFunctionOnSet(old, makers) + now[r] - old[r]
    BY <2>2, <2>4, TotalChanges
  <2>7. SumFunctionOnSet(old, makers) \in Int
    BY <2>2, <2>4, TotalIsInt
  <2>8. old[r] \in Int
    BY <2>2, <2>4
  <2> QED BY <2>1, <2>3, <2>5, <2>6, <2>7, <2>8
<1>22. Books(runs, depot', stock', totals')
  <2>1. \A g \in Goods :
          /\ depot'[g] = base.depot[g] + totals'.made[g] - totals'.sold[g] /\ depot'[g] >= 0
          /\ totals'.sold[g] = SumFunctionOnSet(OrdersOf(runs), Dealing("trading", g))
          /\ totals'.made[g] = SumFunctionOnSet(MadeOf(runs), Dealing("factory", g))
    <3> SUFFICES ASSUME NEW g \in Goods
                 PROVE  /\ depot'[g] = base.depot[g] + totals'.made[g] - totals'.sold[g] /\ depot'[g] >= 0
                        /\ totals'.sold[g] = SumFunctionOnSet(OrdersOf(runs), Dealing("trading", g))
                        /\ totals'.made[g] = SumFunctionOnSet(MadeOf(runs), Dealing("factory", g))
      OBVIOUS
    <3>1. /\ depot[g] = base.depot[g] + totals.made[g] - totals.sold[g]
          /\ totals.sold[g] = SumFunctionOnSet(OrdersOf(run), Dealing("trading", g))
          /\ totals.made[g] = SumFunctionOnSet(MadeOf(run), Dealing("factory", g))
      BY <1>19 DEF Books
    <3>2. base.depot[g] \in Nat /\ totals.made[g] \in Nat /\ totals.sold[g] \in Nat /\ gifts[g] \in Nat /\ depot'[g] \in Nat
      BY <1>1, <1>16, BaseIs
    <3> QED BY <3>1, <3>2, <1>15, <1>16, <1>20
  <2>2. totals'.used = SumFunctionOnSet(InputsOf(runs), Of({"factory"}))
    BY <1>15, <1>19, <1>21 DEF Books
  <2>3. stock'.tracked => stock'.left = base.stock.left - totals'.used /\ stock'.left >= 0
    <3>1. stock.tracked => stock.left = base.stock.left - totals.used
      BY <1>19 DEF Books
    <3>2. stock'.left \in Nat /\ base.stock.left \in Nat
      BY <1>17, BaseIs DEF StockData
    <3> QED BY <3>1, <3>2, <1>1, <1>15, <1>17
  <2> QED BY <2>1, <2>2, <2>3 DEF Books
<1> QED BY <1>6, <1>10, <1>12, <1>15, <1>16, <1>17, <1>18, <1>22

\* Orders are booked as sold at what they take, and what a collection brings
\* as made: runs and have are the rooms and the depot once it has come.
LEMMA SoldKeepsBooks ==
  ASSUME TypeOK, NothingIsLost, NEW runs \in [Rooms -> RunData], NEW have \in [Goods -> Nat],
         NEW came \in [Goods -> Nat], \A g \in Goods : have[g] = depot[g] + came[g],
         \A r \in Rooms : runs[r].orders = run[r].orders /\ runs[r].stored + runs[r].made = run[r].stored + run[r].made,
         \A g \in Goods : SumFunctionOnSet(MadeOf(runs), Dealing("factory", g))
                            = SumFunctionOnSet(MadeOf(run), Dealing("factory", g)) + came[g],
         Sold(runs, have)
  PROVE  Books(run', depot', stock', totals')
<1>1. /\ run \in [Rooms -> RunData] /\ depot \in [Goods -> Nat]
      /\ totals.made \in [Goods -> Nat] /\ totals.used \in Nat /\ totals.sold \in [Goods -> Nat]
      /\ base.depot \in [Goods -> Nat]
  BY BaseIs DEF TypeOK
<1>2. PICK after \in [Rooms -> RunData] : after = run'
  BY DEF Sold
<1>3. \A r \in Rooms : /\ after[r].stored = runs[r].stored /\ after[r].made = runs[r].made
                       /\ base.rooms[r].kind = "trading" => after[r].orders = runs[r].orders + Fulfils(runs, have, r)
  BY <1>2 DEF Sold
<1>4. Books(run, depot, stock, totals)
  BY BooksAre
<1>5. ASSUME NEW g \in Goods
      PROVE  SumFunctionOnSet(OrdersOf(after), Dealing("trading", g))
               = SumFunctionOnSet(OrdersOf(run), Dealing("trading", g)) + Taken(runs, have, g)
  <2>1. PICK posts : posts = Dealing("trading", g)
    OBVIOUS
  <2>2. IsFiniteSet(posts) /\ posts \subseteq Rooms /\ \A r \in posts : base.rooms[r].kind = "trading"
    BY <2>1, PostsAre DEF Dealing
  <2>3. PICK takes : takes = [r \in posts |-> Fulfils(runs, have, r) * base.rooms[r].input]
    OBVIOUS
  <2>4. Taken(runs, have, g) = SumFunctionOnSet(takes, posts)
    BY <2>1, <2>3 DEF Taken
  <2>5. PICK old, now : old = OrdersOf(run) /\ now = OrdersOf(after)
    OBVIOUS
  <2>6. \A r \in posts : old[r] \in Int /\ takes[r] \in Int /\ now[r] = old[r] + takes[r]
    <3> SUFFICES ASSUME NEW r \in posts
                 PROVE  old[r] \in Int /\ takes[r] \in Int /\ now[r] = old[r] + takes[r]
      OBVIOUS
    <3>1. PICK f \in Nat : f = Fulfils(runs, have, r)
      BY <2>2, FulfilsIs
    <3>2. PICK i \in Nat : i = base.rooms[r].input
      BY <2>2, PostsAre
    <3>3. PICK o \in Nat : o = run[r].orders
      BY <2>2, <1>1, TermsAre
    <3>4. r \in Rooms
      BY <2>2
    <3>5. old[r] = o * i
      BY <3>2, <3>3, <3>4, <2>5 DEF OrdersOf
    <3>6. takes[r] = f * i
      BY <2>3, <3>1, <3>2
    <3>7. now[r] = (o + f) * i
      BY <1>3, <2>2, <2>5, <3>1, <3>2, <3>3, <3>4 DEF OrdersOf
    <3>8. (o + f) * i = o * i + f * i
      BY Distributes
    <3>9. o * i \in Nat /\ f * i \in Nat
      BY Products
    <3> QED BY <3>5, <3>6, <3>7, <3>8, <3>9
  <2>7. SumFunctionOnSet(now, posts) = SumFunctionOnSet(old, posts) + SumFunctionOnSet(takes, posts)
    BY <2>2, <2>6, TotalAdds
  <2> QED BY <2>1, <2>4, <2>5, <2>7
<1>6. ASSUME NEW g \in Goods
      PROVE  SumFunctionOnSet(MadeOf(after), Dealing("factory", g)) = SumFunctionOnSet(MadeOf(run), Dealing("factory", g)) + came[g]
  <2>1. MadeOf(after) = MadeOf(runs)
    BY <1>3 DEF MadeOf
  <2> QED BY <2>1
<1>7. InputsOf(after) = InputsOf(run)
  <2>1. \A r \in Rooms : after[r].stored + after[r].made = run[r].stored + run[r].made
    BY <1>3
  <2> QED BY <2>1 DEF InputsOf
<1>8. /\ depot' \in [Goods -> Nat]
      /\ \A g \in Goods : /\ depot'[g] = have[g] - Taken(runs, have, g)
                          /\ totals'.made[g] = totals.made[g] + have[g] - depot[g]
                          /\ totals'.sold[g] = totals.sold[g] + Taken(runs, have, g)
      /\ totals'.used = totals.used /\ stock' = stock
  BY DEF Sold
<1>9. \A g \in Goods :
        /\ depot'[g] = base.depot[g] + totals'.made[g] - totals'.sold[g] /\ depot'[g] >= 0
        /\ totals'.sold[g] = SumFunctionOnSet(OrdersOf(after), Dealing("trading", g))
        /\ totals'.made[g] = SumFunctionOnSet(MadeOf(after), Dealing("factory", g))
  <2> SUFFICES ASSUME NEW g \in Goods
               PROVE  /\ depot'[g] = base.depot[g] + totals'.made[g] - totals'.sold[g] /\ depot'[g] >= 0
                      /\ totals'.sold[g] = SumFunctionOnSet(OrdersOf(after), Dealing("trading", g))
                      /\ totals'.made[g] = SumFunctionOnSet(MadeOf(after), Dealing("factory", g))
    OBVIOUS
  <2>1. PICK t \in Nat : t = Taken(runs, have, g)
    BY TakenFits
  <2>2. /\ depot[g] = base.depot[g] + totals.made[g] - totals.sold[g]
        /\ totals.sold[g] = SumFunctionOnSet(OrdersOf(run), Dealing("trading", g))
        /\ totals.made[g] = SumFunctionOnSet(MadeOf(run), Dealing("factory", g))
    BY <1>4 DEF Books
  <2>3. /\ depot[g] \in Nat /\ have[g] \in Nat /\ base.depot[g] \in Nat /\ came[g] \in Nat /\ depot'[g] \in Nat
        /\ totals.made[g] \in Nat /\ totals.sold[g] \in Nat /\ have[g] = depot[g] + came[g]
    BY <1>1, <1>8
  <2> QED BY <2>1, <2>2, <2>3, <1>5, <1>6, <1>8
<1> QED BY <1>2, <1>4, <1>7, <1>8, <1>9 DEF Books

-----------------------------------------------------------------------------
(* The inductive invariant, and the steps of production and of orders.     *)

IInv ==
  /\ TypeOK
  /\ TrainingFits
  /\ MarksAre
  /\ LossesAreReported
  /\ NothingIsLost
  /\ HoursAddUp
  /\ NoDuplicates(assignment)

\* What production leaves alone.
LEMMA PeopleUnchanged ==
  ASSUME IInv, UNCHANGED <<base, hour, people>>
  PROVE  HoursAddUp' /\ NoDuplicates(assignment)' /\ Rooms' = Rooms
<1>1. HoursAddUp /\ NoDuplicates(assignment)
  BY DEF IInv
<1>2. states' = states /\ assignment' = assignment /\ entered' = entered /\ hour' = hour
  BY DEF people
<1>3. HoursAddUp'
  BY <1>1, <1>2 DEF HoursAddUp, At
<1> QED BY <1>1, <1>2, <1>3 DEF NoDuplicates, At, Rooms

LEMMA ProductionUnchanged ==
  ASSUME IInv, UNCHANGED <<base, production, lost, told>>
  PROVE  TrainingFits' /\ MarksAre' /\ LossesAreReported' /\ NothingIsLost'
<1>1. /\ run' = run /\ depot' = depot /\ stock' = stock /\ totals' = totals
      /\ base' = base /\ lost' = lost /\ told' = told /\ Rooms' = Rooms
  BY DEF production, Rooms
<1>2. TypeOK /\ TrainingFits /\ MarksAre /\ LossesAreReported /\ NothingIsLost
  BY DEF IInv
<1>3. depot' \in [Goods -> Nat] /\ Books(run', depot', stock', totals')
  <2>1. Books(run, depot, stock, totals) /\ depot \in [Goods -> Nat]
    BY <1>2, BooksAre DEF TypeOK
  <2> QED BY <2>1, <1>1
<1>4. NothingIsLost'
  BY <1>1, <1>3, BooksAreNext
<1> QED BY <1>1, <1>2, <1>4 DEF TrainingFits, MarksAre, LossesAreReported

\* What production, orders and collections leave true.
ProductionKept ==
  /\ TrainingFits' /\ MarksAre' /\ LossesAreReported' /\ NothingIsLost'
  /\ run' \in [Rooms -> RunData] /\ depot' \in [Goods -> Nat] /\ stock' \in StockData
  /\ totals' \in [made : [Goods -> Nat], used : Nat, sold : [Goods -> Nat]]
  /\ \A e \in news' : e.at \in Nat
  /\ lost' \subseteq Rooms /\ told' \subseteq Rooms

LEMMA ProduceStep ==
  ASSUME IInv, Produce
  PROVE  IInv'
<1>1. /\ TypeOK /\ TrainingFits /\ MarksAre /\ LossesAreReported /\ NothingIsLost /\ NoDuplicates(assignment)
      /\ turn \in Rooms
  BY DEF IInv, TypeOK
<1>2. PICK rate \in Rates, limit \in Limits :
        \/ base.rooms[turn].kind = "factory" /\ Factory(turn, rate, limit)
        \/ base.rooms[turn].kind = "trading" /\ Filled(turn, rate * Span, limit, "pending")
        \/ base.rooms[turn].kind = "office" /\ Periodic /\ Filled(turn, rate * Span, base.rooms[turn].cap, "stored")
        \/ base.rooms[turn].kind = "training" /\ Training(turn, rate)
        \/ base.rooms[turn].kind = "dorm" /\ UNCHANGED <<production, lost>> /\ news' = {}
        \/ base.rooms[turn].kind \in AtOnce /\ Gained(turn, rate * Span)
  BY DEF Produce
<1>3. /\ Told /\ turn' = (IF turn = Len(base.rooms) THEN 1 ELSE turn + 1)
      /\ pc' = (IF turn < Len(base.rooms) THEN pc ELSE IF Periodic THEN "mood" ELSE "fulfil")
      /\ UNCHANGED <<base, hour, people, nextCollection>> /\ pc = "produce"
  BY DEF Produce
<1>4. rate \in Nat /\ limit \in Nat /\ rate * Span \in Nat /\ base.rooms[turn].cap \in Nat
  <2>1. rate \in Nat /\ limit \in Nat /\ Span \in Nat
    BY <1>1, RatesAssumption, SpanIs
  <2>2. base.rooms[turn] \in RoomData
    BY <1>1, BaseIs
  <2> QED BY <2>1, <2>2, Products DEF RoomData
<1>5. HoursAddUp' /\ NoDuplicates(assignment)' /\ Rooms' = Rooms /\ base' = base
  BY <1>3, PeopleUnchanged
<1>6. ProductionKept
  <2>1. ASSUME UNCHANGED <<production, lost>>, news' = {} PROVE <1>6
    <3>1. told' = told
      BY <1>3, <2>1 DEF Told
    <3>2. TrainingFits' /\ MarksAre' /\ LossesAreReported' /\ NothingIsLost'
      BY <2>1, <3>1, <1>5, ProductionUnchanged
    <3>3. run' = run /\ depot' = depot /\ stock' = stock /\ totals' = totals /\ lost' = lost
      BY <2>1 DEF production
    <3> QED BY <1>1, <2>1, <3>1, <3>2, <3>3 DEF TypeOK, ProductionKept
  <2>2. ASSUME run' \in [Rooms -> RunData], \A x \in Rooms : x # turn => run'[x] = run[x],
               depot' \in [Goods -> Nat], stock' \in StockData,
               totals' \in [made : [Goods -> Nat], used : Nat, sold : [Goods -> Nat]],
               \A e \in news' : e.at \in Nat, Books(run', depot', stock', totals'),
               run'[turn].progress <= base.rooms[turn].target,
               NEW full \in BOOLEAN, Marked(turn, full),
               full => base.rooms[turn].kind \in {"factory", "trading", "office"}
        PROVE  ProductionKept
    <3>1. NothingIsLost'
      BY <1>5, <2>2, BooksAreNext
    <3>2. MarksAre' /\ LossesAreReported' /\ lost' \subseteq Rooms' /\ told' \subseteq Rooms'
      BY <1>1, <1>3, <1>5, <2>2, MarkedIsTold
    <3>3. TrainingFits'
      BY <1>1, <1>5, <2>2 DEF TrainingFits
    <3> QED BY <1>5, <2>2, <3>1, <3>2, <3>3 DEF ProductionKept
  <2>3. ASSUME Touched(turn), base.rooms[turn].kind # "factory",
               run'[turn].progress <= base.rooms[turn].target,
               NEW full \in BOOLEAN, Marked(turn, full),
               full => base.rooms[turn].kind \in {"factory", "trading", "office"}
        PROVE  ProductionKept
    <3>1. Books(run', depot', stock', totals')
      BY <1>1, <2>3, TouchedKeepsBooks
    <3>2. /\ run' \in [Rooms -> RunData] /\ \A x \in Rooms : x # turn => run'[x] = run[x]
          /\ depot' = depot /\ stock' = stock /\ totals' = totals /\ \A e \in news' : e.at \in Nat
      BY <2>3 DEF Touched
    <3>3. /\ depot' \in [Goods -> Nat] /\ stock' \in StockData
          /\ totals' \in [made : [Goods -> Nat], used : Nat, sold : [Goods -> Nat]]
      BY <1>1, <3>2 DEF TypeOK
    <3> QED BY <2>2, <2>3, <3>1, <3>2, <3>3
  <2>4. run[turn].progress <= base.rooms[turn].target
    BY <1>1 DEF TrainingFits
  <2>5. CASE base.rooms[turn].kind = "factory" /\ Factory(turn, rate, limit)
    <3>1. CASE UNCHANGED <<production, lost>> /\ news' = {}
      BY <3>1, <2>1
    <3>2. ASSUME NEW n \in Nat, NEW full \in BOOLEAN, NEW starved \in BOOLEAN, FactoryMakes(turn, n, full, starved)
          PROVE  ProductionKept
      <4>1. /\ run' \in [Rooms -> RunData] /\ \A x \in Rooms : x # turn => run'[x] = run[x]
            /\ run'[turn].progress = run[turn].progress
            /\ depot' \in [Goods -> Nat] /\ stock' \in StockData
            /\ totals' \in [made : [Goods -> Nat], used : Nat, sold : [Goods -> Nat]]
            /\ Marked(turn, full) /\ \A e \in news' : e.at \in Nat
            /\ Books(run', depot', stock', totals')
        BY <1>1, <2>5, <3>2, FactoryKeepsBooks
      <4> QED BY <2>2, <2>4, <2>5, <4>1
    <3> QED BY <1>1, <2>5, <3>1, <3>2, FactoryIs
  <2>6. CASE base.rooms[turn].kind = "trading" /\ Filled(turn, rate * Span, limit, "pending")
    <3>1. PICK full \in BOOLEAN : Marked(turn, full) /\ Touched(turn) /\ run'[turn].progress = run[turn].progress
      BY <1>1, <1>4, <2>6, FilledIs
    <3> QED BY <2>3, <2>4, <2>6, <3>1
  <2>7. CASE base.rooms[turn].kind = "office" /\ Filled(turn, rate * Span, base.rooms[turn].cap, "stored")
    <3>1. PICK full \in BOOLEAN : Marked(turn, full) /\ Touched(turn) /\ run'[turn].progress = run[turn].progress
      BY <1>1, <1>4, <2>7, FilledIs
    <3> QED BY <2>3, <2>4, <2>7, <3>1
  <2>8. CASE base.rooms[turn].kind = "training" /\ Training(turn, rate)
    <3>1. CASE UNCHANGED <<production, lost>> /\ news' = {}
      BY <3>1, <2>1
    <3>2. CASE Touched(turn) /\ Marked(turn, FALSE) /\ run'[turn].progress <= base.rooms[turn].target
      BY <2>3, <2>8, <3>2
    <3> QED BY <1>1, <1>4, <2>8, <3>1, <3>2, TrainingIs
  <2>9. CASE base.rooms[turn].kind = "dorm" /\ UNCHANGED <<production, lost>> /\ news' = {}
    BY <2>1, <2>9
  <2>10. CASE base.rooms[turn].kind \in AtOnce /\ Gained(turn, rate * Span)
    <3>1. base.rooms[turn].kind # "factory"
      BY <2>10 DEF AtOnce
    <3>2. Touched(turn) /\ Marked(turn, FALSE) /\ run'[turn].progress = run[turn].progress
      BY <1>1, <1>4, <2>10, GainedIs
    <3> QED BY <2>3, <2>4, <3>1, <3>2
  <2> QED BY <1>2, <2>5, <2>6, <2>7, <2>8, <2>9, <2>10
<1>7. turn' \in Rooms
  BY <1>1, <1>3, BaseIs
<1>8. /\ pc' \in {"produce", "fulfil", "mood", "collect", "rotate", "over"}
      /\ base' \in Bases /\ hour' \in 0 .. Horizon /\ assignment' \in Assignments /\ Stationed(assignment') \subseteq DOMAIN states'
      /\ DOMAIN states' \subseteq Operators /\ states' \in [DOMAIN states' -> OpData]
      /\ entered' \in [Operators -> Nat] /\ nextCollection' \in Nat
  <2>1. states' = states /\ assignment' = assignment /\ entered' = entered /\ hour' = hour /\ nextCollection' = nextCollection
    BY <1>3 DEF people
  <2> QED BY <1>1, <1>3, <2>1 DEF TypeOK
<1>9. TypeOK'
  BY <1>5, <1>6, <1>7, <1>8 DEF TypeOK, ProductionKept
<1> QED BY <1>5, <1>6, <1>9 DEF IInv, ProductionKept

\* The rooms as a collection leaves them.
LEMMA EmptiedIs ==
  ASSUME TypeOK, NEW runs, runs = Emptied
  PROVE  /\ runs \in [Rooms -> RunData]
         /\ \A r \in Rooms :
              /\ runs[r].pending = run[r].pending /\ runs[r].orders = run[r].orders
              /\ runs[r].progress = run[r].progress
              /\ runs[r].stored + runs[r].made = run[r].stored + run[r].made
              /\ base.rooms[r].kind = "factory" => runs[r].made = run[r].made + run[r].stored
              /\ base.rooms[r].kind \in {"factory", "trading", "office"} => runs[r].full = FALSE
              /\ base.rooms[r].kind \notin {"factory", "trading", "office"} => runs[r].full = run[r].full
<1> DEFINE Same(r) ==
      /\ runs[r].pending = run[r].pending /\ runs[r].orders = run[r].orders
      /\ runs[r].progress = run[r].progress
      /\ runs[r].stored + runs[r].made = run[r].stored + run[r].made
      /\ base.rooms[r].kind = "factory" => runs[r].made = run[r].made + run[r].stored
      /\ base.rooms[r].kind \in {"factory", "trading", "office"} => runs[r].full = FALSE
      /\ base.rooms[r].kind \notin {"factory", "trading", "office"} => runs[r].full = run[r].full
<1>1. ASSUME NEW r \in Rooms PROVE runs[r] \in RunData /\ Same(r)
  <2>1. PICK v \in RunData : v = run[r]
    BY DEF TypeOK
  <2>2. v.stored \in Nat /\ v.made \in Nat
    BY DEF RunData
  <2>3. CASE base.rooms[r].kind \in {"factory", "office"}
    <3>1. PICK m \in Nat : m = v.made + v.stored
      BY <2>2
    <3> DEFINE new == [v EXCEPT !.stored = 0, !.made = m, !.full = FALSE]
    <3>2. runs[r] = new
      BY <2>1, <2>3, <3>1 DEF Emptied
    <3>3. new \in RunData
      BY DEF RunData
    <3>4. /\ new.stored = 0 /\ new.made = m /\ new.full = FALSE
          /\ new.pending = v.pending /\ new.orders = v.orders /\ new.progress = v.progress
      BY DEF RunData
    <3> HIDE DEF new
    <3> QED BY <2>1, <2>2, <2>3, <3>1, <3>2, <3>3, <3>4
  <2>4. CASE base.rooms[r].kind = "trading"
    <3> DEFINE new == [v EXCEPT !.full = FALSE]
    <3>1. runs[r] = new
      BY <2>1, <2>4 DEF Emptied
    <3>2. new \in RunData
      BY DEF RunData
    <3>3. /\ new.stored = v.stored /\ new.made = v.made /\ new.full = FALSE
          /\ new.pending = v.pending /\ new.orders = v.orders /\ new.progress = v.progress
      BY DEF RunData
    <3> HIDE DEF new
    <3> QED BY <2>1, <2>2, <2>4, <3>1, <3>2, <3>3
  <2>5. CASE base.rooms[r].kind \notin {"factory", "trading", "office"}
    <3>1. runs[r] = v
      BY <2>1, <2>5 DEF Emptied
    <3> QED BY <2>1, <2>2, <2>5, <3>1
  <2> QED BY <2>3, <2>4, <2>5
<1>2. runs = [r \in Rooms |-> runs[r]]
  BY DEF Emptied
<1>3. runs \in [Rooms -> RunData]
  <2> HIDE DEF Same
  <2> QED BY <1>1, <1>2
<1> QED BY <1>1, <1>3

\* What both kinds of sale leave true.
LEMMA SaleKeeps ==
  ASSUME IInv, NEW runs \in [Rooms -> RunData], NEW have \in [Goods -> Nat],
         NEW came \in [Goods -> Nat], \A g \in Goods : have[g] = depot[g] + came[g],
         \A r \in Rooms : /\ runs[r].orders = run[r].orders /\ runs[r].progress = run[r].progress
                          /\ runs[r].stored + runs[r].made = run[r].stored + run[r].made,
         \A g \in Goods : SumFunctionOnSet(MadeOf(runs), Dealing("factory", g))
                            = SumFunctionOnSet(MadeOf(run), Dealing("factory", g)) + came[g],
         Sells(runs, have), base' = base
  PROVE  /\ TrainingFits' /\ NothingIsLost' /\ Rooms' = Rooms
         /\ run' \in [Rooms -> RunData] /\ \A r \in Rooms : run'[r].full = runs[r].full
         /\ depot' \in [Goods -> Nat] /\ stock' \in StockData
         /\ totals' \in [made : [Goods -> Nat], used : Nat, sold : [Goods -> Nat]]
         /\ \A e \in news' : e.at \in Nat
<1>1. TypeOK /\ TrainingFits /\ NothingIsLost
  BY DEF IInv
<1>2. depot \in [Goods -> Nat] /\ stock \in StockData /\ Rooms' = Rooms
  BY <1>1 DEF TypeOK, Rooms
<1>3. \A g \in Goods : have[g] >= depot[g]
  BY <1>2
<1>4. Sold(runs, have)
  BY <1>1, <1>3, SellsIs
<1>5. Books(run', depot', stock', totals')
  BY <1>1, <1>4, SoldKeepsBooks
<1>6. /\ run' \in [Rooms -> RunData] /\ \A r \in Rooms : run'[r].full = runs[r].full /\ run'[r].progress = runs[r].progress
      /\ depot' \in [Goods -> Nat] /\ stock' = stock
      /\ totals' \in [made : [Goods -> Nat], used : Nat, sold : [Goods -> Nat]]
      /\ \A e \in news' : e.at \in Nat
  BY <1>4 DEF Sold
<1>7. NothingIsLost'
  BY <1>5, <1>6, BooksAreNext
<1>8. TrainingFits'
  BY <1>1, <1>2, <1>6 DEF TrainingFits
<1> QED BY <1>2, <1>6, <1>7, <1>8

LEMMA FulfilStep ==
  ASSUME IInv, Fulfil
  PROVE  IInv'
<1>1. TypeOK /\ MarksAre /\ LossesAreReported
  BY DEF IInv
<1>2. /\ pc' = "mood" /\ Sells(run, depot)
      /\ UNCHANGED <<base, hour, turn, people, nextCollection, lost, told>>
  BY DEF Fulfil
<1>3. run \in [Rooms -> RunData] /\ depot \in [Goods -> Nat]
  BY <1>1 DEF TypeOK
<1>4. PICK came \in [Goods -> Nat] : came = [g \in Goods |-> 0]
  <2>1. [g \in Goods |-> 0] \in [Goods -> Nat]
    OBVIOUS
  <2> QED BY <2>1, Zenon
<1>5. \A g \in Goods : SumFunctionOnSet(MadeOf(run), Dealing("factory", g)) \in Int
  <2> SUFFICES ASSUME NEW g \in Goods PROVE SumFunctionOnSet(MadeOf(run), Dealing("factory", g)) \in Int
    OBVIOUS
  <2>1. PICK makers : makers = Dealing("factory", g)
    OBVIOUS
  <2>2. IsFiniteSet(makers) /\ \A x \in makers : MadeOf(run)[x] \in Int
    BY <1>1, <1>3, <2>1, PostsAre, TermsAre
  <2> QED BY <2>1, <2>2, TotalIsInt
<1>6. /\ TrainingFits' /\ NothingIsLost' /\ Rooms' = Rooms
      /\ run' \in [Rooms -> RunData] /\ \A r \in Rooms : run'[r].full = run[r].full
      /\ depot' \in [Goods -> Nat] /\ stock' \in StockData
      /\ totals' \in [made : [Goods -> Nat], used : Nat, sold : [Goods -> Nat]]
      /\ \A e \in news' : e.at \in Nat
  <2>1. \A g \in Goods : depot[g] = depot[g] + came[g]
    BY <1>3, <1>4
  <2>2. \A g \in Goods : SumFunctionOnSet(MadeOf(run), Dealing("factory", g))
                           = SumFunctionOnSet(MadeOf(run), Dealing("factory", g)) + came[g]
    BY <1>4, <1>5
  <2> QED BY <1>2, <1>3, <2>1, <2>2, SaleKeeps
<1>7. HoursAddUp' /\ NoDuplicates(assignment)'
  BY <1>2, PeopleUnchanged
<1>8. MarksAre' /\ LossesAreReported'
  BY <1>1, <1>2, <1>6 DEF MarksAre, LossesAreReported
<1>9. TypeOK'
  <2>1. /\ states' = states /\ assignment' = assignment /\ entered' = entered /\ hour' = hour
        /\ nextCollection' = nextCollection /\ lost' = lost /\ told' = told /\ turn' = turn
    BY <1>2 DEF people
  <2> QED BY <1>1, <1>2, <1>6, <2>1 DEF TypeOK
<1> QED BY <1>6, <1>7, <1>8, <1>9 DEF IInv

\* What a collection brings to the depot.
Brought(item) == SumFunctionOnSet([r \in Rooms |-> run[r].stored], Dealing("factory", item))

LEMMA BroughtIs ==
  ASSUME TypeOK, NEW runs, runs = Emptied, NEW g \in Goods
  PROVE  /\ Brought(g) \in Nat
         /\ SumFunctionOnSet(MadeOf(runs), Dealing("factory", g))
              = SumFunctionOnSet(MadeOf(run), Dealing("factory", g)) + Brought(g)
<1>1. run \in [Rooms -> RunData]
  BY DEF TypeOK
<1>2. PICK makers : makers = Dealing("factory", g)
  OBVIOUS
<1>3. IsFiniteSet(makers) /\ \A r \in makers : r \in Rooms /\ base.rooms[r].kind = "factory"
  BY <1>2, PostsAre DEF Dealing
<1>4. PICK stores : stores = [r \in Rooms |-> run[r].stored]
  OBVIOUS
<1>5. PICK old, now : old = MadeOf(run) /\ now = MadeOf(runs)
  OBVIOUS
<1>6. \A r \in makers : stores[r] \in Nat /\ old[r] \in Nat
  BY <1>1, <1>3, <1>4, <1>5, TermsAre
<1>7. \A r \in makers : now[r] = old[r] + stores[r]
  BY <1>3, <1>4, <1>5, EmptiedIs DEF MadeOf
<1>8. SumFunctionOnSet(now, makers) = SumFunctionOnSet(old, makers) + SumFunctionOnSet(stores, makers)
  <2>1. \A r \in makers : old[r] \in Int /\ stores[r] \in Int /\ now[r] = old[r] + stores[r]
    BY <1>6, <1>7
  <2> QED BY <1>3, <2>1, TotalAdds
<1>9. SumFunctionOnSet(stores, makers) \in Nat
  BY <1>3, <1>6, TotalOfNats
<1> QED BY <1>2, <1>4, <1>5, <1>8, <1>9 DEF Brought

LEMMA CollectSells ==
  ASSUME TypeOK, Collect
  PROVE  \E runs \in [Rooms -> RunData], have \in [Goods -> Nat], came \in [Goods -> Nat] :
           /\ runs = Emptied /\ Sells(runs, have)
           /\ \A g \in Goods : have[g] = depot[g] + came[g] /\ came[g] = Brought(g)
<1>1. PICK runs \in [Rooms -> RunData] : runs = Emptied
  BY EmptiedIs
<1>2. depot \in [Goods -> Nat]
  BY DEF TypeOK
<1>3. \A g \in Goods : Brought(g) \in Nat
  BY <1>1, BroughtIs
<1>4. PICK came \in [Goods -> Nat] : came = [g \in Goods |-> Brought(g)]
  <2>1. [g \in Goods |-> Brought(g)] \in [Goods -> Nat]
    BY <1>3
  <2> QED BY <2>1, Zenon
<1>5. PICK have \in [Goods -> Nat] : have = [g \in Goods |-> depot[g] + came[g]]
  <2>1. \A g \in Goods : depot[g] + came[g] \in Nat
    BY <1>2
  <2>2. [g \in Goods |-> depot[g] + came[g]] \in [Goods -> Nat]
    BY <2>1
  <2> QED BY <2>2, Zenon
<1>6. Sells(Emptied, [item \in DOMAIN depot |-> depot[item] + Brought(item)])
  BY DEF Collect, Brought
<1>7. have = [item \in DOMAIN depot |-> depot[item] + Brought(item)]
  BY <1>2, <1>4, <1>5
<1>8. Sells(runs, have)
  BY <1>1, <1>6, <1>7, Zenon
<1>9. \A g \in Goods : have[g] = depot[g] + came[g] /\ came[g] = Brought(g)
  BY <1>4, <1>5
<1> QED BY <1>1, <1>8, <1>9

LEMMA CollectStep ==
  ASSUME IInv, Collect
  PROVE  IInv'
<1>1. TypeOK /\ MarksAre
  BY DEF IInv
<1>2. /\ pc' = "rotate" /\ nextCollection' = Due /\ lost' = {} /\ told' = {}
      /\ UNCHANGED <<base, hour, turn, people>>
  BY DEF Collect
<1>3. PICK runs \in [Rooms -> RunData], have \in [Goods -> Nat], came \in [Goods -> Nat] :
        /\ runs = Emptied /\ Sells(runs, have)
        /\ \A g \in Goods : have[g] = depot[g] + came[g] /\ came[g] = Brought(g)
  BY <1>1, CollectSells
<1>4. /\ TrainingFits' /\ NothingIsLost' /\ Rooms' = Rooms
      /\ run' \in [Rooms -> RunData] /\ \A r \in Rooms : run'[r].full = runs[r].full
      /\ depot' \in [Goods -> Nat] /\ stock' \in StockData
      /\ totals' \in [made : [Goods -> Nat], used : Nat, sold : [Goods -> Nat]]
      /\ \A e \in news' : e.at \in Nat
  <2>1. \A r \in Rooms : /\ runs[r].orders = run[r].orders /\ runs[r].progress = run[r].progress
                         /\ runs[r].stored + runs[r].made = run[r].stored + run[r].made
    BY <1>1, <1>3, EmptiedIs
  <2>2. \A g \in Goods : SumFunctionOnSet(MadeOf(runs), Dealing("factory", g))
                           = SumFunctionOnSet(MadeOf(run), Dealing("factory", g)) + came[g]
    BY <1>1, <1>3, BroughtIs
  <2> QED BY <1>2, <1>3, <2>1, <2>2, SaleKeeps
<1>5. HoursAddUp' /\ NoDuplicates(assignment)'
  BY <1>2, PeopleUnchanged
<1>6. MarksAre'
  <2>1. \A r \in Rooms : runs[r].full = FALSE
    <3>1. \A r \in Rooms : /\ base.rooms[r].kind \in {"factory", "trading", "office"} => runs[r].full = FALSE
                           /\ base.rooms[r].kind \notin {"factory", "trading", "office"} => runs[r].full = run[r].full
      BY <1>1, <1>3, EmptiedIs
    <3>2. \A r \in Rooms : run[r].full \in BOOLEAN
      BY <1>1 DEF TypeOK, RunData
    <3> QED BY <1>1, <3>1, <3>2 DEF MarksAre
  <2> QED BY <1>2, <1>4, <2>1 DEF MarksAre
<1>7. LossesAreReported'
  BY <1>2 DEF LossesAreReported
<1>8. TypeOK'
  <2>1. /\ states' = states /\ assignment' = assignment /\ entered' = entered /\ hour' = hour /\ turn' = turn
    BY <1>2 DEF people
  <2>2. nextCollection' \in Nat
    <3>1. nextCollection \in Nat /\ base.every \in Nat
      BY <1>1, BaseIs DEF TypeOK
    <3> QED BY <1>2, <3>1 DEF Due
  <2> QED BY <1>1, <1>2, <1>4, <2>1, <2>2 DEF TypeOK
<1> QED BY <1>4, <1>5, <1>6, <1>7, <1>8 DEF IInv

LEMMA NextTickStep ==
  ASSUME IInv, NextTick
  PROVE  IInv'
<1>1. TypeOK
  BY DEF IInv
<1>2. /\ pc' = (IF hour < Horizon THEN "produce" ELSE "over") /\ news' = {}
      /\ UNCHANGED <<base, hour, turn, production, people, nextCollection, lost, told>>
  BY DEF NextTick
<1>3. HoursAddUp' /\ NoDuplicates(assignment)' /\ Rooms' = Rooms
  BY <1>2, PeopleUnchanged
<1>4. TrainingFits' /\ MarksAre' /\ LossesAreReported' /\ NothingIsLost'
  BY <1>2, ProductionUnchanged
<1>5. TypeOK'
  BY <1>1, <1>2, <1>3 DEF TypeOK, production, people
<1> QED BY <1>3, <1>4, <1>5 DEF IInv

LEMMA IdleStep ==
  ASSUME IInv, UNCHANGED vars
  PROVE  IInv'
<1>1. TypeOK
  BY DEF IInv
<1>2. UNCHANGED <<base, hour, pc, turn, production, people, nextCollection, lost, told, news>>
  BY DEF vars, production, people
<1>3. HoursAddUp' /\ NoDuplicates(assignment)' /\ Rooms' = Rooms
  BY <1>2, PeopleUnchanged
<1>4. TrainingFits' /\ MarksAre' /\ LossesAreReported' /\ NothingIsLost'
  BY <1>2, ProductionUnchanged
<1>5. TypeOK'
  BY <1>1, <1>2, <1>3 DEF TypeOK, production, people
<1> QED BY <1>3, <1>4, <1>5 DEF IInv

-----------------------------------------------------------------------------
(* What the mutators of Assignment do to an assignment without duplicates. *)

\* A mutator gives an assignment: with_capacities fixed the slots, and no
\* mutator adds or drops one.
LEMMA MutatorsType ==
  ASSUME NEW a \in Assignments, NEW s \in Slots, NEW t \in Slots,
         NEW op \in Operators
  PROVE  /\ Lifted(a, op) \in Assignments
         /\ Placed(a, s, op) \in Assignments
         /\ Removed(a, s) \in Assignments
         /\ Moved(a, op, s) \in Assignments
         /\ Swapped(a, s, t) \in Assignments
<1>1. ASSUME NEW b \in Assignments, NEW x \in Slots
      PROVE  /\ Removed(b, x) \in Assignments
             /\ \A p \in Operators : Placed(b, x, p) \in Assignments
             /\ \A w \in Operators \cup {Nobody} : Seated(b, x, w) \in Assignments
  BY <1>1 DEF Assignments, Removed, Placed, Seated
<1>2. Lifted(a, op) \in Assignments
  BY DEF Assignments, Lifted
<1>3. Moved(a, op, s) \in Assignments
  BY <1>1, <1>2 DEF Moved
<1>4. a[s] \in Operators \cup {Nobody} /\ a[t] \in Operators \cup {Nobody}
  BY DEF Assignments
<1>5. Swapped(a, s, t) \in Assignments
  BY <1>1, <1>4 DEF Swapped
<1> QED  BY <1>1, <1>2, <1>3, <1>5

\* Assignment::swap exchanges two occupants: neither of its places is ever
\* refused, so that it never stops half way with an operator lost.
LEMMA SwapExchanges ==
  ASSUME NEW a \in Assignments, NoDuplicates(a), NEW s \in Slots, NEW t \in Slots
  PROVE  Swapped(a, s, t) = [a EXCEPT ![s] = a[t], ![t] = a[s]]
<1> DEFINE both == Removed(Removed(a, s), t)
           one  == Seated(both, s, a[t])
<1>1. CASE s = t
  BY <1>1 DEF Swapped, Assignments
<1>2. CASE s # t
  <2>1. both = [a EXCEPT ![s] = Nobody, ![t] = Nobody]
    BY <1>2 DEF Removed, Assignments
  <2>2. one = [a EXCEPT ![s] = a[t], ![t] = Nobody]
    <3>1. CASE a[t] = Nobody
      BY <2>1, <3>1, <1>2 DEF Seated, Assignments
    <3>2. CASE a[t] # Nobody
      <4>1. At(both, a[t]) = {}
        BY <2>1, <3>2, <1>2 DEF At, NoDuplicates, Assignments
      <4>2. CanPlace(both, s, a[t])
        BY <4>1 DEF CanPlace
      <4> QED  BY <4>2, <2>1, <3>2, <1>2 DEF Seated, Placed, Assignments
    <3> QED  BY <3>1, <3>2
  <2>3. Seated(one, t, a[s]) = [a EXCEPT ![s] = a[t], ![t] = a[s]]
    <3>1. CASE a[s] = Nobody
      BY <2>2, <3>1, <1>2 DEF Seated, Assignments
    <3>2. CASE a[s] # Nobody
      <4>1. At(one, a[s]) = {}
        BY <2>2, <3>2, <1>2 DEF At, NoDuplicates, Assignments
      <4>2. CanPlace(one, t, a[s])
        BY <4>1 DEF CanPlace
      <4> QED  BY <4>2, <2>2, <3>2, <1>2 DEF Seated, Placed, Assignments
    <3> QED  BY <3>1, <3>2
  <2> QED  BY <2>3, <1>2 DEF Swapped, CanSwap
<1> QED  BY <1>1, <1>2

\* Assignment::move_to takes the operator from wherever they are and puts
\* them at the slot: its place is never refused.
LEMMA MoveMoves ==
  ASSUME NEW a \in Assignments, NEW op \in Operators, NEW s \in Slots
  PROVE  Moved(a, op, s)
           = [x \in Slots |-> IF x = s THEN op
                              ELSE IF a[x] = op THEN Nobody ELSE a[x]]
<1>1. At(Lifted(a, op), op) = {}
  BY NobodyAssumption DEF At, Lifted
<1>2. CanPlace(Lifted(a, op), s, op)
  BY <1>1 DEF CanPlace
<1> QED  BY <1>2 DEF Moved, CanMove, Placed, Lifted

\* No mutator puts an operator in two slots.
LEMMA MutatorsKeepNoDuplicates ==
  ASSUME NEW a \in Assignments, NoDuplicates(a),
         NEW s \in Slots, NEW t \in Slots, NEW op \in Operators
  PROVE  /\ NoDuplicates(Placed(a, s, op))
         /\ NoDuplicates(Removed(a, s))
         /\ NoDuplicates(Moved(a, op, s))
         /\ NoDuplicates(Swapped(a, s, t))
<1>1. NoDuplicates(Placed(a, s, op))
  BY DEF Placed, CanPlace, At, NoDuplicates, Assignments
<1>2. NoDuplicates(Removed(a, s))
  BY DEF Removed, NoDuplicates, Assignments
<1>3. NoDuplicates(Moved(a, op, s))
  BY MoveMoves DEF NoDuplicates, Assignments
<1>4. NoDuplicates(Swapped(a, s, t))
  BY SwapExchanges DEF NoDuplicates, Assignments
<1> QED  BY <1>1, <1>2, <1>3, <1>4

-----------------------------------------------------------------------------
(* Morale, the policy and the hours.                                       *)

LEMMA BucketsAre == IsFiniteSet(Buckets)
<1>1. IsFiniteSet({"working"})
  BY FS_Singleton
<1>2. IsFiniteSet({"working"} \cup {"resting"})
  BY <1>1, FS_AddElement
<1>3. IsFiniteSet(({"working"} \cup {"resting"}) \cup {"exhausted"})
  BY <1>2, FS_AddElement
<1>4. IsFiniteSet((({"working"} \cup {"resting"}) \cup {"exhausted"}) \cup {"idle"})
  BY <1>3, FS_AddElement
<1>5. IsFiniteSet(((({"working"} \cup {"resting"}) \cup {"exhausted"}) \cup {"idle"}) \cup {"benched"})
  BY <1>4, FS_AddElement
<1>6. ((({"working"} \cup {"resting"}) \cup {"exhausted"}) \cup {"idle"}) \cup {"benched"} = Buckets
  BY DEF Buckets
<1> QED BY <1>5, <1>6

LEMMA TotalOfZeros ==
  ASSUME NEW S, IsFiniteSet(S), NEW f, \A x \in S : f[x] = 0
  PROVE  SumFunctionOnSet(f, S) = 0
<1>1. SumFunctionOnSet(f, S) = 0 * SumFunctionOnSet(f, S)
  <2>1. \A x \in S : f[x] \in Int /\ f[x] = 0 * f[x]
    OBVIOUS
  <2> QED BY <2>1, TotalScales
<1>2. SumFunctionOnSet(f, S) \in Int
  BY TotalIsInt
<1> QED BY <1>1, <1>2

LEMMA NewStateIs ==
  /\ NewState \in OpData /\ NewState.since = 0 /\ NewState.inRoom = 0
  /\ SumFunctionOnSet(NewState.spent, Buckets) = 0
<1>1. PICK zero \in [Buckets -> Nat] : zero = [b \in Buckets |-> 0]
  <2>1. [b \in Buckets |-> 0] \in [Buckets -> Nat]
    OBVIOUS
  <2> QED BY <2>1, Zenon
<1>2. NewState = [mood |-> MaxMood, inRoom |-> 0, since |-> 0, spent |-> zero]
  BY <1>1 DEF NewState
<1>3. MaxMood \in 0 .. MaxMood
  BY RatesAssumption
<1>4. NewState \in OpData /\ NewState.since = 0 /\ NewState.inRoom = 0 /\ NewState.spent = zero
  BY <1>2, <1>3 DEF OpData
<1>5. SumFunctionOnSet(zero, Buckets) = 0
  BY <1>1, BucketsAre, TotalOfZeros
<1> QED BY <1>4, <1>5

\* The hours of one operator: at is when they took their place, if any.
Accounted(state, time, placed, at) ==
  /\ SumFunctionOnSet(state.spent, Buckets) = time - state.since
  /\ placed => state.inRoom = time - at

LEMMA HoursAre ==
  ASSUME TypeOK
  PROVE  HoursAddUp <=> \A o \in DOMAIN states : Accounted(states[o], hour, At(assignment, o) # {}, entered[o])
<1>1. \A o \in DOMAIN states : DOMAIN (states[o].spent) = Buckets
  BY DEF TypeOK, OpData
<1> QED BY <1>1 DEF HoursAddUp, Accounted, SumFunction

LEMMA HoursAreNext ==
  ASSUME states' \in [DOMAIN states' -> OpData],
         \A o \in DOMAIN states' : Accounted(states'[o], hour', At(assignment', o) # {}, entered'[o])
  PROVE  HoursAddUp'
<1>1. \A o \in DOMAIN states' : DOMAIN (states'[o].spent) = Buckets
  BY DEF OpData
<1> QED BY <1>1 DEF HoursAddUp, Accounted, SumFunction, At

LEMMA DoingIs == ASSUME NEW o PROVE Doing(o) \in Buckets
BY DEF Doing, Buckets

LEMMA MoodStep ==
  ASSUME IInv, AdvanceMood
  PROVE  IInv'
<1>1. TypeOK /\ HoursAddUp /\ NoDuplicates(assignment)
  BY DEF IInv
<1> DEFINE Here(o) == At(assignment, o) # {}
           After(feeling, o) == Min({MaxMood, Max({0, states[o].mood + feeling[o] * Span})})
<1>2. PICK feeling \in [Stationed(assignment) -> Feelings] :
        /\ states' = [o \in DOMAIN states |->
             [states[o] EXCEPT !.mood = IF Here(o) THEN After(feeling, o) ELSE @,
                               !.inRoom = IF Here(o) THEN @ + Span ELSE @,
                               !.spent[Doing(o)] = @ + Span]]
        /\ news' = {Event("exhausted", o, hour + Span) :
             o \in {x \in Stationed(assignment) : Doing(x) = "working" /\ After(feeling, x) = 0}}
  BY DEF AdvanceMood
<1>3. /\ hour' = hour + Span
      /\ pc' = (IF Periodic /\ hour + Span >= nextCollection THEN "collect" ELSE "rotate")
      /\ UNCHANGED <<base, turn, production, assignment, entered, nextCollection, lost, told>>
  BY DEF AdvanceMood
<1>4. PICK now, span \in Nat : now = hour /\ span = Span /\ now + span \in 0 .. Horizon
  BY <1>1, SpanIs
<1>5. ASSUME NEW o \in DOMAIN states
      PROVE  states'[o] \in OpData /\ Accounted(states'[o], now + span, At(assignment', o) # {}, entered'[o])
  <2>1. PICK v \in OpData : v = states[o]
    BY <1>1 DEF TypeOK
  <2>2. v.mood \in 0 .. MaxMood /\ v.inRoom \in Nat /\ v.since \in Nat /\ v.spent \in [Buckets -> Nat]
    BY DEF OpData
  <2>3. PICK here \in BOOLEAN : here = Here(o)
    <3>1. Here(o) \in BOOLEAN
      OBVIOUS
    <3> HIDE DEF Here
    <3> QED BY <3>1
  <2>4. PICK mood \in 0 .. MaxMood : mood = IF here THEN After(feeling, o) ELSE v.mood
    <3>1. ASSUME here PROVE After(feeling, o) \in 0 .. MaxMood
      <4>1. o \in Stationed(assignment)
        <5>1. o # Nobody
          BY <1>1, NobodyAssumption DEF TypeOK
        <5> QED BY <5>1, <2>3, <3>1 DEF At, Stationed
      <4>2. PICK gain \in Int : gain = feeling[o] * span
        <5>1. feeling[o] \in Int
          BY <4>1, RatesAssumption
        <5>2. feeling[o] * span \in Int
          BY <5>1
        <5> QED BY <5>2
      <4>3. PICK sum \in Int : sum = v.mood + gain
        BY <2>2
      <4>4. PICK up \in Nat : up = Max({0, sum})
        BY MaxOfTwo
      <4>5. Min({MaxMood, up}) \in 0 .. MaxMood
        BY RatesAssumption, MinOfTwo
      <4>6. After(feeling, o) = Min({MaxMood, up})
        BY <2>1, <1>4, <4>2, <4>3, <4>4
      <4> QED BY <4>5, <4>6
    <3> HIDE DEF After
    <3> QED BY <2>2, <3>1
  <2>5. PICK inRoom \in Nat : inRoom = IF here THEN v.inRoom + span ELSE v.inRoom
    BY <2>2
  <2>6. PICK doing \in Buckets : doing = Doing(o)
    BY DoingIs
  <2>7. PICK spent \in [Buckets -> Nat] : spent = [v.spent EXCEPT ![doing] = @ + span]
    <3>1. v.spent[doing] + span \in Nat
      BY <2>2
    <3>2. [v.spent EXCEPT ![doing] = @ + span] \in [Buckets -> Nat]
      BY <2>2, <3>1
    <3> QED BY <3>2, Zenon
  <2> DEFINE new == [v EXCEPT !.mood = mood, !.inRoom = inRoom, !.spent = spent]
  <2>8. new \in OpData
    BY DEF OpData
  <2>9. new.inRoom = inRoom /\ new.since = v.since /\ new.spent = spent
    BY DEF OpData
  <2>10. states'[o] = new
    <3>1. states'[o] = [states[o] EXCEPT !.mood = IF Here(o) THEN After(feeling, o) ELSE @,
                                         !.inRoom = IF Here(o) THEN @ + Span ELSE @,
                                         !.spent[Doing(o)] = @ + Span]
      BY <1>2
    <3> HIDE DEF Here, After
    <3>2. states'[o] = [v EXCEPT !.mood = IF here THEN After(feeling, o) ELSE @,
                                 !.inRoom = IF here THEN @ + span ELSE @,
                                 !.spent[doing] = @ + span]
      BY <3>1, <2>1, <2>3, <2>6, <1>4
    <3> QED BY <3>2, <2>4, <2>5, <2>7 DEF OpData
  <2> HIDE DEF new
  <2>11. SumFunctionOnSet(spent, Buckets) = SumFunctionOnSet(v.spent, Buckets) + span
    <3>1. PICK old \in [Buckets -> Nat] : old = v.spent
      BY <2>2
    <3>2. (\A b \in Buckets : old[b] \in Int) /\ (\A b \in Buckets \ {doing} : spent[b] = old[b]) /\ spent[doing] \in Int
      BY <2>7, <3>1
    <3>3. SumFunctionOnSet(spent, Buckets) = SumFunctionOnSet(old, Buckets) + spent[doing] - old[doing]
      BY <3>2, BucketsAre, TotalChanges
    <3>4. SumFunctionOnSet(old, Buckets) \in Int
      BY <3>2, BucketsAre, TotalIsInt
    <3>5. spent[doing] = old[doing] + span /\ old[doing] \in Nat
      BY <2>7, <3>1
    <3> QED BY <3>1, <3>3, <3>4, <3>5
  <2>12. /\ SumFunctionOnSet(v.spent, Buckets) = now - v.since
         /\ here => v.inRoom = now - entered[o]
    <3>1. Accounted(v, now, Here(o), entered[o])
      BY <1>1, <1>4, <2>1, HoursAre
    <3> HIDE DEF Here
    <3> QED BY <2>3, <3>1 DEF Accounted
  <2>13. /\ entered'[o] = entered[o]
         /\ (At(assignment', o) # {}) => here
    BY <1>3, <2>3
  <2>14. entered[o] \in Nat
    BY <1>1 DEF TypeOK
  <2>15. SumFunctionOnSet(new.spent, Buckets) = (now + span) - new.since
    BY <2>2, <2>9, <2>11, <2>12
  <2>16. here => new.inRoom = (now + span) - entered[o]
    BY <2>2, <2>5, <2>9, <2>12, <2>14
  <2>17. Accounted(states'[o], now + span, At(assignment', o) # {}, entered'[o])
    <3> HIDE DEF Here
    <3>1. SumFunctionOnSet(states'[o].spent, Buckets) = (now + span) - states'[o].since
      BY <2>10, <2>15
    <3>2. At(assignment', o) # {} => states'[o].inRoom = (now + span) - entered'[o]
      BY <2>10, <2>13, <2>16
    <3> QED BY <3>1, <3>2 DEF Accounted
  <2> QED BY <2>8, <2>10, <2>17
<1> HIDE DEF Here, After
<1>6. DOMAIN states' = DOMAIN states /\ states' = [o \in DOMAIN states |-> states'[o]]
  BY <1>2
<1>7. states' \in [DOMAIN states' -> OpData]
  BY <1>5, <1>6
<1>8. HoursAddUp'
  <2>1. \A o \in DOMAIN states' : Accounted(states'[o], hour', At(assignment', o) # {}, entered'[o])
    BY <1>3, <1>4, <1>5, <1>6
  <2> QED BY <1>7, <2>1, HoursAreNext
<1>9. TrainingFits' /\ MarksAre' /\ LossesAreReported' /\ NothingIsLost'
  BY <1>3, ProductionUnchanged
<1>10. TypeOK'
  <2>1. \A e \in news' : e.at \in Nat
    <3>1. \A o : Event("exhausted", o, hour + Span).at = now + span
      BY <1>4 DEF Event
    <3>2. now + span \in Nat
      OBVIOUS
    <3> QED BY <1>2, <3>1, <3>2
  <2>2. hour' \in 0 .. Horizon
    BY <1>3, <1>4
  <2> QED BY <1>1, <1>3, <1>6, <1>7, <2>1, <2>2 DEF TypeOK, production, Rooms
<1>11. NoDuplicates(assignment)'
  BY <1>1, <1>3 DEF NoDuplicates
<1> QED BY <1>8, <1>9, <1>10, <1>11 DEF IInv

\* The policy's action: those of who start anew, and whoever has a new place is
\* one of them.
LEMMA RotationKeeps ==
  ASSUME IInv, NEW known, NEW who,
         known \in [DOMAIN known -> OpData], DOMAIN known \subseteq Operators,
         \A o \in DOMAIN known : Accounted(known[o], hour, At(assignment, o) # {}, entered[o]),
         assignment' \in Assignments, NoDuplicates(assignment'), Stationed(assignment') \subseteq DOMAIN known,
         \A o \in Operators : At(assignment', o) # {} /\ At(assignment', o) # At(assignment, o) => o \in who,
         states' = Anew(known, who), Changed(who),
         UNCHANGED <<base, hour, pc, turn, production, nextCollection, lost, told>>
  PROVE  IInv'
<1>1. TypeOK
  BY DEF IInv
<1>2. PICK now \in Nat : now = hour
  BY <1>1, SpanIs
<1>3. PICK after : after = states'
  OBVIOUS
<1>4. after = [o \in DOMAIN known |-> IF o \in who THEN [known[o] EXCEPT !.inRoom = 0] ELSE known[o]]
  BY <1>3 DEF Anew
<1>5. /\ entered' = [o \in Operators |-> IF o \in who \/ At(assignment', o) # At(assignment, o) THEN hour
                                     ELSE entered[o]]
      /\ news' = {Event("moved", o, hour) : o \in who}
  BY DEF Changed
<1>6. ASSUME NEW o \in DOMAIN known
      PROVE  after[o] \in OpData /\ Accounted(after[o], now, At(assignment', o) # {}, entered'[o])
  <2>1. PICK v \in OpData : v = known[o]
    OBVIOUS
  <2>2. o \in Operators /\ entered[o] \in Nat
    BY <1>1 DEF TypeOK
  <2>3. /\ SumFunctionOnSet(v.spent, Buckets) = now - v.since
        /\ At(assignment, o) # {} => v.inRoom = now - entered[o]
    BY <1>2, <2>1 DEF Accounted
  <2>4. CASE o \in who
    <3> DEFINE new == [v EXCEPT !.inRoom = 0]
    <3>1. after[o] = new
      BY <1>4, <2>1, <2>4
    <3>2. new \in OpData /\ new.spent = v.spent /\ new.since = v.since /\ new.inRoom = 0
      BY DEF OpData
    <3> HIDE DEF new
    <3>3. At(assignment', o) # {} => entered'[o] = now
      BY <1>2, <1>5, <2>2, <2>4
    <3>4. At(assignment', o) # {} => after[o].inRoom = now - entered'[o]
      BY <3>1, <3>2, <3>3
    <3>5. SumFunctionOnSet(after[o].spent, Buckets) = now - after[o].since
      BY <2>3, <3>1, <3>2
    <3> QED BY <3>1, <3>2, <3>4, <3>5 DEF Accounted
  <2>5. CASE o \notin who
    <3>1. after[o] = v
      BY <1>4, <2>1, <2>5
    <3>2. At(assignment', o) # {} => At(assignment', o) = At(assignment, o) /\ entered'[o] = entered[o]
      BY <1>5, <2>2, <2>5
    <3> QED BY <2>3, <3>1, <3>2 DEF Accounted
  <2> QED BY <2>4, <2>5
<1>7. DOMAIN after = DOMAIN known
  BY <1>4
<1>8. after \in [DOMAIN after -> OpData]
  BY <1>4, <1>6, <1>7
<1>9. HoursAddUp'
  <2>1. \A o \in DOMAIN states' : Accounted(states'[o], hour', At(assignment', o) # {}, entered'[o])
    BY <1>2, <1>3, <1>6, <1>7
  <2> QED BY <1>3, <1>8, <2>1, HoursAreNext
<1>10. TrainingFits' /\ MarksAre' /\ LossesAreReported' /\ NothingIsLost'
  BY ProductionUnchanged
<1>11. TypeOK'
  <2>1. \A e \in news' : e.at \in Nat
    <3>1. \A o : Event("moved", o, hour).at = now
      BY <1>2 DEF Event
    <3> QED BY <1>5, <3>1
  <2>2. entered' \in [Operators -> Nat]
    <3>1. entered \in [Operators -> Nat]
      BY <1>1 DEF TypeOK
    <3> QED BY <1>2, <1>5, <3>1
  <2> QED BY <1>1, <1>3, <1>7, <1>8, <2>1, <2>2 DEF TypeOK, production, Rooms
<1>12. NoDuplicates(assignment)'
  BY DEF NoDuplicates
<1> QED BY <1>9, <1>10, <1>11, <1>12 DEF IInv

\* Whoever the policy names is known from then on.
LEMMA KnownIs ==
  ASSUME IInv, NEW o \in Operators, NEW known, known = Known(o)
  PROVE  /\ known \in [DOMAIN known -> OpData] /\ DOMAIN known = DOMAIN states \cup {o}
         /\ DOMAIN known \subseteq Operators
         /\ \A x \in DOMAIN known : Accounted(known[x], hour, At(assignment, x) # {}, entered[x])
<1>1. /\ TypeOK /\ DOMAIN states \subseteq Operators /\ states \in [DOMAIN states -> OpData]
      /\ Stationed(assignment) \subseteq DOMAIN states
  BY DEF IInv, TypeOK
<1>2. \A x \in DOMAIN states : Accounted(states[x], hour, At(assignment, x) # {}, entered[x])
  BY <1>1, HoursAre DEF IInv
<1>3. CASE o \in DOMAIN states
  <2>1. known = states /\ DOMAIN states = DOMAIN states \cup {o}
    BY <1>3 DEF Known
  <2> QED BY <1>1, <1>2, <2>1
<1>4. CASE o \notin DOMAIN states
  <2>1. PICK now \in Nat : now = hour
    BY <1>1, SpanIs
  <2>2. PICK v \in OpData : v = NewState /\ v.since = 0 /\ v.inRoom = 0 /\ SumFunctionOnSet(v.spent, Buckets) = 0
    BY NewStateIs
  <2> DEFINE new == [v EXCEPT !.since = now]
  <2>3. new \in OpData /\ new.spent = v.spent /\ new.since = now
    BY DEF OpData
  <2>4. known = [x \in DOMAIN states \cup {o} |-> IF x \in DOMAIN states THEN states[x] ELSE new]
    BY <1>4, <2>1, <2>2 DEF Known
  <2> HIDE DEF new
  <2>5. DOMAIN known = DOMAIN states \cup {o} /\ known[o] = new /\ \A x \in DOMAIN states : known[x] = states[x]
    BY <1>4, <2>4
  <2>6. At(assignment, o) = {}
    <3>1. o # Nobody /\ o \notin Stationed(assignment)
      BY <1>1, <1>4, NobodyAssumption
    <3> QED BY <3>1 DEF At, Stationed
  <2>7. Accounted(known[o], hour, At(assignment, o) # {}, entered[o])
    <3>1. SumFunctionOnSet(known[o].spent, Buckets) = now - known[o].since
      BY <2>2, <2>3, <2>5
    <3> QED BY <2>1, <2>6, <3>1 DEF Accounted
  <2>8. known \in [DOMAIN known -> OpData]
    BY <1>1, <2>3, <2>4, <2>5
  <2> QED BY <1>1, <1>2, <2>5, <2>7, <2>8
<1> QED BY <1>3, <1>4

LEMMA MoveToStep ==
  ASSUME IInv, NEW o \in Operators, NEW s \in base.slots, MoveTo(o, s),
         UNCHANGED <<base, hour, pc, turn, production, nextCollection, lost, told>>
  PROVE  IInv'
<1>1. /\ TypeOK /\ NoDuplicates(assignment) /\ assignment \in Assignments /\ Stationed(assignment) \subseteq DOMAIN states
      /\ DOMAIN states \subseteq Operators
  BY DEF IInv, TypeOK
<1>2. s \in Slots
  BY <1>1, BaseIs
<1>3. PICK before, after : before = assignment /\ after = assignment'
  OBVIOUS
<1>4. PICK who : who = {o} \cup ({before[s]} \ {Nobody, o})
  OBVIOUS
<1>5. PICK known : known = Known(o)
  OBVIOUS
<1>6. after = Moved(before, o, s) /\ states' = Anew(known, who) /\ Changed(who)
  BY <1>3, <1>4, <1>5 DEF MoveTo
<1>7. after \in Assignments /\ NoDuplicates(after)
  BY <1>1, <1>2, <1>3, <1>6, MutatorsType, MutatorsKeepNoDuplicates
<1>8. after = [x \in Slots |-> IF x = s THEN o ELSE IF before[x] = o THEN Nobody ELSE before[x]]
  BY <1>1, <1>2, <1>3, <1>6, MoveMoves
<1>9. /\ known \in [DOMAIN known -> OpData] /\ DOMAIN known = DOMAIN states \cup {o}
      /\ DOMAIN known \subseteq Operators
      /\ \A x \in DOMAIN known : Accounted(known[x], hour, At(assignment, x) # {}, entered[x])
  BY <1>5, KnownIs
<1>10. Stationed(after) \subseteq DOMAIN known
  BY <1>1, <1>2, <1>3, <1>8, <1>9 DEF Stationed
<1>11. ASSUME NEW x \in Operators, At(after, x) # {}
       PROVE  At(after, x) # At(before, x) => x \in who
  <2>1. x # Nobody /\ o # Nobody
    BY NobodyAssumption
  <2>2. CASE x = o
    BY <1>4, <2>2
  <2>3. CASE x # o /\ x = before[s]
    <3>1. At(after, x) = {}
      BY <1>1, <1>2, <1>3, <1>8, <2>1, <2>3 DEF At, NoDuplicates
    <3> QED BY <1>11, <3>1
  <2>4. CASE x # o /\ x # before[s]
    <3>1. At(after, x) = At(before, x)
      BY <1>2, <1>8, <2>1, <2>4 DEF At
    <3> QED BY <1>4, <2>4, <3>1
  <2> QED BY <2>2, <2>3, <2>4
<1> QED BY <1>3, <1>6, <1>7, <1>9, <1>10, <1>11, RotationKeeps

LEMMA KnownAlready ==
  ASSUME IInv
  PROVE  /\ states \in [DOMAIN states -> OpData] /\ DOMAIN states \subseteq Operators
         /\ \A x \in DOMAIN states : Accounted(states[x], hour, At(assignment, x) # {}, entered[x])
         /\ assignment \in Assignments /\ NoDuplicates(assignment)
         /\ Stationed(assignment) \subseteq DOMAIN states /\ base.slots \subseteq Slots
BY HoursAre, BaseIs DEF IInv, TypeOK

LEMMA TakeOffStep ==
  ASSUME IInv, NEW o \in Operators, TakeOff(o),
         UNCHANGED <<base, hour, pc, turn, production, nextCollection, lost, told>>
  PROVE  IInv'
<1>1. PICK known : known = states
  OBVIOUS
<1>2. /\ known \in [DOMAIN known -> OpData] /\ DOMAIN known \subseteq Operators
      /\ \A x \in DOMAIN known : Accounted(known[x], hour, At(assignment, x) # {}, entered[x])
      /\ assignment \in Assignments /\ NoDuplicates(assignment) /\ Stationed(assignment) \subseteq DOMAIN known
  BY <1>1, KnownAlready
<1>3. PICK before, after : before = assignment /\ after = assignment'
  OBVIOUS
<1>4. PICK s \in At(before, o) : after = Removed(before, s)
  BY <1>3 DEF TakeOff
<1>5. PICK who : who = {o}
  OBVIOUS
<1>6. states' = Anew(known, who) /\ Changed(who)
  BY <1>1, <1>5 DEF TakeOff
<1>7. s \in Slots /\ before[s] = o
  BY <1>4 DEF At
<1>8. after \in Assignments /\ NoDuplicates(after)
  BY <1>2, <1>3, <1>4, <1>7, MutatorsType, MutatorsKeepNoDuplicates
<1>9. after = [x \in Slots |-> IF x = s THEN Nobody ELSE before[x]]
  BY <1>2, <1>3, <1>4, <1>7 DEF Removed, Assignments
<1>10. Stationed(after) \subseteq DOMAIN known
  BY <1>2, <1>3, <1>9 DEF Stationed
<1>11. ASSUME NEW x \in Operators, At(after, x) # {}
       PROVE  At(after, x) # At(before, x) => x \in who
  <2>1. x # Nobody
    BY NobodyAssumption
  <2>2. CASE x = o
    <3>1. At(after, x) = {}
      BY <1>2, <1>3, <1>7, <1>9, <2>1, <2>2 DEF At, NoDuplicates
    <3> QED BY <1>11, <3>1
  <2>3. CASE x # o
    <3>1. At(after, x) = At(before, x)
      BY <1>7, <1>9, <2>1, <2>3 DEF At
    <3> QED BY <1>5, <2>3, <3>1
  <2> QED BY <2>2, <2>3
<1> QED BY <1>2, <1>3, <1>6, <1>8, <1>10, <1>11, RotationKeeps

LEMMA TradeStep ==
  ASSUME IInv, NEW s \in base.slots, NEW t \in base.slots, Trade(s, t),
         UNCHANGED <<base, hour, pc, turn, production, nextCollection, lost, told>>
  PROVE  IInv'
<1>1. PICK known : known = states
  OBVIOUS
<1>2. /\ known \in [DOMAIN known -> OpData] /\ DOMAIN known \subseteq Operators
      /\ \A x \in DOMAIN known : Accounted(known[x], hour, At(assignment, x) # {}, entered[x])
      /\ assignment \in Assignments /\ NoDuplicates(assignment) /\ Stationed(assignment) \subseteq DOMAIN known
      /\ s \in Slots /\ t \in Slots
  BY <1>1, KnownAlready
<1>3. PICK before, after : before = assignment /\ after = assignment'
  OBVIOUS
<1>4. PICK who : who = {before[s], before[t]} \ {Nobody}
  OBVIOUS
<1>5. after = Swapped(before, s, t) /\ states' = Anew(known, who) /\ Changed(who)
  <2>1. who = Traders(s, t)
    BY <1>3, <1>4 DEF Traders
  <2> QED BY <1>1, <1>3, <2>1 DEF Trade
<1>6. after \in Assignments /\ NoDuplicates(after)
  <2>1. CASE who = {}
    <3>1. before[s] = Nobody /\ before[t] = Nobody /\ before \in Assignments
      BY <1>2, <1>3, <1>4, <2>1
    <3>2. after = [before EXCEPT ![s] = before[t], ![t] = before[s]]
      BY <1>2, <1>3, <1>5, SwapExchanges
    <3>3. after = before
      BY <1>2, <3>1, <3>2 DEF Assignments
    <3> QED BY <1>2, <1>3, <3>3
  <2>2. ASSUME NEW op \in Operators PROVE after \in Assignments /\ NoDuplicates(after)
    BY <1>2, <1>3, <1>5, <2>2, MutatorsType, MutatorsKeepNoDuplicates
  <2>3. CASE who # {}
    BY <1>2, <1>3, <1>4, <2>2, <2>3 DEF Assignments
  <2> QED BY <2>1, <2>3
<1>7. after = [before EXCEPT ![s] = before[t], ![t] = before[s]]
  BY <1>2, <1>3, <1>5, SwapExchanges
<1>8. Stationed(after) \subseteq DOMAIN known
  BY <1>2, <1>3, <1>7 DEF Stationed, Assignments
<1>9. ASSUME NEW x \in Operators, At(after, x) # {}
      PROVE  At(after, x) # At(before, x) => x \in who
  <2>1. x # Nobody /\ before \in Assignments
    BY <1>2, <1>3, NobodyAssumption
  <2>2. CASE x = before[s] \/ x = before[t]
    BY <1>4, <2>1, <2>2
  <2>3. CASE x # before[t] /\ x # before[s]
    <3>1. At(after, x) = At(before, x)
      BY <1>2, <1>7, <2>1, <2>3 DEF At, Assignments
    <3> QED BY <3>1
  <2> QED BY <2>2, <2>3
<1> QED BY <1>2, <1>3, <1>5, <1>6, <1>8, <1>9, RotationKeeps

LEMMA RotateStep ==
  ASSUME IInv, Rotate
  PROVE  IInv'
<1>1. UNCHANGED <<base, hour, pc, turn, production, nextCollection, lost, told>>
  BY DEF Rotate
<1>2. \/ \E o \in Operators, s \in base.slots : MoveTo(o, s)
      \/ \E o \in Operators : TakeOff(o)
      \/ \E s, t \in base.slots : Trade(s, t)
  BY DEF Rotate
<1> QED BY <1>1, <1>2, MoveToStep, TakeOffStep, TradeStep

LEMMA InitIs == Init => IInv
<1> SUFFICES ASSUME Init PROVE IInv
  OBVIOUS
<1>1. /\ base \in Bases /\ hour = 0 /\ pc = "produce" /\ turn = 1
      /\ run = [r \in Rooms |-> NewRun] /\ depot = base.depot /\ stock = base.stock
      /\ totals = [made |-> [item \in Goods |-> 0], used |-> 0, sold |-> [item \in Goods |-> 0]]
      /\ assignment = base.crew /\ states = [o \in Stationed(base.crew) |-> NewState]
      /\ nextCollection = base.every /\ news = {} /\ lost = {} /\ told = {}
      /\ entered = [o \in Operators |-> 0]
  BY DEF Init
<1>2. base \in BaseData /\ base.rooms # <<>> /\ NoDuplicates(base.crew)
  BY <1>1, BasesAssumption
<1>3. /\ base.rooms \in Seq(RoomData) /\ base.every \in Nat /\ base.depot \in [Goods -> Nat]
      /\ base.stock \in StockData /\ base.crew \in Assignments
  BY <1>2 DEF BaseData
<1>4. turn \in Rooms
  BY <1>1, <1>2, <1>3 DEF Rooms
<1>5. NewRun \in RunData /\ NewRun.stored = 0 /\ NewRun.made = 0 /\ NewRun.orders = 0 /\ NewRun.progress = 0 /\ NewRun.full = FALSE
  BY DEF NewRun, RunData
<1>6. run \in [Rooms -> RunData] /\ \A r \in Rooms : run[r] = NewRun
  BY <1>1, <1>5
<1>7. PICK none \in [Goods -> Nat] : none = [item \in Goods |-> 0]
  <2>1. [item \in Goods |-> 0] \in [Goods -> Nat]
    OBVIOUS
  <2> QED BY <2>1, Zenon
<1>8. /\ totals \in [made : [Goods -> Nat], used : Nat, sold : [Goods -> Nat]]
      /\ totals.used = 0 /\ \A g \in Goods : totals.made[g] = 0 /\ totals.sold[g] = 0
  BY <1>1, <1>7
<1>9. /\ Stationed(assignment) = DOMAIN states /\ DOMAIN states \subseteq Operators
      /\ \A o \in DOMAIN states : states[o] = NewState /\ states \in [DOMAIN states -> OpData]
  BY <1>1, <1>3, NewStateIs DEF Stationed, Assignments
<1>10. states \in [DOMAIN states -> OpData]
  BY <1>1, NewStateIs
<1>11. entered \in [Operators -> Nat] /\ hour \in 0 .. Horizon
  BY <1>1, TimeAssumption
<1>12. TypeOK
  BY <1>1, <1>3, <1>4, <1>6, <1>8, <1>9, <1>10, <1>11 DEF TypeOK
<1>13. TrainingFits
  <2>1. \A r \in Rooms : base.rooms[r].target \in Nat
    BY <1>12, BaseIs DEF RoomData
  <2> QED BY <1>5, <1>6, <2>1 DEF TrainingFits
<1>14. MarksAre /\ LossesAreReported
  BY <1>1, <1>5, <1>6 DEF MarksAre, LossesAreReported
<1>15. HoursAddUp
  <2>1. ASSUME NEW o \in DOMAIN states
        PROVE  Accounted(states[o], hour, At(assignment, o) # {}, entered[o])
    <3>1. PICK v : v = states[o] /\ SumFunctionOnSet(v.spent, Buckets) = 0 /\ v.since = 0 /\ v.inRoom = 0
      BY <1>9, NewStateIs
    <3>2. hour = 0 /\ entered[o] = 0
      BY <1>1, <1>9
    <3> QED BY <3>1, <3>2 DEF Accounted
  <2> QED BY <1>12, <2>1, HoursAre
<1>16. NothingIsLost
  <2>1. \A r \in Rooms : OrdersOf(run)[r] = 0 /\ MadeOf(run)[r] = 0 /\ InputsOf(run)[r] = 0
    <3>1. \A r \in Rooms : base.rooms[r].input \in Nat /\ base.rooms[r].cost \in Nat
      BY <1>12, PostsAre
    <3> QED BY <1>5, <1>6, <3>1 DEF OrdersOf, MadeOf, InputsOf
  <2>2. PICK orders, made, inputs : orders = OrdersOf(run) /\ made = MadeOf(run) /\ inputs = InputsOf(run)
    OBVIOUS
  <2>3. ASSUME NEW g \in Goods
        PROVE  SumFunctionOnSet(orders, Dealing("trading", g)) = 0 /\ SumFunctionOnSet(made, Dealing("factory", g)) = 0
    <3>1. PICK posts, makers : posts = Dealing("trading", g) /\ makers = Dealing("factory", g)
      OBVIOUS
    <3>2. /\ IsFiniteSet(posts) /\ \A x \in posts : orders[x] = 0
          /\ IsFiniteSet(makers) /\ \A x \in makers : made[x] = 0
      BY <1>12, <2>1, <2>2, <3>1, PostsAre
    <3> QED BY <3>1, <3>2, TotalOfZeros
  <2>4. SumFunctionOnSet(inputs, Of({"factory"})) = 0
    <3>1. PICK makers : makers = Of({"factory"})
      OBVIOUS
    <3>2. IsFiniteSet(makers) /\ \A x \in makers : inputs[x] = 0
      BY <1>6, <1>12, <2>1, <2>2, <3>1, TermsAre
    <3> QED BY <3>1, <3>2, TotalOfZeros
  <2>5. \A g \in Goods : depot[g] = base.depot[g] + totals.made[g] - totals.sold[g] /\ depot[g] >= 0
    BY <1>1, <1>3, <1>8
  <2>6. stock.tracked => stock.left = base.stock.left - totals.used /\ stock.left >= 0
    BY <1>1, <1>3, <1>8 DEF StockData
  <2>7. Books(run, depot, stock, totals)
    BY <1>8, <2>2, <2>3, <2>4, <2>5, <2>6 DEF Books
  <2> QED BY <1>12, <2>7, BooksAre
<1> QED BY <1>1, <1>2, <1>12, <1>13, <1>14, <1>15, <1>16 DEF IInv

-----------------------------------------------------------------------------
(* The shares of the posts.                                                *)

\* Shares of one heap, in proportion to what waits and rounded down: none is
\* ahead of another by as much as one order.
LEMMA SharesDiffer ==
  ASSUME NEW a \in Nat, NEW b \in Nat, NEW h \in Nat, NEW d \in Nat \ {0}
  PROVE  ((a * h) \div d) * b <= ((b * h) \div d + 1) * a
<1>1. a * h \in Nat /\ b * h \in Nat
  BY Products
<1>2. PICK p \in Nat : p = (a * h) \div d /\ p * d <= a * h
  BY <1>1, Quotients
<1>3. PICK q \in Nat : q = (b * h) \div d + 1 /\ b * h <= q * d
  <2>1. PICK k \in Nat : k = (b * h) \div d /\ b * h < (k + 1) * d
    BY <1>1, Quotients
  <2>2. (k + 1) * d \in Nat
    BY Products
  <2> QED BY <1>1, <2>1, <2>2
<1>4. (p * d) * b <= (a * h) * b /\ (b * h) * a <= (q * d) * a
  BY <1>1, <1>2, <1>3, Products
<1>5. (p * d) * b = d * (p * b) /\ (q * d) * a = d * (q * a) /\ (a * h) * b = (b * h) * a
  OBVIOUS
<1>6. p * b \in Nat /\ q * a \in Nat /\ (b * h) * a \in Nat
  BY <1>1, Products
<1>7. d * (p * b) <= d * (q * a)
  BY <1>4, <1>5, <1>6
<1>8. PICK x, y \in Nat : x = p * b /\ y = q * a
  BY <1>6
<1>9. x <= y
  <2> SUFFICES ASSUME x >= y + 1 PROVE FALSE
    OBVIOUS
  <2>1. d * x >= d * (y + 1)
    OBVIOUS
  <2>2. d * (y + 1) = d * y + d /\ d * x \in Nat /\ d * y \in Nat
    BY Products
  <2> QED BY <1>7, <1>8, <2>1, <2>2
<1> QED BY <1>2, <1>3, <1>8, <1>9

LEMMA SalesAreFair ==
  ASSUME TypeOK, NEW runs \in [Rooms -> RunData], NEW have \in [Goods -> Nat],
         NEW p \in Of({"trading"}), NEW q \in Of({"trading"}), base.rooms[p].item = base.rooms[q].item
  PROVE  Fulfils(runs, have, p) * runs[q].pending <= (Fulfils(runs, have, q) + 1) * runs[p].pending
<1>1. p \in Rooms /\ q \in Rooms /\ base.rooms[p].kind = "trading"
  BY DEF Of
<1>2. PICK item \in Goods : item = base.rooms[p].item /\ item = base.rooms[q].item
  BY <1>1, BaseIs
<1>3. PICK a \in Nat, b \in Nat : a = runs[p].pending /\ b = runs[q].pending
  BY <1>1, DemandIs
<1>4. PICK d \in Nat : d = Demand(runs, item)
  BY DemandIs
<1>5. PICK h \in Nat : h = have[item]
  OBVIOUS
<1>6. /\ Fulfils(runs, have, p) = IF d <= h THEN a ELSE (a * h) \div d
      /\ Fulfils(runs, have, q) = IF d <= h THEN b ELSE (b * h) \div d
  BY <1>2, <1>3, <1>4, <1>5 DEF Fulfils
<1>7. CASE d <= h
  <2>1. a * b <= (b + 1) * a
    <3>1. (b + 1) * a = b * a + a /\ a * b = b * a /\ a * b \in Nat
      BY Products
    <3> QED BY <3>1
  <2> QED BY <1>3, <1>6, <1>7, <2>1
<1>8. CASE ~(d <= h)
  <2>1. ((a * h) \div d) * b <= ((b * h) \div d + 1) * a
    <3>1. d \in Nat \ {0}
      BY <1>8
    <3> QED BY <3>1, SharesDiffer
  <2> QED BY <1>3, <1>6, <1>8, <2>1
<1> QED BY <1>7, <1>8

-----------------------------------------------------------------------------
(* Theorems.                                                               *)

\* The invariant that the theorems rest on holds at every step of every run,
\* from any base, whatever the rooms make and whatever the policy does.
THEOREM Invariant == Spec => []IInv
<1>1. Init => IInv
  BY InitIs
<1>2. IInv /\ [Next]_vars => IInv'
  <2> SUFFICES ASSUME IInv, [Next]_vars PROVE IInv'
    OBVIOUS
  <2>1. CASE Produce
    BY <2>1, ProduceStep
  <2>2. CASE Fulfil
    BY <2>2, FulfilStep
  <2>3. CASE Collect
    BY <2>3, CollectStep
  <2>4. CASE AdvanceMood
    BY <2>4, MoodStep
  <2>5. CASE Rotate
    BY <2>5, RotateStep
  <2>6. CASE NextTick
    BY <2>6, NextTickStep
  <2>7. CASE UNCHANGED vars
    BY <2>7, IdleStep
  <2> QED BY <2>1, <2>2, <2>3, <2>4, <2>5, <2>6, <2>7 DEF Next
<1> QED BY <1>1, <1>2, PTL DEF Spec

\* Stores, stocks, totals and states stay what sim.rs declares them as: in
\* particular no amount ever becomes negative.
THEOREM TypeCorrect == Spec => []TypeOK
<1>1. IInv => TypeOK
  BY DEF IInv
<1> QED BY <1>1, Invariant, PTL

\* What produce_factory, collect_all and fulfil_all move is neither lost nor
\* counted twice.
THEOREM NothingLost == Spec => []NothingIsLost
<1>1. IInv => NothingIsLost
  BY DEF IInv
<1> QED BY <1>1, Invariant, PTL

\* A room is reported full if and only if it has lost output since the last
\* collection.
THEOREM LossesReported == Spec => []LossesAreReported
<1>1. IInv => LossesAreReported
  BY DEF IInv
<1> QED BY <1>1, Invariant, PTL

\* advance_mood and apply keep the hours of every operator.
THEOREM HoursAdded == Spec => []HoursAddUp
<1>1. IInv => HoursAddUp
  BY DEF IInv
<1> QED BY <1>1, Invariant, PTL

\* fulfil_all divides what is short fairly, however many posts there are.
THEOREM SharesFair == Spec => SharesAreFair
<1> DEFINE Fair == \A p, q \in Of({"trading"}) : base.rooms[p].item = base.rooms[q].item /\ pc \in {"fulfil", "collect"} =>
                     (run'[p].orders - run[p].orders) * run[q].pending
                       <= (run'[q].orders - run[q].orders + 1) * run[p].pending
<1>1. ASSUME IInv, Next PROVE Fair
  <2> SUFFICES ASSUME NEW p \in Of({"trading"}), NEW q \in Of({"trading"}),
                      base.rooms[p].item = base.rooms[q].item, pc \in {"fulfil", "collect"}
               PROVE  (run'[p].orders - run[p].orders) * run[q].pending
                        <= (run'[q].orders - run[q].orders + 1) * run[p].pending
    OBVIOUS
  <2>1. TypeOK /\ run \in [Rooms -> RunData] /\ depot \in [Goods -> Nat]
    BY <1>1 DEF IInv, TypeOK
  <2>2. /\ p \in Rooms /\ base.rooms[p].kind = "trading"
        /\ q \in Rooms /\ base.rooms[q].kind = "trading"
    BY DEF Of
  <2>3. ASSUME NEW runs \in [Rooms -> RunData], NEW have \in [Goods -> Nat], \A g \in Goods : have[g] >= depot[g],
               \A r \in Rooms : runs[r].pending = run[r].pending /\ runs[r].orders = run[r].orders,
               Sells(runs, have)
        PROVE  (run'[p].orders - run[p].orders) * run[q].pending
                 <= (run'[q].orders - run[q].orders + 1) * run[p].pending
    <3>1. Sold(runs, have)
      BY <2>1, <2>3, SellsIs
    <3>2. PICK f, g \in Nat : f = Fulfils(runs, have, p) /\ g = Fulfils(runs, have, q)
      BY <2>1, <2>2, FulfilsIs
    <3>3. run[p].orders \in Nat /\ run[q].orders \in Nat
      BY <2>1, <2>2, TermsAre
    <3>4. run'[p].orders - run[p].orders = f /\ run'[q].orders - run[q].orders = g
      BY <2>2, <2>3, <3>1, <3>2, <3>3 DEF Sold
    <3>5. f * runs[q].pending <= (g + 1) * runs[p].pending
      BY <2>1, <3>2, SalesAreFair
    <3> QED BY <2>2, <2>3, <3>4, <3>5
  <2>4. CASE Fulfil
    <3>1. \A g \in Goods : depot[g] >= depot[g]
      BY <2>1
    <3> QED BY <2>1, <2>3, <2>4, <3>1 DEF Fulfil
  <2>5. CASE Collect
    <3>1. PICK runs \in [Rooms -> RunData], have \in [Goods -> Nat], came \in [Goods -> Nat] :
            /\ runs = Emptied /\ Sells(runs, have)
            /\ \A g \in Goods : have[g] = depot[g] + came[g] /\ came[g] = Brought(g)
      BY <2>1, <2>5, CollectSells
    <3>2. \A g \in Goods : have[g] >= depot[g]
      BY <2>1, <3>1
    <3>3. \A r \in Rooms : runs[r].pending = run[r].pending /\ runs[r].orders = run[r].orders
      BY <2>1, <3>1, EmptiedIs
    <3> QED BY <2>3, <3>1, <3>2, <3>3
  <2> QED BY <1>1, <2>4, <2>5 DEF Next, Produce, AdvanceMood, Rotate, NextTick
<1>2. IInv /\ [Next]_vars => [Fair]_vars
  BY <1>1
<1> QED BY <1>2, Invariant, PTL DEF Spec, SharesAreFair

-----------------------------------------------------------------------------
(* When collections are due.                                               *)

\* No base collects more often than the simulator looks.
TicksFit == \A b \in Bases : b.every > 0 => Tick <= b.every

\* A due collection is made before another comes due.
DueInv ==
  /\ TicksFit
  /\ Periodic =>
       /\ \E n \in Nat : nextCollection = n * base.every
       /\ pc # "collect" => hour < nextCollection /\ nextCollection <= hour + base.every
       /\ pc = "collect" => nextCollection <= hour /\ hour < nextCollection + base.every

LEMMA Multiples == \A n \in Nat, e \in Nat \ {0} : (n * e) % e = 0
  OBVIOUS

LEMMA OneMore == \A n, e \in Nat : n + 1 \in Nat /\ (n + 1) * e = n * e + e
  OBVIOUS

LEMMA DueStep ==
  ASSUME IInv, DueInv, [Next]_vars
  PROVE  DueInv'
<1>0. TypeOK
  BY DEF IInv
<1>1. base' = base /\ Periodic' = Periodic
  BY DEF Next, Produce, Fulfil, Collect, AdvanceMood, Rotate, NextTick, vars, Periodic
<1>2. TicksFit'
  BY DEF DueInv, TicksFit
<1> SUFFICES ASSUME Periodic PROVE DueInv'
  BY <1>1, <1>2 DEF DueInv
<1>a. PICK e \in Nat \ {0} : e = base.every
  BY <1>0, BaseIs DEF Periodic
<1>b. PICK h \in Nat, c \in Nat, k \in Nat : h = hour /\ c = nextCollection /\ k = Span
  BY <1>0, SpanIs DEF TypeOK
<1>c. PICK n \in Nat : c = n * e
  BY <1>a, <1>b DEF DueInv
<1>3. /\ e = base.every /\ h = hour /\ c = nextCollection /\ k = Span
      /\ c = n * e
  BY <1>a, <1>b, <1>c
<1>4. k <= Tick /\ Tick <= e /\ Tick \in Nat
  <2>1. Tick <= e /\ Tick \in Int /\ Horizon - hour \in Int
    BY <1>0, <1>3, TimeAssumption DEF DueInv, TicksFit, TypeOK, Periodic
  <2>2. Span = IF Tick <= Horizon - hour THEN Tick ELSE Horizon - hour
    BY <2>1, MinOfTwo DEF Span
  <2> QED BY <1>3, <2>1, <2>2, TimeAssumption
<1>5. CASE Collect
  <2>1. pc = "collect" /\ pc' = "rotate" /\ hour' = h /\ nextCollection' = c + e
    BY <1>3, <1>5 DEF Collect, Due
  <2>2. c <= h /\ h < c + e
    BY <1>3, <2>1 DEF DueInv
  <2>3. nextCollection' = (n + 1) * e /\ n + 1 \in Nat
    <3>1. (n + 1) * e = n * e + e /\ n + 1 \in Nat
      BY ONLY OneMore, n \in Nat, e \in Nat
    <3> QED BY <1>3, <2>1, <3>1
  <2>4. hour' < nextCollection' /\ nextCollection' <= hour' + e
    BY <2>1, <2>2
  <2> QED BY <1>1, <1>2, <1>3, <2>1, <2>3, <2>4 DEF DueInv
<1>6. CASE AdvanceMood
  <2>1. /\ pc = "mood" /\ hour' = h + k /\ nextCollection' = c
        /\ pc' = IF h + k >= c THEN "collect" ELSE "rotate"
    BY <1>3, <1>6 DEF AdvanceMood
  <2>2. h < c /\ c <= h + e
    BY <1>3, <2>1 DEF DueInv
  <2>3. pc' # "collect" => hour' < nextCollection' /\ nextCollection' <= hour' + e
    BY <2>1, <2>2
  <2>4. pc' = "collect" => nextCollection' <= hour' /\ hour' < nextCollection' + e
    BY <1>4, <2>1, <2>2
  <2> QED BY <1>1, <1>2, <1>3, <2>1, <2>3, <2>4 DEF DueInv
<1>7. CASE Produce \/ Fulfil \/ Rotate \/ NextTick \/ UNCHANGED vars
  <2>1. UNCHANGED <<hour, nextCollection>> /\ (pc' = pc \/ (pc # "collect" /\ pc' # "collect"))
    <3>1. CASE Produce
      BY <3>1 DEF Produce
    <3>2. CASE Fulfil \/ Rotate \/ NextTick
      BY <3>2 DEF Fulfil, Rotate, NextTick
    <3>3. CASE UNCHANGED vars
      BY <3>3 DEF vars
    <3> QED BY <1>7, <3>1, <3>2, <3>3
  <2> QED BY <1>1, <1>2, <2>1 DEF DueInv
<1> QED BY <1>5, <1>6, <1>7 DEF Next

\* With a tick no longer than the interval, collect_every, next_collection and
\* the loop of simulate make a collection in the tick in which each multiple of
\* the interval falls, however the ticks and the interval divide.
THEOREM CollectionsOnTime == TicksFit /\ Spec => []CollectionsAreOnTime
<1>1. TicksFit /\ Init => DueInv
  <2> SUFFICES ASSUME TicksFit, Init, Periodic PROVE DueInv
    BY DEF DueInv
  <2>1. hour = 0 /\ pc = "produce" /\ nextCollection = base.every /\ base \in BaseData
    BY BasesAssumption DEF Init
  <2>2. base.every \in Nat /\ base.every > 0
    BY <2>1 DEF BaseData, Periodic
  <2>3. nextCollection = 1 * base.every
    BY <2>1, <2>2
  <2> QED BY <2>1, <2>2, <2>3 DEF DueInv
<1>2. IInv /\ DueInv /\ [Next]_vars => DueInv'
  BY DueStep
<1>3. IInv /\ DueInv => CollectionsAreOnTime
  <2> SUFFICES ASSUME IInv, DueInv, Periodic PROVE CollectionsAreOnTime
    BY DEF CollectionsAreOnTime
  <2>1. base.every \in Nat \ {0}
    BY BaseIs DEF IInv, Periodic
  <2>2. nextCollection % base.every = 0
    BY <2>1, Multiples DEF DueInv
  <2> QED BY <2>2 DEF DueInv, CollectionsAreOnTime
<1> QED BY <1>1, <1>2, <1>3, Invariant, PTL DEF Spec
=============================================================================
