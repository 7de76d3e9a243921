---------------------------- MODULE EvidenceProofs ----------------------------
(***************************************************************************)
(* What is proved of Evidence, for any agent, decisions and window: the    *)
(* score shown for a task lacks only late or overlapping evidence, a score *)
(* rests on evidence for each of its rates and is a percentage, a          *)
(* correction never raises it, and the pages agree.                        *)
(*                                                                         *)
(* Rates and pages are sums over finite sets. The induction a sum needs is *)
(* by a minimal counterexample: the subsets of a finite set are well       *)
(* founded under strict inclusion, and the statement is the set of the     *)
(* subsets that satisfy it.                                                *)
(***************************************************************************)
EXTENDS Evidence, TLAPS, FiniteSetTheorems

------------------------------------------------------------------------------
(* Induction over a finite set *)

\* Of some subsets of a finite set one contains no other.
LEMMA LeastSubset ==
  ASSUME NEW S, IsFiniteSet(S), NEW T, T \subseteq SUBSET S, T # {}
  PROVE  \E m \in T : \A n \in T : ~ (<<n, m>> \in StrictSubsetOrdering(S))
<1>1. IsWellFoundedOn(StrictSubsetOrdering(S), SUBSET S)
  <2>1. FiniteSubsetsOf(S) = SUBSET S
    BY FS_FiniteSubsetsOfFinite
  <2>2. IsWellFoundedOn(StrictSubsetOrdering(S), FiniteSubsetsOf(S))
    BY FS_StrictSubsetOrderingWellFounded
  <2> QED BY <2>1, <2>2
<1> QED BY <1>1, WFMin, Zenon

\* Induction over the subsets of a finite set, with a set for the property.
LEMMA SubsetInduction ==
  ASSUME NEW S, IsFiniteSet(S), NEW P \in SUBSET (SUBSET S),
         \A s \in SUBSET S : (\A t \in SUBSET s : t # s => t \in P) => s \in P
  PROVE  \A s \in SUBSET S : s \in P
<1> DEFINE Bad == (SUBSET S) \ P
<1>1. SUFFICES ASSUME Bad # {} PROVE FALSE
  OBVIOUS
<1>2. PICK s \in Bad : \A t \in Bad : ~ (<<t, s>> \in StrictSubsetOrdering(S))
  <2>1. Bad \subseteq SUBSET S
    OBVIOUS
  <2> HIDE DEF Bad
  <2> QED BY <1>1, <2>1, LeastSubset
<1>3. \A t \in SUBSET s : t # s => t \in P
  <2> SUFFICES ASSUME NEW t \in SUBSET s, t # s, t \notin P PROVE FALSE
    OBVIOUS
  <2>1. t \in Bad
    OBVIOUS
  <2>2. <<t, s>> \in StrictSubsetOrdering(S)
    BY DEF StrictSubsetOrdering
  <2> QED BY <1>2, <2>1, <2>2
<1> QED BY <1>2, <1>3

\* A set of subsets that has the empty one and is closed under adding an element has all.
LEMMA FiniteInduction ==
  ASSUME NEW S, IsFiniteSet(S), NEW P \in SUBSET (SUBSET S), {} \in P,
         \A s \in P : \A x \in S \ s : s \cup {x} \in P
  PROVE  S \in P
<1>1. ASSUME NEW s \in SUBSET S, \A t \in SUBSET s : t # s => t \in P
      PROVE  s \in P
  <2>1. CASE s = {}
    BY <2>1
  <2>2. CASE s # {}
    <3>1. PICK x \in s : TRUE
      BY <2>2
    <3>2. s \ {x} \in P /\ x \in S \ (s \ {x})
      BY <1>1
    <3>3. s = (s \ {x}) \cup {x}
      OBVIOUS
    <3> QED BY <3>2, <3>3
  <2> QED BY <2>1, <2>2
<1>2. \A s \in SUBSET S : s \in P
  BY <1>1, SubsetInduction
<1> QED BY <1>2

------------------------------------------------------------------------------
(* Sums over a finite set *)

\* How a sum unfolds: some element and the rest. SumFunctionOnSet is the value at S of a
\* function that satisfies IsSum.
Pick(s) == CHOOSE x \in s : TRUE
IsSum(g, f, S) ==
  g = [s \in SUBSET S |-> IF s = {} THEN 0 ELSE f[Pick(s)] + g[s \ {Pick(s)}]]

\* The element is one of the set.
LEMMA PickIn == ASSUME NEW s, s # {} PROVE Pick(s) \in s
  BY DEF Pick

\* One unfolding.
LEMMA IsSumStep ==
  ASSUME NEW S, NEW f, NEW g, IsSum(g, f, S), NEW s \in SUBSET S
  PROVE  g[s] = IF s = {} THEN 0 ELSE f[Pick(s)] + g[s \ {Pick(s)}]
  BY DEF IsSum

\* The definition of the community modules, in these terms.
LEMMA SumDef == \A f, S : SumFunctionOnSet(f, S) = (CHOOSE g : IsSum(g, f, S))[S]
  BY Zenon DEF SumFunctionOnSet, FoldFunctionOnSet, MapThenFoldSet, IsSum, Pick

\* Two functions that sum f agree wherever both are defined.
LEMMA SumsAgree ==
  ASSUME NEW S, IsFiniteSet(S), NEW f, NEW A, NEW B, S \subseteq A, S \subseteq B,
         NEW g, NEW h, IsSum(g, f, A), IsSum(h, f, B)
  PROVE  g[S] = h[S]
<1> DEFINE P == {s \in SUBSET S : g[s] = h[s]}
<1>1. ASSUME NEW s \in SUBSET S, \A t \in SUBSET s : t # s => t \in P
      PROVE  s \in P
  <2>1. /\ g[s] = IF s = {} THEN 0 ELSE f[Pick(s)] + g[s \ {Pick(s)}]
        /\ h[s] = IF s = {} THEN 0 ELSE f[Pick(s)] + h[s \ {Pick(s)}]
    <3>1. s \in SUBSET A /\ s \in SUBSET B
      OBVIOUS
    <3> QED BY <3>1, IsSumStep
  <2>2. s # {} => g[s \ {Pick(s)}] = h[s \ {Pick(s)}]
    BY <1>1, PickIn
  <2> QED BY <2>1, <2>2
<1> HIDE DEF P
<1>2. P \in SUBSET (SUBSET S)
  BY DEF P
<1>3. S \in P
  BY <1>1, <1>2, SubsetInduction
<1> QED BY <1>3 DEF P

\* There is a function that sums f.
LEMMA SumExists ==
  ASSUME NEW S, IsFiniteSet(S), NEW f
  PROVE  \E g : IsSum(g, f, S)
<1> DEFINE P == {s \in SUBSET S : \E g : IsSum(g, f, s)}
<1>1. ASSUME NEW s \in SUBSET S, \A t \in SUBSET s : t # s => t \in P
      PROVE  s \in P
  <2> DEFINE sumOf(t) == CHOOSE g : IsSum(g, f, t)
             below == [t \in SUBSET s |-> sumOf(t)[t]]
             total == [t \in SUBSET s |->
                         IF t = {} THEN 0 ELSE f[Pick(t)] + below[t \ {Pick(t)}]]
  <2>1. \A t \in SUBSET s : t # s => IsSum(sumOf(t), f, t)
    BY <1>1, Zenon
  <2>2. ASSUME NEW t \in SUBSET s, t # s
        PROVE  total[t] = below[t]
    <3>1. IsSum(sumOf(t), f, t)
      BY <2>1, <2>2
    <3>2. sumOf(t)[t] = IF t = {} THEN 0 ELSE f[Pick(t)] + sumOf(t)[t \ {Pick(t)}]
      <4>1. t \in SUBSET t
        OBVIOUS
      <4> HIDE DEF sumOf
      <4> QED BY <3>1, <4>1, IsSumStep
    <3>3. t # {} => sumOf(t)[t \ {Pick(t)}] = below[t \ {Pick(t)}]
      <4> SUFFICES ASSUME t # {} PROVE sumOf(t)[t \ {Pick(t)}] = below[t \ {Pick(t)}]
        OBVIOUS
      <4> DEFINE u == t \ {Pick(t)}
      <4>1. u \in SUBSET s /\ u \subseteq t /\ u # s
        BY PickIn
      <4>2. IsSum(sumOf(u), f, u)
        BY <2>1, <4>1
      <4>3. IsFiniteSet(u)
        BY <4>1, FS_Subset
      <4> HIDE DEF sumOf, u
      <4>4. sumOf(t)[u] = sumOf(u)[u]
        BY <3>1, <4>1, <4>2, <4>3, SumsAgree
      <4>5. below[u] = sumOf(u)[u]
        BY <4>1
      <4> QED BY <4>4, <4>5 DEF u
    <3> HIDE DEF sumOf, below
    <3>4. below[t] = sumOf(t)[t]
      BY DEF below
    <3> QED BY <3>2, <3>3, <3>4
  <2>3. \A t \in SUBSET s : t # {} => below[t \ {Pick(t)}] = total[t \ {Pick(t)}]
    <3> SUFFICES ASSUME NEW t \in SUBSET s, t # {}
                 PROVE  below[t \ {Pick(t)}] = total[t \ {Pick(t)}]
      OBVIOUS
    <3>1. t \ {Pick(t)} \in SUBSET s /\ t \ {Pick(t)} # s
      BY PickIn
    <3> HIDE DEF below, total
    <3> QED BY <2>2, <3>1
  <2>4. IsSum(total, f, s)
    <3> HIDE DEF below
    <3> QED BY <2>3 DEF IsSum
  <2> QED BY <2>4
<1> HIDE DEF P
<1>2. P \in SUBSET (SUBSET S)
  BY DEF P
<1>3. S \in P
  BY <1>1, <1>2, SubsetInduction
<1> QED BY <1>3 DEF P

\* The sum itself unfolds.
LEMMA SumUnfolds ==
  ASSUME NEW S, IsFiniteSet(S), NEW f
  PROVE  SumFunctionOnSet(f, S) =
           IF S = {} THEN 0 ELSE f[Pick(S)] + SumFunctionOnSet(f, S \ {Pick(S)})
<1> DEFINE g == CHOOSE g : IsSum(g, f, S)
           rest == S \ {Pick(S)}
           h == CHOOSE h : IsSum(h, f, rest)
<1>1. SumFunctionOnSet(f, S) = g[S] /\ SumFunctionOnSet(f, rest) = h[rest]
  BY SumDef
<1>2. IsSum(g, f, S)
  BY SumExists
<1>3. IsFiniteSet(rest)
  BY FS_Subset
<1>4. IsSum(h, f, rest)
  BY <1>3, SumExists
<1> HIDE DEF g, h
<1>5. g[rest] = h[rest]
  BY <1>2, <1>3, <1>4, SumsAgree
<1>6. g[S] = IF S = {} THEN 0 ELSE f[Pick(S)] + g[rest]
  BY <1>2, IsSumStep
<1> QED BY <1>1, <1>5, <1>6

\* A sum of integers is an integer.
LEMMA SumType ==
  ASSUME NEW S, IsFiniteSet(S), NEW f, \A x \in S : f[x] \in Int
  PROVE  SumFunctionOnSet(f, S) \in Int
<1> DEFINE P == {s \in SUBSET S : SumFunctionOnSet(f, s) \in Int}
<1>1. ASSUME NEW s \in SUBSET S, \A t \in SUBSET s : t # s => t \in P
      PROVE  s \in P
  <2>1. IsFiniteSet(s)
    BY FS_Subset
  <2>2. CASE s = {}
    BY <2>1, <2>2, SumUnfolds
  <2>3. CASE s # {}
    <3>1. Pick(s) \in s /\ s \ {Pick(s)} \in P
      BY <1>1, <2>3, PickIn
    <3>2. SumFunctionOnSet(f, s) = f[Pick(s)] + SumFunctionOnSet(f, s \ {Pick(s)})
      BY <2>1, <2>3, SumUnfolds
    <3> QED BY <3>1, <3>2
  <2> QED BY <2>2, <2>3
<1> HIDE DEF P
<1>2. P \in SUBSET (SUBSET S)
  BY DEF P
<1>3. S \in P
  BY <1>1, <1>2, SubsetInduction
<1> QED BY <1>3 DEF P

\* A sum is what any of its elements adds to the rest.
LEMMA SumTakes ==
  ASSUME NEW S, IsFiniteSet(S), NEW f, \A x \in S : f[x] \in Int
  PROVE  \A x \in S : SumFunctionOnSet(f, S) = f[x] + SumFunctionOnSet(f, S \ {x})
<1> DEFINE Sum(s) == SumFunctionOnSet(f, s)
           P == {s \in SUBSET S : \A x \in s : Sum(s) = f[x] + Sum(s \ {x})}
<1>0. \A s \in SUBSET S : Sum(s) \in Int
  <2> SUFFICES ASSUME NEW s \in SUBSET S PROVE Sum(s) \in Int
    OBVIOUS
  <2>1. IsFiniteSet(s) /\ \A x \in s : f[x] \in Int
    BY FS_Subset
  <2> QED BY <2>1, SumType
<1>1. ASSUME NEW s \in SUBSET S, \A t \in SUBSET s : t # s => t \in P
      PROVE  s \in P
  <2>0. IsFiniteSet(s)
    BY FS_Subset
  <2> SUFFICES ASSUME NEW x \in s PROVE Sum(s) = f[x] + Sum(s \ {x})
    OBVIOUS
  <2>1. PICK p \in s : Sum(s) = f[p] + Sum(s \ {p})
    BY <2>0, PickIn, SumUnfolds
  <2>3. CASE x = p
    BY <2>1, <2>3
  <2>4. CASE x # p
    <3>1. s \ {p} \in P /\ s \ {x} \in P /\ x \in s \ {p} /\ p \in s \ {x}
      BY <1>1, <2>1, <2>4
    <3>2. /\ Sum(s \ {p}) = f[x] + Sum((s \ {p}) \ {x})
          /\ Sum(s \ {x}) = f[p] + Sum((s \ {x}) \ {p})
      BY <3>1
    <3>3. (s \ {p}) \ {x} = (s \ {x}) \ {p}
      OBVIOUS
    <3>4. f[x] \in Int /\ f[p] \in Int /\ Sum((s \ {x}) \ {p}) \in Int
      BY <1>0, <2>1
    <3> HIDE DEF Sum
    <3>5. Sum(s) = f[p] + (f[x] + Sum((s \ {x}) \ {p}))
      BY <2>1, <3>2, <3>3
    <3> QED BY <3>2, <3>4, <3>5
  <2> QED BY <2>3, <2>4
<1> HIDE DEF P
<1>2. P \in SUBSET (SUBSET S)
  BY DEF P
<1>3. S \in P
  BY <1>1, <1>2, SubsetInduction
<1> QED BY <1>3 DEF P

\* The sum of nothing.
LEMMA SumEmpty == \A f : SumFunctionOnSet(f, {}) = 0
  BY SumUnfolds, FS_EmptySet

\* One more element.
LEMMA SumGrows ==
  ASSUME NEW S, IsFiniteSet(S), NEW f, NEW x, x \notin S, f[x] \in Int,
         \A y \in S : f[y] \in Int
  PROVE  /\ SumFunctionOnSet(f, S \cup {x}) = f[x] + SumFunctionOnSet(f, S)
         /\ SumFunctionOnSet(f, S) \in Int
         /\ IsFiniteSet(S \cup {x})
<1>1. IsFiniteSet(S \cup {x})
  BY FS_AddElement
<1>2. \A y \in S \cup {x} : f[y] \in Int
  OBVIOUS
<1>3. SumFunctionOnSet(f, S \cup {x}) = f[x] + SumFunctionOnSet(f, (S \cup {x}) \ {x})
  BY <1>1, <1>2, SumTakes
<1>4. (S \cup {x}) \ {x} = S
  OBVIOUS
<1> QED BY <1>1, <1>3, <1>4, SumType

\* A sum of numbers up to k.
LEMMA SumBounds ==
  ASSUME NEW S, IsFiniteSet(S), NEW f, NEW k \in Nat, \A x \in S : f[x] \in 0..k
  PROVE  SumFunctionOnSet(f, S) \in 0 .. (k * Cardinality(S))
<1> DEFINE P == {s \in SUBSET S : SumFunctionOnSet(f, s) \in 0 .. (k * Cardinality(s))}
<1>1. {} \in P
  BY SumEmpty, FS_EmptySet
<1>2. ASSUME NEW s \in P, NEW x \in S \ s
      PROVE  s \cup {x} \in P
  <2>1. /\ IsFiniteSet(s) /\ Cardinality(s) \in Nat
        /\ Cardinality(s \cup {x}) = Cardinality(s) + 1
    BY FS_Subset, FS_CardinalityType, FS_AddElement
  <2>2. \A y \in s : f[y] \in Int
    OBVIOUS
  <2>3. SumFunctionOnSet(f, s \cup {x}) = f[x] + SumFunctionOnSet(f, s)
    <3>1. x \notin s /\ f[x] \in Int
      OBVIOUS
    <3> QED BY <2>1, <2>2, <3>1, SumGrows
  <2>4. f[x] \in 0..k /\ SumFunctionOnSet(f, s) \in 0 .. (k * Cardinality(s))
    OBVIOUS
  <2>5. k * (Cardinality(s) + 1) = k * Cardinality(s) + k /\ k * Cardinality(s) \in Nat
    BY <2>1
  <2>6. f[x] + SumFunctionOnSet(f, s) \in 0 .. (k * (Cardinality(s) + 1))
    BY <2>4, <2>5
  <2> QED BY <2>1, <2>3, <2>6
<1> HIDE DEF P
<1>3. P \in SUBSET (SUBSET S)
  BY DEF P
<1>4. S \in P
  BY <1>1, <1>2, <1>3, FiniteInduction
<1> QED BY <1>4 DEF P

\* A sum depends on the values summed alone.
LEMMA SumExt ==
  ASSUME NEW S, IsFiniteSet(S), NEW f, NEW g, \A x \in S : f[x] \in Int /\ f[x] = g[x]
  PROVE  SumFunctionOnSet(f, S) = SumFunctionOnSet(g, S)
<1> DEFINE P == {s \in SUBSET S : SumFunctionOnSet(f, s) = SumFunctionOnSet(g, s)}
<1>1. {} \in P
  BY SumEmpty
<1>2. ASSUME NEW s \in P, NEW x \in S \ s
      PROVE  s \cup {x} \in P
  <2>1. IsFiniteSet(s)
    BY FS_Subset
  <2>2. SumFunctionOnSet(f, s \cup {x}) = f[x] + SumFunctionOnSet(f, s)
    BY <2>1, SumGrows
  <2>3. \A y \in s : g[y] \in Int
    OBVIOUS
  <2>4. SumFunctionOnSet(g, s \cup {x}) = g[x] + SumFunctionOnSet(g, s)
    BY <2>1, <2>3, SumGrows
  <2> QED BY <2>2, <2>4
<1> HIDE DEF P
<1>3. P \in SUBSET (SUBSET S)
  BY DEF P
<1>4. S \in P
  BY <1>1, <1>2, <1>3, FiniteInduction
<1> QED BY <1>4 DEF P

\* The sum of two disjoint sets.
LEMMA SumUnion ==
  ASSUME NEW A, NEW B, IsFiniteSet(A), IsFiniteSet(B), A \cap B = {}, NEW f,
         \A x \in A \cup B : f[x] \in Int
  PROVE  SumFunctionOnSet(f, A \cup B) = SumFunctionOnSet(f, A) + SumFunctionOnSet(f, B)
<1> DEFINE Sum(s) == SumFunctionOnSet(f, s)
           P == {s \in SUBSET B : Sum(A \cup s) = Sum(A) + Sum(s)}
<1>0. Sum(A) \in Int /\ A \cup {} = A
  BY SumType
<1>1. {} \in P
  BY <1>0, SumEmpty
<1>2. ASSUME NEW s \in P, NEW x \in B \ s
      PROVE  s \cup {x} \in P
  <2>1. IsFiniteSet(s) /\ IsFiniteSet(A \cup s)
    BY FS_Subset, FS_Union
  <2>2. Sum(s \cup {x}) = f[x] + Sum(s) /\ Sum(s) \in Int
    BY <2>1, SumGrows
  <2>3. x \notin A \cup s /\ \A y \in A \cup s : f[y] \in Int
    OBVIOUS
  <2>4. Sum((A \cup s) \cup {x}) = f[x] + Sum(A \cup s)
    BY <2>1, <2>3, SumGrows
  <2>5. (A \cup s) \cup {x} = A \cup (s \cup {x}) /\ f[x] \in Int
    OBVIOUS
  <2>6. Sum(A \cup s) = Sum(A) + Sum(s)
    OBVIOUS
  <2> HIDE DEF Sum
  <2>7. Sum(A \cup (s \cup {x})) = f[x] + (Sum(A) + Sum(s))
    BY <2>4, <2>5, <2>6
  <2>8. Sum(A \cup (s \cup {x})) = Sum(A) + Sum(s \cup {x})
    BY <1>0, <2>2, <2>5, <2>7
  <2> QED BY <2>8
<1> HIDE DEF P
<1>3. P \in SUBSET (SUBSET B)
  BY DEF P
<1>4. B \in P
  BY <1>1, <1>2, <1>3, FiniteInduction
<1> QED BY <1>4 DEF P

\* A sum of naturals is a natural.
LEMMA SumNotNegative ==
  ASSUME NEW S, IsFiniteSet(S), NEW f, \A x \in S : f[x] \in Nat
  PROVE  SumFunctionOnSet(f, S) \in Nat
<1> DEFINE P == {s \in SUBSET S : SumFunctionOnSet(f, s) \in Nat}
<1>1. {} \in P
  BY SumEmpty
<1>2. ASSUME NEW s \in P, NEW x \in S \ s
      PROVE  s \cup {x} \in P
  <2>1. IsFiniteSet(s) /\ (\A y \in s : f[y] \in Int) /\ x \notin s /\ f[x] \in Int
    BY FS_Subset
  <2>2. SumFunctionOnSet(f, s \cup {x}) = f[x] + SumFunctionOnSet(f, s)
    BY <2>1, SumGrows
  <2>3. f[x] \in Nat /\ SumFunctionOnSet(f, s) \in Nat
    OBVIOUS
  <2> QED BY <2>2, <2>3
<1> HIDE DEF P
<1>3. P \in SUBSET (SUBSET S)
  BY DEF P
<1>4. S \in P
  BY <1>1, <1>2, <1>3, FiniteInduction
<1> QED BY <1>4 DEF P

\* A sum of ones counts.
LEMMA SumOfOnes ==
  ASSUME NEW S, IsFiniteSet(S), NEW f, \A x \in S : f[x] = 1
  PROVE  SumFunctionOnSet(f, S) = Cardinality(S)
<1> DEFINE P == {s \in SUBSET S : SumFunctionOnSet(f, s) = Cardinality(s)}
<1>1. {} \in P
  BY SumEmpty, FS_EmptySet
<1>2. ASSUME NEW s \in P, NEW x \in S \ s
      PROVE  s \cup {x} \in P
  <2>1. IsFiniteSet(s) /\ (\A y \in s : f[y] \in Int) /\ x \notin s /\ f[x] \in Int
    BY FS_Subset
  <2>2. SumFunctionOnSet(f, s \cup {x}) = f[x] + SumFunctionOnSet(f, s)
    BY <2>1, SumGrows
  <2>3. Cardinality(s \cup {x}) = Cardinality(s) + 1 /\ Cardinality(s) \in Nat
    BY <2>1, FS_AddElement, FS_CardinalityType
  <2>4. f[x] = 1 /\ SumFunctionOnSet(f, s) = Cardinality(s)
    OBVIOUS
  <2> QED BY <2>2, <2>3, <2>4
<1> HIDE DEF P
<1>3. P \in SUBSET (SUBSET S)
  BY DEF P
<1>4. S \in P
  BY <1>1, <1>2, <1>3, FiniteInduction
<1> QED BY <1>4 DEF P

\* The sums over disjoint parts add up to the sum over the whole.
LEMMA PartsAddUp ==
  ASSUME NEW K, IsFiniteSet(K), NEW part, DOMAIN part = K, NEW f, NEW total,
         \A k \in K : IsFiniteSet(part[k]) /\ \A x \in part[k] : f[x] \in Int,
         \A k, l \in K : k # l => part[k] \cap part[l] = {},
         \A k \in K : total[k] = SumFunctionOnSet(f, part[k]),
         NEW whole, \A x : x \in whole <=> \E k \in K : x \in part[k]
  PROVE  IsFiniteSet(whole) /\ SumFunctionOnSet(total, K) = SumFunctionOnSet(f, whole)
<1> DEFINE All(s) == UNION {part[k] : k \in s}
           P == {s \in SUBSET K : /\ IsFiniteSet(All(s))
                                  /\ SumFunctionOnSet(total, s) = SumFunctionOnSet(f, All(s))}
<1>1. {} \in P
  <2>1. All({}) = {}
    OBVIOUS
  <2> HIDE DEF All
  <2> QED BY <2>1, SumEmpty, FS_EmptySet
<1>2. ASSUME NEW s \in P, NEW x \in K \ s
      PROVE  s \cup {x} \in P
  <2>1. All(s \cup {x}) = All(s) \cup part[x] /\ All(s) \cap part[x] = {}
    OBVIOUS
  <2>2. (\A y \in All(s) \cup part[x] : f[y] \in Int)
    OBVIOUS
  <2>3. IsFiniteSet(All(s)) /\ IsFiniteSet(part[x]) /\ IsFiniteSet(s)
        /\ SumFunctionOnSet(total, s) = SumFunctionOnSet(f, All(s))
    BY FS_Subset
  <2>4. \A k \in K : total[k] \in Int
    <3> SUFFICES ASSUME NEW k \in K PROVE SumFunctionOnSet(f, part[k]) \in Int
      OBVIOUS
    <3>1. IsFiniteSet(part[k]) /\ \A y \in part[k] : f[y] \in Int
      OBVIOUS
    <3> QED BY <3>1, SumType
  <2> HIDE DEF All
  <2>5. SumFunctionOnSet(total, s \cup {x}) = total[x] + SumFunctionOnSet(total, s)
        /\ SumFunctionOnSet(total, s) \in Int
    <3>1. x \notin s /\ total[x] \in Int /\ \A y \in s : total[y] \in Int
      BY <2>4
    <3> QED BY <2>3, <3>1, SumGrows
  <2>6. SumFunctionOnSet(f, All(s) \cup part[x])
          = SumFunctionOnSet(f, All(s)) + SumFunctionOnSet(f, part[x])
    BY <2>1, <2>2, <2>3, SumUnion
  <2>7. IsFiniteSet(All(s) \cup part[x])
    BY <2>3, FS_Union
  <2>8. total[x] = SumFunctionOnSet(f, part[x]) /\ total[x] \in Int
    BY <2>4
  <2>9. SumFunctionOnSet(total, s \cup {x}) = SumFunctionOnSet(f, All(s \cup {x}))
    <3>1. SumFunctionOnSet(f, All(s \cup {x}))
            = SumFunctionOnSet(f, All(s)) + SumFunctionOnSet(f, part[x])
      BY <2>1, <2>6
    <3>2. SumFunctionOnSet(total, s) = SumFunctionOnSet(f, All(s))
      BY <2>3
    <3> QED BY <2>5, <2>8, <3>1, <3>2
  <2> QED BY <2>1, <2>7, <2>9
<1>3. P \in SUBSET (SUBSET K)
  OBVIOUS
<1> HIDE DEF P
<1>4. K \in P
  BY <1>1, <1>2, <1>3, FiniteInduction
<1>5. whole = All(K)
  OBVIOUS
<1> QED BY <1>4, <1>5 DEF P

\* The sizes of disjoint parts add up to the size of the whole.
LEMMA SizesAddUp ==
  ASSUME NEW K, IsFiniteSet(K), NEW part, DOMAIN part = K, NEW size,
         \A k \in K : IsFiniteSet(part[k]) /\ size[k] = Cardinality(part[k]),
         \A k, l \in K : k # l => part[k] \cap part[l] = {},
         NEW all, \A x : x \in all <=> \E k \in K : x \in part[k]
  PROVE  SumFunctionOnSet(size, K) = Cardinality(all)
<1> DEFINE one == [x \in all |-> 1]
<1>1. \A k \in K : part[k] \subseteq all
  OBVIOUS
<1>2. \A x \in all : one[x] = 1
  OBVIOUS
<1> HIDE DEF one
<1>3. \A k \in K : size[k] = SumFunctionOnSet(one, part[k])
  <2> SUFFICES ASSUME NEW k \in K PROVE Cardinality(part[k]) = SumFunctionOnSet(one, part[k])
    OBVIOUS
  <2>1. IsFiniteSet(part[k]) /\ \A x \in part[k] : one[x] = 1
    BY <1>1, <1>2
  <2> QED BY <2>1, SumOfOnes
<1>4. \A k \in K : IsFiniteSet(part[k]) /\ \A x \in part[k] : one[x] \in Int
  BY <1>1, <1>2
<1>5. IsFiniteSet(all) /\ SumFunctionOnSet(size, K) = SumFunctionOnSet(one, all)
  BY <1>3, <1>4, PartsAddUp
<1>6. SumFunctionOnSet(one, all) = Cardinality(all)
  BY <1>2, <1>5, SumOfOnes
<1> QED BY <1>5, <1>6

\* The sizes of two disjoint parts.
LEMMA TwoPartsAddUp ==
  ASSUME NEW S, IsFiniteSet(S), NEW A, NEW B, S = A \cup B, A \cap B = {}
  PROVE  /\ Cardinality(S) = Cardinality(A) + Cardinality(B)
         /\ Cardinality(A) \in Nat /\ Cardinality(B) \in Nat
<1>1. IsFiniteSet(A) /\ IsFiniteSet(B)
  BY FS_Subset
<1>2. Cardinality(S) = Cardinality(A) + Cardinality(B) - Cardinality({})
  BY <1>1, FS_Union
<1>3. Cardinality(A) \in Nat /\ Cardinality(B) \in Nat /\ Cardinality({}) = 0
  BY <1>1, FS_CardinalityType, FS_EmptySet
<1> QED BY <1>2, <1>3

------------------------------------------------------------------------------
(* Ratios *)

\* A row of the decisions.
DecisionType ==
  [id : Ids, task : Tasks, at : Times, verdict : Verdicts, outcome : Outcomes \cup {Absent},
   confidence : {NoConfidence} \cup 0..10, source : Sources, usd : {NoUsd} \cup Nat]

\* The proper ratios up to k.
UpTo(k) == {q \in [num : Nat, den : Nat \ {0}] : q.num <= k * q.den}

\* Multiplication by a natural keeps the order.
LEMMA TimesGrows ==
  ASSUME NEW a \in Int, NEW b \in Int, NEW c \in Nat, a <= b
  PROVE  a * c <= b * c /\ c * a <= c * b
<1>1. (b - a) * c >= 0
  <2>1. b - a \in Nat
    OBVIOUS
  <2> QED BY <2>1
<1>2. (b - a) * c = b * c - a * c
  OBVIOUS
<1> QED BY <1>1, <1>2

\* A part over its whole; also where the whole is 0.
LEMMA RatioType ==
  ASSUME NEW n \in Nat, NEW d \in Nat, n <= d
  PROVE  Ratio(n, d) \in UpTo(1)
  BY DEF Ratio, UpTo

\* A weighted rate is at most its weight,
LEMMA WeightedType ==
  ASSUME NEW w \in Nat, NEW q \in UpTo(1)
  PROVE  Weighted(w, q) \in UpTo(w)
<1>1. q \in [num : Nat, den : Nat \ {0}] /\ q.num <= q.den
  BY DEF UpTo
<1>2. w * q.num \in Nat /\ w * q.num <= w * q.den
  BY <1>1, TimesGrows
<1>3. Weighted(w, q) \in [num : Nat, den : Nat \ {0}]
      /\ Weighted(w, q).num = w * q.num /\ Weighted(w, q).den = q.den
  BY <1>1, <1>2 DEF Weighted
<1> HIDE DEF Weighted
<1> QED BY <1>2, <1>3 DEF UpTo

\* what a rate leaves of 1 is a rate,
LEMMA ComplementType ==
  ASSUME NEW q \in UpTo(1)
  PROVE  Complement(q) \in UpTo(1)
<1>1. q \in [num : Nat, den : Nat \ {0}] /\ q.num <= q.den
  BY DEF UpTo
<1>2. q.den - q.num \in Nat /\ q.den - q.num <= q.den
  BY <1>1
<1>3. Complement(q) \in [num : Nat, den : Nat \ {0}]
      /\ Complement(q).num = q.den - q.num /\ Complement(q).den = q.den
  BY <1>1, <1>2 DEF Complement
<1> QED BY <1>1, <1>2, <1>3 DEF UpTo

\* and the bounds of a sum add up.
LEMMA PlusType ==
  ASSUME NEW k \in Nat, NEW l \in Nat, NEW q \in UpTo(k), NEW s \in UpTo(l)
  PROVE  Plus(q, s) \in UpTo(k + l)
<1>1. /\ q \in [num : Nat, den : Nat \ {0}] /\ q.num <= k * q.den
      /\ s \in [num : Nat, den : Nat \ {0}] /\ s.num <= l * s.den
  BY DEF UpTo
<1>2. ASSUME NEW a \in Nat, NEW b \in Nat \ {0}, NEW c \in Nat, NEW d \in Nat \ {0},
             a <= k * b, c <= l * d
      PROVE  /\ a * d + c * b \in Nat /\ b * d \in Nat \ {0}
             /\ a * d + c * b <= (k + l) * (b * d)
  <2>1. a * d <= (k * b) * d /\ c * b <= (l * d) * b
    <3>1. k * b \in Int /\ l * d \in Int
      OBVIOUS
    <3> QED BY <1>2, <3>1, TimesGrows
  <2>2. (k + l) * (b * d) = (k * b) * d + (l * d) * b
    OBVIOUS
  <2>3. b * d > 0
    OBVIOUS
  <2>4. a * d \in Nat /\ c * b \in Nat /\ b * d \in Nat
    OBVIOUS
  <2>5. (k * b) * d \in Nat /\ (l * d) * b \in Nat
    OBVIOUS
  <2> QED BY <2>1, <2>2, <2>3, <2>4, <2>5
<1>3. Plus(q, s) = [num |-> q.num * s.den + s.num * q.den, den |-> q.den * s.den]
  BY DEF Plus
<1>4. /\ q.num * s.den + s.num * q.den \in Nat /\ q.den * s.den \in Nat \ {0}
      /\ q.num * s.den + s.num * q.den <= (k + l) * (q.den * s.den)
  <2>1. q.num \in Nat /\ q.den \in Nat \ {0} /\ s.num \in Nat /\ s.den \in Nat \ {0}
    BY <1>1
  <2> QED BY <1>1, <1>2, <2>1
<1> QED BY <1>3, <1>4 DEF UpTo

\* Ratios that compare: a numerator of at least 0 over a denominator above 0.
Ratios == [num : Nat, den : Nat \ {0}]

\* Rates and their sums are ratios.
LEMMA UpToAreRatios == \A k : UpTo(k) \subseteq Ratios
  BY DEF UpTo, Ratios

\* Ratios are closed under addition.
LEMMA PlusIsRatio ==
  ASSUME NEW q \in Ratios, NEW s \in Ratios
  PROVE  Plus(q, s) \in Ratios
<1>1. \A a \in Nat, b \in Nat \ {0}, c \in Nat, d \in Nat \ {0} :
        a * d + c * b \in Nat /\ b * d \in Nat \ {0}
  <2> SUFFICES ASSUME NEW a \in Nat, NEW b \in Nat \ {0}, NEW c \in Nat, NEW d \in Nat \ {0}
               PROVE  a * d + c * b \in Nat /\ b * d \in Nat \ {0}
    OBVIOUS
  <2>1. a * d \in Nat /\ c * b \in Nat /\ b * d \in Nat /\ b * d > 0
    OBVIOUS
  <2> QED BY <2>1
<1>2. q.num \in Nat /\ q.den \in Nat \ {0} /\ s.num \in Nat /\ s.den \in Nat \ {0}
  BY DEF Ratios
<1> QED BY <1>1, <1>2 DEF Plus, Ratios

\* A higher rate weighs more,
LEMMA WeightedIsMonotone ==
  ASSUME NEW w \in Nat, NEW q \in Ratios, NEW s \in Ratios, NotAbove(q, s)
  PROVE  /\ NotAbove(Weighted(w, q), Weighted(w, s))
         /\ Weighted(w, q) \in Ratios /\ Weighted(w, s) \in Ratios
<1>1. q.num \in Nat /\ q.den \in Nat \ {0} /\ s.num \in Nat /\ s.den \in Nat \ {0}
  BY DEF Ratios
<1>2. \A x \in Ratios : /\ Weighted(w, x) \in Ratios
                        /\ Weighted(w, x).num = w * x.num /\ Weighted(w, x).den = x.den
  BY DEF Weighted, Ratios
<1>3. q.num * s.den \in Int /\ s.num * q.den \in Int /\ q.num * s.den <= s.num * q.den
  BY <1>1 DEF NotAbove
<1>4. w * (q.num * s.den) <= w * (s.num * q.den)
  BY <1>3, TimesGrows
<1>5. (w * q.num) * s.den = w * (q.num * s.den) /\ (w * s.num) * q.den = w * (s.num * q.den)
  BY <1>1
<1> QED BY <1>2, <1>4, <1>5 DEF NotAbove

\* leaves less of 1,
LEMMA ComplementIsAntitone ==
  ASSUME NEW q \in UpTo(1), NEW s \in UpTo(1), NotAbove(q, s)
  PROVE  NotAbove(Complement(s), Complement(q))
<1>1. q.num \in Nat /\ q.den \in Nat \ {0} /\ s.num \in Nat /\ s.den \in Nat \ {0}
  BY DEF UpTo
<1>2. /\ Complement(q).num = q.den - q.num /\ Complement(q).den = q.den
      /\ Complement(s).num = s.den - s.num /\ Complement(s).den = s.den
  BY <1>1 DEF Complement, UpTo
<1>3. q.num * s.den <= s.num * q.den
  BY DEF NotAbove
<1>4. /\ (s.den - s.num) * q.den = s.den * q.den - s.num * q.den
      /\ (q.den - q.num) * s.den = s.den * q.den - q.num * s.den
  BY <1>1
<1>5. s.den * q.den \in Int /\ s.num * q.den \in Int /\ q.num * s.den \in Int
  BY <1>1
<1>6. (s.den - s.num) * q.den <= (q.den - q.num) * s.den
  BY <1>3, <1>4, <1>5
<1> QED BY <1>2, <1>6 DEF NotAbove

\* and adds more.
LEMMA PlusIsMonotone ==
  ASSUME NEW q \in Ratios, NEW s \in Ratios, NEW p \in Ratios, NEW t \in Ratios,
         NotAbove(q, p), NotAbove(s, t)
  PROVE  NotAbove(Plus(q, s), Plus(p, t))
<1>1. ASSUME NEW a \in Nat, NEW b \in Nat, NEW c \in Nat, NEW d \in Nat,
             NEW e \in Nat, NEW f \in Nat, NEW g \in Nat, NEW h \in Nat,
             a * f <= e * b, c * h <= g * d
      PROVE  (a * d + c * b) * (f * h) <= (e * h + g * f) * (b * d)
  <2>1. (a * f) * (d * h) <= (e * b) * (d * h)
    <3>1. a * f \in Int /\ e * b \in Int /\ d * h \in Nat
      OBVIOUS
    <3> QED BY <1>1, <3>1, TimesGrows
  <2>2. (c * h) * (b * f) <= (g * d) * (b * f)
    <3>1. c * h \in Int /\ g * d \in Int /\ b * f \in Nat
      OBVIOUS
    <3> QED BY <1>1, <3>1, TimesGrows
  <2>3. /\ (a * d + c * b) * (f * h) = (a * f) * (d * h) + (c * h) * (b * f)
        /\ (e * h + g * f) * (b * d) = (e * b) * (d * h) + (g * d) * (b * f)
    OBVIOUS
  <2>4. /\ (a * f) * (d * h) \in Int /\ (e * b) * (d * h) \in Int
        /\ (c * h) * (b * f) \in Int /\ (g * d) * (b * f) \in Int
    OBVIOUS
  <2> QED BY <2>1, <2>2, <2>3, <2>4
<1>2. /\ q.num \in Nat /\ q.den \in Nat /\ s.num \in Nat /\ s.den \in Nat
      /\ p.num \in Nat /\ p.den \in Nat /\ t.num \in Nat /\ t.den \in Nat
  BY DEF Ratios
<1>3. /\ Plus(q, s).num = q.num * s.den + s.num * q.den /\ Plus(q, s).den = q.den * s.den
      /\ Plus(p, t).num = p.num * t.den + t.num * p.den /\ Plus(p, t).den = p.den * t.den
  BY DEF Plus
<1>4. q.num * p.den <= p.num * q.den /\ s.num * t.den <= t.num * s.den
  BY DEF NotAbove
<1>5. (q.num * s.den + s.num * q.den) * (p.den * t.den)
        <= (p.num * t.den + t.num * p.den) * (q.den * s.den)
  BY <1>1, <1>2, <1>4
<1> QED BY <1>3, <1>5 DEF NotAbove

------------------------------------------------------------------------------
(* The rates of a set of decisions *)

\* What the rates are defined for: finitely many rows.
Readable(r) == r \subseteq DecisionType /\ IsFiniteSet(r)

\* In halves.
LEMMA CreditType ==
  ASSUME NEW d \in DecisionType
  PROVE  Credit(d) \in 0..2
<1>1. d.outcome \in {"SUCCESS", "PARTIAL", "FAILURE", Absent}
  BY DEF DecisionType, Outcomes
<1> QED BY <1>1 DEF Credit, OutcomeCredit, Absent

\* The sum of a function is its sum over its domain.
LEMMA SumOfFunction ==
  \A f, S : DOMAIN f = S => SumFunction(f) = SumFunctionOnSet(f, S)
  BY DEF SumFunction

\* The decisions a rate counts are again finitely many rows.
LEMMA PartsAreReadable ==
  ASSUME NEW r, Readable(r)
  PROVE  /\ Readable(Graded(r)) /\ Readable(Engaged(r)) /\ Readable(Confident(r))
         /\ \A kinds : Readable(Among(r, kinds))
<1>1. /\ Graded(r) \subseteq r /\ Engaged(r) \subseteq r /\ Confident(r) \subseteq r
      /\ \A kinds : Among(r, kinds) \subseteq r
  BY DEF Graded, Engaged, Confident, Among
<1>2. ASSUME NEW s, s \subseteq r PROVE Readable(s)
  BY <1>2, FS_Subset DEF Readable
<1> HIDE DEF Readable
<1> QED BY <1>1, <1>2

\* Each rate lies between 0 and 1, whatever was decided.
LEMMA AccuracyType ==
  ASSUME NEW r, Readable(r)
  PROVE  DeriveAccuracy(r) \in UpTo(1)
<1> DEFINE g == Graded(r)
           f == [d \in g |-> Credit(d)]
<1>1. Readable(g)
  BY PartsAreReadable
<1> HIDE DEF g
<1>2. \A d \in g : f[d] \in 0..2
  BY <1>1, CreditType DEF Readable
<1>3. SumFunction(f) = SumFunctionOnSet(f, g)
  BY SumOfFunction
<1> HIDE DEF f
<1>4. SumFunctionOnSet(f, g) \in 0 .. (2 * Cardinality(g))
  <2>1. 2 \in Nat /\ IsFiniteSet(g)
    BY <1>1 DEF Readable
  <2> QED BY <1>2, <2>1, SumBounds
<1>5. Cardinality(g) \in Nat
  BY <1>1, FS_CardinalityType DEF Readable
<1>6. Ratio(SumFunction(f), 2 * Cardinality(g)) \in UpTo(1)
  <2>1. /\ SumFunction(f) \in Nat /\ 2 * Cardinality(g) \in Nat
        /\ SumFunction(f) <= 2 * Cardinality(g)
    BY <1>3, <1>4, <1>5
  <2> QED BY <2>1, RatioType
<1> QED BY <1>6 DEF DeriveAccuracy, f, g

\* The average confidence.
LEMMA ConfidenceType ==
  ASSUME NEW r, Readable(r)
  PROVE  DeriveConfidence(r) \in UpTo(1)
<1> DEFINE c == Confident(r)
           f == [d \in c |-> d.confidence]
<1>1. Readable(c)
  BY PartsAreReadable
<1>2. \A d \in c : f[d] \in 0..10
  BY <1>1 DEF Readable, Confident, DecisionType
<1> HIDE DEF c
<1>3. SumFunction(f) = SumFunctionOnSet(f, c)
  BY SumOfFunction
<1> HIDE DEF f
<1>4. SumFunctionOnSet(f, c) \in 0 .. (10 * Cardinality(c))
  <2>1. 10 \in Nat /\ IsFiniteSet(c)
    BY <1>1 DEF Readable
  <2> QED BY <1>2, <2>1, SumBounds
<1>5. Cardinality(c) \in Nat
  BY <1>1, FS_CardinalityType DEF Readable
<1>6. Ratio(SumFunction(f), 10 * Cardinality(c)) \in UpTo(1)
  <2>1. /\ SumFunction(f) \in Nat /\ 10 * Cardinality(c) \in Nat
        /\ SumFunction(f) <= 10 * Cardinality(c)
    BY <1>3, <1>4, <1>5
  <2> QED BY <2>1, RatioType
<1> QED BY <1>6 DEF DeriveConfidence, f, c

\* A part of a finite set.
LEMMA ShareType ==
  ASSUME NEW s, NEW S, IsFiniteSet(S), s \subseteq S
  PROVE  Ratio(Cardinality(s), Cardinality(S)) \in UpTo(1)
<1>1. /\ Cardinality(S) \in Nat /\ Cardinality(s) \in Nat
      /\ Cardinality(s) <= Cardinality(S)
  BY FS_Subset, FS_CardinalityType
<1> QED BY <1>1, RatioType

\* The rate of overrides.
LEMMA OverrideType ==
  ASSUME NEW r, Readable(r)
  PROVE  DeriveOverride(r) \in UpTo(1)
<1>1. IsFiniteSet(Engaged(r))
  BY PartsAreReadable DEF Readable
<1>2. Among(r, {"OVERRIDDEN"}) \subseteq Engaged(r)
  BY DEF Among, Engaged
<1> QED BY <1>1, <1>2, ShareType DEF DeriveOverride

\* The rate of escalations.
LEMMA EscalationType ==
  ASSUME NEW r, Readable(r)
  PROVE  DeriveEscalation(r) \in UpTo(1)
<1>1. Among(r, {"ESCALATED"}) \subseteq r /\ IsFiniteSet(r)
  BY DEF Among, Readable
<1> QED BY <1>1, ShareType DEF DeriveEscalation

\* The weights add up to 100: the score is a percentage.
LEMMA ScoreType ==
  ASSUME NEW r, Readable(r)
  PROVE  Score(r) \in UpTo(100)
<1> DEFINE a == Weighted(40, DeriveAccuracy(r))
           c == Weighted(25, DeriveConfidence(r))
           o == Weighted(20, Complement(DeriveOverride(r)))
           e == Weighted(15, Complement(DeriveEscalation(r)))
<1>1. a \in UpTo(40) /\ c \in UpTo(25)
  BY AccuracyType, ConfidenceType, WeightedType
<1>2. o \in UpTo(20) /\ e \in UpTo(15)
  <2>1. /\ Complement(DeriveOverride(r)) \in UpTo(1)
        /\ Complement(DeriveEscalation(r)) \in UpTo(1)
    BY OverrideType, EscalationType, ComplementType
  <2> QED BY <2>1, WeightedType
<1> HIDE DEF a, c, o, e
<1>3. Plus(a, c) \in UpTo(40 + 25) /\ Plus(o, e) \in UpTo(20 + 15)
  BY <1>1, <1>2, PlusType
<1>4. Plus(Plus(a, c), Plus(o, e)) \in UpTo((40 + 25) + (20 + 15))
  <2>1. 40 + 25 \in Nat /\ 20 + 15 \in Nat
    OBVIOUS
  <2> QED BY <1>3, <2>1, PlusType
<1>5. Score(r) = Plus(Plus(a, c), Plus(o, e))
  BY DEF Score, a, c, o, e
<1>6. (40 + 25) + (20 + 15) = 100
  OBVIOUS
<1> QED BY <1>4, <1>5, <1>6

\* When the score is given.
LEMMA NothingMissing ==
  ASSUME NEW r
  PROVE  Missing(r) = {} <=>
           /\ r # {}
           /\ \E d \in r : d.outcome # Absent
           /\ Confident(r) # {}
           /\ Engaged(r) # {}
<1> DEFINE signals == {"accuracyRate", "confidenceAvg", "overrideRate", "escalationRate"}
           lacks(c) == \/ r = {}
                       \/ c = "accuracyRate" /\ \A d \in r : d.outcome = Absent
                       \/ c = "confidenceAvg" /\ Confident(r) = {}
                       \/ c = "overrideRate" /\ Engaged(r) = {}
<1>1. Missing(r) = {c \in signals : lacks(c)}
  BY DEF Missing
<1>2. Missing(r) = {} <=> \A c \in signals : ~lacks(c)
  BY <1>1
<1>3. (\A c \in signals : ~lacks(c)) <=>
         /\ ~lacks("accuracyRate") /\ ~lacks("confidenceAvg") /\ ~lacks("overrideRate")
         /\ ~lacks("escalationRate")
  OBVIOUS
<1> QED BY <1>2, <1>3

\* An engaged decision is graded: accuracy has evidence where overrides have.
LEMMA EngagedAreGraded == \A r : Engaged(r) \subseteq Graded(r)
  BY DEF Engaged, Graded, Among

\* EveryRateIsMeasured of any table of decisions.
LEMMA RatesMeasured ==
  ASSUME decisions \subseteq DecisionType, IsFiniteSet(decisions)
  PROVE  EveryRateIsMeasured
<1> SUFFICES ASSUME NEW t \in Tasks, NEW asOf \in Times,
                    ReadinessNow(t, asOf).status = "SCORED"
             PROVE  LET r == ResolvedIn(t, asOf)
                        result == ReadinessNow(t, asOf)
                    IN /\ Graded(r) # {} /\ Confident(r) # {} /\ Engaged(r) # {}
                       /\ result.score.num >= 0 /\ AtMost(result.score, 100)
  BY DEF EveryRateIsMeasured
<1> DEFINE r == ResolvedIn(t, asOf)
<1>1. Readable(r)
  <2>1. r \subseteq decisions
    BY DEF ResolvedIn, ResolvedOf, Windowed, OfTask
  <2> HIDE DEF r
  <2> QED BY <2>1, FS_Subset DEF Readable
<1>2. Missing(r) = {} /\ ReadinessNow(t, asOf).score = Score(r)
  BY DEF ReadinessNow, ComputeReadiness, ResolvedIn
<1> HIDE DEF r
<1>3. Graded(r) # {} /\ Confident(r) # {} /\ Engaged(r) # {}
  BY <1>2, NothingMissing, EngagedAreGraded
<1>4. Score(r).num >= 0 /\ AtMost(Score(r), 100)
  BY <1>1, ScoreType DEF UpTo, AtMost
<1> QED BY <1>2, <1>3, <1>4 DEF r

------------------------------------------------------------------------------
(* One decision revised *)

\* A score is at least another when each of its rates is.
LEMMA ScoreIsMonotone ==
  ASSUME NEW r, NEW b, Readable(r), Readable(b),
         NotAbove(DeriveAccuracy(r), DeriveAccuracy(b)),
         NotAbove(DeriveConfidence(r), DeriveConfidence(b)),
         NotAbove(DeriveOverride(b), DeriveOverride(r)),
         NotAbove(DeriveEscalation(b), DeriveEscalation(r))
  PROVE  NotAbove(Score(r), Score(b))
<1> DEFINE A(x) == Weighted(40, DeriveAccuracy(x))
           C(x) == Weighted(25, DeriveConfidence(x))
           O(x) == Weighted(20, Complement(DeriveOverride(x)))
           E(x) == Weighted(15, Complement(DeriveEscalation(x)))
<1>1. A(r) \in Ratios /\ A(b) \in Ratios /\ NotAbove(A(r), A(b))
  <2>1. DeriveAccuracy(r) \in Ratios /\ DeriveAccuracy(b) \in Ratios
    BY AccuracyType, UpToAreRatios
  <2> QED BY <2>1, WeightedIsMonotone
<1>2. C(r) \in Ratios /\ C(b) \in Ratios /\ NotAbove(C(r), C(b))
  <2>1. DeriveConfidence(r) \in Ratios /\ DeriveConfidence(b) \in Ratios
    BY ConfidenceType, UpToAreRatios
  <2> QED BY <2>1, WeightedIsMonotone
<1>3. O(r) \in Ratios /\ O(b) \in Ratios /\ NotAbove(O(r), O(b))
  <2>1. DeriveOverride(r) \in UpTo(1) /\ DeriveOverride(b) \in UpTo(1)
    BY OverrideType
  <2>2. /\ Complement(DeriveOverride(r)) \in Ratios /\ Complement(DeriveOverride(b)) \in Ratios
        /\ NotAbove(Complement(DeriveOverride(r)), Complement(DeriveOverride(b)))
    BY <2>1, ComplementType, ComplementIsAntitone, UpToAreRatios
  <2> QED BY <2>2, WeightedIsMonotone
<1>4. E(r) \in Ratios /\ E(b) \in Ratios /\ NotAbove(E(r), E(b))
  <2>1. DeriveEscalation(r) \in UpTo(1) /\ DeriveEscalation(b) \in UpTo(1)
    BY EscalationType
  <2>2. /\ Complement(DeriveEscalation(r)) \in Ratios /\ Complement(DeriveEscalation(b)) \in Ratios
        /\ NotAbove(Complement(DeriveEscalation(r)), Complement(DeriveEscalation(b)))
    BY <2>1, ComplementType, ComplementIsAntitone, UpToAreRatios
  <2> QED BY <2>2, WeightedIsMonotone
<1>5. /\ Score(r) = Plus(Plus(A(r), C(r)), Plus(O(r), E(r)))
      /\ Score(b) = Plus(Plus(A(b), C(b)), Plus(O(b), E(b)))
  BY DEF Score
<1> HIDE DEF A, C, O, E
<1>6. /\ NotAbove(Plus(A(r), C(r)), Plus(A(b), C(b)))
      /\ NotAbove(Plus(O(r), E(r)), Plus(O(b), E(b)))
  BY <1>1, <1>2, <1>3, <1>4, PlusIsMonotone
<1>7. /\ Plus(A(r), C(r)) \in Ratios /\ Plus(A(b), C(b)) \in Ratios
      /\ Plus(O(r), E(r)) \in Ratios /\ Plus(O(b), E(b)) \in Ratios
  BY <1>1, <1>2, <1>3, <1>4, PlusIsRatio
<1> QED BY <1>5, <1>6, <1>7, PlusIsMonotone

\* One element of a set replaced by another.
Swap(S, d, e) == (S \ {d}) \cup {e}

\* The number of elements stays,
LEMMA SwapKeepsCount ==
  ASSUME NEW S, IsFiniteSet(S), NEW d \in S, NEW e, e \notin S \ {d}
  PROVE  IsFiniteSet(Swap(S, d, e)) /\ Cardinality(Swap(S, d, e)) = Cardinality(S)
<1>1. /\ IsFiniteSet(S \ {d}) /\ Cardinality(S \ {d}) = Cardinality(S) - 1
      /\ Cardinality(S) \in Nat
  BY FS_RemoveElement, FS_CardinalityType
<1>2. /\ IsFiniteSet(Swap(S, d, e))
      /\ Cardinality(Swap(S, d, e)) = Cardinality(S \ {d}) + 1
  BY <1>1, FS_AddElement DEF Swap
<1> QED BY <1>1, <1>2

\* and the sum moves by what the two differ.
LEMMA SwapMovesSum ==
  ASSUME NEW S, IsFiniteSet(S), NEW d \in S, NEW e, e \notin S \ {d}, NEW f, NEW g,
         \A x \in S : f[x] \in Int, g[e] \in Int, \A x \in S \ {d} : g[x] = f[x]
  PROVE  /\ SumFunctionOnSet(f, S) \in Int
         /\ SumFunctionOnSet(g, Swap(S, d, e)) = SumFunctionOnSet(f, S) - f[d] + g[e]
<1> DEFINE rest == S \ {d}
<1>1. IsFiniteSet(rest) /\ (\A x \in rest : f[x] \in Int /\ f[x] = g[x]) /\ e \notin rest
  BY FS_RemoveElement
<1>2. SumFunctionOnSet(f, S) = f[d] + SumFunctionOnSet(f, rest)
  BY SumTakes
<1>3. SumFunctionOnSet(f, S) \in Int
  BY SumType
<1> HIDE DEF rest
<1>4. SumFunctionOnSet(f, rest) \in Int
  BY <1>1, SumType
<1>5. SumFunctionOnSet(f, rest) = SumFunctionOnSet(g, rest)
  BY <1>1, SumExt
<1>6. \A x \in rest : g[x] \in Int
  BY <1>1
<1>7. SumFunctionOnSet(g, rest \cup {e}) = g[e] + SumFunctionOnSet(g, rest)
  BY <1>1, <1>6, SumGrows
<1>8. Swap(S, d, e) = rest \cup {e} /\ f[d] \in Int
  BY DEF Swap, rest
<1> QED BY <1>2, <1>3, <1>4, <1>5, <1>7, <1>8

\* Over one denominator the numerators compare.
LEMMA EqualNotAbove ==
  ASSUME NEW a \in Int, NEW b \in Int, NEW m \in Nat, a <= b
  PROVE  NotAbove(Ratio(a, m), Ratio(b, m))
<1>1. a * m <= b * m
  BY TimesGrows
<1> QED BY <1>1 DEF NotAbove, Ratio

\* Rows stay rows.
LEMMA SwapIsReadable ==
  ASSUME NEW r, Readable(r), NEW d \in r, NEW e \in DecisionType
  PROVE  Readable(Swap(r, d, e))
<1>1. IsFiniteSet(r \ {d})
  BY FS_RemoveElement DEF Readable
<1>2. IsFiniteSet(Swap(r, d, e))
  BY <1>1, FS_AddElement DEF Swap
<1> QED BY <1>2 DEF Readable, Swap

\* Both are graded: the grades of the others stay.
LEMMA AccuracyOfSwap ==
  ASSUME NEW r, Readable(r), NEW d \in r, NEW e \in DecisionType, e \notin r \ {d},
         d.verdict # "ESCALATED", e.verdict # "ESCALATED", Credit(d) <= Credit(e)
  PROVE  /\ NotAbove(DeriveAccuracy(r), DeriveAccuracy(Swap(r, d, e)))
         /\ Credit(d) = Credit(e) => DeriveAccuracy(Swap(r, d, e)) = DeriveAccuracy(r)
<1> DEFINE g == Graded(r)
           h == Graded(Swap(r, d, e))
           f == [x \in g |-> Credit(x)]
           k == [x \in h |-> Credit(x)]
<1>1. h = Swap(g, d, e) /\ d \in g /\ e \notin g \ {d}
  BY DEF Graded, Among, Swap
<1>2. Readable(g) /\ IsFiniteSet(g)
  BY PartsAreReadable DEF Readable
<1>3. /\ DeriveAccuracy(r) = Ratio(SumFunction(f), 2 * Cardinality(g))
      /\ DeriveAccuracy(Swap(r, d, e)) = Ratio(SumFunction(k), 2 * Cardinality(h))
  BY DEF DeriveAccuracy
<1> HIDE DEF g, h
<1>4. e \in h /\ g \ {d} \subseteq h
  BY <1>1 DEF Swap
<1>5. f[d] = Credit(d) /\ k[e] = Credit(e) /\ \A x \in g \ {d} : k[x] = f[x]
  BY <1>1, <1>4
<1>6. Credit(d) \in Int /\ Credit(e) \in Int /\ \A x \in g : f[x] \in Int
  <2>1. \A x \in DecisionType : Credit(x) \in Int
    BY CreditType
  <2> QED BY <1>1, <1>2, <2>1 DEF Readable
<1>7. SumFunction(f) = SumFunctionOnSet(f, g) /\ SumFunction(k) = SumFunctionOnSet(k, h)
  BY SumOfFunction
<1> HIDE DEF f, k
<1>8. /\ SumFunctionOnSet(f, g) \in Int
      /\ SumFunctionOnSet(k, Swap(g, d, e)) = SumFunctionOnSet(f, g) - f[d] + k[e]
  BY <1>1, <1>2, <1>5, <1>6, SwapMovesSum
<1>9. Cardinality(h) = Cardinality(g) /\ Cardinality(g) \in Nat
  BY <1>1, <1>2, SwapKeepsCount, FS_CardinalityType
<1>10. /\ SumFunction(k) = SumFunction(f) - Credit(d) + Credit(e)
       /\ SumFunction(f) \in Int
  BY <1>1, <1>5, <1>7, <1>8
<1>11. NotAbove(DeriveAccuracy(r), DeriveAccuracy(Swap(r, d, e)))
  <2>1. /\ SumFunction(f) <= SumFunction(k) /\ SumFunction(k) \in Int
        /\ 2 * Cardinality(g) \in Nat
    BY <1>6, <1>9, <1>10
  <2> QED BY <1>3, <1>9, <1>10, <2>1, EqualNotAbove
<1>12. ASSUME Credit(d) = Credit(e)
       PROVE  DeriveAccuracy(Swap(r, d, e)) = DeriveAccuracy(r)
  <2>1. SumFunction(k) = SumFunction(f)
    BY <1>6, <1>10, <1>12
  <2> QED BY <1>3, <1>9, <2>1
<1> QED BY <1>11, <1>12

\* Confidence does not depend on the verdict or the outcome.
LEMMA ConfidenceOfSwap ==
  ASSUME NEW r, Readable(r), NEW d \in r, NEW e \in DecisionType, e \notin r \ {d},
         e.confidence = d.confidence
  PROVE  /\ DeriveConfidence(Swap(r, d, e)) = DeriveConfidence(r)
         /\ Confident(r) # {} => Confident(Swap(r, d, e)) # {}
<1> DEFINE c == Confident(r)
           h == Confident(Swap(r, d, e))
           f == [x \in c |-> x.confidence]
           k == [x \in h |-> x.confidence]
<1>1. Readable(c) /\ IsFiniteSet(c)
  BY PartsAreReadable DEF Readable
<1>2. /\ DeriveConfidence(r) = Ratio(SumFunction(f), 10 * Cardinality(c))
      /\ DeriveConfidence(Swap(r, d, e)) = Ratio(SumFunction(k), 10 * Cardinality(h))
  BY DEF DeriveConfidence
<1>3. CASE d.confidence = NoConfidence
  <2>1. h = c
    BY <1>3 DEF Confident, Swap
  <2>2. f = k
    BY <2>1
  <2> QED BY <1>2, <2>1, <2>2
<1>4. CASE d.confidence # NoConfidence
  <2>1. h = Swap(c, d, e) /\ d \in c /\ e \notin c \ {d}
    BY <1>4 DEF Confident, Swap
  <2>0. \A x \in c : x.confidence \in Int
    BY <1>1 DEF Readable, Confident, DecisionType, NoConfidence
  <2> HIDE DEF c, h
  <2>2. e \in h /\ c \ {d} \subseteq h
    BY <2>1 DEF Swap
  <2>3. /\ f[d] = k[e] /\ (\A x \in c \ {d} : k[x] = f[x])
        /\ (\A x \in c : f[x] \in Int) /\ k[e] \in Int
    BY <2>0, <2>1, <2>2
  <2>4. SumFunction(f) = SumFunctionOnSet(f, c) /\ SumFunction(k) = SumFunctionOnSet(k, h)
    BY SumOfFunction
  <2> HIDE DEF f, k
  <2>5. /\ SumFunctionOnSet(f, c) \in Int
        /\ SumFunctionOnSet(k, Swap(c, d, e)) = SumFunctionOnSet(f, c) - f[d] + k[e]
    BY <1>1, <2>1, <2>3, SwapMovesSum
  <2>6. Cardinality(h) = Cardinality(c)
    BY <1>1, <2>1, SwapKeepsCount
  <2>7. SumFunction(k) = SumFunction(f)
    BY <2>1, <2>3, <2>4, <2>5
  <2>8. h # {}
    BY <2>2
  <2> QED BY <1>2, <2>6, <2>7, <2>8 DEF c, h
<1> QED BY <1>3, <1>4

\* Nor do escalations when neither decision is escalated.
LEMMA EscalationOfSwap ==
  ASSUME NEW r, Readable(r), NEW d \in r, NEW e \in DecisionType, e \notin r \ {d},
         d.verdict # "ESCALATED", e.verdict # "ESCALATED"
  PROVE  DeriveEscalation(Swap(r, d, e)) = DeriveEscalation(r)
<1>1. Among(Swap(r, d, e), {"ESCALATED"}) = Among(r, {"ESCALATED"})
  BY DEF Among, Swap
<1>2. Cardinality(Swap(r, d, e)) = Cardinality(r)
  BY SwapKeepsCount DEF Readable
<1> QED BY <1>1, <1>2 DEF DeriveEscalation

\* Accepting what a human overrode, or what failed, lowers the rate of overrides.
LEMMA OverrideOfAccepted ==
  ASSUME NEW r, Readable(r), NEW d \in r, NEW e \in DecisionType, e \notin r \ {d},
         d.verdict \in {"OVERRIDDEN", "FAILED"}, e.verdict = "ACCEPTED", Engaged(r) # {}
  PROVE  NotAbove(DeriveOverride(Swap(r, d, e)), DeriveOverride(r))
<1> DEFINE o == Among(r, {"OVERRIDDEN"})
           p == Among(Swap(r, d, e), {"OVERRIDDEN"})
           g == Engaged(r)
           h == Engaged(Swap(r, d, e))
<1>1. IsFiniteSet(o) /\ IsFiniteSet(g)
  BY PartsAreReadable DEF Readable
<1>2. p \subseteq o
  BY DEF Among, Swap
<1>3. /\ Cardinality(p) <= Cardinality(o) /\ Cardinality(p) \in Nat /\ Cardinality(o) \in Nat
      /\ Cardinality(g) \in Nat /\ Cardinality(g) # 0
  BY <1>1, <1>2, FS_Subset, FS_CardinalityType, FS_EmptySet
<1>4. Cardinality(h) \in Nat /\ Cardinality(g) <= Cardinality(h)
  <2>1. CASE d.verdict = "OVERRIDDEN"
    <3>1. h = Swap(g, d, e) /\ d \in g /\ e \notin g \ {d}
      BY <2>1 DEF Engaged, Among, Swap
    <3> HIDE DEF g, h
    <3>2. Cardinality(h) = Cardinality(g)
      BY <1>1, <3>1, SwapKeepsCount
    <3> QED BY <1>3, <3>2
  <2>2. CASE d.verdict = "FAILED"
    <3>1. h = g \cup {e}
      BY <2>2 DEF Engaged, Among, Swap
    <3> HIDE DEF g, h
    <3>2. IsFiniteSet(h)
      BY <1>1, <3>1, FS_AddElement
    <3>3. g \subseteq h
      BY <3>1
    <3> QED BY <3>2, <3>3, FS_Subset, FS_CardinalityType
  <2> QED BY <2>1, <2>2
<1>5. /\ DeriveOverride(r) = Ratio(Cardinality(o), Cardinality(g))
      /\ DeriveOverride(Swap(r, d, e)) = Ratio(Cardinality(p), Cardinality(h))
  BY DEF DeriveOverride
<1> HIDE DEF o, p, g, h
<1>6. Cardinality(p) * Cardinality(g) <= Cardinality(o) * Cardinality(h)
  <2>1. Cardinality(p) * Cardinality(g) <= Cardinality(o) * Cardinality(g)
    BY <1>3, TimesGrows
  <2>2. Cardinality(o) * Cardinality(g) <= Cardinality(o) * Cardinality(h)
    BY <1>3, <1>4, TimesGrows
  <2>3. /\ Cardinality(p) * Cardinality(g) \in Int /\ Cardinality(o) * Cardinality(g) \in Int
        /\ Cardinality(o) * Cardinality(h) \in Int
    BY <1>3, <1>4
  <2> QED BY <2>1, <2>2, <2>3
<1>7. Cardinality(h) # 0
  BY <1>3, <1>4
<1> QED BY <1>3, <1>5, <1>6, <1>7 DEF NotAbove, Ratio

\* An overridden decision stays overridden whatever came of it.
LEMMA OverrideOfRescued ==
  ASSUME NEW r, Readable(r), NEW d \in r, NEW e \in DecisionType, e \notin r \ {d},
         d.verdict = "OVERRIDDEN", e.verdict = "OVERRIDDEN"
  PROVE  DeriveOverride(Swap(r, d, e)) = DeriveOverride(r)
<1> DEFINE o == Among(r, {"OVERRIDDEN"})
           g == Engaged(r)
<1>1. IsFiniteSet(o) /\ IsFiniteSet(g)
  BY PartsAreReadable DEF Readable
<1>2. /\ Among(Swap(r, d, e), {"OVERRIDDEN"}) = Swap(o, d, e) /\ d \in o /\ e \notin o \ {d}
      /\ Engaged(Swap(r, d, e)) = Swap(g, d, e) /\ d \in g /\ e \notin g \ {d}
  BY DEF Among, Engaged, Swap
<1> HIDE DEF o, g
<1>3. /\ Cardinality(Swap(o, d, e)) = Cardinality(o)
      /\ Cardinality(Swap(g, d, e)) = Cardinality(g)
  BY <1>1, <1>2, SwapKeepsCount
<1> QED BY <1>2, <1>3 DEF DeriveOverride, o, g

\* Ratios compare with themselves.
LEMMA NotAboveItself ==
  ASSUME NEW q \in Ratios PROVE NotAbove(q, q)
<1>1. q.num * q.den \in Int
  BY DEF Ratios
<1> QED BY <1>1 DEF NotAbove

\* OverridesNeverFlatter of any table of decisions whose ids are unique.
LEMMA NoFlattery ==
  ASSUME decisions \subseteq DecisionType, IsFiniteSet(decisions),
         \A d, e \in decisions : d.id = e.id => d = e
  PROVE  OverridesNeverFlatter
<1> SUFFICES ASSUME NEW t \in Tasks, NEW asOf \in Times, NEW r, r = ResolvedIn(t, asOf),
                    Missing(r) = {}
             PROVE
         /\ \A d \in Among(r, {"OVERRIDDEN", "FAILED"}) :
              LET better == (r \ {d}) \cup {[d EXCEPT !.verdict = "ACCEPTED"]}
              IN /\ Missing(better) = {}
                 /\ NotAbove(DeriveAccuracy(r), DeriveAccuracy(better))
                 /\ NotAbove(DeriveOverride(better), DeriveOverride(r))
                 /\ NotAbove(Score(r), Score(better))
         /\ \A d \in Among(r, {"OVERRIDDEN"}), outcome \in Outcomes :
              LET other == (r \ {d}) \cup {[d EXCEPT !.outcome = outcome]}
              IN Score(other) = Score(r)
  BY DEF OverridesNeverFlatter
<1>1. r \subseteq decisions
  BY DEF ResolvedIn, ResolvedOf, Windowed, OfTask
<1>2. Readable(r)
  BY <1>1, FS_Subset DEF Readable
<1>3. \A d \in r : d \in DecisionType /\ \A x \in r \ {d} : x.id # d.id
  BY <1>1
<1>4. r # {} /\ (\E d \in r : d.outcome # Absent) /\ Confident(r) # {} /\ Engaged(r) # {}
  BY NothingMissing
<1>5. ASSUME NEW d \in Among(r, {"OVERRIDDEN", "FAILED"}),
             NEW better, better = (r \ {d}) \cup {[d EXCEPT !.verdict = "ACCEPTED"]}
      PROVE  /\ Missing(better) = {}
             /\ NotAbove(DeriveAccuracy(r), DeriveAccuracy(better))
             /\ NotAbove(DeriveOverride(better), DeriveOverride(r))
             /\ NotAbove(Score(r), Score(better))
  <2> DEFINE e == [d EXCEPT !.verdict = "ACCEPTED"]
  <2>1. d \in r /\ d.verdict \in {"OVERRIDDEN", "FAILED"}
    BY DEF Among
  <2>2. /\ e \in DecisionType /\ e.verdict = "ACCEPTED" /\ e.id = d.id
        /\ e.confidence = d.confidence /\ e.outcome = d.outcome
    BY <1>3, <2>1 DEF DecisionType, Verdicts
  <2>3. better = Swap(r, d, e)
    BY <1>5 DEF Swap
  <2> HIDE DEF e
  <2>4. e \notin r \ {d}
    BY <1>3, <2>1, <2>2
  <2>5. Credit(d) <= Credit(e)
    <3>1. d.outcome \in {"SUCCESS", "PARTIAL", "FAILURE", Absent}
      BY <1>3, <2>1 DEF DecisionType, Outcomes
    <3> QED BY <2>1, <2>2, <3>1 DEF Credit, OutcomeCredit, Absent
  <2>6. Readable(better)
    BY <1>2, <2>1, <2>2, <2>3, SwapIsReadable
  <2>7. NotAbove(DeriveAccuracy(r), DeriveAccuracy(better))
    BY <1>2, <2>1, <2>2, <2>3, <2>4, <2>5, AccuracyOfSwap
  <2>8. DeriveConfidence(better) = DeriveConfidence(r) /\ Confident(better) # {}
    BY <1>2, <1>4, <2>1, <2>2, <2>3, <2>4, ConfidenceOfSwap
  <2>9. NotAbove(DeriveOverride(better), DeriveOverride(r))
    BY <1>2, <1>4, <2>1, <2>2, <2>3, <2>4, OverrideOfAccepted
  <2>10. DeriveEscalation(better) = DeriveEscalation(r)
    BY <1>2, <2>1, <2>2, <2>3, <2>4, EscalationOfSwap
  <2>11. Missing(better) = {}
    <3>1. e \in better /\ better # {}
      BY <2>3 DEF Swap
    <3>2. e \in Engaged(better)
      BY <2>2, <3>1 DEF Engaged, Among
    <3>3. \E x \in better : x.outcome # Absent
      BY <1>4, <2>2, <2>3 DEF Swap
    <3> QED BY <2>8, <3>1, <3>2, <3>3, NothingMissing
  <2>12. NotAbove(Score(r), Score(better))
    <3>1. DeriveConfidence(r) \in Ratios /\ DeriveEscalation(r) \in Ratios
      BY <1>2, ConfidenceType, EscalationType, UpToAreRatios
    <3>2. /\ NotAbove(DeriveConfidence(r), DeriveConfidence(better))
          /\ NotAbove(DeriveEscalation(better), DeriveEscalation(r))
      BY <2>8, <2>10, <3>1, NotAboveItself
    <3> QED BY <1>2, <2>6, <2>7, <2>9, <3>2, ScoreIsMonotone
  <2> QED BY <2>7, <2>9, <2>11, <2>12
<1>6. ASSUME NEW d \in Among(r, {"OVERRIDDEN"}), NEW outcome \in Outcomes,
             NEW other, other = (r \ {d}) \cup {[d EXCEPT !.outcome = outcome]}
      PROVE  Score(other) = Score(r)
  <2> DEFINE e == [d EXCEPT !.outcome = outcome]
  <2>1. d \in r /\ d.verdict = "OVERRIDDEN"
    BY DEF Among
  <2>2. /\ e \in DecisionType /\ e.verdict = "OVERRIDDEN" /\ e.id = d.id
        /\ e.confidence = d.confidence
    BY <1>3, <2>1 DEF DecisionType
  <2>3. other = Swap(r, d, e)
    BY <1>6 DEF Swap
  <2> HIDE DEF e
  <2>4. e \notin r \ {d}
    BY <1>3, <2>1, <2>2
  <2>5. Credit(d) = 0 /\ Credit(e) = 0
    BY <2>1, <2>2 DEF Credit
  <2>6. DeriveAccuracy(other) = DeriveAccuracy(r)
    BY <1>2, <2>1, <2>2, <2>3, <2>4, <2>5, AccuracyOfSwap
  <2>7. DeriveConfidence(other) = DeriveConfidence(r)
    BY <1>2, <2>1, <2>2, <2>3, <2>4, ConfidenceOfSwap
  <2>8. DeriveOverride(other) = DeriveOverride(r)
    BY <1>2, <2>1, <2>2, <2>3, <2>4, OverrideOfRescued
  <2>9. DeriveEscalation(other) = DeriveEscalation(r)
    BY <1>2, <2>1, <2>2, <2>3, <2>4, EscalationOfSwap
  <2> QED BY <2>6, <2>7, <2>8, <2>9 DEF Score
<1> QED BY <1>5, <1>6

------------------------------------------------------------------------------
(* The pages *)

\* Six buckets.
LEMMA BucketsAreFinite == IsFiniteSet(Buckets)
<1>1. IsFiniteSet({"PENDING", "ACCEPTED"})
  <2>1. IsFiniteSet({"PENDING"})
    BY FS_Singleton
  <2>2. IsFiniteSet({"PENDING"} \cup {"ACCEPTED"})
    BY <2>1, FS_AddElement
  <2>3. {"PENDING", "ACCEPTED"} = {"PENDING"} \cup {"ACCEPTED"}
    OBVIOUS
  <2> QED BY <2>2, <2>3
<1>2. IsFiniteSet({"PENDING", "ACCEPTED"} \cup {"OVERRIDDEN"})
  BY <1>1, FS_AddElement
<1>3. IsFiniteSet(({"PENDING", "ACCEPTED"} \cup {"OVERRIDDEN"}) \cup {"ESCALATED"})
  BY <1>2, FS_AddElement
<1>4. Verdicts =
        (({"PENDING", "ACCEPTED"} \cup {"OVERRIDDEN"}) \cup {"ESCALATED"}) \cup {"FAILED"}
  BY DEF Verdicts
<1>5. IsFiniteSet(Verdicts)
  BY <1>3, <1>4, FS_AddElement
<1> QED BY <1>5, FS_AddElement DEF Buckets

\* The window of the pages is the window of the score.
LEMMA OneWindow ==
  ASSUME NEW t, NEW asOf
  PROVE  /\ {d \in OfTask(decisions, t) : asOf - WindowDays <= d.at /\ d.at <= asOf}
              = Windowed(OfTask(decisions, t), asOf)
         /\ Windowed(OfTask(decisions, t), asOf) \subseteq OfTask(decisions, t)
         /\ OfTask(decisions, t) \subseteq decisions
  BY DEF Windowed, InWindow, OfTask

\* The figures of a task against those of its score.
LEMMA TaskFigures ==
  ASSUME Readable(decisions), NEW t \in Tasks, NEW asOf \in Times
  PROVE  LET view == Visibility(t, asOf)
             result == ReadinessNow(t, asOf)
             unjudged == {d \in Windowed(OfTask(decisions, t), asOf) :
                            d.verdict = "PENDING" /\ d.outcome # Absent}
         IN /\ view.windowVolume = result.eventCount
            /\ view.windowResolved = result.resolvedCount + Cardinality(unjudged)
            /\ SumFunction(view.mix) = view.windowVolume
<1> DEFINE w == Windowed(OfTask(decisions, t), asOf)
           unjudged == {d \in w : d.verdict = "PENDING" /\ d.outcome # Absent}
           part == [b \in Buckets |-> {d \in w : b \in Bucket(d)}]
           size == [b \in Buckets |-> Cardinality({d \in w : b \in Bucket(d)})]
<1>1. w \subseteq DecisionType /\ IsFiniteSet(w)
  <2>1. w \subseteq decisions
    BY OneWindow
  <2> HIDE DEF w
  <2> QED BY <2>1, FS_Subset DEF Readable
<1>2. /\ Visibility(t, asOf).mix = size
      /\ Visibility(t, asOf).windowVolume = Cardinality(w)
      /\ Visibility(t, asOf).windowResolved = Cardinality(ResolvedRows(w))
  <2>1. w = {d \in OfTask(decisions, t) : asOf - WindowDays <= d.at /\ d.at <= asOf}
    BY OneWindow
  <2> HIDE DEF w
  <2> QED BY <2>1 DEF Visibility
<1>3. /\ ReadinessNow(t, asOf).eventCount = Cardinality(w)
      /\ ReadinessNow(t, asOf).resolvedCount = Cardinality(ResolvedOf(w))
  BY DEF ReadinessNow, ComputeReadiness
<1> HIDE DEF w
<1>4. Cardinality(ResolvedRows(w)) = Cardinality(ResolvedOf(w)) + Cardinality(unjudged)
  <2>1. /\ ResolvedRows(w) = ResolvedOf(w) \cup unjudged
        /\ ResolvedOf(w) \cap unjudged = {} /\ ResolvedRows(w) \subseteq w
    BY DEF ResolvedRows, ResolvedOf, Status
  <2>2. IsFiniteSet(ResolvedRows(w))
    BY <1>1, <2>1, FS_Subset
  <2> HIDE DEF unjudged
  <2> QED BY <2>1, <2>2, TwoPartsAddUp
<1>5. SumFunction(size) = Cardinality(w)
  <2>1. \A d \in w :
          Bucket(d) = {"OBSERVED"} \/ (d.verdict \in Verdicts /\ Bucket(d) = {d.verdict})
    BY <1>1 DEF Bucket, DecisionType
  <2>2. \A b, c \in Buckets : b # c => part[b] \cap part[c] = {}
    BY <2>1
  <2>3. \A d : d \in w <=> \E b \in Buckets : d \in part[b]
    <3>1. \A d \in w : \E b \in Buckets : b \in Bucket(d)
      BY <2>1 DEF Buckets
    <3> QED BY <3>1
  <2>4. \A b \in Buckets : part[b] \subseteq w /\ size[b] = Cardinality(part[b])
    OBVIOUS
  <2>5. SumFunction(size) = SumFunctionOnSet(size, Buckets)
    BY SumOfFunction
  <2>8. DOMAIN part = Buckets
    OBVIOUS
  <2> HIDE DEF part, size
  <2>6. \A b \in Buckets : IsFiniteSet(part[b]) /\ size[b] = Cardinality(part[b])
    BY <1>1, <2>4, FS_Subset
  <2>7. SumFunctionOnSet(size, Buckets) = Cardinality(w)
    BY <2>2, <2>3, <2>6, <2>8, BucketsAreFinite, SizesAddUp
  <2> QED BY <2>5, <2>7
<1> QED BY <1>2, <1>3, <1>4, <1>5 DEF w

\* The decisions whose cost is known.
Priced(ds) == {d \in ds : d.usd # NoUsd}

\* The fields of CostOf.
LEMMA CostFields ==
  \A ds : /\ CostOf(ds).decisionCount = Cardinality(ds)
          /\ CostOf(ds).usd = SumFunction([d \in Priced(ds) |-> d.usd])
          /\ CostOf(ds).hasCostSignal = (Priced(ds) # {})
  BY DEF CostOf, Priced

\* The tasks divide the decisions.
LEMMA PartsByTask ==
  ASSUME Readable(decisions), NEW shadow \in SUBSET Tasks
  PROVE  /\ \A t \in shadow : OfTask(decisions, t) \subseteq decisions
         /\ \A t \in shadow : IsFiniteSet(OfTask(decisions, t))
         /\ \A t, u \in shadow : t # u => OfTask(decisions, t) \cap OfTask(decisions, u) = {}
         /\ \A d : d \in decisions <=> \E t \in Tasks : d \in OfTask(decisions, t)
<1>1. \A t \in shadow : OfTask(decisions, t) \subseteq decisions
  BY DEF OfTask
<1>2. \A t \in shadow : IsFiniteSet(OfTask(decisions, t))
  BY <1>1, FS_Subset DEF Readable
<1>3. \A t, u \in shadow : t # u => OfTask(decisions, t) \cap OfTask(decisions, u) = {}
  BY DEF OfTask
<1>4. \A d : d \in decisions <=> \E t \in Tasks : d \in OfTask(decisions, t)
  <2>1. \A d \in decisions : d.task \in Tasks
    BY DEF Readable, DecisionType
  <2> QED BY <2>1 DEF OfTask
<1> QED BY <1>1, <1>2, <1>3, <1>4

\* The figures of the head of the dashboard against those of its tasks.
LEMMA AgentFigures ==
  ASSUME Readable(decisions), IsFiniteSet(Tasks), NEW shadow \in SUBSET Tasks
  PROVE  LET org == Summary(shadow)
             CostOfTask(t) == CostOf(OfTask(decisions, t))
         IN /\ org.decisionCount = Registry.decisionCount
            /\ org.decisionCount = SumFunction([t \in Tasks |-> Visibility(t, 0).totalVolume])
            /\ org.usdSpend = SumFunction([t \in Tasks |-> CostOfTask(t).usd])
            /\ org.hasCostSignal = \E t \in Tasks : CostOfTask(t).hasCostSignal
            /\ org.roi.savings \in 0..(org.roi.volume * HumanCost * org.decisionCount)
<1> DEFINE part == [t \in Tasks |-> OfTask(decisions, t)]
           sizes == [t \in Tasks |-> Visibility(t, 0).totalVolume]
           costs == [t \in Tasks |-> CostOf(OfTask(decisions, t)).usd]
           bill == [t \in Tasks |-> Priced(OfTask(decisions, t))]
           usd == [d \in Priced(decisions) |-> d.usd]
           volumes == [t \in shadow |-> CostOf(OfTask(decisions, t)).decisionCount]
<1>1. /\ Summary(shadow).decisionCount = Cardinality(decisions)
      /\ Registry.decisionCount = Cardinality(decisions)
      /\ Summary(shadow).usdSpend = SumFunction(usd)
      /\ Summary(shadow).hasCostSignal = (Priced(decisions) # {})
      /\ Summary(shadow).roi = Roi(shadow)
  <2> HIDE DEF usd
  <2>1. CostOf(decisions).usd = SumFunction(usd)
    BY CostFields DEF usd
  <2> QED BY <2>1, CostFields DEF Summary, Registry
<1>2. SumFunction(sizes) = Cardinality(decisions)
  <2>1. \A t \in Tasks : IsFiniteSet(part[t]) /\ sizes[t] = Cardinality(part[t])
    BY PartsByTask DEF Visibility
  <2>2. \A t, u \in Tasks : t # u => part[t] \cap part[u] = {}
    BY PartsByTask
  <2>3. \A d : d \in decisions <=> \E t \in Tasks : d \in part[t]
    BY PartsByTask
  <2>4. SumFunction(sizes) = SumFunctionOnSet(sizes, Tasks)
    BY SumOfFunction
  <2>5. DOMAIN part = Tasks
    OBVIOUS
  <2> HIDE DEF part, sizes
  <2> QED BY <2>1, <2>2, <2>3, <2>4, <2>5, SizesAddUp
<1>3. /\ IsFiniteSet(Priced(decisions))
      /\ SumFunction(usd) = SumFunctionOnSet(usd, Priced(decisions))
      /\ \A d \in Priced(decisions) : usd[d] \in Nat
      /\ \A d \in Priced(decisions) : usd[d] = d.usd
  <2>1. IsFiniteSet(Priced(decisions))
    <3>1. Priced(decisions) \subseteq decisions
      BY DEF Priced
    <3> QED BY <3>1, FS_Subset DEF Readable
  <2>2. \A d \in Priced(decisions) : d.usd \in Nat
    BY DEF Priced, Readable, DecisionType, NoUsd
  <2> QED BY <2>1, <2>2, SumOfFunction
<1>4. SumFunction(costs) = SumFunction(usd)
  <2>1. ASSUME NEW t \in Tasks
        PROVE  /\ bill[t] \subseteq Priced(decisions) /\ IsFiniteSet(bill[t])
               /\ (\A d \in bill[t] : usd[d] \in Int)
               /\ costs[t] = SumFunctionOnSet(usd, bill[t])
    <3> DEFINE b == Priced(OfTask(decisions, t))
               f == [d \in b |-> d.usd]
    <3>1. b \subseteq Priced(decisions)
      BY DEF Priced, OfTask
    <3>2. bill[t] = b /\ costs[t] = SumFunction(f)
      BY CostFields
    <3>3. IsFiniteSet(b) /\ \A d \in b : usd[d] \in Int /\ f[d] = usd[d]
      <4> HIDE DEF usd
      <4>1. \A d \in b : f[d] = d.usd
        OBVIOUS
      <4> HIDE DEF b, f
      <4> QED BY <1>3, <3>1, <4>1, FS_Subset
    <3>4. SumFunction(f) = SumFunctionOnSet(f, b)
      BY SumOfFunction
    <3> HIDE DEF b, f, usd, bill, costs
    <3>5. SumFunctionOnSet(usd, b) = SumFunctionOnSet(f, b)
      BY <3>3, SumExt
    <3> QED BY <3>1, <3>2, <3>3, <3>4, <3>5
  <2>2. \A t, u \in Tasks : t # u => bill[t] \cap bill[u] = {}
    BY DEF Priced, OfTask
  <2>3. \A d : d \in Priced(decisions) <=> \E t \in Tasks : d \in bill[t]
    <3>1. \A d \in decisions : d.task \in Tasks
      BY DEF Readable, DecisionType
    <3> QED BY <3>1 DEF Priced, OfTask
  <2>4. SumFunction(costs) = SumFunctionOnSet(costs, Tasks)
    BY SumOfFunction
  <2>8. DOMAIN bill = Tasks
    OBVIOUS
  <2> HIDE DEF bill, costs, usd
  <2>5. \A t \in Tasks : IsFiniteSet(bill[t]) /\ \A d \in bill[t] : usd[d] \in Int
    BY <2>1
  <2>6. \A t \in Tasks : costs[t] = SumFunctionOnSet(usd, bill[t])
    BY <2>1
  <2>7. SumFunctionOnSet(costs, Tasks) = SumFunctionOnSet(usd, Priced(decisions))
    BY <2>2, <2>3, <2>5, <2>6, <2>8, PartsAddUp
  <2> QED BY <1>3, <2>4, <2>7
<1>5. (Priced(decisions) # {}) = \E t \in Tasks : CostOf(OfTask(decisions, t)).hasCostSignal
  <2>1. \A d \in decisions : d.task \in Tasks
    BY DEF Readable, DecisionType
  <2>2. (Priced(decisions) # {}) <=> \E t \in Tasks : Priced(OfTask(decisions, t)) # {}
    BY <2>1 DEF Priced, OfTask
  <2> QED BY <2>2, CostFields
<1>6. Roi(shadow).savings \in 0..(Roi(shadow).volume * HumanCost * Cardinality(decisions))
  <2> DEFINE c == Cardinality(decisions)
             u == SumFunction(usd)
             v == SumFunction(volumes)
             delta == HumanCost * c - u
             top == Max({0, delta})
  <2>1. c \in Nat /\ u \in Nat
    <3> HIDE DEF usd
    <3>1. c \in Nat
      BY FS_CardinalityType DEF Readable
    <3>2. SumFunctionOnSet(usd, Priced(decisions)) \in Nat
      BY <1>3, SumNotNegative
    <3> QED BY <1>3, <3>1, <3>2
  <2>2. v \in Nat
    <3>1. \A t \in shadow : volumes[t] \in Nat
      <4>1. \A t \in shadow : volumes[t] = Cardinality(OfTask(decisions, t))
        BY CostFields
      <4> HIDE DEF volumes
      <4> QED BY <4>1, PartsByTask, FS_CardinalityType
    <3>2. IsFiniteSet(shadow)
      BY FS_Subset
    <3>3. v = SumFunctionOnSet(volumes, shadow)
      BY SumOfFunction
    <3> HIDE DEF volumes
    <3> QED BY <3>1, <3>2, <3>3, SumNotNegative
  <2>3. Roi(shadow).volume = v /\ Roi(shadow).savings = v * top
    <3>1. CostOf(decisions).decisionCount = c /\ CostOf(decisions).usd = u
      BY CostFields
    <3> QED BY <3>1 DEF Roi
  <2> HIDE DEF c, u, v
  <2>4. top \in 0..(HumanCost * c)
    <3>1. HumanCost * c \in Nat /\ delta \in Int /\ delta <= HumanCost * c
      BY <2>1 DEF HumanCost
    <3>2. \E x \in {0, delta} : \A y \in {0, delta} : x >= y
      BY <3>1
    <3>3. top \in {0, delta} /\ \A y \in {0, delta} : top >= y
      <4> HIDE DEF delta
      <4> QED BY <3>2 DEF Max
    <3> HIDE DEF top
    <3> QED BY <3>1, <3>3
  <2> HIDE DEF top
  <2>5. v * top \in Nat /\ v * top <= v * (HumanCost * c)
    <3>1. top \in Nat /\ HumanCost * c \in Nat /\ top <= HumanCost * c
      BY <2>1, <2>4 DEF HumanCost
    <3>2. v * top \in Nat
      BY <2>2, <3>1
    <3> QED BY <2>2, <3>1, <3>2, TimesGrows
  <2>6. (v * HumanCost) * c = v * (HumanCost * c) /\ v * (HumanCost * c) \in Nat
    BY <2>1, <2>2 DEF HumanCost
  <2> QED BY <2>3, <2>5, <2>6 DEF c
<1> QED BY <1>1, <1>2, <1>4, <1>5, <1>6

\* ViewsReconcile of any table of decisions.
LEMMA FiguresReconcile ==
  ASSUME Readable(decisions), IsFiniteSet(Tasks)
  PROVE  ViewsReconcile
  BY TaskFigures, AgentFigures DEF ViewsReconcile

\* Of some decisions one is the latest.
LEMMA LatestOf ==
  ASSUME NEW S, IsFiniteSet(S), \A d \in S : d.at \in Int
  PROVE  S # {} => \E m \in S : \A d \in S : m.at >= d.at
<1> DEFINE P == {s \in SUBSET S : s # {} => \E m \in s : \A d \in s : m.at >= d.at}
<1>1. {} \in P
  OBVIOUS
<1>2. ASSUME NEW s \in P, NEW x \in S \ s
      PROVE  s \cup {x} \in P
  <2>1. CASE s = {}
    <3>1. s \cup {x} = {x} /\ x.at \in Int
      BY <2>1
    <3> QED BY <3>1
  <2>2. CASE s # {}
    <3>1. PICK m \in s : \A d \in s : m.at >= d.at
      BY <2>2
    <3>2. m.at \in Int /\ x.at \in Int /\ \A d \in s : d.at \in Int
      OBVIOUS
    <3>3. CASE m.at >= x.at
      <4>1. \A d \in s \cup {x} : m.at >= d.at
        BY <3>1, <3>3
      <4> QED BY <4>1
    <3>4. CASE x.at >= m.at
      <4>1. \A d \in s \cup {x} : x.at >= d.at
        BY <3>1, <3>2, <3>4
      <4> QED BY <4>1
    <3> QED BY <3>2, <3>3, <3>4
  <2> QED BY <2>1, <2>2
<1>3. P \in SUBSET (SUBSET S)
  OBVIOUS
<1> HIDE DEF P
<1>4. S \in P
  BY <1>1, <1>2, <1>3, FiniteInduction
<1> QED BY <1>4 DEF P

\* No decision is later than the last one seen.
LEMMA LastSeen ==
  ASSUME Readable(decisions), Times \subseteq Nat
  PROVE  /\ Registry.lastSeen \in Times \cup {NoTime}
         /\ \A d \in decisions : Registry.lastSeen # NoTime /\ d.at <= Registry.lastSeen
<1>1. \A d \in decisions : d.at \in Times /\ d.at \in Int /\ d.at # NoTime
  <2>1. \A d \in decisions : d.at \in Times
    BY DEF Readable, DecisionType
  <2>2. \A x \in Times : x \in Int /\ x # NoTime
    BY DEF NoTime
  <2> QED BY <2>1, <2>2
<1>2. Registry.lastSeen = IF SeenAt = {} THEN NoTime ELSE Max(SeenAt)
  BY DEF Registry
<1>3. CASE decisions = {}
  BY <1>2, <1>3 DEF SeenAt
<1>4. CASE decisions # {}
  <2>1. PICK m \in decisions : \A d \in decisions : m.at >= d.at
    BY <1>1, <1>4, LatestOf DEF Readable
  <2>2. m.at \in SeenAt /\ \A x \in SeenAt : m.at >= x
    BY <2>1 DEF SeenAt
  <2>3. Max(SeenAt) \in SeenAt /\ \A x \in SeenAt : Max(SeenAt) >= x
    BY <2>2 DEF Max
  <2>4. PICK n \in decisions : n.at = Max(SeenAt)
    BY <2>3 DEF SeenAt
  <2>5. \A d \in decisions : Max(SeenAt) >= d.at
    BY <2>3 DEF SeenAt
  <2>6. Registry.lastSeen = n.at
    BY <1>2, <2>2, <2>4
  <2> QED BY <1>1, <2>4, <2>5, <2>6
<1> QED BY <1>3, <1>4

\* A task none of whose decisions is resolved has nothing to score.
LEMMA ObserveOnlyIsUnscored ==
  ASSUME Readable(decisions), NEW t \in Tasks, NEW asOf \in Times,
         Fidelity(Visibility(t, asOf)) = "observe-only"
  PROVE  LET mix == Visibility(t, asOf).mix
         IN /\ ReadinessNow(t, asOf).status = "INSUFFICIENT"
            /\ mix["PENDING"] + mix["OBSERVED"] = Visibility(t, asOf).windowVolume
<1> DEFINE all == OfTask(decisions, t)
           w == Windowed(all, asOf)
<1>1. all \subseteq decisions /\ w \subseteq all
  BY OneWindow
<1>2. IsFiniteSet(all) /\ IsFiniteSet(w) /\ all \subseteq DecisionType
  <2> HIDE DEF all, w
  <2> QED BY <1>1, FS_Subset DEF Readable
<1>3. /\ Visibility(t, asOf).totalResolved = Cardinality(ResolvedRows(all))
      /\ Visibility(t, asOf).windowVolume = Cardinality(w)
      /\ Visibility(t, asOf).mix["PENDING"] = Cardinality({d \in w : "PENDING" \in Bucket(d)})
      /\ Visibility(t, asOf).mix["OBSERVED"] = Cardinality({d \in w : "OBSERVED" \in Bucket(d)})
  <2>1. w = {d \in all : asOf - WindowDays <= d.at /\ d.at <= asOf}
    BY OneWindow
  <2>2. "PENDING" \in Buckets /\ "OBSERVED" \in Buckets
    BY DEF Buckets, Verdicts
  <2> HIDE DEF w
  <2> QED BY <2>1, <2>2 DEF Visibility
<1>4. ReadinessNow(t, asOf).status =
        IF Missing(ResolvedOf(w)) = {} THEN "SCORED" ELSE "INSUFFICIENT"
  BY DEF ReadinessNow, ComputeReadiness
<1> HIDE DEF all, w
<1>5. ResolvedRows(all) = {}
  <2>1. ResolvedRows(all) \subseteq all
    BY DEF ResolvedRows
  <2>2. IsFiniteSet(ResolvedRows(all))
    BY <1>2, <2>1, FS_Subset
  <2>3. Cardinality(ResolvedRows(all)) = 0
    BY <1>3 DEF Fidelity
  <2> QED BY <2>2, <2>3, FS_EmptySet
<1>6. \A d \in w : d.verdict = "PENDING"
  BY <1>1, <1>5 DEF ResolvedRows, Status
<1>7. ResolvedOf(w) = {}
  BY <1>6 DEF ResolvedOf
<1>8. Missing(ResolvedOf(w)) # {}
  BY <1>7, NothingMissing
<1>9. Cardinality(w) = Cardinality({d \in w : "PENDING" \in Bucket(d)})
                       + Cardinality({d \in w : "OBSERVED" \in Bucket(d)})
  <2> DEFINE A == {d \in w : "PENDING" \in Bucket(d)}
             B == {d \in w : "OBSERVED" \in Bucket(d)}
  <2>1. w = A \cup B /\ A \cap B = {}
    BY <1>6 DEF Bucket
  <2> HIDE DEF A, B
  <2>2. Cardinality(w) = Cardinality(A) + Cardinality(B)
    BY <1>2, <2>1, TwoPartsAddUp
  <2> QED BY <2>2 DEF A, B
<1> QED BY <1>3, <1>4, <1>8, <1>9

\* An agent last seen before the window has no decision in it.
LEMMA IdleIsOutOfWindow ==
  ASSUME Readable(decisions), Times \subseteq Nat, WindowDays \in Nat,
         NEW t \in Tasks, NEW asOf \in Times,
         Registry.lastSeen # NoTime, ~(Registry.lastSeen >= asOf - WindowDays)
  PROVE  ReadinessNow(t, asOf).eventCount = 0
<1> DEFINE w == Windowed(OfTask(decisions, t), asOf)
<1>1. asOf \in Int /\ \A x \in Times : x \in Int
  OBVIOUS
<1>2. Registry.lastSeen \in Int /\ \A d \in decisions : d.at \in Int /\ d.at <= Registry.lastSeen
  <2>1. \A d \in decisions : d.at \in Times
    BY DEF Readable, DecisionType
  <2> QED BY <1>1, <2>1, LastSeen
<1>3. \A d \in decisions : ~(asOf - WindowDays <= d.at)
  BY <1>1, <1>2
<1>4. w = {}
  BY <1>3 DEF Windowed, InWindow, OfTask
<1>5. ReadinessNow(t, asOf).eventCount = Cardinality(w)
  BY DEF ReadinessNow, ComputeReadiness
<1> QED BY <1>4, <1>5, FS_EmptySet

\* The labels of an agent, state by state.
LEMMA LabelsRefine ==
  ASSUME Readable(decisions), Times \subseteq Nat, WindowDays \in Nat,
         NEW stored \in IdentityStates, NEW asOf \in Times
  PROVE  LET row == AdminAgentsPage(stored, asOf)
         IN /\ row.identityState = RegistryPage(stored, asOf).identityState
            /\ row.identityState =
                 IF row.displayStatus \in {"IDLE", "DEACTIVATED"} THEN "DORMANT"
                 ELSE row.displayStatus
            /\ row.displayStatus = "IDLE" =>
                 \A t \in Tasks : ReadinessNow(t, asOf).eventCount = 0
<1> DEFINE i == IdentityState(stored, asOf)
           p == DisplayStatus(stored, asOf)
           seen == Registry.lastSeen
<1>1. /\ AdminAgentsPage(stored, asOf).identityState = i
      /\ AdminAgentsPage(stored, asOf).displayStatus = p
      /\ RegistryPage(stored, asOf).identityState = i
  BY DEF AdminAgentsPage, RegistryPage
<1>2. /\ i = IF p \in {"IDLE", "DEACTIVATED"} THEN "DORMANT" ELSE p
      /\ p = "IDLE" => seen # NoTime /\ ~(seen >= asOf - WindowDays)
  <2>1. CASE stored = "RETIRED"
    <3>1. i = "RETIRED" /\ p = "RETIRED"
      BY <2>1 DEF IdentityState, DisplayStatus
    <3> QED BY <3>1
  <2>2. CASE stored = "DORMANT"
    <3>1. i = "DORMANT" /\ p = "DEACTIVATED"
      BY <2>2 DEF IdentityState, DisplayStatus
    <3> QED BY <3>1
  <2>3. CASE stored = "DISCOVERED"
    <3>1. /\ i = IF seen = NoTime THEN "DISCOVERED" ELSE "ACTIVE"
          /\ p = IF seen = NoTime THEN "DISCOVERED" ELSE "ACTIVE"
      BY <2>3 DEF IdentityState, DisplayStatus
    <3> QED BY <3>1
  <2>4. CASE stored = "ACTIVE"
    <3>1. /\ i = IF seen = NoTime \/ seen >= asOf - WindowDays THEN "ACTIVE" ELSE "DORMANT"
          /\ p = IF seen = NoTime THEN "ACTIVE"
                 ELSE IF seen >= asOf - WindowDays THEN "ACTIVE" ELSE "IDLE"
      BY <2>4 DEF IdentityState, DisplayStatus
    <3> HIDE DEF i, p, seen
    <3> QED BY <3>1
  <2> QED BY <2>1, <2>2, <2>3, <2>4 DEF IdentityStates
<1>3. p = "IDLE" => \A t \in Tasks : ReadinessNow(t, asOf).eventCount = 0
  BY <1>2, IdleIsOutOfWindow
<1> QED BY <1>1, <1>2, <1>3

\* LabelsAgree of any table of decisions.
LEMMA LabelsReconcile ==
  ASSUME Readable(decisions), Times \subseteq Nat, WindowDays \in Nat
  PROVE  LabelsAgree
<1>1. ASSUME NEW asOf \in Times, NEW t \in Tasks
      PROVE  LET row == VisibilityPage(asOf)[t]
                 mix == row.view.mix
             IN row.fidelity = "observe-only" =>
                  /\ ReadinessNow(t, asOf).status = "INSUFFICIENT"
                  /\ mix["PENDING"] + mix["OBSERVED"] = row.view.windowVolume
  <2>1. /\ VisibilityPage(asOf)[t].view = Visibility(t, asOf)
        /\ VisibilityPage(asOf)[t].fidelity = Fidelity(Visibility(t, asOf))
    BY DEF VisibilityPage
  <2> QED BY <2>1, ObserveOnlyIsUnscored
<1> QED BY <1>1, LabelsRefine DEF LabelsAgree

------------------------------------------------------------------------------
(* The invariant *)

\* The decisions are the rows of a table: finitely many, one of each id.
Table ==
  /\ decisions \subseteq DecisionType
  /\ IsFiniteSet(decisions)
  /\ \A d, e \in decisions : d.id = e.id => d = e

\* An ingest in flight.
Open(s) ==
  tx[s] \in [open : {TRUE}, write : DecisionType, at : Times, overtaken : BOOLEAN,
             result : {tx[s].result}]

Typed ==
  /\ DOMAIN newest = Tasks
  /\ \A t \in Tasks : /\ newest[t] = [at |-> newest[t].at, results |-> newest[t].results]
                      /\ newest[t].at \in Times \cup {NoTime}
  /\ missed \in [Tasks -> BOOLEAN]
  /\ DOMAIN tx = Sessions
  /\ \A s \in Sessions : tx[s] = NoTx \/ Open(s)
  /\ begun \in 0..MaxIngests

\* What an ingest will show, if nothing of its task commits before it.
After(ds, w) == OfTask(Without(ds, w.id) \cup {w}, w.task)

\* An ingest in flight is the only one of its decision, leaves the decision in its task,
\* and unless it was overtaken its result is the readiness that its commit will leave.
InFlightSound ==
  /\ \A s, x \in Sessions :
       tx[s].open /\ tx[x].open /\ tx[s].write.id = tx[x].write.id => s = x
  /\ \A s \in Sessions : tx[s].open =>
       /\ \A d \in decisions : d.id = tx[s].write.id => d.task = tx[s].write.task
       /\ ~tx[s].overtaken =>
            tx[s].result = ComputeReadiness(After(decisions, tx[s].write), tx[s].at)

IInv == Table /\ Typed /\ InFlightSound /\ ShownMissesOnlyLateOrOverlapping

\* A session without an ingest is not in flight.
LEMMA NoTxClosed == NoTx.open = FALSE
  BY DEF NoTx

\* Nothing was ingested yet.
LEMMA InitHolds ==
  ASSUME EvidenceAssumption, Init PROVE IInv
<1>1. Table
  BY FS_EmptySet DEF Init, Table
<1>2. Typed
  <2>1. begun \in 0..MaxIngests
    BY DEF Init, EvidenceAssumption
  <2> QED BY <2>1 DEF Init, Typed, NoRows
<1>3. InFlightSound
  BY NoTxClosed DEF Init, InFlightSound
<1>4. ShownMissesOnlyLateOrOverlapping
  BY DEF Init, ShownMissesOnlyLateOrOverlapping, NoRows
<1> QED BY <1>1, <1>2, <1>3, <1>4 DEF IInv

\* Beginning an ingest disturbs nothing that is committed or in flight.
LEMMA ReadKeeps ==
  ASSUME IInv, NEW s \in Sessions, NEW d \in DecisionType, NEW at \in Times,
         EvidenceAssumption, Read(s, d, at), UNCHANGED <<decisions, newest, missed>>, ~InFlight(d.id),
         \A e \in decisions : e.id = d.id => e.task = d.task
  PROVE  IInv'
<1> DEFINE new == [open |-> TRUE, write |-> d, at |-> at, overtaken |-> FALSE,
                   result |-> ComputeReadiness(After(decisions, d), at)]
<1>1. tx' = [tx EXCEPT ![s] = new] /\ ~tx[s].open
  BY DEF Read, After
<1>2. Table' /\ ShownMissesOnlyLateOrOverlapping'
  BY DEF IInv, Table, ShownMissesOnlyLateOrOverlapping, ReadinessNow
<1>3. /\ new.open = TRUE /\ new.write = d /\ new.at = at /\ new.overtaken = FALSE
      /\ new.result = ComputeReadiness(After(decisions, d), at)
      /\ new \in [open : {TRUE}, write : DecisionType, at : Times, overtaken : BOOLEAN,
                  result : {new.result}]
  <2> HIDE DEF After
  <2> QED OBVIOUS
<1> HIDE DEF new
<1>4. DOMAIN tx = Sessions /\ DOMAIN tx' = Sessions /\ tx'[s] = new
      /\ \A x \in Sessions : x # s => tx'[x] = tx[x]
  BY <1>1 DEF IInv, Typed
<1>5. Typed'
  <2>1. Open(s)'
    BY <1>3, <1>4 DEF Open
  <2>2. \A x \in Sessions : x # s /\ Open(x) => Open(x)'
    BY <1>4 DEF Open
  <2>3. \A x \in Sessions : tx'[x] = NoTx \/ Open(x)'
    BY <1>4, <2>1, <2>2 DEF IInv, Typed
  <2>4. begun' \in 0..MaxIngests
    BY DEF Read, IInv, Typed, EvidenceAssumption
  <2> QED BY <1>4, <2>3, <2>4 DEF IInv, Typed
<1>6. InFlightSound'
  <2>1. \A x \in Sessions : x # s /\ tx[x].open => tx[x].write.id # d.id
    BY DEF InFlight
  <2>2. decisions' = decisions
    OBVIOUS
  <2>3. \A x, y \in Sessions :
          tx'[x].open /\ tx'[y].open /\ tx'[x].write.id = tx'[y].write.id => x = y
    BY <1>3, <1>4, <2>1 DEF IInv, InFlightSound
  <2>4. ASSUME NEW x \in Sessions, tx'[x].open
        PROVE  /\ \A e \in decisions' : e.id = tx'[x].write.id => e.task = tx'[x].write.task
               /\ ~tx'[x].overtaken =>
                    tx'[x].result = ComputeReadiness(After(decisions', tx'[x].write), tx'[x].at)
    <3>1. CASE x = s
      BY <1>3, <1>4, <2>2, <3>1
    <3>2. CASE x # s
      <4>1. tx'[x] = tx[x] /\ decisions' = decisions
        BY <1>4, <3>2
      <4> QED BY <2>4, <4>1 DEF IInv, InFlightSound
    <3> QED BY <3>1, <3>2
  <2> QED BY <2>3, <2>4 DEF InFlightSound
<1> QED BY <1>2, <1>5, <1>6 DEF IInv

\* An ingest that fails takes its promise with it.
LEMMA RollBackKeeps ==
  ASSUME IInv, NEW s \in Sessions, RollBack(s)
  PROVE  IInv'
<1>1. Table' /\ ShownMissesOnlyLateOrOverlapping'
  BY DEF IInv, Table, ShownMissesOnlyLateOrOverlapping, ReadinessNow, RollBack
<1>2. /\ DOMAIN tx = Sessions /\ DOMAIN tx' = Sessions
      /\ tx'[s] = NoTx /\ tx'[s].open = FALSE
      /\ \A x \in Sessions : x # s => tx'[x] = tx[x]
  BY NoTxClosed DEF IInv, Typed, RollBack
<1>3. Typed'
  <2>1. \A x \in Sessions : x # s /\ Open(x) => Open(x)'
    BY <1>2 DEF Open
  <2>2. \A x \in Sessions : tx'[x] = NoTx \/ Open(x)'
    BY <1>2, <2>1 DEF IInv, Typed
  <2> QED BY <1>2, <2>2 DEF IInv, Typed, RollBack
<1>4. InFlightSound'
  <2>1. \A x \in Sessions : tx'[x].open => tx'[x] = tx[x] /\ tx[x].open
    BY <1>2
  <2>3. decisions' = decisions
    BY DEF RollBack
  <2> HIDE DEF After
  <2>4. \A x, y \in Sessions :
          tx'[x].open /\ tx'[y].open /\ tx'[x].write.id = tx'[y].write.id => x = y
    BY <2>1 DEF IInv, InFlightSound
  <2>5. \A x \in Sessions : tx'[x].open =>
          /\ \A e \in decisions' : e.id = tx'[x].write.id => e.task = tx'[x].write.task
          /\ ~tx'[x].overtaken =>
               tx'[x].result = ComputeReadiness(After(decisions', tx'[x].write), tx'[x].at)
    BY <2>1, <2>3 DEF IInv, InFlightSound
  <2> QED BY <2>4, <2>5 DEF InFlightSound
<1> QED BY <1>1, <1>3, <1>4 DEF IInv

\* A commit leaves what the ingest promised and marks whom it overtook.
LEMMA CommitKeeps ==
  ASSUME IInv, NEW s \in Sessions, Commit(s), EvidenceAssumption
  PROVE  IInv'
<1> DEFINE w == tx[s].write
           t == w.task
<1>0. /\ tx[s].open /\ Open(s)
      /\ w \in DecisionType /\ t \in Tasks /\ tx[s].at \in Times
      /\ tx[s].overtaken \in BOOLEAN
      /\ \A d \in decisions : d.id = w.id => d.task = t
      /\ ~tx[s].overtaken => tx[s].result = ComputeReadiness(After(decisions, w), tx[s].at)
  <2>1. tx[s].open
    BY DEF Commit
  <2>2. Open(s)
    BY <2>1, NoTxClosed DEF IInv, Typed
  <2>3. w \in DecisionType /\ t \in Tasks /\ tx[s].at \in Times /\ tx[s].overtaken \in BOOLEAN
    BY <2>2 DEF Open, DecisionType
  <2> QED BY <2>1, <2>2, <2>3 DEF IInv, InFlightSound
<1>1. /\ decisions' = Without(decisions, w.id) \cup {w}
      /\ newest' = [newest EXCEPT ![t] = AddScore(newest[t], tx[s].at, tx[s].result)]
      /\ missed' = [missed EXCEPT ![t] = tx[s].at < newest[t].at \/ tx[s].overtaken]
      /\ tx' = [x \in Sessions |->
                  IF x = s THEN NoTx
                  ELSE IF tx[x].open /\ tx[x].write.task = t
                  THEN [tx[x] EXCEPT !.overtaken = TRUE] ELSE tx[x]]
  BY DEF Commit
<1> HIDE DEF t, w
<1>2. Table'
  <2>1. decisions' \subseteq DecisionType
    BY <1>0, <1>1 DEF IInv, Table, Without
  <2>2. IsFiniteSet(decisions')
    <3>1. Without(decisions, w.id) \subseteq decisions
      BY DEF Without
    <3>2. IsFiniteSet(Without(decisions, w.id))
      BY <3>1, FS_Subset DEF IInv, Table
    <3> QED BY <1>1, <3>2, FS_AddElement
  <2>3. \A d, e \in decisions' : d.id = e.id => d = e
    BY <1>1 DEF IInv, Table, Without
  <2> QED BY <2>1, <2>2, <2>3 DEF Table
<1>3. /\ tx'[s] = NoTx /\ tx'[s].open = FALSE
      /\ \A x \in Sessions : x # s /\ ~(tx[x].open /\ tx[x].write.task = t) => tx'[x] = tx[x]
  BY <1>1, NoTxClosed
<1>4. ASSUME NEW x \in Sessions, x # s, tx[x].open, tx[x].write.task = t
      PROVE  /\ Open(x)' /\ tx'[x].open /\ tx'[x].overtaken
             /\ tx'[x].write = tx[x].write
  <2>1. Open(x)
    BY <1>4, NoTxClosed DEF IInv, Typed
  <2>2. tx'[x] = [tx[x] EXCEPT !.overtaken = TRUE]
    BY <1>1, <1>4
  <2>3. /\ tx'[x] \in [open : {TRUE}, write : DecisionType, at : Times, overtaken : BOOLEAN,
                       result : {tx[x].result}]
        /\ tx'[x].overtaken = TRUE /\ tx'[x].write = tx[x].write
        /\ tx'[x].result = tx[x].result
    BY <2>1, <2>2 DEF Open
  <2>4. tx'[x].open = TRUE
    BY <2>3
  <2>5. Open(x)'
    BY <2>3 DEF Open
  <2> QED BY <2>3, <2>4, <2>5
<1>5. DOMAIN newest = Tasks /\ newest[t].at \in Int /\ tx[s].at \in Int /\ tx[s].at # NoTime
      /\ missed \in [Tasks -> BOOLEAN]
  <2>1. newest[t].at \in Times \cup {NoTime} /\ tx[s].at \in Times
    BY <1>0 DEF IInv, Typed
  <2>2. \A n \in Times : n \in Nat
    BY DEF EvidenceAssumption
  <2>3. \A n \in Times : n \in Int /\ n # NoTime
    BY <2>2 DEF NoTime
  <2>4. NoTime \in Int
    BY DEF NoTime
  <2>5. newest[t].at \in Int /\ tx[s].at \in Int /\ tx[s].at # NoTime
    BY <2>1, <2>3, <2>4
  <2> QED BY <2>5 DEF IInv, Typed
<1> DEFINE row == AddScore(newest[t], tx[s].at, tx[s].result)
<1>6. /\ row = [at |-> row.at, results |-> row.results]
      /\ row.at \in Times \cup {NoTime}
      /\ tx[s].at >= newest[t].at => row.at = tx[s].at /\ tx[s].result \in row.results
  <2> DEFINE old == newest[t]
             n == tx[s].at
             res == tx[s].result
  <2>0. old = [at |-> old.at, results |-> old.results] /\ old.at \in Times \cup {NoTime}
        /\ old.at \in Int /\ n \in Int /\ n \in Times
    BY <1>0, <1>5 DEF IInv, Typed
  <2> HIDE DEF old, n, res
  <2> SUFFICES ASSUME NEW r, r = AddScore(old, n, res)
               PROVE  /\ r = [at |-> r.at, results |-> r.results]
                      /\ r.at \in Times \cup {NoTime}
                      /\ n >= old.at => r.at = n /\ res \in r.results
    BY DEF old, n, res
  <2>1. CASE n > old.at
    <3>1. r = [at |-> n, results |-> {res}]
      BY <2>0, <2>1 DEF AddScore
    <3> QED BY <3>1, <2>0
  <2>2. CASE n = old.at
    <3>1. r = [old EXCEPT !.results = old.results \cup {res}]
      BY <2>0, <2>2 DEF AddScore
    <3>2. r = [at |-> old.at, results |-> old.results \cup {res}]
      BY <2>0, <3>1
    <3> QED BY <3>2, <2>0, <2>2
  <2>3. CASE n < old.at
    <3>1. r = old
      BY <2>0, <2>3 DEF AddScore
    <3> QED BY <3>1, <2>0, <2>3
  <2> QED BY <2>0, <2>1, <2>2, <2>3
<1> HIDE DEF row
<1>7. /\ newest'[t] = row
      /\ (\A u \in Tasks : u # t => newest'[u] = newest[u] /\ missed'[u] = missed[u])
      /\ missed'[t] = (tx[s].at < newest[t].at \/ tx[s].overtaken)
      /\ DOMAIN newest' = Tasks
  BY <1>0, <1>1, <1>5 DEF row
<1>8. Typed'
  <2>1. \A u \in Tasks : /\ newest'[u] = [at |-> newest'[u].at, results |-> newest'[u].results]
                         /\ newest'[u].at \in Times \cup {NoTime}
    BY <1>6, <1>7 DEF IInv, Typed
  <2>2. missed' \in [Tasks -> BOOLEAN]
    BY <1>0, <1>1, <1>5
  <2>3. DOMAIN tx' = Sessions
    BY <1>1
  <2>4. \A x \in Sessions : tx'[x] = tx[x] /\ Open(x) => Open(x)'
    BY DEF Open
  <2>5. \A x \in Sessions : tx'[x] = NoTx \/ Open(x)'
    BY <1>3, <1>4, <2>4 DEF IInv, Typed
  <2>6. begun' \in 0..MaxIngests
    BY DEF Commit, IInv, Typed
  <2> QED BY <1>7, <2>1, <2>2, <2>3, <2>5, <2>6 DEF Typed
<1>9. \A u : u # t => OfTask(decisions', u) = OfTask(decisions, u)
  BY <1>0, <1>1 DEF OfTask, Without, t
<1>10. InFlightSound'
  <2>1. ASSUME NEW x \in Sessions, tx'[x].open
        PROVE  /\ x # s /\ tx[x].open /\ tx'[x].write = tx[x].write
               /\ tx'[x].overtaken \/ (tx'[x] = tx[x] /\ tx[x].write.task # t)
    BY <1>3, <1>4, <2>1
  <2>2. \A x, y \in Sessions :
          tx'[x].open /\ tx'[y].open /\ tx'[x].write.id = tx'[y].write.id => x = y
    BY <2>1 DEF IInv, InFlightSound
  <2>3. ASSUME NEW x \in Sessions, tx'[x].open
        PROVE  /\ \A e \in decisions' : e.id = tx'[x].write.id => e.task = tx'[x].write.task
               /\ ~tx'[x].overtaken =>
                    tx'[x].result = ComputeReadiness(After(decisions', tx'[x].write), tx'[x].at)
    <3>1. tx[x].open /\ x # s /\ tx'[x].write = tx[x].write /\ w.id # tx[x].write.id
      BY <2>1, <2>3, <1>0 DEF IInv, InFlightSound, w
    <3>2. \A e \in decisions' : e.id = tx'[x].write.id => e.task = tx'[x].write.task
      BY <1>1, <3>1 DEF IInv, InFlightSound, Without
    <3>3. ASSUME ~tx'[x].overtaken
          PROVE  tx'[x].result = ComputeReadiness(After(decisions', tx'[x].write), tx'[x].at)
      <4>1. tx'[x] = tx[x] /\ tx[x].write.task # t
        BY <2>1, <2>3, <3>3
      <4> DEFINE v == tx[x].write
      <4>2. tx[x].result = ComputeReadiness(After(decisions, v), tx[x].at)
        BY <3>1, <3>3, <4>1 DEF IInv, InFlightSound
      <4>3. After(decisions', v) = After(decisions, v)
        <5> HIDE DEF v
        <5> SUFFICES ASSUME v.task # t
                     PROVE  OfTask(Without(decisions', v.id) \cup {v}, v.task)
                              = OfTask(Without(decisions, v.id) \cup {v}, v.task)
          BY <4>1 DEF v, After
        <5> QED BY <1>0, <1>1 DEF OfTask, Without, t
      <4>4. After(decisions', tx'[x].write) = After(decisions, v)
        BY <4>1, <4>3 DEF After
      <4> HIDE DEF v
      <4> QED BY <4>1, <4>2, <4>4
    <3> QED BY <3>2, <3>3
  <2> QED BY <2>2, <2>3 DEF InFlightSound
<1>11. ShownMissesOnlyLateOrOverlapping'
  <2> SUFFICES ASSUME NEW u \in Tasks, newest'[u].at # NoTime, ~missed'[u]
               PROVE  ComputeReadiness(OfTask(decisions', u), newest'[u].at) \in newest'[u].results
    BY DEF ShownMissesOnlyLateOrOverlapping, ReadinessNow
  <2>1. CASE u = t
    <3>1. tx[s].at >= newest[t].at /\ ~tx[s].overtaken
      <4>1. ~(tx[s].at < newest[t].at) /\ ~tx[s].overtaken
        BY <1>7, <2>1
      <4> QED BY <1>5, <4>1
    <3>2. newest'[t].at = tx[s].at /\ tx[s].result \in newest'[t].results
      BY <1>6, <1>7, <3>1
    <3>3. After(decisions, w) = OfTask(decisions', t)
      BY <1>1 DEF After, t
    <3> QED BY <1>0, <2>1, <3>1, <3>2, <3>3
  <2>2. CASE u # t
    <3>1. ReadinessNow(u, newest[u].at) \in newest[u].results
      BY <1>7, <2>2 DEF IInv, ShownMissesOnlyLateOrOverlapping
    <3> QED BY <1>7, <1>9, <2>2, <3>1 DEF ReadinessNow
  <2> QED BY <2>1, <2>2
<1> QED BY <1>2, <1>8, <1>10, <1>11 DEF IInv

\* Every step keeps the invariant.
LEMMA NextKeeps ==
  ASSUME IInv, [Next]_vars, EvidenceAssumption
  PROVE  IInv'
<1>1. CASE UNCHANGED vars
  BY <1>1 DEF vars, IInv, Table, Typed, Open, InFlightSound, After,
              ShownMissesOnlyLateOrOverlapping, ReadinessNow
<1>2. CASE Next
  <2> SUFFICES ASSUME NEW s \in Sessions,
                      \/ \E id \in Ids, t \in Tasks, report \in Reports, at \in Times :
                           Track(s, id, t, report, at)
                      \/ \E d \in decisions, j \in Judgements, at \in Times : Judge(s, d, j, at)
                      \/ Commit(s)
                      \/ RollBack(s)
               PROVE  IInv'
    BY <1>2 DEF Next
  <2>1. ASSUME NEW id \in Ids, NEW t \in Tasks, NEW report \in Reports, NEW at \in Times,
               Track(s, id, t, report, at)
        PROVE  IInv'
    <3> DEFINE d == [id |-> id, task |-> t, at |-> at, verdict |-> report.verdict,
                     outcome |-> report.outcome, confidence |-> report.confidence,
                     source |-> report.source, usd |-> report.usd]
    <3>1. report \in ReportType
      BY DEF EvidenceAssumption
    <3>2. d \in DecisionType /\ d.id = id
      BY <3>1 DEF DecisionType, ReportType
    <3>3. /\ Read(s, d, at) /\ UNCHANGED <<decisions, newest, missed>> /\ ~InFlight(id)
          /\ \A e \in decisions : e.id # id
      BY <2>1 DEF Track
    <3> HIDE DEF d
    <3> QED BY <3>2, <3>3, ReadKeeps
  <2>2. ASSUME NEW d \in decisions, NEW j \in Judgements, NEW at \in Times, Judge(s, d, j, at)
        PROVE  IInv'
    <3> DEFINE e == [d EXCEPT !.verdict = IF j.verdict = Absent THEN @ ELSE j.verdict,
                              !.outcome = IF j.outcome = Absent THEN @ ELSE j.outcome]
    <3>1. /\ d \in DecisionType
          /\ j \in [verdict : Verdicts \cup {Absent}, outcome : Outcomes \cup {Absent}]
      BY DEF EvidenceAssumption, IInv, Table
    <3>2. e \in DecisionType /\ e.id = d.id /\ e.task = d.task
      BY <3>1 DEF DecisionType
    <3>3. Read(s, e, at) /\ UNCHANGED <<decisions, newest, missed>> /\ ~InFlight(d.id)
      BY <2>2 DEF Judge
    <3>4. \A x \in decisions : x.id = e.id => x.task = e.task
      BY <3>2 DEF IInv, Table
    <3> HIDE DEF e
    <3> QED BY <3>2, <3>3, <3>4, ReadKeeps
  <2> QED BY <2>1, <2>2, CommitKeeps, RollBackKeeps
<1> QED BY <1>1, <1>2

\* The invariant: what is committed is a table, and each ingest in flight will show the
\* readiness that its own commit leaves unless another of its task commits first.
THEOREM EvidenceIsSound == Spec => []IInv
<1>1. EvidenceAssumption /\ Init => IInv
  BY InitHolds
<1>2. EvidenceAssumption /\ IInv /\ [Next]_vars => IInv'
  BY NextKeeps
<1> QED BY <1>1, <1>2, EvidenceAssumption, PTL DEF Spec

\* The decisions are rows with unique ids, and the other variables have their types
\* (recompute.ts, recompute-ports.ts).
THEOREM TypeCorrect == Spec => []TypeOK
<1>1. IInv => TypeOK
  <2> SUFFICES ASSUME IInv PROVE TypeOK
    OBVIOUS
  <2>1. \A d \in decisions : d.id \in Ids /\ d.task \in Tasks /\ d.at \in Times
    BY DEF IInv, Table, DecisionType
  <2> QED BY <2>1 DEF IInv, Table, Typed, TypeOK
<1> QED BY <1>1, EvidenceIsSound, PTL

\* The score shown for a task is the readiness of all its decisions at the time of its
\* latest event, unless the last ingest was late or overlapped another of the task
\* (recompute.ts:133,198-207, repositories.ts:679-682).
THEOREM ShownScoreIsCurrent == Spec => []ShownMissesOnlyLateOrOverlapping
<1>1. IInv => ShownMissesOnlyLateOrOverlapping
  BY DEF IInv
<1> QED BY <1>1, EvidenceIsSound, PTL

\* A score rests on evidence for each of its rates and is a percentage
\* (readiness.ts:124,136,157,162).
THEOREM RatesAreMeasured == Spec => []EveryRateIsMeasured
<1>1. IInv => EveryRateIsMeasured
  BY RatesMeasured DEF IInv, Table
<1> QED BY <1>1, EvidenceIsSound, PTL

\* Had an overridden or a failed decision been accepted instead, no rate would be worse;
\* and a rescued outcome does not redeem an overridden one (readiness.ts:87-99).
THEOREM CorrectionsNeverFlatter == Spec => []OverridesNeverFlatter
<1>1. IInv => OverridesNeverFlatter
  BY NoFlattery DEF IInv, Table
<1> QED BY <1>1, EvidenceIsSound, PTL

\* The pages agree with each other and with the score, figure by figure and label by
\* label (read-models.ts:214-229 against readiness.ts:187-190, views.ts:23-54,68-70).
THEOREM PagesReconcile == Spec => []PagesAgree
<1>1. EvidenceAssumption /\ IInv => PagesAgree
  <2> SUFFICES ASSUME EvidenceAssumption, IInv PROVE PagesAgree
    OBVIOUS
  <2>1. /\ Readable(decisions) /\ IsFiniteSet(Tasks)
        /\ Times \subseteq Nat /\ WindowDays \in Nat
    BY DEF IInv, Table, Readable, EvidenceAssumption
  <2> QED BY <2>1, FiguresReconcile, LabelsReconcile DEF PagesAgree
<1> QED BY <1>1, EvidenceIsSound, EvidenceAssumption, PTL
==============================================================================
