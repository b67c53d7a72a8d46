----------------------------- MODULE FoldLemmas -----------------------------
(***************************************************************************)
(* Facts about the folds of the community modules that the proofs need:    *)
(* FoldLeft, for the loops of the code, and sums over finite sets.         *)
(*                                                                         *)
(* An induction theorem with an operator as its parameter cannot be        *)
(* instantiated by the provers.  The induction here is over sets: a set of *)
(* numbers, or of sets, that is closed under one more element.  A fold is  *)
(* a recursive function over the subsets of its index set; SetRecursion    *)
(* gives such a function, with the step of the fold as a function too.     *)
(***************************************************************************)
EXTENDS Integers, SequencesExt, FiniteSetTheorems, TLAPS

\* Induction over the natural numbers.
LEMMA NatSetInduction ==
  ASSUME NEW T, 0 \in T, \A n \in Nat : n \in T => n + 1 \in T
  PROVE  Nat \subseteq T
<1> DEFINE Missing == Nat \ T
           R == OpToRel(<, Nat)
<1> SUFFICES ASSUME Missing # {} PROVE FALSE
  OBVIOUS
<1>1. PICK n \in Missing : \A m \in Missing : ~ (<<m, n>> \in R)
  <2>1. IsWellFoundedOn(R, Nat)
    BY NatLessThanWellFounded
  <2>2. Missing \subseteq Nat
    OBVIOUS
  <2> HIDE DEF Missing, R
  <2> QED BY <2>1, <2>2, WFMin
<1>2. n # 0 /\ n - 1 \in Nat
  OBVIOUS
<1>3. <<n - 1, n>> \in R
  BY <1>2 DEF OpToRel
<1>4. n - 1 \in Missing
  BY <1>2
<1> QED BY <1>1, <1>3, <1>4

\* What a recursive function over the natural numbers satisfies that goes from
\* a number to one before it.
NatRecurs(f, D, Stops, base, before, step) ==
    /\ f \in [Nat -> D]
    /\ \A n \in Nat :
          f[n] = IF n \in Stops THEN base[n] ELSE step[<<n, f[before[n]]>>]

\* There is one.
LEMMA NatRecursion ==
  ASSUME NEW D, NEW Stops, NEW base \in [Nat -> D], NEW before \in [Nat -> Nat],
         NEW step \in [Nat \X D -> D],
         \A n \in Nat : n \in Stops \/ before[n] < n
  PROVE  \E f : NatRecurs(f, D, Stops, base, before, step)
<1> DEFINE Value(g, n) == IF n \in Stops THEN base[n] ELSE step[<<n, g[before[n]]>>]
           UpTo(g, m) == g \in [0 .. m -> D] /\ \A n \in 0 .. m : g[n] = Value(g, n)
           T == {m \in Nat : \E g : UpTo(g, m)}
           parts == [m \in Nat |-> CHOOSE g : UpTo(g, m)]
           f == [n \in Nat |-> parts[n][n]]
<1>0. \A n \in Nat : n \notin Stops => before[n] \in Nat /\ before[n] < n
  OBVIOUS
<1>1. ASSUME NEW g, NEW n \in Nat, n \notin Stops => g[before[n]] \in D
      PROVE  Value(g, n) \in D
  BY <1>1
<1>2. ASSUME NEW g, NEW h, NEW n \in Nat, n \notin Stops => g[before[n]] = h[before[n]]
      PROVE  Value(g, n) = Value(h, n)
  BY <1>2
<1> HIDE DEF Value
<1>3. 0 \in T
  <2> DEFINE g == [i \in 0 .. 0 |-> base[0]]
  <2>1. 0 \in Stops
    BY <1>0
  <2>2. Value(g, 0) = base[0]
    BY <2>1 DEF Value
  <2>3. UpTo(g, 0)
    BY <2>2
  <2> HIDE DEF UpTo
  <2> QED BY <2>3
<1>4. ASSUME NEW m \in Nat, m \in T PROVE m + 1 \in T
  <2>1. PICK g : UpTo(g, m)
    BY <1>4
  <2> DEFINE v == Value(g, m + 1)
             h == [i \in 0 .. m + 1 |-> IF i = m + 1 THEN v ELSE g[i]]
  <2>2. v \in D
    <3>1. m + 1 \notin Stops => before[m + 1] \in 0 .. m
      <4>1. m + 1 \in Nat
        OBVIOUS
      <4> QED BY <1>0, <4>1
    <3>2. m + 1 \notin Stops => g[before[m + 1]] \in D
      BY <2>1, <3>1
    <3> QED BY <1>1, <3>2
  <2> HIDE DEF v
  <2>3. h \in [0 .. m + 1 -> D]
    BY <2>1, <2>2
  <2>4. ASSUME NEW n \in 0 .. m + 1 PROVE h[n] = Value(h, n)
    <3>1. n \in Nat
      OBVIOUS
    <3>2. n \notin Stops => before[n] \in 0 .. m /\ before[n] # m + 1
      <4>1. n \notin Stops => before[n] \in Nat /\ before[n] < n
        BY <1>0, <3>1
      <4> QED BY <4>1
    <3>3. n \notin Stops => h[before[n]] = g[before[n]]
      BY <3>2
    <3>4. Value(h, n) = Value(g, n)
      <4> HIDE DEF h
      <4> QED BY <1>2, <3>1, <3>3
    <3>5. CASE n = m + 1
      BY <3>4, <3>5 DEF v
    <3>6. CASE n \in 0 .. m
      <4>1. h[n] = g[n]
        BY <3>6
      <4> QED BY <2>1, <3>4, <3>6, <4>1
    <3> QED BY <3>5, <3>6
  <2> HIDE DEF h
  <2>5. UpTo(h, m + 1)
    BY <2>3, <2>4
  <2> HIDE DEF UpTo
  <2> QED BY <2>5
<1>5. Nat \subseteq T
  <2> HIDE DEF T
  <2> QED BY <1>3, <1>4, NatSetInduction
<1>6. \A m \in Nat : UpTo(parts[m], m)
  <2>1. \A m \in Nat : \E g : UpTo(g, m)
    BY <1>5
  <2> HIDE DEF UpTo
  <2> QED BY <2>1
<1> HIDE DEF parts
<1>7. ASSUME NEW m \in Nat, NEW k \in Nat, k <= m PROVE parts[k][k] = parts[m][k]
  <2> DEFINE S == {n \in Nat : \A i \in 0 .. n : i <= k => parts[k][i] = parts[m][i]}
  <2>1. ASSUME NEW n \in Nat, n <= k, \A i \in 0 .. k : i < n => parts[k][i] = parts[m][i]
        PROVE  parts[k][n] = parts[m][n]
    <3>1. n \in 0 .. k /\ n \in 0 .. m
      BY <1>7, <2>1
    <3>2. parts[k][n] = Value(parts[k], n) /\ parts[m][n] = Value(parts[m], n)
      BY <1>6, <3>1
    <3>3. n \notin Stops => before[n] \in 0 .. k /\ before[n] < n
      BY <1>0, <2>1
    <3>4. n \notin Stops => parts[k][before[n]] = parts[m][before[n]]
      BY <2>1, <3>3
    <3>5. Value(parts[k], n) = Value(parts[m], n)
      BY <1>2, <3>4
    <3> QED BY <3>2, <3>5
  <2>2. 0 \in S
    BY <2>1
  <2>3. ASSUME NEW n \in Nat, n \in S PROVE n + 1 \in S
    <3>1. ASSUME NEW i \in 0 .. n + 1, i <= k PROVE parts[k][i] = parts[m][i]
      <4>1. CASE i \in 0 .. n
        BY <2>3, <3>1, <4>1
      <4>2. CASE i = n + 1
        <5>1. \A j \in 0 .. k : j < i => parts[k][j] = parts[m][j]
          BY <2>3, <4>2
        <5> QED BY <2>1, <3>1, <5>1
      <4> QED BY <4>1, <4>2
    <3> QED BY <3>1
  <2>4. Nat \subseteq S
    <3> HIDE DEF S
    <3> QED BY <2>2, <2>3, NatSetInduction
  <2>5. k \in S
    <3> HIDE DEF S
    <3> QED BY <2>4
  <2>6. k \in 0 .. k
    OBVIOUS
  <2> QED BY <1>7, <2>5, <2>6
<1>8. f \in [Nat -> D]
  <2>1. ASSUME NEW n \in Nat PROVE parts[n][n] \in D
    <3>1. parts[n] \in [0 .. n -> D]
      BY <1>6
    <3>2. n \in 0 .. n
      OBVIOUS
    <3> QED BY <3>1, <3>2
  <2> QED BY <2>1
<1>9. ASSUME NEW n \in Nat PROVE f[n] = Value(f, n)
  <2>1. parts[n][n] = Value(parts[n], n)
    <3>1. n \in 0 .. n
      OBVIOUS
    <3> QED BY <1>6, <3>1
  <2>2. n \notin Stops => before[n] \in Nat /\ before[n] <= n
    BY <1>0
  <2>3. n \notin Stops => parts[before[n]][before[n]] = parts[n][before[n]]
    BY <1>7, <2>2
  <2>4. n \notin Stops => f[before[n]] = parts[n][before[n]]
    BY <2>2, <2>3
  <2>5. f[n] = parts[n][n]
    OBVIOUS
  <2> HIDE DEF f
  <2> QED BY <1>2, <2>1, <2>4, <2>5
<1> HIDE DEF f
<1> QED BY <1>8, <1>9 DEF Value, NatRecurs

\* Induction over the natural numbers, from all numbers before.
LEMMA NatSetGeneralInduction ==
  ASSUME NEW T, \A n \in Nat : (\A m \in Nat : m < n => m \in T) => n \in T
  PROVE  Nat \subseteq T
<1> DEFINE S == {n \in Nat : \A m \in Nat : m < n => m \in T}
<1>1. 0 \in S
  OBVIOUS
<1>2. ASSUME NEW n \in Nat, n \in S PROVE n + 1 \in S
  <2>1. n \in T
    BY <1>2
  <2> QED BY <1>2, <2>1
<1>3. Nat \subseteq S
  <2> HIDE DEF S
  <2> QED BY <1>1, <1>2, NatSetInduction
<1> QED BY <1>3

\* Induction over the subsets of a finite set.
LEMMA SubsetInduction ==
  ASSUME NEW S, IsFiniteSet(S), NEW T,
         \A s \in SUBSET S : (\A x \in s : s \ {x} \in T) => s \in T
  PROVE  SUBSET S \subseteq T
<1> DEFINE P == {n \in Nat : \A s \in SUBSET S : Cardinality(s) = n => s \in T}
<1>1. 0 \in P
  BY FS_EmptySet, FS_Subset
<1>2. ASSUME NEW n \in Nat, n \in P PROVE n + 1 \in P
  <2> SUFFICES ASSUME NEW s \in SUBSET S, Cardinality(s) = n + 1 PROVE s \in T
    OBVIOUS
  <2>1. IsFiniteSet(s)
    BY FS_Subset
  <2>2. ASSUME NEW x \in s PROVE s \ {x} \in T
    <3>1. Cardinality(s \ {x}) = Cardinality(s) - 1
      BY <2>1, FS_RemoveElement
    <3> QED BY <1>2, <3>1, Cardinality(s \ {x}) = n
  <2> QED BY <2>2
<1>3. Nat \subseteq P
  <2> HIDE DEF P
  <2> QED BY <1>1, <1>2, NatSetInduction
<1> QED BY <1>3, FS_CardinalityType, FS_Subset

\* iter folds the step over the subsets of S, the chosen element last.
Recurs(iter, S, choose, base, step) ==
    iter = [s \in SUBSET S |->
              IF s = {} THEN base ELSE step[<<choose[s], iter[s \ {choose[s]}]>>]]

\* There is such a function.
LEMMA SetRecursion ==
  ASSUME NEW S, IsFiniteSet(S),
         NEW choose, \A s \in SUBSET S : s # {} => choose[s] \in s,
         NEW D, NEW base \in D,
         NEW step, \A x \in S, d \in D : step[<<x, d>>] \in D
  PROVE  \E iter \in [SUBSET S -> D] : Recurs(iter, S, choose, base, step)
<1> DEFINE UpTo(n) == {s \in SUBSET S : Cardinality(s) <= n}
           Fits(g, n) == \A s \in UpTo(n) :
                            g[s] = IF s = {} THEN base
                                   ELSE step[<<choose[s], g[s \ {choose[s]}]>>]
           P == {n \in Nat : \E g \in [UpTo(n) -> D] : Fits(g, n)}
<1>1. ASSUME NEW s \in SUBSET S
      PROVE  /\ Cardinality(s) \in Nat
             /\ Cardinality(s) = 0 <=> s = {}
             /\ s # {} => /\ choose[s] \in S
                          /\ s \ {choose[s]} \in SUBSET S
                          /\ Cardinality(s \ {choose[s]}) = Cardinality(s) - 1
  BY FS_Subset, FS_CardinalityType, FS_EmptySet, FS_RemoveElement
<1>2. 0 \in P
  <2> DEFINE g == [s \in UpTo(0) |-> base]
  <2>1. g \in [UpTo(0) -> D] /\ Fits(g, 0)
    BY <1>1
  <2> HIDE DEF g
  <2> QED BY <2>1
<1>3. ASSUME NEW n \in Nat, n \in P PROVE n + 1 \in P
  <2>1. PICK g \in [UpTo(n) -> D] : Fits(g, n)
    BY <1>3
  <2> DEFINE h == [s \in UpTo(n + 1) |->
                     IF s = {} THEN base
                     ELSE step[<<choose[s], g[s \ {choose[s]}]>>]]
  <2>2. \A s \in UpTo(n + 1) : s # {} => s \ {choose[s]} \in UpTo(n)
    BY <1>1
  <2>3. h \in [UpTo(n + 1) -> D]
    BY <1>1, <2>2
  <2>4. \A s \in UpTo(n) : s \in UpTo(n + 1) /\ h[s] = g[s]
    BY <1>1, <2>1
  <2>5. Fits(h, n + 1)
    BY <2>2, <2>4
  <2> HIDE DEF h, UpTo, Fits
  <2> QED BY <2>3, <2>5
<1>4. Cardinality(S) \in P
  <2> HIDE DEF P
  <2> QED BY <1>2, <1>3, NatSetInduction, FS_CardinalityType
<1>5. UpTo(Cardinality(S)) = SUBSET S
  BY FS_Subset, FS_CardinalityType
<1>6. PICK iter \in [SUBSET S -> D] : Fits(iter, Cardinality(S))
  BY <1>4, <1>5
<1>7. Recurs(iter, S, choose, base, step)
  BY <1>5, <1>6 DEF Recurs
<1> QED BY <1>7

-----------------------------------------------------------------------------
(* Loops: FoldLeft over a sequence. *)

LEMMA MaxOfFinite ==
  ASSUME NEW S \in SUBSET Int, IsFiniteSet(S), S # {}
  PROVE  Max(S) \in S /\ \A x \in S : Max(S) >= x
<1> DEFINE T == {s \in SUBSET S : s # {} => \E m \in s : \A x \in s : m >= x}
<1>1. ASSUME NEW s \in SUBSET S, \A x \in s : s \ {x} \in T PROVE s \in T
  <2> SUFFICES ASSUME NEW x \in s PROVE \E m \in s : \A y \in s : m >= y
    OBVIOUS
  <2>1. CASE s = {x}
    BY <2>1
  <2>2. CASE s # {x}
    <3>1. PICK m \in s \ {x} : \A y \in s \ {x} : m >= y
      BY <1>1, <2>2
    <3>2. CASE m >= x
      BY <3>1, <3>2
    <3>3. CASE x >= m
      BY <3>1, <3>3
    <3> QED BY <3>1, <3>2, <3>3
  <2> QED BY <2>1, <2>2
<1>2. S \in T
  <2> HIDE DEF T
  <2> QED BY <1>1, SubsetInduction
<1> QED BY <1>2 DEF Max

\* The prefixes of 1 .. n, from which a loop takes the last index.
LEMMA PrefixMax ==
  ASSUME NEW n \in Nat, NEW i \in 1 .. n
  PROVE  /\ 1 .. i \in SUBSET (1 .. n)
         /\ 1 .. i # {}
         /\ Max(1 .. i) = i
         /\ (1 .. i) \ {i} = 1 .. (i - 1)
<1>1. IsFiniteSet(1 .. i) /\ 1 .. i \in SUBSET Int /\ i \in 1 .. i
  BY FS_Interval
<1>2. Max(1 .. i) \in 1 .. i /\ Max(1 .. i) >= i
  BY <1>1, MaxOfFinite
<1>3. Max(1 .. i) = i
  BY <1>2
<1>4. (1 .. i) \ {i} = 1 .. (i - 1)
  OBVIOUS
<1> QED BY <1>1, <1>3, <1>4

\* The recursion of a loop over 1 .. n whose steps stay in D.
LoopRecurs(iter, n, D, base, step) ==
    /\ iter \in [SUBSET (1 .. n) -> D]
    /\ iter[{}] = base
    /\ \A s \in SUBSET (1 .. n) :
        s # {} => /\ Max(s) \in 1 .. n
                  /\ iter[s \ {Max(s)}] \in D
                  /\ iter[s] = step[<<Max(s), iter[s \ {Max(s)}]>>]

LEMMA LoopRecursion ==
  ASSUME NEW n \in Nat, NEW D, NEW base \in D,
         NEW step, \A i \in 1 .. n, d \in D : step[<<i, d>>] \in D
  PROVE  \E iter : LoopRecurs(iter, n, D, base, step)
<1> DEFINE choose == [s \in SUBSET (1 .. n) |-> Max(s)]
<1>1. IsFiniteSet(1 .. n)
  BY FS_Interval
<1>2. ASSUME NEW s \in SUBSET (1 .. n), s # {} PROVE choose[s] \in s
  <2>1. IsFiniteSet(s)
    BY <1>1, FS_Subset
  <2>2. s \in SUBSET Int
    OBVIOUS
  <2>3. choose[s] = Max(s)
    OBVIOUS
  <2> QED BY <1>2, <2>1, <2>2, <2>3, MaxOfFinite
<1>3. PICK iter \in [SUBSET (1 .. n) -> D] : Recurs(iter, 1 .. n, choose, base, step)
  <2> HIDE DEF choose
  <2> QED BY <1>1, <1>2, SetRecursion
<1>4. ASSUME NEW s \in SUBSET (1 .. n), s # {}
      PROVE  /\ Max(s) \in 1 .. n
             /\ iter[s \ {Max(s)}] \in D
             /\ iter[s] = step[<<Max(s), iter[s \ {Max(s)}]>>]
  <2>1. choose[s] = Max(s) /\ choose[s] \in 1 .. n
    BY <1>2, <1>4
  <2> HIDE DEF choose
  <2>2. iter[s] = step[<<choose[s], iter[s \ {choose[s]}]>>]
    BY <1>3, <1>4 DEF Recurs
  <2> QED BY <2>1, <2>2
<1>5. iter[{}] = base
  BY <1>3 DEF Recurs
<1> QED BY <1>3, <1>4, <1>5 DEF LoopRecurs

\* What holds before a loop and is kept by each of its rounds holds after it.
LEMMA LoopInvariant ==
  ASSUME NEW n \in Nat, NEW D, NEW run, run[0] \in D,
         \A i \in 1 .. n : run[i - 1] \in D => run[i] \in D
  PROVE  \A i \in 0 .. n : run[i] \in D
<1> DEFINE T == {i \in Nat : i <= n => run[i] \in D}
<1>1. \A i \in Nat : i \in T => i + 1 \in T
  <2> SUFFICES ASSUME NEW i \in Nat, i \in T, i + 1 <= n PROVE run[i + 1] \in D
    OBVIOUS
  <2>1. i + 1 \in 1 .. n /\ (i + 1) - 1 = i /\ run[i] \in D
    OBVIOUS
  <2>2. run[(i + 1) - 1] \in D => run[i + 1] \in D
    BY <2>1
  <2> QED BY <2>1, <2>2
<1>2. 0 \in T
  OBVIOUS
<1>3. Nat \subseteq T
  <2> HIDE DEF T
  <2> QED BY <1>1, <1>2, NatSetInduction
<1> QED BY <1>3

-----------------------------------------------------------------------------
(* Sums: SumFunctionOnSet(f, S) adds up f[x] for the x of S. *)

\* The recursion of a sum.
SumRecurs(iter, f, S) ==
    iter = [s \in SUBSET S |->
              IF s = {} THEN 0
              ELSE f[CHOOSE x \in s : TRUE] + iter[s \ {CHOOSE x \in s : TRUE}]]

LEMMA SumRecursion ==
  ASSUME NEW S, IsFiniteSet(S), NEW f, \A x \in S : f[x] \in Int
  PROVE  \E iter \in [SUBSET S -> Int] : SumRecurs(iter, f, S)
<1> DEFINE choose == [s \in SUBSET S |-> CHOOSE x \in s : TRUE]
           step == [p \in S \X Int |-> f[p[1]] + p[2]]
<1>1. \A s \in SUBSET S : s # {} => choose[s] \in s
  OBVIOUS
<1>2. \A x \in S, d \in Int : step[<<x, d>>] \in Int
  OBVIOUS
<1>3. PICK iter \in [SUBSET S -> Int] : Recurs(iter, S, choose, 0, step)
  <2> DEFINE D == Int
             base == 0
  <2>1. base \in D /\ \A x \in S, d \in D : step[<<x, d>>] \in D
    BY <1>2
  <2> HIDE DEF choose, step, D, base
  <2>2. \E iter \in [SUBSET S -> D] : Recurs(iter, S, choose, base, step)
    BY <1>1, <2>1, SetRecursion
  <2> QED BY <2>2 DEF D, base
<1>4. SumRecurs(iter, f, S)
  <2>1. ASSUME NEW s \in SUBSET S
        PROVE  iter[s] = IF s = {} THEN 0
                         ELSE f[CHOOSE x \in s : TRUE] + iter[s \ {CHOOSE x \in s : TRUE}]
    <3>1. iter[s] = IF s = {} THEN 0 ELSE step[<<choose[s], iter[s \ {choose[s]}]>>]
      <4> HIDE DEF step
      <4> QED BY <1>3 DEF Recurs
    <3>2. s # {} => choose[s] \in S /\ s \ {choose[s]} \in SUBSET S
      BY <1>1
    <3> QED BY <3>1, <3>2
  <2> QED BY <2>1 DEF SumRecurs
<1> QED BY <1>4

\* Two recursions of the same sum agree where both are defined.
LEMMA SumRecursionUnique ==
  ASSUME NEW S, NEW R \in SUBSET S, IsFiniteSet(R), NEW f,
         NEW g, SumRecurs(g, f, S), NEW h, SumRecurs(h, f, R)
  PROVE  \A s \in SUBSET R : g[s] = h[s]
<1> DEFINE T == {s \in SUBSET R : g[s] = h[s]}
<1>1. ASSUME NEW s \in SUBSET R, \A x \in s : s \ {x} \in T PROVE g[s] = h[s]
  <2>1. CASE s = {}
    BY <2>1 DEF SumRecurs
  <2>2. CASE s # {}
    <3> DEFINE c == CHOOSE x \in s : TRUE
    <3>1. c \in s
      BY <2>2
    <3>2. g[s] = f[c] + g[s \ {c}] /\ h[s] = f[c] + h[s \ {c}]
      BY <2>2 DEF SumRecurs
    <3>3. g[s \ {c}] = h[s \ {c}]
      BY <1>1, <3>1
    <3> QED BY <3>2, <3>3
  <2> QED BY <2>1, <2>2
<1>2. \A s \in SUBSET R : (\A x \in s : s \ {x} \in T) => s \in T
  BY <1>1
<1>3. SUBSET R \subseteq T
  <2> HIDE DEF T
  <2> QED BY <1>2, SubsetInduction
<1> QED BY <1>3

\* A sum is its recursion over any larger set.
Sums(iter, f, S) ==
    /\ iter \in [SUBSET S -> Int]
    /\ SumRecurs(iter, f, S)
    /\ \A s \in SUBSET S : SumFunctionOnSet(f, s) = iter[s]

LEMMA SumIsRecursion ==
  ASSUME NEW S, IsFiniteSet(S), NEW f, \A x \in S : f[x] \in Int
  PROVE  \E iter : Sums(iter, f, S)
<1>1. PICK iter \in [SUBSET S -> Int] : SumRecurs(iter, f, S)
  BY SumRecursion
<1>2. ASSUME NEW s \in SUBSET S PROVE SumFunctionOnSet(f, s) = iter[s]
  <2> DEFINE g == CHOOSE g : SumRecurs(g, f, s)
  <2>1. IsFiniteSet(s)
    BY FS_Subset
  <2>2. SumRecurs(g, f, s)
    BY <2>1, SumRecursion, Zenon
  <2>3. SumFunctionOnSet(f, s) = g[s]
    BY DEF SumFunctionOnSet, FoldFunctionOnSet, MapThenFoldSet, SumRecurs
  <2> HIDE DEF g
  <2> QED BY <1>1, <2>1, <2>2, <2>3, SumRecursionUnique
<1> QED BY <1>1, <1>2 DEF Sums

LEMMA SumType ==
  ASSUME NEW S, IsFiniteSet(S), NEW f, \A x \in S : f[x] \in Int
  PROVE  SumFunctionOnSet(f, S) \in Int
<1>1. PICK iter : Sums(iter, f, S)
  BY SumIsRecursion
<1> QED BY <1>1 DEF Sums

LEMMA SumEmpty == ASSUME NEW f PROVE SumFunctionOnSet(f, {}) = 0
<1>1. PICK iter : Sums(iter, f, {})
  BY FS_EmptySet, SumIsRecursion
<1> QED BY <1>1 DEF Sums, SumRecurs

\* Any element may be taken out first.
LEMMA SumTakeOut ==
  ASSUME NEW S, IsFiniteSet(S), NEW f, \A x \in S : f[x] \in Int, NEW a \in S
  PROVE  SumFunctionOnSet(f, S) = f[a] + SumFunctionOnSet(f, S \ {a})
<1>1. PICK iter : Sums(iter, f, S)
  BY SumIsRecursion
<1> DEFINE T == {s \in SUBSET S : \A x \in s : iter[s] = f[x] + iter[s \ {x}]}
<1>2. ASSUME NEW s \in SUBSET S, \A x \in s : s \ {x} \in T, NEW x \in s
      PROVE  iter[s] = f[x] + iter[s \ {x}]
  <2> DEFINE c == CHOOSE y \in s : TRUE
  <2>1. c \in s /\ iter[s] = f[c] + iter[s \ {c}]
    BY <1>1 DEF Sums, SumRecurs
  <2>2. CASE c = x
    BY <2>1, <2>2
  <2>3. CASE c # x
    <3>1. iter[s \ {c}] = f[x] + iter[(s \ {c}) \ {x}]
      BY <1>2, <2>1, <2>3
    <3>2. iter[s \ {x}] = f[c] + iter[(s \ {x}) \ {c}]
      BY <1>2, <2>1, <2>3
    <3>3. (s \ {c}) \ {x} = (s \ {x}) \ {c}
      OBVIOUS
    <3>4. iter[(s \ {x}) \ {c}] \in Int /\ f[x] \in Int /\ f[c] \in Int
      BY <1>1, <2>1 DEF Sums
    <3>5. iter[s] = f[c] + (f[x] + iter[(s \ {x}) \ {c}])
      BY <2>1, <3>1, <3>3
    <3> HIDE DEF c
    <3> QED BY <3>2, <3>4, <3>5
  <2> QED BY <2>2, <2>3
<1>3. \A s \in SUBSET S : (\A x \in s : s \ {x} \in T) => s \in T
  BY <1>2
<1>4. SUBSET S \subseteq T
  <2> HIDE DEF T
  <2> QED BY <1>3, SubsetInduction
<1> QED BY <1>1, <1>4 DEF Sums

\* The sum depends on the values at S alone.
LEMMA SumCongruence ==
  ASSUME NEW S, IsFiniteSet(S), NEW f, NEW g, \A x \in S : f[x] \in Int /\ f[x] = g[x]
  PROVE  SumFunctionOnSet(f, S) = SumFunctionOnSet(g, S)
<1> DEFINE T == {s \in SUBSET S : SumFunctionOnSet(f, s) = SumFunctionOnSet(g, s)}
<1>1. ASSUME NEW s \in SUBSET S, \A x \in s : s \ {x} \in T PROVE s \in T
  <2>1. CASE s = {}
    BY <2>1, SumEmpty
  <2>2. CASE s # {}
    <3>1. PICK a \in s : TRUE
      BY <2>2
    <3>2. IsFiniteSet(s)
      BY FS_Subset
    <3>3. SumFunctionOnSet(f, s) = f[a] + SumFunctionOnSet(f, s \ {a})
      BY <3>1, <3>2, SumTakeOut
    <3>4. SumFunctionOnSet(g, s) = g[a] + SumFunctionOnSet(g, s \ {a})
      BY <3>1, <3>2, SumTakeOut
    <3> QED BY <1>1, <3>3, <3>4
  <2> QED BY <2>1, <2>2
<1>2. S \in T
  <2> HIDE DEF T
  <2> QED BY <1>1, SubsetInduction
<1> QED BY <1>2

\* Two sums are added element by element.
LEMMA SumAdd ==
  ASSUME NEW S, IsFiniteSet(S), NEW f, NEW g, NEW h,
         \A x \in S : f[x] \in Int /\ g[x] \in Int /\ h[x] = f[x] + g[x]
  PROVE  SumFunctionOnSet(h, S) = SumFunctionOnSet(f, S) + SumFunctionOnSet(g, S)
<1> DEFINE T == {s \in SUBSET S :
       SumFunctionOnSet(h, s) = SumFunctionOnSet(f, s) + SumFunctionOnSet(g, s)}
<1>1. ASSUME NEW s \in SUBSET S, \A x \in s : s \ {x} \in T PROVE s \in T
  <2>1. CASE s = {}
    BY <2>1, SumEmpty
  <2>2. CASE s # {}
    <3>1. PICK a \in s : TRUE
      BY <2>2
    <3>2. IsFiniteSet(s) /\ IsFiniteSet(s \ {a})
      BY FS_Subset
    <3>3. SumFunctionOnSet(f, s) = f[a] + SumFunctionOnSet(f, s \ {a})
      BY <3>1, <3>2, SumTakeOut
    <3>4. SumFunctionOnSet(g, s) = g[a] + SumFunctionOnSet(g, s \ {a})
      BY <3>1, <3>2, SumTakeOut
    <3>5. SumFunctionOnSet(h, s) = h[a] + SumFunctionOnSet(h, s \ {a})
      BY <3>1, <3>2, SumTakeOut
    <3>6. SumFunctionOnSet(f, s \ {a}) \in Int /\ SumFunctionOnSet(g, s \ {a}) \in Int
      BY <3>2, SumType
    <3>7. SumFunctionOnSet(h, s \ {a}) =
            SumFunctionOnSet(f, s \ {a}) + SumFunctionOnSet(g, s \ {a})
      BY <1>1
    <3>8. f[a] \in Int /\ g[a] \in Int /\ h[a] = f[a] + g[a]
      OBVIOUS
    <3>9. SumFunctionOnSet(h, s) = SumFunctionOnSet(f, s) + SumFunctionOnSet(g, s)
      BY <3>3, <3>4, <3>5, <3>6, <3>7, <3>8
    <3> QED BY <3>9
  <2> QED BY <2>1, <2>2
<1>2. S \in T
  <2> HIDE DEF T
  <2> QED BY <1>1, SubsetInduction
<1> QED BY <1>2

LEMMA SumZero ==
  ASSUME NEW S, IsFiniteSet(S), NEW f, \A x \in S : f[x] = 0
  PROVE  SumFunctionOnSet(f, S) = 0
<1>1. SumFunctionOnSet(f, S) = SumFunctionOnSet(f, S) + SumFunctionOnSet(f, S)
  BY SumAdd
<1>2. SumFunctionOnSet(f, S) \in Int
  BY SumType
<1>3. \A n \in Int : n = n + n => n = 0
  OBVIOUS
<1> QED BY <1>1, <1>2, <1>3

LEMMA SumNat ==
  ASSUME NEW S, IsFiniteSet(S), NEW f, \A x \in S : f[x] \in Nat
  PROVE  SumFunctionOnSet(f, S) \in Nat
<1> DEFINE T == {s \in SUBSET S : SumFunctionOnSet(f, s) \in Nat}
<1>1. ASSUME NEW s \in SUBSET S, \A x \in s : s \ {x} \in T PROVE s \in T
  <2>1. CASE s = {}
    BY <2>1, SumEmpty
  <2>2. CASE s # {}
    <3>1. PICK a \in s : TRUE
      BY <2>2
    <3>2. IsFiniteSet(s)
      BY FS_Subset
    <3>3. SumFunctionOnSet(f, s) = f[a] + SumFunctionOnSet(f, s \ {a})
      BY <3>1, <3>2, SumTakeOut
    <3> QED BY <1>1, <3>3
  <2> QED BY <2>1, <2>2
<1>2. S \in T
  <2> HIDE DEF T
  <2> QED BY <1>1, SubsetInduction
<1> QED BY <1>2

\* A sum of natural numbers is no less than one of them.
LEMMA SumBound ==
  ASSUME NEW S, IsFiniteSet(S), NEW f, \A x \in S : f[x] \in Nat, NEW a \in S
  PROVE  f[a] <= SumFunctionOnSet(f, S)
<1>1. IsFiniteSet(S \ {a})
  BY FS_Subset
<1>2. SumFunctionOnSet(f, S \ {a}) \in Nat
  BY <1>1, SumNat
<1>3. SumFunctionOnSet(f, S) = f[a] + SumFunctionOnSet(f, S \ {a})
  BY SumTakeOut
<1> QED BY <1>2, <1>3

\* The sum over a part is no more than that over the whole.
LEMMA SumPart ==
  ASSUME NEW S, IsFiniteSet(S), NEW f, \A x \in S : f[x] \in Nat, NEW R \in SUBSET S
  PROVE  SumFunctionOnSet(f, R) <= SumFunctionOnSet(f, S)
<1> DEFINE T == {s \in SUBSET S : SumFunctionOnSet(f, s \cap R) <= SumFunctionOnSet(f, s)}
<1>1. ASSUME NEW s \in SUBSET S, \A x \in s : s \ {x} \in T PROVE s \in T
  <2>1. CASE s = {}
    <3>1. s \cap R = {}
      BY <2>1
    <3> QED BY <2>1, <3>1, SumEmpty
  <2>2. CASE s # {}
    <3>1. PICK a \in s : TRUE
      BY <2>2
    <3>2. IsFiniteSet(s) /\ IsFiniteSet(s \cap R) /\ IsFiniteSet(s \ {a})
          /\ IsFiniteSet((s \cap R) \ {a})
      BY FS_Subset
    <3>3. SumFunctionOnSet(f, s) = f[a] + SumFunctionOnSet(f, s \ {a})
      BY <3>1, <3>2, SumTakeOut
    <3>4. SumFunctionOnSet(f, (s \ {a}) \cap R) <= SumFunctionOnSet(f, s \ {a})
      BY <1>1
    <3>5. (s \ {a}) \cap R = (s \cap R) \ {a}
      OBVIOUS
    <3>6. SumFunctionOnSet(f, s \ {a}) \in Nat /\ SumFunctionOnSet(f, (s \cap R) \ {a}) \in Nat
      BY <3>2, SumNat
    <3>7. CASE a \in R
      <4>1. SumFunctionOnSet(f, s \cap R) = f[a] + SumFunctionOnSet(f, (s \cap R) \ {a})
        BY <3>1, <3>2, <3>7, SumTakeOut
      <4> QED BY <3>1, <3>3, <3>4, <3>5, <3>6, <4>1
    <3>8. CASE a \notin R
      <4>1. (s \cap R) \ {a} = s \cap R
        BY <3>8
      <4>2. /\ SumFunctionOnSet(f, (s \ {a}) \cap R) = SumFunctionOnSet(f, s \cap R)
            /\ SumFunctionOnSet(f, s \cap R) \in Nat
        BY <3>5, <3>6, <4>1
      <4>3. f[a] \in Nat
        BY <3>1
      <4> QED BY <3>3, <3>4, <3>6, <4>2, <4>3
    <3> QED BY <3>7, <3>8
  <2> QED BY <2>1, <2>2
<1>2. S \in T
  <2> HIDE DEF T
  <2> QED BY <1>1, SubsetInduction
<1>3. S \cap R = R
  OBVIOUS
<1> QED BY <1>2, <1>3

LEMMA SumMonotonic ==
  ASSUME NEW S, IsFiniteSet(S), NEW f, NEW g,
         \A x \in S : f[x] \in Int /\ g[x] \in Int /\ f[x] <= g[x]
  PROVE  SumFunctionOnSet(f, S) <= SumFunctionOnSet(g, S)
<1> DEFINE d == [x \in S |-> g[x] - f[x]]
<1>1. \A x \in S : f[x] \in Int /\ d[x] \in Nat /\ d[x] \in Int /\ g[x] = f[x] + d[x]
  OBVIOUS
<1> HIDE DEF d
<1>2. SumFunctionOnSet(g, S) = SumFunctionOnSet(f, S) + SumFunctionOnSet(d, S)
  BY <1>1, SumAdd
<1>3. SumFunctionOnSet(d, S) \in Nat
  BY <1>1, SumNat
<1>4. SumFunctionOnSet(f, S) \in Int
  BY SumType
<1> QED BY <1>2, <1>3, <1>4

\* What a change of one value does to the sum.
LEMMA SumChangeOne ==
  ASSUME NEW S, IsFiniteSet(S), NEW f, \A x \in S : f[x] \in Int, NEW a \in S,
         NEW g, g[a] \in Int, \A x \in S \ {a} : g[x] = f[x]
  PROVE  SumFunctionOnSet(g, S) = SumFunctionOnSet(f, S) - f[a] + g[a]
<1>1. IsFiniteSet(S \ {a})
  BY FS_Subset
<1>2. SumFunctionOnSet(f, S \ {a}) \in Int
  BY <1>1, SumType
<1>3. SumFunctionOnSet(f, S \ {a}) = SumFunctionOnSet(g, S \ {a})
  BY <1>1, SumCongruence
<1>4. SumFunctionOnSet(f, S) = f[a] + SumFunctionOnSet(f, S \ {a})
  BY SumTakeOut
<1>5. SumFunctionOnSet(g, S) = g[a] + SumFunctionOnSet(g, S \ {a})
  <2>1. \A x \in S : g[x] \in Int
    OBVIOUS
  <2> QED BY <2>1, SumTakeOut
<1>6. f[a] \in Int
  OBVIOUS
<1> QED BY <1>2, <1>3, <1>4, <1>5, <1>6

=============================================================================
