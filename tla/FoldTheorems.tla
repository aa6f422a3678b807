----------------------------- MODULE FoldTheorems -----------------------------
(***************************************************************************)
(* What proofs about loops rest on: induction over numbers and finite      *)
(* sets, stated about sets so that the provers can instantiate it, and     *)
(* what it gives: that the folds of the community modules are what their   *)
(* definitions say, step by step.                                          *)
(***************************************************************************)
EXTENDS Integers, SequencesExt, FiniteSetTheorems, SequenceTheorems, WellFoundedInduction, TLAPS

-------------------------------------------------------------------------------
(* Numbers.                                                                *)

\* A set of numbers has a least one: the intervals below its numbers are finite
\* sets, and strict inclusion of those is well-founded.
LEMMA LeastOf ==
    ASSUME NEW S \in SUBSET Nat, S # {}
    PROVE  \E m \in S : \A x \in S : m <= x
<1> DEFINE T == {0..(n - 1) : n \in S}
<1>1. T \in SUBSET FiniteSubsetsOf(Nat)
  <2> SUFFICES ASSUME NEW n \in S
               PROVE  0..(n - 1) \in FiniteSubsetsOf(Nat)
    OBVIOUS
  <2>1. 0 \in Int /\ n - 1 \in Int
    OBVIOUS
  <2>2. IsFiniteSet(0..(n - 1))
    BY <2>1, FS_Interval
  <2> QED
    BY <2>2 DEF FiniteSubsetsOf
<1>2. T # {}
  OBVIOUS
<1> HIDE DEF T
<1>3. PICK t \in T : \A u \in T : <<u, t>> \notin StrictSubsetOrdering(Nat)
  BY <1>1, <1>2, WFMin, FS_StrictSubsetOrderingWellFounded
<1>4. PICK m \in S : t = 0..(m - 1)
  BY DEF T
<1>5. ASSUME NEW x \in S, ~ (m <= x)
      PROVE  FALSE
  <2>1. 0..(x - 1) \in T
    BY DEF T
  <2>2. 0..(x - 1) \subseteq 0..(m - 1) /\ x \in 0..(m - 1) /\ x \notin 0..(x - 1)
    BY <1>5
  <2>3. <<0..(x - 1), t>> \in StrictSubsetOrdering(Nat)
    BY <1>4, <2>2 DEF StrictSubsetOrdering
  <2> QED
    BY <1>3, <2>1, <2>3
<1> QED
  BY <1>5

\* Induction: a set that has 0, and the next number of each of its numbers, has
\* them all.  Instances take the set of the numbers something holds for.
LEMMA SetInduction ==
    ASSUME NEW S \in SUBSET Nat, 0 \in S, \A n \in S : n + 1 \in S
    PROVE  S = Nat
<1> SUFFICES ASSUME Nat \ S # {}
             PROVE  FALSE
  OBVIOUS
<1>1. PICK m \in Nat \ S : \A x \in Nat \ S : m <= x
  BY LeastOf
<1>2. m # 0 /\ m - 1 \in Nat /\ m - 1 \in S
  BY <1>1
<1> QED
  BY <1>1, <1>2

\* A bounded set of numbers has a greatest one, and Max is it.
LEMMA MaxOf ==
    ASSUME NEW n \in Nat, NEW S \in SUBSET (0..n), S # {}
    PROVE  Max(S) \in S /\ \A x \in S : x <= Max(S)
<1> DEFINE R == {k \in Nat : n - k \in S}
<1>1. R \in SUBSET Nat /\ R # {}
  <2>1. PICK x \in S : TRUE
    OBVIOUS
  <2>2. n - x \in Nat /\ n - (n - x) = x
    BY <2>1
  <2>3. n - x \in R
    BY <2>2
  <2> QED
    BY <2>3
<1>2. PICK m \in R : \A x \in R : m <= x
  BY <1>1, LeastOf
<1>3. m \in Nat /\ n - m \in S
  OBVIOUS
<1>4. ASSUME NEW x \in S
      PROVE  n - m >= x
  <2>1. x \in Int /\ n - x \in Nat /\ n - (n - x) = x
    OBVIOUS
  <2>2. m <= n - x
    BY <1>2, <2>1
  <2> QED
    BY <1>3, <2>1, <2>2
<1>5. \E y \in S : \A x \in S : y >= x
  BY <1>3, <1>4
<1>6. Max(S) \in S /\ \A x \in S : Max(S) >= x
  BY <1>5, Zenon DEF Max
<1>7. \A x, y \in S : y >= x => x <= y
  OBVIOUS
<1> QED
  BY <1>6, <1>7

LEMMA MinOf ==
    ASSUME NEW S \in SUBSET Nat, S # {}
    PROVE  Min(S) \in S /\ \A x \in S : Min(S) <= x
BY LeastOf DEF Min

\* The number of a set's elements is a number, and 0 for the empty set only.
LEMMA CardinalityIs ==
    ASSUME NEW S, IsFiniteSet(S)
    PROVE  Cardinality(S) \in Nat /\ (Cardinality(S) = 0 <=> S = {})
BY FS_CardinalityType, FS_EmptySet
-------------------------------------------------------------------------------
(* Sequences.                                                              *)

LEMMA CountTo ==
    ASSUME NEW n \in Nat
    PROVE  IsFiniteSet(0..(n - 1)) /\ Cardinality(0..(n - 1)) = n
<1>1. 0 \in Int /\ n - 1 \in Int
  OBVIOUS
<1>2. Cardinality(0..(n - 1)) = IF 0 > n - 1 THEN 0 ELSE (n - 1) - 0 + 1
  BY <1>1, FS_Interval, Zenon
<1>3. (IF 0 > n - 1 THEN 0 ELSE (n - 1) - 0 + 1) = n
  OBVIOUS
<1> QED
  BY <1>1, <1>2, <1>3, FS_Interval

\* What is left of a sequence without its first m elements.
LEMMA RestOf ==
    ASSUME NEW T, NEW s \in Seq(T), NEW m \in Nat, m <= Len(s)
    PROVE  /\ SubSeq(s, m + 1, Len(s)) \in Seq(T)
           /\ Len(SubSeq(s, m + 1, Len(s))) = Len(s) - m
           /\ \A i \in 1..(Len(s) - m) : SubSeq(s, m + 1, Len(s))[i] = s[m + i]
<1> DEFINE n == Len(s)
<1>1. n \in Nat /\ \A i \in 1..n : s[i] \in T
  OBVIOUS
<1> HIDE DEF n
<1>2. /\ SubSeq(s, m + 1, n) \in Seq(T)
      /\ Len(SubSeq(s, m + 1, n)) = (IF m + 1 <= n THEN n - (m + 1) + 1 ELSE 0)
      /\ \A i \in 1..(n - (m + 1) + 1) : SubSeq(s, m + 1, n)[i] = s[(m + 1) + i - 1]
  <2>1. m + 1 \in Int /\ n \in Int
    BY <1>1
  <2>2. \A i \in (m + 1)..n : s[i] \in T
    BY <1>1
  <2> QED
    BY <2>1, <2>2, SubSeqProperties
<1>3. m <= n
  BY DEF n
<1>4. (IF m + 1 <= n THEN n - (m + 1) + 1 ELSE 0) = n - m /\ n - (m + 1) + 1 = n - m
  BY <1>1, <1>3
<1>5. \A i \in 1..(n - m) : (m + 1) + i - 1 = m + i
  BY <1>1
<1> QED
  BY <1>1, <1>2, <1>3, <1>4, <1>5 DEF n

\* A sequence without its k-th element.
LEMMA RemovedAt ==
    ASSUME NEW T, NEW s \in Seq(T), NEW k \in 1..Len(s)
    PROVE  /\ RemoveAt(s, k) \in Seq(T) /\ Len(RemoveAt(s, k)) = Len(s) - 1
           /\ \A i \in 1..(Len(s) - 1) :
                 RemoveAt(s, k)[i] = IF i < k THEN s[i] ELSE s[i + 1]
<1> DEFINE n == Len(s)
           a == SubSeq(s, 1, k - 1)
           b == SubSeq(s, k + 1, Len(s))
<1>1. n \in Nat /\ k \in 1..n
  OBVIOUS
<1>2. a \in Seq(T) /\ Len(a) = k - 1 /\ \A i \in 1..(k - 1) : a[i] = s[i]
  BY SubSeqProperties
<1>3. b \in Seq(T) /\ Len(b) = n - k /\ \A i \in 1..(n - k) : b[i] = s[k + i]
  <2>1. k \in Nat /\ k <= Len(s)
    OBVIOUS
  <2> QED
    BY <2>1, RestOf
<1>4. RemoveAt(s, k) = a \o b
  BY DEF RemoveAt
<1>5. n = Len(s)
  OBVIOUS
<1> HIDE DEF n, a, b
<1>6. /\ a \o b \in Seq(T) /\ Len(a \o b) = Len(a) + Len(b)
      /\ \A i \in 1..(Len(a) + Len(b)) :
            (a \o b)[i] = IF i <= Len(a) THEN a[i] ELSE b[i - Len(a)]
  BY <1>2, <1>3, ConcatProperties
<1>7. Len(a) + Len(b) = n - 1
  BY <1>1, <1>2, <1>3
<1>8. \A i \in 1..(n - 1) : (a \o b)[i] = IF i < k THEN s[i] ELSE s[i + 1]
  <2> SUFFICES ASSUME NEW i \in 1..(n - 1)
               PROVE  (a \o b)[i] = IF i < k THEN s[i] ELSE s[i + 1]
    OBVIOUS
  <2>1. (a \o b)[i] = IF i <= k - 1 THEN a[i] ELSE b[i - (k - 1)]
    BY <1>2, <1>6, <1>7
  <2>2. CASE i < k
    <3>1. i <= k - 1 /\ i \in 1..(k - 1)
      BY <1>1, <2>2
    <3> QED
      BY <1>2, <2>1, <2>2, <3>1
  <2>3. CASE ~ (i < k)
    <3>1. ~ (i <= k - 1) /\ i - (k - 1) \in 1..(n - k) /\ k + (i - (k - 1)) = i + 1
      BY <1>1, <2>3
    <3> QED
      BY <1>3, <2>1, <2>3, <3>1
  <2> QED
    BY <2>2, <2>3
<1> QED
  BY <1>4, <1>5, <1>6, <1>7, <1>8

\* A function on 1..n is a sequence.
LEMMA AsSequence ==
    ASSUME NEW T, NEW n \in Nat, NEW x \in [1..n -> T]
    PROVE  x \in Seq(T) /\ Len(x) = n /\ DOMAIN x = 1..n
OBVIOUS

\* Two sequences put together, as a function.
LEMMA CatIs ==
    ASSUME NEW T, NEW a \in Seq(T), NEW b \in Seq(T)
    PROVE  a \o b = [i \in 1..(Len(a) + Len(b)) |-> IF i <= Len(a) THEN a[i] ELSE b[i - Len(a)]]
<1> DEFINE c == a \o b
           n == Len(a) + Len(b)
<1>1. /\ c \in Seq(T) /\ Len(c) = n
      /\ \A i \in 1..n : c[i] = IF i <= Len(a) THEN a[i] ELSE b[i - Len(a)]
  BY ConcatProperties
<1> HIDE DEF c
<1>2. c = [i \in 1..n |-> c[i]]
  BY <1>1
<1>3. c = [i \in 1..n |-> IF i <= Len(a) THEN a[i] ELSE b[i - Len(a)]]
  BY <1>1, <1>2
<1> QED
  BY <1>3 DEF c

\* s lists elements of d by their ranks, the greatest first.
Descends(s, d, t) == /\ s \in [1..Cardinality(d) -> d]
                     /\ \A i, j \in 1..Cardinality(d) : i < j => t[s[i]] > t[s[j]]

\* A finite set whose elements have different ranks can be listed so: the one of
\* the greatest rank, and then the others.
LEMMA DescendingExists ==
    ASSUME NEW D, IsFiniteSet(D), NEW b \in Nat, NEW t \in [D -> 0..b],
           \A x, y \in D : t[x] = t[y] => x = y
    PROVE  \E s : Descends(s, D, t)
<1> DEFINE S == {n \in Nat : \A d \in SUBSET D : Cardinality(d) = n => \E s : Descends(s, d, t)}
<1>1. \A d \in SUBSET D : IsFiniteSet(d) /\ Cardinality(d) \in Nat
                          /\ (Cardinality(d) = 0 <=> d = {})
  <2> TAKE d \in SUBSET D
  <2>1. IsFiniteSet(d)
    BY FS_Subset
  <2> QED
    BY <2>1, CardinalityIs
<1>2. 0 \in S
  <2> SUFFICES ASSUME NEW d \in SUBSET D, Cardinality(d) = 0
               PROVE  \E s : Descends(s, d, t)
    OBVIOUS
  <2> DEFINE s == [i \in 1..0 |-> 0]
  <2>1. 1..Cardinality(d) = 1..0 /\ 1..0 = {}
    OBVIOUS
  <2>2. s \in [1..Cardinality(d) -> d]
    BY <2>1
  <2>3. Descends(s, d, t)
    BY <2>1, <2>2 DEF Descends
  <2> QED
    BY <2>3
<1>3. ASSUME NEW n \in S
      PROVE  n + 1 \in S
  <2> SUFFICES ASSUME NEW d \in SUBSET D, Cardinality(d) = n + 1
               PROVE  \E s : Descends(s, d, t)
    OBVIOUS
  <2> DEFINE ranks == {t[x] : x \in d}
  <2>1. ranks \in SUBSET (0..b) /\ ranks # {}
    BY <1>1
  <2>2. Max(ranks) \in ranks /\ \A r \in ranks : r <= Max(ranks)
    BY <2>1, MaxOf
  <2>3. PICK x \in d : t[x] = Max(ranks)
    BY <2>2
  <2>4. \A y \in d \ {x} : t[y] < t[x]
    <3> TAKE y \in d \ {x}
    <3>1. t[y] \in ranks /\ t[y] \in 0..b /\ t[x] \in 0..b /\ t[y] # t[x]
      OBVIOUS
    <3> HIDE DEF ranks
    <3>2. t[y] <= t[x]
      BY <2>2, <2>3, <3>1
    <3> QED
      BY <3>1, <3>2
  <2> DEFINE e == d \ {x}
  <2>5. e \in SUBSET D /\ Cardinality(e) = n
    BY <1>1, FS_RemoveElement
  <2> HIDE DEF ranks
  <2>6. PICK r : Descends(r, e, t)
    BY <2>5
  <2>7. r \in [1..n -> e] /\ \A i, j \in 1..n : i < j => t[r[i]] > t[r[j]]
    BY <2>5, <2>6 DEF Descends
  <2> DEFINE s == [i \in 1..(n + 1) |-> IF i = 1 THEN x ELSE r[i - 1]]
  <2>8. \A i \in 1..(n + 1) : i # 1 => i - 1 \in 1..n /\ s[i] = r[i - 1] /\ r[i - 1] \in e
    BY <2>7
  <2>9. s[1] = x /\ s \in [1..(n + 1) -> d]
    BY <2>8
  <2> HIDE DEF s
  <2>10. ASSUME NEW i \in 1..(n + 1), NEW j \in 1..(n + 1), i < j
         PROVE  t[s[i]] > t[s[j]]
    <3>1. j # 1 /\ s[j] = r[j - 1] /\ r[j - 1] \in e /\ j - 1 \in 1..n
      BY <2>8, <2>10
    <3>2. CASE i = 1
      <4>1. t[x] \in 0..b /\ t[r[j - 1]] \in 0..b /\ t[r[j - 1]] < t[x]
        BY <2>4, <3>1
      <4> QED
        BY <2>9, <3>1, <3>2, <4>1
    <3>3. CASE i # 1
      <4>1. s[i] = r[i - 1] /\ i - 1 \in 1..n /\ i - 1 < j - 1
        BY <2>8, <2>10, <3>3
      <4> QED
        BY <2>7, <3>1, <4>1
    <3> QED
      BY <3>2, <3>3
  <2>11. Descends(s, d, t)
    BY <2>9, <2>10 DEF Descends
  <2> QED
    BY <2>11
<1> HIDE DEF S
<1>4. S = Nat
  <2>1. S \in SUBSET Nat
    BY DEF S
  <2> QED
    BY <1>2, <1>3, <2>1, SetInduction
<1>5. D \in SUBSET D /\ Cardinality(D) \in S
  BY <1>1, <1>4
<1> QED
  BY <1>5 DEF S

\* It lists them all.
LEMMA DescendingAll ==
    ASSUME NEW D, IsFiniteSet(D), NEW t \in [D -> Nat], NEW s, Descends(s, D, t)
    PROVE  \A x \in D : \E i \in 1..Cardinality(D) : s[i] = x
<1>1. PICK n \in Nat : n = Cardinality(D)
  BY CardinalityIs
<1>2. s \in [1..n -> D] /\ \A i, j \in 1..n : i < j => t[s[i]] > t[s[j]]
  BY <1>1 DEF Descends
<1>3. \A i, j \in 1..n : s[i] = s[j] => i = j
  <2> SUFFICES ASSUME NEW i \in 1..n, NEW j \in 1..n, s[i] = s[j], i # j
               PROVE  FALSE
    OBVIOUS
  <2>1. t[s[i]] \in Nat /\ (i < j \/ j < i)
    BY <1>2
  <2> QED
    BY <1>2, <2>1
<1>4. s \in Injection(1..n, D)
  BY <1>2, <1>3 DEF Injection, IsInjective
<1>5. IsFiniteSet(1..n) /\ Cardinality(1..n) = n
  <2>1. 1 \in Int /\ n \in Int
    BY <1>1
  <2>2. Cardinality(1..n) = IF 1 > n THEN 0 ELSE n - 1 + 1
    BY <2>1, FS_Interval, Zenon
  <2>3. (IF 1 > n THEN 0 ELSE n - 1 + 1) = n
    BY <1>1
  <2> QED
    BY <2>1, <2>2, <2>3, FS_Interval
<1>6. s \in Surjection(1..n, D)
  BY <1>1, <1>4, <1>5, FS_Injection
<1> QED
  BY <1>1, <1>6 DEF Surjection
-------------------------------------------------------------------------------
(* Folds.                                                                  *)

\* pick takes an element of each subset of D; G takes one and a value of T to one.
Picks(pick, D)     == \A d \in SUBSET D : d # {} => pick[d] \in d
Closed(G, D, T)    == \A x \in D, v \in T : G[<<x, v>>] \in T

\* it is what a fold over each subset of D gives.
IsFold(it, D, base, pick, G) ==
    it = [d \in SUBSET D |-> IF d = {} THEN base
                             ELSE G[<<pick[d], it[d \ {pick[d]}]>>]]

\* What a fold over a set is at each of its subsets: the recursion has a solution.
LEMMA FoldExists ==
    ASSUME NEW D, IsFiniteSet(D), NEW T, NEW base \in T,
           NEW pick, Picks(pick, D), NEW G, Closed(G, D, T)
    PROVE  \E it \in [SUBSET D -> T] : IsFold(it, D, base, pick, G)
<1> USE DEF Picks, Closed
<1> DEFINE Body(it, d) == IF d = {} THEN base ELSE G[<<pick[d], it[d \ {pick[d]}]>>]
           Upto(n) == \E it \in [SUBSET D -> T] :
                         \A d \in SUBSET D : Cardinality(d) <= n => it[d] = Body(it, d)
           S == {n \in Nat : Upto(n)}
<1>1. \A d \in SUBSET D : IsFiniteSet(d) /\ Cardinality(d) \in Nat
                          /\ (Cardinality(d) = 0 <=> d = {})
  <2> TAKE d \in SUBSET D
  <2>1. IsFiniteSet(d)
    BY FS_Subset
  <2> QED
    BY <2>1, CardinalityIs
<1>2. 0 \in S
  <2> DEFINE it == [d \in SUBSET D |-> base]
  <2>1. it \in [SUBSET D -> T]
    OBVIOUS
  <2>2. \A d \in SUBSET D : Cardinality(d) <= 0 => it[d] = Body(it, d)
    BY <1>1
  <2> QED
    BY <2>1, <2>2
<1>3. ASSUME NEW n \in S
      PROVE  n + 1 \in S
  <2>1. PICK it \in [SUBSET D -> T] :
              \A d \in SUBSET D : Cardinality(d) <= n => it[d] = Body(it, d)
    OBVIOUS
  <2> DEFINE next == [d \in SUBSET D |-> IF Cardinality(d) <= n THEN it[d] ELSE Body(it, d)]
  <2>2. \A d \in SUBSET D : d # {} => pick[d] \in d /\ pick[d] \in D /\ d \ {pick[d]} \in SUBSET D
    OBVIOUS
  <2>3. \A d \in SUBSET D : d # {} => it[d \ {pick[d]}] \in T
    BY <2>2
  <2>4. \A d \in SUBSET D : Body(it, d) \in T
    BY <2>2, <2>3
  <2>5. next \in [SUBSET D -> T]
    BY <2>4
  <2>6. ASSUME NEW d \in SUBSET D, Cardinality(d) <= n + 1
        PROVE  next[d] = Body(next, d)
    <3>1. next[d] = Body(it, d)
      BY <2>1
    <3>2. CASE d = {}
      BY <3>1, <3>2
    <3>3. CASE d # {}
      <4> DEFINE e == d \ {pick[d]}
      <4>1. e \in SUBSET D /\ Cardinality(e) = Cardinality(d) - 1
        BY <1>1, <2>2, <3>3, FS_RemoveElement
      <4>2. Cardinality(e) <= n
        BY <1>1, <2>6, <4>1
      <4>3. next[e] = it[e]
        BY <4>1, <4>2
      <4> QED
        BY <3>1, <3>3, <4>3
    <3> QED
      BY <3>2, <3>3
  <2> HIDE DEF next, Body
  <2> QED
    BY <2>5, <2>6
<1> HIDE DEF S
<1>4. S = Nat
  <2>1. S \in SUBSET Nat
    BY DEF S
  <2> QED
    BY <1>2, <1>3, <2>1, SetInduction
<1>5. Cardinality(D) \in Nat
  BY <1>1
<1>6. PICK it \in [SUBSET D -> T] :
            \A d \in SUBSET D : Cardinality(d) <= Cardinality(D) => it[d] = Body(it, d)
  BY <1>4, <1>5 DEF S
<1>7. \A d \in SUBSET D : it[d] = Body(it, d)
  <2> TAKE d \in SUBSET D
  <2>1. Cardinality(d) <= Cardinality(D)
    BY FS_Subset
  <2> QED
    BY <1>6, <2>1
<1>8. it = [d \in SUBSET D |-> Body(it, d)]
  BY <1>7
<1> QED
  BY <1>8 DEF IsFold

\* The prefixes 1..k of an interval: the greatest number is the last.
LEMMA Segments ==
    ASSUME NEW n \in Nat, NEW k \in 1..n
    PROVE  /\ 1..k \in SUBSET (1..n) /\ 1..k # {}
           /\ Max(1..k) = k /\ (1..k) \ {k} = 1..(k - 1)
<1>1. k \in 1..k /\ 1..k \in SUBSET (1..n) /\ 1..k \in SUBSET (0..n) /\ 1..k # {}
  <2>1. k \in 1..k
    OBVIOUS
  <2>2. 1..k \subseteq 1..n /\ 1..n \subseteq 0..n
    OBVIOUS
  <2> QED
    BY <2>1, <2>2
<1>2. Max(1..k) \in 1..k /\ \A x \in 1..k : x <= Max(1..k)
  BY <1>1, MaxOf
<1>3. Max(1..k) = k
  BY <1>1, <1>2
<1> QED
  BY <1>1, <1>3

IsLeftFold(it, n, base, G) ==
    it = [d \in SUBSET (1..n) |-> IF d = {} THEN base
                                  ELSE G[<<Max(d), it[d \ {Max(d)}]>>]]

\* A fold of a sequence from the left: the recursion of FoldLeft has a solution.
LEMMA FoldLeftExists ==
    ASSUME NEW n \in Nat, NEW T, NEW base \in T,
           NEW G, Closed(G, 1..n, T)
    PROVE  \E it \in [SUBSET (1..n) -> T] : IsLeftFold(it, n, base, G)
<1> DEFINE D == 1..n
           pick == [d \in SUBSET D |-> Max(d)]
<1>1. IsFiniteSet(D)
  BY FS_Interval
<1>2. Picks(pick, D)
  <2> SUFFICES ASSUME NEW d \in SUBSET D, d # {}
               PROVE  Max(d) \in d
    BY DEF Picks
  <2>1. d \in SUBSET (0..n)
    OBVIOUS
  <2> QED
    BY <2>1, MaxOf
<1> HIDE DEF D, pick
<1>3. Closed(G, D, T)
  BY DEF D
<1>4. PICK it \in [SUBSET D -> T] : IsFold(it, D, base, pick, G)
  BY <1>1, <1>2, <1>3, FoldExists
<1>5. it = [d \in SUBSET D |-> IF d = {} THEN base ELSE G[<<Max(d), it[d \ {Max(d)}]>>]]
  <2>1. \A d \in SUBSET D : pick[d] = Max(d)
    BY DEF pick
  <2>2. \A d \in SUBSET D : (IF d = {} THEN base ELSE G[<<pick[d], it[d \ {pick[d]}]>>])
                 = (IF d = {} THEN base ELSE G[<<Max(d), it[d \ {Max(d)}]>>])
    BY <2>1
  <2> QED
    BY <1>4, <2>2 DEF IsFold
<1> QED
  BY <1>5 DEF D, IsLeftFold

\* c is what such a fold is after each of the n elements.
Steps(c, n, T, base, G) == /\ c \in [0..n -> T] /\ c[0] = base
                           /\ \A k \in 1..n : c[k] = G[<<k, c[k - 1]>>]

Recurses(f, n, T, base, G) ==
    /\ f[{}] = base
    /\ \A k \in 1..n : f[1..(k - 1)] \in T => f[1..k] = G[<<k, f[1..(k - 1)]>>]

HasSteps(f, n, T, base, G) == \E c : Steps(c, n, T, base, G) /\ f[1..n] = c[n]

\* What solves the recursion, whatever it is elsewhere, is a chain on the prefixes.
LEMMA FoldSteps ==
    ASSUME NEW n \in Nat, NEW T, NEW base \in T, NEW G, Closed(G, 1..n, T),
           NEW f, Recurses(f, n, T, base, G)
    PROVE  HasSteps(f, n, T, base, G)
<1> DEFINE c == [k \in 0..n |-> f[1..k]]
<1>1. f[1..0] = base
  <2>1. 1..0 = {}
    OBVIOUS
  <2> QED
    BY <2>1 DEF Recurses
<1>2. ASSUME NEW k \in 1..n, f[1..(k - 1)] \in T
      PROVE  f[1..k] = G[<<k, f[1..(k - 1)]>>]
  BY <1>2 DEF Recurses
<1>3. \A k \in 0..n : f[1..k] \in T
  <2> DEFINE S == {k \in Nat : k <= n => f[1..k] \in T}
  <2>1. 0 \in S
    BY <1>1
  <2>2. ASSUME NEW k \in S
        PROVE  k + 1 \in S
    <3>1. CASE k + 1 <= n
      <4>1. k + 1 \in 1..n /\ (k + 1) - 1 = k /\ k <= n
        BY <3>1
      <4>2. f[1..k] \in T /\ f[1..(k + 1)] = G[<<k + 1, f[1..k]>>]
        BY <1>2, <4>1
      <4>3. f[1..(k + 1)] \in T
        BY <4>1, <4>2 DEF Closed
      <4> QED
        BY <4>3
    <3>2. CASE ~ (k + 1 <= n)
      BY <3>2
    <3> QED
      BY <3>1, <3>2
  <2> HIDE DEF S
  <2>3. S = Nat
    <3>1. S \in SUBSET Nat
      BY DEF S
    <3> QED
      BY <2>1, <2>2, <3>1, SetInduction
  <2> QED
    BY <2>3 DEF S
<1>4. c \in [0..n -> T]
  BY <1>3
<1>5. c[0] = base /\ \A k \in 1..n : c[k] = G[<<k, c[k - 1]>>]
  <2>1. \A k \in 1..n : k - 1 \in 0..n /\ k \in 0..n
    OBVIOUS
  <2>2. \A k \in 1..n : f[1..k] = G[<<k, f[1..(k - 1)]>>]
    BY <1>2, <1>3, <2>1
  <2> QED
    BY <1>1, <2>1, <2>2
<1>6. f[1..n] = c[n]
  OBVIOUS
<1> QED
  BY <1>4, <1>5, <1>6 DEF Steps, HasSteps

\* P has what a fold starts with, and what an element makes of what P has.
Kept(P, n, T, base, G) ==
    /\ <<0, base>> \in P
    /\ \A k \in 1..n, v \in T : <<k - 1, v>> \in P => <<k, G[<<k, v>>]>> \in P

\* What holds at the start of a fold, and after an element when it held before
\* it, holds at the end.
LEMMA StepsKeep ==
    ASSUME NEW n \in Nat, NEW T, NEW base, NEW G, NEW c, Steps(c, n, T, base, G),
           NEW P, Kept(P, n, T, base, G)
    PROVE  \A k \in 0..n : <<k, c[k]>> \in P
<1> DEFINE S == {k \in Nat : k <= n => <<k, c[k]>> \in P}
<1>1. 0 \in S
  BY DEF Steps, Kept
<1>2. ASSUME NEW k \in S
      PROVE  k + 1 \in S
  <2>1. CASE k + 1 <= n
    <3>1. k + 1 \in 1..n /\ (k + 1) - 1 = k /\ k <= n /\ k \in 0..n
      BY <2>1
    <3>2. <<k, c[k]>> \in P /\ c[k] \in T /\ c[k + 1] = G[<<k + 1, c[k]>>]
      BY <3>1 DEF Steps
    <3>3. <<k + 1, c[k + 1]>> \in P
      BY <3>1, <3>2 DEF Kept
    <3> QED
      BY <3>3
  <2>2. CASE ~ (k + 1 <= n)
    BY <2>2
  <2> QED
    BY <2>1, <2>2
<1> HIDE DEF S
<1>3. S = Nat
  <2>1. S \in SUBSET Nat
    BY DEF S
  <2> QED
    BY <1>1, <1>2, <2>1, SetInduction
<1> QED
  BY <1>3 DEF S
-------------------------------------------------------------------------------
(* Sums.                                                                   *)

SumOf(s) == FoldLeft(LAMBDA a, b : a + b, 0, s)

\* r is the sums of the prefixes of s.
Sums(s, r) == /\ r \in [0..Len(s) -> Nat] /\ r[0] = 0
              /\ \A k \in 1..Len(s) : r[k] = r[k - 1] + s[k]

LEMMA SumsExist ==
    ASSUME NEW s \in Seq(Nat)
    PROVE  \E r : Sums(s, r) /\ SumOf(s) = r[Len(s)]
<1> DEFINE n == Len(s)
           G == [x \in (1..n) \X Nat |-> x[2] + s[x[1]]]
<1>1. n \in Nat /\ DOMAIN s = 1..n /\ \A x \in 1..n : s[x] \in Nat
  OBVIOUS
<1>2. \A x \in 1..n, v \in Nat : G[<<x, v>>] = v + s[x] /\ G[<<x, v>>] \in Nat
  BY <1>1
<1>3. Closed(G, 1..n, Nat)
  BY <1>2 DEF Closed
<1> HIDE DEF n, G
<1>4. PICK it \in [SUBSET (1..n) -> Nat] : IsLeftFold(it, n, 0, G)
  BY <1>1, <1>3, FoldLeftExists
<1>5. \A f \in [SUBSET (1..n) -> Nat], d \in SUBSET (1..n) : d # {} =>
            G[<<Max(d), f[d \ {Max(d)}]>>] = f[d \ {Max(d)}] + s[Max(d)]
  <2> SUFFICES ASSUME NEW f \in [SUBSET (1..n) -> Nat], NEW d \in SUBSET (1..n), d # {}
               PROVE  G[<<Max(d), f[d \ {Max(d)}]>>] = f[d \ {Max(d)}] + s[Max(d)]
    OBVIOUS
  <2>1. d \in SUBSET (0..n)
    BY <1>1
  <2>2. Max(d) \in 1..n
    BY <1>1, <2>1, MaxOf
  <2> QED
    BY <1>2, <2>2
<1>6. it = [d \in SUBSET (1..n) |-> IF d = {} THEN 0 ELSE it[d \ {Max(d)}] + s[Max(d)]]
  <2>1. \A d \in SUBSET (1..n) : (IF d = {} THEN 0 ELSE G[<<Max(d), it[d \ {Max(d)}]>>])
                = (IF d = {} THEN 0 ELSE it[d \ {Max(d)}] + s[Max(d)])
    BY <1>5
  <2> QED
    BY <1>4, <2>1 DEF IsLeftFold
<1>7. PICK f : /\ f = [d \in SUBSET (1..n) |-> IF d = {} THEN 0 ELSE f[d \ {Max(d)}] + s[Max(d)]]
               /\ SumOf(s) = f[1..n]
  <2>1. \E f : /\ f = [d \in SUBSET (1..n) |-> IF d = {} THEN 0 ELSE f[d \ {Max(d)}] + s[Max(d)]]
               /\ SumOf(s) = f[1..n]
    BY <1>1, <1>6 DEF SumOf, FoldLeft, MapThenFoldSet
  <2> QED
    BY <2>1
<1>8. f[{}] = 0
  <2>1. {} \in SUBSET (1..n)
    OBVIOUS
  <2> QED
    BY <1>7, <2>1
<1>9. ASSUME NEW k \in 1..n, f[1..(k - 1)] \in Nat
      PROVE  f[1..k] = f[1..(k - 1)] + s[k] /\ f[1..k] = G[<<k, f[1..(k - 1)]>>]
  <2>1. /\ 1..k \in SUBSET (1..n) /\ 1..k # {}
        /\ Max(1..k) = k /\ (1..k) \ {k} = 1..(k - 1)
    BY <1>1, Segments
  <2>2. f[1..k] = f[1..(k - 1)] + s[k]
    BY <1>7, <2>1
  <2> QED
    BY <1>2, <1>9, <2>2
<1>a. Recurses(f, n, Nat, 0, G)
  BY <1>8, <1>9 DEF Recurses
<1>10. PICK c : Steps(c, n, Nat, 0, G) /\ f[1..n] = c[n]
  <2>1. n \in Nat /\ 0 \in Nat
    BY <1>1
  <2>2. HasSteps(f, n, Nat, 0, G)
    BY <2>1, <1>3, <1>a, FoldSteps
  <2> QED
    BY <2>2 DEF HasSteps
<1>11. c \in [0..n -> Nat] /\ c[0] = 0 /\ \A k \in 1..n : c[k] = c[k - 1] + s[k]
  <2>1. \A k \in 1..n : k - 1 \in 0..n
    BY <1>1
  <2> QED
    BY <1>2, <1>10, <2>1 DEF Steps
<1>12. Sums(s, c) /\ SumOf(s) = c[n]
  BY <1>7, <1>10, <1>11 DEF Sums, n
<1> QED
  BY <1>12 DEF n

\* They are the only ones.
LEMMA SumsUnique ==
    ASSUME NEW s \in Seq(Nat), NEW r, Sums(s, r)
    PROVE  SumOf(s) = r[Len(s)]
<1>1. PICK q : Sums(s, q) /\ SumOf(s) = q[Len(s)]
  BY SumsExist
<1> DEFINE n == Len(s)
           S == {k \in Nat : k <= n => q[k] = r[k]}
<1>2. n \in Nat
  OBVIOUS
<1>3. 0 \in S
  BY <1>1 DEF Sums
<1>4. ASSUME NEW k \in S
      PROVE  k + 1 \in S
  <2>1. CASE k + 1 <= n
    <3>1. k + 1 \in 1..n /\ (k + 1) - 1 = k /\ k <= n
      BY <1>2, <2>1
    <3> QED
      BY <1>1, <3>1 DEF Sums
  <2>2. CASE ~ (k + 1 <= n)
    BY <2>2
  <2> QED
    BY <2>1, <2>2
<1> HIDE DEF S
<1>5. S = Nat
  <2>1. S \in SUBSET Nat
    BY DEF S
  <2> QED
    BY <1>3, <1>4, <2>1, SetInduction
<1> QED
  BY <1>1, <1>2, <1>5 DEF S

\* The sum of two sequences put together is that of their sums.
LEMMA SumOfCat ==
    ASSUME NEW a \in Seq(Nat), NEW b \in Seq(Nat)
    PROVE  SumOf(a \o b) = SumOf(a) + SumOf(b) /\ SumOf(a) \in Nat /\ SumOf(b) \in Nat
<1>1. PICK p : Sums(a, p) /\ SumOf(a) = p[Len(a)]
  BY SumsExist
<1>2. PICK q : Sums(b, q) /\ SumOf(b) = q[Len(b)]
  BY SumsExist
<1>3. PICK m \in Nat : m = Len(a)
  OBVIOUS
<1>4. PICK n \in Nat : n = Len(b)
  OBVIOUS
<1>5. PICK c : c = a \o b
  OBVIOUS
<1>6. /\ c \in Seq(Nat) /\ Len(c) = m + n
      /\ \A i \in 1..(m + n) : c[i] = IF i <= m THEN a[i] ELSE b[i - m]
  BY <1>3, <1>4, <1>5, ConcatProperties
<1>7. /\ p \in [0..m -> Nat] /\ p[0] = 0 /\ \A k \in 1..m : p[k] = p[k - 1] + a[k]
      /\ q \in [0..n -> Nat] /\ q[0] = 0 /\ \A k \in 1..n : q[k] = q[k - 1] + b[k]
      /\ SumOf(a) = p[m] /\ SumOf(b) = q[n] /\ p[m] \in Nat /\ q[n] \in Nat
  <2>1. /\ p \in [0..m -> Nat] /\ p[0] = 0 /\ \A k \in 1..m : p[k] = p[k - 1] + a[k]
        /\ SumOf(a) = p[m]
    BY <1>1, <1>3 DEF Sums
  <2>2. /\ q \in [0..n -> Nat] /\ q[0] = 0 /\ \A k \in 1..n : q[k] = q[k - 1] + b[k]
        /\ SumOf(b) = q[n]
    BY <1>2, <1>4 DEF Sums
  <2>3. m \in 0..m /\ n \in 0..n
    BY <1>3, <1>4
  <2>4. p[m] \in Nat /\ q[n] \in Nat
    BY <2>1, <2>2, <2>3
  <2> QED
    BY <2>1, <2>2, <2>4
<1> DEFINE r == [k \in 0..(m + n) |-> IF k <= m THEN p[k] ELSE p[m] + q[k - m]]
<1>8. r \in [0..(m + n) -> Nat] /\ r[0] = 0 /\ r[m + n] = p[m] + q[n]
  <2>1. ASSUME NEW k \in 0..(m + n) PROVE r[k] \in Nat
    <3>1. CASE k <= m
      BY <1>7, <3>1
    <3>2. CASE ~ (k <= m)
      <4>1. k - m \in 0..n
        BY <3>2
      <4>2. q[k - m] \in Nat
        BY <1>7, <4>1
      <4> QED
        BY <1>7, <3>2, <4>2
    <3> QED
      BY <3>1, <3>2
  <2>2. r[m + n] = p[m] + q[n]
    <3>1. CASE n = 0
      BY <1>7, <3>1
    <3>2. CASE n # 0
      BY <1>7, <3>2
    <3> QED
      BY <3>1, <3>2
  <2> QED
    BY <1>7, <2>1, <2>2
<1>9. ASSUME NEW k \in 1..(m + n) PROVE r[k] = r[k - 1] + c[k]
  <2>1. CASE k <= m
    <3>1. k \in 1..m /\ k - 1 <= m
      BY <2>1
    <3>2. r[k] = p[k] /\ r[k - 1] = p[k - 1]
      BY <2>1, <3>1
    <3>3. c[k] = a[k] /\ p[k] = p[k - 1] + a[k]
      BY <1>6, <1>7, <2>1, <3>1
    <3> QED
      BY <3>2, <3>3
  <2>2. CASE k = m + 1
    <3>1. k - m = 1 /\ k - 1 = m /\ 1 \in 1..n /\ 1 - 1 = 0
      BY <2>2
    <3>2. q[1] = b[1] /\ b[1] \in Nat
      BY <1>4, <1>7, <3>1
    <3>3. c[k] = b[1] /\ r[k] = p[m] + q[1] /\ r[k - 1] = p[m]
      BY <1>6, <2>2, <3>1
    <3> QED
      BY <3>2, <3>3
  <2>3. CASE k > m + 1
    <3>1. k - m \in 1..n /\ (k - m) - 1 = (k - 1) - m /\ ~ (k <= m) /\ ~ (k - 1 <= m)
      BY <2>3
    <3>2. q[k - m] = q[(k - m) - 1] + b[k - m] /\ q[(k - m) - 1] \in Nat /\ b[k - m] \in Nat
      <4> DEFINE i == k - m
      <4>1. i \in 1..n /\ i - 1 \in 0..n
        BY <3>1
      <4> HIDE DEF i
      <4>2. b[i] \in Nat
        BY <1>4, <4>1
      <4>3. q[i] = q[i - 1] + b[i] /\ q[i - 1] \in Nat
        BY <1>7, <4>1
      <4> QED
        BY <4>2, <4>3 DEF i
    <3>3. c[k] = b[k - m]
      BY <1>6, <3>1
    <3>4. r[k] = p[m] + q[k - m] /\ r[k - 1] = p[m] + q[(k - m) - 1]
      BY <3>1
    <3>5. p[m] \in Nat
      BY <1>7
    <3> HIDE DEF r
    <3> QED
      BY <3>2, <3>3, <3>4, <3>5
  <2> QED
    BY <2>1, <2>2, <2>3
<1> HIDE DEF r
<1>10. Sums(c, r)
  BY <1>6, <1>8, <1>9 DEF Sums
<1>11. SumOf(c) = r[m + n]
  BY <1>6, <1>10, SumsUnique
<1> QED
  BY <1>5, <1>7, <1>8, <1>11

LEMMA SumOfOne ==
    ASSUME NEW x \in Nat
    PROVE  SumOf(<<x>>) = x /\ SumOf(<<>>) = 0
<1>1. SumOf(<<>>) = 0
  <2>1. PICK r : Sums(<<>>, r) /\ SumOf(<<>>) = r[Len(<<>>)]
    <3>1. <<>> \in Seq(Nat)
      OBVIOUS
    <3> QED
      BY <3>1, SumsExist
  <2> QED
    BY <2>1 DEF Sums
<1>2. PICK r : Sums(<<x>>, r) /\ SumOf(<<x>>) = r[Len(<<x>>)]
  <2>1. <<x>> \in Seq(Nat)
    OBVIOUS
  <2> QED
    BY <2>1, SumsExist
<1>3. Len(<<x>>) = 1 /\ <<x>>[1] = x
  OBVIOUS
<1>4. r[1] = r[1 - 1] + x /\ r[0] = 0
  BY <1>2, <1>3 DEF Sums
<1> QED
  BY <1>1, <1>2, <1>3, <1>4

\* What the elements of s weigh together.
Weighed(s, w) == [i \in DOMAIN s |-> w[s[i]]]
WeightOf(s, w)   == SumOf(Weighed(s, w))

LEMMA WeightOfCat ==
    ASSUME NEW T, NEW w \in [T -> Nat], NEW a \in Seq(T), NEW b \in Seq(T)
    PROVE  WeightOf(a \o b, w) = WeightOf(a, w) + WeightOf(b, w) /\ WeightOf(a, w) \in Nat
<1>1. PICK m \in Nat : m = Len(a)
  OBVIOUS
<1>2. PICK n \in Nat : n = Len(b)
  OBVIOUS
<1>3. /\ a \o b \in Seq(T) /\ Len(a \o b) = m + n /\ DOMAIN (a \o b) = 1..(m + n)
      /\ \A i \in 1..(m + n) : (a \o b)[i] = IF i <= m THEN a[i] ELSE b[i - m]
      /\ DOMAIN a = 1..m /\ DOMAIN b = 1..n
      /\ \A i \in 1..m : a[i] \in T
      /\ \A i \in 1..n : b[i] \in T
  BY <1>1, <1>2, ConcatProperties
<1> DEFINE x == Weighed(a, w)
           y == Weighed(b, w)
           z == Weighed(a \o b, w)
<1>4. /\ x \in [1..m -> Nat] /\ \A i \in 1..m : x[i] = w[a[i]]
      /\ y \in [1..n -> Nat] /\ \A i \in 1..n : y[i] = w[b[i]]
      /\ z = [i \in 1..(m + n) |-> w[(a \o b)[i]]]
  BY <1>3 DEF Weighed
<1> HIDE DEF x, y, z
<1>5. x \in Seq(Nat) /\ Len(x) = m /\ y \in Seq(Nat) /\ Len(y) = n
  BY <1>4, AsSequence
<1>6. x \o y = [i \in 1..(m + n) |-> IF i <= m THEN x[i] ELSE y[i - m]]
  <2>1. x \o y = [i \in 1..(Len(x) + Len(y)) |-> IF i <= Len(x) THEN x[i] ELSE y[i - Len(x)]]
    BY <1>5, CatIs
  <2> QED
    BY <1>5, <2>1
<1>7. z = x \o y
  <2>1. ASSUME NEW i \in 1..(m + n)
        PROVE  w[(a \o b)[i]] = IF i <= m THEN x[i] ELSE y[i - m]
    <3>1. CASE i <= m
      BY <1>3, <1>4, <3>1
    <3>2. CASE ~ (i <= m)
      <4>1. i - m \in 1..n
        BY <3>2
      <4> QED
        BY <1>3, <1>4, <3>2, <4>1
    <3> QED
      BY <3>1, <3>2
  <2> QED
    BY <1>4, <1>6, <2>1
<1>8. SumOf(x \o y) = SumOf(x) + SumOf(y) /\ SumOf(x) \in Nat
  BY <1>5, SumOfCat
<1> QED
  BY <1>7, <1>8 DEF WeightOf, x, y, z

LEMMA WeightOfOne ==
    ASSUME NEW T, NEW w \in [T -> Nat], NEW e \in T
    PROVE  WeightOf(<<e>>, w) = w[e] /\ WeightOf(<<>>, w) = 0
<1>1. Weighed(<<e>>, w) = <<w[e]>> /\ Weighed(<<>>, w) = <<>>
  BY DEF Weighed
<1> QED
  BY <1>1, SumOfOne DEF WeightOf

LEMMA WeightOfAppend ==
    ASSUME NEW T, NEW w \in [T -> Nat], NEW s \in Seq(T), NEW e \in T
    PROVE  /\ WeightOf(Append(s, e), w) = WeightOf(s, w) + w[e]
           /\ WeightOf(<<e>> \o s, w) = w[e] + WeightOf(s, w)
           /\ WeightOf(s, w) \in Nat /\ w[e] \in Nat
<1>1. <<e>> \in Seq(T) /\ Append(s, e) = s \o <<e>>
  OBVIOUS
<1> QED
  BY <1>1, WeightOfCat, WeightOfOne

\* Without the first elements it is no more.
LEMMA WeightOfRest ==
    ASSUME NEW T, NEW w \in [T -> Nat], NEW s \in Seq(T),
           NEW i \in 0..Len(s), NEW j \in i..Len(s)
    PROVE  /\ WeightOf(SubSeq(s, j + 1, Len(s)), w) <= WeightOf(SubSeq(s, i + 1, Len(s)), w)
           /\ WeightOf(SubSeq(s, j + 1, Len(s)), w) \in Nat
           /\ WeightOf(SubSeq(s, i + 1, Len(s)), w) \in Nat
<1>1. PICK n \in Nat : n = Len(s)
  OBVIOUS
<1> DEFINE a == SubSeq(s, i + 1, j)
           b == SubSeq(s, j + 1, n)
           c == SubSeq(s, i + 1, n)
<1>2. a \in Seq(T) /\ Len(a) = j - i /\ \A k \in 1..(j - i) : a[k] = s[i + k]
  <2>1. i + 1 \in Int /\ j \in Int /\ \A k \in (i + 1)..j : s[k] \in T
    BY <1>1
  <2>2. /\ SubSeq(s, i + 1, j) \in Seq(T)
        /\ Len(SubSeq(s, i + 1, j)) = (IF i + 1 <= j THEN j - (i + 1) + 1 ELSE 0)
        /\ \A k \in 1..(j - (i + 1) + 1) : SubSeq(s, i + 1, j)[k] = s[(i + 1) + k - 1]
    BY <2>1, SubSeqProperties
  <2>3. (IF i + 1 <= j THEN j - (i + 1) + 1 ELSE 0) = j - i /\ j - (i + 1) + 1 = j - i
        /\ \A k \in 1..(j - i) : (i + 1) + k - 1 = i + k
    OBVIOUS
  <2> QED
    BY <2>2, <2>3
<1>3. /\ b \in Seq(T) /\ Len(b) = n - j /\ \A k \in 1..(n - j) : b[k] = s[j + k]
      /\ c \in Seq(T) /\ Len(c) = n - i /\ \A k \in 1..(n - i) : c[k] = s[i + k]
  <2>1. j \in Nat /\ j <= Len(s) /\ i \in Nat /\ i <= Len(s)
    BY <1>1
  <2> QED
    BY <1>1, <2>1, RestOf
<1> HIDE DEF a, b, c
<1>4. c = a \o b
  <2>1. a \o b = [k \in 1..(n - i) |-> IF k <= j - i THEN a[k] ELSE b[k - (j - i)]]
    <3>1. j - i \in Nat /\ n - j \in Nat /\ (j - i) + (n - j) = n - i
      BY <1>1
    <3>2. a \o b = [k \in 1..(Len(a) + Len(b)) |->
                        IF k <= Len(a) THEN a[k] ELSE b[k - Len(a)]]
      BY <1>2, <1>3, CatIs
    <3> QED
      BY <1>2, <1>3, <3>1, <3>2
  <2>2. ASSUME NEW k \in 1..(n - i)
        PROVE  c[k] = IF k <= j - i THEN a[k] ELSE b[k - (j - i)]
    <3>1. CASE k <= j - i
      BY <1>2, <1>3, <3>1
    <3>2. CASE ~ (k <= j - i)
      <4>1. k - (j - i) \in 1..(n - j) /\ j + (k - (j - i)) = i + k
        BY <1>1, <3>2
      <4> QED
        BY <1>3, <3>2, <4>1
    <3> QED
      BY <3>1, <3>2
  <2>3. c = [k \in 1..(n - i) |-> c[k]]
    BY <1>1, <1>3
  <2> QED
    BY <2>1, <2>2, <2>3
<1>5. WeightOf(c, w) = WeightOf(a, w) + WeightOf(b, w) /\ WeightOf(a, w) \in Nat
  BY <1>2, <1>3, <1>4, WeightOfCat
<1>6. WeightOf(b, w) \in Nat
  BY <1>3, WeightOfCat
<1> QED
  BY <1>1, <1>5, <1>6 DEF b, c

\* Without one element it is less by what that weighs.
LEMMA WeightOfRemoved ==
    ASSUME NEW T, NEW w \in [T -> Nat], NEW s \in Seq(T), NEW k \in 1..Len(s)
    PROVE  WeightOf(RemoveAt(s, k), w) + w[s[k]] = WeightOf(s, w)
<1>1. PICK n \in Nat : n = Len(s)
  OBVIOUS
<1> DEFINE a == SubSeq(s, 1, k - 1)
           b == SubSeq(s, k + 1, Len(s))
           e == s[k]
<1>2. a \in Seq(T) /\ Len(a) = k - 1 /\ \A i \in 1..(k - 1) : a[i] = s[i]
  BY SubSeqProperties
<1>3. b \in Seq(T) /\ Len(b) = n - k /\ \A i \in 1..(n - k) : b[i] = s[k + i]
  <2>1. k \in Nat /\ k <= Len(s)
    OBVIOUS
  <2> QED
    BY <1>1, <2>1, RestOf
<1>4. RemoveAt(s, k) = a \o b /\ e \in T /\ k \in 1..n
  BY <1>1 DEF RemoveAt
<1> HIDE DEF a, b
<1>5. s = a \o (<<e>> \o b)
  <2>1. <<e>> \o b \in Seq(T) /\ Len(<<e>> \o b) = 1 + (n - k)
        /\ \A i \in 1..(1 + (n - k)) : (<<e>> \o b)[i] = IF i <= 1 THEN e ELSE b[i - 1]
    <3>1. <<e>> \in Seq(T) /\ Len(<<e>>) = 1 /\ <<e>>[1] = e /\ n - k \in Nat
      BY <1>4
    <3>2. PICK f \in Seq(T) : f = <<e>> /\ Len(f) = 1 /\ f[1] = e
      BY <3>1
    <3>3. /\ f \o b \in Seq(T) /\ Len(f \o b) = Len(f) + Len(b)
          /\ \A i \in 1..(Len(f) + Len(b)) :
                (f \o b)[i] = IF i <= Len(f) THEN f[i] ELSE b[i - Len(f)]
      BY <1>3, ConcatProperties
    <3>4. \A i \in 1..(1 + (n - k)) : i <= 1 => f[i] = e
      BY <3>2
    <3>5. /\ f \o b \in Seq(T) /\ Len(f \o b) = 1 + (n - k)
          /\ \A i \in 1..(1 + (n - k)) : (f \o b)[i] = IF i <= 1 THEN e ELSE b[i - 1]
      BY <1>3, <3>2, <3>3, <3>4
    <3> QED
      BY <3>2, <3>5
  <2> DEFINE d == <<e>> \o b
  <2> HIDE DEF d
  <2>2. d \in Seq(T) /\ Len(d) = 1 + (n - k)
        /\ \A i \in 1..(1 + (n - k)) : d[i] = IF i <= 1 THEN e ELSE b[i - 1]
    BY <2>1 DEF d
  <2>3. a \o d = [i \in 1..n |-> IF i <= k - 1 THEN a[i] ELSE d[i - (k - 1)]]
    <3>1. (k - 1) + (1 + (n - k)) = n /\ k - 1 \in Nat /\ 1 + (n - k) \in Nat
      BY <1>4
    <3>2. a \o d = [i \in 1..(Len(a) + Len(d)) |->
                        IF i <= Len(a) THEN a[i] ELSE d[i - Len(a)]]
      BY <1>2, <2>2, CatIs
    <3> QED
      BY <1>2, <2>2, <3>1, <3>2
  <2>4. ASSUME NEW i \in 1..n
        PROVE  s[i] = IF i <= k - 1 THEN a[i] ELSE d[i - (k - 1)]
    <3>1. CASE i <= k - 1
      BY <1>2, <1>4, <3>1
    <3>2. CASE i = k
      BY <1>4, <2>2, <3>2
    <3>3. CASE i > k
      <4>1. i - (k - 1) \in 1..(1 + (n - k)) /\ ~ (i - (k - 1) <= 1)
            /\ i - k \in 1..(n - k) /\ (i - (k - 1)) - 1 = i - k /\ k + (i - k) = i
        BY <1>4, <3>3
      <4>2. d[i - (k - 1)] = b[i - k] /\ b[i - k] = s[i]
        BY <1>3, <2>2, <4>1
      <4> QED
        BY <1>4, <3>3, <4>2
    <3> QED
      BY <1>4, <3>1, <3>2, <3>3
  <2>5. s = [i \in 1..n |-> s[i]]
    BY <1>1
  <2> QED
    BY <2>3, <2>4, <2>5 DEF d
<1>6. /\ WeightOf(a \o (<<e>> \o b), w) = WeightOf(a, w) + WeightOf(<<e>> \o b, w)
      /\ WeightOf(<<e>> \o b, w) = w[e] + WeightOf(b, w)
      /\ WeightOf(a \o b, w) = WeightOf(a, w) + WeightOf(b, w)
      /\ WeightOf(a, w) \in Nat /\ WeightOf(b, w) \in Nat /\ w[e] \in Nat
  <2>1. <<e>> \o b \in Seq(T)
    BY <1>3, <1>4
  <2>2. WeightOf(a \o (<<e>> \o b), w) = WeightOf(a, w) + WeightOf(<<e>> \o b, w)
    BY <1>2, <2>1, WeightOfCat
  <2>3. WeightOf(<<e>> \o b, w) = w[e] + WeightOf(b, w) /\ WeightOf(b, w) \in Nat
    BY <1>3, <1>4, WeightOfAppend
  <2>4. WeightOf(a \o b, w) = WeightOf(a, w) + WeightOf(b, w) /\ WeightOf(a, w) \in Nat
    BY <1>2, <1>3, WeightOfCat
  <2>5. w[e] \in Nat
    BY <1>4
  <2> QED
    BY <2>2, <2>3, <2>4, <2>5
<1> HIDE DEF e
<1>7. WeightOf(s, w) = WeightOf(a, w) + (w[e] + WeightOf(b, w))
  BY <1>5, <1>6
<1> QED
  BY <1>4, <1>6, <1>7 DEF e
===============================================================================
