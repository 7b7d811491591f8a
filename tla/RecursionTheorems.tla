--------------------------- MODULE RecursionTheorems ---------------------------
(***************************************************************************)
(* Facts about the recursive functions of Sums and Selections, by least     *)
(* counterexample: what totals are, what is selected from a list, and what  *)
(* lists put together are. (The induction theorems of the library take an   *)
(* operator, which the backends cannot instantiate; a least element of a    *)
(* set does the same work, and so does ListInduction for lists.)            *)
(***************************************************************************)
EXTENDS Sums, Selections, SequenceTheorems, FiniteSetTheorems, WellFoundedInduction,
        TLAPS

\* Every non-empty set of naturals has a least element.
LEMMA LeastElement ==
    ASSUME NEW T \in SUBSET Nat, T # {}
    PROVE  \E m \in T : \A k \in T : m <= k
<1> DEFINE R == {p \in Nat \X Nat : p[1] < p[2]}
<1>1. R = OpToRel(<, Nat)
  BY DEF OpToRel
<1>2. \E x \in T : \A y \in T : ~(<<y, x>> \in R)
  BY <1>1, NatLessThanWellFounded, WFMin
<1>3. \A x, y \in T : <<y, x>> \notin R => x <= y
  OBVIOUS
<1> QED
  BY <1>2, <1>3

\* Induction over an interval, for a set instead of a predicate.
LEMMA UpTo ==
    ASSUME NEW N \in Nat, NEW Good, 0 \in Good, \A n \in 1..N : n - 1 \in Good => n \in Good
    PROVE  \A n \in 0..N : n \in Good
<1> DEFINE Bad == {n \in 0..N : n \notin Good}
<1>1. SUFFICES ASSUME Bad # {} PROVE FALSE
  OBVIOUS
<1>2. PICK m \in Bad : \A k \in Bad : m <= k
  <2>1. Bad \in SUBSET Nat
    OBVIOUS
  <2> HIDE DEF Bad
  <2> QED BY <1>1, <2>1, LeastElement
<1>3. m # 0
  BY <1>2
<1>4. m \in 1..N /\ m - 1 \in 0..N /\ m - 1 \in Good
  BY <1>2, <1>3
<1> QED
  BY <1>2, <1>4

-----------------------------------------------------------------------------
(* Recursion.                                                               *)

\* g is the course, up to n, of what begins with v0 and goes on by step.
IsCourse(g, V, v0, step, n) ==
    /\ g \in [0..n -> V]
    /\ g[0] = v0
    /\ \A i \in 1..n : g[i] = step[i][g[i - 1]]

\* A recursive definition whose steps stay within V has a solution: take the
\* least n up to which there is none, and extend the solution up to n - 1.
LEMMA CourseExists ==
    ASSUME NEW N \in Nat, NEW V, NEW v0 \in V, NEW step \in [1..N -> [V -> V]]
    PROVE  \E g : IsCourse(g, V, v0, step, N)
<1> DEFINE Good == {n \in 0..N : \E g : IsCourse(g, V, v0, step, n)}
<1>1. 0 \in Good
  <2>1. IsCourse([i \in 0..0 |-> v0], V, v0, step, 0)
    BY DEF IsCourse
  <2> QED BY <2>1
<1>2. ASSUME NEW m \in 1..N, NEW g, IsCourse(g, V, v0, step, m - 1)
      PROVE  \E h : IsCourse(h, V, v0, step, m)
  <2> DEFINE h == [i \in 0..m |-> IF i = m THEN step[m][g[m - 1]] ELSE g[i]]
  <2>1. IsCourse(h, V, v0, step, m)
    <3>1. g \in [0..m-1 -> V] /\ m \in 1..N
      BY <1>2 DEF IsCourse
    <3>2. h \in [0..m -> V]
      BY <3>1
    <3>3. h[0] = v0
      BY <1>2, <3>1 DEF IsCourse
    <3>4. ASSUME NEW i \in 1..m PROVE h[i] = step[i][h[i - 1]]
      <4>1. CASE i = m
        BY <4>1, <3>1
      <4>2. CASE i # m
        <5>1. i \in 1..m-1 /\ i - 1 \in 0..m-1
          BY <4>2
        <5> QED BY <5>1, <1>2, <4>2 DEF IsCourse
      <4> QED BY <4>1, <4>2
    <3> QED BY <3>2, <3>3, <3>4 DEF IsCourse
  <2> QED BY <2>1
<1>3. \A n \in 1..N : n - 1 \in Good => n \in Good
  BY <1>2
<1> HIDE DEF Good
<1>4. \A n \in 0..N : n \in Good
  BY <1>1, <1>3, UpTo
<1>5. N \in Good
  BY <1>4
<1> QED
  BY <1>5 DEF Good

-----------------------------------------------------------------------------
(* Sums.                                                                    *)

\* g holds the partial sums of f up to n.
IsSum(g, f, n) == g = [i \in 0..n |-> IF i = 0 THEN 0 ELSE g[i - 1] + f[i]]

\* Partial sums exist.
LEMMA SumExists ==
    ASSUME NEW N \in Nat, NEW f, \A i \in 1..N : f[i] \in Nat
    PROVE  \E g \in [0..N -> Nat] : IsSum(g, f, N)
<1> DEFINE step == [i \in 1..N |-> [v \in Nat |-> v + f[i]]]
<1>1. step \in [1..N -> [Nat -> Nat]]
  OBVIOUS
<1>2. PICK g : IsCourse(g, Nat, 0, step, N)
  <2> HIDE DEF step
  <2> QED BY <1>1, CourseExists
<1>3. g \in [0..N -> Nat]
  BY <1>2 DEF IsCourse
<1>4. ASSUME NEW i \in 0..N PROVE g[i] = IF i = 0 THEN 0 ELSE g[i - 1] + f[i]
  <2>1. CASE i = 0
    BY <2>1, <1>2 DEF IsCourse
  <2>2. CASE i # 0
    <3>1. i \in 1..N /\ g[i - 1] \in Nat
      BY <2>2, <1>3
    <3> QED BY <3>1, <1>2, <2>2 DEF IsCourse
  <2> QED BY <2>1, <2>2
<1> QED
  BY <1>3, <1>4 DEF IsSum

\* g holds the partial sums of f up to n, and they are naturals.
IsPartial(g, f, n) ==
    /\ \A i \in 0..n : g[i] \in Nat
    /\ g[0] = 0
    /\ \A i \in 1..n : g[i] = g[i - 1] + f[i]
    /\ Total(f, n) = g[n]

\* Total is the last of its partial sums.
LEMMA TotalCourse ==
    ASSUME NEW n \in Nat, NEW f, \A i \in 1..n : f[i] \in Nat
    PROVE  \E g : IsPartial(g, f, n)
<1> DEFINE sum == CHOOSE g : g = [i \in 0..n |-> IF i = 0 THEN 0 ELSE g[i - 1] + f[i]]
<1>1. \E g : IsSum(g, f, n)
  BY SumExists
<1>2. IsSum(sum, f, n)
  BY <1>1 DEF IsSum
<1>3. Total(f, n) = sum[n]
  BY DEF Total
<1> HIDE DEF sum
<1>4. \A i \in 0..n : sum[i] \in Nat
  <2> DEFINE Good == {i \in 0..n : sum[i] \in Nat}
  <2>1. 0 \in Good
    BY <1>2 DEF IsSum
  <2>2. ASSUME NEW i \in 1..n, i - 1 \in Good PROVE i \in Good
    <3>1. sum[i] = sum[i - 1] + f[i]
      BY <1>2 DEF IsSum
    <3> QED BY <3>1, <2>2
  <2> HIDE DEF Good
  <2>3. \A i \in 0..n : i \in Good
    BY <2>1, <2>2, UpTo
  <2> QED BY <2>3 DEF Good
<1>5. sum[0] = 0 /\ \A i \in 1..n : sum[i] = sum[i - 1] + f[i]
  BY <1>2 DEF IsSum
<1> QED
  BY <1>3, <1>4, <1>5 DEF IsPartial

\* A sum of naturals is a natural: the token estimate of every conversation
\* and the length of every summary (ctxmgr/manager.go) are well defined.
LEMMA TotalIsNat ==
    ASSUME NEW n \in Nat, NEW f, \A i \in 1..n : f[i] \in Nat
    PROVE  Total(f, n) \in Nat
<1>1. PICK g : IsPartial(g, f, n)
  BY TotalCourse
<1> QED
  BY <1>1 DEF IsPartial

\* Partial sums of what is the same are the same.
LEMMA PartialsAgree ==
    ASSUME NEW n \in Nat, NEW m \in Nat, n <= m, NEW f, NEW e, NEW g, NEW h,
           IsPartial(g, f, n), IsPartial(h, e, m), \A i \in 1..n : f[i] = e[i]
    PROVE  \A i \in 0..n : g[i] = h[i]
<1> DEFINE Good == {i \in 0..n : g[i] = h[i]}
<1>1. 0 \in Good
  BY DEF IsPartial
<1>2. ASSUME NEW i \in 1..n, i - 1 \in Good PROVE i \in Good
  <2>1. i \in 1..m /\ f[i] = e[i] /\ g[i - 1] = h[i - 1]
    BY <1>2
  <2>2. g[i] = g[i - 1] + f[i] /\ h[i] = h[i - 1] + e[i]
    BY <2>1 DEF IsPartial
  <2> QED BY <2>1, <2>2
<1> HIDE DEF Good
<1>3. \A i \in 0..n : i \in Good
  BY <1>1, <1>2, UpTo
<1> QED
  BY <1>3 DEF Good

\* A sum does not depend on what comes later.
LEMMA TotalSame ==
    ASSUME NEW n \in Nat, NEW f, NEW e, \A i \in 1..n : f[i] \in Nat /\ f[i] = e[i]
    PROVE  Total(f, n) = Total(e, n)
<1>1. PICK g : IsPartial(g, f, n)
  BY TotalCourse
<1>2. PICK h : IsPartial(h, e, n)
  BY TotalCourse
<1>3. \A i \in 0..n : g[i] = h[i]
  BY <1>1, <1>2, PartialsAgree
<1> QED
  BY <1>1, <1>2, <1>3 DEF IsPartial

\* The sum of nothing.
LEMMA TotalOfNone ==
    ASSUME NEW f
    PROVE  Total(f, 0) = 0
<1>1. PICK g : IsPartial(g, f, 0)
  BY TotalCourse
<1> QED
  BY <1>1 DEF IsPartial

\* The sum of one more.
LEMMA TotalStep ==
    ASSUME NEW n \in Nat, NEW f, \A i \in 1..n + 1 : f[i] \in Nat
    PROVE  Total(f, n + 1) = Total(f, n) + f[n + 1]
<1>1. PICK g : IsPartial(g, f, n)
  BY TotalCourse
<1>2. PICK h : IsPartial(h, f, n + 1)
  BY TotalCourse
<1>3. g[n] = h[n]
  BY <1>1, <1>2, PartialsAgree
<1>4. h[n + 1] = h[n] + f[n + 1]
  <2>1. n + 1 \in 1..n + 1 /\ (n + 1) - 1 = n
    OBVIOUS
  <2> QED BY <1>2, <2>1 DEF IsPartial
<1> QED
  BY <1>1, <1>2, <1>3, <1>4 DEF IsPartial

-----------------------------------------------------------------------------
(* Counting.                                                                *)

\* Among the numbers up to n + 1 there are as many of S as up to n, or one more.
LEMMA CountUpTo ==
    ASSUME NEW n \in Nat, NEW S
    PROVE  /\ Cardinality((1..n) \cap S) \in Nat
           /\ Cardinality((1..n) \cap S) <= n
           /\ Cardinality((1..n + 1) \cap S) =
                IF n + 1 \in S THEN Cardinality((1..n) \cap S) + 1 ELSE Cardinality((1..n) \cap S)
<1> DEFINE C == (1..n) \cap S
<1>1. IsFiniteSet(1..n) /\ Cardinality(1..n) = n
  BY FS_Interval
<1>2. IsFiniteSet(C) /\ Cardinality(C) <= n
  <2>1. C \in SUBSET (1..n)
    OBVIOUS
  <2> QED BY <1>1, <2>1, FS_Subset
<1>3. Cardinality(C) \in Nat
  BY <1>2, FS_CardinalityType
<1>4. CASE n + 1 \in S
  <2>1. (1..n + 1) \cap S = C \cup {n + 1}
    BY <1>4
  <2>2. n + 1 \notin C
    OBVIOUS
  <2> QED BY <1>2, <1>3, <1>4, <2>1, <2>2, FS_AddElement
<1>5. CASE n + 1 \notin S
  <2>1. (1..n + 1) \cap S = C
    BY <1>5
  <2> QED BY <1>2, <1>3, <1>5, <2>1
<1> QED
  BY <1>4, <1>5

\* There is nothing among no numbers.
LEMMA CountNone ==
    ASSUME NEW S
    PROVE  Cardinality((1..0) \cap S) = 0
<1>1. (1..0) \cap S = {}
  OBVIOUS
<1> QED
  BY <1>1, FS_EmptySet

-----------------------------------------------------------------------------
(* Selections.                                                              *)

\* g holds what is kept of s up to each place.
IsKept(g, s, S, n) ==
    g = [i \in 0..n |-> IF i = 0 THEN <<>>
                         ELSE IF s[i] \in S THEN Append(g[i - 1], s[i])
                         ELSE g[i - 1]]

\* What is kept of a list up to each place exists.
LEMMA KeptExists ==
    ASSUME NEW T, NEW s \in Seq(T), NEW S
    PROVE  \E g \in [0..Len(s) -> Seq(T)] : IsKept(g, s, S, Len(s))
<1> DEFINE N == Len(s)
           step == [i \in 1..N |-> [v \in Seq(T) |-> IF s[i] \in S THEN Append(v, s[i]) ELSE v]]
<1>0. N \in Nat /\ <<>> \in Seq(T) /\ \A i \in 1..N : s[i] \in T
  BY LenProperties, ElementOfSeq, EmptySeq
<1>1. step \in [1..N -> [Seq(T) -> Seq(T)]]
  BY <1>0, AppendProperties
<1>2. PICK g : IsCourse(g, Seq(T), <<>>, step, N)
  <2> HIDE DEF step
  <2> QED BY <1>0, <1>1, CourseExists
<1>3. g \in [0..N -> Seq(T)]
  BY <1>2 DEF IsCourse
<1>4. ASSUME NEW i \in 0..N
      PROVE  g[i] = IF i = 0 THEN <<>> ELSE IF s[i] \in S THEN Append(g[i - 1], s[i]) ELSE g[i - 1]
  <2>1. CASE i = 0
    BY <2>1, <1>2 DEF IsCourse
  <2>2. CASE i # 0
    <3>1. i \in 1..N /\ g[i - 1] \in Seq(T)
      BY <2>2, <1>3, <1>0
    <3>2. g[i] = step[i][g[i - 1]]
      BY <3>1, <1>2 DEF IsCourse
    <3> QED BY <3>1, <3>2, <2>2
  <2> QED BY <2>1, <2>2
<1> QED
  BY <1>3, <1>4 DEF IsKept

\* g is the course of the selection of s by S.
IsSelection(g, T, s, S) ==
    /\ g \in [0..Len(s) -> Seq(T)]
    /\ g[0] = <<>>
    /\ \A i \in 1..Len(s) : g[i] = IF s[i] \in S THEN Append(g[i - 1], s[i]) ELSE g[i - 1]
    /\ Within(s, S) = g[Len(s)]

\* Within is the end of such a course.
LEMMA WithinCourse ==
    ASSUME NEW T, NEW s \in Seq(T), NEW S
    PROVE  \E g : IsSelection(g, T, s, S)
<1> DEFINE N == Len(s)
           kept == CHOOSE g : g = [i \in 0..N |-> IF i = 0 THEN <<>>
                                    ELSE IF s[i] \in S THEN Append(g[i - 1], s[i])
                                    ELSE g[i - 1]]
<1>0. N \in Nat /\ <<>> \in Seq(T) /\ \A i \in 1..N : s[i] \in T
  BY LenProperties, ElementOfSeq, EmptySeq
<1>1. \E g : IsKept(g, s, S, N)
  BY KeptExists
<1>2. IsKept(kept, s, S, N)
  BY <1>1 DEF IsKept
<1>3. Within(s, S) = kept[N]
  BY DEF Within
<1> HIDE DEF kept
<1>4. ASSUME NEW i \in 0..N
      PROVE  kept[i] = IF i = 0 THEN <<>> ELSE IF s[i] \in S THEN Append(kept[i - 1], s[i]) ELSE kept[i - 1]
  BY <1>2 DEF IsKept
<1>5. kept[0] = <<>>
  BY <1>0, <1>4
<1>6. ASSUME NEW i \in 1..N
      PROVE  kept[i] = IF s[i] \in S THEN Append(kept[i - 1], s[i]) ELSE kept[i - 1]
  <2>1. i \in 0..N /\ i # 0
    BY <1>0
  <2> QED BY <2>1, <1>4
<1>7. kept = [i \in 0..N |-> kept[i]]
  BY <1>2 DEF IsKept
<1>8. \A i \in 0..N : kept[i] \in Seq(T)
  <2> DEFINE Good == {i \in 0..N : kept[i] \in Seq(T)}
  <2>1. 0 \in Good
    <3>1. kept[0] \in Seq(T)
      BY <1>5, <1>0, Zenon
    <3> QED BY <3>1, <1>0
  <2>2. ASSUME NEW i \in 1..N, i - 1 \in Good PROVE i \in Good
    <3>1. kept[i - 1] \in Seq(T) /\ s[i] \in T /\ i \in 0..N
      BY <2>2, <1>0
    <3>2. Append(kept[i - 1], s[i]) \in Seq(T)
      BY <3>1, AppendProperties
    <3> QED BY <3>1, <3>2, <1>6
  <2> HIDE DEF Good
  <2>3. \A i \in 0..N : i \in Good
    BY <1>0, <2>1, <2>2, UpTo
  <2> QED BY <2>3 DEF Good
<1>9. kept \in [0..N -> Seq(T)]
  BY <1>7, <1>8
<1> QED
  BY <1>6, <1>3, <1>9, <1>5 DEF IsSelection

\* What is selected of nothing is nothing.
LEMMA WithinEmpty ==
    ASSUME NEW S
    PROVE  Within(<<>>, S) = <<>>
<1>1. <<>> \in Seq({}) /\ Len(<<>>) = 0
  BY EmptySeq
<1>2. PICK g : IsSelection(g, {}, <<>>, S)
  BY <1>1, WithinCourse
<1> QED
  BY <1>1, <1>2 DEF IsSelection

\* One step of the course.
LEMMA SelectionStep ==
    ASSUME NEW T, NEW s \in Seq(T), NEW S, NEW g, IsSelection(g, T, s, S), NEW n \in 1..Len(s)
    PROVE  /\ n \in Nat /\ g[n - 1] \in Seq(T) /\ g[n] \in Seq(T) /\ s[n] \in T
           /\ s[n] \notin S => g[n] = g[n - 1]
           /\ s[n] \in S =>
                /\ Len(g[n - 1]) \in Nat
                /\ Len(g[n]) = Len(g[n - 1]) + 1
                /\ \A i \in 1..Len(g[n - 1]) : g[n][i] = g[n - 1][i]
                /\ g[n][Len(g[n - 1]) + 1] = s[n]
<1>1. Len(s) \in Nat /\ s[n] \in T
  BY LenProperties, ElementOfSeq
<1>2. n \in Nat /\ n - 1 \in 0..Len(s) /\ n \in 0..Len(s)
  BY <1>1
<1>3. g[n - 1] \in Seq(T) /\ g[n] \in Seq(T)
  BY <1>2 DEF IsSelection
<1>4. g[n] = IF s[n] \in S THEN Append(g[n - 1], s[n]) ELSE g[n - 1]
  BY DEF IsSelection
<1>5. CASE s[n] \in S
  <2>1. g[n] = Append(g[n - 1], s[n])
    BY <1>4, <1>5
  <2> QED BY <2>1, <1>1, <1>2, <1>3, <1>5, AppendProperties, LenProperties
<1> QED
  BY <1>1, <1>2, <1>3, <1>4, <1>5

\* A selection has elements of the sequence and of the set only.
LEMMA WithinIsPart ==
    ASSUME NEW T, NEW s \in Seq(T), NEW S
    PROVE  /\ Within(s, S) \in Seq(T)
           /\ \A i \in 1..Len(Within(s, S)) :
                Within(s, S)[i] \in S /\ \E j \in 1..Len(s) : Within(s, S)[i] = s[j]
<1> DEFINE N == Len(s)
<1>0. N \in Nat
  BY LenProperties
<1>1. PICK g : IsSelection(g, T, s, S)
  BY WithinCourse
<1> DEFINE Good == {n \in 0..N : \A i \in 1..Len(g[n]) : g[n][i] \in S /\ \E j \in 1..n : g[n][i] = s[j]}
<1>2. 0 \in Good
  BY <1>0, <1>1 DEF IsSelection
<1>3. ASSUME NEW n \in 1..N, n - 1 \in Good PROVE n \in Good
  <2>1. \A i \in 1..Len(g[n - 1]) : g[n - 1][i] \in S /\ \E j \in 1..n - 1 : g[n - 1][i] = s[j]
    BY <1>3
  <2>2. \A i \in 1..Len(g[n - 1]) : g[n - 1][i] \in S /\ \E j \in 1..n : g[n - 1][i] = s[j]
    BY <2>1, <1>0
  <2>3. CASE s[n] \notin S
    <3>1. g[n] = g[n - 1]
      BY <1>1, <2>3, SelectionStep
    <3> QED BY <3>1, <2>2, <1>0
  <2>4. CASE s[n] \in S
    <3> DEFINE L == Len(g[n - 1])
    <3>1. /\ L \in Nat /\ Len(g[n]) = L + 1
          /\ \A i \in 1..L : g[n][i] = g[n - 1][i]
          /\ g[n][L + 1] = s[n]
      BY <1>1, <2>4, SelectionStep
    <3>2. ASSUME NEW i \in 1..L + 1 PROVE g[n][i] \in S /\ \E j \in 1..n : g[n][i] = s[j]
      <4>1. CASE i = L + 1
        BY <4>1, <3>1, <2>4, <1>0
      <4>2. CASE i # L + 1
        <5>1. i \in 1..L
          BY <4>2, <3>1
        <5> QED BY <5>1, <3>1, <2>2
      <4> QED BY <4>1, <4>2
    <3> HIDE DEF L
    <3> QED BY <3>1, <3>2, <1>0
  <2> QED BY <2>3, <2>4
<1> HIDE DEF Good
<1>4. \A n \in 0..N : n \in Good
  BY <1>0, <1>2, <1>3, UpTo
<1>5. \A i \in 1..Len(g[N]) : g[N][i] \in S /\ \E j \in 1..N : g[N][i] = s[j]
  BY <1>4 DEF Good
<1> QED
  BY <1>0, <1>1, <1>5 DEF IsSelection

\* It has all elements of the sequence that are in the set.
LEMMA WithinIsAll ==
    ASSUME NEW T, NEW s \in Seq(T), NEW S, NEW j \in 1..Len(s), s[j] \in S
    PROVE  \E i \in 1..Len(Within(s, S)) : Within(s, S)[i] = s[j]
<1> DEFINE N == Len(s)
<1>0. N \in Nat
  BY LenProperties
<1>1. PICK g : IsSelection(g, T, s, S)
  BY WithinCourse
<1> DEFINE Good == {n \in 0..N : j <= n => \E i \in 1..Len(g[n]) : g[n][i] = s[j]}
<1>2. 0 \in Good
  BY <1>0
<1>3. ASSUME NEW n \in 1..N, n - 1 \in Good PROVE n \in Good
  <2>1. j <= n - 1 => \E i \in 1..Len(g[n - 1]) : g[n - 1][i] = s[j]
    BY <1>3
  <2>2. CASE s[n] \notin S
    <3>1. g[n] = g[n - 1] /\ j # n
      BY <1>1, <2>2, SelectionStep
    <3> QED BY <3>1, <2>1, <1>0
  <2>3. CASE s[n] \in S
    <3> DEFINE L == Len(g[n - 1])
    <3>1. /\ L \in Nat /\ Len(g[n]) = L + 1
          /\ \A i \in 1..L : g[n][i] = g[n - 1][i]
          /\ g[n][L + 1] = s[n]
      BY <1>1, <2>3, SelectionStep
    <3>2. j <= n => \E i \in 1..L + 1 : g[n][i] = s[j]
      <4>1. CASE j = n
        BY <4>1, <3>1
      <4>2. CASE j < n
        <5>1. PICK i \in 1..L : g[n - 1][i] = s[j]
          BY <4>2, <2>1, <1>0
        <5> QED BY <5>1, <3>1
      <4> QED BY <4>1, <4>2, <1>0
    <3> HIDE DEF L
    <3> QED BY <3>1, <3>2, <1>0
  <2> QED BY <2>2, <2>3
<1> HIDE DEF Good
<1>4. \A n \in 0..N : n \in Good
  BY <1>0, <1>2, <1>3, UpTo
<1>5. \E i \in 1..Len(g[N]) : g[N][i] = s[j]
  BY <1>0, <1>4 DEF Good
<1> QED
  BY <1>1, <1>5 DEF IsSelection

\* A sequence without repetitions.
OnceEach(s) == \A i, j \in 1..Len(s) : s[i] = s[j] => i = j

\* A selection has nothing twice unless the sequence has.
LEMMA WithinOnceEach ==
    ASSUME NEW T, NEW s \in Seq(T), NEW S, OnceEach(s)
    PROVE  OnceEach(Within(s, S))
<1> DEFINE N == Len(s)
<1>0. N \in Nat
  BY LenProperties
<1>1. PICK g : IsSelection(g, T, s, S)
  BY WithinCourse
<1> DEFINE Good == {n \in 0..N : /\ OnceEach(g[n])
                                 /\ \A i \in 1..Len(g[n]) : \E j \in 1..n : g[n][i] = s[j]}
<1>2. 0 \in Good
  BY <1>0, <1>1 DEF IsSelection, OnceEach
<1>3. ASSUME NEW n \in 1..N, n - 1 \in Good PROVE n \in Good
  <2>1. /\ OnceEach(g[n - 1])
        /\ \A i \in 1..Len(g[n - 1]) : \E j \in 1..n - 1 : g[n - 1][i] = s[j]
    BY <1>3
  <2>2. \A i \in 1..Len(g[n - 1]) : \E j \in 1..n : g[n - 1][i] = s[j]
    BY <2>1, <1>0
  <2>3. CASE s[n] \notin S
    <3>1. g[n] = g[n - 1]
      BY <1>1, <2>3, SelectionStep
    <3>2. OnceEach(g[n]) /\ \A i \in 1..Len(g[n]) : \E j \in 1..n : g[n][i] = s[j]
      BY <3>1, <2>1, <2>2
    <3> QED BY <3>2, <1>0
  <2>4. CASE s[n] \in S
    <3> DEFINE L == Len(g[n - 1])
    <3>1. /\ L \in Nat /\ Len(g[n]) = L + 1
          /\ \A i \in 1..L : g[n][i] = g[n - 1][i]
          /\ g[n][L + 1] = s[n]
      BY <1>1, <2>4, SelectionStep
    <3>2. ASSUME NEW i \in 1..L + 1 PROVE \E j \in 1..n : g[n][i] = s[j]
      <4>1. CASE i = L + 1
        BY <4>1, <3>1, <1>0
      <4>2. CASE i # L + 1
        <5>1. i \in 1..L
          BY <4>2, <3>1
        <5> QED BY <5>1, <3>1, <2>2
      <4> QED BY <4>1, <4>2
    <3>3. ASSUME NEW k \in 1..L PROVE g[n - 1][k] # s[n]
      <4>1. PICK l \in 1..n - 1 : g[n - 1][k] = s[l]
        BY <2>1
      <4>2. l \in 1..N /\ n \in 1..N /\ l # n
        BY <1>0
      <4> QED BY <4>1, <4>2 DEF OnceEach
    <3>4. ASSUME NEW i \in 1..L + 1, NEW j \in 1..L + 1, g[n][i] = g[n][j] PROVE i = j
      <4>1. CASE i \in 1..L /\ j \in 1..L
        BY <4>1, <3>1, <3>4, <2>1 DEF OnceEach
      <4>2. CASE i = L + 1 /\ j \in 1..L
        BY <4>2, <3>1, <3>3, <3>4
      <4>3. CASE j = L + 1 /\ i \in 1..L
        BY <4>3, <3>1, <3>3, <3>4
      <4>4. (i = L + 1 \/ i \in 1..L) /\ (j = L + 1 \/ j \in 1..L)
        BY <3>1
      <4> QED BY <4>1, <4>2, <4>3, <4>4
    <3> HIDE DEF L
    <3>5. OnceEach(g[n])
      BY <3>1, <3>4 DEF OnceEach
    <3> QED BY <3>1, <3>2, <3>5, <1>0
  <2> QED BY <2>3, <2>4
<1> HIDE DEF Good
<1>4. \A n \in 0..N : n \in Good
  BY <1>0, <1>2, <1>3, UpTo
<1>5. OnceEach(g[N])
  BY <1>4 DEF Good
<1> QED
  BY <1>1, <1>5 DEF IsSelection

\* Two selections are the same as far as they select the same.
LEMMA SelectionsAgree ==
    ASSUME NEW T, NEW s \in Seq(T), NEW t \in Seq(T), NEW S, NEW R, NEW g, NEW h,
           IsSelection(g, T, s, S), IsSelection(h, T, t, R),
           NEW n \in Nat, n <= Len(s), n <= Len(t),
           \A i \in 1..n : (s[i] \in S <=> t[i] \in R) /\ (s[i] \in S => s[i] = t[i])
    PROVE  g[n] = h[n]
<1>0. Len(s) \in Nat /\ Len(t) \in Nat
  BY LenProperties
<1> DEFINE Good == {i \in 0..n : g[i] = h[i]}
<1>1. 0 \in Good
  BY DEF IsSelection
<1>2. ASSUME NEW i \in 1..n, i - 1 \in Good PROVE i \in Good
  <2>1. i \in 1..Len(s) /\ i \in 1..Len(t) /\ g[i - 1] = h[i - 1]
    BY <1>0, <1>2
  <2>2. /\ g[i] = IF s[i] \in S THEN Append(g[i - 1], s[i]) ELSE g[i - 1]
        /\ h[i] = IF t[i] \in R THEN Append(h[i - 1], t[i]) ELSE h[i - 1]
    BY <2>1 DEF IsSelection
  <2>3. g[i] = h[i]
    BY <2>1, <2>2
  <2> QED BY <2>3
<1> HIDE DEF Good
<1>3. \A i \in 0..n : i \in Good
  BY <1>1, <1>2, UpTo
<1> QED
  BY <1>3 DEF Good

\* What is not selected makes no difference.
LEMMA WithinSame ==
    ASSUME NEW T, NEW s \in Seq(T), NEW t \in Seq(T), NEW S, NEW R, Len(s) = Len(t),
           \A i \in 1..Len(s) : (s[i] \in S <=> t[i] \in R) /\ (s[i] \in S => s[i] = t[i])
    PROVE  Within(s, S) = Within(t, R)
<1>0. Len(s) \in Nat
  BY LenProperties
<1>1. PICK g : IsSelection(g, T, s, S)
  BY WithinCourse
<1>2. PICK h : IsSelection(h, T, t, R)
  BY WithinCourse
<1>3. g[Len(s)] = h[Len(s)]
  BY <1>0, <1>1, <1>2, SelectionsAgree
<1> QED
  BY <1>1, <1>2, <1>3 DEF IsSelection

\* One element more at the end, or one that was there and had not been selected.
LEMMA WithinLast ==
    ASSUME NEW T, NEW s \in Seq(T), NEW t \in Seq(T), NEW S, NEW R, NEW n \in Nat,
           Len(t) = n + 1, Len(s) = n \/ (Len(s) = n + 1 /\ s[n + 1] \notin S),
           \A i \in 1..n : (s[i] \in S <=> t[i] \in R) /\ (s[i] \in S => s[i] = t[i])
    PROVE  Within(t, R) = IF t[n + 1] \in R THEN Append(Within(s, S), t[n + 1]) ELSE Within(s, S)
<1>1. PICK g : IsSelection(g, T, s, S)
  BY WithinCourse
<1>2. PICK h : IsSelection(h, T, t, R)
  BY WithinCourse
<1>3. g[n] = h[n]
  BY <1>1, <1>2, SelectionsAgree
<1>4. n + 1 \in 1..n + 1 /\ (n + 1) - 1 = n
  OBVIOUS
<1>5. Within(s, S) = g[n]
  <2>1. CASE Len(s) = n
    BY <1>1, <2>1 DEF IsSelection
  <2>2. CASE Len(s) = n + 1 /\ s[n + 1] \notin S
    <3>1. g[n + 1] = g[n]
      BY <1>1, <1>4, <2>2 DEF IsSelection
    <3> QED BY <1>1, <2>2, <3>1 DEF IsSelection
  <2> QED BY <2>1, <2>2
<1>6. Within(t, R) = IF t[n + 1] \in R THEN Append(h[n], t[n + 1]) ELSE h[n]
  BY <1>2, <1>4 DEF IsSelection
<1> QED
  BY <1>3, <1>5, <1>6

\* A sequence that goes up.
Ascending(s) == \A i, j \in 1..Len(s) : i < j => s[i] < s[j]

\* A selection goes up if the sequence does.
LEMMA WithinAscending ==
    ASSUME NEW s \in Seq(Int), NEW S, Ascending(s)
    PROVE  Ascending(Within(s, S))
<1> DEFINE N == Len(s)
<1>0. N \in Nat
  BY LenProperties
<1>1. PICK g : IsSelection(g, Int, s, S)
  BY WithinCourse
<1> DEFINE Good == {n \in 0..N : /\ Ascending(g[n])
                                 /\ \A i \in 1..Len(g[n]) : \E j \in 1..n : g[n][i] = s[j]}
<1>2. 0 \in Good
  BY <1>0, <1>1 DEF IsSelection, Ascending
<1>3. ASSUME NEW n \in 1..N, n - 1 \in Good PROVE n \in Good
  <2>1. /\ Ascending(g[n - 1])
        /\ \A i \in 1..Len(g[n - 1]) : \E j \in 1..n - 1 : g[n - 1][i] = s[j]
    BY <1>3
  <2>2. \A i \in 1..Len(g[n - 1]) : \E j \in 1..n : g[n - 1][i] = s[j]
    BY <2>1, <1>0
  <2>3. CASE s[n] \notin S
    <3>1. g[n] = g[n - 1]
      BY <1>1, <2>3, SelectionStep
    <3>2. Ascending(g[n]) /\ \A i \in 1..Len(g[n]) : \E j \in 1..n : g[n][i] = s[j]
      BY <3>1, <2>1, <2>2
    <3> QED BY <3>2, <1>0
  <2>4. CASE s[n] \in S
    <3> DEFINE L == Len(g[n - 1])
    <3>1. /\ L \in Nat /\ Len(g[n]) = L + 1
          /\ \A i \in 1..L : g[n][i] = g[n - 1][i]
          /\ g[n][L + 1] = s[n]
      BY <1>1, <2>4, SelectionStep
    <3>2. ASSUME NEW i \in 1..L + 1 PROVE \E j \in 1..n : g[n][i] = s[j]
      <4>1. CASE i = L + 1
        BY <4>1, <3>1, <1>0
      <4>2. CASE i # L + 1
        <5>1. i \in 1..L
          BY <4>2, <3>1
        <5> QED BY <5>1, <3>1, <2>2
      <4> QED BY <4>1, <4>2
    <3>3. ASSUME NEW k \in 1..L PROVE g[n - 1][k] < s[n]
      <4>1. PICK l \in 1..n - 1 : g[n - 1][k] = s[l]
        BY <2>1
      <4>2. l \in 1..N /\ n \in 1..N /\ l < n
        BY <1>0
      <4> QED BY <4>1, <4>2 DEF Ascending
    <3>4. ASSUME NEW i \in 1..L + 1, NEW j \in 1..L + 1, i < j PROVE g[n][i] < g[n][j]
      <4>0. i \in 1..L
        BY <3>4, <3>1
      <4>1. CASE j \in 1..L
        BY <4>0, <4>1, <3>1, <3>4, <2>1 DEF Ascending
      <4>2. CASE j = L + 1
        BY <4>0, <4>2, <3>1, <3>3
      <4>3. j = L + 1 \/ j \in 1..L
        BY <3>1
      <4> QED BY <4>1, <4>2, <4>3
    <3> HIDE DEF L
    <3>5. Ascending(g[n])
      BY <3>1, <3>4 DEF Ascending
    <3> QED BY <3>1, <3>2, <3>5, <1>0
  <2> QED BY <2>3, <2>4
<1> HIDE DEF Good
<1>4. \A n \in 0..N : n \in Good
  BY <1>0, <1>2, <1>3, UpTo
<1>5. Ascending(g[N])
  BY <1>4 DEF Good
<1> QED
  BY <1>1, <1>5 DEF IsSelection

-----------------------------------------------------------------------------
(* Lists.                                                                   *)

\* Induction over lists, for a set instead of a predicate.
LEMMA ListInduction ==
    ASSUME NEW T, NEW Good, <<>> \in Good,
           \A s \in Seq(T), x \in T : s \in Good => Append(s, x) \in Good
    PROVE  \A s \in Seq(T) : s \in Good
<1> SUFFICES ASSUME NEW s \in Seq(T) PROVE s \in Good
  OBVIOUS
<1> DEFINE N == Len(s)
           Fine == {n \in 0..N : SubSeq(s, 1, n) \in Good}
<1>0. N \in Nat
  BY LenProperties
<1>1. 0 \in Fine
  <2>1. SubSeq(s, 1, 0) = <<>>
    BY SubSeqEmpty
  <2>2. 0 \in 0..N
    BY <1>0
  <2> QED BY <2>1, <2>2, Zenon
<1>2. ASSUME NEW n \in 1..N, n - 1 \in Fine PROVE n \in Fine
  <2>1. SubSeq(s, 1, n - 1) \in Good
    BY <1>2
  <2>2. SubSeq(s, 1, n - 1) \in Seq(T) /\ s[n] \in T
    <3>1. \A i \in 1..n - 1 : i \in 1..N
      BY <1>0
    <3>2. \A i \in 1..n - 1 : s[i] \in T
      BY <3>1, ElementOfSeq
    <3> QED BY <1>0, <3>2, SubSeqProperties, ElementOfSeq
  <2>3. SubSeq(s, 1, n) = SubSeq(s, 1, n - 1) \o <<s[n]>>
    BY <1>0, SubSeqRecursiveSecond
  <2>4. SubSeq(s, 1, n) = Append(SubSeq(s, 1, n - 1), s[n])
    BY <2>2, <2>3, AppendIsConcat
  <2>5. Append(SubSeq(s, 1, n - 1), s[n]) \in Good
    BY <2>1, <2>2, Zenon
  <2>6. n \in 0..N
    BY <1>0
  <2> QED BY <2>4, <2>5, <2>6, Zenon
<1> HIDE DEF Fine
<1>3. N \in Fine
  BY <1>0, <1>1, <1>2, UpTo
<1> QED
  BY <1>3, SubSeqFull DEF Fine

\* A selection of one more.
LEMMA WithinAppend ==
    ASSUME NEW T, NEW s \in Seq(T), NEW x \in T, NEW S
    PROVE  Within(Append(s, x), S) = IF x \in S THEN Append(Within(s, S), x) ELSE Within(s, S)
<1> DEFINE n == Len(s)
           t == Append(s, x)
<1>1. n \in Nat /\ t \in Seq(T) /\ Len(t) = n + 1 /\ (\A i \in 1..n : t[i] = s[i]) /\ t[n + 1] = x
  BY LenProperties, AppendProperties
<1>2. Len(s) = n
  OBVIOUS
<1> HIDE DEF n, t
<1>3. Within(t, S) = IF t[n + 1] \in S THEN Append(Within(s, S), t[n + 1]) ELSE Within(s, S)
  BY <1>1, <1>2, WithinLast
<1> QED
  BY <1>1, <1>3 DEF t

\* g holds what the first sequences of s are together.
IsJoin(g, T, s) ==
    /\ g \in [0..Len(s) -> Seq(T)]
    /\ g[0] = <<>>
    /\ \A i \in 1..Len(s) : g[i] = g[i - 1] \o s[i]
    /\ Joined(s) = g[Len(s)]

\* What lists are together, up to each of them, exists; Joined is its end.
LEMMA JoinExists ==
    ASSUME NEW T, NEW s \in Seq(Seq(T))
    PROVE  \E g : IsJoin(g, T, s)
<1> DEFINE N == Len(s)
           V == Seq(T)
           steps == [i \in 1..N |-> [was \in V |-> was \o s[i]]]
           IsJoined(g) == g = [i \in 0..N |-> IF i = 0 THEN <<>> ELSE g[i - 1] \o s[i]]
           joined == CHOOSE g : IsJoined(g)
<1>0. N \in Nat /\ (\A i \in 1..N : s[i] \in V) /\ <<>> \in V
  BY LenProperties, ElementOfSeq, EmptySeq
<1> HIDE DEF N
<1>1. \E g : IsJoined(g) /\ g \in [0..N -> V]
  <2>1. steps \in [1..N -> [V -> V]]
    <3>1. ASSUME NEW i \in 1..N, NEW was \in V PROVE was \o s[i] \in V
      BY <1>0, ConcatProperties
    <3> HIDE DEF V
    <3> QED BY <3>1
  <2>2. PICK g : IsCourse(g, V, <<>>, steps, N)
    <3> HIDE DEF steps, V
    <3> QED BY <1>0, <2>1, CourseExists
  <2>3. g \in [0..N -> V] /\ g[0] = <<>> /\ \A i \in 1..N : g[i] = steps[i][g[i - 1]]
    BY <2>2 DEF IsCourse
  <2> HIDE DEF V
  <2>4. ASSUME NEW i \in 0..N PROVE g[i] = IF i = 0 THEN <<>> ELSE g[i - 1] \o s[i]
    <3>1. CASE i = 0
      BY <2>3, <3>1
    <3>2. CASE i # 0
      <4>1. i \in 1..N /\ i - 1 \in 0..N
        BY <1>0, <3>2
      <4>2. g[i - 1] \in V /\ g[i] = steps[i][g[i - 1]]
        BY <2>3, <4>1
      <4>3. steps[i][g[i - 1]] = g[i - 1] \o s[i]
        BY <4>1, <4>2
      <4> QED BY <3>2, <4>2, <4>3
    <3> QED BY <3>1, <3>2
  <2> HIDE DEF steps
  <2>5. IsJoined(g)
    BY <2>3, <2>4
  <2> QED BY <2>3, <2>5
<1>2. IsJoined(joined)
  BY <1>1
<1>3. joined \in [0..N -> V]
  <2>1. PICK g : IsJoined(g) /\ g \in [0..N -> V]
    BY <1>1
  <2> DEFINE Good == {i \in 0..N : joined[i] = g[i]}
  <2> HIDE DEF joined, V
  <2>2. \A i \in 0..N : /\ joined[i] = IF i = 0 THEN <<>> ELSE joined[i - 1] \o s[i]
                        /\ g[i] = IF i = 0 THEN <<>> ELSE g[i - 1] \o s[i]
    BY <1>2, <2>1
  <2>3. 0 \in Good
    BY <1>0, <2>2
  <2>4. ASSUME NEW i \in 1..N, i - 1 \in Good PROVE i \in Good
    <3>1. i \in 0..N /\ i # 0 /\ joined[i - 1] = g[i - 1]
      BY <1>0, <2>4
    <3> QED BY <2>2, <3>1
  <2> HIDE DEF Good
  <2>5. \A i \in 0..N : i \in Good
    BY <1>0, <2>3, <2>4, UpTo
  <2>6. \A i \in 0..N : joined[i] = g[i]
    BY <2>5 DEF Good
  <2> QED BY <1>2, <2>1, <2>6
<1>4. Joined(s) = joined[N]
  BY DEF Joined, N
<1> HIDE DEF joined
<1>5. joined[0] = <<>> /\ \A i \in 1..N : joined[i] = joined[i - 1] \o s[i]
  <2>1. \A i \in 0..N : joined[i] = IF i = 0 THEN <<>> ELSE joined[i - 1] \o s[i]
    BY <1>2
  <2>2. 0 \in 0..N /\ \A i \in 1..N : i \in 0..N /\ i # 0
    BY <1>0
  <2> QED BY <2>1, <2>2
<1>6. IsJoin(joined, T, s)
  BY <1>3, <1>4, <1>5 DEF IsJoin, N
<1> QED
  BY <1>6

\* Lists of one kind are a list of that kind together.
LEMMA JoinedIsSeq ==
    ASSUME NEW T, NEW s \in Seq(Seq(T))
    PROVE  Joined(s) \in Seq(T)
<1>1. PICK g : IsJoin(g, T, s)
  BY JoinExists
<1> QED
  BY <1>1, LenProperties DEF IsJoin

\* No lists are nothing together.
LEMMA JoinedEmpty == Joined(<<>>) = <<>>
<1>1. <<>> \in Seq(Seq({})) /\ Len(<<>>) = 0
  BY EmptySeq
<1>2. PICK g : IsJoin(g, {}, <<>>)
  BY <1>1, JoinExists
<1> QED
  BY <1>1, <1>2 DEF IsJoin

\* One list more comes behind the others.
LEMMA JoinedAppend ==
    ASSUME NEW T, NEW s \in Seq(Seq(T)), NEW x \in Seq(T)
    PROVE  Joined(Append(s, x)) = Joined(s) \o x
<1> DEFINE n == Len(s)
           t == Append(s, x)
<1>1. /\ n \in Nat /\ t \in Seq(Seq(T)) /\ Len(t) = n + 1
      /\ (\A i \in 1..n : t[i] = s[i]) /\ t[n + 1] = x
  BY LenProperties, AppendProperties
<1>2. Len(s) = n
  OBVIOUS
<1> HIDE DEF n, t
<1>3. PICK g : IsJoin(g, T, s)
  BY JoinExists
<1>4. PICK h : IsJoin(h, T, t)
  BY <1>1, JoinExists
<1> DEFINE Good == {i \in 0..n : g[i] = h[i]}
<1>5. 0 \in Good
  BY <1>1, <1>3, <1>4 DEF IsJoin
<1>6. ASSUME NEW i \in 1..n, i - 1 \in Good PROVE i \in Good
  <2>1. g[i] = g[i - 1] \o s[i]
    BY <1>2, <1>3 DEF IsJoin
  <2>2. h[i] = h[i - 1] \o t[i]
    <3>1. i \in 1..Len(t)
      BY <1>1
    <3> QED BY <1>4, <3>1 DEF IsJoin
  <2>3. i \in 0..n
    BY <1>1
  <2> QED BY <1>1, <1>6, <2>1, <2>2, <2>3
<1> HIDE DEF Good
<1>7. n \in Good
  <2>1. \A i \in 0..n : i \in Good
    BY <1>1, <1>5, <1>6, UpTo
  <2> QED BY <1>1, <2>1
<1>8. g[n] = h[n] /\ Joined(s) = g[n]
  BY <1>2, <1>3, <1>7 DEF Good, IsJoin
<1>9. Joined(t) = h[n] \o x
  <2>1. n + 1 \in 1..Len(t) /\ (n + 1) - 1 = n
    BY <1>1
  <2>2. h[n + 1] = h[(n + 1) - 1] \o t[n + 1] /\ Joined(t) = h[n + 1]
    BY <1>1, <1>4, <2>1 DEF IsJoin
  <2> QED BY <1>1, <2>1, <2>2
<1> QED
  BY <1>8, <1>9 DEF t

\* A list is one of all things that are in it.
LEMMA InSeq ==
    ASSUME NEW T, NEW s \in Seq(T), NEW S, \A i \in 1..Len(s) : s[i] \in S
    PROVE  s \in Seq(S)
<1>1. Len(s) \in Nat /\ s = [i \in 1..Len(s) |-> s[i]]
  BY LenProperties
<1>2. s \in [1..Len(s) -> S]
  BY <1>1
<1> QED
  BY <1>1, <1>2, SeqDef

\* What is selected is in the list and in the set.
LEMMA WithinIsSeq ==
    ASSUME NEW T, NEW s \in Seq(T), NEW S
    PROVE  Within(s, S) \in Seq(T \cap S)
<1> DEFINE w == Within(s, S)
<1>1. w \in Seq(T) /\ \A i \in 1..Len(w) : w[i] \in S
  BY WithinIsPart
<1> HIDE DEF w
<1>2. \A i \in 1..Len(w) : w[i] \in T \cap S
  BY <1>1, ElementOfSeq
<1>3. w \in Seq(T \cap S)
  BY <1>1, <1>2, InSeq
<1> QED
  BY <1>3 DEF w

\* Everything is selected, or nothing is.
LEMMA WithinAll ==
    ASSUME NEW T, NEW S, T \subseteq S, NEW s \in Seq(T)
    PROVE  Within(s, S) = s
<1> DEFINE Good == {l \in Seq(T) : Within(l, S) = l}
<1>1. <<>> \in Good
  BY WithinEmpty, EmptySeq
<1>2. ASSUME NEW l \in Seq(T), NEW x \in T, l \in Good PROVE Append(l, x) \in Good
  BY <1>2, WithinAppend, AppendProperties
<1> HIDE DEF Good
<1>3. s \in Good
  BY <1>1, <1>2, ListInduction
<1> QED
  BY <1>3 DEF Good

LEMMA WithinNone ==
    ASSUME NEW T, NEW S, T \cap S = {}, NEW s \in Seq(T)
    PROVE  Within(s, S) = <<>>
<1> DEFINE Good == {l \in Seq(T) : Within(l, S) = <<>>}
<1>1. <<>> \in Good
  BY WithinEmpty, EmptySeq
<1>2. ASSUME NEW l \in Seq(T), NEW x \in T, l \in Good PROVE Append(l, x) \in Good
  <2>1. Append(l, x) \in Seq(T) /\ x \notin S
    BY AppendProperties
  <2>2. Within(Append(l, x), S) = Within(l, S)
    BY <2>1, WithinAppend
  <2>3. Within(l, S) = <<>>
    BY <1>2
  <2> QED BY <2>1, <2>2, <2>3
<1> HIDE DEF Good
<1>3. s \in Good
  BY <1>1, <1>2, ListInduction
<1> QED
  BY <1>3 DEF Good

\* A selection of a selection.
LEMMA WithinWithin ==
    ASSUME NEW T, NEW s \in Seq(T), NEW A, NEW B
    PROVE  Within(Within(s, A), B) = Within(s, A \cap B)
<1> DEFINE Good == {l \in Seq(T) : Within(Within(l, A), B) = Within(l, A \cap B)}
<1>1. <<>> \in Good
  <2>1. Within(<<>>, A) = <<>> /\ Within(<<>>, B) = <<>> /\ Within(<<>>, A \cap B) = <<>>
    BY WithinEmpty
  <2>2. Within(Within(<<>>, A), B) = Within(<<>>, A \cap B)
    BY <2>1, Zenon
  <2> QED BY <2>2, EmptySeq
<1>2. ASSUME NEW l \in Seq(T), NEW x \in T, l \in Good PROVE Append(l, x) \in Good
  <2>1. Append(l, x) \in Seq(T)
    BY AppendProperties
  <2>2. Within(l, A) \in Seq(T)
    BY WithinIsPart
  <2>3. Within(Append(l, x), A) = IF x \in A THEN Append(Within(l, A), x) ELSE Within(l, A)
    BY WithinAppend
  <2>4. Within(Append(l, x), A \cap B) =
          IF x \in A \cap B THEN Append(Within(l, A \cap B), x) ELSE Within(l, A \cap B)
    BY WithinAppend
  <2>5. Within(Append(Within(l, A), x), B) =
          IF x \in B THEN Append(Within(Within(l, A), B), x) ELSE Within(Within(l, A), B)
    BY <2>2, WithinAppend
  <2>6. Within(Within(l, A), B) = Within(l, A \cap B)
    BY <1>2
  <2>7. CASE x \in A
    <3>1. Within(Within(Append(l, x), A), B) = Within(Append(Within(l, A), x), B)
      BY <2>3, <2>7
    <3>2. Within(Within(Append(l, x), A), B) = Within(Append(l, x), A \cap B)
      BY <2>4, <2>5, <2>6, <2>7, <3>1
    <3> QED BY <2>1, <3>2
  <2>8. CASE x \notin A
    <3>1. Within(Within(Append(l, x), A), B) = Within(Append(l, x), A \cap B)
      BY <2>3, <2>4, <2>6, <2>8
    <3> QED BY <2>1, <3>1
  <2> QED BY <2>7, <2>8
<1> HIDE DEF Good
<1>3. s \in Good
  BY <1>1, <1>2, ListInduction
<1> QED
  BY <1>3 DEF Good

\* An element behind the second list is behind both.
LEMMA ConcatAppend ==
    ASSUME NEW T, NEW s \in Seq(T), NEW t \in Seq(T), NEW x \in T
    PROVE  s \o Append(t, x) = Append(s \o t, x)
<1>1. <<x>> \in Seq(T) /\ s \o t \in Seq(T)
  BY ConcatProperties
<1>2. Append(t, x) = t \o <<x>> /\ Append(s \o t, x) = (s \o t) \o <<x>>
  BY <1>1, AppendIsConcat
<1>3. (s \o t) \o <<x>> = s \o (t \o <<x>>)
  BY <1>1, ConcatAssociative
<1> QED
  BY <1>2, <1>3

\* A selection of two lists is that of the first and that of the second.
LEMMA WithinConcat ==
    ASSUME NEW T, NEW s \in Seq(T), NEW t \in Seq(T), NEW S
    PROVE  Within(s \o t, S) = Within(s, S) \o Within(t, S)
<1> DEFINE Good == {l \in Seq(T) : Within(s \o l, S) = Within(s, S) \o Within(l, S)}
<1>0. Within(s, S) \in Seq(T)
  BY WithinIsPart
<1>1. <<>> \in Good
  <2>1. <<>> \in Seq(T) /\ s \o <<>> = s /\ Within(s, S) \o <<>> = Within(s, S)
    BY <1>0, EmptySeq, ConcatEmptySeq
  <2>2. Within(<<>>, S) = <<>>
    BY WithinEmpty
  <2> QED BY <2>1, <2>2
<1>2. ASSUME NEW l \in Seq(T), NEW x \in T, l \in Good PROVE Append(l, x) \in Good
  <2>1. Append(l, x) \in Seq(T) /\ s \o l \in Seq(T) /\ Within(l, S) \in Seq(T)
    BY AppendProperties, ConcatProperties, WithinIsPart
  <2>2. s \o Append(l, x) = Append(s \o l, x)
    BY ConcatAppend
  <2>3. Within(Append(s \o l, x), S) =
          IF x \in S THEN Append(Within(s \o l, S), x) ELSE Within(s \o l, S)
    BY <2>1, WithinAppend
  <2>4. Within(Append(l, x), S) = IF x \in S THEN Append(Within(l, S), x) ELSE Within(l, S)
    BY WithinAppend
  <2>5. Within(s, S) \o Append(Within(l, S), x) = Append(Within(s, S) \o Within(l, S), x)
    BY <1>0, <2>1, ConcatAppend
  <2>6. Within(s \o l, S) = Within(s, S) \o Within(l, S)
    BY <1>2
  <2>7. Within(s \o Append(l, x), S) = Within(s, S) \o Within(Append(l, x), S)
    BY <2>2, <2>3, <2>4, <2>5, <2>6
  <2> QED BY <2>1, <2>7
<1> HIDE DEF Good
<1>3. t \in Good
  BY <1>1, <1>2, ListInduction
<1> QED
  BY <1>3 DEF Good

\* The lists of two lists of lists, together.
LEMMA JoinedConcat ==
    ASSUME NEW T, NEW s \in Seq(Seq(T)), NEW t \in Seq(Seq(T))
    PROVE  Joined(s \o t) = Joined(s) \o Joined(t)
<1> DEFINE V == Seq(T)
           Good == {l \in Seq(V) : Joined(s \o l) = Joined(s) \o Joined(l)}
<1>0. Joined(s) \in V
  BY JoinedIsSeq
<1>1. <<>> \in Good
  <2>1. <<>> \in Seq(V) /\ s \o <<>> = s /\ Joined(s) \o <<>> = Joined(s)
    BY <1>0, EmptySeq, ConcatEmptySeq
  <2> QED BY <2>1, JoinedEmpty
<1>2. ASSUME NEW l \in Seq(V), NEW x \in V, l \in Good PROVE Append(l, x) \in Good
  <2>1. Append(l, x) \in Seq(V) /\ s \o l \in Seq(V) /\ Joined(l) \in V
    BY AppendProperties, ConcatProperties, JoinedIsSeq
  <2>2. s \o Append(l, x) = Append(s \o l, x)
    BY ConcatAppend
  <2>3. Joined(Append(s \o l, x)) = Joined(s \o l) \o x
    BY <2>1, JoinedAppend
  <2>4. Joined(Append(l, x)) = Joined(l) \o x
    BY JoinedAppend
  <2>5. Joined(s \o l) = Joined(s) \o Joined(l)
    BY <1>2
  <2>6. (Joined(s) \o Joined(l)) \o x = Joined(s) \o (Joined(l) \o x)
    BY <1>0, <2>1, ConcatAssociative
  <2>7. Joined(s \o Append(l, x)) = Joined(s) \o Joined(Append(l, x))
    BY <2>2, <2>3, <2>4, <2>5, <2>6
  <2> QED BY <2>1, <2>7
<1> HIDE DEF Good, V
<1>3. t \in Good
  <2>1. t \in Seq(V)
    BY DEF V
  <2> QED BY <1>1, <1>2, <2>1, ListInduction
<1> QED
  BY <1>3 DEF Good

\* One list alone.
LEMMA JoinedOne ==
    ASSUME NEW T, NEW x \in Seq(T)
    PROVE  Joined(<<x>>) = x
<1>1. <<>> \in Seq(Seq(T))
  BY EmptySeq
<1>2. Append(<<>>, x) = <<x>>
  OBVIOUS
<1>3. Joined(Append(<<>>, x)) = Joined(<<>>) \o x
  BY <1>1, JoinedAppend
<1>4. <<>> \o x = x
  BY ConcatEmptySeq
<1>5. Joined(<<x>>) = Joined(<<>>) \o x
  BY <1>2, <1>3
<1>6. Joined(<<x>>) = <<>> \o x
  BY <1>5, JoinedEmpty
<1> QED
  BY <1>4, <1>6

-----------------------------------------------------------------------------
(* What is done with each element of a list.                                *)

Each(F, s) == [k \in DOMAIN s |-> F[s[k]]]

\* F makes a u of each t.
Makes(F, T, U) == F \in [T -> U]

\* What F makes of an element.
LEMMA OneMade ==
    ASSUME NEW T, NEW U, NEW F, Makes(F, T, U), NEW x \in T
    PROVE  F[x] \in U
  BY DEF Makes

\* Intervals from one that are the same end with the same number.
LEMMA SameLength ==
    ASSUME NEW a \in Nat, NEW b \in Nat, 1..a = 1..b
    PROVE  a = b
<1>1. a <= b
  <2>1. CASE a = 0
    BY <2>1
  <2>2. CASE a # 0
    <3>1. a \in 1..b
      BY <2>2
    <3> QED BY <3>1
  <2> QED BY <2>1, <2>2
<1>2. b <= a
  <2>1. CASE b = 0
    BY <2>1
  <2>2. CASE b # 0
    <3>1. b \in 1..a
      BY <2>2
    <3> QED BY <3>1
  <2> QED BY <2>1, <2>2
<1> QED
  BY <1>1, <1>2

\* The list of what is made of each element is as long.
LEMMA EachIsSeq ==
    ASSUME NEW T, NEW U, NEW F, Makes(F, T, U), NEW s \in Seq(T)
    PROVE  /\ Each(F, s) \in Seq(U) /\ Len(Each(F, s)) = Len(s)
           /\ \A k \in 1..Len(s) : Each(F, s)[k] = F[s[k]]
<1>1. Len(s) \in Nat /\ DOMAIN s = 1..Len(s) /\ \A k \in 1..Len(s) : s[k] \in T
  BY LenProperties, ElementOfSeq
<1>2. Each(F, s) = [k \in 1..Len(s) |-> F[s[k]]]
  BY <1>1 DEF Each
<1>3. Each(F, s) \in [1..Len(s) -> U]
  BY <1>1, <1>2 DEF Makes
<1>4. Each(F, s) \in Seq(U)
  BY <1>1, <1>3, SeqDef
<1>5. DOMAIN Each(F, s) = 1..Len(Each(F, s)) /\ Len(Each(F, s)) \in Nat
  BY <1>4, LenProperties
<1>6. DOMAIN Each(F, s) = 1..Len(s)
  BY <1>2
<1>7. Len(Each(F, s)) = Len(s)
  <2> DEFINE a == Len(Each(F, s))
             b == Len(s)
  <2>1. a \in Nat /\ b \in Nat /\ 1..a = 1..b
    BY <1>1, <1>5, <1>6
  <2> HIDE DEF a, b
  <2>2. a = b
    BY <2>1, SameLength
  <2> QED BY <2>2 DEF a, b
<1> QED
  BY <1>2, <1>4, <1>7

\* Nothing is made of nothing.
LEMMA EachEmpty == ASSUME NEW F PROVE Each(F, <<>>) = <<>>
  BY DEF Each

\* What is made of one element more comes last.
LEMMA EachAppend ==
    ASSUME NEW T, NEW U, NEW F, Makes(F, T, U), NEW s \in Seq(T), NEW x \in T
    PROVE  Each(F, Append(s, x)) = Append(Each(F, s), F[x])
<1> DEFINE n == Len(s)
           more == Append(s, x)
           e == Each(F, s)
           f == Each(F, more)
<1>1. /\ n \in Nat /\ more \in Seq(T) /\ Len(more) = n + 1
      /\ (\A i \in 1..n : more[i] = s[i]) /\ more[n + 1] = x
  BY LenProperties, AppendProperties
<1>2. e \in Seq(U) /\ Len(e) = n /\ \A k \in 1..n : e[k] = F[s[k]]
  BY EachIsSeq
<1> HIDE DEF n, more, e
<1>3. f \in Seq(U) /\ Len(f) = n + 1 /\ \A k \in 1..n + 1 : f[k] = F[more[k]]
  <2>1. /\ f \in Seq(U) /\ Len(f) = Len(more)
        /\ \A k \in 1..Len(more) : f[k] = F[more[k]]
    BY <1>1, EachIsSeq
  <2> QED BY <1>1, <2>1
<1> HIDE DEF f
<1> DEFINE g == Append(e, F[x])
<1>4. F[x] \in U
  BY DEF Makes
<1>5. g \in Seq(U) /\ Len(g) = n + 1 /\ (\A k \in 1..n : g[k] = e[k]) /\ g[n + 1] = F[x]
  BY <1>2, <1>4, AppendProperties
<1> HIDE DEF g
<1>6. ASSUME NEW k \in 1..n + 1 PROVE f[k] = g[k]
  <2>1. CASE k = n + 1
    BY <1>1, <1>3, <1>5, <2>1
  <2>2. CASE k # n + 1
    <3>1. k \in 1..n
      BY <1>1, <2>2
    <3> QED BY <1>1, <1>2, <1>3, <1>5, <3>1
  <2> QED BY <2>1, <2>2
<1>7. f = g
  BY <1>3, <1>5, <1>6, SeqEqual
<1> QED
  BY <1>7 DEF f, g, e, more

\* What is made of two lists is made of the first and of the second.
LEMMA EachConcat ==
    ASSUME NEW T, NEW U, NEW F, Makes(F, T, U), NEW s \in Seq(T), NEW t \in Seq(T)
    PROVE  Each(F, s \o t) = Each(F, s) \o Each(F, t)
<1> DEFINE Good == {l \in Seq(T) : Each(F, s \o l) = Each(F, s) \o Each(F, l)}
<1>0. Each(F, s) \in Seq(U)
  BY EachIsSeq
<1>1. <<>> \in Good
  <2>1. <<>> \in Seq(T) /\ s \o <<>> = s /\ Each(F, s) \o <<>> = Each(F, s)
    BY <1>0, EmptySeq, ConcatEmptySeq
  <2> QED BY <2>1, EachEmpty
<1>2. ASSUME NEW l \in Seq(T), NEW x \in T, l \in Good PROVE Append(l, x) \in Good
  <2>1. Append(l, x) \in Seq(T) /\ s \o l \in Seq(T) /\ Each(F, l) \in Seq(U) /\ F[x] \in U
    BY AppendProperties, ConcatProperties, EachIsSeq, OneMade
  <2>2. s \o Append(l, x) = Append(s \o l, x)
    BY ConcatAppend
  <2>3. Each(F, Append(s \o l, x)) = Append(Each(F, s \o l), F[x])
    <3> DEFINE j == s \o l
    <3>1. j \in Seq(T)
      BY <2>1
    <3> HIDE DEF j
    <3>2. Each(F, Append(j, x)) = Append(Each(F, j), F[x])
      BY <3>1, EachAppend
    <3> QED BY <3>2 DEF j
  <2>4. Each(F, Append(l, x)) = Append(Each(F, l), F[x])
    BY EachAppend
  <2>5. Each(F, s) \o Append(Each(F, l), F[x]) = Append(Each(F, s) \o Each(F, l), F[x])
    BY <1>0, <2>1, ConcatAppend
  <2>6. Each(F, s \o l) = Each(F, s) \o Each(F, l)
    BY <1>2
  <2>7. Each(F, s \o Append(l, x)) = Each(F, s) \o Each(F, Append(l, x))
    BY <2>2, <2>3, <2>4, <2>5, <2>6
  <2> QED BY <2>1, <2>7
<1> HIDE DEF Good
<1>3. t \in Good
  BY <1>1, <1>2, ListInduction
<1> QED
  BY <1>3 DEF Good

\* What is done with each element of all parts.
LEMMA JoinedJoined ==
    ASSUME NEW T, NEW U, NEW F, Makes(F, T, Seq(U)), NEW ss \in Seq(Seq(T))
    PROVE  Joined(Each(F, Joined(ss))) = Joined(Each([p \in Seq(T) |-> Joined(Each(F, p))], ss))
<1> DEFINE V == Seq(T)
           W == Seq(U)
           G == [p \in V |-> Joined(Each(F, p))]
           Good == {l \in Seq(V) : Joined(Each(F, Joined(l))) = Joined(Each(G, l))}
<1>0. Makes(G, V, W) /\ \A p \in V : G[p] = Joined(Each(F, p)) /\ Each(F, p) \in Seq(W)
  <2>1. ASSUME NEW p \in V PROVE Each(F, p) \in Seq(W) /\ Joined(Each(F, p)) \in W
    BY EachIsSeq, JoinedIsSeq
  <2> HIDE DEF V, W
  <2> QED BY <2>1 DEF Makes
<1> HIDE DEF G
<1>1. <<>> \in Good
  <2>1. Each(F, Joined(<<>>)) = <<>> /\ Each(G, <<>>) = <<>>
    BY JoinedEmpty, EachEmpty
  <2> QED BY <2>1, EmptySeq
<1>2. ASSUME NEW l \in Seq(V), NEW x \in V, l \in Good PROVE Append(l, x) \in Good
  <2>1. Append(l, x) \in Seq(V) /\ Joined(l) \in V
    BY AppendProperties, JoinedIsSeq
  <2>2. Joined(Append(l, x)) = Joined(l) \o x
    BY JoinedAppend
  <2>3. Each(F, Joined(l) \o x) = Each(F, Joined(l)) \o Each(F, x)
    <3> DEFINE j == Joined(l)
    <3>1. j \in Seq(T) /\ x \in Seq(T) /\ Makes(F, T, W)
      BY <2>1
    <3> HIDE DEF j, V, W
    <3> QED BY <3>1, EachConcat DEF j
  <2>4. Joined(Each(F, Joined(l)) \o Each(F, x)) = Joined(Each(F, Joined(l))) \o Joined(Each(F, x))
    BY <1>0, <2>1, JoinedConcat
  <2>5. Joined(Each(F, Joined(l))) = Joined(Each(G, l))
    BY <1>2
  <2>6. Each(G, Append(l, x)) = Append(Each(G, l), G[x])
    <3> HIDE DEF V, W
    <3> QED BY <1>0, EachAppend
  <2>7. Each(G, l) \in Seq(W) /\ G[x] \in W
    <3> HIDE DEF V, W
    <3> QED BY <1>0, EachIsSeq, OneMade
  <2>8. Joined(Append(Each(G, l), G[x])) = Joined(Each(G, l)) \o G[x]
    BY <2>7, JoinedAppend
  <2>9. Joined(Each(F, Joined(Append(l, x)))) = Joined(Each(G, Append(l, x)))
    BY <1>0, <2>2, <2>3, <2>4, <2>5, <2>6, <2>8
  <2> QED BY <2>1, <2>9
<1> HIDE DEF Good, V, W
<1>3. ss \in Good
  <2>1. ss \in Seq(V)
    BY DEF V
  <2> QED BY <1>1, <1>2, <2>1, ListInduction
<1> QED
  BY <1>3 DEF Good, G, V

\* Each element as a list, put together, is the list again.
LEMMA JoinedSingles ==
    ASSUME NEW T, NEW s \in Seq(T)
    PROVE  Joined(Each([x \in T |-> <<x>>], s)) = s
<1> DEFINE F == [x \in T |-> <<x>>]
           Good == {l \in Seq(T) : Joined(Each(F, l)) = l}
<1>0. Makes(F, T, Seq(T)) /\ \A x \in T : F[x] = <<x>>
  BY DEF Makes
<1> HIDE DEF F
<1>1. <<>> \in Good
  BY EachEmpty, JoinedEmpty, EmptySeq
<1>2. ASSUME NEW l \in Seq(T), NEW x \in T, l \in Good PROVE Append(l, x) \in Good
  <2>1. Append(l, x) \in Seq(T) /\ Append(l, x) = l \o <<x>>
    BY AppendProperties, AppendIsConcat
  <2>2. Each(F, Append(l, x)) = Append(Each(F, l), F[x])
    BY <1>0, EachAppend
  <2>3. Each(F, l) \in Seq(Seq(T)) /\ F[x] \in Seq(T)
    BY <1>0, EachIsSeq, OneMade
  <2>4. Joined(Append(Each(F, l), F[x])) = Joined(Each(F, l)) \o F[x]
    BY <2>3, JoinedAppend
  <2>5. Joined(Each(F, l)) = l /\ F[x] = <<x>>
    BY <1>0, <1>2
  <2>6. Joined(Each(F, Append(l, x))) = Append(l, x)
    BY <2>1, <2>2, <2>4, <2>5, Zenon
  <2> QED BY <2>1, <2>6
<1> HIDE DEF Good
<1>3. s \in Good
  BY <1>1, <1>2, ListInduction
<1> QED
  BY <1>3 DEF Good, F

\* A selection of one element.
LEMMA WithinOne ==
    ASSUME NEW T, NEW x \in T, NEW S
    PROVE  Within(<<x>>, S) = IF x \in S THEN <<x>> ELSE <<>>
<1>1. <<>> \in Seq(T) /\ Append(<<>>, x) = <<x>>
  BY EmptySeq
<1>2. Within(Append(<<>>, x), S) = IF x \in S THEN Append(Within(<<>>, S), x) ELSE Within(<<>>, S)
  BY <1>1, WithinAppend
<1>3. Within(<<>>, S) = <<>>
  BY WithinEmpty
<1>4. CASE x \in S
  <2>1. Within(Append(<<>>, x), S) = Append(<<>>, x)
    BY <1>2, <1>3, <1>4, Zenon
  <2>2. Within(<<x>>, S) = <<x>>
    BY <1>1, <2>1, Zenon
  <2> QED BY <1>4, <2>2
<1>5. CASE x \notin S
  <2>1. Within(Append(<<>>, x), S) = <<>>
    BY <1>2, <1>3, <1>5, Zenon
  <2>2. Within(<<x>>, S) = <<>>
    BY <1>1, <2>1, Zenon
  <2> QED BY <1>5, <2>2
<1> QED
  BY <1>4, <1>5

\* Each two elements of s are related in their order.
Ordered(s, R) == \A i, j \in 1..Len(s) : i < j => <<s[i], s[j]>> \in R

\* A list is in order with one more if all its elements are related to that.
LEMMA OrderedAppend ==
    ASSUME NEW T, NEW s \in Seq(T), NEW x \in T, NEW R
    PROVE  Ordered(Append(s, x), R) <=> Ordered(s, R) /\ \A i \in 1..Len(s) : <<s[i], x>> \in R
<1> DEFINE n == Len(s)
           t == Append(s, x)
<1>1. n \in Nat /\ Len(t) = n + 1 /\ (\A i \in 1..n : t[i] = s[i]) /\ t[n + 1] = x
  BY LenProperties, AppendProperties
<1>2. Len(s) = n
  OBVIOUS
<1> HIDE DEF n, t
<1>3. ASSUME Ordered(t, R) PROVE Ordered(s, R) /\ \A i \in 1..n : <<s[i], x>> \in R
  <2>1. ASSUME NEW i \in 1..n, NEW j \in 1..n, i < j PROVE <<s[i], s[j]>> \in R
    <3>1. <<t[i], t[j]>> \in R
      BY <1>1, <1>3, <2>1 DEF Ordered
    <3>2. t[i] = s[i] /\ t[j] = s[j]
      BY <1>1
    <3> QED BY <3>1, <3>2, Zenon
  <2>2. ASSUME NEW i \in 1..n PROVE <<s[i], x>> \in R
    <3>1. <<t[i], t[n + 1]>> \in R
      BY <1>1, <1>3 DEF Ordered
    <3>2. t[i] = s[i]
      BY <1>1
    <3> QED BY <1>1, <3>1, <3>2, Zenon
  <2> QED BY <1>2, <2>1, <2>2 DEF Ordered
<1>4. ASSUME Ordered(s, R), \A i \in 1..n : <<s[i], x>> \in R PROVE Ordered(t, R)
  <2>1. ASSUME NEW i \in 1..n + 1, NEW j \in 1..n + 1, i < j PROVE <<t[i], t[j]>> \in R
    <3>1. CASE j = n + 1
      <4>1. i \in 1..n
        BY <1>1, <2>1, <3>1
      <4>2. <<s[i], x>> \in R /\ t[i] = s[i] /\ t[j] = x
        BY <1>1, <1>4, <3>1, <4>1
      <4> QED BY <4>2, Zenon
    <3>2. CASE j # n + 1
      <4>1. i \in 1..n /\ j \in 1..n
        BY <1>1, <2>1, <3>2
      <4>2. <<s[i], s[j]>> \in R /\ t[i] = s[i] /\ t[j] = s[j]
        BY <1>1, <1>2, <1>4, <2>1, <4>1 DEF Ordered
      <4> QED BY <4>2, Zenon
    <3> QED BY <3>1, <3>2
  <2> QED BY <1>1, <2>1 DEF Ordered
<1> QED
  BY <1>2, <1>3, <1>4 DEF t

\* A selection keeps the order.
LEMMA WithinOrdered ==
    ASSUME NEW T, NEW s \in Seq(T), NEW S, NEW R, Ordered(s, R)
    PROVE  Ordered(Within(s, S), R)
<1> DEFINE Good == {l \in Seq(T) : Ordered(l, R) => Ordered(Within(l, S), R)}
<1>1. <<>> \in Good
  <2>1. Within(<<>>, S) = <<>>
    BY WithinEmpty
  <2> QED BY <2>1, EmptySeq
<1>2. ASSUME NEW l \in Seq(T), NEW x \in T, l \in Good PROVE Append(l, x) \in Good
  <2>1. Append(l, x) \in Seq(T)
    BY AppendProperties
  <2>2. ASSUME Ordered(Append(l, x), R) PROVE Ordered(Within(Append(l, x), S), R)
    <3>1. Ordered(l, R) /\ \A i \in 1..Len(l) : <<l[i], x>> \in R
      BY <2>2, OrderedAppend
    <3>2. Ordered(Within(l, S), R)
      BY <1>2, <3>1
    <3> DEFINE w == Within(l, S)
    <3>3. w \in Seq(T) /\ \A i \in 1..Len(w) : \E j \in 1..Len(l) : w[i] = l[j]
      BY WithinIsPart
    <3>4. Within(Append(l, x), S) = IF x \in S THEN Append(w, x) ELSE w
      BY WithinAppend
    <3>5. Ordered(w, R)
      BY <3>2
    <3> HIDE DEF w
    <3>6. \A i \in 1..Len(w) : <<w[i], x>> \in R
      BY <3>1, <3>3, Zenon
    <3>7. Ordered(Append(w, x), R)
      BY <3>3, <3>5, <3>6, OrderedAppend
    <3> QED BY <3>4, <3>5, <3>7, Zenon
  <2> QED BY <2>1, <2>2
<1> HIDE DEF Good
<1>3. s \in Good
  BY <1>1, <1>2, ListInduction
<1> QED
  BY <1>3 DEF Good

\* Whatever is in the whole is in one of the parts.
LEMMA JoinedFrom ==
    ASSUME NEW T, NEW ss \in Seq(Seq(T)), NEW i \in 1..Len(Joined(ss))
    PROVE  \E k \in 1..Len(ss) : \E j \in 1..Len(ss[k]) : Joined(ss)[i] = ss[k][j]
<1> DEFINE V == Seq(T)
           From(l) == \A m \in 1..Len(Joined(l)) :
                        \E k \in 1..Len(l) : \E j \in 1..Len(l[k]) : Joined(l)[m] = l[k][j]
           Good == {l \in Seq(V) : From(l)}
<1>1. <<>> \in Good
  <2>1. Joined(<<>>) = <<>> /\ Len(<<>>) = 0
    BY JoinedEmpty, EmptySeq
  <2>2. 1..Len(Joined(<<>>)) = {}
    BY <2>1
  <2> HIDE DEF V
  <2> QED BY <2>2, EmptySeq
<1>2. ASSUME NEW l \in Seq(V), NEW x \in V, l \in Good PROVE Append(l, x) \in Good
  <2> DEFINE a == Joined(l)
             more == Append(l, x)
             n == Len(l)
  <2>1. more \in Seq(V) /\ Len(more) = n + 1 /\ n \in Nat
        /\ (\A k \in 1..n : more[k] = l[k]) /\ more[n + 1] = x
    BY AppendProperties, LenProperties
  <2>2. Joined(more) = a \o x /\ a \in Seq(T)
    BY JoinedAppend, JoinedIsSeq
  <2>3. /\ Len(a) \in Nat /\ Len(x) \in Nat /\ Len(a \o x) = Len(a) + Len(x)
        /\ \A m \in 1..Len(a) + Len(x) : (a \o x)[m] = IF m <= Len(a) THEN a[m] ELSE x[m - Len(a)]
    BY <2>2, ConcatProperties, LenProperties
  <2>4. \A m \in 1..Len(a) : \E k \in 1..n : \E j \in 1..Len(l[k]) : a[m] = l[k][j]
    BY <1>2
  <2> DEFINE ax == a \o x
  <2>5. /\ Len(ax) = Len(a) + Len(x) /\ Joined(more) = ax
        /\ \A m \in 1..Len(a) + Len(x) : ax[m] = IF m <= Len(a) THEN a[m] ELSE x[m - Len(a)]
    BY <2>2, <2>3
  <2> HIDE DEF a, more, n, ax, V
  <2>6. ASSUME NEW m \in 1..Len(ax)
        PROVE  \E k \in 1..n + 1 : \E j \in 1..Len(more[k]) : ax[m] = more[k][j]
    <3>1. CASE m <= Len(a)
      <4>1. m \in 1..Len(a) /\ ax[m] = a[m]
        BY <2>3, <2>5, <3>1
      <4>2. PICK k \in 1..n : \E j \in 1..Len(l[k]) : a[m] = l[k][j]
        BY <2>4, <4>1
      <4>3. k \in 1..n + 1
        BY <2>1
      <4>4. more[k] = l[k]
        BY <2>1, Zenon
      <4> QED BY <4>4, <4>1, <4>2, <4>3, Zenon
    <3>2. CASE ~(m <= Len(a))
      <4>1. m - Len(a) \in 1..Len(x) /\ ax[m] = x[m - Len(a)]
        BY <2>3, <2>5, <3>2
      <4>2. n + 1 \in 1..n + 1 /\ more[n + 1] = x
        BY <2>1
      <4> QED BY <4>1, <4>2, Zenon
    <3> QED BY <3>1, <3>2
  <2>7. From(more)
    <3>1. Len(more) = n + 1 /\ Joined(more) = ax
      BY <2>1, <2>5
    <3> QED BY <2>6, <3>1, Zenon
  <2> QED BY <2>1, <2>7 DEF more
<1> HIDE DEF Good
<1>3. ss \in Good
  BY <1>1, <1>2, ListInduction
<1> QED
  BY <1>3 DEF Good

\* Parts in order, each in order, are in order together.
LEMMA JoinedOrdered ==
    ASSUME NEW T, NEW ss \in Seq(Seq(T)), NEW R,
           \A k \in 1..Len(ss) : Ordered(ss[k], R),
           \A k, l \in 1..Len(ss) : k < l =>
             \A i \in 1..Len(ss[k]), j \in 1..Len(ss[l]) : <<ss[k][i], ss[l][j]>> \in R
    PROVE  Ordered(Joined(ss), R)
<1> DEFINE V == Seq(T)
           Fine(s) == /\ \A k \in 1..Len(s) : Ordered(s[k], R)
                      /\ \A k, l \in 1..Len(s) : k < l =>
                           \A i \in 1..Len(s[k]), j \in 1..Len(s[l]) : <<s[k][i], s[l][j]>> \in R
           Good == {s \in Seq(V) : Fine(s) => Ordered(Joined(s), R)}
<1>1. <<>> \in Good
  <2>1. Joined(<<>>) = <<>> /\ Len(<<>>) = 0
    BY JoinedEmpty, EmptySeq
  <2>2. Ordered(Joined(<<>>), R)
    BY <2>1 DEF Ordered
  <2> HIDE DEF V, Fine
  <2> QED BY <2>2, EmptySeq
<1>2. ASSUME NEW s \in Seq(V), NEW x \in V, s \in Good PROVE Append(s, x) \in Good
  <2> DEFINE a == Joined(s)
             more == Append(s, x)
             n == Len(s)
             ax == a \o x
  <2>1. more \in Seq(V) /\ Len(more) = n + 1 /\ n \in Nat
        /\ (\A k \in 1..n : more[k] = s[k]) /\ more[n + 1] = x
    BY AppendProperties, LenProperties
  <2>2. Joined(more) = ax /\ a \in Seq(T)
    BY JoinedAppend, JoinedIsSeq
  <2>3. /\ Len(a) \in Nat /\ Len(x) \in Nat /\ Len(ax) = Len(a) + Len(x)
        /\ \A m \in 1..Len(a) + Len(x) : ax[m] = IF m <= Len(a) THEN a[m] ELSE x[m - Len(a)]
    BY <2>2, ConcatProperties, LenProperties
  <2>4. \A m \in 1..Len(a) : \E k \in 1..n : \E j \in 1..Len(s[k]) : a[m] = s[k][j]
    BY JoinedFrom
  <2>5. Fine(s) => Ordered(a, R)
    BY <1>2
  <2> HIDE DEF a, ax, more, n, V
  <2>6. ASSUME Fine(more) PROVE Ordered(ax, R)
    <3>1. Ordered(more[n + 1], R)
      BY <2>1, <2>6
    <3>2. Fine(s)
      <4>1. ASSUME NEW k \in 1..n PROVE Ordered(s[k], R)
        BY <2>1, <2>6
      <4>2. ASSUME NEW k \in 1..n, NEW l \in 1..n, k < l,
                   NEW i \in 1..Len(s[k]), NEW j \in 1..Len(s[l])
            PROVE  <<s[k][i], s[l][j]>> \in R
        <5>1. k \in 1..n + 1 /\ l \in 1..n + 1 /\ more[k] = s[k] /\ more[l] = s[l]
          BY <2>1
        <5>2. <<more[k][i], more[l][j]>> \in R
          BY <2>1, <2>6, <4>2, <5>1
        <5> QED BY <5>1, <5>2, Zenon
      <4> QED BY <4>1, <4>2 DEF n
    <3>3. Ordered(a, R)
      BY <2>5, <3>2
    <3>4. ASSUME NEW i \in 1..Len(ax), NEW j \in 1..Len(ax), i < j PROVE <<ax[i], ax[j]>> \in R
      <4>1. CASE j <= Len(a)
        <5>1. i \in 1..Len(a) /\ j \in 1..Len(a) /\ ax[i] = a[i] /\ ax[j] = a[j]
          BY <2>3, <3>4, <4>1
        <5>2. <<a[i], a[j]>> \in R
          BY <3>3, <3>4, <5>1 DEF Ordered
        <5> QED BY <5>1, <5>2, Zenon
      <4>2. CASE ~(j <= Len(a)) /\ i <= Len(a)
        <5>1. /\ i \in 1..Len(a) /\ ax[i] = a[i]
              /\ j - Len(a) \in 1..Len(x) /\ ax[j] = x[j - Len(a)]
          BY <2>3, <3>4, <4>2
        <5>2. PICK k \in 1..n : \E m \in 1..Len(s[k]) : a[i] = s[k][m]
          BY <2>4, <5>1
        <5>3. PICK m \in 1..Len(s[k]) : a[i] = s[k][m]
          BY <5>2
        <5>4. k \in 1..n + 1 /\ n + 1 \in 1..n + 1 /\ k < n + 1 /\ more[k] = s[k] /\ more[n + 1] = x
          BY <2>1
        <5>5. <<more[k][m], more[n + 1][j - Len(a)]>> \in R
          <6> DEFINE q == j - Len(a)
          <6>1. q \in 1..Len(more[n + 1]) /\ m \in 1..Len(more[k])
            BY <5>1, <5>4
          <6> HIDE DEF q
          <6>2. <<more[k][m], more[n + 1][q]>> \in R
            BY <2>1, <2>6, <5>4, <6>1
          <6> QED BY <6>2 DEF q
        <5> QED BY <5>1, <5>3, <5>4, <5>5, Zenon
      <4>3. CASE ~(j <= Len(a)) /\ ~(i <= Len(a))
        <5> DEFINE p == i - Len(a)
                   q == j - Len(a)
        <5>1. /\ p \in 1..Len(x) /\ ax[i] = x[p]
              /\ q \in 1..Len(x) /\ ax[j] = x[q] /\ p < q
          BY <2>3, <3>4, <4>3
        <5> HIDE DEF p, q
        <5>2. <<x[p], x[q]>> \in R
          BY <2>1, <3>1, <5>1 DEF Ordered
        <5> QED BY <5>1, <5>2, Zenon
      <4> QED BY <4>1, <4>2, <4>3
    <3> QED BY <3>4 DEF Ordered
  <2>7. Fine(more) => Ordered(Joined(more), R)
    BY <2>2, <2>6
  <2> QED BY <2>1, <2>7 DEF more
<1> HIDE DEF Good
<1>3. ss \in Good
  BY <1>1, <1>2, ListInduction
<1> QED
  BY <1>3 DEF Good

\* The list of one element.
LEMMA OneIsSeq ==
    ASSUME NEW T, NEW x \in T
    PROVE  <<x>> \in Seq(T) /\ Len(<<x>>) = 1 /\ <<x>>[1] = x /\ <<x>> # <<>>
  OBVIOUS

\* A list that is not empty is its first element and its tail.
LEMMA FirstAndRest ==
    ASSUME NEW T, NEW s \in Seq(T), s # <<>>
    PROVE  /\ s = <<s[1]>> \o Tail(s) /\ s[1] \in T /\ Tail(s) \in Seq(T)
           /\ Len(s) \in Nat /\ Len(s) >= 1 /\ Len(Tail(s)) = Len(s) - 1
           /\ \A k \in 1..Len(s) - 1 : Tail(s)[k] = s[k + 1]
<1>1. Len(s) \in Nat \ {0}
  BY EmptySeq
<1>2. 1 \in 1..Len(s) /\ Len(s) \in 1..Len(s)
  BY <1>1
<1>3. SubSeq(s, 1, Len(s)) = <<s[1]>> \o SubSeq(s, 1 + 1, Len(s))
  BY <1>2, SubSeqRecursiveFirst
<1>4. SubSeq(s, 1, Len(s)) = s /\ Tail(s) = SubSeq(s, 2, Len(s)) /\ 1 + 1 = 2
  BY SubSeqFull, TailIsSubSeq
<1>5. s = <<s[1]>> \o Tail(s)
  BY <1>3, <1>4, Zenon
<1>6. s[1] \in T
  BY <1>2, ElementOfSeq
<1>7. /\ Tail(s) \in Seq(T) /\ Len(Tail(s)) = Len(s) - 1
      /\ \A k \in 1..Len(Tail(s)) : Tail(s)[k] = s[k + 1]
  BY HeadTailProperties
<1> QED
  BY <1>1, <1>5, <1>6, <1>7

\* What is made of one element.
LEMMA EachOne ==
    ASSUME NEW T, NEW U, NEW F, Makes(F, T, U), NEW x \in T
    PROVE  Each(F, <<x>>) = <<F[x]>>
<1>1. <<>> \in Seq(T) /\ Append(<<>>, x) = <<x>>
  BY EmptySeq
<1>2. Each(F, Append(<<>>, x)) = Append(Each(F, <<>>), F[x])
  BY <1>1, EachAppend
<1>3. Each(F, <<>>) = <<>>
  BY EachEmpty
<1>4. \A y : Append(<<>>, y) = <<y>>
  OBVIOUS
<1> QED
  BY <1>2, <1>3, <1>4, Zenon

\* The first, and then the others.
LEMMA JoinedFirst ==
    ASSUME NEW T, NEW U, NEW F, Makes(F, T, Seq(U)), NEW s \in Seq(T), s # <<>>
    PROVE  Joined(Each(F, s)) = F[s[1]] \o Joined(Each(F, Tail(s)))
<1> DEFINE o == <<s[1]>>
           t == Tail(s)
           V == Seq(U)
<1>1. s = o \o t /\ s[1] \in T /\ t \in Seq(T)
  BY FirstAndRest
<1>2. o \in Seq(T)
  BY <1>1, OneIsSeq
<1> DEFINE e == <<F[s[1]]>>
<1>3. Each(F, o) = e
  BY <1>1, EachOne
<1> HIDE DEF o, t, V
<1>4. Makes(F, T, V)
  BY DEF V
<1>5. Each(F, o \o t) = Each(F, o) \o Each(F, t)
  BY <1>1, <1>2, <1>4, EachConcat
<1>6. F[s[1]] \in V /\ Each(F, t) \in Seq(V)
  BY <1>1, <1>4, OneMade, EachIsSeq
<1>7. e \in Seq(V)
  BY <1>6, OneIsSeq
<1>8. Joined(e) = F[s[1]]
  BY <1>6, JoinedOne DEF V
<1> HIDE DEF e
<1>9. Joined(e \o Each(F, t)) = Joined(e) \o Joined(Each(F, t))
  BY <1>6, <1>7, JoinedConcat DEF V
<1>10. Each(F, s) = e \o Each(F, t)
  BY <1>1, <1>3, <1>5, Zenon
<1> QED
  BY <1>8, <1>9, <1>10, Zenon DEF t

\* What is made of two lists, put together.
LEMMA JoinedBoth ==
    ASSUME NEW T, NEW U, NEW F, Makes(F, T, Seq(U)), NEW s \in Seq(T), NEW t \in Seq(T)
    PROVE  Joined(Each(F, s \o t)) = Joined(Each(F, s)) \o Joined(Each(F, t))
<1> DEFINE V == Seq(U)
<1>1. Makes(F, T, V)
  OBVIOUS
<1> HIDE DEF V
<1>2. Each(F, s \o t) = Each(F, s) \o Each(F, t)
  BY <1>1, EachConcat
<1>3. Each(F, s) \in Seq(V) /\ Each(F, t) \in Seq(V)
  BY <1>1, EachIsSeq
<1>4. Joined(Each(F, s) \o Each(F, t)) = Joined(Each(F, s)) \o Joined(Each(F, t))
  BY <1>3, JoinedConcat DEF V
<1> QED
  BY <1>2, <1>4, Zenon

\* What is made of each element, put together, is a list.
LEMMA JoinedEachIsSeq ==
    ASSUME NEW T, NEW U, NEW F, Makes(F, T, Seq(U)), NEW s \in Seq(T)
    PROVE  Joined(Each(F, s)) \in Seq(U)
<1> DEFINE V == Seq(U)
<1>1. Makes(F, T, V)
  OBVIOUS
<1> HIDE DEF V
<1>2. Each(F, s) \in Seq(V)
  BY <1>1, EachIsSeq
<1> QED
  BY <1>2, JoinedIsSeq DEF V

\* Nothing is made of any element.
LEMMA JoinedNothing ==
    ASSUME NEW T, NEW U, NEW F, Makes(F, T, Seq(U)), NEW s \in Seq(T),
           \A k \in 1..Len(s) : F[s[k]] = <<>>
    PROVE  Joined(Each(F, s)) = <<>>
<1> DEFINE S == {x \in T : F[x] = <<>>}
           Good == {l \in Seq(S) : Joined(Each(F, l)) = <<>>}
           V == Seq(U)
<1>0. Makes(F, T, V) /\ S \subseteq T /\ \A x \in S : F[x] = <<>>
  OBVIOUS
<1>1. \A k \in 1..Len(s) : s[k] \in S
  BY ElementOfSeq
<1> HIDE DEF S, V
<1>2. s \in Seq(S)
  BY <1>1, InSeq
<1>3. <<>> \in Good
  BY EmptySeq, EachEmpty, JoinedEmpty
<1>4. ASSUME NEW l \in Seq(S), NEW x \in S, l \in Good PROVE Append(l, x) \in Good
  <2>1. Append(l, x) \in Seq(S) /\ l \in Seq(T) /\ x \in T
    BY <1>0, AppendProperties, SeqMonotonic
  <2>2. Each(F, Append(l, x)) = Append(Each(F, l), F[x])
    BY <1>0, <2>1, EachAppend
  <2>3. Each(F, l) \in Seq(V) /\ F[x] \in V /\ F[x] = <<>>
    BY <1>0, <2>1, EachIsSeq, OneMade
  <2>4. Joined(Append(Each(F, l), F[x])) = Joined(Each(F, l)) \o F[x]
    BY <2>3, JoinedAppend DEF V
  <2>5. Joined(Each(F, l)) = <<>>
    BY <1>4
  <2>6. <<>> \o <<>> = <<>>
    OBVIOUS
  <2>7. Joined(Each(F, Append(l, x))) = <<>>
    BY <2>2, <2>3, <2>4, <2>5, <2>6, Zenon
  <2> QED BY <2>1, <2>7
<1> HIDE DEF Good
<1>5. s \in Good
  BY <1>2, <1>3, <1>4, ListInduction
<1> QED
  BY <1>5 DEF Good

\* The same is made of each element.
LEMMA EachSame ==
    ASSUME NEW F, NEW G, NEW T, NEW s \in Seq(T), \A x \in T : F[x] = G[x]
    PROVE  Each(F, s) = Each(G, s)
<1>1. DOMAIN s = 1..Len(s) /\ \A k \in 1..Len(s) : s[k] \in T
  BY LenProperties, ElementOfSeq
<1> QED
  BY <1>1 DEF Each

\* All of one kind come before all of another: taken apart and put together
\* again they are the same.
LEMMA TwoParts ==
    ASSUME NEW T, NEW s \in Seq(T), NEW A, NEW B, A \cap B = {},
           \A i, j \in 1..Len(s) : i < j /\ s[i] \in B => s[j] \notin A
    PROVE  Within(s, A \cup B) = Within(s, A) \o Within(s, B)
<1> DEFINE Apart(l) == \A i, j \in 1..Len(l) : i < j /\ l[i] \in B => l[j] \notin A
           Good == {l \in Seq(T) : Apart(l) => Within(l, A \cup B) = Within(l, A) \o Within(l, B)}
<1>1. <<>> \in Good
  <2>1. Within(<<>>, A \cup B) = <<>> /\ Within(<<>>, A) = <<>> /\ Within(<<>>, B) = <<>>
    BY WithinEmpty
  <2>2. <<>> \o <<>> = <<>>
    OBVIOUS
  <2>3. Within(<<>>, A \cup B) = Within(<<>>, A) \o Within(<<>>, B)
    BY <2>1, <2>2, Zenon
  <2> QED BY <2>3, EmptySeq
<1>2. ASSUME NEW l \in Seq(T), NEW x \in T, l \in Good PROVE Append(l, x) \in Good
  <2> DEFINE n == Len(l)
             more == Append(l, x)
             wa == Within(l, A)
             wb == Within(l, B)
             w == Within(l, A \cup B)
  <2>1. /\ more \in Seq(T) /\ Len(more) = n + 1 /\ n \in Nat
        /\ (\A k \in 1..n : more[k] = l[k]) /\ more[n + 1] = x
    BY AppendProperties, LenProperties
  <2>2. /\ Within(more, A \cup B) = IF x \in A \cup B THEN Append(w, x) ELSE w
        /\ Within(more, A) = IF x \in A THEN Append(wa, x) ELSE wa
        /\ Within(more, B) = IF x \in B THEN Append(wb, x) ELSE wb
    BY WithinAppend
  <2>3. wa \in Seq(T) /\ wb \in Seq(T) /\ \A i \in 1..Len(wb) : wb[i] \in B /\ \E j \in 1..n : wb[i] = l[j]
    BY WithinIsPart
  <2>4. Apart(l) => w = wa \o wb
    BY <1>2
  <2>5. Len(l) = n
    OBVIOUS
  <2> HIDE DEF w, wa, wb, more, n
  <2>6. ASSUME Apart(more) PROVE Within(more, A \cup B) = Within(more, A) \o Within(more, B)
    <3>1. Apart(l)
      <4>1. ASSUME NEW i \in 1..n, NEW j \in 1..n, i < j, l[i] \in B PROVE l[j] \notin A
        <5>1. i \in 1..n + 1 /\ j \in 1..n + 1 /\ more[i] = l[i] /\ more[j] = l[j]
          BY <2>1
        <5> QED BY <2>1, <2>6, <4>1, <5>1
      <4> QED BY <2>5, <4>1
    <3>2. w = wa \o wb
      BY <2>4, <3>1
    <3>3. CASE x \in B
      <4>1. x \notin A /\ wa \o Append(wb, x) = Append(wa \o wb, x)
        BY <2>3, <3>3, ConcatAppend
      <4> QED BY <2>2, <3>2, <3>3, <4>1
    <3>4. CASE x \in A
      <4>1. wb = <<>>
        <5>1. ASSUME wb # <<>> PROVE FALSE
          <6>1. 1 \in 1..Len(wb)
            BY <2>3, <5>1, EmptySeq
          <6>2. PICK j \in 1..n : wb[1] = l[j]
            BY <2>3, <6>1
          <6>3. l[j] \in B
            BY <2>3, <6>1, <6>2
          <6>4. j \in 1..n + 1 /\ n + 1 \in 1..n + 1 /\ j < n + 1
            BY <2>1
          <6>5. more[j] = l[j] /\ more[n + 1] = x
            BY <2>1
          <6> QED BY <2>1, <2>6, <3>4, <6>3, <6>4, <6>5
        <5> QED BY <5>1
      <4>2. wa \o <<>> = wa /\ Append(wa, x) \o <<>> = Append(wa, x)
        BY <2>3, AppendProperties, ConcatEmptySeq
      <4>3. x \notin B
        BY <3>4
      <4> QED BY <2>2, <3>2, <3>4, <4>1, <4>2, <4>3, Zenon
    <3>5. CASE x \notin A \cup B
      BY <2>2, <3>2, <3>5
    <3> QED BY <3>3, <3>4, <3>5
  <2>7. Apart(more) => Within(more, A \cup B) = Within(more, A) \o Within(more, B)
    BY <2>6
  <2> HIDE DEF Apart
  <2>8. more \in Good
    BY <2>1, <2>7
  <2> QED BY <2>8 DEF more
<1> HIDE DEF Good
<1>3. s \in Good
  BY <1>1, <1>2, ListInduction
<1>4. Apart(s)
  OBVIOUS
<1> HIDE DEF Apart
<1> QED
  BY <1>3, <1>4 DEF Good

\* The first elements of a list, and the others.
LEMMA SplitAt ==
    ASSUME NEW T, NEW s \in Seq(T), NEW n \in 0..Len(s)
    PROVE  /\ SubSeq(s, 1, n) \in Seq(T) /\ Len(SubSeq(s, 1, n)) = n
           /\ \A k \in 1..n : SubSeq(s, 1, n)[k] = s[k]
           /\ SubSeq(s, n + 1, Len(s)) \in Seq(T) /\ Len(SubSeq(s, n + 1, Len(s))) = Len(s) - n
           /\ \A k \in n + 1..Len(s) : SubSeq(s, n + 1, Len(s))[k - n] = s[k]
           /\ s = SubSeq(s, 1, n) \o SubSeq(s, n + 1, Len(s))
<1> DEFINE N == Len(s)
           e == SubSeq(s, 1, n)
           p == n + 1
           r == SubSeq(s, p, N)
<1>1. N \in Nat /\ n \in Nat /\ n <= N /\ p \in Nat /\ p >= 1
  BY LenProperties
<1>2. e \in Seq(T) /\ Len(e) = n /\ \A k \in 1..n : e[k] = s[k]
  <2>1. \A k \in 1..n : s[k] \in T
    BY <1>1, ElementOfSeq
  <2>2. SubSeq(s, 1, n) \in Seq(T) /\ Len(SubSeq(s, 1, n)) = (IF 1 <= n THEN n - 1 + 1 ELSE 0)
        /\ \A i \in 1..n - 1 + 1 : SubSeq(s, 1, n)[i] = s[1 + i - 1]
    BY <1>1, <2>1, SubSeqProperties
  <2> HIDE DEF e
  <2>3. e = SubSeq(s, 1, n)
    BY DEF e
  <2> QED BY <1>1, <2>2, <2>3
<1>3. r \in Seq(T) /\ Len(r) = N - n /\ \A k \in n + 1..N : r[k - n] = s[k]
  <2>1. \A k \in p..N : s[k] \in T
    BY <1>1, ElementOfSeq
  <2> HIDE DEF p, N
  <2>2. SubSeq(s, p, N) \in Seq(T) /\ Len(SubSeq(s, p, N)) = (IF p <= N THEN N - p + 1 ELSE 0)
        /\ \A i \in 1..N - p + 1 : SubSeq(s, p, N)[i] = s[p + i - 1]
    BY <1>1, <2>1, SubSeqProperties
  <2> HIDE DEF r
  <2>3. r = SubSeq(s, p, N) /\ p = n + 1
    BY DEF r, p
  <2>4. \A k \in n + 1..N : k - n \in 1..N - p + 1 /\ p + (k - n) - 1 = k
    BY <1>1, <2>3
  <2>5. Len(r) = N - n
    BY <1>1, <2>2, <2>3
  <2>6. ASSUME NEW k \in n + 1..N PROVE r[k - n] = s[k]
    <3> DEFINE i == k - n
    <3>1. i \in 1..N - p + 1 /\ p + i - 1 = k
      BY <2>4
    <3> HIDE DEF i
    <3>2. r[i] = s[p + i - 1]
      BY <2>2, <2>3, <3>1
    <3> QED BY <3>1, <3>2 DEF i
  <2> QED BY <2>2, <2>3, <2>5, <2>6
<1>4. s = e \o r
  <2>1. 1 \in 1..Len(s) + 1 /\ n \in 1 - 1..Len(s) /\ N \in n..Len(s)
    BY <1>1
  <2> DEFINE o == 1
  <2> HIDE DEF o, N
  <2>2. SubSeq(s, o, n) \o SubSeq(s, n + 1, N) = SubSeq(s, o, N)
    BY <1>1, <2>1, ConcatAdjacentSubSeq DEF o
  <2>3. SubSeq(s, 1, N) = s
    BY SubSeqFull DEF N
  <2> QED BY <2>2, <2>3 DEF o
<1> QED
  BY <1>2, <1>3, <1>4

\* Each element of two lists together is one of the first or of the second.
LEMMA BothParts ==
    ASSUME NEW T, NEW a \in Seq(T), NEW b \in Seq(T)
    PROVE  /\ a \o b \in Seq(T) /\ Len(a \o b) = Len(a) + Len(b) /\ Len(a) \in Nat /\ Len(b) \in Nat
           /\ \A k \in 1..Len(a \o b) :
                \/ k \in 1..Len(a) /\ (a \o b)[k] = a[k]
                \/ k > Len(a) /\ k - Len(a) \in 1..Len(b) /\ (a \o b)[k] = b[k - Len(a)]
<1> DEFINE w == a \o b
<1>1. Len(a) \in Nat /\ Len(b) \in Nat
  BY LenProperties
<1>2. /\ w \in Seq(T) /\ Len(w) = Len(a) + Len(b)
      /\ \A k \in 1..Len(a) + Len(b) : w[k] = IF k <= Len(a) THEN a[k] ELSE b[k - Len(a)]
  BY ConcatProperties
<1> HIDE DEF w
<1>3. \A k \in 1..Len(w) : \/ k \in 1..Len(a) /\ w[k] = a[k]
                           \/ k > Len(a) /\ k - Len(a) \in 1..Len(b) /\ w[k] = b[k - Len(a)]
  BY <1>1, <1>2
<1> QED
  BY <1>1, <1>2, <1>3 DEF w

\* The list of two elements.
LEMMA TwoIsSeq ==
    ASSUME NEW T, NEW x \in T, NEW y \in T
    PROVE  /\ <<x, y>> \in Seq(T) /\ Len(<<x, y>>) = 2 /\ <<x, y>>[1] = x /\ <<x, y>>[2] = y
           /\ <<x, y>> = <<x>> \o <<y>> /\ <<x, y>> # <<>>
<1> DEFINE w == <<x>> \o <<y>>
           t == <<x, y>>
<1>1. <<x>> \in Seq(T) /\ Len(<<x>>) = 1 /\ <<x>>[1] = x /\ <<y>> \in Seq(T) /\ Len(<<y>>) = 1 /\ <<y>>[1] = y
  BY OneIsSeq
<1>2. t \in Seq(T) /\ Len(t) = 2 /\ t[1] = x /\ t[2] = y
  OBVIOUS
<1>3. /\ w \in Seq(T) /\ Len(w) = Len(<<x>>) + Len(<<y>>)
      /\ \A k \in 1..Len(<<x>>) + Len(<<y>>) : w[k] = IF k <= Len(<<x>>) THEN <<x>>[k] ELSE <<y>>[k - Len(<<x>>)]
  BY <1>1, ConcatProperties
<1> HIDE DEF w, t
<1>4. Len(w) = 2 /\ w[1] = x /\ w[2] = y
  BY <1>1, <1>3
<1>5. \A k \in 1..2 : w[k] = t[k]
  BY <1>2, <1>4
<1>6. w = t
  BY <1>2, <1>3, <1>4, <1>5, SeqEqual
<1>7. t # <<>>
  <2>1. t \in Seq(T) /\ Len(t) # 0
    BY <1>2
  <2> QED BY <2>1, EmptySeq
<1> QED
  BY <1>2, <1>6, <1>7 DEF w, t
===============================================================================
