---------------------------- MODULE Loops_proofs ----------------------------
(***************************************************************************)
(* Lemmas on what other modules write as recursive functions: a loop with  *)
(* a counter, the sum of an array, and what is picked out of a list.  The  *)
(* equation of such a function has a solution, and what holds before a     *)
(* turn of the loop and is kept by it is shown at the least place where it *)
(* would be wrong.                                                         *)
(***************************************************************************)
EXTENDS Sums, SequencesExt, WellFoundedInduction, SequenceTheorems, FiniteSetTheorems, TLAPS

(* Sets of natural numbers. *)

LEMMA LeastNat ==
  ASSUME NEW S \in SUBSET Nat, S # {}
  PROVE  \E i \in S : \A j \in S : i <= j
<1>1. PICK i \in S : \A j \in S : <<j, i>> \notin OpToRel(<, Nat)
  BY NatLessThanWellFounded, WFMin
<1>2. \A j \in S : ~(j < i)
  BY <1>1 DEF OpToRel
<1> QED
  BY <1>2

\* What holds before a loop and is kept by each of its turns holds after each.
LEMMA EachTurn ==
  ASSUME NEW n \in Nat, NEW P, 0 \in P, \A k \in 1 .. n : k - 1 \in P => k \in P
  PROVE  \A k \in 0 .. n : k \in P
<1> DEFINE Bad == {k \in 0 .. n : k \notin P}
<1>1. Bad \in SUBSET Nat
  OBVIOUS
<1>2. ASSUME Bad # {} PROVE FALSE
  <2> HIDE DEF Bad
  <2>1. PICK m \in Bad : \A j \in Bad : m <= j
    BY <1>1, <1>2, LeastNat
  <2> USE DEF Bad
  <2>2. m \in 1 .. n /\ m \notin P
    BY <2>1
  <2>3. m - 1 \in 0 .. n /\ ~(m <= m - 1)
    BY <2>2
  <2> QED
    BY <2>1, <2>2, <2>3
<1> QED
  BY <1>2

(* Loops. *)

\* The values of a loop: f[k] after k turns, of which the k-th makes F[k][x] of x.
IsLoop(f, base, F, S, n) ==
  /\ f \in [0 .. n -> S] /\ f[0] = base
  /\ \A k \in 1 .. n : f[k] = F[k][f[k - 1]]

\* A loop that stays within a set has its values.
LEMMA LoopRuns ==
  ASSUME NEW n \in Nat, NEW S, NEW base \in S, NEW F \in [1 .. n -> [S -> S]]
  PROVE  \E f : IsLoop(f, base, F, S, n)
<1> DEFINE Bad == {m \in 0 .. n : ~\E f : IsLoop(f, base, F, S, m)}
<1>1. SUFFICES ASSUME Bad # {} PROVE FALSE
  <2>1. n \in 0 .. n
    OBVIOUS
  <2> QED
    BY <2>1
<1>2. Bad \in SUBSET Nat
  OBVIOUS
<1> HIDE DEF Bad
<1>3. PICK m \in Bad : \A j \in Bad : m <= j
  BY <1>1, <1>2, LeastNat
<1> USE DEF Bad
<1>4. m \in 0 .. n /\ ~\E f : IsLoop(f, base, F, S, m)
  BY <1>3
<1>5. CASE m = 0
  <2>1. IsLoop([k \in 0 .. 0 |-> base], base, F, S, 0)
    BY DEF IsLoop
  <2> QED
    BY <1>4, <1>5, <2>1
<1>6. CASE m # 0
  <2>1. m - 1 \in 0 .. n /\ ~(m <= m - 1)
    BY <1>4, <1>6
  <2>2. m - 1 \notin Bad
    BY <1>3, <2>1
  <2>3. PICK f : IsLoop(f, base, F, S, m - 1)
    BY <2>1, <2>2
  <2> DEFINE g == [k \in 0 .. m |-> IF k = m THEN F[m][f[m - 1]] ELSE f[k]]
  <2>4. IsLoop(g, base, F, S, m)
    <3>1. m \in Nat /\ m # 0 /\ m \in 1 .. n /\ m - 1 \in 0 .. m - 1 /\ 0 \in 0 .. m - 1
      BY <1>4, <1>6
    <3>2. F[m][f[m - 1]] \in S
      <4>1. f[m - 1] \in S
        BY <2>3, <3>1 DEF IsLoop
      <4> QED
        BY <3>1, <4>1
    <3>3. \A k \in 0 .. m : k # m => k \in 0 .. m - 1
      BY <3>1
    <3>4. g \in [0 .. m -> S]
      BY <2>3, <3>2, <3>3 DEF IsLoop
    <3>5. g[0] = base
      BY <2>3, <3>1 DEF IsLoop
    <3>6. ASSUME NEW k \in 1 .. m PROVE g[k] = F[k][g[k - 1]]
      <4>1. k \in 0 .. m /\ k - 1 \in 0 .. m /\ k - 1 # m
        BY <3>1
      <4>2. CASE k = m
        BY <4>1, <4>2
      <4>3. CASE k # m
        <5>1. k \in 1 .. m - 1
          BY <3>1, <4>3
        <5>2. f[k] = F[k][f[k - 1]]
          BY <2>3, <5>1 DEF IsLoop
        <5> QED
          BY <4>1, <4>3, <5>2
      <4> QED
        BY <4>2, <4>3
    <3> QED
      BY <3>4, <3>5, <3>6 DEF IsLoop
  <2> QED
    BY <1>4, <2>4
<1> QED
  BY <1>5, <1>6

(* Sums. *)

\* A sum has its sums up to each place, so that the lemmas below can be shown from
\* one place to the next.
SumsUpTo(f, a, n) ==
  /\ f \in [0 .. n -> Int] /\ f[0] = 0
  /\ \A k \in 1 .. n : f[k] = f[k - 1] + a[k]

LEMMA SumsExist ==
  ASSUME NEW n \in Nat, NEW a, \A k \in 1 .. n : a[k] \in Int
  PROVE  \E f : SumsUpTo(f, a, n)
<1> DEFINE Bad == {m \in 0 .. n : ~\E f : SumsUpTo(f, a, m)}
<1>1. SUFFICES ASSUME Bad # {} PROVE FALSE
  OBVIOUS
<1>2. Bad \in SUBSET Nat
  OBVIOUS
<1> HIDE DEF Bad
<1>3. PICK m \in Bad : \A j \in Bad : m <= j
  BY <1>1, <1>2, LeastNat
<1> USE DEF Bad
<1>4. m \in 0 .. n /\ ~\E f : SumsUpTo(f, a, m)
  BY <1>3
<1>5. CASE m = 0
  <2>1. SumsUpTo([k \in 0 .. 0 |-> 0], a, 0)
    BY DEF SumsUpTo
  <2> QED
    BY <1>4, <1>5, <2>1
<1>6. CASE m # 0
  <2>1. m - 1 \in 0 .. n /\ ~(m <= m - 1)
    BY <1>4, <1>6
  <2>2. m - 1 \notin Bad
    BY <1>3, <2>1
  <2>3. PICK f : SumsUpTo(f, a, m - 1)
    BY <2>1, <2>2
  <2> DEFINE g == [k \in 0 .. m |-> IF k = m THEN f[m - 1] + a[m] ELSE f[k]]
  <2>4. SumsUpTo(g, a, m)
    <3>1. m \in Nat /\ m # 0 /\ m - 1 \in 0 .. m - 1 /\ a[m] \in Int /\ 0 \in 0 .. m - 1
      BY <1>4, <1>6
    <3>2. f[m - 1] + a[m] \in Int
      BY <2>3, <3>1 DEF SumsUpTo
    <3>3. \A k \in 0 .. m : k # m => k \in 0 .. m - 1
      BY <3>1
    <3>4. g \in [0 .. m -> Int]
      BY <2>3, <3>2, <3>3 DEF SumsUpTo
    <3>5. g[0] = 0
      BY <2>3, <3>1 DEF SumsUpTo
    <3>6. ASSUME NEW k \in 1 .. m PROVE g[k] = g[k - 1] + a[k]
      <4>1. k \in 0 .. m /\ k - 1 \in 0 .. m /\ k - 1 # m
        BY <3>1
      <4>2. CASE k = m
        BY <4>1, <4>2
      <4>3. CASE k # m
        <5>1. k \in 1 .. m - 1
          BY <3>1, <4>3
        <5>2. f[k] = f[k - 1] + a[k]
          BY <2>3, <5>1 DEF SumsUpTo
        <5> QED
          BY <4>1, <4>3, <5>2
      <4> QED
        BY <4>2, <4>3
    <3> QED
      BY <3>4, <3>5, <3>6 DEF SumsUpTo
  <2> QED
    BY <1>4, <2>4
<1> QED
  BY <1>5, <1>6

LEMMA SumIsLast ==
  ASSUME NEW n \in Nat, NEW a, NEW f, SumsUpTo(f, a, n)
  PROVE  SumTo(a, n) = f[n]
<1> DEFINE Cur(g) == g = [k \in 0 .. n |-> IF k = 0 THEN 0 ELSE g[k - 1] + a[k]]
           cur == CHOOSE g : Cur(g)
<1>1. SumTo(a, n) = cur[n]
  BY Zenon DEF SumTo
<1>2. Cur(f)
  <2>1. \A k \in 0 .. n : f[k] = IF k = 0 THEN 0 ELSE f[k - 1] + a[k]
    BY DEF SumsUpTo
  <2> QED
    BY <2>1 DEF SumsUpTo
<1>3. Cur(cur)
  <2> HIDE DEF Cur
  <2> QED
    BY <1>2, Zenon
<1> HIDE DEF cur
<1>4. \A k \in 0 .. n : cur[k] = IF k = 0 THEN 0 ELSE cur[k - 1] + a[k]
  BY <1>3
<1> DEFINE Bad == {k \in 0 .. n : cur[k] # f[k]}
<1>5. Bad \in SUBSET Nat
  OBVIOUS
<1>6. ASSUME Bad # {} PROVE FALSE
  <2> HIDE DEF Bad
  <2>1. PICK m \in Bad : \A j \in Bad : m <= j
    BY <1>5, <1>6, LeastNat
  <2> USE DEF Bad
  <2>2. m \in 0 .. n /\ cur[m] # f[m]
    BY <2>1
  <2>3. m # 0
    BY <1>4, <2>2 DEF SumsUpTo
  <2>4. m - 1 \in 0 .. n /\ ~(m <= m - 1) /\ m \in 1 .. n
    BY <2>2, <2>3
  <2>5. cur[m - 1] = f[m - 1]
    BY <2>1, <2>4
  <2>6. f[m] = f[m - 1] + a[m]
    BY <2>4 DEF SumsUpTo
  <2> QED
    BY <1>4, <2>2, <2>3, <2>5, <2>6
<1> QED
  BY <1>1, <1>6

LEMMA SumFacts ==
  ASSUME NEW n \in Nat, NEW a, \A k \in 1 .. n : a[k] \in Int
  PROVE  \E f : SumsUpTo(f, a, n) /\ SumTo(a, n) = f[n]
BY SumsExist, SumIsLast

LEMMA SumIsInt ==
  ASSUME NEW n \in Nat, NEW a, \A k \in 1 .. n : a[k] \in Int
  PROVE  SumTo(a, n) \in Int
BY SumFacts DEF SumsUpTo

\* The sums up to each place differ by what is there.
LEMMA PartialSums ==
  ASSUME NEW n \in Nat, NEW a, \A k \in 1 .. n : a[k] \in Int
  PROVE  /\ SumTo(a, 0) = 0 /\ \A k \in 0 .. n : SumTo(a, k) \in Int
         /\ \A k \in 1 .. n : SumTo(a, k) = SumTo(a, k - 1) + a[k]
<1>1. PICK f : SumsUpTo(f, a, n)
  BY SumsExist
<1>2. ASSUME NEW m \in 0 .. n PROVE SumTo(a, m) = f[m]
  <2> DEFINE g == [k \in 0 .. m |-> f[k]]
  <2>1. SumsUpTo(g, a, m)
    BY <1>1 DEF SumsUpTo
  <2>2. m \in Nat /\ g[m] = f[m]
    OBVIOUS
  <2> HIDE DEF g
  <2> QED
    BY <2>1, <2>2, SumIsLast
<1> QED
  BY <1>1, <1>2 DEF SumsUpTo

\* What is added to is never less afterwards.
LEMMA PartialSumsGrow ==
  ASSUME NEW n \in Nat, NEW a, \A k \in 1 .. n : a[k] \in Nat
  PROVE  \A j \in 0 .. n : \A i \in 0 .. j : SumTo(a, i) <= SumTo(a, j)
<1> SUFFICES ASSUME NEW j \in 0 .. n, NEW i \in 0 .. j PROVE SumTo(a, i) <= SumTo(a, j)
  OBVIOUS
<1>1. /\ \A k \in 0 .. n : SumTo(a, k) \in Int
      /\ \A k \in 1 .. n : SumTo(a, k) = SumTo(a, k - 1) + a[k]
  BY PartialSums
<1> DEFINE P == {d \in Nat : SumTo(a, i) <= SumTo(a, i + d)}
<1>2. 0 \in P
  <2>1. i + 0 = i /\ i \in 0 .. n
    OBVIOUS
  <2> QED
    BY <1>1, <2>1
<1>3. ASSUME NEW d \in 1 .. j - i, d - 1 \in P PROVE d \in P
  <2>1. i + d \in 1 .. n /\ (i + d) - 1 = i + (d - 1) /\ i \in 0 .. n /\ (i + d) - 1 \in 0 .. n /\ i + d \in 0 .. n
    OBVIOUS
  <2>2. SumTo(a, i + d) = SumTo(a, i + (d - 1)) + a[i + d] /\ a[i + d] \in Nat
    BY <1>1, <2>1
  <2>3. SumTo(a, i) <= SumTo(a, i + (d - 1))
    BY <1>3
  <2> QED
    BY <1>1, <2>1, <2>2, <2>3
<1>4. j - i \in P
  <2>1. j - i \in Nat
    OBVIOUS
  <2> HIDE DEF P
  <2> QED
    BY <1>2, <1>3, <2>1, EachTurn
<1>5. i + (j - i) = j
  OBVIOUS
<1> QED
  BY <1>4, <1>5

\* When what is added is in no place greater, the sum is not.
LEMMA SumIsMonotonic ==
  ASSUME NEW n \in Nat, NEW a, NEW b,
         \A k \in 1 .. n : a[k] \in Int /\ b[k] \in Int /\ a[k] <= b[k]
  PROVE  SumTo(a, n) <= SumTo(b, n)
<1>1. PICK f : SumsUpTo(f, a, n) /\ SumTo(a, n) = f[n]
  BY SumFacts
<1>2. PICK g : SumsUpTo(g, b, n) /\ SumTo(b, n) = g[n]
  BY SumFacts
<1> DEFINE Bad == {k \in 0 .. n : ~(f[k] <= g[k])}
<1>3. Bad \in SUBSET Nat
  OBVIOUS
<1>4. ASSUME Bad # {} PROVE FALSE
  <2> HIDE DEF Bad
  <2>1. PICK m \in Bad : \A j \in Bad : m <= j
    BY <1>3, <1>4, LeastNat
  <2> USE DEF Bad
  <2>2. m \in 0 .. n /\ ~(f[m] <= g[m])
    BY <2>1
  <2>3. m # 0
    BY <1>1, <1>2, <2>2 DEF SumsUpTo
  <2>4. m - 1 \in 0 .. n /\ ~(m <= m - 1) /\ m \in 1 .. n
    BY <2>2, <2>3
  <2>5. f[m - 1] <= g[m - 1]
    BY <2>1, <2>4
  <2>6. f[m] = f[m - 1] + a[m] /\ g[m] = g[m - 1] + b[m] /\ f[m - 1] \in Int /\ g[m - 1] \in Int
    BY <1>1, <1>2, <2>4 DEF SumsUpTo
  <2> QED
    BY <2>2, <2>4, <2>5, <2>6
<1> QED
  BY <1>1, <1>2, <1>4

\* One place that grows by d makes the sum grow by d.
LEMMA SumChanged ==
  ASSUME NEW n \in Nat, NEW a, NEW b, NEW c \in 1 .. n, NEW d \in Int,
         \A k \in 1 .. n : a[k] \in Int /\ b[k] = IF k = c THEN a[k] + d ELSE a[k]
  PROVE  SumTo(b, n) = SumTo(a, n) + d
<1>1. PICK f : SumsUpTo(f, a, n) /\ SumTo(a, n) = f[n]
  BY SumFacts
<1> DEFINE g == [k \in 0 .. n |-> IF k < c THEN f[k] ELSE f[k] + d]
<1>2. SumsUpTo(g, b, n)
  <2>1. c \in Nat /\ 1 <= c /\ c <= n /\ 0 \in 0 .. n /\ 0 < c
    OBVIOUS
  <2>2. \A k \in 0 .. n : f[k] \in Int /\ f[k] + d \in Int
    BY <1>1 DEF SumsUpTo
  <2>3. g \in [0 .. n -> Int]
    BY <2>2
  <2>4. g[0] = 0
    BY <1>1, <2>1 DEF SumsUpTo
  <2>5. ASSUME NEW k \in 1 .. n PROVE g[k] = g[k - 1] + b[k]
    <3>1. k \in 0 .. n /\ k - 1 \in 0 .. n /\ k \in Int /\ f[k] = f[k - 1] + a[k] /\ a[k] \in Int
      BY <1>1 DEF SumsUpTo
    <3>2. f[k - 1] \in Int
      BY <2>2, <3>1
    <3>3. CASE k < c
      <4>1. k - 1 < c /\ k # c
        BY <2>1, <3>1, <3>3
      <4> QED
        BY <3>1, <3>2, <3>3, <4>1
    <3>4. CASE k = c
      <4>1. k - 1 < c /\ ~(k < c)
        BY <2>1, <3>1, <3>4
      <4> QED
        BY <3>1, <3>2, <3>4, <4>1
    <3>5. CASE k > c
      <4>1. ~(k - 1 < c) /\ ~(k < c) /\ k # c
        BY <2>1, <3>1, <3>5
      <4> QED
        BY <3>1, <3>2, <3>5, <4>1
    <3> QED
      BY <2>1, <3>1, <3>3, <3>4, <3>5
  <2> HIDE DEF g
  <2> QED
    BY <2>3, <2>4, <2>5 DEF SumsUpTo
<1>3. SumTo(b, n) = g[n]
  <2> HIDE DEF g
  <2> QED
    BY <1>2, SumIsLast
<1>4. n \in 0 .. n /\ ~(n < c)
  OBVIOUS
<1> QED
  BY <1>1, <1>3, <1>4

(* Lists, and what is picked out of them. *)

LEMMA SeqFacts ==
  ASSUME NEW T, NEW s \in Seq(T)
  PROVE  /\ Len(s) \in Nat /\ DOMAIN s = 1 .. Len(s) /\ ToSet(s) \subseteq T
         /\ ToSet(s) = {s[i] : i \in 1 .. Len(s)}
BY DEF ToSet

LEMMA LenIsCard ==
  ASSUME NEW T, NEW s \in Seq(T), IsInjective(s)
  PROVE  IsFiniteSet(ToSet(s)) /\ Cardinality(ToSet(s)) = Len(s)
<1>1. Len(s) \in Nat /\ DOMAIN s = 1 .. Len(s)
  OBVIOUS
<1>2. IsFiniteSet(1 .. Len(s)) /\ Cardinality(1 .. Len(s)) = Len(s)
  <2> DEFINE n == Len(s)
  <2> HIDE DEF n
  <2>1. 1 \in Int /\ n \in Int /\ n >= 0
    BY <1>1 DEF n
  <2>2. IsFiniteSet(1 .. n) /\ Cardinality(1 .. n) = n
    BY <2>1, FS_Interval
  <2> QED
    BY <2>2 DEF n
<1>3. s \in Bijection(1 .. Len(s), ToSet(s))
  BY <1>1 DEF IsInjective, ToSet, Bijection, Injection, Surjection
<1>4. ExistsBijection(1 .. Len(s), ToSet(s))
  BY <1>3 DEF ExistsBijection
<1> QED
  BY <1>2, <1>4, FS_Bijection

\* Where the elements of s that are in S are, of the first k.
PickedTo(at, s, S, r, k) ==
  /\ at \in [1 .. Len(r) -> 1 .. k]
  /\ \A i, j \in 1 .. Len(r) : i < j => at[i] < at[j]
  /\ \A j \in 1 .. Len(r) : r[j] = s[at[j]] /\ s[at[j]] \in S
  /\ \A i \in 1 .. k : s[i] \in S => \E j \in 1 .. Len(r) : at[j] = i

LEMMA KeptFacts ==
  ASSUME NEW T, NEW s \in Seq(T), NEW S
  PROVE  Kept(s, S) \in Seq(T) /\ \E at : PickedTo(at, s, S, Kept(s, S), Len(s))
<1> DEFINE n == Len(s)
           Eq(g) == g = [k \in 0 .. n |->
                           IF k = 0 THEN << >> ELSE IF s[k] \in S THEN Append(g[k - 1], s[k]) ELSE g[k - 1]]
           cur == CHOOSE g : Eq(g)
           F == [k \in 1 .. n |-> [x \in Seq(T) |-> IF s[k] \in S THEN Append(x, s[k]) ELSE x]]
           e == << >>
<1>1. n \in Nat /\ \A k \in 1 .. n : s[k] \in T
  OBVIOUS
<1>2. Kept(s, S) = cur[n]
  BY Zenon DEF Kept
<1>3. e \in Seq(T) /\ Len(e) = 0
  OBVIOUS
<1> HIDE DEF n
<1>4. F \in [1 .. n -> [Seq(T) -> Seq(T)]]
  <2>1. ASSUME NEW k \in 1 .. n, NEW x \in Seq(T)
        PROVE  (IF s[k] \in S THEN Append(x, s[k]) ELSE x) \in Seq(T)
    BY <1>1
  <2> QED
    BY <2>1
<1>5. PICK f : IsLoop(f, e, F, Seq(T), n)
  <2> HIDE DEF F, e
  <2> QED
    BY <1>1, <1>3, <1>4, LoopRuns
<1>6. Eq(f)
  <2>1. f \in [0 .. n -> Seq(T)] /\ f[0] = e /\ \A k \in 1 .. n : f[k] = F[k][f[k - 1]]
    BY <1>5 DEF IsLoop
  <2>2. \A k \in 0 .. n :
          f[k] = IF k = 0 THEN << >> ELSE IF s[k] \in S THEN Append(f[k - 1], s[k]) ELSE f[k - 1]
    <3> TAKE k \in 0 .. n
    <3>1. CASE k = 0
      BY <2>1, <3>1
    <3>2. CASE k # 0
      <4>1. k \in 1 .. n /\ k - 1 \in 0 .. n
        BY <1>1, <3>2
      <4>2. f[k] = F[k][f[k - 1]] /\ f[k - 1] \in Seq(T)
        BY <2>1, <4>1
      <4> QED
        BY <3>2, <4>1, <4>2
    <3> QED
      BY <3>1, <3>2
  <2>3. f = [k \in 0 .. n |-> f[k]]
    BY <2>1
  <2> HIDE DEF F, e
  <2> QED
    BY <2>2, <2>3
<1>7. Eq(cur)
  <2> HIDE DEF Eq
  <2> QED
    BY <1>6, Zenon
<1> HIDE DEF cur, F
<1>8. cur[0] = e /\ \A k \in 1 .. n : cur[k] = IF s[k] \in S THEN Append(cur[k - 1], s[k]) ELSE cur[k - 1]
  <2>1. \A k \in 0 .. n :
          cur[k] = IF k = 0 THEN << >> ELSE IF s[k] \in S THEN Append(cur[k - 1], s[k]) ELSE cur[k - 1]
    BY <1>7, Zenon
  <2> QED
    BY <1>1, <2>1
<1> HIDE DEF e
<1> DEFINE P == {k \in 0 .. n : cur[k] \in Seq(T) /\ \E at : PickedTo(at, s, S, cur[k], k)}
<1>9. 0 \in P
  <2>1. PickedTo([i \in {} |-> 0], s, S, e, 0)
    BY <1>3 DEF PickedTo
  <2>2. \E at : PickedTo(at, s, S, e, 0)
    BY <2>1, Zenon
  <2>3. 0 \in 0 .. n
    BY <1>1
  <2> QED
    BY <1>3, <1>8, <2>2, <2>3, Zenon
<1>10. ASSUME NEW k \in 1 .. n, k - 1 \in P PROVE k \in P
  <2> DEFINE r == cur[k - 1]
             m == Len(r)
  <2>1. PICK at : r \in Seq(T) /\ PickedTo(at, s, S, r, k - 1)
    BY <1>10
  <2>2. m \in Nat /\ k \in 0 .. n /\ k \in Nat /\ k >= 1
    BY <1>1, <2>1
  <2>3. /\ at \in [1 .. m -> 1 .. k - 1]
        /\ \A i, j \in 1 .. m : i < j => at[i] < at[j]
        /\ \A j \in 1 .. m : r[j] = s[at[j]] /\ s[at[j]] \in S
        /\ \A i \in 1 .. k - 1 : s[i] \in S => \E j \in 1 .. m : at[j] = i
    BY <2>1 DEF PickedTo
  <2>4. \A j \in 1 .. m : at[j] \in 1 .. k /\ at[j] \in 1 .. k - 1 /\ at[j] < k /\ at[j] \in Nat
    <3> HIDE DEF m, r
    <3> TAKE j \in 1 .. m
    <3>1. at[j] \in 1 .. k - 1
      BY <2>3
    <3> QED
      BY <2>2, <3>1
  <2>5. CASE s[k] \in S
    <3> DEFINE q == Append(r, s[k])
               to == [j \in 1 .. m + 1 |-> IF j = m + 1 THEN k ELSE at[j]]
    <3>1. cur[k] = q
      BY <1>8, <2>5
    <3>2. q \in Seq(T) /\ Len(q) = m + 1 /\ q[m + 1] = s[k] /\ \A j \in 1 .. m : q[j] = r[j]
      BY <1>1, <2>1
    <3> HIDE DEF q, m, r
    <3>3. \A j \in 1 .. m + 1 : j = m + 1 \/ j \in 1 .. m
      BY <2>2
    <3>4. to[m + 1] = k /\ \A j \in 1 .. m : to[j] = at[j]
      BY <2>2
    <3>5. to \in [1 .. m + 1 -> 1 .. k]
      BY <2>2, <2>4, <3>3
    <3> HIDE DEF to
    <3>6. \A i, j \in 1 .. m + 1 : i < j => to[i] < to[j]
      <4> TAKE i, j \in 1 .. m + 1
      <4>1. SUFFICES ASSUME i < j PROVE to[i] < to[j]
        OBVIOUS
      <4>2. i \in 1 .. m
        BY <2>2, <4>1
      <4> QED
        BY <2>2, <2>3, <2>4, <3>3, <3>4, <4>1, <4>2
    <3>7. \A j \in 1 .. m + 1 : q[j] = s[to[j]] /\ s[to[j]] \in S
      BY <2>3, <2>5, <3>2, <3>3, <3>4
    <3>8. ASSUME NEW i \in 1 .. k, s[i] \in S PROVE \E j \in 1 .. m + 1 : to[j] = i
      <4>1. CASE i = k
        BY <2>2, <3>4, <4>1
      <4>2. CASE i # k
        <5>1. i \in 1 .. k - 1
          BY <2>2, <4>2
        <5>2. PICK j \in 1 .. m : at[j] = i
          BY <2>3, <3>8, <5>1
        <5>3. j \in 1 .. m + 1
          BY <2>2
        <5> QED
          BY <3>4, <5>2, <5>3
      <4> QED
        BY <4>1, <4>2
    <3>9. PickedTo(to, s, S, q, k)
      BY <3>2, <3>5, <3>6, <3>7, <3>8 DEF PickedTo
    <3> QED
      BY <2>2, <3>1, <3>2, <3>9
  <2>6. CASE s[k] \notin S
    <3>1. cur[k] = r
      BY <1>8, <2>6
    <3> HIDE DEF m, r
    <3>2. at \in [1 .. m -> 1 .. k]
      BY <2>3, <2>4
    <3>3. ASSUME NEW i \in 1 .. k, s[i] \in S PROVE \E j \in 1 .. m : at[j] = i
      <4>1. i # k
        BY <2>6, <3>3
      <4>2. i \in 1 .. k - 1
        BY <2>2, <4>1
      <4> QED
        BY <2>3, <3>3, <4>2
    <3>4. PickedTo(at, s, S, r, k)
      BY <2>3, <3>2, <3>3 DEF PickedTo, m
    <3> QED
      BY <2>1, <2>2, <3>1, <3>4
  <2> QED
    BY <2>5, <2>6
<1>11. n \in P
  <2> HIDE DEF P
  <2>1. n \in 0 .. n
    BY <1>1
  <2> QED
    BY <1>1, <1>9, <1>10, <2>1, EachTurn
<1> QED
  BY <1>2, <1>11 DEF n

-----------------------------------------------------------------------------
(* Lists in which nothing is twice. *)

Increasing(s) == \A i, j \in 1 .. Len(s) : i < j => s[i] < s[j]
LEMMA PickedAlike ==
  ASSUME NEW T, NEW s, NEW S, NEW k \in Nat, NEW r \in Seq(T), NEW q \in Seq(T), NEW a, NEW b,
         PickedTo(a, s, S, r, k), PickedTo(b, s, S, q, k)
  PROVE  \A j \in 1 .. Len(r) : j <= Len(q) /\ a[j] = b[j]
<1> DEFINE m == Len(r)
           n == Len(q)
           Bad == {j \in 1 .. m : ~(j <= n /\ a[j] = b[j])}
<1>1. m \in Nat /\ n \in Nat
  OBVIOUS
<1>2. /\ \A i \in 1 .. m : a[i] \in 1 .. k /\ s[a[i]] \in S
      /\ \A i, j \in 1 .. m : i < j => a[i] < a[j]
      /\ \A i \in 1 .. k : s[i] \in S => \E j \in 1 .. m : a[j] = i
      /\ \A i \in 1 .. n : b[i] \in 1 .. k /\ s[b[i]] \in S
      /\ \A i, j \in 1 .. n : i < j => b[i] < b[j]
      /\ \A i \in 1 .. k : s[i] \in S => \E j \in 1 .. n : b[j] = i
  BY DEF PickedTo
<1> HIDE DEF m, n
<1> SUFFICES ASSUME Bad # {} PROVE FALSE
  BY DEF m, n
<1>3. PICK j \in Bad : \A i \in Bad : j <= i
  <2>1. Bad \in SUBSET Nat
    BY <1>1
  <2> HIDE DEF Bad
  <2> QED
    BY <2>1, LeastNat
<1>4. j \in 1 .. m /\ j \in Nat /\ \A i \in 1 .. m : i < j => i <= n /\ a[i] = b[i]
  BY <1>1, <1>3
<1> DEFINE p == a[j]
<1>5. p \in 1 .. k /\ s[p] \in S
  BY <1>2, <1>4
<1> HIDE DEF Bad, p
<1>6. PICK i \in 1 .. n : b[i] = p
  BY <1>2, <1>5
<1>7. ~(i < j)
  <2> SUFFICES ASSUME i < j PROVE FALSE
    OBVIOUS
  <2>1. i \in 1 .. m
    BY <1>1, <1>4, <1>6
  <2>2. a[i] = p /\ a[i] < p
    BY <1>2, <1>4, <1>6, <2>1 DEF p
  <2> QED
    BY <1>5, <2>2
<1>8. j <= n
  BY <1>1, <1>4, <1>6, <1>7
<1> DEFINE u == b[j]
<1>9. u \in 1 .. k /\ s[u] \in S /\ u <= p
  <2>1. j \in 1 .. n /\ (j = i \/ j < i)
    BY <1>1, <1>4, <1>6, <1>7, <1>8
  <2>2. u \in 1 .. k /\ s[u] \in S /\ (u = p \/ u < p)
    BY <1>2, <1>6, <2>1
  <2> HIDE DEF u
  <2> QED
    BY <1>5, <2>2
<1> HIDE DEF u
<1>10. PICK l \in 1 .. m : a[l] = u
  BY <1>2, <1>9
<1>11. u # p
  BY <1>3, <1>4, <1>8 DEF Bad, p, u
<1>12. l < j
  <2> SUFFICES ASSUME ~(l < j) PROVE FALSE
    OBVIOUS
  <2>1. j < l \/ j = l
    BY <1>1, <1>4, <1>10
  <2>2. p < u \/ p = u
    BY <1>2, <1>4, <1>10, <2>1 DEF p
  <2> QED
    BY <1>5, <1>9, <1>11, <2>2
<1>13. l \in 1 .. n /\ j \in 1 .. n /\ b[l] = u
  BY <1>1, <1>4, <1>8, <1>10, <1>12
<1>14. u < u
  BY <1>2, <1>12, <1>13 DEF u
<1> QED
  BY <1>9, <1>14

\* There is one way to pick.
LEMMA KeptIs ==
  ASSUME NEW T, NEW s \in Seq(T), NEW S, NEW r \in Seq(T), NEW at, PickedTo(at, s, S, r, Len(s))
  PROVE  r = Kept(s, S)
<1> DEFINE q == Kept(s, S)
           k == Len(s)
<1>1. q \in Seq(T) /\ \E b : PickedTo(b, s, S, q, k)
  BY KeptFacts
<1>2. PICK b : PickedTo(b, s, S, q, k)
  BY <1>1
<1>3. k \in Nat /\ PickedTo(at, s, S, r, k)
  OBVIOUS
<1> HIDE DEF q, k
<1>4. \A j \in 1 .. Len(r) : j <= Len(q) /\ at[j] = b[j]
  BY <1>1, <1>2, <1>3, PickedAlike
<1>5. \A j \in 1 .. Len(q) : j <= Len(r) /\ b[j] = at[j]
  BY <1>1, <1>2, <1>3, PickedAlike
<1>6. Len(r) \in Nat /\ Len(q) \in Nat
  BY <1>1
<1>7. Len(r) = Len(q)
  <2>1. Len(r) = 0 \/ Len(r) <= Len(q)
    BY <1>4, <1>6
  <2>2. Len(q) = 0 \/ Len(q) <= Len(r)
    BY <1>5, <1>6
  <2> QED
    BY <1>6, <2>1, <2>2
<1>8. \A j \in 1 .. Len(r) : r[j] = s[at[j]] /\ q[j] = s[b[j]] /\ at[j] = b[j]
  BY <1>2, <1>3, <1>4, <1>7 DEF PickedTo
<1>9. r = q
  BY <1>1, <1>7, <1>8, SeqEqual
<1> QED
  BY <1>9 DEF q
=============================================================================
