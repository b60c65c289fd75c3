---------------------------- MODULE Lists_proofs ----------------------------
(***************************************************************************)
(* The lists of processes, for every list, every width of the integers and *)
(* every unit of the rates:                                                *)
(*   - what the insertion sort and the quicksort of Vector make of an array; *)
(*   - which processes the compare functions tell them to exchange, and    *)
(*     that the list of ProcessOrder is then in the order of its column;   *)
(*   - that the header finds the column that was clicked;                  *)
(*   - what adding to and removing from the vector and the hash table does *)
(*     to what they hold;                                                  *)
(*   - that the list of PlatformScan is the snapshot of the system, and    *)
(*     what sorting it does.                                               *)
(***************************************************************************)
EXTENDS ProcessOrder, PlatformScan, Loops_proofs, SequenceTheorems, FiniteSetTheorems

-----------------------------------------------------------------------------
(* The insertion sort.                                                     *)

(* What sorting is about: a comparison of the elements T, and the arrays of *)
(* which the first n places hold such elements.                            *)
Comparison(compare, T) ==
  \A x, y \in T : Greater(compare, x, y) => ~Greater(compare, y, x)

Arrays(D, S, T, n) == {a \in [D -> S] : \A k \in 0 .. n - 1 : a[k] \in T}

(* b has what a has: at k, what was at p[k].                               *)
Rearranges(p, a, b, D) ==
  /\ p \in [D -> D] /\ \A k \in D : b[k] = a[p[k]]
  /\ \A j, k \in D : p[j] = p[k] => j = k
  /\ \A k \in D : \E j \in D : p[j] = k

\* Where an element goes is above all that it passes and below one that it does not.
LEMMA InsertedFacts ==
  ASSUME NEW D, NEW S, NEW T, NEW n \in Nat, 0 .. n - 1 \subseteq D,
         NEW a \in Arrays(D, S, T, n), NEW i \in 1 .. n - 1,
         NEW compare
  PROVE  LET to == Place(a, i, compare)
             b == Inserted(a, i, compare)
         IN  /\ to \in 0 .. i
             /\ to > 0 => ~Greater(compare, a[to - 1], a[i])
             /\ \A j \in to .. i - 1 : Greater(compare, a[j], a[i])
             /\ b \in Arrays(D, S, T, n)
             /\ \A k \in D : b[k] = IF k = to THEN a[i]
                                    ELSE IF k \in (to + 1) .. i THEN a[k - 1] ELSE a[k]
<1> DEFINE below == {j \in 0 .. (i - 1) : ~Greater(compare, a[j], a[i])}
           to == Place(a, i, compare)
           b == Inserted(a, i, compare)
<1>1. i \in Nat /\ i \in 0 .. n - 1 /\ \A j \in 0 .. i - 1 : j \in 0 .. n - 1
  OBVIOUS
<1>2. a \in [D -> S] /\ \A k \in 0 .. n - 1 : a[k] \in T
  BY DEF Arrays
<1>4. /\ to \in 0 .. i
      /\ to > 0 => ~Greater(compare, a[to - 1], a[i])
      /\ \A j \in to .. i - 1 : Greater(compare, a[j], a[i])
  <2>1. CASE below = {}
    <3>1. to = 0
      BY <2>1 DEF Place
    <3>2. \A j \in 0 .. i - 1 : Greater(compare, a[j], a[i])
      BY <2>1
    <3> QED
      BY <1>1, <3>1, <3>2
  <2>2. CASE below # {}
    <3> DEFINE last == CHOOSE j \in below : \A k \in below : k <= j
               away == {d \in Nat : \E j \in below : d = i - j}
    <3>1. to = 1 + last
      BY <2>2 DEF Place
    <3>2. \E j \in below : \A k \in below : k <= j
      <4>1. away \in SUBSET Nat
        OBVIOUS
      <4>2. away # {}
        <5>1. PICK j \in below : TRUE
          BY <2>2
        <5>2. i - j \in Nat
          BY <1>1, <5>1
        <5> QED
          BY <5>2
      <4>3. PICK d \in away : \A e \in away : d <= e
        <5> HIDE DEF away
        <5> QED
          BY <4>1, <4>2, LeastNat
      <4>4. PICK j \in below : d = i - j
        BY <4>3
      <4>5. ASSUME NEW k \in below PROVE k <= j
        <5>1. i - k \in Nat
          BY <1>1
        <5>2. i - k \in away
          BY <5>1
        <5>3. d <= i - k
          BY <4>3, <5>2
        <5> QED
          BY <1>1, <4>4, <5>3
      <4> QED
        BY <4>5
    <3>3. last \in below /\ \A k \in below : k <= last
      <4> HIDE DEF below
      <4> QED
        BY <3>2
    <3> HIDE DEF last
    <3>4. last \in 0 .. i - 1 /\ ~Greater(compare, a[last], a[i])
      BY <3>3
    <3>5. ASSUME NEW j \in to .. i - 1 PROVE Greater(compare, a[j], a[i])
      <4>1. j \in 0 .. i - 1 /\ ~(j <= last)
        BY <1>1, <3>1, <3>4
      <4>2. j \notin below
        BY <3>3, <4>1
      <4> QED
        BY <4>1, <4>2
    <3>6. to \in 0 .. i /\ to - 1 = last
      BY <1>1, <3>1, <3>4
    <3> QED
      BY <3>4, <3>5, <3>6
  <2> QED
    BY <2>1, <2>2
<1> HIDE DEF to, below
<1>5. b = [k \in D |-> IF k = to THEN a[i] ELSE IF k \in (to + 1) .. i THEN a[k - 1] ELSE a[k]]
  BY <1>2 DEF Inserted, to
<1> HIDE DEF b
<1>6. \A k \in (to + 1) .. i : k - 1 \in 0 .. n - 1 /\ k - 1 \in D
  BY <1>1, <1>4
<1>7. i \in D
  BY <1>1
<1>8. \A k \in D : b[k] \in S
  BY <1>2, <1>5, <1>6, <1>7
<1>9. \A k \in 0 .. n - 1 : b[k] \in T
  BY <1>1, <1>2, <1>5, <1>6
<1>10. b \in Arrays(D, S, T, n)
  BY <1>5, <1>8, <1>9 DEF Arrays
<1> QED
  BY <1>4, <1>5, <1>10 DEF to, b

(* The array b after some turns of the insertion sort of a: its first m     *)
(* elements are in order, the others are where they were, and one has      *)
(* passed another only if it belongs above it.                             *)
SortedUpTo(p, a, b, D, m, compare) ==
  /\ Rearranges(p, a, b, D)
  /\ \A k \in D : k \notin 0 .. m - 1 => p[k] = k
  /\ \A k \in 1 .. m - 1 : ~Greater(compare, b[k - 1], b[k])
  /\ \A i, j \in 0 .. m - 1 : i < j /\ p[j] < p[i] => Greater(compare, b[j], b[i])

LEMMA InsertedIsSorted ==
  ASSUME NEW D, NEW S, NEW T, NEW n \in Nat, 0 .. n - 1 \subseteq D,
         NEW a, NEW b \in Arrays(D, S, T, n), NEW m \in 1 .. n - 1,
         NEW compare, Comparison(compare, T),
         NEW p, SortedUpTo(p, a, b, D, m, compare)
  PROVE  \E q : SortedUpTo(q, a, Inserted(b, m, compare), D, m + 1, compare)
<1> DEFINE to == Place(b, m, compare)
           c == Inserted(b, m, compare)
           from(k) == IF k = to THEN m ELSE IF k \in (to + 1) .. m THEN k - 1 ELSE k
           q == [k \in D |-> p[from(k)]]
<1>1. /\ to \in 0 .. m
      /\ to > 0 => ~Greater(compare, b[to - 1], b[m])
      /\ \A j \in to .. m - 1 : Greater(compare, b[j], b[m])
      /\ c \in Arrays(D, S, T, n)
      /\ \A k \in D : c[k] = IF k = to THEN b[m]
                             ELSE IF k \in (to + 1) .. m THEN b[k - 1] ELSE b[k]
  BY InsertedFacts
<1> HIDE DEF to, c
<1>2. m \in Nat /\ m \in D /\ to \in Nat /\ to <= m /\ to \in D /\ \A k \in 0 .. m : k \in D /\ k \in 0 .. n - 1
  BY <1>1
<1>3. \A k \in D : from(k) \in D /\ c[k] = b[from(k)]
  BY <1>1, <1>2
<1>4. p \in [D -> D] /\ (\A k \in D : b[k] = a[p[k]])
      /\ (\A j, k \in D : p[j] = p[k] => j = k) /\ (\A k \in D : \E j \in D : p[j] = k)
  BY DEF SortedUpTo, Rearranges
<1>5. q \in [D -> D] /\ \A k \in D : c[k] = a[q[k]]
  BY <1>3, <1>4
<1>6. \A j, k \in D : from(j) = from(k) => j = k
  BY <1>2
<1>7. \A k \in D : \E j \in D : from(j) = k
  <2> SUFFICES ASSUME NEW k \in D PROVE \E j \in D : from(j) = k
    OBVIOUS
  <2>1. CASE k = m
    BY <1>2, <2>1
  <2>2. CASE k \in to .. m - 1
    <3>1. k + 1 \in D /\ from(k + 1) = k
      BY <1>2, <2>2
    <3> QED
      BY <3>1
  <2>3. CASE k # m /\ k \notin to .. m - 1
    <3>1. from(k) = k
      BY <1>2, <2>3
    <3> QED
      BY <3>1
  <2> QED
    BY <2>1, <2>2, <2>3
<1>8. Rearranges(q, a, c, D)
  <2> HIDE DEF from
  <2>1. \A j, k \in D : q[j] = q[k] => j = k
    BY <1>3, <1>4, <1>6
  <2>2. \A k \in D : \E j \in D : q[j] = k
    BY <1>3, <1>4, <1>7
  <2> QED
    BY <1>5, <2>1, <2>2 DEF Rearranges
<1>9. \A k \in D : k \notin 0 .. m - 1 => p[k] = k
  BY DEF SortedUpTo
<1>10. ASSUME NEW k \in D, k \notin 0 .. m PROVE q[k] = k
  BY <1>2, <1>9, <1>10
<1>11. \A k \in 0 .. m : b[k] \in T
  BY <1>2 DEF Arrays
<1>12. \A j, k \in 0 .. m : Greater(compare, b[j], b[k]) => ~Greater(compare, b[k], b[j])
  BY <1>11 DEF Comparison
<1>13. ASSUME NEW k \in 1 .. m PROVE ~Greater(compare, c[k - 1], c[k])
  <2>1. k \in 0 .. m /\ k - 1 \in 0 .. m /\ k \in D /\ k - 1 \in D
    BY <1>2
  <2>2. \A j \in 1 .. m - 1 : ~Greater(compare, b[j - 1], b[j])
    BY DEF SortedUpTo
  <2>3. CASE k < to
    BY <1>1, <1>2, <2>1, <2>2, <2>3
  <2>4. CASE k = to
    <3>1. c[k] = b[m] /\ c[k - 1] = b[to - 1]
      BY <1>1, <1>2, <2>1, <2>4
    <3> QED
      BY <1>1, <2>4, <3>1
  <2>5. CASE k = to + 1
    <3>1. c[k] = b[to] /\ c[k - 1] = b[m] /\ to \in to .. m - 1 /\ to \in 0 .. m /\ m \in 0 .. m
      BY <1>1, <1>2, <2>1, <2>5
    <3> QED
      BY <1>1, <1>12, <3>1
  <2>6. CASE k > to + 1
    <3>1. c[k] = b[k - 1] /\ c[k - 1] = b[(k - 1) - 1] /\ k - 1 \in 1 .. m - 1
      BY <1>1, <1>2, <2>1, <2>6
    <3> QED
      BY <2>2, <3>1
  <2> QED
    BY <1>2, <2>3, <2>4, <2>5, <2>6
<1>14. ASSUME NEW i \in 0 .. m, NEW j \in 0 .. m, i < j, q[j] < q[i] PROVE Greater(compare, c[j], c[i])
  <2>1. i \in D /\ j \in D /\ q[i] = p[from(i)] /\ q[j] = p[from(j)] /\ c[i] = b[from(i)] /\ c[j] = b[from(j)]
    BY <1>2, <1>3
  <2>2. CASE i = to
    <3>1. from(i) = m /\ from(j) \in to .. m - 1
      BY <1>2, <1>14, <2>2
    <3> QED
      BY <1>1, <2>1, <3>1
  <2>3. CASE j = to
    <3>1. from(j) = m /\ from(i) = i /\ i \in 0 .. m - 1 /\ q[j] = m
      BY <1>2, <1>9, <1>14, <2>1, <2>3
    <3>2. p[i] \in 0 .. m - 1
      <4>1. CASE p[i] \notin 0 .. m - 1
        <5>1. p[p[i]] = p[i] /\ p[i] \in D
          BY <1>4, <1>9, <2>1, <4>1
        <5>2. p[i] = i
          BY <1>4, <2>1, <5>1
        <5> QED
          BY <3>1, <4>1, <5>2
      <4> QED
        BY <4>1
    <3> QED
      BY <1>14, <2>1, <3>1, <3>2
  <2>4. CASE i # to /\ j # to
    <3>1. from(i) \in 0 .. m - 1 /\ from(j) \in 0 .. m - 1 /\ from(i) < from(j)
      BY <1>2, <1>14, <2>4
    <3>2. p[from(j)] < p[from(i)]
      BY <1>14, <2>1
    <3> HIDE DEF from
    <3> QED
      BY <2>1, <3>1, <3>2 DEF SortedUpTo
  <2> QED
    BY <2>2, <2>3, <2>4
<1>15. (m + 1) - 1 = m
  BY <1>2
<1> HIDE DEF q, from
<1>16. SortedUpTo(q, a, c, D, m + 1, compare)
  BY <1>8, <1>10, <1>13, <1>14, <1>15 DEF SortedUpTo
<1> QED
  BY <1>16 DEF c

\* In the end no element is directly behind one it belongs above.
LEMMA InsertionSorts ==
  ASSUME NEW D, NEW S, NEW T, NEW n \in Nat, 0 .. n - 1 \subseteq D,
         NEW compare, Comparison(compare, T),
         NEW v, v.array \in Arrays(D, S, T, n), v.items = n,
         v = [array |-> v.array, items |-> v.items, growthRate |-> v.growthRate]
  PROVE  LET w == VectorInsertionSort(v, compare)
         IN  /\ w = [array |-> w.array, items |-> n, growthRate |-> v.growthRate]
             /\ w.array \in Arrays(D, S, T, n)
             /\ \E p : SortedUpTo(p, v.array, w.array, D, n, compare)
<1> DEFINE a == v.array
           A == Arrays(D, S, T, n)
           F == [k \in 1 .. n |-> [b \in A |-> IF k = 1 THEN b ELSE Inserted(b, k - 1, compare)]]
           Cur(g) == g = [k \in 0 .. n |-> IF k <= 1 THEN a ELSE Inserted(g[k - 1], k - 1, compare)]
           cur == CHOOSE g : Cur(g)
           w == VectorInsertionSort(v, compare)
<1>1. ASSUME NEW k \in 1 .. n, NEW b \in A, k # 1 PROVE Inserted(b, k - 1, compare) \in A
  <2>1. k - 1 \in 1 .. n - 1
    BY <1>1
  <2> HIDE DEF A
  <2>2. \A i \in 1 .. n - 1 : Inserted(b, i, compare) \in A
    BY InsertedFacts DEF A
  <2> QED
    BY <2>1, <2>2
<1> HIDE DEF A
<1>2. F \in [1 .. n -> [A -> A]]
  BY <1>1
<1>3. a \in A
  BY DEF A
<1> HIDE DEF a
<1>4. \E f : IsLoop(f, a, F, A, n)
  <2> HIDE DEF F
  <2> QED
    BY <1>2, <1>3, LoopRuns
<1>5. PICK f : IsLoop(f, a, F, A, n)
  BY <1>4
<1>6. /\ f \in [0 .. n -> A] /\ f[0] = a
      /\ \A k \in 1 .. n : f[k] = IF k = 1 THEN f[k - 1] ELSE Inserted(f[k - 1], k - 1, compare)
  <2>1. f \in [0 .. n -> A] /\ f[0] = a /\ \A k \in 1 .. n : f[k] = F[k][f[k - 1]]
    BY <1>5 DEF IsLoop
  <2>2. \A k \in 1 .. n : f[k - 1] \in A
    BY <2>1
  <2> QED
    BY <2>1, <2>2
<1>7. Cur(f)
  <2>1. \A k \in 0 .. n : f[k] = IF k <= 1 THEN a ELSE Inserted(f[k - 1], k - 1, compare)
    <3> SUFFICES ASSUME NEW k \in 0 .. n
                 PROVE  f[k] = IF k <= 1 THEN a ELSE Inserted(f[k - 1], k - 1, compare)
      OBVIOUS
    <3>1. CASE k = 0
      BY <1>6, <3>1
    <3>2. CASE k = 1
      BY <1>6, <3>2
    <3>3. CASE k > 1
      BY <1>6, <3>3
    <3> QED
      BY <3>1, <3>2, <3>3
  <2> QED
    BY <1>6, <2>1
<1>8. Cur(cur)
  <2> HIDE DEF Cur
  <2> QED
    BY <1>7, Zenon
<1>9. w = [v EXCEPT !.array = cur[n]]
  BY Zenon DEF VectorInsertionSort, a
<1> HIDE DEF cur
<1>10. cur = [k \in 0 .. n |-> IF k <= 1 THEN a ELSE Inserted(cur[k - 1], k - 1, compare)]
  BY <1>8
<1> HIDE DEF Cur
<1> DEFINE P == {k \in 0 .. n : cur[k] \in A /\ \E p : SortedUpTo(p, a, cur[k], D, k, compare)}
<1>11. 0 \in P /\ 1 \in 0 .. n => 1 \in P
  <2>1. cur[0] = a /\ (1 \in 0 .. n => cur[1] = a)
    BY <1>10
  <2>2. \A m \in {0, 1} : SortedUpTo([k \in D |-> k], a, a, D, m, compare)
    BY DEF SortedUpTo, Rearranges
  <2> QED
    BY <1>3, <2>1, <2>2
<1>12. 0 \in P
  <2>1. cur[0] = a
    BY <1>10
  <2>2. SortedUpTo([k \in D |-> k], a, a, D, 0, compare)
    BY DEF SortedUpTo, Rearranges
  <2> QED
    BY <1>3, <2>1, <2>2
<1>13. ASSUME NEW k \in 1 .. n, k - 1 \in P PROVE k \in P
  <2>1. CASE k = 1
    BY <1>11, <1>12, <2>1
  <2>2. CASE k # 1
    <3> DEFINE b == cur[k - 1]
               m == k - 1
    <3>1. cur[k] = Inserted(b, m, compare)
      BY <1>10, <2>2
    <3>2. m \in 1 .. n - 1 /\ k = m + 1
      BY <2>2
    <3>3. b \in A
      BY <1>13
    <3>4. PICK p : SortedUpTo(p, a, b, D, m, compare)
      BY <1>13
    <3> HIDE DEF b, m, P
    <3>5. \E q : SortedUpTo(q, a, Inserted(b, m, compare), D, m + 1, compare)
      BY <3>2, <3>3, <3>4, InsertedIsSorted DEF A
    <3>6. cur[k] \in A
      BY <1>1, <2>2, <3>1, <3>3 DEF m
    <3> QED
      BY <3>1, <3>2, <3>5, <3>6 DEF P
  <2> QED
    BY <2>1, <2>2
<1>14. n \in P
  <2> HIDE DEF P
  <2> QED
    BY <1>12, <1>13, EachTurn
<1>15. w.array = cur[n] /\ w = [array |-> w.array, items |-> n, growthRate |-> v.growthRate]
  BY <1>9
<1> QED
  BY <1>14, <1>15 DEF A, a

\* Nor anywhere behind one, if what belongs above an element belongs above those
\* that come after it.
LEMMA SortedThroughout ==
  ASSUME NEW D, NEW S, NEW T, NEW n \in Nat, NEW a, NEW b \in Arrays(D, S, T, n),
         NEW compare, NEW p, SortedUpTo(p, a, b, D, n, compare),
         \A x, y, z \in T : ~Greater(compare, x, y) /\ ~Greater(compare, y, z) => ~Greater(compare, x, z)
  PROVE  \A j \in 0 .. n - 1 : \A i \in 0 .. j - 1 : ~Greater(compare, b[i], b[j])
<1> SUFFICES ASSUME NEW i \in 0 .. n - 1, NEW j \in i + 1 .. n - 1
             PROVE  ~Greater(compare, b[i], b[j])
  OBVIOUS
<1>1. \A k \in 0 .. n - 1 : b[k] \in T
  BY DEF Arrays
<1>2. \A k \in 1 .. n - 1 : ~Greater(compare, b[k - 1], b[k])
  BY DEF SortedUpTo
<1> DEFINE P == {d \in Nat : d = 0 \/ ~Greater(compare, b[i], b[i + d])}
           far == n - 1 - i
<1>3. far \in Nat
  OBVIOUS
<1>4. ASSUME NEW d \in 1 .. far, d - 1 \in P PROVE d \in P
  <2>1. i + d \in 1 .. n - 1 /\ i + d - 1 \in 0 .. n - 1 /\ i + d \in 0 .. n - 1 /\ i + (d - 1) = i + d - 1
    OBVIOUS
  <2>2. ~Greater(compare, b[i + d - 1], b[i + d])
    BY <1>2, <2>1
  <2>3. CASE d = 1
    <3>1. i + d - 1 = i
      BY <2>3
    <3> QED
      BY <2>2, <3>1
  <2>4. CASE d # 1
    <3>1. ~Greater(compare, b[i], b[i + d - 1])
      BY <1>4, <2>1, <2>4
    <3> QED
      BY <1>1, <2>1, <2>2, <3>1
  <2> QED
    BY <2>3, <2>4
<1>5. \A d \in 0 .. far : d \in P
  <2> HIDE DEF P, far
  <2>1. 0 \in P
    BY DEF P
  <2> QED
    BY <1>3, <1>4, <2>1, EachTurn
<1>6. j - i \in 0 .. far /\ j - i # 0 /\ i + (j - i) = j
  OBVIOUS
<1> QED
  BY <1>5, <1>6

-----------------------------------------------------------------------------
(* The quicksort.                                                          *)

(* b has what a has, and only places from left to right have changed.       *)
Within(p, a, b, D, left, right) ==
  Rearranges(p, a, b, D) /\ \A k \in D : k \notin left .. right => p[k] = k

Shuffled(a, b, D, left, right) == \E p : Within(p, a, b, D, left, right)

LEMMA ShuffledTwice ==
  ASSUME NEW D, NEW a, NEW b, NEW c, NEW left, NEW right, NEW l, NEW r,
         Shuffled(a, b, D, left, right), Shuffled(b, c, D, l, r), l .. r \subseteq left .. right
  PROVE  Shuffled(a, c, D, left, right)
<1>1. PICK p : Within(p, a, b, D, left, right)
  BY DEF Shuffled
<1>2. PICK q : Within(q, b, c, D, l, r)
  BY DEF Shuffled
<1> DEFINE w == [k \in D |-> p[q[k]]]
<1>3. p \in [D -> D] /\ q \in [D -> D] /\ w \in [D -> D]
  BY <1>1, <1>2 DEF Within, Rearranges
<1>4. \A k \in D : c[k] = a[w[k]]
  BY <1>1, <1>2, <1>3 DEF Within, Rearranges
<1>5. \A j, k \in D : w[j] = w[k] => j = k
  BY <1>1, <1>2, <1>3 DEF Within, Rearranges
<1>6. \A k \in D : \E j \in D : w[j] = k
  BY <1>1, <1>2, <1>3 DEF Within, Rearranges
<1>7. \A k \in D : k \notin left .. right => w[k] = k
  <2>1. \A k \in D : k \notin left .. right => k \notin l .. r
    OBVIOUS
  <2> QED
    BY <1>1, <1>2, <1>3, <2>1 DEF Within
<1> HIDE DEF w
<1> QED
  BY <1>3, <1>4, <1>5, <1>6, <1>7 DEF Shuffled, Within, Rearranges

LEMMA ShuffledNot ==
  ASSUME NEW D, NEW a, NEW left, NEW right
  PROVE  Shuffled(a, a, D, left, right)
<1>1. Within([k \in D |-> k], a, a, D, left, right)
  BY DEF Within, Rearranges
<1> QED
  BY <1>1 DEF Shuffled

LEMMA SwapIs ==
  ASSUME NEW a, NEW i \in DOMAIN a, NEW j \in DOMAIN a
  PROVE  Swap(a, i, j) = [k \in DOMAIN a |-> IF k = i THEN a[j] ELSE IF k = j THEN a[i] ELSE a[k]]
<1>1. ASSUME NEW b, b = Swap(a, i, j)
      PROVE  b = [k \in DOMAIN a |-> IF k = i THEN a[j] ELSE IF k = j THEN a[i] ELSE a[k]]
  BY <1>1 DEF Swap
<1> QED
  BY <1>1, Zenon

LEMMA SwapShuffles ==
  ASSUME NEW a, NEW D, D = DOMAIN a, NEW left, NEW right, left .. right \subseteq D,
         NEW i \in left .. right, NEW j \in left .. right
  PROVE  Shuffled(a, Swap(a, i, j), D, left, right)
<1> DEFINE b == Swap(a, i, j)
           p == [k \in D |-> IF k = i THEN j ELSE IF k = j THEN i ELSE k]
<1> i \in D /\ j \in D
  OBVIOUS
<1>1. \A k \in D : b[k] = IF k = i THEN a[j] ELSE IF k = j THEN a[i] ELSE a[k]
  BY DEF Swap
<1> HIDE DEF b
<1>2. Within(p, a, b, D, left, right)
  <2>1. p \in [D -> D] /\ \A k \in D : b[k] = a[p[k]]
    BY <1>1
  <2>2. \A x, k \in D : p[x] = p[k] => x = k
    OBVIOUS
  <2>3. ASSUME NEW k \in D PROVE \E x \in D : p[x] = k
    <3>1. p[p[k]] = k /\ p[k] \in D
      OBVIOUS
    <3> QED
      BY <3>1
  <2>4. \A k \in D : k \notin left .. right => p[k] = k
    OBVIOUS
  <2> HIDE DEF p
  <2> QED
    BY <2>1, <2>2, <2>3, <2>4 DEF Within, Rearranges
<1> QED
  BY <1>2 DEF Shuffled, b

LEMMA ShuffledPlaces ==
  ASSUME NEW D, NEW a, NEW b, NEW left, NEW right, left .. right \subseteq D,
         Shuffled(a, b, D, left, right)
  PROVE  /\ \A k \in D : k \notin left .. right => b[k] = a[k]
         /\ \A k \in left .. right : \E j \in left .. right : b[k] = a[j]
<1>1. PICK p : Within(p, a, b, D, left, right)
  BY DEF Shuffled
<1>2. \A k \in D : k \notin left .. right => b[k] = a[k]
  BY <1>1 DEF Within, Rearranges
<1>3. ASSUME NEW k \in left .. right PROVE p[k] \in left .. right /\ b[k] = a[p[k]]
  <2>1. k \in D /\ p[k] \in D
    BY <1>1 DEF Within, Rearranges
  <2>2. p[k] \notin left .. right => p[p[k]] = p[k]
    BY <1>1, <2>1 DEF Within
  <2> QED
    BY <1>1, <2>1, <2>2 DEF Within, Rearranges
<1> QED
  BY <1>2, <1>3

AllArrays(D, S) == [D -> S]

(* The array s.a after k turns of the partition of a around x.              *)
Parted(s, a, k, left, right, x, D, S, compare) ==
  /\ s = [a |-> s.a, store |-> s.store]
  /\ s.a \in [D -> S] /\ s.store \in left .. (left + k)
  /\ Shuffled(a, s.a, D, left, right) /\ s.a[right] = x
  /\ \A i \in left .. (s.store - 1) : ~Greater(compare, s.a[i], x)
  /\ \A i \in s.store .. (left + k - 1) : Greater(compare, s.a[i], x)

PartitionTurn(s, i, x, compare) ==
  IF ~Greater(compare, s.a[i], x) THEN [a |-> Swap(s.a, i, s.store), store |-> s.store + 1] ELSE s

LEMMA PartedOnce ==
  ASSUME NEW D, NEW S, NEW left \in Nat, NEW right \in Nat, left .. right \subseteq D,
         NEW k \in 1 .. (right - left), NEW a, NEW x, NEW compare, NEW s,
         Parted(s, a, k - 1, left, right, x, D, S, compare)
  PROVE  Parted(PartitionTurn(s, left + k - 1, x, compare), a, k, left, right, x, D, S, compare)
<1> DEFINE i == left + k - 1
           t == s.store
           b == s.a
           c == Swap(b, i, t)
<1>1. /\ i \in left .. right /\ i # right /\ t \in left .. right /\ t # right /\ t \in left .. i
      /\ i \in Int /\ t \in Int /\ left + (k - 1) = i /\ left + k = i + 1 /\ left + k - 1 = i
      /\ left + (k - 1) - 1 = i - 1
  BY DEF Parted
<1>2. /\ s = [a |-> b, store |-> t] /\ b \in [D -> S] /\ Shuffled(a, b, D, left, right) /\ b[right] = x
      /\ \A j \in left .. (t - 1) : ~Greater(compare, b[j], x)
      /\ \A j \in t .. (i - 1) : Greater(compare, b[j], x)
  BY <1>1 DEF Parted
<1>3. CASE ~Greater(compare, b[i], x)
  <2>1. PartitionTurn(s, i, x, compare) = [a |-> c, store |-> t + 1]
    BY <1>3 DEF PartitionTurn
  <2>2. /\ c \in [D -> S] /\ Shuffled(b, c, D, left, right)
        /\ \A j \in D : c[j] = IF j = i THEN b[t] ELSE IF j = t THEN b[i] ELSE b[j]
    <3>1. i \in DOMAIN b /\ t \in DOMAIN b /\ DOMAIN b = D
      BY <1>1, <1>2
    <3> HIDE DEF i, t, b
    <3>2. c = [j \in DOMAIN b |-> IF j = i THEN b[t] ELSE IF j = t THEN b[i] ELSE b[j]]
      BY <3>1, SwapIs, Zenon
    <3>3. Shuffled(b, c, D, left, right)
      BY <1>1, <3>1, SwapShuffles
    <3> HIDE DEF c, i, t, b
    <3> QED
      BY <1>2, <3>1, <3>2, <3>3
  <2> HIDE DEF c, i, t, b
  <2>3. Shuffled(a, c, D, left, right)
    BY <1>2, <2>2, ShuffledTwice
  <2>4. right \in D /\ c[right] = x
    BY <1>1, <1>2, <2>2
  <2>5. \A j \in left .. t : ~Greater(compare, c[j], x)
    <3> SUFFICES ASSUME NEW j \in left .. t PROVE ~Greater(compare, c[j], x)
      OBVIOUS
    <3>1. j \in D /\ (j # t => j \in left .. (t - 1) /\ j # i)
      BY <1>1
    <3>2. t = i \/ t # i
      OBVIOUS
    <3> QED
      BY <1>2, <1>3, <2>2, <3>1, <3>2
  <2>6. \A j \in t + 1 .. i : Greater(compare, c[j], x)
    <3> SUFFICES ASSUME NEW j \in t + 1 .. i PROVE Greater(compare, c[j], x)
      OBVIOUS
    <3>1. j \in D /\ j # t /\ (j # i => j \in t .. (i - 1)) /\ (j = i => t \in t .. (i - 1))
      BY <1>1
    <3> QED
      BY <1>2, <2>2, <3>1
  <2>7. t + 1 \in left .. (i + 1) /\ t + 1 - 1 = t
    BY <1>1
  <2> DEFINE u == [a |-> c, store |-> t + 1]
  <2>8. u.a = c /\ u.store = t + 1 /\ u = [a |-> u.a, store |-> u.store]
    OBVIOUS
  <2> HIDE DEF u
  <2>9. Parted(u, a, k, left, right, x, D, S, compare)
    BY <1>1, <2>2, <2>3, <2>4, <2>5, <2>6, <2>7, <2>8 DEF Parted
  <2> QED
    BY <2>1, <2>9 DEF u, i
<1>4. CASE Greater(compare, b[i], x)
  <2>1. PartitionTurn(s, i, x, compare) = s
    BY <1>4 DEF PartitionTurn
  <2> HIDE DEF c, i, t, b
  <2>2. t \in left .. (i + 1)
    BY <1>1
  <2>3. \A j \in t .. i : Greater(compare, b[j], x)
    <3>1. \A j \in t .. i : j = i \/ j \in t .. (i - 1)
      BY <1>1
    <3> QED
      BY <1>2, <1>4, <3>1
  <2>4. Parted(s, a, k, left, right, x, D, S, compare)
    BY <1>1, <1>2, <2>2, <2>3 DEF Parted, t, b
  <2> QED
    BY <2>1, <2>4 DEF i
<1> QED
  BY <1>3, <1>4

\* The partition, whatever the comparison says: what is not above the pivot is before
\* it, and what is above it behind it.
LEMMA PartitionFacts ==
  ASSUME NEW D, NEW S, NEW left \in Nat, NEW right \in Nat, left < right, left .. right \subseteq D,
         NEW a \in AllArrays(D, S), NEW pivot \in left .. right, NEW compare
  PROVE  LET p == Partition(a, left, right, pivot, compare)
             x == a[pivot]
         IN  /\ p.a \in AllArrays(D, S) /\ p.store \in left .. right
             /\ Shuffled(a, p.a, D, left, right) /\ p.a[p.store] = x
             /\ \A i \in left .. (p.store - 1) : ~Greater(compare, p.a[i], x)
             /\ \A i \in (p.store + 1) .. right : Greater(compare, p.a[i], x)
<1> USE DEF AllArrays
<1> DEFINE n == right - left
           x == a[pivot]
           base == [a |-> Swap(a, pivot, right), store |-> left]
           Turn(s, k) == PartitionTurn(s, left + k - 1, x, compare)
           States == [a : [D -> S], store : left .. right]
           F == [k \in 1 .. n |-> [s \in States |-> IF s.store < right THEN Turn(s, k) ELSE s]]
           Ok(s, k) == Parted(s, a, k, left, right, x, D, S, compare)
           Cur(g) == g = [k \in 0 .. n |->
                            IF k = 0 THEN base
                            ELSE LET s == g[k - 1]
                                     i == left + k - 1
                                 IN IF ~Greater(compare, s.a[i], a[pivot])
                                    THEN [a |-> Swap(s.a, i, s.store), store |-> s.store + 1]
                                    ELSE s]
           cur == CHOOSE g : Cur(g)
<1>1. n \in Nat /\ right \in left .. right /\ left \in left .. right
  OBVIOUS
<1>2. Ok(base, 0)
  <2> DEFINE b == Swap(a, pivot, right)
  <2>1. /\ b \in [D -> S] /\ Shuffled(a, b, D, left, right)
        /\ \A k \in D : b[k] = IF k = pivot THEN a[right] ELSE IF k = right THEN a[pivot] ELSE a[k]
    <3>1. pivot \in D /\ right \in D /\ DOMAIN a = D
      BY <1>1
    <3>2. b = [k \in DOMAIN a |-> IF k = pivot THEN a[right] ELSE IF k = right THEN a[pivot] ELSE a[k]]
      BY <3>1, SwapIs, Zenon
    <3>3. Shuffled(a, b, D, left, right)
      BY <1>1, <3>1, SwapShuffles
    <3> HIDE DEF b
    <3> QED
      BY <3>1, <3>2, <3>3
  <2>2. b[right] = x
    BY <1>1, <2>1
  <2> HIDE DEF b, x
  <2>3. base.a = b /\ base.store = left /\ base = [a |-> base.a, store |-> base.store]
    BY DEF b
  <2> HIDE DEF base
  <2> QED
    BY <1>1, <2>1, <2>2, <2>3 DEF Parted
<1> HIDE DEF base, x
<1>3. ASSUME NEW k \in 1 .. n, NEW s, Ok(s, k - 1) PROVE Ok(Turn(s, k), k) /\ s.store < right
  <2>1. Ok(Turn(s, k), k)
    BY <1>3, PartedOnce
  <2>2. s.store < right
    BY <1>3 DEF Parted
  <2> QED
    BY <2>1, <2>2
<1>4. ASSUME NEW k \in 0 .. n, NEW s, Ok(s, k) PROVE s \in States
  BY <1>4 DEF Parted
<1>5. base \in States
  <2>1. 0 \in 0 .. n
    BY <1>1
  <2> QED
    BY <1>2, <1>4, <2>1
<1> HIDE DEF Ok
<1>6. ASSUME NEW s \in States, s.store < right, NEW k \in 1 .. n PROVE Turn(s, k) \in States
  <2>1. /\ left + k - 1 \in left .. right /\ left + k - 1 \in D /\ s.store \in D
        /\ s.store + 1 \in left .. right
    BY <1>6
  <2>2. Swap(s.a, left + k - 1, s.store) \in [D -> S]
    <3>1. s.a \in [D -> S] /\ s.store \in left .. right
      OBVIOUS
    <3> DEFINE b == s.a
               i == left + k - 1
               t == s.store
               c == Swap(b, i, t)
    <3>2. i \in DOMAIN b /\ t \in DOMAIN b /\ b \in [D -> S]
      BY <2>1, <3>1
    <3> HIDE DEF b, i, t
    <3>3. c = [j \in DOMAIN b |-> IF j = i THEN b[t] ELSE IF j = t THEN b[i] ELSE b[j]]
      BY <3>2, SwapIs, Zenon
    <3> HIDE DEF c
    <3>4. c \in [D -> S]
      BY <3>2, <3>3
    <3> QED
      BY <3>4 DEF c, b, i, t
  <2> QED
    BY <2>1, <2>2 DEF PartitionTurn
<1> HIDE DEF Turn, States
<1>7. F \in [1 .. n -> [States -> States]]
  BY <1>6
<1>8. PICK f : IsLoop(f, base, F, States, n)
  <2> HIDE DEF F, n
  <2> QED
    BY <1>1, <1>5, <1>7, LoopRuns
<1>9. /\ f \in [0 .. n -> States] /\ f[0] = base
      /\ \A k \in 1 .. n : f[k] = IF f[k - 1].store < right THEN Turn(f[k - 1], k) ELSE f[k - 1]
  <2>1. f \in [0 .. n -> States] /\ f[0] = base /\ \A k \in 1 .. n : f[k] = F[k][f[k - 1]]
    BY <1>8 DEF IsLoop
  <2> HIDE DEF n
  <2>2. \A k \in 1 .. n : f[k - 1] \in States
    BY <1>1, <2>1
  <2> QED
    BY <2>1, <2>2
<1> HIDE DEF F, n
<1>10. ASSUME NEW g, g[0] = base, \A k \in 1 .. n : g[k - 1].store < right => g[k] = Turn(g[k - 1], k)
       PROVE  \A k \in 0 .. n : Ok(g[k], k)
  <2> DEFINE P == {k \in 0 .. n : Ok(g[k], k)}
  <2>1. 0 \in P
    BY <1>1, <1>2, <1>10
  <2>2. ASSUME NEW k \in 1 .. n, k - 1 \in P PROVE k \in P
    BY <1>3, <1>10, <2>2
  <2>3. \A k \in 0 .. n : k \in P
    <3> HIDE DEF P
    <3> QED
      BY <1>1, <2>1, <2>2, EachTurn
  <2> QED
    BY <2>3
<1>11. \A k \in 1 .. n : f[k] = Turn(f[k - 1], k)
  <2>1. \A k \in 0 .. n : Ok(f[k], k)
    BY <1>9, <1>10
  <2>2. \A k \in 1 .. n : k - 1 \in 0 .. n
    BY <1>1
  <2>3. \A k \in 1 .. n : f[k - 1].store < right
    BY <1>3, <2>1, <2>2
  <2> QED
    BY <1>9, <2>3
<1>12. Cur(f)
  <2>1. \A k \in 0 .. n : f[k] = IF k = 0 THEN base
                                 ELSE LET s == f[k - 1]
                                          i == left + k - 1
                                      IN IF ~Greater(compare, s.a[i], a[pivot])
                                         THEN [a |-> Swap(s.a, i, s.store), store |-> s.store + 1]
                                         ELSE s
    <3> SUFFICES ASSUME NEW k \in 0 .. n
                 PROVE  f[k] = IF k = 0 THEN base
                               ELSE LET s == f[k - 1]
                                        i == left + k - 1
                                    IN IF ~Greater(compare, s.a[i], a[pivot])
                                       THEN [a |-> Swap(s.a, i, s.store), store |-> s.store + 1]
                                       ELSE s
      OBVIOUS
    <3>1. k = 0 \/ k \in 1 .. n
      BY <1>1
    <3> QED
      BY <1>9, <1>11, <3>1 DEF Turn, PartitionTurn, x
  <2> QED
    BY <1>9, <2>1
<1>13. Cur(cur)
  <2> HIDE DEF Cur
  <2> QED
    BY <1>12, Zenon
<1> DEFINE p == Partition(a, left, right, pivot, compare)
<1>14. p = [cur[n] EXCEPT !.a = Swap(cur[n].a, cur[n].store, right)]
  BY Zenon DEF Partition, base, n
<1> HIDE DEF cur
<1>15. cur[0] = base /\ \A k \in 1 .. n : cur[k] = Turn(cur[k - 1], k)
  <2>1. \A k \in 1 .. n : k \in 0 .. n /\ k # 0
    BY <1>1
  <2>2. 0 \in 0 .. n
    BY <1>1
  <2> QED
    BY <1>13, <2>1, <2>2 DEF Turn, PartitionTurn, x
<1> HIDE DEF Cur
<1>16. Ok(cur[n], n)
  <2>1. \A k \in 0 .. n : Ok(cur[k], k)
    BY <1>10, <1>15
  <2> QED
    BY <1>1, <2>1
<1> DEFINE s == cur[n]
           t == s.store
           b == s.a
           c == Swap(b, t, right)
<1>17. /\ s = [a |-> b, store |-> t] /\ b \in [D -> S] /\ t \in left .. right
       /\ Shuffled(a, b, D, left, right) /\ b[right] = x
       /\ \A i \in left .. (t - 1) : ~Greater(compare, b[i], x)
       /\ \A i \in t .. (right - 1) : Greater(compare, b[i], x)
  <2>1. left + n = right /\ left + n - 1 = right - 1
    BY DEF n
  <2> QED
    BY <1>16, <2>1 DEF Ok, Parted
<1> HIDE DEF s, t, b
<1>18. p = [a |-> c, store |-> t]
  BY <1>14, <1>17 DEF s, t, b
<1>19. /\ c \in [D -> S] /\ Shuffled(b, c, D, left, right)
       /\ \A j \in D : c[j] = IF j = t THEN b[right] ELSE IF j = right THEN b[t] ELSE b[j]
  <2>1. t \in D /\ right \in D /\ DOMAIN b = D
    BY <1>1, <1>17
  <2>2. c = [j \in DOMAIN b |-> IF j = t THEN b[right] ELSE IF j = right THEN b[t] ELSE b[j]]
    BY <2>1, SwapIs, Zenon
  <2>3. Shuffled(b, c, D, left, right)
    BY <1>1, <1>17, <2>1, SwapShuffles
  <2> HIDE DEF c
  <2> QED
    BY <1>17, <2>1, <2>2, <2>3
<1> HIDE DEF p, c
<1>20. Shuffled(a, c, D, left, right)
  BY <1>17, <1>19, ShuffledTwice
<1>21. c[t] = x
  BY <1>17, <1>19
<1>22. \A i \in left .. (t - 1) : ~Greater(compare, c[i], x)
  <2>1. \A i \in left .. (t - 1) : i \in D /\ i # t /\ i # right
    BY <1>17
  <2> QED
    BY <1>17, <1>19, <2>1
<1>23. \A i \in (t + 1) .. right : Greater(compare, c[i], x)
  <2> SUFFICES ASSUME NEW i \in (t + 1) .. right PROVE Greater(compare, c[i], x)
    OBVIOUS
  <2>1. i \in D /\ i # t /\ (i # right => i \in t .. (right - 1)) /\ (i = right => t \in t .. (right - 1))
    BY <1>17
  <2> QED
    BY <1>17, <1>19, <2>1
<1>24. p.a = c /\ p.store = t
  BY <1>18
<1> QED
  BY <1>17, <1>19, <1>20, <1>21, <1>22, <1>23, <1>24 DEF p, x

LEMMA VectorUpdated ==
  ASSUME NEW v, v = [array |-> v.array, items |-> v.items, growthRate |-> v.growthRate], NEW a, NEW n, NEW w
  PROVE  /\ w = [v EXCEPT !.array = a] =>
               w = [array |-> a, items |-> v.items, growthRate |-> v.growthRate]
         /\ w = [v EXCEPT !.items = n, !.array = a] =>
               w = [array |-> a, items |-> n, growthRate |-> v.growthRate]
OBVIOUS

Ordered(compare, b, left, right) ==
  \A i, j \in left .. right : i < j => ~Greater(compare, b[i], b[j])

(* What the comparison has to be for a list to have an order.               *)
TotalOrder(compare, T) ==
  /\ Comparison(compare, T)
  /\ \A x, y, z \in T : ~Greater(compare, x, y) /\ ~Greater(compare, y, z) => ~Greater(compare, x, z)

LEMMA OrderedAroundPivot ==
  ASSUME NEW D, NEW T, NEW compare, TotalOrder(compare, T),
         NEW left \in Nat, NEW right \in Nat, left .. right \subseteq D, NEW s \in left .. right,
         NEW a, NEW b, NEW c, NEW d,
         Shuffled(a, b, D, left, right), Shuffled(b, c, D, left, s - 1), Shuffled(c, d, D, s + 1, right),
         \A i \in left .. right : a[i] \in T,
         \A i \in left .. (s - 1) : ~Greater(compare, b[i], b[s]),
         \A i \in (s + 1) .. right : Greater(compare, b[i], b[s]),
         (\A i \in left .. (s - 1) : b[i] \in T) => Ordered(compare, c, left, s - 1),
         (\A i \in (s + 1) .. right : c[i] \in T) => Ordered(compare, d, s + 1, right)
  PROVE  Ordered(compare, d, left, right)
<1> DEFINE x == b[s]
<1>1. left .. (s - 1) \subseteq D /\ (s + 1) .. right \subseteq D /\ s \in D
  OBVIOUS
<1>2. \A i \in left .. right : b[i] \in T
  BY ShuffledPlaces
<1>3. /\ \A k \in D : k \notin left .. (s - 1) => c[k] = b[k]
      /\ \A k \in left .. (s - 1) : \E j \in left .. (s - 1) : c[k] = b[j]
  BY <1>1, ShuffledPlaces
<1>4. /\ \A k \in D : k \notin (s + 1) .. right => d[k] = c[k]
      /\ \A k \in (s + 1) .. right : \E j \in (s + 1) .. right : d[k] = c[j]
  BY <1>1, ShuffledPlaces
<1>5. \A k \in left .. (s - 1) : c[k] \in T /\ ~Greater(compare, c[k], x)
  <2>1. \A j \in left .. (s - 1) : j \in left .. right
    OBVIOUS
  <2> QED
    BY <1>2, <1>3, <2>1
<1>6. \A k \in (s + 1) .. right : c[k] = b[k] /\ c[k] \in T /\ Greater(compare, c[k], x)
  <2>1. \A k \in (s + 1) .. right : k \in D /\ k \notin left .. (s - 1) /\ k \in left .. right
    BY <1>1
  <2> QED
    BY <1>2, <1>3, <2>1
<1>7. d[s] = x /\ x \in T
  <2>1. s \notin (s + 1) .. right /\ s \notin left .. (s - 1)
    OBVIOUS
  <2> QED
    BY <1>1, <1>2, <1>3, <1>4, <2>1
<1>8. \A k \in left .. (s - 1) : d[k] = c[k]
  <2>1. \A k \in left .. (s - 1) : k \in D /\ k \notin (s + 1) .. right
    BY <1>1
  <2> QED
    BY <1>4, <2>1
<1>9. \A k \in (s + 1) .. right : d[k] \in T /\ Greater(compare, d[k], x)
  BY <1>4, <1>6
<1>10. Ordered(compare, c, left, s - 1) /\ Ordered(compare, d, s + 1, right)
  <2>1. \A i \in left .. (s - 1) : i \in left .. right
    OBVIOUS
  <2> QED
    BY <1>2, <1>6, <2>1
<1> HIDE DEF x
<1>11. SUFFICES ASSUME NEW i \in left .. right, NEW j \in left .. right, i < j
                PROVE  ~Greater(compare, d[i], d[j])
  BY DEF Ordered
<1>12. CASE j < s
  <2>1. i \in left .. (s - 1) /\ j \in left .. (s - 1)
    BY <1>11, <1>12
  <2> QED
    BY <1>8, <1>10, <1>11, <2>1 DEF Ordered
<1>13. CASE i < s /\ j >= s
  <2>1. i \in left .. (s - 1) /\ (j # s => j \in (s + 1) .. right)
    BY <1>11, <1>13
  <2>2. d[i] \in T /\ ~Greater(compare, d[i], x)
    BY <1>5, <1>8, <2>1
  <2>3. d[j] \in T /\ ~Greater(compare, x, d[j])
    <3>1. CASE j = s
      BY <1>7, <3>1 DEF TotalOrder, Comparison
    <3>2. CASE j # s
      BY <1>7, <1>9, <2>1, <3>2 DEF TotalOrder, Comparison
    <3> QED
      BY <3>1, <3>2
  <2> QED
    BY <1>7, <2>2, <2>3 DEF TotalOrder
<1>14. CASE i = s
  <2>1. j \in (s + 1) .. right
    BY <1>11, <1>14
  <2> QED
    BY <1>7, <1>9, <1>14, <2>1 DEF TotalOrder, Comparison
<1>15. CASE i > s
  <2>1. i \in (s + 1) .. right /\ j \in (s + 1) .. right
    BY <1>11, <1>15
  <2> QED
    BY <1>10, <1>11, <2>1 DEF Ordered
<1> QED
  BY <1>11, <1>12, <1>13, <1>14, <1>15

(* The parts of an array, and what quickSort makes of one.                  *)
QuickParts(A, n) == A \X (0 .. n) \X ((-1) .. (n - 1))

Middle(part, compare) == Partition(part[1], part[2], part[3], (part[2] + part[3]) \div 2, compare)

QuickBody(g, part, compare) ==
  IF part[2] >= part[3] THEN part[1]
  ELSE g[<<g[<<Middle(part, compare).a, part[2], Middle(part, compare).store - 1>>],
           Middle(part, compare).store + 1, part[3]>>]

QuickSortEnds(A, n, compare) ==
  \E g \in [QuickParts(A, n) -> A] : \A part \in QuickParts(A, n) : g[part] = QuickBody(g, part, compare)

\* The two parts beside the pivot are parts, and smaller.
LEMMA PartsOfPart ==
  ASSUME NEW D, NEW S, NEW n \in Nat, 0 .. n - 1 \subseteq D, NEW compare,
         NEW part \in QuickParts(AllArrays(D, S), n), ~(part[2] >= part[3])
  PROVE  LET p == Middle(part, compare)
             left == part[2]
             right == part[3]
         IN  /\ left \in Nat /\ right \in Nat /\ left < right /\ left .. right \subseteq D
             /\ p.a \in AllArrays(D, S) /\ p.store \in left .. right
             /\ Shuffled(part[1], p.a, D, left, right)
             /\ \A i \in left .. (p.store - 1) : ~Greater(compare, p.a[i], p.a[p.store])
             /\ \A i \in (p.store + 1) .. right : Greater(compare, p.a[i], p.a[p.store])
             /\ \A c \in AllArrays(D, S) : /\ <<c, left, p.store - 1>> \in QuickParts(AllArrays(D, S), n)
                                    /\ <<c, p.store + 1, right>> \in QuickParts(AllArrays(D, S), n)
             /\ (p.store - 1) - left < right - left /\ right - (p.store + 1) < right - left
<1> DEFINE A == AllArrays(D, S)
           a == part[1]
           left == part[2]
           right == part[3]
           pivot == (left + right) \div 2
           p == Middle(part, compare)
<1>1. a \in A /\ left \in 0 .. n /\ right \in (-1) .. (n - 1) /\ left < right
  BY DEF QuickParts
<1>2. p = Partition(a, left, right, pivot, compare)
  BY DEF Middle
<1> HIDE DEF a, left, right, p
<1>3. left \in Nat /\ right \in Nat /\ left .. right \subseteq D /\ pivot \in left .. right
  BY <1>1
<1> HIDE DEF pivot
<1>4. /\ p.a \in A /\ p.store \in left .. right
      /\ Shuffled(a, p.a, D, left, right) /\ p.a[p.store] = a[pivot]
      /\ \A i \in left .. (p.store - 1) : ~Greater(compare, p.a[i], a[pivot])
      /\ \A i \in (p.store + 1) .. right : Greater(compare, p.a[i], a[pivot])
  BY <1>1, <1>2, <1>3, PartitionFacts
<1> HIDE DEF A
<1>5. /\ \A c \in A : /\ <<c, left, p.store - 1>> \in QuickParts(A, n)
                      /\ <<c, p.store + 1, right>> \in QuickParts(A, n)
      /\ (p.store - 1) - left < right - left /\ right - (p.store + 1) < right - left
  <2>1. p.store - 1 \in (-1) .. (n - 1) /\ p.store + 1 \in 0 .. n
    BY <1>1, <1>3, <1>4
  <2>2. (p.store - 1) - left < right - left /\ right - (p.store + 1) < right - left
    BY <1>1, <1>3, <1>4
  <2> QED
    BY <1>1, <2>1, <2>2 DEF QuickParts
<1> QED
  BY <1>1, <1>3, <1>4, <1>5 DEF a, left, right, p, A

LEMMA QuickSortRuns ==
  ASSUME NEW D, NEW S, NEW n \in Nat, 0 .. n - 1 \subseteq D, NEW compare
  PROVE  QuickSortEnds(AllArrays(D, S), n, compare)
<1> DEFINE A == AllArrays(D, S)
           Parts == QuickParts(A, n)
           Width(part) == part[3] - part[2]
           Upto(g, m) == \A part \in Parts : Width(part) < m => g[part] = QuickBody(g, part, compare)
           P == {m \in 0 .. n : \E g \in [Parts -> A] : Upto(g, m)}
<1>1. \A part \in Parts : part[1] \in A /\ part[2] \in Int /\ part[3] \in Int /\ Width(part) < n
  BY DEF QuickParts
<1>2. 0 \in P
  <2> DEFINE g == [part \in Parts |-> part[1]]
  <2>1. g \in [Parts -> A]
    BY <1>1
  <2>2. ASSUME NEW part \in Parts, Width(part) < 0 PROVE g[part] = QuickBody(g, part, compare)
    <3>1. part[2] >= part[3]
      BY <1>1, <2>2
    <3> QED
      BY <3>1 DEF QuickBody
  <2>3. 0 \in 0 .. n
    OBVIOUS
  <2> HIDE DEF g, Parts, A, Width
  <2> QED
    BY <2>1, <2>2, <2>3
<1>3. ASSUME NEW m \in 1 .. n, m - 1 \in P PROVE m \in P
  <2>1. PICK g \in [Parts -> A] : Upto(g, m - 1)
    BY <1>3
  <2> DEFINE h == [part \in Parts |-> IF Width(part) < m - 1 THEN g[part] ELSE QuickBody(g, part, compare)]
  <2>2. ASSUME NEW part \in Parts
        PROVE  /\ QuickBody(g, part, compare) \in A
               /\ Width(part) < m => QuickBody(h, part, compare) = QuickBody(g, part, compare)
    <3>1. CASE part[2] >= part[3]
      BY <1>1, <3>1 DEF QuickBody
    <3>2. CASE ~(part[2] >= part[3])
      <4> DEFINE p == Middle(part, compare)
                 first == <<p.a, part[2], p.store - 1>>
                 c == g[first]
                 second == <<c, p.store + 1, part[3]>>
      <4>1. /\ p.a \in A /\ p.store \in Int
            /\ \A d \in A : <<d, part[2], p.store - 1>> \in Parts /\ <<d, p.store + 1, part[3]>> \in Parts
            /\ (p.store - 1) - part[2] < Width(part) /\ part[3] - (p.store + 1) < Width(part)
        BY <3>2, PartsOfPart
      <4>2. QuickBody(g, part, compare) = g[second]
        BY <3>2 DEF QuickBody
      <4>3. QuickBody(h, part, compare) = h[<<h[first], p.store + 1, part[3]>>]
        BY <3>2 DEF QuickBody
      <4> HIDE DEF p, Parts, A
      <4>4. first \in Parts /\ Width(first) = (p.store - 1) - part[2]
        BY <4>1
      <4>5. c \in A
        BY <2>1, <4>4
      <4> HIDE DEF c
      <4>6. second \in Parts /\ Width(second) = part[3] - (p.store + 1)
        BY <4>1, <4>5
      <4> HIDE DEF first
      <4>7. QuickBody(g, part, compare) \in A
        BY <2>1, <4>2, <4>6
      <4>8. ASSUME Width(part) < m PROVE QuickBody(h, part, compare) = QuickBody(g, part, compare)
        <5>1. Width(part) \in Int
          BY <1>1
        <5>2. Width(first) < m - 1 /\ Width(second) < m - 1
          BY <1>1, <4>1, <4>4, <4>6, <4>8, <5>1
        <5>3. h[first] = c
          BY <4>4, <5>2 DEF c
        <5>4. h[second] = g[second]
          BY <4>6, <5>2
        <5> HIDE DEF h
        <5> QED
          BY <4>2, <4>3, <5>3, <5>4
      <4> QED
        BY <4>7, <4>8
    <3> QED
      BY <3>1, <3>2
  <2>3. h \in [Parts -> A]
    BY <2>1, <2>2
  <2>4. Upto(h, m)
    <3> SUFFICES ASSUME NEW part \in Parts, Width(part) < m
                 PROVE  h[part] = QuickBody(h, part, compare)
      OBVIOUS
    <3>1. QuickBody(h, part, compare) = QuickBody(g, part, compare)
      BY <2>2
    <3>2. h[part] = QuickBody(g, part, compare)
      <4> HIDE DEF Parts, Width
      <4> QED
        BY <2>1
    <3> QED
      BY <3>1, <3>2
  <2>5. m \in 0 .. n
    OBVIOUS
  <2> HIDE DEF h, Upto, Parts, A
  <2> QED
    BY <2>3, <2>4, <2>5
<1>4. n \in P
  <2> HIDE DEF P
  <2>1. \A m \in 0 .. n : m \in P
    BY <1>2, <1>3, EachTurn
  <2> QED
    BY <2>1
<1>5. PICK g \in [Parts -> A] : Upto(g, n)
  BY <1>4
<1> QED
  BY <1>1, <1>5 DEF QuickSortEnds

LEMMA QuickSorted ==
  ASSUME NEW D, NEW S, NEW T, NEW n \in Nat, 0 .. n - 1 \subseteq D,
         NEW compare, TotalOrder(compare, T), NEW g,
         \A part \in QuickParts(AllArrays(D, S), n) : g[part] = QuickBody(g, part, compare),
         NEW whole \in QuickParts(AllArrays(D, S), n)
  PROVE  /\ g[whole] \in AllArrays(D, S) /\ Shuffled(whole[1], g[whole], D, whole[2], whole[3])
         /\ (\A i \in whole[2] .. whole[3] : whole[1][i] \in T) => Ordered(compare, g[whole], whole[2], whole[3])
<1> DEFINE A == AllArrays(D, S)
           Parts == QuickParts(A, n)
           Width(part) == part[3] - part[2]
           Good(part) ==
             /\ g[part] \in A /\ Shuffled(part[1], g[part], D, part[2], part[3])
             /\ (\A i \in part[2] .. part[3] : part[1][i] \in T) => Ordered(compare, g[part], part[2], part[3])
           P == {m \in 0 .. n : \A part \in Parts : Width(part) < m => Good(part)}
<1>1. \A part \in Parts : part[1] \in A /\ part[2] \in Int /\ part[3] \in Int /\ Width(part) < n
  BY DEF QuickParts
<1>2. ASSUME NEW part \in Parts, part[2] >= part[3] PROVE Good(part)
  <2>1. g[part] = part[1]
    BY <1>2 DEF QuickBody
  <2>2. Shuffled(part[1], part[1], D, part[2], part[3])
    BY ShuffledNot
  <2>3. Ordered(compare, g[part], part[2], part[3])
    BY <1>1, <1>2 DEF Ordered
  <2> QED
    BY <1>1, <2>1, <2>2, <2>3
<1>3. 0 \in P
  <2>1. \A part \in Parts : Width(part) < 0 => part[2] >= part[3]
    BY <1>1
  <2> HIDE DEF Parts, Width, Good
  <2> QED
    BY <1>2, <2>1
<1>4. ASSUME NEW m \in 1 .. n, m - 1 \in P PROVE m \in P
  <2>1. ASSUME NEW part \in Parts, Width(part) < m PROVE Good(part)
    <3>1. CASE part[2] >= part[3]
      BY <1>2, <3>1
    <3>2. CASE ~(part[2] >= part[3])
      <4> DEFINE p == Middle(part, compare)
                 s == p.store
                 a == part[1]
                 left == part[2]
                 right == part[3]
                 b == p.a
                 first == <<b, left, s - 1>>
                 c == g[first]
                 second == <<c, s + 1, right>>
                 d == g[second]
      <4>1. /\ left \in Nat /\ right \in Nat /\ left < right /\ left .. right \subseteq D
            /\ b \in A /\ s \in left .. right
            /\ Shuffled(a, b, D, left, right)
            /\ \A i \in left .. (s - 1) : ~Greater(compare, b[i], b[s])
            /\ \A i \in (s + 1) .. right : Greater(compare, b[i], b[s])
            /\ \A e \in A : <<e, left, s - 1>> \in Parts /\ <<e, s + 1, right>> \in Parts
            /\ (s - 1) - left < right - left /\ right - (s + 1) < right - left
        BY <3>2, PartsOfPart
      <4>2. g[part] = d
        BY <3>2 DEF QuickBody
      <4>3. \A e \in Parts : Width(e) < m - 1 => Good(e)
        BY <1>4
      <4> HIDE DEF Parts, A, p, s, b, a, left, right
      <4> DEFINE w == right - left
      <4>12. w < m /\ w \in Int
        BY <2>1, <4>1 DEF left, right
      <4> HIDE DEF w
      <4>4. first \in Parts /\ Width(first) < m - 1
        <5>1. first \in Parts /\ first[3] - first[2] = (s - 1) - left
          BY <4>1
        <5>2. (s - 1) - left < m - 1
          BY <4>1, <4>12 DEF w
        <5> HIDE DEF first
        <5> QED
          BY <5>1, <5>2
      <4>5. Good(first)
        BY <4>3, <4>4
      <4>6. /\ c \in A /\ Shuffled(b, c, D, left, s - 1)
            /\ (\A i \in left .. (s - 1) : b[i] \in T) => Ordered(compare, c, left, s - 1)
        <5>1. first[1] = b /\ first[2] = left /\ first[3] = s - 1
          OBVIOUS
        <5> QED
          BY <4>5, <5>1
      <4> HIDE DEF c, first
      <4>7. second \in Parts /\ Width(second) < m - 1
        <5>1. second \in Parts /\ second[3] - second[2] = right - (s + 1)
          BY <4>1, <4>6
        <5>2. right - (s + 1) < m - 1
          BY <4>1, <4>12 DEF w
        <5> HIDE DEF second
        <5> QED
          BY <5>1, <5>2
      <4>8. Good(second)
        BY <4>3, <4>7
      <4>9. /\ d \in A /\ Shuffled(c, d, D, s + 1, right)
            /\ (\A i \in (s + 1) .. right : c[i] \in T) => Ordered(compare, d, s + 1, right)
        <5>1. second[1] = c /\ second[2] = s + 1 /\ second[3] = right
          OBVIOUS
        <5> QED
          BY <4>8, <5>1
      <4> HIDE DEF d, second
      <4>10. Shuffled(a, d, D, left, right)
        <5>1. left .. (s - 1) \subseteq left .. right /\ (s + 1) .. right \subseteq left .. right
          BY <4>1
        <5>2. Shuffled(a, c, D, left, right)
          BY <4>1, <4>6, <5>1, ShuffledTwice
        <5> QED
          BY <4>9, <5>1, <5>2, ShuffledTwice
      <4>11. (\A i \in left .. right : a[i] \in T) => Ordered(compare, d, left, right)
        BY <4>1, <4>6, <4>9, OrderedAroundPivot
      <4> QED
        BY <4>2, <4>9, <4>10, <4>11 DEF a, left, right
    <3> QED
      BY <3>1, <3>2
  <2>2. m \in 0 .. n
    OBVIOUS
  <2> HIDE DEF Parts, Width, Good
  <2> QED
    BY <2>1, <2>2
<1>5. n \in P
  <2> HIDE DEF P
  <2>1. \A m \in 0 .. n : m \in P
    BY <1>3, <1>4, EachTurn
  <2> QED
    BY <2>1
<1> QED
  BY <1>1, <1>5

SortedFrom(v, w, D, n, compare) ==
  /\ w = [array |-> w.array, items |-> n, growthRate |-> v.growthRate]
  /\ w.array \in AllArrays(D, Range(v.array)) /\ Shuffled(v.array, w.array, D, 0, n - 1)
  /\ Ordered(compare, w.array, 0, n - 1)

LEMMA QuickSortSorts ==
  ASSUME NEW D, NEW T, NEW n \in Nat, 0 .. n - 1 \subseteq D,
         NEW compare, TotalOrder(compare, T),
         NEW v, v.array \in Arrays(D, Range(v.array), T, n), v.items = n,
         v = [array |-> v.array, items |-> v.items, growthRate |-> v.growthRate]
  PROVE  SortedFrom(v, VectorQuickSort(v, compare), D, n, compare)
<1> DEFINE a == v.array
           S == Range(v.array)
           A == AllArrays(D, S)
           Parts == QuickParts(A, n)
           Cur(g) == g = [part \in [DOMAIN v.array -> Range(v.array)] \X (0 .. v.items) \X ((-1) .. (v.items - 1)) |->
                            LET left == part[2]
                                right == part[3]
                                p == Partition(part[1], left, right, (left + right) \div 2, compare)
                            IN IF left >= right THEN part[1]
                               ELSE g[<<g[<<p.a, left, p.store - 1>>], p.store + 1, right>>]]
           cur == CHOOSE g : Cur(g)
           w == VectorQuickSort(v, compare)
           whole == <<a, 0, n - 1>>
<1>1. a \in A /\ \A k \in 0 .. n - 1 : a[k] \in T
  BY DEF Arrays, AllArrays
<1>2. \A g : Cur(g) <=> g = [part \in Parts |-> QuickBody(g, part, compare)]
  <2>1. Parts = [DOMAIN v.array -> Range(v.array)] \X (0 .. v.items) \X ((-1) .. (v.items - 1))
    BY <1>1 DEF QuickParts, AllArrays
  <2> HIDE DEF Parts, A, S
  <2> QED
    BY <2>1, Zenon DEF QuickBody, Middle
<1> HIDE DEF S
<1>3. \E g : Cur(g)
  <2>1. PICK g \in [Parts -> A] : \A part \in Parts : g[part] = QuickBody(g, part, compare)
    <3>1. QuickSortEnds(AllArrays(D, S), n, compare)
      BY QuickSortRuns
    <3> QED
      BY <3>1 DEF QuickSortEnds
  <2>2. g = [part \in Parts |-> QuickBody(g, part, compare)]
    <3> HIDE DEF Parts, A
    <3> QED
      BY <2>1
  <2> HIDE DEF Cur
  <2> QED
    BY <1>2, <2>2
<1>4. Cur(cur)
  <2> HIDE DEF Cur
  <2> QED
    BY <1>3, Zenon
<1>5. w = [v EXCEPT !.array = cur[<<v.array, 0, v.items - 1>>]]
  BY Zenon DEF VectorQuickSort
<1> HIDE DEF cur
<1>6. \A part \in Parts : cur[part] = QuickBody(cur, part, compare)
  <2>1. cur = [part \in Parts |-> QuickBody(cur, part, compare)]
    BY <1>2, <1>4, Zenon
  <2> HIDE DEF Parts
  <2> QED
    BY <2>1
<1> HIDE DEF Cur
<1>7. whole \in Parts /\ whole[1] = a /\ whole[2] = 0 /\ whole[3] = n - 1
  <2>1. 0 \in 0 .. n /\ n - 1 \in (-1) .. (n - 1)
    OBVIOUS
  <2> HIDE DEF A
  <2> QED
    BY <1>1, <2>1 DEF QuickParts
<1> DEFINE b == cur[whole]
<1>8. /\ b \in A /\ Shuffled(whole[1], b, D, whole[2], whole[3])
      /\ (\A i \in whole[2] .. whole[3] : whole[1][i] \in T) => Ordered(compare, b, whole[2], whole[3])
  <2> HIDE DEF whole
  <2>1. /\ whole \in QuickParts(AllArrays(D, S), n)
        /\ \A part \in QuickParts(AllArrays(D, S), n) : cur[part] = QuickBody(cur, part, compare)
    BY <1>6, <1>7
  <2> HIDE DEF A, Parts
  <2>2. /\ cur[whole] \in AllArrays(D, S) /\ Shuffled(whole[1], cur[whole], D, whole[2], whole[3])
        /\ (\A i \in whole[2] .. whole[3] : whole[1][i] \in T) =>
              Ordered(compare, cur[whole], whole[2], whole[3])
    BY <2>1, QuickSorted
  <2> QED
    BY <2>2 DEF A
<1> HIDE DEF whole
<1>9. w = [v EXCEPT !.array = b]
  BY <1>5 DEF whole
<1> HIDE DEF b, w
<1>10. w = [array |-> b, items |-> n, growthRate |-> v.growthRate]
  BY <1>9, VectorUpdated
<1> QED
  BY <1>1, <1>7, <1>8, <1>10 DEF w, S, SortedFrom

-----------------------------------------------------------------------------
(* The compare functions.                                                  *)

Process == [pid : Int, value : Int, nice : Int]

Half == LongModulus \div 2

(* What the values of a column may be: their differences fit into a long,  *)
(* but those of the rates, which are of another type, a state is the code   *)
(* of a character, an I/O priority has three bits of data.                  *)
InRange(column, p, q) ==
  /\ p \in Process /\ q \in Process
  /\ {p.pid - q.pid, q.pid - p.pid} \subseteq (-Half)..(Half - 1)
  /\ column \notin Rate => {p.value - q.value, q.value - p.value} \subseteq (-Half)..(Half - 1)
  /\ column = "STATE" => {p.value, q.value} \subseteq 0..255 /\ Half > 256
  /\ column = "IO_PRIORITY" =>
       /\ {p.value, q.value} \subseteq 0..31 /\ {p.nice, q.nice} \subseteq (-20)..19
       /\ Half > 32

LEMMA ModSmall ==
  ASSUME NEW a \in Nat, NEW b \in Nat \ {0}, a < b
  PROVE  a % b = a
BY Z3

LEMMA HalfEven ==
  ASSUME NEW m \in Nat, m % 2 = 0
  PROVE  /\ m \div 2 \in Nat
         /\ m = 2 * (m \div 2)
BY Z3

LEMMA LongFits ==
  ASSUME NEW n \in Int, -(LongModulus \div 2) <= n, n < LongModulus \div 2
  PROVE  Long(n) = n
<1>1. LongModulus \in Nat \ {0} /\ LongModulus % 2 = 0
  BY CompareAssumption
<1>2. LongModulus \div 2 \in Nat /\ LongModulus = 2 * (LongModulus \div 2)
  BY <1>1, HalfEven
<1> DEFINE h == LongModulus \div 2
<1>3. n + h \in Nat /\ n + h < LongModulus
  BY <1>2
<1>4. (n + h) % LongModulus = n + h
  BY <1>1, <1>3, ModSmall
<1> QED
  BY <1>2, <1>4 DEF Long

LEMMA LongOf ==
  ASSUME NEW n \in (-Half)..(Half - 1)
  PROVE  Long(n) = n
<1>1. LongModulus \in Nat /\ LongModulus % 2 = 0
  BY CompareAssumption
<1>2. Half \in Nat
  BY <1>1, HalfEven DEF Half
<1> QED  BY <1>2, LongFits DEF Half

LEMMA HalfInt == Half \in Nat /\ LongModulus = 2 * Half
BY CompareAssumption, HalfEven DEF Half

LEMMA ModPlus ==
  ASSUME NEW a \in Int, NEW b \in Nat \ {0}, -b <= a, a < 0
  PROVE  a % b = a + b
BY Z3

LEMMA ModMinus ==
  ASSUME NEW a \in Nat, NEW b \in Nat \ {0}, b <= a, a < 2 * b
  PROVE  a % b = a - b
BY Z3

LEMMA LongOfUInt ==
  ASSUME LongModulus = UIntModulus, NEW n \in (-Half)..(Half - 1)
  PROVE  Long(UInt(n)) = n
<1>1. /\ UIntModulus \in Nat \ {0} /\ UIntModulus = 2 * Half /\ Half \in Nat
      /\ n \in Int /\ -Half <= n /\ n < Half
  BY HalfInt, CompareAssumption
<1>2. CASE n >= 0
  <2>1. UInt(n) = n
    BY <1>1, <1>2, ModSmall DEF UInt
  <2> QED  BY <2>1, LongOf
<1>3. CASE n < 0
  <2>1. UInt(n) = n + UIntModulus
    BY <1>1, <1>3, ModPlus DEF UInt
  <2> DEFINE k == n + UIntModulus + Half
  <2>2. k \in Nat /\ UIntModulus <= k /\ k < 2 * UIntModulus
    BY <1>1, <1>3
  <2> HIDE DEF k
  <2>3. k % UIntModulus = k - UIntModulus
    BY <1>1, <2>2, ModMinus
  <2>4. Long(n + UIntModulus) = (k % UIntModulus) - Half
    BY DEF Long, Half, k
  <2>5. k - UIntModulus = n + Half
    BY <1>1 DEF k
  <2>6. Long(UInt(n)) = (n + Half) - Half
    BY <2>1, <2>3, <2>4, <2>5
  <2> QED  BY <1>1, <2>6
<1> QED  BY <1>1, <1>2, <1>3

LEMMA UIntPositive ==
  ASSUME LongModulus >= 2 * UIntModulus,
         NEW a \in 0..(UIntModulus - 1), NEW b \in 0..(UIntModulus - 1), a # b
  PROVE  Long(UInt(a - b)) > 0
<1>1. /\ UIntModulus \in Nat \ {0} /\ a \in Int /\ b \in Int
      /\ Half \in Nat /\ UIntModulus <= Half
  BY HalfInt, CompareAssumption
<1>2. UInt(a - b) \in 1..(UIntModulus - 1)
  <2>1. CASE a - b > 0
    BY <1>1, <2>1, ModSmall DEF UInt
  <2>2. CASE a - b < 0
    BY <1>1, <2>2, ModPlus DEF UInt
  <2> QED  BY <1>1, <2>1, <2>2
<1>3. Long(UInt(a - b)) = UInt(a - b)
  BY <1>1, <1>2, LongOf
<1> QED  BY <1>1, <1>2, <1>3

LEMMA SignPositive ==
  ASSUME NEW n \in Int
  PROVE  Sign(n) > 0 <=> n > 0
BY DEF Sign

LEMMA DivPositive ==
  ASSUME NEW n \in Nat, NEW d \in Nat \ {0}
  PROVE  n \div d \in Nat /\ (n \div d > 0 <=> n >= d)
BY Z3

(* What is behind the point is cut off towards 0: only a whole byte more   *)
(* is more.                                                                *)
LEMMA CutOffPositive ==
  ASSUME NEW n \in Int
  PROVE  CutOff(n) \in Int /\ (CutOff(n) > 0 <=> n >= RateUnit)
<1>1. RateUnit \in Nat \ {0}
  BY CompareAssumption
<1>2. CASE n >= 0
  <2>1. n \in Nat
    BY <1>2
  <2>2. CutOff(n) = n \div RateUnit
    BY <1>2 DEF CutOff
  <2> QED  BY <1>1, <2>1, <2>2, DivPositive
<1>3. CASE n < 0
  <2>1. -n \in Nat
    BY <1>3
  <2>2. CutOff(n) = -((-n) \div RateUnit)
    BY <1>3 DEF CutOff
  <2>3. (-n) \div RateUnit \in Nat
    BY <1>1, <2>1, DivPositive
  <2> QED  BY <1>1, <1>3, <2>2, <2>3
<1> QED  BY <1>2, <1>3

LEMMA StateOrder ==
  ASSUME NEW x \in 0..255, NEW y \in 0..255
  PROVE  /\ SortState(x) - SortState(y) \in (-256)..256
         /\ SortState(x) - SortState(y) > 0 <=>
              \/ y # Idle /\ x = Idle
              \/ y # Idle /\ y < x
BY DEF SortState, Idle

LEMMA EffectiveInRange ==
  ASSUME NEW p \in Process, p.value \in 0..31, p.nice \in (-20)..19
  PROVE  EffectiveIoPriority(p) \in 0..31
<1>1. p.value \in Int /\ p.nice \in Int
  BY DEF Process
<1>2. (p.nice + 20) \div 5 \in 0..7
  BY <1>1, Z3
<1> QED  BY <1>1, <1>2 DEF EffectiveIoPriority, IoPriority, IoNone, IoBestEffort

(* For every column but those of unsigned numbers: the sort is told to     *)
(* exchange two processes exactly if the second belongs above the first.   *)
THEOREM CompareMeansOrder ==
  ASSUME NEW column \in Columns \ Unsigned, NEW p, NEW q, InRange(column, p, q)
  PROVE  CompareUp(column, p, q) > 0 <=> BelongsAboveUp(column, q, p)
<1> USE DEF Float, LargestFirst, SmallestFirst, JailColumns, ZoneColumns,
        UnsignedSmallestFirst, UnsignedLargestFirst, Counted, Rate, Text
<1>1. /\ p \in Process /\ q \in Process
      /\ p.pid \in Int /\ q.pid \in Int /\ p.value \in Int /\ q.value \in Int
  BY DEF InRange, Process
<1>2. /\ Long(p.pid - q.pid) = p.pid - q.pid
      /\ column \notin Rate => /\ Long(p.value - q.value) = p.value - q.value
                              /\ Long(q.value - p.value) = q.value - p.value
  BY LongOf DEF InRange
<1>3. CASE column \in Float
  BY <1>1, <1>3 DEF CompareUp, BelongsAboveUp, CompareFloat
<1>4. CASE column \in LargestFirst
  BY <1>1, <1>2, <1>4 DEF CompareUp, BelongsAboveUp
<1>5. CASE column \in SmallestFirst
  BY <1>1, <1>2, <1>5 DEF CompareUp, BelongsAboveUp
<1>6. CASE column \in Counted
  BY <1>1, <1>2, <1>6, SignPositive DEF CompareUp, BelongsAboveUp
<1>7. CASE column \in Rate
  <2>1. CompareUp(column, p, q) = Sign(CutOff(q.value - p.value))
    BY <1>7 DEF CompareUp
  <2>2. BelongsAboveUp(column, q, p) <=> q.value >= p.value + RateUnit
    BY <1>7 DEF BelongsAboveUp
  <2>3. CutOff(q.value - p.value) \in Int
    BY <1>1, CutOffPositive
  <2>4. CompareUp(column, p, q) > 0 <=> q.value - p.value >= RateUnit
    BY <1>1, <2>1, <2>3, CutOffPositive, SignPositive
  <2> QED  BY <1>1, <2>2, <2>4, CompareAssumption
<1>8. CASE column \in Text
  <2>1. TextOf(column, p.value) \in Int /\ TextOf(column, q.value) \in Int
    BY <1>1 DEF TextOf, NoText, EmptyText, GlobalText
  <2>2. CompareUp(column, p, q) = Sign(TextOf(column, p.value) - TextOf(column, q.value))
    BY <1>8 DEF CompareUp, CompareText
  <2>3. BelongsAboveUp(column, q, p) <=> TextOf(column, q.value) < TextOf(column, p.value)
    BY <1>8 DEF BelongsAboveUp
  <2> QED  BY <2>1, <2>2, <2>3, SignPositive
<1>9. CASE column = "STARTTIME"
  BY <1>1, <1>2, <1>9 DEF CompareUp, BelongsAboveUp, CompareStart
<1>10. CASE column = "STATE"
  <2>1. p.value \in 0..255 /\ q.value \in 0..255 /\ Half > 256
    BY <1>10 DEF InRange
  <2>2. SortState(p.value) - SortState(q.value) \in (-256)..256
    BY <2>1, StateOrder
  <2>3. SortState(p.value) - SortState(q.value) \in (-Half)..(Half - 1)
    BY <2>1, <2>2, HalfInt
  <2>4. CompareUp(column, p, q) = SortState(p.value) - SortState(q.value)
    BY <1>10, <2>3, LongOf DEF CompareUp, CompareState
  <2>5. BelongsAboveUp(column, q, p) <=>
          \/ q.value # Idle /\ p.value = Idle
          \/ q.value # Idle /\ q.value < p.value
    <3>1. column \notin Float \cup LargestFirst \cup UnsignedLargestFirst \cup Counted
      BY <1>10
    <3>2. column \notin SmallestFirst \cup UnsignedSmallestFirst \cup Rate \cup Text
      BY <1>10
    <3> QED  BY <1>10, <3>1, <3>2 DEF BelongsAboveUp, Idle
  <2>6. SortState(p.value) - SortState(q.value) > 0 <=>
          \/ q.value # Idle /\ p.value = Idle
          \/ q.value # Idle /\ q.value < p.value
    BY <2>1, StateOrder
  <2> QED  BY <2>4, <2>5, <2>6
<1>11. CASE column = "IO_PRIORITY"
  <2>1. /\ p.value \in 0..31 /\ q.value \in 0..31 /\ Half > 32
        /\ p.nice \in (-20)..19 /\ q.nice \in (-20)..19
    BY <1>11 DEF InRange
  <2>2. EffectiveIoPriority(p) \in 0..31 /\ EffectiveIoPriority(q) \in 0..31
    BY <1>1, <2>1, EffectiveInRange
  <2>3. EffectiveIoPriority(p) - EffectiveIoPriority(q) \in (-Half)..(Half - 1)
    BY <2>1, <2>2, HalfInt
  <2>4. CompareUp(column, p, q) = EffectiveIoPriority(p) - EffectiveIoPriority(q)
    BY <1>11, <2>3, LongOf DEF CompareUp
  <2>5. BelongsAboveUp(column, q, p) <=> EffectiveIoPriority(q) < EffectiveIoPriority(p)
    BY <1>11 DEF BelongsAboveUp
  <2> QED  BY <2>2, <2>4, <2>5
<1> QED
  BY <1>3, <1>4, <1>5, <1>6, <1>7, <1>8, <1>9, <1>10, <1>11 DEF Columns, Unsigned

(* Where a long is no wider than an unsigned int, the unsigned columns are *)
(* compared in the same way: their differences wrap to the right signs.    *)
THEOREM UnsignedOnNarrowLong ==
  ASSUME LongModulus = UIntModulus,
         NEW column \in Unsigned, NEW p, NEW q, InRange(column, p, q)
  PROVE  CompareUp(column, p, q) > 0 <=> BelongsAboveUp(column, q, p)
<1> USE DEF Float, LargestFirst, SmallestFirst, JailColumns, ZoneColumns,
        UnsignedSmallestFirst, UnsignedLargestFirst, Counted, Rate, Text
<1>1. p.value \in Int /\ q.value \in Int
  BY DEF InRange, Process
<1>2. /\ p.value - q.value \in (-Half)..(Half - 1)
      /\ q.value - p.value \in (-Half)..(Half - 1)
  BY DEF InRange, Unsigned
<1>3. \A n \in (-Half)..(Half - 1) : Long(UInt(n)) = n
  BY LongOfUInt
<1>4. CASE column \in UnsignedSmallestFirst
  <2>1. CompareUp(column, p, q) = p.value - q.value
    BY <1>2, <1>3, <1>4 DEF CompareUp
  <2>2. BelongsAboveUp(column, q, p) <=> q.value < p.value
    BY <1>4 DEF BelongsAboveUp
  <2> QED  BY <1>1, <2>1, <2>2
<1>5. CASE column \in UnsignedLargestFirst
  <2>1. CompareUp(column, p, q) = q.value - p.value
    BY <1>2, <1>3, <1>5 DEF CompareUp
  <2>2. BelongsAboveUp(column, q, p) <=> q.value > p.value
    BY <1>5 DEF BelongsAboveUp
  <2> QED  BY <1>1, <2>1, <2>2
<1> QED  BY <1>4, <1>5 DEF Unsigned

(* Where a long is at least twice as wide, any two processes that differ   *)
(* in an unsigned column are exchanged, whichever comes first and in both  *)
(* orders: every sort turns the list round.                                *)
THEOREM UnsignedOnWideLong ==
  ASSUME LongModulus >= 2 * UIntModulus,
         NEW column \in Unsigned, NEW direction \in {1, -1},
         NEW p \in Process, NEW q \in Process,
         p.value \in 0..(UIntModulus - 1), q.value \in 0..(UIntModulus - 1), p.value # q.value
  PROVE  Compare(column, direction, p, q) > 0
<1> USE DEF Float, LargestFirst, SmallestFirst, JailColumns, ZoneColumns,
        UnsignedSmallestFirst, UnsignedLargestFirst, Counted, Rate, Text
<1>1. p.value \in Int /\ q.value \in Int /\ UIntModulus \in Nat /\ UIntModulus >= 2
  BY CompareAssumption DEF Process
<1>2. Long(UInt(p.value - q.value)) > 0 /\ Long(UInt(q.value - p.value)) > 0
  BY <1>1, UIntPositive
<1>3. CompareUp(column, p, q) > 0 /\ CompareUp(column, q, p) > 0
  BY <1>2 DEF CompareUp, Unsigned
<1> QED  BY <1>3 DEF Compare

-----------------------------------------------------------------------------
(* The order that the list is meant to be in.                              *)

LEMMA HalfIsLarge ==
  /\ Half > 256
  /\ \A p, q \in OrderPid : p \in Nat /\ q \in Nat /\ p - q \in (-Half)..(Half - 1)
<1>1. Half \in Nat /\ LongModulus = 2 * Half
  BY HalfInt
<1>2. LongModulus > 512 /\ \A p \in OrderPid : p \in Nat /\ 2 * p < LongModulus
  BY OrderAssumption
<1>3. \A p \in OrderPid : p \in Nat /\ p < Half
  BY <1>1, <1>2
<1> QED
  BY <1>1, <1>2, <1>3

(* What a process may have in a column. *)
RowsOf(column) == [pid : OrderPid, value : ValuesOf(column), nice : NicesOf(column)]

LEMMA ValuesAreSmall ==
  ASSUME NEW column \in Columns
  PROVE  /\ ValuesOf(column) \subseteq Int /\ NicesOf(column) \subseteq 0..19
         /\ column \notin Rate => ValuesOf(column) \subseteq (-1)..82
         /\ column = "STATE" => ValuesOf(column) \subseteq 0..255
         /\ column = "IO_PRIORITY" => ValuesOf(column) \subseteq 0..31
<1>1. RateUnit \in Int
  BY CompareAssumption
<1>2. NicesOf(column) \subseteq 0..19
  BY DEF NicesOf
<1>3. CASE column = "IO_PRIORITY"
  <2>1. ValuesOf(column) = {0, 12, 20, 21}
    BY <1>3 DEF ValuesOf, IoPriority, Text, Rate
  <2> QED
    BY <1>2, <1>3, <2>1 DEF Rate
<1>4. CASE column = "STATE"
  <2>1. ValuesOf(column) = {68, 73, 82}
    BY <1>4 DEF ValuesOf, Idle, Text, Rate
  <2> QED
    BY <1>2, <1>4, <2>1 DEF Rate
<1>5. CASE column \notin {"IO_PRIORITY", "STATE"} /\ column \in Text
  <2>1. ValuesOf(column) = {-1, 0, 1, 3} /\ column \notin Rate
    BY <1>5 DEF ValuesOf, NoText, Text, Rate
  <2> QED
    BY <1>2, <1>5, <2>1
<1>6. CASE column \notin {"IO_PRIORITY", "STATE"} \cup Text /\ column \in Rate
  <2>1. ValuesOf(column) = {-RateUnit, 0, 1, RateUnit, 2 * RateUnit - 1}
    BY <1>6 DEF ValuesOf, Text, Rate
  <2> QED
    BY <1>1, <1>2, <1>6, <2>1
<1>7. CASE column \notin {"IO_PRIORITY", "STATE"} \cup Text \cup Rate
  <2>1. ValuesOf(column) \in {{-1, 0, 1}, {0, 1, 3}}
    BY <1>7 DEF ValuesOf
  <2> QED
    BY <1>2, <1>7, <2>1
<1> QED
  BY <1>3, <1>4, <1>5, <1>6, <1>7

LEMMA RowsInRange ==
  ASSUME NEW column \in Columns, NEW p \in RowsOf(column), NEW q \in RowsOf(column)
  PROVE  InRange(column, p, q)
<1>1. /\ p.pid \in OrderPid /\ q.pid \in OrderPid
      /\ p.value \in ValuesOf(column) /\ q.value \in ValuesOf(column)
      /\ p.nice \in NicesOf(column) /\ q.nice \in NicesOf(column)
  BY DEF RowsOf
<1>2. /\ Half \in Nat /\ Half > 256
      /\ p.pid \in Nat /\ q.pid \in Nat
      /\ p.pid - q.pid \in (-Half)..(Half - 1) /\ q.pid - p.pid \in (-Half)..(Half - 1)
  BY <1>1, HalfIsLarge, HalfInt
<1>3. p \in Process /\ q \in Process
  <2>1. p.value \in Int /\ q.value \in Int /\ p.nice \in Int /\ q.nice \in Int
    BY <1>1, ValuesAreSmall
  <2> QED
    BY <1>2, <2>1 DEF Process, RowsOf
<1>4. column \notin Rate => /\ p.value - q.value \in (-Half)..(Half - 1)
                           /\ q.value - p.value \in (-Half)..(Half - 1)
  <2>1. column \notin Rate => p.value \in (-1)..82 /\ q.value \in (-1)..82
    BY <1>1, ValuesAreSmall
  <2>2. \A x, y \in (-1)..82 : x - y \in (-256)..255
    OBVIOUS
  <2>3. (-256)..255 \subseteq (-Half)..(Half - 1)
    BY <1>2
  <2> QED
    BY <2>1, <2>2, <2>3
<1>5. column = "STATE" => {p.value, q.value} \subseteq 0..255
  BY <1>1, ValuesAreSmall
<1>6. column = "IO_PRIORITY" => {p.value, q.value} \subseteq 0..31 /\ {p.nice, q.nice} \subseteq (-20)..19
  BY <1>1, ValuesAreSmall
<1> QED
  BY <1>2, <1>3, <1>4, <1>5, <1>6 DEF InRange

(* Where an unsigned difference keeps its sign, all columns are compared    *)
(* right, and elsewhere those of signed numbers and of texts.              *)
ComparedRight == IF LongModulus = UIntModulus THEN Columns ELSE Columns \ Unsigned

LEMMA CompareIsOrder ==
  ASSUME NEW column \in ComparedRight, NEW direction \in {1, -1},
         NEW p \in RowsOf(column), NEW q \in RowsOf(column)
  PROVE  Compare(column, direction, p, q) > 0 <=> BelongsAbove(column, direction, q, p)
<1>1. column \in Columns
  BY DEF ComparedRight
<1>2. InRange(column, p, q) /\ InRange(column, q, p)
  BY <1>1, RowsInRange
<1>3. /\ CompareUp(column, p, q) > 0 <=> BelongsAboveUp(column, q, p)
      /\ CompareUp(column, q, p) > 0 <=> BelongsAboveUp(column, p, q)
  <2>1. CASE column \in Unsigned
    <3>1. LongModulus = UIntModulus
      BY <2>1 DEF ComparedRight
    <3> QED
      BY <1>2, <2>1, <3>1, UnsignedOnNarrowLong
  <2>2. CASE column \notin Unsigned
    BY <1>1, <1>2, <2>2, CompareMeansOrder
  <2> QED
    BY <2>1, <2>2
<1>4. CASE direction = 1
  BY <1>3, <1>4 DEF Compare, BelongsAbove
<1>5. CASE direction # 1
  BY <1>3, <1>5 DEF Compare, BelongsAbove
<1> QED
  BY <1>4, <1>5

(* Two processes do not both belong above each other, and unless the column *)
(* is a rate, what belongs above none of two belongs above none between.   *)
LEMMA OrderIsWeak ==
  ASSUME NEW column \in Columns
  PROVE  /\ \A p, q \in RowsOf(column) :
              BelongsAboveUp(column, p, q) => ~BelongsAboveUp(column, q, p)
         /\ column \notin Rate => \A p, q, r \in RowsOf(column) :
              ~BelongsAboveUp(column, q, p) /\ ~BelongsAboveUp(column, r, q)
                => ~BelongsAboveUp(column, r, p)
<1> DEFINE R == RowsOf(column)
           Most == Float \cup LargestFirst \cup UnsignedLargestFirst \cup Counted
           Least == SmallestFirst \cup UnsignedSmallestFirst
<1>1. \A p \in R : /\ p.pid \in Nat /\ p.value \in Int
                   /\ TextOf(column, p.value) \in Int
                   /\ column = "IO_PRIORITY" => EffectiveIoPriority(p) \in Int
  <2> SUFFICES ASSUME NEW p \in R
               PROVE  /\ p.pid \in Nat /\ p.value \in Int
                      /\ TextOf(column, p.value) \in Int
                      /\ column = "IO_PRIORITY" => EffectiveIoPriority(p) \in Int
    OBVIOUS
  <2>1. InRange(column, p, p) /\ p.pid \in Nat /\ p \in Process
    BY RowsInRange, HalfIsLarge DEF RowsOf, InRange
  <2>2. p.value \in Int
    BY <2>1 DEF Process
  <2>3. TextOf(column, p.value) \in Int
    BY <2>2 DEF TextOf, EmptyText, GlobalText
  <2>4. column = "IO_PRIORITY" => EffectiveIoPriority(p) \in 0..31
    BY <2>1, EffectiveInRange DEF InRange
  <2> QED
    BY <2>1, <2>2, <2>3, <2>4
<1> HIDE DEF R
<1> USE DEF Float, LargestFirst, SmallestFirst, JailColumns, ZoneColumns,
        UnsignedSmallestFirst, UnsignedLargestFirst, Counted, Rate, Text
<1>2. RateUnit \in Nat \ {0}
  BY CompareAssumption
<1>3. CASE column \in Most
  <2>1. \A p, q : BelongsAboveUp(column, p, q) <=> p.value > q.value
    BY <1>3 DEF BelongsAboveUp
  <2> HIDE DEF Most
  <2> QED
    BY <1>1, <2>1 DEF R
<1>4. CASE column \in Least
  <2>1. \A p, q : BelongsAboveUp(column, p, q) <=> p.value < q.value
    BY <1>4 DEF BelongsAboveUp
  <2> HIDE DEF Least
  <2> QED
    BY <1>1, <2>1 DEF R
<1>5. CASE column \in Rate
  <2>1. \A p, q : BelongsAboveUp(column, p, q) <=> p.value >= q.value + RateUnit
    BY <1>5 DEF BelongsAboveUp
  <2> QED
    BY <1>1, <1>2, <1>5, <2>1 DEF R
<1>6. CASE column \in Text
  <2>1. \A p, q : BelongsAboveUp(column, p, q) <=> TextOf(column, p.value) < TextOf(column, q.value)
    BY <1>6 DEF BelongsAboveUp
  <2> QED
    BY <1>1, <2>1 DEF R
<1>7. CASE column = "STARTTIME"
  <2>1. \A p, q : BelongsAboveUp(column, p, q)
                    <=> p.value < q.value \/ (p.value = q.value /\ p.pid < q.pid)
    BY <1>7 DEF BelongsAboveUp
  <2> QED
    BY <1>1, <2>1 DEF R
<1>8. CASE column = "STATE"
  <2>1. \A p, q : BelongsAboveUp(column, p, q)
                    <=> \/ p.value # Idle /\ q.value = Idle
                        \/ p.value # Idle /\ p.value < q.value
    BY <1>8 DEF BelongsAboveUp
  <2> QED
    BY <1>1, <2>1 DEF R, Idle
<1>9. CASE column = "IO_PRIORITY"
  <2>1. \A p, q : BelongsAboveUp(column, p, q) <=> EffectiveIoPriority(p) < EffectiveIoPriority(q)
    BY <1>9 DEF BelongsAboveUp
  <2> QED
    BY <1>1, <1>9, <2>1 DEF R
<1> QED
  BY <1>3, <1>4, <1>5, <1>6, <1>7, <1>8, <1>9 DEF Columns, Unsigned

-----------------------------------------------------------------------------
(* The list.                                                               *)

\* Without its i-th element a sequence has the others, in their order.
LEMMA RemoveAtFacts ==
  ASSUME NEW S, NEW s \in Seq(S), NEW i \in 1..Len(s)
  PROVE  /\ RemoveAt(s, i) \in Seq(S)
         /\ Len(RemoveAt(s, i)) = Len(s) - 1
         /\ \A j \in 1..(Len(s) - 1) : RemoveAt(s, i)[j] = IF j < i THEN s[j] ELSE s[j + 1]
<1> DEFINE l == SubSeq(s, 1, i - 1)
           r == SubSeq(s, i + 1, Len(s))
<1>1. Len(s) \in Nat /\ \A j \in 1..Len(s) : s[j] \in S
  OBVIOUS
<1>2. l \in Seq(S) /\ Len(l) = i - 1 /\ \A j \in 1..(i - 1) : l[j] = s[j]
  <2>1. \A j \in 1..(i - 1) : s[j] \in S
    BY <1>1
  <2> QED
    BY <1>1, <2>1, SubSeqProperties
<1>3. r \in Seq(S) /\ Len(r) = Len(s) - i /\ \A j \in 1..(Len(s) - i) : r[j] = s[i + j]
  <2>1. \A j \in (i + 1)..Len(s) : s[j] \in S
    BY <1>1
  <2> QED
    BY <1>1, <2>1, SubSeqProperties
<1> HIDE DEF l, r
<1>4. /\ l \o r \in Seq(S) /\ Len(l \o r) = Len(l) + Len(r)
      /\ \A j \in 1..(Len(l) + Len(r)) : (l \o r)[j] = IF j <= Len(l) THEN l[j] ELSE r[j - Len(l)]
  BY <1>2, <1>3, ConcatProperties
<1>5. RemoveAt(s, i) = l \o r
  BY DEF RemoveAt, l, r
<1>6. ASSUME NEW j \in 1..(Len(s) - 1)
      PROVE  RemoveAt(s, i)[j] = IF j < i THEN s[j] ELSE s[j + 1]
  <2>1. CASE j < i
    BY <1>1, <1>2, <1>3, <1>4, <1>5, <2>1
  <2>2. CASE j >= i
    <3>1. j - (i - 1) \in 1..(Len(s) - i) /\ i + (j - (i - 1)) = j + 1
      BY <1>1, <2>2
    <3>2. RemoveAt(s, i)[j] = r[j - (i - 1)]
      BY <1>1, <1>2, <1>3, <1>4, <1>5, <2>2
    <3> QED
      BY <1>3, <2>2, <3>1, <3>2
  <2> QED
    BY <2>1, <2>2
<1> QED
  BY <1>1, <1>2, <1>3, <1>4, <1>5, <1>6

(* A process is in the list once, with a value of the column it is sorted   *)
(* by, which is one that can be on the screen or has a key.                *)
OrderInv ==
  /\ listed \in Seq(RowsOf(sortKey))
  /\ \A i, j \in DOMAIN listed : listed[i].pid = listed[j].pid => i = j
  /\ sortKey \in Columns /\ sortDirection \in {1, -1} /\ asTree \in BOOLEAN
  /\ fields \in FieldLists

ListInv == OrderInv /\ sortKey \in ComparedRight

(* The columns on the screen are compared right. *)
FieldsComparedRight == \A f \in FieldLists : \A i \in DOMAIN f : f[i] \in ComparedRight

LEMMA KeysComparedRight ==
  /\ KeyColumns \subseteq ComparedRight /\ "COMM" \in ComparedRight
  /\ ComparedRight \subseteq Columns
BY DEF KeyColumns, ComparedRight, Columns, Unsigned, Float, LargestFirst, SmallestFirst,
       JailColumns, ZoneColumns, UnsignedSmallestFirst, UnsignedLargestFirst, Counted, Rate, Text

LEMMA OrderInitInv ==
  ASSUME FieldsComparedRight, OrderInit
  PROVE  ListInv
<1>1. sortKey \in ComparedRight
  BY DEF OrderInit, FieldsComparedRight, Range
<1>2. listed = << >> /\ sortDirection \in {1, -1} /\ asTree \in BOOLEAN /\ fields \in FieldLists
  BY DEF OrderInit
<1> QED
  BY <1>1, <1>2, KeysComparedRight DEF ListInv, OrderInv

\* Any reading of a process is a row.
LEMMA ReadingIsRow ==
  ASSUME NEW p \in OrderPid, NEW column, NEW r \in ReadingsOf(p, column)
  PROVE  r \in RowsOf(column) /\ r.pid = p
BY DEF ReadingsOf, RowsOf

LEMMA AddKeepsInv ==
  ASSUME OrderInv, NEW p \in OrderPid, AddProcess(p)
  PROVE  OrderInv'
<1>1. PICK r \in ReadingsOf(p, sortKey) : listed' = Append(listed, r)
  BY DEF AddProcess
<1>2. r \in RowsOf(sortKey) /\ r.pid = p
  BY <1>1, ReadingIsRow
<1>3. listed \in Seq(RowsOf(sortKey)) /\ p \notin Listed
  BY DEF OrderInv, AddProcess
<1>4. /\ listed' \in Seq(RowsOf(sortKey)) /\ Len(listed') = Len(listed) + 1
      /\ \A i \in 1..(Len(listed) + 1) : listed'[i] = IF i <= Len(listed) THEN listed[i] ELSE r
  BY <1>1, <1>2, <1>3
<1>5. \A i \in 1..Len(listed) : listed[i].pid # p
  BY <1>3 DEF Listed
<1>6. \A i, j \in DOMAIN listed' : listed'[i].pid = listed'[j].pid => i = j
  <2>1. DOMAIN listed' = 1..(Len(listed) + 1) /\ DOMAIN listed = 1..Len(listed) /\ Len(listed) \in Nat
    BY <1>3, <1>4
  <2>2. \A i, j \in 1..Len(listed) : listed[i].pid = listed[j].pid => i = j
    BY <2>1 DEF OrderInv
  <2> QED
    BY <1>2, <1>4, <1>5, <2>1, <2>2
<1> QED
  BY <1>4, <1>6 DEF OrderInv, AddProcess, orderSettings

LEMMA RemoveKeepsInv ==
  ASSUME OrderInv, NEW p \in OrderPid, RemoveProcess(p)
  PROVE  OrderInv'
<1>1. PICK k \in DOMAIN listed : listed' = RemoveAt(listed, k)
  BY DEF RemoveProcess
<1>2. listed \in Seq(RowsOf(sortKey)) /\ DOMAIN listed = 1..Len(listed) /\ Len(listed) \in Nat
  BY DEF OrderInv
<1>3. /\ listed' \in Seq(RowsOf(sortKey)) /\ Len(listed') = Len(listed) - 1
      /\ \A i \in 1..(Len(listed) - 1) : listed'[i] = IF i < k THEN listed[i] ELSE listed[i + 1]
  BY <1>1, <1>2, RemoveAtFacts
<1>4. \A i, j \in DOMAIN listed' : listed'[i].pid = listed'[j].pid => i = j
  <2>1. DOMAIN listed' = 1..(Len(listed) - 1)
    BY <1>3
  <2>2. \A i, j \in 1..Len(listed) : listed[i].pid = listed[j].pid => i = j
    BY <1>2 DEF OrderInv
  <2> QED
    BY <1>1, <1>2, <1>3, <2>1, <2>2
<1> QED
  BY <1>3, <1>4 DEF OrderInv, RemoveProcess, orderSettings

LEMMA UpdateKeepsInv ==
  ASSUME OrderInv, NEW p \in OrderPid, UpdateProcess(p)
  PROVE  OrderInv'
<1>1. PICK k \in DOMAIN listed, r \in ReadingsOf(p, sortKey) :
        listed[k].pid = p /\ listed' = [listed EXCEPT ![k] = r]
  BY DEF UpdateProcess
<1>2. r \in RowsOf(sortKey) /\ r.pid = p
  BY <1>1, ReadingIsRow
<1>3. listed \in Seq(RowsOf(sortKey))
  BY DEF OrderInv
<1>4. listed' \in Seq(RowsOf(sortKey)) /\ DOMAIN listed' = DOMAIN listed
      /\ \A i \in DOMAIN listed : listed'[i].pid = listed[i].pid
  BY <1>1, <1>2, <1>3, ExceptSeq
<1> QED
  BY <1>4 DEF OrderInv, UpdateProcess, orderSettings

LEMMA SortTreeKeepsInv ==
  ASSUME OrderInv, SortTree
  PROVE  OrderInv'
<1>1. PICK order \in [DOMAIN listed -> DOMAIN listed] :
        IsInjective(order) /\ listed' = [i \in DOMAIN listed |-> listed[order[i]]]
  BY DEF SortTree
<1>2. listed \in Seq(RowsOf(sortKey)) /\ DOMAIN listed = 1..Len(listed) /\ Len(listed) \in Nat
  BY DEF OrderInv
<1>3. listed' \in Seq(RowsOf(sortKey)) /\ DOMAIN listed' = DOMAIN listed
  BY <1>1, <1>2
<1>4. \A i, j \in DOMAIN listed : order[i] = order[j] => i = j
  BY <1>1 DEF IsInjective
<1>5. \A i, j \in DOMAIN listed' : listed'[i].pid = listed'[j].pid => i = j
  BY <1>1, <1>3, <1>4 DEF OrderInv
<1> QED
  BY <1>3, <1>5 DEF OrderInv, SortTree, orderSettings

LEMMA SortByKeepsInv ==
  ASSUME OrderInv, NEW key \in Columns, SortBy(key)
  PROVE  /\ sortKey' = key /\ listed' \in Seq(RowsOf(key))
         /\ \A i, j \in DOMAIN listed' : listed'[i].pid = listed'[j].pid => i = j
<1>1. listed \in Seq(RowsOf(sortKey)) /\ DOMAIN listed = 1..Len(listed) /\ Len(listed) \in Nat
  BY DEF OrderInv
<1>2. CASE key = sortKey
  BY <1>1, <1>2 DEF SortBy, OrderInv
<1>3. CASE key # sortKey
  <2>1. PICK v \in ValuesOf(key), n \in NicesOf(key) :
          listed' = [i \in DOMAIN listed |-> [pid |-> listed[i].pid, value |-> v, nice |-> n]]
    BY <1>3 DEF SortBy
  <2>2. \A i \in DOMAIN listed : listed[i].pid \in OrderPid
    <3>1. \A i \in DOMAIN listed : listed[i] \in RowsOf(sortKey)
      BY <1>1
    <3>2. \A r \in RowsOf(sortKey) : r.pid \in OrderPid
      BY DEF RowsOf
    <3> QED
      BY <3>1, <3>2
  <2>3. \A i \in DOMAIN listed : listed'[i] \in RowsOf(key) /\ listed'[i].pid = listed[i].pid
    BY <2>1, <2>2 DEF RowsOf
  <2>4. listed' \in Seq(RowsOf(key)) /\ DOMAIN listed' = DOMAIN listed
    BY <1>1, <2>1, <2>3
  <2> QED
    BY <1>3, <2>3, <2>4 DEF SortBy, OrderInv
<1> QED
  BY <1>2, <1>3

(* What ProcessList_sort makes of a list in order: p tells where each of    *)
(* its processes was.                                                      *)
SortedBy(p) ==
  /\ Len(listed') = Len(listed) /\ DOMAIN listed' = DOMAIN listed
  /\ p \in [DOMAIN listed -> DOMAIN listed]
  /\ \A i \in DOMAIN listed : listed'[i] = listed[p[i]]
  /\ \A i, j \in DOMAIN listed : p[i] = p[j] => i = j
  /\ \A k \in DOMAIN listed : \E i \in DOMAIN listed : p[i] = k
  /\ LET compare == CompareListed(sortKey, sortDirection)
     IN /\ \A j \in DOMAIN listed : j - 1 \in DOMAIN listed =>
             ~Greater(compare, listed'[j - 1], listed'[j])
        /\ \A i, j \in DOMAIN listed : i < j /\ p[j] < p[i] =>
             Greater(compare, listed'[j], listed'[i])
        /\ sortKey \notin Rate => \A i, j \in DOMAIN listed : i < j =>
             ~Greater(compare, listed'[i], listed'[j])

LEMMA GreaterIsOrder ==
  ASSUME ListInv
  PROVE  LET compare == CompareListed(sortKey, sortDirection)
         IN  \A x, y \in Range(listed) :
               Greater(compare, x, y) <=> BelongsAbove(sortKey, sortDirection, y, x)
<1> DEFINE compare == CompareListed(sortKey, sortDirection)
<1>1. SUFFICES ASSUME NEW x \in Range(listed), NEW y \in Range(listed)
               PROVE  Greater(compare, x, y) <=> BelongsAbove(sortKey, sortDirection, y, x)
  OBVIOUS
<1>2. x \in RowsOf(sortKey) /\ y \in RowsOf(sortKey)
  <2>1. \A i \in DOMAIN listed : listed[i] \in RowsOf(sortKey)
    BY DEF ListInv, OrderInv
  <2> QED
    BY <2>1 DEF Range
<1>3. compare[<<x, y>>] = Compare(sortKey, sortDirection, x, y)
  <2>1. <<x, y>> \in Range(listed) \X Range(listed) /\ <<x, y>>[1] = x /\ <<x, y>>[2] = y
    OBVIOUS
  <2> QED
    BY <2>1 DEF CompareListed
<1>4. Compare(sortKey, sortDirection, x, y) > 0 <=> BelongsAbove(sortKey, sortDirection, y, x)
  BY <1>2, CompareIsOrder DEF ListInv, OrderInv
<1> QED
  BY <1>3, <1>4 DEF Greater

LEMMA SortListSorts ==
  ASSUME ListInv, SortList
  PROVE  \E p : SortedBy(p)
<1> DEFINE n == Len(listed)
           T == Range(listed)
           D == 0 .. n - 1
           compare == CompareListed(sortKey, sortDirection)
           a == [i \in 0..(n - 1) |-> listed[i + 1]]
           v == [array |-> a, items |-> n, growthRate |-> 1]
           w == VectorInsertionSort(v, compare)
<1>1. n \in Nat /\ DOMAIN listed = 1..n /\ listed \in Seq(RowsOf(sortKey))
  BY DEF ListInv, OrderInv
<1>2. T \subseteq RowsOf(sortKey)
  BY <1>1 DEF Range
<1>3. listed' = Elements(w)
  BY DEF SortList
<1>4. \A i \in 1..n : listed[i] \in T
  BY <1>1 DEF Range
<1>5. \A x, y \in T : Greater(compare, x, y) <=> BelongsAbove(sortKey, sortDirection, y, x)
  BY GreaterIsOrder
<1> HIDE DEF n, T, compare
<1>6. a \in Arrays(D, T, T, n)
  BY <1>1, <1>4 DEF Arrays
<1>7. /\ \A p, q \in T : BelongsAboveUp(sortKey, p, q) => ~BelongsAboveUp(sortKey, q, p)
      /\ sortKey \notin Rate => \A p, q, r \in T :
           ~BelongsAboveUp(sortKey, q, p) /\ ~BelongsAboveUp(sortKey, r, q)
             => ~BelongsAboveUp(sortKey, r, p)
  <2>1. sortKey \in Columns
    BY DEF ListInv, OrderInv
  <2> QED
    BY <1>2, <2>1, OrderIsWeak
<1>8. Comparison(compare, T)
  <2>1. CASE sortDirection = 1
    BY <1>5, <1>7, <2>1 DEF Comparison, BelongsAbove
  <2>2. CASE sortDirection # 1
    BY <1>5, <1>7, <2>2 DEF Comparison, BelongsAbove
  <2> QED
    BY <2>1, <2>2
<1>9. sortKey \notin Rate =>
        \A x, y, z \in T : ~Greater(compare, x, y) /\ ~Greater(compare, y, z) => ~Greater(compare, x, z)
  <2>1. CASE sortDirection = 1
    BY <1>5, <1>7, <2>1 DEF BelongsAbove
  <2>2. CASE sortDirection # 1
    BY <1>5, <1>7, <2>2 DEF BelongsAbove
  <2> QED
    BY <2>1, <2>2
<1> HIDE DEF a
<1>10. /\ w.items = n /\ w.array \in Arrays(D, T, T, n)
       /\ \E p : SortedUpTo(p, a, w.array, D, n, compare)
  <2>1. v.array = a /\ v.items = n /\ v.growthRate = 1
    OBVIOUS
  <2> HIDE DEF v
  <2>2. v = [array |-> v.array, items |-> v.items, growthRate |-> v.growthRate]
    BY <2>1 DEF v
  <2>3. /\ w = [array |-> w.array, items |-> n, growthRate |-> v.growthRate]
        /\ w.array \in Arrays(D, T, T, n)
        /\ \E p : SortedUpTo(p, v.array, w.array, D, n, compare)
    BY <1>1, <1>6, <1>8, <2>1, <2>2, InsertionSorts
  <2>4. w.items = n
    BY <2>3
  <2> QED
    BY <2>1, <2>3, <2>4
<1> HIDE DEF w
<1> DEFINE b == w.array
<1>11. PICK p : SortedUpTo(p, a, b, D, n, compare)
  BY <1>10
<1>12. sortKey \notin Rate => \A j \in 0 .. n - 1 : \A i \in 0 .. j - 1 : ~Greater(compare, b[i], b[j])
  <2>1. b \in Arrays(D, T, T, n)
    BY <1>10
  <2> HIDE DEF b
  <2> SUFFICES ASSUME sortKey \notin Rate
               PROVE  \A j \in 0 .. n - 1 : \A i \in 0 .. j - 1 : ~Greater(compare, b[i], b[j])
    OBVIOUS
  <2>2. \A x, y, z \in T : ~Greater(compare, x, y) /\ ~Greater(compare, y, z) => ~Greater(compare, x, z)
    BY <1>9
  <2> QED
    BY <1>1, <1>11, <2>1, <2>2, SortedThroughout
<1>13. DOMAIN listed' = 1..n /\ Len(listed') = n /\ \A i \in 1..n : listed'[i] = b[i - 1]
  BY <1>1, <1>3, <1>10 DEF Elements
<1> HIDE DEF b
<1>14. /\ p \in [D -> D] /\ \A k \in D : b[k] = a[p[k]]
       /\ \A j, k \in D : p[j] = p[k] => j = k
       /\ \A k \in D : \E j \in D : p[j] = k
       /\ \A k \in 1 .. n - 1 : ~Greater(compare, b[k - 1], b[k])
       /\ \A i, j \in 0 .. n - 1 : i < j /\ p[j] < p[i] => Greater(compare, b[j], b[i])
  BY <1>11 DEF SortedUpTo, Rearranges
<1> DEFINE q == [i \in 1..n |-> p[i - 1] + 1]
<1>15. q \in [1..n -> 1..n] /\ \A i \in 1..n : i - 1 \in D /\ p[i - 1] \in D /\ q[i] = p[i - 1] + 1
  <2>1. \A i \in 1..n : i - 1 \in D
    BY <1>1
  <2>2. \A k \in D : p[k] \in D
    BY <1>14
  <2>3. \A k \in D : k + 1 \in 1..n
    BY <1>1
  <2> QED
    BY <2>1, <2>2, <2>3
<1>16. \A i \in 1..n : listed'[i] = listed[q[i]]
  <2>1. \A k \in D : a[k] = listed[k + 1]
    BY DEF a, n
  <2> HIDE DEF q
  <2> SUFFICES ASSUME NEW i \in 1..n PROVE listed'[i] = listed[q[i]]
    OBVIOUS
  <2>2. listed'[i] = a[p[i - 1]]
    BY <1>13, <1>14, <1>15
  <2> QED
    BY <1>15, <2>1, <2>2
<1>17. \A i, j \in 1..n : q[i] = q[j] => i = j
  <2> HIDE DEF q
  <2> SUFFICES ASSUME NEW i \in 1..n, NEW j \in 1..n, q[i] = q[j] PROVE i = j
    OBVIOUS
  <2>1. p[i - 1] = p[j - 1]
    BY <1>15
  <2>2. i - 1 = j - 1
    BY <1>14, <1>15, <2>1
  <2> QED
    BY <2>2
<1>18. \A k \in 1..n : \E i \in 1..n : q[i] = k
  <2> SUFFICES ASSUME NEW k \in 1..n PROVE \E i \in 1..n : q[i] = k
    OBVIOUS
  <2>1. k - 1 \in D
    BY <1>1
  <2>2. PICK j \in D : p[j] = k - 1
    BY <1>14, <2>1
  <2>3. j + 1 \in 1..n /\ (j + 1) - 1 = j
    BY <1>1
  <2>4. q[j + 1] = k
    BY <2>2, <2>3
  <2> QED
    BY <2>3, <2>4
<1>19. ASSUME NEW j \in 1..n, j - 1 \in 1..n PROVE ~Greater(compare, listed'[j - 1], listed'[j])
  <2>1. j - 1 \in 1 .. n - 1 /\ listed'[j] = b[j - 1] /\ listed'[j - 1] = b[(j - 1) - 1]
    BY <1>1, <1>13, <1>19
  <2> QED
    BY <1>14, <2>1
<1>20. ASSUME NEW i \in 1..n, NEW j \in 1..n, i < j, q[j] < q[i]
       PROVE  Greater(compare, listed'[j], listed'[i])
  <2> HIDE DEF q
  <2>1. i - 1 \in D /\ j - 1 \in D /\ q[i] = p[i - 1] + 1 /\ q[j] = p[j - 1] + 1
    BY <1>15
  <2>2. p[i - 1] \in D /\ p[j - 1] \in D
    BY <1>15
  <2>3. i - 1 < j - 1 /\ p[j - 1] < p[i - 1]
    BY <1>1, <1>20, <2>1, <2>2
  <2>4. listed'[j] = b[j - 1] /\ listed'[i] = b[i - 1]
    BY <1>13
  <2> QED
    BY <1>14, <2>1, <2>3, <2>4
<1>21. ASSUME sortKey \notin Rate, NEW i \in 1..n, NEW j \in 1..n, i < j
       PROVE  ~Greater(compare, listed'[i], listed'[j])
  <2>1. j - 1 \in 0 .. n - 1 /\ i - 1 \in 0 .. (j - 1) - 1 /\ listed'[j] = b[j - 1] /\ listed'[i] = b[i - 1]
    BY <1>1, <1>13, <1>21
  <2> QED
    BY <1>12, <1>21, <2>1
<1> HIDE DEF q
<1>22. SortedBy(q)
  BY <1>1, <1>13, <1>15, <1>16, <1>17, <1>18, <1>19, <1>20, <1>21 DEF SortedBy, n, compare
<1> QED
  BY <1>22

LEMMA SortListKeepsInv ==
  ASSUME ListInv, SortList
  PROVE  OrderInv'
<1>1. PICK p : SortedBy(p)
  BY SortListSorts
<1>2. listed \in Seq(RowsOf(sortKey)) /\ DOMAIN listed = 1..Len(listed) /\ Len(listed) \in Nat
  BY DEF ListInv, OrderInv
<1>3. \A i \in DOMAIN listed : listed'[i] \in RowsOf(sortKey)
  BY <1>1, <1>2 DEF SortedBy
<1>4. listed' = Elements(VectorInsertionSort([array |-> [i \in 0..(Len(listed) - 1) |-> listed[i + 1]],
                                              items |-> Len(listed), growthRate |-> 1],
                                             CompareListed(sortKey, sortDirection)))
  BY DEF SortList
<1>5. listed' = [i \in DOMAIN listed' |-> listed'[i]]
  BY <1>4 DEF Elements
<1>6. listed' \in Seq(RowsOf(sortKey))
  <2>1. DOMAIN listed' = 1..Len(listed)
    BY <1>1, <1>2 DEF SortedBy
  <2> QED
    BY <1>2, <1>3, <1>5, <2>1
<1>7. \A i, j \in DOMAIN listed' : listed'[i].pid = listed'[j].pid => i = j
  <2>1. \A i \in DOMAIN listed : listed'[i] = listed[p[i]] /\ p[i] \in DOMAIN listed
    BY <1>1 DEF SortedBy
  <2>2. /\ DOMAIN listed' = DOMAIN listed
        /\ \A i, j \in DOMAIN listed : p[i] = p[j] => i = j
    BY <1>1 DEF SortedBy
  <2>3. \A i, j \in DOMAIN listed : listed[i].pid = listed[j].pid => i = j
    BY DEF ListInv, OrderInv
  <2> QED
    BY <2>1, <2>2, <2>3
<1> QED
  BY <1>6, <1>7 DEF ListInv, OrderInv, SortList, orderSettings

LEMMA ClickedIsColumn ==
  ASSUME FieldsComparedRight, ListInv, NEW x
  PROVE  Clicked(x) \in ComparedRight
<1> DEFINE at == scrolled + x + 1
           within == {i \in DOMAIN fields : at \in TitleAt(i)..(TitleAt(i) + TitleLengths[i])}
           first == CHOOSE i \in within : \A j \in within : i <= j
<1>1. Clicked(x) = IF within = {} THEN "COMM" ELSE fields[first]
  BY DEF Clicked, KeyAt
<1>2. CASE within = {}
  BY <1>1, <1>2, KeysComparedRight
<1>3. CASE within # {}
  <2>1. \A i \in DOMAIN fields : fields[i] \in ComparedRight
    BY DEF FieldsComparedRight, ListInv, OrderInv
  <2>2. within \in SUBSET Nat
    <3>1. fields \in Seq(Columns)
      BY OrderAssumption DEF ListInv, OrderInv
    <3> QED
      BY <3>1
  <2> HIDE DEF within
  <2>3. first \in within
    BY <1>3, <2>2, LeastNat
  <2> QED
    BY <1>1, <1>3, <2>1, <2>3 DEF within
<1> QED
  BY <1>2, <1>3

LEMMA SetSortKeyKeepsInv ==
  ASSUME ListInv, NEW key \in ComparedRight, SetSortKey(key), UNCHANGED fields
  PROVE  ListInv'
<1>1. key \in Columns /\ OrderInv
  BY KeysComparedRight DEF ListInv
<1>2. /\ sortKey' = key /\ listed' \in Seq(RowsOf(key))
      /\ \A i, j \in DOMAIN listed' : listed'[i].pid = listed'[j].pid => i = j
  BY <1>1, SortByKeepsInv DEF SetSortKey
<1>3. sortDirection' = 1 /\ asTree' = FALSE /\ fields' = fields
  BY DEF SetSortKey
<1> QED
  BY <1>1, <1>2, <1>3 DEF ListInv, OrderInv

LEMMA NextKeepsListInv ==
  ASSUME FieldsComparedRight, ListInv, [OrderNext]_orderVars
  PROVE  ListInv'
<1>1. OrderInv /\ sortKey \in ComparedRight
  BY DEF ListInv
<1>2. ASSUME NEW p \in OrderPid, AddProcess(p) \/ RemoveProcess(p) \/ UpdateProcess(p) PROVE ListInv'
  <2>1. OrderInv'
    BY <1>1, <1>2, AddKeepsInv, RemoveKeepsInv, UpdateKeepsInv
  <2> QED
    BY <1>1, <1>2, <2>1 DEF ListInv, AddProcess, RemoveProcess, UpdateProcess, orderSettings
<1>3. ASSUME SortList \/ SortTree PROVE ListInv'
  <2>1. OrderInv'
    BY <1>1, <1>3, SortListKeepsInv, SortTreeKeepsInv
  <2> QED
    BY <1>1, <1>3, <2>1 DEF ListInv, SortList, SortTree, orderSettings
<1>4. CASE SortMenu
  <2>1. PICK i \in DOMAIN fields : SetSortKey(fields[i]) /\ UNCHANGED fields
    BY <1>4 DEF SortMenu
  <2>2. fields[i] \in ComparedRight
    BY <1>1 DEF FieldsComparedRight, OrderInv
  <2> QED
    BY <2>1, <2>2, SetSortKeyKeepsInv
<1>5. CASE SortKeys
  <2>1. PICK key \in KeyColumns : SetSortKey(key) /\ UNCHANGED fields
    BY <1>5 DEF SortKeys
  <2>2. key \in ComparedRight
    BY KeysComparedRight
  <2> QED
    BY <2>1, <2>2, SetSortKeyKeepsInv
<1>6. CASE InvertKey
  BY <1>6 DEF InvertKey, InvertOrder, ListInv, OrderInv
<1>7. CASE TreeKey
  BY <1>7 DEF TreeKey, ListInv, OrderInv
<1>8. ASSUME NEW n \in 0..MaxScroll, ScrollList(n) PROVE ListInv'
  BY <1>8 DEF ScrollList, ListInv, OrderInv
<1>9. ASSUME NEW x, HeaderClick(x) PROVE ListInv'
  <2>1. CASE Clicked(x) = sortKey
    BY <1>9, <2>1 DEF HeaderClick, InvertOrder, ListInv, OrderInv
  <2>2. CASE Clicked(x) # sortKey
    <3>1. SetSortKey(Clicked(x)) /\ UNCHANGED fields
      BY <1>9, <2>2 DEF HeaderClick
    <3> QED
      BY <3>1, ClickedIsColumn, SetSortKeyKeepsInv
  <2> QED
    BY <2>1, <2>2
<1>10. CASE UNCHANGED orderVars
  BY <1>10 DEF ListInv, OrderInv, orderVars, orderSettings
<1> QED
  BY <1>2, <1>3, <1>4, <1>5, <1>6, <1>7, <1>8, <1>9, <1>10 DEF OrderNext

\* The i-th process of the new list was at p[i] in the old one.
LEMMA PlaceBeforeIs ==
  ASSUME OrderInv, NEW p, SortedBy(p), NEW i \in DOMAIN listed
  PROVE  PlaceBefore(i) = p[i]
<1>1. p[i] \in DOMAIN listed /\ listed'[i] = listed[p[i]]
  BY DEF SortedBy
<1>2. \A j \in DOMAIN listed : listed[j].pid = listed'[i].pid <=> j = p[i]
  BY <1>1 DEF OrderInv
<1> QED
  BY <1>1, <1>2 DEF PlaceBefore

(* Whatever is listed, in whichever column and direction, and where only    *)
(* columns that are compared right are on the screen: a sort keeps every   *)
(* process, puts none behind one it belongs above, and leaves those that   *)
(* belong nowhere in particular in their order.                            *)
THEOREM ListIsSorted ==
  ASSUME FieldsComparedRight
  PROVE  OrderSpec => SortedByColumn
<1>1. OrderInit => ListInv
  BY OrderInitInv
<1>2. ListInv /\ [OrderNext]_orderVars => ListInv'
  BY NextKeepsListInv
<1> DEFINE Over(i, j) == BelongsAbove(sortKey, sortDirection, listed'[i], listed'[j])
           Tied(i, j) == ~Over(i, j) /\ ~Over(j, i)
<1>3. ASSUME ListInv, SortList
      PROVE  /\ Range(listed') = Range(listed) /\ Len(listed') = Len(listed)
             /\ \A j \in DOMAIN listed' : \A i \in 1..(j - 1) :
                  i = j - 1 \/ sortKey \notin Rate =>
                     /\ ~Over(j, i)
                     /\ Tied(i, j) => PlaceBefore(i) < PlaceBefore(j)
  <2>1. PICK p : SortedBy(p)
    BY <1>3, SortListSorts
  <2> DEFINE compare == CompareListed(sortKey, sortDirection)
  <2>2. listed \in Seq(RowsOf(sortKey)) /\ DOMAIN listed = 1..Len(listed) /\ Len(listed) \in Nat
    BY <1>3 DEF ListInv, OrderInv
  <2>3. /\ Len(listed') = Len(listed) /\ DOMAIN listed' = DOMAIN listed
        /\ p \in [DOMAIN listed -> DOMAIN listed]
        /\ \A i \in DOMAIN listed : listed'[i] = listed[p[i]]
        /\ \A k \in DOMAIN listed : \E i \in DOMAIN listed : p[i] = k
        /\ \A i, j \in DOMAIN listed : p[i] = p[j] => i = j
    BY <2>1 DEF SortedBy
  <2>4. Range(listed') = Range(listed)
    <3>1. \A i \in DOMAIN listed : p[i] \in DOMAIN listed
      BY <2>3
    <3> QED
      BY <2>3, <3>1 DEF Range
  <2>5. \A x, y \in Range(listed) :
          Greater(compare, x, y) <=> BelongsAbove(sortKey, sortDirection, y, x)
    BY <1>3, GreaterIsOrder
  <2>6. \A i \in DOMAIN listed : listed'[i] \in Range(listed)
    BY <2>3 DEF Range
  <2>7. \A i, j \in DOMAIN listed : Greater(compare, listed'[i], listed'[j]) <=> Over(j, i)
    BY <2>5, <2>6
  <2> HIDE DEF compare
  <2>8. /\ \A j \in DOMAIN listed : j - 1 \in DOMAIN listed =>
             ~Greater(compare, listed'[j - 1], listed'[j])
        /\ \A i, j \in DOMAIN listed : i < j /\ p[j] < p[i] =>
             Greater(compare, listed'[j], listed'[i])
        /\ sortKey \notin Rate => \A i, j \in DOMAIN listed : i < j =>
             ~Greater(compare, listed'[i], listed'[j])
    BY <2>1 DEF SortedBy, compare
  <2>9. ASSUME NEW j \in DOMAIN listed, NEW i \in 1..(j - 1), i = j - 1 \/ sortKey \notin Rate
        PROVE  ~Over(j, i) /\ (Tied(i, j) => PlaceBefore(i) < PlaceBefore(j))
    <3>1. i \in DOMAIN listed /\ i < j /\ i # j
      BY <2>2
    <3>2. ~Over(j, i)
      <4>1. CASE i = j - 1
        BY <2>7, <2>8, <3>1, <4>1
      <4>2. CASE sortKey \notin Rate
        BY <2>7, <2>8, <3>1, <4>2
      <4> QED
        BY <2>9, <4>1, <4>2
    <3>3. PlaceBefore(i) = p[i] /\ PlaceBefore(j) = p[j]
      BY <1>3, <2>1, <3>1, PlaceBeforeIs DEF ListInv
    <3>4. p[i] \in Nat /\ p[j] \in Nat /\ p[i] # p[j]
      <4>1. p[i] \in DOMAIN listed /\ p[j] \in DOMAIN listed /\ p[i] # p[j]
        BY <2>3, <3>1
      <4> QED
        BY <2>2, <4>1
    <3>5. p[j] < p[i] => Over(i, j)
      BY <2>7, <2>8, <3>1
    <3> HIDE DEF Over
    <3> QED
      BY <3>2, <3>3, <3>4, <3>5
  <2> HIDE DEF Over, Tied
  <2> QED
    BY <2>3, <2>4, <2>9
<1>4. ListInv /\ [OrderNext]_orderVars =>
        [~asTree /\ SortList =>
           /\ Range(listed') = Range(listed) /\ Len(listed') = Len(listed)
           /\ \A j \in DOMAIN listed' : \A i \in 1..(j - 1) :
                i = j - 1 \/ sortKey \notin Rate =>
                   /\ ~Over(j, i)
                   /\ Tied(i, j) => PlaceBefore(i) < PlaceBefore(j)]_orderVars
  BY <1>3
<1> QED
  BY <1>1, <1>2, <1>4, PTL DEF OrderSpec, SortedByColumn

-----------------------------------------------------------------------------
(* The header.                                                             *)

HeaderInv == fields \in FieldLists /\ scrolled \in 0..MaxScroll

LEMMA LengthsOfTitles ==
  ASSUME HeaderInv
  PROVE  /\ fields \in Seq(Columns)
         /\ \A i \in 1..Len(fields) : TitleLengths[i] \in Nat \ {0} /\ fields[i] \in Columns
<1>1. fields \in Seq(Columns) /\ \A i \in DOMAIN fields : TitleLen[fields[i]] \in Nat \ {0}
  BY OrderAssumption DEF HeaderInv
<1> QED
  BY <1>1 DEF TitleLengths

\* The header is as long as its titles, and each begins where the one before ends.
LEMMA CellsOfTitles ==
  ASSUME HeaderInv
  PROVE  /\ HeaderCells \in Seq(Columns) /\ Len(HeaderCells) = SumTo(TitleLengths, Len(fields))
         /\ \A i \in 1..Len(fields) : \A c \in 1..TitleLengths[i] :
              HeaderCells[TitleAt(i) + c] = fields[i]
<1> DEFINE n == Len(fields)
           T == TitleLengths
           S == Seq(Columns)
           title(k) == [c \in 1..T[k] |-> fields[k]]
           F == [k \in 1..n |-> [s \in S |-> s \o title(k)]]
           Cur(g) == g = [k \in 0..n |-> IF k = 0 THEN << >> ELSE g[k - 1] \o title(k)]
           cur == CHOOSE g : Cur(g)
<1>1. n \in Nat /\ \A k \in 1..n : T[k] \in Nat \ {0} /\ fields[k] \in Columns
  BY LengthsOfTitles
<1>2. \A k \in 1..n : title(k) \in S /\ Len(title(k)) = T[k] /\ \A c \in 1..T[k] : title(k)[c] = fields[k]
  BY <1>1
<1>3. HeaderCells = cur[n]
  BY Zenon DEF HeaderCells
<1> HIDE DEF n, T, title, S
<1>4. \A k \in 1..n : \A s \in S : s \o title(k) \in S
  BY <1>2, ConcatProperties DEF S
<1>5. F \in [1..n -> [S -> S]]
  BY <1>4
<1>6. << >> \in S
  BY DEF S
<1>7. PICK f : IsLoop(f, << >>, F, S, n)
  <2> HIDE DEF F
  <2> QED
    BY <1>1, <1>5, <1>6, LoopRuns
<1>8. f \in [0..n -> S] /\ f[0] = << >> /\ \A k \in 1..n : f[k] = f[k - 1] \o title(k)
  <2>1. f \in [0..n -> S] /\ f[0] = << >> /\ \A k \in 1..n : f[k] = F[k][f[k - 1]]
    BY <1>7 DEF IsLoop
  <2>2. \A k \in 1..n : f[k - 1] \in S
    BY <1>1, <2>1
  <2> QED
    BY <2>1, <2>2
<1>9. Cur(f)
  <2>1. \A k \in 0..n : f[k] = IF k = 0 THEN << >> ELSE f[k - 1] \o title(k)
    BY <1>1, <1>8
  <2> QED
    BY <1>8, <2>1
<1>10. Cur(cur)
  <2> HIDE DEF Cur
  <2> QED
    BY <1>9, Zenon
<1> HIDE DEF cur
<1>11. cur[0] = << >> /\ \A k \in 1..n : cur[k] = cur[k - 1] \o title(k)
  <2>1. \A k \in 0..n : cur[k] = IF k = 0 THEN << >> ELSE cur[k - 1] \o title(k)
    BY <1>10
  <2>2. 0 \in 0..n /\ \A k \in 1..n : k \in 0..n /\ k # 0
    BY <1>1
  <2> QED
    BY <2>1, <2>2
<1> HIDE DEF Cur
<1>12. /\ SumTo(T, 0) = 0 /\ \A k \in 0..n : SumTo(T, k) \in Int
       /\ \A k \in 1..n : SumTo(T, k) = SumTo(T, k - 1) + T[k]
  BY <1>1, PartialSums
<1>13. \A j \in 0..n : \A i \in 0..j : SumTo(T, i) <= SumTo(T, j)
  BY <1>1, PartialSumsGrow
<1> DEFINE P == {k \in 0..n :
                   /\ cur[k] \in S /\ Len(cur[k]) = SumTo(T, k)
                   /\ \A i \in 1..k : \A c \in 1..T[i] : cur[k][SumTo(T, i - 1) + c] = fields[i]}
<1>14. 0 \in P
  BY <1>1, <1>6, <1>11, <1>12
<1>15. ASSUME NEW k \in 1..n, k - 1 \in P PROVE k \in P
  <2> DEFINE s == cur[k - 1]
             t == title(k)
  <2>1. cur[k] = s \o t
    BY <1>11
  <2>2. /\ s \in Seq(Columns) /\ Len(s) = SumTo(T, k - 1)
        /\ \A i \in 1..(k - 1) : \A c \in 1..T[i] : s[SumTo(T, i - 1) + c] = fields[i]
    BY <1>15 DEF S
  <2>3. t \in Seq(Columns) /\ Len(t) = T[k] /\ \A c \in 1..T[k] : t[c] = fields[k]
    BY <1>2 DEF S
  <2> HIDE DEF s, t
  <2>4. /\ s \o t \in Seq(Columns) /\ Len(s \o t) = Len(s) + Len(t)
        /\ \A i \in 1..(Len(s) + Len(t)) : (s \o t)[i] = IF i <= Len(s) THEN s[i] ELSE t[i - Len(s)]
    BY <2>2, <2>3, ConcatProperties
  <2>5. ASSUME NEW i \in 1..k, NEW c \in 1..T[i] PROVE cur[k][SumTo(T, i - 1) + c] = fields[i]
    <3> DEFINE at == SumTo(T, i - 1) + c
    <3>1. /\ i \in 1..n /\ i - 1 \in 0..n /\ k - 1 \in 0..n /\ k \in 0..n /\ i \in 0..n
          /\ T[i] \in Nat /\ T[k] \in Nat /\ c \in Nat /\ 1 <= c /\ c <= T[i]
      BY <1>1
    <3>2. SumTo(T, i - 1) \in Int /\ SumTo(T, k - 1) \in Int /\ 0 <= SumTo(T, i - 1)
      <4>1. 0 \in 0..(i - 1)
        BY <3>1
      <4> QED
        BY <1>12, <1>13, <3>1, <4>1
    <3>3. CASE i = k
      <4>1. at \in 1..(Len(s) + Len(t)) /\ ~(at <= Len(s)) /\ at - Len(s) = c
        BY <2>2, <2>3, <3>1, <3>2, <3>3
      <4> QED
        BY <2>1, <2>3, <2>4, <3>3, <4>1
    <3>4. CASE i # k
      <4>1. i \in 1..(k - 1) /\ i \in 0..(k - 1)
        BY <3>1, <3>4
      <4>2. SumTo(T, i) <= SumTo(T, k - 1) /\ SumTo(T, i) = SumTo(T, i - 1) + T[i]
        BY <1>12, <1>13, <3>1, <4>1
      <4>3. at \in 1..(Len(s) + Len(t)) /\ at <= Len(s)
        BY <2>2, <2>3, <3>1, <3>2, <4>2
      <4> QED
        BY <2>1, <2>2, <2>4, <4>1, <4>3
    <3> QED
      BY <3>3, <3>4
  <2>6. Len(cur[k]) = SumTo(T, k)
    BY <1>12, <2>1, <2>2, <2>3, <2>4
  <2>7. cur[k] \in S /\ k \in 0..n
    BY <2>1, <2>4 DEF S
  <2>8. \A i \in 1..k : \A c \in 1..T[i] : cur[k][SumTo(T, i - 1) + c] = fields[i]
    BY <2>5
  <2> QED
    BY <2>6, <2>7, <2>8
<1>16. n \in P
  <2> HIDE DEF P
  <2> QED
    BY <1>1, <1>14, <1>15, EachTurn
<1> QED
  BY <1>3, <1>16 DEF TitleAt, S, n, T

LEMMA ClickFinds ==
  ASSUME HeaderInv
  PROVE  ClickFindsTitle
<1> DEFINE n == Len(fields)
           T == TitleLengths
<1>1. SUFFICES ASSUME NEW x \in 0..(Len(HeaderCells) - 1 - scrolled)
               PROVE  Clicked(x) = HeaderCells[scrolled + x + 1]
  BY DEF ClickFindsTitle
<1>2. n \in Nat /\ DOMAIN fields = 1..n /\ \A k \in 1..n : T[k] \in Nat \ {0}
  BY LengthsOfTitles
<1>3. /\ Len(HeaderCells) = SumTo(T, n)
      /\ \A i \in 1..n : \A c \in 1..T[i] : HeaderCells[TitleAt(i) + c] = fields[i]
  BY CellsOfTitles
<1>4. \A i \in 1..n : TitleAt(i) = SumTo(T, i - 1)
  BY DEF TitleAt
<1> HIDE DEF n, T
<1>5. /\ SumTo(T, 0) = 0 /\ \A k \in 0..n : SumTo(T, k) \in Int
      /\ \A k \in 1..n : SumTo(T, k) = SumTo(T, k - 1) + T[k]
  <2>1. \A k \in 1..n : T[k] \in Int
    BY <1>2
  <2> QED
    BY <1>2, <2>1, PartialSums
<1> DEFINE at == scrolled + x + 1
           reached == {k \in 1..n : at <= SumTo(T, k)}
           within == {i \in 1..n : at \in TitleAt(i)..(TitleAt(i) + T[i])}
           first == CHOOSE i \in within : \A j \in within : i <= j
<1>6. at \in Nat \ {0} /\ at <= SumTo(T, n)
  <2>1. SumTo(T, n) \in Int /\ scrolled \in Nat
    BY <1>2, <1>5, OrderAssumption DEF HeaderInv
  <2> QED
    BY <1>3, <2>1
<1> HIDE DEF at
<1>7. PICK i \in reached : \A j \in reached : i <= j
  <2>1. n # 0
    BY <1>2, <1>5, <1>6
  <2>2. reached # {} /\ reached \in SUBSET Nat
    BY <1>2, <1>6, <2>1
  <2> HIDE DEF reached
  <2> QED
    BY <2>2, LeastNat
<1>8. /\ i \in 1..n /\ i - 1 \in 0..n /\ at <= SumTo(T, i) /\ SumTo(T, i - 1) \in Int
      /\ SumTo(T, i) = SumTo(T, i - 1) + T[i] /\ T[i] \in Nat
  BY <1>2, <1>5
<1>9. SumTo(T, i - 1) < at
  <2>1. CASE i = 1
    BY <1>5, <1>6, <2>1
  <2>2. CASE i # 1
    <3>1. i - 1 \in 1..n /\ ~(i <= i - 1)
      BY <1>2, <1>8, <2>2
    <3>2. i - 1 \notin reached
      BY <1>7, <3>1
    <3> QED
      BY <1>6, <1>8, <3>1, <3>2
  <2> QED
    BY <2>1, <2>2
<1>10. HeaderCells[at] = fields[i]
  <2>1. at - TitleAt(i) \in 1..T[i] /\ TitleAt(i) + (at - TitleAt(i)) = at
    BY <1>4, <1>6, <1>8, <1>9
  <2> QED
    BY <1>3, <1>8, <2>1
<1>11. i \in within
  BY <1>4, <1>6, <1>8, <1>9
<1>12. ASSUME NEW j \in within PROVE i <= j
  <2>1. j \in 1..n /\ j - 1 \in 0..n /\ at <= TitleAt(j) + T[j] /\ TitleAt(j) = SumTo(T, j - 1)
    BY <1>2, <1>4
  <2>2. at <= SumTo(T, j)
    BY <1>5, <2>1
  <2> QED
    BY <1>7, <2>1, <2>2
<1>13. first = i
  <2>1. \A j \in within : (\A k \in within : j <= k) <=> j = i
    <3>1. \A j \in within : j \in Int
      OBVIOUS
    <3> HIDE DEF within
    <3> QED
      BY <1>11, <1>12, <3>1
  <2> HIDE DEF within
  <2> QED
    BY <1>11, <2>1
<1>14. Clicked(x) = IF within = {} THEN "COMM" ELSE fields[first]
  BY <1>2 DEF Clicked, KeyAt, at, T
<1> HIDE DEF within, first
<1> QED
  BY <1>10, <1>11, <1>13, <1>14 DEF at

(* Whatever columns there are, with titles of any length, and however far   *)
(* the list is scrolled: a click on a cell of a title means its column.    *)
THEOREM ClicksFindTitles == OrderSpec => []ClickFindsTitle
<1>1. OrderInit => HeaderInv
  BY OrderAssumption DEF OrderInit, HeaderInv
<1>2. HeaderInv /\ [OrderNext]_orderVars => HeaderInv'
  <2> SUFFICES ASSUME HeaderInv, [OrderNext]_orderVars PROVE HeaderInv'
    OBVIOUS
  <2> USE DEF HeaderInv
  <2>1. ASSUME NEW p \in OrderPid, AddProcess(p) \/ RemoveProcess(p) \/ UpdateProcess(p) PROVE HeaderInv'
    BY <2>1 DEF AddProcess, RemoveProcess, UpdateProcess, orderSettings
  <2>2. ASSUME SortList \/ SortTree PROVE HeaderInv'
    BY <2>2 DEF SortList, SortTree, orderSettings
  <2>3. ASSUME SortMenu \/ SortKeys \/ InvertKey \/ TreeKey PROVE HeaderInv'
    BY <2>3 DEF SortMenu, SortKeys, InvertKey, TreeKey
  <2>4. ASSUME NEW k \in 0..MaxScroll, ScrollList(k) PROVE HeaderInv'
    BY <2>4 DEF ScrollList
  <2>5. ASSUME NEW x, HeaderClick(x) PROVE HeaderInv'
    BY <2>5 DEF HeaderClick
  <2>6. CASE UNCHANGED orderVars
    BY <2>6 DEF orderVars, orderSettings
  <2> QED
    BY <2>1, <2>2, <2>3, <2>4, <2>5, <2>6 DEF OrderNext
<1> QED
  BY <1>1, <1>2, ClickFinds, PTL DEF OrderSpec

-----------------------------------------------------------------------------
(* The containers of the processes: a vector and a hash table that both     *)
(* hold a set L of pids.                                                   *)

Places(v) == 0 .. v.items - 1

VectorHolds(v, L) ==
  /\ v = [array |-> v.array, items |-> v.items, growthRate |-> v.growthRate]
  /\ v.items \in Nat /\ v.growthRate \in Nat \ {0}
  /\ \E size \in Nat : v.items <= size /\ v.array \in [0 .. size - 1 -> Nat \cup {NULL}]
  /\ \A i \in Places(v) : v.array[i] \in L
  /\ \A i, j \in Places(v) : v.array[i] = v.array[j] => i = j
  /\ \A x \in L : \E i \in Places(v) : v.array[i] = x

Pair == [key : Nat, value : Nat]
Chains == [0 .. TableSize - 1 -> Seq(Pair)]

ChainHolds(chain, b, L) ==
  /\ \A i \in DOMAIN chain : chain[i].key \in L /\ chain[i].key % TableSize = b
                             /\ chain[i].value = chain[i].key
  /\ \A i, j \in DOMAIN chain : chain[i].key = chain[j].key => i = j
  /\ \A x \in L : x % TableSize = b => \E i \in DOMAIN chain : chain[i].key = x

TableHolds(h, L) ==
  /\ h = [buckets |-> h.buckets, items |-> h.items]
  /\ h.items \in Int /\ h.buckets \in Chains
  /\ \A b \in 0 .. TableSize - 1 : ChainHolds(h.buckets[b], b, L)

BothHold(v, h, L) == L \subseteq Nat /\ VectorHolds(v, L) /\ TableHolds(h, L) /\ h.items = v.items

LEMMA SizesOfTables ==
  /\ TableSize \in Nat \ {0} /\ DEFAULT_SIZE \in Nat \ {0} /\ NULL \notin Nat
  /\ Cardinality(0 .. TableSize - 1) = TableSize
<1>1. TableSize \in Nat \ {0} /\ DEFAULT_SIZE \in Nat \ {0} /\ NULL \notin Nat
  BY PlatformAssumption
<1>2. Cardinality(0 .. TableSize - 1) = TableSize
  BY <1>1, FS_Interval
<1> QED
  BY <1>1, <1>2

LEMMA EmptyHold == BothHold(VectorNew(DEFAULT_SIZE), HashtableNew(TableSize), {})
<1>1. TableSize \in Nat \ {0} /\ DEFAULT_SIZE \in Nat \ {0}
  BY SizesOfTables
<1>2. VectorHolds(VectorNew(DEFAULT_SIZE), {})
  <2> DEFINE v == VectorNew(DEFAULT_SIZE)
  <2>1. /\ v.array = [i \in 0 .. DEFAULT_SIZE - 1 |-> NULL] /\ v.items = 0 /\ v.growthRate = DEFAULT_SIZE
        /\ v = [array |-> v.array, items |-> v.items, growthRate |-> v.growthRate]
    BY DEF VectorNew
  <2>2. v.array \in [0 .. DEFAULT_SIZE - 1 -> Nat \cup {NULL}]
    BY <2>1
  <2>3. Places(v) = {}
    BY <2>1 DEF Places
  <2> HIDE DEF v
  <2> QED
    <3>1. VectorHolds(v, {})
      BY <1>1, <2>1, <2>2, <2>3 DEF VectorHolds
    <3> QED
      BY <3>1 DEF v
<1>3. TableHolds(HashtableNew(TableSize), {}) /\ HashtableNew(TableSize).items = 0
  <2> DEFINE h == HashtableNew(TableSize)
  <2>1. /\ h.buckets = [b \in 0 .. TableSize - 1 |-> << >>] /\ h.items = 0
        /\ h = [buckets |-> h.buckets, items |-> h.items]
    BY DEF HashtableNew
  <2>2. h.buckets \in Chains
    BY <2>1 DEF Chains
  <2>3. \A b \in 0 .. TableSize - 1 : ChainHolds(h.buckets[b], b, {})
    BY <2>1 DEF ChainHolds
  <2> HIDE DEF h
  <2> QED
    <3>1. TableHolds(h, {}) /\ h.items = 0
      BY <2>1, <2>2, <2>3 DEF TableHolds
    <3> QED
      BY <3>1 DEF h
<1> QED
  BY <1>2, <1>3 DEF BothHold, VectorNew

LEMMA GrownHolds ==
  ASSUME NEW v, NEW L, VectorHolds(v, L)
  PROVE  /\ VectorHolds(Grown(v), L) /\ Grown(v).items = v.items /\ Grown(v).growthRate = v.growthRate
         /\ \E size \in Nat : v.items < size /\ Grown(v).array \in [0 .. size - 1 -> Nat \cup {NULL}]
         /\ \A i \in Places(v) : Grown(v).array[i] = v.array[i]
<1> DEFINE w == Grown(v)
<1>1. /\ v = [array |-> v.array, items |-> v.items, growthRate |-> v.growthRate]
      /\ v.items \in Nat /\ v.growthRate \in Nat \ {0}
  BY DEF VectorHolds
<1>2. PICK size \in Nat : v.items <= size /\ v.array \in [0 .. size - 1 -> Nat \cup {NULL}]
  BY DEF VectorHolds
<1>3. CASE v.items \in DOMAIN v.array
  <2>1. w = v
    BY <1>3 DEF Grown
  <2>2. v.items < size
    BY <1>1, <1>2, <1>3
  <2> QED
    BY <1>2, <2>1, <2>2
<1>4. CASE v.items \notin DOMAIN v.array
  <2> DEFINE s == v.items + v.growthRate
             a == [i \in 0 .. v.items + v.growthRate - 1 |->
                     IF i \in DOMAIN v.array THEN v.array[i] ELSE NULL]
  <2>1. w = [array |-> a, items |-> v.items, growthRate |-> v.growthRate]
    <3>1. w = [v EXCEPT !.array = a]
      BY <1>4 DEF Grown
    <3> HIDE DEF a, w
    <3> QED
      BY <1>1, <3>1, VectorUpdated
  <2>2. s \in Nat /\ v.items < s
    BY <1>1
  <2>3. a \in [0 .. s - 1 -> Nat \cup {NULL}]
    <3>1. s - 1 = v.items + v.growthRate - 1
      BY <1>1
    <3>2. \A i \in DOMAIN v.array : v.array[i] \in Nat \cup {NULL}
      BY <1>2
    <3> QED
      BY <3>1, <3>2
  <2>4. \A i \in Places(v) : a[i] = v.array[i]
    BY <1>1, <1>2, <2>2 DEF Places
  <2>5. Places(w) = Places(v) /\ w.array = a /\ w.items = v.items /\ w.growthRate = v.growthRate
    BY <2>1 DEF Places
  <2> HIDE DEF a, s, w
  <2>6. VectorHolds(w, L)
    BY <1>1, <2>1, <2>2, <2>3, <2>4, <2>5 DEF VectorHolds
  <2> QED
    BY <2>2, <2>3, <2>4, <2>5, <2>6 DEF w
<1> QED
  BY <1>3, <1>4

LEMMA AddHolds ==
  ASSUME NEW v, NEW L, VectorHolds(v, L), NEW x \in Nat, x \notin L
  PROVE  VectorHolds(VectorAdd(v, x), L \cup {x}) /\ VectorAdd(v, x).items = v.items + 1
<1> DEFINE g == Grown(v)
           w == VectorAdd(v, x)
           n == v.items
<1>1. VectorHolds(g, L) /\ g.items = n /\ g.growthRate = v.growthRate
  BY GrownHolds
<1>2. PICK size \in Nat : n < size /\ g.array \in [0 .. size - 1 -> Nat \cup {NULL}]
  BY GrownHolds
<1>3. w = [[g EXCEPT !.array = [@ EXCEPT ![n] = x]] EXCEPT !.items = @ + 1]
  BY DEF VectorAdd
<1> HIDE DEF g
<1>4. /\ g = [array |-> g.array, items |-> g.items, growthRate |-> g.growthRate]
      /\ n \in Nat /\ g.growthRate \in Nat \ {0}
  BY <1>1 DEF VectorHolds
<1>5. w = [array |-> [g.array EXCEPT ![n] = x], items |-> n + 1, growthRate |-> g.growthRate]
  BY <1>1, <1>3, <1>4
<1> HIDE DEF w, n
<1>6. /\ w.array = [g.array EXCEPT ![n] = x] /\ w.items = n + 1 /\ w.growthRate = g.growthRate
      /\ w = [array |-> w.array, items |-> w.items, growthRate |-> w.growthRate]
  BY <1>5
<1>7. /\ w.array \in [0 .. size - 1 -> Nat \cup {NULL}] /\ w.items <= size
      /\ w.array[n] = x /\ \A i \in 0 .. n - 1 : w.array[i] = g.array[i]
  BY <1>2, <1>4, <1>6
<1>8. Places(g) = 0 .. n - 1 /\ Places(w) = 0 .. n
  BY <1>1, <1>4, <1>6 DEF Places
<1>9. /\ \A i \in 0 .. n - 1 : g.array[i] \in L
      /\ \A i, j \in 0 .. n - 1 : g.array[i] = g.array[j] => i = j
      /\ \A y \in L : \E i \in 0 .. n - 1 : g.array[i] = y
  BY <1>1, <1>8 DEF VectorHolds
<1>10. \A i \in 0 .. n : i = n \/ i \in 0 .. n - 1
  BY <1>4
<1>11. \A i \in Places(w) : w.array[i] \in L \cup {x}
  BY <1>7, <1>8, <1>9, <1>10
<1>12. \A i, j \in Places(w) : w.array[i] = w.array[j] => i = j
  BY <1>7, <1>8, <1>9, <1>10
<1>13. \A y \in L \cup {x} : \E i \in Places(w) : w.array[i] = y
  <2>1. n \in Places(w) /\ \A i \in 0 .. n - 1 : i \in Places(w)
    BY <1>4, <1>8
  <2> QED
    BY <1>7, <1>9, <2>1
<1>14. w.items \in Nat /\ w.growthRate \in Nat \ {0}
  BY <1>4, <1>6
<1> QED
  BY <1>6, <1>7, <1>11, <1>12, <1>13, <1>14 DEF VectorHolds, w, n

LEMMA IndexHolds ==
  ASSUME NEW v, NEW L, VectorHolds(v, L), NEW k \in Places(v)
  PROVE  VectorIndexOf(v, v.array[k]) = k
<1> DEFINE at == {i \in 0 .. (v.items - 1) : v.array[i] = v.array[k]}
<1>1. at = {k} /\ k \in Int
  BY DEF VectorHolds, Places
<1>2. \A i \in at : (\A j \in at : i <= j) <=> i = k
  BY <1>1
<1> HIDE DEF at
<1>3. (CHOOSE i \in at : \A j \in at : i <= j) = k
  BY <1>1, <1>2
<1> QED
  BY <1>1, <1>3 DEF VectorIndexOf, at

LEMMA TakeHolds ==
  ASSUME NEW v, NEW L, VectorHolds(v, L), NEW k \in Places(v)
  PROVE  LET w == VectorTake(v, k)
         IN  /\ VectorHolds(w, L \ {v.array[k]}) /\ w.items = v.items - 1
             /\ DOMAIN w.array = DOMAIN v.array /\ w.growthRate = v.growthRate
             /\ \A i \in Places(w) : w.array[i] = IF i < k THEN v.array[i] ELSE v.array[i + 1]
<1> DEFINE w == VectorTake(v, k)
           n == v.items
           a == [i \in DOMAIN v.array |-> IF i \in k .. (n - 2) THEN v.array[i + 1] ELSE v.array[i]]
<1>1. /\ v = [array |-> v.array, items |-> v.items, growthRate |-> v.growthRate]
      /\ n \in Nat /\ v.growthRate \in Nat \ {0}
  BY DEF VectorHolds
<1>2. PICK size \in Nat : n <= size /\ v.array \in [0 .. size - 1 -> Nat \cup {NULL}]
  BY DEF VectorHolds
<1>3. k \in Nat /\ k < n /\ k <= n - 1
  BY <1>1 DEF Places
<1>4. w = [array |-> a, items |-> n - 1, growthRate |-> v.growthRate]
  <2>1. w = [v EXCEPT !.items = n - 1, !.array = a]
    BY DEF VectorTake
  <2> HIDE DEF a, w, n
  <2> QED
    BY <1>1, <2>1, VectorUpdated
<1>5. a \in [0 .. size - 1 -> Nat \cup {NULL}]
  <2>1. \A i \in k .. (n - 2) : i + 1 \in 0 .. size - 1
    BY <1>1, <1>2, <1>3
  <2> QED
    BY <1>2, <2>1
<1> HIDE DEF w
<1>6. /\ w.array = a /\ w.items = n - 1 /\ w.growthRate = v.growthRate
      /\ w = [array |-> w.array, items |-> w.items, growthRate |-> w.growthRate]
  BY <1>4
<1>7. Places(w) = 0 .. n - 2 /\ Places(v) = 0 .. n - 1 /\ n - 1 \in Nat
  BY <1>1, <1>3, <1>6 DEF Places
<1>18. DOMAIN w.array = DOMAIN v.array
  BY <1>6
<1>8. \A i \in Places(w) : w.array[i] = IF i < k THEN v.array[i] ELSE v.array[i + 1]
  BY <1>1, <1>2, <1>3, <1>6, <1>7
<1> HIDE DEF a, n
<1> DEFINE from(i) == IF i < k THEN i ELSE i + 1
<1>9. \A i \in Places(w) : from(i) \in Places(v) /\ from(i) # k /\ w.array[i] = v.array[from(i)]
  BY <1>1, <1>3, <1>7, <1>8
<1>10. /\ \A i \in Places(v) : v.array[i] \in L
       /\ \A i, j \in Places(v) : v.array[i] = v.array[j] => i = j
       /\ \A x \in L : \E i \in Places(v) : v.array[i] = x
  BY DEF VectorHolds
<1>11. \A i, j \in Places(w) : from(i) = from(j) => i = j
  BY <1>7
<1>12. \A i \in Places(v) : i # k => \E j \in Places(w) : from(j) = i
  <2> SUFFICES ASSUME NEW i \in Places(v), i # k PROVE \E j \in Places(w) : from(j) = i
    OBVIOUS
  <2>1. CASE i < k
    <3>1. i \in Places(w) /\ from(i) = i
      BY <1>1, <1>3, <1>7, <2>1
    <3> QED
      BY <3>1
  <2>2. CASE i > k
    <3>1. i - 1 \in Places(w) /\ from(i - 1) = i
      BY <1>1, <1>3, <1>7, <2>2
    <3> QED
      BY <3>1
  <2>3. i \in Int /\ k \in Int
    BY <1>3, <1>7
  <2> QED
    BY <2>1, <2>2, <2>3
<1> HIDE DEF from
<1>13. \A i \in Places(w) : w.array[i] \in L \ {v.array[k]}
  BY <1>9, <1>10
<1>14. \A i, j \in Places(w) : w.array[i] = w.array[j] => i = j
  BY <1>9, <1>10, <1>11
<1>15. \A x \in L \ {v.array[k]} : \E i \in Places(w) : w.array[i] = x
  BY <1>9, <1>10, <1>12
<1>16. \E s \in Nat : w.items <= s /\ w.array \in [0 .. s - 1 -> Nat \cup {NULL}]
  BY <1>1, <1>2, <1>5, <1>6
<1>17. VectorHolds(w, L \ {v.array[k]})
  BY <1>1, <1>6, <1>7, <1>13, <1>14, <1>15, <1>16 DEF VectorHolds
<1> QED
  BY <1>6, <1>8, <1>17, <1>18 DEF w, n

LEMMA BucketsOfTables ==
  ASSUME NEW h, NEW L, TableHolds(h, L), NEW key \in Nat
  PROVE  /\ Bucket(h, key) = key % TableSize /\ key % TableSize \in 0 .. TableSize - 1
         /\ DOMAIN h.buckets = 0 .. TableSize - 1
<1>1. DOMAIN h.buckets = 0 .. TableSize - 1
  BY DEF TableHolds, Chains
<1>2. Cardinality(DOMAIN h.buckets) = TableSize
  BY <1>1, SizesOfTables
<1>3. Bucket(h, key) = key % TableSize
  BY <1>2 DEF Bucket
<1> QED
  BY <1>1, <1>3, SizesOfTables

(* A key is in its chain once, if the table holds it.                       *)
LEMMA InChainHolds ==
  ASSUME NEW h, NEW L, TableHolds(h, L), NEW key \in Nat
  PROVE  LET chain == h.buckets[Bucket(h, key)]
         IN  /\ key \notin L => InChain(h, key) = 0
             /\ key \in L => /\ InChain(h, key) \in 1 .. Len(chain) /\ InChain(h, key) # 0
                             /\ chain[InChain(h, key)].key = key
<1> DEFINE b == Bucket(h, key)
           chain == h.buckets[b]
           at == InChain(h, key)
<1>1. b \in 0 .. TableSize - 1 /\ b = key % TableSize
  BY BucketsOfTables
<1>2. ChainHolds(chain, b, L) /\ chain \in Seq(Pair)
  BY <1>1 DEF TableHolds, Chains
<1>3. at = IF key \in Keys(chain) THEN CHOOSE i \in DOMAIN chain : chain[i].key = key ELSE 0
  BY DEF InChain
<1> HIDE DEF at, chain, b
<1>4. DOMAIN chain = 1 .. Len(chain) /\ Len(chain) \in Nat
  BY <1>2
<1>5. CASE key \notin L
  <2>1. key \notin Keys(chain)
    BY <1>2, <1>5 DEF Keys, ChainHolds
  <2> QED
    BY <1>3, <1>5, <2>1 DEF at, chain, b
<1>6. CASE key \in L
  <2>1. \E i \in DOMAIN chain : chain[i].key = key
    BY <1>1, <1>2, <1>6 DEF ChainHolds
  <2>2. at \in DOMAIN chain /\ chain[at].key = key
    BY <1>3, <2>1 DEF Keys
  <2>3. at \in 1 .. Len(chain) /\ at # 0
    BY <1>4, <2>2
  <2> QED
    BY <1>6, <2>2, <2>3 DEF at, chain, b
<1> QED
  BY <1>5, <1>6

LEMMA GetHolds ==
  ASSUME NEW h, NEW L, TableHolds(h, L), NEW key \in Nat
  PROVE  HashtableGet(h, key) = IF key \in L THEN key ELSE NULL
<1> DEFINE b == Bucket(h, key)
           chain == h.buckets[b]
           at == InChain(h, key)
<1>1. b \in 0 .. TableSize - 1 /\ b = key % TableSize
  BY BucketsOfTables
<1>2. ChainHolds(chain, b, L) /\ chain \in Seq(Pair)
  BY <1>1 DEF TableHolds, Chains
<1>3. /\ key \notin L => at = 0
      /\ key \in L => at \in 1 .. Len(chain) /\ at # 0 /\ chain[at].key = key
  BY InChainHolds
<1>4. HashtableGet(h, key) = IF at = 0 THEN NULL ELSE chain[at].value
  BY DEF HashtableGet
<1> HIDE DEF at, chain, b
<1>5. key \in L => chain[at].value = key
  BY <1>2, <1>3 DEF ChainHolds
<1> QED
  BY <1>3, <1>4, <1>5

LEMMA ChainOfOthers ==
  ASSUME NEW c, NEW chain, NEW L \in SUBSET Nat, NEW M \in SUBSET Nat, ChainHolds(chain, c, L),
         \A x \in Nat : x % TableSize = c => (x \in M <=> x \in L)
  PROVE  ChainHolds(chain, c, M)
<1>1. \A i \in DOMAIN chain : /\ chain[i].key \in M /\ chain[i].key % TableSize = c
                              /\ chain[i].value = chain[i].key
  BY DEF ChainHolds
<1>2. \A x \in M : x % TableSize = c => \E i \in DOMAIN chain : chain[i].key = x
  BY DEF ChainHolds
<1> QED
  BY <1>1, <1>2 DEF ChainHolds

LEMMA ChainsChanged ==
  ASSUME NEW h, NEW L, TableHolds(h, L), L \subseteq Nat, NEW key \in Nat, NEW M,
         \A x \in Nat \ {key} : x \in M <=> x \in L, M \subseteq Nat,
         NEW chain \in Seq(Pair), NEW n \in Int,
         ChainHolds(chain, key % TableSize, M), NEW w,
         w = [buckets |-> [h.buckets EXCEPT ![key % TableSize] = chain], items |-> n]
  PROVE  TableHolds(w, M)
<1> DEFINE b == key % TableSize
<1>1. b \in 0 .. TableSize - 1
  BY BucketsOfTables
<1>2. h.buckets \in Chains /\ \A c \in 0 .. TableSize - 1 : ChainHolds(h.buckets[c], c, L)
  BY DEF TableHolds
<1>3. w.buckets \in Chains
  BY <1>2 DEF Chains
<1>4. ASSUME NEW c \in 0 .. TableSize - 1 PROVE ChainHolds(w.buckets[c], c, M)
  <2>1. CASE c = b
    BY <1>1, <1>2, <2>1 DEF Chains
  <2>2. CASE c # b
    <3>1. w.buckets[c] = h.buckets[c]
      BY <1>2, <2>2 DEF Chains
    <3>2. ChainHolds(h.buckets[c], c, L)
      BY <1>2
    <3>3. \A x \in Nat : x % TableSize = c => (x \in M <=> x \in L)
      BY <2>2
    <3> QED
      BY <3>1, <3>2, <3>3, ChainOfOthers
  <2> QED
    BY <2>1, <2>2
<1> QED
  BY <1>3, <1>4 DEF TableHolds

LEMMA PutHolds ==
  ASSUME NEW h, NEW L, TableHolds(h, L), L \subseteq Nat, NEW key \in Nat, key \notin L
  PROVE  /\ TableHolds(HashtablePut(h, key, key), L \cup {key})
         /\ HashtablePut(h, key, key).items = h.items + 1
<1> DEFINE b == Bucket(h, key)
           chain == h.buckets[b]
           new == [key |-> key, value |-> key]
           longer == Append(chain, new)
           w == HashtablePut(h, key, key)
<1>1. b \in 0 .. TableSize - 1 /\ b = key % TableSize /\ DOMAIN h.buckets = 0 .. TableSize - 1
  BY BucketsOfTables
<1>2. ChainHolds(chain, b, L) /\ chain \in Seq(Pair) /\ h.items \in Int
      /\ h = [buckets |-> h.buckets, items |-> h.items]
  BY <1>1 DEF TableHolds, Chains
<1>3. InChain(h, key) = 0
  BY InChainHolds
<1>4. w = [h EXCEPT !.buckets[b] = longer, !.items = @ + 1]
  BY <1>3 DEF HashtablePut
<1>5. w = [buckets |-> [h.buckets EXCEPT ![b] = longer], items |-> h.items + 1]
  <2> HIDE DEF w, longer, b
  <2> QED
    BY <1>2, <1>4
<1> HIDE DEF chain, w
<1>6. /\ longer \in Seq(Pair) /\ Len(longer) = Len(chain) + 1 /\ Len(chain) \in Nat
      /\ longer[Len(chain) + 1] = new /\ \A i \in 1 .. Len(chain) : longer[i] = chain[i]
      /\ DOMAIN longer = 1 .. Len(chain) + 1 /\ DOMAIN chain = 1 .. Len(chain)
  BY <1>2 DEF Pair
<1> HIDE DEF longer
<1>7. ChainHolds(longer, b, L \cup {key})
  <2>1. \A i \in DOMAIN longer : i = Len(chain) + 1 \/ i \in DOMAIN chain
    BY <1>6
  <2>2. \A i \in DOMAIN chain : i \in DOMAIN longer /\ longer[i] = chain[i] /\ longer[i].key \in L
    BY <1>2, <1>6 DEF ChainHolds
  <2>3. longer[Len(chain) + 1].key = key /\ longer[Len(chain) + 1].value = key
        /\ Len(chain) + 1 \in DOMAIN longer
    BY <1>6
  <2>4. \A i \in DOMAIN longer : /\ longer[i].key \in L \cup {key} /\ longer[i].key % TableSize = b
                                 /\ longer[i].value = longer[i].key
    BY <1>1, <1>2, <2>1, <2>2, <2>3 DEF ChainHolds
  <2>5. \A i, j \in DOMAIN longer : longer[i].key = longer[j].key => i = j
    BY <1>2, <2>1, <2>2, <2>3 DEF ChainHolds
  <2>6. \A x \in L \cup {key} : x % TableSize = b => \E i \in DOMAIN longer : longer[i].key = x
    BY <1>2, <2>2, <2>3 DEF ChainHolds
  <2> QED
    BY <2>4, <2>5, <2>6 DEF ChainHolds
<1>8. TableHolds(w, L \cup {key})
  <2>1. /\ \A x \in Nat \ {key} : x \in L \cup {key} <=> x \in L
        /\ L \cup {key} \subseteq Nat /\ h.items + 1 \in Int
        /\ ChainHolds(longer, key % TableSize, L \cup {key})
        /\ w = [buckets |-> [h.buckets EXCEPT ![key % TableSize] = longer], items |-> h.items + 1]
    BY <1>1, <1>2, <1>5, <1>7
  <2> QED
    BY <1>6, <2>1, ChainsChanged
<1> QED
  BY <1>5, <1>8 DEF w

LEMMA RemoveHolds ==
  ASSUME NEW h, NEW L, TableHolds(h, L), L \subseteq Nat, NEW key \in L
  PROVE  /\ TableHolds(HashtableRemove(h, key), L \ {key})
         /\ HashtableRemove(h, key).items = h.items - 1
<1> DEFINE b == Bucket(h, key)
           chain == h.buckets[b]
           at == InChain(h, key)
           shorter == RemoveAt(chain, at)
           w == HashtableRemove(h, key)
<1>1. b \in 0 .. TableSize - 1 /\ b = key % TableSize /\ DOMAIN h.buckets = 0 .. TableSize - 1
  BY BucketsOfTables
<1>2. ChainHolds(chain, b, L) /\ chain \in Seq(Pair) /\ h.items \in Int
      /\ h = [buckets |-> h.buckets, items |-> h.items]
  BY <1>1 DEF TableHolds, Chains
<1>3. at \in 1 .. Len(chain) /\ at # 0 /\ chain[at].key = key
  BY InChainHolds
<1>4. w = [h EXCEPT !.buckets[b] = shorter, !.items = @ - 1]
  BY <1>3 DEF HashtableRemove
<1>5. w = [buckets |-> [h.buckets EXCEPT ![b] = shorter], items |-> h.items - 1]
  <2> HIDE DEF w, shorter, b
  <2> QED
    BY <1>2, <1>4
<1> HIDE DEF chain, w, at
<1>6. /\ shorter \in Seq(Pair) /\ Len(shorter) = Len(chain) - 1
      /\ \A j \in 1 .. (Len(chain) - 1) : shorter[j] = IF j < at THEN chain[j] ELSE chain[j + 1]
  BY <1>2, <1>3, RemoveAtFacts
<1> HIDE DEF shorter
<1> DEFINE from(i) == IF i < at THEN i ELSE i + 1
<1>7. Len(chain) \in Nat /\ DOMAIN chain = 1 .. Len(chain) /\ DOMAIN shorter = 1 .. Len(chain) - 1
  BY <1>2, <1>6
<1>8. \A i \in DOMAIN shorter : from(i) \in DOMAIN chain /\ from(i) # at /\ shorter[i] = chain[from(i)]
  BY <1>3, <1>6, <1>7
<1>9. \A i, j \in DOMAIN shorter : from(i) = from(j) => i = j
  BY <1>3, <1>7
<1>10. \A i \in DOMAIN chain : i # at => \E j \in DOMAIN shorter : from(j) = i
  <2> SUFFICES ASSUME NEW i \in DOMAIN chain, i # at PROVE \E j \in DOMAIN shorter : from(j) = i
    OBVIOUS
  <2>1. CASE i < at
    <3>1. i \in DOMAIN shorter /\ from(i) = i
      BY <1>3, <1>7, <2>1
    <3> QED
      BY <3>1
  <2>2. CASE i > at
    <3>1. i - 1 \in DOMAIN shorter /\ from(i - 1) = i
      BY <1>3, <1>7, <2>2
    <3> QED
      BY <3>1
  <2> QED
    BY <1>3, <1>7, <2>1, <2>2
<1> HIDE DEF from
<1>11. ChainHolds(shorter, b, L \ {key})
  <2>1. \A i \in DOMAIN shorter : /\ shorter[i].key \in L \ {key} /\ shorter[i].key % TableSize = b
                                  /\ shorter[i].value = shorter[i].key
    BY <1>2, <1>3, <1>7, <1>8 DEF ChainHolds
  <2>2. \A i, j \in DOMAIN shorter : shorter[i].key = shorter[j].key => i = j
    BY <1>2, <1>8, <1>9 DEF ChainHolds
  <2>3. \A x \in L \ {key} : x % TableSize = b => \E i \in DOMAIN shorter : shorter[i].key = x
    BY <1>2, <1>3, <1>8, <1>10 DEF ChainHolds
  <2> QED
    BY <2>1, <2>2, <2>3 DEF ChainHolds
<1>12. TableHolds(w, L \ {key})
  <2>1. /\ \A x \in Nat \ {key} : x \in L \ {key} <=> x \in L
        /\ L \ {key} \subseteq Nat /\ h.items - 1 \in Int /\ key \in Nat
        /\ ChainHolds(shorter, key % TableSize, L \ {key})
        /\ w = [buckets |-> [h.buckets EXCEPT ![key % TableSize] = shorter], items |-> h.items - 1]
    BY <1>1, <1>2, <1>5, <1>11
  <2> QED
    BY <1>6, <2>1, ChainsChanged
<1> QED
  BY <1>5, <1>12 DEF w

LEMMA RowRemoved ==
  ASSUME NEW v, NEW h, NEW L, BothHold(v, h, L), NEW i \in Places(v)
  PROVE  LET s == ProcessListRemove([table |-> h, vector |-> v], v.array[i])
         IN  /\ s = [table |-> s.table, vector |-> s.vector]
             /\ BothHold(s.vector, s.table, L \ {v.array[i]})
             /\ s.vector = VectorTake(v, i) /\ DOMAIN s.vector.array = DOMAIN v.array
<1> DEFINE k == v.array[i]
           s == ProcessListRemove([table |-> h, vector |-> v], k)
<1>1. VectorHolds(v, L) /\ TableHolds(h, L) /\ L \subseteq Nat /\ h.items = v.items /\ v.items \in Nat
  BY DEF BothHold, VectorHolds
<1>2. k \in L /\ VectorIndexOf(v, k) = i
  BY <1>1, IndexHolds DEF VectorHolds
<1>3. s = [table |-> HashtableRemove(h, k), vector |-> VectorTake(v, i)]
  BY <1>2 DEF ProcessListRemove
<1>4. /\ VectorHolds(VectorTake(v, i), L \ {k}) /\ VectorTake(v, i).items = v.items - 1
      /\ DOMAIN VectorTake(v, i).array = DOMAIN v.array
  BY <1>1, TakeHolds
<1>5. /\ TableHolds(HashtableRemove(h, k), L \ {k})
      /\ HashtableRemove(h, k).items = h.items - 1
  BY <1>1, <1>2, RemoveHolds
<1> HIDE DEF s, k
<1>6. s.table = HashtableRemove(h, k) /\ s.vector = VectorTake(v, i)
  BY <1>3
<1>7. BothHold(s.vector, s.table, L \ {k})
  BY <1>1, <1>4, <1>5, <1>6 DEF BothHold
<1> QED
  BY <1>3, <1>4, <1>6, <1>7 DEF s, k

(* What the sweep leaves is what was updated.                               *)
LEMMA SweepHolds ==
  ASSUME BothHold(processes, processTable, DOMAIN ps),
         \A k \in DOMAIN ps : ps[k].updated \in BOOLEAN
  PROVE  BothHold(Sweep.vector, Sweep.table, {k \in DOMAIN ps : ps[k].updated})
<1> DEFINE n == processes.items
           base == [table |-> processTable, vector |-> processes]
           A == [DOMAIN processes.array -> Nat \cup {NULL}]
           All == [table : [buckets : Chains, items : Int],
                   vector : [array : A, items : Int, growthRate : Nat]]
           Held(s, L) == BothHold(s.vector, s.table, L)
           S == {s \in All : \E L \in SUBSET DOMAIN ps : Held(s, L)}
           turn(k) == n - k
           F == [k \in 1 .. n |-> [s \in S |-> Swept(s, turn(k))]]
           Cur(g) == g = [k \in 0 .. n |-> IF k = 0 THEN base ELSE Swept(g[k - 1], SweepOrder(processes)[k])]
           cur == CHOOSE g : Cur(g)
           up == {k \in DOMAIN ps : ps[k].updated}
<1>1. n \in Nat /\ \A k \in 1 .. n : SweepOrder(processes)[k] = turn(k) /\ turn(k) \in Nat
  BY DEF BothHold, VectorHolds, SweepOrder
<1>2. ASSUME NEW s \in All, NEW L \in SUBSET DOMAIN ps, Held(s, L), NEW i \in Nat
      PROVE  /\ Swept(s, i) \in S
             /\ i \in Places(s.vector) /\ ~ps[s.vector.array[i]].updated =>
                  /\ Held(Swept(s, i), L \ {s.vector.array[i]})
                  /\ Swept(s, i).vector = VectorTake(s.vector, i)
             /\ ~(i \in Places(s.vector) /\ ~ps[s.vector.array[i]].updated) => Swept(s, i) = s
  <2> DEFINE k == s.vector.array[i]
             r == ProcessListRemove(s, k)
  <2>1. Swept(s, i) = IF i >= s.vector.items THEN s ELSE IF ps[k].updated THEN s ELSE r
    BY DEF Swept
  <2>2. i \in Places(s.vector) <=> ~(i >= s.vector.items)
    BY DEF Places
  <2>3. CASE ~(i \in Places(s.vector) /\ ~ps[k].updated)
    <3>1. Swept(s, i) = s
      BY <2>1, <2>2, <2>3
    <3>2. s \in S
      BY <1>2
    <3> QED
      BY <2>3, <3>1, <3>2
  <2>4. CASE i \in Places(s.vector) /\ ~ps[k].updated
    <3>1. Swept(s, i) = r
      BY <2>1, <2>2, <2>4
    <3>2. s = [table |-> s.table, vector |-> s.vector]
      OBVIOUS
    <3>3. /\ r = [table |-> r.table, vector |-> r.vector] /\ Held(r, L \ {k})
          /\ r.vector = VectorTake(s.vector, i) /\ DOMAIN r.vector.array = DOMAIN s.vector.array
      <4> HIDE DEF All
      <4> DEFINE q == ProcessListRemove([table |-> s.table, vector |-> s.vector], k)
      <4>1. /\ q = [table |-> q.table, vector |-> q.vector]
            /\ BothHold(q.vector, q.table, L \ {k})
            /\ q.vector = VectorTake(s.vector, i) /\ DOMAIN q.vector.array = DOMAIN s.vector.array
        BY <1>2, <2>4, RowRemoved
      <4>2. q = r
        BY DEF ProcessListRemove
      <4> QED
        BY <4>1, <4>2
    <3> HIDE DEF r, k
    <3>4. r.vector \in [array : A, items : Int, growthRate : Nat]
      <4>1. PICK size \in Nat : r.vector.array \in [0 .. size - 1 -> Nat \cup {NULL}]
        BY <3>3 DEF BothHold, VectorHolds
      <4>2. DOMAIN s.vector.array = DOMAIN processes.array
        OBVIOUS
      <4>3. r.vector.array \in A
        BY <3>3, <4>1, <4>2
      <4> QED
        BY <3>3, <4>3 DEF BothHold, VectorHolds
    <3>5. r.table \in [buckets : Chains, items : Int]
      BY <3>3 DEF BothHold, TableHolds
    <3>6. r \in All
      BY <3>3, <3>4, <3>5
    <3>7. r \in S
      BY <3>3, <3>6
    <3> QED
      BY <2>4, <3>1, <3>3, <3>7 DEF k
  <2> QED
    BY <2>3, <2>4
<1>3. base \in S
  <2>1. processes \in [array : A, items : Int, growthRate : Nat]
    <3>1. PICK size \in Nat : processes.array \in [0 .. size - 1 -> Nat \cup {NULL}]
      BY DEF BothHold, VectorHolds
    <3>2. processes.array \in A
      BY <3>1
    <3> QED
      BY <3>2 DEF BothHold, VectorHolds
  <2>2. processTable \in [buckets : Chains, items : Int]
    BY DEF BothHold, TableHolds
  <2>3. base \in All /\ Held(base, DOMAIN ps)
    BY <2>1, <2>2
  <2> QED
    BY <2>3
<1> HIDE DEF All, Held, turn, base
<1>4. F \in [1 .. n -> [S -> S]]
  BY <1>1, <1>2
<1>5. PICK f : IsLoop(f, base, F, S, n)
  <2> HIDE DEF F, S, n
  <2> QED
    BY <1>1, <1>3, <1>4, LoopRuns
<1>6. f \in [0 .. n -> S] /\ f[0] = base /\ \A k \in 1 .. n : f[k] = Swept(f[k - 1], turn(k))
  <2> HIDE DEF S
  <2>1. f \in [0 .. n -> S] /\ f[0] = base /\ \A k \in 1 .. n : f[k] = F[k][f[k - 1]]
    BY <1>5 DEF IsLoop
  <2>2. \A k \in 1 .. n : f[k - 1] \in S
    BY <1>1, <2>1
  <2> QED
    BY <2>1, <2>2
<1>7. Cur(f)
  <2> HIDE DEF S, F
  <2>1. \A k \in 0 .. n : f[k] = IF k = 0 THEN base ELSE Swept(f[k - 1], SweepOrder(processes)[k])
    BY <1>1, <1>6
  <2> QED
    BY <1>6, <2>1
<1>8. Cur(cur)
  <2> HIDE DEF Cur
  <2> QED
    BY <1>7, Zenon
<1>9. Sweep = cur[n]
  BY Zenon DEF Sweep, base
<1> HIDE DEF cur
<1>10. cur = [k \in 0 .. n |-> IF k = 0 THEN base ELSE Swept(cur[k - 1], SweepOrder(processes)[k])]
  BY <1>8
<1> HIDE DEF Cur, F, S
<1>11. cur[0] = base /\ \A k \in 1 .. n : cur[k] = Swept(cur[k - 1], turn(k))
  BY <1>1, <1>10
<1> DEFINE Up(s, i) == \A j \in Places(s.vector) : j >= i => ps[s.vector.array[j]].updated
           P == {k \in 0 .. n : /\ cur[k] \in All /\ Up(cur[k], turn(k))
                                /\ \E L \in SUBSET DOMAIN ps : up \subseteq L /\ Held(cur[k], L)}
<1>12. 0 \in P
  <2>1. base \in All
    BY <1>3 DEF S
  <2>2. Held(base, DOMAIN ps) /\ up \subseteq DOMAIN ps
    BY DEF Held, base
  <2>3. Up(base, turn(0))
    BY <1>1 DEF base, turn, Places
  <2> QED
    BY <1>1, <1>11, <2>1, <2>2, <2>3
<1>13. ASSUME NEW k \in 1 .. n, k - 1 \in P PROVE k \in P
  <2> DEFINE s == cur[k - 1]
             i == turn(k)
             w == Swept(s, i)
  <2>1. PICK L \in SUBSET DOMAIN ps : up \subseteq L /\ Held(s, L)
    BY <1>13
  <2>2. s \in All /\ Up(s, i + 1) /\ i \in Nat
    BY <1>1, <1>13 DEF turn
  <2>3. cur[k] = w
    BY <1>11
  <2>4. w \in All
    BY <1>2, <2>1, <2>2 DEF S
  <2>5. VectorHolds(s.vector, L)
    BY <2>1 DEF Held, BothHold
  <2> DEFINE x == s.vector.array[i]
  <2>6. CASE i \in Places(s.vector) /\ ~ps[x].updated
    <3>1. Held(w, L \ {x}) /\ w.vector = VectorTake(s.vector, i)
      BY <1>2, <2>1, <2>2, <2>6
    <3>2. w.vector.items = s.vector.items - 1 /\ \A j \in Places(w.vector) :
            w.vector.array[j] = IF j < i THEN s.vector.array[j] ELSE s.vector.array[j + 1]
      <4> DEFINE t == VectorTake(s.vector, i)
      <4>1. t.items = s.vector.items - 1 /\ \A j \in Places(t) :
              t.array[j] = IF j < i THEN s.vector.array[j] ELSE s.vector.array[j + 1]
        BY <2>5, <2>6, TakeHolds
      <4>2. w.vector = t
        BY <3>1
      <4> HIDE DEF t, w
      <4> QED
        BY <4>1, <4>2
    <3>3. ASSUME NEW j \in Places(w.vector), j >= i PROVE ps[w.vector.array[j]].updated
      <4>1. j + 1 \in Places(s.vector) /\ j + 1 >= i + 1 /\ ~(j < i)
        BY <2>2, <2>5, <3>2, <3>3 DEF Places, VectorHolds
      <4> QED
        BY <2>2, <3>2, <4>1
    <3>4. up \subseteq L \ {x} /\ L \ {x} \subseteq DOMAIN ps
      BY <2>1, <2>6
    <3> QED
      BY <2>3, <2>4, <3>1, <3>3, <3>4
  <2>7. CASE ~(i \in Places(s.vector) /\ ~ps[x].updated)
    <3>1. w = s
      BY <1>2, <2>1, <2>2, <2>7
    <3>2. \A j \in Places(s.vector) : j >= i => j = i \/ j >= i + 1
      BY <2>2 DEF Places
    <3>3. Up(s, i)
      BY <2>2, <2>7, <3>2
    <3> QED
      BY <2>1, <2>3, <2>4, <3>1, <3>3
  <2> QED
    BY <2>6, <2>7
<1>14. n \in P
  <2> HIDE DEF P
  <2> QED
    BY <1>1, <1>12, <1>13, EachTurn
<1>15. PICK L \in SUBSET DOMAIN ps : up \subseteq L /\ Held(cur[n], L)
  BY <1>14
<1>16. Up(cur[n], 0)
  BY <1>1, <1>14 DEF turn
<1>17. L = up
  <2>1. \A y \in L : \E j \in Places(cur[n].vector) : cur[n].vector.array[j] = y /\ j >= 0
    BY <1>15 DEF Held, BothHold, VectorHolds, Places
  <2> QED
    BY <1>15, <1>16, <2>1
<1> QED
  BY <1>9, <1>15, <1>17 DEF Held

-----------------------------------------------------------------------------
(* Sequences that are put together from sets and from other sequences.      *)

LEMMA SetToSeqIsAll ==
  ASSUME NEW S, IsFiniteSet(S)
  PROVE  /\ SetToSeq(S) \in Seq(S) /\ SetToSeq(S) \in [1..Cardinality(S) -> S]
         /\ ToSet(SetToSeq(S)) = S /\ Cardinality(S) \in Nat
<1> DEFINE n == Cardinality(S)
           s == SetToSeq(S)
<1>1. n \in Nat /\ ExistsBijection(1..n, S)
  BY FS_CardinalityType
<1>2. \E f \in [1..n -> S] : IsInjective(f)
  BY <1>1 DEF ExistsBijection, Bijection, Injection
<1>3. s \in [1..n -> S] /\ IsInjective(s)
  BY <1>2 DEF SetToSeq
<1> HIDE DEF n, s
<1>4. s \in Surjection(1..n, S)
  <2>1. s \in Injection(1..n, S)
    BY <1>3 DEF Injection
  <2>2. Cardinality(1..n) = n
    BY <1>1, FS_Interval
  <2> QED
    BY <1>1, <2>1, <2>2, FS_Injection DEF n
<1>5. ToSet(s) = S
  BY <1>3, <1>4 DEF Surjection, ToSet
<1>6. s \in Seq(S)
  BY <1>1, <1>3
<1> QED
  BY <1>1, <1>3, <1>5, <1>6 DEF n, s

LEMMA ToSetOfConcat ==
  ASSUME NEW S, NEW s \in Seq(S), NEW t \in Seq(S)
  PROVE  s \o t \in Seq(S) /\ ToSet(s \o t) = ToSet(s) \cup ToSet(t)
<1>1. /\ s \o t \in Seq(S) /\ Len(s \o t) = Len(s) + Len(t)
      /\ \A i \in 1..(Len(s) + Len(t)) : (s \o t)[i] = IF i <= Len(s) THEN s[i] ELSE t[i - Len(s)]
  BY ConcatProperties
<1> DEFINE u == s \o t
<1>2. /\ DOMAIN s = 1..Len(s) /\ DOMAIN t = 1..Len(t) /\ Len(s) \in Nat /\ Len(t) \in Nat
      /\ DOMAIN u = 1..(Len(s) + Len(t))
      /\ \A i \in 1..(Len(s) + Len(t)) : u[i] = IF i <= Len(s) THEN s[i] ELSE t[i - Len(s)]
  BY <1>1
<1> HIDE DEF u
<1>3. \A i \in DOMAIN u : \/ u[i] = s[i] /\ i \in DOMAIN s
                          \/ u[i] = t[i - Len(s)] /\ i - Len(s) \in DOMAIN t
  <2> SUFFICES ASSUME NEW i \in DOMAIN u
               PROVE  \/ u[i] = s[i] /\ i \in DOMAIN s
                      \/ u[i] = t[i - Len(s)] /\ i - Len(s) \in DOMAIN t
    OBVIOUS
  <2>1. i \in 1..(Len(s) + Len(t))
    BY <1>2
  <2>2. CASE i <= Len(s)
    <3>1. i \in DOMAIN s
      BY <1>2, <2>1, <2>2
    <3> QED
      BY <1>2, <2>1, <2>2, <3>1
  <2>3. CASE ~(i <= Len(s))
    <3>1. i - Len(s) \in DOMAIN t
      BY <1>2, <2>1, <2>3
    <3> QED
      BY <1>2, <2>1, <2>3, <3>1
  <2> QED
    BY <2>2, <2>3
<1>4. \A i \in DOMAIN s : i \in DOMAIN u /\ u[i] = s[i]
  BY <1>2
<1>5. \A i \in DOMAIN t : i + Len(s) \in DOMAIN u /\ u[i + Len(s)] = t[i]
  <2> SUFFICES ASSUME NEW i \in DOMAIN t PROVE i + Len(s) \in DOMAIN u /\ u[i + Len(s)] = t[i]
    OBVIOUS
  <2>1. i + Len(s) \in 1..(Len(s) + Len(t)) /\ ~(i + Len(s) <= Len(s)) /\ (i + Len(s)) - Len(s) = i
    BY <1>2
  <2> QED
    BY <1>2, <2>1
<1>6. ToSet(u) = ToSet(s) \cup ToSet(t)
  BY <1>3, <1>4, <1>5 DEF ToSet
<1> QED
  BY <1>1, <1>6 DEF u

LEMMA FlattenHolds ==
  ASSUME NEW S, NEW ss \in Seq(Seq(S))
  PROVE  /\ FlattenSeq(ss) \in Seq(S)
         /\ ToSet(FlattenSeq(ss)) = UNION {ToSet(ss[i]) : i \in DOMAIN ss}
<1> DEFINE n == Len(ss)
           F == [k \in 1..n |-> [s \in Seq(S) |-> s \o ss[k]]]
           Cur(g) == g = [i \in 1..n |-> IF i = 1 THEN ss[i] ELSE g[i - 1] \o ss[i]]
           cur == CHOOSE g : Cur(g)
           Before(k) == UNION {ToSet(ss[i]) : i \in 1..k}
<1>1. n \in Nat /\ DOMAIN ss = 1..n /\ \A k \in 1..n : ss[k] \in Seq(S)
  OBVIOUS
<1>2. CASE n = 0
  <2>1. FlattenSeq(ss) = ss
    BY <1>2 DEF FlattenSeq
  <2>2. DOMAIN ss = {} /\ ss \in Seq(S)
    BY <1>2
  <2>3. ToSet(ss) = {} /\ UNION {ToSet(ss[i]) : i \in DOMAIN ss} = {}
    BY <2>2 DEF ToSet
  <2> QED
    BY <2>1, <2>2, <2>3
<1>3. CASE n # 0
  <2>1. FlattenSeq(ss) = cur[n]
    BY <1>3, Zenon DEF FlattenSeq
  <2>2. F \in [1..n -> [Seq(S) -> Seq(S)]]
    BY <1>1, ConcatProperties
  <2> HIDE DEF n
  <2>3. PICK f : IsLoop(f, << >>, F, Seq(S), n)
    <3>1. << >> \in Seq(S)
      OBVIOUS
    <3> HIDE DEF F
    <3> QED
      BY <1>1, <2>2, <3>1, LoopRuns
  <2>4. f \in [0..n -> Seq(S)] /\ f[0] = << >> /\ \A k \in 1..n : f[k] = f[k - 1] \o ss[k]
    <3>1. f \in [0..n -> Seq(S)] /\ f[0] = << >> /\ \A k \in 1..n : f[k] = F[k][f[k - 1]]
      BY <2>3 DEF IsLoop
    <3>2. \A k \in 1..n : f[k - 1] \in Seq(S)
      BY <1>1, <3>1
    <3> QED
      BY <3>1, <3>2
  <2> HIDE DEF F
  <2>5. ASSUME 1 \in 1..n PROVE f[1] = ss[1]
    <3>1. f[1] = f[0] \o ss[1] /\ f[0] = << >>
      <4>1. 1 - 1 = 0
        OBVIOUS
      <4> QED
        BY <2>4, <2>5, <4>1
    <3>2. ss[1] \in Seq(S)
      BY <1>1, <2>5
    <3>3. \A s \in Seq(S) : << >> \o s = s
      OBVIOUS
    <3> QED
      BY <3>1, <3>2, <3>3
  <2>6. Cur([i \in 1..n |-> f[i]])
    <3> DEFINE g == [i \in 1..n |-> f[i]]
    <3>1. \A i \in 1..n : g[i] = IF i = 1 THEN ss[i] ELSE g[i - 1] \o ss[i]
      <4> SUFFICES ASSUME NEW i \in 1..n PROVE g[i] = IF i = 1 THEN ss[i] ELSE g[i - 1] \o ss[i]
        OBVIOUS
      <4>1. CASE i = 1
        BY <2>5, <4>1
      <4>2. CASE i # 1
        <5>1. i - 1 \in 1..n
          BY <1>1, <4>2
        <5> QED
          BY <2>4, <4>2, <5>1
      <4> QED
        BY <4>1, <4>2
    <3>2. DOMAIN g = 1..n /\ g = [i \in 1..n |-> g[i]]
      OBVIOUS
    <3> HIDE DEF g
    <3>3. Cur(g)
      BY <3>1, <3>2
    <3> QED
      BY <3>3 DEF g
  <2>7. Cur(cur)
    <3> DEFINE g == [i \in 1..n |-> f[i]]
    <3>1. Cur(g)
      BY <2>6
    <3> HIDE DEF Cur, g
    <3> QED
      BY <3>1, Zenon
  <2> HIDE DEF cur
  <2>8. cur = [i \in 1..n |-> IF i = 1 THEN ss[i] ELSE cur[i - 1] \o ss[i]]
    BY <2>7
  <2> HIDE DEF Cur
  <2> DEFINE P == {k \in 0..n : k # 0 => cur[k] \in Seq(S) /\ ToSet(cur[k]) = Before(k)}
  <2>9. ASSUME NEW k \in 1..n, k - 1 \in P PROVE k \in P
    <3>1. CASE k = 1
      <4>1. cur[k] = ss[1]
        BY <2>8, <3>1
      <4>2. Before(k) = ToSet(ss[1])
        BY <3>1
      <4> QED
        BY <1>1, <3>1, <4>1, <4>2
    <3>2. CASE k # 1
      <4>1. k - 1 # 0 /\ k - 1 \in 1..n /\ ss[k] \in Seq(S)
        BY <1>1, <3>2
      <4>2. cur[k - 1] \in Seq(S) /\ ToSet(cur[k - 1]) = Before(k - 1)
        BY <2>9, <4>1
      <4>3. cur[k] = cur[k - 1] \o ss[k]
        BY <2>8, <3>2
      <4>4. cur[k] \in Seq(S) /\ ToSet(cur[k]) = Before(k - 1) \cup ToSet(ss[k])
        BY <4>1, <4>2, <4>3, ToSetOfConcat
      <4>5. Before(k) = Before(k - 1) \cup ToSet(ss[k])
        <5>1. \A i \in 1..k : i = k \/ i \in 1..(k - 1)
          BY <1>1
        <5>2. \A i \in 1..(k - 1) : i \in 1..k
          BY <1>1
        <5> QED
          BY <5>1, <5>2
      <4> QED
        BY <4>4, <4>5
    <3> QED
      BY <3>1, <3>2
  <2>10. 0 \in P
    BY <1>1
  <2>11. n \in P
    <3> HIDE DEF P
    <3>1. \A k \in 0..n : k \in P
      BY <1>1, <2>9, <2>10, EachTurn
    <3> QED
      BY <1>1, <3>1
  <2> QED
    BY <1>1, <1>3, <2>1, <2>11
<1> QED
  BY <1>2, <1>3

-----------------------------------------------------------------------------
(* The list of the other builds.                                            *)

Proc == [ppid : Pid \cup {0}, jid : Jid \cup {0}, task : Tasks[platform]]

ObjectType ==
  [pid : Nat, tgid : Nat, ppid : Nat, kernel : BOOLEAN, nlwp : Nat, cpu : Nat,
   running : BOOLEAN, show : BOOLEAN, updated : BOOLEAN, jid : Nat,
   jname : Jid \cup {NoName, NULL}, isLwp : BOOLEAN, timed : BOOLEAN, taskAccess : BOOLEAN]

EntryType == [pid : Pid, proc : Proc \cup {NULL}, lwp : Nat]

(* The row that visiting an entry gives, if it gives one, and what those    *)
(* that are still to be visited will give.                                  *)
Key(e) == IF platform = "solaris" THEN LwpPid(e.pid, e.lwp, e.proc.task.rep) ELSE e.pid
GivesRow(e) == e.proc # NULL /\ (platform = "solaris" => e.lwp < 1024)
Coming(s) == {Key(e) : e \in {f \in ToSet(s) : GivesRow(f)}}

AllRows == UNION {Rows(p) : p \in Pid}
Updated == {k \in DOMAIN ps : ps[k].updated}

SystemTyped ==
  /\ platform \in Platforms /\ os \in [Pid -> Proc \cup {NULL}]
  /\ jails \subseteq Jid /\ jailTable \subseteq Jid /\ other \subseteq Pid
  /\ settings \in [hideKernelThreads : BOOLEAN, hideUserlandThreads : BOOLEAN, sort : Sorts]

ListTyped ==
  /\ read \in [Pid -> Proc \cup {NULL}]
  /\ pc \in {"idle", "jails", "snapshot", "visit", "scanned", "sorted", "fatal"}
  /\ entries \in Seq(EntryType)
  /\ ps \in [DOMAIN ps -> ObjectType]
  /\ \A k \in DOMAIN ps : ps[k].pid = k /\ PidOf(k) \in Pid
  /\ fresh \subseteq DOMAIN ps

(* An entry is of a process as it was read; one not read yet is the only    *)
(* one of its process.                                                      *)
EntriesRight ==
  /\ pc # "visit" => entries = << >>
  /\ \A i \in DOMAIN entries : entries[i].proc # NULL => read[entries[i].pid] = entries[i].proc
  /\ \A i \in DOMAIN entries : entries[i].proc = NULL =>
        platform \in {"solaris", "unsupported"} /\ read[entries[i].pid] = NULL
  /\ \A i, j \in DOMAIN entries :
        entries[i].proc = NULL /\ entries[j].proc = NULL /\ entries[i].pid = entries[j].pid => i = j
  /\ platform = "unsupported" => \A i \in DOMAIN entries : entries[i].proc = NULL

(* During a scan the rows of what was read are those updated and those to   *)
(* come.                                                                    *)
RowsRight ==
  /\ pc # "visit" => Updated = {}
  /\ pc = "visit" => Updated \cup Coming(entries) = AllRows /\ fresh \subseteq Updated
  /\ pc \in {"jails", "snapshot"} => fresh = {} /\ \A p \in Pid : read[p] = NULL
  /\ Quiet => DOMAIN ps = AllRows

PlatformInv ==
  /\ SystemTyped /\ ListTyped /\ EntriesRight /\ RowsRight
  /\ BothHold(processes, processTable, DOMAIN ps)

LEMMA TailOf ==
  ASSUME NEW S, NEW s \in Seq(S), s # << >>
  PROVE  /\ Tail(s) \in Seq(S) /\ Head(s) = s[1] /\ Head(s) \in S /\ 1 \in DOMAIN s
         /\ DOMAIN s = 1..Len(s) /\ DOMAIN Tail(s) = 1..(Len(s) - 1) /\ Len(s) \in Nat \ {0}
         /\ \A i \in DOMAIN Tail(s) : i + 1 \in DOMAIN s /\ Tail(s)[i] = s[i + 1]
         /\ ToSet(s) = {Head(s)} \cup ToSet(Tail(s))
<1>1. /\ Tail(s) \in Seq(S) /\ Head(s) = s[1] /\ Len(s) \in Nat \ {0} /\ DOMAIN s = 1..Len(s)
      /\ Len(Tail(s)) = Len(s) - 1 /\ \A i \in 1..Len(Tail(s)) : Tail(s)[i] = s[i + 1]
  BY HeadTailProperties, EmptySeq
<1>2. 1 \in DOMAIN s /\ s[1] \in S /\ DOMAIN Tail(s) = 1..(Len(s) - 1)
  BY <1>1
<1> DEFINE t == Tail(s)
<1>3. DOMAIN t = 1..(Len(s) - 1) /\ \A i \in 1..(Len(s) - 1) : t[i] = s[i + 1]
  BY <1>1, <1>2
<1> HIDE DEF t
<1>4. \A i \in DOMAIN s : i = 1 \/ (i - 1 \in DOMAIN t /\ s[i] = t[i - 1])
  BY <1>1, <1>3
<1>5. \A i \in DOMAIN t : i + 1 \in DOMAIN s
  BY <1>1, <1>3
<1>6. ToSet(s) = {s[1]} \cup ToSet(t)
  <2>1. \A x : x \in ToSet(s) <=> \E i \in DOMAIN s : x = s[i]
    BY DEF ToSet
  <2>2. \A x : x \in ToSet(t) <=> \E i \in DOMAIN t : x = t[i]
    BY DEF ToSet
  <2>3. ASSUME NEW x \in ToSet(s) PROVE x \in {s[1]} \cup ToSet(t)
    BY <1>4, <2>1, <2>2, <2>3
  <2>4. ASSUME NEW x \in ToSet(t) PROVE x \in ToSet(s)
    BY <1>3, <1>5, <2>1, <2>2, <2>4
  <2>5. s[1] \in ToSet(s)
    BY <1>2, <2>1
  <2> QED
    BY <2>3, <2>4, <2>5
<1> QED
  BY <1>1, <1>2, <1>3, <1>5, <1>6 DEF t

LEMMA TasksTyped ==
  ASSUME platform \in Platforms, NEW t \in Tasks[platform]
  PROVE  /\ t.kernel \in BOOLEAN /\ t.rep \in Nat
         /\ t.lwps \subseteq Nat /\ t.busy \subseteq Nat
         /\ IsFiniteSet(t.lwps) /\ IsFiniteSet(t.busy)
         /\ Cardinality(t.lwps) \in Nat /\ Cardinality(t.busy) \in Nat
<1>1. /\ t \in [kernel : BOOLEAN, lwps : SUBSET Nat, rep : Nat, busy : SUBSET Nat]
      /\ IsFiniteSet(t.lwps) /\ IsFiniteSet(t.busy)
  BY PlatformAssumption
<1>2. Cardinality(t.lwps) \in Nat /\ Cardinality(t.busy) \in Nat
  BY <1>1, FS_CardinalityType
<1> QED
  BY <1>1, <1>2

LEMMA PidsTyped ==
  /\ Pid \subseteq Nat \ {0} /\ IsFiniteSet(Pid) /\ 1 \in Pid /\ Jid \subseteq Nat \ {0}
  /\ NULL \notin Nat
BY PlatformAssumption

LEMMA NumbersOfPids == \A x : x \in Pid \cup {0} \/ x \in Jid \cup {0} => x \in Nat
<1>1. \A x \in Pid : x \in Nat
  BY PidsTyped, Zenon
<1>2. \A x \in Jid : x \in Nat
  BY PidsTyped, Zenon
<1> QED
  BY <1>1, <1>2

\* The pid of a row says which process it is of.
LEMMA KeysOfEntries ==
  ASSUME platform \in Platforms, NEW e \in EntryType, GivesRow(e)
  PROVE  Key(e) \in Nat /\ PidOf(Key(e)) = e.pid /\ e.pid \in Pid /\ e.lwp \in Nat
         /\ e.proc \in Proc /\ e.proc.task \in Tasks[platform]
<1>1. e.pid \in Pid /\ e.lwp \in Nat /\ e.proc \in Proc /\ e.proc.task \in Tasks[platform]
  BY DEF EntryType, GivesRow, Proc
<1>2. e.pid \in Nat
  BY <1>1, PidsTyped
<1> DEFINE p == e.pid
           l == e.lwp
           rep == e.proc.task.rep
<1>3. CASE platform = "solaris"
  <2>1. l < 1024 /\ l \in Nat /\ p \in Nat
    BY <1>1, <1>2, <1>3 DEF GivesRow
  <2>2. Key(e) = IF l = rep THEN p * 1024 ELSE p * 1024 + l
    BY <1>3 DEF Key, LwpPid
  <2> HIDE DEF l, p, rep
  <2>3. (p * 1024) \div 1024 = p /\ (p * 1024 + l) \div 1024 = p
    BY <2>1
  <2>4. p * 1024 \in Nat /\ p * 1024 + l \in Nat
    BY <2>1
  <2> QED
    BY <1>1, <1>3, <2>2, <2>3, <2>4 DEF PidOf, p, l
<1>4. CASE platform # "solaris"
  BY <1>1, <1>2, <1>4 DEF Key, PidOf
<1> QED
  BY <1>3, <1>4

(* A vector and a table that hold the same set are what the property says   *)
(* of them.                                                                *)
LEMMA ElementsHold ==
  ASSUME NEW v, NEW L, VectorHolds(v, L)
  PROVE  /\ IsInjective(Elements(v)) /\ ToSet(Elements(v)) = L
         /\ DOMAIN Elements(v) = 1..v.items /\ Len(Elements(v)) = v.items
         /\ v.items <= Cardinality(DOMAIN v.array)
<1> DEFINE n == v.items
           e == Elements(v)
<1>1. n \in Nat
  BY DEF VectorHolds
<1>2. PICK size \in Nat : n <= size /\ v.array \in [0 .. size - 1 -> Nat \cup {NULL}]
  BY DEF VectorHolds
<1>3. DOMAIN e = 1..n /\ \A i \in 1..n : e[i] = v.array[i - 1] /\ i - 1 \in Places(v)
  BY <1>1 DEF Elements, Places
<1>4. Len(e) = n
  BY <1>1 DEF Elements
<1> HIDE DEF e
<1>5. IsInjective(e)
  <2> SUFFICES ASSUME NEW i \in DOMAIN e, NEW j \in DOMAIN e, e[i] = e[j] PROVE i = j
    BY DEF IsInjective
  <2>1. i - 1 = j - 1
    BY <1>3 DEF VectorHolds
  <2> QED
    BY <1>1, <1>3, <2>1
<1>6. ToSet(e) = L
  <2>1. \A x : x \in ToSet(e) <=> \E i \in DOMAIN e : x = e[i]
    BY DEF ToSet
  <2>2. ASSUME NEW x \in ToSet(e) PROVE x \in L
    BY <1>3, <2>1, <2>2 DEF VectorHolds
  <2>3. ASSUME NEW x \in L PROVE x \in ToSet(e)
    <3>1. PICK i \in Places(v) : v.array[i] = x
      BY <2>3 DEF VectorHolds
    <3>2. i + 1 \in 1..n /\ (i + 1) - 1 = i
      BY <1>1 DEF Places
    <3> QED
      BY <1>3, <2>1, <3>1, <3>2
  <2> QED
    BY <2>2, <2>3
<1>7. Cardinality(DOMAIN v.array) = size
  <2>1. DOMAIN v.array = 0 .. size - 1
    BY <1>2
  <2>2. Cardinality(0 .. size - 1) = size
    <3>1. 0 \in Int /\ size - 1 \in Int
      OBVIOUS
    <3>2. Cardinality(0 .. size - 1) = IF 0 > size - 1 THEN 0 ELSE (size - 1) - 0 + 1
      BY <3>1, FS_Interval
    <3> QED
      BY <3>2
  <2> QED
    BY <2>1, <2>2
<1> QED
  BY <1>2, <1>3, <1>4, <1>5, <1>6, <1>7 DEF e

ChainIs(chain, b, L) ==
  /\ {chain[i].key : i \in DOMAIN chain} = {k \in L : k % TableSize = b}
  /\ Len(chain) = Cardinality({k \in L : k % TableSize = b})
  /\ \A i \in DOMAIN chain : chain[i].value = chain[i].key

LEMMA ChainsHold ==
  ASSUME NEW h, NEW L, TableHolds(h, L), NEW b \in DOMAIN h.buckets
  PROVE  ChainIs(h.buckets[b], b, L)
<1> DEFINE chain == h.buckets[b]
           keys == {k \in L : k % TableSize = b}
           key == [i \in DOMAIN chain |-> chain[i].key]
<1>1. b \in 0 .. TableSize - 1 /\ chain \in Seq(Pair) /\ ChainHolds(chain, b, L)
  BY DEF TableHolds, Chains
<1> HIDE DEF chain
<1>2. Len(chain) \in Nat /\ DOMAIN chain = 1..Len(chain)
  BY <1>1
<1>3. key \in Surjection(1..Len(chain), keys) /\ key \in Injection(1..Len(chain), keys)
  <2>1. key \in [1..Len(chain) -> keys]
    BY <1>1, <1>2 DEF ChainHolds
  <2>2. IsInjective(key)
    BY <1>1 DEF ChainHolds, IsInjective
  <2>3. \A k \in keys : \E i \in 1..Len(chain) : key[i] = k
    BY <1>1, <1>2 DEF ChainHolds
  <2> HIDE DEF key, keys
  <2> QED
    BY <2>1, <2>2, <2>3 DEF Injection, Surjection
<1>4. Cardinality(keys) = Len(chain)
  <2>1. IsFiniteSet(1..Len(chain)) /\ Cardinality(1..Len(chain)) = Len(chain)
    <3>1. 1 \in Int /\ Len(chain) \in Int
      BY <1>2
    <3>2. IsFiniteSet(1..Len(chain))
          /\ Cardinality(1..Len(chain)) = IF 1 > Len(chain) THEN 0 ELSE Len(chain) - 1 + 1
      BY <3>1, FS_Interval
    <3> QED
      BY <1>2, <3>2
  <2> HIDE DEF key, keys
  <2> QED
    BY <1>3, <2>1, FS_Surjection
<1>5. {chain[i].key : i \in DOMAIN chain} = keys
  BY <1>1 DEF ChainHolds
<1> QED
  BY <1>1, <1>4, <1>5 DEF chain, ChainHolds, ChainIs

LEMMA InvMeansSnapshot == PlatformInv => ListIsSnapshot
<1> SUFFICES ASSUME PlatformInv PROVE ListIsSnapshot
  OBVIOUS
<1>1. /\ SystemTyped /\ ListTyped /\ EntriesRight /\ RowsRight
      /\ VectorHolds(processes, DOMAIN ps) /\ TableHolds(processTable, DOMAIN ps)
      /\ processTable.items = processes.items
  BY DEF PlatformInv, BothHold
<1>2. /\ IsInjective(Elements(processes)) /\ ToSet(Elements(processes)) = DOMAIN ps
      /\ processes.items <= Cardinality(DOMAIN processes.array)
  BY <1>1, ElementsHold
<1>3. PlatformTypeOK
  <2>1. \A k \in DOMAIN ps : ps[k].jname \in Jid \cup {NoName, NULL}
    BY <1>1 DEF ListTyped, ObjectType
  <2> QED
    BY <1>1, <1>2, <2>1 DEF SystemTyped, ListTyped, PlatformTypeOK
<1>4. \A b \in DOMAIN processTable.buckets : ChainIs(processTable.buckets[b], b, DOMAIN ps)
  BY <1>1, ChainsHold
<1>5. Quiet => DOMAIN ps = UNION {Rows(p) : p \in Pid}
  BY <1>1 DEF RowsRight, AllRows
<1> QED
  BY <1>1, <1>2, <1>3, <1>4, <1>5, Zenon DEF ListIsSnapshot, ChainIs

LEMMA InitPlatformInv == PlatformInit => PlatformInv
<1> SUFFICES ASSUME PlatformInit PROVE PlatformInv
  OBVIOUS
<1> USE DEF PlatformInit
<1>1. platform \in Platforms /\ pc = "idle" /\ ps = << >> /\ DOMAIN ps = {} /\ entries = << >>
  OBVIOUS
<1>2. os \in [Pid -> Proc \cup {NULL}]
  <2>1. PICK t \in [Pid -> Tasks[platform] \cup {NULL}] :
          os = [p \in Pid |-> IF t[p] = NULL THEN NULL
                              ELSE [ppid |-> IF p = 1 \/ t[p].kernel THEN 0 ELSE 1,
                                    jid |-> 0, task |-> t[p]]]
    OBVIOUS
  <2>2. 1 \in Pid
    BY PidsTyped
  <2>3. \A p \in Pid : t[p] \in Tasks[platform] \/ t[p] = NULL
    BY <2>1
  <2>4. ASSUME NEW p \in Pid, t[p] # NULL
        PROVE  [ppid |-> IF p = 1 \/ t[p].kernel THEN 0 ELSE 1, jid |-> 0, task |-> t[p]] \in Proc
    BY <2>2, <2>3, <2>4 DEF Proc
  <2> HIDE DEF PlatformInit
  <2> QED
    BY <2>1, <2>4
<1>3. read = [p \in Pid |-> NULL] /\ read \in [Pid -> Proc \cup {NULL}]
  OBVIOUS
<1>4. SystemTyped /\ ListTyped
  <2>1. entries \in Seq(EntryType)
    BY <1>1
  <2>2. ps \in [DOMAIN ps -> ObjectType] /\ fresh \subseteq DOMAIN ps
    <3>1. ps = [x \in {} |-> x]
      OBVIOUS
    <3> QED
      BY <1>1
  <2>3. settings \in [hideKernelThreads : BOOLEAN, hideUserlandThreads : BOOLEAN, sort : Sorts]
    OBVIOUS
  <2> QED
    BY <1>1, <1>2, <1>3, <2>1, <2>2, <2>3 DEF SystemTyped, ListTyped
<1>5. EntriesRight
  BY <1>1 DEF EntriesRight
<1>6. RowsRight
  BY <1>1 DEF RowsRight, Updated, Quiet
<1>7. BothHold(processes, processTable, DOMAIN ps)
  BY <1>1, EmptyHold
<1> QED
  BY <1>4, <1>5, <1>6, <1>7 DEF PlatformInv

LEMMA OthersKeepInv ==
  ASSUME PlatformInv, SystemTyped',
         UNCHANGED <<platform, ps, processes, processTable, fresh, pc, entries, read>>
  PROVE  PlatformInv'
<1>1. ListTyped'
  BY DEF PlatformInv, ListTyped, Proc, EntryType, PidOf
<1>2. EntriesRight'
  BY DEF PlatformInv, EntriesRight
<1>3. AllRows' = AllRows
  BY DEF AllRows, Rows, LwpPid
<1>4. Coming(entries)' = Coming(entries) /\ Updated' = Updated /\ Quiet' = Quiet
  BY DEF Coming, Key, GivesRow, Updated, Quiet
<1>5. RowsRight'
  BY <1>3, <1>4 DEF PlatformInv, RowsRight
<1> QED
  BY <1>1, <1>2, <1>5 DEF PlatformInv

LEMMA EnvironmentKeepsInv ==
  ASSUME PlatformInv, Environment
  PROVE  PlatformInv'
<1>1. /\ UNCHANGED <<platform, settings, ps, processes, processTable, fresh, jailTable, pc, entries, read>>
  BY DEF Environment, Fork, Exit, Reschedule, CreateJail, RemoveJail, EnterJail, Change, listVars
<1>2. Proc' = Proc
  BY <1>1 DEF Proc
<1>3. os' \in [Pid -> Proc \cup {NULL}]
  <2>1. os \in [Pid -> Proc \cup {NULL}] /\ 1 \in Pid
    BY PidsTyped DEF PlatformInv, SystemTyped
  <2>2. \A p \in Pid : Exists(p) => os[p] \in Proc
    BY <2>1 DEF Exists
  <2>3. ASSUME Fork PROVE os' \in [Pid -> Proc \cup {NULL}]
    <3>1. PICK p \in Pid, q \in Pid, t \in Tasks[platform] :
            /\ Exists(q)
            /\ os' = [os EXCEPT ![p] = [ppid |-> IF t.kernel THEN 0 ELSE q,
                                        jid |-> IF t.kernel THEN 0 ELSE os[q].jid, task |-> t]]
      BY <2>3 DEF Fork
    <3>2. os[q].jid \in Jid \cup {0}
      BY <2>2, <3>1 DEF Proc
    <3>3. [ppid |-> IF t.kernel THEN 0 ELSE q,
           jid |-> IF t.kernel THEN 0 ELSE os[q].jid, task |-> t] \in Proc
      BY <3>2 DEF Proc
    <3> QED
      BY <2>1, <3>1, <3>3
  <2>4. ASSUME Exit PROVE os' \in [Pid -> Proc \cup {NULL}]
    <3>1. PICK p \in Pid : os' = [q \in Pid |-> IF q = p THEN NULL
                            ELSE IF Exists(q) /\ os[q].ppid = p
                                 THEN [os[q] EXCEPT !.ppid = 1] ELSE os[q]]
      BY <2>4 DEF Exit
    <3>2. ASSUME NEW q \in Pid, Exists(q) PROVE [os[q] EXCEPT !.ppid = 1] \in Proc
      BY <2>1, <2>2, <3>2 DEF Proc
    <3> QED
      BY <2>1, <3>1, <3>2
  <2>5. ASSUME Reschedule PROVE os' \in [Pid -> Proc \cup {NULL}]
    <3>1. PICK p \in Pid, t \in Tasks[platform] : Exists(p) /\ os' = [os EXCEPT ![p].task = t]
      BY <2>5 DEF Reschedule
    <3>2. [os[p] EXCEPT !.task = t] \in Proc
      BY <2>2, <3>1 DEF Proc
    <3> QED
      BY <2>1, <3>1, <3>2
  <2>6. ASSUME EnterJail PROVE os' \in [Pid -> Proc \cup {NULL}]
    <3>1. PICK p \in Pid, j \in jails : Exists(p) /\ os' = [os EXCEPT ![p].jid = j]
      BY <2>6 DEF EnterJail
    <3>2. j \in Jid
      BY DEF PlatformInv, SystemTyped
    <3>3. [os[p] EXCEPT !.jid = j] \in Proc
      BY <2>2, <3>1, <3>2 DEF Proc
    <3> QED
      BY <2>1, <3>1, <3>3
  <2>7. ASSUME CreateJail \/ RemoveJail PROVE os' = os
    BY <2>7 DEF CreateJail, RemoveJail
  <2> QED
    BY <2>1, <2>3, <2>4, <2>5, <2>6, <2>7 DEF Environment
<1>4. jails' \subseteq Jid /\ other' \subseteq Pid
  BY DEF Environment, Fork, Exit, Reschedule, CreateJail, RemoveJail, EnterJail, PlatformInv, SystemTyped
<1>5. SystemTyped'
  BY <1>1, <1>2, <1>3, <1>4 DEF PlatformInv, SystemTyped
<1> QED
  BY <1>1, <1>5, OthersKeepInv

LEMMA ChangeSettingsKeepsInv ==
  ASSUME PlatformInv, ChangeSettings
  PROVE  PlatformInv'
<1>1. /\ UNCHANGED <<platform, os, jails, other, ps, processes, processTable, fresh, jailTable,
                     entries, read>>
      /\ pc = "sorted" /\ pc' = "idle"
  BY DEF ChangeSettings, listVars
<1>2. settings' \in [hideKernelThreads : BOOLEAN, hideUserlandThreads : BOOLEAN, sort : Sorts]
  BY DEF ChangeSettings, PlatformInv, SystemTyped
<1>3. SystemTyped'
  BY <1>1, <1>2 DEF PlatformInv, SystemTyped, Proc
<1>4. ListTyped'
  BY <1>1 DEF PlatformInv, ListTyped, Proc, EntryType, PidOf
<1>5. EntriesRight'
  BY <1>1 DEF PlatformInv, EntriesRight
<1>6. RowsRight'
  BY <1>1 DEF PlatformInv, RowsRight, Updated, Quiet
<1> QED
  BY <1>1, <1>3, <1>4, <1>5, <1>6 DEF PlatformInv

LEMMA StartScanKeepsInv ==
  ASSUME PlatformInv, StartScan
  PROVE  PlatformInv'
<1>1. /\ UNCHANGED <<platform, os, jails, other, settings, processes, processTable, jailTable, entries>>
      /\ pc \in {"idle", "scanned", "sorted"} /\ pc' \in {"jails", "snapshot"}
      /\ ps' = [k \in DOMAIN ps |-> [ps[k] EXCEPT !.updated = FALSE, !.show = TRUE]]
      /\ fresh' = {} /\ read' = [p \in Pid |-> NULL]
  BY DEF StartScan, osVars
<1>2. SystemTyped'
  BY <1>1 DEF PlatformInv, SystemTyped, Proc
<1>3. DOMAIN ps' = DOMAIN ps /\ \A k \in DOMAIN ps : ps[k] \in ObjectType /\ ps[k].pid = k
  BY <1>1 DEF PlatformInv, ListTyped
<1>4. \A k \in DOMAIN ps : ps'[k] \in ObjectType /\ ps'[k].pid = k /\ ps'[k].updated = FALSE
  <2>1. ASSUME NEW o \in ObjectType
        PROVE  LET w == [o EXCEPT !.updated = FALSE, !.show = TRUE]
               IN  w \in ObjectType /\ w.pid = o.pid /\ w.updated = FALSE
    BY DEF ObjectType
  <2> QED
    BY <1>1, <1>3, <2>1
<1>5. ps' \in [DOMAIN ps -> ObjectType]
  BY <1>1, <1>3, <1>4
<1>6. ListTyped'
  <2>1. ObjectType' = ObjectType /\ EntryType' = EntryType /\ Proc' = Proc
    BY <1>1 DEF ObjectType, EntryType, Proc
  <2>2. \A k : PidOf(k)' = PidOf(k)
    BY <1>1 DEF PidOf
  <2>3. read' \in [Pid -> Proc \cup {NULL}]
    BY <1>1
  <2> QED
    BY <1>1, <1>3, <1>4, <1>5, <2>1, <2>2, <2>3 DEF PlatformInv, ListTyped
<1>7. EntriesRight'
  <2>1. entries = << >> /\ entries' = << >>
    BY <1>1 DEF PlatformInv, EntriesRight
  <2> QED
    BY <2>1 DEF EntriesRight
<1>8. RowsRight'
  BY <1>1, <1>3, <1>4 DEF RowsRight, Updated, Quiet
<1> QED
  BY <1>1, <1>2, <1>3, <1>6, <1>7, <1>8 DEF PlatformInv

LEMMA ScanJailsKeepsInv ==
  ASSUME PlatformInv, ScanJails
  PROVE  PlatformInv'
<1>1. /\ UNCHANGED <<platform, os, jails, other, settings, ps, processes, processTable, fresh, entries, read>>
      /\ pc = "jails" /\ pc' = "snapshot" /\ jailTable' \in {jailTable, jails}
  BY DEF ScanJails, osVars, listVars
<1>2. SystemTyped'
  BY <1>1 DEF PlatformInv, SystemTyped, Proc
<1>3. ListTyped'
  BY <1>1 DEF PlatformInv, ListTyped, Proc, EntryType, PidOf
<1>4. EntriesRight' /\ RowsRight'
  BY <1>1 DEF PlatformInv, EntriesRight, RowsRight, Updated, Quiet
<1> QED
  BY <1>1, <1>2, <1>3, <1>4 DEF PlatformInv

LEMMA SnapshotFailsKeepsInv ==
  ASSUME PlatformInv, SnapshotFails
  PROVE  PlatformInv'
<1>1. /\ UNCHANGED <<platform, os, jails, other, settings, ps, processes, processTable, fresh,
                     jailTable, entries, read>>
      /\ pc = "snapshot" /\ pc' \in {"fatal", "visit"}
  BY DEF SnapshotFails, listVars
<1>2. SystemTyped' /\ ListTyped'
  BY <1>1 DEF PlatformInv, SystemTyped, ListTyped, Proc, EntryType, PidOf
<1>3. entries = << >> /\ \A p \in Pid : read[p] = NULL
  BY <1>1 DEF PlatformInv, EntriesRight, RowsRight
<1>4. EntriesRight'
  BY <1>1, <1>3 DEF EntriesRight
<1>5. AllRows' = {}
  BY <1>1, <1>3 DEF AllRows, Rows
<1>6. Coming(entries)' = {}
  BY <1>1, <1>3 DEF Coming, ToSet
<1>7. RowsRight'
  BY <1>1, <1>3, <1>5, <1>6 DEF PlatformInv, RowsRight, Updated, Quiet
<1> QED
  BY <1>1, <1>2, <1>4, <1>7 DEF PlatformInv

\* The system hands every process out once, whatever the order.
LEMMA OrdersCover ==
  ASSUME NEW S \in SUBSET Pid, NEW o \in Orders(S)
  PROVE  /\ o \in Seq(S) /\ DOMAIN o = 1..Len(o) /\ Len(o) \in Nat /\ ToSet(o) = S
         /\ \A i, j \in DOMAIN o : o[i] = o[j] => i = j
<1> DEFINE n == Cardinality(S)
<1>1. IsFiniteSet(S) /\ n \in Nat /\ S \subseteq Nat
  BY PidsTyped, FS_Subset, FS_CardinalityType
<1>2. /\ o \in [1..n -> S]
      /\ \/ \A i \in DOMAIN o : \A j \in 1..(i - 1) : o[j] < o[i]
         \/ \A i \in DOMAIN o : \A j \in 1..(i - 1) : o[j] > o[i]
  BY DEF Orders
<1>3. IsFiniteSet(1..n) /\ Cardinality(1..n) = n
  <2> HIDE DEF n
  <2>1. 1 \in Int /\ n \in Int
    BY <1>1
  <2>2. IsFiniteSet(1..n) /\ Cardinality(1..n) = IF 1 > n THEN 0 ELSE n - 1 + 1
    BY <2>1, FS_Interval
  <2> QED
    BY <1>1, <2>2
<1> HIDE DEF n
<1>4. \A i, j \in 1..n : i < j => o[i] # o[j]
  <2> SUFFICES ASSUME NEW i \in 1..n, NEW j \in 1..n, i < j PROVE o[i] # o[j]
    OBVIOUS
  <2>1. i \in 1..(j - 1) /\ o[i] \in Nat /\ o[j] \in Nat /\ j \in DOMAIN o
    <3>1. i \in 1..(j - 1)
      BY <1>1
    <3>2. o \in [1..n -> S]
      BY <1>2
    <3> QED
      BY <1>1, <3>1, <3>2
  <2>2. o[i] < o[j] \/ o[i] > o[j]
    BY <1>2, <2>1
  <2> QED
    BY <2>1, <2>2
<1>5. \A i, j \in 1..n : o[i] = o[j] => i = j
  BY <1>1, <1>4
<1>6. o \in Injection(1..n, S)
  BY <1>2, <1>5 DEF Injection, IsInjective
<1>7. o \in Surjection(1..n, S)
  BY <1>1, <1>3, <1>6, FS_Injection DEF n
<1>8. \A p \in S : \E i \in 1..n : o[i] = p
  BY <1>7 DEF Surjection
<1>9. ToSet(o) = S
  BY <1>2, <1>8 DEF ToSet
<1> QED
  BY <1>1, <1>2, <1>5, <1>9

LEMMA EntriesOfProcess ==
  ASSUME platform \in Platforms, NEW p \in Pid, os[p] \in Proc, Exists(p)
  PROVE  /\ EntriesOf(p) \in Seq(EntryType)
         /\ \A i \in DOMAIN EntriesOf(p) : EntriesOf(p)[i].pid = p /\ EntriesOf(p)[i].proc = os[p]
         /\ platform = "openbsd" /\ os[p].task.kernel <=> DOMAIN EntriesOf(p) = {}
<1> DEFINE t == os[p].task
           lwps == IF platform = "openbsd" /\ t.kernel THEN << >>
                   ELSE IF platform = "dragonfly" /\ ~settings.hideUserlandThreads /\ Alive(t)
                        THEN SetToSeq(t.lwps)
                   ELSE <<t.rep>>
           e == [i \in DOMAIN lwps |-> [pid |-> p, proc |-> os[p], lwp |-> lwps[i]]]
<1>1. t \in Tasks[platform]
  BY DEF Proc
<1> HIDE DEF t
<1>2. t.rep \in Nat /\ t.lwps \subseteq Nat /\ IsFiniteSet(t.lwps)
  BY <1>1, TasksTyped
<1>3. /\ SetToSeq(t.lwps) \in Seq(t.lwps)
      /\ ToSet(SetToSeq(t.lwps)) = t.lwps
  BY <1>2, SetToSeqIsAll
<1>4. SetToSeq(t.lwps) \in Seq(Nat) /\ (Alive(t) => DOMAIN SetToSeq(t.lwps) # {})
  <2> DEFINE s == SetToSeq(t.lwps)
  <2>1. s \in Seq(t.lwps) /\ ToSet(s) = t.lwps
    BY <1>3
  <2> HIDE DEF s
  <2>2. s \in Seq(Nat)
    BY <1>2, <2>1
  <2>3. t.lwps # {} => DOMAIN s # {}
    BY <2>1 DEF ToSet
  <2> QED
    BY <2>2, <2>3 DEF Alive, s
<1>5. lwps \in Seq(Nat) /\ (platform = "openbsd" /\ t.kernel <=> DOMAIN lwps = {})
  <2>1. << >> \in Seq(Nat) /\ DOMAIN << >> = {} /\ <<t.rep>> \in Seq(Nat) /\ 1 \in DOMAIN <<t.rep>>
    BY <1>2
  <2> QED
    BY <1>4, <2>1
<1>6. EntriesOf(p) = e
  BY DEF EntriesOf, t
<1> HIDE DEF lwps
<1>7. DOMAIN e = DOMAIN lwps /\ \A i \in DOMAIN lwps : e[i] \in EntryType /\ e[i].pid = p /\ e[i].proc = os[p]
  BY <1>5 DEF EntryType
<1>8. e \in Seq(EntryType)
  <2>1. DOMAIN lwps = 1..Len(lwps) /\ Len(lwps) \in Nat
    BY <1>5
  <2>2. e \in [1..Len(lwps) -> EntryType]
    BY <1>7, <2>1
  <2> HIDE DEF e
  <2> QED
    BY <2>1, <2>2
<1> HIDE DEF e
<1> QED
  BY <1>5, <1>6, <1>7, <1>8 DEF t

\* Every process that there is is read, and what it has got comes.
LEMMA SnapshotReads ==
  ASSUME PlatformInv, platform \notin {"solaris", "unsupported"},
         NEW order \in Orders({p \in Pid : Exists(p)}),
         entries' = FlattenSeq([i \in DOMAIN order |-> EntriesOf(order[i])]),
         read' = [p \in Pid |-> os[p]], UNCHANGED platform
  PROVE  /\ entries' \in Seq(EntryType)
         /\ \A i \in DOMAIN entries' : entries'[i].proc # NULL /\ read'[entries'[i].pid] = entries'[i].proc
         /\ Coming(entries)' = AllRows'
<1> DEFINE S == {p \in Pid : Exists(p)}
           ss == [i \in DOMAIN order |-> EntriesOf(order[i])]
<1>1. /\ order \in Seq(S) /\ DOMAIN order = 1..Len(order) /\ Len(order) \in Nat /\ ToSet(order) = S
  BY OrdersCover
<1>2. \A p \in S : p \in Pid /\ os[p] \in Proc /\ os[p] # NULL /\ Exists(p)
  BY DEF PlatformInv, SystemTyped, Exists
<1>3. platform \in Platforms
  BY DEF PlatformInv, SystemTyped
<1>4. \A i \in 1..Len(order) : order[i] \in S
  BY <1>1
<1>5. \A p \in S : \E i \in 1..Len(order) : order[i] = p
  BY <1>1 DEF ToSet
<1> HIDE DEF S
<1>6. \A p \in S : EntriesOf(p) \in Seq(EntryType)
  BY <1>2, <1>3, EntriesOfProcess
<1>7. ss \in Seq(Seq(EntryType)) /\ DOMAIN ss = 1..Len(order)
  <2>1. ss \in [1..Len(order) -> Seq(EntryType)]
    BY <1>1, <1>4, <1>6
  <2> HIDE DEF ss
  <2> QED
    BY <1>1, <2>1
<1>8. /\ entries' \in Seq(EntryType)
      /\ ToSet(entries') = UNION {ToSet(ss[i]) : i \in DOMAIN ss}
  <2> HIDE DEF ss
  <2>1. entries' = FlattenSeq(ss)
    BY DEF ss
  <2> QED
    BY <1>7, <2>1, FlattenHolds
<1>9. \A e : e \in ToSet(entries') <=> \E p \in S : e \in ToSet(EntriesOf(p))
  <2>1. \A i \in DOMAIN ss : ss[i] = EntriesOf(order[i])
    BY <1>1
  <2> HIDE DEF ss
  <2>2. \A e : e \in ToSet(entries') <=> \E i \in DOMAIN ss : e \in ToSet(ss[i])
    BY <1>8, Zenon
  <2>3. \A e : (\E i \in DOMAIN ss : e \in ToSet(ss[i])) => \E p \in S : e \in ToSet(EntriesOf(p))
    BY <1>4, <1>7, <2>1, Zenon
  <2>4. \A e : (\E p \in S : e \in ToSet(EntriesOf(p))) => \E i \in DOMAIN ss : e \in ToSet(ss[i])
    BY <1>5, <1>7, <2>1, Zenon
  <2> QED
    BY <2>2, <2>3, <2>4, Zenon
<1>10. \A p \in S : \A e \in ToSet(EntriesOf(p)) : e.pid = p /\ e.proc = os[p]
  <2> SUFFICES ASSUME NEW p \in S, NEW e \in ToSet(EntriesOf(p)) PROVE e.pid = p /\ e.proc = os[p]
    OBVIOUS
  <2>1. PICK i \in DOMAIN EntriesOf(p) : e = EntriesOf(p)[i]
    BY DEF ToSet
  <2> QED
    BY <1>2, <1>3, <2>1, EntriesOfProcess
<1>11. \A p \in S : (platform = "openbsd" /\ os[p].task.kernel) <=> ToSet(EntriesOf(p)) = {}
  <2> SUFFICES ASSUME NEW p \in S
               PROVE  (platform = "openbsd" /\ os[p].task.kernel) <=> ToSet(EntriesOf(p)) = {}
    OBVIOUS
  <2>1. platform = "openbsd" /\ os[p].task.kernel <=> DOMAIN EntriesOf(p) = {}
    BY <1>2, <1>3, EntriesOfProcess
  <2>2. DOMAIN EntriesOf(p) = {} <=> ToSet(EntriesOf(p)) = {}
    BY DEF ToSet
  <2> QED
    BY <2>1, <2>2
<1>12. \A e \in ToSet(entries') : e.pid \in S /\ e.proc = os[e.pid]
  BY <1>9, <1>10
<1>13. \A i \in DOMAIN entries' : entries'[i].proc # NULL /\ read'[entries'[i].pid] = entries'[i].proc
  <2> SUFFICES ASSUME NEW i \in DOMAIN entries'
               PROVE  entries'[i].proc # NULL /\ read'[entries'[i].pid] = entries'[i].proc
    OBVIOUS
  <2>1. entries'[i] \in ToSet(entries')
    BY DEF ToSet
  <2> QED
    BY <1>2, <1>12, <2>1
<1>14. Coming(entries)' = {e.pid : e \in ToSet(entries')}
  <2>1. platform' # "solaris"
    OBVIOUS
  <2>2. \A e : Key(e)' = e.pid /\ (GivesRow(e)' <=> e.proc # NULL)
    BY <2>1 DEF Key, GivesRow
  <2>3. \A e \in ToSet(entries') : GivesRow(e)'
    BY <1>2, <1>12, <2>2
  <2>4. Coming(entries)' = {Key(e)' : e \in {f \in ToSet(entries') : GivesRow(f)'}}
    BY DEF Coming
  <2> QED
    BY <2>2, <2>3, <2>4
<1>15. \A p \in Pid : Rows(p)' = IF p \in S /\ ~(platform = "openbsd" /\ os[p].task.kernel) THEN {p} ELSE {}
  <2> SUFFICES ASSUME NEW p \in Pid
               PROVE  Rows(p)' = IF p \in S /\ ~(platform = "openbsd" /\ os[p].task.kernel) THEN {p} ELSE {}
    OBVIOUS
  <2>1. read'[p] = os[p]
    OBVIOUS
  <2> QED
    BY <2>1 DEF Rows, S, Exists
<1>16. ASSUME NEW k \in Coming(entries)' PROVE k \in AllRows'
  <2>1. PICK e \in ToSet(entries') : e.pid = k
    BY <1>14, <1>16
  <2>2. PICK p \in S : e \in ToSet(EntriesOf(p)) /\ p = k
    BY <1>9, <1>10, <2>1
  <2>3. k \in Rows(p)' /\ p \in Pid
    BY <1>2, <1>11, <1>15, <2>2
  <2> QED
    BY <2>3 DEF AllRows
<1>17. ASSUME NEW k \in AllRows' PROVE k \in Coming(entries)'
  <2>1. PICK p \in Pid : k \in Rows(p)'
    BY <1>17 DEF AllRows
  <2>2. p \in S /\ k = p /\ ~(platform = "openbsd" /\ os[p].task.kernel)
    BY <1>15, <2>1
  <2>3. PICK e : e \in ToSet(EntriesOf(p))
    BY <1>11, <2>2
  <2>4. e \in ToSet(entries') /\ e.pid = k
    BY <1>9, <1>10, <2>2, <2>3
  <2> QED
    BY <1>14, <2>4
<1> QED
  BY <1>8, <1>13, <1>16, <1>17

LEMMA SnapshotKeepsInv ==
  ASSUME PlatformInv, Snapshot
  PROVE  PlatformInv'
<1> DEFINE S == {p \in Pid : Exists(p)}
<1>1. /\ UNCHANGED <<platform, os, jails, other, settings, ps, processes, processTable, fresh, jailTable>>
      /\ pc = "snapshot" /\ pc' = "visit"
      /\ read' = [p \in Pid |-> IF platform \in {"solaris", "unsupported"} THEN NULL ELSE os[p]]
  BY DEF Snapshot, osVars, listVars
<1>2. PICK order \in Orders(S) :
        entries' = IF platform = "unsupported" THEN <<Unread(1)>>
                   ELSE IF platform = "solaris" THEN [i \in DOMAIN order |-> Unread(order[i])]
                   ELSE FlattenSeq([i \in DOMAIN order |-> EntriesOf(order[i])])
  BY DEF Snapshot
<1>3. SystemTyped'
  BY <1>1 DEF PlatformInv, SystemTyped, Proc
<1>4. read' \in [Pid -> Proc \cup {NULL}]
  BY <1>1 DEF PlatformInv, SystemTyped
<1>5. /\ entries' \in Seq(EntryType)
      /\ Coming(entries)' = AllRows'
      /\ \A i \in DOMAIN entries' : entries'[i].proc # NULL => read'[entries'[i].pid] = entries'[i].proc
      /\ \A i \in DOMAIN entries' : entries'[i].proc = NULL =>
            platform' \in {"solaris", "unsupported"} /\ read'[entries'[i].pid] = NULL
      /\ \A i, j \in DOMAIN entries' :
            entries'[i].proc = NULL /\ entries'[j].proc = NULL /\ entries'[i].pid = entries'[j].pid => i = j
      /\ platform' = "unsupported" => \A i \in DOMAIN entries' : entries'[i].proc = NULL
  <2>1. CASE platform \notin {"solaris", "unsupported"}
    <3>1. entries' = FlattenSeq([i \in DOMAIN order |-> EntriesOf(order[i])]) /\ read' = [p \in Pid |-> os[p]]
      BY <1>1, <1>2, <2>1
    <3>2. /\ entries' \in Seq(EntryType)
          /\ \A i \in DOMAIN entries' : entries'[i].proc # NULL /\ read'[entries'[i].pid] = entries'[i].proc
          /\ Coming(entries)' = AllRows'
      BY <1>1, <2>1, <3>1, SnapshotReads
    <3> QED
      BY <1>1, <2>1, <3>2
  <2>2. CASE platform \in {"solaris", "unsupported"}
    <3>1. read' = [p \in Pid |-> NULL]
      BY <1>1, <2>2
    <3>2. AllRows' = {}
      BY <3>1 DEF AllRows, Rows
    <3>3. \A p \in Pid : Unread(p) \in EntryType /\ Unread(p).proc = NULL /\ Unread(p).pid = p
      BY DEF Unread, EntryType
    <3>4. ASSUME entries' \in Seq(EntryType),
                 \A i \in DOMAIN entries' : entries'[i].proc = NULL
          PROVE  Coming(entries)' = {}
      <4>1. \A e \in ToSet(entries') : e.proc = NULL
        BY <3>4 DEF ToSet
      <4>2. \A e \in ToSet(entries') : ~GivesRow(e)'
        BY <4>1 DEF GivesRow
      <4>3. Coming(entries)' = {Key(e)' : e \in {f \in ToSet(entries') : GivesRow(f)'}}
        BY DEF Coming
      <4> QED
        BY <4>2, <4>3
    <3>5. \A e \in EntryType : e.pid \in Pid
      BY DEF EntryType
    <3>6. CASE platform = "unsupported"
      <4>1. entries' = <<Unread(1)>> /\ 1 \in Pid
        BY <1>2, <3>6, PidsTyped
      <4>2. entries' \in Seq(EntryType) /\ DOMAIN entries' = {1} /\ entries'[1] = Unread(1)
        BY <3>3, <4>1
      <4> QED
        BY <1>1, <3>1, <3>2, <3>3, <3>4, <3>6, <4>1, <4>2
    <3>7. CASE platform = "solaris"
      <4>1. entries' = [i \in DOMAIN order |-> Unread(order[i])]
        BY <1>2, <3>7
      <4>2. /\ DOMAIN order = 1..Len(order) /\ Len(order) \in Nat
            /\ \A i \in DOMAIN order : order[i] \in Pid
            /\ \A i, j \in DOMAIN order : order[i] = order[j] => i = j
        <5>1. S \in SUBSET Pid
          OBVIOUS
        <5> HIDE DEF S
        <5>2. /\ order \in Seq(S) /\ DOMAIN order = 1..Len(order) /\ Len(order) \in Nat
              /\ \A i, j \in DOMAIN order : order[i] = order[j] => i = j
          BY <5>1, OrdersCover
        <5> QED
          BY <5>1, <5>2
      <4>3. entries' \in [1..Len(order) -> EntryType]
        BY <3>3, <4>1, <4>2
      <4>4. entries' \in Seq(EntryType)
        BY <4>2, <4>3
      <4>5. \A i \in DOMAIN entries' : i \in DOMAIN order /\ entries'[i].proc = NULL
                                       /\ entries'[i].pid = order[i] /\ order[i] \in Pid
        BY <3>3, <4>1, <4>2
      <4>6. \A i \in DOMAIN entries' : read'[entries'[i].pid] = NULL
        BY <3>1, <4>5
      <4>7. \A i, j \in DOMAIN entries' : entries'[i].pid = entries'[j].pid => i = j
        BY <4>2, <4>5
      <4>8. Coming(entries)' = {}
        BY <3>4, <4>4, <4>5
      <4> QED
        BY <1>1, <3>2, <3>7, <4>4, <4>5, <4>6, <4>7, <4>8
    <3> QED
      BY <2>2, <3>6, <3>7
  <2> QED
    BY <2>1, <2>2
<1>6. ListTyped'
  <2>1. EntryType' = EntryType /\ Proc' = Proc
    BY <1>1 DEF EntryType, Proc
  <2> QED
    BY <1>1, <1>4, <1>5, <2>1 DEF PlatformInv, ListTyped, PidOf
<1>7. EntriesRight'
  BY <1>1, <1>5 DEF EntriesRight
<1>8. RowsRight'
  <2>1. Updated' = {} /\ fresh' = {}
    BY <1>1 DEF PlatformInv, RowsRight, Updated
  <2> QED
    BY <1>1, <1>5, <2>1 DEF RowsRight, Quiet
<1> QED
  BY <1>1, <1>3, <1>6, <1>7, <1>8 DEF PlatformInv

\* The hash table knows the objects that there are.
LEMMA ObjectsTyped ==
  ASSUME PlatformInv, NEW k \in Nat
  PROVE  /\ Object(k) \in ObjectType /\ Object(k).pid = k
         /\ Old(k) <=> k \in DOMAIN ps
<1>1. TableHolds(processTable, DOMAIN ps) /\ NULL \notin Nat
  BY PidsTyped DEF PlatformInv, BothHold
<1>2. Old(k) <=> k \in DOMAIN ps
  BY <1>1, GetHolds DEF Old
<1>3. New(k) \in ObjectType /\ New(k).pid = k
  BY DEF New, ObjectType
<1>4. k \in DOMAIN ps => ps[k] \in ObjectType /\ ps[k].pid = k
  BY DEF PlatformInv, ListTyped
<1> QED
  BY <1>2, <1>3, <1>4 DEF Object

(* When the first entry has been visited, the others are still right.       *)
LEMMA FirstVisited ==
  ASSUME PlatformInv, Visited, ScanOnly, read' = read
  PROVE  /\ UNCHANGED <<platform, os, jails, other, settings, jailTable, pc, read>> /\ pc = "visit"
         /\ entries' \in Seq(EntryType) /\ ThisEntry \in EntryType /\ platform \in Platforms
         /\ SystemTyped' /\ EntriesRight' /\ AllRows' = AllRows
         /\ GivesRow(ThisEntry) => Coming(entries) = Coming(entries)' \cup {Key(ThisEntry)}
         /\ ~GivesRow(ThisEntry) => Coming(entries) = Coming(entries)'
<1>1. /\ UNCHANGED <<platform, os, jails, other, settings, jailTable, pc, read>>
      /\ pc = "visit" /\ entries # << >> /\ entries' = Tail(entries)
  BY DEF Visited, ScanOnly, osVars
<1>2. entries \in Seq(EntryType) /\ platform \in Platforms
  BY DEF PlatformInv, SystemTyped, ListTyped
<1>3. /\ entries' \in Seq(EntryType) /\ ThisEntry \in EntryType
      /\ \A i \in DOMAIN entries' : i + 1 \in DOMAIN entries /\ entries'[i] = entries[i + 1] /\ i \in Nat
      /\ ToSet(entries) = {ThisEntry} \cup ToSet(entries')
  <2>1. /\ Tail(entries) \in Seq(EntryType) /\ Head(entries) \in EntryType
        /\ DOMAIN Tail(entries) = 1..(Len(entries) - 1)
        /\ \A i \in DOMAIN Tail(entries) : i + 1 \in DOMAIN entries /\ Tail(entries)[i] = entries[i + 1]
        /\ ToSet(entries) = {Head(entries)} \cup ToSet(Tail(entries))
    BY <1>1, <1>2, TailOf
  <2>2. \A i \in DOMAIN Tail(entries) : i \in Nat
    BY <2>1
  <2> QED
    BY <1>1, <2>1, <2>2 DEF ThisEntry
<1>4. SystemTyped'
  BY <1>1 DEF PlatformInv, SystemTyped, Proc
<1>5. EntriesRight'
  <2>1. \A i \in DOMAIN entries : entries[i].proc # NULL => read[entries[i].pid] = entries[i].proc
    BY DEF PlatformInv, EntriesRight
  <2>2. \A i \in DOMAIN entries : entries[i].proc = NULL =>
          platform \in {"solaris", "unsupported"} /\ read[entries[i].pid] = NULL
    BY DEF PlatformInv, EntriesRight
  <2>3. \A i, j \in DOMAIN entries :
          entries[i].proc = NULL /\ entries[j].proc = NULL /\ entries[i].pid = entries[j].pid => i = j
    BY DEF PlatformInv, EntriesRight
  <2>4. \A i, j \in DOMAIN entries' : i + 1 = j + 1 => i = j
    BY <1>3
  <2>5. \A i, j \in DOMAIN entries' :
          entries'[i].proc = NULL /\ entries'[j].proc = NULL /\ entries'[i].pid = entries'[j].pid => i = j
    BY <1>3, <2>3, <2>4
  <2>6. platform = "unsupported" => \A i \in DOMAIN entries : entries[i].proc = NULL
    BY DEF PlatformInv, EntriesRight
  <2> QED
    BY <1>1, <1>3, <2>1, <2>2, <2>5, <2>6 DEF EntriesRight
<1>6. AllRows' = AllRows
  BY <1>1 DEF AllRows, Rows, LwpPid
<1>7. /\ GivesRow(ThisEntry) => Coming(entries) = Coming(entries)' \cup {Key(ThisEntry)}
      /\ ~GivesRow(ThisEntry) => Coming(entries) = Coming(entries)'
  <2>1. \A e : Key(e)' = Key(e) /\ (GivesRow(e)' <=> GivesRow(e))
    BY <1>1 DEF Key, GivesRow, LwpPid
  <2>2. Coming(entries)' = {Key(e) : e \in {f \in ToSet(entries') : GivesRow(f)}}
    BY <2>1 DEF Coming
  <2> QED
    BY <1>3, <2>2 DEF Coming
<1> QED
  BY <1>1, <1>2, <1>3, <1>4, <1>5, <1>6, <1>7

(* Some entries give no row.                                                *)
LEMMA SkipKeepsInv ==
  ASSUME PlatformInv, Visited, ScanOnly, read' = read, ~GivesRow(ThisEntry), UNCHANGED listVars
  PROVE  PlatformInv'
<1>1. /\ UNCHANGED <<platform, pc, read>> /\ pc = "visit" /\ entries' \in Seq(EntryType)
      /\ SystemTyped' /\ EntriesRight' /\ AllRows' = AllRows /\ Coming(entries)' = Coming(entries)
  BY FirstVisited
<1>2. UNCHANGED <<ps, processes, processTable, fresh>>
  BY DEF listVars
<1>3. ListTyped'
  BY <1>1, <1>2 DEF PlatformInv, ListTyped, Proc, EntryType, PidOf
<1>4. RowsRight'
  BY <1>1, <1>2 DEF PlatformInv, RowsRight, Updated, Quiet
<1> QED
  BY <1>1, <1>2, <1>3, <1>4 DEF PlatformInv

\* When the fields of an object have been written and the object is in the list, one
\* row that was to come is there.
LEMMA StoreKeepsInv ==
  ASSUME PlatformInv, Visited, ScanOnly, read' = read, GivesRow(ThisEntry),
         NEW object \in ObjectType, NEW k, k = Key(ThisEntry), object.pid = k, Store(k, object)
  PROVE  PlatformInv'
<1> DEFINE L == DOMAIN ps
<1>1. /\ UNCHANGED <<platform, pc, read>> /\ pc = "visit"
      /\ entries' \in Seq(EntryType) /\ ThisEntry \in EntryType /\ platform \in Platforms
      /\ SystemTyped' /\ EntriesRight' /\ AllRows' = AllRows
      /\ Coming(entries) = Coming(entries)' \cup {k}
  BY FirstVisited
<1>2. ps \in [L -> ObjectType] /\ \A x \in L : ps[x].pid = x /\ PidOf(x) \in Pid
  BY DEF PlatformInv, ListTyped
<1>3. k \in Nat /\ PidOf(k) \in Pid
  BY <1>1, KeysOfEntries
<1>4. ps' = [x \in L \cup {k} |-> IF x = k THEN [object EXCEPT !.updated = TRUE] ELSE ps[x]]
  BY DEF Store
<1>5. /\ [object EXCEPT !.updated = TRUE] \in ObjectType
      /\ [object EXCEPT !.updated = TRUE].pid = k /\ [object EXCEPT !.updated = TRUE].updated = TRUE
  BY DEF ObjectType
<1>6. /\ DOMAIN ps' = L \cup {k} /\ ps'[k] \in ObjectType /\ ps'[k].pid = k /\ ps'[k].updated = TRUE
      /\ \A x \in L : x # k => ps'[x] = ps[x]
  BY <1>4, <1>5
<1>7. ps' \in [L \cup {k} -> ObjectType] /\ \A x \in L \cup {k} : ps'[x].pid = x /\ PidOf(x) \in Pid
  <2>1. \A x \in L \cup {k} : ps'[x] \in ObjectType /\ ps'[x].pid = x /\ PidOf(x) \in Pid
    BY <1>2, <1>3, <1>6
  <2> QED
    BY <1>4, <1>6, <2>1
<1>8. (k \in L => fresh' = fresh) /\ (k \notin L => fresh' = fresh \cup {k})
      /\ BothHold(processes', processTable', L \cup {k})
  <2>1. Old(k) <=> k \in L
    BY <1>3, ObjectsTyped
  <2>2. BothHold(processes, processTable, L)
    BY DEF PlatformInv
  <2>3. CASE k \in L
    <3>1. UNCHANGED <<processes, processTable, fresh>> /\ L \cup {k} = L
      BY <2>1, <2>3 DEF Store
    <3> QED
      BY <2>2, <2>3, <3>1
  <2>4. CASE k \notin L
    <3>1. /\ processes' = VectorAdd(processes, k) /\ processTable' = HashtablePut(processTable, k, k)
          /\ fresh' = fresh \cup {k}
      BY <2>1, <2>4 DEF Store
    <3>2. VectorHolds(processes, L) /\ TableHolds(processTable, L) /\ L \subseteq Nat
          /\ processTable.items = processes.items
      BY <2>2 DEF BothHold
    <3>3. VectorHolds(processes', L \cup {k}) /\ processes'.items = processes.items + 1
      BY <1>3, <2>4, <3>1, <3>2, AddHolds
    <3>4. TableHolds(processTable', L \cup {k}) /\ processTable'.items = processTable.items + 1
      BY <1>3, <2>4, <3>1, <3>2, PutHolds
    <3> QED
      BY <1>3, <2>4, <3>1, <3>2, <3>3, <3>4 DEF BothHold
  <2> QED
    BY <2>3, <2>4
<1> HIDE DEF L
<1>9. ListTyped'
  <2>1. EntryType' = EntryType /\ Proc' = Proc /\ ObjectType' = ObjectType
    BY <1>1 DEF EntryType, Proc, ObjectType
  <2>2. \A x : PidOf(x)' = PidOf(x)
    BY <1>1 DEF PidOf
  <2>3. fresh' \subseteq DOMAIN ps'
    BY <1>6, <1>8 DEF PlatformInv, ListTyped, L
  <2> QED
    BY <1>1, <1>6, <1>7, <2>1, <2>2, <2>3 DEF PlatformInv, ListTyped
<1>10. Updated' = Updated \cup {k}
  BY <1>2, <1>6 DEF Updated, L
<1>11. RowsRight'
  <2>1. Updated \cup Coming(entries) = AllRows /\ fresh \subseteq Updated
    BY <1>1 DEF PlatformInv, RowsRight
  <2>2. fresh' \subseteq Updated'
    BY <1>8, <1>10, <2>1
  <2> QED
    BY <1>1, <1>10, <2>1, <2>2 DEF RowsRight, Quiet
<1>12. BothHold(processes', processTable', DOMAIN ps')
  BY <1>6, <1>8 DEF L
<1> QED
  BY <1>1, <1>9, <1>11, <1>12 DEF PlatformInv

\* Only the walk of Solaris, and an unsupported system, have entries not read yet.
LEMMA EntryIsRead ==
  ASSUME PlatformInv, Visited, platform \notin {"solaris", "unsupported"}
  PROVE  /\ GivesRow(ThisEntry) /\ Key(ThisEntry) = ThisEntry.pid /\ ThisEntry.pid \in Nat
         /\ ThisEntry.proc.ppid \in Nat /\ ThisEntry.proc.jid \in Jid \cup {0} /\ ThisEntry.proc.jid \in Nat
         /\ ThisEntry.proc.task \in Tasks[platform] /\ platform \in Platforms
<1>1. entries \in Seq(EntryType) /\ entries # << >> /\ platform \in Platforms
  BY DEF PlatformInv, SystemTyped, ListTyped, Visited
<1>2. ThisEntry = entries[1] /\ ThisEntry \in EntryType /\ 1 \in DOMAIN entries
  BY <1>1, TailOf DEF ThisEntry
<1>3. ThisEntry.proc # NULL
  BY <1>2 DEF PlatformInv, EntriesRight
<1>4. GivesRow(ThisEntry) /\ Key(ThisEntry) = ThisEntry.pid
  BY <1>3 DEF GivesRow, Key
<1>5. ThisEntry.pid \in Pid /\ ThisEntry.proc \in Proc
  BY <1>2, <1>3 DEF EntryType
<1>6. /\ ThisEntry.proc.ppid \in Pid \cup {0} /\ ThisEntry.proc.jid \in Jid \cup {0}
      /\ ThisEntry.proc.task \in Tasks[platform]
  BY <1>5 DEF Proc
<1>7. ThisEntry.pid \in Nat /\ ThisEntry.proc.ppid \in Nat /\ ThisEntry.proc.jid \in Nat
  BY <1>5, <1>6, NumbersOfPids
<1> QED
  BY <1>1, <1>4, <1>6, <1>7

LEMMA VisitFreeBSDKeepsInv ==
  ASSUME PlatformInv, VisitFreeBSD
  PROVE  PlatformInv'
<1> DEFINE k == ThisEntry.pid
           proc == ThisEntry.proc
           o == Object(k)
           name == ReadJailName(proc.jid)
           kept == IF Old(k) THEN JailOf(o, proc.jid, name)
                   ELSE [o EXCEPT !.jid = proc.jid, !.jname = name, !.tgid = k,
                                  !.kernel = k \notin {0, 1} /\ proc.task.kernel]
           object == [kept EXCEPT !.show = ShownUntilNow(o), !.ppid = proc.ppid,
                                  !.nlwp = Cardinality(proc.task.lwps),
                                  !.cpu = Cardinality(proc.task.busy),
                                  !.running = proc.task.busy # {}]
<1>1. /\ platform = "freebsd" /\ Visited /\ ScanOnly /\ read' = read
      /\ Store(k, object)
  BY DEF VisitFreeBSD
<1>2. /\ GivesRow(ThisEntry) /\ Key(ThisEntry) = k /\ k \in Nat /\ proc.ppid \in Nat
      /\ proc.jid \in Jid \cup {0} /\ proc.jid \in Nat
      /\ proc.task \in Tasks[platform] /\ platform \in Platforms
  BY <1>1, EntryIsRead
<1>3. /\ proc.task.kernel \in BOOLEAN
      /\ Cardinality(proc.task.lwps) \in Nat /\ Cardinality(proc.task.busy) \in Nat
  BY <1>2, TasksTyped
<1>4. o \in ObjectType /\ o.pid = k
  BY <1>2, ObjectsTyped
<1>5. name \in Jid \cup {NoName, NULL}
  BY <1>2 DEF ReadJailName
<1>6. ShownUntilNow(o) \in BOOLEAN
  BY DEF ShownUntilNow
<1> HIDE DEF o, proc, name, k
<1>7. kept \in ObjectType /\ kept.pid = k
  BY <1>2, <1>3, <1>4, <1>5 DEF ObjectType, JailOf
<1> HIDE DEF kept
<1>8. object \in ObjectType /\ object.pid = k
  BY <1>2, <1>3, <1>6, <1>7 DEF ObjectType
<1> HIDE DEF object
<1> QED
  BY <1>1, <1>2, <1>8, StoreKeepsInv

LEMMA VisitDragonFlyKeepsInv ==
  ASSUME PlatformInv, VisitDragonFly
  PROVE  PlatformInv'
<1> DEFINE k == ThisEntry.pid
           proc == ThisEntry.proc
           o == Object(k)
           name == ListedJailName(proc.jid)
           kept == IF Old(k) THEN JailOf(o, proc.jid, name)
                   ELSE [o EXCEPT !.jid = proc.jid, !.jname = name, !.tgid = k,
                                  !.kernel = proc.task.kernel]
           show == ~ \/ settings.hideKernelThreads /\ o.kernel
                     \/ settings.hideUserlandThreads /\ o.nlwp > 1
           cpu == One(ThisEntry.lwp \in proc.task.busy)
           running == Runs(proc, ThisEntry.lwp)
           object == [kept EXCEPT !.show = show, !.ppid = proc.ppid,
                                  !.nlwp = Cardinality(proc.task.lwps),
                                  !.cpu = cpu, !.running = running]
<1>1. /\ platform = "dragonfly" /\ Visited /\ ScanOnly /\ read' = read
      /\ Store(k, object)
  BY DEF VisitDragonFly
<1>2. /\ GivesRow(ThisEntry) /\ Key(ThisEntry) = k /\ k \in Nat /\ proc.ppid \in Nat
      /\ proc.jid \in Jid \cup {0} /\ proc.jid \in Nat
      /\ proc.task \in Tasks[platform] /\ platform \in Platforms
  BY <1>1, EntryIsRead
<1>3. proc.task.kernel \in BOOLEAN /\ Cardinality(proc.task.lwps) \in Nat
  BY <1>2, TasksTyped
<1>4. o \in ObjectType /\ o.pid = k
  BY <1>2, ObjectsTyped
<1>5. name \in Jid \cup {NoName, NULL}
  BY <1>2 DEF ListedJailName, PlatformInv, SystemTyped
<1>6. cpu \in Nat /\ running \in BOOLEAN /\ show \in BOOLEAN
  BY DEF One, Runs
<1> HIDE DEF o, proc, name, k, cpu, running, show
<1>7. kept \in ObjectType /\ kept.pid = k
  BY <1>2, <1>3, <1>4, <1>5 DEF ObjectType, JailOf
<1> HIDE DEF kept
<1>8. object \in ObjectType /\ object.pid = k
  BY <1>2, <1>3, <1>6, <1>7 DEF ObjectType
<1> HIDE DEF object
<1> QED
  BY <1>1, <1>2, <1>8, StoreKeepsInv

LEMMA VisitOpenBSDKeepsInv ==
  ASSUME PlatformInv, VisitOpenBSD
  PROVE  PlatformInv'
<1> DEFINE k == ThisEntry.pid
           proc == ThisEntry.proc
           o == Object(k)
           kept == IF Old(k) THEN o
                   ELSE [o EXCEPT !.ppid = proc.ppid, !.tgid = k, !.kernel = proc.task.kernel]
           object == [kept EXCEPT !.show = ShownUntilNow(o),
                                  !.cpu = Cardinality(proc.task.busy),
                                  !.running = proc.task.busy # {}]
<1>1. /\ platform = "openbsd" /\ Visited /\ ScanOnly /\ read' = read
      /\ Store(k, object)
  BY DEF VisitOpenBSD
<1>2. /\ GivesRow(ThisEntry) /\ Key(ThisEntry) = k /\ k \in Nat /\ proc.ppid \in Nat
      /\ proc.task \in Tasks[platform] /\ platform \in Platforms
  BY <1>1, EntryIsRead
<1>3. proc.task.kernel \in BOOLEAN /\ Cardinality(proc.task.busy) \in Nat
  BY <1>2, TasksTyped
<1>4. o \in ObjectType /\ o.pid = k
  BY <1>2, ObjectsTyped
<1>5. ShownUntilNow(o) \in BOOLEAN
  BY DEF ShownUntilNow
<1> HIDE DEF o, proc, k
<1>6. kept \in ObjectType /\ kept.pid = k
  BY <1>2, <1>3, <1>4 DEF ObjectType
<1> HIDE DEF kept
<1>7. object \in ObjectType /\ object.pid = k
  BY <1>3, <1>5, <1>6 DEF ObjectType
<1> HIDE DEF object
<1> QED
  BY <1>1, <1>2, <1>7, StoreKeepsInv

LEMMA VisitDarwinKeepsInv ==
  ASSUME PlatformInv, VisitDarwin
  PROVE  PlatformInv'
<1> DEFINE k == ThisEntry.pid
           proc == ThisEntry.proc
           open == Exists(k) /\ Alive(os[k].task)
           task == IF open THEN os[k].task ELSE proc.task
           basic == FromKInfoProc(Object(k), k, proc)
           known(info) == IF info THEN FromLibprocPidinfo(basic, task) ELSE basic
           object(info, allowed) == IF basic.taskAccess /\ Alive(proc.task)
                                    THEN ScanThreads(known(info), task, allowed) ELSE known(info)
<1>1. platform = "darwin" /\ Visited /\ ScanOnly /\ read' = read
  BY DEF VisitDarwin
<1>2. PICK info \in {FALSE, open}, allowed \in {FALSE, open} : Store(k, object(info, allowed))
  BY DEF VisitDarwin
<1>3. /\ GivesRow(ThisEntry) /\ Key(ThisEntry) = k /\ k \in Nat /\ proc.ppid \in Nat
      /\ proc.task \in Tasks[platform] /\ platform \in Platforms
  BY <1>1, EntryIsRead
<1>4. task \in Tasks[platform]
  <2>1. ThisEntry.pid \in Pid
    BY <1>1, FirstVisited DEF EntryType
  <2> QED
    BY <1>3, <2>1 DEF PlatformInv, SystemTyped, Exists, Proc
<1>5. Cardinality(task.lwps) \in Nat /\ Cardinality(task.busy) \in Nat
  BY <1>3, <1>4, TasksTyped
<1>6. Object(k) \in ObjectType /\ Object(k).pid = k
  BY <1>3, ObjectsTyped
<1>7. info \in BOOLEAN /\ allowed \in BOOLEAN
  BY <1>2 DEF Exists, Alive
<1> HIDE DEF k, proc, task, open
<1>8. basic \in ObjectType /\ basic.pid = k
  BY <1>3, <1>6 DEF FromKInfoProc, ObjectType
<1> HIDE DEF basic
<1>9. known(info) \in ObjectType /\ known(info).pid = k
  BY <1>5, <1>8 DEF FromLibprocPidinfo, ObjectType
<1> HIDE DEF known
<1>10. object(info, allowed) \in ObjectType /\ object(info, allowed).pid = k
  BY <1>7, <1>9 DEF ScanThreads, ObjectType
<1> HIDE DEF object
<1> QED
  BY <1>1, <1>2, <1>3, <1>10, StoreKeepsInv

LEMMA VisitUnsupportedKeepsInv ==
  ASSUME PlatformInv, VisitUnsupported
  PROVE  PlatformInv'
<1>1. platform = "unsupported" /\ Visited /\ ScanOnly /\ read' = read /\ UNCHANGED listVars
  BY DEF VisitUnsupported
<1>2. entries \in Seq(EntryType) /\ entries # << >>
  BY <1>1 DEF PlatformInv, ListTyped, Visited
<1>3. ThisEntry = entries[1] /\ 1 \in DOMAIN entries
  BY <1>2, TailOf DEF ThisEntry
<1>4. ~GivesRow(ThisEntry)
  BY <1>1, <1>3 DEF PlatformInv, EntriesRight, GivesRow
<1> QED
  BY <1>1, <1>4, SkipKeepsInv

LEMMA VisitSolarisKeepsInv ==
  ASSUME PlatformInv, VisitSolaris
  PROVE  PlatformInv'
<1> DEFINE p == ThisEntry.pid
           l == ThisEntry.lwp
           proc == ThisEntry.proc
           master == l = proc.task.rep
           k == LwpPid(p, l, proc.task.rep)
           o == Object(k)
           nlwp == Cardinality(proc.task.lwps)
           hideKernel == settings.hideKernelThreads
           hideUserland == settings.hideUserlandThreads
           parent == IF master THEN proc.ppid ELSE IF Old(k) THEN o.ppid ELSE p
           cpu == IF master THEN Cardinality(proc.task.busy) ELSE One(l \in proc.task.busy)
           show == IF master THEN ~(hideKernel /\ o.kernel)
                   ELSE IF o.kernel THEN ~hideKernel ELSE ~hideUserland
           isLwp == IF Old(k) THEN o.isLwp ELSE ~master
           kernel == IF Old(k) THEN o.kernel ELSE parent = 0 /\ p # 1
           running == l \in proc.task.busy
           half == [o EXCEPT !.ppid = parent, !.nlwp = nlwp, !.tgid = parent, !.isLwp = isLwp]
           object == [half EXCEPT !.kernel = kernel, !.cpu = cpu, !.running = running, !.show = show]
<1>1. platform = "solaris" /\ Visited /\ ScanOnly /\ read' = read /\ proc # NULL
  BY DEF VisitSolaris
<1>2. /\ l > 1023 => UNCHANGED listVars
      /\ ~(l > 1023) => Store(k, object)
  BY DEF VisitSolaris
<1>3. ThisEntry \in EntryType /\ platform \in Platforms
  BY <1>1, FirstVisited
<1>4. l \in Nat /\ proc \in Proc /\ p \in Nat
  BY <1>1, <1>3, PidsTyped DEF EntryType
<1>5. CASE l > 1023
  <2>1. ~GivesRow(ThisEntry)
    BY <1>1, <1>4, <1>5 DEF GivesRow
  <2> QED
    BY <1>1, <1>2, <1>5, <2>1, SkipKeepsInv
<1>6. CASE ~(l > 1023)
  <2>1. GivesRow(ThisEntry) /\ Key(ThisEntry) = k
    BY <1>1, <1>4, <1>6 DEF GivesRow, Key
  <2>2. k \in Nat
    BY <1>3, <2>1, KeysOfEntries
  <2>3. o \in ObjectType /\ o.pid = k
    BY <2>2, ObjectsTyped
  <2>4. proc.task \in Tasks[platform] /\ proc.ppid \in Nat
    <3>1. proc.task \in Tasks[platform] /\ proc.ppid \in Pid \cup {0}
      BY <1>4 DEF Proc
    <3> QED
      BY <3>1, NumbersOfPids
  <2>5. nlwp \in Nat /\ Cardinality(proc.task.busy) \in Nat
    BY <1>3, <2>4, TasksTyped
  <2>6. settings.hideKernelThreads \in BOOLEAN /\ settings.hideUserlandThreads \in BOOLEAN
    BY DEF PlatformInv, SystemTyped
  <2>7. cpu \in Nat
    BY <2>5 DEF One
  <2> HIDE DEF k, o, nlwp, cpu, p, l, proc
  <2>8. /\ parent \in Nat /\ show \in BOOLEAN /\ running \in BOOLEAN
        /\ isLwp \in BOOLEAN /\ kernel \in BOOLEAN
    <3>1. o.ppid \in Nat /\ o.kernel \in BOOLEAN /\ o.isLwp \in BOOLEAN
      BY <2>3 DEF ObjectType
    <3>2. running \in BOOLEAN
      OBVIOUS
    <3> QED
      BY <1>4, <2>4, <2>6, <3>1, <3>2
  <2> HIDE DEF parent, show, isLwp, kernel, running
  <2>9. half \in ObjectType /\ half.pid = k
    BY <2>3, <2>5, <2>8 DEF ObjectType
  <2> HIDE DEF half
  <2>10. object \in ObjectType /\ object.pid = k
    BY <2>7, <2>8, <2>9 DEF ObjectType
  <2> HIDE DEF object
  <2> QED
    BY <1>1, <1>2, <1>6, <2>1, <2>10, StoreKeepsInv
<1> QED
  BY <1>5, <1>6

\* The callback is for every LWP of a process that is still there; its rows are then
\* among those to come.
LEMMA OpenSolarisKeepsInv ==
  ASSUME PlatformInv, OpenSolaris
  PROVE  PlatformInv'
<1> DEFINE p == ThisEntry.pid
           lwps == IF Exists(p) THEN SetToSeq(os[p].task.lwps) ELSE << >>
           opened == [i \in DOMAIN lwps |-> [pid |-> p, proc |-> os[p], lwp |-> lwps[i]]]
           rest == Tail(entries)
           rows == IF os[p] = NULL THEN {}
                   ELSE {LwpPid(p, l, os[p].task.rep) : l \in {m \in os[p].task.lwps : m < 1024}}
<1>1. /\ UNCHANGED <<platform, os, jails, other, settings, jailTable, pc, ps, processes, processTable, fresh>>
      /\ platform = "solaris" /\ pc = "visit" /\ entries # << >> /\ ThisEntry.proc = NULL
      /\ entries' = opened \o rest /\ read' = [read EXCEPT ![p] = os[p]]
  BY DEF OpenSolaris, ScanOnly, osVars, listVars
<1>2. entries \in Seq(EntryType) /\ platform \in Platforms /\ read \in [Pid -> Proc \cup {NULL}]
      /\ os \in [Pid -> Proc \cup {NULL}]
  BY DEF PlatformInv, SystemTyped, ListTyped
<1>3. /\ rest \in Seq(EntryType) /\ ThisEntry \in EntryType /\ ThisEntry = entries[1] /\ 1 \in DOMAIN entries
      /\ \A i \in DOMAIN rest : i + 1 \in DOMAIN entries /\ rest[i] = entries[i + 1] /\ i + 1 # 1
      /\ ToSet(entries) = {ThisEntry} \cup ToSet(rest)
  <2>1. /\ Tail(entries) \in Seq(EntryType) /\ Head(entries) \in EntryType /\ Head(entries) = entries[1]
        /\ 1 \in DOMAIN entries
        /\ DOMAIN Tail(entries) = 1..(Len(entries) - 1)
        /\ \A i \in DOMAIN Tail(entries) : i + 1 \in DOMAIN entries /\ Tail(entries)[i] = entries[i + 1]
        /\ ToSet(entries) = {Head(entries)} \cup ToSet(Tail(entries))
    BY <1>1, <1>2, TailOf
  <2>2. \A i \in DOMAIN Tail(entries) : i + 1 # 1
    BY <2>1
  <2> QED
    BY <2>1, <2>2 DEF ThisEntry
<1>4. p \in Pid /\ read[p] = NULL /\ (os[p] # NULL => os[p] \in Proc /\ os[p].task \in Tasks[platform])
  <2>1. p \in Pid
    BY <1>3 DEF EntryType
  <2>2. read[p] = NULL
    BY <1>1, <1>3 DEF PlatformInv, EntriesRight
  <2>3. os[p] # NULL => os[p] \in Proc
    BY <1>2, <2>1
  <2> QED
    BY <2>1, <2>2, <2>3 DEF Proc
<1>5. \A i \in DOMAIN rest : /\ rest[i].pid # p
                             /\ rest[i].proc # NULL => read[rest[i].pid] = rest[i].proc
                             /\ rest[i].proc = NULL => read[rest[i].pid] = NULL
  <2> SUFFICES ASSUME NEW i \in DOMAIN rest
               PROVE  /\ rest[i].pid # p
                      /\ rest[i].proc # NULL => read[rest[i].pid] = rest[i].proc
                      /\ rest[i].proc = NULL => read[rest[i].pid] = NULL
    OBVIOUS
  <2>1. i + 1 \in DOMAIN entries /\ rest[i] = entries[i + 1] /\ i + 1 # 1
    BY <1>3
  <2>2. /\ rest[i].proc # NULL => read[rest[i].pid] = rest[i].proc
        /\ rest[i].proc = NULL => read[rest[i].pid] = NULL
    BY <2>1 DEF PlatformInv, EntriesRight
  <2>3. rest[i].proc = NULL => rest[i].pid # p
    BY <1>1, <1>3, <2>1 DEF PlatformInv, EntriesRight
  <2> QED
    BY <1>4, <2>2, <2>3
<1>6. \A i, j \in DOMAIN rest :
        rest[i].proc = NULL /\ rest[j].proc = NULL /\ rest[i].pid = rest[j].pid => i = j
  <2> SUFFICES ASSUME NEW i \in DOMAIN rest, NEW j \in DOMAIN rest,
                      rest[i].proc = NULL, rest[j].proc = NULL, rest[i].pid = rest[j].pid
               PROVE  i = j
    OBVIOUS
  <2>1. i + 1 = j + 1
    BY <1>3 DEF PlatformInv, EntriesRight
  <2>2. i \in Int /\ j \in Int
    BY <1>3
  <2> QED
    BY <2>1, <2>2
<1>7. lwps \in Seq(Nat) /\ ToSet(lwps) = IF os[p] = NULL THEN {} ELSE os[p].task.lwps
  <2>1. CASE os[p] = NULL
    <3>1. lwps = << >>
      BY <2>1 DEF Exists
    <3>2. << >> \in Seq(Nat) /\ ToSet(<< >>) = {}
      BY DEF ToSet
    <3> QED
      BY <2>1, <3>1, <3>2
  <2>2. CASE os[p] # NULL
    <3> DEFINE t == os[p].task
    <3>1. lwps = SetToSeq(t.lwps) /\ t \in Tasks[platform]
      BY <1>4, <2>2 DEF Exists
    <3> HIDE DEF t, lwps
    <3>2. t.lwps \subseteq Nat /\ IsFiniteSet(t.lwps)
      BY <1>2, <3>1, TasksTyped
    <3>3. lwps \in Seq(t.lwps) /\ ToSet(lwps) = t.lwps
      BY <3>1, <3>2, SetToSeqIsAll
    <3>4. lwps \in Seq(Nat)
      BY <3>2, <3>3
    <3> QED
      BY <2>2, <3>3, <3>4 DEF t
  <2> QED
    BY <2>1, <2>2
<1>8. os[p] = NULL => DOMAIN lwps = {}
  BY <1>7 DEF ToSet
<1> HIDE DEF lwps
<1>9. /\ DOMAIN opened = DOMAIN lwps
      /\ \A i \in DOMAIN opened : opened[i] \in EntryType /\ opened[i].pid = p /\ opened[i].proc = os[p]
                                  /\ opened[i].lwp = lwps[i] /\ os[p] # NULL
  BY <1>4, <1>7, <1>8 DEF EntryType
<1>10. opened \in Seq(EntryType)
  <2>1. DOMAIN lwps = 1..Len(lwps) /\ Len(lwps) \in Nat
    BY <1>7
  <2>2. opened \in [1..Len(lwps) -> EntryType]
    BY <1>9, <2>1
  <2> HIDE DEF opened
  <2> QED
    BY <2>1, <2>2
<1> HIDE DEF opened, rest
<1>11. /\ entries' \in Seq(EntryType) /\ ToSet(entries') = ToSet(opened) \cup ToSet(rest)
       /\ \A i \in DOMAIN entries' : \/ i \in DOMAIN opened /\ entries'[i] = opened[i]
                                     \/ i - Len(opened) \in DOMAIN rest /\ entries'[i] = rest[i - Len(opened)]
                                        /\ i \in Int /\ Len(opened) \in Int
  <2>1. entries' \in Seq(EntryType) /\ ToSet(entries') = ToSet(opened) \cup ToSet(rest)
    BY <1>1, <1>3, <1>10, ToSetOfConcat
  <2>2. /\ Len(entries') = Len(opened) + Len(rest)
        /\ \A i \in 1..(Len(opened) + Len(rest)) :
             entries'[i] = IF i <= Len(opened) THEN opened[i] ELSE rest[i - Len(opened)]
    BY <1>1, <1>3, <1>10, ConcatProperties
  <2>3. /\ DOMAIN opened = 1..Len(opened) /\ DOMAIN rest = 1..Len(rest) /\ Len(opened) \in Nat
        /\ Len(rest) \in Nat /\ DOMAIN entries' = 1..(Len(opened) + Len(rest))
    BY <1>3, <1>10, <2>1, <2>2
  <2>4. ASSUME NEW i \in DOMAIN entries'
        PROVE  \/ i \in DOMAIN opened /\ entries'[i] = opened[i]
               \/ i - Len(opened) \in DOMAIN rest /\ entries'[i] = rest[i - Len(opened)]
                  /\ i \in Int /\ Len(opened) \in Int
    BY <2>2, <2>3
  <2> QED
    BY <2>1, <2>4
<1>12. read' \in [Pid -> Proc \cup {NULL}] /\ read'[p] = os[p] /\ \A q \in Pid : q # p => read'[q] = read[q]
  BY <1>1, <1>2, <1>4
<1>13. \A i \in DOMAIN rest : rest[i].pid \in Pid
  <2>1. \A i \in DOMAIN rest : rest[i] \in EntryType
    BY <1>3
  <2> QED
    BY <2>1 DEF EntryType
<1>14. SystemTyped'
  BY <1>1 DEF PlatformInv, SystemTyped, Proc
<1>15. ListTyped'
  <2>1. EntryType' = EntryType /\ Proc' = Proc
    BY <1>1 DEF EntryType, Proc
  <2> QED
    BY <1>1, <1>11, <1>12, <2>1 DEF PlatformInv, ListTyped, PidOf
<1>16. EntriesRight'
  <2>1. ASSUME NEW i \in DOMAIN entries'
        PROVE  /\ entries'[i].proc # NULL => read'[entries'[i].pid] = entries'[i].proc
               /\ entries'[i].proc = NULL => read'[entries'[i].pid] = NULL
    <3>1. CASE i \in DOMAIN opened /\ entries'[i] = opened[i]
      BY <1>9, <1>12, <3>1
    <3>2. CASE i - Len(opened) \in DOMAIN rest /\ entries'[i] = rest[i - Len(opened)]
      BY <1>5, <1>12, <1>13, <3>2
    <3> QED
      BY <1>11, <3>1, <3>2
  <2>2. ASSUME NEW i \in DOMAIN entries', entries'[i].proc = NULL
        PROVE  /\ i - Len(opened) \in DOMAIN rest /\ entries'[i] = rest[i - Len(opened)]
               /\ i \in Int /\ Len(opened) \in Int
    BY <1>9, <1>11, <2>2
  <2>3. ASSUME NEW i \in DOMAIN entries', NEW j \in DOMAIN entries',
               entries'[i].proc = NULL, entries'[j].proc = NULL, entries'[i].pid = entries'[j].pid
        PROVE  i = j
    <3>1. i - Len(opened) = j - Len(opened) /\ i \in Int /\ j \in Int /\ Len(opened) \in Int
      BY <1>6, <2>2, <2>3
    <3> QED
      BY <3>1
  <2> QED
    BY <1>1, <2>1, <2>3 DEF EntriesRight
<1>17. Coming(entries)' = Coming(entries) \cup rows
  <2>1. \A e : Key(e)' = LwpPid(e.pid, e.lwp, e.proc.task.rep) /\ Key(e) = LwpPid(e.pid, e.lwp, e.proc.task.rep)
               /\ (GivesRow(e)' <=> e.proc # NULL /\ e.lwp < 1024)
               /\ (GivesRow(e) <=> e.proc # NULL /\ e.lwp < 1024)
    BY <1>1 DEF Key, GivesRow, LwpPid
  <2>2. /\ \A k : k \in Coming(entries)' <=> \E e \in ToSet(entries') : GivesRow(e)' /\ k = Key(e)'
        /\ \A k : k \in Coming(entries) <=> \E e \in ToSet(entries) : GivesRow(e) /\ k = Key(e)
    BY DEF Coming
  <2>3. \A k : k \in Coming(entries) <=> \E e \in ToSet(rest) : GivesRow(e) /\ k = Key(e)
    BY <1>1, <1>3, <2>1, <2>2
  <2>4. \A k : k \in Coming(entries)' <=> \/ \E e \in ToSet(rest) : GivesRow(e) /\ k = Key(e)
                                         \/ \E e \in ToSet(opened) : GivesRow(e) /\ k = Key(e)
    BY <1>11, <2>1, <2>2
  <2>5. ASSUME NEW e \in ToSet(opened), GivesRow(e) PROVE Key(e) \in rows
    <3>1. PICK i \in DOMAIN opened : e = opened[i]
      BY DEF ToSet
    <3>2. lwps[i] \in ToSet(lwps) /\ os[p] # NULL
      BY <1>9 DEF ToSet
    <3>3. e.lwp \in os[p].task.lwps /\ e.lwp < 1024 /\ e.pid = p /\ e.proc = os[p]
      BY <1>7, <1>9, <2>1, <2>5, <3>1, <3>2
    <3> QED
      BY <2>1, <3>2, <3>3
  <2>6. ASSUME NEW k \in rows PROVE \E e \in ToSet(opened) : GivesRow(e) /\ k = Key(e)
    <3>1. os[p] # NULL /\ \E l \in os[p].task.lwps : l < 1024 /\ k = LwpPid(p, l, os[p].task.rep)
      BY <2>6
    <3>2. PICK l \in os[p].task.lwps : l < 1024 /\ k = LwpPid(p, l, os[p].task.rep)
      BY <3>1
    <3>3. PICK i \in DOMAIN lwps : lwps[i] = l
      BY <1>7, <3>1 DEF ToSet
    <3>4. opened[i] \in ToSet(opened) /\ opened[i].lwp = l /\ opened[i].pid = p /\ opened[i].proc = os[p]
      BY <1>9, <3>3 DEF ToSet
    <3> QED
      BY <2>1, <3>1, <3>2, <3>4
  <2> HIDE DEF rows
  <2> QED
    BY <2>3, <2>4, <2>5, <2>6
<1>18. AllRows' = AllRows \cup rows
  <2>1. PICK q \in Pid : q = p
    BY <1>4
  <2>2. read[q] = NULL /\ read'[q] = os[q] /\ platform = "solaris" /\ platform' = "solaris"
    BY <1>1, <1>4, <1>12, <2>1
  <2>3. Rows(q) = {}
    BY <2>2 DEF Rows
  <2>4. Rows(q)' = rows
    BY <2>1, <2>2 DEF Rows, LwpPid
  <2>5. \A x \in Pid : x # q => Rows(x)' = Rows(x)
    BY <1>1, <1>12, <2>1 DEF Rows, LwpPid
  <2> HIDE DEF rows
  <2>6. \A x : x \in AllRows' <=> \E y \in Pid : x \in Rows(y)'
    BY DEF AllRows
  <2>7. \A x : x \in AllRows <=> \E y \in Pid : x \in Rows(y)
    BY DEF AllRows
  <2>8. \A x : x \in AllRows' <=> x \in AllRows \/ x \in rows
    BY <2>3, <2>4, <2>5, <2>6, <2>7
  <2> QED
    BY <2>8
<1>19. RowsRight'
  <2>1. Updated' = Updated
    BY <1>1 DEF Updated
  <2> QED
    BY <1>1, <1>17, <1>18, <2>1 DEF PlatformInv, RowsRight, Quiet
<1> QED
  BY <1>1, <1>14, <1>15, <1>16, <1>19 DEF PlatformInv

LEMMA VisitKeepsInv ==
  ASSUME PlatformInv, Visit
  PROVE  PlatformInv'
BY VisitFreeBSDKeepsInv, VisitDragonFlyKeepsInv, VisitOpenBSDKeepsInv, OpenSolarisKeepsInv,
   VisitSolarisKeepsInv, VisitDarwinKeepsInv, VisitUnsupportedKeepsInv DEF Visit

\* The sweep leaves the rows of what was read.
LEMMA EndScanKeepsInv ==
  ASSUME PlatformInv, EndScan
  PROVE  PlatformInv'
<1>1. /\ UNCHANGED <<platform, os, jails, settings, fresh, jailTable, entries, read>>
      /\ pc = "visit" /\ pc' = "scanned" /\ entries = << >>
      /\ processTable' = Sweep.table /\ processes' = Sweep.vector
      /\ ps' = [k \in ToSet(Elements(processes')) |-> [ps[k] EXCEPT !.updated = FALSE]]
      /\ other' \subseteq other
  BY DEF EndScan
<1>2. /\ ps \in [DOMAIN ps -> ObjectType] /\ fresh \subseteq Updated
      /\ \A k \in DOMAIN ps : ps[k].pid = k /\ PidOf(k) \in Pid
      /\ Updated \cup Coming(entries) = AllRows
  BY <1>1 DEF PlatformInv, ListTyped, RowsRight
<1>3. Coming(entries) = {}
  <2>1. ToSet(entries) = {}
    BY <1>1 DEF ToSet
  <2> QED
    BY <2>1 DEF Coming
<1>4. \A k \in DOMAIN ps : ps[k] \in ObjectType /\ ps[k].updated \in BOOLEAN
  BY <1>2 DEF ObjectType
<1>5. BothHold(processes', processTable', Updated)
  <2>1. BothHold(processes, processTable, DOMAIN ps)
    BY DEF PlatformInv
  <2>2. BothHold(Sweep.vector, Sweep.table, {k \in DOMAIN ps : ps[k].updated})
    BY <1>4, <2>1, SweepHolds
  <2> QED
    BY <1>1, <2>2 DEF Updated
<1>6. ToSet(Elements(processes')) = Updated
  <2>1. VectorHolds(processes', Updated)
    BY <1>5 DEF BothHold
  <2> QED
    BY <2>1, ElementsHold
<1>7. ps' = [k \in Updated |-> [ps[k] EXCEPT !.updated = FALSE]]
  BY <1>1, <1>6
<1>8. Updated \subseteq DOMAIN ps
  BY DEF Updated
<1> HIDE DEF Updated
<1>9. \A k \in Updated : /\ ps'[k] \in ObjectType /\ ps'[k].pid = k /\ ps'[k].updated = FALSE
                         /\ PidOf(k) \in Pid
  <2>1. ASSUME NEW o \in ObjectType
        PROVE  LET w == [o EXCEPT !.updated = FALSE]
               IN  w \in ObjectType /\ w.pid = o.pid /\ w.updated = FALSE
    BY DEF ObjectType
  <2> QED
    BY <1>2, <1>4, <1>7, <1>8, <2>1
<1>10. DOMAIN ps' = Updated /\ ps' \in [Updated -> ObjectType]
  BY <1>7, <1>9
<1>11. SystemTyped'
  BY <1>1 DEF PlatformInv, SystemTyped, Proc
<1>12. ListTyped'
  <2>1. EntryType' = EntryType /\ Proc' = Proc /\ ObjectType' = ObjectType
    BY <1>1 DEF EntryType, Proc, ObjectType
  <2>2. \A x : PidOf(x)' = PidOf(x)
    BY <1>1 DEF PidOf
  <2> QED
    BY <1>1, <1>2, <1>9, <1>10, <2>1, <2>2 DEF PlatformInv, ListTyped
<1>13. EntriesRight'
  BY <1>1 DEF EntriesRight
<1>14. RowsRight'
  <2>1. Updated' = {}
    BY <1>9, <1>10 DEF Updated
  <2>2. AllRows' = AllRows
    BY <1>1 DEF AllRows, Rows, LwpPid
  <2> QED
    BY <1>1, <1>2, <1>3, <1>10, <2>1, <2>2 DEF RowsRight, Quiet
<1> QED
  BY <1>5, <1>10, <1>11, <1>12, <1>13, <1>14 DEF PlatformInv

\* The compare functions put rows in the order of a number, upwards or downwards.
LEMMA RowsCompared ==
  ASSUME PlatformInv, NEW key \in {"PID", "PPID", "PERCENT_CPU"}, NEW direction \in {1, -1}
  PROVE  LET V(x) == ValueOf(key, ps[x])
             compare == CompareRows(key, direction)
         IN  /\ \A x \in DOMAIN ps : V(x) \in Int
             /\ \A x, y \in DOMAIN ps :
                   Greater(compare, x, y) <=> IF direction = 1 THEN V(x) > V(y) ELSE V(y) > V(x)
             /\ TotalOrder(compare, DOMAIN ps)
<1> DEFINE V(x) == ValueOf(key, ps[x])
           compare == CompareRows(key, direction)
           first == IF direction = 1 THEN 1 ELSE 2
           second == IF direction = 1 THEN 2 ELSE 1
<1>1. \A x \in DOMAIN ps : V(x) \in Int
  <2> SUFFICES ASSUME NEW x \in DOMAIN ps PROVE V(x) \in Int
    OBVIOUS
  <2>1. ps[x].pid \in Nat /\ ps[x].ppid \in Nat /\ ps[x].cpu \in Nat
    BY DEF PlatformInv, ListTyped, ObjectType
  <2>2. PidOf(ps[x].pid) \in Int
    BY <2>1 DEF PidOf
  <2> QED
    BY <2>1, <2>2 DEF ValueOf
<1> HIDE DEF V
<1>2. ASSUME NEW x \in DOMAIN ps, NEW y \in DOMAIN ps
      PROVE  compare[<<x, y>>] = LET p1 == IF direction = 1 THEN V(x) ELSE V(y)
                                     p2 == IF direction = 1 THEN V(y) ELSE V(x)
                                 IN  IF key = "PERCENT_CPU" THEN IF p1 > p2 THEN 1 ELSE -1 ELSE p1 - p2
  <2>1. <<x, y>> \in (DOMAIN ps) \X (DOMAIN ps) /\ <<x, y>>[1] = x /\ <<x, y>>[2] = y
    OBVIOUS
  <2>2. compare[<<x, y>>] =
          LET p1 == V(<<x, y>>[first])
              p2 == V(<<x, y>>[second])
          IN  IF key = "PERCENT_CPU" THEN IF p1 > p2 THEN 1 ELSE -1 ELSE p1 - p2
    BY <2>1 DEF CompareRows, V
  <2> HIDE DEF compare
  <2> QED
    BY <2>1, <2>2
<1> HIDE DEF compare
<1>3. \A x, y \in DOMAIN ps :
        Greater(compare, x, y) <=> IF direction = 1 THEN V(x) > V(y) ELSE V(y) > V(x)
  <2> SUFFICES ASSUME NEW x \in DOMAIN ps, NEW y \in DOMAIN ps
               PROVE  Greater(compare, x, y) <=> IF direction = 1 THEN V(x) > V(y) ELSE V(y) > V(x)
    OBVIOUS
  <2>1. V(x) \in Int /\ V(y) \in Int
    BY <1>1
  <2> QED
    BY <1>2, <2>1 DEF Greater
<1>4. Comparison(compare, DOMAIN ps)
  BY <1>1, <1>3 DEF Comparison
<1>5. \A x, y, z \in DOMAIN ps :
        ~Greater(compare, x, y) /\ ~Greater(compare, y, z) => ~Greater(compare, x, z)
  BY <1>1, <1>3
<1> QED
  BY <1>1, <1>3, <1>4, <1>5 DEF TotalOrder, V, compare

\* A vector still holds what it held when its elements have changed places.
LEMMA RearrangedHolds ==
  ASSUME NEW v, NEW L, VectorHolds(v, L), NEW D, D = DOMAIN v.array,
         NEW b, NEW S, b \in AllArrays(D, S), S \subseteq Nat \cup {NULL},
         NEW p, Within(p, v.array, b, D, 0, v.items - 1),
         NEW w, w = [array |-> b, items |-> v.items, growthRate |-> v.growthRate]
  PROVE  VectorHolds(w, L) /\ \A k \in Places(v) : p[k] \in Places(v)
<1>1. PICK size \in Nat : v.items <= size /\ v.array \in [0 .. size - 1 -> Nat \cup {NULL}]
  BY DEF VectorHolds
<1>2. D = 0 .. size - 1 /\ Places(v) \subseteq D /\ v.items \in Nat /\ v.growthRate \in Nat \ {0}
  BY <1>1 DEF VectorHolds, Places
<1>3. b \in [0 .. size - 1 -> Nat \cup {NULL}]
  BY <1>2 DEF AllArrays
<1>4. /\ p \in [D -> D] /\ \A k \in D : b[k] = v.array[p[k]]
      /\ \A j, k \in D : p[j] = p[k] => j = k
      /\ \A k \in D : \E j \in D : p[j] = k
      /\ \A k \in D : k \notin Places(v) => p[k] = k
  BY DEF Within, Rearranges, Places
<1>5. \A k \in Places(v) : p[k] \in Places(v)
  BY <1>2, <1>4
<1>6. \A k \in Places(v) : \E j \in Places(v) : p[j] = k
  BY <1>2, <1>4
<1>7. w.array = b /\ w.items = v.items /\ w.growthRate = v.growthRate /\ Places(w) = Places(v)
  BY DEF Places
<1>8. \A i \in Places(v) : b[i] \in L
  BY <1>2, <1>4, <1>5 DEF VectorHolds
<1>9. \A i, j \in Places(v) : b[i] = b[j] => i = j
  <2> SUFFICES ASSUME NEW i \in Places(v), NEW j \in Places(v), b[i] = b[j] PROVE i = j
    OBVIOUS
  <2>1. v.array[p[i]] = v.array[p[j]] /\ p[i] \in Places(v) /\ p[j] \in Places(v)
    BY <1>2, <1>4, <1>5
  <2>2. p[i] = p[j]
    BY <2>1 DEF VectorHolds
  <2> QED
    BY <1>2, <1>4, <2>2
<1>10. \A x \in L : \E i \in Places(v) : b[i] = x
  <2> SUFFICES ASSUME NEW x \in L PROVE \E i \in Places(v) : b[i] = x
    OBVIOUS
  <2>1. PICK k \in Places(v) : v.array[k] = x
    BY DEF VectorHolds
  <2>2. PICK j \in Places(v) : p[j] = k
    BY <1>6
  <2> QED
    BY <1>2, <1>4, <2>1, <2>2
<1> QED
  BY <1>1, <1>2, <1>3, <1>5, <1>7, <1>8, <1>9, <1>10 DEF VectorHolds

(* What a sort makes of the list.                                           *)
SortedRows(p, key, direction) ==
  /\ Rearranges(p, processes.array, processes'.array, DOMAIN processes.array)
  /\ VectorHolds(processes', DOMAIN ps) /\ processes'.items = processes.items
  /\ \A k \in Places(processes) : p[k] \in Places(processes)
  /\ Ordered(CompareRows(key, direction), processes'.array, 0, processes.items - 1)

LEMMA SortSorts ==
  ASSUME PlatformInv, Sort
  PROVE  \E p : /\ SortedRows(p, IF settings.sort.tree THEN "PID" ELSE settings.sort.key,
                             IF settings.sort.tree THEN 1 ELSE settings.sort.direction)
                /\ ~settings.sort.tree =>
                     SortedUpTo(p, processes.array, processes'.array, DOMAIN processes.array,
                                processes.items, CompareRows(settings.sort.key, settings.sort.direction))
<1> DEFINE v == processes
           w == processes'
           a == v.array
           n == v.items
           L == DOMAIN ps
           D == DOMAIN a
           tree == settings.sort.tree
           key == IF tree THEN "PID" ELSE settings.sort.key
           direction == IF tree THEN 1 ELSE settings.sort.direction
           compare == CompareRows(key, direction)
<1>1. VectorHolds(v, L)
  BY DEF PlatformInv, BothHold
<1>2. /\ v = [array |-> a, items |-> n, growthRate |-> v.growthRate]
      /\ n \in Nat /\ \A i \in 0 .. n - 1 : a[i] \in L
  BY <1>1 DEF VectorHolds, Places
<1>3. PICK size \in Nat : n <= size /\ a \in [0 .. size - 1 -> Nat \cup {NULL}]
  BY <1>1 DEF VectorHolds
<1>4. D = 0 .. size - 1 /\ 0 .. n - 1 \subseteq D
  BY <1>2, <1>3
<1>5. key \in {"PID", "PPID", "PERCENT_CPU"} /\ direction \in {1, -1}
  <2>1. settings.sort \in [tree : BOOLEAN, key : {"PID", "PPID", "PERCENT_CPU"}, direction : {1, -1}]
    BY PlatformAssumption DEF PlatformInv, SystemTyped
  <2> QED
    BY <2>1
<1>6. w = IF tree THEN VectorQuickSort(v, compare) ELSE VectorInsertionSort(v, compare)
  BY DEF Sort
<1> HIDE DEF key, direction
<1>7. TotalOrder(compare, L)
  BY <1>5, RowsCompared
<1> HIDE DEF compare, L
<1>8. a \in Arrays(D, Nat \cup {NULL}, L, n) /\ a \in Arrays(D, Range(a), L, n)
  <2>1. a \in [D -> Nat \cup {NULL}] /\ a \in [D -> Range(a)]
    BY <1>3 DEF Range
  <2> QED
    BY <1>2, <2>1 DEF Arrays
<1>9. Range(a) \subseteq Nat \cup {NULL}
  BY <1>3 DEF Range
<1>10. CASE tree
  <2>1. /\ w = [array |-> w.array, items |-> n, growthRate |-> v.growthRate]
        /\ w.array \in AllArrays(D, Range(a)) /\ Shuffled(a, w.array, D, 0, n - 1)
        /\ Ordered(compare, w.array, 0, n - 1)
    <3> HIDE DEF D
    <3>1. w = VectorQuickSort(v, compare)
      BY <1>6, <1>10
    <3> QED
      <4>1. SortedFrom(v, VectorQuickSort(v, compare), D, n, compare)
        BY <1>2, <1>4, <1>7, <1>8, QuickSortSorts
      <4> QED
        BY <3>1, <4>1 DEF SortedFrom
  <2>2. PICK p : Within(p, a, w.array, D, 0, n - 1)
    BY <2>1 DEF Shuffled
  <2>3. VectorHolds(w, L) /\ \A k \in Places(v) : p[k] \in Places(v)
    <3> HIDE DEF D
    <3>1. D = DOMAIN v.array
      BY DEF D
    <3> QED
      BY <1>1, <1>9, <2>1, <2>2, <3>1, RearrangedHolds
  <2>4. w.items = n
    BY <2>1
  <2>5. SortedRows(p, key, direction)
    BY <2>1, <2>2, <2>3, <2>4 DEF SortedRows, Within, compare, L
  <2> QED
    BY <1>10, <2>5 DEF key, direction
<1>11. CASE ~tree
  <2>1. /\ w = [array |-> w.array, items |-> n, growthRate |-> v.growthRate]
        /\ w.array \in Arrays(D, Nat \cup {NULL}, L, n)
        /\ \E p : SortedUpTo(p, a, w.array, D, n, compare)
    <3> HIDE DEF D
    <3>1. w = VectorInsertionSort(v, compare)
      BY <1>6, <1>11
    <3>2. Comparison(compare, L)
      BY <1>7 DEF TotalOrder
    <3> QED
      BY <1>2, <1>4, <1>8, <3>1, <3>2, InsertionSorts
  <2>2. PICK p : SortedUpTo(p, a, w.array, D, n, compare)
    BY <2>1
  <2>3. Within(p, a, w.array, D, 0, n - 1)
    BY <2>2 DEF SortedUpTo, Within
  <2>4. VectorHolds(w, L) /\ \A k \in Places(v) : p[k] \in Places(v)
    <3> HIDE DEF D
    <3>1. D = DOMAIN v.array
      BY DEF D
    <3>2. w.array \in AllArrays(D, Nat \cup {NULL})
      BY <2>1 DEF AllArrays, Arrays
    <3> QED
      BY <1>1, <2>1, <2>3, <3>1, <3>2, RearrangedHolds
  <2>5. Ordered(compare, w.array, 0, n - 1)
    <3> HIDE DEF D
    <3>1. \A x, y, z \in L : ~Greater(compare, x, y) /\ ~Greater(compare, y, z) => ~Greater(compare, x, z)
      BY <1>7 DEF TotalOrder
    <3>2. \A j \in 0 .. n - 1 : \A i \in 0 .. j - 1 : ~Greater(compare, w.array[i], w.array[j])
      BY <1>2, <2>1, <2>2, <3>1, SortedThroughout
    <3>3. \A i, j \in 0 .. n - 1 : i < j => i \in 0 .. j - 1
      BY <1>2
    <3> QED
      BY <3>2, <3>3 DEF Ordered
  <2>6. w.items = n
    BY <2>1
  <2>7. SortedRows(p, key, direction)
    BY <2>1, <2>3, <2>4, <2>5, <2>6 DEF SortedRows, Within, compare, L
  <2> QED
    BY <1>11, <2>2, <2>7 DEF key, direction, compare
<1> QED
  BY <1>10, <1>11

LEMMA SortKeepsInv ==
  ASSUME PlatformInv, Sort
  PROVE  PlatformInv'
<1>1. /\ UNCHANGED <<platform, os, jails, other, settings, ps, processTable, fresh, jailTable, entries, read>>
      /\ pc = "scanned" /\ pc' = "sorted"
  BY DEF Sort, osVars
<1>2. VectorHolds(processes', DOMAIN ps) /\ processes'.items = processes.items
  BY SortSorts DEF SortedRows
<1>3. BothHold(processes', processTable', DOMAIN ps')
  BY <1>1, <1>2 DEF PlatformInv, BothHold
<1>4. SystemTyped' /\ ListTyped'
  BY <1>1 DEF PlatformInv, SystemTyped, ListTyped, Proc, EntryType, PidOf
<1>5. EntriesRight'
  BY <1>1 DEF PlatformInv, EntriesRight
<1>6. AllRows' = AllRows
  BY <1>1 DEF AllRows, Rows, LwpPid
<1>7. RowsRight'
  BY <1>1, <1>6 DEF PlatformInv, RowsRight, Updated, Quiet
<1> QED
  BY <1>3, <1>4, <1>5, <1>7 DEF PlatformInv

LEMMA NextKeepsPlatformInv == PlatformInv /\ [PlatformNext]_platformVars => PlatformInv'
<1> SUFFICES ASSUME PlatformInv, [PlatformNext]_platformVars PROVE PlatformInv'
  OBVIOUS
<1>1. CASE PlatformNext
  BY <1>1, EnvironmentKeepsInv, StartScanKeepsInv, ScanJailsKeepsInv, SnapshotKeepsInv,
     SnapshotFailsKeepsInv, VisitKeepsInv, EndScanKeepsInv, SortKeepsInv,
     ChangeSettingsKeepsInv DEF PlatformNext
<1>2. CASE UNCHANGED platformVars
  <2>1. SystemTyped'
    BY <1>2 DEF platformVars, osVars, listVars, PlatformInv, SystemTyped, Proc
  <2>2. UNCHANGED <<platform, ps, processes, processTable, fresh, pc, entries, read>>
    BY <1>2 DEF platformVars, osVars, listVars
  <2> QED
    BY <2>1, <2>2, OthersKeepInv
<1> QED
  BY <1>1, <1>2

(* On every system, with any number of processes, LWPs and jails that come  *)
(* and go between the steps of a scan, and containers of any size: the      *)
(* vector and the chains of the hash table hold the same processes          *)
(* (ProcessList_add and ProcessList_remove), and after a scan those that    *)
(* the system has handed out, the sweep of ProcessList_scan having taken    *)
(* away all others and no more.                                             *)
THEOREM SnapshotsAreLists == PlatformSpec => []ListIsSnapshot
<1>1. PlatformSpec => []PlatformInv
  BY InitPlatformInv, NextKeepsPlatformInv, PTL DEF PlatformSpec
<1> QED
  BY <1>1, InvMeansSnapshot, PTL

(* Where row i of the new list was in the old one.                          *)
LEMMA SortedRowsAre ==
  ASSUME PlatformInv, NEW p, NEW key, NEW direction, SortedRows(p, key, direction)
  PROVE  LET old == Elements(processes)
             new == Elements(processes')
         IN  /\ Len(new) = Len(old) /\ ToSet(new) = ToSet(old)
             /\ \A i \in 1 .. Len(new) - 1 : ~Greater(CompareRows(key, direction), new[i], new[i + 1])
             /\ DOMAIN new = 1 .. processes.items /\ processes.items \in Nat
             /\ \A i \in DOMAIN new : /\ new[i] = processes'.array[i - 1] /\ new[i] \in DOMAIN ps
                                      /\ i - 1 \in Places(processes)
                                      /\ VectorIndexOf(processes, new[i]) = p[i - 1]
<1> DEFINE v == processes
           w == processes'
           n == processes.items
           new == Elements(w)
           compare == CompareRows(key, direction)
<1>1. /\ VectorHolds(v, DOMAIN ps) /\ VectorHolds(w, DOMAIN ps) /\ w.items = n
      /\ \A k \in Places(v) : p[k] \in Places(v)
      /\ \A k \in DOMAIN v.array : w.array[k] = v.array[p[k]]
      /\ Ordered(compare, w.array, 0, n - 1)
  BY DEF PlatformInv, BothHold, SortedRows, Rearranges
<1>2. /\ ToSet(Elements(v)) = DOMAIN ps /\ ToSet(new) = DOMAIN ps
      /\ Len(Elements(v)) = n /\ Len(new) = n /\ DOMAIN new = 1 .. n
  <2> HIDE DEF new
  <2>1. ToSet(Elements(v)) = DOMAIN ps /\ Len(Elements(v)) = n
    BY <1>1, ElementsHold
  <2>2. ToSet(Elements(w)) = DOMAIN ps /\ Len(Elements(w)) = n /\ DOMAIN Elements(w) = 1 .. n
    BY <1>1, ElementsHold
  <2> QED
    BY <2>1, <2>2 DEF new
<1>3. n \in Nat /\ Places(v) \subseteq DOMAIN v.array
  BY <1>1 DEF VectorHolds, Places
<1>4. \A i \in 1 .. n : new[i] = w.array[i - 1] /\ i - 1 \in Places(v)
  BY <1>1, <1>3 DEF Elements, Places
<1> HIDE DEF new
<1>5. \A i \in 1 .. n : new[i] = v.array[p[i - 1]] /\ p[i - 1] \in Places(v)
  BY <1>1, <1>3, <1>4
<1>6. \A i \in 1 .. n : VectorIndexOf(v, new[i]) = p[i - 1]
  <2> SUFFICES ASSUME NEW i \in 1 .. n PROVE VectorIndexOf(v, new[i]) = p[i - 1]
    OBVIOUS
  <2> DEFINE k == p[i - 1]
  <2>1. new[i] = v.array[k] /\ k \in Places(v)
    BY <1>5
  <2> HIDE DEF k
  <2>2. VectorIndexOf(v, v.array[k]) = k
    BY <1>1, <2>1, IndexHolds
  <2> QED
    BY <2>1, <2>2 DEF k
<1>7. \A i \in 1 .. n : new[i] \in DOMAIN ps
  BY <1>1, <1>5 DEF VectorHolds
<1>8. \A i \in 1 .. n - 1 : ~Greater(compare, new[i], new[i + 1])
  <2> SUFFICES ASSUME NEW i \in 1 .. n - 1 PROVE ~Greater(compare, new[i], new[i + 1])
    OBVIOUS
  <2>1. i \in 1 .. n /\ i + 1 \in 1 .. n /\ (i + 1) - 1 = i /\ i - 1 \in 0 .. n - 1 /\ i \in 0 .. n - 1 /\ i - 1 < i
    BY <1>3
  <2>2. new[i] = w.array[i - 1] /\ new[i + 1] = w.array[i]
    BY <1>4, <2>1
  <2> HIDE DEF compare
  <2> QED
    BY <1>1, <2>1, <2>2 DEF Ordered
<1> QED
  BY <1>2, <1>3, <1>4, <1>6, <1>7, <1>8 DEF new

LEMMA SortStepIsStable ==
  ASSUME PlatformInv, [PlatformNext]_platformVars, pc = "scanned", pc' = "sorted"
  PROVE  LET old == Elements(processes)
             new == Elements(processes')
             tree == settings.sort.tree
             compare == CompareRows(IF tree THEN "PID" ELSE settings.sort.key,
                                    IF tree THEN 1 ELSE settings.sort.direction)
             value(k) == ValueOf(settings.sort.key, ps[k])
         IN /\ Len(new) = Len(old) /\ ToSet(new) = ToSet(old) /\ processTable' = processTable
            /\ \A i \in 1..(Len(new) - 1) : ~Greater(compare, new[i], new[i + 1])
            /\ ~tree => \A i, j \in DOMAIN new :
                  i < j /\ value(new[i]) = value(new[j]) =>
                      VectorIndexOf(processes, new[i]) < VectorIndexOf(processes, new[j])
<1> DEFINE new == Elements(processes')
           tree == settings.sort.tree
           key == IF tree THEN "PID" ELSE settings.sort.key
           direction == IF tree THEN 1 ELSE settings.sort.direction
           value(k) == ValueOf(settings.sort.key, ps[k])
           n == processes.items
<1>1. Sort
  BY DEF PlatformNext, platformVars, Environment, Fork, Exit, Reschedule, CreateJail, RemoveJail, EnterJail, Change,
         StartScan, ScanJails, Snapshot, SnapshotFails, EndScan, ChangeSettings, Visit, VisitFreeBSD,
         VisitDragonFly, VisitOpenBSD, OpenSolaris, VisitSolaris, VisitDarwin, VisitUnsupported, ScanOnly
<1>2. processTable' = processTable
  BY <1>1 DEF Sort
<1>3. PICK p : /\ SortedRows(p, key, direction)
               /\ ~tree => SortedUpTo(p, processes.array, processes'.array, DOMAIN processes.array,
                                      n, CompareRows(settings.sort.key, settings.sort.direction))
  BY <1>1, SortSorts
<1> HIDE DEF key, direction
<1>4. /\ Len(new) = Len(Elements(processes)) /\ ToSet(new) = ToSet(Elements(processes))
      /\ \A i \in 1 .. Len(new) - 1 : ~Greater(CompareRows(key, direction), new[i], new[i + 1])
      /\ DOMAIN new = 1 .. n /\ n \in Nat
      /\ \A i \in DOMAIN new : /\ new[i] = processes'.array[i - 1] /\ new[i] \in DOMAIN ps
                               /\ i - 1 \in Places(processes)
                               /\ VectorIndexOf(processes, new[i]) = p[i - 1]
  BY <1>3, SortedRowsAre
<1>5. ASSUME ~tree, NEW i \in DOMAIN new, NEW j \in DOMAIN new, i < j, value(new[i]) = value(new[j])
      PROVE  VectorIndexOf(processes, new[i]) < VectorIndexOf(processes, new[j])
  <2> DEFINE compare == CompareRows(settings.sort.key, settings.sort.direction)
             b == processes'.array
  <2>1. settings.sort.key \in {"PID", "PPID", "PERCENT_CPU"} /\ settings.sort.direction \in {1, -1}
    <3>1. settings.sort \in [tree : BOOLEAN, key : {"PID", "PPID", "PERCENT_CPU"}, direction : {1, -1}]
      BY PlatformAssumption DEF PlatformInv, SystemTyped
    <3> QED
      BY <3>1
  <2>2. ~Greater(compare, new[j], new[i])
    <3> HIDE DEF compare, value
    <3>1. /\ \A x \in DOMAIN ps : value(x) \in Int
          /\ \A x, y \in DOMAIN ps : Greater(compare, x, y) <=>
                IF settings.sort.direction = 1 THEN value(x) > value(y) ELSE value(y) > value(x)
      BY <2>1, RowsCompared DEF compare, value
    <3> QED
      BY <1>4, <1>5, <3>1
  <2>3. SortedUpTo(p, processes.array, b, DOMAIN processes.array, n, compare)
    BY <1>3, <1>5
  <2> HIDE DEF compare
  <2>4. /\ i - 1 \in 0 .. n - 1 /\ j - 1 \in 0 .. n - 1 /\ i - 1 < j - 1
        /\ new[i] = b[i - 1] /\ new[j] = b[j - 1] /\ i - 1 # j - 1
    BY <1>4, <1>5 DEF Places
  <2>5. ~(p[j - 1] < p[i - 1])
    BY <2>2, <2>3, <2>4 DEF SortedUpTo
  <2>6. /\ p[i - 1] \in Places(processes) /\ p[j - 1] \in Places(processes)
        /\ p[i - 1] # p[j - 1]
    <3>1. Places(processes) \subseteq DOMAIN processes.array
      <4>1. VectorHolds(processes, DOMAIN ps)
        BY DEF PlatformInv, BothHold
      <4> QED
        BY <4>1 DEF VectorHolds, Places
    <3>2. \A x, y \in DOMAIN processes.array : p[x] = p[y] => x = y
      BY <1>3 DEF SortedRows, Rearranges
    <3>3. \A k \in Places(processes) : p[k] \in Places(processes)
      BY <1>3 DEF SortedRows
    <3>4. i - 1 \in Places(processes) /\ j - 1 \in Places(processes)
      BY <2>4 DEF Places
    <3> QED
      BY <2>4, <3>1, <3>2, <3>3, <3>4
  <2>7. p[i - 1] < p[j - 1]
    BY <2>5, <2>6 DEF Places
  <2> QED
    BY <1>4, <2>7
<1> QED
  BY <1>2, <1>4, <1>5 DEF key, direction

(* Vector_insertionSort and Vector_quickSort on such a list lose no row and *)
(* put all in the order of the column, and the list view leaves rows that   *)
(* are equal as they were.                                                  *)
THEOREM SortsAreStable == PlatformSpec => SortIsStable
<1>1. PlatformSpec => []PlatformInv
  BY InitPlatformInv, NextKeepsPlatformInv, PTL DEF PlatformSpec
<1>2. PlatformInv /\ [PlatformNext]_platformVars =>
        [pc = "scanned" /\ pc' = "sorted" =>
           LET old == Elements(processes)
               new == Elements(processes')
               tree == settings.sort.tree
               compare == CompareRows(IF tree THEN "PID" ELSE settings.sort.key,
                                  IF tree THEN 1 ELSE settings.sort.direction)
               value(k) == ValueOf(settings.sort.key, ps[k])
           IN /\ Len(new) = Len(old) /\ ToSet(new) = ToSet(old) /\ processTable' = processTable
              /\ \A i \in 1..(Len(new) - 1) : ~Greater(compare, new[i], new[i + 1])
              /\ ~tree => \A i, j \in DOMAIN new :
                    i < j /\ value(new[i]) = value(new[j]) =>
                        VectorIndexOf(processes, new[i]) < VectorIndexOf(processes, new[j])]_platformVars
  BY SortStepIsStable
<1> QED
  BY <1>1, <1>2, PTL DEF PlatformSpec, SortIsStable
=============================================================================
