----------------------------- MODULE Containers -----------------------------
(***************************************************************************)
(* Vector and Hashtable, the containers htop keeps its processes in: an    *)
(* array that grows, its two sorting algorithms, and chains of pairs in    *)
(* buckets.  An element is the address of an object; a comparison is a     *)
(* function from two elements to an integer, as compare() of their class.  *)
(*                                                                         *)
(* Definitions marked "Defect" are plausible mistakes, not the program.    *)
(***************************************************************************)
EXTENDS Integers, FiniteSets, SequencesExt

CONSTANT NULL

-----------------------------------------------------------------------------
(* Vector.  Only the first "items" places of the array count; what a take  *)
(* leaves behind them is not cleared.                                      *)

VectorNew(size) ==
    [array |-> [i \in 0..(size - 1) |-> NULL], items |-> 0, growthRate |-> size]

\* The sequence a vector stands for.
Elements(v) == [i \in 1..v.items |-> v.array[i - 1]]

\* Vector_checkArraySize; memory that is new counts as empty.
Grown(v) ==
    IF v.items \in DOMAIN v.array THEN v
    ELSE [v EXCEPT !.array = [i \in 0..(v.items + v.growthRate - 1) |->
                                 IF i \in DOMAIN v.array THEN v.array[i] ELSE NULL]]

\* Vector_set at the place after the last.
VectorAdd(v, x) == [Grown(v) EXCEPT !.array[v.items] = x, !.items = @ + 1]

\* Vector_indexOf, with -1 for an element that is not there.
VectorIndexOf(v, x) ==
    LET at == {i \in 0..(v.items - 1) : v.array[i] = x}
    IN IF at = {} THEN -1 ELSE CHOOSE i \in at : \A j \in at : i <= j

\* Vector_take: the elements behind it move up.
VectorTake(v, idx) ==
    [v EXCEPT !.items = @ - 1,
              !.array = [i \in DOMAIN v.array |->
                            IF i \in idx..(v.items - 2) THEN v.array[i + 1] ELSE v.array[i]]]

-----------------------------------------------------------------------------
(* Sorting.                                                                *)

\* y belongs before x.
Greater(compare, x, y) == compare[<<x, y>>] > 0

Swap(a, i, j) == [a EXCEPT ![i] = a[j], ![j] = a[i]]

\* partition: what is not above the pivot comes before "store", the pivot there.
Partition(a, left, right, pivot, compare) ==
    LET below[k \in 0..(right - left)] ==
          IF k = 0 THEN [a |-> Swap(a, pivot, right), store |-> left]
          ELSE LET s == below[k - 1]
                   i == left + k - 1
               IN IF ~Greater(compare, s.a[i], a[pivot])
                  THEN [a |-> Swap(s.a, i, s.store), store |-> s.store + 1]
                  ELSE s
        s == below[right - left]
    IN [s EXCEPT !.a = Swap(s.a, s.store, right)]

\* quickSort: each part is sorted as the whole is.
VectorQuickSort(v, compare) ==
    LET arrays == [DOMAIN v.array -> Range(v.array)]
        sorted[part \in arrays \X (0..v.items) \X ((-1)..(v.items - 1))] ==
          LET left == part[2]
              right == part[3]
              p == Partition(part[1], left, right, (left + right) \div 2, compare)
          IN IF left >= right THEN part[1]
             ELSE sorted[<<sorted[<<p.a, left, p.store - 1>>], p.store + 1, right>>]
    IN [v EXCEPT !.array = sorted[<<@, 0, v.items - 1>>]]

\* Defect: an element also passes those equal to it.
PlacePassing(a, i, compare) ==
    LET below == {j \in 0..(i - 1) : compare[<<a[j], a[i]>>] < 0}
    IN IF below = {} THEN 0 ELSE 1 + CHOOSE j \in below : \A k \in below : k <= j

\* Where the element at i goes: down to the first one that is not above it.
Place(a, i, compare) ==
    LET below == {j \in 0..(i - 1) : ~Greater(compare, a[j], a[i])}
    IN IF below = {} THEN 0 ELSE 1 + CHOOSE j \in below : \A k \in below : k <= j

\* It goes there, and those it passes go up by one place.
Inserted(a, i, compare) ==
    LET to == Place(a, i, compare)
    IN [k \in DOMAIN a |-> IF k = to THEN a[i]
                           ELSE IF k \in (to + 1)..i THEN a[k - 1]
                           ELSE a[k]]

\* insertionSort: the array when its first n elements are in order.
VectorInsertionSort(v, compare) ==
    LET sorted[n \in 0..v.items] ==
          IF n <= 1 THEN v.array ELSE Inserted(sorted[n - 1], n - 1, compare)
    IN [v EXCEPT !.array = sorted[v.items]]

-----------------------------------------------------------------------------
(* Hashtable.                                                              *)

HashtableNew(size) == [buckets |-> [b \in 0..(size - 1) |-> << >>], items |-> 0]

Bucket(h, key) == key % Cardinality(DOMAIN h.buckets)
Keys(chain) == {chain[i].key : i \in DOMAIN chain}

\* Where a key is in its chain, 0 if it is not.
InChain(h, key) ==
    LET chain == h.buckets[Bucket(h, key)]
    IN IF key \in Keys(chain) THEN CHOOSE i \in DOMAIN chain : chain[i].key = key ELSE 0

HashtableGet(h, key) ==
    IF InChain(h, key) = 0 THEN NULL
    ELSE h.buckets[Bucket(h, key)][InChain(h, key)].value

HashtablePut(h, key, value) ==
    IF InChain(h, key) = 0
    THEN [h EXCEPT !.buckets[Bucket(h, key)] = Append(@, [key |-> key, value |-> value]),
                   !.items = @ + 1]
    ELSE [h EXCEPT !.buckets[Bucket(h, key)][InChain(h, key)].value = value]

HashtableRemove(h, key) ==
    IF InChain(h, key) = 0 THEN h
    ELSE [h EXCEPT !.buckets[Bucket(h, key)] = RemoveAt(@, InChain(h, key)),
                   !.items = @ - 1]
=============================================================================
