------------------------- MODULE SetupScreen_proofs -------------------------
(***************************************************************************)
(* Two screens that open over the process list.                            *)
(*                                                                         *)
(* For any meters, columns, files and keys, and any number of starts: the  *)
(* setup screen shows the settings that it changes, no meter is lost, and  *)
(* what is configured is what the next start shows.                        *)
(*                                                                         *)
(* For any text and any keys: an info screen shows all of the text that    *)
(* passes its filter, and ending the filter keeps the line selected.       *)
(***************************************************************************)
EXTENDS SetupScreen, InfoScreen, Loops_proofs, FiniteSetTheorems, SequenceTheorems

(* Sequences.                                                              *)

LEMMA RemoveAtFacts ==
  ASSUME NEW S, NEW s \in Seq(S), NEW i \in 1 .. Len(s)
  PROVE  /\ RemoveAt(s, i) \in Seq(S)
         /\ Len(RemoveAt(s, i)) = Len(s) - 1
         /\ \A j \in 1 .. Len(s) - 1 : RemoveAt(s, i)[j] = IF j < i THEN s[j] ELSE s[j + 1]
<1> DEFINE a == SubSeq(s, 1, i - 1)
           b == SubSeq(s, i + 1, Len(s))
<1>1. Len(s) \in Nat /\ \A j \in 1 .. Len(s) : s[j] \in S
  OBVIOUS
<1>2. a \in Seq(S) /\ Len(a) = i - 1 /\ \A j \in 1 .. i - 1 : a[j] = s[j]
  <2>1. \A j \in 1 .. i - 1 : s[j] \in S
    BY <1>1
  <2> QED
    BY <1>1, <2>1, SubSeqProperties
<1>3. b \in Seq(S) /\ Len(b) = Len(s) - i /\ \A j \in 1 .. Len(s) - i : b[j] = s[i + j]
  <2>1. \A j \in i + 1 .. Len(s) : s[j] \in S
    BY <1>1
  <2> QED
    BY <1>1, <2>1, SubSeqProperties
<1> HIDE DEF a, b
<1>4. Len(a) + Len(b) = Len(s) - 1
  BY <1>1, <1>2, <1>3
<1>5. /\ a \o b \in Seq(S)
      /\ Len(a \o b) = Len(a) + Len(b)
      /\ \A j \in 1 .. Len(a) + Len(b) : (a \o b)[j] = IF j <= Len(a) THEN a[j] ELSE b[j - Len(a)]
  BY <1>2, <1>3, ConcatProperties
<1>6. \A j \in 1 .. Len(s) - 1 : (a \o b)[j] = IF j < i THEN s[j] ELSE s[j + 1]
  <2> TAKE j \in 1 .. Len(s) - 1
  <2>1. CASE j < i
    BY <2>1, <1>1, <1>2, <1>4, <1>5
  <2>2. CASE ~(j < i)
    <3>1. j - (i - 1) \in 1 .. Len(s) - i /\ i + (j - (i - 1)) = j + 1
      BY <2>2, <1>1
    <3> QED
      BY <2>2, <3>1, <1>1, <1>2, <1>3, <1>4, <1>5
  <2> QED
    BY <2>1, <2>2
<1> QED
  BY <1>4, <1>5, <1>6 DEF RemoveAt, a, b

LEMMA InsertAtFacts ==
  ASSUME NEW S, NEW s \in Seq(S), NEW e \in S, NEW i \in 1 .. Len(s) + 1
  PROVE  /\ InsertAt(s, i, e) \in Seq(S)
         /\ Len(InsertAt(s, i, e)) = Len(s) + 1
         /\ \A j \in 1 .. Len(s) + 1 :
              InsertAt(s, i, e)[j] = IF j < i THEN s[j] ELSE IF j = i THEN e ELSE s[j - 1]
<1> DEFINE a == SubSeq(s, 1, i - 1)
           b == SubSeq(s, i, Len(s))
<1>1. Len(s) \in Nat /\ i \in Int /\ \A j \in 1 .. Len(s) : s[j] \in S
  OBVIOUS
<1>2. a \in Seq(S) /\ Len(a) = i - 1 /\ \A j \in 1 .. i - 1 : a[j] = s[j]
  <2>1. \A j \in 1 .. i - 1 : s[j] \in S
    BY <1>1
  <2> QED
    BY <1>1, <2>1, SubSeqProperties
<1>3. b \in Seq(S) /\ Len(b) = Len(s) - i + 1
      /\ \A j \in 1 .. Len(s) - i + 1 : b[j] = s[i + j - 1]
  <2>1. \A j \in i .. Len(s) : s[j] \in S
    BY <1>1
  <2> QED
    BY <1>1, <2>1, SubSeqProperties
<1>4. <<e>> \in Seq(S) /\ Len(<<e>>) = 1 /\ <<e>>[1] = e
  OBVIOUS
<1> HIDE DEF a, b
<1> DEFINE c == a \o <<e>>
<1>5. c \in Seq(S) /\ Len(c) = i /\ \A j \in 1 .. i : c[j] = IF j < i THEN s[j] ELSE e
  <2>1. /\ c \in Seq(S) /\ Len(c) = Len(a) + 1
        /\ \A j \in 1 .. Len(a) + 1 : c[j] = IF j <= Len(a) THEN a[j] ELSE <<e>>[j - Len(a)]
    BY <1>2, <1>4, ConcatProperties
  <2>2. Len(c) = i
    BY <1>1, <1>2, <2>1
  <2>3. ASSUME NEW j \in 1 .. i
        PROVE  c[j] = IF j < i THEN s[j] ELSE e
    <3>1. CASE j < i
      BY <1>1, <1>2, <2>1, <3>1
    <3>2. CASE ~(j < i)
      <4>1. j \in 1 .. Len(a) + 1 /\ ~(j <= Len(a)) /\ j - Len(a) = 1
        BY <1>1, <1>2, <3>2
      <4> QED
        BY <1>4, <2>1, <3>2, <4>1
    <3> QED
      BY <3>1, <3>2
  <2> QED
    BY <2>1, <2>2, <2>3
<1> HIDE DEF c
<1>6. Len(c) + Len(b) = Len(s) + 1
  BY <1>1, <1>3, <1>5
<1>7. /\ c \o b \in Seq(S) /\ Len(c \o b) = Len(c) + Len(b)
      /\ \A j \in 1 .. Len(c) + Len(b) : (c \o b)[j] = IF j <= Len(c) THEN c[j] ELSE b[j - Len(c)]
  BY <1>3, <1>5, ConcatProperties
<1>8. ASSUME NEW j \in 1 .. Len(s) + 1
      PROVE  (c \o b)[j] = IF j < i THEN s[j] ELSE IF j = i THEN e ELSE s[j - 1]
  <2>1. CASE j <= i
    <3>1. (c \o b)[j] = c[j] /\ j \in 1 .. i
      BY <1>1, <1>5, <1>6, <1>7, <2>1
    <3> QED
      BY <1>1, <1>5, <3>1
  <2>2. CASE ~(j <= i)
    <3>1. j - i \in 1 .. Len(s) - i + 1 /\ i + (j - i) - 1 = j - 1 /\ ~(j < i) /\ j # i
      BY <1>1, <2>2
    <3>2. (c \o b)[j] = b[j - i]
      BY <1>5, <1>6, <1>7, <2>2
    <3>3. b[j - i] = s[j - 1]
      BY <1>3, <3>1
    <3> QED
      BY <3>1, <3>2, <3>3
  <2> QED
    BY <2>1, <2>2
<1>9. InsertAt(s, i, e) = c \o b
  BY DEF InsertAt, a, b, c
<1> QED
  BY <1>6, <1>7, <1>8, <1>9

LEMMA InsertedFacts ==
  ASSUME NEW S, NEW s \in Seq(S), NEW e \in S, NEW i \in Nat
  PROVE  /\ InsertedAt(s, i, e) \in Seq(S)
         /\ Len(InsertedAt(s, i, e)) = Len(s) + 1
         /\ i < Len(s) => Last(InsertedAt(s, i, e)) = Last(s)
<1> DEFINE at == Lower(i, Len(s)) + 1
           t == InsertAt(s, at, e)
<1>1. Len(s) \in Nat
  OBVIOUS
<1>2. at \in 1 .. Len(s) + 1 /\ (i < Len(s) => at < Len(s) + 1)
  BY <1>1 DEF Lower
<1>3. InsertedAt(s, i, e) = t
  BY DEF InsertedAt
<1> HIDE DEF at
<1>4. /\ t \in Seq(S) /\ Len(t) = Len(s) + 1
      /\ \A j \in 1 .. Len(s) + 1 : t[j] = IF j < at THEN s[j] ELSE IF j = at THEN e ELSE s[j - 1]
  BY <1>2, InsertAtFacts
<1> HIDE DEF t
<1>5. ASSUME i < Len(s)
      PROVE  t[Len(s) + 1] = s[Len(s)]
  <2>1. /\ Len(s) + 1 \in 1 .. Len(s) + 1 /\ ~(Len(s) + 1 < at) /\ Len(s) + 1 # at
        /\ (Len(s) + 1) - 1 = Len(s)
    BY <1>1, <1>2, <1>5
  <2> QED
    BY <1>4, <2>1
<1> QED
  BY <1>3, <1>4, <1>5 DEF Last

LEMMA SwappedFacts ==
  ASSUME NEW S, NEW s \in Seq(S), NEW i \in Nat, i + 1 < Len(s)
  PROVE  /\ Swapped(s, i) \in Seq(S)
         /\ Len(Swapped(s, i)) = Len(s)
         /\ \A j \in 1 .. Len(s) :
              Swapped(s, i)[j] = IF j = i + 1 THEN s[i + 2] ELSE IF j = i + 2 THEN s[i + 1] ELSE s[j]
<1> DEFINE t == [j \in 1 .. Len(s) |->
                   IF j = i + 1 THEN s[i + 2] ELSE IF j = i + 2 THEN s[i + 1] ELSE s[j]]
<1>1. /\ Len(s) \in Nat /\ i + 1 \in 1 .. Len(s) /\ i + 2 \in 1 .. Len(s) /\ i + 1 # i + 2
      /\ DOMAIN s = 1 .. Len(s)
  OBVIOUS
<1>2. \A j \in 1 .. Len(s) : s[j] \in S
  OBVIOUS
<1>3. Swapped(s, i) = t
  BY <1>1, Zenon DEF Swapped
<1>4. \A j \in 1 .. Len(s) :
        (IF j = i + 1 THEN s[i + 2] ELSE IF j = i + 2 THEN s[i + 1] ELSE s[j]) \in S
  BY <1>1, <1>2
<1>5. t \in Seq(S) /\ Len(t) = Len(s)
  BY <1>1, <1>4
<1> QED
  BY <1>3, <1>5

-----------------------------------------------------------------------------
(* The meters of a file.                                                   *)

(* Of a set of places there is a first, a second and so on. *)
UpTo(K, i) == Cardinality({j \in K : j <= i})

LEMMA UpToNext ==
  ASSUME NEW n \in Nat, NEW K \in SUBSET (1 .. n), NEW i \in Nat
  PROVE  /\ UpTo(K, i) \in Nat /\ UpTo(K, 0) = 0 /\ UpTo(K, n) = Cardinality(K)
         /\ UpTo(K, i + 1) = UpTo(K, i) + IF i + 1 \in K THEN 1 ELSE 0
<1>1. IsFiniteSet(K)
  <2>1. 1 \in Int /\ n \in Int
    OBVIOUS
  <2>2. IsFiniteSet(1 .. n)
    BY <2>1, FS_Interval
  <2> QED
    BY <2>2, FS_Subset
<1>2. IsFiniteSet({j \in K : j <= i})
  BY <1>1, FS_Subset
<1>3. \A j \in K : j \in Nat /\ 1 <= j /\ j <= n
  OBVIOUS
<1>4. UpTo(K, 0) = 0 /\ UpTo(K, n) = Cardinality(K)
  <2>1. {j \in K : j <= 0} = {}
    <3>1. \A j \in K : ~(j <= 0)
      BY <1>3
    <3> QED
      BY <3>1
  <2>2. {j \in K : j <= n} = K
    BY <1>3
  <2> QED
    BY <2>1, <2>2, FS_EmptySet DEF UpTo
<1>5. UpTo(K, i) \in Nat
  BY <1>2, FS_CardinalityType DEF UpTo
<1>6. CASE i + 1 \in K
  <2>1. \A j \in K : j <= i + 1 <=> j <= i \/ j = i + 1
    BY <1>3
  <2>2. ~(i + 1 <= i)
    OBVIOUS
  <2>3. {j \in K : j <= i + 1} = {j \in K : j <= i} \cup {i + 1} /\ i + 1 \notin {j \in K : j <= i}
    BY <1>6, <2>1, <2>2
  <2>4. Cardinality({j \in K : j <= i} \cup {i + 1}) = Cardinality({j \in K : j <= i}) + 1
    BY <1>2, <2>3, FS_AddElement
  <2>5. UpTo(K, i + 1) = UpTo(K, i) + 1
    BY <2>3, <2>4 DEF UpTo
  <2> QED
    BY <1>4, <1>5, <1>6, <2>5
<1>7. CASE i + 1 \notin K
  <2>1. \A j \in K : j # i + 1
    BY <1>7
  <2>2. \A j \in K : j <= i + 1 <=> j <= i
    BY <1>3, <2>1
  <2>3. {j \in K : j <= i + 1} = {j \in K : j <= i}
    BY <2>2
  <2>4. UpTo(K, i + 1) = UpTo(K, i)
    BY <2>3 DEF UpTo
  <2>5. UpTo(K, i) + 0 = UpTo(K, i)
    BY <1>5
  <2> QED
    BY <1>4, <1>5, <1>7, <2>4, <2>5
<1> QED
  BY <1>6, <1>7

LEMMA PlaceExists ==
  ASSUME NEW n \in Nat, NEW K \in SUBSET (1 .. n), NEW k \in 1 .. Cardinality(K)
  PROVE  \E i \in K : UpTo(K, i) = k
<1> DEFINE R == {i \in Nat : UpTo(K, i) >= k}
<1>1. n \in R
  <2>1. UpTo(K, n) = Cardinality(K) /\ UpTo(K, n) \in Nat
    BY UpToNext
  <2> QED
    BY <2>1
<1>2. PICK i \in R : \A j \in R : i <= j
  BY <1>1, LeastNat
<1>3. i # 0
  BY <1>2, UpToNext
<1>4. i - 1 \in Nat /\ i - 1 \notin R /\ (i - 1) + 1 = i
  BY <1>2, <1>3
<1>5. UpTo(K, i - 1) < k /\ UpTo(K, i - 1) \in Nat
  <2>1. UpTo(K, i - 1) \in Nat
    BY <1>4, UpToNext
  <2>2. ~(UpTo(K, i - 1) >= k)
    BY <1>4
  <2> QED
    BY <2>1, <2>2
<1>6. UpTo(K, i) = UpTo(K, i - 1) + IF i \in K THEN 1 ELSE 0
  BY <1>4, UpToNext
<1>7. i \in K /\ UpTo(K, i) = k
  BY <1>2, <1>5, <1>6
<1> QED
  BY <1>7

LEMMA UpToAll ==
  ASSUME NEW i \in Nat, NEW n \in Nat, i <= n
  PROVE  UpTo(1 .. n, i) = i
<1>1. {j \in 1 .. n : j <= i} = 1 .. i
  OBVIOUS
<1>2. 1 \in Int /\ i \in Int
  OBVIOUS
<1>3. Cardinality(1 .. i) = i
  BY <1>2, FS_Interval
<1> QED
  BY <1>1, <1>3 DEF UpTo

LEMMA PopulatedFacts ==
  ASSUME NEW entries \in Seq(Entry)
  PROVE  /\ Populated(entries) \in Seq(Meter)
         /\ entries \in Seq(Meter) => Populated(entries) = entries
<1> DEFINE K == Known(entries)
           Place(k) == CHOOSE i \in K : UpTo(K, i) = k
           c == Cardinality(K)
<1>1. K \in SUBSET (1 .. Len(entries)) /\ Len(entries) \in Nat
  BY DEF Known
<1>2. c \in Nat
  BY <1>1, UpToNext
<1>3. Populated(entries)
        = [k \in 1 .. c |-> IF Place(k) = k THEN entries[k] ELSE WithDefaultMode(entries[Place(k)])]
  BY Zenon DEF Populated, UpTo
<1>4. ASSUME NEW m \in Entry, m.type \in Type
      PROVE  m \in Meter /\ WithDefaultMode(m) \in Meter
  <2>1. m \in Meter
    BY <1>4, SetupAssumption DEF Entry
  <2> QED
    BY <2>1, SetupAssumption DEF Meter, WithDefaultMode
<1>5. ASSUME NEW k \in 1 .. c
      PROVE  (IF Place(k) = k THEN entries[k] ELSE WithDefaultMode(entries[Place(k)])) \in Meter
  <2>1. Place(k) \in K
    BY <1>1, PlaceExists
  <2>2. entries[Place(k)] \in Entry /\ entries[Place(k)].type \in Type
    BY <1>1, <2>1 DEF Known
  <2> QED
    BY <1>4, <2>2
<1>6. Populated(entries) \in Seq(Meter)
  <2> HIDE DEF Place, c
  <2> QED
    BY <1>2, <1>3, <1>5
<1>7. ASSUME entries \in Seq(Meter)
      PROVE  Populated(entries) = entries
  <2>1. \A i \in DOMAIN entries : entries[i] \in Meter
    BY <1>7
  <2>2. K = 1 .. Len(entries)
    BY <2>1 DEF Known, Meter
  <2>3. c = Len(entries)
    <3>1. 1 \in Int /\ Len(entries) \in Int
      OBVIOUS
    <3> QED
      BY <2>2, <3>1, FS_Interval
  <2>4. \A k \in 1 .. c : Place(k) = k
    <3>1. ASSUME NEW k \in 1 .. c
          PROVE  Place(k) = k
      <4>1. Place(k) \in K /\ UpTo(K, Place(k)) = k
        BY <1>1, PlaceExists
      <4>2. UpTo(K, Place(k)) = Place(k)
        BY <2>2, <4>1, UpToAll
      <4> QED
        BY <4>1, <4>2
    <3> QED
      BY <3>1
  <2>5. Populated(entries) = [k \in 1 .. Len(entries) |-> entries[k]]
    BY <1>3, <2>3, <2>4
  <2> QED
    BY <2>5
<1> QED
  BY <1>6, <1>7
-----------------------------------------------------------------------------
(* The inductive invariant.  Types alone do not carry the two properties:  *)
(* a start needs a file whose columns end with the command, a page the     *)
(* rows that the handlers index, and the end of the program that settings  *)
(* are told of every change and columns that the header was written to.    *)

Panels == Sides \cup {"active"}

RowsOver(S) ==
  {pn \in [rows : Seq(S), selected : Nat, moving : BOOLEAN] :
     pn.selected <= Upper(Len(pn.rows) - 1, 0)}

ListsOfFields == {s \in Seq(Field) : s # <<>> /\ Last(s) = Comm}

PanelsFit ==
  /\ DOMAIN panel = Panels
  /\ \A side \in Sides : panel[side] \in RowsOver(Meter)
  /\ panel["active"] \in RowsOver(Field)

Typed ==
  /\ file \in {NoFile} \cup {f \in Settings : Last(f.fields) = Comm}
  /\ columns \in Entries
  /\ fields \in ListsOfFields
  /\ header \in [Sides -> Seq(Meter)]
  /\ changed \in BOOLEAN /\ configured \in BOOLEAN
  /\ screen \in {"off", "main", "setup"}
  /\ category \in 0 .. 3 /\ page \in 0 .. 3
  /\ focus \in {"none"} \cup ToSet(PageOf(page))
  /\ starts \in 0 .. MaxStarts /\ openings \in 0 .. MaxOpenings
  /\ PanelsFit

NoneLost ==
  /\ configured => changed /\ screen # "off"
  /\ configured /\ screen = "main" => columns = header

PageShown ==
  /\ screen = "setup" /\ page = 0 => \A side \in Sides : panel[side].rows = header[side]
  /\ screen = "setup" /\ page = 3 => panel["active"].rows = fields

IInv == Typed /\ NoneLost /\ PageShown /\ UnchangedIsSaved
-----------------------------------------------------------------------------
(* Panels and pages.                                                       *)

LEMMA RowsFacts ==
  ASSUME NEW S, NEW pn \in RowsOver(S)
  PROVE  /\ pn.rows \in Seq(S) /\ Len(pn.rows) \in Nat /\ pn.selected \in Nat
         /\ pn.moving \in BOOLEAN
         /\ pn = [rows |-> pn.rows, selected |-> pn.selected, moving |-> pn.moving]
         /\ pn.selected \in 0 .. Upper(Len(pn.rows) - 1, 0)
         /\ pn.rows # <<>> => pn.selected + 1 \in 1 .. Len(pn.rows)
<1>1. pn \in [rows : Seq(S), selected : Nat, moving : BOOLEAN] /\ pn.selected <= Upper(Len(pn.rows) - 1, 0)
  BY DEF RowsOver
<1>2. pn.rows \in Seq(S) /\ pn.selected \in Nat
  BY <1>1
<1>3. Len(pn.rows) \in Nat /\ (pn.rows # <<>> => Len(pn.rows) > 0)
  BY <1>2
<1>4. pn.rows # <<>> => pn.selected + 1 \in 1 .. Len(pn.rows)
  BY <1>1, <1>2, <1>3 DEF Upper
<1>5. pn.selected \in 0 .. Upper(Len(pn.rows) - 1, 0)
  BY <1>1, <1>2, <1>3 DEF Upper
<1> QED
  BY <1>1, <1>3, <1>4, <1>5

LEMMA RowsMade ==
  ASSUME NEW S, NEW rows \in Seq(S), NEW i \in Nat, NEW b \in BOOLEAN,
         i <= Upper(Len(rows) - 1, 0)
  PROVE  [rows |-> rows, selected |-> i, moving |-> b] \in RowsOver(S)
BY DEF RowsOver

LEMMA SelectedMade ==
  ASSUME NEW S, NEW pn \in RowsOver(S), NEW i \in Nat
  PROVE  WithSelected(pn, i) \in RowsOver(S) /\ WithSelected(pn, i).rows = pn.rows
<1> DEFINE k == Upper(Lower(i, Len(pn.rows) - 1), 0)
<1>1. k \in Nat /\ k <= Upper(Len(pn.rows) - 1, 0)
  BY RowsFacts DEF Upper, Lower
<1>2. WithSelected(pn, i) = [pn EXCEPT !.selected = k]
  BY DEF WithSelected
<1> HIDE DEF k
<1>3. [pn EXCEPT !.selected = k] = [rows |-> pn.rows, selected |-> k, moving |-> pn.moving]
  BY RowsFacts
<1> QED
  BY <1>1, <1>2, <1>3, RowsFacts, RowsMade

LEMMA RowsReplaced ==
  ASSUME NEW S, NEW pn \in RowsOver(S), NEW rows \in Seq(S), Len(rows) >= Len(pn.rows)
  PROVE  WithRows(pn, rows) \in RowsOver(S) /\ WithRows(pn, rows).rows = rows
<1>1. WithRows(pn, rows) = [rows |-> rows, selected |-> pn.selected, moving |-> pn.moving]
  BY RowsFacts DEF WithRows
<1>2. Len(rows) \in Nat
  OBVIOUS
<1>3. pn.selected <= Upper(Len(rows) - 1, 0)
  BY <1>2, RowsFacts DEF Upper
<1> QED
  BY <1>1, <1>3, RowsFacts, RowsMade

LEMMA RowsAndSelection ==
  ASSUME NEW S, NEW pn \in RowsOver(S), NEW rows, NEW k
  PROVE  [pn EXCEPT !.rows = rows, !.selected = k]
           = [rows |-> rows, selected |-> k, moving |-> pn.moving]
<1> DEFINE t == [rows |-> rows, selected |-> pn.selected, moving |-> pn.moving]
<1>1. [pn EXCEPT !.rows = rows] = t
  BY RowsFacts
<1>2. [t EXCEPT !.selected = k] = [rows |-> rows, selected |-> k, moving |-> pn.moving]
  OBVIOUS
<1>3. [pn EXCEPT !.rows = rows, !.selected = k] = [[pn EXCEPT !.rows = rows] EXCEPT !.selected = k]
  BY Zenon
<1> QED
  BY <1>1, <1>2, <1>3

LEMMA RowsMoved ==
  ASSUME NEW S, NEW pn \in RowsOver(S), NEW rows \in Seq(S), NEW i \in Nat, i < Len(rows)
  PROVE  WithMoved(pn, rows, i) \in RowsOver(S) /\ WithMoved(pn, rows, i).rows = rows
<1>1. WithMoved(pn, rows, i) = [rows |-> rows, selected |-> i, moving |-> pn.moving]
  BY RowsAndSelection DEF WithMoved
<1>2. i <= Upper(Len(rows) - 1, 0)
  BY DEF Upper
<1> QED
  BY <1>1, <1>2, RowsFacts, RowsMade

LEMMA MovingSet ==
  ASSUME NEW S, NEW pn \in RowsOver(S), NEW b \in BOOLEAN
  PROVE  [pn EXCEPT !.moving = b] \in RowsOver(S) /\ [pn EXCEPT !.moving = b].rows = pn.rows
<1>1. [pn EXCEPT !.moving = b] = [rows |-> pn.rows, selected |-> pn.selected, moving |-> b]
  BY RowsFacts
<1> QED
  BY <1>1, RowsFacts, RowsMade

LEMMA RowTaken ==
  ASSUME NEW S, NEW pn \in RowsOver(S), pn.rows # <<>>, NEW i, i = pn.selected
  PROVE  Without(pn, i) \in RowsOver(S) /\ Without(pn, i).rows = RemoveAt(pn.rows, i + 1)
<1> DEFINE rows == RemoveAt(pn.rows, i + 1)
           k == IF pn.selected > 0 /\ pn.selected >= Len(rows) THEN pn.selected - 1 ELSE pn.selected
<1>1. /\ pn.rows \in Seq(S) /\ Len(pn.rows) \in Nat /\ pn.selected \in Nat /\ i + 1 \in 1 .. Len(pn.rows)
      /\ pn.selected + 1 \in 1 .. Len(pn.rows)
  BY RowsFacts
<1>2. rows \in Seq(S) /\ Len(rows) = Len(pn.rows) - 1
  BY <1>1, RemoveAtFacts
<1>3. Without(pn, i) = [pn EXCEPT !.rows = rows, !.selected = k]
  BY RowsFacts DEF Without
<1> HIDE DEF rows
<1>4. k \in Nat /\ k <= Upper(Len(rows) - 1, 0)
  BY <1>1, <1>2 DEF Upper
<1> HIDE DEF k
<1>5. [pn EXCEPT !.rows = rows, !.selected = k] = [rows |-> rows, selected |-> k, moving |-> pn.moving]
  BY RowsAndSelection
<1>6. [rows |-> rows, selected |-> k, moving |-> pn.moving] \in RowsOver(S)
  BY <1>2, <1>4, RowsFacts, RowsMade
<1>7. Without(pn, i) \in RowsOver(S) /\ Without(pn, i).rows = rows
  BY <1>3, <1>5, <1>6
<1> QED
  BY <1>7 DEF rows

LEMMA RowCrossed ==
  ASSUME NEW S, NEW pn \in RowsOver(S), NEW i \in Nat, NEW e \in S
  PROVE  Crossed(pn, i, e) \in RowsOver(S) /\ Crossed(pn, i, e).rows = InsertedAt(pn.rows, i, e)
<1> DEFINE rows == InsertedAt(pn.rows, i, e)
           a == WithRows(pn, rows)
           b == WithSelected(a, i)
<1>1. rows \in Seq(S) /\ Len(rows) = Len(pn.rows) + 1
  BY RowsFacts, InsertedFacts
<1>2. Len(rows) >= Len(pn.rows)
  BY <1>1, RowsFacts
<1>3. Crossed(pn, i, e) = [b EXCEPT !.moving = TRUE]
  BY DEF Crossed
<1> HIDE DEF rows
<1>4. a \in RowsOver(S) /\ a.rows = rows
  BY <1>1, <1>2, RowsReplaced
<1> HIDE DEF a
<1>5. b \in RowsOver(S) /\ b.rows = rows
  BY <1>4, SelectedMade
<1> HIDE DEF b
<1>6. [b EXCEPT !.moving = TRUE] \in RowsOver(S) /\ [b EXCEPT !.moving = TRUE].rows = rows
  BY <1>5, MovingSet
<1> QED
  BY <1>3, <1>6 DEF rows

LEMMA EmptyPanel ==
  ASSUME NEW S
  PROVE  NoPanel \in RowsOver(S) /\ NoPanel.rows = <<>>
<1>1. <<>> \in Seq(S) /\ 0 <= Upper(Len(<<>>) - 1, 0)
  BY DEF Upper
<1> QED
  BY <1>1, RowsMade DEF NoPanel

LEMMA NewPanel ==
  ASSUME NEW S, NEW rows \in Seq(S)
  PROVE  PanelOf(rows) \in RowsOver(S) /\ PanelOf(rows).rows = rows
<1>1. PanelOf(rows) = WithRows(NoPanel, rows)
  BY Zenon DEF PanelOf, WithRows
<1>2. Len(rows) >= Len(<<>>)
  OBVIOUS
<1> QED
  BY <1>1, <1>2, EmptyPanel, RowsReplaced

LEMMA EmptyPage ==
  /\ DOMAIN NoPage = Panels
  /\ \A side \in Sides : NoPage[side] \in RowsOver(Meter)
  /\ NoPage["active"] \in RowsOver(Field)
BY EmptyPanel DEF NoPage, Panels, Sides

\* The panels of a page show what the page is about.
LEMMA NewPage ==
  ASSUME Typed, NEW c \in 0 .. 3
  PROVE  /\ DOMAIN PanelsOf(c) = Panels
         /\ \A side \in Sides : PanelsOf(c)[side] \in RowsOver(Meter)
         /\ PanelsOf(c)["active"] \in RowsOver(Field)
         /\ c = 0 => \A side \in Sides : PanelsOf(c)[side].rows = header[side]
         /\ c = 3 => PanelsOf(c)["active"].rows = fields
<1>1. header["left"] \in Seq(Meter) /\ header["right"] \in Seq(Meter) /\ fields \in Seq(Field)
  BY DEF Typed, Sides, ListsOfFields
<1> DEFINE l == PanelOf(header["left"])
           r == PanelOf(header["right"])
           a == PanelOf(fields)
<1>2. /\ l \in RowsOver(Meter) /\ l.rows = header["left"]
      /\ r \in RowsOver(Meter) /\ r.rows = header["right"]
      /\ a \in RowsOver(Field) /\ a.rows = fields
  BY <1>1, NewPanel
<1>3. /\ c = 0 => PanelsOf(c) = [NoPage EXCEPT !["left"] = l, !["right"] = r]
      /\ c = 3 => PanelsOf(c) = [NoPage EXCEPT !["active"] = a]
      /\ c # 0 /\ c # 3 => PanelsOf(c) = NoPage
  BY DEF PanelsOf
<1> HIDE DEF l, r, a
<1>4. CASE c = 0
  <2>1. /\ DOMAIN PanelsOf(c) = Panels /\ PanelsOf(c)["left"] = l /\ PanelsOf(c)["right"] = r
        /\ PanelsOf(c)["active"] = NoPage["active"]
    BY <1>3, <1>4, EmptyPage DEF Panels, Sides
  <2> QED
    BY <1>2, <1>4, <2>1, EmptyPage DEF Sides
<1>5. CASE c = 3
  <2>1. /\ DOMAIN PanelsOf(c) = Panels /\ PanelsOf(c)["active"] = a
        /\ \A side \in Sides : PanelsOf(c)[side] = NoPage[side]
    BY <1>3, <1>5, EmptyPage DEF Panels, Sides
  <2> QED
    BY <1>2, <1>5, <2>1, EmptyPage
<1>6. CASE c # 0 /\ c # 3
  BY <1>3, <1>6, EmptyPage
<1> QED
  BY <1>4, <1>5, <1>6

\* Each panel belongs to one page, but the categories and the available ones.
LEMMA PageFacts ==
  ASSUME NEW c \in 0 .. 3
  PROVE  /\ "categories" \in ToSet(PageOf(c))
         /\ "left" \in ToSet(PageOf(c)) <=> c = 0
         /\ "right" \in ToSet(PageOf(c)) <=> c = 0
         /\ "active" \in ToSet(PageOf(c)) <=> c = 3
         /\ "available" \in ToSet(PageOf(c)) <=> c \in {0, 3}
         /\ "options" \in ToSet(PageOf(c)) => c \notin {0, 3}
<1>1. CASE c = 0
  <2>1. PageOf(c) = <<"categories", "left", "right", "available">>
    BY <1>1 DEF PageOf
  <2>2. ToSet(PageOf(c)) = {"categories", "left", "right", "available"}
    BY <2>1 DEF ToSet
  <2> QED
    BY <1>1, <2>2
<1>2. CASE c = 3
  <2>1. PageOf(c) = <<"categories", "active", "available">>
    BY <1>2 DEF PageOf
  <2>2. ToSet(PageOf(c)) = {"categories", "active", "available"}
    BY <2>1 DEF ToSet
  <2> QED
    BY <1>2, <2>2
<1>3. CASE c # 0 /\ c # 3
  <2>1. PageOf(c) = <<"categories", "options">>
    BY <1>3 DEF PageOf
  <2>2. ToSet(PageOf(c)) = {"categories", "options"}
    BY <2>1 DEF ToSet
  <2> QED
    BY <1>3, <2>2
<1> QED
  BY <1>1, <1>2, <1>3
-----------------------------------------------------------------------------
(* An edit on one of the two pages keeps the invariant if the panel and    *)
(* what it is about change alike, and the settings are told.               *)

LEMMA MetersEdited ==
  ASSUME IInv, screen = "setup", page = 0,
         UNCHANGED <<file, columns, fields, screen, category, page, starts, openings, configured>>,
         header' \in [Sides -> Seq(Meter)], PanelsFit',
         \A side \in Sides : panel'[side].rows = header'[side],
         changed' = TRUE \/ (changed' = changed /\ header' = header),
         focus' \in ToSet(PageOf(0))
  PROVE  IInv'
<1>1. Typed'
  BY DEF IInv, Typed
<1>2. NoneLost'
  BY DEF IInv, Typed, NoneLost
<1>3. PageShown'
  BY DEF PageShown
<1>4. UnchangedIsSaved'
  <2>1. CASE changed' = TRUE
    BY <2>1 DEF UnchangedIsSaved
  <2>2. CASE changed' = changed /\ header' = header
    BY <2>2 DEF IInv, UnchangedIsSaved
  <2> QED
    BY <2>1, <2>2
<1> QED
  BY <1>1, <1>2, <1>3, <1>4 DEF IInv

LEMMA OnePanel ==
  ASSUME PanelsFit, NEW side \in Sides, NEW pn \in RowsOver(Meter), panel' = [panel EXCEPT ![side] = pn]
  PROVE  /\ PanelsFit' /\ panel'[side] = pn
         /\ \A q \in Sides : q # side => panel'[q] = panel[q]
BY DEF PanelsFit, Panels, Sides

LEMMA OneSideEdited ==
  ASSUME IInv, screen = "setup", page = 0,
         UNCHANGED <<file, columns, fields, screen, category, page, starts, openings, configured>>,
         NEW side \in Sides, NEW s \in Seq(Meter), NEW pn \in RowsOver(Meter), pn.rows = s,
         header' = [header EXCEPT ![side] = s], panel' = [panel EXCEPT ![side] = pn],
         changed' = TRUE \/ (changed' = changed /\ header' = header),
         focus' \in ToSet(PageOf(0))
  PROVE  IInv'
<1>1. header \in [Sides -> Seq(Meter)] /\ PanelsFit
  BY DEF IInv, Typed
<1>2. \A q \in Sides : panel[q].rows = header[q]
  BY DEF IInv, PageShown
<1>3. header' \in [Sides -> Seq(Meter)]
  BY <1>1
<1>4. PanelsFit' /\ panel'[side] = pn /\ \A q \in Sides : q # side => panel'[q] = panel[q]
  BY <1>1, OnePanel
<1>5. header'[side] = s /\ \A q \in Sides : q # side => header'[q] = header[q]
  BY <1>1
<1>6. \A q \in Sides : panel'[q].rows = header'[q]
  BY <1>2, <1>4, <1>5
<1> QED
  BY <1>3, <1>4, <1>6, MetersEdited

LEMMA FieldsEdited ==
  ASSUME IInv, screen = "setup", page = 3,
         UNCHANGED <<file, columns, header, screen, category, page, starts, openings, configured>>,
         NEW pn \in RowsOver(Field), pn.rows \in ListsOfFields,
         panel' = [panel EXCEPT !["active"] = pn], fields' = pn.rows,
         changed' = TRUE \/ (changed' = changed /\ fields' = fields),
         focus' \in ToSet(PageOf(3))
  PROVE  IInv'
<1>1. PanelsFit' /\ panel'["active"] = pn
  BY DEF IInv, Typed, PanelsFit, Panels, Sides
<1>2. Typed'
  BY <1>1 DEF IInv, Typed
<1>3. NoneLost'
  BY DEF IInv, Typed, NoneLost
<1>4. PageShown'
  BY <1>1 DEF PageShown
<1>5. UnchangedIsSaved'
  <2>1. CASE changed' = TRUE
    BY <2>1 DEF UnchangedIsSaved
  <2>2. CASE changed' = changed /\ fields' = fields
    BY <2>2 DEF IInv, UnchangedIsSaved
  <2> QED
    BY <2>1, <2>2
<1> QED
  BY <1>2, <1>3, <1>4, <1>5 DEF IInv
-----------------------------------------------------------------------------
(* Starts and ends.                                                        *)

LEMMA WhatIsRead ==
  ASSUME Typed
  PROVE  /\ MetersIn(file) \in Entries
         /\ HeaderFor(file) \in [Sides -> Seq(Meter)]
         /\ [side \in Sides |-> Cut(MetersIn(file)[side])] \in Entries
         /\ FieldsIn(file) \in ListsOfFields
<1>1. MetersIn(file) \in Entries
  <2>1. Defaults \in Entries
    BY SetupAssumption DEF Entries, Entry
  <2>2. file # NoFile => file.columns \in Entries
    BY DEF Typed, Settings
  <2> QED
    BY <2>1, <2>2 DEF MetersIn
<1>2. HeaderFor(file) \in [Sides -> Seq(Meter)]
  <2>1. \A side \in Sides : Populated(MetersIn(file)[side]) \in Seq(Meter)
    BY <1>1, PopulatedFacts DEF Entries
  <2> QED
    BY <2>1 DEF HeaderFor
<1>3. ASSUME NEW m \in Entry
      PROVE  [m EXCEPT !.param = 0] \in Entry
  <2>1. CASE m \in Meter
    <3>1. /\ m \in [type : Type, param : UNION {Param[t] : t \in Type}, mode : 1 .. Modes]
          /\ 0 \in Param[m.type] /\ 0 \in UNION {Param[t] : t \in Type}
      BY <2>1, SetupAssumption DEF Meter
    <3> QED
      BY <3>1 DEF Meter, Entry
  <2>2. CASE m \in [type : Foreign, param : Nat, mode : 1 .. Modes]
    BY <2>2 DEF Entry
  <2> QED
    BY <2>1, <2>2 DEF Entry
<1>4. [side \in Sides |-> Cut(MetersIn(file)[side])] \in Entries
  <2>1. ASSUME NEW s \in Seq(Entry)
        PROVE  Cut(s) \in Seq(Entry)
    <3>1. \A i \in 1 .. Len(s) : [s[i] EXCEPT !.param = 0] \in Entry
      BY <1>3
    <3>2. Cut(s) = [i \in 1 .. Len(s) |-> [s[i] EXCEPT !.param = 0]]
      BY DEF Cut
    <3> QED
      BY <3>1, <3>2
  <2>2. \A side \in Sides : MetersIn(file)[side] \in Seq(Entry)
    BY <1>1 DEF Entries
  <2> QED
    BY <2>1, <2>2 DEF Entries
<1>5. FieldsIn(file) \in ListsOfFields
  <2>1. DefaultFields \in ListsOfFields
    BY SetupAssumption DEF ListsOfFields
  <2>2. file # NoFile => file.fields \in ListsOfFields
    BY DEF Typed, Settings, ListsOfFields
  <2> QED
    BY <2>1, <2>2 DEF FieldsIn
<1> QED
  BY <1>1, <1>2, <1>4, <1>5

LEMMA NothingOpen ==
  /\ NoMeters \in Entries /\ NoMeters \in [Sides -> Seq(Meter)]
  /\ DefaultFields \in ListsOfFields
  /\ 0 \in 0 .. 3 /\ "none" \in {"none"} \cup ToSet(PageOf(0))
BY SetupAssumption DEF NoMeters, Entries, ListsOfFields

LEMMA InitFits == Init => IInv
<1> SUFFICES ASSUME Init PROVE IInv
  OBVIOUS
<1>1. file \in {NoFile} \cup {f \in Settings : Last(f.fields) = Comm}
  BY SetupAssumption DEF Init
<1>2. PanelsFit
  BY EmptyPage DEF Init, PanelsFit
<1>3. starts \in 0 .. MaxStarts /\ openings \in 0 .. MaxOpenings
  BY SetupAssumption DEF Init
<1>4. Typed
  BY <1>1, <1>2, <1>3, NothingOpen DEF Init, Typed
<1>5. NoneLost /\ PageShown /\ UnchangedIsSaved
  BY DEF Init, NoneLost, PageShown, UnchangedIsSaved
<1> QED
  BY <1>4, <1>5 DEF IInv

LEMMA OffFits ==
  ASSUME IInv, Off, UNCHANGED <<starts, openings>>,
         file' \in {NoFile} \cup {f \in Settings : Last(f.fields) = Comm}
  PROVE  IInv'
<1>1. PanelsFit'
  BY EmptyPage DEF Off, PanelsFit
<1>2. Typed'
  BY <1>1, NothingOpen DEF IInv, Off, Typed
<1>3. NoneLost' /\ PageShown' /\ UnchangedIsSaved'
  BY DEF Off, NoneLost, PageShown, UnchangedIsSaved
<1> QED
  BY <1>2, <1>3 DEF IInv

LEMMA StartFits ==
  ASSUME IInv, Start
  PROVE  IInv'
<1>1. /\ screen = "off" /\ screen' = "main"
      /\ columns' = [side \in Sides |-> Cut(MetersIn(file)[side])]
      /\ header' = HeaderFor(file) /\ fields' = FieldsIn(file) /\ changed' = (file = NoFile)
      /\ UNCHANGED <<file, category, page, focus, panel, openings, configured>>
  BY DEF Start, pageVars
<1>2. starts' \in 0 .. MaxStarts
  BY SetupAssumption DEF Start, IInv, Typed
<1>3. Typed /\ NoneLost
  BY DEF IInv
<1>4. changed' \in BOOLEAN
  BY <1>1
<1>5. PanelsFit'
  BY <1>1, <1>3 DEF Typed, PanelsFit
<1>6. Typed'
  BY <1>1, <1>2, <1>3, <1>4, <1>5, WhatIsRead DEF Typed
<1>7. NoneLost' /\ PageShown'
  BY <1>1, <1>3 DEF NoneLost, PageShown
<1>8. UnchangedIsSaved'
  BY <1>1 DEF UnchangedIsSaved
<1> QED
  BY <1>6, <1>7, <1>8 DEF IInv

LEMMA ChangeOptionFits ==
  ASSUME IInv, ChangeOption
  PROVE  IInv'
<1>1. Typed'
  BY DEF IInv, Typed, PanelsFit, ChangeOption, pageVars
<1>2. NoneLost' /\ PageShown' /\ UnchangedIsSaved'
  BY DEF IInv, NoneLost, PageShown, UnchangedIsSaved, ChangeOption, pageVars
<1> QED
  BY <1>1, <1>2 DEF IInv

LEMMA EndFits ==
  ASSUME IInv, Quit \/ QuitUnwritable \/ Killed
  PROVE  IInv'
<1>1. file \in {NoFile} \cup {f \in Settings : Last(f.fields) = Comm}
  BY DEF IInv, Typed
<1>2. CASE Quit
  <2>1. [columns |-> columns, fields |-> fields] \in {f \in Settings : Last(f.fields) = Comm}
    BY DEF IInv, Typed, Settings, ListsOfFields
  <2>2. file' \in {NoFile} \cup {f \in Settings : Last(f.fields) = Comm}
    BY <1>1, <1>2, <2>1 DEF Quit
  <2> QED
    BY <1>2, <2>2, OffFits DEF Quit
<1>3. CASE QuitUnwritable \/ Killed
  BY <1>1, <1>3, OffFits DEF QuitUnwritable, Killed
<1> QED
  BY <1>2, <1>3

LEMMA OpenSetupFits ==
  ASSUME IInv, OpenSetup
  PROVE  IInv'
<1>1. /\ screen' = "setup" /\ category' = 0 /\ page' = 0 /\ focus' = "categories"
      /\ panel' = PanelsOf(0)
      /\ UNCHANGED <<file, columns, fields, changed, header, starts, configured>>
      /\ screen = "main"
  BY DEF OpenSetup, settingVars
<1>2. openings' \in 0 .. MaxOpenings
  BY SetupAssumption DEF OpenSetup, IInv, Typed
<1>3. 0 \in 0 .. 3 /\ Typed
  BY DEF IInv
<1>4. PanelsFit'
  BY <1>1, <1>3, NewPage DEF PanelsFit
<1>5. Typed'
  BY <1>1, <1>2, <1>3, <1>4, PageFacts DEF Typed
<1>6. PageShown'
  BY <1>1, <1>3, NewPage DEF PageShown
<1>7. NoneLost' /\ UnchangedIsSaved'
  BY <1>1 DEF IInv, NoneLost, UnchangedIsSaved
<1> QED
  BY <1>5, <1>6, <1>7 DEF IInv

LEMMA CloseSetupFits ==
  ASSUME IInv, CloseSetup
  PROVE  IInv'
<1>1. PanelsFit'
  BY EmptyPage DEF CloseSetup, PanelsFit
<1>2. header \in Entries /\ columns \in Entries
  BY DEF IInv, Typed, Entries, Entry
<1>3. columns' \in Entries /\ configured' \in BOOLEAN
  BY <1>2 DEF CloseSetup, IInv, Typed
<1>4. Typed'
  BY <1>1, <1>3, NothingOpen DEF CloseSetup, IInv, Typed
<1>5. NoneLost' /\ PageShown' /\ UnchangedIsSaved'
  BY DEF CloseSetup, IInv, NoneLost, PageShown, UnchangedIsSaved
<1> QED
  BY <1>4, <1>5 DEF IInv
-----------------------------------------------------------------------------
(* The categories and the focus.                                           *)

LEMMA ClickedFacts ==
  ASSUME IInv, NEW p, Clicked(p)
  PROVE  /\ screen = "setup" /\ focus' = p /\ p \in ToSet(PageOf(page)) /\ page \in 0 .. 3
         /\ UNCHANGED <<file, screen, starts, openings, configured>>
BY DEF IInv, Typed, Clicked

LEMMA CategoryFits ==
  ASSUME IInv, SelectCategory \/ TypeCategory
  PROVE  IInv'
<1>1. /\ category' \in 0 .. 3 /\ page' \in 0 .. 3
      /\ panel' = PanelsOf(page') /\ Clicked("categories")
      /\ UNCHANGED <<columns, fields, changed, header>>
  BY DEF IInv, Typed, SelectCategory, TypeCategory, Key, settingVars
<1>2. focus' = "categories" /\ UNCHANGED <<file, screen, starts, openings, configured>>
  BY <1>1, ClickedFacts
<1>3. Typed
  BY DEF IInv
<1>4. PanelsFit'
  BY <1>1, <1>3, NewPage DEF PanelsFit
<1>5. Typed'
  BY <1>1, <1>2, <1>3, <1>4, PageFacts DEF Typed
<1>6. PageShown'
  BY <1>1, <1>2, <1>3, NewPage DEF PageShown
<1>7. NoneLost' /\ UnchangedIsSaved'
  BY <1>1, <1>2 DEF IInv, NoneLost, UnchangedIsSaved
<1> QED
  BY <1>5, <1>6, <1>7 DEF IInv

LEMMA SetOptionFits ==
  ASSUME IInv, SetOption
  PROVE  IInv'
<1>1. /\ Clicked("options") /\ changed' = TRUE
      /\ UNCHANGED <<columns, fields, header, category, page, panel>>
  BY DEF SetOption
<1>2. /\ focus' = "options" /\ "options" \in ToSet(PageOf(page)) /\ page \in 0 .. 3
      /\ UNCHANGED <<file, screen, starts, openings, configured>>
  BY <1>1, ClickedFacts
<1>3. page' \notin {0, 3}
  BY <1>1, <1>2, PageFacts
<1>4. Typed'
  BY <1>1, <1>2 DEF IInv, Typed, PanelsFit
<1>5. NoneLost' /\ PageShown' /\ UnchangedIsSaved'
  BY <1>1, <1>2, <1>3 DEF IInv, Typed, NoneLost, PageShown, UnchangedIsSaved
<1> QED
  BY <1>4, <1>5 DEF IInv

LEMMA GreatestNat ==
  ASSUME NEW n \in Nat, NEW S \in SUBSET (1 .. n), S # {}
  PROVE  \E i \in S : \A j \in S : j <= i
<1> DEFINE R == {n - i : i \in S}
<1>1. R \in SUBSET Nat /\ R # {}
  <2>1. \A i \in S : n - i \in Nat
    OBVIOUS
  <2> QED
    BY <2>1
<1>2. PICK r \in R : \A q \in R : r <= q
  BY <1>1, LeastNat
<1>3. PICK i \in S : r = n - i
  OBVIOUS
<1>4. \A j \in S : n - i <= n - j
  BY <1>2, <1>3
<1>5. \A j \in S : j <= i
  BY <1>4
<1> QED
  BY <1>5

\* The focus moves to a panel of the page, or stays.
LEMMA BesideFacts ==
  ASSUME page \in 0 .. 3, NEW p, NEW step \in {1, -1}
  PROVE  Beside(p, step) \in {p} \cup ToSet(PageOf(page))
<1> DEFINE order == PageOf(page)
           at == SelectInSeq(order, LAMBDA q : q = p)
           ahead == {i \in DOMAIN order : (i - at) * step > 0}
           goal == {i \in ahead : Size(order[i]) > 0 \/ i + step \notin DOMAIN order}
           next == CHOOSE i \in goal : \A j \in goal : (j - i) * step >= 0
<1>1. Beside(p, step) = IF goal = {} THEN p ELSE order[next]
  BY Zenon DEF Beside
<1>2. \E n \in Nat : DOMAIN order = 1 .. n
  <2>1. CASE page = 0
    <3>1. DOMAIN order = 1 .. 4
      BY <2>1 DEF PageOf
    <3> QED
      BY <3>1
  <2>2. CASE page = 3
    <3>1. DOMAIN order = 1 .. 3
      BY <2>2 DEF PageOf
    <3> QED
      BY <3>1
  <2>3. CASE page # 0 /\ page # 3
    <3>1. DOMAIN order = 1 .. 2
      BY <2>3 DEF PageOf
    <3> QED
      BY <3>1
  <2> QED
    BY <2>1, <2>2, <2>3
<1>3. PICK n \in Nat : DOMAIN order = 1 .. n
  BY <1>2
<1> HIDE DEF order
<1>4. goal \in SUBSET (1 .. n)
  BY <1>3
<1> HIDE DEF at, ahead, goal
<1>5. CASE goal # {}
  <2>1. \E i \in goal : \A j \in goal : (j - i) * step >= 0
    <3>1. CASE step = 1
      <4>1. goal \in SUBSET Nat
        BY <1>4
      <4>2. PICK i \in goal : \A j \in goal : i <= j
        BY <1>5, <4>1, LeastNat
      <4>3. \A j \in goal : (j - i) * 1 >= 0
        BY <4>1, <4>2
      <4> QED
        BY <3>1, <4>3
    <3>2. CASE step = -1
      <4>1. goal \in SUBSET Nat
        BY <1>4
      <4>2. PICK i \in goal : \A j \in goal : j <= i
        BY <1>4, <1>5, GreatestNat
      <4>3. \A j \in goal : (j - i) * (-1) >= 0
        BY <4>1, <4>2
      <4> QED
        BY <3>2, <4>3
    <3> QED
      BY <3>1, <3>2
  <2>2. next \in goal
    BY <2>1, Zenon
  <2>3. next \in DOMAIN order
    BY <1>3, <1>4, <2>2
  <2>4. order[next] \in ToSet(order)
    BY <2>3 DEF ToSet
  <2> QED
    BY <1>1, <1>5, <2>4 DEF order
<1> QED
  BY <1>1, <1>5

LEMMA MoveFocusFits ==
  ASSUME IInv, MoveFocus
  PROVE  IInv'
<1>1. /\ screen = "setup"
      /\ focus' \in {Beside(focus, 1), Beside(focus, -1)} \cup (ToSet(PageOf(page)) \cap {"available"})
      /\ UNCHANGED <<file, columns, fields, changed, header, screen, category, page, panel,
                     starts, openings, configured>>
  BY DEF MoveFocus, settingVars
<1>2. page \in 0 .. 3 /\ focus \in {"none"} \cup ToSet(PageOf(page))
  BY DEF IInv, Typed
<1>3. Beside(focus, 1) \in {focus} \cup ToSet(PageOf(page))
  BY <1>2, BesideFacts
<1>4. Beside(focus, -1) \in {focus} \cup ToSet(PageOf(page))
  BY <1>2, BesideFacts
<1>5. focus' \in {"none"} \cup ToSet(PageOf(page))
  BY <1>1, <1>2, <1>3, <1>4
<1>6. Typed'
  BY <1>1, <1>5 DEF IInv, Typed, PanelsFit
<1>7. NoneLost' /\ PageShown' /\ UnchangedIsSaved'
  BY <1>1 DEF IInv, NoneLost, PageShown, UnchangedIsSaved
<1> QED
  BY <1>6, <1>7 DEF IInv
-----------------------------------------------------------------------------
(* The page of the meters.                                                 *)

\* What a handler of MetersPanel starts from: the rows are the meters.
LEMMA OnMeters ==
  ASSUME IInv, NEW side \in Sides, screen = "setup", side \in ToSet(PageOf(page))
  PROVE  /\ page = 0 /\ Other(side) \in Sides /\ side # Other(side)
         /\ \A q \in Sides : q # side => q = Other(side)
         /\ \A q \in Sides : q \in ToSet(PageOf(0))
         /\ \A q \in Sides : /\ header[q] \in Seq(Meter) /\ Len(header[q]) \in Nat
                             /\ panel[q] \in RowsOver(Meter) /\ panel[q].rows = header[q]
                             /\ panel[q].selected \in Nat
                             /\ header[q] # <<>> => panel[q].selected + 1 \in 1 .. Len(header[q])
<1>1. page \in 0 .. 3 /\ 0 \in 0 .. 3
  BY DEF IInv, Typed
<1>2. page = 0
  BY <1>1, PageFacts DEF Sides
<1>3. \A q \in Sides : q \in ToSet(PageOf(0))
  BY <1>1, PageFacts DEF Sides
<1>4. \A q \in Sides : header[q] \in Seq(Meter) /\ panel[q] \in RowsOver(Meter)
  BY DEF IInv, Typed, PanelsFit
<1>5. \A q \in Sides : panel[q].rows = header[q]
  BY <1>2 DEF IInv, PageShown
<1>6. \A q \in Sides : /\ Len(header[q]) \in Nat /\ panel[q].selected \in Nat
                       /\ header[q] # <<>> => panel[q].selected + 1 \in 1 .. Len(header[q])
  BY <1>4, <1>5, RowsFacts
<1> QED
  BY <1>2, <1>3, <1>4, <1>5, <1>6 DEF Other, Sides

LEMMA MetersKeyFacts ==
  ASSUME IInv, NEW side \in Sides, MetersKey(side)
  PROVE  /\ screen = "setup" /\ side \in ToSet(PageOf(page)) /\ focus' = side
         /\ UNCHANGED <<file, columns, fields, screen, category, page, starts, openings, configured>>
BY ClickedFacts DEF MetersKey, Key

LEMMA SelectMeterFits ==
  ASSUME IInv, NEW side \in Sides, SelectMeter(side)
  PROVE  IInv'
<1>1. Clicked(side) /\ UNCHANGED <<columns, fields, changed, header, category, page>>
  BY DEF SelectMeter, settingVars
<1>2. /\ screen = "setup" /\ focus' = side /\ side \in ToSet(PageOf(page))
      /\ UNCHANGED <<file, screen, starts, openings, configured>>
  BY <1>1, ClickedFacts
<1> DEFINE pn == panel[side]
<1>3. pn \in RowsOver(Meter) /\ pn.rows = header[side] /\ page = 0 /\ side \in ToSet(PageOf(0))
  BY <1>2, OnMeters
<1>4. Size(side) = Len(pn.rows)
  BY DEF Size, IInv, Typed, PanelsFit, Panels
<1>5. PICK i \in 0 .. Upper(Len(pn.rows) - 1, 0) : panel' = [panel EXCEPT ![side].selected = i]
  BY <1>4, Zenon DEF SelectMeter
<1>6. panel' = [panel EXCEPT ![side] = [pn EXCEPT !.selected = i]]
  BY <1>5
<1> HIDE DEF pn
<1>7. [pn EXCEPT !.selected = i] \in RowsOver(Meter) /\ [pn EXCEPT !.selected = i].rows = pn.rows
  <2>1. [pn EXCEPT !.selected = i] = [rows |-> pn.rows, selected |-> i, moving |-> pn.moving]
    BY <1>3, RowsFacts
  <2>2. i \in Nat /\ i <= Upper(Len(pn.rows) - 1, 0) /\ pn.rows \in Seq(Meter)
    BY <1>3, RowsFacts DEF Upper
  <2> QED
    BY <1>3, <2>1, <2>2, RowsFacts, RowsMade
<1>8. header[side] \in Seq(Meter) /\ header' = [header EXCEPT ![side] = header[side]]
  BY <1>1 DEF IInv, Typed
<1> DEFINE new == [pn EXCEPT !.selected = i]
<1>9. new \in RowsOver(Meter) /\ new.rows = header[side] /\ panel' = [panel EXCEPT ![side] = new]
  BY <1>3, <1>6, <1>7
<1> HIDE DEF new
<1> QED
  BY <1>1, <1>2, <1>3, <1>8, <1>9, OneSideEdited

LEMMA ToggleMovingFits ==
  ASSUME IInv, NEW side \in Sides, ToggleMoving(side)
  PROVE  IInv'
<1>1. MetersKey(side) /\ changed' = TRUE /\ header' = header
  BY DEF ToggleMoving, MetersEdit
<1>2. panel' = [panel EXCEPT ![side].moving = ~@]
  BY Zenon DEF ToggleMoving
<1>3. /\ screen = "setup" /\ side \in ToSet(PageOf(page)) /\ focus' = side
      /\ UNCHANGED <<file, columns, fields, screen, category, page, starts, openings, configured>>
  BY <1>1, MetersKeyFacts
<1> DEFINE pn == panel[side]
           new == [pn EXCEPT !.moving = ~pn.moving]
<1>4. pn \in RowsOver(Meter) /\ pn.rows = header[side] /\ page = 0 /\ side \in ToSet(PageOf(0))
  BY <1>3, OnMeters
<1>5. panel' = [panel EXCEPT ![side] = new]
  BY <1>2
<1> HIDE DEF pn
<1>6. new \in RowsOver(Meter) /\ new.rows = header[side]
  BY <1>4, RowsFacts, MovingSet
<1>7. header[side] \in Seq(Meter) /\ header' = [header EXCEPT ![side] = header[side]]
  BY <1>1 DEF IInv, Typed
<1> HIDE DEF new
<1> QED
  BY <1>1, <1>3, <1>4, <1>5, <1>6, <1>7, OneSideEdited

LEMMA NextModeFits ==
  ASSUME IInv, NEW side \in Sides, NextMode(side)
  PROVE  IInv'
<1> DEFINE i == panel[side].selected
           m == InNextMode(header[side][i + 1])
           s == [header[side] EXCEPT ![i + 1] = m]
           new == WithRow(panel[side], i, m)
<1>1. MetersKey(side) /\ changed' = TRUE /\ header[side] # <<>>
  BY DEF NextMode, MetersEdit
<1>2. header' = [header EXCEPT ![side] = s] /\ panel' = [panel EXCEPT ![side] = new]
  BY Zenon DEF NextMode
<1>3. /\ screen = "setup" /\ side \in ToSet(PageOf(page)) /\ focus' = side
      /\ UNCHANGED <<file, columns, fields, screen, category, page, starts, openings, configured>>
  BY <1>1, MetersKeyFacts
<1>4. /\ panel[side] \in RowsOver(Meter) /\ panel[side].rows = header[side] /\ page = 0
      /\ side \in ToSet(PageOf(0)) /\ header[side] \in Seq(Meter) /\ i + 1 \in 1 .. Len(header[side])
  BY <1>1, <1>3, OnMeters
<1>5. m \in Meter
  <2>1. header[side][i + 1] \in Meter
    BY <1>4
  <2>2. ASSUME NEW o \in Meter
        PROVE  InNextMode(o) \in Meter
    <3>1. (o.mode % Modes) + 1 \in 1 .. Modes
      BY SetupAssumption DEF Meter
    <3> QED
      BY <3>1 DEF Meter, InNextMode
  <2> QED
    BY <2>1, <2>2
<1>6. new = WithRows(panel[side], s)
  BY <1>4 DEF WithRow
<1> HIDE DEF m
<1>7. s \in Seq(Meter) /\ Len(s) = Len(header[side])
  BY <1>4, <1>5
<1> HIDE DEF s, i
<1>8. new \in RowsOver(Meter) /\ new.rows = s
  BY <1>4, <1>6, <1>7, RowsReplaced
<1> HIDE DEF new
<1> QED
  BY <1>1, <1>2, <1>3, <1>4, <1>7, <1>8, OneSideEdited

\* Two neighbours change places, in the header and in the rows.
LEMMA MeterMoved ==
  ASSUME IInv, NEW side \in Sides, MetersEdit(side),
         NEW i \in Nat, i + 1 < Len(header[side]), NEW k \in {i, i + 1},
         header' = [header EXCEPT ![side] = Swapped(header[side], i)],
         panel' = [panel EXCEPT ![side] = WithMoved(panel[side], Swapped(panel[side].rows, i), k)]
  PROVE  IInv'
<1> DEFINE s == Swapped(header[side], i)
           new == WithMoved(panel[side], s, k)
<1>1. MetersKey(side) /\ changed' = TRUE
  BY DEF MetersEdit
<1>2. /\ screen = "setup" /\ side \in ToSet(PageOf(page)) /\ focus' = side
      /\ UNCHANGED <<file, columns, fields, screen, category, page, starts, openings, configured>>
  BY <1>1, MetersKeyFacts
<1>3. /\ panel[side] \in RowsOver(Meter) /\ panel[side].rows = header[side] /\ page = 0
      /\ side \in ToSet(PageOf(0)) /\ header[side] \in Seq(Meter) /\ Len(header[side]) \in Nat
  BY <1>2, OnMeters
<1>4. s \in Seq(Meter) /\ Len(s) = Len(header[side])
  BY <1>3, SwappedFacts
<1>5. panel' = [panel EXCEPT ![side] = new] /\ header' = [header EXCEPT ![side] = s]
  BY <1>3
<1> HIDE DEF s
<1>6. k \in Nat /\ k < Len(s)
  BY <1>3, <1>4
<1>7. new \in RowsOver(Meter) /\ new.rows = s
  BY <1>3, <1>4, <1>6, RowsMoved
<1> HIDE DEF new
<1> QED
  BY <1>1, <1>2, <1>3, <1>4, <1>5, <1>7, OneSideEdited

\* A key that is taken for an edit, and edits nothing.
LEMMA MetersUntouched ==
  ASSUME IInv, NEW side \in Sides, MetersEdit(side), UNCHANGED <<header, panel>>
  PROVE  IInv'
<1>1. MetersKey(side) /\ changed' = TRUE
  BY DEF MetersEdit
<1>2. /\ screen = "setup" /\ side \in ToSet(PageOf(page)) /\ focus' = side
      /\ UNCHANGED <<file, columns, fields, screen, category, page, starts, openings, configured>>
  BY <1>1, MetersKeyFacts
<1>3. page = 0 /\ side \in ToSet(PageOf(0)) /\ \A q \in Sides : panel'[q].rows = header'[q]
  BY <1>2, OnMeters
<1>4. header' \in [Sides -> Seq(Meter)] /\ PanelsFit'
  BY DEF IInv, Typed, PanelsFit
<1> QED
  BY <1>1, <1>2, <1>3, <1>4, MetersEdited

LEMMA MoveMeterUpFits ==
  ASSUME IInv, NEW side \in Sides, MoveMeterUp(side)
  PROVE  IInv'
<1> DEFINE i == panel[side].selected
<1>1. MetersEdit(side)
  BY DEF MoveMeterUp
<1>2. MetersKey(side)
  BY <1>1 DEF MetersEdit
<1>3. screen = "setup" /\ side \in ToSet(PageOf(page))
  BY <1>2, MetersKeyFacts
<1>4. /\ panel[side] \in RowsOver(Meter) /\ i \in Nat /\ Len(header[side]) \in Nat
      /\ panel[side].rows = header[side] /\ header[side] \in Seq(Meter)
  BY <1>3, OnMeters
<1>5. CASE i > 0
  <2>1. /\ header' = [header EXCEPT ![side] = Swapped(header[side], i - 1)]
        /\ panel' = [panel EXCEPT ![side] = WithMoved(panel[side], Swapped(panel[side].rows, i - 1), i - 1)]
    BY <1>5, Zenon DEF MoveMeterUp
  <2>2. i \in 0 .. Upper(Len(header[side]) - 1, 0)
    BY <1>4, RowsFacts
  <2>3. i - 1 \in Nat /\ (i - 1) + 1 < Len(header[side])
    BY <1>4, <1>5, <2>2 DEF Upper
  <2> QED
    BY <1>1, <2>1, <2>3, MeterMoved
<1>6. CASE ~(i > 0)
  <2>1. UNCHANGED <<header, panel>>
    BY <1>6, Zenon DEF MoveMeterUp
  <2> QED
    BY <1>1, <2>1, MetersUntouched
<1> QED
  BY <1>5, <1>6

LEMMA MoveMeterDownFits ==
  ASSUME IInv, NEW side \in Sides, MoveMeterDown(side)
  PROVE  IInv'
<1> DEFINE i == panel[side].selected
<1>1. MetersEdit(side)
  BY DEF MoveMeterDown
<1>2. MetersKey(side)
  BY <1>1 DEF MetersEdit
<1>3. screen = "setup" /\ side \in ToSet(PageOf(page))
  BY <1>2, MetersKeyFacts
<1>4. i \in Nat
  BY <1>3, OnMeters
<1>5. CASE i + 1 < Len(header[side])
  <2>1. /\ header' = [header EXCEPT ![side] = Swapped(header[side], i)]
        /\ panel' = [panel EXCEPT ![side] = WithMoved(panel[side], Swapped(panel[side].rows, i), i + 1)]
    BY <1>5, Zenon DEF MoveMeterDown
  <2> QED
    BY <1>1, <1>4, <1>5, <2>1, MeterMoved
<1>6. CASE ~(i + 1 < Len(header[side]))
  <2>1. UNCHANGED <<header, panel>>
    BY <1>6, Zenon DEF MoveMeterDown
  <2> QED
    BY <1>1, <2>1, MetersUntouched
<1> QED
  BY <1>5, <1>6

LEMMA DeleteMeterFits ==
  ASSUME IInv, NEW side \in Sides, DeleteMeter(side)
  PROVE  IInv'
<1> DEFINE i == panel[side].selected
           s == RemoveAt(header[side], i + 1)
           taken == Without(panel[side], i)
           new == [taken EXCEPT !.moving = FALSE]
<1>1. MetersKey(side) /\ changed' = TRUE /\ header[side] # <<>>
  BY DEF DeleteMeter, MetersEdit
<1>2. header' = [header EXCEPT ![side] = s] /\ panel' = [panel EXCEPT ![side] = new]
  BY Zenon DEF DeleteMeter
<1>3. /\ screen = "setup" /\ side \in ToSet(PageOf(page)) /\ focus' = side
      /\ UNCHANGED <<file, columns, fields, screen, category, page, starts, openings, configured>>
  BY <1>1, MetersKeyFacts
<1>4. /\ panel[side] \in RowsOver(Meter) /\ panel[side].rows = header[side] /\ page = 0
      /\ side \in ToSet(PageOf(0)) /\ header[side] \in Seq(Meter) /\ i + 1 \in 1 .. Len(header[side])
  BY <1>1, <1>3, OnMeters
<1>5. s \in Seq(Meter)
  BY <1>4, RemoveAtFacts
<1>6. taken \in RowsOver(Meter) /\ taken.rows = s
  BY <1>1, <1>4, RowTaken
<1> HIDE DEF taken, s
<1>7. new \in RowsOver(Meter) /\ new.rows = s
  BY <1>6, MovingSet
<1> HIDE DEF new
<1> QED
  BY <1>1, <1>2, <1>3, <1>4, <1>5, <1>7, OneSideEdited

LEMMA AddMeterFits ==
  ASSUME IInv, NEW side \in Sides, AddMeter(side)
  PROVE  IInv'
<1>1. /\ screen = "setup" /\ page = 0 /\ focus = "available" /\ changed' = TRUE
      /\ focus' = IF side = "right" THEN "right" ELSE focus
      /\ UNCHANGED <<file, columns, fields, screen, category, page, starts, openings, configured>>
  BY DEF AddMeter
<1>2. PICK t \in Type : \E n \in Param[t] :
        LET meter == [type |-> t, param |-> n, mode |-> DefaultMode[t]]
            rows == Append(panel[side].rows, meter)
        IN  /\ header' = [header EXCEPT ![side] = Append(@, meter)]
            /\ panel' = [panel EXCEPT ![side] = [rows |-> rows, selected |-> Len(rows) - 1,
                                                 moving |-> TRUE]]
  BY Zenon DEF AddMeter
<1>3. PICK n \in Param[t] :
        LET meter == [type |-> t, param |-> n, mode |-> DefaultMode[t]]
            rows == Append(panel[side].rows, meter)
        IN  /\ header' = [header EXCEPT ![side] = Append(@, meter)]
            /\ panel' = [panel EXCEPT ![side] = [rows |-> rows, selected |-> Len(rows) - 1,
                                                 moving |-> TRUE]]
  BY <1>2, Zenon
<1> DEFINE meter == [type |-> t, param |-> n, mode |-> DefaultMode[t]]
           s == Append(header[side], meter)
           new == [rows |-> s, selected |-> Len(s) - 1, moving |-> TRUE]
<1>4. 0 \in 0 .. 3 /\ "left" \in ToSet(PageOf(0)) /\ "right" \in ToSet(PageOf(0)) /\ "available" \in ToSet(PageOf(0))
  BY PageFacts
<1>5. side \in ToSet(PageOf(page))
  BY <1>1, <1>4 DEF Sides
<1>6. panel[side].rows = header[side] /\ header[side] \in Seq(Meter)
  BY <1>1, <1>5, OnMeters
<1>7. meter \in Meter
  BY SetupAssumption DEF Meter
<1>8. header' = [header EXCEPT ![side] = s]
  BY <1>3, Zenon
<1>9. panel' = [panel EXCEPT ![side] = new]
  BY <1>3, <1>6, Zenon
<1> HIDE DEF meter
<1>10. s \in Seq(Meter) /\ Len(s) = Len(header[side]) + 1 /\ Len(header[side]) \in Nat
  BY <1>6, <1>7
<1> HIDE DEF s
<1>11. Len(s) - 1 \in Nat /\ Len(s) - 1 <= Upper(Len(s) - 1, 0)
  BY <1>10 DEF Upper
<1>12. new \in RowsOver(Meter) /\ new.rows = s
  BY <1>10, <1>11, RowsMade
<1> HIDE DEF new
<1>13. focus' \in ToSet(PageOf(0))
  BY <1>1, <1>4
<1> QED
  BY <1>1, <1>8, <1>9, <1>10, <1>12, <1>13, OneSideEdited

LEMMA MoveAcrossFits ==
  ASSUME IInv, NEW side \in Sides, MoveAcross(side)
  PROVE  IInv'
<1> DEFINE i == panel[side].selected
           to == Other(side)
           meter == header[side][i + 1]
           s == RemoveAt(header[side], i + 1)
           t == InsertedAt(header[to], i, meter)
           taken == Without(panel[side], i)
           left == [taken EXCEPT !.moving = FALSE]
           new == Crossed(panel[to], i, meter)
<1>1. /\ screen = "setup" /\ page = 0 /\ focus = side /\ i < Len(header[side])
      /\ focus' = to /\ changed' = TRUE
      /\ UNCHANGED <<file, columns, fields, screen, category, page, starts, openings, configured>>
  BY DEF MoveAcross
<1>2. /\ header' = [header EXCEPT ![side] = s, ![to] = Arrived(@, i, meter)]
      /\ panel' = [panel EXCEPT ![side] = left, ![to] = Crossed(@, i, meter)]
  BY Zenon DEF MoveAcross
<1>3. side \in ToSet(PageOf(page))
  BY <1>1, PageFacts DEF Sides
<1>4. /\ to \in Sides /\ side # to /\ \A q \in Sides : q = side \/ q = to
      /\ \A q \in Sides : q \in ToSet(PageOf(0))
      /\ panel[side] \in RowsOver(Meter) /\ panel[side].rows = header[side] /\ header[side] \in Seq(Meter)
      /\ panel[to] \in RowsOver(Meter) /\ panel[to].rows = header[to] /\ header[to] \in Seq(Meter)
      /\ i \in Nat /\ i + 1 \in 1 .. Len(header[side])
  <2>1. header[side] # <<>>
    <3>1. header[side] \in Seq(Meter) /\ i \in Nat
      BY <1>1, <1>3, OnMeters
    <3> QED
      BY <1>1, <3>1
  <2> QED
    BY <1>1, <1>3, <2>1, OnMeters
<1>5. meter \in Meter
  BY <1>4
<1>6. s \in Seq(Meter)
  BY <1>4, RemoveAtFacts
<1>7. taken \in RowsOver(Meter) /\ taken.rows = s
  <2>1. panel[side].rows # <<>>
    BY <1>4
  <2> QED
    BY <1>4, <2>1, RowTaken
<1>8. t \in Seq(Meter)
  BY <1>4, <1>5, InsertedFacts
<1>9. new \in RowsOver(Meter) /\ new.rows = t
  <2> HIDE DEF meter, i, to
  <2>1. panel[to] \in RowsOver(Meter) /\ i \in Nat /\ meter \in Meter
    BY <1>4, <1>5
  <2>2. \A pn \in RowsOver(Meter), k \in Nat, e \in Meter :
          /\ Crossed(pn, k, e) \in RowsOver(Meter)
          /\ Crossed(pn, k, e).rows = InsertedAt(pn.rows, k, e)
    BY RowCrossed
  <2>3. new \in RowsOver(Meter) /\ new.rows = InsertedAt(panel[to].rows, i, meter)
    BY <2>1, <2>2
  <2> QED
    BY <1>4, <2>3
<1> HIDE DEF taken, s
<1>10. left \in RowsOver(Meter) /\ left.rows = s
  BY <1>7, MovingSet
<1> HIDE DEF left, to
<1>11. header' \in [Sides -> Seq(Meter)] /\ header'[side] = s /\ header'[to] = t
  <2>1. header \in [Sides -> Seq(Meter)]
    BY DEF IInv, Typed
  <2>2. header' = [header EXCEPT ![side] = s, ![to] = t]
    BY <1>2, <1>4, <2>1 DEF Arrived
  <2> HIDE DEF t
  <2> QED
    BY <1>4, <1>6, <1>8, <2>1, <2>2
<1>12. PanelsFit' /\ panel'[side] = left /\ panel'[to] = new
  <2>1. PanelsFit
    BY DEF IInv, Typed
  <2>2. panel' = [panel EXCEPT ![side] = left, ![to] = new]
    BY <1>2, <1>4, <2>1 DEF PanelsFit, Panels
  <2> HIDE DEF new
  <2> QED
    BY <1>4, <1>9, <1>10, <2>1, <2>2 DEF PanelsFit, Panels, Sides
<1> HIDE DEF new, t
<1>13. \A q \in Sides : panel'[q].rows = header'[q]
  BY <1>4, <1>9, <1>10, <1>11, <1>12
<1>14. focus' \in ToSet(PageOf(0))
  BY <1>1, <1>4
<1> QED
  BY <1>1, <1>11, <1>12, <1>13, <1>14, MetersEdited
-----------------------------------------------------------------------------
(* The page of the columns.                                                *)

LEMMA ListsSwapped ==
  ASSUME NEW s \in ListsOfFields, NEW i \in Nat, i + 2 < Len(s)
  PROVE  Swapped(s, i) \in ListsOfFields /\ Len(Swapped(s, i)) = Len(s)
<1>1. s \in Seq(Field) /\ Len(s) \in Nat /\ i + 1 < Len(s) /\ s[Len(s)] = Comm
  BY DEF ListsOfFields, Last
<1> DEFINE t == Swapped(s, i)
<1>2. /\ t \in Seq(Field) /\ Len(t) = Len(s)
      /\ \A j \in 1 .. Len(s) : t[j] = IF j = i + 1 THEN s[i + 2] ELSE IF j = i + 2 THEN s[i + 1] ELSE s[j]
  BY <1>1, SwappedFacts
<1> HIDE DEF t
<1>3. Len(s) \in 1 .. Len(s) /\ Len(s) # i + 1 /\ Len(s) # i + 2
  BY <1>1
<1>4. t[Len(t)] = Comm /\ t # <<>>
  BY <1>1, <1>2, <1>3
<1>5. t \in ListsOfFields
  BY <1>2, <1>4 DEF ListsOfFields, Last
<1> QED
  BY <1>2, <1>5 DEF t

LEMMA ListsRemoved ==
  ASSUME NEW s \in ListsOfFields, NEW i \in Nat, i + 1 < Len(s)
  PROVE  RemoveAt(s, i + 1) \in ListsOfFields
<1>1. s \in Seq(Field) /\ Len(s) \in Nat /\ i + 1 \in 1 .. Len(s) /\ s[Len(s)] = Comm
  BY DEF ListsOfFields, Last
<1> DEFINE t == RemoveAt(s, i + 1)
<1>2. /\ t \in Seq(Field) /\ Len(t) = Len(s) - 1
      /\ \A j \in 1 .. Len(s) - 1 : t[j] = IF j < i + 1 THEN s[j] ELSE s[j + 1]
  BY <1>1, RemoveAtFacts
<1> HIDE DEF t
<1>3. /\ Len(s) - 1 \in 1 .. Len(s) - 1 /\ ~(Len(s) - 1 < i + 1) /\ (Len(s) - 1) + 1 = Len(s)
      /\ Len(s) - 1 > 0
  BY <1>1
<1>4. t[Len(t)] = Comm /\ t # <<>>
  BY <1>1, <1>2, <1>3
<1>5. t \in ListsOfFields
  BY <1>2, <1>4 DEF ListsOfFields, Last
<1> QED
  BY <1>5 DEF t

LEMMA ListsInserted ==
  ASSUME NEW s \in ListsOfFields, NEW f \in Field, NEW i \in Nat, i < Len(s)
  PROVE  /\ InsertedAt(s, i, f) \in ListsOfFields
         /\ InsertedAt(s, i, f) \in Seq(Field) /\ Len(InsertedAt(s, i, f)) >= Len(s)
<1>1. s \in Seq(Field) /\ Len(s) \in Nat /\ Last(s) = Comm
  BY DEF ListsOfFields
<1> DEFINE t == InsertedAt(s, i, f)
<1>2. t \in Seq(Field) /\ Len(t) = Len(s) + 1 /\ Last(t) = Last(s)
  BY <1>1, InsertedFacts
<1> HIDE DEF t
<1>3. t # <<>> /\ Len(t) >= Len(s)
  BY <1>1, <1>2
<1>4. t \in ListsOfFields
  BY <1>1, <1>2, <1>3 DEF ListsOfFields
<1> QED
  BY <1>2, <1>3, <1>4 DEF t

\* What a handler of ColumnsPanel starts from: the rows are the columns.
LEMMA OnColumns ==
  ASSUME IInv, screen = "setup", page = 3
  PROVE  /\ Columns \in RowsOver(Field) /\ Columns.rows = fields /\ Columns.rows \in ListsOfFields
         /\ Len(Columns.rows) \in Nat /\ LastRow \in Nat /\ Len(Columns.rows) = LastRow + 1
         /\ Columns.selected \in Nat /\ Columns.selected <= LastRow
         /\ Upper(LastRow, 0) = LastRow
<1>1. Columns \in RowsOver(Field) /\ Columns.rows = fields /\ fields \in ListsOfFields
  BY DEF IInv, Typed, PanelsFit, PageShown, Columns
<1>2. Columns.rows # <<>> /\ Columns.rows \in Seq(Field)
  BY <1>1 DEF ListsOfFields
<1>3. Len(Columns.rows) \in Nat /\ Len(Columns.rows) > 0
  BY <1>2
<1>4. Columns.selected \in Nat /\ Columns.selected + 1 \in 1 .. Len(Columns.rows)
  BY <1>1, <1>2, RowsFacts
<1>5. LastRow \in Nat /\ Len(Columns.rows) = LastRow + 1
  BY <1>3 DEF LastRow
<1> QED
  BY <1>1, <1>3, <1>4, <1>5 DEF Upper

LEMMA ColumnsSet ==
  ASSUME IInv, NEW p \in {"active", "available"}, Clicked(p), page = 3,
         NEW pn \in RowsOver(Field), pn.rows \in ListsOfFields, SetColumns(pn)
  PROVE  IInv'
<1>1. /\ panel' = [panel EXCEPT !["active"] = pn] /\ changed' = TRUE
      /\ fields' = panel'["active"].rows /\ UNCHANGED <<columns, header, category, page>>
  BY Zenon DEF SetColumns, ColumnsUpdate
<1>2. panel'["active"] = pn
  BY <1>1 DEF IInv, Typed, PanelsFit, Panels
<1>3. /\ screen = "setup" /\ focus' \in ToSet(PageOf(3))
      /\ UNCHANGED <<file, screen, starts, openings, configured>>
  BY ClickedFacts
<1>4. fields' = pn.rows
  BY <1>1, <1>2
<1> QED
  BY <1>1, <1>3, <1>4, FieldsEdited

LEMMA ColumnSelected ==
  ASSUME IInv, Clicked("active"), page = 3, NEW i \in Nat,
         panel' = [panel EXCEPT !["active"] = WithSelected(Columns, i)],
         UNCHANGED <<columns, fields, changed, header, category, page>>
  PROVE  IInv'
<1>1. screen = "setup" /\ focus' \in ToSet(PageOf(3)) /\ UNCHANGED <<file, screen, starts, openings, configured>>
  BY ClickedFacts
<1>2. Columns \in RowsOver(Field) /\ Columns.rows = fields /\ fields \in ListsOfFields
  BY <1>1, OnColumns
<1> DEFINE pn == WithSelected(Columns, i)
<1>3. pn \in RowsOver(Field) /\ pn.rows = fields
  BY <1>2, SelectedMade
<1> HIDE DEF pn
<1>4. panel' = [panel EXCEPT !["active"] = pn]
  BY DEF pn
<1> QED
  BY <1>1, <1>2, <1>3, <1>4, FieldsEdited

LEMMA ActiveFacts ==
  ASSUME IInv, Clicked("active")
  PROVE  screen = "setup" /\ page = 3
BY ClickedFacts, PageFacts

LEMMA SelectColumnFits ==
  ASSUME IInv, SelectColumn
  PROVE  IInv'
<1>1. Clicked("active")
  BY DEF SelectColumn, Key
<1>2. screen = "setup" /\ page = 3
  BY <1>1, ActiveFacts
<1>3. Columns \in RowsOver(Field) /\ Columns.rows \in ListsOfFields /\ LastRow \in Nat /\ Upper(LastRow, 0) = LastRow
  BY <1>2, OnColumns
<1>4. PICK i \in 0 .. LastRow :
        \/ SetColumns(WithSelected(Columns, i))
        \/ /\ panel' = [panel EXCEPT !["active"] = WithSelected(panel["active"], i)]
           /\ UNCHANGED <<settingVars, header, category, page>>
  BY <1>3, Zenon DEF SelectColumn
<1>5. i \in Nat
  BY <1>3
<1>6. WithSelected(Columns, i) \in RowsOver(Field) /\ WithSelected(Columns, i).rows \in ListsOfFields
  BY <1>3, <1>5, SelectedMade
<1>7. CASE SetColumns(WithSelected(Columns, i))
  BY <1>1, <1>2, <1>6, <1>7, ColumnsSet
<1>8. CASE /\ panel' = [panel EXCEPT !["active"] = WithSelected(panel["active"], i)]
           /\ UNCHANGED <<settingVars, header, category, page>>
  <2>1. panel' = [panel EXCEPT !["active"] = WithSelected(Columns, i)]
    BY <1>8 DEF Columns
  <2>2. UNCHANGED <<columns, fields, changed, header, category, page>>
    BY <1>8 DEF settingVars
  <2> QED
    BY <1>1, <1>2, <1>5, <2>1, <2>2, ColumnSelected
<1> QED
  BY <1>4, <1>7, <1>8

LEMMA ToggleMovingColumnFits ==
  ASSUME IInv, ToggleMovingColumn
  PROVE  IInv'
<1>1. Clicked("active")
  BY DEF ToggleMovingColumn
<1>2. screen = "setup" /\ page = 3
  BY <1>1, ActiveFacts
<1>3. Columns \in RowsOver(Field) /\ Columns.rows \in ListsOfFields /\ LastRow \in Nat /\ Upper(LastRow, 0) = LastRow
  BY <1>2, OnColumns
<1>4. PICK i \in 0 .. LastRow :
        IF i < LastRow
        THEN SetColumns([WithSelected(Columns, i) EXCEPT !.moving = ~@])
        ELSE /\ panel' = [panel EXCEPT !["active"] = WithSelected(@, i)]
             /\ UNCHANGED <<settingVars, header, category, page>>
  BY <1>3, Zenon DEF ToggleMovingColumn
<1>5. i \in Nat
  BY <1>3
<1> DEFINE new == WithSelected(Columns, i)
<1>6. new \in RowsOver(Field) /\ new.rows = Columns.rows
  BY <1>3, <1>5, SelectedMade
<1>7. CASE i < LastRow
  <2>1. SetColumns([new EXCEPT !.moving = ~new.moving])
    BY <1>4, <1>7, Zenon
  <2> HIDE DEF new
  <2>2. [new EXCEPT !.moving = ~new.moving] \in RowsOver(Field)
        /\ [new EXCEPT !.moving = ~new.moving].rows = Columns.rows
    BY <1>6, RowsFacts, MovingSet
  <2> QED
    BY <1>1, <1>2, <1>3, <2>1, <2>2, ColumnsSet
<1>8. CASE ~(i < LastRow)
  <2>1. panel' = [panel EXCEPT !["active"] = WithSelected(Columns, i)]
    BY <1>4, <1>8, Zenon DEF Columns
  <2>2. UNCHANGED <<columns, fields, changed, header, category, page>>
    BY <1>4, <1>8, Zenon DEF settingVars
  <2> QED
    BY <1>1, <1>2, <1>5, <2>1, <2>2, ColumnSelected
<1> QED
  BY <1>7, <1>8

LEMMA MoveColumnFits ==
  ASSUME IInv, MoveColumnUp \/ MoveColumnDown
  PROVE  IInv'
<1> DEFINE i == Columns.selected
<1>1. Clicked("active")
  BY DEF MoveColumnUp, MoveColumnDown, Key
<1>2. screen = "setup" /\ page = 3
  BY <1>1, ActiveFacts
<1>3. /\ Columns \in RowsOver(Field) /\ Columns.rows \in ListsOfFields /\ LastRow \in Nat
      /\ Len(Columns.rows) = LastRow + 1 /\ i \in Nat
  BY <1>2, OnColumns
<1>4. ASSUME NEW j \in Nat, j + 2 < Len(Columns.rows), NEW k \in {j, j + 1}
      PROVE  /\ WithMoved(Columns, Swapped(Columns.rows, j), k) \in RowsOver(Field)
             /\ WithMoved(Columns, Swapped(Columns.rows, j), k).rows \in ListsOfFields
  <2>1. Swapped(Columns.rows, j) \in ListsOfFields /\ Len(Swapped(Columns.rows, j)) = Len(Columns.rows)
    BY <1>3, <1>4, ListsSwapped
  <2>2. Swapped(Columns.rows, j) \in Seq(Field) /\ k \in Nat /\ k < Len(Swapped(Columns.rows, j))
    BY <1>3, <1>4, <2>1 DEF ListsOfFields
  <2> QED
    BY <1>3, <2>1, <2>2, RowsMoved
<1>5. CASE MoveColumnUp
  <2>1. SetColumns(IF 0 < i /\ i < LastRow
                   THEN WithMoved(Columns, Swapped(Columns.rows, i - 1), i - 1) ELSE Columns)
    BY <1>5, Zenon DEF MoveColumnUp
  <2>2. CASE 0 < i /\ i < LastRow
    <3>1. i - 1 \in Nat /\ (i - 1) + 2 < Len(Columns.rows)
      BY <1>3, <2>2
    <3>2. SetColumns(WithMoved(Columns, Swapped(Columns.rows, i - 1), i - 1))
      BY <2>1, <2>2, Zenon
    <3>3. /\ WithMoved(Columns, Swapped(Columns.rows, i - 1), i - 1) \in RowsOver(Field)
          /\ WithMoved(Columns, Swapped(Columns.rows, i - 1), i - 1).rows \in ListsOfFields
      BY <1>4, <3>1
    <3> QED
      BY <1>1, <1>2, <3>2, <3>3, ColumnsSet
  <2>3. CASE ~(0 < i /\ i < LastRow)
    <3>1. SetColumns(Columns)
      BY <2>1, <2>3, Zenon
    <3> QED
      BY <1>1, <1>2, <1>3, <3>1, ColumnsSet
  <2> QED
    BY <2>2, <2>3
<1>6. CASE MoveColumnDown
  <2>1. SetColumns(IF i < LastRow - 1
                   THEN WithMoved(Columns, Swapped(Columns.rows, i), i + 1) ELSE Columns)
    BY <1>6, Zenon DEF MoveColumnDown
  <2>2. CASE i < LastRow - 1
    <3>1. i + 2 < Len(Columns.rows)
      BY <1>3, <2>2
    <3>2. SetColumns(WithMoved(Columns, Swapped(Columns.rows, i), i + 1))
      BY <2>1, <2>2, Zenon
    <3>3. /\ WithMoved(Columns, Swapped(Columns.rows, i), i + 1) \in RowsOver(Field)
          /\ WithMoved(Columns, Swapped(Columns.rows, i), i + 1).rows \in ListsOfFields
      BY <1>3, <1>4, <3>1
    <3> QED
      BY <1>1, <1>2, <3>2, <3>3, ColumnsSet
  <2>3. CASE ~(i < LastRow - 1)
    <3>1. SetColumns(Columns)
      BY <2>1, <2>3, Zenon
    <3> QED
      BY <1>1, <1>2, <1>3, <3>1, ColumnsSet
  <2> QED
    BY <2>2, <2>3
<1> QED
  BY <1>5, <1>6

LEMMA DeleteColumnFits ==
  ASSUME IInv, DeleteColumn
  PROVE  IInv'
<1> DEFINE i == Columns.selected
<1>1. Clicked("active")
  BY DEF DeleteColumn, Key
<1>2. screen = "setup" /\ page = 3
  BY <1>1, ActiveFacts
<1>3. /\ Columns \in RowsOver(Field) /\ Columns.rows \in ListsOfFields /\ LastRow \in Nat
      /\ Len(Columns.rows) = LastRow + 1 /\ i \in Nat
  BY <1>2, OnColumns
<1>4. SetColumns(IF i < LastRow THEN Without(Columns, i) ELSE Columns)
  BY Zenon DEF DeleteColumn
<1>5. CASE i < LastRow
  <2>1. RemoveAt(Columns.rows, i + 1) \in ListsOfFields
    BY <1>3, <1>5, ListsRemoved
  <2>2. Columns.rows # <<>>
    BY <1>3 DEF ListsOfFields
  <2>3. Without(Columns, i) \in RowsOver(Field) /\ Without(Columns, i).rows = RemoveAt(Columns.rows, i + 1)
    BY <1>3, <2>2, RowTaken
  <2>4. SetColumns(Without(Columns, i))
    BY <1>4, <1>5, Zenon
  <2> QED
    BY <1>1, <1>2, <2>1, <2>3, <2>4, ColumnsSet
<1>6. CASE ~(i < LastRow)
  <2>1. SetColumns(Columns)
    BY <1>4, <1>6, Zenon
  <2> QED
    BY <1>1, <1>2, <1>3, <2>1, ColumnsSet
<1> QED
  BY <1>5, <1>6

LEMMA InsertColumnFits ==
  ASSUME IInv, InsertColumn
  PROVE  IInv'
<1> DEFINE i == Columns.selected
<1>1. Clicked("available") /\ page = 3
  BY DEF InsertColumn, Key
<1>2. screen = "setup"
  BY <1>1, ClickedFacts
<1>3. /\ Columns \in RowsOver(Field) /\ Columns.rows \in ListsOfFields /\ LastRow \in Nat
      /\ Len(Columns.rows) = LastRow + 1 /\ i \in Nat /\ i <= LastRow
  BY <1>1, <1>2, OnColumns
<1>4. PICK f \in Field :
        SetColumns(WithSelected(WithRows(Columns, InsertedAt(Columns.rows, i, f)), i + 1))
  BY Zenon DEF InsertColumn
<1> DEFINE rows == InsertedAt(Columns.rows, i, f)
           grown == WithRows(Columns, rows)
           new == WithSelected(grown, i + 1)
<1>5. i < Len(Columns.rows)
  BY <1>3
<1>6. rows \in ListsOfFields /\ rows \in Seq(Field) /\ Len(rows) >= Len(Columns.rows)
  BY <1>3, <1>5, ListsInserted
<1>7. SetColumns(new)
  BY <1>4, Zenon
<1> HIDE DEF rows
<1>8. grown \in RowsOver(Field) /\ grown.rows = rows
  BY <1>3, <1>6, RowsReplaced
<1> HIDE DEF grown
<1>9. i + 1 \in Nat
  BY <1>3
<1>10. new \in RowsOver(Field) /\ new.rows = rows
  BY <1>8, <1>9, SelectedMade
<1> HIDE DEF new
<1> QED
  BY <1>1, <1>6, <1>7, <1>10, ColumnsSet
-----------------------------------------------------------------------------
(* The theorems.                                                           *)

LEMMA StepFits == IInv /\ [Next]_vars => IInv'
<1> SUFFICES ASSUME IInv, [Next]_vars
             PROVE  IInv'
  OBVIOUS
<1>1. CASE Start \/ ChangeOption \/ Quit \/ QuitUnwritable \/ Killed
  BY <1>1, StartFits, ChangeOptionFits, EndFits
<1>2. CASE OpenSetup \/ CloseSetup \/ SelectCategory \/ TypeCategory \/ SetOption \/ MoveFocus
  BY <1>2, OpenSetupFits, CloseSetupFits, CategoryFits, SetOptionFits, MoveFocusFits
<1>3. ASSUME NEW side \in Sides,
             \/ SelectMeter(side) \/ ToggleMoving(side) \/ NextMode(side)
             \/ MoveMeterUp(side) \/ MoveMeterDown(side) \/ MoveAcross(side) \/ StayMoving(side)
             \/ DeleteMeter(side) \/ AddMeter(side)
      PROVE  IInv'
  <2>1. CASE StayMoving(side)
    BY <2>1, MetersUntouched DEF StayMoving
  <2> QED
    BY <1>3, <2>1, SelectMeterFits, ToggleMovingFits, NextModeFits, MoveMeterUpFits, MoveMeterDownFits,
       MoveAcrossFits, DeleteMeterFits, AddMeterFits
<1>4. CASE SelectColumn \/ ToggleMovingColumn \/ MoveColumnUp \/ MoveColumnDown \/ DeleteColumn \/ InsertColumn
  BY <1>4, SelectColumnFits, ToggleMovingColumnFits, MoveColumnFits, DeleteColumnFits, InsertColumnFits
<1>5. CASE UNCHANGED vars
  BY <1>5 DEF vars, IInv, Typed, PanelsFit, NoneLost, PageShown, UnchangedIsSaved
<1> QED
  BY <1>1, <1>2, <1>3, <1>4, <1>5 DEF Next

LEMMA AlwaysFits == Spec => []IInv
BY InitFits, StepFits, PTL DEF Spec

LEMMA FitsShows == IInv => SetupShowsSettings
<1> SUFFICES ASSUME IInv PROVE SetupShowsSettings
  OBVIOUS
<1>1. \A p \in DOMAIN panel : /\ panel[p].selected \in 0 .. Upper(Len(panel[p].rows) - 1, 0)
                              /\ panel[p].moving \in BOOLEAN
  BY RowsFacts DEF IInv, Typed, PanelsFit, Panels
<1>2. fields \in Seq(Field) /\ fields # <<>> /\ Last(fields) = Comm
  BY DEF IInv, Typed, ListsOfFields
<1>3. TypeOK
  BY <1>1, <1>2 DEF IInv, Typed, TypeOK
<1>4. RowsAreMeters
  BY <1>3 DEF IInv, PageShown, RowsAreMeters
<1>5. FieldsAreRows
  BY <1>2 DEF IInv, PageShown, FieldsAreRows, Columns
<1> QED
  BY <1>4, <1>5 DEF SetupShowsSettings

(* MetersPanel and ColumnsPanel show the settings that they change, at     *)
(* every moment, and the command stays the last column (MetersPanel.c,     *)
(* ColumnsPanel.c, AvailableMetersPanel.c, AvailableColumnsPanel.c).       *)
THEOREM SetupShowsTrue == Spec => []SetupShowsSettings
BY AlwaysFits, FitsShows, PTL

LEMMA QuitKeeps ==
  IInv /\ [Next]_vars =>
    (Quit /\ configured /\ MetersOf(header) # <<>> =>
       header = HeaderFor(file') /\ fields = FieldsIn(file'))
<1> SUFFICES ASSUME IInv, Quit, configured, MetersOf(header) # <<>>
             PROVE  header = HeaderFor(file') /\ fields = FieldsIn(file')
  OBVIOUS
<1> DEFINE f == [columns |-> columns, fields |-> fields]
<1>1. screen = "main" /\ changed /\ columns = header
  BY DEF Quit, IInv, NoneLost
<1>2. file' = f
  BY <1>1 DEF Quit
<1>3. f \in Settings
  BY DEF IInv, Typed, Settings, ListsOfFields
<1>4. f # NoFile /\ f.columns = header /\ f.fields = fields
  BY <1>1, <1>3, SetupAssumption
<1> HIDE DEF f
<1>5. MetersIn(f) = header /\ FieldsIn(f) = fields
  BY <1>4 DEF MetersIn, FieldsIn
<1>6. header \in [Sides -> Seq(Meter)]
  BY DEF IInv, Typed
<1>7. \A side \in Sides : Populated(header[side]) = header[side]
  <2>1. \A side \in Sides : header[side] \in Seq(Meter) /\ header[side] \in Seq(Entry)
    BY <1>6 DEF Entry
  <2> QED
    BY <2>1, PopulatedFacts
<1>8. HeaderFor(f) = header
  BY <1>5, <1>6, <1>7 DEF HeaderFor
<1> QED
  BY <1>2, <1>5, <1>8

(* The next start shows what the last end showed: what was changed is      *)
(* written and read back as it was, and what is not written was read       *)
(* (Settings_write, Settings_read, Header_writeBackToSettings,             *)
(* Header_populateFromSettings).                                           *)
THEOREM SettingsStaySaved == Spec => SettingsAreSaved
<1>1. IInv' => UnchangedIsSaved'
  BY DEF IInv
<1>2. Spec => [][UnchangedIsSaved']_vars
  BY <1>1, AlwaysFits, StepFits, PTL DEF Spec
<1>3. Spec => SetupIsSaved
  BY AlwaysFits, QuitKeeps, PTL DEF Spec, SetupIsSaved
<1> QED
  BY <1>2, <1>3 DEF SettingsAreSaved
-----------------------------------------------------------------------------
(* No meter is lost: an edit maps the places of a meter one to one to      *)
(* places of the same meter.                                               *)

LEMMA NotFewer ==
  ASSUME NEW A, NEW B, IsFiniteSet(B), NEW f \in [A -> B], \A a, b \in A : f[a] = f[b] => a = b
  PROVE  Cardinality(A) <= Cardinality(B)
<1>1. f \in Injection(A, B)
  BY DEF Injection, IsInjective
<1> QED
  BY <1>1, FS_Injection

LEMMA PlacesFacts ==
  ASSUME NEW s \in Seq(Meter), NEW t, NEW n
  PROVE  /\ PlacesOf(s, t, n) \subseteq 1 .. Len(s) /\ Len(s) \in Nat
         /\ \A i \in 1 .. Len(s) : i \in PlacesOf(s, t, n) <=> s[i].type = t /\ s[i].param = n
         /\ IsFiniteSet(PlacesOf(s, t, n)) /\ Cardinality(PlacesOf(s, t, n)) \in Nat
<1>1. Len(s) \in Nat /\ DOMAIN s = 1 .. Len(s)
  OBVIOUS
<1>2. PlacesOf(s, t, n) \subseteq 1 .. Len(s)
  BY <1>1 DEF PlacesOf
<1>3. \A i \in 1 .. Len(s) : i \in PlacesOf(s, t, n) <=> s[i].type = t /\ s[i].param = n
  BY <1>1 DEF PlacesOf
<1>4. 1 \in Int /\ Len(s) \in Int
  BY <1>1
<1>5. IsFiniteSet(PlacesOf(s, t, n))
  BY <1>2, <1>4, FS_Interval, FS_Subset
<1> QED
  BY <1>1, <1>2, <1>3, <1>5, FS_CardinalityType

LEMMA PlacesSwapped ==
  ASSUME NEW s \in Seq(Meter), NEW t, NEW n, NEW i \in Nat, i + 1 < Len(s)
  PROVE  Cardinality(PlacesOf(s, t, n)) <= Cardinality(PlacesOf(Swapped(s, i), t, n))
<1> DEFINE w == Swapped(s, i)
           A == PlacesOf(s, t, n)
           B == PlacesOf(w, t, n)
           f == [j \in A |-> IF j = i + 1 THEN i + 2 ELSE IF j = i + 2 THEN i + 1 ELSE j]
<1>1. /\ w \in Seq(Meter) /\ Len(w) = Len(s)
      /\ \A j \in 1 .. Len(s) : w[j] = IF j = i + 1 THEN s[i + 2] ELSE IF j = i + 2 THEN s[i + 1] ELSE s[j]
  BY SwappedFacts
<1> HIDE DEF w
<1>2. A \subseteq 1 .. Len(s) /\ Len(s) \in Nat /\ \A j \in 1 .. Len(s) : j \in A <=> s[j].type = t /\ s[j].param = n
  BY PlacesFacts
<1>3. IsFiniteSet(B) /\ \A j \in 1 .. Len(s) : j \in B <=> w[j].type = t /\ w[j].param = n
  BY <1>1, PlacesFacts
<1> HIDE DEF A, B
<1>4. ASSUME NEW j \in A
      PROVE  f[j] \in B
  <2>1. j \in 1 .. Len(s) /\ s[j].type = t /\ s[j].param = n
    BY <1>2
  <2>2. f[j] \in 1 .. Len(s)
    BY <1>2, <2>1
  <2>3. w[f[j]] = s[j]
    <3>1. CASE j = i + 1
      <4>1. f[j] = i + 2 /\ i + 2 \in 1 .. Len(s) /\ i + 2 # i + 1
        BY <1>2, <3>1
      <4> QED
        BY <1>1, <3>1, <4>1
    <3>2. CASE j = i + 2
      <4>1. f[j] = i + 1 /\ i + 1 \in 1 .. Len(s)
        BY <1>2, <3>2
      <4> QED
        BY <1>1, <3>2, <4>1
    <3>3. CASE j # i + 1 /\ j # i + 2
      BY <1>1, <2>1, <3>3
    <3> QED
      BY <3>1, <3>2, <3>3
  <2> HIDE DEF f
  <2> QED
    BY <1>3, <2>1, <2>2, <2>3
<1>5. f \in [A -> B]
  BY <1>4
<1>6. \A a, b \in A : f[a] = f[b] => a = b
  BY <1>2
<1> HIDE DEF f
<1>7. Cardinality(A) <= Cardinality(B)
  BY <1>3, <1>5, <1>6, NotFewer
<1> QED
  BY <1>7 DEF A, B, w

\* Without the i-th, there are those at other places.
LEMMA PlacesRemoved ==
  ASSUME NEW s \in Seq(Meter), NEW t, NEW n, NEW i \in 1 .. Len(s)
  PROVE  Cardinality(PlacesOf(s, t, n) \ {i}) <= Cardinality(PlacesOf(RemoveAt(s, i), t, n))
<1> DEFINE w == RemoveAt(s, i)
           A == PlacesOf(s, t, n) \ {i}
           B == PlacesOf(w, t, n)
           f == [j \in A |-> IF j < i THEN j ELSE j - 1]
<1>1. /\ w \in Seq(Meter) /\ Len(w) = Len(s) - 1
      /\ \A j \in 1 .. Len(s) - 1 : w[j] = IF j < i THEN s[j] ELSE s[j + 1]
  BY RemoveAtFacts
<1> HIDE DEF w
<1>2. /\ A \subseteq 1 .. Len(s) /\ Len(s) \in Nat /\ i \in Nat /\ i \notin A
      /\ \A j \in A : s[j].type = t /\ s[j].param = n
  BY PlacesFacts
<1>3. IsFiniteSet(B) /\ \A j \in 1 .. Len(s) - 1 : j \in B <=> w[j].type = t /\ w[j].param = n
  BY <1>1, PlacesFacts
<1> HIDE DEF A, B
<1>4. ASSUME NEW j \in A
      PROVE  f[j] \in B
  <2>1. j \in 1 .. Len(s) /\ s[j].type = t /\ s[j].param = n /\ j # i
    BY <1>2
  <2>2. f[j] \in 1 .. Len(s) - 1
    BY <1>2, <2>1
  <2>3. w[f[j]] = s[j]
    <3>1. CASE j < i
      BY <1>1, <1>2, <2>1, <2>2, <3>1
    <3>2. CASE ~(j < i)
      <4>1. f[j] = j - 1 /\ j - 1 \in 1 .. Len(s) - 1 /\ ~(j - 1 < i) /\ (j - 1) + 1 = j
        BY <1>2, <2>1, <3>2
      <4> QED
        BY <1>1, <4>1
    <3> QED
      BY <3>1, <3>2
  <2> HIDE DEF f
  <2> QED
    BY <1>3, <2>1, <2>2, <2>3
<1>5. f \in [A -> B]
  BY <1>4
<1>6. \A a, b \in A : f[a] = f[b] => a = b
  BY <1>2
<1> HIDE DEF f
<1>7. Cardinality(A) <= Cardinality(B)
  BY <1>3, <1>5, <1>6, NotFewer
<1> QED
  BY <1>7 DEF A, B, w

\* With another at i, there are those that were there and that one.
LEMMA PlacesInserted ==
  ASSUME NEW s \in Seq(Meter), NEW t, NEW n, NEW i \in 1 .. Len(s) + 1, NEW e \in Meter
  PROVE  /\ Cardinality(PlacesOf(s, t, n)) <= Cardinality(PlacesOf(InsertAt(s, i, e), t, n))
         /\ e.type = t /\ e.param = n =>
              Cardinality(PlacesOf(s, t, n)) + 1 <= Cardinality(PlacesOf(InsertAt(s, i, e), t, n))
<1> DEFINE w == InsertAt(s, i, e)
           A == PlacesOf(s, t, n)
           B == PlacesOf(w, t, n)
           C == B \ {i}
           f == [j \in A |-> IF j < i THEN j ELSE j + 1]
<1> HIDE DEF w
<1>1. /\ w \in Seq(Meter) /\ Len(w) = Len(s) + 1
      /\ \A j \in 1 .. Len(s) + 1 : w[j] = IF j < i THEN s[j] ELSE IF j = i THEN e ELSE s[j - 1]
  <2>1. /\ InsertAt(s, i, e) \in Seq(Meter) /\ Len(InsertAt(s, i, e)) = Len(s) + 1
        /\ \A j \in 1 .. Len(s) + 1 :
             InsertAt(s, i, e)[j] = IF j < i THEN s[j] ELSE IF j = i THEN e ELSE s[j - 1]
    BY InsertAtFacts, SMTT(30)
  <2> QED
    BY <2>1 DEF w
<1> HIDE DEF w
<1>2. /\ A \subseteq 1 .. Len(s) /\ Len(s) \in Nat /\ i \in Nat /\ Cardinality(A) \in Nat
      /\ \A j \in A : s[j].type = t /\ s[j].param = n
  BY PlacesFacts
<1>3. /\ IsFiniteSet(B) /\ Cardinality(B) \in Nat
      /\ \A j \in 1 .. Len(s) + 1 : j \in B <=> w[j].type = t /\ w[j].param = n
  <2>1. /\ IsFiniteSet(B) /\ Cardinality(B) \in Nat
        /\ \A j \in 1 .. Len(w) : j \in B <=> w[j].type = t /\ w[j].param = n
    <3>1. \A u \in Seq(Meter) :
            /\ IsFiniteSet(PlacesOf(u, t, n)) /\ Cardinality(PlacesOf(u, t, n)) \in Nat
            /\ \A j \in 1 .. Len(u) : j \in PlacesOf(u, t, n) <=> u[j].type = t /\ u[j].param = n
      BY PlacesFacts
    <3> QED
      BY <1>1, <3>1
  <2> HIDE DEF B
  <2> QED
    BY <1>1, <2>1
<1> HIDE DEF A, B
<1>4. ASSUME NEW j \in A
      PROVE  f[j] \in C
  <2>1. j \in 1 .. Len(s) /\ s[j].type = t /\ s[j].param = n
    BY <1>2
  <2>2. f[j] \in 1 .. Len(s) + 1 /\ f[j] # i
    BY <1>2, <2>1
  <2>3. w[f[j]] = s[j]
    <3>1. CASE j < i
      BY <1>1, <1>2, <2>1, <2>2, <3>1
    <3>2. CASE ~(j < i)
      <4>1. f[j] = j + 1 /\ j + 1 \in 1 .. Len(s) + 1 /\ ~(j + 1 < i) /\ j + 1 # i /\ (j + 1) - 1 = j
        BY <1>2, <2>1, <3>2
      <4> QED
        BY <1>1, <4>1
    <3> QED
      BY <3>1, <3>2
  <2> HIDE DEF f
  <2> QED
    BY <1>3, <2>1, <2>2, <2>3
<1>5. f \in [A -> C]
  BY <1>4
<1>6. \A a, b \in A : f[a] = f[b] => a = b
  BY <1>2
<1>7. /\ IsFiniteSet(C)
      /\ Cardinality(C) = IF i \in B THEN Cardinality(B) - 1 ELSE Cardinality(B)
  BY <1>3, FS_RemoveElement
<1> HIDE DEF f, C
<1>8. Cardinality(A) <= Cardinality(C)
  BY <1>5, <1>6, <1>7, NotFewer
<1>9. e.type = t /\ e.param = n => i \in B
  <2>1. w[i] = e
    BY <1>1, <1>2
  <2> QED
    BY <1>3, <2>1
<1>10. /\ Cardinality(A) <= Cardinality(B)
       /\ e.type = t /\ e.param = n => Cardinality(A) + 1 <= Cardinality(B)
  BY <1>2, <1>3, <1>7, <1>8, <1>9
<1> QED
  BY <1>10 DEF A, B, w

\* Of one side and of both.
LEMMA SideNotFewer ==
  ASSUME NEW h \in [Sides -> Seq(Meter)], NEW side \in Sides, NEW s \in Seq(Meter), NEW t, NEW n,
         Cardinality(PlacesOf(h[side], t, n)) <= Cardinality(PlacesOf(s, t, n))
  PROVE  Occurrences([h EXCEPT ![side] = s], t, n) >= Occurrences(h, t, n)
<1> DEFINE k == [h EXCEPT ![side] = s]
<1>1. \A q \in Sides : /\ Cardinality(PlacesOf(h[q], t, n)) \in Nat
                       /\ Cardinality(PlacesOf(k[q], t, n)) \in Nat
                       /\ Cardinality(PlacesOf(h[q], t, n)) <= Cardinality(PlacesOf(k[q], t, n))
  <2>1. \A q \in Sides : h[q] \in Seq(Meter)
    OBVIOUS
  <2>2. Cardinality(PlacesOf(s, t, n)) \in Nat /\ \A q \in Sides : Cardinality(PlacesOf(h[q], t, n)) \in Nat
    BY <2>1, PlacesFacts
  <2>3. k[side] = s /\ \A q \in Sides : q # side => k[q] = h[q]
    OBVIOUS
  <2> HIDE DEF k
  <2>4. ASSUME NEW q \in Sides
        PROVE  /\ Cardinality(PlacesOf(k[q], t, n)) \in Nat
               /\ Cardinality(PlacesOf(h[q], t, n)) <= Cardinality(PlacesOf(k[q], t, n))
    BY <2>2, <2>3
  <2> QED
    BY <2>2, <2>4
<1> HIDE DEF k
<1>2. Occurrences(k, t, n) >= Occurrences(h, t, n)
  BY <1>1 DEF Occurrences, Sides
<1> QED
  BY <1>2 DEF k

LEMMA SameMeters ==
  ASSUME IInv, header' = header, NEW t, NEW n
  PROVE  Occurrences(header', t, n) >= Occurrences(header, t, n)
<1>1. header["left"] \in Seq(Meter) /\ header["right"] \in Seq(Meter)
  BY DEF IInv, Typed, Sides
<1>2. Occurrences(header, t, n) \in Nat
  BY <1>1, PlacesFacts DEF Occurrences
<1> QED
  BY <1>2

LEMMA NextModeLosesNone ==
  ASSUME IInv, NEW side \in Sides, NextMode(side), NEW t, NEW n
  PROVE  Occurrences(header', t, n) >= Occurrences(header, t, n)
<1> DEFINE i == panel[side].selected
           m == InNextMode(header[side][i + 1])
           s == [header[side] EXCEPT ![i + 1] = m]
<1>1. MetersKey(side) /\ header[side] # <<>>
  BY DEF NextMode, MetersEdit
<1>2. header' = [header EXCEPT ![side] = s]
  BY Zenon DEF NextMode
<1>3. screen = "setup" /\ side \in ToSet(PageOf(page))
  BY <1>1, MetersKeyFacts
<1>4. header[side] \in Seq(Meter) /\ i + 1 \in 1 .. Len(header[side])
  BY <1>1, <1>3, OnMeters
<1>5. m.type = header[side][i + 1].type /\ m.param = header[side][i + 1].param /\ m \in Meter
  <2>1. header[side][i + 1] \in Meter
    BY <1>4
  <2>2. ASSUME NEW o \in Meter
        PROVE  InNextMode(o) \in Meter /\ InNextMode(o).type = o.type /\ InNextMode(o).param = o.param
    <3>1. (o.mode % Modes) + 1 \in 1 .. Modes
      BY SetupAssumption DEF Meter
    <3> QED
      BY <3>1 DEF Meter, InNextMode
  <2> QED
    BY <2>1, <2>2
<1> HIDE DEF m
<1>6. s \in Seq(Meter) /\ Len(s) = Len(header[side])
  BY <1>4, <1>5
<1>7. \A j \in 1 .. Len(header[side]) : s[j].type = header[side][j].type /\ s[j].param = header[side][j].param
  BY <1>4, <1>5
<1> HIDE DEF s
<1>8. PlacesOf(s, t, n) = PlacesOf(header[side], t, n)
  <2>1. \A j \in 1 .. Len(header[side]) : j \in PlacesOf(s, t, n) <=> j \in PlacesOf(header[side], t, n)
    BY <1>4, <1>6, <1>7, PlacesFacts
  <2>2. PlacesOf(s, t, n) \subseteq 1 .. Len(header[side]) /\ PlacesOf(header[side], t, n) \subseteq 1 .. Len(header[side])
    BY <1>4, <1>6, PlacesFacts
  <2> QED
    BY <2>1, <2>2
<1>9. Cardinality(PlacesOf(header[side], t, n)) <= Cardinality(PlacesOf(s, t, n))
  BY <1>4, <1>8, PlacesFacts
<1>10. header \in [Sides -> Seq(Meter)]
  BY DEF IInv, Typed
<1> QED
  BY <1>2, <1>6, <1>9, <1>10, SideNotFewer

LEMMA SwapLosesNone ==
  ASSUME IInv, NEW side \in Sides, NEW i \in Nat, i + 1 < Len(header[side]),
         header' = [header EXCEPT ![side] = Swapped(header[side], i)], NEW t, NEW n
  PROVE  Occurrences(header', t, n) >= Occurrences(header, t, n)
<1>1. header \in [Sides -> Seq(Meter)] /\ header[side] \in Seq(Meter)
  BY DEF IInv, Typed
<1>2. Swapped(header[side], i) \in Seq(Meter)
  BY <1>1, SwappedFacts
<1>3. Cardinality(PlacesOf(header[side], t, n)) <= Cardinality(PlacesOf(Swapped(header[side], i), t, n))
  BY <1>1, PlacesSwapped
<1> QED
  BY <1>1, <1>2, <1>3, SideNotFewer

LEMMA MoveMeterLosesNone ==
  ASSUME IInv, NEW side \in Sides, MoveMeterUp(side) \/ MoveMeterDown(side), NEW t, NEW n
  PROVE  Occurrences(header', t, n) >= Occurrences(header, t, n)
<1> DEFINE i == panel[side].selected
<1>1. MetersKey(side)
  BY DEF MoveMeterUp, MoveMeterDown, MetersEdit
<1>2. screen = "setup" /\ side \in ToSet(PageOf(page))
  BY <1>1, MetersKeyFacts
<1>3. /\ panel[side] \in RowsOver(Meter) /\ i \in Nat /\ Len(header[side]) \in Nat
      /\ panel[side].rows = header[side] /\ header[side] \in Seq(Meter)
  BY <1>2, OnMeters
<1>4. CASE header' = header
  BY <1>4, SameMeters
<1>5. CASE MoveMeterUp(side) /\ i > 0
  <2>1. header' = [header EXCEPT ![side] = Swapped(header[side], i - 1)]
    BY <1>5, Zenon DEF MoveMeterUp
  <2>2. i \in 0 .. Upper(Len(header[side]) - 1, 0)
    BY <1>3, RowsFacts
  <2>3. i - 1 \in Nat /\ (i - 1) + 1 < Len(header[side])
    BY <1>3, <1>5, <2>2 DEF Upper
  <2> QED
    BY <2>1, <2>3, SwapLosesNone
<1>6. CASE MoveMeterDown(side) /\ i + 1 < Len(header[side])
  <2>1. header' = [header EXCEPT ![side] = Swapped(header[side], i)]
    BY <1>6, Zenon DEF MoveMeterDown
  <2> QED
    BY <1>3, <1>6, <2>1, SwapLosesNone
<1>7. MoveMeterUp(side) /\ ~(i > 0) => header' = header
  BY Zenon DEF MoveMeterUp
<1>8. MoveMeterDown(side) /\ ~(i + 1 < Len(header[side])) => header' = header
  BY Zenon DEF MoveMeterDown
<1> QED
  BY <1>4, <1>5, <1>6, <1>7, <1>8

LEMMA MoveAcrossLosesNone ==
  ASSUME IInv, NEW side \in Sides, MoveAcross(side), NEW t, NEW n
  PROVE  Occurrences(header', t, n) >= Occurrences(header, t, n)
<1> DEFINE i == panel[side].selected
           to == Other(side)
           meter == header[side][i + 1]
           s == RemoveAt(header[side], i + 1)
           w == InsertedAt(header[to], i, meter)
           at == Lower(i, Len(header[to])) + 1
<1>1. screen = "setup" /\ page = 0 /\ i < Len(header[side])
  BY DEF MoveAcross
<1>2. header' = [header EXCEPT ![side] = s, ![to] = Arrived(@, i, meter)]
  BY Zenon DEF MoveAcross
<1>3. side \in ToSet(PageOf(page))
  BY <1>1, PageFacts DEF Sides
<1>4. /\ to \in Sides /\ side # to /\ \A q \in Sides : q = side \/ q = to
      /\ header[side] \in Seq(Meter) /\ header[to] \in Seq(Meter) /\ Len(header[to]) \in Nat /\ i \in Nat
  BY <1>1, <1>3, OnMeters
<1>5. i + 1 \in 1 .. Len(header[side]) /\ meter \in Meter /\ Len(header[side]) \in Nat
  BY <1>1, <1>4
<1>6. at \in 1 .. Len(header[to]) + 1
  BY <1>4 DEF Lower
<1> HIDE DEF at
<1>7. s \in Seq(Meter) /\ w \in Seq(Meter) /\ w = InsertAt(header[to], at, meter)
  <2>1. s \in Seq(Meter)
    BY <1>4, <1>5, RemoveAtFacts
  <2>2. w = InsertAt(header[to], at, meter)
    BY DEF InsertedAt, at
  <2>3. InsertAt(header[to], at, meter) \in Seq(Meter)
    BY <1>4, <1>5, <1>6, InsertAtFacts
  <2> QED
    BY <2>1, <2>2, <2>3
<1>8. header'[side] = s /\ header'[to] = w
  <2>1. header \in [Sides -> Seq(Meter)]
    BY DEF IInv, Typed
  <2>2. header' = [header EXCEPT ![side] = s, ![to] = w]
    BY <1>2, <1>4, <2>1 DEF Arrived
  <2> HIDE DEF s, w, to
  <2> QED
    BY <1>4, <2>1, <2>2
<1> DEFINE A == PlacesOf(header[side], t, n)
           B == PlacesOf(header[to], t, n)
           C == PlacesOf(s, t, n)
           D == PlacesOf(w, t, n)
<1>9. /\ Cardinality(A) \in Nat /\ Cardinality(B) \in Nat /\ Cardinality(C) \in Nat /\ Cardinality(D) \in Nat
      /\ IsFiniteSet(A) /\ (i + 1 \in A <=> meter.type = t /\ meter.param = n)
  <2> HIDE DEF s, w, to
  <2>1. /\ Cardinality(A) \in Nat /\ Cardinality(B) \in Nat /\ Cardinality(C) \in Nat
        /\ Cardinality(D) \in Nat /\ IsFiniteSet(A)
    BY <1>4, <1>7, PlacesFacts, Zenon
  <2>2. i + 1 \in A <=> header[side][i + 1].type = t /\ header[side][i + 1].param = n
    <3>1. \A u \in Seq(Meter) :
            \A j \in 1 .. Len(u) : j \in PlacesOf(u, t, n) <=> u[j].type = t /\ u[j].param = n
      BY PlacesFacts
    <3> QED
      BY <1>4, <1>5, <3>1, Zenon
  <2> QED
    BY <2>1, <2>2, Zenon
<1>10. Cardinality(A \ {i + 1}) = IF i + 1 \in A THEN Cardinality(A) - 1 ELSE Cardinality(A)
  BY <1>9, FS_RemoveElement
<1>11. Cardinality(A \ {i + 1}) <= Cardinality(C)
  BY <1>4, <1>5, PlacesRemoved
<1>12. /\ Cardinality(B) <= Cardinality(D)
       /\ meter.type = t /\ meter.param = n => Cardinality(B) + 1 <= Cardinality(D)
  <2> HIDE DEF meter, to, w
  <2> QED
    BY <1>4, <1>5, <1>6, <1>7, PlacesInserted
<1>13. /\ Cardinality(PlacesOf(header'[side], t, n)) = Cardinality(C)
       /\ Cardinality(PlacesOf(header'[to], t, n)) = Cardinality(D)
  BY <1>8
<1> HIDE DEF A, B, C, D, to, meter, s, w
<1>14. Cardinality(C) + Cardinality(D) >= Cardinality(A) + Cardinality(B)
  BY <1>9, <1>10, <1>11, <1>12
<1>15. CASE side = "left" /\ to = "right"
  BY <1>9, <1>13, <1>14, <1>15 DEF Occurrences, A, B
<1>16. CASE side = "right" /\ to = "left"
  BY <1>9, <1>13, <1>14, <1>16 DEF Occurrences, A, B
<1> QED
  BY <1>4, <1>15, <1>16 DEF Sides

LEMMA AddMeterLosesNone ==
  ASSUME IInv, NEW side \in Sides, AddMeter(side), NEW t, NEW n
  PROVE  Occurrences(header', t, n) >= Occurrences(header, t, n)
<1>1. PICK u \in Type : \E p \in Param[u] :
        header' = [header EXCEPT ![side] = Append(header[side], [type |-> u, param |-> p, mode |-> DefaultMode[u]])]
  BY Zenon DEF AddMeter
<1>2. PICK p \in Param[u] :
        header' = [header EXCEPT ![side] = Append(header[side], [type |-> u, param |-> p, mode |-> DefaultMode[u]])]
  BY <1>1, Zenon
<1> DEFINE m == [type |-> u, param |-> p, mode |-> DefaultMode[u]]
           s == Append(header[side], m)
<1>3. m \in Meter
  BY SetupAssumption DEF Meter
<1> HIDE DEF m
<1>4. header \in [Sides -> Seq(Meter)] /\ header[side] \in Seq(Meter)
  BY DEF IInv, Typed
<1>5. s \in Seq(Meter) /\ Len(s) = Len(header[side]) + 1 /\ \A j \in 1 .. Len(header[side]) : s[j] = header[side][j]
  BY <1>3, <1>4
<1> HIDE DEF s
<1>6. PlacesOf(header[side], t, n) \subseteq PlacesOf(s, t, n)
  <2>1. /\ PlacesOf(header[side], t, n) \subseteq 1 .. Len(header[side]) /\ Len(header[side]) \in Nat
        /\ \A j \in 1 .. Len(header[side]) :
             j \in PlacesOf(header[side], t, n) <=> header[side][j].type = t /\ header[side][j].param = n
    BY <1>4, PlacesFacts
  <2>2. \A j \in 1 .. Len(s) : j \in PlacesOf(s, t, n) <=> s[j].type = t /\ s[j].param = n
    BY <1>5, PlacesFacts
  <2>3. ASSUME NEW j \in PlacesOf(header[side], t, n)
        PROVE  j \in PlacesOf(s, t, n)
    <3>1. j \in 1 .. Len(header[side]) /\ j \in 1 .. Len(s)
      BY <1>5, <2>1
    <3> QED
      BY <1>5, <2>1, <2>2, <3>1
  <2> QED
    BY <2>3
<1>7. IsFiniteSet(PlacesOf(s, t, n))
  BY <1>5, PlacesFacts
<1>8. Cardinality(PlacesOf(header[side], t, n)) <= Cardinality(PlacesOf(s, t, n))
  BY <1>6, <1>7, FS_Subset
<1>9. header' = [header EXCEPT ![side] = s]
  BY <1>2 DEF s, m
<1> QED
  BY <1>4, <1>5, <1>8, <1>9, SideNotFewer

LEMMA StepLosesNone ==
  ASSUME IInv, [Next]_vars, screen' = "setup", ~(\E side \in Sides : DeleteMeter(side)), NEW t, NEW n
  PROVE  Occurrences(header', t, n) >= Occurrences(header, t, n)
<1>1. CASE Start \/ ChangeOption \/ Quit \/ QuitUnwritable \/ Killed \/ CloseSetup
  <2>1. CASE ChangeOption
    BY <2>1, SameMeters DEF ChangeOption
  <2>2. CASE Start \/ Quit \/ QuitUnwritable \/ Killed \/ CloseSetup
    BY <2>2 DEF Start, Quit, QuitUnwritable, Killed, CloseSetup, Off
  <2> QED
    BY <1>1, <2>1, <2>2
<1>2. CASE OpenSetup \/ SelectCategory \/ TypeCategory \/ SetOption \/ MoveFocus
  <2>1. header' = header
    BY <1>2 DEF OpenSetup, SelectCategory, TypeCategory, SetOption, MoveFocus
  <2> QED
    BY <2>1, SameMeters
<1>3. ASSUME NEW side \in Sides,
             \/ SelectMeter(side) \/ ToggleMoving(side) \/ NextMode(side)
             \/ MoveMeterUp(side) \/ MoveMeterDown(side) \/ MoveAcross(side) \/ StayMoving(side)
             \/ DeleteMeter(side) \/ AddMeter(side)
      PROVE  Occurrences(header', t, n) >= Occurrences(header, t, n)
  <2>1. CASE SelectMeter(side) \/ ToggleMoving(side) \/ StayMoving(side)
    <3>1. header' = header
      BY <2>1 DEF SelectMeter, ToggleMoving, StayMoving
    <3> QED
      BY <3>1, SameMeters
  <2> QED
    BY <1>3, <2>1, NextModeLosesNone, MoveMeterLosesNone, MoveAcrossLosesNone, AddMeterLosesNone
<1>4. CASE SelectColumn \/ ToggleMovingColumn \/ MoveColumnUp \/ MoveColumnDown \/ DeleteColumn \/ InsertColumn
  <2>1. \A pn : SetColumns(pn) => header' = header
    BY DEF SetColumns
  <2>2. header' = header
    BY <1>4, <2>1 DEF SelectColumn, ToggleMovingColumn, MoveColumnUp, MoveColumnDown, DeleteColumn, InsertColumn
  <2> QED
    BY <2>2, SameMeters
<1>5. CASE UNCHANGED vars
  BY <1>5, SameMeters DEF vars
<1> QED
  BY <1>1, <1>2, <1>3, <1>4, <1>5 DEF Next

(* While the setup screen is open only Del takes a meter away: one that is *)
(* moved, or crosses to the other column, or changes its mode, is there    *)
(* after it (MetersPanel_eventHandler, moveToNeighbor, AvailableMeters).   *)
THEOREM NoMeterLost == Spec => NoMeterIsLost
<1>1. IInv /\ [Next]_vars =>
        (screen' = "setup" /\ ~(\E side \in Sides : DeleteMeter(side)) =>
           \A m \in Meter : Occurrences(header', m.type, m.param) >= Occurrences(header, m.type, m.param))
  BY StepLosesNone
<1> QED
  BY <1>1, AlwaysFits, PTL DEF Spec, NoMeterIsLost
-----------------------------------------------------------------------------
(* The info screens.                                                       *)

(* What the list keeps. *)

Texts == Seq(Letter)
Bytes == Seq(Letter \cup {NL})
LineType == [value : Texts, pieces : SUBSET Texts]

Filter(i) == i.buffer["filter"]
Pass(t, i) == i.filtering => HasText(t, Filter(i))

ListTyped(l) ==
  /\ l \in [text : Seq(LineType), lines : Seq(Nat), rows : Seq(Nat), selected : Nat]
  /\ IsInjective(l.lines) /\ ToSet(l.lines) = 1 .. Len(l.text)

\* A line has pieces, and has the text of each.
PieceIn(line) == line.pieces # {} /\ \A t \in line.pieces : HasText(line.value, t)
PiecesIn(l) == \A id \in 1 .. Len(l.text) : PieceIn(l.text[id])

\* The elements of r are some of s, in the order of s.
Along(at, r, s) ==
  /\ at \in [1 .. Len(r) -> 1 .. Len(s)]
  /\ \A i, j \in 1 .. Len(r) : i < j => at[i] < at[j]
  /\ \A j \in 1 .. Len(r) : r[j] = s[at[j]]
InOrder(r, s) == \E at : Along(at, r, s)

RowPasses(l, i) == \A id \in ToSet(l.rows) : Pass(l.text[id].value, i)
Expected(line, i) == \E t \in line.pieces : Pass(t, i)
NoneMissing(l, i, old) == \A id \in 1 .. Len(l.text) : id > old /\ Expected(l.text[id], i) => id \in ToSet(l.rows)

ListOk(l, i, old) ==
  ListTyped(l) /\ PiecesIn(l) /\ InOrder(l.rows, l.lines) /\ RowPasses(l, i) /\ NoneMissing(l, i, old)

SelectedOk(l) == l.selected \in 0 .. (IF l.rows = <<>> THEN 0 ELSE Len(l.rows) - 1)

IncOk(i) ==
  /\ i \in [active : {"none", "search", "filter"}, buffer : [{"search", "filter"} -> Texts], filtering : BOOLEAN]
  /\ i.filtering = (Filter(i) # <<>>)

TraceType == [pipe : Bytes, stdio : Bytes, written : Nat, contLine : BOOLEAN, follow : BOOLEAN, tracing : BOOLEAN]
HistType == [taken : Bytes, dropped : BOOLEAN, old : Nat]

\* The lines of a trace are in the order they were made, and have the letters of bytes;
\* their line breaks too, but for the last line if it goes on.
Straight(l) == \A k \in 1 .. Len(l.lines) : l.lines[k] = k
Whole(l, bytes) == AllText(l, Len(l.lines)) = LettersOf(bytes)
Ended(l, goesOn) == IF goesOn THEN Len(l.lines) - 1 ELSE Len(l.lines)
BreaksShown(l, goesOn, bytes) == Breaks(bytes) \subseteq LineEnds(l, Ended(l, goesOn))

TraceOk ==
  /\ kind # "trace" => ~trace.contLine
  /\ trace.contLine => list.lines # <<>>
  /\ kind = "trace" =>
       /\ Straight(list) /\ Whole(list, hist.taken)
       /\ hist.dropped \/ BreaksShown(list, trace.contLine, hist.taken)

InfoInv ==
  /\ kind \in Kinds /\ open \in BOOLEAN /\ trace \in TraceType /\ hist \in HistType
  /\ IncOk(inc) /\ ListOk(list, inc, hist.old) /\ SelectedOk(list)
  /\ TraceOk

(* Texts. *)

LEMMA HasTextIs ==
  ASSUME NEW s \in Seq(Letter), NEW x \in Seq(Letter)
  PROVE  HasText(s, x) <=> \E i \in 0 .. Len(s) - Len(x) : \A k \in 1 .. Len(x) : s[i + k] = x[k]
<1> DEFINE m == Len(s)
           n == Len(x)
<1>1. m \in Nat /\ n \in Nat /\ \A k \in 1 .. m : s[k] \in Letter
  OBVIOUS
<1>2. ASSUME NEW i \in 0 .. m - n
      PROVE  SubSeq(s, i + 1, i + n) = x <=> \A k \in 1 .. n : s[i + k] = x[k]
  <2> DEFINE a == i + 1
             b == i + n
             r == SubSeq(s, a, b)
  <2>1. a \in Int /\ b \in Int /\ a .. b \subseteq 1 .. m /\ a - 1 = i /\ b - a + 1 = n /\ (a <= b \/ n = 0)
    BY <1>1
  <2>2. /\ r \in Seq(Letter) /\ Len(r) = (IF a <= b THEN b - a + 1 ELSE 0)
        /\ \A k \in 1 .. b - a + 1 : r[k] = s[a + k - 1]
    <3>1. \A k \in a .. b : s[k] \in Letter
      BY <1>1, <2>1
    <3> HIDE DEF a, b
    <3> QED
      BY <2>1, <3>1, SubSeqProperties
  <2>3. Len(r) = n /\ \A k \in 1 .. n : r[k] = s[i + k]
    <3> HIDE DEF r
    <3>1. ASSUME NEW k \in 1 .. n PROVE r[k] = s[i + k]
      <4>1. k \in 1 .. b - a + 1 /\ a + k - 1 = i + k
        BY <2>1
      <4> QED
        BY <2>2, <4>1
    <3>2. Len(r) = n
      <4> HIDE DEF a, b
      <4> QED
        BY <1>1, <2>1, <2>2
    <3> QED
      BY <3>1, <3>2
  <2> HIDE DEF r, m, n
  <2>4. (\A k \in 1 .. n : s[i + k] = x[k]) => r = x
    <3> SUFFICES ASSUME \A k \in 1 .. n : s[i + k] = x[k] PROVE r = x
      OBVIOUS
    <3>1. Len(r) = Len(x) /\ \A k \in 1 .. Len(r) : r[k] = x[k]
      BY <2>3 DEF n
    <3> QED
      BY <2>2, <3>1, SeqEqual
  <2> QED
    BY <2>3, <2>4 DEF r
<1> QED
  BY <1>2 DEF HasText

\* A text has itself, what one of its parts has, and what it had when it was shorter.
LEMMA HasTextFacts ==
  ASSUME NEW s \in Seq(Letter), NEW t \in Seq(Letter), NEW x \in Seq(Letter)
  PROVE  /\ HasText(s, s)
         /\ HasText(s, t) /\ HasText(t, x) => HasText(s, x)
         /\ HasText(s, x) => HasText(s \o t, x)
         /\ HasText(t, x) => HasText(s \o t, x)
<1> DEFINE a == Len(s)
           b == Len(t)
           c == Len(x)
           Is(u, v, i) == \A k \in 1 .. Len(v) : u[i + k] = v[k]
           r == s \o t
<1>1. a \in Nat /\ b \in Nat /\ c \in Nat
  OBVIOUS
<1>2. /\ r \in Seq(Letter) /\ Len(r) = a + b
      /\ \A k \in 1 .. a : r[k] = s[k]
      /\ \A k \in 1 .. b : r[a + k] = t[k]
  <2>1. /\ r \in Seq(Letter) /\ Len(r) = a + b
        /\ \A k \in 1 .. a + b : r[k] = IF k <= a THEN s[k] ELSE t[k - a]
    BY ConcatProperties
  <2> HIDE DEF r, a, b
  <2>2. \A k \in 1 .. a : r[k] = s[k]
    BY <1>1, <2>1
  <2>3. ASSUME NEW k \in 1 .. b PROVE r[a + k] = t[k]
    <3>1. a + k \in 1 .. a + b /\ ~(a + k <= a) /\ (a + k) - a = k
      BY <1>1
    <3> QED
      BY <2>1, <3>1
  <2> QED
    BY <2>1, <2>2, <2>3
<1> HIDE DEF r
<1>3. \A u, v \in Seq(Letter) : HasText(u, v) <=> \E i \in 0 .. Len(u) - Len(v) : Is(u, v, i)
  BY HasTextIs
<1>4. HasText(s, s)
  <2>1. Is(s, s, 0) /\ 0 \in 0 .. Len(s) - Len(s)
    BY <1>1
  <2> HIDE DEF Is
  <2> QED
    BY <1>3, <2>1
<1>5. ASSUME HasText(s, t), HasText(t, x) PROVE HasText(s, x)
  <2>1. PICK i \in 0 .. a - b : Is(s, t, i)
    BY <1>3, <1>5
  <2>2. PICK j \in 0 .. b - c : Is(t, x, j)
    BY <1>3, <1>5
  <2> DEFINE l == i + j
  <2>3. l \in 0 .. a - c
    BY <1>1, <2>1, <2>2
  <2>4. ASSUME NEW k \in 1 .. c PROVE s[l + k] = x[k]
    <3>1. j + k \in 1 .. b /\ i + (j + k) = l + k
      BY <1>1, <2>1, <2>2
    <3>2. s[i + (j + k)] = t[j + k]
      BY <2>1, <3>1
    <3>3. t[j + k] = x[k]
      BY <2>2
    <3> QED
      BY <3>1, <3>2, <3>3
  <2>5. Is(s, x, l)
    BY <2>4
  <2> HIDE DEF Is, l
  <2> QED
    BY <1>3, <2>3, <2>5
<1>6. ASSUME HasText(s, x) PROVE HasText(r, x)
  <2>1. PICK i \in 0 .. a - c : Is(s, x, i)
    BY <1>3, <1>6
  <2>2. i \in 0 .. (a + b) - c /\ \A k \in 1 .. c : i + k \in 1 .. a
    BY <1>1
  <2>3. Is(r, x, i)
    BY <1>2, <2>1, <2>2
  <2> HIDE DEF Is
  <2> QED
    BY <1>2, <1>3, <2>2, <2>3
<1>7. ASSUME HasText(t, x) PROVE HasText(r, x)
  <2>1. PICK i \in 0 .. b - c : Is(t, x, i)
    BY <1>3, <1>7
  <2> DEFINE l == a + i
  <2>2. l \in 0 .. (a + b) - c /\ \A k \in 1 .. c : i + k \in 1 .. b /\ l + k = a + (i + k)
    BY <1>1
  <2>3. Is(r, x, l)
    <3> SUFFICES ASSUME NEW k \in 1 .. c PROVE r[l + k] = x[k]
      OBVIOUS
    <3>1. r[a + (i + k)] = t[i + k]
      BY <1>2, <2>2
    <3> QED
      BY <2>1, <2>2, <3>1
  <2> HIDE DEF Is, l
  <2> QED
    BY <1>2, <1>3, <2>2, <2>3
<1> QED
  BY <1>4, <1>5, <1>6, <1>7 DEF r

(* Parts of a list. *)

LEMMA AppendedFacts ==
  ASSUME NEW T, NEW s \in Seq(T), NEW e \in T
  PROVE  /\ Append(s, e) \in Seq(T) /\ Len(Append(s, e)) = Len(s) + 1 /\ Len(s) \in Nat
         /\ \A k \in 1 .. Len(s) : Append(s, e)[k] = s[k]
         /\ Append(s, e)[Len(s) + 1] = e
         /\ \A x : x \in ToSet(Append(s, e)) <=> x \in ToSet(s) \/ x = e
<1>1. /\ Append(s, e) \in Seq(T) /\ Len(Append(s, e)) = Len(s) + 1 /\ Len(s) \in Nat
      /\ \A k \in 1 .. Len(s) : Append(s, e)[k] = s[k]
      /\ Append(s, e)[Len(s) + 1] = e
  BY AppendProperties
<1> DEFINE r == Append(s, e)
           n == Len(s)
<1>2. DOMAIN r = 1 .. n + 1 /\ DOMAIN s = 1 .. n
  BY <1>1
<1>3. ToSet(r) = {r[k] : k \in 1 .. n + 1} /\ ToSet(s) = {s[k] : k \in 1 .. n}
  BY <1>2 DEF ToSet
<1> HIDE DEF r
<1>4. n \in Nat /\ (\A k \in 1 .. n : r[k] = s[k]) /\ r[n + 1] = e
  BY <1>1 DEF r
<1>5. ASSUME NEW x PROVE x \in ToSet(r) <=> x \in ToSet(s) \/ x = e
  <2> HIDE DEF n
  <2>1. ASSUME x \in ToSet(r) PROVE x \in ToSet(s) \/ x = e
    <3>1. PICK k \in 1 .. n + 1 : x = r[k]
      BY <1>3, <2>1
    <3>2. k \in 1 .. n \/ k = n + 1
      BY <1>4
    <3> QED
      BY <1>3, <1>4, <3>1, <3>2
  <2>2. ASSUME x \in ToSet(s) PROVE x \in ToSet(r)
    <3>1. PICK k \in 1 .. n : x = s[k]
      BY <1>3, <2>2
    <3>2. k \in 1 .. n + 1
      BY <1>4
    <3> QED
      BY <1>3, <1>4, <3>1, <3>2
  <2>3. n + 1 \in 1 .. n + 1
    BY <1>4
  <2> QED
    BY <1>3, <1>4, <2>1, <2>2, <2>3
<1> QED
  BY <1>1, <1>5 DEF r

\* What is along a list in which nothing is twice is picked out of it.
LEMMA AlongIsKept ==
  ASSUME NEW s \in Seq(Nat), NEW r \in Seq(Nat), IsInjective(s), InOrder(r, s)
  PROVE  r = Kept(s, ToSet(r))
<1> DEFINE S == ToSet(r)
<1>1. PICK at : Along(at, r, s)
  BY DEF InOrder
<1>2. \A j \in 1 .. Len(r) : r[j] \in S
  BY SeqFacts
<1>3. \A i \in 1 .. Len(s) : s[i] \in S => \E j \in 1 .. Len(r) : r[j] = s[i]
  BY SeqFacts
<1>4. DOMAIN s = 1 .. Len(s)
  OBVIOUS
<1> HIDE DEF S
<1>7. ASSUME NEW i \in 1 .. Len(s), s[i] \in S PROVE \E j \in 1 .. Len(r) : at[j] = i
  <2>1. PICK j \in 1 .. Len(r) : r[j] = s[i]
    BY <1>3, <1>7
  <2>2. at[j] \in 1 .. Len(s) /\ s[at[j]] = s[i]
    BY <1>1, <2>1 DEF Along
  <2>3. at[j] = i
    BY <1>4, <2>2 DEF IsInjective
  <2> QED
    BY <2>3
<1>5. PickedTo(at, s, S, r, Len(s))
  BY <1>1, <1>2, <1>7 DEF PickedTo, Along
<1>6. r = Kept(s, S)
  BY <1>5, KeptIs
<1> QED
  BY <1>6 DEF S

\* What is picked out of a list is along it, and is all of it that is asked for.
LEMMA KeptAlong ==
  ASSUME NEW s \in Seq(Nat), NEW S
  PROVE  /\ Kept(s, S) \in Seq(Nat) /\ InOrder(Kept(s, S), s)
         /\ ToSet(Kept(s, S)) = ToSet(s) \cap S
<1> DEFINE r == Kept(s, S)
<1>1. r \in Seq(Nat) /\ \E at : PickedTo(at, s, S, r, Len(s))
  BY KeptFacts
<1> HIDE DEF r
<1>2. PICK at : PickedTo(at, s, S, r, Len(s))
  BY <1>1
<1>3. Along(at, r, s)
  BY <1>2 DEF PickedTo, Along
<1>4. ToSet(r) = {r[i] : i \in 1 .. Len(r)} /\ ToSet(s) = {s[i] : i \in 1 .. Len(s)}
  BY <1>1, SeqFacts
<1>5. ToSet(r) = ToSet(s) \cap S
  <2>1. ASSUME NEW x \in ToSet(r) PROVE x \in ToSet(s) \cap S
    <3>1. PICK j \in 1 .. Len(r) : x = r[j]
      BY <1>4, <2>1
    <3>2. at[j] \in 1 .. Len(s) /\ x = s[at[j]] /\ x \in S
      BY <1>2, <3>1 DEF PickedTo
    <3> QED
      BY <1>4, <3>2
  <2>2. ASSUME NEW x \in ToSet(s) \cap S PROVE x \in ToSet(r)
    <3>1. PICK i \in 1 .. Len(s) : x = s[i]
      BY <1>4, <2>2
    <3>2. PICK j \in 1 .. Len(r) : at[j] = i
      BY <1>2, <2>2, <3>1 DEF PickedTo
    <3>3. x = r[j]
      BY <1>2, <3>1, <3>2 DEF PickedTo
    <3> QED
      BY <1>4, <3>3
  <2> QED
    BY <2>1, <2>2
<1> QED
  BY <1>1, <1>3, <1>5 DEF r, InOrder

LEMMA AlongFacts ==
  ASSUME NEW s \in Seq(Nat), NEW r \in Seq(Nat), IsInjective(s), InOrder(r, s)
  PROVE  ToSet(r) \subseteq ToSet(s) /\ IsInjective(r)
<1>1. PICK at : Along(at, r, s)
  BY DEF InOrder
<1>2. ToSet(s) = {s[k] : k \in 1 .. Len(s)} /\ ToSet(r) = {r[k] : k \in 1 .. Len(r)}
  BY SeqFacts
<1>3. DOMAIN s = 1 .. Len(s) /\ DOMAIN r = 1 .. Len(r)
  OBVIOUS
<1>4. \A j \in 1 .. Len(r) : at[j] \in 1 .. Len(s) /\ r[j] = s[at[j]]
  BY <1>1 DEF Along
<1>5. ToSet(r) \subseteq ToSet(s)
  BY <1>2, <1>4
<1>6. ASSUME NEW i \in 1 .. Len(r), NEW j \in 1 .. Len(r), r[i] = r[j] PROVE i = j
  <2>1. at[i] = at[j]
    <3>1. at[i] \in DOMAIN s /\ at[j] \in DOMAIN s /\ s[at[i]] = s[at[j]]
      BY <1>3, <1>4, <1>6
    <3> QED
      BY <3>1, Zenon DEF IsInjective
  <2>2. ~(i < j) /\ ~(j < i)
    BY <1>1, <1>4, <2>1 DEF Along
  <2> QED
    BY <2>2
<1> QED
  BY <1>3, <1>5, <1>6 DEF IsInjective

LEMMA InOrderAppended ==
  ASSUME NEW s \in Seq(Nat), NEW r \in Seq(Nat), NEW e \in Nat, InOrder(r, s)
  PROVE  InOrder(r, Append(s, e)) /\ InOrder(Append(r, e), Append(s, e))
<1> DEFINE s1 == Append(s, e)
           r1 == Append(r, e)
           m == Len(s)
           n == Len(r)
<1>1. PICK at : Along(at, r, s)
  BY DEF InOrder
<1>2. Len(s1) = m + 1 /\ m \in Nat /\ (\A k \in 1 .. m : s1[k] = s[k]) /\ s1[m + 1] = e
  BY AppendedFacts
<1>3. Len(r1) = n + 1 /\ n \in Nat /\ (\A k \in 1 .. n : r1[k] = r[k]) /\ r1[n + 1] = e
  BY AppendedFacts
<1>4. /\ at \in [1 .. n -> 1 .. m]
      /\ \A i, j \in 1 .. n : i < j => at[i] < at[j]
      /\ \A j \in 1 .. n : r[j] = s[at[j]]
  BY <1>1 DEF Along
<1> HIDE DEF s1, r1, m, n
<1>5. Along(at, r, s1)
  <2>1. at \in [1 .. n -> 1 .. m + 1]
    BY <1>2, <1>4
  <2> QED
    BY <1>2, <1>4, <2>1 DEF Along, n
<1>6. InOrder(r1, s1)
  <2> DEFINE to == [j \in 1 .. n + 1 |-> IF j <= n THEN at[j] ELSE m + 1]
  <2>1. to \in [1 .. n + 1 -> 1 .. m + 1]
    BY <1>2, <1>3, <1>4
  <2>2. (\A j \in 1 .. n : to[j] = at[j]) /\ to[n + 1] = m + 1
    BY <1>3
  <2> HIDE DEF to
  <2>3. ASSUME NEW i \in 1 .. n + 1, NEW j \in 1 .. n + 1, i < j PROVE to[i] < to[j]
    <3>1. i \in 1 .. n /\ (j \in 1 .. n \/ j = n + 1)
      BY <1>3, <2>3
    <3>2. at[i] \in 1 .. m
      BY <1>4, <3>1
    <3> QED
      BY <1>2, <1>4, <2>2, <2>3, <3>1, <3>2
  <2>4. ASSUME NEW j \in 1 .. n + 1 PROVE r1[j] = s1[to[j]]
    <3>1. j \in 1 .. n \/ j = n + 1
      BY <1>3
    <3>2. j \in 1 .. n => at[j] \in 1 .. m
      BY <1>4
    <3> QED
      BY <1>2, <1>3, <1>4, <2>2, <3>1, <3>2
  <2>5. Along(to, r1, s1)
    BY <1>2, <1>3, <2>1, <2>3, <2>4 DEF Along
  <2> QED
    BY <2>5 DEF InOrder
<1> QED
  BY <1>5, <1>6 DEF InOrder, s1, r1

\* The last of a list can be appended to what is along it, unless it is there.
LEMMA InOrderLast ==
  ASSUME NEW s \in Seq(Nat), NEW r \in Seq(Nat), s # <<>>, IsInjective(s), InOrder(r, s),
         r = <<>> \/ Last(r) # Last(s)
  PROVE  InOrder(Append(r, Last(s)), s) /\ Last(s) \notin ToSet(r)
<1> DEFINE m == Len(s)
           n == Len(r)
           e == s[m]
           r1 == Append(r, e)
<1>1. PICK at : Along(at, r, s)
  BY DEF InOrder
<1>2. m \in Nat \ {0} /\ n \in Nat /\ e \in Nat /\ Last(s) = e /\ (r = <<>> => n = 0) /\ (r # <<>> => Last(r) = r[n] /\ n \in Nat \ {0})
  BY DEF Last
<1>3. Len(r1) = n + 1 /\ (\A k \in 1 .. n : r1[k] = r[k]) /\ r1[n + 1] = e
  BY <1>2, AppendedFacts
<1>4. /\ at \in [1 .. n -> 1 .. m]
      /\ \A i, j \in 1 .. n : i < j => at[i] < at[j]
      /\ \A j \in 1 .. n : r[j] = s[at[j]]
  BY <1>1 DEF Along
<1>5. DOMAIN s = 1 .. m
  OBVIOUS
<1>6. ToSet(r) = {r[i] : i \in 1 .. n}
  BY SeqFacts
<1> HIDE DEF r1, m, n
<1>7. ASSUME NEW j \in 1 .. n PROVE at[j] \in 1 .. m - 1
  <2>1. at[j] \in 1 .. m /\ at[n] \in 1 .. m /\ n \in 1 .. n
    BY <1>2, <1>4
  <2>2. at[n] # m
    <3>1. r[n] # e
      BY <1>2
    <3> QED
      BY <1>4, <2>1, <3>1
  <2>3. j = n \/ (j < n /\ at[j] < at[n])
    BY <1>2, <1>4, <2>1
  <2> QED
    BY <1>2, <2>1, <2>2, <2>3
<1>8. e \notin ToSet(r)
  <2> SUFFICES ASSUME NEW j \in 1 .. n, r[j] = e PROVE FALSE
    BY <1>6
  <2>1. at[j] \in 1 .. m - 1 /\ m \in 1 .. m
    BY <1>2, <1>7
  <2>2. s[at[j]] = s[m] /\ at[j] \in 1 .. m
    BY <1>2, <1>4, <2>1
  <2>3. at[j] = m
    BY <1>5, <2>1, <2>2 DEF IsInjective
  <2> QED
    BY <1>2, <2>1, <2>3
<1>9. InOrder(r1, s)
  <2> DEFINE to == [j \in 1 .. n + 1 |-> IF j <= n THEN at[j] ELSE m]
  <2>1. to \in [1 .. n + 1 -> 1 .. m]
    BY <1>2, <1>4
  <2>2. (\A j \in 1 .. n : to[j] = at[j]) /\ to[n + 1] = m
    BY <1>2
  <2> HIDE DEF to
  <2>3. ASSUME NEW i \in 1 .. n + 1, NEW j \in 1 .. n + 1, i < j PROVE to[i] < to[j]
    <3>1. i \in 1 .. n /\ (j \in 1 .. n \/ j = n + 1)
      BY <1>2, <2>3
    <3>2. at[i] \in 1 .. m - 1 /\ to[i] = at[i]
      BY <1>7, <2>2, <3>1
    <3>3. CASE j \in 1 .. n
      <4>1. at[i] < at[j] /\ to[j] = at[j]
        BY <1>4, <2>2, <2>3, <3>1, <3>3
      <4> QED
        BY <3>2, <4>1
    <3>4. CASE j = n + 1
      <4>1. to[j] = m
        BY <2>2, <3>4
      <4> QED
        BY <1>2, <3>2, <4>1
    <3> QED
      BY <3>1, <3>3, <3>4
  <2>4. ASSUME NEW j \in 1 .. n + 1 PROVE r1[j] = s[to[j]]
    <3>1. j \in 1 .. n \/ j = n + 1
      BY <1>2
    <3> QED
      BY <1>3, <1>4, <2>2, <3>1 DEF m
  <2>5. Along(to, r1, s)
    BY <1>3, <2>1, <2>3, <2>4 DEF Along, m
  <2> QED
    BY <2>5 DEF InOrder
<1> QED
  BY <1>2, <1>8, <1>9 DEF r1, m

(* Lines. *)

LEMMA PassFacts ==
  ASSUME NEW i, IncOk(i), NEW s \in Texts, NEW t \in Texts
  PROVE  /\ Filter(i) \in Texts
         /\ Pass(t, i) /\ HasText(s, t) => Pass(s, i)
<1>1. Filter(i) \in Texts
  BY DEF IncOk, Filter
<1> DEFINE x == Filter(i)
<1> HIDE DEF x
<1>2. HasText(s, t) /\ HasText(t, x) => HasText(s, x)
  BY <1>1, HasTextFacts DEF Texts, x
<1> QED
  BY <1>1, <1>2 DEF Pass, x

LEMMA LineFacts ==
  ASSUME NEW i, IncOk(i), NEW t \in Texts
  PROVE  /\ Line(t) \in LineType /\ PieceIn(Line(t)) /\ Line(t).value = t
         /\ Expected(Line(t), i) <=> Pass(t, i)
<1>1. Line(t) \in LineType /\ Line(t).value = t /\ Line(t).pieces = {t}
  BY DEF Line, LineType
<1>2. HasText(t, t)
  BY HasTextFacts DEF Texts
<1> QED
  BY <1>1, <1>2 DEF PieceIn, Expected

LEMMA LongerFacts ==
  ASSUME NEW i, IncOk(i), NEW t \in Texts, NEW line \in LineType, PieceIn(line)
  PROVE  /\ Longer(line, t) \in LineType /\ PieceIn(Longer(line, t))
         /\ Longer(line, t).value = line.value \o t
         /\ Expected(Longer(line, t), i) <=> Expected(line, i) \/ Pass(t, i)
         /\ Pass(line.value, i) \/ Pass(t, i) => Pass(Longer(line, t).value, i)
<1> DEFINE v == line.value
           ps == line.pieces
           w == v \o t
           new == Longer(line, t)
<1>1. v \in Texts /\ ps \in SUBSET Texts /\ ps # {} /\ \A p \in ps : HasText(v, p)
  BY DEF LineType, PieceIn
<1>2. w \in Texts
  BY <1>1 DEF Texts
<1>3. new = [value |-> w, pieces |-> ps \cup {t}]
  BY DEF Longer
<1> HIDE DEF v, ps, w, new
<1>4. new \in LineType /\ new.value = w /\ new.pieces = ps \cup {t}
  BY <1>1, <1>2, <1>3 DEF LineType
<1>5. ASSUME NEW p \in ps \cup {t} PROVE HasText(w, p)
  <2>1. CASE p \in ps
    <3>1. HasText(v, p) /\ p \in Texts
      BY <1>1, <2>1
    <3> QED
      BY <1>1, <3>1, HasTextFacts DEF Texts, w
  <2>2. CASE p = t
    <3>1. HasText(t, t)
      BY HasTextFacts DEF Texts
    <3> QED
      BY <1>1, <2>2, <3>1, HasTextFacts DEF Texts, w
  <2> QED
    BY <2>1, <2>2
<1>6. HasText(w, v) /\ HasText(w, t)
  BY <1>1, HasTextFacts DEF Texts, w
<1>7. (Pass(v, i) => Pass(w, i)) /\ (Pass(t, i) => Pass(w, i))
  BY <1>1, <1>2, <1>6, PassFacts
<1>8. PieceIn(new)
  BY <1>4, <1>5 DEF PieceIn
<1>9. Expected(new, i) <=> Expected(line, i) \/ Pass(t, i)
  BY <1>4 DEF Expected, ps
<1>10. Pass(v, i) \/ Pass(t, i) => Pass(new.value, i)
  BY <1>4, <1>7
<1> QED
  BY <1>4, <1>8, <1>9, <1>10 DEF new, v, w

(* What the list is after each of its operations. *)

LEMMA ListFields ==
  ASSUME NEW l, ListTyped(l)
  PROVE  /\ l.text \in Seq(LineType) /\ l.lines \in Seq(Nat) /\ l.rows \in Seq(Nat) /\ l.selected \in Nat
         /\ Len(l.text) \in Nat /\ Len(l.lines) = Len(l.text)
         /\ IsInjective(l.lines) /\ ToSet(l.lines) = 1 .. Len(l.text)
<1> DEFINE n == Len(l.text)
           s == l.lines
<1>1. l.text \in Seq(LineType) /\ s \in Seq(Nat) /\ l.rows \in Seq(Nat) /\ l.selected \in Nat
  BY DEF ListTyped
<1>2. IsInjective(s) /\ ToSet(s) = 1 .. n
  BY DEF ListTyped
<1>3. n \in Nat
  BY <1>1
<1> HIDE DEF s, n
<1>4. IsFiniteSet(ToSet(s)) /\ Cardinality(ToSet(s)) = Len(s)
  BY <1>1, <1>2, LenIsCard
<1> DEFINE o == 1
<1> HIDE DEF o
<1>6. o \in Int /\ n \in Int
  BY <1>3 DEF o
<1>7. Cardinality(o .. n) = IF o > n THEN 0 ELSE n - o + 1
  BY <1>6, FS_Interval
<1>5. Cardinality(1 .. n) = n
  BY <1>3, <1>7 DEF o
<1> QED
  BY <1>1, <1>2, <1>3, <1>4, <1>5 DEF s, n

LEMMA AddLineFields ==
  ASSUME NEW l, ListTyped(l), NEW t \in Texts
  PROVE  /\ AddLine(l, t) \in [text : Seq(LineType), lines : Seq(Nat), rows : Seq(Nat), selected : Nat]
         /\ AddLine(l, t).text = Append(l.text, Line(t))
         /\ AddLine(l, t).lines = Append(l.lines, Len(l.text) + 1)
         /\ AddLine(l, t).rows = IF Pass(t, inc) THEN Append(l.rows, Len(l.text) + 1) ELSE l.rows
         /\ AddLine(l, t).selected = l.selected
<1> DEFINE id == Len(l.text) + 1
           p == Pass(t, inc)
<1>1. Passes(t) <=> p
  BY DEF Passes, Pass, Filter
<1>2. Line(t) \in LineType
  BY DEF Line, LineType
<1>3. l \in [text : Seq(LineType), lines : Seq(Nat), rows : Seq(Nat), selected : Nat] /\ id \in Nat
  BY ListFields DEF ListTyped
<1>4. AddLine(l, t) = [l EXCEPT !.text = Append(@, Line(t)), !.lines = Append(@, id),
                                !.rows = IF p THEN Append(@, id) ELSE @]
  BY <1>1 DEF AddLine
<1> HIDE DEF id, p
<1>5. /\ Append(l.text, Line(t)) \in Seq(LineType) /\ Append(l.lines, id) \in Seq(Nat)
      /\ Append(l.rows, id) \in Seq(Nat)
  BY <1>2, <1>3
<1> DEFINE q == AddLine(l, t)
<1>6. /\ q.text = Append(l.text, Line(t)) /\ q.lines = Append(l.lines, id)
      /\ q.rows = (IF p THEN Append(l.rows, id) ELSE l.rows) /\ q.selected = l.selected
  BY <1>3, <1>4
<1>7. q \in [text : Seq(LineType), lines : Seq(Nat), rows : Seq(Nat), selected : Nat]
  BY <1>3, <1>4, <1>5
<1> QED
  BY <1>6, <1>7 DEF id, p

LEMMA AddLineFits ==
  ASSUME NEW l, NEW old \in Nat, IncOk(inc), ListOk(l, inc, old), NEW t \in Texts
  PROVE  ListOk(AddLine(l, t), inc, old)
<1> DEFINE n == Len(l.text)
           id == n + 1
           q == AddLine(l, t)
           x == l.text
           y == l.lines
           z == l.rows
<1>1. ListTyped(l) /\ PiecesIn(l) /\ InOrder(z, y) /\ RowPasses(l, inc) /\ NoneMissing(l, inc, old)
  BY DEF ListOk
<1>2. x \in Seq(LineType) /\ y \in Seq(Nat) /\ z \in Seq(Nat) /\ n \in Nat /\ Len(y) = n /\ IsInjective(y)
  BY <1>1, ListFields
<1>21. y \in Seq(Nat) /\ z \in Seq(Nat)
  BY <1>2
<1>20. ToSet(y) = 1 .. n
  BY <1>1, ListFields
<1>3. /\ q \in [text : Seq(LineType), lines : Seq(Nat), rows : Seq(Nat), selected : Nat]
      /\ q.text = Append(x, Line(t)) /\ q.lines = Append(y, id)
      /\ q.rows = IF Pass(t, inc) THEN Append(z, id) ELSE z
  BY <1>1, AddLineFields
<1>4. Line(t) \in LineType /\ PieceIn(Line(t)) /\ Line(t).value = t /\ (Expected(Line(t), inc) <=> Pass(t, inc))
  BY LineFacts
<1>6. id \in Nat /\ id = n + 1 /\ n = Len(x) /\ (1 .. n) \cup {id} = 1 .. id /\ n < id
  BY <1>2
<1>22. id \in Nat
  BY <1>6
<1> HIDE DEF q, x, y, z, n, id
<1>5. /\ Len(q.text) = id /\ (\A k \in 1 .. n : q.text[k] = x[k]) /\ q.text[id] = Line(t)
  <2>1. /\ Len(Append(x, Line(t))) = n + 1 /\ (\A k \in 1 .. n : Append(x, Line(t))[k] = x[k])
        /\ Append(x, Line(t))[n + 1] = Line(t)
    BY <1>2, <1>4, <1>6, AppendedFacts
  <2> QED
    BY <1>3, <1>6, <2>1
<1>7. Len(q.lines) = id /\ (\A k \in 1 .. n : q.lines[k] = y[k]) /\ q.lines[id] = id /\ (\A k : k \in ToSet(q.lines) <=> k \in ToSet(y) \/ k = id)
  <2> DEFINE w == Append(y, id)
  <2>1. /\ Len(w) = Len(y) + 1 /\ (\A k \in 1 .. Len(y) : w[k] = y[k])
        /\ w[Len(y) + 1] = id /\ (\A k : k \in ToSet(w) <=> k \in ToSet(y) \/ k = id)
    BY <1>21, <1>22, AppendedFacts
  <2> HIDE DEF w
  <2>2. q.lines = w /\ Len(y) = n
    BY <1>2, <1>3 DEF w
  <2> QED
    BY <1>6, <2>1, <2>2
<1>8. \A k : k \in ToSet(q.rows) <=> k \in ToSet(z) \/ (k = id /\ Pass(t, inc))
  <2>1. \A k : k \in ToSet(Append(z, id)) <=> k \in ToSet(z) \/ k = id
    BY <1>21, <1>22, AppendedFacts
  <2> QED
    BY <1>3, <2>1
<1>9. ToSet(z) \subseteq 1 .. n
  <2>1. PICK at : Along(at, z, y)
    BY <1>1 DEF InOrder
  <2>2. ToSet(z) = {z[j] : j \in 1 .. Len(z)} /\ ToSet(y) = {y[j] : j \in 1 .. Len(y)}
    BY <1>2, SeqFacts
  <2>3. \A j \in 1 .. n : y[j] \in ToSet(y)
    BY <1>2, <2>2
  <2>4. \A j \in 1 .. Len(z) : z[j] \in ToSet(y)
    BY <1>2, <2>1, <2>3 DEF Along
  <2> QED
    BY <1>20, <2>2, <2>4
<1>10. ListTyped(q)
  <2>1. DOMAIN q.lines = 1 .. id /\ DOMAIN y = 1 .. n
    BY <1>2, <1>3, <1>7
  <2>2. \A k \in 1 .. n : y[k] \in 1 .. n
    <3>1. ToSet(y) = {y[j] : j \in 1 .. n}
      BY <1>2, SeqFacts
    <3>2. \A k \in 1 .. n : y[k] \in ToSet(y)
      BY <3>1
    <3> QED
      BY <1>20, <3>2
  <2>3. IsInjective(q.lines)
    <3> SUFFICES ASSUME NEW a \in 1 .. id, NEW b \in 1 .. id, q.lines[a] = q.lines[b] PROVE a = b
      BY <2>1 DEF IsInjective
    <3>1. (a \in 1 .. n \/ a = id) /\ (b \in 1 .. n \/ b = id)
      BY <1>2, <1>6
    <3>2. \A k \in 1 .. n : q.lines[k] # id
      <4> TAKE k \in 1 .. n
      <4>1. y[k] \in 1 .. n /\ q.lines[k] = y[k]
        BY <1>7, <2>2
      <4>2. id \notin 1 .. n
        BY <1>2, <1>6
      <4> QED
        BY <4>1, <4>2
    <3>3. CASE a \in 1 .. n /\ b \in 1 .. n
      BY <1>2, <1>7, <2>1, <3>3 DEF IsInjective
    <3> QED
      BY <1>7, <3>1, <3>2, <3>3
  <2>4. (1 .. n) \cup {id} = 1 .. id
    BY <1>6
  <2>5. ToSet(q.lines) = 1 .. id
    BY <1>7, <1>20, <2>4
  <2> QED
    BY <1>3, <1>5, <2>3, <2>5 DEF ListTyped
<1>11. PiecesIn(q)
  <2>1. \A k \in 1 .. id : k \in 1 .. n \/ k = id
    BY <1>2, <1>6
  <2> QED
    BY <1>1, <1>4, <1>5, <2>1 DEF PiecesIn, x, n
<1>12. InOrder(q.rows, q.lines)
  <2>1. InOrder(z, Append(y, id)) /\ InOrder(Append(z, id), Append(y, id))
    BY <1>1, <1>2, <1>6, InOrderAppended
  <2> QED
    BY <1>3, <2>1
<1>13. RowPasses(q, inc)
  <2> SUFFICES ASSUME NEW k \in ToSet(q.rows) PROVE Pass(q.text[k].value, inc)
    BY DEF RowPasses
  <2>1. CASE k \in ToSet(z)
    <3>1. k \in 1 .. n
      BY <1>9, <2>1
    <3> QED
      BY <1>1, <1>5, <2>1, <3>1 DEF RowPasses, z, x
  <2>2. CASE k = id /\ Pass(t, inc)
    BY <1>4, <1>5, <2>2
  <2> QED
    BY <1>8, <2>1, <2>2
<1>14. NoneMissing(q, inc, old)
  <2> SUFFICES ASSUME NEW k \in 1 .. id, k > old, Expected(q.text[k], inc) PROVE k \in ToSet(q.rows)
    BY <1>5 DEF NoneMissing
  <2>1. CASE k \in 1 .. n
    <3>1. k \in ToSet(z)
      BY <1>1, <1>5, <2>1 DEF NoneMissing, z, x, n
    <3> QED
      BY <1>8, <3>1
  <2>2. CASE k = id
    BY <1>4, <1>5, <1>8, <2>2
  <2>3. k \in 1 .. n \/ k = id
    BY <1>2, <1>6
  <2> QED
    BY <2>1, <2>2, <2>3
<1>15. ListOk(q, inc, old)
  BY <1>10, <1>11, <1>12, <1>13, <1>14 DEF ListOk
<1> QED
  BY <1>15 DEF q

LEMMA LastFacts ==
  ASSUME NEW l, ListTyped(l), l.lines # <<>>
  PROVE  /\ Last(l.lines) \in 1 .. Len(l.text) /\ Last(l.lines) = l.lines[Len(l.text)]
         /\ Last(l.lines) \in Nat /\ Len(l.text) \in 1 .. Len(l.text)
<1> DEFINE y == l.lines
           n == Len(l.text)
<1>1. y \in Seq(Nat) /\ n \in Nat /\ Len(y) = n
  BY ListFields
<1>2. ToSet(y) = 1 .. n
  BY ListFields
<1> HIDE DEF y, n
<1>3. n \in 1 .. n /\ Last(y) = y[n]
  BY <1>1 DEF Last, y
<1>4. ToSet(y) = {y[j] : j \in 1 .. n}
  BY <1>1, SeqFacts
<1>5. y[n] \in ToSet(y)
  BY <1>3, <1>4
<1> QED
  BY <1>2, <1>3, <1>5 DEF y, n

LEMMA AppendLineFields ==
  ASSUME NEW l, ListTyped(l), PiecesIn(l), l.lines # <<>>, IncOk(inc), NEW t \in Texts
  PROVE  /\ AppendLine(l, t) \in [text : Seq(LineType), lines : Seq(Nat), rows : Seq(Nat), selected : Nat]
         /\ AppendLine(l, t).text = [l.text EXCEPT ![Last(l.lines)] = Longer(l.text[Last(l.lines)], t)]
         /\ AppendLine(l, t).lines = l.lines
         /\ AppendLine(l, t).rows =
              IF inc.filtering /\ (l.rows = <<>> \/ Last(l.rows) # Last(l.lines)) /\ Pass(t, inc)
              THEN Append(l.rows, Last(l.lines)) ELSE l.rows
         /\ AppendLine(l, t).selected = l.selected
<1> DEFINE e == Last(l.lines)
           x == l.text
           q == AppendLine(l, t)
           new == inc.filtering /\ (l.rows = <<>> \/ Last(l.rows) # e) /\ Pass(t, inc)
           lg == Longer(x[e], t)
<1>1. Passes(t) <=> Pass(t, inc)
  BY DEF Passes, Pass, Filter
<1>2. e \in 1 .. Len(x) /\ e \in Nat
  BY LastFacts
<1>3. l \in [text : Seq(LineType), lines : Seq(Nat), rows : Seq(Nat), selected : Nat]
  BY DEF ListTyped
<1>4. x \in Seq(LineType)
  BY <1>3
<1>5. lg \in LineType
  <2>1. x[e] \in LineType /\ PieceIn(x[e])
    BY <1>2, <1>4 DEF PiecesIn
  <2> QED
    BY <2>1, LongerFacts
<1>6. q = [l EXCEPT !.text[e] = Longer(@, t), !.rows = IF new THEN Append(@, e) ELSE @]
  BY <1>1 DEF AppendLine
<1> DEFINE y == [x EXCEPT ![e] = lg]
<1>7. y \in Seq(LineType)
  BY <1>2, <1>4, <1>5
<1>8. q = [l EXCEPT !.text = y, !.rows = IF new THEN Append(@, e) ELSE @]
  BY <1>6
<1> HIDE DEF e, x, y, new, q, lg
<1>9. Append(l.rows, e) \in Seq(Nat)
  BY <1>2, <1>3
<1>10. q \in [text : Seq(LineType), lines : Seq(Nat), rows : Seq(Nat), selected : Nat]
  BY <1>3, <1>7, <1>8, <1>9
<1>11. q.text = y /\ q.lines = l.lines /\ q.rows = (IF new THEN Append(l.rows, e) ELSE l.rows) /\ q.selected = l.selected
  BY <1>3, <1>8
<1> QED
  BY <1>10, <1>11 DEF e, x, y, new, q, lg

LEMMA AppendLineFits ==
  ASSUME NEW l, NEW old \in Nat, IncOk(inc), ListOk(l, inc, old), l.lines # <<>>, NEW t \in Texts
  PROVE  ListOk(AppendLine(l, t), inc, old)
<1> DEFINE e == Last(l.lines)
           n == Len(l.text)
           q == AppendLine(l, t)
           x == l.text
           y == l.lines
           z == l.rows
           new == inc.filtering /\ (z = <<>> \/ Last(z) # e) /\ Pass(t, inc)
           lg == Longer(x[e], t)
<1>1. ListTyped(l) /\ PiecesIn(l) /\ InOrder(z, y) /\ RowPasses(l, inc) /\ NoneMissing(l, inc, old)
  BY DEF ListOk
<1>2. x \in Seq(LineType) /\ y \in Seq(Nat) /\ z \in Seq(Nat) /\ n \in Nat /\ IsInjective(y) /\ y # <<>>
  BY <1>1, ListFields
<1>3. /\ q \in [text : Seq(LineType), lines : Seq(Nat), rows : Seq(Nat), selected : Nat]
      /\ q.text = [x EXCEPT ![e] = lg] /\ q.lines = y
      /\ q.rows = IF new THEN Append(z, e) ELSE z
  BY <1>1, AppendLineFields
<1>4. e \in 1 .. n /\ e \in Nat
  BY <1>1, LastFacts
<1>5. /\ PieceIn(lg) /\ (Expected(lg, inc) <=> Expected(x[e], inc) \/ Pass(t, inc))
      /\ (Pass(x[e].value, inc) \/ Pass(t, inc) => Pass(lg.value, inc))
      /\ (\E p \in x[e].pieces : TRUE)
  <2>1. x[e] \in LineType /\ PieceIn(x[e])
    BY <1>1, <1>2, <1>4 DEF PiecesIn
  <2>2. x[e].pieces # {}
    BY <2>1 DEF PieceIn
  <2> QED
    BY <2>1, <2>2, LongerFacts
<1>6. Len(q.text) = n /\ \A k \in 1 .. n : q.text[k] = IF k = e THEN lg ELSE x[k]
  <2>1. DOMAIN x = 1 .. n
    BY <1>2
  <2>2. DOMAIN q.text = 1 .. Len(q.text) /\ Len(q.text) \in Nat
    BY <1>3
  <2> HIDE DEF n, e, lg
  <2>3. DOMAIN q.text = 1 .. n
    BY <1>3, <2>1
  <2>4. Len(q.text) = n
    BY <1>2, <2>2, <2>3
  <2> QED
    BY <1>3, <2>1, <2>4
<1> HIDE DEF q, x, y, z, new, lg, n
<1>7. /\ (z = <<>> \/ Last(z) # e) => InOrder(Append(z, e), y)
  BY <1>1, <1>2, InOrderLast DEF y
<1> HIDE DEF e
<1>8. \A k : k \in ToSet(q.rows) <=> k \in ToSet(z) \/ (k = e /\ new)
  <2>1. z \in Seq(Nat)
    BY <1>2
  <2>2. e \in Nat
    BY <1>4
  <2>3. \A k : k \in ToSet(Append(z, e)) <=> k \in ToSet(z) \/ k = e
    BY <2>1, <2>2, AppendedFacts
  <2> QED
    BY <1>3, <2>3
<1>9. Last(z) = e /\ z # <<>> => e \in ToSet(z)
  <2> SUFFICES ASSUME Last(z) = e, z # <<>> PROVE e \in ToSet(z)
    OBVIOUS
  <2>1. Len(z) \in 1 .. Len(z) /\ Last(z) = z[Len(z)]
    BY <1>2 DEF Last
  <2>2. ToSet(z) = {z[j] : j \in 1 .. Len(z)}
    <3>1. z \in Seq(Nat)
      BY <1>2
    <3> QED
      BY <3>1, SeqFacts
  <2> QED
    BY <2>1, <2>2
<1>10. ASSUME NEW k \in ToSet(z) PROVE k \in 1 .. n
  <2>1. PICK at : Along(at, z, y)
    BY <1>1 DEF InOrder
  <2>2. ToSet(z) = {z[j] : j \in 1 .. Len(z)} /\ ToSet(y) = {y[j] : j \in 1 .. Len(y)}
    <3>1. z \in Seq(Nat) /\ y \in Seq(Nat)
      BY <1>2
    <3> QED
      BY <3>1, SeqFacts
  <2>3. PICK j \in 1 .. Len(z) : k = z[j]
    BY <2>2
  <2>4. k \in ToSet(y)
    BY <2>1, <2>2, <2>3 DEF Along
  <2>5. ToSet(y) = 1 .. n
    BY <1>1, ListFields DEF y, n
  <2> QED
    BY <2>4, <2>5
<1>11. ListTyped(q)
  <2>1. IsInjective(y) /\ ToSet(y) = 1 .. n
    BY <1>1, ListFields DEF y, n
  <2> QED
    BY <1>3, <1>6, <2>1 DEF ListTyped
<1>12. PiecesIn(q)
  <2> SUFFICES ASSUME NEW k \in 1 .. n PROVE PieceIn(q.text[k])
    BY <1>6 DEF PiecesIn
  <2>1. PieceIn(x[k])
    BY <1>1 DEF PiecesIn, x, n
  <2> QED
    BY <1>5, <1>6, <2>1
<1>13. InOrder(q.rows, q.lines)
  BY <1>1, <1>3, <1>7 DEF new
<1>14. RowPasses(q, inc)
  <2> SUFFICES ASSUME NEW k \in ToSet(q.rows) PROVE Pass(q.text[k].value, inc)
    BY DEF RowPasses
  <2>1. CASE k \in ToSet(z)
    <3>1. k \in 1 .. n
      BY <1>10, <2>1
    <3>2. Pass(x[k].value, inc)
      BY <1>1, <2>1 DEF RowPasses, z, x
    <3> QED
      BY <1>5, <1>6, <3>1, <3>2
  <2>2. CASE k = e /\ new
    BY <1>4, <1>5, <1>6, <2>2 DEF new
  <2> QED
    BY <1>8, <2>1, <2>2
<1>15. NoneMissing(q, inc, old)
  <2> SUFFICES ASSUME NEW k \in 1 .. n, k > old, Expected(q.text[k], inc) PROVE k \in ToSet(q.rows)
    BY <1>6 DEF NoneMissing
  <2>1. Expected(x[k], inc) => k \in ToSet(z)
    BY <1>1 DEF NoneMissing, z, x, n
  <2>2. CASE k = e /\ ~Expected(x[k], inc)
    <3>1. Pass(t, inc)
      BY <1>5, <1>6, <2>2
    <3>2. inc.filtering
      BY <1>5, <2>2 DEF Expected, Pass
    <3> QED
      BY <1>8, <1>9, <2>2, <3>1, <3>2 DEF new
  <2>3. CASE k # e
    BY <1>6, <1>8, <2>1, <2>3
  <2> QED
    BY <1>8, <2>1, <2>2, <2>3
<1>16. ListOk(q, inc, old)
  BY <1>11, <1>12, <1>13, <1>14, <1>15 DEF ListOk
<1> QED
  BY <1>16 DEF q

(* A snapshot. *)

LEMMA AddLinesFits ==
  ASSUME NEW l, NEW old \in Nat, IncOk(inc), ListOk(l, inc, old), NEW found \in Seq(Texts)
  PROVE  ListOk(AddLines(l, found), inc, old)
<1> DEFINE n == Len(found)
           Eq(g) == g = [k \in 0 .. n |-> IF k = 0 THEN l ELSE AddLine(g[k - 1], found[k])]
           cur == CHOOSE g : Eq(g)
           S == {q \in [text : Seq(LineType), lines : Seq(Nat), rows : Seq(Nat), selected : Nat] : ListOk(q, inc, old)}
           F == [k \in 1 .. n |-> [q \in S |-> AddLine(q, found[k])]]
<1>1. n \in Nat /\ \A k \in 1 .. n : found[k] \in Texts
  OBVIOUS
<1>2. AddLines(l, found) = cur[n]
  BY Zenon DEF AddLines
<1>3. \A q : q \in S <=> ListOk(q, inc, old)
  BY DEF ListOk, ListTyped
<1>4. ASSUME NEW k \in 1 .. n, NEW q \in S PROVE AddLine(q, found[k]) \in S
  <2> DEFINE t == found[k]
  <2>1. t \in Texts
    BY <1>1
  <2> HIDE DEF t, S
  <2>2. ListOk(AddLine(q, t), inc, old)
    BY <1>3, <2>1, AddLineFits
  <2> QED
    BY <1>3, <2>2 DEF t
<1> HIDE DEF S, n
<1>5. F \in [1 .. n -> [S -> S]]
  BY <1>4
<1>6. l \in S
  BY <1>3
<1> HIDE DEF F
<1>7. PICK f : IsLoop(f, l, F, S, n)
  BY <1>1, <1>5, <1>6, LoopRuns
<1>8. f \in [0 .. n -> S] /\ f[0] = l /\ \A k \in 1 .. n : f[k] = AddLine(f[k - 1], found[k])
  <2>1. f \in [0 .. n -> S] /\ f[0] = l /\ \A k \in 1 .. n : f[k] = F[k][f[k - 1]]
    BY <1>7 DEF IsLoop
  <2>2. ASSUME NEW k \in 1 .. n PROVE f[k] = AddLine(f[k - 1], found[k])
    <3>1. k - 1 \in 0 .. n
      BY <1>1
    <3>2. f[k - 1] \in S
      BY <2>1, <3>1
    <3> QED
      BY <2>1, <3>2 DEF F
  <2> QED
    BY <2>1, <2>2
<1>9. Eq(f)
  <2>1. f = [k \in 0 .. n |-> f[k]]
    BY <1>8
  <2>2. \A k \in 0 .. n : f[k] = IF k = 0 THEN l ELSE AddLine(f[k - 1], found[k])
    BY <1>1, <1>8
  <2> QED
    BY <2>1, <2>2, Zenon
<1> HIDE DEF Eq
<1>10. Eq(cur)
  BY <1>9
<1> HIDE DEF cur
<1>11. /\ cur[0] = l
       /\ \A k \in 1 .. n : cur[k] = AddLine(cur[k - 1], found[k])
  BY <1>1, <1>10 DEF Eq
<1> DEFINE P == {k \in 0 .. n : cur[k] \in S}
<1>12. 0 \in P
  BY <1>1, <1>6, <1>11
<1>13. ASSUME NEW k \in 1 .. n, k - 1 \in P PROVE k \in P
  BY <1>4, <1>11, <1>13
<1>14. n \in P
  <2> HIDE DEF P
  <2>1. n \in 0 .. n
    BY <1>1
  <2> QED
    BY <1>1, <1>12, <1>13, <2>1, EachTurn
<1>15. cur[n] \in S
  BY <1>14
<1> QED
  BY <1>2, <1>3, <1>15

\* At the first place where two texts differ one is less, or at an end.
LEMMA LessFacts ==
  ASSUME NEW s \in Texts, NEW t \in Texts, Less(s, t)
  PROVE  \E n \in 1 .. Len(t) : /\ n <= Len(s) + 1 /\ (n <= Len(s) => s[n] < t[n])
                               /\ \A k \in 1 .. n - 1 : s[k] = t[k]
<1>1. Len(s) \in Nat /\ Len(t) \in Nat /\ s \in Seq(Letter) /\ t \in Seq(Letter)
  BY DEF Texts
<1>2. CASE s # t /\ IsPrefix(s, t)
  <2>1. PICK u : IsPrefix(s, t) /\ Len(s) <= Len(t) /\ SubSeq(s, 1, Len(s)) = SubSeq(t, 1, Len(s))
    BY <1>2 DEF IsPrefix
  <2>2. s = SubSeq(t, 1, Len(s))
    BY <1>1, <2>1
  <2> DEFINE n == Len(s) + 1
  <2>3. \A k \in 1 .. Len(s) : s[k] = t[k]
    <3> DEFINE m == Len(s)
               r == SubSeq(t, 1, m)
    <3>1. \A k \in 1 .. m : r[k] = t[k]
      BY <1>1, <2>1
    <3> QED
      BY <2>2, <3>1
  <2>4. Len(s) # Len(t)
    <3> SUFFICES ASSUME Len(s) = Len(t) PROVE FALSE
      OBVIOUS
    <3>1. s = t
      BY <1>1, <2>3, SeqEqual
    <3> QED
      BY <1>2, <3>1
  <2>5. n \in 1 .. Len(t) /\ n <= Len(s) + 1 /\ ~(n <= Len(s))
    BY <1>1, <2>1, <2>4
  <2> QED
    BY <1>1, <2>3, <2>5
<1>3. CASE \E n \in 1 .. Len(s) : /\ n <= Len(t) /\ s[n] < t[n]
                                  /\ SubSeq(s, 1, n - 1) = SubSeq(t, 1, n - 1)
  <2>1. PICK n \in 1 .. Len(s) : /\ n <= Len(t) /\ s[n] < t[n]
                                /\ SubSeq(s, 1, n - 1) = SubSeq(t, 1, n - 1)
    BY <1>3
  <2>2. n \in 1 .. Len(t) /\ n <= Len(s) + 1
    BY <1>1, <2>1
  <2>3. ASSUME NEW k \in 1 .. n - 1 PROVE s[k] = t[k]
    <3> DEFINE m == n - 1
               r == SubSeq(s, 1, m)
               q == SubSeq(t, 1, m)
    <3>1. \A i \in 1 .. m : r[i] = s[i]
      BY <1>1, <2>1
    <3>2. \A i \in 1 .. m : q[i] = t[i]
      BY <1>1, <2>1
    <3> HIDE DEF r, q
    <3>3. r = q
      BY <2>1 DEF r, q
    <3> QED
      BY <3>1, <3>2, <3>3
  <2> QED
    BY <2>1, <2>2, <2>3
<1> QED
  BY <1>2, <1>3 DEF Less

LEMMA LessIsOneWay ==
  ASSUME NEW s \in Texts, NEW t \in Texts
  PROVE  ~(Less(s, t) /\ Less(t, s)) /\ ~Less(s, s)
<1> DEFINE First(u, v, n) == /\ n \in 1 .. Len(v) /\ n <= Len(u) + 1 /\ (n <= Len(u) => u[n] < v[n])
                            /\ \A k \in 1 .. n - 1 : u[k] = v[k]
<1>1. \A u, v \in Texts : Less(u, v) => \E n : First(u, v, n)
  BY LessFacts
<1>2. \A u \in Texts : Len(u) \in Nat /\ \A k \in 1 .. Len(u) : u[k] \in Nat
  <2> SUFFICES ASSUME NEW u \in Texts PROVE Len(u) \in Nat /\ \A k \in 1 .. Len(u) : u[k] \in Nat
    OBVIOUS
  <2>1. Len(u) \in Nat /\ \A k \in 1 .. Len(u) : u[k] \in Letter
    BY DEF Texts
  <2> QED
    BY <2>1, InfoScreenAssumption
<1>3. ASSUME NEW u \in Texts, NEW v \in Texts, NEW n, NEW m, First(u, v, n), First(v, u, m)
      PROVE  FALSE
  <2>1. n \in 1 .. Len(v) /\ m \in 1 .. Len(u) /\ Len(u) \in Nat /\ Len(v) \in Nat /\ n \in Nat /\ m \in Nat
    BY <1>2, <1>3
  <2>2. CASE n = m
    <3>1. u[n] < v[n] /\ v[n] < u[n]
      BY <1>3, <2>1, <2>2
    <3>2. u[n] \in Nat /\ v[n] \in Nat
      BY <1>2, <2>1, <2>2
    <3> QED
      BY <3>1, <3>2
  <2>3. CASE n < m
    <3>1. n \in 1 .. m - 1 /\ n <= Len(u)
      BY <2>1, <2>3
    <3>2. u[n] < v[n] /\ v[n] = u[n]
      BY <1>3, <3>1
    <3>3. u[n] \in Nat
      BY <1>2, <2>1, <3>1
    <3> QED
      BY <3>2, <3>3
  <2>4. CASE m < n
    <3>1. m \in 1 .. n - 1 /\ m <= Len(v)
      BY <2>1, <2>4
    <3>2. v[m] < u[m] /\ u[m] = v[m]
      BY <1>3, <3>1
    <3>3. u[m] \in Nat
      BY <1>2, <2>1
    <3> QED
      BY <3>2, <3>3
  <2> QED
    BY <2>1, <2>2, <2>3, <2>4
<1> HIDE DEF First
<1> QED
  BY <1>1, <1>3

LEMMA BeforeIsOneWay ==
  ASSUME NEW text \in Seq(LineType), NEW a \in 1 .. Len(text), NEW b \in 1 .. Len(text)
  PROVE  ~(Before(text, a, b) /\ Before(text, b, a)) /\ ~Before(text, a, a)
<1>1. text[a].value \in Texts /\ text[b].value \in Texts
  <2>1. text[a] \in LineType /\ text[b] \in LineType
    OBVIOUS
  <2> QED
    BY <2>1 DEF LineType
<1> DEFINE s == text[a].value
           t == text[b].value
<1> HIDE DEF s, t
<1>2. ~(Less(s, t) /\ Less(t, s)) /\ ~Less(s, s) /\ ~Less(t, t)
  BY <1>1, LessIsOneWay DEF s, t
<1>3. Before(text, a, b) <=> Less(s, t) \/ (s = t /\ a < b)
  BY DEF Before, s, t
<1>4. Before(text, b, a) <=> Less(t, s) \/ (t = s /\ b < a)
  BY DEF Before, s, t
<1>5. Before(text, a, a) <=> Less(s, s) \/ a < a
  BY DEF Before, s
<1>6. ~(a < a) /\ ~(a < b /\ b < a)
  OBVIOUS
<1> QED
  BY <1>2, <1>3, <1>4, <1>5, <1>6

Ordered(s, text) == \A i, j \in 1 .. Len(s) : i < j => Before(text, s[i], s[j])

\* What is sorted has the same lines.
LEMMA SortedFacts ==
  ASSUME NEW text \in Seq(LineType), NEW ids \in Seq(Nat), IsInjective(ids),
         ToSet(ids) \subseteq 1 .. Len(text), NEW new \in Sorted(ids, text)
  PROVE  /\ new \in Seq(Nat) /\ IsInjective(new) /\ Ordered(new, text)
         /\ ToSet(new) = ToSet(ids)
<1> DEFINE n == Len(ids)
           S == ToSet(ids)
<1>1. n \in Nat /\ DOMAIN ids = 1 .. n
  OBVIOUS
<1>2. /\ new \in [1 .. n -> S]
      /\ \A i, j \in 1 .. n : i < j => Before(text, new[i], new[j])
  <2>1. Sorted(ids, text) = {f \in [1 .. n -> S] : \A i, j \in 1 .. n : i < j => Before(text, f[i], f[j])}
    BY <1>1 DEF Sorted
  <2> HIDE DEF n, S
  <2> QED
    BY <2>1
<1>3. IsFiniteSet(S) /\ Cardinality(S) = n /\ S \subseteq Nat
  BY LenIsCard, SeqFacts
<1>4. S \subseteq 1 .. Len(text)
  OBVIOUS
<1> HIDE DEF n, S
<1>5. DOMAIN new = 1 .. n /\ \A i \in 1 .. n : new[i] \in S
  BY <1>2
<1>6. new \in Seq(Nat) /\ Len(new) = n
  <2>1. new \in [1 .. n -> Nat]
    BY <1>2, <1>3
  <2>2. new \in Seq(Nat)
    BY <1>1, <2>1
  <2> QED
    BY <1>1, <1>5, <2>2
<1>7. IsInjective(new)
  <2> SUFFICES ASSUME NEW i \in 1 .. n, NEW j \in 1 .. n, new[i] = new[j] PROVE i = j
    BY <1>5 DEF IsInjective
  <2>1. new[i] \in 1 .. Len(text)
    BY <1>4, <1>5
  <2>2. ~Before(text, new[i], new[i])
    BY <2>1, BeforeIsOneWay
  <2>3. ~(i < j) /\ ~(j < i)
    BY <1>2, <2>2
  <2> QED
    BY <2>3
<1>8. Cardinality(ToSet(new)) = n
  BY <1>6, <1>7, LenIsCard
<1>9. ToSet(new) \in SUBSET S
  <2>1. ToSet(new) = {new[i] : i \in 1 .. n}
    BY <1>6, SeqFacts
  <2> QED
    BY <1>5, <2>1
<1>10. S = ToSet(new)
  <2> DEFINE R == ToSet(new)
  <2> HIDE DEF R
  <2>1. R \in SUBSET S /\ Cardinality(R) = n
    BY <1>8, <1>9 DEF R
  <2>2. S = R
    BY <1>3, <2>1, FS_Subset
  <2> QED
    BY <2>2 DEF R
<1> QED
  BY <1>2, <1>6, <1>7, <1>10 DEF Ordered, S

\* If both are sorted, the rows are along the lines.
LEMMA SortedAlong ==
  ASSUME NEW text \in Seq(LineType), NEW s \in Seq(Nat), NEW r \in Seq(Nat),
         ToSet(s) \subseteq 1 .. Len(text), ToSet(r) \subseteq ToSet(s), Ordered(s, text), Ordered(r, text)
  PROVE  InOrder(r, s)
<1> DEFINE m == Len(s)
           n == Len(r)
           at == [j \in 1 .. n |-> CHOOSE k \in 1 .. m : s[k] = r[j]]
<1>1. ToSet(s) = {s[k] : k \in 1 .. m} /\ ToSet(r) = {r[k] : k \in 1 .. n} /\ m \in Nat /\ n \in Nat
  BY SeqFacts
<1>2. ASSUME NEW j \in 1 .. n PROVE at[j] \in 1 .. m /\ s[at[j]] = r[j]
  <2>1. r[j] \in ToSet(s)
    BY <1>1
  <2>2. \E k \in 1 .. m : s[k] = r[j]
    BY <1>1, <2>1
  <2> HIDE DEF m, n
  <2> QED
    BY <2>2
<1>3. \A k \in 1 .. m : s[k] \in 1 .. Len(text)
  BY <1>1
<1>4. at \in [1 .. n -> 1 .. m]
  BY <1>2
<1>7. /\ \A i, j \in 1 .. m : i < j => Before(text, s[i], s[j])
      /\ \A i, j \in 1 .. n : i < j => Before(text, r[i], r[j])
  BY DEF Ordered
<1> HIDE DEF at, m, n
<1>5. ASSUME NEW i \in 1 .. n, NEW j \in 1 .. n, i < j PROVE at[i] < at[j]
  <2>1. at[i] \in 1 .. m /\ at[j] \in 1 .. m
    BY <1>4
  <2> DEFINE a == s[at[i]]
             b == s[at[j]]
  <2>2. a \in 1 .. Len(text) /\ b \in 1 .. Len(text)
    BY <1>3, <2>1
  <2>3. Before(text, a, b)
    <3>1. Before(text, r[i], r[j])
      BY <1>5, <1>7
    <3> QED
      BY <1>2, <3>1
  <2>4. at[j] < at[i] => Before(text, b, a)
    BY <1>7, <2>1
  <2>5. at[j] = at[i] => a = b
    OBVIOUS
  <2> HIDE DEF a, b
  <2>6. ~(Before(text, a, b) /\ Before(text, b, a)) /\ ~Before(text, a, a)
    BY <2>2, BeforeIsOneWay
  <2>7. ~(at[j] < at[i]) /\ at[i] # at[j]
    BY <2>3, <2>4, <2>5, <2>6
  <2> QED
    BY <2>1, <2>7
<1>6. Along(at, r, s)
  BY <1>2, <1>4, <1>5 DEF Along, m, n
<1> QED
  BY <1>6 DEF InOrder

LEMMA SetSelectedFacts ==
  ASSUME NEW l, ListTyped(l), NEW i \in Int
  PROVE  /\ SetSelected(l, i) \in [text : Seq(LineType), lines : Seq(Nat), rows : Seq(Nat), selected : Nat]
         /\ SetSelected(l, i).text = l.text /\ SetSelected(l, i).lines = l.lines /\ SetSelected(l, i).rows = l.rows
         /\ SelectedOk(SetSelected(l, i))
<1> DEFINE n == Len(l.rows)
           v == IF l.rows = <<>> \/ i < 0 THEN 0 ELSE IF i >= n THEN n - 1 ELSE i
           q == SetSelected(l, i)
<1>1. l \in [text : Seq(LineType), lines : Seq(Nat), rows : Seq(Nat), selected : Nat]
  BY DEF ListTyped
<1>2. n \in Nat /\ (l.rows # <<>> => n # 0)
  BY <1>1
<1>3. v \in 0 .. (IF l.rows = <<>> THEN 0 ELSE n - 1)
  BY <1>2
<1>4. q = [l EXCEPT !.selected = v]
  BY DEF SetSelected
<1>5. v \in Nat
  BY <1>2
<1> HIDE DEF v, q
<1>6. /\ q \in [text : Seq(LineType), lines : Seq(Nat), rows : Seq(Nat), selected : Nat]
      /\ q.text = l.text /\ q.lines = l.lines /\ q.rows = l.rows /\ q.selected = v
  BY <1>1, <1>4, <1>5
<1> QED
  BY <1>3, <1>6 DEF SelectedOk, q

LEMMA SetSelectedFits ==
  ASSUME NEW l, NEW j, NEW old, ListOk(l, j, old), NEW i \in Int
  PROVE  ListOk(SetSelected(l, i), j, old) /\ SelectedOk(SetSelected(l, i))
<1> DEFINE q == SetSelected(l, i)
<1>1. ListTyped(l) /\ PiecesIn(l) /\ InOrder(l.rows, l.lines) /\ RowPasses(l, j) /\ NoneMissing(l, j, old)
  BY DEF ListOk
<1>2. /\ q \in [text : Seq(LineType), lines : Seq(Nat), rows : Seq(Nat), selected : Nat]
      /\ q.text = l.text /\ q.lines = l.lines /\ q.rows = l.rows /\ SelectedOk(q)
  BY <1>1, SetSelectedFacts
<1> HIDE DEF q
<1>3. ListTyped(q) /\ PiecesIn(q) /\ InOrder(q.rows, q.lines) /\ RowPasses(q, j) /\ NoneMissing(q, j, old)
  BY <1>1, <1>2 DEF ListTyped, PiecesIn, RowPasses, NoneMissing
<1> QED
  BY <1>2, <1>3 DEF ListOk, q

\* A snapshot: the lines that were there are old, and both lists come out sorted.
LEMMA ScanFits ==
  ASSUME NEW old, IncOk(inc), ListOk(list, inc, old), NEW found \in Seq(Texts), Scan(found)
  PROVE  ListOk(list', inc, Len(list.text)) /\ SelectedOk(list')
<1> DEFINE base == [list EXCEPT !.rows = <<>>, !.selected = 0]
           new == AddLines(base, found)
           m == Len(list.text)
<1>1. list \in [text : Seq(LineType), lines : Seq(Nat), rows : Seq(Nat), selected : Nat] /\ m \in Nat
      /\ IsInjective(list.lines) /\ ToSet(list.lines) = 1 .. m /\ PiecesIn(list)
  BY DEF ListOk, ListTyped
<1>2. /\ base \in [text : Seq(LineType), lines : Seq(Nat), rows : Seq(Nat), selected : Nat]
      /\ base.text = list.text /\ base.lines = list.lines /\ base.rows = <<>>
  <2> DEFINE e == <<>>
  <2>1. e \in Seq(Nat) /\ base = [list EXCEPT !.rows = e, !.selected = 0]
    OBVIOUS
  <2> HIDE DEF e, base
  <2>2. /\ base \in [text : Seq(LineType), lines : Seq(Nat), rows : Seq(Nat), selected : Nat]
        /\ base.text = list.text /\ base.lines = list.lines /\ base.rows = e
    BY <1>1, <2>1
  <2> QED
    BY <2>2 DEF e
<1>3. PICK y \in Sorted(new.lines, new.text), z \in Sorted(new.rows, new.text) :
        list' = SetSelected([new EXCEPT !.lines = y, !.rows = z], list.selected)
  BY Zenon DEF Scan
<1> HIDE DEF base, m
<1>4. ListOk(base, inc, m)
  <2>1. ListTyped(base)
    BY <1>1, <1>2 DEF ListTyped, m
  <2>2. PiecesIn(base)
    BY <1>1, <1>2 DEF PiecesIn
  <2>3. ToSet(base.rows) = {}
    BY <1>2 DEF ToSet
  <2>4. InOrder(base.rows, base.lines)
    <3> DEFINE at == <<>>
    <3>1. Along(at, base.rows, base.lines)
      BY <1>2 DEF Along
    <3> QED
      BY <3>1 DEF InOrder
  <2>5. RowPasses(base, inc)
    BY <2>3 DEF RowPasses
  <2>6. NoneMissing(base, inc, m)
    BY <1>1, <1>2 DEF NoneMissing, m
  <2> QED
    BY <2>1, <2>2, <2>4, <2>5, <2>6 DEF ListOk
<1>5. ListOk(new, inc, m)
  BY <1>1, <1>4, AddLinesFits
<1> HIDE DEF new
<1> DEFINE x == new.text
           sorted == [new EXCEPT !.lines = y, !.rows = z]
<1>6. ListTyped(new) /\ PiecesIn(new) /\ InOrder(new.rows, new.lines) /\ RowPasses(new, inc) /\ NoneMissing(new, inc, m)
  BY <1>5 DEF ListOk
<1>7. /\ new \in [text : Seq(LineType), lines : Seq(Nat), rows : Seq(Nat), selected : Nat]
      /\ x \in Seq(LineType) /\ new.lines \in Seq(Nat) /\ new.rows \in Seq(Nat)
      /\ IsInjective(new.lines) /\ ToSet(new.lines) = 1 .. Len(x)
  BY <1>6 DEF ListTyped
<1>8. ToSet(new.rows) \subseteq ToSet(new.lines) /\ IsInjective(new.rows)
  BY <1>6, <1>7, AlongFacts
<1>9. y \in Seq(Nat) /\ IsInjective(y) /\ Ordered(y, x) /\ ToSet(y) = ToSet(new.lines)
  BY <1>7, SortedFacts
<1>10. z \in Seq(Nat) /\ IsInjective(z) /\ Ordered(z, x) /\ ToSet(z) = ToSet(new.rows)
  BY <1>7, <1>8, SortedFacts
<1> HIDE DEF x
<1>11. /\ sorted \in [text : Seq(LineType), lines : Seq(Nat), rows : Seq(Nat), selected : Nat]
       /\ sorted.text = x /\ sorted.lines = y /\ sorted.rows = z
  BY <1>7, <1>9, <1>10 DEF x
<1> HIDE DEF sorted
<1>12. InOrder(z, y)
  BY <1>7, <1>8, <1>9, <1>10, SortedAlong
<1>13. ListTyped(sorted)
  BY <1>7, <1>9, <1>11 DEF ListTyped
<1>14. PiecesIn(sorted) /\ RowPasses(sorted, inc) /\ NoneMissing(sorted, inc, m)
  BY <1>6, <1>10, <1>11 DEF PiecesIn, RowPasses, NoneMissing, x
<1>15. ListOk(sorted, inc, m)
  BY <1>11, <1>12, <1>13, <1>14 DEF ListOk
<1>16. list' = SetSelected(sorted, list.selected) /\ list.selected \in Int
  BY <1>1, <1>3 DEF sorted
<1> QED
  BY <1>15, <1>16, SetSelectedFits DEF m

(* The filter. *)

LEMMA WeakFacts ==
  ASSUME NEW l, ListTyped(l), NEW i
  PROVE  LET rows  == Kept(l.lines, PassingLines(l, i))
             found == {n \in 0 .. Len(rows) - 1 : l.rows # <<>> /\ rows[n + 1] = l.rows[l.selected + 1]}
             q     == UpdateWeakPanel(l, i)
         IN  /\ q \in [text : Seq(LineType), lines : Seq(Nat), rows : Seq(Nat), selected : Nat]
             /\ q.text = l.text /\ q.lines = l.lines /\ q.rows = rows /\ SelectedOk(q)
             /\ found # {} => q.selected \in found
<1> DEFINE rows  == Kept(l.lines, PassingLines(l, i))
           found == {n \in 0 .. Len(rows) - 1 : l.rows # <<>> /\ rows[n + 1] = l.rows[l.selected + 1]}
           v == IF found = {} THEN 0 ELSE CHOOSE n \in found : TRUE
           q == UpdateWeakPanel(l, i)
<1>1. l \in [text : Seq(LineType), lines : Seq(Nat), rows : Seq(Nat), selected : Nat]
  BY DEF ListTyped
<1>2. rows \in Seq(Nat)
  <2> DEFINE S == PassingLines(l, i)
  <2> HIDE DEF S
  <2>1. l.lines \in Seq(Nat)
    BY <1>1
  <2>2. Kept(l.lines, S) \in Seq(Nat)
    BY <2>1, KeptFacts
  <2> QED
    BY <2>2 DEF S
<1>3. q = [l EXCEPT !.rows = rows, !.selected = v]
  BY DEF UpdateWeakPanel
<1>4. found \subseteq 0 .. Len(rows) - 1
  OBVIOUS
<1> HIDE DEF rows, found
<1>5. found # {} => v \in found
  OBVIOUS
<1>6. found = {} => v = 0
  OBVIOUS
<1>7. Len(rows) \in Nat /\ (rows # <<>> => Len(rows) # 0) /\ (rows = <<>> => Len(rows) = 0)
  BY <1>2
<1>8. v \in 0 .. (IF rows = <<>> THEN 0 ELSE Len(rows) - 1) /\ v \in Nat
  <2> HIDE DEF v
  <2>1. CASE found = {}
    <3>1. v = 0
      BY <1>6, <2>1
    <3> QED
      BY <1>7, <3>1
  <2>2. CASE found # {}
    <3>1. v \in 0 .. Len(rows) - 1
      BY <1>4, <1>5, <2>2
    <3> QED
      BY <1>7, <3>1
  <2> QED
    BY <2>1, <2>2
<1> HIDE DEF v, q
<1>9. /\ q \in [text : Seq(LineType), lines : Seq(Nat), rows : Seq(Nat), selected : Nat]
      /\ q.text = l.text /\ q.lines = l.lines /\ q.rows = rows /\ q.selected = v
  BY <1>1, <1>2, <1>3, <1>8
<1>10. SelectedOk(q)
  BY <1>8, <1>9 DEF SelectedOk
<1> QED
  BY <1>5, <1>9, <1>10 DEF rows, found, q

LEMMA WeakFits ==
  ASSUME NEW l, NEW j, NEW old, ListOk(l, j, old), NEW i, IncOk(i)
  PROVE  ListOk(UpdateWeakPanel(l, i), i, old) /\ SelectedOk(UpdateWeakPanel(l, i))
<1> DEFINE S == PassingLines(l, i)
           rows == Kept(l.lines, S)
           q == UpdateWeakPanel(l, i)
           n == Len(l.text)
<1>1. ListTyped(l) /\ PiecesIn(l)
  BY DEF ListOk
<1>2. /\ q \in [text : Seq(LineType), lines : Seq(Nat), rows : Seq(Nat), selected : Nat]
      /\ q.text = l.text /\ q.lines = l.lines /\ q.rows = rows /\ SelectedOk(q)
  BY <1>1, WeakFacts
<1>3. \A k : k \in S <=> k \in 1 .. n /\ Pass(l.text[k].value, i)
  BY DEF PassingLines, Pass, Filter, TextOf
<1>4. l.lines \in Seq(Nat) /\ ToSet(l.lines) = 1 .. n /\ l.text \in Seq(LineType)
  BY <1>1 DEF ListTyped
<1> HIDE DEF S, q
<1>5. InOrder(rows, l.lines) /\ \A k : k \in ToSet(rows) <=> k \in ToSet(l.lines) /\ k \in S
  <2>1. InOrder(rows, l.lines) /\ ToSet(rows) = ToSet(l.lines) \cap S
    BY <1>4, KeptAlong
  <2> QED
    BY <2>1
<1> HIDE DEF rows, n
<1>6. ListTyped(q) /\ PiecesIn(q)
  BY <1>1, <1>2 DEF ListTyped, PiecesIn
<1>7. \A k : k \in ToSet(q.rows) <=> k \in 1 .. n /\ Pass(q.text[k].value, i)
  BY <1>2, <1>3, <1>4, <1>5
<1>8. RowPasses(q, i)
  BY <1>7 DEF RowPasses
<1>9. NoneMissing(q, i, old)
  <2> SUFFICES ASSUME NEW k \in 1 .. n, Expected(q.text[k], i) PROVE Pass(q.text[k].value, i)
    BY <1>2, <1>7 DEF NoneMissing, n
  <2> DEFINE line == l.text[k]
  <2>1. line \in LineType
    BY <1>4 DEF n
  <2>2. PieceIn(line)
    BY <1>1 DEF PiecesIn, n
  <2>3. Expected(line, i)
    BY <1>2
  <2> HIDE DEF line
  <2>4. PICK t \in line.pieces : Pass(t, i)
    BY <2>3 DEF Expected
  <2>5. t \in Texts /\ line.value \in Texts /\ HasText(line.value, t)
    BY <2>1, <2>2, <2>4 DEF LineType, PieceIn
  <2>6. Pass(line.value, i)
    BY <2>4, <2>5, PassFacts
  <2> QED
    BY <1>2, <2>6 DEF line
<1>10. ListOk(q, i, old)
  BY <1>2, <1>5, <1>6, <1>8, <1>9 DEF ListOk
<1> QED
  BY <1>2, <1>10 DEF q

\* The same filter lets the same through.
LEMMA SameFilter ==
  ASSUME NEW l, NEW i, NEW j, NEW old, ListOk(l, i, old), j.filtering = i.filtering, Filter(j) = Filter(i)
  PROVE  ListOk(l, j, old)
<1>1. \A t : Pass(t, j) <=> Pass(t, i)
  BY DEF Pass
<1>2. RowPasses(l, j) /\ NoneMissing(l, j, old)
  BY <1>1 DEF ListOk, RowPasses, NoneMissing, Expected
<1> QED
  BY <1>2 DEF ListOk

(* The text of a trace. *)

LEMMA AllTextFacts ==
  ASSUME NEW l, ListTyped(l)
  PROVE  /\ AllText(l, 0) = <<>>
         /\ \A n \in 0 .. Len(l.lines) : AllText(l, n) \in Texts
         /\ \A n \in 1 .. Len(l.lines) : AllText(l, n) = AllText(l, n - 1) \o TextOf(l, l.lines[n])
<1> DEFINE n == Len(l.lines)
           v(k) == TextOf(l, l.lines[k])
           longer(x, k) == x \o v(k)
           e == <<>>
           Eq(g) == g = [i \in 0 .. n |-> IF i = 0 THEN e ELSE longer(g[i - 1], i)]
           cur == CHOOSE g : Eq(g)
           F == [k \in 1 .. n |-> [x \in Texts |-> longer(x, k)]]
<1>1. n \in Nat /\ \A k \in 1 .. n : v(k) \in Texts
  <2>1. n \in Nat /\ l.text \in Seq(LineType) /\ l.lines \in Seq(Nat) /\ ToSet(l.lines) = 1 .. Len(l.text)
    BY ListFields
  <2>2. ToSet(l.lines) = {l.lines[k] : k \in 1 .. n}
    BY <2>1, SeqFacts
  <2>3. ASSUME NEW k \in 1 .. n PROVE v(k) \in Texts
    <3>1. l.lines[k] \in ToSet(l.lines)
      BY <2>2
    <3>2. l.lines[k] \in 1 .. Len(l.text)
      BY <2>1, <3>1
    <3>3. l.text[l.lines[k]] \in LineType
      BY <2>1, <3>2
    <3> QED
      BY <3>3 DEF TextOf, LineType
  <2> QED
    BY <2>1, <2>3
<1>2. \A m : AllText(l, m) = cur[m]
  BY Zenon DEF AllText
<1>3. e \in Texts
  BY DEF Texts
<1>4. ASSUME NEW k \in 1 .. n, NEW x \in Texts PROVE longer(x, k) \in Texts
  <2>1. v(k) \in Texts
    BY <1>1
  <2> QED
    BY <2>1 DEF Texts
<1> HIDE DEF n, v, e, longer
<1>5. F \in [1 .. n -> [Texts -> Texts]]
  BY <1>4
<1> HIDE DEF F
<1>6. PICK f : IsLoop(f, e, F, Texts, n)
  BY <1>1, <1>3, <1>5, LoopRuns
<1>7. f \in [0 .. n -> Texts] /\ f[0] = e /\ \A k \in 1 .. n : f[k] = longer(f[k - 1], k)
  <2>1. f \in [0 .. n -> Texts] /\ f[0] = e /\ \A k \in 1 .. n : f[k] = F[k][f[k - 1]]
    BY <1>6 DEF IsLoop
  <2>2. ASSUME NEW k \in 1 .. n PROVE f[k] = longer(f[k - 1], k)
    <3>1. k - 1 \in 0 .. n
      BY <1>1
    <3>2. f[k - 1] \in Texts
      BY <2>1, <3>1
    <3> QED
      BY <2>1, <3>2 DEF F
  <2> QED
    BY <2>1, <2>2
<1>8. Eq(f)
  <2>1. f = [k \in 0 .. n |-> f[k]]
    BY <1>7
  <2>2. \A k \in 0 .. n : f[k] = IF k = 0 THEN e ELSE longer(f[k - 1], k)
    BY <1>1, <1>7
  <2> QED
    BY <2>1, <2>2, Zenon
<1> HIDE DEF Eq
<1>9. Eq(cur)
  BY <1>8
<1> HIDE DEF cur
<1>10. /\ cur[0] = e
       /\ \A k \in 1 .. n : cur[k] = longer(cur[k - 1], k)
  BY <1>1, <1>9 DEF Eq
<1> DEFINE P == {k \in 0 .. n : cur[k] \in Texts}
<1>11. 0 \in P
  BY <1>1, <1>3, <1>10
<1>12. ASSUME NEW k \in 1 .. n, k - 1 \in P PROVE k \in P
  <2>1. cur[k - 1] \in Texts /\ k \in 0 .. n
    BY <1>1, <1>12
  <2> DEFINE x == cur[k - 1]
  <2>2. cur[k] = longer(x, k) /\ x \in Texts
    BY <1>10, <2>1
  <2> HIDE DEF x
  <2>3. longer(x, k) \in Texts
    BY <1>4, <2>2
  <2> QED
    BY <2>1, <2>2, <2>3
<1>13. \A k \in 0 .. n : k \in P
  <2> HIDE DEF P
  <2> QED
    BY <1>1, <1>11, <1>12, EachTurn
<1> QED
  BY <1>2, <1>10, <1>13 DEF n, e, v, longer

LEMMA AllTextSame ==
  ASSUME NEW l, NEW q, ListTyped(l), ListTyped(q), NEW n \in Nat, n <= Len(l.lines), n <= Len(q.lines),
         \A k \in 1 .. n : TextOf(q, q.lines[k]) = TextOf(l, l.lines[k])
  PROVE  \A k \in 0 .. n : AllText(q, k) = AllText(l, k)
<1> DEFINE P == {k \in 0 .. n : AllText(q, k) = AllText(l, k)}
<1>1. Len(l.lines) \in Nat /\ Len(q.lines) \in Nat
  BY ListFields
<1>2. 0 \in P
  BY AllTextFacts
<1>3. ASSUME NEW k \in 1 .. n, k - 1 \in P PROVE k \in P
  <2>1. AllText(q, k - 1) = AllText(l, k - 1)
    BY <1>3
  <2>2. k \in 1 .. Len(l.lines) /\ k \in 1 .. Len(q.lines)
    BY <1>1
  <2>3. AllText(l, k) = AllText(l, k - 1) \o TextOf(l, l.lines[k])
    BY <2>2, AllTextFacts
  <2>4. AllText(q, k) = AllText(q, k - 1) \o TextOf(q, q.lines[k])
    BY <2>2, AllTextFacts
  <2>5. TextOf(q, q.lines[k]) = TextOf(l, l.lines[k])
    OBVIOUS
  <2>6. AllText(q, k) = AllText(l, k)
    BY <2>1, <2>3, <2>4, <2>5, Zenon
  <2> QED
    BY <2>6
<1>4. \A k \in 0 .. n : k \in P
  <2> HIDE DEF P
  <2> QED
    BY <1>2, <1>3, EachTurn
<1> QED
  BY <1>4

(* What strace writes. *)

LEMMA KeptAppended ==
  ASSUME NEW T, NEW s \in Seq(T), NEW e \in T, NEW S
  PROVE  Kept(Append(s, e), S) = IF e \in S THEN Append(Kept(s, S), e) ELSE Kept(s, S)
<1> DEFINE n == Len(s)
           u == Append(s, e)
           r == Kept(s, S)
           m == Len(r)
<1>1. u \in Seq(T) /\ Len(u) = n + 1 /\ n \in Nat /\ (\A k \in 1 .. n : u[k] = s[k]) /\ u[n + 1] = e
  BY AppendedFacts
<1>2. r \in Seq(T) /\ \E at : PickedTo(at, s, S, r, n)
  BY KeptFacts
<1>3. PICK at : PickedTo(at, s, S, r, n)
  BY <1>2
<1>4. /\ m \in Nat /\ at \in [1 .. m -> 1 .. n]
      /\ \A i, j \in 1 .. m : i < j => at[i] < at[j]
      /\ \A j \in 1 .. m : r[j] = s[at[j]] /\ s[at[j]] \in S
      /\ \A i \in 1 .. n : s[i] \in S => \E j \in 1 .. m : at[j] = i
  BY <1>2, <1>3 DEF PickedTo
<1> HIDE DEF n, u, r, m
<1>5. CASE e \notin S
  <2>1. at \in [1 .. m -> 1 .. n + 1]
    BY <1>1, <1>4
  <2>2. ASSUME NEW i \in 1 .. n + 1, u[i] \in S PROVE \E j \in 1 .. m : at[j] = i
    <3>1. i \in 1 .. n
      BY <1>1, <1>5, <2>2
    <3> QED
      BY <1>1, <1>4, <2>2, <3>1
  <2>3. ASSUME NEW j \in 1 .. m PROVE r[j] = u[at[j]] /\ u[at[j]] \in S
    <3>1. at[j] \in 1 .. n
      BY <1>4
    <3> QED
      BY <1>1, <1>4, <3>1
  <2>4. PickedTo(at, u, S, r, Len(u))
    BY <1>1, <1>4, <2>1, <2>2, <2>3 DEF PickedTo, m
  <2>5. r = Kept(u, S)
    BY <1>1, <1>2, <2>4, KeptIs
  <2> QED
    BY <1>5, <2>5 DEF r, u
<1>6. CASE e \in S
  <2> DEFINE w == Append(r, e)
             to == [j \in 1 .. m + 1 |-> IF j <= m THEN at[j] ELSE n + 1]
  <2>1. w \in Seq(T) /\ Len(w) = m + 1 /\ (\A k \in 1 .. m : w[k] = r[k]) /\ w[m + 1] = e
    BY <1>2, AppendedFacts DEF m
  <2>2. to \in [1 .. m + 1 -> 1 .. n + 1] /\ (\A j \in 1 .. m : to[j] = at[j]) /\ to[m + 1] = n + 1
    BY <1>1, <1>4
  <2>10. \A j \in 1 .. m : at[j] \in 1 .. n /\ j \in 1 .. m + 1
    BY <1>4
  <2>11. \A j \in 1 .. m + 1 : j \in 1 .. m \/ j = m + 1
    BY <1>4
  <2>12. \A j \in 1 .. n + 1 : j \in 1 .. n \/ j = n + 1
    BY <1>1
  <2> HIDE DEF w, to
  <2>3. ASSUME NEW i \in 1 .. m + 1, NEW j \in 1 .. m + 1, i < j PROVE to[i] < to[j]
    <3>1. i \in 1 .. m
      BY <1>4, <2>3
    <3>2. at[i] \in 1 .. n /\ to[i] = at[i]
      BY <2>2, <2>10, <3>1
    <3>3. CASE j \in 1 .. m
      BY <1>4, <2>2, <2>3, <3>1, <3>3
    <3>4. CASE j = m + 1
      <4>1. to[j] = n + 1
        BY <2>2, <3>4
      <4> QED
        BY <1>1, <3>2, <4>1
    <3> QED
      BY <2>11, <3>3, <3>4
  <2>4. ASSUME NEW j \in 1 .. m + 1 PROVE w[j] = u[to[j]] /\ u[to[j]] \in S
    <3>1. CASE j \in 1 .. m
      <4>1. to[j] = at[j] /\ at[j] \in 1 .. n /\ w[j] = r[j]
        BY <2>1, <2>2, <2>10, <3>1
      <4>2. u[at[j]] = s[at[j]]
        BY <1>1, <4>1
      <4> QED
        BY <1>4, <3>1, <4>1, <4>2
    <3>2. CASE j = m + 1
      BY <1>1, <1>6, <2>1, <2>2, <3>2
    <3> QED
      BY <2>11, <3>1, <3>2
  <2>5. ASSUME NEW i \in 1 .. n + 1, u[i] \in S PROVE \E j \in 1 .. m + 1 : to[j] = i
    <3>1. CASE i \in 1 .. n
      <4>1. PICK j \in 1 .. m : at[j] = i
        BY <1>1, <1>4, <2>5, <3>1
      <4> QED
        BY <2>2, <2>10, <4>1
    <3>2. CASE i = n + 1
      <4>1. m + 1 \in 1 .. m + 1
        BY <1>4
      <4> QED
        BY <2>2, <3>2, <4>1
    <3> QED
      BY <2>12, <3>1, <3>2
  <2>6. PickedTo(to, u, S, w, Len(u))
    BY <1>1, <2>1, <2>2, <2>3, <2>4, <2>5 DEF PickedTo
  <2>7. w = Kept(u, S)
    BY <1>1, <2>1, <2>6, KeptIs
  <2> QED
    BY <1>6, <2>7 DEF w, r, u
<1> QED
  BY <1>5, <1>6

LEMMA LettersFacts ==
  ASSUME NEW s \in Bytes
  PROVE  LettersOf(s) \in Texts
<1> DEFINE T == Letter \cup {NL}
           r == Kept(s, Letter)
<1>1. s \in Seq(T)
  BY DEF Bytes
<1> HIDE DEF T
<1>2. r \in Seq(T) /\ \E at : PickedTo(at, s, Letter, r, Len(s))
  BY <1>1, KeptFacts
<1>3. PICK at : PickedTo(at, s, Letter, r, Len(s))
  BY <1>2
<1>4. \A j \in 1 .. Len(r) : r[j] \in Letter
  BY <1>3 DEF PickedTo
<1> HIDE DEF r
<1>5. r \in Seq(Letter)
  BY <1>2, <1>4
<1> QED
  BY <1>5 DEF LettersOf, Texts, r

LEMMA LettersAppended ==
  ASSUME NEW s \in Bytes, NEW c \in Letter \cup {NL}
  PROVE  LettersOf(Append(s, c)) = IF c = NL THEN LettersOf(s) ELSE Append(LettersOf(s), c)
<1> DEFINE T == Letter \cup {NL}
<1>1. s \in Seq(T) /\ c \in T
  BY DEF Bytes
<1>2. c \in Letter <=> c # NL
  BY InfoScreenAssumption
<1> HIDE DEF T
<1>3. Kept(Append(s, c), Letter) = IF c \in Letter THEN Append(Kept(s, Letter), c) ELSE Kept(s, Letter)
  BY <1>1, KeptAppended
<1> QED
  BY <1>2, <1>3 DEF LettersOf

LEMMA BreaksAppended ==
  ASSUME NEW s \in Bytes, NEW c \in Letter \cup {NL}
  PROVE  \A x : x \in Breaks(Append(s, c)) <=> x \in Breaks(s) \/ (c = NL /\ x = Len(LettersOf(s)))
<1> DEFINE T == Letter \cup {NL}
           n == Len(s)
           u == Append(s, c)
           At(b, k) == Len(LettersOf(SubSeq(b, 1, k - 1)))
<1>1. s \in Seq(T) /\ c \in T
  BY DEF Bytes
<1> HIDE DEF T
<1>2. /\ u \in Seq(T) /\ Len(u) = n + 1 /\ n \in Nat /\ (\A k \in 1 .. n : u[k] = s[k]) /\ u[n + 1] = c
      /\ \A k \in 1 .. n : s[k] \in T
  BY <1>1, AppendedFacts
<1>3. \A b, x : x \in Breaks(b) <=> \E k \in 1 .. Len(b) : b[k] = NL /\ x = At(b, k)
  BY DEF Breaks
<1> HIDE DEF u, n
<1>4. ASSUME NEW k \in 1 .. n + 1 PROVE SubSeq(u, 1, k - 1) = SubSeq(s, 1, k - 1)
  <2> DEFINE m == k - 1
             a == SubSeq(u, 1, m)
             b == SubSeq(s, 1, m)
  <2>1. m \in 0 .. n
    BY <1>2
  <2> HIDE DEF m
  <2>2. a \in Seq(T) /\ Len(a) = m /\ \A i \in 1 .. m : a[i] = u[i]
    BY <1>2, <2>1
  <2>3. b \in Seq(T) /\ Len(b) = m /\ \A i \in 1 .. m : b[i] = s[i]
    BY <1>1, <1>2, <2>1 DEF n
  <2>4. \A i \in 1 .. m : u[i] = s[i]
    BY <1>2, <2>1
  <2> HIDE DEF a, b
  <2>5. a = b
    BY <2>2, <2>3, <2>4, SeqEqual
  <2> QED
    BY <2>5 DEF a, b, m
<1>5. SubSeq(s, 1, n) = s
  BY <1>1 DEF n
<1>6. \A k \in 1 .. n + 1 : At(u, k) = At(s, k)
  BY <1>4
<1>7. At(s, n + 1) = Len(LettersOf(s))
  <2>1. (n + 1) - 1 = n
    BY <1>2
  <2> QED
    BY <1>5, <2>1
<1>9. \A k : k \in 1 .. n + 1 <=> k \in 1 .. n \/ k = n + 1
  BY <1>2
<1> HIDE DEF At
<1>8. ASSUME NEW x PROVE x \in Breaks(u) <=> x \in Breaks(s) \/ (c = NL /\ x = Len(LettersOf(s)))
  <2>1. x \in Breaks(u) <=> \E k \in 1 .. n + 1 : u[k] = NL /\ x = At(u, k)
    BY <1>2, <1>3
  <2>2. x \in Breaks(s) <=> \E k \in 1 .. n : s[k] = NL /\ x = At(s, k)
    BY <1>3 DEF n
  <2> QED
    BY <1>2, <1>6, <1>7, <1>9, <2>1, <2>2
<1> QED
  BY <1>8 DEF u

(* What a line more, or a longer line, does to the text of a trace. *)

LEMMA AddWhole ==
  ASSUME NEW l, NEW old \in Nat, IncOk(inc), ListOk(l, inc, old), Straight(l), NEW t \in Texts
  PROVE  /\ Straight(AddLine(l, t)) /\ Len(AddLine(l, t).lines) = Len(l.lines) + 1
         /\ AllText(AddLine(l, t), Len(l.lines) + 1) = AllText(l, Len(l.lines)) \o t
         /\ \A k \in 0 .. Len(l.lines) : AllText(AddLine(l, t), k) = AllText(l, k)
<1> DEFINE q == AddLine(l, t)
           n == Len(l.lines)
           id == n + 1
<1>1. ListOk(q, inc, old)
  BY AddLineFits
<1>2. ListTyped(l) /\ ListTyped(q)
  BY <1>1 DEF ListOk
<1>3. /\ l.text \in Seq(LineType) /\ l.lines \in Seq(Nat) /\ n \in Nat /\ Len(l.text) = n
      /\ q.text = Append(l.text, Line(t)) /\ q.lines = Append(l.lines, id)
  BY <1>2, ListFields, AddLineFields
<1>4. Line(t) \in LineType /\ Line(t).value = t
  BY LineFacts
<1>5. id \in Nat /\ id = n + 1 /\ id \in 1 .. id
  BY <1>3
<1>6. Len(q.text) = id /\ (\A k \in 1 .. n : q.text[k] = l.text[k]) /\ q.text[id] = Line(t)
  BY <1>3, <1>4, AppendedFacts
<1>7. Len(q.lines) = id /\ (\A k \in 1 .. n : q.lines[k] = l.lines[k]) /\ q.lines[id] = id
  BY <1>3, AppendedFacts
<1> HIDE DEF q, n, id
<1>8. \A k \in 1 .. n : l.lines[k] = k
  BY DEF Straight, n
<1>9. \A k \in 1 .. id : q.lines[k] = k
  BY <1>3, <1>5, <1>7, <1>8
<1>10. \A k \in 1 .. n : TextOf(q, q.lines[k]) = TextOf(l, l.lines[k])
  BY <1>6, <1>7, <1>8 DEF TextOf
<1>11. \A k \in 0 .. n : AllText(q, k) = AllText(l, k)
  <2>1. n <= Len(l.lines) /\ n <= Len(q.lines)
    BY <1>3, <1>5, <1>7 DEF n
  <2> QED
    BY <1>2, <1>3, <1>10, <2>1, AllTextSame
<1>12. AllText(q, id) = AllText(q, n) \o t
  <2>1. id \in 1 .. Len(q.lines) /\ id - 1 = n
    BY <1>3, <1>5, <1>7
  <2>2. AllText(q, id) = AllText(q, id - 1) \o TextOf(q, q.lines[id])
    BY <1>2, <2>1, AllTextFacts
  <2>3. TextOf(q, q.lines[id]) = t
    BY <1>4, <1>6, <1>7 DEF TextOf
  <2> QED
    BY <2>1, <2>2, <2>3
<1>13. AllText(q, n) = AllText(l, n)
  BY <1>3, <1>11
<1> QED
  BY <1>5, <1>7, <1>9, <1>11, <1>12, <1>13 DEF Straight, q, n, id

LEMMA AppendWhole ==
  ASSUME NEW l, NEW old \in Nat, IncOk(inc), ListOk(l, inc, old), Straight(l), l.lines # <<>>, NEW t \in Texts
  PROVE  /\ Straight(AppendLine(l, t)) /\ Len(AppendLine(l, t).lines) = Len(l.lines)
         /\ AllText(AppendLine(l, t), Len(l.lines)) = AllText(l, Len(l.lines)) \o t
         /\ \A k \in 0 .. Len(l.lines) - 1 : AllText(AppendLine(l, t), k) = AllText(l, k)
<1> DEFINE q == AppendLine(l, t)
           n == Len(l.lines)
           m == n - 1
           v == l.text[n].value
<1>1. ListOk(q, inc, old)
  BY AppendLineFits
<1>2. ListTyped(l) /\ ListTyped(q) /\ PiecesIn(l)
  BY <1>1 DEF ListOk
<1>3. /\ l.text \in Seq(LineType) /\ l.lines \in Seq(Nat) /\ n \in Nat /\ Len(l.text) = n
      /\ Last(l.lines) \in 1 .. n /\ Last(l.lines) = l.lines[n] /\ n \in 1 .. n
  BY <1>2, ListFields, LastFacts
<1>4. Last(l.lines) = n
  BY <1>3 DEF Straight
<1>5. q.text = [l.text EXCEPT ![n] = Longer(l.text[n], t)] /\ q.lines = l.lines
  BY <1>2, <1>4, AppendLineFields
<1>6. l.text[n] \in LineType /\ PieceIn(l.text[n])
  BY <1>2, <1>3 DEF PiecesIn
<1>7. Longer(l.text[n], t).value = v \o t /\ v \in Texts
  <2>1. Longer(l.text[n], t).value = v \o t
    BY DEF Longer
  <2> QED
    BY <1>6, <2>1 DEF LineType
<1>8. DOMAIN l.text = 1 .. n
  BY <1>3
<1>9. m \in Nat /\ m + 1 = n /\ n # 0 /\ m = n - 1
  BY <1>3
<1> HIDE DEF q, n, m, v
<1>10. \A k \in 1 .. n : l.lines[k] = k /\ q.lines[k] = k
  BY <1>5 DEF Straight, n
<1>11. (\A k \in 1 .. m : q.text[k] = l.text[k]) /\ q.text[n] = Longer(l.text[n], t)
  <2>1. \A k \in 1 .. m : k \in 1 .. n /\ k # n
    BY <1>3, <1>9
  <2> QED
    BY <1>3, <1>5, <1>8, <2>1
<1>12. \A k \in 1 .. m : TextOf(q, q.lines[k]) = TextOf(l, l.lines[k])
  <2>1. \A k \in 1 .. m : k \in 1 .. n
    BY <1>3, <1>9
  <2> QED
    BY <1>10, <1>11, <2>1 DEF TextOf
<1>13. \A k \in 0 .. m : AllText(q, k) = AllText(l, k)
  <2>1. m <= Len(l.lines) /\ m <= Len(q.lines)
    BY <1>3, <1>5, <1>9 DEF n
  <2> QED
    BY <1>2, <1>9, <1>12, <2>1, AllTextSame
<1>14. AllText(q, n) = AllText(l, n) \o t
  <2>1. n \in 1 .. Len(q.lines) /\ n \in 1 .. Len(l.lines) /\ m \in 0 .. Len(l.lines)
    BY <1>3, <1>5, <1>9 DEF n
  <2>2. AllText(q, n) = AllText(q, m) \o TextOf(q, q.lines[n])
    BY <1>2, <1>9, <2>1, AllTextFacts
  <2>3. AllText(l, n) = AllText(l, m) \o TextOf(l, l.lines[n])
    BY <1>2, <1>9, <2>1, AllTextFacts
  <2>4. TextOf(q, q.lines[n]) = v \o t /\ TextOf(l, l.lines[n]) = v
    BY <1>3, <1>7, <1>10, <1>11 DEF TextOf, v
  <2>5. AllText(q, m) = AllText(l, m)
    BY <1>9, <1>13
  <2> DEFINE a == AllText(l, m)
  <2>6. a \in Seq(Letter) /\ v \in Seq(Letter) /\ t \in Seq(Letter)
    BY <1>2, <1>7, <2>1, AllTextFacts DEF Texts
  <2> HIDE DEF a
  <2>7. (a \o v) \o t = a \o (v \o t)
    BY <2>6, ConcatAssociative
  <2> QED
    BY <2>2, <2>3, <2>4, <2>5, <2>7 DEF a
<1> QED
  BY <1>5, <1>9, <1>10, <1>13, <1>14 DEF Straight, q, n, m

(* The loop over what was read: the lines and the begin of the next one    *)
(* have the letters so far, and all line breaks so far are shown.          *)

SplitType(old) ==
  {s \in [list : [text : Seq(LineType), lines : Seq(Nat), rows : Seq(Nat), selected : Nat],
          line : Texts, contLine : BOOLEAN] :
     ListOk(s.list, inc, old) /\ SelectedOk(s.list) /\ (s.contLine => s.list.lines # <<>>)}

SplitFits(s, bytes, dropped) ==
  /\ Straight(s.list)
  /\ AllText(s.list, Len(s.list.lines)) \o s.line = LettersOf(bytes)
  /\ dropped \/ BreaksShown(s.list, s.contLine, bytes)

LEMMA SelectedStays ==
  ASSUME NEW l, NEW q, ListTyped(l), SelectedOk(l), q.selected = l.selected,
         NEW e \in Nat, q.rows = l.rows \/ q.rows = Append(l.rows, e)
  PROVE  SelectedOk(q)
<1> DEFINE r == l.rows
<1>1. r \in Seq(Nat) /\ Len(r) \in Nat
  BY ListFields
<1>2. Len(Append(r, e)) = Len(r) + 1 /\ Append(r, e) # <<>>
  <2> DEFINE w == Append(r, e)
  <2>1. Len(w) = Len(r) + 1
    BY <1>1, AppendedFacts
  <2> HIDE DEF w, r
  <2>2. w # <<>>
    BY <1>1, <2>1
  <2> QED
    BY <2>1, <2>2 DEF w
<1>3. l.selected \in 0 .. (IF r = <<>> THEN 0 ELSE Len(r) - 1)
  BY DEF SelectedOk
<1> HIDE DEF r
<1>4. r # <<>> \/ l.selected = 0
  BY <1>3
<1>5. l.selected \in 0 .. Len(r)
  BY <1>1, <1>3
<1>6. CASE q.rows = r
  BY <1>3, <1>6 DEF SelectedOk, r
<1>7. CASE q.rows = Append(r, e)
  <2>1. (Len(r) + 1) - 1 = Len(r)
    BY <1>1
  <2> QED
    BY <1>2, <1>5, <1>7, <2>1 DEF SelectedOk
<1> QED
  BY <1>6, <1>7 DEF r

LEMMA LineAdded ==
  ASSUME NEW l, NEW old \in Nat, IncOk(inc), ListOk(l, inc, old), SelectedOk(l), NEW t \in Texts
  PROVE  ListOk(AddLine(l, t), inc, old) /\ SelectedOk(AddLine(l, t)) /\ AddLine(l, t).lines # <<>>
<1> DEFINE q == AddLine(l, t)
           e == Len(l.text) + 1
<1>1. ListTyped(l)
  BY DEF ListOk
<1>2. e \in Nat /\ l.lines \in Seq(Nat)
  BY <1>1, ListFields
<1>3. q.selected = l.selected /\ (q.rows = l.rows \/ q.rows = Append(l.rows, e)) /\ q.lines = Append(l.lines, e)
  BY <1>1, AddLineFields
<1> HIDE DEF q, e
<1>4. SelectedOk(q)
  BY <1>1, <1>2, <1>3, SelectedStays
<1>5. q.lines # <<>>
  BY <1>2, <1>3
<1> QED
  BY <1>4, <1>5, AddLineFits DEF q

LEMMA LineAppended ==
  ASSUME NEW l, NEW old \in Nat, IncOk(inc), ListOk(l, inc, old), SelectedOk(l), l.lines # <<>>, NEW t \in Texts
  PROVE  ListOk(AppendLine(l, t), inc, old) /\ SelectedOk(AppendLine(l, t)) /\ AppendLine(l, t).lines # <<>>
<1> DEFINE q == AppendLine(l, t)
           e == Last(l.lines)
<1>1. ListTyped(l) /\ PiecesIn(l)
  BY DEF ListOk
<1>2. e \in Nat
  BY <1>1, LastFacts
<1>3. q.selected = l.selected /\ (q.rows = l.rows \/ q.rows = Append(l.rows, e)) /\ q.lines = l.lines
  BY <1>1, AppendLineFields
<1> HIDE DEF q, e
<1>4. SelectedOk(q)
  BY <1>1, <1>2, <1>3, SelectedStays
<1> QED
  BY <1>3, <1>4, AppendLineFits DEF q

LEMMA SplitNextFits ==
  ASSUME NEW old \in Nat, IncOk(inc), NEW s \in SplitType(old), NEW c \in Letter \cup {NL}
  PROVE  /\ SplitNext(s, c) \in SplitType(old)
         /\ \A bytes \in Bytes, dropped \in BOOLEAN :
              SplitFits(s, bytes, dropped) => SplitFits(SplitNext(s, c), Append(bytes, c), dropped)
<1> DEFINE l == s.list
           line == s.line
           more == s.contLine
           n == Len(l.lines)
           new == SplitNext(s, c)
           q == EndLine(s)
           begun == Append(line, c)
           Lists == [text : Seq(LineType), lines : Seq(Nat), rows : Seq(Nat), selected : Nat]
           Splits == [list : Lists, line : Texts, contLine : BOOLEAN]
           e == <<>>
           no == FALSE
<1>1. /\ l \in Lists /\ line \in Texts /\ more \in BOOLEAN /\ s \in Splits
      /\ ListOk(l, inc, old) /\ SelectedOk(l) /\ (more => l.lines # <<>>)
  BY DEF SplitType
<1>2. ListTyped(l) /\ n \in Nat
  BY <1>1, ListFields DEF ListOk
<1> HIDE DEF l, line, more, q, new
<1>3. SplitNext(s, c) = IF c # NL THEN [s EXCEPT !.line = begun] ELSE [list |-> q, line |-> e, contLine |-> no]
  BY DEF SplitNext, q, line
<1>4. e \in Texts /\ no \in BOOLEAN
  BY DEF Texts
<1> HIDE DEF begun, e, no
<1>5. \A r : r \in SplitType(old) <=>
         r \in Splits /\ ListOk(r.list, inc, old) /\ SelectedOk(r.list) /\ (r.contLine => r.list.lines # <<>>)
  BY DEF SplitType
<1>6. CASE c # NL
  <2>1. begun \in Texts
    BY <1>1, <1>6 DEF begun, Texts
  <2>2. new = [s EXCEPT !.line = begun]
    BY <1>3, <1>6 DEF new
  <2>3. new \in Splits /\ new.list = l /\ new.line = begun /\ new.contLine = more
    BY <1>1, <2>1, <2>2 DEF l, more
  <2>4. new \in SplitType(old)
    BY <1>1, <1>5, <2>3
  <2>5. ASSUME NEW bytes \in Bytes, NEW dropped \in BOOLEAN, SplitFits(s, bytes, dropped)
        PROVE  SplitFits(new, Append(bytes, c), dropped)
    <3> DEFINE all == AllText(l, n)
    <3>1. Straight(l) /\ all \o line = LettersOf(bytes) /\ (dropped \/ BreaksShown(l, more, bytes))
      BY <2>5 DEF SplitFits, l, line, more
    <3>2. LettersOf(Append(bytes, c)) = Append(LettersOf(bytes), c)
      BY <1>6, LettersAppended
    <3>3. all \in Seq(Letter) /\ line \in Seq(Letter) /\ c \in Letter
      BY <1>1, <1>2, <1>6, AllTextFacts DEF Texts
    <3> HIDE DEF all
    <3>4. all \o begun = Append(all \o line, c)
      BY <3>3 DEF begun
    <3>5. Breaks(Append(bytes, c)) = Breaks(bytes)
      <4>1. \A x : x \in Breaks(Append(bytes, c)) <=> x \in Breaks(bytes)
        BY <1>6, BreaksAppended
      <4> QED
        BY <4>1
    <3>6. dropped \/ BreaksShown(l, more, Append(bytes, c))
      BY <3>1, <3>5 DEF BreaksShown
    <3>7. all \o begun = LettersOf(Append(bytes, c))
      BY <3>1, <3>2, <3>4
    <3> QED
      BY <2>3, <3>1, <3>6, <3>7 DEF SplitFits, all
  <2> QED
    BY <2>4, <2>5 DEF new
<1>7. CASE c = NL
  <2>1. new = [list |-> q, line |-> e, contLine |-> no]
    BY <1>3, <1>7 DEF new
  <2>2. ListOk(q, inc, old) /\ SelectedOk(q) /\ q.lines # <<>>
    <3>1. q = IF more THEN AppendLine(l, line) ELSE AddLine(l, line)
      BY DEF q, EndLine, more, l, line
    <3>2. CASE more
      <4>1. ListOk(AppendLine(l, line), inc, old) /\ SelectedOk(AppendLine(l, line)) /\ AppendLine(l, line).lines # <<>>
        BY <1>1, <3>2, LineAppended
      <4> QED
        BY <3>1, <3>2, <4>1
    <3>3. CASE ~more
      <4>1. ListOk(AddLine(l, line), inc, old) /\ SelectedOk(AddLine(l, line)) /\ AddLine(l, line).lines # <<>>
        BY <1>1, LineAdded
      <4> QED
        BY <3>1, <3>3, <4>1
    <3> QED
      BY <3>2, <3>3
  <2>3. new.list = q /\ new.line = e /\ new.contLine = no
    BY <2>1
  <2>4. q \in Lists /\ ListTyped(q)
    BY <2>2 DEF ListOk, ListTyped
  <2>5. new \in Splits
    BY <1>4, <2>1, <2>4
  <2>6. new \in SplitType(old)
    BY <1>5, <2>2, <2>3, <2>5
  <2>7. ASSUME NEW bytes \in Bytes, NEW dropped \in BOOLEAN, SplitFits(s, bytes, dropped)
        PROVE  SplitFits(new, Append(bytes, c), dropped)
    <3> DEFINE all == AllText(l, n)
               m == Len(q.lines)
    <3>1. Straight(l) /\ all \o line = LettersOf(bytes) /\ (dropped \/ BreaksShown(l, more, bytes))
      BY <2>7 DEF SplitFits, l, line, more
    <3>2. LettersOf(Append(bytes, c)) = LettersOf(bytes)
      BY <1>7, LettersAppended
    <3>3. /\ Straight(q) /\ m \in 1 .. m /\ m \in Nat /\ AllText(q, m) = all \o line
          /\ IF more THEN n - 1 \in Nat /\ m = n ELSE m = n + 1
          /\ \A k \in 0 .. Ended(l, more) : AllText(q, k) = AllText(l, k)
      <4>1. q = IF more THEN AppendLine(l, line) ELSE AddLine(l, line)
        BY DEF q, EndLine, more, l, line
      <4>2. CASE more
        <5>1. q = AppendLine(l, line)
          BY <4>1, <4>2
        <5>2. /\ Straight(q) /\ m = n
              /\ AllText(q, n) = all \o line
              /\ \A k \in 0 .. n - 1 : AllText(q, k) = AllText(l, k)
          BY <1>1, <3>1, <4>2, <5>1, AppendWhole
        <5>3. n # 0
          <6>1. l.lines \in Seq(Nat) /\ l.lines # <<>>
            BY <1>1, <4>2
          <6> QED
            BY <6>1
        <5>4. Ended(l, more) = n - 1
          BY <4>2 DEF Ended
        <5> HIDE DEF n, m
        <5>5. m \in 1 .. m /\ m \in Nat /\ n - 1 \in Nat /\ m = n
          BY <1>2, <5>2, <5>3
        <5>6. AllText(q, m) = all \o line
          BY <5>2, <5>5
        <5>7. \A k \in 0 .. Ended(l, more) : AllText(q, k) = AllText(l, k)
          BY <5>2, <5>4
        <5> QED
          BY <4>2, <5>2, <5>5, <5>6, <5>7
      <4>3. CASE ~more
        <5>1. q = AddLine(l, line)
          BY <4>1, <4>3
        <5>2. /\ Straight(q) /\ m = n + 1
              /\ AllText(q, n + 1) = all \o line
              /\ \A k \in 0 .. n : AllText(q, k) = AllText(l, k)
          BY <1>1, <3>1, <5>1, AddWhole
        <5>4. Ended(l, more) = n
          BY <4>3 DEF Ended
        <5> QED
          BY <1>2, <4>3, <5>2, <5>4
      <4> QED
        BY <4>2, <4>3
    <3>4. all \o line \in Seq(Letter) /\ (all \o line) \o e = all \o line
      <4>1. all \in Seq(Letter) /\ line \in Seq(Letter)
        BY <1>1, <1>2, AllTextFacts DEF Texts
      <4>2. all \o line \in Seq(Letter)
        BY <4>1
      <4> DEFINE w == all \o line
      <4> HIDE DEF w
      <4>3. w \o <<>> = w
        BY <4>2, ConcatEmptySeq DEF w
      <4> QED
        BY <4>2, <4>3 DEF w, e
    <3>5. dropped \/ BreaksShown(q, no, Append(bytes, c))
      <4> SUFFICES ASSUME ~dropped, NEW x \in Breaks(Append(bytes, c))
                   PROVE  \E k \in 1 .. m : x = Len(AllText(q, k))
        <5>1. Ended(q, no) = m
          BY DEF Ended, no
        <5>2. BreaksShown(q, no, Append(bytes, c)) <=>
                \A x \in Breaks(Append(bytes, c)) : \E k \in 1 .. m : x = Len(AllText(q, k))
          BY <5>1 DEF BreaksShown, LineEnds
        <5> QED
          BY <5>2
      <4>1. x \in Breaks(bytes) \/ x = Len(LettersOf(bytes))
        BY BreaksAppended
      <4>2. CASE x \in Breaks(bytes)
        <5>1. PICK k \in 1 .. Ended(l, more) : x = Len(AllText(l, k))
          BY <3>1, <4>2 DEF BreaksShown, LineEnds
        <5>2. k \in 0 .. Ended(l, more) /\ k \in 1 .. m
          <6>1. Ended(l, more) = IF more THEN n - 1 ELSE n
            BY DEF Ended
          <6> HIDE DEF m, n
          <6> QED
            BY <1>2, <3>3, <5>1, <6>1
        <5> QED
          BY <3>3, <5>1, <5>2
      <4>3. CASE x = Len(LettersOf(bytes))
        BY <3>1, <3>3, <4>3
      <4> QED
        BY <4>1, <4>2, <4>3
    <3>6. AllText(q, m) \o e = LettersOf(Append(bytes, c))
      BY <3>1, <3>2, <3>3, <3>4
    <3> QED
      BY <2>3, <3>3, <3>5, <3>6 DEF SplitFits
  <2> QED
    BY <2>6, <2>7 DEF new
<1> QED
  BY <1>6, <1>7

ReadTo(b, d, k) == b \o SubSeq(d, 1, k)

LEMMA ReadIsOneMore ==
  ASSUME NEW b \in Bytes, NEW d \in Bytes
  PROVE  /\ ReadTo(b, d, 0) = b /\ ReadTo(b, d, Len(d)) = b \o d
         /\ \A k \in 0 .. Len(d) : ReadTo(b, d, k) \in Bytes
         /\ \A k \in 1 .. Len(d) : ReadTo(b, d, k) = Append(ReadTo(b, d, k - 1), d[k])
<1> DEFINE T == Letter \cup {NL}
<1>0. b \in Seq(T) /\ d \in Seq(T) /\ Bytes = Seq(T)
  BY DEF Bytes
<1> HIDE DEF T
<1> DEFINE n == Len(d)
           upTo(k) == SubSeq(d, 1, k)
<1>1. n \in Nat /\ \A k \in 1 .. n : d[k] \in T
  BY <1>0
<1>2. ASSUME NEW k \in 0 .. n
      PROVE  upTo(k) \in Seq(T) /\ Len(upTo(k)) = k /\ \A i \in 1 .. k : upTo(k)[i] = d[i]
  <2>1. k \in Nat /\ k <= n
    OBVIOUS
  <2> HIDE DEF n
  <2> QED
    BY <1>0, <1>1, <2>1 DEF n
<1>3. upTo(0) = <<>>
  <2>1. upTo(0) \in Seq(T) /\ Len(upTo(0)) = 0
    BY <1>1, <1>2
  <2> HIDE DEF upTo
  <2> QED
    BY <2>1
<1>4. upTo(n) = d
  BY <1>0
<1>5. b \o <<>> = b
  BY <1>0, ConcatEmptySeq
<1>6. ASSUME NEW k \in 1 .. n PROVE upTo(k) = Append(upTo(k - 1), d[k])
  <2> DEFINE m == k - 1
             a == upTo(m)
             w == Append(a, d[k])
             u == upTo(k)
  <2>1. m \in 0 .. n /\ m + 1 = k /\ k \in 0 .. n /\ d[k] \in T /\ m \in Nat
    BY <1>1
  <2> HIDE DEF m, upTo
  <2>2. a \in Seq(T) /\ Len(a) = m /\ \A i \in 1 .. m : a[i] = d[i]
    BY <1>2, <2>1
  <2>3. u \in Seq(T) /\ Len(u) = k /\ \A i \in 1 .. k : u[i] = d[i]
    BY <1>2, <2>1
  <2> HIDE DEF a, u
  <2>4. w \in Seq(T) /\ Len(w) = m + 1 /\ (\A i \in 1 .. m : w[i] = a[i]) /\ w[m + 1] = d[k]
    BY <2>1, <2>2, AppendedFacts
  <2> HIDE DEF w
  <2>5. \A i \in 1 .. k : i \in 1 .. m \/ i = k
    BY <2>1
  <2>6. \A i \in 1 .. k : u[i] = w[i]
    BY <2>1, <2>2, <2>3, <2>4, <2>5
  <2>7. u = w
    BY <2>1, <2>3, <2>4, <2>6, SeqEqual
  <2> QED
    BY <2>7 DEF u, w, a, m
<1>7. ASSUME NEW k \in 1 .. n PROVE b \o upTo(k) = Append(b \o upTo(k - 1), d[k])
  <2> DEFINE a == upTo(k - 1)
             x == d[k]
  <2>1. k - 1 \in 0 .. n
    BY <1>1
  <2>2. a \in Seq(T) /\ x \in T
    BY <1>1, <1>2, <2>1
  <2>3. upTo(k) = Append(a, x)
    BY <1>6
  <2> HIDE DEF a, x, upTo
  <2>4. b \o Append(a, x) = Append(b \o a, x)
    BY <1>0, <2>2
  <2> QED
    BY <2>3, <2>4 DEF a, x
<1>8. \A k \in 0 .. n : b \o upTo(k) \in Seq(T)
  <2> TAKE k \in 0 .. n
  <2>1. upTo(k) \in Seq(T)
    BY <1>2
  <2> HIDE DEF upTo
  <2> QED
    BY <1>0, <2>1
<1>9. \A k : ReadTo(b, d, k) = b \o upTo(k)
  BY DEF ReadTo
<1> HIDE DEF upTo
<1> QED
  BY <1>0, <1>3, <1>4, <1>5, <1>7, <1>8, <1>9

LEMMA SplitAll ==
  ASSUME NEW old \in Nat, IncOk(inc), NEW l, NEW base \in SplitType(old),
         base = [list |-> l, line |-> <<>>, contLine |-> trace.contLine],
         NEW data \in Bytes, NEW bytes \in Bytes, NEW dropped \in BOOLEAN
  PROVE  /\ Split(l, data) \in SplitType(old)
         /\ SplitFits(base, bytes, dropped) => SplitFits(Split(l, data), bytes \o data, dropped)
<1> DEFINE n == Len(data)
           S == SplitType(old)
           Eq(g) == g = [k \in 0 .. n |-> IF k = 0 THEN base ELSE SplitNext(g[k - 1], data[k])]
           cur == CHOOSE g : Eq(g)
           F == [k \in 1 .. n |-> [x \in S |-> SplitNext(x, data[k])]]
           read(k) == ReadTo(bytes, data, k)
<1>1. n \in Nat /\ \A k \in 1 .. n : data[k] \in Letter \cup {NL}
  BY DEF Bytes
<1>2. Split(l, data) = cur[n]
  BY Zenon DEF Split
<1>3. ASSUME NEW k \in 1 .. n, NEW x \in S PROVE SplitNext(x, data[k]) \in S
  <2> DEFINE c == data[k]
  <2>1. c \in Letter \cup {NL}
    BY <1>1
  <2> HIDE DEF c
  <2>2. SplitNext(x, c) \in SplitType(old)
    BY <2>1, SplitNextFits
  <2> QED
    BY <2>2 DEF c
<1> HIDE DEF n, S
<1>4. base \in S
  BY DEF S
<1>5. F \in [1 .. n -> [S -> S]]
  BY <1>3
<1> HIDE DEF F
<1>6. PICK f : IsLoop(f, base, F, S, n)
  BY <1>1, <1>4, <1>5, LoopRuns
<1>7. f \in [0 .. n -> S] /\ f[0] = base /\ \A k \in 1 .. n : f[k] = SplitNext(f[k - 1], data[k])
  <2>1. f \in [0 .. n -> S] /\ f[0] = base /\ \A k \in 1 .. n : f[k] = F[k][f[k - 1]]
    BY <1>6 DEF IsLoop
  <2>2. ASSUME NEW k \in 1 .. n PROVE f[k] = SplitNext(f[k - 1], data[k])
    <3>1. k - 1 \in 0 .. n
      BY <1>1
    <3>2. f[k - 1] \in S
      BY <2>1, <3>1
    <3> QED
      BY <2>1, <3>2 DEF F
  <2> QED
    BY <2>1, <2>2
<1>8. Eq(f)
  <2>1. f = [k \in 0 .. n |-> f[k]]
    BY <1>7
  <2>2. \A k \in 0 .. n : f[k] = IF k = 0 THEN base ELSE SplitNext(f[k - 1], data[k])
    BY <1>1, <1>7
  <2> QED
    BY <2>1, <2>2, Zenon
<1> HIDE DEF Eq
<1>9. Eq(cur)
  BY <1>8
<1> HIDE DEF cur
<1>10. /\ cur[0] = base
       /\ \A k \in 1 .. n : cur[k] = SplitNext(cur[k - 1], data[k])
  BY <1>1, <1>9 DEF Eq
<1>11. /\ read(0) = bytes /\ read(n) = bytes \o data
       /\ \A k \in 0 .. n : read(k) \in Bytes
       /\ \A k \in 1 .. n : read(k) = Append(read(k - 1), data[k])
  BY ReadIsOneMore DEF n
<1> HIDE DEF read
<1> DEFINE P == {k \in 0 .. n : /\ cur[k] \in S
                                /\ SplitFits(base, bytes, dropped) => SplitFits(cur[k], read(k), dropped)}
<1>12. 0 \in P
  BY <1>1, <1>4, <1>10, <1>11
<1>13. ASSUME NEW k \in 1 .. n, k - 1 \in P PROVE k \in P
  <2> DEFINE x == cur[k - 1]
             b == read(k - 1)
             c == data[k]
  <2>1. k \in 0 .. n /\ k - 1 \in 0 .. n
    BY <1>1
  <2>2. x \in S /\ (SplitFits(base, bytes, dropped) => SplitFits(x, b, dropped))
    BY <1>13
  <2>3. b \in Bytes /\ c \in Letter \cup {NL}
    BY <1>1, <1>11, <2>1
  <2>4. cur[k] = SplitNext(x, c) /\ read(k) = Append(b, c)
    BY <1>10, <1>11
  <2> HIDE DEF x, b, c
  <2>5. SplitNext(x, c) \in S /\ (SplitFits(x, b, dropped) => SplitFits(SplitNext(x, c), Append(b, c), dropped))
    BY <2>2, <2>3, SplitNextFits DEF S
  <2> QED
    BY <2>1, <2>2, <2>4, <2>5
<1>14. n \in P
  <2> HIDE DEF P
  <2>1. n \in 0 .. n
    BY <1>1
  <2> QED
    BY <1>1, <1>12, <1>13, <2>1, EachTurn
<1>15. cur[n] \in S /\ (SplitFits(base, bytes, dropped) => SplitFits(cur[n], read(n), dropped))
  BY <1>14
<1> QED
  BY <1>2, <1>11, <1>15 DEF S

\* The text of a trace is in its lines: rows and selection do not matter.
LEMMA TraceSame ==
  ASSUME NEW l, NEW q, ListTyped(l), ListTyped(q), q.text = l.text, q.lines = l.lines
  PROVE  /\ Straight(q) <=> Straight(l)
         /\ \A b : Whole(q, b) <=> Whole(l, b)
         /\ \A b : \A g \in BOOLEAN : BreaksShown(q, g, b) <=> BreaksShown(l, g, b)
<1> DEFINE n == Len(l.lines)
<1>1. n \in Nat /\ n = Len(q.lines)
  BY ListFields
<1>2. \A k \in 1 .. n : TextOf(q, q.lines[k]) = TextOf(l, l.lines[k])
  BY DEF TextOf
<1>3. n <= Len(l.lines) /\ n <= Len(q.lines)
  BY <1>1
<1> HIDE DEF n
<1>4. \A k \in 0 .. n : AllText(q, k) = AllText(l, k)
  BY <1>1, <1>2, <1>3, AllTextSame
<1>5. Straight(q) <=> Straight(l)
  BY DEF Straight
<1>6. AllText(q, n) = AllText(l, n)
  BY <1>1, <1>4
<1>7. \A b : Whole(q, b) <=> Whole(l, b)
  BY <1>1, <1>6 DEF Whole, n
<1>8. ASSUME NEW b, NEW g \in BOOLEAN PROVE BreaksShown(q, g, b) <=> BreaksShown(l, g, b)
  <2> DEFINE m == Ended(l, g)
  <2>1. m = Ended(q, g) /\ m <= n /\ m \in Int
    BY <1>1 DEF Ended, n
  <2> HIDE DEF m
  <2>2. \A k \in 1 .. m : AllText(q, k) = AllText(l, k)
    BY <1>1, <1>4, <2>1
  <2>3. LineEnds(q, m) = LineEnds(l, m)
    BY <2>2 DEF LineEnds
  <2> QED
    BY <2>1, <2>3 DEF BreaksShown, m
<1> QED
  BY <1>5, <1>7, <1>8

LEMMA TakenFits ==
  ASSUME NEW old \in Nat, IncOk(inc), ListOk(list, inc, old), SelectedOk(list),
         trace.contLine \in BOOLEAN, trace.contLine => list.lines # <<>>, NEW data \in Bytes
  PROVE  LET now == Taken(list, data) IN
           /\ now.contLine \in BOOLEAN /\ ListOk(now.list, inc, old) /\ SelectedOk(now.list)
           /\ now.contLine => now.list.lines # <<>>
           /\ \A bytes \in Bytes, dropped \in BOOLEAN :
                /\ Straight(list) /\ Whole(list, bytes)
                /\ dropped \/ BreaksShown(list, trace.contLine, bytes)
                => /\ Straight(now.list) /\ Whole(now.list, bytes \o data)
                   /\ dropped \/ BreaksShown(now.list, now.contLine, bytes \o data)
<1> DEFINE e == <<>>
           base == [list |-> list, line |-> e, contLine |-> trace.contLine]
           s == Split(list, data)
           l == s.list
           more == s.contLine
           line == s.line
           n == Len(l.lines)
           q == AddLine(l, line)
           now == Taken(list, data)
           Lists == [text : Seq(LineType), lines : Seq(Nat), rows : Seq(Nat), selected : Nat]
<1>1. e \in Texts
  BY DEF Texts
<1>2. list \in Lists
  BY DEF ListOk, ListTyped
<1> HIDE DEF e
<1>3. base.list = list /\ base.line = e /\ base.contLine = trace.contLine
      /\ base \in [list : Lists, line : Texts, contLine : BOOLEAN]
  BY <1>1, <1>2
<1>4. base = [list |-> list, line |-> <<>>, contLine |-> trace.contLine]
  BY DEF e
<1> HIDE DEF base
<1>5. base \in SplitType(old)
  BY <1>3 DEF SplitType
<1>6. /\ s \in SplitType(old)
      /\ \A bytes \in Bytes, dropped \in BOOLEAN :
           SplitFits(base, bytes, dropped) => SplitFits(s, bytes \o data, dropped)
  BY <1>4, <1>5, SplitAll
<1>7. now = IF line = <<>> THEN [list |-> l, contLine |-> more] ELSE [list |-> q, contLine |-> TRUE]
  BY DEF Taken
<1> HIDE DEF s, now
<1>8. /\ line \in Texts /\ more \in BOOLEAN
      /\ ListOk(l, inc, old) /\ SelectedOk(l) /\ (more => l.lines # <<>>)
  BY <1>6 DEF SplitType
<1> HIDE DEF l, more, line
<1>9. ListTyped(l) /\ n \in Nat
  BY <1>8, ListFields DEF ListOk
<1>10. ListOk(q, inc, old) /\ SelectedOk(q) /\ q.lines # <<>>
  BY <1>8, LineAdded
<1>11. now.contLine \in BOOLEAN /\ ListOk(now.list, inc, old) /\ SelectedOk(now.list) /\ (now.contLine => now.list.lines # <<>>)
  <2>1. CASE line = <<>>
    <3>1. now.list = l /\ now.contLine = more
      BY <1>7, <2>1
    <3> QED
      BY <1>8, <3>1
  <2>2. CASE line # <<>>
    <3> HIDE DEF q
    <3>1. now.list = q /\ now.contLine = TRUE
      BY <1>7, <2>2
    <3> QED
      BY <1>10, <3>1
  <2> QED
    BY <2>1, <2>2
<1>12. ASSUME NEW bytes \in Bytes, NEW dropped \in BOOLEAN,
              Straight(list), Whole(list, bytes), dropped \/ BreaksShown(list, trace.contLine, bytes)
       PROVE  /\ Straight(now.list) /\ Whole(now.list, bytes \o data)
              /\ dropped \/ BreaksShown(now.list, now.contLine, bytes \o data)
  <2> DEFINE all == bytes \o data
  <2>1. SplitFits(base, bytes, dropped)
    <3> DEFINE a == AllText(list, Len(list.lines))
    <3>1. a = LettersOf(bytes)
      BY <1>12 DEF Whole
    <3>2. a \in Seq(Letter)
      BY <3>1, LettersFacts DEF Texts
    <3> HIDE DEF a
    <3>3. a \o <<>> = a
      BY <3>2, ConcatEmptySeq
    <3>4. a \o base.line = LettersOf(bytes)
      BY <1>3, <3>1, <3>3 DEF e
    <3> QED
      BY <1>3, <1>12, <3>4 DEF SplitFits, a
  <2>2. SplitFits(s, all, dropped)
    BY <1>6, <2>1
  <2> HIDE DEF all
  <2>3. Straight(l) /\ AllText(l, n) \o line = LettersOf(all) /\ (dropped \/ BreaksShown(l, more, all))
    BY <2>2 DEF SplitFits, l, line, more
  <2>4. CASE line = <<>>
    <3>1. now.list = l /\ now.contLine = more
      BY <1>7, <2>4
    <3> DEFINE a == AllText(l, n)
    <3>2. n \in 0 .. n
      BY <1>9
    <3>3. a \in Seq(Letter)
      BY <1>9, <3>2, AllTextFacts DEF Texts
    <3> HIDE DEF a
    <3>4. a \o <<>> = a
      BY <3>3, ConcatEmptySeq
    <3>5. a = LettersOf(all)
      BY <2>3, <2>4, <3>4 DEF a
    <3>6. Whole(l, all)
      BY <3>5 DEF Whole, a
    <3> QED
      BY <2>3, <3>1, <3>6 DEF all
  <2>5. CASE line # <<>>
    <3>1. now.list = q /\ now.contLine = TRUE
      BY <1>7, <2>5
    <3>2. /\ Straight(q) /\ Len(q.lines) = n + 1 /\ AllText(q, n + 1) = AllText(l, n) \o line
          /\ \A k \in 0 .. n : AllText(q, k) = AllText(l, k)
      BY <1>8, <2>3, AddWhole
    <3>3. Whole(q, all)
      BY <2>3, <3>2 DEF Whole
    <3>4. BreaksShown(l, more, all) => BreaksShown(q, TRUE, all)
      <4>1. (n + 1) - 1 = n
        BY <1>9
      <4>2. Ended(q, TRUE) = n
        BY <3>2, <4>1 DEF Ended
      <4>3. \A k \in 1 .. Ended(l, more) : k \in 1 .. n /\ k \in 0 .. n
        BY <1>9 DEF Ended
      <4> HIDE DEF q, n
      <4>4. LineEnds(l, Ended(l, more)) \subseteq LineEnds(q, n)
        <5> SUFFICES ASSUME NEW k \in 1 .. Ended(l, more) PROVE \E i \in 1 .. n : Len(AllText(l, k)) = Len(AllText(q, i))
          BY DEF LineEnds
        <5>1. k \in 1 .. n /\ k \in 0 .. n
          BY <4>3
        <5>2. Len(AllText(l, k)) = Len(AllText(q, k))
          BY <3>2, <5>1
        <5> QED
          BY <5>1, <5>2
      <4> QED
        BY <4>2, <4>4 DEF BreaksShown
    <3> QED
      BY <2>3, <3>1, <3>2, <3>3, <3>4 DEF all
  <2> QED
    BY <2>4, <2>5
<1> QED
  BY <1>11, <1>12 DEF now

(* Steps. *)

LEMMA NothingFits ==
  /\ ListOk(NoLines, NoInc, 0) /\ SelectedOk(NoLines) /\ IncOk(NoInc)
  /\ NoTrace \in TraceType /\ NoHist \in HistType /\ NoTrace.contLine = FALSE
  /\ Straight(NoLines) /\ Whole(NoLines, NoHist.taken) /\ BreaksShown(NoLines, FALSE, NoHist.taken)
<1> DEFINE e == <<>>
           l == NoLines
<1>1. e \in Seq(Nat) /\ e \in Seq(LineType) /\ e \in Texts /\ e \in Bytes /\ Len(e) = 0 /\ DOMAIN e = {} /\ e = <<>>
  BY DEF Texts, Bytes
<1>2. l = [text |-> e, lines |-> e, rows |-> e, selected |-> 0]
  BY DEF NoLines
<1>3. NoHist.taken = e
  BY DEF NoHist
<1>4. NoTrace \in TraceType /\ NoHist \in HistType /\ NoTrace.contLine = FALSE
  <2>1. NoTrace = [pipe |-> e, stdio |-> e, written |-> 0, contLine |-> FALSE, follow |-> FALSE, tracing |-> TRUE]
    BY DEF NoTrace
  <2>2. NoHist = [taken |-> e, dropped |-> FALSE, old |-> 0]
    BY DEF NoHist
  <2> HIDE DEF e
  <2> QED
    BY <1>1, <2>1, <2>2 DEF TraceType, HistType
<1>5. IncOk(NoInc)
  <2>1. NoInc = [active |-> "none", buffer |-> [m \in {"search", "filter"} |-> e], filtering |-> FALSE]
    BY DEF NoInc
  <2> HIDE DEF e
  <2>2. NoInc.buffer = [m \in {"search", "filter"} |-> e] /\ NoInc.filtering = FALSE /\ NoInc.active = "none"
    BY <2>1
  <2>3. [m \in {"search", "filter"} |-> e] \in [{"search", "filter"} -> Texts]
    BY <1>1
  <2>4. Filter(NoInc) = e
    BY <2>2 DEF Filter
  <2> QED
    BY <1>1, <2>1, <2>3, <2>4 DEF IncOk
<1> HIDE DEF e, l
<1>6. /\ l \in [text : Seq(LineType), lines : Seq(Nat), rows : Seq(Nat), selected : Nat]
      /\ l.text = e /\ l.lines = e /\ l.rows = e /\ l.selected = 0
  BY <1>1, <1>2
<1>7. ToSet(e) = {} /\ IsInjective(e)
  BY <1>1 DEF ToSet, IsInjective
<1>8. 1 .. Len(e) = {}
  BY <1>1
<1>9. ListTyped(l)
  BY <1>6, <1>7, <1>8 DEF ListTyped
<1>10. PiecesIn(l) /\ RowPasses(l, NoInc) /\ NoneMissing(l, NoInc, 0)
  BY <1>6, <1>7, <1>8 DEF PiecesIn, RowPasses, NoneMissing
<1>11. Along(e, e, e)
  BY <1>1, <1>8 DEF Along
<1>12. ListOk(l, NoInc, 0)
  BY <1>6, <1>9, <1>10, <1>11 DEF ListOk, InOrder
<1>13. SelectedOk(l)
  BY <1>1, <1>6 DEF SelectedOk
<1>14. Straight(l)
  BY <1>6, <1>8 DEF Straight
<1>15. LettersOf(e) = <<>>
  <2> DEFINE r == Kept(e, Letter)
  <2>1. r \in Seq(Nat) /\ \E at : PickedTo(at, e, Letter, r, Len(e))
    BY <1>1, KeptFacts
  <2> HIDE DEF r
  <2>2. PICK at : PickedTo(at, e, Letter, r, Len(e))
    BY <2>1
  <2>3. at \in [1 .. Len(r) -> {}]
    BY <1>8, <2>2 DEF PickedTo
  <2>4. ~(1 \in 1 .. Len(r)) /\ Len(r) \in Nat
    BY <2>1, <2>3
  <2>5. Len(r) = 0
    BY <2>4
  <2>6. r = <<>>
    BY <2>1, <2>5
  <2> QED
    BY <2>6 DEF LettersOf, r
<1>16. Whole(l, e)
  <2>1. AllText(l, 0) = <<>>
    BY <1>9, AllTextFacts
  <2> QED
    BY <1>1, <1>6, <1>15, <2>1 DEF Whole
<1>17. BreaksShown(l, FALSE, e)
  <2>1. Breaks(e) = {}
    BY <1>8 DEF Breaks
  <2> QED
    BY <2>1 DEF BreaksShown
<1> QED
  BY <1>3, <1>4, <1>5, <1>12, <1>13, <1>14, <1>16, <1>17 DEF l

LEMMA InitShows == InfoInit => InfoInv
<1> SUFFICES ASSUME InfoInit PROVE InfoInv
  OBVIOUS
<1>1. /\ kind \in Kinds /\ open = FALSE
      /\ list = NoLines /\ inc = NoInc /\ trace = NoTrace /\ hist = NoHist
  BY DEF InfoInit
<1>2. hist.old = 0
  BY <1>1 DEF NoHist
<1>3. ListOk(list, inc, hist.old) /\ SelectedOk(list) /\ IncOk(inc) /\ trace \in TraceType /\ hist \in HistType
  BY <1>1, <1>2, NothingFits
<1>4. TraceOk
  BY <1>1, NothingFits DEF TraceOk
<1> QED
  BY <1>1, <1>3, <1>4 DEF InfoInv

LEMMA DoneShows ==
  ASSUME InfoInv, Done
  PROVE  InfoInv'
<1>1. /\ kind' \in Kinds /\ open' = FALSE
      /\ list' = NoLines /\ inc' = NoInc /\ trace' = NoTrace /\ hist' = NoHist
  BY DEF Done, InfoInv
<1>2. hist'.old = 0
  BY <1>1 DEF NoHist
<1>3. ListOk(list', inc', hist'.old) /\ SelectedOk(list') /\ IncOk(inc') /\ trace' \in TraceType /\ hist' \in HistType
  BY <1>1, <1>2, NothingFits
<1>4. TraceOk'
  BY <1>1, NothingFits DEF TraceOk
<1> QED
  BY <1>1, <1>3, <1>4 DEF InfoInv

LEMMA SnapshotShows ==
  ASSUME InfoInv, kind = "snapshot", TakeSnapshot, open' \in BOOLEAN, UNCHANGED <<kind, inc, trace>>
  PROVE  InfoInv'
<1>1. PICK found \in Outcomes : Scan(found) /\ hist' = [hist EXCEPT !.old = Len(list.text)]
  BY DEF TakeSnapshot
<1>2. found \in Seq(Texts)
  BY InfoScreenAssumption DEF Texts
<1>3. /\ kind \in Kinds /\ trace \in TraceType /\ hist \in HistType
      /\ IncOk(inc) /\ ListOk(list, inc, hist.old) /\ TraceOk
  BY DEF InfoInv
<1> DEFINE m == Len(list.text)
<1>4. m \in Nat
  BY <1>3 DEF ListOk, ListTyped
<1> HIDE DEF m
<1>5. hist' \in HistType /\ hist'.old = m
  BY <1>1, <1>3, <1>4 DEF HistType, m
<1>6. ListOk(list', inc, m) /\ SelectedOk(list')
  BY <1>1, <1>2, <1>3, ScanFits DEF m
<1>7. ListOk(list', inc', hist'.old)
  BY <1>5, <1>6
<1>8. ~trace.contLine /\ kind # "trace"
  BY <1>3 DEF TraceOk
<1>9. TraceOk'
  BY <1>8 DEF TraceOk
<1> QED
  BY <1>3, <1>5, <1>6, <1>7, <1>9 DEF InfoInv

\* The lines stay, and what is shown of them changes.
LEMMA SameLinesShow ==
  ASSUME InfoInv, kind' = kind, open' \in BOOLEAN, hist' = hist, trace' \in TraceType,
         trace'.contLine = trace.contLine, IncOk(inc'), ListOk(list', inc', hist.old), SelectedOk(list'),
         list'.text = list.text, list'.lines = list.lines
  PROVE  InfoInv'
<1>1. /\ kind \in Kinds /\ hist \in HistType /\ TraceOk /\ ListOk(list, inc, hist.old) /\ trace \in TraceType
  BY DEF InfoInv
<1> DEFINE l == list
           q == list'
           g == trace.contLine
           b == hist.taken
<1>2. ListTyped(l) /\ ListTyped(q) /\ q.text = l.text /\ q.lines = l.lines /\ g \in BOOLEAN
  BY <1>1 DEF ListOk, TraceType
<1>3. /\ kind # "trace" => ~g
      /\ g => l.lines # <<>>
      /\ kind = "trace" => Straight(l) /\ Whole(l, b) /\ (hist.dropped \/ BreaksShown(l, g, b))
  BY <1>1 DEF TraceOk
<1> HIDE DEF l, q, g, b
<1>4. /\ Straight(q) <=> Straight(l)
      /\ Whole(q, b) <=> Whole(l, b)
      /\ BreaksShown(q, g, b) <=> BreaksShown(l, g, b)
  BY <1>2, TraceSame
<1>5. /\ kind # "trace" => ~g
      /\ g => q.lines # <<>>
      /\ kind = "trace" => Straight(q) /\ Whole(q, b) /\ (hist.dropped \/ BreaksShown(q, g, b))
  BY <1>2, <1>3, <1>4
<1>6. TraceOk'
  BY <1>5 DEF TraceOk, q, g, b
<1> QED
  BY <1>1, <1>6 DEF InfoInv

\* The selection moves.
LEMMA SelectionShows ==
  ASSUME InfoInv, kind' = kind, open' \in BOOLEAN, hist' = hist, trace' \in TraceType,
         trace'.contLine = trace.contLine, inc' = inc,
         list' = list \/ \E i \in Int : list' = SetSelected(list, i)
  PROVE  InfoInv'
<1>1. IncOk(inc) /\ ListOk(list, inc, hist.old) /\ SelectedOk(list) /\ ListTyped(list)
  BY DEF InfoInv, ListOk
<1>2. ListOk(list', inc, hist.old) /\ SelectedOk(list') /\ list'.text = list.text /\ list'.lines = list.lines
  <2>1. CASE list' = list
    BY <1>1, <2>1
  <2>2. ASSUME NEW i \in Int, list' = SetSelected(list, i)
        PROVE  ListOk(list', inc, hist.old) /\ SelectedOk(list') /\ list'.text = list.text /\ list'.lines = list.lines
    <3> DEFINE q == SetSelected(list, i)
    <3>1. ListOk(q, inc, hist.old) /\ SelectedOk(q)
      BY <1>1, SetSelectedFits
    <3>2. q.text = list.text /\ q.lines = list.lines
      BY <1>1, SetSelectedFacts
    <3> HIDE DEF q
    <3>3. list' = q
      BY <2>2 DEF q
    <3> QED
      BY <3>1, <3>2, <3>3
  <2> QED
    BY <2>1, <2>2
<1>3. ListOk(list', inc', hist.old) /\ IncOk(inc')
  BY <1>1, <1>2
<1> QED
  BY <1>2, <1>3, SameLinesShow

LEMMA WriteShows ==
  ASSUME InfoInv, Write
  PROVE  InfoInv'
<1>1. trace \in TraceType /\ open \in BOOLEAN
  BY DEF InfoInv
<1>2. PICK c \in Output :
        trace' = [trace EXCEPT !.pipe = IF Len(@) < PipeSize THEN Append(@, c) ELSE @,
                               !.written = @ + 1]
  BY DEF Write
<1> DEFINE p == IF Len(trace.pipe) < PipeSize THEN Append(trace.pipe, c) ELSE trace.pipe
           w == trace.written + 1
<1>3. p \in Bytes /\ w \in Nat
  <2>1. c \in Letter \cup {NL} /\ trace.pipe \in Bytes /\ trace.written \in Nat
    BY <1>1, InfoScreenAssumption DEF TraceType
  <2>2. Append(trace.pipe, c) \in Bytes
    BY <2>1 DEF Bytes
  <2> QED
    BY <2>1, <2>2
<1> HIDE DEF p, w
<1>4. trace' = [trace EXCEPT !.pipe = p, !.written = w]
  BY <1>2 DEF p, w
<1>5. trace' \in TraceType /\ trace'.contLine = trace.contLine
  BY <1>1, <1>3, <1>4 DEF TraceType
<1> QED
  BY <1>1, <1>5, SelectionShows DEF Write

LEMMA SameTraceType ==
  ASSUME trace \in TraceType, NEW b \in BOOLEAN
  PROVE  /\ [trace EXCEPT !.follow = b] \in TraceType /\ [trace EXCEPT !.follow = b].contLine = trace.contLine
         /\ [trace EXCEPT !.tracing = b] \in TraceType /\ [trace EXCEPT !.tracing = b].contLine = trace.contLine
BY DEF TraceType

LEMMA ToggleShows ==
  ASSUME InfoInv, ToggleFollow \/ ToggleTracing
  PROVE  InfoInv'
<1>1. trace \in TraceType /\ open \in BOOLEAN /\ ListTyped(list)
  BY DEF InfoInv, ListOk
<1>2. CASE ToggleFollow
  <2> DEFINE b == ~trace.follow
  <2>1. b \in BOOLEAN
    BY <1>1 DEF TraceType
  <2>2. trace' = [trace EXCEPT !.follow = b]
    BY <1>2 DEF ToggleFollow
  <2> HIDE DEF b
  <2>3. trace' \in TraceType /\ trace'.contLine = trace.contLine
    BY <1>1, <2>1, <2>2, SameTraceType
  <2>4. list' = list \/ \E i \in Int : list' = SetSelected(list, i)
    <3>1. list' = SetSelected(list, Len(list.rows) - 1) \/ list' = list
      BY <1>2 DEF ToggleFollow, SetLast
    <3>2. Len(list.rows) - 1 \in Int
      BY <1>1, ListFields
    <3> QED
      BY <3>1, <3>2
  <2> QED
    BY <1>1, <1>2, <2>3, <2>4, SelectionShows DEF ToggleFollow
<1>3. CASE ToggleTracing
  <2> DEFINE b == ~trace.tracing
  <2>1. b \in BOOLEAN
    BY <1>1 DEF TraceType
  <2>2. trace' = [trace EXCEPT !.tracing = b]
    BY <1>3 DEF ToggleTracing
  <2> HIDE DEF b
  <2>3. trace' \in TraceType /\ trace'.contLine = trace.contLine
    BY <1>1, <2>1, <2>2, SameTraceType
  <2> QED
    BY <1>1, <1>3, <2>3, SelectionShows DEF ToggleTracing
<1> QED
  BY <1>2, <1>3

LEMMA MoveShows ==
  ASSUME InfoInv, Move
  PROVE  InfoInv'
<1>1. trace \in TraceType /\ open \in BOOLEAN /\ ListTyped(list)
  BY DEF InfoInv, ListOk
<1>2. PICK n \in 0 .. Len(list.rows) : list' = SetSelected(list, n)
  BY DEF Move
<1> DEFINE b == FALSE
<1>3. trace' = [trace EXCEPT !.follow = b] /\ b \in BOOLEAN
  BY DEF Move
<1> HIDE DEF b
<1>4. trace' \in TraceType /\ trace'.contLine = trace.contLine
  BY <1>1, <1>3, SameTraceType
<1>5. n \in Int
  BY <1>1, <1>2, ListFields
<1> QED
  BY <1>1, <1>2, <1>4, <1>5, SelectionShows DEF Move

\* What is found first, and what is found next, are rows.
LEMMA SearchIs ==
  ASSUME NEW l, ListTyped(l), NEW t
  PROVE  Search(l, t) = l \/ \E i \in Int : Search(l, t) = SetSelected(l, i)
<1> DEFINE S == Found(l, t)
           least == CHOOSE n \in S : \A k \in S : n <= k
<1>1. S \in SUBSET Nat
  BY ListFields DEF Found
<1>2. Search(l, t) = IF S = {} THEN l ELSE SetSelected(l, least)
  BY DEF Search
<1> HIDE DEF S
<1>3. ASSUME S # {} PROVE least \in Int
  <2>1. \E n \in S : \A k \in S : n <= k
    BY <1>1, <1>3, LeastNat
  <2>2. least \in S
    BY <2>1
  <2> HIDE DEF least
  <2> QED
    BY <1>1, <2>2
<1> HIDE DEF least
<1> QED
  BY <1>2, <1>3

LEMMA NextMatchShows ==
  ASSUME InfoInv, NextMatch
  PROVE  InfoInv'
<1> DEFINE here  == list.selected
           size  == Len(list.rows)
           S     == {k \in 1 .. size - 1 : (here + k) % size \in Found(list, Text)}
           least == CHOOSE k \in S : \A j \in S : k <= j
<1>1. trace \in TraceType /\ open \in BOOLEAN /\ ListTyped(list)
  BY DEF InfoInv, ListOk
<1>2. here \in Nat /\ size \in Nat /\ size > 0
  <2>1. here \in Nat /\ list.rows \in Seq(Nat) /\ list.rows # <<>>
    BY <1>1, ListFields DEF NextMatch
  <2> QED
    BY <2>1
<1>3. list' = IF S = {} THEN list ELSE SetSelected(list, (here + least) % size)
  BY DEF NextMatch
<1>4. S \in SUBSET Nat
  BY <1>2
<1> HIDE DEF S
<1>5. ASSUME S # {} PROVE (here + least) % size \in Int
  <2>1. \E n \in S : \A k \in S : n <= k
    BY <1>4, <1>5, LeastNat
  <2>2. least \in S
    BY <2>1
  <2> HIDE DEF least, here, size
  <2>3. least \in Nat
    BY <1>4, <2>2
  <2>4. here + least \in Nat
    BY <1>2, <2>3
  <2> QED
    BY <1>2, <2>4
<1> HIDE DEF least, here, size
<1>6. list' = list \/ \E i \in Int : list' = SetSelected(list, i)
  BY <1>3, <1>5
<1> QED
  BY <1>1, <1>6, SelectionShows DEF NextMatch

(* Keys of the search and the filter. *)

LEMMA IncFields ==
  ASSUME NEW i, IncOk(i)
  PROVE  /\ i.active \in {"none", "search", "filter"} /\ i.filtering \in BOOLEAN
         /\ i.buffer \in [{"search", "filter"} -> Texts] /\ i.filtering = (i.buffer["filter"] # <<>>)
BY DEF IncOk, Filter

IncParts(i, a, f, b) ==
  /\ a \in {"none", "search", "filter"} /\ f \in BOOLEAN /\ b \in [{"search", "filter"} -> Texts]
  /\ f = (b["filter"] # <<>>) /\ i = [active |-> a, buffer |-> b, filtering |-> f]

LEMMA IncMade ==
  ASSUME NEW i, NEW a, NEW f, NEW b, IncParts(i, a, f, b)
  PROVE  IncOk(i) /\ i.active = a /\ i.filtering = f /\ Filter(i) = b["filter"]
BY DEF IncOk, Filter, IncParts

LEMMA ActivateShows ==
  ASSUME InfoInv, Activate
  PROVE  InfoInv'
<1>1. trace \in TraceType /\ open \in BOOLEAN /\ IncOk(inc) /\ ListOk(list, inc, hist.old) /\ SelectedOk(list)
  BY DEF InfoInv
<1>2. PICK m \in {"search", "filter"} : inc' = [inc EXCEPT !.active = m]
  BY DEF Activate
<1>3. IncOk(inc') /\ inc'.filtering = inc.filtering /\ Filter(inc') = Filter(inc)
  BY <1>1, <1>2 DEF IncOk, Filter
<1>4. ListOk(list, inc', hist.old)
  BY <1>1, <1>3, SameFilter
<1>5. list' = list
  BY DEF Activate
<1>6. ListOk(list', inc', hist.old) /\ SelectedOk(list') /\ list'.text = list.text /\ list'.lines = list.lines
  BY <1>1, <1>4, <1>5
<1> QED
  BY <1>1, <1>3, <1>6, SameLinesShow DEF Activate

LEMMA WeakPanelFits ==
  ASSUME NEW l, NEW old, ListOk(l, inc, old), l.text = list.text, l.lines = list.lines, NEW i, IncOk(i)
  PROVE  /\ ListOk(UpdateWeakPanel(l, i), i, old) /\ SelectedOk(UpdateWeakPanel(l, i))
         /\ UpdateWeakPanel(l, i).text = list.text /\ UpdateWeakPanel(l, i).lines = list.lines
<1>1. ListTyped(l)
  BY DEF ListOk
<1>2. UpdateWeakPanel(l, i).text = l.text /\ UpdateWeakPanel(l, i).lines = l.lines
  BY <1>1, WeakFacts
<1>3. ListOk(UpdateWeakPanel(l, i), i, old) /\ SelectedOk(UpdateWeakPanel(l, i))
  BY WeakFits
<1> QED
  BY <1>2, <1>3

LEMMA EditShows ==
  ASSUME InfoInv, inc.active # "none", NEW text \in Texts, NEW anew \in BOOLEAN, anew \/ text = Text,
         Edit(text, anew), UNCHANGED <<kind, open, trace, hist>>
  PROVE  InfoInv'
<1> DEFINE a == inc.active
           b == [inc.buffer EXCEPT ![a] = text]
           f == IF a = "filter" THEN text # <<>> ELSE inc.filtering
           new == [inc EXCEPT !.buffer[inc.active] = text,
                              !.filtering = IF inc.active = "filter" THEN text # <<>> ELSE @]
           l == Search(list, text)
           old == hist.old
<1>1. trace \in TraceType /\ open \in BOOLEAN /\ IncOk(inc) /\ ListOk(list, inc, old) /\ SelectedOk(list) /\ ListTyped(list)
  BY DEF InfoInv, ListOk
<1>2. /\ a \in {"search", "filter"} /\ inc.filtering \in BOOLEAN
      /\ inc.buffer \in [{"search", "filter"} -> Texts] /\ inc.filtering = (inc.buffer["filter"] # <<>>)
  BY <1>1, IncFields
<1>3. inc' = new /\ list' = IF anew /\ a = "filter" THEN UpdateWeakPanel(l, new) ELSE l
  BY DEF Edit
<1>4. new = [active |-> a, buffer |-> b, filtering |-> f]
  <2>1. inc \in [active : {"none", "search", "filter"}, buffer : [{"search", "filter"} -> Texts], filtering : BOOLEAN]
    BY <1>1 DEF IncOk
  <2>2. new = [inc EXCEPT !.buffer = b, !.filtering = f]
    BY <2>1
  <2> HIDE DEF b, f, new
  <2> QED
    BY <2>1, <2>2
<1>5. b \in [{"search", "filter"} -> Texts] /\ b["filter"] = IF a = "filter" THEN text ELSE inc.buffer["filter"]
  BY <1>2
<1>6. f \in BOOLEAN /\ f = (b["filter"] # <<>>)
  <2>1. CASE a = "filter"
    BY <1>5, <2>1
  <2>2. CASE a # "filter"
    BY <1>2, <1>5, <2>2
  <2> QED
    BY <2>1, <2>2
<1> HIDE DEF b, f, new
<1>7. IncOk(new) /\ new.filtering = f /\ Filter(new) = b["filter"]
  <2>1. a \in {"none", "search", "filter"}
    BY <1>2
  <2> HIDE DEF a
  <2>2. IncParts(new, a, f, b)
    BY <1>4, <1>5, <1>6, <2>1 DEF IncParts
  <2> QED
    BY <2>2, IncMade
<1>8. ListOk(l, inc, old) /\ SelectedOk(l) /\ l.text = list.text /\ l.lines = list.lines
  <2>1. CASE l = list
    BY <1>1, <2>1
  <2>2. ASSUME NEW i \in Int, l = SetSelected(list, i)
        PROVE  ListOk(l, inc, old) /\ SelectedOk(l) /\ l.text = list.text /\ l.lines = list.lines
    <3>1. ListOk(SetSelected(list, i), inc, old) /\ SelectedOk(SetSelected(list, i))
      BY <1>1, SetSelectedFits
    <3>2. SetSelected(list, i).text = list.text /\ SetSelected(list, i).lines = list.lines
      BY <1>1, SetSelectedFacts
    <3> QED
      BY <2>2, <3>1, <3>2
  <2>3. l = list \/ \E i \in Int : l = SetSelected(list, i)
    BY <1>1, SearchIs
  <2> QED
    BY <2>1, <2>2, <2>3
<1> HIDE DEF l
<1>9. CASE anew /\ a = "filter"
  <2>1. list' = UpdateWeakPanel(l, new)
    BY <1>3, <1>9
  <2>2. /\ ListOk(UpdateWeakPanel(l, new), new, old) /\ SelectedOk(UpdateWeakPanel(l, new))
        /\ UpdateWeakPanel(l, new).text = list.text /\ UpdateWeakPanel(l, new).lines = list.lines
    BY <1>7, <1>8, WeakPanelFits
  <2>3. /\ ListOk(list', inc', old) /\ SelectedOk(list') /\ IncOk(inc')
        /\ list'.text = list.text /\ list'.lines = list.lines
    BY <1>3, <1>7, <2>1, <2>2
  <2> QED
    BY <1>1, <2>3, SameLinesShow
<1>10. CASE ~(anew /\ a = "filter")
  <2>1. list' = l
    BY <1>3, <1>10
  <2>2. Filter(new) = Filter(inc) /\ new.filtering = inc.filtering
    <3>1. b["filter"] = inc.buffer["filter"]
      <4>1. CASE a = "filter"
        <5>1. text = inc.buffer["filter"]
          BY <1>10, <4>1 DEF Text
        <5> QED
          BY <1>5, <4>1, <5>1
      <4> QED
        BY <1>5, <4>1
    <3> QED
      BY <1>2, <1>6, <1>7, <3>1 DEF Filter
  <2>3. ListOk(l, new, old)
    BY <1>8, <2>2, SameFilter
  <2>4. /\ ListOk(list', inc', old) /\ SelectedOk(list') /\ IncOk(inc')
        /\ list'.text = list.text /\ list'.lines = list.lines
    BY <1>3, <1>7, <1>8, <2>1, <2>3
  <2> QED
    BY <1>1, <2>4, SameLinesShow
<1> QED
  BY <1>9, <1>10

LEMMA TypeLetterShows ==
  ASSUME InfoInv, TypeLetter
  PROVE  InfoInv'
<1>1. IncOk(inc) /\ inc.active # "none" /\ UNCHANGED <<kind, open, trace, hist>>
  BY DEF InfoInv, TypeLetter
<1>2. Text \in Texts
  <2>1. inc.active \in {"search", "filter"} /\ inc.buffer \in [{"search", "filter"} -> Texts]
    BY <1>1, IncFields
  <2> QED
    BY <2>1 DEF Text
<1>3. ASSUME NEW c \in Letter, Edit(Append(Text, c), TRUE) PROVE InfoInv'
  <2> DEFINE t == Append(Text, c)
             anew == TRUE
  <2>1. t \in Texts /\ anew \in BOOLEAN /\ anew
    BY <1>2 DEF Texts
  <2>2. Edit(t, anew)
    BY <1>3
  <2> HIDE DEF t, anew
  <2> QED
    BY <1>1, <2>1, <2>2, EditShows
<1>4. ASSUME Text # <<>>, Edit(Front(Text), TRUE) PROVE InfoInv'
  <2> DEFINE t == Front(Text)
             anew == TRUE
  <2>1. anew \in BOOLEAN /\ anew
    OBVIOUS
  <2>3. t \in Texts
    <3> DEFINE u == Text
               n == Len(u)
    <3>1. u \in Seq(Letter) /\ n \in Nat /\ \A k \in 1 .. n : u[k] \in Letter
      BY <1>2 DEF Texts
    <3> HIDE DEF u
    <3>2. \A k \in 1 .. n - 1 : u[k] \in Letter
      BY <3>1
    <3>3. SubSeq(u, 1, n - 1) \in Seq(Letter)
      BY <3>1, <3>2, SubSeqProperties
    <3> QED
      BY <3>3 DEF Front, Texts, u
  <2>2. Edit(t, anew)
    BY <1>4
  <2> HIDE DEF t, anew
  <2> QED
    BY <1>1, <2>1, <2>2, <2>3, EditShows
<1>5. ASSUME Edit(Text, FALSE) PROVE InfoInv'
  <2> DEFINE t == Text
             anew == FALSE
  <2>1. t \in Texts /\ anew \in BOOLEAN /\ t = Text
    BY <1>2
  <2>2. Edit(t, anew)
    BY <1>5
  <2> HIDE DEF t, anew
  <2> QED
    BY <1>1, <2>1, <2>2, EditShows
<1> QED
  BY <1>3, <1>4, <1>5 DEF TypeLetter

\* Search or filter ends, also by a click.
LEMMA CloseFits ==
  ASSUME InfoInv, inc.active # "none", NEW l, ListOk(l, inc, hist.old), SelectedOk(l),
         l.text = list.text, l.lines = list.lines, NEW esc \in BOOLEAN, Close(l, esc),
         UNCHANGED <<kind, open, trace, hist>>
  PROVE  InfoInv'
<1> DEFINE e == <<>>
           none == "none"
           no == FALSE
           old == hist.old
           a == inc.active
           f == inc.filtering
           bf == inc.buffer
           new == IF inc.active = "search"
                  THEN [inc EXCEPT !.active = "none", !.buffer["search"] = <<>>]
                  ELSE IF esc THEN [inc EXCEPT !.active = "none", !.buffer["filter"] = <<>>,
                                               !.filtering = FALSE]
                  ELSE [inc EXCEPT !.active = "none"]
<1>1. trace \in TraceType /\ open \in BOOLEAN /\ IncOk(inc)
  BY DEF InfoInv
<1>2. /\ a \in {"search", "filter"} /\ f \in BOOLEAN
      /\ bf \in [{"search", "filter"} -> Texts] /\ f = (bf["filter"] # <<>>)
      /\ inc \in [active : {"none", "search", "filter"}, buffer : [{"search", "filter"} -> Texts], filtering : BOOLEAN]
  BY <1>1, IncFields DEF IncOk
<1>3. inc' = new /\ list' = IF a = "filter" THEN UpdateWeakPanel(l, new) ELSE l
  BY DEF Close
<1>4. e \in Texts /\ e = <<>>
  BY DEF Texts
<1>5. IncOk(new) /\ (a = "search" => Filter(new) = Filter(inc) /\ new.filtering = f)
  <2>1. CASE a = "search"
    <3> DEFINE b == [bf EXCEPT !["search"] = e]
    <3>1. new = [inc EXCEPT !.active = none, !.buffer = b]
      BY <1>2, <2>1
    <3> HIDE DEF e, new
    <3>2. b \in [{"search", "filter"} -> Texts] /\ b["filter"] = bf["filter"]
      BY <1>2, <1>4
    <3> HIDE DEF b
    <3>3. new = [active |-> none, buffer |-> b, filtering |-> f]
      BY <1>2, <3>1
    <3>4. none \in {"none", "search", "filter"} /\ f = (b["filter"] # <<>>)
      BY <1>2, <3>2
    <3> HIDE DEF none, f
    <3>5. IncOk(new) /\ new.filtering = f /\ Filter(new) = b["filter"]
      <4>1. IncParts(new, none, f, b)
        BY <1>2, <3>2, <3>3, <3>4 DEF IncParts
      <4> QED
        BY <4>1, IncMade
    <3> QED
      BY <3>2, <3>5 DEF Filter
  <2>2. CASE a # "search" /\ esc
    <3> DEFINE b == [bf EXCEPT !["filter"] = e]
    <3>1. new = [inc EXCEPT !.active = none, !.buffer = b, !.filtering = no]
      BY <1>2, <2>2
    <3> HIDE DEF e, new
    <3>2. b \in [{"search", "filter"} -> Texts] /\ b["filter"] = e
      BY <1>2, <1>4
    <3> HIDE DEF b
    <3>3. new = [active |-> none, buffer |-> b, filtering |-> no]
      BY <1>2, <3>1
    <3>4. none \in {"none", "search", "filter"} /\ no \in BOOLEAN /\ no = (b["filter"] # <<>>)
      BY <1>4, <3>2
    <3> HIDE DEF none, no
    <3>5. IncOk(new)
      <4>1. IncParts(new, none, no, b)
        BY <3>2, <3>3, <3>4 DEF IncParts
      <4> QED
        BY <4>1, IncMade
    <3> QED
      BY <2>2, <3>5
  <2>3. CASE a # "search" /\ ~esc
    <3>1. new = [inc EXCEPT !.active = none]
      BY <2>3
    <3> HIDE DEF new
    <3>3. new = [active |-> none, buffer |-> bf, filtering |-> f]
      BY <1>2, <3>1
    <3>4. none \in {"none", "search", "filter"}
      OBVIOUS
    <3> HIDE DEF none, f, bf
    <3>5. IncOk(new)
      <4>1. IncParts(new, none, f, bf)
        BY <1>2, <3>3, <3>4 DEF IncParts
      <4> QED
        BY <4>1, IncMade
    <3> QED
      BY <2>3, <3>5
  <2> QED
    BY <2>1, <2>2, <2>3
<1> HIDE DEF new
<1>6. CASE a = "filter"
  <2>1. list' = UpdateWeakPanel(l, new)
    BY <1>3, <1>6
  <2>2. /\ ListOk(UpdateWeakPanel(l, new), new, old) /\ SelectedOk(UpdateWeakPanel(l, new))
        /\ UpdateWeakPanel(l, new).text = list.text /\ UpdateWeakPanel(l, new).lines = list.lines
    BY <1>5, WeakPanelFits
  <2>3. /\ ListOk(list', inc', old) /\ SelectedOk(list') /\ IncOk(inc')
        /\ list'.text = list.text /\ list'.lines = list.lines
    BY <1>3, <1>5, <2>1, <2>2
  <2> QED
    BY <1>1, <2>3, SameLinesShow
<1>7. CASE a = "search"
  <2>1. list' = l
    BY <1>3, <1>7
  <2>3. ListOk(l, new, old)
    BY <1>5, <1>7, SameFilter
  <2>4. /\ ListOk(list', inc', old) /\ SelectedOk(list') /\ IncOk(inc')
        /\ list'.text = list.text /\ list'.lines = list.lines
    BY <1>3, <1>5, <2>1, <2>3
  <2> QED
    BY <1>1, <2>4, SameLinesShow
<1> QED
  BY <1>2, <1>6, <1>7

LEMMA CloseIncShows ==
  ASSUME InfoInv, CloseInc
  PROVE  InfoInv'
<1>1. ListOk(list, inc, hist.old) /\ SelectedOk(list)
  BY DEF InfoInv
<1>2. PICK esc \in BOOLEAN : Close(list, esc)
  BY DEF CloseInc
<1> QED
  BY <1>1, <1>2, CloseFits DEF CloseInc

LEMMA ClickShows ==
  ASSUME InfoInv, Click
  PROVE  InfoInv'
<1>1. ListOk(list, inc, hist.old) /\ ListTyped(list) /\ trace \in TraceType /\ open \in BOOLEAN
  BY DEF InfoInv, ListOk
<1>2. PICK n \in 0 .. Len(list.rows) :
        IF inc.active # "none"
        THEN Close(SetSelected(list, n), FALSE) /\ UNCHANGED trace
        ELSE /\ list' = SetSelected(list, n)
             /\ trace' = [trace EXCEPT !.follow = FALSE]
             /\ UNCHANGED inc
  BY DEF Click
<1> DEFINE no == FALSE
           l == SetSelected(list, n)
<1>3. n \in Int /\ no \in BOOLEAN
  BY <1>1, ListFields
<1>4. ListOk(l, inc, hist.old) /\ SelectedOk(l) /\ l.text = list.text /\ l.lines = list.lines
  BY <1>1, <1>3, SetSelectedFits, SetSelectedFacts
<1>5. CASE inc.active # "none"
  <2>1. Close(l, no) /\ UNCHANGED trace
    BY <1>2, <1>5
  <2> HIDE DEF l, no
  <2> QED
    BY <1>3, <1>4, <1>5, <2>1, CloseFits DEF Click
<1>6. CASE inc.active = "none"
  <2>1. list' = l /\ trace' = [trace EXCEPT !.follow = no] /\ UNCHANGED inc
    BY <1>2, <1>6
  <2> HIDE DEF no
  <2>2. trace' \in TraceType /\ trace'.contLine = trace.contLine
    BY <1>1, <1>3, <2>1, SameTraceType
  <2> QED
    BY <1>1, <1>3, <2>1, <2>2, SelectionShows DEF Click
<1> QED
  BY <1>5, <1>6

\* The parts of what was written are such.
FirstOfFacts(s) == \A n \in Nat : FirstOf(s, n) \in Bytes /\ After(s, n) \in Bytes

LEMMA PartsOfBytes ==
  ASSUME NEW s \in Bytes
  PROVE  FirstOfFacts(s)
<1> DEFINE T == Letter \cup {NL}
           m == Len(s)
<1>1. s \in Seq(T)
  BY DEF Bytes
<1>2. m \in Nat /\ \A i \in 1 .. m : s[i] \in T
  BY <1>1
<1> HIDE DEF T
<1>3. ASSUME NEW n \in Nat PROVE FirstOf(s, n) \in Seq(T) /\ After(s, n) \in Seq(T)
  <2> DEFINE k == IF n < m THEN n ELSE m
             a == n + 1
  <2>1. k \in Nat /\ k <= m /\ a \in Nat /\ a >= 1
    BY <1>2
  <2> HIDE DEF k, a, m
  <2>2. (\A i \in 1 .. k : s[i] \in T) /\ (\A i \in a .. m : s[i] \in T)
    BY <1>2, <2>1
  <2>3. SubSeq(s, 1, k) \in Seq(T)
    BY <1>1, <2>1, <2>2, SubSeqProperties
  <2>4. SubSeq(s, a, m) \in Seq(T)
    BY <1>1, <1>2, <2>1, <2>2, SubSeqProperties
  <2> QED
    BY <2>3, <2>4 DEF FirstOf, After, k, a, m
<1> QED
  BY <1>3 DEF FirstOfFacts, Bytes, T

LEMMA UpdateTraceShows ==
  ASSUME InfoInv, UpdateTrace
  PROVE  InfoInv'
<1> DEFINE data == FirstOf(Available, ReadSize)
           pipe == After(trace.pipe, Len(FromPipe))
           stdio == After(Available, ReadSize)
           rest == [trace EXCEPT !.pipe = pipe, !.stdio = stdio]
           now == Taken(list, data)
           old == hist.old
           q == now.list
           g == now.contLine
           b == hist.taken
           all == b \o data
           d == hist.dropped
           no == FALSE
           yes == TRUE
<1>1. /\ trace \in TraceType /\ hist \in HistType /\ IncOk(inc) /\ ListOk(list, inc, old) /\ SelectedOk(list) /\ TraceOk
      /\ kind \in Kinds /\ open \in BOOLEAN
  BY DEF InfoInv
<1>2. /\ kind = "trace" /\ kind' = kind /\ open' = open /\ inc' = inc
      /\ IF trace.tracing
         THEN /\ trace' = [rest EXCEPT !.contLine = g]
              /\ list' = IF trace.follow THEN SetLast(q) ELSE q
              /\ hist' = [hist EXCEPT !.taken = all]
         ELSE trace' = rest /\ hist' = [hist EXCEPT !.dropped = yes] /\ list' = list
  BY DEF UpdateTrace
<1>3. FirstOfFacts(trace.pipe) /\ FirstOfFacts(trace.stdio)
  BY <1>1, PartsOfBytes DEF TraceType
<1>4. data \in Bytes /\ pipe \in Bytes /\ stdio \in Bytes
  <2>1. Len(trace.pipe) \in Nat /\ trace.pipe \in Bytes /\ trace.stdio \in Bytes /\ ReadSize \in Nat /\ StdioSize \in Nat
    BY <1>1, InfoScreenAssumption DEF TraceType, Bytes
  <2>2. FromPipe \in Bytes
    <3>1. FirstOf(trace.pipe, StdioSize) \in Bytes
      BY <1>3, <2>1 DEF FirstOfFacts
    <3>2. <<>> \in Bytes
      BY DEF Bytes
    <3> QED
      BY <3>1, <3>2 DEF FromPipe
  <2>3. Available \in Bytes
    BY <2>1, <2>2 DEF Available, Bytes
  <2>4. FirstOfFacts(Available)
    BY <2>3, PartsOfBytes
  <2>5. Len(FromPipe) \in Nat
    BY <2>2 DEF Bytes
  <2> QED
    BY <1>3, <2>1, <2>4, <2>5 DEF FirstOfFacts
<1>5. rest \in TraceType /\ rest.contLine = trace.contLine
  <2> HIDE DEF pipe, stdio
  <2> QED
    BY <1>1, <1>4 DEF TraceType
<1>6. old \in Nat /\ b \in Bytes /\ d \in BOOLEAN /\ trace.contLine \in BOOLEAN
  BY <1>1 DEF HistType, TraceType
<1>7. all \in Bytes
  <2> HIDE DEF data, b
  <2> QED
    BY <1>4, <1>6 DEF Bytes
<1>8. /\ trace.contLine => list.lines # <<>>
      /\ Straight(list) /\ Whole(list, b) /\ (d \/ BreaksShown(list, trace.contLine, b))
  BY <1>1, <1>2 DEF TraceOk
<1> HIDE DEF data, rest
<1>9. /\ g \in BOOLEAN /\ ListOk(q, inc, old) /\ SelectedOk(q) /\ (g => q.lines # <<>>)
      /\ Straight(q) /\ Whole(q, all) /\ (d \/ BreaksShown(q, g, all))
  <2> HIDE DEF old, b, d
  <2>1. /\ now.contLine \in BOOLEAN /\ ListOk(now.list, inc, old) /\ SelectedOk(now.list)
        /\ now.contLine => now.list.lines # <<>>
        /\ \A bytes \in Bytes, dropped \in BOOLEAN :
             /\ Straight(list) /\ Whole(list, bytes)
             /\ dropped \/ BreaksShown(list, trace.contLine, bytes)
             => /\ Straight(now.list) /\ Whole(now.list, bytes \o data)
                /\ dropped \/ BreaksShown(now.list, now.contLine, bytes \o data)
    BY <1>1, <1>4, <1>6, <1>8, TakenFits
  <2> HIDE DEF now
  <2> QED
    BY <1>6, <1>8, <2>1
<1> HIDE DEF q, g, all
<1>10. CASE trace.tracing
  <2>1. trace' = [rest EXCEPT !.contLine = g] /\ hist' = [hist EXCEPT !.taken = all]
        /\ list' = IF trace.follow THEN SetLast(q) ELSE q
    BY <1>2, <1>10
  <2>2. trace' \in TraceType /\ trace'.contLine = g
    BY <1>5, <1>9, <2>1 DEF TraceType
  <2>3. hist' \in HistType /\ hist'.taken = all /\ hist'.old = old /\ hist'.dropped = d
    BY <1>1, <1>7, <2>1 DEF HistType
  <2>4. ListOk(list', inc, old) /\ SelectedOk(list') /\ list'.text = q.text /\ list'.lines = q.lines
    <3> DEFINE i == Len(q.rows) - 1
    <3>1. ListTyped(q)
      BY <1>9 DEF ListOk
    <3>2. i \in Int
      BY <3>1, ListFields
    <3> HIDE DEF i
    <3>3. /\ ListOk(SetSelected(q, i), inc, old) /\ SelectedOk(SetSelected(q, i))
          /\ SetSelected(q, i).text = q.text /\ SetSelected(q, i).lines = q.lines
      BY <1>9, <3>1, <3>2, SetSelectedFits, SetSelectedFacts
    <3>4. list' = q \/ list' = SetSelected(q, i)
      BY <2>1 DEF SetLast, i
    <3> QED
      BY <1>9, <3>3, <3>4
  <2>5. /\ Straight(list') <=> Straight(q)
        /\ Whole(list', all) <=> Whole(q, all)
        /\ BreaksShown(list', g, all) <=> BreaksShown(q, g, all)
    <3> DEFINE r == list'
    <3>1. ListTyped(r) /\ ListTyped(q) /\ r.text = q.text /\ r.lines = q.lines
      BY <1>9, <2>4 DEF ListOk
    <3> HIDE DEF r
    <3>2. /\ Straight(r) <=> Straight(q)
          /\ Whole(r, all) <=> Whole(q, all)
          /\ BreaksShown(r, g, all) <=> BreaksShown(q, g, all)
      BY <1>9, <3>1, TraceSame
    <3> QED
      BY <3>2 DEF r
  <2>6. TraceOk'
    BY <1>2, <1>9, <2>2, <2>3, <2>4, <2>5 DEF TraceOk
  <2>7. ListOk(list', inc', hist'.old) /\ IncOk(inc')
    BY <1>1, <1>2, <2>3, <2>4
  <2> QED
    BY <1>1, <1>2, <2>2, <2>3, <2>4, <2>6, <2>7 DEF InfoInv
<1>11. CASE ~trace.tracing
  <2>1. trace' = rest /\ hist' = [hist EXCEPT !.dropped = yes] /\ list' = list
    BY <1>2, <1>11
  <2>2. trace' \in TraceType /\ trace'.contLine = trace.contLine
    BY <1>5, <2>1
  <2>3. hist' \in HistType /\ hist'.taken = b /\ hist'.old = old /\ hist'.dropped
    BY <1>1, <2>1 DEF HistType
  <2>4. TraceOk'
    BY <1>2, <1>8, <2>1, <2>2, <2>3 DEF TraceOk
  <2>5. ListOk(list', inc', hist'.old) /\ IncOk(inc') /\ SelectedOk(list')
    BY <1>1, <1>2, <2>1, <2>3
  <2> QED
    BY <1>1, <1>2, <2>2, <2>3, <2>4, <2>5 DEF InfoInv
<1> QED
  BY <1>10, <1>11

LEMMA StepShows == InfoInv /\ [InfoNext]_infoVars => InfoInv'
<1> SUFFICES ASSUME InfoInv, [InfoNext]_infoVars PROVE InfoInv'
  OBVIOUS
<1>1. CASE Open
  <2>1. open' \in BOOLEAN /\ UNCHANGED <<kind, inc, trace>>
        /\ IF kind = "snapshot" THEN TakeSnapshot ELSE UNCHANGED <<list, hist>>
    BY <1>1 DEF Open
  <2>2. CASE kind = "snapshot"
    BY <2>1, <2>2, SnapshotShows
  <2>3. CASE kind # "snapshot"
    <3>1. trace \in TraceType
      BY DEF InfoInv
    <3> QED
      BY <2>1, <2>3, <3>1, SelectionShows
  <2> QED
    BY <2>2, <2>3
<1>2. CASE Refresh
  <2>1. open \in BOOLEAN
    BY DEF InfoInv
  <2> QED
    BY <1>2, <2>1, SnapshotShows DEF Refresh
<1>3. CASE Done
  BY <1>3, DoneShows
<1>4. CASE Write \/ UpdateTrace
  BY <1>4, WriteShows, UpdateTraceShows
<1>5. CASE ToggleFollow \/ ToggleTracing
  BY <1>5, ToggleShows
<1>6. CASE Activate \/ TypeLetter \/ CloseInc
  BY <1>6, ActivateShows, TypeLetterShows, CloseIncShows
<1>7. CASE NextMatch \/ Click \/ Move
  BY <1>7, NextMatchShows, ClickShows, MoveShows
<1>8. CASE UNCHANGED infoVars
  <2>1. trace \in TraceType /\ open \in BOOLEAN
    BY DEF InfoInv
  <2> QED
    BY <1>8, <2>1, SelectionShows DEF infoVars
<1> QED
  BY <1>1, <1>2, <1>3, <1>4, <1>5, <1>6, <1>7, <1>8 DEF InfoNext

LEMMA InvShows == InfoInv => InfoShowsText
<1> SUFFICES ASSUME InfoInv PROVE InfoShowsText
  OBVIOUS
<1>1. /\ kind \in Kinds /\ open \in BOOLEAN /\ trace \in TraceType /\ hist \in HistType
      /\ IncOk(inc) /\ ListOk(list, inc, hist.old) /\ SelectedOk(list) /\ TraceOk
  BY DEF InfoInv
<1> DEFINE n == Len(list.text)
           y == list.lines
           z == list.rows
<1>2. /\ ListTyped(list) /\ InOrder(z, y) /\ RowPasses(list, inc) /\ NoneMissing(list, inc, hist.old)
  BY <1>1 DEF ListOk
<1>3. /\ list.text \in Seq(LineType) /\ y \in Seq(Nat) /\ z \in Seq(Nat) /\ Len(y) = n /\ n \in Nat
      /\ IsInjective(y)
  BY <1>2, ListFields
<1>4. ToSet(y) = 1 .. n
  BY <1>2, ListFields
<1>5. InfoTypeOK
  <2>1. \A id \in 1 .. n : TextOf(list, id) \in Seq(Letter)
    <3> TAKE id \in 1 .. n
    <3>1. list.text[id] \in LineType
      BY <1>3
    <3> QED
      BY <3>1 DEF TextOf, LineType, Texts
  <2>2. inc.active \in {"none", "search", "filter"} /\ inc.filtering = (inc.buffer["filter"] # <<>>)
    BY <1>1, IncFields
  <2> QED
    BY <1>1, <1>3, <1>4, <2>1, <2>2 DEF InfoTypeOK, SelectedOk, TraceOk
<1>6. \A t : Passes(t) <=> Pass(t, inc)
  BY DEF Passes, Pass, Filter
<1>7. RowsAreLines
  <2>1. z = Kept(y, ToSet(z))
    <3> HIDE DEF y, z
    <3> QED
      BY <1>2, <1>3, AlongIsKept
  <2>2. \A id \in ToSet(z) : Passes(TextOf(list, id))
    BY <1>2, <1>6 DEF RowPasses, TextOf
  <2>3. ASSUME NEW id \in ToSet(y), id > hist.old, \E t \in list.text[id].pieces : Passes(t)
        PROVE  id \in ToSet(z)
    <3>1. id \in 1 .. n /\ Expected(list.text[id], inc)
      BY <1>4, <1>6, <2>3 DEF Expected
    <3> QED
      BY <1>2, <2>3, <3>1 DEF NoneMissing
  <2> QED
    BY <1>5, <2>1, <2>2, <2>3 DEF RowsAreLines
<1>8. TraceIsComplete
  <2> SUFFICES ASSUME kind = "trace"
               PROVE  /\ AllText(list, Len(y)) = LettersOf(hist.taken)
                      /\ hist.dropped \/ Breaks(hist.taken) \subseteq LineEnds(list, Len(y))
    BY DEF TraceIsComplete
  <2>1. Whole(list, hist.taken) /\ (hist.dropped \/ BreaksShown(list, trace.contLine, hist.taken))
    BY <1>1 DEF TraceOk
  <2> DEFINE g == trace.contLine
             m == Ended(list, g)
  <2>2. m <= Len(y) /\ m \in Int /\ Len(y) \in Nat
    BY <1>3 DEF Ended
  <2>3. LineEnds(list, m) \subseteq LineEnds(list, Len(y))
    <3> HIDE DEF m
    <3>1. \A k \in 1 .. m : k \in 1 .. Len(y)
      BY <2>2
    <3> QED
      BY <3>1 DEF LineEnds
  <2> QED
    BY <2>1, <2>3 DEF Whole, BreaksShown
<1> QED
  BY <1>7, <1>8 DEF InfoShowsText

LEMMA AlwaysShows == InfoSpec => []InfoInv
BY InitShows, StepShows, PTL DEF InfoSpec

(* An info screen shows the text it was given: the rows are the lines that *)
(* pass the filter, none twice, in the order of the lines, whoever put     *)
(* them there, and the lines of a trace have all that was read of it       *)
(* (InfoScreen_addLine, InfoScreen_appendLine, IncSet_filter,              *)
(* TraceScreen_updateTrace).                                               *)
THEOREM TextIsShown == InfoSpec => []InfoShowsText
BY AlwaysShows, InvShows, PTL
(* Without a filter all lines are rows, and what was selected still is.    *)

LEMMA SelectedStaysSelected ==
  ASSUME InfoInv, NEW i, IncOk(i), ~i.filtering, list.rows # <<>>,
         list' = UpdateWeakPanel(list, i)
  PROVE  SelectedLine' = SelectedLine
<1> DEFINE S == PassingLines(list, i)
           rows == Kept(list.lines, S)
           x == list.rows[list.selected + 1]
           found == {n \in 0 .. Len(rows) - 1 : list.rows # <<>> /\ rows[n + 1] = x}
           q == UpdateWeakPanel(list, i)
           k == list.selected + 1
<1>1. ListTyped(list) /\ InOrder(list.rows, list.lines) /\ SelectedOk(list)
  BY DEF InfoInv, ListOk
<1>2. /\ list.lines \in Seq(Nat) /\ list.rows \in Seq(Nat) /\ list.selected \in Nat
      /\ IsInjective(list.lines) /\ ToSet(list.lines) = 1 .. Len(list.text)
  BY <1>1 DEF ListTyped
<1>3. /\ q.rows = rows /\ SelectedOk(q) /\ q.selected \in Nat
      /\ found # {} => q.selected \in found
  BY <1>1, WeakFacts
<1>4. k \in 1 .. Len(list.rows)
  BY <1>1, <1>2 DEF SelectedOk
<1>5. x \in ToSet(list.rows)
  <2> HIDE DEF k
  <2>1. list.rows[k] \in ToSet(list.rows)
    BY <1>2, <1>4, SeqFacts
  <2> QED
    BY <2>1 DEF k
<1>6. x \in ToSet(list.lines)
  <2>1. ToSet(list.rows) \subseteq ToSet(list.lines)
    BY <1>1, <1>2, AlongFacts
  <2> QED
    BY <1>5, <2>1
<1>7. x \in S
  BY <1>2, <1>6 DEF PassingLines
<1> HIDE DEF S, x, q
<1>8. rows \in Seq(Nat) /\ ToSet(rows) = ToSet(list.lines) \cap S
  BY <1>2, KeptAlong
<1> HIDE DEF rows
<1>9. PICK n \in 1 .. Len(rows) : rows[n] = x
  <2>1. x \in ToSet(rows)
    BY <1>6, <1>7, <1>8
  <2> QED
    BY <1>8, <2>1, SeqFacts
<1>10. found # {}
  <2>1. n - 1 \in 0 .. Len(rows) - 1 /\ rows[(n - 1) + 1] = x
    BY <1>8, <1>9
  <2>2. n - 1 \in found
    BY <2>1
  <2> QED
    BY <2>2
<1>11. rows[q.selected + 1] = x
  BY <1>3, <1>10
<1>12. rows # <<>>
  BY <1>8, <1>9
<1>13. list'.rows = rows /\ list'.selected = q.selected
  BY <1>3 DEF q
<1>14. SelectedLine = x
  BY DEF SelectedLine, x
<1>15. SelectedLine' = list'.rows[list'.selected + 1]
  BY <1>12, <1>13 DEF SelectedLine
<1> QED
  BY <1>11, <1>13, <1>14, <1>15

LEMMA StepKeepsSelected ==
  ASSUME InfoInv, InfoNext, inc.active = "filter", inc.filtering,
         inc'.active = "none", ~inc'.filtering, list.rows # <<>>
  PROVE  SelectedLine' = SelectedLine
<1>1. inc' # inc
  OBVIOUS
<1>2. CASE Open \/ Refresh \/ Done \/ Write \/ UpdateTrace \/ ToggleFollow \/ ToggleTracing \/ Activate \/ NextMatch \/ Move
  BY <1>1, <1>2 DEF Open, Refresh, Done, Write, UpdateTrace, ToggleFollow, ToggleTracing, Activate, NextMatch, Move, Idle
<1>3. inc \in [active : {"none", "search", "filter"}, buffer : [{"search", "filter"} -> Texts], filtering : BOOLEAN]
  BY DEF InfoInv, IncOk
<1>4. CASE TypeLetter
  <2>1. PICK t, c : Edit(t, c)
    BY <1>4 DEF TypeLetter
  <2>2. inc'.active = inc.active
    BY <1>3, <2>1 DEF Edit
  <2> QED
    BY <2>2
<1>5. CASE Click
  <2>1. PICK n : Close(SetSelected(list, n), FALSE)
    BY <1>5 DEF Click
  <2>2. inc' = [inc EXCEPT !.active = "none"]
    BY <2>1 DEF Close
  <2> QED
    BY <1>3, <2>2
<1>6. CASE CloseInc
  <2> DEFINE e == <<>>
             none == "none"
             no == FALSE
             b == [inc.buffer EXCEPT !["filter"] = e]
             new == [inc EXCEPT !.active = none, !.buffer["filter"] = e, !.filtering = no]
  <2>1. PICK esc \in BOOLEAN : Close(list, esc)
    BY <1>6 DEF CloseInc
  <2>2. esc
    <3> SUFFICES ASSUME ~esc PROVE FALSE
      OBVIOUS
    <3>1. inc' = [inc EXCEPT !.active = none]
      BY <2>1 DEF Close
    <3> QED
      BY <1>3, <3>1
  <2>3. inc' = new /\ list' = UpdateWeakPanel(list, new)
    BY <2>1, <2>2 DEF Close
  <2>4. new = [inc EXCEPT !.active = none, !.buffer = b, !.filtering = no]
    BY <1>3
  <2>5. e \in Texts /\ e = <<>>
    BY DEF Texts
  <2> HIDE DEF new, e
  <2>6. b \in [{"search", "filter"} -> Texts] /\ b["filter"] = e
    BY <1>3, <2>5
  <2> HIDE DEF b
  <2>7. new = [active |-> none, buffer |-> b, filtering |-> no]
    BY <1>3, <2>4
  <2>8. none \in {"none", "search", "filter"} /\ no \in BOOLEAN /\ no = (b["filter"] # <<>>) /\ ~no
    BY <2>5, <2>6
  <2> HIDE DEF none, no
  <2>9. IncOk(new)
    <3>1. IncParts(new, none, no, b)
      BY <2>6, <2>7, <2>8 DEF IncParts
    <3> QED
      BY <3>1, IncMade
  <2>10. ~new.filtering
    BY <2>7, <2>8
  <2> QED
    BY <2>3, <2>9, <2>10, SelectedStaysSelected
<1> QED
  BY <1>2, <1>4, <1>5, <1>6 DEF InfoNext

(* Esc in the filter shows all lines again and leaves the line selected    *)
(* that was selected among those that passed (IncSet.c, updateWeakPanel),  *)
(* whatever was typed, read and moved before.                              *)
THEOREM FilterLeavesSelected == InfoSpec => FilterKeepsSelected
<1>1. InfoInv /\ [InfoNext]_infoVars
        => (inc.active = "filter" /\ inc.filtering /\ inc'.active = "none" /\ ~inc'.filtering
              => list.rows = <<>> \/ SelectedLine' = SelectedLine)
  <2> SUFFICES ASSUME InfoInv, [InfoNext]_infoVars, inc.active = "filter", inc.filtering,
                      inc'.active = "none", ~inc'.filtering, list.rows # <<>>
               PROVE  SelectedLine' = SelectedLine
    OBVIOUS
  <2>1. CASE InfoNext
    BY <2>1, StepKeepsSelected
  <2>2. CASE UNCHANGED infoVars
    BY <2>2 DEF infoVars
  <2> QED
    BY <2>1, <2>2
<1> QED
  BY <1>1, AlwaysShows, PTL DEF InfoSpec, FilterKeepsSelected
=============================================================================
