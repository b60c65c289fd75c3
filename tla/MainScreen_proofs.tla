------------------------- MODULE MainScreen_proofs -------------------------
(***************************************************************************)
(* For any processes, in whatever order a scan leaves them, any texts, and *)
(* any sequence of keys: the rows that a key finds are those of the list   *)
(* as it is, and the process that is followed is the selected one.  For    *)
(* any number of processes, CPUs, priorities and signals, whoever else     *)
(* changes them: what a key or a menu does is done to those it was asked   *)
(* for, and shown as it was done.                                          *)
(***************************************************************************)
EXTENDS MainScreen, ProcessActions, FiniteSetTheorems, SequenceTheorems, WellFoundedInduction, TLAPS

(* The panel is right: nobody has touched the list since it was filled, and *)
(* the selection is on the process that is followed.                       *)
Filled ==
  /\ rows = Visible
  /\ following \in ToSet(rows) => SelectedPid = following

(* Between a key and the next check the panel may be out of date, but then  *)
(* the check is told to fill it.                                           *)
IInv ==
  /\ TypeOK
  /\ list \in Seq(Pid) /\ rows \in Seq(Pid)
  /\ pc = "read" \/ ~redraw => Filled
-----------------------------------------------------------------------------
(* Places in a sequence. *)

(* Whoever is at the n-th of some places has n - 1 of them before him. *)
LEMMA PlaceOfRank ==
  ASSUME NEW S \in SUBSET Nat, IsFiniteSet(S), NEW n \in 1 .. Cardinality(S)
  PROVE  \E i \in S : Cardinality({j \in S : j <= i}) = n
<1> DEFINE below(i) == {j \in S : j <= i}
           f == [i \in S |-> Cardinality(below(i))]
           N == Cardinality(S)
<1>1. N \in Nat
  BY FS_CardinalityType
<1>2. \A i \in S : /\ IsFiniteSet(below(i))
                   /\ Cardinality(below(i)) \in 1 .. N
  <2> SUFFICES ASSUME NEW i \in S
               PROVE  IsFiniteSet(below(i)) /\ Cardinality(below(i)) \in 1 .. N
    OBVIOUS
  <2>1. below(i) \in SUBSET S /\ i \in below(i)
    OBVIOUS
  <2>2. IsFiniteSet(below(i)) /\ Cardinality(below(i)) <= N
    BY <2>1, FS_Subset
  <2>3. Cardinality(below(i)) \in Nat /\ Cardinality(below(i)) # 0
    BY <2>1, <2>2, FS_CardinalityType, FS_EmptySet
  <2> QED
    BY <1>1, <2>2, <2>3
<1>3. \A i, k \in S : i < k => f[i] # f[k]
  <2> SUFFICES ASSUME NEW i \in S, NEW k \in S, i < k,
                      Cardinality(below(i)) = Cardinality(below(k))
               PROVE  FALSE
    OBVIOUS
  <2>0. i \in Nat /\ k \in Nat /\ \A j \in S : j \in Nat
    OBVIOUS
  <2>1. below(i) \in SUBSET below(k) /\ k \in below(k) /\ k \notin below(i)
    <3>1. below(i) \in SUBSET below(k)
      <4> SUFFICES ASSUME NEW j \in S, j <= i
                   PROVE  j <= k
        OBVIOUS
      <4>1. j \in Nat
        BY <2>0
      <4> QED
        BY <2>0, <4>1
    <3>2. k \in below(k)
      BY <2>0
    <3>3. k \notin below(i)
      BY <2>0
    <3> QED
      BY <3>1, <3>2, <3>3
  <2>2. IsFiniteSet(below(k))
    BY <1>2
  <2> HIDE DEF below
  <2>3. below(k) = below(i)
    BY <2>1, <2>2, FS_Subset
  <2> QED
    BY <2>1, <2>3
<1>4. f \in Injection(S, 1 .. N)
  <2>1. f \in [S -> 1 .. N]
    BY <1>2
  <2>2. \A i, k \in S : f[i] = f[k] => i = k
    BY <1>3
  <2> HIDE DEF f
  <2> QED
    BY <2>1, <2>2 DEF Injection, IsInjective
<1>5. IsFiniteSet(1 .. N) /\ Cardinality(1 .. N) = N
  BY <1>1, FS_Interval
<1>6. f \in Surjection(S, 1 .. N)
  BY <1>4, <1>5, FS_Injection
<1>7. PICK i \in S : f[i] = n
  BY <1>6 DEF Surjection
<1> QED
  BY <1>7

LEMMA Least ==
  ASSUME NEW S \in SUBSET Nat, IsFiniteSet(S), S # {}
  PROVE  Min(S) \in S /\ \A j \in S : Min(S) <= j
<1>1. 1 \in 1 .. Cardinality(S)
  BY FS_CardinalityType, FS_EmptySet
<1>2. PICK i \in S : Cardinality({j \in S : j <= i}) = 1
  BY <1>1, PlaceOfRank
<1>3. {j \in S : j <= i} = {i}
  <2>1. {j \in S : j <= i} \in SUBSET S /\ i \in {j \in S : j <= i}
    OBVIOUS
  <2>2. IsFiniteSet({j \in S : j <= i})
    BY <2>1, FS_Subset
  <2>3. PICK x : {j \in S : j <= i} = {x}
    BY <1>2, <2>2, FS_Singleton
  <2> QED
    BY <2>1, <2>3
<1>4. \A j \in S : i <= j
  BY <1>3
<1> QED
  BY <1>4 DEF Min

(* The first row that is one of S. *)
LEMMA FirstRowFacts ==
  ASSUME NEW s \in Seq(Pid), NEW S
  PROVE  /\ FirstRow(s, S) \in -1 .. Len(s) - 1
         /\ FirstRow(s, S) >= 0 => s[FirstRow(s, S) + 1] \in S
         /\ FirstRow(s, S) = -1 => S \cap ToSet(s) = {}
<1> DEFINE I == {i \in 1 .. Len(s) : s[i] \in S}
<1>1. FirstRow(s, S) = (IF I # {} THEN Min(I) ELSE 0) - 1
  BY DEF FirstRow, SelectInSeq
<1>2. I \in SUBSET Nat /\ I \in SUBSET (1 .. Len(s)) /\ Len(s) \in Nat
  BY LenProperties
<1>3. IsFiniteSet(I)
  <2>1. 1 \in Int /\ Len(s) \in Int
    BY <1>2
  <2>2. IsFiniteSet(1 .. Len(s))
    BY <2>1, FS_Interval
  <2> HIDE DEF I
  <2> QED
    BY <1>2, <2>2, FS_Subset
<1>4. I # {} => Min(I) \in I
  BY <1>2, <1>3, Least
<1>5. I = {} => S \cap ToSet(s) = {}
  BY LenProperties DEF ToSet
<1> HIDE DEF I
<1>6. CASE I # {}
  <2>1. Min(I) \in 1 .. Len(s) /\ s[Min(I)] \in S
    BY <1>4, <1>6 DEF I
  <2> QED
    BY <1>1, <1>2, <1>6, <2>1
<1>7. CASE I = {}
  BY <1>1, <1>2, <1>5, <1>7
<1> QED
  BY <1>6, <1>7
-----------------------------------------------------------------------------
(* Filling the panel. *)

(* Those at the given places of l, in their order. *)
Chosen(l, places) ==
  [n \in 1 .. Cardinality(places) |->
     l[CHOOSE i \in places : Cardinality({j \in places : j <= i}) = n]]

LEMMA VisibleIsChosen == Visible = Chosen(list, {i \in DOMAIN list : ~Hidden(list[i])})
BY DEF Visible, Chosen

LEMMA ChosenAreOfTheList ==
  ASSUME NEW l \in Seq(Pid), NEW places \in SUBSET DOMAIN l
  PROVE  Chosen(l, places) \in Seq(Pid) /\ ToSet(Chosen(l, places)) \subseteq ToSet(l)
<1> DEFINE N == Cardinality(places)
           rank(i) == Cardinality({j \in places : j <= i})
           place(n) == CHOOSE i \in places : rank(i) = n
<1>1. Len(l) \in Nat /\ DOMAIN l = 1 .. Len(l)
  BY LenProperties
<1>2. IsFiniteSet(places) /\ places \in SUBSET Nat
  <2>1. 1 \in Int /\ Len(l) \in Int
    BY <1>1
  <2>2. IsFiniteSet(1 .. Len(l))
    BY <2>1, FS_Interval
  <2>3. places \in SUBSET (1 .. Len(l))
    BY <1>1
  <2>4. IsFiniteSet(places)
    BY <2>2, <2>3, FS_Subset
  <2> QED
    BY <2>3, <2>4
<1>3. N \in Nat
  BY <1>2, FS_CardinalityType
<1>4. \A n \in 1 .. N : place(n) \in places
  <2> SUFFICES ASSUME NEW n \in 1 .. N
               PROVE  place(n) \in places
    OBVIOUS
  <2>1. \E i \in places : rank(i) = n
    BY <1>2, PlaceOfRank
  <2> HIDE DEF rank
  <2> QED
    BY <2>1
<1>5. Chosen(l, places) = [n \in 1 .. N |-> l[place(n)]]
  BY DEF Chosen
<1> HIDE DEF place, N
<1>6. \A n \in 1 .. N : l[place(n)] \in Pid /\ l[place(n)] \in ToSet(l)
  BY <1>1, <1>4, ElementOfSeq DEF ToSet
<1>7. Chosen(l, places) \in [1 .. N -> Pid]
  BY <1>5, <1>6
<1>8. Chosen(l, places) \in Seq(Pid) /\ DOMAIN Chosen(l, places) = 1 .. N
  BY <1>3, <1>7, SeqDef
<1>9. ToSet(Chosen(l, places)) \subseteq ToSet(l)
  BY <1>5, <1>6, <1>8 DEF ToSet
<1> QED
  BY <1>8, <1>9

(* The order that a scan leaves is one of the processes that it found. *)
LEMMA ScannedList ==
  ASSUME NEW alive \in SUBSET Pid, NEW l \in SetToSeqs(alive)
  PROVE  l \in Seq(Pid) /\ ToSet(l) = alive
<1> DEFINE D == 1 .. Cardinality(alive)
<1>1. IsFiniteSet(alive) /\ Cardinality(alive) \in Nat
  BY MainScreenAssumption, FS_Subset, FS_CardinalityType
<1>2. l \in [D -> alive] /\ \A i, j \in D : i # j => l[i] # l[j]
  BY DEF SetToSeqs
<1>3. l \in Injection(D, alive)
  BY <1>2 DEF Injection, IsInjective
<1>4. Cardinality(D) = Cardinality(alive)
  <2>1. 1 \in Int /\ Cardinality(alive) \in Int
    BY <1>1
  <2> QED
    BY <1>1, <2>1, FS_Interval
<1> HIDE DEF D
<1>5. l \in Surjection(D, alive)
  BY <1>1, <1>3, <1>4, FS_Injection
<1>6. ToSet(l) = alive
  BY <1>2, <1>5 DEF Surjection, ToSet
<1>7. l \in [D -> Pid]
  BY <1>2
<1> QED
  BY <1>1, <1>6, <1>7, SeqDef DEF D

LEMMA RowOfPid ==
  ASSUME NEW s \in Seq(Pid), NEW p \in ToSet(s)
  PROVE  p \in Pid /\ p # NoPid /\ s # <<>>
<1>1. PICK i \in DOMAIN s : p = s[i]
  BY DEF ToSet
<1>2. Len(s) \in Nat /\ DOMAIN s = 1 .. Len(s)
  BY LenProperties
<1>3. p \in Pid
  BY <1>1, <1>2, ElementOfSeq
<1>4. s # <<>>
  <2>1. Len(s) # 0
    BY <1>1, <1>2
  <2> QED
    BY <2>1, EmptySeq
<1> QED
  BY <1>3, <1>4, MainScreenAssumption

LEMMA ClampFacts ==
  ASSUME NEW i \in Int, NEW n \in Nat
  PROVE  /\ Clamp(i, n) \in 0 .. Upper(n - 1, 0)
         /\ i \in 0 .. n - 1 => Clamp(i, n) = i
BY DEF Clamp, Upper, Lower

(* A filled panel has a selection, on the process that is followed. *)
LEMMA ReselectedFacts ==
  ASSUME NEW rs \in Seq(Pid), selected \in Nat, following \in Pid \cup {NoPid}
  PROVE  /\ Reselected(rs) \in 0 .. Upper(Len(rs) - 1, 0)
         /\ following \in ToSet(rs) => rs # <<>> /\ rs[Reselected(rs) + 1] = following
<1>1. Len(rs) \in Nat
  BY LenProperties
<1>2. CASE following = NoPid
  <2>1. Reselected(rs) = IF selected < Len(rs) THEN selected ELSE 0
    BY <1>2 DEF Reselected
  <2>2. following \notin ToSet(rs)
    BY <1>2, RowOfPid
  <2> QED
    BY <1>1, <2>1, <2>2 DEF Upper
<1>3. CASE following # NoPid
  <2> DEFINE f == FirstRow(rs, {following})
  <2>1. Reselected(rs) = Clamp(f, Len(rs))
    BY <1>3 DEF Reselected
  <2>2. /\ f \in -1 .. Len(rs) - 1
        /\ f >= 0 => rs[f + 1] \in {following}
        /\ f = -1 => {following} \cap ToSet(rs) = {}
    BY FirstRowFacts
  <2> HIDE DEF f
  <2>3. f \in Int
    BY <1>1, <2>2
  <2>4. Clamp(f, Len(rs)) \in 0 .. Upper(Len(rs) - 1, 0)
    BY <1>1, <2>3, ClampFacts
  <2>5. ASSUME following \in ToSet(rs)
        PROVE  rs # <<>> /\ rs[Reselected(rs) + 1] = following
    <3>1. f # -1
      BY <2>2, <2>5
    <3>2. f \in 0 .. Len(rs) - 1
      BY <1>1, <2>2, <3>1
    <3>3. Clamp(f, Len(rs)) = f
      BY <1>1, <2>3, <3>2, ClampFacts
    <3>4. rs[f + 1] = following
      BY <2>2, <3>2
    <3>5. rs # <<>>
      BY <2>5, RowOfPid
    <3> QED
      BY <2>1, <3>3, <3>4, <3>5
  <2> QED
    BY <2>1, <2>4, <2>5
<1> QED
  BY <1>2, <1>3

\* The rows stay right as long as nothing they depend on changes.
LEMMA FilledKeeps ==
  ASSUME Filled, list' = list, show' = show, userOnly' = userOnly, inc' = inc,
         rows' = rows, selected' = selected, following' = following
  PROVE  Filled'
<1> DEFINE places == {i \in DOMAIN list : ~Hidden(list[i])}
           later == {i \in DOMAIN (list') : ~(Hidden(list[i])')}
<1>1. IncFilter' = IncFilter
  BY DEF IncFilter
<1>2. \A i \in DOMAIN list : Hidden(list[i])' <=> Hidden(list[i])
  BY <1>1, Zenon DEF Hidden, Matches
<1>3. later = places
  BY <1>2
<1>4. Visible = Chosen(list, places) /\ Visible' = Chosen(list', later)
  BY Zenon DEF Visible, Chosen
<1>5. Visible' = Visible
  BY <1>3, <1>4, Zenon
<1>6. SelectedPid' = SelectedPid
  BY Zenon DEF SelectedPid, Row
<1> QED
  BY <1>5, <1>6, Zenon DEF Filled

LEMMA Refilled ==
  ASSUME IInv, following' = following, list' \in Seq(Pid), RebuildPanel
  PROVE  /\ rows' \in Seq(Pid)
         /\ ToSet(rows') \subseteq Pid
         /\ selected' \in 0 .. Upper(Len(rows') - 1, 0)
         /\ Filled'
<1>1. selected \in Nat /\ following \in Pid \cup {NoPid}
  <2>1. selected \in 0 .. Upper(Len(rows) - 1, 0) /\ following \in Pid \cup {NoPid}
    BY Zenon DEF IInv, TypeOK
  <2> QED
    BY <2>1
<1>2. rows' = Visible' /\ selected' = Reselected(rows')
  BY DEF RebuildPanel
<1>3. rows' \in Seq(Pid)
  <2> DEFINE places == {i \in DOMAIN (list') : ~(Hidden(list[i])')}
  <2>1. Visible' = Chosen(list', places)
    BY DEF Visible, Chosen
  <2>2. places \in SUBSET DOMAIN (list')
    OBVIOUS
  <2> HIDE DEF places
  <2> QED
    BY <1>2, <2>1, <2>2, ChosenAreOfTheList
<1>4. ToSet(rows') \subseteq Pid
  BY <1>3, RowOfPid
<1>5. /\ Reselected(rows') \in 0 .. Upper(Len(rows') - 1, 0)
      /\ following \in ToSet(rows') => rows' # <<>> /\ (rows')[Reselected(rows') + 1] = following
  BY <1>1, <1>3, ReselectedFacts
<1>6. following' \in ToSet(rows') => SelectedPid' = following'
  BY <1>2, <1>5 DEF SelectedPid, Row
<1> QED
  BY <1>2, <1>3, <1>4, <1>5, <1>6 DEF Filled
-----------------------------------------------------------------------------
(* What a key finds. *)

IncType == [active : Modes \cup {"none"}, len : [Modes -> 0 .. MaxText],
            filtering : BOOLEAN, found : BOOLEAN]
MenuType == [kind : {"none", "kill", "user", "sort"}, pid : Pid \cup {NoPid}, unfollow : BOOLEAN]

LEMMA Facts ==
  ASSUME IInv
  PROVE  /\ Live \subseteq Pid /\ show \subseteq Live /\ tag \subseteq Live
         /\ list \in Seq(Pid) /\ rows \in Seq(Pid) /\ ToSet(rows) \subseteq Pid
         /\ selected \in 0 .. Upper(Len(rows) - 1, 0)
         /\ following \in Pid \cup {NoPid}
         /\ inc \in IncType /\ menu \in MenuType /\ signalled \subseteq Pid
         /\ userOnly \in BOOLEAN /\ redraw \in BOOLEAN /\ rescan \in BOOLEAN
         /\ pc \in {"check", "read"}
BY Zenon DEF IInv, TypeOK, IncType, MenuType

LEMMA RowsBound ==
  ASSUME IInv
  PROVE  /\ Len(rows) \in Nat
         /\ rows = <<>> => Len(rows) = 0
         /\ rows # <<>> => Len(rows) > 0 /\ 0 .. Upper(Len(rows) - 1, 0) = 0 .. Len(rows) - 1
         /\ \A i \in 0 .. Len(rows) - 1 : rows[i + 1] \in Pid /\ rows[i + 1] \in ToSet(rows)
<1>1. rows \in Seq(Pid)
  BY Facts
<1>2. Len(rows) \in Nat /\ DOMAIN rows = 1 .. Len(rows)
  BY <1>1, LenProperties
<1>3. rows = <<>> <=> Len(rows) = 0
  BY <1>1, EmptySeq
<1>4. \A i \in 1 .. Len(rows) : rows[i] \in Pid /\ rows[i] \in ToSet(rows)
  BY <1>1, <1>2, ElementOfSeq DEF ToSet
<1>5. \A i \in 0 .. Len(rows) - 1 : i + 1 \in 1 .. Len(rows)
  BY <1>2
<1> QED
  BY <1>2, <1>3, <1>4, <1>5 DEF Upper

LEMMA SelectedFacts ==
  ASSUME IInv
  PROVE  /\ SelectedPid \in Pid \cup {NoPid}
         /\ rows # <<>> => SelectedPid \in ToSet(rows) /\ SelectedPid \in Pid
<1>1. CASE rows = <<>>
  BY <1>1 DEF SelectedPid
<1>2. CASE rows # <<>>
  <2>1. selected \in 0 .. Len(rows) - 1
    BY <1>2, Facts, RowsBound
  <2>2. SelectedPid = rows[selected + 1]
    BY <1>2 DEF SelectedPid, Row
  <2> QED
    BY <2>1, <2>2, RowsBound
<1> QED
  BY <1>1, <1>2

(* The pointers that a key finds on the panel are to processes of the list. *)
LEMMA RowsAreAlive ==
  ASSUME IInv, pc = "read"
  PROVE  ToSet(rows) \subseteq Live
<1> DEFINE places == {i \in DOMAIN list : ~Hidden(list[i])}
<1>1. rows = Chosen(list, places)
  BY VisibleIsChosen DEF IInv, Filled
<1>2. places \in SUBSET DOMAIN list
  OBVIOUS
<1>3. list \in Seq(Pid)
  BY Facts
<1> HIDE DEF places
<1> QED
  BY <1>1, <1>2, <1>3, ChosenAreOfTheList DEF Live
-----------------------------------------------------------------------------
(* The invariant.  A key leaves list and rows alone and asks for the panel  *)
(* to be filled, so that only what else it changes has to be of its type.  *)

LEMMA InitIInv == Init => IInv
<1> SUFFICES ASSUME Init
             PROVE  IInv
  OBVIOUS
<1>1. list = <<>> /\ rows = <<>> /\ show = {} /\ tag = {} /\ signalled = {}
      /\ userOnly = FALSE /\ redraw = TRUE /\ rescan = TRUE /\ pc = "check"
      /\ selected = 0 /\ following = NoPid /\ menu = NoMenu
  BY DEF Init
<1>2. ToSet(list) = {} /\ ToSet(rows) = {} /\ list \in Seq(Pid) /\ rows \in Seq(Pid) /\ Len(rows) = 0
  BY <1>1, EmptySeq DEF ToSet
<1>3. MaxText \in Nat
  BY MainScreenAssumption, LenProperties DEF MaxText
<1>4. inc \in IncType
  BY <1>3 DEF Init, IncType, Modes
<1>5. menu \in MenuType
  BY <1>1 DEF MenuType, NoMenu
<1>6. TypeOK
  <2>1. selected \in 0 .. Upper(Len(rows) - 1, 0)
    BY <1>1, <1>2 DEF Upper
  <2>2. /\ Live \subseteq Pid /\ show \subseteq Live /\ tag \subseteq Live
        /\ ToSet(rows) \subseteq Pid /\ signalled \subseteq Pid
    BY <1>1, <1>2 DEF Live
  <2>3. following \in Pid \cup {NoPid}
    BY <1>1
  <2>4. {userOnly, redraw, rescan} \subseteq BOOLEAN /\ pc \in {"check", "read"}
    BY <1>1
  <2> QED
    BY <1>4, <1>5, <2>1, <2>2, <2>3, <2>4, Zenon DEF TypeOK, IncType, MenuType
<1> QED
  BY <1>1, <1>2, <1>6 DEF IInv

LEMMA KeyKeeps ==
  ASSUME IInv, list' = list, show' = show, rows' = rows,
         pc' = "check", redraw' = TRUE,
         tag' \subseteq Live,
         selected' \in 0 .. Upper(Len(rows) - 1, 0),
         following' \in Pid \cup {NoPid},
         inc' \in IncType, menu' \in MenuType,
         signalled' \subseteq Pid,
         userOnly' \in BOOLEAN, rescan' \in BOOLEAN
  PROVE  IInv'
<1>1. TypeOK'
  BY Facts DEF TypeOK, Live, IncType, MenuType
<1> QED
  BY <1>1, Facts DEF IInv

LEMMA MoveKeeps == ASSUME IInv, Move PROVE IInv'
<1>1. PICK to \in {selected - 1, selected + 1, selected - Page, selected + Page,
                   0, Len(rows) - 1} :
        selected' = Clamp(to, Len(rows))
  BY DEF Move
<1>2. to \in Int
  BY <1>1, Facts, RowsBound, MainScreenAssumption DEF Upper
<1>3. selected' \in 0 .. Upper(Len(rows) - 1, 0)
  BY <1>1, <1>2, RowsBound, ClampFacts
<1> QED
  BY <1>3, Facts, KeyKeeps DEF Move, MainKey, KeyRead, listVars

LEMMA SelectKeeps == ASSUME IInv, Select PROVE IInv'
<1>1. selected' \in 0 .. Upper(Len(rows) - 1, 0)
  BY RowsBound DEF Select
<1>2. rescan' \in BOOLEAN
  BY Facts DEF Select
<1> QED
  BY <1>1, <1>2, Facts, KeyKeeps DEF Select, MainKey, KeyRead, listVars

LEMMA ToggleKeeps == ASSUME IInv, Toggle PROVE IInv'
BY Facts, KeyKeeps DEF Toggle, KeyRead, listVars, panelVars

LEMMA FollowKeeps == ASSUME IInv, Follow PROVE IInv'
BY Facts, SelectedFacts, KeyKeeps DEF Follow, MainKey, KeyRead, listVars, panelVars

LEMMA TagKeeps == ASSUME IInv, Tag PROVE IInv'
<1>1. pc = "read" /\ pc' = "check" /\ redraw' = TRUE
  BY DEF Tag, MainKey, KeyRead
<1>2. CASE rows = <<>>
  BY <1>1, <1>2, Facts, KeyKeeps DEF Tag
<1>3. CASE rows # <<>>
  <2>1. tag' = SymDiff(tag, {SelectedPid}) /\ selected' = Clamp(selected + 1, Len(rows))
    BY <1>3 DEF Tag
  <2>2. tag' \subseteq Live
    BY <1>1, <1>3, <2>1, Facts, SelectedFacts, RowsAreAlive DEF SymDiff
  <2>3. selected + 1 \in Int
    BY Facts
  <2>4. selected' \in 0 .. Upper(Len(rows) - 1, 0)
    BY <2>1, <2>3, RowsBound, ClampFacts
  <2> QED
    BY <1>1, <2>2, <2>4, Facts, KeyKeeps DEF Tag
<1> QED
  BY <1>2, <1>3

(* Children are found among the rows. *)
LEMMA FamilyIsAlive ==
  ASSUME IInv, pc = "read", rows # <<>>
  PROVE  Family(SelectedPid) \subseteq Live
<1> DEFINE S == {SelectedPid} \cup ToSet(rows)
<1>1. S \in SUBSET Pid /\ S \subseteq Live
  BY Facts, SelectedFacts, RowsAreAlive
<1>2. Family(SelectedPid) \subseteq S
  BY <1>1 DEF Family
<1> QED
  BY <1>1, <1>2

LEMMA TagAllChildrenKeeps == ASSUME IInv, TagAllChildren PROVE IInv'
<1>1. pc = "read" /\ pc' = "check" /\ redraw' = TRUE
  BY DEF TagAllChildren, MainKey, KeyRead
<1>2. tag' \subseteq Live
  BY <1>1, Facts, FamilyIsAlive DEF TagAllChildren
<1> QED
  BY <1>1, <1>2, Facts, KeyKeeps DEF TagAllChildren, panelVars

LEMMA UntagAllKeeps == ASSUME IInv, UntagAll PROVE IInv'
<1>1. tag' \subseteq Live
  BY Facts DEF UntagAll
<1> QED
  BY <1>1, Facts, KeyKeeps DEF UntagAll, MainKey, KeyRead, panelVars

LEMMA ActivateKeeps == ASSUME IInv, NEW mode \in Modes, Activate(mode) PROVE IInv'
<1>1. inc' = [inc EXCEPT !.active = mode]
  BY Zenon DEF Activate
<1>2. inc' \in IncType
  BY <1>1, Facts DEF IncType
<1> QED
  BY <1>2, Facts, KeyKeeps DEF Activate, MainKey, KeyRead, listVars, panelVars
-----------------------------------------------------------------------------
(* While a search or filter line is open. *)

LEMMA FoundKeeps ==
  ASSUME IInv, selected' \in 0 .. Upper(Len(rows) - 1, 0), FollowFound
  PROVE  following' \in Pid \cup {NoPid}
<1>1. CASE inc'.found /\ rows # <<>>
  BY <1>1, RowsBound DEF FollowFound
<1>2. CASE ~(inc'.found /\ rows # <<>>)
  BY <1>2 DEF FollowFound
<1> QED
  BY <1>1, <1>2

LEMMA LineIsOpen ==
  ASSUME IInv, IncKey
  PROVE  /\ pc' = "check" /\ redraw' = TRUE
         /\ inc.active \in Modes /\ Text \in 0 .. MaxText /\ MaxText \in Nat
<1>1. MaxText \in Nat
  BY MainScreenAssumption, LenProperties DEF MaxText
<1>2. inc.active \in Modes
  BY Facts DEF IncKey, IncType
<1> QED
  BY <1>1, <1>2, Facts DEF IncKey, KeyRead, Text, IncType

LEMMA EditedFacts ==
  ASSUME IInv, IncKey, NEW len \in 0 .. MaxText, Edited(len)
  PROVE  inc' \in IncType /\ selected' \in 0 .. Upper(Len(rows) - 1, 0)
<1> DEFINE first == FirstRow(rows, {p \in Pid : Matches(p, len)})
<1>1. /\ inc' = [inc EXCEPT
                   !.len[inc.active] = len,
                   !.filtering = IF inc.active = "filter" THEN len > 0 ELSE @,
                   !.found = first >= 0]
      /\ selected' = IF first >= 0 THEN first ELSE selected
  BY Zenon DEF Edited
<1>2. first \in -1 .. Len(rows) - 1
  BY Facts, FirstRowFacts
<1> HIDE DEF first
<1>3. inc' \in IncType
  <2> DEFINE lens == [inc.len EXCEPT ![inc.active] = len]
             filters == IF inc.active = "filter" THEN len > 0 ELSE inc.filtering
             finds == first >= 0
  <2>1. inc.active \in Modes /\ inc \in IncType
    BY Facts, LineIsOpen
  <2>2. lens \in [Modes -> 0 .. MaxText]
    BY <2>1 DEF IncType
  <2>3. filters \in BOOLEAN /\ finds \in BOOLEAN
    <3>1. (len > 0) \in BOOLEAN /\ (first >= 0) \in BOOLEAN
      OBVIOUS
    <3>2. inc.filtering \in BOOLEAN
      BY <2>1 DEF IncType
    <3> QED
      BY <3>1, <3>2, Zenon
  <2>4. inc' = [inc EXCEPT !.len = lens, !.filtering = filters, !.found = finds]
    BY <1>1, <2>1 DEF IncType
  <2> HIDE DEF lens, filters, finds
  <2> QED
    BY <2>1, <2>2, <2>3, <2>4 DEF IncType
<1>4. selected' \in 0 .. Upper(Len(rows) - 1, 0)
  BY <1>1, <1>2, Facts, RowsBound DEF Upper
<1> QED
  BY <1>3, <1>4

LEMMA TypeKeeps == ASSUME IInv, Type PROVE IInv'
<1>1. IncKey /\ FollowFound /\ UNCHANGED <<listVars, rows, menu, signalled>>
  BY Zenon DEF Type
<1>2. inc' \in IncType /\ selected' \in 0 .. Upper(Len(rows) - 1, 0)
  <2>1. CASE Text < MaxText /\ Edited(Text + 1)
    <3>1. Text + 1 \in 0 .. MaxText
      BY <1>1, <2>1, LineIsOpen
    <3> QED
      BY <1>1, <2>1, <3>1, EditedFacts
  <2>2. CASE Text > 0 /\ Edited(Text - 1)
    <3>1. Text - 1 \in 0 .. MaxText
      BY <1>1, <2>2, LineIsOpen
    <3> QED
      BY <1>1, <2>2, <3>1, EditedFacts
  <2>3. CASE Edited(Text)
    BY <1>1, <2>3, LineIsOpen, EditedFacts
  <2>4. CASE UNCHANGED <<inc, selected>>
    BY <2>4, Facts
  <2> QED
    BY <2>1, <2>2, <2>3, <2>4, Zenon DEF Type
<1>3. rescan' \in BOOLEAN
  <2>1. rescan' = (rescan \/ inc'.len["filter"] # inc.len["filter"])
    BY Zenon DEF Type
  <2> QED
    BY <2>1, Facts
<1>4. following' \in Pid \cup {NoPid}
  BY <1>1, <1>2, FoundKeeps
<1> QED
  BY <1>1, <1>2, <1>3, <1>4, Facts, LineIsOpen, KeyKeeps DEF listVars

LEMMA NextMatchKeeps == ASSUME IInv, NextMatch PROVE IInv'
<1>1. IncKey /\ FollowFound /\ UNCHANGED <<listVars, rows, inc, menu, signalled>>
      /\ rescan' = (rescan \/ rows = <<>>)
  BY DEF NextMatch
<1>2. selected' \in 0 .. Upper(Len(rows) - 1, 0)
  <2> DEFINE below == {i \in selected + 1 .. Len(rows) - 1 : Matches(Row(i), Text)}
             above == {i \in 0 .. selected - 1 : Matches(Row(i), Text)}
  <2>1. selected' = IF below # {} THEN Min(below)
                    ELSE IF above # {} THEN Min(above) ELSE selected
    BY DEF NextMatch
  <2>2. selected \in 0 .. Upper(Len(rows) - 1, 0) /\ Len(rows) \in Nat
        /\ selected \in Nat /\ Upper(Len(rows) - 1, 0) \in Nat
    BY Facts, RowsBound DEF Upper
  <2>3. below \in SUBSET (0 .. Len(rows) - 1) /\ above \in SUBSET (0 .. selected - 1)
    BY <2>2
  <2>4. IsFiniteSet(0 .. Len(rows) - 1) /\ IsFiniteSet(0 .. selected - 1)
    <3>1. 0 \in Int /\ Len(rows) - 1 \in Int /\ selected - 1 \in Int
      BY <2>2
    <3> QED
      BY <3>1, FS_Interval
  <2> HIDE DEF below, above
  <2>5. IsFiniteSet(below) /\ IsFiniteSet(above) /\ below \in SUBSET Nat /\ above \in SUBSET Nat
    <3>1. IsFiniteSet(below) /\ IsFiniteSet(above)
      BY <2>3, <2>4, FS_Subset
    <3>2. below \in SUBSET Nat /\ above \in SUBSET Nat
      BY <2>2, <2>3
    <3> QED
      BY <3>1, <3>2
  <2>6. CASE below # {}
    <3>1. Min(below) \in 0 .. Len(rows) - 1
      BY <2>3, <2>5, <2>6, Least
    <3> QED
      BY <2>1, <2>2, <2>6, <3>1 DEF Upper
  <2>7. CASE below = {} /\ above # {}
    <3>1. Min(above) \in 0 .. selected - 1
      BY <2>3, <2>5, <2>7, Least
    <3>2. selected' = Min(above)
      BY <2>1, <2>7
    <3> QED
      BY <2>2, <3>1, <3>2
  <2>8. CASE below = {} /\ above = {}
    BY <2>1, <2>2, <2>8
  <2> QED
    BY <2>6, <2>7, <2>8
<1>3. following' \in Pid \cup {NoPid}
  BY <1>1, <1>2, FoundKeeps
<1>4. rescan' \in BOOLEAN
  BY <1>1, Facts
<1> QED
  BY <1>1, <1>2, <1>3, <1>4, Facts, LineIsOpen, KeyKeeps DEF listVars

LEMMA CloseIncKeeps == ASSUME IInv, CloseInc PROVE IInv'
<1>1. IncKey /\ FollowFound /\ UNCHANGED <<listVars, rows, menu, signalled>>
      /\ rescan' = (rescan \/ inc.active = "filter")
  BY Zenon DEF CloseInc
<1>2. selected' \in 0 .. Upper(Len(rows) - 1, 0)
  <2>1. CASE UNCHANGED selected
    BY <2>1, Facts
  <2>2. CASE rows # <<>> /\ selected' \in 0 .. Len(rows) - 1
    BY <2>2, RowsBound
  <2> QED
    BY <2>1, <2>2, Zenon DEF CloseInc
<1>3. inc' \in IncType
  <2>1. inc \in IncType /\ inc.active \in Modes /\ MaxText \in Nat
    BY <1>1, Facts, LineIsOpen
  <2>2. CASE inc' = [inc EXCEPT !.len[inc.active] = 0, !.active = "none",
                                !.filtering = @ /\ inc.active # "filter"]
    <3>1. [inc.len EXCEPT ![inc.active] = 0] \in [Modes -> 0 .. MaxText]
      BY <2>1 DEF IncType
    <3>2. (inc.filtering /\ inc.active # "filter") \in BOOLEAN
      OBVIOUS
    <3> QED
      BY <2>1, <2>2, <3>1, <3>2 DEF IncType
  <2>3. CASE inc' = [inc EXCEPT !.active = "none"]
    BY <2>1, <2>3 DEF IncType
  <2>4. \E escape \in BOOLEAN :
          inc' = IF inc.active = "search" \/ escape
                 THEN [inc EXCEPT !.len[inc.active] = 0, !.active = "none",
                                  !.filtering = @ /\ inc.active # "filter"]
                 ELSE [inc EXCEPT !.active = "none"]
    BY Zenon DEF CloseInc
  <2> QED
    BY <2>2, <2>3, <2>4, Zenon
<1>4. rescan' \in BOOLEAN /\ following' \in Pid \cup {NoPid}
  BY <1>1, <1>2, Facts, FoundKeeps
<1> QED
  BY <1>1, <1>2, <1>3, <1>4, Facts, LineIsOpen, KeyKeeps DEF listVars
-----------------------------------------------------------------------------
(* Menus. *)

LEMMA MenuKeeps ==
  ASSUME IInv, CloseMenu, list' = list, show' = show, tag' = tag, rows' = rows,
         selected' = selected, inc' = inc,
         following' \in Pid \cup {NoPid}, signalled' \subseteq Pid, userOnly' \in BOOLEAN
  PROVE  IInv'
<1>1. menu' \in MenuType
  BY DEF CloseMenu, NoMenu, MenuType
<1> QED
  BY <1>1, Facts, KeyKeeps DEF CloseMenu, MenuKey, KeyRead

LEMMA OpenMenuKeeps ==
  ASSUME IInv, NEW kind \in {"kill", "user", "sort"}, OpenMenu(kind)
  PROVE  IInv'
<1>1. menu' = [kind |-> kind, pid |-> SelectedPid, unfollow |-> following = NoPid]
  BY Zenon DEF OpenMenu
<1>2. SelectedPid \in Pid \cup {NoPid} /\ (following = NoPid) \in BOOLEAN
  BY SelectedFacts
<1>3. menu' \in MenuType
  BY <1>1, <1>2 DEF MenuType
<1>4. following' \in Pid \cup {NoPid}
  BY <1>2, Facts DEF OpenMenu
<1> QED
  BY <1>3, <1>4, Facts, KeyKeeps DEF OpenMenu, MainKey, KeyRead, listVars, panelVars

LEMMA MoveInMenuKeeps == ASSUME IInv, MoveInMenu PROVE IInv'
BY Facts, KeyKeeps DEF MoveInMenu, MenuKey, KeyRead, listVars, panelVars

LEMMA CancelMenuKeeps == ASSUME IInv, CancelMenu PROVE IInv'
BY Facts, MenuKeeps DEF CancelMenu, EndFollowing, listVars, panelVars

LEMMA SendSignalKeeps == ASSUME IInv, SendSignal PROVE IInv'
<1>1. signalled' \subseteq Pid
  BY Facts, SelectedFacts DEF SendSignal, Confirmed, Targets
<1> QED
  BY <1>1, Facts, MenuKeeps DEF SendSignal, EndFollowing, listVars, panelVars

LEMMA PickUserKeeps == ASSUME IInv, PickUser PROVE IInv'
BY Facts, MenuKeeps DEF PickUser, EndFollowing, panelVars

LEMMA PickSortKeeps == ASSUME IInv, PickSort PROVE IInv'
<1>1. following' \in Pid \cup {NoPid}
  BY Facts DEF PickSort
<1> QED
  BY <1>1, Facts, MenuKeeps DEF PickSort, listVars, panelVars
-----------------------------------------------------------------------------
(* The check before a key, which has to make up for what was changed. *)

LEMMA CheckWithScanKeeps == ASSUME IInv, CheckWithScan PROVE IInv'
<1>1. PICK alive \in SUBSET Pid :
        /\ list' \in SetToSeqs(alive)
        /\ \E hidden \in SUBSET (alive \cap Hideable) : show' = alive \ hidden
        /\ tag' = tag \cap alive
  BY DEF CheckWithScan, Scan
<1>2. list' \in Seq(Pid) /\ ToSet(list') = alive
  BY <1>1, ScannedList
<1>3. following' = following /\ inc' = inc /\ menu' = menu /\ userOnly' = userOnly
      /\ RebuildPanel /\ rescan' = FALSE /\ redraw' = TRUE /\ signalled' = {} /\ pc' = "read"
  BY DEF CheckWithScan, Scan
<1>4. /\ rows' \in Seq(Pid)
      /\ ToSet(rows') \subseteq Pid
      /\ selected' \in 0 .. Upper(Len(rows') - 1, 0)
      /\ Filled'
  BY <1>2, <1>3, Refilled
<1>5. Live' \subseteq Pid /\ show' \subseteq Live' /\ tag' \subseteq Live'
  BY <1>1, <1>2 DEF Live
<1>6. {userOnly', redraw', rescan'} \subseteq BOOLEAN /\ pc' \in {"check", "read"}
  BY <1>3, Facts
<1>7. /\ following' \in Pid \cup {NoPid} /\ inc' \in IncType /\ menu' \in MenuType
      /\ signalled' \subseteq Pid
  BY <1>3, Facts
<1>8. TypeOK'
  BY <1>4, <1>5, <1>6, <1>7, Zenon DEF TypeOK, IncType, MenuType
<1> QED
  BY <1>2, <1>4, <1>8, Zenon DEF IInv

LEMMA CheckWithoutScanKeeps == ASSUME IInv, CheckWithoutScan PROVE IInv'
<1>1. /\ list' = list /\ show' = show /\ tag' = tag /\ userOnly' = userOnly
      /\ following' = following /\ inc' = inc /\ menu' = menu
      /\ redraw' = redraw /\ rescan' = rescan /\ signalled' = {} /\ pc' = "read"
  BY DEF CheckWithoutScan, listVars
<1>2. list' \in Seq(Pid)
  BY <1>1, Facts
<1>3. /\ rows' \in Seq(Pid)
      /\ ToSet(rows') \subseteq Pid
      /\ selected' \in 0 .. Upper(Len(rows') - 1, 0)
      /\ Filled'
  <2>1. CASE redraw
    <3>1. RebuildPanel
      BY <2>1 DEF CheckWithoutScan
    <3> QED
      BY <1>1, <1>2, <3>1, Refilled
  <2>2. CASE ~redraw
    <3>1. rows' = rows /\ selected' = selected
      BY <2>2 DEF CheckWithoutScan, panelVars
    <3>2. Filled
      BY <2>2 DEF IInv
    <3>3. Filled'
      BY <1>1, <3>1, <3>2, FilledKeeps
    <3> QED
      BY <3>1, <3>3, Facts
  <2> QED
    BY <2>1, <2>2
<1>4. Live' \subseteq Pid /\ show' \subseteq Live' /\ tag' \subseteq Live'
  BY <1>1, Facts DEF Live
<1>5. {userOnly', redraw', rescan'} \subseteq BOOLEAN /\ pc' \in {"check", "read"}
  BY <1>1, Facts
<1>6. /\ following' \in Pid \cup {NoPid} /\ inc' \in IncType /\ menu' \in MenuType
      /\ signalled' \subseteq Pid
  BY <1>1, Facts
<1>7. TypeOK'
  BY <1>3, <1>4, <1>5, <1>6, Zenon DEF TypeOK, IncType, MenuType
<1> QED
  BY <1>2, <1>3, <1>7, Zenon DEF IInv

(* Nothing to handle, nothing to draw: the panel is still right. *)
LEMMA TimeoutKeeps == ASSUME IInv, Timeout PROVE IInv'
<1>1. /\ pc = "read" /\ pc' = "check" /\ redraw' = FALSE
      /\ list' = list /\ show' = show /\ tag' = tag /\ userOnly' = userOnly
      /\ rows' = rows /\ selected' = selected
      /\ following' = following /\ inc' = inc /\ menu' = menu
      /\ signalled' = signalled /\ rescan' = rescan
  BY DEF Timeout, listVars, panelVars
<1>2. Filled'
  <2>1. Filled
    BY <1>1 DEF IInv
  <2> QED
    BY <1>1, <2>1, FilledKeeps
<1>3. TypeOK'
  BY <1>1, Facts DEF TypeOK, Live, IncType, MenuType
<1> QED
  BY <1>1, <1>2, <1>3, Facts DEF IInv
-----------------------------------------------------------------------------
LEMMA NextKeeps == ASSUME IInv, [Next]_vars PROVE IInv'
<1>1. CASE UNCHANGED vars
  <2>1. /\ list' = list /\ show' = show /\ tag' = tag /\ userOnly' = userOnly
        /\ rows' = rows /\ selected' = selected
        /\ following' = following /\ inc' = inc /\ menu' = menu
        /\ signalled' = signalled /\ redraw' = redraw /\ rescan' = rescan /\ pc' = pc
    BY <1>1 DEF vars
  <2>2. TypeOK'
    BY <2>1, Facts DEF TypeOK, Live, IncType, MenuType
  <2>3. Filled => Filled'
    BY <2>1, FilledKeeps
  <2> QED
    BY <2>1, <2>2, <2>3 DEF IInv
<1>2. CASE Next
  <2>1. CASE CheckWithScan \/ CheckWithoutScan \/ Timeout
    BY <2>1, CheckWithScanKeeps, CheckWithoutScanKeeps, TimeoutKeeps
  <2>2. CASE Move \/ Select \/ Toggle \/ Follow
    BY <2>2, MoveKeeps, SelectKeeps, ToggleKeeps, FollowKeeps
  <2>3. CASE Tag \/ TagAllChildren \/ UntagAll
    BY <2>3, TagKeeps, TagAllChildrenKeeps, UntagAllKeeps
  <2>4. CASE \E mode \in Modes : Activate(mode)
    BY <2>4, ActivateKeeps
  <2>5. CASE Type \/ NextMatch \/ CloseInc
    BY <2>5, TypeKeeps, NextMatchKeeps, CloseIncKeeps
  <2>6. CASE \E kind \in {"kill", "user", "sort"} : OpenMenu(kind)
    BY <2>6, OpenMenuKeeps
  <2>7. CASE MoveInMenu \/ CancelMenu \/ SendSignal \/ PickUser \/ PickSort
    BY <2>7, MoveInMenuKeeps, CancelMenuKeeps, SendSignalKeeps, PickUserKeeps, PickSortKeeps
  <2> QED
    BY <1>2, <2>1, <2>2, <2>3, <2>4, <2>5, <2>6, <2>7, Zenon DEF Next
<1> QED
  BY <1>1, <1>2

LEMMA Inductive == Spec => []IInv
<1>1. Init => IInv
  BY InitIInv
<1>2. IInv /\ [Next]_vars => IInv'
  BY NextKeeps
<1> QED
  BY <1>1, <1>2, PTL DEF Spec

(* Whatever scans, keys, texts and menus did before: when a key is read the *)
(* rows are the processes of the list that pass hidden, user and filter, in *)
(* its order (ProcessList_rebuildPanel).  None of them is a process that a  *)
(* scan has freed.                                                         *)
THEOREM RowsAreTrue == Spec => []RowsAreCurrent
<1>1. IInv => RowsAreCurrent
  BY DEF IInv, Filled, RowsAreCurrent
<1> QED
  BY <1>1, Inductive, PTL

(* A followed process that is on the panel is selected when a key is read,  *)
(* however scans, sorts, filters and menus moved it (Panel_setSelected in   *)
(* ProcessList_rebuildPanel).                                              *)
THEOREM FollowedStaysSelected == Spec => []FollowedIsSelected
<1>1. IInv => FollowedIsSelected
  BY DEF IInv, Filled, FollowedIsSelected
<1> QED
  BY <1>1, Inductive, PTL

(* No step sends a signal to a process that has no tag, but for the one that *)
(* was selected when the menu was opened (Action_pickFromVector).           *)
THEOREM SignalsAreConfirmed == Spec => SignalIsConfirmed
<1>1. [Next]_vars => [signalled' \subseteq signalled \cup tag \cup {menu.pid}]_vars
  <2> SUFFICES ASSUME Next
               PROVE  signalled' \subseteq signalled \cup tag \cup {menu.pid}
    BY DEF vars
  <2>1. CASE CheckWithScan \/ CheckWithoutScan
    BY <2>1 DEF CheckWithScan, CheckWithoutScan
  <2>2. CASE SendSignal
    BY <2>2 DEF SendSignal, Targets, Confirmed
  <2>3. CASE \/ Timeout \/ Move \/ Select \/ Toggle \/ Follow
             \/ Tag \/ TagAllChildren \/ UntagAll
    BY <2>3 DEF Timeout, Move, Select, Toggle, Follow, Tag, TagAllChildren, UntagAll
  <2>4. CASE Type \/ NextMatch \/ CloseInc
    BY <2>4, Zenon DEF Type, NextMatch, CloseInc
  <2>5. CASE \/ \E mode \in Modes : Activate(mode)
             \/ \E kind \in {"kill", "user", "sort"} : OpenMenu(kind)
    BY <2>5, Zenon DEF Activate, OpenMenu
  <2>6. CASE MoveInMenu \/ CancelMenu \/ PickUser \/ PickSort
    BY <2>6 DEF MoveInMenu, CancelMenu, PickUser, PickSort
  <2> QED
    BY <2>1, <2>2, <2>3, <2>4, <2>5, <2>6, Zenon DEF Next
<1> QED
  BY <1>1, PTL DEF Spec, SignalIsConfirmed
-----------------------------------------------------------------------------
(* What the user does to processes.  The invariant: the list shows what    *)
(* the kernel has of those that nobody else has changed, and a menu that   *)
(* was not touched holds what its process had when it was opened.          *)

IoValues == ToSet(IoRows) \cup {IoOther}
State == [nice : NiceMin .. NiceMax, io : IoValues, cpus : SUBSET KernelCpus]

ActTyped ==
  /\ os \in [alive : SUBSET Procs, foreign : SUBSET Procs, root : BOOLEAN, is : [Procs -> State]]
  /\ pl \in [pids : SUBSET Procs, nice : [Procs -> Int], io : [Procs -> IoValues \cup {IoFailed}],
             tagged : SUBSET Procs, rows : SUBSET Procs, selected : Procs \cup {NoProc}]
  /\ pl.rows \subseteq pl.pids /\ pl.selected \in pl.rows \cup {NoProc}
  /\ build \in [ioFlag : BOOLEAN, hwloc : BOOLEAN]
  /\ touched \in SUBSET Procs

MenuFits ==
  picking # NoMenuOpen =>
    /\ picking = [kind |-> picking.kind, pick |-> picking.pick, pid |-> picking.pid,
                  was |-> picking.was, fresh |-> picking.fresh, untouched |-> picking.untouched]
    /\ picking.kind \in {"io", "cpus", "signal"}
    /\ picking.kind = "io" => picking.pick \in ToSet(IoRows)
    /\ picking.kind # "signal" => picking.pid \in Procs
    /\ picking.untouched /\ picking.fresh =>
         /\ picking.kind = "io" /\ build.ioFlag /\ picking.was.io \in ToSet(IoRows) =>
              picking.pick = picking.was.io
         /\ picking.kind = "cpus" /\ picking.was.cpus \subseteq Nameable \cap (0 .. CpuCount - 1) =>
              picking.pick = picking.was.cpus

ActInv == ActTyped /\ MenuFits /\ ShownIsKernels
-----------------------------------------------------------------------------
(* The boxes of the affinity panel are those of the CPUs in the set.       *)

\* Those below i in a set of numbers.
Below(S, i) == Cardinality({j \in S : j < i})

LEMMA BelowFacts ==
  ASSUME NEW S \in SUBSET Nat, IsFiniteSet(S), NEW i \in Nat
  PROVE  /\ Below(S, i) \in Nat /\ Below(S, 0) = 0
         /\ Below(S, i + 1) = IF i \in S THEN Below(S, i) + 1 ELSE Below(S, i)
         /\ Cardinality({j \in S : j <= i}) = Below(S, i + 1)
         /\ Below(S, i) <= Cardinality(S)
         /\ i \in S => Below(S, i) < Cardinality(S)
<1>1. \A j \in S : j \in Nat
  OBVIOUS
<1>2. {j \in S : j < i} \in SUBSET S
  OBVIOUS
<1>3. IsFiniteSet({j \in S : j < i}) /\ Below(S, i) <= Cardinality(S)
  BY <1>2, FS_Subset DEF Below
<1>4. Below(S, i) \in Nat /\ Cardinality(S) \in Nat
  BY <1>3, FS_CardinalityType DEF Below
<1>5. Below(S, 0) = 0
  <2>1. \A j \in S : ~(j < 0)
    BY <1>1
  <2>2. {j \in S : j < 0} = {}
    BY <2>1
  <2> QED
    BY <2>2, FS_EmptySet DEF Below
<1>6. \A j \in S : (j <= i <=> j < i + 1) /\ (j < i + 1 <=> j < i \/ j = i) /\ ~(i < i)
  BY <1>1
<1>7. Cardinality({j \in S : j <= i}) = Below(S, i + 1)
  <2>1. {j \in S : j <= i} = {j \in S : j < i + 1}
    BY <1>6
  <2> QED
    BY <2>1 DEF Below
<1>8. CASE i \in S
  <2>1. {j \in S : j < i + 1} = {j \in S : j < i} \cup {i} /\ i \notin {j \in S : j < i}
    BY <1>6, <1>8
  <2>2. Below(S, i + 1) = Below(S, i) + 1
    BY <1>3, <2>1, FS_AddElement DEF Below
  <2>3. {j \in S : j < i + 1} \in SUBSET S
    OBVIOUS
  <2>4. Below(S, i + 1) <= Cardinality(S)
    BY <2>3, FS_Subset DEF Below
  <2>5. Below(S, i) < Cardinality(S)
    BY <1>4, <2>2, <2>4
  <2> QED
    BY <1>3, <1>4, <1>5, <1>7, <1>8, <2>2, <2>5
<1>9. CASE i \notin S
  <2>1. \A j \in S : j # i
    BY <1>9
  <2>2. \A j \in S : j < i + 1 <=> j < i
    BY <1>6, <2>1
  <2>3. {j \in S : j < i + 1} = {j \in S : j < i}
    BY <2>2
  <2>4. Below(S, i + 1) = Below(S, i)
    BY <2>3 DEF Below
  <2> QED
    BY <1>3, <1>4, <1>5, <1>7, <1>9, <2>4
<1> QED
  BY <1>8, <1>9

LEMMA AscendingFacts ==
  ASSUME NEW S \in SUBSET Nat, IsFiniteSet(S)
  PROVE  /\ Len(Ascending(S)) = Cardinality(S) /\ Cardinality(S) \in Nat
         /\ \A k \in 1 .. Cardinality(S) : Ascending(S)[k] \in S
         /\ \A i \in S : Ascending(S)[Below(S, i) + 1] = i
<1> DEFINE At(k) == CHOOSE i \in S : Cardinality({j \in S : j <= i}) = k
           n == Cardinality(S)
<1>1. n \in Nat
  BY FS_CardinalityType
<1>2. Ascending(S) = [k \in 1 .. n |-> At(k)]
  BY DEF Ascending
<1>3. \A k \in 1 .. n : At(k) \in S /\ Cardinality({j \in S : j <= At(k)}) = k
  <2> TAKE k \in 1 .. n
  <2>1. \E i \in S : Cardinality({j \in S : j <= i}) = k
    BY PlaceOfRank
  <2> QED
    BY <2>1, Zenon
<1> HIDE DEF At
<1>4. Len(Ascending(S)) = n
  BY <1>1, <1>2
<1>5. \A k \in 1 .. n : Ascending(S)[k] = At(k)
  BY <1>2
<1>6. ASSUME NEW i \in S
      PROVE  Ascending(S)[Below(S, i) + 1] = i
  <2> DEFINE k == Below(S, i) + 1
  <2>1. k \in 1 .. n /\ i \in Nat
    <3>1. i \in Nat
      OBVIOUS
    <3>2. Below(S, i) \in Nat /\ Below(S, i) < n
      BY <3>1, BelowFacts
    <3> QED
      BY <1>1, <3>1, <3>2
  <2>2. At(k) \in S /\ Cardinality({j \in S : j <= At(k)}) = k
    BY <1>3, <2>1
  <2> DEFINE a == At(k)
  <2> HIDE DEF a
  <2>3. a \in Nat /\ Below(S, a + 1) = k
    BY <2>2, BelowFacts DEF a
  <2>4. Below(S, a + 1) = Below(S, a) + 1 /\ Below(S, i + 1) = Below(S, i) + 1
    BY <2>1, <2>2, BelowFacts DEF a
  <2>5. \A x, y \in S : x < y => Below(S, x) < Below(S, y)
    <3> SUFFICES ASSUME NEW x \in S, NEW y \in S, x < y
                 PROVE  Below(S, x) < Below(S, y)
      OBVIOUS
    <3>1. x \in Nat /\ y \in Nat
      OBVIOUS
    <3>2. \A j \in S : j < x + 1 => j < y
      BY <3>1
    <3>3. {j \in S : j < x + 1} \in SUBSET {j \in S : j < y}
      BY <3>2
    <3>4. IsFiniteSet({j \in S : j < y})
      BY FS_Subset
    <3>5. Below(S, x + 1) <= Below(S, y)
      BY <3>3, <3>4, FS_Subset DEF Below
    <3>6. Below(S, x + 1) = Below(S, x) + 1 /\ Below(S, x) \in Nat /\ Below(S, y) \in Nat
      BY <3>1, BelowFacts
    <3> QED
      BY <3>5, <3>6
  <2>6. Below(S, a) = Below(S, i) /\ Below(S, a) \in Nat
    <3>1. Below(S, a) \in Nat /\ Below(S, i) \in Nat
      BY <2>1, <2>3, BelowFacts
    <3> QED
      BY <2>3, <2>4, <3>1
  <2>7. a = i
    <3>1. a \in S
      BY <2>2 DEF a
    <3>2. ~(a < i) /\ ~(i < a)
      <4>1. a < i => Below(S, a) < Below(S, i)
        BY <2>5, <3>1
      <4>2. i < a => Below(S, i) < Below(S, a)
        BY <2>5, <3>1
      <4> QED
        BY <2>6, <4>1, <4>2
    <3> QED
      BY <2>1, <2>3, <3>2
  <2> QED
    BY <1>5, <2>1, <2>7 DEF a
<1> QED
  BY <1>1, <1>3, <1>4, <1>5, <1>6

LEMMA LeastOfNat ==
  ASSUME NEW S \in SUBSET Nat, S # {}
  PROVE  \E i \in S : \A j \in S : i <= j
<1>1. PICK i \in S : \A j \in S : <<j, i>> \notin OpToRel(<, Nat)
  BY NatLessThanWellFounded, WFMin
<1>2. \A j \in S : ~(j < i)
  BY <1>1 DEF OpToRel
<1> QED
  BY <1>2

\* Set and CPUs side by side: the place in the set is behind the CPUs below.
LEMMA BoxesFacts ==
  ASSUME NEW S \in SUBSET Nat, IsFiniteSet(S)
  PROVE  Boxes(Ascending(S)) = S \cap (0 .. CpuCount - 1)
<1> DEFINE used == Ascending(S)
           Step(f, i) == IF i = 0 THEN 1
                         ELSE IF f[i - 1] <= Len(used) /\ used[f[i - 1]] = i - 1 THEN f[i - 1] + 1
                         ELSE f[i - 1]
           Cur(f) == f = [i \in 0 .. CpuCount |-> Step(f, i)]
           cur == CHOOSE f : Cur(f)
           g == [i \in 0 .. CpuCount |-> Below(S, i) + 1]
<1>1. CpuCount \in Nat
  BY ProcessActionsAssumption
<1>2. Boxes(used) = {i \in 0 .. CpuCount - 1 : cur[i] <= Len(used) /\ used[cur[i]] = i}
  BY Zenon DEF Boxes
<1>3. Len(used) = Cardinality(S) /\ Cardinality(S) \in Nat
  BY AscendingFacts
<1>4. \A i \in Nat : Below(S, i) \in Nat /\ Below(S, 0) = 0 /\ Below(S, i) <= Cardinality(S)
  BY BelowFacts
<1>5. ASSUME NEW i \in Nat
      PROVE  Below(S, i) + 1 <= Len(used) /\ used[Below(S, i) + 1] = i <=> i \in S
  <2>1. CASE i \in S
    <3>1. Below(S, i) < Cardinality(S) /\ used[Below(S, i) + 1] = i
      BY <2>1, AscendingFacts, BelowFacts
    <3> HIDE DEF used
    <3> QED
      BY <1>3, <1>4, <2>1, <3>1
  <2>2. CASE i \notin S
    <3>1. \A k \in 1 .. Cardinality(S) : used[k] \in S
      BY AscendingFacts
    <3>2. Below(S, i) + 1 <= Len(used) => Below(S, i) + 1 \in 1 .. Cardinality(S)
      BY <1>3, <1>4
    <3> HIDE DEF used
    <3> QED
      BY <2>2, <3>1, <3>2
  <2> QED
    BY <2>1, <2>2
<1> HIDE DEF used
<1>6. ASSUME NEW i \in 0 .. CpuCount, i # 0
      PROVE  /\ i - 1 \in Nat /\ i - 1 \in 0 .. CpuCount /\ (i - 1) + 1 = i
             /\ Below(S, i) = IF i - 1 \in S THEN Below(S, i - 1) + 1 ELSE Below(S, i - 1)
  <2>1. i - 1 \in Nat /\ i - 1 \in 0 .. CpuCount /\ (i - 1) + 1 = i
    BY <1>1, <1>6
  <2>2. Below(S, (i - 1) + 1) = IF i - 1 \in S THEN Below(S, i - 1) + 1 ELSE Below(S, i - 1)
    BY <2>1, BelowFacts
  <2> QED
    BY <2>1, <2>2
<1>7. ASSUME NEW f, NEW i \in 0 .. CpuCount, i # 0, f[i - 1] = Below(S, i - 1) + 1
      PROVE  Step(f, i) = Below(S, i) + 1
  <2>1. f[i - 1] <= Len(used) /\ used[f[i - 1]] = i - 1 <=> i - 1 \in S
    BY <1>5, <1>6, <1>7
  <2>2. Step(f, i) = IF i - 1 \in S THEN f[i - 1] + 1 ELSE f[i - 1]
    BY <1>7, <2>1
  <2> QED
    BY <1>6, <1>7, <2>2
<1>8. Cur(g)
  <2>1. \A i \in 0 .. CpuCount : Step(g, i) = Below(S, i) + 1
    <3> TAKE i \in 0 .. CpuCount
    <3>1. CASE i = 0
      BY <1>4, <3>1
    <3>2. CASE i # 0
      <4>1. g[i - 1] = Below(S, i - 1) + 1
        BY <1>6, <3>2
      <4> QED
        BY <1>7, <3>2, <4>1
    <3> QED
      BY <3>1, <3>2
  <2> QED
    BY <2>1
<1> HIDE DEF g
<1>9. Cur(cur)
  <2> HIDE DEF Cur
  <2> QED
    BY <1>8, Zenon
<1> HIDE DEF cur
<1>10. \A i \in 0 .. CpuCount : cur[i] = Step(cur, i)
  BY <1>9
<1> HIDE DEF Cur
<1>11. \A i \in 0 .. CpuCount : cur[i] = Below(S, i) + 1
  <2> DEFINE W == {i \in 0 .. CpuCount : cur[i] # Below(S, i) + 1}
  <2>1. SUFFICES ASSUME W # {} PROVE FALSE
    OBVIOUS
  <2>2. W \in SUBSET Nat
    BY <1>1
  <2>3. PICK i \in W : \A j \in W : i <= j
    BY <2>1, <2>2, LeastOfNat
  <2>4. i \in 0 .. CpuCount /\ cur[i] # Below(S, i) + 1
    OBVIOUS
  <2>5. CASE i = 0
    BY <1>4, <1>10, <2>4, <2>5
  <2>6. CASE i # 0
    <3>1. i - 1 \in 0 .. CpuCount /\ i - 1 \in Nat
      BY <1>6, <2>4, <2>6
    <3>2. ~(i <= i - 1)
      BY <2>4
    <3>3. i - 1 \notin W
      BY <2>3, <3>2
    <3>4. cur[i - 1] = Below(S, i - 1) + 1
      BY <3>1, <3>3
    <3>5. Step(cur, i) = Below(S, i) + 1
      BY <1>7, <2>4, <2>6, <3>4
    <3> QED
      BY <1>10, <2>4, <3>5
  <2> QED
    BY <2>5, <2>6
<1>12. \A i \in 0 .. CpuCount - 1 : i \in 0 .. CpuCount /\ i \in Nat
  BY <1>1
<1>13. \A i \in 0 .. CpuCount - 1 : (cur[i] <= Len(used) /\ used[cur[i]] = i) <=> i \in S
  BY <1>5, <1>11, <1>12
<1>14. \A i : i \in S /\ i \in 0 .. CpuCount - 1 <=>
              i \in 0 .. CpuCount - 1 /\ cur[i] <= Len(used) /\ used[cur[i]] = i
  BY <1>13
<1>15. Boxes(used) = S \cap (0 .. CpuCount - 1)
  BY <1>2, <1>14, Zenon
<1> QED
  BY <1>15 DEF used
-----------------------------------------------------------------------------
(* The four calls. *)

LEMMA ActTypes ==
  /\ Procs \subseteq Nat /\ NoProc \notin Procs
  /\ NiceMin \in Int /\ NiceMax \in Int /\ NiceMin <= 0 /\ 0 <= NiceMax
  /\ IoFailed \notin ToSet(IoRows) /\ IoOther \notin ToSet(IoRows)
  /\ IoNone \in ToSet(IoRows)
  /\ \A cpus \in SUBSET KernelCpus : Started(cpus) \in State
<1>1. IoNone \in ToSet(IoRows)
  BY ProcessActionsAssumption DEF IoNone, ToSet
<1>2. \A cpus \in SUBSET KernelCpus : Started(cpus) \in State
  BY ProcessActionsAssumption DEF Started, State, IoValues
<1> QED
  BY <1>1, <1>2, ProcessActionsAssumption DEF NoProc

LEMMA ChangedStates ==
  ASSUME NEW is \in State
  PROVE  /\ \A n \in NiceMin .. NiceMax :
               WithNice(is, n) \in State /\ WithNice(is, n) = [nice |-> n, io |-> is.io, cpus |-> is.cpus]
         /\ \A io \in IoValues :
               WithIo(is, io) \in State /\ WithIo(is, io) = [nice |-> is.nice, io |-> io, cpus |-> is.cpus]
         /\ \A cpus \in SUBSET KernelCpus :
               WithCpus(is, cpus) \in State /\ WithCpus(is, cpus) = [nice |-> is.nice, io |-> is.io, cpus |-> cpus]
         /\ is = [nice |-> is.nice, io |-> is.io, cpus |-> is.cpus]
  BY DEF State, WithNice, WithIo, WithCpus

Result == [is : State, nice : Int, io : IoValues \cup {IoFailed}, ok : BOOLEAN, got : BOOLEAN]

LEMMA ResultFields ==
  ASSUME NEW r \in Result
  PROVE  /\ \A flag \in BOOLEAN :
              [r EXCEPT !.ok = flag] = [is |-> r.is, nice |-> r.nice, io |-> r.io, ok |-> flag, got |-> r.got]
         /\ \A flag \in BOOLEAN :
              [r EXCEPT !.got = flag] = [is |-> r.is, nice |-> r.nice, io |-> r.io, ok |-> r.ok, got |-> flag]
         /\ \A is \in State :
              [r EXCEPT !.is = is] = [is |-> is, nice |-> r.nice, io |-> r.io, ok |-> r.ok, got |-> r.got]
         /\ \A nice \in Int :
              [r EXCEPT !.nice = nice] = [is |-> r.is, nice |-> nice, io |-> r.io, ok |-> r.ok, got |-> r.got]
         /\ \A io \in IoValues \cup {IoFailed} :
              [r EXCEPT !.io = io] = [is |-> r.is, nice |-> r.nice, io |-> io, ok |-> r.ok, got |-> r.got]
  BY DEF Result

LEMMA AsItIsTyped ==
  ASSUME ActTyped, NEW p \in Procs
  PROVE  /\ AsItIs(p) \in Result /\ AsItIs(p).ok /\ ~AsItIs(p).got
         /\ AsItIs(p).is = os.is[p] /\ AsItIs(p).nice = pl.nice[p] /\ AsItIs(p).io = pl.io[p]
         /\ Failed(p) = [is |-> os.is[p], nice |-> pl.nice[p], io |-> pl.io[p], ok |-> FALSE, got |-> FALSE]
         /\ Failed(p) \in Result
<1>1. os.is[p] \in State /\ pl.nice[p] \in Int /\ pl.io[p] \in IoValues \cup {IoFailed}
  BY DEF ActTyped
<1>2. AsItIs(p) \in Result
  BY <1>1 DEF AsItIs, Result
<1>3. /\ AsItIs(p).is = os.is[p] /\ AsItIs(p).nice = pl.nice[p] /\ AsItIs(p).io = pl.io[p]
      /\ AsItIs(p).ok = TRUE /\ AsItIs(p).got = FALSE
  BY DEF AsItIs
<1>4. Failed(p) = [is |-> AsItIs(p).is, nice |-> AsItIs(p).nice, io |-> AsItIs(p).io, ok |-> FALSE,
                   got |-> AsItIs(p).got]
  BY <1>2, ResultFields DEF Failed, Result
<1>5. Failed(p) \in Result
  BY <1>2, <1>4 DEF Result
<1> QED
  BY <1>2, <1>3, <1>4, <1>5

(* Process_setPriority: a process that takes the new value is shown with it, *)
(* unless the kernel had the clamped value before.                          *)
LEMMA SetPriorityFacts ==
  ASSUME ActTyped, NEW p \in Procs, NEW priority \in Int
  PROVE  /\ SetPriority(p, priority) \in Result /\ ~SetPriority(p, priority).got
         /\ SetPriority(p, priority).io = pl.io[p]
         /\ SetPriority(p, priority).is.io = os.is[p].io
         /\ NiceGranted(p, Clamped(priority)) =>
              /\ SetPriority(p, priority).ok
              /\ SetPriority(p, priority).is.nice = Clamped(priority)
              /\ SetPriority(p, priority).nice =
                   IF Clamped(priority) # os.is[p].nice THEN priority ELSE pl.nice[p]
         /\ ~NiceGranted(p, Clamped(priority)) =>
              /\ ~SetPriority(p, priority).ok
              /\ SetPriority(p, priority).is = os.is[p]
              /\ SetPriority(p, priority).nice = pl.nice[p]
         /\ Clamped(priority) \in NiceMin .. NiceMax
<1> DEFINE new == Clamped(priority)
           shown == IF new # os.is[p].nice THEN priority ELSE pl.nice[p]
           r == AsItIs(p)
<1>1. new \in NiceMin .. NiceMax
  BY ActTypes DEF Clamped
<1>2. os.is[p] \in State /\ pl.nice[p] \in Int /\ pl.io[p] \in IoValues \cup {IoFailed} /\ shown \in Int
  BY DEF ActTyped
<1>3. r \in Result /\ r.is = os.is[p] /\ r.nice = pl.nice[p] /\ r.io = pl.io[p] /\ r.ok /\ ~r.got
  BY AsItIsTyped
<1>4. CASE NiceGranted(p, new)
  <2> DEFINE is == WithNice(os.is[p], new)
             one == [r EXCEPT !.is = is]
             two == [one EXCEPT !.nice = shown]
  <2>1. is \in State /\ is.nice = new /\ is.io = os.is[p].io
    BY <1>1, <1>2, ChangedStates
  <2>2. SetPriority(p, priority) = [r EXCEPT !.is = WithNice(r.is, new),
                                             !.nice = IF new # os.is[p].nice THEN priority ELSE r.nice]
    BY <1>4, Zenon DEF SetPriority
  <2>3. SetPriority(p, priority) = two
    BY <1>3, <2>2, Zenon
  <2> HIDE DEF is, shown
  <2>4. one = [is |-> is, nice |-> r.nice, io |-> r.io, ok |-> r.ok, got |-> r.got]
    BY <1>3, <2>1, ResultFields
  <2> HIDE DEF one, r
  <2>5. one \in Result
    BY <1>3, <2>1, <2>4 DEF Result
  <2>6. two = [is |-> one.is, nice |-> shown, io |-> one.io, ok |-> one.ok, got |-> one.got]
    BY <1>2, <2>5, ResultFields
  <2> HIDE DEF two
  <2>7. two = [is |-> is, nice |-> shown, io |-> pl.io[p], ok |-> TRUE, got |-> FALSE]
    BY <1>3, <2>4, <2>6 DEF Result
  <2>8. two \in Result
    BY <1>2, <2>1, <2>7 DEF Result
  <2> QED
    BY <1>1, <1>4, <2>1, <2>3, <2>7, <2>8 DEF shown
<1>5. CASE ~NiceGranted(p, new)
  <2>1. SetPriority(p, priority) = Failed(p)
    BY <1>5, Zenon DEF SetPriority
  <2> QED
    BY <1>1, <1>5, <2>1, AsItIsTyped
<1> QED
  BY <1>4, <1>5

(* LinuxProcess_setIOPriority: shown is what was read back. *)
LEMMA SetIOPriorityFacts ==
  ASSUME ActTyped, NEW p \in Procs, NEW ioprio \in ToSet(IoRows)
  PROVE  /\ SetIOPriority(p, ioprio) \in Result /\ ~SetIOPriority(p, ioprio).got
         /\ SetIOPriority(p, ioprio).nice = pl.nice[p]
         /\ SetIOPriority(p, ioprio).is.nice = os.is[p].nice
         /\ p \in os.alive => SetIOPriority(p, ioprio).io = SetIOPriority(p, ioprio).is.io
         /\ IoGranted(p, ioprio) =>
              SetIOPriority(p, ioprio).ok /\ SetIOPriority(p, ioprio).is = WithIo(os.is[p], ioprio)
         /\ ~IoGranted(p, ioprio) => SetIOPriority(p, ioprio).is = os.is[p]
         /\ SetIOPriority(p, ioprio).ok => SetIOPriority(p, ioprio).is.io = ioprio
         /\ WithIo(os.is[p], ioprio).io = ioprio
<1> DEFINE is == IF IoGranted(p, ioprio) THEN WithIo(os.is[p], ioprio) ELSE os.is[p]
           back == IF p \in os.alive THEN is.io ELSE IoFailed
           r == AsItIs(p)
           one == [r EXCEPT !.is = is]
           two == [one EXCEPT !.io = back]
           three == [two EXCEPT !.ok = (back = ioprio)]
<1>1. os.is[p] \in State /\ ioprio \in IoValues
  BY DEF ActTyped, IoValues
<1>2. /\ WithIo(os.is[p], ioprio) \in State /\ WithIo(os.is[p], ioprio).io = ioprio
      /\ WithIo(os.is[p], ioprio).nice = os.is[p].nice
  BY <1>1, ChangedStates
<1>3. /\ is \in State /\ is.nice = os.is[p].nice
      /\ IoGranted(p, ioprio) => is = WithIo(os.is[p], ioprio) /\ is.io = ioprio
      /\ ~IoGranted(p, ioprio) => is = os.is[p]
  BY <1>1, <1>2
<1>4. is.io \in IoValues /\ back \in IoValues \cup {IoFailed} /\ (back = ioprio) \in BOOLEAN
  BY <1>3 DEF State
<1>5. r \in Result /\ r.nice = pl.nice[p] /\ r.ok /\ ~r.got
  BY AsItIsTyped
<1>6. SetIOPriority(p, ioprio) = three
  BY Zenon DEF SetIOPriority
<1>7. back = ioprio => p \in os.alive /\ is.io = ioprio
  BY ActTypes
<1>8. IoGranted(p, ioprio) => p \in os.alive
  BY DEF IoGranted, Reached
<1>9. p \in os.alive => back = is.io
  OBVIOUS
<1> HIDE DEF is, back, r
<1>10. one = [is |-> is, nice |-> r.nice, io |-> r.io, ok |-> r.ok, got |-> r.got]
  BY <1>3, <1>5, ResultFields
<1> HIDE DEF one
<1>11. one \in Result
  BY <1>3, <1>5, <1>10 DEF Result
<1>12. two = [is |-> one.is, nice |-> one.nice, io |-> back, ok |-> one.ok, got |-> one.got]
  BY <1>4, <1>11, ResultFields
<1> HIDE DEF two
<1>13. two \in Result
  BY <1>4, <1>11, <1>12 DEF Result
<1>14. three = [is |-> two.is, nice |-> two.nice, io |-> two.io, ok |-> (back = ioprio), got |-> two.got]
  BY <1>4, <1>13, ResultFields
<1> HIDE DEF three
<1>15. three.is = is /\ three.nice = pl.nice[p] /\ three.io = back /\ three.ok = (back = ioprio) /\ ~three.got
  BY <1>5, <1>10, <1>12, <1>14
<1>16. three \in Result
  BY <1>4, <1>13, <1>14 DEF Result
<1> QED
  BY <1>2, <1>3, <1>6, <1>7, <1>8, <1>9, <1>15, <1>16

(* Affinity_set: all of the set that the call can name, or nothing. *)
LEMMA AffinitySetFacts ==
  ASSUME ActTyped, NEW p \in Procs, NEW cpus
  PROVE  /\ AffinitySet(p, cpus) \in Result /\ ~AffinitySet(p, cpus).got
         /\ AffinitySet(p, cpus).nice = pl.nice[p] /\ AffinitySet(p, cpus).io = pl.io[p]
         /\ AffinitySet(p, cpus).is.nice = os.is[p].nice /\ AffinitySet(p, cpus).is.io = os.is[p].io
         /\ Reached(p) /\ cpus \cap Nameable # {} =>
              /\ AffinitySet(p, cpus).ok
              /\ AffinitySet(p, cpus).is = WithCpus(os.is[p], cpus \cap Nameable)
         /\ ~(Reached(p) /\ cpus \cap Nameable # {}) => AffinitySet(p, cpus).is = os.is[p]
         /\ AffinitySet(p, cpus).ok => AffinitySet(p, cpus).is.cpus = cpus \cap Nameable
<1> DEFINE mask == cpus \cap Nameable
           is == WithCpus(os.is[p], mask)
           r == AsItIs(p)
           one == [r EXCEPT !.is = is]
<1>1. os.is[p] \in State /\ mask \in SUBSET KernelCpus
  BY DEF ActTyped, Nameable
<1>2. is \in State /\ is = [nice |-> os.is[p].nice, io |-> os.is[p].io, cpus |-> mask]
  BY <1>1, ChangedStates
<1>3. r \in Result /\ r.is = os.is[p] /\ r.nice = pl.nice[p] /\ r.io = pl.io[p] /\ r.ok /\ ~r.got
  BY AsItIsTyped
<1>4. CASE Reached(p) /\ mask # {}
  <2>1. AffinitySet(p, cpus) = [r EXCEPT !.is = WithCpus(r.is, mask)]
    BY <1>4, Zenon DEF AffinitySet
  <2>2. AffinitySet(p, cpus) = one
    BY <1>3, <2>1, Zenon
  <2> HIDE DEF is, r
  <2>3. one = [is |-> is, nice |-> r.nice, io |-> r.io, ok |-> r.ok, got |-> r.got]
    BY <1>2, <1>3, ResultFields
  <2> HIDE DEF one
  <2>4. one \in Result
    BY <1>2, <1>3, <2>3 DEF Result
  <2>5. one.is = is /\ one.nice = pl.nice[p] /\ one.io = pl.io[p] /\ one.ok /\ ~one.got
    BY <1>3, <2>3
  <2> QED
    BY <1>2, <1>4, <2>2, <2>4, <2>5 DEF is
<1>5. CASE ~(Reached(p) /\ mask # {})
  <2>1. AffinitySet(p, cpus) = Failed(p)
    BY <1>5, Zenon DEF AffinitySet
  <2> QED
    BY <1>5, <2>1, AsItIsTyped
<1> QED
  BY <1>4, <1>5

LEMMA SendSignalToFacts ==
  ASSUME ActTyped, NEW p \in Procs
  PROVE  /\ SendSignalTo(p) \in Result /\ SendSignalTo(p).ok
         /\ SendSignalTo(p).got = Reached(p)
         /\ SendSignalTo(p).is = os.is[p] /\ SendSignalTo(p).nice = pl.nice[p] /\ SendSignalTo(p).io = pl.io[p]
<1> DEFINE r == AsItIs(p)
           flag == Reached(p)
<1>1. r \in Result /\ r.is = os.is[p] /\ r.nice = pl.nice[p] /\ r.io = pl.io[p] /\ r.ok /\ ~r.got
  BY AsItIsTyped
<1>2. flag \in BOOLEAN
  BY DEF Reached
<1>3. SendSignalTo(p) = [r EXCEPT !.got = flag]
  BY Zenon DEF SendSignalTo
<1> HIDE DEF r, flag
<1>4. SendSignalTo(p) = [is |-> r.is, nice |-> r.nice, io |-> r.io, ok |-> r.ok, got |-> flag]
  BY <1>1, <1>2, <1>3, ResultFields
<1>5. SendSignalTo(p) \in Result
  BY <1>1, <1>2, <1>4 DEF Result
<1> QED
  BY <1>1, <1>4, <1>5 DEF flag

\* The calls that a key can ask for.
CallFits(kind, value) ==
  \/ kind = "nice" /\ value \in {-1, 1}
  \/ kind = "io" /\ value \in ToSet(IoRows)
  \/ kind = "cpus" \/ kind = "signal"

\* One call: it does what was asked for if the kernel grants it, its result
\* says so, and what is shown stays what the kernel has.
LEMMA CalledFacts ==
  ASSUME ActTyped, NEW p \in Procs, NEW kind, NEW value, CallFits(kind, value),
         NEW call, call.kind = kind, call.value = value
  PROVE  /\ Called(p, kind, value) \in Result
         /\ kind # "signal" =>
              /\ ~Called(p, kind, value).got
              /\ Granted(p, call) => Called(p, kind, value).ok
              /\ Called(p, kind, value).ok => Called(p, kind, value).is[kind] = Wanted(p, call)
         /\ kind = "signal" =>
              /\ Called(p, kind, value).got = Reached(p) /\ Called(p, kind, value).ok
              /\ Called(p, kind, value).is = os.is[p]
         /\ p \in os.alive /\ pl.nice[p] = os.is[p].nice
              => Called(p, kind, value).nice = Called(p, kind, value).is.nice
         /\ p \in os.alive /\ pl.io[p] = os.is[p].io
              => Called(p, kind, value).io = Called(p, kind, value).is.io
<1>1. CASE kind = "nice"
  <2> DEFINE priority == pl.nice[p] + value
             c == SetPriority(p, priority)
             new == Clamped(priority)
  <2>1. priority \in Int /\ pl.nice[p] \in Int /\ value \in {-1, 1}
    BY <1>1 DEF ActTyped, CallFits
  <2>2. Called(p, kind, value) = c
    BY <1>1, Zenon DEF Called
  <2>3. Wanted(p, call) = new
    BY <1>1, Zenon DEF Wanted
  <2>4. Granted(p, call) => NiceGranted(p, new)
    BY <1>1, <2>3 DEF Granted, NiceGranted
  <2>5. NiceGranted(p, new) \/ ~NiceGranted(p, new)
    OBVIOUS
  <2>6. /\ c \in Result /\ ~c.got /\ c.io = pl.io[p] /\ c.is.io = os.is[p].io
        /\ NiceGranted(p, new) =>
             /\ c.ok /\ c.is.nice = new
             /\ c.nice = IF new # os.is[p].nice THEN priority ELSE pl.nice[p]
        /\ ~NiceGranted(p, new) => ~c.ok /\ c.is = os.is[p] /\ c.nice = pl.nice[p]
    BY <2>1, SetPriorityFacts, Zenon
  <2>7. pl.nice[p] = os.is[p].nice /\ new # os.is[p].nice => new = priority
    <3>1. os.is[p].nice \in NiceMin .. NiceMax
      BY DEF ActTyped, State
    <3>2. ASSUME pl.nice[p] = os.is[p].nice, new # os.is[p].nice PROVE new = priority
      <4>1. CASE priority < NiceMin
        <5>1. new = NiceMin
          BY <4>1 DEF Clamped
        <5> QED
          BY <2>1, <3>1, <3>2, <4>1, <5>1, ActTypes
      <4>2. CASE priority > NiceMax
        <5>1. new = NiceMax
          BY <2>1, <4>2, ActTypes DEF Clamped
        <5> QED
          BY <2>1, <3>1, <3>2, <4>2, <5>1, ActTypes
      <4> QED
        BY <4>1, <4>2 DEF Clamped
    <3> QED
      BY <3>2
  <2>8. c.ok => c.is["nice"] = new
    BY <2>5, <2>6
  <2>9. pl.nice[p] = os.is[p].nice => c.nice = c.is.nice
    <3> HIDE DEF c, new, priority
    <3> QED
      BY <2>5, <2>6, <2>7
  <2> HIDE DEF c, new, priority
  <2> QED
    BY <1>1, <2>2, <2>3, <2>4, <2>6, <2>8, <2>9
<1>2. CASE kind = "io"
  <2> DEFINE c == SetIOPriority(p, value)
  <2>1. value \in ToSet(IoRows)
    BY <1>2 DEF CallFits
  <2>2. Called(p, kind, value) = c
    BY <1>2, Zenon DEF Called
  <2>3. Wanted(p, call) = value
    BY <1>2, Zenon DEF Wanted
  <2>4. Granted(p, call) => IoGranted(p, value)
    BY <1>2, <2>3 DEF Granted, IoGranted
  <2>5. /\ c \in Result /\ ~c.got /\ c.nice = pl.nice[p] /\ c.is.nice = os.is[p].nice
        /\ p \in os.alive => c.io = c.is.io
        /\ IoGranted(p, value) => c.ok
        /\ c.ok => c.is.io = value
    BY <2>1, SetIOPriorityFacts
  <2> HIDE DEF c
  <2> QED
    BY <1>2, <2>2, <2>3, <2>4, <2>5
<1>3. CASE kind = "cpus"
  <2> DEFINE c == AffinitySet(p, value)
             mask == value \cap Nameable
  <2>1. Called(p, kind, value) = c
    BY <1>3, Zenon DEF Called
  <2>2. Wanted(p, call) = mask
    BY <1>3, Zenon DEF Wanted
  <2>3. Granted(p, call) => Reached(p) /\ mask # {}
    BY <1>3, <2>2 DEF Granted
  <2>4. /\ c \in Result /\ ~c.got /\ c.nice = pl.nice[p] /\ c.io = pl.io[p]
        /\ c.is.nice = os.is[p].nice /\ c.is.io = os.is[p].io
        /\ Reached(p) /\ mask # {} => c.ok
        /\ c.ok => c.is.cpus = mask
    BY AffinitySetFacts
  <2> HIDE DEF c, mask
  <2> QED
    BY <1>3, <2>1, <2>2, <2>3, <2>4
<1>4. CASE kind = "signal"
  <2>1. Called(p, kind, value) = SendSignalTo(p)
    BY <1>4, Zenon DEF Called
  <2> QED
    BY <1>4, <2>1, SendSignalToFacts
<1> QED
  BY <1>1, <1>2, <1>3, <1>4 DEF CallFits

OsType == [alive : SUBSET Procs, foreign : SUBSET Procs, root : BOOLEAN, is : [Procs -> State]]
PlType == [pids : SUBSET Procs, nice : [Procs -> Int], io : [Procs -> IoValues \cup {IoFailed}],
           tagged : SUBSET Procs, rows : SUBSET Procs, selected : Procs \cup {NoProc}]

LEMMA OsChanged ==
  ASSUME NEW o \in OsType, NEW is \in [Procs -> State]
  PROVE  /\ [o EXCEPT !.is = is] \in OsType
         /\ [o EXCEPT !.is = is] = [alive |-> o.alive, foreign |-> o.foreign, root |-> o.root, is |-> is]
<1>1. [o EXCEPT !.is = is] = [alive |-> o.alive, foreign |-> o.foreign, root |-> o.root, is |-> is]
  BY DEF OsType
<1> QED
  BY <1>1 DEF OsType

LEMMA PlChanged ==
  ASSUME NEW l \in PlType, NEW nice \in [Procs -> Int], NEW io \in [Procs -> IoValues \cup {IoFailed}]
  PROVE  /\ [l EXCEPT !.nice = nice, !.io = io] \in PlType
         /\ [l EXCEPT !.nice = nice, !.io = io]
              = [pids |-> l.pids, nice |-> nice, io |-> io, tagged |-> l.tagged, rows |-> l.rows, selected |-> l.selected]
<1> DEFINE t == [pids |-> l.pids, nice |-> nice, io |-> l.io, tagged |-> l.tagged, rows |-> l.rows, selected |-> l.selected]
           u == [pids |-> l.pids, nice |-> nice, io |-> io, tagged |-> l.tagged, rows |-> l.rows, selected |-> l.selected]
<1>1. [l EXCEPT !.nice = nice] = t
  BY DEF PlType
<1>2. [t EXCEPT !.io = io] = u
  OBVIOUS
<1>3. [l EXCEPT !.nice = nice, !.io = io] = [[l EXCEPT !.nice = nice] EXCEPT !.io = io]
  BY Zenon
<1>4. u \in PlType
  BY DEF PlType
<1> HIDE DEF t, u
<1>5. [l EXCEPT !.nice = nice, !.io = io] = u
  BY <1>1, <1>2, <1>3
<1> QED
  BY <1>4, <1>5 DEF u

\* Calls for several processes: each gets its own, and nobody else any.
LEMMA ForeachRowFacts ==
  ASSUME ActTyped, NEW rows_ \in SUBSET Procs, NEW kind, NEW value, CallFits(kind, value),
         ForeachRow(rows_, kind, value)
  PROVE  /\ os' \in OsType /\ os'.alive = os.alive /\ os'.foreign = os.foreign /\ os'.root = os.root
         /\ pl' \in PlType /\ pl'.pids = pl.pids /\ pl'.tagged = pl.tagged /\ pl'.rows = pl.rows
         /\ pl'.selected = pl.selected
         /\ last'.kind = kind /\ last'.value = value
         /\ \A p \in Procs \ rows_ :
              os'.is[p] = os.is[p] /\ pl'.nice[p] = pl.nice[p] /\ pl'.io[p] = pl.io[p] /\ p \notin last'.got
         /\ \A p \in rows_ :
              /\ os'.is[p] = Called(p, kind, value).is
              /\ pl'.nice[p] = Called(p, kind, value).nice
              /\ pl'.io[p] = Called(p, kind, value).io
              /\ p \in last'.got <=> Called(p, kind, value).got
         /\ last'.beep <=> \E p \in rows_ : ~Called(p, kind, value).ok
<1> DEFINE after == [p \in Procs |-> IF p \in rows_ THEN Called(p, kind, value) ELSE AsItIs(p)]
           is == [p \in Procs |-> after[p].is]
           nice == [p \in Procs |-> after[p].nice]
           io == [p \in Procs |-> after[p].io]
<1>1. /\ os' = [os EXCEPT !.is = is]
      /\ pl' = [pl EXCEPT !.nice = nice, !.io = io]
      /\ last' = [kind |-> kind, value |-> value, beep |-> \E p \in rows_ : ~after[p].ok,
                  got |-> {p \in rows_ : after[p].got}]
  BY Zenon DEF ForeachRow
<1>2. \A p \in Procs : Called(p, kind, value) \in Result
  <2> TAKE p \in Procs
  <2> DEFINE call == [kind |-> kind, value |-> value]
  <2>1. call.kind = kind /\ call.value = value
    OBVIOUS
  <2> HIDE DEF call
  <2> QED
    BY <2>1, CalledFacts
<1>3. \A p \in Procs : AsItIs(p) \in Result
  BY AsItIsTyped
<1>4. after \in [Procs -> Result]
  BY <1>2, <1>3
<1>5. /\ \A p \in rows_ : after[p] = Called(p, kind, value)
      /\ \A p \in Procs \ rows_ : after[p] = AsItIs(p)
  OBVIOUS
<1> HIDE DEF after
<1>6. is \in [Procs -> State] /\ nice \in [Procs -> Int] /\ io \in [Procs -> IoValues \cup {IoFailed}]
  BY <1>4 DEF Result
<1>7. os \in OsType /\ pl \in PlType
  BY DEF ActTyped, OsType, PlType
<1>8. \A p \in Procs : is[p] = after[p].is /\ nice[p] = after[p].nice /\ io[p] = after[p].io
  OBVIOUS
<1> HIDE DEF is, nice, io
<1>9. os' \in OsType /\ os' = [alive |-> os.alive, foreign |-> os.foreign, root |-> os.root, is |-> is]
  BY <1>1, <1>6, <1>7, OsChanged
<1>10. /\ pl' \in PlType
       /\ pl' = [pids |-> pl.pids, nice |-> nice, io |-> io, tagged |-> pl.tagged, rows |-> pl.rows,
                 selected |-> pl.selected]
  BY <1>1, <1>6, <1>7, PlChanged
<1>11. /\ last'.kind = kind /\ last'.value = value
       /\ last'.beep <=> \E p \in rows_ : ~after[p].ok
       /\ last'.got = {p \in rows_ : after[p].got}
  BY <1>1
<1>12. \A p \in Procs \ rows_ :
         os'.is[p] = os.is[p] /\ pl'.nice[p] = pl.nice[p] /\ pl'.io[p] = pl.io[p] /\ p \notin last'.got
  BY <1>5, <1>8, <1>9, <1>10, <1>11, AsItIsTyped
<1>13. \A p \in rows_ :
         /\ os'.is[p] = Called(p, kind, value).is
         /\ pl'.nice[p] = Called(p, kind, value).nice
         /\ pl'.io[p] = Called(p, kind, value).io
         /\ p \in last'.got <=> Called(p, kind, value).got
  BY <1>5, <1>8, <1>9, <1>10, <1>11
<1>14. last'.beep <=> \E p \in rows_ : ~Called(p, kind, value).ok
  BY <1>5, <1>11
<1> QED
  BY <1>9, <1>10, <1>11, <1>12, <1>13, <1>14
-----------------------------------------------------------------------------
(* A key that acts on processes. *)

LEMMA TargetsTyped ==
  ASSUME ActTyped
  PROVE  TargetRows \in SUBSET Procs
  BY DEF ActTyped, TargetRows, TaggedRows

LEMMA ForeachKeepsShown ==
  ASSUME ActTyped, ShownIsKernels, NEW kind, NEW value, CallFits(kind, value),
         ForeachProcess(kind, value), UNCHANGED <<build, touched>>
  PROVE  ActTyped' /\ ShownIsKernels'
<1>1. TargetRows \in SUBSET Procs /\ ForeachRow(TargetRows, kind, value)
  BY TargetsTyped DEF ForeachProcess
<1> DEFINE targets == TargetRows
<1> HIDE DEF targets
<1>2. targets \in SUBSET Procs /\ ForeachRow(targets, kind, value)
  BY <1>1 DEF targets
<1>3. /\ os' \in OsType /\ os'.alive = os.alive /\ pl' \in PlType /\ pl'.pids = pl.pids
      /\ pl'.rows = pl.rows /\ pl'.selected = pl.selected
  BY <1>2, ForeachRowFacts
<1>4. \A p \in Procs \ targets : os'.is[p] = os.is[p] /\ pl'.nice[p] = pl.nice[p] /\ pl'.io[p] = pl.io[p]
  BY <1>2, ForeachRowFacts
<1>5. \A p \in targets : /\ os'.is[p] = Called(p, kind, value).is
                         /\ pl'.nice[p] = Called(p, kind, value).nice
                         /\ pl'.io[p] = Called(p, kind, value).io
  BY <1>2, ForeachRowFacts
<1>6. ActTyped'
  BY <1>3 DEF ActTyped, OsType, PlType
<1>7. ASSUME NEW p \in (pl.pids \cap os.alive) \ touched
      PROVE  pl'.nice[p] = os'.is[p].nice /\ (build.ioFlag => pl'.io[p] = os'.is[p].io)
  <2>1. p \in Procs /\ p \in os.alive
    BY DEF ActTyped
  <2>2. pl.nice[p] = os.is[p].nice /\ (build.ioFlag => pl.io[p] = os.is[p].io)
    BY DEF ShownIsKernels
  <2>3. CASE p \in targets
    <3> DEFINE call == [kind |-> kind, value |-> value]
               c == Called(p, kind, value)
    <3>1. call.kind = kind /\ call.value = value
      OBVIOUS
    <3> HIDE DEF call
    <3>2. /\ p \in os.alive /\ pl.nice[p] = os.is[p].nice => c.nice = c.is.nice
          /\ p \in os.alive /\ pl.io[p] = os.is[p].io => c.io = c.is.io
      BY <2>1, <3>1, CalledFacts
    <3>3. os'.is[p] = c.is /\ pl'.nice[p] = c.nice /\ pl'.io[p] = c.io
      BY <1>5, <2>3
    <3> HIDE DEF c
    <3> QED
      BY <2>1, <2>2, <3>2, <3>3
  <2>4. CASE p \notin targets
    BY <1>4, <2>1, <2>2, <2>4
  <2> QED
    BY <2>3, <2>4
<1>8. ShownIsKernels'
  BY <1>3, <1>7 DEF ShownIsKernels
<1> QED
  BY <1>6, <1>8

\* Who is asked gets what was asked for where the kernel grants it, and the
\* beep tells of those that did not.
LEMMA ForeachAnswers ==
  ASSUME ActTyped, NEW kind, NEW value, CallFits(kind, value),
         ForeachProcess(kind, value), TargetRows = Asked
  PROVE  ChangesAreAsked
<1> DEFINE asked == Asked
<1>1. asked \in SUBSET Procs /\ ForeachRow(asked, kind, value)
  BY TargetsTyped DEF ForeachProcess
<1> HIDE DEF asked
<1>2. /\ last'.kind = kind /\ last'.value = value
      /\ \A p \in Procs \ asked : os'.is[p] = os.is[p] /\ p \notin last'.got
      /\ \A p \in asked : os'.is[p] = Called(p, kind, value).is
      /\ \A p \in asked : p \in last'.got <=> Called(p, kind, value).got
      /\ last'.beep <=> \E p \in asked : ~Called(p, kind, value).ok
  <2>1. \A p \in asked : p \in last'.got <=> Called(p, kind, value).got
    BY <1>1, ForeachRowFacts
  <2>2. last'.beep <=> \E p \in asked : ~Called(p, kind, value).ok
    BY <1>1, ForeachRowFacts
  <2>3. \A p \in asked : os'.is[p] = Called(p, kind, value).is
    BY <1>1, ForeachRowFacts
  <2>4. \A p \in Procs \ asked : os'.is[p] = os.is[p]
    BY <1>1, ForeachRowFacts
  <2>5. \A p \in Procs \ asked : p \notin last'.got
    BY <1>1, ForeachRowFacts
  <2>6. last'.kind = kind /\ last'.value = value
    <3>1. PICK beep, got : last' = [kind |-> kind, value |-> value, beep |-> beep, got |-> got]
      BY <1>1, Zenon DEF ForeachRow
    <3> QED
      BY <3>1
  <2> QED
    BY <2>1, <2>2, <2>3, <2>4, <2>5, <2>6
<1> DEFINE call == last'
<1> HIDE DEF call
<1>3. call.kind = kind /\ call.value = value
  BY <1>2 DEF call
<1>4. \A p \in asked :
        /\ kind # "signal" =>
             /\ Granted(p, call) => Called(p, kind, value).ok
             /\ Called(p, kind, value).ok => Called(p, kind, value).is[kind] = Wanted(p, call)
        /\ kind = "signal" => Called(p, kind, value).got = Reached(p) /\ Called(p, kind, value).ok
  BY <1>1, <1>3, CalledFacts
<1>5. kind \in {"nice", "io", "cpus", "signal"}
  BY DEF CallFits
<1>6. CASE kind # "signal"
  <2>1. \A p \in asked : Outcome(p, call) = Called(p, kind, value).is[kind]
    <3> TAKE p \in asked
    <3>1. call.kind \in {"nice", "io", "cpus"}
      BY <1>3, <1>5, <1>6
    <3>2. Outcome(p, call) = os'.is[p][call.kind]
      BY <3>1, Zenon DEF Outcome
    <3> QED
      BY <1>2, <1>3, <3>2, Zenon
  <2>2. \A p \in asked : Granted(p, call) => Outcome(p, call) = Wanted(p, call)
    BY <1>4, <1>6, <2>1
  <2>3. call.beep => \E p \in asked : ~Granted(p, call)
    BY <1>2, <1>4, <1>6 DEF call
  <2>4. (\E p \in asked : Outcome(p, call) # Wanted(p, call)) => call.beep
    BY <1>2, <1>4, <1>6, <2>1 DEF call
  <2> QED
    BY <1>2, <2>2, <2>3, <2>4 DEF ChangesAreAsked, call, asked
<1>7. CASE kind = "signal"
  <2>1. \A p \in asked : Granted(p, call) => Outcome(p, call) = Wanted(p, call)
    <3> TAKE p \in asked
    <3>1. Outcome(p, call) = (p \in call.got) /\ Wanted(p, call) = TRUE
      BY <1>3, <1>7 DEF Outcome, Wanted
    <3>2. Granted(p, call) => Reached(p)
      BY DEF Granted
    <3>3. p \in call.got <=> Called(p, kind, value).got
      BY <1>2, Zenon DEF call
    <3> QED
      BY <1>4, <1>7, <3>1, <3>2, <3>3
  <2>2. ~call.beep
    BY <1>2, <1>4, <1>7 DEF call
  <2> QED
    BY <1>2, <1>7, <2>1, <2>2 DEF ChangesAreAsked, call, asked
<1> QED
  BY <1>6, <1>7

\* Without a call nothing has to be right.
LEMMA QuietStep ==
  ASSUME last' = NoCall
  PROVE  ChangesAreAsked /\ UntouchedMenuKeeps
  BY DEF ChangesAreAsked, UntouchedMenuKeeps, NoCall

\* What others do is known of in touched until the next scan.
LEMMA OthersKeep ==
  ASSUME ActInv, NEW q \in Procs, Others(q), os' \in OsType,
         os'.alive \subseteq os.alive \cup {q},
         \A p \in Procs \ {q} : os'.is[p] = os.is[p]
  PROVE  ActInv' /\ ChangesAreAsked /\ UntouchedMenuKeeps
<1>1. /\ touched' = touched \cup {q} /\ last' = NoCall
      /\ pl' = pl /\ build' = build /\ picking' = picking
  BY DEF Others
<1>2. ActTyped'
  BY <1>1 DEF ActInv, ActTyped, OsType
<1>3. MenuFits'
  BY <1>1, Zenon DEF ActInv, MenuFits, Nameable
<1>4. ShownIsKernels'
  <2> SUFFICES ASSUME NEW p \in (pl.pids \cap os'.alive) \ touched'
               PROVE  pl.nice[p] = os'.is[p].nice /\ (build.ioFlag => pl.io[p] = os'.is[p].io)
    BY <1>1 DEF ShownIsKernels
  <2>1. p \in (pl.pids \cap os.alive) \ touched /\ p # q
    BY <1>1
  <2>2. os'.is[p] = os.is[p]
    BY <2>1 DEF ActInv, ActTyped
  <2> QED
    BY <2>1, <2>2 DEF ActInv, ShownIsKernels
<1> QED
  BY <1>1, <1>2, <1>3, <1>4, QuietStep DEF ActInv

LEMMA ChangedToFacts ==
  ASSUME ActTyped, NEW q \in Procs, NEW is \in State
  PROVE  /\ ChangedTo(q, is) \in OsType /\ ChangedTo(q, is).alive = os.alive
         /\ \A p \in Procs \ {q} : ChangedTo(q, is).is[p] = os.is[p]
<1> DEFINE all == [os.is EXCEPT ![q] = is]
<1>1. ChangedTo(q, is) = [os EXCEPT !.is = all]
  BY Zenon DEF ChangedTo
<1>2. all \in [Procs -> State] /\ \A p \in Procs \ {q} : all[p] = os.is[p]
  BY DEF ActTyped
<1>3. os \in OsType
  BY DEF ActTyped, OsType
<1> HIDE DEF all
<1>4. /\ [os EXCEPT !.is = all] \in OsType
      /\ [os EXCEPT !.is = all] = [alive |-> os.alive, foreign |-> os.foreign, root |-> os.root, is |-> all]
  BY <1>2, <1>3, OsChanged
<1> QED
  BY <1>1, <1>2, <1>4

LEMMA AliveChanged ==
  ASSUME NEW o \in OsType, NEW alive \in SUBSET Procs
  PROVE  /\ [o EXCEPT !.alive = alive] \in OsType
         /\ [o EXCEPT !.alive = alive].alive = alive
         /\ [o EXCEPT !.alive = alive].is = o.is
<1>1. [o EXCEPT !.alive = alive] = [alive |-> alive, foreign |-> o.foreign, root |-> o.root, is |-> o.is]
  BY DEF OsType
<1> QED
  BY <1>1 DEF OsType

LEMMA OthersStep ==
  ASSUME ActInv, ExitProcess \/ ForkProcess \/ Renice \/ Reassign \/ Rebind
  PROVE  ActInv' /\ ChangesAreAsked /\ UntouchedMenuKeeps
<1>1. os \in OsType /\ \A p \in Procs : os.is[p] \in State
  BY DEF ActInv, ActTyped, OsType
<1>2. os.alive \in SUBSET Procs
  BY <1>1 DEF OsType
<1>3. CASE ExitProcess
  <2>1. PICK q \in os.alive : Others(q) /\ os' = [os EXCEPT !.alive = os.alive \ {q}]
    BY <1>3, Zenon DEF ExitProcess
  <2> DEFINE alive == os.alive \ {q}
  <2>2. alive \in SUBSET Procs /\ q \in Procs /\ alive \subseteq os.alive \cup {q}
    BY <1>2
  <2> HIDE DEF alive
  <2>3. os' \in OsType /\ os'.alive = alive /\ os'.is = os.is
    BY <1>1, <2>1, <2>2, AliveChanged DEF alive
  <2> QED
    BY <2>1, <2>2, <2>3, OthersKeep
<1>4. CASE ForkProcess
  <2> DEFINE is == Started(KernelCpus)
  <2>1. PICK q \in Procs \ os.alive :
          Others(q) /\ os' = [ChangedTo(q, is) EXCEPT !.alive = ChangedTo(q, is).alive \cup {q}]
    BY <1>4, Zenon DEF ForkProcess
  <2>2. is \in State
    BY ActTypes
  <2> HIDE DEF is
  <2> DEFINE o == ChangedTo(q, is)
             alive == o.alive \cup {q}
  <2>3. o \in OsType /\ o.alive = os.alive /\ \A p \in Procs \ {q} : o.is[p] = os.is[p]
    BY <2>2, ChangedToFacts DEF ActInv
  <2>4. os' = [o EXCEPT !.alive = alive]
    BY <2>1
  <2>5. alive \in SUBSET Procs /\ alive \subseteq os.alive \cup {q}
    BY <1>2, <2>3
  <2> HIDE DEF o, alive
  <2>6. os' \in OsType /\ os'.alive = alive /\ os'.is = o.is
    BY <2>3, <2>4, <2>5, AliveChanged
  <2> QED
    BY <2>1, <2>3, <2>5, <2>6, OthersKeep
<1>5. ASSUME NEW q \in os.alive, NEW is \in State, Others(q), os' = ChangedTo(q, is)
      PROVE  ActInv' /\ ChangesAreAsked /\ UntouchedMenuKeeps
  <2>1. q \in Procs
    BY <1>2
  <2>2. os' \in OsType /\ os'.alive = os.alive /\ \A p \in Procs \ {q} : os'.is[p] = os.is[p]
    BY <1>5, <2>1, ChangedToFacts DEF ActInv
  <2> QED
    BY <1>5, <2>1, <2>2, OthersKeep
<1>6. CASE Renice
  <2>1. PICK q \in os.alive, n \in NiceMin .. NiceMax : Others(q) /\ os' = ChangedTo(q, WithNice(os.is[q], n))
    BY <1>6, Zenon DEF Renice
  <2>2. WithNice(os.is[q], n) \in State
    BY <1>1, <1>2, ChangedStates
  <2> QED
    BY <1>5, <2>1, <2>2
<1>7. CASE Reassign
  <2>1. PICK q \in os.alive, io \in ToSet(IoRows) : Others(q) /\ os' = ChangedTo(q, WithIo(os.is[q], io))
    BY <1>7, Zenon DEF Reassign
  <2>2. io \in IoValues
    BY DEF IoValues
  <2>3. WithIo(os.is[q], io) \in State
    BY <1>1, <1>2, <2>2, ChangedStates
  <2> QED
    BY <1>5, <2>1, <2>3
<1>8. CASE Rebind
  <2>1. PICK q \in os.alive, c \in KernelCpus : Others(q) /\ os' = ChangedTo(q, WithCpus(os.is[q], {c}))
    BY <1>8, Zenon DEF Rebind
  <2>2. {c} \in SUBSET KernelCpus
    OBVIOUS
  <2>3. WithCpus(os.is[q], {c}) \in State
    BY <1>1, <1>2, <2>2, ChangedStates
  <2> QED
    BY <1>5, <2>1, <2>3
<1> QED
  BY <1>3, <1>4, <1>6, <1>7, <1>8
-----------------------------------------------------------------------------
LEMMA ActInitInv == ActInit => ActInv
<1> SUFFICES ASSUME ActInit PROVE ActInv
  OBVIOUS
<1>1. PICK foreign \in SUBSET Procs, root \in BOOLEAN, cpus \in {KernelCpus, {CHOOSE c \in KernelCpus : TRUE}} :
        os = [alive |-> Procs, foreign |-> foreign, root |-> root, is |-> [p \in Procs |-> Started(cpus)]]
  BY Zenon DEF ActInit
<1>2. cpus \in SUBSET KernelCpus
  <2>1. (CHOOSE c \in KernelCpus : TRUE) \in KernelCpus
    BY ProcessActionsAssumption
  <2> QED
    BY <2>1
<1>3. os \in OsType
  <2> DEFINE is == Started(cpus)
  <2>1. is \in State
    BY <1>2, ActTypes
  <2> HIDE DEF is
  <2>2. [p \in Procs |-> is] \in [Procs -> State]
    BY <2>1
  <2> DEFINE all == [p \in Procs |-> is]
  <2> HIDE DEF all
  <2>3. all \in [Procs -> State]
    BY <2>2 DEF all
  <2>4. os = [alive |-> Procs, foreign |-> foreign, root |-> root, is |-> all]
    BY <1>1 DEF all, is
  <2> QED
    BY <2>3, <2>4 DEF OsType
<1>4. /\ pl = [pids |-> {}, nice |-> [p \in Procs |-> 0], io |-> [p \in Procs |-> IoNone],
               tagged |-> {}, rows |-> {}, selected |-> NoProc]
      /\ build \in [ioFlag : BOOLEAN, hwloc : BOOLEAN]
      /\ picking = NoMenuOpen /\ touched = {}
  BY Zenon DEF ActInit
<1>5. IoNone \in IoValues \cup {IoFailed}
  BY ActTypes DEF IoValues
<1>6. ActTyped
  BY <1>3, <1>4, <1>5 DEF ActTyped, OsType
<1>7. MenuFits /\ ShownIsKernels
  BY <1>4 DEF MenuFits, ShownIsKernels
<1> QED
  BY <1>6, <1>7 DEF ActInv

\* A scan reads what the kernel has, whatever was known before.
LEMMA ScanProcessesKeeps == ASSUME ActInv, ScanProcesses PROVE ActInv' /\ last' = NoCall
<1> DEFINE nice == [p \in Procs |-> IF p \in os.alive THEN os.is[p].nice ELSE 0]
           io == [p \in Procs |-> IF p \in os.alive /\ build.ioFlag THEN os.is[p].io
                                  ELSE IF p \in os.alive \cap pl.pids THEN pl.io[p] ELSE IoNone]
<1>1. PICK hidden \in SUBSET (MayHide \cap os.alive) :
        \E sel \in (IF os.alive \ hidden = {} THEN {NoProc}
                    ELSE IF picking # NoMenuOpen /\ picking.pid \in os.alive \ hidden THEN {picking.pid}
                    ELSE os.alive \ hidden) :
          pl' = [pids |-> os.alive, nice |-> nice, io |-> io, tagged |-> pl.tagged \cap os.alive,
                 rows |-> os.alive \ hidden, selected |-> sel]
  BY Zenon DEF ScanProcesses
<1> DEFINE shown == os.alive \ hidden
<1>0. PICK sel \in (IF shown = {} THEN {NoProc}
                    ELSE IF picking # NoMenuOpen /\ picking.pid \in shown THEN {picking.pid}
                    ELSE shown) :
        pl' = [pids |-> os.alive, nice |-> nice, io |-> io, tagged |-> pl.tagged \cap os.alive,
               rows |-> shown, selected |-> sel]
  BY <1>1, Zenon
<1>2. touched' = {} /\ last' = NoCall /\ os' = os /\ build' = build /\ picking' = picking
  BY DEF ScanProcesses
<1>3. \A p \in Procs : os.is[p].nice \in Int /\ os.is[p].io \in IoValues /\ pl.io[p] \in IoValues \cup {IoFailed}
  BY ActTypes DEF ActInv, ActTyped, State
<1>4. IoNone \in IoValues
  BY ActTypes DEF IoValues
<1>5. nice \in [Procs -> Int] /\ io \in [Procs -> IoValues \cup {IoFailed}]
  BY <1>3, <1>4
<1>6. \A p \in os.alive \cap Procs : nice[p] = os.is[p].nice /\ (build.ioFlag => io[p] = os.is[p].io)
  OBVIOUS
<1> HIDE DEF nice, io
<1>7. os.alive \in SUBSET Procs /\ pl.tagged \in SUBSET Procs
  BY DEF ActInv, ActTyped
<1>8. sel \in shown \cup {NoProc} /\ shown \subseteq os.alive
  BY <1>0
<1> HIDE DEF shown
<1>12. shown \in SUBSET Procs
  BY <1>7 DEF shown
<1>9. ActTyped'
  BY <1>0, <1>12, <1>2, <1>5, <1>7, <1>8 DEF ActInv, ActTyped
<1>10. MenuFits'
  BY <1>2, Zenon DEF ActInv, MenuFits, Nameable
<1>11. ShownIsKernels'
  BY <1>0, <1>2, <1>6, <1>7 DEF ShownIsKernels
<1> QED
  BY <1>2, <1>9, <1>10, <1>11 DEF ActInv

LEMMA TagProcessKeeps == ASSUME ActInv, TagProcess PROVE ActInv' /\ last' = NoCall
<1>1. PICK next \in pl.rows :
        pl' = [pl EXCEPT !.tagged = SymDiff(pl.tagged, {pl.selected}), !.selected = next]
  BY Zenon DEF TagProcess
<1>2. /\ pl.selected # NoProc /\ last' = NoCall /\ os' = os /\ picking' = picking
      /\ build' = build /\ touched' = touched
  BY DEF TagProcess, PanelKey, ActKey
<1> DEFINE tagged == SymDiff(pl.tagged, {pl.selected})
           t == [pids |-> pl.pids, nice |-> pl.nice, io |-> pl.io, tagged |-> tagged, rows |-> pl.rows, selected |-> pl.selected]
           u == [pids |-> pl.pids, nice |-> pl.nice, io |-> pl.io, tagged |-> tagged, rows |-> pl.rows, selected |-> next]
<1>3. tagged \in SUBSET Procs
  BY <1>2 DEF ActInv, ActTyped, SymDiff
<1> HIDE DEF tagged
<1>4. [pl EXCEPT !.tagged = tagged] = t
  BY DEF ActInv, ActTyped
<1>5. [t EXCEPT !.selected = next] = u
  OBVIOUS
<1>6. [pl EXCEPT !.tagged = tagged, !.selected = next] = [[pl EXCEPT !.tagged = tagged] EXCEPT !.selected = next]
  BY Zenon
<1>7. pl' = [pl EXCEPT !.tagged = tagged, !.selected = next]
  BY <1>1, Zenon DEF tagged
<1> HIDE DEF t, u
<1>8. pl' = u
  BY <1>4, <1>5, <1>6, <1>7, Zenon
<1>9. ActTyped'
  <2>1. next \in Procs
    BY DEF ActInv, ActTyped
  <2>2. u \in PlType /\ u.rows \subseteq u.pids /\ u.selected \in u.rows
    BY <1>3, <2>1 DEF ActInv, ActTyped, PlType, u
  <2> QED
    BY <1>2, <1>8, <2>2 DEF ActInv, ActTyped, PlType
<1>10. MenuFits'
  BY <1>2, Zenon DEF ActInv, MenuFits, Nameable
<1>11. ShownIsKernels'
  BY <1>2, <1>8 DEF ActInv, ShownIsKernels, u
<1> QED
  BY <1>2, <1>9, <1>10, <1>11 DEF ActInv

LEMMA ChangePriorityKeeps ==
  ASSUME ActInv, NEW delta \in {-1, 1}, ChangePriority(delta)
  PROVE  ActInv' /\ ChangesAreAsked /\ UntouchedMenuKeeps
<1>1. /\ picking = NoMenuOpen /\ picking' = picking /\ UNCHANGED <<build, touched>>
      /\ ForeachProcess("nice", delta)
  BY Zenon DEF ChangePriority, PanelKey, ActKey
<1>2. CallFits("nice", delta)
  BY DEF CallFits
<1>3. TargetRows = Asked
  BY <1>1 DEF TargetRows, TaggedRows, Asked
<1>4. ActTyped' /\ ShownIsKernels'
  BY <1>1, <1>2, ForeachKeepsShown DEF ActInv
<1>5. ChangesAreAsked
  BY <1>1, <1>2, <1>3, ForeachAnswers DEF ActInv
<1>6. MenuFits' /\ UntouchedMenuKeeps
  BY <1>1 DEF MenuFits, UntouchedMenuKeeps
<1> QED
  BY <1>4, <1>5, <1>6 DEF ActInv
-----------------------------------------------------------------------------
(* Menus. *)

MenuRecord(kind, pick, pid, was, fresh, untouched) ==
  [kind |-> kind, pick |-> pick, pid |-> pid, was |-> was, fresh |-> fresh, untouched |-> untouched]

LEMMA MenuTouched ==
  ASSUME NEW kind, NEW pick, NEW pid, NEW was, NEW fresh, NEW untouched, NEW flag
  PROVE  [MenuRecord(kind, pick, pid, was, fresh, untouched) EXCEPT !.untouched = flag]
           = MenuRecord(kind, pick, pid, was, fresh, flag)
  BY DEF MenuRecord

\* A menu that begins with what its process has fits.
LEMMA MenuOpenedKeeps ==
  ASSUME ActInv, NEW kind \in {"io", "cpus", "signal"}, NEW pick,
         MenuOpened(kind, pick), UNCHANGED <<build, touched>>,
         kind # "signal" => pl.selected \in Procs,
         kind = "io" => pick \in ToSet(IoRows),
         pl.selected \in os.alive \ touched =>
           /\ kind = "io" /\ build.ioFlag /\ os.is[pl.selected].io \in ToSet(IoRows) =>
                pick = os.is[pl.selected].io
           /\ kind = "cpus" /\ os.is[pl.selected].cpus \subseteq Nameable \cap (0 .. CpuCount - 1) =>
                pick = os.is[pl.selected].cpus
  PROVE  ActInv' /\ last' = NoCall
<1> DEFINE was_ == IF pl.selected = NoProc THEN Started(KernelCpus) ELSE os.is[pl.selected]
           fresh_ == pl.selected \in os.alive \ touched
           m == MenuRecord(kind, pick, pl.selected, was_, fresh_, TRUE)
<1>1. /\ picking' = m /\ last' = NoCall /\ os' = os /\ pl' = pl
      /\ build' = build /\ touched' = touched
  BY Zenon DEF MenuOpened, MenuRecord
<1>2. fresh_ => was_ = os.is[pl.selected]
  BY ActTypes DEF ActInv, ActTyped
<1> HIDE DEF was_
<1>3. /\ m = [kind |-> m.kind, pick |-> m.pick, pid |-> m.pid, was |-> m.was, fresh |-> m.fresh,
              untouched |-> m.untouched]
      /\ m.kind = kind /\ m.pick = pick /\ m.pid = pl.selected /\ m.was = was_ /\ m.fresh = fresh_
  BY DEF MenuRecord
<1> HIDE DEF m
<1>4. Nameable' = Nameable
  BY <1>1 DEF Nameable
<1>5. MenuFits'
  <2>1. /\ m.kind \in {"io", "cpus", "signal"}
        /\ m.kind = "io" => m.pick \in ToSet(IoRows)
        /\ m.kind # "signal" => m.pid \in Procs
    BY <1>3
  <2>2. m.fresh =>
          /\ m.kind = "io" /\ build.ioFlag /\ m.was.io \in ToSet(IoRows) => m.pick = m.was.io
          /\ m.kind = "cpus" /\ m.was.cpus \subseteq Nameable \cap (0 .. CpuCount - 1) => m.pick = m.was.cpus
    <3>1. m.fresh => pl.selected \in os.alive \ touched
      BY <1>3, Zenon
    <3>2. m.fresh => m.was = os.is[pl.selected]
      BY <1>2, <1>3, Zenon
    <3> QED
      BY <1>3, <3>1, <3>2
  <2> QED
    BY <1>1, <1>3, <1>4, <2>1, <2>2 DEF MenuFits
<1>6. ActTyped' /\ ShownIsKernels'
  BY <1>1 DEF ActInv, ActTyped, ShownIsKernels
<1> QED
  BY <1>1, <1>5, <1>6 DEF ActInv

LEMMA OpenIOPriorityKeeps == ASSUME ActInv, OpenIOPriority PROVE ActInv' /\ last' = NoCall
<1> DEFINE sel == pl.selected
           io == pl.io[sel]
           pick == IoRows[IoRow(io)]
<1>1. MenuOpened("io", pick) /\ UNCHANGED <<build, touched>> /\ sel # NoProc
  BY DEF OpenIOPriority, PanelKey, ActKey
<1>2. sel \in Procs /\ sel \in pl.pids
  BY <1>1 DEF ActInv, ActTyped
<1>3. pick \in ToSet(IoRows) /\ (io \in ToSet(IoRows) => pick = io)
  <2> HIDE DEF sel, io
  <2>1. CASE io \in ToSet(IoRows)
    <3>1. \E i \in DOMAIN IoRows : IoRows[i] = io
      BY <2>1, Zenon DEF ToSet
    <3>2. IoRow(io) = CHOOSE i \in DOMAIN IoRows : IoRows[i] = io
      BY <2>1, Zenon DEF IoRow
    <3>3. IoRows[IoRow(io)] = io
      BY <3>1, <3>2, Zenon
    <3> QED
      BY <2>1, <3>3
  <2>2. CASE io \notin ToSet(IoRows)
    <3>1. IoRow(io) = 1
      BY <2>2, Zenon DEF IoRow
    <3>2. IoNone \in ToSet(IoRows)
      BY ActTypes
    <3> QED
      BY <2>2, <3>1, <3>2 DEF IoNone
  <2> QED
    BY <2>1, <2>2
<1>4. sel \in os.alive \ touched /\ build.ioFlag => io = os.is[sel].io
  BY <1>2 DEF ActInv, ShownIsKernels
<1> HIDE DEF pick, io
<1>5. pl.selected \in os.alive \ touched =>
        (build.ioFlag /\ os.is[pl.selected].io \in ToSet(IoRows) => pick = os.is[pl.selected].io)
  BY <1>3, <1>4
<1> QED
  BY <1>1, <1>2, <1>3, <1>5, MenuOpenedKeeps

LEMMA OpenAffinityKeeps == ASSUME ActInv, OpenAffinity PROVE ActInv' /\ last' = NoCall
<1> DEFINE sel == pl.selected
           cpus == os.is[sel].cpus
           S == {i \in cpus : build.hwloc \/ i < CpuCount}
           pick == Boxes(AffinityGet(sel))
<1>1. UNCHANGED <<build, touched>> /\ sel # NoProc
  BY Zenon DEF OpenAffinity, PanelKey, ActKey
<1>2. sel \in Procs
  BY <1>1 DEF ActInv, ActTyped
<1>3. CASE sel \in os.alive
  <2>1. MenuOpened("cpus", pick)
    BY <1>3, Zenon DEF OpenAffinity
  <2>2. cpus \in SUBSET KernelCpus
    BY <1>2 DEF ActInv, ActTyped, State
  <2> HIDE DEF cpus
  <2>3. S \in SUBSET Nat /\ S \in SUBSET KernelCpus /\ IsFiniteSet(KernelCpus)
    BY <2>2, ProcessActionsAssumption
  <2>4. IsFiniteSet(S)
    BY <2>3, FS_Subset
  <2> HIDE DEF S
  <2>5. Boxes(Ascending(S)) = S \cap (0 .. CpuCount - 1)
    BY <2>3, <2>4, BoxesFacts
  <2>6. pick = S \cap (0 .. CpuCount - 1)
    BY <2>5, Zenon DEF AffinityGet, S, cpus
  <2>7. cpus \subseteq 0 .. CpuCount - 1 => pick = cpus
    <3>1. CpuCount \in Nat
      BY ProcessActionsAssumption
    <3>2. \A i \in 0 .. CpuCount - 1 : i < CpuCount
      BY <3>1
    <3> QED
      BY <2>6, <3>2 DEF S
  <2> HIDE DEF pick
  <2>8. pl.selected \in os.alive \ touched =>
          (os.is[pl.selected].cpus \subseteq Nameable \cap (0 .. CpuCount - 1) => pick = os.is[pl.selected].cpus)
    BY <2>7 DEF cpus
  <2> QED
    BY <1>1, <1>2, <2>1, <2>8, MenuOpenedKeeps
<1>4. CASE sel \notin os.alive
  <2>1. last' = NoCall /\ UNCHANGED <<os, pl, picking>>
    BY <1>4, Zenon DEF OpenAffinity
  <2>2. MenuFits'
    BY <1>1, <2>1, Zenon DEF ActInv, MenuFits, Nameable
  <2> QED
    BY <1>1, <2>1, <2>2 DEF ActInv, ActTyped, ShownIsKernels
<1> QED
  BY <1>3, <1>4

LEMMA OpenSignalsKeeps == ASSUME ActInv, OpenSignals PROVE ActInv' /\ last' = NoCall
<1>1. MenuOpened("signal", SIGTERM) /\ UNCHANGED <<build, touched>>
  BY DEF OpenSignals, PanelKey, ActKey
<1> QED
  BY <1>1, MenuOpenedKeeps

LEMMA PickKeeps == ASSUME ActInv, Pick PROVE ActInv' /\ last' = NoCall
<1> DEFINE picks == CASE picking.kind = "io" -> ToSet(IoRows)
                      [] picking.kind = "signal" -> Signals
                      [] OTHER -> {SymDiff(picking.pick, {i}) : i \in 0 .. CpuCount - 1}
           m == picking
<1>1. /\ picking # NoMenuOpen /\ last' = NoCall /\ UNCHANGED <<os, pl, build, touched>>
      /\ \E a \in picks : picking' = [picking EXCEPT !.pick = a, !.untouched = FALSE]
  BY Zenon DEF Pick, MenuKeyRead, ActKey
<1>2. PICK a \in picks : picking' = [picking EXCEPT !.pick = a, !.untouched = FALSE]
  BY <1>1, Zenon
<1>3. m.kind = "io" => a \in ToSet(IoRows)
  BY Zenon
<1> HIDE DEF picks
<1>4. /\ m = [kind |-> m.kind, pick |-> m.pick, pid |-> m.pid, was |-> m.was, fresh |-> m.fresh,
              untouched |-> m.untouched]
      /\ m.kind \in {"io", "cpus", "signal"} /\ (m.kind # "signal" => m.pid \in Procs)
  BY <1>1 DEF ActInv, MenuFits
<1>5. picking' = MenuRecord(m.kind, a, m.pid, m.was, m.fresh, FALSE)
  <2> DEFINE no == FALSE
  <2> HIDE DEF m, no
  <2>1. [m EXCEPT !.pick = a] = MenuRecord(m.kind, a, m.pid, m.was, m.fresh, m.untouched)
    BY <1>4 DEF MenuRecord
  <2>2. [MenuRecord(m.kind, a, m.pid, m.was, m.fresh, m.untouched) EXCEPT !.untouched = no]
          = MenuRecord(m.kind, a, m.pid, m.was, m.fresh, no)
    BY MenuTouched
  <2>3. [m EXCEPT !.pick = a, !.untouched = no] = [[m EXCEPT !.pick = a] EXCEPT !.untouched = no]
    BY Zenon
  <2> QED
    BY <1>2, <2>1, <2>2, <2>3, Zenon DEF m, no
<1>6. MenuFits'
  BY <1>3, <1>4, <1>5 DEF MenuFits, MenuRecord
<1>7. ActTyped' /\ ShownIsKernels'
  BY <1>1 DEF ActInv, ActTyped, ShownIsKernels
<1> QED
  BY <1>1, <1>6, <1>7 DEF ActInv

(* Enter reaches who was asked about: the one that was selected when the    *)
(* menu was opened is still selected, and a menu that was not touched asks  *)
(* for what the process has.                                               *)
LEMMA EnterKeeps ==
  ASSUME ActInv, Enter
  PROVE  ActInv' /\ ChangesAreAsked /\ UntouchedMenuKeeps
<1>1. picking # NoMenuOpen /\ picking' = NoMenuOpen /\ UNCHANGED <<build, touched>>
  BY Zenon DEF Enter, MenuKeyRead, ActKey
<1>2. MenuFits'
  BY <1>1 DEF MenuFits
<1>3. CASE EnterCounts /\ ~(picking.kind = "signal" /\ picking.pick = 0)
  <2> DEFINE kind == picking.kind
             pick == picking.pick
  <2>1. ForeachProcess(kind, pick)
    BY <1>3, Zenon DEF Enter
  <2>2. kind \in {"io", "cpus", "signal"} /\ (kind = "io" => pick \in ToSet(IoRows))
    BY <1>1 DEF ActInv, MenuFits
  <2>3. CallFits(kind, pick)
    BY <2>2 DEF CallFits
  <2>4. TargetRows = Asked
    BY <1>1, <1>3 DEF TargetRows, TaggedRows, Asked, EnterCounts
  <2> HIDE DEF kind, pick
  <2>5. ActTyped' /\ ShownIsKernels'
    BY <1>1, <2>1, <2>3, ForeachKeepsShown DEF ActInv
  <2>6. ChangesAreAsked
    BY <2>1, <2>3, <2>4, ForeachAnswers DEF ActInv
  <2>7. UntouchedMenuKeeps
    <3> DEFINE pid == picking.pid
    <3> SUFFICES ASSUME last'.kind \in {"io", "cpus"}, picking.untouched, picking.fresh,
                        os.is[pid] = picking.was,
                        kind = "cpus" => picking.was.cpus \subseteq Nameable \cap (0 .. CpuCount - 1),
                        kind = "io" => build.ioFlag /\ picking.was.io \in ToSet(IoRows)
                 PROVE  os'.is[pid] = picking.was
      BY DEF UntouchedMenuKeeps, kind
    <3>1. TargetRows \in SUBSET Procs /\ ForeachRow(TargetRows, kind, pick)
      BY <2>1, TargetsTyped DEF ActInv, ForeachProcess
    <3>2. last'.kind = kind
      <4>1. PICK beep, got : last' = [kind |-> kind, value |-> pick, beep |-> beep, got |-> got]
        BY <3>1, Zenon DEF ForeachRow
      <4> QED
        BY <4>1
    <3>3. pid \in Procs /\ kind \in {"io", "cpus"}
      BY <1>1, <3>2 DEF ActInv, MenuFits, kind
    <3>4. /\ kind = "io" => pick = os.is[pid].io
          /\ kind = "cpus" => pick = os.is[pid].cpus
      BY <1>1, <3>3 DEF ActInv, MenuFits, kind, pick
    <3>5. os.is[pid] \in State
      BY <3>3 DEF ActInv, ActTyped
    <3> DEFINE targets == TargetRows
    <3> HIDE DEF targets, pid
    <3>6. targets \in SUBSET Procs /\ ForeachRow(targets, kind, pick)
      BY <3>1 DEF targets
    <3>7. CASE pid \notin targets
      <4>1. \A p \in Procs \ targets : os'.is[p] = os.is[p]
        BY <2>3, <3>6, ForeachRowFacts DEF ActInv
      <4> QED
        BY <3>3, <3>7, <4>1
    <3>8. CASE pid \in targets
      <4>1. \A p \in targets : os'.is[p] = Called(p, kind, pick).is
        BY <2>3, <3>6, ForeachRowFacts DEF ActInv
      <4>2. os'.is[pid] = Called(pid, kind, pick).is
        BY <3>8, <4>1
      <4>3. CASE kind = "io"
        <5>1. Called(pid, kind, pick) = SetIOPriority(pid, pick)
          BY <4>3, Zenon DEF Called
        <5>2. SetIOPriority(pid, pick).is = IF IoGranted(pid, pick) THEN WithIo(os.is[pid], pick) ELSE os.is[pid]
          <6>1. CASE IoGranted(pid, pick)
            BY <2>2, <3>3, <4>3, <6>1, SetIOPriorityFacts DEF ActInv
          <6>2. CASE ~IoGranted(pid, pick)
            BY <2>2, <3>3, <4>3, <6>2, SetIOPriorityFacts DEF ActInv
          <6> QED
            BY <6>1, <6>2
        <5>3. pick \in IoValues
          BY <2>2, <4>3 DEF IoValues
        <5>4. WithIo(os.is[pid], pick) = os.is[pid]
          BY <3>4, <3>5, <4>3, <5>3, ChangedStates
        <5> QED
          BY <4>2, <5>1, <5>2, <5>4
      <4>4. CASE kind = "cpus"
        <5>1. Called(pid, kind, pick) = AffinitySet(pid, pick)
          BY <4>4, Zenon DEF Called
        <5>2. pick \cap Nameable = os.is[pid].cpus
          BY <3>4, <4>4 DEF pid
        <5>3. \/ AffinitySet(pid, pick).is = WithCpus(os.is[pid], pick \cap Nameable)
              \/ AffinitySet(pid, pick).is = os.is[pid]
          BY <3>3, AffinitySetFacts DEF ActInv
        <5>4. os.is[pid].cpus \in SUBSET KernelCpus
          BY <3>5 DEF State
        <5>5. WithCpus(os.is[pid], os.is[pid].cpus) = os.is[pid]
          BY <3>5, <5>4, ChangedStates
        <5> QED
          BY <4>2, <5>1, <5>2, <5>3, <5>5
      <4> QED
        BY <3>3, <4>3, <4>4 DEF pid
    <3> QED
      BY <3>3, <3>7, <3>8 DEF pid
  <2> QED
    BY <1>2, <2>5, <2>6, <2>7 DEF ActInv
<1>4. CASE ~(EnterCounts /\ ~(picking.kind = "signal" /\ picking.pick = 0))
  <2>1. last' = NoCall /\ UNCHANGED <<os, pl>>
    BY <1>4, Zenon DEF Enter
  <2>2. ActTyped' /\ ShownIsKernels'
    BY <1>1, <2>1 DEF ActInv, ActTyped, ShownIsKernels
  <2> QED
    BY <1>2, <2>1, <2>2, QuietStep DEF ActInv
<1> QED
  BY <1>3, <1>4

LEMMA EscapeKeeps == ASSUME ActInv, Escape PROVE ActInv' /\ last' = NoCall
  BY DEF ActInv, Escape, MenuKeyRead, ActKey, ActTyped, MenuFits, ShownIsKernels
-----------------------------------------------------------------------------
LEMMA ActNextKeeps ==
  ASSUME ActInv, ActNext
  PROVE  ActInv' /\ ChangesAreAsked /\ UntouchedMenuKeeps
<1>1. CASE \/ ScanProcesses \/ TagProcess \/ OpenIOPriority \/ OpenAffinity \/ OpenSignals
           \/ Pick \/ Escape
  BY <1>1, ScanProcessesKeeps, TagProcessKeeps, OpenIOPriorityKeeps, OpenAffinityKeeps,
     OpenSignalsKeeps, PickKeeps, EscapeKeeps, QuietStep
<1>2. CASE \E delta \in {-1, 1} : ChangePriority(delta)
  BY <1>2, ChangePriorityKeeps
<1>3. CASE Enter
  BY <1>3, EnterKeeps
<1>4. CASE ExitProcess \/ ForkProcess \/ Renice \/ Reassign \/ Rebind
  BY <1>4, OthersStep
<1> QED
  BY <1>1, <1>2, <1>3, <1>4, Zenon
  DEF ActNext, NiceNext, IoNext, AffinityNext, SignalNext, ActCommon, MenuNext

LEMMA ActStutterKeeps == ASSUME ActInv, UNCHANGED actVars PROVE ActInv'
<1>1. os' = os /\ pl' = pl /\ build' = build /\ picking' = picking /\ touched' = touched
  BY DEF actVars
<1>2. MenuFits'
  BY <1>1, Zenon DEF ActInv, MenuFits, Nameable
<1> QED
  BY <1>1, <1>2 DEF ActInv, ActTyped, ShownIsKernels

LEMMA ActInductive == ActSpec => []ActInv
<1>1. ActInv /\ [ActNext]_actVars => ActInv'
  BY ActNextKeeps, ActStutterKeeps
<1> QED
  BY <1>1, ActInitInv, PTL DEF ActSpec

(* What the list shows of a process that nobody else has changed since the  *)
(* last scan is what the kernel has, also after htop's own calls, granted,  *)
(* cut to the limits or refused (Process_setPriority,                       *)
(* LinuxProcess_setIOPriority).                                             *)
THEOREM ShownStaysTrue == ActSpec => []ShownIsKernels
<1>1. ActInv => ShownIsKernels
  BY DEF ActInv
<1> QED
  BY <1>1, ActInductive, PTL

(* A key, or Enter in a menu, changes those that were asked for and nobody  *)
(* else, all of them that the kernel grants, beeps if one refuses, and      *)
(* confirming an untouched menu changes nothing (MainPanel_foreachProcess,  *)
(* Action_pickFromVector, AffinityPanel_new, IOPriorityPanel_new).          *)
THEOREM ActionsReachAllAsked == ActSpec => ActionsReachAsked
<1>1. ActInv /\ [ActNext]_actVars => [ChangesAreAsked /\ UntouchedMenuKeeps]_actVars
  BY ActNextKeeps
<1> QED
  BY <1>1, ActInductive, PTL DEF ActSpec, ActionsReachAsked
=============================================================================
