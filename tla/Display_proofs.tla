--------------------------- MODULE Display_proofs ---------------------------
(***************************************************************************)
(* What is drawn.  For rows of any kind, any number of them, any heights   *)
(* of the terminal and any speed of the wheel: the selection of a panel is *)
(* one of its rows, and the quick way of Panel_draw stays inside vector    *)
(* and panel and leaves the screen as a full draw would have made it.      *)
(* Whatever the sizes of its arrays and of what is written, in both        *)
(* builds: a RichString is sound and implements RichText.  On terminals of *)
(* any size, for any number of CPUs and any meters: the header and the     *)
(* panels divide the screen between them.                                  *)
(*                                                                         *)
(* The three parts share lemmas on sequences and nothing else.             *)
(***************************************************************************)
EXTENDS PanelWidget, RichString, ScreenLayout, Loops_proofs, SequenceTheorems, FiniteSetTheorems, TLAPS

(* A row that was selected when a panel was drawn is still in its vector   *)
(* and still on its lines, as long as nothing asks for a full redraw.  It  *)
(* says nothing of a panel without lines or rows: that one is redrawn.     *)
Settled(p) ==
  ~p.needsRedraw /\ p.h > 0 /\ Size(p) > 0 =>
    /\ p.scrollV >= 0
    /\ p.oldSelected < Size(p)
    /\ p.oldSelected - p.scrollV \in 0 .. p.h - 1

Shape == [items : Seq(Item), selected : Nat, oldSelected : Nat, scrollV : Int,
          h : Int, needsRedraw : BOOLEAN]

(* What every operation on a panel preserves. *)
Sound(p) ==
  /\ p \in Shape
  /\ Size(p) <= MaxSize
  /\ p.selected <= Upper(Size(p) - 1, 0)
  /\ Settled(p)

IInv ==
  /\ Sound(panel)
  /\ focus \in BOOLEAN
  /\ pc \in {"read", "draw"}

(* What an operation may do without asking for a full redraw: move the     *)
(* selection, and change the row where it was and the row where it is.     *)
Quiet(p, q) ==
  q.needsRedraw \/
    /\ q.scrollV = p.scrollV /\ q.h = p.h /\ q.oldSelected = p.oldSelected
    /\ Size(q) = Size(p)
    /\ \A i \in 0 .. Size(p) - 1 : i \notin {p.selected, q.selected} => At(q, i) = At(p, i)

(* The screen is right but for the two rows that the quick way draws. *)
RestIsShown(p) ==
  /\ screen = [line \in 0 .. p.h - 1 |-> screen[line]]
  /\ \A line \in 0 .. p.h - 1 :
       LET i == p.scrollV + line
       IN  i \notin {p.oldSelected, p.selected} =>
             screen[line] = IF InVector(p, i) THEN [item |-> At(p, i), bar |-> "none"] ELSE Blank

(* The quick way trusts the screen.  It may: while a key is waited for, the *)
(* whole screen is right and the bar is where it was last drawn, and what a *)
(* key does without asking for a redraw touches the two rows alone.         *)
Shown ==
  /\ ScreenIsCurrent
  /\ pc = "read" => ~panel.needsRedraw /\ panel.oldSelected = panel.selected
  /\ pc = "draw" /\ ~panel.needsRedraw => RestIsShown(panel)
-----------------------------------------------------------------------------
(* Sequences of rows. *)

LEMMA ItemsAreSequences == Items = {s \in Seq(Item) : Len(s) <= MaxSize}
<1>1. ASSUME NEW s \in Items PROVE s \in Seq(Item) /\ Len(s) <= MaxSize
  <2>1. PICK n \in 0 .. MaxSize : s \in [1 .. n -> Item]
    BY DEF Items
  <2>2. n \in Nat /\ n <= MaxSize
    BY MaxSizeAssumption
  <2>3. s \in Seq(Item)
    BY <2>1, <2>2
  <2>4. Len(s) = n
    BY <2>1, <2>2, <2>3
  <2> QED
    BY <2>2, <2>3, <2>4
<1>2. ASSUME NEW s \in Seq(Item), Len(s) <= MaxSize PROVE s \in Items
  <2>1. Len(s) \in 0 .. MaxSize /\ s \in [1 .. Len(s) -> Item]
    BY <1>2, LenProperties, MaxSizeAssumption
  <2> QED
    BY <2>1 DEF Items
<1> QED
  BY <1>1, <1>2

LEMMA Swapped ==
  ASSUME NEW s \in Seq(Item), NEW i \in 0 .. Len(s) - 2
  PROVE  SwapRows(s, i) \in Seq(Item) /\ Len(SwapRows(s, i)) = Len(s)
<1> DEFINE t == [s EXCEPT ![i + 1] = s[i + 2]]
<1>1. Len(s) \in Nat /\ i + 1 \in 1 .. Len(s) /\ i + 2 \in 1 .. Len(s)
  BY LenProperties
<1>2. s[i + 1] \in Item /\ s[i + 2] \in Item
  BY <1>1, ElementOfSeq
<1>3. t \in Seq(Item) /\ Len(t) = Len(s)
  BY <1>1, <1>2, ExceptSeq
<1> HIDE DEF t
<1>4. /\ [t EXCEPT ![i + 2] = s[i + 1]] \in Seq(Item)
      /\ Len([t EXCEPT ![i + 2] = s[i + 1]]) = Len(t)
  BY <1>1, <1>2, <1>3, ExceptSeq
<1> QED
  BY <1>3, <1>4 DEF SwapRows, t

LEMMA Inserted ==
  ASSUME NEW S, NEW s \in Seq(S), NEW i \in 1 .. Len(s) + 1, NEW o \in S
  PROVE  InsertAt(s, i, o) \in Seq(S) /\ Len(InsertAt(s, i, o)) = Len(s) + 1
<1> DEFINE a == SubSeq(s, 1, i - 1)
           b == SubSeq(s, i, Len(s))
<1>1. Len(s) \in Nat /\ i \in Int /\ \A j \in 1 .. Len(s) : s[j] \in S
  BY LenProperties, ElementOfSeq
<1>2. a \in Seq(S) /\ Len(a) = i - 1
  <2>1. \A j \in 1 .. i - 1 : s[j] \in S
    BY <1>1
  <2> QED
    BY <1>1, <2>1, SubSeqProperties
<1>3. b \in Seq(S) /\ Len(b) = Len(s) - i + 1
  <2>1. \A j \in i .. Len(s) : s[j] \in S
    BY <1>1
  <2> QED
    BY <1>1, <2>1, SubSeqProperties
<1>4. <<o>> \in Seq(S) /\ Len(<<o>>) = 1
  OBVIOUS
<1> HIDE DEF a, b
<1> DEFINE c == a \o <<o>>
<1>5. c \in Seq(S) /\ Len(c) = i
  BY <1>1, <1>2, <1>4, ConcatProperties
<1> HIDE DEF c
<1>6. c \o b \in Seq(S) /\ Len(c \o b) = Len(c) + Len(b)
  BY <1>3, <1>5, ConcatProperties
<1>7. InsertAt(s, i, o) = c \o b
  BY DEF InsertAt, a, b, c
<1> QED
  BY <1>1, <1>3, <1>5, <1>6, <1>7

LEMMA Removed ==
  ASSUME NEW S, NEW s \in Seq(S), NEW i \in 1 .. Len(s)
  PROVE  RemoveAt(s, i) \in Seq(S) /\ Len(RemoveAt(s, i)) = Len(s) - 1
<1> DEFINE a == SubSeq(s, 1, i - 1)
           b == SubSeq(s, i + 1, Len(s))
<1>1. Len(s) \in Nat /\ i \in Int /\ \A j \in 1 .. Len(s) : s[j] \in S
  BY LenProperties, ElementOfSeq
<1>2. a \in Seq(S) /\ Len(a) = i - 1
  <2>1. \A j \in 1 .. i - 1 : s[j] \in S
    BY <1>1
  <2> QED
    BY <1>1, <2>1, SubSeqProperties
<1>3. b \in Seq(S) /\ Len(b) = Len(s) - i
  <2>1. \A j \in i + 1 .. Len(s) : s[j] \in S
    BY <1>1
  <2> QED
    BY <1>1, <2>1, SubSeqProperties
<1> HIDE DEF a, b
<1>4. a \o b \in Seq(S) /\ Len(a \o b) = Len(a) + Len(b)
  BY <1>2, <1>3, ConcatProperties
<1>5. RemoveAt(s, i) = a \o b
  BY DEF RemoveAt, a, b
<1>6. Len(a) + Len(b) = Len(s) - 1
  BY <1>1, <1>2, <1>3
<1> QED
  BY <1>4, <1>5, <1>6
-----------------------------------------------------------------------------
(* Each operation on a panel keeps it sound. *)

LEMMA SizeIsNatural == ASSUME NEW p, p \in Shape PROVE Size(p) \in Nat
BY LenProperties DEF Shape, Size

LEMMA NewPanelSound ==
  ASSUME NEW items \in Items, NEW height \in Int
  PROVE  Sound(NewPanel(items, height))
BY ItemsAreSequences, LenProperties DEF Sound, Shape, Settled, NewPanel, Size, Upper

LEMMA SetSelectedSound ==
  ASSUME NEW p, Sound(p), NEW i \in Int
  PROVE  Sound(SetSelected(p, i))
<1>1. Size(p) \in Nat
  BY SizeIsNatural DEF Sound
<1> QED
  BY <1>1 DEF Sound, Shape, Settled, SetSelected, Size, Upper, Lower

(* Before the last lines of Panel_onKey the selection may be anywhere, but *)
(* all else is as sound as it was.                                         *)
Wide == [items : Seq(Item), selected : Int, oldSelected : Nat, scrollV : Int,
         h : Int, needsRedraw : BOOLEAN]

Loose(p, q) == q \in Wide /\ q.items = p.items /\ Settled(q)

SameButSelected(p, q) ==
  /\ q.items = p.items /\ q.oldSelected = p.oldSelected /\ q.scrollV = p.scrollV
  /\ q.h = p.h /\ q.needsRedraw = p.needsRedraw

LEMMA SelectedChanged ==
  ASSUME NEW p \in Wide, NEW i \in Int
  PROVE  /\ [p EXCEPT !.selected = i] \in Wide
         /\ [p EXCEPT !.selected = i].selected = i
         /\ SameButSelected(p, [p EXCEPT !.selected = i])
BY DEF Wide, SameButSelected

LEMMA RedrawAsked ==
  ASSUME NEW p \in Wide
  PROVE  /\ [p EXCEPT !.needsRedraw = TRUE] \in Wide
         /\ [p EXCEPT !.needsRedraw = TRUE].items = p.items
         /\ [p EXCEPT !.needsRedraw = TRUE].selected = p.selected
         /\ [p EXCEPT !.needsRedraw = TRUE].needsRedraw
BY DEF Wide

LEMMA ScrolledAndRedrawAsked ==
  ASSUME NEW p \in Wide, NEW i \in Int, NEW v \in Int
  PROVE  LET q == [p EXCEPT !.selected = i, !.scrollV = v, !.needsRedraw = TRUE]
         IN  q \in Wide /\ q.items = p.items /\ q.needsRedraw
BY DEF Wide

LEMMA MovedLoose ==
  ASSUME NEW p, Sound(p), NEW key \in Keys, key # "other"
  PROVE  Loose(p, Moved(p, key))
<1>1. Size(p) \in Nat /\ Len(p.items) = Size(p) /\ p \in Wide
  BY SizeIsNatural DEF Sound, Size, Shape, Wide
<1>2. ASSUME NEW i \in Int, NEW v \in Int
      PROVE  /\ Loose(p, [p EXCEPT !.selected = i])
             /\ Loose(p, [p EXCEPT !.needsRedraw = TRUE])
             /\ Loose(p, [p EXCEPT !.selected = i, !.scrollV = v, !.needsRedraw = TRUE])
  <2> DEFINE a == [p EXCEPT !.selected = i]
             b == [p EXCEPT !.needsRedraw = TRUE]
             c == [p EXCEPT !.selected = i, !.scrollV = v, !.needsRedraw = TRUE]
  <2>1. a \in Wide /\ SameButSelected(p, a)
    BY <1>1, SelectedChanged
  <2>2. b \in Wide /\ b.items = p.items /\ b.needsRedraw
    BY <1>1, RedrawAsked
  <2>3. c \in Wide /\ c.items = p.items /\ c.needsRedraw
    BY <1>1, ScrolledAndRedrawAsked
  <2> HIDE DEF a, b, c
  <2>4. Loose(p, a) /\ Loose(p, b) /\ Loose(p, c)
    BY <2>1, <2>2, <2>3 DEF Loose, SameButSelected, Sound, Settled, Size
  <2> QED
    BY <2>4 DEF a, b, c
<1>3. p.selected \in Int /\ p.scrollV \in Int /\ p.h \in Int /\ WheelAmount \in Int
  BY WheelAmountAssumption DEF Sound, Shape
<1>4. CASE key = "down"
  <2>1. p.selected + 1 \in Int
    BY <1>3
  <2> QED
    BY <1>2, <1>4, <2>1 DEF Moved
<1>5. CASE key = "up"
  <2>1. p.selected - 1 \in Int
    BY <1>3
  <2> QED
    BY <1>2, <1>5, <2>1 DEF Moved
<1>6. CASE key = "home"
  <2>1. 0 \in Int
    OBVIOUS
  <2> QED
    BY <1>2, <1>6, <2>1 DEF Moved
<1>7. CASE key = "end"
  <2>1. Size(p) - 1 \in Int
    BY <1>1
  <2> QED
    BY <1>2, <1>7, <2>1 DEF Moved
<1>8. CASE key = "side"
  BY <1>2, <1>3, <1>8 DEF Moved
<1>9. CASE key = "pgup"
  <2>1. p.selected - (p.h - 1) \in Int /\ Upper(0, p.scrollV - p.h + 1) \in Int
    BY <1>3 DEF Upper
  <2> QED
    BY <1>2, <1>9, <2>1 DEF Moved
<1>10. CASE key = "pgdn"
  <2>1. /\ p.selected + (p.h - 1) \in Int
        /\ Upper(0, Lower(Size(p) - p.h, p.scrollV + p.h - 1)) \in Int
    BY <1>1, <1>3 DEF Upper, Lower
  <2> QED
    BY <1>2, <1>10, <2>1 DEF Moved
<1>11. CASE key = "wheelup"
  <2>1. p.selected - WheelAmount \in Int /\ p.scrollV - WheelAmount \in Int
    BY <1>3
  <2> QED
    BY <1>2, <1>11, <2>1 DEF Moved
<1>12. CASE key = "wheeldown"
  <2>1. /\ p.selected + WheelAmount \in Int
        /\ Lower(p.scrollV + WheelAmount, Size(p) - p.h) \in Int
    BY <1>1, <1>3 DEF Lower
  <2> QED
    BY <1>2, <1>12, <2>1 DEF Moved
<1> QED
  BY <1>4, <1>5, <1>6, <1>7, <1>8, <1>9, <1>10, <1>11, <1>12 DEF Keys

LEMMA OnKeySound ==
  ASSUME NEW p, Sound(p), NEW key \in Keys
  PROVE  Sound(OnKey(p, key))
<1>1. CASE key = "other"
  BY <1>1 DEF OnKey
<1>2. CASE key # "other"
  <2> DEFINE q == Moved(p, key)
  <2>1. Size(p) \in Nat /\ Len(p.items) = Size(p) /\ Size(p) <= MaxSize
    BY SizeIsNatural DEF Sound, Size
  <2>2. Loose(p, q)
    BY <1>2, MovedLoose
  <2> HIDE DEF q
  <2>3. ASSUME NEW i \in Nat, i <= Upper(Size(q) - 1, 0)
        PROVE  Sound([q EXCEPT !.selected = i, !.needsRedraw = TRUE])
    <3> DEFINE r == [q EXCEPT !.selected = i, !.needsRedraw = TRUE]
    <3>1. r \in Shape /\ r.items = q.items /\ r.selected = i /\ r.needsRedraw
      BY <2>2 DEF Loose, Wide, Shape
    <3> HIDE DEF r
    <3>2. Sound(r)
      BY <2>1, <2>2, <2>3, <3>1 DEF Loose, Sound, Settled, Size
    <3> QED
      BY <3>2 DEF r
  <2>4. Sound(InBounds(q))
    <3>1. Size(q) \in Nat /\ Size(q) <= MaxSize /\ q.selected \in Int
      BY <2>1, <2>2 DEF Loose, Wide, Size
    <3>2. CASE q.selected < 0 \/ Size(q) = 0
      <4>1. 0 \in Nat /\ 0 <= Upper(Size(q) - 1, 0)
        BY <3>1 DEF Upper
      <4>2. Sound([q EXCEPT !.selected = 0, !.needsRedraw = TRUE])
        BY <2>3, <4>1
      <4> QED
        BY <3>2, <4>2 DEF InBounds
    <3>3. CASE ~(q.selected < 0 \/ Size(q) = 0) /\ q.selected >= Size(q)
      <4>1. Size(q) - 1 \in Nat /\ Size(q) - 1 <= Upper(Size(q) - 1, 0)
        BY <3>1, <3>3 DEF Upper
      <4>2. Sound([q EXCEPT !.selected = Size(q) - 1, !.needsRedraw = TRUE])
        BY <2>3, <4>1
      <4> QED
        BY <3>3, <4>2 DEF InBounds
    <3>4. CASE ~(q.selected < 0 \/ Size(q) = 0) /\ ~(q.selected >= Size(q))
      <4>1. InBounds(q) = q
        BY <3>4 DEF InBounds
      <4>2. q.selected \in Nat /\ q.selected <= Upper(Size(q) - 1, 0)
        BY <3>1, <3>4 DEF Upper
      <4>3. q \in Shape
        BY <2>2, <4>2 DEF Loose, Wide, Shape
      <4>4. Sound(q)
        BY <2>2, <3>1, <4>2, <4>3 DEF Loose, Sound
      <4> QED
        BY <4>1, <4>4
    <3> QED
      BY <3>2, <3>3, <3>4
  <2> QED
    BY <1>2, <2>4 DEF OnKey, q
<1> QED
  BY <1>1, <1>2

LEMMA SelectionSound ==
  ASSUME NEW p, Sound(p), NEW i \in 0 .. Size(p) - 1
  PROVE  Sound([p EXCEPT !.selected = i])
<1> DEFINE q == [p EXCEPT !.selected = i]
<1>1. Size(p) \in Nat /\ p \in Wide /\ i \in Nat
  BY SizeIsNatural DEF Sound, Shape, Wide
<1>2. q \in Wide /\ q.selected = i /\ SameButSelected(p, q)
  BY <1>1, SelectedChanged
<1> HIDE DEF q
<1>3. q \in Shape
  BY <1>1, <1>2 DEF Wide, Shape
<1>4. i <= Upper(Size(p) - 1, 0)
  BY <1>1 DEF Upper
<1>5. Sound(q)
  BY <1>2, <1>3, <1>4 DEF Sound, Settled, SameButSelected, Size
<1> QED
  BY <1>5 DEF q

LEMMA SetSound ==
  ASSUME NEW p, Sound(p), NEW i \in 0 .. Size(p) - 1, NEW o \in Item
  PROVE  Sound(Set(p, i, o))
<1>1. Size(p) \in Nat /\ p.items \in Seq(Item) /\ i + 1 \in 1 .. Len(p.items)
  BY SizeIsNatural DEF Sound, Shape, Size
<1>2. /\ [p.items EXCEPT ![i + 1] = o] \in Seq(Item)
      /\ Len([p.items EXCEPT ![i + 1] = o]) = Len(p.items)
  BY <1>1, ExceptSeq
<1>3. Set(p, i, o) = [p EXCEPT !.items = [p.items EXCEPT ![i + 1] = o]]
  BY DEF Set, Sound, Shape
<1> QED
  BY <1>1, <1>2, <1>3 DEF Sound, Shape, Settled, Size, Upper

(* A panel with other rows, as long as it has as many of them. *)
LEMMA SameSizeSound ==
  ASSUME NEW p, Sound(p), NEW items \in Seq(Item), Len(items) = Size(p)
  PROVE  Sound([p EXCEPT !.items = items])
<1>1. Size(p) \in Nat
  BY SizeIsNatural DEF Sound
<1> DEFINE q == [p EXCEPT !.items = items]
<1>2. q \in Shape /\ Size(q) = Size(p)
  BY DEF Sound, Shape, Size
<1>3. /\ q.selected = p.selected /\ q.oldSelected = p.oldSelected
      /\ q.scrollV = p.scrollV /\ q.h = p.h /\ q.needsRedraw = p.needsRedraw
  BY DEF Sound, Shape
<1> HIDE DEF q
<1>4. Sound(q)
  BY <1>2, <1>3 DEF Sound, Settled
<1> QED
  BY <1>4 DEF q

LEMMA MoveRowSound ==
  ASSUME NEW p, Sound(p)
  PROVE  Sound(MoveSelectedUp(p)) /\ Sound(MoveSelectedDown(p))
<1>1. Size(p) \in Nat /\ p.items \in Seq(Item) /\ p.selected \in Nat /\ Len(p.items) = Size(p)
  BY SizeIsNatural DEF Sound, Shape, Size
<1>2. ASSUME NEW i \in 0 .. Size(p) - 2, NEW to \in 0 .. Size(p) - 1
      PROVE  Sound([p EXCEPT !.items = SwapRows(p.items, i), !.selected = to])
  <2> DEFINE q == [p EXCEPT !.items = SwapRows(p.items, i)]
  <2>1. SwapRows(p.items, i) \in Seq(Item) /\ Len(SwapRows(p.items, i)) = Size(p)
    BY <1>1, Swapped
  <2>2. Sound(q) /\ Size(q) = Size(p)
    BY <2>1, SameSizeSound DEF Size, Sound, Shape
  <2>3. [p EXCEPT !.items = SwapRows(p.items, i), !.selected = to] = [q EXCEPT !.selected = to]
    OBVIOUS
  <2> HIDE DEF q
  <2>4. Sound([q EXCEPT !.selected = to])
    BY <1>1, <2>2, SelectionSound
  <2> QED
    BY <2>3, <2>4
<1>3. Sound(MoveSelectedUp(p))
  <2>1. CASE p.selected > 0 /\ InVector(p, p.selected)
    <3>1. p.selected - 1 \in 0 .. Size(p) - 2 /\ p.selected - 1 \in 0 .. Size(p) - 1
      BY <1>1, <2>1 DEF InVector
    <3> QED
      BY <1>2, <2>1, <3>1 DEF MoveSelectedUp
  <2>2. CASE ~(p.selected > 0 /\ InVector(p, p.selected))
    BY <2>2 DEF MoveSelectedUp
  <2> QED
    BY <2>1, <2>2
<1>4. Sound(MoveSelectedDown(p))
  <2>1. CASE p.selected + 1 < Size(p)
    <3>1. p.selected \in 0 .. Size(p) - 2 /\ p.selected + 1 \in 0 .. Size(p) - 1
      BY <1>1, <2>1
    <3> QED
      BY <1>2, <2>1, <3>1 DEF MoveSelectedDown
  <2>2. CASE ~(p.selected + 1 < Size(p))
    BY <2>2 DEF MoveSelectedDown
  <2> QED
    BY <2>1, <2>2
<1> QED
  BY <1>3, <1>4
(* A panel that will be drawn in full has nothing to keep but its selection. *)
LEMMA RedrawnSound ==
  ASSUME NEW q, q \in Shape, q.needsRedraw, Size(q) <= MaxSize,
         q.selected <= Upper(Size(q) - 1, 0)
  PROVE  Sound(q)
BY DEF Sound, Settled

LEMMA RemoveSound ==
  ASSUME NEW p, Sound(p), InVector(p, p.selected)
  PROVE  Sound(RemoveAtRow(p, p.selected))
<1> DEFINE n == Size(p)
           items == RemoveAt(p.items, p.selected + 1)
           i == IF p.selected > 0 /\ p.selected >= n - 1 THEN p.selected - 1 ELSE p.selected
           q == [p EXCEPT !.items = items, !.needsRedraw = TRUE, !.selected = i]
<1>1. n \in Nat /\ n <= MaxSize /\ p.items \in Seq(Item) /\ p.selected \in Nat
  BY SizeIsNatural DEF Sound, Shape
<1>2. p.selected + 1 \in 1 .. Len(p.items) /\ n = Len(p.items) /\ p.selected <= n - 1
  BY <1>1 DEF InVector, Size
<1>3. items \in Seq(Item) /\ Len(items) = n - 1
  BY <1>1, <1>2, Removed
<1>4. i \in Nat /\ i <= Upper(n - 2, 0)
  BY <1>1, <1>2 DEF Upper
<1>5. RemoveAtRow(p, p.selected) = q
  BY DEF RemoveAtRow
<1> HIDE DEF items, i
<1>6. q \in Shape /\ q.items = items /\ q.selected = i /\ q.needsRedraw
  BY <1>3, <1>4 DEF Sound, Shape
<1> HIDE DEF q, n
<1>7. Size(q) = n - 1
  BY <1>3, <1>6 DEF Size
<1>8. Size(q) <= MaxSize /\ q.selected <= Upper(Size(q) - 1, 0)
  BY <1>1, <1>4, <1>6, <1>7, MaxSizeAssumption DEF Upper
<1> QED
  BY <1>5, <1>6, <1>8, RedrawnSound

(* More rows, and a full redraw. *)
LEMMA LongerSound ==
  ASSUME NEW p, Sound(p), NEW items \in Seq(Item), Len(items) = Size(p) + 1,
         Size(p) < MaxSize
  PROVE  Sound([p EXCEPT !.items = items, !.needsRedraw = TRUE])
<1> DEFINE q == [p EXCEPT !.items = items, !.needsRedraw = TRUE]
<1>1. Size(p) \in Nat /\ p.selected \in Nat /\ p.selected <= Upper(Size(p) - 1, 0)
  BY SizeIsNatural DEF Sound, Shape
<1>2. q \in Shape /\ q.items = items /\ q.selected = p.selected /\ q.needsRedraw
  BY DEF Sound, Shape
<1> HIDE DEF q
<1>3. Size(q) = Size(p) + 1
  BY <1>2 DEF Size
<1>4. Size(q) <= MaxSize /\ q.selected <= Upper(Size(q) - 1, 0)
  BY <1>1, <1>2, <1>3, MaxSizeAssumption DEF Upper
<1>5. Sound(q)
  BY <1>2, <1>4, RedrawnSound
<1> QED
  BY <1>5 DEF q

LEMMA AddSound ==
  ASSUME NEW p, Sound(p), Size(p) < MaxSize, NEW o \in Item
  PROVE  Sound(Add(p, o))
<1>1. p.items \in Seq(Item) /\ Len(p.items) = Size(p)
  BY DEF Sound, Shape, Size
<1>2. Append(p.items, o) \in Seq(Item) /\ Len(Append(p.items, o)) = Size(p) + 1
  BY <1>1, AppendProperties
<1> QED
  BY <1>2, LongerSound DEF Add

LEMMA InsertSound ==
  ASSUME NEW p, Sound(p), Size(p) < MaxSize, NEW i \in Nat, NEW o \in Item
  PROVE  Sound(Insert(p, i, o))
<1> DEFINE at == Lower(i, Size(p)) + 1
<1>1. p.items \in Seq(Item) /\ Len(p.items) = Size(p) /\ Size(p) \in Nat
  BY SizeIsNatural DEF Sound, Shape, Size
<1>2. at \in 1 .. Len(p.items) + 1
  BY <1>1 DEF Lower
<1> HIDE DEF at
<1>3. InsertAt(p.items, at, o) \in Seq(Item) /\ Len(InsertAt(p.items, at, o)) = Size(p) + 1
  BY <1>1, <1>2, Inserted
<1>4. Sound([p EXCEPT !.items = InsertAt(p.items, at, o), !.needsRedraw = TRUE])
  BY <1>3, LongerSound
<1> QED
  BY <1>4 DEF Insert, at

LEMMA PruneFacts ==
  ASSUME NEW p \in Shape
  PROVE  Prune(p) \in Shape /\ Prune(p).selected = 0 /\ Prune(p).needsRedraw
<1> DEFINE a == [p EXCEPT !.items = <<>>]
           b == [a EXCEPT !.scrollV = 0]
           c == [b EXCEPT !.selected = 0]
           d == [c EXCEPT !.oldSelected = 0]
           e == [d EXCEPT !.needsRedraw = TRUE]
<1>1. a \in Shape
  <2>1. <<>> \in Seq(Item)
    OBVIOUS
  <2> QED
    BY <2>1 DEF Shape
<1> HIDE DEF a
<1>2. b \in Shape
  BY <1>1 DEF Shape
<1> HIDE DEF b
<1>3. c \in Shape /\ c.selected = 0
  BY <1>2 DEF Shape
<1> HIDE DEF c
<1>4. d \in Shape /\ d.selected = 0
  BY <1>3 DEF Shape
<1> HIDE DEF d
<1>5. e \in Shape /\ e.selected = 0 /\ e.needsRedraw
  BY <1>4 DEF Shape
<1> QED
  BY <1>5 DEF Prune, a, b, c, d

LEMMA RefillSound ==
  ASSUME NEW p, Sound(p), NEW items \in Items, NEW found \in Int
  PROVE  Sound(Refill(p, items, found))
<1> DEFINE q == [Prune(p) EXCEPT !.items = items]
           r == [SetSelected(q, found) EXCEPT !.scrollV = p.scrollV]
<1>1. items \in Seq(Item) /\ Len(items) \in Nat /\ Len(items) <= MaxSize
  BY ItemsAreSequences, LenProperties
<1>2. q \in Shape /\ q.items = items /\ q.selected = 0 /\ q.needsRedraw
  <2> DEFINE empty == Prune(p)
  <2>2. empty \in Shape /\ empty.selected = 0 /\ empty.needsRedraw
    BY PruneFacts DEF Sound
  <2> HIDE DEF empty
  <2>3. LET e == [empty EXCEPT !.items = items]
        IN  e \in Shape /\ e.items = items /\ e.selected = 0 /\ e.needsRedraw
    BY <1>1, <2>2 DEF Shape
  <2> QED
    BY <2>3 DEF empty
<1>3. Sound(q)
  <2> HIDE DEF q
  <2>1. Size(q) <= MaxSize /\ q.selected <= Upper(Size(q) - 1, 0)
    BY <1>1, <1>2 DEF Size, Upper
  <2> QED
    BY <1>2, <2>1, RedrawnSound
<1>4. Sound(r)
  <2> DEFINE s == SetSelected(q, found)
  <2> HIDE DEF q
  <2>1. Sound(s)
    BY <1>3, SetSelectedSound
  <2>2. s.needsRedraw
    BY <1>2 DEF SetSelected, Shape
  <2>3. p.scrollV \in Int
    BY DEF Sound, Shape
  <2> HIDE DEF s
  <2> DEFINE t == [s EXCEPT !.scrollV = p.scrollV]
  <2>4. t \in Shape /\ t.items = s.items /\ t.selected = s.selected /\ t.needsRedraw
    BY <2>1, <2>2, <2>3 DEF Sound, Shape
  <2> HIDE DEF t
  <2>5. Size(t) <= MaxSize /\ t.selected <= Upper(Size(t) - 1, 0)
    BY <2>1, <2>4 DEF Sound, Size
  <2>6. Sound(t)
    BY <2>4, <2>5, RedrawnSound
  <2> QED
    BY <2>6 DEF s, t
<1> HIDE DEF q, r
<1>5. Refill(p, items, found) \in {q, r}
  BY DEF Refill, q, r
<1> QED
  BY <1>3, <1>4, <1>5

LEMMA ResizeSound ==
  ASSUME NEW p, Sound(p), NEW height \in Int
  PROVE  Sound([p EXCEPT !.h = height, !.needsRedraw = TRUE])
<1> DEFINE q == [p EXCEPT !.h = height, !.needsRedraw = TRUE]
<1>1. q \in Shape /\ q.items = p.items /\ q.selected = p.selected /\ q.needsRedraw
  BY DEF Sound, Shape
<1> HIDE DEF q
<1>2. Sound(q)
  BY <1>1, RedrawnSound DEF Sound, Size
<1> QED
  BY <1>2 DEF q
-----------------------------------------------------------------------------
(* Drawing.  The scroll position is brought between first and last row,    *)
(* then to the selection; a panel that needs no redraw is not scrolled.    *)

LEMMA ScrollChanged ==
  ASSUME NEW p \in Shape, NEW v \in Int
  PROVE  LET q == [p EXCEPT !.scrollV = v, !.needsRedraw = TRUE]
         IN  /\ q \in Shape /\ q.items = p.items /\ q.selected = p.selected
             /\ q.oldSelected = p.oldSelected /\ q.h = p.h
             /\ q.scrollV = v /\ q.needsRedraw
BY DEF Shape

LEMMA ScrolledFacts ==
  ASSUME NEW p, Sound(p)
  PROVE  /\ Scrolled(p) \in Shape
         /\ Scrolled(p).items = p.items
         /\ Scrolled(p).selected = p.selected
         /\ Scrolled(p).oldSelected = p.oldSelected
         /\ Scrolled(p).h = p.h
         /\ Scrolled(p).scrollV \in Int
         /\ p.h > 0 => p.selected - Scrolled(p).scrollV \in 0 .. p.h - 1
         /\ p.h > 0 /\ Size(p) > 0 => Scrolled(p).scrollV >= 0
         /\ ~Scrolled(p).needsRedraw => Scrolled(p) = p /\ p.h > 0 /\ Size(p) > 0
<1> DEFINE q == ScrollInVector(p)
<1>1. Size(p) \in Nat /\ p \in Shape /\ p.selected \in Nat /\ p.selected <= Upper(Size(p) - 1, 0)
  BY SizeIsNatural DEF Sound, Shape
<1>2. /\ q \in Shape /\ q.items = p.items /\ q.selected = p.selected
      /\ q.oldSelected = p.oldSelected /\ q.h = p.h
      /\ q.scrollV \in 0 .. Upper(Size(p) - 1, 0)
      /\ ~q.needsRedraw => q = p /\ Size(p) > 0
  <2>1. CASE p.scrollV < 0
    <3>1. 0 \in Int /\ 0 \in 0 .. Upper(Size(p) - 1, 0)
      BY <1>1 DEF Upper
    <3> QED
      BY <1>1, <2>1, <3>1, ScrollChanged DEF ScrollInVector
  <2>2. CASE ~(p.scrollV < 0) /\ p.scrollV >= Size(p)
    <3>1. /\ Upper(Size(p) - 1, 0) \in Int
          /\ Upper(Size(p) - 1, 0) \in 0 .. Upper(Size(p) - 1, 0)
      BY <1>1 DEF Upper
    <3> QED
      BY <1>1, <2>2, <3>1, ScrollChanged DEF ScrollInVector
  <2>3. CASE ~(p.scrollV < 0) /\ ~(p.scrollV >= Size(p))
    BY <1>1, <2>3 DEF ScrollInVector, Shape, Upper
  <2> QED
    BY <2>1, <2>2, <2>3
<1> DEFINE r == ScrollToSelected(q)
<1> HIDE DEF q
<1>3. /\ r \in Shape /\ r.items = q.items /\ r.selected = q.selected
      /\ r.oldSelected = q.oldSelected /\ r.h = q.h
      /\ r.scrollV \in Int
      /\ q.h > 0 => q.selected - r.scrollV \in 0 .. q.h - 1
      /\ q.h > 0 => r.scrollV >= 0
      /\ ~r.needsRedraw => r = q /\ q.h > 0 /\ ~q.needsRedraw
  <2>1. q.selected \in Nat /\ q.scrollV \in Nat /\ q.h \in Int /\ q \in Shape
    BY <1>1, <1>2 DEF Shape, Upper
  <2>2. CASE q.selected < q.scrollV
    <3>1. q.selected \in Int /\ (q.h > 0 => q.selected - q.selected \in 0 .. q.h - 1)
      BY <2>1
    <3>2. r = [q EXCEPT !.scrollV = q.selected, !.needsRedraw = TRUE]
      BY <2>2 DEF ScrollToSelected
    <3> HIDE DEF r
    <3>3. /\ r \in Shape /\ r.items = q.items /\ r.selected = q.selected
          /\ r.oldSelected = q.oldSelected /\ r.h = q.h
          /\ r.scrollV = q.selected /\ r.needsRedraw
      BY <2>1, <3>1, <3>2, ScrollChanged
    <3> QED
      BY <2>1, <3>1, <3>3
  <2>3. CASE ~(q.selected < q.scrollV) /\ q.selected >= q.scrollV + q.h
    <3> DEFINE v == q.selected - q.h + 1
    <3>1. /\ v \in Int
          /\ q.h > 0 => q.selected - v \in 0 .. q.h - 1
          /\ q.h > 0 => v >= 0
      BY <2>1, <2>3
    <3>2. r = [q EXCEPT !.scrollV = v, !.needsRedraw = TRUE]
      BY <2>3 DEF ScrollToSelected
    <3> HIDE DEF r, v
    <3>3. /\ r \in Shape /\ r.items = q.items /\ r.selected = q.selected
          /\ r.oldSelected = q.oldSelected /\ r.h = q.h
          /\ r.scrollV = v /\ r.needsRedraw
      BY <2>1, <3>1, <3>2, ScrollChanged
    <3> QED
      BY <2>1, <3>1, <3>3
  <2>4. CASE ~(q.selected < q.scrollV) /\ ~(q.selected >= q.scrollV + q.h)
    BY <2>1, <2>4 DEF ScrollToSelected, Shape
  <2> QED
    BY <2>2, <2>3, <2>4
<1>4. Scrolled(p) = r
  BY DEF Scrolled, q
<1> HIDE DEF r
<1> QED
  BY <1>2, <1>3, <1>4

LEMMA AfterDrawSound ==
  ASSUME NEW p, Sound(p)
  PROVE  Sound(AfterDraw(p))
<1> DEFINE q == Scrolled(p)
           r == [q EXCEPT !.needsRedraw = FALSE, !.oldSelected = p.selected]
<1>1. /\ q \in Shape /\ q.items = p.items /\ q.selected = p.selected /\ q.h = p.h
      /\ p.h > 0 => p.selected - q.scrollV \in 0 .. p.h - 1
      /\ p.h > 0 /\ Size(p) > 0 => q.scrollV >= 0
  BY ScrolledFacts
<1>2. /\ Size(p) \in Nat /\ Size(p) <= MaxSize
      /\ p.selected \in Nat /\ p.selected <= Upper(Size(p) - 1, 0)
  BY SizeIsNatural DEF Sound, Shape
<1> HIDE DEF q
<1>3. /\ r \in Shape /\ r.items = q.items /\ r.selected = q.selected
      /\ r.oldSelected = p.selected /\ r.h = q.h /\ r.scrollV = q.scrollV
  BY <1>1, <1>2 DEF Shape
<1> HIDE DEF r
<1>4. Size(r) = Size(p)
  BY <1>1, <1>3 DEF Size
<1>5. Settled(r)
  <2>1. Size(p) > 0 => p.selected < Size(p)
    BY <1>2 DEF Upper
  <2> QED
    BY <1>1, <1>2, <1>3, <1>4, <2>1 DEF Settled
<1>6. Sound(r)
  BY <1>1, <1>2, <1>3, <1>4, <1>5 DEF Sound
<1> QED
  BY <1>6 DEF AfterDraw, q, r
-----------------------------------------------------------------------------
(* Every step preserves the invariant. *)

LEMMA InitSound == Init => IInv
BY HeightAssumption, NewPanelSound DEF Init, IInv

LEMMA KeyStep == ASSUME IInv, Key PROVE IInv'
BY OnKeySound DEF IInv, Key, Read

LEMMA ClickAndEditStep == ASSUME IInv, ClickAndEdit PROVE IInv'
<1>1. PICK p \in Clicked \cup {panel} :
         \/ panel' = p
         \/ InVector(p, p.selected) /\ \E o \in Item : panel' = Set(p, p.selected, o)
  BY DEF ClickAndEdit
<1>2. Sound(p)
  <2>1. CASE p \in Clicked
    <3>1. panel.h \in Int /\ panel.scrollV \in Int
      BY DEF IInv, Sound, Shape
    <3>2. PICK line \in 0 .. panel.h - 1 : p = SetSelected(panel, panel.scrollV + line)
      BY <2>1 DEF Clicked
    <3>3. panel.scrollV + line \in Int
      BY <3>1
    <3> QED
      BY <3>2, <3>3, SetSelectedSound DEF IInv
  <2>2. CASE p = panel
    BY <2>2 DEF IInv
  <2> QED
    BY <2>1, <2>2
<1>3. Sound(panel')
  <2>1. CASE panel' = p
    BY <1>2, <2>1
  <2>2. CASE InVector(p, p.selected) /\ \E o \in Item : panel' = Set(p, p.selected, o)
    BY <1>2, <2>2, SetSound DEF InVector
  <2> QED
    BY <1>1, <2>1, <2>2
<1> QED
  BY <1>3 DEF IInv, ClickAndEdit, Read

LEMMA MoveRowStep == ASSUME IInv, MoveRow PROVE IInv'
BY MoveRowSound DEF IInv, MoveRow, Read

LEMMA AddRowStep == ASSUME IInv, AddRow PROVE IInv'
<1>1. Size(panel) \in Nat /\ panel.selected \in Nat /\ Size(panel) < MaxSize
  BY SizeIsNatural DEF IInv, Sound, Shape, AddRow
<1>2. PICK o \in Item :
         \/ panel' = SetSelected(Add(panel, o), Size(panel))
         \/ panel' = SetSelected(Insert(panel, panel.selected, o), panel.selected + 1)
         \/ \E at \in 0 .. MaxSize - 1 : panel' = SetSelected(Insert(panel, at, o), at)
  BY DEF AddRow
<1>3. CASE panel' = SetSelected(Add(panel, o), Size(panel))
  <2>1. Sound(Add(panel, o))
    BY <1>1, AddSound DEF IInv
  <2>2. Sound(panel')
    BY <1>1, <1>3, <2>1, SetSelectedSound
  <2> QED
    BY <2>2 DEF IInv, AddRow, Read
<1>4. CASE panel' = SetSelected(Insert(panel, panel.selected, o), panel.selected + 1)
  <2>1. Sound(Insert(panel, panel.selected, o)) /\ panel.selected + 1 \in Int
    BY <1>1, InsertSound DEF IInv
  <2>2. Sound(panel')
    BY <1>4, <2>1, SetSelectedSound
  <2> QED
    BY <2>2 DEF IInv, AddRow, Read
<1>5. CASE \E at \in 0 .. MaxSize - 1 : panel' = SetSelected(Insert(panel, at, o), at)
  <2>1. PICK at \in 0 .. MaxSize - 1 : panel' = SetSelected(Insert(panel, at, o), at)
    BY <1>5
  <2>2. at \in Nat /\ at \in Int
    BY MaxSizeAssumption
  <2>3. Sound(Insert(panel, at, o))
    BY <1>1, <2>2, InsertSound DEF IInv
  <2>4. Sound(panel')
    BY <2>1, <2>2, <2>3, SetSelectedSound
  <2> QED
    BY <2>4 DEF IInv, AddRow, Read
<1> QED
  BY <1>2, <1>3, <1>4, <1>5

LEMMA RemoveRowStep == ASSUME IInv, RemoveRow PROVE IInv'
BY RemoveSound DEF IInv, RemoveRow, Read

LEMMA RefillRowsStep == ASSUME IInv, RefillRows PROVE IInv'
<1>1. PICK items \in Items, found \in -1 .. MaxSize - 1 : panel' = Refill(panel, items, found)
  BY DEF RefillRows
<1>2. found \in Int
  BY MaxSizeAssumption
<1>3. Sound(panel')
  BY <1>1, <1>2, RefillSound DEF IInv
<1> QED
  BY <1>3 DEF IInv, RefillRows, Read

LEMMA MoveFocusStep == ASSUME IInv, MoveFocus PROVE IInv'
BY DEF IInv, MoveFocus, Read

LEMMA ResizeStep == ASSUME IInv, Resize PROVE IInv'
<1>1. PICK height \in Height : panel' = [panel EXCEPT !.h = height, !.needsRedraw = TRUE]
  BY DEF Resize
<1>2. height \in Int
  BY HeightAssumption
<1>3. Sound(panel')
  BY <1>1, <1>2, ResizeSound DEF IInv
<1> QED
  BY <1>3 DEF IInv, Resize, Read

LEMMA DrawStep == ASSUME IInv, Draw PROVE IInv'
BY AfterDrawSound DEF IInv, Draw

LEMMA IInvIsInvariant == Spec => []IInv
<1>1. IInv /\ [Next]_vars => IInv'
  <2> SUFFICES ASSUME IInv, [Next]_vars PROVE IInv'
    OBVIOUS
  <2>1. CASE Next
    BY <2>1, KeyStep, ClickAndEditStep, MoveRowStep, AddRowStep, RemoveRowStep,
       RefillRowsStep, MoveFocusStep, ResizeStep, DrawStep DEF Next
  <2>2. CASE UNCHANGED vars
    BY <2>2 DEF IInv, vars
  <2> QED
    BY <2>1, <2>2
<1> QED
  BY <1>1, InitSound, PTL DEF Spec
-----------------------------------------------------------------------------
(* What an operation leaves of the screen. *)

LEMMA AskedIsQuiet == ASSUME NEW p, NEW q, q.needsRedraw PROVE Quiet(p, q)
BY DEF Quiet

LEMMA SameRowsQuiet ==
  ASSUME NEW p, NEW q, SameButSelected(p, q)
  PROVE  Quiet(p, q)
BY DEF Quiet, SameButSelected, Size, At

LEMMA SetSelectedFacts ==
  ASSUME NEW p \in Shape, NEW i \in Int
  PROVE  SameButSelected(p, SetSelected(p, i))
<1>1. p \in Wide /\ Size(p) \in Nat
  BY SizeIsNatural DEF Shape, Wide
<1>2. Upper(Lower(i, Size(p) - 1), 0) \in Int
  BY <1>1 DEF Upper, Lower
<1> QED
  BY <1>1, <1>2, SelectedChanged DEF SetSelected

LEMMA OnKeyQuiet ==
  ASSUME NEW p, Sound(p), NEW key \in Keys
  PROVE  Quiet(p, OnKey(p, key))
<1>1. CASE key = "other"
  <2>1. SameButSelected(p, p)
    BY DEF SameButSelected
  <2> QED
    BY <1>1, <2>1, SameRowsQuiet DEF OnKey
<1>2. CASE key # "other"
  <2> DEFINE q == Moved(p, key)
  <2>1. p \in Wide /\ Size(p) \in Nat /\ p.selected \in Int /\ p.scrollV \in Int /\ p.h \in Int
    BY SizeIsNatural DEF Sound, Shape, Wide
  <2>2. ASSUME NEW i \in Int PROVE SameButSelected(p, [p EXCEPT !.selected = i])
    BY <2>1, SelectedChanged
  <2>3. ASSUME NEW i, NEW v
        PROVE  /\ [p EXCEPT !.needsRedraw = TRUE].needsRedraw
               /\ [p EXCEPT !.selected = i, !.scrollV = v, !.needsRedraw = TRUE].needsRedraw
    BY <2>1 DEF Wide
  <2>4. q.needsRedraw \/ SameButSelected(p, q)
    <3>1. /\ p.selected + 1 \in Int /\ p.selected - 1 \in Int
          /\ 0 \in Int /\ Size(p) - 1 \in Int
      BY <2>1
    <3>2. CASE key = "down"
      BY <2>2, <3>1, <3>2 DEF Moved
    <3>3. CASE key = "up"
      BY <2>2, <3>1, <3>3 DEF Moved
    <3>4. CASE key = "home"
      BY <2>2, <3>1, <3>4 DEF Moved
    <3>5. CASE key = "end"
      BY <2>2, <3>1, <3>5 DEF Moved
    <3>6. CASE key = "side"
      BY <2>3, <3>6 DEF Moved
    <3>7. CASE key = "pgup"
      BY <2>3, <3>7 DEF Moved
    <3>8. CASE key = "pgdn"
      BY <2>3, <3>8 DEF Moved
    <3>9. CASE key = "wheelup"
      BY <2>3, <3>9 DEF Moved
    <3>10. CASE key = "wheeldown"
      BY <2>3, <3>10 DEF Moved
    <3> QED
      BY <1>2, <3>2, <3>3, <3>4, <3>5, <3>6, <3>7, <3>8, <3>9, <3>10 DEF Keys
  <2>5. q \in Wide
    BY <1>2, MovedLoose DEF Loose
  <2> HIDE DEF q
  <2>6. ASSUME NEW i PROVE [q EXCEPT !.selected = i, !.needsRedraw = TRUE].needsRedraw
    BY <2>5 DEF Wide
  <2>7. InBounds(q).needsRedraw \/ InBounds(q) = q
    BY <2>6 DEF InBounds
  <2>8. Quiet(p, InBounds(q))
    BY <2>4, <2>7, AskedIsQuiet, SameRowsQuiet
  <2> QED
    BY <1>2, <2>8 DEF OnKey, q
<1> QED
  BY <1>1, <1>2

(* A row is replaced, and the selection is on it. *)
LEMMA SetQuiet ==
  ASSUME NEW p, NEW q, Sound(q), SameButSelected(p, q), InVector(q, q.selected), NEW o \in Item
  PROVE  Quiet(p, Set(q, q.selected, o))
<1> DEFINE items == [q.items EXCEPT ![q.selected + 1] = o]
           r == [q EXCEPT !.items = items]
<1>1. Size(q) \in Nat /\ Len(q.items) = Size(q) /\ q.items \in Seq(Item) /\ q.selected \in Nat
  BY SizeIsNatural DEF Sound, Shape, Size
<1>2. /\ Len(items) = Len(q.items)
      /\ \A i \in 0 .. Size(q) - 1 : i # q.selected => items[i + 1] = q.items[i + 1]
  <2>1. q.selected + 1 \in 1 .. Len(q.items)
    BY <1>1 DEF InVector
  <2>2. Len(items) = Len(q.items)
    BY <1>1, <2>1, ExceptSeq
  <2>3. ASSUME NEW i \in 0 .. Size(q) - 1, i # q.selected
        PROVE  items[i + 1] = q.items[i + 1]
    <3>1. i + 1 \in DOMAIN q.items /\ i + 1 # q.selected + 1
      BY <1>1, <2>3, LenProperties
    <3> QED
      BY <3>1
  <2> QED
    BY <2>2, <2>3
<1>3. Set(q, q.selected, o) = r
  BY DEF Set, Sound, Shape
<1> HIDE DEF items
<1>4. /\ r.items = items /\ r.selected = q.selected /\ r.oldSelected = q.oldSelected
      /\ r.scrollV = q.scrollV /\ r.h = q.h /\ r.needsRedraw = q.needsRedraw
  BY DEF Sound, Shape
<1> HIDE DEF r
<1>5. Quiet(p, r)
  BY <1>1, <1>2, <1>4 DEF Quiet, SameButSelected, Size, At
<1> QED
  BY <1>3, <1>5

LEMMA MoveRowQuiet ==
  ASSUME NEW p, Sound(p)
  PROVE  Quiet(p, MoveSelectedUp(p)) /\ Quiet(p, MoveSelectedDown(p))
<1>1. Size(p) \in Nat /\ p.items \in Seq(Item) /\ p.selected \in Nat /\ Len(p.items) = Size(p)
  BY SizeIsNatural DEF Sound, Shape, Size
<1>2. ASSUME NEW i \in 0 .. Size(p) - 2, NEW to \in 0 .. Size(p) - 1,
             p.selected \in {i, i + 1}, to \in {i, i + 1}, p.selected # to
      PROVE  Quiet(p, [p EXCEPT !.items = SwapRows(p.items, i), !.selected = to])
  <2> DEFINE items == SwapRows(p.items, i)
             q == [p EXCEPT !.items = items, !.selected = to]
  <2>1. Len(items) = Size(p)
    BY <1>1, Swapped
  <2>2. ASSUME NEW j \in 0 .. Size(p) - 1, j \notin {i, i + 1}
        PROVE  items[j + 1] = p.items[j + 1]
    <3>1. j + 1 \in DOMAIN p.items /\ j + 1 # i + 1 /\ j + 1 # i + 2
      BY <1>1, <2>2, LenProperties
    <3> QED
      BY <3>1 DEF SwapRows
  <2> HIDE DEF items
  <2>3. /\ q.items = items /\ q.selected = to /\ q.oldSelected = p.oldSelected
        /\ q.scrollV = p.scrollV /\ q.h = p.h /\ q.needsRedraw = p.needsRedraw
    BY DEF Sound, Shape
  <2> HIDE DEF q
  <2>4. Quiet(p, q)
    BY <1>2, <2>1, <2>2, <2>3 DEF Quiet, Size, At
  <2> QED
    BY <2>4 DEF q, items
<1>3. Quiet(p, p)
  BY DEF Quiet
<1>4. Quiet(p, MoveSelectedUp(p))
  <2>1. CASE p.selected > 0 /\ InVector(p, p.selected)
    <3>1. /\ p.selected - 1 \in 0 .. Size(p) - 2 /\ p.selected - 1 \in 0 .. Size(p) - 1
          /\ (p.selected - 1) + 1 = p.selected /\ p.selected # p.selected - 1
      BY <1>1, <2>1 DEF InVector
    <3> QED
      BY <1>2, <2>1, <3>1 DEF MoveSelectedUp
  <2> QED
    BY <1>3, <2>1 DEF MoveSelectedUp
<1>5. Quiet(p, MoveSelectedDown(p))
  <2>1. CASE p.selected + 1 < Size(p)
    <3>1. /\ p.selected \in 0 .. Size(p) - 2 /\ p.selected + 1 \in 0 .. Size(p) - 1
          /\ p.selected # p.selected + 1
      BY <1>1, <2>1
    <3> QED
      BY <1>2, <2>1, <3>1 DEF MoveSelectedDown
  <2> QED
    BY <1>3, <2>1 DEF MoveSelectedDown
<1> QED
  BY <1>4, <1>5

(* Adding, removing and refilling ask for a full redraw. *)
LEMMA SetSelectedAsks ==
  ASSUME NEW p, Sound(p), p.needsRedraw, NEW i \in Int
  PROVE  SetSelected(p, i).needsRedraw
BY SetSelectedFacts DEF Sound, SameButSelected

LEMMA RefillAsks ==
  ASSUME NEW p \in Shape, NEW items \in Items, NEW found \in Int
  PROVE  Refill(p, items, found).needsRedraw
<1> DEFINE empty == Prune(p)
           q == [empty EXCEPT !.items = items]
<1>1. empty \in Shape /\ empty.needsRedraw
  BY PruneFacts
<1>2. items \in Seq(Item)
  BY ItemsAreSequences
<1> HIDE DEF empty
<1>3. q \in Shape /\ q.needsRedraw
  BY <1>1, <1>2 DEF Shape
<1> HIDE DEF q
<1>4. SetSelected(q, found).needsRedraw
  BY <1>3, SetSelectedFacts DEF SameButSelected
<1>5. [SetSelected(q, found) EXCEPT !.scrollV = p.scrollV].needsRedraw
  BY <1>3, <1>4 DEF SetSelected, Shape
<1> QED
  BY <1>3, <1>5 DEF Refill, q, empty
-----------------------------------------------------------------------------
(* What a draw puts on the screen, and every step leaves there. *)

(* A key is handled while the whole screen is right. *)
LEMMA HandledShown ==
  ASSUME IInv, Shown, pc = "read", screen' = screen, pc' = "draw", Quiet(panel, panel')
  PROVE  Shown'
<1>1. /\ screen = Render(panel, focus)
      /\ panel.oldSelected = panel.selected
  BY DEF Shown, ScreenIsCurrent
<1>2. /\ panel.h \in Int /\ panel.scrollV \in Int /\ Size(panel) \in Nat
  BY SizeIsNatural DEF IInv, Sound, Shape
<1>3. ASSUME ~panel'.needsRedraw PROVE RestIsShown(panel)'
  <2>1. /\ panel'.scrollV = panel.scrollV /\ panel'.h = panel.h
        /\ panel'.oldSelected = panel.oldSelected /\ Size(panel') = Size(panel)
        /\ \A i \in 0 .. Size(panel) - 1 :
             i \notin {panel.selected, panel'.selected} => At(panel', i) = At(panel, i)
    BY <1>3 DEF Quiet
  <2>2. screen = [line \in 0 .. panel.h - 1 |-> screen[line]]
    BY <1>1 DEF Render
  <2>3. ASSUME NEW line \in 0 .. panel.h - 1, NEW i, i = panel.scrollV + line,
               i \notin {panel'.oldSelected, panel'.selected}
        PROVE  screen[line] = IF InVector(panel', i)
                              THEN [item |-> At(panel', i), bar |-> "none"] ELSE Blank
    <3>1. i # panel.selected /\ i # panel'.selected
      BY <1>1, <2>1, <2>3
    <3>2. screen[line] = IF InVector(panel, i) THEN RowOf(panel, focus, i) ELSE Blank
      BY <1>1, <2>3 DEF Render
    <3>3. InVector(panel', i) <=> InVector(panel, i)
      BY <2>1 DEF InVector
    <3>4. CASE InVector(panel, i)
      <4>1. At(panel', i) = At(panel, i)
        BY <2>1, <3>1, <3>4 DEF InVector
      <4> QED
        BY <3>1, <3>2, <3>3, <3>4, <4>1 DEF RowOf
    <3> QED
      BY <3>2, <3>3, <3>4
  <2> QED
    BY <2>1, <2>2, <2>3 DEF RestIsShown
<1> QED
  BY <1>3 DEF Shown, ScreenIsCurrent

(* What is drawn is what a full draw would show. *)
LEMMA DrawnIsRight ==
  ASSUME IInv, Shown, pc = "draw"
  PROVE  Drawn(panel, focus, screen) = Render(Scrolled(panel), focus)
<1> DEFINE p == panel
           q == Scrolled(panel)
<1>1. CASE q.needsRedraw
  BY <1>1 DEF Drawn
<1>2. CASE ~q.needsRedraw
  <2>1. q = p /\ p.h > 0 /\ Size(p) > 0 /\ ~p.needsRedraw
    BY <1>2, ScrolledFacts DEF IInv
  <2>2. p.selected - p.scrollV \in 0 .. p.h - 1
    BY <2>1, ScrolledFacts DEF IInv
  <2>3. p.oldSelected < Size(p) /\ p.oldSelected - p.scrollV \in 0 .. p.h - 1
    BY <2>1 DEF IInv, Sound, Settled
  <2>4. /\ Size(p) \in Nat /\ p.selected \in Nat /\ p.oldSelected \in Nat
        /\ p.scrollV \in Int /\ p.h \in Int /\ p.selected <= Upper(Size(p) - 1, 0)
    BY SizeIsNatural DEF IInv, Sound, Shape
  <2>5. InVector(p, p.selected) /\ InVector(p, p.oldSelected)
    BY <2>1, <2>3, <2>4 DEF InVector, Upper
  <2>6. RestIsShown(p)
    BY <2>1 DEF Shown
  <2>7. Drawn(p, focus, screen) = DrawSelectedOnly(p, focus, screen)
    BY <1>2, <2>1 DEF Drawn
  <2> DEFINE old == p.oldSelected - p.scrollV
             new == p.selected - p.scrollV
             drawn == DrawSelectedOnly(p, focus, screen)
  <2>8. /\ DOMAIN screen = 0 .. p.h - 1
        /\ drawn = [line \in 0 .. p.h - 1 |-> drawn[line]]
    BY <2>6 DEF RestIsShown, DrawSelectedOnly
  <2>9. ASSUME NEW line \in 0 .. p.h - 1
        PROVE  drawn[line] = IF InVector(p, p.scrollV + line)
                             THEN RowOf(p, focus, p.scrollV + line) ELSE Blank
    <3>1. CASE line = new
      <4>1. drawn[line] = RowOf(p, focus, p.selected)
        BY <2>2, <2>8, <3>1 DEF DrawSelectedOnly
      <4>2. p.scrollV + line = p.selected
        BY <2>4, <3>1
      <4> QED
        BY <2>5, <4>1, <4>2
    <3>2. CASE line # new /\ line = old
      <4>1. drawn[line] = [item |-> At(p, p.oldSelected), bar |-> "none"]
        BY <2>3, <2>8, <3>2 DEF DrawSelectedOnly
      <4>2. p.scrollV + line = p.oldSelected /\ p.oldSelected # p.selected
        BY <2>4, <3>2
      <4> QED
        BY <2>5, <4>1, <4>2 DEF RowOf
    <3>3. CASE line # new /\ line # old
      <4>1. drawn[line] = screen[line]
        BY <2>8, <3>3 DEF DrawSelectedOnly
      <4>2. p.scrollV + line \notin {p.oldSelected, p.selected}
        BY <2>4, <3>3
      <4> QED
        BY <2>6, <4>1, <4>2 DEF RestIsShown, RowOf
    <3> QED
      BY <3>1, <3>2, <3>3
  <2> HIDE DEF drawn
  <2>10. drawn = Render(p, focus)
    BY <2>8, <2>9 DEF Render
  <2> QED
    BY <2>1, <2>7, <2>10 DEF drawn
<1> QED
  BY <1>1, <1>2

LEMMA DrawShown == ASSUME IInv, Shown, Draw PROVE Shown'
<1> DEFINE q == Scrolled(panel)
<1>1. /\ pc = "draw" /\ pc' = "read" /\ focus' = focus
      /\ screen' = Drawn(panel, focus, screen) /\ panel' = AfterDraw(panel)
  BY DEF Draw
<1>2. screen' = Render(q, focus)
  BY <1>1, DrawnIsRight
<1>3. /\ q \in Shape /\ q.items = panel.items /\ q.selected = panel.selected
      /\ q.h = panel.h
      /\ panel.h > 0 => panel.selected - q.scrollV \in 0 .. panel.h - 1
  BY ScrolledFacts DEF IInv
<1> HIDE DEF q
<1>4. /\ panel'.items = q.items /\ panel'.selected = q.selected /\ panel'.scrollV = q.scrollV
      /\ panel'.h = q.h /\ ~panel'.needsRedraw /\ panel'.oldSelected = panel.selected
  <2>1. panel' = [q EXCEPT !.needsRedraw = FALSE, !.oldSelected = panel.selected]
    BY <1>1 DEF AfterDraw, q
  <2> QED
    BY <1>3, <2>1 DEF Shape
<1>5. Render(panel', focus') = Render(q, focus)
  BY <1>1, <1>4 DEF Render, RowOf, InVector, Size, At
<1> QED
  BY <1>1, <1>2, <1>3, <1>4, <1>5 DEF Shown, ScreenIsCurrent

LEMMA ClickAndEditQuiet == ASSUME IInv, ClickAndEdit PROVE Quiet(panel, panel')
<1>1. PICK p \in Clicked \cup {panel} :
         \/ panel' = p
         \/ InVector(p, p.selected) /\ \E o \in Item : panel' = Set(p, p.selected, o)
  BY DEF ClickAndEdit
<1>2. panel \in Shape /\ Sound(panel)
  BY DEF IInv, Sound
<1>3. Sound(p) /\ SameButSelected(panel, p)
  <2>1. CASE p \in Clicked
    <3>1. panel.h \in Int /\ panel.scrollV \in Int
      BY <1>2 DEF Shape
    <3>2. PICK line \in 0 .. panel.h - 1 : p = SetSelected(panel, panel.scrollV + line)
      BY <2>1 DEF Clicked
    <3>3. panel.scrollV + line \in Int
      BY <3>1
    <3> QED
      BY <1>2, <3>2, <3>3, SetSelectedSound, SetSelectedFacts
  <2>2. CASE p = panel
    BY <1>2, <2>2 DEF SameButSelected
  <2> QED
    BY <2>1, <2>2
<1>4. CASE panel' = p
  BY <1>3, <1>4, SameRowsQuiet
<1>5. CASE InVector(p, p.selected) /\ \E o \in Item : panel' = Set(p, p.selected, o)
  BY <1>3, <1>5, SetQuiet
<1> QED
  BY <1>1, <1>4, <1>5

LEMMA AddRowQuiet == ASSUME IInv, AddRow PROVE Quiet(panel, panel')
<1>1. /\ Sound(panel) /\ Size(panel) \in Nat /\ panel.selected \in Nat
      /\ Size(panel) < MaxSize
  BY SizeIsNatural DEF IInv, Sound, Shape, AddRow
<1>2. PICK o \in Item :
         \/ panel' = SetSelected(Add(panel, o), Size(panel))
         \/ panel' = SetSelected(Insert(panel, panel.selected, o), panel.selected + 1)
         \/ \E at \in 0 .. MaxSize - 1 : panel' = SetSelected(Insert(panel, at, o), at)
  BY DEF AddRow
<1>3. ASSUME NEW p, Sound(p), p.needsRedraw, NEW i \in Int, panel' = SetSelected(p, i)
      PROVE  Quiet(panel, panel')
  BY <1>3, SetSelectedAsks, AskedIsQuiet
<1>4. Add(panel, o).needsRedraw /\ \A i : Insert(panel, i, o).needsRedraw
  BY <1>1 DEF Add, Insert, Sound, Shape
<1>5. Sound(Add(panel, o)) /\ \A i \in Nat : Sound(Insert(panel, i, o))
  BY <1>1, AddSound, InsertSound
<1>6. CASE panel' = SetSelected(Add(panel, o), Size(panel))
  BY <1>1, <1>3, <1>4, <1>5, <1>6
<1>7. CASE panel' = SetSelected(Insert(panel, panel.selected, o), panel.selected + 1)
  <2>1. panel.selected + 1 \in Int
    BY <1>1
  <2> QED
    BY <1>1, <1>3, <1>4, <1>5, <1>7, <2>1
<1>8. CASE \E at \in 0 .. MaxSize - 1 : panel' = SetSelected(Insert(panel, at, o), at)
  <2>1. PICK at \in 0 .. MaxSize - 1 : panel' = SetSelected(Insert(panel, at, o), at)
    BY <1>8
  <2>2. at \in Nat /\ at \in Int
    BY MaxSizeAssumption
  <2> QED
    BY <1>3, <1>4, <1>5, <2>1, <2>2
<1> QED
  BY <1>2, <1>6, <1>7, <1>8

LEMMA NextShown == ASSUME IInv, Shown, [Next]_vars PROVE Shown'
<1>1. Sound(panel) /\ panel \in Shape
  BY DEF IInv, Sound
<1>2. ASSUME Read, screen' = screen, Quiet(panel, panel') PROVE Shown'
  BY <1>2, HandledShown DEF Read
<1>3. CASE Key
  BY <1>1, <1>2, <1>3, OnKeyQuiet DEF Key
<1>4. CASE ClickAndEdit
  BY <1>2, <1>4, ClickAndEditQuiet DEF ClickAndEdit
<1>5. CASE MoveRow
  BY <1>1, <1>2, <1>5, MoveRowQuiet DEF MoveRow
<1>6. CASE AddRow
  BY <1>2, <1>6, AddRowQuiet DEF AddRow
<1>7. CASE RemoveRow
  <2>1. panel'.needsRedraw
    BY <1>1, <1>7 DEF RemoveRow, RemoveAtRow, Shape
  <2> QED
    BY <1>2, <1>7, <2>1, AskedIsQuiet DEF RemoveRow
<1>8. CASE RefillRows
  <2>1. PICK items \in Items, found \in -1 .. MaxSize - 1 :
           panel' = Refill(panel, items, found)
    BY <1>8 DEF RefillRows
  <2>2. found \in Int
    BY MaxSizeAssumption
  <2>3. panel'.needsRedraw
    BY <1>1, <2>1, <2>2, RefillAsks
  <2> QED
    BY <1>2, <1>8, <2>3, AskedIsQuiet DEF RefillRows
<1>9. CASE MoveFocus
  <2>1. Quiet(panel, panel')
    BY <1>9 DEF MoveFocus, Quiet
  <2> QED
    BY <1>2, <1>9, <2>1 DEF MoveFocus
<1>10. CASE Resize
  <2>1. panel'.needsRedraw /\ pc' = "draw"
    BY <1>1, <1>10 DEF Resize, Read, Shape
  <2> QED
    BY <2>1 DEF Shown, ScreenIsCurrent
<1>11. CASE Draw
  BY <1>11, DrawShown
<1>12. CASE UNCHANGED vars
  BY <1>12 DEF vars, Shown, ScreenIsCurrent, RestIsShown
<1> QED
  BY <1>3, <1>4, <1>5, <1>6, <1>7, <1>8, <1>9, <1>10, <1>11, <1>12 DEF Next
-----------------------------------------------------------------------------
(* Panel, focus and step have their types, and no panel outgrows its bound. *)
THEOREM TypeCorrect == Spec => []TypeOK
<1>1. IInv => TypeOK
  BY ItemsAreSequences DEF IInv, TypeOK, Sound, Shape, Size
<1> QED
  BY <1>1, IInvIsInvariant, PTL

(* Whatever keys, clicks and changes of its rows a panel has seen, handlers *)
(* that read the vector at the selection (Panel_getSelected and its users)  *)
(* find a row there, unless the panel is empty.                             *)
THEOREM SelectionIsARow == Spec => []SelectedInRange
<1>1. IInv => SelectedInRange
  <2> SUFFICES ASSUME IInv PROVE SelectedInRange
    OBVIOUS
  <2>1. Size(panel) \in Nat /\ panel.selected \in Nat
    BY SizeIsNatural DEF IInv, Sound, Shape
  <2>2. panel.selected <= Upper(Size(panel) - 1, 0)
    BY DEF IInv, Sound
  <2> QED
    BY <2>1, <2>2 DEF SelectedInRange, Upper
<1> QED
  BY <1>1, IInvIsInvariant, PTL

(* The quick way of Panel_draw reads no row behind the vector and draws no  *)
(* line outside the panel, whatever happened since the last draw.           *)
THEOREM QuickDrawIsSafe == Spec => []QuickDrawInPanel
<1>1. IInv => QuickDrawInPanel
  <2> SUFFICES ASSUME IInv, ~Scrolled(panel).needsRedraw
               PROVE  LET p == Scrolled(panel)
                      IN  \A i \in {p.oldSelected, p.selected} :
                             InVector(p, i) /\ i - p.scrollV \in 0 .. p.h - 1
    BY DEF QuickDrawInPanel
  <2>1. Sound(panel)
    BY DEF IInv
  <2>2. Scrolled(panel) = panel /\ panel.h > 0 /\ Size(panel) > 0
    BY <2>1, ScrolledFacts
  <2>3. panel.selected - panel.scrollV \in 0 .. panel.h - 1
    BY <2>1, <2>2, ScrolledFacts
  <2>4. /\ panel.oldSelected < Size(panel)
        /\ panel.oldSelected - panel.scrollV \in 0 .. panel.h - 1
    BY <2>1, <2>2 DEF Sound, Settled
  <2>5. /\ Size(panel) \in Nat /\ panel.selected \in Nat /\ panel.oldSelected \in Nat
        /\ panel.selected <= Upper(Size(panel) - 1, 0)
    BY <2>1, SizeIsNatural DEF Sound, Shape
  <2>6. panel.selected < Size(panel)
    BY <2>2, <2>5 DEF Upper
  <2> QED
    BY <2>2, <2>3, <2>4, <2>5, <2>6 DEF InVector
<1> QED
  BY <1>1, IInvIsInvariant, PTL
(* The quick way of Panel_draw draws two rows and trusts the rest: after    *)
(* each draw the screen is what a full draw would have made of it, each row *)
(* with what it holds and the bar on the selected one alone, and the        *)
(* selected row is on the screen.                                           *)
THEOREM QuickDrawIsEnough == Spec => []ScreenIsCurrent
<1>1. Init => Shown
  BY DEF Init, NewPanel, Shown, ScreenIsCurrent
<1>2. IInv /\ Shown /\ [Next]_vars => Shown'
  BY NextShown
<1>3. Shown => ScreenIsCurrent
  BY DEF Shown
<1> QED
  BY <1>1, <1>2, <1>3, IInvIsInvariant, PTL DEF Spec
-----------------------------------------------------------------------------
(* RichString.  StringShape is what every operation needs, Filled what the *)
(* text is made of; between SetLen and the writing of the cells a string   *)
(* has the one and not the other, which is why they are apart.             *)

StringShape(s) ==
  /\ s = [chlen |-> s.chlen, chptr |-> s.chptr, chstr |-> s.chstr, heap |-> s.heap]
  /\ s.chlen \in Nat
  /\ s.chptr \in {"chstr", "heap"}
  /\ s.chptr = "heap" <=> s.chlen > MaxLen
  /\ s.chstr \in [0..MaxLen -> Cell]
  /\ s.chlen > MaxLen => s.heap \in [0..s.chlen -> Cell]
  /\ s.chlen <= MaxLen => s.heap = NoHeap

Filled(s) ==
  /\ \A i \in 0..(s.chlen - 1) : Cells(s)[i].char # Nul
  /\ WideChars \/ s.chlen > 0 => Terminates(Cells(s)[s.chlen])

TextInv == StringShape(string) /\ Filled(string) /\ string.chlen <= MaxText

USE RichStringAssumption

\* The array in use has a place for the text and one for its terminator.
LEMMA CellsType ==
  ASSUME NEW s, StringShape(s)
  PROVE  \E n \in Nat : n >= s.chlen /\ Cells(s) \in [0..n -> Cell]
<1>1. CASE s.chlen > MaxLen
  BY <1>1 DEF StringShape, Cells
<1>2. CASE s.chlen <= MaxLen
  BY <1>2 DEF StringShape, Cells
<1> QED BY <1>1, <1>2 DEF StringShape

\* Other cells for the array in use leave the string in shape.
LEMMA WithCellsShape ==
  ASSUME NEW s, StringShape(s), NEW cells \in [DOMAIN Cells(s) -> Cell]
  PROVE  /\ StringShape(WithCells(s, cells))
         /\ Cells(WithCells(s, cells)) = cells
         /\ WithCells(s, cells).chlen = s.chlen
         /\ WithCells(s, cells).chptr = s.chptr
<1>1. CASE s.chlen > MaxLen
  <2>1. s.chptr = "heap" /\ Cells(s) = s.heap /\ cells \in [0..s.chlen -> Cell]
    BY <1>1 DEF StringShape, Cells
  <2>2. WithCells(s, cells) = [chlen |-> s.chlen, chptr |-> "heap", chstr |-> s.chstr, heap |-> cells]
    BY <2>1 DEF WithCells, StringShape
  <2> QED BY <1>1, <2>1, <2>2 DEF StringShape, Cells
<1>2. CASE s.chlen <= MaxLen
  <2>1. s.chptr = "chstr" /\ Cells(s) = s.chstr /\ cells \in [0..MaxLen -> Cell]
    BY <1>2 DEF StringShape, Cells
  <2>2. WithCells(s, cells) = [chlen |-> s.chlen, chptr |-> "chstr", chstr |-> cells, heap |-> s.heap]
    BY <2>1 DEF WithCells, StringShape
  <2> QED BY <1>2, <2>1, <2>2 DEF StringShape, Cells
<1> QED BY <1>1, <1>2 DEF StringShape

\* The operators of RichText.
Styled(attr, data) == Promise!Styled(attr, data)
Repainted(t, attr, start, finish) == Promise!Repainted(t, attr, start, finish)

\* The terminator is a cell that terminates.
LEMMA CellFacts == Zero \in Cell /\ Zero.char = Nul /\ Terminates(Zero)
BY DEF Zero, Cell, Terminates

\* SetLen leaves a string of the length that is asked for, which ends there, and
\* keeps the cells both lengths have, wherever they have to go.
LEMMA SetLenKeeps ==
  ASSUME NEW s, StringShape(s), NEW len \in Nat
  PROVE  /\ StringShape(SetLen(s, len))
         /\ SetLen(s, len).chlen = len
         /\ len \in DOMAIN Cells(SetLen(s, len))
         /\ Cells(SetLen(s, len))[len] = Zero
         /\ \A i \in Nat : i < len /\ i < s.chlen => Cells(SetLen(s, len))[i] = Cells(s)[i]
<1> DEFINE S(p, c, h) == [chlen |-> len, chptr |-> p, chstr |-> c, heap |-> h]
<1>t. Zero \in Cell
  BY CellFacts
<1>1. CASE s.chlen <= MaxLen /\ len <= MaxLen
  <2>1. SetLen(s, len) = S("chstr", [s.chstr EXCEPT ![len] = Zero], NoHeap)
    <3>1. s = [chlen |-> s.chlen, chptr |-> "chstr", chstr |-> s.chstr, heap |-> NoHeap]
      BY <1>1 DEF StringShape
    <3>2. SetChar(s, len, Zero)
            = [chlen |-> s.chlen, chptr |-> "chstr", chstr |-> [s.chstr EXCEPT ![len] = Zero], heap |-> NoHeap]
      BY <3>1 DEF SetChar, WithCells, Cells
    <3>3. ExtendLen(s, len) = [SetChar(s, len, Zero) EXCEPT !.chlen = len]
      BY <1>1, <3>1 DEF ExtendLen, StringShape
    <3> QED BY <3>2, <3>3 DEF SetLen
  <2> QED BY <1>1, <2>1, <1>t DEF StringShape, Cells
<1>2. CASE s.chlen <= MaxLen /\ len > MaxLen
  <2> DEFINE h == Allocated(len + 1, s.chstr, s.chlen)
  <2>1. SetLen(s, len) = S("heap", s.chstr, [h EXCEPT ![len] = Zero])
    <3>1. s = [chlen |-> s.chlen, chptr |-> "chstr", chstr |-> s.chstr, heap |-> NoHeap]
      BY <1>2 DEF StringShape
    <3> DEFINE moved == Relocated(s, "heap", s.chstr, h)
    <3>2. moved = [chlen |-> s.chlen, chptr |-> "heap", chstr |-> s.chstr, heap |-> h]
      BY DEF Relocated
    <3>3. ExtendLen(s, len) = [SetChar(moved, len, Zero) EXCEPT !.chlen = len]
      BY <1>2 DEF ExtendLen, StringShape
    <3> HIDE DEF h, moved
    <3>4. SetChar(moved, len, Zero)
            = [chlen |-> s.chlen, chptr |-> "heap", chstr |-> s.chstr, heap |-> [h EXCEPT ![len] = Zero]]
      BY <3>2 DEF SetChar, WithCells, Cells
    <3> QED BY <1>2, <3>3, <3>4 DEF SetLen, StringShape
  <2>2. h \in [0..len -> Cell] /\ \A i \in Nat : i < s.chlen => h[i] = s.chstr[i]
    BY <1>2 DEF Allocated, StringShape
  <2> HIDE DEF h
  <2> QED BY <1>2, <2>1, <2>2, <1>t DEF StringShape, Cells
<1>3. CASE s.chlen > MaxLen /\ len <= MaxLen
  <2> DEFINE c == [i \in 0..MaxLen |-> IF i < len THEN s.heap[i] ELSE s.chstr[i]]
  <2>1. SetLen(s, len) = S("chstr", [c EXCEPT ![len] = Zero], NoHeap)
    <3> DEFINE moved == Relocated(s, "chstr", c, NoHeap)
    <3>2. moved = [chlen |-> s.chlen, chptr |-> "chstr", chstr |-> c, heap |-> NoHeap]
      BY DEF Relocated
    <3>3. ExtendLen(s, len) = [SetChar(moved, len, Zero) EXCEPT !.chlen = len]
      BY <1>3 DEF ExtendLen, StringShape
    <3> HIDE DEF c, moved
    <3>4. SetChar(moved, len, Zero)
            = [chlen |-> s.chlen, chptr |-> "chstr", chstr |-> [c EXCEPT ![len] = Zero], heap |-> NoHeap]
      BY <3>2 DEF SetChar, WithCells, Cells
    <3>5. SetLen(s, len) = ExtendLen(s, len)
      BY <1>3 DEF SetLen, StringShape
    <3> QED BY <3>3, <3>4, <3>5
  <2>2. c \in [0..MaxLen -> Cell] /\ \A i \in Nat : i < len => c[i] = s.heap[i]
    BY <1>3 DEF StringShape
  <2> HIDE DEF c
  <2> QED BY <1>3, <2>1, <2>2, <1>t DEF StringShape, Cells
<1>4. CASE s.chlen > MaxLen /\ len > MaxLen
  <2> DEFINE h == Allocated(len + 1, s.heap, s.chlen + 1)
  <2>1. SetLen(s, len) = S("heap", s.chstr, [h EXCEPT ![len] = Zero])
    <3> DEFINE moved == Relocated(s, "heap", s.chstr, h)
    <3>2. moved = [chlen |-> s.chlen, chptr |-> "heap", chstr |-> s.chstr, heap |-> h]
      BY DEF Relocated
    <3>3. ExtendLen(s, len) = [SetChar(moved, len, Zero) EXCEPT !.chlen = len]
      BY <1>4 DEF ExtendLen, StringShape
    <3> HIDE DEF h, moved
    <3>4. SetChar(moved, len, Zero)
            = [chlen |-> s.chlen, chptr |-> "heap", chstr |-> s.chstr, heap |-> [h EXCEPT ![len] = Zero]]
      BY <3>2 DEF SetChar, WithCells, Cells
    <3>5. SetLen(s, len) = ExtendLen(s, len)
      BY <1>4 DEF SetLen, StringShape
    <3> QED BY <3>3, <3>4, <3>5
  <2>2. h \in [0..len -> Cell] /\ \A i \in Nat : i < s.chlen /\ i < len => h[i] = s.heap[i]
    BY <1>4 DEF Allocated, StringShape
  <2> HIDE DEF h
  <2> QED BY <1>4, <2>1, <2>2, <1>t DEF StringShape, Cells
<1> QED BY <1>1, <1>2, <1>3, <1>4 DEF StringShape

\* All that can be written.
Datum == Seq(Printable \cup Control)

\* What is written at a place no further than the end of a string is there
\* afterwards, what was before it still is, and the string ends behind it.
LEMMA WriteFromRight ==
  ASSUME NEW s, StringShape(s), Filled(s), NEW attr \in Attr, NEW data \in Datum,
         NEW from \in Nat, from <= s.chlen
  PROVE  LET t == WriteFrom(s, attr, data, from)
         IN /\ StringShape(t) /\ Filled(t)
            /\ t.chlen = from + Len(data)
            /\ Text(t) = [i \in 1..(from + Len(data)) |->
                            IF i <= from THEN Text(s)[i] ELSE Styled(attr, data)[i - from]]
<1> DEFINE n == from + Len(data)
           long == SetLen(s, n)
           written(i) == [char |-> Glyph(data[i - from + 1]), attr |-> attr]
           cells == [i \in DOMAIN Cells(long) |->
                       IF from <= i /\ i < n THEN written(i) ELSE Cells(long)[i]]
           t == WriteFrom(s, attr, data, from)
<1>0. s.chlen \in Nat
  BY DEF StringShape
<1>1. n \in Nat /\ Len(data) \in Nat
  BY DEF Datum
<1>2. /\ StringShape(long) /\ long.chlen = n /\ n \in DOMAIN Cells(long) /\ Cells(long)[n] = Zero
      /\ \A i \in Nat : i < n /\ i < s.chlen => Cells(long)[i] = Cells(s)[i]
  BY <1>1, SetLenKeeps
<1>3. PICK m \in Nat : m >= n /\ Cells(long) \in [0..m -> Cell]
  BY <1>2, CellsType
<1> HIDE DEF long
<1>4. \A i \in from..(n - 1) : written(i) \in Cell /\ written(i).char # Nul
  <2> SUFFICES ASSUME NEW i \in from..(n - 1)
               PROVE  written(i) \in Cell /\ written(i).char # Nul
    OBVIOUS
  <2>1. Glyph(data[i - from + 1]) \in Char
    BY DEF Glyph, Char
  <2> QED BY <2>1 DEF Cell
<1> HIDE DEF written
<1>5. cells \in [DOMAIN Cells(long) -> Cell]
  BY <1>1, <1>3, <1>4
<1>6. t = WithCells(long, cells)
  BY DEF WriteFrom, long, written
<1> HIDE DEF cells, t
<1>7. StringShape(t) /\ Cells(t) = cells /\ t.chlen = n
  BY <1>2, <1>5, <1>6, WithCellsShape
<1>8. \A i \in 0..(n - 1) : cells[i] = IF from <= i THEN written(i) ELSE Cells(s)[i]
  <2>1. DOMAIN Cells(long) = 0..m
    BY <1>3
  <2> SUFFICES ASSUME NEW i \in 0..(n - 1)
               PROVE  cells[i] = IF from <= i THEN written(i) ELSE Cells(s)[i]
    OBVIOUS
  <2>2. cells[i] = IF from <= i THEN written(i) ELSE Cells(long)[i]
    BY <1>1, <1>3, <2>1 DEF cells
  <2>3. i < from => Cells(long)[i] = Cells(s)[i]
    BY <1>0, <1>1, <1>2
  <2> QED BY <1>1, <2>2, <2>3
<1>9. cells[n] = Zero
  BY <1>1, <1>2 DEF cells
<1>10. Filled(t)
  <2>1. \A i \in 0..(n - 1) : cells[i].char # Nul
    BY <1>0, <1>1, <1>4, <1>8 DEF Filled
  <2> QED BY <1>7, <1>9, <2>1, CellFacts DEF Filled
<1>11. Text(t) = [i \in 1..n |-> IF i <= from THEN Text(s)[i] ELSE Styled(attr, data)[i - from]]
  <2>1. \A i \in 1..n : cells[i - 1] = IF i <= from THEN Text(s)[i] ELSE Styled(attr, data)[i - from]
    <3> SUFFICES ASSUME NEW i \in 1..n
                 PROVE  cells[i - 1] = IF i <= from THEN Text(s)[i] ELSE Styled(attr, data)[i - from]
      OBVIOUS
    <3>1. CASE i <= from
      BY <1>0, <1>1, <1>8, <3>1 DEF Text
    <3>2. CASE i > from
      <4>1. cells[i - 1] = written(i - 1) /\ i - from \in 1..Len(data)
        BY <1>1, <1>8, <3>2
      <4>2. written(i - 1) = [char |-> Glyph(data[i - from]), attr |-> attr]
        BY <1>1 DEF written
      <4> QED BY <3>2, <4>1, <4>2 DEF Styled, Promise!Styled, Promise!Glyph, Promise!Mark, Glyph, Mark
    <3> QED BY <1>1, <3>1, <3>2
  <2>2. Text(t) = [i \in 1..n |-> cells[i - 1]]
    BY <1>7 DEF Text
  <2> QED BY <2>1, <2>2
<1> QED BY <1>7, <1>10, <1>11 DEF t

\* Attributes change no character, and no cell of the text but the ones between the
\* two places.
LEMMA SetAttrnRight ==
  ASSUME NEW s, StringShape(s), Filled(s), NEW attr \in Attr, NEW start \in Nat, NEW finish \in Int
  PROVE  LET t == SetAttrn(s, attr, start, finish)
         IN /\ StringShape(t) /\ Filled(t)
            /\ t.chlen = s.chlen
            /\ Text(t) = Repainted(Text(s), attr, start, finish)
<1> DEFINE last == Clamp(finish, 0, s.chlen - 1)
           painted(c) == [c EXCEPT !.attr = attr]
           cells == [i \in DOMAIN Cells(s) |->
                       IF start <= i /\ i <= last THEN painted(Cells(s)[i]) ELSE Cells(s)[i]]
           t == SetAttrn(s, attr, start, finish)
<1>1. s.chlen \in Nat /\ last \in Int /\ (s.chlen > 0 => last < s.chlen)
  BY DEF StringShape, Clamp
<1>2. PICK m \in Nat : m >= s.chlen /\ Cells(s) \in [0..m -> Cell]
  BY CellsType
<1>3. \A c \in Cell : painted(c) \in Cell /\ painted(c).char = c.char
  BY DEF Cell
<1> HIDE DEF last, painted
<1>4. cells \in [DOMAIN Cells(s) -> Cell]
  BY <1>2, <1>3
<1>5. t = WithCells(s, cells)
  BY DEF SetAttrn, last, painted
<1>6. \A i \in 0..s.chlen : cells[i] = IF start <= i /\ i <= last THEN painted(Cells(s)[i])
                                       ELSE Cells(s)[i]
  <2>1. DOMAIN Cells(s) = 0..m
    BY <1>2
  <2> QED BY <1>1, <1>2, <2>1
<1>7. \A i \in 0..s.chlen : cells[i].char = Cells(s)[i].char
  BY <1>1, <1>2, <1>3, <1>6
<1> HIDE DEF cells, t
<1>9. StringShape(t) /\ Cells(t) = cells /\ t.chlen = s.chlen
  BY <1>4, <1>5, WithCellsShape
<1>10. Filled(t)
  <2>1. s.chlen > 0 => cells[s.chlen] = Cells(s)[s.chlen]
    <3>1. s.chlen \in 0..s.chlen
      BY <1>1
    <3> QED BY <1>1, <1>6, <3>1
  <2>2. WideChars => (Terminates(Cells(s)[s.chlen]) => Terminates(cells[s.chlen]))
    BY <1>1, <1>7 DEF Terminates
  <2> QED BY <1>1, <1>7, <1>9, <2>1, <2>2 DEF Filled
<1>11. Text(t) = Repainted(Text(s), attr, start, finish)
  <2>1. Text(s) = [i \in 1..s.chlen |-> Cells(s)[i - 1]] /\ Text(t) = [i \in 1..s.chlen |-> cells[i - 1]]
    BY <1>9 DEF Text
  <2>2. Len(Text(s)) = s.chlen
    BY <1>1, <2>1
  <2>3. \A i \in 1..s.chlen : cells[i - 1] = IF start < i /\ i <= last + 1
                                             THEN painted(Text(s)[i]) ELSE Text(s)[i]
    BY <1>1, <1>6, <2>1
  <2> QED BY <2>1, <2>2, <2>3 DEF Repainted, Promise!Repainted, Promise!Clamp, Clamp, last, painted
<1> QED BY <1>9, <1>10, <1>11 DEF t

\* A new or pruned string is sound and has no text.
LEMMA EmptyIsSound ==
  StringShape(EmptyString) /\ Filled(EmptyString) /\ EmptyString.chlen = 0 /\ Text(EmptyString) = << >>
<1>1. StringShape(EmptyString)
  BY CellFacts DEF StringShape, EmptyString
<1>2. Filled(EmptyString)
  BY CellFacts DEF Filled, EmptyString, Cells
<1> QED BY <1>1, <1>2 DEF EmptyString, Text

\* The text of a string is a sequence as long as the string.
LEMMA TextLength ==
  ASSUME NEW s, StringShape(s)
  PROVE  Text(s) \in Seq({Cells(s)[i] : i \in 0..(s.chlen - 1)}) /\ Len(Text(s)) = s.chlen
<1>1. s.chlen \in Nat
  BY DEF StringShape
<1>2. Text(s) = [i \in 1..s.chlen |-> Cells(s)[i - 1]]
  BY DEF Text
<1> QED BY <1>1, <1>2

\* What each write does to the text: it replaces it, or comes behind it.
LEMMA WriteReplaces ==
  ASSUME NEW s, StringShape(s), Filled(s), NEW attr \in Attr, NEW data \in Datum
  PROVE  Text(WriteFrom(s, attr, data, 0)) = Styled(attr, data)
<1>1. s.chlen \in Nat /\ Len(data) \in Nat
  BY DEF StringShape, Datum
<1> DEFINE st == Styled(attr, data)
<1>2. DOMAIN st = 1..Len(data) /\ st = [i \in 1..Len(data) |-> st[i]]
  BY DEF Styled, Promise!Styled
<1> HIDE DEF st
<1>3. Text(WriteFrom(s, attr, data, 0))
        = [i \in 1..(0 + Len(data)) |-> IF i <= 0 THEN Text(s)[i] ELSE st[i - 0]]
  BY <1>1, WriteFromRight DEF st
<1>4. \A i \in 1..(0 + Len(data)) : (IF i <= 0 THEN Text(s)[i] ELSE st[i - 0]) = st[i]
  BY <1>1
<1>5. 1..(0 + Len(data)) = 1..Len(data)
  BY <1>1
<1> QED BY <1>2, <1>3, <1>4, <1>5 DEF st

\* What is appended comes behind the text there is.
LEMMA AppendExtends ==
  ASSUME NEW s, StringShape(s), Filled(s), NEW attr \in Attr, NEW data \in Datum
  PROVE  Text(WriteFrom(s, attr, data, s.chlen)) = Text(s) \o Styled(attr, data)
<1> DEFINE st == Styled(attr, data)
           u == Text(s)
           n == s.chlen
<1>1. n \in Nat /\ n <= s.chlen /\ Len(data) \in Nat
  BY DEF StringShape, Datum
<1>2. st \in Seq({st[i] : i \in 1..Len(data)}) /\ Len(st) = Len(data)
  <2>1. st = [i \in 1..Len(data) |-> st[i]]
    BY DEF Styled, Promise!Styled
  <2> QED BY <1>1, <2>1
<1>3. u \in Seq({Cells(s)[i] : i \in 0..(s.chlen - 1)}) /\ Len(u) = n
  BY TextLength
<1> HIDE DEF n
<1>4. Text(WriteFrom(s, attr, data, n))
        = [i \in 1..(n + Len(data)) |-> IF i <= n THEN Text(s)[i] ELSE Styled(attr, data)[i - n]]
  BY <1>1, WriteFromRight
<1> HIDE DEF st, u
<1> DEFINE S == {Cells(s)[i] : i \in 0..(s.chlen - 1)} \cup {st[i] : i \in 1..Len(data)}
<1>5. u \in Seq(S) /\ st \in Seq(S)
  BY <1>2, <1>3, SeqMonotonic
<1> HIDE DEF S
<1>0. Len(u) = n /\ Len(st) = Len(data)
  BY <1>2, <1>3
<1>6. /\ DOMAIN (u \o st) = 1..(n + Len(data))
      /\ \A i \in 1..(n + Len(data)) : (u \o st)[i] = IF i <= n THEN u[i] ELSE st[i - n]
  <2>0. /\ u \o st \in Seq(S) /\ Len(u \o st) = Len(u) + Len(st)
        /\ \A i \in 1..(Len(u) + Len(st)) :
             (u \o st)[i] = IF i <= Len(u) THEN u[i] ELSE st[i - Len(u)]
    BY <1>5, ConcatProperties
  <2>1. Len(u \o st) = n + Len(data) /\ u \o st \in Seq(S)
    BY <1>0, <2>0
  <2>2. \A i \in 1..(n + Len(data)) : (u \o st)[i] = IF i <= n THEN u[i] ELSE st[i - n]
    BY <1>0, <2>0
  <2> QED BY <2>1, <2>2, LenProperties
<1>7. u \o st = [i \in DOMAIN (u \o st) |-> (u \o st)[i]]
  <2>1. u \o st \in Seq(S)
    BY <1>5, ConcatProperties
  <2> QED BY <2>1, LenProperties
<1>8. u \o st = [i \in 1..(n + Len(data)) |-> IF i <= n THEN u[i] ELSE st[i - n]]
  BY <1>6, <1>7
<1> QED BY <1>4, <1>8 DEF st, u, n

-----------------------------------------------------------------------------
(* The specification.                                                      *)

\* The inductive invariant holds at first.
LEMMA InvInit == StringInit => TextInv
BY EmptyIsSound DEF StringInit, TextInv

\* Every operation keeps the inductive invariant.
LEMMA InvNext == TextInv /\ [StringNext]_string => TextInv'
<1> SUFFICES ASSUME TextInv, [StringNext]_string
             PROVE  TextInv'
  OBVIOUS
<1>0. StringShape(string) /\ Filled(string) /\ string.chlen \in Nat /\ string.chlen <= MaxText
  BY DEF TextInv, StringShape
<1>1. ASSUME NEW attr \in Attr, NEW data \in Data, RichString_write(attr, data)
      PROVE  TextInv'
  <2>1. data \in Datum /\ Len(data) \in Nat
    BY DEF Datum
  <2> QED BY <1>0, <1>1, <2>1, WriteFromRight DEF RichString_write, TextInv
<1>2. ASSUME NEW attr \in Attr, NEW data \in Data, RichString_append(attr, data)
      PROVE  TextInv'
  <2>1. data \in Datum /\ Len(data) \in Nat
    BY DEF Datum
  <2> QED BY <1>0, <1>2, <2>1, WriteFromRight DEF RichString_append, TextInv
<1>3. ASSUME NEW attr \in Attr, NEW start \in Nat, NEW finish \in Int,
             RichString_setAttrn(attr, start, finish)
      PROVE  TextInv'
  BY <1>0, <1>3, SetAttrnRight DEF RichString_setAttrn, TextInv
<1>4. ASSUME NEW attr \in Attr, RichString_setAttr(attr)
      PROVE  TextInv'
  BY <1>0, <1>3, <1>4 DEF RichString_setAttr
<1>5. CASE RichString_prune
  BY <1>5, EmptyIsSound DEF RichString_prune, TextInv
<1>6. CASE UNCHANGED string
  BY <1>0, <1>6 DEF TextInv
<1>7. 0..MaxText \subseteq Nat /\ -1..MaxText \subseteq Int
  OBVIOUS
<1> QED BY <1>1, <1>2, <1>3, <1>4, <1>5, <1>6, <1>7 DEF StringNext

\* The inductive invariant is what StringIsSound says, and more.
LEMMA InvSound == TextInv => StringIsSound
<1> SUFFICES ASSUME TextInv PROVE StringIsSound
  OBVIOUS
<1>0. StringShape(string) /\ Filled(string) /\ string.chlen \in Nat
  BY DEF TextInv, StringShape
<1>1. string.chlen > MaxLen => string.heap # NoHeap
  <2> SUFFICES ASSUME string.chlen > MaxLen PROVE string.heap # NoHeap
    OBVIOUS
  <2>1. 0 \in DOMAIN string.heap
    BY <1>0 DEF StringShape
  <2>2. 0 \notin DOMAIN NoHeap
    BY DEF NoHeap
  <2> QED BY <2>1, <2>2
<1>2. string.chlen <= MaxLen => string.heap = NoHeap
  BY <1>0 DEF StringShape
<1>3. string.chptr = "heap" <=> string.chlen > MaxLen
  BY <1>0 DEF StringShape
<1>4. string.chlen \in DOMAIN Cells(string)
  <2>1. PICK n \in Nat : n >= string.chlen /\ Cells(string) \in [0..n -> Cell]
    BY <1>0, CellsType
  <2> QED BY <1>0, <2>1
<1>5. \A i \in 0..(string.chlen - 1) : ~Terminates(Cells(string)[i])
  BY <1>0 DEF Filled, Terminates
<1>6. WideChars \/ string.chlen > 0 => Terminates(Cells(string)[string.chlen])
  BY <1>0 DEF Filled
<1> QED BY <1>0, <1>1, <1>2, <1>3, <1>4, <1>5, <1>6 DEF StringIsSound

\* A string has a piece of the heap exactly while it needs one, and its terminator
\* where its text ends, after any sequence of writes and attributes
\* (RichString_extendLen, RichString_writeFrom, RichString_setAttrn).
THEOREM StringStaysSound == StringSpec => []StringIsSound
<1>1. StringSpec => []TextInv
  BY InvInit, InvNext, PTL DEF StringSpec
<1> QED BY <1>1, InvSound, PTL

\* A new string is an empty text.
LEMMA TextStarts == StringInit => Promise!TextInit
BY EmptyIsSound DEF StringInit, Promise!TextInit

\* Every operation on a string is one on its text.
LEMMA TextSteps == TextInv /\ [StringNext]_string => [Promise!TextNext]_(Text(string))
<1> SUFFICES ASSUME TextInv, [StringNext]_string
             PROVE  Promise!TextNext \/ UNCHANGED Text(string)
  OBVIOUS
<1>0. StringShape(string) /\ Filled(string) /\ string.chlen \in Nat /\ string.chlen <= MaxText
  BY DEF TextInv, StringShape
<1>1. ASSUME NEW attr \in Attr, NEW data \in Data, RichString_write(attr, data)
      PROVE  Promise!WriteText(attr, data)
  <2>1. data \in Datum
    BY DEF Datum
  <2>2. Text(string') = Styled(attr, data)
    BY <1>0, <1>1, <2>1, WriteReplaces DEF RichString_write
  <2> QED BY <1>1, <2>2 DEF RichString_write, Promise!WriteText, Styled
<1>2. ASSUME NEW attr \in Attr, NEW data \in Data, RichString_append(attr, data)
      PROVE  Promise!AppendText(attr, data)
  <2>1. data \in Datum
    BY DEF Datum
  <2>2. Text(string') = Text(string) \o Styled(attr, data)
    BY <1>0, <1>2, <2>1, AppendExtends DEF RichString_append
  <2>3. Len(Text(string)) + Len(data) <= MaxText
    BY <1>0, <1>2, TextLength DEF RichString_append
  <2> QED BY <2>2, <2>3 DEF Promise!AppendText, Styled
<1>3. ASSUME NEW attr \in Attr, NEW start \in Nat, NEW finish \in Int,
             RichString_setAttrn(attr, start, finish)
      PROVE  Promise!Repaint(attr, start, finish)
  BY <1>0, <1>3, SetAttrnRight DEF RichString_setAttrn, Promise!Repaint, Repainted
<1>4. ASSUME NEW attr \in Attr, RichString_setAttr(attr)
      PROVE  Promise!Repaint(attr, 0, string.chlen - 1) /\ string.chlen - 1 \in -1..MaxText
  BY <1>0, <1>3, <1>4 DEF RichString_setAttr
<1>5. CASE RichString_prune
  BY <1>5, EmptyIsSound DEF RichString_prune, Promise!TextNext, Promise!Clear
<1>6. CASE UNCHANGED string
  BY <1>6
<1>7. 0..MaxText \subseteq Nat /\ -1..MaxText \subseteq Int /\ 0 \in 0..MaxText
  OBVIOUS
<1> QED BY <1>1, <1>2, <1>3, <1>4, <1>5, <1>6, <1>7 DEF StringNext, Promise!TextNext

\* RichString implements RichText: what is written is what is there, in the object or
\* on the heap, for any sizes (RichString_write, RichString_append, RichString_prune).
THEOREM StringImplementsText == StringSpec => ImplementsText
<1>1. StringSpec => []TextInv
  BY InvInit, InvNext, PTL DEF StringSpec
<1> QED BY <1>1, TextStarts, TextSteps, PTL DEF StringSpec, ImplementsText, Promise!TextSpec
-----------------------------------------------------------------------------
(* The header and the panels below it.                                     *)

(* A meter is as high as its mode makes it, whichever settings it came     *)
(* from and however often it was changed.                                  *)
Fitting ==
  {m \in [type : Types, mode : 1 .. 4, each : 1 .. 4, h : Nat] :
     m.each = m.mode /\ m.h = HeightOf(m.type, m.mode)}

Rect == [x : Int, y : Int, w : Int, h : Int]

(* Panels side by side from the left edge, between the header and the      *)
(* function bar; and up to the right edge.                                 *)
Standing(panels, y, t) ==
  \A i \in 1 .. Len(panels) :
    /\ panels[i].y = y /\ panels[i].y + panels[i].h = t[2] - 2
    /\ panels[i].x = IF i = 1 THEN 0 ELSE panels[i - 1].x + panels[i - 1].w + 1

Filling(panels, y, t) ==
  /\ panels \in Seq(Rect) /\ panels # << >>
  /\ Standing(panels, y, t)
  /\ panels[Len(panels)].x + panels[Len(panels)].w = t[1]

(* What is kept of the header is what its meters and the margin would give *)
(* now; the panels that are not shown stand where the next action counts   *)
(* on finding them.                                                        *)
LayoutInv ==
  /\ term \in Terminals /\ cpus \in CpuCounts /\ margin \in BOOLEAN
  /\ columns \in [1 .. 2 -> Seq(Fitting)]
  /\ headerHeight = Calculated(columns, margin).height
  /\ headerPad = Calculated(columns, margin).pad
  /\ mainPanel \in Rect
  /\ scr \in [y1 : Int, panels : Seq(Rect), page : 0 .. 3, y : Int]
  /\ layer \in {"main", "info"} =>
       /\ mainPanel.x = 0 /\ mainPanel.y = headerHeight
       /\ ~missed => Filling(<<mainPanel>>, headerHeight, term)
  /\ layer = "pick" =>
       /\ scr.y1 = headerHeight /\ scr.y = headerHeight
       /\ Filling(Append(scr.panels, mainPanel), headerHeight, term)
  /\ layer = "setup" => scr.y1 = headerHeight /\ Filling(scr.panels, headerHeight, term)
  /\ layer \in {"main", "info", "pick", "setup"}

LEMMA NextXIs ==
  ASSUME NEW panels \in Seq(Rect)
  PROVE  /\ NextX(panels) \in Int
         /\ panels # << >> =>
              NextX(panels) = panels[Len(panels)].x + panels[Len(panels)].w + 1
<1>1. panels # << >> => panels[Len(panels)] \in Rect
  OBVIOUS
<1>2. \A r \in Rect : r.x \in Int /\ r.w \in Int
  BY DEF Rect
<1>3. CASE panels = << >>
  BY <1>3 DEF NextX
<1>4. CASE panels # << >>
  <2>1. NextX(panels) = panels[Len(panels)].x + panels[Len(panels)].w + 1
    BY <1>4 DEF NextX, Last
  <2>2. panels[Len(panels)].x \in Int /\ panels[Len(panels)].w \in Int
    BY <1>1, <1>2, <1>4
  <2> QED
    BY <1>4, <2>1, <2>2
<1> QED
  BY <1>3, <1>4

\* A panel that is put behind others stands beside them.
LEMMA OneMoreStands ==
  ASSUME NEW panels \in Seq(Rect), NEW y \in Int, NEW t \in Nat \X Nat, NEW w \in Int,
         Standing(panels, y, t)
  PROVE  LET more == Append(panels, PanelAt(NextX(panels), y, w, t[2] - y - 1))
         IN  /\ more \in Seq(Rect) /\ more # << >> /\ Len(more) = Len(panels) + 1
             /\ Standing(more, y, t)
             /\ w = t[1] - NextX(panels) => more[Len(more)].x + more[Len(more)].w = t[1]
<1> DEFINE p == PanelAt(NextX(panels), y, w, t[2] - y - 1)
           more == Append(panels, p)
           n == Len(panels)
<1>1. NextX(panels) \in Int /\ t[1] \in Nat /\ t[2] \in Nat /\ t[2] - y - 1 \in Int /\ n \in Nat
  BY NextXIs
<1>2. /\ p \in Rect /\ p.x = NextX(panels) /\ p.y = y /\ p.w = w /\ p.h = t[2] - y - 1 - 1
  BY <1>1 DEF PanelAt, Rect
<1> HIDE DEF p
<1>3. /\ more \in Seq(Rect) /\ Len(more) = n + 1 /\ more[n + 1] = p
      /\ \A i \in 1 .. n : more[i] = panels[i]
  BY <1>1, <1>2
<1>4. more # << >>
  BY <1>1, <1>3
<1> HIDE DEF more
<1>5. ASSUME NEW i \in 1 .. n + 1
      PROVE  /\ more[i].y = y /\ more[i].y + more[i].h = t[2] - 2
             /\ more[i].x = IF i = 1 THEN 0 ELSE more[i - 1].x + more[i - 1].w + 1
  <2>1. CASE i = n + 1
    <3>1. more[i].y = y /\ more[i].y + more[i].h = t[2] - 2
      BY <1>1, <1>2, <1>3, <2>1
    <3>2. CASE n = 0
      <4>1. panels = << >>
        BY <3>2
      <4> QED
        BY <1>2, <1>3, <2>1, <3>1, <3>2, <4>1 DEF NextX
    <3>3. CASE n # 0
      <4>1. panels # << >> /\ i - 1 \in 1 .. n /\ i # 1 /\ i - 1 = n
        BY <1>1, <2>1, <3>3
      <4>2. more[i - 1] = panels[n]
        BY <1>3, <4>1
      <4>3. NextX(panels) = panels[n].x + panels[n].w + 1
        BY <4>1, NextXIs
      <4> QED
        BY <1>2, <1>3, <2>1, <3>1, <4>1, <4>2, <4>3
    <3> QED
      BY <3>2, <3>3
  <2>2. CASE i # n + 1
    <3>1. i \in 1 .. n /\ (i # 1 => i - 1 \in 1 .. n)
      BY <1>1, <2>2
    <3>2. more[i] = panels[i] /\ (i # 1 => more[i - 1] = panels[i - 1])
      BY <1>3, <3>1
    <3> QED
      BY <3>1, <3>2 DEF Standing
  <2> QED
    BY <2>1, <2>2
<1>6. Standing(more, y, t)
  BY <1>3, <1>5 DEF Standing
<1>7. w = t[1] - NextX(panels) => more[n + 1].x + more[n + 1].w = t[1]
  BY <1>1, <1>2, <1>3
<1> QED
  BY <1>3, <1>4, <1>6, <1>7 DEF more, p

LEMMA NoneStand ==
  ASSUME NEW y, NEW t
  PROVE  << >> \in Seq(Rect) /\ Standing(<< >>, y, t)
BY DEF Standing

\* ScreenManager_resize.
LEMMA ArrangedFills ==
  ASSUME NEW panels \in Seq(Rect), panels # << >>, NEW y \in Int, NEW t \in Nat \X Nat
  PROVE  Filling(Arranged(panels, y, t), y, t) /\ Len(Arranged(panels, y, t)) = Len(panels)
<1> DEFINE n == Len(panels)
           W(k, done) == IF k < n THEN panels[k].w ELSE t[1] - NextX(done)
           With(k, done) == Append(done, PanelAt(NextX(done), y, W(k, done), t[2] - y - 1))
           F == [k \in 1 .. n |-> [done \in Seq(Rect) |-> With(k, done)]]
           Eq(g) == g = [k \in 0 .. n |-> IF k = 0 THEN << >> ELSE With(k, g[k - 1])]
           cur == CHOOSE g : Eq(g)
<1>1. n \in Nat /\ n # 0 /\ n \in 1 .. n
  OBVIOUS
<1>2. ASSUME NEW k \in 1 .. n, NEW done \in Seq(Rect) PROVE W(k, done) \in Int
  <2>1. panels[k] \in Rect
    BY <1>1
  <2>2. panels[k].w \in Int
    BY <2>1 DEF Rect
  <2>3. NextX(done) \in Int /\ t[1] \in Nat
    BY NextXIs
  <2> QED
    BY <2>2, <2>3
<1> HIDE DEF W
<1>3. ASSUME NEW k \in 1 .. n, NEW done \in Seq(Rect)
      PROVE  /\ With(k, done) \in Seq(Rect)
             /\ Standing(done, y, t) =>
                  /\ With(k, done) # << >> /\ Len(With(k, done)) = Len(done) + 1
                  /\ Standing(With(k, done), y, t)
                  /\ W(k, done) = t[1] - NextX(done) =>
                       With(k, done)[Len(With(k, done))].x + With(k, done)[Len(With(k, done))].w = t[1]
  <2>1. NextX(done) \in Int /\ t[2] \in Nat /\ t[2] - y - 1 \in Int /\ W(k, done) \in Int
    BY <1>2, NextXIs
  <2>2. PanelAt(NextX(done), y, W(k, done), t[2] - y - 1) \in Rect
    BY <2>1 DEF PanelAt, Rect
  <2>3. With(k, done) \in Seq(Rect)
    BY <2>2
  <2>4. ASSUME NEW v \in Int, Standing(done, y, t)
        PROVE  LET more == Append(done, PanelAt(NextX(done), y, v, t[2] - y - 1))
               IN  /\ more # << >> /\ Len(more) = Len(done) + 1
                   /\ Standing(more, y, t)
                   /\ v = t[1] - NextX(done) => more[Len(more)].x + more[Len(more)].w = t[1]
    BY <2>4, OneMoreStands
  <2> QED
    BY <2>1, <2>3, <2>4, Zenon
<1>4. PICK f : IsLoop(f, << >>, F, Seq(Rect), n)
  <2>1. F \in [1 .. n -> [Seq(Rect) -> Seq(Rect)]]
    <3>1. \A k \in 1 .. n : [done \in Seq(Rect) |-> With(k, done)] \in [Seq(Rect) -> Seq(Rect)]
      <4> HIDE DEF With
      <4> QED
        BY <1>3
    <3> HIDE DEF With
    <3> QED
      BY <3>1
  <2>2. << >> \in Seq(Rect)
    OBVIOUS
  <2> HIDE DEF F, With
  <2> QED
    BY <1>1, <2>1, <2>2, LoopRuns
<1>5. Eq(f)
  <2>1. f \in [0 .. n -> Seq(Rect)] /\ f[0] = << >> /\ \A k \in 1 .. n : f[k] = F[k][f[k - 1]]
    BY <1>4 DEF IsLoop
  <2>2. \A k \in 0 .. n : f[k] = IF k = 0 THEN << >> ELSE With(k, f[k - 1])
    <3> TAKE k \in 0 .. n
    <3>1. CASE k = 0
      BY <2>1, <3>1
    <3>2. CASE k # 0
      <4>1. k \in 1 .. n /\ k - 1 \in 0 .. n
        BY <1>1, <3>2
      <4>2. f[k - 1] \in Seq(Rect)
        BY <2>1, <4>1
      <4> HIDE DEF With
      <4> QED
        BY <2>1, <3>2, <4>1, <4>2
    <3> QED
      BY <3>1, <3>2
  <2> HIDE DEF With
  <2> QED
    BY <2>1, <2>2
<1>6. Eq(cur)
  <2> HIDE DEF Eq
  <2> QED
    BY <1>5, Zenon
<1>7. Arranged(panels, y, t) = cur[n]
  BY Zenon DEF Arranged, W
<1> HIDE DEF cur
<1>8. cur[0] = << >> /\ \A k \in 1 .. n : cur[k] = With(k, cur[k - 1])
  <2> HIDE DEF With
  <2>1. \A k \in 0 .. n : cur[k] = IF k = 0 THEN << >> ELSE With(k, cur[k - 1])
    BY <1>6
  <2> QED
    BY <1>1, <2>1
<1> DEFINE Right(k, s) == /\ s \in Seq(Rect) /\ Len(s) = k /\ Standing(s, y, t)
                          /\ k = n => s # << >> /\ s[Len(s)].x + s[Len(s)].w = t[1]
           P == {k \in 0 .. n : Right(k, cur[k])}
<1>9. 0 \in P
  <2>1. Right(0, << >>)
    BY <1>1, NoneStand
  <2> HIDE DEF Right
  <2> QED
    BY <1>1, <1>8, <2>1
<1>10. ASSUME NEW k \in 1 .. n, k - 1 \in P PROVE k \in P
  <2> DEFINE done == cur[k - 1]
  <2>1. done \in Seq(Rect) /\ Len(done) = k - 1 /\ Standing(done, y, t)
    BY <1>10
  <2>2. cur[k] = With(k, done)
    BY <1>8
  <2>3. k = n => W(k, done) = t[1] - NextX(done)
    BY DEF W
  <2> HIDE DEF done, With
  <2>4. Right(k, cur[k])
    BY <1>1, <1>3, <2>1, <2>2, <2>3
  <2> HIDE DEF Right
  <2> QED
    BY <1>1, <2>4
<1>11. n \in P
  <2> HIDE DEF P
  <2>1. n \in 0 .. n
    BY <1>1
  <2> QED
    BY <1>1, <1>9, <1>10, <2>1, EachTurn
<1> QED
  BY <1>1, <1>7, <1>11 DEF Filling

\* ScreenManager_add.
LEMMA BesideStands ==
  ASSUME NEW panels \in Seq(Rect), NEW y \in Int, NEW size \in Int,
         term \in Nat \X Nat, Standing(panels, y, term)
  PROVE  LET more == Beside(panels, y, size)
         IN  /\ more \in Seq(Rect) /\ more # << >> /\ Len(more) = Len(panels) + 1
             /\ Standing(more, y, term)
             /\ size = -1 => more[Len(more)].x + more[Len(more)].w = term[1]
<1> DEFINE w == IF size > 0 THEN size ELSE term[1] - NextX(panels)
           more == Append(panels, PanelAt(NextX(panels), y, w, term[2] - y - 1))
<1>1. w \in Int /\ (size = -1 => w = term[1] - NextX(panels))
  BY NextXIs
<1> HIDE DEF w
<1>2. /\ more \in Seq(Rect) /\ more # << >> /\ Len(more) = Len(panels) + 1
      /\ Standing(more, y, term)
      /\ w = term[1] - NextX(panels) => more[Len(more)].x + more[Len(more)].w = term[1]
  BY <1>1, OneMoreStands
<1> HIDE DEF more
<1>3. Beside(panels, y, size) = more
  BY DEF Beside, more, w
<1> QED
  BY <1>1, <1>2, <1>3

LEMMA PageFacts ==
  ASSUME NEW page \in 0 .. 3
  PROVE  /\ Len(PageWidths[page + 1]) \in 1 .. 3
         /\ \A k \in 1 .. Len(PageWidths[page + 1]) : PageWidths[page + 1][k] \in Int
         /\ PageWidths[page + 1][Len(PageWidths[page + 1])] = -1
<1>1. page = 0 \/ page = 1 \/ page = 2 \/ page = 3
  OBVIOUS
<1>2. CASE page = 0
  BY <1>2 DEF PageWidths
<1>3. CASE page = 1
  BY <1>3 DEF PageWidths
<1>4. CASE page = 2
  BY <1>4 DEF PageWidths
<1>5. CASE page = 3
  BY <1>5 DEF PageWidths
<1> QED
  BY <1>1, <1>2, <1>3, <1>4, <1>5

\* CategoriesPanel_eventHandler.
LEMMA PageFills ==
  ASSUME NEW panels \in Seq(Rect), NEW y \in Int, NEW page \in 0 .. 3,
         term \in Nat \X Nat, Standing(panels, y, term)
  PROVE  Filling(WithPage(panels, y, page), y, term)
<1> DEFINE sizes == PageWidths[page + 1]
           n == Len(sizes)
           F == [k \in 1 .. n |-> [done \in Seq(Rect) |-> Beside(done, y, sizes[k])]]
           Eq(g) == g = [k \in 0 .. n |-> IF k = 0 THEN panels ELSE Beside(g[k - 1], y, sizes[k])]
           cur == CHOOSE g : Eq(g)
<1>1. n \in 1 .. 3 /\ (\A k \in 1 .. n : sizes[k] \in Int) /\ sizes[n] = -1
  BY PageFacts
<1>2. WithPage(panels, y, page) = cur[n]
  BY DEF WithPage
<1> HIDE DEF sizes
<1>3. n \in Nat /\ n # 0 /\ n \in 1 .. n /\ n \in 0 .. n
  <2>1. \A m \in 1 .. 3 : m \in Nat /\ m # 0 /\ m \in 1 .. m /\ m \in 0 .. m
    OBVIOUS
  <2> QED
    BY <1>1, <2>1, Zenon
<1>4. \A k \in 1 .. n : \A done \in Seq(Rect) : Beside(done, y, sizes[k]) \in Seq(Rect)
  <2> TAKE k \in 1 .. n
  <2> TAKE done \in Seq(Rect)
  <2>1. term[1] \in Nat /\ term[2] \in Nat /\ sizes[k] \in Int /\ NextX(done) \in Int
    BY <1>1, NextXIs
  <2> DEFINE w == IF sizes[k] > 0 THEN sizes[k] ELSE term[1] - NextX(done)
  <2>2. w \in Int
    BY <2>1
  <2> HIDE DEF w
  <2>3. PanelAt(NextX(done), y, w, term[2] - y - 1) \in Rect
    BY <2>1, <2>2 DEF PanelAt, Rect
  <2>4. Append(done, PanelAt(NextX(done), y, w, term[2] - y - 1)) \in Seq(Rect)
    BY <2>3
  <2> QED
    BY <2>4 DEF Beside, w
<1>5. PICK f : IsLoop(f, panels, F, Seq(Rect), n)
  <2>1. \A k \in 1 .. n : [done \in Seq(Rect) |-> Beside(done, y, sizes[k])] \in [Seq(Rect) -> Seq(Rect)]
    BY <1>4
  <2>2. F \in [1 .. n -> [Seq(Rect) -> Seq(Rect)]]
    BY <2>1
  <2> HIDE DEF F
  <2> QED
    BY <1>3, <2>2, LoopRuns
<1>6. Eq(f)
  <2>1. f \in [0 .. n -> Seq(Rect)] /\ f[0] = panels /\ \A k \in 1 .. n : f[k] = F[k][f[k - 1]]
    BY <1>5 DEF IsLoop
  <2>2. \A k \in 0 .. n : f[k] = IF k = 0 THEN panels ELSE Beside(f[k - 1], y, sizes[k])
    <3> TAKE k \in 0 .. n
    <3>1. CASE k = 0
      BY <2>1, <3>1
    <3>2. CASE k # 0
      <4>1. k \in 1 .. n /\ k - 1 \in 0 .. n
        BY <1>3, <3>2
      <4>2. f[k - 1] \in Seq(Rect)
        BY <2>1, <4>1
      <4> QED
        BY <2>1, <3>2, <4>1, <4>2
    <3> QED
      BY <3>1, <3>2
  <2> QED
    BY <2>1, <2>2
<1>7. Eq(cur)
  <2> HIDE DEF Eq
  <2> QED
    BY <1>6, Zenon
<1> HIDE DEF cur
<1>8. cur[0] = panels /\ \A k \in 1 .. n : cur[k] = Beside(cur[k - 1], y, sizes[k])
  <2>1. \A k \in 0 .. n : cur[k] = IF k = 0 THEN panels ELSE Beside(cur[k - 1], y, sizes[k])
    BY <1>7
  <2> QED
    BY <1>3, <2>1
<1> DEFINE Right(k, s) == /\ s \in Seq(Rect) /\ Standing(s, y, term)
                          /\ k = n => s # << >> /\ s[Len(s)].x + s[Len(s)].w = term[1]
           P == {k \in 0 .. n : Right(k, cur[k])}
<1>9. 0 \in P
  BY <1>3, <1>8
<1>10. ASSUME NEW k \in 1 .. n, k - 1 \in P PROVE k \in P
  <2> DEFINE done == cur[k - 1]
  <2>1. done \in Seq(Rect) /\ Standing(done, y, term)
    BY <1>10
  <2>2. cur[k] = Beside(done, y, sizes[k]) /\ sizes[k] \in Int /\ (k = n => sizes[k] = -1)
    BY <1>1, <1>8
  <2> HIDE DEF done
  <2>3. Right(k, cur[k])
    BY <2>1, <2>2, BesideStands
  <2> HIDE DEF Right
  <2> QED
    BY <1>3, <2>3
<1>11. n \in P
  <2> HIDE DEF P
  <2> QED
    BY <1>3, <1>9, <1>10, EachTurn
<1> QED
  BY <1>2, <1>3, <1>11 DEF Filling

LEMMA HeightsAddUp ==
  ASSUME NEW meters \in Seq(Fitting)
  PROVE  /\ \A n \in 0 .. Len(meters) : HeightOfFirst(meters, n) \in Nat
         /\ \A i \in 1 .. Len(meters) :
              /\ meters[i] \in Fitting
              /\ HeightOfFirst(meters, i) = HeightOfFirst(meters, i - 1) + meters[i].h
         /\ \A j \in 0 .. Len(meters) : \A i \in 0 .. j : HeightOfFirst(meters, i) <= HeightOfFirst(meters, j)
<1> DEFINE a == [i \in DOMAIN meters |-> meters[i].h]
           n == Len(meters)
<1>1. n \in Nat /\ \A i \in 1 .. n : meters[i] \in Fitting
  OBVIOUS
<1>2. \A m \in Fitting : m.h \in Nat
  BY DEF Fitting
<1>3. \A i \in 1 .. n : a[i] = meters[i].h /\ a[i] \in Nat
  BY <1>1, <1>2
<1>4. \A k \in 0 .. n : HeightOfFirst(meters, k) = SumTo(a, k)
  BY Zenon DEF HeightOfFirst
<1> HIDE DEF a
<1>5. /\ SumTo(a, 0) = 0 /\ \A k \in 0 .. n : SumTo(a, k) \in Int
      /\ \A k \in 1 .. n : SumTo(a, k) = SumTo(a, k - 1) + a[k]
  <2>1. \A k \in 1 .. n : a[k] \in Int
    BY <1>3
  <2> QED
    BY <1>1, <2>1, PartialSums
<1>6. \A j \in 0 .. n : \A i \in 0 .. j : SumTo(a, i) <= SumTo(a, j)
  BY <1>1, <1>3, PartialSumsGrow
<1>7. \A k \in 0 .. n : SumTo(a, k) \in Nat
  <2> TAKE k \in 0 .. n
  <2>1. 0 \in 0 .. k
    OBVIOUS
  <2>2. SumTo(a, 0) <= SumTo(a, k) /\ SumTo(a, k) \in Int
    BY <1>5, <1>6, <2>1
  <2> QED
    BY <1>5, <2>2
<1>8. \A j \in 0 .. n : \A i \in 0 .. j : i \in 0 .. n
  BY <1>1
<1>9. \A i \in 1 .. n : i \in 0 .. n /\ i - 1 \in 0 .. n
  BY <1>1
<1> QED
  BY <1>1, <1>3, <1>4, <1>5, <1>6, <1>7, <1>8, <1>9

LEMMA CalculatedIs ==
  ASSUME NEW cols \in [1 .. 2 -> Seq(Fitting)], NEW wide \in BOOLEAN
  PROVE  /\ Calculated(cols, wide).pad = IF wide THEN 2 ELSE 0
         /\ Calculated(cols, wide).height \in Nat
         /\ \A c \in 1 .. 2 : (IF wide THEN 2 ELSE 0) + HeightOfFirst(cols[c], Len(cols[c]))
                               <= Calculated(cols, wide).height
<1> DEFINE pad == IF wide THEN 2 ELSE 0
           H(c) == pad + HeightOfFirst(cols[c], Len(cols[c]))
           heights == {pad} \cup {H(c) : c \in 1 .. 2}
           top == CHOOSE h \in heights : \A k \in heights : h >= k
<1>1. Calculated(cols, wide) = [height |-> top, pad |-> pad]
  BY DEF Calculated
<1>2. pad \in Nat /\ \A c \in 1 .. 2 : H(c) \in Nat
  <2>1. \A c \in 1 .. 2 : cols[c] \in Seq(Fitting) /\ Len(cols[c]) \in 0 .. Len(cols[c])
    OBVIOUS
  <2>2. \A c \in 1 .. 2 : HeightOfFirst(cols[c], Len(cols[c])) \in Nat
    BY <2>1, HeightsAddUp
  <2> QED
    BY <2>2
<1>3. heights = {pad, H(1), H(2)}
  <2>1. 1 .. 2 = {1, 2}
    OBVIOUS
  <2> HIDE DEF H, pad
  <2> QED
    BY <2>1
<1> HIDE DEF H, pad
<1>4. \E h \in heights : \A k \in heights : h >= k
  <2>1. pad \in Nat /\ H(1) \in Nat /\ H(2) \in Nat
    BY <1>2
  <2>2. CASE H(1) >= H(2) /\ H(1) >= pad
    BY <1>3, <2>1, <2>2
  <2>3. CASE H(2) >= H(1) /\ H(2) >= pad
    BY <1>3, <2>1, <2>3
  <2>4. CASE pad >= H(1) /\ pad >= H(2)
    BY <1>3, <2>1, <2>4
  <2> QED
    BY <2>1, <2>2, <2>3, <2>4
<1>5. top \in heights /\ \A k \in heights : top >= k
  BY <1>4
<1> HIDE DEF top
<1>6. \A c \in 1 .. 2 : H(c) \in heights
  OBVIOUS
<1>7. heights \subseteq Nat
  BY <1>2
<1> HIDE DEF heights
<1>8. top \in Nat /\ \A c \in 1 .. 2 : H(c) <= top
  BY <1>2, <1>5, <1>6, <1>7
<1> QED
  BY <1>1, <1>8 DEF H, pad

(* Where a meter draws.                                                    *)

\* What holds of the rectangles of one meter that is given the columns from x on, w of
\* them, and the lines from y on: they have their places there, one each, and show CPUs
\* that differ.
Inside(S, meter, x, y, w) ==
  /\ \A r \in S :
       /\ r \in [x : Int, y : Int, w : Int, h : Nat \ {0}, cpu : Nat]
       /\ x <= r.x /\ r.x < x + w + (IF margin THEN 2 ELSE 0) /\ r.x + r.w <= x + w
       /\ y <= r.y /\ r.y + r.h <= y + meter.h
  /\ \A r, s \in S : r # s => Apart(r, s) /\ r.cpu # s.cpu

LEMMA Heights == \A m \in 1 .. 4 : ModeHeight[m] \in {1, 3, 4}
BY DEF ModeHeight

\* Things of one height above each other.
LEMMA Stacked ==
  ASSUME NEW h \in {1, 3, 4}, NEW i \in Nat, NEW j \in Nat, i < j
  PROVE  i * h \in Nat /\ j * h \in Nat /\ h * j \in Nat /\ h * j = j * h /\ i * h + h <= j * h
<1>1. CASE h = 1
  BY <1>1
<1>2. CASE h = 3
  BY <1>2
<1>3. CASE h = 4
  BY <1>3
<1> QED
  BY <1>1, <1>2, <1>3

LEMMA RangeIs ==
  ASSUME NEW type, NEW n \in Nat
  PROVE  /\ CpuRange(type, n).start \in Nat /\ CpuRange(type, n).count \in Nat
         /\ type \in AllOfThem => CpuRange(type, n).start = 0 /\ CpuRange(type, n).count = n
         /\ type \in LeftHalf => CpuRange(type, n).start = 0 /\ CpuRange(type, n).count = (n + 1) \div 2
         /\ type \in RightHalf => CpuRange(type, n).start = (n + 1) \div 2 /\ CpuRange(type, n).count = n \div 2
<1>1. CASE type \in AllOfThem
  BY <1>1 DEF CpuRange, AllOfThem, LeftHalf, RightHalf
<1>2. CASE type \in LeftHalf
  BY <1>2 DEF CpuRange, AllOfThem, LeftHalf, RightHalf
<1>3. CASE type \in RightHalf
  BY <1>3 DEF CpuRange, AllOfThem, LeftHalf, RightHalf
<1>4. CASE type \notin AllOfThem \cup LeftHalf \cup RightHalf
  BY <1>4 DEF CpuRange, AllOfThem, LeftHalf, RightHalf
<1> QED
  BY <1>1, <1>2, <1>3, <1>4

LEMMA FittingIs ==
  ASSUME NEW meter \in Fitting
  PROVE  meter.each \in 1 .. 4 /\ meter.h = HeightOf(meter.type, meter.each)
BY DEF Fitting

\* The range of a meter, and its height.
LEMMA MeterFacts ==
  ASSUME NEW meter \in Fitting, cpus \in Nat
  PROVE  /\ CpuRange(meter.type, cpus).start \in Nat /\ CpuRange(meter.type, cpus).count \in Nat
         /\ ModeHeight[meter.each] \in {1, 3, 4}
         /\ meter.h = CASE meter.type = "single" -> ModeHeight[meter.each]
                       [] meter.type \in InTwoColumns ->
                            ModeHeight[meter.each] * ((CpuRange(meter.type, cpus).count + 1) \div 2)
                       [] OTHER -> ModeHeight[meter.each] * CpuRange(meter.type, cpus).count
<1>1. meter.each \in 1 .. 4 /\ meter.h = HeightOf(meter.type, meter.each)
  BY FittingIs
<1> QED
  BY <1>1, Heights, RangeIs DEF HeightOf

LEMMA SingleInside ==
  ASSUME NEW meter \in Fitting, cpus \in Nat, margin \in BOOLEAN, meter.type = "single",
         NEW x \in Int, NEW y \in Int, NEW w \in Nat \ {0}
  PROVE  Inside(Single(meter, x, y, w), meter, x, y, w)
<1> DEFINE h == ModeHeight[meter.each]
           place == [x |-> x, y |-> y, w |-> w, h |-> h, cpu |-> 0]
<1>1. h \in {1, 3, 4} /\ meter.h = h
  <2>1. meter.each \in 1 .. 4 /\ meter.h = HeightOf(meter.type, meter.each)
    BY FittingIs, Zenon
  <2>2. ModeHeight[meter.each] \in {1, 3, 4}
    BY <2>1, Heights
  <2>3. HeightOf("single", meter.each) = ModeHeight[meter.each]
    BY DEF HeightOf, InTwoColumns
  <2> QED
    BY <2>1, <2>2, <2>3
<1>2. Single(meter, x, y, w) = {place}
  BY DEF Single
<1> HIDE DEF h
<1>3. place \in [x : Int, y : Int, w : Int, h : Nat \ {0}, cpu : Nat]
  BY <1>1
<1>4. place.x = x /\ place.y = y /\ place.w = w /\ place.h = h
  OBVIOUS
<1> HIDE DEF place
<1>5. /\ x <= place.x /\ place.x < x + w + (IF margin THEN 2 ELSE 0) /\ place.x + place.w <= x + w
      /\ y <= place.y /\ place.y + place.h <= y + meter.h
  <2>1. x <= x /\ x < x + w + (IF margin THEN 2 ELSE 0) /\ x + w <= x + w /\ y <= y /\ y + h <= y + h
    BY <1>1
  <2> QED
    BY <1>1, <1>4, <2>1
<1> DEFINE S == Single(meter, x, y, w)
<1>6. /\ \A r \in S : r = place
      /\ \A r \in S : \A q \in S : r = q
  BY <1>2
<1> HIDE DEF S
<1>7. /\ \A r \in S : /\ r \in [x : Int, y : Int, w : Int, h : Nat \ {0}, cpu : Nat]
                     /\ x <= r.x /\ r.x < x + w + (IF margin THEN 2 ELSE 0) /\ r.x + r.w <= x + w
                     /\ y <= r.y /\ r.y + r.h <= y + meter.h
      /\ \A r, q \in S : r # q => Apart(r, q) /\ r.cpu # q.cpu
  BY <1>3, <1>5, <1>6, Zenon
<1> QED
  BY <1>7, Zenon DEF Inside, S

\* SingleColCPUsMeter_draw.
LEMMA OneColumnInside ==
  ASSUME NEW meter \in Fitting, cpus \in Nat, margin \in BOOLEAN,
         meter.type # "single", meter.type \notin InTwoColumns,
         NEW x \in Int, NEW y \in Int, NEW w \in Nat \ {0}
  PROVE  Inside(OneColumn(meter, x, y, w), meter, x, y, w)
<1> DEFINE range == CpuRange(meter.type, cpus)
           h == ModeHeight[meter.each]
           R(i) == [x |-> x, y |-> y + i * h, w |-> w, h |-> h, cpu |-> range.start + i + 1]
<1>1. h \in {1, 3, 4} /\ range.start \in Nat /\ range.count \in Nat /\ meter.h = h * range.count
  BY MeterFacts
<1>2. OneColumn(meter, x, y, w) = {R(i) : i \in 0 .. range.count - 1}
  BY DEF OneColumn
<1> HIDE DEF h, range
<1>3. ASSUME NEW i \in 0 .. range.count - 1
      PROVE  /\ R(i) \in [x : Int, y : Int, w : Int, h : Nat \ {0}, cpu : Nat]
             /\ x <= R(i).x /\ R(i).x < x + w + (IF margin THEN 2 ELSE 0) /\ R(i).x + R(i).w <= x + w
             /\ y <= R(i).y /\ R(i).y + R(i).h <= y + meter.h
  <2>1. i \in Nat /\ i < range.count
    BY <1>1
  <2>2. i * h \in Nat /\ h * range.count \in Nat /\ i * h + h <= h * range.count
    BY <1>1, <2>1, Stacked
  <2> DEFINE above == i * h
             all == h * range.count
  <2>3. above \in Nat /\ all \in Nat /\ above + h <= all /\ meter.h = all
    BY <1>1, <2>2
  <2>4. R(i) = [x |-> x, y |-> y + above, w |-> w, h |-> h, cpu |-> range.start + i + 1]
    OBVIOUS
  <2> HIDE DEF above, all, R
  <2>5. y + above \in Int /\ h \in Nat \ {0} /\ range.start + i + 1 \in Nat
    BY <1>1, <2>1, <2>3
  <2>6. R(i) \in [x : Int, y : Int, w : Int, h : Nat \ {0}, cpu : Nat]
    BY <2>4, <2>5
  <2>7. R(i).x = x /\ R(i).y = y + above /\ R(i).w = w /\ R(i).h = h
    BY <2>4
  <2>8. /\ x <= x /\ x < x + w + (IF margin THEN 2 ELSE 0) /\ x + w <= x + w
        /\ y <= y + above /\ y + above + h <= y + all
    BY <1>1, <2>3
  <2> QED
    BY <2>3, <2>6, <2>7, <2>8
<1>4. ASSUME NEW i \in 0 .. range.count - 1, NEW j \in 0 .. range.count - 1, i < j
      PROVE  Apart(R(i), R(j)) /\ Apart(R(j), R(i)) /\ R(i).cpu # R(j).cpu
  <2>1. i * h \in Nat /\ j * h \in Nat /\ i * h + h <= j * h
    BY <1>1, <1>4, Stacked
  <2>2. R(i).y + R(i).h <= R(j).y
    BY <1>1, <2>1
  <2>3. R(i).cpu # R(j).cpu
    BY <1>1, <1>4
  <2> QED
    BY <2>2, <2>3 DEF Apart
<1>5. ASSUME NEW i \in 0 .. range.count - 1, NEW j \in 0 .. range.count - 1, R(i) # R(j)
      PROVE  Apart(R(i), R(j)) /\ R(i).cpu # R(j).cpu
  <2> HIDE DEF R
  <2>1. i # j
    BY <1>5
  <2>2. i < j \/ j < i
    BY <2>1
  <2> QED
    BY <1>4, <2>2
<1> HIDE DEF R
<1>6. \A r \in OneColumn(meter, x, y, w) : \E i \in 0 .. range.count - 1 : r = R(i)
  BY <1>2
<1>7. \A r \in OneColumn(meter, x, y, w) :
        /\ r \in [x : Int, y : Int, w : Int, h : Nat \ {0}, cpu : Nat]
        /\ x <= r.x /\ r.x < x + w + (IF margin THEN 2 ELSE 0) /\ r.x + r.w <= x + w
        /\ y <= r.y /\ r.y + r.h <= y + meter.h
  BY <1>3, <1>6
<1>8. \A r, s \in OneColumn(meter, x, y, w) : r # s => Apart(r, s) /\ r.cpu # s.cpu
  BY <1>5, <1>6
<1> QED
  BY <1>7, <1>8, Zenon DEF Inside

\* DualColCPUsMeter_draw.
LEMMA TwoColumnsInside ==
  ASSUME NEW meter \in Fitting, cpus \in Nat, margin \in BOOLEAN,
         meter.type # "single", meter.type \in InTwoColumns,
         NEW x \in Int, NEW y \in Int, NEW w \in Nat \ {0}, ~margin => w > 1
  PROVE  Inside(TwoColumns(meter, x, y, w), meter, x, y, w)
<1> DEFINE range == CpuRange(meter.type, cpus)
           pad == IF margin THEN 2 ELSE 0
           rows == (range.count + 1) \div 2
           h == ModeHeight[meter.each]
           X(i) == IF i < rows THEN x ELSE x + (w - 1) \div 2 + 1 + pad \div 2
           Row(i) == IF i < rows THEN i ELSE i - rows
           R(i) == [x |-> X(i), y |-> y + Row(i) * h, w |-> (w - pad) \div 2, h |-> h,
                    cpu |-> range.start + i + 1]
<1>1. h \in {1, 3, 4} /\ range.start \in Nat /\ range.count \in Nat /\ meter.h = h * rows
  BY MeterFacts
<1>2. TwoColumns(meter, x, y, w) = {R(i) : i \in 0 .. range.count - 1}
  BY DEF TwoColumns
<1> HIDE DEF h, range
<1>3. rows \in Nat /\ \A i \in 0 .. range.count - 1 : Row(i) \in Nat /\ Row(i) < rows
  BY <1>1
<1> HIDE DEF rows
<1>4. /\ (w - pad) \div 2 \in Int
      /\ \A i \in 0 .. range.count - 1 :
           /\ X(i) \in Int /\ x <= X(i) /\ X(i) < x + w + pad
           /\ X(i) + (w - pad) \div 2 <= x + w
  <2>1. CASE margin
    BY <1>1, <1>3, <2>1
  <2>2. CASE ~margin
    BY <1>1, <1>3, <2>2
  <2> QED
    BY <2>1, <2>2
<1>5. x + (w - pad) \div 2 <= x + (w - 1) \div 2 + 1 + pad \div 2
  OBVIOUS
<1>6. ASSUME NEW i \in 0 .. range.count - 1
      PROVE  /\ R(i) \in [x : Int, y : Int, w : Int, h : Nat \ {0}, cpu : Nat]
             /\ x <= R(i).x /\ R(i).x < x + w + pad /\ R(i).x + R(i).w <= x + w
             /\ y <= R(i).y /\ R(i).y + R(i).h <= y + meter.h
  <2>1. Row(i) \in Nat /\ Row(i) < rows /\ i \in Nat
    BY <1>1, <1>3
  <2>2. Row(i) * h \in Nat /\ h * rows \in Nat /\ Row(i) * h + h <= h * rows
    <3> HIDE DEF Row
    <3> QED
      BY <1>1, <1>3, <2>1, Stacked
  <2>3. X(i) \in Int /\ x <= X(i) /\ X(i) < x + w + pad /\ X(i) + (w - pad) \div 2 <= x + w
    BY <1>4
  <2> DEFINE above == Row(i) * h
             all == h * rows
             width == (w - pad) \div 2
  <2>4. above \in Nat /\ all \in Nat /\ above + h <= all /\ meter.h = all /\ width \in Int
    BY <1>1, <1>4, <2>2
  <2>5. R(i) = [x |-> X(i), y |-> y + above, w |-> width, h |-> h, cpu |-> range.start + i + 1]
    OBVIOUS
  <2>6. X(i) + width <= x + w
    BY <2>3
  <2> HIDE DEF X, Row, pad, above, all, width, R
  <2>7. y + above \in Int /\ h \in Nat \ {0} /\ range.start + i + 1 \in Nat
    BY <1>1, <2>1, <2>4
  <2>8. R(i) \in [x : Int, y : Int, w : Int, h : Nat \ {0}, cpu : Nat]
    BY <2>3, <2>4, <2>5, <2>7
  <2>9. R(i).x = X(i) /\ R(i).y = y + above /\ R(i).w = width /\ R(i).h = h
    BY <2>5
  <2>10. y <= y + above /\ y + above + h <= y + all
    BY <1>1, <2>4
  <2> QED
    BY <2>3, <2>4, <2>6, <2>8, <2>9, <2>10
<1>7. ASSUME NEW i \in 0 .. range.count - 1, NEW j \in 0 .. range.count - 1, i < j
      PROVE  Apart(R(i), R(j)) /\ Apart(R(j), R(i)) /\ R(i).cpu # R(j).cpu
  <2>1. R(i).cpu # R(j).cpu
    BY <1>1, <1>7
  <2>2. CASE i < rows /\ ~(j < rows)
    <3>1. R(i).x + R(i).w <= R(j).x
      <4>1. X(i) = x /\ X(j) = x + (w - 1) \div 2 + 1 + pad \div 2
        BY <2>2
      <4> HIDE DEF X
      <4> QED
        BY <1>5, <4>1
    <3> HIDE DEF R
    <3> QED
      BY <2>1, <3>1 DEF Apart
  <2>3. CASE i < rows <=> j < rows
    <3>1. Row(i) \in Nat /\ Row(j) \in Nat /\ Row(i) < Row(j)
      BY <1>1, <1>3, <1>7, <2>3
    <3> HIDE DEF Row
    <3>2. Row(i) * h \in Nat /\ Row(j) * h \in Nat /\ Row(i) * h + h <= Row(j) * h
      BY <1>1, <3>1, Stacked
    <3>3. R(i).y + R(i).h <= R(j).y
      BY <1>1, <3>2
    <3> HIDE DEF R
    <3> QED
      BY <2>1, <3>3 DEF Apart
  <2>4. i < rows \/ ~(j < rows)
    BY <1>1, <1>3, <1>7
  <2> QED
    BY <2>2, <2>3, <2>4
<1>8. ASSUME NEW i \in 0 .. range.count - 1, NEW j \in 0 .. range.count - 1, R(i) # R(j)
      PROVE  Apart(R(i), R(j)) /\ R(i).cpu # R(j).cpu
  <2> HIDE DEF R
  <2>1. i # j
    BY <1>8
  <2>2. i < j \/ j < i
    BY <2>1
  <2> QED
    BY <1>7, <2>2
<1> HIDE DEF R
<1>9. \A r \in TwoColumns(meter, x, y, w) : \E i \in 0 .. range.count - 1 : r = R(i)
  BY <1>2
<1>10. \A r \in TwoColumns(meter, x, y, w) :
        /\ r \in [x : Int, y : Int, w : Int, h : Nat \ {0}, cpu : Nat]
        /\ x <= r.x /\ r.x < x + w + pad /\ r.x + r.w <= x + w
        /\ y <= r.y /\ r.y + r.h <= y + meter.h
  BY <1>6, <1>9
<1>11. \A r, s \in TwoColumns(meter, x, y, w) : r # s => Apart(r, s) /\ r.cpu # s.cpu
  BY <1>8, <1>9
<1> QED
  BY <1>10, <1>11, Zenon DEF Inside

LEMMA DrawnInside ==
  ASSUME NEW meter \in Fitting, cpus \in Nat, margin \in BOOLEAN,
         NEW x \in Int, NEW y \in Int, NEW w \in Nat \ {0}, ~margin => w > 1
  PROVE  Inside(MeterDraw(meter, x, y, w), meter, x, y, w)
<1>1. CASE meter.type = "single"
  <2>1. MeterDraw(meter, x, y, w) = Single(meter, x, y, w)
    BY <1>1 DEF MeterDraw, InTwoColumns
  <2> QED
    BY <1>1, <2>1, SingleInside
<1>2. CASE meter.type # "single" /\ meter.type \in InTwoColumns
  <2>1. MeterDraw(meter, x, y, w) = TwoColumns(meter, x, y, w)
    BY <1>2 DEF MeterDraw
  <2> QED
    BY <1>2, <2>1, TwoColumnsInside
<1>3. CASE meter.type # "single" /\ meter.type \notin InTwoColumns
  <2>1. MeterDraw(meter, x, y, w) = OneColumn(meter, x, y, w)
    BY <1>3 DEF MeterDraw
  <2> QED
    BY <1>3, <2>1, OneColumnInside
<1> QED
  BY <1>1, <1>2, <1>3

\* The CPUs of a meter of many are those of its range.
Cpus(S) == {r.cpu : r \in S}
InRange(type) == CpuRange(type, cpus).start + 1 .. CpuRange(type, cpus).start + CpuRange(type, cpus).count

LEMMA CpusShown ==
  ASSUME NEW meter \in Fitting, cpus \in Nat, meter.type # "single",
         NEW x \in Int, NEW y \in Int, NEW w \in Int
  PROVE  Cpus(MeterDraw(meter, x, y, w)) = InRange(meter.type)
<1> DEFINE range == CpuRange(meter.type, cpus)
<1>1. range.start \in Nat /\ range.count \in Nat
  BY MeterFacts
<1>2. \/ MeterDraw(meter, x, y, w) = OneColumn(meter, x, y, w)
      \/ MeterDraw(meter, x, y, w) = TwoColumns(meter, x, y, w)
  BY DEF MeterDraw
<1>3. /\ \A r \in MeterDraw(meter, x, y, w) :
           \E i \in 0 .. range.count - 1 : r.cpu = range.start + i + 1
      /\ \A i \in 0 .. range.count - 1 :
           \E r \in MeterDraw(meter, x, y, w) : r.cpu = range.start + i + 1
  <2>1. CASE MeterDraw(meter, x, y, w) = OneColumn(meter, x, y, w)
    <3> DEFINE R(i) == [x |-> x, y |-> y + i * ModeHeight[meter.each], w |-> w,
                        h |-> ModeHeight[meter.each], cpu |-> range.start + i + 1]
    <3>1. MeterDraw(meter, x, y, w) = {R(i) : i \in 0 .. range.count - 1}
      BY <2>1 DEF OneColumn
    <3>2. \A i : R(i).cpu = range.start + i + 1
      OBVIOUS
    <3> HIDE DEF R, range
    <3> QED
      BY <3>1, <3>2
  <2>2. CASE MeterDraw(meter, x, y, w) = TwoColumns(meter, x, y, w)
    <3> DEFINE pad == IF margin THEN 2 ELSE 0
               rows == (range.count + 1) \div 2
               R(i) == [x |-> IF i < rows THEN x ELSE x + (w - 1) \div 2 + 1 + pad \div 2,
                        y |-> y + (IF i < rows THEN i ELSE i - rows) * ModeHeight[meter.each],
                        w |-> (w - pad) \div 2, h |-> ModeHeight[meter.each],
                        cpu |-> range.start + i + 1]
    <3>1. MeterDraw(meter, x, y, w) = {R(i) : i \in 0 .. range.count - 1}
      BY <2>2 DEF TwoColumns
    <3>2. \A i : R(i).cpu = range.start + i + 1
      OBVIOUS
    <3> HIDE DEF R, range
    <3> QED
      BY <3>1, <3>2
  <2> QED
    BY <1>2, <2>1, <2>2
<1> HIDE DEF range
<1>4. \A k \in range.start + 1 .. range.start + range.count :
        k - range.start - 1 \in 0 .. range.count - 1 /\ range.start + (k - range.start - 1) + 1 = k
  BY <1>1
<1>5. \A i \in 0 .. range.count - 1 : range.start + i + 1 \in range.start + 1 .. range.start + range.count
  BY <1>1
<1>6. {r.cpu : r \in MeterDraw(meter, x, y, w)} = range.start + 1 .. range.start + range.count
  BY <1>3, <1>4, <1>5
<1> QED
  BY <1>6 DEF range, InRange, Cpus

LEMMA CpusCounted ==
  ASSUME NEW S, NEW n \in Nat, {r.cpu : r \in S} = 1 .. n,
         \A r, s \in S : r # s => r.cpu # s.cpu
  PROVE  Cardinality(S) = n
<1> DEFINE f == [r \in S |-> r.cpu]
<1>1. f \in [S -> 1 .. n] /\ \A r \in S : f[r] = r.cpu
  OBVIOUS
<1>2. \A k \in 1 .. n : \E r \in S : r.cpu = k
  OBVIOUS
<1> HIDE DEF f
<1>3. f \in Injection(S, 1 .. n)
  BY <1>1 DEF Injection, IsInjective
<1>4. f \in Surjection(S, 1 .. n)
  BY <1>1, <1>2 DEF Surjection
<1>5. IsFiniteSet(1 .. n) /\ Cardinality(1 .. n) = n
  <2>1. IsFiniteSet(1 .. n) /\ Cardinality(1 .. n) = IF 1 > n THEN 0 ELSE n - 1 + 1
    BY FS_Interval
  <2> QED
    BY <2>1
<1> QED
  BY <1>3, <1>4, <1>5, FS_Injection

(* The header.                                                             *)

HeaderWidth == term[1] \div 2 - (headerPad * 2 - 1) - 1
HeaderX(c) == headerPad + (c - 1) * (HeaderWidth + headerPad)
HeaderY(c, i) == headerPad \div 2 + HeightOfFirst(columns[c], i - 1)

LEMMA HeaderNumbers ==
  ASSUME LayoutInv
  PROVE  /\ term[1] \in Nat /\ term[2] \in Nat /\ term \in Nat \X Nat /\ cpus \in Nat
         /\ headerPad = (IF margin THEN 2 ELSE 0) /\ headerHeight \in Nat
         /\ HeaderWidth \in Nat \ {0} /\ (~margin => HeaderWidth > 1)
         /\ HeaderX(1) \in Nat /\ HeaderX(2) = HeaderX(1) + HeaderWidth + headerPad
         /\ HeaderX(2) + HeaderWidth <= term[1]
<1>1. term \in Nat \X Nat /\ term[1] >= 10 /\ cpus \in Nat
  BY LayoutAssumption DEF LayoutInv
<1>2. headerPad = (IF margin THEN 2 ELSE 0) /\ headerHeight \in Nat /\ margin \in BOOLEAN
  BY CalculatedIs DEF LayoutInv
<1>3. CASE margin
  BY <1>1, <1>2, <1>3 DEF HeaderWidth, HeaderX
<1>4. CASE ~margin
  BY <1>1, <1>2, <1>4 DEF HeaderWidth, HeaderX
<1> QED
  BY <1>1, <1>2, <1>3, <1>4

\* Each meter is drawn inside its own part of the header.
LEMMA MeterPlaced ==
  ASSUME LayoutInv, NEW c \in 1 .. 2, NEW i \in 1 .. Len(columns[c])
  PROVE  /\ columns[c][i] \in Fitting
         /\ HeaderDraw[c][i] = MeterDraw(columns[c][i], HeaderX(c), HeaderY(c, i), HeaderWidth)
         /\ Inside(HeaderDraw[c][i], columns[c][i], HeaderX(c), HeaderY(c, i), HeaderWidth)
         /\ HeaderX(c) \in Nat /\ HeaderY(c, i) \in Nat
         /\ HeaderY(c, i) + columns[c][i].h <= headerHeight
         /\ \A j \in i + 1 .. Len(columns[c]) : HeaderY(c, i) + columns[c][i].h <= HeaderY(c, j)
<1> DEFINE meters == columns[c]
           n == Len(meters)
           top == headerPad \div 2
<1>1. meters \in Seq(Fitting) /\ n \in Nat /\ i \in DOMAIN meters
  BY DEF LayoutInv
<1>2. columns \in [1 .. 2 -> Seq(Fitting)] /\ margin \in BOOLEAN
  BY DEF LayoutInv
<1>3. HeaderDraw[c][i] = MeterDraw(columns[c][i], HeaderX(c), HeaderY(c, i), HeaderWidth)
  BY <1>1, Zenon DEF HeaderDraw, HeaderX, HeaderY, HeaderWidth
<1>4. /\ headerPad = (IF margin THEN 2 ELSE 0) /\ headerHeight = Calculated(columns, margin).height
      /\ cpus \in Nat /\ HeaderWidth \in Nat \ {0} /\ (~margin => HeaderWidth > 1)
      /\ HeaderX(1) \in Nat /\ HeaderX(2) = HeaderX(1) + HeaderWidth + headerPad
      /\ headerHeight \in Nat
  BY HeaderNumbers DEF LayoutInv
<1>5. HeaderX(c) \in Nat
  <2>1. c = 1 \/ c = 2
    OBVIOUS
  <2> QED
    BY <1>2, <1>4, <2>1
<1> HIDE DEF meters, n, top
<1>6. /\ \A k \in 0 .. n : HeightOfFirst(meters, k) \in Nat
      /\ \A k \in 1 .. n : /\ meters[k] \in Fitting
                            /\ HeightOfFirst(meters, k) = HeightOfFirst(meters, k - 1) + meters[k].h
      /\ \A k \in 0 .. n : \A l \in 0 .. k : HeightOfFirst(meters, l) <= HeightOfFirst(meters, k)
  BY <1>1, HeightsAddUp DEF n
<1>7. (IF margin THEN 2 ELSE 0) + HeightOfFirst(meters, n) <= headerHeight
  BY <1>2, <1>4, CalculatedIs DEF meters, n
<1>8. top \in Nat /\ top <= headerPad /\ headerPad \in Nat
  BY <1>2, <1>4 DEF top
<1>9. i \in 1 .. n /\ i - 1 \in 0 .. n /\ i \in 0 .. n /\ n \in 0 .. n /\ i \in 0 .. n
  BY <1>1 DEF meters, n
<1>10. meters[i] \in Fitting /\ meters[i].h \in Nat
  BY <1>6, <1>9 DEF Fitting
<1>11. HeaderY(c, i) = top + HeightOfFirst(meters, i - 1)
  BY DEF HeaderY, top, meters
<1>12. HeaderY(c, i) \in Nat
  BY <1>6, <1>8, <1>9, <1>11
<1>13. HeaderY(c, i) + meters[i].h = top + HeightOfFirst(meters, i)
  BY <1>6, <1>8, <1>9, <1>10, <1>11
<1>14. HeightOfFirst(meters, i) <= HeightOfFirst(meters, n)
  BY <1>6, <1>9
<1>15. HeaderY(c, i) + meters[i].h <= headerHeight
  <2>1. HeightOfFirst(meters, i) \in Nat /\ HeightOfFirst(meters, n) \in Nat
    BY <1>6, <1>9
  <2>2. headerHeight \in Nat /\ headerPad = (IF margin THEN 2 ELSE 0)
    BY <1>4
  <2>3. headerPad + HeightOfFirst(meters, n) <= headerHeight
    BY <1>7, <2>2
  <2> HIDE DEF meters
  <2> QED
    BY <1>8, <1>13, <1>14, <2>1, <2>2, <2>3
<1>16. ASSUME NEW j \in i + 1 .. n PROVE HeaderY(c, i) + meters[i].h <= HeaderY(c, j)
  <2>1. j - 1 \in 0 .. n /\ i \in 0 .. j - 1
    BY <1>1, <1>9
  <2>2. HeaderY(c, j) = top + HeightOfFirst(meters, j - 1)
    BY DEF HeaderY, top, meters
  <2>3. HeightOfFirst(meters, i) <= HeightOfFirst(meters, j - 1) /\ HeightOfFirst(meters, j - 1) \in Nat
    BY <1>6, <2>1
  <2> QED
    BY <1>6, <1>8, <1>9, <1>13, <2>2, <2>3
<1>17. Inside(HeaderDraw[c][i], columns[c][i], HeaderX(c), HeaderY(c, i), HeaderWidth)
  <2>1. HeaderX(c) \in Int /\ HeaderY(c, i) \in Int
    BY <1>5, <1>12
  <2>2. columns[c][i] \in Fitting
    BY <1>10 DEF meters
  <2> QED
    BY <1>2, <1>3, <1>4, <2>1, <2>2, DrawnInside
<1> QED
  BY <1>3, <1>5, <1>10, <1>12, <1>15, <1>16, <1>17 DEF meters, n

\* Two meters do not meet, in one column or in two.
LEMMA MetersApart ==
  ASSUME LayoutInv, NEW c \in 1 .. 2, NEW i \in 1 .. Len(columns[c]),
         NEW d \in 1 .. 2, NEW j \in 1 .. Len(columns[d]), <<c, i>> # <<d, j>>
  PROVE  /\ \A r \in HeaderDraw[c][i], s \in HeaderDraw[d][j] : Apart(r, s)
         /\ HeaderDraw[c][i] \cap HeaderDraw[d][j] = {}
<1>1. /\ HeaderX(1) \in Nat /\ HeaderX(2) = HeaderX(1) + HeaderWidth + headerPad
      /\ HeaderWidth \in Nat /\ headerPad = (IF margin THEN 2 ELSE 0) /\ margin \in BOOLEAN
  BY HeaderNumbers DEF LayoutInv
<1>2. ASSUME NEW r \in HeaderDraw[c][i]
      PROVE  /\ r.x \in Int /\ r.y \in Int /\ r.w \in Int /\ r.h \in Nat \ {0}
             /\ HeaderX(c) <= r.x /\ r.x < HeaderX(c) + HeaderWidth + headerPad
             /\ r.x + r.w <= HeaderX(c) + HeaderWidth
             /\ HeaderY(c, i) <= r.y /\ r.y + r.h <= HeaderY(c, i) + columns[c][i].h
  <2>1. Inside(HeaderDraw[c][i], columns[c][i], HeaderX(c), HeaderY(c, i), HeaderWidth)
    BY MeterPlaced
  <2> QED
    BY <1>1, <2>1 DEF Inside
<1>3. ASSUME NEW r \in HeaderDraw[d][j]
      PROVE  /\ r.x \in Int /\ r.y \in Int /\ r.w \in Int /\ r.h \in Nat \ {0}
             /\ HeaderX(d) <= r.x /\ r.x < HeaderX(d) + HeaderWidth + headerPad
             /\ r.x + r.w <= HeaderX(d) + HeaderWidth
             /\ HeaderY(d, j) <= r.y /\ r.y + r.h <= HeaderY(d, j) + columns[d][j].h
  <2>1. Inside(HeaderDraw[d][j], columns[d][j], HeaderX(d), HeaderY(d, j), HeaderWidth)
    BY MeterPlaced
  <2> QED
    BY <1>1, <2>1 DEF Inside
<1>4. /\ HeaderX(c) \in Nat /\ HeaderY(c, i) \in Nat /\ columns[c][i].h \in Nat
      /\ \A k \in i + 1 .. Len(columns[c]) : HeaderY(c, i) + columns[c][i].h <= HeaderY(c, k)
  BY MeterPlaced DEF Fitting
<1>5. /\ HeaderX(d) \in Nat /\ HeaderY(d, j) \in Nat /\ columns[d][j].h \in Nat
      /\ \A k \in j + 1 .. Len(columns[d]) : HeaderY(d, j) + columns[d][j].h <= HeaderY(d, k)
  BY MeterPlaced DEF Fitting
<1>6. \/ c = 1 /\ d = 2
      \/ c = 2 /\ d = 1
      \/ c = d /\ j \in i + 1 .. Len(columns[c])
      \/ c = d /\ i \in j + 1 .. Len(columns[d])
  <2>1. c # d => (c = 1 /\ d = 2) \/ (c = 2 /\ d = 1)
    OBVIOUS
  <2>2. ASSUME c = d PROVE i # j /\ Len(columns[c]) \in Nat
    BY <2>2 DEF LayoutInv
  <2>3. ASSUME c = d PROVE j \in i + 1 .. Len(columns[c]) \/ i \in j + 1 .. Len(columns[d])
    BY <2>2, <2>3
  <2> QED
    BY <2>1, <2>3
<1>7. ASSUME NEW r \in HeaderDraw[c][i], NEW s \in HeaderDraw[d][j] PROVE Apart(r, s) /\ r # s
  <2>1. CASE c = 1 /\ d = 2
    <3>1. r.x + r.w <= s.x /\ r.x # s.x
      <4> DEFINE left == r.x  wide == r.w  right == s.x
                 a == HeaderX(1)  b == HeaderX(2)  w == HeaderWidth
      <4>1. /\ left \in Int /\ wide \in Int /\ right \in Int /\ a \in Int /\ w \in Int
            /\ headerPad \in Nat /\ b = a + w + headerPad
            /\ left + wide <= a + w /\ b <= right /\ left < a + w + headerPad
        BY <1>1, <1>2, <1>3, <2>1
      <4> HIDE DEF left, wide, right, a, b, w
      <4>2. left + wide <= right /\ left # right
        BY <4>1
      <4> QED
        BY <4>2 DEF left, wide, right
    <3> QED
      BY <3>1 DEF Apart
  <2>2. CASE c = 2 /\ d = 1
    <3>1. s.x + s.w <= r.x /\ r.x # s.x
      <4> DEFINE left == s.x  wide == s.w  right == r.x
                 a == HeaderX(1)  b == HeaderX(2)  w == HeaderWidth
      <4>1. /\ left \in Int /\ wide \in Int /\ right \in Int /\ a \in Int /\ w \in Int
            /\ headerPad \in Nat /\ b = a + w + headerPad
            /\ left + wide <= a + w /\ b <= right /\ left < a + w + headerPad
        BY <1>1, <1>2, <1>3, <2>2
      <4> HIDE DEF left, wide, right, a, b, w
      <4>2. left + wide <= right /\ left # right
        BY <4>1
      <4> QED
        BY <4>2 DEF left, wide, right
    <3> QED
      BY <3>1 DEF Apart
  <2>3. CASE c = d /\ j \in i + 1 .. Len(columns[c])
    <3>1. HeaderY(c, i) + columns[c][i].h <= HeaderY(d, j)
      BY <1>4, <2>3
    <3>2. /\ r.y \in Int /\ r.h \in Nat \ {0} /\ s.y \in Int /\ s.h \in Nat \ {0}
          /\ HeaderY(c, i) <= r.y /\ r.y + r.h <= HeaderY(c, i) + columns[c][i].h
          /\ HeaderY(d, j) <= s.y /\ s.y + s.h <= HeaderY(d, j) + columns[d][j].h
      BY <1>2, <1>3
    <3>3. r.y + r.h <= s.y /\ r.y # s.y
      <4>1. /\ HeaderY(c, i) \in Nat /\ columns[c][i].h \in Nat
            /\ HeaderY(d, j) \in Nat /\ columns[d][j].h \in Nat
        BY <1>4, <1>5
      <4> DEFINE ry == r.y  rh == r.h  sy == s.y  sh == s.h
                 y == HeaderY(c, i)  h == columns[c][i].h  z == HeaderY(d, j)  l == columns[d][j].h
      <4>2. /\ ry \in Int /\ rh \in Nat \ {0} /\ sy \in Int /\ sh \in Nat \ {0}
            /\ y \in Nat /\ h \in Nat /\ z \in Nat /\ l \in Nat
            /\ y <= ry /\ ry + rh <= y + h /\ z <= sy /\ sy + sh <= z + l
        BY <3>2, <4>1
      <4>3. y + h <= z
        BY <3>1
      <4> HIDE DEF ry, rh, sy, sh, y, h, z, l
      <4>4. ry + rh <= sy /\ ry # sy
        BY <4>2, <4>3
      <4> QED
        BY <4>4 DEF ry, rh, sy, sh
    <3> QED
      BY <3>3 DEF Apart
  <2>4. CASE c = d /\ i \in j + 1 .. Len(columns[d])
    <3>1. HeaderY(d, j) + columns[d][j].h <= HeaderY(c, i)
      BY <1>5, <2>4
    <3>2. /\ r.y \in Int /\ r.h \in Nat \ {0} /\ s.y \in Int /\ s.h \in Nat \ {0}
          /\ HeaderY(c, i) <= r.y /\ r.y + r.h <= HeaderY(c, i) + columns[c][i].h
          /\ HeaderY(d, j) <= s.y /\ s.y + s.h <= HeaderY(d, j) + columns[d][j].h
      BY <1>2, <1>3
    <3>3. s.y + s.h <= r.y /\ r.y # s.y
      <4>1. /\ HeaderY(c, i) \in Nat /\ columns[c][i].h \in Nat
            /\ HeaderY(d, j) \in Nat /\ columns[d][j].h \in Nat
        BY <1>4, <1>5
      <4> DEFINE ry == r.y  rh == r.h  sy == s.y  sh == s.h
                 y == HeaderY(c, i)  h == columns[c][i].h  z == HeaderY(d, j)  l == columns[d][j].h
      <4>2. /\ ry \in Int /\ rh \in Nat \ {0} /\ sy \in Int /\ sh \in Nat \ {0}
            /\ y \in Nat /\ h \in Nat /\ z \in Nat /\ l \in Nat
            /\ y <= ry /\ ry + rh <= y + h /\ z <= sy /\ sy + sh <= z + l
        BY <3>2, <4>1
      <4>3. z + l <= y
        BY <3>1
      <4> HIDE DEF ry, rh, sy, sh, y, h, z, l
      <4>4. sy + sh <= ry /\ ry # sy
        BY <4>2, <4>3
      <4> QED
        BY <4>4 DEF ry, rh, sy, sh
    <3> QED
      BY <3>3 DEF Apart
  <2> QED
    BY <1>6, <2>1, <2>2, <2>3, <2>4
<1> QED
  BY <1>7

\* The CPUs of a meter, each once.
LEMMA CpusPlaced ==
  ASSUME LayoutInv, NEW c \in 1 .. 2, NEW i \in 1 .. Len(columns[c]),
         columns[c][i].type # "single"
  PROVE  /\ Cpus(HeaderDraw[c][i]) = InRange(columns[c][i].type)
         /\ \A r, s \in HeaderDraw[c][i] : r # s => r.cpu # s.cpu
<1>1. /\ columns[c][i] \in Fitting
      /\ HeaderDraw[c][i] = MeterDraw(columns[c][i], HeaderX(c), HeaderY(c, i), HeaderWidth)
      /\ Inside(HeaderDraw[c][i], columns[c][i], HeaderX(c), HeaderY(c, i), HeaderWidth)
      /\ HeaderX(c) \in Int /\ HeaderY(c, i) \in Int
  BY MeterPlaced
<1>2. cpus \in Nat /\ HeaderWidth \in Int
  BY HeaderNumbers
<1>3. Cpus(HeaderDraw[c][i]) = InRange(columns[c][i].type)
  BY <1>1, <1>2, CpusShown
<1> QED
  BY <1>1, <1>3, Zenon DEF Inside

LEMMA HeaderFits == LayoutInv => MetersFitHeader
<1> SUFFICES ASSUME LayoutInv PROVE MetersFitHeader
  OBVIOUS
<1> DEFINE drawing == HeaderDraw
           places == UNION {{c} \X DOMAIN columns[c] : c \in 1 .. 2}
           at(p) == drawing[p[1]][p[2]]
           type(p) == columns[p[1]][p[2]].type
           all == UNION {at(p) : p \in places}
           shows(S, n) == Cardinality(S) = n /\ {r.cpu : r \in S} = 1 .. n
<1>1. ASSUME NEW p \in places
      PROVE  p[1] \in 1 .. 2 /\ p[2] \in 1 .. Len(columns[p[1]]) /\ p = <<p[1], p[2]>>
  <2>1. PICK c \in 1 .. 2 : p \in {c} \X DOMAIN columns[c]
    OBVIOUS
  <2>2. columns[c] \in Seq(Fitting)
    BY DEF LayoutInv
  <2> QED
    BY <2>1, <2>2
<1>2. /\ term[1] \in Nat /\ cpus \in Nat /\ headerHeight \in Nat /\ HeaderWidth \in Nat
      /\ headerPad \in Nat
      /\ HeaderX(1) \in Nat /\ HeaderX(2) = HeaderX(1) + HeaderWidth + headerPad
      /\ HeaderX(2) + HeaderWidth <= term[1]
  <2>1. margin \in BOOLEAN
    BY DEF LayoutInv
  <2> QED
    BY <2>1, HeaderNumbers
<1>3. ASSUME NEW p \in places, NEW r \in at(p)
      PROVE  r.x >= 0 /\ r.x + r.w <= term[1] /\ r.y >= 0 /\ r.y + r.h <= headerHeight
  <2> DEFINE c == p[1]  i == p[2]
  <2>1. c \in 1 .. 2 /\ i \in 1 .. Len(columns[c])
    BY <1>1
  <2>2. r \in HeaderDraw[c][i]
    BY <1>3
  <2> HIDE DEF c, i
  <2>3. /\ Inside(HeaderDraw[c][i], columns[c][i], HeaderX(c), HeaderY(c, i), HeaderWidth)
        /\ columns[c][i].h \in Nat /\ HeaderX(c) \in Nat /\ HeaderY(c, i) \in Nat
        /\ HeaderY(c, i) + columns[c][i].h <= headerHeight
    BY <2>1, MeterPlaced DEF Fitting
  <2>4. /\ r.x \in Int /\ r.y \in Int /\ r.w \in Int /\ r.h \in Nat
        /\ HeaderX(c) <= r.x /\ r.x + r.w <= HeaderX(c) + HeaderWidth
        /\ HeaderY(c, i) <= r.y /\ r.y + r.h <= HeaderY(c, i) + columns[c][i].h
    BY <2>2, <2>3 DEF Inside
  <2>5. HeaderX(c) + HeaderWidth <= term[1]
    <3>1. c = 1 \/ c = 2
      BY <2>1
    <3> QED
      BY <1>2, <3>1
  <2> DEFINE rx == r.x  ry == r.y  rw == r.w  rh == r.h
             x == HeaderX(c)  y == HeaderY(c, i)  h == columns[c][i].h  w == HeaderWidth
  <2>6. /\ rx \in Int /\ ry \in Int /\ rw \in Int /\ rh \in Nat
        /\ x \in Nat /\ y \in Nat /\ h \in Nat /\ w \in Nat
        /\ term[1] \in Nat /\ headerHeight \in Nat
        /\ x <= rx /\ rx + rw <= x + w /\ y <= ry /\ ry + rh <= y + h
        /\ x + w <= term[1] /\ y + h <= headerHeight
    BY <1>2, <2>3, <2>4, <2>5
  <2> HIDE DEF rx, ry, rw, rh, x, y, h, w
  <2>7. rx >= 0 /\ rx + rw <= term[1] /\ ry >= 0 /\ ry + rh <= headerHeight
    BY <2>6
  <2> QED
    BY <2>7 DEF rx, ry, rw, rh
<1>4. ASSUME NEW p \in places, NEW q \in places, p # q
      PROVE  at(p) \cap at(q) = {} /\ \A r \in at(p), s \in at(q) : Apart(r, s)
  <2>1. <<p[1], p[2]>> # <<q[1], q[2]>>
    BY <1>1, <1>4, Zenon
  <2> QED
    BY <1>1, <2>1, MetersApart
<1>5. ASSUME NEW p \in places, NEW r \in at(p), NEW s \in at(p), r # s PROVE Apart(r, s)
  <2>1. Inside(HeaderDraw[p[1]][p[2]], columns[p[1]][p[2]], HeaderX(p[1]), HeaderY(p[1], p[2]), HeaderWidth)
    BY <1>1, MeterPlaced
  <2> QED
    BY <1>5, <2>1 DEF Inside
<1>6. ASSUME NEW p \in places, type(p) \in AllOfThem PROVE shows(at(p), cpus)
  <2> DEFINE range == CpuRange(type(p), cpus)
  <2>1. type(p) # "single" /\ range.start = 0 /\ range.count = cpus
    BY <1>2, <1>6, RangeIs DEF AllOfThem
  <2>2. /\ Cpus(at(p)) = InRange(type(p))
        /\ \A r, s \in at(p) : r # s => r.cpu # s.cpu
    BY <1>1, <2>1, CpusPlaced
  <2>3. {r.cpu : r \in at(p)} = 1 .. cpus
    <3>1. 0 + 1 = 1 /\ 0 + cpus = cpus
      BY <1>2
    <3> QED
      BY <2>1, <2>2, <3>1 DEF InRange, Cpus
  <2> HIDE DEF at
  <2> QED
    BY <1>2, <2>2, <2>3, CpusCounted
<1>7. ASSUME NEW p \in places, NEW q \in places, type(p) \in LeftHalf, type(q) \in RightHalf
      PROVE  shows(at(p) \cup at(q), cpus)
  <2> DEFINE left == CpuRange(type(p), cpus)
             right == CpuRange(type(q), cpus)
             S == at(p) \cup at(q)
  <2>1. /\ type(p) # "single" /\ left.start = 0 /\ left.count = (cpus + 1) \div 2
        /\ type(q) # "single" /\ right.start = (cpus + 1) \div 2 /\ right.count = cpus \div 2
    <3>1. type(p) \in LeftHalf /\ type(q) \in RightHalf
      BY <1>7
    <3> HIDE DEF places, type
    <3>2. left.start = 0 /\ left.count = (cpus + 1) \div 2
      BY <1>2, <3>1, RangeIs
    <3>3. right.start = (cpus + 1) \div 2 /\ right.count = cpus \div 2
      BY <1>2, <3>1, RangeIs
    <3>4. type(p) # "single" /\ type(q) # "single"
      BY <3>1 DEF LeftHalf, RightHalf
    <3> QED
      BY <3>2, <3>3, <3>4
  <2>2. /\ Cpus(at(p)) = InRange(type(p))
        /\ \A r, s \in at(p) : r # s => r.cpu # s.cpu
    BY <1>1, <2>1, CpusPlaced
  <2>3. /\ Cpus(at(q)) = InRange(type(q))
        /\ \A r, s \in at(q) : r # s => r.cpu # s.cpu
    BY <1>1, <2>1, CpusPlaced
  <2> HIDE DEF at, left, right, type
  <2>4. \A r \in at(p) : r.cpu \in 1 .. (cpus + 1) \div 2
    <3>1. 0 + 1 = 1 /\ 0 + (cpus + 1) \div 2 = (cpus + 1) \div 2
      BY <1>2
    <3> QED
      BY <2>1, <2>2, <3>1 DEF InRange, Cpus, left
  <2>5. \A k \in 1 .. (cpus + 1) \div 2 : \E r \in at(p) : r.cpu = k
    <3>1. 0 + 1 = 1 /\ 0 + (cpus + 1) \div 2 = (cpus + 1) \div 2
      BY <1>2
    <3> QED
      BY <2>1, <2>2, <3>1 DEF InRange, Cpus, left
  <2>6. (cpus + 1) \div 2 + cpus \div 2 = cpus /\ (cpus + 1) \div 2 \in Nat /\ cpus \div 2 \in Nat
    BY <1>2
  <2>7. {r.cpu : r \in at(q)} = (cpus + 1) \div 2 + 1 .. cpus
    BY <2>1, <2>3, <2>6 DEF InRange, Cpus, right
  <2>8. \A r \in at(q) : r.cpu \in (cpus + 1) \div 2 + 1 .. cpus
    BY <2>7
  <2>9. \A k \in (cpus + 1) \div 2 + 1 .. cpus : \E r \in at(q) : r.cpu = k
    BY <2>7
  <2>10. \A r \in at(p), s \in at(q) : r.cpu # s.cpu
    <3>1. \A k \in 1 .. (cpus + 1) \div 2 : \A l \in (cpus + 1) \div 2 + 1 .. cpus : k # l
      BY <1>2, <2>6
    <3> QED
      BY <2>4, <2>8, <3>1
  <2>11. \A r, s \in S : r # s => r.cpu # s.cpu
    BY <2>2, <2>3, <2>10
  <2>12. \A r \in S : r.cpu \in 1 .. cpus
    <3>1. /\ \A k \in 1 .. (cpus + 1) \div 2 : k \in 1 .. cpus
          /\ \A k \in (cpus + 1) \div 2 + 1 .. cpus : k \in 1 .. cpus
      BY <1>2, <2>6
    <3> QED
      BY <2>4, <2>8, <3>1
  <2>13. \A k \in 1 .. cpus : \E r \in S : r.cpu = k
    <3>1. \A k \in 1 .. cpus : k \in 1 .. (cpus + 1) \div 2 \/ k \in (cpus + 1) \div 2 + 1 .. cpus
      BY <1>2, <2>6
    <3> QED
      BY <2>5, <2>9, <3>1
  <2>14. {r.cpu : r \in S} = 1 .. cpus
    BY <2>12, <2>13
  <2> HIDE DEF S
  <2>15. shows(S, cpus)
    BY <1>2, <2>11, <2>14, CpusCounted
  <2> QED
    BY <2>15 DEF S, at
<1>8. \A r, s \in all : r # s => Apart(r, s)
  <2> HIDE DEF at, places
  <2>1. \A r \in all : \E p \in places : r \in at(p)
    OBVIOUS
  <2> QED
    BY <1>4, <1>5, <2>1
<1>9. \A r \in all : r.x >= 0 /\ r.x + r.w <= term[1] /\ r.y >= 0 /\ r.y + r.h <= headerHeight
  <2> HIDE DEF at, places
  <2>1. \A r \in all : \E p \in places : r \in at(p)
    OBVIOUS
  <2> QED
    BY <1>3, <2>1
<1>10. /\ \A p, q \in places : p # q => at(p) \cap at(q) = {}
       /\ \A p \in places : type(p) \in AllOfThem => shows(at(p), cpus)
       /\ \A p, q \in places : type(p) \in LeftHalf /\ type(q) \in RightHalf
                                  => shows(at(p) \cup at(q), cpus)
  BY <1>4, <1>6, <1>7
<1> QED
  BY <1>8, <1>9, <1>10, Zenon DEF MetersFitHeader

(* Every action keeps the invariant.                                       *)

LEMMA HeightIsNat ==
  ASSUME NEW type, NEW mode \in 1 .. 4, cpus \in Nat
  PROVE  HeightOf(type, mode) \in Nat
<1> DEFINE count == CpuRange(type, cpus).count
           h == ModeHeight[mode]
<1>1. h \in {1, 3, 4} /\ count \in Nat
  BY Heights, RangeIs
<1> HIDE DEF h, count
<1>2. h \in Nat /\ h * count \in Nat /\ h * ((count + 1) \div 2) \in Nat
  <2>1. h = 1 \/ h = 3 \/ h = 4
    BY <1>1
  <2>2. (count + 1) \div 2 \in Nat
    BY <1>1
  <2> QED
    BY <1>1, <2>1, <2>2
<1>3. \/ HeightOf(type, mode) = h
      \/ HeightOf(type, mode) = h * ((count + 1) \div 2)
      \/ HeightOf(type, mode) = h * count
  <2>1. CASE type = "single"
    BY <2>1 DEF HeightOf, h, count, InTwoColumns
  <2>2. CASE type # "single" /\ type \in InTwoColumns
    BY <2>2 DEF HeightOf, h, count
  <2>3. CASE type # "single" /\ type \notin InTwoColumns
    BY <2>3 DEF HeightOf, h, count
  <2> QED
    BY <2>1, <2>2, <2>3
<1> QED
  BY <1>2, <1>3

LEMMA NewMeterFits ==
  ASSUME NEW type \in Types, NEW mode \in 1 .. 4, cpus \in Nat
  PROVE  NewMeter(type, mode) \in Fitting
BY HeightIsNat DEF NewMeter, Fitting

LEMMA WithModeFits ==
  ASSUME NEW meter \in Fitting, NEW mode \in 1 .. 4, cpus \in Nat
  PROVE  WithMode(meter, mode) \in Fitting
<1>1. HeightOf(meter.type, mode) \in Nat
  BY HeightIsNat
<1>2. CASE mode = meter.mode
  BY <1>2 DEF WithMode
<1>3. CASE mode # meter.mode
  BY <1>1, <1>3 DEF WithMode, Fitting
<1> QED
  BY <1>2, <1>3

\* What Header_reinit computes again is what is there.
LEMMA ReinitialisedIs ==
  ASSUME NEW meter \in Fitting
  PROVE  Reinitialised(meter) = meter
<1>1. meter.h = HeightOf(meter.type, meter.mode)
  BY DEF Fitting
<1>2. [meter EXCEPT !.h = HeightOf(meter.type, meter.mode)] = meter
  BY <1>1 DEF Fitting
<1> QED
  BY <1>2 DEF Reinitialised

LEMMA PopulatedFits ==
  ASSUME NEW entries \in Configured, cpus \in Nat
  PROVE  Populated(entries) \in [1 .. 2 -> Seq(Fitting)]
<1>1. \A c \in 1 .. 2 : entries[c] \in Seq(Types \X (1 .. 4))
  BY LayoutAssumption
<1> DEFINE M(c, i) == WithMode(NewMeter(entries[c][i][1], 1), entries[c][i][2])
<1>2. ASSUME NEW c \in 1 .. 2, NEW i \in DOMAIN entries[c] PROVE M(c, i) \in Fitting
  <2>1. entries[c][i] \in Types \X (1 .. 4)
    BY <1>1
  <2>2. entries[c][i][1] \in Types /\ entries[c][i][2] \in 1 .. 4 /\ 1 \in 1 .. 4
    BY <2>1
  <2>3. NewMeter(entries[c][i][1], 1) \in Fitting
    BY <2>2, NewMeterFits
  <2> QED
    BY <2>2, <2>3, WithModeFits
<1> HIDE DEF M
<1>3. ASSUME NEW c \in 1 .. 2 PROVE [i \in DOMAIN entries[c] |-> M(c, i)] \in Seq(Fitting)
  <2>1. DOMAIN entries[c] = 1 .. Len(entries[c]) /\ Len(entries[c]) \in Nat
    BY <1>1
  <2> QED
    BY <1>2, <2>1
<1>4. Populated(entries) = [c \in 1 .. 2 |-> [i \in DOMAIN entries[c] |-> M(c, i)]]
  BY Zenon DEF Populated, M
<1> QED
  BY <1>3, <1>4

LEMMA OneFills ==
  ASSUME NEW y \in Int, NEW t \in Nat \X Nat
  PROVE  PanelAt(0, y, t[1], t[2] - y - 1) \in Rect
         /\ Filling(<<PanelAt(0, y, t[1], t[2] - y - 1)>>, y, t)
BY DEF PanelAt, Rect, Filling, Standing

LEMMA LayoutStarts == LayoutInit => LayoutInv
<1> SUFFICES ASSUME LayoutInit PROVE LayoutInv
  OBVIOUS
<1>1. /\ term \in Terminals /\ cpus \in CpuCounts /\ margin \in BOOLEAN
      /\ headerHeight = Calculated(columns, margin).height
      /\ headerPad = Calculated(columns, margin).pad
      /\ mainPanel = Beside(<< >>, headerHeight, -1)[1]
      /\ layer = "main" /\ scr = NoManager /\ missed = FALSE
  BY DEF LayoutInit
<1>2. term \in Nat \X Nat /\ cpus \in Nat
  BY <1>1, LayoutAssumption
<1>3. columns \in [1 .. 2 -> Seq(Fitting)]
  BY <1>2, PopulatedFits DEF LayoutInit
<1>4. headerHeight \in Int
  BY <1>1, <1>3, CalculatedIs
<1>5. mainPanel = PanelAt(0, headerHeight, term[1], term[2] - headerHeight - 1)
  <2>1. /\ NextX(<< >>) = 0 /\ ~(-1 > 0) /\ term[1] - 0 = term[1]
    BY <1>2 DEF NextX
  <2>2. Beside(<< >>, headerHeight, -1)
          = Append(<< >>, PanelAt(0, headerHeight, term[1], term[2] - headerHeight - 1))
    BY <2>1 DEF Beside
  <2> HIDE DEF PanelAt
  <2> QED
    BY <1>1, <2>2
<1>6. mainPanel \in Rect /\ Filling(<<mainPanel>>, headerHeight, term)
  BY <1>2, <1>4, <1>5, OneFills
<1>7. mainPanel.x = 0 /\ mainPanel.y = headerHeight
  BY <1>5 DEF PanelAt
<1>8. scr \in [y1 : Int, panels : Seq(Rect), page : 0 .. 3, y : Int]
  BY <1>1 DEF NoManager
<1> QED
  BY <1>1, <1>3, <1>6, <1>7, <1>8 DEF LayoutInv

LEMMA SameFitting == ASSUME UNCHANGED cpus PROVE Fitting' = Fitting
BY DEF Fitting, HeightOf

\* The header of other settings.
LEMMA HeaderChanged ==
  ASSUME LayoutInv, UNCHANGED <<cpus, term>>, columns' \in [1 .. 2 -> Seq(Fitting)], margin' \in BOOLEAN
  PROVE  /\ Calculated(columns', margin').height \in Int
         /\ term' \in Terminals /\ cpus' \in CpuCounts
         /\ columns' \in [1 .. 2 -> Seq(Fitting')]
<1>1. columns' \in [1 .. 2 -> Seq(Fitting')]
  BY SameFitting
<1> QED
  BY <1>1, CalculatedIs DEF LayoutInv

LEMMA ResizeMainKeeps == ASSUME LayoutInv, ResizeMain PROVE LayoutInv'
<1>1. PICK t \in Terminals \ {term} :
        /\ term' = t
        /\ mainPanel' = PanelAt(mainPanel.x, mainPanel.y, t[1], t[2] - mainPanel.y - 1)
  BY DEF ResizeMain
<1>2. /\ layer = "main" /\ missed' = FALSE
      /\ UNCHANGED <<cpus, margin, columns, headerHeight, headerPad, layer, scr>>
  BY DEF ResizeMain, headerVars
<1>3. mainPanel.x = 0 /\ mainPanel.y = headerHeight
  BY <1>2 DEF LayoutInv
<1>4. t \in Nat \X Nat /\ headerHeight \in Int
  BY LayoutAssumption, HeaderNumbers
<1>5. mainPanel' \in Rect /\ Filling(<<mainPanel'>>, headerHeight, t)
  BY <1>1, <1>3, <1>4, OneFills
<1>6. mainPanel'.x = 0 /\ mainPanel'.y = headerHeight
  BY <1>1, <1>3 DEF PanelAt
<1>7. Fitting' = Fitting
  BY <1>2, SameFitting
<1> QED
  BY <1>1, <1>2, <1>5, <1>6, <1>7 DEF LayoutInv

LEMMA FrontAndLast ==
  ASSUME NEW panels \in Seq(Rect), panels # << >>
  PROVE  /\ Front(panels) \in Seq(Rect) /\ Last(panels) \in Rect
         /\ Append(Front(panels), Last(panels)) = panels
<1>1. Len(panels) \in Nat \ {0}
  OBVIOUS
<1>2. /\ Front(panels) \in Seq(Rect) /\ Len(Front(panels)) = Len(panels) - 1
      /\ \A i \in 1 .. Len(panels) - 1 : Front(panels)[i] = panels[i]
  <2> DEFINE n == Len(panels) - 1
             f == SubSeq(panels, 1, n)
  <2>1. n \in Nat /\ n \in Int /\ 1 \in Int /\ \A i \in 1 .. n : panels[i] \in Rect
    BY <1>1
  <2>2. Front(panels) = f
    BY DEF Front
  <2> HIDE DEF n
  <2>3. /\ f \in Seq(Rect) /\ Len(f) = IF 1 <= n THEN n - 1 + 1 ELSE 0
        /\ \A i \in 1 .. n - 1 + 1 : f[i] = panels[1 + i - 1]
    BY <2>1, SubSeqProperties
  <2> HIDE DEF f
  <2>4. /\ f \in Seq(Rect) /\ Len(f) = n /\ \A i \in 1 .. n : f[i] = panels[i]
    BY <2>1, <2>3
  <2> QED
    BY <2>2, <2>4 DEF n
<1>3. Last(panels) = panels[Len(panels)] /\ Last(panels) \in Rect
  BY <1>1 DEF Last
<1> DEFINE s == Append(Front(panels), Last(panels))
<1>4. /\ s \in Seq(Rect) /\ Len(s) = Len(panels)
      /\ \A i \in 1 .. Len(panels) - 1 : s[i] = Front(panels)[i]
      /\ s[Len(panels)] = Last(panels)
  BY <1>1, <1>2, <1>3
<1> HIDE DEF s
<1>5. \A i \in 1 .. Len(panels) : s[i] = panels[i]
  <2> TAKE i \in 1 .. Len(panels)
  <2>1. i = Len(panels) \/ i \in 1 .. Len(panels) - 1
    BY <1>1
  <2> QED
    BY <1>2, <1>3, <1>4, <2>1
<1>6. s = panels
  BY <1>4, <1>5, SeqEqual
<1> QED
  BY <1>2, <1>3, <1>6 DEF s

LEMMA ResizePickKeeps == ASSUME LayoutInv, ResizePick PROVE LayoutInv'
<1>1. PICK t \in Terminals \ {term} :
        LET panels == Arranged(Append(scr.panels, mainPanel), scr.y1, t)
        IN  /\ term' = t
            /\ scr' = [scr EXCEPT !.panels = Front(panels)]
            /\ mainPanel' = Last(panels)
  BY DEF ResizePick
<1>2. /\ layer = "pick"
      /\ UNCHANGED <<cpus, margin, columns, headerHeight, headerPad, layer, missed>>
  BY DEF ResizePick, headerVars
<1> DEFINE old == Append(scr.panels, mainPanel)
           panels == Arranged(old, scr.y1, t)
<1>3. old \in Seq(Rect) /\ old # << >> /\ scr.y1 = headerHeight /\ scr.y = headerHeight
  BY <1>2 DEF LayoutInv, Filling
<1>4. t \in Nat \X Nat /\ headerHeight \in Int
  BY LayoutAssumption, HeaderNumbers
<1> HIDE DEF old
<1>5. Filling(panels, headerHeight, t)
  BY <1>3, <1>4, ArrangedFills
<1> HIDE DEF panels
<1>6. term' = t /\ scr' = [scr EXCEPT !.panels = Front(panels)] /\ mainPanel' = Last(panels)
  BY <1>1, Zenon DEF panels, old
<1>7. /\ Front(panels) \in Seq(Rect) /\ Last(panels) \in Rect
      /\ Append(Front(panels), Last(panels)) = panels
  BY <1>5, FrontAndLast DEF Filling
<1>8. scr' \in [y1 : Int, panels : Seq(Rect), page : 0 .. 3, y : Int]
      /\ scr'.panels = Front(panels) /\ scr'.y1 = scr.y1 /\ scr'.y = scr.y
  BY <1>6, <1>7 DEF LayoutInv
<1>9. Fitting' = Fitting
  BY <1>2, SameFitting
<1>10. Filling(Append(scr'.panels, mainPanel'), headerHeight', term')
  BY <1>2, <1>5, <1>6, <1>7, <1>8
<1> QED
  BY <1>2, <1>3, <1>6, <1>7, <1>8, <1>9, <1>10 DEF LayoutInv

LEMMA ResizeSetupKeeps == ASSUME LayoutInv, ResizeSetup PROVE LayoutInv'
<1>1. PICK t \in Terminals \ {term} :
        term' = t /\ scr' = [scr EXCEPT !.panels = Arranged(scr.panels, scr.y1, t)]
  BY DEF ResizeSetup
<1>2. /\ layer = "setup"
      /\ UNCHANGED <<cpus, margin, columns, headerHeight, headerPad, mainPanel, layer, missed>>
  BY DEF ResizeSetup, headerVars
<1>3. scr.panels \in Seq(Rect) /\ scr.panels # << >> /\ scr.y1 = headerHeight
  BY <1>2 DEF LayoutInv, Filling
<1>4. t \in Nat \X Nat /\ headerHeight \in Int
  BY LayoutAssumption, HeaderNumbers
<1> DEFINE panels == Arranged(scr.panels, scr.y1, t)
<1>5. Filling(panels, headerHeight, t)
  BY <1>3, <1>4, ArrangedFills
<1> HIDE DEF panels
<1>6. scr' = [scr EXCEPT !.panels = panels]
  BY <1>1 DEF panels
<1>7. scr' \in [y1 : Int, panels : Seq(Rect), page : 0 .. 3, y : Int]
      /\ scr'.panels = panels /\ scr'.y1 = scr.y1
  BY <1>5, <1>6 DEF LayoutInv, Filling
<1>8. Fitting' = Fitting
  BY <1>2, SameFitting
<1> QED
  BY <1>1, <1>2, <1>3, <1>5, <1>7, <1>8 DEF LayoutInv

LEMMA ResizeInfoKeeps == ASSUME LayoutInv, ResizeInfo PROVE LayoutInv'
<1>1. /\ layer = "info" /\ term' \in Terminals /\ missed' = TRUE
      /\ UNCHANGED <<cpus, margin, columns, headerHeight, headerPad, mainPanel, layer, scr>>
  BY DEF ResizeInfo, headerVars
<1>2. Fitting' = Fitting
  BY <1>1, SameFitting
<1> QED
  BY <1>1, <1>2 DEF LayoutInv

LEMMA InfoKeeps == ASSUME LayoutInv, OpenInfo \/ CloseInfo PROVE LayoutInv'
<1>1. /\ layer \in {"main", "info"} /\ layer' \in {"main", "info"}
      /\ UNCHANGED <<term, cpus, margin, columns, headerHeight, headerPad, mainPanel, scr, missed>>
  BY DEF OpenInfo, CloseInfo, headerVars
<1>2. Fitting' = Fitting
  BY <1>1, SameFitting
<1> QED
  BY <1>1, <1>2 DEF LayoutInv

LEMMA OpenPickKeeps == ASSUME LayoutInv, OpenPick PROVE LayoutInv'
<1>1. PICK width \in ListWidths :
        LET panels == Beside(Beside(<< >>, headerHeight, width), headerHeight, -1)
        IN  /\ scr' = [y1 |-> headerHeight, panels |-> Front(panels), page |-> 0, y |-> mainPanel.y]
            /\ mainPanel' = Last(panels)
  BY DEF OpenPick
<1>2. /\ layer = "main" /\ layer' = "pick" /\ missed' = FALSE
      /\ UNCHANGED <<term, cpus, margin, columns, headerHeight, headerPad>>
  BY DEF OpenPick, headerVars
<1> DEFINE first == Beside(<< >>, headerHeight, width)
           panels == Beside(first, headerHeight, -1)
<1>3. term \in Nat \X Nat /\ headerHeight \in Int /\ width \in Int /\ -1 \in Int
  BY LayoutAssumption, HeaderNumbers
<1>4. << >> \in Seq(Rect) /\ Standing(<< >>, headerHeight, term)
  BY NoneStand
<1>5. first \in Seq(Rect) /\ Standing(first, headerHeight, term)
  BY <1>3, <1>4, BesideStands
<1> HIDE DEF first
<1>6. Filling(panels, headerHeight, term)
  BY <1>3, <1>5, BesideStands DEF Filling
<1> HIDE DEF panels
<1>7. /\ scr' = [y1 |-> headerHeight, panels |-> Front(panels), page |-> 0, y |-> mainPanel.y]
      /\ mainPanel' = Last(panels)
  BY <1>1, Zenon DEF panels, first
<1>8. /\ Front(panels) \in Seq(Rect) /\ Last(panels) \in Rect
      /\ Append(Front(panels), Last(panels)) = panels
  BY <1>6, FrontAndLast DEF Filling
<1>9. mainPanel.y = headerHeight
  BY <1>2 DEF LayoutInv
<1>10. /\ scr' \in [y1 : Int, panels : Seq(Rect), page : 0 .. 3, y : Int]
       /\ scr'.y1 = headerHeight /\ scr'.y = headerHeight /\ scr'.panels = Front(panels)
  BY <1>3, <1>7, <1>8, <1>9
<1>11. Fitting' = Fitting
  BY <1>2, SameFitting
<1>12. Filling(Append(scr'.panels, mainPanel'), headerHeight', term')
  BY <1>2, <1>6, <1>7, <1>8, <1>10
<1> QED
  BY <1>2, <1>7, <1>8, <1>10, <1>11, <1>12 DEF LayoutInv

LEMMA ClosePickKeeps == ASSUME LayoutInv, ClosePick PROVE LayoutInv'
<1>1. /\ layer = "pick" /\ layer' = "main" /\ scr' = NoManager
      /\ mainPanel' = PanelAt(0, scr.y, term[1], term[2] - scr.y - 1)
      /\ UNCHANGED <<term, cpus, margin, columns, headerHeight, headerPad, missed>>
  BY DEF ClosePick, headerVars
<1>2. scr.y = headerHeight /\ term \in Nat \X Nat /\ headerHeight \in Int
  BY <1>1, HeaderNumbers DEF LayoutInv
<1>3. mainPanel' \in Rect /\ Filling(<<mainPanel'>>, headerHeight, term)
  BY <1>1, <1>2, OneFills
<1>4. mainPanel'.x = 0 /\ mainPanel'.y = headerHeight
  BY <1>1, <1>2 DEF PanelAt
<1>5. Fitting' = Fitting
  BY <1>1, SameFitting
<1>6. scr' \in [y1 : Int, panels : Seq(Rect), page : 0 .. 3, y : Int]
  BY <1>1 DEF NoManager
<1> QED
  BY <1>1, <1>3, <1>4, <1>5, <1>6 DEF LayoutInv

LEMMA OpenSetupKeeps == ASSUME LayoutInv, OpenSetup PROVE LayoutInv'
<1> DEFINE first == Beside(<< >>, headerHeight, 16)
           panels == WithPage(first, headerHeight, 0)
<1>1. /\ layer = "main" /\ layer' = "setup"
      /\ scr' = [y1 |-> headerHeight, panels |-> panels, page |-> 0, y |-> 0]
      /\ UNCHANGED <<term, cpus, margin, columns, headerHeight, headerPad, mainPanel, missed>>
  BY DEF OpenSetup, headerVars
<1>2. term \in Nat \X Nat /\ headerHeight \in Int /\ 16 \in Int /\ 0 \in 0 .. 3
  BY HeaderNumbers
<1>3. << >> \in Seq(Rect) /\ Standing(<< >>, headerHeight, term)
  BY NoneStand
<1>4. first \in Seq(Rect) /\ Standing(first, headerHeight, term)
  BY <1>2, <1>3, BesideStands
<1> HIDE DEF first
<1>5. Filling(panels, headerHeight, term)
  BY <1>2, <1>4, PageFills
<1> HIDE DEF panels
<1>6. /\ scr' \in [y1 : Int, panels : Seq(Rect), page : 0 .. 3, y : Int]
      /\ scr'.y1 = headerHeight /\ scr'.panels = panels
  BY <1>1, <1>2, <1>5 DEF Filling
<1>7. Fitting' = Fitting
  BY <1>1, SameFitting
<1> QED
  BY <1>1, <1>5, <1>6, <1>7 DEF LayoutInv

LEMMA CloseSetupKeeps == ASSUME LayoutInv, CloseSetup PROVE LayoutInv'
<1> DEFINE calc == Calculated(columns, margin)
<1>1. /\ layer = "setup" /\ layer' = "main"
      /\ headerHeight' = calc.height /\ headerPad' = calc.pad
      /\ mainPanel' = PanelAt(0, calc.height, term[1], term[2] - calc.height - 1)
      /\ scr' = NoManager /\ missed' = FALSE
      /\ UNCHANGED <<term, cpus, margin, columns>>
  BY DEF CloseSetup
<1>2. calc.height \in Int /\ term \in Nat \X Nat
  BY HeaderNumbers, CalculatedIs DEF LayoutInv
<1> HIDE DEF calc
<1>3. mainPanel' \in Rect /\ Filling(<<mainPanel'>>, calc.height, term)
  BY <1>1, <1>2, OneFills
<1>4. mainPanel'.x = 0 /\ mainPanel'.y = calc.height
  BY <1>1, <1>2 DEF PanelAt
<1>5. Fitting' = Fitting
  BY <1>1, SameFitting
<1>6. scr' \in [y1 : Int, panels : Seq(Rect), page : 0 .. 3, y : Int]
  BY <1>1 DEF NoManager
<1>7. headerHeight' = Calculated(columns', margin').height /\ headerPad' = Calculated(columns', margin').pad
  BY <1>1 DEF calc
<1> QED
  BY <1>1, <1>3, <1>4, <1>5, <1>6, <1>7 DEF LayoutInv

LEMMA ShowPageKeeps == ASSUME LayoutInv, ShowPage PROVE LayoutInv'
<1>1. PICK page \in 0 .. 3 :
        scr' = [scr EXCEPT !.page = page, !.panels = WithPage(SubSeq(@, 1, 1), scr.y1, page)]
  BY DEF ShowPage
<1>2. /\ layer = "setup"
      /\ UNCHANGED <<term, cpus, margin, columns, headerHeight, headerPad, mainPanel, layer, missed>>
  BY DEF ShowPage, headerVars
<1> DEFINE old == scr.panels
           first == SubSeq(old, 1, 1)
           panels == WithPage(first, scr.y1, page)
<1>3. old \in Seq(Rect) /\ old # << >> /\ Standing(old, headerHeight, term) /\ scr.y1 = headerHeight
  BY <1>2 DEF LayoutInv, Filling
<1>4. term \in Nat \X Nat /\ headerHeight \in Int
  BY HeaderNumbers
<1> HIDE DEF old
<1>5. first \in Seq(Rect) /\ Len(first) = 1 /\ first[1] = old[1]
  <2>1. Len(old) \in Nat \ {0} /\ \A i \in 1 .. 1 : old[i] \in Rect
    BY <1>3
  <2> QED
    BY <1>3, <2>1, SubSeqProperties
<1>6. Standing(first, headerHeight, term)
  <2>1. 1 \in 1 .. Len(old)
    BY <1>3
  <2> HIDE DEF first
  <2> QED
    BY <1>3, <1>5, <2>1 DEF Standing
<1> HIDE DEF first
<1>7. Filling(panels, headerHeight, term)
  BY <1>3, <1>4, <1>5, <1>6, PageFills
<1> HIDE DEF panels
<1>8. scr' = [scr EXCEPT !.page = page, !.panels = panels]
  BY <1>1 DEF panels, first, old
<1>9. /\ scr' \in [y1 : Int, panels : Seq(Rect), page : 0 .. 3, y : Int]
      /\ scr'.y1 = scr.y1 /\ scr'.panels = panels
  BY <1>7, <1>8 DEF LayoutInv, Filling
<1>10. Fitting' = Fitting
  BY <1>2, SameFitting
<1> QED
  BY <1>2, <1>3, <1>7, <1>9, <1>10 DEF LayoutInv

\* The panels of setup below a header of any height.
LEMMA SetupArranged ==
  ASSUME LayoutInv, layer = "setup", NEW y \in Int,
         scr' = [scr EXCEPT !.y1 = y, !.panels = Arranged(@, y, term)]
  PROVE  /\ scr' \in [y1 : Int, panels : Seq(Rect), page : 0 .. 3, y : Int]
         /\ scr'.y1 = y /\ Filling(scr'.panels, y, term)
<1>1. scr.panels \in Seq(Rect) /\ scr.panels # << >> /\ term \in Nat \X Nat
  BY HeaderNumbers DEF LayoutInv, Filling
<1> DEFINE panels == Arranged(scr.panels, y, term)
<1>2. Filling(panels, y, term)
  BY <1>1, ArrangedFills
<1> HIDE DEF panels
<1>3. scr' = [scr EXCEPT !.y1 = y, !.panels = panels]
  BY DEF panels
<1> QED
  BY <1>2, <1>3 DEF LayoutInv, Filling

LEMMA ColumnsChangedKeeps ==
  ASSUME LayoutInv, layer = "setup", NEW cols \in [1 .. 2 -> Seq(Fitting)], ColumnsChanged(cols)
  PROVE  LayoutInv'
<1> DEFINE calc == Calculated(cols, margin)
<1>1. /\ columns' = cols
      /\ headerHeight' = calc.height /\ headerPad' = calc.pad
      /\ scr' = [scr EXCEPT !.y1 = calc.height, !.panels = Arranged(@, calc.height, term)]
      /\ UNCHANGED <<term, cpus, margin, mainPanel, layer, missed>>
  BY DEF ColumnsChanged
<1>2. calc.height \in Int
  BY CalculatedIs DEF LayoutInv
<1> HIDE DEF calc
<1>3. /\ scr' \in [y1 : Int, panels : Seq(Rect), page : 0 .. 3, y : Int]
      /\ scr'.y1 = calc.height /\ Filling(scr'.panels, calc.height, term)
  BY <1>1, <1>2, SetupArranged
<1>4. columns' \in [1 .. 2 -> Seq(Fitting')]
  BY <1>1, SameFitting
<1>5. headerHeight' = Calculated(columns', margin').height /\ headerPad' = Calculated(columns', margin').pad
  BY <1>1 DEF calc
<1> QED
  BY <1>1, <1>3, <1>4, <1>5 DEF LayoutInv

LEMMA AddMeterKeeps == ASSUME LayoutInv, AddMeter PROVE LayoutInv'
<1>1. PICK c \in 1 .. 2, type \in MeterTypes : \E mode \in DefaultModes(type) :
        ColumnsChanged([columns EXCEPT ![c] = Append(@, NewMeter(type, mode))])
  BY DEF AddMeter
<1>2. PICK mode \in DefaultModes(type) :
        ColumnsChanged([columns EXCEPT ![c] = Append(@, NewMeter(type, mode))])
  BY <1>1
<1>3. type \in Types /\ mode \in 1 .. 4
  BY LayoutAssumption DEF DefaultModes
<1>4. NewMeter(type, mode) \in Fitting
  BY <1>3, HeaderNumbers, NewMeterFits
<1>5. [columns EXCEPT ![c] = Append(@, NewMeter(type, mode))] \in [1 .. 2 -> Seq(Fitting)]
  BY <1>4 DEF LayoutInv
<1> QED
  BY <1>2, <1>5, ColumnsChangedKeeps DEF AddMeter

LEMMA ChangeMeterKeeps == ASSUME LayoutInv, ChangeMeter PROVE LayoutInv'
<1> DEFINE Changed(c, i) ==
        LET meter == columns[c][i]
        IN  \/ ColumnsChanged([columns EXCEPT ![c][i] =
                 WithMode(meter, IF meter.mode = Len(ModeHeight) THEN 1 ELSE meter.mode + 1)])
            \/ ColumnsChanged([columns EXCEPT ![c] = RemoveAt(@, i)])
            \/ i > 1 /\ ColumnsChanged([columns EXCEPT ![c][i] = columns[c][i - 1], ![c][i - 1] = meter])
            \/ LET other == columns[3 - c]
                   to == IF i > Len(other) THEN Len(other) + 1 ELSE i
               IN  ColumnsChanged([columns EXCEPT ![c] = RemoveAt(@, i),
                                                  ![3 - c] = InsertAt(other, to, meter)])
<1>0. PICK c \in 1 .. 2 : \E i \in DOMAIN columns[c] : Changed(c, i)
  BY DEF ChangeMeter
<1>1. PICK i \in DOMAIN columns[c] : Changed(c, i)
  BY <1>0
<1> DEFINE meter == columns[c][i]
           mode == IF meter.mode = Len(ModeHeight) THEN 1 ELSE meter.mode + 1
           other == columns[3 - c]
           to == IF i > Len(other) THEN Len(other) + 1 ELSE i
<1>2. /\ columns \in [1 .. 2 -> Seq(Fitting)] /\ columns[c] \in Seq(Fitting) /\ layer = "setup"
      /\ i \in 1 .. Len(columns[c]) /\ meter \in Fitting /\ 3 - c \in 1 .. 2 /\ other \in Seq(Fitting)
  BY DEF LayoutInv, ChangeMeter
<1>3. mode \in 1 .. 4
  BY <1>2 DEF Fitting, ModeHeight
<1>4. [columns EXCEPT ![c][i] = WithMode(meter, mode)] \in [1 .. 2 -> Seq(Fitting)]
  <2>1. WithMode(meter, mode) \in Fitting
    <3> HIDE DEF mode, meter
    <3> QED
      BY <1>2, <1>3, HeaderNumbers, WithModeFits
  <2> HIDE DEF mode, meter
  <2>2. [columns[c] EXCEPT ![i] = WithMode(meter, mode)] \in Seq(Fitting)
    BY <1>2, <2>1, ExceptSeq
  <2> QED
    BY <1>2, <2>2
<1>5. [columns EXCEPT ![c] = RemoveAt(@, i)] \in [1 .. 2 -> Seq(Fitting)]
  <2>1. RemoveAt(columns[c], i) \in Seq(Fitting)
    BY <1>2, Removed
  <2> QED
    BY <1>2, <2>1
<1>6. ASSUME i > 1
      PROVE  [columns EXCEPT ![c][i] = columns[c][i - 1], ![c][i - 1] = meter] \in [1 .. 2 -> Seq(Fitting)]
  <2>1. i - 1 \in 1 .. Len(columns[c]) /\ columns[c][i - 1] \in Fitting
    BY <1>2, <1>6
  <2> HIDE DEF meter
  <2> DEFINE s == [columns[c] EXCEPT ![i] = columns[c][i - 1]]
             t == [s EXCEPT ![i - 1] = meter]
  <2>2. s \in Seq(Fitting) /\ Len(s) = Len(columns[c])
    BY <1>2, <2>1, ExceptSeq
  <2>3. t \in Seq(Fitting)
    <3> HIDE DEF s
    <3> QED
      BY <1>2, <2>1, <2>2, ExceptSeq
  <2>4. [columns EXCEPT ![c][i] = columns[c][i - 1], ![c][i - 1] = meter] = [columns EXCEPT ![c] = t]
    BY <1>2
  <2> HIDE DEF t
  <2> QED
    BY <1>2, <2>3, <2>4
<1>7. [columns EXCEPT ![c] = RemoveAt(@, i), ![3 - c] = InsertAt(other, to, meter)]
        \in [1 .. 2 -> Seq(Fitting)]
  <2>1. RemoveAt(columns[c], i) \in Seq(Fitting)
    BY <1>2, Removed
  <2>2. to \in 1 .. Len(other) + 1
    BY <1>2
  <2> HIDE DEF to, other, meter
  <2>3. InsertAt(other, to, meter) \in Seq(Fitting)
    BY <1>2, <2>2, Inserted
  <2> QED
    BY <1>2, <2>1, <2>3
<1>8. \/ ColumnsChanged([columns EXCEPT ![c][i] = WithMode(meter, mode)])
      \/ ColumnsChanged([columns EXCEPT ![c] = RemoveAt(@, i)])
      \/ i > 1 /\ ColumnsChanged([columns EXCEPT ![c][i] = columns[c][i - 1], ![c][i - 1] = meter])
      \/ ColumnsChanged([columns EXCEPT ![c] = RemoveAt(@, i), ![3 - c] = InsertAt(other, to, meter)])
  BY <1>1, Zenon
<1> HIDE DEF meter, mode, other, to
<1> QED
  BY <1>2, <1>4, <1>5, <1>6, <1>7, <1>8, ColumnsChangedKeeps

LEMMA ChangeOptionKeeps == ASSUME LayoutInv, ChangeOption PROVE LayoutInv'
<1> DEFINE calc == Calculated(columns, margin')
<1>1. /\ layer = "setup" /\ margin' \in BOOLEAN
      /\ headerHeight' = calc.height /\ headerPad' = calc.pad
      /\ scr' = [scr EXCEPT !.y1 = calc.height, !.panels = Arranged(@, calc.height, term)]
      /\ columns' = [c \in 1 .. 2 |-> [i \in DOMAIN columns[c] |-> Reinitialised(columns[c][i])]]
      /\ UNCHANGED <<term, cpus, mainPanel, layer, missed>>
  BY DEF ChangeOption
<1>2. columns' = columns
  <2>1. columns \in [1 .. 2 -> Seq(Fitting)]
    BY DEF LayoutInv
  <2>2. \A c \in 1 .. 2 : \A i \in DOMAIN columns[c] : Reinitialised(columns[c][i]) = columns[c][i]
    BY <2>1, ReinitialisedIs
  <2>3. \A c \in 1 .. 2 : columns[c] = [i \in DOMAIN columns[c] |-> columns[c][i]]
    BY <2>1
  <2>4. \A c \in 1 .. 2 : [i \in DOMAIN columns[c] |-> Reinitialised(columns[c][i])] = columns[c]
    BY <2>2, <2>3
  <2> QED
    BY <1>1, <2>1, <2>4
<1>3. calc.height \in Int
  BY <1>1, CalculatedIs DEF LayoutInv
<1> HIDE DEF calc
<1>4. /\ scr' \in [y1 : Int, panels : Seq(Rect), page : 0 .. 3, y : Int]
      /\ scr'.y1 = calc.height /\ Filling(scr'.panels, calc.height, term)
  BY <1>1, <1>3, SetupArranged
<1>5. Fitting' = Fitting
  BY <1>1, SameFitting
<1>6. headerHeight' = Calculated(columns', margin').height /\ headerPad' = Calculated(columns', margin').pad
  BY <1>1, <1>2 DEF calc
<1> QED
  BY <1>1, <1>2, <1>4, <1>5, <1>6 DEF LayoutInv

LEMMA ChangeColorsKeeps == ASSUME LayoutInv, ChangeColors PROVE LayoutInv'
<1>1. /\ layer = "setup"
      /\ scr' = [scr EXCEPT !.y1 = headerHeight, !.panels = Arranged(@, headerHeight, term)]
      /\ UNCHANGED <<term, cpus, margin, columns, headerHeight, headerPad, mainPanel, layer, missed>>
  BY DEF ChangeColors, headerVars
<1>2. headerHeight \in Int
  BY HeaderNumbers
<1>3. /\ scr' \in [y1 : Int, panels : Seq(Rect), page : 0 .. 3, y : Int]
      /\ scr'.y1 = headerHeight /\ Filling(scr'.panels, headerHeight, term)
  BY <1>1, <1>2, SetupArranged
<1>4. Fitting' = Fitting
  BY <1>1, SameFitting
<1> QED
  BY <1>1, <1>3, <1>4 DEF LayoutInv

LEMMA LayoutStutters == ASSUME LayoutInv, UNCHANGED layoutVars PROVE LayoutInv'
<1>1. UNCHANGED <<term, cpus, margin, columns, headerHeight, headerPad, mainPanel, layer, scr, missed>>
  BY DEF layoutVars
<1>2. Fitting' = Fitting
  BY <1>1, SameFitting
<1> QED
  BY <1>1, <1>2 DEF LayoutInv

LEMMA LayoutSteps == LayoutInv /\ [LayoutNext]_layoutVars => LayoutInv'
<1> SUFFICES ASSUME LayoutInv, [LayoutNext]_layoutVars PROVE LayoutInv'
  OBVIOUS
<1> QED
  BY ResizeMainKeeps, ResizePickKeeps, ResizeSetupKeeps, ResizeInfoKeeps, InfoKeeps,
     OpenPickKeeps, ClosePickKeeps, OpenSetupKeeps, CloseSetupKeeps, ShowPageKeeps,
     AddMeterKeeps, ChangeMeterKeeps, ChangeOptionKeeps, ChangeColorsKeeps, LayoutStutters
  DEF LayoutNext

LEMMA PanelsFill == LayoutInv => PanelsFillScreen
<1> SUFFICES ASSUME LayoutInv, layer \in {"main", "pick", "setup"}, ~missed
             PROVE  /\ \A i \in DOMAIN ShownPanels :
                         LET p == ShownPanels[i]
                         IN  /\ p.y = headerHeight /\ p.y + p.h = term[2] - 2
                             /\ p.x = IF i = 1 THEN 0
                                      ELSE ShownPanels[i - 1].x + ShownPanels[i - 1].w + 1
                    /\ Last(ShownPanels).x + Last(ShownPanels).w = term[1]
  BY DEF PanelsFillScreen
<1>1. Filling(ShownPanels, headerHeight, term)
  <2>1. CASE layer = "main"
    BY <2>1 DEF LayoutInv, ShownPanels
  <2>2. CASE layer = "pick"
    BY <2>2 DEF LayoutInv, ShownPanels
  <2>3. CASE layer = "setup"
    BY <2>3 DEF LayoutInv, ShownPanels
  <2> QED
    BY <2>1, <2>2, <2>3
<1>2. DOMAIN ShownPanels = 1 .. Len(ShownPanels) /\ Last(ShownPanels) = ShownPanels[Len(ShownPanels)]
  BY <1>1 DEF Filling, Last
<1> QED
  BY <1>1, <1>2 DEF Filling, Standing

\* On every terminal, for any meters in any modes and whatever is changed in whichever order:
\* meters and CPUs have their own places in the header, and the panels fill what is below
\* it.  Header_draw, Header_calculateHeight, ScreenManager_add and ScreenManager_resize.
THEOREM ScreenStaysDivided == LayoutSpec => []ScreenIsDivided
<1>1. LayoutInv => ScreenIsDivided
  BY HeaderFits, PanelsFill DEF ScreenIsDivided
<1> QED
  BY <1>1, LayoutStarts, LayoutSteps, PTL DEF LayoutSpec
=============================================================================
