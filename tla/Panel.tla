------------------------------- MODULE Panel -------------------------------
(***************************************************************************)
(* The list widget of htop (Panel.c): rows, a selection and a scroll       *)
(* position.  Every list on the screen is one: processes, menus, the       *)
(* pages of the setup screen.  The operators take and return a panel,      *)
(*   items        the rows (a Vector; C counts them from 0)                *)
(*   selected     the selected row                                         *)
(*   oldSelected  the row that was selected when the panel was last drawn  *)
(*   scrollV      the first row on the screen                              *)
(*   h            how many rows fit; 0 and less on a very small terminal   *)
(*   needsRedraw  draw all of it, and not only the two selected rows       *)
(* The horizontal position is left out: the keys that change it ask for a  *)
(* full redraw and do nothing else ("side").                               *)
(***************************************************************************)
EXTENDS Integers, SequencesExt

CONSTANT WheelAmount    \* CRT_scrollWheelVAmount: rows per turn of the wheel

ASSUME WheelAmountAssumption == WheelAmount \in Nat

Lower(a, b) == IF a < b THEN a ELSE b
Upper(a, b) == IF a > b THEN a ELSE b

Size(p) == Len(p.items)
At(p, i) == p.items[i + 1]
InVector(p, i) == i \in 0 .. Size(p) - 1

NewPanel(items, height) ==
  [items |-> items, selected |-> 0, oldSelected |-> 0, scrollV |-> 0,
   h |-> height, needsRedraw |-> TRUE]
-----------------------------------------------------------------------------
(* Rows are added and taken away. *)

Prune(p) ==
  [p EXCEPT !.items = <<>>, !.scrollV = 0, !.selected = 0, !.oldSelected = 0,
            !.needsRedraw = TRUE]

Add(p, o) == [p EXCEPT !.items = Append(@, o), !.needsRedraw = TRUE]

(* Vector_insert puts what lies beyond the end at the end. *)
Insert(p, i, o) ==
  [p EXCEPT !.items = InsertAt(@, Lower(i, Size(p)) + 1, o), !.needsRedraw = TRUE]

(* The row is replaced, and nothing asks for a redraw. *)
Set(p, i, o) == [p EXCEPT !.items[i + 1] = o]

(* Defect: the selection stays behind the last row. *)
RemoveKeepsSelected(p, i) ==
  [p EXCEPT !.items = RemoveAt(@, i + 1), !.needsRedraw = TRUE]

RemoveAtRow(p, i) ==
  [p EXCEPT !.items = RemoveAt(@, i + 1), !.needsRedraw = TRUE,
            !.selected = IF @ > 0 /\ @ >= Size(p) - 1 THEN @ - 1 ELSE @]

(* Two neighbours change places.  C counts from 0: i and i + 1 in C.       *)
SwapRows(items, i) == [items EXCEPT ![i + 1] = items[i + 2], ![i + 2] = items[i + 1]]

MoveSelectedUp(p) ==
  IF p.selected > 0 /\ InVector(p, p.selected)
  THEN [p EXCEPT !.items = SwapRows(@, p.selected - 1), !.selected = @ - 1]
  ELSE p

MoveSelectedDown(p) ==
  IF p.selected + 1 < Size(p)
  THEN [p EXCEPT !.items = SwapRows(@, p.selected), !.selected = @ + 1]
  ELSE p
-----------------------------------------------------------------------------
(* The selection moves. *)

SetSelected(p, i) ==
  [p EXCEPT !.selected = Upper(Lower(i, Size(p) - 1), 0)]

Keys == {"down", "up", "pgdn", "pgup", "wheeldown", "wheelup", "home", "end",
         "side", "other"}

(* What the switch of Panel_onKey does before the selection is checked. *)
Moved(p, key) ==
  CASE key = "down" -> [p EXCEPT !.selected = @ + 1]
    [] key = "up"   -> [p EXCEPT !.selected = @ - 1]
    [] key = "home" -> [p EXCEPT !.selected = 0]
    [] key = "end"  -> [p EXCEPT !.selected = Size(p) - 1]
    [] key = "side" -> [p EXCEPT !.needsRedraw = TRUE]
    [] key = "pgup" ->
         [p EXCEPT !.selected = @ - (p.h - 1), !.scrollV = Upper(0, @ - p.h + 1),
                   !.needsRedraw = TRUE]
    [] key = "pgdn" ->
         [p EXCEPT !.selected = @ + (p.h - 1),
                   !.scrollV = Upper(0, Lower(Size(p) - p.h, @ + p.h - 1)),
                   !.needsRedraw = TRUE]
    [] key = "wheelup" ->
         [p EXCEPT !.selected = @ - WheelAmount, !.scrollV = @ - WheelAmount,
                   !.needsRedraw = TRUE]
    [] key = "wheeldown" ->
         [p EXCEPT !.selected = @ + WheelAmount,
                   !.scrollV = Lower(@ + WheelAmount, Size(p) - p.h),
                   !.needsRedraw = TRUE]

InBounds(p) ==
  IF p.selected < 0 \/ Size(p) = 0 THEN [p EXCEPT !.selected = 0, !.needsRedraw = TRUE]
  ELSE IF p.selected >= Size(p) THEN [p EXCEPT !.selected = Size(p) - 1, !.needsRedraw = TRUE]
  ELSE p

OnKey(p, key) == IF key = "other" THEN p ELSE InBounds(Moved(p, key))

(* A refresh of the process list, and a filter in a list: the panel is     *)
(* emptied and filled, and what was selected is selected again if found.   *)
Refill(p, items, found) ==
  LET q == [Prune(p) EXCEPT !.items = items]
  IN  IF found \in 0 .. Len(items) - 1
      THEN [SetSelected(q, found) EXCEPT !.scrollV = p.scrollV]
      ELSE q
-----------------------------------------------------------------------------
(* Drawing.  The screen of a panel is a function from its lines to what    *)
(* stands there.                                                           *)

Blank == "blank"

RowOf(p, focus, i) ==
  [item |-> At(p, i),
   bar |-> IF i # p.selected THEN "none" ELSE IF focus THEN "focus" ELSE "unfocus"]

Render(p, focus) ==
  [line \in 0 .. p.h - 1 |->
     IF InVector(p, p.scrollV + line) THEN RowOf(p, focus, p.scrollV + line) ELSE Blank]

(* The scroll area is brought on screen, *)
ScrollInVector(p) ==
  IF p.scrollV < 0 THEN [p EXCEPT !.scrollV = 0, !.needsRedraw = TRUE]
  ELSE IF p.scrollV >= Size(p)
       THEN [p EXCEPT !.scrollV = Upper(Size(p) - 1, 0), !.needsRedraw = TRUE]
       ELSE p

(* Defect: one row short of a screen is already in sight. *)
ScrollToSelectedShort(p) ==
  IF p.selected < p.scrollV THEN [p EXCEPT !.scrollV = p.selected, !.needsRedraw = TRUE]
  ELSE IF p.selected > p.scrollV + p.h
       THEN [p EXCEPT !.scrollV = p.selected - p.h + 1, !.needsRedraw = TRUE]
       ELSE p

(* then the selection. *)
ScrollToSelected(p) ==
  IF p.selected < p.scrollV THEN [p EXCEPT !.scrollV = p.selected, !.needsRedraw = TRUE]
  ELSE IF p.selected >= p.scrollV + p.h
       THEN [p EXCEPT !.scrollV = p.selected - p.h + 1, !.needsRedraw = TRUE]
       ELSE p

Scrolled(p) == ScrollToSelected(ScrollInVector(p))

(* Defect: the bar is not taken away from where it was. *)
DrawSelectedOnlyOnce(p, focus, screen) ==
  [screen EXCEPT ![p.selected - p.scrollV] = RowOf(p, focus, p.selected)]

(* The quick way: the row that was selected is drawn without the bar, then *)
(* the selected one with it; what else is on the screen stays.             *)
DrawSelectedOnly(p, focus, screen) ==
  [screen EXCEPT
     ![p.oldSelected - p.scrollV] = [item |-> At(p, p.oldSelected), bar |-> "none"],
     ![p.selected - p.scrollV]    = RowOf(p, focus, p.selected)]

Drawn(p, focus, screen) ==
  LET q == Scrolled(p)
  IN  IF q.needsRedraw THEN Render(q, focus) ELSE DrawSelectedOnly(q, focus, screen)

AfterDraw(p) ==
  [Scrolled(p) EXCEPT !.needsRedraw = FALSE, !.oldSelected = p.selected]
=============================================================================
