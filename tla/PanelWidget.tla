---------------------------- MODULE PanelWidget ----------------------------
(***************************************************************************)
(* A panel in the loop of ScreenManager_run: a key or a click is handled,  *)
(* by the panel itself or by the handler of its owner, then it is drawn.   *)
(* Panel_draw has a quick way, which draws two rows and trusts that the    *)
(* rest of the screen is still right.                                      *)
(***************************************************************************)
EXTENDS Panel

CONSTANTS
  Item,         \* what a row may hold
  Height,       \* heights that the terminal leaves to the panel
  MaxSize       \* bound: rows of the panel

ASSUME HeightAssumption == Height \subseteq Int
ASSUME MaxSizeAssumption == MaxSize \in Nat

VARIABLES
  panel,
  screen,       \* the lines of the panel on the terminal
  focus,        \* the panel has the focus
  pc            \* "read": waiting for a key, "draw": a key has been handled

vars == <<panel, screen, focus, pc>>

Items == UNION {[1 .. n -> Item] : n \in 0 .. MaxSize}

(* A panel as it is made and put on the screen by ScreenManager_add. *)
Init ==
  /\ \E items \in Items, height \in Height : panel = NewPanel(items, height)
  /\ screen = [line \in {} |-> Blank]
  /\ focus \in BOOLEAN
  /\ pc = "draw"
-----------------------------------------------------------------------------
Read ==
  /\ pc = "read"
  /\ pc' = "draw"

(* ScreenManager passes a key that no handler took to the panel. *)
Key ==
  /\ Read
  /\ \E key \in Keys : panel' = OnKey(panel, key)
  /\ UNCHANGED <<screen, focus>>

(* A click selects a row of the screen and goes on as a key: the handler   *)
(* of the owner changes what the selected row holds (a check box, the mode *)
(* of a meter), or nothing.  A key does the same without the click.        *)
Clicked == {SetSelected(panel, panel.scrollV + line) : line \in 0 .. panel.h - 1}

ClickAndEdit ==
  /\ Read
  /\ \E p \in Clicked \cup {panel} :
       \/ panel' = p
       \/ /\ InVector(p, p.selected)
          /\ \E o \in Item : panel' = Set(p, p.selected, o)
  /\ focus' \in BOOLEAN
  /\ UNCHANGED screen

(* ColumnsPanel and MetersPanel move a row. *)
MoveRow ==
  /\ Read
  /\ panel' \in {MoveSelectedUp(panel), MoveSelectedDown(panel)}
  /\ UNCHANGED <<screen, focus>>

(* Rows are added by the panel next to this one: AvailableMetersPanel adds *)
(* and selects the new row, AvailableColumnsPanel inserts above the        *)
(* selected one, moveToNeighbor inserts where the row was beside it.       *)
AddRow ==
  /\ Read
  /\ Size(panel) < MaxSize
  /\ \E o \in Item :
       \/ panel' = SetSelected(Add(panel, o), Size(panel))
       \/ panel' = SetSelected(Insert(panel, panel.selected, o), panel.selected + 1)
       \/ \E at \in 0 .. MaxSize - 1 : panel' = SetSelected(Insert(panel, at, o), at)
  /\ focus' \in BOOLEAN
  /\ UNCHANGED screen

RemoveRow ==
  /\ Read
  /\ InVector(panel, panel.selected)
  /\ panel' = RemoveAtRow(panel, panel.selected)
  /\ UNCHANGED <<screen, focus>>

RefillRows ==
  /\ Read
  /\ \E items \in Items, found \in -1 .. MaxSize - 1 :
       panel' = Refill(panel, items, found)
  /\ UNCHANGED <<screen, focus>>

(* The focus goes to another panel or comes back. *)
MoveFocus ==
  /\ Read
  /\ focus' = ~focus
  /\ UNCHANGED <<panel, screen>>

(* The terminal gets another size, or the meters above another height. *)
Resize ==
  /\ Read
  /\ \E height \in Height :
       /\ panel' = [panel EXCEPT !.h = height, !.needsRedraw = TRUE]
       /\ screen' = [line \in 0 .. height - 1 |-> Blank]
  /\ UNCHANGED focus

Draw ==
  /\ pc = "draw"
  /\ screen' = Drawn(panel, focus, screen)
  /\ panel' = AfterDraw(panel)
  /\ pc' = "read"
  /\ UNCHANGED focus

Next ==
  \/ Key \/ ClickAndEdit \/ MoveRow \/ AddRow \/ RemoveRow \/ RefillRows
  \/ MoveFocus \/ Resize \/ Draw

Spec == Init /\ [][Next]_vars
-----------------------------------------------------------------------------
TypeOK ==
  /\ panel \in [items : Items, selected : Nat, oldSelected : Nat, scrollV : Int,
                h : Int, needsRedraw : BOOLEAN]
  /\ focus \in BOOLEAN
  /\ pc \in {"read", "draw"}

(* There is always a row at the selection, unless there is none at all:    *)
(* the handlers read the vector there without a look at its size.          *)
SelectedInRange ==
  panel.selected \in 0 .. Upper(Size(panel) - 1, 0)

(* The quick way of Panel_draw reads the rows oldSelected and selected and *)
(* draws them at lines counted from scrollV: both rows are in the vector   *)
(* and both lines in the panel, however it shrank or scrolled since.       *)
QuickDrawInPanel ==
  pc = "draw" =>
    LET p == Scrolled(panel)
    IN  ~p.needsRedraw =>
          \A i \in {p.oldSelected, p.selected} :
             InVector(p, i) /\ i - p.scrollV \in 0 .. p.h - 1

(* After a draw, quick or not, the screen shows the rows from scrollV on,  *)
(* each with what it holds now and the bar on the selected one alone, and  *)
(* the selected row is among them, if the panel has a line at all.         *)
ScreenIsCurrent ==
  pc = "read" =>
    /\ screen = Render(panel, focus)
    /\ panel.h > 0 => panel.selected - panel.scrollV \in 0 .. panel.h - 1
=============================================================================
