----------------------------- MODULE MainScreen -----------------------------
(***************************************************************************)
(* The main screen: the process list and the panel that shows it, the      *)
(* selection and the process it follows, tags, incremental search and      *)
(* filter, and the menus that act on processes (MainPanel.c, Action.c,     *)
(* IncSet.c, ProcessList_rebuildPanel), in the loop of ScreenManager_run.  *)
(*                                                                         *)
(* The loop alternates between checkRecalculation (pc = "check"), which    *)
(* may scan and rebuilds the panel, and a key (pc = "read").  A menu runs  *)
(* a loop of its own with the same two steps, over the same list.          *)
(*                                                                         *)
(* How a scan reads the list is the module ProcessScan, how the rows are   *)
(* scrolled and drawn the module PanelWidget.  Here a scan leaves any list *)
(* in any order, and the keys that only change the order are left out.     *)
(***************************************************************************)
EXTENDS Integers, SequencesExt

CONSTANTS
  Pid,          \* processes
  Parent,       \* parent of each process, or NoPid
  Hideable,     \* processes that scan and tree may leave hidden (p->show)
  Mine,         \* processes of the user that the user menu offers
  WhiteList,    \* processes whose tgid was named with -p; all of them without -p
  Matching,     \* Matching[n]: processes whose command contains the n letters typed
  Page,         \* rows that a page key moves by (h - 1)
  Commands      \* what the user does in this model

NoPid == 0      \* -1 in the code

AllCommands == {"move", "tag", "children", "untag", "follow", "select", "toggle",
                "search", "filter", "kill", "user", "sort"}

ASSUME MainScreenAssumption ==
  /\ Pid \subseteq Nat \ {NoPid} /\ IsFiniteSet(Pid)
  /\ \A p \in Pid : Parent[p] \in Pid \cup {NoPid} /\ Parent[p] < p
  /\ Hideable \subseteq Pid /\ Mine \subseteq Pid /\ WhiteList \subseteq Pid
  /\ Matching \in Seq(SUBSET Pid)
  /\ Page \in Nat
  /\ Commands \subseteq AllCommands

VARIABLES
  list,         \* pl->processes: the processes in their order
  show,         \* those with p->show
  tag,          \* those with p->tag
  userOnly,     \* pl->userId is set
  rows,         \* the panel's items: pointers into the list
  selected,     \* the selected row, counted from 0
  following,    \* pl->following
  inc,          \* incremental search and filter
  menu,         \* the menu that is open
  signalled,    \* who got the signal that was sent by the last key
  redraw, rescan,
  pc

vars == <<list, show, tag, userOnly, rows, selected, following, inc, menu,
          signalled, redraw, rescan, pc>>

panelVars == <<rows, selected>>
listVars == <<list, show, tag, userOnly>>

MaxText == Len(Matching)    \* bound: letters of a search or filter text

Modes == {"search", "filter"}
NoMenu == [kind |-> "none", pid |-> NoPid, unfollow |-> FALSE]

Init ==
  /\ list = <<>> /\ show = {} /\ tag = {} /\ userOnly = FALSE
  /\ rows = <<>> /\ selected = 0
  /\ following = NoPid
  /\ inc = [active |-> "none", len |-> [m \in Modes |-> 0], filtering |-> FALSE,
            found |-> FALSE]
  /\ menu = NoMenu
  /\ signalled = {}
  /\ redraw = TRUE /\ rescan = TRUE     \* the first check finds oldTime = 0
  /\ pc = "check"
-----------------------------------------------------------------------------
Live == ToSet(list)
Row(i) == rows[i + 1]
SelectedPid == IF rows = <<>> THEN NoPid ELSE Row(selected)

(* The command of p contains the first n letters of the text. *)
Matches(p, n) == n = 0 \/ p \in Matching[n]

IncFilter == IF inc.filtering THEN inc.len["filter"] ELSE 0

(* The test of ProcessList_rebuildPanel. *)
Hidden(p) ==
  \/ p \notin show
  \/ userOnly /\ p \notin Mine
  \/ ~Matches(p, IncFilter)
  \/ p \notin WhiteList

(* The processes that pass it, in the order of the list. *)
Visible ==
  LET places == {i \in DOMAIN list : ~Hidden(list[i])}
      row(i) == Cardinality({j \in places : j <= i})
  IN  [n \in 1 .. Cardinality(places) |-> list[CHOOSE i \in places : row(i) = n]]

Upper(a, b) == IF a > b THEN a ELSE b
Lower(a, b) == IF a < b THEN a ELSE b

(* Panel_setSelected and the bounds of Panel_onKey on a panel of n rows. *)
Clamp(i, n) == Upper(Lower(i, n - 1), 0)

(* The row of the first process in rs that is one of S, -1 if none is. *)
FirstRow(rs, S) == SelectInSeq(rs, LAMBDA p : p \in S) - 1

(* Defect: the same row, whatever stands there now. *)
ReselectedByRow(rs) == IF selected < Len(rs) THEN selected ELSE 0

(* Which row is selected when the panel has been filled with rs again: the *)
(* followed process if it is there, the same row if nothing is followed    *)
(* and there are so many, and the first one otherwise.                     *)
Reselected(rs) ==
  IF following = NoPid
  THEN IF selected < Len(rs) THEN selected ELSE 0
  ELSE Clamp(FirstRow(rs, {following}), Len(rs))

RebuildPanel ==
  /\ rows' = Visible'
  /\ selected' = Reselected(Visible')
-----------------------------------------------------------------------------
(* checkRecalculation: a scan if one was asked for or the delay is over,   *)
(* and a new panel if anything has happened.  A process keeps its tag for  *)
(* as long as the list has its pid.                                        *)

Scan ==
  /\ \E alive \in SUBSET Pid :
       /\ list' \in SetToSeqs(alive)
       /\ \E hidden \in SUBSET (alive \cap Hideable) : show' = alive \ hidden
       /\ tag' = tag \cap alive
  /\ UNCHANGED userOnly

(* Defect: the panel is left alone after a scan that no key asked for. *)
CheckWithScanOnly ==
  /\ pc = "check"
  /\ UNCHANGED <<following, inc, menu>>
  /\ Scan
  /\ IF redraw THEN RebuildPanel ELSE UNCHANGED panelVars
  /\ rescan' = FALSE /\ redraw' = TRUE
  /\ signalled' = {}
  /\ pc' = "read"

CheckWithScan ==
  /\ pc = "check"
  /\ UNCHANGED <<following, inc, menu>>
  /\ Scan
  /\ RebuildPanel
  /\ rescan' = FALSE /\ redraw' = TRUE
  /\ signalled' = {}
  /\ pc' = "read"

CheckWithoutScan ==
  /\ pc = "check"
  /\ UNCHANGED <<following, inc, menu, redraw, rescan>>
  /\ ~rescan
  /\ UNCHANGED listVars
  /\ IF redraw THEN RebuildPanel ELSE UNCHANGED panelVars
  /\ signalled' = {}
  /\ pc' = "read"

(* getch gave up: nothing to handle, and nothing to draw. *)
Timeout ==
  /\ pc = "read"
  /\ pc' = "check" /\ redraw' = FALSE
  /\ UNCHANGED <<listVars, panelVars, following, inc, menu, signalled, rescan>>
-----------------------------------------------------------------------------
(* Keys of the main panel, with no search or filter line open.             *)
(* MainPanel_eventHandler stops following the process after every key      *)
(* whose action does not ask to keep it (HTOP_KEEP_FOLLOWING), and orders  *)
(* a scan after every key whose action asks for HTOP_REFRESH: its test for *)
(* HTOP_RECALCULATE, which contains that bit, is met by both.              *)

KeyRead ==
  /\ pc = "read"
  /\ pc' = "check" /\ redraw' = TRUE

MainKey(command) ==
  /\ KeyRead
  /\ command \in Commands
  /\ menu = NoMenu
  /\ inc.active = "none"

Move ==
  /\ MainKey("move")
  /\ \E to \in {selected - 1, selected + 1, selected - Page, selected + Page,
                0, Len(rows) - 1} :
       selected' = Clamp(to, Len(rows))
  /\ following' = NoPid
  /\ UNCHANGED <<listVars, rows, inc, menu, signalled, rescan>>

(* A click, or the digits of a pid: some row is selected, and a click on   *)
(* the row that was selected already expands or collapses it.              *)
Select ==
  /\ MainKey("select")
  /\ rows # <<>>
  /\ selected' \in 0 .. Len(rows) - 1
  /\ rescan' \in {rescan, selected' = selected}
  /\ following' = NoPid
  /\ UNCHANGED <<listVars, rows, inc, menu, signalled>>

(* Keys that change what the next scan shows: H, K, + and the sort keys,   *)
(* of which the last keep what is followed; and a click on a column's      *)
(* title, also while a text is typed.                                      *)
Toggle ==
  /\ KeyRead
  /\ "toggle" \in Commands
  /\ menu = NoMenu
  /\ rescan' = TRUE
  /\ following' \in {following, NoPid}
  /\ UNCHANGED <<listVars, panelVars, inc, menu, signalled>>

Tag ==
  /\ MainKey("tag")
  /\ IF rows = <<>> THEN UNCHANGED <<tag, selected>>
     ELSE /\ tag' = SymDiff(tag, {SelectedPid})
          /\ selected' = Clamp(selected + 1, Len(rows))
  /\ following' = NoPid
  /\ UNCHANGED <<list, show, userOnly, rows, inc, menu, signalled, rescan>>

(* tagAllChildren: down the rows, and not below one that has its tag. *)
Family(root) ==
  LET closed(S) == root \in S /\ \A p \in ToSet(rows) \ tag :
                                    Parent[p] \in S \ {NoPid} => p \in S
  IN  {p \in Pid : \A S \in SUBSET Pid : closed(S) => p \in S}

TagAllChildren ==
  /\ MainKey("children")
  /\ IF rows = <<>> THEN UNCHANGED tag ELSE tag' = tag \cup Family(SelectedPid)
  /\ following' = NoPid
  /\ UNCHANGED <<list, show, userOnly, panelVars, inc, menu, signalled, rescan>>

(* The tags of the rows are removed, not those of the list. *)
UntagAll ==
  /\ MainKey("untag")
  /\ tag' = tag \ ToSet(rows)
  /\ following' = NoPid
  /\ rescan' = TRUE
  /\ UNCHANGED <<list, show, userOnly, panelVars, inc, menu, signalled>>

Follow ==
  /\ MainKey("follow")
  /\ following' = SelectedPid
  /\ UNCHANGED <<listVars, panelVars, inc, menu, signalled, rescan>>

(* F3 and F4, the latter with the filter as it was left. *)
Activate(mode) ==
  /\ MainKey(mode)
  /\ inc' = [inc EXCEPT !.active = mode]
  /\ rescan' = TRUE
  /\ UNCHANGED <<listVars, panelVars, following, menu, signalled>>
-----------------------------------------------------------------------------
(* Keys while the search or filter line is open (IncSet_handleKey).  A     *)
(* search takes place in the rows as they are, before a changed filter has *)
(* been applied.  What it found is followed; a key that searches nothing   *)
(* leaves "found" as it was.                                               *)

IncKey ==
  /\ KeyRead
  /\ menu = NoMenu
  /\ inc.active # "none"

Text == inc.len[inc.active]

(* MainPanel_eventHandler after IncSet_handleKey. *)
FollowFound ==
  following' = IF inc'.found /\ rows # <<>> THEN rows[selected' + 1] ELSE NoPid

(* A letter is typed (len = Text + 1), removed (len = Text - 1), or neither *)
(* (a letter too many, another size of the terminal).                      *)
Edited(len) ==
  LET first == FirstRow(rows, {p \in Pid : Matches(p, len)})
  IN  /\ inc' = [inc EXCEPT
                   !.len[inc.active] = len,
                   !.filtering = IF inc.active = "filter" THEN len > 0 ELSE @,
                   !.found = first >= 0]
      /\ selected' = IF first >= 0 THEN first ELSE selected

Type ==
  /\ IncKey
  /\ \/ Text < MaxText /\ Edited(Text + 1)
     \/ Text > 0 /\ Edited(Text - 1)
     \/ Edited(Text)
     \/ Text = 0 /\ UNCHANGED <<inc, selected>>         \* nothing to remove
  /\ FollowFound
  /\ rescan' = (rescan \/ inc'.len["filter"] # inc.len["filter"])
  /\ UNCHANGED <<listVars, rows, menu, signalled>>

(* F3: the next row below, and then from the top, that matches. *)
NextMatch ==
  /\ IncKey
  /\ LET below == {i \in selected + 1 .. Len(rows) - 1 : Matches(Row(i), Text)}
         above == {i \in 0 .. selected - 1 : Matches(Row(i), Text)}
     IN  selected' = IF below # {} THEN Min(below)
                     ELSE IF above # {} THEN Min(above) ELSE selected
  /\ UNCHANGED inc
  /\ FollowFound
  /\ rescan' = (rescan \/ rows = <<>>)
  /\ UNCHANGED <<listVars, rows, menu, signalled>>

(* Any other key closes the line.  A search starts anew the next time, a   *)
(* filter stays unless the key is Esc.  A click selects a row first.       *)
CloseInc ==
  /\ IncKey
  /\ \E escape \in BOOLEAN :
       inc' = IF inc.active = "search" \/ escape
              THEN [inc EXCEPT !.len[inc.active] = 0, !.active = "none",
                               !.filtering = @ /\ inc.active # "filter"]
              ELSE [inc EXCEPT !.active = "none"]
  /\ \/ UNCHANGED selected
     \/ "select" \in Commands /\ rows # <<>> /\ selected' \in 0 .. Len(rows) - 1
  /\ FollowFound
  /\ rescan' = (rescan \/ inc.active = "filter")
  /\ UNCHANGED <<listVars, rows, menu, signalled>>
-----------------------------------------------------------------------------
(* Action_pickFromVector: the menu is put beside the panel and a new loop  *)
(* is run, which begins with a scan.  The process that was selected is     *)
(* followed meanwhile, unless another one is followed already.             *)

OpenMenu(kind) ==
  /\ MainKey(kind)
  /\ menu' = [kind |-> kind, pid |-> SelectedPid, unfollow |-> following = NoPid]
  /\ following' = IF following = NoPid THEN SelectedPid ELSE following
  /\ rescan' = TRUE
  /\ UNCHANGED <<listVars, panelVars, inc, signalled>>

MenuKey ==
  /\ KeyRead
  /\ menu # NoMenu

(* Up and down in the menu; clicks on the panel beside it do nothing. *)
MoveInMenu ==
  /\ MenuKey
  /\ UNCHANGED <<listVars, panelVars, following, inc, menu, signalled, rescan>>

(* The actions that open a menu end the following, but for a new sort key, *)
(* which keeps what was followed before the menu.                          *)
CloseMenu ==
  /\ MenuKey
  /\ menu' = NoMenu
  /\ rescan' = TRUE

EndFollowing == following' = NoPid

(* Defect: Enter counts whenever a process is selected. *)
ConfirmedAny == rows # <<>>

(* Enter counts only if the same process is still selected. *)
Confirmed == rows # <<>> /\ SelectedPid = menu.pid

CancelMenu ==
  /\ CloseMenu
  /\ EndFollowing
  /\ UNCHANGED <<listVars, panelVars, inc, signalled>>

(* MainPanel_foreachProcess: the rows that have a tag, or else the         *)
(* selected one.                                                           *)
Targets ==
  IF tag \cap ToSet(rows) # {} THEN tag \cap ToSet(rows) ELSE {SelectedPid}

SendSignal ==
  /\ CloseMenu
  /\ menu.kind = "kill" /\ Confirmed
  /\ EndFollowing
  /\ signalled' = Targets
  /\ UNCHANGED <<listVars, panelVars, inc>>

PickUser ==
  /\ CloseMenu
  /\ menu.kind = "user" /\ Confirmed
  /\ EndFollowing
  /\ userOnly' \in BOOLEAN
  /\ UNCHANGED <<list, show, tag, panelVars, inc, signalled>>

PickSort ==
  /\ CloseMenu
  /\ menu.kind = "sort" /\ Confirmed
  /\ following' = IF menu.unfollow THEN NoPid ELSE following
  /\ UNCHANGED <<listVars, panelVars, inc, signalled>>

Next ==
  \/ CheckWithScan \/ CheckWithoutScan \/ Timeout
  \/ Move \/ Select \/ Toggle \/ Follow
  \/ Tag \/ TagAllChildren \/ UntagAll
  \/ \E mode \in Modes : Activate(mode)
  \/ Type \/ NextMatch \/ CloseInc
  \/ \E kind \in {"kill", "user", "sort"} : OpenMenu(kind)
  \/ MoveInMenu \/ CancelMenu \/ SendSignal \/ PickUser \/ PickSort

Spec == Init /\ [][Next]_vars
-----------------------------------------------------------------------------
TypeOK ==
  /\ Live \subseteq Pid /\ show \subseteq Live /\ tag \subseteq Live
  /\ ToSet(rows) \subseteq Pid
  /\ selected \in 0 .. Upper(Len(rows) - 1, 0)
  /\ following \in Pid \cup {NoPid}
  /\ inc \in [active : Modes \cup {"none"}, len : [Modes -> 0 .. MaxText],
              filtering : BOOLEAN, found : BOOLEAN]
  /\ menu \in [kind : {"none", "kill", "user", "sort"}, pid : Pid \cup {NoPid}, unfollow : BOOLEAN]
  /\ signalled \subseteq Pid
  /\ {userOnly, redraw, rescan} \subseteq BOOLEAN
  /\ pc \in {"check", "read"}

(* Whenever a key is read, the rows are what list, filter, user and hidden *)
(* processes say, in the order of the list.  The rows are pointers to the  *)
(* processes, and a scan frees those that are gone: none of them is left   *)
(* on the panel, and the user acts on what is true.                        *)
RowsAreCurrent == TypeOK /\ (pc = "read" => rows = Visible)

(* Whenever a key is read and the followed process is on the panel, it is  *)
(* the selected one: through scans, sorts, filters, searches and menus.    *)
FollowedIsSelected ==
  pc = "read" /\ following \in ToSet(rows) => SelectedPid = following

(* A signal reaches only processes with a tag and the one that was         *)
(* selected when the menu was opened, however the list moved since.        *)
SignalIsConfirmed ==
  [][signalled' \subseteq signalled \cup tag \cup {menu.pid}]_vars

(* The manual: if processes were tagged the signal goes to all of them, if *)
(* none is it goes to the selected one.                                    *)
SignalGoesToTagged ==
  [][SendSignal => signalled' = IF tag # {} THEN tag ELSE {SelectedPid}]_vars
=============================================================================
