------------------------------ MODULE MainLoop ------------------------------
(***************************************************************************)
(* The timing of ScreenManager_run: when the process list is scanned, when *)
(* it is sorted, and when the loop gives up.  The main screen, its menus   *)
(* and the setup screen each run this loop.                                *)
(*                                                                         *)
(* getch waits for as long as the delay between two scans (halfdelay), and *)
(* returns ERR if no key came.  The loop also makes an ERR, at once, of a  *)
(* click that hits nothing (on the meters, between the labels of the       *)
(* function bar), and getch returns one at once when the terminal is gone. *)
(* What the keys do to list and panel is the module MainScreen.            *)
(***************************************************************************)
EXTENDS Integers

CONSTANTS
  ResetSortTimeout,     \* waits without a sort after the selection was moved
  CloseLimit,           \* ERRs in a row that end the loop
  Events                \* what getch returns in this model

(* "timeout": ERR after the whole delay; "stray": ERR at once;             *)
(* "default": a key that no handler takes, as those that move the          *)
(* selection; "handled", "refresh": keys that a handler takes, with the    *)
(* result HANDLED alone, or with REDRAW and RESCAN; "quit".                *)
AllEvents == {"timeout", "stray", "default", "handled", "refresh", "quit"}

ASSUME MainLoopAssumption ==
  /\ ResetSortTimeout \in Nat /\ CloseLimit \in Nat \ {0}
  /\ Events \subseteq AllEvents

VARIABLES
  point,        \* "first" before the first check, then "check", "read", or "closed"
  ch,           \* what getch returned last
  sortTimeout, closeTimeout,
  timedOut, rescan,
  treeView,     \* settings->treeView
  scanned,      \* the last check has scanned
  sorted,       \* the last check has scanned and sorted the list
  burst,        \* history: ERRs at once since a key or the end of a delay
  adjusted      \* the clock has been set back (bound: it is once)

loopVars == <<point, ch, sortTimeout, closeTimeout, timedOut, rescan, treeView, scanned, sorted,
              burst, adjusted>>

Upper(a, b) == IF a > b THEN a ELSE b
IsErr(c) == c \in {"timeout", "stray"}

(* oldTime is 0, so the first check scans. *)
LoopInit ==
  /\ point = "first"
  /\ ch = "timeout"
  /\ sortTimeout = 0 /\ closeTimeout = 0
  /\ timedOut = TRUE /\ rescan = FALSE
  /\ treeView \in BOOLEAN
  /\ scanned = FALSE /\ sorted = FALSE
  /\ burst = 0 /\ adjusted = FALSE
-----------------------------------------------------------------------------

SortIsDue == sortTimeout = 0 \/ treeView

(* Defect: a scan only if a key has asked for it. *)
ScanIsDueOnDemand(over, back) == rescan \/ back

ScanIsDue(over, back) == rescan \/ over \/ back

(* checkRecalculation: the delay is over, or the clock is behind the time  *)
(* of the last scan, from where the delay then counts, or neither.         *)
Check(over, back) ==
  /\ point \in {"first", "check"}
  /\ timedOut' = over
  /\ scanned' = ScanIsDue(over, back)
  /\ IF ScanIsDue(over, back)
     THEN /\ sorted' = SortIsDue
          /\ sortTimeout' = IF SortIsDue THEN 1 ELSE sortTimeout
     ELSE /\ sorted' = FALSE
          /\ UNCHANGED sortTimeout
  /\ rescan' = FALSE
  /\ burst' = IF over THEN 0 ELSE burst
  /\ point' = "read"
  /\ UNCHANGED <<ch, closeTimeout, treeView>>

(* After a wait of the whole delay it is over by the clock too, unless the *)
(* clock was set; after any other event it may be.                         *)
CheckInTime == ch # "timeout" /\ Check(FALSE, FALSE) /\ UNCHANGED adjusted
CheckTimedOut == Check(TRUE, FALSE) /\ UNCHANGED adjusted

(* The clock was set back: behind the last scan, or by less than has       *)
(* passed since, and then a wait may end without a scan.                   *)
CheckSetBack ==
  /\ ~adjusted /\ adjusted' = TRUE
  /\ point # "first"
  /\ \E back \in BOOLEAN : Check(FALSE, back)
-----------------------------------------------------------------------------
Read(event) ==
  /\ point = "read"
  /\ event \in Events
  /\ ch' = event
  /\ UNCHANGED <<timedOut, scanned, sorted, adjusted>>

(* Defect: the wait ends one step too late to be seen. *)
DecrementedByTwo == IF sortTimeout < 1 THEN -1 ELSE sortTimeout - 2

(* sortTimeout goes on falling below 0.  It is only ever compared with 0,  *)
(* so -1 stands for every negative value (bound).                          *)
Decremented == IF sortTimeout < 0 THEN -1 ELSE sortTimeout - 1

(* Defect: every ERR counts, the waits of an idle user too. *)
ClosingIdle == IF IsErr(ch) THEN closeTimeout + 1 ELSE 0

(* An ERR that follows an ERR within the delay counts towards the end. *)
Closing ==
  IF IsErr(ch) /\ ~timedOut THEN closeTimeout + 1 ELSE 0

ReadErr(event) ==
  /\ Read(event)
  /\ sortTimeout' = Decremented
  /\ closeTimeout' = Closing
  /\ point' = IF Closing = CloseLimit THEN "closed" ELSE "check"
  /\ UNCHANGED <<rescan, treeView>>

ReadTimeout == ReadErr("timeout") /\ UNCHANGED burst
ReadStray == ReadErr("stray") /\ burst' = burst + 1

ReadKey(event) ==
  /\ Read(event)
  /\ point' = "check"
  /\ burst' = 0
  /\ UNCHANGED closeTimeout

ReadDefault ==
  /\ ReadKey("default")
  /\ sortTimeout' = ResetSortTimeout
  /\ UNCHANGED <<rescan, treeView>>

ReadHandled ==
  /\ ReadKey("handled")
  /\ UNCHANGED <<sortTimeout, rescan, treeView>>

(* Every key whose action asks for HTOP_REFRESH: MainPanel tests the        *)
(* reaction against HTOP_RECALCULATE, which contains that bit, so each of   *)
(* them gets a scan.  Some of them switch the tree view.                   *)
ReadRefresh ==
  /\ ReadKey("refresh")
  /\ rescan' = TRUE /\ sortTimeout' = 0
  /\ treeView' \in BOOLEAN

ReadQuit ==
  /\ Read("quit")
  /\ point' = "closed"
  /\ UNCHANGED <<sortTimeout, closeTimeout, rescan, treeView, burst>>

LoopNext ==
  \/ CheckInTime \/ CheckTimedOut \/ CheckSetBack
  \/ ReadTimeout \/ ReadStray
  \/ ReadDefault \/ ReadHandled \/ ReadRefresh \/ ReadQuit

(* The loop runs, and getch returns at the latest after the delay.  The    *)
(* clock goes on: a loop that checks again and again finds the delay over  *)
(* some time, however short its waits are.                                 *)
Fairness ==
  /\ WF_loopVars(LoopNext)
  /\ SF_loopVars(CheckTimedOut)

LoopSpec == LoopInit /\ [][LoopNext]_loopVars
FairSpec == LoopSpec /\ Fairness
-----------------------------------------------------------------------------
LoopTypeOK ==
  /\ point \in {"first", "check", "read", "closed"}
  /\ ch \in AllEvents
  /\ sortTimeout \in -1 .. Upper(ResetSortTimeout, 1)
  /\ closeTimeout \in 0 .. CloseLimit
  /\ {timedOut, rescan, treeView, scanned, sorted, adjusted} \subseteq BOOLEAN
  /\ burst \in Nat

(* The loop ends by itself only if ERRs came at once and in numbers within *)
(* one delay, as from a terminal that is gone: never for an idle user.     *)
(* (Two of them may have been waits: the last one, and one during which    *)
(* the clock was set back.)                                                *)
ClosesOnlyInBurst == point = "closed" /\ ch # "quit" => burst >= CloseLimit - 2

(* The list is scanned for ever, whatever the user does, until the end. *)
ScansForever == []<>(scanned \/ point = "closed")

(* A user who leaves keyboard and mouse alone finds the list sorted again  *)
(* and again: -s and the sort keys "sort by this column".  It is not so:   *)
(* after a click that hits nothing, or a wait during which the clock was   *)
(* set back a little, the countdown to the sort may pass 0.                *)
IdleIsSorted == <>[](ch = "timeout" /\ point # "closed") => []<>sorted

(* It is so, after any keys, as long as a scan has followed each ERR, by   *)
(* whatever checkRecalculation scans for: a moved selection holds the sort *)
(* back for some waits and then it goes on.                                *)
IdleIsSortedAfterKeys == [](point = "read" /\ IsErr(ch) => scanned) => IdleIsSorted

=============================================================================
