---------------------------- MODULE ProcessOrder ----------------------------
(***************************************************************************)
(* The sorted list of processes: a scan changes, adds and removes          *)
(* processes, the user picks the column and the order in the "Sort by"     *)
(* menu, with a key or by a click on a title, and ProcessList_sort puts    *)
(* the list in order with the compare function of the processes            *)
(* (ProcessCompare) and the insertion sort of Vector (Containers).         *)
(*                                                                         *)
(* Of the values of a process only the one in the sort column is a part of *)
(* the state; with another column another value counts, which is any.      *)
(*                                                                         *)
(* Definitions marked "Defect" are plausible mistakes, not the program.    *)
(***************************************************************************)
EXTENDS ProcessCompare, Containers, Sums

CONSTANTS
  OrderPid,      \* process ids
  FieldLists,    \* the columns on the screen, as the user may have set them up
  TitleLen,      \* how long the title of each column is
  MaxScroll      \* bound: the columns of text the panel is scrolled by

ASSUME OrderAssumption ==
  /\ \A p \in OrderPid : p \in Nat /\ 2 * p < LongModulus
  /\ LongModulus > 512 /\ MaxScroll \in Nat
  /\ FieldLists \subseteq Seq(Columns)
  /\ \A f \in FieldLists : \A i \in DOMAIN f : TitleLen[f[i]] \in Nat \ {0}

VARIABLES
  listed,         \* ProcessList.processes: the pid and the value of each
  sortKey,        \* Settings.sortKey
  sortDirection,  \* Settings.direction
  asTree,         \* Settings.treeView
  fields,         \* Settings.fields
  scrolled        \* Panel.scrollH of the list

orderSettings == <<sortKey, sortDirection, asTree, fields, scrolled>>
orderVars == <<listed, orderSettings>>

\* The keys M, P and T sort by these, whether they are on the screen or not.
KeyColumns == {"PERCENT_MEM", "PERCENT_CPU", "TIME"}

\* What a column may show of a process.
ValuesOf(column) ==
  CASE column = "IO_PRIORITY"      -> {0, IoPriority(1, 4), IoPriority(2, 4), IoPriority(2, 5)}
    [] column = "STATE"            -> {68, Idle, 82}
    [] column \in Text             -> {NoText, 0, 1, 3}
    [] column \in Rate             -> {-RateUnit, 0, 1, RateUnit, 2 * RateUnit - 1}
    [] column \in {"NICE", "TPGID"} -> {-1, 0, 1}
    [] OTHER                       -> {0, 1, 3}

NicesOf(column) == IF column = "IO_PRIORITY" THEN {0, 19} ELSE {0}

\* What is read of a process.
ReadingsOf(p, column) == [pid : {p}, value : ValuesOf(column), nice : NicesOf(column)]

Listed == {listed[i].pid : i \in DOMAIN listed}

OrderInit ==
  /\ listed = << >>
  /\ fields \in FieldLists /\ scrolled = 0
  /\ sortKey \in Range(fields) /\ sortDirection \in {1, -1} /\ asTree \in BOOLEAN

-----------------------------------------------------------------------------
(* What a scan does to the list. *)

AddProcess(p) ==
  /\ p \notin Listed
  /\ \E r \in ReadingsOf(p, sortKey) : listed' = Append(listed, r)
  /\ UNCHANGED orderSettings

RemoveProcess(p) ==
  /\ \E i \in DOMAIN listed : listed[i].pid = p /\ listed' = RemoveAt(listed, i)
  /\ UNCHANGED orderSettings

UpdateProcess(p) ==
  /\ \E i \in DOMAIN listed, r \in ReadingsOf(p, sortKey) :
        listed[i].pid = p /\ listed' = [listed EXCEPT ![i] = r]
  /\ UNCHANGED orderSettings

-----------------------------------------------------------------------------
(* Sorting. *)

CompareListed(key, direction) ==
  [pair \in Range(listed) \X Range(listed) |-> Compare(key, direction, pair[1], pair[2])]

\* ProcessList_sort of a list.
SortList ==
  /\ ~asTree
  /\ UNCHANGED orderSettings
  /\ LET v == VectorInsertionSort([array |-> [i \in 0..(Len(listed) - 1) |-> listed[i + 1]],
                                   items |-> Len(listed), growthRate |-> 1],
                                  CompareListed(sortKey, sortDirection))
     IN listed' = Elements(v)

\* ProcessList_sort of a tree, which leaves the rows in the order of the tree.
SortTree ==
  /\ asTree
  /\ \E order \in [DOMAIN listed -> DOMAIN listed] :
        /\ IsInjective(order)
        /\ listed' = [i \in DOMAIN listed |-> listed[order[i]]]
  /\ UNCHANGED orderSettings

-----------------------------------------------------------------------------
(* The user. *)

\* With another column it is the values of that column which count; bound: they are
\* the same to begin with.
SortBy(key) ==
  /\ sortKey' = key
  /\ IF key = sortKey THEN UNCHANGED listed
     ELSE \E v \in ValuesOf(key), n \in NicesOf(key) :
            listed' = [i \in DOMAIN listed |-> [pid |-> listed[i].pid, value |-> v, nice |-> n]]

\* Action_setSortKey
SetSortKey(key) == SortBy(key) /\ sortDirection' = 1 /\ asTree' = FALSE

InvertOrder == sortDirection' = IF sortDirection = 1 THEN -1 ELSE 1

SortMenu == \E i \in DOMAIN fields : SetSortKey(fields[i]) /\ UNCHANGED <<fields, scrolled>>

SortKeys == \E key \in KeyColumns : SetSortKey(key) /\ UNCHANGED <<fields, scrolled>>

InvertKey == InvertOrder /\ UNCHANGED <<listed, sortKey, asTree, fields, scrolled>>

TreeKey ==
  /\ asTree' = ~asTree
  /\ sortDirection' = IF asTree' THEN 1 ELSE sortDirection
  /\ UNCHANGED <<listed, sortKey, fields, scrolled>>

ScrollList(n) == scrolled' = n /\ UNCHANGED <<listed, sortKey, sortDirection, asTree, fields>>

-----------------------------------------------------------------------------
(* The header: the titles side by side, and the title that a click means. *)

TitleLengths == [i \in DOMAIN fields |-> TitleLen[fields[i]]]

\* ProcessList_printHeader appends the titles: the column each cell of the header
\* belongs to.
HeaderCells ==
  LET printed[n \in 0..Len(fields)] ==
        IF n = 0 THEN << >> ELSE printed[n - 1] \o [c \in 1..TitleLengths[n] |-> fields[n]]
  IN printed[Len(fields)]

\* Where the title of a column begins.
TitleAt(i) == SumTo(TitleLengths, i - 1)

\* ProcessList_keyAt: a click on the last cell of a title and the one behind it
\* are both within its bounds; the first title within whose bounds it is counts.
KeyAt(at) ==
  LET within == {i \in DOMAIN fields : at \in TitleAt(i)..(TitleAt(i) + TitleLengths[i])}
  IN IF within = {} THEN "COMM" ELSE fields[CHOOSE i \in within : \A j \in within : i <= j]

\* Defect: the cells are counted from 0.
ClickedFromZero(x) == KeyAt(scrolled + x)

Clicked(x) == KeyAt(scrolled + x + 1)

HeaderClick(x) ==
  /\ IF Clicked(x) = sortKey
     THEN /\ InvertOrder /\ asTree' = FALSE
          /\ UNCHANGED <<listed, sortKey>>
     ELSE SetSortKey(Clicked(x))
  /\ UNCHANGED <<fields, scrolled>>

OrderNext ==
  \/ \E p \in OrderPid : AddProcess(p) \/ RemoveProcess(p) \/ UpdateProcess(p)
  \/ SortList \/ SortTree
  \/ SortMenu \/ SortKeys \/ InvertKey \/ TreeKey
  \/ \E n \in 0..MaxScroll : ScrollList(n)
  \/ \E x \in 0..(Len(HeaderCells) - 1) : HeaderClick(x)

OrderSpec == OrderInit /\ [][OrderNext]_orderVars

-----------------------------------------------------------------------------
(* Properties.                                                             *)

\* Where each process of the new list was in the old one.
PlaceBefore(i) == CHOOSE j \in DOMAIN listed : listed[j].pid = listed'[i].pid

\* A sort keeps every process, puts none directly behind one it belongs above
\* and, unless the column is a rate, whose parts of a byte are not compared, none
\* anywhere behind it; those that belong nowhere in particular keep their order,
\* so that no rows jump when nothing has changed: Vector_insertionSort with
\* Process_compare and the compare functions of the platforms.
SortedByColumn ==
  [][~asTree /\ SortList =>
       LET Over(i, j) == BelongsAbove(sortKey, sortDirection, listed'[i], listed'[j])
           Tied(i, j) == ~Over(i, j) /\ ~Over(j, i)
       IN /\ Range(listed') = Range(listed) /\ Len(listed') = Len(listed)
          /\ \A j \in DOMAIN listed' : \A i \in 1..(j - 1) :
               i = j - 1 \/ sortKey \notin Rate =>
                  /\ ~Over(j, i)
                  /\ Tied(i, j) => PlaceBefore(i) < PlaceBefore(j)]_orderVars

\* A click on a cell of a title means its column, also in a panel that is
\* scrolled: ProcessList_keyAt is told the cell that MainPanel has worked out
\* from the place of the click.
ClickFindsTitle ==
  \A x \in 0..(Len(HeaderCells) - 1 - scrolled) : Clicked(x) = HeaderCells[scrolled + x + 1]
=============================================================================
