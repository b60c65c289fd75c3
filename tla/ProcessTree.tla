---------------------------- MODULE ProcessTree ----------------------------
(***************************************************************************)
(* The tree view: the parents a scan reads, one process after the other,   *)
(* while processes fork and exit, and ProcessList_sort, which turns the    *)
(* list into a tree.  ProcessScan has the details of the reading; here a   *)
(* process is read, its threads with it, in one step.                      *)
(*                                                                         *)
(* Definitions marked "Defect" are plausible mistakes, not the program.    *)
(***************************************************************************)
EXTENDS Integers, FiniteSets, SequencesExt, Sums

CONSTANTS
  Pid,         \* process and thread ids
  Reaper,      \* the pid of init, which inherits orphans
  Directions,  \* the sort orders the user may choose: 1 and -1
  Toggles,     \* the pids whose "showChildren" the user may toggle
  ForkPid,     \* bound: the pids handed out while htop runs
  PidReuse,    \* whether a pid may be given up and handed out in one scan
  MaxChanges   \* bound: how often the process table changes in a behaviour

ASSUME TreeAssumption ==
    /\ Pid \subseteq Nat \ {0} /\ IsFiniteSet(Pid) /\ Reaper \in Pid
    /\ Directions \subseteq {1, -1} /\ 1 \in Directions
    /\ Toggles \subseteq Pid /\ ForkPid \subseteq Pid /\ PidReuse \in BOOLEAN /\ MaxChanges \in Nat

VARIABLES
  os,          \* the parent and the thread group of each pid; tgid 0: not in use
  changes,     \* bound: the changes of the process table so far
  freed,       \* the pids given up since the scan began
  ps,          \* the fields of the process with each pid
  processes,   \* ProcessList.processes
  processes2,  \* ProcessList.processes2, the tree as far as it is built
  direction,   \* Settings.direction
  phase,       \* where the main loop is; "drawn" when the tree is up to date
  todo,        \* the entries of /proc still to be read
  seen,        \* the processes this scan has read
  visible      \* history: those the scan let be shown

osVars == <<os, changes, freed>>
listVars == <<ps, processes, processes2>>
scanVars == <<phase, todo, seen, visible>>
treeVars == <<osVars, listVars, direction, scanVars>>

Unused == [ppid |-> 0, tgid |-> 0]

\* "indent" is the set of the columns that hold a vertical line, "last" its sign.
New == [ppid |-> 0, tgid |-> 0, show |-> TRUE, showChildren |-> TRUE,
        indent |-> {}, last |-> FALSE]

Ancestors(t, p) ==
    LET up[n \in 0..Cardinality(Pid)] ==
            IF n = 0 THEN {p}
            ELSE up[n - 1] \cup {t[q].ppid : q \in up[n - 1] \cap Pid}
    IN up[Cardinality(Pid)]

\* Process tables: parents are processes, in no circle; a thread has a process.
OsTable == {t \in [Pid -> [ppid : Pid \cup {0}, tgid : Pid \cup {0}]] :
              /\ t[Reaper] = [ppid |-> 0, tgid |-> Reaper]
              /\ \A p \in Pid :
                    /\ t[p].tgid = 0 => t[p] = Unused
                    /\ t[p].tgid \notin {0, p} =>
                          t[p].ppid = 0 /\ t[t[p].tgid].tgid = t[p].tgid
                    /\ t[p].ppid # 0 =>
                          /\ t[t[p].ppid].tgid = t[p].ppid
                          /\ p \notin Ancestors(t, t[p].ppid)}

TreeInit ==
    /\ os \in OsTable
    /\ changes \in {0, MaxChanges} /\ freed = {}
    /\ ps = [p \in Pid |-> New]
    /\ processes = << >> /\ processes2 = << >>
    /\ direction = 1
    /\ phase = "idle" /\ todo = {} /\ seen = {} /\ visible = {}

-----------------------------------------------------------------------------
(* The operating system.                                                   *)

IsLeader(p) == os[p].tgid = p

OsChange(newOs) ==
    /\ changes < MaxChanges
    /\ changes' = changes + 1
    /\ os' = newOs
    /\ UNCHANGED <<listVars, direction, scanVars>>

\* A new process or thread, under a pid that is not in use.
Fork == \E p \in Pid, q \in ForkPid :
    /\ IsLeader(p) /\ os[q].tgid = 0
    /\ PidReuse \/ q \notin freed
    /\ \/ OsChange([os EXCEPT ![q] = [ppid |-> p, tgid |-> q]])
       \/ OsChange([os EXCEPT ![q] = [ppid |-> 0, tgid |-> p]])
    /\ UNCHANGED freed

\* A process ends, with its threads; its children go to init.
Exit == \E p \in Pid \ {Reaper} :
    /\ IsLeader(p)
    /\ OsChange([q \in Pid |-> IF os[q].tgid = p THEN Unused
                               ELSE IF os[q].ppid = p THEN [os[q] EXCEPT !.ppid = Reaper]
                               ELSE os[q]])
    /\ freed' = freed \cup {q \in Pid : os[q].tgid = p}

Environment == Fork \/ Exit

-----------------------------------------------------------------------------
(* The scan.                                                               *)

StartScan ==
    /\ phase \in {"idle", "drawn"}
    /\ phase' = "scan"
    /\ todo' = {p \in Pid : IsLeader(p)}
    /\ seen' = {} /\ visible' = {} /\ freed' = {}
    /\ UNCHANGED <<os, changes, listVars, direction>>

\* The next process and its threads are read, unless it is gone.  A hidden one
\* is a thread the settings hide, or taken for one.  The threads are listed in the
\* order in which the directory has them.
Visit == \E p \in todo :
    /\ phase = "scan" /\ \A q \in todo : p <= q
    /\ todo' = todo \ {p}
    /\ LET read == {q \in Pid : IsLeader(p) /\ os[q].tgid = p}
           old == ToSet(processes)
       IN /\ seen' = seen \cup read
          /\ \E hidden \in SUBSET read :
               /\ visible' = (visible \ hidden) \cup (read \ hidden)
               /\ ps' = [q \in Pid |->
                    IF q \notin read THEN ps[q]
                    ELSE [IF q \in old THEN ps[q] ELSE New EXCEPT
                            !.ppid = os[q].ppid, !.tgid = p, !.show = q \notin hidden]]
          /\ \E new \in SetToSeqs(read \ old) : processes' = processes \o new
    /\ UNCHANGED <<osVars, processes2, direction, phase>>

EndScan ==
    /\ phase = "scan" /\ todo = {}
    /\ phase' = "sort"
    /\ processes' = Kept(processes, seen)
    /\ UNCHANGED <<osVars, ps, processes2, direction, todo, seen, visible>>

-----------------------------------------------------------------------------
(* ProcessList_sort in tree view.                                          *)

\* Process_getParentPid and Process_isChildOf.
ParentPid(p) == IF ps[p].tgid = p THEN ps[p].ppid ELSE ps[p].tgid
IsChildOf(q, p) == ps[q].tgid = p \/ (ps[q].tgid = q /\ ps[q].ppid = p)

\* Vector_quickSort by pid.
StartSort ==
    /\ phase = "sort"
    /\ phase' = "tree"
    /\ \E was \in [DOMAIN processes -> DOMAIN processes] :
          IsInjective(was) /\ processes' = [i \in DOMAIN processes |-> processes[was[i]]]
    /\ \A i, j \in DOMAIN processes : i < j => processes'[i] <= processes'[j]
    /\ UNCHANGED <<osVars, ps, processes2, direction, todo, seen, visible>>

\* One round of the bisection, of the entries l to r - 1, counted from 0.
BisectOnce(pid, b) ==
    LET c == (b.l + b.r) \div 2
    IN IF ~(b.l < b.r) \/ pid = processes[c + 1] THEN b
       ELSE IF pid < processes[c + 1] THEN [b EXCEPT !.r = c] ELSE [b EXCEPT !.l = c + 1]

\* Whether the bisection stops at an entry with this pid.
Bisect(pid) ==
    LET bounds[k \in 0..Len(processes)] ==
            IF k = 0 THEN [l |-> 0, r |-> Len(processes)] ELSE BisectOnce(pid, bounds[k - 1])
    IN bounds[Len(processes)].l < bounds[Len(processes)].r

\* Defect: in inverted order the first row is overwritten, not moved on.
AddRowOver(to, q) == IF direction = 1 THEN Append(to, q) ELSE <<q>> \o Tail(to)

\* Defect: the order is understood the wrong way round.
AddRowSwapped(to, q) == IF direction = 1 THEN <<q>> \o to ELSE Append(to, q)

\* A row enters the tree: under the rows there are, or above them.
AddRow(to, q) == IF direction = 1 THEN Append(to, q) ELSE <<q>> \o to

\* Defect: the line of a last child goes on below it.
IndentWithLine(indent, level, last) == indent \cup {level}

\* The lines left of what is below a row.
IndentBelow(indent, level, last) == IF last THEN indent ELSE indent \cup {level}

\* Defect: a subtree is expanded when its own root is.
ShowIfOpen(show, p) == ps[p].showChildren

\* Whether what is below a row is displayed.
ShowBelow(show, p) == show /\ ps[p].showChildren

\* What ProcessList_buildTree is called with: the processes, the list "from" that is left
\* of them, the tree "to" as far as it is built, and for whose children.
Process == [ppid : Pid \cup {0}, tgid : Pid \cup {0}, show : BOOLEAN, showChildren : BOOLEAN,
            indent : SUBSET Nat, last : BOOLEAN]
Building == [ps : [Pid -> Process], from : Seq(Pid), to : Seq(Pid)]
Call == [b : Building, pid : Pid, level : Nat, indent : SUBSET Nat, show : BOOLEAN]

\* The displayed children, which are taken from the last to the first.
IsChildHere(b, p) == {q \in Pid : b.ps[q].show /\ IsChildOf(q, p)}
Children(b, p) == Reverse(Kept(b.from, IsChildHere(b, p)))

\* The next child goes to the tree with its own children, as the call "below" leaves
\* them, and is hidden with them when the subtree is collapsed.
PlaceChild(below, c, b, q, last) ==
    LET row == [ps |-> [b.ps EXCEPT ![q].show = c.show], from |-> b.from, to |-> AddRow(b.to, q)]
        done == below[[b |-> row, pid |-> q, level |-> c.level + 1,
                       indent |-> IndentBelow(c.indent, c.level, last),
                       show |-> ShowBelow(c.show, q)]]
    IN [ps |-> [done.ps EXCEPT ![q] = [@ EXCEPT !.indent = c.indent \cup {c.level}, !.last = last]],
        from |-> done.from, to |-> done.to]

PlaceChildren(below, c) ==
    LET children == Children(c.b, c.pid)
        placed[i \in 0..Len(children)] ==
            IF i = 0
            THEN [ps |-> c.b.ps, from |-> Kept(c.b.from, Pid \ IsChildHere(c.b, c.pid)), to |-> c.b.to]
            ELSE PlaceChild(below, c, placed[i - 1], children[i], i = Len(children))
    IN placed[Len(children)]

\* ProcessList_buildTree.  A call takes a process off the list before the next one, so
\* that there are no more calls in each other than processes.
BuildTree(c) ==
    LET build[n \in 0..Len(c.b.from)] ==
            [d \in Call |-> IF n = 0 THEN d.b ELSE PlaceChildren(build[n - 1], d)]
    IN build[Len(c.b.from)][c]

\* Defect: a hidden entry is passed over.
IsShownRoot(p) ==
    ps[p].show /\ (p = ParentPid(p) \/ ~Bisect(ParentPid(p)))

\* An entry whose turn it is: hidden, its own parent, or of a parent not found.
IsRoot(p) == \/ ~ps[p].show
             \/ p = ParentPid(p)
             \/ ~Bisect(ParentPid(p))

\* One round of the loop: the first such entry becomes a root, with its tree.
TakeRoot ==
    /\ phase = "tree"
    /\ \E i \in DOMAIN processes :
        /\ IsRoot(processes[i]) /\ \A j \in 1..(i - 1) : ~IsRoot(processes[j])
        /\ LET p == processes[i]
               b == BuildTree([b |-> [ps |-> [ps EXCEPT ![p].indent = {}, ![p].last = FALSE],
                                      from |-> RemoveAt(processes, i),
                                      to |-> Append(processes2, p)],
                               pid |-> p, level |-> 0, indent |-> {},
                               show |-> ShowBelow(ps[p].show, p)])
           IN ps' = b.ps /\ processes' = b.from /\ processes2' = b.to
    /\ UNCHANGED <<osVars, direction, scanVars>>

\* The list is used up: the two change places.  A round that finds no root
\* leaves everything as it is, for ever, as the assertion is compiled out.
EndSort ==
    /\ phase = "tree" /\ processes = << >>
    /\ phase' = "drawn"
    /\ processes' = processes2 /\ processes2' = processes
    /\ UNCHANGED <<osVars, ps, direction, todo, seen, visible>>

-----------------------------------------------------------------------------
(* The user, between two refreshes; what is on the screen changes with the *)
(* next.                                                                   *)

Expanded(newPs) ==
    /\ phase \in {"idle", "drawn"}
    /\ ps' = newPs /\ phase' = "idle"
    /\ UNCHANGED <<osVars, processes, processes2, direction, todo, seen, visible>>

\* expandCollapse.
Toggle == \E p \in Toggles \cap ToSet(processes) :
    Expanded([ps EXCEPT ![p].showChildren = ~@])

\* The row of the parent, if there is one, is collapsed and selected.
CollapseIntoParent ==
    \E p \in {q \in ToSet(processes) : ps[q].show}, parent \in Toggles \cap ToSet(processes) :
        ps[parent].show /\ parent = ParentPid(p) /\ Expanded([ps EXCEPT ![parent].showChildren = FALSE])

\* The tree is left and shown again.
ExpandTree == Expanded([p \in Pid |-> [ps[p] EXCEPT !.showChildren = @ \/ p \in ToSet(processes)]])

InvertSortOrder ==
    /\ phase \in {"idle", "drawn"} /\ -direction \in Directions
    /\ direction' = -direction
    /\ phase' = "idle"
    /\ UNCHANGED <<osVars, listVars, todo, seen, visible>>

UserKey == Toggle \/ CollapseIntoParent \/ ExpandTree \/ InvertSortOrder

Refresh == Visit \/ EndScan \/ StartSort \/ TakeRoot \/ EndSort

TreeNext == Environment \/ StartScan \/ Refresh \/ UserKey

TreeSpec == TreeInit /\ [][TreeNext]_treeVars

-----------------------------------------------------------------------------
(* Properties.                                                             *)

Drawn == phase = "drawn"

TreeTypes ==
    /\ os \in [Pid -> [ppid : Pid \cup {0}, tgid : Pid \cup {0}]]
    /\ changes \in 0..MaxChanges /\ freed \subseteq Pid
    /\ ps \in [Pid -> Process] /\ \A p \in Pid : ps[p].indent \subseteq 0..Cardinality(Pid)
    /\ processes \in Seq(Pid) /\ processes2 \in Seq(Pid)
    /\ phase # "tree" => processes2 = << >>
    /\ direction \in Directions
    /\ phase \in {"idle", "scan", "sort", "tree", "drawn"}
    /\ todo \subseteq Pid /\ seen \subseteq Pid /\ visible \subseteq Pid

\* The forest of what the scan read: the parent of a listed process, if it is
\* listed; a process that is its own parent is a root.
Parent(p) == IF ParentPid(p) \in seen \ {p} THEN ParentPid(p) ELSE 0
Above(p) == (Ancestors([q \in seen |-> [ppid |-> Parent(q)]], p) \ {0, p})
Rows == Kept(processes, {p \in Pid : ps[p].show})

\* Sorting neither loses nor doubles a process, wherever the loop is: the two
\* assertions behind it.
TreeKeepsAll ==
    /\ TreeTypes
    /\ phase \in {"tree", "drawn"} =>
        LET all == processes \o processes2
        IN IsInjective(all) /\ ToSet(all) = seen

Depth(p) == Cardinality(Above(p))

\* A row is displayed exactly if the scan let it be and so it is with all the
\* rows above it in the tree, none of them collapsed.
ShownAsOpen ==
    \A p \in seen :
        ps[p].show <=> /\ p \in visible
                       /\ \A q \in Above(p) : q \in visible /\ ps[q].showChildren

\* The lines drawn left of a row are those of its ancestors that are not the last of
\* their siblings, at their depths, and its own.
LinesOfAncestors ==
    \A p \in seen : ps[p].show =>
        ps[p].indent = {Depth(q) - 1 : q \in {r \in Above(p) \cup {p} :
                            Depth(r) > 0 /\ (r = p \/ ~ps[r].last)}}

\* The rows of a subtree are next to each other, and its root is the first of them; only
\* the lowest of the children of a row is marked as their last.
SubtreesAreBlocks ==
    /\ \A p \in ToSet(Rows) :
          LET below == {i \in DOMAIN Rows : p \in Above(Rows[i])}
              row == CHOOSE i \in DOMAIN Rows : Rows[i] = p
          IN below = (row + 1)..(row + Cardinality(below))
    /\ \A i \in DOMAIN Rows : Parent(Rows[i]) # 0 =>
          (ps[Rows[i]].last <=> \A j \in DOMAIN Rows : Parent(Rows[j]) = Parent(Rows[i]) => j <= i)

\* What is drawn is the forest.  (In inverted order it need not have its subtrees together:
\* a second root goes below the first tree and what is below it above everything.)
RowsFollowTree == Drawn => ShownAsOpen /\ LinesOfAncestors /\ (direction = 1 => SubtreesAreBlocks)

\* "There should be no loop in the process tree" (ProcessList.c): every round of
\* the loop finds a root.  It takes at least that one off the list, so the loop
\* ends and a scan that has begun ends with a tree.
NoLoopInTree ==
    phase = "tree" /\ processes # << >> => \E i \in DOMAIN processes : IsRoot(processes[i])

\* The tree is the list that was scanned, and right in all it shows: ProcessList_sort
\* and ProcessList_buildTree.
TreeIsRight == TreeKeepsAll /\ RowsFollowTree
=============================================================================
