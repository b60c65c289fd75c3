--------------------------- MODULE ProcessActions ---------------------------
(***************************************************************************)
(* What the user does to processes: nice values, I/O priorities, CPU       *)
(* affinities and signals (Action.c, AffinityPanel.c, Affinity.c,          *)
(* IOPriorityPanel.c, SignalsPanel.c, Process.c, LinuxProcess.c).          *)
(*                                                                         *)
(* The list shows what the last scan, or htop's own last call, found; the  *)
(* kernel has the truth, which others change at any time, and may refuse.  *)
(* The rows and the selection are those of the module MainScreen; here a   *)
(* scan may hide some processes and move the selection to any row.         *)
(***************************************************************************)
EXTENDS Integers, FiniteSets, SequencesExt

CONSTANTS
  Procs,        \* pids
  MayHide,      \* processes that filter, user, tree and -p may leave out of the rows
  NiceMin, NiceMax,
  IoRows,       \* the I/O priorities of the menu, in its order
  IoOther,      \* one the kernel may have and no row has: (NONE, 4)
  Realtime,     \* those of IoRows in IOPRIO_CLASS_RT
  KernelCpus,   \* ids of the CPUs the kernel lets processes run on
  CpuCount,     \* pl->cpuCount
  LongBits,     \* bits of an unsigned long
  Signals,      \* numbers in the menu; 0 is its "Cancel"
  SIGTERM,
  MaxChanges    \* bound: changes by others

NoProc == 0     \* no row, no menu
IoNone == IoRows[1]
IoFailed == "failed"    \* -1 from the system call

ASSUME ProcessActionsAssumption ==
  /\ Procs \subseteq Nat \ {NoProc} /\ IsFiniteSet(Procs) /\ MayHide \subseteq Procs
  /\ NiceMin \in Int /\ NiceMax \in Int /\ NiceMin <= 0 /\ 0 <= NiceMax
  /\ Len(IoRows) > 0 /\ Realtime \subseteq ToSet(IoRows)
  /\ {IoOther, IoFailed} \cap ToSet(IoRows) = {}
  /\ KernelCpus \subseteq Nat /\ KernelCpus # {} /\ IsFiniteSet(KernelCpus)
  /\ {CpuCount, LongBits} \subseteq Nat \ {0}
  /\ {0, SIGTERM} \subseteq Signals
  /\ MaxChanges \in Nat

VARIABLES
  os,       \* kernel: alive pids, those that refuse htop, whether htop is root,
            \* and nice, io and cpus of each process
  pl,       \* the list: pids, what their objects hold, tags, the panel's rows
            \* and the selected one
  build,    \* ioFlag: some column shows I/O priorities; hwloc: affinities by libhwloc
  picking,  \* the menu that is open: its kind, the process, what is picked in it
  refresh,  \* a scan comes before the next key
  last,     \* history: the call of the last key, and whether it beeped
  touched,  \* history: who was changed by others since the last scan
  changes   \* history: how many changes by others there were

actVars == <<os, pl, build, picking, refresh, last, touched, changes>>

NoMenuOpen == [kind |-> "none"]
NoCall == [kind |-> "none", value |-> 0, beep |-> FALSE, got |-> {}]

Started(cpus) == [nice |-> 0, io |-> IoOther, cpus |-> cpus]

ActInit ==
  /\ \E foreign \in SUBSET Procs, root \in BOOLEAN, cpus \in {KernelCpus, {CHOOSE c \in KernelCpus : TRUE}} :
       /\ root => foreign = {}
       /\ os = [alive |-> Procs, foreign |-> foreign, root |-> root,
                is |-> [p \in Procs |-> Started(cpus)]]
  /\ pl = [pids |-> {}, nice |-> [p \in Procs |-> 0], io |-> [p \in Procs |-> IoNone],
           tagged |-> {}, rows |-> {}, selected |-> NoProc]
  /\ build \in [ioFlag : BOOLEAN, hwloc : BOOLEAN]
  /\ picking = NoMenuOpen
  /\ refresh = TRUE
  /\ last = NoCall /\ touched = {} /\ changes = 0
-----------------------------------------------------------------------------
(* The scan: nice is read each time, the I/O priority only for a column    *)
(* that shows it, and never for a process that is new without such a       *)
(* column.  A menu's process stays selected as long as it has a row.       *)

ScanProcesses ==
  /\ \E hidden \in SUBSET (MayHide \cap os.alive) :
       LET rows == os.alive \ hidden
       IN  \E selected \in (IF rows = {} THEN {NoProc}
                            ELSE IF picking # NoMenuOpen /\ picking.pid \in rows THEN {picking.pid}
                            ELSE rows) :
             pl' = [pids |-> os.alive,
                    nice |-> [p \in Procs |-> IF p \in os.alive THEN os.is[p].nice ELSE 0],
                    io |-> [p \in Procs |->
                              IF p \in os.alive /\ build.ioFlag THEN os.is[p].io
                              ELSE IF p \in os.alive \cap pl.pids THEN pl.io[p] ELSE IoNone],
                    tagged |-> pl.tagged \cap os.alive,
                    rows |-> rows,
                    selected |-> selected]
  /\ refresh' = FALSE
  /\ touched' = {}
  /\ last' = NoCall
  /\ UNCHANGED <<os, build, picking, changes>>
-----------------------------------------------------------------------------
(* The four calls, each for one process: what the kernel and the list have *)
(* of it then, whether the call succeeded and whether a signal got there.  *)

Clamped(n) == IF n < NiceMin THEN NiceMin ELSE IF n > NiceMax THEN NiceMax ELSE n
Reached(p) == p \in os.alive \ os.foreign

AsItIs(p) == [is |-> os.is[p], nice |-> pl.nice[p], io |-> pl.io[p], ok |-> TRUE, got |-> FALSE]
Failed(p) == [AsItIs(p) EXCEPT !.ok = FALSE]

WithNice(is, n) == [is EXCEPT !.nice = n]
WithIo(is, ioprio) == [is EXCEPT !.io = ioprio]
WithCpus(is, cpus) == [is EXCEPT !.cpus = cpus]

NiceGranted(p, n) == Reached(p) /\ (os.root \/ n >= os.is[p].nice)
IoGranted(p, ioprio) == Reached(p) /\ (os.root \/ ioprio \notin Realtime)

\* Defect: what was asked for is taken for what it is now.
SetPriorityTrusting(p, priority) ==
  LET new == Clamped(priority)
  IN  IF NiceGranted(p, new)
      THEN [AsItIs(p) EXCEPT !.is = WithNice(@, new), !.nice = priority]
      ELSE Failed(p)

\* Process_setPriority.
SetPriority(p, priority) ==
  LET new == Clamped(priority)
  IN  IF NiceGranted(p, new)
      THEN [AsItIs(p) EXCEPT !.is = WithNice(@, new),
                             !.nice = IF new # os.is[p].nice THEN priority ELSE @]
      ELSE Failed(p)

\* LinuxProcess_setIOPriority: what counts is what is read back.
SetIOPriority(p, ioprio) ==
  LET is   == IF IoGranted(p, ioprio) THEN WithIo(os.is[p], ioprio) ELSE os.is[p]
      back == IF p \in os.alive THEN is.io ELSE IoFailed
  IN  [AsItIs(p) EXCEPT !.is = is, !.io = back, !.ok = (back = ioprio)]

\* The CPUs that a call can name: without libhwloc those in an unsigned long.
Nameable == IF build.hwloc THEN KernelCpus ELSE KernelCpus \cap (0 .. LongBits - 1)

\* Affinity_set; the kernel wants one CPU at least.
AffinitySet(p, cpus) ==
  LET mask == cpus \cap Nameable
  IN  IF Reached(p) /\ mask # {} THEN [AsItIs(p) EXCEPT !.is = WithCpus(@, mask)] ELSE Failed(p)

\* Process_sendSignal, whose result nobody reads.
SendSignalTo(p) == [AsItIs(p) EXCEPT !.got = Reached(p)]

Called(p, kind, value) ==
  CASE kind = "nice"   -> SetPriority(p, pl.nice[p] + value)
    [] kind = "io"     -> SetIOPriority(p, value)
    [] kind = "cpus"   -> AffinitySet(p, value)
    [] kind = "signal" -> SendSignalTo(p)

TaggedRows == pl.tagged \cap pl.rows

\* MainPanel_foreachProcess: the rows with a tag, or else the selected one.  No call
\* looks at another process, so that their order does not matter.
TargetRows == IF TaggedRows # {} THEN TaggedRows ELSE {pl.selected} \ {NoProc}

ForeachRow(rows, kind, value) ==
  LET after == [p \in Procs |-> IF p \in rows THEN Called(p, kind, value) ELSE AsItIs(p)]
  IN  /\ os' = [os EXCEPT !.is = [p \in Procs |-> after[p].is]]
      /\ pl' = [pl EXCEPT !.nice = [p \in Procs |-> after[p].nice],
                          !.io = [p \in Procs |-> after[p].io]]
      /\ last' = [kind |-> kind, value |-> value, beep |-> \E p \in rows : ~after[p].ok,
                  got |-> {p \in rows : after[p].got}]

\* Defect: the first call that fails ends the others.
ForeachUntilOneFails(kind, value) ==
  ForeachRow({p \in TargetRows : \A q \in TargetRows : q < p => Called(q, kind, value).ok}, kind, value)

ForeachProcess(kind, value) == ForeachRow(TargetRows, kind, value)
-----------------------------------------------------------------------------
(* Keys of the main panel. *)

ActKey ==
  /\ ~refresh
  /\ UNCHANGED <<build, touched, changes>>

PanelKey == ActKey /\ picking = NoMenuOpen

\* F7 and F8.  Only if tagged rows were changed the list is refreshed at once.
ChangePriority(delta) ==
  /\ PanelKey
  /\ ForeachProcess("nice", delta)
  /\ refresh' = (TaggedRows # {})
  /\ UNCHANGED picking

TagProcess ==
  /\ PanelKey /\ pl.selected # NoProc
  /\ \E next \in pl.rows :
       pl' = [pl EXCEPT !.tagged = SymDiff(@, {pl.selected}), !.selected = next]
  /\ last' = NoCall
  /\ UNCHANGED <<os, picking, refresh>>

\* A menu runs a loop of its own, which begins with a scan.
MenuOpened(kind, pick) ==
  /\ picking' = [kind |-> kind, pick |-> pick, pid |-> pl.selected,
                 was |-> IF pl.selected = NoProc THEN Started(KernelCpus) ELSE os.is[pl.selected],
                 fresh |-> pl.selected \in os.alive \ touched, untouched |-> TRUE]
  /\ refresh' = TRUE
  /\ last' = NoCall
  /\ UNCHANGED <<os, pl>>

\* Defect: the menu begins at its first row.
IoRowFirst(ioprio) == 1

\* The row of IOPriorityPanel_new: the first one if there is none for it.
IoRow(ioprio) == IF ioprio \in ToSet(IoRows)
                 THEN CHOOSE i \in DOMAIN IoRows : IoRows[i] = ioprio ELSE 1

OpenIOPriority ==
  /\ PanelKey /\ pl.selected # NoProc
  /\ MenuOpened("io", IoRows[IoRow(pl.io[pl.selected])])

\* Affinity_get: in the order of the ids, with libhwloc also those htop does not count.
Ascending(S) == [k \in 1 .. Cardinality(S) |-> CHOOSE i \in S : Cardinality({j \in S : j <= i}) = k]
AffinityGet(p) == Ascending({i \in os.is[p].cpus : build.hwloc \/ i < CpuCount})

\* AffinityPanel_new goes through CPUs and set side by side; cur is how far it got
\* in the set when it makes the box of a CPU.
Boxes(used) ==
  LET cur[i \in 0 .. CpuCount] ==
        IF i = 0 THEN 1
        ELSE IF cur[i - 1] <= Len(used) /\ used[cur[i - 1]] = i - 1 THEN cur[i - 1] + 1
        ELSE cur[i - 1]
  IN  {i \in 0 .. CpuCount - 1 : cur[i] <= Len(used) /\ used[cur[i]] = i}

OpenAffinity ==
  /\ CpuCount # 1
  /\ PanelKey /\ pl.selected # NoProc
  /\ IF pl.selected \in os.alive
     THEN MenuOpened("cpus", Boxes(AffinityGet(pl.selected)))
     ELSE last' = NoCall /\ UNCHANGED <<os, pl, picking, refresh>>

OpenSignals ==
  /\ PanelKey
  /\ MenuOpened("signal", SIGTERM)
-----------------------------------------------------------------------------
(* Keys of a menu. *)

MenuKeyRead == ActKey /\ picking # NoMenuOpen

\* Another row; a box of the affinity panel that is set or cleared.
Pick ==
  /\ MenuKeyRead
  /\ \E pick \in CASE picking.kind = "io" -> ToSet(IoRows)
                   [] picking.kind = "signal" -> Signals
                   [] OTHER -> {SymDiff(picking.pick, {i}) : i \in 0 .. CpuCount - 1} :
       picking' = [picking EXCEPT !.pick = pick, !.untouched = FALSE]
  /\ last' = NoCall
  /\ UNCHANGED <<os, pl, refresh>>

\* Defect: Enter counts whatever is selected by then.
EnterCountsAlways == pl.selected # NoProc

\* Action_pickFromVector.
EnterCounts == pl.selected # NoProc /\ pl.selected = picking.pid

Enter ==
  /\ MenuKeyRead
  /\ IF EnterCounts /\ ~(picking.kind = "signal" /\ picking.pick = 0)
     THEN ForeachProcess(picking.kind, picking.pick)
     ELSE last' = NoCall /\ UNCHANGED <<os, pl>>
  /\ picking' = NoMenuOpen
  /\ refresh' = TRUE

Escape ==
  /\ MenuKeyRead
  /\ picking' = NoMenuOpen
  /\ refresh' = TRUE
  /\ last' = NoCall
  /\ UNCHANGED <<os, pl>>
-----------------------------------------------------------------------------
(* Others: a process exits, its pid is given away, somebody changes it. *)

Others(p) ==
  /\ changes < MaxChanges
  /\ changes' = changes + 1
  /\ touched' = touched \cup {p}
  /\ last' = NoCall
  /\ UNCHANGED <<pl, build, picking, refresh>>

ExitProcess ==
  \E p \in os.alive : Others(p) /\ os' = [os EXCEPT !.alive = @ \ {p}]

ChangedTo(p, is) == [os EXCEPT !.is = [@ EXCEPT ![p] = is]]

ForkProcess ==
  \E p \in Procs \ os.alive :
    Others(p) /\ os' = [ChangedTo(p, Started(KernelCpus)) EXCEPT !.alive = @ \cup {p}]

Renice ==
  \E p \in os.alive, n \in NiceMin .. NiceMax :
    Others(p) /\ n # os.is[p].nice /\ os' = ChangedTo(p, WithNice(os.is[p], n))

Reassign ==
  \E p \in os.alive, io \in ToSet(IoRows) :
    Others(p) /\ io # os.is[p].io /\ os' = ChangedTo(p, WithIo(os.is[p], io))

Rebind ==
  \E p \in os.alive, c \in KernelCpus :
    Others(p) /\ {c} # os.is[p].cpus /\ os' = ChangedTo(p, WithCpus(os.is[p], {c}))

MenuNext == Pick \/ Enter \/ Escape
ActCommon == ScanProcesses \/ TagProcess \/ ExitProcess \/ ForkProcess \/ MenuNext
NiceNext == ActCommon \/ Renice \/ \E delta \in {-1, 1} : ChangePriority(delta)
IoNext == ActCommon \/ Reassign \/ OpenIOPriority
AffinityNext == ActCommon \/ Rebind \/ OpenAffinity
SignalNext == ActCommon \/ OpenSignals

ActNext == NiceNext \/ IoNext \/ AffinityNext \/ SignalNext
ActSpec == ActInit /\ [][ActNext]_actVars
-----------------------------------------------------------------------------
(* What the list shows of a process is what the kernel has, unless others  *)
(* changed it since the last scan: also between a key and the scan after   *)
(* it, when the value shown is htop's own conclusion from the results of   *)
(* its calls, and at the limits, where the kernel takes less than asked.   *)
ShownIsKernels ==
  \A p \in (pl.pids \cap os.alive) \ touched :
    /\ pl.nice[p] = os.is[p].nice
    /\ build.ioFlag => pl.io[p] = os.is[p].io

Asked == IF TaggedRows # {} THEN TaggedRows
         ELSE {IF picking = NoMenuOpen THEN pl.selected ELSE picking.pid} \ {NoProc}

Wanted(p, call) ==
  CASE call.kind = "nice" -> Clamped(pl.nice[p] + call.value)
    [] call.kind = "io" -> call.value
    [] call.kind = "cpus" -> call.value \cap Nameable
    [] OTHER -> TRUE

Outcome(p, call) ==
  CASE call.kind \in {"nice", "io", "cpus"} -> os'.is[p][call.kind]
    [] OTHER -> p \in call.got

Granted(p, call) ==
  /\ Reached(p)
  /\ call.kind = "nice" => (os.root \/ Wanted(p, call) >= os.is[p].nice)
  /\ call.kind = "io" => (os.root \/ Wanted(p, call) \notin Realtime)
  /\ call.kind = "cpus" => Wanted(p, call) # {}

(* A key, or Enter in a menu, reaches every tagged process on the panel,   *)
(* or if there is none the one that was selected when the menu was opened, *)
(* and nobody else; each of them that the kernel lets htop change gets what    *)
(* was asked for, one that refuses does not keep it from the others, and a *)
(* beep tells whether one refused.                                         *)
ChangesAreAsked ==
  last' # NoCall =>
    /\ \A p \in Procs \ Asked : os'.is[p] = os.is[p] /\ p \notin last'.got
    /\ \A p \in Asked : Granted(p, last') => Outcome(p, last') = Wanted(p, last')
    /\ last'.beep => \E p \in Asked : ~Granted(p, last')
    /\ last'.kind # "signal" /\ (\E p \in Asked : Outcome(p, last') # Wanted(p, last')) => last'.beep

(* A menu starts with what the process has: Enter without another key      *)
(* changes nothing of it.  (If others leave it alone from the scan before, *)
(* its CPUs are among those that htop counts and can name, and its   *)
(* I/O priority is shown in a column and has a row in the menu.)           *)
UntouchedMenuKeeps ==
  /\ picking # NoMenuOpen /\ picking' = NoMenuOpen /\ last'.kind \in {"io", "cpus"}
  /\ picking.untouched /\ picking.fresh
  /\ os.is[picking.pid] = picking.was
  /\ picking.kind = "cpus" => picking.was.cpus \subseteq Nameable \cap (0 .. CpuCount - 1)
  /\ picking.kind = "io" => build.ioFlag /\ picking.was.io \in ToSet(IoRows)
  => os'.is[picking.pid] = picking.was

ActionsReachAsked == [][ChangesAreAsked /\ UntouchedMenuKeeps]_actVars
=============================================================================
