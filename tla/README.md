# A verification project for htop 2.2.2

These modules model the parts of this fork of htop (the Linux build, with meters
for single board computers, and what the builds for other systems have of their own: process
lists, CPU times, memory, columns) that keep state across steps, and say what must not
go wrong in them.  TLC checks the models on small instances; TLAPS proves what
matters most for every value of the constants.

1. [The system](#the-system): its components, their state and their hazards
2. [The modules](#the-modules): how each corresponds to the code
3. [The runs](#the-runs): what is checked, with which bounds, under which fairness
4. [The proofs](#the-proofs)
5. [Where code and documents disagree](#where-code-and-documents-disagree)
6. [What is not modelled](#what-is-not-modelled)
7. [The plan](#the-plan)

Commands, in this directory:

    tlc -config MCProcessScan.cfg MCProcessScan.tla     # a run
    tlapm ProcessScan_proofs.tla                        # the proofs of a module

## The system

htop is one process with one thread.  Nothing in it runs concurrently; what is
concurrent is the operating system it observes, which changes between any two
of its system calls, and the user and the clock, which decide what the next
event is.  Its hard behaviour lies there: a walk over a process table that
changes under it, pointers into a list that is scanned while a menu is open,
timeouts that race with keys, the same data kept in several places.

| Component | State | Operations | Works with |
|---|---|---|---|
| Process list scan (`ProcessList.c`, `linux/LinuxProcessList.c`) | the vector `processes` (owns the objects), the hash table by pid, totals, the marks of a scan | `ProcessList_scan`, `recurseProcTree`, `getProcess`, `add`, `remove` | reads `/proc`; called by the main loop |
| Tree view (`ProcessList_sort`, `buildTree`) | the parents read by the scan, `showChildren`, `show`, `indent`, the order of the vector | sort, toggle, invert | after each scan that sorts |
| Panel (`Panel.c`) | rows, selection, old selection, scroll position, `needsRedraw`, and what is on the terminal | keys, clicks, insert, remove, move, refill, resize, draw | every list on the screen is one; its owners change the rows |
| Order of the list (`Process_compare` and its like in each build, `ProcessList_sort`, `Action_setSortKey`) | sort column, direction, what each title's cells are | pick by menu, key or click; sort | after each scan that sorts; reads the containers' insertion sort |
| Main screen (`MainPanel.c`, `Action.c`, `IncSet.c`, `ProcessList_rebuildPanel`) | rows as pointers into the list, selection, followed pid, tags, search and filter, the menu that is open | the user's keys and clicks, rebuild after scans | list, panel, menus in nested loops |
| Menus of an action (`Action.c`, `AffinityPanel.c`, `IOPriorityPanel.c`, `SignalsPanel.c`, `LinuxProcess.c`) | the process a menu was opened for, the row or the boxes chosen; what the list shows of nice value and I/O priority | F7, F8, open, pick, Enter; one system call for each target | main screen, the kernel |
| Main loop (`ScreenManager.c`) | `sortTimeout`, `closeTimeout`, time of the last scan, `rescan`; the panels side by side and where they begin | `checkRecalculation`, the handling of an event; add, resize | calls scan, sort, rebuild, handlers |
| Setup screen (`CategoriesPanel.c`, `MetersPanel.c`, `ColumnsPanel.c`, `Available*Panel.c`, options, colors) | the pages, rows of their panels, moving mode | edits of the rows together with header and settings | panel, header, settings |
| Header and meters (`Header.c`, `Meter.c`, `*Meter.c`) | two columns of meters with number, mode and height; the height of the header | fill from settings, write back, compute heights, draw | settings, setup screen, screen managers |
| Settings (`Settings.c`) | columns of meters, fields, options, `changed`; the file `htoprc` at one of three places | read at the start, move an old file, write at the end | all |
| Containers (`Vector.c`, `Hashtable.c`) | arrays with growth, buckets | add, insert, take, remove, sort, find | all |
| Info screens (`InfoScreen.c`, `TraceScreen.c`, `OpenFilesScreen.c`, `EnvScreen.c`) | the vector of lines, a panel over those that pass, search and filter, the pipe from strace and the `FILE` over it, `contLine` | open, refresh, append, filter, stop | panel, `IncSet`; run as nested loops by the actions |
| Columns of the list (`Process.c`, `LinuxProcess.c`, `UsersTable.c`) | a cache of names | format | panel |
| Figures of the system (`linux/Platform.c`, CPU part of `LinuxProcessList.c`) | for each line of `/proc/stat` the times of the last scan and the periods since the one before; the memory counters of the last scan | `scanCPUTime`, `scanMemoryInfo`, `setCPUValues`, `setMemoryValues` | meters |
| Battery (`linux/Battery.c`) | a method, a cache of ten seconds | read with fallback | meter |
| Network, disk and board meters | for each device the counter and the time of the last reading, a `FILE`; one table of mount points | read, compare, format | header |
| Text of the screen (`RichString.c`) | characters with attributes, in an array of the object or on the heap | write, append, set attributes, prune | every panel and meter that draws |
| Terminal and tools (`CRT.c`, `StringUtils.c`, `FunctionBar.c`, ...) | ncurses | draw, read | all |
| Start and end (`htop.c`) | the options of the command line | parse, start, run, save | settings, then all |
| Other platforms (`freebsd/`, `dragonflybsd/`, `openbsd/`, `solaris/`, `darwin/`, `unsupported/`) | the list as on Linux, totals, a table of jails; two readings of the counters of each CPU, or percentages | a snapshot of the process table and a loop over its entries, or a walk with a callback per LWP | built instead of `linux/` |

What is hard in it, and where a property looks at it (PROJECT.json lists each
with its line):

* **Interleaving with the system.**  A task may vanish between the open of one of
  its files and the next, a pid may be handed out twice in one scan, a thread may
  become a process: list, table, heap and totals must survive it
  (`TableMatchesVector`, `NoDanglingNoLeak`, `VisitedStaysPut`,
  `TotalsAndFlagsFit`), and the list must be one that a reader of `/proc` may call
  a snapshot (`ImplementsSnapshot`).  Parents are read at different moments
  (`NoLoopInTree`).  Pages change their use while the counters of the memory are asked for
  one by one (`MemoryIsTrue`).
* **State that is stale when used.**  Rows point into a list that scans free
  (`RowsAreCurrent`); the process under the cursor when a menu opened is not the
  one there at Enter (`SignalIsConfirmed`, `ActionsReachAsked`); the list shows what htop
  concludes from its own calls until the next scan (`ShownIsKernels`); the quick redraw
  trusts what an earlier draw left on the terminal (`QuickDrawInPanel`, `ScreenIsCurrent`);
  the handlers of the setup screen index one vector with the selection of another
  (`SetupShowsSettings`); an entry of the process table is looked at when the
  process is gone, has another jail or other LWPs (`ListFollowsProcesses`); a graph is
  a history of readings taken at other times than it is drawn (`MetersAreRight`).
* **Some of several calls fail.**  A key acts on all tagged processes, of which some are
  gone and some refuse (`ActionsReachAsked`).
* **Timeouts racing with events.**  `ClosesOnlyInBurst`, `IdleIsSortedAfterKeys`,
  `LevelIsRecent`; `IdleIsSorted`, which fails.
* **Data that comes in pieces, between keys.**  Lines of strace are put together from
  reads that end anywhere, while the filter changes and the trace is stopped
  (`InfoShowsText`, `FilterKeepsSelected`).
* **Differences of two readings** of something that goes, comes back, begins anew or
  is corrected or wraps in between (`RateIsTrue`, `PeriodsAddUp`, `HostPartsAddUp`,
  `LevelIsRecent`).
* **Things that must go on for ever.**  `ScanEnds`, `ScansForever`; the trace does not
  (`TraceIsLive`, see [below](#where-code-and-documents-disagree)).
* **Numbers and boundaries.**  Differences of numbers of several widths and signs, taken for
  an order (`SortedByColumn`); the length at which a text moves to the heap and
  back (`StringIsSound`, `ImplementsText`); a sweep of a vector that shrinks and buckets that
  collide (`ListIsSnapshot`); rows that are equal to the sort (`SortIsStable`); totals that
  are unsigned differences of other totals; bisection in a vector that shrinks; selection
  behind the last row (`SelectedInRange`); terminals with no line left; meters
  with no column left; clicks on the titles of a panel that is scrolled
  (`ClickFindsTitle`).
* **The same number in several places.**  The heights of meters, header and panels,
  while the user edits the header and the terminal gets another size under any screen
  (`ScreenIsDivided`); meters that go from one vector to another (`NoMeterIsLost`).
* **What survives the program.**  `SettingsAreSaved`; and over kills, full disks, old files
  and options of the command line, `OptionsAreKept`.

## The modules

| Module | Models | |
|---|---|---|
| `ProcessSnapshot` | what a refresh of the list promises | abstract specification |
| `ProcessScan` | the scan | implements `ProcessSnapshot` |
| `ProcessTree` | parents and tree | composed with `ProcessOrder` by `MCLists` |
| `ProcessCompare` | how two processes are compared, for each column | no state |
| `ProcessOrder` | the sorted list and the titles above it | EXTENDS `ProcessCompare`, `Containers` |
| `Panel`, `PanelWidget` | operations of a panel; a panel in the loop | `PanelWidget` EXTENDS `Panel` |
| `ScreenLayout` | where meters and panels are on the terminal | composed with `PanelWidget` by `MCDisplay` |
| `RichText` | what a string with attributes promises | abstract specification |
| `RichString` | the array and the heap of such a string | implements `RichText`; in `MCDisplay` |
| `Configuration` | command line, files and options over any number of runs | in `MCDisplay` |
| `MainScreen` | list, panel, user and menus | abstracts `ProcessScan` and `PanelWidget` |
| `ProcessActions` | nice values, I/O priorities, affinities, signals | composed with `MainScreen` by `MCActions` |
| `MainLoop` | the timing of the loop | in `MCProcessScan` |
| `SetupScreen` | settings file, settings, header, setup pages | in `MCScreens` |
| `InfoScreen` | open files, environment and trace screen with search and filter | in `MCScreens` |
| `Rates` | rates of interfaces, disks and processes | composed by `MCFigures` |
| `CpuTimes` | times of the CPUs, parts of a CPU meter | composed by `MCFigures` |
| `Battery` | the level of the batteries | composed by `MCFigures` |
| `HostCpus` | times of the CPUs in the other builds | composed by `MCFigures` |
| `Memory` | memory and swap in all builds | composed by `MCFigures` |
| `MeterModes` | what bars, graphs and LEDs draw | composed by `MCFigures` |
| `Sums` | the sum of an array, and the elements of a sequence that are in a set | no state |
| `Containers` | vector, hash table, the two sorts | used by `PlatformScan`, `ProcessOrder` |
| `PlatformScan` | the process list of the other six builds | EXTENDS `Containers`; in `MCScreens` |
| `MC*` | instances for TLC | |
| `*_proofs` | theorems; `Loops_proofs` has the lemmas that all need | |

Every module names in its comments the functions it models; `map` in
PROJECT.json gives the lines of each definition.  A definition marked *Defect*
is not the program: it is a plausible mistake in the definition after it, used
to see that a property notices.

### ProcessScan

One action per step between two looks at the system.  `StartScan` is the
beginning of `ProcessList_scan` up to the `opendir` of `/proc`; `EnterProcess`
and `EnterThread` are one turn of the loop in `recurseProcTree` up to the
recursion (which is why there are two frames, `leader` and `thread`, each with
the locals `proc` and `preExisting`); `ReadStatm`, `ReadStat`, `StatDir` and
`Finish` are the files read for one entry, each of which may be gone by then
(`Readable`), and then `ReadError` is the label `errorReadingProcess`;
`EndWalk`, `Sweep` and `EndScan` are the loop at the end.  Process objects are
addresses in a heap: `live` holds those allocated, so a use after free and a
leak are visible.  `vec` is the vector, `table` the hash table; that `remove`
searches the vector by pid and the table by key is kept.

The environment (`Fork`, `Clone`, `Exit`, `Reap`, `Schedule`) is the
kernel as htop relies on it: a zombie keeps its pid until it is reaped, a thread
has a process, pids may come back at once.  Abstracted: everything read that
neither guards a step nor is counted (memory, times, I/O, tty, cgroups, owners), and
names; whether the command line is empty stays, because kernel threads are told
by it.  `readdir` is abstracted to the set of leaders at the `opendir`, in
increasing order; a process that appears in `/proc` during the walk and is
listed late is met by the next scan.

`ProcessSnapshot` says what is left of "snapshot" under all this: each task that
existed throughout is listed, and none is listed that never existed in the
meantime, with less promised if one pid was used for two groups.

### ProcessTree

`Visit` reads a process with its threads in one step (`ProcessScan` has the
details) while `Fork` and `Exit` change parents; `StartSort`, `TakeRoot` and
`EndSort` are `ProcessList_sort` in tree view, one root per step.  `BuildTree` is the recursion
of `ProcessList_buildTree`, as a function of how deep it goes: `build[n]` is what a call does
that has at most `n` calls in it, `PlaceChildren` its two loops and `PlaceChild` one turn of the
second, with the recursive call.  `Bisect` is the loop that looks for the parent, round by
round (`BisectOnce`).  `PidReuse` says whether a pid may come back within a scan.  `indent` is the set of the columns that
hold a vertical line instead of the bits of an int, and its sign is `last`.  `UserKey` is
what the user does to the tree: `Toggle` one process, `CollapseIntoParent`, `ExpandTree`,
`InvertSortOrder`.

### ProcessCompare and ProcessOrder

`ProcessCompare` has a value per process instead of one per column: two processes are only
ever compared by one.  `CompareUp` subtracts as C does, with the widths `UIntModulus` and
`LongModulus`, and `BelongsAbove` says in plain numbers what the column promises.  The
columns are grouped by how they are compared, with those that only Linux, FreeBSD,
DragonFly, OpenBSD or Solaris has.

`ProcessOrder` is the list between a scan and the sort: `AddProcess`, `RemoveProcess` and
`UpdateProcess` are what a scan does to it, `SortList` is the insertion sort of `Containers`,
`SortTree` what is left of a tree.  The ways to pick a column are `SortMenu`, `SortKeys`,
`InvertKey`, `TreeKey` and `HeaderClick`, whose cell is looked up by `KeyAt` as
`ProcessList_keyAt` does, in a panel scrolled by `scrolled`.

### Panel and PanelWidget

`Panel` has the functions of `Panel.c` as operators on a record, with the
arithmetic of keys, clicks, scrolling and both ways of drawing.  `PanelWidget`
puts a panel into the loop: a key, a click, or what an owner does, then `Draw`.
`screen` is what the terminal shows, so that a quick redraw that leaves
something old behind is seen.

### ScreenLayout

The sizes that the code keeps: the height and mode of each meter, height and margin of
the header, the rectangles of the panels.  `HeightOf`, `Calculated`, `Beside` and
`Arranged` are the functions that compute them (`AllCPUsMeter_init`,
`Header_calculateHeight`, `ScreenManager_add`, `ScreenManager_resize`); `HeaderDraw`
gives the rectangle each meter, and each CPU of a meter, is told to draw in.
`layer` says whose turn it is: the main screen, a list of an action beside it, the setup
screen, or something that covers all.  `Resize*` are what each does when the terminal has
got another size; the others are opening, closing, and what changes the header.  What a
meter writes into its rectangle is not modelled; in text and LED mode it may be wider.

### MainScreen

The loop alternates between a check (`CheckWithScan`, `CheckWithoutScan`) and a
key.  A scan leaves any list in any order with any of the hideable processes
hidden: what `ProcessScan` and `ProcessTree` may produce and more.  `WhiteList` are the
processes that `-p` asks for.  A menu runs
a nested loop over the same list, so scans go on while it is open: `OpenMenu`,
`MoveInMenu`, `CancelMenu`, and Enter, which is `SendSignal`, `PickUser` or
`PickSort` if `Confirmed`.  Text is abstracted to its length: `Matching[n]` are
the processes that contain the `n` letters typed.

### ProcessActions

`os` is the kernel: who lives, who refuses (`foreign`), and what each process has; `pl` is what the
list shows.  `SetPriority`, `SetIOPriority`, `AffinitySet` and `SendSignalTo` are the calls
for one process, with what htop writes into its list after each; `ForeachProcess` makes
them for the tagged processes among the rows of the panel, or else for the selected one; a
scan may leave any of `MayHide` without a row.  A menu (`OpenIOPriority`, `OpenAffinity`,
`OpenSignals`, then `Pick` and `Enter` or `Escape`) runs a loop of its own in which
scans go on and processes exit.  `Renice`, `Reassign`, `Rebind`, `ExitProcess` and
`ForkProcess` are others.  `last` is, as history, the last call.  Builds with
and without libhwloc name different CPUs (`Nameable`).

### MainLoop

`Check` is `checkRecalculation`: the delay is over (`CheckTimedOut`), or not
(`CheckInTime`), or the clock was set back (`CheckSetBack`).  Set back behind the last
scan, it makes the next one due at once; set back by less, it ends a wait without a scan.
`Read*` are the events: the wait that ends without a key, the
ERR that comes at once (a click that hits nothing; a terminal that is gone),
keys that no handler takes, keys that one takes, and the end.

### SetupScreen

Over any number of starts: `Start` reads the file and fills the header, `Quit`
writes it if `changed`, `Killed` and `QuitUnwritable` do not.  The pages are made
anew from header and settings whenever a category is selected.  The handlers of
the two meters panels change the vector of the header and the rows of the panel
in turn; those of the columns end with `ColumnsPanel_update`.  A meter is its
type, its number and its mode.  `Populated` and `Cut` have two details of
`Header.c`: modes are set by the index in the settings, and the number is cut
off the name in the settings themselves.

### InfoScreen

`list` has the text of each line ever made, the vector `lines` of those the screen
has, and the panel: `rows` (indices of lines, as the code's panel has pointers) and
the selection.  `AddLine`, `AppendLine` and `UpdateWeakPanel` are the three places
that maintain the rows.  `Open`, `Refresh` and `Done` are the beginning, F5 and the
end of `InfoScreen_run`; `Write` is strace; `UpdateTrace` is what happens when no key
comes, from `fread` to the selection of the last row.  What the C library has read
from the pipe and not yet handed out is in `trace.stdio`: `select` looks at the pipe
alone.  The end of the pipe that strace writes to does not block (`TraceScreen.c:101`), so
what is written while `PipeSize` characters wait in it is lost.  `Split` is the loop over what was read, `SplitNext` one turn of it.  `Activate`,
`TypeLetter`, `NextMatch`, `CloseInc` are `IncSet_handleKey`.  A line
keeps, as history, the texts it was made of, because a row is shown if one of the
pieces passed when it came.  `lsof` and the environment are one kind of screen, a
snapshot that finds one of `Outcomes`.

### Rates

A meter keeps a counter in a struct of `Platform.c` and the time of the last reading
in a static variable of its own function.  There are eleven such functions, copies of
each other; the action of each names the device, the id and the struct as its copy
does, and `ReadNet` and `ReadDisk` are what they have in common.  `alias` is the name
of an interface in the settings, which may be that of another meter.  The environment
lets devices go, come back, begin at 0 and clocks be set back.  `ReadIoFile` is the
same for processes, with numbers of `Width` values; the code's 2^64 are scaled down.  The
file of a process may be gone, or open and yield nothing, or be read.
Both directions of a device are treated alike, so there is one.

### CpuTimes

`ScanCPUTime` reads all lines; `torn` are those where a guest got a tick between its
user and its guest counter, and lines behind the last one yield what the variables on
the stack had (`any`).  `Since` is WRAP_SUBTRACT and `Times` the arithmetic on
unsigned numbers, modulo `Modulus`.  `Hotplug` takes lines away, and `CorrectIowait`
lets a counter decrease, as proc(5) says it may.  `Percent` adds the parts of a bar
as `Platform_setCPUValues` does; a part is its numerator over `totalPeriod`.

### Battery

`GetData` begins `Battery_getData` when the cache is too old; `ReadInfo` and
`ReadState` are the two walks of `parseBatInfo`, a file per step, `ReadSys` the loop
of `Battery_getSysData`; batteries come and go between the files.  `Finish` is the
end, with the cap at 100, and `GiveUp` the method that yields nothing any more.

### HostCpus

`host` is the build, chosen in the initial state.  FreeBSD and DragonFly, whose code is
the same, have a line for all CPUs and one for each, and compute shares in the scan, as
Solaris does, which averages the shares; Darwin keeps two readings, and OpenBSD reads when
a meter is drawn.  So `HostScan` is the CPU part of `goThroughEntries`, and `CPUMeter` is
`Platform_setCPUValues` for any meter of one CPU or of the average.  Shares are fractions
with the rules of IEEE numbers: on Darwin 0/0 reaches the meter.  Nothing is drawn before
main has scanned twice (`scanned`).  `passed` is, as history, what the kernel counted
between the two readings.

### Memory

Memory is pages, each in a class; `ScanMemory` asks for the
counters in the order of the code, and at any place among them a page may change its use
(`early` are those asked before); `MovePage` is the same between two scans.  The three parts of the meter
are computed from what was read, with unsigned numbers (`MemModulus`), for each build as its
`Platform_setMemoryValues` does.  `ChangeSwap` adds, removes, fills and empties devices.
A page that moves during a scan may make the first part two pages too large, and so larger
than all there is, if little else is in use: on Linux, shared memory that grows between the
calls is in what is used and not in what is taken off it.  `MemoryIsTrue` allows for it.

### MeterModes

`DrawBar`, `DrawGraph` and `DrawLed` are `BarMeterMode_draw`, `GraphMeterMode_draw` and
`LEDMeterMode_draw`, as cells of a rectangle.  The graph keeps its last readings (`BufferLen`)
and takes a new one when the clock says so (`ReadGraph`); `taken` are, as history, those it
took.  `SetMeterMode` begins a new graph.  `MeterTotal` is 0 for the swap of a machine
without any: the quotients of 0 by 0 are then no numbers, which fill no block of a bar, and
one dot of a graph.

### RichText and RichString

`RichText` is a sequence of characters with attributes that is written, extended, repainted and
cleared.  `RichString` has what the code has: `chlen`, the array `chstr` of the object, a piece
of the `heap`, and `chptr`, which says which of them is in use.  `ExtendLen` moves the
text between them, by comparing the length with `MaxLen` before and after; `SetLen` has the short
way of the macro.  `WriteFrom` first makes room and then writes.  `Junk` is what
fresh memory has.  `WideChars` is the build with ncursesw, in which an attribute does not keep a
cell from ending the text.

### Configuration

`Launch` is `parseArguments`; `ReadLegacy`, `OpenMoved`, `CloseMoved`, `Unlink`, `ReadUser` and
`ReadSystem` are `Settings_new` step by step, `ApplyFlags` what `main` does with the
options of the command line, `QuitRun`, `OpenSaved` and `CloseSaved` the end.  A file is
a function from the options it has a line for to their values; opening it for
writing empties it, and closing it brings all lines, some (`fields` alone) or none to
the disk.  `Kill` ends the run between any two steps.  `kept` is, as history, what the next
run has to begin with, by the manual: the file of the user at the old or the new place, else that
of the system, else what is built in; then what the last run ended with if the user
changed anything.  The files there are at first have a line for every option
(`FirstFilesAssumption`), as the program writes them.

### Containers and PlatformScan

`Containers` has the functions of `Vector.c` and `Hashtable.c` on records: an array
longer than the number of items, which grows by `growthRate`, and chains in buckets.
Both sorts take the comparison as a function; `Partition` is the loop of `partition`, and the
quicksort's recursion is a function of how deep it goes, as that of the tree.  The other
modules have sequences and functions instead; here it is seen that the containers
behave as those do.

`PlatformScan` is one model of six builds; `platform` is chosen in the initial state.
`StartScan`, `EndScan` (with the sweep, as one step: nothing of the system is read in
it) and `Sort` are those of `ProcessList.c`.  Between them a build has `Snapshot`, or
`SnapshotFails`, and a `Visit*` action that is one turn of its loop over `entries`.
Where the code looks at the system again in the loop (names of jails on FreeBSD,
`proc_pidinfo` and the threads on Darwin, everything on Solaris, where a process is
opened and each LWP then is a step), the step reads `os` as it is then.  Objects are
known by their pids, as `Store` makes at most one of a pid; `fresh` are those of this
scan, `other` the pids that were handed out again since they were listed.

## The runs

`expect` is *pass* unless marked; a run marked *violation* shows that the code
does not do what a document says of it.

| Run | States | What it shows |
|---|---|---|
| `scan` | 763 000 | `ProcessScan` and `MainLoop`, each alone: three pids, threads, kernel threads, zombies and reuse, two changes of the system anywhere: list and table agree, no object dangles or leaks, totals and flags are right, each scan ends, with a list that `ProcessSnapshot` allows; every order of the loop's events, with the clock set back by more or by less than the delay, safety and liveness |
| `tree` | 791 000 | `ProcessTree` and `ProcessOrder`, each alone: every forest of four tasks, any hidden, one expanded and collapsed at will, both orders, and three that fork and exit during scans; lists of three sorted by columns of every kind while their values change, clicks on every cell of the titles |
| `tree_loop` *(violation)* | | `NoLoopInTree` fails when a pid comes back within a scan |
| `lists_unsigned` *(violation)* | | `SortedByColumn` fails for a column of unsigned numbers where a long is wider |
| `display` | 767 000 | `PanelWidget`, `ScreenLayout`, `RichString` and `Configuration`, each alone: up to four rows, heights from -1 to 3, every key and edit; a header of two meters that is edited in every way, on a terminal that changes its size under each screen; texts in an array that is too short for them; runs of the program from files at each place, killed anywhere, on disks that are full |
| `screen` | 964 000 | `MainScreen` and `ProcessActions`, each alone: three processes in a chain, all commands, scans anywhere; two processes that are changed by the user and by others, may refuse, may go and may be on no row |
| `signal_misses_tagged` *(violation)* | | `SignalGoesToTagged` fails for tagged processes that no row shows |
| `idle_list_unsorted` *(violation)* | | `IdleIsSorted` fails after an ERR that no scan follows |
| `screens` | 869 000 | `SetupScreen`, `InfoScreen` and `PlatformScan`, each alone: two starts and one visit of the setup screen, over a missing file and one with a meter of another version; snapshots taken again and pieces of output, with every order of letters of search and filter, clicks, stops and reads; six builds, each with up to three processes that come, go, change their LWPs and jails during and between scans: the list is what the system handed out, in the order asked for, and the totals are its |
| `meters_forgotten` *(violation)* | | `MetersChangeInSetup` fails: numbers of meters are lost without a visit of the setup screen |
| `trace_not_live` *(violation)* | | `TraceIsLive` fails: the end of a burst waits in the `FILE` |
| `figures` | 487 000 | `Rates`, `CpuTimes`, `Battery`, `HostCpus`, `Memory` and `MeterModes`, each alone: every meter and every two of them, two CPUs, two batteries, with the system changing between and within the readings; four builds whose counters wrap; six builds' memory; bars, graphs and LEDs of any width |

Modules that share nothing are looked at in one run, one of them in each behavior: a variable
`part`, chosen in the initial state, says which, and the others stand still in one
initial state.  In `scan` that is an idle scan without processes beside the loop, and a loop
that was left with the first key beside the scan, so that the fairness of one asks nothing of the
other and neither's liveness is fulfilled or broken by the other's standing still.

**Bounds, and why they are enough.**

* `scan`: `MaxChanges` 2.  The longest scenario the code distinguishes needs an
  exit, a reap and a reuse of the pid between two reads of one visit; the system
  starts with any tasks, zombies too, so two changes are enough for the last two.
  A third pid gives the process whose task directory is being walked meanwhile;
  `ThirdIsPlain`: while it is in use no task is a kernel thread or asleep.  Objects are as many as pids:
  more would mean a leak, and then the scan would lack one and deadlock, which is
  checked.  No symmetry is used, as `ScanEnds` is checked.
* `tree`: four nodes give each shape that the recursion and the lines tell apart
  (two levels below a root, a last and a middle child, two roots).  Tables that
  change start with three, and `MCSpec` keeps the fourth pid out of them.  The order
  needs three processes for an insertion that passes one row and stops at another; each list
  of `MCFieldLists` has three columns, compared in different ways.  After a change of the
  column the processes have any values of it, so what they had is no part of the state.
  Titles of one and two cells, scrolled by at most one (`MaxScroll`), and then with one process.  `UIntModulus` and
  `LongModulus` are equal here, as on a machine of 32 bits, and differ in
  `lists_unsigned`; the theorems are for any.
* `display`: the quick redraw touches two rows, so four rows on three lines scroll in
  both directions with a row left over; `WheelAmount` 2 jumps over a row.  Five CPUs make
  halves of 3 and 2, and columns of 2 and 1 in one of them; two meters (`MaxInHeader`) are
  enough for one above the other, side by side and left and right half; one visit of the
  setup screen (`MaxSetups`) leaves a header of any height for all that follows; terminals
  with an even and an odd number of columns.  Texts of up to 4 (`MaxText`) in an array for 2
  (`MaxLen`): one below, at, one above and two above the length that fits, from each of them
  to each; pieces of up to three characters, the narrow build (the proof is for both).
  `Configuration` has no bound on the number of runs: its options come from small sets,
  so the state comes back.  Two check boxes (`Toggled`), one sort column, one color scheme and
  three command lines stand for the others, which the code treats alike.
* `screen`: a chain of three has a parent, a child and a grandchild for the tags,
  and a row before, at and behind the cursor; two letters give a text that is
  extended and cut.  For the actions, two processes are one with and one without
  a tag, or one that refuses and one that does not; nice values from 0 to 2 have both
  limits and one between; CPUs 0, 1 and 3 of `CpuCount` 3 with `LongBits` 2 have one that is
  counted and nameable, one behind a gap, and one that is neither.  Two changes
  by others (`MaxChanges`), and one process that a scan may leave without a row (`MayHide`),
  so that a tag is seen only sometimes; that is for priorities and signals, as all actions
  look for their processes alike.  `WhiteList` has all processes: what it leaves out is
  left out like what the filter, the user or a hiding option does (the theorems are for any).
* `scan`, loop: no bound but the code's; `CloseLimit` is 20 instead of 100, `burst` is
  bounded by it, and all negative values of `sortTimeout` are one (it is only ever
  compared with 0).  The clock is set back once.
* `screens`, setup: two meters are enough to swap, cross and delete, three fields to have
  one that moves above the last; the second start reads what the first has
  written.  The instance has one type with two numbers and two modes, and one
  foreign name.
* `screens`, info: two letters give texts that pass, that pass only together with the next
  piece, and that do not; strace writes one of them alone, and only this one is typed then.
  A read takes 3 of the 5 that strace writes (`MaxWritten`), and the `FILE` (`StdioSize`) and
  the pipe (`PipeSize`) hold 4, so that a read ends within a line, at its end and behind it,
  and leaves something in the `FILE`, and some output is lost.  `MaxLines` 4 allows a second
  and a third snapshot.
* `figures`: one meter with five changes of the system (`MaxEvents`), enough to go,
  come back, move on and have the clock set back; each pair with two, enough for one
  to move and the other to stand still.  Two CPUs, of which the second only idles
  (`MCTicked`), three steps: a line may move by one place, and one reading is torn while
  the next is not.  Batteries that hold 1 and 2, so that one alone may be more than
  the other can hold, five changes; the cache is good for 2 seconds instead of 10, as
  it is only compared.  Counters of the other builds count modulo `HostModulus` 6, sums modulo
  36, and begin at 4 and 1, so that within three ticks one wraps and another does not,
  and 1 of 3 is rounded; ticks are those of one CPU and the user time of the other.
  One page of each class and two moves (`MaxMoves`): a page counted twice or not at all, and a
  difference below zero.  Rectangles of 0 to 8 columns, from none left for the bar to
  more than the graph has values (`BufferLen` 4); three values of a bar that may be more
  than its total, which is 4 (a total of 0 is left to the theorem); five readings (`MaxTaken`) shift the graph's values out once.
* `screens`, platforms: init and two pids, at most two processes in the beginning; 3 and 1 share
  a bucket (`TableSize` 2), and the vector grows at its second item (`DEFAULT_SIZE` 1).
  On Solaris one LWP has the id 1024, the first that is left out.  Two changes of system
  or settings, failed calls among them, so that a pid may be given up and handed out
  again, or a process move to a jail that was just made; one on Solaris and Darwin, whose
  steps interleave most.  Each sort order is started with by one build or more.
  Init is asleep in the beginning where there are zombies, which have no LWP either.

**Fairness.**  `ScanEnds` assumes weak fairness of `Walk`: the scan is a function
that runs to its end, only the system may delay it.  `MainLoop` assumes weak
fairness of the loop as a whole (getch returns at the latest after the delay) and
strong fairness of `CheckTimedOut`: the clock goes on, so a loop that checks again
and again finds the delay over at some time, however short its waits are.
`trace_not_live` assumes weak fairness of `UpdateTrace`: that screen reads keys without
a delay, so as soon as none waits it looks at the pipe, and even so what is in the `FILE` stays.  No
fairness is assumed of the user or of the system.  `CHECK_DEADLOCK FALSE` is
stated for `idle_list_unsorted`, whose model ends when the loop does, and for `screens`,
`meters_forgotten` and `trace_not_live`: the starts of the program are bounded, and htop ends when Darwin's `sysctl` fails.

## The proofs

Each theorem is about every value of the constants that the named assumptions
(`ASSUME` in the modules) allow; those are said here where they are more than the type of
a constant.  The argument is always the same: a property is seldom kept by every step on
its own, so an invariant that contains it and says why it is kept is shown to hold at first
and to survive every action.  There is a lemma for each action, and under it a step for each
part of the invariant that the action can disturb.

| Module | Theorems | Lemmas | Properties of runs that they state |
|---|---|---|---|
| `ProcessScan_proofs` | 7 | 87 | `TableMatchesVector`, `NoDanglingNoLeak`, `VisitedStaysPut`, `ImplementsSnapshot`, `TotalsAndFlagsFit` |
| `Lists_proofs` | 7 | 113 | `ListIsSnapshot`, `SortIsStable`, `SortedByColumn`, `ClickFindsTitle` |
| `Display_proofs` | 7 | 121 | `SelectedInRange`, `QuickDrawInPanel`, `ScreenIsCurrent`, `ScreenIsDivided`, `StringIsSound`, `ImplementsText` |
| `MainScreen_proofs` | 5 | 83 | `RowsAreCurrent`, `FollowedIsSelected`, `SignalIsConfirmed`, `ShownIsKernels`, `ActionsReachAsked` |
| `SetupScreen_proofs` | 5 | 155 | `SetupShowsSettings`, `SettingsAreSaved`, `NoMeterIsLost`, `InfoShowsText`, `FilterKeepsSelected` |
| `Program_proofs` | 6 | 113 | `ClosesOnlyInBurst`, `OptionsAreKept`, `NoLoopInTree`, `TreeIsRight` |
| `Figures_proofs` | 5 | 125 | `RateIsTrue`, `LevelIsRecent`, `PeriodsAddUp`, `MemoryIsTrue`, `MetersAreRight` |
| `Loops_proofs` | | 16 | (what the others need) |

**Loops_proofs.**  A loop of the code is a recursive function of the number of its turns.
`LoopRuns` says that a function exists that takes the turns one after the other, so that the
`CHOOSE` behind such a definition finds one, and `EachTurn` that what one turn keeps all turns keep;
both come from the least number for which it would not be so (`LeastNat`).  `SumFacts` and
what follows are about sums, `KeptFacts` and `KeptIs` about what is picked out of a sequence: it
is the one sequence that goes along the other, has all that is asked for and nothing else.

**ProcessScan_proofs** proves `TypeCorrect`, `ListConsistent` (`TableMatchesVector`),
`MemorySafe` (`NoDanglingNoLeak`) and `VisitSafe` (`VisitedStaysPut`), for any pids,
addresses, settings and any number of changes of the system.  The three properties are not
inductive: whether a removal keeps them depends on what the frames of the recursion hold.
`IInv` adds

* `Frames`: the position of the scan tells which frames exist; leader and thread
  are objects of *different* pids, because the walk skips the directory's entry
  of the process itself; the leader's pid is not among the tasks still to be
  visited; the directory is looked at for new objects only;
* `SweepInRange`: the index of the final loop stays in the vector.

The heart is `RemoveListed`: removing an object, found in the vector by its pid
and in the table by its key, removes the same object from both, because
`TableMatchesVector` makes the pid unique.  `FinishLists` and `GetProcessGets`
are the other direction: a new object is added only under a pid the table does
not have, which is where `VisitedStaysPut` is needed.

`ScanImplementsSnapshot` is the refinement of `ProcessSnapshot`, safety and all: each step of
the scan is one of the promise or changes nothing that it speaks of.  The only step that has
something to show is the last one, so `Progress` says during the whole scan what it will
come to: what will stay in the list has been met (`KeptWereMet`), each task that has existed
since the beginning is ahead of the walk, being visited or kept (`NoneMissed`), and the
directories read are true of such tasks (`GroupsExist`, `DirectoriesTrue`).  `NoneMissed`
holds unless a pid was used twice (`Once`), which is the exception that the promise makes too.
`TotalsRight` (`TotalsAndFlagsFit`) has `Tally`: the counters cover those objects that were
read and that nobody visits again at the moment (`Settled`), not the list as it is, because a
visit counts before it is known whether the object stays.

**Display_proofs**, on `PanelWidget`: `TypeCorrect`, `SelectionIsARow` (`SelectedInRange`)
and `QuickDrawIsSafe` (`QuickDrawInPanel`) for any rows, any heights and any speed of the
wheel.  The invariant is `Sound`: the selection is a row, and `Settled`, which is why the
quick redraw may index with numbers from the last draw: as long as nothing asks for a full
redraw, the row that was selected at the last draw is still in the vector and on the panel.
Each operation of `Panel` has a lemma that it preserves `Sound`.
`QuickDrawIsEnough` (`ScreenIsCurrent`) says that the quick way leaves the screen as a full
draw would have.  Its strengthening `Shown` has the terminal in it: between a key and the
draw the screen is right but for two rows (`RestIsShown`), because an operation that asks for
no full redraw changes nothing else (`Quiet`, again a lemma for each operation).

On `RichString`: `StringStaysSound` (`StringIsSound`) and `StringImplementsText`
(`ImplementsText`), for arrays of any length, any data and attributes, and both builds.  The
invariant is `TextInv`: `StringShape`, that the length alone tells which array is in use and
that it has room for the text and its terminator, and `Filled`, that no character is a
terminator and the last cell is one.  `SetLen` keeps the shape but leaves `Filled` open until
the cells are written, which is why the two are apart; `SetLenKeeps` says that the text up to
the shorter of both lengths survives every move.  The refinement then has one step per
operation: what each does to `Text(string)` is what `RichText` does.

On `ScreenLayout`: `ScreenStaysDivided` (`ScreenIsDivided`), for terminals of any size from ten
columns on, any number of CPUs and any meters.  Ten columns are assumed (`LayoutAssumption`) as
two margins leave nothing for a meter on fewer; ncurses itself starts with 80.  `LayoutInv` says
that what is kept of the header is what its meters and the margin would give now, and that the
panels of the layer that is shown fill what is below it (`Filling`); those that are not shown
stand where the next action counts on finding them, unless the terminal has changed since
(`missed`).  That no two CPUs share a place is arithmetic on halves and columns of an odd number.

**MainScreen_proofs**, on `MainScreen`: `RowsAreTrue` (`RowsAreCurrent`),
`FollowedStaysSelected` (`FollowedIsSelected`) and the action property `SignalsAreConfirmed`,
for any finite set of processes, any texts and any page.  The rows need not be those of the
list at every moment; the invariant says when they are: `Filled` holds while a key is read,
and also before the check unless `redraw` is set, so every key that changes what belongs on the
panel must set it.  That a rebuild fills the panel and finds the followed process again is about
places in sequences (`PlaceOfRank`, `Chosen`): the loop of `ProcessList_rebuildPanel` counts
rows, the property speaks of the list.  On `ProcessActions`: `ShownStaysTrue`
(`ShownIsKernels`) and the action property `ActionsReachAllAsked` (`ActionsReachAsked`), for
any number of processes and CPUs, limits and I/O priorities.  `MenuFits` is the strengthening:
a menu that was opened and not touched still points to what the process had then.
`BoxesFacts` is the lemma on the affinity menu: the n-th box is the n-th CPU that can be named.

**SetupScreen_proofs** proves `SetupShowsTrue` (`SetupShowsSettings`) and the action
properties `SettingsStaySaved` (`SettingsAreSaved`) and `NoMeterLost` (`NoMeterIsLost`), for
any types, numbers and modes of meters, columns and first files, and any number of starts.
Assumed of files is that their columns end with the command, as the program writes them, and
that a meter without a number has 0.  `IInv` has `PageShown` (the rows of a page are those it
edits, in their order, since the handlers index one with the other), `Kept` (a visit that
changed something has said so, and the columns of the settings are those of the header when
it is left), and that what has not been changed is what is saved.  `NoMeterLost` is shown by
giving for each step the place that each meter goes to, and that no two go to one.

On `InfoScreen`: `TextIsShown` (`InfoShowsText`) and the action property `FilterLeavesSelected`
(`FilterKeepsSelected`), for any letters, any output and any reads (`InfoScreenAssumption`: a read
takes no more than the `FILE` holds).  `InfoInv` says of the rows that there is an increasing
function from them to the lines they are (`InOrder`), which survives that a line is added
(`InOrderAppended`), that the last line becomes a row (`InOrderLast`), that the panel is filled
anew (`KeptAlong`) and that lines and rows are sorted apart from each other (`SortedAlong`: the
order of a stable sort is one-way, `BeforeIsOneWay`).  A line has the text of each of its pieces
(`PieceIn`), so a line found by a piece still passes when the filter is applied to the whole.  Of
a trace it says that the texts of the lines, one after the other, are the letters of what was
read (`Whole`), and that each line break of it is the end of a line before the one that goes on
(`BreaksShown`); `SplitFits` is the same within the loop over one read.

**Figures_proofs** proves the figures of the header, module by module.

* `Rates`: `RatesAreTrue` (`RateIsTrue`), for any meters, processes, aliases and number of
  changes, while the numbers of `Width` values do not wrap (`RatesAssumption`).  `Keeps` says
  what the struct of a meter is worth after the counter has begun anew, gone and come back;
  `ShowsOnce` that all that was shown was transferred before the counter began, or up to
  what is kept.
* `Battery`: `LevelStaysRecent` (`LevelIsRecent`), for any batteries, capacities and cache
  time above 0.  `Divides`: there is something to divide by when a level is computed, with
  batteries that come and go between the two files of one; `TimeIsKept`: the time of the
  cache is that of the beginning of a reading.
* `CpuTimes`: `PeriodsAlwaysAddUp` (`PeriodsAddUp`), for any number of CPUs and any ticks.
  `LastIsBehind` is the strengthening: what is kept of a reading that can be trusted is not
  ahead of the kernel, in no counter and not in user time without guest time either, so no
  difference wraps.  `CpuAssumption` says that the width of the numbers is enough for the
  ticks of all CPUs.  The line of all CPUs is a sum, so the lemmas begin with sums
  (`SumFacts`, `SumIsMonotonic`, `SumChanged`): a recursive function of `Sums`, whose value
  at each place is shown by the least place where it would be wrong.
* `Memory`: `MemoryStaysTrue` (`MemoryIsTrue`), for any builds, amounts of memory, units and
  swap devices that hold something, if the numbers are wide enough for four times the memory
  (`MemoryAssumption`).  `Answers` is the argument: what a scan is told is, call by call,
  from before or after one move, so it differs from what there is by one page in each of two
  classes (`CallsAreAnswered`); for each build a lemma (`LinuxFits` to `SolarisFits`) adds up
  what that does to the three parts.  `SignedOf` says why the unsigned differences of Linux
  may be negative for a while: taken as signed numbers they come out right.
* `MeterModes`: `MetersStayRight` (`MetersAreRight`), for any values, texts, widths and totals,
  0 among them.
  The blocks of a bar begin where those before them end, which is a sum cut off at both ends
  (`Within`); of a text it is enough to know which characters are blanks (`Texts`).  `Recent` is
  what is kept of a graph: its values are the last readings, with zeros before the first.

**Program_proofs**, on `Configuration`, proves `OptionsKept` (`OptionsAreKept`), for any check boxes, columns,
schemes and command lines, any first files that are whole, and any number of runs, kills and
full disks.  The invariant has three parts that need each other: `FilesSound` (a file is whole,
or empty or cut with `cut` to say so, or hidden behind an old one), `KeptInFile` (`kept` is what
the file that counts means, except between the opening and the closing of the file at the
end), and `Progress` (what a start has read so far, stage by stage, so that it comes to
`kept` whichever way it takes).  `WrittenMeans` and `ReadWhole` are the two halves of one
idea: what is written means the same when it is read, whatever was there before.

On `MainLoop`: `TypeCorrect` and `NeverClosesOnIdle` (`ClosesOnlyInBurst`)
for any limit of ERRs and any number of waits.  `ErrsCounted` is the strengthening: as
long as the last event was an ERR and the last check found the delay not over, the
count of ERRs is at most the ERRs that came at once, plus one wait during which the
clock was set back and one that no check has seen yet; behind a key or a delay that is
over the next ERR starts the count anew, so nothing need be said.

On `ProcessTree`, for any finite set of pids, any process table, any changes and any keys:

* `TreeKeepsAllProcesses`: a sort neither loses nor doubles a process, whatever the parents are,
  in a circle too, and whether or not pids come back.  `BuildRule` is the rule for the
  recursion: what holds of a call if it holds of the calls in it, holds of all, as each takes a
  process off the list first; `Keeps` and `Grown` are what is shown with it.
* `TreeHasNoLoop` (`NoLoopInTree`), where no pid comes back within a scan (`~PidReuse`; the run
  `tree_loop` shows that it is needed).  `CircleInv` is the strengthening: the links of the
  kernel *and* those that were read, taken together, make no circle, because init inherits
  whatever could make one and a link read earlier goes to a process that was there before.  A set of
  processes without a circle has one without a parent in the set, which the bisection does not
  find in a list sorted by pid (`Bisect` finds what is there), so each round finds a root.
* `TreeStaysRight` (`TreeIsRight`), under the same condition.  `RowsInv` has `Drawing`: what is in
  the tree so far is drawn as a forest, and what is not is untouched (`Unplaced`); `Ordered` is
  what a call adds to its rows: each subtree together, below its root, last siblings marked.

**Lists_proofs**, on the containers: `InsertionSorts` and `QuickSortSorts`, that both sorts put any
array in the order of any comparison that is an order up to ties, and that the first is stable.
The quicksort is shown with its partition as it is, pivot and all (`PartitionFacts`,
`OrderedAroundPivot`): by the size of the part, as the recursion goes to two smaller ones.
`AddHolds`, `RemoveHolds` and their like say what `ProcessList_add` and `ProcessList_remove`
do to what vector and hash table hold, with arrays that grow and chains in buckets.

On `PlatformScan`: `SnapshotsAreLists` (`ListIsSnapshot`) and the action property
`SortsAreStable` (`SortIsStable`), for any processes, LWPs, jails and sizes of the containers.
`PlatformAssumption` has that a process has finitely many LWPs and that NULL is no number.
`PlatformInv` has `RowsRight`: during a scan the rows of what was read are those updated and those
still to come, so that the sweep, which takes away the rest (`SweepHolds`), leaves what the
system has handed out.

On `ProcessOrder`: `ListIsSorted` (`SortedByColumn`), for any lists, with columns that are
compared right, and `ClicksFindTitles` (`ClickFindsTitle`), for any columns and titles: the cells of
a title begin behind the lengths of those before it (`CellsOfTitles`), which is a sum.

`CompareMeansOrder` says which columns are compared right: for every width of the integers, a
compare function tells the sort to exchange two processes exactly if the second belongs above the
first, for all columns but those of unsigned numbers.  For those
`UnsignedOnNarrowLong` says the same where a long is as wide as an unsigned int, and
`UnsignedOnWideLong` that where it is twice as wide any two processes that differ
compare as greater, whichever comes first: the run `lists_unsigned` is no accident of
its instance.  The argument is about each difference modulo the width, in
`LongFits`, `LongOf` and `LongOfUInt`: it has the sign of the order as long as the values are less
than half a long apart, which `InRange` states per column, and `OrderAssumption` for pids.

**Only model-checked**:

* liveness (`ScanEnds`, `ScansForever`, `IdleIsSortedAfterKeys`), which TLAPS does
  not reach;
* `HostCpus` (`HostPartsAddUp`): averages of fractions with different denominators;
* `PlatformScan` (`ListFollowsProcesses`): what six builds count in a loop, process by
  process, against the rows there are at its end.

## Where code and documents disagree

The violation runs show six:

1. **The tree may hang** (`tree_loop`).  `ProcessList.c:262` says there should be no
   loop; parents read at different moments can form one when a pid comes back, and
   the loop of `ProcessList_sort` then finds no root.  The assertion that would
   stop it is compiled out.
2. **Tagged processes may get no signal** (`signal_misses_tagged`), and the
   highlighted one gets it instead when no tagged one is on the panel.
3. **Meters lose their numbers** (`meters_forgotten`) when a setting is saved without
   a visit of the setup screen.
4. **Some columns do not sort** (`lists_unsigned`).  Where a long has 64 bits, the difference
   of two unsigned ints is never negative (`Process.c:601`): sorted by process group,
   session, user, terminal, OOM score or container, the list turns round at every refresh.
5. **An idle user's list may stop being sorted** (`idle_list_unsorted`).  Every ERR takes one
   off `sortTimeout` (`ScreenManager.c:238`), but it is compared with 0 only when there is a scan
   (`ScreenManager.c:135`).  One ERR without a scan takes it past 0 until a key sets it anew: a
   click that hits nothing, on the meters say, or a wait during which the clock was set back by
   less than the delay, so that neither condition of `ScreenManager.c:128` holds.  `htop.1.in:37`
   promises a list sorted by a column.  `IdleIsSortedAfterKeys`, which is checked, says that
   this is the only way: while a scan follows each ERR, the list is sorted.
6. **The trace is not live** (`trace_not_live`), as `htop.1.in:93` says it is.  `fread` takes
   1000 characters of what the `FILE` has read ahead, and `select` looks at the pipe alone
   (`TraceScreen.c:127`): the end of a burst is not shown until strace writes again.

Met while modelling, and modelled as they are; no document promises otherwise:

* Owner and start time of a process are read for new objects only
  (`LinuxProcessList.c:848`): an object outlives a setuid() and, when a pid is
  reused between two scans, its process.
* A zombie has no command line and is taken for a kernel thread
  (`LinuxProcessList.c:704`); `TotalsAndFlagsFit` speaks of what the scan *takes*
  for one.
* "Untag all" removes the tags of the rows, not those of processes that are
  filtered out (`Action.c:522`).
* In the inverted order children are put in front of all rows, not behind their
  parent (`ProcessList.c:191`): with several roots the rows are no tree.
  `TreeIsRight` asks for it in the usual order only.
* Typing a letter in the categories shows the page of the row selected *before*
  (`CategoriesPanel.c:79`), `TypeCategory`.
* "Lock user here until it exits positioning-mode" (`MetersPanel.c:162`) holds for the
  arrows, not for Tab and the mouse, `MoveFocus`.
* `Vector_moveDown` on an empty meters panel fails an assertion in a debug build
  (`Vector.c:242`); the release build is made with NDEBUG, and the model leaves
  everything as it is.
* A header without meters is saved as empty lines and read as the default meters
  (`Settings.c:315`); `SettingsAreSaved` speaks of headers with meters.
* Behind a meter that this version does not know the modes are dropped
  (`Header.c:69`), `Populated`.
* F5 in the open files or the environment empties the panel but not the vector of
  lines (`OpenFilesScreen.c:148`): with the next change of the filter the lines of
  the earlier snapshots come back, `Scan` and `TakeSnapshot`.
* In the trace, a second piece without a line break begins a new line
  (`TraceScreen.c:146`); after a stop the next output goes on with the line from before
  it, as `contLine` survives; a match that straddles two pieces is shown only when the
  filter changes (`InfoScreen.c:103`); what strace writes into a full pipe is lost
  (`TraceScreen.c:101`).
* After a reading that failed the next rate is too high: the time went on, the counter
  did not (`Eth0_StatsMeter.c:35`), `ReadNet`.  The first rate is all since the start of
  the system, over one second.
* The `FILE` of a disk is never opened again, so a disk that is unplugged and plugged
  in again shows nothing until the end of the program (`Platform.c:694`), `Yields`.
* The battery meter gives up for good after one reading that yields 0 or fails
  (`Battery.c:299`), `GiveUp`.
* The simple CPU percentage has guest time in it whether or not it is to be accounted
  (`Platform.c:528`), `PeriodsAddUp`.
* The lines of `/proc/stat` are taken by position (`LinuxProcessList.c:1003`): with a
  CPU offline those behind it move up and the last one has what was on the stack.
* The I/O rate of a process that got the pid of another, or that could not be read
  in between, is a difference of unrelated unsigned numbers
  (`LinuxProcessList.c:401`); `RateIsTrue` leaves processes out.
* If the terminal gets another size under the help, an info screen or the environment, the
  list keeps its old size when it comes back, until the next such key (`InfoScreen.c:172`,
  `Action.c:536`); `missed` in `ScreenIsDivided`.
* OpenBSD rounds each part of a CPU for itself, and a sum above 100.0 % is shown as 0
  (`openbsd/Platform.c:232`): with 4, 1 and 1 of 6 ticks it is 100.1.  Two meters of one CPU
  take each other's ticks, user time is drawn in the place of nice time and the other way
  round, and the average asks for a CPU -1 and shows 0.
* On Darwin a CPU without a tick between two scans has no percentage (0/0,
  `darwin/Platform.c:209`), and a wrap of a counter gives a negative total.
* Where an unsigned long has 32 bits, the shares of FreeBSD and DragonFly are nearly 0 for one
  scan after a wrap, as the sums do not wrap (`FreeBSDProcessList.c:264`).
* Solaris compares the first reading with uninitialised memory
  (`SolarisProcessList.c:132`); nothing is drawn before the second.
* FreeBSD, OpenBSD and DragonFly decide whether to show a process before they fill in
  the fields they decide by (`FreeBSDProcessList.c:439`), so a new one is shown or hidden by an
  empty object in its first scan: kernel processes are shown, and with userland
  threads hidden every new process is hidden on FreeBSD and OpenBSD.
  `ListFollowsProcesses` speaks of the scans after it.
* On DragonFly hiding userland threads hides every process that has more than one
  (`DragonFlyBSDProcess.c:44`), and a process in a jail never counts as running.
* The name of a jail stays "-" on DragonFly if the jail was made after `scanJails`, and
  NULL on FreeBSD if it was gone already, until the process moves to another.
* On Solaris, LWPs of kernel processes count as those of userland, LWPs with an id
  above 1023 are left out even if the process is represented by one, and sorting by
  pid leaves the LWPs of a process in any order, in which the tree looks for parents
  by bisection.
* Parent and owner of a process are read once on OpenBSD and Darwin.  A failed
  `kvm_getprocs` empties the list for one scan; a failed second `sysctl` ends htop.
* The unsupported build fills in a process at every scan and never adds it to the list.
* After F7 and F8 at the limits the list shows a nice value that the kernel has cut
  (`Process.c:547`), until the next scan; `ShownIsKernels`.
* The I/O priority is read only if a column shows it (`LinuxProcessList.c:842`), so without one
  the menu begins at "None" and Enter resets it; one that is no row of the menu selects
  the first row; `IoRow`.
* Without libhwloc, CPUs from the number of bits of an unsigned long on, and CPUs with an id
  of `cpuCount` or more, are lost when the affinity menu is left with Enter
  (`Affinity.c:96`); `Nameable`, `Boxes`.
* I/O rates are compared by whole bytes per second (`LinuxProcess.c:441`): a is not above b and b
  not above c although a is above c, so only neighbours are in order.
* Where two titles differ in width from their values, clicks go by the titles; a click on the title
  of the sort column in tree view leaves the tree but not the marks of the header
  (`ProcessList.c:283`, `MainPanel.c:80`).
* The keys P, M and T leave the tree and do not redraw the function bar, which keeps the
  labels of the tree (`Action.c:177`).
* The truncation of a jail's or a zone's name is dead code behind a `break`.
* The free swap of OpenBSD stays as it was when no device is left; the fallback of Solaris
  counts bytes where the rest counts kilobytes; Darwin's purgeable pages are in two of
  the three parts; failed `sysctl`s of FreeBSD leave what the variables had.
* A bar of less than five columns has its "]" left of its place, and a clock that is set back
  stops a graph until it has caught up (`Meter.c:277`, `Meter.c:384`).
* What the command line sets is saved with the next option that is changed, and always in a
  first run without a file (`htop.c:206`); `-i` passes for an option and ends the
  program (`htop.c:92`).
* The writing of the settings is not checked (`Settings.c:354`): on a full disk the file is
  cut, and an old file that was to be moved is deleted all the same.  As long as an old
  file cannot be moved it hides what was saved at the new place.
* A file without a line "fields" does not count (`Settings.c:221`), but its other lines
  have been read by then and stay; a value with a "=" in it is cut.
* An attribute set on an empty string paints its terminator (`RichString.c:140`): in the
  narrow build it ends no text any more until the next write.  In the wide build a text that is
  not valid in the locale appends nothing.

## What is not modelled

* **Formatting**: the text of the columns and of the meters, colors, function
  bars.  They change nothing that a later step reads.  What bars and graphs draw is in `MeterModes`,
  where meters and panels are in `ScreenLayout`, the string they are written to in `RichString`.
* **Figures that are shown as they are read**: load, uptime, temperatures,
  frequencies, addresses, mount points, A/C.  Nothing of them is kept between readings.
* **Child processes** of the info screens: how lsof and strace are started and ended.
* **Other platforms** beyond process list, CPU times, memory and the order of columns: load and
  other figures; of the list, names, command lines, users and times, the retry of `jail.list`
  when the list has grown, and that Darwin does not look at threads on High Sierra.  On
  Solaris a process and each LWP is read in one step, from its two files.
* **Containers**: the functions of `Vector` and `Hashtable` that process lists do not
  use; what panels do with theirs is in `Panel` and `SetupScreen`.
* **The terminal**: ncurses, the tables of colors, the mouse, `CRT.c`.
* **The syntax of the settings file**: a line is its option and its value in `Configuration`,
  a meter or a field in `SetupScreen`.

## The plan

Done so far, in the order of importance: the scan and its abstract specification;
the tree; the panel; the main screen; the main loop; the setup screen with header
and settings; the info screens; rates, CPU times and battery; containers, the process
lists and the CPU times of the other builds; the layout of the screen; actions on processes;
memory; what meters draw; the order of the list; the options over runs of the program;
strings with attributes.  Proved is every
safety property of the runs but two.

Next, in this order:

1. *The other builds' CPUs*: the shares of one CPU (`SharesBSD`, `SharesSolaris`,
   `Percentages`), then `HostPartsAddUp`.
2. *The counters of the other builds*: `ListFollowsProcesses`, from `PlatformInv`, build by build.
3. *The columns of the list*: the cache of user names, which outlives its entries.
