---------------------------- MODULE ProcessScan ----------------------------
(***************************************************************************)
(* One refresh of htop's process list: ProcessList_scan with the Linux     *)
(* walk of /proc, while the operating system goes on creating, renaming    *)
(* and reaping tasks between any two of its system calls.                  *)
(*                                                                         *)
(* Process objects live on the heap: "live" holds those allocated, "obj"   *)
(* their fields.  The list is kept twice, as the vector "vec" that owns    *)
(* the objects and as the hash table "table" from pid to object.           *)
(*                                                                         *)
(* Definitions marked "Defect" are not the program: each is a plausible    *)
(* mistake in the definition that follows it, which some property has to   *)
(* tell from the code.                                                     *)
(***************************************************************************)
EXTENDS Naturals, FiniteSets, SequencesExt

CONSTANTS
  Pid,            \* process and thread ids the kernel hands out
  KernelPid,      \* the pids kernel threads may have
  RunState,       \* states of a task that is not a zombie: "R" runs, "S" sleeps
  Obj,            \* addresses of Process objects
  NULL,           \* the null pointer
  NoList,         \* in ProcessSnapshot: a refresh is under way, there is no list
  HideKernelThreads, HideUserlandThreads, UpdateProcessNames,  \* settings
  MaxChanges      \* bound: how often the task table changes in a behaviour

ASSUME PidAssumption == Pid \subseteq Nat \ {0}
ASSUME ObjAssumption == NULL \notin Obj
ASSUME BoundAssumption == MaxChanges \in Nat
ASSUME StateAssumption == RunState \subseteq {"R", "S"}
ASSUME NoListAssumption == \A list \in SUBSET (Pid \X Pid) : NoList # list
ASSUME SettingAssumption == {HideKernelThreads, HideUserlandThreads,
                             UpdateProcessNames} \subseteq BOOLEAN

VARIABLES
  os,       \* the kernel's task table: os[p].tgid = 0 when p is not in use
  changes,  \* bound: the changes of the task table so far
  live,     \* the Process objects allocated
  obj,      \* the fields of each object
  vec,      \* ProcessList.processes
  table,    \* ProcessList.processTable
  counts,   \* totalTasks, runningTasks, userlandThreads, kernelThreads
  pc,       \* where the scan is
  at,       \* the index of the loop that ends it
  todo,     \* the entries of /proc still to be visited
  tasks,    \* the entries of the current task directory still to be visited
  leader,   \* the frame of the outer recurseProcTree: "proc" and "preExisting"
  thread,   \* the same of the inner one, over the leader's task directory
  steady,   \* history: pids whose task has existed since the scan began
  witnessed  \* history: the <<pid, tgid>> that have existed during the scan

heapVars == <<live, obj, vec, table>>
walkVars == <<pc, at, todo, tasks, leader, thread>>
histVars == <<steady, witnessed>>
osVars == <<os, changes>>
vars == <<osVars, heapVars, counts, walkVars, histVars>>

-----------------------------------------------------------------------------
State == RunState \cup {"Z"}

\* The fields the scan fills in.  isKernelThread is what readCmdlineFile has
\* concluded from an empty command line.
Process == [pid : Pid \cup {0}, tgid : Pid \cup {0}, state : State \cup {"-"},
            isKernelThread : BOOLEAN, show : BOOLEAN, updated : BOOLEAN]

\* What xCalloc leaves in an object, and what freed memory is set to here.
Blank == [pid |-> 0, tgid |-> 0, state |-> "-",
          isKernelThread |-> FALSE, show |-> FALSE, updated |-> FALSE]

NoTask == [tgid |-> 0, state |-> "-", kernel |-> FALSE]
OsTask == {NoTask} \cup [tgid : Pid, state : State, kernel : BOOLEAN]

NoFrame == [proc |-> NULL, preExisting |-> FALSE]
Frame == [proc : Obj \cup {NULL}, preExisting : BOOLEAN]

Exists(p) == os[p].tgid # 0
IsLeader(p) == os[p].tgid = p
Threads(p) == {q \in Pid \ {p} : os[q].tgid = p}

\* The tasks of a task table, with their groups.
Tasks(t) == {<<p, t[p].tgid>> : p \in {q \in Pid : t[q].tgid # 0}}

Zero == [total |-> 0, running |-> 0, userland |-> 0, kernel |-> 0]

\* A task table: threads are in the group of a process that exists.
OsTable == {t \in [Pid -> OsTask] :
              \A p \in Pid :
                  /\ t[p].tgid # 0 => t[t[p].tgid].tgid = t[p].tgid
                  /\ t[p].tgid \notin {0, p} =>
                        /\ t[p].state # "Z"
                        /\ ~t[p].kernel /\ ~t[t[p].tgid].kernel
                  /\ t[p].kernel => p \in KernelPid}

\* htop starts on a system that runs already.
Init == /\ os \in OsTable
        /\ changes = 0
        /\ live = {}
        /\ obj = [o \in Obj |-> Blank]
        /\ vec = << >>
        /\ table = [p \in Pid |-> NULL]
        /\ counts = Zero
        /\ pc = "idle" /\ at = 0 /\ todo = {} /\ tasks = {}
        /\ leader = NoFrame /\ thread = NoFrame
        /\ steady = {} /\ witnessed = {}

-----------------------------------------------------------------------------
(* The operating system.                                                   *)

\* A change of the task table, remembered as long as a scan is under way.
OsChange(newOs) ==
    /\ changes < MaxChanges
    /\ changes' = changes + 1
    /\ os' = newOs
    /\ steady' = {p \in steady : newOs[p].tgid # 0}
    /\ witnessed' = IF pc = "idle" THEN witnessed ELSE witnessed \cup Tasks(newOs)
    /\ UNCHANGED <<heapVars, counts, walkVars>>

\* fork(): a new process, under a pid that is not in use (but may have been).
Fork == \E p \in Pid, s \in RunState, k \in BOOLEAN :
    /\ ~Exists(p)
    /\ k => p \in KernelPid
    /\ OsChange([os EXCEPT ![p] = [tgid |-> p, state |-> s, kernel |-> k]])

\* clone(): a new thread of a process.
Clone == \E p \in Pid, q \in Pid, s \in RunState :
    /\ IsLeader(p) /\ ~os[p].kernel /\ os[p].state # "Z"
    /\ ~Exists(q)
    /\ OsChange([os EXCEPT ![q] = [tgid |-> p, state |-> s, kernel |-> FALSE]])

\* exit(): a thread disappears; a process remains as a zombie.
Exit == \E p \in Pid :
    /\ Exists(p) /\ os[p].state # "Z"
    /\ OsChange([os EXCEPT ![p] = IF IsLeader(p) THEN [@ EXCEPT !.state = "Z"]
                                  ELSE NoTask])

\* wait(): the parent reaps a zombie whose threads are all gone.
Reap == \E p \in Pid :
    /\ IsLeader(p) /\ os[p].state = "Z" /\ Threads(p) = {}
    /\ OsChange([os EXCEPT ![p] = NoTask])

\* The scheduler runs a task or puts it to sleep.
Schedule == \E p \in Pid, s \in RunState :
    /\ Exists(p) /\ os[p].state \notin {"Z", s}
    /\ OsChange([os EXCEPT ![p].state = s])

Environment == Fork \/ Clone \/ Exit \/ Reap \/ Schedule

-----------------------------------------------------------------------------
(* ProcessList_add, ProcessList_remove and ProcessList_getProcess.         *)

\* The objects in the list.
Listed == ToSet(vec)

\* Vector_indexOf with Process_pidCompare: the first entry with this pid.
IndexOf(p) == CHOOSE i \in DOMAIN vec :
                  obj[vec[i]].pid = p /\ \A j \in 1..(i-1) : obj[vec[j]].pid # p

\* Defect: the vector entry goes, the key stays in the hash table.
ProcessListRemoveKeepsKey(o) ==
    LET i == IndexOf(obj[o].pid) IN
    /\ vec' = RemoveAt(vec, i)
    /\ live' = live \ {vec[i]}
    /\ obj' = [obj EXCEPT ![vec[i]] = Blank]
    /\ UNCHANGED table

\* The list without the object o: its key leaves the table, the vector entry
\* with its pid goes and, as the vector owns its entries, is freed.
ProcessListRemove(o) ==
    LET i == IndexOf(obj[o].pid) IN
    /\ table' = [table EXCEPT ![obj[o].pid] = NULL]
    /\ vec' = RemoveAt(vec, i)
    /\ live' = live \ {vec[i]}
    /\ obj' = [obj EXCEPT ![vec[i]] = Blank]

ProcessDelete(o) ==
    /\ live' = live \ {o}
    /\ obj' = [obj EXCEPT ![o] = Blank]
    /\ UNCHANGED <<vec, table>>

\* getProcess for the entry p, then its tgid is set: the frame of its visit is
\* the object in the table, or a new one that is not in the list yet.
GetProcess(p, tgid, f) ==
    IF table[p] # NULL
    THEN /\ f = [proc |-> table[p], preExisting |-> TRUE]
         /\ obj' = [obj EXCEPT ![table[p]].tgid = tgid]
         /\ UNCHANGED live
    ELSE \E o \in Obj \ live :
         /\ f = [proc |-> o, preExisting |-> FALSE]
         /\ obj' = [obj EXCEPT ![o] = [Blank EXCEPT !.pid = p, !.tgid = tgid, !.show = TRUE]]
         /\ live' = live \cup {o}

-----------------------------------------------------------------------------
(* ProcessList_scan and LinuxProcessList_recurseProcTree.                  *)

IsKernelThread(o) == obj[o].isKernelThread
IsUserlandThread(o) == obj[o].pid # obj[o].tgid
IsThread(o) == IsUserlandThread(o) \/ IsKernelThread(o)

\* Every process is marked, the counters are reset and /proc is opened.  It
\* lists the thread group leaders.
StartScan ==
    /\ pc = "idle"
    /\ obj' = [o \in Obj |-> IF o \in Listed
                             THEN [obj[o] EXCEPT !.updated = FALSE, !.show = TRUE]
                             ELSE obj[o]]
    /\ counts' = Zero
    /\ pc' = "proc"
    /\ todo' = {p \in Pid : IsLeader(p)}
    /\ steady' = {p \in Pid : Exists(p)}
    /\ witnessed' = Tasks(os)
    /\ UNCHANGED <<osVars, live, vec, table, at, tasks, leader, thread>>

\* Defect: the task directory's entry of the process itself is visited too.
EnterProcessTwice ==
    /\ pc = "proc" /\ todo # {}
    /\ \E p \in todo :
        /\ \A q \in todo : p <= q
        /\ GetProcess(p, p, leader')
        /\ todo' = todo \ {p}
        /\ tasks' = IF Exists(p) THEN {q \in Pid : os[q].tgid = os[p].tgid} ELSE {}
    /\ pc' = "task"
    /\ UNCHANGED <<osVars, vec, table, counts, at, thread, histVars>>

\* The next entry of /proc, in increasing order: its object is found or made,
\* and its task directory is opened.  The entry of the process itself there is
\* skipped.
EnterProcess ==
    /\ pc = "proc" /\ todo # {}
    /\ \E p \in todo :
        /\ \A q \in todo : p <= q
        /\ GetProcess(p, p, leader')
        /\ todo' = todo \ {p}
        /\ tasks' = IF Exists(p) THEN {q \in Pid : os[q].tgid = os[p].tgid} \ {p}
                    ELSE {}
    /\ pc' = "task"
    /\ UNCHANGED <<osVars, vec, table, counts, at, thread, histVars>>

\* The next entry of the task directory, in the order of the kernel's list of
\* threads.  A thread's own task directory has no path below this one.
EnterThread ==
    /\ pc = "task" /\ tasks # {}
    /\ \E t \in tasks :
        /\ GetProcess(t, obj[leader.proc].pid, thread')
        /\ tasks' = tasks \ {t}
    /\ pc' = "statm"
    /\ UNCHANGED <<osVars, vec, table, counts, at, todo, leader, histVars>>

\* The task directory is done: the process itself is read.
LeaveTaskDir ==
    /\ pc = "task" /\ tasks = {}
    /\ pc' = "statm"
    /\ UNCHANGED <<osVars, heapVars, counts, at, todo, tasks, leader, thread, histVars>>

\* The entry being read, and whether its files are there: /proc/P for any task
\* P, /proc/P/task/T for a thread T of P's thread group.
frame == IF thread # NoFrame THEN thread ELSE leader
cur == obj[frame.proc]
Readable == /\ Exists(cur.pid)
            /\ thread # NoFrame =>
                 /\ Exists(obj[leader.proc].pid)
                 /\ os[cur.pid].tgid = os[obj[leader.proc].pid].tgid

\* Back to the task directory after a thread, to /proc after a process.
NextEntry ==
    /\ pc' = IF thread # NoFrame THEN "task" ELSE "proc"
    /\ thread' = NoFrame
    /\ leader' = IF thread # NoFrame THEN leader ELSE NoFrame
    /\ UNCHANGED <<osVars, at, todo, tasks, histVars>>

\* Defect: a new object that could not be read is forgotten, not freed.
ReadErrorLeaks ==
    /\ IF frame.preExisting THEN ProcessListRemove(frame.proc) ELSE UNCHANGED heapVars
    /\ NextEntry
    /\ UNCHANGED counts

\* Defect: an entry that cannot be read is tried again.
ReadErrorRetries == UNCHANGED vars

\* errorReadingProcess.
ReadError ==
    /\ IF frame.preExisting THEN ProcessListRemove(frame.proc)
                            ELSE ProcessDelete(frame.proc)
    /\ NextEntry
    /\ UNCHANGED counts

\* Defect: the setting for userland threads is not asked.
ShownUnlessKernel(o) == ~(HideKernelThreads /\ IsKernelThread(o))

\* Whether the settings let the object be displayed.
Shown(o) == ~ \/ HideKernelThreads /\ IsKernelThread(o)
              \/ HideUserlandThreads /\ IsUserlandThread(o)

ReadStatm ==
    /\ pc = "statm"
    /\ \/ /\ Readable
          /\ obj' = [obj EXCEPT ![frame.proc].show = Shown(frame.proc)]
          /\ pc' = "stat"
          /\ UNCHANGED <<osVars, live, vec, table, counts, at, todo, tasks, leader, thread,
                         histVars>>
       \/ ~Readable /\ ReadError

ReadStat ==
    /\ pc = "stat"
    /\ \/ /\ Readable
          /\ obj' = [obj EXCEPT ![frame.proc].state = os[cur.pid].state]
          /\ pc' = IF frame.preExisting THEN "finish" ELSE "dir"
          /\ UNCHANGED <<osVars, live, vec, table, counts, at, todo, tasks, leader, thread,
                         histVars>>
       \/ ~Readable /\ ReadError

\* statProcessDir, for a new object only.  The owner that it yields is left out.
StatDir ==
    /\ pc = "dir"
    /\ \/ /\ Readable
          /\ pc' = "finish"
          /\ UNCHANGED <<osVars, heapVars, counts, at, todo, tasks, leader, thread, histVars>>
       \/ ~Readable /\ ReadError

\* readCmdlineFile: a task with no address space has an empty command line.
CmdlineEmpty(p) == os[p].kernel \/ os[p].state = "Z"

\* The command line is read for a new process, and for an old one when names
\* are kept up to date and it is not a zombie.
ReadsCmdline == ~frame.preExisting \/ (UpdateProcessNames /\ cur.state # "Z")

\* Defect: a task is counted when it enters the list only.
CountedOnce(kernel) ==
    IF frame.preExisting THEN counts ELSE [counts EXCEPT !.total = @ + 1]

\* The totals with the task of this visit: a kernel thread, a userland thread
\* or neither, and perhaps running.
Counted(kernel) ==
    LET one(b) == IF b THEN 1 ELSE 0 IN
    [total    |-> counts.total + 1,
     running  |-> counts.running + one(cur.state = "R"),
     userland |-> counts.userland + one(IsUserlandThread(frame.proc) /\ ~kernel),
     kernel   |-> counts.kernel + one(kernel)]

\* The rest of the visit: a new object enters the list, the task is counted.
Finish ==
    /\ pc = "finish"
    /\ \/ /\ ReadsCmdline => Readable
          /\ LET kernel == IsKernelThread(frame.proc)
                             \/ (ReadsCmdline /\ CmdlineEmpty(cur.pid))
             IN
             /\ obj' = [obj EXCEPT ![frame.proc].isKernelThread = kernel,
                                   ![frame.proc].updated = TRUE]
             /\ counts' = Counted(kernel)
          /\ IF frame.preExisting
             THEN UNCHANGED <<vec, table>>
             ELSE /\ vec' = Append(vec, frame.proc)
                  /\ table' = [table EXCEPT ![cur.pid] = frame.proc]
          /\ NextEntry
          /\ UNCHANGED live
       \/ ReadsCmdline /\ ~Readable /\ ReadError

\* /proc is done: the list is gone through from its end.
EndWalk ==
    /\ pc = "proc" /\ todo = {}
    /\ pc' = "sweep"
    /\ at' = Len(vec)
    /\ UNCHANGED <<osVars, heapVars, counts, todo, tasks, leader, thread, histVars>>

\* Defect: the sweep clears the marks and removes nothing.
SweepMarksOnly ==
    /\ pc = "sweep" /\ at > 0
    /\ obj' = [obj EXCEPT ![vec[at]].updated = FALSE]
    /\ at' = at - 1
    /\ UNCHANGED <<live, vec, table, osVars, counts, pc, todo, tasks, leader, thread, histVars>>

\* An object the walk did not reach leaves the list, another loses its mark.
Sweep ==
    /\ pc = "sweep" /\ at > 0
    /\ IF obj[vec[at]].updated
       THEN /\ obj' = [obj EXCEPT ![vec[at]].updated = FALSE]
            /\ UNCHANGED <<live, vec, table>>
       ELSE ProcessListRemove(vec[at])
    /\ at' = at - 1
    /\ UNCHANGED <<osVars, counts, pc, todo, tasks, leader, thread, histVars>>

EndScan ==
    /\ pc = "sweep" /\ at = 0
    /\ pc' = "idle"
    /\ steady' = {} /\ witnessed' = {}
    /\ UNCHANGED <<osVars, heapVars, counts, at, todo, tasks, leader, thread>>

Walk == \/ EnterProcess \/ EnterThread \/ LeaveTaskDir
        \/ ReadStatm \/ ReadStat \/ StatDir \/ Finish
        \/ EndWalk \/ Sweep \/ EndScan

Next == Environment \/ StartScan \/ Walk

\* The main loop calls the scan again and again; once called it runs on.
Spec == Init /\ [][Next]_vars /\ WF_vars(Walk)

-----------------------------------------------------------------------------
(* Properties.                                                             *)

Idle == pc = "idle"
Reading == pc \in {"statm", "stat", "dir", "finish"}

TypeOK ==
    /\ os \in [Pid -> OsTask]
    /\ changes \in Nat
    /\ live \subseteq Obj
    /\ obj \in [Obj -> Process]
    /\ vec \in Seq(Obj)
    /\ table \in [Pid -> Obj \cup {NULL}]
    /\ counts \in [total : Nat, running : Nat, userland : Nat, kernel : Nat]
    /\ pc \in {"idle", "proc", "task", "statm", "stat", "dir", "finish", "sweep"}
    /\ at \in Nat
    /\ todo \subseteq Pid /\ tasks \subseteq Pid
    /\ leader \in Frame /\ thread \in Frame
    /\ steady \subseteq Pid /\ witnessed \subseteq Pid \X Pid

\* The hash table and the vector hold the same processes, each under its pid
\* and once, in the middle of a scan too: what the assertions of
\* ProcessList_add and ProcessList_remove test at their calls.
TableMatchesVector ==
    /\ \A i, j \in DOMAIN vec : vec[i] = vec[j] => i = j
    /\ \A o \in Listed : obj[o].pid \in Pid /\ table[obj[o].pid] = o
    /\ \A p \in Pid : table[p] # NULL => table[p] \in Listed /\ obj[table[p]].pid = p

\* No object is used after it was freed, and none is lost: what the list and
\* the frames of the walk point to is allocated, and nothing else is.
Held == {f \in {leader.proc, thread.proc} : f # NULL}
NoDanglingNoLeak == live = Listed \cup Held

\* An object that is being visited was in the list before exactly if it still
\* is: the visit of its threads, which may add and remove objects, never adds,
\* removes or frees the process itself.
VisitedStaysPut ==
    \A f \in {leader, thread} \ {NoFrame} :
        /\ f.preExisting <=> f.proc \in Listed
        /\ table[obj[f.proc].pid] = IF f.preExisting THEN f.proc ELSE NULL

\* A userland thread is hidden if the settings hide those, and nothing is but
\* what they hide.
FlagsFit(o) ==
    /\ HideUserlandThreads /\ IsUserlandThread(o) => ~obj[o].show
    /\ ~obj[o].show => \/ HideUserlandThreads /\ IsUserlandThread(o)
                       \/ HideKernelThreads /\ IsKernelThread(o)

\* After a scan, and until the next, the totals of the header cover the list: a
\* task that vanished after it was counted may be in the totals alone, never a
\* process in the list alone.  The scan leaves no mark behind; it hides the
\* userland threads the settings hide, all of them, and beyond them none but
\* what it takes for kernel threads.
TotalsAndFlagsFit ==
    Idle => /\ counts.total >= Len(vec)
            /\ counts.userland + counts.kernel <= counts.total
            /\ counts.running >= Cardinality({o \in Listed : obj[o].state = "R"})
            /\ counts.kernel >= Cardinality({o \in Listed : IsKernelThread(o)})
            /\ \A o \in Listed : ~obj[o].updated /\ FlagsFit(o)

\* The scan refines ProcessSnapshot: what is listed when it ends is a list such
\* as that module allows.
Pairs(S) == {<<p, os[p].tgid>> : p \in S}
ShownList == IF Idle THEN {<<obj[o].pid, obj[o].tgid>> : o \in Listed} ELSE NoList
Snapshot == INSTANCE ProcessSnapshot WITH
    tasks  <- Tasks(os),
    listed <- ShownList,
    steady <- Pairs(steady)

ImplementsSnapshot == Snapshot!Safety

\* Whatever the system does meanwhile, the directories a scan has opened are
\* finite and each of their entries is left, read or not: the scan ends.
ScanEnds == Snapshot!Ends

-----------------------------------------------------------------------------
(* The inductive invariant behind TableMatchesVector, NoDanglingNoLeak and *)
(* VisitedStaysPut.                                                        *)

\* Where the scan is tells which frames it has; the two are about different
\* pids, because the task directory's entry of the process itself is skipped,
\* and only a new object is on its way to the list.
Frames ==
    /\ \A f \in {leader, thread} : f # NoFrame => f.proc \in Obj /\ obj[f.proc].pid \in Pid
    /\ leader # NoFrame <=> pc = "task" \/ Reading
    /\ thread # NoFrame => Reading /\ obj[thread.proc].pid # obj[leader.proc].pid
    /\ leader # NoFrame => obj[leader.proc].pid \notin tasks
    /\ pc = "dir" => ~frame.preExisting

\* The index of the sweep stays within the list, which shrinks under it.
SweepInRange == pc = "sweep" => at <= Len(vec)

IInv == /\ TypeOK /\ TableMatchesVector /\ NoDanglingNoLeak /\ VisitedStaysPut
        /\ Frames /\ SweepInRange

-----------------------------------------------------------------------------
(* What has to be added to IInv for ImplementsSnapshot: how far a scan has *)
(* come, and that what it has met was there.                               *)

Once == Snapshot!OnePerPid(witnessed)
LeaderPid == obj[leader.proc].pid

\* The group of a thread is a process, and lives as long as the thread.
GroupsExist ==
    /\ \A p \in Pid : Exists(p) => IsLeader(os[p].tgid)
    /\ \A p \in steady : Exists(p) /\ os[p].tgid \in steady
    /\ ~Idle => Tasks(os) \subseteq witnessed

\* An object has the pid of a task that has existed during the scan, and its group
\* too, unless a pid was used for two tasks.
Met(w, p, tgid) == /\ \E t \in w : t[1] = p
                   /\ Snapshot!OnePerPid(w) => <<p, tgid>> \in w
MetObject(o) == obj[o].tgid \in Pid /\ Met(witnessed, obj[o].pid, obj[o].tgid)

\* What is still to be visited, and what is being visited, was met in a directory;
\* the entries of a task directory are in the group of its process.
DirectoriesTrue ==
    /\ \A p \in todo : <<p, p>> \in witnessed
    /\ tasks # {} => leader # NoFrame
    /\ Reading /\ thread = NoFrame => tasks = {}
    /\ \A t \in tasks : Met(witnessed, t, LeaderPid)
    /\ leader # NoFrame => obj[leader.proc].tgid = LeaderPid /\ <<LeaderPid, LeaderPid>> \in witnessed
    /\ thread # NoFrame => obj[thread.proc].tgid = LeaderPid /\ MetObject(thread.proc)

\* An entry of the list that the sweep keeps, or has kept.
Kept(i) == obj[vec[i]].updated \/ (pc = "sweep" /\ i > at)
KeptWereMet ==
    /\ \A o \in Listed : obj[o].tgid \in Pid
    /\ ~Idle => \A i \in DOMAIN vec : Kept(i) => MetObject(vec[i])

\* A task that exists since the scan began is kept, or the scan will come to it: its
\* process is ahead, or being visited and the task with it.
Ahead(p) == \/ os[p].tgid \in todo
            \/ leader # NoFrame /\ os[p].tgid = LeaderPid /\ (p = LeaderPid \/ p \in tasks)
            \/ thread # NoFrame /\ p = obj[thread.proc].pid
NoneMissed ==
    Once => \A p \in steady :
        Ahead(p) \/ \E i \in DOMAIN vec : obj[vec[i]].pid = p /\ Kept(i)

Progress == /\ GroupsExist /\ DirectoriesTrue /\ KeptWereMet /\ NoneMissed
            /\ Idle => steady = {} /\ witnessed = {}
            /\ pc \in {"idle", "sweep"} => todo = {}

-----------------------------------------------------------------------------
(* What has to be added to IInv for TotalsAndFlagsFit.                     *)

\* The objects that have been read and that nobody visits, again, at the moment.
\* Of these the totals and the flags are right while the scan goes on.
Settled == {vec[i] : i \in {j \in DOMAIN vec : Idle \/ Kept(j)}} \ Held

TotalsCover ==
    /\ counts.userland + counts.kernel <= counts.total
    /\ counts.total >= Cardinality(Settled)
    /\ counts.running >= Cardinality({o \in Settled : obj[o].state = "R"})
    /\ counts.kernel >= Cardinality({o \in Settled : IsKernelThread(o)})

Tally == /\ TotalsCover
         /\ \A o \in Settled : FlagsFit(o)
         /\ Reading /\ pc # "statm" => FlagsFit(frame.proc)
         /\ Idle => \A o \in Listed : ~obj[o].updated
         /\ pc = "sweep" => \A i \in DOMAIN vec : i > at => ~obj[vec[i]].updated
=============================================================================
