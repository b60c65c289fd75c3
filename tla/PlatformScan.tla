---------------------------- MODULE PlatformScan ----------------------------
(***************************************************************************)
(* The process list where htop is not built for Linux.  FreeBSD,           *)
(* DragonFly, OpenBSD and Darwin take a snapshot of the process table with *)
(* one call and then look at its entries one by one; Solaris walks         *)
(* through /proc and is called back for every LWP.  Around it is           *)
(* ProcessList_scan, and after it ProcessList_sort, on the vector and the  *)
(* hash table as they are (Containers).                                    *)
(*                                                                         *)
(* A Process object is known by its pid, as there is at most one of a pid. *)
(*                                                                         *)
(* Definitions marked "Defect" are plausible mistakes, not the program.    *)
(***************************************************************************)
EXTENDS Containers, FiniteSetsExt

CONSTANTS
  Platforms,    \* the builds looked at
  Pid,          \* process ids; 1 is init
  Jid,          \* ids of jails, which also stand for their names
  Tasks,        \* for each build, the tasks a process may consist of
  Sorts,        \* the sort keys and directions, and the tree view
  DEFAULT_SIZE, TableSize,  \* 10 and 140: the sizes of the two containers
  MaxChanges    \* bound: for each build, how often system and settings change

ASSUME PlatformAssumption ==
  /\ Platforms \subseteq {"freebsd", "dragonfly", "openbsd", "solaris", "darwin", "unsupported"}
  /\ Pid \subseteq Nat \ {0} /\ IsFiniteSet(Pid) /\ 1 \in Pid
  /\ Jid \subseteq Nat \ {0} /\ NULL \notin Nat
  /\ DEFAULT_SIZE \in Nat \ {0} /\ TableSize \in Nat \ {0} /\ MaxChanges \in [Platforms -> Nat]
  /\ \A b \in Platforms : \A t \in Tasks[b] :
        /\ t \in [kernel : BOOLEAN, lwps : SUBSET Nat, rep : Nat, busy : SUBSET Nat]
        /\ IsFiniteSet(t.lwps) /\ IsFiniteSet(t.busy)
  /\ Sorts \subseteq [tree : BOOLEAN, key : {"PID", "PPID", "PERCENT_CPU"}, direction : {1, -1}]

VARIABLES
  platform,     \* the build
  os,           \* the process table: parent, jail and tasks; NULL: not in use
  jails,        \* the jails there are
  changes,      \* bound: the changes of system and settings so far
  settings,     \* hideKernelThreads, hideUserlandThreads and the sort order
  ps,           \* the Process objects
  processes,    \* ProcessList.processes
  processTable,  \* ProcessList.processTable
  jailTable,    \* DragonFlyBSDProcessList.jails
  counts,       \* totalTasks, userlandThreads, kernelThreads, runningTasks
  pc,           \* where the main loop is
  entries,      \* what goThroughEntries has still to look at
  read,         \* history: what the scan has read of each process
  fresh,        \* history: the objects that are new with this scan
  other         \* history: pids whose process is not the one first listed

osVars == <<platform, os, jails, changes, other>>
listVars == <<ps, processes, processTable, fresh>>
platformVars == <<osVars, settings, listVars, jailTable, counts, pc, entries, read>>

Exists(p) == os[p] # NULL
Alive(t) == t.lwps # {}   \* not a zombie
Jailed == platform \in {"freebsd", "dragonfly"}

\* As xCalloc and Process_init leave an object, with the pid of
\* ProcessList_getProcess.  In the object of OpenBSD a kernel process is one whose
\* process group is 0.
New(pid) ==
    [pid |-> pid, tgid |-> 0, ppid |-> 0, kernel |-> platform = "openbsd", nlwp |-> 0,
     cpu |-> 0, running |-> FALSE, show |-> TRUE, updated |-> FALSE,
     jid |-> 0, jname |-> NULL, isLwp |-> FALSE, timed |-> FALSE, taskAccess |-> TRUE]

\* The process an object is of; Solaris has one for every LWP.
PidOf(k) == IF platform = "solaris" THEN k \div 1024 ELSE k
ListedPids == {PidOf(k) : k \in DOMAIN ps}

NoName == 0   \* the name "-"

Nothing == [total |-> 0, userland |-> 0, kernel |-> 0, running |-> 0]

PlatformInit ==
    /\ platform \in Platforms
    /\ \E t \in [Pid -> Tasks[platform] \cup {NULL}] :
         /\ t[1] # NULL /\ ~t[1].kernel /\ Alive(t[1])
         /\ os = [p \in Pid |-> IF t[p] = NULL THEN NULL
                                ELSE [ppid |-> IF p = 1 \/ t[p].kernel THEN 0 ELSE 1,
                                      jid |-> 0, task |-> t[p]]]
    /\ jails = {} /\ changes = 0 /\ other = {}
    /\ settings \in [hideKernelThreads : BOOLEAN, hideUserlandThreads : BOOLEAN,
                     sort : Sorts]
    /\ ps = << >> /\ fresh = {}
    /\ processes = VectorNew(DEFAULT_SIZE) /\ processTable = HashtableNew(TableSize)
    /\ jailTable = {} /\ counts = Nothing
    /\ pc = "idle" /\ entries = << >> /\ read = [p \in Pid |-> NULL]

-----------------------------------------------------------------------------
(* The operating system.                                                   *)

Change == /\ changes < MaxChanges[platform]
          /\ changes' = changes + 1
          /\ UNCHANGED <<platform, settings, listVars, jailTable, counts, pc, entries, read>>

\* A pid may be handed out again before a scan has noticed that it was given up.
Fork == \E p \in Pid, q \in Pid, t \in Tasks[platform] :
    /\ ~Exists(p) /\ Exists(q) /\ ~os[q].task.kernel /\ Alive(os[q].task) /\ Alive(t)
    /\ os' = [os EXCEPT ![p] = [ppid |-> IF t.kernel THEN 0 ELSE q,
                                jid |-> IF t.kernel THEN 0 ELSE os[q].jid, task |-> t]]
    /\ other' = IF read[p] # NULL \/ p \in ListedPids THEN other \cup {p} ELSE other
    /\ Change /\ UNCHANGED jails

Exit == \E p \in Pid \ {1} :
    /\ Exists(p)
    /\ os' = [q \in Pid |-> IF q = p THEN NULL
                            ELSE IF Exists(q) /\ os[q].ppid = p
                                 THEN [os[q] EXCEPT !.ppid = 1] ELSE os[q]]
    /\ Change /\ UNCHANGED <<jails, other>>

\* LWPs begin, end, run and sleep, another one becomes the representative, or the
\* process a zombie.
Reschedule == \E p \in Pid, t \in Tasks[platform] :
    /\ Exists(p) /\ Alive(os[p].task) /\ os[p].task # t /\ os[p].task.kernel = t.kernel
    /\ p = 1 => Alive(t)
    /\ os' = [os EXCEPT ![p].task = t]
    /\ Change /\ UNCHANGED <<jails, other>>

CreateJail == \E j \in Jid \ jails :
    /\ Jailed /\ jails' = jails \cup {j}
    /\ Change /\ UNCHANGED <<os, other>>

RemoveJail == \E j \in jails :
    /\ \A p \in Pid : Exists(p) => os[p].jid # j
    /\ jails' = jails \ {j}
    /\ Change /\ UNCHANGED <<os, other>>

EnterJail == \E p \in Pid \ {1}, j \in jails :
    /\ Exists(p) /\ ~os[p].task.kernel /\ os[p].jid = 0
    /\ os' = [os EXCEPT ![p].jid = j]
    /\ Change /\ UNCHANGED <<jails, other>>

Environment == Fork \/ Exit \/ Reschedule \/ CreateJail \/ RemoveJail \/ EnterJail

-----------------------------------------------------------------------------
(* ProcessList_scan up to goThroughEntries, and what that begins with.     *)

\* Defect: the numbers of tasks go on from those of the last scan.
ZeroShown == [counts EXCEPT !.userland = 0, !.kernel = 0]

Zero == Nothing

StartScan ==
    /\ pc \in {"idle", "scanned", "sorted"}
    /\ pc' = IF platform = "dragonfly" THEN "jails" ELSE "snapshot"
    /\ ps' = [k \in DOMAIN ps |-> [ps[k] EXCEPT !.updated = FALSE, !.show = TRUE]]
    /\ counts' = Zero
    /\ fresh' = {} /\ read' = [p \in Pid |-> NULL]
    /\ UNCHANGED <<osVars, settings, processes, processTable, jailTable, entries>>

\* DragonFlyBSDProcessList_scanJails: with no jail at all, the last list stays.
ScanJails ==
    /\ pc = "jails" /\ pc' = "snapshot"
    /\ jailTable' = IF jails = {} THEN jailTable ELSE jails
    /\ UNCHANGED <<osVars, settings, listVars, counts, entries, read>>

\* What the system hands out of a process: KERN_PROC_ALL of OpenBSD leaves out
\* kernel processes, KERN_PROC_FLAG_LWP of DragonFly makes an entry of each LWP.
\* The walk of Solaris has only pids in the beginning.
EntriesOf(p) ==
    LET lwps == IF platform = "openbsd" /\ os[p].task.kernel THEN << >>
                ELSE IF platform = "dragonfly" /\ ~settings.hideUserlandThreads
                        /\ Alive(os[p].task)
                     THEN SetToSeq(os[p].task.lwps)
                ELSE <<os[p].task.rep>>
    IN [i \in DOMAIN lwps |-> [pid |-> p, proc |-> os[p], lwp |-> lwps[i]]]

\* An entry that is not read yet.
Unread(p) == [pid |-> p, proc |-> NULL, lwp |-> 0]

\* The orders a system hands its processes out in; bound: upwards or downwards.
Orders(S) ==
    {o \in [1..Cardinality(S) -> S] :
        \/ \A i \in DOMAIN o : \A j \in 1..(i - 1) : o[j] < o[i]
        \/ \A i \in DOMAIN o : \A j \in 1..(i - 1) : o[j] > o[i]}

\* kvm_getprocs, the two calls of sysctl, or the directory /proc; the order is
\* that of the system.  On Solaris there is one kernel thread from the start.
Snapshot ==
    /\ pc = "snapshot" /\ pc' = "visit"
    /\ \E order \in Orders({p \in Pid : Exists(p)}) :
         entries' = IF platform = "unsupported" THEN <<Unread(1)>>
                    ELSE IF platform = "solaris" THEN [i \in DOMAIN order |-> Unread(order[i])]
                    ELSE FlattenSeq([i \in DOMAIN order |-> EntriesOf(order[i])])
    /\ read' = [p \in Pid |-> IF platform \in {"solaris", "unsupported"} THEN NULL ELSE os[p]]
    /\ counts' = [counts EXCEPT !.kernel = IF platform = "solaris" THEN 1 ELSE @]
    /\ UNCHANGED <<osVars, settings, listVars, jailTable>>

\* The call fails: there is nothing to look at, and on Darwin htop ends.
SnapshotFails ==
    /\ pc = "snapshot" /\ changes < MaxChanges[platform] /\ platform # "unsupported"
    /\ changes' = changes + 1
    /\ pc' = IF platform = "darwin" THEN "fatal" ELSE "visit"
    /\ counts' = [counts EXCEPT !.kernel = IF platform = "solaris" THEN 1 ELSE @]
    /\ UNCHANGED <<platform, os, jails, other, settings, listVars, jailTable, entries, read>>

-----------------------------------------------------------------------------
(* goThroughEntries of each build.                                         *)

Old(k) == HashtableGet(processTable, k) # NULL
Object(k) == IF Old(k) THEN ps[k] ELSE New(k)

\* The object with pid k gets its fields; ProcessList_add if it is a new one.
Store(k, object) ==
    /\ ps' = [x \in DOMAIN ps \cup {k} |-> IF x = k THEN [object EXCEPT !.updated = TRUE]
                                           ELSE ps[x]]
    /\ IF Old(k) THEN UNCHANGED <<processes, processTable, fresh>>
       ELSE /\ processes' = VectorAdd(processes, k)
            /\ processTable' = HashtablePut(processTable, k, k)
            /\ fresh' = fresh \cup {k}

Count(total, userland, kernel, running) ==
    counts' = [total |-> counts.total + total, userland |-> counts.userland + userland,
               kernel |-> counts.kernel + kernel, running |-> counts.running + running]

One(condition) == IF condition THEN 1 ELSE 0

ThisEntry == Head(entries)
Visited == pc = "visit" /\ entries # << >> /\ entries' = Tail(entries)
ScanOnly == UNCHANGED <<osVars, settings, jailTable, pc>>

\* By the fields the object has had until now: in a new one pid and tgid differ.
ShownUntilNow(o) == ~ \/ settings.hideKernelThreads /\ o.kernel
                      \/ settings.hideUserlandThreads /\ o.pid # o.tgid

\* FreeBSDProcessList_readJailName: NULL for a jail that is gone already.
ReadJailName(j) == IF j = 0 THEN NoName ELSE IF j \in jails THEN j ELSE NULL

\* Defect: the name of the jail is read once.
JailFirst(o, j, name) == IF o.jid = j THEN o ELSE [o EXCEPT !.jid = j]

\* A process can enter a jail anytime.
JailOf(o, j, name) == IF o.jid = j THEN o ELSE [o EXCEPT !.jid = j, !.jname = name]

VisitFreeBSD ==
    /\ platform = "freebsd" /\ Visited /\ ScanOnly
    /\ LET k == ThisEntry.pid
           proc == ThisEntry.proc
           o == Object(k)
           name == ReadJailName(proc.jid)
           kept == IF Old(k) THEN JailOf(o, proc.jid, name)
                   ELSE [o EXCEPT !.jid = proc.jid, !.jname = name, !.tgid = k,
                                  !.kernel = k \notin {0, 1} /\ proc.task.kernel]
       IN /\ Store(k, [kept EXCEPT !.show = ShownUntilNow(o), !.ppid = proc.ppid,
                                   !.nlwp = Cardinality(proc.task.lwps),
                                   !.cpu = Cardinality(proc.task.busy),
                                   !.running = proc.task.busy # {}])
          /\ Count(1, 0, One(kept.kernel), One(proc.task.busy # {}))
    /\ UNCHANGED read

\* DragonFlyBSDProcessList_readJailName, from the list made at the beginning.
ListedJailName(j) == IF j \in jailTable THEN j ELSE NoName

\* The state of a process is that of the LWP of the entry, but in a jail it is 'J'.
Runs(proc, lwp) == lwp \in proc.task.busy /\ proc.jid = 0

\* A kernel thread is known by its address instead of its pid, which they share.
VisitDragonFly ==
    /\ platform = "dragonfly" /\ Visited /\ ScanOnly
    /\ LET k == ThisEntry.pid
           proc == ThisEntry.proc
           o == Object(k)
           name == ListedJailName(proc.jid)
           kept == IF Old(k) THEN JailOf(o, proc.jid, name)
                   ELSE [o EXCEPT !.jid = proc.jid, !.jname = name, !.tgid = k,
                                  !.kernel = proc.task.kernel]
       IN /\ Store(k, [kept EXCEPT
                !.show = ~ \/ settings.hideKernelThreads /\ o.kernel
                           \/ settings.hideUserlandThreads /\ o.nlwp > 1,
                !.ppid = proc.ppid,
                !.nlwp = Cardinality(proc.task.lwps),
                !.cpu = One(ThisEntry.lwp \in proc.task.busy),
                !.running = Runs(proc, ThisEntry.lwp)])
          /\ Count(1, 0, One(kept.kernel), One(Runs(proc, ThisEntry.lwp)))
    /\ UNCHANGED read

\* Parent, group and user are those of the time the process was first seen.
VisitOpenBSD ==
    /\ platform = "openbsd" /\ Visited /\ ScanOnly
    /\ LET k == ThisEntry.pid
           proc == ThisEntry.proc
           o == Object(k)
           kept == IF Old(k) THEN o
                   ELSE [o EXCEPT !.ppid = proc.ppid, !.tgid = k, !.kernel = proc.task.kernel]
       IN /\ Store(k, [kept EXCEPT !.show = ShownUntilNow(o),
                                   !.cpu = Cardinality(proc.task.busy),
                                   !.running = proc.task.busy # {}])
          /\ Count(1, 0, One(kept.kernel), One(proc.task.busy # {}))
    /\ UNCHANGED read

\* proc_walk reads psinfo and lpsinfo of the next process, if it is still there;
\* the callback is for each of its LWPs.
OpenSolaris ==
    /\ platform = "solaris" /\ pc = "visit" /\ entries # << >> /\ ThisEntry.proc = NULL
    /\ LET p == ThisEntry.pid
           lwps == IF Exists(p) THEN SetToSeq(os[p].task.lwps) ELSE << >>
       IN /\ entries' = [i \in DOMAIN lwps |-> [pid |-> p, proc |-> os[p], lwp |-> lwps[i]]]
                        \o Tail(entries)
          /\ read' = [read EXCEPT ![p] = os[p]]
    /\ ScanOnly /\ UNCHANGED <<listVars, counts>>

\* Pids are multiplied, to have room for the LWPs.
LwpPid(p, lwp, rep) == IF lwp = rep THEN p * 1024 ELSE p * 1024 + lwp

\* SolarisProcessList_walkproc.  The id of an LWP has to be below 1024.
VisitSolaris ==
    /\ platform = "solaris" /\ entries # << >> /\ ThisEntry.proc # NULL /\ Visited /\ ScanOnly
    /\ LET proc == ThisEntry.proc
           master == ThisEntry.lwp = proc.task.rep
           k == LwpPid(ThisEntry.pid, ThisEntry.lwp, proc.task.rep)
           o == Object(k)
           nlwp == Cardinality(proc.task.lwps)
           runs == One(ThisEntry.lwp \in proc.task.busy)
           hideKernel == settings.hideKernelThreads
           hideUserland == settings.hideUserlandThreads
           parent == IF master THEN proc.ppid ELSE IF Old(k) THEN o.ppid ELSE ThisEntry.pid
       IN IF ThisEntry.lwp > 1023 THEN UNCHANGED <<listVars, counts>>
          ELSE /\ Store(k, [o EXCEPT
                     !.ppid = parent, !.nlwp = nlwp, !.tgid = parent,
                     !.isLwp = IF Old(k) THEN @ ELSE ~master,
                     !.kernel = IF Old(k) THEN @ ELSE parent = 0 /\ ThisEntry.pid # 1,
                     !.cpu = IF master THEN Cardinality(proc.task.busy)
                             ELSE runs,
                     !.running = ThisEntry.lwp \in proc.task.busy,
                     !.show = IF master THEN ~(hideKernel /\ o.kernel)
                              ELSE IF o.kernel THEN ~hideKernel ELSE ~hideUserland])
               /\ IF master /\ o.kernel /\ ~hideKernel THEN Count(nlwp + 1, 0, nlwp, runs)
                  ELSE IF master /\ ~o.kernel /\ hideUserland THEN Count(1, 0, 0, runs)
                  ELSE IF master /\ ~o.kernel THEN Count(nlwp + 1, nlwp, 0, runs)
                  ELSE UNCHANGED counts
    /\ UNCHANGED read

\* DarwinProcess_setFromKInfoProc: from the snapshot; parent, group and user once.
FromKInfoProc(o, k, proc) ==
    IF Old(k) THEN [o EXCEPT !.running = FALSE]
    ELSE [o EXCEPT !.ppid = proc.ppid, !.tgid = k, !.running = FALSE]

\* DarwinProcess_setFromLibprocPidinfo: from the process as it is now, if htop may
\* see it.  The share of the CPU is a difference, so there is none after the first
\* reading.
FromLibprocPidinfo(o, task) ==
    [o EXCEPT !.nlwp = Cardinality(task.lwps), !.timed = TRUE,
              !.cpu = IF o.timed THEN Cardinality(task.busy) ELSE @]

\* DarwinProcess_scanThreads: the state is that of the threads as they are now; once
\* refused, they are not asked for again.
ScanThreads(o, task, allowed) ==
    [o EXCEPT !.running = allowed /\ task.busy # {}, !.taskAccess = allowed]

VisitDarwin ==
    /\ platform = "darwin" /\ Visited /\ ScanOnly
    /\ LET k == ThisEntry.pid
           open == Exists(k) /\ Alive(os[k].task)
           task == IF open THEN os[k].task ELSE ThisEntry.proc.task
           lwps == Cardinality(task.lwps)
           basic == FromKInfoProc(Object(k), k, ThisEntry.proc)
       IN \E info \in {FALSE, open}, allowed \in {FALSE, open} :
            LET known == IF info THEN FromLibprocPidinfo(basic, task) ELSE basic
            IN /\ Store(k, IF basic.taskAccess /\ Alive(ThisEntry.proc.task)
                           THEN ScanThreads(known, task, allowed) ELSE known)
               /\ IF info THEN Count(1 + lwps, lwps, 0, Cardinality(task.busy))
                  ELSE Count(1, 0, 0, 0)
    /\ UNCHANGED read

\* The object that stands for an unsupported system is made and filled in at every
\* scan, but there is no ProcessList_add.
VisitUnsupported ==
    /\ platform = "unsupported" /\ Visited /\ ScanOnly
    /\ UNCHANGED <<listVars, counts, read>>

-----------------------------------------------------------------------------
(* The end of ProcessList_scan, and ProcessList_sort.                      *)

ProcessListRemove(s, k) ==
    [table |-> HashtableRemove(s.table, k),
     vector |-> VectorTake(s.vector, VectorIndexOf(s.vector, k))]

\* Defect: the sweep goes upwards and passes over the one that moves up.
SweepUp(v) == [i \in 1..v.items |-> i - 1]

\* The indices of the sweep, in its order.
SweepOrder(v) == [i \in 1..v.items |-> v.items - i]

\* One turn of the sweep.
Swept(s, i) ==
    LET k == s.vector.array[i]
    IN IF i >= s.vector.items THEN s ELSE IF ps[k].updated THEN s ELSE ProcessListRemove(s, k)

Sweep ==
    LET swept[n \in 0..processes.items] ==
          IF n = 0 THEN [table |-> processTable, vector |-> processes]
          ELSE Swept(swept[n - 1], SweepOrder(processes)[n])
    IN swept[processes.items]

EndScan ==
    /\ pc = "visit" /\ entries = << >>
    /\ pc' = "scanned"
    /\ processTable' = Sweep.table /\ processes' = Sweep.vector
    /\ ps' = [k \in ToSet(Elements(processes')) |-> [ps[k] EXCEPT !.updated = FALSE]]
    /\ other' = {p \in other : \E k \in DOMAIN ps' : PidOf(k) = p}
    /\ UNCHANGED <<platform, os, jails, changes, settings, fresh, jailTable, counts, entries, read>>

\* Process_compare.  The one of Solaris compares the pids of processes, so that all
\* LWPs of one are equal.
ValueOf(key, o) == CASE key = "PID" -> PidOf(o.pid)
                   [] key = "PPID" -> o.ppid
                   [] key = "PERCENT_CPU" -> -o.cpu

CompareRows(key, direction) ==
    [pair \in (DOMAIN ps) \X (DOMAIN ps) |->
        LET p1 == ValueOf(key, ps[pair[IF direction = 1 THEN 1 ELSE 2]])
            p2 == ValueOf(key, ps[pair[IF direction = 1 THEN 2 ELSE 1]])
        IN IF key = "PERCENT_CPU" THEN IF p1 > p2 THEN 1 ELSE -1 ELSE p1 - p2]

\* The list view sorts in place; the tree view by pid first, before it builds the
\* tree (ProcessTree).
Sort ==
    /\ pc = "scanned" /\ pc' = "sorted"
    /\ processes' = IF settings.sort.tree THEN VectorQuickSort(processes, CompareRows("PID", 1))
                    ELSE VectorInsertionSort(processes,
                             CompareRows(settings.sort.key, settings.sort.direction))
    /\ UNCHANGED <<osVars, settings, ps, processTable, fresh, jailTable, counts, entries, read>>

\* The user changes a setting; the next scan is at once.
ChangeSettings ==
    /\ pc = "sorted" /\ pc' = "idle"
    /\ changes < MaxChanges[platform] /\ changes' = changes + 1
    /\ \/ settings' = [settings EXCEPT !.hideKernelThreads = ~@]
       \/ settings' = [settings EXCEPT !.hideUserlandThreads = ~@]
       \/ \E sort \in Sorts : settings' = [settings EXCEPT !.sort = sort]
    /\ UNCHANGED <<platform, os, jails, other, listVars, jailTable, counts, entries, read>>

Visit == \/ VisitFreeBSD \/ VisitDragonFly \/ VisitOpenBSD \/ OpenSolaris \/ VisitSolaris
         \/ VisitDarwin \/ VisitUnsupported

PlatformNext == \/ Environment \/ StartScan \/ ScanJails \/ Snapshot \/ SnapshotFails
                \/ Visit \/ EndScan \/ Sort \/ ChangeSettings

PlatformSpec == PlatformInit /\ [][PlatformNext]_platformVars

-----------------------------------------------------------------------------
(* Properties.                                                             *)

Quiet == pc \in {"scanned", "sorted"}

PlatformTypeOK ==
    /\ \A k \in DOMAIN ps : ps[k].pid = k /\ PidOf(k) \in Pid /\ ps[k].jname \in Jid \cup {NoName, NULL}
    /\ processes.items <= Cardinality(DOMAIN processes.array)
    /\ jails \subseteq Jid /\ jailTable \subseteq Jid /\ other \subseteq Pid
    /\ fresh \subseteq DOMAIN ps
    /\ pc \in {"idle", "jails", "snapshot", "visit", "scanned", "sorted", "fatal"}

\* The rows that there should be of a process as it was read.
Rows(p) ==
    IF read[p] = NULL THEN {}
    ELSE IF platform = "solaris"
         THEN {LwpPid(p, l, read[p].task.rep) : l \in {m \in read[p].task.lwps : m < 1024}}
         ELSE IF platform = "openbsd" /\ read[p].task.kernel THEN {} ELSE {p}

\* At all times the vector, the chains of the hash table and the objects that are
\* allocated agree, each pair in the right bucket and both counts right; and after
\* a scan the list is what the system has handed out, nothing lost in the sweep and
\* nothing left over.
ListIsSnapshot ==
    /\ PlatformTypeOK
    /\ IsInjective(Elements(processes)) /\ ToSet(Elements(processes)) = DOMAIN ps
    /\ processTable.items = processes.items
    /\ \A b \in DOMAIN processTable.buckets :
          LET chain == processTable.buckets[b]
          IN /\ {chain[i].key : i \in DOMAIN chain} = {k \in DOMAIN ps : k % TableSize = b}
             /\ Len(chain) = Cardinality({k \in DOMAIN ps : k % TableSize = b})
             /\ \A i \in DOMAIN chain : chain[i].value = chain[i].key
    /\ Quiet => DOMAIN ps = UNION {Rows(p) : p \in Pid}

\* From its second scan on a process is hidden exactly if it is one of the kernel and
\* those are hidden, or it counts as a thread and those are hidden; in the first one
\* the flags go by fields that are not filled in yet.  Parent and jail are those of
\* the scan, and the name is that of the jail, or what stands for one not found.
RowsFollowProcesses ==
    Quiet => \A k \in DOMAIN ps :
        LET p == PidOf(k)
            was == read[p]
            hidden == settings.hideKernelThreads /\ was.task.kernel
            unknown(j) == IF j # 0 /\ platform = "freebsd" THEN NULL ELSE NoName
        IN p \notin other =>
           /\ k \notin fresh /\ platform # "darwin" /\ ~ps[k].isLwp =>
                 /\ hidden => ~ps[k].show
                 /\ ~hidden /\ ~settings.hideUserlandThreads => ps[k].show
           /\ platform \in {"freebsd", "openbsd"} /\ k \notin fresh => ps[k].show = ~hidden
           /\ Jailed \/ (platform = "solaris" /\ ~ps[k].isLwp) => ps[k].ppid = was.ppid
           /\ Jailed => /\ ps[k].jid = was.jid
                        /\ ps[k].jname \in {IF was.jid = 0 THEN NoName ELSE was.jid, unknown(was.jid)}

\* What TasksMeter shows as the number of processes, all tasks without the threads of
\* kernel and userland, is that of the list: of its processes that are not the
\* kernel's, on DragonFly of their LWPs if those are read, on Darwin of all of them.
\* Solaris counts the rows of processes that are shown, less the one kernel thread
\* it begins with.  The running ones are rows too, on DragonFly LWPs outside of jails.
TasksAreRows ==
    LET shown == counts.total - counts.kernel - counts.userland
        users == {k \in DOMAIN ps : ~ps[k].kernel}
        lwps(k) == IF settings.hideUserlandThreads \/ ps[k].nlwp = 0 THEN 1 ELSE ps[k].nlwp
        task(k) == read[k].task
        atWork(k) == IF read[k].jid # 0 THEN 0
                     ELSE IF settings.hideUserlandThreads THEN One(task(k).rep \in task(k).busy)
                     ELSE Cardinality(task(k).busy)
        onScreen == {k \in DOMAIN ps : ~ps[k].isLwp /\ ps[k].show}
        running(rows) == Cardinality({k \in rows : ps[k].running})
    IN Quiet =>
        CASE platform \in {"freebsd", "openbsd"} ->
               shown = Cardinality(users) /\ counts.running = running(DOMAIN ps)
          [] platform = "dragonfly" ->
               /\ shown = MapThenSumSet(lwps, users)
               /\ counts.running = MapThenSumSet(atWork, DOMAIN ps)
          [] platform = "solaris" ->
               shown + 1 = Cardinality(onScreen) /\ counts.running = running(onScreen)
          [] OTHER -> shown = processes.items /\ counts.running <= counts.userland

\* What the list shows of the processes, and what the Tasks meter counts of them, is what
\* the scans of the platforms have read.
ListFollowsProcesses == RowsFollowProcesses /\ TasksAreRows

\* Sorting loses no row, puts them in order, and in the list view leaves those that
\* are equal as they were, so that rows do not jump between two refreshes.
SortIsStable ==
    [][pc = "scanned" /\ pc' = "sorted" =>
         LET old == Elements(processes)
             new == Elements(processes')
             tree == settings.sort.tree
             compare == CompareRows(IF tree THEN "PID" ELSE settings.sort.key,
                                IF tree THEN 1 ELSE settings.sort.direction)
             value(k) == ValueOf(settings.sort.key, ps[k])
         IN /\ Len(new) = Len(old) /\ ToSet(new) = ToSet(old) /\ processTable' = processTable
            /\ \A i \in 1..(Len(new) - 1) : ~Greater(compare, new[i], new[i + 1])
            /\ ~tree => \A i, j \in DOMAIN new :
                  i < j /\ value(new[i]) = value(new[j]) =>
                      VectorIndexOf(processes, new[i]) < VectorIndexOf(processes, new[j])]_platformVars
=============================================================================
