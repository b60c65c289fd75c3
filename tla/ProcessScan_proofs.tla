------------------------- MODULE ProcessScan_proofs -------------------------
(***************************************************************************)
(* For any set of pids and addresses, any settings and any number of       *)
(* changes of the system: the list of processes stays consistent and its   *)
(* memory safe, at every step of every scan; what a scan ends with is a    *)
(* list that ProcessSnapshot allows, and the totals cover it.              *)
(***************************************************************************)
EXTENDS ProcessScan, SequenceTheorems, FiniteSetTheorems, TLAPS

\* What RemoveAt returns.
LEMMA RemoveAtProperties ==
    ASSUME NEW S, NEW s \in Seq(S), NEW i \in 1..Len(s)
    PROVE  /\ RemoveAt(s, i) \in Seq(S)
           /\ Len(RemoveAt(s, i)) = Len(s) - 1
           /\ \A j \in 1..(Len(s) - 1) :
                 RemoveAt(s, i)[j] = IF j < i THEN s[j] ELSE s[j + 1]
<1> DEFINE a == SubSeq(s, 1, i - 1)
           b == SubSeq(s, i + 1, Len(s))
<1>1. Len(s) \in Nat /\ \A j \in 1..Len(s) : s[j] \in S
  OBVIOUS
<1>2. a \in Seq(S) /\ Len(a) = i - 1 /\ \A j \in 1..(i - 1) : a[j] = s[j]
  <2>1. \A j \in 1..(i - 1) : s[j] \in S
    BY <1>1
  <2> QED  BY <1>1, <2>1, SubSeqProperties
<1>3. b \in Seq(S) /\ Len(b) = Len(s) - i /\ \A j \in 1..(Len(s) - i) : b[j] = s[i + j]
  <2>1. \A j \in (i + 1)..Len(s) : s[j] \in S
    BY <1>1
  <2> QED  BY <1>1, <2>1, SubSeqProperties
<1> HIDE DEF a, b
<1>4. Len(a) + Len(b) = Len(s) - 1
  BY <1>1, <1>2, <1>3
<1>5. /\ a \o b \in Seq(S)
      /\ Len(a \o b) = Len(a) + Len(b)
      /\ \A j \in 1..(Len(a) + Len(b)) :
            (a \o b)[j] = IF j <= Len(a) THEN a[j] ELSE b[j - Len(a)]
  BY <1>2, <1>3, ConcatProperties
<1>6. \A j \in 1..(Len(s) - 1) : (a \o b)[j] = IF j < i THEN s[j] ELSE s[j + 1]
  <2> TAKE j \in 1..(Len(s) - 1)
  <2>1. CASE j < i
    BY <2>1, <1>1, <1>2, <1>4, <1>5
  <2>2. CASE ~(j < i)
    <3>1. j - (i - 1) \in 1..(Len(s) - i) /\ i + (j - (i - 1)) = j + 1
      BY <2>2, <1>1
    <3> QED  BY <2>2, <3>1, <1>1, <1>2, <1>3, <1>4, <1>5
  <2> QED  BY <2>1, <2>2
<1> QED  BY <1>4, <1>5, <1>6 DEF RemoveAt, a, b

-----------------------------------------------------------------------------
(* The list as a set.                                                      *)

LEMMA ListedFacts ==
    ASSUME TypeOK
    PROVE  /\ Len(vec) \in Nat /\ DOMAIN vec = 1..Len(vec)
           /\ \A i \in 1..Len(vec) : vec[i] \in Obj
           /\ Listed \subseteq Obj
           /\ \A o : o \in Listed <=> \E i \in 1..Len(vec) : vec[i] = o
BY DEF TypeOK, Listed, ToSet

\* IndexOf finds the entry of a listed object by its pid.
LEMMA IndexOfListed ==
    ASSUME TypeOK, TableMatchesVector, NEW o \in Listed
    PROVE  IndexOf(obj[o].pid) \in 1..Len(vec) /\ vec[IndexOf(obj[o].pid)] = o
<1> DEFINE p == obj[o].pid
           First(i) == obj[vec[i]].pid = p /\ \A j \in 1..(i - 1) : obj[vec[j]].pid # p
<1>1. PICK k \in 1..Len(vec) : vec[k] = o
  BY ListedFacts
<1>2. \A i \in 1..Len(vec) : obj[vec[i]].pid = p => i = k
  <2> SUFFICES ASSUME NEW i \in 1..Len(vec), obj[vec[i]].pid = p
               PROVE  i = k
    OBVIOUS
  <2>1. vec[i] \in Listed
    BY ListedFacts
  <2>2. vec[i] = o
    BY <2>1 DEF TableMatchesVector
  <2> QED  BY <1>1, <2>2, ListedFacts DEF TableMatchesVector
<1>3. k \in DOMAIN vec /\ First(k)
  BY <1>1, <1>2, ListedFacts
<1>4. IndexOf(p) = CHOOSE i \in DOMAIN vec : First(i)
  BY DEF IndexOf
<1>5. IndexOf(p) \in DOMAIN vec /\ First(IndexOf(p))
  BY <1>3, <1>4
<1> QED  BY <1>1, <1>2, <1>5, ListedFacts

\* ProcessListRemove takes one object out of the list, and frees that one.
LEMMA RemoveListed ==
    ASSUME TypeOK, TableMatchesVector, NEW o \in Listed, ProcessListRemove(o)
    PROVE  /\ vec' \in Seq(Obj) /\ Len(vec') = Len(vec) - 1
           /\ Listed' = Listed \ {o}
           /\ \A i, j \in DOMAIN vec' : vec'[i] = vec'[j] => i = j
           /\ table' = [table EXCEPT ![obj[o].pid] = NULL]
           /\ live' = live \ {o}
           /\ obj' = [obj EXCEPT ![o] = Blank]
<1> DEFINE i == IndexOf(obj[o].pid)
<1>1. i \in 1..Len(vec) /\ vec[i] = o
  BY IndexOfListed
<1>2. /\ table' = [table EXCEPT ![obj[o].pid] = NULL]
      /\ vec' = RemoveAt(vec, i)
      /\ live' = live \ {o}
      /\ obj' = [obj EXCEPT ![o] = Blank]
  BY <1>1 DEF ProcessListRemove
<1>3. vec \in Seq(Obj)
  BY DEF TypeOK
<1> HIDE DEF i
<1>4. /\ vec' \in Seq(Obj) /\ Len(vec') = Len(vec) - 1
      /\ \A j \in 1..(Len(vec) - 1) : vec'[j] = IF j < i THEN vec[j] ELSE vec[j + 1]
  BY <1>1, <1>2, <1>3, RemoveAtProperties
<1>5. DOMAIN vec' = 1..(Len(vec) - 1)
  BY <1>4
<1>6. \A j, k \in 1..Len(vec) : vec[j] = vec[k] => j = k
  BY ListedFacts DEF TableMatchesVector
<1>7. \A j, k \in DOMAIN vec' : vec'[j] = vec'[k] => j = k
  BY <1>1, <1>4, <1>5, <1>6, ListedFacts
<1>8. Listed' = {vec'[j] : j \in 1..(Len(vec) - 1)}
  BY <1>5 DEF Listed, ToSet
<1>9. \A q : q \in Listed' => q \in Listed /\ q # o
  BY <1>1, <1>4, <1>6, <1>8, ListedFacts
<1>10. \A q : q \in Listed /\ q # o => q \in Listed'
  <2> SUFFICES ASSUME NEW q \in Listed, q # o
               PROVE  q \in Listed'
    OBVIOUS
  <2>1. PICK k \in 1..Len(vec) : vec[k] = q
    BY ListedFacts
  <2>2. CASE k < i
    <3>1. k \in 1..(Len(vec) - 1) /\ vec'[k] = q
      BY <1>1, <1>4, <2>1, <2>2, ListedFacts
    <3> QED  BY <3>1, <1>8
  <2>3. CASE k > i
    <3>1. k - 1 \in 1..(Len(vec) - 1) /\ ~(k - 1 < i) /\ (k - 1) + 1 = k
      BY <1>1, <2>1, <2>3, ListedFacts
    <3>2. vec'[k - 1] = q
      BY <1>4, <2>1, <3>1
    <3> QED  BY <3>1, <3>2, <1>8
  <2> QED  BY <1>1, <2>1, <2>2, <2>3, ListedFacts
<1> QED  BY <1>2, <1>4, <1>7, <1>9, <1>10

\* The list stays consistent when one object is removed.
LEMMA RemoveKeepsTable ==
    ASSUME TypeOK, TableMatchesVector, NEW o \in Listed, ProcessListRemove(o)
    PROVE  TableMatchesVector'
<1>1. /\ Listed' = Listed \ {o}
      /\ \A i, j \in DOMAIN vec' : vec'[i] = vec'[j] => i = j
      /\ table' = [table EXCEPT ![obj[o].pid] = NULL]
      /\ obj' = [obj EXCEPT ![o] = Blank]
  BY RemoveListed
<1>2. /\ o \in Obj /\ Listed \subseteq Obj /\ obj \in [Obj -> Process]
      /\ table \in [Pid -> Obj \cup {NULL}] /\ obj[o].pid \in Pid
  BY ListedFacts DEF TypeOK, TableMatchesVector
<1>3. \A q \in Listed' : obj'[q].pid \in Pid /\ table'[obj'[q].pid] = q
  BY <1>1, <1>2 DEF TableMatchesVector
<1>4. \A p \in Pid : table'[p] # NULL => table'[p] \in Listed' /\ obj'[table'[p]].pid = p
  BY <1>1, <1>2 DEF TableMatchesVector
<1> QED  BY <1>1, <1>3, <1>4 DEF TableMatchesVector

-----------------------------------------------------------------------------
(* Steps that leave the list and the pids alone.                           *)

LEMMA BlankIsProcess == Blank \in Process /\ Blank.pid = 0
BY DEF Blank, Process, State

LEMMA NoFrameIsFrame == NoFrame \in Frame /\ NoFrame.proc = NULL
BY DEF NoFrame, Frame

\* A step that changes neither the list nor the frames nor the pid of an object
\* keeps what the invariant says of them.
LEMMA FieldsOnly ==
    ASSUME TypeOK, TableMatchesVector, NoDanglingNoLeak, VisitedStaysPut,
           UNCHANGED <<vec, table, live, leader, thread>>,
           \A o \in Obj : obj'[o].pid = obj[o].pid,
           Frames
    PROVE  TableMatchesVector' /\ NoDanglingNoLeak' /\ VisitedStaysPut'
<1>1. Listed' = Listed
  BY DEF Listed, ToSet
<1>2. Listed \subseteq Obj /\ table \in [Pid -> Obj \cup {NULL}]
  BY ListedFacts DEF TypeOK
<1>3. TableMatchesVector'
  BY <1>1, <1>2 DEF TableMatchesVector
<1>4. NoDanglingNoLeak'
  BY <1>1 DEF NoDanglingNoLeak, Held
<1>5. \A f \in {leader, thread} \ {NoFrame} : obj'[f.proc].pid = obj[f.proc].pid
  BY DEF Frames
<1>6. VisitedStaysPut'
  BY <1>1, <1>5 DEF VisitedStaysPut
<1> QED  BY <1>3, <1>4, <1>6

\* The part of the invariant that is about the place of the scan.
LEMMA FramesKept ==
    ASSUME Frames, UNCHANGED <<leader, thread, tasks, pc>>,
           \A o \in Obj : obj'[o].pid = obj[o].pid
    PROVE  Frames'
BY DEF Frames, frame, Reading

LEMMA InitIInv == Init => IInv
<1> SUFFICES ASSUME Init PROVE IInv
  OBVIOUS
<1>1. os \in [Pid -> OsTask]
  BY DEF Init, OsTable
<1>2. obj \in [Obj -> Process]
  BY BlankIsProcess DEF Init
<1>3. TypeOK
  BY <1>1, <1>2, NoFrameIsFrame DEF Init, TypeOK, Zero
<1>4. Listed = {}
  BY DEF Init, Listed, ToSet
<1>5. TableMatchesVector
  BY <1>4 DEF Init, TableMatchesVector
<1>6. NoDanglingNoLeak
  BY <1>4, NoFrameIsFrame DEF Init, NoDanglingNoLeak, Held
<1>7. VisitedStaysPut /\ Frames /\ SweepInRange
  BY DEF Init, VisitedStaysPut, Frames, SweepInRange, Reading
<1> QED  BY <1>3, <1>5, <1>6, <1>7 DEF IInv

\* The system touches nothing of htop's.
LEMMA EnvironmentKeeps == IInv /\ Environment => IInv'
<1> SUFFICES ASSUME IInv, Environment PROVE IInv'
  OBVIOUS
<1>1. PICK newOs \in [Pid -> OsTask] : OsChange(newOs)
  <2> USE DEF IInv, TypeOK
  <2>1. CASE Fork
    <3>1. PICK p \in Pid, s \in RunState, k \in BOOLEAN :
            OsChange([os EXCEPT ![p] = [tgid |-> p, state |-> s, kernel |-> k]])
      BY <2>1 DEF Fork
    <3> QED  BY <3>1 DEF OsTask, State
  <2>2. CASE Clone
    <3>1. PICK p \in Pid, q \in Pid, s \in RunState :
            /\ IsLeader(p)
            /\ OsChange([os EXCEPT ![q] = [tgid |-> p, state |-> s, kernel |-> FALSE]])
      BY <2>2 DEF Clone
    <3> QED  BY <3>1 DEF OsTask, State
  <2>3. CASE Exit
    <3>1. PICK p \in Pid : /\ Exists(p)
                           /\ OsChange([os EXCEPT ![p] = IF IsLeader(p)
                                 THEN [@ EXCEPT !.state = "Z"] ELSE NoTask])
      BY <2>3 DEF Exit
    <3>2. [os[p] EXCEPT !.state = "Z"] \in OsTask
      BY <3>1 DEF OsTask, Exists, NoTask, State
    <3> QED  BY <3>1, <3>2 DEF OsTask
  <2>4. CASE Reap
    BY <2>4 DEF Reap, OsTask
  <2>5. CASE Schedule
    <3>1. PICK p \in Pid, s \in RunState : Exists(p) /\ OsChange([os EXCEPT ![p].state = s])
      BY <2>5 DEF Schedule
    <3>2. [os[p] EXCEPT !.state = s] \in OsTask
      BY <3>1 DEF OsTask, Exists, NoTask, State
    <3> QED  BY <3>1, <3>2
  <2> QED  BY <2>1, <2>2, <2>3, <2>4, <2>5 DEF Environment
<1>2. UNCHANGED <<live, obj, vec, table, counts, pc, at, todo, tasks, leader, thread>>
  BY <1>1 DEF OsChange, heapVars, walkVars
<1>3. TypeOK'
  <2>1. os' \in [Pid -> OsTask] /\ changes' \in Nat /\ steady' \subseteq Pid
    BY <1>1 DEF OsChange, IInv, TypeOK
  <2>2. \A p \in Pid : newOs[p].tgid # 0 => newOs[p].tgid \in Pid
    BY <1>1 DEF OsTask, NoTask
  <2>3. Tasks(newOs) \subseteq Pid \X Pid
    BY <2>2 DEF Tasks
  <2>4. witnessed' \subseteq Pid \X Pid
    BY <1>1, <2>3 DEF OsChange, IInv, TypeOK
  <2> QED  BY <1>2, <2>1, <2>4 DEF IInv, TypeOK
<1>4. TableMatchesVector' /\ NoDanglingNoLeak' /\ VisitedStaysPut'
  BY <1>2, FieldsOnly DEF IInv
<1>5. Frames' /\ SweepInRange'
  BY <1>2, FramesKept DEF IInv, SweepInRange
<1> QED  BY <1>3, <1>4, <1>5 DEF IInv

-----------------------------------------------------------------------------
(* The steps of the scan that change fields of objects only.               *)

LEMMA StartScanKeeps == IInv /\ StartScan => IInv'
<1> SUFFICES ASSUME IInv, StartScan PROVE IInv'
  OBVIOUS
<1>1. UNCHANGED <<os, changes, vec, table, live, leader, thread, tasks, at>>
  BY DEF StartScan, osVars
<1>2. /\ obj' \in [Obj -> Process] /\ \A o \in Obj : obj'[o].pid = obj[o].pid
  <2>1. obj \in [Obj -> Process]
    BY DEF IInv, TypeOK
  <2>2. \A o \in Obj : /\ [obj[o] EXCEPT !.updated = FALSE, !.show = TRUE] \in Process
                       /\ [obj[o] EXCEPT !.updated = FALSE, !.show = TRUE].pid = obj[o].pid
    BY <2>1 DEF Process
  <2> QED  BY <2>1, <2>2 DEF StartScan
<1>3. TypeOK'
  <2>1. Tasks(os) \subseteq Pid \X Pid
    <3>1. \A p \in Pid : os[p].tgid # 0 => os[p].tgid \in Pid
      BY DEF OsTask, NoTask, IInv, TypeOK
    <3> QED  BY <3>1 DEF Tasks
  <2> QED  BY <1>1, <1>2, <2>1 DEF IInv, TypeOK, StartScan, Zero
<1>4. TableMatchesVector' /\ NoDanglingNoLeak' /\ VisitedStaysPut'
  BY <1>1, <1>2, FieldsOnly DEF IInv
<1>5. Frames' /\ SweepInRange'
  BY <1>1 DEF IInv, Frames, SweepInRange, StartScan, Reading
<1> QED  BY <1>3, <1>4, <1>5 DEF IInv

LEMMA LeaveTaskDirKeeps == IInv /\ LeaveTaskDir => IInv'
<1> SUFFICES ASSUME IInv, LeaveTaskDir PROVE IInv'
  OBVIOUS
<1>1. UNCHANGED <<osVars, live, obj, vec, table, counts, at, todo, tasks, leader, thread, histVars>>
      /\ pc = "task" /\ pc' = "statm"
  BY DEF LeaveTaskDir, heapVars
<1>2. TypeOK'
  BY <1>1 DEF IInv, TypeOK, osVars, histVars
<1>3. TableMatchesVector' /\ NoDanglingNoLeak' /\ VisitedStaysPut'
  BY <1>1, FieldsOnly DEF IInv
<1>4. Frames' /\ SweepInRange'
  BY <1>1 DEF IInv, Frames, SweepInRange, Reading
<1> QED  BY <1>2, <1>3, <1>4 DEF IInv

LEMMA EndWalkKeeps == IInv /\ EndWalk => IInv'
<1> SUFFICES ASSUME IInv, EndWalk PROVE IInv'
  OBVIOUS
<1>1. UNCHANGED <<osVars, live, obj, vec, table, counts, todo, tasks, leader, thread, histVars>>
      /\ pc = "proc" /\ pc' = "sweep" /\ at' = Len(vec)
  BY DEF EndWalk, heapVars
<1>2. TypeOK'
  BY <1>1, ListedFacts DEF IInv, TypeOK, osVars, histVars
<1>3. TableMatchesVector' /\ NoDanglingNoLeak' /\ VisitedStaysPut'
  BY <1>1, FieldsOnly DEF IInv
<1>4. Frames' /\ SweepInRange'
  BY <1>1, ListedFacts DEF IInv, Frames, SweepInRange, Reading
<1> QED  BY <1>2, <1>3, <1>4 DEF IInv

LEMMA EndScanKeeps == IInv /\ EndScan => IInv'
<1> SUFFICES ASSUME IInv, EndScan PROVE IInv'
  OBVIOUS
<1>1. UNCHANGED <<osVars, live, obj, vec, table, counts, at, todo, tasks, leader, thread>>
      /\ pc = "sweep" /\ pc' = "idle"
  BY DEF EndScan, heapVars
<1>2. TypeOK'
  BY <1>1 DEF IInv, TypeOK, osVars, EndScan
<1>3. TableMatchesVector' /\ NoDanglingNoLeak' /\ VisitedStaysPut'
  BY <1>1, FieldsOnly DEF IInv
<1>4. Frames' /\ SweepInRange'
  BY <1>1 DEF IInv, Frames, SweepInRange, Reading
<1> QED  BY <1>2, <1>3, <1>4 DEF IInv

-----------------------------------------------------------------------------
(* The frame being read.                                                   *)

LEMMA CurrentFrame ==
    ASSUME IInv, Reading
    PROVE  /\ frame \in {leader, thread} /\ frame # NoFrame
           /\ frame.proc \in Obj /\ frame.proc \in live
           /\ obj[frame.proc].pid \in Pid /\ cur \in Process
           /\ frame.preExisting <=> frame.proc \in Listed
           /\ table[obj[frame.proc].pid] = IF frame.preExisting THEN frame.proc ELSE NULL
<1>1. frame \in {leader, thread} /\ frame # NoFrame
  BY DEF IInv, Frames, frame
<1>2. frame.proc \in Obj /\ obj[frame.proc].pid \in Pid
  BY <1>1 DEF IInv, Frames
<1>3. frame.proc \in live
  BY <1>1, <1>2, ObjAssumption DEF IInv, NoDanglingNoLeak, Held
<1>4. cur \in Process
  BY <1>2 DEF IInv, TypeOK, cur
<1> QED  BY <1>1, <1>2, <1>3, <1>4 DEF IInv, VisitedStaysPut

\* A successful read writes one field, not the pid, of the frame's object and
\* goes on to another file of the same entry.
LEMMA ReadKeeps ==
    ASSUME IInv, Reading,
           UNCHANGED <<osVars, live, vec, table, counts, at, todo, tasks, leader, thread, histVars>>,
           obj' \in [Obj -> Process], \A o \in Obj : obj'[o].pid = obj[o].pid,
           pc' \in {"stat", "dir", "finish"}, pc' = "dir" => ~frame.preExisting
    PROVE  IInv'
<1>1. TypeOK'
  BY DEF IInv, TypeOK, osVars, histVars
<1>2. TableMatchesVector' /\ NoDanglingNoLeak' /\ VisitedStaysPut'
  BY FieldsOnly DEF IInv
<1>3. frame' = frame
  BY DEF frame
<1>4. Frames' /\ SweepInRange'
  BY <1>3 DEF IInv, Frames, SweepInRange, Reading
<1> QED  BY <1>1, <1>2, <1>4 DEF IInv

\* What the two ways out of a failed read have in common: the frame's object is
\* neither listed nor allocated any more.
LEMMA ReadErrorDrops ==
    ASSUME IInv, Reading, ReadError
    PROVE  /\ vec' \in Seq(Obj) /\ Listed' = Listed \ {frame.proc}
           /\ live' = live \ {frame.proc}
           /\ obj' = [obj EXCEPT ![frame.proc] = Blank]
           /\ table' = [table EXCEPT ![cur.pid] = NULL]
           /\ TableMatchesVector'
<1>1. TypeOK /\ TableMatchesVector
  BY DEF IInv
<1>2. CASE frame.preExisting
  <2>1. frame.proc \in Listed /\ ProcessListRemove(frame.proc)
    BY <1>2, CurrentFrame DEF ReadError
  <2> QED  BY <1>1, <2>1, RemoveListed, RemoveKeepsTable DEF cur
<1>3. CASE ~frame.preExisting
  <2>1. /\ frame.proc \in Obj /\ frame.proc \notin Listed
        /\ obj[frame.proc].pid \in Pid /\ table[obj[frame.proc].pid] = NULL
    BY <1>3, CurrentFrame
  <2>2. /\ live' = live \ {frame.proc}
        /\ obj' = [obj EXCEPT ![frame.proc] = Blank]
        /\ UNCHANGED <<vec, table>>
    BY <1>3 DEF ReadError, ProcessDelete
  <2>3. vec' \in Seq(Obj) /\ Listed' = Listed /\ Listed \subseteq Obj
    BY <1>1, <2>2, ListedFacts DEF TypeOK, Listed, ToSet
  <2>4. obj \in [Obj -> Process] /\ table \in [Pid -> Obj \cup {NULL}]
    BY <1>1 DEF TypeOK
  <2>5. table' = [table EXCEPT ![cur.pid] = NULL]
    BY <2>1, <2>2, <2>4 DEF cur
  <2>6. TableMatchesVector'
    BY <1>1, <2>1, <2>2, <2>3, <2>4 DEF TableMatchesVector
  <2> QED  BY <2>1, <2>2, <2>3, <2>5, <2>6
<1> QED  BY <1>2, <1>3

LEMMA ReadErrorKeeps == IInv /\ Reading /\ ReadError => IInv'
<1> SUFFICES ASSUME IInv, Reading, ReadError PROVE IInv'
  OBVIOUS
<1> DEFINE o == frame.proc
<1>1. /\ vec' \in Seq(Obj) /\ Listed' = Listed \ {o} /\ live' = live \ {o}
      /\ obj' = [obj EXCEPT ![o] = Blank]
      /\ table' = [table EXCEPT ![obj[o].pid] = NULL]
      /\ TableMatchesVector'
  BY ReadErrorDrops DEF cur
<1>2. o \in Obj /\ obj \in [Obj -> Process] /\ table \in [Pid -> Obj \cup {NULL}]
  BY CurrentFrame DEF IInv, TypeOK
<1>3. /\ UNCHANGED <<osVars, at, todo, tasks, histVars, counts>>
      /\ thread' = NoFrame
      /\ leader' = IF thread # NoFrame THEN leader ELSE NoFrame
      /\ pc' = IF thread # NoFrame THEN "task" ELSE "proc"
  BY DEF ReadError, NextEntry
<1>4. TypeOK'
  BY <1>1, <1>2, <1>3, BlankIsProcess, NoFrameIsFrame DEF IInv, TypeOK, osVars, histVars
<1>5. CASE thread # NoFrame
  <2>1. /\ o = thread.proc /\ thread' = NoFrame /\ leader' = leader /\ pc' = "task"
        /\ leader # NoFrame /\ leader.proc \in Obj /\ obj[leader.proc].pid \in Pid
        /\ obj[o].pid # obj[leader.proc].pid
    BY <1>3, <1>5 DEF frame, IInv, Frames
  <2>2. leader.proc # o /\ obj'[leader.proc] = obj[leader.proc]
    BY <1>1, <1>2, <2>1
  <2>3. Held = {leader.proc, o} /\ Held' = {leader.proc}
    BY <2>1, <1>2, NoFrameIsFrame, ObjAssumption DEF Held
  <2>4. NoDanglingNoLeak'
    BY <1>1, <2>2, <2>3 DEF IInv, NoDanglingNoLeak
  <2>5. VisitedStaysPut'
    BY <1>1, <1>2, <2>1, <2>2 DEF IInv, VisitedStaysPut
  <2>6. Frames' /\ SweepInRange'
    BY <1>3, <2>1, <2>2 DEF IInv, Frames, SweepInRange, Reading
  <2> QED  BY <1>1, <1>4, <2>4, <2>5, <2>6 DEF IInv
<1>6. CASE thread = NoFrame
  <2>1. o = leader.proc /\ thread' = NoFrame /\ leader' = NoFrame /\ pc' = "proc"
    BY <1>3, <1>6 DEF frame
  <2>2. Held = {o} /\ Held' = {}
    BY <1>2, <1>6, <2>1, NoFrameIsFrame, ObjAssumption DEF Held
  <2>3. NoDanglingNoLeak'
    BY <1>1, <2>2 DEF IInv, NoDanglingNoLeak
  <2>4. VisitedStaysPut' /\ Frames' /\ SweepInRange'
    BY <2>1 DEF VisitedStaysPut, Frames, SweepInRange, Reading
  <2> QED  BY <1>1, <1>4, <2>3, <2>4 DEF IInv
<1> QED  BY <1>5, <1>6

LEMMA ReadStatmKeeps == IInv /\ ReadStatm => IInv'
<1> SUFFICES ASSUME IInv, ReadStatm PROVE IInv'
  OBVIOUS
<1>1. Reading
  BY DEF ReadStatm, Reading
<1>2. CASE ReadError
  BY <1>1, <1>2, ReadErrorKeeps
<1>3. CASE ~ReadError
  <2> DEFINE shown == Shown(frame.proc)
  <2>1. /\ obj' = [obj EXCEPT ![frame.proc].show = shown] /\ pc' = "stat"
        /\ UNCHANGED <<osVars, live, vec, table, counts, at, todo, tasks, leader, thread, histVars>>
    BY <1>3 DEF ReadStatm
  <2>2. PICK x \in BOOLEAN : x = shown
    BY DEF Shown
  <2>3. obj' \in [Obj -> Process] /\ \A q \in Obj : obj'[q].pid = obj[q].pid
    <3> HIDE DEF shown
    <3>1. obj \in [Obj -> Process] /\ obj' = [obj EXCEPT ![frame.proc].show = x]
      BY <2>1, <2>2 DEF IInv, TypeOK
    <3>2. \A q \in Obj : /\ [obj[q] EXCEPT !.show = x] \in Process
                         /\ [obj[q] EXCEPT !.show = x].pid = obj[q].pid
      BY <3>1 DEF Process
    <3> QED  BY <3>1, <3>2
  <2> QED  BY <1>1, <2>1, <2>3, ReadKeeps
<1> QED  BY <1>2, <1>3

LEMMA ReadStatKeeps == IInv /\ ReadStat => IInv'
<1> SUFFICES ASSUME IInv, ReadStat PROVE IInv'
  OBVIOUS
<1>1. Reading
  BY DEF ReadStat, Reading
<1>2. CASE ReadError
  BY <1>1, <1>2, ReadErrorKeeps
<1>3. CASE ~ReadError
  <2>1. /\ Readable /\ obj' = [obj EXCEPT ![frame.proc].state = os[cur.pid].state]
        /\ pc' = IF frame.preExisting THEN "finish" ELSE "dir"
        /\ UNCHANGED <<osVars, live, vec, table, counts, at, todo, tasks, leader, thread, histVars>>
    BY <1>3 DEF ReadStat
  <2>2. PICK x \in State : x = os[cur.pid].state
    <3>1. cur.pid \in Pid /\ os \in [Pid -> OsTask] /\ os[cur.pid].tgid # 0
      BY <1>1, <2>1, CurrentFrame DEF IInv, TypeOK, Readable, Exists, cur
    <3> QED  BY <3>1 DEF IInv, TypeOK, OsTask, NoTask
  <2>3. obj' \in [Obj -> Process] /\ \A q \in Obj : obj'[q].pid = obj[q].pid
    <3>1. obj \in [Obj -> Process] /\ obj' = [obj EXCEPT ![frame.proc].state = x]
      BY <2>1, <2>2 DEF IInv, TypeOK
    <3>2. \A q \in Obj : /\ [obj[q] EXCEPT !.state = x] \in Process
                         /\ [obj[q] EXCEPT !.state = x].pid = obj[q].pid
      BY <3>1 DEF Process
    <3> QED  BY <3>1, <3>2
  <2> QED  BY <1>1, <2>1, <2>3, ReadKeeps
<1> QED  BY <1>2, <1>3

LEMMA StatDirKeeps == IInv /\ StatDir => IInv'
<1> SUFFICES ASSUME IInv, StatDir PROVE IInv'
  OBVIOUS
<1>1. Reading
  BY DEF StatDir, Reading
<1>2. CASE ReadError
  BY <1>1, <1>2, ReadErrorKeeps
<1>3. CASE ~ReadError
  <2>1. /\ Readable /\ pc' = "finish"
        /\ UNCHANGED <<osVars, heapVars, counts, at, todo, tasks, leader, thread, histVars>>
    BY <1>3 DEF StatDir
  <2>2. obj' \in [Obj -> Process] /\ \A q \in Obj : obj'[q].pid = obj[q].pid
    BY <2>1 DEF heapVars, IInv, TypeOK
  <2> QED  BY <1>1, <2>1, <2>2, ReadKeeps DEF heapVars
<1> QED  BY <1>2, <1>3

-----------------------------------------------------------------------------
(* The end of a visit.                                                     *)

\* Finishing an old object writes fields only; a new one enters the list.
LEMMA FinishLists ==
    ASSUME IInv, Reading, ~ReadError, Finish
    PROVE  /\ vec' \in Seq(Obj) /\ Listed' = Listed \cup {frame.proc}
           /\ \A i, j \in DOMAIN vec' : vec'[i] = vec'[j] => i = j
           /\ obj' \in [Obj -> Process] /\ \A q \in Obj : obj'[q].pid = obj[q].pid
           /\ table' = [table EXCEPT ![cur.pid] = frame.proc]
           /\ TableMatchesVector'
<1> DEFINE o == frame.proc
<1>1. /\ o \in Obj /\ obj[o].pid \in Pid /\ (frame.preExisting <=> o \in Listed)
      /\ table[obj[o].pid] = IF frame.preExisting THEN o ELSE NULL
  BY CurrentFrame
<1>2. /\ TypeOK /\ TableMatchesVector /\ obj \in [Obj -> Process]
      /\ table \in [Pid -> Obj \cup {NULL}]
  BY DEF IInv, TypeOK
<1>3. /\ IF frame.preExisting THEN UNCHANGED <<vec, table>>
         ELSE vec' = Append(vec, o) /\ table' = [table EXCEPT ![cur.pid] = o]
  BY DEF Finish
<1>4. obj' \in [Obj -> Process] /\ \A q \in Obj : obj'[q].pid = obj[q].pid
  <2> DEFINE kernel == IsKernelThread(o) \/ (ReadsCmdline /\ CmdlineEmpty(cur.pid))
  <2>0. PICK k \in BOOLEAN : k = kernel
    OBVIOUS
  <2>1. obj' = [obj EXCEPT ![o].isKernelThread = k, ![o].updated = TRUE]
    <3>1. obj' = [obj EXCEPT ![o].isKernelThread = kernel, ![o].updated = TRUE]
      BY Zenon DEF Finish
    <3> QED  BY <2>0, <3>1, Zenon
  <2>2. \A q \in Obj : /\ [obj[q] EXCEPT !.isKernelThread = k, !.updated = TRUE] \in Process
                       /\ [obj[q] EXCEPT !.isKernelThread = k, !.updated = TRUE].pid = obj[q].pid
    BY <1>2 DEF Process
  <2> QED  BY <1>2, <2>1, <2>2
<1>5. CASE frame.preExisting
  <2>1. vec' \in Seq(Obj) /\ Listed' = Listed
    BY <1>2, <1>3, <1>5 DEF TypeOK, Listed, ToSet
  <2>2. table' = [table EXCEPT ![cur.pid] = o] /\ table' = table
    BY <1>1, <1>2, <1>3, <1>5 DEF cur
  <2>3. TableMatchesVector'
    BY <1>2, <1>3, <1>4, <1>5, <2>1, ListedFacts DEF TableMatchesVector
  <2> QED  BY <1>1, <1>2, <1>3, <1>4, <1>5, <2>1, <2>2, <2>3 DEF TableMatchesVector
<1>6. CASE ~frame.preExisting
  <2>1. vec' = Append(vec, o) /\ vec \in Seq(Obj) /\ table' = [table EXCEPT ![obj[o].pid] = o]
    BY <1>2, <1>3, <1>6 DEF TypeOK, cur
  <2>2. /\ vec' \in Seq(Obj) /\ Len(vec') = Len(vec) + 1 /\ vec'[Len(vec) + 1] = o
        /\ \A i \in 1..Len(vec) : vec'[i] = vec[i]
    BY <1>1, <2>1, AppendProperties
  <2>3. DOMAIN vec' = 1..(Len(vec) + 1) /\ Len(vec) \in Nat
    BY <2>1, <2>2
  <2>4. \A q : q \in Listed' <=> q \in Listed \/ q = o
    <3>1. \A q : q \in Listed' <=> \E i \in 1..(Len(vec) + 1) : vec'[i] = q
      BY <2>3 DEF Listed, ToSet
    <3>2. \A i : i \in 1..(Len(vec) + 1) <=> i \in 1..Len(vec) \/ i = Len(vec) + 1
      BY <2>3
    <3> QED  BY <1>2, <2>2, <3>1, <3>2, ListedFacts
  <2>5. o \notin Listed /\ table[obj[o].pid] = NULL
    BY <1>1, <1>6
  <2>6. \A i, j \in DOMAIN vec' : vec'[i] = vec'[j] => i = j
    <3>1. \A i \in 1..Len(vec) : vec[i] # o
      BY <1>2, <2>5, ListedFacts
    <3>2. \A i, j \in 1..Len(vec) : vec[i] = vec[j] => i = j
      BY <1>2, ListedFacts DEF TableMatchesVector
    <3> QED  BY <2>2, <2>3, <3>1, <3>2
  <2>7. TableMatchesVector'
    <3>1. \A q \in Listed' : obj'[q].pid \in Pid /\ table'[obj'[q].pid] = q
      <4> TAKE q \in Listed'
      <4>1. q \in Obj /\ obj'[q].pid = obj[q].pid
        BY <1>1, <1>2, <1>4, <2>4, ListedFacts
      <4>2. CASE q = o
        BY <1>1, <1>2, <2>1, <4>1, <4>2
      <4>3. CASE q # o
        <5>1. q \in Listed /\ obj[q].pid \in Pid /\ table[obj[q].pid] = q
          BY <1>2, <2>4, <4>3 DEF TableMatchesVector
        <5>2. obj[q].pid # obj[o].pid
          BY <2>5, <4>1, <5>1, ObjAssumption
        <5> QED  BY <1>2, <2>1, <4>1, <5>1, <5>2
      <4> QED  BY <4>2, <4>3
    <3>2. \A p \in Pid : table'[p] # NULL => table'[p] \in Listed' /\ obj'[table'[p]].pid = p
      BY <1>1, <1>2, <1>4, <2>1, <2>4, ListedFacts DEF TableMatchesVector
    <3> QED  BY <2>6, <3>1, <3>2 DEF TableMatchesVector
  <2> QED  BY <1>4, <2>1, <2>2, <2>4, <2>6, <2>7 DEF cur
<1> QED  BY <1>5, <1>6

LEMMA FinishKeeps == IInv /\ Finish => IInv'
<1> SUFFICES ASSUME IInv, Finish PROVE IInv'
  OBVIOUS
<1>1. Reading
  BY DEF Finish, Reading
<1>2. CASE ReadError
  BY <1>1, <1>2, ReadErrorKeeps
<1>3. CASE ~ReadError
  <2> DEFINE o == frame.proc
  <2>1. /\ vec' \in Seq(Obj) /\ Listed' = Listed \cup {o}
        /\ obj' \in [Obj -> Process] /\ \A q \in Obj : obj'[q].pid = obj[q].pid
        /\ table' = [table EXCEPT ![obj[o].pid] = o]
        /\ TableMatchesVector'
    BY <1>1, <1>3, FinishLists DEF cur
  <2>2. /\ UNCHANGED <<osVars, live, at, todo, tasks, histVars>>
        /\ thread' = NoFrame
        /\ leader' = IF thread # NoFrame THEN leader ELSE NoFrame
        /\ pc' = IF thread # NoFrame THEN "task" ELSE "proc"
    BY <1>3 DEF Finish, NextEntry
  <2>3. /\ o \in Obj /\ o \in live /\ obj[o].pid \in Pid /\ obj \in [Obj -> Process]
        /\ table \in [Pid -> Obj \cup {NULL}]
    BY <1>1, CurrentFrame DEF IInv, TypeOK
  <2>4. counts' \in [total : Nat, running : Nat, userland : Nat, kernel : Nat]
    <3>1. PICK r \in {0, 1}, u \in {0, 1}, k \in {0, 1} :
            counts' = [total |-> counts.total + 1, running |-> counts.running + r,
                       userland |-> counts.userland + u, kernel |-> counts.kernel + k]
      <4> DEFINE one(b) == IF b THEN 1 ELSE 0
      <4>1. \A b : one(b) \in {0, 1}
        OBVIOUS
      <4>2. PICK kernel : counts' = Counted(kernel)
        BY <1>3 DEF Finish
      <4>3. counts' = [total    |-> counts.total + 1,
                       running  |-> counts.running + one(cur.state = "R"),
                       userland |-> counts.userland + one(IsUserlandThread(o) /\ ~kernel),
                       kernel   |-> counts.kernel + one(kernel)]
        BY <4>2 DEF Counted
      <4> HIDE DEF one
      <4> QED  BY <4>1, <4>3
    <3>2. /\ counts.total \in Nat /\ counts.running \in Nat
          /\ counts.userland \in Nat /\ counts.kernel \in Nat
      BY DEF IInv, TypeOK
    <3>3. /\ counts.total + 1 \in Nat /\ counts.running + r \in Nat
          /\ counts.userland + u \in Nat /\ counts.kernel + k \in Nat
      BY <3>2
    <3> QED  BY <3>1, <3>3
  <2>5. TypeOK'
    <3>1. leader' \in Frame /\ thread' \in Frame
      BY <2>2, NoFrameIsFrame DEF IInv, TypeOK
    <3>2. table' \in [Pid -> Obj \cup {NULL}]
      BY <2>1, <2>3
    <3>3. pc' \in {"proc", "task"}
      BY <2>2
    <3> QED  BY <2>1, <2>2, <2>4, <3>1, <3>2, <3>3 DEF IInv, TypeOK, osVars, histVars
  <2>6. CASE thread # NoFrame
    <3>1. /\ o = thread.proc /\ thread' = NoFrame /\ leader' = leader /\ pc' = "task"
          /\ leader # NoFrame /\ leader.proc \in Obj /\ obj[leader.proc].pid \in Pid
          /\ obj[o].pid # obj[leader.proc].pid
      BY <2>2, <2>6 DEF frame, IInv, Frames
    <3>2. leader.proc # o /\ obj'[leader.proc].pid = obj[leader.proc].pid
      BY <2>1, <3>1
    <3>3. Held = {leader.proc, o} /\ Held' = {leader.proc}
      BY <2>3, <3>1, NoFrameIsFrame, ObjAssumption DEF Held
    <3>4. NoDanglingNoLeak'
      BY <2>1, <2>2, <2>3, <3>2, <3>3 DEF IInv, NoDanglingNoLeak
    <3>5. VisitedStaysPut'
      BY <2>1, <2>3, <3>1, <3>2 DEF IInv, VisitedStaysPut
    <3>6. Frames' /\ SweepInRange'
      BY <2>2, <3>1, <3>2 DEF IInv, Frames, SweepInRange, Reading
    <3> QED  BY <2>1, <2>5, <3>4, <3>5, <3>6 DEF IInv
  <2>7. CASE thread = NoFrame
    <3>1. o = leader.proc /\ thread' = NoFrame /\ leader' = NoFrame /\ pc' = "proc"
      BY <2>2, <2>7 DEF frame
    <3>2. Held = {o} /\ Held' = {}
      BY <2>3, <2>7, <3>1, NoFrameIsFrame, ObjAssumption DEF Held
    <3>3. NoDanglingNoLeak'
      BY <2>1, <2>2, <3>2 DEF IInv, NoDanglingNoLeak
    <3>4. VisitedStaysPut' /\ Frames' /\ SweepInRange'
      BY <3>1 DEF VisitedStaysPut, Frames, SweepInRange, Reading
    <3> QED  BY <2>1, <2>5, <3>3, <3>4 DEF IInv
  <2> QED  BY <2>6, <2>7
<1> QED  BY <1>2, <1>3

-----------------------------------------------------------------------------
(* The beginning of a visit, and the sweep.                                *)

\* getProcess returns the listed object with this pid, or a fresh one that is
\* not listed; the list stays as it is.
LEMMA GetProcessGets ==
    ASSUME IInv, NEW p \in Pid, NEW tgid \in Pid, NEW ACTION f,
           GetProcess(p, tgid, f), UNCHANGED <<vec, table>>
    PROVE  /\ f \in Frame /\ f # NoFrame /\ f.proc \in Obj
           /\ f.preExisting <=> f.proc \in Listed
           /\ table[p] = IF f.preExisting THEN f.proc ELSE NULL
           /\ obj' \in [Obj -> Process] /\ obj'[f.proc].pid = p
           /\ live' = live \cup {f.proc} /\ Listed' = Listed /\ live \subseteq Obj
           /\ \A q \in live : obj'[q].pid = obj[q].pid
           /\ f.proc \in live => table[p] = f.proc
           /\ TableMatchesVector'
<1>1. /\ TypeOK /\ TableMatchesVector /\ obj \in [Obj -> Process]
      /\ table \in [Pid -> Obj \cup {NULL}] /\ live \subseteq Obj
      /\ Listed \subseteq Obj /\ Listed \subseteq live /\ Listed' = Listed
  BY ListedFacts DEF IInv, TypeOK, NoDanglingNoLeak, Listed, ToSet
<1>2. CASE table[p] # NULL
  <2> DEFINE o == table[p]
  <2>1. /\ f = [proc |-> o, preExisting |-> TRUE]
        /\ obj' = [obj EXCEPT ![o].tgid = tgid]
        /\ live' = live
    BY <1>2 DEF GetProcess
  <2>2. o \in Listed /\ o \in Obj /\ obj[o].pid = p
    BY <1>1, <1>2 DEF TableMatchesVector
  <2>3. obj' \in [Obj -> Process] /\ \A q \in Obj : obj'[q].pid = obj[q].pid
    <3>1. \A q \in Obj : /\ [obj[q] EXCEPT !.tgid = tgid] \in Process
                         /\ [obj[q] EXCEPT !.tgid = tgid].pid = obj[q].pid
      BY <1>1 DEF Process
    <3> QED  BY <1>1, <2>1, <3>1
  <2>4. TableMatchesVector'
    BY <1>1, <2>3 DEF TableMatchesVector
  <2>5. f.proc = o /\ f.preExisting = TRUE /\ f \in Frame /\ f # NoFrame
    BY <2>1, <2>2 DEF Frame, NoFrame
  <2> QED  BY <1>1, <2>1, <2>2, <2>3, <2>4, <2>5
<1>3. CASE table[p] = NULL
  <2>1. PICK o \in Obj \ live :
          /\ f = [proc |-> o, preExisting |-> FALSE]
          /\ obj' = [obj EXCEPT ![o] = [Blank EXCEPT !.pid = p, !.tgid = tgid, !.show = TRUE]]
          /\ live' = live \cup {o}
    BY <1>3 DEF GetProcess
  <2>2. /\ [Blank EXCEPT !.pid = p, !.tgid = tgid, !.show = TRUE] \in Process
        /\ [Blank EXCEPT !.pid = p, !.tgid = tgid, !.show = TRUE].pid = p
    BY DEF Blank, Process, State
  <2>3. /\ obj' \in [Obj -> Process] /\ obj'[o].pid = p
        /\ \A q \in Obj \ {o} : obj'[q] = obj[q]
    BY <1>1, <2>1, <2>2
  <2>4. o \notin Listed /\ o # NULL
    BY <1>1, <2>1, ObjAssumption
  <2>5. TableMatchesVector'
    BY <1>1, <2>3, <2>4 DEF TableMatchesVector
  <2>6. f.proc = o /\ f.preExisting = FALSE /\ f \in Frame /\ f # NoFrame
    BY <2>1, <2>4 DEF Frame, NoFrame
  <2> QED  BY <1>1, <1>3, <2>1, <2>3, <2>4, <2>5, <2>6
<1> QED  BY <1>2, <1>3

LEMMA EnterProcessKeeps == IInv /\ EnterProcess => IInv'
<1> SUFFICES ASSUME IInv, EnterProcess PROVE IInv'
  OBVIOUS
<1>1. PICK p \in Pid :
        /\ p \in todo /\ GetProcess(p, p, leader') /\ todo' = todo \ {p}
        /\ tasks' \subseteq Pid /\ p \notin tasks'
  <2>1. PICK p \in todo :
          /\ GetProcess(p, p, leader') /\ todo' = todo \ {p}
          /\ tasks' = IF Exists(p) THEN {q \in Pid : os[q].tgid = os[p].tgid} \ {p} ELSE {}
    BY DEF EnterProcess
  <2> QED  BY <2>1 DEF IInv, TypeOK
<1>2. /\ UNCHANGED <<osVars, vec, table, counts, at, thread, histVars>>
      /\ pc = "proc" /\ pc' = "task"
  BY DEF EnterProcess
<1>3. thread = NoFrame /\ thread' = NoFrame /\ leader = NoFrame
  BY <1>2 DEF IInv, Frames, Reading
<1> DEFINE f == leader'
<1>4. /\ f \in Frame /\ f # NoFrame /\ f.proc \in Obj
      /\ f.preExisting <=> f.proc \in Listed
      /\ table[p] = IF f.preExisting THEN f.proc ELSE NULL
      /\ obj' \in [Obj -> Process] /\ obj'[f.proc].pid = p
      /\ live' = live \cup {f.proc} /\ Listed' = Listed /\ live \subseteq Obj
      /\ TableMatchesVector'
  BY <1>1, <1>2, GetProcessGets
<1>5. TypeOK'
  <2>1. live' \subseteq Obj /\ todo' \subseteq Pid /\ thread' \in Frame
    BY <1>1, <1>3, <1>4, NoFrameIsFrame DEF IInv, TypeOK
  <2> QED  BY <1>1, <1>2, <1>4, <2>1 DEF IInv, TypeOK, osVars, histVars
<1>6. NoDanglingNoLeak'
  <2>1. Held = {} /\ Held' = {f.proc}
    BY <1>3, <1>4, NoFrameIsFrame, ObjAssumption DEF Held
  <2> QED  BY <1>4, <2>1 DEF IInv, NoDanglingNoLeak
<1>7. VisitedStaysPut'
  BY <1>2, <1>3, <1>4 DEF VisitedStaysPut
<1>8. Frames' /\ SweepInRange'
  BY <1>1, <1>2, <1>3, <1>4 DEF Frames, SweepInRange, Reading
<1> QED  BY <1>4, <1>5, <1>6, <1>7, <1>8 DEF IInv

LEMMA EnterThreadKeeps == IInv /\ EnterThread => IInv'
<1> SUFFICES ASSUME IInv, EnterThread PROVE IInv'
  OBVIOUS
<1>1. PICK t \in tasks :
        GetProcess(t, obj[leader.proc].pid, thread') /\ tasks' = tasks \ {t}
  BY DEF EnterThread
<1>2. /\ UNCHANGED <<osVars, vec, table, counts, at, todo, leader, histVars>>
      /\ pc = "task" /\ pc' = "statm"
  BY DEF EnterThread
<1> DEFINE f == thread'
           l == leader.proc
<1>3. /\ leader # NoFrame /\ leader' = leader /\ thread = NoFrame
      /\ l \in Obj /\ l \in live /\ l # NULL /\ obj[l].pid \in Pid
      /\ t \in Pid /\ t # obj[l].pid /\ obj[l].pid \notin tasks'
  <2>1. leader # NoFrame /\ l \in Obj /\ obj[l].pid \in Pid /\ thread = NoFrame
    BY <1>2 DEF IInv, Frames, Reading
  <2>2. l # NULL /\ l \in live
    BY <2>1, ObjAssumption DEF IInv, NoDanglingNoLeak, Held
  <2>3. t \in Pid /\ t # obj[l].pid /\ obj[l].pid \notin tasks'
    BY <1>1, <2>1 DEF IInv, TypeOK, Frames
  <2> QED  BY <1>2, <2>1, <2>2, <2>3
<1>4. /\ f \in Frame /\ f # NoFrame /\ f.proc \in Obj
      /\ f.preExisting <=> f.proc \in Listed
      /\ table[t] = IF f.preExisting THEN f.proc ELSE NULL
      /\ obj' \in [Obj -> Process] /\ obj'[f.proc].pid = t
      /\ live' = live \cup {f.proc} /\ Listed' = Listed /\ live \subseteq Obj
      /\ obj'[l].pid = obj[l].pid
      /\ TableMatchesVector'
  BY <1>1, <1>2, <1>3, GetProcessGets
<1>5. TypeOK'
  <2>1. live' \subseteq Obj /\ tasks' \subseteq Pid
    BY <1>1, <1>4 DEF IInv, TypeOK
  <2> QED  BY <1>2, <1>4, <2>1 DEF IInv, TypeOK, osVars, histVars
<1>6. NoDanglingNoLeak'
  <2>1. Held = {l} /\ Held' = {l, f.proc}
    BY <1>2, <1>3, <1>4, NoFrameIsFrame, ObjAssumption DEF Held
  <2> QED  BY <1>4, <2>1 DEF IInv, NoDanglingNoLeak
<1>7. VisitedStaysPut'
  BY <1>2, <1>3, <1>4 DEF IInv, VisitedStaysPut
<1>8. Frames' /\ SweepInRange'
  BY <1>2, <1>3, <1>4 DEF Frames, SweepInRange, Reading
<1> QED  BY <1>4, <1>5, <1>6, <1>7, <1>8 DEF IInv

LEMMA SweepKeeps == IInv /\ Sweep => IInv'
<1> SUFFICES ASSUME IInv, Sweep PROVE IInv'
  OBVIOUS
<1>1. /\ pc = "sweep" /\ at > 0 /\ at' = at - 1
      /\ UNCHANGED <<osVars, counts, pc, todo, tasks, leader, thread, histVars>>
  BY DEF Sweep
<1>2. /\ leader = NoFrame /\ thread = NoFrame /\ Held = {} /\ Held' = {}
  BY <1>1, NoFrameIsFrame DEF IInv, Frames, Reading, Held
<1>3. /\ TypeOK /\ TableMatchesVector /\ at \in 1..Len(vec) /\ at' \in Nat
  BY <1>1, ListedFacts DEF IInv, SweepInRange, TypeOK
<1>4. vec[at] \in Listed /\ vec[at] \in Obj
  BY <1>3, ListedFacts
<1>5. CASE obj[vec[at]].updated
  <2>1. UNCHANGED <<live, vec, table>> /\ obj' = [obj EXCEPT ![vec[at]].updated = FALSE]
    BY <1>5 DEF Sweep
  <2>2. obj' \in [Obj -> Process] /\ \A q \in Obj : obj'[q].pid = obj[q].pid
    <3>1. obj \in [Obj -> Process]
      BY <1>3 DEF TypeOK
    <3>2. \A q \in Obj : /\ [obj[q] EXCEPT !.updated = FALSE] \in Process
                         /\ [obj[q] EXCEPT !.updated = FALSE].pid = obj[q].pid
      BY <3>1 DEF Process
    <3> QED  BY <2>1, <3>1, <3>2
  <2>3. TypeOK'
    BY <1>1, <1>3, <2>1, <2>2 DEF TypeOK, osVars, histVars
  <2>4. TableMatchesVector' /\ NoDanglingNoLeak' /\ VisitedStaysPut'
    BY <1>1, <2>1, <2>2, FieldsOnly DEF IInv
  <2>5. Frames' /\ SweepInRange'
    BY <1>1, <1>2, <1>3, <2>1 DEF Frames, SweepInRange, Reading
  <2> QED  BY <2>3, <2>4, <2>5 DEF IInv
<1>6. CASE ~obj[vec[at]].updated
  <2> DEFINE o == vec[at]
  <2>1. ProcessListRemove(o)
    BY <1>6 DEF Sweep
  <2>2. /\ vec' \in Seq(Obj) /\ Len(vec') = Len(vec) - 1 /\ Listed' = Listed \ {o}
        /\ table' = [table EXCEPT ![obj[o].pid] = NULL]
        /\ live' = live \ {o}
        /\ obj' = [obj EXCEPT ![o] = Blank]
    BY <1>3, <1>4, <2>1, RemoveListed
  <2>3. TableMatchesVector'
    BY <1>3, <1>4, <2>1, RemoveKeepsTable
  <2>4. TypeOK'
    <3>1. obj' \in [Obj -> Process] /\ table' \in [Pid -> Obj \cup {NULL}] /\ live' \subseteq Obj
      BY <1>3, <2>2, BlankIsProcess DEF TypeOK
    <3> QED  BY <1>1, <1>3, <2>2, <3>1 DEF TypeOK, osVars, histVars
  <2>5. NoDanglingNoLeak'
    BY <1>2, <2>2 DEF IInv, NoDanglingNoLeak
  <2>6. VisitedStaysPut' /\ Frames' /\ SweepInRange'
    <3>1. leader' = NoFrame /\ thread' = NoFrame /\ pc' = "sweep"
      BY <1>1, <1>2
    <3>2. at' <= Len(vec')
      BY <1>1, <1>3, <2>2, ListedFacts
    <3> QED  BY <3>1, <3>2 DEF VisitedStaysPut, Frames, SweepInRange, Reading
  <2> QED  BY <2>3, <2>4, <2>5, <2>6 DEF IInv
<1> QED  BY <1>5, <1>6

-----------------------------------------------------------------------------
(* The invariant and what follows from it.                                 *)

LEMMA StutterKeeps == IInv /\ UNCHANGED vars => IInv'
<1> SUFFICES ASSUME IInv, UNCHANGED vars PROVE IInv'
  OBVIOUS
<1>1. UNCHANGED <<osVars, live, obj, vec, table, counts, pc, at, todo, tasks, leader, thread,
                  histVars>>
  BY DEF vars, heapVars, walkVars
<1>2. TypeOK'
  BY <1>1 DEF IInv, TypeOK, osVars, histVars
<1>3. TableMatchesVector' /\ NoDanglingNoLeak' /\ VisitedStaysPut'
  BY <1>1, FieldsOnly DEF IInv
<1>4. Frames' /\ SweepInRange'
  BY <1>1, FramesKept DEF IInv, SweepInRange
<1> QED  BY <1>2, <1>3, <1>4 DEF IInv

\* Every step of the system and of the scan keeps the inductive invariant.
LEMMA NextKeeps == IInv /\ [Next]_vars => IInv'
<1> SUFFICES ASSUME IInv, [Next]_vars PROVE IInv'
  OBVIOUS
<1>1. CASE Environment
  BY <1>1, EnvironmentKeeps
<1>2. CASE StartScan
  BY <1>2, StartScanKeeps
<1>3. CASE Walk
  BY <1>3, EnterProcessKeeps, EnterThreadKeeps, LeaveTaskDirKeeps, ReadStatmKeeps, ReadStatKeeps,
     StatDirKeeps, FinishKeeps, EndWalkKeeps, SweepKeeps, EndScanKeeps DEF Walk
<1>4. CASE UNCHANGED vars
  BY <1>4, StutterKeeps
<1> QED  BY <1>1, <1>2, <1>3, <1>4 DEF Next

\* The inductive invariant holds at every step of every behaviour of the scan
\* (ProcessList_scan, LinuxProcessList_recurseProcTree).
THEOREM Invariance == Spec => []IInv
<1>1. Init => IInv
  BY InitIInv
<1>2. IInv /\ [Next]_vars => IInv'
  BY NextKeeps
<1> QED  BY <1>1, <1>2, PTL DEF Spec

\* Every variable of the scan keeps its type: no index, pid or pointer leaves
\* its range (the fields recurseProcTree and the sweep of ProcessList_scan set).
THEOREM TypeCorrect == Spec => []TypeOK
<1>1. IInv => TypeOK
  BY DEF IInv
<1> QED  BY <1>1, Invariance, PTL

\* The vector and the hash table of ProcessList_add and ProcessList_remove hold
\* the same processes, at every step of a scan.
THEOREM ListConsistent == Spec => []TableMatchesVector
<1>1. IInv => TableMatchesVector
  BY DEF IInv
<1> QED  BY <1>1, Invariance, PTL

\* No process object is used after Process_delete or is lost, whichever read of
\* recurseProcTree fails and whatever the system does meanwhile.
THEOREM MemorySafe == Spec => []NoDanglingNoLeak
<1>1. IInv => NoDanglingNoLeak
  BY DEF IInv
<1> QED  BY <1>1, Invariance, PTL

\* What getProcess told a visit about its object stays true until the visit
\* ends, although the visits of its threads add and remove objects.
THEOREM VisitSafe == Spec => []VisitedStaysPut
<1>1. IInv => VisitedStaysPut
  BY DEF IInv
<1> QED  BY <1>1, Invariance, PTL

-----------------------------------------------------------------------------
(* The scan implements ProcessSnapshot: how each step keeps Progress.      *)

\* A task that was met stays met while more tasks are witnessed.
LEMMA MetGrows ==
    ASSUME NEW w, NEW v, w \subseteq v, NEW p, NEW g, Met(w, p, g)
    PROVE  Met(v, p, g)
BY DEF Met, Snapshot!OnePerPid

LEMMA MetIfIn ==
    ASSUME NEW w, NEW p, NEW g, <<p, g>> \in w
    PROVE  Met(w, p, g)
<1>1. <<p, g>>[1] = p
  OBVIOUS
<1> QED  BY <1>1 DEF Met

\* No pid was used for two tasks: a pid that was met has one group.
LEMMA OneGroup ==
    ASSUME Once, NEW p, NEW g, NEW h, <<p, g>> \in witnessed, <<p, h>> \in witnessed
    PROVE  g = h
<1>1. <<p, g>>[1] = <<p, h>>[1]
  OBVIOUS
<1>2. <<p, g>> = <<p, h>>
  BY <1>1 DEF Once, Snapshot!OnePerPid
<1> QED  BY <1>2

LEMMA TaskFacts ==
    ASSUME TypeOK
    PROVE  /\ \A p \in Pid : Exists(p) => os[p].tgid \in Pid /\ <<p, os[p].tgid>> \in Tasks(os)
           /\ 0 \notin Pid
<1>1. \A p \in Pid : os[p] \in OsTask
  BY DEF TypeOK
<1>2. \A p \in Pid : Exists(p) => os[p].tgid \in Pid
  BY <1>1 DEF OsTask, NoTask, Exists
<1> QED  BY <1>2, PidAssumption DEF Tasks, Exists

\* While no process is visited there is nothing left of a task directory.
LEMMA NoVisit ==
    ASSUME Frames, DirectoriesTrue, pc \in {"idle", "proc", "sweep"}
    PROVE  leader = NoFrame /\ thread = NoFrame /\ tasks = {}
BY DEF Frames, DirectoriesTrue, Reading

\* Without a pid that was used twice, a task that lives through the scan can be read.
LEMMA SteadyIsReadable ==
    ASSUME IInv, Progress, Once, Reading, cur.pid \in steady
    PROVE  Readable
<1> DEFINE p == cur.pid
<1>1. p \in Pid /\ Exists(p) /\ <<p, os[p].tgid>> \in Tasks(os) /\ os[p].tgid \in steady
  BY TaskFacts DEF IInv, TypeOK, Progress, GroupsExist
<1>2. CASE thread = NoFrame
  BY <1>1, <1>2 DEF Readable
<1>3. CASE thread # NoFrame
  <2>1. obj[thread.proc].tgid = LeaderPid /\ MetObject(thread.proc) /\ p = obj[thread.proc].pid
    BY <1>3 DEF Progress, DirectoriesTrue, cur, frame
  <2>2. <<p, LeaderPid>> \in witnessed
    BY <2>1 DEF MetObject, Met, Once
  <2>3. <<p, os[p].tgid>> \in witnessed
    BY <1>1 DEF Progress, GroupsExist, Reading, Idle
  <2>4. LeaderPid = os[p].tgid
    BY <2>2, <2>3, OneGroup
  <2>5. IsLeader(os[p].tgid) /\ Exists(os[p].tgid)
    BY <1>1 DEF Progress, GroupsExist
  <2> QED  BY <1>1, <2>4, <2>5 DEF Readable, LeaderPid, IsLeader
<1> QED  BY <1>2, <1>3

\* A change of the task table: a task keeps its group while it exists, and a group has a
\* process.
LEMMA OsSteps ==
    ASSUME IInv, GroupsExist, Environment
    PROVE  \E newOs \in [Pid -> OsTask] :
             /\ OsChange(newOs)
             /\ \A p \in Pid : Exists(p) /\ newOs[p].tgid # 0 => newOs[p].tgid = os[p].tgid
             /\ \A p \in Pid : newOs[p].tgid # 0 => newOs[newOs[p].tgid].tgid = newOs[p].tgid
<1> USE DEF Exists, IsLeader
<1>0. /\ os \in [Pid -> OsTask] /\ 0 \notin Pid
      /\ \A p \in Pid : Exists(p) => os[p].tgid \in Pid /\ os[os[p].tgid].tgid = os[p].tgid
  BY TaskFacts DEF IInv, TypeOK, GroupsExist
<1>1. CASE Fork
  <2>1. PICK p \in Pid, s \in RunState, k \in BOOLEAN :
          /\ ~Exists(p)
          /\ OsChange([os EXCEPT ![p] = [tgid |-> p, state |-> s, kernel |-> k]])
    BY <1>1 DEF Fork
  <2> DEFINE new == [os EXCEPT ![p] = [tgid |-> p, state |-> s, kernel |-> k]]
  <2>2. /\ new \in [Pid -> OsTask] /\ new[p].tgid = p
        /\ \A q \in Pid \ {p} : new[q] = os[q]
    BY <1>0 DEF OsTask, State
  <2> HIDE DEF new
  <2>3. \A q \in Pid : new[q].tgid # 0 => new[new[q].tgid].tgid = new[q].tgid
    BY <1>0, <2>1, <2>2
  <2>4. OsChange(new)
    BY <2>1 DEF new
  <2> QED  BY <1>0, <2>1, <2>2, <2>3, <2>4
<1>2. CASE Clone
  <2>1. PICK p \in Pid, q \in Pid, s \in RunState :
          /\ IsLeader(p) /\ ~Exists(q)
          /\ OsChange([os EXCEPT ![q] = [tgid |-> p, state |-> s, kernel |-> FALSE]])
    BY <1>2 DEF Clone
  <2> DEFINE new == [os EXCEPT ![q] = [tgid |-> p, state |-> s, kernel |-> FALSE]]
  <2>2. /\ new \in [Pid -> OsTask] /\ new[q].tgid = p
        /\ \A r \in Pid \ {q} : new[r] = os[r]
    BY <1>0 DEF OsTask, State
  <2> HIDE DEF new
  <2>3. \A r \in Pid : new[r].tgid # 0 => new[new[r].tgid].tgid = new[r].tgid
    BY <1>0, <2>1, <2>2
  <2>4. OsChange(new)
    BY <2>1 DEF new
  <2> QED  BY <1>0, <2>1, <2>2, <2>3, <2>4
<1>3. CASE Exit
  <2>1. PICK p \in Pid :
          /\ Exists(p)
          /\ OsChange([os EXCEPT ![p] = IF IsLeader(p) THEN [@ EXCEPT !.state = "Z"] ELSE NoTask])
    BY <1>3 DEF Exit
  <2> DEFINE new == [os EXCEPT ![p] = IF IsLeader(p) THEN [@ EXCEPT !.state = "Z"] ELSE NoTask]
  <2>2. [os[p] EXCEPT !.state = "Z"] \in OsTask /\ [os[p] EXCEPT !.state = "Z"].tgid = os[p].tgid
    BY <1>0, <2>1 DEF OsTask, NoTask, State
  <2>3. /\ new \in [Pid -> OsTask] /\ new[p].tgid = IF IsLeader(p) THEN p ELSE 0
        /\ \A q \in Pid \ {p} : new[q] = os[q]
    BY <1>0, <2>2 DEF OsTask, NoTask
  <2> HIDE DEF new
  <2>4. \A q \in Pid : new[q].tgid # 0 => new[new[q].tgid].tgid = new[q].tgid
    BY <1>0, <2>1, <2>3
  <2>5. OsChange(new)
    BY <2>1 DEF new
  <2> QED  BY <1>0, <2>1, <2>3, <2>4, <2>5
<1>4. CASE Reap
  <2>1. PICK p \in Pid : Threads(p) = {} /\ OsChange([os EXCEPT ![p] = NoTask])
    BY <1>4 DEF Reap
  <2> DEFINE new == [os EXCEPT ![p] = NoTask]
  <2>2. /\ new \in [Pid -> OsTask] /\ new[p].tgid = 0
        /\ \A q \in Pid \ {p} : new[q] = os[q]
    BY <1>0 DEF OsTask, NoTask
  <2> HIDE DEF new
  <2>3. \A q \in Pid \ {p} : os[q].tgid # p
    BY <2>1 DEF Threads
  <2>4. \A q \in Pid : new[q].tgid # 0 => new[new[q].tgid].tgid = new[q].tgid
    BY <1>0, <2>2, <2>3
  <2>5. OsChange(new)
    BY <2>1 DEF new
  <2> QED  BY <1>0, <2>1, <2>2, <2>4, <2>5
<1>5. CASE Schedule
  <2>1. PICK p \in Pid, s \in RunState : Exists(p) /\ OsChange([os EXCEPT ![p].state = s])
    BY <1>5 DEF Schedule
  <2> DEFINE new == [os EXCEPT ![p].state = s]
  <2>2. [os[p] EXCEPT !.state = s] \in OsTask /\ [os[p] EXCEPT !.state = s].tgid = os[p].tgid
    BY <1>0, <2>1 DEF OsTask, NoTask, State
  <2>3. new \in [Pid -> OsTask] /\ \A q \in Pid : new[q].tgid = os[q].tgid
    BY <1>0, <2>2
  <2> HIDE DEF new
  <2>4. OsChange(new)
    BY <2>1 DEF new
  <2> QED  BY <1>0, <2>1, <2>3, <2>4
<1> QED  BY <1>1, <1>2, <1>3, <1>4, <1>5 DEF Environment

LEMMA EnvironmentProgress == IInv /\ Progress /\ Environment => Progress'
<1> SUFFICES ASSUME IInv, Progress, Environment PROVE Progress'
  OBVIOUS
<1>1. PICK newOs \in [Pid -> OsTask] :
        /\ OsChange(newOs)
        /\ \A p \in Pid : Exists(p) /\ newOs[p].tgid # 0 => newOs[p].tgid = os[p].tgid
        /\ \A p \in Pid : newOs[p].tgid # 0 => newOs[newOs[p].tgid].tgid = newOs[p].tgid
  BY OsSteps DEF Progress
<1>2. /\ UNCHANGED <<live, obj, vec, table, pc, at, todo, tasks, leader, thread>>
      /\ os' = newOs /\ steady' = {p \in steady : newOs[p].tgid # 0}
      /\ witnessed' = IF Idle THEN witnessed ELSE witnessed \cup Tasks(newOs)
  BY <1>1 DEF OsChange, heapVars, walkVars, Idle
<1>3. witnessed \subseteq witnessed' /\ Idle' = Idle /\ Reading' = Reading /\ LeaderPid' = LeaderPid
  BY <1>2 DEF Idle, Reading, LeaderPid
<1>4. \A p \in Pid : newOs[p].tgid # 0 => newOs[p].tgid \in Pid
  BY <1>1 DEF OsTask, NoTask
<1>5. \A p \in steady' : p \in steady /\ p \in Pid /\ os'[p].tgid = os[p].tgid /\ Exists(p)'
  BY <1>1, <1>2 DEF IInv, TypeOK, Progress, GroupsExist, Exists
<1>6. GroupsExist'
  <2>1. \A p \in Pid : Exists(p)' => IsLeader(os[p].tgid)'
    BY <1>1, <1>2, <1>4 DEF Exists, IsLeader
  <2>2. \A p \in steady' : os'[p].tgid \in steady'
    <3> TAKE p \in steady'
    <3>1. os[p].tgid \in steady /\ newOs[p].tgid = os[p].tgid /\ newOs[p].tgid # 0 /\ p \in Pid
      BY <1>2, <1>5 DEF Progress, GroupsExist, Exists
    <3>2. newOs[os[p].tgid].tgid # 0
      BY <1>1, <3>1
    <3> QED  BY <1>2, <3>1, <3>2
  <2>3. ~Idle' => Tasks(os)' \subseteq witnessed'
    BY <1>2, <1>3 DEF Tasks
  <2> QED  BY <1>5, <2>1, <2>2, <2>3 DEF GroupsExist
<1>7. \A o : MetObject(o) => MetObject(o)'
  BY <1>2, <1>3, MetGrows DEF MetObject
<1>8. DirectoriesTrue'
  <2>1. \A t \in tasks' : Met(witnessed', t, LeaderPid')
    BY <1>2, <1>3, MetGrows DEF Progress, DirectoriesTrue
  <2> QED  BY <1>2, <1>3, <1>7, <2>1 DEF Progress, DirectoriesTrue
<1>9. KeptWereMet'
  BY <1>2, <1>3, <1>7 DEF Progress, KeptWereMet, Kept, Listed
<1>10. NoneMissed'
  <2>1. Once' => Once
    BY <1>3 DEF Once, Snapshot!OnePerPid
  <2>2. \A p \in steady' : Ahead(p)' = Ahead(p)
    BY <1>2, <1>3, <1>5 DEF Ahead
  <2> QED  BY <1>2, <1>5, <2>1, <2>2 DEF Progress, NoneMissed, Kept
<1> QED  BY <1>2, <1>3, <1>6, <1>8, <1>9, <1>10 DEF Progress

LEMMA StartScanProgress == IInv /\ Progress /\ StartScan => Progress'
<1> SUFFICES ASSUME IInv, Progress, StartScan PROVE Progress'
  OBVIOUS
<1>1. /\ Idle /\ pc' = "proc" /\ todo' = {p \in Pid : IsLeader(p)}
      /\ steady' = {p \in Pid : Exists(p)} /\ witnessed' = Tasks(os)
      /\ UNCHANGED <<os, vec, table, live, leader, thread, tasks, at>>
  BY Zenon DEF StartScan, osVars, Idle
<1>2. \A o \in Listed : o \in Obj /\ obj'[o].tgid = obj[o].tgid /\ ~obj'[o].updated
  <2> DEFINE Cleared(o) == [obj[o] EXCEPT !.updated = FALSE, !.show = TRUE]
  <2>1. Listed \subseteq Obj /\ obj \in [Obj -> Process]
    BY ListedFacts DEF IInv, TypeOK
  <2>2. \A o \in Obj : Cleared(o).tgid = obj[o].tgid /\ Cleared(o).updated = FALSE
    BY <2>1 DEF Process
  <2>3. obj' = [o \in Obj |-> IF o \in Listed THEN Cleared(o) ELSE obj[o]]
    BY Zenon DEF StartScan
  <2> HIDE DEF Cleared
  <2> QED  BY <2>1, <2>2, <2>3
<1>3. leader = NoFrame /\ thread = NoFrame /\ tasks = {}
  BY <1>1, NoVisit DEF IInv, Progress, Idle
<1>4. \A p \in Pid : Exists(p) => os[p].tgid \in Pid /\ IsLeader(os[p].tgid) /\ Exists(os[p].tgid)
  BY TaskFacts DEF IInv, Progress, GroupsExist, IsLeader, Exists
<1>5. GroupsExist'
  BY <1>1, <1>4 DEF GroupsExist, Exists, IsLeader, Tasks
<1>6. DirectoriesTrue'
  <2>1. \A p \in todo' : <<p, p>> \in witnessed'
    BY <1>1, TaskFacts DEF IInv, IsLeader, Exists
  <2> QED  BY <1>1, <1>3, <2>1 DEF DirectoriesTrue, Reading
<1>7. /\ Listed' = Listed /\ DOMAIN vec' = DOMAIN vec
      /\ \A i \in DOMAIN vec : vec'[i] \in Listed
  BY <1>1, ListedFacts DEF Listed, ToSet, IInv
<1>8. KeptWereMet'
  BY <1>1, <1>2, <1>7 DEF Progress, KeptWereMet, Kept
<1>9. NoneMissed'
  BY <1>1, <1>4 DEF NoneMissed, Ahead, IsLeader
<1> QED  BY <1>1, <1>5, <1>6, <1>8, <1>9 DEF Progress, Idle

\* A step between two reads of an entry that writes neither a pid nor a group nor a mark.
LEMMA FieldsProgress ==
    ASSUME IInv, Progress, pc = "task" \/ Reading, Reading',
           UNCHANGED <<os, vec, todo, tasks, leader, thread, histVars>>,
           thread = NoFrame => tasks = {},
           \A o \in Obj : /\ obj'[o].pid = obj[o].pid /\ obj'[o].tgid = obj[o].tgid
                          /\ obj'[o].updated = obj[o].updated
    PROVE  Progress'
<1>1. UNCHANGED <<steady, witnessed>> /\ ~Idle /\ ~Idle' /\ pc # "sweep" /\ pc' \notin {"idle", "sweep"}
  BY DEF histVars, Idle, Reading
<1>2. /\ leader # NoFrame /\ leader.proc \in Obj /\ (thread # NoFrame => thread.proc \in Obj)
      /\ LeaderPid' = LeaderPid
  BY DEF IInv, Frames, LeaderPid
<1>3. /\ Listed' = Listed /\ DOMAIN vec' = DOMAIN vec /\ Listed \subseteq Obj
      /\ \A i \in DOMAIN vec : vec[i] \in Obj /\ Kept(i)' = Kept(i)
  BY <1>1, ListedFacts DEF Listed, ToSet, IInv, Kept
<1>4. \A o \in Obj : MetObject(o)' = MetObject(o)
  BY <1>1 DEF MetObject
<1>5. GroupsExist'
  BY <1>1 DEF Progress, GroupsExist, Exists, IsLeader, Tasks
<1>6. DirectoriesTrue'
  BY <1>1, <1>2, <1>4 DEF Progress, DirectoriesTrue
<1>7. KeptWereMet'
  BY <1>1, <1>3, <1>4 DEF Progress, KeptWereMet
<1>8. NoneMissed'
  <2>1. Once' = Once /\ \A p : Ahead(p)' = Ahead(p)
    BY <1>1, <1>2 DEF Once, Ahead
  <2> QED  BY <1>1, <1>3, <2>1 DEF Progress, NoneMissed
<1> QED  BY <1>1, <1>5, <1>6, <1>7, <1>8 DEF Progress

LEMMA LeaveTaskDirProgress == IInv /\ Progress /\ LeaveTaskDir => Progress'
<1> SUFFICES ASSUME IInv, Progress, LeaveTaskDir PROVE Progress'
  OBVIOUS
<1>1. /\ pc = "task" /\ pc' = "statm" /\ tasks = {}
      /\ UNCHANGED <<os, obj, vec, todo, tasks, leader, thread, histVars>>
  BY DEF LeaveTaskDir, osVars, heapVars
<1> QED  BY <1>1, FieldsProgress DEF Reading

\* A frame is about a task that was met in a directory.
LEMMA FrameMet ==
    ASSUME IInv, Progress, Reading
    PROVE  MetObject(frame.proc)
<1>1. CASE thread # NoFrame
  BY <1>1 DEF Progress, DirectoriesTrue, frame
<1>2. CASE thread = NoFrame
  <2>1. /\ leader # NoFrame /\ LeaderPid \in Pid /\ obj[leader.proc].tgid = LeaderPid
        /\ <<LeaderPid, LeaderPid>> \in witnessed /\ frame = leader
    BY <1>2 DEF IInv, Frames, Progress, DirectoriesTrue, frame, LeaderPid
  <2> QED  BY <2>1, MetIfIn DEF MetObject, LeaderPid
<1> QED  BY <1>1, <1>2

LEMMA ReadErrorProgress ==
    ASSUME IInv, Progress, Reading, ReadError, ~Readable
    PROVE  Progress'
<1> DEFINE o == frame.proc
<1>1. /\ Listed' = Listed \ {o} /\ obj' = [obj EXCEPT ![o] = Blank]
      /\ vec' \in Seq(Obj) /\ o \in Obj /\ obj \in [Obj -> Process]
  BY ReadErrorDrops, CurrentFrame DEF IInv, TypeOK
<1>2. /\ UNCHANGED <<os, todo, tasks, steady, witnessed>>
      /\ thread' = NoFrame
      /\ leader' = IF thread # NoFrame THEN leader ELSE NoFrame
      /\ pc' = IF thread # NoFrame THEN "task" ELSE "proc"
  BY DEF ReadError, NextEntry, osVars, histVars
<1>3. /\ ~Idle /\ ~Idle' /\ pc # "sweep" /\ pc' \notin {"idle", "sweep"} /\ ~Reading'
      /\ leader # NoFrame
  BY <1>2 DEF Reading, Idle, IInv, Frames
<1>4. \A q \in Listed' : q \in Listed /\ q # o /\ q \in Obj /\ obj'[q] = obj[q]
  BY <1>1, ListedFacts DEF IInv
<1>5. /\ \A i \in DOMAIN vec' : vec'[i] \in Listed'
      /\ \A q \in Listed' : \E i \in DOMAIN vec' : vec'[i] = q
      /\ \A i \in DOMAIN vec : vec[i] \in Listed
      /\ \A q \in Listed : \E i \in DOMAIN vec : vec[i] = q
  BY DEF Listed, ToSet
<1>6. CASE thread # NoFrame
  <2>1. /\ o = thread.proc /\ leader' = leader /\ leader.proc # o
        /\ obj'[leader.proc] = obj[leader.proc] /\ LeaderPid' = LeaderPid
    BY <1>1, <1>2, <1>6 DEF frame, IInv, Frames, LeaderPid
  <2>2. DirectoriesTrue'
    BY <1>2, <1>3, <2>1 DEF Progress, DirectoriesTrue
  <2>3. \A p \in steady : Once /\ Ahead(p) => Ahead(p)'
    <3> SUFFICES ASSUME NEW p \in steady, Once, Ahead(p) PROVE Ahead(p)'
      OBVIOUS
    <3>1. p # obj[thread.proc].pid
      BY <2>1, SteadyIsReadable DEF cur
    <3> QED  BY <1>2, <2>1, <3>1 DEF Ahead
  <2> QED  BY <2>2, <2>3, <1>1, <1>2, <1>3, <1>4, <1>5, SteadyIsReadable
    DEF Progress, GroupsExist, Exists, IsLeader, Tasks, KeptWereMet, Kept, MetObject, NoneMissed, Once, cur
<1>7. CASE thread = NoFrame
  <2>1. o = leader.proc /\ leader' = NoFrame /\ tasks = {}
    BY <1>2, <1>7 DEF frame, Progress, DirectoriesTrue
  <2>2. DirectoriesTrue'
    BY <1>2, <1>3, <2>1 DEF Progress, DirectoriesTrue
  <2>3. \A p \in steady : Once /\ Ahead(p) => Ahead(p)'
    <3> SUFFICES ASSUME NEW p \in steady, Once, Ahead(p) PROVE Ahead(p)'
      OBVIOUS
    <3>1. p # LeaderPid
      BY <2>1, SteadyIsReadable DEF cur, LeaderPid
    <3> QED  BY <1>2, <1>7, <2>1, <3>1 DEF Ahead
  <2> QED  BY <2>2, <2>3, <1>1, <1>2, <1>3, <1>4, <1>5, SteadyIsReadable
    DEF Progress, GroupsExist, Exists, IsLeader, Tasks, KeptWereMet, Kept, MetObject, NoneMissed, Once, cur
<1> QED  BY <1>6, <1>7

LEMMA ReadStatmProgress == IInv /\ Progress /\ ReadStatm => Progress'
<1> SUFFICES ASSUME IInv, Progress, ReadStatm PROVE Progress'
  OBVIOUS
<1>1. Reading
  BY DEF ReadStatm, Reading
<1>2. CASE ~Readable
  BY <1>1, <1>2, ReadErrorProgress DEF ReadStatm
<1>3. CASE Readable
  <2> DEFINE shown == Shown(frame.proc)
  <2>1. /\ obj' = [obj EXCEPT ![frame.proc].show = shown] /\ pc' = "stat"
        /\ UNCHANGED <<os, vec, todo, tasks, leader, thread, histVars>>
    BY <1>3 DEF ReadStatm, osVars
  <2>2. \A q \in Obj : /\ obj'[q].pid = obj[q].pid /\ obj'[q].tgid = obj[q].tgid
                       /\ obj'[q].updated = obj[q].updated
    <3> HIDE DEF shown
    <3>1. obj \in [Obj -> Process]
      BY DEF IInv, TypeOK
    <3>2. \A q \in Obj : /\ [obj[q] EXCEPT !.show = shown].pid = obj[q].pid
                         /\ [obj[q] EXCEPT !.show = shown].tgid = obj[q].tgid
                         /\ [obj[q] EXCEPT !.show = shown].updated = obj[q].updated
      BY <3>1 DEF Process
    <3> QED  BY <2>1, <3>1, <3>2
  <2>3. Reading' /\ (thread = NoFrame => tasks = {})
    BY <1>1, <2>1 DEF Reading, Progress, DirectoriesTrue
  <2> QED  BY <1>1, <2>1, <2>2, <2>3, FieldsProgress
<1> QED  BY <1>2, <1>3

LEMMA ReadStatProgress == IInv /\ Progress /\ ReadStat => Progress'
<1> SUFFICES ASSUME IInv, Progress, ReadStat PROVE Progress'
  OBVIOUS
<1>1. Reading
  BY DEF ReadStat, Reading
<1>2. CASE ~Readable
  BY <1>1, <1>2, ReadErrorProgress DEF ReadStat
<1>3. CASE Readable
  <2> DEFINE state == os[cur.pid].state
  <2>1. /\ obj' = [obj EXCEPT ![frame.proc].state = state] /\ pc' \in {"finish", "dir"}
        /\ UNCHANGED <<os, vec, todo, tasks, leader, thread, histVars>>
    BY <1>3 DEF ReadStat, osVars
  <2>2. \A q \in Obj : /\ obj'[q].pid = obj[q].pid /\ obj'[q].tgid = obj[q].tgid
                       /\ obj'[q].updated = obj[q].updated
    <3> HIDE DEF state
    <3>1. obj \in [Obj -> Process]
      BY DEF IInv, TypeOK
    <3>2. \A q \in Obj : /\ [obj[q] EXCEPT !.state = state].pid = obj[q].pid
                         /\ [obj[q] EXCEPT !.state = state].tgid = obj[q].tgid
                         /\ [obj[q] EXCEPT !.state = state].updated = obj[q].updated
      BY <3>1 DEF Process
    <3> QED  BY <2>1, <3>1, <3>2
  <2>3. Reading' /\ (thread = NoFrame => tasks = {})
    BY <1>1, <2>1 DEF Reading, Progress, DirectoriesTrue
  <2> QED  BY <1>1, <2>1, <2>2, <2>3, FieldsProgress
<1> QED  BY <1>2, <1>3

LEMMA StatDirProgress == IInv /\ Progress /\ StatDir => Progress'
<1> SUFFICES ASSUME IInv, Progress, StatDir PROVE Progress'
  OBVIOUS
<1>1. Reading
  BY DEF StatDir, Reading
<1>2. CASE ~Readable
  BY <1>1, <1>2, ReadErrorProgress DEF StatDir
<1>3. CASE Readable
  <2>1. /\ UNCHANGED obj /\ pc' = "finish"
        /\ UNCHANGED <<os, vec, todo, tasks, leader, thread, histVars>>
    BY <1>3 DEF StatDir, osVars, heapVars
  <2>2. Reading' /\ (thread = NoFrame => tasks = {})
    BY <1>1, <2>1 DEF Reading, Progress, DirectoriesTrue
  <2> QED  BY <1>1, <2>1, <2>2, FieldsProgress
<1> QED  BY <1>2, <1>3

LEMMA FinishProgress == IInv /\ Progress /\ Finish => Progress'
<1> SUFFICES ASSUME IInv, Progress, Finish PROVE Progress'
  OBVIOUS
<1> DEFINE o == frame.proc
<1>1. Reading
  BY DEF Finish, Reading
<1>2. CASE ReadError /\ ~Readable
  BY <1>1, <1>2, ReadErrorProgress
<1>3. CASE ~(ReadError /\ ~Readable)
  <2>0. /\ UNCHANGED <<os, todo, tasks, histVars>>
        /\ thread' = NoFrame
        /\ leader' = IF thread # NoFrame THEN leader ELSE NoFrame
        /\ pc' = IF thread # NoFrame THEN "task" ELSE "proc"
    BY <1>3 DEF Finish, NextEntry, osVars
  <2>1. /\ o \in Obj /\ obj[o].pid \in Pid /\ (frame.preExisting <=> o \in Listed)
        /\ Listed \subseteq Obj /\ obj \in [Obj -> Process] /\ vec \in Seq(Obj)
    BY <1>1, CurrentFrame, ListedFacts DEF IInv, TypeOK
  <2>2. /\ \A q \in Obj : obj'[q].pid = obj[q].pid /\ obj'[q].tgid = obj[q].tgid
        /\ \A q \in Obj \ {o} : obj'[q].updated = obj[q].updated
        /\ obj'[o].updated = TRUE
    <3>1. PICK kernel \in BOOLEAN :
            obj' = [obj EXCEPT ![o].isKernelThread = kernel, ![o].updated = TRUE]
      <4>1. obj' = [obj EXCEPT ![o].isKernelThread = IsKernelThread(o)
                                                       \/ (ReadsCmdline /\ CmdlineEmpty(cur.pid)),
                               ![o].updated = TRUE]
        BY <1>3, Zenon DEF Finish
      <4> QED  BY <4>1, Zenon
    <3>2. \A q \in Obj :
            /\ [obj[q] EXCEPT !.isKernelThread = kernel, !.updated = TRUE].pid = obj[q].pid
            /\ [obj[q] EXCEPT !.isKernelThread = kernel, !.updated = TRUE].tgid = obj[q].tgid
            /\ [obj[q] EXCEPT !.isKernelThread = kernel, !.updated = TRUE].updated = TRUE
      BY <2>1 DEF Process
    <3> QED  BY <2>1, <3>1, <3>2
  <2>3. /\ Listed' = Listed \cup {o}
        /\ \A i \in DOMAIN vec : i \in DOMAIN vec' /\ vec'[i] = vec[i]
        /\ \E i \in DOMAIN vec' : vec'[i] = o
        /\ \A i \in DOMAIN vec' : vec'[i] = o \/ (i \in DOMAIN vec /\ vec'[i] = vec[i])
        /\ \A i \in DOMAIN vec : vec[i] \in Obj
    <3>1. CASE frame.preExisting
      BY <1>3, <2>1, <3>1 DEF Finish, Listed, ToSet
    <3>2. CASE ~frame.preExisting
      <4>1. vec' = Append(vec, o)
        BY <1>3, <3>2 DEF Finish
      <4>2. /\ vec' \in Seq(Obj) /\ Len(vec') = Len(vec) + 1 /\ vec'[Len(vec) + 1] = o
            /\ \A i \in 1..Len(vec) : vec'[i] = vec[i]
        BY <2>1, <4>1, AppendProperties
      <4>3. /\ DOMAIN vec = 1..Len(vec) /\ DOMAIN vec' = 1..(Len(vec) + 1)
            /\ Len(vec) \in Nat
        BY <2>1, <4>2
      <4>4. DOMAIN vec' = DOMAIN vec \cup {Len(vec) + 1}
        BY <4>3
      <4> QED  BY <2>1, <4>2, <4>3, <4>4 DEF Listed, ToSet
    <3> QED  BY <3>1, <3>2
  <2>4. /\ ~Idle /\ ~Idle' /\ pc # "sweep" /\ pc' \notin {"idle", "sweep"} /\ ~Reading'
        /\ leader # NoFrame /\ leader.proc \in Obj /\ UNCHANGED <<steady, witnessed>>
    BY <1>1, <2>0 DEF Reading, Idle, IInv, Frames, histVars
  <2>5. \A q \in Obj : MetObject(q)' = MetObject(q)
    BY <2>2, <2>4 DEF MetObject
  <2>6. MetObject(o)
    BY <1>1, FrameMet
  <2>7. GroupsExist'
    BY <2>0, <2>4 DEF Progress, GroupsExist, Exists, IsLeader, Tasks
  <2>8. KeptWereMet'
    <3>1. \A q \in Listed' : obj'[q].tgid \in Pid
      BY <2>1, <2>2, <2>3, <2>6 DEF Progress, KeptWereMet, MetObject
    <3>2. \A i \in DOMAIN vec' : Kept(i)' => MetObject(vec[i])'
      BY <2>1, <2>2, <2>3, <2>4, <2>5, <2>6 DEF Progress, KeptWereMet, Kept
    <3> QED  BY <3>1, <3>2 DEF KeptWereMet
  <2>9. DirectoriesTrue'
    <3>1. thread # NoFrame => LeaderPid' = LeaderPid
      BY <2>0, <2>2, <2>4 DEF LeaderPid
    <3>2. thread = NoFrame => tasks = {}
      BY <1>1 DEF Progress, DirectoriesTrue
    <3> QED  BY <2>0, <2>2, <2>4, <3>1, <3>2 DEF Progress, DirectoriesTrue
  <2>10. NoneMissed'
    <3> SUFFICES ASSUME Once, NEW p \in steady
                 PROVE  Ahead(p)' \/ \E i \in DOMAIN vec' : obj'[vec'[i]].pid = p /\ Kept(i)'
      BY <2>4 DEF NoneMissed, Once
    <3>1. CASE \E i \in DOMAIN vec : obj[vec[i]].pid = p /\ Kept(i)
      <4>1. PICK i \in DOMAIN vec : obj[vec[i]].pid = p /\ obj[vec[i]].updated
        BY <2>4, <3>1 DEF Kept
      <4>2. i \in DOMAIN vec' /\ vec'[i] = vec[i] /\ vec[i] \in Obj
        BY <2>3
      <4>3. obj'[vec'[i]].pid = p /\ obj'[vec'[i]].updated
        BY <2>2, <4>1, <4>2
      <4> QED  BY <4>2, <4>3 DEF Kept
    <3>2. CASE p = obj[o].pid
      <4>1. PICK i \in DOMAIN vec' : vec'[i] = o
        BY <2>3
      <4> QED  BY <2>1, <2>2, <3>2, <4>1 DEF Kept
    <3>3. CASE Ahead(p) /\ p # obj[o].pid
      <4>1. CASE thread # NoFrame
        BY <2>0, <2>2, <2>4, <3>3, <4>1 DEF Ahead, frame, LeaderPid
      <4>2. CASE thread = NoFrame
        <5>1. tasks = {} /\ p # LeaderPid
          BY <1>1, <3>3, <4>2 DEF Progress, DirectoriesTrue, frame, LeaderPid
        <5> QED  BY <2>0, <3>3, <4>2, <5>1 DEF Ahead
      <4> QED  BY <4>1, <4>2
    <3> QED  BY <3>1, <3>2, <3>3 DEF Progress, NoneMissed
  <2> QED  BY <2>4, <2>7, <2>8, <2>9, <2>10 DEF Progress
<1> QED  BY <1>2, <1>3

\* getProcess gives its object the pid and the group of the entry; what else is
\* allocated, and what was read of it, it leaves alone.
LEMMA GetProcessSets ==
    ASSUME IInv, NEW p \in Pid, NEW tgid \in Pid, NEW ACTION f,
           GetProcess(p, tgid, f), UNCHANGED <<vec, table>>
    PROVE  /\ f.proc \in Obj /\ obj'[f.proc].pid = p /\ obj'[f.proc].tgid = tgid
           /\ \A q \in live : /\ obj'[q].pid = obj[q].pid
                              /\ obj'[q].updated = obj[q].updated
                              /\ q # f.proc => obj'[q] = obj[q]
<1>1. /\ obj \in [Obj -> Process] /\ live \subseteq Obj /\ Listed \subseteq Obj
      /\ TableMatchesVector
  BY ListedFacts DEF IInv, TypeOK
<1>2. CASE table[p] # NULL
  <2> DEFINE o == table[p]
  <2>1. f = [proc |-> o, preExisting |-> TRUE] /\ obj' = [obj EXCEPT ![o].tgid = tgid]
    BY <1>2 DEF GetProcess
  <2>2. o \in Obj /\ obj[o].pid = p
    BY <1>1, <1>2 DEF TableMatchesVector
  <2>3. \A q \in Obj : /\ [obj[q] EXCEPT !.tgid = tgid].pid = obj[q].pid
                       /\ [obj[q] EXCEPT !.tgid = tgid].tgid = tgid
                       /\ [obj[q] EXCEPT !.tgid = tgid].updated = obj[q].updated
    BY <1>1 DEF Process
  <2>4. f.proc = o
    BY <2>1
  <2> HIDE DEF o
  <2> QED  BY <1>1, <2>1, <2>2, <2>3, <2>4
<1>3. CASE table[p] = NULL
  <2>1. PICK o \in Obj \ live :
          /\ f = [proc |-> o, preExisting |-> FALSE]
          /\ obj' = [obj EXCEPT ![o] = [Blank EXCEPT !.pid = p, !.tgid = tgid, !.show = TRUE]]
    BY <1>3 DEF GetProcess
  <2>2. /\ [Blank EXCEPT !.pid = p, !.tgid = tgid, !.show = TRUE].pid = p
        /\ [Blank EXCEPT !.pid = p, !.tgid = tgid, !.show = TRUE].tgid = tgid
    BY DEF Blank
  <2>3. f.proc = o
    BY <2>1
  <2> QED  BY <1>1, <2>1, <2>2, <2>3
<1> QED  BY <1>2, <1>3

LEMMA EnterProcessProgress == IInv /\ Progress /\ EnterProcess => Progress'
<1> SUFFICES ASSUME IInv, Progress, EnterProcess PROVE Progress'
  OBVIOUS
<1>1. PICK p \in Pid :
        /\ p \in todo /\ GetProcess(p, p, leader') /\ todo' = todo \ {p}
        /\ tasks' = IF Exists(p) THEN {q \in Pid : os[q].tgid = os[p].tgid} \ {p} ELSE {}
  BY DEF EnterProcess, IInv, TypeOK
<1>2. /\ UNCHANGED <<os, vec, table, thread, steady, witnessed>>
      /\ pc = "proc" /\ pc' = "task" /\ thread = NoFrame /\ thread' = NoFrame /\ leader = NoFrame
      /\ ~Idle /\ ~Idle' /\ ~Reading' /\ Listed' = Listed
  BY NoVisit DEF EnterProcess, osVars, histVars, IInv, Progress, Idle, Reading, Listed, ToSet
<1> DEFINE o == leader'.proc
<1>3. /\ o \in Obj /\ obj'[o].pid = p /\ obj'[o].tgid = p
      /\ \A q \in live : /\ obj'[q].pid = obj[q].pid
                         /\ obj'[q].updated = obj[q].updated
                         /\ q # o => obj'[q].tgid = obj[q].tgid
  BY <1>1, <1>2, GetProcessSets
<1>4. leader' # NoFrame /\ LeaderPid' = p /\ (Listed \subseteq live)
  BY <1>1, <1>2, <1>3, GetProcessGets DEF LeaderPid, IInv, NoDanglingNoLeak
<1>5. <<p, p>> \in witnessed
  BY <1>1 DEF Progress, DirectoriesTrue
<1>6. GroupsExist'
  BY <1>2 DEF Progress, GroupsExist, Exists, IsLeader, Tasks
<1>7. DirectoriesTrue'
  <2>1. \A t \in tasks' : Met(witnessed, t, p)
    <3> SUFFICES ASSUME NEW t \in tasks' PROVE Met(witnessed, t, p)
      OBVIOUS
    <3>1. t \in Pid /\ Exists(p) /\ os[t].tgid = os[p].tgid
      BY <1>1
    <3>2. <<t, os[t].tgid>> \in witnessed /\ <<p, os[p].tgid>> \in witnessed
      BY <1>2, <3>1, TaskFacts DEF IInv, Progress, GroupsExist, Exists
    <3>3. Once => os[p].tgid = p
      BY <1>5, <3>2, OneGroup
    <3>4. Once => <<t, p>> \in witnessed
      BY <3>1, <3>2, <3>3
    <3>5. \E w \in witnessed : w[1] = t
      BY <3>2
    <3> QED  BY <3>4, <3>5 DEF Met, Once
  <2>2. \A t \in tasks' : Met(witnessed', t, LeaderPid')
    BY <1>2, <1>4, <2>1
  <2> QED  BY <1>1, <1>2, <1>3, <1>4, <1>5, <2>2 DEF Progress, DirectoriesTrue
<1>8. MetObject(leader.proc)'
  BY <1>2, <1>3, <1>5, MetIfIn DEF MetObject
<1>9. \A q \in Listed : MetObject(q) => MetObject(q)'
  BY <1>2, <1>3, <1>4, <1>8 DEF MetObject
<1>10. \A i \in DOMAIN vec : vec[i] \in Listed /\ (Kept(i)' = Kept(i))
  BY <1>2, <1>3, <1>4 DEF Kept, Listed, ToSet
<1>11. KeptWereMet'
  <2>1. \A q \in Listed' : obj'[q].tgid \in Pid
    BY <1>2, <1>3, <1>4 DEF Progress, KeptWereMet
  <2>2. \A i \in DOMAIN vec : Kept(i)' => MetObject(vec[i])'
    BY <1>2, <1>9, <1>10 DEF Progress, KeptWereMet
  <2> QED  BY <1>2, <2>1, <2>2 DEF KeptWereMet
<1>12. NoneMissed'
  <2> SUFFICES ASSUME Once, NEW q \in steady
               PROVE  Ahead(q)' \/ \E i \in DOMAIN vec' : obj'[vec'[i]].pid = q /\ Kept(i)'
    BY <1>2 DEF NoneMissed, Once
  <2>1. CASE \E i \in DOMAIN vec : obj[vec[i]].pid = q /\ Kept(i)
    BY <1>2, <1>3, <1>4, <1>10, <2>1
  <2>2. CASE Ahead(q)
    <3>1. os[q].tgid \in todo
      BY <1>2, <2>2 DEF Ahead
    <3>2. CASE os[q].tgid # p
      BY <1>1, <1>2, <3>1, <3>2 DEF Ahead
    <3>3. CASE os[q].tgid = p
      <4>1. q \in Pid /\ Exists(q) /\ IsLeader(p)
        BY <3>3 DEF IInv, TypeOK, Progress, GroupsExist
      <4>2. Exists(p) /\ os[p].tgid = p
        BY <4>1, TaskFacts DEF IInv, IsLeader, Exists
      <4>3. q = p \/ q \in tasks'
        BY <1>1, <3>3, <4>1, <4>2
      <4> QED  BY <1>2, <1>4, <3>3, <4>3 DEF Ahead
    <3> QED  BY <3>2, <3>3
  <2> QED  BY <2>1, <2>2 DEF Progress, NoneMissed
<1> QED  BY <1>2, <1>6, <1>7, <1>11, <1>12 DEF Progress

LEMMA EnterThreadProgress == IInv /\ Progress /\ EnterThread => Progress'
<1> SUFFICES ASSUME IInv, Progress, EnterThread PROVE Progress'
  OBVIOUS
<1>1. PICK t \in tasks :
        GetProcess(t, obj[leader.proc].pid, thread') /\ tasks' = tasks \ {t}
  BY DEF EnterThread
<1>2. /\ UNCHANGED <<os, vec, table, todo, leader, steady, witnessed>>
      /\ pc = "task" /\ pc' = "statm" /\ Listed' = Listed
      /\ ~Idle /\ ~Idle' /\ Reading'
  BY DEF EnterThread, osVars, histVars, Idle, Reading, Listed, ToSet
<1> DEFINE o == thread'.proc
           l == leader.proc
<1>3. /\ leader # NoFrame /\ thread = NoFrame /\ LeaderPid \in Pid /\ l \in live
      /\ t \in Pid /\ t # LeaderPid /\ Listed \subseteq live
  BY <1>2, ObjAssumption, NoFrameIsFrame
    DEF IInv, TypeOK, Frames, Reading, LeaderPid, NoDanglingNoLeak, Held
<1>4. /\ o \in Obj /\ obj'[o].pid = t /\ obj'[o].tgid = LeaderPid
      /\ \A q \in live : /\ obj'[q].pid = obj[q].pid
                         /\ obj'[q].updated = obj[q].updated
                         /\ q # o => obj'[q].tgid = obj[q].tgid
  BY <1>1, <1>2, <1>3, GetProcessSets DEF LeaderPid
<1>5. /\ thread' # NoFrame /\ l # o /\ obj'[l].tgid = obj[l].tgid /\ LeaderPid' = LeaderPid
  BY <1>1, <1>2, <1>3, <1>4, GetProcessGets DEF LeaderPid
<1>6. GroupsExist'
  BY <1>2 DEF Progress, GroupsExist, Exists, IsLeader, Tasks
<1>7. MetObject(thread.proc)'
  <2>1. Met(witnessed, t, LeaderPid)
    BY <1>1 DEF Progress, DirectoriesTrue
  <2> QED  BY <1>2, <1>3, <1>4, <2>1 DEF MetObject
<1>8. DirectoriesTrue'
  <2>1. \A q \in tasks' : Met(witnessed', q, LeaderPid')
    BY <1>1, <1>2, <1>5 DEF Progress, DirectoriesTrue
  <2> QED  BY <1>1, <1>2, <1>3, <1>4, <1>5, <1>7, <2>1 DEF Progress, DirectoriesTrue
<1>9. \A q \in Listed : MetObject(q) => MetObject(q)'
  BY <1>2, <1>3, <1>4, <1>7 DEF MetObject
<1>10. \A i \in DOMAIN vec : vec[i] \in Listed /\ (Kept(i)' = Kept(i))
  BY <1>2, <1>3, <1>4 DEF Kept, Listed, ToSet
<1>11. KeptWereMet'
  <2>1. \A q \in Listed' : obj'[q].tgid \in Pid
    BY <1>2, <1>3, <1>4 DEF Progress, KeptWereMet
  <2>2. \A i \in DOMAIN vec : Kept(i)' => MetObject(vec[i])'
    BY <1>2, <1>9, <1>10 DEF Progress, KeptWereMet
  <2> QED  BY <1>2, <2>1, <2>2 DEF KeptWereMet
<1>12. NoneMissed'
  <2> SUFFICES ASSUME Once, NEW q \in steady
               PROVE  Ahead(q)' \/ \E i \in DOMAIN vec' : obj'[vec'[i]].pid = q /\ Kept(i)'
    BY <1>2 DEF NoneMissed, Once
  <2>1. CASE \E i \in DOMAIN vec : obj[vec[i]].pid = q /\ Kept(i)
    BY <1>2, <1>3, <1>4, <1>10, <2>1
  <2>2. CASE Ahead(q)
    BY <1>1, <1>2, <1>3, <1>4, <1>5, <2>2 DEF Ahead
  <2> QED  BY <2>1, <2>2 DEF Progress, NoneMissed
<1> QED  BY <1>2, <1>6, <1>8, <1>11, <1>12 DEF Progress

LEMMA EndWalkProgress == IInv /\ Progress /\ EndWalk => Progress'
<1> SUFFICES ASSUME IInv, Progress, EndWalk PROVE Progress'
  OBVIOUS
<1>1. /\ UNCHANGED <<os, obj, vec, todo, tasks, leader, thread, steady, witnessed>>
      /\ pc = "proc" /\ pc' = "sweep" /\ at' = Len(vec) /\ todo = {}
  BY DEF EndWalk, osVars, heapVars, histVars
<1>2. leader = NoFrame /\ thread = NoFrame /\ tasks = {}
  BY <1>1, NoVisit DEF IInv, Progress
<1>3. \A i \in DOMAIN vec : Kept(i)' = Kept(i)
  <2>1. \A i \in DOMAIN vec : ~(i > at')
    BY <1>1, ListedFacts DEF IInv
  <2> QED  BY <1>1, <2>1 DEF Kept
<1>4. GroupsExist'
  BY <1>1 DEF Progress, GroupsExist, Exists, IsLeader, Tasks, Idle
<1>5. DirectoriesTrue'
  BY <1>1, <1>2 DEF Progress, DirectoriesTrue
<1>6. KeptWereMet'
  BY <1>1, <1>3 DEF Progress, KeptWereMet, Idle, Listed, MetObject
<1>7. NoneMissed'
  BY <1>1, <1>2, <1>3 DEF Progress, NoneMissed, Once, Ahead
<1> QED  BY <1>1, <1>4, <1>5, <1>6, <1>7 DEF Progress, Idle

\* Where an entry was before the sweep removed the one it is at.
OldIndex(j) == IF j < at THEN j ELSE j + 1

\* An entry that is removed takes its object with it and moves those behind it by one;
\* all that are kept stay, with what was read of them.
LEMMA SweepRemoves ==
    ASSUME IInv, Sweep, ~obj[vec[at]].updated
    PROVE  /\ Listed' = Listed \ {vec[at]} /\ obj' = [obj EXCEPT ![vec[at]] = Blank]
           /\ \A j \in DOMAIN vec' :
                /\ OldIndex(j) \in DOMAIN vec /\ vec'[j] = vec[OldIndex(j)]
                /\ vec'[j] # vec[at] /\ obj'[vec'[j]] = obj[vec'[j]]
                /\ Kept(j)' = Kept(OldIndex(j))
                /\ j > at' <=> OldIndex(j) > at
           /\ \A i \in DOMAIN vec : Kept(i) => \E j \in DOMAIN vec' : OldIndex(j) = i
<1> DEFINE o == vec[at]
<1>1. pc = "sweep" /\ pc' = "sweep" /\ at > 0 /\ at' = at - 1
  BY DEF Sweep
<1>2. /\ at \in 1..Len(vec) /\ o \in Listed /\ Listed \subseteq Obj /\ obj \in [Obj -> Process]
      /\ DOMAIN vec = 1..Len(vec) /\ Len(vec) \in Nat /\ \A i \in 1..Len(vec) : vec[i] \in Listed
  BY <1>1, ListedFacts DEF IInv, SweepInRange, TypeOK
<1>3. ProcessListRemove(o)
  BY DEF Sweep
<1>4. /\ obj' = [obj EXCEPT ![o] = Blank] /\ Listed' = Listed \ {o}
      /\ vec' \in Seq(Obj) /\ Len(vec') = Len(vec) - 1
  <2>1. TypeOK /\ TableMatchesVector /\ o \in Listed
    BY <1>2 DEF IInv
  <2> QED  BY <1>3, <2>1, RemoveListed
<1>5. \A i, j \in 1..Len(vec) : vec[i] = vec[j] => i = j
  BY <1>2 DEF IInv, TableMatchesVector
<1>6. IndexOf(obj[o].pid) = at
  <2>1. IndexOf(obj[o].pid) \in 1..Len(vec) /\ vec[IndexOf(obj[o].pid)] = o
    BY <1>2, IndexOfListed DEF IInv
  <2> QED  BY <1>2, <1>5, <2>1
<1>7. vec' = RemoveAt(vec, at) /\ vec \in Seq(Obj)
  BY <1>3, <1>6 DEF ProcessListRemove, IInv, TypeOK
<1>8. /\ DOMAIN vec' = 1..(Len(vec) - 1)
      /\ \A j \in 1..(Len(vec) - 1) : vec'[j] = IF j < at THEN vec[j] ELSE vec[j + 1]
  <2>1. \A j \in 1..(Len(vec) - 1) : vec'[j] = IF j < at THEN vec[j] ELSE vec[j + 1]
    BY <1>2, <1>7, RemoveAtProperties
  <2> QED  BY <1>4, <2>1
<1>9. \A j \in DOMAIN vec' : /\ OldIndex(j) \in DOMAIN vec /\ vec'[j] = vec[OldIndex(j)]
                             /\ vec'[j] # o /\ obj'[vec'[j]] = obj[vec'[j]]
  <2> SUFFICES ASSUME NEW j \in 1..(Len(vec) - 1)
               PROVE  /\ OldIndex(j) \in DOMAIN vec /\ vec'[j] = vec[OldIndex(j)]
                      /\ vec'[j] # o /\ obj'[vec'[j]] = obj[vec'[j]]
    BY <1>8
  <2>1. OldIndex(j) \in 1..Len(vec) /\ OldIndex(j) # at /\ vec'[j] = vec[OldIndex(j)]
    BY <1>2, <1>8 DEF OldIndex
  <2>2. vec'[j] # o /\ vec'[j] \in Obj
    BY <1>2, <1>5, <2>1
  <2> QED  BY <1>2, <1>4, <2>1, <2>2
<1>10. \A j \in DOMAIN vec' : Kept(j)' = Kept(OldIndex(j)) /\ (j > at' <=> OldIndex(j) > at)
  <2> SUFFICES ASSUME NEW j \in 1..(Len(vec) - 1)
               PROVE  Kept(j)' = Kept(OldIndex(j)) /\ (j > at' <=> OldIndex(j) > at)
    BY <1>8
  <2>1. j > at' <=> OldIndex(j) > at
    BY <1>1, <1>2 DEF OldIndex
  <2>2. obj'[vec'[j]].updated = obj[vec[OldIndex(j)]].updated
    BY <1>8, <1>9
  <2> QED  BY <1>1, <2>1, <2>2 DEF Kept
<1>11. \A i \in DOMAIN vec : Kept(i) => \E j \in DOMAIN vec' : OldIndex(j) = i
  <2> SUFFICES ASSUME NEW i \in 1..Len(vec), Kept(i)
               PROVE  \E j \in 1..(Len(vec) - 1) : OldIndex(j) = i
    BY <1>2, <1>8
  <2>1. i # at
    <3>1. ~(at > at)
      BY <1>2
    <3> QED  BY <3>1 DEF Kept
  <2>2. CASE i < at
    <3>1. i \in 1..(Len(vec) - 1) /\ OldIndex(i) = i
      BY <1>2, <2>2 DEF OldIndex
    <3> QED  BY <3>1
  <2>3. CASE i > at
    <3>1. i - 1 \in 1..(Len(vec) - 1) /\ OldIndex(i - 1) = i
      BY <1>2, <2>3 DEF OldIndex
    <3> QED  BY <3>1
  <2> QED  BY <1>2, <2>1, <2>2, <2>3
<1> QED  BY <1>4, <1>9, <1>10, <1>11

\* The sweep passes one entry, which stays exactly if the walk has marked it.
LEMMA SweepProgress == IInv /\ Progress /\ Sweep => Progress'
<1> SUFFICES ASSUME IInv, Progress, Sweep PROVE Progress'
  OBVIOUS
<1>1. /\ UNCHANGED <<os, todo, tasks, leader, thread, steady, witnessed>>
      /\ pc = "sweep" /\ pc' = "sweep" /\ at > 0 /\ at' = at - 1 /\ ~Idle /\ ~Idle'
  BY DEF Sweep, osVars, histVars, Idle
<1>2. leader = NoFrame /\ thread = NoFrame /\ tasks = {} /\ todo = {}
  BY <1>1, NoVisit DEF IInv, Progress
<1> DEFINE o == vec[at]
<1>3. /\ at \in 1..Len(vec) /\ o \in Listed /\ Listed \subseteq Obj /\ obj \in [Obj -> Process]
      /\ DOMAIN vec = 1..Len(vec) /\ Len(vec) \in Nat /\ \A i \in 1..Len(vec) : vec[i] \in Listed
  BY <1>1, ListedFacts DEF IInv, SweepInRange, TypeOK
<1>4. GroupsExist' /\ DirectoriesTrue'
  BY <1>1, <1>2 DEF Progress, GroupsExist, DirectoriesTrue, Exists, IsLeader, Tasks, Reading
<1>5. \A p \in steady : Once => \E i \in DOMAIN vec : obj[vec[i]].pid = p /\ Kept(i)
  BY <1>2 DEF Progress, NoneMissed, Ahead
<1>6. CASE obj[o].updated
  <2>1. vec' = vec /\ obj' = [obj EXCEPT ![o].updated = FALSE]
    BY <1>6 DEF Sweep
  <2>2. /\ \A q \in Obj : obj'[q].pid = obj[q].pid /\ obj'[q].tgid = obj[q].tgid
        /\ \A q \in Obj \ {o} : obj'[q].updated = obj[q].updated
    <3>1. \A q \in Obj : /\ [obj[q] EXCEPT !.updated = FALSE].pid = obj[q].pid
                         /\ [obj[q] EXCEPT !.updated = FALSE].tgid = obj[q].tgid
      BY <1>3 DEF Process
    <3> QED  BY <1>3, <2>1, <3>1
  <2>3. \A i \in DOMAIN vec : Kept(i)' = Kept(i)
    <3> SUFFICES ASSUME NEW i \in 1..Len(vec) PROVE Kept(i)' = Kept(i)
      BY <1>3
    <3>1. CASE i = at
      <4>1. i > at'
        BY <1>1, <1>3, <3>1
      <4> QED  BY <1>1, <1>6, <3>1, <4>1 DEF Kept
    <3>2. CASE i # at
      <4>1. vec[i] # o
        BY <1>3, <3>2 DEF IInv, TableMatchesVector
      <4>2. i > at' <=> i > at
        BY <1>1, <1>3, <3>2
      <4>3. obj'[vec[i]].updated = obj[vec[i]].updated
        BY <1>3, <2>2, <4>1
      <4> QED  BY <1>1, <2>1, <4>2, <4>3 DEF Kept
    <3> QED  BY <3>1, <3>2
  <2>4. \A q \in Obj : MetObject(q)' = MetObject(q)
    BY <1>1, <2>2 DEF MetObject
  <2>5. Listed' = Listed
    BY <2>1 DEF Listed, ToSet
  <2>6. KeptWereMet'
    BY <1>1, <1>3, <2>1, <2>2, <2>3, <2>4, <2>5 DEF Progress, KeptWereMet
  <2>7. NoneMissed'
    BY <1>1, <1>3, <1>5, <2>1, <2>2, <2>3 DEF NoneMissed, Once
  <2> QED  BY <1>1, <1>2, <1>4, <2>6, <2>7 DEF Progress
<1>7. CASE ~obj[o].updated
  <2>1. /\ Listed' = Listed \ {o} /\ obj' = [obj EXCEPT ![o] = Blank]
        /\ \A j \in DOMAIN vec' : /\ OldIndex(j) \in DOMAIN vec /\ vec'[j] = vec[OldIndex(j)]
                                  /\ obj'[vec'[j]] = obj[vec'[j]] /\ Kept(j)' = Kept(OldIndex(j))
        /\ \A i \in DOMAIN vec : Kept(i) => \E j \in DOMAIN vec' : OldIndex(j) = i
    BY <1>7, SweepRemoves
  <2>2. KeptWereMet'
    <3>1. \A q \in Listed' : obj'[q].tgid \in Pid
      BY <1>3, <2>1 DEF Progress, KeptWereMet
    <3>2. \A j \in DOMAIN vec' : Kept(j)' => MetObject(vec[j])'
      <4> SUFFICES ASSUME NEW j \in DOMAIN vec', Kept(j)' PROVE MetObject(vec[j])'
        OBVIOUS
      <4>1. MetObject(vec[OldIndex(j)]) /\ vec'[j] = vec[OldIndex(j)] /\ obj'[vec'[j]] = obj[vec[OldIndex(j)]]
        BY <1>1, <2>1 DEF Progress, KeptWereMet
      <4> QED  BY <1>1, <4>1 DEF MetObject
    <3> QED  BY <3>1, <3>2 DEF KeptWereMet
  <2>3. NoneMissed'
    <3> SUFFICES ASSUME Once, NEW p \in steady
                 PROVE  \E j \in DOMAIN vec' : obj'[vec'[j]].pid = p /\ Kept(j)'
      BY <1>1 DEF NoneMissed, Once
    <3>1. PICK i \in DOMAIN vec : obj[vec[i]].pid = p /\ Kept(i)
      BY <1>5
    <3>2. PICK j \in DOMAIN vec' : OldIndex(j) = i
      BY <2>1, <3>1
    <3> QED  BY <2>1, <3>1, <3>2
  <2> QED  BY <1>1, <1>2, <1>4, <2>2, <2>3 DEF Progress
<1> QED  BY <1>6, <1>7

LEMMA EndScanProgress == IInv /\ Progress /\ EndScan => Progress'
<1> SUFFICES ASSUME IInv, Progress, EndScan PROVE Progress'
  OBVIOUS
<1>1. /\ UNCHANGED <<os, obj, vec, todo, tasks, leader, thread>>
      /\ pc = "sweep" /\ pc' = "idle" /\ steady' = {} /\ witnessed' = {}
  BY DEF EndScan, osVars, heapVars
<1>2. leader = NoFrame /\ thread = NoFrame /\ tasks = {} /\ todo = {}
  BY <1>1, NoVisit DEF IInv, Progress
<1>3. GroupsExist' /\ DirectoriesTrue' /\ NoneMissed'
  BY <1>1, <1>2
    DEF Progress, GroupsExist, DirectoriesTrue, NoneMissed, Exists, IsLeader, Reading, Idle
<1>4. KeptWereMet'
  BY <1>1 DEF Progress, KeptWereMet, Listed, Idle
<1> QED  BY <1>1, <1>2, <1>3, <1>4 DEF Progress, Idle

LEMMA StutterProgress == Progress /\ UNCHANGED vars => Progress'
<1> SUFFICES ASSUME Progress, UNCHANGED vars PROVE Progress'
  OBVIOUS
<1>1. UNCHANGED <<os, live, obj, vec, pc, at, todo, tasks, leader, thread, steady, witnessed>>
  BY DEF vars, osVars, heapVars, walkVars, histVars
<1>2. GroupsExist' /\ DirectoriesTrue'
  BY <1>1 DEF Progress, GroupsExist, DirectoriesTrue, Exists, IsLeader, Tasks, Reading, Idle,
              LeaderPid, MetObject
<1>3. KeptWereMet' /\ NoneMissed'
  BY <1>1 DEF Progress, KeptWereMet, NoneMissed, Kept, MetObject, Once, Ahead, Listed, Idle,
              LeaderPid
<1> QED  BY <1>1, <1>2, <1>3 DEF Progress, Idle

LEMMA InitProgress == Init => Progress
<1> SUFFICES ASSUME Init PROVE Progress
  OBVIOUS
<1>1. /\ os \in OsTable /\ vec = << >> /\ pc = "idle" /\ todo = {} /\ tasks = {}
      /\ leader = NoFrame /\ thread = NoFrame /\ steady = {} /\ witnessed = {}
  BY DEF Init
<1>2. GroupsExist
  BY <1>1 DEF OsTable, GroupsExist, Exists, IsLeader, Idle
<1>3. DirectoriesTrue
  BY <1>1 DEF DirectoriesTrue, Reading
<1>4. KeptWereMet /\ NoneMissed
  BY <1>1 DEF KeptWereMet, NoneMissed, Idle, Listed, ToSet
<1> QED  BY <1>1, <1>2, <1>3, <1>4 DEF Progress, Idle

LEMMA NextProgress == IInv /\ Progress /\ [Next]_vars => Progress'
<1> SUFFICES ASSUME IInv, Progress, [Next]_vars PROVE Progress'
  OBVIOUS
<1>1. CASE Environment
  BY <1>1, EnvironmentProgress
<1>2. CASE StartScan
  BY <1>2, StartScanProgress
<1>3. CASE Walk
  BY <1>3, EnterProcessProgress, EnterThreadProgress, LeaveTaskDirProgress, ReadStatmProgress,
     ReadStatProgress, StatDirProgress, FinishProgress, EndWalkProgress, SweepProgress,
     EndScanProgress DEF Walk
<1>4. CASE UNCHANGED vars
  BY <1>4, StutterProgress
<1> QED  BY <1>1, <1>2, <1>3, <1>4 DEF Next

-----------------------------------------------------------------------------
(* The refinement.                                                         *)

\* Between two scans the list shows tasks, during one nothing.
LEMMA ListIsSet ==
    ASSUME IInv, Progress
    PROVE  /\ {<<obj[o].pid, obj[o].tgid>> : o \in Listed} \in SUBSET (Pid \X Pid)
           /\ ShownList = NoList <=> ~Idle
<1>1. \A o \in Listed : obj[o].pid \in Pid /\ obj[o].tgid \in Pid
  BY DEF IInv, TableMatchesVector, Progress, KeptWereMet
<1> QED  BY <1>1, NoListAssumption DEF ShownList

LEMMA TasksAreTasks ==
    ASSUME NEW t \in [Pid -> OsTask]
    PROVE  Tasks(t) \in SUBSET (Pid \X Pid) /\ Snapshot!OnePerPid(Tasks(t))
<1>1. \A p \in Pid : t[p].tgid # 0 => t[p].tgid \in Pid
  BY DEF OsTask, NoTask
<1>2. \A a \in Tasks(t) : a = <<a[1], t[a[1]].tgid>>
  BY DEF Tasks
<1> QED  BY <1>1, <1>2 DEF Tasks, Snapshot!OnePerPid

LEMMA SnapshotInit == Init => Snapshot!Init
<1> SUFFICES ASSUME Init PROVE Snapshot!Init
  OBVIOUS
<1>1. os \in [Pid -> OsTask] /\ vec = << >> /\ Idle /\ steady = {} /\ witnessed = {}
  BY DEF Init, OsTable, Idle
<1>2. ShownList = {} /\ Pairs(steady) = {}
  BY <1>1 DEF ShownList, Listed, ToSet, Pairs
<1> QED  BY <1>1, <1>2, TasksAreTasks DEF Snapshot!Init, Snapshot!Task

\* A change of the task table is one of the abstract system.
LEMMA SnapshotEnvironment ==
    ASSUME IInv, Progress, Environment
    PROVE  Snapshot!Environment
<1>1. PICK newOs \in [Pid -> OsTask] :
        /\ OsChange(newOs)
        /\ \A p \in Pid : Exists(p) /\ newOs[p].tgid # 0 => newOs[p].tgid = os[p].tgid
  BY OsSteps DEF Progress
<1>2. /\ os' = newOs /\ UNCHANGED <<obj, vec, pc>>
      /\ steady' = {p \in steady : newOs[p].tgid # 0}
      /\ witnessed' = IF Idle THEN witnessed ELSE witnessed \cup Tasks(newOs)
  BY <1>1 DEF OsChange, heapVars, walkVars, Idle
<1>3. Tasks(os') \in SUBSET (Pid \X Pid)
  BY <1>1, <1>2, TasksAreTasks
<1>4. Pairs(steady)' = Pairs(steady) \cap Tasks(os')
  <2>1. \A p \in steady : p \in Pid /\ Exists(p)
    BY DEF IInv, TypeOK, Progress, GroupsExist
  <2>2. \A a : a \in Pairs(steady)' => a \in Pairs(steady) \cap Tasks(os')
    BY <1>1, <1>2, <2>1 DEF Pairs, Tasks
  <2>3. \A a : a \in Pairs(steady) \cap Tasks(os') => a \in Pairs(steady)'
    BY <1>1, <1>2, <2>1 DEF Pairs, Tasks
  <2> QED  BY <2>2, <2>3
<1>5. ShownList' = ShownList
  BY <1>2 DEF ShownList, Idle, Listed
<1> QED  BY <1>2, <1>3, <1>4, <1>5, ListIsSet
  DEF Snapshot!Environment, Snapshot!Task, ShownList, Tasks

LEMMA SnapshotBegin ==
    ASSUME IInv, Progress, StartScan
    PROVE  Snapshot!Begin
<1>1. /\ Idle /\ ~Idle' /\ UNCHANGED os /\ steady' = {p \in Pid : Exists(p)}
      /\ witnessed' = Tasks(os)
  BY Zenon DEF StartScan, osVars, Idle
<1>2. Pairs(steady)' = Tasks(os)
  BY <1>1 DEF Pairs, Tasks, Exists
<1> QED  BY <1>1, <1>2, ListIsSet DEF Snapshot!Begin, ShownList, Tasks

\* The end of a scan publishes a list that ProcessSnapshot allows.
LEMMA SnapshotEnd ==
    ASSUME IInv, Progress, EndScan
    PROVE  Snapshot!End
<1> DEFINE list == {<<obj[o].pid, obj[o].tgid>> : o \in Listed}
<1>1. /\ ~Idle /\ Idle' /\ pc = "sweep" /\ at = 0 /\ steady' = {} /\ witnessed' = {}
      /\ UNCHANGED <<os, obj, vec>>
  BY DEF EndScan, osVars, heapVars, Idle
<1>2. ShownList' = list /\ ShownList = NoList
  BY <1>1 DEF ShownList, Listed
<1>3. list \in SUBSET (Pid \X Pid) /\ list # NoList
  BY ListIsSet, NoListAssumption
<1>4. \A o \in Listed : MetObject(o)
  <2>1. \A i \in DOMAIN vec : i > at
    BY <1>1, ListedFacts DEF IInv
  <2>2. \A o \in Listed : \E i \in DOMAIN vec : vec[i] = o
    BY DEF Listed, ToSet
  <2> QED  BY <1>1, <2>1, <2>2 DEF Progress, KeptWereMet, Kept
<1>5. Snapshot!OnePerPid(list)
  <2>1. \A o, q \in Listed : obj[o].pid = obj[q].pid => o = q
    BY DEF IInv, TableMatchesVector
  <2> QED  BY <2>1 DEF Snapshot!OnePerPid
<1>6. Snapshot!Pids(list) \subseteq Snapshot!Pids(witnessed)
  BY <1>4 DEF Snapshot!Pids, MetObject, Met
<1>7. Once => list \subseteq witnessed
  BY <1>4 DEF MetObject, Met, Once
<1>8. Once => Pairs(steady) \subseteq list
  <2> SUFFICES ASSUME Once, NEW p \in steady PROVE <<p, os[p].tgid>> \in list
    BY DEF Pairs
  <2>1. leader = NoFrame /\ thread = NoFrame /\ todo = {}
    BY <1>1, NoVisit DEF IInv, Progress
  <2>2. PICK i \in DOMAIN vec : obj[vec[i]].pid = p
    BY <2>1 DEF Progress, NoneMissed, Ahead
  <2>3. vec[i] \in Listed
    BY DEF Listed, ToSet
  <2>4. <<p, obj[vec[i]].tgid>> \in list /\ <<p, obj[vec[i]].tgid>> \in witnessed
    BY <1>7, <2>2, <2>3
  <2>5. <<p, os[p].tgid>> \in witnessed
    BY <1>1, TaskFacts DEF IInv, TypeOK, Progress, GroupsExist
  <2>6. obj[vec[i]].tgid = os[p].tgid
    BY <2>4, <2>5, OneGroup
  <2> QED  BY <2>4, <2>6
<1>9. Pairs(steady)' = {} /\ Tasks(os)' = Tasks(os)
  BY <1>1 DEF Pairs, Tasks
<1> HIDE DEF list
<1> QED  BY <1>1, <1>2, <1>3, <1>5, <1>6, <1>7, <1>8, <1>9
  DEF Snapshot!End, Snapshot!Task, ShownList, Once

\* The other steps of the scan show nothing.
LEMMA SnapshotStutter ==
    ASSUME ~Idle, ~Idle', UNCHANGED <<os, histVars>>
    PROVE  UNCHANGED Snapshot!vars
BY DEF Snapshot!vars, ShownList, histVars, Pairs, Tasks

LEMMA SnapshotNext == IInv /\ Progress /\ [Next]_vars => [Snapshot!Next]_Snapshot!vars
<1> SUFFICES ASSUME IInv, Progress, [Next]_vars PROVE [Snapshot!Next]_Snapshot!vars
  OBVIOUS
<1>1. CASE Environment
  BY <1>1, SnapshotEnvironment DEF Snapshot!Next
<1>2. CASE StartScan
  BY <1>2, SnapshotBegin DEF Snapshot!Next
<1>3. CASE EndScan
  BY <1>3, SnapshotEnd DEF Snapshot!Next
<1>4. CASE Walk /\ ~EndScan
  <2>1. ~Idle /\ ~Idle' /\ UNCHANGED <<os, histVars>>
    BY <1>4 DEF Walk, EnterProcess, EnterThread, LeaveTaskDir, ReadStatm, ReadStat, StatDir, Finish,
                EndWalk, Sweep, ReadError, NextEntry, osVars, Idle
  <2> QED  BY <2>1, SnapshotStutter
<1>5. CASE UNCHANGED vars
  <2>1. UNCHANGED <<os, obj, vec, pc, steady, witnessed>>
    BY <1>5 DEF vars, osVars, heapVars, walkVars, histVars
  <2> QED  BY <2>1 DEF Snapshot!vars, ShownList, Pairs, Tasks, Idle, Listed
<1> QED  BY <1>1, <1>2, <1>3, <1>4, <1>5 DEF Next

\* The scan implements ProcessSnapshot, whatever the tasks do meanwhile: a list it ends
\* with has every task that existed throughout and none that never did (recurseProcTree,
\* the marks of ProcessList_scan and its sweep), unless a pid was used twice.
THEOREM ScanImplementsSnapshot == Spec => ImplementsSnapshot
<1>1. Init => IInv /\ Progress
  BY InitIInv, InitProgress
<1>2. IInv /\ Progress /\ [Next]_vars => (IInv /\ Progress)'
  BY NextKeeps, NextProgress
<1>3. Spec => [](IInv /\ Progress)
  BY <1>1, <1>2, PTL DEF Spec
<1> QED  BY <1>3, SnapshotInit, SnapshotNext, PTL DEF Spec, ImplementsSnapshot, Snapshot!Safety

-----------------------------------------------------------------------------
(* The totals and the flags: how each step keeps Tally.                    *)

\* The list is finite, and as long as the vector.
LEMMA ListedFinite ==
    ASSUME TypeOK
    PROVE  /\ IsFiniteSet(Listed)
           /\ (\A i, j \in DOMAIN vec : vec[i] = vec[j] => i = j) => Cardinality(Listed) = Len(vec)
<1> DEFINE n == Len(vec)
<1>1. n \in Nat /\ vec \in [1..n -> Listed] /\ \A o \in Listed : \E i \in 1..n : vec[i] = o
  <2>1. vec \in Seq(Obj)
    BY DEF TypeOK
  <2>2. n \in Nat /\ vec \in [1..n -> Obj]
    BY <2>1
  <2>3. /\ \A i \in 1..n : vec[i] \in Listed
        /\ \A o \in Listed : \E i \in 1..n : vec[i] = o
    BY ListedFacts
  <2>4. vec \in [1..n -> Listed]
    BY <2>2, <2>3
  <2> QED  BY <2>2, <2>3, <2>4
<1>2. vec \in Surjection(1..n, Listed)
  BY <1>1 DEF Surjection
<1>3. IsFiniteSet(1..n) /\ Cardinality(1..n) = n
  BY <1>1, FS_Interval
<1>4. IsFiniteSet(Listed) /\ (Cardinality(Listed) = n <=> vec \in Injection(1..n, Listed))
  BY <1>2, <1>3, FS_Surjection
<1> QED  BY <1>1, <1>4 DEF Injection, IsInjective

LEMMA SettledFinite ==
    ASSUME TypeOK
    PROVE  /\ Settled \subseteq Listed /\ IsFiniteSet(Settled)
           /\ \A T \in SUBSET Settled : IsFiniteSet(T) /\ Cardinality(T) \in Nat
<1>1. Settled \subseteq Listed
  BY DEF Settled, Listed, ToSet
<1>2. \A T \in SUBSET Listed : IsFiniteSet(T) /\ Cardinality(T) \in Nat
  BY ListedFinite, FS_Subset, FS_CardinalityType
<1> QED  BY <1>1, <1>2

\* Between the start of the walk and its end the marks tell what is settled.
LEMMA WalkSettled ==
    /\ pc \notin {"idle", "sweep"} => Settled = {o \in Listed : obj[o].updated} \ Held
    /\ pc' \notin {"idle", "sweep"} => Settled' = {o \in Listed' : obj'[o].updated} \ Held'
<1>1. pc \notin {"idle", "sweep"} => Settled = {o \in Listed : obj[o].updated} \ Held
  BY DEF Settled, Kept, Idle, Listed, ToSet
<1>2. pc' \notin {"idle", "sweep"} => Settled' = {o \in Listed' : obj'[o].updated} \ Held'
  BY DEF Settled, Kept, Idle, Listed, ToSet
<1> QED  BY <1>1, <1>2

\* A step that counts nothing and reads nothing of what is settled.
LEMMA TallyKept ==
    ASSUME IInv, Tally, counts' = counts, Settled' \subseteq Settled,
           \A o \in Settled' : /\ obj'[o].pid = obj[o].pid /\ obj'[o].tgid = obj[o].tgid
                               /\ obj'[o].state = obj[o].state /\ obj'[o].show = obj[o].show
                               /\ obj'[o].isKernelThread = obj[o].isKernelThread
    PROVE  TotalsCover' /\ \A o \in Settled' : FlagsFit(o)'
<1> DEFINE Running == {o \in Settled : obj[o].state = "R"}
           Kernels == {o \in Settled : IsKernelThread(o)}
<1>1. TypeOK /\ Running' \subseteq Running /\ Kernels' \subseteq Kernels
  BY DEF IInv, IsKernelThread
<1>2. /\ Cardinality(Settled') <= Cardinality(Settled)
      /\ Cardinality(Running') <= Cardinality(Running)
      /\ Cardinality(Kernels') <= Cardinality(Kernels)
      /\ Cardinality(Settled) \in Nat /\ Cardinality(Settled') \in Nat
      /\ Cardinality(Running) \in Nat /\ Cardinality(Running') \in Nat
      /\ Cardinality(Kernels) \in Nat /\ Cardinality(Kernels') \in Nat
  <2>1. Running \subseteq Settled /\ Kernels \subseteq Settled
    OBVIOUS
  <2> HIDE DEF Running, Kernels
  <2> QED  BY <1>1, <2>1, SettledFinite, FS_Subset
<1>3. counts \in [total : Nat, running : Nat, userland : Nat, kernel : Nat]
  BY DEF IInv, TypeOK
<1>4. TotalsCover'
  BY <1>2, <1>3 DEF Tally, TotalsCover
<1>5. \A o \in Settled' : FlagsFit(o)'
  BY DEF Tally, FlagsFit, IsUserlandThread, IsKernelThread
<1> QED  BY <1>4, <1>5

LEMMA QuietTally ==
    ASSUME IInv, Tally, UNCHANGED <<obj, vec, counts, pc, at, leader, thread>>
    PROVE  Tally'
<1>1. Settled' = Settled
  BY DEF Settled, Kept, Idle, Held
<1>2. TotalsCover' /\ \A o \in Settled' : FlagsFit(o)'
  BY <1>1, TallyKept
<1> QED  BY <1>2
  DEF Tally, FlagsFit, IsUserlandThread, IsKernelThread, Reading, Idle, Listed, frame

LEMMA StartScanTally == IInv /\ Tally /\ StartScan => Tally'
<1> SUFFICES ASSUME IInv, Tally, StartScan PROVE Tally'
  OBVIOUS
<1>1. pc' = "proc" /\ vec' = vec /\ counts' = Zero
  BY Zenon DEF StartScan
<1>2. \A o \in Listed : ~obj'[o].updated
  <2> DEFINE Cleared(o) == [obj[o] EXCEPT !.updated = FALSE, !.show = TRUE]
  <2>1. Listed \subseteq Obj /\ obj \in [Obj -> Process]
    BY ListedFacts DEF IInv, TypeOK
  <2>2. \A o \in Obj : Cleared(o).updated = FALSE
    BY <2>1 DEF Process
  <2>3. obj' = [o \in Obj |-> IF o \in Listed THEN Cleared(o) ELSE obj[o]]
    BY Zenon DEF StartScan
  <2> HIDE DEF Cleared
  <2> QED  BY <2>1, <2>2, <2>3
<1>3. Settled' = {}
  BY <1>1, <1>2, WalkSettled DEF Listed
<1>4. TotalsCover'
  <2>1. /\ {o \in Settled : obj[o].state = "R"}' = {}
        /\ {o \in Settled : IsKernelThread(o)}' = {}
    BY <1>3
  <2> QED  BY <1>1, <1>3, <2>1, FS_EmptySet DEF TotalsCover, Zero
<1> QED  BY <1>1, <1>3, <1>4 DEF Tally, Reading, Idle

LEMMA EnterProcessTally == IInv /\ Tally /\ EnterProcess => Tally'
<1> SUFFICES ASSUME IInv, Tally, EnterProcess PROVE Tally'
  OBVIOUS
<1>1. PICK p \in Pid : GetProcess(p, p, leader')
  BY DEF EnterProcess, IInv, TypeOK
<1>2. /\ UNCHANGED <<vec, table, counts, thread>> /\ pc = "proc" /\ pc' = "task"
      /\ leader = NoFrame /\ thread = NoFrame
  BY DEF EnterProcess, IInv, Frames, Reading
<1> DEFINE o == leader'.proc
<1>3. /\ o \in Obj /\ Listed' = Listed /\ Listed \subseteq live
      /\ \A q \in live \ {o} : obj'[q] = obj[q]
  BY <1>1, <1>2, GetProcessSets DEF IInv, NoDanglingNoLeak, Listed
<1>4. Held = {} /\ o \in Held'
  BY <1>2, <1>3, NoFrameIsFrame, ObjAssumption DEF Held
<1>5. Settled' \subseteq Settled /\ \A q \in Settled' : q \in live \ {o}
  BY <1>2, <1>3, <1>4, WalkSettled
<1>6. TotalsCover' /\ \A q \in Settled' : FlagsFit(q)'
  BY <1>2, <1>3, <1>5, TallyKept
<1> QED  BY <1>2, <1>6 DEF Tally, Reading, Idle

LEMMA EnterThreadTally == IInv /\ Tally /\ EnterThread => Tally'
<1> SUFFICES ASSUME IInv, Tally, EnterThread PROVE Tally'
  OBVIOUS
<1>1. PICK t \in tasks : GetProcess(t, obj[leader.proc].pid, thread')
  BY DEF EnterThread
<1>2. /\ UNCHANGED <<vec, table, counts, leader>> /\ pc = "task" /\ pc' = "statm"
      /\ thread = NoFrame /\ leader # NoFrame /\ t \in Pid /\ obj[leader.proc].pid \in Pid
  BY DEF EnterThread, IInv, TypeOK, Frames, Reading
<1> DEFINE o == thread'.proc
<1>3. /\ o \in Obj /\ Listed' = Listed /\ Listed \subseteq live
      /\ \A q \in live \ {o} : obj'[q] = obj[q]
  BY <1>1, <1>2, GetProcessSets DEF IInv, NoDanglingNoLeak, Listed
<1>4. o \in Held' /\ Held \subseteq Held'
  BY <1>2, <1>3, NoFrameIsFrame, ObjAssumption DEF Held
<1>5. Settled' \subseteq Settled /\ \A q \in Settled' : q \in live \ {o}
  BY <1>2, <1>3, <1>4, WalkSettled
<1>6. TotalsCover' /\ \A q \in Settled' : FlagsFit(q)'
  BY <1>2, <1>3, <1>5, TallyKept
<1> QED  BY <1>2, <1>6 DEF Tally, Reading, Idle

LEMMA LeaveTaskDirTally == IInv /\ Tally /\ LeaveTaskDir => Tally'
<1> SUFFICES ASSUME IInv, Tally, LeaveTaskDir PROVE Tally'
  OBVIOUS
<1>1. /\ UNCHANGED <<obj, vec, counts, at, leader, thread>> /\ pc = "task" /\ pc' = "statm"
  BY DEF LeaveTaskDir, heapVars
<1>2. Settled' = Settled
  BY <1>1 DEF Settled, Kept, Idle, Held
<1>3. TotalsCover' /\ \A o \in Settled' : FlagsFit(o)'
  BY <1>1, <1>2, TallyKept
<1> QED  BY <1>1, <1>3 DEF Tally, Reading, Idle

LEMMA ReadErrorTally == IInv /\ Tally /\ Reading /\ ReadError => Tally'
<1> SUFFICES ASSUME IInv, Tally, Reading, ReadError PROVE Tally'
  OBVIOUS
<1> DEFINE o == frame.proc
<1>1. /\ Listed' = Listed \ {o} /\ obj' = [obj EXCEPT ![o] = Blank]
      /\ o \in Obj /\ obj \in [Obj -> Process] /\ Listed \subseteq Obj
  BY ReadErrorDrops, CurrentFrame, ListedFacts DEF IInv, TypeOK
<1>2. /\ counts' = counts /\ thread' = NoFrame
      /\ leader' = IF thread # NoFrame THEN leader ELSE NoFrame
      /\ pc' \in {"task", "proc"} /\ pc \notin {"idle", "sweep"}
  BY DEF ReadError, NextEntry, Reading
<1>3. Held \subseteq Held' \cup {o}
  BY <1>2, NoFrameIsFrame DEF Held, frame
<1>4. Settled' \subseteq Settled \ {o}
  BY <1>1, <1>2, <1>3, WalkSettled
<1>5. \A q \in Settled' : obj'[q] = obj[q]
  BY <1>1, <1>4, SettledFinite DEF IInv
<1>6. TotalsCover' /\ \A q \in Settled' : FlagsFit(q)'
  BY <1>2, <1>4, <1>5, TallyKept
<1> QED  BY <1>2, <1>6 DEF Tally, Reading, Idle

\* A successful read writes a field of the frame's object, which is not settled.
LEMMA ReadTally ==
    ASSUME IInv, Tally, Reading, pc' \in {"stat", "dir", "finish"},
           UNCHANGED <<vec, counts, at, leader, thread>>,
           \A o \in Obj \ {frame.proc} : obj'[o] = obj[o],
           obj'[frame.proc].updated = obj[frame.proc].updated,
           FlagsFit(frame.proc)'
    PROVE  Tally'
<1>1. /\ frame.proc \in Held /\ Held' = Held /\ Listed' = Listed
      /\ pc \notin {"idle", "sweep"} /\ Listed \subseteq Obj
  BY CurrentFrame, ObjAssumption, ListedFacts DEF Held, Reading, Listed, IInv
<1>2. Settled' = Settled /\ \A o \in Settled : o \in Obj \ {frame.proc}
  BY <1>1, WalkSettled
<1>3. TotalsCover' /\ \A o \in Settled' : FlagsFit(o)'
  BY <1>2, TallyKept
<1> QED  BY <1>3 DEF Tally, Reading, Idle

LEMMA ReadStatmTally == IInv /\ Tally /\ ReadStatm => Tally'
<1> SUFFICES ASSUME IInv, Tally, ReadStatm PROVE Tally'
  OBVIOUS
<1>1. Reading
  BY DEF ReadStatm, Reading
<1>2. CASE ReadError
  BY <1>1, <1>2, ReadErrorTally
<1>3. CASE ~ReadError
  <2> DEFINE o == frame.proc
             shown == Shown(o)
  <2>1. /\ obj' = [obj EXCEPT ![o].show = shown] /\ pc' = "stat"
        /\ UNCHANGED <<vec, counts, at, leader, thread>>
    BY <1>3 DEF ReadStatm
  <2>2. obj \in [Obj -> Process] /\ o \in Obj /\ frame' = frame
    BY <1>1, <2>1, CurrentFrame DEF IInv, TypeOK, frame
  <2>3. /\ \A q \in Obj \ {o} : obj'[q] = obj[q]
        /\ obj'[o].pid = obj[o].pid /\ obj'[o].tgid = obj[o].tgid
        /\ obj'[o].isKernelThread = obj[o].isKernelThread
        /\ obj'[o].updated = obj[o].updated /\ obj'[o].show = shown
    <3> HIDE DEF shown
    <3>1. /\ [obj[o] EXCEPT !.show = shown].pid = obj[o].pid
          /\ [obj[o] EXCEPT !.show = shown].tgid = obj[o].tgid
          /\ [obj[o] EXCEPT !.show = shown].isKernelThread = obj[o].isKernelThread
          /\ [obj[o] EXCEPT !.show = shown].updated = obj[o].updated
          /\ [obj[o] EXCEPT !.show = shown].show = shown
      BY <2>2 DEF Process
    <3> QED  BY <2>1, <2>2, <3>1
  <2>4. FlagsFit(frame.proc)'
    BY <2>2, <2>3 DEF FlagsFit, Shown, IsUserlandThread, IsKernelThread
  <2> QED  BY <1>1, <2>1, <2>3, <2>4, ReadTally
<1> QED  BY <1>2, <1>3

LEMMA ReadStatTally == IInv /\ Tally /\ ReadStat => Tally'
<1> SUFFICES ASSUME IInv, Tally, ReadStat PROVE Tally'
  OBVIOUS
<1>1. Reading
  BY DEF ReadStat, Reading
<1>2. CASE ReadError
  BY <1>1, <1>2, ReadErrorTally
<1>3. CASE ~ReadError
  <2> DEFINE o == frame.proc
             state == os[cur.pid].state
  <2>1. /\ obj' = [obj EXCEPT ![o].state = state] /\ pc = "stat" /\ pc' \in {"finish", "dir"}
        /\ UNCHANGED <<vec, counts, at, leader, thread>>
    BY <1>3 DEF ReadStat
  <2>2. obj \in [Obj -> Process] /\ o \in Obj /\ frame' = frame
    BY <1>1, <2>1, CurrentFrame DEF IInv, TypeOK, frame
  <2>3. /\ \A q \in Obj \ {o} : obj'[q] = obj[q]
        /\ obj'[o].pid = obj[o].pid /\ obj'[o].tgid = obj[o].tgid
        /\ obj'[o].isKernelThread = obj[o].isKernelThread
        /\ obj'[o].updated = obj[o].updated /\ obj'[o].show = obj[o].show
    <3> HIDE DEF state
    <3>1. /\ [obj[o] EXCEPT !.state = state].pid = obj[o].pid
          /\ [obj[o] EXCEPT !.state = state].tgid = obj[o].tgid
          /\ [obj[o] EXCEPT !.state = state].isKernelThread = obj[o].isKernelThread
          /\ [obj[o] EXCEPT !.state = state].updated = obj[o].updated
          /\ [obj[o] EXCEPT !.state = state].show = obj[o].show
      BY <2>2 DEF Process
    <3> QED  BY <2>1, <2>2, <3>1
  <2>4. FlagsFit(frame.proc)'
    BY <1>1, <2>1, <2>2, <2>3 DEF Tally, FlagsFit, IsUserlandThread, IsKernelThread
  <2> QED  BY <1>1, <2>1, <2>3, <2>4, ReadTally
<1> QED  BY <1>2, <1>3

LEMMA StatDirTally == IInv /\ Tally /\ StatDir => Tally'
<1> SUFFICES ASSUME IInv, Tally, StatDir PROVE Tally'
  OBVIOUS
<1>1. Reading
  BY DEF StatDir, Reading
<1>2. CASE ReadError
  BY <1>1, <1>2, ReadErrorTally
<1>3. CASE ~ReadError
  <2>1. UNCHANGED <<obj, vec, counts, at, leader, thread>> /\ pc = "dir" /\ pc' = "finish"
    BY <1>3 DEF StatDir, heapVars
  <2>2. FlagsFit(frame.proc)'
    BY <1>1, <2>1 DEF Tally, FlagsFit, IsUserlandThread, IsKernelThread, frame
  <2> QED  BY <1>1, <2>1, <2>2, ReadTally
<1> QED  BY <1>2, <1>3

\* A counter that covers a set covers it with one more element when it counts that one.
LEMMA CounterCovers ==
    ASSUME NEW S, IsFiniteSet(S), NEW x, NEW T, T \subseteq S \cup {x},
           NEW b \in BOOLEAN, x \in T => b, NEW n \in Nat, n >= Cardinality(S)
    PROVE  n + (IF b THEN 1 ELSE 0) >= Cardinality(T)
<1>1. Cardinality(S) \in Nat /\ IsFiniteSet(S \cup {x})
  BY FS_CardinalityType, FS_AddElement
<1>2. CASE b
  <2>1. Cardinality(S \cup {x}) <= Cardinality(S) + 1 /\ Cardinality(S \cup {x}) \in Nat
    BY <1>1, FS_AddElement, FS_CardinalityType
  <2>2. Cardinality(T) <= Cardinality(S \cup {x}) /\ Cardinality(T) \in Nat
    BY <1>1, FS_Subset, FS_CardinalityType
  <2> QED  BY <1>1, <1>2, <2>1, <2>2
<1>3. CASE ~b
  <2>1. T \subseteq S
    BY <1>3
  <2>2. Cardinality(T) <= Cardinality(S) /\ Cardinality(T) \in Nat
    BY <1>1, <2>1, FS_Subset, FS_CardinalityType
  <2> QED  BY <1>1, <1>3, <2>2
<1> QED  BY <1>2, <1>3

LEMMA FinishTally == IInv /\ Tally /\ Finish => Tally'
<1> SUFFICES ASSUME IInv, Tally, Finish PROVE Tally'
  OBVIOUS
<1>1. Reading /\ pc = "finish"
  BY DEF Finish, Reading
<1>2. CASE ReadError
  BY <1>1, <1>2, ReadErrorTally
<1>3. CASE ~ReadError
  <2> DEFINE o == frame.proc
             one(b) == IF b THEN 1 ELSE 0
  <2>1. PICK kernel \in BOOLEAN :
          /\ obj' = [obj EXCEPT ![o].isKernelThread = kernel, ![o].updated = TRUE]
          /\ IsKernelThread(o) => kernel
          /\ counts' = Counted(kernel)
    <3> DEFINE k == IsKernelThread(o) \/ (ReadsCmdline /\ CmdlineEmpty(cur.pid))
    <3>1. /\ obj' = [obj EXCEPT ![o].isKernelThread = k, ![o].updated = TRUE]
          /\ counts' = Counted(k)
      BY <1>3, Zenon DEF Finish
    <3>2. k \in BOOLEAN
      BY <1>1, CurrentFrame DEF IsKernelThread, cur, Process
    <3>3. IsKernelThread(o) => k
      OBVIOUS
    <3> HIDE DEF k
    <3> QED  BY <3>1, <3>2, <3>3, Zenon
  <2>2. /\ thread' = NoFrame
        /\ leader' = IF thread # NoFrame THEN leader ELSE NoFrame
        /\ pc' \in {"task", "proc"} /\ pc \notin {"idle", "sweep"}
    BY <1>1, <1>3 DEF Finish, NextEntry
  <2>3. /\ obj \in [Obj -> Process] /\ o \in Obj /\ o \in Held
        /\ Listed' = Listed \cup {o} /\ Listed \subseteq Obj /\ TypeOK
    BY <1>1, <1>3, CurrentFrame, FinishLists, ListedFacts, ObjAssumption DEF IInv, TypeOK, Held
  <2>4. /\ \A q \in Obj \ {o} : obj'[q] = obj[q]
        /\ obj'[o].pid = obj[o].pid /\ obj'[o].tgid = obj[o].tgid
        /\ obj'[o].state = obj[o].state /\ obj'[o].show = obj[o].show
        /\ obj'[o].isKernelThread = kernel
    <3>1. /\ [obj[o] EXCEPT !.isKernelThread = kernel, !.updated = TRUE].pid = obj[o].pid
          /\ [obj[o] EXCEPT !.isKernelThread = kernel, !.updated = TRUE].tgid = obj[o].tgid
          /\ [obj[o] EXCEPT !.isKernelThread = kernel, !.updated = TRUE].state = obj[o].state
          /\ [obj[o] EXCEPT !.isKernelThread = kernel, !.updated = TRUE].show = obj[o].show
          /\ [obj[o] EXCEPT !.isKernelThread = kernel, !.updated = TRUE].isKernelThread = kernel
      BY <2>3 DEF Process
    <3> QED  BY <2>1, <2>3, <3>1
  <2>5. Held \subseteq Held' \cup {o}
    BY <2>2, NoFrameIsFrame DEF Held, frame
  <2>6. Settled' \subseteq Settled \cup {o} /\ Settled \subseteq Obj \ {o}
    BY <2>2, <2>3, <2>4, <2>5, WalkSettled
  <2> DEFINE Running == {q \in Settled : obj[q].state = "R"}
             Kernels == {q \in Settled : IsKernelThread(q)}
             NowRunning == {q \in Settled : obj[q].state = "R"}'
             NowKernels == {q \in Settled : IsKernelThread(q)}'
  <2>7. /\ NowRunning \subseteq Running \cup {o} /\ (o \in NowRunning => cur.state = "R")
        /\ NowKernels \subseteq Kernels \cup {o} /\ (o \in NowKernels => kernel)
    BY <2>4, <2>6 DEF IsKernelThread, cur
  <2>8. IsFiniteSet(Settled) /\ IsFiniteSet(Running) /\ IsFiniteSet(Kernels)
    BY <2>3, SettledFinite
  <2>9. /\ counts.total \in Nat /\ counts.running \in Nat
        /\ counts.userland \in Nat /\ counts.kernel \in Nat
        /\ counts.total >= Cardinality(Settled) /\ counts.running >= Cardinality(Running)
        /\ counts.kernel >= Cardinality(Kernels)
        /\ counts.userland + counts.kernel <= counts.total
    BY <2>3 DEF TypeOK, Tally, TotalsCover
  <2>10. PICK u \in BOOLEAN :
           /\ kernel => ~u
           /\ counts' = [total    |-> counts.total + 1,
                         running  |-> counts.running + one(cur.state = "R"),
                         userland |-> counts.userland + one(u),
                         kernel   |-> counts.kernel + one(kernel)]
    <3>1. (IsUserlandThread(o) /\ ~kernel) \in BOOLEAN
      OBVIOUS
    <3> QED  BY <2>1, <3>1, Zenon DEF Counted
  <2>11. TotalsCover'
    <3> HIDE DEF Running, Kernels, NowRunning, NowKernels
    <3>1. counts.total + 1 >= Cardinality(Settled')
      BY <2>6, <2>8, <2>9, CounterCovers, TRUE \in BOOLEAN
    <3>2. counts.running + one(cur.state = "R") >= Cardinality(NowRunning)
      BY <2>7, <2>8, <2>9, CounterCovers
    <3>3. counts.kernel + one(kernel) >= Cardinality(NowKernels)
      BY <2>7, <2>8, <2>9, CounterCovers
    <3>4. /\ counts.userland + one(u) + (counts.kernel + one(kernel)) <= counts.total + 1
      BY <2>9, <2>10
    <3>5. /\ counts'.total = counts.total + 1
          /\ counts'.running = counts.running + one(cur.state = "R")
          /\ counts'.userland = counts.userland + one(u)
          /\ counts'.kernel = counts.kernel + one(kernel)
      BY <2>10
    <3> HIDE DEF one
    <3> QED  BY <3>1, <3>2, <3>3, <3>4, <3>5 DEF TotalsCover, NowRunning, NowKernels
  <2>12. \A q \in Settled' : FlagsFit(q)'
    <3>1. FlagsFit(o)
      BY <1>1 DEF Tally
    <3>2. \A q \in Settled' : q = o \/ (q \in Settled /\ obj'[q] = obj[q])
      BY <2>4, <2>6
    <3> QED  BY <2>1, <2>4, <3>1, <3>2 DEF Tally, FlagsFit, IsUserlandThread, IsKernelThread
  <2> QED  BY <2>2, <2>11, <2>12 DEF Tally, Reading, Idle
<1> QED  BY <1>2, <1>3

LEMMA EndWalkTally == IInv /\ Tally /\ EndWalk => Tally'
<1> SUFFICES ASSUME IInv, Tally, EndWalk PROVE Tally'
  OBVIOUS
<1>1. /\ UNCHANGED <<obj, vec, counts, leader, thread>> /\ pc = "proc" /\ pc' = "sweep"
      /\ at' = Len(vec)
  BY DEF EndWalk, heapVars
<1>2. \A i \in DOMAIN vec : ~(i > at')
  BY <1>1, ListedFacts DEF IInv
<1>3. Settled' = Settled
  BY <1>1, <1>2 DEF Settled, Kept, Idle, Held
<1>4. TotalsCover' /\ \A o \in Settled' : FlagsFit(o)'
  BY <1>1, <1>3, TallyKept
<1> QED  BY <1>1, <1>2, <1>4 DEF Tally, Reading, Idle

LEMMA EndScanTally == IInv /\ Tally /\ EndScan => Tally'
<1> SUFFICES ASSUME IInv, Tally, EndScan PROVE Tally'
  OBVIOUS
<1>1. /\ UNCHANGED <<obj, vec, counts, at, leader, thread>> /\ pc = "sweep" /\ pc' = "idle"
      /\ at = 0
  BY DEF EndScan, heapVars
<1>2. \A i \in DOMAIN vec : i > at
  BY <1>1, ListedFacts DEF IInv
<1>3. Settled' = Settled
  BY <1>1, <1>2 DEF Settled, Kept, Idle, Held
<1>4. TotalsCover' /\ \A o \in Settled' : FlagsFit(o)'
  BY <1>1, <1>3, TallyKept
<1>5. \A o \in Listed' : ~obj'[o].updated
  BY <1>1, <1>2 DEF Tally, Listed, ToSet
<1> QED  BY <1>1, <1>4, <1>5 DEF Tally, Reading, Idle

LEMMA SweepTally == IInv /\ Tally /\ Sweep => Tally'
<1> SUFFICES ASSUME IInv, Tally, Sweep PROVE Tally'
  OBVIOUS
<1> DEFINE o == vec[at]
<1>1. /\ UNCHANGED <<counts, leader, thread>>
      /\ pc = "sweep" /\ pc' = "sweep" /\ at > 0 /\ at' = at - 1
  BY DEF Sweep
<1>2. /\ at \in 1..Len(vec) /\ o \in Listed /\ Listed \subseteq Obj /\ obj \in [Obj -> Process]
      /\ DOMAIN vec = 1..Len(vec) /\ Len(vec) \in Nat /\ \A i \in 1..Len(vec) : vec[i] \in Obj
  BY <1>1, ListedFacts DEF IInv, SweepInRange, TypeOK
<1>3. CASE obj[o].updated
  <2>1. vec' = vec /\ obj' = [obj EXCEPT ![o].updated = FALSE]
    BY <1>3 DEF Sweep
  <2>2. /\ \A q \in Obj \ {o} : obj'[q] = obj[q]
        /\ obj'[o].pid = obj[o].pid /\ obj'[o].tgid = obj[o].tgid
        /\ obj'[o].state = obj[o].state /\ obj'[o].show = obj[o].show
        /\ obj'[o].isKernelThread = obj[o].isKernelThread /\ ~obj'[o].updated
    <3>1. /\ [obj[o] EXCEPT !.updated = FALSE].pid = obj[o].pid
          /\ [obj[o] EXCEPT !.updated = FALSE].tgid = obj[o].tgid
          /\ [obj[o] EXCEPT !.updated = FALSE].state = obj[o].state
          /\ [obj[o] EXCEPT !.updated = FALSE].show = obj[o].show
          /\ [obj[o] EXCEPT !.updated = FALSE].isKernelThread = obj[o].isKernelThread
          /\ [obj[o] EXCEPT !.updated = FALSE].updated = FALSE
      BY <1>2 DEF Process
    <3> QED  BY <1>2, <2>1, <3>1
  <2>3. \A i \in 1..Len(vec) : /\ i > at' <=> i > at \/ i = at
                               /\ i = at <=> vec[i] = o
    BY <1>1, <1>2 DEF IInv, TableMatchesVector
  <2>4. \A i \in 1..Len(vec) : Kept(i)' = Kept(i)
    BY <1>1, <1>2, <1>3, <2>1, <2>2, <2>3 DEF Kept
  <2>5. Settled' = Settled
    BY <1>1, <1>2, <2>1, <2>4 DEF Settled, Idle, Held
  <2>6. \A q \in Settled : q \in Obj
    BY <1>2, SettledFinite DEF IInv
  <2>7. TotalsCover' /\ \A q \in Settled' : FlagsFit(q)'
    BY <1>1, <2>2, <2>5, <2>6, TallyKept
  <2>8. \A i \in DOMAIN vec' : i > at' => ~obj'[vec'[i]].updated
    BY <1>1, <1>2, <2>1, <2>2, <2>3 DEF Tally
  <2> QED  BY <1>1, <2>7, <2>8 DEF Tally, Reading, Idle
<1>4. CASE ~obj[o].updated
  <2>1. \A j \in DOMAIN vec' : /\ OldIndex(j) \in DOMAIN vec /\ vec'[j] = vec[OldIndex(j)]
                               /\ obj'[vec'[j]] = obj[vec'[j]]
                               /\ Kept(j)' = Kept(OldIndex(j))
                               /\ j > at' <=> OldIndex(j) > at
    BY <1>4, SweepRemoves
  <2>2. Held' = Held
    BY <1>1 DEF Held
  <2>3. \A q \in Settled' : q \in Settled /\ obj'[q] = obj[q]
    <3> SUFFICES ASSUME NEW q \in Settled' PROVE q \in Settled /\ obj'[q] = obj[q]
      OBVIOUS
    <3>1. PICK j \in DOMAIN vec' : vec'[j] = q /\ Kept(j)' /\ q \notin Held
      BY <1>1, <2>2 DEF Settled, Idle
    <3> QED  BY <2>1, <3>1 DEF Settled
  <2>4. TotalsCover' /\ \A q \in Settled' : FlagsFit(q)'
    BY <1>1, <2>3, TallyKept
  <2>5. \A j \in DOMAIN vec' : j > at' => ~obj'[vec'[j]].updated
    BY <1>1, <2>1 DEF Tally
  <2> QED  BY <1>1, <2>4, <2>5 DEF Tally, Reading, Idle
<1> QED  BY <1>3, <1>4

LEMMA InitTally == Init => Tally
<1> SUFFICES ASSUME Init PROVE Tally
  OBVIOUS
<1>1. vec = << >> /\ pc = "idle" /\ counts = Zero
  BY DEF Init
<1>2. Listed = {} /\ Settled = {}
  BY <1>1 DEF Listed, ToSet, Settled
<1>3. /\ {o \in Settled : obj[o].state = "R"} = {}
      /\ {o \in Settled : IsKernelThread(o)} = {}
  BY <1>2
<1>4. TotalsCover
  BY <1>1, <1>2, <1>3, FS_EmptySet DEF TotalsCover, Zero
<1> QED  BY <1>1, <1>2, <1>4 DEF Tally, Reading

LEMMA NextTally == IInv /\ Tally /\ [Next]_vars => Tally'
<1> SUFFICES ASSUME IInv, Tally, [Next]_vars PROVE Tally'
  OBVIOUS
<1>1. CASE Environment
  <2>1. \E newOs : OsChange(newOs)
    BY <1>1 DEF Environment, Fork, Clone, Exit, Reap, Schedule
  <2>2. UNCHANGED <<obj, vec, counts, pc, at, leader, thread>>
    BY <2>1 DEF OsChange, heapVars, walkVars
  <2> QED  BY <2>2, QuietTally
<1>2. CASE StartScan
  BY <1>2, StartScanTally
<1>3. CASE Walk
  BY <1>3, EnterProcessTally, EnterThreadTally, LeaveTaskDirTally, ReadStatmTally,
     ReadStatTally, StatDirTally, FinishTally, EndWalkTally, SweepTally, EndScanTally DEF Walk
<1>4. CASE UNCHANGED vars
  BY <1>4, QuietTally DEF vars, heapVars, walkVars
<1> QED  BY <1>1, <1>2, <1>3, <1>4 DEF Next

LEMMA TallyFits == IInv /\ Tally => TotalsAndFlagsFit
<1> SUFFICES ASSUME IInv, Tally, Idle PROVE TotalsAndFlagsFit
  BY DEF TotalsAndFlagsFit
<1>1. leader = NoFrame /\ thread = NoFrame
  BY DEF IInv, Frames, Reading, Idle
<1>2. Settled = Listed
  BY <1>1, NoFrameIsFrame DEF Settled, Held, Listed, ToSet
<1>3. Cardinality(Listed) = Len(vec)
  BY ListedFinite DEF IInv, TableMatchesVector
<1> QED  BY <1>2, <1>3 DEF Tally, TotalsCover, TotalsAndFlagsFit

\* After every scan the totals of the header cover the list, no mark is left, and what
\* is hidden is what the settings hide, whatever changed meanwhile and however often one
\* task was visited (the counters of recurseProcTree, the sweep of ProcessList_scan).
THEOREM TotalsRight == Spec => []TotalsAndFlagsFit
<1>1. Init => Tally
  BY InitTally
<1>2. IInv /\ Tally /\ [Next]_vars => Tally'
  BY NextTally
<1>3. Spec => []Tally
  BY <1>1, <1>2, Invariance, PTL DEF Spec
<1> QED  BY <1>3, Invariance, TallyFits, PTL
=============================================================================
