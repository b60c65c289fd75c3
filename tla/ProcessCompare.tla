--------------------------- MODULE ProcessCompare ---------------------------
(***************************************************************************)
(* How two processes are compared for each column the list can be sorted   *)
(* by: Process_compare, and the compare functions of the builds that have  *)
(* columns of their own (LinuxProcess.c, FreeBSDProcess.c,                 *)
(* DragonFlyBSDProcess.c, OpenBSDProcess.c, SolarisProcess.c).             *)
(*                                                                         *)
(* A process is a record of its pid, of the value that the column is       *)
(* about (a number, the rank of a text, a time, a state, an I/O priority)  *)
(* and of its nice value, which counts for the I/O priority only.          *)
(* Numbers are those of C: a difference of two unsigned ints is one again, *)
(* and each result is returned as a long.                                  *)
(*                                                                         *)
(* Definitions marked "Defect" are plausible mistakes, not the program.    *)
(***************************************************************************)
EXTENDS Integers

CONSTANTS
  UIntModulus,  \* unsigned int
  LongModulus,  \* unsigned long, and unsigned long long
  RateUnit      \* a rate is counted in parts of a byte per second

ASSUME CompareAssumption ==
  /\ UIntModulus \in Nat /\ UIntModulus >= 2 /\ UIntModulus % 2 = 0
  /\ LongModulus \in Nat /\ LongModulus >= UIntModulus /\ LongModulus % 2 = 0
  /\ RateUnit \in Nat \ {0}

UInt(n) == n % UIntModulus
Long(n) == ((n + (LongModulus \div 2)) % LongModulus) - (LongModulus \div 2)

-----------------------------------------------------------------------------
(* The columns, by the type of what they compare and by what comes first. *)

Float == {"PERCENT_CPU", "PERCENT_CPU_DELAY", "PERCENT_IO_DELAY", "PERCENT_SWAP_DELAY"}

\* long and unsigned long; the column MEM% is sorted by m_resident.
LargestFirst ==
  {"PERCENT_MEM", "M_RESIDENT", "M_SIZE", "M_MEMLEAK", "M_DRS", "M_DT", "M_LRS", "M_TRS",
   "M_SHARE", "MAJFLT", "MINFLT", "TIME"}

\* FreeBSD and DragonFly; Solaris.
JailColumns == {"JID", "JAIL"}
ZoneColumns == {"ZONEID", "PROJID", "TASKID", "POOLID", "CONTID", "ZONE", "LWPID"}

\* long and int.
SmallestFirst ==
  {"NICE", "NLWP", "PID", "PPID", "PRIORITY", "PROCESSOR", "TGID", "TPGID"}
    \cup ((JailColumns \cup ZoneColumns) \ {"JAIL", "ZONE"})

\* unsigned int.
UnsignedSmallestFirst == {"PGRP", "SESSION", "ST_UID", "TTY_NR"}
UnsignedLargestFirst == {"OOM", "CTID", "VPID", "VXID"}
Unsigned == UnsignedSmallestFirst \cup UnsignedLargestFirst

\* unsigned long long, of which only the sign is taken.
Counted ==
  {"UTIME", "CUTIME", "STIME", "CSTIME", "RCHAR", "WCHAR", "SYSCR", "SYSCW", "RBYTES",
   "WBYTES", "CNCLWB"}

\* double.
Rate == {"IO_READ_RATE", "IO_WRITE_RATE", "IO_RATE"}

Text == {"COMM", "USER", "CGROUP", "JAIL", "ZONE"}

Columns ==
  Float \cup LargestFirst \cup SmallestFirst \cup Unsigned \cup Counted \cup Rate
    \cup Text \cup {"STARTTIME", "STATE", "IO_PRIORITY"}

-----------------------------------------------------------------------------
(* The parts of the values.  A text, which is its rank here, may be         *)
(* missing: then it is "", and for the zone of Solaris "global".  The      *)
(* state I is sorted behind all others.                                    *)

NoText == -1
EmptyText == 0
GlobalText == 2
TextOf(column, x) ==
  IF x # NoText THEN x ELSE IF column = "ZONE" THEN GlobalText ELSE EmptyText

Idle == 73
SortState(x) == IF x = Idle THEN 256 ELSE x

\* A class and its data; without a class it follows from the nice value.
IoNone == 0
IoBestEffort == 2
IoPriority(class, data) == 8 * class + data
EffectiveIoPriority(p) ==
  IF p.value \div 8 = IoNone THEN IoPriority(IoBestEffort, (p.nice + 20) \div 5) ELSE p.value

-----------------------------------------------------------------------------
(* The comparisons: at most 0 if p may stay before q. *)

\* Defect: two processes that use the same are swapped.
CompareFloatSwapping(x, y) == IF y >= x THEN 1 ELSE -1

CompareFloat(x, y) == IF y > x THEN 1 ELSE -1

Sign(n) == IF n > 0 THEN 1 ELSE IF n < 0 THEN -1 ELSE 0

\* A double becomes a long long: what is behind the point is cut off.
CutOff(n) == IF n >= 0 THEN n \div RateUnit ELSE -((-n) \div RateUnit)

\* strcmp.
CompareText(column, x, y) == Sign(TextOf(column, x) - TextOf(column, y))

CompareStart(p, q) ==
  IF p.value = q.value THEN Long(p.pid - q.pid) ELSE Long(p.value - q.value)

\* Defect: an idle process is sorted as its letter is.
CompareStateByLetter(x, y) == Long(x - y)

CompareState(x, y) == Long(SortState(x) - SortState(y))

\* Process_compare and the five functions that fall back to it; a column that
\* nothing is known of is sorted by pid.
CompareUp(column, p, q) ==
  CASE column \in Float                 -> CompareFloat(p.value, q.value)
    [] column \in LargestFirst          -> Long(q.value - p.value)
    [] column \in SmallestFirst         -> Long(p.value - q.value)
    [] column \in UnsignedSmallestFirst -> Long(UInt(p.value - q.value))
    [] column \in UnsignedLargestFirst  -> Long(UInt(q.value - p.value))
    [] column \in Counted               -> Sign(Long(q.value - p.value))
    [] column \in Rate                  -> Sign(CutOff(q.value - p.value))
    [] column \in Text                  -> CompareText(column, p.value, q.value)
    [] column = "STARTTIME"             -> CompareStart(p, q)
    [] column = "STATE"                 -> CompareState(p.value, q.value)
    [] column = "IO_PRIORITY"           ->
         Long(EffectiveIoPriority(p) - EffectiveIoPriority(q))
    [] OTHER                            -> Long(p.pid - q.pid)

Compare(column, direction, p, q) ==
  IF direction = 1 THEN CompareUp(column, p, q) ELSE CompareUp(column, q, p)

-----------------------------------------------------------------------------
(* What is meant: p belongs above q. *)

BelongsAboveUp(column, p, q) ==
  CASE column \in Float \cup LargestFirst \cup UnsignedLargestFirst \cup Counted ->
         p.value > q.value
    [] column \in SmallestFirst \cup UnsignedSmallestFirst -> p.value < q.value
    [] column \in Rate        -> p.value >= q.value + RateUnit
    [] column \in Text        -> TextOf(column, p.value) < TextOf(column, q.value)
    [] column = "STARTTIME"   -> \/ p.value < q.value
                                 \/ p.value = q.value /\ p.pid < q.pid
    [] column = "STATE"       -> \/ p.value # Idle /\ q.value = Idle
                                 \/ p.value # Idle /\ p.value < q.value
    [] column = "IO_PRIORITY" -> EffectiveIoPriority(p) < EffectiveIoPriority(q)
    [] OTHER                  -> p.pid < q.pid

BelongsAbove(column, direction, p, q) ==
  IF direction = 1 THEN BelongsAboveUp(column, p, q) ELSE BelongsAboveUp(column, q, p)
=============================================================================
