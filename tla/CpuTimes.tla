------------------------------ MODULE CpuTimes ------------------------------
(***************************************************************************)
(* The times of the CPUs: LinuxProcessList_scanCPUTime reads the lines of  *)
(* /proc/stat, one for all CPUs and one for each, and keeps the periods    *)
(* since the last reading; Platform_setCPUValues makes the parts of a bar  *)
(* of them and the percentage beside it.                                   *)
(*                                                                         *)
(* The kernel counts guest time in user time too, does not read its        *)
(* counters at one moment, and may take iowait back.  The numbers are      *)
(* unsigned.  A part of a bar is given here by its numerator; all are over *)
(* totalPeriod.                                                            *)
(***************************************************************************)
EXTENDS Integers, FiniteSets, Sums

CONSTANTS
  CpuCount,
  Modulus,        \* of an unsigned long long
  Ticked,         \* bound: the counters of the CPUs that move
  MaxCpuEvents    \* bound: steps of the environment

ASSUME CpuAssumption ==
  /\ CpuCount \in Nat \ {0} /\ MaxCpuEvents \in Nat /\ \A t \in Ticked : t[1] \in 1 .. CpuCount
  /\ Modulus \in Nat /\ Modulus > 10 * CpuCount + 2 * MaxCpuEvents

VARIABLES
  ticks,       \* the kernel's counters, by CPU
  online,      \* the CPUs that have a line
  cpuEvents,
  cpus,        \* CPUData, by line; line 0 is the one for all
  cpuHist      \* history, by line: what was read last, whose line it was and whether its
               \* counters can be trusted; and what passed since the reading before

cpuVars == <<ticks, online, cpuEvents, cpus, cpuHist>>

Cpu    == 1 .. CpuCount
Lines  == 0 .. CpuCount
None   == CpuCount + 1
Fields == {"user", "nice", "system", "idle", "iowait", "irq", "softirq", "steal",
           "guest", "guestnice"}
Parts  == {"user", "nice", "system", "systemAll", "idleAll", "idle", "ioWait", "irq",
           "softIrq", "steal", "guest", "total"}

Nothing == [f \in Fields |-> 0]

CpuInit ==
  /\ ticks = [c \in Cpu |-> [f \in Fields |-> 1]]
  /\ online = Cpu /\ cpuEvents = 0
  /\ cpus = [i \in Lines |-> [time   |-> [p \in Parts |-> IF p = "total" THEN 1 ELSE 0],
                              period |-> [p \in Parts |-> IF p = "total" THEN 1 ELSE 0]]]
  /\ cpuHist = [i \in Lines |-> [last |-> [of |-> 0, raw |-> Nothing, sane |-> FALSE],
                                 passed |-> Nothing, sane |-> FALSE]]
-----------------------------------------------------------------------------
(* Environment.                                                            *)

CpuEvent ==
  /\ cpuEvents < MaxCpuEvents
  /\ cpuEvents' = cpuEvents + 1
  /\ UNCHANGED <<cpus, cpuHist>>

\* The counters that one tick moves.
Counters(f) == {f} \cup (IF f = "guest" THEN {"user"} ELSE IF f = "guestnice" THEN {"nice"} ELSE {})
After(t, f) == [g \in Fields |-> IF g \in Counters(f) THEN t[g] + 1 ELSE t[g]]

CpuTick ==
  /\ CpuEvent
  /\ \E t \in Ticked : /\ t[1] \in online
                      /\ ticks' = [ticks EXCEPT ![t[1]] = After(@, t[2])]
  /\ UNCHANGED online

\* The kernel corrects iowait.  What was read before cannot be compared with it.
CorrectIowait ==
  /\ cpuEvents < MaxCpuEvents /\ cpuEvents' = cpuEvents + 1
  /\ \E c \in online :
       /\ <<c, "iowait">> \in Ticked /\ ticks[c]["iowait"] > 0
       /\ ticks' = [ticks EXCEPT ![c]["iowait"] = @ - 1]
       /\ cpuHist' = [i \in Lines |->
            IF cpuHist[i].last.of \in {0, c} THEN [cpuHist[i] EXCEPT !.last.sane = FALSE]
            ELSE cpuHist[i]]
  /\ UNCHANGED <<online, cpus>>

Hotplug ==
  /\ CpuEvent
  /\ \E c \in Cpu : /\ online # {c}
                    /\ online' = IF c \in online THEN online \ {c} ELSE online \cup {c}
  /\ UNCHANGED ticks
-----------------------------------------------------------------------------
(* A reading. *)

\* Defect: the plain difference.
SinceUnguarded(a, b) == a - b

\* WRAP_SUBTRACT.
Since(a, b) == IF a > b THEN a - b ELSE 0

\* The times of one line.  Guest time is taken off user time, which may wrap.
Times(raw) ==
  LET user      == (raw["user"] - raw["guest"]) % Modulus
      nice      == (raw["nice"] - raw["guestnice"]) % Modulus
      systemAll == raw["system"] + raw["irq"] + raw["softirq"]
      idleAll   == raw["idle"] + raw["iowait"]
      guest     == raw["guest"] + raw["guestnice"]
  IN  [user |-> user, nice |-> nice, systemAll |-> systemAll, idleAll |-> idleAll,
       guest |-> guest, steal |-> raw["steal"], system |-> raw["system"], irq |-> raw["irq"],
       softIrq |-> raw["softirq"], idle |-> raw["idle"], ioWait |-> raw["iowait"],
       total |-> (user + nice + systemAll + idleAll + raw["steal"] + guest) % Modulus]

Updated(data, raw) ==
  LET t == Times(raw)
  IN  [time |-> t, period |-> [p \in Parts |-> Since(t[p], data.time[p])]]

AllCpus == [f \in Fields |-> SumTo([c \in Cpu |-> ticks[c][f]], CpuCount)]

\* The line with a number is that of the CPU with this place among those online.
CpuOf(i) == CHOOSE c \in online : Cardinality({d \in online : d <= c}) = i

\* What line i yields.  A guest may get a tick while its counters are read, user
\* before guest (torn); behind the last line the first four variables have any value.
Reading(i, torn, any) ==
  LET now == IF i = 0 THEN AllCpus ELSE ticks[CpuOf(i)]
  IN  IF i > Cardinality(online)
      THEN [of |-> None, sane |-> FALSE,
            raw |-> [Nothing EXCEPT !["user"] = any, !["nice"] = any, !["system"] = any, !["idle"] = any]]
      ELSE [of |-> IF i = 0 THEN 0 ELSE CpuOf(i), sane |-> ~torn,
            raw |-> [now EXCEPT !["guest"] = @ + IF torn THEN 1 ELSE 0]]

\* Bound: a line that is missing yields the least or the greatest number.
ScanCPUTime ==
  \E torn \in SUBSET (0 .. Cardinality(online)) :
  \E any \in IF online = Cpu THEN {0} ELSE {0, Modulus - 1} :
    LET r == [i \in Lines |-> Reading(i, i \in torn, any)]
        Same(i) == cpuHist[i].last.sane /\ r[i].sane /\ cpuHist[i].last.of = r[i].of
    IN  /\ cpuEvents' = cpuEvents + Cardinality(torn) /\ cpuEvents' <= MaxCpuEvents
        /\ cpus' = [i \in Lines |-> Updated(cpus[i], r[i].raw)]
        /\ cpuHist' = [i \in Lines |->
             [last |-> r[i], sane |-> Same(i),
              passed |-> [f \in Fields |-> IF Same(i) THEN r[i].raw[f] - cpuHist[i].last.raw[f] ELSE 0]]]
        /\ UNCHANGED <<ticks, online>>

CpuNext == CpuTick \/ CorrectIowait \/ Hotplug \/ ScanCPUTime
CpuSpec == CpuInit /\ [][CpuNext]_cpuVars
-----------------------------------------------------------------------------
(* Platform_setCPUValues: the parts of the bar, in order, and how many of  *)
(* them the percentage adds up.                                            *)

Values(p, detailed) ==
  IF detailed
  THEN <<p["nice"], p["user"], p["system"], p["irq"], p["softIrq"], p["steal"], p["guest"], p["ioWait"]>>
  ELSE <<p["nice"], p["user"], p["systemAll"], p["steal"] + p["guest"]>>

\* Defect: the last part is added too.
AddedAll(detailed, accountGuest) == IF ~detailed THEN 4 ELSE IF accountGuest THEN 8 ELSE 5

Added(detailed, accountGuest) == IF ~detailed THEN 4 ELSE IF accountGuest THEN 7 ELSE 5

Percent(p, detailed, accountGuest) ==
  SumTo(Values(p, detailed), Added(detailed, accountGuest))
-----------------------------------------------------------------------------
(* What must hold. *)

\* Times and periods are unsigned numbers, whatever the kernel takes back.
CpuTypeOK ==
  /\ online \subseteq Cpu /\ online # {}
  /\ cpus \in [Lines -> [time : [Parts -> 0 .. Modulus - 1], period : [Parts -> 0 .. Modulus - 1]]]

\* Two readings of the same CPU, both with counters that can be trusted.
Sane(i) == cpuHist[i].sane
\* What passed between them, guest time being a part of user time or nice time.
Passed(d) == d["user"] + d["nice"] + d["system"] + d["idle"] + d["iowait"] + d["irq"]
             + d["softirq"] + d["steal"]
PassedInGuests(d) == d["guest"] + d["guestnice"]

\* The parts p of a line, and the percentages, are what passed.
PeriodAddsUp(p, passed) ==
  LET busy == p["total"] - p["idleAll"]
  IN  /\ p["total"] = p["user"] + p["nice"] + p["systemAll"] + p["idleAll"] + p["steal"] + p["guest"]
      /\ p["total"] = Passed(passed)
      /\ p["guest"] = PassedInGuests(passed)
      /\ Percent(p, FALSE, FALSE) = busy /\ Percent(p, TRUE, TRUE) = busy
      /\ Percent(p, TRUE, FALSE) = busy - p["steal"] - p["guest"]

\* Each tick of a CPU between two readings is in exactly one part, and the total is
\* their sum, with guest time in its own part and not in user's; a reading that could
\* not be trusted, or a CPU that was away, leaves no trace in the next but one.  The
\* percentage is the time that was not idle, simple or detailed, and in detail without
\* steal and guest if guest time is not to be accounted.
PeriodsAddUp ==
  /\ CpuTypeOK
  /\ \A i \in Lines : Sane(i) => PeriodAddsUp(cpus[i].period, cpuHist[i].passed)
=============================================================================
