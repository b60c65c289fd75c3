------------------------------ MODULE HostCpus ------------------------------
(***************************************************************************)
(* The times of the CPUs where htop is not built for Linux (CpuTimes).     *)
(* FreeBSD and DragonFly ("bsd", the same code) read the counters of each  *)
(* CPU, and those of all together, at every scan and keep percentages;     *)
(* Solaris reads each CPU and averages the percentages; Darwin keeps the   *)
(* last two readings and computes when a meter is drawn; OpenBSD reads     *)
(* when a meter is drawn.                                                  *)
(*                                                                         *)
(* A share of the time is a fraction, <<numerator, denominator>>, as an    *)
(* IEEE quotient: n/0 is infinite, 0/0 not a number.  Counters are         *)
(* unsigned.                                                               *)
(***************************************************************************)
EXTENDS Integers, FiniteSetsExt, SequencesExt

CONSTANTS
  Hosts,            \* the builds looked at
  HostCounts,       \* the numbers of CPUs looked at
  HostModulus,      \* of a counter (an unsigned long, which may be 32 bits)
  HostLongModulus,  \* of an unsigned long long
  HostStart,        \* bound: what the counters are in the beginning, by state
  HostTicked,       \* bound: the counters of the CPUs that move
  MaxHostTicks      \* bound: ticks

States == {"user", "nice", "sys", "intr", "idle"}

ASSUME HostAssumption ==
  /\ Hosts \subseteq {"bsd", "openbsd", "solaris", "darwin"}
  /\ HostCounts \subseteq Nat \ {0} /\ MaxHostTicks \in Nat
  /\ HostModulus \in Nat /\ MaxHostTicks < HostModulus /\ HostLongModulus % HostModulus = 0
  /\ HostStart \in [States -> 0 .. HostModulus - 1]

VARIABLES
  host,         \* the build
  cpuCount,     \* ProcessList.cpuCount
  scanned,      \* the two scans before anything is drawn, as far as they are done
  hostTicks,    \* the kernel's counters, by CPU
  tickCount,
  hostLines,    \* by line, what is kept of it: the counters read last and (Darwin) those
                \* before, and shares of the time
  drawn,        \* the meter that was drawn just now: its CPU, its values, its percentage
  hostHist      \* history, by line: the counters read last, and what passed since the
                \* reading before, if no counter wrapped

hostVars == <<host, cpuCount, scanned, hostTicks, tickCount, hostLines, drawn, hostHist>>

HostCpu == 1 .. cpuCount
Unknown == [s \in States |-> -1]
NoDraw == [cpu |-> -1, detailed |-> FALSE, values |-> << >>, percent |-> <<0, 1>>, passed |-> << >>]

\* A single CPU has line 0 where there is one for all.
Averaged == host \in {"bsd", "solaris"}
LineOf(cpu) == IF Averaged /\ cpuCount = 1 THEN 0 ELSE cpu
CpusOf(line) == IF line = 0 THEN HostCpu ELSE {line}

\* The lines whose counters are read; the others are averages of shares.
ReadLines == IF Averaged /\ cpuCount = 1 THEN {0}
             ELSE IF host = "bsd" THEN 0 .. cpuCount ELSE HostCpu

\* The states that a build knows; each has its counter.
HasState(s) == /\ host = "solaris" => s # "nice"
               /\ host = "darwin" => s # "intr"

Counters0(line) == [s \in States |-> FoldSet(LAMBDA c, n : n + hostTicks[c][s], 0, CpusOf(line))
                                     % HostModulus]

\* FreeBSD, DragonFly and Darwin have read the counters when the list was made, OpenBSD
\* has zeros; in the memory of Solaris there is anything.
HostInit ==
  /\ host \in Hosts /\ cpuCount \in HostCounts
  /\ hostTicks = [c \in HostCpu |-> [s \in States |-> IF HasState(s) THEN HostStart[s] ELSE 0]]
  /\ scanned = (IF host = "openbsd" THEN 2 ELSE 0)
  /\ tickCount = 0 /\ drawn = NoDraw
  /\ \E any \in IF host = "solaris" THEN {0, HostModulus - 1} ELSE {0} :
       hostLines = [l \in 0 .. cpuCount |->
         LET kept == IF host \in {"solaris", "openbsd"} THEN [s \in States |-> any] ELSE Counters0(l)
         IN  [prev |-> kept, kept |-> kept, share |-> [s \in States |-> <<0, 1>>]]]
  /\ hostHist = [l \in 0 .. cpuCount |->
       [last |-> IF host = "solaris" THEN Unknown
                 ELSE IF host = "openbsd" THEN [s \in States |-> 0] ELSE Counters0(l),
        passed |-> Unknown]]
-----------------------------------------------------------------------------
\* A tick of one CPU.
HostTick ==
  /\ tickCount < MaxHostTicks
  /\ \E c \in HostCpu, s \in States :
       /\ HasState(s) /\ <<c, s>> \in HostTicked
       /\ hostTicks' = [hostTicks EXCEPT ![c][s] = (@ + 1) % HostModulus]
  /\ tickCount' = tickCount + 1 /\ drawn' = NoDraw
  /\ UNCHANGED <<host, cpuCount, scanned, hostLines, hostHist>>

\* History: the lines are read.
HostNoted(lines) ==
  hostHist' = [l \in 0 .. cpuCount |->
    IF l \notin lines THEN hostHist[l]
    ELSE LET now == Counters0(l)
             old == hostHist[l].last
         IN  [last |-> now,
              passed |-> IF \A s \in States : old[s] # -1 /\ now[s] >= old[s]
                         THEN [s \in States |-> now[s] - old[s]] ELSE Unknown]]

SumOf(t) == FoldSet(LAMBDA s, n : n + t[s], 0, States)

\* FreeBSDProcessList_scanCPUTime and the one of DragonFly: the difference of a counter
\* wraps as the counter does, the one of the sums does not.
SharesBSD(new, old) ==
  LET total == (SumOf(new) - SumOf(old)) % HostLongModulus
  IN  [s \in States |-> <<(new[s] - old[s]) % HostModulus, IF total < 1 THEN 1 ELSE total>>]

\* SolarisProcessList_scanCPUTime.
SharesSolaris(new, old) ==
  LET diff == [s \in States |-> (new[s] - old[s]) % HostModulus]
  IN  [s \in States |-> IF HasState(s) THEN <<diff[s], SumOf(diff) % HostModulus>> ELSE <<0, 1>>]

NotANumber(p) == p[1] = 0 /\ p[2] = 0
FracAdd(p, q) == CASE p[2] = 0 /\ q[2] = 0 -> IF p[1] * q[1] > 0 THEN p ELSE <<0, 0>>
                   [] p[2] = 0 /\ q[2] # 0 -> p
                   [] p[2] # 0 /\ q[2] = 0 -> q
                   [] p[2] = q[2] /\ q[2] # 0 -> <<p[1] + q[1], p[2]>>
                   [] OTHER -> <<p[1] * q[2] + q[1] * p[2], p[2] * q[2]>>
\* The sum of a sequence of fractions.
Total(seq) == FoldLeft(FracAdd, Head(seq), Tail(seq))
Mean(seq) == LET t == Total(seq) IN <<t[1], t[2] * Len(seq)>>

\* Defect: what was read does not become what the next reading is compared with.
ReadLineKept(line) ==
  LET new == Counters0(line)
  IN  [hostLines[line] EXCEPT !.share = IF host = "solaris" THEN SharesSolaris(new, hostLines[line].kept)
                                        ELSE SharesBSD(new, hostLines[line].kept)]

ReadLine(line) ==
  LET new == Counters0(line)
      old == hostLines[line].kept
  IN  [prev |-> old, kept |-> new,
       share |-> CASE host = "solaris" -> SharesSolaris(new, old)
                   [] host = "darwin" -> hostLines[line].share
                   [] OTHER -> SharesBSD(new, old)]

\* The CPU part of ProcessList_goThroughEntries.
HostScan ==
  /\ host # "openbsd"
  /\ LET read == [l \in 0 .. cpuCount |-> IF l \in ReadLines THEN ReadLine(l) ELSE hostLines[l]]
         average == [s \in States |-> Mean([c \in HostCpu |-> read[c].share[s]])]
     IN  hostLines' = IF host = "solaris" /\ cpuCount > 1 THEN [read EXCEPT ![0].share = average]
                      ELSE read
  /\ HostNoted(ReadLines)
  /\ scanned' = IF scanned < 2 THEN scanned + 1 ELSE scanned
  /\ drawn' = NoDraw
  /\ UNCHANGED <<host, cpuCount, hostTicks, tickCount>>
-----------------------------------------------------------------------------
(* Platform_setCPUValues.                                                  *)

Draw(cpu, detailed, values, percent, hist) ==
  drawn' = [cpu |-> cpu, detailed |-> detailed, values |-> values, percent |-> percent,
            passed |-> [l \in 0 .. cpuCount |-> hist[l].passed]]

\* CLAMP(p, 0.0, 100.0).
Clamp(p) == IF NotANumber(p) THEN p
            ELSE LET q == IF p[2] < 0 THEN <<-p[1], -p[2]>> ELSE p
                 IN  IF q[1] < 0 THEN <<0, 1>> ELSE IF q[1] > q[2] THEN <<1, 1>> ELSE q

\* FreeBSD, DragonFly and Solaris: not a number is shown as 0.
DrawKept(cpu, detailed) ==
  /\ Averaged
  /\ LET v == hostLines[LineOf(cpu)].share
         values == IF detailed THEN <<v["nice"], v["user"], v["sys"], v["intr"]>>
                   ELSE <<v["nice"], v["user"], FracAdd(v["sys"], v["intr"])>>
         percent == Clamp(Total(values))
     IN  Draw(cpu, detailed, values, IF NotANumber(percent) THEN <<0, 1>> ELSE percent, hostHist)
  /\ UNCHANGED <<hostLines, hostHist>>

\* Darwin: the values of a CPU, of counters that are taken as numbers without a width.
DarwinValues(cpu) ==
  LET line == hostLines[cpu]
      diff == [s \in States |-> line.kept[s] - line.prev[s]]
  IN  [i \in 1 .. 3 |-> <<diff[<<"nice", "user", "sys">>[i]], SumOf(diff)>>]

\* Average over the CPUs; the percentages are clamped before.
DrawDarwin(cpu, detailed) ==
  /\ host = "darwin"
  /\ LET cpus == IF cpu = 0 THEN HostCpu ELSE {cpu}
         each == [i \in 1 .. Cardinality(cpus) |-> DarwinValues(IF cpu = 0 THEN i ELSE cpu)]
     IN  Draw(cpu, detailed,
              [k \in 1 .. 3 |-> Mean([i \in DOMAIN each |-> each[i][k]])],
              Mean([i \in DOMAIN each |-> Clamp(Total(each[i]))]), hostHist)
  /\ UNCHANGED <<hostLines, hostHist>>

\* percentages(): in thousandths, rounded each for itself; a counter that wraps loses a
\* tick, as it counts up to INT64_MAX.
Percentages(new, old) ==
  LET change == [s \in States |-> IF new[s] < old[s] THEN HostModulus - 1 - old[s] + new[s]
                                  ELSE new[s] - old[s]]
      total == IF SumOf(change) = 0 THEN 1 ELSE SumOf(change)
  IN  [s \in States |-> (change[s] * 1000 + total \div 2) \div total]

\* OpenBSD: the counters are read here, and compared with those that were read when a
\* meter of this CPU was drawn last.  The values are in the order of the system's states.
\* There is no CPU -1, so that the average is 0.
DrawOpenBSD(cpu, detailed) ==
  /\ host = "openbsd"
  /\ IF cpu = 0
     THEN /\ Draw(cpu, detailed, << >>, <<0, 1>>, hostHist)
          /\ UNCHANGED <<hostLines, hostHist>>
     ELSE LET new == Counters0(cpu)
              p == Percentages(new, hostLines[cpu].kept)
              values == [i \in 1 .. 4 |-> p[<<"user", "nice", "sys", "intr">>[i]]]
              sum == FoldLeft(+, 0, values)
          IN  /\ hostLines' = [hostLines EXCEPT ![cpu].kept = new]
              /\ HostNoted({cpu})
              /\ Draw(cpu, detailed, [i \in 1 .. 4 |-> <<values[i], 1000>>],
                      <<IF sum <= 1000 THEN sum ELSE 0, 1000>>, hostHist')

\* CPUMeter_updateValues of a meter of one CPU, or of the average, after the scans that main
\* makes; the setting for detailed times is the user's.
CPUMeter ==
  /\ scanned = 2
  /\ \E cpu \in 0 .. cpuCount, detailed \in BOOLEAN :
       DrawKept(cpu, detailed) \/ DrawDarwin(cpu, detailed) \/ DrawOpenBSD(cpu, detailed)
  /\ UNCHANGED <<host, cpuCount, scanned, hostTicks, tickCount>>

HostNext == HostTick \/ HostScan \/ CPUMeter
HostSpec == HostInit /\ [][HostNext]_hostVars
-----------------------------------------------------------------------------
(* What must hold.                                                         *)

Equal(p, q) == p[1] * q[2] = q[1] * p[2]

\* The share of some states in what passed, where it is known.
ShareOf(passed, S) == <<FoldSet(LAMBDA s, n : n + passed[s], 0, S), SumOf(passed)>>

\* Whatever the counters do, a percentage is one; on Darwin it may also be not a number.
\* If no counter has wrapped between two readings, the parts of a bar are the shares of
\* the states in the ticks that passed, whether or not a counter wrapped before, and the
\* percentage is their sum, the time that was not idle; an average is that of the CPUs,
\* where FreeBSD and DragonFly have the kernel's counters of all.  On OpenBSD the ticks
\* are those since any meter of the CPU was drawn last, the parts are rounded, and a sum
\* that is rounded to more than all of it is shown as 0.
HostPartsAddUp ==
  LET cpu == drawn.cpu
      p == drawn.percent
      passed == drawn.passed
      summed == Averaged /\ (host # "solaris" \/ cpuCount = 1)
      lines == IF cpu # 0 \/ summed THEN {LineOf(cpu)} ELSE HostCpu
      known == \A l \in lines : passed[l] # Unknown /\ SumOf(passed[l]) > 0
      mean(S) == Mean([i \in 1 .. Cardinality(lines) |->
                         ShareOf(passed[IF lines = HostCpu /\ cpu = 0 THEN i ELSE LineOf(cpu)], S)])
      slots == IF host = "darwin" THEN <<{"nice"}, {"user"}, {"sys"}>>
               ELSE IF drawn.detailed THEN <<{"nice"}, {"user"}, {"sys"}, {"intr"}>>
               ELSE <<{"nice"}, {"user"}, {"sys", "intr"}>>
      busy == States \ {"idle"}
  IN  cpu # -1 =>
      /\ IF NotANumber(p) THEN host = "darwin" ELSE Equal(Clamp(p), p)
      /\ known /\ host # "openbsd" =>
            /\ Equal(p, mean(busy))
            /\ \A i \in DOMAIN drawn.values : Equal(drawn.values[i], mean(slots[i]))
      /\ known /\ host = "openbsd" /\ cpu # 0 =>
            LET off == p[1] * SumOf(passed[cpu]) - 1000 * ShareOf(passed[cpu], busy)[1]
            IN  \/ off \in -2 * SumOf(passed[cpu]) .. 2 * SumOf(passed[cpu])
                \/ p[1] = 0 /\ passed[cpu]["idle"] * 500 <= SumOf(passed[cpu])
=============================================================================
