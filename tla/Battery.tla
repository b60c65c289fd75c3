------------------------------ MODULE Battery ------------------------------
(***************************************************************************)
(* linux/Battery.c: the charge of all batteries, from /proc/acpi or, if    *)
(* that has none, from /sys/class/power_supply, kept for some seconds      *)
(* because reading is slow.  Batteries may be taken out and put in while   *)
(* they are read, one file after the other; /proc/acpi is read twice, for  *)
(* what they can hold and for what they hold.  Whether the computer runs   *)
(* on A/C is read beside that and left out.                                *)
(***************************************************************************)
EXTENDS Integers, SequencesExt

CONSTANTS
  Bats,         \* the batteries, in the order of the directories
  Full,         \* what each can hold
  CACHE,        \* seconds a reading is kept
  MaxBatEvents  \* bound: steps of the environment

ASSUME BatteryAssumption ==
  /\ Bats \in Seq(ToSet(Bats)) /\ \A b \in ToSet(Bats) : Full[b] \in Nat \ {0}
  /\ CACHE \in Nat \ {0} /\ MaxBatEvents \in Nat

VARIABLES
  procAcpi,   \* the kernel has /proc/acpi/battery
  charge,     \* what each battery holds, or Out
  time,       \* the wall clock
  batEvents,
  reading,    \* where Battery_getData is: the source, the places of the batteries listed
              \* and not yet read, the two sums, and the time it began
  battery,    \* method and cache
  shownLevel, \* what the meter shows
  batHist     \* history: seconds since the last reading began, and whether the clock was
              \* set back since; how old what is shown was when it was shown, and
              \* how old the reading was that the last one replaced

batVars == <<procAcpi, charge, time, batEvents, reading, battery, shownLevel, batHist>>

Out == -1

NotReading == [at |-> "idle", todo |-> {}, full |-> 0, remain |-> 0, now |-> 0]
Unread     == [age |-> CACHE, setBack |-> FALSE, shown |-> 0, replaced |-> CACHE]

BatteryInit ==
  /\ procAcpi \in BOOLEAN
  /\ charge \in [ToSet(Bats) -> {Out, 0, 1}]
  /\ time = CACHE /\ batEvents = 0
  /\ reading = NotReading
  /\ battery = [method |-> "proc", level |-> 0, cached |-> 0]
  /\ shownLevel = Out
  /\ batHist = Unread
-----------------------------------------------------------------------------
(* Environment.                                                            *)

BatEvent ==
  /\ batEvents < MaxBatEvents /\ batEvents' = batEvents + 1
  /\ UNCHANGED <<procAcpi, reading, battery, shownLevel>>

ChangeBattery ==
  /\ BatEvent
  /\ \E b \in ToSet(Bats), n \in {Out} \cup 0 .. 2 :
       n <= Full[b] /\ n # charge[b] /\ charge' = [charge EXCEPT ![b] = n]
  /\ UNCHANGED <<time, batHist>>

Second ==
  /\ BatEvent
  /\ time' = time + 1 /\ batHist' = [batHist EXCEPT !.age = @ + 1]
  /\ UNCHANGED charge

SetClockBack ==
  /\ BatEvent
  /\ time > CACHE /\ time' = time - 1 /\ batHist' = [batHist EXCEPT !.setBack = TRUE]
  /\ UNCHANGED charge
-----------------------------------------------------------------------------
(* Battery_getData.                                                        *)

Env == <<procAcpi, charge, time, batEvents>>
Present == {i \in DOMAIN Bats : charge[Bats[i]] # Out}
ListProc == IF procAcpi THEN Present ELSE {}

\* Defect: the cache is asked for one second more.
FreshLonger == time <= battery.cached + CACHE

Fresh == time < battery.cached + CACHE

\* The meter is drawn while the cache is good.
ShowCached ==
  /\ reading.at = "idle" /\ Fresh
  /\ shownLevel' = battery.level
  /\ batHist' = [batHist EXCEPT !.shown = IF batHist.setBack THEN 0 ELSE batHist.age]
  /\ UNCHANGED <<Env, reading, battery>>

Begin(source, now) == [at |-> source, todo |-> IF source = "info" THEN ListProc ELSE Present,
                       full |-> 0, remain |-> 0, now |-> now]

\* Defect: more than all.
Unclamped(level) == level

\* The level at the end; one battery may have come or gone between two files.
Clamped(level) == IF level > 100 THEN 100 ELSE level

Finish(method, level, now) ==
  /\ reading' = NotReading
  /\ battery' = [method |-> method, level |-> Clamped(level), cached |-> now]
  /\ shownLevel' = Clamped(level)

\* No source is left.
GiveUp(now) == Finish("error", -1, now)

GetData ==
  /\ reading.at = "idle" /\ ~Fresh
  /\ batHist' = [age |-> 0, setBack |-> FALSE, shown |-> 0,
                 replaced |-> IF batHist.setBack THEN CACHE ELSE batHist.age]
  /\ IF battery.method = "error" THEN GiveUp(time)
     ELSE /\ reading' = Begin(IF battery.method = "proc" THEN "info" ELSE "sys", time)
          /\ UNCHANGED <<battery, shownLevel>>
  /\ UNCHANGED Env

\* parseBatInfo opens the next file; if that fails the rest is left out.
NextBat == Bats[Min(reading.todo)]
Others == reading.todo \ {Min(reading.todo)}
Rest == IF charge[NextBat] = Out THEN {} ELSE Others
Value(b, n) == IF charge[b] = Out THEN 0 ELSE n

ReadInfo ==
  /\ reading.at = "info" /\ reading.todo # {}
  /\ LET b == NextBat
     IN  reading' = [reading EXCEPT !.full = @ + Value(b, Full[b]), !.todo = Rest]
  /\ UNCHANGED <<Env, battery, shownLevel, batHist>>

ReadState ==
  /\ reading.at = "state" /\ reading.todo # {}
  /\ LET b == NextBat
     IN  reading' = [reading EXCEPT !.remain = @ + Value(b, charge[b]), !.todo = Rest]
  /\ UNCHANGED <<Env, battery, shownLevel, batHist>>

\* Battery_getProcBatData: if there is nothing in /proc the other source is tried.
EndInfo ==
  /\ reading.at = "info" /\ reading.todo = {}
  /\ reading' = IF reading.full = 0 THEN Begin("sys", reading.now)
                ELSE [reading EXCEPT !.at = "state", !.todo = ListProc]
  /\ battery' = IF reading.full = 0 THEN [battery EXCEPT !.method = "sys"] ELSE battery
  /\ UNCHANGED <<Env, shownLevel, batHist>>

Level == (reading.remain * 100) \div reading.full

EndState ==
  /\ reading.at = "state" /\ reading.todo = {}
  /\ IF reading.remain = 0
     THEN /\ reading' = Begin("sys", reading.now) /\ battery' = [battery EXCEPT !.method = "sys"]
          /\ UNCHANGED shownLevel
     ELSE Finish("proc", Level, reading.now)
  /\ UNCHANGED <<Env, batHist>>

\* Battery_getSysData: one file has both numbers; if one cannot be opened the level
\* is 0, and that is the end of the meter.
ReadSys ==
  /\ reading.at = "sys" /\ reading.todo # {}
  /\ LET b == NextBat
     IN  IF charge[b] = Out THEN GiveUp(reading.now)
         ELSE /\ reading' = [reading EXCEPT !.full = @ + Full[b], !.remain = @ + charge[b],
                                            !.todo = Others]
              /\ UNCHANGED <<battery, shownLevel>>
  /\ UNCHANGED <<Env, batHist>>

EndSys ==
  /\ reading.at = "sys" /\ reading.todo = {}
  /\ IF reading.remain = 0 THEN GiveUp(reading.now) ELSE Finish("sys", Level, reading.now)
  /\ UNCHANGED <<Env, batHist>>

BatteryNext ==
  \/ ChangeBattery \/ Second \/ SetClockBack
  \/ ShowCached \/ GetData \/ ReadInfo \/ EndInfo \/ ReadState \/ EndState \/ ReadSys \/ EndSys

BatterySpec == BatteryInit /\ [][BatteryNext]_batVars
-----------------------------------------------------------------------------
(* What must hold. *)

\* The meter shows a percentage or n/a, also when a battery is put in after it was
\* asked what it can hold and before it was asked what it holds.  The batteries are
\* read once in ten seconds and not more often, and what is shown is no older than
\* that, as long as the clock is not set back.
LevelIsRecent ==
    /\ shownLevel \in -1 .. 100 /\ battery.level \in -1 .. 100
    /\ batHist.shown < CACHE /\ batHist.replaced >= CACHE
=============================================================================
