----------------------------- MODULE MCFigures -----------------------------
(* Small instances of Rates, CpuTimes, Battery, HostCpus, Memory and         *)
(* MeterModes, which share nothing; one of them is looked at in each         *)
(* behavior.                                                                 *)
EXTENDS Rates, CpuTimes, Battery, HostCpus, Memory, MeterModes

VARIABLE part

mcVars == <<part, rateVars, cpuVars, batVars, hostVars, memVars, meterVars>>

MCBats == <<"BAT0", "BAT1">>
MCFull == [b \in {"BAT0", "BAT1"} |-> IF b = "BAT0" THEN 1 ELSE 2]
MCTicked == {<<1, f>> : f \in Fields} \cup {<<2, "idle">>}
MCHostTicked == {<<1, s>> : s \in States} \cup {<<2, "user">>}
MCHostStart == [s \in States |-> CASE s = "user" -> 4 [] s \in {"nice", "sys"} -> 1 [] OTHER -> 0]
MCSwapSizes == <<1, 2>>
MCReadings == {-1, 0, 1, 3, 5}
MCTexts == {<<>>, <<"t", "t">>, <<"t", "blank", "t">>, <<"t", "t", "blank", "t", "t">>}

\* Each meter alone, and each two of them; only the names of interfaces can be given
\* in the settings.
MCInit ==
  /\ part \in {"rates", "cpu", "battery", "host", "memory", "meters"}
  /\ part # "rates" => (header = {} /\ alias = [m \in Meters |-> m])
  /\ RatesInit
  /\ part = "rates" => Cardinality(header) \in {1, 2}
  /\ part = "rates" => (header \subseteq Nets \/ alias = [m \in Meters |-> m])
  /\ CpuInit
  /\ part # "battery" => (procAcpi = FALSE /\ charge = [b \in ToSet(Bats) |-> Out])
  /\ BatteryInit
  /\ part # "host" => (host = "openbsd" /\ cpuCount = 1)
  /\ HostInit
  /\ MemInit
  /\ part # "memory" => memHost.os = "linux"
  /\ MetersInit
  /\ part # "meters" => wallTime = 0

MCNext ==
  /\ UNCHANGED part
  /\ \/ part = "rates" /\ RatesNext /\ UNCHANGED <<cpuVars, batVars, hostVars, memVars, meterVars>>
     \/ part = "cpu" /\ CpuNext /\ UNCHANGED <<rateVars, batVars, hostVars, memVars, meterVars>>
     \/ part = "battery" /\ BatteryNext /\ UNCHANGED <<rateVars, cpuVars, hostVars, memVars, meterVars>>
     \/ part = "host" /\ HostNext /\ UNCHANGED <<rateVars, cpuVars, batVars, memVars, meterVars>>
     \/ part = "memory" /\ MemNext /\ UNCHANGED <<rateVars, cpuVars, batVars, hostVars, meterVars>>
     \/ part = "meters" /\ MetersNext /\ UNCHANGED <<rateVars, cpuVars, batVars, hostVars, memVars>>

MCSpec == MCInit /\ [][MCNext]_mcVars
=============================================================================
