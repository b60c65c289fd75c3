------------------------------- MODULE Rates -------------------------------
(***************************************************************************)
(* The meters that show a rate: of a network interface (Eth0, Eth1, Wlan0) *)
(* and of a block device.  Each keeps what a counter of the kernel was at  *)
(* the last reading and when that was, and shows the difference of the     *)
(* counters over that of the times.  A meter is read when the header is    *)
(* drawn, which is at a scan and after each edit in the setup screen.  The *)
(* I/O rates of a process (LinuxProcessList_readIoFile) are kept the same  *)
(* way in the process.                                                     *)
(*                                                                         *)
(* Both directions of a counter are treated alike; there is one here.      *)
(***************************************************************************)
EXTENDS Integers, FiniteSets

CONSTANTS
  Nets, Disks, Tasks,   \* the meters, and the processes, that may be looked at
  Width,                \* of an unsigned long long
  MaxEvents             \* bound: steps of the environment, divided by the meters

Meters == Nets \cup Disks \cup Tasks

NetNames == {"eth0", "eth1", "wlan0"}
DiskNames == {"sda", "sdb", "sdc", "sdd", "mmcblk0", "mmcblk1", "mmcblk2", "mmcblk3"}

ASSUME RatesAssumption ==
  /\ Nets \subseteq NetNames /\ Disks \subseteq DiskNames
  /\ Tasks \cap (NetNames \cup DiskNames) = {} /\ IsFiniteSet(Tasks)
  /\ MaxEvents \in Nat /\ Width \in Nat /\ MaxEvents + 2 < Width

VARIABLES
  header,   \* the meters that are read
  alias,    \* the device that each of them reads
  device,   \* the devices: a counter, and whether it can be read; history: all that
            \* was ever transferred, and how often the counter began anew
  clock,    \* the wall clock
  events,
  stats,    \* what a meter keeps in Platform.c: rx_bytes, rx_bytes_comp and a FILE
  static,   \* what it keeps in its own function: old and sec_size
  shown,    \* an amount and a delay, whose quotient is the rate, or that there is none
  hist      \* history: the sum of the amounts shown, and of the last reading and the
            \* one before when it was, what was there, and whether it yielded something

rateVars == <<header, alias, device, clock, events, stats, static, shown, hist>>

NoFile == [of |-> "none", epoch |-> 0]
NoRate == [is |-> FALSE, amount |-> 0, delay |-> 0]
Never  == [ok |-> FALSE, total |-> 0, epoch |-> 0, clock |-> 0]

RatesInit ==
  /\ header \in SUBSET Meters
  /\ alias \in {[m \in Meters |-> m]}
       \cup {[m \in Meters |-> IF m \in Nets THEN n ELSE m] : n \in Nets}
  /\ device = [m \in Meters |-> [count |-> 0, there |-> TRUE, total |-> 0, epoch |-> 0]]
  /\ clock = 1 /\ events = 0
  /\ stats = [m \in Meters |-> [bytes |-> 0, comp |-> 0, fp |-> NoFile]]
  /\ static = [m \in Meters |-> [old |-> 0, secSize |-> FALSE]]
  /\ shown = [m \in Meters |-> NoRate]
  /\ hist = [m \in Meters |-> [sum |-> 0, last |-> Never, before |-> Never]]
-----------------------------------------------------------------------------
(* Environment: the devices, and the clock.                                *)

Event ==
  /\ events < MaxEvents \div Cardinality(header)
  /\ events' = events + 1
  /\ UNCHANGED <<header, alias, stats, static, shown, hist>>

Watched == {alias[m] : m \in header}

OneMore(d) == [count |-> d.count + 1, there |-> TRUE, total |-> d.total + 1, epoch |-> d.epoch]
Anew(d) == [count |-> 0, there |-> TRUE, total |-> d.total, epoch |-> d.epoch + 1]

Transfer ==
  /\ Event
  /\ \E d \in Watched :
       /\ device[d].there
       /\ device' = [device EXCEPT ![d] = OneMore(@)]
  /\ UNCHANGED clock

Disappear ==
  /\ Event
  /\ \E d \in Watched : device[d].there /\ device' = [device EXCEPT ![d].there = FALSE]
  /\ UNCHANGED clock

\* An interface may come back with its counter, and a process be readable again; a
\* disk that is plugged in, and a process that got the pid of another, begin at 0.
Appear ==
  /\ Event
  /\ \E d \in Watched :
       /\ ~device[d].there
       /\ \/ device' = [device EXCEPT ![d] = Anew(@)]
          \/ d \notin Disks /\ device' = [device EXCEPT ![d].there = TRUE]
  /\ UNCHANGED clock

Tick    == Event /\ clock' = clock + 1 /\ UNCHANGED device
SetBack == Event /\ clock' \in 1 .. clock - 1 /\ UNCHANGED device
-----------------------------------------------------------------------------
(* A reading. *)

Delay(m) == IF static[m].old = 0 THEN 1 ELSE clock - static[m].old

\* History: what the reading was made of, and what it shows.
Noted(m, ok, rate) ==
  LET d == device[alias[m]]
  IN  /\ shown' = [shown EXCEPT ![m] = rate]
      /\ hist' = [hist EXCEPT ![m] =
                    [sum |-> @.sum + rate.amount, before |-> @.last,
                     last |-> [ok |-> ok, total |-> d.total, epoch |-> d.epoch, clock |-> clock]]]

NothingRead(m) == Noted(m, FALSE, NoRate) /\ UNCHANGED stats

\* The end of each of the functions: the amount since the last time there was one.
Compare(m, got) ==
  LET s    == got[m]
      comp == IF s.comp > s.bytes THEN 0 ELSE s.comp
  IN  /\ stats' = [got EXCEPT ![m].comp = s.bytes]
      /\ Noted(m, TRUE, [is |-> TRUE, amount |-> s.bytes - comp, delay |-> Delay(m)])

\* Platform_getEth_stats: which of the counters an id stands for.
EthStats(id) == IF id = 0 THEN "eth0" ELSE IF id = 1 THEN "eth1" ELSE "wlan0"

\* Defect: what there is to compare with is lost with the interface.
ReadNetForget(m, id) ==
  LET d == device[alias[m]]
  IN  /\ m \in header
      /\ IF d.there THEN Compare(m, [stats EXCEPT ![EthStats(id)].bytes = d.count])
         ELSE Noted(m, FALSE, NoRate) /\ stats' = [stats EXCEPT ![m].comp = 0]
      /\ static' = [static EXCEPT ![m].old = clock]
      /\ UNCHANGED <<header, alias, device, clock, events>>

\* The time of the reading is kept in any case.
ReadNet(m, id) ==
  LET d == device[alias[m]]
  IN  /\ m \in header
      /\ IF d.there THEN Compare(m, [stats EXCEPT ![EthStats(id)].bytes = d.count])
         ELSE NothingRead(m)
      /\ static' = [static EXCEPT ![m].old = clock]
      /\ UNCHANGED <<header, alias, device, clock, events>>

\* Defect: one of the meters was copied with the id of another.
Wlan0WithIdOfEth0 == ReadNet("wlan0", 0)

Eth0_StatsMeter_setValues  == ReadNet("eth0", 0)
Eth1_StatsMeter_setValues  == ReadNet("eth1", 1)
Wlan0_StatsMeter_setValues == ReadNet("wlan0", 2)

\* Platform_getIO_stats: which counters and which FILE an index stands for.
IoStats(idx) == CASE idx = 1 -> "sdb" [] idx = 2 -> "sdc" [] idx = 3 -> "sdd"
                  [] idx = 4 -> "mmcblk0" [] idx = 5 -> "mmcblk1"
                  [] idx = 6 -> "mmcblk2" [] idx = 7 -> "mmcblk3" [] OTHER -> "sda"

\* The FILE is opened once and kept, and outlives its device: a disk that is plugged
\* in again is another one, and the FILE yields nothing any more.
File(m, idx) ==
  IF stats[IoStats(idx)].fp # NoFile \/ ~device[m].there THEN stats[IoStats(idx)].fp
  ELSE [of |-> m, epoch |-> device[m].epoch]

Yields(fp) == fp # NoFile /\ device[fp.of].there /\ device[fp.of].epoch = fp.epoch

ReadDisk(m, idx) ==
  LET fp  == File(m, idx)
      got == [stats EXCEPT ![IoStats(idx)].fp = fp]
  IN  /\ m \in header
      /\ IF ~static[m].secSize /\ ~device[m].there
         THEN NothingRead(m) /\ UNCHANGED static
         ELSE /\ static' = [static EXCEPT ![m] = [old |-> clock, secSize |-> TRUE]]
              /\ IF Yields(fp)
                 THEN Compare(m, [got EXCEPT ![IoStats(idx)].bytes = device[fp.of].count])
                 ELSE Noted(m, FALSE, NoRate) /\ stats' = got
      /\ UNCHANGED <<header, alias, device, clock, events>>

BlockDevice_sda_ioStatsMeter_setValues     == ReadDisk("sda", 0)
BlockDevice_sdb_ioStatsMeter_setValues     == ReadDisk("sdb", 1)
BlockDevice_sdc_ioStatsMeter_setValues     == ReadDisk("sdc", 2)
BlockDevice_sdd_ioStatsMeter_setValues     == ReadDisk("sdd", 3)
BlockDevice_mmcblk0_ioStatsMeter_setValues == ReadDisk("mmcblk0", 4)
BlockDevice_mmcblk1_ioStatsMeter_setValues == ReadDisk("mmcblk1", 5)
BlockDevice_mmcblk2_ioStatsMeter_setValues == ReadDisk("mmcblk2", 6)
BlockDevice_mmcblk3_ioStatsMeter_setValues == ReadDisk("mmcblk3", 7)

(* LinuxProcessList_readIoFile: all fields are unsigned; what cannot be    *)
(* opened is -1 there, its time too; a file that was opened and yields     *)
(* nothing leaves all as it was, also the rate that is shown.              *)
ReadIoFile(t) ==
  LET d    == device[t]
      rate == [is |-> TRUE, amount |-> (d.count - stats[t].comp) % Width,
               delay |-> (clock - static[t].old) % Width]
  IN  /\ t \in header
      /\ \/ /\ d.there
            /\ stats' = [stats EXCEPT ![t].comp = d.count]
            /\ static' = [static EXCEPT ![t].old = clock]
            /\ Noted(t, TRUE, rate)
         \/ /\ ~d.there
            /\ stats' = [stats EXCEPT ![t].comp = Width - 1]
            /\ static' = [static EXCEPT ![t].old = Width - 1]
            /\ Noted(t, FALSE, NoRate)
         \/ UNCHANGED <<stats, static, shown, hist>>
      /\ UNCHANGED <<header, alias, device, clock, events>>
-----------------------------------------------------------------------------
RatesNext ==
  \/ Transfer \/ Disappear \/ Appear \/ Tick \/ SetBack
  \/ Eth0_StatsMeter_setValues \/ Eth1_StatsMeter_setValues \/ Wlan0_StatsMeter_setValues
  \/ BlockDevice_sda_ioStatsMeter_setValues \/ BlockDevice_sdb_ioStatsMeter_setValues
  \/ BlockDevice_sdc_ioStatsMeter_setValues \/ BlockDevice_sdd_ioStatsMeter_setValues
  \/ BlockDevice_mmcblk0_ioStatsMeter_setValues \/ BlockDevice_mmcblk1_ioStatsMeter_setValues
  \/ BlockDevice_mmcblk2_ioStatsMeter_setValues \/ BlockDevice_mmcblk3_ioStatsMeter_setValues
  \/ \E t \in Tasks : ReadIoFile(t)

RatesSpec == RatesInit /\ [][RatesNext]_rateVars
-----------------------------------------------------------------------------
(* What must hold. *)

\* If two readings in a row succeeded, with no new counter in between, the rate that
\* is shown is what was transferred from one to the other over the time between
\* them, whichever meters are read beside it and whatever names they have for their
\* interfaces.  All that the meter of an interface or a disk has ever shown was
\* transferred, and each unit is shown at most once, also when counters begin anew;
\* none is negative.  As long as the counter has not begun anew a reading leaves
\* nothing out, however many before it failed.
RateIsTrue ==
  \A m \in header :
    LET now == hist[m].last  old == hist[m].before
    IN  /\ now.ok /\ old.ok /\ now.epoch = old.epoch /\ now.clock >= old.clock
             => shown[m] = [is |-> TRUE, amount |-> now.total - old.total,
                            delay |-> now.clock - old.clock]
        /\ m \notin Tasks =>
             /\ shown[m].amount >= 0 /\ hist[m].sum <= device[alias[m]].total
             /\ now.ok /\ now.epoch = 0 => hist[m].sum = now.total
=============================================================================
