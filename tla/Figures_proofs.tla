--------------------------- MODULE Figures_proofs ---------------------------
(***************************************************************************)
(* For any meters, processes, counters, processors, batteries, pages and   *)
(* swap devices, and in any order of what happens to them and when they    *)
(* are read: what the header shows is what there was; and whatever values  *)
(* and widths a meter is drawn with, it shows them.  The modules share     *)
(* nothing, and neither do the parts of this one.                          *)
(***************************************************************************)
EXTENDS Rates, Battery, CpuTimes, Memory, MeterModes, Loops_proofs, FiniteSetTheorems

LEMMA MinFacts ==
  ASSUME NEW S \in SUBSET Nat, S # {}
  PROVE  Min(S) \in S
BY LeastNat DEF Min

-----------------------------------------------------------------------------
(* Rates.                                                                  *)

DeviceType == [count : Nat, there : BOOLEAN, total : Nat, epoch : Nat]
FileType == [of : Disks \cup {"none"}, epoch : Nat]
StatsType == [bytes : Nat, comp : Nat, fp : FileType]
StaticType == [old : Nat, secSize : BOOLEAN]
RateType == [is : BOOLEAN, amount : Int, delay : Int]
ReadingType == [ok : BOOLEAN, total : Nat, epoch : Nat, clock : Nat]
HistType == [sum : Int, last : ReadingType, before : ReadingType]

RateTypes ==
  /\ header \subseteq Meters
  /\ alias \in [Meters -> Meters] /\ \A m \in Meters \ Nets : alias[m] = m
  /\ device \in [Meters -> DeviceType]
  /\ events \in Nat /\ (header # {} => events <= MaxEvents)
  /\ clock \in 1 .. events + 1
  /\ stats \in [Meters -> StatsType]
  /\ static \in [Meters -> StaticType]
  /\ shown \in [Meters -> RateType]
  /\ hist \in [Meters -> HistType]

(* A device: it lost part of what it counted only if it began anew. *)
Counts(d) ==
  /\ d.count <= d.total /\ d.total <= events
  /\ d.epoch = 0 => d.count = d.total

(* What a meter keeps for the next reading, s and t, is that of the last one *)
(* that succeeded, if the counter of its device d has not begun anew since. *)
Keeps(d, s, t, last) ==
  last.ok =>
    /\ last.total <= d.total /\ last.epoch <= d.epoch
    /\ t.old = last.clock /\ last.clock \in 1 .. events + 1
    /\ last.epoch = d.epoch => last.total - s.comp = d.total - d.count

(* All that was shown was transferred before the counter began, or up to    *)
(* what is kept.                                                           *)
ShowsOnce(d, s, h) ==
  /\ \/ h.sum <= d.total - d.count
     \/ s.comp <= d.count /\ h.sum <= d.total - d.count + s.comp
  /\ d.epoch = 0 => h.sum = s.comp /\ s.comp <= d.count
  /\ h.last.ok /\ h.last.epoch = 0 => h.sum = h.last.total

(* What is shown is made of the last two readings. *)
IsDifference(rate, h) ==
  h.last.ok /\ h.before.ok /\ h.last.epoch = h.before.epoch /\ h.last.clock >= h.before.clock
    => rate = [is |-> TRUE, amount |-> h.last.total - h.before.total,
               delay |-> h.last.clock - h.before.clock]

MeterFits(m) ==
  /\ Counts(device[m])
  /\ Keeps(device[alias[m]], stats[m], static[m], hist[m].last)
  /\ IsDifference(shown[m], hist[m])
  /\ m \notin Tasks => ShowsOnce(device[alias[m]], stats[m], hist[m]) /\ shown[m].amount >= 0
  /\ m \in Disks => stats[m].fp = NoFile \/ stats[m].fp.of = m

RateInv == RateTypes /\ \A m \in Meters : MeterFits(m)

LEMMA RateInvImplies == RateInv => RateIsTrue
<1> SUFFICES ASSUME RateInv, NEW m \in header
             PROVE  LET now == hist[m].last  old == hist[m].before
                    IN  /\ now.ok /\ old.ok /\ now.epoch = old.epoch /\ now.clock >= old.clock
                             => shown[m] = [is |-> TRUE, amount |-> now.total - old.total,
                                            delay |-> now.clock - old.clock]
                        /\ m \notin Tasks =>
                             /\ shown[m].amount >= 0 /\ hist[m].sum <= device[alias[m]].total
                             /\ now.ok /\ now.epoch = 0 => hist[m].sum = now.total
  BY DEF RateIsTrue
<1>1. m \in Meters /\ MeterFits(m)
  BY DEF RateInv, RateTypes
<1>2. device[alias[m]] \in DeviceType /\ stats[m] \in StatsType /\ hist[m] \in HistType
  BY <1>1 DEF RateInv, RateTypes
<1>3. Counts(device[alias[m]])
  BY <1>1 DEF RateInv, RateTypes, MeterFits
<1>4. ShowsOnce(device[alias[m]], stats[m], hist[m]) => hist[m].sum <= device[alias[m]].total
  BY <1>2, <1>3 DEF ShowsOnce, Counts, DeviceType, StatsType, HistType
<1>5. ShowsOnce(device[alias[m]], stats[m], hist[m])
        => (hist[m].last.ok /\ hist[m].last.epoch = 0 => hist[m].sum = hist[m].last.total)
  BY DEF ShowsOnce
<1> QED
  BY <1>1, <1>4, <1>5 DEF MeterFits, IsDifference

LEMMA RatesInitInv == RatesInit => RateInv
<1> SUFFICES ASSUME RatesInit
             PROVE  RateInv
  OBVIOUS
<1>1. RateTypes
  <2>1. header \subseteq Meters
    BY DEF RatesInit
  <2>2. alias \in [Meters -> Meters] /\ \A m \in Meters \ Nets : alias[m] = m
    BY DEF RatesInit, Meters
  <2>3. device \in [Meters -> DeviceType]
    BY DEF RatesInit, DeviceType
  <2>4. events \in Nat /\ (header # {} => events <= MaxEvents) /\ clock \in 1 .. events + 1
    BY RatesAssumption DEF RatesInit
  <2>5. NoFile \in FileType
    BY DEF NoFile, FileType
  <2>6. stats \in [Meters -> StatsType]
    BY <2>5 DEF RatesInit, StatsType
  <2>7. static \in [Meters -> StaticType] /\ shown \in [Meters -> RateType]
    BY DEF RatesInit, StaticType, RateType, NoRate
  <2>8. Never \in ReadingType /\ ~Never.ok
    BY DEF Never, ReadingType
  <2>9. hist \in [Meters -> HistType]
    BY <2>8 DEF RatesInit, HistType
  <2> QED
    BY <2>1, <2>2, <2>3, <2>4, <2>6, <2>7, <2>9 DEF RateTypes
<1>2. ASSUME NEW m \in Meters
      PROVE  MeterFits(m)
  <2>1. alias[m] \in Meters
    BY <1>1 DEF RateTypes
  <2>2. /\ device[m] = [count |-> 0, there |-> TRUE, total |-> 0, epoch |-> 0]
        /\ device[alias[m]] = [count |-> 0, there |-> TRUE, total |-> 0, epoch |-> 0]
    BY <2>1 DEF RatesInit
  <2>3. stats[m] = [bytes |-> 0, comp |-> 0, fp |-> NoFile] /\ shown[m] = NoRate
        /\ hist[m] = [sum |-> 0, last |-> Never, before |-> Never] /\ events = 0
    BY DEF RatesInit
  <2>4. ~hist[m].last.ok
    BY <2>3 DEF Never
  <2>5. Counts(device[m])
    BY <2>2, <2>3 DEF Counts
  <2>6. Keeps(device[alias[m]], stats[m], static[m], hist[m].last) /\ IsDifference(shown[m], hist[m])
    BY <2>4 DEF Keeps, IsDifference
  <2>7. ShowsOnce(device[alias[m]], stats[m], hist[m]) /\ shown[m].amount >= 0
    BY <2>2, <2>3, <2>4 DEF ShowsOnce, NoRate
  <2> QED
    BY <2>3, <2>5, <2>6, <2>7 DEF MeterFits
<1> QED
  BY <1>1, <1>2 DEF RateInv

(* What may happen to a device: it counts one more, or nothing, or begins   *)
(* anew.                                                                   *)
Grows(d, e) ==
  \/ e.count = d.count + 1 /\ e.total = d.total + 1 /\ e.epoch = d.epoch
  \/ e.count = d.count /\ e.total = d.total /\ e.epoch = d.epoch
  \/ e.count = 0 /\ e.total = d.total /\ e.epoch = d.epoch + 1

LEMMA GrowsFits ==
  ASSUME NEW d \in DeviceType, NEW e \in DeviceType, Grows(d, e),
         NEW s \in StatsType, NEW t \in StaticType, NEW h \in HistType,
         events \in Nat, events' = events + 1, Counts(d)
  PROVE  /\ e.count <= e.total /\ e.total <= events' /\ (e.epoch = 0 => e.count = e.total)
         /\ Keeps(d, s, t, h.last) /\ h.last.ok =>
              /\ h.last.total <= e.total /\ h.last.epoch <= e.epoch
              /\ t.old = h.last.clock /\ h.last.clock \in 1 .. events' + 1
              /\ h.last.epoch = e.epoch => h.last.total - s.comp = e.total - e.count
         /\ ShowsOnce(d, s, h) => ShowsOnce(e, s, h)
<1>1. /\ d.count \in Nat /\ d.total \in Nat /\ d.epoch \in Nat
      /\ e.count \in Nat /\ e.total \in Nat /\ e.epoch \in Nat
      /\ s.comp \in Nat /\ h.sum \in Int /\ h.last \in ReadingType
  BY DEF DeviceType, StatsType, HistType
<1>2. h.last.total \in Nat /\ h.last.epoch \in Nat /\ h.last.clock \in Nat
  BY <1>1 DEF ReadingType
<1>3. e.count <= e.total /\ e.total <= events' /\ (e.epoch = 0 => e.count = e.total)
  BY <1>1 DEF Grows, Counts
<1>4. ASSUME Keeps(d, s, t, h.last), h.last.ok
      PROVE  /\ h.last.total <= e.total /\ h.last.epoch <= e.epoch
             /\ t.old = h.last.clock /\ h.last.clock \in 1 .. events' + 1
             /\ h.last.epoch = e.epoch => h.last.total - s.comp = e.total - e.count
  BY <1>1, <1>2, <1>4 DEF Grows, Keeps
<1>5. ASSUME ShowsOnce(d, s, h)
      PROVE  ShowsOnce(e, s, h)
  BY <1>1, <1>5 DEF Grows, ShowsOnce, Counts
<1> QED
  BY <1>3, <1>4, <1>5

LEMMA EventBound == ASSUME RateInv, Event PROVE header # {} => events + 1 <= MaxEvents
<1> SUFFICES ASSUME header # {}
             PROVE  events + 1 <= MaxEvents
  OBVIOUS
<1>1. IsFiniteSet(Nets) /\ IsFiniteSet(Disks)
  <2>1. /\ IsFiniteSet({"eth0"} \cup {"eth1"} \cup {"wlan0"})
        /\ IsFiniteSet({"sda"} \cup {"sdb"} \cup {"sdc"} \cup {"sdd"} \cup {"mmcblk0"}
                         \cup {"mmcblk1"} \cup {"mmcblk2"} \cup {"mmcblk3"})
    BY FS_Singleton, FS_Union, Zenon
  <2>2. /\ Nets \in SUBSET ({"eth0"} \cup {"eth1"} \cup {"wlan0"})
        /\ Disks \in SUBSET ({"sda"} \cup {"sdb"} \cup {"sdc"} \cup {"sdd"} \cup {"mmcblk0"}
                              \cup {"mmcblk1"} \cup {"mmcblk2"} \cup {"mmcblk3"})
    BY RatesAssumption DEF NetNames, DiskNames
  <2> QED
    BY <2>1, <2>2, FS_Subset, Zenon
<1>2. IsFiniteSet(Meters)
  BY <1>1, FS_Union, RatesAssumption DEF Meters
<1>3. IsFiniteSet(header)
  BY <1>2, FS_Subset DEF RateInv, RateTypes
<1>4. Cardinality(header) \in Nat \ {0}
  BY <1>3, FS_CardinalityType, FS_EmptySet
<1>5. \A n \in Nat \ {0}, k \in Nat : k \div n <= k /\ k \div n \in Nat
  OBVIOUS
<1>6. events < MaxEvents \div Cardinality(header) /\ events \in Nat /\ MaxEvents \in Nat
  BY RatesAssumption DEF Event, RateInv, RateTypes
<1> QED
  BY <1>4, <1>5, <1>6

LEMMA EventKeeps ==
  ASSUME RateInv, Event, device' \in [Meters -> DeviceType],
         \A k \in Meters : Grows(device[k], (device')[k]),
         clock' \in 1 .. events + 2
  PROVE  RateInv'
<1>1. /\ header' = header /\ alias' = alias /\ stats' = stats /\ static' = static
      /\ shown' = shown /\ hist' = hist /\ events' = events + 1
  BY DEF Event
<1>2. RateTypes'
  BY <1>1, EventBound DEF RateInv, RateTypes
<1>3. ASSUME NEW m \in Meters
      PROVE  MeterFits(m)'
  <2> DEFINE d == device[alias[m]]
             e == (device')[alias[m]]
  <2>1. /\ device[m] \in DeviceType /\ (device')[m] \in DeviceType
        /\ d \in DeviceType /\ e \in DeviceType /\ Grows(device[m], (device')[m]) /\ Grows(d, e)
        /\ stats[m] \in StatsType /\ static[m] \in StaticType /\ hist[m] \in HistType
        /\ events \in Nat
    BY DEF RateInv, RateTypes
  <2>2. Counts(device[m]) /\ Counts(d)
    BY DEF RateInv, RateTypes, MeterFits
  <2>3. MeterFits(m)
    BY DEF RateInv
  <2>4. Counts(device[m])'
    BY <1>1, <2>1, <2>2, GrowsFits DEF Counts
  <2>5. Keeps(device[alias[m]], stats[m], static[m], hist[m].last)'
    <3>1. Keeps(d, stats[m], static[m], hist[m].last)
      BY <2>3 DEF MeterFits
    <3>2. hist[m].last.ok =>
            /\ hist[m].last.total <= e.total /\ hist[m].last.epoch <= e.epoch
            /\ static[m].old = hist[m].last.clock /\ hist[m].last.clock \in 1 .. events' + 1
            /\ hist[m].last.epoch = e.epoch => hist[m].last.total - stats[m].comp = e.total - e.count
      BY <1>1, <2>1, <2>2, <3>1, GrowsFits
    <3> QED
      BY <1>1, <3>2 DEF Keeps
  <2>6. m \notin Tasks => ShowsOnce(e, stats[m], hist[m])
    BY <1>1, <2>1, <2>2, <2>3, GrowsFits DEF MeterFits
  <2>7. m \notin Tasks => ShowsOnce(device[alias[m]], stats[m], hist[m])'
    BY <1>1, <2>6 DEF ShowsOnce
  <2> QED
    BY <1>1, <2>3, <2>4, <2>5, <2>7 DEF MeterFits, IsDifference
<1> QED
  BY <1>2, <1>3 DEF RateInv

LEMMA DeviceKeeps ==
  ASSUME RateInv, Event, NEW d \in Meters, NEW e \in DeviceType, Grows(device[d], e),
         device' = [device EXCEPT ![d] = e], clock' = clock
  PROVE  RateInv'
<1>1. device \in [Meters -> DeviceType] /\ clock \in 1 .. events + 1 /\ events \in Nat
  BY DEF RateInv, RateTypes
<1>2. \A k \in Meters : Grows(device[k], device[k])
  BY DEF Grows
<1>3. device' \in [Meters -> DeviceType] /\ \A k \in Meters : Grows(device[k], (device')[k])
  BY <1>1, <1>2
<1>4. clock' \in 1 .. events + 2
  BY <1>1
<1> QED
  BY <1>3, <1>4, EventKeeps

LEMMA EnvironmentKeeps ==
  ASSUME RateInv, Transfer \/ Disappear \/ Appear \/ Tick \/ SetBack
  PROVE  RateInv'
<1>1. device \in [Meters -> DeviceType] /\ clock \in 1 .. events + 1 /\ events \in Nat
      /\ \A d \in Watched : d \in Meters
  BY DEF RateInv, RateTypes, Watched
<1>2. CASE Transfer
  <2>1. PICK d \in Watched : device' = [device EXCEPT ![d] = OneMore(@)]
    BY <1>2, Zenon DEF Transfer
  <2> DEFINE e == OneMore(device[d])
  <2>2. d \in Meters /\ device[d] \in DeviceType
    BY <1>1
  <2>3. e \in DeviceType /\ Grows(device[d], e)
    BY <2>2 DEF DeviceType, Grows, OneMore
  <2>4. device' = [device EXCEPT ![d] = e]
    BY <2>1, Zenon
  <2>5. Event /\ clock' = clock
    BY <1>2, Zenon DEF Transfer
  <2> HIDE DEF e
  <2> QED
    BY <2>2, <2>3, <2>4, <2>5, DeviceKeeps
<1>3. CASE Disappear
  <2>1. PICK d \in Watched : device' = [device EXCEPT ![d].there = FALSE]
    BY <1>3, Zenon DEF Disappear
  <2> DEFINE e == [device[d] EXCEPT !.there = FALSE]
  <2>2. d \in Meters /\ device[d] \in DeviceType
    BY <1>1
  <2>3. e \in DeviceType /\ Grows(device[d], e)
    BY <2>2 DEF DeviceType, Grows
  <2>4. device' = [device EXCEPT ![d] = e]
    BY <2>1
  <2> HIDE DEF e
  <2> QED
    BY <1>3, <2>2, <2>3, <2>4, DeviceKeeps DEF Disappear
<1>4. CASE Appear
  <2>1. PICK d \in Watched :
          \/ device' = [device EXCEPT ![d] = Anew(@)]
          \/ device' = [device EXCEPT ![d].there = TRUE]
    BY <1>4, Zenon DEF Appear
  <2>2. d \in Meters /\ device[d] \in DeviceType
    BY <1>1
  <2>6. Event /\ clock' = clock
    BY <1>4, Zenon DEF Appear
  <2>3. CASE device' = [device EXCEPT ![d] = Anew(@)]
    <3> DEFINE e == Anew(device[d])
    <3>1. e \in DeviceType /\ Grows(device[d], e)
      BY <2>2 DEF DeviceType, Grows, Anew
    <3>2. device' = [device EXCEPT ![d] = e]
      BY <2>3, Zenon
    <3> HIDE DEF e
    <3> QED
      BY <2>2, <2>6, <3>1, <3>2, DeviceKeeps
  <2>4. CASE device' = [device EXCEPT ![d].there = TRUE]
    <3> DEFINE e == [device[d] EXCEPT !.there = TRUE]
    <3>1. e \in DeviceType /\ Grows(device[d], e)
      BY <2>2 DEF DeviceType, Grows
    <3>2. device' = [device EXCEPT ![d] = e]
      BY <2>4
    <3> HIDE DEF e
    <3> QED
      BY <2>2, <2>6, <3>1, <3>2, DeviceKeeps
  <2> QED
    BY <2>1, <2>3, <2>4
<1>5. CASE Tick \/ SetBack
  <2>1. \A k \in Meters : Grows(device[k], device[k])
    BY DEF Grows
  <2>2. device' = device /\ clock' \in 1 .. events + 2 /\ Event
    BY <1>1, <1>5 DEF Tick, SetBack
  <2> QED
    BY <1>1, <2>1, <2>2, EventKeeps
<1> QED
  BY <1>2, <1>3, <1>4, <1>5

(* A reading of the meter m concerns no other one. *)
LEMMA ReadKeeps ==
  ASSUME RateInv, NEW m \in Meters, UNCHANGED <<header, alias, device, clock, events>>,
         NEW s \in StatsType, stats' = [stats EXCEPT ![m] = s],
         NEW t \in StaticType, static' = [static EXCEPT ![m] = t],
         NEW r \in RateType, shown' = [shown EXCEPT ![m] = r],
         NEW h \in HistType, hist' = [hist EXCEPT ![m] = h],
         Keeps(device[alias[m]], s, t, h.last), IsDifference(r, h),
         m \notin Tasks => ShowsOnce(device[alias[m]], s, h) /\ r.amount >= 0,
         m \in Disks => s.fp = NoFile \/ s.fp.of = m
  PROVE  RateInv'
<1>1. RateTypes'
  BY DEF RateInv, RateTypes
<1>2. ASSUME NEW k \in Meters
      PROVE  MeterFits(k)'
  <2>1. MeterFits(k) /\ Counts(device[k])
    BY DEF RateInv, MeterFits
  <2>2. Counts(device[k])'
    BY <2>1 DEF Counts
  <2>3. CASE k = m
    <3>1. (stats')[k] = s /\ (static')[k] = t /\ (shown')[k] = r /\ (hist')[k] = h
      BY <2>3 DEF RateInv, RateTypes
    <3>2. Keeps(device[alias[k]], stats[k], static[k], hist[k].last)'
      BY <2>3, <3>1 DEF Keeps
    <3> QED
      BY <2>2, <2>3, <3>1, <3>2 DEF MeterFits, IsDifference, ShowsOnce
  <2>4. CASE k # m
    <3>1. (stats')[k] = stats[k] /\ (static')[k] = static[k]
          /\ (shown')[k] = shown[k] /\ (hist')[k] = hist[k]
      BY <2>4 DEF RateInv, RateTypes
    <3>2. Keeps(device[alias[k]], stats[k], static[k], hist[k].last)'
      BY <2>1, <3>1 DEF Keeps, MeterFits
    <3> QED
      BY <2>1, <2>2, <3>1, <3>2 DEF MeterFits, IsDifference, ShowsOnce
  <2> QED
    BY <2>3, <2>4
<1> QED
  BY <1>1, <1>2 DEF RateInv

(* What is noted of a reading. *)
NewHist(m, ok, rate) ==
  [sum |-> hist[m].sum + rate.amount, before |-> hist[m].last,
   last |-> [ok |-> ok, total |-> device[alias[m]].total, epoch |-> device[alias[m]].epoch,
             clock |-> clock]]

LEMMA NotedFacts ==
  ASSUME RateInv, NEW m \in Meters, NEW ok \in BOOLEAN, NEW rate \in RateType, Noted(m, ok, rate)
  PROVE  /\ shown' = [shown EXCEPT ![m] = rate]
         /\ hist' = [hist EXCEPT ![m] = NewHist(m, ok, rate)]
         /\ NewHist(m, ok, rate) \in HistType
<1>1. device[alias[m]] \in DeviceType /\ hist[m] \in HistType /\ clock \in Nat
  BY DEF RateInv, RateTypes
<1>2. NewHist(m, ok, rate) \in HistType
  BY <1>1 DEF NewHist, HistType, ReadingType, DeviceType, RateType
<1>3. hist' = [hist EXCEPT ![m] = NewHist(m, ok, rate)]
  BY Zenon DEF Noted, NewHist
<1> QED
  BY <1>2, <1>3, Zenon DEF Noted

(* A reading that yields nothing leaves all that was shown before as it is, *)
(* if the meter of an interface or a disk keeps what it has.               *)
LEMMA NothingFits ==
  ASSUME RateInv, NEW m \in Meters, NEW s \in StatsType, NEW t \in StaticType,
         m \notin Tasks => s.comp = stats[m].comp
  PROVE  /\ NoRate \in RateType
         /\ Keeps(device[alias[m]], s, t, NewHist(m, FALSE, NoRate).last)
         /\ IsDifference(NoRate, NewHist(m, FALSE, NoRate))
         /\ m \notin Tasks => /\ ShowsOnce(device[alias[m]], s, NewHist(m, FALSE, NoRate))
                              /\ NoRate.amount >= 0
<1> DEFINE h == NewHist(m, FALSE, NoRate)
<1>1. NoRate \in RateType /\ NoRate.amount = 0 /\ NoRate.amount >= 0
  BY DEF NoRate, RateType
<1>2. hist[m].sum \in Int
  BY DEF RateInv, RateTypes, HistType
<1>3. h.sum = hist[m].sum /\ ~h.last.ok
  BY <1>1, <1>2 DEF NewHist
<1>4. MeterFits(m)
  BY DEF RateInv
<1> HIDE DEF h
<1>5. Keeps(device[alias[m]], s, t, h.last) /\ IsDifference(NoRate, h)
  BY <1>3 DEF Keeps, IsDifference
<1>6. m \notin Tasks => ShowsOnce(device[alias[m]], s, h)
  BY <1>3, <1>4 DEF MeterFits, ShowsOnce
<1> QED
  BY <1>1, <1>5, <1>6, Zenon DEF h

(* A reading that succeeds shows what was counted since the last one. *)
LEMMA SomethingFits ==
  ASSUME RateInv, NEW m \in Meters, NEW s \in StatsType, NEW t \in StaticType, NEW r \in RateType,
         s.comp = device[alias[m]].count, t.old = clock,
         hist[m].last.ok /\ hist[m].last.epoch = device[alias[m]].epoch
             /\ clock >= hist[m].last.clock
           => r = [is |-> TRUE, amount |-> device[alias[m]].total - hist[m].last.total,
                   delay |-> clock - hist[m].last.clock],
         m \notin Tasks =>
           r.amount = device[alias[m]].count
                        - (IF stats[m].comp > device[alias[m]].count THEN 0 ELSE stats[m].comp)
  PROVE  /\ Keeps(device[alias[m]], s, t, NewHist(m, TRUE, r).last)
         /\ IsDifference(r, NewHist(m, TRUE, r))
         /\ m \notin Tasks => /\ ShowsOnce(device[alias[m]], s, NewHist(m, TRUE, r))
                              /\ r.amount >= 0
<1> DEFINE d == device[alias[m]]
           g == hist[m]
           h == NewHist(m, TRUE, r)
           c == stats[m].comp
<1>1. /\ d \in DeviceType /\ g \in HistType /\ c \in Nat /\ clock \in 1 .. events + 1 /\ events \in Nat
      /\ MeterFits(m) /\ Counts(d)
  BY DEF RateInv, RateTypes, MeterFits, StatsType
<1>2. /\ d.count \in Nat /\ d.total \in Nat /\ d.epoch \in Nat /\ g.sum \in Int
      /\ s.comp \in Nat /\ r.amount \in Int
  BY <1>1 DEF DeviceType, HistType, StatsType, RateType
<1>3. /\ h.sum = g.sum + r.amount /\ h.before = g.last /\ h.last.ok
      /\ h.last.total = d.total /\ h.last.epoch = d.epoch /\ h.last.clock = clock
  BY DEF NewHist
<1>4. /\ s.comp = d.count
      /\ m \notin Tasks => r.amount = d.count - (IF c > d.count THEN 0 ELSE c)
      /\ m \notin Tasks => ShowsOnce(d, stats[m], g)
  BY <1>1 DEF MeterFits
<1>5. IsDifference(r, h)
  BY <1>3 DEF IsDifference
<1> HIDE DEF h, d, g
<1>6. Keeps(d, s, t, h.last)
  BY <1>1, <1>2, <1>3, <1>4 DEF Keeps
<1>7. ASSUME m \notin Tasks
      PROVE  ShowsOnce(d, s, h) /\ r.amount >= 0
  <2>1. /\ g.sum <= d.total - d.count \/ (c <= d.count /\ g.sum <= d.total - d.count + c)
        /\ d.epoch = 0 => g.sum = c /\ c <= d.count
    BY <1>4, <1>7 DEF ShowsOnce
  <2>2. r.amount = d.count - (IF c > d.count THEN 0 ELSE c)
    BY <1>4, <1>7
  <2>3. d.epoch = 0 => d.count = d.total
    BY <1>1 DEF Counts
  <2> HIDE DEF c
  <2>4. h.sum <= d.total /\ (d.epoch = 0 => h.sum = d.count) /\ r.amount >= 0
    BY <1>1, <1>2, <1>3, <2>1, <2>2, <2>3
  <2> QED
    BY <1>2, <1>3, <1>4, <2>3, <2>4 DEF ShowsOnce
<1> QED
  BY <1>5, <1>6, <1>7 DEF d, h

LEMMA NamesDiffer == Nets \cap Disks = {} /\ (Nets \cup Disks) \cap Tasks = {} /\ "none" \notin Disks
BY RatesAssumption DEF NetNames, DiskNames

(* What a comparison leaves, when n was read and fp is the FILE. *)
LEMMA Compared ==
  ASSUME RateInv, NEW m \in Meters, NEW got \in [Meters -> StatsType],
         \A k \in Meters \ {m} : got[k] = stats[k],
         got[m].bytes = device[alias[m]].count, got[m].comp = stats[m].comp,
         Compare(m, got)
  PROVE  \E s \in StatsType, r \in RateType :
           /\ s.comp = device[alias[m]].count /\ s.fp = got[m].fp
           /\ stats' = [stats EXCEPT ![m] = s]
           /\ r = [is |-> TRUE, delay |-> Delay(m),
                   amount |-> device[alias[m]].count
                        - (IF stats[m].comp > device[alias[m]].count THEN 0 ELSE stats[m].comp)]
           /\ Noted(m, TRUE, r)
<1> DEFINE n == device[alias[m]].count
           c == stats[m].comp
           s == [bytes |-> n, comp |-> n, fp |-> got[m].fp]
           r == [is |-> TRUE, amount |-> n - (IF c > n THEN 0 ELSE c), delay |-> Delay(m)]
<1>1. /\ n \in Nat /\ c \in Nat /\ clock \in Int /\ static[m].old \in Int /\ stats \in [Meters -> StatsType]
  BY DEF RateInv, RateTypes, DeviceType, StatsType, StaticType
<1>2. s \in StatsType
  BY <1>1 DEF StatsType
<1>3. Delay(m) \in Int
  BY <1>1 DEF Delay
<1>4. r \in RateType
  BY <1>1, <1>3 DEF RateType
<1>5. stats' = [got EXCEPT ![m].comp = n]
  BY Zenon DEF Compare
<1>6. stats' = [stats EXCEPT ![m] = s]
  <2>1. [got[m] EXCEPT !.comp = n] = s
    BY DEF StatsType
  <2>2. stats' = [got EXCEPT ![m] = s]
    BY <1>5, <2>1
  <2> HIDE DEF s
  <2> QED
    BY <1>1, <2>2
<1>7. Noted(m, TRUE, r)
  <2>1. LET b == got[m].bytes
            comp == IF got[m].comp > got[m].bytes THEN 0 ELSE got[m].comp
        IN  Noted(m, TRUE, [is |-> TRUE, amount |-> b - comp, delay |-> Delay(m)])
    BY Zenon DEF Compare
  <2>2. got[m].bytes - (IF got[m].comp > got[m].bytes THEN 0 ELSE got[m].comp)
          = n - (IF c > n THEN 0 ELSE c)
    BY <1>1
  <2> QED
    BY <2>1, <2>2, Zenon
<1> QED
  BY <1>2, <1>4, <1>6, <1>7

(* The time since a reading that succeeded. *)
LEMMA DelayFacts ==
  ASSUME RateInv, NEW m \in Meters, hist[m].last.ok
  PROVE  Delay(m) = clock - hist[m].last.clock
<1>1. static[m].old = hist[m].last.clock /\ hist[m].last.clock \in 1 .. events + 1 /\ events \in Nat
  BY DEF RateInv, RateTypes, MeterFits, Keeps
<1> QED
  BY <1>1 DEF Delay

(* A reading of the meter of an interface or a disk that yields nothing. *)
LEMMA NothingKeeps ==
  ASSUME RateInv, NEW m \in Meters \ Tasks, UNCHANGED <<header, alias, device, clock, events>>,
         NEW s \in StatsType, s.comp = stats[m].comp, stats' = [stats EXCEPT ![m] = s],
         m \in Disks => s.fp = NoFile \/ s.fp.of = m,
         NEW t \in StaticType, static' = [static EXCEPT ![m] = t],
         Noted(m, FALSE, NoRate)
  PROVE  RateInv'
<1>1. /\ NoRate \in RateType
      /\ Keeps(device[alias[m]], s, t, NewHist(m, FALSE, NoRate).last)
      /\ IsDifference(NoRate, NewHist(m, FALSE, NoRate))
      /\ ShowsOnce(device[alias[m]], s, NewHist(m, FALSE, NoRate)) /\ NoRate.amount >= 0
  BY NothingFits
<1>2. /\ shown' = [shown EXCEPT ![m] = NoRate]
      /\ hist' = [hist EXCEPT ![m] = NewHist(m, FALSE, NoRate)]
      /\ NewHist(m, FALSE, NoRate) \in HistType
  BY <1>1, NotedFacts
<1> QED
  BY <1>1, <1>2, ReadKeeps

(* The same of one that succeeds. *)
LEMMA SomethingKeeps ==
  ASSUME RateInv, NEW m \in Meters \ Tasks, UNCHANGED <<header, alias, device, clock, events>>,
         NEW got \in [Meters -> StatsType], \A k \in Meters \ {m} : got[k] = stats[k],
         got[m].bytes = device[alias[m]].count, got[m].comp = stats[m].comp,
         m \in Disks => got[m].fp = NoFile \/ got[m].fp.of = m,
         NEW t \in StaticType, t.old = clock, static' = [static EXCEPT ![m] = t],
         Compare(m, got)
  PROVE  RateInv'
<1> DEFINE d == device[alias[m]]
<1>1. /\ stats[m] \in StatsType /\ d \in DeviceType /\ hist[m] \in HistType
  BY DEF RateInv, RateTypes
<1>2. PICK s \in StatsType, r \in RateType :
        /\ s.comp = d.count /\ s.fp = got[m].fp /\ stats' = [stats EXCEPT ![m] = s]
        /\ r = [is |-> TRUE, delay |-> Delay(m),
                amount |-> d.count - (IF stats[m].comp > d.count THEN 0 ELSE stats[m].comp)]
        /\ Noted(m, TRUE, r)
  BY Compared
<1>3. r.amount = d.count - (IF stats[m].comp > d.count THEN 0 ELSE stats[m].comp)
  BY <1>2
<1>4. ASSUME hist[m].last.ok, hist[m].last.epoch = d.epoch, clock >= hist[m].last.clock
      PROVE  r = [is |-> TRUE, amount |-> d.total - hist[m].last.total,
                  delay |-> clock - hist[m].last.clock]
  <2>1. Delay(m) = clock - hist[m].last.clock
    BY <1>4, DelayFacts
  <2>2. /\ hist[m].last.total - stats[m].comp = d.total - d.count /\ hist[m].last.total <= d.total
        /\ hist[m].last.total \in Nat /\ d.total \in Nat /\ d.count \in Nat /\ stats[m].comp \in Nat
    BY <1>1, <1>4 DEF RateInv, MeterFits, Keeps, HistType, ReadingType, DeviceType, StatsType
  <2>3. d.count - (IF stats[m].comp > d.count THEN 0 ELSE stats[m].comp) = d.total - hist[m].last.total
    BY <2>2
  <2> QED
    BY <1>2, <2>1, <2>3, Zenon
<1>5. /\ Keeps(d, s, t, NewHist(m, TRUE, r).last)
      /\ IsDifference(r, NewHist(m, TRUE, r))
      /\ ShowsOnce(d, s, NewHist(m, TRUE, r)) /\ r.amount >= 0
  BY <1>2, <1>3, <1>4, SomethingFits
<1>6. /\ shown' = [shown EXCEPT ![m] = r]
      /\ hist' = [hist EXCEPT ![m] = NewHist(m, TRUE, r)]
      /\ NewHist(m, TRUE, r) \in HistType
  BY <1>2, NotedFacts
<1> QED
  BY <1>2, <1>5, <1>6, ReadKeeps

LEMMA NetKeeps ==
  ASSUME RateInv, NEW id \in Nat, EthStats(id) \in Nets, ReadNet(EthStats(id), id)
  PROVE  RateInv'
<1> DEFINE m == EthStats(id)
           d == device[alias[m]]
           t == [static[m] EXCEPT !.old = clock]
<1>1. m \in Meters \ Tasks /\ m \notin Disks
  BY NamesDiffer DEF Meters
<1>2. UNCHANGED <<header, alias, device, clock, events>> /\ static' = [static EXCEPT ![m].old = clock]
  BY Zenon DEF ReadNet
<1>3. /\ stats[m] \in StatsType /\ static[m] \in StaticType /\ d \in DeviceType /\ clock \in Nat
      /\ stats \in [Meters -> StatsType]
  BY <1>1 DEF RateInv, RateTypes
<1>4. t \in StaticType /\ t.old = clock /\ static' = [static EXCEPT ![m] = t]
  BY <1>2, <1>3 DEF StaticType
<1> HIDE DEF t, m
<1>5. CASE ~d.there
  <2>1. Noted(m, FALSE, NoRate) /\ stats' = stats
    BY <1>5, Zenon DEF ReadNet, NothingRead, m
  <2>2. stats' = [stats EXCEPT ![m] = stats[m]]
    BY <1>3, <2>1
  <2> QED
    BY <1>1, <1>2, <1>3, <1>4, <2>1, <2>2, NothingKeeps
<1>6. CASE d.there
  <2> DEFINE got == [stats EXCEPT ![m].bytes = d.count]
  <2>1. Compare(m, got)
    BY <1>6, Zenon DEF ReadNet, m
  <2>2. /\ got \in [Meters -> StatsType] /\ got[m].bytes = d.count /\ got[m].comp = stats[m].comp
        /\ \A k \in Meters \ {m} : got[k] = stats[k]
    BY <1>1, <1>3 DEF StatsType, DeviceType
  <2> HIDE DEF got
  <2> QED
    BY <1>1, <1>2, <1>4, <2>1, <2>2, SomethingKeeps
<1> QED
  BY <1>5, <1>6

LEMMA DiskKeeps ==
  ASSUME RateInv, NEW idx \in Nat, IoStats(idx) \in Disks, ReadDisk(IoStats(idx), idx)
  PROVE  RateInv'
<1> DEFINE m == IoStats(idx)
           fp == File(m, idx)
           got == [stats EXCEPT ![m].fp = fp]
           t == [old |-> clock, secSize |-> TRUE]
<1>1. m \in Meters \ Tasks /\ m \in Meters \ Nets /\ m \in Disks
  BY NamesDiffer DEF Meters
<1>2. UNCHANGED <<header, alias, device, clock, events>>
  BY Zenon DEF ReadDisk
<1>3. /\ alias[m] = m /\ stats \in [Meters -> StatsType] /\ static \in [Meters -> StaticType]
      /\ device[m] \in DeviceType /\ clock \in Nat
  BY <1>1 DEF RateInv, RateTypes
<1>4. t \in StaticType /\ t.old = clock
  BY <1>3 DEF StaticType
<1>5. stats[m].fp = NoFile \/ stats[m].fp.of = m
  BY <1>1 DEF RateInv, MeterFits
<1>6. fp \in FileType /\ (fp = NoFile \/ fp.of = m)
  <2>1. [of |-> m, epoch |-> device[m].epoch] \in FileType
    BY <1>1, <1>3 DEF FileType, DeviceType
  <2>2. stats[m].fp \in FileType
    BY <1>1, <1>3 DEF StatsType
  <2> QED
    BY <1>5, <2>1, <2>2 DEF File
<1> HIDE DEF m, fp, t
<1>7. /\ got \in [Meters -> StatsType] /\ got[m].fp = fp /\ got[m].comp = stats[m].comp
      /\ \A k \in Meters \ {m} : got[k] = stats[k]
  BY <1>1, <1>3, <1>6 DEF StatsType
<1>8. CASE NothingRead(m) /\ static' = static
  <2>1. stats' = [stats EXCEPT ![m] = stats[m]] /\ static' = [static EXCEPT ![m] = static[m]]
    BY <1>3, <1>8, SMT DEF NothingRead
  <2>2. stats[m] \in StatsType /\ static[m] \in StaticType
    BY <1>1, <1>3
  <2>3. Noted(m, FALSE, NoRate)
    BY <1>8, Zenon DEF NothingRead
  <2> QED
    BY <1>1, <1>2, <1>5, <2>1, <2>2, <2>3, NothingKeeps
<1>9. CASE /\ static' = [static EXCEPT ![m] = t]
           /\ ~Yields(fp) /\ Noted(m, FALSE, NoRate) /\ stats' = got
  <2>1. got[m] \in StatsType /\ stats' = [stats EXCEPT ![m] = got[m]]
    BY <1>1, <1>3, <1>7, <1>9
  <2>2. Noted(m, FALSE, NoRate) /\ static' = [static EXCEPT ![m] = t]
    BY <1>9, Zenon
  <2> HIDE DEF got
  <2> QED
    BY <1>1, <1>2, <1>4, <1>6, <1>7, <2>1, <2>2, NothingKeeps
<1>10. CASE /\ static' = [static EXCEPT ![m] = t] /\ Yields(fp)
            /\ Compare(m, [got EXCEPT ![m].bytes = device[fp.of].count])
  <2> DEFINE read == [got EXCEPT ![m].bytes = device[fp.of].count]
  <2>1. fp.of = m
    BY <1>6, <1>10 DEF Yields
  <2> HIDE DEF got
  <2>2. /\ read \in [Meters -> StatsType] /\ read[m].bytes = device[alias[m]].count
        /\ read[m].comp = stats[m].comp /\ read[m].fp = fp
        /\ \A k \in Meters \ {m} : read[k] = stats[k]
    BY <1>1, <1>3, <1>7, <2>1 DEF StatsType, DeviceType
  <2>3. Compare(m, read) /\ static' = [static EXCEPT ![m] = t]
    BY <1>10, Zenon
  <2> HIDE DEF read
  <2> QED
    BY <1>1, <1>2, <1>4, <1>6, <2>2, <2>3, SomethingKeeps
<1>11. \/ NothingRead(m) /\ static' = static
       \/ /\ static' = [static EXCEPT ![m] = t]
          /\ \/ Yields(fp) /\ Compare(m, [got EXCEPT ![m].bytes = device[fp.of].count])
             \/ ~Yields(fp) /\ Noted(m, FALSE, NoRate) /\ stats' = got
  BY Zenon DEF ReadDisk, m, fp, t
<1> QED
  BY <1>8, <1>9, <1>10, <1>11, Zenon

(* What has no width in the model has none that matters. *)
LEMMA NotWrapped ==
  ASSUME NEW k \in Nat, k < Width
  PROVE  k % Width = k
BY RatesAssumption

LEMMA RatesStutter ==
  ASSUME RateInv, UNCHANGED rateVars
  PROVE  RateInv'
<1>1. RateTypes'
  BY DEF rateVars, RateInv, RateTypes
<1>2. ASSUME NEW m \in Meters
      PROVE  MeterFits(m)'
  BY DEF rateVars, RateInv, MeterFits, Counts, Keeps, IsDifference, ShowsOnce
<1> QED
  BY <1>1, <1>2 DEF RateInv

LEMMA TaskKeeps ==
  ASSUME RateInv, NEW m \in Tasks, ReadIoFile(m)
  PROVE  RateInv'
<1> DEFINE d == device[m]
           r == [is |-> TRUE, amount |-> (d.count - stats[m].comp) % Width,
                 delay |-> (clock - static[m].old) % Width]
<1>1. m \in Meters \ Nets /\ m \in Meters /\ m \notin Disks
  BY NamesDiffer DEF Meters
<1>2. UNCHANGED <<header, alias, device, clock, events>> /\ m \in header
  BY Zenon DEF ReadIoFile
<1>3. /\ alias[m] = m /\ stats \in [Meters -> StatsType] /\ static \in [Meters -> StaticType]
      /\ d \in DeviceType /\ clock \in 1 .. events + 1 /\ events \in Nat /\ events <= MaxEvents
      /\ hist[m] \in HistType /\ stats[m] \in StatsType /\ static[m] \in StaticType
  BY <1>1, <1>2 DEF RateInv, RateTypes
<1>4. Width \in Nat /\ MaxEvents \in Nat /\ MaxEvents + 2 < Width
  BY RatesAssumption
<1>5. /\ d.count \in Nat /\ d.total \in Nat /\ d.epoch \in Nat /\ d.count <= d.total /\ d.total <= events
      /\ stats[m].comp \in Nat /\ static[m].old \in Nat
  BY <1>1, <1>3 DEF RateInv, MeterFits, Counts, DeviceType, StatsType, StaticType
<1>6. ASSUME d.there, stats' = [stats EXCEPT ![m].comp = d.count],
             static' = [static EXCEPT ![m].old = clock], Noted(m, TRUE, r)
      PROVE  RateInv'
  <2> DEFINE s == [stats[m] EXCEPT !.comp = d.count]
             t == [static[m] EXCEPT !.old = clock]
  <2>1. /\ stats' = [stats EXCEPT ![m].comp = d.count] /\ static' = [static EXCEPT ![m].old = clock]
        /\ Noted(m, TRUE, r)
    BY <1>6
  <2>2. s \in StatsType /\ s.comp = d.count /\ stats' = [stats EXCEPT ![m] = s]
    BY <1>3, <1>5, <2>1 DEF StatsType
  <2>3. t \in StaticType /\ t.old = clock /\ static' = [static EXCEPT ![m] = t]
    BY <1>3, <2>1 DEF StaticType
  <2>4. r \in RateType
    <3>1. (d.count - stats[m].comp) % Width \in Int /\ (clock - static[m].old) % Width \in Int
      BY <1>3, <1>4, <1>5
    <3> QED
      BY <3>1 DEF RateType
  <2>5. ASSUME hist[m].last.ok, hist[m].last.epoch = d.epoch, clock >= hist[m].last.clock
        PROVE  r = [is |-> TRUE, amount |-> d.total - hist[m].last.total,
                    delay |-> clock - hist[m].last.clock]
    <3>1. /\ static[m].old = hist[m].last.clock /\ hist[m].last.total - stats[m].comp = d.total - d.count
          /\ hist[m].last.total <= d.total /\ hist[m].last.clock \in 1 .. events + 1
      BY <1>1, <1>3, <2>5 DEF RateInv, MeterFits, Keeps
    <3>2. hist[m].last.total \in Nat
      BY <1>3 DEF HistType, ReadingType
    <3>3. /\ d.count - stats[m].comp = d.total - hist[m].last.total
          /\ d.total - hist[m].last.total \in Nat /\ d.total - hist[m].last.total < Width
      BY <1>3, <1>4, <1>5, <3>1, <3>2
    <3>4. /\ clock - static[m].old = clock - hist[m].last.clock
          /\ clock - hist[m].last.clock \in Nat /\ clock - hist[m].last.clock < Width
      BY <1>3, <1>4, <2>5, <3>1
    <3> QED
      BY <3>3, <3>4, NotWrapped, Zenon
  <2> HIDE DEF s, t, r
  <2>6. /\ Keeps(d, s, t, NewHist(m, TRUE, r).last) /\ IsDifference(r, NewHist(m, TRUE, r))
    BY <1>1, <1>3, <2>2, <2>3, <2>4, <2>5, SomethingFits
  <2>7. /\ shown' = [shown EXCEPT ![m] = r]
        /\ hist' = [hist EXCEPT ![m] = NewHist(m, TRUE, r)]
        /\ NewHist(m, TRUE, r) \in HistType
    BY <1>1, <2>1, <2>4, NotedFacts
  <2> QED
    BY <1>1, <1>2, <1>3, <2>2, <2>3, <2>4, <2>6, <2>7, ReadKeeps
<1>7. ASSUME stats' = [stats EXCEPT ![m].comp = Width - 1],
             static' = [static EXCEPT ![m].old = Width - 1], Noted(m, FALSE, NoRate)
      PROVE  RateInv'
  <2> DEFINE s == [stats[m] EXCEPT !.comp = Width - 1]
             t == [static[m] EXCEPT !.old = Width - 1]
  <2>1. /\ stats' = [stats EXCEPT ![m].comp = Width - 1] /\ static' = [static EXCEPT ![m].old = Width - 1]
        /\ Noted(m, FALSE, NoRate)
    BY <1>7
  <2>2. Width - 1 \in Nat
    BY <1>4
  <2>3. s \in StatsType /\ stats' = [stats EXCEPT ![m] = s]
    BY <1>3, <2>1, <2>2 DEF StatsType
  <2>4. t \in StaticType /\ static' = [static EXCEPT ![m] = t]
    BY <1>3, <2>1, <2>2 DEF StaticType
  <2> HIDE DEF s, t
  <2>5. /\ NoRate \in RateType /\ Keeps(d, s, t, NewHist(m, FALSE, NoRate).last)
        /\ IsDifference(NoRate, NewHist(m, FALSE, NoRate))
    BY <1>1, <1>3, <2>3, <2>4, NothingFits
  <2>6. /\ shown' = [shown EXCEPT ![m] = NoRate]
        /\ hist' = [hist EXCEPT ![m] = NewHist(m, FALSE, NoRate)]
        /\ NewHist(m, FALSE, NoRate) \in HistType
    BY <1>1, <2>1, <2>5, NotedFacts
  <2> QED
    BY <1>1, <1>2, <1>3, <2>3, <2>4, <2>5, <2>6, ReadKeeps
<1>8. ASSUME UNCHANGED <<stats, static, shown, hist>> PROVE RateInv'
  BY <1>2, <1>8, RatesStutter DEF rateVars
<1>9. \/ /\ d.there
         /\ stats' = [stats EXCEPT ![m].comp = d.count] /\ static' = [static EXCEPT ![m].old = clock]
         /\ Noted(m, TRUE, r)
      \/ /\ stats' = [stats EXCEPT ![m].comp = Width - 1]
         /\ static' = [static EXCEPT ![m].old = Width - 1] /\ Noted(m, FALSE, NoRate)
      \/ UNCHANGED <<stats, static, shown, hist>>
  BY Zenon DEF ReadIoFile
<1> QED
  BY <1>6, <1>7, <1>8, <1>9, Zenon

(* Each meter gives the id of its own counters, the FILE of its own disk. *)
LEMMA NetsKeep ==
  ASSUME RateInv,
         Eth0_StatsMeter_setValues \/ Eth1_StatsMeter_setValues \/ Wlan0_StatsMeter_setValues
  PROVE  RateInv'
<1>0. EthStats(0) = "eth0" /\ EthStats(1) = "eth1" /\ EthStats(2) = "wlan0"
  BY DEF EthStats
<1>1. PICK id \in 0 .. 2 : ReadNet(EthStats(id), id)
  BY <1>0 DEF Eth0_StatsMeter_setValues, Eth1_StatsMeter_setValues, Wlan0_StatsMeter_setValues
<1>2. EthStats(id) \in header
  BY <1>1, Zenon DEF ReadNet
<1>3. EthStats(id) \in Nets
  BY <1>2, RatesAssumption DEF RateInv, RateTypes, Meters, EthStats, NetNames, DiskNames
<1> QED
  BY <1>1, <1>3, NetKeeps

LEMMA DisksKeep ==
  ASSUME RateInv,
         \/ BlockDevice_sda_ioStatsMeter_setValues \/ BlockDevice_sdb_ioStatsMeter_setValues
         \/ BlockDevice_sdc_ioStatsMeter_setValues \/ BlockDevice_sdd_ioStatsMeter_setValues
         \/ BlockDevice_mmcblk0_ioStatsMeter_setValues \/ BlockDevice_mmcblk1_ioStatsMeter_setValues
         \/ BlockDevice_mmcblk2_ioStatsMeter_setValues \/ BlockDevice_mmcblk3_ioStatsMeter_setValues
  PROVE  RateInv'
<1>1. /\ IoStats(0) = "sda" /\ IoStats(1) = "sdb" /\ IoStats(2) = "sdc" /\ IoStats(3) = "sdd"
      /\ IoStats(4) = "mmcblk0" /\ IoStats(5) = "mmcblk1" /\ IoStats(6) = "mmcblk2"
      /\ IoStats(7) = "mmcblk3"
  BY DEF IoStats
<1>2. PICK idx \in 0 .. 7 : ReadDisk(IoStats(idx), idx)
  BY <1>1 DEF BlockDevice_sda_ioStatsMeter_setValues, BlockDevice_sdb_ioStatsMeter_setValues,
       BlockDevice_sdc_ioStatsMeter_setValues, BlockDevice_sdd_ioStatsMeter_setValues,
       BlockDevice_mmcblk0_ioStatsMeter_setValues, BlockDevice_mmcblk1_ioStatsMeter_setValues,
       BlockDevice_mmcblk2_ioStatsMeter_setValues, BlockDevice_mmcblk3_ioStatsMeter_setValues
<1>3. IoStats(idx) \in header
  BY <1>2, Zenon DEF ReadDisk
<1>4. IoStats(idx) \in DiskNames
  BY <1>1 DEF DiskNames
<1>5. IoStats(idx) \in Disks
  BY <1>3, <1>4, RatesAssumption DEF RateInv, RateTypes, Meters, NetNames, DiskNames
<1> QED
  BY <1>2, <1>5, DiskKeeps

LEMMA RatesNextKeeps ==
  ASSUME RateInv, [RatesNext]_rateVars
  PROVE  RateInv'
<1>1. CASE Transfer \/ Disappear \/ Appear \/ Tick \/ SetBack
  BY <1>1, EnvironmentKeeps
<1>2. CASE Eth0_StatsMeter_setValues \/ Eth1_StatsMeter_setValues \/ Wlan0_StatsMeter_setValues
  BY <1>2, NetsKeep
<1>3. CASE \/ BlockDevice_sda_ioStatsMeter_setValues \/ BlockDevice_sdb_ioStatsMeter_setValues
           \/ BlockDevice_sdc_ioStatsMeter_setValues \/ BlockDevice_sdd_ioStatsMeter_setValues
           \/ BlockDevice_mmcblk0_ioStatsMeter_setValues \/ BlockDevice_mmcblk1_ioStatsMeter_setValues
           \/ BlockDevice_mmcblk2_ioStatsMeter_setValues \/ BlockDevice_mmcblk3_ioStatsMeter_setValues
  BY <1>3, DisksKeep
<1>4. CASE \E t \in Tasks : ReadIoFile(t)
  BY <1>4, TaskKeeps
<1>5. CASE UNCHANGED rateVars
  BY <1>5, RatesStutter
<1> QED
  BY <1>1, <1>2, <1>3, <1>4, <1>5, Zenon DEF RatesNext

(* The rates are those of the devices, whatever comes, goes and is read in  *)
(* between (Eth0_StatsMeter_setValues and its ten copies,                  *)
(* LinuxProcessList_readIoFile).                                           *)
THEOREM RatesAreTrue == RatesSpec => []RateIsTrue
<1>1. RatesInit => RateInv
  BY RatesInitInv
<1>2. RateInv /\ [RatesNext]_rateVars => RateInv'
  BY RatesNextKeeps
<1>3. RateInv => RateIsTrue
  BY RateInvImplies
<1> QED
  BY <1>1, <1>2, <1>3, PTL DEF RatesSpec
-----------------------------------------------------------------------------
(* The battery.                                                            *)

BatReading == [at : {"idle", "info", "state", "sys"}, todo : SUBSET DOMAIN Bats,
               full : Nat, remain : Nat, now : Int]
BatCache == [method : {"proc", "sys", "error"}, level : -1 .. 100, cached : Int]
BatHist == [age : Nat, setBack : BOOLEAN, shown : Int, replaced : Int]

BatTypes ==
  /\ charge \in [ToSet(Bats) -> Int]
  /\ \A b \in ToSet(Bats) : charge[b] # Out => charge[b] \in 0 .. Full[b]
  /\ time \in Int
  /\ reading \in BatReading /\ battery \in BatCache /\ shownLevel \in -1 .. 100
  /\ batHist \in BatHist

(* There is something to divide by when a level is computed. *)
Divides ==
  /\ reading.at = "state" => reading.full > 0
  /\ reading.at = "sys" => reading.remain <= reading.full

(* The time that is kept, or will be, is that of the beginning of the reading, *)
(* so it takes the time the reading lasts from the life of what was read.      *)
TimeIsKept ==
  ~batHist.setBack
    => time = batHist.age + (IF reading.at = "idle" THEN battery.cached ELSE reading.now)

BatInv == BatTypes /\ Divides /\ TimeIsKept /\ LevelIsRecent

LEMMA BatInitInv == BatteryInit => BatInv
<1> SUFFICES ASSUME BatteryInit
             PROVE  BatInv
  OBVIOUS
<1>1. CACHE \in Nat \ {0} /\ \A b \in ToSet(Bats) : Full[b] \in Nat \ {0}
  BY BatteryAssumption
<1>2. charge \in [ToSet(Bats) -> Int] /\ \A b \in ToSet(Bats) : charge[b] \in {Out, 0, 1}
  BY DEF BatteryInit, Out
<1>3. \A b \in ToSet(Bats) : charge[b] # Out => charge[b] \in 0 .. Full[b]
  BY <1>1, <1>2
<1>4. reading \in BatReading /\ battery \in BatCache
  BY DEF BatteryInit, BatReading, BatCache, NotReading
<1>5. shownLevel \in -1 .. 100 /\ time \in Int
  BY <1>1 DEF BatteryInit, Out
<1>6. batHist \in BatHist
  BY <1>1 DEF BatteryInit, BatHist, Unread
<1>7. Divides /\ TimeIsKept
  BY <1>1 DEF BatteryInit, Divides, TimeIsKept, NotReading, Unread
<1>8. LevelIsRecent
  BY <1>1, <1>5 DEF BatteryInit, LevelIsRecent, Unread
<1> QED
  BY <1>2, <1>3, <1>4, <1>5, <1>6, <1>7, <1>8 DEF BatInv, BatTypes

(* A step that changes neither a reading nor what was read. *)
LEMMA BatEventKeeps ==
  ASSUME BatInv, UNCHANGED <<reading, battery, shownLevel>>,
         charge' \in [ToSet(Bats) -> Int],
         \A b \in ToSet(Bats) : (charge')[b] # Out => (charge')[b] \in 0 .. Full[b],
         time' \in Int, batHist' \in BatHist,
         batHist'.shown = batHist.shown, batHist'.replaced = batHist.replaced,
         ~batHist'.setBack => ~batHist.setBack /\ time' - time = batHist'.age - batHist.age
  PROVE  BatInv'
<1>1. time \in Int /\ batHist \in BatHist /\ reading \in BatReading /\ battery \in BatCache
  BY DEF BatInv, BatTypes
<1>2. BatTypes'
  BY DEF BatInv, BatTypes
<1>3. TimeIsKept'
  <2>1. /\ batHist.age \in Int /\ batHist'.age \in Int
        /\ (IF reading.at = "idle" THEN battery.cached ELSE reading.now) \in Int
    BY <1>1 DEF BatHist, BatReading, BatCache
  <2>2. ~batHist.setBack
          => time = batHist.age + (IF reading.at = "idle" THEN battery.cached ELSE reading.now)
    BY DEF BatInv, TimeIsKept
  <2> QED
    BY <1>1, <2>1, <2>2 DEF TimeIsKept
<1>4. Divides' /\ LevelIsRecent'
  BY DEF BatInv, Divides, LevelIsRecent
<1> QED
  BY <1>2, <1>3, <1>4 DEF BatInv

LEMMA BatEnvironmentKeeps ==
  ASSUME BatInv, ChangeBattery \/ Second \/ SetClockBack
  PROVE  BatInv'
<1>1. /\ charge \in [ToSet(Bats) -> Int] /\ time \in Int /\ batHist \in BatHist
      /\ \A b \in ToSet(Bats) : charge[b] # Out => charge[b] \in 0 .. Full[b]
  BY DEF BatInv, BatTypes
<1>2. UNCHANGED <<reading, battery, shownLevel>>
  BY Zenon DEF ChangeBattery, Second, SetClockBack, BatEvent
<1>3. CASE ChangeBattery
  <2>1. PICK b \in ToSet(Bats), n \in {Out} \cup 0 .. 2 :
          n <= Full[b] /\ charge' = [charge EXCEPT ![b] = n]
    BY <1>3, Zenon DEF ChangeBattery
  <2>2. UNCHANGED <<time, batHist>>
    BY <1>3, Zenon DEF ChangeBattery
  <2>3. n \in Int /\ (n # Out => n \in 0 .. Full[b])
    BY <2>1, BatteryAssumption DEF Out
  <2>4. /\ charge' \in [ToSet(Bats) -> Int]
        /\ \A k \in ToSet(Bats) : (charge')[k] # Out => (charge')[k] \in 0 .. Full[k]
    BY <1>1, <2>1, <2>3
  <2>5. time' - time = batHist'.age - batHist.age
    BY <1>1, <2>2 DEF BatHist
  <2> QED
    BY <1>1, <1>2, <2>2, <2>4, <2>5, BatEventKeeps
<1>4. CASE Second
  <2>1. time' = time + 1 /\ batHist' = [batHist EXCEPT !.age = @ + 1] /\ charge' = charge
    BY <1>4, Zenon DEF Second
  <2>2. /\ batHist' \in BatHist /\ batHist'.age = batHist.age + 1 /\ batHist'.setBack = batHist.setBack
        /\ batHist'.shown = batHist.shown /\ batHist'.replaced = batHist.replaced
        /\ batHist.age \in Nat
    BY <1>1, <2>1 DEF BatHist
  <2>3. time' \in Int /\ time' - time = batHist'.age - batHist.age
    BY <1>1, <2>1, <2>2
  <2> QED
    BY <1>1, <1>2, <2>1, <2>2, <2>3, BatEventKeeps
<1>5. CASE SetClockBack
  <2>1. time' = time - 1 /\ batHist' = [batHist EXCEPT !.setBack = TRUE] /\ charge' = charge
    BY <1>5, Zenon DEF SetClockBack
  <2>2. /\ batHist' \in BatHist /\ batHist'.setBack
        /\ batHist'.shown = batHist.shown /\ batHist'.replaced = batHist.replaced
    BY <1>1, <2>1 DEF BatHist
  <2> QED
    BY <1>1, <1>2, <2>1, <2>2, BatEventKeeps
<1> QED
  BY <1>3, <1>4, <1>5

LEMMA ShowCachedKeeps == ASSUME BatInv, ShowCached PROVE BatInv'
<1> DEFINE n == IF batHist.setBack THEN 0 ELSE batHist.age
<1>1. /\ reading.at = "idle" /\ time < battery.cached + CACHE /\ shownLevel' = battery.level
      /\ batHist' = [batHist EXCEPT !.shown = n]
      /\ UNCHANGED <<charge, time, reading, battery>>
  BY Zenon DEF ShowCached, Fresh, Env
<1>2. batHist \in BatHist /\ battery \in BatCache /\ time \in Int
  BY DEF BatInv, BatTypes
<1>3. batHist.age \in Nat /\ battery.cached \in Int /\ battery.level \in -1 .. 100
  BY <1>2 DEF BatHist, BatCache
<1>4. n \in Int /\ n < CACHE
  BY <1>1, <1>2, <1>3, BatteryAssumption DEF BatInv, TimeIsKept
<1> HIDE DEF n
<1>5. /\ batHist' \in BatHist /\ batHist'.age = batHist.age /\ batHist'.setBack = batHist.setBack
      /\ batHist'.shown = n /\ batHist'.replaced = batHist.replaced
  BY <1>1, <1>2, <1>4 DEF BatHist
<1>6. BatTypes'
  BY <1>1, <1>3, <1>5 DEF BatInv, BatTypes
<1>7. Divides' /\ TimeIsKept'
  BY <1>1, <1>5 DEF BatInv, Divides, TimeIsKept
<1>8. LevelIsRecent'
  BY <1>1, <1>3, <1>4, <1>5 DEF BatInv, LevelIsRecent
<1> QED
  BY <1>6, <1>7, <1>8 DEF BatInv

(* A reading goes on: one at the places todo of the batteries. *)
LEMMA ReadingKeeps ==
  ASSUME BatInv, reading.at # "idle", reading' \in BatReading,
         reading'.at # "idle", reading'.now = reading.now, Divides',
         battery' = battery \/ battery' = [battery EXCEPT !.method = "sys"],
         UNCHANGED <<charge, time, shownLevel, batHist>>
  PROVE  BatInv'
<1>1. battery \in BatCache
  BY DEF BatInv, BatTypes
<1>2. battery' \in BatCache /\ battery'.level = battery.level
  BY <1>1 DEF BatCache
<1>3. BatTypes'
  BY <1>2 DEF BatInv, BatTypes
<1>4. TimeIsKept'
  BY DEF BatInv, TimeIsKept
<1>5. LevelIsRecent'
  BY <1>2 DEF BatInv, LevelIsRecent
<1> QED
  BY <1>3, <1>4, <1>5 DEF BatInv

LEMMA FinishKeeps ==
  ASSUME BatInv, reading.at # "idle", UNCHANGED <<charge, time, batHist>>,
         NEW method \in {"proc", "sys", "error"}, NEW level \in Int, level >= -1,
         Finish(method, level, reading.now)
  PROVE  BatInv'
<1>1. Clamped(level) \in -1 .. 100
  BY DEF Clamped
<1>2. /\ reading' = NotReading /\ shownLevel' = Clamped(level)
      /\ battery' = [method |-> method, level |-> Clamped(level), cached |-> reading.now]
  BY Zenon DEF Finish
<1>3. reading \in BatReading
  BY DEF BatInv, BatTypes
<1>4. battery' \in BatCache /\ battery'.cached = reading.now /\ battery'.level = Clamped(level)
  BY <1>1, <1>2, <1>3 DEF BatCache, BatReading
<1>5. reading' \in BatReading /\ reading'.at = "idle"
  BY <1>2 DEF BatReading, NotReading
<1>6. BatTypes'
  BY <1>1, <1>2, <1>4, <1>5 DEF BatInv, BatTypes
<1>7. Divides' /\ TimeIsKept'
  BY <1>4, <1>5 DEF BatInv, Divides, TimeIsKept
<1>8. LevelIsRecent'
  BY <1>1, <1>2, <1>4 DEF BatInv, LevelIsRecent
<1> QED
  BY <1>6, <1>7, <1>8 DEF BatInv

LEMMA BeginFacts ==
  ASSUME NEW source \in {"info", "sys"}, NEW now \in Int
  PROVE  /\ Begin(source, now) \in BatReading
         /\ Begin(source, now).at = source /\ Begin(source, now).now = now
         /\ Begin(source, now).full = 0 /\ Begin(source, now).remain = 0
<1>1. (IF source = "info" THEN ListProc ELSE Present) \in SUBSET DOMAIN Bats
  BY DEF ListProc, Present
<1> QED
  BY <1>1 DEF Begin, BatReading

LEMMA GetDataKeeps == ASSUME BatInv, GetData PROVE BatInv'
<1> DEFINE r == IF batHist.setBack THEN CACHE ELSE batHist.age
<1>1. /\ reading.at = "idle" /\ ~(time < battery.cached + CACHE)
      /\ batHist' = [age |-> 0, setBack |-> FALSE, shown |-> 0, replaced |-> r]
      /\ UNCHANGED <<charge, time>>
  BY Zenon DEF GetData, Fresh, Env
<1>2. batHist \in BatHist /\ battery \in BatCache /\ time \in Int
  BY DEF BatInv, BatTypes
<1>3. batHist.age \in Nat /\ battery.cached \in Int /\ battery.level \in -1 .. 100
  BY <1>2 DEF BatHist, BatCache
<1>4. r \in Int /\ r >= CACHE
  BY <1>1, <1>2, <1>3, BatteryAssumption DEF BatInv, TimeIsKept
<1> HIDE DEF r
<1>5. /\ batHist' \in BatHist /\ batHist'.age = 0 /\ batHist'.shown = 0 /\ batHist'.replaced = r
  BY <1>1, <1>4 DEF BatHist
<1>6. 0 < CACHE
  BY BatteryAssumption
<1>7. CASE GiveUp(time)
  <2>1. /\ reading' = NotReading /\ shownLevel' = Clamped(-1)
        /\ battery' = [method |-> "error", level |-> Clamped(-1), cached |-> time]
    BY <1>7, Zenon DEF GiveUp, Finish
  <2>2. Clamped(-1) \in -1 .. 100
    BY DEF Clamped
  <2>3. battery' \in BatCache /\ battery'.cached = time /\ battery'.level = Clamped(-1)
    BY <1>2, <2>1, <2>2 DEF BatCache
  <2>4. reading' \in BatReading /\ reading'.at = "idle"
    BY <2>1 DEF BatReading, NotReading
  <2>5. BatTypes'
    BY <1>1, <1>5, <2>1, <2>2, <2>3, <2>4 DEF BatInv, BatTypes
  <2>6. Divides' /\ TimeIsKept'
    BY <1>1, <1>2, <1>5, <2>3, <2>4 DEF Divides, TimeIsKept
  <2>7. LevelIsRecent'
    BY <1>4, <1>5, <1>6, <2>1, <2>2, <2>3 DEF LevelIsRecent
  <2> QED
    BY <2>5, <2>6, <2>7 DEF BatInv
<1>8. CASE /\ reading' = Begin(IF battery.method = "proc" THEN "info" ELSE "sys", time)
           /\ UNCHANGED <<battery, shownLevel>>
  <2>1. PICK source \in {"info", "sys"} : reading' = Begin(source, time)
    BY <1>8
  <2>2. /\ reading' \in BatReading /\ reading'.at = source /\ reading'.now = time
        /\ reading'.full = 0 /\ reading'.remain = 0
    BY <1>2, <2>1, BeginFacts
  <2>3. BatTypes'
    BY <1>1, <1>5, <1>8, <2>2 DEF BatInv, BatTypes
  <2>4. Divides'
    BY <2>2 DEF Divides
  <2>5. TimeIsKept'
    BY <1>1, <1>2, <1>5, <2>2 DEF TimeIsKept
  <2>6. LevelIsRecent'
    BY <1>4, <1>5, <1>6, <1>8 DEF BatInv, LevelIsRecent
  <2> QED
    BY <2>3, <2>4, <2>5, <2>6 DEF BatInv
<1> QED
  BY <1>7, <1>8, Zenon DEF GetData

LEMMA NextBatFacts ==
  ASSUME BatInv, reading.todo # {}
  PROVE  /\ NextBat \in ToSet(Bats) /\ Full[NextBat] \in Nat \ {0}
         /\ charge[NextBat] = Out \/ charge[NextBat] \in 0 .. Full[NextBat]
         /\ Value(NextBat, Full[NextBat]) \in Nat /\ Value(NextBat, charge[NextBat]) \in Nat
         /\ Others \in SUBSET DOMAIN Bats /\ Rest \in SUBSET DOMAIN Bats
<1>1. reading.todo \in SUBSET DOMAIN Bats
  BY DEF BatInv, BatTypes, BatReading
<1>2. DOMAIN Bats \in SUBSET Nat
  BY BatteryAssumption
<1>3. Min(reading.todo) \in DOMAIN Bats
  BY <1>1, <1>2, MinFacts
<1>4. NextBat \in ToSet(Bats)
  BY <1>3 DEF NextBat, ToSet
<1>5. Full[NextBat] \in Nat \ {0}
  BY <1>4, BatteryAssumption
<1>6. charge[NextBat] = Out \/ charge[NextBat] \in 0 .. Full[NextBat]
  BY <1>4 DEF BatInv, BatTypes
<1>7. Value(NextBat, Full[NextBat]) \in Nat /\ Value(NextBat, charge[NextBat]) \in Nat
  BY <1>5, <1>6 DEF Value
<1>8. Others \in SUBSET DOMAIN Bats /\ Rest \in SUBSET DOMAIN Bats
  BY <1>1 DEF Others, Rest
<1> QED
  BY <1>4, <1>5, <1>6, <1>7, <1>8

LEMMA ReadProcKeeps == ASSUME BatInv, ReadInfo \/ ReadState PROVE BatInv'
<1>1. /\ reading.todo # {} /\ reading.at \in {"info", "state"}
      /\ UNCHANGED <<charge, time, battery, shownLevel, batHist>>
  BY DEF ReadInfo, ReadState, Env
<1>2. reading \in BatReading
  BY DEF BatInv, BatTypes
<1>3. /\ Value(NextBat, Full[NextBat]) \in Nat /\ Value(NextBat, charge[NextBat]) \in Nat
      /\ Rest \in SUBSET DOMAIN Bats
  BY <1>1, NextBatFacts
<1>4. CASE ReadInfo
  <2>1. /\ reading.at = "info"
        /\ reading' = [reading EXCEPT !.full = @ + Value(NextBat, Full[NextBat]), !.todo = Rest]
    BY <1>4, Zenon DEF ReadInfo
  <2> DEFINE v == Value(NextBat, Full[NextBat])
             n == reading.full + v
  <2>4. n \in Nat
    BY <1>2, <1>3 DEF BatReading
  <2>5. reading' = [reading EXCEPT !.full = n, !.todo = Rest]
    BY <2>1, Zenon
  <2> HIDE DEF n
  <2>2. reading' \in BatReading /\ reading'.at = reading.at /\ reading'.now = reading.now
    BY <1>2, <1>3, <2>4, <2>5 DEF BatReading
  <2>3. Divides'
    BY <2>1, <2>2 DEF Divides
  <2> QED
    BY <1>1, <2>1, <2>2, <2>3, ReadingKeeps
<1>5. CASE ReadState
  <2>1. /\ reading.at = "state"
        /\ reading' = [reading EXCEPT !.remain = @ + Value(NextBat, charge[NextBat]), !.todo = Rest]
    BY <1>5, Zenon DEF ReadState
  <2> DEFINE v == Value(NextBat, charge[NextBat])
             n == reading.remain + v
  <2>4. n \in Nat
    BY <1>2, <1>3 DEF BatReading
  <2>5. reading' = [reading EXCEPT !.remain = n, !.todo = Rest]
    BY <2>1, Zenon
  <2> HIDE DEF n
  <2>2. /\ reading' \in BatReading /\ reading'.at = reading.at /\ reading'.now = reading.now
        /\ reading'.full = reading.full
    BY <1>2, <1>3, <2>4, <2>5 DEF BatReading
  <2>3. Divides'
    BY <2>1, <2>2 DEF BatInv, Divides
  <2> QED
    BY <1>1, <2>1, <2>2, <2>3, ReadingKeeps
<1> QED
  BY <1>4, <1>5

LEMMA EndInfoKeeps == ASSUME BatInv, EndInfo PROVE BatInv'
<1>1. /\ reading.at = "info" /\ UNCHANGED <<charge, time, shownLevel, batHist>>
      /\ reading' = IF reading.full = 0 THEN Begin("sys", reading.now)
                    ELSE [reading EXCEPT !.at = "state", !.todo = ListProc]
      /\ battery' = IF reading.full = 0 THEN [battery EXCEPT !.method = "sys"] ELSE battery
  BY Zenon DEF EndInfo, Env
<1>2. reading \in BatReading /\ reading.full \in Nat /\ reading.now \in Int
  BY DEF BatInv, BatTypes, BatReading
<1>3. battery' = battery \/ battery' = [battery EXCEPT !.method = "sys"]
  BY <1>1
<1>4. CASE reading.full = 0
  <2>1. /\ reading' \in BatReading /\ reading'.at = "sys" /\ reading'.now = reading.now
        /\ reading'.full = 0 /\ reading'.remain = 0
    BY <1>1, <1>2, <1>4, BeginFacts
  <2>2. Divides'
    BY <2>1 DEF Divides
  <2> QED
    BY <1>1, <1>3, <2>1, <2>2, ReadingKeeps
<1>5. CASE reading.full # 0
  <2>1. ListProc \in SUBSET DOMAIN Bats
    BY DEF ListProc, Present
  <2>2. /\ reading' \in BatReading /\ reading'.at = "state" /\ reading'.now = reading.now
        /\ reading'.full = reading.full
    BY <1>1, <1>2, <1>5, <2>1 DEF BatReading
  <2>3. Divides'
    BY <1>2, <1>5, <2>2 DEF Divides
  <2> QED
    BY <1>1, <1>3, <2>2, <2>3, ReadingKeeps
<1> QED
  BY <1>4, <1>5

LEMMA LevelIsPercentage ==
  ASSUME BatInv, reading.full > 0
  PROVE  Level \in Int /\ Level >= -1
<1>1. reading.full \in Nat /\ reading.remain \in Nat
  BY DEF BatInv, BatTypes, BatReading
<1>2. \A a \in Nat, b \in Nat \ {0} : a \div b \in Nat
  OBVIOUS
<1>3. reading.remain * 100 \in Nat /\ reading.full \in Nat \ {0}
  BY <1>1
<1>4. Level \in Nat
  BY <1>2, <1>3 DEF Level
<1> QED
  BY <1>4

LEMMA EndStateKeeps == ASSUME BatInv, EndState PROVE BatInv'
<1>1. /\ reading.at = "state" /\ UNCHANGED <<charge, time, batHist>>
      /\ \/ /\ reading' = Begin("sys", reading.now) /\ battery' = [battery EXCEPT !.method = "sys"]
            /\ UNCHANGED shownLevel
         \/ Finish("proc", Level, reading.now)
  BY Zenon DEF EndState, Env
<1>2. reading.now \in Int
  BY DEF BatInv, BatTypes, BatReading
<1>3. CASE /\ reading' = Begin("sys", reading.now) /\ battery' = [battery EXCEPT !.method = "sys"]
           /\ UNCHANGED shownLevel
  <2>1. /\ reading' \in BatReading /\ reading'.at = "sys" /\ reading'.now = reading.now
        /\ reading'.full = 0 /\ reading'.remain = 0
    BY <1>2, <1>3, BeginFacts
  <2>2. Divides'
    BY <2>1 DEF Divides
  <2> QED
    BY <1>1, <1>3, <2>1, <2>2, ReadingKeeps
<1>4. CASE Finish("proc", Level, reading.now)
  <2>1. Level \in Int /\ Level >= -1
    BY <1>1, LevelIsPercentage DEF BatInv, Divides
  <2> QED
    BY <1>1, <1>4, <2>1, FinishKeeps
<1> QED
  BY <1>1, <1>3, <1>4

LEMMA SysKeeps == ASSUME BatInv, ReadSys \/ EndSys PROVE BatInv'
<1>1. reading.at = "sys" /\ UNCHANGED <<charge, time, batHist>>
  BY Zenon DEF ReadSys, EndSys, Env
<1>2. reading \in BatReading /\ reading.remain <= reading.full /\ reading.remain \in Nat /\ reading.full \in Nat
  BY <1>1 DEF BatInv, BatTypes, BatReading, Divides
<1>3. CASE GiveUp(reading.now)
  BY <1>1, <1>3, FinishKeeps DEF GiveUp
<1>4. CASE ReadSys /\ ~GiveUp(reading.now)
  <2>1. /\ reading.todo # {} /\ charge[NextBat] # Out /\ UNCHANGED <<battery, shownLevel>>
        /\ reading' = [reading EXCEPT !.full = @ + Full[NextBat], !.remain = @ + charge[NextBat],
                                      !.todo = Others]
    BY <1>4, Zenon DEF ReadSys
  <2>2. Full[NextBat] \in Nat /\ charge[NextBat] \in 0 .. Full[NextBat] /\ Others \in SUBSET DOMAIN Bats
    BY <2>1, NextBatFacts
  <2>3. /\ reading.full + Full[NextBat] \in Nat /\ reading.remain + charge[NextBat] \in Nat
        /\ reading.remain + charge[NextBat] <= reading.full + Full[NextBat]
    BY <1>2, <2>2
  <2>4. /\ reading' \in BatReading /\ reading'.at = "sys" /\ reading'.now = reading.now
        /\ reading'.full = reading.full + Full[NextBat]
        /\ reading'.remain = reading.remain + charge[NextBat]
    BY <1>1, <1>2, <2>1, <2>2, <2>3 DEF BatReading
  <2>5. Divides'
    BY <2>3, <2>4 DEF Divides
  <2> QED
    BY <1>1, <2>1, <2>4, <2>5, ReadingKeeps
<1>5. CASE EndSys /\ ~GiveUp(reading.now)
  <2>1. reading.remain # 0 /\ Finish("sys", Level, reading.now)
    BY <1>5, Zenon DEF EndSys
  <2>2. Level \in Int /\ Level >= -1
    BY <1>2, <2>1, LevelIsPercentage
  <2> QED
    BY <1>1, <2>1, <2>2, FinishKeeps
<1> QED
  BY <1>3, <1>4, <1>5

LEMMA BatNextKeeps ==
  ASSUME BatInv, [BatteryNext]_batVars
  PROVE  BatInv'
<1>1. CASE ChangeBattery \/ Second \/ SetClockBack
  BY <1>1, BatEnvironmentKeeps
<1>2. CASE ReadInfo \/ ReadState
  BY <1>2, ReadProcKeeps
<1>3. CASE ReadSys \/ EndSys
  BY <1>3, SysKeeps
<1>4. CASE UNCHANGED batVars
  BY <1>4 DEF batVars, BatInv, BatTypes, Divides, TimeIsKept, LevelIsRecent
<1> QED
  BY <1>1, <1>2, <1>3, <1>4, ShowCachedKeeps, GetDataKeeps, EndInfoKeeps, EndStateKeeps, Zenon
     DEF BatteryNext

(* A percentage or n/a, read when it has to be and not more often, with     *)
(* batteries that come and go between any two files (Battery_getData).     *)
THEOREM LevelStaysRecent == BatterySpec => []LevelIsRecent
<1>1. BatteryInit => BatInv
  BY BatInitInv
<1>2. BatInv /\ [BatteryNext]_batVars => BatInv'
  BY BatNextKeeps
<1>3. BatInv => LevelIsRecent
  BY DEF BatInv
<1> QED
  BY <1>1, <1>2, <1>3, PTL DEF BatterySpec
-----------------------------------------------------------------------------
(* CpuTimes.                                                               *)

\* The counters that line k is about: those of a CPU, or the sums.
Now(k) == IF k = 0 THEN AllCpus ELSE ticks[k]

\* Guest time is a part of user time, and the kernel's counters only grow.
Counted(t) == /\ t \in [Fields -> Nat]
              /\ t["guest"] <= t["user"] /\ t["guestnice"] <= t["nice"]
Behind(t, u) == /\ \A f \in Fields : t[f] <= u[f]
                /\ t["user"] - t["guest"] <= u["user"] - u["guest"]
                /\ t["nice"] - t["guestnice"] <= u["nice"] - u["guestnice"]

LineReading == [of : Lines \cup {None}, raw : [Fields -> Nat], sane : BOOLEAN]
LineHist == [last : LineReading, passed : [Fields -> Int], sane : BOOLEAN]

\* A reading that can be trusted is not ahead of the kernel, and what is kept of it are its times.
LastIsBehind(i) ==
  LET l == cpuHist[i].last
  IN  l.sane => /\ l.of \in Lines /\ Counted(l.raw) /\ Behind(l.raw, Now(l.of))
                /\ Passed(l.raw) < Modulus
                /\ cpus[i].time = Times(l.raw)

CpuInv ==
  /\ CpuTypeOK
  /\ cpuEvents \in 0 .. MaxCpuEvents
  /\ ticks \in [Cpu -> [Fields -> Nat]]
  /\ cpuHist \in [Lines -> LineHist]
  /\ \A k \in Lines : Counted(Now(k)) /\ Passed(Now(k)) <= 8 * CpuCount + cpuEvents
  /\ \A i \in Lines : LastIsBehind(i)
  /\ \A i \in Lines : Sane(i) => PeriodAddsUp(cpus[i].period, cpuHist[i].passed)

LEMMA ModSmall ==
  ASSUME NEW a \in Nat, NEW b \in Nat \ {0}, a < b
  PROVE  a % b = a
BY Z3

LEMMA SumStep ==
  ASSUME NEW n \in Nat \ {0}, NEW a, \A k \in 1 .. n : a[k] \in Int
  PROVE  SumTo(a, n) = SumTo(a, n - 1) + a[n]
<1>1. PICK f : SumsUpTo(f, a, n) /\ SumTo(a, n) = f[n]
  BY SumFacts
<1> DEFINE g == [k \in 0 .. n - 1 |-> f[k]]
<1>2. n - 1 \in Nat /\ n - 1 \in 0 .. n - 1 /\ n \in 1 .. n /\ 0 \in 0 .. n - 1
      /\ \A k \in 0 .. n - 1 : k \in 0 .. n
  OBVIOUS
<1>3. \A k \in 1 .. n - 1 : k \in 1 .. n /\ k \in 0 .. n - 1 /\ k - 1 \in 0 .. n - 1
  OBVIOUS
<1>4. SumsUpTo(g, a, n - 1)
  BY <1>1, <1>2, <1>3 DEF SumsUpTo
<1>5. SumTo(a, n - 1) = g[n - 1]
  <2> HIDE DEF g
  <2> QED
    BY <1>2, <1>4, SumIsLast
<1> QED
  BY <1>1, <1>2, <1>5 DEF SumsUpTo

LEMMA SumOfNone ==
  ASSUME NEW a
  PROVE  SumTo(a, 0) = 0
<1>1. \A k \in 1 .. 0 : a[k] \in Int
  OBVIOUS
<1>2. PICK f : SumsUpTo(f, a, 0) /\ SumTo(a, 0) = f[0]
  BY <1>1, SumFacts
<1> QED
  BY <1>2 DEF SumsUpTo

LEMMA SumOfOnes ==
  ASSUME NEW n \in Nat, NEW a, \A k \in 1 .. n : a[k] = 1
  PROVE  SumTo(a, n) = n
<1> DEFINE f == [k \in 0 .. n |-> k]
<1>1. SumsUpTo(f, a, n)
  <2>1. \A k \in 1 .. n : k \in 0 .. n /\ k - 1 \in 0 .. n /\ k = (k - 1) + 1
    OBVIOUS
  <2> QED
    BY <2>1 DEF SumsUpTo
<1>2. SumTo(a, n) = f[n]
  <2> HIDE DEF f
  <2> QED
    BY <1>1, SumIsLast
<1> QED
  BY <1>2

\* The sums of the bars' first parts.
LEMMA SumOfSome ==
  ASSUME NEW n \in 1 .. 8, NEW a, \A k \in 1 .. n : a[k] \in Int
  PROVE  \A m \in 1 .. n :
           SumTo(a, m) = IF m = 1 THEN a[1] ELSE SumTo(a, m - 1) + a[m]
<1> SUFFICES ASSUME NEW m \in 1 .. n
             PROVE  SumTo(a, m) = IF m = 1 THEN a[1] ELSE SumTo(a, m - 1) + a[m]
  OBVIOUS
<1>1. m \in Nat \ {0} /\ a[m] \in Int /\ \A k \in 1 .. m : a[k] \in Int
  OBVIOUS
<1>2. SumTo(a, m) = SumTo(a, m - 1) + a[m]
  BY <1>1, SumStep
<1>3. CASE m = 1
  <2>1. m - 1 = 0
    BY <1>3
  <2>2. SumTo(a, m - 1) = 0
    BY <2>1, SumOfNone
  <2> QED
    BY <1>1, <1>2, <1>3, <2>2
<1> QED
  BY <1>2, <1>3

LEMMA PercentIs ==
  ASSUME NEW p \in [Parts -> Nat]
  PROVE  /\ Percent(p, FALSE, FALSE)
              = p["nice"] + p["user"] + p["systemAll"] + p["steal"] + p["guest"]
         /\ Percent(p, TRUE, FALSE)
              = p["nice"] + p["user"] + p["system"] + p["irq"] + p["softIrq"]
         /\ Percent(p, TRUE, TRUE)
              = p["nice"] + p["user"] + p["system"] + p["irq"] + p["softIrq"] + p["steal"] + p["guest"]
<1>1. \A q \in Parts : p[q] \in Nat
  OBVIOUS
<1>2. /\ p["nice"] \in Nat /\ p["user"] \in Nat /\ p["system"] \in Nat /\ p["irq"] \in Nat
      /\ p["softIrq"] \in Nat /\ p["steal"] \in Nat /\ p["guest"] \in Nat /\ p["systemAll"] \in Nat
  BY <1>1 DEF Parts
<1>3. Percent(p, FALSE, FALSE) = p["nice"] + p["user"] + p["systemAll"] + p["steal"] + p["guest"]
  <2> DEFINE a == <<p["nice"], p["user"], p["systemAll"], p["steal"] + p["guest"]>>
  <2>1. Percent(p, FALSE, FALSE) = SumTo(a, 4)
    BY DEF Percent, Values, Added
  <2>2. a[1] = p["nice"] /\ a[2] = p["user"] /\ a[3] = p["systemAll"] /\ a[4] = p["steal"] + p["guest"]
    OBVIOUS
  <2> HIDE DEF a
  <2>3. \A k \in 1 .. 4 : a[k] \in Int
    BY <1>2, <2>2
  <2>4. \A m \in 1 .. 4 : SumTo(a, m) = IF m = 1 THEN a[1] ELSE SumTo(a, m - 1) + a[m]
    BY <2>3, SumOfSome
  <2>5. SumTo(a, 1) = a[1] /\ SumTo(a, 2) = SumTo(a, 1) + a[2] /\ SumTo(a, 3) = SumTo(a, 2) + a[3]
        /\ SumTo(a, 4) = SumTo(a, 3) + a[4]
    BY <2>4
  <2>6. a[1] \in Int /\ a[2] \in Int /\ a[3] \in Int /\ a[4] \in Int
    BY <2>3
  <2>7. SumTo(a, 4) = a[1] + a[2] + a[3] + a[4]
    BY <2>5, <2>6
  <2>8. SumTo(a, 4) = p["nice"] + p["user"] + p["systemAll"] + (p["steal"] + p["guest"])
    BY <2>2, <2>7
  <2>9. \A n, u, y, t, g \in Int : n + u + y + (t + g) = n + u + y + t + g
    OBVIOUS
  <2>10. p["nice"] + p["user"] + p["systemAll"] + (p["steal"] + p["guest"])
         = p["nice"] + p["user"] + p["systemAll"] + p["steal"] + p["guest"]
    BY <1>2, <2>9
  <2> QED
    BY <2>1, <2>8, <2>10, Zenon
<1> DEFINE a == <<p["nice"], p["user"], p["system"], p["irq"], p["softIrq"], p["steal"], p["guest"], p["ioWait"]>>
<1>4. Percent(p, TRUE, FALSE) = SumTo(a, 5) /\ Percent(p, TRUE, TRUE) = SumTo(a, 7)
  BY DEF Percent, Values, Added
<1>5. /\ a[1] = p["nice"] /\ a[2] = p["user"] /\ a[3] = p["system"] /\ a[4] = p["irq"]
      /\ a[5] = p["softIrq"] /\ a[6] = p["steal"] /\ a[7] = p["guest"]
  OBVIOUS
<1> HIDE DEF a
<1>6. \A k \in 1 .. 7 : a[k] \in Int
  BY <1>2, <1>5
<1>7. \A m \in 1 .. 7 : SumTo(a, m) = IF m = 1 THEN a[1] ELSE SumTo(a, m - 1) + a[m]
  BY <1>6, SumOfSome
<1>8. /\ SumTo(a, 1) = a[1] /\ SumTo(a, 2) = SumTo(a, 1) + a[2] /\ SumTo(a, 3) = SumTo(a, 2) + a[3]
      /\ SumTo(a, 4) = SumTo(a, 3) + a[4] /\ SumTo(a, 5) = SumTo(a, 4) + a[5]
      /\ SumTo(a, 6) = SumTo(a, 5) + a[6] /\ SumTo(a, 7) = SumTo(a, 6) + a[7]
  BY <1>7
<1>9. /\ SumTo(a, 5) = p["nice"] + p["user"] + p["system"] + p["irq"] + p["softIrq"]
      /\ SumTo(a, 7) = SumTo(a, 5) + p["steal"] + p["guest"]
  BY <1>2, <1>5, <1>8
<1> QED
  BY <1>2, <1>3, <1>4, <1>9

\* A tick is one more in what can be compared, whichever counter it is.
LEMMA AfterFacts ==
  ASSUME NEW t, Counted(t), NEW f
  PROVE  Counted(After(t, f)) /\ Behind(t, After(t, f)) /\ Passed(After(t, f)) <= Passed(t) + 1
<1> DEFINE u == After(t, f)
<1>1. \A g \in Fields : t[g] \in Nat /\ u[g] = IF g \in Counters(f) THEN t[g] + 1 ELSE t[g]
  BY DEF Counted, After
<1>2. u \in [Fields -> Nat]
  <2>1. \A g \in Fields : (IF g \in Counters(f) THEN t[g] + 1 ELSE t[g]) \in Nat
    BY <1>1
  <2> QED
    BY <2>1 DEF After
<1>3. t["guest"] <= t["user"] /\ t["guestnice"] <= t["nice"]
  BY DEF Counted
<1> HIDE DEF u
<1>4. \A g \in Fields : t[g] <= u[g]
  BY <1>1
<1>5. /\ u["user"] = t["user"] + IF f \in {"user", "guest"} THEN 1 ELSE 0
      /\ u["nice"] = t["nice"] + IF f \in {"nice", "guestnice"} THEN 1 ELSE 0
      /\ u["guest"] = t["guest"] + IF f = "guest" THEN 1 ELSE 0
      /\ u["guestnice"] = t["guestnice"] + IF f = "guestnice" THEN 1 ELSE 0
      /\ u["system"] = t["system"] + IF f = "system" THEN 1 ELSE 0
      /\ u["idle"] = t["idle"] + IF f = "idle" THEN 1 ELSE 0
      /\ u["iowait"] = t["iowait"] + IF f = "iowait" THEN 1 ELSE 0
      /\ u["irq"] = t["irq"] + IF f = "irq" THEN 1 ELSE 0
      /\ u["softirq"] = t["softirq"] + IF f = "softirq" THEN 1 ELSE 0
      /\ u["steal"] = t["steal"] + IF f = "steal" THEN 1 ELSE 0
  BY <1>1 DEF Fields, Counters
<1>6. t \in [Fields -> Nat]
  BY DEF Counted
<1>7. /\ t["user"] \in Nat /\ t["nice"] \in Nat /\ t["system"] \in Nat /\ t["idle"] \in Nat
      /\ t["iowait"] \in Nat /\ t["irq"] \in Nat /\ t["softirq"] \in Nat /\ t["steal"] \in Nat
      /\ t["guest"] \in Nat /\ t["guestnice"] \in Nat
  BY <1>6 DEF Fields
<1>8. Counted(u)
  BY <1>2, <1>3, <1>5, <1>7 DEF Counted
<1>9. Behind(t, u)
  BY <1>4, <1>5, <1>7 DEF Behind
<1>10. Passed(u) <= Passed(t) + 1
  BY <1>5, <1>7 DEF Passed
<1> QED
  BY <1>8, <1>9, <1>10 DEF u

\* Nothing wraps in the times of a line whose counters can be trusted.
LEMMA TimesAre ==
  ASSUME NEW raw, Counted(raw), Passed(raw) < Modulus
  PROVE  /\ Times(raw)["user"] = raw["user"] - raw["guest"]
         /\ Times(raw)["nice"] = raw["nice"] - raw["guestnice"]
         /\ Times(raw)["systemAll"] = raw["system"] + raw["irq"] + raw["softirq"]
         /\ Times(raw)["idleAll"] = raw["idle"] + raw["iowait"]
         /\ Times(raw)["guest"] = raw["guest"] + raw["guestnice"]
         /\ Times(raw)["steal"] = raw["steal"] /\ Times(raw)["system"] = raw["system"]
         /\ Times(raw)["irq"] = raw["irq"] /\ Times(raw)["softIrq"] = raw["softirq"]
         /\ Times(raw)["idle"] = raw["idle"] /\ Times(raw)["ioWait"] = raw["iowait"]
         /\ Times(raw)["total"] = Passed(raw)
<1>0. raw \in [Fields -> Nat] /\ raw["guest"] <= raw["user"] /\ raw["guestnice"] <= raw["nice"]
  BY DEF Counted
<1>1. /\ raw["user"] \in Nat /\ raw["nice"] \in Nat /\ raw["system"] \in Nat /\ raw["idle"] \in Nat
      /\ raw["iowait"] \in Nat /\ raw["irq"] \in Nat /\ raw["softirq"] \in Nat /\ raw["steal"] \in Nat
      /\ raw["guest"] \in Nat /\ raw["guestnice"] \in Nat
  BY <1>0 DEF Fields
<1>2. Modulus \in Nat \ {0}
  BY <1>1, CpuAssumption DEF Passed
<1> DEFINE user == raw["user"] - raw["guest"]
           nice == raw["nice"] - raw["guestnice"]
           total == user + nice + (raw["system"] + raw["irq"] + raw["softirq"])
                    + (raw["idle"] + raw["iowait"]) + raw["steal"] + (raw["guest"] + raw["guestnice"])
<1>3. user \in Nat /\ user < Modulus /\ nice \in Nat /\ nice < Modulus
  BY <1>0, <1>1, <1>2 DEF Passed
<1>4. total \in Nat /\ total < Modulus /\ total = Passed(raw)
  BY <1>0, <1>1, <1>2 DEF Passed
<1>5. user % Modulus = user /\ nice % Modulus = nice
  <2> HIDE DEF user, nice
  <2> QED
    BY <1>2, <1>3, ModSmall
<1>6. total % Modulus = total
  <2> HIDE DEF total
  <2> QED
    BY <1>2, <1>4, ModSmall
<1> QED
  BY <1>4, <1>5, <1>6 DEF Times

LEMMA ModIn ==
  ASSUME NEW a \in Int, NEW b \in Nat \ {0}
  PROVE  a % b \in 0 .. b - 1
OBVIOUS

LEMMA TimesFit ==
  ASSUME NEW raw \in [Fields -> Nat],
         \A f \in Fields : raw[f] < Modulus,
         raw["system"] + raw["irq"] + raw["softirq"] < Modulus,
         raw["idle"] + raw["iowait"] < Modulus,
         raw["guest"] + raw["guestnice"] < Modulus
  PROVE  Times(raw) \in [Parts -> 0 .. Modulus - 1]
<1>1. /\ raw["user"] \in Nat /\ raw["nice"] \in Nat /\ raw["system"] \in Nat /\ raw["idle"] \in Nat
      /\ raw["iowait"] \in Nat /\ raw["irq"] \in Nat /\ raw["softirq"] \in Nat /\ raw["steal"] \in Nat
      /\ raw["guest"] \in Nat /\ raw["guestnice"] \in Nat
  BY DEF Fields
<1>2. Modulus \in Nat \ {0}
  BY <1>1, CpuAssumption
<1>3. /\ raw["system"] < Modulus /\ raw["irq"] < Modulus /\ raw["softirq"] < Modulus
      /\ raw["idle"] < Modulus /\ raw["iowait"] < Modulus /\ raw["steal"] < Modulus
  BY DEF Fields
<1> DEFINE user == (raw["user"] - raw["guest"]) % Modulus
           nice == (raw["nice"] - raw["guestnice"]) % Modulus
           sum == user + nice + (raw["system"] + raw["irq"] + raw["softirq"])
                  + (raw["idle"] + raw["iowait"]) + raw["steal"] + (raw["guest"] + raw["guestnice"])
           total == sum % Modulus
<1>4. user \in 0 .. Modulus - 1 /\ nice \in 0 .. Modulus - 1
  <2>1. raw["user"] - raw["guest"] \in Int /\ raw["nice"] - raw["guestnice"] \in Int
    BY <1>1
  <2> QED
    BY <1>2, <2>1, ModIn
<1>5. total \in 0 .. Modulus - 1
  <2>1. sum \in Int
    <3> HIDE DEF user, nice
    <3> QED
      BY <1>1, <1>2, <1>4
  <2> HIDE DEF sum
  <2> QED
    BY <1>2, <2>1, ModIn
<1>6. Times(raw) = [user |-> user, nice |-> nice,
                    systemAll |-> raw["system"] + raw["irq"] + raw["softirq"],
                    idleAll |-> raw["idle"] + raw["iowait"],
                    guest |-> raw["guest"] + raw["guestnice"], steal |-> raw["steal"],
                    system |-> raw["system"], irq |-> raw["irq"], softIrq |-> raw["softirq"],
                    idle |-> raw["idle"], ioWait |-> raw["iowait"], total |-> total]
  BY Zenon DEF Times
<1> HIDE DEF user, nice, total
<1> DEFINE sys == raw["system"] + raw["irq"] + raw["softirq"]
           idl == raw["idle"] + raw["iowait"]
           gst == raw["guest"] + raw["guestnice"]
           I == 0 .. Modulus - 1
<1>7. /\ sys \in I /\ idl \in I /\ gst \in I /\ raw["steal"] \in I /\ raw["system"] \in I
      /\ raw["irq"] \in I /\ raw["softirq"] \in I /\ raw["idle"] \in I /\ raw["iowait"] \in I
      /\ user \in I /\ nice \in I /\ total \in I
  BY <1>1, <1>2, <1>3, <1>4, <1>5
<1>8. Times(raw) = [user |-> user, nice |-> nice, systemAll |-> sys, idleAll |-> idl, guest |-> gst,
                    steal |-> raw["steal"], system |-> raw["system"], irq |-> raw["irq"],
                    softIrq |-> raw["softirq"], idle |-> raw["idle"], ioWait |-> raw["iowait"],
                    total |-> total]
  BY <1>6
<1> HIDE DEF sys, idl, gst, I
<1> QED
  BY <1>7, <1>8 DEF Parts, I

\* The times of two readings that can be trusted, one of which is not ahead of the other.
LEMMA DifferencesAddUp ==
  ASSUME NEW p \in [Parts -> Nat], NEW d, NEW old, NEW new,
         Counted(old), Passed(old) < Modulus, Counted(new), Passed(new) < Modulus, Behind(old, new),
         \A q \in Parts : p[q] = Since(Times(new)[q], Times(old)[q]),
         \A f \in Fields : d[f] = new[f] - old[f]
  PROVE  PeriodAddsUp(p, d)
<1>1. /\ old \in [Fields -> Nat] /\ old["guest"] <= old["user"] /\ old["guestnice"] <= old["nice"]
      /\ new \in [Fields -> Nat] /\ new["guest"] <= new["user"] /\ new["guestnice"] <= new["nice"]
  BY DEF Counted
<1>2. /\ old["user"] \in Nat /\ old["nice"] \in Nat /\ old["system"] \in Nat /\ old["idle"] \in Nat
      /\ old["iowait"] \in Nat /\ old["irq"] \in Nat /\ old["softirq"] \in Nat /\ old["steal"] \in Nat
      /\ old["guest"] \in Nat /\ old["guestnice"] \in Nat
  BY <1>1 DEF Fields
<1>3. /\ new["user"] \in Nat /\ new["nice"] \in Nat /\ new["system"] \in Nat /\ new["idle"] \in Nat
      /\ new["iowait"] \in Nat /\ new["irq"] \in Nat /\ new["softirq"] \in Nat /\ new["steal"] \in Nat
      /\ new["guest"] \in Nat /\ new["guestnice"] \in Nat
  BY <1>1 DEF Fields
<1>4. /\ old["user"] <= new["user"] /\ old["nice"] <= new["nice"] /\ old["system"] <= new["system"]
      /\ old["idle"] <= new["idle"] /\ old["iowait"] <= new["iowait"] /\ old["irq"] <= new["irq"]
      /\ old["softirq"] <= new["softirq"] /\ old["steal"] <= new["steal"]
      /\ old["guest"] <= new["guest"] /\ old["guestnice"] <= new["guestnice"]
      /\ old["user"] - old["guest"] <= new["user"] - new["guest"]
      /\ old["nice"] - old["guestnice"] <= new["nice"] - new["guestnice"]
  BY DEF Behind, Fields
<1>5. /\ d["user"] = new["user"] - old["user"] /\ d["nice"] = new["nice"] - old["nice"]
      /\ d["system"] = new["system"] - old["system"] /\ d["idle"] = new["idle"] - old["idle"]
      /\ d["iowait"] = new["iowait"] - old["iowait"] /\ d["irq"] = new["irq"] - old["irq"]
      /\ d["softirq"] = new["softirq"] - old["softirq"] /\ d["steal"] = new["steal"] - old["steal"]
      /\ d["guest"] = new["guest"] - old["guest"] /\ d["guestnice"] = new["guestnice"] - old["guestnice"]
  BY DEF Fields
<1>6. \A q \in Parts : p[q] = Since(Times(new)[q], Times(old)[q])
  OBVIOUS
<1>7. \A a, b \in Int : b <= a => Since(a, b) = a - b
  BY DEF Since
<1>8. p["user"] = d["user"] - d["guest"] /\ p["nice"] = d["nice"] - d["guestnice"]
  <2>1. /\ p["user"] = Since(new["user"] - new["guest"], old["user"] - old["guest"])
        /\ p["nice"] = Since(new["nice"] - new["guestnice"], old["nice"] - old["guestnice"])
    BY <1>6, TimesAre DEF Parts
  <2> QED
    BY <1>2, <1>3, <1>4, <1>5, <1>7, <2>1
<1>9. /\ p["systemAll"] = d["system"] + d["irq"] + d["softirq"]
      /\ p["idleAll"] = d["idle"] + d["iowait"]
      /\ p["guest"] = d["guest"] + d["guestnice"]
  <2>1. /\ p["systemAll"] = Since(new["system"] + new["irq"] + new["softirq"],
                                  old["system"] + old["irq"] + old["softirq"])
        /\ p["idleAll"] = Since(new["idle"] + new["iowait"], old["idle"] + old["iowait"])
        /\ p["guest"] = Since(new["guest"] + new["guestnice"], old["guest"] + old["guestnice"])
    BY <1>6, TimesAre DEF Parts
  <2>2. p["systemAll"] = d["system"] + d["irq"] + d["softirq"]
    <3>1. /\ new["system"] + new["irq"] + new["softirq"] \in Int
          /\ old["system"] + old["irq"] + old["softirq"] \in Int
          /\ old["system"] + old["irq"] + old["softirq"] <= new["system"] + new["irq"] + new["softirq"]
      BY <1>2, <1>3, <1>4
    <3>2. p["systemAll"] = (new["system"] + new["irq"] + new["softirq"])
                           - (old["system"] + old["irq"] + old["softirq"])
      BY <1>7, <2>1, <3>1
    <3> QED
      BY <1>2, <1>3, <1>5, <3>2
  <2>3. p["idleAll"] = d["idle"] + d["iowait"]
    BY <1>2, <1>3, <1>4, <1>5, <1>7, <2>1
  <2>4. p["guest"] = d["guest"] + d["guestnice"]
    BY <1>2, <1>3, <1>4, <1>5, <1>7, <2>1
  <2> QED
    BY <2>2, <2>3, <2>4
<1>10. /\ p["steal"] = d["steal"] /\ p["system"] = d["system"] /\ p["irq"] = d["irq"]
       /\ p["softIrq"] = d["softirq"]
  <2>1. /\ p["steal"] = Since(new["steal"], old["steal"])
        /\ p["system"] = Since(new["system"], old["system"])
        /\ p["irq"] = Since(new["irq"], old["irq"])
        /\ p["softIrq"] = Since(new["softirq"], old["softirq"])
    BY <1>6, TimesAre DEF Parts
  <2> QED
    BY <1>2, <1>3, <1>4, <1>5, <1>7, <2>1
<1>11. p["total"] = Passed(d)
  <2>1. p["total"] = Since(Passed(new), Passed(old))
    BY <1>6, TimesAre DEF Parts
  <2>2. Passed(old) \in Int /\ Passed(new) \in Int /\ Passed(old) <= Passed(new)
    BY <1>2, <1>3, <1>4 DEF Passed
  <2>3. Passed(new) - Passed(old) = Passed(d)
    <3> QED
      BY <1>2, <1>3, <1>5 DEF Passed
  <2> QED
    BY <1>7, <2>1, <2>2, <2>3
<1>12. /\ Percent(p, FALSE, FALSE)
              = p["nice"] + p["user"] + p["systemAll"] + p["steal"] + p["guest"]
       /\ Percent(p, TRUE, FALSE)
              = p["nice"] + p["user"] + p["system"] + p["irq"] + p["softIrq"]
       /\ Percent(p, TRUE, TRUE)
              = p["nice"] + p["user"] + p["system"] + p["irq"] + p["softIrq"] + p["steal"] + p["guest"]
  BY PercentIs
<1>13. /\ d["user"] \in Int /\ d["nice"] \in Int /\ d["system"] \in Int /\ d["idle"] \in Int
       /\ d["iowait"] \in Int /\ d["irq"] \in Int /\ d["softirq"] \in Int /\ d["steal"] \in Int
       /\ d["guest"] \in Int /\ d["guestnice"] \in Int
  BY <1>2, <1>3, <1>5
<1>14. p["total"] = d["user"] + d["nice"] + d["system"] + d["idle"] + d["iowait"] + d["irq"]
                   + d["softirq"] + d["steal"]
  BY <1>11 DEF Passed
<1>15. p["total"] = p["user"] + p["nice"] + p["systemAll"] + p["idleAll"] + p["steal"] + p["guest"]
  BY <1>8, <1>9, <1>10, <1>13, <1>14
<1>16. p["guest"] = PassedInGuests(d)
  BY <1>9 DEF PassedInGuests
<1>17. Percent(p, FALSE, FALSE) = p["total"] - p["idleAll"]
  <2>1. p["nice"] + p["user"] + p["systemAll"] + p["steal"] + p["guest"] = p["total"] - p["idleAll"]
    BY <1>8, <1>9, <1>10, <1>13, <1>14
  <2> QED
    BY <1>12, <2>1, Zenon
<1>18. Percent(p, TRUE, TRUE) = p["total"] - p["idleAll"]
  <2>1. p["nice"] + p["user"] + p["system"] + p["irq"] + p["softIrq"] + p["steal"] + p["guest"]
          = p["total"] - p["idleAll"]
    BY <1>8, <1>9, <1>10, <1>13, <1>14
  <2> QED
    BY <1>12, <2>1, Zenon
<1>19. Percent(p, TRUE, FALSE) = p["total"] - p["idleAll"] - p["steal"] - p["guest"]
  <2>1. p["nice"] + p["user"] + p["system"] + p["irq"] + p["softIrq"]
          = p["total"] - p["idleAll"] - p["steal"] - p["guest"]
    BY <1>8, <1>9, <1>10, <1>13, <1>14
  <2> QED
    BY <1>12, <2>1, Zenon
<1> QED
  BY <1>11, <1>15, <1>16, <1>17, <1>18, <1>19 DEF PeriodAddsUp

LEMMA SumOfNaturals ==
  ASSUME NEW n \in Nat, NEW a, \A k \in 1 .. n : a[k] \in Nat
  PROVE  SumTo(a, n) \in Nat
<1> DEFINE z == [k \in 1 .. n |-> 0]
           f == [k \in 0 .. n |-> 0]
<1>1. SumsUpTo(f, z, n)
  <2>1. \A k \in 1 .. n : k \in 0 .. n /\ k - 1 \in 0 .. n
    OBVIOUS
  <2> QED
    BY <2>1 DEF SumsUpTo
<1>2. SumTo(z, n) = f[n]
  <2> HIDE DEF f, z
  <2> QED
    BY <1>1, SumIsLast
<1>3. SumTo(z, n) = 0
  BY <1>2
<1>4. \A k \in 1 .. n : z[k] \in Int /\ a[k] \in Int /\ z[k] <= a[k]
  OBVIOUS
<1>5. SumTo(z, n) <= SumTo(a, n)
  <2> HIDE DEF z
  <2> QED
    BY <1>4, SumIsMonotonic
<1>6. SumTo(a, n) \in Int
  BY SumIsInt
<1> QED
  BY <1>3, <1>5, <1>6

LEMMA CpuNumbers == CpuCount \in Nat /\ CpuCount >= 1 /\ Cpu = 1 .. CpuCount /\ Lines = 0 .. CpuCount
                    /\ None = CpuCount + 1 /\ MaxCpuEvents \in Nat /\ Modulus \in Nat
                    /\ Modulus > 10 * CpuCount + 2 * MaxCpuEvents
BY CpuAssumption DEF Cpu, Lines, None

LEMMA AllCpusFacts ==
  ASSUME NEW T \in [Cpu -> [Fields -> Nat]]
  PROVE  [f \in Fields |-> SumTo([c \in Cpu |-> T[c][f]], CpuCount)] \in [Fields -> Nat]
<1>1. ASSUME NEW g \in Fields
      PROVE  SumTo([c \in Cpu |-> T[c][g]], CpuCount) \in Nat
  <2> DEFINE a == [c \in Cpu |-> T[c][g]]
  <2>1. \A k \in 1 .. CpuCount : a[k] \in Nat
    BY CpuNumbers
  <2> HIDE DEF a
  <2>2. SumTo(a, CpuCount) \in Nat
    BY <2>1, SumOfNaturals, CpuNumbers
  <2> QED
    BY <2>2 DEF a
<1> QED
  BY <1>1

\* The sums change by what one CPU's counters change.
LEMMA AllCpusChanged ==
  ASSUME ticks \in [Cpu -> [Fields -> Nat]], NEW c \in Cpu, NEW new \in [Fields -> Nat],
         ticks' = [ticks EXCEPT ![c] = new]
  PROVE  \A g \in Fields : (AllCpus')[g] = AllCpus[g] + (new[g] - ticks[c][g])
<1> SUFFICES ASSUME NEW g \in Fields
             PROVE  (AllCpus')[g] = AllCpus[g] + (new[g] - ticks[c][g])
  OBVIOUS
<1> DEFINE a == [k \in Cpu |-> ticks[k][g]]
           b == [k \in Cpu |-> (ticks')[k][g]]
           d == new[g] - ticks[c][g]
<1>1. AllCpus[g] = SumTo(a, CpuCount) /\ (AllCpus')[g] = SumTo(b, CpuCount)
  BY DEF AllCpus
<1>2. \A k \in Cpu : ticks[k][g] \in Nat
  OBVIOUS
<1>3. new[g] \in Nat /\ d \in Int
  BY <1>2
<1>4. \A k \in Cpu : a[k] \in Int /\ b[k] = IF k = c THEN a[k] + d ELSE a[k]
  <2>1. \A k \in Cpu : b[k] = IF k = c THEN new[g] ELSE ticks[k][g]
    OBVIOUS
  <2> QED
    BY <1>2, <1>3, <2>1
<1> HIDE DEF a, b, d
<1>5. CpuCount \in Nat /\ c \in 1 .. CpuCount /\ d \in Int
      /\ \A k \in 1 .. CpuCount : a[k] \in Int /\ b[k] = IF k = c THEN a[k] + d ELSE a[k]
  BY <1>3, <1>4, CpuNumbers
<1>6. SumTo(b, CpuCount) = SumTo(a, CpuCount) + d
  <2>1. \A n \in Nat : \A e \in 1 .. n, f \in Int :
          (\A k \in 1 .. n : a[k] \in Int /\ b[k] = IF k = e THEN a[k] + f ELSE a[k])
            => SumTo(b, n) = SumTo(a, n) + f
    BY SumChanged
  <2> QED
    BY <1>5, <2>1
<1> QED
  BY <1>1, <1>6 DEF d

LEMMA BehindSelf == ASSUME NEW t, Counted(t) PROVE Behind(t, t)
<1>1. t \in [Fields -> Nat]
  BY DEF Counted
<1>2. /\ t["user"] \in Nat /\ t["nice"] \in Nat /\ t["guest"] \in Nat /\ t["guestnice"] \in Nat
  BY <1>1 DEF Fields
<1> QED
  BY <1>1, <1>2 DEF Behind

LEMMA BehindTransitive ==
  ASSUME NEW t, NEW u, NEW v, Counted(t), Counted(u), Counted(v), Behind(t, u), Behind(u, v)
  PROVE  Behind(t, v)
<1>1. t \in [Fields -> Nat] /\ u \in [Fields -> Nat] /\ v \in [Fields -> Nat]
  BY DEF Counted
<1>2. /\ t["user"] \in Nat /\ t["nice"] \in Nat /\ t["guest"] \in Nat /\ t["guestnice"] \in Nat
      /\ u["user"] \in Nat /\ u["nice"] \in Nat /\ u["guest"] \in Nat /\ u["guestnice"] \in Nat
      /\ v["user"] \in Nat /\ v["nice"] \in Nat /\ v["guest"] \in Nat /\ v["guestnice"] \in Nat
  BY <1>1 DEF Fields
<1>3. \A f \in Fields : t[f] <= v[f]
  <2> SUFFICES ASSUME NEW f \in Fields PROVE t[f] <= v[f]
    OBVIOUS
  <2>1. t[f] \in Nat /\ u[f] \in Nat /\ v[f] \in Nat /\ t[f] <= u[f] /\ u[f] <= v[f]
    BY <1>1 DEF Behind
  <2> QED
    BY <2>1
<1> QED
  BY <1>2, <1>3 DEF Behind

(* What the environment does keeps all, when it makes counters smaller only *)
(* of lines whose last reading is not trusted any more.                     *)
LEMMA KernelKeeps ==
  ASSUME CpuInv, cpus' = cpus, cpuEvents' \in 0 .. MaxCpuEvents,
         online' \subseteq Cpu, online' # {},
         (ticks') \in [Cpu -> [Fields -> Nat]],
         \A k \in Lines : Counted(Now(k)') /\ Passed(Now(k)') <= 8 * CpuCount + cpuEvents',
         (cpuHist') \in [Lines -> LineHist],
         \A i \in Lines : /\ (cpuHist')[i].sane = cpuHist[i].sane
                          /\ (cpuHist')[i].passed = cpuHist[i].passed
                          /\ (cpuHist')[i].last.sane =>
                               /\ (cpuHist')[i].last = cpuHist[i].last
                               /\ cpuHist[i].last.of \in Lines =>
                                    \A k \in {cpuHist[i].last.of} : Behind(Now(k), Now(k)')
  PROVE  CpuInv'
<1>1. CpuTypeOK'
  BY DEF CpuInv, CpuTypeOK
<1>2. ASSUME NEW i \in Lines
      PROVE  LastIsBehind(i)'
  <2> DEFINE l == cpuHist[i].last
             k == l.of
  <2> SUFFICES ASSUME ((cpuHist')[i].last).sane
               PROVE  LastIsBehind(i)'
    BY DEF LastIsBehind
  <2>1. (cpuHist')[i].last = l
    OBVIOUS
  <2>2. l.of \in Lines /\ Counted(l.raw) /\ Behind(l.raw, Now(k)) /\ Passed(l.raw) < Modulus
        /\ cpus[i].time = Times(l.raw)
    BY <2>1 DEF CpuInv, LastIsBehind
  <2>3. \E n \in Lines : n = k /\ Behind(Now(n), Now(n)')
    BY <2>1, <2>2
  <2>4. PICK n \in Lines : n = k /\ Behind(Now(n), Now(n)')
    BY <2>3
  <2>5. Counted(Now(n)) /\ Counted(Now(n)')
    BY <2>4 DEF CpuInv
  <2>6. Behind(l.raw, Now(n)')
    BY <2>2, <2>4, <2>5, BehindTransitive
  <2>7. (cpuHist')[i].last.of = n /\ (cpuHist')[i].last.raw = l.raw
    BY <2>1, <2>4
  <2>8. Now(n)' = IF n = 0 THEN AllCpus' ELSE (ticks')[n]
    BY DEF Now
  <2> QED
    BY <2>2, <2>4, <2>6, <2>7, <2>8 DEF LastIsBehind, Now
<1>3. ASSUME NEW i \in Lines, Sane(i)'
      PROVE  PeriodAddsUp(cpus[i].period, cpuHist[i].passed)'
  <2>1. Sane(i) /\ (cpuHist')[i].passed = cpuHist[i].passed
    BY <1>3 DEF Sane
  <2>2. PeriodAddsUp(cpus[i].period, cpuHist[i].passed)
    BY <2>1 DEF CpuInv
  <2> QED
    BY <2>1, <2>2
<1> QED
  BY <1>1, <1>2, <1>3 DEF CpuInv

(* Whoever is at the n-th of some places has n - 1 of them before him. *)
LEMMA PlaceOfRank ==
  ASSUME NEW S \in SUBSET Nat, IsFiniteSet(S), NEW n \in 1 .. Cardinality(S)
  PROVE  \E i \in S : Cardinality({j \in S : j <= i}) = n
<1> DEFINE below(i) == {j \in S : j <= i}
           f == [i \in S |-> Cardinality(below(i))]
           N == Cardinality(S)
<1>1. N \in Nat
  BY FS_CardinalityType
<1>2. \A i \in S : /\ IsFiniteSet(below(i))
                   /\ Cardinality(below(i)) \in 1 .. N
  <2> SUFFICES ASSUME NEW i \in S
               PROVE  IsFiniteSet(below(i)) /\ Cardinality(below(i)) \in 1 .. N
    OBVIOUS
  <2>1. below(i) \in SUBSET S /\ i \in below(i)
    OBVIOUS
  <2>2. IsFiniteSet(below(i)) /\ Cardinality(below(i)) <= N
    BY <2>1, FS_Subset
  <2>3. Cardinality(below(i)) \in Nat /\ Cardinality(below(i)) # 0
    BY <2>1, <2>2, FS_CardinalityType, FS_EmptySet
  <2> QED
    BY <1>1, <2>2, <2>3
<1>3. \A i, k \in S : i < k => f[i] # f[k]
  <2> SUFFICES ASSUME NEW i \in S, NEW k \in S, i < k,
                      Cardinality(below(i)) = Cardinality(below(k))
               PROVE  FALSE
    OBVIOUS
  <2>0. i \in Nat /\ k \in Nat /\ \A j \in S : j \in Nat
    OBVIOUS
  <2>1. below(i) \in SUBSET below(k) /\ k \in below(k) /\ k \notin below(i)
    <3>1. below(i) \in SUBSET below(k)
      <4> SUFFICES ASSUME NEW j \in S, j <= i
                   PROVE  j <= k
        OBVIOUS
      <4>1. j \in Nat
        BY <2>0
      <4> QED
        BY <2>0, <4>1
    <3>2. k \in below(k)
      BY <2>0
    <3>3. k \notin below(i)
      BY <2>0
    <3> QED
      BY <3>1, <3>2, <3>3
  <2>2. IsFiniteSet(below(k))
    BY <1>2
  <2> HIDE DEF below
  <2>3. below(k) = below(i)
    BY <2>1, <2>2, FS_Subset
  <2> QED
    BY <2>1, <2>3
<1>4. f \in Injection(S, 1 .. N)
  <2>1. f \in [S -> 1 .. N]
    BY <1>2
  <2>2. \A i, k \in S : f[i] = f[k] => i = k
    BY <1>3
  <2> HIDE DEF f
  <2> QED
    BY <2>1, <2>2 DEF Injection, IsInjective
<1>5. IsFiniteSet(1 .. N) /\ Cardinality(1 .. N) = N
  BY <1>1, FS_Interval
<1>6. f \in Surjection(S, 1 .. N)
  BY <1>4, <1>5, FS_Injection
<1>7. PICK i \in S : f[i] = n
  BY <1>6 DEF Surjection
<1> QED
  BY <1>7

LEMMA CpuTickKeeps ==
  ASSUME CpuInv, CpuTick
  PROVE  CpuInv'
<1>1. PICK t \in Ticked : t[1] \in online /\ ticks' = [ticks EXCEPT ![t[1]] = After(@, t[2])]
  BY DEF CpuTick
<1> DEFINE c == t[1]
           f == t[2]
<1>2. cpus' = cpus /\ cpuHist' = cpuHist /\ online' = online /\ cpuEvents' = cpuEvents + 1
      /\ cpuEvents < MaxCpuEvents
  BY DEF CpuTick, CpuEvent
<1>3. c \in Cpu /\ cpuEvents \in Nat /\ cpuEvents' \in 0 .. MaxCpuEvents
  <2>1. c \in Cpu
    BY <1>1 DEF CpuInv, CpuTypeOK
  <2>2. cpuEvents \in 0 .. MaxCpuEvents
    BY DEF CpuInv
  <2> QED
    BY <1>2, <2>1, <2>2, CpuNumbers
<1>4. ticks \in [Cpu -> [Fields -> Nat]] /\ ticks' = [ticks EXCEPT ![c] = After(ticks[c], f)]
  BY <1>1 DEF CpuInv
<1>5. \A k \in Lines : Counted(Now(k)) /\ Passed(Now(k)) <= 8 * CpuCount + cpuEvents
  BY DEF CpuInv
<1>6. c \in Lines /\ c # 0 /\ 0 \in Lines
  BY <1>3, CpuNumbers
<1>7. Now(c) = ticks[c] /\ Now(0) = AllCpus /\ Now(c)' = (ticks')[c] /\ Now(0)' = AllCpus'
  BY <1>6 DEF Now
<1>8. After(ticks[c], f) \in [Fields -> Nat]
  BY <1>5, <1>6, <1>7, AfterFacts DEF Counted
<1>9. (ticks')[c] = After(ticks[c], f) /\ ticks' \in [Cpu -> [Fields -> Nat]]
  BY <1>3, <1>4, <1>8
<1>10. AllCpus' = After(AllCpus, f)
  <2>1. \A g \in Fields : (AllCpus')[g] = AllCpus[g] + (After(ticks[c], f)[g] - ticks[c][g])
    BY <1>3, <1>4, <1>8, AllCpusChanged
  <2>2. AllCpus \in [Fields -> Nat] /\ AllCpus' \in [Fields -> Nat]
    BY <1>4, <1>9, AllCpusFacts DEF AllCpus
  <2>3. \A g \in Fields : ticks[c][g] \in Nat
    BY <1>3, <1>4
  <2>4. \A g \in Fields : (AllCpus')[g] = IF g \in Counters(f) THEN AllCpus[g] + 1 ELSE AllCpus[g]
    BY <2>1, <2>2, <2>3 DEF After
  <2> QED
    BY <2>2, <2>4 DEF After
<1>11. ASSUME NEW k \in Lines
       PROVE  Now(k)' = IF k \in {0, c} THEN After(Now(k), f) ELSE Now(k)
  <2>1. CASE k = 0
    BY <1>7, <1>10, <2>1
  <2>2. CASE k = c
    BY <1>7, <1>9, <2>2
  <2>3. CASE k # 0 /\ k # c
    <3>1. (ticks')[k] = ticks[k]
      BY <1>3, <1>4, <2>3, CpuNumbers
    <3> QED
      BY <2>3, <3>1 DEF Now
  <2> QED
    BY <2>1, <2>2, <2>3
<1>12. ASSUME NEW k \in Lines
       PROVE  Counted(Now(k)') /\ Passed(Now(k)') <= 8 * CpuCount + cpuEvents' /\ Behind(Now(k), Now(k)')
  <2>1. Counted(Now(k)) /\ Passed(Now(k)) <= 8 * CpuCount + cpuEvents /\ Passed(Now(k)) \in Int
    <3>1. \A u : Counted(u) => Passed(u) \in Int
      BY DEF Counted, Passed, Fields
    <3> QED
      BY <1>5, <3>1
  <2>2. CASE k \in {0, c}
    <3>1. Counted(After(Now(k), f)) /\ Behind(Now(k), After(Now(k), f))
          /\ Passed(After(Now(k), f)) <= Passed(Now(k)) + 1
      BY <2>1, AfterFacts
    <3>2. Passed(After(Now(k), f)) \in Int
      BY <3>1 DEF Counted, Passed, Fields
    <3>3. Now(k)' = After(Now(k), f)
      BY <1>11, <2>2
    <3>4. Passed(After(Now(k), f)) <= 8 * CpuCount + cpuEvents'
      BY <1>2, <1>3, <2>1, <3>1, <3>2, CpuNumbers
    <3> QED
      BY <3>1, <3>3, <3>4
  <2>3. CASE k \notin {0, c}
    <3>1. Now(k)' = Now(k)
      BY <1>11, <2>3
    <3>2. Passed(Now(k)) <= 8 * CpuCount + cpuEvents'
      BY <1>2, <1>3, <2>1, CpuNumbers
    <3> QED
      BY <2>1, <3>1, <3>2, BehindSelf
  <2> QED
    BY <2>2, <2>3
<1>13. /\ online' \subseteq Cpu /\ online' # {} /\ cpuHist' \in [Lines -> LineHist]
  BY <1>2 DEF CpuInv, CpuTypeOK
<1> QED
  BY <1>2, <1>3, <1>9, <1>12, <1>13, KernelKeeps

LEMMA HotplugKeeps ==
  ASSUME CpuInv, Hotplug
  PROVE  CpuInv'
<1>1. cpus' = cpus /\ cpuHist' = cpuHist /\ ticks' = ticks /\ cpuEvents' = cpuEvents + 1
      /\ cpuEvents < MaxCpuEvents
  BY DEF Hotplug, CpuEvent
<1>2. online' \subseteq Cpu /\ online' # {}
  BY DEF Hotplug, CpuInv, CpuTypeOK
<1>3. cpuEvents \in Nat /\ cpuEvents' \in 0 .. MaxCpuEvents
  BY <1>1, CpuNumbers DEF CpuInv
<1>4. AllCpus' = AllCpus
  BY <1>1 DEF AllCpus
<1>5. ASSUME NEW k \in Lines
      PROVE  Counted(Now(k)') /\ Passed(Now(k)') <= 8 * CpuCount + cpuEvents' /\ Behind(Now(k), Now(k)')
  <2>1. Counted(Now(k)) /\ Passed(Now(k)) <= 8 * CpuCount + cpuEvents
    BY DEF CpuInv
  <2>2. Passed(Now(k)) \in Int
    BY <2>1 DEF Counted, Passed, Fields
  <2>3. Now(k)' = Now(k)
    BY <1>1, <1>4 DEF Now
  <2>4. Passed(Now(k)) <= 8 * CpuCount + cpuEvents'
    BY <1>1, <1>3, <2>1, <2>2, CpuNumbers
  <2> QED
    BY <2>1, <2>3, <2>4, BehindSelf
<1>6. ticks' \in [Cpu -> [Fields -> Nat]] /\ cpuHist' \in [Lines -> LineHist]
  BY <1>1 DEF CpuInv
<1> QED
  BY <1>1, <1>2, <1>3, <1>5, <1>6, KernelKeeps

LEMMA CorrectIowaitKeeps ==
  ASSUME CpuInv, CorrectIowait
  PROVE  CpuInv'
<1>1. PICK c \in online :
        /\ ticks[c]["iowait"] > 0
        /\ ticks' = [ticks EXCEPT ![c]["iowait"] = @ - 1]
        /\ cpuHist' = [i \in Lines |->
             IF cpuHist[i].last.of \in {0, c} THEN [cpuHist[i] EXCEPT !.last.sane = FALSE]
             ELSE cpuHist[i]]
  BY Zenon DEF CorrectIowait
<1>2. cpus' = cpus /\ online' = online /\ cpuEvents' = cpuEvents + 1 /\ cpuEvents < MaxCpuEvents
  BY DEF CorrectIowait
<1>3. c \in Cpu /\ cpuEvents \in Nat /\ cpuEvents' \in 0 .. MaxCpuEvents
      /\ ticks \in [Cpu -> [Fields -> Nat]] /\ "iowait" \in Fields
  <2>1. c \in Cpu /\ ticks \in [Cpu -> [Fields -> Nat]]
    BY <1>1 DEF CpuInv, CpuTypeOK
  <2>2. cpuEvents \in 0 .. MaxCpuEvents
    BY DEF CpuInv
  <2>3. "iowait" \in Fields
    BY DEF Fields
  <2> QED
    BY <1>2, <2>1, <2>2, <2>3, CpuNumbers
<1> DEFINE new == [ticks[c] EXCEPT !["iowait"] = @ - 1]
<1>4. ticks[c] \in [Fields -> Nat] /\ ticks[c]["iowait"] \in Nat
  BY <1>3
<1>5. new \in [Fields -> Nat] /\ new["iowait"] = ticks[c]["iowait"] - 1
      /\ \A g \in Fields : g # "iowait" => new[g] = ticks[c][g]
  BY <1>1, <1>3, <1>4
<1>6. ticks' = [ticks EXCEPT ![c] = new]
  BY <1>1, <1>3
<1> HIDE DEF new
<1>7. (ticks')[c] = new /\ ticks' \in [Cpu -> [Fields -> Nat]]
      /\ \A k \in Cpu : k # c => (ticks')[k] = ticks[k]
  BY <1>3, <1>5, <1>6
<1>8. \A g \in Fields : (AllCpus')[g] = AllCpus[g] + (new[g] - ticks[c][g])
  BY <1>3, <1>5, <1>6, AllCpusChanged
<1>9. AllCpus \in [Fields -> Nat] /\ AllCpus' \in [Fields -> Nat]
  BY <1>3, <1>7, AllCpusFacts DEF AllCpus
<1>10. ASSUME NEW t, NEW u \in [Fields -> Nat], Counted(t), u["iowait"] = t["iowait"] - 1,
              \A g \in Fields : g # "iowait" => u[g] = t[g]
       PROVE  Counted(u) /\ Passed(u) <= Passed(t)
  <2>1. t \in [Fields -> Nat] /\ t["guest"] <= t["user"] /\ t["guestnice"] <= t["nice"]
    BY <1>10 DEF Counted
  <2>2. /\ t["user"] \in Nat /\ t["nice"] \in Nat /\ t["system"] \in Nat /\ t["idle"] \in Nat
        /\ t["iowait"] \in Nat /\ t["irq"] \in Nat /\ t["softirq"] \in Nat /\ t["steal"] \in Nat
        /\ t["guest"] \in Nat /\ t["guestnice"] \in Nat
    BY <2>1 DEF Fields
  <2>3. /\ u["user"] = t["user"] /\ u["nice"] = t["nice"] /\ u["system"] = t["system"]
        /\ u["idle"] = t["idle"] /\ u["irq"] = t["irq"] /\ u["softirq"] = t["softirq"]
        /\ u["steal"] = t["steal"] /\ u["guest"] = t["guest"] /\ u["guestnice"] = t["guestnice"]
    BY <1>10 DEF Fields
  <2>4. Counted(u)
    BY <1>10, <2>1, <2>3 DEF Counted
  <2>5. Passed(u) <= Passed(t)
    BY <1>10, <2>2, <2>3 DEF Passed
  <2> QED
    BY <2>4, <2>5
<1>11. \A k \in Lines : Counted(Now(k)) /\ Passed(Now(k)) <= 8 * CpuCount + cpuEvents
  BY DEF CpuInv
<1>12. c \in Lines /\ c # 0 /\ 0 \in Lines
  BY <1>3, CpuNumbers
<1>13. Counted((ticks')[c]) /\ Passed((ticks')[c]) <= Passed(ticks[c])
  <2>1. Counted(ticks[c])
    BY <1>11, <1>12 DEF Now
  <2> QED
    BY <1>5, <1>7, <1>10, <2>1
<1>14. Counted(AllCpus') /\ Passed(AllCpus') <= Passed(AllCpus)
  <2>1. Counted(AllCpus)
    BY <1>11, <1>12 DEF Now
  <2>2. (AllCpus')["iowait"] = AllCpus["iowait"] - 1
    BY <1>3, <1>4, <1>5, <1>8, <1>9
  <2>3. \A g \in Fields : g # "iowait" => (AllCpus')[g] = AllCpus[g]
    <3> SUFFICES ASSUME NEW g \in Fields, g # "iowait"
                 PROVE  (AllCpus')[g] = AllCpus[g]
      OBVIOUS
    <3>1. new[g] = ticks[c][g] /\ ticks[c][g] \in Nat /\ AllCpus[g] \in Nat
      BY <1>4, <1>5, <1>9
    <3> QED
      BY <1>8, <3>1
  <2> QED
    BY <1>9, <1>10, <2>1, <2>2, <2>3
<1>15. ASSUME NEW k \in Lines
       PROVE  /\ Counted(Now(k)') /\ Passed(Now(k)') <= 8 * CpuCount + cpuEvents'
              /\ k \notin {0, c} => Behind(Now(k), Now(k)')
  <2>1. Counted(Now(k)) /\ Passed(Now(k)) <= 8 * CpuCount + cpuEvents
    BY <1>11
  <2>2. Counted(Now(k)') /\ Passed(Now(k)') <= Passed(Now(k)) /\ (k \notin {0, c} => Now(k)' = Now(k))
    <3>1. CASE k = 0
      BY <1>14, <3>1 DEF Now
    <3>2. CASE k = c
      BY <1>12, <1>13, <3>2 DEF Now
    <3>3. CASE k # 0 /\ k # c
      <4>1. k \in Cpu
        BY <3>3, CpuNumbers
      <4>2. Now(k)' = Now(k)
        BY <1>7, <3>3, <4>1 DEF Now
      <4>3. Passed(Now(k)) \in Int
        BY <2>1 DEF Counted, Passed, Fields
      <4> QED
        BY <2>1, <4>2, <4>3
    <3> QED
      BY <3>1, <3>2, <3>3
  <2>3. Passed(Now(k)) \in Int /\ Passed(Now(k)') \in Int
    BY <2>1, <2>2 DEF Counted, Passed, Fields
  <2>4. Passed(Now(k)') <= 8 * CpuCount + cpuEvents'
    BY <1>2, <1>3, <2>1, <2>2, <2>3, CpuNumbers
  <2> QED
    BY <2>1, <2>2, <2>4, BehindSelf
<1>16. ASSUME NEW h \in LineHist
       PROVE  /\ [h EXCEPT !.last.sane = FALSE] \in LineHist
              /\ [h EXCEPT !.last.sane = FALSE].sane = h.sane
              /\ [h EXCEPT !.last.sane = FALSE].passed = h.passed
              /\ [h EXCEPT !.last.sane = FALSE].last.sane = FALSE
  <2> DEFINE no == FALSE
  <2>1. no \in BOOLEAN
    OBVIOUS
  <2> HIDE DEF no
  <2>2. /\ [h EXCEPT !.last.sane = no] \in LineHist
        /\ [h EXCEPT !.last.sane = no].sane = h.sane
        /\ [h EXCEPT !.last.sane = no].passed = h.passed
        /\ [h EXCEPT !.last.sane = no].last.sane = no
    BY <2>1 DEF LineHist, LineReading
  <2> QED
    BY <2>2 DEF no
<1>17. \A i \in Lines : cpuHist[i] \in LineHist
  BY DEF CpuInv
<1>18. \A i \in Lines : (cpuHist')[i] = IF cpuHist[i].last.of \in {0, c}
                                        THEN [cpuHist[i] EXCEPT !.last.sane = FALSE] ELSE cpuHist[i]
  BY <1>1, Zenon
<1>19. cpuHist' \in [Lines -> LineHist]
  <2>1. \A i \in Lines : (IF cpuHist[i].last.of \in {0, c}
                          THEN [cpuHist[i] EXCEPT !.last.sane = FALSE] ELSE cpuHist[i]) \in LineHist
    BY <1>16, <1>17, Zenon
  <2> QED
    BY <1>1, <2>1, Zenon
<1>20. ASSUME NEW i \in Lines
       PROVE  /\ (cpuHist')[i].sane = cpuHist[i].sane
              /\ (cpuHist')[i].passed = cpuHist[i].passed
              /\ (cpuHist')[i].last.sane =>
                   /\ (cpuHist')[i].last = cpuHist[i].last
                   /\ cpuHist[i].last.of \in Lines =>
                        \A k \in {cpuHist[i].last.of} : Behind(Now(k), Now(k)')
  <2>1. CASE cpuHist[i].last.of \in {0, c}
    <3>1. (cpuHist')[i] = [cpuHist[i] EXCEPT !.last.sane = FALSE]
      BY <1>18, <2>1, Zenon
    <3>2. /\ (cpuHist')[i].sane = cpuHist[i].sane
          /\ (cpuHist')[i].passed = cpuHist[i].passed
          /\ (cpuHist')[i].last.sane = FALSE
      <4>1. /\ [cpuHist[i] EXCEPT !.last.sane = FALSE].sane = cpuHist[i].sane
            /\ [cpuHist[i] EXCEPT !.last.sane = FALSE].passed = cpuHist[i].passed
            /\ [cpuHist[i] EXCEPT !.last.sane = FALSE].last.sane = FALSE
        BY <1>16, <1>17, Zenon
      <4> QED
        BY <3>1, <4>1, Zenon
    <3> QED
      BY <3>2, Zenon
  <2>2. CASE cpuHist[i].last.of \notin {0, c}
    <3>1. (cpuHist')[i] = cpuHist[i]
      BY <1>18, <2>2, Zenon
    <3>2. \A k \in Lines : k = cpuHist[i].last.of => Behind(Now(k), Now(k)')
      BY <1>15, <2>2
    <3> QED
      BY <3>1, <3>2
  <2> QED
    BY <2>1, <2>2
<1>21. online' \subseteq Cpu /\ online' # {}
  BY <1>2 DEF CpuInv, CpuTypeOK
<1> QED
  BY <1>2, <1>3, <1>7, <1>15, <1>19, <1>20, <1>21, KernelKeeps

\* The line with a number belongs to a CPU that is online.
LEMMA LineIsOfCpu ==
  ASSUME CpuInv, NEW i \in Lines, i # 0, ~(i > Cardinality(online))
  PROVE  CpuOf(i) \in Cpu /\ CpuOf(i) \in Lines /\ CpuOf(i) # 0
<1>1. IsFiniteSet(Cpu)
  <2>1. 1 \in Int /\ CpuCount \in Int
    BY CpuNumbers
  <2> QED
    BY <2>1, FS_Interval DEF Cpu
<1>2. online \subseteq Cpu
  BY DEF CpuInv, CpuTypeOK
<1>3. online \in SUBSET Nat /\ IsFiniteSet(online) /\ Cardinality(online) \in Nat
  <2>1. IsFiniteSet(online) /\ Cardinality(online) \in Nat
    BY <1>1, <1>2, FS_Subset, FS_CardinalityType
  <2>2. \A c \in Cpu : c \in Nat
    BY CpuNumbers
  <2> QED
    BY <1>2, <2>1, <2>2
<1>4. i \in 1 .. Cardinality(online)
  BY <1>3, CpuNumbers
<1>5. \E c \in online : Cardinality({d \in online : d <= c}) = i
  BY <1>3, <1>4, PlaceOfRank
<1>6. CpuOf(i) \in online
  BY <1>5, Zenon DEF CpuOf
<1>7. \A c \in Cpu : c \in Lines /\ c # 0
  BY CpuNumbers
<1> QED
  BY <1>2, <1>6, <1>7

LEMMA PassedBounds ==
  ASSUME NEW t, Counted(t)
  PROVE  /\ Passed(t) \in Nat
         /\ \A f \in Fields : t[f] <= Passed(t)
         /\ t["system"] + t["irq"] + t["softirq"] <= Passed(t)
         /\ t["idle"] + t["iowait"] <= Passed(t)
         /\ t["guest"] + t["guestnice"] <= Passed(t)
<1>1. t \in [Fields -> Nat] /\ t["guest"] <= t["user"] /\ t["guestnice"] <= t["nice"]
  BY DEF Counted
<1>2. /\ t["user"] \in Nat /\ t["nice"] \in Nat /\ t["system"] \in Nat /\ t["idle"] \in Nat
      /\ t["iowait"] \in Nat /\ t["irq"] \in Nat /\ t["softirq"] \in Nat /\ t["steal"] \in Nat
      /\ t["guest"] \in Nat /\ t["guestnice"] \in Nat
  BY <1>1 DEF Fields
<1>3. Passed(t) = t["user"] + t["nice"] + t["system"] + t["idle"] + t["iowait"] + t["irq"]
                  + t["softirq"] + t["steal"]
  BY DEF Passed
<1>4. /\ t["user"] <= Passed(t) /\ t["nice"] <= Passed(t) /\ t["system"] <= Passed(t)
      /\ t["idle"] <= Passed(t) /\ t["iowait"] <= Passed(t) /\ t["irq"] <= Passed(t)
      /\ t["softirq"] <= Passed(t) /\ t["steal"] <= Passed(t)
      /\ t["guest"] <= Passed(t) /\ t["guestnice"] <= Passed(t) /\ Passed(t) \in Nat
  BY <1>1, <1>2, <1>3
<1>5. \A f \in Fields : t[f] <= Passed(t)
  BY <1>4 DEF Fields
<1> QED
  BY <1>1, <1>2, <1>3, <1>4, <1>5

(* What a line yields is a reading; when nothing was torn it is what the    *)
(* kernel has, and in any case its times fit in their numbers.              *)
LEMMA ReadingFacts ==
  ASSUME CpuInv, NEW i \in Lines, NEW torn \in BOOLEAN, NEW any \in 0 .. Modulus - 1
  PROVE  /\ Reading(i, torn, any) \in LineReading
         /\ Reading(i, torn, any).sane => /\ Reading(i, torn, any).of \in Lines
                                          /\ Reading(i, torn, any).raw = Now(Reading(i, torn, any).of)
         /\ Times(Reading(i, torn, any).raw) \in [Parts -> 0 .. Modulus - 1]
<1> DEFINE r == Reading(i, torn, any)
           k == IF i = 0 THEN 0 ELSE CpuOf(i)
           odd == [Nothing EXCEPT !["user"] = any, !["nice"] = any, !["system"] = any, !["idle"] = any]
           one == IF torn THEN 1 ELSE 0
           near == [Now(k) EXCEPT !["guest"] = @ + one]
<1>0. CpuCount >= 1 /\ CpuCount \in Nat /\ Modulus \in Nat \ {0} /\ any \in Nat /\ any < Modulus
  BY CpuNumbers
<1>1. CASE i > Cardinality(online)
  <2>1. r = [of |-> None, sane |-> FALSE, raw |-> odd]
    BY <1>1, Zenon DEF Reading
  <2>2. \A f \in Fields : odd[f] = IF f \in {"user", "nice", "system", "idle"} THEN any ELSE 0
    BY DEF Nothing
  <2>3. DOMAIN odd = Fields
    BY DEF Nothing
  <2>4. odd \in [Fields -> Nat]
    BY <1>0, <2>2 DEF Nothing
  <2> HIDE DEF odd
  <2>5. /\ odd["system"] = any /\ odd["irq"] = 0 /\ odd["softirq"] = 0 /\ odd["idle"] = any
        /\ odd["iowait"] = 0 /\ odd["guest"] = 0 /\ odd["guestnice"] = 0
    BY <2>2 DEF Fields
  <2>6. \A f \in Fields : odd[f] < Modulus
    BY <1>0, <2>2
  <2>7. Times(odd) \in [Parts -> 0 .. Modulus - 1]
    <3>1. /\ odd["system"] + odd["irq"] + odd["softirq"] < Modulus
          /\ odd["idle"] + odd["iowait"] < Modulus
          /\ odd["guest"] + odd["guestnice"] < Modulus
      BY <1>0, <2>5
    <3> QED
      BY <2>4, <2>6, <3>1, TimesFit
  <2> HIDE DEF r
  <2>8. r.raw = odd /\ ~r.sane
    BY <2>1
  <2>9. r \in LineReading
    <3>1. FALSE \in BOOLEAN /\ None \in Lines \cup {None}
      OBVIOUS
    <3> QED
      BY <2>1, <2>4, <3>1 DEF LineReading
  <2> QED
    BY <2>7, <2>8, <2>9, Zenon DEF r
<1>2. CASE ~(i > Cardinality(online))
  <2>1. k \in Lines
    BY <1>0, <1>2, LineIsOfCpu DEF Lines
  <2>2. Counted(Now(k)) /\ Passed(Now(k)) <= 8 * CpuCount + cpuEvents
    BY <2>1 DEF CpuInv
  <2>3. Now(k) = IF i = 0 THEN AllCpus ELSE ticks[CpuOf(i)]
    BY <1>2, LineIsOfCpu DEF Now
  <2>4. r = [of |-> k, sane |-> ~torn, raw |-> near]
    BY <1>2, <2>3, Zenon DEF Reading
  <2> HIDE DEF k
  <2> DEFINE now == Now(k)
  <2>5. now \in [Fields -> Nat] /\ "guest" \in Fields /\ one \in 0 .. 1
    BY <2>2 DEF Counted, Fields
  <2>6. near \in [Fields -> Nat] /\ near["guest"] = now["guest"] + one
        /\ \A f \in Fields : f # "guest" => near[f] = now[f]
    BY <2>5
  <2>7. ~torn => near = now
    BY <2>5
  <2>8. /\ Passed(now) \in Nat /\ \A f \in Fields : now[f] <= Passed(now)
        /\ now["system"] + now["irq"] + now["softirq"] <= Passed(now)
        /\ now["idle"] + now["iowait"] <= Passed(now)
        /\ now["guest"] + now["guestnice"] <= Passed(now)
    BY <2>2, PassedBounds
  <2>9. Passed(now) + 1 < Modulus
    <3>1. cpuEvents \in Nat /\ cpuEvents <= MaxCpuEvents
      BY CpuNumbers DEF CpuInv
    <3> HIDE DEF now
    <3> QED
      BY <2>2, <2>8, <3>1, CpuNumbers DEF now
  <2> HIDE DEF near, one, now
  <2>10. Times(near) \in [Parts -> 0 .. Modulus - 1]
    <3>1. \A f \in Fields : now[f] \in Nat /\ near[f] \in Nat
      BY <2>5, <2>6
    <3>2. \A f \in Fields : near[f] < Modulus
      <4> SUFFICES ASSUME NEW f \in Fields PROVE near[f] < Modulus
        OBVIOUS
      <4>1. now[f] \in Nat /\ now[f] <= Passed(now) /\ near[f] <= now[f] + 1 /\ near[f] \in Nat
        BY <2>5, <2>6, <2>8, <3>1
      <4> QED
        BY <1>0, <2>8, <2>9, <4>1
    <3>3. /\ now["system"] \in Nat /\ now["irq"] \in Nat /\ now["softirq"] \in Nat /\ now["idle"] \in Nat
          /\ now["iowait"] \in Nat /\ now["guest"] \in Nat /\ now["guestnice"] \in Nat
      BY <2>5 DEF Fields
    <3>4. /\ near["system"] = now["system"] /\ near["irq"] = now["irq"] /\ near["softirq"] = now["softirq"]
          /\ near["idle"] = now["idle"] /\ near["iowait"] = now["iowait"]
          /\ near["guestnice"] = now["guestnice"]
      BY <2>6 DEF Fields
    <3>5. /\ near["system"] + near["irq"] + near["softirq"] < Modulus
          /\ near["idle"] + near["iowait"] < Modulus
          /\ near["guest"] + near["guestnice"] < Modulus
      BY <1>0, <2>5, <2>6, <2>8, <2>9, <3>3, <3>4
    <3> QED
      BY <2>6, <3>2, <3>5, TimesFit
  <2> HIDE DEF r
  <2>11. r.raw = near /\ r.of = k /\ (r.sane <=> ~torn)
    BY <2>4
  <2>12. r \in LineReading
    <3>1. (~torn) \in BOOLEAN /\ k \in Lines \cup {None}
      BY <2>1
    <3> QED
      BY <2>4, <2>6, <3>1 DEF LineReading
  <2>13. r.sane => r.of \in Lines /\ r.raw = Now(r.of)
    BY <2>1, <2>7, <2>11, Zenon DEF now
  <2>14. Times(r.raw) \in [Parts -> 0 .. Modulus - 1]
    BY <2>10, <2>11, Zenon
  <2> QED
    BY <2>12, <2>13, <2>14, Zenon DEF r
<1> QED
  BY <1>1, <1>2

LEMMA ScanCpuKeeps ==
  ASSUME CpuInv, ScanCPUTime
  PROVE  CpuInv'
<1>1. PICK torn \in SUBSET (0 .. Cardinality(online)),
           any \in IF online = Cpu THEN {0} ELSE {0, Modulus - 1} :
        LET r == [i \in Lines |-> Reading(i, i \in torn, any)]
            Same(i) == cpuHist[i].last.sane /\ r[i].sane /\ cpuHist[i].last.of = r[i].of
        IN  /\ cpuEvents' = cpuEvents + Cardinality(torn) /\ cpuEvents' <= MaxCpuEvents
            /\ cpus' = [i \in Lines |-> Updated(cpus[i], r[i].raw)]
            /\ cpuHist' = [i \in Lines |->
                 [last |-> r[i], sane |-> Same(i),
                  passed |-> [f \in Fields |-> IF Same(i) THEN r[i].raw[f] - cpuHist[i].last.raw[f] ELSE 0]]]
            /\ UNCHANGED <<ticks, online>>
  BY Zenon DEF ScanCPUTime
<1> DEFINE R(i) == Reading(i, i \in torn, any)
           r == [i \in Lines |-> R(i)]
           Same(i) == cpuHist[i].last.sane /\ r[i].sane /\ cpuHist[i].last.of = r[i].of
           Gone(i) == [f \in Fields |-> IF Same(i) THEN r[i].raw[f] - cpuHist[i].last.raw[f] ELSE 0]
<1>2. /\ cpuEvents' = cpuEvents + Cardinality(torn) /\ cpuEvents' <= MaxCpuEvents
      /\ cpus' = [i \in Lines |-> Updated(cpus[i], r[i].raw)]
      /\ cpuHist' = [i \in Lines |-> [last |-> r[i], sane |-> Same(i), passed |-> Gone(i)]]
      /\ ticks' = ticks /\ online' = online
  BY <1>1, Zenon
<1>3. any \in 0 .. Modulus - 1
  <2>1. Modulus \in Nat /\ Modulus >= 1
    BY CpuNumbers
  <2>2. any \in {0, Modulus - 1}
    OBVIOUS
  <2> QED
    BY <2>1, <2>2
<1>4. \A i \in Lines : /\ r[i] \in LineReading
                       /\ r[i].sane => r[i].of \in Lines /\ r[i].raw = Now(r[i].of)
                       /\ Times(r[i].raw) \in [Parts -> 0 .. Modulus - 1]
  <2> SUFFICES ASSUME NEW i \in Lines
               PROVE  /\ R(i) \in LineReading
                      /\ R(i).sane => R(i).of \in Lines /\ R(i).raw = Now(R(i).of)
                      /\ Times(R(i).raw) \in [Parts -> 0 .. Modulus - 1]
    BY Zenon
  <2>1. (i \in torn) \in BOOLEAN
    OBVIOUS
  <2> QED
    BY <1>3, <2>1, ReadingFacts, Zenon
<1> HIDE DEF r
<1>5. cpuEvents' \in 0 .. MaxCpuEvents /\ cpuEvents \in Nat /\ cpuEvents <= cpuEvents'
  <2>1. cpuEvents \in Nat
    BY CpuNumbers DEF CpuInv
  <2>2. IsFiniteSet(Cpu)
    <3>1. 1 \in Int /\ CpuCount \in Int
      BY CpuNumbers
    <3> QED
      BY <3>1, FS_Interval DEF Cpu
  <2>3. IsFiniteSet(online) /\ Cardinality(online) \in Nat
    BY <2>2, FS_Subset, FS_CardinalityType DEF CpuInv, CpuTypeOK
  <2>4. IsFiniteSet(0 .. Cardinality(online))
    <3>1. 0 \in Int /\ Cardinality(online) \in Int
      BY <2>3
    <3> QED
      BY <3>1, FS_Interval
  <2>5. Cardinality(torn) \in Nat
    BY <2>4, FS_Subset, FS_CardinalityType
  <2> QED
    BY <1>2, <2>1, <2>5, CpuNumbers
<1>6. \A i \in Lines : /\ cpus[i].time \in [Parts -> 0 .. Modulus - 1]
                       /\ cpuHist[i] \in LineHist
  BY DEF CpuInv, CpuTypeOK
<1>7. ASSUME NEW i \in Lines
      PROVE  /\ (cpus')[i].time = Times(r[i].raw)
             /\ (cpus')[i].period \in [Parts -> 0 .. Modulus - 1]
             /\ \A q \in Parts : (cpus')[i].period[q] = Since(Times(r[i].raw)[q], cpus[i].time[q])
             /\ (cpus')[i] \in [time : [Parts -> 0 .. Modulus - 1], period : [Parts -> 0 .. Modulus - 1]]
  <2> DEFINE t == Times(r[i].raw)
             p == [q \in Parts |-> Since(t[q], cpus[i].time[q])]
  <2>1. (cpus')[i] = [time |-> t, period |-> p]
    BY <1>2, Zenon DEF Updated
  <2>2. t \in [Parts -> 0 .. Modulus - 1] /\ cpus[i].time \in [Parts -> 0 .. Modulus - 1]
    BY <1>4, <1>6
  <2>3. ASSUME NEW a \in 0 .. Modulus - 1, NEW b \in 0 .. Modulus - 1
        PROVE  Since(a, b) \in 0 .. Modulus - 1
    BY CpuNumbers DEF Since
  <2>4. \A q \in Parts : Since(t[q], cpus[i].time[q]) \in 0 .. Modulus - 1
    BY <2>2, <2>3
  <2>5. p \in [Parts -> 0 .. Modulus - 1]
    BY <2>4
  <2>6. \A q \in Parts : p[q] = Since(t[q], cpus[i].time[q])
    OBVIOUS
  <2> HIDE DEF p, t
  <2>7. (cpus')[i].time = t /\ (cpus')[i].period = p
    BY <2>1
  <2>8. (cpus')[i] \in [time : [Parts -> 0 .. Modulus - 1], period : [Parts -> 0 .. Modulus - 1]]
    BY <2>1, <2>2, <2>5
  <2> QED
    BY <2>5, <2>6, <2>7, <2>8 DEF t
<1>8. CpuTypeOK'
  <2>1. cpus' \in [Lines -> [time : [Parts -> 0 .. Modulus - 1], period : [Parts -> 0 .. Modulus - 1]]]
    <3>1. DOMAIN cpus' = Lines /\ cpus' = [i \in Lines |-> (cpus')[i]]
      BY <1>2
    <3> QED
      BY <1>7, <3>1
  <2> QED
    BY <1>2, <2>1 DEF CpuInv, CpuTypeOK
<1>9. \A k \in Lines : /\ Now(k)' = Now(k) /\ Counted(Now(k)) /\ Passed(Now(k)) \in Int
                       /\ Passed(Now(k)) <= 8 * CpuCount + cpuEvents
  <2>1. AllCpus' = AllCpus
    BY <1>2 DEF AllCpus
  <2>2. \A u : Counted(u) => Passed(u) \in Int
    BY PassedBounds
  <2>3. \A k \in Lines : Now(k)' = Now(k)
    BY <1>2, <2>1 DEF Now
  <2> QED
    BY <2>2, <2>3 DEF CpuInv
<1>10. \A k \in Lines : Counted(Now(k)') /\ Passed(Now(k)') <= 8 * CpuCount + cpuEvents'
                        /\ Passed(Now(k)) < Modulus
  <2> SUFFICES ASSUME NEW k \in Lines
               PROVE  Counted(Now(k)) /\ Passed(Now(k)) <= 8 * CpuCount + cpuEvents' /\ Passed(Now(k)) < Modulus
    BY <1>9
  <2>1. Passed(Now(k)) \in Int /\ Passed(Now(k)) <= 8 * CpuCount + cpuEvents /\ cpuEvents' \in Nat
        /\ cpuEvents' <= MaxCpuEvents
    BY <1>5, <1>9, CpuNumbers
  <2> QED
    BY <1>5, <1>9, <2>1, CpuNumbers
<1>11. ASSUME NEW i \in Lines
       PROVE  /\ (cpuHist')[i] \in LineHist
              /\ (cpuHist')[i].last = r[i]
              /\ (cpuHist')[i].sane <=> Same(i)
              /\ \A f \in Fields : Same(i) => (cpuHist')[i].passed[f] = r[i].raw[f] - cpuHist[i].last.raw[f]
  <2> DEFINE same == Same(i)
             d == Gone(i)
  <2>1. (cpuHist')[i] = [last |-> r[i], sane |-> same, passed |-> d]
    BY <1>2, Zenon
  <2>2. r[i] \in LineReading /\ cpuHist[i].last \in LineReading
    BY <1>4, <1>6 DEF LineHist
  <2>3. \A f \in Fields : r[i].raw[f] \in Nat /\ cpuHist[i].last.raw[f] \in Nat
    BY <2>2 DEF LineReading
  <2>4. d \in [Fields -> Int] /\ \A f \in Fields : same => d[f] = r[i].raw[f] - cpuHist[i].last.raw[f]
    BY <2>3
  <2>5. same \in BOOLEAN
    BY <2>2 DEF LineReading
  <2>6. same <=> Same(i)
    OBVIOUS
  <2> HIDE DEF same, d
  <2>7. (cpuHist')[i].last = r[i] /\ (cpuHist')[i].sane = same /\ (cpuHist')[i].passed = d
    BY <2>1
  <2>8. (cpuHist')[i] \in LineHist
    BY <2>1, <2>2, <2>4, <2>5 DEF LineHist
  <2> QED
    BY <2>4, <2>6, <2>7, <2>8
<1>12. cpuHist' \in [Lines -> LineHist]
  <2>1. cpuHist' = [i \in Lines |-> (cpuHist')[i]]
    BY <1>2
  <2> QED
    BY <1>11, <2>1
<1>13. ASSUME NEW i \in Lines
       PROVE  LastIsBehind(i)'
  <2> SUFFICES ASSUME r[i].sane
               PROVE  /\ r[i].of \in Lines /\ Counted(r[i].raw)
                      /\ Behind(r[i].raw, IF r[i].of = 0 THEN AllCpus' ELSE (ticks')[r[i].of])
                      /\ Passed(r[i].raw) < Modulus
                      /\ (cpus')[i].time = Times(r[i].raw)
    BY <1>11 DEF LastIsBehind, Now
  <2>1. r[i].of \in Lines /\ r[i].raw = Now(r[i].of)
    BY <1>4
  <2>2. PICK k \in Lines : k = r[i].of
    BY <2>1
  <2>3. Now(k)' = IF k = 0 THEN AllCpus' ELSE (ticks')[k]
    BY DEF Now
  <2>4. Now(k)' = Now(k) /\ Counted(Now(k)) /\ Passed(Now(k)) < Modulus /\ r[i].raw = Now(k)
    BY <1>9, <1>10, <2>1, <2>2
  <2>5. Behind(Now(k), Now(k))
    BY <2>4, BehindSelf
  <2> QED
    BY <1>7, <2>1, <2>2, <2>3, <2>4, <2>5
<1>14. ASSUME NEW i \in Lines, Sane(i)'
       PROVE  PeriodAddsUp(cpus[i].period, cpuHist[i].passed)'
  <2> DEFINE old == cpuHist[i].last.raw
             new == r[i].raw
             p == (cpus')[i].period
             d == (cpuHist')[i].passed
  <2>1. Same(i)
    BY <1>11, <1>14 DEF Sane
  <2>2. cpuHist[i].last.sane /\ r[i].sane /\ cpuHist[i].last.of = r[i].of
    BY <2>1
  <2>3. LastIsBehind(i)
    BY DEF CpuInv
  <2>4. Counted(old) /\ Behind(old, Now(cpuHist[i].last.of)) /\ Passed(old) < Modulus
        /\ cpus[i].time = Times(old) /\ r[i].of \in Lines
    BY <1>4, <2>2, <2>3 DEF LastIsBehind
  <2>5. new = Now(r[i].of) /\ Counted(new) /\ Passed(new) < Modulus
    BY <1>4, <1>9, <1>10, <2>2, <2>4
  <2>6. Behind(old, new)
    BY <2>2, <2>4, <2>5
  <2>7. \A q \in Parts : p[q] = Since(Times(new)[q], Times(old)[q])
    BY <1>7, <2>4
  <2>8. \A f \in Fields : d[f] = new[f] - old[f]
    BY <1>11, <2>1
  <2>9. p \in [Parts -> Nat]
    <3>1. p \in [Parts -> 0 .. Modulus - 1] /\ 0 .. Modulus - 1 \subseteq Nat
      BY <1>7, CpuNumbers
    <3> HIDE DEF p
    <3> QED
      BY <3>1
  <2> HIDE DEF old, new, p, d
  <2>10. PeriodAddsUp(p, d)
    BY <2>4, <2>5, <2>6, <2>7, <2>8, <2>9, DifferencesAddUp
  <2> QED
    BY <2>10 DEF p, d
<1>15. ticks' \in [Cpu -> [Fields -> Nat]]
  BY <1>2 DEF CpuInv
<1> QED
  BY <1>5, <1>8, <1>10, <1>12, <1>13, <1>14, <1>15 DEF CpuInv

LEMMA CpuInitInv == CpuInit => CpuInv
<1> SUFFICES ASSUME CpuInit
             PROVE  CpuInv
  OBVIOUS
<1>1. ticks \in [Cpu -> [Fields -> Nat]] /\ \A c \in Cpu, f \in Fields : ticks[c][f] = 1
  BY DEF CpuInit
<1>2. AllCpus = [f \in Fields |-> CpuCount]
  <2>1. ASSUME NEW f \in Fields
        PROVE  SumTo([c \in Cpu |-> ticks[c][f]], CpuCount) = CpuCount
    <3> DEFINE a == [c \in Cpu |-> ticks[c][f]]
    <3>1. \A k \in 1 .. CpuCount : a[k] = 1
      BY <1>1, CpuNumbers
    <3> HIDE DEF a
    <3>2. SumTo(a, CpuCount) = CpuCount
      BY <3>1, SumOfOnes, CpuNumbers
    <3> QED
      BY <3>2 DEF a
  <2> QED
    BY <2>1 DEF AllCpus
<1>3. cpuEvents = 0 /\ online = Cpu
  BY DEF CpuInit
<1>4. ASSUME NEW k \in Lines
      PROVE  Counted(Now(k)) /\ Passed(Now(k)) <= 8 * CpuCount + cpuEvents
  <2>1. ASSUME NEW n \in Nat, n <= CpuCount, NEW t, t = [f \in Fields |-> n]
        PROVE  Counted(t) /\ Passed(t) <= 8 * CpuCount
    <3>1. \A f \in Fields : t[f] = n
      BY <2>1
    <3>2. /\ t["user"] = n /\ t["nice"] = n /\ t["system"] = n /\ t["idle"] = n /\ t["iowait"] = n
          /\ t["irq"] = n /\ t["softirq"] = n /\ t["steal"] = n /\ t["guest"] = n /\ t["guestnice"] = n
      BY <3>1 DEF Fields
    <3>3. t \in [Fields -> Nat]
      BY <2>1
    <3> QED
      BY <2>1, <3>2, <3>3, CpuNumbers DEF Counted, Passed
  <2>2. Counted(Now(k)) /\ Passed(Now(k)) <= 8 * CpuCount
    <3>1. CASE k = 0
      <4>1. Now(k) = [f \in Fields |-> CpuCount] /\ CpuCount \in Nat /\ CpuCount <= CpuCount
        BY <1>2, <3>1, CpuNumbers DEF Now
      <4> QED
        BY <2>1, <4>1
    <3>2. CASE k # 0
      <4>1. k \in Cpu
        BY <3>2, CpuNumbers
      <4>2. Now(k) = [f \in Fields |-> 1]
        BY <3>2, <4>1 DEF Now, CpuInit
      <4>3. 1 \in Nat /\ 1 <= CpuCount
        BY CpuNumbers
      <4> QED
        BY <2>1, <4>2, <4>3
    <3> QED
      BY <3>1, <3>2
  <2> QED
    BY <1>3, <2>2, CpuNumbers
<1>5. CpuTypeOK
  <2>1. Cpu # {}
    <3>1. 1 \in Cpu
      BY CpuNumbers
    <3> QED
      BY <3>1
  <2>2. 0 \in 0 .. Modulus - 1 /\ 1 \in 0 .. Modulus - 1
    BY CpuNumbers
  <2>3. [p \in Parts |-> IF p = "total" THEN 1 ELSE 0] \in [Parts -> 0 .. Modulus - 1]
    BY <2>2
  <2>4. cpus = [i \in Lines |-> [time |-> [p \in Parts |-> IF p = "total" THEN 1 ELSE 0],
                                 period |-> [p \in Parts |-> IF p = "total" THEN 1 ELSE 0]]]
    BY DEF CpuInit
  <2>5. cpus \in [Lines -> [time : [Parts -> 0 .. Modulus - 1], period : [Parts -> 0 .. Modulus - 1]]]
    BY <2>3, <2>4
  <2> QED
    BY <1>3, <2>1, <2>5 DEF CpuTypeOK
<1>6. cpuHist = [i \in Lines |-> [last |-> [of |-> 0, raw |-> Nothing, sane |-> FALSE],
                                  passed |-> Nothing, sane |-> FALSE]]
  BY DEF CpuInit
<1>7. \A i \in Lines : ~cpuHist[i].last.sane /\ ~cpuHist[i].sane
  BY <1>6
<1>8. cpuHist \in [Lines -> LineHist]
  <2>1. Nothing \in [Fields -> Nat] /\ Nothing \in [Fields -> Int]
    BY DEF Nothing
  <2>2. 0 \in Lines \cup {None} /\ FALSE \in BOOLEAN
    BY CpuNumbers
  <2>3. [last |-> [of |-> 0, raw |-> Nothing, sane |-> FALSE], passed |-> Nothing, sane |-> FALSE] \in LineHist
    BY <2>1, <2>2 DEF LineHist, LineReading
  <2> QED
    BY <1>6, <2>3
<1>9. cpuEvents \in 0 .. MaxCpuEvents
  BY <1>3, CpuNumbers
<1> QED
  BY <1>1, <1>4, <1>5, <1>7, <1>8, <1>9 DEF CpuInv, LastIsBehind, Sane

(* Whatever the kernel does to its counters and however it is read between, *)
(* the parts of a CPU's bar add up to the time that passed, each tick in    *)
(* one of them, and no number wraps (LinuxProcessList_scanCPUTime,          *)
(* Platform_setCPUValues).                                                 *)
THEOREM PeriodsAlwaysAddUp == CpuSpec => []PeriodsAddUp
<1>1. CpuInit => CpuInv
  BY CpuInitInv
<1>2. CpuInv /\ [CpuNext]_cpuVars => CpuInv'
  <2> SUFFICES ASSUME CpuInv, [CpuNext]_cpuVars
               PROVE  CpuInv'
    OBVIOUS
  <2>1. CASE UNCHANGED cpuVars
    <3>1. \A k \in Lines : Now(k)' = Now(k)
      BY <2>1 DEF cpuVars, Now, AllCpus
    <3> QED
      BY <2>1, <3>1 DEF cpuVars, CpuInv, CpuTypeOK, LastIsBehind, Sane, Now, AllCpus
  <2> QED
    BY <2>1, CpuTickKeeps, CorrectIowaitKeeps, HotplugKeeps, ScanCpuKeeps DEF CpuNext
<1>3. CpuInv => PeriodsAddUp
  BY DEF CpuInv, PeriodsAddUp
<1> QED
  BY <1>1, <1>2, <1>3, PTL DEF CpuSpec
-----------------------------------------------------------------------------
(* Memory.                                                                 *)

\* The classes that the host has.
UsedClasses == {c \in ClassesOf(memHost.os) : c = "arc" => memHost.zfs}

\* Pages of the classes that there are; some are always in use.
Counts10(p) ==
  /\ p \in [Classes -> Nat] /\ p["active"] >= 1
  /\ \A c \in Classes : c \notin UsedClasses => p[c] = 0
  /\ Sum(p, Classes) <= 10 * StartPages

SwapType == [Devices -> [on : BOOLEAN, used : Nat]]
SwapsFit(s) == s \in SwapType /\ \A d \in Devices : s[d].used <= SwapSizes[d]

\* The three parts of the meter, given the fields of ProcessList.
PartsOf(l) ==
  IF memHost.os \in {"linux", "openbsd"}
  THEN <<Signed(l.used) - (Signed(l.buffers) + Signed(l.cached)), Signed(l.buffers), Signed(l.cached)>>
  ELSE <<l.used, l.buffers, l.cached>>

\* They are those of pages p, up to n pages.
PartsFit(total, values, p, n) ==
  /\ memHost.kstat => /\ total = Sum(p, Classes)
                      /\ \A i \in 1 .. 3 : Distance(values[i], Sum(p, MemParts[i])) <= n
  /\ values[1] <= total + n

MemTypes ==
  /\ memHost \in [os : MemHosts, zfs : BOOLEAN, kstat : BOOLEAN]
  /\ memHost.zfs => memHost.os = "freebsd"
  /\ ~memHost.kstat => memHost.os = "solaris"
  /\ memScanned \in [pages : [Classes -> Nat] \cup {NoPages}, torn : BOOLEAN, swaps : SwapType]
  /\ memList \in [total : Int, used : Int, buffers : Int, cached : Int, swapTotal : Int, swapUsed : Int]
  /\ meters \in [drawn : BOOLEAN, total : Int, values : Int \X Int \X Int, swap : Int \X Int]

MemInv ==
  /\ MemTypes
  /\ Counts10(pages)
  /\ SwapsFit(swaps) /\ SwapsFit(memScanned.swaps)
  /\ meters.swap[2] <= meters.swap[1]
  /\ memScanned.pages # NoPages =>
       /\ PartsFit(memList.total, MemoryValues, memScanned.pages, IF memScanned.torn THEN 2 ELSE 0)
       /\ ~ReadsSwapWhenDrawn => /\ memList.swapTotal = SwapTotal(memScanned.swaps)
                                 /\ memList.swapUsed = SwapUsed(memScanned.swaps)
  /\ MemoryIsTrue

\* What the kernel may answer to the calls of a scan: each pages of before or after the
\* move, w being how much they differ in each class.
Answers(from, p, w, n) ==
  /\ Counts10(p)
  /\ w \in [Classes -> 0 .. 1] /\ Sum(w, Classes) <= n
  /\ \A call \in Called :
       /\ Counts10(from[call]) /\ Sum(from[call], Classes) = Sum(p, Classes)
       /\ \A c \in Classes : p[c] - w[c] <= from[call][c] /\ from[call][c] <= p[c] + w[c]
       /\ \A other \in Called, c \in Classes : from[call][c] <= from[other][c] + w[c]

LEMMA MemNumbers ==
  /\ StartPages \in Nat \ {0} /\ Kilo \in Nat \ {0} /\ MemModulus \in Nat
  /\ MemModulus > 40 * StartPages /\ MemModulus > 4 * ((10 * StartPages) * Kilo)
<1>1. StartPages \in Nat \ {0} /\ Kilo \in Nat \ {0} /\ MemModulus \in Nat
      /\ MemModulus > 40 * StartPages * Kilo
  BY MemoryAssumption
<1>2. \A s, k \in Nat \ {0} : 40 * s <= 40 * s * k /\ 4 * ((10 * s) * k) = 40 * s * k
                              /\ 40 * s \in Int /\ 40 * s * k \in Int
  BY Z3
<1> QED
  BY <1>1, <1>2

LEMMA InClasses ==
  ASSUME NEW p \in [Classes -> Nat]
  PROVE  /\ p["active"] \in Nat /\ p["wired"] \in Nat /\ p["buffers"] \in Nat /\ p["cached"] \in Nat
         /\ p["shmem"] \in Nat /\ p["slab"] \in Nat /\ p["arc"] \in Nat /\ p["paging"] \in Nat
         /\ p["inactive"] \in Nat /\ p["free"] \in Nat
BY DEF Classes

LEMMA SumOfClasses ==
  ASSUME NEW p
  PROVE  Sum(p, Classes) = p["active"] + p["wired"] + p["buffers"] + p["cached"] + p["shmem"]
                           + p["slab"] + p["arc"] + p["paging"] + p["inactive"] + p["free"]
BY DEF Sum, Classes

\* One class has e pages more.
LEMMA SumBump ==
  ASSUME NEW p \in [Classes -> Nat], NEW q \in [Classes -> Nat], NEW a \in Classes, NEW e \in Int,
         \A c \in Classes : q[c] = IF c = a THEN p[c] + e ELSE p[c]
  PROVE  Sum(q, Classes) = Sum(p, Classes) + e
<1>1. /\ q["active"] = p["active"] + IF a = "active" THEN e ELSE 0
      /\ q["wired"] = p["wired"] + IF a = "wired" THEN e ELSE 0
      /\ q["buffers"] = p["buffers"] + IF a = "buffers" THEN e ELSE 0
      /\ q["cached"] = p["cached"] + IF a = "cached" THEN e ELSE 0
      /\ q["shmem"] = p["shmem"] + IF a = "shmem" THEN e ELSE 0
      /\ q["slab"] = p["slab"] + IF a = "slab" THEN e ELSE 0
      /\ q["arc"] = p["arc"] + IF a = "arc" THEN e ELSE 0
      /\ q["paging"] = p["paging"] + IF a = "paging" THEN e ELSE 0
      /\ q["inactive"] = p["inactive"] + IF a = "inactive" THEN e ELSE 0
      /\ q["free"] = p["free"] + IF a = "free" THEN e ELSE 0
  BY InClasses DEF Classes
<1> QED
  BY <1>1, InClasses, SumOfClasses DEF Classes

LEMMA SumIsNatural ==
  ASSUME NEW p \in [Classes -> Nat]
  PROVE  Sum(p, Classes) \in Nat /\ \A c \in Classes : p[c] <= Sum(p, Classes)
<1>1. Sum(p, Classes) \in Nat
  BY InClasses, SumOfClasses
<1>2. /\ p["active"] <= Sum(p, Classes) /\ p["wired"] <= Sum(p, Classes)
      /\ p["buffers"] <= Sum(p, Classes) /\ p["cached"] <= Sum(p, Classes)
      /\ p["shmem"] <= Sum(p, Classes) /\ p["slab"] <= Sum(p, Classes)
      /\ p["arc"] <= Sum(p, Classes) /\ p["paging"] <= Sum(p, Classes)
      /\ p["inactive"] <= Sum(p, Classes) /\ p["free"] <= Sum(p, Classes)
  BY InClasses, SumOfClasses
<1> QED
  BY <1>1, <1>2 DEF Classes

\* A page that moves is one less and one more; nothing comes and nothing goes.
LEMMA MovedFacts ==
  ASSUME MemTypes, NEW p, Counts10(p), NEW q \in Moved(p)
  PROVE  /\ Counts10(q) /\ Sum(q, Classes) = Sum(p, Classes)
         /\ \E w \in [Classes -> 0 .. 1] :
              /\ Sum(w, Classes) <= 2
              /\ \A c \in Classes : /\ q[c] - w[c] <= p[c] /\ p[c] <= q[c] + w[c]
                                    /\ q[c] - w[c] <= q[c] /\ q[c] <= q[c] + w[c]
<1> DEFINE full == {c \in UsedClasses : p[c] > IF c = "active" THEN 1 ELSE 0}
<1>1. PICK cd \in {x \in full \X UsedClasses : x[1] # x[2]} : q = [p EXCEPT ![cd[1]] = @ - 1, ![cd[2]] = @ + 1]
  BY Zenon DEF Moved, UsedClasses
<1> DEFINE a == cd[1]
           b == cd[2]
<1>2. a \in full /\ b \in UsedClasses /\ a # b
  BY <1>1
<1>3. UsedClasses \subseteq Classes
  BY DEF UsedClasses, ClassesOf, Classes
<1>4. a \in Classes /\ b \in Classes /\ a \in UsedClasses /\ p[a] > 0 /\ (a = "active" => p[a] > 1)
      /\ p \in [Classes -> Nat]
  BY <1>2, <1>3 DEF Counts10
<1>5. q = [p EXCEPT ![a] = @ - 1, ![b] = @ + 1]
  BY <1>1
<1> HIDE DEF a, b
<1>6. \A c \in Classes : p[c] \in Nat
  BY <1>4
<1> DEFINE r == [c \in Classes |-> IF c = a THEN p[c] - 1 ELSE p[c]]
<1>7. \A c \in Classes : q[c] = IF c = a THEN p[c] - 1 ELSE IF c = b THEN p[c] + 1 ELSE p[c]
  BY <1>2, <1>4, <1>5
<1>8. q \in [Classes -> Nat]
  <2>1. DOMAIN q = Classes /\ q = [c \in Classes |-> q[c]]
    BY <1>4, <1>5
  <2>2. \A c \in Classes : q[c] \in Nat
    BY <1>4, <1>6, <1>7
  <2> QED
    BY <2>1, <2>2
<1>9. r \in [Classes -> Nat]
  BY <1>4, <1>6
<1>10. \A c \in Classes : r[c] = IF c = a THEN p[c] + (-1) ELSE p[c]
  BY <1>6
<1>11. \A c \in Classes : q[c] = IF c = b THEN r[c] + 1 ELSE r[c]
  BY <1>2, <1>6, <1>7
<1> HIDE DEF r
<1>12. Sum(r, Classes) = Sum(p, Classes) + (-1)
  <2>1. -1 \in Int
    OBVIOUS
  <2> QED
    BY <1>4, <1>9, <1>10, <2>1, SumBump
<1>13. Sum(q, Classes) = Sum(r, Classes) + 1
  <2>1. 1 \in Int
    OBVIOUS
  <2> QED
    BY <1>4, <1>8, <1>9, <1>11, <2>1, SumBump
<1>14. Sum(q, Classes) = Sum(p, Classes)
  <2>1. Sum(p, Classes) \in Nat
    BY <1>4, SumIsNatural
  <2> QED
    BY <1>12, <1>13, <2>1
<1>15. Counts10(q)
  <2>1. q["active"] >= 1
    <3>1. "active" \in Classes
      BY DEF Classes
    <3>2. p["active"] \in Nat /\ p["active"] >= 1
      BY <1>6, <3>1 DEF Counts10
    <3> QED
      BY <1>4, <1>7, <3>1, <3>2
  <2>2. \A c \in Classes : c \notin UsedClasses => q[c] = 0
    BY <1>2, <1>4, <1>7 DEF Counts10
  <2>3. Sum(q, Classes) <= 10 * StartPages
    BY <1>14 DEF Counts10
  <2> QED
    BY <1>8, <2>1, <2>2, <2>3 DEF Counts10
<1> DEFINE z == [c \in Classes |-> 0]
           v == [c \in Classes |-> IF c = a THEN 1 ELSE 0]
           w == [c \in Classes |-> IF c = a \/ c = b THEN 1 ELSE 0]
<1>16. Sum(w, Classes) <= 2
  <2>1. z \in [Classes -> Nat] /\ v \in [Classes -> Nat] /\ w \in [Classes -> Nat]
    OBVIOUS
  <2>2. /\ \A c \in Classes : v[c] = IF c = a THEN z[c] + 1 ELSE z[c]
        /\ \A c \in Classes : w[c] = IF c = b THEN v[c] + 1 ELSE v[c]
    BY <1>2
  <2>3. Sum(z, Classes) = 0
    BY DEF Sum, Classes
  <2> HIDE DEF z, v, w
  <2>4. 1 \in Int
    OBVIOUS
  <2>5. Sum(v, Classes) = Sum(z, Classes) + 1
    BY <1>4, <2>1, <2>2, <2>4, SumBump
  <2>6. Sum(w, Classes) = Sum(v, Classes) + 1
    BY <1>4, <2>1, <2>2, <2>4, SumBump
  <2> QED
    BY <2>3, <2>5, <2>6
<1>17. \A c \in Classes : /\ q[c] - w[c] <= p[c] /\ p[c] <= q[c] + w[c]
                          /\ q[c] - w[c] <= q[c] /\ q[c] <= q[c] + w[c]
  BY <1>6, <1>7
<1>18. w \in [Classes -> 0 .. 1]
  OBVIOUS
<1> HIDE DEF w
<1> QED
  BY <1>14, <1>15, <1>16, <1>17, <1>18

LEMMA CallsAreAnswered ==
  ASSUME MemTypes, Counts10(pages), NEW after, NEW early,
         after = pages \/ after \in Moved(pages)
  PROVE  \E w : Answers([c \in Called |-> IF PlaceOf(c) <= early THEN pages ELSE after], after, w,
                        IF after # pages THEN 2 ELSE 0)
<1> DEFINE from == [c \in Called |-> IF PlaceOf(c) <= early THEN pages ELSE after]
<1>1. \A call \in Called : from[call] = pages \/ from[call] = after
  OBVIOUS
<1> HIDE DEF from
<1>2. CASE after = pages
  <2> DEFINE w == [c \in Classes |-> 0]
  <2>1. w \in [Classes -> 0 .. 1] /\ Sum(w, Classes) = 0 /\ \A c \in Classes : w[c] = 0
    BY DEF Sum, Classes
  <2> HIDE DEF w
  <2>2. \A c \in Classes : pages[c] - w[c] <= pages[c] /\ pages[c] <= pages[c] + w[c]
    <3>1. \A c \in Classes : pages[c] \in Nat
      BY DEF Counts10
    <3> QED
      BY <2>1, <3>1
  <2>3. Answers(from, after, w, IF after # pages THEN 2 ELSE 0)
    <3>1. \A call \in Called : from[call] = pages
      BY <1>1, <1>2
    <3>2. Sum(w, Classes) <= 0
      BY <2>1
    <3> QED
      BY <1>2, <2>1, <2>2, <3>1, <3>2 DEF Answers
  <2> QED
    BY <2>3 DEF from
<1>3. CASE after # pages
  <2>1. after \in Moved(pages)
    BY <1>3
  <2>2. Counts10(after) /\ Sum(after, Classes) = Sum(pages, Classes)
    BY <2>1, MovedFacts
  <2>3. PICK w \in [Classes -> 0 .. 1] :
          /\ Sum(w, Classes) <= 2
          /\ \A c \in Classes : /\ after[c] - w[c] <= pages[c] /\ pages[c] <= after[c] + w[c]
                                /\ after[c] - w[c] <= after[c] /\ after[c] <= after[c] + w[c]
    BY <2>1, MovedFacts
  <2>4. \A call \in Called :
          /\ Counts10(from[call]) /\ Sum(from[call], Classes) = Sum(after, Classes)
          /\ \A c \in Classes : after[c] - w[c] <= from[call][c] /\ from[call][c] <= after[c] + w[c]
    BY <1>1, <2>2, <2>3
  <2>5. \A call, other \in Called, c \in Classes : from[call][c] <= from[other][c] + w[c]
    <3> SUFFICES ASSUME NEW call \in Called, NEW other \in Called, NEW c \in Classes
                 PROVE  from[call][c] <= from[other][c] + w[c]
      OBVIOUS
    <3>1. pages[c] \in Nat /\ after[c] \in Nat /\ w[c] \in Nat
      BY <2>2 DEF Counts10
    <3>2. pages[c] <= pages[c] + w[c] /\ after[c] <= after[c] + w[c] /\ after[c] <= pages[c] + w[c]
          /\ pages[c] <= after[c] + w[c]
      BY <2>3, <3>1
    <3> QED
      BY <1>1, <3>2
  <2>6. Answers(from, after, w, IF after # pages THEN 2 ELSE 0)
    BY <1>3, <2>2, <2>3, <2>4, <2>5 DEF Answers
  <2> QED
    BY <2>6 DEF from
<1> QED
  BY <1>2, <1>3

LEMMA ModPlus ==
  ASSUME NEW a \in Int, NEW b \in Nat \ {0}, -b <= a, a < 0
  PROVE  a % b = a + b
BY Z3

LEMMA ModMinus ==
  ASSUME NEW a \in Nat, NEW b \in Nat \ {0}, b <= a, a < 2 * b
  PROVE  a % b = a - b
BY Z3

LEMMA HalfOf ==
  ASSUME NEW m \in Nat
  PROVE  m \div 2 \in Nat /\ 2 * (m \div 2) <= m /\ m < 2 * (m \div 2) + 2
BY Z3

LEMMA UnsignedOf ==
  ASSUME NEW n \in Nat, n < MemModulus
  PROVE  Unsigned(n) = n
BY MemNumbers, ModSmall DEF Unsigned

\* An unsigned difference is the signed one again, once it is taken for a signed number.
LEMMA SignedOf ==
  ASSUME NEW n \in Int, -(15 * StartPages) <= n, n <= 15 * StartPages
  PROVE  Signed(Unsigned(n)) = n
<1> DEFINE h == MemModulus \div 2
<1>1. StartPages \in Nat \ {0} /\ MemModulus \in Nat \ {0} /\ MemModulus > 40 * StartPages
  BY MemNumbers
<1>2. h \in Nat /\ 2 * h <= MemModulus /\ MemModulus < 2 * h + 2
  BY <1>1, HalfOf
<1> HIDE DEF h
<1>3. CASE n >= 0
  <2>1. n % MemModulus = n
    BY <1>1, <1>3, ModSmall
  <2>2. ~(n >= h)
    BY <1>1, <1>2, <1>3
  <2> QED
    BY <2>1, <2>2 DEF Signed, Unsigned, h
<1>4. CASE n < 0
  <2>1. n % MemModulus = n + MemModulus
    BY <1>1, <1>4, ModPlus
  <2>2. n + MemModulus >= h /\ (n + MemModulus) - MemModulus = n
    BY <1>1, <1>2, <1>4
  <2> QED
    BY <2>1, <2>2 DEF Signed, Unsigned, h
<1> QED
  BY <1>3, <1>4

LEMMA SignedIs ==
  ASSUME NEW n \in Nat, n <= 15 * StartPages
  PROVE  Signed(n) = n
<1> DEFINE h == MemModulus \div 2
<1>1. StartPages \in Nat \ {0} /\ MemModulus \in Nat \ {0} /\ MemModulus > 40 * StartPages
  BY MemNumbers
<1>2. h \in Nat /\ 2 * h <= MemModulus /\ MemModulus < 2 * h + 2
  BY <1>1, HalfOf
<1> HIDE DEF h
<1>3. ~(n >= h)
  BY <1>1, <1>2
<1> QED
  BY <1>3 DEF Signed, h

LEMMA DistanceIs ==
  ASSUME NEW a \in Int, NEW b \in Int, NEW n \in Int, a <= b + n, b <= a + n
  PROVE  Distance(a, b) <= n
BY DEF Distance

LEMMA AllCalled ==
  /\ "total" \in Called /\ "free" \in Called /\ "active" \in Called /\ "wire" \in Called
  /\ "buffers" \in Called /\ "cached" \in Called /\ "shmem" \in Called /\ "slab" \in Called
  /\ "arc" \in Called
<1>1. DOMAIN Calls = 1 .. 9
  BY DEF Calls
<1>2. /\ Calls[1] = "total" /\ Calls[2] = "free" /\ Calls[3] = "active" /\ Calls[4] = "wire"
      /\ Calls[5] = "buffers" /\ Calls[6] = "cached" /\ Calls[7] = "shmem" /\ Calls[8] = "slab"
      /\ Calls[9] = "arc"
  BY DEF Calls
<1>3. \A i \in 1 .. 9 : Calls[i] \in Called
  BY <1>1 DEF Called
<1>4. 1 \in 1 .. 9 /\ 2 \in 1 .. 9 /\ 3 \in 1 .. 9 /\ 4 \in 1 .. 9 /\ 5 \in 1 .. 9 /\ 6 \in 1 .. 9
      /\ 7 \in 1 .. 9 /\ 8 \in 1 .. 9 /\ 9 \in 1 .. 9
  OBVIOUS
<1> QED
  BY <1>2, <1>3, <1>4

(* What is known of the answer to one call, class by class.                *)
LEMMA AnswerFacts ==
  ASSUME NEW from, NEW p, NEW w, NEW n, Answers(from, p, w, n), NEW call \in Called
  PROVE  /\ from[call] \in [Classes -> Nat] /\ from[call]["active"] >= 1
         /\ Sum(from[call], Classes) = Sum(p, Classes)
         /\ \A c \in Classes : /\ c \notin UsedClasses => from[call][c] = 0
                               /\ from[call][c] \in Nat /\ from[call][c] <= Sum(p, Classes)
                               /\ p[c] - w[c] <= from[call][c] /\ from[call][c] <= p[c] + w[c]
<1>1. Counts10(from[call]) /\ Sum(from[call], Classes) = Sum(p, Classes)
      /\ \A c \in Classes : p[c] - w[c] <= from[call][c] /\ from[call][c] <= p[c] + w[c]
  BY DEF Answers
<1>2. from[call] \in [Classes -> Nat] /\ from[call]["active"] >= 1
      /\ \A c \in Classes : c \notin UsedClasses => from[call][c] = 0
  BY <1>1 DEF Counts10
<1>3. \A c \in Classes : from[call][c] \in Nat /\ from[call][c] <= Sum(p, Classes)
  BY <1>1, <1>2, SumIsNatural
<1> QED
  BY <1>1, <1>2, <1>3

(* What is known of the pages themselves and of the differences.           *)
LEMMA PagesFacts ==
  ASSUME NEW from, NEW p, NEW w, NEW n, Answers(from, p, w, n)
  PROVE  /\ p \in [Classes -> Nat] /\ w \in [Classes -> Nat] /\ \A c \in Classes : w[c] <= 1
         /\ Sum(p, Classes) \in Nat /\ Sum(p, Classes) <= 10 * StartPages
         /\ p["active"] + p["wired"] + p["buffers"] + p["cached"] + p["shmem"]
            + p["slab"] + p["arc"] + p["paging"] + p["inactive"] + p["free"] = Sum(p, Classes)
         /\ w["active"] + w["wired"] + w["buffers"] + w["cached"] + w["shmem"]
            + w["slab"] + w["arc"] + w["paging"] + w["inactive"] + w["free"] <= n
         /\ \A c \in Classes : c \notin UsedClasses => p[c] = 0
<1>1. w \in [Classes -> Nat] /\ \A c \in Classes : w[c] <= 1
  BY DEF Answers
<1> QED
  BY <1>1, SumOfClasses, SumIsNatural DEF Answers, Counts10

LEMMA AnswersDiffer ==
  ASSUME NEW from, NEW p, NEW w, NEW n, Answers(from, p, w, n),
         NEW call \in Called, NEW other \in Called, NEW c \in Classes
  PROVE  from[call][c] <= from[other][c] + w[c]
BY DEF Answers

LEMMA FitFrom ==
  ASSUME NEW total, NEW v, NEW p, NEW n \in 0 .. 2,
         total = Sum(p, Classes), Sum(p, Classes) \in Int, Sum(p, MemParts[1]) <= Sum(p, Classes),
         \A i \in 1 .. 3 : /\ v[i] \in Int /\ Sum(p, MemParts[i]) \in Int
                           /\ v[i] <= Sum(p, MemParts[i]) + n /\ Sum(p, MemParts[i]) <= v[i] + n
  PROVE  PartsFit(total, v, p, n)
<1>1. \A i \in 1 .. 3 : Distance(v[i], Sum(p, MemParts[i])) <= n
  BY DistanceIs
<1>2. v[1] <= total + n
  <2>1. 1 \in 1 .. 3 /\ n \in Int
    OBVIOUS
  <2>2. v[1] \in Int /\ Sum(p, MemParts[1]) \in Int /\ v[1] <= Sum(p, MemParts[1]) + n
    BY <2>1
  <2> QED
    BY <2>1, <2>2
<1> QED
  BY <1>1, <1>2 DEF PartsFit

LEMMA LinuxFits ==
  ASSUME MemTypes, memHost.os = "linux", NEW from, NEW p, NEW w, NEW n \in 0 .. 2, Answers(from, p, w, n)
  PROVE  /\ LinuxMemory(from) \in [total : Int, used : Int, buffers : Int, cached : Int]
         /\ PartsFit(LinuxMemory(from).total, PartsOf(LinuxMemory(from)), p, n)
<1> DEFINE l == LinuxMemory(from)
           T == Sum(p, Classes)
           free == from["free"]["free"]
           buffers == from["buffers"]["buffers"]
           cached == from["cached"]["cached"] + from["cached"]["shmem"]
           x == cached + from["slab"]["slab"] - from["shmem"]["shmem"]
<1>1. Sum(from["total"], Classes) = T
  BY AnswerFacts, AllCalled
<1>2. Sum(from["cached"], {"cached", "shmem"}) = cached
  <2>1. from["cached"]["cached"] \in Nat /\ from["cached"]["shmem"] \in Nat
    BY AnswerFacts, AllCalled DEF Classes
  <2> QED
    BY <2>1 DEF Sum
<1>3. l = [total |-> T, used |-> Unsigned(T - free), buffers |-> buffers, cached |-> Unsigned(x)]
  BY <1>1, <1>2, Zenon DEF LinuxMemory
<1>4. /\ p["active"] \in Nat /\ p["wired"] \in Nat /\ p["buffers"] \in Nat /\ p["cached"] \in Nat
      /\ p["shmem"] \in Nat /\ p["slab"] \in Nat /\ p["arc"] \in Nat /\ p["paging"] \in Nat
      /\ p["inactive"] \in Nat /\ p["free"] \in Nat
  BY PagesFacts, InClasses
<1>5. /\ w["active"] \in Nat /\ w["wired"] \in Nat /\ w["buffers"] \in Nat /\ w["cached"] \in Nat
      /\ w["shmem"] \in Nat /\ w["slab"] \in Nat /\ w["arc"] \in Nat /\ w["paging"] \in Nat
      /\ w["inactive"] \in Nat /\ w["free"] \in Nat
  BY PagesFacts, InClasses
<1>6. /\ p["active"] + p["wired"] + p["buffers"] + p["cached"] + p["shmem"]
         + p["slab"] + p["arc"] + p["paging"] + p["inactive"] + p["free"] = T
      /\ w["active"] + w["wired"] + w["buffers"] + w["cached"] + w["shmem"]
         + w["slab"] + w["arc"] + w["paging"] + w["inactive"] + w["free"] <= n
      /\ T \in Nat /\ T <= 10 * StartPages
  BY PagesFacts
<1>7. p["arc"] = 0 /\ p["paging"] = 0 /\ p["inactive"] = 0
  <2>1. \A c \in {"arc", "paging", "inactive"} : c \in Classes /\ c \notin UsedClasses
    BY DEF UsedClasses, ClassesOf, Classes
  <2> QED
    BY <2>1, PagesFacts
<1>8. /\ from["free"]["free"] \in Nat /\ from["free"]["free"] <= T
      /\ p["free"] - w["free"] <= from["free"]["free"] /\ from["free"]["free"] <= p["free"] + w["free"]
  BY AnswerFacts, AllCalled DEF Classes
<1>9. /\ from["buffers"]["buffers"] \in Nat /\ from["buffers"]["buffers"] <= T
      /\ p["buffers"] - w["buffers"] <= from["buffers"]["buffers"]
      /\ from["buffers"]["buffers"] <= p["buffers"] + w["buffers"]
  BY AnswerFacts, AllCalled DEF Classes
<1>10. /\ from["cached"]["cached"] \in Nat
       /\ p["cached"] - w["cached"] <= from["cached"]["cached"]
       /\ from["cached"]["cached"] <= p["cached"] + w["cached"]
  BY AnswerFacts, AllCalled DEF Classes
<1>11. /\ from["cached"]["shmem"] \in Nat
       /\ p["shmem"] - w["shmem"] <= from["cached"]["shmem"]
       /\ from["cached"]["shmem"] <= p["shmem"] + w["shmem"]
  BY AnswerFacts, AllCalled DEF Classes
<1>12. /\ from["slab"]["slab"] \in Nat
       /\ p["slab"] - w["slab"] <= from["slab"]["slab"]
       /\ from["slab"]["slab"] <= p["slab"] + w["slab"]
  BY AnswerFacts, AllCalled DEF Classes
<1>13. /\ from["shmem"]["shmem"] \in Nat
       /\ p["shmem"] - w["shmem"] <= from["shmem"]["shmem"]
       /\ from["shmem"]["shmem"] <= p["shmem"] + w["shmem"]
  BY AnswerFacts, AllCalled DEF Classes
<1> HIDE DEF T
<1>14. /\ from["cached"]["shmem"] <= from["shmem"]["shmem"] + w["shmem"]
       /\ from["shmem"]["shmem"] <= from["cached"]["shmem"] + w["shmem"]
  BY AllCalled DEF Answers, Classes
<1> DEFINE c == from["cached"]["cached"]
           s == from["slab"]["slab"]
           h == from["cached"]["shmem"] - from["shmem"]["shmem"]
           v == w["cached"] + w["slab"] + w["shmem"]
<1>15. /\ c + s \in Nat /\ h \in Int /\ v \in Nat /\ n \in Int /\ 0 <= n /\ n <= 2
       /\ v + w["free"] + w["buffers"] <= n
       /\ c + s + h <= p["cached"] + p["slab"] + v /\ p["cached"] + p["slab"] <= c + s + h + v
       /\ p["cached"] + p["slab"] \in Nat /\ p["cached"] + p["slab"] <= T
  <2>1. v + w["free"] + w["buffers"] <= n
    BY <1>5, <1>6
  <2>2. h \in Int /\ h <= w["shmem"] /\ -w["shmem"] <= h
    BY <1>5, <1>11, <1>13, <1>14
  <2>3. /\ c + s <= p["cached"] + p["slab"] + w["cached"] + w["slab"]
        /\ p["cached"] + p["slab"] <= c + s + w["cached"] + w["slab"] /\ c + s \in Nat
    BY <1>4, <1>5, <1>10, <1>12
  <2>4. p["cached"] + p["slab"] \in Nat /\ p["cached"] + p["slab"] <= T
    BY <1>4, <1>6
  <2>5. n \in Int /\ 0 <= n /\ n <= 2 /\ v \in Nat
    BY <1>5
  <2> HIDE DEF h, c, s
  <2>6. c + s + h <= p["cached"] + p["slab"] + v
    BY <1>4, <1>5, <2>2, <2>3
  <2>7. p["cached"] + p["slab"] <= c + s + h + v
    BY <1>4, <1>5, <2>2, <2>3
  <2> QED
    BY <2>1, <2>2, <2>3, <2>4, <2>5, <2>6, <2>7
<1>16. T - free \in Nat /\ T - free <= T
  BY <1>6, <1>8
<1>17. x = c + s + h
  BY <1>10, <1>11, <1>12, <1>13
<1> DEFINE held == p["active"] + p["wired"] + p["shmem"]
           some == p["cached"] + p["slab"]
<1>18. held \in Nat /\ held + p["buffers"] + some + p["free"] = T
  BY <1>4, <1>6, <1>7
<1> HIDE DEF c, s, h, v, x, held, some
<1>19. x \in Int /\ x <= some + v /\ some <= x + v /\ some \in Nat /\ some <= T
  BY <1>15, <1>17 DEF some
<1>20. /\ x <= T + 2 /\ -2 <= x /\ some <= x + n /\ x <= some + n
  <2>1. v \in Nat /\ v <= n
    BY <1>5, <1>15
  <2> QED
    BY <1>6, <1>15, <1>19, <2>1
<1>21. /\ (T - free) - (buffers + x) <= held + n
       /\ held <= ((T - free) - (buffers + x)) + n
       /\ (T - free) - (buffers + x) \in Int
  <2> HIDE DEF free, buffers
  <2>1. /\ free \in Nat /\ buffers \in Nat /\ free <= p["free"] + w["free"] /\ p["free"] <= free + w["free"]
        /\ buffers <= p["buffers"] + w["buffers"] /\ p["buffers"] <= buffers + w["buffers"]
    BY <1>4, <1>5, <1>8, <1>9 DEF free, buffers
  <2>2. v \in Nat /\ v + w["free"] + w["buffers"] <= n /\ n \in Int
    BY <1>15
  <2>3. (T - free) - (buffers + x) \in Int
    BY <1>6, <1>19, <2>1
  <2>4. (T - free) - (buffers + x) <= held + n
    BY <1>4, <1>5, <1>6, <1>18, <1>19, <2>1, <2>2
  <2>5. held <= ((T - free) - (buffers + x)) + n
    BY <1>4, <1>5, <1>6, <1>18, <1>19, <2>1, <2>2
  <2> QED
    BY <2>3, <2>4, <2>5
<1>22. /\ buffers <= p["buffers"] + n /\ p["buffers"] <= buffers + n /\ buffers \in Nat /\ buffers <= T
  BY <1>4, <1>5, <1>6, <1>9
<1>23. held <= T
  BY <1>4, <1>6, <1>18, <1>19
<1> HIDE DEF free, buffers
<1>24. Signed(Unsigned(x)) = x /\ Signed(Unsigned(T - free)) = T - free /\ Signed(buffers) = buffers
  <2>1. StartPages \in Nat \ {0}
    BY MemNumbers
  <2>2. -(15 * StartPages) <= x /\ x <= 15 * StartPages
    BY <1>6, <1>19, <1>20, <2>1
  <2>3. T - free \in Int /\ -(15 * StartPages) <= T - free /\ T - free <= 15 * StartPages
    BY <1>6, <1>16, <2>1
  <2>4. buffers <= 15 * StartPages
    BY <1>6, <1>22, <2>1
  <2> QED
    BY <1>22, <1>19, <2>2, <2>3, <2>4, SignedOf, SignedIs
<1>25. Unsigned(x) \in Int /\ Unsigned(T - free) \in Int
  BY <1>16, <1>19, MemNumbers DEF Unsigned
<1> HIDE DEF l
<1>26. l.total = T /\ l.used = Unsigned(T - free) /\ l.buffers = buffers /\ l.cached = Unsigned(x)
  BY <1>3
<1>27. PartsOf(l) = <<(T - free) - (buffers + x), buffers, x>>
  BY <1>24, <1>26 DEF PartsOf
<1>28. /\ Sum(p, MemParts[1]) = held
       /\ Sum(p, MemParts[2]) = p["buffers"]
       /\ Sum(p, MemParts[3]) = some
  BY <1>4 DEF Sum, MemParts, held, some
<1>29. PartsFit(l.total, PartsOf(l), p, n)
  <2> DEFINE a == (T - free) - (buffers + x)
  <2>1. a \in Int /\ held \in Int /\ a <= held + n /\ held <= a + n /\ held <= T /\ n \in Int
    BY <1>15, <1>21, <1>23, <1>18
  <2> HIDE DEF a
  <2>2. PartsOf(l)[1] = a /\ PartsOf(l)[2] = buffers /\ PartsOf(l)[3] = x
    BY <1>27 DEF a
  <2>3. Distance(a, held) <= n
    BY <2>1, DistanceIs
  <2>4. Distance(buffers, p["buffers"]) <= n
    BY <1>4, <1>22, <2>1, DistanceIs
  <2>5. Distance(x, some) <= n
    BY <1>19, <1>20, <2>1, DistanceIs
  <2>6. a <= T + n
    BY <1>6, <2>1
  <2>7. \A i \in 1 .. 3 : Distance(PartsOf(l)[i], Sum(p, MemParts[i])) <= n
    <3>1. \A i \in 1 .. 3 : i = 1 \/ i = 2 \/ i = 3
      OBVIOUS
    <3> QED
      BY <1>28, <2>2, <2>3, <2>4, <2>5, <3>1
  <2> QED
    BY <1>26, <2>2, <2>6, <2>7 DEF PartsFit, T
<1>30. l \in [total : Int, used : Int, buffers : Int, cached : Int]
  BY <1>3, <1>6, <1>22, <1>25 DEF l
<1> QED
  BY <1>29, <1>30 DEF l

LEMMA OneToThree ==
  ASSUME NEW v, NEW s, NEW n,
         v[1] \in Int /\ s[1] \in Int /\ v[1] <= s[1] + n /\ s[1] <= v[1] + n,
         v[2] \in Int /\ s[2] \in Int /\ v[2] <= s[2] + n /\ s[2] <= v[2] + n,
         v[3] \in Int /\ s[3] \in Int /\ v[3] <= s[3] + n /\ s[3] <= v[3] + n
  PROVE  \A i \in 1 .. 3 : v[i] \in Int /\ s[i] \in Int /\ v[i] <= s[i] + n /\ s[i] <= v[i] + n
<1>1. \A i \in 1 .. 3 : i = 1 \/ i = 2 \/ i = 3
  OBVIOUS
<1> QED
  BY <1>1

LEMMA BsdFits ==
  ASSUME MemTypes, memHost.os \in {"freebsd", "dragonfly"},
         NEW from, NEW p, NEW w, NEW n \in 0 .. 2, Answers(from, p, w, n)
  PROVE  /\ BsdMemory(from) \in [total : Int, used : Int, buffers : Int, cached : Int]
         /\ PartsFit(BsdMemory(from).total, PartsOf(BsdMemory(from)), p, n)
<1> DEFINE l == BsdMemory(from)
           T == Sum(p, Classes)
           arc == IF memHost.zfs THEN from["arc"]["arc"] ELSE 0
           active == from["active"]["active"]
           buffers == from["buffers"]["buffers"]
           x == (from["wire"]["wired"] + from["wire"]["arc"]) - arc
           y == from["cached"]["cached"] + arc
<1>1. Sum(from["total"], Classes) = T
  BY AnswerFacts, AllCalled
<1>2. from["wire"]["wired"] \in Nat /\ from["wire"]["arc"] \in Nat
      /\ from["wire"]["wired"] <= T /\ from["wire"]["arc"] <= T
      /\ p["wired"] - w["wired"] <= from["wire"]["wired"]
      /\ from["wire"]["wired"] <= p["wired"] + w["wired"]
  BY AnswerFacts, AllCalled DEF Classes
<1>3. Sum(from["wire"], {"wired", "arc"}) = from["wire"]["wired"] + from["wire"]["arc"]
  BY <1>2 DEF Sum
<1>4. l = [total |-> T, used |-> Unsigned(active + Unsigned(x)), buffers |-> buffers, cached |-> Unsigned(y)]
  <2>1. l = [total |-> Sum(from["total"], Classes),
             used |-> Unsigned(active + Unsigned(Sum(from["wire"], {"wired", "arc"}) - arc)),
             buffers |-> buffers, cached |-> Unsigned(y)]
    BY Zenon DEF BsdMemory
  <2>2. Sum(from["wire"], {"wired", "arc"}) - arc = x
    BY <1>3, Zenon
  <2> HIDE DEF l, x, y, arc, active, buffers, T
  <2>3. Unsigned(active + Unsigned(Sum(from["wire"], {"wired", "arc"}) - arc)) = Unsigned(active + Unsigned(x))
    BY <2>2, Zenon
  <2>4. Sum(from["total"], Classes) = T
    BY <1>1 DEF T
  <2> QED
    BY <2>1, <2>3, <2>4
<1>5. /\ p["active"] \in Nat /\ p["wired"] \in Nat /\ p["buffers"] \in Nat /\ p["cached"] \in Nat
      /\ p["shmem"] \in Nat /\ p["slab"] \in Nat /\ p["arc"] \in Nat /\ p["paging"] \in Nat
      /\ p["inactive"] \in Nat /\ p["free"] \in Nat
  BY PagesFacts, InClasses
<1>6. /\ w["active"] \in Nat /\ w["wired"] \in Nat /\ w["buffers"] \in Nat /\ w["cached"] \in Nat
      /\ w["shmem"] \in Nat /\ w["slab"] \in Nat /\ w["arc"] \in Nat /\ w["paging"] \in Nat
      /\ w["inactive"] \in Nat /\ w["free"] \in Nat
  BY PagesFacts, InClasses
<1>7. /\ p["active"] + p["wired"] + p["buffers"] + p["cached"] + p["shmem"]
         + p["slab"] + p["arc"] + p["paging"] + p["inactive"] + p["free"] = T
      /\ w["active"] + w["wired"] + w["buffers"] + w["cached"] + w["shmem"]
         + w["slab"] + w["arc"] + w["paging"] + w["inactive"] + w["free"] <= n
      /\ T \in Nat /\ T <= 10 * StartPages
  BY PagesFacts
<1>8. w["active"] + w["wired"] + w["arc"] <= n /\ w["cached"] + w["arc"] <= n /\ w["buffers"] <= n
      /\ w["arc"] <= 1
  <2>1. w["arc"] <= 1
    BY PagesFacts DEF Classes
  <2> QED
    BY <1>6, <1>7, <2>1
<1>9. p["active"] + p["wired"] \in Nat /\ p["active"] + p["wired"] <= T /\ p["cached"] + p["arc"] \in Nat
      /\ n \in Int /\ 0 <= n /\ n <= 2
  BY <1>5, <1>7
<1>10. /\ active \in Nat /\ active >= 1 /\ active <= T
       /\ p["active"] <= active + w["active"] /\ active <= p["active"] + w["active"]
  BY <1>5, <1>6, AnswerFacts, AllCalled DEF Classes
<1>11. /\ buffers \in Nat
       /\ p["buffers"] <= buffers + w["buffers"] /\ buffers <= p["buffers"] + w["buffers"]
  BY <1>5, <1>6, AnswerFacts, AllCalled DEF Classes
<1>12. /\ from["cached"]["cached"] \in Nat /\ from["cached"]["cached"] <= T
       /\ p["cached"] <= from["cached"]["cached"] + w["cached"]
       /\ from["cached"]["cached"] <= p["cached"] + w["cached"]
  BY <1>5, <1>6, AnswerFacts, AllCalled DEF Classes
<1>13. /\ arc \in Nat /\ arc <= T
       /\ arc <= from["wire"]["arc"] + w["arc"] /\ from["wire"]["arc"] <= arc + w["arc"]
       /\ arc <= p["arc"] + w["arc"] /\ p["arc"] <= arc + w["arc"]
  <2>1. CASE memHost.zfs
    <3>1. arc = from["arc"]["arc"]
      BY <2>1
    <3>2. from["arc"]["arc"] \in Nat /\ from["arc"]["arc"] <= T
          /\ p["arc"] - w["arc"] <= from["arc"]["arc"] /\ from["arc"]["arc"] <= p["arc"] + w["arc"]
      BY AnswerFacts, AllCalled DEF Classes
    <3>3. from["arc"]["arc"] <= from["wire"]["arc"] + w["arc"] /\ from["wire"]["arc"] <= from["arc"]["arc"] + w["arc"]
      BY AnswersDiffer, AllCalled DEF Classes
    <3> HIDE DEF arc, T
    <3> QED
      BY <1>5, <1>6, <3>1, <3>2, <3>3
  <2>2. CASE ~memHost.zfs
    <3>1. "arc" \in Classes /\ "arc" \notin UsedClasses
      BY <2>2 DEF Classes, UsedClasses
    <3>2. from["wire"]["arc"] = 0 /\ p["arc"] = 0
      BY <3>1, AnswerFacts, AllCalled, PagesFacts
    <3>3. arc = 0
      BY <2>2
    <3> HIDE DEF arc, T
    <3> QED
      BY <1>6, <1>7, <3>2, <3>3
  <2> QED
    BY <2>1, <2>2
<1> DEFINE d == from["wire"]["arc"] - arc
<1>14. /\ x = from["wire"]["wired"] + d /\ d \in Int /\ d <= w["arc"] /\ -w["arc"] <= d /\ -1 <= d /\ d <= 1
  <2> HIDE DEF arc
  <2> QED
    BY <1>2, <1>6, <1>8, <1>13
<1> HIDE DEF arc, active, buffers, d
<1>15. x \in Int /\ -1 <= x /\ x <= T + 1 /\ y \in Nat /\ y <= 2 * T
  <2> HIDE DEF T
  <2> QED
    BY <1>2, <1>7, <1>12, <1>13, <1>14
<1>16. x <= p["wired"] + w["wired"] + w["arc"] /\ p["wired"] <= x + w["wired"] + w["arc"]
  BY <1>2, <1>5, <1>6, <1>14
<1>17. y <= p["cached"] + p["arc"] + n /\ p["cached"] + p["arc"] <= y + n
  BY <1>5, <1>6, <1>8, <1>9, <1>12, <1>13
<1> HIDE DEF x, y, T
<1>18. active + x \in Nat /\ active + x <= 2 * T + 1
  BY <1>7, <1>10, <1>15
<1>19. active + x <= p["active"] + p["wired"] + n /\ p["active"] + p["wired"] <= active + x + n
  BY <1>5, <1>6, <1>8, <1>9, <1>10, <1>15, <1>16
<1>20. StartPages \in Nat \ {0} /\ MemModulus \in Nat \ {0} /\ MemModulus > 40 * StartPages
  BY MemNumbers
<1>21. 2 * T + 1 < MemModulus /\ T + 1 < MemModulus
  BY <1>7, <1>20
<1>22. Unsigned(active + Unsigned(x)) = active + x
  <2>1. CASE x >= 0
    <3>1. Unsigned(x) = x
      BY <1>15, <1>20, <1>21, <1>7, <2>1, UnsignedOf
    <3>2. active + x < MemModulus
      BY <1>7, <1>18, <1>20, <1>21
    <3> QED
      BY <1>18, <3>1, <3>2, UnsignedOf
  <2>2. CASE x < 0
    <3>1. Unsigned(x) = x + MemModulus
      <4>1. -MemModulus <= x
        BY <1>15, <1>20
      <4> QED
        BY <1>15, <1>20, <2>2, <4>1, ModPlus DEF Unsigned
    <3>2. /\ active + (x + MemModulus) \in Nat /\ MemModulus <= active + (x + MemModulus)
          /\ active + (x + MemModulus) < 2 * MemModulus
          /\ (active + (x + MemModulus)) - MemModulus = active + x
      BY <1>7, <1>10, <1>15, <1>18, <1>20, <1>21
    <3>3. (active + (x + MemModulus)) % MemModulus = active + x
      <4> DEFINE z == active + (x + MemModulus)
      <4> HIDE DEF z
      <4>1. z \in Nat /\ MemModulus <= z /\ z < 2 * MemModulus /\ z - MemModulus = active + x
        BY <3>2 DEF z
      <4>2. z % MemModulus = z - MemModulus
        BY <1>20, <4>1, ModMinus
      <4> QED
        BY <4>1, <4>2 DEF z
    <3> QED
      BY <3>1, <3>3 DEF Unsigned
  <2> QED
    BY <1>15, <2>1, <2>2
<1>23. Unsigned(y) = y
  <2>1. y < MemModulus
    BY <1>7, <1>15, <1>20, <1>21
  <2> QED
    BY <1>15, <2>1, UnsignedOf
<1>24. l = [total |-> T, used |-> active + x, buffers |-> buffers, cached |-> y]
  BY <1>4, <1>22, <1>23
<1> HIDE DEF l
<1>25. l.total = T /\ l.used = active + x /\ l.buffers = buffers /\ l.cached = y
  BY <1>24
<1>26. PartsOf(l) = <<active + x, buffers, y>>
  BY <1>25 DEF PartsOf
<1>27. /\ MemParts[1] = {"active", "wired"} /\ MemParts[2] = {"buffers"} /\ MemParts[3] = {"cached", "arc"}
  BY DEF MemParts
<1>28. /\ Sum(p, MemParts[1]) = p["active"] + p["wired"] /\ Sum(p, MemParts[2]) = p["buffers"]
       /\ Sum(p, MemParts[3]) = p["cached"] + p["arc"]
  BY <1>5, <1>27 DEF Sum
<1>29. PartsFit(l.total, PartsOf(l), p, n)
  <2> DEFINE v == PartsOf(l)
             s == [i \in 1 .. 3 |-> Sum(p, MemParts[i])]
  <2>1. v[1] = active + x /\ v[2] = buffers /\ v[3] = y
    BY <1>26
  <2>2. s[1] = p["active"] + p["wired"] /\ s[2] = p["buffers"] /\ s[3] = p["cached"] + p["arc"]
    BY <1>28
  <2> HIDE DEF v, s
  <2>3. v[1] \in Int /\ s[1] \in Int /\ v[1] <= s[1] + n /\ s[1] <= v[1] + n
    BY <1>9, <1>18, <1>19, <2>1, <2>2
  <2>4. v[2] \in Int /\ s[2] \in Int /\ v[2] <= s[2] + n /\ s[2] <= v[2] + n
    BY <1>5, <1>6, <1>8, <1>9, <1>11, <2>1, <2>2
  <2>5. v[3] \in Int /\ s[3] \in Int /\ v[3] <= s[3] + n /\ s[3] <= v[3] + n
    BY <1>9, <1>15, <1>17, <2>1, <2>2
  <2>6. \A i \in 1 .. 3 : v[i] \in Int /\ s[i] \in Int /\ v[i] <= s[i] + n /\ s[i] <= v[i] + n
    BY <2>3, <2>4, <2>5, OneToThree
  <2>7. \A i \in 1 .. 3 : s[i] = Sum(p, MemParts[i])
    BY DEF s
  <2>8. \A i \in 1 .. 3 : /\ v[i] \in Int /\ Sum(p, MemParts[i]) \in Int
                          /\ v[i] <= Sum(p, MemParts[i]) + n /\ Sum(p, MemParts[i]) <= v[i] + n
    BY <2>6, <2>7
  <2>9. l.total = Sum(p, Classes) /\ Sum(p, Classes) \in Int /\ Sum(p, MemParts[1]) <= Sum(p, Classes)
    BY <1>7, <1>9, <1>25, <1>28 DEF T
  <2>10. PartsFit(l.total, v, p, n)
    BY <2>8, <2>9, FitFrom
  <2> QED
    BY <2>10 DEF v
<1>30. l \in [total : Int, used : Int, buffers : Int, cached : Int]
  BY <1>7, <1>11, <1>15, <1>18, <1>24
<1> QED
  BY <1>29, <1>30 DEF l

LEMMA OpenFits ==
  ASSUME MemTypes, memHost.os = "openbsd",
         NEW from, NEW p, NEW w, NEW n \in 0 .. 2, Answers(from, p, w, n)
  PROVE  /\ OpenMemory(from) \in [total : Int, used : Int, buffers : Int, cached : Int]
         /\ PartsFit(OpenMemory(from).total, PartsOf(OpenMemory(from)), p, n)
<1> DEFINE l == OpenMemory(from)
           T == Sum(p, Classes)
           t == from["total"]
           x == (T - t["free"]) - t["paging"]
           y == from["cached"]["cached"]
<1>1. Sum(t, Classes) = T /\ t \in [Classes -> Nat]
  BY AnswerFacts, AllCalled
<1>2. l = [total |-> T, used |-> Unsigned(x), buffers |-> 0, cached |-> y]
  <2>1. l = [total |-> Sum(t, Classes), used |-> Unsigned(Sum(t, Classes) - t["free"] - t["paging"]),
             buffers |-> 0, cached |-> y]
    BY Zenon DEF OpenMemory
  <2> QED
    BY <1>1, <2>1, Zenon
<1>3. /\ p["active"] \in Nat /\ p["wired"] \in Nat /\ p["buffers"] \in Nat /\ p["cached"] \in Nat
      /\ p["shmem"] \in Nat /\ p["slab"] \in Nat /\ p["arc"] \in Nat /\ p["paging"] \in Nat
      /\ p["inactive"] \in Nat /\ p["free"] \in Nat
  BY PagesFacts, InClasses
<1>4. /\ w["active"] \in Nat /\ w["wired"] \in Nat /\ w["buffers"] \in Nat /\ w["cached"] \in Nat
      /\ w["shmem"] \in Nat /\ w["slab"] \in Nat /\ w["arc"] \in Nat /\ w["paging"] \in Nat
      /\ w["inactive"] \in Nat /\ w["free"] \in Nat
  BY PagesFacts, InClasses
<1>5. /\ t["active"] \in Nat /\ t["wired"] \in Nat /\ t["buffers"] \in Nat /\ t["cached"] \in Nat
      /\ t["shmem"] \in Nat /\ t["slab"] \in Nat /\ t["arc"] \in Nat /\ t["paging"] \in Nat
      /\ t["inactive"] \in Nat /\ t["free"] \in Nat
  BY <1>1, InClasses
<1>6. /\ p["active"] + p["wired"] + p["buffers"] + p["cached"] + p["shmem"]
         + p["slab"] + p["arc"] + p["paging"] + p["inactive"] + p["free"] = T
      /\ w["active"] + w["wired"] + w["buffers"] + w["cached"] + w["shmem"]
         + w["slab"] + w["arc"] + w["paging"] + w["inactive"] + w["free"] <= n
      /\ T \in Nat /\ T <= 10 * StartPages
  BY PagesFacts
<1>7. t["active"] + t["wired"] + t["buffers"] + t["cached"] + t["shmem"]
      + t["slab"] + t["arc"] + t["paging"] + t["inactive"] + t["free"] = T
  BY <1>1, SumOfClasses
<1>8. t["buffers"] = 0 /\ t["shmem"] = 0 /\ t["slab"] = 0 /\ t["arc"] = 0 /\ t["inactive"] = 0
  <2>1. \A c \in {"buffers", "shmem", "slab", "arc", "inactive"} : c \in Classes /\ c \notin UsedClasses
    BY DEF UsedClasses, ClassesOf, Classes
  <2> QED
    BY <2>1, AnswerFacts, AllCalled
<1>9. /\ t["active"] <= p["active"] + w["active"] /\ p["active"] <= t["active"] + w["active"]
      /\ t["wired"] <= p["wired"] + w["wired"] /\ p["wired"] <= t["wired"] + w["wired"]
  <2>1. /\ p["active"] - w["active"] <= t["active"] /\ t["active"] <= p["active"] + w["active"]
        /\ p["wired"] - w["wired"] <= t["wired"] /\ t["wired"] <= p["wired"] + w["wired"]
    BY AnswerFacts, AllCalled DEF Classes
  <2> QED
    BY <1>3, <1>4, <1>5, <2>1
<1>10. t["cached"] <= y + w["cached"] /\ y <= t["cached"] + w["cached"]
  BY AnswersDiffer, AllCalled DEF Classes
<1>11. /\ y \in Nat /\ y <= T /\ p["cached"] - w["cached"] <= y /\ y <= p["cached"] + w["cached"]
  BY AnswerFacts, AllCalled DEF Classes
<1>12. w["active"] + w["wired"] + w["cached"] <= n /\ w["cached"] <= n /\ n \in Int /\ 0 <= n
  BY <1>4, <1>6
<1> HIDE DEF T, y
<1>13. x = t["active"] + t["wired"] + t["cached"]
  BY <1>5, <1>6, <1>7, <1>8
<1>14. x \in Nat /\ x <= T
  BY <1>5, <1>6, <1>7, <1>13
<1>15. x - y \in Int
  BY <1>11, <1>14
<1> HIDE DEF x, t
<1>16. x - y <= p["active"] + p["wired"] + n /\ p["active"] + p["wired"] <= (x - y) + n
  <2>1. /\ x - y <= t["active"] + t["wired"] + w["cached"]
        /\ t["active"] + t["wired"] <= (x - y) + w["cached"]
    BY <1>4, <1>5, <1>10, <1>11, <1>13
  <2>2. /\ t["active"] + t["wired"] <= p["active"] + p["wired"] + w["active"] + w["wired"]
        /\ p["active"] + p["wired"] <= t["active"] + t["wired"] + w["active"] + w["wired"]
    BY <1>3, <1>4, <1>5, <1>9
  <2> DEFINE s == p["active"] + p["wired"]
             u == t["active"] + t["wired"]
             v == w["active"] + w["wired"]
  <2>3. s \in Int /\ u \in Int /\ v \in Int /\ w["cached"] \in Int /\ v + w["cached"] <= n
        /\ u <= s + v /\ s <= u + v /\ x - y <= u + w["cached"] /\ u <= (x - y) + w["cached"]
    BY <1>3, <1>4, <1>5, <1>12, <2>1, <2>2
  <2> HIDE DEF s, u, v
  <2>4. x - y <= s + n /\ s <= (x - y) + n
    BY <1>12, <1>15, <2>3
  <2> QED
    BY <2>4 DEF s
<1>17. y <= p["cached"] + n /\ p["cached"] <= y + n
  BY <1>3, <1>4, <1>11, <1>12
<1>18. p["active"] + p["wired"] <= T /\ p["active"] + p["wired"] \in Int
  BY <1>3, <1>6
<1>19. Signed(Unsigned(x)) = x /\ Signed(y) = y /\ Signed(0) = 0
  <2>1. StartPages \in Nat \ {0}
    BY MemNumbers
  <2>2. x \in Int /\ -(15 * StartPages) <= x /\ x <= 15 * StartPages
    BY <1>6, <1>14, <2>1
  <2>3. y <= 15 * StartPages /\ 0 <= 15 * StartPages /\ 0 \in Nat
    BY <1>6, <1>11, <2>1
  <2>4. Signed(0) = 0
    BY <2>3, SignedIs
  <2> QED
    BY <1>11, <2>2, <2>3, <2>4, SignedOf, SignedIs
<1>20. Unsigned(x) \in Int
  BY <1>14, MemNumbers DEF Unsigned
<1> HIDE DEF l
<1>21. l.total = T /\ l.used = Unsigned(x) /\ l.buffers = 0 /\ l.cached = y
  BY <1>2
<1>22. PartsOf(l) = <<x - (0 + y), 0, y>>
  BY <1>19, <1>21 DEF PartsOf
<1>23. /\ MemParts[1] = {"active", "wired"} /\ MemParts[2] = {} /\ MemParts[3] = {"cached"}
  BY DEF MemParts
<1>24. /\ Sum(p, MemParts[1]) = p["active"] + p["wired"] /\ Sum(p, MemParts[2]) = 0
       /\ Sum(p, MemParts[3]) = p["cached"]
  BY <1>3, <1>23 DEF Sum
<1>25. PartsFit(l.total, PartsOf(l), p, n)
  <2> DEFINE v == PartsOf(l)
             s == [i \in 1 .. 3 |-> Sum(p, MemParts[i])]
  <2>1. v[1] = x - y /\ v[2] = 0 /\ v[3] = y
    <3>1. 0 + y = y
      BY <1>11
    <3> QED
      BY <1>22, <3>1
  <2>2. s[1] = p["active"] + p["wired"] /\ s[2] = 0 /\ s[3] = p["cached"]
    BY <1>24
  <2> HIDE DEF v, s
  <2>3. v[1] \in Int /\ s[1] \in Int /\ v[1] <= s[1] + n /\ s[1] <= v[1] + n
    BY <1>15, <1>16, <1>18, <2>1, <2>2
  <2>4. v[2] \in Int /\ s[2] \in Int /\ v[2] <= s[2] + n /\ s[2] <= v[2] + n
    BY <1>12, <2>1, <2>2
  <2>5. v[3] \in Int /\ s[3] \in Int /\ v[3] <= s[3] + n /\ s[3] <= v[3] + n
    BY <1>3, <1>11, <1>17, <2>1, <2>2
  <2>6. \A i \in 1 .. 3 : v[i] \in Int /\ s[i] \in Int /\ v[i] <= s[i] + n /\ s[i] <= v[i] + n
    BY <2>3, <2>4, <2>5, OneToThree
  <2>7. \A i \in 1 .. 3 : s[i] = Sum(p, MemParts[i])
    BY DEF s
  <2>8. \A i \in 1 .. 3 : /\ v[i] \in Int /\ Sum(p, MemParts[i]) \in Int
                          /\ v[i] <= Sum(p, MemParts[i]) + n /\ Sum(p, MemParts[i]) <= v[i] + n
    BY <2>6, <2>7
  <2>9. l.total = Sum(p, Classes) /\ Sum(p, Classes) \in Int /\ Sum(p, MemParts[1]) <= Sum(p, Classes)
    BY <1>6, <1>18, <1>21, <1>24 DEF T
  <2>10. PartsFit(l.total, v, p, n)
    BY <2>8, <2>9, FitFrom
  <2> QED
    BY <2>10 DEF v
<1>26. l \in [total : Int, used : Int, buffers : Int, cached : Int]
  BY <1>2, <1>6, <1>11, <1>20 DEF l
<1> QED
  BY <1>25, <1>26 DEF l

LEMMA DarwinFits ==
  ASSUME MemTypes, memHost.os = "darwin",
         NEW from, NEW p, NEW w, NEW n \in 0 .. 2, Answers(from, p, w, n)
  PROVE  /\ DarwinMemory(from) \in [total : Int, used : Int, buffers : Int, cached : Int]
         /\ PartsFit(DarwinMemory(from).total, PartsOf(DarwinMemory(from)), p, n)
<1> DEFINE l == DarwinMemory(from)
           T == Sum(p, Classes)
           t == from["total"]
<1>1. Sum(t, Classes) = T /\ t \in [Classes -> Nat]
  BY AnswerFacts, AllCalled
<1>2. /\ p["active"] \in Nat /\ p["wired"] \in Nat /\ p["buffers"] \in Nat /\ p["cached"] \in Nat
      /\ p["shmem"] \in Nat /\ p["slab"] \in Nat /\ p["arc"] \in Nat /\ p["paging"] \in Nat
      /\ p["inactive"] \in Nat /\ p["free"] \in Nat
  BY PagesFacts, InClasses
<1>3. /\ w["active"] \in Nat /\ w["wired"] \in Nat /\ w["buffers"] \in Nat /\ w["cached"] \in Nat
      /\ w["shmem"] \in Nat /\ w["slab"] \in Nat /\ w["arc"] \in Nat /\ w["paging"] \in Nat
      /\ w["inactive"] \in Nat /\ w["free"] \in Nat
  BY PagesFacts, InClasses
<1>4. /\ t["active"] \in Nat /\ t["wired"] \in Nat /\ t["cached"] \in Nat /\ t["inactive"] \in Nat
  BY <1>1, InClasses
<1>5. /\ p["active"] + p["wired"] + p["buffers"] + p["cached"] + p["shmem"]
         + p["slab"] + p["arc"] + p["paging"] + p["inactive"] + p["free"] = T
      /\ w["active"] + w["wired"] + w["buffers"] + w["cached"] + w["shmem"]
         + w["slab"] + w["arc"] + w["paging"] + w["inactive"] + w["free"] <= n
      /\ T \in Nat
  BY PagesFacts
<1>6. /\ t["active"] <= p["active"] + w["active"] /\ p["active"] - w["active"] <= t["active"]
      /\ t["wired"] <= p["wired"] + w["wired"] /\ p["wired"] - w["wired"] <= t["wired"]
      /\ t["cached"] <= p["cached"] + w["cached"] /\ p["cached"] - w["cached"] <= t["cached"]
      /\ t["inactive"] <= p["inactive"] + w["inactive"] /\ p["inactive"] - w["inactive"] <= t["inactive"]
  BY AnswerFacts, AllCalled DEF Classes
<1>7. /\ Sum(t, {"active", "wired"}) = t["active"] + t["wired"]
      /\ Sum(t, {"inactive", "cached"}) = t["cached"] + t["inactive"]
  BY <1>4 DEF Sum
<1>8. l = [total |-> T, used |-> t["active"] + t["wired"], buffers |-> t["cached"],
           cached |-> t["cached"] + t["inactive"]]
  <2>1. l = [total |-> Sum(t, Classes), used |-> Sum(t, {"active", "wired"}), buffers |-> t["cached"],
             cached |-> Sum(t, {"inactive", "cached"})]
    BY Zenon DEF DarwinMemory
  <2> QED
    BY <1>1, <1>7, <2>1, Zenon
<1>9. w["active"] + w["wired"] <= n /\ w["cached"] + w["inactive"] <= n /\ w["cached"] <= n /\ n \in Int
  BY <1>3, <1>5
<1> HIDE DEF l, t, T
<1>10. l.total = T /\ PartsOf(l) = <<t["active"] + t["wired"], t["cached"], t["cached"] + t["inactive"]>>
  BY <1>8 DEF PartsOf
<1>11. /\ MemParts[1] = {"active", "wired"} /\ MemParts[2] = {"cached"}
       /\ MemParts[3] = {"cached", "inactive"}
  BY DEF MemParts
<1>12. /\ Sum(p, MemParts[1]) = p["active"] + p["wired"] /\ Sum(p, MemParts[2]) = p["cached"]
       /\ Sum(p, MemParts[3]) = p["cached"] + p["inactive"]
  BY <1>2, <1>11 DEF Sum
<1>13. PartsFit(l.total, PartsOf(l), p, n)
  <2> DEFINE v == PartsOf(l)
             s == [i \in 1 .. 3 |-> Sum(p, MemParts[i])]
  <2>1. v[1] = t["active"] + t["wired"] /\ v[2] = t["cached"] /\ v[3] = t["cached"] + t["inactive"]
    BY <1>10
  <2>2. s[1] = p["active"] + p["wired"] /\ s[2] = p["cached"] /\ s[3] = p["cached"] + p["inactive"]
    BY <1>12
  <2> HIDE DEF v, s
  <2>3. v[1] \in Int /\ s[1] \in Int /\ v[1] <= s[1] + n /\ s[1] <= v[1] + n
    BY <1>2, <1>3, <1>4, <1>6, <1>9, <2>1, <2>2
  <2>4. v[2] \in Int /\ s[2] \in Int /\ v[2] <= s[2] + n /\ s[2] <= v[2] + n
    BY <1>2, <1>3, <1>4, <1>6, <1>9, <2>1, <2>2
  <2>5. v[3] \in Int /\ s[3] \in Int /\ v[3] <= s[3] + n /\ s[3] <= v[3] + n
    BY <1>2, <1>3, <1>4, <1>6, <1>9, <2>1, <2>2
  <2>6. \A i \in 1 .. 3 : v[i] \in Int /\ s[i] \in Int /\ v[i] <= s[i] + n /\ s[i] <= v[i] + n
    BY <2>3, <2>4, <2>5, OneToThree
  <2>7. \A i \in 1 .. 3 : s[i] = Sum(p, MemParts[i])
    BY DEF s
  <2>8. \A i \in 1 .. 3 : /\ v[i] \in Int /\ Sum(p, MemParts[i]) \in Int
                          /\ v[i] <= Sum(p, MemParts[i]) + n /\ Sum(p, MemParts[i]) <= v[i] + n
    BY <2>6, <2>7
  <2>9. Sum(p, MemParts[1]) <= T
    BY <1>2, <1>5, <1>12
  <2>10. l.total = Sum(p, Classes) /\ Sum(p, Classes) \in Int /\ Sum(p, MemParts[1]) <= Sum(p, Classes)
    BY <1>5, <1>10, <2>9 DEF T
  <2>11. PartsFit(l.total, v, p, n)
    BY <2>8, <2>10, FitFrom
  <2> QED
    BY <2>11 DEF v
<1>14. l \in [total : Int, used : Int, buffers : Int, cached : Int]
  BY <1>4, <1>5, <1>8
<1> QED
  BY <1>13, <1>14 DEF l

LEMMA SolarisFits ==
  ASSUME MemTypes, memHost.os = "solaris",
         NEW from, NEW p, NEW w, NEW n \in 0 .. 2, Answers(from, p, w, n)
  PROVE  /\ SolarisMemory(from) \in [total : Int, used : Int, buffers : Int, cached : Int]
         /\ PartsFit(SolarisMemory(from).total, PartsOf(SolarisMemory(from)), p, n)
<1> DEFINE l == SolarisMemory(from)
           T == Sum(p, Classes)
           t == from["total"]
<1>1. Sum(t, Classes) = T /\ t \in [Classes -> Nat]
  BY AnswerFacts, AllCalled
<1>2. /\ p["active"] \in Nat /\ p["wired"] \in Nat /\ p["buffers"] \in Nat /\ p["cached"] \in Nat
      /\ p["shmem"] \in Nat /\ p["slab"] \in Nat /\ p["arc"] \in Nat /\ p["paging"] \in Nat
      /\ p["inactive"] \in Nat /\ p["free"] \in Nat
  BY PagesFacts, InClasses
<1>3. /\ w["active"] \in Nat /\ w["wired"] \in Nat /\ w["buffers"] \in Nat /\ w["cached"] \in Nat
      /\ w["shmem"] \in Nat /\ w["slab"] \in Nat /\ w["arc"] \in Nat /\ w["paging"] \in Nat
      /\ w["inactive"] \in Nat /\ w["free"] \in Nat
  BY PagesFacts, InClasses
<1>4. /\ p["active"] + p["wired"] + p["buffers"] + p["cached"] + p["shmem"]
         + p["slab"] + p["arc"] + p["paging"] + p["inactive"] + p["free"] = T
      /\ w["active"] + w["wired"] + w["buffers"] + w["cached"] + w["shmem"]
         + w["slab"] + w["arc"] + w["paging"] + w["inactive"] + w["free"] <= n
      /\ T \in Nat /\ T <= 10 * StartPages /\ n \in Int /\ 0 <= n
  BY PagesFacts
<1>5. CASE memHost.kstat
  <2>1. /\ t["active"] \in Nat /\ t["wired"] \in Nat /\ t["buffers"] \in Nat /\ t["cached"] \in Nat
        /\ t["shmem"] \in Nat /\ t["slab"] \in Nat /\ t["arc"] \in Nat /\ t["paging"] \in Nat
        /\ t["inactive"] \in Nat /\ t["free"] \in Nat
    BY <1>1, InClasses
  <2>2. T - Sum(t, Classes \ {"buffers"}) = t["buffers"]
    <3>1. Sum(t, Classes \ {"buffers"})
            = t["active"] + t["wired"] + 0 + t["cached"] + t["shmem"] + t["slab"] + t["arc"]
              + t["paging"] + t["inactive"] + t["free"]
      BY DEF Sum, Classes
    <3>2. t["active"] + t["wired"] + t["buffers"] + t["cached"] + t["shmem"] + t["slab"] + t["arc"]
          + t["paging"] + t["inactive"] + t["free"] = T
      BY <1>1, SumOfClasses
    <3> DEFINE rest == Sum(t, Classes \ {"buffers"})
    <3> HIDE DEF T, t
    <3>3. rest + t["buffers"] = T /\ rest \in Int
      BY <2>1, <3>1, <3>2 DEF t
    <3> HIDE DEF rest
    <3>4. T - rest = t["buffers"]
      BY <2>1, <3>3
    <3> QED
      BY <3>4 DEF rest, t
  <2>3. l = [total |-> T, used |-> t["wired"], cached |-> 0, buffers |-> t["buffers"]]
    <3>1. l = [total |-> Sum(t, Classes), used |-> t["wired"], cached |-> 0,
               buffers |-> Sum(t, Classes) - Sum(t, Classes \ {"buffers"})]
      BY <1>5, Zenon DEF SolarisMemory
    <3> QED
      BY <1>1, <2>2, <3>1, Zenon
  <2>4. /\ t["wired"] <= p["wired"] + w["wired"] /\ p["wired"] - w["wired"] <= t["wired"]
        /\ t["buffers"] <= p["buffers"] + w["buffers"] /\ p["buffers"] - w["buffers"] <= t["buffers"]
    BY AnswerFacts, AllCalled DEF Classes
  <2>5. w["wired"] <= n /\ w["buffers"] <= n
    <3>1. \A c \in Classes : w[c] \in Int /\ w[c] <= Sum(w, Classes)
      BY PagesFacts, SumIsNatural
    <3>2. Sum(w, Classes) <= n
      BY Zenon DEF Answers
    <3>3. Sum(w, Classes) \in Int
      BY PagesFacts, SumIsNatural
    <3>4. "wired" \in Classes /\ "buffers" \in Classes
      BY DEF Classes
    <3> HIDE DEF l, t, T
    <3> QED
      BY <1>4, <3>1, <3>2, <3>3, <3>4
  <2> HIDE DEF l, t, T
  <2>6. l.total = T /\ PartsOf(l) = <<t["wired"], t["buffers"], 0>>
    BY <2>3 DEF PartsOf
  <2>7. /\ MemParts[1] = {"wired"} /\ MemParts[2] = {"buffers"} /\ MemParts[3] = {}
    BY DEF MemParts
  <2>8. /\ Sum(p, MemParts[1]) = p["wired"] /\ Sum(p, MemParts[2]) = p["buffers"]
        /\ Sum(p, MemParts[3]) = 0
    BY <1>2, <2>7 DEF Sum
  <2>9. PartsFit(l.total, PartsOf(l), p, n)
    <3> DEFINE v == PartsOf(l)
               s == [i \in 1 .. 3 |-> Sum(p, MemParts[i])]
    <3>1. v[1] = t["wired"] /\ v[2] = t["buffers"] /\ v[3] = 0
      BY <2>6
    <3>2. s[1] = p["wired"] /\ s[2] = p["buffers"] /\ s[3] = 0
      BY <2>8
    <3> HIDE DEF v, s
    <3>3. v[1] \in Int /\ s[1] \in Int /\ v[1] <= s[1] + n /\ s[1] <= v[1] + n
      BY <1>2, <1>3, <1>4, <2>1, <2>4, <2>5, <3>1, <3>2 DEF t
    <3>4. v[2] \in Int /\ s[2] \in Int /\ v[2] <= s[2] + n /\ s[2] <= v[2] + n
      BY <1>2, <1>3, <1>4, <2>1, <2>4, <2>5, <3>1, <3>2 DEF t
    <3>5. v[3] \in Int /\ s[3] \in Int /\ v[3] <= s[3] + n /\ s[3] <= v[3] + n
      BY <1>4, <3>1, <3>2
    <3>6. \A i \in 1 .. 3 : v[i] \in Int /\ s[i] \in Int /\ v[i] <= s[i] + n /\ s[i] <= v[i] + n
      BY <3>3, <3>4, <3>5, OneToThree
    <3>7. \A i \in 1 .. 3 : s[i] = Sum(p, MemParts[i])
      BY DEF s
    <3>8. \A i \in 1 .. 3 : /\ v[i] \in Int /\ Sum(p, MemParts[i]) \in Int
                            /\ v[i] <= Sum(p, MemParts[i]) + n /\ Sum(p, MemParts[i]) <= v[i] + n
      BY <3>6, <3>7
    <3>9. Sum(p, MemParts[1]) <= T
      BY <1>2, <1>4, <2>8
    <3>10. l.total = Sum(p, Classes) /\ Sum(p, Classes) \in Int /\ Sum(p, MemParts[1]) <= Sum(p, Classes)
      BY <1>4, <2>6, <3>9 DEF T
    <3>11. PartsFit(l.total, v, p, n)
      BY <3>8, <3>10, FitFrom
    <3> QED
      BY <3>11 DEF v
  <2>10. l \in [total : Int, used : Int, buffers : Int, cached : Int]
    BY <1>4, <2>1, <2>3 DEF t
  <2> QED
    BY <2>9, <2>10 DEF l
<1>6. CASE ~memHost.kstat
  <2> DEFINE f == from["free"]["free"]
             u == T * Kilo - f * Kilo
  <2>1. f \in Nat /\ f <= T
    BY AnswerFacts, AllCalled DEF Classes
  <2>2. l = [total |-> T * Kilo, used |-> Unsigned(u), cached |-> 0, buffers |-> 0]
    <3>1. l = [total |-> Sum(t, Classes) * Kilo, used |-> Unsigned(Sum(t, Classes) * Kilo - f * Kilo),
               cached |-> 0, buffers |-> 0]
      BY <1>6, Zenon DEF SolarisMemory
    <3> QED
      BY <1>1, <3>1, Zenon
  <2> HIDE DEF f, T
  <2>3. u \in Nat /\ u <= T * Kilo /\ T * Kilo \in Nat /\ u < MemModulus
    <3>1. \A a, b, m, k \in Nat : a <= b /\ b <= m => /\ a * k <= b * k /\ b * k <= m * k
                                                      /\ a * k \in Nat /\ b * k \in Nat /\ m * k \in Nat
      BY Z3
    <3>2. 10 * StartPages \in Nat /\ Kilo \in Nat
      BY MemNumbers
    <3>3. /\ f * Kilo <= T * Kilo /\ T * Kilo <= (10 * StartPages) * Kilo
          /\ f * Kilo \in Nat /\ T * Kilo \in Nat /\ (10 * StartPages) * Kilo \in Nat
      BY <1>4, <2>1, <3>1, <3>2
    <3>4. MemModulus \in Nat /\ MemModulus > 4 * ((10 * StartPages) * Kilo)
      BY MemNumbers
    <3> DEFINE x == f * Kilo
               y == T * Kilo
               z == (10 * StartPages) * Kilo
    <3>5. x \in Nat /\ y \in Nat /\ z \in Nat /\ x <= y /\ y <= z /\ MemModulus > 4 * z
      BY <3>3, <3>4
    <3> HIDE DEF x, y, z
    <3>6. y - x \in Nat /\ y - x <= y /\ y \in Nat /\ y - x < MemModulus
      BY <3>4, <3>5
    <3> QED
      BY <3>6 DEF x, y
  <2>4. Unsigned(u) = u
    <3> HIDE DEF u
    <3> QED
      BY <2>3, UnsignedOf
  <2> HIDE DEF l, u
  <2>5. l.total = T * Kilo /\ l.used = u /\ l.buffers = 0 /\ l.cached = 0
    BY <2>2, <2>4
  <2>6. PartsOf(l)[1] = u
    BY <2>5 DEF PartsOf
  <2>7. u <= T * Kilo + n
    BY <1>4, <2>3
  <2>8. PartsFit(l.total, PartsOf(l), p, n)
    BY <1>6, <2>5, <2>6, <2>7 DEF PartsFit
  <2>9. l \in [total : Int, used : Int, buffers : Int, cached : Int]
    BY <2>2, <2>3, <2>4
  <2> QED
    BY <2>8, <2>9 DEF l
<1> QED
  BY <1>5, <1>6

LEMMA MemoryFits ==
  ASSUME MemTypes, NEW from, NEW p, NEW w, NEW n \in 0 .. 2, Answers(from, p, w, n)
  PROVE  /\ MemoryOf(from) \in [total : Int, used : Int, buffers : Int, cached : Int]
         /\ PartsFit(MemoryOf(from).total, PartsOf(MemoryOf(from)), p, n)
<1>1. CASE memHost.os = "linux"
  <2>1. MemoryOf(from) = LinuxMemory(from)
    BY <1>1 DEF MemoryOf
  <2> QED
    BY <1>1, <2>1, LinuxFits
<1>2. CASE memHost.os = "openbsd"
  <2>1. MemoryOf(from) = OpenMemory(from)
    BY <1>2 DEF MemoryOf
  <2> QED
    BY <1>2, <2>1, OpenFits
<1>3. CASE memHost.os = "solaris"
  <2>1. MemoryOf(from) = SolarisMemory(from)
    BY <1>3 DEF MemoryOf
  <2> QED
    BY <1>3, <2>1, SolarisFits
<1>4. CASE memHost.os = "darwin"
  <2>1. MemoryOf(from) = DarwinMemory(from)
    BY <1>4 DEF MemoryOf
  <2> QED
    BY <1>4, <2>1, DarwinFits
<1>5. CASE memHost.os \in {"freebsd", "dragonfly"}
  <2>1. MemoryOf(from) = BsdMemory(from)
    BY <1>5 DEF MemoryOf
  <2> QED
    BY <1>5, <2>1, BsdFits
<1>6. memHost.os \in {"linux", "freebsd", "dragonfly", "openbsd", "solaris", "darwin"}
  BY MemoryAssumption DEF MemTypes
<1> QED
  BY <1>1, <1>2, <1>3, <1>4, <1>5, <1>6

\* No device has more in use than it holds, and so do all of them together.
LEMMA SwapSums ==
  ASSUME NEW s, SwapsFit(s)
  PROVE  SwapTotal(s) \in Int /\ SwapUsed(s) \in Int /\ SwapUsed(s) <= SwapTotal(s)
<1> DEFINE n == Len(SwapSizes)
           a == [d \in Devices |-> IF s[d].on THEN s[d].used ELSE 0]
           b == [d \in Devices |-> IF s[d].on THEN SwapSizes[d] ELSE 0]
<1>1. n \in Nat /\ Devices = 1 .. n /\ \A d \in Devices : SwapSizes[d] \in Nat
  BY MemoryAssumption DEF Devices
<1>2. \A d \in Devices : s[d].on \in BOOLEAN /\ s[d].used \in Nat /\ s[d].used <= SwapSizes[d]
  BY DEF SwapsFit, SwapType
<1>3. \A d \in 1 .. n : a[d] \in Int /\ b[d] \in Int /\ a[d] <= b[d]
  <2> SUFFICES ASSUME NEW d \in Devices PROVE a[d] \in Int /\ b[d] \in Int /\ a[d] <= b[d]
    BY <1>1
  <2>1. a[d] = IF s[d].on THEN s[d].used ELSE 0
    OBVIOUS
  <2>2. b[d] = IF s[d].on THEN SwapSizes[d] ELSE 0
    OBVIOUS
  <2> HIDE DEF a, b
  <2> QED
    BY <1>1, <1>2, <2>1, <2>2
<1>4. SwapUsed(s) = SumTo(a, n) /\ SwapTotal(s) = SumTo(b, n)
  BY DEF SwapUsed, SwapTotal
<1> HIDE DEF a, b, n
<1>5. SumTo(a, n) <= SumTo(b, n)
  BY <1>1, <1>3, SumIsMonotonic
<1>6. SumTo(a, n) \in Int
  BY <1>1, <1>3, SumIsInt
<1>7. SumTo(b, n) \in Int
  BY <1>1, <1>3, SumIsInt
<1> QED
  BY <1>4, <1>5, <1>6, <1>7

LEMMA ScanMemoryKeeps ==
  ASSUME MemInv, ScanMemory
  PROVE  MemInv'
<1> DEFINE answers(after, early) == [c \in Called |-> IF PlaceOf(c) <= early THEN pages ELSE after]
           Scanned(after, early) ==
             /\ pages' = after
             /\ memScanned' = [pages |-> after, torn |-> after # pages, swaps |-> swaps]
             /\ LET memory == MemoryOf(answers(after, early))
                IN  memList' = [total |-> memory.total, used |-> memory.used,
                                buffers |-> memory.buffers, cached |-> memory.cached,
                                swapTotal |-> IF ReadsSwapWhenDrawn THEN memList.swapTotal ELSE SwapTotal(swaps),
                                swapUsed |-> IF ReadsSwapWhenDrawn THEN memList.swapUsed ELSE SwapUsed(swaps)]
<1>0. PICK after \in {pages} \cup (IF moves < MaxMoves THEN Moved(pages) ELSE {}) :
        \E early \in IF after = pages THEN {Len(Calls)} ELSE 0 .. Len(Calls) - 1 : Scanned(after, early)
  BY Zenon DEF ScanMemory
<1>1. PICK early : Scanned(after, early)
  BY <1>0, Zenon
<1>2. meters' = [meters EXCEPT !.drawn = FALSE] /\ memHost' = memHost /\ swaps' = swaps
  BY DEF ScanMemory
<1>3. MemTypes /\ Counts10(pages) /\ SwapsFit(swaps) /\ meters.swap[2] <= meters.swap[1]
  BY DEF MemInv
<1>4. after = pages \/ after \in Moved(pages)
  OBVIOUS
<1> DEFINE from == answers(after, early)
           memory == MemoryOf(from)
           n == IF after # pages THEN 2 ELSE 0
<1>5. PICK w : Answers(from, after, w, n)
  BY <1>3, <1>4, CallsAreAnswered
<1>6. memList' = [total |-> memory.total, used |-> memory.used,
                  buffers |-> memory.buffers, cached |-> memory.cached,
                  swapTotal |-> IF ReadsSwapWhenDrawn THEN memList.swapTotal ELSE SwapTotal(swaps),
                  swapUsed |-> IF ReadsSwapWhenDrawn THEN memList.swapUsed ELSE SwapUsed(swaps)]
  BY <1>1, Zenon
<1>7. n \in 0 .. 2
  OBVIOUS
<1> HIDE DEF from
<1>8. /\ memory \in [total : Int, used : Int, buffers : Int, cached : Int]
      /\ PartsFit(memory.total, PartsOf(memory), after, n)
  <2> HIDE DEF n
  <2> QED
    BY <1>3, <1>5, <1>7, MemoryFits
<1> HIDE DEF memory
<1>9. Counts10(after)
  BY <1>5 DEF Answers
<1>10. SwapTotal(swaps) \in Int /\ SwapUsed(swaps) \in Int
  BY <1>3, SwapSums
<1>11. MemTypes'
  <2>1. after \in [Classes -> Nat]
    BY <1>9 DEF Counts10
  <2>2. swaps \in SwapType
    BY <1>3 DEF SwapsFit
  <2>3. memScanned' \in [pages : [Classes -> Nat] \cup {NoPages}, torn : BOOLEAN, swaps : SwapType]
    BY <1>1, <2>1, <2>2
  <2>4. memList' \in [total : Int, used : Int, buffers : Int, cached : Int, swapTotal : Int, swapUsed : Int]
    BY <1>3, <1>6, <1>8, <1>10 DEF MemTypes
  <2>5. meters' \in [drawn : BOOLEAN, total : Int, values : Int \X Int \X Int, swap : Int \X Int]
    BY <1>2, <1>3 DEF MemTypes
  <2> QED
    BY <1>2, <1>3, <2>3, <2>4, <2>5 DEF MemTypes, SwapType
<1>12. Counts10(pages)'
  BY <1>1, <1>2, <1>9 DEF Counts10, UsedClasses
<1>13. SwapsFit(swaps)' /\ SwapsFit(memScanned.swaps)'
  BY <1>1, <1>2, <1>3 DEF SwapsFit, SwapType
<1>14. (meters.swap[2] <= meters.swap[1])'
  BY <1>2, <1>3 DEF MemTypes
<1>15. MemoryValues' = PartsOf(memory) /\ memList'.total = memory.total
  BY <1>2, <1>6 DEF MemoryValues, PartsOf
<1>16. memScanned'.pages = after /\ (IF memScanned.torn THEN 2 ELSE 0)' = n
  BY <1>1
<1>17. PartsFit(memList.total, MemoryValues, memScanned.pages, IF memScanned.torn THEN 2 ELSE 0)'
  <2> HIDE DEF n
  <2>1. MemParts' = MemParts
    BY <1>2 DEF MemParts
  <2> QED
    BY <1>2, <1>8, <1>15, <1>16, <2>1 DEF PartsFit
<1>18. (~ReadsSwapWhenDrawn => /\ memList.swapTotal = SwapTotal(memScanned.swaps)
                               /\ memList.swapUsed = SwapUsed(memScanned.swaps))'
  BY <1>1, <1>2, <1>6 DEF ReadsSwapWhenDrawn
<1>19. MemoryIsTrue'
  BY <1>2, <1>3 DEF MemoryIsTrue, MemTypes
<1> QED
  BY <1>11, <1>12, <1>13, <1>14, <1>17, <1>18, <1>19 DEF MemInv

LEMMA DrawMemoryKeeps ==
  ASSUME MemInv, DrawMemory
  PROVE  MemInv'
<1>1. /\ memScanned.pages # NoPages
      /\ meters' = [drawn |-> TRUE, total |-> memList.total, values |-> MemoryValues, swap |-> SwapValues]
      /\ memScanned' = [memScanned EXCEPT !.swaps = IF ReadsSwapWhenDrawn THEN swaps ELSE @]
      /\ memHost' = memHost /\ pages' = pages /\ swaps' = swaps /\ memList' = memList
  BY DEF DrawMemory
<1>2. MemTypes /\ Counts10(pages) /\ SwapsFit(swaps) /\ SwapsFit(memScanned.swaps)
      /\ meters.swap[2] <= meters.swap[1]
  BY DEF MemInv
<1> DEFINE n == IF memScanned.torn THEN 2 ELSE 0
           devices == memScanned'.swaps
<1>3. PartsFit(memList.total, MemoryValues, memScanned.pages, n)
  BY <1>1 DEF MemInv
<1>4. ~ReadsSwapWhenDrawn => /\ memList.swapTotal = SwapTotal(memScanned.swaps)
                             /\ memList.swapUsed = SwapUsed(memScanned.swaps)
  BY <1>1 DEF MemInv
<1>5. memScanned'.pages = memScanned.pages /\ memScanned'.torn = memScanned.torn
      /\ devices = IF ReadsSwapWhenDrawn THEN swaps ELSE memScanned.swaps
  BY <1>1, <1>2 DEF MemTypes
<1>6. SwapsFit(devices)
  BY <1>2, <1>5
<1>7. SwapTotal(devices) \in Int /\ SwapUsed(devices) \in Int /\ SwapUsed(devices) <= SwapTotal(devices)
  <2> HIDE DEF devices
  <2> QED
    BY <1>6, SwapSums
<1>8. \/ memHost.os = "openbsd" /\ OnSwaps(devices) = {} /\ SwapValues = meters.swap
      \/ SwapValues = <<SwapTotal(devices), SwapUsed(devices)>>
  <2> HIDE DEF devices
  <2>1. CASE memHost.os = "openbsd" /\ OnSwaps(swaps) = {}
    BY <1>5, <2>1 DEF SwapValues, ReadsSwapWhenDrawn
  <2>2. CASE ReadsSwapWhenDrawn /\ ~(memHost.os = "openbsd" /\ OnSwaps(swaps) = {})
    BY <1>5, <2>2 DEF SwapValues
  <2>3. CASE ~ReadsSwapWhenDrawn
    <3>1. memHost.os # "openbsd"
      BY <2>3 DEF ReadsSwapWhenDrawn
    <3> QED
      BY <1>4, <1>5, <2>3, <3>1 DEF SwapValues
  <2> QED
    BY <2>1, <2>2, <2>3
<1> HIDE DEF devices
<1>9. SwapValues \in Int \X Int /\ SwapValues[2] <= SwapValues[1]
  <2>1. meters.swap \in Int \X Int
    BY <1>2 DEF MemTypes
  <2> QED
    BY <1>2, <1>7, <1>8, <2>1
<1>10. MemoryValues \in Int \X Int \X Int
  <2>1. memList.used \in Int /\ memList.buffers \in Int /\ memList.cached \in Int
    BY <1>2 DEF MemTypes
  <2>2. Signed(memList.used) \in Int /\ Signed(memList.buffers) \in Int /\ Signed(memList.cached) \in Int
    BY <2>1, MemNumbers DEF Signed
  <2> QED
    BY <2>1, <2>2 DEF MemoryValues
<1>11. MemTypes'
  <2>1. devices \in SwapType
    BY <1>6 DEF SwapsFit
  <2>2. memScanned' = [pages |-> memScanned.pages, torn |-> memScanned.torn, swaps |-> devices]
    BY <1>1, <1>2, <1>5 DEF MemTypes
  <2>3. memScanned' \in [pages : [Classes -> Nat] \cup {NoPages}, torn : BOOLEAN, swaps : SwapType]
    BY <1>2, <2>1, <2>2 DEF MemTypes
  <2>4. meters' \in [drawn : BOOLEAN, total : Int, values : Int \X Int \X Int, swap : Int \X Int]
    BY <1>1, <1>2, <1>9, <1>10 DEF MemTypes
  <2> QED
    BY <1>1, <1>2, <2>3, <2>4 DEF MemTypes, SwapType
<1>12. Counts10(pages)'
  BY <1>1, <1>2 DEF Counts10, UsedClasses
<1>13. SwapsFit(swaps)' /\ SwapsFit(memScanned.swaps)'
  BY <1>1, <1>2, <1>6 DEF SwapsFit, SwapType, devices
<1>14. MemoryValues' = MemoryValues /\ MemParts' = MemParts
  BY <1>1 DEF MemoryValues, MemParts
<1>15. PartsFit(memList.total, MemoryValues, memScanned.pages, IF memScanned.torn THEN 2 ELSE 0)'
  BY <1>1, <1>3, <1>5, <1>14 DEF PartsFit
<1>16. (~ReadsSwapWhenDrawn => /\ memList.swapTotal = SwapTotal(memScanned.swaps)
                               /\ memList.swapUsed = SwapUsed(memScanned.swaps))'
  BY <1>1, <1>4, <1>5 DEF ReadsSwapWhenDrawn, devices
<1>17. meters'.total = memList.total /\ meters'.values = MemoryValues /\ meters'.swap = SwapValues
  BY <1>1
<1>18. (meters.swap[2] <= meters.swap[1])'
  BY <1>9, <1>17
<1>19. MemoryIsTrue'
  <2>1. /\ memHost.kstat => /\ memList.total = Sum(memScanned.pages, Classes)
                            /\ \A i \in 1 .. 3 : Distance(MemoryValues[i], Sum(memScanned.pages, MemParts[i])) <= n
        /\ MemoryValues[1] <= memList.total + n
    BY <1>3 DEF PartsFit
  <2>2. /\ (memHost.kstat => /\ meters.total = Sum(memScanned.pages, Classes)
                             /\ \A i \in 1 .. 3 : Distance(meters.values[i], Sum(memScanned.pages, MemParts[i]))
                                                    <= IF memScanned.torn THEN 2 ELSE 0)'
        /\ (meters.values[1] <= meters.total + IF memScanned.torn THEN 2 ELSE 0)'
    BY <1>1, <1>5, <1>14, <1>17, <2>1
  <2>3. \/ memHost'.os = "openbsd" /\ OnSwaps(memScanned.swaps)' = {}
        \/ meters'.swap = <<SwapTotal(memScanned.swaps)', SwapUsed(memScanned.swaps)'>>
    BY <1>1, <1>8, <1>17, Zenon DEF devices
  <2> QED
    BY <1>18, <2>2, <2>3 DEF MemoryIsTrue
<1> QED
  BY <1>11, <1>12, <1>13, <1>15, <1>16, <1>18, <1>19 DEF MemInv

LEMMA MovePageKeeps ==
  ASSUME MemInv, MovePage
  PROVE  MemInv'
<1>1. pages' \in Moved(pages) /\ memHost' = memHost /\ swaps' = swaps /\ memList' = memList
      /\ meters' = meters /\ memScanned' = memScanned
  BY DEF MovePage
<1>2. MemTypes /\ Counts10(pages)
  BY DEF MemInv
<1>3. PICK q \in Moved(pages) : q = pages'
  BY <1>1
<1>4. Counts10(q)
  BY <1>2, MovedFacts
<1>5. Counts10(pages)'
  BY <1>1, <1>3, <1>4 DEF Counts10, UsedClasses
<1>6. MemTypes' /\ SwapsFit(swaps)' /\ SwapsFit(memScanned.swaps)'
  BY <1>1 DEF MemInv, MemTypes, SwapsFit, SwapType
<1>7. MemoryValues' = MemoryValues /\ MemParts' = MemParts /\ ReadsSwapWhenDrawn' = ReadsSwapWhenDrawn
  BY <1>1 DEF MemoryValues, MemParts, ReadsSwapWhenDrawn
<1>8. MemoryIsTrue'
  BY <1>1, <1>7 DEF MemInv, MemoryIsTrue
<1> QED
  BY <1>1, <1>5, <1>6, <1>7, <1>8 DEF MemInv, PartsFit

LEMMA ChangeSwapKeeps ==
  ASSUME MemInv, ChangeSwap
  PROVE  MemInv'
<1>1. PICK d \in Devices, on \in BOOLEAN, used \in 0 .. 2 :
        used <= SwapSizes[d] /\ swaps' = [swaps EXCEPT ![d] = [on |-> on, used |-> used]]
  BY DEF ChangeSwap
<1>2. memHost' = memHost /\ pages' = pages /\ memList' = memList /\ meters' = meters
      /\ memScanned' = memScanned
  BY DEF ChangeSwap
<1>3. SwapsFit(swaps)'
  <2>1. swaps \in SwapType /\ \A e \in Devices : swaps[e].used <= SwapSizes[e]
    BY DEF MemInv, SwapsFit
  <2> DEFINE new == [on |-> on, used |-> used]
  <2>2. new \in [on : BOOLEAN, used : Nat] /\ new.used <= SwapSizes[d]
    BY <1>1
  <2>3. swaps' = [swaps EXCEPT ![d] = new]
    BY <1>1
  <2> HIDE DEF new
  <2>4. swaps' \in SwapType
    BY <2>1, <2>2, <2>3 DEF SwapType
  <2>5. \A e \in Devices : swaps'[e].used <= SwapSizes[e]
    BY <2>1, <2>2, <2>3 DEF SwapType
  <2> QED
    BY <2>4, <2>5 DEF SwapsFit, SwapType
<1>4. MemTypes' /\ Counts10(pages)' /\ SwapsFit(memScanned.swaps)'
  BY <1>2 DEF MemInv, MemTypes, SwapsFit, SwapType, Counts10, UsedClasses
<1>5. MemoryValues' = MemoryValues /\ MemParts' = MemParts /\ ReadsSwapWhenDrawn' = ReadsSwapWhenDrawn
  BY <1>2 DEF MemoryValues, MemParts, ReadsSwapWhenDrawn
<1>6. MemoryIsTrue'
  BY <1>2, <1>5 DEF MemInv, MemoryIsTrue
<1> QED
  BY <1>2, <1>3, <1>4, <1>5, <1>6 DEF MemInv, PartsFit

LEMMA MemInitIsInv ==
  ASSUME MemInit
  PROVE  MemInv
<1>1. PICK os \in MemHosts, zfs \in BOOLEAN, kstat \in BOOLEAN :
        /\ zfs => os = "freebsd"
        /\ ~kstat => os = "solaris"
        /\ memHost = [os |-> os, zfs |-> zfs, kstat |-> kstat]
        /\ pages = [c \in Classes |-> IF c \in ClassesOf(os) /\ (c = "arc" => zfs) THEN StartPages ELSE 0]
  BY DEF MemInit
<1>2. /\ swaps = [d \in Devices |-> [on |-> TRUE, used |-> 1]]
      /\ memList = [total |-> 0, used |-> 0, buffers |-> 0, cached |-> 0, swapTotal |-> 0, swapUsed |-> 0]
      /\ meters = [drawn |-> FALSE, total |-> 0, values |-> <<0, 0, 0>>, swap |-> <<0, 0>>]
      /\ memScanned = [pages |-> NoPages, torn |-> FALSE, swaps |-> swaps]
  BY DEF MemInit
<1>3. StartPages \in Nat \ {0}
  BY MemNumbers
<1>4. \A c \in Classes : pages[c] = IF c \in UsedClasses THEN StartPages ELSE 0
  BY <1>1 DEF UsedClasses
<1>5. pages \in [Classes -> Nat]
  BY <1>1, <1>3
<1>6. Counts10(pages)
  <2>1. "active" \in Classes /\ "active" \in UsedClasses
    <3>1. memHost.os \in {"linux", "freebsd", "dragonfly", "openbsd", "solaris", "darwin"}
      BY <1>1, MemoryAssumption
    <3> QED
      BY <3>1 DEF UsedClasses, ClassesOf, Classes
  <2>2. pages["active"] >= 1
    BY <1>3, <1>4, <2>1
  <2>3. \A c \in Classes : pages[c] \in Int /\ pages[c] <= StartPages
    BY <1>3, <1>4
  <2>4. Sum(pages, Classes) <= 10 * StartPages
    <3>1. Sum(pages, Classes)
            = pages["active"] + pages["wired"] + pages["buffers"] + pages["cached"] + pages["shmem"]
              + pages["slab"] + pages["arc"] + pages["paging"] + pages["inactive"] + pages["free"]
      BY SumOfClasses
    <3> QED
      BY <1>3, <2>3, <3>1 DEF Classes
  <2> QED
    BY <1>4, <1>5, <2>2, <2>4 DEF Counts10
<1>7. SwapsFit(swaps)
  <2>1. \A d \in Devices : SwapSizes[d] \in Nat \ {0}
    BY MemoryAssumption DEF Devices
  <2> QED
    BY <1>2, <2>1 DEF SwapsFit, SwapType
<1>8. MemTypes
  <2>1. swaps \in SwapType
    BY <1>7 DEF SwapsFit
  <2> QED
    BY <1>1, <1>2, <2>1 DEF MemTypes
<1>9. memScanned.pages = NoPages /\ memScanned.swaps = swaps /\ meters.drawn = FALSE
      /\ meters.swap[2] = 0 /\ meters.swap[1] = 0
  BY <1>2
<1> QED
  BY <1>6, <1>7, <1>8, <1>9 DEF MemInv, MemoryIsTrue

(* The memory meter, of pages that move between any two calls and swap     *)
(* devices that come and go, on every host.                                *)
THEOREM MemoryStaysTrue == MemSpec => []MemoryIsTrue
<1>1. MemInit => MemInv
  BY MemInitIsInv
<1>2. MemInv /\ [MemNext]_memVars => MemInv'
  <2> SUFFICES ASSUME MemInv, [MemNext]_memVars PROVE MemInv'
    OBVIOUS
  <2>1. CASE MovePage
    BY <2>1, MovePageKeeps
  <2>2. CASE ChangeSwap
    BY <2>2, ChangeSwapKeeps
  <2>3. CASE ScanMemory
    BY <2>3, ScanMemoryKeeps
  <2>4. CASE DrawMemory
    BY <2>4, DrawMemoryKeeps
  <2>5. CASE UNCHANGED memVars
    <3>1. memHost' = memHost /\ pages' = pages /\ swaps' = swaps /\ memList' = memList /\ meters' = meters
          /\ memScanned' = memScanned
      BY <2>5 DEF memVars
    <3>2. MemTypes' /\ Counts10(pages)' /\ SwapsFit(swaps)' /\ SwapsFit(memScanned.swaps)'
      BY <3>1 DEF MemInv, MemTypes, SwapsFit, SwapType, Counts10, UsedClasses
    <3>3. MemoryValues' = MemoryValues /\ MemParts' = MemParts /\ ReadsSwapWhenDrawn' = ReadsSwapWhenDrawn
      BY <3>1 DEF MemoryValues, MemParts, ReadsSwapWhenDrawn
    <3>4. MemoryIsTrue'
      BY <3>1, <3>3 DEF MemInv, MemoryIsTrue
    <3> QED
      BY <3>1, <3>2, <3>3, <3>4 DEF MemInv, PartsFit
  <2> QED
    BY <2>1, <2>2, <2>3, <2>4, <2>5 DEF MemNext
<1>3. MemInv => MemoryIsTrue
  BY DEF MemInv
<1> QED
  BY <1>1, <1>2, <1>3, PTL DEF MemSpec
-----------------------------------------------------------------------------
(* What a meter draws.                                                     *)

\* Arithmetic of products.
LEMMA Spread == ASSUME NEW a \in Int, NEW b \in Int, NEW c \in Int
                PROVE  a * (b + c) = a * b + a * c /\ a * b \in Int
OBVIOUS

LEMMA Greater ==
  ASSUME NEW a \in Int, NEW b \in Int, NEW c \in Nat, a < b
  PROVE  a * c <= b * c /\ (c > 0 => a * c < b * c)
OBVIOUS

LEMMA RoundedUp ==
  ASSUME NEW x \in Nat, NEW d \in Nat \ {0}
  PROVE  LET q == (x + d - 1) \div d
         IN  /\ q \in Nat /\ q * d >= x /\ q * d <= x + d - 1
             /\ x > 0 => q > 0
<1> DEFINE y == x + d - 1
           q == y \div d
<1>1. y \in Nat
  OBVIOUS
<1> HIDE DEF y
<1>2. q \in Int /\ q * d <= y /\ y < q * d + d
  BY <1>1
<1>3. q >= 0
  BY <1>1
<1> HIDE DEF q
<1> USE DEF y
<1>4. q * d \in Int /\ q * d >= x /\ q * d <= x + d - 1
  BY <1>2
<1>5. x > 0 => q # 0
  BY <1>4
<1> QED
  BY <1>2, <1>3, <1>4, <1>5 DEF q

LEMMA WithinFacts ==
  ASSUME NEW n \in Int, NEW low \in Int, NEW high \in Int, low <= high
  PROVE  /\ Within(n, low, high) \in low .. high
         /\ n \in low .. high => Within(n, low, high) = n
         /\ n > high => Within(n, low, high) = high
         /\ n < low => Within(n, low, high) = low
BY DEF Within

(* Bars.                                                                   *)

\* What rounding up adds at most.
Excess == IF MeterTotal = 0 THEN 0 ELSE MeterTotal - 1

LEMMA ExcessFacts ==
  /\ MeterTotal \in Nat /\ Excess \in Nat
  /\ MeterTotal > 0 => Excess = MeterTotal - 1
  /\ MeterTotal = 0 => Excess = 0
BY MeterModesAssumption DEF Excess

LEMMA BlockFacts ==
  ASSUME NEW v \in Int, NEW w \in Nat \ {0}
  PROVE  /\ BlockSize(v, w) \in Nat /\ Within(v, 0, MeterTotal) \in Nat
         /\ Within(v, 0, MeterTotal) > 0 => BlockSize(v, w) > 0
         /\ MeterTotal = 0 => BlockSize(v, w) = 0
         /\ BlockSize(v, w) * MeterTotal >= Within(v, 0, MeterTotal) * w
         /\ BlockSize(v, w) * MeterTotal <= Within(v, 0, MeterTotal) * w + Excess
<1> DEFINE u == Within(v, 0, MeterTotal)
<1>1. MeterTotal \in Nat
  BY MeterModesAssumption
<1>2. u \in Nat /\ (u > 0 => MeterTotal > 0)
  BY <1>1 DEF Within
<1>3. BlockSize(v, w) = IF u > 0 THEN (u * w + MeterTotal - 1) \div MeterTotal ELSE 0
  BY DEF BlockSize
<1> HIDE DEF u
<1>4. u * w \in Nat /\ (u > 0 => u * w > 0)
  BY <1>2
<1> DEFINE x == u * w
           q == (x + MeterTotal - 1) \div MeterTotal
<1>5. CASE u > 0
  <2>1. BlockSize(v, w) = q /\ x \in Nat /\ x > 0
    BY <1>3, <1>4, <1>5
  <2> HIDE DEF x
  <2>2. /\ q \in Nat /\ q * MeterTotal >= x /\ q * MeterTotal <= x + MeterTotal - 1
        /\ x > 0 => q > 0
    <3>1. MeterTotal \in Nat \ {0}
      BY <1>1, <1>2, <1>5
    <3> QED
      BY <2>1, <3>1, RoundedUp
  <2> HIDE DEF q
  <2>3. MeterTotal > 0 /\ Excess = MeterTotal - 1
    BY <1>2, <1>5, ExcessFacts
  <2>4. q * MeterTotal <= x + Excess
    BY <1>1, <2>1, <2>2, <2>3
  <2> QED
    BY <1>2, <2>1, <2>2, <2>3, <2>4 DEF x, u
<1>6. CASE ~(u > 0)
  <2>1. u = 0 /\ BlockSize(v, w) = 0
    BY <1>2, <1>3, <1>6
  <2> QED
    BY <1>1, <1>2, <2>1, ExcessFacts DEF u
<1> QED
  BY <1>5, <1>6

\* The sizes of the blocks, and the parts of the total that they stand for.
Sizes(values, w) == [i \in DOMAIN values |-> BlockSize(values[i], w)]
Pieces(values) == [i \in DOMAIN values |-> Within(values[i], 0, MeterTotal)]

\* The blocks end where their sizes add up to, but within the bar.
LEMMA OffsetsAre ==
  ASSUME NEW values \in Seq(Int), NEW w \in Nat \ {0}, NEW k \in 0 .. Len(values)
  PROVE  Offsets(values, w)[k] = Within(SumTo(Sizes(values, w), k), 0, w)
<1> DEFINE n == Len(values)
           b == Sizes(values, w)
           Eq(g) == g = [i \in 0 .. n |->
                           IF i = 0 THEN 0 ELSE Within(g[i - 1] + BlockSize(values[i], w), 0, w)]
           cur == CHOOSE g : Eq(g)
           f == [i \in 0 .. n |-> Within(SumTo(b, i), 0, w)]
<1>1. n \in Nat /\ DOMAIN values = 1 .. n /\ \A i \in 1 .. n : values[i] \in Int
  OBVIOUS
<1>2. \A i \in 1 .. n : b[i] = BlockSize(values[i], w) /\ b[i] \in Nat
  BY <1>1, BlockFacts DEF Sizes
<1>3. Offsets(values, w) = cur
  BY Zenon DEF Offsets
<1> HIDE DEF n, b
<1>4. /\ SumTo(b, 0) = 0 /\ \A i \in 0 .. n : SumTo(b, i) \in Int
      /\ \A i \in 1 .. n : SumTo(b, i) = SumTo(b, i - 1) + b[i]
  <2>1. n \in Nat /\ \A i \in 1 .. n : b[i] \in Int
    BY <1>1, <1>2
  <2> QED
    BY <2>1, PartialSums
<1>5. \A i \in 0 .. n : SumTo(b, i) >= 0
  <2>1. \A j \in 0 .. n : \A i \in 0 .. j : SumTo(b, i) <= SumTo(b, j)
    BY <1>1, <1>2, PartialSumsGrow
  <2>2. \A j \in 0 .. n : 0 \in 0 .. j
    BY <1>1
  <2> QED
    BY <1>4, <2>1, <2>2
<1>6. Within(0, 0, w) = 0
  BY DEF Within
<1>7. ASSUME NEW i \in 1 .. n
      PROVE  Within(SumTo(b, i), 0, w) = Within(Within(SumTo(b, i - 1), 0, w) + b[i], 0, w)
  <2>1. i - 1 \in 0 .. n /\ i \in 0 .. n
    BY <1>1
  <2> DEFINE s == SumTo(b, i - 1)  d == b[i]
  <2>2. s \in Nat /\ d \in Nat /\ SumTo(b, i) = s + d
    BY <1>2, <1>4, <1>5, <2>1
  <2> HIDE DEF s, d
  <2>3. Within(s + d, 0, w) = Within(Within(s, 0, w) + d, 0, w)
    BY <2>2 DEF Within
  <2> QED
    BY <2>2, <2>3 DEF s, d
<1>8. Eq(f)
  <2>1. \A i \in 0 .. n :
          f[i] = IF i = 0 THEN 0 ELSE Within(f[i - 1] + BlockSize(values[i], w), 0, w)
    <3> TAKE i \in 0 .. n
    <3>1. CASE i = 0
      BY <1>4, <1>6, <3>1
    <3>2. CASE i # 0
      <4>1. i \in 1 .. n /\ i - 1 \in 0 .. n
        BY <1>1, <3>2
      <4>2. f[i] = Within(SumTo(b, i), 0, w) /\ f[i - 1] = Within(SumTo(b, i - 1), 0, w)
        BY <4>1
      <4> HIDE DEF f
      <4> QED
        BY <1>2, <1>7, <3>2, <4>1, <4>2
    <3> QED
      BY <3>1, <3>2
  <2>2. f = [i \in 0 .. n |-> f[i]]
    OBVIOUS
  <2> HIDE DEF f
  <2> QED
    BY <2>1, <2>2
<1>9. Eq(cur)
  <2> HIDE DEF Eq, f
  <2> QED
    BY <1>8, Zenon
<1> HIDE DEF cur
<1>10. cur[0] = 0 /\ \A i \in 1 .. n : cur[i] = Within(cur[i - 1] + BlockSize(values[i], w), 0, w)
  <2>1. \A i \in 0 .. n : cur[i] = IF i = 0 THEN 0 ELSE Within(cur[i - 1] + BlockSize(values[i], w), 0, w)
    BY <1>9, Zenon
  <2> QED
    BY <1>1, <2>1
<1> DEFINE P == {i \in 0 .. n : cur[i] = Within(SumTo(b, i), 0, w)}
<1>11. 0 \in P
  BY <1>1, <1>4, <1>6, <1>10
<1>12. ASSUME NEW i \in 1 .. n, i - 1 \in P PROVE i \in P
  <2>1. cur[i - 1] = Within(SumTo(b, i - 1), 0, w)
    BY <1>12
  <2>2. cur[i] = Within(SumTo(b, i), 0, w)
    BY <1>2, <1>7, <1>10, <2>1
  <2>3. i \in 0 .. n
    BY <1>1
  <2> QED
    BY <2>2, <2>3
<1>13. \A i \in 0 .. n : i \in P
  <2> HIDE DEF P
  <2> QED
    BY <1>1, <1>11, <1>12, EachTurn
<1>14. k \in 0 .. n
  BY DEF n
<1> QED
  BY <1>3, <1>13, <1>14 DEF b

LEMMA EndsFacts ==
  ASSUME NEW values \in Seq(Int), NEW w \in Nat \ {0}
  PROVE  LET end == Offsets(values, w)  n == Len(values)
         IN  /\ end[0] = 0 /\ \A i \in 0 .. n : end[i] \in 0 .. w
             /\ \A j \in 0 .. n : \A i \in 0 .. j : end[i] <= end[j]
             /\ end[n] < w => /\ end[n] = SumTo(Sizes(values, w), n)
                              /\ \A i \in 1 .. n : end[i] - end[i - 1] = BlockSize(values[i], w)
<1> DEFINE end == Offsets(values, w)
           n == Len(values)
           b == Sizes(values, w)
           S(i) == SumTo(b, i)
<1>1. n \in Nat /\ DOMAIN values = 1 .. n /\ \A i \in 1 .. n : values[i] \in Int
  OBVIOUS
<1>2. \A i \in 1 .. n : b[i] = BlockSize(values[i], w) /\ b[i] \in Nat
  BY <1>1, BlockFacts DEF Sizes
<1>3. \A i \in 0 .. n : end[i] = Within(S(i), 0, w)
  BY OffsetsAre
<1> HIDE DEF n, b, end
<1>4. /\ S(0) = 0 /\ \A i \in 0 .. n : S(i) \in Int
      /\ \A i \in 1 .. n : S(i) = S(i - 1) + b[i]
  <2>1. n \in Nat /\ \A i \in 1 .. n : b[i] \in Int
    BY <1>1, <1>2
  <2> QED
    BY <2>1, PartialSums
<1>5. \A j \in 0 .. n : \A i \in 0 .. j : S(i) <= S(j)
  BY <1>1, <1>2, PartialSumsGrow
<1> HIDE DEF S
<1>6. \A i \in 0 .. n : 0 <= S(i)
  <2> TAKE i \in 0 .. n
  <2>1. 0 \in 0 .. i
    BY <1>1
  <2> QED
    BY <1>4, <1>5, <2>1
<1>7. \A i \in 0 .. n : end[i] = IF S(i) > w THEN w ELSE S(i)
  BY <1>3, <1>4, <1>6 DEF Within
<1>8. \A i \in 0 .. n : end[i] \in 0 .. w
  BY <1>4, <1>6, <1>7
<1>9. end[0] = 0
  <2>1. 0 \in 0 .. n
    BY <1>1
  <2> QED
    BY <1>4, <1>7, <2>1
<1>10. ASSUME NEW j \in 0 .. n, NEW i \in 0 .. j PROVE end[i] <= end[j]
  <2>1. i \in 0 .. n /\ S(i) <= S(j) /\ S(i) \in Int /\ S(j) \in Int
    BY <1>1, <1>4, <1>5
  <2> QED
    BY <1>7, <2>1
<1>11. ASSUME end[n] < w
       PROVE  end[n] = S(n) /\ \A i \in 1 .. n : end[i] - end[i - 1] = BlockSize(values[i], w)
  <2>1. n \in 0 .. n
    BY <1>1
  <2>2. S(n) \in Int /\ end[n] = S(n) /\ S(n) < w
    BY <1>4, <1>7, <1>11, <2>1
  <2>3. ASSUME NEW i \in 0 .. n PROVE end[i] = S(i)
    <3>1. S(i) <= S(n) /\ S(i) \in Int
      BY <1>1, <1>4, <1>5, <2>1
    <3> QED
      BY <1>7, <2>2, <3>1
  <2>4. ASSUME NEW i \in 1 .. n PROVE end[i] - end[i - 1] = BlockSize(values[i], w)
    <3>1. i \in 0 .. n /\ i - 1 \in 0 .. n
      BY <1>1
    <3>2. end[i] = S(i) /\ end[i - 1] = S(i - 1) /\ S(i) = S(i - 1) + b[i] /\ S(i - 1) \in Int
      BY <1>4, <2>3, <3>1
    <3> QED
      BY <1>2, <3>2
  <2> QED
    BY <2>2, <2>4
<1> QED
  BY <1>8, <1>9, <1>10, <1>11 DEF end, n, S, b

\* The blocks together are as long as their parts of the total, and less than one column
\* for each item longer.
LEMMA BlocksAddUp ==
  ASSUME NEW values \in Seq(Int), NEW w \in Nat \ {0}
  PROVE  LET n == Len(values)  s == SumTo(Sizes(values, w), n)
         IN  /\ s \in Nat /\ SumShown(values) \in Nat
             /\ s * MeterTotal >= SumShown(values) * w
             /\ s * MeterTotal <= SumShown(values) * w + n * Excess
             /\ MeterTotal = 0 => s = 0
<1> DEFINE n == Len(values)
           b == Sizes(values, w)
           p == Pieces(values)
           T == MeterTotal
           E == Excess
           S(i) == SumTo(b, i)
           V(i) == SumTo(p, i)
<1>1. n \in Nat /\ DOMAIN values = 1 .. n /\ \A i \in 1 .. n : values[i] \in Int
  OBVIOUS
<1>2. \A i \in 1 .. n : b[i] = BlockSize(values[i], w) /\ p[i] = Within(values[i], 0, T)
  BY <1>1 DEF Sizes, Pieces
<1>3. \A i \in 1 .. n : /\ b[i] \in Nat /\ p[i] \in Nat
                        /\ b[i] * T >= p[i] * w /\ b[i] * T <= p[i] * w + E
                        /\ T = 0 => b[i] = 0
  BY <1>1, <1>2, BlockFacts
<1>4. T \in Nat /\ E \in Nat
  BY ExcessFacts
<1>5. SumShown(values) = V(n)
  BY DEF SumShown, Pieces
<1> HIDE DEF n, b, p, T, E
<1>6. \A i \in 1 .. n : b[i] \in Int /\ p[i] \in Int
  BY <1>3
<1>7. /\ S(0) = 0 /\ \A i \in 0 .. n : S(i) \in Int
      /\ \A i \in 1 .. n : S(i) = S(i - 1) + b[i]
  BY <1>1, <1>6, PartialSums
<1>8. /\ V(0) = 0 /\ \A i \in 0 .. n : V(i) \in Int
      /\ \A i \in 1 .. n : V(i) = V(i - 1) + p[i]
  BY <1>1, <1>6, PartialSums
<1> HIDE DEF S, V
<1> DEFINE P == {i \in 0 .. n : /\ S(i) \in Nat /\ V(i) \in Nat
                                /\ S(i) * T >= V(i) * w /\ S(i) * T <= V(i) * w + i * E
                                /\ T = 0 => S(i) = 0}
<1>9. 0 \in P
  BY <1>1, <1>4, <1>7, <1>8
<1>10. ASSUME NEW i \in 1 .. n, i - 1 \in P PROVE i \in P
  <2> DEFINE s == S(i - 1)  v == V(i - 1)  d == b[i]  u == p[i]
  <2>1. /\ s \in Nat /\ v \in Nat /\ d \in Nat /\ u \in Nat /\ i \in Nat
        /\ s * T >= v * w /\ s * T <= v * w + (i - 1) * E
        /\ d * T >= u * w /\ d * T <= u * w + E
    BY <1>1, <1>3, <1>10
  <2>2. S(i) = s + d /\ V(i) = v + u
    BY <1>7, <1>8
  <2> HIDE DEF s, v, d, u
  <2>3. /\ (s + d) * T = s * T + d * T /\ (v + u) * w = v * w + u * w
        /\ i * E = (i - 1) * E + E
    BY <1>4, <2>1
  <2> DEFINE a1 == s * T  a2 == d * T  c1 == v * w  c2 == u * w  e == (i - 1) * E
  <2>4. a1 \in Int /\ a2 \in Int /\ c1 \in Int /\ c2 \in Int /\ e \in Int
    BY <1>4, <2>1
  <2>5. a1 >= c1 /\ a1 <= c1 + e /\ a2 >= c2 /\ a2 <= c2 + E
    BY <2>1
  <2>6. S(i) * T = a1 + a2 /\ V(i) * w = c1 + c2 /\ i * E = e + E
    BY <2>2, <2>3
  <2> HIDE DEF a1, a2, c1, c2, e
  <2>7. a1 + a2 >= c1 + c2 /\ a1 + a2 <= c1 + c2 + (e + E)
    BY <1>4, <2>4, <2>5
  <2>8. S(i) \in Nat /\ V(i) \in Nat /\ i \in 0 .. n
    BY <1>1, <2>1, <2>2
  <2>9. T = 0 => S(i) = 0
    <3>1. T = 0 => S(i - 1) = 0 /\ b[i] = 0
      BY <1>3, <1>10
    <3> QED
      BY <1>7, <3>1
  <2> QED
    BY <2>6, <2>7, <2>8, <2>9
<1>11. n \in P
  <2> HIDE DEF P
  <2>1. n \in 0 .. n
    BY <1>1
  <2> QED
    BY <1>1, <1>9, <1>10, <2>1, EachTurn
<1> QED
  BY <1>5, <1>11 DEF n, S, b, T, E

\* The columns of the blocks.
LEMMA BarColors ==
  ASSUME NEW values \in Seq(Int), NEW w \in Nat \ {0}, NEW text
  PROVE  LET end == Offsets(values, w)  n == Len(values)  cells == Bar(values, text, w)
         IN  /\ DOMAIN cells = 0 .. w - 1
             /\ \A j \in 0 .. w - 1 : j >= end[n] => cells[j].color = 0
             /\ \A j \in 0 .. w - 1 : j < end[n] =>
                  /\ cells[j].color \in 1 .. n
                  /\ end[cells[j].color - 1] <= j /\ j < end[cells[j].color]
             /\ \A j \in 0 .. w - 1 : \A i \in 1 .. n :
                  end[i - 1] <= j /\ j < end[i] => cells[j].color = i
<1> DEFINE end == Offsets(values, w)
           n == Len(values)
           cells == Bar(values, text, w)
           isIn(j) == {i \in DOMAIN values : end[i - 1] <= j /\ j < end[i]}
<1>1. n \in Nat /\ DOMAIN values = 1 .. n
  OBVIOUS
<1>2. /\ end[0] = 0 /\ \A i \in 0 .. n : end[i] \in 0 .. w
      /\ \A j \in 0 .. n : \A i \in 0 .. j : end[i] <= end[j]
  BY EndsFacts
<1>3. cells = [j \in 0 .. (IF end[n] > w THEN end[n] ELSE w) - 1 |->
                 [char |-> IF j < w /\ Printed(text, w)[j] # "blank" THEN "t"
                           ELSE IF isIn(j) # {} THEN "block" ELSE "blank",
                  color |-> IF isIn(j) # {} THEN CHOOSE i \in isIn(j) : TRUE ELSE 0]]
  BY Zenon DEF Bar
<1>4. ~(end[n] > w)
  <2>1. n \in 0 .. n
    BY <1>1
  <2> HIDE DEF end, n
  <2> QED
    BY <1>2, <2>1
<1> DEFINE all == DOMAIN values
<1> HIDE DEF end, n, cells
<1>5. /\ DOMAIN cells = 0 .. w - 1
      /\ \A j \in 0 .. w - 1 :
           cells[j].color = IF isIn(j) # {} THEN CHOOSE i \in isIn(j) : TRUE ELSE 0
  <2> HIDE DEF isIn
  <2> QED
    BY <1>3, <1>4
<1>6. ASSUME NEW j \in 0 .. w - 1, isIn(j) # {} PROVE cells[j].color \in isIn(j)
  <2> HIDE DEF isIn
  <2>1. (CHOOSE i \in isIn(j) : TRUE) \in isIn(j)
    BY <1>6, Zenon
  <2> QED
    BY <1>5, <1>6, <2>1
<1>7. ASSUME NEW j \in 0 .. w - 1, NEW i \in isIn(j) PROVE i \in 1 .. n /\ end[i - 1] <= j /\ j < end[i]
  BY <1>1
<1>8. ASSUME NEW j \in 0 .. w - 1, j >= end[n] PROVE cells[j].color = 0
  <2>1. ASSUME NEW i \in isIn(j) PROVE FALSE
    <3>1. i \in 1 .. n /\ j < end[i]
      BY <1>7
    <3>2. n \in 0 .. n /\ i \in 0 .. n
      BY <1>1, <3>1
    <3>3. end[i] <= end[n] /\ end[i] \in Int /\ end[n] \in Int
      BY <1>2, <3>1, <3>2
    <3> QED
      BY <1>8, <3>1, <3>3
  <2> QED
    BY <1>5, <2>1
<1>9. ASSUME NEW j \in 0 .. w - 1, j < end[n] PROVE isIn(j) # {}
  <2> DEFINE Over == {i \in 0 .. n : j < end[i]}
  <2>1. n \in Over /\ Over \in SUBSET Nat
    BY <1>1, <1>9
  <2> HIDE DEF Over
  <2>2. PICK i \in Over : \A k \in Over : i <= k
    BY <2>1, LeastNat
  <2> USE DEF Over
  <2>3. i \in 0 .. n /\ j < end[i]
    BY <2>2
  <2>4. i # 0
    BY <1>2, <2>3
  <2>5. i \in 1 .. n /\ i - 1 \in 0 .. n /\ ~(i <= i - 1)
    BY <1>1, <2>3, <2>4
  <2>6. ~(j < end[i - 1])
    BY <2>2, <2>5
  <2>7. end[i - 1] \in Int
    BY <1>2, <2>5
  <2> QED
    BY <1>1, <2>3, <2>5, <2>6, <2>7
<1>10. ASSUME NEW j \in 0 .. w - 1, NEW i \in 1 .. n, NEW k \in isIn(j), end[i - 1] <= j, j < end[i]
       PROVE  k = i
  <2>1. k \in 1 .. n /\ end[k - 1] <= j /\ j < end[k]
    BY <1>7
  <2>2. ASSUME NEW a \in 1 .. n, NEW c \in 1 .. n, a < c PROVE end[a] <= end[c - 1]
    <3>1. c - 1 \in 0 .. n /\ a \in 0 .. c - 1
      BY <1>1, <2>2
    <3> QED
      BY <1>2, <3>1
  <2>3. ASSUME NEW a \in 0 .. n PROVE end[a] \in Int
    BY <1>2
  <2>4. /\ i - 1 \in 0 .. n /\ k - 1 \in 0 .. n /\ i \in 0 .. n /\ k \in 0 .. n
    BY <1>1, <2>1
  <2>5. /\ end[i - 1] \in Int /\ end[k - 1] \in Int /\ end[i] \in Int /\ end[k] \in Int
    BY <2>3, <2>4
  <2>6. j \in Int /\ i \in Int /\ k \in Int
    BY <2>1
  <2>7. ASSUME i < k PROVE FALSE
    <3>1. end[i] <= end[k - 1]
      BY <2>1, <2>2, <2>7
    <3> QED
      BY <1>10, <2>1, <2>5, <2>6, <3>1
  <2>8. ASSUME k < i PROVE FALSE
    <3>1. end[k] <= end[i - 1]
      BY <2>1, <2>2, <2>8
    <3> QED
      BY <1>10, <2>1, <2>5, <2>6, <3>1
  <2> QED
    BY <2>6, <2>7, <2>8
<1>11. ASSUME NEW j \in 0 .. w - 1, j < end[n]
       PROVE  /\ cells[j].color \in 1 .. n
              /\ end[cells[j].color - 1] <= j /\ j < end[cells[j].color]
  <2>1. cells[j].color \in isIn(j)
    BY <1>6, <1>9, <1>11
  <2> HIDE DEF isIn
  <2> QED
    BY <1>7, <2>1
<1>12. ASSUME NEW j \in 0 .. w - 1, NEW i \in 1 .. n, end[i - 1] <= j, j < end[i]
       PROVE  cells[j].color = i
  <2>1. i \in isIn(j)
    BY <1>1, <1>12
  <2>2. cells[j].color \in isIn(j)
    BY <1>6, <2>1
  <2> HIDE DEF isIn
  <2> QED
    BY <1>10, <1>12, <2>2
<1> QED
  BY <1>5, <1>8, <1>11, <1>12 DEF end, n, cells

LEMMA BarChars ==
  ASSUME NEW values \in Seq(Int), NEW w \in Nat \ {0}, NEW text \in Seq({"t", "blank"}),
         NEW j \in 0 .. w - 1
  PROVE  Bar(values, text, w)[j].char = "t" <=> Printed(text, w)[j] = "t"
<1> DEFINE end == Offsets(values, w)
           n == Len(values)
           filled == {i \in DOMAIN values : end[i - 1] <= j /\ j < end[i]} # {}
<1>1. n \in Nat /\ n \in 0 .. n
  OBVIOUS
<1>2. end[n] \in 0 .. w
  BY <1>1, EndsFacts
<1>3. j \in 0 .. (IF end[n] > w THEN end[n] ELSE w) - 1 /\ j < w
  BY <1>2
<1>4. Printed(text, w)[j] \in {"t", "blank"}
  <2>1. Len(text) \in Nat /\ \A i \in 1 .. Len(text) : text[i] \in {"t", "blank"}
    OBVIOUS
  <2>2. Printed(text, w)[j] = IF Len(text) >= w THEN text[j + 1]
                              ELSE IF j < w - Len(text) THEN "blank" ELSE text[j - (w - Len(text)) + 1]
    BY DEF Printed
  <2>3. CASE Len(text) >= w
    <3>1. j + 1 \in 1 .. Len(text)
      BY <2>1, <2>3
    <3> QED
      BY <2>1, <2>2, <2>3, <3>1
  <2>4. CASE ~(Len(text) >= w) /\ j < w - Len(text)
    BY <2>2, <2>4
  <2>5. CASE ~(Len(text) >= w) /\ ~(j < w - Len(text))
    <3>1. j - (w - Len(text)) + 1 \in 1 .. Len(text)
      BY <2>1, <2>5
    <3> QED
      BY <2>1, <2>2, <2>5, <3>1
  <2> QED
    BY <2>3, <2>4, <2>5
<1> HIDE DEF end, filled
<1>5. Bar(values, text, w)[j].char
        = IF j < w /\ Printed(text, w)[j] # "blank" THEN "t" ELSE IF filled THEN "block" ELSE "blank"
  BY <1>3 DEF Bar, end, filled
<1> QED
  BY <1>3, <1>4, <1>5

LEMMA HowMany ==
  ASSUME NEW S, NEW a \in Int, NEW b \in Int, a <= b, S = a .. b - 1
  PROVE  Cardinality(S) = b - a
<1> DEFINE c == b - 1
<1>1. c \in Int /\ S = a .. c /\ (a > c <=> a = b) /\ c - a + 1 = b - a
  OBVIOUS
<1> HIDE DEF c
<1>2. Cardinality(a .. c) = IF a > c THEN 0 ELSE c - a + 1
  BY <1>1, FS_Interval
<1>3. a = b => b - a = 0
  OBVIOUS
<1> QED
  BY <1>1, <1>2, <1>3

\* A bar, whatever its values and its text are.
LEMMA BarHolds ==
  ASSUME NEW values \in Seq(Int), NEW w \in Nat \ {0}, NEW text \in Seq({"t", "blank"})
  PROVE  LET cells == Bar(values, text, w)
             sizes == [i \in DOMAIN values |-> Cardinality({j \in DOMAIN cells : cells[j].color = i})]
             filled == Cardinality({j \in DOMAIN cells : cells[j].color # 0})
         IN  /\ \A j, k \in DOMAIN cells :
                  j < k /\ cells[k].color # 0 => cells[j].color \in 1 .. cells[k].color
             /\ \A i \in DOMAIN values : Within(values[i], 0, MeterTotal) > 0 /\ filled < w => sizes[i] > 0
             /\ MeterTotal > 0 /\ SumShown(values) >= MeterTotal => filled = w
             /\ filled < w \/ MeterTotal = 0 =>
                  /\ filled * MeterTotal >= SumShown(values) * w
                  /\ \/ filled = 0
                     \/ filled * MeterTotal < SumShown(values) * w + Len(values) * MeterTotal
<1> DEFINE cells == Bar(values, text, w)
           end == Offsets(values, w)
           n == Len(values)
           filled == Cardinality({j \in DOMAIN cells : cells[j].color # 0})
           Whole == SumShown(values)
           T == MeterTotal
<1>1. n \in Nat /\ DOMAIN values = 1 .. n /\ \A i \in 1 .. n : values[i] \in Int
  OBVIOUS
<1>2. /\ end[0] = 0 /\ \A i \in 0 .. n : end[i] \in 0 .. w
      /\ \A j \in 0 .. n : \A i \in 0 .. j : end[i] <= end[j]
      /\ end[n] < w => /\ end[n] = SumTo(Sizes(values, w), n)
                       /\ \A i \in 1 .. n : end[i] - end[i - 1] = BlockSize(values[i], w)
  BY EndsFacts
<1>3. /\ DOMAIN cells = 0 .. w - 1
      /\ \A j \in 0 .. w - 1 : j >= end[n] => cells[j].color = 0
      /\ \A j \in 0 .. w - 1 : j < end[n] =>
           /\ cells[j].color \in 1 .. n
           /\ end[cells[j].color - 1] <= j /\ j < end[cells[j].color]
      /\ \A j \in 0 .. w - 1 : \A i \in 1 .. n :
           end[i - 1] <= j /\ j < end[i] => cells[j].color = i
  BY BarColors
<1>4. /\ end[n] < w => end[n] * T >= Whole * w /\ end[n] * T <= Whole * w + n * Excess
      /\ Whole \in Nat /\ T \in Nat /\ (T > 0 => Excess = T - 1)
  BY <1>2, BlocksAddUp, ExcessFacts
<1>0. T = 0 => end[n] = 0
  <2> DEFINE s == SumTo(Sizes(values, w), n)
  <2>1. end[n] = Within(s, 0, w)
    BY <1>1, OffsetsAre
  <2>2. T = 0 => s = 0
    BY BlocksAddUp
  <2> HIDE DEF s, end
  <2> QED
    BY <2>1, <2>2 DEF Within
<1>5. \A i \in 1 .. n : Within(values[i], 0, MeterTotal) > 0 => BlockSize(values[i], w) > 0
  BY <1>1, BlockFacts
<1> HIDE DEF cells, end, n, Whole, T
<1>6. n \in 0 .. n /\ end[n] \in 0 .. w
  BY <1>1, <1>2
<1>7. ASSUME NEW j \in 0 .. w - 1, NEW k \in 0 .. w - 1, j < k, cells[k].color # 0
      PROVE  cells[j].color \in 1 .. cells[k].color
  <2> DEFINE c == cells[j].color  d == cells[k].color
  <2>1. k < end[n] /\ j < end[n]
    BY <1>3, <1>6, <1>7
  <2>2. /\ c \in 1 .. n /\ end[c - 1] <= j /\ j < end[c]
        /\ d \in 1 .. n /\ end[d - 1] <= k /\ k < end[d]
    BY <1>3, <2>1
  <2> HIDE DEF c, d
  <2>3. ASSUME d < c PROVE FALSE
    <3>1. d \in 0 .. c - 1 /\ c - 1 \in 0 .. n /\ d \in 0 .. n
      BY <1>1, <2>2, <2>3
    <3>2. end[d] <= end[c - 1]
      BY <1>2, <3>1
    <3>3. end[d] \in Int /\ end[c - 1] \in Int
      BY <1>2, <3>1
    <3> QED
      BY <1>7, <2>2, <3>2, <3>3
  <2>4. c \in 1 .. d
    BY <2>2, <2>3
  <2> QED
    BY <2>4 DEF c, d
<1>8. filled = end[n] /\ filled \in Nat
  <2>1. {j \in DOMAIN cells : cells[j].color # 0} = 0 .. end[n] - 1
    <3>1. \A j \in 0 .. w - 1 : cells[j].color # 0 <=> j < end[n]
      BY <1>3, <1>6
    <3>2. \A j : j \in 0 .. end[n] - 1 <=> j \in 0 .. w - 1 /\ j < end[n]
      BY <1>6
    <3> QED
      BY <1>3, <3>1, <3>2
  <2>2. 0 \in Int /\ end[n] \in Int /\ 0 <= end[n] /\ end[n] - 0 = end[n]
    BY <1>6
  <2> DEFINE S == {j \in DOMAIN cells : cells[j].color # 0}
  <2>3. S = 0 .. end[n] - 1
    BY <2>1
  <2> HIDE DEF S
  <2>4. Cardinality(S) = end[n]
    BY <2>2, <2>3, HowMany
  <2> QED
    BY <1>6, <2>4 DEF S
<1>9. ASSUME NEW i \in 1 .. n, Within(values[i], 0, MeterTotal) > 0, end[n] < w
      PROVE  Cardinality({j \in DOMAIN cells : cells[j].color = i}) > 0
  <2>1. i \in 0 .. n /\ i - 1 \in 0 .. n
    BY <1>1
  <2>2. end[i] \in 0 .. w /\ end[i - 1] \in 0 .. w /\ end[i] - end[i - 1] > 0
    BY <1>2, <1>5, <1>9, <2>1
  <2>3. ASSUME NEW j \in 0 .. w - 1 PROVE cells[j].color = i <=> end[i - 1] <= j /\ j < end[i]
    <3>1. ASSUME cells[j].color = i PROVE end[i - 1] <= j /\ j < end[i]
      <4>1. cells[j].color # 0
        BY <1>1, <3>1
      <4>2. j < end[n]
        BY <1>3, <1>6, <4>1
      <4> QED
        BY <1>3, <3>1, <4>2
    <3> QED
      BY <1>3, <3>1
  <2>4. {j \in DOMAIN cells : cells[j].color = i} = end[i - 1] .. end[i] - 1
    <3>1. \A j : j \in end[i - 1] .. end[i] - 1 <=> j \in 0 .. w - 1 /\ end[i - 1] <= j /\ j < end[i]
      BY <2>2
    <3> QED
      BY <1>3, <2>3, <3>1
  <2> DEFINE S == {j \in DOMAIN cells : cells[j].color = i}
             a == end[i - 1]
             b == end[i]
  <2>5. S = a .. b - 1 /\ a \in Int /\ b \in Int /\ a <= b /\ b - a > 0
    BY <2>2, <2>4
  <2> HIDE DEF S, a, b
  <2>6. Cardinality(S) = b - a
    BY <2>5, HowMany
  <2> QED
    BY <2>5, <2>6 DEF S
<1>10. ASSUME T > 0, Whole >= T PROVE end[n] = w
  <2>1. SUFFICES ASSUME end[n] < w PROVE FALSE
    BY <1>6
  <2>2. end[n] * T >= Whole * w
    BY <1>4, <2>1
  <2>3. Whole * w >= T * w
    <3>1. CASE Whole = T
      BY <1>4, <3>1
    <3>2. CASE T < Whole
      <4>1. T \in Int /\ Whole \in Int /\ w \in Nat
        BY <1>4
      <4>2. T * w <= Whole * w
        BY <3>2, <4>1, Greater
      <4> DEFINE a == T * w  b == Whole * w
      <4>3. a \in Int /\ b \in Int /\ a <= b
        BY <4>1, <4>2
      <4> HIDE DEF a, b
      <4>4. b >= a
        BY <4>3
      <4> QED
        BY <4>4 DEF a, b
    <3> QED
      BY <1>4, <1>10, <3>1, <3>2
  <2>4. T * w > T * end[n] /\ T * end[n] = end[n] * T
    <3> DEFINE e == end[n]
    <3>1. e \in Nat /\ w \in Nat /\ e < w /\ T \in Nat /\ T > 0
      BY <1>4, <1>6, <1>10, <2>1
    <3> HIDE DEF e
    <3> QED
      BY <3>1 DEF e
  <2> DEFINE a == end[n] * T  b == Whole * w  c == T * w
  <2>5. a \in Int /\ b \in Int /\ c \in Int
    BY <1>4, <1>6
  <2>6. a >= b /\ b >= c /\ c > a
    BY <2>2, <2>3, <2>4
  <2> HIDE DEF a, b, c
  <2> QED
    BY <2>5, <2>6
<1>11. ASSUME end[n] < w \/ T = 0
       PROVE  /\ end[n] * T >= Whole * w
              /\ end[n] = 0 \/ end[n] * T < Whole * w + n * T
  <2>0. end[n] < w
    BY <1>0, <1>11
  <2>1. CASE n = 0 \/ T = 0
    <3>1. end[n] = 0
      BY <1>0, <1>2, <2>1
    <3> QED
      BY <1>4, <2>0, <3>1
  <2>2. CASE ~(n = 0 \/ T = 0)
    <3>1. n * (T - 1) < n * T /\ n * (T - 1) \in Int /\ n * T \in Int
      BY <1>1, <1>4, <2>2
    <3>2. end[n] * T <= Whole * w + n * (T - 1) /\ end[n] * T >= Whole * w
      <4>1. Excess = T - 1
        BY <1>4, <2>2
      <4> QED
        BY <1>4, <2>0, <4>1
    <3> DEFINE a == end[n] * T  b == Whole * w  c == n * (T - 1)  d == n * T
    <3>3. a \in Int /\ b \in Int /\ c \in Int /\ d \in Int /\ a <= b + c /\ c < d
      BY <1>4, <1>6, <3>1, <3>2
    <3> HIDE DEF a, b, c, d
    <3>4. a < b + d
      BY <3>3
    <3> QED
      BY <3>2, <3>4 DEF a, b, d
  <2> QED
    BY <2>1, <2>2
<1>12. \A j, k \in DOMAIN cells :
         j < k /\ cells[k].color # 0 => cells[j].color \in 1 .. cells[k].color
  BY <1>3, <1>7
<1>13. \A i \in DOMAIN values : Within(values[i], 0, MeterTotal) > 0 /\ filled < w
          => [k \in DOMAIN values |-> Cardinality({j \in DOMAIN cells : cells[j].color = k})][i] > 0
  <2> HIDE DEF filled
  <2> QED
    BY <1>1, <1>8, <1>9
<1>14. /\ T > 0 /\ Whole >= T => filled = w
       /\ filled < w \/ T = 0 =>
            /\ filled * T >= Whole * w
            /\ filled = 0 \/ filled * T < Whole * w + n * T
  <2> HIDE DEF filled
  <2> QED
    BY <1>8, <1>10, <1>11
<1> QED
  BY <1>12, <1>13, <1>14 DEF cells, Whole, T, n

(* LEDs.                                                                   *)

LEMMA LedHolds ==
  ASSUME NEW text \in Seq({"t", "blank"}), NEW low \in 0 .. 2
  PROVE  /\ \A a, b \in LedCells(text, low) : a[2] = b[2] /\ a[3] = b[3] => a = b
         /\ \A a \in LedCells(text, low) : a[3] \in 0 .. 2
<1> DEFINE n == Len(text)
           wide == [j \in DOMAIN text |-> LedWidth(text[j])]
           X(i) == LedColumn(text, i)
           Of(i) == {<<i, x, y>> : x \in X(i) .. X(i) + LedWidth(text[i]) - 1,
                                   y \in IF text[i] = "t" THEN 0 .. 2 ELSE {low}}
           cells == LedCells(text, low)
<1>0. cells = UNION {Of(i) : i \in DOMAIN text}
  BY DEF LedCells
<1>1. n \in Nat /\ DOMAIN text = 1 .. n
  OBVIOUS
<1> HIDE DEF cells
<1>2. \A j \in 1 .. n : wide[j] = LedWidth(text[j]) /\ wide[j] \in Nat /\ wide[j] > 0
  BY <1>1 DEF LedWidth
<1>3. \A i : X(i) = SumTo(wide, i - 1)
  BY DEF LedColumn
<1> HIDE DEF n, wide, X
<1>4. /\ \A k \in 0 .. n : SumTo(wide, k) \in Int
      /\ \A k \in 1 .. n : SumTo(wide, k) = SumTo(wide, k - 1) + wide[k]
  <2>1. n \in Nat /\ \A k \in 1 .. n : wide[k] \in Int
    BY <1>1, <1>2
  <2> QED
    BY <2>1, PartialSums
<1>5. \A j \in 0 .. n : \A i \in 0 .. j : SumTo(wide, i) <= SumTo(wide, j)
  BY <1>1, <1>2, PartialSumsGrow
<1>6. ASSUME NEW i \in 1 .. n
      PROVE  /\ X(i) \in Int /\ LedWidth(text[i]) \in Nat
             /\ \A k \in 1 .. n : i < k => X(i) + LedWidth(text[i]) <= X(k)
  <2>1. i - 1 \in 0 .. n /\ i \in 0 .. n
    BY <1>1
  <2>2. X(i) + LedWidth(text[i]) = SumTo(wide, i) /\ X(i) \in Int
    BY <1>2, <1>3, <1>4, <2>1
  <2>3. ASSUME NEW k \in 1 .. n, i < k PROVE SumTo(wide, i) <= SumTo(wide, k - 1)
    <3>1. k - 1 \in 0 .. n /\ i \in 0 .. k - 1
      BY <1>1, <2>3
    <3> QED
      BY <1>5, <3>1
  <2> QED
    BY <1>2, <1>3, <2>2, <2>3
<1>7. ASSUME NEW i \in 1 .. n, NEW a \in Of(i)
      PROVE  /\ a = <<i, a[2], a[3]>> /\ a[3] \in 0 .. 2
             /\ a[2] \in Int /\ X(i) <= a[2] /\ a[2] < X(i) + LedWidth(text[i])
  <2>1. PICK x \in X(i) .. X(i) + LedWidth(text[i]) - 1,
             y \in IF text[i] = "t" THEN 0 .. 2 ELSE {low} : a = <<i, x, y>>
    BY <1>7
  <2>2. y \in 0 .. 2
    BY <2>1
  <2>3. x \in Int /\ X(i) <= x /\ x < X(i) + LedWidth(text[i])
    BY <1>6
  <2> QED
    BY <2>1, <2>2, <2>3
<1> HIDE DEF Of
<1>8. ASSUME NEW i \in 1 .. n, NEW a \in Of(i), NEW k \in 1 .. n, NEW b \in Of(k),
             a[2] = b[2], a[3] = b[3]
      PROVE  a = b
  <2> DEFINE v == a[2]
  <2>1. v \in Int /\ X(i) <= v /\ v < X(i) + LedWidth(text[i])
    BY <1>7
  <2>2. X(k) <= v /\ v < X(k) + LedWidth(text[k])
    BY <1>7, <1>8
  <2> HIDE DEF v
  <2>3. ~(i < k) /\ ~(k < i)
    BY <1>6, <2>1, <2>2
  <2>4. i = k
    BY <2>3
  <2>5. a = <<i, a[2], a[3]>> /\ b = <<k, b[2], b[3]>>
    BY <1>7
  <2> QED
    BY <1>8, <2>4, <2>5
<1>9. \A a \in cells : \E i \in 1 .. n : a \in Of(i)
  BY <1>0, <1>1
<1>10. /\ \A a, b \in cells : a[2] = b[2] /\ a[3] = b[3] => a = b
       /\ \A a \in cells : a[3] \in 0 .. 2
  BY <1>7, <1>8, <1>9
<1> QED
  BY <1>10 DEF cells

(* The graph.                                                              *)

LEMMA DotsAddUp ==
  ASSUME NEW d \in 1 .. Pix
  PROVE  /\ SumTo([l \in 1 .. GraphHeight |-> DotsInLine(d, l - 1)], GraphHeight) = d
         /\ \A l \in 1 .. GraphHeight - 1 : DotsInLine(d, l - 1) > 0 => DotsInLine(d, l) = PixPerRow
<1> DEFINE H == GraphHeight
           D == PixPerRow
           a == [l \in 1 .. H |-> DotsInLine(d, l - 1)]
           X(k) == d - D * (H - k)
           F(k) == IF X(k) > 0 THEN X(k) ELSE 0
<1>1. H \in Nat \ {0} /\ D \in Nat \ {0} /\ d \in Nat \ {0} /\ d <= D * H
  BY MeterModesAssumption DEF Pix
<1>2. ASSUME NEW k \in Int PROVE X(k) \in Int /\ X(k) = X(k - 1) + D
  <2>1. D * (H - (k - 1)) = D * (H - k) + D
    BY <1>1
  <2>2. D * (H - k) \in Int
    BY <1>1
  <2> QED
    BY <1>1, <2>1, <2>2
<1>3. X(H) = d /\ X(0) <= 0 /\ X(0) \in Int
  <2>1. H - H = 0 /\ H - 0 = H /\ D * 0 = 0 /\ D * H \in Int
    BY <1>1
  <2> QED
    BY <1>1, <2>1
<1>4. ASSUME NEW l \in 1 .. H PROVE DotsInLine(d, l - 1) = Within(X(l), 0, D)
  <2>1. H - 1 - (l - 1) = H - l
    BY <1>1
  <2> QED
    BY <2>1 DEF DotsInLine
<1> HIDE DEF H, D, X
<1>5. ASSUME NEW l \in 1 .. H
      PROVE  a[l] \in Nat /\ F(l) = F(l - 1) + a[l] /\ F(l) \in Int
  <2>1. a[l] = Within(X(l), 0, D) /\ X(l) \in Int /\ X(l - 1) \in Int /\ X(l) = X(l - 1) + D
    BY <1>1, <1>2, <1>4
  <2> QED
    BY <1>1, <2>1 DEF Within
<1>6. F(0) = 0 /\ F(H) = d
  BY <1>1, <1>3
<1> HIDE DEF F, a
<1>7. /\ SumTo(a, 0) = 0 /\ \A k \in 0 .. H : SumTo(a, k) \in Int
      /\ \A k \in 1 .. H : SumTo(a, k) = SumTo(a, k - 1) + a[k]
  <2>1. H \in Nat /\ \A k \in 1 .. H : a[k] \in Int
    BY <1>1, <1>5
  <2> QED
    BY <2>1, PartialSums
<1> DEFINE P == {k \in 0 .. H : SumTo(a, k) = F(k)}
<1>8. 0 \in P
  BY <1>1, <1>6, <1>7
<1>9. ASSUME NEW k \in 1 .. H, k - 1 \in P PROVE k \in P
  BY <1>1, <1>5, <1>7, <1>9
<1>10. H \in P
  <2> HIDE DEF P
  <2>1. H \in 0 .. H /\ H \in Nat
    BY <1>1
  <2> QED
    BY <1>8, <1>9, <2>1, EachTurn
<1>11. ASSUME NEW l \in 1 .. H - 1, DotsInLine(d, l - 1) > 0 PROVE DotsInLine(d, l) = D
  <2>1. l \in 1 .. H /\ l + 1 \in 1 .. H /\ l + 1 - 1 = l
    BY <1>1
  <2>2. DotsInLine(d, l) = Within(X(l + 1), 0, D) /\ DotsInLine(d, l - 1) = Within(X(l), 0, D)
    BY <1>4, <2>1
  <2>3. X(l) \in Int /\ X(l + 1) = X(l) + D
    BY <1>2, <2>1
  <2> QED
    BY <1>1, <1>11, <2>2, <2>3 DEF Within
<1> QED
  BY <1>6, <1>10, <1>11 DEF a, H, D

LEMMA DotsFit == ASSUME NEW value \in Int PROVE Dots(value) \in 1 .. Pix
<1>1. MeterTotal \in Nat /\ PixPerRow \in Nat \ {0} /\ GraphHeight \in Nat \ {0}
  BY MeterModesAssumption
<1>2. Pix \in Nat \ {0}
  BY <1>1 DEF Pix
<1>3. CASE MeterTotal = 0
  BY <1>2, <1>3 DEF Dots
<1>4. CASE MeterTotal # 0
  <2> DEFINE x == (2 * value * Pix + MeterTotal) \div (2 * MeterTotal)
  <2>1. x \in Int
    <3> DEFINE y == 2 * value * Pix + MeterTotal  z == 2 * MeterTotal
    <3>1. y \in Int /\ z \in Nat \ {0}
      BY <1>1, <1>2, <1>4
    <3> HIDE DEF y, z
    <3>2. y \div z \in Int
      BY <3>1
    <3> QED
      BY <3>2 DEF y, z
  <2>2. Dots(value) = Within(x, 1, Pix)
    BY <1>4 DEF Dots
  <2> HIDE DEF x
  <2>3. Within(x, 1, Pix) \in 1 .. Pix
    BY <1>2, <2>1 DEF Within
  <2> QED
    BY <2>2, <2>3
<1> QED
  BY <1>3, <1>4

\* The columns of the graph and the values in them, counted from the last one.
LEMMA ColumnsAre ==
  ASSUME NEW w \in Int, NEW c \in DOMAIN GraphColumns(w)
  PROVE  /\ c \in 0 .. w - 2 /\ GraphColumns(w)[c] \in 0 .. BufferLen - 2
         /\ BufferLen - 1 - GraphColumns(w)[c] = 2 * (w - 2 - c) + 1
<1> DEFINE first == BufferLen - 2 * w + 2
           i == IF first < 0 THEN 0 ELSE first
           k == IF first < 0 THEN (-first) \div 2 ELSE 0
<1>1. BufferLen \in Nat \ {0} /\ BufferLen % 2 = 0
  BY MeterModesAssumption
<1>2. GraphColumns(w) = [b \in {k + (j - i) \div 2 : j \in {m \in i .. BufferLen - 2 : m % 2 = 0}}
                           |-> i + 2 * (b - k)]
  BY DEF GraphColumns
<1> HIDE DEF first, i, k
<1>3. PICK j \in i .. BufferLen - 2 : j % 2 = 0 /\ c = k + (j - i) \div 2
  BY <1>2
<1>4. GraphColumns(w)[c] = i + 2 * (c - k)
  BY <1>2
<1> DEFINE h == BufferLen \div 2
           g == j \div 2
<1>5. first \in Int /\ first = BufferLen - 2 * w + 2
  BY <1>1 DEF first
<1>6. i \in Int /\ i >= 0
  BY <1>5 DEF i
<1>7. h \in Int /\ BufferLen = 2 * h /\ j \in Int
  BY <1>1, <1>6
<1>8. g \in Int /\ j = 2 * g
  BY <1>3, <1>7
<1> HIDE DEF h, g
<1>9. CASE first < 0
  <2>1. i = 0 /\ k = (-first) \div 2
    BY <1>9 DEF i, k
  <2>2. k = w - 1 - h
    <3>1. -first = 2 * (w - 1 - h)
      BY <1>5, <1>7
    <3> QED
      BY <1>7, <2>1, <3>1
  <2>3. k >= 0
    BY <1>5, <1>7, <1>9, <2>2
  <2>4. c = k + g
    BY <1>3, <1>8, <2>1
  <2> QED
    BY <1>1, <1>3, <1>4, <1>7, <1>8, <2>1, <2>2, <2>3, <2>4
<1>10. CASE ~(first < 0)
  <2>1. i = first /\ k = 0
    BY <1>10 DEF i, k
  <2>2. c = g - h + w - 1
    <3>1. j - i = 2 * (g - h + w - 1)
      BY <1>5, <1>7, <1>8, <2>1
    <3> QED
      BY <1>3, <1>7, <1>8, <2>1, <3>1
  <2> QED
    BY <1>1, <1>3, <1>4, <1>5, <1>7, <1>8, <1>10, <2>1, <2>2
<1> QED
  BY <1>9, <1>10

\* The values of a graph are the last readings.
Recent(values, t) ==
  /\ values \in [0 .. BufferLen - 1 -> Int] /\ t \in Seq(Int)
  /\ \A i \in 0 .. BufferLen - 1 : values[i] = Before(t, BufferLen - 1 - i)

\* One more reading moves them all.
LEMMA ReadingMoves ==
  ASSUME NEW values, NEW t, Recent(values, t), NEW v \in Int
  PROVE  Recent([i \in 0 .. BufferLen - 1 |-> IF i < BufferLen - 1 THEN values[i + 1] ELSE v],
                Append(t, v))
<1> DEFINE moved == [i \in 0 .. BufferLen - 1 |-> IF i < BufferLen - 1 THEN values[i + 1] ELSE v]
           u == Append(t, v)
           n == Len(t)
<1>1. BufferLen \in Nat \ {0}
  BY MeterModesAssumption
<1>2. /\ values \in [0 .. BufferLen - 1 -> Int] /\ t \in Seq(Int) /\ n \in Nat
      /\ \A i \in 0 .. BufferLen - 1 : values[i] = Before(t, BufferLen - 1 - i)
  BY DEF Recent
<1>3. u \in Seq(Int) /\ Len(u) = n + 1 /\ u[n + 1] = v /\ \A i \in 1 .. n : u[i] = t[i]
  BY <1>2
<1> HIDE DEF u, n
<1>4. ASSUME NEW i \in 0 .. BufferLen - 1 PROVE moved[i] = Before(u, BufferLen - 1 - i)
  <2>1. CASE i = BufferLen - 1
    <3>1. BufferLen - 1 - i = 0 /\ 0 < n + 1 /\ n + 1 - 0 = n + 1
      BY <1>1, <1>2, <2>1
    <3>2. Before(u, 0) = v
      BY <1>3, <3>1 DEF Before
    <3> QED
      BY <1>1, <2>1, <3>1, <3>2
  <2>2. CASE i < BufferLen - 1
    <3> DEFINE m == BufferLen - 1 - (i + 1)
    <3>1. i + 1 \in 0 .. BufferLen - 1 /\ m \in Nat /\ BufferLen - 1 - i = m + 1
      BY <1>1, <2>2
    <3>2. moved[i] = Before(t, m)
      BY <1>2, <2>2, <3>1
    <3> HIDE DEF m, moved
    <3>3. Before(u, m + 1) = Before(t, m)
      <4>1. CASE m < n
        <5>1. m + 1 < n + 1 /\ n + 1 - (m + 1) = n - m /\ n - m \in 1 .. n
          BY <1>2, <3>1, <4>1
        <5>2. Before(t, m) = t[n - m]
          BY <4>1 DEF Before, n
        <5> DEFINE p == m + 1  q == Len(u) - p
        <5>3. p < Len(u) /\ q = n - m
          BY <1>2, <1>3, <3>1, <5>1
        <5> HIDE DEF p
        <5>4. Before(u, p) = u[q]
          BY <5>3 DEF Before
        <5>5. Before(u, m + 1) = u[n - m]
          BY <5>3, <5>4 DEF p
        <5> QED
          BY <1>3, <5>1, <5>2, <5>5
      <4>2. CASE ~(m < n)
        <5>1. ~(m + 1 < n + 1)
          BY <1>2, <3>1, <4>2
        <5> QED
          BY <1>3, <4>2, <5>1 DEF Before, n
      <4> QED
        BY <4>1, <4>2
    <3> QED
      BY <3>1, <3>2, <3>3
  <2> QED
    BY <1>1, <2>1, <2>2
<1>5. moved \in [0 .. BufferLen - 1 -> Int]
  <2>1. \A i \in 0 .. BufferLen - 1 : i < BufferLen - 1 => i + 1 \in 0 .. BufferLen - 1
    BY <1>1
  <2> QED
    BY <1>2, <2>1
<1> HIDE DEF moved
<1> QED
  BY <1>3, <1>4, <1>5 DEF Recent, moved, u

\* What the graph shows of recent values.
LEMMA GraphHolds ==
  ASSUME NEW values, NEW t, Recent(values, t), NEW w \in Int
  PROVE  GraphShows(GraphCells(values, w), w, t)
<1> DEFINE at == GraphColumns(w)
           cells == GraphCells(values, w)
           dots(c, half) == [line \in 0 .. GraphHeight - 1 |-> cells[c][line][half]]
<1>1. GraphHeight \in Nat \ {0} /\ BufferLen \in Nat \ {0}
  BY MeterModesAssumption
<1>2. ASSUME NEW c \in DOMAIN at
      PROVE  /\ c \in 0 .. w - 2 /\ at[c] \in 0 .. BufferLen - 2
             /\ BufferLen - 1 - at[c] = 2 * (w - 2 - c) + 1
  BY ColumnsAre
<1>3. /\ values \in [0 .. BufferLen - 1 -> Int]
      /\ \A i \in 0 .. BufferLen - 1 : values[i] = Before(t, BufferLen - 1 - i)
  BY DEF Recent
<1> HIDE DEF at
<1>4. ASSUME NEW c \in DOMAIN at, NEW half \in {1, 2}
      PROVE  LET i == at[c] + half - 1
             IN  /\ i \in 0 .. BufferLen - 1 /\ values[i] \in Int
                 /\ values[i] = Before(t, 2 * (w - 2 - c) + 2 - half)
                 /\ \A line \in 0 .. GraphHeight - 1 :
                      dots(c, half)[line] = DotsInLine(Dots(values[i]), line)
  <2> DEFINE i == at[c] + half - 1
             back == 2 * (w - 2 - c) + 2 - half
  <2>1. i \in 0 .. BufferLen - 1 /\ BufferLen - 1 - i = back
    BY <1>1, <1>2
  <2>2. values[i] = Before(t, back) /\ values[i] \in Int
    <3> HIDE DEF i, back
    <3> QED
      BY <1>3, <2>1
  <2>3. (half = 1 => i = at[c]) /\ (half = 2 => i = at[c] + 1)
    BY <1>2
  <2>4. \A line \in 0 .. GraphHeight - 1 : dots(c, half)[line] = DotsInLine(Dots(values[i]), line)
    <3> TAKE line \in 0 .. GraphHeight - 1
    <3>1. dots(c, half)[line] = cells[c][line][half]
      OBVIOUS
    <3>2. cells[c][line] = <<DotsInLine(Dots(values[at[c]]), line), DotsInLine(Dots(values[at[c] + 1]), line)>>
      BY DEF GraphCells, at
    <3> HIDE DEF i, cells, dots
    <3> QED
      BY <2>3, <3>1, <3>2
  <2> QED
    BY <2>1, <2>2, <2>4
<1>5. DOMAIN cells = DOMAIN at
  BY DEF GraphCells, at
<1>6. ASSUME NEW c \in DOMAIN at, NEW half \in {1, 2}
      PROVE  /\ SumTo([l \in 1 .. GraphHeight |-> dots(c, half)[l - 1]], GraphHeight)
                  = Dots(Before(t, 2 * (w - 2 - c) + 2 - half))
             /\ \A line \in 1 .. GraphHeight - 1 :
                  dots(c, half)[line - 1] > 0 => dots(c, half)[line] = PixPerRow
  <2> DEFINE v == values[at[c] + half - 1]
             d == Dots(v)
             drawnDots == dots(c, half)
             back == 2 * (w - 2 - c) + 2 - half
  <2>1. v \in Int /\ v = Before(t, back)
        /\ \A line \in 0 .. GraphHeight - 1 : drawnDots[line] = DotsInLine(d, line)
    BY <1>4
  <2> HIDE DEF v, drawnDots, back
  <2>2. d \in 1 .. Pix /\ d = Dots(Before(t, back))
    BY <2>1, DotsFit
  <2> HIDE DEF d
  <2>3. /\ SumTo([l \in 1 .. GraphHeight |-> DotsInLine(d, l - 1)], GraphHeight) = d
        /\ \A l \in 1 .. GraphHeight - 1 : DotsInLine(d, l - 1) > 0 => DotsInLine(d, l) = PixPerRow
    BY <2>2, DotsAddUp
  <2>4. \A l \in 1 .. GraphHeight : l - 1 \in 0 .. GraphHeight - 1
    BY <1>1
  <2>5. [l \in 1 .. GraphHeight |-> drawnDots[l - 1]] = [l \in 1 .. GraphHeight |-> DotsInLine(d, l - 1)]
    BY <2>1, <2>4
  <2>6. ASSUME NEW line \in 1 .. GraphHeight - 1, drawnDots[line - 1] > 0 PROVE drawnDots[line] = PixPerRow
    <3>1. line \in 0 .. GraphHeight - 1 /\ line - 1 \in 0 .. GraphHeight - 1
      BY <1>1
    <3>2. drawnDots[line] = DotsInLine(d, line) /\ drawnDots[line - 1] = DotsInLine(d, line - 1)
      BY <2>1, <3>1
    <3> QED
      BY <2>3, <2>6, <3>2
  <2> QED
    BY <2>2, <2>3, <2>5, <2>6 DEF drawnDots, back
<1> HIDE DEF dots, cells
<1>7. \A c \in DOMAIN cells :
        /\ c \in 0 .. w - 2
        /\ \A half \in {1, 2} :
             /\ SumTo([l \in 1 .. GraphHeight |-> dots(c, half)[l - 1]], GraphHeight)
                  = Dots(Before(t, 2 * (w - 2 - c) + 2 - half))
             /\ \A line \in 1 .. GraphHeight - 1 :
                  dots(c, half)[line - 1] > 0 => dots(c, half)[line] = PixPerRow
  BY <1>2, <1>5, <1>6
<1> QED
  BY <1>7, Zenon DEF GraphShows, dots, cells, at

(* The steps.                                                              *)

\* What the drawing steps leave behind.
MetersInv == Recent(graph.values, taken) /\ MetersAreRight

LEMMA NewGraphIsRecent == Recent(NoGraph.values, <<>>)
<1> DEFINE zeros == [i \in 0 .. BufferLen - 1 |-> 0]
           e == <<>>
<1>1. BufferLen \in Nat \ {0}
  BY MeterModesAssumption
<1>2. e \in Seq(Int) /\ Len(e) = 0 /\ zeros \in [0 .. BufferLen - 1 -> Int]
  OBVIOUS
<1> HIDE DEF e
<1>3. ASSUME NEW i \in 0 .. BufferLen - 1 PROVE zeros[i] = Before(e, BufferLen - 1 - i)
  BY <1>1, <1>2 DEF Before
<1> HIDE DEF zeros
<1>4. Recent(zeros, e)
  BY <1>2, <1>3 DEF Recent
<1> QED
  BY <1>4 DEF NoGraph, zeros, e

LEMMA MetersInvInit == ASSUME MetersInit PROVE MetersInv
<1>1. screen.kind = "none" /\ graph = NoGraph /\ taken = <<>>
  BY DEF MetersInit, NotDrawn
<1> QED
  BY <1>1, NewGraphIsRecent
  DEF MetersInv, MetersAreRight, BarIsRight, GraphIsRight, LedIsRight

LEMMA BarStep == ASSUME MetersInv, DrawBar PROVE MetersInv'
<1>1. PICK w \in Widths, values \in SeqOf(Readings, MaxItems), text \in Texts :
        /\ input' = [kind |-> "bar", w |-> w, values |-> values, text |-> text]
        /\ screen' = [kind |-> "bar",
                      brackets |-> {CaptionLen, CaptionLen + w - 2 - CaptionLen},
                      cells |-> IF BarWidth(w) < 1 THEN <<>> ELSE Bar(values, text, BarWidth(w))]
        /\ UNCHANGED <<graph, taken, wallTime>>
  BY DEF DrawBar
<1>2. w \in Nat /\ CaptionLen \in Nat /\ text \in Seq({"t", "blank"})
  BY MeterModesAssumption
<1>3. values \in Seq(Int)
  <2>1. PICK m \in 0 .. MaxItems : values \in [1 .. m -> Readings]
    BY DEF SeqOf
  <2>2. Readings \subseteq Int /\ m \in Nat
    BY MeterModesAssumption
  <2>3. values \in [1 .. m -> Int]
    BY <2>1, <2>2
  <2> QED
    BY <2>2, <2>3
<1> DEFINE b == BarWidth(w)
<1>4. b \in Int /\ BarWidth(input'.w) = b
  BY <1>1, <1>2 DEF BarWidth
<1>5. w >= CaptionLen + 2 => screen'.brackets \subseteq 0 .. w - 1
  <2>1. screen'.brackets = {CaptionLen, CaptionLen + w - 2 - CaptionLen}
    BY <1>1
  <2> QED
    BY <1>2, <2>1
<1> HIDE DEF b
<1>6. ASSUME b >= 1
      PROVE  LET cells == screen'.cells
                 sizes == [i \in DOMAIN values |-> Cardinality({j \in DOMAIN cells : cells[j].color = i})]
                 filled == Cardinality({j \in DOMAIN cells : cells[j].color # 0})
             IN  /\ DOMAIN cells = 0 .. b - 1
                 /\ \A j \in DOMAIN cells : Printed(text, b)[j] = "t" <=> cells[j].char = "t"
                 /\ \A j, k \in DOMAIN cells :
                      j < k /\ cells[k].color # 0 => cells[j].color \in 1 .. cells[k].color
                 /\ \A i \in DOMAIN values :
                      Within(values[i], 0, MeterTotal) > 0 /\ filled < b => sizes[i] > 0
                 /\ MeterTotal > 0 /\ SumShown(values) >= MeterTotal => filled = b
                 /\ filled < b \/ MeterTotal = 0 =>
                      /\ filled * MeterTotal >= SumShown(values) * b
                      /\ \/ filled = 0
                         \/ filled * MeterTotal < SumShown(values) * b + Len(values) * MeterTotal
  <2>1. b \in Nat \ {0} /\ ~(b < 1)
    BY <1>4, <1>6
  <2>2. screen'.cells = Bar(values, text, b)
    BY <1>1, <2>1 DEF b
  <2>3. DOMAIN Bar(values, text, b) = 0 .. b - 1
    <3> DEFINE n == Len(values)
               last == Offsets(values, b)[n]
    <3>1. n \in 0 .. n
      BY <1>3
    <3>2. last \in 0 .. b
      BY <1>3, <2>1, <3>1, EndsFacts
    <3>3. DOMAIN Bar(values, text, b) = 0 .. (IF last > b THEN last ELSE b) - 1
      BY DEF Bar
    <3> HIDE DEF last
    <3> QED
      BY <2>1, <3>2, <3>3
  <2>4. \A j \in 0 .. b - 1 : Bar(values, text, b)[j].char = "t" <=> Printed(text, b)[j] = "t"
    BY <1>2, <1>3, <2>1, BarChars
  <2>5. LET cells == Bar(values, text, b)
            sizes == [i \in DOMAIN values |-> Cardinality({j \in DOMAIN cells : cells[j].color = i})]
            filled == Cardinality({j \in DOMAIN cells : cells[j].color # 0})
        IN  /\ \A j, k \in DOMAIN cells :
                 j < k /\ cells[k].color # 0 => cells[j].color \in 1 .. cells[k].color
            /\ \A i \in DOMAIN values :
                 Within(values[i], 0, MeterTotal) > 0 /\ filled < b => sizes[i] > 0
            /\ MeterTotal > 0 /\ SumShown(values) >= MeterTotal => filled = b
            /\ filled < b \/ MeterTotal = 0 =>
                 /\ filled * MeterTotal >= SumShown(values) * b
                 /\ \/ filled = 0
                    \/ filled * MeterTotal < SumShown(values) * b + Len(values) * MeterTotal
    BY <1>2, <1>3, <2>1, BarHolds, Zenon
  <2> QED
    BY <2>2, <2>3, <2>4, <2>5, Zenon
<1>7. screen'.kind = "bar" /\ input'.w = w /\ input'.values = values /\ input'.text = text
  BY <1>1
<1>8. BarIsRight'
  BY <1>4, <1>5, <1>6, <1>7, Zenon DEF BarIsRight
<1>9. GraphIsRight' /\ LedIsRight'
  BY <1>7 DEF GraphIsRight, LedIsRight
<1> QED
  BY <1>1, <1>8, <1>9 DEF MetersInv, MetersAreRight

LEMMA GraphStep == ASSUME MetersInv, DrawGraph PROVE MetersInv'
<1>1. PICK w \in Widths, value \in Readings :
        /\ ReadGraph(value)
        /\ input' = [kind |-> "graph", w |-> w]
        /\ screen' = [kind |-> "graph", cells |-> GraphCells(graph'.values, w - CaptionLen)]
  BY DEF DrawGraph
<1>2. w \in Nat /\ CaptionLen \in Nat /\ value \in Int
  BY MeterModesAssumption
<1>3. Recent(graph'.values, taken')
  <2>1. Recent(graph.values, taken)
    BY DEF MetersInv
  <2>2. CASE wallTime >= graph.time
    <3>1. Recent([i \in 0 .. BufferLen - 1 |-> IF i < BufferLen - 1 THEN graph.values[i + 1] ELSE value],
                 Append(taken, value))
      BY <1>2, <2>1, ReadingMoves
    <3> DEFINE moved == [i \in 0 .. BufferLen - 1 |->
                          IF i < BufferLen - 1 THEN graph.values[i + 1] ELSE value]
    <3>2. graph' = [time |-> wallTime + DrawDelay, values |-> moved] /\ taken' = Append(taken, value)
      BY <1>1, <2>2, Zenon DEF ReadGraph
    <3> HIDE DEF moved
    <3>3. graph'.values = moved
      BY <3>2
    <3> QED
      BY <3>1, <3>2, <3>3, Zenon DEF moved
  <2>3. CASE ~(wallTime >= graph.time)
    BY <1>1, <2>1, <2>3 DEF ReadGraph
  <2> QED
    BY <2>2, <2>3
<1> DEFINE v == w - CaptionLen
           cells == GraphCells(graph'.values, v)
<1>4. v \in Int
  BY <1>2
<1>5. screen'.kind = "graph" /\ screen'.cells = cells /\ input'.w = w
  BY <1>1
<1> HIDE DEF v
<1>6. GraphShows(cells, v, taken')
  BY <1>3, <1>4, GraphHolds
<1>7. GraphIsRight'
  BY <1>5, <1>6 DEF GraphIsRight, v
<1>8. BarIsRight' /\ LedIsRight'
  BY <1>5 DEF BarIsRight, LedIsRight
<1> QED
  BY <1>3, <1>7, <1>8 DEF MetersInv, MetersAreRight

LEMMA LedStep == ASSUME MetersInv, DrawLed PROVE MetersInv'
<1>1. PICK text \in Texts, utf8 \in BOOLEAN :
        /\ screen' = [kind |-> "led", cells |-> LedCells(text, IF utf8 THEN 1 ELSE 2)]
        /\ UNCHANGED <<graph, taken, wallTime>>
  BY DEF DrawLed
<1> DEFINE low == IF utf8 THEN 1 ELSE 2
<1>2. text \in Seq({"t", "blank"}) /\ low \in 0 .. 2
  BY MeterModesAssumption
<1>3. screen'.kind = "led" /\ screen'.cells = LedCells(text, low)
  BY <1>1
<1> HIDE DEF low
<1>4. /\ \A a, b \in LedCells(text, low) : a[2] = b[2] /\ a[3] = b[3] => a = b
      /\ \A a \in LedCells(text, low) : a[3] \in 0 .. 2
  BY <1>2, LedHolds
<1>5. LedIsRight'
  BY <1>3, <1>4 DEF LedIsRight
<1>6. BarIsRight' /\ GraphIsRight'
  BY <1>3 DEF BarIsRight, GraphIsRight
<1> QED
  BY <1>1, <1>5, <1>6 DEF MetersInv, MetersAreRight

\* Changing the mode leaves what a new meter has.
LEMMA ModeStep == ASSUME SetMeterMode PROVE MetersInv'
<1>1. screen'.kind = "none"
  BY DEF SetMeterMode, NotDrawn
<1>2. BarIsRight' /\ GraphIsRight' /\ LedIsRight'
  BY <1>1 DEF BarIsRight, GraphIsRight, LedIsRight
<1>3. Recent(graph'.values, taken')
  BY NewGraphIsRecent DEF SetMeterMode
<1> QED
  BY <1>2, <1>3 DEF MetersInv, MetersAreRight

LEMMA NothingDrawn == ASSUME MetersInv, UNCHANGED <<screen, input, graph, taken>> PROVE MetersInv'
<1>1. BarIsRight'
  BY Zenon DEF MetersInv, MetersAreRight, BarIsRight
<1>2. GraphIsRight'
  BY DEF MetersInv, MetersAreRight, GraphIsRight
<1>3. LedIsRight'
  BY DEF MetersInv, MetersAreRight, LedIsRight
<1> QED
  BY <1>1, <1>2, <1>3 DEF MetersInv, MetersAreRight

(* A bar stays between its brackets, shows its text over any blocks, and   *)
(* fills what its items are of the total, each item seen; the graph shows  *)
(* the last readings, each once, in their order, whatever the widths were  *)
(* and whenever it was drawn; no LED covers another one (Meter.c).         *)
THEOREM MetersStayRight == MetersSpec => []MetersAreRight
<1>1. MetersInit => MetersInv
  BY MetersInvInit
<1>2. MetersInv /\ [MetersNext]_meterVars => MetersInv'
  <2> SUFFICES ASSUME MetersInv, [MetersNext]_meterVars PROVE MetersInv'
    OBVIOUS
  <2>1. CASE DrawBar
    BY <2>1, BarStep
  <2>2. CASE DrawGraph
    BY <2>2, GraphStep
  <2>3. CASE DrawLed
    BY <2>3, LedStep
  <2>4. CASE SetMeterMode
    BY <2>4, ModeStep
  <2>5. CASE ClockMoves
    BY <2>5, NothingDrawn DEF ClockMoves
  <2>6. CASE UNCHANGED meterVars
    BY <2>6, NothingDrawn DEF meterVars
  <2> QED
    BY <2>1, <2>2, <2>3, <2>4, <2>5, <2>6 DEF MetersNext
<1>3. MetersInv => MetersAreRight
  BY DEF MetersInv
<1> QED
  BY <1>1, <1>2, <1>3, PTL DEF MetersSpec
=============================================================================
