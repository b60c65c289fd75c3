------------------------------- MODULE Memory -------------------------------
(***************************************************************************)
(* The memory and the swap meter in all builds: the scan asks for counters *)
(* one after the other while pages change their use, computes with         *)
(* unsigned numbers, and Platform_setMemoryValues makes three parts of it. *)
(*                                                                         *)
(* Memory is counted in pages.  What the kernel uses a page for is its     *)
(* class; which classes a counter of the kernel has is modelled as the     *)
(* comments in the code say.                                               *)
(***************************************************************************)
EXTENDS Integers, FiniteSets, Sequences, Sums

CONSTANTS
  MemHosts,     \* the builds looked at
  MemModulus,   \* of an unsigned long long
  Kilo,         \* 1024, scaled down
  StartPages,   \* bound: pages of each class in the beginning
  SwapSizes,    \* sizes of the swap devices
  MaxMoves      \* bound: pages that change their use, devices that come and go

\* Pages that programs use, that the kernel uses, in I/O buffers, in the page cache, in shared
\* memory, in reclaimable slabs, of the ZFS cache, being written to swap, inactive, free.
Classes == {"active", "wired", "buffers", "cached", "shmem", "slab", "arc", "paging", "inactive", "free"}

ASSUME MemoryAssumption ==
  /\ MemHosts \subseteq {"linux", "freebsd", "dragonfly", "openbsd", "solaris", "darwin"}
  /\ StartPages \in Nat \ {0}
  /\ Kilo \in Nat \ {0}
  /\ MemModulus \in Nat /\ MemModulus > 40 * StartPages * Kilo   \* four times the memory
  /\ SwapSizes \in Seq(Nat \ {0}) /\ MaxMoves \in Nat

VARIABLES
  memHost,  \* the build; its parts zfs (FreeBSD) and kstat (Solaris)
  pages,    \* the kernel: how many pages of each class
  swaps,    \* the kernel: which swap devices are on and how much of each is used
  memList,  \* the fields of ProcessList
  meters,   \* what the meters were given last
  moves,    \* history: pages and devices moved
  memScanned   \* history: what the last scan met, and whether a page moved during it

memVars == <<memHost, pages, swaps, memList, meters, moves, memScanned>>

ClassesOf(os) ==
  CASE os = "linux"   -> {"active", "wired", "buffers", "cached", "shmem", "slab", "free"}
    [] os = "freebsd" -> {"active", "wired", "buffers", "cached", "arc", "inactive", "free"}
    [] os = "dragonfly" -> {"active", "wired", "buffers", "cached", "inactive", "free"}
    [] os = "openbsd" -> {"active", "wired", "cached", "paging", "free"}
    [] os = "solaris" -> {"active", "wired", "buffers", "free"}
    [] OTHER          -> {"active", "wired", "cached", "inactive", "free"}

Sum(p, classes) ==
  LET of(c) == IF c \in classes THEN p[c] ELSE 0
  IN  of("active") + of("wired") + of("buffers") + of("cached") + of("shmem") + of("slab")
      + of("arc") + of("paging") + of("inactive") + of("free")

Devices == DOMAIN SwapSizes
OnSwaps(s) == {d \in Devices : s[d].on}
SwapTotal(s) == SumTo([d \in Devices |-> IF s[d].on THEN SwapSizes[d] ELSE 0], Len(SwapSizes))
SwapUsed(s) == SumTo([d \in Devices |-> IF s[d].on THEN s[d].used ELSE 0], Len(SwapSizes))

Unsigned(n) == n % MemModulus
Signed(n) == IF n >= MemModulus \div 2 THEN n - MemModulus ELSE n     \* long int x = ...

NoPages == <<>>

MemInit ==
  /\ \E os \in MemHosts, zfs, kstat \in BOOLEAN :
       /\ zfs => os = "freebsd"
       /\ ~kstat => os = "solaris"
       /\ memHost = [os |-> os, zfs |-> zfs, kstat |-> kstat]
       /\ pages = [c \in Classes |-> IF c \in ClassesOf(os) /\ (c = "arc" => zfs) THEN StartPages ELSE 0]
  /\ swaps = [d \in Devices |-> [on |-> TRUE, used |-> 1]]
  /\ memList = [total |-> 0, used |-> 0, buffers |-> 0, cached |-> 0, swapTotal |-> 0, swapUsed |-> 0]
  /\ meters = [drawn |-> FALSE, total |-> 0, values |-> <<0, 0, 0>>, swap |-> <<0, 0>>]
  /\ moves = 0
  /\ memScanned = [pages |-> NoPages, torn |-> FALSE, swaps |-> swaps]
-----------------------------------------------------------------------------
(* The kernel.  Some pages are always in use. *)

Moved(p) ==
  LET used == {c \in ClassesOf(memHost.os) : c = "arc" => memHost.zfs}
      full == {c \in used : p[c] > IF c = "active" THEN 1 ELSE 0}
  IN  {[p EXCEPT ![cd[1]] = @ - 1, ![cd[2]] = @ + 1] : cd \in {x \in full \X used : x[1] # x[2]}}

MovePage ==
  /\ moves < MaxMoves
  /\ moves' = moves + 1
  /\ pages' \in Moved(pages)
  /\ UNCHANGED <<memHost, swaps, memList, meters, memScanned>>

ChangeSwap ==
  /\ moves < MaxMoves
  /\ moves' = moves + 1
  /\ \E d \in Devices, on \in BOOLEAN, used \in 0 .. 2 :
       /\ used <= SwapSizes[d]
       /\ swaps' = [swaps EXCEPT ![d] = [on |-> on, used |-> used]]
  /\ UNCHANGED <<memHost, pages, memList, meters, memScanned>>
-----------------------------------------------------------------------------
(* The scan.  from[c] is what the kernel had when it answered call c. *)

\* Defect: shared memory, which cannot be dropped, is taken for cache.
LinuxMemoryWithShmem(from) ==
  LET total  == Sum(from["total"], Classes)
      cached == Sum(from["cached"], {"cached", "shmem"})
  IN  [total |-> total, used |-> Unsigned(total - from["free"]["free"]),
       buffers |-> from["buffers"]["buffers"],
       cached |-> Unsigned(cached + from["slab"]["slab"])]

\* LinuxProcessList_scanMemoryInfo.
LinuxMemory(from) ==
  LET total  == Sum(from["total"], Classes)
      cached == Sum(from["cached"], {"cached", "shmem"})
  IN  [total |-> total, used |-> Unsigned(total - from["free"]["free"]),
       buffers |-> from["buffers"]["buffers"],
       cached |-> Unsigned(cached + from["slab"]["slab"] - from["shmem"]["shmem"])]

\* FreeBSD and DragonFly, which has no ARC: the kernel reports it as wired.
BsdMemory(from) ==
  LET arc == IF memHost.zfs THEN from["arc"]["arc"] ELSE 0
  IN  [total |-> Sum(from["total"], Classes),
       used |-> Unsigned(from["active"]["active"] + Unsigned(Sum(from["wire"], {"wired", "arc"}) - arc)),
       buffers |-> from["buffers"]["buffers"],
       cached |-> Unsigned(from["cached"]["cached"] + arc)]

\* OpenBSD: two calls; the cache is one of the buffers of files.
OpenMemory(from) ==
  LET p == from["total"] IN
  [total |-> Sum(p, Classes), used |-> Unsigned(Sum(p, Classes) - p["free"] - p["paging"]),
   buffers |-> 0, cached |-> from["cached"]["cached"]]

\* Solaris: one reading of kstat, or two calls of sysconf and another unit.
SolarisMemory(from) ==
  IF memHost.kstat
  THEN LET p == from["total"] IN
       [total |-> Sum(p, Classes), used |-> p["wired"], cached |-> 0,
        buffers |-> Sum(p, Classes) - Sum(p, Classes \ {"buffers"})]
  ELSE LET total == Sum(from["total"], Classes) * Kilo IN
       [total |-> total, used |-> Unsigned(total - from["free"]["free"] * Kilo), cached |-> 0, buffers |-> 0]

\* Darwin: one call, whose answer is kept; no part of it is cached.
DarwinMemory(from) ==
  LET p == from["total"] IN
  [total |-> Sum(p, Classes), used |-> Sum(p, {"active", "wired"}), buffers |-> p["cached"],
   cached |-> Sum(p, {"inactive", "cached"})]

MemoryOf(from) ==
  CASE memHost.os = "linux"   -> LinuxMemory(from)
    [] memHost.os = "openbsd" -> OpenMemory(from)
    [] memHost.os = "solaris" -> SolarisMemory(from)
    [] memHost.os = "darwin"  -> DarwinMemory(from)
    [] OTHER                  -> BsdMemory(from)

ReadsSwapWhenDrawn == memHost.os \in {"openbsd", "darwin"}

\* The calls of all builds in their order.
Calls == <<"total", "free", "active", "wire", "buffers", "cached", "shmem", "slab", "arc">>
Called == {Calls[i] : i \in DOMAIN Calls}
PlaceOf(call) == CHOOSE i \in DOMAIN Calls : Calls[i] = call

\* A page may move while the counters are read, between any two of the calls.
ScanMemory ==
  /\ \E after \in {pages} \cup (IF moves < MaxMoves THEN Moved(pages) ELSE {}) :
     \E early \in IF after = pages THEN {Len(Calls)} ELSE 0 .. Len(Calls) - 1 :
       LET memory == MemoryOf([c \in Called |-> IF PlaceOf(c) <= early THEN pages ELSE after])
       IN  /\ pages' = after
           /\ memScanned' = [pages |-> after, torn |-> after # pages, swaps |-> swaps]
           /\ moves' = IF after = pages THEN moves ELSE moves + 1
           /\ memList' = [total |-> memory.total, used |-> memory.used,
                          buffers |-> memory.buffers, cached |-> memory.cached,
                          swapTotal |-> IF ReadsSwapWhenDrawn THEN memList.swapTotal ELSE SwapTotal(swaps),
                          swapUsed |-> IF ReadsSwapWhenDrawn THEN memList.swapUsed ELSE SwapUsed(swaps)]
  /\ meters' = [meters EXCEPT !.drawn = FALSE]
  /\ UNCHANGED <<memHost, swaps>>
-----------------------------------------------------------------------------
(* The meters are drawn after a scan.  Linux and OpenBSD take buffers and   *)
(* cache off what is used, as signed numbers.                              *)

\* Defect: the numbers stay unsigned.
MemoryValuesUnsigned ==
  IF memHost.os \in {"linux", "openbsd"}
  THEN <<Unsigned(memList.used - (memList.buffers + memList.cached)), memList.buffers, memList.cached>>
  ELSE <<memList.used, memList.buffers, memList.cached>>

\* Platform_setMemoryValues.
MemoryValues ==
  IF memHost.os \in {"linux", "openbsd"}
  THEN <<Signed(memList.used) - (Signed(memList.buffers) + Signed(memList.cached)),
         Signed(memList.buffers), Signed(memList.cached)>>
  ELSE <<memList.used, memList.buffers, memList.cached>>

\* Platform_setSwapValues; on OpenBSD nothing is set when there is no device.
SwapValues ==
  IF memHost.os = "openbsd" /\ OnSwaps(swaps) = {} THEN meters.swap
  ELSE IF ReadsSwapWhenDrawn THEN <<SwapTotal(swaps), SwapUsed(swaps)>>
  ELSE <<memList.swapTotal, memList.swapUsed>>

DrawMemory ==
  /\ memScanned.pages # NoPages /\ ~meters.drawn
  /\ meters' = [drawn |-> TRUE, total |-> memList.total, values |-> MemoryValues, swap |-> SwapValues]
  /\ memScanned' = [memScanned EXCEPT !.swaps = IF ReadsSwapWhenDrawn THEN swaps ELSE @]
  /\ UNCHANGED <<memHost, pages, swaps, memList, moves>>

MemNext == MovePage \/ ChangeSwap \/ ScanMemory \/ DrawMemory
MemSpec == MemInit /\ [][MemNext]_memVars
-----------------------------------------------------------------------------
Distance(a, b) == IF a > b THEN a - b ELSE b - a

\* What the three parts are: what programs and the kernel hold, buffers, and what can be
\* dropped; on Solaris the first is what is locked.
MemParts ==
  CASE memHost.os = "linux"   -> <<{"active", "wired", "shmem"}, {"buffers"}, {"cached", "slab"}>>
    [] memHost.os = "openbsd" -> <<{"active", "wired"}, {}, {"cached"}>>
    [] memHost.os = "solaris" -> <<{"wired"}, {"buffers"}, {}>>
    [] memHost.os = "darwin"  -> <<{"active", "wired"}, {"cached"}, {"cached", "inactive"}>>
    [] OTHER                  -> <<{"active", "wired"}, {"buffers"}, {"cached", "arc"}>>

(* Each part of the memory meter is the number of pages that the last scan *)
(* met in its classes, in every build; if a page moved while the scan      *)
(* asked for counters it is off by two pages at most, and no difference of *)
(* unsigned numbers wraps to something huge.  The swap meter shows the     *)
(* devices that are on, and never more used than there is.  (OpenBSD keeps *)
(* the last device that was switched off; without kstat Solaris counts in  *)
(* another unit.)                                                          *)
MemoryIsTrue ==
  meters.drawn =>
    /\ memHost.kstat =>
         /\ meters.total = Sum(memScanned.pages, Classes)
         /\ \A i \in 1 .. 3 :
              Distance(meters.values[i], Sum(memScanned.pages, MemParts[i]))
                <= IF memScanned.torn THEN 2 ELSE 0
    /\ meters.values[1] <= meters.total + IF memScanned.torn THEN 2 ELSE 0
    /\ meters.swap[2] <= meters.swap[1]
    /\ \/ memHost.os = "openbsd" /\ OnSwaps(memScanned.swaps) = {}
       \/ meters.swap = <<SwapTotal(memScanned.swaps), SwapUsed(memScanned.swaps)>>
=============================================================================
