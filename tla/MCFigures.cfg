CONSTANTS
  Nets = {"eth0", "eth1", "wlan0"}
  Disks = {"sda", "sdb", "sdc", "sdd", "mmcblk0", "mmcblk1", "mmcblk2", "mmcblk3"}
  Tasks = {"task"}
  Width = 16
  MaxEvents = 5
  CpuCount = 2
  Modulus = 64
  Ticked <- MCTicked
  MaxCpuEvents = 3
  Bats <- MCBats
  Full <- MCFull
  CACHE = 2
  MaxBatEvents = 5
  Hosts = {"bsd", "openbsd", "solaris", "darwin"}
  HostCounts = {1, 2}
  HostModulus = 6
  HostLongModulus = 36
  HostStart <- MCHostStart
  HostTicked <- MCHostTicked
  MaxHostTicks = 3
  MemHosts = {"linux", "freebsd", "dragonfly", "openbsd", "solaris", "darwin"}
  MemModulus = 1024
  Kilo = 4
  StartPages = 1
  SwapSizes <- MCSwapSizes
  MaxMoves = 2
  CaptionLen = 1
  MeterTotal = 4
  MaxItems = 3
  Readings <- MCReadings
  Texts <- MCTexts
  Widths = {0, 1, 2, 3, 4, 5, 6, 7, 8}
  BufferLen = 4
  PixPerRow = 2
  GraphHeight = 2
  DrawDelay = 1
  MaxClock = 2
  MaxTaken = 5
SPECIFICATION MCSpec
INVARIANTS
  RateIsTrue
  PeriodsAddUp
  LevelIsRecent
  HostPartsAddUp
  MemoryIsTrue
  MetersAreRight
