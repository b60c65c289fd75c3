CONSTANTS
  Item = {a, b}
  Height <- Heights
  MaxSize = 4
  WheelAmount = 2
  Terminals <- MCTerminals
  CpuCounts = {5}
  MeterTypes = {"single", "AllCPUs2", "RightCPUs2"}
  Configured <- MCConfigured
  ListWidths = {14}
  MaxInHeader = 2
  MaxSetups = 1
  Toggled = {"treeView", "hideUserlandThreads"}
  SortColumn = {1}
  Schemes = {2}
  ArgLists <- MCArgLists
  FirstFiles <- MCFiles
  HtopRc = FALSE
  Printable = {"a"}
  Control = {"ctrl"}
  Attr = {0, 1}
  Data <- MCData
  MaxText = 4
  MaxLen = 2
  Junk <- MCJunk
  WideChars = FALSE
SPECIFICATION MCSpec
INVARIANTS
  SelectedInRange
  QuickDrawInPanel
  ScreenIsCurrent
  ScreenIsDivided
  StringIsSound
PROPERTIES
  OptionsAreKept
  ImplementsText
