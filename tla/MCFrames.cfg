SPECIFICATION FairSpec
CONSTANTS
  PageSize = 2
  MemoryMap <- PcMap
  Reserved <- PcReserved
  MaxCount = 2
INVARIANTS
  OnlyRam
  BitmapExact
  FailsOnlyWhenFull
PROPERTIES
  AllocEnds
