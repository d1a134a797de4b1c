SPECIFICATION Spec
CONSTANTS
  Levels = 3
  Entries = 4
  FrameCount = 10
  Root = 1
  PageSize = 4
  PageWindow <- MCPageWindow
  SmallWindow <- MCSmallWindow
  LargeStart <- MCLargeStart
  LargeEnd <- MCLargeEnd
  NodeSlots = 1
  BucketSizes <- MCBucketSizes
  BucketCounts <- MCBucketCounts
  Requests <- MCRequests
  MaxTreeAreas = 2
INVARIANTS
  BlocksApart
  FreeFramesUnused
  ListsExact
PROPERTIES
  TranslationsStable
