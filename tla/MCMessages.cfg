SPECIFICATION Spec
CONSTANTS
  PageSize = 2
  SourcePages <- MCSourcePages
  SourceFrame <- MCSourceFrame
  Methods <- MCMethods
  Halting <- MCHalting
  WindowStart = 8
  Record = 32
  NameSize <- MCNameSize
  BufferSizes <- MCBufferSizes
  Frames <- MCFrames
  ChildSizes <- MCChildSizes
INVARIANTS
  ArgumentsReach
  PlacedInWindow
  AnswerFits
  ClearsOneTooMany
CHECK_DEADLOCK FALSE
