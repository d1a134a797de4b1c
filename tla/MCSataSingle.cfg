SPECIFICATION FairSpec
CONSTANTS
  SlotCount = 3
  QueueCapable = FALSE
  LinkErrors = TRUE
  Operations <- AllOperations
INVARIANTS
  OneAtATime
PROPERTIES
  OperationEnds
