SPECIFICATION Spec
CONSTANTS
  SlotCount = 4
  QueueCapable = TRUE
  LinkErrors = TRUE
  Operations <- ReadsOnly
INVARIANTS
  NoDmaAfterReturn
  ReadDelivers
  SlotsReturned
