SPECIFICATION Spec
CONSTANTS
  MaxPid = 3
  MaxFriendships = 2
  Threads <- AllThreads
INVARIANTS
  SoleOwner
  PendingMatchesAdopter
PROPERTIES
  AdoptedSurvives
