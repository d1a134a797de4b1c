SPECIFICATION Spec
CONSTANTS
  M = 2
  Keys <- MCKeys
INVARIANTS
  KeepsKeys
  Shape
CHECK_DEADLOCK FALSE
