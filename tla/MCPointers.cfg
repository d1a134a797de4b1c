SPECIFICATION Spec
CONSTANTS
  o1 = o1
  o2 = o2
  a = a
  b = b
  w = w
  Null = Null
  Objects = {o1, o2}
  Outer = {a, b}
  Watchers = {w}
  MaxResets = 1
INVARIANTS
  CountsExact
  BlockOutlivesPointers
PROPERTIES
  KeepsPromise
  UnownedGoes
CHECK_DEADLOCK FALSE
