SPECIFICATION FairSpec
CONSTANTS
  MaxTimerTicks = 3
  CounterSize = 8
  Wrap = 32
  TicksPerMs = 3
  NsPerMs = 2
  Durations <- MCDurations
  Vectors <- MCVectors
  FixedVectors <- MCFixed
  SeveralCores = TRUE
INVARIANTS
  OneCallback
PROPERTIES
  NeverEarly
  SleepEnds
