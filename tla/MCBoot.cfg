CONSTANTS
  Tables <- SomeTables
  Machines <- SomeMachines
  VectorCount = 9
  FirstVector = 2
  Repeat = 2
  DeviceCount = 2
  FunctionCount = 2
  FirstPagePorts = 2
  PortPages = 2
  WideExcess = 3
  ListLimit = 10
  MaxFailures = 1

SPECIFICATION FairSpec

INVARIANTS
  OwnStack
  ListExact
  DrivesExact
  MsiHandled

PROPERTIES
  WindowKept
  BootEnds

CHECK_DEADLOCK FALSE
