CONSTANTS
  Machines <- SomeMachines
  Inodes <- SomeInodes
  Content <- SomeContent
  Paths <- SomePaths
  block_size = 2
  MaxFaults = 2

SPECIFICATION FileSpec

INVARIANTS
  ScanExact
  OpenExact
  FileExact

CHECK_DEADLOCK FALSE
