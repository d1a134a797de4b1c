CONSTANTS
  sector_size = 4
  sector_count = 4
  page_size = 6
  TableSize = 2
  MaxRegion = 18
  Pages = 3
  Mappings <- SomeMappings

SPECIFICATION DeviceSpec

INVARIANTS
  ReadExact
  WriteExact

CHECK_DEADLOCK FALSE
