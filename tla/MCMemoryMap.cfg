SPECIFICATION Spec
CONSTANTS
  ArenaPages = {0, 1, 2, 3, 4, 5}
  ViewSize = 4
  LogicalPages = {0, 1}
  Tables <- FourTables
  TablePages = {0, 3}
  Regions <- TwoRegions
  Faults = {"alloc", "aligned", "canonical", "canonical_unmap", "reserve", "map", "later", "stuck", "unmap"}
  MaxFaults = 2
  MaxRecords = 6
INVARIANTS
  RecordedAliasesKeepBacking
  FastmemFollowsTables
