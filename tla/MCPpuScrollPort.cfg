CONSTANTS
  TileColumns = 2
  RowGroups = 1
  VisibleRows = 1
  FineRows = 2
  FineColumns = 1
  RowSplit = 2
  InitCycle = 0
  CopyDots = 1
  PowerOn <- Ones
  Masks <- NoBackground
  Ports <- AddressPort
SPECIFICATION HistorySpec
INVARIANTS ToggleIsCounted AccessesAreConsecutive
