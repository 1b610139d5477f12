CONSTANTS
  TileColumns = 2
  RowGroups = 1
  VisibleRows = 2
  FineRows = 2
  FineColumns = 1
  RowSplit = 3
  InitCycle = 0
  CopyDots = 1
  PowerOn <- Zeroed
  Masks <- Shown
  Ports <- Scrolling
SPECIFICATION HistorySpec
INVARIANTS TypeOK RasterFollowsColumn RasterFollowsLine
