CONSTANTS
  Columns = 8
  TilesShown = 2
  LastVisible = 2
  MaxWrites = 2
  Sprites = 2
  SpriteHeight = 2
  Scrolls <- Positions
  Masks <- OffAndOn
  OamContents <- Pairs
  Patterns <- Patterned
SPECIFICATION OutputSpec
INVARIANT PixelsFollowScroll
INVARIANT FrontmostShown
INVARIANT HitAsDrawn
