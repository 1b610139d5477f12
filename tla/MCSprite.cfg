CONSTANTS
  Sprites = 4
  Slots = 2
  SpriteBytes = 2
  Evaluations = 5
  Masks <- AnyMask
  Writable <- FirstAndLast
  VisibleLines = 2
  Heights <- SmallAndLarge
  Bytes <- BothLines
  PowerOnOam <- FirstMoves
SPECIFICATION HistorySpec
INVARIANTS
  TypeOK
  FirstInRangeFound
  OverflowSearchesDiagonally
  UnitsShowSprites
