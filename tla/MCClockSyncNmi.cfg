CONSTANTS
  LastDot = 7
  LastVisible = 11
  PreRender = 18
  InitDot = 3
  OamSize = 4
  Warmup1 = 32
  Warmup2 = 83
  CycleTop = 89
  Program <- WholeProgram
SPECIFICATION HistorySpec
INVARIANTS
  TypeOK
  NoServiceOfWithdrawnNmi
  NmiSequenceUnbroken
  VBlankWindow
  NmiWithinOneInstruction
  RacedReadSuppressesNmi
  DmaSequenceUnbroken
  DmaWritesOnEvenCycles
  WriteBufferDrained
  EarlyFlagsAnnounce
PROPERTIES
  BufferedWriteNotLost
