CONSTANTS
  LastDot = 7
  LastVisible = 11
  PreRender = 18
  InitDot = 3
  OamSize = 2
  Warmup1 = 32
  Warmup2 = 83
  CycleTop = 89
  Program <- LiveProgram
SPECIFICATION FairSpec
PROPERTIES
  NmiAnswered
  DmaAnswered
