CONSTANTS
  OamSize = 8
  OamBytes <- OamByte
  OamPages <- Stripes
  TableSize = 10
  PatternSize = 4
  PaletteStart = 76
  PaletteSize = 4
  Row = 4
  Data <- ChrOrColour
  Watched <- Places
SPECIFICATION PortsSpec
INVARIANTS
  PortsTypeOK
  ReadsWhatWasWritten
PROPERTIES
  ImplementsOamMemory
