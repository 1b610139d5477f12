CONSTANTS
  PrgBanks = 4
  ChrRomBanks = 0
  ChrRamBanks = 2
  PrgRam = TRUE
  HeaderMirroring = "VERTICAL"
  Written <- PrgRegisters
SPECIFICATION HistorySpec
INVARIANTS
  TypeOK
  PrgFollowsRegister
PROPERTIES
  ImplementsRegisters
