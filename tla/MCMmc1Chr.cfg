CONSTANTS
  PrgBanks = 2
  ChrRomBanks = 4
  ChrRamBanks = 0
  PrgRam = FALSE
  HeaderMirroring = "HORIZONTAL"
  Written <- ChrRegisters
SPECIFICATION HistorySpec
INVARIANTS
  BanksExist
  ChrFollowsRegisters
