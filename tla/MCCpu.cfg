CONSTANTS
  Operands <- Edges
  Offsets <- Short
  StackSize = 6
  Code <- Sites
  Handler = 33022
SPECIFICATION ProgramSpec
INVARIANTS
  CpuTypeOK
  LongArithmeticIsExact
  AddressesCarry
PROPERTIES
  StackReturns
CHECK_DEADLOCK FALSE
