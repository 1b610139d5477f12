-------------------------------- MODULE Mmc1 --------------------------------
(***************************************************************************)
(* The MMC1 mapper of mappers.c: a shift register that the program fills   *)
(* one bit per write, the four registers it is copied to, and the banks of *)
(* PRG ROM, CHR ROM or CHR RAM that these map into the CPU's and the PPU's *)
(* address spaces.                                                         *)
(*                                                                         *)
(* A bank is named by its number, never by its contents: PRG ROM in units  *)
(* of 16 KiB, CHR memory in units of 4 KiB.  The numbers of banks are      *)
(* powers of two, as mappers.c assumes; memories of less than a bank are   *)
(* the subject of module Session.  Of a byte the mapper looks at bits 0    *)
(* and 7 only, and of an address at the 8 KiB range it is in.              *)
(***************************************************************************)
EXTENDS Naturals, Sequences

CONSTANTS
  PrgBanks,         \* 16 KiB banks of PRG ROM
  ChrRomBanks,      \* 4 KiB banks of CHR ROM, 0 for none
  ChrRamBanks,      \* 4 KiB banks of CHR RAM, 0 for none
  PrgRam,           \* whether the header declares PRG RAM
  HeaderMirroring,  \* the mirroring the header declares
  Written           \* the registers the program writes to

(* The register behind $8000, $A000, $C000 and $E000.                      *)
Port == {"control", "chr0", "chr1", "prg"}

None == "none"

ASSUME PrgBanksAssumption == PrgBanks \in {1, 2, 4, 8, 16, 32}
ASSUME ChrBanksAssumption ==
  /\ ChrRomBanks \in {0, 2, 4, 8, 16, 32}
  /\ ChrRamBanks \in {0, 1, 2, 4, 8, 16, 32}
  /\ ChrRomBanks + ChrRamBanks > 0
ASSUME PrgRamAssumption == PrgRam \in BOOLEAN
ASSUME HeaderAssumption == HeaderMirroring \in {"VERTICAL", "HORIZONTAL"}
ASSUME WrittenAssumption == Written \subseteq Port

VARIABLES
  shift,           \* write_count and buffer
  age,             \* clocks since write_cycle, 2 for 2 or more
  second,          \* the register that the second write of the current
                   \* read-modify-write instruction will go to
  cpu_mapper_io,   \* the modes of CpuMapperShare
  prg_banks,       \* the banks at $8000 and at $C000
  pattern_tables,  \* the PPU's pattern_table_0k and pattern_table_4k
  nametables,      \* the PPU's nametable_0 to nametable_3
  wram             \* a byte of PRG RAM, 0 or 1

serial_vars == <<shift, age>>
bank_vars == <<prg_banks, pattern_tables>>
mapper_vars == <<shift, age, cpu_mapper_io, prg_banks, pattern_tables, nametables, wram>>
vars == <<mapper_vars, second>>

(* Bit i of the serial register is the one written by the i-th write.      *)
Weight == <<1, 2, 4, 8, 16>>

Byte == {0, 1, 128}

Bank(mem, number) == [mem |-> mem, number |-> number]

PatternTable == [mem : {"rom", "ram"}, number : Nat]

(* The fields of CpuMapperShare; the sizes, in KiB, are 0 before the first *)
(* reset or load of register 0.                                            *)
ModeType ==
  [ prg_rom_bank_size : {0, 16, 32}, chr_bank_size : {0, 4, 8},
    prg_low_bank_fixed : BOOLEAN, prg_high_bank_fixed : BOOLEAN,
    enable_prg_ram : BOOLEAN ]

(* The serial register, the modes and the mapped memory keep their types:  *)
(* in particular write_count is back at 0 after the fifth bit, so that     *)
(* mmc1_reg_write never shifts a sixth one in.                             *)
TypeOK ==
  /\ shift \in [write_count : 0..4, buffer : 0..15]
  /\ age \in {1, 2}
  /\ second \in Port \union {None}
  /\ cpu_mapper_io \in ModeType
  /\ prg_banks \in Nat \X Nat
  /\ pattern_tables \in PatternTable \X PatternTable
  /\ nametables \in [0..3 -> {"A", "B"}]
  /\ wram \in {0, 1}

-----------------------------------------------------------------------------
(* Banks.                                                                  *)

(* Mutant: the comparison is off by one.                                   *)
NormaliseMutant(bank_select, total_banks) ==
  IF bank_select > total_banks THEN bank_select % total_banks ELSE bank_select

(* total_banks is a power of two, so the mask is a remainder.              *)
normalise_any_out_of_bounds_bank(bank_select, total_banks) ==
  IF bank_select >= total_banks THEN bank_select % total_banks ELSE bank_select

(* The count register 1 and register 2 are reduced by: CHR RAM's, if any.  *)
chr_banks == IF ChrRamBanks > 0 THEN ChrRamBanks ELSE ChrRomBanks

(* The memory that is switched: CHR ROM, if any.                           *)
SwitchedMemory == IF ChrRomBanks > 0 THEN "rom" ELSE "ram"

LastBank == PrgBanks - 1

mmc1_set_chr_0_bank(bank_select) ==
  pattern_tables' =
    CASE cpu_mapper_io.chr_bank_size = 4 ->
           [pattern_tables EXCEPT ![1] = Bank(SwitchedMemory, bank_select)]
      [] cpu_mapper_io.chr_bank_size = 8 ->
           << Bank(SwitchedMemory, 2 * bank_select), Bank(SwitchedMemory, (2 * bank_select) + 1) >>
      [] OTHER -> pattern_tables

mmc1_set_chr_1_bank(bank_select) ==
  pattern_tables' = [pattern_tables EXCEPT ![2] = Bank(SwitchedMemory, bank_select)]

(* The pages, A or B, that the four name tables show.                      *)
set_nametable_mirroring(mirroring) ==
  CASE mirroring = "SINGLE_SCREEN_A" -> [n \in 0..3 |-> "A"]
    [] mirroring = "SINGLE_SCREEN_B" -> [n \in 0..3 |-> "B"]
    [] mirroring = "HORIZONTAL" -> [n \in 0..3 |-> IF n < 2 THEN "A" ELSE "B"]
    [] mirroring = "VERTICAL" -> [n \in 0..3 |-> IF n \in {0, 2} THEN "A" ELSE "B"]

-----------------------------------------------------------------------------
(* The four registers, once the serial register holds five bits.           *)

Bit(value, i) == (value \div Weight[i + 1]) % 2

Mirroring(value) ==
  <<"SINGLE_SCREEN_A", "SINGLE_SCREEN_B", "VERTICAL", "HORIZONTAL">>[(value % 4) + 1]

(* Register 0 changes the modes and maps no bank.                          *)
LoadControl(value) ==
  /\ nametables' = set_nametable_mirroring(Mirroring(value))
  /\ cpu_mapper_io' = [cpu_mapper_io EXCEPT
       !.prg_low_bank_fixed = (Bit(value, 2) = 0),
       !.prg_high_bank_fixed = (Bit(value, 2) = 1),
       !.prg_rom_bank_size = IF Bit(value, 3) = 0 THEN 32 ELSE 16,
       !.chr_bank_size = IF Bit(value, 4) = 0 THEN 8 ELSE 4]
  /\ UNCHANGED bank_vars

LoadChr0(value) ==
  LET bank_select == normalise_any_out_of_bounds_bank(value, chr_banks)
  IN  /\ mmc1_set_chr_0_bank(IF cpu_mapper_io.chr_bank_size = 8
                             THEN bank_select \div 2 ELSE bank_select)
      /\ UNCHANGED <<cpu_mapper_io, prg_banks, nametables>>

(* Mutant: register 2 is not ignored in 8 KiB mode.                        *)
LoadChr1Mutant(value) ==
  /\ mmc1_set_chr_1_bank(normalise_any_out_of_bounds_bank(value, chr_banks))
  /\ UNCHANGED <<cpu_mapper_io, prg_banks, nametables>>

LoadChr1(value) ==
  /\ IF cpu_mapper_io.chr_bank_size = 4
     THEN mmc1_set_chr_1_bank(normalise_any_out_of_bounds_bank(value, chr_banks))
     ELSE UNCHANGED pattern_tables
  /\ UNCHANGED <<cpu_mapper_io, prg_banks, nametables>>

(* Mutant: the lowest bit of a 32 KiB bank is not dropped.                 *)
SwitchedPrgMutant(bank_select) ==
  CASE cpu_mapper_io.prg_rom_bank_size = 32 -> << bank_select, bank_select + 1 >>
    [] cpu_mapper_io.prg_rom_bank_size # 32 /\ cpu_mapper_io.prg_low_bank_fixed ->
         << 0, bank_select >>
    [] cpu_mapper_io.prg_rom_bank_size # 32 /\ ~cpu_mapper_io.prg_low_bank_fixed
         /\ cpu_mapper_io.prg_high_bank_fixed -> << bank_select, LastBank >>
    [] OTHER -> prg_banks

(* The banks at $8000 and $C000 after register 3 is loaded.                *)
SwitchedPrg(bank_select) ==
  CASE cpu_mapper_io.prg_rom_bank_size = 32 ->
         << 2 * (bank_select \div 2), (2 * (bank_select \div 2)) + 1 >>
    [] cpu_mapper_io.prg_rom_bank_size # 32 /\ cpu_mapper_io.prg_low_bank_fixed ->
         << 0, bank_select >>
    [] cpu_mapper_io.prg_rom_bank_size # 32 /\ ~cpu_mapper_io.prg_low_bank_fixed
         /\ cpu_mapper_io.prg_high_bank_fixed -> << bank_select, LastBank >>
    [] OTHER -> prg_banks

LoadPrg(value) ==
  /\ prg_banks' = SwitchedPrg(normalise_any_out_of_bounds_bank(value % 16, PrgBanks))
  /\ cpu_mapper_io' = [cpu_mapper_io EXCEPT
       !.enable_prg_ram = (Bit(value, 4) = 0) /\ PrgRam]
  /\ UNCHANGED <<pattern_tables, nametables>>

Load(port, value) ==
  \/ port = "control" /\ LoadControl(value)
  \/ port = "chr0" /\ LoadChr0(value)
  \/ port = "chr1" /\ LoadChr1(value)
  \/ port = "prg" /\ LoadPrg(value)

-----------------------------------------------------------------------------
(* A write to $8000 and above.                                             *)

ZeroShift == [write_count |-> 0, buffer |-> 0]

(* Mutant: write_cycle is compared with this clock, not with the last.     *)
AdjacentMutant == age = 0

(* The write comes in the clock after the one accepted last.               *)
Adjacent == age = 1

IgnoreAdjacent ==
  /\ Adjacent
  /\ age' = 2
  /\ UNCHANGED <<shift, cpu_mapper_io, bank_vars, nametables>>

(* Mutant: the reset leaves the bits collected so far in buffer.           *)
ResetSerialMutant(val) ==
  /\ ~Adjacent
  /\ val >= 128
  /\ shift' = [shift EXCEPT !.write_count = 0]
  /\ cpu_mapper_io' = [cpu_mapper_io EXCEPT
       !.prg_high_bank_fixed = TRUE, !.prg_rom_bank_size = 16]
  /\ prg_banks' = [prg_banks EXCEPT ![2] = LastBank]
  /\ age' = 1
  /\ UNCHANGED <<pattern_tables, nametables>>

(* Bit 7 is set.  prg_low_bank_fixed stays as it is.                       *)
ResetSerial(val) ==
  /\ ~Adjacent
  /\ val >= 128
  /\ shift' = ZeroShift
  /\ cpu_mapper_io' = [cpu_mapper_io EXCEPT
       !.prg_high_bank_fixed = TRUE, !.prg_rom_bank_size = 16]
  /\ prg_banks' = [prg_banks EXCEPT ![2] = LastBank]
  /\ age' = 1
  /\ UNCHANGED <<pattern_tables, nametables>>

(* buffer |= (val & 0x01) << write_count                                   *)
Shifted(val) ==
  LET weight == Weight[shift.write_count + 1]
  IN  IF (shift.buffer \div weight) % 2 = 0
      THEN shift.buffer + (val % 2) * weight ELSE shift.buffer

(* Mutant: the fifth write does not set write_count back.                  *)
ShiftBitMutant(port, val) ==
  /\ ~Adjacent
  /\ val < 128
  /\ age' = 1
  /\ shift' = [write_count |-> shift.write_count + 1,
                buffer |-> IF shift.write_count = 4 THEN 0 ELSE Shifted(val)]
  /\ IF shift.write_count + 1 = 5
     THEN Load(port, Shifted(val))
     ELSE UNCHANGED <<cpu_mapper_io, bank_vars, nametables>>

ShiftBit(port, val) ==
  /\ ~Adjacent
  /\ val < 128
  /\ age' = 1
  /\ IF shift.write_count + 1 = 5
     THEN Load(port, Shifted(val)) /\ shift' = ZeroShift
     ELSE /\ shift' = [write_count |-> shift.write_count + 1, buffer |-> Shifted(val)]
          /\ UNCHANGED <<cpu_mapper_io, bank_vars, nametables>>

mmc1_reg_write(port, val) ==
  /\ IgnoreAdjacent \/ ResetSerial(val) \/ ShiftBit(port, val)
  /\ UNCHANGED wram

-----------------------------------------------------------------------------
(* The program.                                                            *)

(* The write of a store, or the first of a read-modify-write instruction.  *)
FirstWrite(port, val) ==
  /\ second = None
  /\ age = 2
  /\ mmc1_reg_write(port, val)
  /\ second' \in {None, port}

(* The second write, in the clock after the first.                         *)
SecondWrite(val) ==
  /\ second # None
  /\ mmc1_reg_write(second, val)
  /\ second' = None

(* The fetch of the next instruction separates its writes from these.      *)
Fetch ==
  /\ second = None
  /\ age = 1
  /\ age' = 2
  /\ UNCHANGED <<shift, cpu_mapper_io, bank_vars, nametables, wram, second>>

(* A write to $6000 to $7FFF.                                              *)
prg_ram_writes(val) ==
  /\ second = None
  /\ age = 2
  /\ wram' = IF cpu_mapper_io.enable_prg_ram THEN val ELSE wram
  /\ UNCHANGED <<shift, age, cpu_mapper_io, bank_vars, nametables, second>>

mapper_001 ==
  /\ prg_banks = <<0, LastBank>>
  /\ pattern_tables =
       [ <<Bank(SwitchedMemory, 0), Bank(SwitchedMemory, IF ChrRomBanks > 0 THEN 1 ELSE 0)>>
           EXCEPT ![2] = IF ChrRamBanks = 2 THEN Bank("ram", 1) ELSE @ ]

Init ==
  /\ shift = ZeroShift
  /\ age = 2
  /\ second = None
  /\ cpu_mapper_io = [ prg_rom_bank_size |-> 0, chr_bank_size |-> 0,
                       prg_low_bank_fixed |-> FALSE, prg_high_bank_fixed |-> FALSE,
                       enable_prg_ram |-> FALSE ]
  /\ mapper_001
  /\ nametables = set_nametable_mirroring(HeaderMirroring)
  /\ wram = 0

Next ==
  \/ \E port \in Written, val \in Byte : FirstWrite(port, val)
  \/ \E val \in Byte : SecondWrite(val)
  \/ Fetch
  \/ \E val \in {0, 1} : prg_ram_writes(val)

Spec == Init /\ [][Next]_vars

-----------------------------------------------------------------------------
ChrSize(mem) == IF mem = "rom" THEN ChrRomBanks ELSE ChrRamBanks

(* The second bank of a pair, of a memory that has one bank.               *)
HalfPair(slot, number, banks) == slot = 2 /\ number = 1 /\ banks = 1

CountedInRam(bank) == bank.mem = "rom" /\ bank.number < ChrRamBanks

(* Every bank that is mapped exists: neither the copies of PRG ROM nor the *)
(* PPU's pointers into CHR memory reach beyond the memory they are of, in  *)
(* any mode and after any change of modes.  Except that on a board with a  *)
(* single bank, a mode that maps banks in pairs maps one behind it too;    *)
(* and that on a board with both CHR memories, ROM is mapped but the banks *)
(* of RAM are counted: ROM may be mapped up to the size of RAM.            *)
BanksExist ==
  /\ \A slot \in 1..2 :
       prg_banks[slot] < PrgBanks \/ HalfPair(slot, prg_banks[slot], PrgBanks)
  /\ \A table \in 1..2 :
       LET bank == pattern_tables[table] IN
       \/ bank.number < ChrSize(bank.mem)
       \/ HalfPair(table, bank.number, ChrSize(bank.mem))
       \/ CountedInRam(bank)
=============================================================================
