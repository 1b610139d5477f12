----------------------------- MODULE Mmc1Proofs -----------------------------
(***************************************************************************)
(* Theorems about Mmc1, for every size of the memories and every program:  *)
(* its types and its banks, that it implements Mmc1Registers, and that the *)
(* banks it maps are the ones its registers select.                        *)
(***************************************************************************)
EXTENDS Mmc1History, SequenceTheorems, TLAPS

(* The bits beyond write_count are still zero, so that setting one never   *)
(* changes another.                                                        *)
BufferFits == shift.buffer < Weight[shift.write_count + 1]

(* A second write comes right after an accepted one.                       *)
SecondIsAdjacent == second # None => age = 1

Inv == TypeOK /\ BufferFits /\ SecondIsAdjacent

-----------------------------------------------------------------------------
(* What the operators of Mmc1 return.                                      *)

LEMMA WeightValues ==
  /\ Weight[1] = 1 /\ Weight[2] = 2 /\ Weight[3] = 4
  /\ Weight[4] = 8 /\ Weight[5] = 16
  BY DEF Weight

(* The new bit is added to the ones below it.                              *)
LEMMA ShiftedValue ==
  ASSUME Inv, NEW val \in {0, 1}
  PROVE  /\ Shifted(val) = shift.buffer + (val * Weight[shift.write_count + 1])
         /\ Shifted(val) \in 0..31
         /\ shift.write_count < 4 =>
              Shifted(val) \in 0..15 /\ Shifted(val) < Weight[shift.write_count + 2]
  <1>1. /\ shift.write_count \in 0..4 /\ shift.buffer \in 0..15
        /\ shift.buffer < Weight[shift.write_count + 1]
    BY DEF Inv, TypeOK, BufferFits
  <1>2. PICK w \in 0..4, b \in 0..15 : w = shift.write_count /\ b = shift.buffer
    BY <1>1
  <1>3. /\ Weight[w + 1] \in {1, 2, 4, 8, 16} /\ b < Weight[w + 1]
        /\ w = 4 => Weight[w + 1] = 16
        /\ w < 4 => Weight[w + 1] < 16 /\ Weight[w + 2] = 2 * Weight[w + 1]
    <2>1. w + 1 \in 1..5 /\ w + 2 \in 2..6
      OBVIOUS
    <2>2. CASE w = 0
      BY <1>1, <1>2, <2>2, WeightValues
    <2>3. CASE w = 1
      BY <1>1, <1>2, <2>3, WeightValues
    <2>4. CASE w = 2
      BY <1>1, <1>2, <2>4, WeightValues
    <2>5. CASE w = 3
      BY <1>1, <1>2, <2>5, WeightValues
    <2>6. CASE w = 4
      BY <1>1, <1>2, <2>6, WeightValues
    <2>7. QED
      BY <2>2, <2>3, <2>4, <2>5, <2>6
  <1>4. PICK weight \in {1, 2, 4, 8, 16} : weight = Weight[w + 1]
    BY <1>3
  <1>5. (b \div weight) % 2 = 0 /\ val % 2 = val
    <2>1. b < weight
      BY <1>3, <1>4
    <2>2. CASE weight = 1
      BY <2>1, <2>2
    <2>3. CASE weight = 2
      BY <2>1, <2>3
    <2>4. CASE weight = 4
      BY <2>1, <2>4
    <2>5. CASE weight = 8
      BY <2>1, <2>5
    <2>6. CASE weight = 16
      BY <2>1, <2>6
    <2>7. QED
      BY <2>2, <2>3, <2>4, <2>5, <2>6
  <1>6. Shifted(val) = b + (val * weight)
    BY <1>2, <1>4, <1>5 DEF Shifted
  <1>7. b + (val * weight) \in 0..31
    <2>1. val * weight \in {0, weight}
      BY SMT
    <2>2. val * weight \in 0..16
      BY <2>1
    <2>3. QED
      BY <2>2
  <1>8. ASSUME w < 4
        PROVE  b + (val * weight) \in 0..15 /\ b + (val * weight) < Weight[w + 2]
    <2>1. weight \in {1, 2, 4, 8} /\ Weight[w + 2] = 2 * weight /\ b < weight
      BY <1>3, <1>4, <1>8
    <2>2. QED
      BY <2>1
  <1>9. QED
    BY <1>2, <1>4, <1>6, <1>7, <1>8

LEMMA NormalisedBank ==
  ASSUME NEW bank_select \in Nat, NEW total_banks \in Nat, total_banks > 0
  PROVE  /\ normalise_any_out_of_bounds_bank(bank_select, total_banks) \in Nat
         /\ normalise_any_out_of_bounds_bank(bank_select, total_banks) < total_banks
  BY DEF normalise_any_out_of_bounds_bank

LEMMA NametablePages ==
  ASSUME NEW mirroring \in {"SINGLE_SCREEN_A", "SINGLE_SCREEN_B", "HORIZONTAL", "VERTICAL"}
  PROVE  set_nametable_mirroring(mirroring) \in [0..3 -> {"A", "B"}]
  BY DEF set_nametable_mirroring

LEMMA MirroringOf ==
  ASSUME NEW value \in Nat
  PROVE  Mirroring(value) \in {"SINGLE_SCREEN_A", "SINGLE_SCREEN_B", "HORIZONTAL", "VERTICAL"}
  <1>1. value % 4 \in 0..3
    OBVIOUS
  <1>2. QED
    BY <1>1 DEF Mirroring

LEMMA MemorySizes ==
  /\ PrgBanks \in Nat /\ PrgBanks > 0 /\ LastBank \in Nat /\ LastBank < PrgBanks
  /\ PrgBanks = 1 \/ PrgBanks % 2 = 0
  /\ chr_banks \in Nat /\ chr_banks > 0
  /\ chr_banks = 1 \/ chr_banks % 2 = 0
  /\ SwitchedMemory \in {"rom", "ram"}
  /\ ChrRomBanks \in Nat /\ ChrRamBanks \in Nat
  BY PrgBanksAssumption, ChrBanksAssumption DEF LastBank, chr_banks, SwitchedMemory

(* An even number of banks holds the pair of any bank in it; a single bank *)
(* is the first of its pair.                                               *)
LEMMA PairExists ==
  ASSUME NEW bank \in Nat, NEW banks \in Nat, bank < banks, banks = 1 \/ banks % 2 = 0
  PROVE  /\ 2 * (bank \div 2) \in Nat
         /\ 2 * (bank \div 2) < banks
         /\ \/ (2 * (bank \div 2)) + 1 < banks
            \/ banks = 1 /\ (2 * (bank \div 2)) + 1 = 1
  OBVIOUS

-----------------------------------------------------------------------------
(* The steps that leave the banks alone keep Inv.                          *)

LEMMA InitInv == Init => Inv
  <1> SUFFICES ASSUME Init PROVE Inv
    OBVIOUS
  <1>1. pattern_tables \in PatternTable \X PatternTable
    BY MemorySizes DEF Init, mapper_001, Bank, PatternTable
  <1>2. nametables \in [0..3 -> {"A", "B"}]
    BY HeaderAssumption, NametablePages DEF Init
  <1>3. prg_banks \in Nat \X Nat
    BY MemorySizes DEF Init, mapper_001
  <1>4. QED
    BY <1>1, <1>2, <1>3, WeightValues
    DEF Init, Inv, TypeOK, ModeType, BufferFits, SecondIsAdjacent, ZeroShift, None

(* What a load may change, and how.                                        *)
MappedType ==
  /\ cpu_mapper_io \in ModeType
  /\ prg_banks \in Nat \X Nat
  /\ pattern_tables \in PatternTable \X PatternTable
  /\ nametables \in [0..3 -> {"A", "B"}]

LEMMA LoadControlType ==
  ASSUME MappedType, NEW value \in 0..31, LoadControl(value)
  PROVE  MappedType'
  <1> DEFINE low == Bit(value, 2) = 0
             high == Bit(value, 2) = 1
             prg == IF Bit(value, 3) = 0 THEN 32 ELSE 16
             chr == IF Bit(value, 4) = 0 THEN 8 ELSE 4
  <1>1. low \in BOOLEAN /\ high \in BOOLEAN /\ prg \in {0, 16, 32} /\ chr \in {0, 4, 8}
    OBVIOUS
  <1>2. cpu_mapper_io' = [cpu_mapper_io EXCEPT
          !.prg_low_bank_fixed = low, !.prg_high_bank_fixed = high,
          !.prg_rom_bank_size = prg, !.chr_bank_size = chr]
    BY DEF LoadControl
  <1>3. nametables' \in [0..3 -> {"A", "B"}]
    BY MirroringOf, NametablePages DEF LoadControl
  <1> HIDE DEF low, high, prg, chr
  <1>4. cpu_mapper_io' \in ModeType
    BY <1>1, <1>2 DEF MappedType, ModeType
  <1>5. QED
    BY <1>3, <1>4 DEF MappedType, LoadControl, bank_vars

LEMMA LoadChr0Type ==
  ASSUME MappedType, NEW value \in 0..31, LoadChr0(value)
  PROVE  MappedType'
  <1> DEFINE bank == normalise_any_out_of_bounds_bank(value, chr_banks)
             select == IF cpu_mapper_io.chr_bank_size = 8 THEN bank \div 2 ELSE bank
  <1>1. bank \in Nat
    BY NormalisedBank, MemorySizes
  <1> HIDE DEF bank
  <1>2. select \in Nat
    BY <1>1
  <1>3. mmc1_set_chr_0_bank(select) /\ UNCHANGED <<cpu_mapper_io, prg_banks, nametables>>
    BY DEF LoadChr0, bank
  <1> HIDE DEF select
  <1>4. /\ Bank(SwitchedMemory, select) \in PatternTable
        /\ Bank(SwitchedMemory, 2 * select) \in PatternTable
        /\ Bank(SwitchedMemory, (2 * select) + 1) \in PatternTable
    BY <1>2, MemorySizes DEF Bank, PatternTable
  <1>5. pattern_tables' \in PatternTable \X PatternTable
    BY <1>3, <1>4 DEF mmc1_set_chr_0_bank, MappedType
  <1>6. QED
    BY <1>3, <1>5 DEF MappedType

LEMMA LoadChr1Type ==
  ASSUME MappedType, NEW value \in 0..31, LoadChr1(value)
  PROVE  MappedType'
  <1> DEFINE bank == normalise_any_out_of_bounds_bank(value, chr_banks)
  <1>1. bank \in Nat
    BY NormalisedBank, MemorySizes
  <1>2. Bank(SwitchedMemory, bank) \in PatternTable
    BY <1>1, MemorySizes DEF Bank, PatternTable
  <1>3. pattern_tables' \in PatternTable \X PatternTable
    BY <1>2 DEF LoadChr1, mmc1_set_chr_1_bank, MappedType
  <1>4. QED
    BY <1>3 DEF LoadChr1, MappedType

LEMMA LoadPrgType ==
  ASSUME MappedType, NEW value \in 0..31, LoadPrg(value)
  PROVE  MappedType'
  <1> DEFINE bank == normalise_any_out_of_bounds_bank(value % 16, PrgBanks)
             enabled == (Bit(value, 4) = 0) /\ PrgRam
  <1>1. bank \in Nat /\ bank < PrgBanks
    BY NormalisedBank, MemorySizes
  <1>2. enabled \in BOOLEAN
    BY PrgRamAssumption
  <1>3. prg_banks' = SwitchedPrg(bank)
    BY DEF LoadPrg
  <1>4. cpu_mapper_io' = [cpu_mapper_io EXCEPT !.enable_prg_ram = enabled]
    BY DEF LoadPrg
  <1> HIDE DEF bank, enabled
  <1>5. prg_banks' \in Nat \X Nat
    BY <1>1, <1>3, MemorySizes DEF SwitchedPrg, MappedType
  <1>6. cpu_mapper_io' \in ModeType
    BY <1>2, <1>4 DEF MappedType, ModeType
  <1>7. QED
    BY <1>5, <1>6 DEF MappedType, LoadPrg

LEMMA WriteInv ==
  ASSUME Inv, NEW port \in Port, NEW val \in Byte, mmc1_reg_write(port, val)
  PROVE  /\ BufferFits'
         /\ MappedType'
         /\ shift' \in [write_count : 0..4, buffer : 0..15]
         /\ age' = IF age = 1 THEN 2 ELSE 1
         /\ wram' \in {0, 1}
  <1>0. MappedType /\ wram' \in {0, 1}
    BY DEF Inv, TypeOK, MappedType, ModeType, mmc1_reg_write
  <1>1. CASE IgnoreAdjacent
    BY <1>0, <1>1
    DEF Inv, TypeOK, BufferFits, MappedType, ModeType, IgnoreAdjacent, Adjacent, bank_vars
  <1>2. CASE ResetSerial(val)
    <2>1. cpu_mapper_io' \in ModeType
      BY <1>0, <1>2 DEF ResetSerial, MappedType, ModeType
    <2>2. prg_banks' \in Nat \X Nat
      BY <1>0, <1>2, MemorySizes DEF ResetSerial, MappedType
    <2>3. QED
      BY <1>0, <1>2, <2>1, <2>2, WeightValues
      DEF Inv, TypeOK, BufferFits, MappedType, ModeType, ResetSerial, Adjacent, ZeroShift
  <1>3. CASE ShiftBit(port, val)
    <2>1. val \in {0, 1}
      BY <1>3 DEF ShiftBit, Byte
    <2>2. /\ Shifted(val) \in 0..31
          /\ shift.write_count < 4 =>
               Shifted(val) \in 0..15 /\ Shifted(val) < Weight[shift.write_count + 2]
      BY <2>1, ShiftedValue
    <2>3. shift.write_count \in 0..4 /\ age \in {1, 2}
      BY DEF Inv, TypeOK
    <2>4. CASE shift.write_count = 4
      <3>1. Load(port, Shifted(val)) /\ shift' = ZeroShift /\ age' = 1 /\ age # 1
        BY <1>3, <2>4 DEF ShiftBit, Adjacent
      <3>2. MappedType'
        BY <1>0, <2>2, <3>1, LoadControlType, LoadChr0Type, LoadChr1Type, LoadPrgType DEF Load
      <3>3. QED
        BY <1>0, <3>1, <3>2, WeightValues DEF TypeOK, BufferFits, ZeroShift, MappedType, ModeType
    <2>5. CASE shift.write_count < 4
      <3>1. /\ shift' = [write_count |-> shift.write_count + 1, buffer |-> Shifted(val)]
            /\ UNCHANGED <<cpu_mapper_io, bank_vars, nametables>>
            /\ age' = 1 /\ age # 1
        BY <1>3, <2>3, <2>5 DEF ShiftBit, Adjacent
      <3>2. shift'.write_count = shift.write_count + 1 /\ shift'.buffer = Shifted(val)
        BY <3>1
      <3>3. shift' \in [write_count : 0..4, buffer : 0..15]
        BY <2>2, <2>3, <2>5, <3>1
      <3>4. BufferFits'
        <4>1. (shift.write_count + 1) + 1 = shift.write_count + 2
          BY <2>3
        <4>2. QED
          BY <2>2, <2>5, <3>2, <4>1 DEF BufferFits
      <3>5. MappedType'
        BY <1>0, <3>1 DEF MappedType, bank_vars
      <3>6. QED
        BY <1>0, <3>1, <3>3, <3>4, <3>5 DEF TypeOK, MappedType, ModeType
    <2>6. QED
      BY <2>3, <2>4, <2>5
  <1>4. QED
    BY <1>1, <1>2, <1>3 DEF mmc1_reg_write

LEMMA NextInv == Inv /\ [Next]_vars => Inv'
  <1> SUFFICES ASSUME Inv, [Next]_vars PROVE Inv'
    OBVIOUS
  <1>1. ASSUME NEW port \in Written, NEW val \in Byte, FirstWrite(port, val)
        PROVE  Inv'
    <2>1. port \in Port /\ mmc1_reg_write(port, val) /\ second' \in {None, port} /\ age = 2
      BY <1>1, WrittenAssumption DEF FirstWrite
    <2>2. QED
      BY <2>1, WriteInv DEF Inv, TypeOK, MappedType, ModeType, SecondIsAdjacent
  <1>2. ASSUME NEW val \in Byte, SecondWrite(val)
        PROVE  Inv'
    <2>1. second \in Port /\ mmc1_reg_write(second, val) /\ second' = None
      BY <1>2 DEF SecondWrite, Inv, TypeOK
    <2>2. QED
      BY <2>1, WriteInv DEF Inv, TypeOK, MappedType, ModeType, SecondIsAdjacent
  <1>3. CASE Fetch
    BY <1>3 DEF Fetch, Inv, TypeOK, BufferFits, SecondIsAdjacent, bank_vars
  <1>4. ASSUME NEW val \in {0, 1}, prg_ram_writes(val)
        PROVE  Inv'
    BY <1>4 DEF prg_ram_writes, Inv, TypeOK, BufferFits, SecondIsAdjacent, bank_vars
  <1>5. CASE UNCHANGED vars
    BY <1>5 DEF vars, mapper_vars, Inv, TypeOK, BufferFits, SecondIsAdjacent
  <1>6. QED
    BY <1>1, <1>2, <1>3, <1>4, <1>5 DEF Next

(* The mapper's state keeps its types: write_count never reaches 5 between *)
(* writes and buffer holds only bits that were written.                    *)
THEOREM TypeCorrect == Spec => []TypeOK
  <1>1. Inv => TypeOK
    BY DEF Inv
  <1>2. QED
    BY <1>1, InitInv, NextInv, PTL DEF Spec

(* In every reachable state write_count and buffer agree.                  *)
LEMMA InvHolds == Spec => []Inv
  BY InitInv, NextInv, PTL DEF Spec

-----------------------------------------------------------------------------
(* The banks.                                                              *)

PrgFine(slot) == prg_banks[slot] < PrgBanks \/ HalfPair(slot, prg_banks[slot], PrgBanks)

ChrFine(slot, bank) ==
  \/ bank.number < ChrSize(bank.mem)
  \/ HalfPair(slot, bank.number, ChrSize(bank.mem))
  \/ CountedInRam(bank)

(* Less than chr_banks is a bank of the memory that is switched, or one    *)
(* counted in the other.                                                   *)
LEMMA SwitchedFine ==
  ASSUME NEW slot, NEW number \in Nat, number < chr_banks
  PROVE  ChrFine(slot, Bank(SwitchedMemory, number))
  BY ChrBanksAssumption DEF ChrFine, Bank, ChrSize, CountedInRam, SwitchedMemory, chr_banks

(* So is the second of a pair, but for a memory of one bank.               *)
LEMMA SecondFine ==
  ASSUME NEW number \in Nat, number < chr_banks \/ (chr_banks = 1 /\ number = 1)
  PROVE  ChrFine(2, Bank(SwitchedMemory, number))
  <1>1. CASE number < chr_banks
    BY <1>1, SwitchedFine
  <1>2. CASE chr_banks = 1 /\ number = 1 /\ SwitchedMemory = "rom"
    BY <1>2, ChrBanksAssumption DEF ChrFine, Bank, ChrSize, SwitchedMemory
  <1>3. CASE chr_banks = 1 /\ number = 1 /\ SwitchedMemory = "ram"
    BY <1>3, ChrBanksAssumption DEF ChrFine, Bank, ChrSize, HalfPair, SwitchedMemory, chr_banks
  <1>4. QED
    BY <1>1, <1>2, <1>3, MemorySizes

LEMMA BanksExistParts ==
  BanksExist <=> /\ PrgFine(1) /\ PrgFine(2)
                 /\ ChrFine(1, pattern_tables[1]) /\ ChrFine(2, pattern_tables[2])
  <1>1. 1 \in 1..2 /\ 2 \in 1..2 /\ \A i \in 1..2 : i = 1 \/ i = 2
    OBVIOUS
  <1>2. QED
    BY <1>1 DEF BanksExist, PrgFine, ChrFine

LEMMA InitBanks == ASSUME Init PROVE BanksExist
  <1>1. PrgFine(1) /\ PrgFine(2)
    BY MemorySizes DEF Init, mapper_001, PrgFine
  <1>2. CASE ChrRomBanks > 0
    <2>1. /\ pattern_tables[1] = Bank("rom", 0) /\ ChrRomBanks > 1
          /\ \/ pattern_tables[2] = Bank("rom", 1)
             \/ pattern_tables[2] = Bank("ram", 1) /\ ChrRamBanks = 2
      BY <1>2, ChrBanksAssumption DEF Init, mapper_001, SwitchedMemory
    <2>2. QED
      BY <1>1, <2>1, BanksExistParts, MemorySizes DEF ChrFine, ChrSize, Bank
  <1>3. CASE ChrRomBanks = 0
    <2>1. /\ pattern_tables[1] = Bank("ram", 0) /\ ChrRamBanks > 0
          /\ \/ pattern_tables[2] = Bank("ram", 0)
             \/ pattern_tables[2] = Bank("ram", 1) /\ ChrRamBanks = 2
      BY <1>3, ChrBanksAssumption DEF Init, mapper_001, SwitchedMemory
    <2>2. QED
      BY <1>1, <2>1, BanksExistParts, MemorySizes DEF ChrFine, ChrSize, Bank
  <1>4. QED
    BY <1>2, <1>3, MemorySizes

LEMMA LoadPrgBanks ==
  ASSUME Inv, BanksExist, NEW value \in 0..31, LoadPrg(value)
  PROVE  BanksExist'
  <1> DEFINE bank == normalise_any_out_of_bounds_bank(value % 16, PrgBanks)
  <1>1. bank \in Nat /\ bank < PrgBanks
    BY NormalisedBank, MemorySizes
  <1>2. prg_banks' = SwitchedPrg(bank) /\ pattern_tables' = pattern_tables
    BY DEF LoadPrg
  <1> HIDE DEF bank
  <1>3. /\ 2 * (bank \div 2) < PrgBanks
        /\ \/ (2 * (bank \div 2)) + 1 < PrgBanks
           \/ PrgBanks = 1 /\ (2 * (bank \div 2)) + 1 = 1
    BY <1>1, MemorySizes, PairExists
  <1>4. PrgFine(1)' /\ PrgFine(2)'
    BY <1>1, <1>2, <1>3, MemorySizes, BanksExistParts DEF SwitchedPrg, PrgFine, HalfPair
  <1>5. QED
    BY <1>2, <1>4, BanksExistParts DEF BanksExist, PrgFine

LEMMA LoadChr0Banks ==
  ASSUME Inv, BanksExist, NEW value \in 0..31, LoadChr0(value)
  PROVE  BanksExist'
  <1> DEFINE bank == normalise_any_out_of_bounds_bank(value, chr_banks)
             half == bank \div 2
             chr == cpu_mapper_io.chr_bank_size
  <1>1. bank \in Nat /\ bank < chr_banks
    BY NormalisedBank, MemorySizes
  <1>2. /\ mmc1_set_chr_0_bank(IF chr = 8 THEN half ELSE bank)
        /\ prg_banks' = prg_banks
    BY DEF LoadChr0
  <1> HIDE DEF bank
  <1>3. /\ half \in Nat /\ 2 * half \in Nat /\ 2 * half < chr_banks
        /\ (2 * half) + 1 \in Nat
        /\ (2 * half) + 1 < chr_banks \/ (chr_banks = 1 /\ (2 * half) + 1 = 1)
    BY <1>1, MemorySizes, PairExists
  <1>4. /\ ChrFine(1, Bank(SwitchedMemory, bank))
        /\ ChrFine(1, Bank(SwitchedMemory, 2 * half))
        /\ ChrFine(2, Bank(SwitchedMemory, (2 * half) + 1))
    BY <1>1, <1>3, SwitchedFine, SecondFine
  <1> HIDE DEF half
  <1>5. pattern_tables \in PatternTable \X PatternTable
    BY DEF Inv, TypeOK
  <1>6. ChrFine(1, pattern_tables'[1]) /\ ChrFine(2, pattern_tables'[2])
    <2>1. pattern_tables' \in
            { [pattern_tables EXCEPT ![1] = Bank(SwitchedMemory, bank)],
              << Bank(SwitchedMemory, 2 * half), Bank(SwitchedMemory, (2 * half) + 1) >>,
              pattern_tables }
      <3>1. CASE chr = 8
        BY <1>2, <3>1, 8 # 4 DEF mmc1_set_chr_0_bank
      <3>2. CASE chr = 4
        BY <1>2, <3>2, 8 # 4 DEF mmc1_set_chr_0_bank
      <3>3. CASE chr # 8 /\ chr # 4
        BY <1>2, <3>3 DEF mmc1_set_chr_0_bank
      <3>4. QED
        BY <3>1, <3>2, <3>3
    <2>2. ChrFine(1, pattern_tables[1]) /\ ChrFine(2, pattern_tables[2])
      BY BanksExistParts
    <2>3. /\ pattern_tables'[1] \in { Bank(SwitchedMemory, bank),
                 Bank(SwitchedMemory, 2 * half), pattern_tables[1] }
          /\ pattern_tables'[2] \in { Bank(SwitchedMemory, (2 * half) + 1), pattern_tables[2] }
      BY <1>5, <2>1
    <2>4. QED
      BY <1>4, <2>2, <2>3
  <1>7. QED
    BY <1>2, <1>6, BanksExistParts DEF BanksExist, PrgFine, ChrFine, ChrSize, CountedInRam, HalfPair

LEMMA LoadChr1Banks ==
  ASSUME Inv, BanksExist, NEW value \in 0..31, LoadChr1(value)
  PROVE  BanksExist'
  <1> DEFINE bank == normalise_any_out_of_bounds_bank(value, chr_banks)
  <1>1. bank \in Nat /\ bank < chr_banks
    BY NormalisedBank, MemorySizes
  <1>2. /\ pattern_tables' \in
             { [pattern_tables EXCEPT ![2] = Bank(SwitchedMemory, bank)], pattern_tables }
        /\ prg_banks' = prg_banks
    BY DEF LoadChr1, mmc1_set_chr_1_bank
  <1>3. ChrFine(2, Bank(SwitchedMemory, bank))
    BY <1>1, SwitchedFine
  <1> HIDE DEF bank
  <1>4. pattern_tables \in PatternTable \X PatternTable
    BY DEF Inv, TypeOK
  <1>5. /\ pattern_tables'[1] = pattern_tables[1]
        /\ pattern_tables'[2] \in { Bank(SwitchedMemory, bank), pattern_tables[2] }
    BY <1>2, <1>4
  <1>6. QED
    BY <1>2, <1>3, <1>5, BanksExistParts DEF BanksExist, PrgFine, ChrFine, ChrSize, CountedInRam, HalfPair

LEMMA WriteBanks ==
  ASSUME Inv, BanksExist, NEW port \in Port, NEW val \in Byte,
         mmc1_reg_write(port, val)
  PROVE  BanksExist'
  <1>1. CASE IgnoreAdjacent
    BY <1>1 DEF IgnoreAdjacent, bank_vars, BanksExist
  <1>2. CASE ResetSerial(val)
    <2>1. /\ prg_banks'[1] = prg_banks[1] /\ prg_banks'[2] = LastBank
          /\ pattern_tables' = pattern_tables
      BY <1>2 DEF ResetSerial, Inv, TypeOK
    <2>2. QED
      BY <2>1, MemorySizes, BanksExistParts DEF BanksExist, PrgFine, ChrFine, ChrSize, CountedInRam, HalfPair
  <1>3. CASE ShiftBit(port, val)
    <2>1. val \in {0, 1} /\ Shifted(val) \in 0..31
      BY <1>3, ShiftedValue DEF ShiftBit, Byte
    <2>2. CASE UNCHANGED bank_vars
      BY <2>2 DEF bank_vars, BanksExist
    <2>3. CASE LoadChr0(Shifted(val))
      BY <2>1, <2>3, LoadChr0Banks
    <2>4. CASE LoadChr1(Shifted(val))
      BY <2>1, <2>4, LoadChr1Banks
    <2>5. CASE LoadPrg(Shifted(val))
      BY <2>1, <2>5, LoadPrgBanks
    <2>6. QED
      BY <1>3, <2>2, <2>3, <2>4, <2>5 DEF ShiftBit, Load, LoadControl, bank_vars
  <1>4. QED
    BY <1>1, <1>2, <1>3 DEF mmc1_reg_write

(* Whatever the program writes, on every board: a bank that is mapped      *)
(* exists, or is the one behind a single bank, or a bank of ROM counted in *)
(* RAM.                                                                    *)
THEOREM BanksAlwaysExist == Spec => []BanksExist
  <1>1. Init => BanksExist
    BY InitBanks
  <1>2. Inv /\ BanksExist /\ [Next]_vars => BanksExist'
    <2> SUFFICES ASSUME Inv, BanksExist, [Next]_vars PROVE BanksExist'
      OBVIOUS
    <2>1. ASSUME NEW port \in Written, NEW val \in Byte, FirstWrite(port, val)
          PROVE  BanksExist'
      BY <2>1, WrittenAssumption, WriteBanks DEF FirstWrite
    <2>2. ASSUME NEW val \in Byte, SecondWrite(val)
          PROVE  BanksExist'
      BY <2>2, WriteBanks DEF SecondWrite, Inv, TypeOK
    <2>3. CASE Fetch
      BY <2>3 DEF Fetch, bank_vars, BanksExist
    <2>4. ASSUME NEW val \in {0, 1}, prg_ram_writes(val)
          PROVE  BanksExist'
      BY <2>4 DEF prg_ram_writes, bank_vars, BanksExist
    <2>5. CASE UNCHANGED vars
      BY <2>5 DEF vars, mapper_vars, BanksExist
    <2>6. QED
      BY <2>1, <2>2, <2>3, <2>4, <2>5 DEF Next
  <1>3. QED
    BY <1>1, <1>2, InvHolds, PTL DEF Spec

-----------------------------------------------------------------------------
(* MMC1 AND ITS REGISTERS                                                   *)


(* The value of the first n bits of b.                                     *)
Prefix(b, n) ==
  (IF n > 0 THEN b[1] ELSE 0) + (IF n > 1 THEN 2 * b[2] ELSE 0)
    + (IF n > 2 THEN 4 * b[3] ELSE 0) + (IF n > 3 THEN 8 * b[4] ELSE 0)
    + (IF n > 4 THEN 16 * b[5] ELSE 0)

(* The bits sent are the bits in buffer.                                   *)
SentIsCollected ==
  /\ sent \in Seq({0, 1})
  /\ \/ Len(sent) = shift.write_count
     \/ Len(sent) = 5 /\ shift.write_count = 0
  /\ shift.buffer = Prefix(sent, shift.write_count)

HistoryInv ==
  /\ Inv
  /\ word \in [{"chr0", "chr1", "prg"} -> Nat]
  /\ SentIsCollected

LEMMA AppendBit ==
  ASSUME NEW b \in Seq({0, 1}), NEW n \in 0..4, Len(b) = n, NEW bit \in {0, 1}
  PROVE  /\ Append(b, bit) \in Seq({0, 1})
         /\ Len(Append(b, bit)) = n + 1
         /\ Prefix(Append(b, bit), n + 1) = Prefix(b, n) + (bit * Weight[n + 1])
  <1> DEFINE s == Append(b, bit)
  <1>1. /\ s \in Seq({0, 1}) /\ Len(s) = n + 1 /\ s[n + 1] = bit
        /\ \A i \in 1..n : s[i] = b[i]
    OBVIOUS
  <1>2. /\ \A i \in 1..(n + 1) : s[i] \in {0, 1}
        /\ \A i \in 1..n : b[i] \in {0, 1}
    BY <1>1
  <1> HIDE DEF s
  <1> SUFFICES Prefix(s, n + 1) = Prefix(b, n) + (bit * Weight[n + 1])
    BY <1>1 DEF s
  <1>3. CASE n = 0
    <2>1. /\ s[1] = bit
      BY <1>1, <1>2, <1>3
    <2>2. Prefix(s, 1) = s[1]
      BY <2>1 DEF Prefix
    <2>3. Prefix(b, 0) = 0
      BY <2>1 DEF Prefix
    <2>4. QED
      BY <1>3, <2>1, <2>2, <2>3, WeightValues
  <1>4. CASE n = 1
    <2>1. /\ s[2] = bit
          /\ s[1] = b[1] /\ b[1] \in {0, 1}
      BY <1>1, <1>2, <1>4
    <2>2. Prefix(s, 2) = s[1] + (2 * s[2])
      BY <2>1 DEF Prefix
    <2>3. Prefix(b, 1) = b[1]
      BY <2>1 DEF Prefix
    <2>4. QED
      BY <1>4, <2>1, <2>2, <2>3, WeightValues
  <1>5. CASE n = 2
    <2>1. /\ s[3] = bit
          /\ s[1] = b[1] /\ b[1] \in {0, 1}
          /\ s[2] = b[2] /\ b[2] \in {0, 1}
      BY <1>1, <1>2, <1>5
    <2>2. Prefix(s, 3) = s[1] + (2 * s[2]) + (4 * s[3])
      BY <2>1 DEF Prefix
    <2>3. Prefix(b, 2) = b[1] + (2 * b[2])
      BY <2>1 DEF Prefix
    <2>4. QED
      BY <1>5, <2>1, <2>2, <2>3, WeightValues
  <1>6. CASE n = 3
    <2>1. /\ s[4] = bit
          /\ s[1] = b[1] /\ b[1] \in {0, 1}
          /\ s[2] = b[2] /\ b[2] \in {0, 1}
          /\ s[3] = b[3] /\ b[3] \in {0, 1}
      BY <1>1, <1>2, <1>6
    <2>2. Prefix(s, 4) = s[1] + (2 * s[2]) + (4 * s[3]) + (8 * s[4])
      BY <2>1 DEF Prefix
    <2>3. Prefix(b, 3) = b[1] + (2 * b[2]) + (4 * b[3])
      BY <2>1 DEF Prefix
    <2>4. QED
      BY <1>6, <2>1, <2>2, <2>3, WeightValues
  <1>7. CASE n = 4
    <2>1. /\ s[5] = bit
          /\ s[1] = b[1] /\ b[1] \in {0, 1}
          /\ s[2] = b[2] /\ b[2] \in {0, 1}
          /\ s[3] = b[3] /\ b[3] \in {0, 1}
          /\ s[4] = b[4] /\ b[4] \in {0, 1}
      BY <1>1, <1>2, <1>7
    <2>2. Prefix(s, 5) = s[1] + (2 * s[2]) + (4 * s[3]) + (8 * s[4]) + (16 * s[5])
      BY <2>1 DEF Prefix
    <2>3. Prefix(b, 4) = b[1] + (2 * b[2]) + (4 * b[3]) + (8 * b[4])
      BY <2>1 DEF Prefix
    <2>4. QED
      BY <1>7, <2>1, <2>2, <2>3, WeightValues
  <1>8. QED
    BY <1>3, <1>4, <1>5, <1>6, <1>7

LEMMA CompleteValue ==
  ASSUME NEW b \in Seq({0, 1}), Len(b) = 5
  PROVE  Registers!Value(b) = Prefix(b, 5)
  <1>1. \A i \in 1..5 : b[i] \in {0, 1}
    BY ElementOfSeq
  <1>2. /\ b[1] \in {0, 1} /\ b[2] \in {0, 1} /\ b[3] \in {0, 1}
        /\ b[4] \in {0, 1} /\ b[5] \in {0, 1}
    BY <1>1
  <1>3. QED
    BY <1>2 DEF Prefix, Registers!Value

(* The next bit goes on top of the collected ones, or starts a new value.  *)
LEMMA SentBit ==
  ASSUME HistoryInv, NEW val \in {0, 1}
  PROVE  /\ Sent(val) \in Seq({0, 1})
         /\ Len(Sent(val)) = shift.write_count + 1
         /\ Shifted(val) = Prefix(Sent(val), shift.write_count + 1)
         /\ Sent(val) = Append(IF Len(sent) = 5 THEN <<>> ELSE sent, val)
  <1> DEFINE fresh == IF Len(sent) = 5 THEN <<>> ELSE sent
  <1>1. shift.write_count \in 0..4
    BY DEF HistoryInv, Inv, TypeOK
  <1>2. /\ fresh \in Seq({0, 1}) /\ Len(fresh) = shift.write_count
        /\ Prefix(fresh, shift.write_count) = shift.buffer
    <2>1. CASE Len(sent) = 5
      BY <1>1, <2>1 DEF HistoryInv, SentIsCollected, Prefix
    <2>2. CASE Len(sent) # 5
      BY <1>1, <2>2 DEF HistoryInv, SentIsCollected
    <2>3. QED
      BY <2>1, <2>2
  <1>3. Sent(val) = Append(fresh, val)
    BY DEF Sent
  <1> HIDE DEF fresh
  <1>4. /\ Append(fresh, val) \in Seq({0, 1})
        /\ Len(Append(fresh, val)) = shift.write_count + 1
        /\ Prefix(Append(fresh, val), shift.write_count + 1)
             = Prefix(fresh, shift.write_count) + (val * Weight[shift.write_count + 1])
    BY <1>1, <1>2, AppendBit
  <1>5. Shifted(val) = shift.buffer + (val * Weight[shift.write_count + 1])
    BY ShiftedValue DEF HistoryInv
  <1>6. QED
    BY <1>2, <1>3, <1>4, <1>5 DEF fresh

-----------------------------------------------------------------------------
(* The modes.                                                              *)

Mode == [mirroring |-> Layout, prg |-> PrgMode, chr |-> ChrMode]

(* The four name tables as a row.                                          *)
Row(tables) == [ i \in 1..4 |-> tables[i - 1] ]

LEMMA MirroringRows ==
  /\ Row(set_nametable_mirroring("SINGLE_SCREEN_A")) = <<"A", "A", "A", "A">>
  /\ Row(set_nametable_mirroring("SINGLE_SCREEN_B")) = <<"B", "B", "B", "B">>
  /\ Row(set_nametable_mirroring("VERTICAL")) = <<"A", "B", "A", "B">>
  /\ Row(set_nametable_mirroring("HORIZONTAL")) = <<"A", "A", "B", "B">>
  BY DEF Row, set_nametable_mirroring

LEMMA InitMode ==
  ASSUME HistoryInit
  PROVE  HistoryInv /\ Registers!Init
  <1>1. HistoryInv
    BY InitInv DEF HistoryInit, Init, HistoryInv, SentIsCollected, Prefix, ZeroShift, Port,
                   Registers!Unset
  <1>2. Layout = Row(nametables)
    BY DEF Layout, Row
  <1>3. Layout = IF HeaderMirroring = "VERTICAL" THEN <<"A", "B", "A", "B">> ELSE <<"A", "A", "B", "B">>
    BY <1>2, MirroringRows, HeaderAssumption DEF HistoryInit, Init
  <1>4. PrgMode = "unset" /\ ChrMode = "unset"
    BY DEF HistoryInit, Init, PrgMode, ChrMode, Prg
  <1>5. Port \ {"control"} = {"chr0", "chr1", "prg"}
    BY DEF Port
  <1>6. QED
    BY <1>1, <1>3, <1>4, <1>5 DEF HistoryInit, Registers!Init

LEMMA ControlModes ==
  ASSUME MappedType, NEW value \in 0..31, LoadControl(value)
  PROVE  Mode' = Registers!Modes(value)
  <1> DEFINE low == Bit(value, 2) = 0
             high == Bit(value, 2) = 1
             prg == IF Bit(value, 3) = 0 THEN 32 ELSE 16
             chr == IF Bit(value, 4) = 0 THEN 8 ELSE 4
  <1>1. cpu_mapper_io' = [cpu_mapper_io EXCEPT
          !.prg_low_bank_fixed = low, !.prg_high_bank_fixed = high,
          !.prg_rom_bank_size = prg, !.chr_bank_size = chr]
    BY DEF LoadControl
  <1> HIDE DEF low, high, prg, chr
  <1>2. /\ cpu_mapper_io'.prg_high_bank_fixed = high
        /\ cpu_mapper_io'.prg_rom_bank_size = prg
        /\ cpu_mapper_io'.chr_bank_size = chr
    BY <1>1 DEF MappedType, ModeType
  <1>3. /\ Bit(value, 2) = (value \div 4) % 2 /\ Bit(value, 3) = (value \div 8) % 2
        /\ Bit(value, 4) = (value \div 16) % 2
    BY DEF Bit, Weight
  <1>4. PrgMode' = IF (value \div 8) % 2 = 0 THEN "switch32"
                   ELSE IF (value \div 4) % 2 = 0 THEN "fixLow" ELSE "fixHigh"
    <2>1. PICK h \in {0, 1}, f \in {0, 1} : h = (value \div 4) % 2 /\ f = (value \div 8) % 2
      OBVIOUS
    <2>2. /\ h = 1 => cpu_mapper_io'.prg_high_bank_fixed
          /\ h = 0 => ~cpu_mapper_io'.prg_high_bank_fixed
          /\ cpu_mapper_io'.prg_rom_bank_size = IF f = 0 THEN 32 ELSE 16
      <3>1. (h = 1 => high) /\ (h = 0 => ~high)
        BY <1>3, <2>1 DEF high
      <3>2. cpu_mapper_io'.prg_rom_bank_size = IF f = 0 THEN 32 ELSE 16
        BY <1>2, <1>3, <2>1 DEF prg
      <3>3. QED
        BY <1>2, <3>1, <3>2, Zenon
    <2>3. PrgMode' = IF f = 0 THEN "switch32" ELSE IF h = 0 THEN "fixLow" ELSE "fixHigh"
      <3>1. CASE f = 0
        BY <2>2, <3>1 DEF PrgMode, Prg
      <3>2. CASE f = 1
        <4>1. Prg' = 16
          BY <2>2, <3>2 DEF Prg
        <4>2. PrgMode' = IF cpu_mapper_io'.prg_high_bank_fixed THEN "fixHigh" ELSE "fixLow"
          BY <4>1 DEF PrgMode
        <4>3. CASE h = 0
          <5>1. ~cpu_mapper_io'.prg_high_bank_fixed
            BY <2>2, <4>3
          <5>2. PrgMode' = "fixLow"
            BY <4>2, <5>1, Zenon
          <5>3. QED
            BY <3>2, <4>3, <5>2
        <4>4. CASE h = 1
          <5>1. cpu_mapper_io'.prg_high_bank_fixed
            BY <2>2, <4>4
          <5>2. PrgMode' = "fixHigh"
            BY <4>2, <5>1, Zenon
          <5>3. QED
            BY <3>2, <4>4, <5>2
        <4>5. QED
          BY <2>1, <4>3, <4>4
      <3>3. QED
        BY <2>1, <3>1, <3>2
    <2>4. QED
      BY <2>1, <2>3
  <1>5. ChrMode' = IF value \div 16 = 0 THEN "switch8" ELSE "switch4"
    BY <1>2, <1>3 DEF ChrMode, chr
  <1>6. Layout' = Registers!Mirrorings[(value % 4) + 1]
    <2>1. Layout' = Row(set_nametable_mirroring(Mirroring(value)))
      BY DEF LoadControl, Layout, Row
    <2>2. value % 4 \in 0..3
      OBVIOUS
    <2>3. CASE value % 4 = 0
      BY <2>1, <2>3, MirroringRows DEF Mirroring, Registers!Mirrorings
    <2>4. CASE value % 4 = 1
      BY <2>1, <2>4, MirroringRows DEF Mirroring, Registers!Mirrorings
    <2>5. CASE value % 4 = 2
      BY <2>1, <2>5, MirroringRows DEF Mirroring, Registers!Mirrorings
    <2>6. CASE value % 4 = 3
      BY <2>1, <2>6, MirroringRows DEF Mirroring, Registers!Mirrorings
    <2>7. QED
      BY <2>2, <2>3, <2>4, <2>5, <2>6
  <1>7. QED
    BY <1>4, <1>5, <1>6 DEF Mode, Registers!Modes

LEMMA KeptModes ==
  ASSUME MappedType, NEW value \in 0..31,
         LoadChr0(value) \/ LoadChr1(value) \/ LoadPrg(value)
  PROVE  Mode' = Mode
  <1>1. nametables' = nametables
    BY DEF LoadChr0, LoadChr1, LoadPrg
  <1>2. /\ cpu_mapper_io'.prg_high_bank_fixed = cpu_mapper_io.prg_high_bank_fixed
        /\ cpu_mapper_io'.prg_rom_bank_size = cpu_mapper_io.prg_rom_bank_size
        /\ cpu_mapper_io'.chr_bank_size = cpu_mapper_io.chr_bank_size
    <2>1. CASE cpu_mapper_io' = cpu_mapper_io
      BY <2>1
    <2>2. CASE LoadPrg(value)
      BY <2>2 DEF LoadPrg, MappedType, ModeType
    <2>3. QED
      BY <2>1, <2>2 DEF LoadChr0, LoadChr1
  <1>3. QED
    BY <1>1, <1>2 DEF Mode, Layout, PrgMode, ChrMode, Prg

LEMMA ResetMode ==
  ASSUME MappedType, NEW val \in Byte, ResetSerial(val)
  PROVE  Mode' = [Mode EXCEPT !.prg = "fixHigh"]
  <1>1. /\ cpu_mapper_io'.prg_high_bank_fixed = TRUE
        /\ cpu_mapper_io'.prg_rom_bank_size = 16
        /\ cpu_mapper_io'.chr_bank_size = cpu_mapper_io.chr_bank_size
        /\ nametables' = nametables
    BY DEF ResetSerial, MappedType, ModeType
  <1>2. PrgMode' = "fixHigh" /\ ChrMode' = ChrMode /\ Layout' = Layout
    BY <1>1 DEF PrgMode, ChrMode, Layout, Prg
  <1>3. QED
    BY <1>2 DEF Mode

-----------------------------------------------------------------------------
(* The steps.                                                              *)

(* The writes of both kinds keep HistoryInv, whichever of their parts they *)
(* take, and the ones the mapper does not ignore are steps of Registers.   *)
LEMMA AcceptedWrite ==
  ASSUME HistoryInv, NEW port \in Port, NEW val \in Byte, age = 2,
         mmc1_reg_write(port, val), Remember(port, val), sent' = Sent(val)
  PROVE  /\ word' \in [{"chr0", "chr1", "prg"} -> Nat]
         /\ SentIsCollected'
         /\ Registers!Next
  <1>1. MappedType /\ shift.write_count \in 0..4
    BY DEF HistoryInv, Inv, TypeOK, MappedType, ModeType
  <1>2. DOMAIN word = {"chr0", "chr1", "prg"}
    BY DEF HistoryInv
  <1>3. CASE ResetSerial(val)
    <2>1. val >= 128 /\ sent' = <<>> /\ shift' = ZeroShift
      BY <1>3 DEF ResetSerial, Sent
    <2>2. Loaded(port, val) = {}
      BY <2>1 DEF Loaded, Byte
    <2>3. word' = word
      BY <1>2, <2>2 DEF Remember, HistoryInv
    <2>4. Mode' = [Mode EXCEPT !.prg = "fixHigh"]
      BY <1>1, <1>3, ResetMode
    <2>5. Registers!Clear
      BY <2>1, <2>3, <2>4 DEF Registers!Clear, Mode
    <2>6. SentIsCollected'
      BY <2>1 DEF SentIsCollected, ZeroShift, Prefix
    <2>7. QED
      BY <2>3, <2>5, <2>6 DEF HistoryInv, Registers!Next
  <1>4. CASE ShiftBit(port, val)
    <2>1. val \in {0, 1} /\ age' = 1
      BY <1>4 DEF ShiftBit, Byte
    <2>2. /\ sent' \in Seq({0, 1})
          /\ Len(sent') = shift.write_count + 1
          /\ Shifted(val) = Prefix(sent', shift.write_count + 1)
          /\ Registers!Send(val)
      BY <2>1, SentBit DEF Registers!Send
    <2>3. Shifted(val) \in 0..31
      BY <2>1, ShiftedValue DEF HistoryInv
    <2>4. CASE shift.write_count < 4
      <3>1. /\ shift' = [write_count |-> shift.write_count + 1, buffer |-> Shifted(val)]
            /\ UNCHANGED <<cpu_mapper_io, nametables>>
        BY <1>1, <1>4, <2>4 DEF ShiftBit
      <3>2. Loaded(port, val) = {}
        BY <1>1, <2>4 DEF Loaded
      <3>3. word' = word
        BY <1>2, <3>2 DEF Remember, HistoryInv
      <3>4. Mode' = Mode
        BY <3>1 DEF Mode, Layout, PrgMode, ChrMode, Prg
      <3>5. Registers!Collect
        BY <1>1, <2>1, <2>2, <2>4, <3>3, <3>4 DEF Registers!Collect, Mode
      <3>6. SentIsCollected'
        BY <2>2, <3>1 DEF SentIsCollected
      <3>7. QED
        BY <3>3, <3>5, <3>6 DEF HistoryInv, Registers!Next
    <2>5. CASE shift.write_count = 4
      <3>1. Load(port, Shifted(val)) /\ shift' = ZeroShift
        BY <1>4, <2>5 DEF ShiftBit
      <3>2. Loaded(port, val) = {port}
        BY <2>1, <2>5 DEF Loaded
      <3>3. Len(sent') = 5 /\ Shifted(val) = Prefix(sent', 5)
        BY <2>2, <2>5
      <3>4. Shifted(val) = Registers!Value(sent')
        <4>1. sent' \in Seq({0, 1})
          BY <2>2
        <4>2. QED
          BY <3>3, <4>1, CompleteValue
      <3>5. SentIsCollected'
        <4>1. shift'.write_count = 0 /\ shift'.buffer = 0 /\ sent' \in Seq({0, 1})
          BY <2>2, <3>1 DEF ZeroShift
        <4>2. Prefix(sent', 0) = 0
          BY DEF Prefix
        <4>3. QED
          BY <3>3, <4>1, <4>2 DEF SentIsCollected
      <3>6. Registers!Wired(port, Shifted(val)) \in Nat
        BY <2>3, MemorySizes DEF Registers!Wired
      <3>7. word' = [p \in {"chr0", "chr1", "prg"} |->
                      IF p = port THEN Registers!Wired(p, Shifted(val)) ELSE word[p]]
        BY <1>2, <3>2 DEF Remember
      <3>8. word' \in [{"chr0", "chr1", "prg"} -> Nat]
        BY <3>6, <3>7 DEF HistoryInv
      <3>9. CASE port = "control"
        <4>1. word' = word
          BY <3>7, <3>9 DEF HistoryInv
        <4>2. Mode' = Registers!Modes(Shifted(val))
          BY <1>1, <2>3, <3>1, <3>9, ControlModes DEF Load
        <4>3. Registers!Complete
          BY <2>1, <2>2, <3>3, <3>4, <4>1, <4>2 DEF Registers!Complete, Mode
        <4>4. QED
          BY <3>5, <3>8, <4>3 DEF Registers!Next
      <3>10. CASE port # "control"
        <4>1. port \in {"chr0", "chr1", "prg"}
          BY <3>10 DEF Port
        <4>2. word' = [word EXCEPT ![port] = Registers!Wired(port, Registers!Value(sent'))]
          BY <3>4, <3>7, <4>1 DEF HistoryInv
        <4>3. Mode' = Mode
          BY <1>1, <2>3, <3>1, <3>10, KeptModes DEF Load
        <4>4. Registers!Complete
          BY <1>2, <2>1, <2>2, <3>3, <4>1, <4>2, <4>3 DEF Registers!Complete, Mode
        <4>5. QED
          BY <3>5, <3>8, <4>4 DEF Registers!Next
      <3>11. QED
        BY <3>9, <3>10
    <2>6. QED
      BY <1>1, <2>4, <2>5
  <1>5. ~IgnoreAdjacent
    BY DEF IgnoreAdjacent, Adjacent
  <1>6. QED
    BY <1>3, <1>4, <1>5 DEF mmc1_reg_write

LEMMA Stutter ==
  ASSUME HistoryInv, UNCHANGED <<shift, cpu_mapper_io, nametables, word, sent>>
  PROVE  /\ word' \in [{"chr0", "chr1", "prg"} -> Nat]
         /\ SentIsCollected'
         /\ UNCHANGED Registers!registers
  <1>1. Layout' = Layout /\ PrgMode' = PrgMode /\ ChrMode' = ChrMode
    BY DEF Layout, PrgMode, ChrMode, Prg
  <1>2. QED
    BY <1>1 DEF HistoryInv, SentIsCollected, Registers!registers

LEMMA HistoryStep ==
  HistoryInv /\ [HistoryNext]_history_vars => HistoryInv' /\ [Registers!Next]_(Registers!registers)
  <1> SUFFICES ASSUME HistoryInv, [HistoryNext]_history_vars
               PROVE  HistoryInv' /\ [Registers!Next]_(Registers!registers)
    OBVIOUS
  <1>1. [Next]_vars
    BY DEF HistoryNext, Next, history_vars
  <1>2. Inv'
    BY <1>1, NextInv DEF HistoryInv
  <1>3. SUFFICES /\ word' \in [{"chr0", "chr1", "prg"} -> Nat]
                 /\ SentIsCollected'
                 /\ [Registers!Next]_(Registers!registers)
    BY <1>2 DEF HistoryInv
  <1>4. ASSUME NEW port \in Written, NEW val \in Byte,
               FirstWrite(port, val), Remember(port, val), sent' = Sent(val)
        PROVE  /\ word' \in [{"chr0", "chr1", "prg"} -> Nat]
               /\ SentIsCollected' /\ Registers!Next
    <2>1. port \in Port /\ age = 2 /\ mmc1_reg_write(port, val)
      BY <1>4, WrittenAssumption DEF FirstWrite
    <2>2. QED
      BY <1>4, <2>1, AcceptedWrite
  <1>5. ASSUME NEW val \in Byte,
               SecondWrite(val), Remember(second, val), sent' = sent
        PROVE  UNCHANGED <<shift, cpu_mapper_io, nametables, word, sent>>
    <2>1. age = 1 /\ IgnoreAdjacent
      BY <1>5 DEF SecondWrite, mmc1_reg_write, ResetSerial, ShiftBit, Adjacent,
                  HistoryInv, Inv, SecondIsAdjacent
    <2>2. age' # 1
      BY <2>1 DEF IgnoreAdjacent
    <2>3. word' = word
      BY <1>5, <2>2 DEF Remember, Loaded, HistoryInv
    <2>4. QED
      BY <1>5, <2>1, <2>3 DEF IgnoreAdjacent
  <1>6. ASSUME Fetch, UNCHANGED <<word, stale, sent>>
        PROVE  UNCHANGED <<shift, cpu_mapper_io, nametables, word, sent>>
    BY <1>6 DEF Fetch
  <1>7. ASSUME NEW val \in {0, 1}, prg_ram_writes(val), UNCHANGED <<word, stale, sent>>
        PROVE  UNCHANGED <<shift, cpu_mapper_io, nametables, word, sent>>
    BY <1>7 DEF prg_ram_writes
  <1>8. ASSUME UNCHANGED history_vars
        PROVE  UNCHANGED <<shift, cpu_mapper_io, nametables, word, sent>>
    BY <1>8 DEF history_vars, vars, mapper_vars
  <1>9. QED
    BY <1>4, <1>5, <1>6, <1>7, <1>8, Stutter DEF HistoryNext

(* Every behaviour of the mapper is one of Mmc1Registers: five bits load   *)
(* one register, whatever resets and double writes came before.            *)
THEOREM RegistersImplemented == HistorySpec => ImplementsRegisters
  BY InitMode, HistoryStep, PTL DEF HistorySpec, ImplementsRegisters, Registers!Spec


-----------------------------------------------------------------------------
(* The banks follow the registers.                                         *)

Registered(port, value) ==
  word' = [p \in {"chr0", "chr1", "prg"} |->
            IF p = port THEN Registers!Wired(p, value) ELSE word[p]]

(* All that a step does to modes, banks and registers.                     *)
LEMMA StepKinds ==
  ASSUME HistoryInv, [HistoryNext]_history_vars
  PROVE  \/ UNCHANGED <<cpu_mapper_io, prg_banks, pattern_tables, word, stale>>
         \/ \E val \in Byte : ResetSerial(val) /\ word' = word /\ stale' = stale \union Outdated
         \/ \E port \in Port, value \in 0..31 :
              /\ Load(port, value) /\ Registered(port, value)
              /\ stale' = (stale \ {port}) \union Outdated
  <1>1. DOMAIN word = {"chr0", "chr1", "prg"} /\ shift.write_count \in 0..4
    BY DEF HistoryInv, Inv, TypeOK
  <1>2. UNCHANGED cpu_mapper_io => Outdated = {}
    BY DEF Outdated, PrgMode, ChrMode, BothFixed, Prg
  <1>3. ASSUME NEW port \in Written, NEW val \in Byte,
               FirstWrite(port, val), Remember(port, val)
        PROVE  \/ UNCHANGED <<cpu_mapper_io, prg_banks, pattern_tables, word, stale>>
               \/ ResetSerial(val) /\ word' = word /\ stale' = stale \union Outdated
               \/ \E value \in 0..31 :
                    /\ Load(port, value) /\ Registered(port, value)
                    /\ stale' = (stale \ {port}) \union Outdated
    <2>1. ResetSerial(val) \/ ShiftBit(port, val)
      BY <1>3 DEF FirstWrite, mmc1_reg_write, IgnoreAdjacent, Adjacent
    <2>2. CASE ResetSerial(val)
      <3>1. Loaded(port, val) = {}
        BY <2>2 DEF Loaded, ResetSerial, Byte
      <3>2. QED
        BY <1>1, <1>3, <2>2, <3>1 DEF Remember, HistoryInv
    <2>3. CASE ShiftBit(port, val) /\ shift.write_count < 4
      <3>1. Loaded(port, val) = {} /\ UNCHANGED <<cpu_mapper_io, bank_vars>>
        BY <1>1, <2>3 DEF Loaded, ShiftBit
      <3>2. QED
        BY <1>1, <1>2, <1>3, <3>1 DEF Remember, HistoryInv, bank_vars
    <2>4. CASE ShiftBit(port, val) /\ shift.write_count = 4
      <3>1. val \in {0, 1} /\ age' = 1 /\ Load(port, Shifted(val))
        BY <2>4 DEF ShiftBit, Byte
      <3>2. Loaded(port, val) = {port}
        BY <2>4, <3>1 DEF Loaded
      <3>3. Registered(port, Shifted(val)) /\ stale' = (stale \ {port}) \union Outdated
        BY <1>1, <1>3, <3>2 DEF Remember, Registered
      <3>4. Shifted(val) \in 0..31
        BY <3>1, ShiftedValue DEF HistoryInv
      <3>5. QED
        BY <3>1, <3>3, <3>4
    <2>5. QED
      BY <1>1, <2>1, <2>2, <2>3, <2>4
  <1>4. ASSUME NEW val \in Byte, SecondWrite(val), Remember(second, val)
        PROVE  UNCHANGED <<cpu_mapper_io, prg_banks, pattern_tables, word, stale>>
    <2>1. IgnoreAdjacent
      BY <1>4 DEF SecondWrite, mmc1_reg_write, ResetSerial, ShiftBit, Adjacent,
                  HistoryInv, Inv, SecondIsAdjacent
    <2>2. Loaded(second, val) = {} /\ UNCHANGED <<cpu_mapper_io, bank_vars>>
      BY <2>1 DEF Loaded, IgnoreAdjacent
    <2>3. QED
      BY <1>1, <1>2, <1>4, <2>2 DEF Remember, HistoryInv, bank_vars
  <1>5. ASSUME Fetch \/ (\E val \in {0, 1} : prg_ram_writes(val)) \/ UNCHANGED vars,
               UNCHANGED <<word, stale>>
        PROVE  UNCHANGED <<cpu_mapper_io, prg_banks, pattern_tables, word, stale>>
    BY <1>5 DEF Fetch, prg_ram_writes, vars, mapper_vars, bank_vars
  <1>6. QED
    BY <1>3, <1>4, <1>5, WrittenAssumption DEF HistoryNext, history_vars


(* What else stays so: a mode of PRG ROM is flagged by one fixed bank at   *)
(* least, and before there is a mode the banks are those of power on.      *)
PrgFlags ==
  IF Prg = 0
  THEN /\ ~cpu_mapper_io.prg_low_bank_fixed /\ ~cpu_mapper_io.prg_high_bank_fixed
       /\ prg_banks = <<0, LastBank>>
  ELSE cpu_mapper_io.prg_low_bank_fixed \/ cpu_mapper_io.prg_high_bank_fixed

PrgInv == HistoryInv /\ PrgFlags /\ PrgFollowsRegister

LEMMA NormalisedIsRest ==
  ASSUME NEW bank \in Nat, NEW banks \in Nat, banks > 0
  PROVE  normalise_any_out_of_bounds_bank(bank, banks) = bank % banks
  BY DEF normalise_any_out_of_bounds_bank

(* Register 3 holds the bank that it selects, and the protection.          *)
LEMMA WiredPrg ==
  ASSUME NEW value \in 0..31
  PROVE  LET bank == normalise_any_out_of_bounds_bank(value % 16, PrgBanks) IN
           /\ bank \in 0..15
           /\ Registers!Wired("prg", value) = bank + (16 * (value \div 16))
           /\ Registers!Wired("prg", value) % 16 = bank
           /\ Registers!Wired("prg", value) # Registers!Unset
           /\ Registers!Wired("prg", value) < 16 <=> Bit(value, 4) = 0
  <1> DEFINE low == value % 16
             bank == low % PrgBanks
             high == value \div 16
  <1>1. low \in 0..15 /\ high \in {0, 1}
    OBVIOUS
  <1>2. normalise_any_out_of_bounds_bank(low, PrgBanks) = bank
    BY <1>1, MemorySizes, NormalisedIsRest
  <1>3. Registers!Wired("prg", value) = bank + (16 * high)
    BY DEF Registers!Wired
  <1>4. bank \in 0..15
    BY <1>1, PrgBanksAssumption
  <1>5. Bit(value, 4) = high
    BY DEF Bit, Weight
  <1> HIDE DEF low, bank, high
  <1>6. /\ (bank + (16 * high)) % 16 = bank /\ bank + (16 * high) # 32
        /\ bank + (16 * high) < 16 <=> high = 0
    BY <1>1, <1>4
  <1>7. QED
    BY <1>2, <1>3, <1>4, <1>5, <1>6 DEF low, high, Registers!Unset

(* Register 3 maps the banks that it selects in the mode.                  *)
LEMMA LoadPrgFollows ==
  ASSUME PrgInv, NEW value \in 0..31, LoadPrg(value), Registered("prg", value)
  PROVE  PrgFlags' /\ PrgFollowsRegister'
  <1> DEFINE bank == normalise_any_out_of_bounds_bank(value % 16, PrgBanks)
             enabled == (Bit(value, 4) = 0) /\ PrgRam
             size == cpu_mapper_io.prg_rom_bank_size
             low == cpu_mapper_io.prg_low_bank_fixed
             high == cpu_mapper_io.prg_high_bank_fixed
  <1>1. cpu_mapper_io \in ModeType /\ prg_banks \in Nat \X Nat
    BY DEF PrgInv, HistoryInv, Inv, TypeOK
  <1>2. /\ prg_banks' = SwitchedPrg(bank)
        /\ cpu_mapper_io' = [cpu_mapper_io EXCEPT !.enable_prg_ram = enabled]
    BY DEF LoadPrg
  <1>3. /\ word'["prg"] % 16 = bank
        /\ enabled = (PrgRam /\ word'["prg"] # Registers!Unset /\ word'["prg"] < 16)
    <2>1. word'["prg"] = Registers!Wired("prg", value)
      BY DEF Registered
    <2>2. /\ word'["prg"] % 16 = bank /\ word'["prg"] # Registers!Unset
          /\ word'["prg"] < 16 <=> Bit(value, 4) = 0
      BY <2>1, WiredPrg
    <2>3. QED
      BY <2>2, PrgRamAssumption
  <1> HIDE DEF enabled, bank
  <1>4. /\ size \in {0, 16, 32} /\ low \in BOOLEAN /\ high \in BOOLEAN
        /\ cpu_mapper_io'.prg_rom_bank_size = size
        /\ cpu_mapper_io'.prg_low_bank_fixed = low
        /\ cpu_mapper_io'.prg_high_bank_fixed = high
        /\ cpu_mapper_io'.enable_prg_ram = enabled
    BY <1>1, <1>2 DEF ModeType
  <1>5. IF size = 0 THEN ~low /\ ~high /\ prg_banks = <<0, LastBank>> ELSE low \/ high
    BY DEF PrgInv, PrgFlags, Prg
  <1>6. PrgMode' = PrgMode /\ BothFixed' = BothFixed
    BY <1>4 DEF PrgMode, BothFixed, Prg
  <1>7. PrgFlags'
    <2>1. CASE size = 0
      BY <1>2, <1>4, <1>5, <2>1 DEF PrgFlags, Prg, SwitchedPrg
    <2>2. CASE size # 0
      BY <1>4, <1>5, <2>2 DEF PrgFlags, Prg
    <2>3. QED
      BY <2>1, <2>2
  <1>8. ~BothFixed =>
          prg_banks' = CASE PrgMode = "switch32" -> << 2 * (bank \div 2), (2 * (bank \div 2)) + 1 >>
                         [] PrgMode = "fixLow" -> << 0, bank >>
                         [] PrgMode = "fixHigh" -> << bank, PrgBanks - 1 >>
                         [] PrgMode = "unset" -> << 0, PrgBanks - 1 >>
    <2>1. CASE size = 0
      BY <1>2, <1>5, <2>1 DEF PrgMode, Prg, SwitchedPrg, LastBank
    <2>2. CASE size = 32
      BY <1>2, <2>2 DEF PrgMode, Prg, SwitchedPrg
    <2>3. CASE size = 16 /\ ~(low /\ high)
      <3>1. CASE low
        BY <1>2, <1>4, <1>5, <2>3, <3>1 DEF PrgMode, Prg, SwitchedPrg
      <3>2. CASE high
        BY <1>2, <1>4, <1>5, <2>3, <3>2 DEF PrgMode, Prg, SwitchedPrg, LastBank
      <3>3. low \/ high
        BY <1>5, <2>3
      <3>4. QED
        BY <3>1, <3>2, <3>3, Zenon
    <2>4. QED
      BY <1>4, <2>1, <2>2, <2>3 DEF BothFixed
  <1>9. QED
    BY <1>3, <1>4, <1>6, <1>7, <1>8 DEF PrgFollowsRegister

(* What leaves PRG ROM's banks and register alone, and makes register 3    *)
(* stale when it changes the mode.                                         *)
LEMMA PrgKept ==
  ASSUME PrgFollowsRegister, word'["prg"] = word["prg"],
         cpu_mapper_io'.enable_prg_ram = cpu_mapper_io.enable_prg_ram,
         PrgMode' = PrgMode /\ BothFixed' = BothFixed /\ "prg" \notin stale' =>
           "prg" \notin stale /\ (~BothFixed => prg_banks' = prg_banks),
         "prg" \notin stale' => PrgMode' = PrgMode /\ BothFixed' = BothFixed
  PROVE  PrgFollowsRegister'
  BY DEF PrgFollowsRegister

LEMMA OutdatedPrg ==
  ASSUME "prg" \notin Outdated
  PROVE  PrgMode' = PrgMode /\ BothFixed' = BothFixed
  <1>1. <<PrgMode, BothFixed>>' = <<PrgMode, BothFixed>>
    BY DEF Outdated
  <1>2. QED
    BY <1>1

LEMMA PrgStep == PrgInv /\ [HistoryNext]_history_vars => PrgInv'
  <1> SUFFICES ASSUME PrgInv, [HistoryNext]_history_vars PROVE PrgInv'
    OBVIOUS
  <1>1. HistoryInv /\ HistoryInv'
    BY HistoryStep DEF PrgInv
  <1>2. /\ cpu_mapper_io \in ModeType /\ prg_banks \in Nat \X Nat
        /\ DOMAIN word = {"chr0", "chr1", "prg"}
    BY <1>1 DEF HistoryInv, Inv, TypeOK
  <1>3. CASE UNCHANGED <<cpu_mapper_io, prg_banks, pattern_tables, word, stale>>
    BY <1>1, <1>3 DEF PrgInv, PrgFlags, PrgFollowsRegister, PrgMode, BothFixed, Prg
  <1>4. ASSUME NEW val \in Byte,
               ResetSerial(val), word' = word, stale' = stale \union Outdated
        PROVE  PrgInv'
    <2>1. /\ cpu_mapper_io'.prg_high_bank_fixed = TRUE
          /\ cpu_mapper_io'.prg_rom_bank_size = 16
          /\ cpu_mapper_io'.enable_prg_ram = cpu_mapper_io.enable_prg_ram
          /\ prg_banks' = [prg_banks EXCEPT ![2] = LastBank]
      BY <1>2, <1>4 DEF ResetSerial, ModeType
    <2>2. PrgFlags' /\ PrgMode' = "fixHigh"
      BY <2>1 DEF PrgFlags, PrgMode, Prg
    <2>3. ASSUME "prg" \notin stale, PrgMode' = PrgMode, ~BothFixed
          PROVE  prg_banks' = prg_banks
      <3>1. prg_banks = << word["prg"] % 16, PrgBanks - 1 >>
        BY <2>2, <2>3 DEF PrgInv, PrgFollowsRegister
      <3>2. QED
        BY <2>1, <3>1 DEF LastBank
    <2>4. PrgFollowsRegister'
      BY <1>4, <2>1, <2>3, PrgKept, OutdatedPrg DEF PrgInv
    <2>5. QED
      BY <1>1, <2>2, <2>4 DEF PrgInv
  <1>5. ASSUME NEW port \in Port, NEW value \in 0..31,
               Load(port, value), Registered(port, value),
               stale' = (stale \ {port}) \union Outdated
        PROVE  PrgInv'
    <2>1. CASE LoadPrg(value) /\ port = "prg"
      BY <1>1, <1>5, <2>1, LoadPrgFollows DEF PrgInv
    <2>2. CASE (LoadChr0(value) \/ LoadChr1(value)) /\ port # "prg"
      <3>1. UNCHANGED <<cpu_mapper_io, prg_banks>> /\ word'["prg"] = word["prg"]
        BY <1>5, <2>2 DEF LoadChr0, LoadChr1, Registered
      <3>2. PrgFlags'
        BY <3>1 DEF PrgInv, PrgFlags, Prg
      <3>3. PrgFollowsRegister'
        BY <1>5, <2>2, <3>1, PrgKept, OutdatedPrg DEF PrgInv
      <3>4. QED
        BY <1>1, <3>2, <3>3 DEF PrgInv
    <2>3. CASE LoadControl(value) /\ port = "control"
      <3>1. prg_banks' = prg_banks /\ word'["prg"] = word["prg"]
        BY <1>5, <2>3 DEF LoadControl, bank_vars, Registered
      <3>2. /\ cpu_mapper_io'.prg_rom_bank_size \in {16, 32}
            /\ cpu_mapper_io'.enable_prg_ram = cpu_mapper_io.enable_prg_ram
            /\ cpu_mapper_io'.prg_low_bank_fixed \/ cpu_mapper_io'.prg_high_bank_fixed
        <4> DEFINE low == Bit(value, 2) = 0
                   high == Bit(value, 2) = 1
                   prg == IF Bit(value, 3) = 0 THEN 32 ELSE 16
                   chr == IF Bit(value, 4) = 0 THEN 8 ELSE 4
        <4>1. low \/ high
          BY DEF Bit, Weight
        <4>2. prg \in {16, 32}
          OBVIOUS
        <4>3. cpu_mapper_io' = [cpu_mapper_io EXCEPT
                !.prg_low_bank_fixed = low, !.prg_high_bank_fixed = high,
                !.prg_rom_bank_size = prg, !.chr_bank_size = chr]
          BY <2>3 DEF LoadControl
        <4> HIDE DEF low, high, prg, chr
        <4>4. QED
          BY <1>2, <4>1, <4>2, <4>3 DEF ModeType
      <3>3. PrgFlags'
        BY <3>2 DEF PrgFlags, Prg
      <3>4. PrgFollowsRegister'
        BY <1>5, <2>3, <3>1, <3>2, PrgKept, OutdatedPrg DEF PrgInv
      <3>5. QED
        BY <1>1, <3>3, <3>4 DEF PrgInv
    <2>4. QED
      BY <1>5, <2>1, <2>2, <2>3 DEF Load
  <1>6. QED
    BY <1>1, <1>3, <1>4, <1>5, StepKinds

(* In every mode, whatever the program sends, the banks at $8000 and $C000 *)
(* and the protection of PRG RAM are the ones register 3 selects.          *)
THEOREM PrgBanksSelected == HistorySpec => []PrgFollowsRegister
  <1>1. HistoryInit => PrgInv
    <2> SUFFICES ASSUME HistoryInit PROVE PrgInv
      OBVIOUS
    <2>1. HistoryInv
      BY InitMode
    <2>2. PrgFlags /\ PrgMode = "unset"
      BY DEF HistoryInit, Init, mapper_001, PrgFlags, PrgMode, Prg
    <2>3. PrgFollowsRegister
      BY <2>2 DEF HistoryInit, Init, PrgFollowsRegister, Port
    <2>4. QED
      BY <2>1, <2>2, <2>3 DEF PrgInv
  <1>2. PrgInv => PrgFollowsRegister
    BY DEF PrgInv
  <1>3. QED
    BY <1>1, <1>2, PrgStep, PTL DEF HistorySpec


-----------------------------------------------------------------------------
(* The pattern tables.                                                     *)

ChrInv == HistoryInv /\ ChrFollowsRegisters

LEMMA WiredChr ==
  ASSUME NEW value \in 0..31, NEW port \in {"chr0", "chr1"}
  PROVE  Registers!Wired(port, value) = normalise_any_out_of_bounds_bank(value, chr_banks)
  BY MemorySizes, NormalisedIsRest DEF Registers!Wired

LEMMA ModeOfSize ==
  ASSUME cpu_mapper_io \in ModeType
  PROVE  /\ ChrMode = "switch8" <=> cpu_mapper_io.chr_bank_size = 8
         /\ ChrMode = "switch4" <=> cpu_mapper_io.chr_bank_size = 4
         /\ ~(cpu_mapper_io.chr_bank_size = 8 /\ cpu_mapper_io.chr_bank_size = 4)
  BY DEF ModeType, ChrMode

LEMMA LoadChr0Follows ==
  ASSUME ChrInv, NEW value \in 0..31, LoadChr0(value), Registered("chr0", value),
         stale' \in {stale, stale \ {"chr0"}}
  PROVE  ChrFollowsRegisters'
  <1> DEFINE bank == normalise_any_out_of_bounds_bank(value, chr_banks)
             size == cpu_mapper_io.chr_bank_size
  <1>1. cpu_mapper_io \in ModeType /\ pattern_tables \in PatternTable \X PatternTable
    BY DEF ChrInv, HistoryInv, Inv, TypeOK
  <1>2. /\ mmc1_set_chr_0_bank(IF size = 8 THEN bank \div 2 ELSE bank)
        /\ cpu_mapper_io' = cpu_mapper_io
    BY DEF LoadChr0
  <1>3. word'["chr0"] = bank /\ word'["chr1"] = word["chr1"]
    BY WiredChr DEF Registered
  <1>4. ChrMode' = ChrMode
    BY <1>2 DEF ChrMode
  <1> HIDE DEF bank
  <1>5. CASE size = 8
    <2>1. pattern_tables' = << Bank(SwitchedMemory, 2 * (bank \div 2)),
                               Bank(SwitchedMemory, (2 * (bank \div 2)) + 1) >>
      BY <1>2, <1>5, 8 # 4 DEF mmc1_set_chr_0_bank
    <2>2. /\ pattern_tables'[1] = Bank(SwitchedMemory, 2 * (bank \div 2))
          /\ pattern_tables'[2] = Bank(SwitchedMemory, (2 * (bank \div 2)) + 1)
      BY <2>1
    <2>3. ChrMode' = "switch8"
      BY <1>1, <1>4, <1>5, ModeOfSize
    <2>4. QED
      BY <1>3, <2>2, <2>3, 8 # 4 DEF ChrFollowsRegisters
  <1>6. CASE size = 4
    <2>1. pattern_tables' = [pattern_tables EXCEPT ![1] = Bank(SwitchedMemory, bank)]
      BY <1>2, <1>6, 8 # 4 DEF mmc1_set_chr_0_bank
    <2>2. /\ pattern_tables'[1] = Bank(SwitchedMemory, bank)
          /\ pattern_tables'[2] = pattern_tables[2]
      BY <1>1, <2>1
    <2>3. ChrMode = "switch4" /\ ChrMode' = "switch4"
      BY <1>1, <1>4, <1>6, ModeOfSize
    <2>4. "chr1" \notin stale' => "chr1" \notin stale
      OBVIOUS
    <2>5. QED
      BY <1>3, <2>2, <2>3, <2>4 DEF ChrInv, ChrFollowsRegisters
  <1>7. CASE size # 8 /\ size # 4
    <2>1. ChrMode' # "switch8" /\ ChrMode' # "switch4"
      BY <1>1, <1>4, <1>7, ModeOfSize
    <2>2. QED
      BY <2>1 DEF ChrFollowsRegisters
  <1>8. QED
    BY <1>5, <1>6, <1>7

LEMMA LoadChr1Follows ==
  ASSUME ChrInv, NEW value \in 0..31, LoadChr1(value), Registered("chr1", value),
         stale' \in {stale, stale \ {"chr1"}}
  PROVE  ChrFollowsRegisters'
  <1> DEFINE bank == normalise_any_out_of_bounds_bank(value, chr_banks)
             size == cpu_mapper_io.chr_bank_size
  <1>1. cpu_mapper_io \in ModeType /\ pattern_tables \in PatternTable \X PatternTable
    BY DEF ChrInv, HistoryInv, Inv, TypeOK
  <1>2. cpu_mapper_io' = cpu_mapper_io
    BY DEF LoadChr1
  <1>3. word'["chr1"] = bank /\ word'["chr0"] = word["chr0"]
    BY WiredChr DEF Registered
  <1>4. ChrMode' = ChrMode
    BY <1>2 DEF ChrMode
  <1>5. "chr0" \notin stale' => "chr0" \notin stale
    OBVIOUS
  <1>6. CASE size = 4
    <2>1. pattern_tables' = [pattern_tables EXCEPT ![2] = Bank(SwitchedMemory, bank)]
      BY <1>6 DEF LoadChr1, mmc1_set_chr_1_bank
    <2> HIDE DEF bank
    <2>2. /\ pattern_tables'[2] = Bank(SwitchedMemory, bank)
          /\ pattern_tables'[1] = pattern_tables[1]
      BY <1>1, <2>1
    <2>3. ChrMode = "switch4" /\ ChrMode' = "switch4"
      BY <1>1, <1>4, <1>6, ModeOfSize
    <2>4. QED
      BY <1>3, <1>5, <2>2, <2>3 DEF ChrInv, ChrFollowsRegisters
  <1>7. CASE size # 4
    <2>1. pattern_tables' = pattern_tables /\ ChrMode' # "switch4"
      BY <1>1, <1>4, <1>7, ModeOfSize DEF LoadChr1
    <2>2. QED
      BY <1>3, <1>4, <1>5, <2>1 DEF ChrInv, ChrFollowsRegisters
  <1>8. QED
    BY <1>6, <1>7

LEMMA OutdatedChr ==
  /\ ChrMode' # ChrMode => "chr0" \in Outdated /\ "chr1" \in Outdated
  /\ ChrMode' = ChrMode => Outdated \subseteq {"prg"}
  BY DEF Outdated

(* What leaves the pattern tables and registers 1 and 2 alone.             *)
LEMMA ChrKept ==
  ASSUME ChrInv, pattern_tables' = pattern_tables,
         word'["chr0"] = word["chr0"], word'["chr1"] = word["chr1"],
         NEW port, stale' = (stale \ {port}) \union Outdated, port \notin {"chr0", "chr1"}
  PROVE  ChrFollowsRegisters'
  <1>1. CASE ChrMode' = ChrMode
    BY <1>1 DEF ChrInv, ChrFollowsRegisters
  <1>2. CASE ChrMode' # ChrMode
    BY <1>2, OutdatedChr DEF ChrFollowsRegisters
  <1>3. QED
    BY <1>1, <1>2

LEMMA ChrStep == ChrInv /\ [HistoryNext]_history_vars => ChrInv'
  <1> SUFFICES ASSUME ChrInv, [HistoryNext]_history_vars PROVE ChrInv'
    OBVIOUS
  <1>1. HistoryInv /\ HistoryInv'
    BY HistoryStep DEF ChrInv
  <1>2. CASE UNCHANGED <<cpu_mapper_io, prg_banks, pattern_tables, word, stale>>
    BY <1>1, <1>2 DEF ChrInv, ChrFollowsRegisters, ChrMode
  <1>3. ASSUME NEW val \in Byte,
               ResetSerial(val), word' = word, stale' = stale \union Outdated
        PROVE  ChrInv'
    <2>1. pattern_tables' = pattern_tables
      BY <1>3 DEF ResetSerial
    <2>2. cpu_mapper_io'.chr_bank_size = cpu_mapper_io.chr_bank_size
      BY <1>1, <1>3 DEF HistoryInv, Inv, TypeOK, ModeType, ResetSerial
    <2>3. ChrMode' = ChrMode /\ stale \subseteq stale'
      BY <1>3, <2>2 DEF ChrMode
    <2>4. QED
      BY <1>1, <1>3, <2>1, <2>3 DEF ChrInv, ChrFollowsRegisters
  <1>4. ASSUME NEW port \in Port, NEW value \in 0..31,
               Load(port, value), Registered(port, value),
               stale' = (stale \ {port}) \union Outdated
        PROVE  ChrInv'
    <2>1. CASE LoadChr0(value) /\ port = "chr0"
      <3>1. Outdated = {}
        BY <2>1 DEF LoadChr0, Outdated, PrgMode, ChrMode, BothFixed, Prg
      <3>2. QED
        BY <1>1, <1>4, <2>1, <3>1, LoadChr0Follows DEF ChrInv
    <2>2. CASE LoadChr1(value) /\ port = "chr1"
      <3>1. Outdated = {}
        BY <2>2 DEF LoadChr1, Outdated, PrgMode, ChrMode, BothFixed, Prg
      <3>2. QED
        BY <1>1, <1>4, <2>2, <3>1, LoadChr1Follows DEF ChrInv
    <2>3. CASE (LoadPrg(value) \/ LoadControl(value)) /\ port \notin {"chr0", "chr1"}
      <3>1. /\ pattern_tables' = pattern_tables
            /\ word'["chr0"] = word["chr0"] /\ word'["chr1"] = word["chr1"]
        BY <1>4, <2>3 DEF LoadPrg, LoadControl, bank_vars, Registered
      <3>2. ChrFollowsRegisters'
        BY <1>4, <2>3, <3>1, ChrKept
      <3>3. QED
        BY <1>1, <3>2 DEF ChrInv
    <2>4. QED
      BY <1>4, <2>1, <2>2, <2>3 DEF Load
  <1>5. QED
    BY <1>1, <1>2, <1>3, <1>4, StepKinds

(* In both modes, whatever the program sends, the pattern tables show the  *)
(* banks registers 1 and 2 select; register 2 shows in 4 KiB mode only.    *)
THEOREM ChrBanksSelected == HistorySpec => []ChrFollowsRegisters
  <1>1. HistoryInit => ChrInv
    <2> SUFFICES ASSUME HistoryInit PROVE ChrInv
      OBVIOUS
    <2>1. HistoryInv
      BY InitMode
    <2>2. ChrMode = "unset"
      BY DEF HistoryInit, Init, ChrMode
    <2>3. QED
      BY <2>1, <2>2 DEF ChrInv, ChrFollowsRegisters
  <1>2. ChrInv => ChrFollowsRegisters
    BY DEF ChrInv
  <1>3. QED
    BY <1>1, <1>2, ChrStep, PTL DEF HistorySpec
=============================================================================
