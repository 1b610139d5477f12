---------------------------- MODULE Mmc1History ----------------------------
(***************************************************************************)
(* Mmc1 with what no variable of the program remembers: the value each     *)
(* register was last loaded with, whether the mode has changed since, and  *)
(* the bits the program has sent, one or a reset with each instruction.    *)
(***************************************************************************)
EXTENDS Mmc1

VARIABLES
  word,      \* the value last loaded into registers 1 to 3
  stale,     \* the registers not loaded since the mode they obey changed
  sent       \* the bits of the value being sent, or the last one sent

history_vars == <<vars, word, stale, sent>>

Prg == cpu_mapper_io.prg_rom_bank_size

(* The mode that register 3 obeys.                                         *)
PrgMode ==
  CASE Prg = 0 -> "unset"
    [] Prg = 32 -> "switch32"
    [] Prg = 16 /\ cpu_mapper_io.prg_high_bank_fixed -> "fixHigh"
    [] OTHER -> "fixLow"

ChrMode ==
  CASE cpu_mapper_io.chr_bank_size = 0 -> "unset"
    [] cpu_mapper_io.chr_bank_size = 8 -> "switch8"
    [] cpu_mapper_io.chr_bank_size = 4 -> "switch4"

Layout == [ i \in 1..4 |-> nametables[i - 1] ]

Registers == INSTANCE Mmc1Registers WITH
  ChrBanks <- chr_banks,
  PowerOn <- IF HeaderMirroring = "VERTICAL" THEN <<"A", "B", "A", "B">> ELSE <<"A", "A", "B", "B">>,
  bits <- sent,
  mode <- [mirroring |-> Layout, prg |-> PrgMode, chr |-> ChrMode],
  word <- word

HistoryInit ==
  /\ Init
  /\ word = [port \in Port \ {"control"} |-> Registers!Unset]
  /\ stale = Port \ {"control"}
  /\ sent = <<>>

(* A reset in a mode with a fixed low bank flags both banks as fixed.      *)
BothFixed == cpu_mapper_io.prg_low_bank_fixed /\ cpu_mapper_io.prg_high_bank_fixed

Outdated ==
  (IF <<PrgMode, BothFixed>>' # <<PrgMode, BothFixed>> THEN {"prg"} ELSE {})
    \union (IF ChrMode' # ChrMode THEN {"chr0", "chr1"} ELSE {})

(* What a write of val to port has loaded.                                 *)
Loaded(port, val) ==
  IF age' = 1 /\ val < 128 /\ shift.write_count = 4 THEN {port} ELSE {}

Remember(port, val) ==
  LET loaded == Loaded(port, val) IN
  /\ stale' = (stale \ loaded) \union Outdated
  /\ word' = [p \in DOMAIN word |->
       IF p \in loaded THEN Registers!Wired(p, Shifted(val)) ELSE word[p]]

(* An instruction sends the byte it writes first.                          *)
Sent(val) ==
  IF val >= 128 THEN <<>> ELSE Append(IF Len(sent) = 5 THEN <<>> ELSE sent, val)

HistoryNext ==
  \/ \E port \in Written, val \in Byte :
       FirstWrite(port, val) /\ Remember(port, val) /\ sent' = Sent(val)
  \/ \E val \in Byte :
       SecondWrite(val) /\ Remember(second, val) /\ sent' = sent
  \/ Fetch /\ UNCHANGED <<word, stale, sent>>
  \/ \E val \in {0, 1} : prg_ram_writes(val) /\ UNCHANGED <<word, stale, sent>>

HistorySpec == HistoryInit /\ [][HistoryNext]_history_vars

-----------------------------------------------------------------------------
(* However the program mixes bits, resets and the double writes of         *)
(* read-modify-write instructions, the modes, the name tables and the      *)
(* values loaded are those of Mmc1Registers: no value is ever made of bits *)
(* from before a reset or a load, of the second write of an instruction,   *)
(* or in the wrong order.                                                  *)
ImplementsRegisters == Registers!Spec

(* Once register 3 is loaded in a mode, the banks at $8000 and $C000 are   *)
(* the ones the mode and the register select, until the mode changes.      *)
(* Excluded is the time after a reset that flags both banks as fixed.      *)
(* PRG RAM is enabled by bit 4 of the register, in any mode, where the     *)
(* header declares it.                                                     *)
PrgFollowsRegister ==
  /\ "prg" \notin stale /\ ~BothFixed =>
       LET bank == word["prg"] % 16 IN
         prg_banks = CASE PrgMode = "switch32" -> << 2 * (bank \div 2), (2 * (bank \div 2)) + 1 >>
                       [] PrgMode = "fixLow" -> << 0, bank >>
                       [] PrgMode = "fixHigh" -> << bank, PrgBanks - 1 >>
                       [] PrgMode = "unset" -> << 0, PrgBanks - 1 >>
  /\ cpu_mapper_io.enable_prg_ram = (PrgRam /\ word["prg"] # Registers!Unset /\ word["prg"] < 16)

(* So do the pattern tables; register 2 counts in 4 KiB mode only, and     *)
(* what it was loaded with in 8 KiB mode never shows up later.             *)
ChrFollowsRegisters ==
  LET Shows(table, number) == pattern_tables[table] = Bank(SwitchedMemory, number) IN
  /\ ChrMode = "switch8" /\ "chr0" \notin stale =>
       Shows(1, 2 * (word["chr0"] \div 2)) /\ Shows(2, (2 * (word["chr0"] \div 2)) + 1)
  /\ ChrMode = "switch4" /\ "chr0" \notin stale => Shows(1, word["chr0"])
  /\ ChrMode = "switch4" /\ "chr1" \notin stale => Shows(2, word["chr1"])
=============================================================================
