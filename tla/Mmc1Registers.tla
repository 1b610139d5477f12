--------------------------- MODULE Mmc1Registers ---------------------------
(***************************************************************************)
(* What a program may count on of the MMC1: bits go in one at a time, the  *)
(* first as the lowest; the fifth bit completes a value, which register 0  *)
(* reads as the modes and the others keep; a reset throws away the bits    *)
(* collected so far and fixes the last PRG bank at $C000.                  *)
(***************************************************************************)
EXTENDS Naturals, Sequences

CONSTANTS
  PrgBanks,   \* 16 KiB banks of PRG ROM
  ChrBanks,   \* 4 KiB banks of CHR memory that can be told apart
  PowerOn     \* the mirroring before register 0 is loaded

VARIABLES
  bits,   \* the bits of the value being collected, or just completed
  mode,   \* what register 0 selects
  word    \* the values of registers 1 to 3

registers == <<bits, mode, word>>

Unset == 32

Value(b) == b[1] + (2 * b[2]) + (4 * b[3]) + (8 * b[4]) + (16 * b[5])

(* A register keeps the bits the board has memory for; those of register 3 *)
(* are four for the bank and one that protects PRG RAM.                    *)
Wired(port, value) ==
  IF port = "prg" THEN ((value % 16) % PrgBanks) + (16 * (value \div 16)) ELSE value % ChrBanks

Init ==
  /\ bits = <<>>
  /\ mode = [mirroring |-> PowerOn, prg |-> "unset", chr |-> "unset"]
  /\ word = [port \in {"chr0", "chr1", "prg"} |-> Unset]

(* The pages of the four name tables, by the two lowest bits.              *)
Mirrorings == << <<"A", "A", "A", "A">>, <<"B", "B", "B", "B">>,
                 <<"A", "B", "A", "B">>, <<"A", "A", "B", "B">> >>

Modes(value) ==
  [ mirroring |-> Mirrorings[(value % 4) + 1],
    prg |-> IF (value \div 8) % 2 = 0 THEN "switch32"
            ELSE IF (value \div 4) % 2 = 0 THEN "fixLow" ELSE "fixHigh",
    chr |-> IF value \div 16 = 0 THEN "switch8" ELSE "switch4" ]

(* A bit of a new value, when the last one is complete, or the next one.   *)
Send(b) == bits' = Append(IF Len(bits) = 5 THEN <<>> ELSE bits, b)

Collect ==
  /\ \E b \in {0, 1} : Send(b)
  /\ Len(bits') < 5
  /\ UNCHANGED <<mode, word>>

Complete ==
  /\ \E b \in {0, 1} : Send(b)
  /\ Len(bits') = 5
  /\ \/ mode' = Modes(Value(bits')) /\ word' = word
     \/ /\ \E port \in DOMAIN word : word' = [word EXCEPT ![port] = Wired(port, Value(bits'))]
        /\ mode' = mode

Clear ==
  /\ bits' = <<>>
  /\ mode' = [mode EXCEPT !.prg = "fixHigh"]
  /\ word' = word

Next == Collect \/ Complete \/ Clear

Spec == Init /\ [][Next]_registers
=============================================================================
