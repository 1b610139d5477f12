-------------------------------- MODULE Alu --------------------------------
(***************************************************************************)
(* What the instructions compute: the registers, the flags and the byte    *)
(* written to memory, for every instruction that is neither a jump nor a   *)
(* use of the stack.  An action is the execute_ function of one or more    *)
(* instructions; m is the byte that read_from_cpu gives for the operand,   *)
(* any of Operands.  P is the set of the flags that are set.               *)
(***************************************************************************)
EXTENDS Integers

CONSTANT
  Operands   \* the bytes that memory may hold

Byte == 0..255

ASSUME OperandAssumption == Operands \subseteq Byte

VARIABLES
  reg,       \* the registers A, X and Y
  P,         \* the status register
  written    \* the byte that the last instruction wrote, None if it did not

alu_vars == <<reg, P, written>>

Flags == {"N", "V", "U", "B", "D", "I", "Z", "C"}   \* bits 7 to 0 of P; U is bit 5
None == 256

(* Mutant: a result is not narrowed to a byte.                             *)
Uint8Mutant(value) == value

Uint8(value) == value % 256

Sign(value) == value \div 128
BitsOf(value) == { b \in 0..7 : (value \div (2^b)) % 2 = 1 }
ValueOf(bits) ==
  LET bit(b) == IF b \in bits THEN 2^b ELSE 0 IN
  bit(0) + bit(1) + bit(2) + bit(3) + bit(4) + bit(5) + bit(6) + bit(7)

AluInit ==
  /\ reg = [r \in {"A", "X", "Y"} |-> 0]
  /\ P = {"U", "I"}
  /\ written = None

Carry == IF "C" \in P THEN 1 ELSE 0

-----------------------------------------------------------------------------
(* THE FLAGS                                                                *)

Flag(f, set) == IF set THEN {f} ELSE {}

(* update_flag_n and update_flag_z, as every result has them.              *)
NZ(value) == Flag("N", Sign(value) = 1) \union Flag("Z", value = 0)

(* The flags among fs become those of set, the others stay.                *)
update(fs, set) == P' = (P \ fs) \union set

Into(r, value) ==
  /\ reg' = [reg EXCEPT ![r] = value]
  /\ written' = None

-----------------------------------------------------------------------------
(* STORAGE                                                                  *)

execute_LD(r, m) == Into(r, m) /\ update({"N", "Z"}, NZ(m))

execute_ST(r) == written' = reg[r] /\ UNCHANGED <<reg, P>>

(* TAX, TAY, TXA and TYA                                                   *)
execute_T(from, to) == from # to /\ Into(to, reg[from]) /\ update({"N", "Z"}, NZ(reg[from]))

-----------------------------------------------------------------------------
(* MATH                                                                     *)

Sum(m) == reg["A"] + m + Carry

execute_ADC(m) ==
  LET result == Uint8(Sum(m))
      overflow == Sign(reg["A"]) = Sign(m) /\ Sign(reg["A"]) # Sign(result)
  IN /\ Into("A", result)
     /\ update({"N", "V", "Z", "C"},
               NZ(result) \union Flag("V", overflow) \union Flag("C", Sum(m) > 255))

(* Mutant: the signs are compared as if it were an addition.               *)
SbcOverflowMutant(m, result) == Sign(reg["A"]) = Sign(m) /\ Sign(reg["A"]) # Sign(result)

SbcOverflow(m, result) == Sign(reg["A"]) # Sign(m) /\ Sign(reg["A"]) # Sign(result)

execute_SBC(m) ==
  LET difference == reg["A"] - m - (1 - Carry)
      result == Uint8(difference)
  IN /\ Into("A", result)
     /\ update({"N", "V", "Z", "C"},
               NZ(result) \union Flag("V", SbcOverflow(m, result)) \union Flag("C", difference >= 0))

(* CMP, CPX and CPY                                                        *)
execute_CP(r, m) ==
  /\ written' = None
  /\ update({"N", "Z", "C"}, NZ(Uint8(reg[r] - m)) \union Flag("C", m <= reg[r]))
  /\ UNCHANGED reg

(* INX, INY, DEX and DEY                                                   *)
Count(r, by) == Into(r, Uint8(reg[r] + by)) /\ update({"N", "Z"}, NZ(Uint8(reg[r] + by)))

(* INC and DEC                                                             *)
CountMemory(m, by) ==
  /\ written' = Uint8(m + by)
  /\ update({"N", "Z"}, NZ(Uint8(m + by)))
  /\ UNCHANGED reg

-----------------------------------------------------------------------------
(* BITWISE                                                                  *)

Combined(op, a, b) ==
  CASE op = "AND" -> a \intersect b
    [] op = "ORA" -> a \union b
    [] op = "EOR" -> (a \ b) \union (b \ a)

Logic(op, m) ==
  LET result == ValueOf(Combined(op, BitsOf(reg["A"]), BitsOf(m))) IN
  Into("A", result) /\ update({"N", "Z"}, NZ(result))

execute_BIT(m) ==
  /\ written' = None
  /\ update({"N", "V", "Z"},
            Flag("N", 7 \in BitsOf(m)) \union Flag("V", 6 \in BitsOf(m))
              \union Flag("Z", BitsOf(m) \intersect BitsOf(reg["A"]) = {}))
  /\ UNCHANGED reg

Shifted(op, value) ==
  CASE op = "ASL" -> Uint8(2 * value)
    [] op = "LSR" -> value \div 2
    [] op = "ROL" -> Uint8(2 * value) + Carry
    [] op = "ROR" -> (value \div 2) + (128 * Carry)

ShiftedOut(op, value) == IF op \in {"ASL", "ROL"} THEN Sign(value) = 1 ELSE value % 2 = 1

Shift(op, value) ==
  update({"N", "Z", "C"}, NZ(Shifted(op, value)) \union Flag("C", ShiftedOut(op, value)))

(* ADDRESS_MODE_DEP: the accumulator in mode ACC, else the memory.         *)
ShiftAccumulator(op) == Shift(op, reg["A"]) /\ Into("A", Shifted(op, reg["A"]))
ShiftMemory(op, m) == Shift(op, m) /\ written' = Shifted(op, m) /\ UNCHANGED reg

-----------------------------------------------------------------------------
(* SEC, SED, SEI, CLC, CLD, CLI and CLV                                     *)

SetFlag(f, set) ==
  /\ ~(f = "V" /\ set)
  /\ update({f}, Flag(f, set))
  /\ written' = None
  /\ UNCHANGED reg

execute_NOP == written' = None /\ UNCHANGED <<reg, P>>

-----------------------------------------------------------------------------
(* What a program does that works with one register.                       *)
AluNext(r) ==
  \/ execute_ST(r)
  \/ \E m \in Operands : execute_LD(r, m) \/ execute_CP(r, m)
  \/ \E by \in {-1, 1} :
       \/ r # "A" /\ Count(r, by)
       \/ \E m \in Operands : CountMemory(m, by)
  \/ /\ r = "A"
     /\ \/ \E m \in Operands : execute_ADC(m) \/ execute_SBC(m) \/ execute_BIT(m)
        \/ \E m \in Operands, op \in {"AND", "ORA", "EOR"} : Logic(op, m)
        \/ \E op \in {"ASL", "LSR", "ROL", "ROR"} :
             ShiftAccumulator(op) \/ \E m \in Operands : ShiftMemory(op, m)
  \/ \E f \in {"C", "V"}, set \in BOOLEAN : SetFlag(f, set)
  \/ execute_NOP
=============================================================================
