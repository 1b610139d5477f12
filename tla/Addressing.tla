----------------------------- MODULE Addressing -----------------------------
(***************************************************************************)
(* Where an instruction finds its operand: the decode_ functions of the    *)
(* addressing modes, with the address they put on the bus before a carry   *)
(* has reached the upper byte, and when they spend a clock on the carry.   *)
(* An action is all the clocks of one instruction's decoding; the bytes it *)
(* reads on the way are any of Operands.  Which clock does what is in      *)
(* Instructions.                                                           *)
(***************************************************************************)
EXTENDS Alu

CONSTANT
  Offsets        \* the offsets of branches

ASSUME OffsetAssumption == Offsets \subseteq -128..127

VARIABLES
  PC,
  address_mode,
  bytes,         \* addr_hi, addr_lo and offset as read, and where the pointer was read
  fixed_cycles,  \* of a store or a read-modify-write instruction
  early,         \* the address on the bus before the carry, NoAddress in other modes
  late,          \* the clock for the carry was spent
  target_addr

address_vars == <<PC, address_mode, bytes, fixed_cycles, early, late, target_addr>>

NoAddress == 65536
Word == 0..NoAddress - 1
Uint16(value) == value % 65536
High(word) == word \div 256
Low(word) == word % 256

append_hi_byte_to_lo_byte(hi, lo) == (256 * hi) + lo

(* Mutant: a negative offset never leaves the page.                        *)
page_cross_occursMutant(low_byte, offset) == low_byte + offset > 255

(* A negative sum is close to 2^32: offset becomes unsigned.               *)
page_cross_occurs(low_byte, offset) == low_byte + offset > 255 \/ low_byte + offset < 0

(* set_address_bus_bytes takes two bytes: a carry of the lower one is lost *)
Bus(hi, lo) == append_hi_byte_to_lo_byte(hi, Uint8(lo))

NoBytes == [hi |-> 0, lo |-> 0, offset |-> 0, pointer |-> <<>>]
At(hi, lo) == [NoBytes EXCEPT !.hi = hi, !.lo = lo]

AddressInit ==
  /\ PC = 0
  /\ address_mode = "none"
  /\ bytes = NoBytes
  /\ fixed_cycles = FALSE
  /\ early = NoAddress
  /\ late = FALSE
  /\ target_addr = 0

Decoded(mode, read, address) ==
  /\ address_mode' = mode
  /\ bytes' = read
  /\ target_addr' = address
  /\ fixed_cycles' = FALSE /\ early' = NoAddress /\ late' = FALSE
  /\ UNCHANGED PC

-----------------------------------------------------------------------------
decode_ABS(hi, lo) == Decoded("ABS", At(hi, lo), Bus(hi, lo))

decode_ZP(lo) == Decoded("ZP", At(0, lo), lo)

(* ZPX and ZPY                                                             *)
decode_ZPI(mode, r, lo) == Decoded(mode, At(0, lo), Uint8(lo + reg[r]))

(* What ABSX, ABSY and INDY have in common.  A load that crosses no page   *)
(* saves the clock.                                                        *)
Indexed(mode, r, read, fixed) ==
  LET waits == fixed \/ page_cross_occurs(read.lo, reg[r]) IN
  /\ address_mode' = mode
  /\ bytes' = read
  /\ fixed_cycles' = fixed
  /\ early' = Bus(read.hi, read.lo + reg[r])
  /\ late' = waits
  /\ target_addr' =
       IF waits THEN Uint16(append_hi_byte_to_lo_byte(read.hi, read.lo) + reg[r]) ELSE early'
  /\ UNCHANGED PC

decode_ABSI(mode, r, hi, lo, fixed) == Indexed(mode, r, At(hi, lo), fixed)

(* The addresses of the two bytes of a pointer.                            *)
Pointer(hi, lo) == << Bus(hi, lo), Bus(hi, lo + 1) >>

Through(hi, lo, pointer) == [At(hi, lo) EXCEPT !.pointer = pointer]

decode_INDX(base, hi, lo) ==
  Decoded("INDX", Through(hi, lo, Pointer(0, base + reg["X"])), append_hi_byte_to_lo_byte(hi, lo))

decode_INDY(base, hi, lo, fixed) ==
  Indexed("INDY", "Y", Through(hi, lo, Pointer(0, base)), fixed)

(* The branches that wait for flag f to be as set says.  PC is behind the  *)
(* instruction; a branch across a page takes a clock more.                 *)
decode_Bxx(f, set, offset) ==
  LET crosses == page_cross_occurs(Low(PC), offset)
      carryless == Bus(High(PC), Low(PC) + offset)
  IN /\ address_mode' = "REL"
     /\ bytes' = [NoBytes EXCEPT !.offset = offset]
     /\ fixed_cycles' = FALSE
     /\ IF (f \in P) # set
        THEN target_addr' = PC /\ early' = NoAddress /\ late' = FALSE
        ELSE /\ early' = carryless
             /\ late' = crosses
             /\ target_addr' = IF crosses THEN Uint16(PC + offset) ELSE carryless
     /\ UNCHANGED PC

(* The instruction is executed; PC is target_addr after a branch.          *)
Execute ==
  /\ address_mode # "none"
  /\ PC' = IF address_mode = "REL" THEN target_addr ELSE PC
  /\ address_mode' = "none" /\ bytes' = NoBytes /\ target_addr' = 0
  /\ fixed_cycles' = FALSE /\ early' = NoAddress /\ late' = FALSE

(* JMP, absolute and indirect                                              *)
Jump(mode, read, address) ==
  /\ PC' = append_hi_byte_to_lo_byte(read.hi, read.lo)
  /\ address_mode' = mode /\ bytes' = read /\ target_addr' = address
  /\ UNCHANGED <<fixed_cycles, early, late>>

execute_JMP(hi, lo) == Jump("ABS", At(hi, lo), append_hi_byte_to_lo_byte(hi, lo))

execute_JMP_IND(index_hi, index_lo, hi, lo) ==
  LET pointer == Pointer(index_hi, index_lo) IN
  Jump("IND", Through(hi, lo, pointer), Uint16(pointer[2] - 1))

(* What a program does that indexes with register r, and what one does     *)
(* that jumps.  An instruction is decoded when the last one is done.       *)
Decode(r) ==
  \E lo \in Operands :
    \/ decode_ZP(lo)
    \/ decode_ZPI("ZPX", "X", lo) /\ r = "X"
    \/ decode_ZPI("ZPY", "Y", lo) /\ r = "Y"
    \/ \E hi \in Operands :
         \/ decode_ABS(hi, lo)
         \/ \E fixed \in BOOLEAN :
              \/ decode_ABSI("ABSX", "X", hi, lo, fixed) /\ r = "X"
              \/ decode_ABSI("ABSY", "Y", hi, lo, fixed) /\ r = "Y"
              \/ \E base \in Operands : decode_INDY(base, hi, lo, fixed) /\ r = "Y"
         \/ \E base \in Operands : decode_INDX(base, hi, lo) /\ r = "X"

DecodeJump ==
  \/ \E f \in {"C", "Z", "N", "V"}, set \in BOOLEAN, offset \in Offsets :
       decode_Bxx(f, set, offset)
  \/ \E hi, lo \in Operands :
       execute_JMP(hi, lo) \/ \E index_hi, index_lo \in Operands : execute_JMP_IND(index_hi, index_lo, hi, lo)
=============================================================================
