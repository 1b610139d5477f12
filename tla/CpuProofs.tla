------------------------------- MODULE CpuProofs -------------------------------
(* Proofs about CpuPrograms, for every set of operands and offsets, every   *)
(* size of the stack's page, and wherever the instructions are.             *)
EXTENDS CpuPrograms, TLAPS

-----------------------------------------------------------------------------
(* BYTES AND WORDS *)

(* Division by 256 and its converse, for integers.                         *)
LEMMA Divided ==
  ASSUME NEW word \in Int, 0 <= word, word <= 65535
  PROVE  /\ word \div 256 \in Int /\ 0 <= word \div 256 /\ word \div 256 <= 255
         /\ word % 256 \in Int /\ 0 <= word % 256 /\ word % 256 <= 255
OBVIOUS

LEMMA Rejoined ==
  ASSUME NEW word \in Int, 0 <= word, word <= 65535
  PROVE  (256 * (word \div 256)) + (word % 256) = word
OBVIOUS

LEMMA Joined ==
  ASSUME NEW hi \in Int, NEW lo \in Int, 0 <= hi, hi <= 255, 0 <= lo, lo <= 255
  PROVE  (256 * hi) + lo \in Int /\ 0 <= (256 * hi) + lo /\ (256 * hi) + lo <= 65535
OBVIOUS

LEMMA UpperPart ==
  ASSUME NEW hi \in Int, NEW lo \in Int, 0 <= hi, hi <= 255, 0 <= lo, lo <= 255
  PROVE  ((256 * hi) + lo) \div 256 = hi
OBVIOUS

LEMMA LowerPart ==
  ASSUME NEW hi \in Int, NEW lo \in Int, 0 <= hi, hi <= 255, 0 <= lo, lo <= 255
  PROVE  ((256 * hi) + lo) % 256 = lo
OBVIOUS

(* Facts about the ranges are stated apart, since the prover lists their    *)
(* elements.                                                                *)
Offset == -128..127
NoneOrByte == 0..None
NoneOrWord == 0..NoAddress

LEMMA Ranges ==
  /\ \A value \in Int : value \in Byte <=> 0 <= value /\ value <= 255
  /\ \A value \in Int : value \in Word <=> 0 <= value /\ value <= 65535
  /\ \A value \in Int : value \in Offset <=> -128 <= value /\ value <= 127
  /\ \A value \in Int : value \in NoneOrByte <=> 0 <= value /\ value <= 256
  /\ \A value \in Int : value \in NoneOrWord <=> 0 <= value /\ value <= 65536
  /\ Byte \subseteq Int /\ Word \subseteq Int /\ Offset \subseteq Int
  /\ NoneOrByte \subseteq Int /\ NoneOrWord \subseteq Int
<1>1. /\ None \in Int /\ None <= 256 /\ 256 <= None
      /\ NoAddress \in Int /\ NoAddress <= 65536 /\ 65536 <= NoAddress
  BY DEF None, NoAddress
<1>2. \A value \in Int : value \in Byte <=> 0 <= value /\ value <= 255
  BY DEF Byte
<1>3. \A value \in Int : value \in Offset <=> -128 <= value /\ value <= 127
  BY SMTT(30) DEF Offset
<1>4. \A value \in Int : value \in Word <=> 0 <= value /\ value <= 65535
  BY <1>1 DEF Word
<1>5. \A value \in Int : value \in NoneOrByte <=> 0 <= value /\ value <= 256
  BY <1>1 DEF NoneOrByte
<1>6. \A value \in Int : value \in NoneOrWord <=> 0 <= value /\ value <= 65536
  BY <1>1 DEF NoneOrWord
<1>7. Byte \subseteq Int /\ Word \subseteq Int /\ Offset \subseteq Int
  BY DEF Byte, Word, Offset
<1>8. NoneOrByte \subseteq Int /\ NoneOrWord \subseteq Int
  BY DEF NoneOrByte, NoneOrWord
<1> QED BY <1>2, <1>3, <1>4, <1>5, <1>6, <1>7, <1>8

LEMMA Wholes == Byte \subseteq Int /\ Word \subseteq Int /\ Offset \subseteq Int
BY Ranges

LEMMA ByteIsWord == Byte \subseteq Word
BY Ranges

LEMMA Narrowed ==
  ASSUME NEW value \in Int
  PROVE  Uint8(value) \in Byte /\ Uint16(value) \in Word
<1>1. /\ value % 256 \in Int /\ 0 <= value % 256 /\ value % 256 <= 255
      /\ value % 65536 \in Int /\ 0 <= value % 65536 /\ value % 65536 <= 65535
  OBVIOUS
<1> QED BY <1>1, Ranges DEF Uint8, Uint16

LEMMA Halves ==
  ASSUME NEW word \in Word
  PROVE  /\ High(word) \in Byte /\ Low(word) \in Byte
         /\ append_hi_byte_to_lo_byte(High(word), Low(word)) = word
<1>1. word \in Int /\ 0 <= word /\ word <= 65535
  BY Ranges
<1>2. High(word) \in Byte /\ Low(word) \in Byte
  BY <1>1, Divided, Ranges DEF High, Low
<1>3. append_hi_byte_to_lo_byte(High(word), Low(word)) = word
  BY <1>1, Rejoined DEF High, Low, append_hi_byte_to_lo_byte
<1> QED BY <1>2, <1>3

LEMMA Appended ==
  ASSUME NEW hi \in Byte, NEW lo \in Byte
  PROVE  /\ append_hi_byte_to_lo_byte(hi, lo) \in Word
         /\ High(append_hi_byte_to_lo_byte(hi, lo)) = hi
         /\ Low(append_hi_byte_to_lo_byte(hi, lo)) = lo
<1>1. hi \in Int /\ lo \in Int /\ 0 <= hi /\ hi <= 255 /\ 0 <= lo /\ lo <= 255
  BY Ranges
<1>2. append_hi_byte_to_lo_byte(hi, lo) \in Word
  BY <1>1, Joined, Ranges DEF append_hi_byte_to_lo_byte
<1>3. /\ High(append_hi_byte_to_lo_byte(hi, lo)) = hi
      /\ Low(append_hi_byte_to_lo_byte(hi, lo)) = lo
  BY <1>1, UpperPart, LowerPart DEF High, Low, append_hi_byte_to_lo_byte
<1> QED BY <1>2, <1>3

LEMMA OnBus ==
  ASSUME NEW hi \in Byte, NEW lo \in Int
  PROVE  /\ Bus(hi, lo) \in Word
         /\ High(Bus(hi, lo)) = hi /\ Low(Bus(hi, lo)) = Uint8(lo)
BY Narrowed, Appended DEF Bus

LEMMA ByteOfBits == \A bits : ValueOf(bits) \in Byte
<1> TAKE bits
<1>1. ValueOf(bits) \in Int /\ 0 <= ValueOf(bits) /\ ValueOf(bits) <= 255
  BY DEF ValueOf
<1> QED BY <1>1, Ranges

LEMMA OperandsAreBytes == \A m \in Operands : m \in Byte /\ m \in Int
BY OperandAssumption, Ranges

-----------------------------------------------------------------------------
(* TYPES *)

AluTypeOK ==
  /\ reg \in [Register -> Byte]
  /\ P \subseteq Flags /\ "U" \in P
  /\ written \in NoneOrByte

AddressTypeOK ==
  /\ PC \in Word
  /\ bytes.hi \in Byte /\ bytes.lo \in Byte /\ bytes.offset \in Offset
  /\ early \in NoneOrWord
  /\ late \in BOOLEAN /\ fixed_cycles \in BOOLEAN
  /\ target_addr \in Word

StackTypeOK ==
  /\ stack \in 0..StackSize - 1
  /\ page \in [0..StackSize - 1 -> Byte]

(* The work on a long number is one of Tasks, begun or done.               *)
LongTasks == [ task : {"add", "subtract", "compare", "double", "halve"},
               x : Operand, y : Operand, step : Nat, kept : Seq(Byte) ]

ProgramTypeOK ==
  /\ uses \in Uses
  /\ IF uses[2] = "long" THEN long \in LongTasks ELSE long = Nothing

TypeInv == AluTypeOK /\ AddressTypeOK /\ StackTypeOK /\ ProgramTypeOK

LEMMA TypeParts == AluTypeOK /\ AddressTypeOK /\ StackTypeOK => CpuTypeOK
BY Zenon DEF CpuTypeOK, AluTypeOK, AddressTypeOK, StackTypeOK, NoneOrByte, NoneOrWord, Offset

LEMMA NoneTypes ==
  /\ None \in NoneOrByte /\ NoAddress \in NoneOrWord
  /\ Byte \subseteq NoneOrByte /\ Word \subseteq NoneOrWord
  /\ \A value \in NoneOrByte : value # None => value \in Byte
<1>1. /\ None \in Int /\ None <= 256 /\ 256 <= None
      /\ NoAddress \in Int /\ NoAddress <= 65536 /\ 65536 <= NoAddress
  BY DEF None, NoAddress
<1> QED BY <1>1, Ranges

(* Registers and flags that are updated keep their types.                   *)
LEMMA UpdateTypes ==
  ASSUME AluTypeOK, NEW fs, "U" \notin fs, NEW set \in SUBSET Flags, update(fs, set)
  PROVE  P' \subseteq Flags /\ "U" \in P'
BY DEF AluTypeOK, update

LEMMA IntoTypes ==
  ASSUME AluTypeOK, NEW r \in Register, NEW value \in Byte, Into(r, value)
  PROVE  reg' \in [Register -> Byte] /\ written' \in NoneOrByte
BY NoneTypes DEF AluTypeOK, Into

LEMMA FlagTypes ==
  /\ \A value : NZ(value) \in SUBSET Flags
  /\ \A f \in Flags : \A set : Flag(f, set) \in SUBSET Flags
BY DEF NZ, Flag, Flags

LEMMA RegisterBytes ==
  ASSUME AluTypeOK
  PROVE  /\ \A r \in Register : reg[r] \in Byte /\ reg[r] \in Int
         /\ "A" \in Register /\ "X" \in Register /\ "Y" \in Register
         /\ Carry \in {0, 1}
<1>1. reg \in [Register -> Byte]
  BY DEF AluTypeOK
<1>2. \A r \in Register : reg[r] \in Byte /\ reg[r] \in Int
  BY <1>1, Wholes
<1>3. "A" \in Register /\ "X" \in Register /\ "Y" \in Register /\ Carry \in {0, 1}
  BY DEF Register, Carry
<1> QED BY <1>1, <1>2, <1>3

LEMMA ShiftedTypes ==
  ASSUME AluTypeOK, NEW op \in {"ASL", "LSR", "ROL", "ROR"}, NEW value \in Byte
  PROVE  Shifted(op, value) \in Byte
<1>1. Carry \in Int /\ 0 <= Carry /\ Carry <= 1
  BY RegisterBytes
<1>2. value \in Int /\ 0 <= value /\ value <= 255
  BY Ranges
<1>3. CASE op = "ASL"
  BY <1>2, <1>3, Narrowed DEF Shifted
<1>4. CASE op = "ROL"
  <2>1. /\ (2 * value) % 256 \in Int /\ 0 <= (2 * value) % 256
        /\ (2 * value) % 256 <= 254
    BY <1>2
  <2>2. Uint8(2 * value) + Carry \in Byte
    BY <1>1, <2>1, Ranges DEF Uint8
  <2> QED BY <1>4, <2>2 DEF Shifted
<1>5. value \div 2 \in Int /\ 0 <= value \div 2 /\ value \div 2 <= 127
  BY <1>2
<1>6. CASE op = "LSR"
  BY <1>5, <1>6, Ranges DEF Shifted
<1>7. CASE op = "ROR"
  <2>1. (value \div 2) + (128 * Carry) \in Byte
    BY <1>1, <1>5, Ranges
  <2> QED BY <1>7, <2>1 DEF Shifted
<1> QED BY <1>3, <1>4, <1>6, <1>7

LEMMA ShiftTypes ==
  ASSUME AluTypeOK, NEW op \in {"ASL", "LSR", "ROL", "ROR"}, NEW value \in Byte, Shift(op, value)
  PROVE  P' \subseteq Flags /\ "U" \in P'
<1>1. NZ(Shifted(op, value)) \union Flag("C", ShiftedOut(op, value)) \in SUBSET Flags
  BY FlagTypes DEF Flags
<1> QED BY <1>1, UpdateTypes DEF Shift

LEMMA LDTypes ==
  ASSUME AluTypeOK, NEW r \in Register, NEW m \in Byte, execute_LD(r, m)
  PROVE  AluTypeOK'
<1>1. P' \subseteq Flags /\ "U" \in P'
  BY UpdateTypes, FlagTypes DEF execute_LD
<1> QED BY <1>1, IntoTypes DEF execute_LD, AluTypeOK

LEMMA STTypes ==
  ASSUME AluTypeOK, NEW r \in Register, execute_ST(r)
  PROVE  AluTypeOK'
BY RegisterBytes, NoneTypes DEF execute_ST, AluTypeOK

LEMMA TTypes ==
  ASSUME AluTypeOK, NEW from \in Register, NEW to \in Register, execute_T(from, to)
  PROVE  AluTypeOK'
<1>1. P' \subseteq Flags /\ "U" \in P'
  BY UpdateTypes, FlagTypes DEF execute_T
<1> QED BY <1>1, IntoTypes, RegisterBytes DEF execute_T, AluTypeOK

LEMMA ADCTypes ==
  ASSUME AluTypeOK, NEW m \in Byte, execute_ADC(m)
  PROVE  AluTypeOK'
<1> DEFINE result == Uint8(Sum(m))
           overflow == Sign(reg["A"]) = Sign(m) /\ Sign(reg["A"]) # Sign(result)
           set == NZ(result) \union Flag("V", overflow) \union Flag("C", Sum(m) > 255)
<1>1. Into("A", result) /\ update({"N", "V", "Z", "C"}, set)
  BY DEF execute_ADC
<1>2. set \in SUBSET Flags
  BY FlagTypes DEF Flags
<1>3. Sum(m) \in Int
  BY RegisterBytes, Ranges DEF Sum
<1>4. result \in Byte
  BY <1>3, Narrowed
<1> HIDE DEF result, set
<1> QED BY <1>1, <1>2, <1>4, UpdateTypes, IntoTypes, RegisterBytes DEF AluTypeOK

LEMMA SBCTypes ==
  ASSUME AluTypeOK, NEW m \in Byte, execute_SBC(m)
  PROVE  AluTypeOK'
<1> DEFINE difference == reg["A"] - m - (1 - Carry)
           result == Uint8(difference)
           set == NZ(result) \union Flag("V", SbcOverflow(m, result))
                    \union Flag("C", difference >= 0)
<1>1. Into("A", result) /\ update({"N", "V", "Z", "C"}, set)
  BY DEF execute_SBC
<1>2. set \in SUBSET Flags
  BY FlagTypes DEF Flags
<1>3. difference \in Int
  BY RegisterBytes, Ranges
<1>4. result \in Byte
  BY <1>3, Narrowed
<1> HIDE DEF result, set
<1> QED BY <1>1, <1>2, <1>4, UpdateTypes, IntoTypes, RegisterBytes DEF AluTypeOK

LEMMA CPTypes ==
  ASSUME AluTypeOK, NEW r \in Register, NEW m \in Byte, execute_CP(r, m)
  PROVE  AluTypeOK'
<1>1. NZ(Uint8(reg[r] - m)) \union Flag("C", m <= reg[r]) \in SUBSET Flags
  BY FlagTypes DEF Flags
<1>2. P' \subseteq Flags /\ "U" \in P'
  BY <1>1, UpdateTypes DEF execute_CP
<1> QED BY <1>2, NoneTypes DEF execute_CP, AluTypeOK

LEMMA CountTypes ==
  ASSUME AluTypeOK, NEW r \in Register, NEW by \in {-1, 1}, Count(r, by)
  PROVE  AluTypeOK'
<1>1. Uint8(reg[r] + by) \in Byte
  BY RegisterBytes, Narrowed
<1>2. P' \subseteq Flags /\ "U" \in P'
  BY UpdateTypes, FlagTypes DEF Count
<1> QED BY <1>1, <1>2, IntoTypes DEF Count, AluTypeOK

LEMMA CountMemoryTypes ==
  ASSUME AluTypeOK, NEW m \in Byte, NEW by \in {-1, 1}, CountMemory(m, by)
  PROVE  AluTypeOK'
<1>1. m + by \in Int
  BY Ranges
<1>2. Uint8(m + by) \in Byte
  BY <1>1, Narrowed
<1>3. P' \subseteq Flags /\ "U" \in P'
  BY UpdateTypes, FlagTypes DEF CountMemory
<1> QED BY <1>2, <1>3, NoneTypes DEF CountMemory, AluTypeOK

LEMMA LogicTypes ==
  ASSUME AluTypeOK, NEW op, NEW m, Logic(op, m)
  PROVE  AluTypeOK'
<1> DEFINE result == ValueOf(Combined(op, BitsOf(reg["A"]), BitsOf(m)))
<1>1. Into("A", result) /\ update({"N", "Z"}, NZ(result))
  BY DEF Logic
<1>2. result \in Byte
  BY ByteOfBits
<1> HIDE DEF result
<1> QED BY <1>1, <1>2, UpdateTypes, FlagTypes, IntoTypes, RegisterBytes DEF AluTypeOK

LEMMA BITTypes ==
  ASSUME AluTypeOK, NEW m, execute_BIT(m)
  PROVE  AluTypeOK'
<1> DEFINE set == Flag("N", 7 \in BitsOf(m)) \union Flag("V", 6 \in BitsOf(m))
                    \union Flag("Z", BitsOf(m) \intersect BitsOf(reg["A"]) = {})
<1>1. set \in SUBSET Flags
  BY FlagTypes DEF Flags
<1>2. update({"N", "V", "Z"}, set) /\ written' = None /\ reg' = reg
  BY DEF execute_BIT
<1> HIDE DEF set
<1> QED BY <1>1, <1>2, UpdateTypes, NoneTypes DEF AluTypeOK

LEMMA ShiftAccumulatorTypes ==
  ASSUME AluTypeOK, NEW op \in {"ASL", "LSR", "ROL", "ROR"}, ShiftAccumulator(op)
  PROVE  AluTypeOK'
<1>1. reg["A"] \in Byte /\ "A" \in Register
  BY RegisterBytes
<1>2. P' \subseteq Flags /\ "U" \in P'
  BY <1>1, ShiftTypes DEF ShiftAccumulator
<1>3. Shifted(op, reg["A"]) \in Byte
  BY <1>1, ShiftedTypes
<1> QED BY <1>1, <1>2, <1>3, IntoTypes DEF ShiftAccumulator, AluTypeOK

LEMMA ShiftMemoryTypes ==
  ASSUME AluTypeOK, NEW op \in {"ASL", "LSR", "ROL", "ROR"}, NEW m \in Byte, ShiftMemory(op, m)
  PROVE  AluTypeOK'
<1>1. P' \subseteq Flags /\ "U" \in P'
  BY ShiftTypes DEF ShiftMemory
<1> QED BY <1>1, ShiftedTypes, NoneTypes DEF ShiftMemory, AluTypeOK

LEMMA SetFlagTypes ==
  ASSUME AluTypeOK, NEW f \in {"C", "V"}, NEW set \in BOOLEAN, SetFlag(f, set)
  PROVE  AluTypeOK'
<1>1. f \in Flags /\ "U" \notin {f}
  BY DEF Flags
<1>2. Flag(f, set) \in SUBSET Flags
  BY <1>1, FlagTypes
<1>3. P' \subseteq Flags /\ "U" \in P'
  BY <1>1, <1>2, UpdateTypes DEF SetFlag
<1> QED BY <1>3, NoneTypes DEF SetFlag, AluTypeOK

(* Whatever instructions a program uses, they keep the types.              *)
LEMMA AluNextTypes ==
  ASSUME AluTypeOK, NEW r \in Register, AluNext(r)
  PROVE  AluTypeOK'
<1>1. CASE execute_ST(r)
  BY <1>1, STTypes
<1>2. CASE \E m \in Operands : execute_LD(r, m) \/ execute_CP(r, m)
  BY <1>2, OperandsAreBytes, LDTypes, CPTypes
<1>3. CASE \E by \in {-1, 1} : r # "A" /\ Count(r, by)
  BY <1>3, CountTypes
<1>4. CASE \E by \in {-1, 1} : \E m \in Operands : CountMemory(m, by)
  BY <1>4, OperandsAreBytes, CountMemoryTypes
<1>5. CASE \E m \in Operands : execute_ADC(m) \/ execute_SBC(m) \/ execute_BIT(m)
  BY <1>5, OperandsAreBytes, ADCTypes, SBCTypes, BITTypes
<1>6. CASE \E m \in Operands, op \in {"AND", "ORA", "EOR"} : Logic(op, m)
  BY <1>6, LogicTypes
<1>7. CASE \E op \in {"ASL", "LSR", "ROL", "ROR"} :
             ShiftAccumulator(op) \/ \E m \in Operands : ShiftMemory(op, m)
  BY <1>7, OperandsAreBytes, ShiftAccumulatorTypes, ShiftMemoryTypes
<1>8. CASE \E f \in {"C", "V"}, set \in BOOLEAN : SetFlag(f, set)
  BY <1>8, SetFlagTypes
<1>9. CASE execute_NOP
  BY <1>9, NoneTypes DEF execute_NOP, AluTypeOK
<1> QED BY <1>1, <1>2, <1>3, <1>4, <1>5, <1>6, <1>7, <1>8, <1>9, Zenon DEF AluNext

(* The fields of what an instruction reads.                                *)
LEMMA Read ==
  ASSUME NEW hi \in Byte, NEW lo \in Byte, NEW pointer
  PROVE  /\ At(hi, lo).hi = hi /\ At(hi, lo).lo = lo
         /\ At(hi, lo).offset = 0 /\ At(hi, lo).pointer = <<>>
         /\ Through(hi, lo, pointer).hi = hi /\ Through(hi, lo, pointer).lo = lo
         /\ Through(hi, lo, pointer).offset = 0 /\ Through(hi, lo, pointer).pointer = pointer
BY DEF At, Through, NoBytes

LEMMA ReadNothing ==
  /\ NoBytes.hi = 0 /\ NoBytes.lo = 0 /\ NoBytes.offset = 0 /\ NoBytes.pointer = <<>>
  /\ 0 \in Byte /\ 0 \in Word /\ 0 \in Offset /\ 0 \in Int
BY Ranges DEF NoBytes

ReadTypeOK(read) == read.hi \in Byte /\ read.lo \in Byte /\ read.offset \in Offset

LEMMA DecodedTypes ==
  ASSUME AddressTypeOK, NEW mode, NEW read, ReadTypeOK(read),
         NEW address \in Word, Decoded(mode, read, address)
  PROVE  AddressTypeOK'
BY NoneTypes DEF AddressTypeOK, ReadTypeOK, Decoded

LEMMA IndexedTypes ==
  ASSUME AluTypeOK, AddressTypeOK, NEW mode, NEW r \in Register,
         NEW read, ReadTypeOK(read), NEW fixed \in BOOLEAN, Indexed(mode, r, read, fixed)
  PROVE  AddressTypeOK'
<1>1. /\ read.lo + reg[r] \in Int
      /\ append_hi_byte_to_lo_byte(read.hi, read.lo) + reg[r] \in Int
  <2>1. read.lo \in Int /\ reg[r] \in Int
    BY RegisterBytes, Wholes DEF ReadTypeOK
  <2>2. append_hi_byte_to_lo_byte(read.hi, read.lo) \in Int
    BY Wholes, Appended DEF ReadTypeOK
  <2> QED BY <2>1, <2>2
<1>2. /\ Bus(read.hi, read.lo + reg[r]) \in Word
      /\ Uint16(append_hi_byte_to_lo_byte(read.hi, read.lo) + reg[r]) \in Word
  BY <1>1, OnBus, Narrowed DEF ReadTypeOK
<1>3. late' \in BOOLEAN
  BY DEF Indexed, page_cross_occurs
<1>4. early' \in Word /\ target_addr' \in Word
  BY <1>2 DEF Indexed
<1> QED BY <1>3, <1>4, NoneTypes DEF Indexed, AddressTypeOK, ReadTypeOK

LEMMA DecodeTypes ==
  ASSUME AluTypeOK, AddressTypeOK, NEW r \in Register, Decode(r)
  PROVE  AddressTypeOK'
<1>1. PICK lo \in Operands :
        \/ decode_ZP(lo)
        \/ decode_ZPI("ZPX", "X", lo)
        \/ decode_ZPI("ZPY", "Y", lo)
        \/ \E hi \in Operands :
             \/ decode_ABS(hi, lo)
             \/ \E fixed \in BOOLEAN :
                  \/ decode_ABSI("ABSX", "X", hi, lo, fixed)
                  \/ decode_ABSI("ABSY", "Y", hi, lo, fixed)
                  \/ \E base \in Operands : decode_INDY(base, hi, lo, fixed)
             \/ \E base \in Operands : decode_INDX(base, hi, lo)
  BY Zenon DEF Decode
<1>2. lo \in Byte /\ lo \in Int /\ lo \in Word
  BY OperandsAreBytes, Ranges
<1>3. \A hi \in Operands : \A pointer :
        /\ ReadTypeOK(At(hi, lo)) /\ ReadTypeOK(At(0, lo))
        /\ ReadTypeOK(Through(hi, lo, pointer))
  BY <1>2, OperandsAreBytes, Read, ReadNothing DEF ReadTypeOK
<1>4. CASE decode_ZP(lo)
  BY <1>2, <1>3, <1>4, DecodedTypes DEF decode_ZP
<1>5. \A i \in Register : Uint8(lo + reg[i]) \in Word
  <2>1. \A i \in Register : lo + reg[i] \in Int
    BY <1>2, RegisterBytes
  <2> QED BY <2>1, Narrowed, ByteIsWord
<1>6. CASE decode_ZPI("ZPX", "X", lo) \/ decode_ZPI("ZPY", "Y", lo)
  BY <1>3, <1>5, <1>6, RegisterBytes, DecodedTypes DEF decode_ZPI
<1>7. ASSUME NEW hi \in Operands, decode_ABS(hi, lo) PROVE AddressTypeOK'
  BY <1>2, <1>3, <1>7, OperandsAreBytes, OnBus, DecodedTypes DEF decode_ABS
<1>8. ASSUME NEW hi \in Operands, NEW fixed \in BOOLEAN,
             decode_ABSI("ABSX", "X", hi, lo, fixed) \/ decode_ABSI("ABSY", "Y", hi, lo, fixed)
      PROVE  AddressTypeOK'
  BY <1>3, <1>8, RegisterBytes, IndexedTypes DEF decode_ABSI
<1>9. ASSUME NEW hi \in Operands, NEW fixed \in BOOLEAN, NEW base \in Operands,
             decode_INDY(base, hi, lo, fixed)
      PROVE  AddressTypeOK'
  <2>1. ReadTypeOK(Through(hi, lo, Pointer(0, base))) /\ "Y" \in Register
    BY <1>3, RegisterBytes
  <2> QED BY <1>9, <2>1, IndexedTypes DEF decode_INDY
<1>10. ASSUME NEW hi \in Operands, NEW base \in Operands, decode_INDX(base, hi, lo)
       PROVE  AddressTypeOK'
  BY <1>2, <1>3, <1>10, OperandsAreBytes, Appended, DecodedTypes DEF decode_INDX
<1> QED BY <1>1, <1>4, <1>6, <1>7, <1>8, <1>9, <1>10

LEMMA BxxTypes ==
  ASSUME AddressTypeOK, NEW f, NEW set, NEW offset \in Offset, decode_Bxx(f, set, offset)
  PROVE  AddressTypeOK'
<1>1. /\ PC \in Int /\ offset \in Int /\ High(PC) \in Byte /\ Low(PC) \in Byte
      /\ Low(PC) + offset \in Int /\ PC + offset \in Int
  <2>1. /\ PC \in Int /\ offset \in Int /\ High(PC) \in Byte /\ Low(PC) \in Byte
        /\ Low(PC) \in Int
    BY Wholes, Halves DEF AddressTypeOK
  <2> QED BY <2>1
<1>2. Bus(High(PC), Low(PC) + offset) \in Word /\ Uint16(PC + offset) \in Word
  BY <1>1, OnBus, Narrowed
<1>3. early' \in NoneOrWord /\ late' \in BOOLEAN /\ target_addr' \in Word
  BY <1>2, NoneTypes DEF decode_Bxx, page_cross_occurs, AddressTypeOK
<1>4. bytes'.hi = 0 /\ bytes'.lo = 0 /\ bytes'.offset = offset
  BY DEF decode_Bxx, NoBytes
<1> QED BY <1>3, <1>4, ReadNothing DEF decode_Bxx, AddressTypeOK

LEMMA JumpTypes ==
  ASSUME AddressTypeOK, NEW mode, NEW read, ReadTypeOK(read),
         NEW address \in Word, Jump(mode, read, address)
  PROVE  AddressTypeOK'
BY Appended DEF AddressTypeOK, ReadTypeOK, Jump

LEMMA PointerParts ==
  ASSUME NEW hi \in Byte, NEW lo \in Int
  PROVE  /\ Pointer(hi, lo) # <<>>
         /\ Pointer(hi, lo)[1] = Bus(hi, lo) /\ Pointer(hi, lo)[2] = Bus(hi, lo + 1)
         /\ Pointer(hi, lo)[1] \in Word /\ Pointer(hi, lo)[2] \in Word
BY OnBus DEF Pointer

LEMMA DecodeJumpTypes ==
  ASSUME AddressTypeOK, DecodeJump
  PROVE  AddressTypeOK'
<1>1. ASSUME NEW f, NEW set, NEW offset \in Offsets, decode_Bxx(f, set, offset)
      PROVE  AddressTypeOK'
  BY <1>1, OffsetAssumption, BxxTypes DEF Offset
<1>2. ASSUME NEW hi \in Operands, NEW lo \in Operands, execute_JMP(hi, lo)
      PROVE  AddressTypeOK'
  BY <1>2, OperandsAreBytes, Read, ReadNothing, Appended, JumpTypes
  DEF execute_JMP, ReadTypeOK
<1>3. ASSUME NEW hi \in Operands, NEW lo \in Operands, NEW index_hi \in Operands,
             NEW index_lo \in Operands, execute_JMP_IND(index_hi, index_lo, hi, lo)
      PROVE  AddressTypeOK'
  <2> DEFINE pointer == Pointer(index_hi, index_lo)
             read == Through(hi, lo, pointer)
             address == Uint16(pointer[2] - 1)
  <2>1. pointer[2] \in Int
    BY OperandsAreBytes, PointerParts, Wholes
  <2>2. address \in Word
    BY <2>1, Narrowed
  <2>3. ReadTypeOK(read)
    BY OperandsAreBytes, Read, ReadNothing DEF ReadTypeOK
  <2>4. Jump("IND", read, address)
    BY <1>3 DEF execute_JMP_IND
  <2> HIDE DEF address, read
  <2> QED BY <2>2, <2>3, <2>4, JumpTypes
<1> QED BY <1>1, <1>2, <1>3 DEF DecodeJump

LEMMA ExecuteTypes ==
  ASSUME AddressTypeOK, Execute
  PROVE  AddressTypeOK'
BY ReadNothing, NoneTypes DEF Execute, AddressTypeOK

(* THE STACK                                                                *)

LEMMA StackSizes ==
  /\ StackSize \in Int /\ 6 <= StackSize /\ StackSize <= 256
  /\ Code \subseteq Word /\ Handler \in Code
BY StackAssumption

LEMMA Slots ==
  ASSUME NEW pointer \in Int
  PROVE  /\ Slot(pointer) \in 0..StackSize - 1
         /\ Slot(pointer) \in Int /\ 0 <= Slot(pointer) /\ Slot(pointer) < StackSize
BY StackSizes DEF Slot

LEMMA PushTypes ==
  ASSUME StackTypeOK, NEW values, Len(values) \in Int,
         \A i \in Int : 1 <= i /\ i <= Len(values) => values[i] \in Byte,
         stack_push(values)
  PROVE  StackTypeOK'
<1>1. stack \in Int /\ page \in [0..StackSize - 1 -> Byte]
  BY StackSizes DEF StackTypeOK
<1>2. stack' \in 0..StackSize - 1
  BY <1>1, Slots DEF stack_push
<1>3. ASSUME NEW a \in 0..StackSize - 1 PROVE page'[a] \in Byte
  <2>1. a \in Int /\ a \in DOMAIN page
    BY <1>1, StackSizes
  <2>2. stack - a \in Int
    BY <1>1, <2>1
  <2>3. Slot(stack - a) + 1 \in Int /\ 1 <= Slot(stack - a) + 1
    BY <2>2, Slots
  <2>4. page'[a] = IF Slot(stack - a) + 1 <= Len(values)
                   THEN values[Slot(stack - a) + 1] ELSE page[a]
    BY <2>1 DEF stack_push
  <2>5. page[a] \in Byte
    BY <1>1
  <2> QED BY <2>3, <2>4, <2>5
<1>4. page' \in [0..StackSize - 1 -> Byte]
  <2>1. DOMAIN page = 0..StackSize - 1
    BY <1>1
  <2>2. page' = [a \in 0..StackSize - 1 |-> page'[a]]
    BY <2>1 DEF stack_push
  <2> QED BY <1>3, <2>2
<1> QED BY <1>2, <1>4 DEF StackTypeOK

LEMMA PullTypes ==
  ASSUME StackTypeOK, NEW n \in Int
  PROVE  /\ Pulled(n) \in Byte
         /\ stack_pull(n) => StackTypeOK'
<1>1. stack + n \in Int
  BY StackSizes DEF StackTypeOK
<1> QED BY <1>1, Slots DEF StackTypeOK, Pulled, stack_pull

LEMMA StatusTypes ==
  /\ \A flags : StatusByte(flags) \in Byte
  /\ \A byte : FlagsOf(byte) \subseteq Flags
BY ByteOfBits DEF StatusByte, FlagsOf

LEMMA InterruptTypes ==
  ASSUME AluTypeOK, StackTypeOK, NEW address \in Word, NEW status, Interrupted(address, status)
  PROVE  StackTypeOK' /\ P' \subseteq Flags /\ "U" \in P' /\ reg' = reg
<1> DEFINE values == <<High(address), Low(address), StatusByte(status)>>
<1>1. High(address) \in Byte /\ Low(address) \in Byte /\ StatusByte(status) \in Byte
  BY Halves, StatusTypes
<1>2. Len(values) = 3 /\ values[1] \in Byte /\ values[2] \in Byte /\ values[3] \in Byte
  BY <1>1
<1>3. \A i \in Int : 1 <= i /\ i <= Len(values) => values[i] \in Byte
  <2>1. \A i \in Int : 1 <= i /\ i <= 3 => i = 1 \/ i = 2 \/ i = 3
    OBVIOUS
  <2> HIDE DEF values
  <2> QED BY <1>2, <2>1
<1>4. stack_push(values)
  BY DEF Interrupted
<1>5. P' = P \union {"I"} /\ reg' = reg
  BY DEF Interrupted
<1> HIDE DEF values
<1>6. StackTypeOK'
  BY <1>2, <1>3, <1>4, PushTypes
<1> QED BY <1>5, <1>6 DEF AluTypeOK, Flags

(* An action of Calls, with the types of what it changes.                  *)
LEMMA CallTypes ==
  ASSUME AluTypeOK, AddressTypeOK, StackTypeOK, Calls
  PROVE  AluTypeOK' /\ AddressTypeOK' /\ StackTypeOK'
<1> DEFINE Registers == reg' \in [Register -> Byte] /\ P' \subseteq Flags /\ "U" \in P'
<1>1. PC \in Word /\ PC \in Int /\ "A" \in Register /\ reg["A"] \in Byte
  BY RegisterBytes, Wholes DEF AddressTypeOK
<1>2. ASSUME NEW target, execute_JSR(target) PROVE Registers /\ StackTypeOK'
  <2> DEFINE last == Uint16(PC + 2)
             values == <<High(last), Low(last)>>
  <2>1. PC + 2 \in Int
    BY <1>1
  <2>2. High(last) \in Byte /\ Low(last) \in Byte
    BY <2>1, Narrowed, Halves
  <2>3. Len(values) = 2 /\ values[1] \in Byte /\ values[2] \in Byte
    BY <2>2
  <2>4. \A i \in Int : 1 <= i /\ i <= Len(values) => values[i] \in Byte
    <3>1. \A i \in Int : 1 <= i /\ i <= 2 => i = 1 \/ i = 2
      OBVIOUS
    <3> HIDE DEF values
    <3> QED BY <2>3, <3>1
  <2>5. stack_push(values) /\ reg' = reg /\ P' = P
    BY <1>2 DEF execute_JSR
  <2> HIDE DEF values
  <2> QED BY <2>3, <2>4, <2>5, PushTypes DEF AluTypeOK
<1>3. ASSUME execute_RTS PROVE Registers /\ StackTypeOK'
  BY <1>3, PullTypes DEF execute_RTS, AluTypeOK
<1>4. ASSUME NEW value \in Byte, stack_push(<<value>>) PROVE StackTypeOK'
  <2> DEFINE values == <<value>>
  <2>1. Len(values) = 1 /\ values[1] \in Byte
    OBVIOUS
  <2>2. \A i \in Int : 1 <= i /\ i <= Len(values) => values[i] \in Byte
    <3>1. \A i \in Int : 1 <= i /\ i <= 1 => i = 1
      OBVIOUS
    <3> HIDE DEF values
    <3> QED BY <2>1, <3>1
  <2>3. stack_push(values)
    BY <1>4
  <2> HIDE DEF values
  <2> QED BY <2>1, <2>2, <2>3, PushTypes
<1>5. ASSUME execute_PHA PROVE Registers /\ StackTypeOK'
  BY <1>1, <1>4, <1>5 DEF execute_PHA, AluTypeOK
<1>6. ASSUME execute_PLA PROVE Registers /\ StackTypeOK'
  <2>1. Pulled(1) \in Byte /\ StackTypeOK'
    BY <1>6, PullTypes DEF execute_PLA
  <2>2. P' \subseteq Flags /\ "U" \in P'
    BY <1>6, UpdateTypes, FlagTypes DEF execute_PLA
  <2> QED BY <1>1, <1>6, <2>1, <2>2 DEF execute_PLA, AluTypeOK
<1>7. ASSUME execute_PHP PROVE Registers /\ StackTypeOK'
  BY <1>4, <1>7, StatusTypes DEF execute_PHP, AluTypeOK
<1>8. ASSUME execute_PLP PROVE Registers /\ StackTypeOK'
  <2>1. StackTypeOK' /\ reg' = reg
    BY <1>8, PullTypes DEF execute_PLP
  <2>2. P' \subseteq Flags /\ "U" \in P'
    BY <1>8, StatusTypes DEF execute_PLP, Flags
  <2> QED BY <2>1, <2>2 DEF AluTypeOK
<1>9. ASSUME execute_BRK PROVE Registers /\ StackTypeOK'
  <2>1. PC + 2 \in Int
    BY <1>1
  <2>2. Uint16(PC + 2) \in Word
    BY <2>1, Narrowed
  <2> QED BY <1>9, <2>2, InterruptTypes DEF execute_BRK, AluTypeOK
<1>10. ASSUME execute_NMI PROVE Registers /\ StackTypeOK'
  BY <1>1, <1>10, InterruptTypes DEF execute_NMI, AluTypeOK
<1>11. ASSUME execute_RTI PROVE Registers /\ StackTypeOK'
  <2>1. StackTypeOK' /\ reg' = reg
    BY <1>11, PullTypes DEF execute_RTI
  <2>2. P' \subseteq Flags /\ "U" \in P'
    BY <1>11, StatusTypes DEF execute_RTI, Flags
  <2> QED BY <2>1, <2>2 DEF AluTypeOK
<1>12. Registers /\ StackTypeOK'
  <2>1. \/ \E target \in Code : execute_JSR(target)
        \/ execute_RTS \/ execute_PHA \/ execute_PLA \/ execute_PHP \/ execute_PLP
        \/ execute_BRK \/ execute_NMI \/ execute_RTI
    BY Zenon DEF Calls
  <2> QED BY <1>2, <1>3, <1>5, <1>6, <1>7, <1>8, <1>9, <1>10, <1>11, <2>1
<1>13. /\ PC' \in Code
       /\ UNCHANGED <<written, bytes, fixed_cycles, early, late, target_addr>>
  BY DEF Calls
<1>14. AddressTypeOK'
  BY <1>13, StackSizes DEF AddressTypeOK
<1> QED BY <1>12, <1>13, <1>14 DEF AluTypeOK

(* PROGRAMS                                                                 *)

LEMMA UsesParts ==
  ASSUME uses \in Uses
  PROVE  /\ uses[2] = "compute" => uses[1] \in Register
         /\ uses[2] = "index" => uses[1] \in {"X", "Y"} /\ uses[1] \in Register
BY DEF Uses, Register

Mnemonics == { "LD lo", "LD hi", "CLC", "SEC", "ST", "ADC lo", "ADC hi", "SBC lo", "SBC hi",
               "CMP lo", "ASL", "ROR", "ROL", "LSR" }

LEMMA Scripts ==
  /\ /\ Len(Script("add")) = 7 /\ Script("add")[1] = "LD lo" /\ Script("add")[2] = "CLC"
     /\ Script("add")[3] = "ADC lo" /\ Script("add")[4] = "ST" /\ Script("add")[5] = "LD hi"
     /\ Script("add")[6] = "ADC hi" /\ Script("add")[7] = "ST"
  /\ /\ Len(Script("subtract")) = 7 /\ Script("subtract")[1] = "LD lo"
     /\ Script("subtract")[2] = "SEC" /\ Script("subtract")[3] = "SBC lo"
     /\ Script("subtract")[4] = "ST" /\ Script("subtract")[5] = "LD hi"
     /\ Script("subtract")[6] = "SBC hi" /\ Script("subtract")[7] = "ST"
  /\ /\ Len(Script("compare")) = 4
     /\ Script("compare")[1] = "LD lo" /\ Script("compare")[2] = "CMP lo"
     /\ Script("compare")[3] = "LD hi" /\ Script("compare")[4] = "SBC hi"
  /\ /\ Len(Script("double")) = 2 /\ Script("double")[1] = "ASL" /\ Script("double")[2] = "ROL"
  /\ /\ Len(Script("halve")) = 2 /\ Script("halve")[1] = "LSR" /\ Script("halve")[2] = "ROR"
BY DEF Script

LEMMA ScriptNames ==
  ASSUME NEW task \in {"add", "subtract", "compare", "double", "halve"},
         NEW i \in Nat, i < Len(Script(task))
  PROVE  Script(task)[i + 1] \in Mnemonics
<1>1. CASE task = "add"
  <2>1. /\ Len(Script(task)) = 7 /\ Script(task)[1] \in Mnemonics
        /\ Script(task)[2] \in Mnemonics /\ Script(task)[3] \in Mnemonics
        /\ Script(task)[4] \in Mnemonics /\ Script(task)[5] \in Mnemonics
        /\ Script(task)[6] \in Mnemonics /\ Script(task)[7] \in Mnemonics
    BY <1>1, Scripts DEF Mnemonics
  <2>2. i + 1 \in 1..7
    BY <2>1
  <2> QED BY <2>1, <2>2
<1>2. CASE task = "subtract"
  <2>1. /\ Len(Script(task)) = 7 /\ Script(task)[1] \in Mnemonics
        /\ Script(task)[2] \in Mnemonics /\ Script(task)[3] \in Mnemonics
        /\ Script(task)[4] \in Mnemonics /\ Script(task)[5] \in Mnemonics
        /\ Script(task)[6] \in Mnemonics /\ Script(task)[7] \in Mnemonics
    BY <1>2, Scripts DEF Mnemonics
  <2>2. i + 1 \in 1..7
    BY <2>1
  <2> QED BY <2>1, <2>2
<1>3. CASE task = "compare"
  <2>1. /\ Len(Script(task)) = 4 /\ Script(task)[1] \in Mnemonics
        /\ Script(task)[2] \in Mnemonics /\ Script(task)[3] \in Mnemonics
        /\ Script(task)[4] \in Mnemonics
    BY <1>3, Scripts DEF Mnemonics
  <2>2. i + 1 \in 1..4
    BY <2>1
  <2> QED BY <2>1, <2>2
<1>4. CASE task = "double"
  <2>1. /\ Len(Script(task)) = 2 /\ Script(task)[1] \in Mnemonics
        /\ Script(task)[2] \in Mnemonics
    BY <1>4, Scripts DEF Mnemonics
  <2>2. i + 1 \in 1..2
    BY <2>1
  <2> QED BY <2>1, <2>2
<1>5. CASE task = "halve"
  <2>1. /\ Len(Script(task)) = 2 /\ Script(task)[1] \in Mnemonics
        /\ Script(task)[2] \in Mnemonics
    BY <1>5, Scripts DEF Mnemonics
  <2>2. i + 1 \in 1..2
    BY <2>1
  <2> QED BY <2>1, <2>2
<1> QED BY <1>1, <1>2, <1>3, <1>4, <1>5

LEMMA InstructedTypes ==
  ASSUME AluTypeOK, long \in LongTasks, NEW name \in Mnemonics, Instructed(name)
  PROVE  AluTypeOK'
<1>1. /\ long.x.lo \in Byte /\ long.x.hi \in Byte /\ long.y.lo \in Byte /\ long.y.hi \in Byte
      /\ "A" \in Register
  BY OperandsAreBytes, RegisterBytes DEF LongTasks, Operand
<1>2. CASE name = "LD lo"
  BY <1>1, <1>2, LDTypes DEF Instructed
<1>3. CASE name = "LD hi"
  BY <1>1, <1>3, LDTypes DEF Instructed
<1>4. CASE name = "CLC"
  BY <1>4, SetFlagTypes DEF Instructed
<1>5. CASE name = "SEC"
  BY <1>5, SetFlagTypes DEF Instructed
<1>6. CASE name = "ST"
  BY <1>1, <1>6, STTypes DEF Instructed
<1>7. CASE name = "ADC lo"
  BY <1>1, <1>7, ADCTypes DEF Instructed
<1>8. CASE name = "ADC hi"
  BY <1>1, <1>8, ADCTypes DEF Instructed
<1>9. CASE name = "SBC lo"
  BY <1>1, <1>9, SBCTypes DEF Instructed
<1>10. CASE name = "SBC hi"
  BY <1>1, <1>10, SBCTypes DEF Instructed
<1>11. CASE name = "CMP lo"
  BY <1>1, <1>11, CPTypes DEF Instructed
<1>12. CASE name \in {"ASL", "ROR"}
  BY <1>1, <1>12, ShiftMemoryTypes DEF Instructed
<1>13. CASE name \in {"ROL", "LSR"}
  BY <1>1, <1>13, ShiftMemoryTypes DEF Instructed
<1> QED BY <1>2, <1>3, <1>4, <1>5, <1>6, <1>7, <1>8, <1>9, <1>10, <1>11, <1>12, <1>13 DEF Mnemonics

LEMMA ComputesLongTypes ==
  ASSUME AluTypeOK, long \in LongTasks, ComputesLong
  PROVE  AluTypeOK' /\ long' \in LongTasks
<1> DEFINE name == Script(long.task)[long.step + 1]
<1>1. name \in Mnemonics /\ Instructed(name)
  BY ScriptNames DEF ComputesLong, LongTasks
<1>2. AluTypeOK'
  BY <1>1, InstructedTypes
<1>3. written' # None => written' \in Byte
  BY <1>2, NoneTypes DEF AluTypeOK
<1> DEFINE kept == IF written' = None THEN long.kept ELSE Append(long.kept, written')
<1>4. kept \in Seq(Byte) /\ long.step + 1 \in Nat
  BY <1>3 DEF LongTasks
<1>5. long' = [long EXCEPT !.step = long.step + 1, !.kept = kept]
  BY DEF ComputesLong
<1> HIDE DEF kept
<1>6. long' \in LongTasks
  BY <1>4, <1>5 DEF LongTasks
<1> QED BY <1>2, <1>6

LEMMA TypesInit == ProgramInit => TypeInv
<1> SUFFICES ASSUME ProgramInit PROVE TypeInv
  OBVIOUS
<1>1. AluTypeOK
  BY ReadNothing, NoneTypes DEF ProgramInit, AluInit, AluTypeOK, Register, Flags
<1>2. AddressTypeOK
  BY ReadNothing, NoneTypes DEF ProgramInit, AddressInit, AddressTypeOK
<1>3. StackTypeOK
  <2>1. 0 \in 0..StackSize - 1 /\ 0 \in Byte
    BY StackSizes, ReadNothing
  <2>2. stack \in 0..StackSize - 1
    BY <2>1 DEF ProgramInit
  <2>3. page = [a \in 0..StackSize - 1 |-> 0]
    BY DEF ProgramInit
  <2> QED BY <2>1, <2>2, <2>3 DEF StackTypeOK
<1>4. \A task \in Tasks : task \in LongTasks
  <2>1. \A t \in {"add", "subtract", "compare", "double", "halve"}, x \in Operand, y \in Operand :
          Task(t, x, y) \in LongTasks
    BY DEF Task, LongTasks
  <2> QED BY <2>1 DEF Tasks
<1>5. ProgramTypeOK
  BY <1>4 DEF ProgramInit, ProgramTypeOK
<1> QED BY <1>1, <1>2, <1>3, <1>5 DEF TypeInv

LEMMA TypesStep == TypeInv /\ [ProgramNext]_program_vars => TypeInv'
<1> SUFFICES ASSUME TypeInv, [ProgramNext]_program_vars
             PROVE  TypeInv'
  OBVIOUS
<1>1. AluTypeOK /\ AddressTypeOK /\ StackTypeOK /\ ProgramTypeOK
  BY DEF TypeInv
<1> DEFINE AluSame == reg' = reg /\ P' = P /\ written' = written
           AddressSame == /\ PC' = PC /\ bytes' = bytes /\ fixed_cycles' = fixed_cycles
                          /\ early' = early /\ late' = late /\ target_addr' = target_addr
           StackSame == stack' = stack /\ page' = page
           ProgramSame == uses' = uses /\ long' = long
<1>2. /\ AluSame => AluTypeOK'
      /\ AddressSame => AddressTypeOK'
      /\ StackSame => StackTypeOK'
      /\ ProgramSame => ProgramTypeOK'
  BY <1>1 DEF AluTypeOK, AddressTypeOK, StackTypeOK, ProgramTypeOK
<1>3. CASE Computes /\ UNCHANGED uses
  <2>1. AluTypeOK'
    BY <1>1, <1>3, UsesParts, AluNextTypes DEF Computes, ProgramTypeOK
  <2>2. AddressSame /\ StackSame /\ ProgramSame
    BY <1>3 DEF Computes, address_vars
  <2> QED BY <1>2, <2>1, <2>2 DEF TypeInv
<1>4. CASE ComputesLong /\ UNCHANGED uses
  <2>1. uses[2] = "long" /\ uses' = uses /\ long \in LongTasks
    BY <1>1, <1>4 DEF ComputesLong, ProgramTypeOK
  <2>2. AluTypeOK' /\ long' \in LongTasks
    BY <1>1, <1>4, <2>1, ComputesLongTypes
  <2>3. AddressSame /\ StackSame
    BY <1>4 DEF ComputesLong, address_vars
  <2>4. ProgramTypeOK'
    BY <1>1, <2>1, <2>2 DEF ProgramTypeOK
  <2> QED BY <1>2, <2>2, <2>3, <2>4 DEF TypeInv
<1>5. CASE Indexes /\ UNCHANGED uses
  <2>1. uses[1] \in {"X", "Y"} /\ uses[1] \in Register /\ "A" \in Register
    BY <1>1, <1>5, UsesParts, RegisterBytes DEF Indexes, ProgramTypeOK
  <2>2. CASE (Decode(uses[1]) \/ Execute) /\ UNCHANGED alu_vars /\ UNCHANGED stack
    <3>1. AddressTypeOK'
      BY <1>1, <2>1, <2>2, DecodeTypes, ExecuteTypes
    <3>2. AluSame /\ StackSame /\ ProgramSame
      BY <1>5, <2>2 DEF Indexes, alu_vars
    <3> QED BY <1>2, <3>1, <3>2 DEF TypeInv
  <2>3. CASE /\ \/ \E m \in Operands : execute_LD(uses[1], m)
                \/ \E from \in {"A", uses[1]}, to \in {"A", uses[1]} : execute_T(from, to)
             /\ UNCHANGED <<address_vars, stack>>
    <3>1. AluTypeOK'
      BY <1>1, <2>1, <2>3, OperandsAreBytes, LDTypes, TTypes
    <3>2. AddressSame /\ StackSame /\ ProgramSame
      BY <1>5, <2>3 DEF Indexes, address_vars
    <3> QED BY <1>2, <3>1, <3>2 DEF TypeInv
  <2> QED BY <1>5, <2>2, <2>3, Zenon DEF Indexes
<1>6. CASE SetsUp /\ UNCHANGED uses
  <2>1. reg \in [Register -> Byte] /\ "X" \in Register /\ reg["X"] \in Int
    BY <1>1, RegisterBytes DEF AluTypeOK
  <2>2. CASE execute_TXS
    <3>1. AluTypeOK' /\ StackTypeOK'
      BY <1>1, <1>6, <2>1, <2>2, Slots DEF execute_TXS, SetsUp, AluTypeOK, StackTypeOK
    <3>2. AddressSame /\ ProgramSame
      BY <1>6, <2>2 DEF SetsUp, execute_TXS
    <3> QED BY <1>2, <3>1, <3>2 DEF TypeInv
  <2>3. CASE execute_TSX
    <3>1. stack \in Int /\ 0 <= stack /\ stack <= 255
      BY <1>1, StackSizes DEF StackTypeOK
    <3>2. stack \in Byte
      BY <3>1, Ranges
    <3>3. P' \subseteq Flags /\ "U" \in P'
      BY <1>1, <2>3, UpdateTypes, FlagTypes DEF execute_TSX
    <3>4. reg' \in [Register -> Byte] /\ written' = written
      BY <1>6, <2>1, <2>3, <3>2 DEF execute_TSX, SetsUp
    <3>5. AddressSame /\ StackSame /\ ProgramSame
      BY <1>6, <2>3 DEF SetsUp, execute_TSX
    <3> QED BY <1>1, <1>2, <3>3, <3>4, <3>5 DEF TypeInv, AluTypeOK
  <2> QED BY <1>6, <2>2, <2>3 DEF SetsUp
<1>7. CASE Jumps /\ UNCHANGED uses
  <2>1. StackSame /\ ProgramSame
    BY <1>7 DEF Jumps
  <2>2. CASE (DecodeJump \/ Execute) /\ UNCHANGED alu_vars
    <3>1. AddressTypeOK'
      BY <1>1, <2>2, DecodeJumpTypes, ExecuteTypes
    <3>2. AluSame
      BY <2>2 DEF alu_vars
    <3> QED BY <1>2, <2>1, <3>1, <3>2 DEF TypeInv
  <2>3. CASE (\E set \in BOOLEAN : SetFlag("C", set)) /\ UNCHANGED address_vars
    <3>1. AluTypeOK'
      BY <1>1, <2>3, SetFlagTypes
    <3>2. AddressSame
      BY <2>3 DEF address_vars
    <3> QED BY <1>2, <2>1, <3>1, <3>2 DEF TypeInv
  <2> QED BY <1>7, <2>2, <2>3, Zenon DEF Jumps
<1>8. CASE Calls /\ UNCHANGED uses
  <2>1. AluTypeOK' /\ AddressTypeOK' /\ StackTypeOK'
    BY <1>1, <1>8, CallTypes
  <2>2. ProgramSame
    BY <1>8 DEF Calls
  <2> QED BY <1>2, <2>1, <2>2 DEF TypeInv
<1>9. CASE Between /\ UNCHANGED uses
  <2>1. 0 \in Byte /\ 128 \in Byte /\ "A" \in Register
    BY <1>1, Ranges, RegisterBytes
  <2>2. AluTypeOK'
    BY <1>1, <1>9, <2>1, LDTypes DEF Between
  <2>3. AddressTypeOK'
    BY <1>1, <1>9, StackSizes DEF Between, AddressTypeOK
  <2>4. StackSame /\ ProgramSame
    BY <1>9 DEF Between
  <2> QED BY <1>2, <2>2, <2>3, <2>4 DEF TypeInv
<1>10. CASE UNCHANGED program_vars
  BY <1>2, <1>10 DEF program_vars, cpu_vars, alu_vars, address_vars, TypeInv
<1> QED BY <1>3, <1>4, <1>5, <1>6, <1>7, <1>8, <1>9, <1>10 DEF ProgramNext

LEMMA TypesHold == ProgramSpec => []TypeInv
BY TypesInit, TypesStep, PTL DEF ProgramSpec

(* Bytes stay bytes and addresses words, whatever is computed, indexed,     *)
(* pushed or pulled: the narrowing that the code leaves to uint8_t and      *)
(* uint16_t is everywhere it is needed.                                     *)
THEOREM CpuTypeCorrect == ProgramSpec => []CpuTypeOK
<1>1. TypeInv => CpuTypeOK
  BY TypeParts DEF TypeInv
<1> QED BY <1>1, TypesHold, PTL

-----------------------------------------------------------------------------
(* ADDRESSES *)

(* What AddressesCarry says of an address with an index or an offset.      *)
Carried(from, by) ==
  /\ target_addr = Uint16(from + by)
  /\ Low(early) = Low(target_addr) /\ High(early) = High(from)
  /\ late = (fixed_cycles \/ High(target_addr) # High(from))

named == append_hi_byte_to_lo_byte(bytes.hi, bytes.lo)

LEMMA Addressed ==
  AddressesCarry <=>
    /\ address_mode = "ABSX" => Carried(named, reg["X"])
    /\ address_mode \in {"ABSY", "INDY"} => Carried(named, reg["Y"])
    /\ address_mode = "REL" /\ target_addr # PC => Carried(PC, bytes.offset)
    /\ address_mode = "ZPX" => target_addr = (bytes.lo + reg["X"]) % 256
    /\ address_mode = "ZPY" => target_addr = (bytes.lo + reg["Y"]) % 256
    /\ address_mode = "INDX" => bytes.pointer[1] < 256 /\ target_addr = named
    /\ bytes.pointer # <<>> =>
         /\ High(bytes.pointer[1]) = High(bytes.pointer[2])
         /\ (Low(bytes.pointer[2]) - Low(bytes.pointer[1])) \in {1, -255}
BY DEF AddressesCarry, Carried, named

(* Words that a byte more or a byte less than a page away are narrowed to. *)
LEMMA Wrapped ==
  ASSUME NEW q \in Int, -1 <= q, q <= 256, NEW r \in Byte
  PROVE  /\ Uint16((256 * q) + r) =
              append_hi_byte_to_lo_byte(IF q = -1 THEN 255 ELSE IF q = 256 THEN 0 ELSE q, r)
         /\ (IF q = -1 THEN 255 ELSE IF q = 256 THEN 0 ELSE q) \in Byte
<1>1. r \in Int /\ 0 <= r /\ r <= 255
  BY Ranges
<1>2. CASE q = -1
  <2>1. ((256 * (-1)) + r) % 65536 = (256 * 255) + r
    BY <1>1
  <2> QED BY <1>2, <2>1, Ranges DEF Uint16, append_hi_byte_to_lo_byte
<1>3. CASE q = 256
  <2>1. ((256 * 256) + r) % 65536 = (256 * 0) + r
    BY <1>1
  <2> QED BY <1>3, <2>1, Ranges DEF Uint16, append_hi_byte_to_lo_byte
<1>4. CASE 0 <= q /\ q <= 255
  <2>1. ((256 * q) + r) % 65536 = (256 * q) + r
    BY <1>1, <1>4
  <2> QED BY <1>4, <2>1, Ranges DEF Uint16, append_hi_byte_to_lo_byte
<1> QED BY <1>2, <1>3, <1>4

(* The address before the carry and the one after it.                      *)
LEMMA Crossing ==
  ASSUME NEW hi \in Byte, NEW lo \in Byte, NEW by \in Int, -255 <= by, by <= 255
  PROVE  LET from == append_hi_byte_to_lo_byte(hi, lo)
             carryless == Bus(hi, lo + by)
             right == Uint16(from + by)
         IN /\ Low(carryless) = Low(right) /\ High(carryless) = hi
            /\ page_cross_occurs(lo, by) <=> High(right) # hi
            /\ ~page_cross_occurs(lo, by) => right = carryless
<1> DEFINE sum == lo + by
           q == IF sum < 0 THEN hi - 1 ELSE IF sum > 255 THEN hi + 1 ELSE hi
           r == IF sum < 0 THEN sum + 256 ELSE IF sum > 255 THEN sum - 256 ELSE sum
           right == Uint16(append_hi_byte_to_lo_byte(hi, lo) + by)
           page_of == IF q = -1 THEN 255 ELSE IF q = 256 THEN 0 ELSE q
<1>1. hi \in Int /\ 0 <= hi /\ hi <= 255 /\ lo \in Int /\ 0 <= lo /\ lo <= 255
  BY Ranges
<1>2. sum \in Int /\ q \in Int /\ -1 <= q /\ q <= 256
  BY <1>1
<1>3. r \in Int /\ 0 <= r /\ r <= 255
  BY <1>1
<1>4. r \in Byte
  BY <1>3, Ranges
<1>5. Uint8(sum) = r
  <2>1. CASE sum < 0
    <3>1. sum % 256 = sum + 256
      BY <1>1, <2>1
    <3> QED BY <2>1, <3>1 DEF Uint8
  <2>2. CASE sum > 255
    <3>1. sum % 256 = sum - 256
      BY <1>1, <2>2
    <3>2. r = sum - 256
      BY <1>2, <2>2
    <3> QED BY <3>1, <3>2 DEF Uint8
  <2>3. CASE 0 <= sum /\ sum <= 255
    <3>1. sum % 256 = sum
      BY <1>2, <2>3
    <3>2. r = sum
      BY <1>2, <2>3
    <3> QED BY <3>1, <3>2 DEF Uint8
  <2> QED BY <1>2, <2>1, <2>2, <2>3
<1>6. append_hi_byte_to_lo_byte(hi, lo) + by = (256 * q) + r
  BY <1>1 DEF append_hi_byte_to_lo_byte
<1>7. /\ sum < 0 \/ sum > 255 => page_of # hi
      /\ 0 <= sum /\ sum <= 255 => page_of = hi
  BY <1>1
<1>8. page_cross_occurs(lo, by) <=> sum < 0 \/ sum > 255
  BY <1>1 DEF page_cross_occurs
<1> HIDE DEF q, r
<1>9. right = append_hi_byte_to_lo_byte(page_of, r) /\ page_of \in Byte
  BY <1>2, <1>4, <1>6, Wrapped
<1>10. Bus(hi, sum) = append_hi_byte_to_lo_byte(hi, r)
  BY <1>5 DEF Bus
<1> HIDE DEF page_of, right
<1>11. /\ Low(Bus(hi, sum)) = r /\ High(Bus(hi, sum)) = hi
       /\ Low(right) = r /\ High(right) = page_of
  BY <1>4, <1>9, <1>10, Appended
<1>12. page_cross_occurs(lo, by) <=> page_of # hi
  BY <1>2, <1>7, <1>8
<1> QED BY <1>9, <1>10, <1>11, <1>12 DEF right

(* The two bytes of a pointer.                                             *)
LEMMA PointerInPage ==
  ASSUME NEW hi \in Byte, NEW lo \in Int
  PROVE  /\ High(Pointer(hi, lo)[1]) = hi /\ High(Pointer(hi, lo)[2]) = hi
         /\ (Low(Pointer(hi, lo)[2]) - Low(Pointer(hi, lo)[1])) \in {1, -255}
<1>1. lo + 1 \in Int
  OBVIOUS
<1>2. /\ Low(Pointer(hi, lo)[1]) = Uint8(lo) /\ High(Pointer(hi, lo)[1]) = hi
      /\ Low(Pointer(hi, lo)[2]) = Uint8(lo + 1) /\ High(Pointer(hi, lo)[2]) = hi
  BY <1>1, PointerParts, OnBus
<1>3. ((lo + 1) % 256) - (lo % 256) = 1 \/ ((lo + 1) % 256) - (lo % 256) = -255
  OBVIOUS
<1> QED BY <1>2, <1>3 DEF Uint8

LEMMA IndexedCarries ==
  ASSUME AluTypeOK, NEW mode, NEW r \in Register, NEW read, ReadTypeOK(read),
         NEW fixed \in BOOLEAN, Indexed(mode, r, read, fixed)
  PROVE  /\ address_mode' = mode /\ bytes' = read
         /\ LET from == append_hi_byte_to_lo_byte(read.hi, read.lo) IN
            /\ target_addr' = Uint16(from + reg[r])
            /\ Low(early') = Low(target_addr') /\ High(early') = High(from)
            /\ late' = (fixed_cycles' \/ High(target_addr') # High(from))
<1> DEFINE from == append_hi_byte_to_lo_byte(read.hi, read.lo)
           carryless == Bus(read.hi, read.lo + reg[r])
           right == Uint16(from + reg[r])
           crosses == page_cross_occurs(read.lo, reg[r])
<1>1. read.hi \in Byte /\ read.lo \in Byte
  BY DEF ReadTypeOK
<1>2. reg[r] \in Int /\ -255 <= reg[r] /\ reg[r] <= 255
  BY RegisterBytes, Ranges
<1>3. /\ Low(carryless) = Low(right) /\ High(carryless) = read.hi
      /\ crosses <=> High(right) # read.hi
      /\ ~crosses => right = carryless
  BY <1>1, <1>2, Crossing
<1>4. High(from) = read.hi
  BY <1>1, Appended
<1>5. /\ address_mode' = mode /\ bytes' = read /\ fixed_cycles' = fixed
      /\ early' = carryless /\ late' = (fixed \/ crosses)
      /\ target_addr' = IF fixed \/ crosses THEN right ELSE carryless
  BY DEF Indexed
<1> HIDE DEF from, carryless, right, crosses
<1>6. target_addr' = right
  BY <1>3, <1>5
<1>7. late' = (fixed \/ High(right) # read.hi)
  BY <1>3, <1>5
<1> QED BY <1>3, <1>4, <1>5, <1>6, <1>7 DEF from, right

(* AddressesCarry, with the reasons why a register or PC may change: only   *)
(* programs that index or jump decode, and they execute in between.         *)
CarryInv ==
  /\ TypeInv
  /\ AddressesCarry
  /\ uses[2] \notin {"index", "jump"} => address_mode = "none"

LEMMA DecodeCarries ==
  ASSUME AluTypeOK, UNCHANGED reg, NEW r \in Register, Decode(r)
  PROVE  AddressesCarry'
<1> DEFINE Paged(pointer) ==
             pointer # <<>> => /\ High(pointer[1]) = High(pointer[2])
                               /\ (Low(pointer[2]) - Low(pointer[1])) \in {1, -255}
<1>1. PICK lo \in Operands :
        \/ decode_ZP(lo)
        \/ decode_ZPI("ZPX", "X", lo)
        \/ decode_ZPI("ZPY", "Y", lo)
        \/ \E hi \in Operands :
             \/ decode_ABS(hi, lo)
             \/ \E fixed \in BOOLEAN :
                  \/ decode_ABSI("ABSX", "X", hi, lo, fixed)
                  \/ decode_ABSI("ABSY", "Y", hi, lo, fixed)
                  \/ \E base \in Operands : decode_INDY(base, hi, lo, fixed)
             \/ \E base \in Operands : decode_INDX(base, hi, lo)
  BY Zenon DEF Decode
<1>2. lo \in Byte /\ lo \in Int
  BY OperandsAreBytes
<1>3. AddressesCarry' <=>
        /\ address_mode' = "ABSX" => Carried(named, reg["X"])'
        /\ address_mode' \in {"ABSY", "INDY"} => Carried(named, reg["Y"])'
        /\ address_mode' = "REL" /\ target_addr' # PC' => Carried(PC, bytes.offset)'
        /\ address_mode' = "ZPX" => target_addr' = (bytes'.lo + reg'["X"]) % 256
        /\ address_mode' = "ZPY" => target_addr' = (bytes'.lo + reg'["Y"]) % 256
        /\ address_mode' = "INDX" => bytes'.pointer[1] < 256 /\ target_addr' = named'
        /\ Paged(bytes'.pointer)
  BY DEF AddressesCarry, Carried, named
<1>4. CASE decode_ZP(lo)
  BY <1>2, <1>3, <1>4, Read, ReadNothing DEF decode_ZP, Decoded
<1>5. CASE decode_ZPI("ZPX", "X", lo) \/ decode_ZPI("ZPY", "Y", lo)
  BY <1>2, <1>3, <1>5, Read, ReadNothing DEF decode_ZPI, Decoded, Uint8
<1>6. ASSUME NEW hi \in Operands, decode_ABS(hi, lo) PROVE AddressesCarry'
  BY <1>2, <1>3, <1>6, OperandsAreBytes, Read DEF decode_ABS, Decoded
<1>7. ASSUME NEW mode, NEW i \in Register, NEW read, ReadTypeOK(read), NEW fixed \in BOOLEAN,
             Indexed(mode, i, read, fixed), Paged(read.pointer),
             (mode = "ABSX" /\ i = "X") \/ (mode \in {"ABSY", "INDY"} /\ i = "Y")
      PROVE  AddressesCarry'
  <2>1. /\ address_mode' = mode /\ bytes' = read
        /\ target_addr' = Uint16(named' + reg[i])
        /\ Low(early') = Low(target_addr') /\ High(early') = High(named')
        /\ late' = (fixed_cycles' \/ High(target_addr') # High(named'))
    BY <1>7, IndexedCarries DEF named
  <2>2. Carried(named, reg[i])'
    BY <2>1 DEF Carried
  <2> HIDE DEF Paged
  <2>3. CASE i = "X"
    BY <1>3, <1>7, <2>1, <2>2, <2>3
  <2>4. CASE i = "Y"
    BY <1>3, <1>7, <2>1, <2>2, <2>4
  <2> QED BY <1>7, <2>3, <2>4
<1>8. \A hi \in Operands : ReadTypeOK(At(hi, lo)) /\ Paged(At(hi, lo).pointer)
  BY <1>2, OperandsAreBytes, Read, ReadNothing DEF ReadTypeOK
<1>9. \A hi \in Operands, base \in Operands :
        LET read == Through(hi, lo, Pointer(0, base)) IN
        ReadTypeOK(read) /\ Paged(read.pointer)
  <2> TAKE hi \in Operands, base \in Operands
  <2>1. hi \in Byte /\ base \in Int
    BY OperandsAreBytes
  <2>2. Paged(Pointer(0, base))
    BY <2>1, ReadNothing, PointerInPage
  <2> HIDE DEF Paged
  <2>3. PICK pointer : pointer = Pointer(0, base)
    OBVIOUS
  <2>4. /\ Through(hi, lo, pointer).hi \in Byte /\ Through(hi, lo, pointer).lo \in Byte
        /\ Through(hi, lo, pointer).offset = 0 /\ Through(hi, lo, pointer).pointer = pointer
    BY <1>2, <2>1, Read
  <2>5. ReadTypeOK(Through(hi, lo, pointer))
    BY <2>4, ReadNothing DEF ReadTypeOK
  <2> QED BY <2>2, <2>3, <2>4, <2>5
<1> HIDE DEF Paged
<1>10. ASSUME NEW hi \in Operands, NEW fixed \in BOOLEAN,
              decode_ABSI("ABSX", "X", hi, lo, fixed) \/ decode_ABSI("ABSY", "Y", hi, lo, fixed)
       PROVE  AddressesCarry'
  <2>1. /\ "X" \in Register /\ "Y" \in Register
        /\ ReadTypeOK(At(hi, lo)) /\ Paged(At(hi, lo).pointer)
    BY <1>8, RegisterBytes
  <2>2. CASE Indexed("ABSX", "X", At(hi, lo), fixed)
    BY <1>7, <2>1, <2>2
  <2>3. CASE Indexed("ABSY", "Y", At(hi, lo), fixed)
    BY <1>7, <2>1, <2>3
  <2> QED BY <1>10, <2>2, <2>3 DEF decode_ABSI
<1>11. ASSUME NEW hi \in Operands, NEW fixed \in BOOLEAN, NEW base \in Operands,
              decode_INDY(base, hi, lo, fixed)
       PROVE  AddressesCarry'
  BY <1>7, <1>9, <1>11, RegisterBytes DEF decode_INDY
<1>12. ASSUME NEW hi \in Operands, NEW base \in Operands, decode_INDX(base, hi, lo)
       PROVE  AddressesCarry'
  <2> DEFINE pointer == Pointer(0, base + reg["X"])
  <2>1. base + reg["X"] \in Int /\ hi \in Byte
    BY OperandsAreBytes, RegisterBytes
  <2>2. Paged(pointer)
    BY <2>1, ReadNothing, PointerInPage DEF Paged
  <2>3. pointer[1] < 256
    <3> DEFINE low == Uint8(base + reg["X"])
    <3>1. low \in Byte
      BY <2>1, Narrowed
    <3>2. pointer[1] = Bus(0, base + reg["X"])
      BY <2>1, ReadNothing, PointerParts
    <3>3. Bus(0, base + reg["X"]) = (256 * 0) + low
      BY DEF Bus, append_hi_byte_to_lo_byte
    <3> HIDE DEF pointer, low
    <3>4. low \in Int /\ low <= 255
      BY <3>1, Ranges
    <3> QED BY <3>2, <3>3, <3>4
  <2>4. /\ address_mode' = "INDX" /\ bytes' = Through(hi, lo, pointer)
        /\ target_addr' = append_hi_byte_to_lo_byte(hi, lo)
    BY <1>12 DEF decode_INDX, Decoded
  <2> HIDE DEF pointer
  <2>5. bytes'.pointer = pointer /\ target_addr' = named'
    BY <1>2, <2>1, <2>4, Read DEF named
  <2> QED BY <1>3, <2>2, <2>3, <2>4, <2>5
<1> QED BY <1>1, <1>4, <1>5, <1>6, <1>10, <1>11, <1>12

LEMMA BxxCarries ==
  ASSUME AddressTypeOK, UNCHANGED reg, NEW f, NEW set, NEW offset \in Offset,
         decode_Bxx(f, set, offset)
  PROVE  AddressesCarry'
<1> DEFINE carryless == Bus(High(PC), Low(PC) + offset)
           right == Uint16(PC + offset)
           crosses == page_cross_occurs(Low(PC), offset)
<1>1. /\ High(PC) \in Byte /\ Low(PC) \in Byte
      /\ append_hi_byte_to_lo_byte(High(PC), Low(PC)) = PC
  BY Halves DEF AddressTypeOK
<1>2. offset \in Int /\ -255 <= offset /\ offset <= 255
  BY Ranges
<1>3. /\ Low(carryless) = Low(right) /\ High(carryless) = High(PC)
      /\ crosses <=> High(right) # High(PC)
      /\ ~crosses => right = carryless
  BY <1>1, <1>2, Crossing
<1>4. /\ address_mode' = "REL" /\ fixed_cycles' = FALSE /\ PC' = PC
      /\ bytes'.offset = offset /\ bytes'.pointer = <<>>
  BY DEF decode_Bxx, NoBytes
<1>5. AddressesCarry' <=> (target_addr' # PC' => Carried(PC, bytes.offset)')
  BY <1>4 DEF AddressesCarry, Carried
<1>6. \/ target_addr' = PC
      \/ /\ early' = carryless /\ late' = crosses
         /\ target_addr' = IF crosses THEN right ELSE carryless
  BY DEF decode_Bxx
<1>0. crosses \in BOOLEAN
  BY DEF page_cross_occurs
<1> HIDE DEF carryless, right, crosses
<1>7. CASE target_addr' = PC
  BY <1>4, <1>5, <1>7
<1>8. CASE /\ early' = carryless /\ late' = crosses
           /\ target_addr' = IF crosses THEN right ELSE carryless
  <2>1. target_addr' = right
    BY <1>3, <1>8
  <2>2. late' = (FALSE \/ High(right) # High(PC))
    BY <1>0, <1>3, <1>8
  <2>3. /\ target_addr' = Uint16(PC' + bytes'.offset)
        /\ Low(early') = Low(target_addr') /\ High(early') = High(PC')
    BY <1>3, <1>4, <1>8, <2>1 DEF right
  <2>4. late' = (fixed_cycles' \/ High(target_addr') # High(PC'))
    BY <1>4, <2>1, <2>2
  <2>5. Carried(PC, bytes.offset)'
    BY <2>3, <2>4 DEF Carried
  <2> QED BY <1>5, <2>5
<1> QED BY <1>6, <1>7, <1>8

LEMMA DecodeJumpCarries ==
  ASSUME AddressTypeOK, UNCHANGED reg, DecodeJump
  PROVE  AddressesCarry'
<1>1. ASSUME NEW f, NEW set, NEW offset \in Offsets, decode_Bxx(f, set, offset)
      PROVE  AddressesCarry'
  BY <1>1, OffsetAssumption, BxxCarries DEF Offset
<1>2. ASSUME NEW hi \in Operands, NEW lo \in Operands, execute_JMP(hi, lo)
      PROVE  AddressesCarry'
  <2>1. address_mode' = "ABS" /\ bytes'.pointer = <<>>
    BY <1>2, OperandsAreBytes, Read DEF execute_JMP, Jump
  <2> QED BY <2>1 DEF AddressesCarry
<1>3. ASSUME NEW hi \in Operands, NEW lo \in Operands, NEW index_hi \in Operands,
             NEW index_lo \in Operands, execute_JMP_IND(index_hi, index_lo, hi, lo)
      PROVE  AddressesCarry'
  <2> DEFINE pointer == Pointer(index_hi, index_lo)
  <2>1. /\ High(pointer[1]) = High(pointer[2])
        /\ (Low(pointer[2]) - Low(pointer[1])) \in {1, -255}
    BY OperandsAreBytes, PointerInPage
  <2>2. address_mode' = "IND" /\ bytes' = Through(hi, lo, pointer)
    BY <1>3 DEF execute_JMP_IND, Jump
  <2>3. bytes'.pointer = pointer
    BY <2>2, OperandsAreBytes, Read
  <2> HIDE DEF pointer
  <2> QED BY <2>1, <2>2, <2>3 DEF AddressesCarry
<1> QED BY <1>1, <1>2, <1>3 DEF DecodeJump

(* Without an address there is nothing to be carried.                      *)
LEMMA NoneCarries ==
  ASSUME address_mode = "none", AddressesCarry, address_mode' = "none", bytes' = bytes
  PROVE  AddressesCarry'
<1>1. AddressesCarry' <=>
        (bytes'.pointer # <<>> =>
           /\ High(bytes'.pointer[1]) = High(bytes'.pointer[2])
           /\ (Low(bytes'.pointer[2]) - Low(bytes'.pointer[1])) \in {1, -255})
  BY DEF AddressesCarry
<1> QED BY <1>1, Addressed

LEMMA CarryInit == ProgramInit => CarryInv
<1> SUFFICES ASSUME ProgramInit PROVE CarryInv
  OBVIOUS
<1>1. address_mode = "none" /\ bytes.pointer = <<>>
  BY ReadNothing DEF ProgramInit, AddressInit
<1>2. AddressesCarry
  BY <1>1 DEF AddressesCarry
<1> QED BY <1>1, <1>2, TypesInit DEF CarryInv

LEMMA CarryStep == CarryInv /\ [ProgramNext]_program_vars => CarryInv'
<1> SUFFICES ASSUME CarryInv, [ProgramNext]_program_vars
             PROVE  AddressesCarry' /\ (uses'[2] \notin {"index", "jump"} => address_mode' = "none")
  BY TypesStep DEF CarryInv
<1>1. /\ AluTypeOK /\ AddressTypeOK /\ AddressesCarry
      /\ uses[2] \notin {"index", "jump"} => address_mode = "none"
      /\ ProgramTypeOK
  BY DEF CarryInv, TypeInv
<1>2. uses' = uses
  BY DEF ProgramNext, program_vars
<1>3. ASSUME Execute PROVE AddressesCarry' /\ address_mode' = "none"
  <2>1. address_mode' = "none" /\ bytes'.pointer = <<>>
    BY <1>3, ReadNothing DEF Execute
  <2> QED BY <2>1 DEF AddressesCarry
<1>4. ASSUME address_mode = "none", UNCHANGED <<address_mode, bytes>>
      PROVE  AddressesCarry'
  BY <1>1, <1>4, NoneCarries
<1>5. CASE Computes
  BY <1>1, <1>2, <1>4, <1>5 DEF Computes, address_vars
<1>6. CASE ComputesLong
  BY <1>1, <1>2, <1>4, <1>6 DEF ComputesLong, address_vars
<1>7. CASE Indexes
  <2>1. uses[2] = "index" /\ uses[1] \in Register
    BY <1>1, <1>7, UsesParts DEF Indexes, ProgramTypeOK
  <2>2. CASE Decode(uses[1]) /\ UNCHANGED alu_vars
    BY <1>1, <1>2, <2>1, <2>2, DecodeCarries DEF alu_vars
  <2>3. CASE Execute
    BY <1>2, <1>3, <2>1, <2>3
  <2>4. CASE address_mode = "none" /\ UNCHANGED address_vars
    BY <1>2, <1>4, <2>1, <2>4 DEF address_vars
  <2>5. UNCHANGED <<address_vars, stack>> => UNCHANGED address_vars
    OBVIOUS
  <2> QED BY <1>7, <2>2, <2>3, <2>4, <2>5, Zenon DEF Indexes
<1>8. CASE SetsUp
  BY <1>2, <1>4, <1>8 DEF SetsUp
<1>9. CASE Jumps
  <2>1. uses[2] = "jump"
    BY <1>9 DEF Jumps
  <2>2. CASE DecodeJump /\ UNCHANGED alu_vars
    BY <1>1, <1>2, <2>1, <2>2, DecodeJumpCarries DEF alu_vars
  <2>3. CASE Execute
    BY <1>2, <1>3, <2>1, <2>3
  <2>4. CASE address_mode = "none" /\ UNCHANGED address_vars
    BY <1>2, <1>4, <2>1, <2>4 DEF address_vars
  <2> QED BY <1>9, <2>2, <2>3, <2>4, Zenon DEF Jumps
<1>10. CASE Calls \/ Between
  <2>1. uses[2] = "call" /\ address_mode' = address_mode /\ bytes' = bytes
    BY <1>10 DEF Calls, Between
  <2> QED BY <1>1, <1>2, <1>4, <2>1
<1>11. CASE UNCHANGED program_vars
  <2>1. UNCHANGED <<reg, PC, address_mode, bytes, fixed_cycles, early, late, target_addr>>
    BY <1>11 DEF program_vars, cpu_vars, alu_vars, address_vars
  <2> QED BY <1>1, <1>2, <2>1 DEF AddressesCarry
<1> QED BY <1>5, <1>6, <1>7, <1>8, <1>9, <1>10, <1>11 DEF ProgramNext

(* No index and no offset loses its carry, the clock for it is taken        *)
(* exactly when it is needed, and no pointer leaves its page, for every set *)
(* of bytes in memory and every offset of a branch.                         *)
THEOREM CarriesArrive == ProgramSpec => []AddressesCarry
<1>1. CarryInv => AddressesCarry
  BY DEF CarryInv
<1> QED BY <1>1, CarryInit, CarryStep, PTL DEF ProgramSpec

-----------------------------------------------------------------------------
(* WHAT WAS PUSHED                                                          *)

LEMMA SlotOf ==
  ASSUME NEW a \in Int
  PROVE  /\ 0 <= a /\ a < StackSize => Slot(a) = a
         /\ StackSize <= a /\ a < StackSize + StackSize => Slot(a) = a - StackSize
         /\ 0 <= a + StackSize /\ a < 0 => Slot(a) = a + StackSize
<1>1. CASE 0 <= a /\ a < StackSize
  BY <1>1, StackSizes DEF Slot
<1>2. CASE StackSize <= a /\ a < StackSize + StackSize
  BY <1>2, StackSizes DEF Slot
<1>3. CASE 0 <= a + StackSize /\ a < 0
  BY <1>3, StackSizes DEF Slot
<1> QED BY <1>1, <1>2, <1>3, StackSizes

Kinds == {"call", "A", "P", "interrupt"}
SizeOf == [call |-> 2, A |-> 1, P |-> 1, interrupt |-> 3]
Frame ==
  [ kind : Kinds, depth : Nat, PC : Word, A : Byte, P : SUBSET Flags, stack : 0..StackSize - 1 ]

(* The byte x below the place where the stack began.                       *)
Place(x) == Slot(stack + Depth - x)
Cell(x) == page[Place(x)]

(* Where a frame begins, by the one below it.                              *)
Start(i) == IF i = 1 THEN 0 ELSE frames[i - 1].depth

(* A frame that begins at place, and the bytes there as the instruction     *)
(* that pulls them reads them; a shorter frame says nothing of the others.  *)
FrameHolds(f, from, place, first, second, third) ==
  /\ "U" \in f.P
  /\ f.depth = from + SizeOf[f.kind]
  /\ f.stack = place
  /\ f.kind = "call" => Return(append_hi_byte_to_lo_byte(first, second)) = f.PC
  /\ f.kind = "A" => first = f.A
  /\ f.kind = "P" => FlagsOf(first) \ {"B", "U"} = f.P \ {"B", "U"}
  /\ f.kind = "interrupt" =>
       /\ append_hi_byte_to_lo_byte(first, second) = f.PC
       /\ FlagsOf(third) \ {"B", "U"} = f.P \ {"B", "U"}

FrameAt(i) ==
  FrameHolds(frames[i], Start(i), Place(Start(i)),
             Cell(Start(i)), Cell(Start(i) + 1), Cell(Start(i) + 2))

(* The frames lie one behind the other, and their bytes are untouched.     *)
FramesOK ==
  /\ frames \in Seq(Frame)
  /\ Depth <= StackSize
  /\ \A i \in 1..Len(frames) : FrameAt(i)
  /\ \A i, j \in 1..Len(frames) : i <= j => frames[i].depth <= frames[j].depth

FramesInv ==
  /\ TypeInv
  /\ frames # <<>> => uses[2] = "call"
  /\ FramesOK

LEMMA DepthTypes ==
  ASSUME frames \in Seq(Frame)
  PROVE  /\ Depth \in Nat
         /\ frames # <<>> => /\ Len(frames) \in Nat /\ 1 <= Len(frames)
                             /\ Depth = frames[Len(frames)].depth
<1>1. CASE frames = <<>>
  BY <1>1 DEF Depth
<1>2. CASE frames # <<>>
  <2>1. Len(frames) \in Nat /\ 1 <= Len(frames)
    BY <1>2
  <2>2. frames[Len(frames)] \in Frame
    BY <2>1
  <2> QED BY <1>2, <2>1, <2>2 DEF Depth, Frame
<1> QED BY <1>1, <1>2

(* What a push writes, and what it leaves, seen from where the stack began.*)
PushSeen(values, size, depth) ==
  /\ \A x \in Int : 0 <= x /\ x <= depth =>
       Slot(stack' + (depth + size) - x) = Slot(stack + depth - x)
  /\ \A x \in Int : 0 <= x /\ x < depth =>
       page'[Slot(stack + depth - x)] = page[Slot(stack + depth - x)]
  /\ \A k \in Int : 0 <= k /\ k < size =>
       page'[Slot(stack' + (depth + size) - (depth + k))] = values[k + 1]
  /\ Slot(stack + depth - depth) = stack

LEMMA PushWrites ==
  ASSUME StackTypeOK, NEW values, NEW size \in Int, size = Len(values), 1 <= size,
         NEW depth \in Int, 0 <= depth, depth + size <= StackSize, stack_push(values)
  PROVE  PushSeen(values, size, depth)
<1>1. stack \in Int /\ 0 <= stack /\ stack < StackSize
  BY StackSizes DEF StackTypeOK
<1>2. DOMAIN page = 0..StackSize - 1
  BY DEF StackTypeOK
<1>3. stack' = Slot(stack - size)
  BY DEF stack_push
<1>4. stack' \in Int /\ (stack' = stack - size \/ stack' = stack - size + StackSize)
      /\ 0 <= stack' /\ stack' < StackSize
  <2>1. stack - size \in Int /\ 0 <= (stack - size) + StackSize /\ stack - size < StackSize
    BY <1>1, StackSizes
  <2>2. CASE 0 <= stack - size
    BY <1>1, <1>3, <2>1, <2>2, SlotOf, StackSizes
  <2>3. CASE stack - size < 0
    BY <1>1, <1>3, <2>1, <2>3, SlotOf, StackSizes
  <2> QED BY <2>1, <2>2, <2>3
<1>5. \A a \in 0..StackSize - 1 :
        page'[a] = IF Slot(stack - a) + 1 <= size THEN values[Slot(stack - a) + 1] ELSE page[a]
  BY <1>2 DEF stack_push
<1>6. ASSUME NEW x \in Int, 0 <= x, x <= depth
      PROVE  Slot(stack' + (depth + size) - x) = Slot(stack + depth - x)
  <2> DEFINE p == stack + depth - x
             q == stack' + (depth + size) - x
  <2>1. /\ p \in Int /\ 0 <= p /\ p < StackSize + StackSize
        /\ q \in Int /\ q < StackSize + StackSize
        /\ q = p \/ q = p + StackSize
    BY <1>1, <1>4, <1>6, StackSizes
  <2> HIDE DEF p, q
  <2>2. ASSUME q = p + StackSize PROVE Slot(q) = Slot(p)
    <3>1. p < StackSize /\ StackSize <= q
      BY <2>1, <2>2, StackSizes
    <3>2. Slot(p) = p /\ Slot(q) = q - StackSize
      BY <2>1, <3>1, SlotOf
    <3> QED BY <2>1, <2>2, <3>2, StackSizes
  <2>3. Slot(q) = Slot(p)
    BY <2>1, <2>2
  <2> QED BY <2>3 DEF p, q
<1>7. ASSUME NEW x \in Int, 0 <= x, x < depth
      PROVE  page'[Slot(stack + depth - x)] = page[Slot(stack + depth - x)]
  <2> DEFINE p == stack + depth - x
             a == Slot(p)
  <2>1. p \in Int /\ 0 <= p /\ p < StackSize + StackSize
    BY <1>1, <1>7, StackSizes
  <2>2. a \in 0..StackSize - 1 /\ a \in Int /\ 0 <= a /\ a < StackSize
    BY <2>1, Slots
  <2>3. a = p \/ a = p - StackSize
    BY <2>1, SlotOf, StackSizes
  <2>4. Slot(stack - a) = StackSize - (depth - x)
    <3> HIDE DEF a
    <3>1. CASE a = p
      <4>1. stack - a = -(depth - x)
        BY <1>1, <1>7, <3>1
      <4>2. stack - a \in Int /\ 0 <= (stack - a) + StackSize /\ stack - a < 0
        BY <1>7, <4>1, StackSizes
      <4> QED BY <1>7, <4>1, <4>2, SlotOf, StackSizes
    <3>2. CASE a = p - StackSize
      <4>1. stack - a = StackSize - (depth - x)
        BY <1>1, <1>7, <3>2, StackSizes
      <4>2. stack - a \in Int /\ 0 <= stack - a /\ stack - a < StackSize
        BY <1>7, <4>1, StackSizes
      <4> QED BY <4>1, <4>2, SlotOf
    <3> QED BY <2>3, <3>1, <3>2
  <2>5. ~(Slot(stack - a) + 1 <= size)
    BY <1>7, <2>4, StackSizes
  <2>6. page'[a] = page[a]
    BY <1>5, <2>2, <2>5
  <2> QED BY <2>6
<1>8. ASSUME NEW k \in Int, 0 <= k, k < size
      PROVE  page'[Slot(stack' + (depth + size) - (depth + k))] = values[k + 1]
  <2> DEFINE a == Slot(stack - k)
  <2>1. stack - k \in Int /\ 0 <= (stack - k) + StackSize /\ stack - k < StackSize /\ k < StackSize
    BY <1>1, <1>8, StackSizes
  <2>2. a \in 0..StackSize - 1 /\ a \in Int /\ 0 <= a /\ a < StackSize
    BY <2>1, Slots
  <2>3. a = stack - k \/ a = (stack - k) + StackSize
    BY <2>1, SlotOf
  <2>4. Slot(stack' + (depth + size) - (depth + k)) = a
    <3>1. stack' + (depth + size) - (depth + k) = stack' + size - k
      BY <1>4, <1>8
    <3>2. CASE stack' = stack - size
      BY <1>1, <1>4, <1>8, <3>1, <3>2
    <3>3. CASE stack' = stack - size + StackSize
      <4> DEFINE q == (stack - k) + StackSize
      <4>1. stack' + size - k = q
        BY <1>1, <1>4, <1>8, <3>3, StackSizes
      <4>2. q \in Int /\ 0 <= q /\ q < StackSize + StackSize
        BY <2>1, StackSizes
      <4>3. Slot(q) = IF q < StackSize THEN q ELSE q - StackSize
        BY <4>2, SlotOf, StackSizes
      <4>4. a = IF stack - k < 0 THEN q ELSE q - StackSize
        BY <2>1, SlotOf, StackSizes
      <4> HIDE DEF a
      <4> QED BY <2>1, <3>1, <4>1, <4>3, <4>4, StackSizes
    <3> QED BY <1>4, <3>2, <3>3
  <2>5. Slot(stack - a) = k
    <3> HIDE DEF a
    <3>1. CASE a = stack - k
      <4>1. stack - a = k
        BY <1>1, <1>8, <3>1
      <4> QED BY <1>8, <2>1, <4>1, SlotOf
    <3>2. CASE a = (stack - k) + StackSize
      <4>1. stack - a = k - StackSize
        BY <1>1, <1>8, <3>2, StackSizes
      <4>2. stack - a \in Int /\ 0 <= (stack - a) + StackSize /\ stack - a < 0
        BY <1>8, <2>1, <4>1, StackSizes
      <4> QED BY <1>8, <4>1, <4>2, SlotOf, StackSizes
    <3> QED BY <2>3, <3>1, <3>2
  <2>6. page'[a] = values[k + 1]
    BY <1>5, <1>8, <2>2, <2>5
  <2> QED BY <2>4, <2>6
<1>9. Slot(stack + depth - depth) = stack
  <2>1. stack + depth - depth = stack
    BY <1>1
  <2> QED BY <1>1, <2>1, SlotOf
<1> QED BY <1>6, <1>7, <1>8, <1>9 DEF PushSeen

(* The bits of a byte, and the byte of them.                               *)
LEMMA Powers ==
  /\ 2^0 = 1 /\ 2^1 = 2 /\ 2^2 = 4 /\ 2^3 = 8
  /\ 2^4 = 16 /\ 2^5 = 32 /\ 2^6 = 64 /\ 2^7 = 128
OBVIOUS

Digits(v, d0, d1, d2, d3, d4, d5, d6, d7) ==
  /\ d0 \in Int /\ d1 \in Int /\ d2 \in Int /\ d3 \in Int
  /\ d4 \in Int /\ d5 \in Int /\ d6 \in Int /\ d7 \in Int
  /\ d0 = 0 \/ d0 = 1
  /\ d1 = 0 \/ d1 = 1
  /\ d2 = 0 \/ d2 = 1
  /\ d3 = 0 \/ d3 = 1
  /\ d4 = 0 \/ d4 = 1
  /\ d5 = 0 \/ d5 = 1
  /\ d6 = 0 \/ d6 = 1
  /\ d7 = 0 \/ d7 = 1
  /\ v = d0 + (2 * d1) + (4 * d2) + (8 * d3) + (16 * d4) + (32 * d5) + (64 * d6) + (128 * d7)

DigitsRead(v, d0, d1, d2, d3, d4, d5, d6, d7) ==
  /\ (v \div 1) % 2 = d0 /\ (v \div 2) % 2 = d1
  /\ (v \div 4) % 2 = d2 /\ (v \div 8) % 2 = d3
  /\ (v \div 16) % 2 = d4 /\ (v \div 32) % 2 = d5
  /\ (v \div 64) % 2 = d6 /\ (v \div 128) % 2 = d7

LEMMA BinaryDigits ==
  ASSUME NEW d0, NEW d1, NEW d2, NEW d3, NEW d4, NEW d5, NEW d6, NEW d7,
         NEW v \in Int, Digits(v, d0, d1, d2, d3, d4, d5, d6, d7)
  PROVE  DigitsRead(v, d0, d1, d2, d3, d4, d5, d6, d7)
<1> USE DEF Digits, DigitsRead
<1> DEFINE high == d4 + (2 * d5) + (4 * d6) + (8 * d7)
           low == d0 + (2 * d1) + (4 * d2) + (8 * d3)
<1>1. /\ low \in Int /\ 0 <= low /\ low < 16
      /\ high \in Int /\ 0 <= high /\ high < 16
      /\ v = low + (16 * high)
  OBVIOUS
<1>2. v \div 16 = high
  <2> HIDE DEF high, low
  <2> QED BY <1>1
<1>3. (v \div 1) % 2 = d0
  OBVIOUS
<1>4. (v \div 2) % 2 = d1
  OBVIOUS
<1>5. (v \div 4) % 2 = d2
  OBVIOUS
<1>6. (v \div 8) % 2 = d3
  OBVIOUS
<1>7. (v \div 16) % 2 = d4
  BY <1>2
<1>8. (v \div 32) % 2 = d5
  <2>1. v \div 32 = high \div 2
    <3> HIDE DEF high, low
    <3> QED BY <1>1
  <2>2. (high \div 2) % 2 = d5
    OBVIOUS
  <2> QED BY <2>1, <2>2
<1>9. (v \div 64) % 2 = d6
  <2>1. v \div 64 = high \div 4
    <3> HIDE DEF high, low
    <3> QED BY <1>1
  <2>2. (high \div 4) % 2 = d6
    OBVIOUS
  <2> QED BY <2>1, <2>2
<1>10. (v \div 128) % 2 = d7
  <2>1. v \div 128 = high \div 8
    <3> HIDE DEF high, low
    <3> QED BY <1>1
  <2>2. (high \div 8) % 2 = d7
    OBVIOUS
  <2> QED BY <2>1, <2>2
<1> QED BY <1>3, <1>4, <1>5, <1>6, <1>7, <1>8, <1>9, <1>10

LEMMA BitsOfValue ==
  ASSUME NEW bits \in SUBSET (0..7)
  PROVE  BitsOf(ValueOf(bits)) = bits
<1> DEFINE digit(b) == IF b \in bits THEN 1 ELSE 0
           v == ValueOf(bits)
<1>1. \A b : digit(b) \in Int /\ (digit(b) = 0 \/ digit(b) = 1)
  OBVIOUS
<1>2. /\ v \in Int
      /\ v = digit(0) + (2 * digit(1)) + (4 * digit(2)) + (8 * digit(3)) + (16 * digit(4))
               + (32 * digit(5)) + (64 * digit(6)) + (128 * digit(7))
  BY Powers DEF ValueOf
<1>3. \A b : digit(b) = 1 <=> b \in bits
  OBVIOUS
<1> HIDE DEF digit, v
<1>4. /\ (v \div 1) % 2 = digit(0) /\ (v \div 2) % 2 = digit(1)
      /\ (v \div 4) % 2 = digit(2) /\ (v \div 8) % 2 = digit(3)
      /\ (v \div 16) % 2 = digit(4) /\ (v \div 32) % 2 = digit(5)
      /\ (v \div 64) % 2 = digit(6) /\ (v \div 128) % 2 = digit(7)
  <2>1. Digits(v, digit(0), digit(1), digit(2), digit(3), digit(4), digit(5), digit(6), digit(7))
    BY <1>1, <1>2 DEF Digits
  <2>2. DigitsRead(v, digit(0), digit(1), digit(2), digit(3),
                   digit(4), digit(5), digit(6), digit(7))
    BY <1>2, <2>1, BinaryDigits
  <2> QED BY <2>2 DEF DigitsRead
<1>5. ASSUME NEW b \in 0..7 PROVE (v \div 2^b) % 2 = 1 <=> b \in bits
  <2>1. b = 0 \/ b = 1 \/ b = 2 \/ b = 3 \/ b = 4 \/ b = 5 \/ b = 6 \/ b = 7
    OBVIOUS
  <2>2. (v \div 2^b) % 2 = digit(b)
    <3>0. CASE b = 0
      BY <1>4, <3>0, Powers, Zenon
    <3>1. CASE b = 1
      BY <1>4, <3>1, Powers, Zenon
    <3>2. CASE b = 2
      BY <1>4, <3>2, Powers, Zenon
    <3>3. CASE b = 3
      BY <1>4, <3>3, Powers, Zenon
    <3>4. CASE b = 4
      BY <1>4, <3>4, Powers, Zenon
    <3>5. CASE b = 5
      BY <1>4, <3>5, Powers, Zenon
    <3>6. CASE b = 6
      BY <1>4, <3>6, Powers, Zenon
    <3>7. CASE b = 7
      BY <1>4, <3>7, Powers, Zenon
    <3> QED BY <2>1, <3>0, <3>1, <3>2, <3>3, <3>4, <3>5, <3>6, <3>7
  <2> QED BY <1>3, <2>2
<1>6. BitsOf(v) = bits
  BY <1>5 DEF BitsOf
<1> QED BY <1>6 DEF v

LEMMA FlagsReturn ==
  ASSUME NEW flags \in SUBSET Flags
  PROVE  FlagsOf(StatusByte(flags)) = flags
<1> DEFINE bits == { FlagBit[f] : f \in flags }
<1>1. bits \in SUBSET (0..7)
  BY DEF FlagBit, Flags
<1>2. BitsOf(StatusByte(flags)) = bits
  BY <1>1, BitsOfValue DEF StatusByte
<1>3. \A f, g \in Flags : FlagBit[f] = FlagBit[g] => f = g
  BY DEF FlagBit, Flags
<1>4. \A f \in Flags : FlagBit[f] \in bits <=> f \in flags
  BY <1>3
<1> QED BY <1>2, <1>4 DEF FlagsOf

LEMMA SizesOf ==
  ASSUME NEW kind \in Kinds
  PROVE  /\ SizeOf[kind] \in Int /\ 1 <= SizeOf[kind] /\ SizeOf[kind] <= 3
         /\ kind = "call" => SizeOf[kind] = 2
         /\ kind \in {"A", "P"} => SizeOf[kind] = 1
         /\ kind = "interrupt" => SizeOf[kind] = 3
BY DEF Kinds, SizeOf

LEMMA Starts ==
  ASSUME frames \in Seq(Frame), NEW i \in 1..Len(frames)
  PROVE  /\ i \in Int /\ frames[i] \in Frame /\ Start(i) \in Nat
         /\ frames[i].kind \in Kinds /\ frames[i].depth \in Nat
<1>1. i \in Int /\ frames[i] \in Frame
  OBVIOUS
<1>2. i # 1 => frames[i - 1] \in Frame
  OBVIOUS
<1> QED BY <1>1, <1>2 DEF Start, Frame

LEMMA OtherBytes ==
  ASSUME NEW f \in Frame, NEW from, NEW place, NEW first, NEW second, NEW third,
         FrameHolds(f, from, place, first, second, third),
         NEW b, NEW c, SizeOf[f.kind] >= 2 => b = second, SizeOf[f.kind] >= 3 => c = third
  PROVE  FrameHolds(f, from, place, first, b, c)
<1>1. f.kind \in Kinds
  BY DEF Frame
<1> QED BY <1>1, SizesOf DEF FrameHolds, Kinds

(* The first frames are what they were, and the bytes below a depth that   *)
(* they do not reach beyond.                                               *)
Untouched(n, depth) ==
  /\ n \in Nat /\ n <= Len(frames) /\ depth \in Int
  /\ \A i \in 1..n : frames'[i] = frames[i]
  /\ \A i \in 1..n : frames[i].depth <= depth
  /\ \A x \in Int : 0 <= x /\ x < depth =>
       Slot(stack' + Depth' - x) = Place(x) /\ page'[Place(x)] = Cell(x)

LEMMA KeptFrames ==
  ASSUME FramesOK, NEW n, NEW depth, Untouched(n, depth)
  PROVE  \A i \in 1..n : FrameAt(i)'
<1> USE DEF Untouched
<1> TAKE i \in 1..n
<1>1. i \in 1..Len(frames) /\ i \in Int
  OBVIOUS
<1>2. PICK from \in Nat, f \in Frame : from = Start(i) /\ f = frames[i]
  BY <1>1, Starts DEF FramesOK
<1>3. FrameHolds(f, from, Place(from), Cell(from), Cell(from + 1), Cell(from + 2))
  BY <1>1, <1>2 DEF FrameAt, FramesOK
<1>4. f.kind \in Kinds /\ f.depth = from + SizeOf[f.kind] /\ f.depth <= depth
  BY <1>2, <1>3 DEF FrameHolds, Frame
<1>5. /\ from \in Int /\ 0 <= from /\ from < depth
      /\ SizeOf[f.kind] >= 2 => from + 1 < depth
      /\ SizeOf[f.kind] >= 3 => from + 2 < depth
  BY <1>4, SizesOf
<1>6. frames'[i] = f /\ Start(i)' = from
  <2>1. i # 1 => frames'[i - 1] = frames[i - 1]
    <3>1. i # 1 => i - 1 \in 1..n
      OBVIOUS
    <3> QED BY <3>1
  <2> QED BY <1>2, <2>1 DEF Start
<1>7. /\ Place(from)' = Place(from) /\ Cell(from)' = Cell(from)
      /\ SizeOf[f.kind] >= 2 => Cell(from + 1)' = Cell(from + 1)
      /\ SizeOf[f.kind] >= 3 => Cell(from + 2)' = Cell(from + 2)
  <2>1. \A x \in Int : 0 <= x /\ x < depth => Place(x)' = Place(x) /\ Cell(x)' = Cell(x)
    BY DEF Place, Cell
  <2> QED BY <1>5, <2>1
<1>8. FrameHolds(f, from, Place(from)', Cell(from)', Cell(from + 1)', Cell(from + 2)')
  BY <1>3, <1>7, OtherBytes
<1> QED BY <1>6, <1>8 DEF FrameAt

-----------------------------------------------------------------------------
(* PUSHING *)

(* What a push writes for the instruction that will pull it.               *)
Pushes(kind, values, address) ==
  /\ Len(values) = SizeOf[kind]
  /\ \A i \in Int : 1 <= i /\ i <= Len(values) => values[i] \in Byte
  /\ kind = "call" => Return(append_hi_byte_to_lo_byte(values[1], values[2])) = address
  /\ kind = "A" => values[1] = reg["A"]
  /\ kind = "P" => FlagsOf(values[1]) \ {"B", "U"} = P \ {"B", "U"}
  /\ kind = "interrupt" =>
       /\ append_hi_byte_to_lo_byte(values[1], values[2]) = address
       /\ FlagsOf(values[3]) \ {"B", "U"} = P \ {"B", "U"}

LEMMA PushedFrames ==
  ASSUME AluTypeOK, StackTypeOK, FramesOK, NEW kind \in Kinds, NEW address \in Word,
         NEW values, Pushes(kind, values, address), stack_push(values),
         Pushed(kind, SizeOf[kind], address)
  PROVE  FramesOK'
<1>1. PICK size \in Int : size = SizeOf[kind]
  BY SizesOf
<1>2. PICK depth \in Int : depth = Depth
  BY DepthTypes DEF FramesOK
<1>3. PICK n \in Nat : n = Len(frames)
  BY DEF FramesOK
<1>4. /\ 1 <= size /\ size <= 3 /\ size = Len(values)
      /\ frames \in Seq(Frame) /\ 0 <= depth
  BY <1>1, <1>2, SizesOf, DepthTypes DEF FramesOK, Pushes
<1> DEFINE f == [ kind |-> kind, depth |-> depth + size, PC |-> address,
                  A |-> reg["A"], P |-> P, stack |-> stack ]
<1>5. CASE depth + size > StackSize
  <2>1. frames' = <<>>
    BY <1>1, <1>2, <1>5 DEF Pushed
  <2> QED BY <2>1, StackSizes DEF FramesOK, Depth
<1>6. CASE ~(depth + size > StackSize)
  <2>1. frames' = Append(frames, f) /\ depth + size <= StackSize
    BY <1>1, <1>2, <1>4, <1>6, StackSizes DEF Pushed
  <2>2. f \in Frame
    BY <1>4, RegisterBytes DEF Frame, AluTypeOK, StackTypeOK
  <2>3. f.depth = depth + size /\ f.kind = kind /\ f.PC = address /\ f.A = reg["A"]
        /\ f.P = P /\ f.stack = stack
    OBVIOUS
  <2> HIDE DEF f
  <2>4. /\ frames' \in Seq(Frame) /\ Len(frames') = n + 1
        /\ \A i \in 1..n : frames'[i] = frames[i]
        /\ frames'[n + 1] = f
    BY <1>3, <1>4, <2>1, <2>2
  <2>5. Depth' = depth + size
    BY <2>3, <2>4 DEF Depth
  <2>6. /\ \A x \in Int : 0 <= x /\ x <= depth =>
             Slot(stack' + (depth + size) - x) = Slot(stack + depth - x)
        /\ \A x \in Int : 0 <= x /\ x < depth =>
             page'[Slot(stack + depth - x)] = page[Slot(stack + depth - x)]
        /\ \A k \in Int : 0 <= k /\ k < size =>
             page'[Slot(stack' + (depth + size) - (depth + k))] = values[k + 1]
        /\ Slot(stack + depth - depth) = stack
    <3>1. size = Len(values) /\ 1 <= size /\ 0 <= depth /\ depth + size <= StackSize
      BY <1>4, <2>1
    <3>2. PushSeen(values, size, depth)
      BY <3>1, PushWrites
    <3> QED BY <3>2 DEF PushSeen
  <2>7. /\ \A x \in Int : 0 <= x /\ x <= depth =>
             Slot(stack' + Depth' - x) = Slot(stack + Depth - x)
        /\ \A x \in Int : 0 <= x /\ x < depth =>
             page'[Slot(stack + Depth - x)] = page[Slot(stack + Depth - x)]
        /\ \A k \in Int : 0 <= k /\ k < size =>
             page'[Slot(stack' + Depth' - (depth + k))] = values[k + 1]
        /\ Slot(stack + Depth - depth) = stack
    BY <1>2, <2>5, <2>6
  <2>8. /\ Place(depth)' = stack
        /\ Cell(depth)' = values[1]
        /\ size >= 2 => Cell(depth + 1)' = values[2]
        /\ size >= 3 => Cell(depth + 2)' = values[3]
    <3>1. Slot(stack' + Depth' - depth) = stack
      <4>1. 0 <= depth /\ depth <= depth
        BY <1>4
      <4> QED BY <1>2, <2>7, <4>1
    <3>2. page'[Slot(stack' + Depth' - depth)] = values[1]
      <4>1. PICK k \in Int : k = 0 /\ depth + k = depth /\ k + 1 = 1
        OBVIOUS
      <4>2. page'[Slot(stack' + Depth' - (depth + k))] = values[k + 1]
        <5>1. 0 <= k /\ k < size
          BY <1>4, <4>1
        <5> QED BY <2>7, <5>1, Zenon
      <4> QED BY <4>1, <4>2, Zenon
    <3>3. size >= 2 => page'[Slot(stack' + Depth' - (depth + 1))] = values[1 + 1]
      BY <1>4, <2>7
    <3>4. size >= 3 => page'[Slot(stack' + Depth' - (depth + 2))] = values[2 + 1]
      BY <1>4, <2>7
    <3>5. 1 + 1 = 2 /\ 2 + 1 = 3
      OBVIOUS
    <3> QED BY <3>1, <3>2, <3>3, <3>4, <3>5 DEF Place, Cell
  <2>9. \A i \in 1..n : frames[i].depth <= depth
    <3> TAKE i \in 1..n
    <3>1. frames # <<>> /\ n \in 1..n /\ i <= n
      BY <1>3, <1>4
    <3> QED BY <1>2, <1>3, <3>1, DepthTypes DEF FramesOK
  <2>10. \A i \in 1..n : FrameAt(i)'
    <3>1. \A x \in Int : 0 <= x /\ x < depth =>
            Slot(stack' + Depth' - x) = Place(x) /\ page'[Place(x)] = Cell(x)
      BY <2>7 DEF Place, Cell
    <3>2. Untouched(n, depth)
      BY <1>3, <2>4, <2>9, <3>1 DEF Untouched
    <3> QED BY <3>2, KeptFrames
  <2>11. FrameAt(n + 1)'
    <3>1. Start(n + 1)' = depth
      <4>1. n = 0 => depth = 0
        BY <1>2, <1>3, <1>4, DepthTypes DEF Depth
      <4>2. n # 0 => n \in 1..n /\ frames # <<>>
        BY <1>3, <1>4
      <4>3. n # 0 => frames'[n].depth = depth
        BY <1>2, <1>3, <1>4, <2>4, <4>2, DepthTypes
      <4>4. (n + 1) - 1 = n /\ (n + 1 = 1 <=> n = 0)
        OBVIOUS
      <4> QED BY <4>1, <4>3, <4>4 DEF Start
    <3>2. FrameHolds(f, depth, stack, values[1], values[2], values[3])
      BY <1>1, <2>3 DEF FrameHolds, Pushes, AluTypeOK
    <3>3. FrameHolds(f, depth, Place(depth)', Cell(depth)', Cell(depth + 1)', Cell(depth + 2)')
      BY <1>1, <2>2, <2>3, <2>8, <3>2, OtherBytes
    <3> QED BY <2>4, <3>1, <3>3 DEF FrameAt
  <2>12. \A i \in 1..n + 1 : FrameAt(i)'
    <3>1. \A i \in 1..n + 1 : i \in 1..n \/ i = n + 1
      OBVIOUS
    <3> QED BY <2>10, <2>11, <3>1
  <2>13. \A i, j \in 1..n + 1 : i <= j => frames'[i].depth <= frames'[j].depth
    <3> TAKE i \in 1..n + 1, j \in 1..n + 1
    <3>1. CASE j \in 1..n /\ i <= j
      <4>1. i \in 1..n
        BY <3>1
      <4> QED BY <1>3, <2>4, <3>1, <4>1 DEF FramesOK
    <3>2. CASE j = n + 1 /\ i \in 1..n
      <4>1. frames[i].depth <= depth /\ frames[i].depth \in Int
        BY <1>3, <1>4, <2>9, <3>2, Starts
      <4> QED BY <1>4, <2>3, <2>4, <3>2, <4>1
    <3>3. CASE j = n + 1 /\ i = n + 1
      BY <1>4, <2>3, <2>4, <3>3
    <3> QED BY <3>1, <3>2, <3>3
  <2> QED BY <1>4, <2>1, <2>4, <2>5, <2>12, <2>13 DEF FramesOK
<1> QED BY <1>5, <1>6

-----------------------------------------------------------------------------
(* PULLING *)

(* What a pull does to the places below where the last frame began.        *)
PullSeen(size, depth) ==
  \A x \in Int : 0 <= x /\ x < depth - size =>
    Slot(stack' + (depth - size) - x) = Slot(stack + depth - x)

LEMMA PullPlaces ==
  ASSUME StackTypeOK, NEW size \in Int, 1 <= size, NEW depth \in Int, size <= depth,
         depth <= StackSize, stack_pull(size)
  PROVE  PullSeen(size, depth)
<1>1. stack \in Int /\ 0 <= stack /\ stack < StackSize
  BY StackSizes DEF StackTypeOK
<1>2. stack' = Slot(stack + size)
  BY DEF stack_pull
<1>3. /\ stack' \in Int /\ 0 <= stack'
      /\ stack' = stack + size \/ (stack' = stack + size - StackSize /\ StackSize <= stack + size)
  <2>1. stack + size \in Int /\ 0 <= stack + size /\ stack + size < StackSize + StackSize
    BY <1>1, StackSizes
  <2>2. PICK a \in Int : a = stack + size
    BY <2>1
  <2>3. a \in Int /\ 0 <= a /\ a < StackSize + StackSize
    BY <2>1, <2>2
  <2>4. CASE stack' = a
    BY <2>2, <2>3, <2>4
  <2>5. CASE stack' = a - StackSize /\ StackSize <= a
    <3>1. 0 <= a - StackSize /\ a - StackSize \in Int
      BY <2>3, <2>5, StackSizes
    <3>2. a - StackSize = stack + size - StackSize
      BY <1>1, <2>2, StackSizes
    <3> QED BY <2>2, <2>5, <3>1, <3>2
  <2>6. stack' = a \/ (stack' = a - StackSize /\ StackSize <= a)
    <3>1. stack' = Slot(a)
      BY <1>2, <2>2
    <3> QED BY <2>3, <3>1, SlotOf, StackSizes
  <2> QED BY <2>4, <2>5, <2>6
<1>4. ASSUME NEW x \in Int, 0 <= x, x < depth - size
      PROVE  Slot(stack' + (depth - size) - x) = Slot(stack + depth - x)
  <2>1. PICK s \in Int : s = stack' /\ 0 <= s
    BY <1>3
  <2>2. PICK rest \in Int : rest = (depth - size) - x /\ 0 < rest /\ rest + size <= StackSize
    BY <1>4, StackSizes
  <2>3. PICK p \in Int : p = stack + depth - x
    BY <1>1, <1>4
  <2>4. PICK q \in Int : q = s + rest
    OBVIOUS
  <2>5. stack' + (depth - size) - x = q /\ p = stack + size + rest
    BY <1>1, <1>4, <2>1, <2>2, <2>3, <2>4
  <2>6. p < StackSize + StackSize /\ 0 <= q
    <3>1. p = stack + size + rest
      BY <2>5
    <3>2. 0 <= s
      BY <2>1
    <3>3. 0 <= q
      BY <2>2, <2>4, <3>2
    <3> QED BY <1>1, <2>2, <3>1, <3>3, StackSizes
  <2>7. CASE s = stack + size
    BY <1>1, <2>2, <2>3, <2>4, <2>5, <2>7
  <2>8. CASE s = stack + size - StackSize /\ StackSize <= stack + size
    <3>1. StackSize <= p /\ q = p - StackSize
      BY <1>1, <2>2, <2>4, <2>5, <2>8, StackSizes
    <3>2. Slot(p) = p - StackSize
      BY <2>6, <3>1, SlotOf
    <3>3. q < StackSize
      BY <2>6, <3>1, StackSizes
    <3>4. Slot(q) = q
      BY <2>6, <3>3, SlotOf
    <3> QED BY <2>3, <2>5, <3>1, <3>2, <3>4
  <2> QED BY <1>3, <2>1, <2>7, <2>8
<1> QED BY <1>4 DEF PullSeen

(* What is pulled is the last frame.                                       *)
Returns(kind) ==
  LET size == SizeOf[kind] IN
  FrameHolds(frames[Len(frames)], Start(Len(frames)), stack',
             Pulled(size), Pulled(size - 1), Pulled(size - 2))

LEMMA PulledFrames ==
  ASSUME StackTypeOK, FramesOK, NEW kind \in Kinds, Pulls(kind), stack_pull(SizeOf[kind])
  PROVE  FramesOK' /\ Returns(kind)
<1>1. PICK size \in Int : size = SizeOf[kind]
  BY SizesOf
<1>2. PICK depth \in Int : depth = Depth
  BY DepthTypes DEF FramesOK
<1>3. PICK n \in Nat : n = Len(frames)
  BY DEF FramesOK
<1>4. /\ 1 <= size /\ frames # <<>> /\ frames \in Seq(Frame)
      /\ n \in 1..n /\ 1 <= n /\ depth = frames[n].depth /\ depth <= StackSize
      /\ frames' = SubSeq(frames, 1, n - 1)
  BY <1>1, <1>2, <1>3, SizesOf, DepthTypes DEF FramesOK, Pulls
<1>5. PICK from \in Nat, f \in Frame : from = Start(n) /\ f = frames[n]
  BY <1>3, <1>4, Starts
<1>6. FrameHolds(f, from, Place(from), Cell(from), Cell(from + 1), Cell(from + 2))
  BY <1>3, <1>4, <1>5 DEF FramesOK, FrameAt
<1>7. f.kind = kind /\ depth = from + size /\ from = depth - size /\ size <= depth
  BY <1>1, <1>3, <1>4, <1>5, <1>6 DEF FrameHolds, Pulls
<1>8. /\ frames' \in Seq(Frame) /\ Len(frames') = n - 1
      /\ \A i \in 1..n - 1 : frames'[i] = frames[i]
  BY <1>3, <1>4
<1>9. Depth' = from
  <2>1. CASE n = 1
    <3>1. frames' = <<>>
      BY <1>8, <2>1
    <3> QED BY <1>5, <2>1, <3>1 DEF Depth, Start
  <2>2. CASE n # 1
    <3>1. n - 1 \in 1..n - 1 /\ frames' # <<>>
      BY <1>8, <2>2
    <3> QED BY <1>5, <1>8, <2>2, <3>1 DEF Depth, Start
  <2> QED BY <2>1, <2>2
<1>10. \A x \in Int : 0 <= x /\ x < from =>
         Slot(stack' + Depth' - x) = Place(x) /\ page'[Place(x)] = Cell(x)
  <2>1. PullSeen(size, depth)
    BY <1>1, <1>4, <1>7, PullPlaces
  <2>2. \A x \in Int : 0 <= x /\ x < depth - size =>
          Slot(stack' + (depth - size) - x) = Slot(stack + depth - x)
    BY <2>1 DEF PullSeen
  <2>3. \A x \in Int : 0 <= x /\ x < from =>
          Slot(stack' + Depth' - x) = Slot(stack + Depth - x)
    BY <1>2, <1>7, <1>9, <2>2
  <2> QED BY <2>3 DEF Place, Cell, stack_pull
<1>11. \A i \in 1..n - 1 : frames[i].depth <= from
  <2> TAKE i \in 1..n - 1
  <2>1. n # 1 /\ i \in 1..n /\ n - 1 \in 1..n /\ i <= n - 1
    OBVIOUS
  <2>2. frames[n - 1].depth = from
    BY <1>5, <2>1 DEF Start
  <2> QED BY <1>3, <2>1, <2>2 DEF FramesOK
<1>12. \A i \in 1..n - 1 : FrameAt(i)'
  <2>1. Untouched(n - 1, from)
    BY <1>3, <1>4, <1>8, <1>10, <1>11 DEF Untouched
  <2> QED BY <2>1, KeptFrames
<1>13. \A i, j \in 1..n - 1 : i <= j => frames'[i].depth <= frames'[j].depth
  <2> TAKE i \in 1..n - 1, j \in 1..n - 1
  <2>1. i \in 1..n /\ j \in 1..n
    OBVIOUS
  <2> QED BY <1>3, <1>8, <2>1 DEF FramesOK
<1>14. FramesOK'
  <2>1. Depth' <= StackSize
    BY <1>4, <1>7, <1>9, StackSizes
  <2> QED BY <1>8, <1>12, <1>13, <2>1 DEF FramesOK
<1>15. Returns(kind)
  <2>1. stack \in Int
    BY StackSizes DEF StackTypeOK
  <2>2. \A x \in Int : stack + depth - (from + x) = stack + (size - x)
    BY <1>7, <2>1
  <2>3. \A x \in Int : Cell(from + x) = Pulled(size - x)
    BY <1>2, <2>2 DEF Cell, Place, Pulled
  <2>4. stack + depth - from = stack + size /\ size - 0 = size
    BY <1>7, <2>1
  <2>5. Cell(from) = Pulled(size) /\ Place(from) = stack'
    BY <1>1, <1>2, <2>4 DEF Cell, Place, Pulled, stack_pull
  <2>6. Cell(from + 1) = Pulled(size - 1) /\ Cell(from + 2) = Pulled(size - 2)
    BY <2>3
  <2> QED BY <1>1, <1>3, <1>5, <1>6, <2>5, <2>6 DEF Returns
<1> QED BY <1>14, <1>15

-----------------------------------------------------------------------------
(* THE INSTRUCTIONS THAT USE THE STACK *)

(* What an instruction that takes the last frame gives back.               *)
GivenBack ==
  LET last == frames[Len(frames)] IN
  /\ stack' = last.stack
  /\ last.kind \in {"call", "interrupt"} => PC' = last.PC
  /\ last.kind = "A" => reg'["A"] = last.A
  /\ last.kind \in {"P", "interrupt"} => P' \ {"B"} = last.P \ {"B"}

LastTaken == Len(frames') < Len(frames) /\ frames' = SubSeq(frames, 1, Len(frames) - 1)

LEMMA Sizes ==
  /\ "call" \in Kinds /\ "A" \in Kinds /\ "P" \in Kinds /\ "interrupt" \in Kinds
  /\ SizeOf["call"] = 2 /\ SizeOf["A"] = 1 /\ SizeOf["P"] = 1 /\ SizeOf["interrupt"] = 3
BY DEF Kinds, SizeOf

(* A push never takes a frame: what no longer fits is not the second frame. *)
LEMMA PushTakesNone ==
  ASSUME FramesOK, NEW kind \in Kinds, NEW address, Pushed(kind, SizeOf[kind], address)
  PROVE  ~LastTaken
<1>1. PICK n \in Nat : n = Len(frames)
  BY DEF FramesOK
<1>2. /\ frames \in Seq(Frame) /\ Depth \in Int
      /\ SizeOf[kind] \in Int /\ SizeOf[kind] <= 3
  BY SizesOf, DepthTypes DEF FramesOK
<1>3. CASE ~(Depth + SizeOf[kind] > StackSize)
  <2>1. Len(frames') = n + 1
    BY <1>1, <1>2, <1>3 DEF Pushed
  <2> QED BY <1>1, <2>1 DEF LastTaken
<1>4. CASE Depth + SizeOf[kind] > StackSize
  <2> SUFFICES ASSUME LastTaken PROVE FALSE
    OBVIOUS
  <2>1. frames' = <<>>
    BY <1>4 DEF Pushed
  <2>2. n = 1
    <3>1. SubSeq(frames, 1, n - 1) = <<>> /\ 0 < n
      BY <1>1, <2>1 DEF LastTaken
    <3>2. n - 1 \in Nat /\ Len(SubSeq(frames, 1, n - 1)) = n - 1
      BY <1>1, <1>2, <3>1
    <3>3. n - 1 = 0
      BY <3>1, <3>2
    <3> QED BY <3>3
  <2>3. 1 \in 1..Len(frames) /\ frames # <<>>
    <3>1. Len(frames) = 1
      BY <1>1, <2>2
    <3> QED BY <3>1
  <2>4. /\ Depth = frames[1].depth /\ FrameAt(1) /\ frames[1].kind \in Kinds
    BY <1>1, <1>2, <2>2, <2>3, DepthTypes, Starts DEF FramesOK
  <2>5. Depth = 0 + SizeOf[frames[1].kind]
    BY <2>4 DEF FrameAt, FrameHolds, Start
  <2>6. SizeOf[frames[1].kind] \in Int /\ SizeOf[frames[1].kind] <= 3
    BY <2>4, SizesOf
  <2> QED BY <1>2, <1>4, <2>5, <2>6, StackSizes
<1> QED BY <1>3, <1>4

LEMMA BytesPushed ==
  /\ \A a \in Byte : /\ Len(<<a>>) = 1 /\ <<a>>[1] = a
                     /\ \A i \in Int : 1 <= i /\ i <= 1 => <<a>>[i] \in Byte
  /\ \A a, b \in Byte : /\ Len(<<a, b>>) = 2 /\ <<a, b>>[1] = a /\ <<a, b>>[2] = b
                        /\ \A i \in Int : 1 <= i /\ i <= 2 => <<a, b>>[i] \in Byte
  /\ \A a, b, c \in Byte :
       /\ Len(<<a, b, c>>) = 3
       /\ <<a, b, c>>[1] = a /\ <<a, b, c>>[2] = b /\ <<a, b, c>>[3] = c
       /\ \A i \in Int : 1 <= i /\ i <= 3 => <<a, b, c>>[i] \in Byte
<1>1. \A i \in Int : /\ 1 <= i /\ i <= 1 => i = 1
                     /\ 1 <= i /\ i <= 2 => i = 1 \/ i = 2
                     /\ 1 <= i /\ i <= 3 => i = 1 \/ i = 2 \/ i = 3
  OBVIOUS
<1>2. ASSUME NEW a \in Byte
      PROVE  /\ Len(<<a>>) = 1 /\ <<a>>[1] = a
             /\ \A i \in Int : 1 <= i /\ i <= 1 => <<a>>[i] \in Byte
  <2>1. Len(<<a>>) = 1 /\ <<a>>[1] = a
    OBVIOUS
  <2> QED BY <1>1, <2>1
<1>3. ASSUME NEW a \in Byte, NEW b \in Byte
      PROVE  /\ Len(<<a, b>>) = 2 /\ <<a, b>>[1] = a /\ <<a, b>>[2] = b
             /\ \A i \in Int : 1 <= i /\ i <= 2 => <<a, b>>[i] \in Byte
  <2>1. Len(<<a, b>>) = 2 /\ <<a, b>>[1] = a /\ <<a, b>>[2] = b
    OBVIOUS
  <2> QED BY <1>1, <2>1
<1>4. ASSUME NEW a \in Byte, NEW b \in Byte, NEW c \in Byte
      PROVE  /\ Len(<<a, b, c>>) = 3
             /\ <<a, b, c>>[1] = a /\ <<a, b, c>>[2] = b /\ <<a, b, c>>[3] = c
             /\ \A i \in Int : 1 <= i /\ i <= 3 => <<a, b, c>>[i] \in Byte
  <2>1. /\ Len(<<a, b, c>>) = 3
        /\ <<a, b, c>>[1] = a /\ <<a, b, c>>[2] = b /\ <<a, b, c>>[3] = c
    OBVIOUS
  <2> QED BY <1>1, <2>1
<1> QED BY <1>2, <1>3, <1>4

LEMMA FlagsPushed ==
  ASSUME P \subseteq Flags, NEW set, set \subseteq {"B", "U"}
  PROVE  /\ StatusByte(P \union set) \in Byte /\ StatusByte(P \ set) \in Byte
         /\ FlagsOf(StatusByte(P \union set)) \ {"B", "U"} = P \ {"B", "U"}
         /\ FlagsOf(StatusByte(P \ set)) \ {"B", "U"} = P \ {"B", "U"}
<1>1. P \union set \in SUBSET Flags /\ P \ set \in SUBSET Flags
  BY DEF Flags
<1> QED BY <1>1, FlagsReturn, StatusTypes

(* The pushes.                                                             *)
LEMMA JSRFrames ==
  ASSUME AluTypeOK, AddressTypeOK, StackTypeOK, FramesOK, NEW target,
         execute_JSR(target), Pushed("call", 2, Uint16(PC + 3))
  PROVE  FramesOK' /\ ~LastTaken
<1> DEFINE last == Uint16(PC + 2)
<1>1. PC \in Int /\ 0 <= PC /\ PC <= 65535
  BY Ranges DEF AddressTypeOK
<1>2. last \in Word /\ Uint16(PC + 3) \in Word
  BY <1>1, Narrowed
<1>3. PICK hi \in Byte, lo \in Byte :
        hi = High(last) /\ lo = Low(last) /\ append_hi_byte_to_lo_byte(hi, lo) = last
  BY <1>2, Halves
<1>4. Return(last) = Uint16(PC + 3)
  BY <1>1 DEF Return, Uint16
<1>5. stack_push(<<hi, lo>>)
  BY <1>3 DEF execute_JSR
<1>6. Pushes("call", <<hi, lo>>, Uint16(PC + 3))
  BY <1>3, <1>4, BytesPushed, Sizes DEF Pushes
<1> HIDE DEF last
<1> QED BY <1>2, <1>5, <1>6, Sizes, PushedFrames, PushTakesNone

LEMMA PHAFrames ==
  ASSUME AluTypeOK, StackTypeOK, FramesOK, execute_PHA, Pushed("A", 1, 0)
  PROVE  FramesOK' /\ ~LastTaken
<1>1. PICK a \in Byte : a = reg["A"]
  BY RegisterBytes DEF AluTypeOK
<1>2. stack_push(<<a>>) /\ 0 \in Word
  BY <1>1, Ranges DEF execute_PHA
<1>3. Pushes("A", <<a>>, 0)
  BY <1>1, BytesPushed, Sizes DEF Pushes
<1> QED BY <1>2, <1>3, Sizes, PushedFrames, PushTakesNone

LEMMA PHPFrames ==
  ASSUME AluTypeOK, StackTypeOK, FramesOK, execute_PHP, Pushed("P", 1, 0)
  PROVE  FramesOK' /\ ~LastTaken
<1>1. PICK a \in Byte :
        a = StatusByte(P \union {"B", "U"}) /\ FlagsOf(a) \ {"B", "U"} = P \ {"B", "U"}
  BY FlagsPushed DEF AluTypeOK
<1>2. stack_push(<<a>>) /\ 0 \in Word
  BY <1>1, Ranges DEF execute_PHP
<1>3. Pushes("P", <<a>>, 0)
  BY <1>1, BytesPushed, Sizes DEF Pushes
<1> QED BY <1>2, <1>3, Sizes, PushedFrames, PushTakesNone

LEMMA InterruptFrames ==
  ASSUME AluTypeOK, StackTypeOK, FramesOK, NEW address \in Word, NEW status,
         Interrupted(address, status), StatusByte(status) \in Byte,
         FlagsOf(StatusByte(status)) \ {"B", "U"} = P \ {"B", "U"},
         Pushed("interrupt", 3, address)
  PROVE  FramesOK' /\ ~LastTaken
<1>1. PICK hi \in Byte, lo \in Byte, flags \in Byte :
        /\ hi = High(address) /\ lo = Low(address) /\ flags = StatusByte(status)
        /\ append_hi_byte_to_lo_byte(hi, lo) = address
  BY Halves
<1>2. stack_push(<<hi, lo, flags>>)
  BY <1>1 DEF Interrupted
<1>3. Pushes("interrupt", <<hi, lo, flags>>, address)
  BY <1>1, BytesPushed, Sizes DEF Pushes
<1> QED BY <1>2, <1>3, Sizes, PushedFrames, PushTakesNone

(* The pulls.                                                              *)
LEMMA RTSFrames ==
  ASSUME AluTypeOK, StackTypeOK, FramesOK, execute_RTS, Pulls("call")
  PROVE  FramesOK' /\ GivenBack
<1>1. stack_pull(2) /\ PC' = Return(append_hi_byte_to_lo_byte(Pulled(2), Pulled(1)))
  BY DEF execute_RTS
<1>2. FramesOK' /\ Returns("call")
  BY <1>1, Sizes, PulledFrames
<1>3. 2 - 1 = 1
  OBVIOUS
<1> QED BY <1>1, <1>2, <1>3, Sizes DEF Returns, FrameHolds, Pulls, GivenBack

LEMMA PLAFrames ==
  ASSUME AluTypeOK, StackTypeOK, FramesOK, execute_PLA, Pulls("A")
  PROVE  FramesOK' /\ GivenBack
<1>1. stack_pull(1) /\ reg'["A"] = Pulled(1)
  BY RegisterBytes DEF execute_PLA, AluTypeOK
<1>2. FramesOK' /\ Returns("A")
  BY <1>1, Sizes, PulledFrames
<1> QED BY <1>1, <1>2, Sizes DEF Returns, FrameHolds, Pulls, GivenBack

LEMMA PLPFrames ==
  ASSUME AluTypeOK, StackTypeOK, FramesOK, execute_PLP, Pulls("P")
  PROVE  FramesOK' /\ GivenBack
<1>1. stack_pull(1) /\ P' = (FlagsOf(Pulled(1)) \ {"B"}) \union {"U"}
  BY DEF execute_PLP
<1>2. FramesOK' /\ Returns("P")
  BY <1>1, Sizes, PulledFrames
<1> QED BY <1>1, <1>2, Sizes DEF Returns, FrameHolds, Pulls, GivenBack

LEMMA RTIFrames ==
  ASSUME AluTypeOK, StackTypeOK, FramesOK, execute_RTI, Pulls("interrupt")
  PROVE  FramesOK' /\ GivenBack
<1>1. /\ stack_pull(3) /\ P' = FlagsOf(Pulled(1)) \union {"U"}
      /\ PC' = append_hi_byte_to_lo_byte(Pulled(3), Pulled(2))
  BY DEF execute_RTI
<1>2. FramesOK' /\ Returns("interrupt")
  BY <1>1, Sizes, PulledFrames
<1>3. 3 - 1 = 2 /\ 3 - 2 = 1
  OBVIOUS
<1> QED BY <1>1, <1>2, <1>3, Sizes DEF Returns, FrameHolds, Pulls, GivenBack

LEMMA CallFrames ==
  ASSUME AluTypeOK, AddressTypeOK, StackTypeOK, FramesOK, Calls
  PROVE  FramesOK' /\ (LastTaken => GivenBack)
<1> DEFINE Goal == FramesOK' /\ (LastTaken => GivenBack)
<1>1. PC \in Word /\ Uint16(PC + 2) \in Word /\ P \subseteq Flags
  BY Wholes, Narrowed DEF AddressTypeOK, AluTypeOK
<1>2. ASSUME NEW target, execute_JSR(target), Pushed("call", 2, Uint16(PC + 3)) PROVE Goal
  BY <1>2, JSRFrames
<1>3. ASSUME execute_RTS, Pulls("call") PROVE Goal
  BY <1>3, RTSFrames
<1>4. ASSUME execute_PHA, Pushed("A", 1, 0) PROVE Goal
  BY <1>4, PHAFrames
<1>5. ASSUME execute_PLA, Pulls("A") PROVE Goal
  BY <1>5, PLAFrames
<1>6. ASSUME execute_PHP, Pushed("P", 1, 0) PROVE Goal
  BY <1>6, PHPFrames
<1>7. ASSUME execute_PLP, Pulls("P") PROVE Goal
  BY <1>7, PLPFrames
<1>8. ASSUME execute_BRK, Pushed("interrupt", 3, Uint16(PC + 2)) PROVE Goal
  BY <1>1, <1>8, FlagsPushed, InterruptFrames DEF execute_BRK
<1>9. ASSUME execute_NMI, Pushed("interrupt", 3, PC) PROVE Goal
  BY <1>1, <1>9, FlagsPushed, InterruptFrames DEF execute_NMI
<1>10. ASSUME execute_RTI, Pulls("interrupt") PROVE Goal
  BY <1>10, RTIFrames
<1> HIDE DEF Goal
<1>11. Goal
  BY <1>2, <1>3, <1>4, <1>5, <1>6, <1>7, <1>8, <1>9, <1>10, Zenon DEF Calls
<1> QED BY <1>11 DEF Goal

(* Steps that leave the stack alone.                                       *)
LEMMA StackAlone ==
  ASSUME FramesOK, UNCHANGED <<stack, page, frames>>
  PROVE  FramesOK'
<1>1. Depth' = Depth
  BY DEF Depth
<1>2. /\ \A x : Place(x)' = Place(x) /\ Cell(x)' = Cell(x)
      /\ \A i : Start(i)' = Start(i)
  BY <1>1 DEF Place, Cell, Start
<1>3. \A i \in 1..Len(frames) : FrameAt(i)'
  BY <1>2 DEF FrameAt, FramesOK
<1> QED BY <1>1, <1>3 DEF FramesOK

LEMMA NoFrames ==
  ASSUME frames = <<>>
  PROVE  FramesOK
BY StackSizes DEF FramesOK, Depth

LEMMA FramesInit == ProgramInit => FramesInv
BY TypesInit, NoFrames DEF ProgramInit, FramesInv

LEMMA FramesStep ==
  FramesInv /\ [ProgramNext]_program_vars => FramesInv' /\ (LastTaken => GivenBack)
<1> SUFFICES ASSUME FramesInv, [ProgramNext]_program_vars
             PROVE  FramesInv' /\ (LastTaken => GivenBack)
  OBVIOUS
<1>1. /\ AluTypeOK /\ AddressTypeOK /\ StackTypeOK /\ FramesOK /\ TypeInv'
      /\ frames # <<>> => uses[2] = "call"
      /\ uses' = uses
  BY TypesStep DEF FramesInv, TypeInv, ProgramNext, program_vars
<1>2. frames' = frames => ~LastTaken
  <2>1. Len(frames) \in Int
    BY <1>1 DEF FramesOK
  <2> QED BY <2>1 DEF LastTaken
<1>3. ASSUME UNCHANGED <<stack, page, frames>> PROVE FramesInv' /\ ~LastTaken
  BY <1>1, <1>2, <1>3, StackAlone DEF FramesInv
<1>4. CASE Calls
  BY <1>1, <1>4, CallFrames DEF FramesInv, Calls
<1>5. CASE Indexes \/ SetsUp
  <2>1. uses[2] = "index" /\ frames' = frames
    BY <1>5 DEF Indexes, SetsUp
  <2>2. frames = <<>> /\ frames' = <<>>
    BY <1>1, <2>1
  <2>3. FramesOK'
    BY <2>2, StackSizes DEF FramesOK, Depth
  <2> QED BY <1>1, <1>2, <2>1, <2>2, <2>3 DEF FramesInv
<1>6. CASE Computes \/ ComputesLong \/ Jumps \/ Between
  BY <1>3, <1>6 DEF Computes, ComputesLong, Jumps, Between
<1>7. CASE UNCHANGED program_vars
  BY <1>3, <1>7 DEF program_vars, cpu_vars
<1> QED BY <1>4, <1>5, <1>6, <1>7 DEF ProgramNext

(* Whatever a program pushes comes back, for every size of the page, every  *)
(* place where the stack pointer starts, and every nesting that fits: what  *)
(* stack_push wrote is still there, above and below the page's edge, when   *)
(* RTS, RTI, PLA or PLP come to it, the flags survive the byte they are     *)
(* packed into, and the pointer is what it was.                            *)
THEOREM PushedComesBack == ProgramSpec => StackReturns
<1>1. FramesInv /\ [ProgramNext]_program_vars => [LastTaken => GivenBack]_program_vars
  BY FramesStep
<1>2. [][LastTaken => GivenBack]_program_vars <=> StackReturns
  BY DEF StackReturns, LastTaken, GivenBack
<1> QED BY <1>1, <1>2, FramesInit, FramesStep, PTL DEF ProgramSpec

-----------------------------------------------------------------------------
(* LONG ARITHMETIC *)

(* A step of an addition or a subtraction of bytes, with the carry or the   *)
(* absence of a borrow that it is given and the one that it leaves.        *)
Plus(a, b, in, sum, out) == a + b + in = sum + (256 * out)
Minus(a, b, in, rest, out) == a - b - (1 - in) = rest - (256 * (1 - out))

AddOverflows(a, b, sum) == Sign(a) = Sign(b) /\ Sign(a) # Sign(sum)
SubtractOverflows(a, b, rest) == Sign(a) # Sign(b) /\ Sign(a) # Sign(rest)

LEMMA SignOf ==
  ASSUME NEW value \in Byte
  PROVE  /\ value \in Int /\ 0 <= value /\ value <= 255
         /\ Sign(value) \in Int
         /\ value >= 128 => Sign(value) = 1
         /\ ~(value >= 128) => Sign(value) = 0
<1>1. value \in Int /\ 0 <= value /\ value <= 255
  BY Ranges
<1> QED BY <1>1 DEF Sign

SignedOf(hi, lo) == Signed((256 * hi) + lo, 65536)

LEMMA SignedWord ==
  ASSUME NEW hi \in Byte, NEW lo \in Byte
  PROVE  SignedOf(hi, lo) = (256 * hi) + lo - (65536 * Sign(hi))
<1>1. 65536 \div 2 = 32768
  BY SMT
<1>2. /\ hi \in Int /\ 0 <= hi /\ hi <= 255 /\ lo \in Int /\ 0 <= lo /\ lo <= 255
      /\ hi >= 128 => Sign(hi) = 1
      /\ ~(hi >= 128) => Sign(hi) = 0
  BY SignOf
<1>3. CASE hi >= 128
  BY <1>1, <1>2, <1>3, SMT DEF Signed, SignedOf
<1>4. CASE ~(hi >= 128)
  BY <1>1, <1>2, <1>4, SMT DEF Signed, SignedOf
<1> QED BY <1>3, <1>4

LEMMA SumsJoin ==
  ASSUME NEW xh \in Int, NEW xl \in Int, NEW yh \in Int, NEW yl \in Int,
         NEW high \in Int, NEW low \in Int, NEW carry \in Int, NEW out \in Int,
         Plus(xl, yl, 0, low, carry), Plus(xh, yh, carry, high, out)
  PROVE  ((256 * xh) + xl) + ((256 * yh) + yl) = low + (256 * high) + (65536 * out)
<1>1. xl = low + (256 * carry) - yl /\ xh = high + (256 * out) - yh - carry
  BY SMT DEF Plus
<1> QED BY <1>1, SMT

LEMMA DifferencesJoin ==
  ASSUME NEW xh \in Int, NEW xl \in Int, NEW yh \in Int, NEW yl \in Int,
         NEW high \in Int, NEW low \in Int, NEW carry \in Int, NEW out \in Int,
         Minus(xl, yl, 1, low, carry), Minus(xh, yh, carry, high, out)
  PROVE  ((256 * xh) + xl) - ((256 * yh) + yl) = low + (256 * high) - (65536 * (1 - out))
<1>1. /\ xl = low - (256 * (1 - carry)) + yl
      /\ xh = high - (256 * (1 - out)) + yh + (1 - carry)
  BY SMT DEF Minus
<1> QED BY <1>1, SMT

SumExact(xh, xl, yh, yl, low, high, out) ==
  /\ ((256 * xh) + xl) + ((256 * yh) + yl) = low + (256 * high) + (65536 * out)
  /\ AddOverflows(xh, yh, high) <=>
       SignedOf(high, low) # SignedOf(xh, xl) + SignedOf(yh, yl)

DifferenceExact(xh, xl, yh, yl, low, high, out) ==
  /\ ((256 * xh) + xl) - ((256 * yh) + yl) = low + (256 * high) - (65536 * (1 - out))
  /\ out = 1 <=> (256 * xh) + xl >= (256 * yh) + yl
  /\ SubtractOverflows(xh, yh, high) <=>
       SignedOf(high, low) # SignedOf(xh, xl) - SignedOf(yh, yl)
  /\ (Sign(high) = 1 <=> ~SubtractOverflows(xh, yh, high)) <=>
       SignedOf(xh, xl) < SignedOf(yh, yl)

(* The two steps of a chain, on the lower and on the upper bytes.          *)
LEMMA LongSum ==
  ASSUME NEW xh \in Byte, NEW xl \in Byte, NEW yh \in Byte, NEW yl \in Byte,
         NEW low \in Byte, NEW high \in Byte, NEW carry \in {0, 1}, NEW out \in {0, 1},
         Plus(xl, yl, 0, low, carry), Plus(xh, yh, carry, high, out)
  PROVE  SumExact(xh, xl, yh, yl, low, high, out)
<1>1. /\ xh \in Int /\ 0 <= xh /\ xh <= 255 /\ yh \in Int /\ 0 <= yh /\ yh <= 255
      /\ high \in Int /\ 0 <= high /\ high <= 255
      /\ xl \in Int /\ yl \in Int /\ low \in Int /\ carry \in Int /\ out \in Int
      /\ carry = 0 \/ carry = 1
      /\ out = 0 \/ out = 1
  BY SignOf
<1>2. PICK sx \in Int : sx = Sign(xh) /\ (xh >= 128 => sx = 1) /\ (~(xh >= 128) => sx = 0)
  BY SignOf
<1>3. PICK sy \in Int : sy = Sign(yh) /\ (yh >= 128 => sy = 1) /\ (~(yh >= 128) => sy = 0)
  BY SignOf
<1>4. PICK s \in Int : s = Sign(high) /\ (high >= 128 => s = 1) /\ (~(high >= 128) => s = 0)
  BY SignOf
<1>5. xh + yh + carry = high + (256 * out)
  BY DEF Plus
<1>6. ((256 * xh) + xl) + ((256 * yh) + yl) = low + (256 * high) + (65536 * out)
  BY <1>1, SumsJoin, SMT
<1>7. out + s # sx + sy <=> sx = sy /\ sx # s
  <2>1. CASE xh >= 128 /\ yh >= 128
    BY <1>1, <1>2, <1>3, <1>4, <1>5, <2>1, SMT
  <2>2. CASE xh >= 128 /\ ~(yh >= 128)
    BY <1>1, <1>2, <1>3, <1>4, <1>5, <2>2, SMT
  <2>3. CASE ~(xh >= 128) /\ yh >= 128
    BY <1>1, <1>2, <1>3, <1>4, <1>5, <2>3, SMT
  <2>4. CASE ~(xh >= 128) /\ ~(yh >= 128)
    BY <1>1, <1>2, <1>3, <1>4, <1>5, <2>4, SMT
  <2> QED BY <2>1, <2>2, <2>3, <2>4
<1>8. /\ SignedOf(high, low) = (256 * high) + low - (65536 * s)
      /\ SignedOf(xh, xl) = (256 * xh) + xl - (65536 * sx)
      /\ SignedOf(yh, yl) = (256 * yh) + yl - (65536 * sy)
  BY <1>2, <1>3, <1>4, SignedWord, SMT
<1>9. (256 * high) + low - (65536 * s)
        = ((256 * xh) + xl - (65536 * sx)) + ((256 * yh) + yl - (65536 * sy))
      <=> out + s = sx + sy
  BY <1>1, <1>6, SMT
<1>10. AddOverflows(xh, yh, high) <=>
         SignedOf(high, low) # SignedOf(xh, xl) + SignedOf(yh, yl)
  BY <1>2, <1>3, <1>4, <1>7, <1>8, <1>9, SMT DEF AddOverflows
<1> QED BY <1>6, <1>10, SMT DEF SumExact

LEMMA LongDifference ==
  ASSUME NEW xh \in Byte, NEW xl \in Byte, NEW yh \in Byte, NEW yl \in Byte,
         NEW low \in Byte, NEW high \in Byte, NEW carry \in {0, 1}, NEW out \in {0, 1},
         Minus(xl, yl, 1, low, carry), Minus(xh, yh, carry, high, out)
  PROVE  DifferenceExact(xh, xl, yh, yl, low, high, out)
<1>1. /\ xh \in Int /\ 0 <= xh /\ xh <= 255 /\ yh \in Int /\ 0 <= yh /\ yh <= 255
      /\ high \in Int /\ 0 <= high /\ high <= 255 /\ low \in Int /\ 0 <= low /\ low <= 255
      /\ xl \in Int /\ yl \in Int /\ carry \in Int /\ out \in Int
      /\ carry = 0 \/ carry = 1
      /\ out = 0 \/ out = 1
  BY SignOf
<1>2. PICK sx \in Int : sx = Sign(xh) /\ (xh >= 128 => sx = 1) /\ (~(xh >= 128) => sx = 0)
  BY SignOf
<1>3. PICK sy \in Int : sy = Sign(yh) /\ (yh >= 128 => sy = 1) /\ (~(yh >= 128) => sy = 0)
  BY SignOf
<1>4. PICK s \in Int : s = Sign(high) /\ (high >= 128 => s = 1) /\ (~(high >= 128) => s = 0)
  BY SignOf
<1>5. xh - yh - (1 - carry) = high - (256 * (1 - out))
  BY DEF Minus
<1>6. ((256 * xh) + xl) - ((256 * yh) + yl) = low + (256 * high) - (65536 * (1 - out))
  BY <1>1, DifferencesJoin, SMT
<1>7. (s + out + sy # sx + 1 <=> sx # sy /\ sx # s)
      /\ ((s = 1 <=> ~(sx # sy /\ sx # s)) <=> 0 < (1 - out) + sx - sy)
  <2>1. CASE xh >= 128 /\ yh >= 128
    BY <1>1, <1>2, <1>3, <1>4, <1>5, <2>1, SMT
  <2>2. CASE xh >= 128 /\ ~(yh >= 128)
    BY <1>1, <1>2, <1>3, <1>4, <1>5, <2>2, SMT
  <2>3. CASE ~(xh >= 128) /\ yh >= 128
    BY <1>1, <1>2, <1>3, <1>4, <1>5, <2>3, SMT
  <2>4. CASE ~(xh >= 128) /\ ~(yh >= 128)
    BY <1>1, <1>2, <1>3, <1>4, <1>5, <2>4, SMT
  <2> QED BY <2>1, <2>2, <2>3, <2>4
<1>8. /\ SignedOf(high, low) = (256 * high) + low - (65536 * s)
      /\ SignedOf(xh, xl) = (256 * xh) + xl - (65536 * sx)
      /\ SignedOf(yh, yl) = (256 * yh) + yl - (65536 * sy)
  BY <1>2, <1>3, <1>4, SignedWord, SMT
<1>9. (256 * high) + low - (65536 * s)
        = ((256 * xh) + xl - (65536 * sx)) - ((256 * yh) + yl - (65536 * sy))
      <=> s + out + sy = sx + 1
  BY <1>1, <1>6, SMT
<1>10. out = 1 <=> (256 * xh) + xl >= (256 * yh) + yl
  BY <1>1, <1>6, SMT
<1>11. (256 * xh) + xl - (65536 * sx) < (256 * yh) + yl - (65536 * sy)
       <=> 0 < (1 - out) + sx - sy
  BY <1>1, <1>6, SMT
<1>12. SubtractOverflows(xh, yh, high) <=>
         SignedOf(high, low) # SignedOf(xh, xl) - SignedOf(yh, yl)
  BY <1>2, <1>3, <1>4, <1>7, <1>8, <1>9, SMT DEF SubtractOverflows
<1>13. (Sign(high) = 1 <=> ~SubtractOverflows(xh, yh, high)) <=>
         SignedOf(xh, xl) < SignedOf(yh, yl)
  BY <1>2, <1>3, <1>4, <1>7, <1>8, <1>11, SMT DEF SubtractOverflows
<1> QED BY <1>6, <1>10, <1>12, <1>13, SMT DEF DifferenceExact


(* WHAT THE INSTRUCTIONS OF A CHAIN DO *)

LEMMA Carries ==
  /\ Carry \in {0, 1} /\ Carry \in Int
  /\ Carry = 1 <=> "C" \in P
  /\ Carry' \in {0, 1} /\ Carry' \in Int
  /\ Carry' = 1 <=> "C" \in P'
BY DEF Carry

(* The flags that an instruction sets.                                     *)
LEMMA Updated ==
  ASSUME NEW fs, NEW value, NEW v, NEW c,
         update(fs, NZ(value) \union Flag("V", v) \union Flag("C", c)),
         fs = {"N", "V", "Z", "C"}
  PROVE  /\ "C" \in P' <=> c
         /\ "V" \in P' <=> v
         /\ "N" \in P' <=> Sign(value) = 1
BY DEF update, NZ, Flag

LEMMA UpdatedCarry ==
  ASSUME NEW fs, NEW value, NEW c,
         update(fs, NZ(value) \union Flag("C", c)), fs = {"N", "Z", "C"}
  PROVE  "C" \in P' <=> c
BY DEF update, NZ, Flag

LEMMA LDEffect ==
  ASSUME AluTypeOK, NEW m, execute_LD("A", m)
  PROVE  reg'["A"] = m /\ Carry' = Carry /\ written' = None
<1>1. "C" \in P' <=> "C" \in P
  BY DEF execute_LD, update, NZ, Flag
<1> QED BY <1>1, RegisterBytes, Zenon DEF execute_LD, Into, AluTypeOK, Carry

LEMMA STEffect ==
  ASSUME execute_ST("A")
  PROVE  /\ written' = reg["A"] /\ reg'["A"] = reg["A"] /\ Carry' = Carry
         /\ P' = P
BY DEF execute_ST, Carry

LEMMA SetCarryEffect ==
  ASSUME NEW set \in BOOLEAN, SetFlag("C", set)
  PROVE  reg'["A"] = reg["A"] /\ Carry' = (IF set THEN 1 ELSE 0) /\ written' = None
BY DEF SetFlag, update, Flag, Carry

(* Narrowing takes away one carry, or adds one borrow.                     *)
LEMMA NarrowedOnce ==
  ASSUME NEW value \in Int
  PROVE  /\ 0 <= value /\ value <= 255 => Uint8(value) = value
         /\ 256 <= value /\ value <= 511 => Uint8(value) = value - 256
         /\ -256 <= value /\ value < 0 => Uint8(value) = value + 256
BY DEF Uint8

LEMMA ADCEffect ==
  ASSUME AluTypeOK, NEW m \in Byte, execute_ADC(m)
  PROVE  /\ Plus(reg["A"], m, Carry, reg'["A"], Carry')
         /\ "V" \in P' <=> AddOverflows(reg["A"], m, reg'["A"])
         /\ "N" \in P' <=> Sign(reg'["A"]) = 1
         /\ written' = None /\ reg'["A"] \in Byte
<1> DEFINE result == Uint8(Sum(m))
<1>1. PICK a \in Int : a = reg["A"] /\ 0 <= a /\ a <= 255
  BY RegisterBytes, SignOf DEF AluTypeOK
<1>2. PICK c \in Int : c = Carry /\ (c = 0 \/ c = 1)
  BY Carries
<1>3. m \in Int /\ 0 <= m /\ m <= 255
  BY SignOf
<1>4. PICK sum \in Int : sum = Sum(m) /\ sum = a + m + c
  BY <1>1, <1>2, <1>3 DEF Sum
<1>5. reg'["A"] = result /\ written' = None
  BY RegisterBytes DEF execute_ADC, Into, AluTypeOK
<1>6. /\ "C" \in P' <=> Sum(m) > 255
      /\ "V" \in P' <=> AddOverflows(reg["A"], m, result)
      /\ "N" \in P' <=> Sign(result) = 1
  <2>1. update({"N", "V", "Z", "C"},
               NZ(result) \union Flag("V", AddOverflows(reg["A"], m, result))
                 \union Flag("C", Sum(m) > 255))
    BY DEF execute_ADC, AddOverflows
  <2> HIDE DEF result
  <2> QED BY <2>1 DEF update, NZ, Flag
<1>7. result \in Byte
  BY <1>4, Narrowed
<1>8. sum = result + (256 * (IF sum > 255 THEN 1 ELSE 0))
  BY <1>1, <1>2, <1>3, <1>4, NarrowedOnce
<1>9. Carry' = IF sum > 255 THEN 1 ELSE 0
  BY <1>4, <1>6, Carries
<1> HIDE DEF result
<1>10. Plus(a, m, c, result, Carry')
  BY <1>4, <1>8, <1>9 DEF Plus
<1> QED BY <1>1, <1>2, <1>5, <1>6, <1>7, <1>10

LEMMA SBCEffect ==
  ASSUME AluTypeOK, NEW m \in Byte, execute_SBC(m)
  PROVE  /\ Minus(reg["A"], m, Carry, reg'["A"], Carry')
         /\ "V" \in P' <=> SubtractOverflows(reg["A"], m, reg'["A"])
         /\ "N" \in P' <=> Sign(reg'["A"]) = 1
         /\ written' = None /\ reg'["A"] \in Byte
<1> DEFINE difference == reg["A"] - m - (1 - Carry)
           result == Uint8(difference)
<1>1. PICK a \in Int : a = reg["A"] /\ 0 <= a /\ a <= 255
  BY RegisterBytes, SignOf DEF AluTypeOK
<1>2. PICK c \in Int : c = Carry /\ (c = 0 \/ c = 1)
  BY Carries
<1>3. m \in Int /\ 0 <= m /\ m <= 255
  BY SignOf
<1>4. PICK rest \in Int : rest = difference /\ rest = a - m - (1 - c)
  BY <1>1, <1>2, <1>3
<1>5. reg'["A"] = result /\ written' = None
  BY RegisterBytes DEF execute_SBC, Into, AluTypeOK
<1>6. /\ "C" \in P' <=> difference >= 0
      /\ "V" \in P' <=> SubtractOverflows(reg["A"], m, result)
      /\ "N" \in P' <=> Sign(result) = 1
  BY Updated DEF execute_SBC, SubtractOverflows, SbcOverflow
<1> HIDE DEF difference
<1>7. result \in Byte
  BY <1>4, Narrowed
<1>8. rest = result - (256 * (1 - (IF rest >= 0 THEN 1 ELSE 0)))
  BY <1>1, <1>2, <1>3, <1>4, NarrowedOnce
<1>9. Carry' = IF rest >= 0 THEN 1 ELSE 0
  BY <1>4, <1>6, Carries
<1> HIDE DEF result
<1>10. Minus(a, m, c, result, Carry')
  BY <1>4, <1>8, <1>9 DEF Minus
<1> QED BY <1>1, <1>2, <1>5, <1>6, <1>7, <1>10

LEMMA CPEffect ==
  ASSUME AluTypeOK, NEW m \in Byte, execute_CP("A", m)
  PROVE  /\ \E rest \in Byte : Minus(reg["A"], m, 1, rest, Carry')
         /\ written' = None
<1>1. PICK a \in Int : a = reg["A"] /\ 0 <= a /\ a <= 255
  BY RegisterBytes, SignOf DEF AluTypeOK
<1>2. m \in Int /\ 0 <= m /\ m <= 255
  BY SignOf
<1>3. "C" \in P' <=> m <= a
  <2>1. "C" \in P' <=> m <= reg["A"]
    BY DEF execute_CP, update, NZ, Flag
  <2> QED BY <1>1, <2>1
<1>4. Carry' = IF m <= a THEN 1 ELSE 0
  BY <1>3, Carries
<1>5. PICK rest \in Int : rest = IF m <= a THEN a - m ELSE a - m + 256
  BY <1>1, <1>2
<1>6. rest \in Byte
  BY <1>1, <1>2, <1>5, Ranges
<1>7. Minus(a, m, 1, rest, Carry')
  BY <1>1, <1>2, <1>4, <1>5 DEF Minus
<1> QED BY <1>1, <1>6, <1>7 DEF execute_CP

(* A shift moves one bit to or from the carry.                             *)
Leftwards(value, in, result, out) == (2 * value) + in = result + (256 * out)
Rightwards(value, in, result, out) == value + (256 * in) = (2 * result) + out

LEMMA Halved ==
  ASSUME NEW value \in Int, 0 <= value, value <= 255
  PROVE  /\ value \div 2 \in Int /\ value % 2 \in Int
         /\ value % 2 = 0 \/ value % 2 = 1
         /\ value = (2 * (value \div 2)) + (value % 2)
OBVIOUS

LEMMA ShiftEffect ==
  ASSUME AluTypeOK, NEW op \in {"ASL", "LSR", "ROL", "ROR"}, NEW m \in Byte, ShiftMemory(op, m)
  PROVE  /\ written' \in Byte
         /\ op = "ASL" => Leftwards(m, 0, written', Carry')
         /\ op = "ROL" => Leftwards(m, Carry, written', Carry')
         /\ op = "LSR" => Rightwards(m, 0, written', Carry')
         /\ op = "ROR" => Rightwards(m, Carry, written', Carry')
<1>1. m \in Int /\ 0 <= m /\ m <= 255 /\ (m >= 128 => Sign(m) = 1) /\ (~(m >= 128) => Sign(m) = 0)
  BY SignOf
<1>2. PICK c \in Int : c = Carry /\ (c = 0 \/ c = 1)
  BY Carries
<1>3. written' = Shifted(op, m) /\ written' \in Byte
  BY ShiftedTypes DEF ShiftMemory
<1>4. "C" \in P' <=> ShiftedOut(op, m)
  BY UpdatedCarry DEF ShiftMemory, Shift
<1>5. ASSUME op \in {"ASL", "ROL"}
      PROVE  Uint8(2 * m) = (2 * m) - (256 * Carry')
  <2>1. "C" \in P' <=> m >= 128
    BY <1>1, <1>4, <1>5 DEF ShiftedOut
  <2>2. CASE m >= 128
    <3>1. 256 <= 2 * m /\ 2 * m <= 511 /\ 2 * m \in Int
      BY <1>1, <2>2
    <3>2. Carry' = 1
      BY <2>1, <2>2, Carries
    <3> QED BY <3>1, <3>2, NarrowedOnce
  <2>3. CASE ~(m >= 128)
    <3>1. 0 <= 2 * m /\ 2 * m <= 255 /\ 2 * m \in Int
      BY <1>1, <2>3
    <3>2. Carry' = 0
      BY <2>1, <2>3, Carries
    <3> QED BY <3>1, <3>2, NarrowedOnce
  <2> QED BY <2>2, <2>3
<1>6. ASSUME op \in {"LSR", "ROR"}
      PROVE  m = (2 * (m \div 2)) + Carry'
  <2>1. "C" \in P' <=> m % 2 = 1
    BY <1>4, <1>6 DEF ShiftedOut
  <2>2. Carry' = m % 2
    BY <1>1, <2>1, Carries, Halved
  <2> QED BY <1>1, <2>2, Halved
<1>7. PICK out \in Int : out = Carry'
  BY Carries
<1>8. CASE op = "ASL"
  BY <1>1, <1>3, <1>5, <1>7, <1>8 DEF Leftwards, Shifted
<1>9. CASE op = "ROL"
  BY <1>1, <1>2, <1>3, <1>5, <1>7, <1>9 DEF Leftwards, Shifted
<1>10. CASE op = "LSR"
  BY <1>1, <1>3, <1>6, <1>7, <1>10, Halved DEF Rightwards, Shifted
<1>11. CASE op = "ROR"
  <2>1. written' = (m \div 2) + (128 * c)
    BY <1>2, <1>3, <1>11 DEF Shifted
  <2>2. m + (256 * c) = (2 * ((m \div 2) + (128 * c))) + out
    <3>1. PICK half \in Int : half = m \div 2
      BY <1>1, Halved
    <3>2. m = (2 * half) + out
      BY <1>6, <1>7, <1>11, <3>1
    <3>3. m + (256 * c) = (2 * (half + (128 * c))) + out
      BY <1>2, <3>2
    <3> QED BY <3>1, <3>3
  <2> QED BY <1>2, <1>3, <1>7, <1>11, <2>1, <2>2 DEF Rightwards
<1> QED BY <1>3, <1>8, <1>9, <1>10, <1>11


(* HOW FAR A CHAIN HAS COME *)

(* An addition begins without a carry, a subtraction without a borrow; a    *)
(* comparison subtracts.                                                   *)
Given(task) == IF task = "add" THEN 0 ELSE 1

Works(task, a, b, in, result, out) ==
  IF task = "add" THEN Plus(a, b, in, result, out) ELSE Minus(a, b, in, result, out)

Overflows(task, a, b, result) ==
  IF task = "add" THEN AddOverflows(a, b, result) ELSE SubtractOverflows(a, b, result)

(* The lower bytes are done, then the upper ones.                          *)
LowDone(low, carry) == Works(long.task, long.x.lo, long.y.lo, Given(long.task), low, carry)

Done(low, carry, high) ==
  /\ low \in Byte /\ carry \in {0, 1} /\ high \in Byte
  /\ LowDone(low, carry)
  /\ Works(long.task, long.x.hi, long.y.hi, carry, high, Carry)
  /\ "V" \in P <=> Overflows(long.task, long.x.hi, long.y.hi, high)
  /\ "N" \in P <=> Sign(high) = 1

Chained ==
  \/ long.step = 0 /\ long.kept = <<>>
  \/ long.step = 1 /\ long.kept = <<>> /\ reg["A"] = long.x.lo
  \/ long.step = 2 /\ long.kept = <<>> /\ reg["A"] = long.x.lo /\ Carry = Given(long.task)
  \/ long.step = 3 /\ long.kept = <<>> /\ LowDone(reg["A"], Carry)
  \/ long.step = 4 /\ \E low \in Byte : long.kept = <<low>> /\ LowDone(low, Carry)
  \/ /\ long.step = 5 /\ reg["A"] = long.x.hi
     /\ \E low \in Byte : long.kept = <<low>> /\ LowDone(low, Carry)
  \/ /\ long.step = 6
     /\ \E low, carry : long.kept = <<low>> /\ Done(low, carry, reg["A"])
  \/ /\ long.step = 7
     /\ \E low, carry : long.kept = <<low, reg["A"]>> /\ Done(low, carry, reg["A"])

Compared ==
  \/ long.step = 0
  \/ long.step = 1 /\ reg["A"] = long.x.lo
  \/ long.step = 2 /\ \E low \in Byte : LowDone(low, Carry)
  \/ long.step = 3 /\ reg["A"] = long.x.hi /\ \E low \in Byte : LowDone(low, Carry)
  \/ long.step = 4 /\ \E low, carry : Done(low, carry, reg["A"])

(* Doubling begins with the lower byte, halving with the upper one.        *)
Moves(in, out, first, carry, second) ==
  /\ first \in Byte /\ second \in Byte /\ carry \in {0, 1}
  /\ IF long.task = "double"
     THEN Leftwards(long.x.lo, in, first, carry) /\ Leftwards(long.x.hi, carry, second, out)
     ELSE Rightwards(long.x.hi, in, first, carry) /\ Rightwards(long.x.lo, carry, second, out)

Shifting ==
  \/ long.step = 0 /\ long.kept = <<>>
  \/ /\ long.step = 1
     /\ \E first \in Byte :
          /\ long.kept = <<first>>
          /\ IF long.task = "double" THEN Leftwards(long.x.lo, 0, first, Carry)
             ELSE Rightwards(long.x.hi, 0, first, Carry)
  \/ /\ long.step = 2
     /\ \E first, carry, second :
          long.kept = <<first, second>> /\ Moves(0, Carry, first, carry, second)

Progress ==
  /\ long.task \in {"add", "subtract"} => Chained
  /\ long.task = "compare" => Compared
  /\ long.task \in {"double", "halve"} => Shifting

LongInv == TypeInv /\ (uses[2] = "long" => Progress)

LEMMA LongStep ==
  ASSUME long \in LongTasks, ComputesLong
  PROVE  /\ long'.task = long.task /\ long'.x = long.x /\ long'.y = long.y
         /\ long'.step = long.step + 1 /\ long.step \in Int
         /\ written' = None => long'.kept = long.kept
         /\ written' \in Byte => long'.kept = Append(long.kept, written')
         /\ long.step < Len(Script(long.task))
         /\ Instructed(Script(long.task)[long.step + 1])
<1> DEFINE kept == IF written' = None THEN long.kept ELSE Append(long.kept, written')
<1>1. long' = [long EXCEPT !.step = long.step + 1, !.kept = kept]
  BY DEF ComputesLong
<1>2. written' \in Byte => written' # None
  <2>1. None \in Int /\ None > 255
    BY DEF None
  <2> QED BY <2>1, Ranges
<1>3. written' \in Byte => kept = Append(long.kept, written')
  BY <1>2
<1>4. written' = None => kept = long.kept
  OBVIOUS
<1> HIDE DEF kept
<1>5. /\ long'.task = long.task /\ long'.x = long.x /\ long'.y = long.y
      /\ long'.step = long.step + 1 /\ long.step \in Int /\ long'.kept = kept
  BY <1>1 DEF LongTasks
<1> QED BY <1>3, <1>4, <1>5 DEF ComputesLong

LEMMA LongOperands ==
  ASSUME long \in LongTasks
  PROVE  /\ long.x.lo \in Byte /\ long.x.hi \in Byte /\ long.y.lo \in Byte /\ long.y.hi \in Byte
         /\ long.task \in {"add", "subtract", "compare", "double", "halve"}
BY OperandsAreBytes DEF LongTasks, Operand

(* ADC or SBC, whichever the chain is made of.                             *)
Work(m) == IF long.task = "add" THEN execute_ADC(m) ELSE execute_SBC(m)

LEMMA WorkEffect ==
  ASSUME AluTypeOK, NEW m \in Byte, Work(m)
  PROVE  /\ Works(long.task, reg["A"], m, Carry, reg'["A"], Carry')
         /\ "V" \in P' <=> Overflows(long.task, reg["A"], m, reg'["A"])
         /\ "N" \in P' <=> Sign(reg'["A"]) = 1
         /\ written' = None /\ reg'["A"] \in Byte
<1>1. CASE long.task = "add"
  BY <1>1, ADCEffect DEF Work, Works, Overflows
<1>2. CASE long.task # "add"
  BY <1>2, SBCEffect DEF Work, Works, Overflows
<1> QED BY <1>1, <1>2

LEMMA ChainInstructions ==
  ASSUME long.task \in {"add", "subtract"}
  PROVE  /\ Len(Script(long.task)) = 7
         /\ Instructed(Script(long.task)[1]) => execute_LD("A", long.x.lo)
         /\ Instructed(Script(long.task)[2]) => SetFlag("C", Given(long.task) = 1)
         /\ Instructed(Script(long.task)[3]) => Work(long.y.lo)
         /\ Instructed(Script(long.task)[4]) => execute_ST("A")
         /\ Instructed(Script(long.task)[5]) => execute_LD("A", long.x.hi)
         /\ Instructed(Script(long.task)[6]) => Work(long.y.hi)
         /\ Instructed(Script(long.task)[7]) => execute_ST("A")
<1> DEFINE begins == SetFlag("C", Given(long.task) = 1)
<1>1. /\ Instructed("LD lo") => execute_LD("A", long.x.lo)
      /\ Instructed("LD hi") => execute_LD("A", long.x.hi)
      /\ Instructed("ST") => execute_ST("A")
  BY DEF Instructed
<1>2. CASE long.task = "add"
  <2>1. Instructed("CLC") => begins
    <3>1. Instructed("CLC") => SetFlag("C", FALSE)
      BY DEF Instructed
    <3>2. (Given(long.task) = 1) = FALSE
      BY <1>2 DEF Given
    <3> QED BY <3>1, <3>2, Zenon
  <2>2. /\ Instructed("ADC lo") => Work(long.y.lo)
        /\ Instructed("ADC hi") => Work(long.y.hi)
    <3>1. Instructed("ADC lo") => execute_ADC(long.y.lo)
      BY DEF Instructed
    <3>2. Instructed("ADC hi") => execute_ADC(long.y.hi)
      BY DEF Instructed
    <3> QED BY <1>2, <3>1, <3>2 DEF Work
  <2> HIDE DEF begins
  <2>3. /\ Len(Script(long.task)) = 7
        /\ Script(long.task)[1] = "LD lo" /\ Script(long.task)[2] = "CLC"
        /\ Script(long.task)[3] = "ADC lo" /\ Script(long.task)[4] = "ST"
        /\ Script(long.task)[5] = "LD hi" /\ Script(long.task)[6] = "ADC hi"
        /\ Script(long.task)[7] = "ST"
    BY <1>2, Scripts
  <2>4. Instructed(Script(long.task)[2]) => begins
    BY <2>1, <2>3
  <2> QED BY <1>1, <2>2, <2>3, <2>4 DEF begins
<1>3. CASE long.task = "subtract"
  <2>1. Instructed("SEC") => begins
    <3>1. Instructed("SEC") => SetFlag("C", TRUE)
      BY DEF Instructed
    <3>2. (Given(long.task) = 1) = TRUE
      BY <1>3 DEF Given
    <3> QED BY <3>1, <3>2, Zenon
  <2>2. /\ Instructed("SBC lo") => Work(long.y.lo)
        /\ Instructed("SBC hi") => Work(long.y.hi)
    <3>1. Instructed("SBC lo") => execute_SBC(long.y.lo)
      BY DEF Instructed
    <3>2. Instructed("SBC hi") => execute_SBC(long.y.hi)
      BY DEF Instructed
    <3> QED BY <1>3, <3>1, <3>2 DEF Work
  <2> HIDE DEF begins
  <2>3. /\ Len(Script(long.task)) = 7
        /\ Script(long.task)[1] = "LD lo" /\ Script(long.task)[2] = "SEC"
        /\ Script(long.task)[3] = "SBC lo" /\ Script(long.task)[4] = "ST"
        /\ Script(long.task)[5] = "LD hi" /\ Script(long.task)[6] = "SBC hi"
        /\ Script(long.task)[7] = "ST"
    BY <1>3, Scripts
  <2>4. Instructed(Script(long.task)[2]) => begins
    BY <2>1, <2>3
  <2> QED BY <1>1, <2>2, <2>3, <2>4 DEF begins
<1> QED BY <1>2, <1>3

LEMMA ChainedStep ==
  ASSUME AluTypeOK, long \in LongTasks, long.task \in {"add", "subtract"}, Chained, ComputesLong
  PROVE  Chained'
<1>1. PICK task, x, y, step :
        /\ task = long.task /\ x = long.x /\ y = long.y /\ step = long.step /\ step \in Int
        /\ long'.task = task /\ long'.x = x /\ long'.y = y /\ long'.step = step + 1
  BY LongStep
<1>2. /\ written' = None => long'.kept = long.kept
      /\ written' \in Byte => long'.kept = Append(long.kept, written')
      /\ step < Len(Script(long.task))
      /\ Instructed(Script(long.task)[step + 1])
  BY <1>1, LongStep
<1>3. /\ x.lo \in Byte /\ x.hi \in Byte /\ y.lo \in Byte /\ y.hi \in Byte
      /\ reg["A"] \in Byte
  BY <1>1, LongOperands, RegisterBytes
<1>5. CASE step = 0
  <2>1. execute_LD("A", x.lo)
    BY <1>1, <1>2, <1>5, ChainInstructions
  <2>2. reg'["A"] = x.lo /\ written' = None
    BY <2>1, LDEffect
  <2> QED BY <1>1, <1>2, <1>5, <2>2 DEF Chained
<1>6. CASE step = 1
  <2>1. SetFlag("C", Given(task) = 1)
    BY <1>1, <1>2, <1>6, ChainInstructions
  <2>2. reg'["A"] = reg["A"] /\ Carry' = Given(task) /\ written' = None
    BY <2>1, SetCarryEffect DEF Given
  <2> QED BY <1>1, <1>2, <1>6, <2>2 DEF Chained
<1>7. CASE step = 2
  <2>1. Work(y.lo)
    BY <1>1, <1>2, <1>7, ChainInstructions
  <2>2. /\ Works(task, reg["A"], y.lo, Carry, reg'["A"], Carry') /\ written' = None
    BY <1>1, <1>3, <2>1, WorkEffect
  <2>3. long.kept = <<>> /\ reg["A"] = x.lo /\ Carry = Given(task)
    BY <1>1, <1>7 DEF Chained
  <2>4. LowDone(reg["A"], Carry)'
    BY <1>1, <2>2, <2>3 DEF LowDone
  <2> QED BY <1>1, <1>2, <1>7, <2>2, <2>3, <2>4 DEF Chained
<1>8. CASE step = 3
  <2>1. execute_ST("A")
    BY <1>1, <1>2, <1>8, ChainInstructions
  <2>2. PICK low \in Byte : low = reg["A"] /\ written' = low /\ Carry' = Carry
    BY <1>3, <2>1, STEffect
  <2>3. long.kept = <<>> /\ LowDone(low, Carry)
    BY <1>1, <1>8, <2>2 DEF Chained
  <2>4. long'.kept = <<low>>
    BY <1>2, <2>2, <2>3
  <2>5. LowDone(low, Carry)'
    BY <1>1, <2>2, <2>3 DEF LowDone
  <2> QED BY <1>1, <1>8, <2>4, <2>5 DEF Chained
<1>9. CASE step = 4
  <2>1. execute_LD("A", x.hi)
    BY <1>1, <1>2, <1>9, ChainInstructions
  <2>2. reg'["A"] = x.hi /\ Carry' = Carry /\ written' = None
    BY <2>1, LDEffect
  <2>3. PICK low \in Byte : long.kept = <<low>> /\ LowDone(low, Carry)
    BY <1>1, <1>9 DEF Chained
  <2>4. LowDone(low, Carry)'
    BY <1>1, <2>2, <2>3 DEF LowDone
  <2> QED BY <1>1, <1>2, <1>9, <2>2, <2>3, <2>4 DEF Chained
<1>10. CASE step = 5
  <2>1. Work(y.hi)
    BY <1>1, <1>2, <1>10, ChainInstructions
  <2>2. /\ Works(task, reg["A"], y.hi, Carry, reg'["A"], Carry') /\ written' = None
        /\ "V" \in P' <=> Overflows(task, reg["A"], y.hi, reg'["A"])
        /\ "N" \in P' <=> Sign(reg'["A"]) = 1
        /\ reg'["A"] \in Byte
    BY <1>1, <1>3, <2>1, WorkEffect
  <2>3. PICK low \in Byte : reg["A"] = x.hi /\ long.kept = <<low>> /\ LowDone(low, Carry)
    BY <1>1, <1>10 DEF Chained
  <2>4. PICK carry \in {0, 1} : carry = Carry
    BY Carries
  <2>5. LowDone(low, carry)'
    BY <1>1, <2>3, <2>4 DEF LowDone
  <2>6. Done(low, carry, reg["A"])'
    BY <1>1, <2>2, <2>3, <2>4, <2>5 DEF Done
  <2> QED BY <1>1, <1>2, <1>10, <2>2, <2>3, <2>6 DEF Chained
<1>11. CASE step = 6
  <2>1. execute_ST("A")
    BY <1>1, <1>2, <1>11, ChainInstructions
  <2>2. PICK high \in Byte :
          /\ high = reg["A"] /\ written' = high /\ reg'["A"] = high
          /\ Carry' = Carry /\ P' = P
    BY <1>3, <2>1, STEffect
  <2>3. PICK low, carry : long.kept = <<low>> /\ Done(low, carry, high)
    BY <1>1, <1>11, <2>2 DEF Chained
  <2>4. long'.kept = <<low, high>>
    BY <1>2, <2>2, <2>3
  <2>5. Done(low, carry, high)'
    BY <1>1, <2>2, <2>3 DEF Done, LowDone
  <2> QED BY <1>1, <1>11, <2>2, <2>4, <2>5 DEF Chained
<1> QED
  <2>1. step < 7
    BY <1>1, <1>2, ChainInstructions
  <2>2. \/ step = 0 \/ step = 1 \/ step = 2 \/ step = 3 \/ step = 4
        \/ step = 5 \/ step = 6 \/ step = 7
    BY <1>1 DEF Chained
  <2> QED BY <2>1, <2>2, <1>5, <1>6, <1>7, <1>8, <1>9, <1>10, <1>11


LEMMA OtherInstructions ==
  /\ long.task = "compare" =>
       /\ Len(Script(long.task)) = 4
       /\ Instructed(Script(long.task)[1]) => execute_LD("A", long.x.lo)
       /\ Instructed(Script(long.task)[2]) => execute_CP("A", long.y.lo)
       /\ Instructed(Script(long.task)[3]) => execute_LD("A", long.x.hi)
       /\ Instructed(Script(long.task)[4]) => Work(long.y.hi)
  /\ long.task = "double" =>
       /\ Len(Script(long.task)) = 2
       /\ Instructed(Script(long.task)[1]) => ShiftMemory("ASL", long.x.lo)
       /\ Instructed(Script(long.task)[2]) => ShiftMemory("ROL", long.x.hi)
  /\ long.task = "halve" =>
       /\ Len(Script(long.task)) = 2
       /\ Instructed(Script(long.task)[1]) => ShiftMemory("LSR", long.x.hi)
       /\ Instructed(Script(long.task)[2]) => ShiftMemory("ROR", long.x.lo)
<1>1. CASE long.task = "compare"
  <2>1. /\ Instructed("LD lo") => execute_LD("A", long.x.lo)
        /\ Instructed("CMP lo") => execute_CP("A", long.y.lo)
        /\ Instructed("LD hi") => execute_LD("A", long.x.hi)
        /\ Instructed("SBC hi") => execute_SBC(long.y.hi)
    BY DEF Instructed
  <2>2. Instructed("SBC hi") => Work(long.y.hi)
    BY <1>1, <2>1 DEF Work
  <2>3. /\ Len(Script(long.task)) = 4
        /\ Script(long.task)[1] = "LD lo" /\ Script(long.task)[2] = "CMP lo"
        /\ Script(long.task)[3] = "LD hi" /\ Script(long.task)[4] = "SBC hi"
    BY <1>1, Scripts
  <2> QED BY <1>1, <2>1, <2>2, <2>3
<1>2. CASE long.task = "double"
  <2>1. /\ Instructed("ASL") => ShiftMemory("ASL", long.x.lo)
        /\ Instructed("ROL") => ShiftMemory("ROL", long.x.hi)
    BY DEF Instructed
  <2> QED BY <1>2, <2>1, Scripts
<1>3. CASE long.task = "halve"
  <2>1. /\ Instructed("LSR") => ShiftMemory("LSR", long.x.hi)
        /\ Instructed("ROR") => ShiftMemory("ROR", long.x.lo)
    BY DEF Instructed
  <2> QED BY <1>3, <2>1, Scripts
<1> QED BY <1>1, <1>2, <1>3

LEMMA ComparedStep ==
  ASSUME AluTypeOK, long \in LongTasks, long.task = "compare", Compared, ComputesLong
  PROVE  Compared'
<1>1. PICK task, x, y, step :
        /\ task = long.task /\ x = long.x /\ y = long.y /\ step = long.step /\ step \in Int
        /\ long'.task = task /\ long'.x = x /\ long'.y = y /\ long'.step = step + 1
  BY LongStep
<1>2. step < Len(Script(task)) /\ Instructed(Script(task)[step + 1])
  BY <1>1, LongStep
<1>3. /\ x.lo \in Byte /\ x.hi \in Byte /\ y.lo \in Byte /\ y.hi \in Byte
  BY <1>1, LongOperands
<1>4. CASE step = 0
  <2>1. execute_LD("A", x.lo)
    BY <1>1, <1>2, <1>4, OtherInstructions
  <2>2. reg'["A"] = x.lo
    BY <2>1, LDEffect
  <2> QED BY <1>1, <1>4, <2>2 DEF Compared
<1>5. CASE step = 1
  <2>1. execute_CP("A", y.lo)
    BY <1>1, <1>2, <1>5, OtherInstructions
  <2>2. reg["A"] = x.lo
    BY <1>1, <1>5 DEF Compared
  <2>3. PICK low \in Byte : Minus(reg["A"], y.lo, 1, low, Carry')
    BY <1>3, <2>1, CPEffect
  <2>4. LowDone(low, Carry)'
    BY <1>1, <2>2, <2>3 DEF LowDone, Works, Given
  <2> QED BY <1>1, <1>5, <2>4 DEF Compared
<1>6. CASE step = 2
  <2>1. execute_LD("A", x.hi)
    BY <1>1, <1>2, <1>6, OtherInstructions
  <2>2. reg'["A"] = x.hi /\ Carry' = Carry
    BY <2>1, LDEffect
  <2>3. PICK low \in Byte : LowDone(low, Carry)
    BY <1>1, <1>6 DEF Compared
  <2>4. LowDone(low, Carry)'
    BY <1>1, <2>2, <2>3 DEF LowDone
  <2> QED BY <1>1, <1>6, <2>2, <2>4 DEF Compared
<1>7. CASE step = 3
  <2>1. Work(y.hi)
    BY <1>1, <1>2, <1>7, OtherInstructions
  <2>2. /\ Works(task, reg["A"], y.hi, Carry, reg'["A"], Carry')
        /\ "V" \in P' <=> Overflows(task, reg["A"], y.hi, reg'["A"])
        /\ "N" \in P' <=> Sign(reg'["A"]) = 1
        /\ reg'["A"] \in Byte
    BY <1>1, <1>3, <2>1, WorkEffect
  <2>3. PICK low \in Byte : reg["A"] = x.hi /\ LowDone(low, Carry)
    BY <1>1, <1>7 DEF Compared
  <2>4. PICK carry \in {0, 1} : carry = Carry
    BY Carries
  <2>5. LowDone(low, carry)'
    BY <1>1, <2>3, <2>4 DEF LowDone
  <2>6. Done(low, carry, reg["A"])'
    BY <1>1, <2>2, <2>3, <2>4, <2>5 DEF Done
  <2> QED BY <1>1, <1>7, <2>6 DEF Compared
<1> QED
  <2>1. step < 4
    BY <1>1, <1>2, OtherInstructions
  <2>2. step = 0 \/ step = 1 \/ step = 2 \/ step = 3 \/ step = 4
    BY <1>1 DEF Compared
  <2> QED BY <2>1, <2>2, <1>4, <1>5, <1>6, <1>7

LEMMA ShiftingStep ==
  ASSUME AluTypeOK, long \in LongTasks, long.task \in {"double", "halve"}, Shifting, ComputesLong
  PROVE  Shifting'
<1>1. PICK task, x, step :
        /\ task = long.task /\ x = long.x /\ step = long.step /\ step \in Int
        /\ long'.task = task /\ long'.x = x /\ long'.step = step + 1
  BY LongStep
<1>2. /\ written' \in Byte => long'.kept = Append(long.kept, written')
      /\ step < Len(Script(task)) /\ Instructed(Script(task)[step + 1])
  BY <1>1, LongStep
<1>3. x.lo \in Byte /\ x.hi \in Byte
  BY <1>1, LongOperands
<1>4. CASE step = 0
  <2>1. /\ task = "double" => ShiftMemory("ASL", x.lo)
        /\ task = "halve" => ShiftMemory("LSR", x.hi)
    BY <1>1, <1>2, <1>4, OtherInstructions
  <2>2. /\ written' \in Byte
        /\ task = "double" => Leftwards(x.lo, 0, written', Carry')
        /\ task = "halve" => Rightwards(x.hi, 0, written', Carry')
    BY <1>1, <1>3, <2>1, ShiftEffect
  <2>3. PICK first \in Byte : first = written'
    BY <2>2
  <2>4. long.kept = <<>>
    BY <1>1, <1>4 DEF Shifting
  <2>5. long'.kept = <<first>>
    BY <1>2, <2>3, <2>4
  <2> QED BY <1>1, <1>4, <2>2, <2>3, <2>5 DEF Shifting
<1>5. CASE step = 1
  <2>1. /\ task = "double" => ShiftMemory("ROL", x.hi)
        /\ task = "halve" => ShiftMemory("ROR", x.lo)
    BY <1>1, <1>2, <1>5, OtherInstructions
  <2>2. /\ written' \in Byte
        /\ task = "double" => Leftwards(x.hi, Carry, written', Carry')
        /\ task = "halve" => Rightwards(x.lo, Carry, written', Carry')
    BY <1>1, <1>3, <2>1, ShiftEffect
  <2>3. PICK second \in Byte : second = written'
    BY <2>2
  <2>4. PICK first \in Byte :
          /\ long.kept = <<first>>
          /\ IF task = "double" THEN Leftwards(x.lo, 0, first, Carry)
             ELSE Rightwards(x.hi, 0, first, Carry)
    BY <1>1, <1>5 DEF Shifting
  <2>5. PICK carry \in {0, 1} : carry = Carry
    BY Carries
  <2>6. long'.kept = <<first, second>>
    BY <1>2, <2>3, <2>4
  <2>7. Moves(0, Carry, first, carry, second)'
    BY <1>1, <2>2, <2>3, <2>4, <2>5 DEF Moves
  <2> QED BY <1>1, <1>5, <2>6, <2>7 DEF Shifting
<1> QED
  <2>1. step < 2
    BY <1>1, <1>2, OtherInstructions
  <2>2. step = 0 \/ step = 1 \/ step = 2
    BY <1>1 DEF Shifting
  <2> QED BY <2>1, <2>2, <1>4, <1>5

LEMMA LongInit == ProgramInit => LongInv
<1> SUFFICES ASSUME ProgramInit PROVE LongInv
  OBVIOUS
<1>1. \A task \in Tasks : task.step = 0 /\ task.kept = <<>>
  BY DEF Tasks, Task
<1>2. uses[2] = "long" => long.step = 0 /\ long.kept = <<>>
  BY <1>1 DEF ProgramInit
<1> QED BY <1>2, TypesInit DEF LongInv, Progress, Chained, Compared, Shifting

LEMMA LongKept == LongInv /\ [ProgramNext]_program_vars => LongInv'
<1> SUFFICES ASSUME LongInv, [ProgramNext]_program_vars, uses'[2] = "long"
             PROVE  Progress'
  BY TypesStep DEF LongInv
<1>1. /\ AluTypeOK /\ uses' = uses /\ uses[2] = "long" /\ Progress /\ long \in LongTasks
  BY DEF LongInv, TypeInv, ProgramTypeOK, ProgramNext, program_vars
<1>2. CASE ComputesLong
  <2>1. long'.task = long.task
    BY <1>1, <1>2, LongStep
  <2> QED BY <1>1, <1>2, <2>1, ChainedStep, ComparedStep, ShiftingStep, LongOperands DEF Progress
<1>3. CASE UNCHANGED program_vars
  <2>1. reg' = reg /\ P' = P /\ long' = long
    BY <1>3 DEF program_vars, cpu_vars, alu_vars
  <2>2. Carry' = Carry
    BY <2>1 DEF Carry
  <2>3. /\ \A low, carry : LowDone(low, carry) => LowDone(low, carry)'
        /\ \A low, carry, high : Done(low, carry, high) => Done(low, carry, high)'
        /\ \A in, out, first, carry, second :
             Moves(in, out, first, carry, second) => Moves(in, out, first, carry, second)'
    BY <2>1, <2>2 DEF LowDone, Done, Moves
  <2> QED BY <1>1, <2>1, <2>2, <2>3 DEF Progress, Chained, Compared, Shifting
<1> QED BY <1>1, <1>2, <1>3 DEF ProgramNext, Computes, Indexes, SetsUp, Jumps, Calls, Between


(* WHAT A CHAIN HAS COMPUTED *)

Whole(n) == (256 * n.hi) + n.lo

LEMMA Numbers ==
  /\ \A n : Number(n) = Whole(n)
  /\ \A n : Signed16(n) = SignedOf(n.hi, n.lo)
BY DEF Number, Whole, Signed16, SignedOf, append_hi_byte_to_lo_byte

LEMMA LowNumber ==
  ASSUME NEW low \in Byte, NEW high \in Byte
  PROVE  Signed(low + (256 * high), 65536) = SignedOf(high, low)
<1>1. low \in Int /\ high \in Int
  BY SignOf
<1>2. low + (256 * high) = (256 * high) + low
  BY <1>1
<1> QED BY <1>2, SMT DEF SignedOf

LEMMA Added ==
  ASSUME long \in LongTasks, long.task = "add", NEW low, NEW carry, NEW high, Done(low, carry, high)
  PROVE  /\ Whole(long.x) + Whole(long.y) = low + (256 * high) + (65536 * Carry)
         /\ "V" \in P <=> SignedOf(high, low) # Signed16(long.x) + Signed16(long.y)
<1>1. PICK xh \in Byte, xl \in Byte, yh \in Byte, yl \in Byte :
        xh = long.x.hi /\ xl = long.x.lo /\ yh = long.y.hi /\ yl = long.y.lo
  BY LongOperands
<1>2. PICK out \in {0, 1} : out = Carry
  BY Carries
<1>3. /\ low \in Byte /\ high \in Byte /\ carry \in {0, 1}
      /\ Plus(xl, yl, 0, low, carry) /\ Plus(xh, yh, carry, high, out)
      /\ "V" \in P <=> AddOverflows(xh, yh, high)
  BY <1>1, <1>2 DEF Done, LowDone, Works, Overflows, Given
<1>4. /\ ((256 * xh) + xl) + ((256 * yh) + yl) = low + (256 * high) + (65536 * out)
      /\ AddOverflows(xh, yh, high) <=>
           SignedOf(high, low) # SignedOf(xh, xl) + SignedOf(yh, yl)
  <2>1. SumExact(xh, xl, yh, yl, low, high, out)
    BY <1>3, LongSum, SMTT(30)
  <2> QED BY <2>1, SMT DEF SumExact
<1> QED BY <1>1, <1>2, <1>3, <1>4, Numbers, SMT DEF Whole

LEMMA Subtracted ==
  ASSUME long \in LongTasks, long.task \in {"subtract", "compare"},
         NEW low, NEW carry, NEW high, Done(low, carry, high)
  PROVE  /\ Whole(long.x) - Whole(long.y) = low + (256 * high) - (65536 * (1 - Carry))
         /\ Carry = 1 <=> Whole(long.x) >= Whole(long.y)
         /\ "V" \in P <=> SignedOf(high, low) # Signed16(long.x) - Signed16(long.y)
         /\ ("N" \in P <=> ~("V" \in P)) <=> Signed16(long.x) < Signed16(long.y)
<1>1. PICK xh \in Byte, xl \in Byte, yh \in Byte, yl \in Byte :
        xh = long.x.hi /\ xl = long.x.lo /\ yh = long.y.hi /\ yl = long.y.lo
  BY LongOperands
<1>2. PICK out \in {0, 1} : out = Carry
  BY Carries
<1>3. /\ low \in Byte /\ high \in Byte /\ carry \in {0, 1}
      /\ Minus(xl, yl, 1, low, carry) /\ Minus(xh, yh, carry, high, out)
      /\ "V" \in P <=> SubtractOverflows(xh, yh, high)
      /\ "N" \in P <=> Sign(high) = 1
  BY <1>1, <1>2 DEF Done, LowDone, Works, Overflows, Given
<1>4. /\ ((256 * xh) + xl) - ((256 * yh) + yl) = low + (256 * high) - (65536 * (1 - out))
      /\ out = 1 <=> (256 * xh) + xl >= (256 * yh) + yl
      /\ SubtractOverflows(xh, yh, high) <=>
           SignedOf(high, low) # SignedOf(xh, xl) - SignedOf(yh, yl)
      /\ (Sign(high) = 1 <=> ~SubtractOverflows(xh, yh, high)) <=>
           SignedOf(xh, xl) < SignedOf(yh, yl)
  <2>1. DifferenceExact(xh, xl, yh, yl, low, high, out)
    BY <1>3, LongDifference, SMTT(30)
  <2> QED BY <2>1, SMT DEF DifferenceExact
<1>5. SignedOf(xh, xl) = Signed16(long.x) /\ SignedOf(yh, yl) = Signed16(long.y)
  BY <1>1, Numbers, SMT
<1>6. Whole(long.x) = (256 * xh) + xl /\ Whole(long.y) = (256 * yh) + yl
  BY <1>1, SMT DEF Whole
<1>7. /\ Whole(long.x) - Whole(long.y) = low + (256 * high) - (65536 * (1 - Carry))
      /\ Carry = 1 <=> Whole(long.x) >= Whole(long.y)
  BY <1>2, <1>4, <1>6, SMT
<1>8. "V" \in P <=> SignedOf(high, low) # Signed16(long.x) - Signed16(long.y)
  BY <1>3, <1>4, <1>5, SMT
<1>9. ("N" \in P <=> ~("V" \in P)) <=> Signed16(long.x) < Signed16(long.y)
  BY <1>3, <1>4, <1>5, SMT
<1> QED BY <1>7, <1>8, <1>9

LEMMA ShiftedLong ==
  ASSUME long \in LongTasks, long.task \in {"double", "halve"},
         NEW first, NEW carry, NEW second, Moves(0, Carry, first, carry, second)
  PROVE  /\ long.task = "double" =>
              2 * Whole(long.x) = first + (256 * second) + (65536 * Carry)
         /\ long.task = "halve" =>
              Whole(long.x) = (2 * ((256 * first) + second)) + Carry
<1>1. PICK xh \in Int, xl \in Int : xh = long.x.hi /\ xl = long.x.lo
  BY LongOperands, SignOf
<1>2. PICK out \in Int : out = Carry
  BY Carries
<1>3. /\ first \in Int /\ second \in Int /\ carry \in Int
      /\ long.task = "double" =>
           (2 * xl) + 0 = first + (256 * carry) /\ (2 * xh) + carry = second + (256 * out)
      /\ long.task = "halve" =>
           xh + (256 * 0) = (2 * first) + carry /\ xl + (256 * carry) = (2 * second) + out
  BY <1>1, <1>2, SignOf DEF Moves, Leftwards, Rightwards
<1>4. CASE long.task = "double"
  <2>1. 2 * ((256 * xh) + xl) = first + (256 * second) + (65536 * out)
    BY <1>3, <1>4, SMT
  <2> QED BY <1>1, <1>2, <1>4, <2>1, SMT DEF Whole
<1>5. CASE long.task = "halve"
  <2>1. (256 * xh) + xl = (2 * ((256 * first) + second)) + out
    BY <1>3, <1>5, SMT
  <2> QED BY <1>1, <1>2, <1>5, <2>1, SMT DEF Whole
<1> QED BY <1>4, <1>5

LEMMA LongExact == LongInv => LongArithmeticIsExact
<1> SUFFICES ASSUME LongInv PROVE LongArithmeticIsExact
  OBVIOUS
<1> DEFINE finished == long # Nothing /\ long.step = Len(Script(long.task))
<1>0. CASE ~finished
  BY <1>0, SMT DEF LongArithmeticIsExact
<1> SUFFICES ASSUME finished PROVE LongArithmeticIsExact
  BY <1>0
<1>1. long \in LongTasks /\ Progress
  BY DEF LongInv, TypeInv, ProgramTypeOK
<1>2. PICK c \in Int : c = Carry /\ (c = 0 \/ c = 1) /\ (c = 1 <=> "C" \in P)
  BY Carries
<1>3. CASE long.task = "add"
  <2>1. long.step = 7
    BY <1>3, Scripts
  <2>2. PICK low, carry, high : long.kept = <<low, high>> /\ Done(low, carry, high)
    <3>1. Chained
      BY <1>1, <1>3 DEF Progress
    <3>2. \E low, carry : long.kept = <<low, reg["A"]>> /\ Done(low, carry, reg["A"])
      BY <2>1, <3>1, SMT DEF Chained
    <3> QED BY <3>2
  <2>3. /\ low \in Byte /\ low \in Int /\ high \in Byte /\ high \in Int
        /\ long.kept[1] = low /\ long.kept[2] = high
    BY <2>2, SignOf DEF Done
  <2>4. /\ Number(long.x) + Number(long.y) = low + (256 * high) + (65536 * c)
        /\ "V" \in P <=> Signed(low + (256 * high), 65536) # Signed16(long.x) + Signed16(long.y)
    BY <1>1, <1>2, <1>3, <2>2, <2>3, Added, LowNumber, Numbers, SMT
  <2>5. low + (256 * high) + (65536 * c)
          = (low + (256 * high)) + (IF "C" \in P THEN 65536 ELSE 0)
    BY <1>2, <2>3, SMT
  <2> QED BY <1>3, <2>3, <2>4, <2>5, SMT DEF LongArithmeticIsExact
<1>4. CASE long.task = "subtract"
  <2>1. long.step = 7
    BY <1>4, Scripts
  <2>2. PICK low, carry, high : long.kept = <<low, high>> /\ Done(low, carry, high)
    <3>1. Chained
      BY <1>1, <1>4 DEF Progress
    <3>2. \E low, carry : long.kept = <<low, reg["A"]>> /\ Done(low, carry, reg["A"])
      BY <2>1, <3>1, SMT DEF Chained
    <3> QED BY <3>2
  <2>3. /\ low \in Byte /\ low \in Int /\ high \in Byte /\ high \in Int
        /\ long.kept[1] = low /\ long.kept[2] = high
    BY <2>2, SignOf DEF Done
  <2>4. /\ Number(long.x) - Number(long.y) = low + (256 * high) - (65536 * (1 - c))
        /\ "V" \in P <=> Signed(low + (256 * high), 65536) # Signed16(long.x) - Signed16(long.y)
    BY <1>1, <1>2, <1>4, <2>2, <2>3, Subtracted, LowNumber, Numbers, SMT
  <2>5. low + (256 * high) - (65536 * (1 - c))
          = (low + (256 * high)) - (IF "C" \in P THEN 0 ELSE 65536)
    BY <1>2, <2>3, SMT
  <2> QED BY <1>4, <2>3, <2>4, <2>5, SMT DEF LongArithmeticIsExact
<1>5. CASE long.task = "compare"
  <2>1. long.step = 4
    BY <1>5, Scripts
  <2>2. PICK low, carry, high : Done(low, carry, high)
    <3>1. Compared
      BY <1>1, <1>5 DEF Progress
    <3>2. \E low, carry : Done(low, carry, reg["A"])
      BY <2>1, <3>1, SMT DEF Compared
    <3> QED BY <3>2
  <2>3. /\ "C" \in P <=> Number(long.x) >= Number(long.y)
        /\ ("N" \in P <=> ~("V" \in P)) <=> Signed16(long.x) < Signed16(long.y)
    BY <1>1, <1>2, <1>5, <2>2, Subtracted, Numbers, SMT
  <2> QED BY <1>5, <2>3, SMT DEF LongArithmeticIsExact
<1>6. CASE long.task = "double" \/ long.task = "halve"
  <2>1. long.step = 2
    BY <1>6, Scripts
  <2>2. PICK first, carry, second :
          long.kept = <<first, second>> /\ Moves(0, Carry, first, carry, second)
    BY <1>1, <1>6, <2>1 DEF Progress, Shifting
  <2>3. /\ first \in Int /\ second \in Int
        /\ long.kept[1] = first /\ long.kept[2] = second
    BY <2>2, SignOf DEF Moves
  <2>4. /\ long.task = "double" =>
             2 * Number(long.x) = first + (256 * second) + (65536 * c)
        /\ long.task = "halve" =>
             Number(long.x) = (2 * ((256 * first) + second)) + c
    BY <1>1, <1>2, <1>6, <2>2, ShiftedLong, Numbers, SMT
  <2>5. CASE long.task = "double"
    <3>1. first + (256 * second) + (65536 * c)
            = (first + (256 * second)) + (IF "C" \in P THEN 65536 ELSE 0)
      BY <1>2, <2>3, SMT
    <3> QED BY <2>3, <2>4, <2>5, <3>1, SMT DEF LongArithmeticIsExact
  <2>6. CASE long.task = "halve"
    <3>1. c = IF "C" \in P THEN 1 ELSE 0
      BY <1>2
    <3> QED BY <2>3, <2>4, <2>6, <3>1, SMT DEF LongArithmeticIsExact
  <2> QED BY <1>6, <2>5, <2>6
<1> QED BY <1>1, <1>3, <1>4, <1>5, <1>6, LongOperands

(* The usual chains of ADC, SBC, CMP and of shifts compute with numbers of  *)
(* two bytes exactly, with every pair of numbers: the C that one leaves is  *)
(* what the next one needs, LD and ST in between do not touch it, and the   *)
(* last C, V and N are those of the whole number.                          *)
THEOREM LongNumbersExact == ProgramSpec => []LongArithmeticIsExact
BY LongInit, LongKept, LongExact, PTL DEF ProgramSpec
=============================================================================
