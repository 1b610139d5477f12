---------------------------- MODULE CpuPrograms ----------------------------
(***************************************************************************)
(* Programs for the CPU of Alu, Addressing and CpuStack, each of which     *)
(* uses some of the instructions, and what one that uses the stack         *)
(* remembers of what it has pushed.  Such a program pulls with the         *)
(* instruction that answers the one that pushed; an NMI comes any time.    *)
(***************************************************************************)
EXTENDS CpuStack

VARIABLES
  uses,     \* the instructions that the program is made of
  frames,   \* what it has pushed and not pulled, the last one last
  long      \* its work on numbers of two bytes

cpu_vars == <<alu_vars, address_vars, stack, page>>
program_vars == <<cpu_vars, uses, frames, long>>

Register == {"A", "X", "Y"}
Uses ==
  (Register \X {"compute"}) \union ({"X", "Y"} \X {"index"})
    \union {<<"A", "long">>, <<"PC", "jump">>, <<"stack", "call">>}

Nothing == <<>>
Operand == [hi: Operands, lo: Operands]
Task(t, x, y) == [task |-> t, x |-> x, y |-> y, step |-> 0, kept |-> <<>>]
Tasks ==
  { Task(t, x, y) : t \in {"add", "subtract", "compare"}, x \in Operand, y \in Operand }
    \union { Task(t, x, x) : t \in {"double", "halve"}, x \in Operand }

ProgramInit ==
  /\ AluInit /\ AddressInit
  /\ page = [a \in 0..StackSize - 1 |-> 0]
  /\ uses \in Uses
  /\ IF uses[2] = "call" THEN stack \in 0..StackSize - 1 ELSE stack = 0
  /\ IF uses[2] = "long" THEN long \in Tasks ELSE long = Nothing
  /\ frames = <<>>

Computes ==
  /\ uses[2] = "compute"
  /\ AluNext(uses[1])
  /\ UNCHANGED <<address_vars, stack, page, frames, long>>

(* The chains of instructions, by their operand.                           *)
Script(task) ==
  CASE task = "add" -> <<"LD lo", "CLC", "ADC lo", "ST", "LD hi", "ADC hi", "ST">>
    [] task = "subtract" -> <<"LD lo", "SEC", "SBC lo", "ST", "LD hi", "SBC hi", "ST">>
    [] task = "compare" -> <<"LD lo", "CMP lo", "LD hi", "SBC hi">>
    [] task = "double" -> <<"ASL", "ROL">>
    [] task = "halve" -> <<"LSR", "ROR">>

Instructed(name) ==
  CASE name = "LD lo" -> execute_LD("A", long.x.lo)
    [] name = "LD hi" -> execute_LD("A", long.x.hi)
    [] name = "CLC" -> SetFlag("C", FALSE)
    [] name = "SEC" -> SetFlag("C", TRUE)
    [] name = "ST" -> execute_ST("A")
    [] name = "ADC lo" -> execute_ADC(long.y.lo)
    [] name = "ADC hi" -> execute_ADC(long.y.hi)
    [] name = "SBC lo" -> execute_SBC(long.y.lo)
    [] name = "SBC hi" -> execute_SBC(long.y.hi)
    [] name = "CMP lo" -> execute_CP("A", long.y.lo)
    [] name \in {"ASL", "ROR"} -> ShiftMemory(name, long.x.lo)
    [] name \in {"ROL", "LSR"} -> ShiftMemory(name, long.x.hi)

ComputesLong ==
  /\ uses[2] = "long"
  /\ long.step < Len(Script(long.task))
  /\ Instructed(Script(long.task)[long.step + 1])
  /\ long' = [long EXCEPT !.step = @ + 1,
                          !.kept = IF written' = None THEN @ ELSE Append(@, written')]
  /\ UNCHANGED <<address_vars, stack, page, frames>>

Indexes ==
  /\ uses[2] = "index"
  /\ \/ /\ address_mode = "none" /\ Decode(uses[1])
        /\ UNCHANGED <<alu_vars, stack>>
     \/ Execute /\ UNCHANGED <<alu_vars, stack>>
     \/ /\ address_mode = "none"
        /\ \/ \E m \in Operands : execute_LD(uses[1], m)
           \/ \E from \in {"A", uses[1]}, to \in {"A", uses[1]} : execute_T(from, to)
        /\ UNCHANGED <<address_vars, stack>>
  /\ UNCHANGED <<page, frames, long>>

(* The stack pointer is set up by way of X.                                *)
SetsUp ==
  /\ uses = <<"X", "index">> /\ address_mode = "none"
  /\ execute_TSX \/ execute_TXS
  /\ UNCHANGED <<written, address_mode, bytes, fixed_cycles, early, late, target_addr>>
  /\ UNCHANGED <<frames, long>>

(* Instructions that jump are at addresses made of the bytes of Operands.  *)
Jumps ==
  /\ uses[2] = "jump"
  /\ \/ /\ address_mode = "none"
        /\ High(PC) \in Operands /\ Low(PC) \in Operands
        /\ DecodeJump
        /\ UNCHANGED alu_vars
     \/ Execute /\ UNCHANGED alu_vars
     \/ /\ address_mode = "none"
        /\ \E set \in BOOLEAN : SetFlag("C", set)
        /\ UNCHANGED address_vars
  /\ UNCHANGED <<stack, page, frames, long>>

-----------------------------------------------------------------------------
(* THE STACK                                                                *)

Depth == IF frames = <<>> THEN 0 ELSE frames[Len(frames)].depth

(* A frame that does not fit any more overwrites others: all are forgotten *)
Pushed(kind, size, address) ==
  frames' =
    IF Depth + size > StackSize THEN <<>>
    ELSE Append(frames, [ kind |-> kind, depth |-> Depth + size, PC |-> address,
                          A |-> reg["A"], P |-> P, stack |-> stack ])

Pulls(kind) ==
  /\ frames # <<>> /\ frames[Len(frames)].kind = kind
  /\ frames' = SubSeq(frames, 1, Len(frames) - 1)

Returnable(length) == Uint16(PC + length) \in Code

Calls ==
  /\ uses[2] = "call"
  /\ \/ \E target \in Code : Returnable(3) /\ execute_JSR(target) /\ Pushed("call", 2, Uint16(PC + 3))
     \/ execute_RTS /\ Pulls("call")
     \/ execute_PHA /\ Pushed("A", 1, 0)
     \/ execute_PLA /\ Pulls("A")
     \/ execute_PHP /\ Pushed("P", 1, 0)
     \/ execute_PLP /\ Pulls("P")
     \/ Returnable(2) /\ execute_BRK /\ Pushed("interrupt", 3, Uint16(PC + 2))
     \/ execute_NMI /\ Pushed("interrupt", 3, PC)
     \/ execute_RTI /\ Pulls("interrupt")
  /\ PC' \in Code
  /\ UNCHANGED <<written, address_mode, bytes, fixed_cycles, early, late, target_addr, long>>

(* An instruction in between.                                              *)
Between ==
  /\ uses[2] = "call"
  /\ \E m \in {0, 128} : execute_LD("A", m)
  /\ NextPC(2) /\ PC' \in Code
  /\ UNCHANGED <<address_mode, bytes, fixed_cycles, early, late, target_addr>>
  /\ UNCHANGED <<stack, page, frames, long>>

ProgramNext == (Computes \/ ComputesLong \/ Indexes \/ SetsUp \/ Jumps \/ Calls \/ Between) /\ UNCHANGED uses

ProgramSpec == ProgramInit /\ [][ProgramNext]_program_vars

-----------------------------------------------------------------------------
CpuTypeOK ==
  /\ reg \in [Register -> Byte]
  /\ P \subseteq Flags /\ "U" \in P
  /\ written \in 0..None
  /\ PC \in Word
  /\ bytes.hi \in Byte /\ bytes.lo \in Byte /\ bytes.offset \in -128..127
  /\ early \in 0..NoAddress
  /\ late \in BOOLEAN /\ fixed_cycles \in BOOLEAN
  /\ target_addr \in Word
  /\ stack \in 0..StackSize - 1
  /\ page \in [0..StackSize - 1 -> Byte]

-----------------------------------------------------------------------------
Signed(number, size) == IF number >= size \div 2 THEN number - size ELSE number
Number(n) == append_hi_byte_to_lo_byte(n.hi, n.lo)
Signed16(n) == Signed(Number(n), 65536)

(* A program that adds, subtracts, compares, doubles or halves numbers of  *)
(* two bytes with the usual chain of instructions computes modulo 2^16.    *)
(* The carry is that of the whole sum, or tells which number is larger;    *)
(* V is set if the signed result does not fit, and N with V tells which of *)
(* two signed numbers is less.                                             *)
LongArithmeticIsExact ==
  long # Nothing /\ long.step = Len(Script(long.task)) =>
    LET x == Number(long.x)
        y == Number(long.y)
        low == long.kept[1] + (256 * long.kept[2])
        c == "C" \in P
        v == "V" \in P
        n == "N" \in P
    IN CASE long.task = "add" ->
              /\ x + y = low + (IF c THEN 65536 ELSE 0)
              /\ v = (Signed(low, 65536) # Signed16(long.x) + Signed16(long.y))
         [] long.task = "subtract" ->
              /\ x - y = low - (IF c THEN 0 ELSE 65536)
              /\ v = (Signed(low, 65536) # Signed16(long.x) - Signed16(long.y))
         [] long.task = "compare" ->
              /\ c = (x >= y)
              /\ (n # v) = (Signed16(long.x) < Signed16(long.y))
         [] long.task = "double" -> 2 * x = low + (IF c THEN 65536 ELSE 0)
         [] long.task = "halve" ->
              x = (2 * ((256 * long.kept[1]) + long.kept[2])) + (IF c THEN 1 ELSE 0)

(* An index or an offset carries into the upper byte of the address, and   *)
(* takes a clock for it exactly if it does, or the instruction writes; the *)
(* address on the bus before that differs from the right one in the upper  *)
(* byte only, and is always within the page the program named.  In the     *)
(* zero page nothing carries, and both bytes of a pointer are in one page. *)
AddressesCarry ==
  LET named == append_hi_byte_to_lo_byte(bytes.hi, bytes.lo)
      Carries(from, by) ==
        /\ target_addr = Uint16(from + by)
        /\ Low(early) = Low(target_addr) /\ High(early) = High(from)
        /\ late = (fixed_cycles \/ High(target_addr) # High(from))
  IN /\ CASE address_mode = "ABSX" -> Carries(named, reg["X"])
          [] address_mode \in {"ABSY", "INDY"} -> Carries(named, reg["Y"])
          [] address_mode = "REL" /\ target_addr # PC -> Carries(PC, bytes.offset)
          [] address_mode = "ZPX" -> target_addr = (bytes.lo + reg["X"]) % 256
          [] address_mode = "ZPY" -> target_addr = (bytes.lo + reg["Y"]) % 256
          [] address_mode = "INDX" -> bytes.pointer[1] < 256 /\ target_addr = named
          [] OTHER -> TRUE
     /\ bytes.pointer # <<>> =>
          /\ High(bytes.pointer[1]) = High(bytes.pointer[2])
          /\ (Low(bytes.pointer[2]) - Low(bytes.pointer[1])) \in {1, -255}

(* Whatever is pushed comes back, wherever the stack pointer started and   *)
(* however calls, interrupts and saved registers are nested, as long as    *)
(* they fit into the page: RTS goes on behind the JSR, RTI where the       *)
(* interrupt was taken, with the flags of that time (except B, which no    *)
(* program can see), PLA and PLP give what was saved, and the stack        *)
(* pointer is what it was before.                                          *)
StackReturns ==
  [][ Len(frames') < Len(frames) /\ frames' = SubSeq(frames, 1, Len(frames) - 1) =>
        LET last == frames[Len(frames)] IN
        /\ stack' = last.stack
        /\ last.kind \in {"call", "interrupt"} => PC' = last.PC
        /\ last.kind = "A" => reg'["A"] = last.A
        /\ last.kind \in {"P", "interrupt"} => P' \ {"B"} = last.P \ {"B"}
    ]_program_vars
=============================================================================
