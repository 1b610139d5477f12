------------------------------ MODULE CpuStack ------------------------------
(***************************************************************************)
(* The instructions and interrupts that use the stack.  An action is all   *)
(* the clocks of one of them, from the fetch of its opcode; PC is where    *)
(* the next instruction begins (TXS and TSX leave it out).  The program    *)
(* has instructions at Code, and jumps only there.                         *)
(***************************************************************************)
EXTENDS Addressing, Sequences

CONSTANTS
  StackSize,   \* bytes of the stack page (256)
  Code,        \* where the instructions are
  Handler      \* where the vectors of BRK and NMI point

(* The stack pointer is a byte, and two interrupts fit.                    *)
ASSUME StackAssumption ==
  /\ StackSize \in 6..256
  /\ Code \subseteq Word /\ Handler \in Code

VARIABLES
  stack,   \* the stack pointer, as wide as the page is long
  page     \* mem from SP_START on

(* The bits of P as a byte; B and U are bits 4 and 5.                      *)
FlagBit == [N |-> 7, V |-> 6, U |-> 5, B |-> 4, D |-> 3, I |-> 2, Z |-> 1, C |-> 0]
StatusByte(flags) == ValueOf({ FlagBit[f] : f \in flags })
FlagsOf(byte) == { f \in Flags : FlagBit[f] \in BitsOf(byte) }

-----------------------------------------------------------------------------
(* STACK_PUSH AND STACK_PULL                                                *)

Slot(pointer) == pointer % StackSize

(* The bytes are pushed in their order.                                    *)
stack_push(values) ==
  /\ page' = [a \in DOMAIN page |->
       LET n == Slot(stack - a) + 1 IN IF n <= Len(values) THEN values[n] ELSE page[a]]
  /\ stack' = Slot(stack - Len(values))

(* The nth byte that is pulled.                                            *)
Pulled(n) == page[Slot(stack + n)]

stack_pull(n) == stack' = Slot(stack + n) /\ UNCHANGED page

NextPC(length) == PC' = Uint16(PC + length)

-----------------------------------------------------------------------------
execute_JSR(target) ==
  LET last == Uint16(PC + 2) IN
  /\ stack_push(<<High(last), Low(last)>>)
  /\ PC' = target
  /\ UNCHANGED <<reg, P>>

(* Mutant: the address on the stack is taken for that of the next          *)
(* instruction.                                                            *)
ReturnMutant(address) == address

Return(address) == Uint16(address + 1)

execute_RTS ==
  /\ PC' = Return(append_hi_byte_to_lo_byte(Pulled(2), Pulled(1)))
  /\ stack_pull(2)
  /\ UNCHANGED <<reg, P>>

execute_PHA ==
  /\ stack_push(<<reg["A"]>>)
  /\ NextPC(1)
  /\ UNCHANGED <<reg, P>>

execute_PLA ==
  /\ reg' = [reg EXCEPT !["A"] = Pulled(1)]
  /\ update({"N", "Z"}, NZ(Pulled(1)))
  /\ stack_pull(1)
  /\ NextPC(1)

execute_PHP ==
  /\ stack_push(<<StatusByte(P \union {"B", "U"})>>)
  /\ NextPC(1)
  /\ UNCHANGED <<reg, P>>

execute_PLP ==
  /\ P' = (FlagsOf(Pulled(1)) \ {"B"}) \union {"U"}
  /\ stack_pull(1)
  /\ NextPC(1)
  /\ UNCHANGED reg

Interrupted(address, status) ==
  /\ stack_push(<<High(address), Low(address), StatusByte(status)>>)
  /\ P' = P \union {"I"}
  /\ PC' = Handler
  /\ UNCHANGED reg

execute_BRK == Interrupted(Uint16(PC + 2), P \union {"B", "U"})

(* Between any two instructions; execute_IRQ is the same, but never called *)
execute_NMI == Interrupted(PC, P \ {"B", "U"})

(* B stays as it was pushed.                                               *)
execute_RTI ==
  /\ P' = FlagsOf(Pulled(1)) \union {"U"}
  /\ PC' = append_hi_byte_to_lo_byte(Pulled(3), Pulled(2))
  /\ stack_pull(3)
  /\ UNCHANGED reg

execute_TXS ==
  /\ stack' = Slot(reg["X"])
  /\ UNCHANGED <<reg, P, PC, page>>

execute_TSX ==
  /\ reg' = [reg EXCEPT !["X"] = stack]
  /\ update({"N", "Z"}, NZ(stack))
  /\ UNCHANGED <<PC, stack, page>>
=============================================================================
