---------------------------- MODULE Instructions ----------------------------
(* The timing of the 6502 instructions of src/core/cpu.c as the rest of the *)
(* machine sees it: how many clocks an instruction of each decoder takes    *)
(* (isa_info), at which clock its execute function runs, and which clocks   *)
(* read or write its target register (the decode and execute functions).    *)
(*                                                                          *)
(* An instruction is a record                                               *)
(*   mode     the decoder isa_info names for its opcode                     *)
(*   op       what its execute function does with the target:               *)
(*            "none", "read", "write" or "modify" (read, then write)        *)
(*   reg      the register its target address selects                       *)
(*   dummy    the register the uncarried address of an indexed mode selects *)
(*   val      the bit written: bit 7 of $2000, bit 3 of $2001               *)
(*   crosses  the indexed address (or the branch) crosses a page            *)
(*   taken    the branch is taken                                           *)
(* The value a program computes is not modelled: val, crosses and taken are *)
(* properties of the instruction instance the program is about to run.      *)
EXTENDS Naturals

(* The registers told apart: RAM or cartridge space, $2000, $2001, $2002,   *)
(* the other five PPU registers, and $4014.                                 *)
PpuRegister == {"ctrl", "mask", "status", "ppuOther"}
Register == PpuRegister \union {"ram", "oamdma"}

(* isa_info[opcode].max_cycles is a function of the decoder: BRK is the one *)
(* exception, and has a mode of its own here.                               *)
MaxCycles ==
  [ IMP |-> 2, ACC |-> 2, IMM_read |-> 2, PUSH |-> 3, PULL |-> 4, RTS |-> 6,
    ABS_read_store |-> 4, ABSX_read_store |-> 5, ABSY_read_store |-> 5,
    INDX_read_store |-> 6, INDY_read_store |-> 6,
    ZP_read_store |-> 3, ZPX_read_store |-> 4, ZPY_read_store |-> 4,
    ABS_rmw |-> 6, ABSX_rmw |-> 7, ZP_rmw |-> 5, ZPX_rmw |-> 6,
    Bxx |-> 4, ABS_JMP |-> 3, IND_JMP |-> 5, SPECIAL |-> 6, BRK |-> 7,
    bad_op_code |-> 0 ]

Mode == DOMAIN MaxCycles

(* Decoders that enter EXECUTE on their first clock; their execute function *)
(* (JMP, JSR, RTI, BRK) puts the state back to EXECUTE until the last clock.*)
Immediate == {"ABS_JMP", "IND_JMP", "SPECIAL", "BRK"}

Indexed == {"ABSX_read_store", "ABSY_read_store", "INDY_read_store"}

InstructionRecord ==
  [ mode : Mode, op : {"none", "read", "write", "modify"},
    reg : Register, dummy : Register,
    val : BOOLEAN, crosses : BOOLEAN, taken : BOOLEAN ]

LoadStoreMode ==
  {"ABS_read_store", "ABSX_read_store", "ABSY_read_store", "INDX_read_store",
   "INDY_read_store", "ZP_read_store", "ZPX_read_store", "ZPY_read_store"}
RmwMode == {"ABS_rmw", "ABSX_rmw", "ZP_rmw", "ZPX_rmw"}

(* The pairs of decode and execute functions isa_info makes: only the modes *)
(* with a target address reach a register other than by fetching.           *)
Instruction ==
  { i \in InstructionRecord :
      /\ i.mode \in RmwMode <=> i.op = "modify"
      /\ i.mode \in LoadStoreMode <=> i.op \in {"read", "write"} }

(* Stores through an indexed mode never take the shorter path.              *)
fixed_cycles_on_store(i) == i.op = "write"

(* instruction_cycles_remaining at the clock an indexed mode executes.      *)
IndexedLastCycle(i) == IF ~fixed_cycles_on_store(i) /\ ~i.crosses THEN 2 ELSE 1

(* ... and at the clock a branch executes.                                  *)
BranchLastCycle(i) == IF ~i.taken THEN 3 ELSE IF ~i.crosses THEN 2 ELSE 1

LastCycle(i) ==
  IF i.mode \in Indexed THEN IndexedLastCycle(i)
  ELSE IF i.mode = "Bxx" THEN BranchLastCycle(i) ELSE 1

(* The decoder sets EXECUTE with r clocks remaining. bad_op_code never does. *)
Executes(i, r) ==
  /\ i.mode # "bad_op_code"
  /\ i.mode \in Immediate \/ r = LastCycle(i)

(* The execute function leaves the instruction in EXECUTE.                  *)
StaysInExecute(i, r) == i.mode \in Immediate /\ r # 1

(* The register a decode clock that does not execute reads for nothing;     *)
(* "ram" when it reads none that minds being read.                          *)
DummyRead(i, r) ==
  CASE i.mode \in {"ABS_rmw", "ABSX_rmw"} /\ r = 3 -> i.reg
    [] i.mode = "ABSX_rmw" /\ r = 4 -> i.dummy
    [] i.mode \in Indexed /\ r = 2 -> i.dummy
    [] OTHER -> "ram"

(* A read-modify-write instruction writes the value it read back first.     *)
DummyWrite(i, r) == i.mode \in {"ABS_rmw", "ABSX_rmw"} /\ r = 2
=============================================================================
