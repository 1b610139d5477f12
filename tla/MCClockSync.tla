---------------------------- MODULE MCClockSync ----------------------------
(* Programs for the model-checking runs of ClockSync.                       *)
EXTENDS ClockSync

Op(mode, op, reg, val) ==
  [ mode |-> mode, op |-> op, reg |-> reg, dummy |-> reg, val |-> val,
    crosses |-> FALSE, taken |-> FALSE ]

Crossing(mode, op, reg, dummy) ==
  [Op(mode, op, reg, FALSE) EXCEPT !.dummy = dummy, !.crosses = TRUE]

NOP == Op("IMP", "none", "ram", FALSE)
JMP == Op("ABS_JMP", "none", "ram", FALSE)
JSR == Op("SPECIAL", "none", "ram", FALSE)
BRK == Op("BRK", "none", "ram", FALSE)
Branch(taken, crosses) ==
  [Op("Bxx", "none", "ram", FALSE) EXCEPT !.taken = taken, !.crosses = crosses]
LDA(reg) == Op("ABS_read_store", "read", reg, FALSE)
STA(reg, val) == Op("ABS_read_store", "write", reg, val)

(* $2000 and $2001 read as 0: of the read-modify-write instructions, DEC     *)
(* writes $FF to them, which sets the bit; INC and the shifts do not.        *)
RMW(reg, val) == Op("ABS_rmw", "modify", reg, val)

(* Everything that can request, delay, suppress or withdraw an NMI, and     *)
(* DMAs, requested once and twice.                                          *)
NmiProgram ==
  { NOP, JMP, JSR, BRK, Branch(TRUE, TRUE), LDA("status"),
    Crossing("ABSX_read_store", "read", "ram", "status"),
    STA("ctrl", TRUE), STA("ctrl", FALSE), RMW("ctrl", TRUE),
    STA("oamdma", FALSE), RMW("oamdma", FALSE) }

(* Writes to $2001, alone, doubled, and followed by any other PPU register, *)
(* and the rest of the addressing modes.                                    *)
MaskProgram ==
  { STA("mask", TRUE), STA("mask", FALSE), RMW("mask", FALSE),
    Op("ABSX_rmw", "modify", "mask", TRUE), RMW("ppuOther", FALSE),
    Crossing("INDY_read_store", "read", "status", "status") }

(* Both at once: a write to any register, single or double, may follow any. *)
WholeProgram == NmiProgram \union MaskProgram

(* What the liveness run needs of each kind, and a JMP to itself.           *)
LiveProgram ==
  { JMP, STA("oamdma", FALSE), LDA("status"), STA("ctrl", TRUE), STA("ctrl", FALSE) }
=============================================================================
