----------------------------- MODULE OamMemory -----------------------------
(***************************************************************************)
(* What a program may count on of sprite memory: a cell keeps what was     *)
(* last written to it, the address moves on after a write, and a transfer  *)
(* puts a whole page of bytes behind the address in one step.  A page that *)
(* does not fit behind the address is cut off at the end of the memory.    *)
(***************************************************************************)
EXTENDS Integers

CONSTANTS
  Size,     \* cells
  Byte,     \* what a program writes
  Page,     \* what it transfers: functions from 0..Size - 1 to Byte
  Legible   \* what of a byte an attribute cell shows: a function on Byte

VARIABLES
  cells,
  address,
  rendering,   \* the memory is in use by the PPU
  requested,   \* the pages asked for and not yet transferred, at most one
  output       \* the last byte read

memory == <<cells, address, rendering, requested, output>>

Init ==
  /\ cells = [c \in 0..Size - 1 |-> 0]
  /\ address = 0
  /\ rendering \in BOOLEAN
  /\ requested = {}
  /\ output \in Byte

Render ==
  /\ rendering' = ~rendering
  /\ UNCHANGED <<cells, address, requested, output>>

Select ==
  /\ address' \in 0..Size - 1
  /\ UNCHANGED <<cells, rendering, requested, output>>

Write ==
  /\ ~rendering
  /\ \E byte \in Byte : cells' = [cells EXCEPT ![address] = byte]
  /\ address' = (address + 1) % Size
  /\ UNCHANGED <<rendering, requested, output>>

(* The next sprite; the cells are safe.                                    *)
WriteInVain ==
  /\ rendering
  /\ address' = (address + 4) % Size
  /\ UNCHANGED <<cells, rendering, requested, output>>

Read ==
  /\ output' = IF address % 4 = 2 THEN Legible[cells[address]] ELSE cells[address]
  /\ address' = IF rendering THEN (address + 1) % Size ELSE address
  /\ UNCHANGED <<cells, rendering, requested>>

Request ==
  /\ \E page \in Page : requested' = {page}
  /\ UNCHANGED <<cells, address, rendering, output>>

Transfer ==
  /\ \E page \in requested :
       cells' = [c \in 0..Size - 1 |-> IF c >= address THEN page[c - address] ELSE cells[c]]
  /\ requested' = {}
  /\ UNCHANGED <<address, rendering, output>>

Next == Render \/ Select \/ Write \/ WriteInVain \/ Read \/ Request \/ Transfer

Spec == Init /\ [][Next]_memory
=============================================================================
