------------------------------ MODULE OamPort ------------------------------
(***************************************************************************)
(* Sprite memory (OAM) as a program reaches it: the address in $2003, the  *)
(* data port $2004, and the copy of a page of CPU memory that a write to   *)
(* $4014 asks for and execute_DMA makes, a clock of the CPU at a time.     *)
(* What is copied over what, and when the CPU is held up for it, is in     *)
(* ClockSync; this module is about the bytes.                              *)
(***************************************************************************)
EXTENDS Integers

CONSTANTS
  OamSize,    \* bytes of OAM, and of a page of CPU memory (256)
  OamBytes,   \* the bytes a program writes to OAM
  OamPages    \* what the pages it copies hold

ASSUME OamAssumption ==
  /\ OamSize \in Nat /\ OamSize >= 4
  /\ 0 \in OamBytes /\ OamBytes \subseteq 0..255
  /\ OamPages \subseteq [0..OamSize - 1 -> OamBytes]

VARIABLES
  oam,
  oam_overrun,        \* the bytes behind oam that any copy has written
  oam_addr,
  oam_rendering,      \* ppu_rendering_period, and bit 3 or 4 of ppu_mask
  oam_return_value,   \* what the last read of $2004 gave
  dma_pending,
  base_addr,          \* what the page holds
  dma_clocked,        \* execute_DMA has the CPU suspended
  cpu_cycle_odd,      \* cycle - 1 is odd
  cycles_left         \* the static of execute_DMA

dma_vars == <<dma_pending, base_addr, dma_clocked, cpu_cycle_odd, cycles_left>>
oam_vars == <<oam, oam_overrun, oam_addr, oam_rendering, oam_return_value, dma_vars>>

CopyClocks == 2 * OamSize + 1            \* 513: the last of the idle clocks
DmaIdle == CopyClocks + 1                \* 514: no copy is being made

OamInit ==
  /\ oam = [a \in 0..OamSize - 1 |-> 0]
  /\ oam_overrun = 0
  /\ oam_addr = 0
  /\ oam_rendering \in BOOLEAN
  /\ oam_return_value \in OamBytes
  /\ dma_pending = FALSE
  /\ base_addr \in OamPages
  /\ dma_clocked = FALSE
  /\ cpu_cycle_odd = FALSE
  /\ cycles_left = DmaIdle

-----------------------------------------------------------------------------
(* $2003 AND $2004: the CPU is not suspended, and asked for no copy         *)

CpuRuns == ~dma_pending

(* Mutant: the address is not cut to its width.                            *)
Uint8Mutant(value) == value

Uint8(value) == value % OamSize          \* oam_addr is as wide as OAM is long

write_2003 ==
  /\ CpuRuns
  /\ oam_addr' \in 0..OamSize - 1
  /\ UNCHANGED <<oam, oam_overrun, oam_rendering, oam_return_value, dma_vars>>

write_2004_rendering ==
  /\ CpuRuns
  /\ oam_rendering
  /\ oam_addr' = Uint8(oam_addr + 4)
  /\ UNCHANGED <<oam, oam_overrun, oam_rendering, oam_return_value, dma_vars>>

write_2004 ==
  /\ CpuRuns
  /\ ~oam_rendering
  /\ \E data \in OamBytes : oam' = [oam EXCEPT ![oam_addr] = data]
  /\ oam_addr' = Uint8(oam_addr + 1)
  /\ UNCHANGED <<oam_overrun, oam_rendering, oam_return_value, dma_vars>>

(* data & 0xE3: three bits of an attribute byte do not exist               *)
Attributes(data) == (32 * (data \div 32)) + (data % 4)

read_2004 ==
  /\ CpuRuns
  /\ oam_return_value' =
       IF oam_addr % 4 = 2 THEN Attributes(oam[oam_addr]) ELSE oam[oam_addr]
  /\ oam_addr' = IF oam_rendering THEN Uint8(oam_addr + 1) ELSE oam_addr
  /\ UNCHANGED <<oam, oam_overrun, oam_rendering, dma_vars>>

-----------------------------------------------------------------------------
(* $4014 AND EXECUTE_DMA                                                    *)

(* A read-modify-write instruction asks twice; the copy begins on an odd   *)
(* cycle or on an even one.                                                *)
write_4014 ==
  /\ ~dma_clocked
  /\ dma_pending' = TRUE
  /\ base_addr' \in OamPages
  /\ cpu_cycle_odd' \in BOOLEAN
  /\ UNCHANGED <<oam, oam_overrun, oam_addr, oam_rendering, oam_return_value, dma_clocked, cycles_left>>

(* cycles_left when the clock's idling is done.                            *)
DmaAligned == IF cpu_cycle_odd /\ cycles_left = DmaIdle THEN cycles_left + 1 ELSE cycles_left

DmaClock == IF DmaAligned >= CopyClocks THEN DmaAligned - 1 ELSE DmaAligned

Copies == DmaClock < CopyClocks

Index == (2 * OamSize - DmaClock) \div 2

(* Mutant: the address of the program is ignored, and oam starts at 0.     *)
TargetMutant == Index

Target == oam_addr + Index

(* oam is an array of the PPU, with other members behind it.               *)
CopyByte ==
  IF Target < OamSize
  THEN oam' = [oam EXCEPT ![Target] = base_addr[Index]] /\ UNCHANGED oam_overrun
  ELSE /\ oam_overrun' = IF Target - OamSize < oam_overrun THEN oam_overrun ELSE Target - OamSize + 1
       /\ UNCHANGED oam

execute_DMA ==
  /\ dma_pending
  /\ IF Copies /\ DmaClock % 2 = 0 THEN CopyByte ELSE UNCHANGED <<oam, oam_overrun>>
  /\ LET left == IF Copies THEN DmaClock - 1 ELSE DmaClock IN
     /\ cycles_left' = IF left = 0 THEN DmaIdle ELSE left
     /\ dma_pending' = (left # 0)
     /\ dma_clocked' = (left # 0)
  /\ cpu_cycle_odd' = ~cpu_cycle_odd
  /\ UNCHANGED <<oam_addr, oam_rendering, oam_return_value, base_addr>>

(* The PPU begins or ends rendering, or a program switches it.             *)
RenderingChanges ==
  /\ oam_rendering' = ~oam_rendering
  /\ UNCHANGED <<oam, oam_overrun, oam_addr, oam_return_value, dma_vars>>

OamNext ==
  \/ write_2003 \/ write_2004 \/ write_2004_rendering \/ read_2004
  \/ write_4014 \/ execute_DMA
  \/ RenderingChanges

OamSpec == OamInit /\ [][OamNext]_oam_vars

-----------------------------------------------------------------------------
(* Unless OAMADDR is 0 a copy leaves the array, but never by a whole page: *)
(* it is as many bytes as there are before OAMADDR, at most.               *)
OamTypeOK ==
  /\ oam \in [0..OamSize - 1 -> OamBytes]
  /\ oam_overrun \in 0..OamSize - 1
  /\ oam_addr \in 0..OamSize - 1
  /\ oam_rendering \in BOOLEAN
  /\ oam_return_value \in 0..255
  /\ dma_pending \in BOOLEAN
  /\ base_addr \in OamPages
  /\ dma_clocked \in BOOLEAN
  /\ cpu_cycle_odd \in BOOLEAN
  /\ cycles_left \in 1..DmaIdle

(* The memory once the copy that execute_DMA is making is complete.        *)
OamCompleted ==
  IF dma_clocked
  THEN [a \in 0..OamSize - 1 |-> IF a >= oam_addr THEN base_addr[a - oam_addr] ELSE oam[a]]
  ELSE oam

Memory == INSTANCE OamMemory WITH
  Size <- OamSize,
  Byte <- OamBytes,
  Page <- OamPages,
  Legible <- [data \in OamBytes |-> Attributes(data)],
  cells <- OamCompleted,
  address <- oam_addr,
  rendering <- oam_rendering,
  requested <- IF dma_pending /\ ~dma_clocked THEN {base_addr} ELSE {},
  output <- oam_return_value

(* The copy made over some 513 clocks is one step: whether it begins on an *)
(* odd cycle or an even one, whatever OAMADDR is and whenever rendering    *)
(* begins, each byte behind OAMADDR is written exactly with the page last  *)
(* asked for, none before OAMADDR is touched, and OAMADDR itself stays.    *)
ImplementsOamMemory == Memory!Spec
=============================================================================
