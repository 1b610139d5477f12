------------------------------ MODULE ClockSync ------------------------------
(* The lock step of CPU and PPU: clock_all_units of src/core/emu.c clocks   *)
(* the CPU once and the PPU three times, for ever, and the two sides talk   *)
(* only through the flags of struct CpuPpuShare.  Modelled are the CPU's    *)
(* fetch-decode-execute machine with its NMI and OAM DMA sequences, the     *)
(* delayed writes to PPU registers, and the PPU's dot counter, VBlank flag, *)
(* NMI request, NMI suppression and odd-frame skip.  One step is one call   *)
(* of clock_cpu or of clock_ppu.                                            *)
(*                                                                          *)
(* Left out: what instructions compute, the picture, and the registers no   *)
(* decision below depends on.                                               *)
EXTENDS Integers, Instructions

CONSTANTS
  LastDot,      \* last dot of a scanline (340)
  LastVisible,  \* last visible scanline (239)
  PreRender,    \* the pre-render scanline, last of the frame (261)
  InitDot,      \* the dot ppu_init starts at (27)
  OamSize,      \* bytes an OAM DMA copies (256)
  Warmup1,      \* CPU cycle of the first VBlank flag of the warm-up (27383)
  Warmup2,      \* CPU cycle of the second one (57164)
  CycleTop,     \* last value of cpu->cycle before it repeats, see NextCycle
  Program       \* the instructions a program may contain

PostRender == LastVisible + 1
nmi_start  == LastVisible + 2

ASSUME GeometryAssumption ==
  /\ LastDot \in Nat /\ LastDot >= 6
  /\ LastVisible \in Nat
  /\ PreRender \in Nat /\ PreRender > LastVisible + 2
  /\ InitDot \in 0..LastDot

ASSUME ClockAssumption ==
  /\ OamSize \in Nat \ {0}
  /\ Warmup1 \in Nat /\ Warmup2 \in Nat /\ Warmup1 < Warmup2
  /\ CycleTop \in Nat /\ CycleTop >= Warmup2 + 6

(* The first dot of a scanline, counted from the start of a frame.          *)
ScanlineStart(line) == line * (LastDot + 1)

(* The warm-up shows the VBlank flag in the last seven dots of the post-    *)
(* render scanline of the first two frames, in which no dot is skipped (on  *)
(* its dots 334 and 335 of 340).                                            *)
ASSUME WarmupAssumption ==
  LET dots == ScanlineStart(nmi_start) - 7..ScanlineStart(nmi_start) - 1
  IN  /\ Warmup1 > 1
      /\ InitDot + 3 * Warmup1 - 2 \in dots
      /\ InitDot + 3 * Warmup2 - 2 - ScanlineStart(PreRender + 1) \in dots

DmaIdle == 2 * OamSize + 2

(* The CPU clocks after which an NMI is over at the latest: the rest of an  *)
(* instruction, a DMA that waits for its cycle, another instruction and the *)
(* sequence itself (535 clocks; the picture takes 27280).                   *)
NmiLatency == 6 + (DmaIdle + 1) + 7 + 7

ASSUME PictureAssumption == 3 * NmiLatency < ScanlineStart(PostRender)

ASSUME ProgramAssumption == Program # {} /\ Program \subseteq Instruction

VARIABLES
  cpu,              \* struct Cpu6502: the control part
  ppu,              \* struct Ppu2C02: where the beam is; the warm-up counter
  io,               \* struct CpuPpuShare: the flags both sides use
  dma_cycles_left,  \* the static counter of execute_DMA
  turn              \* next call of clock_all_units: 0 clock_cpu, 1..3 clock_ppu

vars == <<cpu, ppu, io, dma_cycles_left, turn>>

(* The buffer while it is off: its other fields are not read then.          *)
NoWrite == [on |-> FALSE, counter |-> 6, address |-> "ppuOther", value |-> FALSE]

Reset == [ mode |-> "bad_op_code", op |-> "none", reg |-> "ram", dummy |-> "ram",
           val |-> FALSE, crosses |-> FALSE, taken |-> FALSE ]

-----------------------------------------------------------------------------
(* TYPES *)

Buffer ==
  [ on : BOOLEAN, counter : 1..6, address : PpuRegister, value : BOOLEAN ]

CpuType ==
  [ state : {"FETCH", "DECODE", "EXECUTE"},
    remaining : 0..7, instr : Program \union {Reset}, cycle : 0..CycleTop,
    process_interrupt : BOOLEAN, delay_nmi : BOOLEAN ]

PpuType ==
  [ dot : 0..LastDot, scanline : 0..PreRender, odd_frame : BOOLEAN,
    warmup : 0..3 ]

IoType ==
  [ vblank : BOOLEAN, nmi_enabled : BOOLEAN, show_bg : BOOLEAN,
    nmi_pending : BOOLEAN, dma_pending : BOOLEAN, suppress_nmi_flag : BOOLEAN,
    ignore_nmi : BOOLEAN, clear_status : BOOLEAN, nmi_lookahead : BOOLEAN,
    bg_early_enable_mask : BOOLEAN, bg_early_disable_mask : BOOLEAN,
    nmi_cycles_left : 1..7, buffer : Buffer ]

(* Every field keeps its type.  In particular the dot stays on the scanline *)
(* when the odd-frame skip adds one, nmi_cycles_left is back at 7 after the *)
(* extra decrement that follows execute_NMI, and the counter of execute_DMA *)
(* never passes 2 * OamSize + 2 between two clocks.                         *)
TypeOK ==
  /\ cpu \in CpuType
  /\ ppu \in PpuType
  /\ io \in IoType
  /\ dma_cycles_left \in 1..DmaIdle
  /\ turn \in 0..3

-----------------------------------------------------------------------------
(* INITIAL STATE: cpu_init, ppu_init, cpu_ppu_io_init *)

CpuInit ==
  [ state |-> "FETCH", remaining |-> 0, instr |-> Reset, cycle |-> 0,
    process_interrupt |-> FALSE, delay_nmi |-> FALSE ]

PpuInit == [ dot |-> InitDot, scanline |-> 0, odd_frame |-> FALSE, warmup |-> 0 ]

IoInit ==
  [ vblank |-> FALSE, nmi_enabled |-> FALSE, show_bg |-> FALSE,
    nmi_pending |-> FALSE, dma_pending |-> FALSE, suppress_nmi_flag |-> FALSE,
    ignore_nmi |-> FALSE, clear_status |-> FALSE, nmi_lookahead |-> FALSE,
    bg_early_enable_mask |-> FALSE, bg_early_disable_mask |-> FALSE,
    nmi_cycles_left |-> 7, buffer |-> NoWrite ]

Init ==
  /\ cpu = CpuInit
  /\ ppu = PpuInit
  /\ io = IoInit
  /\ dma_cycles_left = DmaIdle
  /\ turn = 0

-----------------------------------------------------------------------------
(* PPU REGISTERS AS THE CPU REACHES THEM *)

(* read_2002: the VBlank flag is lost to the program that reads it, and the *)
(* PPU's next dot learns of the read through suppress_nmi_flag.             *)
read_2002(s) ==
  [s EXCEPT !.vblank = FALSE, !.suppress_nmi_flag = TRUE, !.clear_status = FALSE]

ReadRegister(s, reg) == IF reg = "status" THEN read_2002(s) ELSE s

(* Dots until a write takes effect.                                         *)
WriteDelayMutant(reg) == IF reg = "mask" THEN 5 ELSE 4
WriteDelay(reg) == IF reg = "mask" THEN 5 ELSE 2

(* delay_write_ppu_reg: there is one buffer, and a write still in it is     *)
(* replaced.                                                                *)
delay_write_ppu_reg(s, reg, val) ==
  [s EXCEPT !.buffer = [ on |-> TRUE, counter |-> WriteDelay(reg),
                         address |-> reg, value |-> val ]]

(* write_to_cpu: PPU registers are buffered, $4014 acts at once.            *)
WriteRegister(s, reg, val) ==
  IF reg \in PpuRegister THEN delay_write_ppu_reg(s, reg, val)
  ELSE IF reg = "oamdma" THEN [s EXCEPT !.dma_pending = TRUE] ELSE s

(* write_ppu_reg on $2000 and $2001, when the buffer is flushed.            *)
write_ppu_reg(s, reg, val) ==
  IF reg = "ctrl"
    THEN [s EXCEPT !.nmi_enabled = val,
                   !.nmi_pending = @ \/ (s.vblank /\ ~s.nmi_enabled /\ val)]
  ELSE IF reg = "mask" THEN [s EXCEPT !.show_bg = val] ELSE s

(* ... which also delays an NMI it requests, by setting cpu->delay_nmi.     *)
RequestsNmi(s, reg, val) ==
  reg = "ctrl" /\ s.vblank /\ ~s.nmi_enabled /\ val

-----------------------------------------------------------------------------
(* CLOCK_CPU *)

(* cpu->cycle is compared with the warm-up cycles, with 0 modulo 2 and with *)
(* 0 modulo 3: past both warm-up cycles it may repeat with period 6.        *)
NextCycle(c) == IF c < CycleTop THEN c + 1 ELSE CycleTop - 5

(* What clock_cpu does first, whatever the state.  The count of clocks is   *)
(* read only between a fetch and the end of the instruction; outside of it  *)
(* it rests at 0 here, where the unsigned counter of the code goes on down. *)
CpuTickMutant ==
  [cpu EXCEPT !.cycle = NextCycle(@), !.remaining = IF @ > 0 THEN @ - 1 ELSE 0]

CpuTick ==
  [cpu EXCEPT !.cycle = NextCycle(@),
              !.remaining = IF @ > 0 THEN @ - 1 ELSE 0,
              !.process_interrupt = @ /\ ~io.ignore_nmi]

IoTick == [io EXCEPT !.ignore_nmi = FALSE]

TakesNmi == CpuTick.process_interrupt /\ ~cpu.delay_nmi

(* The clock of execute_NMI that loads the second half of the vector.       *)
NmiEndsMutant == io.nmi_cycles_left = 2
NmiEnds == io.nmi_cycles_left = 1

(* execute_NMI leaves 8 behind for the decrement that follows it.           *)
NmiCyclesAfterMutant == IF NmiEnds THEN 8 ELSE io.nmi_cycles_left - 1
NmiCyclesAfter == IF io.nmi_cycles_left = 1 THEN 8 - 1 ELSE io.nmi_cycles_left - 1

ExecuteNmi ==
  /\ turn = 0 /\ cpu.state = "FETCH" /\ TakesNmi
  /\ cpu' = [CpuTick EXCEPT !.process_interrupt = ~NmiEnds]
  /\ io' = [IoTick EXCEPT !.nmi_pending = @ /\ ~NmiEnds,
                          !.nmi_cycles_left = NmiCyclesAfter]
  /\ turn' = 1
  /\ UNCHANGED <<ppu, dma_cycles_left>>

(* The counter after a clock of execute_DMA: one idle clock more if the     *)
(* first falls on an odd cycle, an idle clock, then 2 * OamSize clocks of   *)
(* copying, the first of them in the clock the idling ends.                 *)
DmaAlignedMutant == dma_cycles_left
DmaAligned == IF dma_cycles_left = DmaIdle /\ cpu.cycle % 2 = 1
              THEN DmaIdle + 1 ELSE dma_cycles_left
DmaIdled == IF DmaAligned >= DmaIdle - 1 THEN DmaAligned - 1 ELSE DmaAligned
DmaNextMutant == IF DmaIdled < DmaIdle - 2 THEN DmaIdled - 1 ELSE DmaIdled
DmaNext == IF DmaIdled < DmaIdle - 1 THEN DmaIdled - 1 ELSE DmaIdled

(* execute_DMA: the CPU stays in FETCH until the copy is over.              *)
ExecuteDma ==
  /\ turn = 0 /\ cpu.state = "FETCH" /\ ~TakesNmi /\ io.dma_pending
  /\ cpu' = CpuTick
  /\ IF DmaNext = 0
       THEN /\ dma_cycles_left' = DmaIdle
            /\ io' = [IoTick EXCEPT !.dma_pending = FALSE]
       ELSE /\ dma_cycles_left' = DmaNext
            /\ io' = IoTick
  /\ turn' = 1
  /\ UNCHANGED ppu

(* fetch_opcode, and the end of the delay of an NMI.                        *)
FetchedMutant(i) ==
  [CpuTick EXCEPT !.state = "DECODE", !.instr = i, !.remaining = MaxCycles[i.mode]]

Fetched(i) ==
  [CpuTick EXCEPT !.state = "DECODE", !.instr = i, !.remaining = MaxCycles[i.mode],
                  !.delay_nmi = FALSE]

(* Any instruction of the program may be next.                              *)
FetchOpcodeMutant ==
  /\ turn = 0 /\ cpu.state = "FETCH" /\ ~TakesNmi
  /\ \E i \in Program : cpu' = Fetched(i)
  /\ io' = IoTick
  /\ turn' = 1
  /\ UNCHANGED <<ppu, dma_cycles_left>>

FetchOpcode ==
  /\ turn = 0 /\ cpu.state = "FETCH" /\ ~TakesNmi /\ ~io.dma_pending
  /\ \E i \in Program : cpu' = Fetched(i)
  /\ io' = IoTick
  /\ turn' = 1
  /\ UNCHANGED <<ppu, dma_cycles_left>>

(* A clock of a decode function that does not reach EXECUTE: a dummy read   *)
(* and a dummy write have the side effects of real ones.  What is written   *)
(* back is what $2000, $2001 and $4014 read as, 0.                          *)
AfterDummyRead(s) == ReadRegister(s, DummyRead(cpu.instr, CpuTick.remaining))

AfterDummyWrite(s) ==
  IF DummyWrite(cpu.instr, CpuTick.remaining)
  THEN WriteRegister(s, cpu.instr.reg, FALSE) ELSE s

Decode ==
  /\ turn = 0 /\ cpu.state = "DECODE"
  /\ ~Executes(cpu.instr, CpuTick.remaining)
  /\ cpu' = CpuTick
  /\ io' = AfterDummyWrite(AfterDummyRead(IoTick))
  /\ turn' = 1
  /\ UNCHANGED <<ppu, dma_cycles_left>>

(* What the execute function does to the registers.                         *)
AfterExecute(s) ==
  LET i == cpu.instr
      read == IF i.op \in {"read", "modify"} THEN ReadRegister(s, i.reg) ELSE s
  IN  IF i.op \in {"write", "modify"} THEN WriteRegister(read, i.reg, i.val) ELSE read

(* A clock that runs the execute function, and the polling for an NMI that  *)
(* follows it: a request just made, or one about to be made, waits for one  *)
(* more instruction, unless this is the first clock of an absolute JMP.     *)
Execute ==
  LET i == cpu.instr
      r == CpuTick.remaining
      cpu_ignore_fetch_on_nmi == cpu.state = "DECODE" /\ i.mode = "ABS_JMP"
      after == AfterExecute(IoTick)
  IN
  /\ turn = 0
  /\ \/ cpu.state = "EXECUTE"
     \/ cpu.state = "DECODE" /\ Executes(i, r)
  /\ cpu' = [CpuTick EXCEPT
               !.state = IF StaysInExecute(i, r) THEN "EXECUTE" ELSE "FETCH",
               !.remaining = IF StaysInExecute(i, r) THEN @ ELSE 0,
               !.process_interrupt = @ \/ after.nmi_pending,
               !.delay_nmi = IF after.nmi_lookahead THEN ~cpu_ignore_fetch_on_nmi ELSE @]
  /\ io' = after
  /\ turn' = 1
  /\ UNCHANGED <<ppu, dma_cycles_left>>

ClockCpu == ExecuteNmi \/ ExecuteDma \/ FetchOpcode \/ Decode \/ Execute

-----------------------------------------------------------------------------
(* CLOCK_PPU *)

(* The dot and scanline counters.                                           *)
AdvanceDot(p) ==
  IF p.dot < LastDot THEN [p EXCEPT !.dot = @ + 1]
  ELSE [p EXCEPT !.dot = 0,
                 !.scanline = IF @ < PreRender THEN @ + 1 ELSE 0,
                 !.odd_frame = IF p.scanline = PreRender THEN ~@ ELSE @]

(* ppu_vblank_warmup_seq: the first clock clears the VBlank flag, and one   *)
(* clock each of the first two frames sets it.                              *)
WarmupDue(p) ==
  \/ p.warmup = 0
  \/ p.warmup = 1 /\ cpu.cycle >= Warmup1
  \/ p.warmup = 2 /\ cpu.cycle >= Warmup2

AfterWarmup(s, p) == IF WarmupDue(p) THEN [s EXCEPT !.vblank = p.warmup > 0] ELSE s

CountWarmup(p) == IF WarmupDue(p) THEN [p EXCEPT !.warmup = @ + 1] ELSE p

(* The buffered write, one dot closer.  A write to $2001 is announced by    *)
(* the early flags three dots ahead of taking effect.                       *)
Flushing(s) == s.buffer.on /\ s.buffer.counter = 1

FlushedMutant(s) == [s EXCEPT !.buffer = [NoWrite EXCEPT !.on = TRUE],
                              !.bg_early_enable_mask = FALSE,
                              !.bg_early_disable_mask = FALSE]
FlushedMutant2(s) == [s EXCEPT !.buffer = NoWrite, !.bg_early_enable_mask = FALSE]
Flushed(s) == [s EXCEPT !.buffer = NoWrite, !.bg_early_enable_mask = FALSE,
                        !.bg_early_disable_mask = FALSE]

AfterBufferedWrite(s) ==
  IF ~s.buffer.on THEN s
  ELSE IF Flushing(s)
    THEN Flushed(write_ppu_reg(s, s.buffer.address, s.buffer.value))
  ELSE LET announce == s.buffer.address = "mask" /\ s.buffer.counter = 4
       IN [s EXCEPT !.buffer.counter = @ - 1,
                    !.bg_early_enable_mask = @ \/ (announce /\ s.buffer.value),
                    !.bg_early_disable_mask = @ \/ (announce /\ ~s.buffer.value)]

(* With the background on, an odd frame has one dot less.                   *)
OddFrameSkip(p, s) ==
  IF /\ ~s.bg_early_disable_mask
     /\ s.bg_early_enable_mask \/ s.show_bg
     /\ p.odd_frame /\ p.scanline = PreRender /\ p.dot = LastDot - 1
  THEN [p EXCEPT !.dot = @ + 1] ELSE p

(* The scanline VBlank starts on, dot by dot: the flag and the NMI request, *)
(* and the ways to lose either: $2002 read just before (suppress_nmi_flag), *)
(* or NMIs switched off again in the first dots.                            *)
SuppressionDotsMutant == 1..2
SuppressionDots == 1..3

OnNmiScanline(s, dot) ==
  LET requested == s.nmi_pending \/ (s.nmi_enabled /\ dot = 1)
      suppressed == \/ s.ignore_nmi
                    \/ s.nmi_enabled /\ s.suppress_nmi_flag /\ dot \in SuppressionDots
      withdrawn == ~s.nmi_enabled /\ requested /\ ~suppressed /\ dot < 5
  IN [s EXCEPT
        !.nmi_pending = requested /\ ~suppressed /\ ~withdrawn,
        !.ignore_nmi = suppressed \/ withdrawn,
        !.vblank = (@ \/ dot = 0) /\ ~(s.suppress_nmi_flag /\ cpu.cycle % 3 = 0),
        !.nmi_lookahead = dot = 0 \/ (s.nmi_enabled /\ dot \in {1, 2}),
        !.clear_status = dot = 0]

(* The VBlank flag is dropped at dot 1 of the pre-render scanline.          *)
VBlankEndsMutant(p) == p.scanline = PreRender /\ p.dot = 2
VBlankEnds(p) == p.scanline = PreRender /\ p.dot = 1

(* Off that scanline.  The look-ahead starts on the last dot before it.     *)
VBlankAndNmi(s, p) ==
  IF p.scanline = nmi_start THEN OnNmiScanline(s, p.dot)
  ELSE [s EXCEPT
          !.vblank = @ /\ ~VBlankEnds(p),
          !.nmi_lookahead = p.scanline = PostRender /\ p.dot = LastDot,
          !.clear_status = p.scanline = PostRender /\ p.dot = LastDot - 1]

(* A whole dot, in the order of clock_ppu.                                  *)
NextDot == CountWarmup(AdvanceDot(ppu))

AfterWrites == AfterBufferedWrite(AfterWarmup(io, ppu))

ClockPpu ==
  LET p == OddFrameSkip(NextDot, AfterWrites)
      before == AfterWarmup(io, ppu)
  IN
  /\ turn \in 1..3
  /\ ppu' = p
  /\ io' = [VBlankAndNmi(AfterWrites, p) EXCEPT !.suppress_nmi_flag = FALSE]
  /\ cpu' = [cpu EXCEPT
               !.delay_nmi = @ \/ (/\ Flushing(before)
                                   /\ RequestsNmi(before, before.buffer.address,
                                                  before.buffer.value))]
  /\ turn' = (turn + 1) % 4
  /\ UNCHANGED dma_cycles_left

-----------------------------------------------------------------------------
Next == ClockCpu \/ ClockPpu

(* The game loop of main calls clock_all_units until the user quits.        *)
Spec == Init /\ [][Next]_vars

FairSpec == Spec /\ WF_vars(Next)

-----------------------------------------------------------------------------
(* PROPERTIES *)

(* The single write buffer is never needed twice: when the CPU is clocked,  *)
(* every delayed register write has been flushed by the three dots since,   *)
(* except one to $2001, which has two dots left.                            *)
WriteBufferDrained ==
  turn = 0 /\ io.buffer.on => io.buffer.address = "mask" /\ io.buffer.counter = 2

(* The write still in the buffer is replaced only by the second write of a  *)
(* read-modify-write instruction on the same register.                      *)
BufferedWriteNotLost ==
  [][ io.buffer.on /\ io'.buffer # io.buffer /\ turn = 0
        => io'.buffer.address = io.buffer.address ]_vars

(* The CPU's latch process_interrupt is set only while the PPU's request    *)
(* stands, or while the message that it was withdrawn is still under way:   *)
(* no NMI is serviced that the PPU has taken back.                          *)
NoServiceOfWithdrawnNmi ==
  cpu.process_interrupt => io.nmi_pending \/ io.ignore_nmi

(* An NMI sequence that has begun runs its seven clocks: neither a DMA, nor *)
(* a suppression, nor a delay comes in between.                             *)
NmiSequenceUnbroken ==
  turn = 0 /\ io.nmi_cycles_left < 7 => cpu.state = "FETCH" /\ TakesNmi

(* No NMI and no opcode fetch comes in between the clocks of a DMA.         *)
DmaSequenceUnbroken ==
  dma_cycles_left # DmaIdle =>
    /\ cpu.state = "FETCH" /\ io.dma_pending
    /\ ~cpu.process_interrupt \/ cpu.delay_nmi

(* The copying clocks of a DMA stay in step with the CPU's cycles: execute_ *)
(* DMA writes a byte, leaving an odd count, on even cycles only.            *)
DmaWritesOnEvenCycles ==
  dma_cycles_left < DmaIdle - 1 => (dma_cycles_left + cpu.cycle) % 2 = 1

(* The VBlank flag is seen from the end of the picture to the first dot of  *)
(* the pre-render scanline, whatever is read and written meanwhile.         *)
VBlankWindow ==
  io.vblank => /\ ppu.scanline >= PostRender
               /\ ppu.scanline = PreRender => ppu.dot = 0

(* A requested NMI is serviced or withdrawn, a requested DMA carried out.   *)
NmiAnswered == io.nmi_pending ~> ~io.nmi_pending
DmaAnswered == io.dma_pending ~> ~io.dma_pending

-----------------------------------------------------------------------------
(* INDUCTIVE STRENGTHENINGS of the properties above *)

(* Where a buffered write stands before each of the four calls.             *)
BufferInv ==
  io.buffer.on =>
    LET mask == io.buffer.address = "mask"
        n == io.buffer.counter
    IN \/ turn = 0 /\ mask /\ n = 2
       \/ turn = 1 /\ (n = 2 \/ (mask /\ n = 5))
       \/ turn = 2 /\ (n = 1 \/ (mask /\ n = 4))
       \/ turn = 3 /\ mask /\ n = 3

(* The instruction that made a write to $2001 not yet three dots old has    *)
(* ended, or is a read-modify-write one between its two writes.             *)
WriterInv ==
  io.buffer.on /\ (turn = 0 \/ io.buffer.counter >= 3) =>
    \/ cpu.state = "FETCH"
    \/ /\ cpu.state = "DECODE" /\ DummyWrite(cpu.instr, cpu.remaining)
       /\ cpu.instr.reg = io.buffer.address

(* The parity of the DMA counter in its idle and its copying clocks.        *)
DmaInv ==
  /\ DmaSequenceUnbroken
  /\ DmaWritesOnEvenCycles
  /\ dma_cycles_left = DmaIdle - 1 => cpu.cycle % 2 = 1

ClockInv ==
  TypeOK /\ BufferInv /\ WriterInv /\ NoServiceOfWithdrawnNmi /\ DmaInv
=============================================================================
