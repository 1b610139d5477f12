--------------------------- MODULE ClockSyncProofs ---------------------------
(* Proofs about ClockSync and its history, for every geometry, every OAM    *)
(* size, and every program of the instructions of module Instructions.      *)
EXTENDS ClockSyncHistory, TLAPS

(* isa_info gives every decoder at most seven clocks.                       *)
LEMMA MaxCyclesBound == \A m \in Mode : MaxCycles[m] \in 0..7
  BY DEF Mode, MaxCycles

(* The fields of an instruction.                                            *)
LEMMA InstructionFields ==
  ASSUME NEW i \in Program \union {Reset}
  PROVE  /\ i.mode \in Mode /\ i.reg \in Register /\ i.dummy \in Register
         /\ i.val \in BOOLEAN
  <1>1. CASE i \in Program
    BY <1>1, ProgramAssumption DEF Instruction, InstructionRecord
  <1>2. CASE i = Reset
    BY <1>2 DEF Reset, Register, Mode, MaxCycles
  <1> QED BY <1>1, <1>2

LEMMA DummyReadRegister ==
  ASSUME NEW i \in Program \union {Reset}, NEW r \in Nat
  PROVE  DummyRead(i, r) \in Register
  BY InstructionFields DEF DummyRead, Register

-----------------------------------------------------------------------------
(* THE REGISTER OPERATIONS KEEP THE TYPE OF struct CpuPpuShare *)

LEMMA ReadRegisterType ==
  ASSUME NEW s \in IoType, NEW reg \in Register
  PROVE  ReadRegister(s, reg) \in IoType
  BY DEF ReadRegister, read_2002, IoType

LEMMA BufferUpdateType ==
  ASSUME NEW s \in IoType, NEW b \in Buffer
  PROVE  [s EXCEPT !.buffer = b] \in IoType
  BY DEF IoType

LEMMA WriteRegisterType ==
  ASSUME NEW s \in IoType, NEW reg \in Register, NEW val \in BOOLEAN
  PROVE  WriteRegister(s, reg, val) \in IoType
  <1>1. CASE reg \in PpuRegister
    <2> DEFINE b == [ on |-> TRUE, counter |-> IF reg = "mask" THEN 5 ELSE 2,
                      address |-> reg, value |-> val ]
    <2>1. b \in Buffer
      BY <1>1 DEF Buffer
    <2> QED BY <1>1, <2>1, BufferUpdateType DEF WriteRegister, delay_write_ppu_reg, WriteDelay
  <1>2. CASE reg \notin PpuRegister
    BY <1>2 DEF WriteRegister, IoType
  <1> QED BY <1>1, <1>2

LEMMA write_ppu_regType ==
  ASSUME NEW s \in IoType, NEW reg \in PpuRegister, NEW val \in BOOLEAN
  PROVE  write_ppu_reg(s, reg, val) \in IoType
  <1>1. CASE reg = "ctrl"
    <2> DEFINE p == s.nmi_pending \/ (s.vblank /\ ~s.nmi_enabled /\ val)
    <2>1. p \in BOOLEAN
      BY DEF IoType
    <2>2. [s EXCEPT !.nmi_enabled = val, !.nmi_pending = p] \in IoType
      <3> HIDE DEF p
      <3> QED BY <2>1 DEF IoType
    <2> QED BY <1>1, <2>2 DEF write_ppu_reg
  <1>2. CASE reg # "ctrl"
    BY <1>2 DEF write_ppu_reg, IoType
  <1> QED BY <1>1, <1>2

LEMMA NextCycleType == \A c \in 0..CycleTop : NextCycle(c) \in 0..CycleTop
  BY ClockAssumption DEF NextCycle

LEMMA TickType ==
  ASSUME TypeOK
  PROVE  CpuTick \in CpuType /\ IoTick \in IoType
  <1>1. NextCycle(cpu.cycle) \in 0..CycleTop
    BY NextCycleType DEF TypeOK, CpuType
  <1> DEFINE p == cpu.process_interrupt /\ ~io.ignore_nmi
             r == IF cpu.remaining > 0 THEN cpu.remaining - 1 ELSE 0
  <1>2. p \in BOOLEAN /\ r \in 0..7
    BY DEF TypeOK, CpuType, IoType
  <1>3. CpuTick \in CpuType
    <2>1. CpuTick = [cpu EXCEPT !.cycle = NextCycle(cpu.cycle), !.remaining = r,
                                !.process_interrupt = p]
      BY DEF CpuTick, TypeOK, CpuType
    <2> HIDE DEF p, r
    <2> QED BY <1>1, <1>2, <2>1 DEF TypeOK, CpuType
  <1>4. IoTick \in IoType
    BY DEF TypeOK, IoTick, IoType
  <1> QED BY <1>3, <1>4

LEMMA AfterExecuteType ==
  ASSUME TypeOK, NEW s \in IoType
  PROVE  AfterExecute(s) \in IoType
  <1> DEFINE i == cpu.instr
             read == IF i.op \in {"read", "modify"} THEN ReadRegister(s, i.reg) ELSE s
  <1>1. i.reg \in Register /\ i.val \in BOOLEAN
    BY InstructionFields DEF TypeOK, CpuType
  <1>2. read \in IoType
    BY <1>1, ReadRegisterType
  <1>3. WriteRegister(read, i.reg, i.val) \in IoType
    BY <1>1, <1>2, WriteRegisterType
  <1> QED BY <1>2, <1>3 DEF AfterExecute

LEMMA AfterDecodeType ==
  ASSUME TypeOK, NEW s \in IoType
  PROVE  AfterDummyWrite(AfterDummyRead(s)) \in IoType
  <1>1. CpuTick.remaining \in Nat
    BY TickType DEF CpuType
  <1>2. cpu.instr \in Program \union {Reset}
    BY DEF TypeOK, CpuType
  <1>3. AfterDummyRead(s) \in IoType
    BY <1>1, <1>2, DummyReadRegister, ReadRegisterType DEF AfterDummyRead
  <1>4. WriteRegister(AfterDummyRead(s), cpu.instr.reg, FALSE) \in IoType
    BY <1>2, <1>3, InstructionFields, WriteRegisterType
  <1> QED BY <1>3, <1>4 DEF AfterDummyWrite

-----------------------------------------------------------------------------
(* A CLOCK OF THE PPU KEEPS THE TYPES *)

LEMMA PpuGeometry ==
  /\ LastDot \in Nat /\ LastDot >= 6 /\ PreRender \in Nat
  /\ \A d \in 0..LastDot : d < LastDot => d + 1 \in 0..LastDot
  /\ \A l \in 0..PreRender : l < PreRender => l + 1 \in 0..PreRender
  /\ 0 \in 0..LastDot /\ 0 \in 0..PreRender
  BY GeometryAssumption

LEMMA AdvanceDotType ==
  ASSUME NEW p \in PpuType
  PROVE  AdvanceDot(p) \in PpuType /\ AdvanceDot(p).warmup = p.warmup
  <1>1. CASE p.dot < LastDot
    BY <1>1, PpuGeometry DEF AdvanceDot, PpuType
  <1>2. CASE ~(p.dot < LastDot)
    <2> DEFINE o == IF p.scanline = PreRender THEN ~p.odd_frame ELSE p.odd_frame
               l == IF p.scanline < PreRender THEN p.scanline + 1 ELSE 0
    <2>1. o \in BOOLEAN
      BY DEF PpuType
    <2>2. l \in 0..PreRender
      BY PpuGeometry DEF PpuType
    <2>3. AdvanceDot(p) = [p EXCEPT !.dot = 0, !.scanline = l, !.odd_frame = o]
      BY <1>2 DEF AdvanceDot, PpuType
    <2> HIDE DEF o, l
    <2> QED BY <2>1, <2>2, <2>3, PpuGeometry DEF PpuType
  <1> QED BY <1>1, <1>2

LEMMA CountWarmupType ==
  ASSUME NEW p \in PpuType
  PROVE  CountWarmup(p) \in PpuType
  <1>1. WarmupDue(p) => p.warmup + 1 \in 0..3
    BY DEF WarmupDue, PpuType
  <1> QED BY <1>1 DEF CountWarmup, PpuType

LEMMA OddFrameSkipType ==
  ASSUME NEW p \in PpuType, NEW s
  PROVE  OddFrameSkip(p, s) \in PpuType
  <1>1. p.dot = LastDot - 1 => p.dot + 1 \in 0..LastDot
    BY PpuGeometry
  <1> QED BY <1>1 DEF OddFrameSkip, PpuType

LEMMA AfterWarmupType ==
  ASSUME NEW s \in IoType, NEW p \in PpuType
  PROVE  AfterWarmup(s, p) \in IoType
  <1> DEFINE v == p.warmup > 0
  <1>1. v \in BOOLEAN
    OBVIOUS
  <1>2. [s EXCEPT !.vblank = v] \in IoType
    <2> HIDE DEF v
    <2> QED BY <1>1 DEF IoType
  <1> QED BY <1>2 DEF AfterWarmup

LEMMA AfterBufferedWriteType ==
  ASSUME NEW s \in IoType
  PROVE  AfterBufferedWrite(s) \in IoType
  <1>1. CASE ~s.buffer.on
    BY <1>1 DEF AfterBufferedWrite
  <1>2. CASE s.buffer.on /\ Flushing(s)
    <2> DEFINE w == write_ppu_reg(s, s.buffer.address, s.buffer.value)
    <2>1. w \in IoType
      BY write_ppu_regType DEF IoType, Buffer
    <2>2. NoWrite \in Buffer
      BY DEF NoWrite, Buffer, PpuRegister
    <2>3. [w EXCEPT !.buffer = NoWrite, !.bg_early_enable_mask = FALSE,
                    !.bg_early_disable_mask = FALSE] \in IoType
      <3> HIDE DEF w
      <3> QED BY <2>1, <2>2 DEF IoType
    <2> QED BY <1>2, <2>3 DEF AfterBufferedWrite, Flushed
  <1>3. CASE s.buffer.on /\ ~Flushing(s)
    <2> DEFINE announce == s.buffer.address = "mask" /\ s.buffer.counter = 4
               b == [s.buffer EXCEPT !.counter = @ - 1]
               e == s.bg_early_enable_mask \/ (announce /\ s.buffer.value)
               d == s.bg_early_disable_mask \/ (announce /\ ~s.buffer.value)
    <2>1. e \in BOOLEAN /\ d \in BOOLEAN
      BY DEF IoType
    <2>2. b \in Buffer
      BY <1>3 DEF Flushing, IoType, Buffer
    <2>3. AfterBufferedWrite(s) = [s EXCEPT !.buffer = b, !.bg_early_enable_mask = e,
                                            !.bg_early_disable_mask = d]
      BY <1>3 DEF AfterBufferedWrite, IoType
    <2> HIDE DEF b, e, d
    <2> QED BY <2>1, <2>2, <2>3 DEF IoType
  <1> QED BY <1>1, <1>2, <1>3

LEMMA VBlankAndNmiType ==
  ASSUME NEW s \in IoType, NEW p \in PpuType
  PROVE  VBlankAndNmi(s, p) \in IoType
  <1>1. ASSUME NEW a \in BOOLEAN, NEW b \in BOOLEAN
        PROVE  [s EXCEPT !.nmi_pending = a, !.ignore_nmi = b] \in IoType
    BY DEF IoType
  <1>2. ASSUME NEW t \in IoType, NEW c \in BOOLEAN, NEW d \in BOOLEAN, NEW e \in BOOLEAN
        PROVE  [t EXCEPT !.vblank = c, !.nmi_lookahead = d, !.clear_status = e]
                 \in IoType
    BY DEF IoType
  <1>3. OnNmiScanline(s, p.dot) \in IoType
    <2> DEFINE requested == s.nmi_pending \/ (s.nmi_enabled /\ p.dot = 1)
               suppressed == \/ s.ignore_nmi
                             \/ s.nmi_enabled /\ s.suppress_nmi_flag /\ p.dot \in SuppressionDots
               withdrawn == ~s.nmi_enabled /\ requested /\ ~suppressed /\ p.dot < 5
               a == requested /\ ~suppressed /\ ~withdrawn
               b == suppressed \/ withdrawn
               c == (s.vblank \/ p.dot = 0)
                      /\ ~(s.suppress_nmi_flag /\ cpu.cycle % 3 = 0)
               d == p.dot = 0 \/ (s.nmi_enabled /\ p.dot \in {1, 2})
               e == p.dot = 0
               t == [s EXCEPT !.nmi_pending = a, !.ignore_nmi = b]
    <2>1. /\ a \in BOOLEAN /\ b \in BOOLEAN /\ c \in BOOLEAN
          /\ d \in BOOLEAN /\ e \in BOOLEAN
      BY DEF IoType
    <2>2. OnNmiScanline(s, p.dot) =
            [t EXCEPT !.vblank = c, !.nmi_lookahead = d, !.clear_status = e]
      BY DEF OnNmiScanline, IoType
    <2> HIDE DEF a, b, c, d, e
    <2>3. t \in IoType
      BY <1>1, <2>1
    <2> HIDE DEF t
    <2> QED BY <1>2, <2>1, <2>2, <2>3
  <1>4. CASE p.scanline # nmi_start
    <2> DEFINE c == s.vblank /\ ~VBlankEnds(p)
               d == p.scanline = PostRender /\ p.dot = LastDot
               e == p.scanline = PostRender /\ p.dot = LastDot - 1
    <2>1. c \in BOOLEAN /\ d \in BOOLEAN /\ e \in BOOLEAN
      BY DEF IoType
    <2>2. VBlankAndNmi(s, p) =
            [s EXCEPT !.vblank = c, !.nmi_lookahead = d, !.clear_status = e]
      BY <1>4 DEF VBlankAndNmi
    <2> HIDE DEF c, d, e
    <2> QED BY <1>2, <2>1, <2>2
  <1> QED BY <1>3, <1>4 DEF VBlankAndNmi

-----------------------------------------------------------------------------
(* TYPE CORRECTNESS *)

LEMMA InitType == Init => TypeOK
  <1> SUFFICES ASSUME Init PROVE TypeOK
    OBVIOUS
  <1>1. cpu \in CpuType
    BY ClockAssumption DEF Init, CpuInit, CpuType
  <1>2. ppu \in PpuType
    BY GeometryAssumption DEF Init, PpuInit, PpuType
  <1>3. NoWrite \in Buffer
    BY DEF NoWrite, Buffer, PpuRegister
  <1>4. io \in IoType
    BY <1>3 DEF Init, IoInit, IoType
  <1>5. dma_cycles_left \in 1..DmaIdle /\ turn \in 0..3
    BY ClockAssumption DEF Init, DmaIdle
  <1> QED BY <1>1, <1>2, <1>4, <1>5 DEF TypeOK

LEMMA ExecuteNmiType == TypeOK /\ ExecuteNmi => TypeOK'
  <1> SUFFICES ASSUME TypeOK, ExecuteNmi PROVE TypeOK'
    OBVIOUS
  <1> DEFINE p == IoTick.nmi_pending /\ ~NmiEnds
             n == NmiCyclesAfter
  <1>1. cpu' \in CpuType
    BY TickType DEF ExecuteNmi, CpuType, NmiEnds
  <1>2. IoTick \in IoType /\ p \in BOOLEAN
    BY TickType DEF IoType
  <1>3. n \in 1..7
    BY DEF NmiCyclesAfter, TypeOK, IoType
  <1>4. io' = [IoTick EXCEPT !.nmi_pending = p, !.nmi_cycles_left = n]
    BY DEF ExecuteNmi
  <1> HIDE DEF p, n
  <1>5. io' \in IoType
    BY <1>2, <1>3, <1>4 DEF IoType
  <1> QED BY <1>1, <1>5 DEF ExecuteNmi, TypeOK

LEMMA ExecuteDmaType == TypeOK /\ ExecuteDma => TypeOK'
  <1> SUFFICES ASSUME TypeOK, ExecuteDma PROVE TypeOK'
    OBVIOUS
  <1>1. cpu' \in CpuType
    BY TickType DEF ExecuteDma
  <1>2. io' \in IoType
    BY TickType DEF ExecuteDma, IoType
  <1>3. dma_cycles_left' \in 1..DmaIdle
    BY ClockAssumption
    DEF ExecuteDma, TypeOK, DmaNext, DmaIdled, DmaAligned, DmaIdle
  <1> QED BY <1>1, <1>2, <1>3 DEF ExecuteDma, TypeOK

LEMMA FetchOpcodeType == TypeOK /\ FetchOpcode => TypeOK'
  <1> SUFFICES ASSUME TypeOK, FetchOpcode PROVE TypeOK'
    OBVIOUS
  <1>1. PICK i \in Program :
          cpu' = [CpuTick EXCEPT !.state = "DECODE", !.instr = i,
                                 !.remaining = MaxCycles[i.mode],
                                 !.delay_nmi = FALSE]
    BY DEF FetchOpcode, Fetched
  <1>2. MaxCycles[i.mode] \in 0..7
    BY InstructionFields, MaxCyclesBound
  <1>3. cpu' \in CpuType
    BY <1>1, <1>2, TickType DEF CpuType
  <1> QED BY <1>3, TickType DEF FetchOpcode, TypeOK

LEMMA DecodeType == TypeOK /\ Decode => TypeOK'
  BY TickType, AfterDecodeType DEF Decode, TypeOK

LEMMA ExecuteType == TypeOK /\ Execute => TypeOK'
  <1> SUFFICES ASSUME TypeOK, Execute PROVE TypeOK'
    OBVIOUS
  <1> DEFINE i == cpu.instr
             left == CpuTick.remaining
             ignore_fetch == cpu.state = "DECODE" /\ i.mode = "ABS_JMP"
             after == AfterExecute(IoTick)
             st == IF StaysInExecute(i, left) THEN "EXECUTE" ELSE "FETCH"
             r == IF StaysInExecute(i, left) THEN left ELSE 0
             p == CpuTick.process_interrupt \/ after.nmi_pending
             d == IF after.nmi_lookahead THEN ~ignore_fetch ELSE CpuTick.delay_nmi
  <1>1. after \in IoType
    BY TickType, AfterExecuteType
  <1>2. r \in 0..7 /\ p \in BOOLEAN /\ d \in BOOLEAN
    <2>1. left \in 0..7 /\ CpuTick.delay_nmi \in BOOLEAN
      BY TickType DEF CpuType
    <2>2. r \in 0..7
      BY <2>1
    <2>3. d \in BOOLEAN
      BY <2>1
    <2> QED BY <2>2, <2>3
  <1>3. cpu' = [CpuTick EXCEPT !.state = st, !.remaining = r,
                               !.process_interrupt = p, !.delay_nmi = d]
    BY TickType DEF Execute, CpuType
  <1>4. st \in {"FETCH", "DECODE", "EXECUTE"}
    OBVIOUS
  <1>5. cpu' \in CpuType
    <2> HIDE DEF st, r, p, d
    <2> QED BY <1>2, <1>3, <1>4, TickType DEF CpuType
  <1>6. io' \in IoType
    BY <1>1 DEF Execute
  <1> QED BY <1>5, <1>6 DEF Execute, TypeOK

LEMMA ClockPpuType == TypeOK /\ ClockPpu => TypeOK'
  <1> SUFFICES ASSUME TypeOK, ClockPpu PROVE TypeOK'
    OBVIOUS
  <1>1. AfterWarmup(io, ppu) \in IoType
    BY AfterWarmupType DEF TypeOK
  <1>2. AfterWrites \in IoType
    BY <1>1, AfterBufferedWriteType DEF AfterWrites
  <1>3. ppu' \in PpuType
    BY AdvanceDotType, CountWarmupType, OddFrameSkipType DEF ClockPpu, NextDot, TypeOK
  <1>4. VBlankAndNmi(AfterWrites, ppu') \in IoType
    BY <1>2, <1>3, VBlankAndNmiType
  <1>5. io' \in IoType
    BY <1>4 DEF ClockPpu, IoType
  <1>6. cpu' \in CpuType
    <2> DEFINE before == AfterWarmup(io, ppu)
               d == cpu.delay_nmi \/ (/\ Flushing(before)
                                      /\ RequestsNmi(before, before.buffer.address,
                                                     before.buffer.value))
    <2>1. d \in BOOLEAN
      BY DEF TypeOK, CpuType
    <2>2. cpu' = [cpu EXCEPT !.delay_nmi = d]
      BY DEF ClockPpu
    <2> HIDE DEF d
    <2> QED BY <2>1, <2>2 DEF TypeOK, CpuType
  <1>7. turn' \in 0..3
    BY DEF ClockPpu, TypeOK
  <1> QED BY <1>3, <1>5, <1>6, <1>7 DEF ClockPpu, TypeOK

LEMMA NextType == TypeOK /\ [Next]_vars => TypeOK'
  <1> SUFFICES ASSUME TypeOK, [Next]_vars PROVE TypeOK'
    OBVIOUS
  <1>1. CASE ExecuteNmi
    BY <1>1, ExecuteNmiType
  <1>2. CASE ExecuteDma
    BY <1>2, ExecuteDmaType
  <1>3. CASE FetchOpcode
    BY <1>3, FetchOpcodeType
  <1>4. CASE Decode
    BY <1>4, DecodeType
  <1>5. CASE Execute
    BY <1>5, ExecuteType
  <1>6. CASE ClockPpu
    BY <1>6, ClockPpuType
  <1>7. CASE UNCHANGED vars
    BY <1>7 DEF vars, TypeOK
  <1> QED BY <1>1, <1>2, <1>3, <1>4, <1>5, <1>6, <1>7 DEF Next, ClockCpu

(* Every variable keeps its type: among other things, the dot never leaves  *)
(* the scanline, nmi_cycles_left never leaves 1..7, and the DMA counter and *)
(* the write counter never reach 0 between two clocks.                      *)
THEOREM TypeCorrect == Spec => []TypeOK
  <1> QED BY InitType, NextType, PTL DEF Spec

-----------------------------------------------------------------------------
(* THE REGISTER OPERATIONS, FIELD BY FIELD *)

(* A read leaves the buffer, the requests and their withdrawal alone.       *)
LEMMA ReadRegisterFields ==
  ASSUME NEW s \in IoType, NEW reg \in Register
  PROVE  /\ ReadRegister(s, reg).buffer = s.buffer
         /\ ReadRegister(s, reg).nmi_pending = s.nmi_pending
         /\ ReadRegister(s, reg).ignore_nmi = s.ignore_nmi
         /\ ReadRegister(s, reg).dma_pending = s.dma_pending
  BY DEF ReadRegister, read_2002, IoType

(* A write puts itself into the buffer or leaves it alone.                  *)
LEMMA WriteRegisterFields ==
  ASSUME NEW s \in IoType, NEW reg \in Register, NEW val \in BOOLEAN
  PROVE  LET w == WriteRegister(s, reg, val)
         IN  /\ w.nmi_pending = s.nmi_pending
             /\ w.ignore_nmi = s.ignore_nmi
             /\ s.dma_pending => w.dma_pending
             /\ reg \notin PpuRegister => w.buffer = s.buffer
             /\ reg \in PpuRegister =>
                  /\ w.buffer.on /\ w.buffer.address = reg
                  /\ w.buffer.counter = IF reg = "mask" THEN 5 ELSE 2
  BY DEF WriteRegister, delay_write_ppu_reg, WriteDelay, IoType

LEMMA TickFields ==
  ASSUME TypeOK
  PROVE  /\ CpuTick.state = cpu.state /\ CpuTick.instr = cpu.instr
         /\ CpuTick.delay_nmi = cpu.delay_nmi
         /\ CpuTick.process_interrupt <=> cpu.process_interrupt /\ ~io.ignore_nmi
         /\ CpuTick.cycle = NextCycle(cpu.cycle)
         /\ CpuTick.remaining = IF cpu.remaining > 0 THEN cpu.remaining - 1 ELSE 0
         /\ IoTick.buffer = io.buffer /\ ~IoTick.ignore_nmi
         /\ IoTick.nmi_pending = io.nmi_pending
         /\ IoTick.dma_pending = io.dma_pending
  BY DEF TypeOK, CpuType, IoType, CpuTick, IoTick

(* What an execute function leaves of the shared flags.                     *)
LEMMA AfterExecuteFields ==
  ASSUME TypeOK
  PROVE  LET a == AfterExecute(IoTick)
             i == cpu.instr
         IN  /\ a.nmi_pending = io.nmi_pending
             /\ ~a.ignore_nmi
             /\ \/ a.buffer = io.buffer
                \/ /\ i.op \in {"write", "modify"} /\ i.reg \in PpuRegister
                   /\ a.buffer.on /\ a.buffer.address = i.reg
                   /\ a.buffer.counter = IF i.reg = "mask" THEN 5 ELSE 2
  <1> DEFINE i == cpu.instr
             read == IF i.op \in {"read", "modify"} THEN ReadRegister(IoTick, i.reg)
                     ELSE IoTick
             w == WriteRegister(read, i.reg, i.val)
  <1>1. i.reg \in Register /\ i.val \in BOOLEAN
    BY InstructionFields DEF TypeOK, CpuType
  <1>2. IoTick \in IoType
    BY TickType
  <1>3. /\ read \in IoType /\ read.buffer = io.buffer
        /\ read.nmi_pending = io.nmi_pending /\ ~read.ignore_nmi
    BY <1>1, <1>2, ReadRegisterType, ReadRegisterFields, TickFields
  <1>4. AfterExecute(IoTick) = IF i.op \in {"write", "modify"} THEN w ELSE read
    BY DEF AfterExecute
  <1>5. /\ w.nmi_pending = read.nmi_pending
        /\ w.ignore_nmi = read.ignore_nmi
        /\ i.reg \notin PpuRegister => w.buffer = read.buffer
        /\ i.reg \in PpuRegister =>
             /\ w.buffer.on /\ w.buffer.address = i.reg
             /\ w.buffer.counter = IF i.reg = "mask" THEN 5 ELSE 2
    <2> HIDE DEF read, i
    <2> QED BY <1>1, <1>3, WriteRegisterFields
  <1> HIDE DEF read, w
  <1> QED BY <1>3, <1>4, <1>5

(* ... and what a clock of a decode function leaves of them.                *)
LEMMA AfterDecodeFields ==
  ASSUME TypeOK
  PROVE  LET a == AfterDummyWrite(AfterDummyRead(IoTick))
             i == cpu.instr
         IN  /\ a.nmi_pending = io.nmi_pending
             /\ ~a.ignore_nmi
             /\ \/ a.buffer = io.buffer
                \/ /\ DummyWrite(i, CpuTick.remaining) /\ i.reg \in PpuRegister
                   /\ a.buffer.on /\ a.buffer.address = i.reg
                   /\ a.buffer.counter = IF i.reg = "mask" THEN 5 ELSE 2
  <1> DEFINE i == cpu.instr
             read == AfterDummyRead(IoTick)
             v == FALSE
             w == WriteRegister(read, i.reg, v)
  <1>1. i \in Program \union {Reset} /\ CpuTick.remaining \in Nat
    BY TickType DEF TypeOK, CpuType
  <1>2. i.reg \in Register
    BY <1>1, InstructionFields
  <1>3. /\ read \in IoType /\ read.buffer = io.buffer
        /\ read.nmi_pending = io.nmi_pending /\ ~read.ignore_nmi
    BY <1>1, DummyReadRegister, ReadRegisterType, ReadRegisterFields,
       TickType, TickFields DEF AfterDummyRead
  <1>4. AfterDummyWrite(read) =
          IF DummyWrite(i, CpuTick.remaining) THEN w ELSE read
    BY DEF AfterDummyWrite
  <1>5. /\ w.nmi_pending = read.nmi_pending
        /\ w.ignore_nmi = read.ignore_nmi
        /\ i.reg \notin PpuRegister => w.buffer = read.buffer
        /\ i.reg \in PpuRegister =>
             /\ w.buffer.on /\ w.buffer.address = i.reg
             /\ w.buffer.counter = IF i.reg = "mask" THEN 5 ELSE 2
    <2>1. v \in BOOLEAN
      OBVIOUS
    <2> HIDE DEF read, i, v
    <2> QED BY <1>2, <1>3, <2>1, WriteRegisterFields
  <1> HIDE DEF w
  <1> QED BY <1>3, <1>4, <1>5

-----------------------------------------------------------------------------
(* A CLOCK OF THE PPU, FIELD BY FIELD *)

LEMMA AfterWarmupFields ==
  ASSUME NEW s \in IoType, NEW p \in PpuType
  PROVE  /\ AfterWarmup(s, p).buffer = s.buffer
         /\ AfterWarmup(s, p).nmi_pending = s.nmi_pending
         /\ AfterWarmup(s, p).ignore_nmi = s.ignore_nmi
         /\ AfterWarmup(s, p).dma_pending = s.dma_pending
  BY DEF AfterWarmup, IoType

LEMMA write_ppu_regFields ==
  ASSUME NEW s \in IoType, NEW reg \in PpuRegister, NEW val \in BOOLEAN
  PROVE  /\ s.nmi_pending => write_ppu_reg(s, reg, val).nmi_pending
         /\ write_ppu_reg(s, reg, val).ignore_nmi = s.ignore_nmi
         /\ write_ppu_reg(s, reg, val).dma_pending = s.dma_pending
         /\ write_ppu_reg(s, reg, val).vblank = s.vblank
  BY DEF write_ppu_reg, IoType

(* The buffered write counts down, and is gone when it reaches 0.           *)
CountsDown(b, c) ==
  /\ ~b.on => c = b
  /\ b.on /\ b.counter = 1 => ~c.on
  /\ b.on /\ b.counter # 1 =>
       /\ c.on /\ c.counter = b.counter - 1
       /\ c.address = b.address /\ c.value = b.value

LEMMA AfterBufferedWriteFields ==
  ASSUME NEW s \in IoType
  PROVE  LET a == AfterBufferedWrite(s)
         IN  /\ CountsDown(s.buffer, a.buffer)
             /\ s.nmi_pending => a.nmi_pending
             /\ a.ignore_nmi = s.ignore_nmi
             /\ a.dma_pending = s.dma_pending
  <1>1. CASE ~s.buffer.on
    BY <1>1 DEF AfterBufferedWrite, CountsDown
  <1>2. CASE s.buffer.on /\ Flushing(s)
    <2> DEFINE w == write_ppu_reg(s, s.buffer.address, s.buffer.value)
    <2>1. s.buffer.address \in PpuRegister /\ s.buffer.value \in BOOLEAN
      BY DEF IoType, Buffer
    <2>2. /\ w \in IoType /\ w.ignore_nmi = s.ignore_nmi
          /\ w.dma_pending = s.dma_pending
          /\ s.nmi_pending => w.nmi_pending
      BY <2>1, write_ppu_regType, write_ppu_regFields
    <2>3. AfterBufferedWrite(s) =
            [w EXCEPT !.buffer = NoWrite, !.bg_early_enable_mask = FALSE,
                      !.bg_early_disable_mask = FALSE]
      BY <1>2 DEF AfterBufferedWrite, Flushed
    <2> HIDE DEF w
    <2> QED BY <1>2, <2>2, <2>3 DEF IoType, CountsDown, NoWrite, Flushing
  <1>3. CASE s.buffer.on /\ ~Flushing(s)
    BY <1>3 DEF AfterBufferedWrite, Flushing, CountsDown, IoType, Buffer
  <1> QED BY <1>1, <1>2, <1>3

(* A request is not forgotten without ignore_nmi saying so.                 *)
LEMMA VBlankAndNmiFields ==
  ASSUME NEW s \in IoType, NEW p \in PpuType
  PROVE  LET a == VBlankAndNmi(s, p)
         IN  /\ a.buffer = s.buffer
             /\ a.dma_pending = s.dma_pending
             /\ s.nmi_pending \/ s.ignore_nmi => a.nmi_pending \/ a.ignore_nmi
  <1>1. CASE p.scanline = nmi_start
    <2>1. VBlankAndNmi(s, p) = OnNmiScanline(s, p.dot)
      BY <1>1 DEF VBlankAndNmi
    <2>2. /\ OnNmiScanline(s, p.dot).buffer = s.buffer
          /\ OnNmiScanline(s, p.dot).dma_pending = s.dma_pending
      BY DEF OnNmiScanline, IoType
    <2>3. s.nmi_pending \/ s.ignore_nmi =>
            \/ OnNmiScanline(s, p.dot).nmi_pending
            \/ OnNmiScanline(s, p.dot).ignore_nmi
      BY DEF OnNmiScanline, IoType
    <2> QED BY <2>1, <2>2, <2>3
  <1>2. CASE p.scanline # nmi_start
    BY <1>2 DEF VBlankAndNmi, IoType
  <1> QED BY <1>1, <1>2

LEMMA ClockPpuFields ==
  ASSUME TypeOK, ClockPpu
  PROVE  /\ CountsDown(io.buffer, io'.buffer)
         /\ io'.dma_pending = io.dma_pending
         /\ io.nmi_pending \/ io.ignore_nmi => io'.nmi_pending \/ io'.ignore_nmi
         /\ cpu'.state = cpu.state /\ cpu'.instr = cpu.instr
         /\ cpu'.remaining = cpu.remaining /\ cpu'.cycle = cpu.cycle
         /\ cpu'.process_interrupt = cpu.process_interrupt
         /\ cpu.delay_nmi => cpu'.delay_nmi
  <1> DEFINE s1 == AfterWarmup(io, ppu)
             s2 == AfterWrites
             s3 == VBlankAndNmi(s2, ppu')
  <1>1. s1 \in IoType
    BY AfterWarmupType DEF TypeOK
  <1>2. /\ s1.buffer = io.buffer /\ s1.nmi_pending = io.nmi_pending
        /\ s1.ignore_nmi = io.ignore_nmi /\ s1.dma_pending = io.dma_pending
    BY AfterWarmupFields DEF TypeOK
  <1>3. s2 \in IoType
    BY <1>1, AfterBufferedWriteType DEF AfterWrites
  <1>4. /\ CountsDown(s1.buffer, s2.buffer)
        /\ s1.nmi_pending => s2.nmi_pending
        /\ s2.ignore_nmi = s1.ignore_nmi /\ s2.dma_pending = s1.dma_pending
    BY <1>1, AfterBufferedWriteFields DEF AfterWrites
  <1>5. ppu' \in PpuType
    BY ClockPpuType DEF TypeOK
  <1>6. /\ s3 \in IoType /\ s3.buffer = s2.buffer /\ s3.dma_pending = s2.dma_pending
        /\ s2.nmi_pending \/ s2.ignore_nmi => s3.nmi_pending \/ s3.ignore_nmi
    BY <1>3, <1>5, VBlankAndNmiType, VBlankAndNmiFields
  <1>7. io' = [s3 EXCEPT !.suppress_nmi_flag = FALSE]
    BY DEF ClockPpu
  <1>8. /\ io'.buffer = s3.buffer /\ io'.dma_pending = s3.dma_pending
        /\ io'.nmi_pending = s3.nmi_pending /\ io'.ignore_nmi = s3.ignore_nmi
    <2> HIDE DEF s3
    <2> QED BY <1>6, <1>7 DEF IoType
  <1>9. /\ CountsDown(io.buffer, io'.buffer)
        /\ io'.dma_pending = io.dma_pending
        /\ io.nmi_pending \/ io.ignore_nmi => io'.nmi_pending \/ io'.ignore_nmi
    <2> HIDE DEF s1, s2, s3
    <2> QED BY <1>2, <1>4, <1>6, <1>8
  <1>10. /\ cpu'.state = cpu.state /\ cpu'.instr = cpu.instr
         /\ cpu'.remaining = cpu.remaining /\ cpu'.cycle = cpu.cycle
         /\ cpu'.process_interrupt = cpu.process_interrupt
         /\ cpu.delay_nmi => cpu'.delay_nmi
    BY DEF ClockPpu, TypeOK, CpuType
  <1> QED BY <1>9, <1>10

-----------------------------------------------------------------------------
(* THE INVARIANTS, ACTION BY ACTION *)

LEMMA InitInv == Init => ClockInv
  <1> SUFFICES ASSUME Init PROVE ClockInv
    OBVIOUS
  <1>1. TypeOK
    BY InitType
  <1>2. BufferInv /\ WriterInv /\ NoServiceOfWithdrawnNmi
    BY DEF Init, IoInit, CpuInit, NoWrite, BufferInv, WriterInv,
           NoServiceOfWithdrawnNmi
  <1>3. DmaInv
    BY ClockAssumption
    DEF Init, DmaInv, DmaSequenceUnbroken, DmaWritesOnEvenCycles, DmaIdle
  <1> QED BY <1>1, <1>2, <1>3 DEF ClockInv

(* What one CPU clock that touches neither the buffer nor a request keeps.  *)
LEMMA QuietClock ==
  ASSUME ClockInv, turn = 0, turn' = 1, io'.buffer = io.buffer,
         io'.nmi_pending = io.nmi_pending,
         cpu'.process_interrupt => CpuTick.process_interrupt \/ io.nmi_pending
  PROVE  BufferInv' /\ NoServiceOfWithdrawnNmi'
  <1>1. BufferInv'
    BY DEF ClockInv, BufferInv
  <1>2. NoServiceOfWithdrawnNmi'
    BY TickFields DEF ClockInv, NoServiceOfWithdrawnNmi
  <1> QED BY <1>1, <1>2

LEMMA ExecuteNmiInv == ClockInv /\ ExecuteNmi => ClockInv'
  <1> SUFFICES ASSUME ClockInv, ExecuteNmi PROVE ClockInv'
    OBVIOUS
  <1>1. TypeOK /\ TypeOK'
    BY ExecuteNmiType DEF ClockInv
  <1>2. /\ io'.buffer = io.buffer /\ cpu'.state = "FETCH"
        /\ turn = 0 /\ turn' = 1
    BY <1>1, TickType, TickFields DEF ExecuteNmi, CpuType, IoType
  <1>3. BufferInv' /\ WriterInv'
    BY <1>2 DEF ClockInv, BufferInv, WriterInv
  <1>4. NoServiceOfWithdrawnNmi'
    <2>1. CpuTick.process_interrupt /\ cpu'.process_interrupt = ~NmiEnds
      BY TickType DEF ExecuteNmi, TakesNmi, CpuType
    <2>2. CASE NmiEnds
      BY <2>1, <2>2 DEF NoServiceOfWithdrawnNmi
    <2>3. CASE ~NmiEnds
      <3>1. io'.nmi_pending = io.nmi_pending
        BY <1>1, <2>3, TickType, TickFields DEF ExecuteNmi, IoType
      <3> QED BY <1>1, <1>2, <2>1, <3>1, QuietClock
    <2> QED BY <2>2, <2>3
  <1>5. DmaInv'
    <2>1. dma_cycles_left = DmaIdle
      BY <1>1, TickFields
      DEF ExecuteNmi, TakesNmi, ClockInv, DmaInv, DmaSequenceUnbroken
    <2>2. dma_cycles_left' = DmaIdle
      BY <2>1 DEF ExecuteNmi
    <2> QED BY <2>2, ClockAssumption
        DEF DmaInv, DmaSequenceUnbroken, DmaWritesOnEvenCycles, DmaIdle
  <1> QED BY <1>1, <1>3, <1>4, <1>5 DEF ClockInv

LEMMA ExecuteDmaInv == ClockInv /\ ExecuteDma => ClockInv'
  <1> SUFFICES ASSUME ClockInv, ExecuteDma PROVE ClockInv'
    OBVIOUS
  <1>1. TypeOK /\ TypeOK'
    BY ExecuteDmaType DEF ClockInv
  <1>2. /\ io'.buffer = io.buffer /\ io'.nmi_pending = io.nmi_pending
        /\ cpu' = CpuTick /\ cpu'.state = "FETCH"
        /\ turn = 0 /\ turn' = 1
    BY <1>1, TickType, TickFields DEF ExecuteDma, IoType
  <1>3. BufferInv' /\ WriterInv' /\ NoServiceOfWithdrawnNmi'
    BY <1>2, QuietClock DEF WriterInv
  <1>4. DmaSequenceUnbroken'
    <2>1. CASE DmaNext = 0
      BY <2>1 DEF ExecuteDma, DmaSequenceUnbroken, DmaIdle
    <2>2. CASE DmaNext # 0
      <3>1. io'.dma_pending
        BY <1>1, <2>2, TickFields DEF ExecuteDma
      <3>2. ~cpu'.process_interrupt \/ cpu'.delay_nmi
        BY <1>1, <1>2, TickFields DEF ExecuteDma, TakesNmi
      <3> QED BY <1>2, <3>1, <3>2 DEF DmaSequenceUnbroken
    <2> QED BY <2>1, <2>2
  <1>5. /\ cpu.cycle \in 0..CycleTop
        /\ cpu'.cycle % 2 = (cpu.cycle + 1) % 2
    BY <1>1, <1>2, TickFields, ClockAssumption DEF NextCycle, TypeOK, CpuType
  <1>6. /\ DmaWritesOnEvenCycles'
        /\ (dma_cycles_left = DmaIdle - 1 => cpu.cycle % 2 = 1)'
    <2> DEFINE c == cpu.cycle
               n == OamSize
               left == dma_cycles_left
    <2>1. /\ n \in Nat \ {0} /\ c \in Nat /\ left \in 1..(2 * n + 2)
          /\ cpu'.cycle \in Nat
      BY <1>1, <1>5, ClockAssumption DEF TypeOK, CpuType, DmaIdle
    <2>2. /\ left < 2 * n + 1 => (left + c) % 2 = 1
          /\ left = 2 * n + 1 => c % 2 = 1
      BY <2>1 DEF ClockInv, DmaInv, DmaWritesOnEvenCycles, DmaIdle
    <2>3. left' = IF DmaNext = 0 THEN DmaIdle ELSE DmaNext
      BY DEF ExecuteDma
    <2>4. /\ left = 2 * n + 2 /\ c % 2 = 1 => left' = 2 * n + 2
          /\ left = 2 * n + 2 /\ c % 2 = 0 => left' = 2 * n + 1
          /\ left = 2 * n + 1 => left' = 2 * n - 1
          /\ left < 2 * n + 1 => left' = IF left = 1 THEN 2 * n + 2 ELSE left - 1
      BY <2>1, <2>3 DEF DmaNext, DmaIdled, DmaAligned, DmaIdle
    <2>5. left' < 2 * n + 1 => (left' + cpu'.cycle) % 2 = 1
      BY <1>5, <2>1, <2>2, <2>4
    <2>6. left' = 2 * n + 1 => cpu'.cycle % 2 = 1
      BY <1>5, <2>1, <2>2, <2>4
    <2>7. (DmaIdle - 1)' = 2 * n + 1
      BY <2>1 DEF DmaIdle
    <2> QED BY <2>5, <2>6, <2>7 DEF DmaWritesOnEvenCycles, DmaIdle
  <1> QED BY <1>1, <1>3, <1>4, <1>6 DEF ClockInv, DmaInv

(* A DMA under way only ever sees ExecuteDma among the actions of the CPU.  *)
LEMMA NoDmaInv ==
  ASSUME DmaInv, dma_cycles_left' = dma_cycles_left,
         cpu.state # "FETCH" \/ ~io.dma_pending
  PROVE  DmaInv'
  <1>1. dma_cycles_left = DmaIdle /\ dma_cycles_left' = DmaIdle
    BY DEF DmaInv, DmaSequenceUnbroken
  <1> QED BY <1>1, ClockAssumption
      DEF DmaInv, DmaSequenceUnbroken, DmaWritesOnEvenCycles, DmaIdle

LEMMA FetchOpcodeInv == ClockInv /\ FetchOpcode => ClockInv'
  <1> SUFFICES ASSUME ClockInv, FetchOpcode PROVE ClockInv'
    OBVIOUS
  <1>1. TypeOK /\ TypeOK'
    BY FetchOpcodeType DEF ClockInv
  <1>2. cpu'.process_interrupt = CpuTick.process_interrupt
    BY <1>1, TickType DEF FetchOpcode, Fetched, CpuType
  <1>3. /\ io'.buffer = io.buffer /\ io'.nmi_pending = io.nmi_pending
        /\ turn = 0 /\ turn' = 1
    BY <1>1, TickFields DEF FetchOpcode
  <1>4. BufferInv' /\ NoServiceOfWithdrawnNmi'
    BY <1>2, <1>3, QuietClock
  <1>5. WriterInv'
    BY <1>3 DEF ClockInv, BufferInv, WriterInv
  <1>6. DmaInv'
    BY NoDmaInv DEF FetchOpcode, ClockInv
  <1> QED BY <1>1, <1>4, <1>5, <1>6 DEF ClockInv

LEMMA DecodeInv == ClockInv /\ Decode => ClockInv'
  <1> SUFFICES ASSUME ClockInv, Decode PROVE ClockInv'
    OBVIOUS
  <1>1. TypeOK /\ TypeOK'
    BY DecodeType DEF ClockInv
  <1>2. turn = 0 /\ turn' = 1 /\ cpu.state = "DECODE" /\ cpu' = CpuTick
    BY DEF Decode
  <1>3. /\ io'.nmi_pending = io.nmi_pending
        /\ \/ io'.buffer = io.buffer
           \/ /\ DummyWrite(cpu.instr, CpuTick.remaining)
              /\ io'.buffer.on /\ io'.buffer.address = cpu.instr.reg
              /\ io'.buffer.counter = IF cpu.instr.reg = "mask" THEN 5 ELSE 2
    BY <1>1, AfterDecodeFields DEF Decode
  <1>4. BufferInv'
    BY <1>2, <1>3 DEF ClockInv, BufferInv
  <1>5. WriterInv'
    <2>1. CASE io'.buffer = io.buffer
      BY <1>2, <2>1 DEF ClockInv, BufferInv, WriterInv
    <2>2. CASE io'.buffer # io.buffer
      BY <1>1, <1>2, <1>3, <2>2, TickFields DEF WriterInv
    <2> QED BY <2>1, <2>2
  <1>6. NoServiceOfWithdrawnNmi'
    BY <1>1, <1>2, <1>3, TickFields DEF ClockInv, NoServiceOfWithdrawnNmi
  <1>7. DmaInv'
    BY <1>2, NoDmaInv DEF Decode, ClockInv
  <1> QED BY <1>1, <1>4, <1>5, <1>6, <1>7 DEF ClockInv

(* Only an instruction that ends when it executes writes to a register.     *)
LEMMA WritersEnd ==
  ASSUME TypeOK, cpu.instr.op \in {"write", "modify"}
  PROVE  \A r : ~StaysInExecute(cpu.instr, r)
  <1>1. cpu.instr.mode \in LoadStoreMode \union RmwMode
    BY ProgramAssumption DEF TypeOK, CpuType, Reset, Instruction
  <1> QED BY <1>1 DEF StaysInExecute, Immediate, LoadStoreMode, RmwMode

LEMMA ExecuteInv == ClockInv /\ Execute => ClockInv'
  <1> SUFFICES ASSUME ClockInv, Execute PROVE ClockInv'
    OBVIOUS
  <1>1. TypeOK /\ TypeOK'
    BY ExecuteType DEF ClockInv
  <1>2. /\ turn = 0 /\ turn' = 1 /\ cpu.state # "FETCH"
        /\ io' = AfterExecute(IoTick)
    BY DEF Execute
  <1>3. /\ io'.nmi_pending = io.nmi_pending
        /\ \/ io'.buffer = io.buffer
           \/ /\ cpu.instr.op \in {"write", "modify"}
              /\ io'.buffer.on /\ io'.buffer.address = cpu.instr.reg
              /\ io'.buffer.counter = IF cpu.instr.reg = "mask" THEN 5 ELSE 2
    BY <1>1, <1>2, AfterExecuteFields
  <1>4. /\ cpu'.process_interrupt =>
             CpuTick.process_interrupt \/ io.nmi_pending
        /\ ~StaysInExecute(cpu.instr, CpuTick.remaining) => cpu'.state = "FETCH"
    BY <1>1, <1>2, <1>3, TickType DEF Execute, CpuType
  <1>5. BufferInv'
    BY <1>2, <1>3 DEF ClockInv, BufferInv
  <1>6. WriterInv'
    <2>1. CASE io'.buffer = io.buffer
      BY <1>2, <2>1 DEF ClockInv, BufferInv, WriterInv
    <2>2. CASE io'.buffer # io.buffer
      BY <1>1, <1>3, <1>4, <2>2, WritersEnd DEF WriterInv
    <2> QED BY <2>1, <2>2
  <1>7. NoServiceOfWithdrawnNmi'
    BY <1>1, <1>3, <1>4, TickFields DEF ClockInv, NoServiceOfWithdrawnNmi
  <1>8. DmaInv'
    BY <1>2, NoDmaInv DEF Execute, ClockInv
  <1> QED BY <1>1, <1>5, <1>6, <1>7, <1>8 DEF ClockInv

LEMMA ClockPpuInv == ClockInv /\ ClockPpu => ClockInv'
  <1> SUFFICES ASSUME ClockInv, ClockPpu PROVE ClockInv'
    OBVIOUS
  <1>1. TypeOK /\ TypeOK'
    BY ClockPpuType DEF ClockInv
  <1>2. turn \in 1..3 /\ turn' = (turn + 1) % 4
    BY DEF ClockPpu
  <1>3. CountsDown(io.buffer, io'.buffer)
    BY <1>1, ClockPpuFields
  <1>4. io.buffer.counter \in 1..6 /\ io'.buffer.counter \in 1..6
    BY <1>1 DEF TypeOK, IoType, Buffer
  <1>5. BufferInv'
    BY <1>2, <1>3, <1>4 DEF ClockInv, BufferInv, CountsDown
  <1>6. WriterInv'
    <2>1. cpu'.state = cpu.state /\ cpu'.instr = cpu.instr /\ cpu'.remaining = cpu.remaining
      BY <1>1, ClockPpuFields
    <2> QED BY <1>2, <1>3, <1>4, <2>1
        DEF ClockInv, BufferInv, WriterInv, CountsDown
  <1>7. NoServiceOfWithdrawnNmi'
    BY <1>1, ClockPpuFields DEF ClockInv, NoServiceOfWithdrawnNmi
  <1>8. DmaInv'
    BY <1>1, ClockPpuFields
    DEF ClockInv, ClockPpu, DmaInv, DmaSequenceUnbroken, DmaWritesOnEvenCycles, DmaIdle
  <1> QED BY <1>1, <1>5, <1>6, <1>7, <1>8 DEF ClockInv

LEMMA NextInv == ClockInv /\ [Next]_vars => ClockInv'
  <1> SUFFICES ASSUME ClockInv, [Next]_vars PROVE ClockInv'
    OBVIOUS
  <1>1. CASE ExecuteNmi
    BY <1>1, ExecuteNmiInv
  <1>2. CASE ExecuteDma
    BY <1>2, ExecuteDmaInv
  <1>3. CASE FetchOpcode
    BY <1>3, FetchOpcodeInv
  <1>4. CASE Decode
    BY <1>4, DecodeInv
  <1>5. CASE Execute
    BY <1>5, ExecuteInv
  <1>6. CASE ClockPpu
    BY <1>6, ClockPpuInv
  <1>7. CASE UNCHANGED vars
    BY <1>7 DEF vars, ClockInv, TypeOK, BufferInv, WriterInv, NoServiceOfWithdrawnNmi,
                DmaInv, DmaSequenceUnbroken, DmaWritesOnEvenCycles
  <1> QED BY <1>1, <1>2, <1>3, <1>4, <1>5, <1>6, <1>7 DEF Next, ClockCpu

(* The inductive invariant: the stage of the write in the buffer, who wrote *)
(* it, the NMI latch against the request, and the phase of the DMA.         *)
THEOREM ClockInvariant == Spec => []ClockInv
  <1> QED BY InitInv, NextInv, PTL DEF Spec

(* Whatever the program, at every clock of the CPU the write buffer is free *)
(* or holds a write to $2001 two dots from taking effect.                   *)
THEOREM BufferIsDrained == Spec => []WriteBufferDrained
  <1>1. ClockInv => WriteBufferDrained
    BY DEF ClockInv, BufferInv, WriteBufferDrained
  <1> QED BY <1>1, ClockInvariant, PTL

(* No NMI is serviced that the PPU withdrew: process_interrupt implies the  *)
(* request or the notice of its withdrawal.                                 *)
THEOREM WithdrawnNmiIsNotServiced == Spec => []NoServiceOfWithdrawnNmi
  <1>1. ClockInv => NoServiceOfWithdrawnNmi
    BY DEF ClockInv
  <1> QED BY <1>1, ClockInvariant, PTL

(* A DMA once begun is neither interrupted by an NMI nor by a fetch.        *)
THEOREM DmaIsNotInterrupted == Spec => []DmaSequenceUnbroken
  <1>1. ClockInv => DmaSequenceUnbroken
    BY DEF ClockInv, DmaInv
  <1> QED BY <1>1, ClockInvariant, PTL

(* Every byte of a DMA is copied on an even cycle, for every OAM size and   *)
(* whichever cycle the DMA was requested on.                                *)
THEOREM DmaKeepsParity == Spec => []DmaWritesOnEvenCycles
  <1>1. ClockInv => DmaWritesOnEvenCycles
    BY DEF ClockInv, DmaInv
  <1> QED BY <1>1, ClockInvariant, PTL

-----------------------------------------------------------------------------
(* THE WRITE IN THE BUFFER *)

(* An instruction writes after its fetch.                                   *)
LEMMA CpuKeepsBuffer ==
  ASSUME TypeOK, ClockCpu, cpu.state = "FETCH"
  PROVE  io'.buffer = io.buffer
<1>1. ExecuteNmi \/ ExecuteDma \/ FetchOpcode
  BY DEF ClockCpu, Decode, Execute
<1>2. IoTick \in IoType /\ IoTick.buffer = io.buffer
  BY TickType, TickFields
<1>3. CASE ExecuteNmi
  BY <1>2, <1>3 DEF ExecuteNmi, IoType
<1>4. CASE ExecuteDma
  BY <1>2, <1>4 DEF ExecuteDma, IoType
<1>5. CASE FetchOpcode
  BY <1>2, <1>5 DEF FetchOpcode
<1> QED BY <1>1, <1>3, <1>4, <1>5

(* The clock of the CPU that replaces a buffered write belongs to a read-   *)
(* modify-write instruction between its two writes.                         *)
LEMMA ReplacedBySameRegister ==
  ASSUME ClockInv, Next, turn = 0, io.buffer.on
  PROVE  io'.buffer.on /\ io'.buffer.address = io.buffer.address
<1>1. TypeOK
  BY DEF ClockInv
<1>2. CASE cpu.state = "FETCH"
  <2>1. ClockCpu
    BY DEF Next, ClockPpu
  <2> QED BY <1>1, <1>2, <2>1, CpuKeepsBuffer
<1>3. CASE cpu.state # "FETCH"
  <2>1. /\ cpu.state = "DECODE" /\ DummyWrite(cpu.instr, cpu.remaining)
        /\ cpu.instr.reg = io.buffer.address
    BY <1>3 DEF ClockInv, WriterInv
  <2>2. CpuTick.remaining = 1 /\ cpu.instr.mode \in {"ABS_rmw", "ABSX_rmw"}
    BY <1>1, <2>1, TickFields DEF DummyWrite
  <2>3. Executes(cpu.instr, CpuTick.remaining)
    BY <2>2 DEF Executes, LastCycle, Indexed
  <2>4. Execute
    BY <1>3, <2>1, <2>3
    DEF Next, ClockCpu, ExecuteNmi, ExecuteDma, FetchOpcode, Decode, ClockPpu
  <2>5. io' = AfterExecute(IoTick)
    BY <2>4 DEF Execute
  <2> QED BY <1>1, <2>1, <2>5, AfterExecuteFields
<1> QED BY <1>2, <1>3

(* No delayed write to a register is replaced by a write to another one,    *)
(* although there is a single buffer: the two writes a buffered $2001 can   *)
(* see are those of one read-modify-write instruction.                      *)
THEOREM NoBufferedWriteIsLost == Spec => BufferedWriteNotLost
  <1> DEFINE Kept == io.buffer.on /\ io'.buffer # io.buffer /\ turn = 0
                       => io'.buffer.address = io.buffer.address
  <1>1. ClockInv /\ [Next]_vars => [Kept]_vars
    BY ReplacedBySameRegister
  <1> QED BY <1>1, ClockInvariant, PTL DEF Spec, BufferedWriteNotLost

-----------------------------------------------------------------------------
(* THE EARLY FLAGS AND THE VBLANK FLAG *)

(* The registers leave the early flags alone, and none sets the VBlank flag *)
Unannounced(s, t) ==
  /\ t.bg_early_enable_mask = s.bg_early_enable_mask
  /\ t.bg_early_disable_mask = s.bg_early_disable_mask
  /\ t.vblank => s.vblank

LEMMA RegistersUnannounced ==
  ASSUME NEW s \in IoType, NEW reg \in Register, NEW val \in BOOLEAN
  PROVE  /\ Unannounced(s, ReadRegister(s, reg))
         /\ Unannounced(s, WriteRegister(s, reg, val))
  BY DEF Unannounced, ReadRegister, read_2002, WriteRegister, delay_write_ppu_reg, IoType

LEMMA ExecuteUnannounced ==
  ASSUME TypeOK
  PROVE  Unannounced(io, AfterExecute(IoTick))
  <1> DEFINE i == cpu.instr
             read == IF i.op \in {"read", "modify"} THEN ReadRegister(IoTick, i.reg)
                     ELSE IoTick
             w == WriteRegister(read, i.reg, i.val)
  <1>1. i.reg \in Register /\ i.val \in BOOLEAN
    BY InstructionFields DEF TypeOK, CpuType
  <1>2. IoTick \in IoType /\ Unannounced(io, IoTick)
    BY TickType DEF TypeOK, IoTick, IoType, Unannounced
  <1>3. read \in IoType /\ Unannounced(IoTick, read)
    BY <1>1, <1>2, ReadRegisterType, RegistersUnannounced DEF Unannounced
  <1>4. Unannounced(read, w)
    <2> HIDE DEF read
    <2> QED BY <1>1, <1>3, RegistersUnannounced
  <1>5. AfterExecute(IoTick) = IF i.op \in {"write", "modify"} THEN w ELSE read
    BY DEF AfterExecute
  <1> HIDE DEF read, w
  <1> QED BY <1>2, <1>3, <1>4, <1>5 DEF Unannounced

LEMMA DecodeUnannounced ==
  ASSUME TypeOK
  PROVE  Unannounced(io, AfterDummyWrite(AfterDummyRead(IoTick)))
  <1> DEFINE i == cpu.instr
             read == AfterDummyRead(IoTick)
             v == FALSE
             w == WriteRegister(read, i.reg, v)
  <1>1. i \in Program \union {Reset} /\ CpuTick.remaining \in Nat
    BY TickType DEF TypeOK, CpuType
  <1>2. i.reg \in Register /\ v \in BOOLEAN
    BY <1>1, InstructionFields
  <1>3. IoTick \in IoType /\ Unannounced(io, IoTick)
    BY TickType DEF TypeOK, IoTick, IoType, Unannounced
  <1>4. read \in IoType /\ Unannounced(IoTick, read)
    BY <1>1, <1>3, DummyReadRegister, ReadRegisterType, RegistersUnannounced DEF AfterDummyRead
  <1>5. AfterDummyWrite(read) =
          IF DummyWrite(i, CpuTick.remaining) THEN w ELSE read
    BY DEF AfterDummyWrite
  <1> HIDE DEF read, v
  <1>6. Unannounced(read, w)
    BY <1>2, <1>4, RegistersUnannounced
  <1> HIDE DEF w
  <1>7. Unannounced(io, AfterDummyWrite(read))
    BY <1>3, <1>4, <1>5, <1>6 DEF Unannounced
  <1> QED BY <1>7 DEF read

LEMMA ClockCpuUnannounced ==
  ASSUME TypeOK, ClockCpu
  PROVE  /\ turn = 0 /\ turn' = 1 /\ ppu' = ppu
         /\ cpu'.cycle = NextCycle(cpu.cycle)
         /\ Unannounced(io, io')
  <1>1. CpuTick \in CpuType /\ CpuTick.cycle = NextCycle(cpu.cycle)
    BY TickType, TickFields
  <1>2. IoTick \in IoType /\ Unannounced(io, IoTick)
    BY TickType DEF TypeOK, IoTick, IoType, Unannounced
  <1>3. CASE ExecuteNmi
    BY <1>1, <1>2, <1>3 DEF ExecuteNmi, CpuType, IoType, Unannounced
  <1>4. CASE ExecuteDma
    BY <1>1, <1>2, <1>4 DEF ExecuteDma, CpuType, IoType, Unannounced
  <1>5. CASE FetchOpcode
    BY <1>1, <1>2, <1>5 DEF FetchOpcode, Fetched, CpuType
  <1>6. CASE Decode
    BY <1>1, <1>6, DecodeUnannounced DEF Decode
  <1>7. CASE Execute
    BY <1>1, <1>7, ExecuteUnannounced DEF Execute, CpuType
  <1> QED BY <1>3, <1>4, <1>5, <1>6, <1>7 DEF ClockCpu

(* The early flags over a dot: they are left alone while the buffer is      *)
(* empty, set as the write counts down, and cleared when it is flushed.     *)
FlagsFollow(s, t) ==
  LET announce == s.buffer.address = "mask" /\ s.buffer.counter = 4
  IN  /\ ~s.buffer.on =>
           /\ t.bg_early_enable_mask <=> s.bg_early_enable_mask
           /\ t.bg_early_disable_mask <=> s.bg_early_disable_mask
      /\ s.buffer.on /\ s.buffer.counter = 1 =>
           ~t.bg_early_enable_mask /\ ~t.bg_early_disable_mask
      /\ s.buffer.on /\ s.buffer.counter # 1 =>
           /\ t.bg_early_enable_mask <=>
                s.bg_early_enable_mask \/ (announce /\ s.buffer.value)
           /\ t.bg_early_disable_mask <=>
                s.bg_early_disable_mask \/ (announce /\ ~s.buffer.value)

LEMMA AfterBufferedWriteFlags ==
  ASSUME NEW s \in IoType
  PROVE  FlagsFollow(s, AfterBufferedWrite(s)) /\ AfterBufferedWrite(s).vblank = s.vblank
  <1>1. CASE ~s.buffer.on
    BY <1>1 DEF AfterBufferedWrite, FlagsFollow
  <1>2. CASE s.buffer.on /\ Flushing(s)
    <2> DEFINE w == write_ppu_reg(s, s.buffer.address, s.buffer.value)
    <2>1. s.buffer.address \in PpuRegister /\ s.buffer.value \in BOOLEAN
      BY DEF IoType, Buffer
    <2>2. w \in IoType /\ w.vblank = s.vblank
      BY <2>1, write_ppu_regType, write_ppu_regFields
    <2>3. AfterBufferedWrite(s) =
            [w EXCEPT !.buffer = NoWrite, !.bg_early_enable_mask = FALSE,
                      !.bg_early_disable_mask = FALSE]
      BY <1>2 DEF AfterBufferedWrite, Flushed
    <2> HIDE DEF w
    <2> QED BY <1>2, <2>2, <2>3 DEF IoType, FlagsFollow, Flushing
  <1>3. CASE s.buffer.on /\ ~Flushing(s)
    BY <1>3 DEF AfterBufferedWrite, IoType, Buffer, FlagsFollow, Flushing
  <1> QED BY <1>1, <1>2, <1>3

LEMMA VBlankAndNmiUnannounced ==
  ASSUME NEW s \in IoType, NEW p \in PpuType
  PROVE  LET a == VBlankAndNmi(s, p)
         IN  /\ a.bg_early_enable_mask = s.bg_early_enable_mask
             /\ a.bg_early_disable_mask = s.bg_early_disable_mask
             /\ a.buffer = s.buffer
             /\ p.scanline # nmi_start /\ a.vblank => s.vblank /\ ~VBlankEnds(p)
  <1>1. CASE p.scanline = nmi_start
    <2>1. VBlankAndNmi(s, p) = OnNmiScanline(s, p.dot)
      BY <1>1 DEF VBlankAndNmi
    <2> QED BY <1>1, <2>1 DEF OnNmiScanline, IoType
  <1>2. CASE p.scanline # nmi_start
    BY <1>2 DEF VBlankAndNmi, IoType
  <1> QED BY <1>1, <1>2

LEMMA ClockPpuFlags ==
  ASSUME TypeOK, ClockPpu
  PROVE  /\ FlagsFollow(io, io')
         /\ ppu'.scanline # nmi_start /\ io'.vblank =>
              AfterWarmup(io, ppu).vblank /\ ~VBlankEnds(ppu')
  <1> DEFINE s1 == AfterWarmup(io, ppu)
             s2 == AfterWrites
             s3 == VBlankAndNmi(s2, ppu')
  <1>1. s1 \in IoType
    BY AfterWarmupType DEF TypeOK
  <1>2. /\ s1.buffer = io.buffer
        /\ s1.bg_early_enable_mask = io.bg_early_enable_mask
        /\ s1.bg_early_disable_mask = io.bg_early_disable_mask
    BY DEF TypeOK, AfterWarmup, IoType
  <1>3. s2 \in IoType /\ FlagsFollow(s1, s2) /\ s2.vblank = s1.vblank
    BY <1>1, AfterBufferedWriteType, AfterBufferedWriteFlags DEF AfterWrites
  <1>4. ppu' \in PpuType
    BY ClockPpuType DEF TypeOK
  <1>5. /\ s3 \in IoType /\ s3.bg_early_enable_mask = s2.bg_early_enable_mask
        /\ s3.bg_early_disable_mask = s2.bg_early_disable_mask
        /\ ppu'.scanline # nmi_start /\ s3.vblank => s2.vblank /\ ~VBlankEnds(ppu')
    BY <1>3, <1>4, VBlankAndNmiType, VBlankAndNmiUnannounced
  <1>6. io' = [s3 EXCEPT !.suppress_nmi_flag = FALSE]
    BY DEF ClockPpu
  <1> HIDE DEF s2, s3
  <1>7. /\ io'.vblank = s3.vblank
        /\ io'.bg_early_enable_mask = s3.bg_early_enable_mask
        /\ io'.bg_early_disable_mask = s3.bg_early_disable_mask
    BY <1>5, <1>6 DEF IoType
  <1> HIDE DEF s1
  <1>8. FlagsFollow(io, io')
    BY <1>2, <1>3, <1>5, <1>7 DEF FlagsFollow
  <1> QED BY <1>3, <1>5, <1>7, <1>8 DEF s1

-----------------------------------------------------------------------------
(* WHERE THE BEAM IS WHEN THE WARM-UP SHOWS THE VBLANK FLAG *)

LEMMA ScanlineStarts ==
  /\ ScanlineStart(0) = 0
  /\ \A line \in Nat : /\ ScanlineStart(line) \in Nat
                       /\ ScanlineStart(line + 1) = ScanlineStart(line) + LastDot + 1
  /\ \A line, other \in Nat : line =< other => ScanlineStart(line) =< ScanlineStart(other)
<1>1. LastDot \in Nat
  BY PpuGeometry
<1>2. ASSUME NEW line \in Nat, NEW other \in Nat, line =< other
      PROVE  ScanlineStart(line) =< ScanlineStart(other)
  <2>1. (other - line) * (LastDot + 1) >= 0
    BY <1>1, <1>2
  <2> QED BY <1>1, <1>2, <2>1 DEF ScanlineStart
<1> QED BY <1>1, <1>2 DEF ScanlineStart

LEMMA AdvanceDotFields ==
  ASSUME NEW p \in PpuType
  PROVE  LET a == AdvanceDot(p)
         IN  /\ a.warmup = p.warmup
             /\ p.dot < LastDot =>
                  a.dot = p.dot + 1 /\ a.scanline = p.scanline /\ a.odd_frame = p.odd_frame
             /\ ~(p.dot < LastDot) =>
                  /\ a.dot = 0
                  /\ a.scanline = IF p.scanline < PreRender THEN p.scanline + 1 ELSE 0
                  /\ a.odd_frame = IF p.scanline = PreRender THEN ~p.odd_frame ELSE p.odd_frame
  BY DEF AdvanceDot, PpuType

LEMMA NextDotFields ==
  ASSUME TypeOK, ClockPpu
  PROVE  LET a == AdvanceDot(ppu)
         IN  /\ ppu'.scanline = a.scanline /\ ppu'.odd_frame = a.odd_frame
             /\ ppu'.warmup = IF WarmupDue(ppu) THEN ppu.warmup + 1 ELSE ppu.warmup
             /\ ~(a.odd_frame /\ a.scanline = PreRender /\ a.dot = LastDot - 1) =>
                  ppu'.dot = a.dot
<1> DEFINE a == AdvanceDot(ppu)
           c == CountWarmup(a)
<1>1. a \in PpuType /\ a.warmup = ppu.warmup
  BY AdvanceDotType DEF TypeOK
<1>2. WarmupDue(a) = WarmupDue(ppu)
  BY <1>1 DEF WarmupDue
<1>3. /\ c \in PpuType /\ c.scanline = a.scanline /\ c.odd_frame = a.odd_frame /\ c.dot = a.dot
      /\ c.warmup = IF WarmupDue(ppu) THEN ppu.warmup + 1 ELSE ppu.warmup
  <2>1. c \in PpuType
    BY <1>1, CountWarmupType
  <2> HIDE DEF a
  <2> QED BY <1>1, <1>2, <2>1 DEF CountWarmup, PpuType
<1>4. ppu' = OddFrameSkip(c, AfterWrites)
  BY DEF ClockPpu, NextDot
<1> HIDE DEF a, c
<1>5. /\ ppu'.scanline = c.scanline /\ ppu'.odd_frame = c.odd_frame /\ ppu'.warmup = c.warmup
      /\ ~(c.odd_frame /\ c.scanline = PreRender /\ c.dot = LastDot - 1) => ppu'.dot = c.dot
  BY <1>3, <1>4 DEF OddFrameSkip, PpuType
<1> QED BY <1>3, <1>5 DEF a

(* The dots since the start, and the place of the beam in two frames.       *)
Elapsed == 3 * cpu.cycle - (IF turn = 0 THEN 0 ELSE 4 - turn)

Position ==
  ScanlineStart(ppu.scanline) + ppu.dot
    + IF ppu.odd_frame THEN ScanlineStart(PreRender + 1) ELSE 0

(* Until the warm-up is over the beam has covered a dot for each clock, and *)
(* each part of the warm-up is over as soon as its cycle is reached.        *)
WarmupInv ==
  /\ ppu.warmup = 0 => turn \in {0, 1} /\ cpu.cycle = turn
  /\ ppu.warmup = 1 => cpu.cycle < Warmup1 \/ (cpu.cycle = Warmup1 /\ turn = 1)
  /\ ppu.warmup = 2 => cpu.cycle < Warmup2 \/ (cpu.cycle = Warmup2 /\ turn = 1)
  /\ ppu.warmup < 3 => Position = InitDot + Elapsed

LEMMA CpuWarmup ==
  ASSUME TypeOK, ClockCpu, WarmupInv
  PROVE  WarmupInv'
<1>1. /\ turn = 0 /\ turn' = 1 /\ ppu' = ppu
      /\ cpu'.cycle = NextCycle(cpu.cycle)
  BY ClockCpuUnannounced
<1>2. /\ cpu.cycle \in Nat /\ ppu.warmup \in 0..3
      /\ Warmup1 \in Nat /\ Warmup2 \in Nat /\ Warmup1 < Warmup2 /\ CycleTop >= Warmup2 + 6
      /\ CycleTop \in Nat
  BY ClockAssumption DEF TypeOK, CpuType, PpuType
<1>3. ppu.warmup < 3 => cpu.cycle < CycleTop
  BY <1>1, <1>2 DEF WarmupInv
<1>4. ppu.warmup < 3 => cpu'.cycle = cpu.cycle + 1
  BY <1>1, <1>3 DEF NextCycle
<1>5. Position' = Position
  BY <1>1 DEF Position
<1>6. ppu.warmup < 3 => Elapsed' = Elapsed
  BY <1>1, <1>2, <1>4 DEF Elapsed
<1> QED BY <1>1, <1>2, <1>4, <1>5, <1>6 DEF WarmupInv

(* No dot is skipped before the warm-up is over.                            *)
LEMMA PpuPosition ==
  ASSUME TypeOK, ClockPpu, WarmupInv, ppu.warmup < 3
  PROVE  /\ Position' = InitDot + Elapsed' /\ Elapsed' = Elapsed + 1
         /\ Elapsed' =< 3 * Warmup2 - 2
<1>1. turn \in 1..3 /\ turn' = (turn + 1) % 4 /\ cpu'.cycle = cpu.cycle
  BY ClockPpuFields DEF ClockPpu
<1>2. /\ cpu.cycle \in Nat /\ ppu.warmup \in 0..3 /\ InitDot \in Nat
      /\ Warmup1 \in Nat /\ Warmup2 \in Nat /\ 1 < Warmup1 /\ Warmup1 < Warmup2
  BY ClockAssumption, GeometryAssumption, WarmupAssumption DEF TypeOK, CpuType, PpuType
<1>3. Elapsed' = Elapsed + 1 /\ Elapsed \in Int
  BY <1>1, <1>2 DEF Elapsed
<1>4. Elapsed' =< 3 * Warmup2 - 2
  BY <1>1, <1>2, <1>3 DEF WarmupInv, Elapsed
<1> DEFINE Frame == ScanlineStart(PreRender + 1)
           Late == ScanlineStart(PreRender)
           a == AdvanceDot(ppu)
<1>5. Frame \in Nat /\ Late \in Nat /\ Frame = Late + LastDot + 1 /\ LastDot \in Nat /\ LastDot >= 6
  BY PpuGeometry, ScanlineStarts
<1>6. InitDot + Elapsed' < Frame + Late
  <2>1. nmi_start \in Nat /\ nmi_start =< PreRender
    BY GeometryAssumption DEF nmi_start
  <2>2. ScanlineStart(nmi_start) \in Nat /\ ScanlineStart(nmi_start) =< Late
    BY <2>1, PpuGeometry, ScanlineStarts
  <2>3. InitDot + 3 * Warmup2 - 2 - Frame =< ScanlineStart(nmi_start) - 1
    BY <2>2, WarmupAssumption
  <2> HIDE DEF Frame, Late
  <2> QED BY <1>2, <1>3, <1>4, <1>5, <2>2, <2>3
<1>7. Position = InitDot + Elapsed
  BY DEF WarmupInv
<1>8. /\ ppu.dot \in 0..LastDot /\ ppu.scanline \in 0..PreRender /\ ppu.odd_frame \in BOOLEAN
      /\ ScanlineStart(ppu.scanline) \in Nat
      /\ ScanlineStart(ppu.scanline + 1) = ScanlineStart(ppu.scanline) + LastDot + 1
  BY ScanlineStarts, PpuGeometry DEF TypeOK, PpuType
<1>9. ppu.odd_frame => ppu.scanline # PreRender
  <2> HIDE DEF Frame
  <2> SUFFICES ASSUME ppu.odd_frame, ppu.scanline = PreRender PROVE FALSE
    OBVIOUS
  <2>1. Position = Late + ppu.dot + Frame
    BY DEF Position, Frame
  <2> HIDE DEF Late
  <2> QED BY <1>2, <1>3, <1>5, <1>6, <1>7, <1>8, <2>1
<1>10. ppu'.dot = a.dot /\ ppu'.scanline = a.scanline /\ ppu'.odd_frame = a.odd_frame
  <2>1. ~(a.odd_frame /\ a.scanline = PreRender /\ a.dot = LastDot - 1)
    BY <1>5, <1>8, <1>9, AdvanceDotFields DEF TypeOK
  <2> QED BY <2>1, NextDotFields
<1>11. Position' = Position + 1
  <2>1. CASE ppu.dot < LastDot
    <3>1. ppu'.dot = ppu.dot + 1 /\ ppu'.scanline = ppu.scanline /\ ppu'.odd_frame = ppu.odd_frame
      BY <1>10, <2>1, AdvanceDotFields DEF TypeOK
    <3>2. Position' = ScanlineStart(ppu.scanline) + (ppu.dot + 1)
                        + IF ppu.odd_frame THEN Frame ELSE 0
      BY <3>1 DEF Position
    <3> HIDE DEF Frame
    <3> QED BY <1>5, <1>8, <3>2 DEF Position, Frame
  <2>2. CASE ~(ppu.dot < LastDot) /\ ppu.scanline < PreRender
    <3>1. ppu'.dot = 0 /\ ppu'.scanline = ppu.scanline + 1 /\ ppu'.odd_frame = ppu.odd_frame
      BY <1>8, <1>10, <2>2, PpuGeometry, AdvanceDotFields DEF TypeOK
    <3>2. Position' = ScanlineStart(ppu.scanline) + LastDot + 1
                        + IF ppu.odd_frame THEN Frame ELSE 0
      BY <1>5, <1>8, <3>1 DEF Position
    <3>3. ppu.dot = LastDot
      BY <1>5, <1>8, <2>2
    <3>4. Position = ScanlineStart(ppu.scanline) + ppu.dot + IF ppu.odd_frame THEN Frame ELSE 0
      BY DEF Position
    <3> HIDE DEF Frame
    <3> QED BY <1>5, <1>8, <3>2, <3>3, <3>4
  <2>3. CASE ~(ppu.dot < LastDot) /\ ppu.scanline = PreRender
    <3>1. ppu'.dot = 0 /\ ppu'.scanline = 0 /\ ppu'.odd_frame = ~ppu.odd_frame
      BY <1>10, <2>3, PpuGeometry, AdvanceDotFields DEF TypeOK
    <3>2. ~ppu.odd_frame /\ ppu'.odd_frame
      BY <1>9, <2>3, <3>1
    <3>3. Position' = ScanlineStart(0) + 0 + Frame /\ Position = Late + ppu.dot + 0
      BY <2>3, <3>1, <3>2 DEF Position
    <3>4. ppu.dot = LastDot
      BY <1>5, <1>8, <2>3
    <3> HIDE DEF Frame, Late
    <3> QED BY <1>5, <1>8, <3>3, <3>4, ScanlineStarts
  <2> QED BY <1>8, <2>1, <2>2, <2>3, PpuGeometry
<1> QED BY <1>2, <1>3, <1>4, <1>7, <1>11

(* The line the beam is on, from its place.                                 *)
LEMMA LineOf ==
  ASSUME NEW line \in Nat, NEW dot \in 0..LastDot, NEW other \in Nat,
         ScanlineStart(line) + dot \in ScanlineStart(other)..ScanlineStart(other + 1) - 1
  PROVE  line = other
<1>1. LastDot \in Nat
  BY PpuGeometry
<1>2. /\ ScanlineStart(line) \in Nat /\ ScanlineStart(other) \in Nat
      /\ ScanlineStart(line + 1) = ScanlineStart(line) + LastDot + 1
      /\ ScanlineStart(other + 1) = ScanlineStart(other) + LastDot + 1
  BY ScanlineStarts
<1>3. line < other => ScanlineStart(line + 1) =< ScanlineStart(other)
  BY ScanlineStarts
<1>4. other < line => ScanlineStart(other + 1) =< ScanlineStart(line)
  BY ScanlineStarts
<1> QED BY <1>1, <1>2, <1>3, <1>4

(* The dot at which a part of the warm-up is due is one of the last of the  *)
(* post-render line.                                                        *)
LEMMA DueOnPostRender ==
  ASSUME TypeOK, ClockPpu, WarmupInv, WarmupDue(ppu), ppu.warmup > 0
  PROVE  ppu'.scanline = PostRender /\ ppu'.dot >= LastDot - 6
<1>1. /\ ppu.warmup \in {1, 2} /\ ppu.warmup < 3
      /\ cpu.cycle = (IF ppu.warmup = 1 THEN Warmup1 ELSE Warmup2) /\ turn = 1
  BY ClockAssumption DEF TypeOK, PpuType, CpuType, WarmupInv, WarmupDue
<1>2. Position' = InitDot + Elapsed' /\ Elapsed' = Elapsed + 1
  BY <1>1, PpuPosition
<1>3. Position' = InitDot + 3 * (IF ppu.warmup = 1 THEN Warmup1 ELSE Warmup2) - 2
  BY <1>1, <1>2, ClockAssumption, GeometryAssumption DEF Elapsed
<1>4. ppu'.dot \in 0..LastDot /\ ppu'.scanline \in 0..PreRender /\ ppu'.odd_frame \in BOOLEAN
  BY ClockPpuType DEF TypeOK, PpuType
<1> PICK line \in 0..PreRender : line = ppu'.scanline
  BY <1>4
<1>5. /\ PreRender \in Nat /\ LastDot \in Nat /\ LastDot >= 6 /\ PostRender \in Nat
      /\ nmi_start = PostRender + 1 /\ nmi_start =< PreRender
  BY GeometryAssumption DEF PostRender, nmi_start
<1> DEFINE Frame == ScanlineStart(PreRender + 1)
           start == ScanlineStart(line)
           Lines == ScanlineStart(nmi_start) - 7..ScanlineStart(nmi_start) - 1
<1>6. /\ Frame \in Nat /\ start \in Nat /\ start + ppu'.dot < Frame
      /\ ScanlineStart(nmi_start) =< Frame
      /\ ScanlineStart(PostRender) \in Nat /\ ScanlineStart(nmi_start) \in Nat
  <2>1. /\ line \in Nat /\ line + 1 \in Nat /\ line + 1 =< PreRender + 1
        /\ PreRender + 1 \in Nat /\ nmi_start \in Nat /\ nmi_start =< PreRender + 1
    BY <1>5
  <2>2. start \in Nat /\ ScanlineStart(line + 1) = start + LastDot + 1
    BY <2>1, ScanlineStarts
  <2>3. ScanlineStart(line + 1) =< Frame /\ Frame \in Nat
    BY <2>1, ScanlineStarts
  <2>4. /\ ScanlineStart(nmi_start) =< Frame
        /\ ScanlineStart(PostRender) \in Nat /\ ScanlineStart(nmi_start) \in Nat
    BY <1>5, <2>1, ScanlineStarts
  <2> HIDE DEF Frame, start
  <2> QED BY <1>4, <1>5, <2>2, <2>3, <2>4
<1>7. Position' = start + ppu'.dot + IF ppu'.odd_frame THEN Frame ELSE 0
  BY DEF Position
<1>8. ScanlineStart(nmi_start) = ScanlineStart(PostRender) + LastDot + 1
  BY <1>5, ScanlineStarts
<1>9. start + ppu'.dot \in Lines
  <2>1. CASE ppu.warmup = 1
    <3>1. Position' \in Lines
      BY <1>3, <2>1, WarmupAssumption
    <3> HIDE DEF Frame, start
    <3> QED BY <1>4, <1>6, <1>7, <3>1
  <2>2. CASE ppu.warmup = 2
    <3>1. Position' = InitDot + 3 * Warmup2 - 2
      BY <1>3, <2>2
    <3>2. InitDot + 3 * Warmup2 - 2 - Frame \in Lines
      BY WarmupAssumption
    <3>3. Position' \in Int
      BY <3>1, ClockAssumption, GeometryAssumption
    <3> PICK d \in Nat : d = ppu'.dot
      BY <1>4, <1>5
    <3> DEFINE place == InitDot + 3 * Warmup2 - 2
    <3>4. place \in Int /\ place - Frame \in Lines
      <4>1. place \in Int
        BY <3>1, <3>3
      <4>2. place - Frame \in Lines
        <5>1. InitDot \in Nat /\ Warmup2 \in Nat /\ Frame \in Nat
          BY <1>6, ClockAssumption, GeometryAssumption
        <5> HIDE DEF Frame, Lines
        <5> QED BY <3>2, <5>1
      <4> QED BY <4>1, <4>2, Zenon
    <3>5. place = start + d + IF ppu'.odd_frame THEN Frame ELSE 0
      BY <1>7, <3>1
    <3> HIDE DEF Frame, start, place
    <3>6. ppu'.odd_frame
      <4> SUFFICES ASSUME ~ppu'.odd_frame PROVE FALSE
        OBVIOUS
      <4>1. place = start + d
        BY <1>6, <3>5
      <4>2. place < Frame
        BY <1>6, <4>1
      <4>3. ScanlineStart(nmi_start) - 7 >= 0
        BY <1>5, <1>6, <1>8
      <4> QED BY <1>6, <3>4, <4>2, <4>3
    <3>7. place = start + d + Frame
      BY <3>5, <3>6
    <3>8. start + d \in Lines
      BY <1>6, <3>4, <3>7
    <3> QED BY <3>8
  <2> QED BY <1>1, <2>1, <2>2
<1>10. start + ppu'.dot \in ScanlineStart(PostRender)..ScanlineStart(PostRender + 1) - 1
  <2> HIDE DEF start
  <2> QED BY <1>4, <1>5, <1>6, <1>8, <1>9
<1>11. line = PostRender
  BY <1>4, <1>5, <1>10, LineOf
<1>12. ppu'.dot >= LastDot - 6
  BY <1>4, <1>5, <1>6, <1>8, <1>9, <1>11
<1> QED BY <1>11, <1>12

LEMMA PpuWarmup ==
  ASSUME TypeOK, ClockPpu, WarmupInv
  PROVE  WarmupInv'
<1>1. turn \in 1..3 /\ turn' = (turn + 1) % 4 /\ cpu'.cycle = cpu.cycle
  BY ClockPpuFields DEF ClockPpu
<1>2. ppu'.warmup = IF WarmupDue(ppu) THEN ppu.warmup + 1 ELSE ppu.warmup
  BY NextDotFields
<1>3. /\ cpu.cycle \in Nat /\ ppu.warmup \in 0..3
      /\ Warmup1 \in Nat /\ Warmup2 \in Nat /\ 1 < Warmup1 /\ Warmup1 < Warmup2
  BY ClockAssumption, WarmupAssumption DEF TypeOK, CpuType, PpuType
<1>4. ppu'.warmup < 3 => Position' = InitDot + Elapsed'
  BY <1>2, <1>3, PpuPosition
<1>5. /\ ppu'.warmup # 0
      /\ ppu'.warmup = 1 => cpu'.cycle < Warmup1 \/ (cpu'.cycle = Warmup1 /\ turn' = 1)
      /\ ppu'.warmup = 2 => cpu'.cycle < Warmup2 \/ (cpu'.cycle = Warmup2 /\ turn' = 1)
  BY <1>1, <1>2, <1>3 DEF WarmupInv, WarmupDue
<1> QED BY <1>4, <1>5 DEF WarmupInv

LEMMA PpuVBlank ==
  ASSUME TypeOK, ClockPpu, WarmupInv, VBlankWindow
  PROVE  VBlankWindow'
<1> SUFFICES ASSUME io'.vblank
             PROVE  /\ ppu'.scanline >= PostRender
                    /\ ppu'.scanline = PreRender => ppu'.dot = 0
  BY DEF VBlankWindow
<1>1. /\ PreRender \in Nat /\ LastDot \in Nat /\ LastDot >= 6 /\ PostRender \in Nat
      /\ nmi_start = PostRender + 1 /\ nmi_start < PreRender
  BY GeometryAssumption DEF PostRender, nmi_start
<1>2. CASE ppu'.scanline = nmi_start
  BY <1>1, <1>2
<1>3. CASE ppu'.scanline # nmi_start
  <2>1. AfterWarmup(io, ppu).vblank /\ ~VBlankEnds(ppu')
    BY <1>3, ClockPpuFlags
  <2>2. CASE WarmupDue(ppu)
    <3>1. ppu.warmup > 0
      BY <2>1, <2>2 DEF AfterWarmup, TypeOK, IoType
    <3> QED BY <1>1, <2>2, <3>1, DueOnPostRender
  <2>3. CASE ~WarmupDue(ppu)
    <3> DEFINE a == AdvanceDot(ppu)
    <3>1. ppu.scanline >= PostRender /\ (ppu.scanline = PreRender => ppu.dot = 0)
      BY <2>1, <2>3 DEF AfterWarmup, VBlankWindow
    <3>2. ppu.dot \in 0..LastDot /\ ppu.scanline \in 0..PreRender
      BY DEF TypeOK, PpuType
    <3>3. ~VBlankEnds(ppu') /\ ppu'.scanline = a.scanline
          /\ (~(a.odd_frame /\ a.scanline = PreRender /\ a.dot = LastDot - 1) => ppu'.dot = a.dot)
      BY <2>1, NextDotFields
    <3>4. CASE ppu.dot < LastDot
      <4>1. a.dot = ppu.dot + 1 /\ a.scanline = ppu.scanline
        BY <3>4, AdvanceDotFields DEF TypeOK
      <4> HIDE DEF a
      <4> QED BY <1>1, <3>1, <3>2, <3>3, <4>1 DEF VBlankEnds
    <3>5. CASE ~(ppu.dot < LastDot)
      <4>1. a.dot = 0 /\ a.scanline = ppu.scanline + 1
        BY <1>1, <3>1, <3>2, <3>5, AdvanceDotFields DEF TypeOK
      <4> HIDE DEF a
      <4> QED BY <1>1, <3>1, <3>2, <3>3, <4>1
    <3> QED BY <3>4, <3>5
  <2> QED BY <2>2, <2>3
<1> QED BY <1>2, <1>3

BaseInv == ClockInv /\ WarmupInv /\ VBlankWindow

LEMMA InitBase == Init => BaseInv
  <1> SUFFICES ASSUME Init PROVE BaseInv
    OBVIOUS
  <1>1. cpu.cycle = 0 /\ turn = 0 /\ ppu.warmup = 0 /\ ~io.vblank
    BY DEF Init, CpuInit, PpuInit, IoInit
  <1>2. Position = ScanlineStart(0) + InitDot + 0 /\ Elapsed = 0 /\ InitDot \in Nat
    BY <1>1, GeometryAssumption DEF Init, PpuInit, Position, Elapsed
  <1>3. WarmupInv /\ VBlankWindow
    BY <1>1, <1>2, ScanlineStarts DEF WarmupInv, VBlankWindow
  <1> QED BY <1>3, InitInv DEF BaseInv

LEMMA NextBase == BaseInv /\ [Next]_vars => BaseInv'
  <1> SUFFICES ASSUME BaseInv, [Next]_vars PROVE BaseInv'
    OBVIOUS
  <1>1. ClockInv /\ WarmupInv /\ VBlankWindow /\ TypeOK
    BY DEF BaseInv, ClockInv
  <1>2. ClockInv'
    BY <1>1, NextInv
  <1>3. WarmupInv' /\ VBlankWindow'
    <2>1. CASE ClockCpu
      <3>1. ppu' = ppu /\ (io'.vblank => io.vblank)
        BY <1>1, <2>1, ClockCpuUnannounced DEF Unannounced
      <3> QED BY <1>1, <2>1, <3>1, CpuWarmup DEF VBlankWindow
    <2>2. CASE ClockPpu
      BY <1>1, <2>2, PpuWarmup, PpuVBlank
    <2>3. CASE UNCHANGED vars
      BY <1>1, <2>3 DEF vars, WarmupInv, VBlankWindow, Position, Elapsed
    <2> QED BY <2>1, <2>2, <2>3 DEF Next
  <1> QED BY <1>2, <1>3 DEF BaseInv

(* The VBlank flag is up only from the post-render scanline to the first    *)
(* dot of the pre-render scanline, for every geometry in which the warm-up  *)
(* falls on the last dots of the post-render scanline of the first two      *)
(* frames.                                                                  *)
THEOREM VBlankInItsWindow == Spec => []VBlankWindow
  <1>1. BaseInv => VBlankWindow
    BY DEF BaseInv
  <1> QED BY <1>1, InitBase, NextBase, PTL DEF Spec

-----------------------------------------------------------------------------
(* A REQUEST FROM THE DOT THAT MAKES IT TO THE END OF THE NMI               *)

(* The registers and the signals of an NMI: nothing but a read of $2002     *)
(* changes any of them.                                                     *)
Signals(s, t) ==
  /\ t.nmi_enabled = s.nmi_enabled /\ t.nmi_lookahead = s.nmi_lookahead
  /\ t.nmi_cycles_left = s.nmi_cycles_left /\ t.nmi_pending = s.nmi_pending
  /\ t.ignore_nmi = s.ignore_nmi
  /\ t.vblank => s.vblank
  /\ t.suppress_nmi_flag => s.suppress_nmi_flag \/ ~t.vblank

LEMMA RegistersSignals ==
  ASSUME NEW s \in IoType, NEW reg \in Register, NEW val \in BOOLEAN
  PROVE  Signals(s, ReadRegister(s, reg)) /\ Signals(s, WriteRegister(s, reg, val))
<1>1. Signals(s, ReadRegister(s, reg))
  BY DEF Signals, ReadRegister, read_2002, IoType
<1>2. Signals(s, WriteRegister(s, reg, val))
  BY DEF Signals, WriteRegister, delay_write_ppu_reg, IoType
<1> QED BY <1>1, <1>2

LEMMA SignalsCompose ==
  ASSUME NEW s, NEW t, NEW u, Signals(s, t), Signals(t, u)
  PROVE  u.suppress_nmi_flag = t.suppress_nmi_flag /\ u.vblank = t.vblank => Signals(s, u)
BY DEF Signals

LEMMA WriteKeepsStatus ==
  ASSUME NEW s \in IoType, NEW reg \in Register, NEW val \in BOOLEAN
  PROVE  /\ WriteRegister(s, reg, val).vblank = s.vblank
         /\ WriteRegister(s, reg, val).suppress_nmi_flag = s.suppress_nmi_flag
BY DEF WriteRegister, delay_write_ppu_reg, IoType

LEMMA ExecuteSignals ==
  ASSUME TypeOK
  PROVE  Signals(IoTick, AfterExecute(IoTick))
<1> DEFINE i == cpu.instr
           read == IF i.op \in {"read", "modify"} THEN ReadRegister(IoTick, i.reg)
                   ELSE IoTick
           w == WriteRegister(read, i.reg, i.val)
<1>1. i.reg \in Register /\ i.val \in BOOLEAN
  BY InstructionFields DEF TypeOK, CpuType
<1>2. IoTick \in IoType
  BY TickType
<1>3. read \in IoType /\ Signals(IoTick, read)
  BY <1>1, <1>2, ReadRegisterType, RegistersSignals DEF Signals
<1>4. Signals(IoTick, w)
  <2> HIDE DEF read
  <2>1. Signals(read, w) /\ w.vblank = read.vblank /\ w.suppress_nmi_flag = read.suppress_nmi_flag
    BY <1>1, <1>3, RegistersSignals, WriteKeepsStatus
  <2> QED BY <1>3, <2>1, SignalsCompose
<1>5. AfterExecute(IoTick) = IF i.op \in {"write", "modify"} THEN w ELSE read
  BY DEF AfterExecute
<1> HIDE DEF read, w
<1> QED BY <1>3, <1>4, <1>5

LEMMA DecodeSignals ==
  ASSUME TypeOK
  PROVE  Signals(IoTick, AfterDummyWrite(AfterDummyRead(IoTick)))
<1> DEFINE i == cpu.instr
           read == AfterDummyRead(IoTick)
           v == FALSE
           w == WriteRegister(read, i.reg, v)
<1>1. i \in Program \union {Reset} /\ CpuTick.remaining \in Nat
  BY TickType DEF TypeOK, CpuType
<1>2. i.reg \in Register /\ v \in BOOLEAN
  BY <1>1, InstructionFields
<1>3. IoTick \in IoType
  BY TickType
<1>4. read \in IoType /\ Signals(IoTick, read)
  BY <1>1, <1>3, DummyReadRegister, ReadRegisterType, RegistersSignals DEF AfterDummyRead
<1>5. AfterDummyWrite(read) =
        IF DummyWrite(i, CpuTick.remaining) THEN w ELSE read
  BY DEF AfterDummyWrite
<1> HIDE DEF read, v
<1>6. Signals(read, w) /\ w.vblank = read.vblank /\ w.suppress_nmi_flag = read.suppress_nmi_flag
  BY <1>2, <1>4, RegistersSignals, WriteKeepsStatus
<1> HIDE DEF w
<1>7. Signals(IoTick, AfterDummyWrite(read))
  BY <1>4, <1>5, <1>6, SignalsCompose
<1> QED BY <1>7 DEF read

LEMMA TickSignals ==
  ASSUME TypeOK
  PROVE  /\ IoTick.nmi_enabled = io.nmi_enabled /\ IoTick.nmi_lookahead = io.nmi_lookahead
         /\ IoTick.nmi_cycles_left = io.nmi_cycles_left
         /\ IoTick.vblank = io.vblank /\ IoTick.suppress_nmi_flag = io.suppress_nmi_flag
BY DEF TypeOK, IoTick, IoType

(* A clock of the CPU: only the sequence of an NMI ends the request.        *)
LEMMA ClockCpuSignals ==
  ASSUME TypeOK, ClockCpu
  PROVE  /\ io'.nmi_enabled = io.nmi_enabled /\ io'.nmi_lookahead = io.nmi_lookahead
         /\ ~io'.ignore_nmi
         /\ io'.vblank => io.vblank
         /\ io'.nmi_pending => io.nmi_pending
         /\ ~ExecuteNmi => /\ io'.nmi_pending = io.nmi_pending
                           /\ io'.nmi_cycles_left = io.nmi_cycles_left
         /\ io'.suppress_nmi_flag =>
              io.suppress_nmi_flag \/ (~io'.vblank /\ cpu.state # "FETCH")
<1>1. IoTick \in IoType
  BY TickType
<1>2. CASE ExecuteNmi
  BY <1>1, <1>2, TickFields, TickSignals DEF ExecuteNmi, IoType
<1>3. CASE ExecuteDma
  <2>1. Signals(IoTick, io') /\ io'.suppress_nmi_flag = IoTick.suppress_nmi_flag
    BY <1>1, <1>3 DEF ExecuteDma, IoType, Signals
  <2> QED BY <1>3, <2>1, TickFields, TickSignals DEF Signals, ExecuteDma, ExecuteNmi
<1>4. CASE FetchOpcode
  BY <1>4, TickFields, TickSignals DEF FetchOpcode, ExecuteNmi
<1>5. CASE Decode
  BY <1>5, DecodeSignals, TickFields, TickSignals DEF Decode, ExecuteNmi, Signals
<1>6. CASE Execute
  BY <1>6, ExecuteSignals, TickFields, TickSignals DEF Execute, ExecuteNmi, Signals
<1> QED BY <1>2, <1>3, <1>4, <1>5, <1>6 DEF ClockCpu

(* A clock of the PPU, as far as NMIs go: the warm-up, the write that is    *)
(* flushed, and the place the beam comes to.                                *)
FlushesCtrl == io.buffer.on /\ io.buffer.counter = 1 /\ io.buffer.address = "ctrl"

LEMMA FlushSignals ==
  ASSUME NEW s \in IoType
  PROVE  LET a == AfterBufferedWrite(s)
             ctrl == Flushing(s) /\ s.buffer.address = "ctrl"
         IN  /\ a.vblank = s.vblank /\ a.nmi_lookahead = s.nmi_lookahead
             /\ a.nmi_cycles_left = s.nmi_cycles_left
             /\ a.ignore_nmi = s.ignore_nmi /\ a.suppress_nmi_flag = s.suppress_nmi_flag
             /\ a.nmi_enabled = IF ctrl THEN s.buffer.value ELSE s.nmi_enabled
             /\ a.nmi_pending <=>
                  s.nmi_pending \/ (Flushing(s) /\ RequestsNmi(s, s.buffer.address, s.buffer.value))
<1>1. s.buffer.address \in PpuRegister /\ s.buffer.value \in BOOLEAN
  BY DEF IoType, Buffer
<1>2. CASE ~s.buffer.on
  BY <1>2 DEF AfterBufferedWrite, Flushing
<1>3. CASE s.buffer.on /\ ~Flushing(s)
  BY <1>3 DEF AfterBufferedWrite, IoType, Buffer
<1>4. CASE s.buffer.on /\ Flushing(s)
  <2> DEFINE w == write_ppu_reg(s, s.buffer.address, s.buffer.value)
  <2>1. w \in IoType
    BY <1>1, write_ppu_regType
  <2>2. /\ w.vblank = s.vblank /\ w.nmi_lookahead = s.nmi_lookahead
        /\ w.nmi_cycles_left = s.nmi_cycles_left
        /\ w.ignore_nmi = s.ignore_nmi /\ w.suppress_nmi_flag = s.suppress_nmi_flag
    BY DEF write_ppu_reg, IoType
  <2>3. w.nmi_enabled = IF s.buffer.address = "ctrl" THEN s.buffer.value ELSE s.nmi_enabled
    BY DEF write_ppu_reg, IoType
  <2>4. w.nmi_pending <=>
          s.nmi_pending \/ RequestsNmi(s, s.buffer.address, s.buffer.value)
    BY <1>1 DEF write_ppu_reg, RequestsNmi, IoType
  <2>5. AfterBufferedWrite(s) =
          [w EXCEPT !.buffer = NoWrite, !.bg_early_enable_mask = FALSE,
                    !.bg_early_disable_mask = FALSE]
    BY <1>4 DEF AfterBufferedWrite, Flushed
  <2> HIDE DEF w
  <2> QED BY <1>4, <2>1, <2>2, <2>3, <2>4, <2>5 DEF IoType
<1> QED BY <1>2, <1>3, <1>4

Showing == AfterWarmup(io, ppu).vblank

LEMMA BeforeDot ==
  ASSUME TypeOK, ClockPpu
  PROVE  /\ AfterWrites \in IoType
         /\ AfterWrites.vblank = Showing /\ AfterWrites.ignore_nmi = io.ignore_nmi
         /\ AfterWrites.nmi_cycles_left = io.nmi_cycles_left
         /\ AfterWrites.suppress_nmi_flag = io.suppress_nmi_flag
         /\ AfterWrites.nmi_enabled = IF FlushesCtrl THEN io.buffer.value ELSE io.nmi_enabled
         /\ AfterWrites.nmi_pending <=> io.nmi_pending \/ Rerequests
         /\ Rerequests => FlushesCtrl /\ Showing /\ AfterWrites.nmi_enabled
<1> DEFINE s == AfterWarmup(io, ppu)
<1>1. s \in IoType
  BY AfterWarmupType DEF TypeOK
<1>2. /\ s.buffer = io.buffer /\ s.nmi_pending = io.nmi_pending
      /\ s.ignore_nmi = io.ignore_nmi /\ s.nmi_enabled = io.nmi_enabled
      /\ s.nmi_cycles_left = io.nmi_cycles_left
      /\ s.suppress_nmi_flag = io.suppress_nmi_flag
  BY DEF TypeOK, AfterWarmup, IoType
<1>3. turn # 0
  BY DEF ClockPpu
<1>4. AfterWrites = AfterBufferedWrite(s)
  BY DEF AfterWrites
<1>5. AfterWrites \in IoType
  BY <1>1, <1>4, AfterBufferedWriteType
<1>6. Flushing(s) /\ s.buffer.address = "ctrl" <=> FlushesCtrl
  BY <1>2 DEF Flushing, FlushesCtrl
<1>7. Rerequests <=> Flushing(s) /\ RequestsNmi(s, s.buffer.address, s.buffer.value)
  BY <1>3 DEF Rerequests
<1>8. Showing = s.vblank
  BY DEF Showing
<1>9. /\ AfterWrites.vblank = s.vblank
      /\ AfterWrites.nmi_cycles_left = s.nmi_cycles_left
      /\ AfterWrites.ignore_nmi = s.ignore_nmi
      /\ AfterWrites.suppress_nmi_flag = s.suppress_nmi_flag
      /\ AfterWrites.nmi_enabled =
           IF Flushing(s) /\ s.buffer.address = "ctrl" THEN s.buffer.value ELSE s.nmi_enabled
      /\ AfterWrites.nmi_pending <=>
           s.nmi_pending \/ (Flushing(s) /\ RequestsNmi(s, s.buffer.address, s.buffer.value))
  <2> HIDE DEF s
  <2> QED BY <1>1, <1>4, FlushSignals
<1>10. Rerequests => FlushesCtrl /\ Showing /\ AfterWrites.nmi_enabled
  <2> HIDE DEF s
  <2> QED BY <1>6, <1>7, <1>8, <1>9 DEF RequestsNmi
<1> HIDE DEF s
<1>11. AfterWrites.nmi_enabled = IF FlushesCtrl THEN io.buffer.value ELSE io.nmi_enabled
  BY <1>2, <1>6, <1>9
<1>12. AfterWrites.nmi_pending <=> io.nmi_pending \/ Rerequests
  BY <1>2, <1>7, <1>9, Zenon
<1> QED BY <1>2, <1>5, <1>8, <1>9, <1>10, <1>11, <1>12

LEMMA AfterDot ==
  ASSUME TypeOK, ClockPpu
  PROVE  LET s == VBlankAndNmi(AfterWrites, ppu')
         IN  /\ s \in IoType
             /\ io'.nmi_enabled = s.nmi_enabled /\ io'.nmi_pending = s.nmi_pending
             /\ io'.ignore_nmi = s.ignore_nmi /\ io'.vblank = s.vblank
             /\ io'.nmi_lookahead = s.nmi_lookahead
             /\ io'.nmi_cycles_left = s.nmi_cycles_left
             /\ ~io'.suppress_nmi_flag
<1> DEFINE s == VBlankAndNmi(AfterWrites, ppu')
<1>1. s \in IoType
  BY BeforeDot, VBlankAndNmiType, ClockPpuType DEF TypeOK
<1>2. io' = [s EXCEPT !.suppress_nmi_flag = FALSE]
  BY DEF ClockPpu
<1> HIDE DEF s
<1>3. /\ io'.nmi_enabled = s.nmi_enabled /\ io'.nmi_pending = s.nmi_pending
      /\ io'.ignore_nmi = s.ignore_nmi /\ io'.vblank = s.vblank
      /\ io'.nmi_lookahead = s.nmi_lookahead
      /\ io'.nmi_cycles_left = s.nmi_cycles_left
      /\ ~io'.suppress_nmi_flag
  BY <1>1, <1>2 DEF IoType
<1> QED BY <1>1, <1>3 DEF s

(* What every clock of the PPU does, on whatever line.                      *)
LEMMA ClockPpuSignals ==
  ASSUME TypeOK, ClockPpu
  PROVE  /\ turn \in 1..3 /\ turn' = (turn + 1) % 4
         /\ io'.nmi_cycles_left = io.nmi_cycles_left /\ ~io'.suppress_nmi_flag
         /\ io'.nmi_enabled = IF FlushesCtrl THEN io.buffer.value ELSE io.nmi_enabled
         /\ Rerequests => FlushesCtrl /\ Showing /\ io'.nmi_enabled
         /\ cpu'.delay_nmi <=> cpu.delay_nmi \/ Rerequests
<1> DEFINE s == VBlankAndNmi(AfterWrites, ppu')
<1>1. s.nmi_enabled = AfterWrites.nmi_enabled /\ s.nmi_cycles_left = AfterWrites.nmi_cycles_left
  BY BeforeDot DEF VBlankAndNmi, OnNmiScanline, IoType
<1>2. turn \in 1..3 /\ turn' = (turn + 1) % 4
  BY DEF ClockPpu
<1>3. cpu'.delay_nmi <=> cpu.delay_nmi \/ Rerequests
  <2> DEFINE before == AfterWarmup(io, ppu)
             x == cpu.delay_nmi
                    \/ (/\ Flushing(before)
                        /\ RequestsNmi(before, before.buffer.address, before.buffer.value))
  <2>1. cpu' = [cpu EXCEPT !.delay_nmi = x]
    BY DEF ClockPpu
  <2>2. x <=> cpu.delay_nmi \/ Rerequests
    BY <1>2 DEF Rerequests
  <2> HIDE DEF x
  <2>3. cpu'.delay_nmi = x
    BY <2>1 DEF TypeOK, CpuType
  <2> QED BY <2>2, <2>3, Zenon
<1> HIDE DEF s
<1>4. io'.nmi_enabled = s.nmi_enabled /\ io'.nmi_cycles_left = s.nmi_cycles_left
      /\ ~io'.suppress_nmi_flag
  BY AfterDot DEF s
<1> QED BY <1>1, <1>2, <1>3, <1>4, BeforeDot

(* ... off the line VBlank starts on, and on it.                            *)
LEMMA ClockPpuElsewhere ==
  ASSUME TypeOK, ClockPpu, ppu'.scanline # nmi_start
  PROVE  /\ io'.nmi_pending <=> io.nmi_pending \/ Rerequests
         /\ io'.ignore_nmi = io.ignore_nmi
         /\ io'.vblank => Showing
         /\ io'.nmi_lookahead => ppu'.scanline = PostRender /\ ppu'.dot = LastDot
<1> DEFINE s == VBlankAndNmi(AfterWrites, ppu')
<1>1. /\ s.nmi_pending = AfterWrites.nmi_pending /\ s.ignore_nmi = AfterWrites.ignore_nmi
      /\ s.vblank => AfterWrites.vblank
      /\ s.nmi_lookahead => ppu'.scanline = PostRender /\ ppu'.dot = LastDot
  BY BeforeDot DEF VBlankAndNmi, IoType
<1> HIDE DEF s
<1>2. /\ io'.nmi_pending = s.nmi_pending /\ io'.ignore_nmi = s.ignore_nmi
      /\ io'.vblank = s.vblank /\ io'.nmi_lookahead = s.nmi_lookahead
  BY AfterDot DEF s
<1> QED BY <1>1, <1>2, BeforeDot

LEMMA ClockPpuOnNmiStart ==
  ASSUME TypeOK, ClockPpu, ppu'.scanline = nmi_start
  PROVE  LET d == ppu'.dot
             requested == io.nmi_pending \/ Rerequests \/ (io'.nmi_enabled /\ d = 1)
             suppressed == \/ io.ignore_nmi
                           \/ io'.nmi_enabled /\ io.suppress_nmi_flag /\ d \in 1..3
             withdrawn == ~io'.nmi_enabled /\ requested /\ ~suppressed /\ d < 5
         IN  /\ io'.nmi_pending <=> requested /\ ~suppressed /\ ~withdrawn
             /\ io'.ignore_nmi <=> suppressed \/ withdrawn
             /\ io'.vblank => Showing \/ d = 0
             /\ io'.nmi_lookahead => d \in 0..2
<1> DEFINE s == VBlankAndNmi(AfterWrites, ppu')
           d == ppu'.dot
           asked == AfterWrites.nmi_pending \/ (AfterWrites.nmi_enabled /\ d = 1)
           lost == \/ AfterWrites.ignore_nmi
                   \/ AfterWrites.nmi_enabled /\ AfterWrites.suppress_nmi_flag /\ d \in 1..3
           gone == ~AfterWrites.nmi_enabled /\ asked /\ ~lost /\ d < 5
<1>1. s = OnNmiScanline(AfterWrites, d)
  BY DEF VBlankAndNmi
<1>2. /\ s.nmi_pending = (asked /\ ~lost /\ ~gone)
      /\ s.ignore_nmi = (lost \/ gone)
  BY <1>1, BeforeDot DEF OnNmiScanline, SuppressionDots, IoType
<1>3. /\ s.vblank => AfterWrites.vblank \/ d = 0
      /\ s.nmi_enabled = AfterWrites.nmi_enabled
  BY <1>1, BeforeDot DEF OnNmiScanline, IoType
<1>5. s.nmi_lookahead = (d = 0 \/ (AfterWrites.nmi_enabled /\ d \in {1, 2}))
  BY <1>1, BeforeDot DEF OnNmiScanline, IoType
<1> HIDE DEF s
<1>6. s.nmi_lookahead => d \in 0..2
  <2>1. s.nmi_lookahead => d = 0 \/ d \in {1, 2}
    BY <1>5, Zenon
  <2> QED BY <2>1
<1>4. /\ io'.nmi_pending = s.nmi_pending /\ io'.ignore_nmi = s.ignore_nmi
      /\ io'.vblank = s.vblank /\ io'.nmi_lookahead = s.nmi_lookahead
      /\ io'.nmi_enabled = s.nmi_enabled
  BY AfterDot DEF s
<1> QED BY <1>2, <1>3, <1>4, <1>6, BeforeDot

LEMMA Lines ==
  /\ LastDot \in Nat /\ LastDot >= 6 /\ LastVisible \in Nat /\ PreRender \in Nat
  /\ PostRender = LastVisible + 1 /\ nmi_start = LastVisible + 2 /\ nmi_start < PreRender
BY GeometryAssumption DEF PostRender, nmi_start

LEMMA BeamMoves ==
  ASSUME TypeOK, ClockPpu
  PROVE  /\ ppu.dot \in 0..LastDot /\ ppu.scanline \in 0..PreRender
         /\ ppu'.dot \in 0..LastDot /\ ppu'.scanline \in 0..PreRender
         /\ ppu.dot # LastDot =>
              /\ ppu'.scanline = ppu.scanline
              /\ ppu.scanline # PreRender => ppu'.dot = ppu.dot + 1
         /\ ppu.dot = LastDot =>
              /\ ppu'.dot = 0
              /\ ppu'.scanline = IF ppu.scanline = PreRender THEN 0 ELSE ppu.scanline + 1
<1> DEFINE a == AdvanceDot(ppu)
<1>1. /\ ppu.dot \in 0..LastDot /\ ppu.scanline \in 0..PreRender
      /\ ppu'.dot \in 0..LastDot /\ ppu'.scanline \in 0..PreRender
  BY ClockPpuType DEF TypeOK, PpuType
<1>2. /\ ppu'.scanline = a.scanline
      /\ ~(a.odd_frame /\ a.scanline = PreRender /\ a.dot = LastDot - 1) => ppu'.dot = a.dot
  BY NextDotFields
<1>3. CASE ppu.dot # LastDot
  <2>1. a.dot = ppu.dot + 1 /\ a.scanline = ppu.scanline
    BY <1>1, <1>3, Lines, AdvanceDotFields DEF TypeOK
  <2> HIDE DEF a
  <2> QED BY <1>1, <1>2, <1>3, <2>1
<1>4. CASE ppu.dot = LastDot
  <2>1. a.dot = 0 /\ a.scanline = IF ppu.scanline < PreRender THEN ppu.scanline + 1 ELSE 0
    BY <1>1, <1>4, Lines, AdvanceDotFields DEF TypeOK
  <2>2. a.dot # LastDot - 1
    BY <2>1, Lines
  <2> HIDE DEF a
  <2> QED BY <1>1, <1>2, <1>4, <2>1, <2>2, Lines
<1> QED BY <1>3, <1>4

(* The dots since the last clock of the CPU.                                *)
SinceCpu == IF turn = 0 THEN 3 ELSE turn - 1

LEMMA DotsSinceCpu ==
  ASSUME TypeOK
  PROVE  /\ ClockCpu => SinceCpu = 3 /\ SinceCpu' = 0
         /\ ClockPpu => SinceCpu \in 0..2 /\ SinceCpu' = SinceCpu + 1
<1>1. ClockCpu => turn = 0 /\ turn' = 1
  BY DEF ClockCpu, ExecuteNmi, ExecuteDma, FetchOpcode, Decode, Execute
<1>2. ClockPpu => turn \in 1..3 /\ turn' = IF turn = 3 THEN 0 ELSE turn + 1
  BY DEF ClockPpu
<1> QED BY <1>1, <1>2 DEF SinceCpu

(* Where the beam is when there is something to tell the CPU: the look-     *)
(* ahead is over after three dots, a withdrawal reaches the CPU before the  *)
(* line ends, a read of $2002 is seen by the next dot, the warm-up shows    *)
(* the flag late, and a request in the first dots means that NMIs are on.   *)
LookaheadInv ==
  io.nmi_lookahead => \/ ppu.scanline = nmi_start /\ ppu.dot \in 0..2
                      \/ ppu.scanline = PostRender /\ ppu.dot = LastDot

IgnoreInv ==
  io.ignore_nmi => /\ turn # 1 /\ ~io.nmi_pending
                   /\ ppu.scanline = nmi_start /\ ppu.dot =< 3 + SinceCpu

SuppressInv == io.suppress_nmi_flag => turn = 1

EarlyVBlankInv == io.vblank /\ ppu.scanline = PostRender => ppu.dot >= LastDot - 6

EnabledInv ==
  io.nmi_pending /\ ppu.scanline = nmi_start /\ ppu.dot < 5 => io.nmi_enabled

SignalsInv == LookaheadInv /\ IgnoreInv /\ SuppressInv /\ EarlyVBlankInv /\ EnabledInv

LEMMA CpuSignalsInv ==
  ASSUME TypeOK, ClockCpu, SignalsInv
  PROVE  SignalsInv'
<1>1. ppu' = ppu /\ turn' = 1
  BY ClockCpuUnannounced
<1>2. LookaheadInv' /\ EarlyVBlankInv' /\ EnabledInv'
  BY <1>1, ClockCpuSignals DEF SignalsInv, LookaheadInv, EarlyVBlankInv, EnabledInv
<1>3. IgnoreInv' /\ SuppressInv'
  BY <1>1, ClockCpuSignals DEF IgnoreInv, SuppressInv
<1> QED BY <1>2, <1>3 DEF SignalsInv

(* The flag seen by a dot was up before, or it is the warm-up's dot.        *)
LEMMA ShowingFrom ==
  ASSUME TypeOK, ClockPpu, WarmupInv, Showing
  PROVE  io.vblank \/ (ppu'.scanline = PostRender /\ ppu'.dot >= LastDot - 6)
<1>1. CASE WarmupDue(ppu)
  <2>1. Showing = (ppu.warmup > 0)
    BY <1>1 DEF Showing, AfterWarmup, TypeOK, IoType
  <2> QED BY <1>1, <2>1, DueOnPostRender
<1>2. CASE ~WarmupDue(ppu)
  BY <1>2 DEF Showing, AfterWarmup
<1> QED BY <1>1, <1>2

LEMMA PpuSignalsInv ==
  ASSUME TypeOK, ClockPpu, WarmupInv, VBlankWindow, SignalsInv
  PROVE  SignalsInv'
<1>1. turn \in 1..3 /\ turn' = (turn + 1) % 4 /\ ~io'.suppress_nmi_flag
  BY ClockPpuSignals
<1>2. SuppressInv'
  BY <1>1 DEF SuppressInv
<1>3. LookaheadInv'
  <2>1. CASE ppu'.scanline = nmi_start
    BY <2>1, ClockPpuOnNmiStart DEF LookaheadInv
  <2>2. CASE ppu'.scanline # nmi_start
    BY <2>2, ClockPpuElsewhere DEF LookaheadInv
  <2> QED BY <2>1, <2>2
<1>4. EnabledInv'
  <2> SUFFICES ASSUME io'.nmi_pending, ppu'.scanline = nmi_start, ppu'.dot < 5
               PROVE  io'.nmi_enabled
    BY DEF EnabledInv
  <2> QED BY ClockPpuOnNmiStart, Zenon
<1>5. EarlyVBlankInv'
  <2> SUFFICES ASSUME io'.vblank, ppu'.scanline = PostRender
               PROVE  ppu'.dot >= LastDot - 6
    BY DEF EarlyVBlankInv
  <2>1. ppu'.scanline # nmi_start
    BY Lines
  <2>2. Showing
    BY <2>1, ClockPpuElsewhere
  <2>3. CASE io.vblank
    <3>1. ppu.scanline >= PostRender
      BY <2>3 DEF VBlankWindow
    <3>2. ppu.scanline = PostRender /\ ppu.dot # LastDot
      BY <3>1, BeamMoves, Lines
    <3> QED BY <2>3, <3>2, BeamMoves, Lines DEF SignalsInv, EarlyVBlankInv
  <2> QED BY <2>2, <2>3, ShowingFrom
<1>6. IgnoreInv'
  <2> SUFFICES ASSUME io'.ignore_nmi
               PROVE  /\ turn' # 1 /\ ~io'.nmi_pending
                      /\ ppu'.scanline = nmi_start /\ ppu'.dot =< 3 + SinceCpu'
    BY DEF IgnoreInv
  <2>1. SinceCpu \in 0..2 /\ SinceCpu' = SinceCpu + 1
    BY DotsSinceCpu
  <2>2. io.ignore_nmi => ppu'.scanline = nmi_start /\ ppu'.dot =< 3 + SinceCpu'
    <3> SUFFICES ASSUME io.ignore_nmi
                 PROVE  ppu'.scanline = nmi_start /\ ppu'.dot =< 3 + SinceCpu'
      OBVIOUS
    <3>1. ppu.scanline = nmi_start /\ ppu.dot =< 3 + SinceCpu
      BY DEF SignalsInv, IgnoreInv
    <3> QED BY <2>1, <3>1, BeamMoves, Lines
  <2>3. ppu'.scanline = nmi_start
    BY <2>2, ClockPpuElsewhere
  <2>4. ~io'.nmi_pending
    BY <2>3, ClockPpuOnNmiStart, Zenon
  <2>5. io.ignore_nmi \/ ppu'.dot \in 1..3 \/ ppu'.dot < 5
    BY <2>3, ClockPpuOnNmiStart, Zenon
  <2>6. ppu'.dot =< 3 + SinceCpu'
    BY <2>1, <2>2, <2>5, BeamMoves, Lines
  <2> QED BY <1>1, <2>3, <2>4, <2>6
<1> QED BY <1>2, <1>3, <1>4, <1>5, <1>6 DEF SignalsInv

-----------------------------------------------------------------------------
(* HOW LONG AN INSTRUCTION TAKES *)

(* An unofficial opcode is never done: DECODE waits for ever.               *)
Stuck == cpu.state = "DECODE" /\ cpu.instr.mode = "bad_op_code"

(* Any other has the clock it executes at still before it.                  *)
InstructionInv ==
  /\ cpu.state = "DECODE" /\ ~Stuck => cpu.remaining > LastCycle(cpu.instr)
  /\ cpu.state = "EXECUTE" => cpu.instr.mode \in Immediate /\ cpu.remaining > 1

LEMMA LastCycleBound == \A i : LastCycle(i) \in 1..3
BY DEF LastCycle, IndexedLastCycle, BranchLastCycle

LEMMA FetchedLonger ==
  ASSUME NEW i \in Program \union {Reset}, i.mode # "bad_op_code"
  PROVE  MaxCycles[i.mode] > LastCycle(i)
<1>1. i.mode \in Mode
  BY InstructionFields
<1>2. CASE i.mode \in Indexed
  <2>1. MaxCycles[i.mode] >= 5
    BY <1>2 DEF Indexed, MaxCycles
  <2> QED BY <2>1, MaxCyclesBound, <1>1, LastCycleBound
<1>3. CASE i.mode = "Bxx"
  <2>1. MaxCycles[i.mode] = 4
    BY <1>3 DEF MaxCycles
  <2> QED BY <2>1, LastCycleBound
<1>4. CASE i.mode \notin Indexed /\ i.mode # "Bxx"
  <2>1. LastCycle(i) = 1
    BY <1>4 DEF LastCycle
  <2>2. MaxCycles[i.mode] >= 2
    BY <1>1 DEF Mode, MaxCycles
  <2> QED BY <2>1, <2>2, <1>1, MaxCyclesBound
<1> QED BY <1>2, <1>3, <1>4

LEMMA ExecuteFields ==
  ASSUME TypeOK, Execute
  PROVE  LET stays == StaysInExecute(cpu.instr, CpuTick.remaining)
         IN  /\ turn = 0 /\ turn' = 1 /\ ppu' = ppu /\ dma_cycles_left' = dma_cycles_left
             /\ cpu'.instr = cpu.instr
             /\ cpu'.state = IF stays THEN "EXECUTE" ELSE "FETCH"
             /\ cpu'.remaining = IF stays THEN CpuTick.remaining ELSE 0
             /\ cpu'.process_interrupt <=>
                  (cpu.process_interrupt /\ ~io.ignore_nmi) \/ io.nmi_pending
             /\ ~io.nmi_lookahead => (cpu'.delay_nmi <=> cpu.delay_nmi)
             /\ cpu'.cycle = NextCycle(cpu.cycle)
<1> DEFINE stays == StaysInExecute(cpu.instr, CpuTick.remaining)
           after == AfterExecute(IoTick)
           st == IF stays THEN "EXECUTE" ELSE "FETCH"
           re == IF stays THEN CpuTick.remaining ELSE 0
           pr == CpuTick.process_interrupt \/ after.nmi_pending
           de == IF after.nmi_lookahead
                 THEN ~(cpu.state = "DECODE" /\ cpu.instr.mode = "ABS_JMP")
                 ELSE CpuTick.delay_nmi
<1>1. CpuTick \in CpuType
  BY TickType
<1>2. cpu' = [CpuTick EXCEPT !.state = st, !.remaining = re,
                             !.process_interrupt = pr, !.delay_nmi = de]
  <2>1. CpuTick.remaining = CpuTick.remaining
    OBVIOUS
  <2> QED BY DEF Execute
<1>3. /\ after.nmi_pending = io.nmi_pending /\ after.nmi_lookahead = io.nmi_lookahead
  BY ExecuteSignals, TickFields, TickSignals DEF Signals
<1>4. turn = 0 /\ turn' = 1 /\ ppu' = ppu /\ dma_cycles_left' = dma_cycles_left
  BY DEF Execute
<1>5. pr <=> (cpu.process_interrupt /\ ~io.ignore_nmi) \/ io.nmi_pending
  BY <1>3, TickFields, Zenon
<1>6. ~io.nmi_lookahead => (de <=> cpu.delay_nmi)
  BY <1>3, TickFields, Zenon
<1> HIDE DEF st, re, pr, de
<1>7. /\ cpu'.instr = CpuTick.instr /\ cpu'.state = st /\ cpu'.remaining = re
      /\ cpu'.cycle = CpuTick.cycle
      /\ cpu'.process_interrupt = pr /\ cpu'.delay_nmi = de
  BY <1>1, <1>2 DEF CpuType
<1>8. cpu'.process_interrupt <=> (cpu.process_interrupt /\ ~io.ignore_nmi) \/ io.nmi_pending
  BY <1>5, <1>7, Zenon
<1>9. ~io.nmi_lookahead => (cpu'.delay_nmi <=> cpu.delay_nmi)
  BY <1>6, <1>7, Zenon
<1> QED BY <1>4, <1>7, <1>8, <1>9, TickFields DEF st, re

LEMMA FetchFields ==
  ASSUME TypeOK, FetchOpcode
  PROVE  /\ turn = 0 /\ turn' = 1 /\ ppu' = ppu /\ dma_cycles_left' = dma_cycles_left
         /\ cpu.state = "FETCH" /\ cpu'.state = "DECODE"
         /\ cpu'.instr \in Program /\ cpu'.remaining = MaxCycles[cpu'.instr.mode]
         /\ ~cpu'.delay_nmi
         /\ cpu'.process_interrupt <=> cpu.process_interrupt /\ ~io.ignore_nmi
         /\ io'.buffer = io.buffer
<1>1. CpuTick \in CpuType
  BY TickType
<1>2. PICK i \in Program : cpu' = Fetched(i)
  BY DEF FetchOpcode
<1> DEFINE m == MaxCycles[i.mode]
<1>3. cpu' = [CpuTick EXCEPT !.state = "DECODE", !.instr = i, !.remaining = m,
                             !.delay_nmi = FALSE]
  BY <1>2 DEF Fetched
<1> HIDE DEF m
<1>4. /\ cpu'.state = "DECODE" /\ cpu'.instr = i /\ cpu'.remaining = m /\ ~cpu'.delay_nmi
      /\ cpu'.process_interrupt = CpuTick.process_interrupt
  BY <1>1, <1>3 DEF CpuType
<1>5. cpu'.process_interrupt <=> cpu.process_interrupt /\ ~io.ignore_nmi
  BY <1>4, TickFields, Zenon
<1> QED BY <1>4, <1>5, TickFields DEF FetchOpcode, m

LEMMA DecodeFields ==
  ASSUME TypeOK, Decode
  PROVE  /\ turn = 0 /\ turn' = 1 /\ ppu' = ppu /\ dma_cycles_left' = dma_cycles_left
         /\ cpu.state = "DECODE" /\ cpu'.state = "DECODE" /\ cpu'.instr = cpu.instr
         /\ cpu'.remaining = IF cpu.remaining > 0 THEN cpu.remaining - 1 ELSE 0
         /\ cpu'.delay_nmi = cpu.delay_nmi
         /\ cpu'.process_interrupt <=> cpu.process_interrupt /\ ~io.ignore_nmi
BY TickFields DEF Decode

LEMMA DmaFields ==
  ASSUME TypeOK, ExecuteDma
  PROVE  /\ turn = 0 /\ turn' = 1 /\ ppu' = ppu
         /\ cpu.state = "FETCH" /\ cpu'.state = "FETCH"
         /\ cpu'.delay_nmi = cpu.delay_nmi
         /\ cpu'.process_interrupt <=> cpu.process_interrupt /\ ~io.ignore_nmi
         /\ cpu'.cycle = NextCycle(cpu.cycle)
BY TickFields DEF ExecuteDma

LEMMA NmiFields ==
  ASSUME TypeOK, ExecuteNmi
  PROVE  /\ turn = 0 /\ turn' = 1 /\ ppu' = ppu
         /\ cpu.state = "FETCH" /\ cpu'.state = "FETCH" /\ cpu'.instr = cpu.instr
         /\ cpu.process_interrupt /\ ~io.ignore_nmi /\ ~cpu.delay_nmi
         /\ ~cpu'.delay_nmi /\ (cpu'.process_interrupt <=> ~NmiEnds)
         /\ io'.buffer = io.buffer
         /\ io'.nmi_pending <=> io.nmi_pending /\ ~NmiEnds
         /\ io'.nmi_cycles_left = NmiCyclesAfter
<1>1. CpuTick \in CpuType /\ IoTick \in IoType
  BY TickType
<1>2. /\ turn = 0 /\ turn' = 1 /\ ppu' = ppu /\ cpu.state = "FETCH"
      /\ CpuTick.process_interrupt /\ ~cpu.delay_nmi
  BY DEF ExecuteNmi, TakesNmi
<1> DEFINE go == ~NmiEnds
           left == NmiCyclesAfter
           pend == IoTick.nmi_pending /\ ~NmiEnds
<1>3. /\ cpu' = [CpuTick EXCEPT !.process_interrupt = go]
      /\ io' = [IoTick EXCEPT !.nmi_pending = pend, !.nmi_cycles_left = left]
  BY DEF ExecuteNmi
<1>6. /\ go <=> ~NmiEnds
      /\ left = NmiCyclesAfter
      /\ pend <=> io.nmi_pending /\ ~NmiEnds
  BY TickFields, Zenon
<1> HIDE DEF go, left, pend
<1>4. /\ cpu'.state = CpuTick.state /\ cpu'.instr = CpuTick.instr
      /\ cpu'.delay_nmi = CpuTick.delay_nmi /\ cpu'.process_interrupt = go
      /\ io'.buffer = IoTick.buffer /\ io'.nmi_pending = pend
      /\ io'.nmi_cycles_left = left
  BY <1>1, <1>3 DEF CpuType, IoType
<1>5. /\ cpu'.process_interrupt <=> ~NmiEnds
      /\ io'.nmi_pending <=> io.nmi_pending /\ ~NmiEnds
  BY <1>4, <1>6, Zenon
<1>7. cpu.process_interrupt /\ ~io.ignore_nmi
  BY <1>2, TickFields, Zenon
<1>8. ~cpu'.delay_nmi
  BY <1>2, <1>4, TickFields
<1> QED BY <1>2, <1>4, <1>5, <1>6, <1>7, <1>8, TickFields

LEMMA CpuInstructionInv ==
  ASSUME TypeOK, ClockCpu, InstructionInv
  PROVE  InstructionInv'
<1>1. CASE ExecuteNmi
  BY <1>1, NmiFields DEF InstructionInv
<1>2. CASE ExecuteDma
  BY <1>2, DmaFields DEF InstructionInv
<1>3. CASE FetchOpcode
  BY <1>3, FetchFields, FetchedLonger DEF InstructionInv, Stuck
<1>4. CASE Decode
  <2> SUFFICES ASSUME ~Stuck PROVE cpu'.remaining > LastCycle(cpu'.instr)
    BY <1>4, DecodeFields DEF InstructionInv, Stuck
  <2>1. cpu.remaining > LastCycle(cpu.instr) /\ cpu.remaining \in 0..7
    BY <1>4, DecodeFields DEF InstructionInv, TypeOK, CpuType
  <2>2. cpu'.instr = cpu.instr /\ cpu'.remaining = cpu.remaining - 1
    BY <1>4, <2>1, DecodeFields, LastCycleBound
  <2>3. CpuTick.remaining # LastCycle(cpu.instr) /\ CpuTick = cpu'
    BY <1>4, DecodeFields DEF Decode, Executes, Stuck
  <2> QED BY <2>1, <2>2, <2>3, LastCycleBound
<1>5. CASE Execute
  <2> SUFFICES ASSUME StaysInExecute(cpu.instr, CpuTick.remaining)
               PROVE  cpu'.instr.mode \in Immediate /\ cpu'.remaining > 1
    BY <1>5, ExecuteFields DEF InstructionInv
  <2>1. cpu.instr.mode \in Immediate /\ CpuTick.remaining # 1
    BY DEF StaysInExecute
  <2>2. cpu.remaining > 1 /\ cpu.remaining \in 0..7
    BY <1>5, <2>1, LastCycleBound
    DEF Execute, Executes, InstructionInv, Stuck, TypeOK, CpuType
  <2>3. CpuTick.remaining = cpu.remaining - 1
    BY <2>2, TickFields
  <2> QED BY <1>5, <2>1, <2>2, <2>3, ExecuteFields
<1> QED BY <1>1, <1>2, <1>3, <1>4, <1>5 DEF ClockCpu

(* A CPU that is stuck stays so; it has done so while decoding.             *)
LEMMA StuckForEver ==
  ASSUME TypeOK, ClockCpu
  PROVE  /\ Stuck => Stuck'
         /\ Stuck' => Stuck \/ FetchOpcode
<1>1. Stuck => Decode
  BY DEF Stuck, ClockCpu, ExecuteNmi, ExecuteDma, FetchOpcode, Execute, Executes
<1>2. Decode => (Stuck <=> Stuck')
  BY DecodeFields DEF Stuck
<1>3. Stuck' => Decode \/ FetchOpcode
  BY NmiFields, DmaFields, ExecuteFields DEF Stuck, ClockCpu
<1> QED BY <1>1, <1>2, <1>3

-----------------------------------------------------------------------------
(* A REQUEST IN THE LAST DOTS OF THE POST-RENDER SCANLINE, and what is left *)
(* of one when the next picture has begun                                   *)

NoCtrl == io.buffer.on => io.buffer.address # "ctrl"

(* The write that switches NMIs on is the last of its instruction.          *)
CtrlWriterInv ==
  io.buffer.on /\ io.buffer.address = "ctrl" /\ io.buffer.value => cpu.state = "FETCH"

(* An instruction just fetched.                                             *)
Fresh == cpu.state = "DECODE" /\ cpu.remaining = MaxCycles[cpu.instr.mode]

(* The dot of the last clock of the CPU, counted from the first dot of the  *)
(* post-render scanline the warm-up may show the VBlank flag on.            *)
LastClockAt == ppu.dot - (LastDot - 6) - SinceCpu

(* Only the warm-up brings a request as early as that.  The CPU has one     *)
(* more instruction to fetch, and what is left of the line is too short for *)
(* this one to write to $2000 or for the NMI to begin.                      *)
LateInv ==
  io.nmi_pending /\ ppu.scanline = PostRender /\ ~Stuck =>
    /\ io.nmi_enabled /\ NoCtrl /\ io.nmi_cycles_left = 7
    /\ LastClockAt >= -2
    /\ LastClockAt < 1 => cpu.state = "FETCH" /\ cpu.delay_nmi
    /\ LastClockAt < 4 => (cpu.state = "FETCH" /\ cpu.delay_nmi) \/ Fresh

(* The clocks a DMA still takes, and those a requested NMI takes at most.   *)
DmaLeft ==
  IF ~io.dma_pending THEN 0
  ELSE IF dma_cycles_left = DmaIdle /\ cpu.cycle % 2 = 1 THEN DmaIdle + 1
  ELSE dma_cycles_left

Latched == cpu.process_interrupt /\ ~io.ignore_nmi /\ ~cpu.delay_nmi

Work ==
  IF cpu.state = "FETCH"
    THEN IF Latched THEN io.nmi_cycles_left ELSE DmaLeft + 14
  ELSE IF cpu.delay_nmi THEN DmaIdle + 14 + cpu.remaining ELSE cpu.remaining + 6

(* In the picture no new request comes, and none is delayed again: what has *)
(* been worked off by the CPU since the first dot is not less than the dots *)
(* of the beam, three for a clock.                                          *)
AgeInv ==
  io.nmi_pending /\ ppu.scanline =< LastVisible /\ ~Stuck =>
    ScanlineStart(ppu.scanline) + ppu.dot =< 3 * (NmiLatency - Work) + SinceCpu

(* A sequence that has begun finds its latch set and its request standing.  *)
SequenceInv ==
  io.nmi_cycles_left < 7 =>
    /\ cpu.state = "FETCH" /\ cpu.process_interrupt /\ ~cpu.delay_nmi
    /\ io.nmi_pending /\ ~io.ignore_nmi /\ ~io.suppress_nmi_flag /\ NoCtrl

NmiInv ==
  /\ BaseInv /\ SignalsInv /\ InstructionInv
  /\ CtrlWriterInv /\ LateInv /\ AgeInv /\ SequenceInv

(* Where the flag is when a dot sees it.                                    *)
LEMMA ShownLate ==
  ASSUME TypeOK, ClockPpu, WarmupInv, VBlankWindow, SignalsInv, Showing
  PROVE  /\ ppu'.scanline >= PostRender
         /\ ppu'.scanline = PostRender => ppu'.dot >= LastDot - 6
<1>1. CASE io.vblank
  <2>1. ppu.scanline >= PostRender /\ (ppu.scanline = PreRender => ppu.dot = 0)
    BY <1>1 DEF VBlankWindow
  <2>2. ppu'.scanline >= PostRender
    BY <2>1, BeamMoves, Lines
  <2>3. ASSUME ppu'.scanline = PostRender PROVE ppu'.dot >= LastDot - 6
    <3>1. ppu.scanline = PostRender /\ ppu.dot # LastDot
      BY <2>1, <2>3, BeamMoves, Lines
    <3> QED BY <1>1, <3>1, BeamMoves, Lines DEF SignalsInv, EarlyVBlankInv
  <2> QED BY <2>2, <2>3
<1>2. CASE ~io.vblank
  <2>1. ppu'.scanline = PostRender /\ ppu'.dot >= LastDot - 6
    BY <1>2, ShowingFrom
  <2> QED BY <2>1, Lines
<1> QED BY <1>1, <1>2

LEMMA FreshDoesNotWrite ==
  ASSUME TypeOK, ClockCpu, Fresh, ~Stuck
  PROVE  io'.buffer = io.buffer /\ (Decode \/ Execute)
<1>1. Decode \/ Execute
  BY DEF Fresh, ClockCpu, ExecuteNmi, ExecuteDma, FetchOpcode
<1> DEFINE i == cpu.instr
           r == CpuTick.remaining
<1>2. /\ i \in Program \union {Reset} /\ i.mode \in Mode
      /\ MaxCycles[i.mode] \in 0..7 /\ cpu.remaining = MaxCycles[i.mode]
  BY InstructionFields, MaxCyclesBound DEF TypeOK, CpuType, Fresh
<1>3. r = IF MaxCycles[i.mode] > 0 THEN MaxCycles[i.mode] - 1 ELSE 0
  BY <1>2, TickFields
<1>4. ~DummyWrite(i, r)
  BY <1>3 DEF DummyWrite, MaxCycles
<1>5. CASE Decode
  BY <1>1, <1>4, <1>5, AfterDecodeFields DEF Decode
<1>6. CASE Execute
  <2>1. Executes(i, r)
    BY <1>6 DEF Execute, Fresh
  <2>2. i.op \notin {"write", "modify"}
    <3> SUFFICES ASSUME i.op \in {"write", "modify"} PROVE FALSE
      OBVIOUS
    <3>1. i.mode \in LoadStoreMode \union RmwMode /\ (i.op = "modify" => i.mode \in RmwMode)
      BY ProgramAssumption, <1>2 DEF Reset, Instruction
    <3>2. LastCycle(i) = 1
      BY <3>1 DEF LastCycle, IndexedLastCycle, fixed_cycles_on_store, Indexed, RmwMode,
                  LoadStoreMode
    <3>3. i.mode \notin Immediate
      BY <3>1 DEF Immediate, RmwMode, LoadStoreMode
    <3>4. MaxCycles[i.mode] >= 3
      BY <3>1 DEF MaxCycles, RmwMode, LoadStoreMode
    <3> QED BY <1>2, <1>3, <2>1, <3>2, <3>3, <3>4 DEF Executes
  <2>3. io' = AfterExecute(IoTick)
    BY <1>6 DEF Execute
  <2> QED BY <1>1, <2>2, <2>3, AfterExecuteFields
<1> QED BY <1>1, <1>5, <1>6

LEMMA DmaKeepsBuffer ==
  ASSUME TypeOK, ExecuteDma
  PROVE  io'.buffer = io.buffer
BY TickType, TickFields DEF ExecuteDma, IoType

LEMMA CpuCtrlWriterInv ==
  ASSUME ClockInv, ClockCpu
  PROVE  CtrlWriterInv'
<1>1. TypeOK /\ turn = 0
  BY ClockCpuUnannounced DEF ClockInv
<1>2. io.buffer.on => io.buffer.address # "ctrl"
  BY <1>1 DEF ClockInv, BufferInv
<1>3. CASE io'.buffer = io.buffer
  BY <1>2, <1>3 DEF CtrlWriterInv
<1>4. CASE io'.buffer # io.buffer
  <2>1. ~ExecuteNmi /\ ~FetchOpcode
    BY <1>1, <1>4, NmiFields, FetchFields
  <2>2. ~ExecuteDma
    BY <1>1, <1>4, DmaKeepsBuffer
  <2>3. CASE Decode
    <3> DEFINE read == AfterDummyRead(IoTick)
               i == cpu.instr
    <3>1. io' = AfterDummyWrite(read)
      BY <2>3 DEF Decode
    <3>2. i \in Program \union {Reset} /\ CpuTick.remaining \in Nat /\ IoTick \in IoType
      BY <1>1, TickType DEF TypeOK, CpuType
    <3>3. i.reg \in Register
      BY <3>2, InstructionFields
    <3>4. read \in IoType /\ read.buffer = io.buffer
      BY <1>1, <3>2, DummyReadRegister, ReadRegisterType, ReadRegisterFields, TickFields
      DEF AfterDummyRead
    <3> HIDE DEF read
    <3>5. io' = WriteRegister(read, i.reg, FALSE)
      BY <1>4, <3>1, <3>4 DEF AfterDummyWrite
    <3>6. io'.buffer = read.buffer \/ io'.buffer.value = FALSE
      BY <3>3, <3>4, <3>5 DEF WriteRegister, delay_write_ppu_reg, IoType
    <3> QED BY <1>4, <3>4, <3>6 DEF CtrlWriterInv
  <2>4. CASE Execute
    <3>1. cpu.instr.op \in {"write", "modify"}
      BY <1>1, <1>4, <2>4, AfterExecuteFields DEF Execute
    <3>2. cpu'.state = "FETCH"
      BY <1>1, <2>4, <3>1, WritersEnd, ExecuteFields
    <3> QED BY <3>2 DEF CtrlWriterInv
  <2> QED BY <2>1, <2>2, <2>3, <2>4 DEF ClockCpu
<1> QED BY <1>3, <1>4

LEMMA CpuLateInv ==
  ASSUME NmiInv, ClockCpu
  PROVE  LateInv'
<1> SUFFICES ASSUME io'.nmi_pending, ppu'.scanline = PostRender, ~Stuck'
             PROVE  LateInv'
  BY DEF LateInv
<1>1. TypeOK /\ ClockInv /\ turn = 0 /\ ppu' = ppu
  BY ClockCpuUnannounced DEF NmiInv, BaseInv, ClockInv
<1>2. /\ io.nmi_pending /\ ppu.scanline = PostRender /\ ~Stuck
      /\ io'.nmi_enabled = io.nmi_enabled
      /\ ~ExecuteNmi => io'.nmi_cycles_left = io.nmi_cycles_left
  BY <1>1, ClockCpuSignals, StuckForEver
<1>3. /\ io.nmi_enabled /\ NoCtrl /\ io.nmi_cycles_left = 7
      /\ LastClockAt >= -2
      /\ LastClockAt < 1 => cpu.state = "FETCH" /\ cpu.delay_nmi
      /\ LastClockAt < 4 => (cpu.state = "FETCH" /\ cpu.delay_nmi) \/ Fresh
  BY <1>2 DEF NmiInv, LateInv
<1>4. /\ LastClockAt \in Int /\ LastClockAt < 4 /\ LastClockAt' = LastClockAt + 3
  BY <1>1, DotsSinceCpu, Lines DEF LastClockAt, TypeOK, PpuType
<1>5. CASE cpu.state = "FETCH" /\ cpu.delay_nmi
  <2>1. ~ExecuteNmi
    BY <1>1, <1>5, NmiFields
  <2>2. ExecuteDma \/ FetchOpcode
    BY <1>5, <2>1 DEF ClockCpu, Decode, Execute
  <2>3. io'.buffer = io.buffer
    BY <1>1, <2>2, FetchFields, DmaKeepsBuffer
  <2>4. (cpu'.state = "FETCH" /\ cpu'.delay_nmi) \/ Fresh'
    BY <1>1, <1>5, <2>2, FetchFields, DmaFields DEF Fresh
  <2>5. NoCtrl'
    BY <1>3, <2>3 DEF NoCtrl
  <2> QED BY <1>2, <1>3, <1>4, <2>1, <2>4, <2>5 DEF LateInv
<1>6. CASE Fresh /\ LastClockAt >= 1
  <2>1. io'.buffer = io.buffer /\ ~ExecuteNmi
    BY <1>1, <1>2, <1>6, FreshDoesNotWrite DEF ExecuteNmi, Fresh
  <2>2. NoCtrl'
    BY <1>3, <2>1 DEF NoCtrl
  <2>3. LastClockAt' >= 4
    BY <1>4, <1>6
  <2> QED BY <1>2, <1>3, <1>4, <2>1, <2>2, <2>3 DEF LateInv
<1> QED BY <1>3, <1>4, <1>5, <1>6

(* A write in the buffer never is one to $2000 that was not there before.   *)
LEMMA PpuNoCtrl ==
  ASSUME TypeOK, ClockPpu
  PROVE  /\ NoCtrl => NoCtrl' /\ ~FlushesCtrl
         /\ FlushesCtrl => NoCtrl'
<1>1. CountsDown(io.buffer, io'.buffer)
  BY ClockPpuFields
<1> QED BY <1>1 DEF CountsDown, NoCtrl, FlushesCtrl

LEMMA WorkBound ==
  ASSUME TypeOK, InstructionInv, ~Stuck
  PROVE  Work \in 1..NmiLatency /\ NmiLatency \in Nat
<1>1. DmaIdle \in Nat /\ NmiLatency = DmaIdle + 21
  BY ClockAssumption DEF DmaIdle, NmiLatency
<1>2. dma_cycles_left \in 1..DmaIdle /\ cpu.remaining \in 0..7 /\ io.nmi_cycles_left \in 1..7
  BY DEF TypeOK, CpuType, IoType
<1>3. DmaLeft \in 0..DmaIdle + 1
  BY <1>1, <1>2 DEF DmaLeft
<1> QED BY <1>1, <1>2, <1>3 DEF Work

LEMMA PpuAgeInv ==
  ASSUME NmiInv, ClockPpu
  PROVE  AgeInv'
<1> SUFFICES ASSUME io'.nmi_pending, ppu'.scanline =< LastVisible, ~Stuck'
             PROVE  ScanlineStart(ppu'.scanline) + ppu'.dot =< 3 * (NmiLatency - Work') + SinceCpu'
  <2>1. NmiLatency' = NmiLatency /\ LastVisible' = LastVisible
    BY DEF NmiLatency, DmaIdle
  <2> QED BY <2>1 DEF AgeInv, ScanlineStart
<1>1. TypeOK
  BY DEF NmiInv, BaseInv, ClockInv
<1>2. ppu'.scanline # nmi_start /\ ~Rerequests
  <2>1. ~(ppu'.scanline >= PostRender) /\ ppu'.scanline # nmi_start
    BY <1>1, BeamMoves, Lines
  <2> QED BY <1>1, <2>1, ShownLate, ClockPpuSignals DEF NmiInv, BaseInv
<1>3. /\ io.nmi_pending /\ io'.ignore_nmi = io.ignore_nmi
      /\ (cpu'.delay_nmi <=> cpu.delay_nmi)
      /\ io'.nmi_cycles_left = io.nmi_cycles_left
  BY <1>1, <1>2, ClockPpuElsewhere, ClockPpuSignals
<1>4. /\ cpu'.state = cpu.state /\ cpu'.instr = cpu.instr
      /\ cpu'.remaining = cpu.remaining /\ cpu'.cycle = cpu.cycle
      /\ cpu'.process_interrupt = cpu.process_interrupt
      /\ io'.dma_pending = io.dma_pending /\ dma_cycles_left' = dma_cycles_left
  BY <1>1, ClockPpuFields DEF ClockPpu
<1>5. ~Stuck
  BY <1>4 DEF Stuck
<1>6. Work' = Work
  <2>1. DmaLeft' = DmaLeft
    BY <1>4 DEF DmaLeft, DmaIdle
  <2>2. Latched' <=> Latched
    BY <1>3, <1>4 DEF Latched
  <2> QED BY <1>3, <1>4, <2>1, <2>2 DEF Work, DmaIdle
<1>7. Work \in 1..NmiLatency /\ NmiLatency \in Nat
  BY <1>1, <1>5, WorkBound DEF NmiInv
<1>8. SinceCpu \in 0..2 /\ SinceCpu' = SinceCpu + 1
  BY <1>1, DotsSinceCpu
<1> PICK old \in 0..PreRender, d \in 0..LastDot : old = ppu.scanline /\ d = ppu.dot
  BY <1>1 DEF TypeOK, PpuType
<1> PICK new \in 0..PreRender, e \in 0..LastDot : new = ppu'.scanline /\ e = ppu'.dot
  BY <1>1, BeamMoves
<1>9. /\ d # LastDot => new = old /\ e = d + 1
      /\ d = LastDot => e = 0 /\ new = IF old = PreRender THEN 0 ELSE old + 1
      /\ new =< LastVisible
  BY <1>1, BeamMoves, Lines
<1>10. old = PreRender => new = 0 /\ e = 0
  BY <1>9, Lines
<1>11. old # PreRender => old =< LastVisible
  BY <1>9, Lines
<1>12. old # PreRender =>
         ScanlineStart(old) + d =< 3 * (NmiLatency - Work) + SinceCpu
  BY <1>3, <1>5, <1>11, Zenon DEF NmiInv, AgeInv
<1>13. ScanlineStart(new) + e =< 3 * (NmiLatency - Work) + SinceCpu'
  <2>1. CASE old = PreRender
    BY <1>7, <1>8, <1>10, <2>1, ScanlineStarts
  <2>2. CASE old # PreRender
    <3>1. /\ ScanlineStart(old) \in Nat
          /\ ScanlineStart(old + 1) = ScanlineStart(old) + LastDot + 1
      <4>1. old \in Nat
        BY Lines
      <4> QED BY <4>1, ScanlineStarts
    <3>2. ScanlineStart(new) + e = ScanlineStart(old) + d + 1
      BY <1>9, <2>2, <3>1, Lines
    <3>3. ScanlineStart(old) + d =< 3 * (NmiLatency - Work) + SinceCpu
      BY <1>12, <2>2
    <3> PICK start \in Nat : start = ScanlineStart(old)
      BY <3>1
    <3> PICK since \in 0..2 : since = SinceCpu
      BY <1>8
    <3> PICK left \in Int : left = NmiLatency - Work
      BY <1>7
    <3>4. start + d =< 3 * left + since
      BY <3>3
    <3> QED BY <1>8, <3>2, <3>4
  <2> QED BY <2>1, <2>2
<1> QED BY <1>6, <1>13, Zenon

LEMMA PpuInstructionInv ==
  ASSUME TypeOK, ClockPpu, InstructionInv, CtrlWriterInv
  PROVE  InstructionInv' /\ CtrlWriterInv' /\ (Stuck' <=> Stuck)
<1>1. /\ cpu'.state = cpu.state /\ cpu'.instr = cpu.instr /\ cpu'.remaining = cpu.remaining
      /\ CountsDown(io.buffer, io'.buffer)
  BY ClockPpuFields
<1>2. InstructionInv' /\ (Stuck' <=> Stuck)
  BY <1>1 DEF InstructionInv, Stuck
<1>3. CtrlWriterInv'
  BY <1>1 DEF CtrlWriterInv, CountsDown
<1> QED BY <1>2, <1>3

(* A pending request does not outlast the picture.                          *)
LEMMA NotSoLong ==
  ASSUME NmiInv, ClockPpu, io.nmi_pending, ~Stuck
  PROVE  ~(ppu.scanline = LastVisible /\ ppu.dot = LastDot)
<1> SUFFICES ASSUME ppu.scanline = LastVisible, ppu.dot = LastDot PROVE FALSE
  OBVIOUS
<1>1. TypeOK
  BY DEF NmiInv, BaseInv, ClockInv
<1>2. ScanlineStart(LastVisible) + LastDot =< 3 * (NmiLatency - Work) + SinceCpu
  BY Lines DEF NmiInv, AgeInv
<1>3. Work \in 1..NmiLatency /\ NmiLatency \in Nat
  BY <1>1, WorkBound DEF NmiInv
<1>4. ScanlineStart(PostRender) = ScanlineStart(LastVisible) + LastDot + 1
      /\ ScanlineStart(LastVisible) \in Nat
  BY ScanlineStarts, Lines
<1>5. 3 * NmiLatency < ScanlineStart(PostRender)
  BY PictureAssumption
<1>6. SinceCpu \in 0..2
  BY <1>1, DotsSinceCpu
<1> QED BY <1>2, <1>3, <1>4, <1>5, <1>6, Lines

LEMMA PpuLateInv ==
  ASSUME NmiInv, ClockPpu
  PROVE  LateInv'
<1> SUFFICES ASSUME io'.nmi_pending, ppu'.scanline = PostRender, ~Stuck'
             PROVE  LateInv'
  BY DEF LateInv
<1>1. TypeOK /\ BufferInv /\ ppu'.scanline # nmi_start
  BY Lines DEF NmiInv, BaseInv, ClockInv
<1>2. /\ cpu'.state = cpu.state /\ cpu'.instr = cpu.instr /\ cpu'.remaining = cpu.remaining
      /\ ~Stuck
  BY <1>1, ClockPpuFields DEF Stuck
<1>3. /\ io.nmi_pending \/ Rerequests
      /\ io'.nmi_cycles_left = io.nmi_cycles_left
      /\ io'.nmi_enabled = IF FlushesCtrl THEN io.buffer.value ELSE io.nmi_enabled
      /\ Rerequests => FlushesCtrl /\ Showing /\ io'.nmi_enabled
      /\ cpu'.delay_nmi <=> cpu.delay_nmi \/ Rerequests
  BY <1>1, ClockPpuElsewhere, ClockPpuSignals
<1>4. SinceCpu \in 0..2 /\ SinceCpu' = SinceCpu + 1
  BY <1>1, DotsSinceCpu
<1>5. CASE Rerequests
  <2>1. FlushesCtrl /\ io.buffer.value /\ io'.nmi_enabled
    BY <1>3, <1>5
  <2>2. ppu'.dot >= LastDot - 6 /\ ppu'.dot \in 0..LastDot
    BY <1>1, <1>3, <1>5, ShownLate, BeamMoves DEF NmiInv, BaseInv
  <2>3. SinceCpu' = 2
    <3>1. turn = 2
      BY <1>1, <2>1 DEF BufferInv, FlushesCtrl, ClockPpu
    <3> QED BY <1>4, <3>1 DEF SinceCpu
  <2>4. LastClockAt' >= -2
    BY <2>2, <2>3, Lines DEF LastClockAt
  <2>5. cpu'.state = "FETCH" /\ cpu'.delay_nmi
    BY <1>2, <1>3, <1>5, <2>1 DEF NmiInv, CtrlWriterInv, FlushesCtrl
  <2>6. NoCtrl'
    BY <1>1, <2>1, PpuNoCtrl
  <2>7. io'.nmi_cycles_left = 7
    <3>1. ~(io.nmi_cycles_left < 7)
      BY <2>1 DEF NmiInv, SequenceInv, NoCtrl, FlushesCtrl
    <3> QED BY <1>1, <1>3, <3>1 DEF TypeOK, IoType
  <2> QED BY <2>1, <2>4, <2>5, <2>6, <2>7 DEF LateInv
<1>6. CASE ~Rerequests /\ ppu.scanline = PostRender
  <2>1. /\ io.nmi_enabled /\ NoCtrl /\ io.nmi_cycles_left = 7
        /\ LastClockAt >= -2
        /\ LastClockAt < 1 => cpu.state = "FETCH" /\ cpu.delay_nmi
        /\ LastClockAt < 4 => (cpu.state = "FETCH" /\ cpu.delay_nmi) \/ Fresh
    BY <1>2, <1>3, <1>6 DEF NmiInv, LateInv
  <2>2. ppu'.dot = ppu.dot + 1 /\ ppu.dot \in 0..LastDot
    BY <1>1, <1>6, BeamMoves, Lines
  <2>3. LastClockAt' = LastClockAt
    BY <1>4, <2>2, Lines DEF LastClockAt
  <2>4. NoCtrl' /\ ~FlushesCtrl
    BY <1>1, <2>1, PpuNoCtrl
  <2>5. Fresh' <=> Fresh
    BY <1>2 DEF Fresh
  <2>6. io'.nmi_enabled /\ io'.nmi_cycles_left = 7
    BY <1>3, <2>1, <2>4
  <2> QED BY <1>2, <1>3, <1>6, <2>1, <2>3, <2>4, <2>5, <2>6 DEF LateInv
<1>7. CASE ~Rerequests /\ ppu.scanline # PostRender
  <2>1. ppu.scanline = LastVisible /\ ppu.dot = LastDot
    BY <1>1, <1>7, BeamMoves, Lines
  <2> QED BY <1>2, <1>3, <1>7, <2>1, NotSoLong
<1> QED BY <1>5, <1>6, <1>7

LEMMA TakesLatched ==
  ASSUME TypeOK
  PROVE  TakesNmi <=> Latched
BY TickFields, Zenon DEF TakesNmi, Latched

(* A clock of a DMA brings its end nearer.                                  *)
LEMMA DmaLeftFalls ==
  ASSUME TypeOK, ExecuteDma
  PROVE  DmaLeft \in Nat /\ DmaLeft' \in Nat /\ DmaLeft' =< DmaLeft - 1
<1> DEFINE c == cpu.cycle
           n == OamSize
           left == dma_cycles_left
<1>1. /\ n \in Nat \ {0} /\ c \in Nat /\ left \in 1..(2 * n + 2) /\ DmaIdle = 2 * n + 2
      /\ cpu'.cycle \in Nat /\ cpu'.cycle % 2 = (c + 1) % 2
  <2>1. n \in Nat \ {0} /\ left \in 1..(2 * n + 2) /\ DmaIdle = 2 * n + 2
    BY ClockAssumption DEF TypeOK, DmaIdle
  <2>2. c \in 0..CycleTop /\ CycleTop \in Nat /\ CycleTop >= 6
    BY ClockAssumption DEF TypeOK, CpuType
  <2>3. cpu'.cycle = IF c < CycleTop THEN c + 1 ELSE CycleTop - 5
    BY DmaFields DEF NextCycle
  <2>4. cpu'.cycle \in Nat /\ cpu'.cycle % 2 = (c + 1) % 2
    BY <2>2, <2>3
  <2> QED BY <2>1, <2>2, <2>4
<1>2. io.dma_pending /\ (io'.dma_pending <=> DmaNext # 0)
      /\ left' = IF DmaNext = 0 THEN DmaIdle ELSE DmaNext
  <2>1. IoTick.dma_pending = io.dma_pending /\ IoTick \in IoType
    BY TickFields, TickType
  <2> QED BY <2>1 DEF ExecuteDma, IoType
<1>3. DmaLeft = IF left = 2 * n + 2 /\ c % 2 = 1 THEN 2 * n + 3 ELSE left
  BY <1>1, <1>2 DEF DmaLeft
<1>4. /\ left = 2 * n + 2 /\ c % 2 = 1 => DmaNext = 2 * n + 2
      /\ left = 2 * n + 2 /\ c % 2 = 0 => DmaNext = 2 * n + 1
      /\ left = 2 * n + 1 => DmaNext = 2 * n - 1
      /\ left < 2 * n + 1 => DmaNext = left - 1
  BY <1>1 DEF DmaNext, DmaIdled, DmaAligned
<1>5. DmaLeft' = IF DmaNext = 0 THEN 0
                 ELSE IF DmaNext = 2 * n + 2 /\ cpu'.cycle % 2 = 1 THEN 2 * n + 3
                 ELSE DmaNext
  <2>1. DmaLeft' = IF ~io'.dma_pending THEN 0
                   ELSE IF left' = DmaIdle /\ cpu'.cycle % 2 = 1 THEN DmaIdle + 1
                   ELSE left'
    BY DEF DmaLeft, DmaIdle
  <2>2. DmaIdle = 2 * n + 2 /\ DmaIdle + 1 = 2 * n + 3
    BY <1>1
  <2>3. CASE DmaNext = 0
    BY <1>2, <2>1, <2>3
  <2>4. CASE DmaNext # 0
    BY <1>2, <2>1, <2>2, <2>4
  <2> QED BY <2>3, <2>4
<1>6. c % 2 \in 0..1 /\ (c % 2 = 1 => cpu'.cycle % 2 # 1)
  BY <1>1
<1>7. n \in Nat /\ n >= 1 /\ left \in Nat /\ left >= 1 /\ left =< 2 * n + 2
  BY <1>1
<1> HIDE DEF n, left, c
<1>8. CASE left = 2 * n + 2 /\ c % 2 = 1
  <2>1. DmaLeft = 2 * n + 3 /\ DmaLeft' = 2 * n + 2
    BY <1>3, <1>4, <1>5, <1>6, <1>7, <1>8
  <2> QED BY <1>7, <2>1
<1>9. CASE left = 2 * n + 2 /\ c % 2 = 0
  <2>1. DmaLeft = left
    BY <1>3, <1>9
  <2>2. DmaNext = 2 * n + 1
    BY <1>4, <1>9
  <2>3. 2 * n + 1 # 0 /\ 2 * n + 1 # 2 * n + 2
    BY <1>7
  <2>4. DmaLeft' = 2 * n + 1
    BY <1>5, <2>2, <2>3
  <2> QED BY <1>7, <1>9, <2>1, <2>4
<1>10. CASE left = 2 * n + 1
  <2>1. DmaLeft = 2 * n + 1 /\ DmaLeft' = 2 * n - 1
    BY <1>3, <1>4, <1>5, <1>7, <1>10
  <2> QED BY <1>7, <2>1
<1>11. CASE left < 2 * n + 1
  <2>1. DmaLeft = left /\ DmaLeft' = left - 1
    BY <1>3, <1>4, <1>5, <1>7, <1>11
  <2> QED BY <1>7, <2>1
<1> QED BY <1>6, <1>7, <1>8, <1>9, <1>10, <1>11

(* While nothing new comes from the PPU, every clock of the CPU works off   *)
(* one of what a requested NMI still takes.                                 *)
LEMMA CpuWork ==
  ASSUME NmiInv, ClockCpu, io'.nmi_pending, ppu.scanline =< LastVisible, ~Stuck'
  PROVE  Work' =< Work - 1
<1>1. TypeOK /\ TypeOK' /\ ~Stuck
  BY NextType, StuckForEver DEF NmiInv, BaseInv, ClockInv, Next
<1>2. /\ io.nmi_pending /\ ~io'.ignore_nmi /\ ~io.ignore_nmi /\ ~io.nmi_lookahead
      /\ ~ExecuteNmi => io'.nmi_cycles_left = io.nmi_cycles_left
  <2>1. ppu.scanline # nmi_start /\ ppu.scanline # PostRender
    BY <1>1, Lines DEF TypeOK, PpuType
  <2> QED BY <1>1, <2>1, ClockCpuSignals DEF NmiInv, SignalsInv, IgnoreInv, LookaheadInv
<1>3. /\ cpu.remaining \in 0..7 /\ cpu'.remaining \in 0..7
      /\ io.nmi_cycles_left \in 1..7 /\ io'.nmi_cycles_left \in 1..7
      /\ DmaIdle \in Nat
  BY <1>1, ClockAssumption DEF TypeOK, CpuType, IoType, DmaIdle
<1>4. DmaLeft' \in 0..DmaIdle + 1
  BY <1>1, <1>3 DEF DmaLeft, TypeOK, DmaIdle
<1>5. cpu.state # "FETCH" => cpu.remaining >= 2
  BY <1>1, <1>3, LastCycleBound DEF NmiInv, InstructionInv, TypeOK, CpuType, Stuck
<1>6. CASE ExecuteNmi
  <2>1. ~NmiEnds /\ io'.nmi_cycles_left = NmiCyclesAfter
    BY <1>1, <1>6, NmiFields, Zenon
  <2>2. io'.nmi_cycles_left = io.nmi_cycles_left - 1
    BY <2>1 DEF NmiEnds, NmiCyclesAfter
  <2>3. cpu.state = "FETCH" /\ cpu'.state = "FETCH"
    BY <1>1, <1>6, NmiFields
  <2>4. Latched /\ Latched'
    BY <1>1, <1>2, <1>6, <2>1, NmiFields, Zenon DEF Latched
  <2> QED BY <1>3, <2>2, <2>3, <2>4 DEF Work
<1>7. CASE ExecuteDma
  <2>1. cpu.state = "FETCH" /\ cpu'.state = "FETCH"
    BY <1>1, <1>7, DmaFields
  <2>2. ~Latched
    BY <1>1, <1>7, TakesLatched DEF ExecuteDma
  <2>3. ~Latched'
    BY <1>1, <1>2, <1>7, <2>2, DmaFields, Zenon DEF Latched
  <2>4. DmaLeft \in Nat /\ DmaLeft' \in Nat /\ DmaLeft' =< DmaLeft - 1
    BY <1>1, <1>7, DmaLeftFalls
  <2>5. Work = DmaLeft + 14 /\ Work' = DmaLeft' + 14
    BY <2>1, <2>2, <2>3 DEF Work
  <2> DEFINE was == DmaLeft
             is == DmaLeft'
  <2>6. was \in Nat /\ is \in Nat /\ is =< was - 1 /\ Work = was + 14 /\ Work' = is + 14
    BY <2>4, <2>5
  <2> HIDE DEF was, is
  <2> QED BY <2>6
<1>8. CASE FetchOpcode
  <2>1. cpu.state = "FETCH" /\ cpu'.state = "DECODE" /\ ~cpu'.delay_nmi
    BY <1>1, <1>8, FetchFields
  <2>2. ~Latched
    BY <1>1, <1>8, TakesLatched DEF FetchOpcode
  <2>3. Work = 14
    BY <1>8, <2>1, <2>2 DEF Work, DmaLeft, FetchOpcode
  <2>4. Work' = cpu'.remaining + 6
    BY <2>1 DEF Work
  <2> QED BY <1>3, <2>3, <2>4
<1>9. CASE Decode
  <2>1. /\ cpu.state = "DECODE" /\ cpu'.state = "DECODE"
        /\ cpu'.delay_nmi = cpu.delay_nmi /\ cpu'.remaining = cpu.remaining - 1
    BY <1>1, <1>3, <1>5, <1>9, DecodeFields
  <2> QED BY <1>3, <2>1 DEF Work, DmaIdle
<1>10. CASE Execute
  <2>1. /\ cpu.state # "FETCH" /\ (cpu'.delay_nmi <=> cpu.delay_nmi)
        /\ cpu'.process_interrupt
        /\ cpu'.state = "FETCH" \/ (cpu'.state = "EXECUTE" /\ cpu'.remaining = CpuTick.remaining)
    BY <1>1, <1>2, <1>10, ExecuteFields DEF Execute
  <2>2. CpuTick.remaining = cpu.remaining - 1
    BY <1>1, <1>3, <1>5, <2>1, TickFields
  <2>3. Work = IF cpu.delay_nmi THEN DmaIdle + 14 + cpu.remaining ELSE cpu.remaining + 6
    BY <2>1 DEF Work
  <2>4. CASE cpu'.state = "FETCH"
    <3>1. Latched' <=> ~cpu.delay_nmi
      BY <1>2, <2>1, Zenon DEF Latched
    <3>2. Work' = IF cpu.delay_nmi THEN DmaLeft' + 14 ELSE io'.nmi_cycles_left
      BY <2>4, <3>1 DEF Work
    <3> QED BY <1>3, <1>4, <1>5, <2>1, <2>3, <3>2
  <2>5. CASE cpu'.state # "FETCH"
    <3>1. Work' = IF cpu.delay_nmi THEN DmaIdle + 14 + cpu'.remaining ELSE cpu'.remaining + 6
      BY <2>1, <2>5 DEF Work, DmaIdle
    <3> QED BY <1>3, <2>1, <2>2, <2>3, <2>5, <3>1
  <2> QED BY <2>4, <2>5
<1> QED BY <1>6, <1>7, <1>8, <1>9, <1>10 DEF ClockCpu

LEMMA CpuAgeInv ==
  ASSUME NmiInv, ClockCpu
  PROVE  AgeInv'
<1> SUFFICES ASSUME io'.nmi_pending, ppu'.scanline =< LastVisible, ~Stuck'
             PROVE  ScanlineStart(ppu'.scanline) + ppu'.dot =< 3 * (NmiLatency - Work') + SinceCpu'
  <2>1. NmiLatency' = NmiLatency
    BY DEF NmiLatency, DmaIdle
  <2> QED BY <2>1 DEF AgeInv, ScanlineStart
<1>1. TypeOK /\ TypeOK' /\ ppu' = ppu /\ ~Stuck /\ io.nmi_pending
  BY NextType, StuckForEver, ClockCpuUnannounced, ClockCpuSignals
  DEF NmiInv, BaseInv, ClockInv, Next
<1>2. ScanlineStart(ppu.scanline) + ppu.dot =< 3 * (NmiLatency - Work) + SinceCpu
  BY <1>1 DEF NmiInv, AgeInv
<1>3. Work' =< Work - 1
  BY <1>1, CpuWork
<1>4. Work \in 1..NmiLatency /\ NmiLatency \in Nat
  BY <1>1, WorkBound DEF NmiInv
<1>5. Work' \in Int
  <2>1. /\ cpu'.remaining \in 0..7 /\ io'.nmi_cycles_left \in 1..7
        /\ dma_cycles_left' \in Int /\ DmaIdle \in Nat
    BY <1>1, ClockAssumption DEF TypeOK, CpuType, IoType, DmaIdle
  <2> QED BY <2>1 DEF Work, DmaLeft, DmaIdle
<1>6. SinceCpu = 3 /\ SinceCpu' = 0
  BY <1>1, DotsSinceCpu
<1>7. ScanlineStart(ppu.scanline) + ppu.dot \in Int
  BY <1>1, Lines, ScanlineStarts DEF TypeOK, PpuType
<1> PICK w \in Int, v \in Int, most \in Nat, at \in Int :
       /\ w = Work /\ v = Work' /\ most = NmiLatency
       /\ at = ScanlineStart(ppu.scanline) + ppu.dot
  BY <1>4, <1>5, <1>7
<1>8. at =< 3 * (most - w) + 3 /\ v =< w - 1
  BY <1>2, <1>3, <1>6
<1>9. at =< 3 * (most - v) + 0
  BY <1>8
<1> QED BY <1>1, <1>6, <1>9

LEMMA CpuSequenceInv ==
  ASSUME NmiInv, ClockCpu
  PROVE  SequenceInv'
<1> SUFFICES ASSUME io'.nmi_cycles_left < 7
             PROVE  SequenceInv'
  BY DEF SequenceInv
<1>1. TypeOK /\ BufferInv /\ NoServiceOfWithdrawnNmi /\ turn = 0
  BY ClockCpuUnannounced DEF NmiInv, BaseInv, ClockInv
<1>2. ExecuteNmi
  <2>1. CASE io.nmi_cycles_left < 7
    <3>1. cpu.state = "FETCH" /\ Latched
      BY <2>1, Zenon DEF NmiInv, SequenceInv, Latched
    <3>2. TakesNmi
      BY <1>1, <3>1, TakesLatched
    <3> QED BY <3>1, <3>2 DEF ClockCpu, ExecuteDma, FetchOpcode, Decode, Execute
  <2>2. CASE ~(io.nmi_cycles_left < 7)
    BY <1>1, <2>2, ClockCpuSignals
  <2> QED BY <2>1, <2>2
<1>3. ~NmiEnds
  <2>1. io'.nmi_cycles_left = NmiCyclesAfter
    BY <1>1, <1>2, NmiFields
  <2> QED BY <2>1 DEF NmiEnds, NmiCyclesAfter
<1>4. io.nmi_pending
  BY <1>1, <1>2, NmiFields DEF NoServiceOfWithdrawnNmi
<1>5. /\ cpu'.state = "FETCH" /\ cpu'.process_interrupt /\ ~cpu'.delay_nmi
      /\ io'.nmi_pending /\ cpu.state = "FETCH" /\ io'.buffer = io.buffer
  BY <1>1, <1>2, <1>3, <1>4, NmiFields, Zenon
<1>6. ~io'.ignore_nmi /\ ~io'.suppress_nmi_flag
  BY <1>1, <1>5, ClockCpuSignals DEF NmiInv, SignalsInv, SuppressInv
<1>7. NoCtrl'
  BY <1>1, <1>5 DEF NoCtrl, BufferInv
<1> QED BY <1>5, <1>6, <1>7 DEF SequenceInv

LEMMA PpuSequenceInv ==
  ASSUME NmiInv, ClockPpu
  PROVE  SequenceInv'
<1> SUFFICES ASSUME io'.nmi_cycles_left < 7
             PROVE  SequenceInv'
  BY DEF SequenceInv
<1>1. TypeOK
  BY DEF NmiInv, BaseInv, ClockInv
<1>2. /\ cpu.state = "FETCH" /\ cpu.process_interrupt /\ ~cpu.delay_nmi
      /\ io.nmi_pending /\ ~io.ignore_nmi /\ ~io.suppress_nmi_flag /\ NoCtrl
      /\ io.nmi_cycles_left < 7
  BY <1>1, ClockPpuSignals DEF NmiInv, SequenceInv
<1>3. NoCtrl' /\ ~FlushesCtrl /\ ~Rerequests
  BY <1>1, <1>2, PpuNoCtrl, ClockPpuSignals
<1>4. /\ cpu'.state = "FETCH" /\ cpu'.process_interrupt /\ ~cpu'.delay_nmi
      /\ ~io'.suppress_nmi_flag /\ io'.nmi_enabled = io.nmi_enabled
  BY <1>1, <1>2, <1>3, ClockPpuFields, ClockPpuSignals
<1>5. io'.nmi_pending /\ ~io'.ignore_nmi
  <2>1. CASE ppu'.scanline # nmi_start
    BY <1>1, <1>2, <2>1, ClockPpuElsewhere
  <2>2. CASE ppu'.scanline = nmi_start
    <3>1. ppu'.dot < 5 => io'.nmi_enabled
      <4> SUFFICES ASSUME ppu'.dot < 5 PROVE io.nmi_enabled
        BY <1>4
      <4>1. CASE ppu.scanline = nmi_start
        <5>1. ppu.dot < 5
          BY <1>1, <2>2, <4>1, BeamMoves, Lines
        <5> QED BY <1>2, <4>1, <5>1 DEF NmiInv, SignalsInv, EnabledInv
      <4>2. CASE ppu.scanline # nmi_start
        <5>1. ppu.scanline = PostRender
          BY <1>1, <2>2, <4>2, BeamMoves, Lines
        <5> QED BY <1>2, <5>1 DEF NmiInv, LateInv, Stuck
      <4> QED BY <4>1, <4>2
    <3> QED BY <1>1, <1>2, <2>2, <3>1, ClockPpuOnNmiStart, Zenon
  <2> QED BY <2>1, <2>2
<1> QED BY <1>3, <1>4, <1>5 DEF SequenceInv

LEMMA InitNmi == Init => NmiInv
<1> SUFFICES ASSUME Init PROVE NmiInv
  OBVIOUS
<1>1. /\ cpu.state = "FETCH" /\ ~io.buffer.on /\ io.nmi_cycles_left = 7
      /\ ~io.nmi_pending /\ ~io.ignore_nmi /\ ~io.suppress_nmi_flag
      /\ ~io.nmi_lookahead /\ ~io.vblank
  BY DEF Init, CpuInit, IoInit, NoWrite
<1>2. SignalsInv
  BY <1>1 DEF SignalsInv, LookaheadInv, IgnoreInv, SuppressInv, EarlyVBlankInv, EnabledInv
<1>3. InstructionInv /\ CtrlWriterInv /\ LateInv /\ AgeInv /\ SequenceInv
  BY <1>1 DEF InstructionInv, CtrlWriterInv, LateInv, AgeInv, SequenceInv
<1> QED BY <1>2, <1>3, InitBase DEF NmiInv

LEMMA NextNmi == NmiInv /\ [Next]_vars => NmiInv'
<1> SUFFICES ASSUME NmiInv, [Next]_vars PROVE NmiInv'
  OBVIOUS
<1>1. /\ BaseInv /\ ClockInv /\ TypeOK /\ WarmupInv /\ VBlankWindow
      /\ SignalsInv /\ InstructionInv /\ CtrlWriterInv
  BY DEF NmiInv, BaseInv, ClockInv
<1>2. BaseInv'
  BY <1>1, NextBase
<1>3. CASE ClockCpu
  <2>1. SignalsInv' /\ InstructionInv' /\ CtrlWriterInv'
    BY <1>1, <1>3, CpuSignalsInv, CpuInstructionInv, CpuCtrlWriterInv
  <2>2. LateInv' /\ AgeInv' /\ SequenceInv'
    BY <1>3, CpuLateInv, CpuAgeInv, CpuSequenceInv
  <2> QED BY <1>2, <2>1, <2>2 DEF NmiInv
<1>4. CASE ClockPpu
  <2>1. SignalsInv' /\ InstructionInv' /\ CtrlWriterInv'
    BY <1>1, <1>4, PpuSignalsInv, PpuInstructionInv
  <2>2. LateInv' /\ AgeInv' /\ SequenceInv'
    BY <1>4, PpuLateInv, PpuAgeInv, PpuSequenceInv
  <2> QED BY <1>2, <2>1, <2>2 DEF NmiInv
<1>5. CASE UNCHANGED vars
  <2>1. cpu' = cpu /\ ppu' = ppu /\ io' = io /\ dma_cycles_left' = dma_cycles_left /\ turn' = turn
    BY <1>5 DEF vars
  <2>2. SignalsInv'
    BY <1>1, <2>1 DEF SignalsInv, LookaheadInv, IgnoreInv, SuppressInv, EarlyVBlankInv,
                      EnabledInv, SinceCpu
  <2>3. InstructionInv' /\ CtrlWriterInv' /\ (Stuck' <=> Stuck)
    BY <1>1, <2>1 DEF InstructionInv, CtrlWriterInv, Stuck
  <2>4. LateInv' /\ SequenceInv'
    BY <2>1, <2>3 DEF NmiInv, LateInv, SequenceInv, LastClockAt, SinceCpu, Fresh, NoCtrl
  <2>5. Work' = Work /\ SinceCpu' = SinceCpu /\ NmiLatency' = NmiLatency
    BY <2>1 DEF Work, Latched, DmaLeft, DmaIdle, SinceCpu, NmiLatency
  <2>6. AgeInv'
    BY <2>1, <2>3, <2>5 DEF NmiInv, AgeInv, ScanlineStart
  <2> QED BY <1>2, <2>2, <2>3, <2>4, <2>6 DEF NmiInv
<1> QED BY <1>3, <1>4, <1>5 DEF Next

(* An NMI sequence that has begun runs its seven clocks, whatever the       *)
(* program does: no DMA, no suppression and no delay comes in between.      *)
THEOREM NmiIsNotBrokenUp == Spec => []NmiSequenceUnbroken
<1>1. NmiInv => NmiSequenceUnbroken
  <2> SUFFICES ASSUME NmiInv, io.nmi_cycles_left < 7
               PROVE  cpu.state = "FETCH" /\ TakesNmi
    BY DEF NmiSequenceUnbroken
  <2>1. TypeOK
    BY DEF NmiInv, BaseInv, ClockInv
  <2>2. cpu.state = "FETCH" /\ Latched
    BY Zenon DEF NmiInv, SequenceInv, Latched
  <2> QED BY <2>1, <2>2, TakesLatched
<1> QED BY <1>1, InitNmi, NextNmi, PTL DEF Spec

(* A request that the vertical blank has left behind is answered before the *)
(* CPU has run NmiLatency clocks of the picture, unless it is stuck.  (That *)
(* it is answered at all is NmiAnswered, which needs fairness.)             *)
AnsweredInTime ==
  io.nmi_pending /\ ppu.scanline =< LastVisible /\ ~Stuck =>
    ScanlineStart(ppu.scanline) + ppu.dot =< 3 * NmiLatency

THEOREM NmiAnsweredInTime == Spec => []AnsweredInTime
<1>1. NmiInv => AnsweredInTime
  <2> SUFFICES ASSUME NmiInv, io.nmi_pending, ppu.scanline =< LastVisible, ~Stuck
               PROVE  ScanlineStart(ppu.scanline) + ppu.dot =< 3 * NmiLatency
    BY DEF AnsweredInTime
  <2>1. TypeOK
    BY DEF NmiInv, BaseInv, ClockInv
  <2>2. ScanlineStart(ppu.scanline) + ppu.dot =< 3 * (NmiLatency - Work) + SinceCpu
    BY DEF NmiInv, AgeInv
  <2>3. Work \in 1..NmiLatency /\ NmiLatency \in Nat
    BY <2>1, WorkBound DEF NmiInv
  <2>4. SinceCpu \in 0..3
    BY <2>1 DEF SinceCpu, TypeOK
  <2>5. ScanlineStart(ppu.scanline) + ppu.dot \in Int
    BY <2>1, Lines, ScanlineStarts DEF TypeOK, PpuType
  <2> DEFINE at == ScanlineStart(ppu.scanline) + ppu.dot
  <2> HIDE DEF at
  <2>6. at \in Int /\ at =< 3 * (NmiLatency - Work) + SinceCpu
    BY <2>2, <2>5 DEF at
  <2>7. at =< 3 * NmiLatency
    BY <2>3, <2>4, <2>6
  <2> QED BY <2>7 DEF at
<1> QED BY <1>1, InitNmi, NextNmi, PTL DEF Spec

-----------------------------------------------------------------------------
(* THE PAST OF AN NMI *)

LEMMA HistoryNmi == HistorySpec => []NmiInv
<1>1. HistoryInit => NmiInv
  BY InitNmi DEF HistoryInit
<1>2. [HistoryNext]_historyVars => [Next]_vars
  BY DEF HistoryNext, historyVars, vars
<1> QED BY <1>1, <1>2, NextNmi, PTL DEF HistorySpec

(* The opcodes fetched while a request stands.  After the first, the NMI    *)
(* is latched when the instruction ends, and only the look-ahead before     *)
(* VBlank can delay it again: not one that was requested in VBlank, since   *)
(* the look-ahead is over by then, and an early one no more than once.      *)
FetchedInv ==
  /\ fetched \in 0..2 /\ early \in BOOLEAN
  /\ fetched >= 1 => io.nmi_pending
  /\ io.nmi_pending /\ ~early =>
       /\ ppu.scanline # PostRender
       /\ ppu.scanline = nmi_start => ppu.dot >= 1 \/ turn = 3
  /\ fetched >= 1 /\ ~Stuck /\ cpu.state = "FETCH" => cpu.process_interrupt
  /\ fetched = 1 /\ ~early /\ ~Stuck =>
       ~cpu.delay_nmi /\ (ppu.scanline = nmi_start => ppu.dot >= 1 + SinceCpu)
  /\ fetched = 1 /\ early /\ cpu.delay_nmi /\ ~Stuck =>
       /\ ppu.scanline = PostRender => ppu.dot - SinceCpu >= LastDot
       /\ ppu.scanline = nmi_start => ppu.dot - SinceCpu >= -1
  /\ fetched = 2 => early
  /\ fetched = 2 /\ ~Stuck =>
       /\ ~cpu.delay_nmi /\ ppu.scanline # PostRender
       /\ ppu.scanline = nmi_start => ppu.dot >= 2 + SinceCpu

LEMMA HistoryCounts ==
  ASSUME TypeOK, HistoryNext, fetched \in 0..2
  PROVE  /\ ~io'.nmi_pending \/ Rerequests => fetched' = 0
         /\ io'.nmi_pending /\ ~Rerequests => fetched' = IF Fetches THEN fetched + 1 ELSE fetched
         /\ early' \in BOOLEAN
         /\ early' <=> io'.nmi_pending /\ (early \/ ppu'.scanline = PostRender)
<1>1. fetched' = CASE ~io'.nmi_pending \/ Rerequests -> 0
                   [] io'.nmi_pending /\ Fetches /\ fetched < 3 -> fetched + 1
                   [] OTHER -> fetched
  BY DEF HistoryNext
<1>2. early' = (io'.nmi_pending /\ (early \/ ppu'.scanline = PostRender))
  BY DEF HistoryNext
<1>3. early' \in BOOLEAN
  BY <1>2
<1>4. early' <=> io'.nmi_pending /\ (early \/ ppu'.scanline = PostRender)
  BY <1>2, Zenon
<1>5. CASE ~io'.nmi_pending \/ Rerequests
  <2>1. Rerequests => ~Fetches
    BY ClockPpuFields, ClockCpuUnannounced DEF HistoryNext, Next, Rerequests, Fetches
  <2>2. ~(io'.nmi_pending /\ Fetches /\ fetched < 3)
    BY <1>5, <2>1, Zenon
  <2>3. fetched' = 0
    BY <1>1, <1>5, <2>2
  <2> QED BY <1>3, <1>4, <1>5, <2>3
<1>6. CASE io'.nmi_pending /\ ~Rerequests /\ Fetches
  BY <1>1, <1>3, <1>4, <1>6
<1>7. CASE io'.nmi_pending /\ ~Rerequests /\ ~Fetches
  BY <1>1, <1>3, <1>4, <1>7
<1> QED BY <1>5, <1>6, <1>7

LEMMA CpuFetchedInv ==
  ASSUME NmiInv, FetchedInv, HistoryNext, ClockCpu
  PROVE  FetchedInv'
<1>1. /\ TypeOK /\ turn = 0 /\ turn' = 1 /\ ppu' = ppu /\ NoServiceOfWithdrawnNmi
      /\ LookaheadInv /\ IgnoreInv
      /\ ppu.dot \in 0..LastDot /\ ppu.scanline \in 0..PreRender
  <2>1. TypeOK
    BY DEF NmiInv, BaseInv, ClockInv
  <2> QED BY <2>1, ClockCpuUnannounced
      DEF NmiInv, BaseInv, ClockInv, SignalsInv, TypeOK, PpuType
<1>2. SinceCpu = 3 /\ SinceCpu' = 0 /\ ~Rerequests
  BY <1>1, DotsSinceCpu DEF Rerequests
<1>3. /\ fetched \in 0..2
      /\ early' \in BOOLEAN
      /\ ~io'.nmi_pending => fetched' = 0
      /\ io'.nmi_pending => fetched' = IF Fetches THEN fetched + 1 ELSE fetched
      /\ early' <=> io'.nmi_pending /\ (early \/ ppu.scanline = PostRender)
  BY <1>1, <1>2, HistoryCounts DEF FetchedInv
<1>4. CASE ~io'.nmi_pending
  <2>1. fetched' = 0 /\ ~early'
    BY <1>3, <1>4
  <2> QED BY <1>3, <1>4, <2>1 DEF FetchedInv
<1>5. CASE io'.nmi_pending
  <2>1. /\ io.nmi_pending /\ ~io.ignore_nmi
        /\ early' <=> early \/ ppu.scanline = PostRender
        /\ fetched' = IF Fetches THEN fetched + 1 ELSE fetched
    BY <1>1, <1>3, <1>5, ClockCpuSignals DEF IgnoreInv
  <2>2. ~early' => /\ ~early /\ ppu.scanline # PostRender
                   /\ ppu.scanline = nmi_start => ppu.dot >= 1
    BY <1>1, <2>1 DEF FetchedInv
  <2>3. io.nmi_lookahead => \/ ppu.scanline = nmi_start /\ ppu.dot \in 0..2
                            \/ ppu.scanline = PostRender /\ ppu.dot = LastDot
    BY <1>1 DEF LookaheadInv
  <2>4. /\ fetched >= 1 /\ ~Stuck /\ cpu.state = "FETCH" => cpu.process_interrupt
        /\ fetched = 1 /\ ~early /\ ~Stuck =>
             ~cpu.delay_nmi /\ (ppu.scanline = nmi_start => ppu.dot >= 4)
        /\ fetched = 1 /\ early /\ cpu.delay_nmi /\ ~Stuck =>
             /\ ppu.scanline # PostRender
             /\ ppu.scanline = nmi_start => ppu.dot >= 2
        /\ fetched = 2 => early
        /\ fetched = 2 /\ ~Stuck =>
             /\ ~cpu.delay_nmi /\ ppu.scanline # PostRender
             /\ ppu.scanline = nmi_start => ppu.dot >= 5
    BY <1>1, <1>2, Lines DEF FetchedInv
  <2>5. CASE FetchOpcode
    <3>1. /\ cpu.state = "FETCH" /\ cpu'.state = "DECODE" /\ ~cpu'.delay_nmi
          /\ fetched' = fetched + 1 /\ ~Stuck
      BY <1>1, <2>1, <2>5, FetchFields DEF Fetches, Stuck
    <3>2. ~Latched
      BY <1>1, <2>5, TakesLatched DEF FetchOpcode
    <3>3. fetched = 0 \/ (fetched = 1 /\ early /\ cpu.delay_nmi)
      BY <1>3, <2>1, <2>4, <3>1, <3>2 DEF Latched
    <3>4. CASE fetched = 0
      <4>1. fetched' = 1
        BY <3>1, <3>4
      <4> QED BY <1>1, <1>2, <1>3, <1>5, <2>2, <3>1, <4>1 DEF FetchedInv
    <3>5. CASE fetched = 1 /\ early /\ cpu.delay_nmi
      <4>1. /\ fetched' = 2 /\ early' /\ ppu.scanline # PostRender
            /\ ppu.scanline = nmi_start => ppu.dot >= 2
        BY <2>1, <2>4, <3>1, <3>5
      <4> QED BY <1>1, <1>2, <1>3, <1>5, <3>1, <4>1 DEF FetchedInv
    <3> QED BY <3>3, <3>4, <3>5
  <2>6. CASE ~FetchOpcode
    <3>1. ~Fetches
      BY <1>1, <2>6, NmiFields, DmaFields, DecodeFields, ExecuteFields
      DEF Fetches, ClockCpu, Execute
    <3>2. fetched' = fetched
      BY <2>1, <3>1
    <3>3. Stuck' <=> Stuck
      BY <1>1, <2>6, StuckForEver
    <3>4. ~io.nmi_lookahead => (cpu'.delay_nmi <=> cpu.delay_nmi)
      BY <1>1, <2>6, NmiFields, DmaFields, DecodeFields, ExecuteFields DEF ClockCpu
    <3>5. cpu'.delay_nmi => cpu.delay_nmi \/ io.nmi_lookahead
      BY <3>4
    <3>6. fetched >= 1 /\ ~Stuck /\ cpu'.state = "FETCH" => cpu'.process_interrupt
      <4> SUFFICES ASSUME fetched >= 1, ~Stuck, cpu'.state = "FETCH"
                   PROVE  cpu'.process_interrupt
        OBVIOUS
      <4>1. CASE ExecuteNmi
        BY <1>1, <1>5, <4>1, NmiFields, Zenon
      <4>2. CASE ExecuteDma
        BY <1>1, <2>1, <2>4, <4>2, DmaFields, Zenon
      <4>3. CASE Decode
        BY <1>1, <4>3, DecodeFields
      <4>4. CASE Execute
        BY <1>1, <2>1, <4>4, ExecuteFields, Zenon
      <4> QED BY <2>6, <4>1, <4>2, <4>3, <4>4 DEF ClockCpu
    <3>7. fetched = 1 /\ ~early' /\ ~Stuck =>
            ~cpu'.delay_nmi /\ (ppu.scanline = nmi_start => ppu.dot >= 1)
      BY <1>1, <2>2, <2>3, <2>4, <3>5, Lines
    <3>8. fetched = 1 /\ early' /\ cpu'.delay_nmi /\ ~Stuck =>
            /\ ppu.scanline = PostRender => ppu.dot >= LastDot
            /\ ppu.scanline = nmi_start => ppu.dot >= -1
      <4> SUFFICES ASSUME fetched = 1, early', cpu'.delay_nmi, ~Stuck,
                          ppu.scanline = PostRender
                   PROVE  ppu.dot >= LastDot
        BY <1>1, Lines
      <4>1. early
        BY <2>1, <1>1 DEF FetchedInv
      <4>2. ~cpu.delay_nmi
        BY <2>4, <4>1
      <4> QED BY <1>1, <2>3, <3>5, <4>2, Lines
    <3>9. /\ fetched = 2 => early'
          /\ fetched = 2 /\ ~Stuck =>
               /\ ~cpu'.delay_nmi /\ ppu.scanline # PostRender
               /\ ppu.scanline = nmi_start => ppu.dot >= 2
      BY <1>1, <2>1, <2>3, <2>4, <3>5, Lines
    <3> DEFINE d == ppu.dot
    <3>10. d - 0 = d /\ 1 + 0 = 1 /\ 2 + 0 = 2
      BY <1>1, Lines
    <3>11. FetchedInv' <=>
             /\ fetched \in 0..2 /\ early' \in BOOLEAN
             /\ fetched >= 1 => io'.nmi_pending
             /\ io'.nmi_pending /\ ~early' =>
                  /\ ppu.scanline # PostRender
                  /\ ppu.scanline = nmi_start => ppu.dot >= 1 \/ turn' = 3
             /\ fetched >= 1 /\ ~Stuck /\ cpu'.state = "FETCH" => cpu'.process_interrupt
             /\ fetched = 1 /\ ~early' /\ ~Stuck =>
                  ~cpu'.delay_nmi /\ (ppu.scanline = nmi_start => ppu.dot >= 1 + 0)
             /\ fetched = 1 /\ early' /\ cpu'.delay_nmi /\ ~Stuck =>
                  /\ ppu.scanline = PostRender => ppu.dot - 0 >= LastDot
                  /\ ppu.scanline = nmi_start => ppu.dot - 0 >= -1
             /\ fetched = 2 => early'
             /\ fetched = 2 /\ ~Stuck =>
                  /\ ~cpu'.delay_nmi /\ ppu.scanline # PostRender
                  /\ ppu.scanline = nmi_start => ppu.dot >= 2 + 0
      BY <1>1, <1>2, <3>2, <3>3 DEF FetchedInv
    <3> QED BY <1>3, <1>5, <2>2, <3>6, <3>7, <3>8, <3>9, <3>10, <3>11
  <2> QED BY <2>5, <2>6
<1> QED BY <1>4, <1>5

LEMMA PpuFetchedInv ==
  ASSUME NmiInv, FetchedInv, HistoryNext, ClockPpu
  PROVE  FetchedInv'
<1>1. TypeOK /\ BufferInv
  BY DEF NmiInv, BaseInv, ClockInv
<1>2. /\ cpu'.state = cpu.state /\ cpu'.process_interrupt = cpu.process_interrupt
      /\ Stuck' <=> Stuck
      /\ ~Fetches
  BY <1>1, ClockPpuFields DEF Stuck, Fetches
<1>3. /\ cpu'.delay_nmi <=> cpu.delay_nmi \/ Rerequests
      /\ Rerequests => turn' = 3
  <2>1. FlushesCtrl => turn' = 3
    BY <1>1 DEF BufferInv, FlushesCtrl, ClockPpu
  <2> QED BY <1>1, <2>1, ClockPpuSignals
<1>4. /\ fetched \in 0..2
      /\ early' \in BOOLEAN
      /\ ~io'.nmi_pending \/ Rerequests => fetched' = 0
      /\ io'.nmi_pending /\ ~Rerequests => fetched' = fetched
      /\ early' <=> io'.nmi_pending /\ (early \/ ppu'.scanline = PostRender)
  BY <1>1, <1>2, HistoryCounts DEF FetchedInv
<1>5. /\ ppu.dot \in 0..LastDot /\ ppu'.dot \in 0..LastDot
      /\ ppu'.scanline = nmi_start =>
           \/ ppu.scanline = nmi_start /\ ppu'.dot = ppu.dot + 1
           \/ ppu.scanline = PostRender /\ ppu.dot = LastDot /\ ppu'.dot = 0
      /\ ppu'.scanline = PostRender =>
           \/ ppu.scanline = PostRender /\ ppu'.dot = ppu.dot + 1
           \/ ppu.scanline = LastVisible /\ ppu.dot = LastDot
      /\ nmi_start # PostRender
  BY <1>1, BeamMoves, Lines
<1>6. /\ io.nmi_pending /\ ~early =>
           /\ ppu.scanline # PostRender
           /\ ppu.scanline = nmi_start => ppu.dot >= 1 \/ turn = 3
      /\ fetched >= 1 => io.nmi_pending
  BY DEF FetchedInv
<1>7. io'.nmi_pending /\ ~early' =>
        /\ ppu'.scanline # PostRender
        /\ ppu'.scanline = nmi_start => ppu'.dot >= 1 \/ turn' = 3
  <2> SUFFICES ASSUME io'.nmi_pending, ~early', ppu'.scanline = nmi_start, ~Rerequests
               PROVE  ppu'.dot >= 1
    BY <1>3, <1>4
  <2>1. CASE io.nmi_pending
    <3>1. ppu.scanline # PostRender
      BY <1>4, <1>6, <2>1
    <3> QED BY <1>5, <3>1, Lines
  <2>2. CASE ~io.nmi_pending
    <3>1. ppu'.dot = 1
      BY <1>1, <2>2, ClockPpuOnNmiStart, Zenon
    <3> QED BY <3>1
  <2> QED BY <2>1, <2>2
<1>8. CASE ~io'.nmi_pending \/ Rerequests
  <2>1. fetched' = 0
    BY <1>4, <1>8
  <2> QED BY <1>4, <1>7, <2>1 DEF FetchedInv
<1>9. CASE io'.nmi_pending /\ ~Rerequests
  <2>1. fetched' = fetched /\ (cpu'.delay_nmi <=> cpu.delay_nmi)
        /\ (early' <=> early \/ ppu'.scanline = PostRender)
    BY <1>3, <1>4, <1>9
  <2>2. fetched >= 1 /\ ~Stuck => ~(ppu.scanline = LastVisible /\ ppu.dot = LastDot)
    BY <1>6, NotSoLong
  <2> PICK since \in 0..2 : since = SinceCpu /\ SinceCpu' = since + 1
    BY <1>1, DotsSinceCpu
  <2> PICK d \in 0..LastDot, e \in 0..LastDot : d = ppu.dot /\ e = ppu'.dot
    BY <1>5
  <2>3. /\ ppu'.scanline = nmi_start =>
             \/ ppu.scanline = nmi_start /\ e = d + 1
             \/ ppu.scanline = PostRender /\ d = LastDot /\ e = 0
        /\ ppu'.scanline = PostRender =>
             \/ ppu.scanline = PostRender /\ e = d + 1
             \/ ppu.scanline = LastVisible /\ d = LastDot
        /\ fetched >= 1 /\ ~Stuck => ~(ppu.scanline = LastVisible /\ d = LastDot)
    BY <1>5, <2>2
  <2>4. /\ fetched = 1 /\ ~early /\ ~Stuck =>
             ~cpu.delay_nmi /\ (ppu.scanline = nmi_start => d >= 1 + since)
        /\ fetched = 1 /\ early /\ cpu.delay_nmi /\ ~Stuck =>
             /\ ppu.scanline = PostRender => d - since >= LastDot
             /\ ppu.scanline = nmi_start => d - since >= -1
        /\ fetched = 2 => early
        /\ fetched = 2 /\ ~Stuck =>
             /\ ~cpu.delay_nmi /\ ppu.scanline # PostRender
             /\ ppu.scanline = nmi_start => d >= 2 + since
    BY DEF FetchedInv
  <2>5. fetched = 1 /\ ~early' /\ ~Stuck =>
          ~cpu'.delay_nmi /\ (ppu'.scanline = nmi_start => e >= 1 + (since + 1))
    <3> SUFFICES ASSUME fetched = 1, ~early', ~Stuck
                 PROVE  ~cpu'.delay_nmi /\ (ppu'.scanline = nmi_start => e >= 1 + (since + 1))
      OBVIOUS
    <3>1. ~early /\ io.nmi_pending /\ ppu.scanline # PostRender
      BY <1>6, <2>1
    <3> QED BY <2>1, <2>3, <2>4, <3>1, Lines
  <2>6. fetched = 1 /\ early' /\ cpu'.delay_nmi /\ ~Stuck =>
          /\ ppu'.scanline = PostRender => e - (since + 1) >= LastDot
          /\ ppu'.scanline = nmi_start => e - (since + 1) >= -1
    <3> SUFFICES ASSUME fetched = 1, early', cpu'.delay_nmi, ~Stuck
                 PROVE  /\ ppu'.scanline = PostRender => e - (since + 1) >= LastDot
                        /\ ppu'.scanline = nmi_start => e - (since + 1) >= -1
      OBVIOUS
    <3>1. early
      <4> SUFFICES ASSUME ~early PROVE FALSE
        OBVIOUS
      <4>1. ppu'.scanline = PostRender /\ ppu.scanline # PostRender
        BY <1>6, <2>1
      <4> QED BY <2>3, <4>1
    <3>2. /\ ppu.scanline = PostRender => d - since >= LastDot
          /\ ppu.scanline = nmi_start => d - since >= -1
      BY <2>1, <2>4, <3>1
    <3> QED BY <2>3, <3>2, Lines
  <2>7. /\ fetched = 2 => early'
        /\ fetched = 2 /\ ~Stuck =>
             /\ ~cpu'.delay_nmi /\ ppu'.scanline # PostRender
             /\ ppu'.scanline = nmi_start => e >= 2 + (since + 1)
    BY <2>1, <2>3, <2>4, Lines
  <2>8. FetchedInv' <=>
          /\ fetched \in 0..2 /\ early' \in BOOLEAN
          /\ fetched >= 1 => io'.nmi_pending
          /\ io'.nmi_pending /\ ~early' =>
               /\ ppu'.scanline # PostRender
               /\ ppu'.scanline = nmi_start => ppu'.dot >= 1 \/ turn' = 3
          /\ fetched >= 1 /\ ~Stuck /\ cpu.state = "FETCH" => cpu.process_interrupt
          /\ fetched = 1 /\ ~early' /\ ~Stuck =>
               ~cpu'.delay_nmi /\ (ppu'.scanline = nmi_start => e >= 1 + (since + 1))
          /\ fetched = 1 /\ early' /\ cpu'.delay_nmi /\ ~Stuck =>
               /\ ppu'.scanline = PostRender => e - (since + 1) >= LastDot
               /\ ppu'.scanline = nmi_start => e - (since + 1) >= -1
          /\ fetched = 2 => early'
          /\ fetched = 2 /\ ~Stuck =>
               /\ ~cpu'.delay_nmi /\ ppu'.scanline # PostRender
               /\ ppu'.scanline = nmi_start => e >= 2 + (since + 1)
    BY <1>2, <2>1 DEF FetchedInv
  <2>9. fetched >= 1 /\ ~Stuck /\ cpu.state = "FETCH" => cpu.process_interrupt
    BY DEF FetchedInv
  <2> QED BY <1>4, <1>7, <1>9, <2>5, <2>6, <2>7, <2>8, <2>9
<1> QED BY <1>8, <1>9

(* However the request falls between the CPU's clocks, the NMI begins after *)
(* the instruction under way and at most one more, or two for a request of  *)
(* the warm-up's: the delays of an NMI never add up.                        *)
THEOREM NmiDelaysDoNotAddUp == HistorySpec => []NmiWithinOneInstruction
<1>1. HistoryInit => FetchedInv
  <2> SUFFICES ASSUME HistoryInit PROVE FetchedInv
    OBVIOUS
  <2>1. io = IoInit /\ fetched = 0 /\ early = FALSE
    BY DEF HistoryInit, Init
  <2>2. ~io.nmi_pending
    BY <2>1 DEF IoInit
  <2>3. early \in BOOLEAN
    BY <2>1
  <2>4. fetched \in 0..2 /\ ~(fetched >= 1) /\ fetched # 1 /\ fetched # 2
    BY <2>1
  <2> QED BY <2>2, <2>3, <2>4 DEF FetchedInv
<1>2. NmiInv /\ FetchedInv /\ [HistoryNext]_historyVars => FetchedInv'
  <2> SUFFICES ASSUME NmiInv, FetchedInv, [HistoryNext]_historyVars PROVE FetchedInv'
    OBVIOUS
  <2>1. CASE HistoryNext /\ ClockCpu
    BY <2>1, CpuFetchedInv
  <2>2. CASE HistoryNext /\ ClockPpu
    BY <2>2, PpuFetchedInv
  <2>3. CASE UNCHANGED historyVars
    BY <2>3 DEF historyVars, FetchedInv, Stuck, SinceCpu
  <2> QED BY <2>1, <2>2, <2>3 DEF HistoryNext, Next
<1>3. FetchedInv => NmiWithinOneInstruction
  BY DEF FetchedInv, NmiWithinOneInstruction
<1> QED BY <1>1, <1>2, <1>3, HistoryNmi, PTL DEF HistorySpec

(* After a read of $2002 in the first dots of VBlank the flag stays down    *)
(* and no request stands, except for the one that the next dot suppresses.  *)
RacedInv ==
  /\ raced \in BOOLEAN
  /\ raced =>
       /\ ppu.scanline \in nmi_start..PreRender - 1
       /\ io.nmi_cycles_left = 7 /\ ~io.vblank
       /\ io.nmi_pending \/ (ppu.scanline = nmi_start /\ ppu.dot = 0) =>
            /\ turn = 1 /\ io.suppress_nmi_flag
            /\ ppu.scanline = nmi_start /\ ppu.dot \in 0..2

LEMMA CpuRacedInv ==
  ASSUME NmiInv, RacedInv, HistoryNext, ClockCpu
  PROVE  RacedInv'
<1>1. /\ TypeOK /\ turn = 0 /\ turn' = 1 /\ ppu' = ppu /\ NoServiceOfWithdrawnNmi
      /\ IgnoreInv /\ SuppressInv /\ SequenceInv
  <2>1. TypeOK
    BY DEF NmiInv, BaseInv, ClockInv
  <2> QED BY <2>1, ClockCpuUnannounced DEF NmiInv, BaseInv, ClockInv, SignalsInv
<1>2. raced' = (Races \/ (raced /\ ppu'.scanline # PreRender))
  BY DEF HistoryNext
<1>3. raced' \in BOOLEAN
  BY <1>2
<1> SUFFICES ASSUME raced'
             PROVE  /\ ppu.scanline \in nmi_start..PreRender - 1
                    /\ io'.nmi_cycles_left = 7 /\ ~io'.vblank
                    /\ io'.nmi_pending \/ (ppu.scanline = nmi_start /\ ppu.dot = 0) =>
                         /\ io'.suppress_nmi_flag
                         /\ ppu.scanline = nmi_start /\ ppu.dot \in 0..2
  BY <1>1, <1>3 DEF RacedInv
<1>4. CASE Races
  <2>1. /\ io'.suppress_nmi_flag /\ ppu.scanline = nmi_start /\ ppu.dot \in 0..2
    BY <1>4 DEF Races
  <2>2. ~io'.vblank /\ cpu.state # "FETCH"
    BY <1>1, <2>1, ClockCpuSignals DEF SuppressInv
  <2>3. io.nmi_cycles_left = 7
    BY <1>1, <2>2 DEF SequenceInv, TypeOK, IoType
  <2>4. io'.nmi_cycles_left = 7
    BY <1>1, <2>2, <2>3, ClockCpuSignals DEF ExecuteNmi
  <2> QED BY <2>1, <2>2, <2>4, Lines
<1>5. CASE ~Races
  <2>1. raced
    BY <1>2, <1>5
  <2>2. /\ ppu.scanline \in nmi_start..PreRender - 1
        /\ io.nmi_cycles_left = 7 /\ ~io.vblank /\ ~io.nmi_pending
        /\ ~(ppu.scanline = nmi_start /\ ppu.dot = 0)
    BY <1>1, <2>1 DEF RacedInv
  <2>3. ~ExecuteNmi
    BY <1>1, <2>2, NmiFields DEF NoServiceOfWithdrawnNmi
  <2> QED BY <1>1, <2>2, <2>3, ClockCpuSignals
<1> QED BY <1>4, <1>5

LEMMA PpuRacedInv ==
  ASSUME NmiInv, RacedInv, HistoryNext, ClockPpu
  PROVE  RacedInv'
<1>1. TypeOK /\ WarmupInv
  BY DEF NmiInv, BaseInv, ClockInv
<1>2. raced' = (Races \/ (raced /\ ppu'.scanline # PreRender))
  BY DEF HistoryNext
<1>3. raced' \in BOOLEAN /\ (raced' => raced /\ ppu'.scanline # PreRender)
  <2>1. ~Races
    BY DEF Races, ClockPpu
  <2>2. raced' \in BOOLEAN
    BY <1>2
  <2>3. raced' => raced /\ ppu'.scanline # PreRender
    BY <1>2, <2>1, Zenon
  <2> QED BY <2>2, <2>3
<1> SUFFICES ASSUME raced, ppu'.scanline # PreRender
             PROVE  /\ ppu'.scanline \in nmi_start..PreRender - 1
                    /\ io'.nmi_cycles_left = 7 /\ ~io'.vblank /\ ~io'.nmi_pending
                    /\ ~(ppu'.scanline = nmi_start /\ ppu'.dot = 0)
  BY <1>3 DEF RacedInv
<1>4. /\ ppu.scanline \in nmi_start..PreRender - 1
      /\ io.nmi_cycles_left = 7 /\ ~io.vblank
      /\ io.nmi_pending \/ (ppu.scanline = nmi_start /\ ppu.dot = 0) =>
           /\ io.suppress_nmi_flag
           /\ ppu.scanline = nmi_start /\ ppu.dot \in 0..2
  BY DEF RacedInv
<1>5. /\ ppu'.scanline \in nmi_start..PreRender - 1
      /\ ppu'.scanline = nmi_start => ppu.scanline = nmi_start /\ ppu'.dot = ppu.dot + 1
      /\ ppu.scanline = nmi_start /\ ppu.dot \in 0..2 => ppu'.scanline = nmi_start
      /\ ppu.dot \in Nat
  BY <1>1, <1>4, BeamMoves, Lines
<1>6. io'.nmi_cycles_left = 7
  BY <1>1, <1>4, ClockPpuSignals
<1>7. ~Showing /\ ~Rerequests
  <2>1. ppu'.scanline # PostRender
    BY <1>5, Lines
  <2> QED BY <1>1, <1>4, <2>1, ShowingFrom, ClockPpuSignals
<1>8. ~(ppu'.scanline = nmi_start /\ ppu'.dot = 0)
  BY <1>5
<1>9. ~io'.vblank /\ ~io'.nmi_pending
  <2>1. CASE ppu'.scanline # nmi_start
    <3>1. ~io.nmi_pending
      BY <1>4, <1>5, <2>1
    <3> QED BY <1>1, <1>7, <2>1, <3>1, ClockPpuElsewhere
  <2>2. CASE ppu'.scanline = nmi_start
    <3>1. ~io'.vblank
      BY <1>1, <1>7, <1>8, <2>2, ClockPpuOnNmiStart
    <3>2. CASE io.nmi_pending \/ ppu.dot = 0
      <4>1. io.suppress_nmi_flag /\ ppu'.dot \in 1..3 /\ ppu'.dot < 5
        BY <1>4, <1>5, <2>2, <3>2
      <4> QED BY <1>1, <2>2, <3>1, <4>1, ClockPpuOnNmiStart, Zenon
    <3>3. CASE ~io.nmi_pending /\ ppu.dot # 0
      <4>1. ppu'.dot # 1
        BY <1>5, <2>2, <3>3
      <4> QED BY <1>1, <1>7, <2>2, <3>1, <3>3, <4>1, ClockPpuOnNmiStart, Zenon
    <3> QED BY <3>2, <3>3
  <2> QED BY <2>1, <2>2
<1> QED BY <1>5, <1>6, <1>8, <1>9

(* A read of $2002 in the first dots of VBlank costs this VBlank its NMI,   *)
(* whatever is written to $2000 after.                                      *)
THEOREM RacedReadCostsTheNmi == HistorySpec => []RacedReadSuppressesNmi
<1>1. HistoryInit => RacedInv
  BY DEF HistoryInit, RacedInv
<1>2. NmiInv /\ RacedInv /\ [HistoryNext]_historyVars => RacedInv'
  <2> SUFFICES ASSUME NmiInv, RacedInv, [HistoryNext]_historyVars PROVE RacedInv'
    OBVIOUS
  <2>1. CASE HistoryNext /\ ClockCpu
    BY <2>1, CpuRacedInv
  <2>2. CASE HistoryNext /\ ClockPpu
    BY <2>2, PpuRacedInv
  <2>3. CASE UNCHANGED historyVars
    BY <2>3 DEF historyVars, RacedInv
  <2> QED BY <2>1, <2>2, <2>3 DEF HistoryNext, Next
<1>3. RacedInv => RacedReadSuppressesNmi
  BY DEF RacedInv, RacedReadSuppressesNmi
<1> QED BY <1>1, <1>2, <1>3, HistoryNmi, PTL DEF HistorySpec


-----------------------------------------------------------------------------
(* WHAT THE EARLY FLAGS SAY OF THE WRITE IN THE BUFFER *)

(* What a read-modify-write instruction writes back to $2001 is 0.          *)
LEMMA DummyWriteIsFalse ==
  ASSUME TypeOK
  PROVE  LET a == AfterDummyWrite(AfterDummyRead(IoTick))
         IN  a.buffer = io.buffer \/ ~a.buffer.value
<1> DEFINE i == cpu.instr
           read == AfterDummyRead(IoTick)
           v == FALSE
           w == WriteRegister(read, i.reg, v)
<1>1. i \in Program \union {Reset} /\ CpuTick.remaining \in Nat
  BY TickType DEF TypeOK, CpuType
<1>2. read \in IoType /\ read.buffer = io.buffer
  BY <1>1, DummyReadRegister, ReadRegisterType, ReadRegisterFields,
     TickType, TickFields DEF AfterDummyRead
<1>3. AfterDummyWrite(read) = IF DummyWrite(i, CpuTick.remaining) THEN w ELSE read
  BY DEF AfterDummyWrite
<1> HIDE DEF read
<1>4. w.buffer = read.buffer \/ ~w.buffer.value
  BY <1>2 DEF WriteRegister, delay_write_ppu_reg, IoType
<1> HIDE DEF w
<1>5. AfterDummyWrite(read).buffer = io.buffer \/ ~AfterDummyWrite(read).buffer.value
  BY <1>2, <1>3, <1>4
<1> QED BY <1>5 DEF read

(* A clock of the CPU that puts a write into the buffer: the second write   *)
(* of an instruction ends it, and the first one of two writes 0.            *)
LEMMA CpuBuffers ==
  ASSUME TypeOK, ClockCpu
  PROVE  \/ io'.buffer = io.buffer
         \/ /\ io'.buffer.on
            /\ io'.buffer.counter = IF io'.buffer.address = "mask" THEN 5 ELSE 2
            /\ cpu'.state = "FETCH" \/ ~io'.buffer.value
<1>1. IoTick \in IoType /\ IoTick.buffer = io.buffer
  BY TickType, TickFields
<1>2. CASE ExecuteNmi
  BY <1>1, <1>2 DEF ExecuteNmi, IoType
<1>3. CASE ExecuteDma
  BY <1>1, <1>3 DEF ExecuteDma, IoType
<1>4. CASE FetchOpcode
  BY <1>1, <1>4 DEF FetchOpcode
<1>5. CASE Decode
  BY <1>5, AfterDecodeFields, DummyWriteIsFalse DEF Decode
<1>6. CASE Execute
  <2>1. io' = AfterExecute(IoTick)
    BY <1>6 DEF Execute
  <2>2. CASE io'.buffer # io.buffer
    <3>1. /\ cpu.instr.op \in {"write", "modify"}
          /\ io'.buffer.on
          /\ io'.buffer.counter = IF io'.buffer.address = "mask" THEN 5 ELSE 2
      BY <2>1, <2>2, AfterExecuteFields
    <3>2. ~StaysInExecute(cpu.instr, CpuTick.remaining)
      BY <3>1, WritersEnd
    <3>3. cpu'.state = "FETCH"
      BY <1>6, <3>2, TickType DEF Execute, CpuType
    <3> QED BY <3>1, <3>3
  <2> QED BY <2>2
<1> QED BY <1>2, <1>3, <1>4, <1>5, <1>6 DEF ClockCpu

(* Between the two writes of an instruction the buffer holds the 0 of the   *)
(* first; and only a write still in the buffer has replaced another.        *)
SecondInv ==
  /\ second \in BOOLEAN
  /\ second => io.buffer.on
  /\ io.buffer.on /\ (turn = 0 \/ io.buffer.counter >= 3) /\ cpu.state = "DECODE" =>
       ~io.buffer.value

EarlyInv == EarlyFlagsAnnounce /\ SecondInv

LEMMA CpuEarlyInv ==
  ASSUME ClockInv, EarlyInv, HistoryNext, ClockCpu
  PROVE  EarlyInv'
<1>1. TypeOK /\ Next /\ turn = 0 /\ turn' = 1
  BY ClockCpuUnannounced DEF ClockInv, HistoryNext
<1>2. /\ io'.bg_early_enable_mask = io.bg_early_enable_mask
      /\ io'.bg_early_disable_mask = io.bg_early_disable_mask
  BY <1>1, ClockCpuUnannounced DEF Unannounced
<1>3. io.buffer.on => io.buffer.address = "mask" /\ io.buffer.counter = 2
  BY <1>1 DEF ClockInv, BufferInv
<1>4. io.buffer \in Buffer /\ io'.buffer \in Buffer
  BY <1>1, NextType DEF TypeOK, IoType
<1>5. CASE io'.buffer = io.buffer
  <2>1. second' = (second /\ io'.buffer.on)
    BY <1>5 DEF HistoryNext, Buffers
  <2>2. second' \in BOOLEAN /\ (second' <=> second)
    BY <1>5, <2>1, Zenon DEF EarlyInv, SecondInv
  <2>3. EarlyFlagsAnnounce'
    BY <1>2, <1>5, <2>2 DEF EarlyInv, EarlyFlagsAnnounce
  <2>4. SecondInv'
    BY <1>1, <1>3, <1>5, <2>2 DEF EarlyInv, SecondInv
  <2> QED BY <2>3, <2>4 DEF EarlyInv
<1>6. CASE io'.buffer # io.buffer
  <2>1. /\ io'.buffer.on
        /\ io'.buffer.counter = IF io'.buffer.address = "mask" THEN 5 ELSE 2
        /\ cpu'.state = "FETCH" \/ ~io'.buffer.value
    BY <1>1, <1>6, CpuBuffers
  <2>2. second' = io.buffer.on
    BY <1>1, <1>6 DEF HistoryNext, Buffers
  <2>3. SecondInv'
    <3>1. second' \in BOOLEAN
      BY <1>4, <2>2 DEF Buffer
    <3>2. io'.buffer.on
      BY <2>1
    <3>3. cpu'.state = "DECODE" => ~io'.buffer.value
      BY <2>1
    <3> QED BY <3>1, <3>2, <3>3, Zenon DEF SecondInv
  <2>4. CASE io.buffer.on
    <3>1. io'.buffer.address = "mask" /\ io'.buffer.counter = 5
      BY <1>1, <1>3, <2>1, <2>4, ReplacedBySameRegister
    <3>2. cpu.state = "DECODE"
      <4>1. cpu.state # "FETCH"
        BY <1>1, <1>6, CpuKeepsBuffer
      <4> QED BY <1>1, <2>4, <4>1 DEF ClockInv, WriterInv
    <3>3. ~io.buffer.value
      BY <1>1, <2>4, <3>2 DEF EarlyInv, SecondInv
    <3>4. ~io.bg_early_enable_mask /\ io.bg_early_disable_mask
      BY <1>3, <2>4, <3>3 DEF EarlyInv, EarlyFlagsAnnounce
    <3> QED BY <1>2, <2>1, <2>2, <2>3, <2>4, <3>1, <3>4 DEF EarlyInv, EarlyFlagsAnnounce
  <2>5. CASE ~io.buffer.on
    <3>1. ~io.bg_early_enable_mask /\ ~io.bg_early_disable_mask
      BY <2>5 DEF EarlyInv, EarlyFlagsAnnounce
    <3>2. io'.buffer.address = "mask" => io'.buffer.counter = 5
      BY <2>1
    <3> QED BY <1>2, <2>2, <2>3, <2>5, <3>1, <3>2 DEF EarlyInv, EarlyFlagsAnnounce
  <2> QED BY <2>4, <2>5
<1> QED BY <1>5, <1>6

LEMMA PpuEarlyInv ==
  ASSUME ClockInv, EarlyInv, HistoryNext, ClockPpu
  PROVE  EarlyInv'
<1>1. TypeOK /\ turn \in 1..3 /\ turn' = (turn + 1) % 4
  BY DEF ClockInv, ClockPpu
<1>2. /\ CountsDown(io.buffer, io'.buffer) /\ FlagsFollow(io, io')
      /\ cpu'.state = cpu.state
  BY <1>1, ClockPpuFields, ClockPpuFlags
<1>3. second' = (second /\ io'.buffer.on)
  BY <1>1 DEF HistoryNext, Buffers
<1>4. io.buffer.counter \in 1..6 /\ io'.buffer.counter \in 1..6
  BY <1>1, NextType DEF TypeOK, IoType, Buffer, Next
<1>5. second' \in BOOLEAN /\ (second' <=> second /\ io'.buffer.on)
  <2>1. second' \in BOOLEAN
    BY <1>3
  <2> QED BY <1>3, <2>1, Zenon
<1>6. SecondInv'
  <2>1. io'.buffer.on /\ (turn' = 0 \/ io'.buffer.counter >= 3) =>
          /\ io.buffer.on /\ io.buffer.counter >= 3
          /\ io'.buffer.value = io.buffer.value
    BY <1>1, <1>2, <1>4 DEF ClockInv, BufferInv, CountsDown
  <2> QED BY <1>2, <1>5, <2>1 DEF EarlyInv, SecondInv
<1>7. EarlyFlagsAnnounce'
  <2>1. CASE ~io.buffer.on
    BY <1>2, <2>1 DEF CountsDown, FlagsFollow, EarlyInv, EarlyFlagsAnnounce
  <2>2. CASE io.buffer.on /\ io.buffer.counter = 1
    BY <1>2, <2>2 DEF CountsDown, FlagsFollow, EarlyFlagsAnnounce
  <2>3. CASE io.buffer.on /\ io.buffer.counter # 1
    <3> DEFINE mask == io.buffer.address = "mask"
               value == io.buffer.value
               soon == io.buffer.counter <= 3
    <3>1. /\ io'.buffer.on /\ io'.buffer.counter = io.buffer.counter - 1
          /\ io'.buffer.address = io.buffer.address /\ io'.buffer.value = value
      BY <1>2, <2>3 DEF CountsDown
    <3>2. io'.buffer.counter <= 3 <=> soon \/ io.buffer.counter = 4
      BY <1>4, <3>1
    <3>3. /\ io.bg_early_enable_mask <=> mask /\ soon /\ value
          /\ io.bg_early_disable_mask <=> (mask /\ soon /\ ~value) \/ (mask /\ second)
      BY <2>3 DEF EarlyInv, EarlyFlagsAnnounce
    <3>4. /\ io'.bg_early_enable_mask <=>
               io.bg_early_enable_mask \/ (mask /\ io.buffer.counter = 4 /\ value)
          /\ io'.bg_early_disable_mask <=>
               io.bg_early_disable_mask \/ (mask /\ io.buffer.counter = 4 /\ ~value)
      BY <1>2, <2>3 DEF FlagsFollow
    <3>5. second' <=> second
      BY <1>5, <3>1
    <3> HIDE DEF soon
    <3> QED BY <2>3, <3>1, <3>2, <3>3, <3>4, <3>5 DEF EarlyFlagsAnnounce
  <2> QED BY <2>1, <2>2, <2>3
<1> QED BY <1>6, <1>7 DEF EarlyInv

(* Whatever the program writes and when, each early flag is up exactly      *)
(* while a write to $2001 that sets it is due in three dots or less, or,    *)
(* for the disabling one, while the second write of a read-modify-write     *)
(* instruction that has replaced the 0 is still in the buffer.              *)
THEOREM EarlyFlagsHold == HistorySpec => []EarlyFlagsAnnounce
<1>1. HistoryInit => EarlyInv
  <2> SUFFICES ASSUME HistoryInit PROVE EarlyInv
    OBVIOUS
  <2>1. /\ ~io.buffer.on /\ ~io.bg_early_enable_mask /\ ~io.bg_early_disable_mask
        /\ second = FALSE
    BY DEF HistoryInit, Init, IoInit, NoWrite
  <2> QED BY <2>1 DEF EarlyInv, SecondInv, EarlyFlagsAnnounce
<1>2. NmiInv /\ EarlyInv /\ [HistoryNext]_historyVars => EarlyInv'
  <2> SUFFICES ASSUME NmiInv, EarlyInv, [HistoryNext]_historyVars PROVE EarlyInv'
    OBVIOUS
  <2>1. ClockInv
    BY DEF NmiInv, BaseInv
  <2>2. CASE HistoryNext /\ ClockCpu
    BY <2>1, <2>2, CpuEarlyInv
  <2>3. CASE HistoryNext /\ ClockPpu
    BY <2>1, <2>3, PpuEarlyInv
  <2>4. CASE UNCHANGED historyVars
    BY <2>4 DEF historyVars, EarlyInv, SecondInv, EarlyFlagsAnnounce
  <2> QED BY <2>2, <2>3, <2>4 DEF HistoryNext, Next
<1>3. EarlyInv => EarlyFlagsAnnounce
  BY DEF EarlyInv
<1> QED BY <1>1, <1>2, <1>3, HistoryNmi, PTL DEF HistorySpec
=============================================================================
