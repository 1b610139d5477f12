-------------------------- MODULE ClockSyncHistory --------------------------
(* ClockSync with history variables, for the properties that speak of the   *)
(* past of an NMI or of a delayed write.  They follow the steps and never   *)
(* restrict them.                                                           *)
EXTENDS ClockSync

VARIABLES
  fetched,   \* opcodes fetched since the NMI that is pending was last requested
  early,     \* ... and that was before VBlank proper, in the warm-up frames
  raced,     \* $2002 was read in the dots around the start of this VBlank
  second     \* the write in the buffer has replaced one that was still there

historyVars == <<cpu, ppu, io, dma_cycles_left, turn, fetched, early, raced, second>>

HistoryInit == Init /\ fetched = 0 /\ early = FALSE /\ raced = FALSE /\ second = FALSE

Fetches == cpu.state = "FETCH" /\ cpu'.state = "DECODE"

(* A write to $2000 that requests an NMI counts as a request also when one  *)
(* is pending: the two writes of a DEC $2000 switch NMIs off and on again. *)
Rerequests ==
  LET before == AfterWarmup(io, ppu)
  IN  turn # 0 /\ Flushing(before)
        /\ RequestsNmi(before, before.buffer.address, before.buffer.value)

(* A read of $2002 while the beam is on dot 0, 1 or 2 of the scanline       *)
(* VBlank starts on.                                                        *)
Races ==
  /\ turn = 0 /\ io'.suppress_nmi_flag
  /\ ppu.scanline = nmi_start /\ ppu.dot \in 0..2

(* A call of the CPU that puts a write into the buffer.                     *)
Buffers == turn = 0 /\ io'.buffer # io.buffer

HistoryNext ==
  /\ Next
  /\ fetched' = CASE ~io'.nmi_pending \/ Rerequests -> 0
                  [] io'.nmi_pending /\ Fetches /\ fetched < 3 -> fetched + 1
                  [] OTHER -> fetched
  /\ early' = (io'.nmi_pending /\ (early \/ ppu'.scanline = PostRender))
  /\ raced' = (Races \/ (raced /\ ppu'.scanline # PreRender))
  /\ second' = IF Buffers THEN io.buffer.on ELSE second /\ io'.buffer.on

HistorySpec == HistoryInit /\ [][HistoryNext]_historyVars

(* However the request falls between the CPU's clocks, the NMI begins after *)
(* the instruction under way and at most one more: the delays of an NMI     *)
(* never add up.  Only in the first two frames, where the warm-up shows the *)
(* VBlank flag a few dots early, can a write to $2000 request an NMI right  *)
(* before the look-ahead and be delayed a second time.                      *)
NmiWithinOneInstruction == fetched <= IF early THEN 2 ELSE 1

(* Once $2002 was read in the first dots of VBlank, this VBlank brings no   *)
(* NMI, whatever is written to $2000 after.                                 *)
RacedReadSuppressesNmi == raced => io.nmi_cycles_left = 7

(* The early flags say what the $2001 write in the buffer is about to do,   *)
(* from three dots ahead until it is flushed, and nothing else sets or      *)
(* clears them.  Only a read-modify-write instruction leaves more: the 0 it *)
(* writes back is announced before its second write replaces it, and that   *)
(* flag stays up until the second write is flushed, also when this one      *)
(* switches the background on: then both flags are up at last.              *)
EarlyFlagsAnnounce ==
  LET mask_write == io.buffer.on /\ io.buffer.address = "mask"
      announced == mask_write /\ io.buffer.counter <= 3
  IN  /\ io.bg_early_enable_mask <=> announced /\ io.buffer.value
      /\ io.bg_early_disable_mask <=>
           (announced /\ ~io.buffer.value) \/ (mask_write /\ second)
=============================================================================
