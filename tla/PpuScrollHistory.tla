-------------------------- MODULE PpuScrollHistory --------------------------
(***************************************************************************)
(* PpuScroll with the scroll position each frame and line started from,    *)
(* and with what a program that follows the protocol of the address port   *)
(* knows: reset the toggle, write the high byte, then the low one.         *)
(***************************************************************************)
EXTENDS PpuScroll

VARIABLES
  column,     \* where the line started, left: none or one tile column
  line,       \* where the frame started, top: none or one line
  latch,      \* the next write as the program counts them, "unknown" if it does not
  high,       \* the high byte of an address begun: none or one
  expected    \* the position the next access uses: none or one

origin == <<column, line>>
history_vars == <<vars, origin, latch, high, expected>>

HistoryInit ==
  /\ Init
  /\ column = {} /\ line = {}
  /\ latch = "unknown"
  /\ high = {}
  /\ expected = {}

(* The position an address stands for: bits 13 to 0, as a number.          *)
Linear(fine_y, v, h, coarse_y, coarse_x) ==
  ((((fine_y % (FineRows \div 2)) * 2 + v) * 2 + h) * TileRows + coarse_y) * TileColumns + coarse_x

Position(a) == Linear(a.fine_y, a.nt_v, a.nt_h, a.coarse_y, a.coarse_x)

Positions == FineRows * 2 * TileRows * TileColumns

-----------------------------------------------------------------------------

Raster ==
  /\ clock_ppu
  /\ column' = IF ppu_mask.bg /\ scanline' # PostRender /\ cycle' = HorzCopy
               THEN {[nt_h |-> vram_tmp_addr.nt_h, coarse_x |-> vram_tmp_addr.coarse_x]}
               ELSE column
  /\ line' = IF ppu_mask.bg /\ scanline' = PreRender /\ cycle' \in VertCopy
             THEN {[nt_v |-> vram_tmp_addr.nt_v, coarse_y |-> vram_tmp_addr.coarse_y,
                    fine_y |-> vram_tmp_addr.fine_y]}
             ELSE line
  /\ expected' = IF ppu_mask_bg_or_sprite_enabled THEN {} ELSE expected
  /\ UNCHANGED <<latch, high>>

(* Whatever else moves v, or stops the copies, ends what is known of it.   *)
Forget == column' = {} /\ line' = {}

Counted == CASE latch = "first" -> "second" [] latch = "second" -> "first" [] OTHER -> latch

SetCtrl == Ctrl /\ high' = {} /\ UNCHANGED <<origin, latch, expected>>

SetMask ==
  /\ Mask
  /\ IF ppu_mask'.bg THEN UNCHANGED origin ELSE Forget
  /\ UNCHANGED <<latch, high, expected>>

ResetLatch == Status /\ latch' = "first" /\ high' = {} /\ UNCHANGED <<origin, expected>>

SetScroll ==
  /\ ScrollX \/ ScrollY
  /\ latch' = Counted
  /\ high' = {}
  /\ UNCHANGED <<origin, expected>>

(* The address port when the program knows that this is the first write.   *)
BeginAddress ==
  /\ latch = "first"
  /\ "2006" \in Ports
  /\ \E hi \in HighByte :
       /\ write_2006_first(hi)
       /\ high' = {hi}
  /\ latch' = Counted
  /\ UNCHANGED <<origin, expected>>

EndAddress ==
  /\ latch = "second"
  /\ "2006" \in Ports
  /\ \E lo \in LowByte :
       /\ write_2006_second(lo)
       /\ expected' = { Linear(hi.fine_y, hi.nt_v, hi.nt_h, hi.rows * RowSplit + lo.rows, lo.coarse_x)
                          : hi \in high }
  /\ latch' = Counted
  /\ high' = {}
  /\ Forget

(* The same port when it does not.                                         *)
UncountedAddress ==
  /\ latch = "unknown"
  /\ AddrHigh \/ AddrLow
  /\ high' = {}
  /\ IF write_toggle THEN Forget /\ expected' = {} ELSE UNCHANGED <<origin, expected>>
  /\ UNCHANGED latch

Access ==
  /\ Data
  /\ Forget
  /\ expected' = IF Rendering THEN {}
                 ELSE { (e + (IF inc32 THEN TileColumns ELSE 1)) % Positions : e \in expected }
  /\ UNCHANGED <<latch, high>>

HistoryNext ==
  \/ Raster
  \/ SetCtrl \/ SetMask \/ ResetLatch \/ SetScroll
  \/ BeginAddress \/ EndAddress \/ UncountedAddress
  \/ Access

HistorySpec == HistoryInit /\ [][HistoryNext]_history_vars

-----------------------------------------------------------------------------
(* Tiles to the right of the left border since the last horizontal copy.   *)
TilesAcross ==
  IF cycle <= TileColumns THEN cycle + 2
  ELSE IF cycle < HorzCopy + CopyDots THEN 0
  ELSE cycle - (HorzCopy + CopyDots)

(* Lines below the top border since the last vertical copy.                *)
LinesDown ==
  IF scanline = PreRender /\ cycle > HorzCopy THEN 0
  ELSE (IF scanline = PreRender THEN PostRender ELSE scanline)
         + (IF cycle >= TileColumns THEN 1 ELSE 0)

(* The place n, less than twice size, on a ring of size places.            *)
Wrap(n, size) == IF n < size THEN n ELSE n - size

(* The tile of a in the two nametables side by side.                       *)
Tile(a) == a.nt_h * TileColumns + a.coarse_x

(* While the background is shown and the program leaves v alone, the       *)
(* tile being fetched is the one of the scroll position of this line, so   *)
(* many tiles to the right, no matter what $2000 and $2005 have put into t *)
(* since the copy at dot 257 (clock_ppu, inc_horz_scroll).                 *)
RasterFollowsColumn ==
  \A left \in column : Tile(vram_addr) = Wrap(Tile(left) + TilesAcross, 2 * TileColumns)

(* Lines from top to the end of the rows past the visible ones.            *)
LinesOutside(top) ==
  IF top.coarse_y < VisibleRows THEN 0
  ELSE (TileRows - top.coarse_y) * FineRows - top.fine_y

(* The line of a in the two nametables below each other.                   *)
Line(a) == (a.nt_v * VisibleRows + a.coarse_y) * FineRows + a.fine_y

(* Likewise, the line being fetched is the one of the scroll position of   *)
(* this frame, so many lines further down; from a position in the rows     *)
(* past the visible ones it first runs to their end and then from the top  *)
(* of the same nametable (clock_ppu, inc_vert_scroll).                     *)
RasterFollowsLine ==
  \A top \in line :
    LET outside == LinesOutside(top)
        start == IF outside = 0 THEN top ELSE [top EXCEPT !.coarse_y = 0, !.fine_y = 0]
    IN IF LinesDown < outside
       THEN Line(vram_addr) = Line(top) + LinesDown /\ vram_addr.nt_v = top.nt_v
       ELSE Line(vram_addr) = Wrap(Line(start) + (LinesDown - outside), 2 * PostRender)

(* From its first read of $2002 on a program that counts its writes to     *)
(* $2005 and $2006, which share the toggle, knows which half the next one  *)
(* writes (read_2002, write_2005, write_2006).                             *)
ToggleIsCounted == latch # "unknown" => (write_toggle <=> latch = "second")

(* A program that reads $2002 and then writes an address to $2006 accesses *)
(* that address, and then every one 1 or 32 further on, as long as nothing *)
(* is rendered: neither the toggle's earlier state nor writes to $2000,    *)
(* $2001, $2005 or the first half of another address move it               *)
(* (write_2006, read_2007, write_2007).                                    *)
AccessesAreConsecutive == \A e \in expected : Position(vram_addr) = e
=============================================================================
