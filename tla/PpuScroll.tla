------------------------------ MODULE PpuScroll ------------------------------
(* The VRAM address v of the PPU, the temporary address t, the write toggle *)
(* and fine x: how a program sets them through the registers $2000, $2001,  *)
(* $2002, $2005, $2006 and $2007, and how rendering moves v over the        *)
(* nametables.                                                              *)
(*                                                                          *)
(* The 16 bits of an address are a record, most significant field first:    *)
(* msb (bit 15), fine_y (14-12), nt_v (11), nt_h (10), coarse_y (9-5),      *)
(* coarse_x (4-0).  Of a scanline only the dots that may touch v are left,  *)
(* see the operators that name them; of the scanlines 240 to 260, where     *)
(* none does, one.  The program acts between any two dots: when a delayed   *)
(* write arrives is the matter of ClockSync.                                *)
EXTENDS Integers

CONSTANTS
  TileColumns,  \* tiles in a row of a nametable (32, the range of coarse_x)
  VisibleRows,  \* rows of a nametable that hold tiles (30)
  FineRows,     \* lines of a tile (8)
  FineColumns,  \* columns of a tile (8)
  RowGroups,    \* groups of rows the high byte of an address tells apart (4)
  RowSplit,     \* rows in a group, told apart by the low byte (8)
  InitCycle,    \* the dot ppu_init starts after (3, for dot 27)
  CopyDots,     \* dots on which the vertical bits are copied (25: 280 to 304)
  PowerOn,      \* what the allocated memory may hold for v and t
  Masks,        \* the masks a program may write: bg, sprite
  Ports         \* the registers it may access

TileRows == RowGroups * RowSplit         \* rows of coarse_y (32)

Addr == [ msb: 0..1, fine_y: 0..FineRows - 1, nt_v: 0..1, nt_h: 0..1,
          coarse_y: 0..TileRows - 1, coarse_x: 0..TileColumns - 1 ]

ASSUME NametableAssumption ==
  /\ TileColumns \in Nat /\ TileColumns > 1
  /\ RowGroups \in Nat \ {0} /\ RowSplit \in Nat \ {0}
  /\ VisibleRows \in 1..TileRows
  /\ FineColumns \in Nat \ {0}
  /\ FineRows \in Nat \ {0} /\ FineRows % 2 = 0
  /\ CopyDots \in Nat \ {0}
  /\ InitCycle \in 0..TileColumns

ASSUME ProgramAssumption ==
  /\ PowerOn # {} /\ PowerOn \subseteq Addr
  /\ Masks \subseteq [bg: BOOLEAN, sprite: BOOLEAN]
  /\ Ports \subseteq {"2000", "2001", "2002", "2005", "2006", "2007"}

VARIABLES
  scanline,
  cycle,
  vram_addr,      \* v
  vram_tmp_addr,  \* t
  fine_x,
  write_toggle,
  ppu_mask,       \* bits 3 and 4
  inc32           \* bit 2 of ppu_ctrl

beam == <<scanline, cycle>>
ports == <<vram_tmp_addr, fine_x, write_toggle, ppu_mask, inc32>>
vars == <<beam, vram_addr, ports>>

-----------------------------------------------------------------------------
(* THE DOTS AND LINES THAT MATTER *)

HorzCopy == TileColumns + 1              \* dot 257; dot n before it is dot 8n
VertCopy == HorzCopy + 1 .. HorzCopy + CopyDots          \* dots 280 to 304
Prefetch == HorzCopy + CopyDots + 1 .. HorzCopy + CopyDots + 2    \* 328, 336
LastDot == HorzCopy + CopyDots + 2

PostRender == VisibleRows * FineRows     \* line 240; visible lines before it
PreRender == PostRender + 1              \* line 261

ppu_rendering_period == scanline # PostRender
ppu_mask_bg_or_sprite_enabled == ppu_mask.bg \/ ppu_mask.sprite
Rendering == ppu_rendering_period /\ ppu_mask_bg_or_sprite_enabled

-----------------------------------------------------------------------------
(* MOVING AN ADDRESS *)

(* Mutant: the nametable is not switched below the last row.               *)
inc_vert_scrollMutant(a) ==
  IF a.fine_y < FineRows - 1 THEN [a EXCEPT !.fine_y = @ + 1]
  ELSE [a EXCEPT !.fine_y = 0, !.coarse_y = (@ + 1) % VisibleRows]

(* inc_vert_scroll: one line down; the rows past the visible ones wrap     *)
(* without changing the nametable.                                         *)
inc_vert_scroll(a) ==
  CASE a.fine_y < FineRows - 1 -> [a EXCEPT !.fine_y = @ + 1]
    [] a.fine_y = FineRows - 1 /\ a.coarse_y = VisibleRows - 1 ->
         [a EXCEPT !.fine_y = 0, !.coarse_y = 0, !.nt_v = 1 - @]
    [] OTHER -> [a EXCEPT !.fine_y = 0, !.coarse_y = (@ + 1) % TileRows]

(* Mutant: no wrap at the right border.                                    *)
inc_horz_scrollMutant(a) == [a EXCEPT !.coarse_x = @ + 1]

(* inc_horz_scroll: one tile to the right.                                 *)
inc_horz_scroll(a) ==
  IF a.coarse_x = TileColumns - 1
  THEN [a EXCEPT !.coarse_x = 0, !.nt_h = 1 - @]
  ELSE [a EXCEPT !.coarse_x = @ + 1]

(* The carry of an addition, from nt_h up to the sixteenth bit.            *)
CarryNametable(a) ==
  CASE a.nt_h = 0 -> [a EXCEPT !.nt_h = 1]
    [] a.nt_h = 1 /\ a.nt_v = 0 -> [a EXCEPT !.nt_h = 0, !.nt_v = 1]
    [] a.nt_h = 1 /\ a.nt_v = 1 /\ a.fine_y < FineRows - 1 ->
         [a EXCEPT !.nt_h = 0, !.nt_v = 0, !.fine_y = @ + 1]
    [] OTHER -> [a EXCEPT !.nt_h = 0, !.nt_v = 0, !.fine_y = 0, !.msb = 1 - @]

Plus32(a) ==
  IF a.coarse_y < TileRows - 1
  THEN [a EXCEPT !.coarse_y = @ + 1]
  ELSE CarryNametable([a EXCEPT !.coarse_y = 0])

(* Mutant: scrolls where it should count.                                  *)
Plus1Mutant(a) == inc_horz_scroll(a)

Plus1(a) ==
  IF a.coarse_x < TileColumns - 1
  THEN [a EXCEPT !.coarse_x = @ + 1]
  ELSE Plus32([a EXCEPT !.coarse_x = 0])

(* What an access to $2007 adds in the register's 16 bits.                 *)
ppu_vram_addr_inc(a) == IF inc32 THEN Plus32(a) ELSE Plus1(a)

(* Mutant: the mask lacks the nametable bit.                               *)
CopyHorzMutant(a) == [a EXCEPT !.coarse_x = vram_tmp_addr.coarse_x]

(* The masks 0x041F and 0x7BE0: what the copies take from t.               *)
CopyHorz(a) ==
  [a EXCEPT !.nt_h = vram_tmp_addr.nt_h, !.coarse_x = vram_tmp_addr.coarse_x]

CopyVert(a) ==
  [a EXCEPT !.fine_y = vram_tmp_addr.fine_y, !.nt_v = vram_tmp_addr.nt_v,
            !.coarse_y = vram_tmp_addr.coarse_y]

-----------------------------------------------------------------------------
(* THE RASTER *)

(* The background part of clock_ppu at dot c of line l.                    *)
Copied(a, l, c) ==
  IF ~ppu_mask.bg \/ l = PostRender THEN a
  ELSE IF c = HorzCopy THEN CopyHorz(a)
  ELSE IF c \in VertCopy /\ l = PreRender THEN CopyVert(a)
  ELSE a

(* Its last part.                                                          *)
Incremented(a, l, c) ==
  IF ~ppu_mask_bg_or_sprite_enabled \/ l = PostRender THEN a
  ELSE IF c = TileColumns THEN inc_vert_scroll(inc_horz_scroll(a))
  ELSE IF c \in 1..TileColumns \union Prefetch THEN inc_horz_scroll(a)
  ELSE a

LineEnds == cycle = LastDot \/ scanline = PostRender

clock_ppu ==
  /\ cycle' = IF LineEnds THEN 0 ELSE cycle + 1
  /\ scanline' = IF LineEnds THEN (scanline + 1) % (PreRender + 1) ELSE scanline
  /\ vram_addr' = Incremented(Copied(vram_addr, scanline', cycle'), scanline', cycle')
  /\ UNCHANGED ports

-----------------------------------------------------------------------------
(* THE REGISTERS *)

write_2000(v, h, inc) ==
  /\ inc32' = inc
  /\ vram_tmp_addr' = [vram_tmp_addr EXCEPT !.nt_v = v, !.nt_h = h]
  /\ UNCHANGED <<beam, vram_addr, fine_x, write_toggle, ppu_mask>>

write_2001(mask) ==
  /\ ppu_mask' = mask
  /\ UNCHANGED <<beam, vram_addr, vram_tmp_addr, fine_x, write_toggle, inc32>>

(* Mutant: the toggle is not reset.                                        *)
read_2002Mutant == UNCHANGED vars

read_2002 ==
  /\ write_toggle' = FALSE
  /\ UNCHANGED <<beam, vram_addr, vram_tmp_addr, fine_x, ppu_mask, inc32>>

write_2005_first(coarse, fine) ==
  /\ ~write_toggle
  /\ write_toggle' = TRUE
  /\ vram_tmp_addr' = [vram_tmp_addr EXCEPT !.coarse_x = coarse]
  /\ fine_x' = fine
  /\ UNCHANGED <<beam, vram_addr, ppu_mask, inc32>>

write_2005_second(coarse, fine) ==
  /\ write_toggle
  /\ write_toggle' = FALSE
  /\ vram_tmp_addr' = [vram_tmp_addr EXCEPT !.coarse_y = coarse, !.fine_y = fine]
  /\ UNCHANGED <<beam, vram_addr, fine_x, ppu_mask, inc32>>

(* The byte of a first write: bits 5-4 are fine_y without its top bit,     *)
(* which is cleared, bit 3 and 2 the nametable, 1-0 the high rows.         *)
HighByte == [ fine_y: 0..(FineRows \div 2) - 1, nt_v: 0..1, nt_h: 0..1,
              rows: 0..RowGroups - 1 ]

LowByte == [ rows: 0..RowSplit - 1, coarse_x: 0..TileColumns - 1 ]

write_2006_first(hi) ==
  /\ ~write_toggle
  /\ write_toggle' = TRUE
  /\ vram_tmp_addr' = [vram_tmp_addr EXCEPT
       !.fine_y = hi.fine_y, !.nt_v = hi.nt_v, !.nt_h = hi.nt_h,
       !.coarse_y = hi.rows * RowSplit + (@ % RowSplit)]
  /\ UNCHANGED <<beam, vram_addr, fine_x, ppu_mask, inc32>>

write_2006_second(lo) ==
  /\ write_toggle
  /\ write_toggle' = FALSE
  /\ vram_tmp_addr' = [vram_tmp_addr EXCEPT
       !.coarse_y = (@ - (@ % RowSplit)) + lo.rows, !.coarse_x = lo.coarse_x]
  /\ vram_addr' = vram_tmp_addr'
  /\ UNCHANGED <<beam, fine_x, ppu_mask, inc32>>

(* read_2007 and write_2007 move v alike.                                  *)
access_2007 ==
  /\ vram_addr' = IF Rendering THEN inc_horz_scroll(inc_vert_scroll(vram_addr))
                  ELSE ppu_vram_addr_inc(vram_addr)
  /\ UNCHANGED <<beam, ports>>

-----------------------------------------------------------------------------
(* ppu_init sets where the beam is and fine x; nothing sets v, t and the   *)
(* toggle before they are first used.                                      *)
Init ==
  /\ scanline = 0 /\ cycle = InitCycle
  /\ vram_addr \in PowerOn /\ vram_tmp_addr \in PowerOn
  /\ write_toggle \in BOOLEAN
  /\ fine_x = 0
  /\ ppu_mask = [bg |-> FALSE, sprite |-> FALSE]
  /\ inc32 = FALSE

Ctrl == "2000" \in Ports /\ \E v, h \in 0..1, inc \in BOOLEAN : write_2000(v, h, inc)
Mask == "2001" \in Ports /\ \E mask \in Masks : write_2001(mask)
Status == "2002" \in Ports /\ read_2002
ScrollX == "2005" \in Ports /\ \E coarse \in 0..TileColumns - 1, fine \in 0..FineColumns - 1 :
             write_2005_first(coarse, fine)
ScrollY == "2005" \in Ports /\ \E coarse \in 0..TileRows - 1, fine \in 0..FineRows - 1 :
             write_2005_second(coarse, fine)
AddrHigh == "2006" \in Ports /\ \E hi \in HighByte : write_2006_first(hi)
AddrLow == "2006" \in Ports /\ \E lo \in LowByte : write_2006_second(lo)
Data == "2007" \in Ports /\ access_2007

Next ==
  \/ clock_ppu
  \/ Ctrl \/ Mask \/ Status
  \/ ScrollX \/ ScrollY
  \/ AddrHigh \/ AddrLow
  \/ Data

Spec == Init /\ [][Next]_vars

-----------------------------------------------------------------------------
(* Every field of v and t stays within its bits, and the beam on the line. *)
TypeOK ==
  /\ scanline \in 0..PreRender
  /\ cycle \in 0..LastDot
  /\ vram_addr \in Addr /\ vram_tmp_addr \in Addr
  /\ fine_x \in 0..FineColumns - 1
  /\ write_toggle \in BOOLEAN
  /\ ppu_mask \in [bg: BOOLEAN, sprite: BOOLEAN]
  /\ inc32 \in BOOLEAN
=============================================================================
