------------------------------ MODULE Picture -------------------------------
(***************************************************************************)
(* The background pipeline of ppu.c: every eight dots a tile is fetched at *)
(* the VRAM address, and its pixels and its palette travel through shift   *)
(* registers until they are shown one or two tiles later.                  *)
(*                                                                         *)
(* Of the VRAM address only the column counts, with the bit of the name    *)
(* table; a tile is the number of its column, and a pixel its distance     *)
(* from the left edge of the name tables, so that a register shows which   *)
(* tile its bits came from.  The two pattern planes are kept apart.  A     *)
(* byte of the attribute table is the group of four columns it is for.     *)
(* The dots that do nothing to the pipeline are left out: of a line there  *)
(* are the idle dot, the visible ones, the one that copies the column of   *)
(* t, and the sixteen that prefetch.                                       *)
(***************************************************************************)
EXTENDS Naturals

CONSTANTS
  Columns,      \* of the name tables, a multiple of four
  TilesShown,   \* tiles in a line
  LastVisible,  \* the last visible line
  Scrolls,      \* the scroll positions, in pixels, that a program sets
  Masks,        \* what a program sets $2001 to
  MaxWrites     \* bound: writes of the program

ASSUME ColumnsAssumption == Columns \in Nat \ {0} /\ Columns % 4 = 0
ASSUME LineAssumption == TilesShown \in Nat \ {0} /\ LastVisible \in Nat
ASSUME ScrollsAssumption == Scrolls # {} /\ Scrolls \subseteq 0..((8 * Columns) - 1)
ASSUME MasksAssumption ==
  Masks # {} /\ Masks \subseteq [bg : BOOLEAN, sprite : BOOLEAN, left : BOOLEAN, sprite_left : BOOLEAN]
ASSUME WritesAssumption == MaxWrites \in Nat

VARIABLES
  scanline, dot,
  vram_addr,       \* column of v
  vram_tmp_addr,   \* column of t
  fine_x,
  ppu_mask,
  bkg_internals,   \* latches and shift registers
  line_start,      \* the column at which the line's prefetch began
  steady,          \* whether nothing has disturbed the line since
  writes           \* of the program so far

ppu_vars == <<scanline, dot, vram_addr, bkg_internals>>
written_vars == <<vram_tmp_addr, fine_x, ppu_mask>>
picture_vars == <<ppu_vars, written_vars, line_start, steady, writes>>

LastShown == 8 * TilesShown
CopyDot == LastShown + 1
Prefetch == (CopyDot + 1)..(CopyDot + 16)
LastDot == CopyDot + 16
PreRender == LastVisible + 1

Visible == scanline <= LastVisible
Shown == Visible /\ dot \in 1..LastShown

Width == 8 * Columns
Bits == 0..15

(* A bit that was shifted in, which is 0.                                  *)
Empty == Width
Pixel == 0..Width

Pixels(tile, bit) == (8 * tile) + bit

(* The tiles of a quadrant, two columns wide, share a palette.             *)
PaletteOf(group, column) == (2 * group) + ((column \div 2) % 2)

-----------------------------------------------------------------------------
(* Fetches and registers.                                                  *)

fetch_nt_byte(b) == [b EXCEPT !.nt_byte = vram_addr]

fetch_at_byte(b) == [b EXCEPT !.at_latch = vram_addr \div 4]

fetch_pt_lo(b) == [b EXCEPT !.pt_lo_latch = b.nt_byte]

fetch_pt_hi(b) == [b EXCEPT !.pt_hi_latch = b.nt_byte]

fill_attribute_shift_reg(b) ==
  [b EXCEPT !.at_shift_reg = [palette |-> PaletteOf(b.at_current, b.nt_addr_current), bits |-> 8]]

RightShift(reg, n) == [ bit \in Bits |-> IF bit + n \in Bits THEN reg[bit + n] ELSE Empty ]

(* The upper half is empty whenever a tile is loaded, so that OR sets it.  *)
LoadUpper(reg, tile) == [ bit \in Bits |-> IF bit < 8 THEN reg[bit] ELSE Pixels(tile, bit - 8) ]

(* Used to fill the attribute register later.                              *)
KeepAttribute(b) == [b EXCEPT !.at_current = b.at_latch, !.nt_addr_current = vram_addr]

load_shift_regs(b) ==
  [b EXCEPT !.pt_lo_shift_reg = LoadUpper(@, b.pt_lo_latch),
            !.pt_hi_shift_reg = LoadUpper(@, b.pt_hi_latch)]

(* get_bkg_pixel shifts after it has taken its pixel.                      *)
get_bkg_pixel(b) ==
  IF Shown
    THEN [b EXCEPT !.pt_lo_shift_reg = RightShift(@, 1), !.pt_hi_shift_reg = RightShift(@, 1),
                   !.at_shift_reg.bits = IF @ = 0 THEN 0 ELSE @ - 1]
    ELSE b

ShowsBackdrop == (~ppu_mask.left /\ dot < 8) \/ ~ppu_mask.bg

Fetched(b, phase) ==
  CASE phase = 0 -> fetch_nt_byte(b)
    [] phase = 2 -> fetch_at_byte(b)
    [] phase = 4 -> fetch_pt_lo(b)
    [] phase = 6 -> fetch_pt_hi(b)
    [] OTHER -> b

(* Mutant: the attributes are reloaded where an unscrolled tile ends.      *)
ReloadsMutant == dot % 8 = 0

ReloadsAttribute == (dot + fine_x) % 8 = 0

VisibleDot(b) ==
  LET phase == (dot - 1) % 8
      filled == IF ReloadsAttribute THEN fill_attribute_shift_reg(b) ELSE b
  IN IF phase = 7 THEN KeepAttribute(load_shift_regs(filled)) ELSE Fetched(filled, phase)

PrefetchDot(b) ==
  LET phase == (dot - CopyDot - 1) % 8
      Aligned(c) == [c EXCEPT !.pt_lo_shift_reg = RightShift(@, 8), !.pt_hi_shift_reg = RightShift(@, 8)]
  IN CASE phase = 1 -> fill_attribute_shift_reg(b)
       [] phase = 6 -> KeepAttribute(load_shift_regs(Aligned(Fetched(b, phase))))
       [] OTHER -> Fetched(b, phase)

(* The pre-render line fetches and loads nothing.                          *)
Background(b) ==
  CASE ppu_mask.bg /\ dot \in 1..LastShown -> IF Visible THEN VisibleDot(b) ELSE Fetched(b, (dot - 1) % 8)
    [] ppu_mask.bg /\ dot \in Prefetch -> PrefetchDot(b)
    [] OTHER -> b

-----------------------------------------------------------------------------
(* One dot.                                                                *)

EndsTile ==
  \/ dot \in 1..LastShown /\ (dot - 1) % 8 = 7
  \/ dot \in Prefetch /\ (dot - CopyDot - 1) % 8 = 7

inc_horz_scroll ==
  vram_addr' =
    CASE dot = CopyDot /\ ppu_mask.bg -> vram_tmp_addr
      [] EndsTile /\ (ppu_mask.bg \/ ppu_mask.sprite) -> (vram_addr + 1) % Columns
      [] OTHER -> vram_addr

LineEnds == dot = LastDot

NextDot ==
  /\ dot' = IF LineEnds THEN 0 ELSE dot + 1
  /\ scanline' = IF ~LineEnds THEN scanline ELSE IF scanline = PreRender THEN 0 ELSE scanline + 1

(* Of a line is remembered where its prefetch began, and that the          *)
(* background was shown from then on.                                      *)
Remember ==
  LET begins == dot = CopyDot + 1 IN
  /\ steady' = (ppu_mask.bg /\ (steady \/ begins))
  /\ line_start' = CASE begins -> vram_addr [] steady /\ ~begins -> line_start [] OTHER -> 0

clock_ppu ==
  /\ bkg_internals' = Background(get_bkg_pixel(bkg_internals))
  /\ inc_horz_scroll
  /\ NextDot
  /\ Remember
  /\ UNCHANGED <<written_vars, writes>>

-----------------------------------------------------------------------------
(* The program.                                                            *)

write_2005(position) ==
  /\ vram_tmp_addr' = position \div 8
  /\ fine_x' = position % 8
  /\ steady' = (steady /\ (fine_x' = fine_x \/ ~Shown))
  /\ UNCHANGED ppu_mask

write_2001(mask) ==
  /\ ppu_mask' = mask
  /\ steady' = (steady /\ mask.bg)
  /\ UNCHANGED <<vram_tmp_addr, fine_x>>

Write ==
  /\ writes < MaxWrites
  /\ writes' = writes + 1
  /\ \/ \E position \in Scrolls : write_2005(position)
     \/ \E mask \in Masks : write_2001(mask)
  /\ UNCHANGED <<ppu_vars, line_start>>

(* ppu_init zeroes the pipeline, all but the latches of the two tables:    *)
(* those, and the column, are what memory held.  The model begins when the *)
(* program has waited for a VBlank and set things up in it.                *)
Zero ==
  [ nt_byte |-> 0, at_latch |-> 0, pt_lo_latch |-> 0, pt_hi_latch |-> 0,
    at_current |-> 0, nt_addr_current |-> 0,
    pt_lo_shift_reg |-> [bit \in Bits |-> Empty], pt_hi_shift_reg |-> [bit \in Bits |-> Empty],
    at_shift_reg |-> [palette |-> 0, bits |-> 0] ]

PictureInit ==
  /\ scanline = PreRender /\ dot = 0
  /\ ppu_mask \in Masks
  /\ \E position \in Scrolls : vram_tmp_addr = position \div 8 /\ fine_x = position % 8
  /\ \E held \in {0, Columns - 1} :
       /\ vram_addr = held
       /\ bkg_internals = [Zero EXCEPT !.nt_byte = held, !.at_latch = held \div 4]
  /\ line_start = 0 /\ steady = FALSE /\ writes = 0

PictureNext == clock_ppu \/ Write

PictureSpec == PictureInit /\ [][PictureNext]_picture_vars

-----------------------------------------------------------------------------
(* On a line whose background has been shown since its prefetch, and whose *)
(* fine scroll was left alone while it was drawn, the pixel under the beam *)
(* is the one at the beam's distance from the scroll position the prefetch *)
(* began with, in both planes, and has the palette of its own tile,        *)
(* whatever the line before was, and wherever t points by then.            *)
PixelsFollowScroll ==
  Shown /\ steady =>
    LET pixel == ((8 * line_start) + fine_x + dot - 1) % Width
        column == pixel \div 8
        at == bkg_internals.at_shift_reg
    IN /\ bkg_internals.pt_lo_shift_reg[fine_x] = pixel
       /\ bkg_internals.pt_hi_shift_reg[fine_x] = pixel
       /\ at.bits > 0 /\ at.palette = PaletteOf(column \div 4, column)

(* tests/ppu_tests.c:1288 says of $2001 that without its bit 1 the         *)
(* leftmost 8 pixels of the background are the common background colour.   *)
LeftmostHidden ==
  Shown /\ dot - 1 < 8 /\ ~ppu_mask.left => ShowsBackdrop
=============================================================================
