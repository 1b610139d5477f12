--------------------------- MODULE SpriteEvaluation ---------------------------
(* How the PPU picks the sprites of the next line: the evaluation of OAM on  *)
(* the dots 65 to 256 of a visible line, the secondary OAM it fills, the     *)
(* overflow flag, and the fetches that load the eight sprite units.          *)
(*                                                                           *)
(* Of a line these dots are left: the idle one, one of those that reset      *)
(* secondary OAM, two for each evaluation, and the last of the eight of each *)
(* fetch; of the lines 240 to 260 one, and of line 261 the idle dot and dot  *)
(* 1.  A byte copied into secondary OAM is represented by the number of the  *)
(* sprite it was copied from.  The program acts between any two dots.        *)
EXTENDS Integers

CONSTANTS
  Sprites,       \* sprites in OAM (64)
  Slots,         \* sprites in secondary OAM (8)
  SpriteBytes,   \* bytes of a sprite (4); the first is its y position
  Evaluations,   \* pairs of dots from 65 to 256 (96)
  VisibleLines,  \* lines 0 to 239
  Heights,       \* heights of sprites, by bit 5 of $2000 (8 and 16)
  Masks,         \* the masks a program may write: bg, sprite
  Bytes,         \* the bytes it writes to OAM
  Writable,      \* where it writes them, of the addresses of OAM
  PowerOnOam     \* what it has written to OAM before rendering is switched on

OamSize == Sprites * SpriteBytes
Oam == [0..OamSize - 1 -> Bytes]

ASSUME SizeAssumption ==
  /\ Sprites \in Nat \ {0} /\ Slots \in Nat \ {0} /\ SpriteBytes \in Nat \ {0}
  /\ Evaluations \in Nat \ {0}
  /\ VisibleLines \in Nat \ {0}
  /\ Heights # {} /\ Heights \subseteq Nat

ASSUME ProgramAssumption ==
  /\ Bytes \subseteq Nat
  /\ Masks \subseteq [bg: BOOLEAN, sprite: BOOLEAN]
  /\ Writable \subseteq 0..OamSize - 1
  /\ PowerOnOam # {} /\ PowerOnOam \subseteq Oam

(* The dots suffice to test every sprite once (96 pairs, 64 sprites).       *)
ASSUME EverySpriteTested == Sprites <= Evaluations

VARIABLES
  scanline,
  cycle,
  ppu_mask,           \* bits 3 and 4
  height,             \* bit 5 of ppu_ctrl
  oam,
  oam_read_buffer,
  sprite_index,
  sprites_found,
  stop_early,
  oam_y_byte_offset,  \* the static of sprite_evaluation
  scanline_oam,       \* secondary OAM
  sprite_overflow,    \* bit 5 of ppu_status
  sprite_units        \* the sprites loaded into the sprite units, not yet drawn

beam == <<scanline, cycle>>
program == <<ppu_mask, height, oam>>
found == <<sprites_found, scanline_oam, sprite_overflow>>
search == <<oam_read_buffer, sprite_index, stop_early, oam_y_byte_offset>>
vars == <<beam, program, found, search, sprite_units>>

Blank == Sprites                         \* a slot that holds no sprite: 0xFF, or 0 at power on
Transparent == Sprites + 1               \* a unit without pixels

-----------------------------------------------------------------------------
(* DOTS AND LINES *)

ResetDot == 1                            \* dots 1 to 64
FirstRead == ResetDot + 1                \* dot 65, the first odd one
LastTest == ResetDot + 2 * Evaluations   \* dot 256
LastFetch == LastTest + Slots            \* dot 320

VBlank == VisibleLines                   \* lines 240 to 260
PreRender == VisibleLines + 1            \* line 261

ppu_rendering_period == scanline # VBlank
ppu_mask_bg_or_sprite_enabled == ppu_mask.bg \/ ppu_mask.sprite
Rendering == ppu_rendering_period /\ ppu_mask_bg_or_sprite_enabled

LineEnds ==
  \/ cycle = LastFetch
  \/ scanline = VBlank
  \/ scanline = PreRender /\ cycle = 1

NextDot ==
  /\ cycle' = IF LineEnds THEN 0 ELSE cycle + 1
  /\ scanline' = IF LineEnds THEN (scanline + 1) % (PreRender + 1) ELSE scanline

VisibleDots(dots) == scanline' < VisibleLines /\ cycle' \in dots

-----------------------------------------------------------------------------
(* SPRITE_EVALUATION *)

InRange(y, line, h) == line >= y /\ line - y < h

EvaluationDot(parity) ==
  /\ NextDot
  /\ ppu_mask_bg_or_sprite_enabled
  /\ VisibleDots(FirstRead..LastTest)
  /\ (cycle' - FirstRead) % 2 = parity

(* Odd dots.                                                                *)
read_oam ==
  /\ EvaluationDot(0)
  /\ oam_read_buffer' = oam[sprite_index * SpriteBytes + oam_y_byte_offset]
  /\ UNCHANGED <<program, found, sprite_index, stop_early, oam_y_byte_offset, sprite_units>>

sprite_in_y_range == InRange(oam_read_buffer, scanline', height)

ppu_transfer_oam(slot) ==
  IF slot = Slots THEN scanline_oam ELSE [scanline_oam EXCEPT ![slot] = sprite_index]

(* The search for a ninth sprite, which looks at a different byte each time *)
Searching == sprites_found = Slots /\ ~stop_early

(* Mutant: the byte looked at stays the y position.                         *)
NextOffsetMutant == 0

NextOffset ==
  IF Searching /\ ~sprite_in_y_range
  THEN (oam_y_byte_offset + 1) % SpriteBytes
  ELSE IF Searching THEN 0 ELSE oam_y_byte_offset

(* Mutant: sprites are found again after the last.                          *)
TransfersMutant == sprite_in_y_range /\ sprites_found < Slots

Transfers == sprite_in_y_range /\ sprites_found < Slots /\ ~stop_early

(* Mutant: one sprite too many.                                             *)
EndsPassMutant == sprite_index = Sprites

EndsPass == sprite_index + 1 = Sprites

(* Even dots.                                                               *)
test_sprite ==
  /\ EvaluationDot(1)
  /\ sprite_overflow' = (sprite_overflow \/ (Searching /\ sprite_in_y_range))
  /\ scanline_oam' = IF Transfers THEN ppu_transfer_oam(sprites_found) ELSE scanline_oam
  /\ sprites_found' = IF Transfers \/ (Searching /\ sprite_in_y_range)
                      THEN sprites_found + 1 ELSE sprites_found
  /\ IF EndsPass
     THEN sprite_index' = 0 /\ stop_early' = TRUE /\ oam_y_byte_offset' = 0
     ELSE /\ sprite_index' = sprite_index + 1
          /\ oam_y_byte_offset' = NextOffset
          /\ UNCHANGED stop_early
  /\ UNCHANGED <<program, oam_read_buffer, sprite_units>>

-----------------------------------------------------------------------------
(* THE OTHER DOTS *)

(* get_sprite_pixel shifts the units out on the dots 1 to 256, shown or not, *)
(* here at once; what a unit at the right border has left over is left out.  *)
Drawn == [unit \in 0..Slots - 1 |-> Transparent]

reset_secondary_oam ==
  /\ NextDot
  /\ ppu_mask.sprite /\ VisibleDots({ResetDot})
  /\ sprite_units' = Drawn
  /\ scanline_oam' = [slot \in 0..Slots - 1 |-> Blank]
  /\ sprite_index' = 0
  /\ sprites_found' = 0
  /\ stop_early' = FALSE
  /\ UNCHANGED <<program, sprite_overflow, oam_read_buffer, oam_y_byte_offset>>

(* Mutant: the units without a sprite keep what they had.                   *)
FetchedMutant(slot) == [sprite_units EXCEPT ![slot] = scanline_oam[slot]]

(* A unit after its fetch, and the units without a sprite, made transparent *)
Fetched(slot) ==
  [u \in 0..Slots - 1 |->
     IF u >= sprites_found THEN Transparent
     ELSE IF u = slot THEN scanline_oam[slot] ELSE sprite_units[u]]

fetch_sprite ==
  /\ NextDot
  /\ ppu_mask.sprite /\ VisibleDots(LastTest + 1..LastFetch)
  /\ sprite_units' = Fetched(cycle' - (LastTest + 1))
  /\ UNCHANGED <<program, found, search>>

pre_render_dot ==
  /\ NextDot
  /\ scanline' = PreRender
  /\ sprite_overflow' = (sprite_overflow /\ cycle' # 1)
  /\ sprite_index' = IF ppu_mask.sprite THEN 0 ELSE sprite_index
  /\ UNCHANGED <<program, sprites_found, scanline_oam, oam_read_buffer, stop_early,
                 oam_y_byte_offset, sprite_units>>

idle_dot ==
  /\ NextDot
  /\ scanline' # PreRender
  /\ ~(ppu_mask_bg_or_sprite_enabled /\ VisibleDots(FirstRead..LastTest))
  /\ ~(ppu_mask.sprite /\ VisibleDots({ResetDot} \union LastTest + 1..LastFetch))
  /\ sprite_units' = IF VisibleDots({ResetDot}) THEN Drawn ELSE sprite_units
  /\ UNCHANGED <<program, found, search>>

clock_ppu ==
  \/ read_oam \/ test_sprite
  \/ reset_secondary_oam \/ fetch_sprite
  \/ pre_render_dot \/ idle_dot

-----------------------------------------------------------------------------
(* THE PROGRAM *)

ppu == <<beam, found, search, sprite_units>>

write_2000(h) == height' = h /\ UNCHANGED <<ppu, ppu_mask, oam>>

write_2001(mask) == ppu_mask' = mask /\ UNCHANGED <<ppu, height, oam>>

(* OAM at oam_addr, which the program can set to any address.  While        *)
(* rendering the write only moves oam_addr.                                 *)
write_2004(address, data) ==
  /\ ~Rendering
  /\ oam' = [oam EXCEPT ![address] = data]
  /\ UNCHANGED <<ppu, ppu_mask, height>>

(* A byte that a DMA copies to this address.                                *)
execute_DMA(address, data) ==
  /\ oam' = [oam EXCEPT ![address] = data]
  /\ UNCHANGED <<ppu, ppu_mask, height>>

-----------------------------------------------------------------------------
Init ==
  /\ scanline = 0 /\ cycle = 0
  /\ ppu_mask = [bg |-> FALSE, sprite |-> FALSE]
  /\ height \in Heights
  /\ oam \in PowerOnOam
  /\ oam_read_buffer = 0
  /\ sprite_index = 0 /\ sprites_found = 0 /\ stop_early = FALSE
  /\ oam_y_byte_offset = 0
  /\ scanline_oam = [slot \in 0..Slots - 1 |-> Blank]
  /\ sprite_overflow = FALSE
  /\ sprite_units = Drawn

Height == \E h \in Heights : write_2000(h)
Mask == \E mask \in Masks : write_2001(mask)
OamWrite == \E address \in Writable, data \in Bytes : write_2004(address, data)
Dma == \E address \in Writable, data \in Bytes : execute_DMA(address, data)

Next ==
  \/ clock_ppu
  \/ Height \/ Mask
  \/ OamWrite \/ Dma

Spec == Init /\ [][Next]_vars

-----------------------------------------------------------------------------
(* Every counter within its range; with sprite_index and the offset within  *)
(* theirs, no byte beyond OAM is read.                                      *)
TypeOK ==
  /\ scanline \in 0..PreRender /\ cycle \in 0..LastFetch
  /\ ppu_mask \in [bg: BOOLEAN, sprite: BOOLEAN]
  /\ height \in Heights
  /\ oam \in Oam
  /\ oam_read_buffer \in Bytes \union {0}
  /\ sprite_index \in 0..Sprites - 1
  /\ sprites_found \in 0..Slots + 1
  /\ stop_early \in BOOLEAN
  /\ oam_y_byte_offset \in 0..SpriteBytes - 1
  /\ scanline_oam \in [0..Slots - 1 -> 0..Blank]
  /\ sprite_overflow \in BOOLEAN
  /\ sprite_units \in [0..Slots - 1 -> 0..Transparent]
=============================================================================
