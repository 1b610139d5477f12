---------------------------- MODULE PixelOutput ----------------------------
(***************************************************************************)
(* The pixels that ppu.c puts out: the background of Picture, the sprite   *)
(* units of a line, which of the two is in front, and the hit of sprite 0. *)
(* The hit is not told by the pixels: a look-ahead compares sprite 0, as   *)
(* it is in OAM, with the shift registers, up to fifteen dots early.       *)
(*                                                                         *)
(* A colour is reduced to whether it is opaque, a sprite to its opaque     *)
(* pixels, line by line and as they are shown, flips included.  There are  *)
(* no more sprites than units.  How those of a line are found is in        *)
(* SpriteEvaluation; here they are the ones in range, in order, unless the *)
(* program disturbed the evaluation: then it is left open what the units   *)
(* show.  The fetches of dots 257 to 320 are made on the first of them.    *)
(* The lines of VBlank are left out: what a program does then it does      *)
(* before PreRender.                                                       *)
(***************************************************************************)
EXTENDS Picture, Integers, FiniteSets

CONSTANTS
  Sprites,        \* number of sprites
  SpriteHeight,   \* lines of a sprite
  OamContents,    \* what a program puts into OAM
  Patterns        \* the opaque pixels of the name tables, in each plane

Rows == [0..SpriteHeight - 1 -> SUBSET (0..7)]
Sprite == [y : Nat, x : 0..LastShown - 1, rows : Rows, front : BOOLEAN]

ASSUME SpritesAssumption == Sprites \in 1..8 /\ SpriteHeight \in Nat \ {0}
ASSUME OamAssumption == OamContents # {} /\ OamContents \subseteq [1..Sprites -> Sprite]
ASSUME PatternsAssumption ==
  Patterns # {} /\ Patterns \subseteq [lo : SUBSET (0..Width - 1), hi : SUBSET (0..Width - 1)]

VARIABLES
  pattern,                  \* one of Patterns
  oam,
  units,                    \* x counter, shift register and priority of each unit
  known,                    \* whether they are: it is left open what others show
  current_pixel,            \* what was last put out
  hit_target,               \* l_sl and l_cl
  sp_frame_hit_lookahead,
  sprite_hit,               \* bit 6 of ppu_status
  sprite_overflow,          \* bit 5
  evaluated,                \* nothing has disturbed the evaluation of this line
  calm,                     \* nor, since the pre-render line, anything else
  overlapped                \* sprite 0 and the background have met since then

memory_vars == <<pattern, oam>>
pixel_vars == <<units, known, current_pixel>>
hit_vars == <<hit_target, sp_frame_hit_lookahead, sprite_hit, sprite_overflow>>
seen_vars == <<evaluated, calm, overlapped>>
output_vars == <<picture_vars, memory_vars, pixel_vars, hit_vars, seen_vars>>

UnitNumbers == 1..Sprites
Rendering == ppu_mask.bg /\ ppu_mask.sprite
FrameStarts == scanline = PreRender /\ dot = 0

Opaque(lo, hi) == lo \in pattern.lo \/ hi \in pattern.hi

-----------------------------------------------------------------------------
(* The units.                                                              *)

(* A sprite is shown one line below its y.                                 *)
InRange(sprite, line) == line - sprite.y \in 0..SpriteHeight - 1

Unit(sprite, line) == [x_counter |-> sprite.x, row |-> sprite.rows[line - sprite.y], front |-> sprite.front]

(* Secondary OAM is filled with 255 where nothing was found.               *)
Missing == [x_counter |-> LastShown - 1, row |-> {}, front |-> FALSE]

Nothing == [n \in UnitNumbers |-> Missing]

(* The units are filled in the order of OAM.                               *)
Place(i, line) == Cardinality({ j \in 1..i : InRange(oam[j], line) })
Fills(i, n, line) == InRange(oam[i], line) /\ Place(i, line) = n

Loaded ==
  [ n \in UnitNumbers |->
      IF \E i \in UnitNumbers : Fills(i, n, scanline)
      THEN Unit(oam[CHOOSE i \in UnitNumbers : Fills(i, n, scanline)], scanline)
      ELSE Missing ]

fetch_sprites ==
  /\ known' = evaluated
  /\ units' = IF evaluated THEN Loaded ELSE Nothing

NextBits(row) == { bit - 1 : bit \in row \ {0} }

(* Mutant: a sprite is shifted out while it is waiting, too.               *)
ShiftedOutMutant(unit) ==
  [unit EXCEPT !.x_counter = IF @ = 0 THEN 0 ELSE @ - 1, !.row = NextBits(@)]

ShiftedOut(unit) ==
  IF unit.x_counter # 0 THEN [unit EXCEPT !.x_counter = @ - 1] ELSE [unit EXCEPT !.row = NextBits(@)]

Units ==
  CASE Shown -> units' = [n \in UnitNumbers |-> ShiftedOut(units[n])] /\ UNCHANGED known
    [] dot = CopyDot /\ Visible /\ ppu_mask.sprite -> fetch_sprites
    [] OTHER -> UNCHANGED <<units, known>>

-----------------------------------------------------------------------------
(* The pixel.                                                              *)

Backdrop == [layer |-> "backdrop", unit |-> 0]
BackgroundPixel == [layer |-> "background", unit |-> 0]
SpritePixel(n) == [layer |-> "sprite", unit |-> n]

BackgroundOpaque == Opaque(bkg_internals.pt_lo_shift_reg[fine_x], bkg_internals.pt_hi_shift_reg[fine_x])

Active == { n \in UnitNumbers : units[n].x_counter = 0 /\ 0 \in units[n].row }

SpriteHidden == (~ppu_mask.sprite_left /\ dot < 8) \/ ~ppu_mask.sprite

(* The unit with the lowest number is the last to be looked at.            *)
get_sprite_pixel == CHOOSE n \in Active : \A other \in Active : n <= other

NoSprite == IF BackgroundOpaque /\ ~ShowsBackdrop THEN BackgroundPixel ELSE Backdrop

get_pixel(n) == IF units[n].front \/ NoSprite = Backdrop THEN SpritePixel(n) ELSE NoSprite

PutOut ==
  CASE ~Shown -> UNCHANGED current_pixel
    [] Shown /\ SpriteHidden -> current_pixel' = NoSprite
    [] Shown /\ ~SpriteHidden /\ known ->
         current_pixel' = IF Active = {} THEN NoSprite ELSE get_pixel(get_sprite_pixel)
    [] Shown /\ ~SpriteHidden /\ ~known ->
         current_pixel' \in {NoSprite} \cup { SpritePixel(n) : n \in UnitNumbers }

-----------------------------------------------------------------------------
(* The hit of sprite 0, which is number 1 here.                            *)

SpriteZero == oam[1]
NoTarget == [l_sl |-> PreRender + 1, l_cl |-> 0]
Clips == ~ppu_mask.left \/ ~ppu_mask.sprite_left

(* Done at the end of a dot, with the registers as the dot leaves them.    *)
LooksAhead ==
  /\ Rendering /\ ~sprite_overflow'
  /\ scanline \in 1..LastVisible /\ InRange(SpriteZero, scanline - 1)
  /\ dot % 8 = 0 /\ dot < LastShown /\ SpriteZero.x \div 8 = dot \div 8

(* Mutant: the fine scroll is forgotten.                                   *)
LookAheadBitMutant(mask) == mask + (SpriteZero.x % 8) - 1

LookAheadBit(mask) == mask + fine_x + (SpriteZero.x % 8) - 1

(* A register has no bit 16 and above.                                     *)
Meets(mask) ==
  LET bit == LookAheadBit(mask) IN
  /\ bit \in Bits
  /\ Opaque(bkg_internals'.pt_lo_shift_reg[bit], bkg_internals'.pt_hi_shift_reg[bit])
  /\ mask - 1 \in SpriteZero.rows[scanline - 1 - SpriteZero.y]

(* Nothing hits on the last pixel, nor on the first eight if either layer  *)
(* is hidden there.                                                        *)
HitColumns ==
  { SpriteZero.x + mask : mask \in { m \in 1..8 : Meets(m) } }
    \ ({LastShown} \cup (IF Clips THEN 1..8 ELSE {}))

Lookahead(armed) ==
  LET hits == HitColumns
      first == CHOOSE c \in hits : \A other \in hits : c <= other
  IN CASE ~LooksAhead -> [target |-> hit_target, armed |-> armed]
       [] LooksAhead /\ ~armed /\ hits # {} -> [target |-> [l_sl |-> scanline, l_cl |-> first], armed |-> TRUE]
       [] OTHER -> [target |-> NoTarget, armed |-> armed]

sprite_hit_lookahead ==
  LET looked == Lookahead(sp_frame_hit_lookahead /\ ~(scanline = PreRender /\ ppu_mask.sprite))
      hits == looked.target = [l_sl |-> scanline, l_cl |-> dot]
  IN /\ sp_frame_hit_lookahead' = looked.armed
     /\ hit_target' = IF hits THEN NoTarget ELSE looked.target
     /\ sprite_hit' = (hits \/ (sprite_hit /\ ~FrameStarts))

(* Whether a ninth sprite is found is in SpriteEvaluation.                 *)
SpriteOverflow ==
  \/ sprite_overflow' = (sprite_overflow /\ ~(scanline = PreRender /\ dot = 1))
  \/ Shown /\ (ppu_mask.bg \/ ppu_mask.sprite) /\ sprite_overflow' = TRUE

-----------------------------------------------------------------------------
(* What there is to see of sprite 0 where the background is drawn.         *)
Overlaps ==
  /\ Shown /\ dot # LastShown /\ ~(Clips /\ dot <= 8)
  /\ scanline > 0 /\ InRange(SpriteZero, scanline - 1)
  /\ (dot - 1) - SpriteZero.x \in SpriteZero.rows[scanline - 1 - SpriteZero.y]
  /\ BackgroundOpaque

See ==
  /\ evaluated' = IF dot = 0 THEN ppu_mask.sprite ELSE evaluated
  /\ calm' = IF FrameStarts THEN Rendering ELSE calm
  /\ overlapped' = (calm' /\ (Overlaps \/ (overlapped /\ ~FrameStarts)))

ClockPixel ==
  /\ clock_ppu
  /\ Units /\ PutOut
  /\ SpriteOverflow /\ sprite_hit_lookahead
  /\ See
  /\ UNCHANGED memory_vars

(* OAM is left alone while it is in use.                                   *)
write_oam ==
  /\ writes < MaxWrites /\ writes' = writes + 1
  /\ FrameStarts \/ ~(ppu_mask.bg \/ ppu_mask.sprite)
  /\ oam' \in OamContents
  /\ UNCHANGED <<ppu_vars, written_vars, line_start, steady>>

Program ==
  /\ \/ Write /\ UNCHANGED oam
     \/ write_oam
  /\ LET quiet == UNCHANGED <<ppu_mask, fine_x, oam>> IN
     /\ evaluated' = (evaluated /\ ppu_mask' = ppu_mask)
     /\ calm' = (calm /\ quiet)
     /\ overlapped' = (overlapped /\ quiet)
  /\ UNCHANGED <<pattern, pixel_vars, hit_vars>>

OutputInit ==
  /\ PictureInit
  /\ pattern \in Patterns /\ oam \in OamContents
  /\ units = [n \in UnitNumbers |-> [x_counter |-> 0, row |-> {}, front |-> TRUE]]
  /\ known = TRUE
  /\ current_pixel = Backdrop
  /\ hit_target = NoTarget /\ sp_frame_hit_lookahead = FALSE
  /\ sprite_hit = FALSE /\ sprite_overflow = FALSE
  /\ evaluated = FALSE /\ calm = FALSE /\ overlapped = FALSE

OutputNext == ClockPixel \/ Program

OutputSpec == OutputInit /\ [][OutputNext]_output_vars

-----------------------------------------------------------------------------
(* In a frame that nothing disturbs, the pixel just put out is the one     *)
(* that OAM and the scroll position say: of the sprites that have an       *)
(* opaque pixel there the first counts, and it is put out unless it is     *)
(* behind an opaque pixel of the background.  Left out are line 0, which   *)
(* shows what the last line fetched, and the eighth pixel of a clipped     *)
(* line, which LeftmostHidden is about.                                    *)
FrontmostShown ==
  LET drawn == dot - 1
      pixel == ((8 * line_start) + fine_x + drawn - 1) % Width
      line == scanline - 1
      there == { i \in UnitNumbers :
                   /\ InRange(oam[i], line)
                   /\ (drawn - 1) - oam[i].x \in oam[i].rows[line - oam[i].y] }
      background == Opaque(pixel, pixel) /\ (ppu_mask.left \/ drawn > 8)
      sprites == IF ppu_mask.sprite_left \/ drawn > 8 THEN there ELSE {}
      Shows(i) == (background => oam[i].front) /\ \A other \in sprites : i <= other
  IN calm /\ steady /\ scanline \in 1..LastVisible /\ drawn \in 1..LastShown /\ (Clips => drawn # 8) =>
       /\ \A i \in sprites : Shows(i) => current_pixel = SpritePixel(Place(i, line))
       /\ (\A i \in sprites : ~Shows(i)) =>
            current_pixel = IF background THEN BackgroundPixel ELSE Backdrop

(* In a frame that nothing disturbs, bit 6 of $2002 says at every dot      *)
(* whether an opaque pixel of sprite 0 has been drawn over one of the      *)
(* background, as long as the look-ahead can see as far as it needs to,    *)
(* sprite 0 is not past the right edge, and no line had too many sprites.  *)
Foreseen == fine_x + (SpriteZero.x % 8) <= 8 /\ SpriteZero.x + 8 <= LastShown

HitAsDrawn ==
  calm /\ ~sprite_overflow /\ Foreseen => sprite_hit = overlapped
=============================================================================
