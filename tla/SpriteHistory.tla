---------------------------- MODULE SpriteHistory ----------------------------
(***************************************************************************)
(* SpriteEvaluation with what is known of the line under way, and the      *)
(* sprites such a line should find.                                        *)
(***************************************************************************)
EXTENDS SpriteEvaluation, FiniteSets

VARIABLES
  steady,   \* since the idle dot sprites were shown and nothing was changed
  aligned   \* at the idle dot the search was to start with the y positions

history_vars == <<vars, steady, aligned>>

HistoryInit == Init /\ steady = FALSE /\ aligned = TRUE

Clock ==
  /\ clock_ppu
  /\ steady' = IF cycle' = 0 THEN TRUE ELSE steady /\ ppu_mask.sprite
  /\ aligned' = IF cycle' = 0 THEN oam_y_byte_offset' = 0 ELSE aligned

(* Writes of $2000, $2001 and OAM between the dots.  $2004 is no matter: a  *)
(* line is steady while it is rendered, and then $2004 does not write.      *)
Disturb ==
  /\ \/ Height /\ steady' = (steady /\ height' = height)
     \/ Mask /\ steady' = (steady /\ ppu_mask'.sprite)
     \/ Dma /\ steady' = (steady /\ oam' = oam)
  /\ UNCHANGED aligned

Undisturbed == OamWrite /\ UNCHANGED <<steady, aligned>>

HistoryNext == Clock \/ Disturb \/ Undisturbed

HistorySpec == HistoryInit /\ [][HistoryNext]_history_vars

-----------------------------------------------------------------------------
(* THE SPRITES OF A LINE *)

Y(sprite) == oam[sprite * SpriteBytes]
OnLine == { sprite \in 0..Sprites - 1 : InRange(Y(sprite), scanline, height) }

(* How many sprites of the line come before this one.                       *)
Rank(sprite) == Cardinality({ other \in OnLine : other < sprite })

(* The sprite due in a slot: the first ones in the order of OAM.            *)
Due(slot) ==
  IF \E sprite \in OnLine : Rank(sprite) = slot
  THEN CHOOSE sprite \in OnLine : Rank(sprite) = slot
  ELSE Blank

(* After the last slot is taken the search goes on, with the next sprite    *)
(* and the next byte of it each time.                                       *)
Last == Due(Slots - 1)
Overflows ==
  \E sprite \in Last + 1..Sprites - 1 :
    InRange(oam[sprite * SpriteBytes + ((sprite - (Last + 1)) % SpriteBytes)],
            scanline, height)

Evaluated == scanline < VisibleLines /\ cycle >= LastTest

(* On a line that is rendered throughout, secondary OAM comes to hold the   *)
(* first sprites in range, in the order of OAM and no more than fit, and    *)
(* the slots left over are empty (sprite_evaluation), whatever was rendered *)
(* before, and whatever the program does to OAM through $2004.                *)
FirstInRangeFound ==
  Evaluated /\ steady /\ aligned => \A slot \in 0..Slots - 1 : scanline_oam[slot] = Due(slot)

(* Likewise the overflow flag is set when the search, one byte further on   *)
(* for each sprite, meets a byte in range, and the count of sprites tells   *)
(* that it did.                                                             *)
OverflowSearchesDiagonally ==
  Evaluated /\ steady /\ aligned =>
    /\ sprites_found = CASE Overflows -> Slots + 1
                         [] ~Overflows /\ Last # Blank -> Slots
                         [] OTHER -> Cardinality(OnLine)
    /\ Overflows => sprite_overflow

(* After the fetches of such a line its sprites, and nothing left over from *)
(* another line, are in the sprite units.                                   *)
UnitsShowSprites ==
  scanline < VisibleLines /\ cycle = LastFetch /\ steady /\ aligned =>
    \A unit \in 0..Slots - 1 : sprite_units[unit] = IF Due(unit) = Blank THEN Transparent ELSE Due(unit)
=============================================================================
