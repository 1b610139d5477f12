----------------------------- MODULE SpriteProofs -----------------------------
(* Type correctness of SpriteEvaluation, and the sprites that a line comes   *)
(* to show, for every size of OAM, secondary OAM and the screen.            *)
EXTENDS SpriteHistory, FiniteSetTheorems, TLAPS

LEMMA NaturalSizes ==
  /\ Sprites \in Nat /\ Sprites > 0 /\ Slots \in Nat /\ Slots > 0
  /\ SpriteBytes \in Nat /\ SpriteBytes > 0
  /\ Evaluations \in Nat /\ Evaluations > 0 /\ VisibleLines \in Nat /\ VisibleLines > 0
  /\ LastTest \in Nat /\ LastFetch \in Nat /\ LastTest >= 3 /\ LastFetch > LastTest
BY SizeAssumption DEF LastTest, LastFetch, ResetDot

(* A byte of a sprite is a byte of OAM.                                     *)
LEMMA ByteInOam ==
  ASSUME NEW i \in 0..Sprites - 1, NEW b \in 0..SpriteBytes - 1
  PROVE  i * SpriteBytes + b \in 0..OamSize - 1
<1>1. i * SpriteBytes \in Nat /\ i * SpriteBytes =< (Sprites - 1) * SpriteBytes
  BY NaturalSizes
<1>2. (Sprites - 1) * SpriteBytes = OamSize - SpriteBytes /\ OamSize \in Nat
  BY NaturalSizes DEF OamSize
<1> QED BY <1>1, <1>2, NaturalSizes

(* The beam stays on the screen.                                            *)
LEMMA DotOnScreen ==
  ASSUME TypeOK, NextDot
  PROVE  scanline' \in 0..PreRender /\ cycle' \in 0..LastFetch
<1>1. cycle' \in 0..LastFetch
  BY NaturalSizes DEF TypeOK, NextDot, LineEnds
<1>2. PreRender \in Nat
  BY NaturalSizes DEF PreRender
<1>3. (scanline + 1) % (PreRender + 1) \in 0..PreRender
  BY <1>2 DEF TypeOK
<1>4. scanline' \in 0..PreRender
  BY <1>3 DEF TypeOK, NextDot
<1> QED BY <1>1, <1>4

-----------------------------------------------------------------------------
LEMMA ReadTypes == ASSUME TypeOK, read_oam PROVE TypeOK'
<1>1. sprite_index * SpriteBytes + oam_y_byte_offset \in 0..OamSize - 1
  BY ByteInOam DEF TypeOK
<1>2. oam_read_buffer' \in Bytes \union {0}
  BY <1>1 DEF TypeOK, read_oam, Oam
<1> QED
  BY <1>2, DotOnScreen DEF TypeOK, read_oam, EvaluationDot, program, found

LEMMA TestTypes == ASSUME TypeOK, test_sprite PROVE TypeOK'
<1>1. scanline' \in 0..PreRender /\ cycle' \in 0..LastFetch
  BY DotOnScreen DEF test_sprite, EvaluationDot
<1>2. sprites_found' \in 0..Slots + 1
  BY NaturalSizes DEF TypeOK, test_sprite, Transfers, Searching
<1>3. scanline_oam' \in [0..Slots - 1 -> 0..Blank]
  <2>1. CASE Transfers
    <3>1. sprite_index \in 0..Blank /\ sprites_found \in 0..Slots - 1
      BY <2>1, NaturalSizes DEF TypeOK, Transfers, Blank
    <3> QED BY <2>1, <3>1 DEF TypeOK, test_sprite, ppu_transfer_oam
  <2>2. CASE ~Transfers
    BY <2>2 DEF TypeOK, test_sprite
  <2> QED BY <2>1, <2>2
<1>4. NextOffset \in 0..SpriteBytes - 1
  BY NaturalSizes DEF TypeOK, NextOffset
<1>5. sprite_index' \in 0..Sprites - 1 /\ oam_y_byte_offset' \in 0..SpriteBytes - 1
  BY <1>4, NaturalSizes DEF TypeOK, test_sprite, EndsPass
<1>6. stop_early' \in BOOLEAN /\ sprite_overflow' \in BOOLEAN
  BY DEF TypeOK, test_sprite
<1> QED
  BY <1>1, <1>2, <1>3, <1>5, <1>6 DEF TypeOK, test_sprite, program

LEMMA DrawnIsTyped == Drawn \in [0..Slots - 1 -> 0..Transparent]
BY NaturalSizes DEF Drawn, Transparent

LEMMA ResetTypes == ASSUME TypeOK, reset_secondary_oam PROVE TypeOK'
<1>1. scanline_oam' \in [0..Slots - 1 -> 0..Blank]
  BY NaturalSizes DEF reset_secondary_oam, Blank
<1>2. sprite_units' \in [0..Slots - 1 -> 0..Transparent]
  BY DrawnIsTyped DEF reset_secondary_oam
<1>3. sprite_index' \in 0..Sprites - 1 /\ sprites_found' \in 0..Slots + 1
  BY NaturalSizes DEF reset_secondary_oam
<1> QED
  BY <1>1, <1>2, <1>3, DotOnScreen DEF TypeOK, reset_secondary_oam, program

LEMMA FetchTypes == ASSUME TypeOK, fetch_sprite PROVE TypeOK'
<1>1. ASSUME NEW slot PROVE Fetched(slot) \in [0..Slots - 1 -> 0..Transparent]
  BY NaturalSizes DEF TypeOK, Fetched, Transparent, Blank
<1>2. sprite_units' \in [0..Slots - 1 -> 0..Transparent]
  BY <1>1 DEF fetch_sprite
<1> QED
  BY <1>2, DotOnScreen DEF TypeOK, fetch_sprite, program, found, search

LEMMA PreRenderTypes == ASSUME TypeOK, pre_render_dot PROVE TypeOK'
<1>1. sprite_index' \in 0..Sprites - 1
  BY NaturalSizes DEF TypeOK, pre_render_dot
<1>2. sprite_overflow' \in BOOLEAN
  BY DEF TypeOK, pre_render_dot
<1> QED
  BY <1>1, <1>2, DotOnScreen DEF TypeOK, pre_render_dot, program

LEMMA IdleTypes == ASSUME TypeOK, idle_dot PROVE TypeOK'
<1>1. sprite_units' \in [0..Slots - 1 -> 0..Transparent]
  BY DrawnIsTyped DEF TypeOK, idle_dot
<1> QED
  BY <1>1, DotOnScreen DEF TypeOK, idle_dot, program, found, search

LEMMA ProgramTypes == ASSUME TypeOK, Height \/ Mask \/ OamWrite \/ Dma PROVE TypeOK'
<1>1. CASE Height
  BY <1>1 DEF TypeOK, Height, write_2000, ppu, beam, found, search
<1>2. CASE Mask
  BY <1>2, ProgramAssumption DEF TypeOK, Mask, write_2001, ppu, beam, found, search
<1>3. CASE OamWrite \/ Dma
  <2>1. oam' \in Oam
    BY <1>3, ProgramAssumption DEF TypeOK, OamWrite, Dma, write_2004, execute_DMA, Oam
  <2> QED
    BY <1>3, <2>1 DEF TypeOK, OamWrite, Dma, write_2004, execute_DMA, ppu, beam, found, search
<1> QED BY <1>1, <1>2, <1>3

LEMMA TypeInit == Init => TypeOK
<1> SUFFICES ASSUME Init PROVE TypeOK
  OBVIOUS
<1>1. oam \in Oam /\ height \in Heights
  BY ProgramAssumption DEF Init
<1>2. scanline_oam \in [0..Slots - 1 -> 0..Blank]
  BY NaturalSizes DEF Init, Blank
<1>3. sprite_units \in [0..Slots - 1 -> 0..Transparent]
  BY DrawnIsTyped DEF Init
<1>4. scanline \in 0..PreRender /\ cycle \in 0..LastFetch
  BY NaturalSizes DEF Init, PreRender
<1>5. ppu_mask \in [bg: BOOLEAN, sprite: BOOLEAN]
  BY DEF Init
<1>6. sprite_index \in 0..Sprites - 1 /\ sprites_found \in 0..Slots + 1 /\ oam_y_byte_offset \in 0..SpriteBytes - 1
  BY NaturalSizes DEF Init
<1>7. oam_read_buffer \in Bytes \union {0} /\ stop_early \in BOOLEAN /\ sprite_overflow \in BOOLEAN
  BY DEF Init
<1> QED
  BY <1>1, <1>2, <1>3, <1>4, <1>5, <1>6, <1>7 DEF TypeOK

(* The counters of the evaluation stay within their arrays whatever is      *)
(* switched on and off, and written, at whatever dot.                       *)
THEOREM TypeCorrect == Spec => []TypeOK
<1>1. TypeOK /\ [Next]_vars => TypeOK'
  <2> SUFFICES ASSUME TypeOK, [Next]_vars PROVE TypeOK'
    OBVIOUS
  <2>1. CASE clock_ppu
    BY <2>1, ReadTypes, TestTypes, ResetTypes, FetchTypes, PreRenderTypes, IdleTypes DEF clock_ppu
  <2>2. CASE Height \/ Mask \/ OamWrite \/ Dma
    BY <2>2, ProgramTypes
  <2>3. CASE UNCHANGED vars
    BY <2>3 DEF TypeOK, vars, beam, program, found, search
  <2> QED
    BY <2>1, <2>2, <2>3 DEF Next
<1> QED
  BY TypeInit, <1>1, PTL DEF Spec

-----------------------------------------------------------------------------
(* The sprites of the line before the n-th, and how many they are.          *)
Before(n) == { sprite \in OnLine : sprite < n }

LEMMA FewBefore ==
  ASSUME NEW n \in Nat
  PROVE  /\ IsFiniteSet(Before(n)) /\ Cardinality(Before(n)) \in Nat
         /\ Rank(n) = Cardinality(Before(n))
<1>1. IsFiniteSet(0..Sprites - 1)
  BY NaturalSizes, FS_Interval
<1>2. IsFiniteSet(Before(n))
  BY <1>1, FS_Subset, Before(n) \subseteq 0..Sprites - 1 DEF Before, OnLine
<1>3. Rank(n) = Cardinality(Before(n))
  BY DEF Rank, Before
<1> QED BY <1>2, <1>3, FS_CardinalityType

LEMMA OneMore ==
  ASSUME NEW n \in OnLine
  PROVE  /\ Before(n + 1) = Before(n) \union {n}
         /\ Cardinality(Before(n + 1)) = Cardinality(Before(n)) + 1
<1>1. n \in Nat /\ n \notin Before(n)
  BY NaturalSizes DEF OnLine, Before
<1>2. Before(n + 1) = Before(n) \union {n}
  BY <1>1, NaturalSizes DEF OnLine, Before
<1>3. IsFiniteSet(Before(n))
  BY <1>1, FewBefore
<1> QED BY <1>1, <1>2, <1>3, FS_AddElement

LEMMA NoneMore ==
  ASSUME NEW n \in Nat, n \notin OnLine
  PROVE  Before(n + 1) = Before(n)
BY NaturalSizes DEF OnLine, Before

LEMMA MoreBefore ==
  ASSUME NEW m \in Nat, NEW n \in Nat, m <= n
  PROVE  Before(m) \subseteq Before(n) /\ Cardinality(Before(m)) <= Cardinality(Before(n))
<1>1. Before(m) \subseteq Before(n)
  BY NaturalSizes DEF OnLine, Before
<1> QED BY <1>1, FewBefore, FS_Subset

(* No two sprites of the line have the same place among them.               *)
LEMMA RanksDiffer ==
  ASSUME NEW s \in OnLine, NEW t \in OnLine, Rank(s) = Rank(t)
  PROVE  s = t
<1>1. s \in Nat /\ t \in Nat
  BY NaturalSizes DEF OnLine
<1>2. ASSUME NEW a \in OnLine, NEW b \in OnLine, a < b PROVE Rank(a) < Rank(b)
  <2>1. a \in Nat /\ b \in Nat /\ a + 1 <= b
    BY <1>2, NaturalSizes DEF OnLine
  <2>2. Cardinality(Before(a + 1)) = Rank(a) + 1 /\ Rank(b) = Cardinality(Before(b))
    BY <2>1, OneMore, FewBefore
  <2>3. Cardinality(Before(a + 1)) <= Cardinality(Before(b))
    BY <2>1, MoreBefore
  <2> QED BY <2>1, <2>2, <2>3, FewBefore
<1>3. Rank(s) \in Nat
  BY <1>1, FewBefore
<1> QED BY <1>1, <1>2, <1>3

LEMMA AllBefore ==
  /\ Before(Sprites) = OnLine
  /\ \A s \in OnLine : Rank(s) \in Nat /\ Rank(s) < Cardinality(OnLine)
<1>1. Before(Sprites) = OnLine
  BY NaturalSizes DEF OnLine, Before
<1>2. ASSUME NEW s \in OnLine PROVE Rank(s) \in Nat /\ Rank(s) < Cardinality(OnLine)
  <2>1. s \in Nat /\ s + 1 <= Sprites
    BY NaturalSizes DEF OnLine
  <2>2. Cardinality(Before(s + 1)) = Rank(s) + 1
    BY <2>1, OneMore, FewBefore
  <2>3. Cardinality(Before(s + 1)) <= Cardinality(Before(Sprites))
    BY <2>1, MoreBefore, NaturalSizes
  <2> QED BY <1>1, <2>1, <2>2, <2>3, FewBefore, NaturalSizes
<1> QED BY <1>1, <1>2

-----------------------------------------------------------------------------
(* What the evaluation has found when it has tested the first n sprites.    *)

LastFound == scanline_oam[Slots - 1]

(* Whether the search that goes on after a last sprite finds this one.      *)
Hit(sprite, last) ==
  InRange(oam[sprite * SpriteBytes + ((sprite - (last + 1)) % SpriteBytes)], scanline, height)

SlotsFilled(n) ==
  \A slot \in 0..Slots - 1 :
    IF slot < sprites_found
    THEN scanline_oam[slot] \in Before(n) /\ Rank(scanline_oam[slot]) = slot
    ELSE scanline_oam[slot] = Blank

Searched(n) ==
  /\ sprites_found < Slots => sprites_found = Cardinality(Before(n))
  /\ sprites_found = Slots => \A sprite \in LastFound + 1..n - 1 : ~Hit(sprite, LastFound)
  /\ sprites_found = Slots + 1 =>
       sprite_overflow /\ \E sprite \in LastFound + 1..n - 1 : Hit(sprite, LastFound)

Placed(n) == SlotsFilled(n) /\ Searched(n)

(* The byte the next sprite is tested with.                                 *)
Offset(n) ==
  IF sprites_found = Slots THEN (n - (LastFound + 1)) % SpriteBytes ELSE 0

Running(n) ==
  /\ ~stop_early
  /\ sprite_index = n
  /\ oam_y_byte_offset = Offset(n)

(* At the beginning of a line nothing is found.                             *)
LEMMA NothingPlaced ==
  ASSUME sprites_found' = 0, scanline_oam' = [slot \in 0..Slots - 1 |-> Blank]
  PROVE  Placed(0)'
<1>1. Before(0)' = {}
  BY NaturalSizes DEF Before, OnLine
<1>2. Cardinality(Before(0)') = 0
  BY <1>1, FS_EmptySet
<1> QED BY <1>2, NaturalSizes DEF Placed, SlotsFilled, Searched

LEMMA LastIsBefore ==
  ASSUME NEW n \in Nat, SlotsFilled(n), sprites_found >= Slots, sprites_found \in Nat
  PROVE  LastFound \in Nat /\ LastFound < n
<1>1. Slots - 1 \in 0..Slots - 1 /\ Slots - 1 < sprites_found
  BY NaturalSizes
<1>2. LastFound \in Before(n)
  BY <1>1 DEF SlotsFilled, LastFound
<1> QED BY <1>2, NaturalSizes DEF Before, OnLine

(* The sprite under test is in range when it is on the line or, once all    *)
(* slots are taken, when the search finds it.                               *)
LEMMA TestedByte ==
  ASSUME TypeOK, NEW n \in 0..Sprites - 1, scanline' = scanline, Running(n),
         oam_read_buffer = oam[sprite_index * SpriteBytes + oam_y_byte_offset]
  PROVE  /\ sprites_found # Slots => (sprite_in_y_range <=> n \in OnLine)
         /\ sprites_found = Slots => (sprite_in_y_range <=> Hit(n, LastFound))
<1>1. CASE sprites_found # Slots
  <2>1. sprite_index * SpriteBytes + oam_y_byte_offset = n * SpriteBytes
    BY <1>1, NaturalSizes DEF Running, Offset
  <2> QED BY <1>1, <2>1 DEF OnLine, Y, sprite_in_y_range
<1>2. CASE sprites_found = Slots
  BY <1>2 DEF Running, Offset, Hit, sprite_in_y_range
<1> QED BY <1>1, <1>2

(* Nothing of what is known of the line is about anything a dot changes.    *)
LEMMA LineKept ==
  ASSUME UNCHANGED <<scanline, height, oam>>
  PROVE  /\ OnLine' = OnLine
         /\ \A n : Before(n)' = Before(n) /\ Rank(n)' = Rank(n)
         /\ \A sprite, last : Hit(sprite, last)' = Hit(sprite, last)
<1>1. OnLine' = OnLine
  BY DEF OnLine, Y, InRange
<1> QED BY <1>1 DEF Before, Rank, Hit, InRange

LEMMA RestOf ==
  ASSUME NEW n \in Nat \ {0}, NEW q \in Int, NEW x \in 0..n - 1, NEW a, a = (n * q) + x
  PROVE  a % n = x
<1> DEFINE r == a \div n
           y == a % n
<1>1. a = (n * r) + y /\ y \in 0..n - 1 /\ r \in Int
  BY a \in Int
<1>2. n * (q - r) = y - x
  BY <1>1
<1> HIDE DEF r, y
<1>3. y = x
  <2>1. CASE q - r >= 1
    <3>1. n * (q - r) >= n
      BY <1>1, <2>1
    <3> QED BY <1>1, <1>2, <3>1
  <2>2. CASE q - r <= -1
    <3>1. n * (q - r) <= -n
      BY <1>1, <2>2
    <3> QED BY <1>1, <1>2, <3>1
  <2>3. CASE q - r = 0
    BY <1>1, <1>2, <2>3
  <2> QED BY <1>1, <2>1, <2>2, <2>3
<1> QED BY <1>3 DEF y

(* One byte further for one sprite further.                                 *)
LEMMA NextByte ==
  ASSUME NEW x \in Nat, NEW n \in Nat \ {0}
  PROVE  ((x % n) + 1) % n = (x + 1) % n
<1>1. PICK q \in Int, r \in 0..n - 1 : x = (n * q) + r /\ r = x % n
  BY x = (n * (x \div n)) + (x % n)
<1>2. PICK a \in Int, b \in Int, p \in Int : a = x + 1 /\ b = r + 1 /\ p = q + 1
  BY <1>1
<1>3. a = (n * q) + b /\ n * 0 = 0 /\ n * 1 = n /\ n * p = (n * q) + n
  <2>1. x = (n * q) + r
    BY <1>1
  <2>2. n * 0 = 0 /\ n * 1 = n /\ n * (q + 1) = (n * q) + n /\ n * q \in Int
    OBVIOUS
  <2> QED BY <1>2, <2>1, <2>2
<1>4. CASE b < n
  <2>1. a = (n * q) + b /\ b \in 0..n - 1 /\ b = (n * 0) + b
    BY <1>2, <1>3, <1>4
  <2>2. a % n = b /\ b % n = b
    BY <2>1, RestOf
  <2> QED BY <1>1, <1>2, <2>2
<1>5. CASE b = n
  <2>1. a = (n * p) + 0 /\ b = (n * 1) + 0 /\ 0 \in 0..n - 1
    BY <1>2, <1>3, <1>5
  <2>2. a % n = 0 /\ b % n = 0
    BY <2>1, RestOf
  <2> QED BY <1>1, <1>2, <2>2
<1> QED BY <1>1, <1>2, <1>4, <1>5

(* The test of the n-th sprite leaves what is found of the first n + 1.     *)
LEMMA TestPlaces ==
  ASSUME TypeOK, NEW n \in 0..Sprites - 1, scanline' = scanline, Running(n), Placed(n),
         oam_read_buffer = oam[sprite_index * SpriteBytes + oam_y_byte_offset],
         test_sprite
  PROVE  /\ Placed(n + 1)'
         /\ IF n + 1 < Sprites THEN Running(n + 1)' ELSE stop_early'
<1>1. /\ n \in Nat /\ n + 1 \in Nat /\ n - 1 \in Int /\ (n + 1) - 1 = n
      /\ sprites_found \in 0..Slots + 1
      /\ Slots \in Nat /\ Slots > 0 /\ Slots - 1 \in 0..Slots - 1
      /\ scanline_oam \in [0..Slots - 1 -> 0..Blank]
  BY NaturalSizes DEF TypeOK
<1>2. /\ OnLine' = OnLine
      /\ Before(n + 1)' = Before(n + 1)
      /\ \A s : Rank(s)' = Rank(s)
      /\ \A s, last : Hit(s, last)' = Hit(s, last)
  <2>1. UNCHANGED <<scanline, height, oam>>
    BY DEF test_sprite, program
  <2> QED BY <2>1, LineKept
<1>3. /\ sprites_found # Slots => (sprite_in_y_range <=> n \in OnLine)
      /\ sprites_found = Slots => (sprite_in_y_range <=> Hit(n, LastFound))
  BY TestedByte
<1>4. /\ ~stop_early /\ sprite_index = n /\ oam_y_byte_offset = Offset(n)
  BY DEF Running
<1>5. Before(n) \subseteq Before(n + 1)
  BY <1>1, MoreBefore
<1>6. IF n + 1 < Sprites
      THEN ~stop_early' /\ sprite_index' = n + 1 /\ oam_y_byte_offset' = NextOffset
      ELSE stop_early'
  BY <1>1, <1>4, NaturalSizes DEF test_sprite, EndsPass
<1>7. CASE sprites_found < Slots /\ n \in OnLine
  <2>1. Transfers /\ ~Searching
    BY <1>1, <1>3, <1>4, <1>7 DEF Transfers, Searching
  <2>2. /\ sprites_found' = sprites_found + 1
        /\ scanline_oam' = [scanline_oam EXCEPT ![sprites_found] = n]
    BY <1>1, <1>4, <1>7, <2>1 DEF test_sprite, ppu_transfer_oam
  <2>3. /\ n \in Before(n + 1) /\ Cardinality(Before(n + 1)) = sprites_found + 1
        /\ Rank(n) = sprites_found
    BY <1>1, <1>7, OneMore, FewBefore DEF Placed, Searched
  <2>4. SlotsFilled(n + 1)'
    <3>1. ASSUME NEW slot \in 0..Slots - 1
          PROVE  IF slot < sprites_found'
                 THEN scanline_oam'[slot] \in Before(n + 1) /\ Rank(scanline_oam'[slot]) = slot
                 ELSE scanline_oam'[slot] = Blank
      <4>1. CASE slot = sprites_found
        BY <1>1, <2>2, <2>3, <4>1
      <4>2. CASE slot # sprites_found
        <5>1. scanline_oam'[slot] = scanline_oam[slot]
          BY <1>1, <2>2, <4>2
        <5> QED BY <1>1, <1>5, <2>2, <4>2, <5>1 DEF Placed, SlotsFilled
      <4> QED BY <4>1, <4>2
    <3> QED BY <1>2, <3>1 DEF SlotsFilled
  <2>5. sprites_found' = Slots => LastFound' = n
    BY <1>1, <2>2 DEF LastFound
  <2>6. Searched(n + 1)'
    <3>1. sprites_found' < Slots => sprites_found' = Cardinality(Before(n + 1))
      BY <2>2, <2>3
    <3>2. sprites_found' = Slots => \A s \in LastFound' + 1..(n + 1) - 1 : ~Hit(s, LastFound')
      BY <1>1, <2>5
    <3>3. sprites_found' # Slots + 1
      BY <1>1, <1>7, <2>2
    <3> QED BY <1>2, <3>1, <3>2, <3>3 DEF Searched
  <2>7. n + 1 < Sprites => Running(n + 1)'
    <3>1. oam_y_byte_offset = 0 /\ NextOffset = 0
      BY <1>1, <1>4, <1>7, <2>1 DEF Offset, NextOffset
    <3>2. Offset(n + 1)' = 0
      BY <1>1, <2>5, NaturalSizes DEF Offset
    <3> QED BY <1>6, <3>1, <3>2 DEF Running
  <2> QED BY <1>6, <2>4, <2>6, <2>7 DEF Placed
<1>8. CASE sprites_found < Slots /\ n \notin OnLine
  <2>1. ~Transfers /\ ~Searching
    BY <1>1, <1>3, <1>8 DEF Transfers, Searching
  <2>2. UNCHANGED <<sprites_found, scanline_oam>>
    BY <2>1 DEF test_sprite
  <2>3. Before(n + 1) = Before(n)
    BY <1>1, <1>8, NoneMore
  <2>4. SlotsFilled(n + 1)'
    BY <1>2, <2>2, <2>3 DEF Placed, SlotsFilled
  <2>5. Searched(n + 1)'
    BY <1>1, <1>2, <1>8, <2>2, <2>3 DEF Placed, Searched
  <2>6. n + 1 < Sprites => Running(n + 1)'
    BY <1>1, <1>4, <1>6, <1>8, <2>1, <2>2 DEF Running, Offset, NextOffset
  <2> QED BY <1>6, <2>4, <2>5, <2>6 DEF Placed
<1>9. CASE sprites_found = Slots
  <2>1. ~Transfers /\ Searching
    BY <1>1, <1>4, <1>9 DEF Transfers, Searching
  <2>2. /\ scanline_oam' = scanline_oam /\ LastFound' = LastFound
        /\ sprites_found' = IF sprite_in_y_range THEN Slots + 1 ELSE Slots
        /\ sprite_in_y_range => sprite_overflow'
    BY <1>1, <1>9, <2>1 DEF test_sprite, LastFound
  <2>3. LastFound \in Nat /\ LastFound < n
    BY <1>1, <1>9, LastIsBefore DEF Placed
  <2>4. n \in LastFound + 1..(n + 1) - 1
    BY <1>1, <2>3
  <2>5. SlotsFilled(n + 1)'
    <3>1. ASSUME NEW slot \in 0..Slots - 1
          PROVE  /\ slot < sprites_found' /\ slot < sprites_found
                 /\ scanline_oam'[slot] \in Before(n + 1) /\ Rank(scanline_oam'[slot]) = slot
      BY <1>1, <1>5, <1>9, <2>2 DEF Placed, SlotsFilled
    <3> QED BY <1>2, <3>1 DEF SlotsFilled
  <2>6. Searched(n + 1)'
    <3>1. ASSUME ~sprite_in_y_range, NEW s \in LastFound + 1..(n + 1) - 1
          PROVE  ~Hit(s, LastFound)
      <4>1. CASE s = n
        BY <1>3, <1>9, <3>1, <4>1
      <4>2. CASE s # n
        <5>1. s \in LastFound + 1..n - 1
          BY <1>1, <2>3, <4>2
        <5> QED BY <1>9, <5>1 DEF Placed, Searched
      <4> QED BY <4>1, <4>2
    <3>2. sprite_in_y_range => Hit(n, LastFound)
      BY <1>3, <1>9
    <3>3. sprites_found' >= Slots /\ Slots # Slots + 1
      BY <1>1, <2>2
    <3> QED BY <1>1, <1>2, <2>2, <2>4, <3>1, <3>2, <3>3 DEF Searched
  <2>7. n + 1 < Sprites => Running(n + 1)'
    <3>1. oam_y_byte_offset = (n - (LastFound + 1)) % SpriteBytes
      BY <1>4, <1>9 DEF Offset
    <3>2. CASE sprite_in_y_range
      <4>1. NextOffset = 0 /\ Offset(n + 1)' = 0
        BY <1>1, <2>1, <2>2, <3>2 DEF NextOffset, Offset
      <4> QED BY <1>6, <4>1 DEF Running
    <3>3. CASE ~sprite_in_y_range
      <4> DEFINE x == n - (LastFound + 1)
      <4>1. x \in Nat /\ (n + 1) - (LastFound + 1) = x + 1
        BY <1>1, <2>3
      <4>2. NextOffset = ((x % SpriteBytes) + 1) % SpriteBytes
        BY <2>1, <3>1, <3>3 DEF NextOffset
      <4>3. Offset(n + 1)' = (x + 1) % SpriteBytes
        BY <2>2, <3>3, <4>1 DEF Offset
      <4> HIDE DEF x
      <4>4. NextOffset = (x + 1) % SpriteBytes
        BY <4>1, <4>2, NextByte, NaturalSizes
      <4> QED BY <1>6, <4>3, <4>4 DEF Running
    <3> QED BY <3>2, <3>3
  <2> QED BY <1>6, <2>5, <2>6, <2>7 DEF Placed
<1>10. CASE sprites_found = Slots + 1
  <2>1. ~Transfers /\ ~Searching
    BY <1>1, <1>10 DEF Transfers, Searching
  <2>2. /\ UNCHANGED <<sprites_found, scanline_oam>> /\ LastFound' = LastFound
        /\ sprite_overflow => sprite_overflow'
    BY <2>1 DEF test_sprite, LastFound
  <2>3. SlotsFilled(n + 1)'
    <3>1. ASSUME NEW slot \in 0..Slots - 1
          PROVE  /\ slot < sprites_found' /\ slot < sprites_found
                 /\ scanline_oam'[slot] \in Before(n + 1) /\ Rank(scanline_oam'[slot]) = slot
      BY <1>1, <1>5, <1>10, <2>2 DEF Placed, SlotsFilled
    <3> QED BY <1>2, <3>1 DEF SlotsFilled
  <2>4. Searched(n + 1)'
    <3>1. PICK s \in LastFound + 1..n - 1 : Hit(s, LastFound)
      BY <1>10 DEF Placed, Searched
    <3>2. LastFound \in Nat
      BY <1>1, <1>10, LastIsBefore DEF Placed
    <3>3. s \in LastFound + 1..(n + 1) - 1
      BY <1>1, <3>1, <3>2
    <3>4. sprite_overflow'
      BY <1>10, <2>2 DEF Placed, Searched
    <3> QED BY <1>1, <1>2, <1>10, <2>2, <3>1, <3>3, <3>4 DEF Searched
  <2>5. n + 1 < Sprites => Running(n + 1)'
    BY <1>1, <1>4, <1>6, <1>10, <2>1, <2>2 DEF Running, Offset, NextOffset
  <2> QED BY <1>6, <2>3, <2>4, <2>5 DEF Placed
<1> QED BY <1>1, <1>7, <1>8, <1>9, <1>10

-----------------------------------------------------------------------------
(* The whole line.                                                          *)

UnderWay == scanline < VisibleLines /\ steady /\ aligned /\ cycle >= ResetDot

(* A read and a test for each sprite, and for no sprite after the last.     *)
Progress ==
  UnderWay /\ cycle <= LastTest =>
    \E n \in Nat :
      /\ cycle = ResetDot + 2 * n \/ cycle = FirstRead + 2 * n
      /\ IF n < Sprites
         THEN /\ Running(n) /\ Placed(n)
              /\ cycle = FirstRead + 2 * n =>
                   oam_read_buffer = oam[sprite_index * SpriteBytes + oam_y_byte_offset]
         ELSE stop_early /\ Placed(Sprites)

UnitsLoaded ==
  UnderWay /\ cycle >= LastTest =>
    /\ Placed(Sprites)
    /\ \A unit \in 0..Slots - 1 : unit < cycle - LastTest =>
         sprite_units[unit] = IF unit >= sprites_found THEN Transparent ELSE scanline_oam[unit]

EvaluationInv ==
  /\ TypeOK
  /\ steady /\ cycle >= ResetDot => ppu_mask.sprite
  /\ cycle = 0 /\ aligned => oam_y_byte_offset = 0
  /\ Progress
  /\ UnitsLoaded

(* What a dot of a line does while sprites are shown.                       *)
LEMMA VisibleDot ==
  ASSUME TypeOK, clock_ppu, cycle' # 0, scanline' < VisibleLines, ppu_mask.sprite
  PROVE  /\ cycle' = cycle + 1 /\ scanline' = scanline
         /\ cycle' = ResetDot => reset_secondary_oam
         /\ cycle' \in FirstRead..LastTest =>
              IF (cycle' - FirstRead) % 2 = 0 THEN read_oam ELSE test_sprite
         /\ cycle' > LastTest => fetch_sprite
<1>1. NextDot
  BY DEF clock_ppu, read_oam, test_sprite, EvaluationDot, reset_secondary_oam, fetch_sprite,
         pre_render_dot, idle_dot
<1>2. cycle' = cycle + 1 /\ scanline' = scanline /\ cycle' \in 0..LastFetch
  BY <1>1, DotOnScreen DEF NextDot
<1>3. scanline' # PreRender /\ cycle \in Nat /\ scanline' \in Nat
  BY <1>2, NaturalSizes DEF PreRender, TypeOK
<1>4. ppu_mask_bg_or_sprite_enabled
  BY DEF ppu_mask_bg_or_sprite_enabled
<1>5. cycle' = ResetDot => reset_secondary_oam
  BY <1>2, <1>3, <1>4, NaturalSizes
  DEF clock_ppu, read_oam, test_sprite, EvaluationDot, fetch_sprite, pre_render_dot, idle_dot,
      VisibleDots, ResetDot, FirstRead
<1>6. cycle' > LastTest => fetch_sprite
  BY <1>2, <1>3, <1>4, NaturalSizes
  DEF clock_ppu, read_oam, test_sprite, EvaluationDot, reset_secondary_oam, pre_render_dot,
      idle_dot, VisibleDots, ResetDot
<1>7. ASSUME cycle' \in FirstRead..LastTest
      PROVE  IF (cycle' - FirstRead) % 2 = 0 THEN read_oam ELSE test_sprite
  <2>1. read_oam \/ test_sprite
    BY <1>2, <1>3, <1>4, <1>7, NaturalSizes
    DEF clock_ppu, reset_secondary_oam, fetch_sprite, pre_render_dot, idle_dot, VisibleDots,
        ResetDot, FirstRead
  <2> QED BY <2>1 DEF read_oam, test_sprite, EvaluationDot
<1> QED BY <1>2, <1>5, <1>6, <1>7

LEMMA PlacesKept ==
  ASSUME UNCHANGED <<scanline, height, oam, found>>
  PROVE  \A n : Placed(n)' = Placed(n)
<1>1. /\ \A n : Before(n)' = Before(n) /\ Rank(n)' = Rank(n)
      /\ \A sprite, last : Hit(sprite, last)' = Hit(sprite, last)
  BY LineKept
<1> QED BY <1>1 DEF Placed, SlotsFilled, Searched, LastFound, found

LEMMA RunningKept ==
  ASSUME UNCHANGED <<found, sprite_index, stop_early, oam_y_byte_offset>>
  PROVE  \A n : Running(n)' = Running(n)
BY DEF Running, Offset, LastFound, found

LEMMA ResetStep ==
  ASSUME EvaluationInv, aligned, cycle = 0, cycle' = ResetDot, reset_secondary_oam
  PROVE  Progress' /\ UnitsLoaded'
<1>1. /\ sprites_found' = 0 /\ scanline_oam' = [slot \in 0..Slots - 1 |-> Blank]
      /\ sprite_index' = 0 /\ ~stop_early' /\ oam_y_byte_offset' = 0
  BY DEF EvaluationInv, reset_secondary_oam
<1>2. Placed(0)'
  BY <1>1, NothingPlaced
<1>3. Running(0)'
  BY <1>1, NaturalSizes DEF Running, Offset
<1>4. Progress'
  <2>1. cycle' = ResetDot + 2 * 0 /\ cycle' # FirstRead + 2 * 0
    BY DEF ResetDot, FirstRead
  <2> QED BY <1>2, <1>3, <2>1, NaturalSizes DEF Progress
<1>5. UnitsLoaded'
  BY NaturalSizes DEF UnitsLoaded, ResetDot
<1> QED BY <1>4, <1>5

LEMMA EvaluationStep ==
  ASSUME EvaluationInv, UnderWay, cycle < LastTest,
         cycle' = cycle + 1, scanline' = scanline,
         IF (cycle' - FirstRead) % 2 = 0 THEN read_oam ELSE test_sprite
  PROVE  Progress' /\ UnitsLoaded'
<1>1. cycle \in Nat /\ cycle >= 1 /\ ResetDot = 1 /\ FirstRead = 2 /\ Sprites \in Nat
  BY NaturalSizes DEF EvaluationInv, TypeOK, UnderWay, ResetDot, FirstRead
<1>2. PICK n \in Nat :
        /\ cycle = 1 + 2 * n \/ cycle = 2 + 2 * n
        /\ IF n < Sprites
           THEN /\ Running(n) /\ Placed(n)
                /\ cycle = 2 + 2 * n =>
                     oam_read_buffer = oam[sprite_index * SpriteBytes + oam_y_byte_offset]
           ELSE stop_early /\ Placed(Sprites)
  <2>1. cycle <= LastTest
    BY <1>1, NaturalSizes
  <2> QED BY <1>1, <2>1 DEF EvaluationInv, Progress
<1>3. Progress'
  <2>1. CASE cycle = 1 + 2 * n
    <3>1. (cycle' - FirstRead) % 2 = 0
      BY <1>1, <2>1
    <3>2. /\ UNCHANGED <<height, oam, found, sprite_index, stop_early, oam_y_byte_offset>>
          /\ oam_read_buffer' = oam[sprite_index * SpriteBytes + oam_y_byte_offset]
      BY <3>1 DEF read_oam, program
    <3>3. \A m : Placed(m)' = Placed(m) /\ Running(m)' = Running(m)
      BY <3>2, PlacesKept, RunningKept
    <3>4. cycle' = FirstRead + 2 * n /\ cycle' # ResetDot + 2 * n
      BY <1>1, <2>1
    <3>5. IF n < Sprites
          THEN /\ Running(n)' /\ Placed(n)'
               /\ oam_read_buffer' = oam'[sprite_index' * SpriteBytes + oam_y_byte_offset']
          ELSE stop_early' /\ Placed(Sprites)'
      BY <1>2, <3>2, <3>3
    <3> QED BY <3>4, <3>5 DEF Progress
  <2>2. CASE cycle = 2 + 2 * n
    <3>1. (cycle' - FirstRead) % 2 # 0 /\ test_sprite
      BY <1>1, <2>2
    <3>2. /\ n + 1 \in Nat /\ cycle' = ResetDot + 2 * (n + 1)
          /\ cycle' # FirstRead + 2 * (n + 1)
      BY <1>1, <2>2
    <3>3. CASE n < Sprites
      <4>1. n \in 0..Sprites - 1
        BY <1>1, <3>3
      <4>2. /\ Placed(n + 1)'
            /\ IF n + 1 < Sprites THEN Running(n + 1)' ELSE stop_early'
        BY <1>2, <2>2, <3>1, <3>3, <4>1, TestPlaces DEF EvaluationInv
      <4>3. ~(n + 1 < Sprites) => n + 1 = Sprites
        BY <1>1, <3>3
      <4> QED BY <3>2, <4>2, <4>3 DEF Progress
    <3>4. CASE ~(n < Sprites)
      <4>1. stop_early /\ Placed(Sprites)
        BY <1>2, <3>4
      <4>2. UNCHANGED <<height, oam, found, stop_early>>
        BY <3>1, <4>1 DEF test_sprite, program, Transfers, Searching, found, EvaluationInv, TypeOK
      <4>3. Placed(Sprites)' /\ stop_early'
        BY <4>1, <4>2, PlacesKept
      <4>4. ~(n + 1 < Sprites)
        BY <1>1, <3>4
      <4> QED BY <3>2, <4>3, <4>4 DEF Progress
    <3> QED BY <3>3, <3>4
  <2> QED BY <1>2, <2>1, <2>2
<1>4. UnitsLoaded'
  <2> SUFFICES ASSUME UnderWay', cycle' >= LastTest PROVE UnitsLoaded'
    BY DEF UnitsLoaded
  <2>1. cycle' = LastTest /\ LastTest = 1 + 2 * Evaluations
    BY <1>1, NaturalSizes DEF LastTest
  <2>2. PICK m \in Nat :
          /\ cycle' = 1 + 2 * m \/ cycle' = 2 + 2 * m
          /\ ~(m < Sprites) => Placed(Sprites)'
    BY <1>1, <1>3, <2>1 DEF Progress
  <2>3. m >= Evaluations
    BY <2>1, <2>2, NaturalSizes
  <2>4. Placed(Sprites)'
    BY <2>2, <2>3, NaturalSizes, EverySpriteTested
  <2>5. \A unit \in 0..Slots - 1 : ~(unit < cycle' - LastTest)
    BY <1>1, <2>1, NaturalSizes
  <2> QED BY <2>4, <2>5 DEF UnitsLoaded
<1> QED BY <1>3, <1>4

LEMMA FetchStep ==
  ASSUME EvaluationInv, UnderWay, cycle >= LastTest,
         cycle' = cycle + 1, scanline' = scanline, fetch_sprite
  PROVE  Progress' /\ UnitsLoaded'
<1>1. cycle \in Nat /\ LastTest \in Nat /\ ~(cycle' <= LastTest)
  BY NaturalSizes DEF EvaluationInv, TypeOK
<1>2. /\ Placed(Sprites)
      /\ \A unit \in 0..Slots - 1 : unit < cycle - LastTest =>
           sprite_units[unit] = IF unit >= sprites_found THEN Transparent ELSE scanline_oam[unit]
  BY DEF EvaluationInv, UnitsLoaded
<1>3. UNCHANGED <<height, oam, found, search>> /\ sprite_units' = Fetched(cycle - LastTest)
  BY <1>1 DEF fetch_sprite, program
<1>4. Placed(Sprites)'
  BY <1>2, <1>3, PlacesKept
<1>5. ASSUME NEW unit \in 0..Slots - 1, unit < cycle' - LastTest
      PROVE  sprite_units'[unit] =
               IF unit >= sprites_found' THEN Transparent ELSE scanline_oam'[unit]
  <2>1. unit = cycle - LastTest \/ unit < cycle - LastTest
    BY <1>1, <1>5, NaturalSizes
  <2>2. sprites_found' = sprites_found /\ scanline_oam' = scanline_oam
    BY <1>3 DEF found
  <2> QED BY <1>2, <1>3, <2>1, <2>2 DEF Fetched
<1> QED BY <1>1, <1>4, <1>5 DEF Progress, UnitsLoaded

LEMMA ClockStep ==
  ASSUME EvaluationInv, Clock
  PROVE  EvaluationInv'
<1>1. TypeOK /\ TypeOK' /\ cycle' \in Nat
  <2>1. TypeOK'
    BY ReadTypes, TestTypes, ResetTypes, FetchTypes, PreRenderTypes, IdleTypes
    DEF EvaluationInv, Clock, clock_ppu
  <2>2. cycle' \in 0..LastFetch
    BY <2>1 DEF TypeOK
  <2> QED BY <2>1, <2>2, NaturalSizes DEF EvaluationInv
<1>2. ppu_mask' = ppu_mask
  BY DEF Clock, clock_ppu, read_oam, test_sprite, reset_secondary_oam, fetch_sprite,
         pre_render_dot, idle_dot, program
<1>3. cycle' # 0 /\ steady' => steady /\ ppu_mask.sprite
  <2>1. cycle' # 0 => steady' = (steady /\ ppu_mask.sprite)
    BY DEF Clock
  <2> QED BY <2>1, Zenon
<1>4. steady' /\ cycle' >= ResetDot => ppu_mask'.sprite
  BY <1>1, <1>2, <1>3 DEF ResetDot
<1>5. cycle' = 0 /\ aligned' => oam_y_byte_offset' = 0
  BY DEF Clock
<1>6. Progress' /\ UnitsLoaded'
  <2>1. CASE ~UnderWay'
    BY <2>1 DEF Progress, UnitsLoaded
  <2>2. CASE UnderWay'
    <3>1. cycle' # 0 /\ scanline' < VisibleLines /\ ppu_mask.sprite /\ steady /\ aligned
      <4>1. cycle' # 0 /\ scanline' < VisibleLines /\ steady' /\ aligned'
        BY <1>1, <2>2 DEF UnderWay, ResetDot
      <4>2. aligned' = aligned
        BY <4>1 DEF Clock
      <4> QED BY <1>3, <4>1, <4>2
    <3>2. /\ cycle' = cycle + 1 /\ scanline' = scanline
          /\ cycle' = ResetDot => reset_secondary_oam
          /\ cycle' \in FirstRead..LastTest =>
               IF (cycle' - FirstRead) % 2 = 0 THEN read_oam ELSE test_sprite
          /\ cycle' > LastTest => fetch_sprite
      BY <1>1, <3>1, VisibleDot DEF Clock
    <3>3. cycle \in Nat /\ ResetDot = 1 /\ FirstRead = 2 /\ LastTest \in Nat
      BY <1>1, NaturalSizes DEF TypeOK, ResetDot, FirstRead
    <3>4. CASE cycle = 0
      BY <3>1, <3>2, <3>3, <3>4, ResetStep
    <3>5. CASE cycle >= 1 /\ cycle < LastTest
      <4>1. UnderWay /\ cycle' \in FirstRead..LastTest
        BY <3>1, <3>2, <3>3, <3>5 DEF UnderWay
      <4> QED BY <3>2, <3>5, <4>1, EvaluationStep
    <3>6. CASE cycle >= 1 /\ cycle >= LastTest
      <4>1. UnderWay /\ cycle' > LastTest
        BY <3>1, <3>2, <3>3, <3>6 DEF UnderWay
      <4> QED BY <3>2, <3>6, <4>1, FetchStep
    <3> QED BY <3>3, <3>4, <3>5, <3>6
  <2> QED BY <2>1, <2>2
<1> QED BY <1>1, <1>4, <1>5, <1>6 DEF EvaluationInv

(* Of what the program does, a line that stays steady sees nothing.         *)
LEMMA ProgramStep ==
  ASSUME EvaluationInv, Disturb \/ Undisturbed
  PROVE  EvaluationInv'
<1>1. TypeOK /\ TypeOK'
  BY ProgramTypes DEF EvaluationInv, Disturb, Undisturbed
<1>2. UNCHANGED <<ppu, aligned>> /\ (steady' => steady)
  <2>1. UNCHANGED <<ppu, aligned>>
    BY DEF Disturb, Undisturbed, Height, Mask, OamWrite, Dma, write_2000, write_2001,
           write_2004, execute_DMA
  <2>2. \/ steady' = (steady /\ height' = height)
        \/ steady' = (steady /\ ppu_mask'.sprite)
        \/ steady' = (steady /\ oam' = oam)
        \/ steady' = steady
    BY DEF Disturb, Undisturbed
  <2>3. steady' => steady
    BY <2>2, Zenon
  <2> QED BY <2>1, <2>3
<1>3. steady' /\ cycle' >= ResetDot => ppu_mask'.sprite
  <2>1. cycle' = cycle /\ (steady /\ cycle >= ResetDot => ppu_mask.sprite)
    BY <1>2 DEF EvaluationInv, ppu, beam
  <2>2. ppu_mask' = ppu_mask \/ steady' = (steady /\ ppu_mask'.sprite)
    BY DEF Disturb, Undisturbed, Height, OamWrite, Dma, write_2000, write_2004, execute_DMA
  <2>3. steady' => ppu_mask' = ppu_mask \/ ppu_mask'.sprite
    BY <2>2, Zenon
  <2> QED BY <1>2, <2>1, <2>3
<1>4. cycle' = 0 /\ aligned' => oam_y_byte_offset' = 0
  BY <1>2 DEF EvaluationInv, ppu, beam, search
<1>5. UnderWay' => UnderWay /\ UNCHANGED <<height, oam>>
  <2> SUFFICES ASSUME UnderWay' PROVE UnderWay /\ UNCHANGED <<height, oam>>
    OBVIOUS
  <2>1. UnderWay
    BY <1>2 DEF UnderWay, ppu, beam
  <2>2. Rendering
    BY <1>1, <2>1, NaturalSizes
    DEF UnderWay, EvaluationInv, TypeOK, Rendering, ppu_rendering_period,
        ppu_mask_bg_or_sprite_enabled, VBlank
  <2>3. CASE Disturb
    <3>1. \/ steady' = (steady /\ height' = height) /\ oam' = oam
          \/ height' = height /\ oam' = oam
          \/ steady' = (steady /\ oam' = oam) /\ height' = height
      BY <2>3 DEF Disturb, Height, Mask, Dma, write_2000, write_2001, execute_DMA
    <3>2. steady'
      BY DEF UnderWay
    <3> QED BY <2>1, <3>1, <3>2, Zenon
  <2>4. CASE Undisturbed
    BY <2>2, <2>4 DEF Undisturbed, OamWrite, write_2004
  <2> QED BY <2>1, <2>3, <2>4
<1>6. Progress' /\ UnitsLoaded'
  <2>1. CASE ~UnderWay'
    BY <2>1 DEF Progress, UnitsLoaded
  <2>2. CASE UnderWay'
    <3>1. UNCHANGED <<scanline, cycle, height, oam, found, search, sprite_units>>
      BY <1>2, <1>5, <2>2 DEF ppu, beam
    <3>2. \A n : Placed(n)' = Placed(n) /\ Running(n)' = Running(n)
      BY <3>1, PlacesKept, RunningKept DEF search
    <3>3. UnderWay
      BY <1>5, <2>2
    <3>4. Progress'
      BY <3>1, <3>2, <3>3 DEF Progress, EvaluationInv, search
    <3>5. UnitsLoaded'
      BY <3>1, <3>2, <3>3 DEF UnitsLoaded, EvaluationInv, found
    <3> QED BY <3>4, <3>5
  <2> QED BY <2>1, <2>2
<1> QED BY <1>1, <1>3, <1>4, <1>6 DEF EvaluationInv

LEMMA EvaluationInvariant == HistorySpec => []EvaluationInv
<1>1. HistoryInit => EvaluationInv
  <2> SUFFICES ASSUME HistoryInit PROVE EvaluationInv
    OBVIOUS
  <2>1. TypeOK
    BY TypeInit DEF HistoryInit
  <2>2. ~steady /\ oam_y_byte_offset = 0
    BY DEF HistoryInit, Init
  <2> QED BY <2>1, <2>2 DEF EvaluationInv, Progress, UnitsLoaded, UnderWay
<1>2. EvaluationInv /\ [HistoryNext]_history_vars => EvaluationInv'
  <2> SUFFICES ASSUME EvaluationInv, [HistoryNext]_history_vars PROVE EvaluationInv'
    OBVIOUS
  <2>1. CASE Clock
    BY <2>1, ClockStep
  <2>2. CASE Disturb \/ Undisturbed
    BY <2>2, ProgramStep
  <2>3. CASE UNCHANGED history_vars
    <3>1. UNCHANGED <<scanline, cycle, ppu_mask, height, oam, found, search, sprite_units,
                      steady, aligned>>
      BY <2>3 DEF history_vars, vars, beam, program
    <3>2. \A n : Placed(n)' = Placed(n) /\ Running(n)' = Running(n)
      BY <3>1, PlacesKept, RunningKept DEF search
    <3>3. TypeOK'
      BY <3>1 DEF EvaluationInv, TypeOK, found, search
    <3>4. Progress'
      BY <3>1, <3>2 DEF EvaluationInv, Progress, UnderWay, search
    <3>5. UnitsLoaded'
      BY <3>1, <3>2 DEF EvaluationInv, UnitsLoaded, UnderWay, found
    <3> QED BY <3>1, <3>3, <3>4, <3>5 DEF EvaluationInv, search
  <2> QED BY <2>1, <2>2, <2>3 DEF HistoryNext
<1> QED BY <1>1, <1>2, PTL DEF HistorySpec

-----------------------------------------------------------------------------
(* When all sprites are placed, each slot holds the one that is due.        *)
LEMMA DueSprites ==
  ASSUME TypeOK, Placed(Sprites)
  PROVE  \A slot \in 0..Slots - 1 :
           /\ scanline_oam[slot] = Due(slot)
           /\ Due(slot) = Blank <=> slot >= sprites_found
<1> SUFFICES ASSUME NEW slot \in 0..Slots - 1
             PROVE  /\ scanline_oam[slot] = Due(slot)
                    /\ Due(slot) = Blank <=> slot >= sprites_found
  OBVIOUS
<1>1. slot \in Nat /\ sprites_found \in Nat /\ Slots \in Nat /\ slot < Slots
  BY NaturalSizes DEF TypeOK
<1>2. CASE slot < sprites_found
  <2>1. scanline_oam[slot] \in OnLine /\ Rank(scanline_oam[slot]) = slot
    BY <1>2, AllBefore DEF Placed, SlotsFilled
  <2>2. \E sprite \in OnLine : Rank(sprite) = slot
    BY <2>1
  <2>3. Due(slot) \in OnLine /\ Rank(Due(slot)) = slot
    BY <2>2 DEF Due
  <2>4. scanline_oam[slot] = Due(slot)
    BY <2>1, <2>3, RanksDiffer
  <2>5. Due(slot) # Blank
    BY <2>3, NaturalSizes DEF OnLine, Blank
  <2> QED BY <1>1, <1>2, <2>4, <2>5
<1>3. CASE slot >= sprites_found
  <2>1. sprites_found = Cardinality(OnLine)
    BY <1>1, <1>3, AllBefore DEF Placed, Searched
  <2>2. ~\E sprite \in OnLine : Rank(sprite) = slot
    BY <1>1, <1>3, <2>1, AllBefore
  <2>3. Due(slot) = Blank
    BY <2>2 DEF Due
  <2> QED BY <1>1, <1>3, <2>3 DEF Placed, SlotsFilled
<1> QED BY <1>1, <1>2, <1>3

LEMMA WhatIsFound ==
  ASSUME EvaluationInv, Evaluated, steady, aligned
  PROVE  /\ UnderWay /\ Placed(Sprites)
         /\ \A slot \in 0..Slots - 1 :
              /\ scanline_oam[slot] = Due(slot)
              /\ Due(slot) = Blank <=> slot >= sprites_found
<1>1. UnderWay /\ cycle >= LastTest
  BY NaturalSizes DEF Evaluated, UnderWay, EvaluationInv, TypeOK, ResetDot
<1>2. Placed(Sprites)
  BY <1>1 DEF EvaluationInv, UnitsLoaded
<1> QED BY <1>1, <1>2, DueSprites DEF EvaluationInv

LEMMA SearchIsDiagonal ==
  ASSUME EvaluationInv
  PROVE  OverflowSearchesDiagonally
<1> SUFFICES ASSUME Evaluated, steady, aligned
             PROVE  /\ sprites_found = CASE Overflows -> Slots + 1
                         [] ~Overflows /\ Last # Blank -> Slots
                         [] OTHER -> Cardinality(OnLine)
                    /\ Overflows => sprite_overflow
  BY DEF OverflowSearchesDiagonally
<1>1. /\ Slots \in Nat /\ Slots - 1 \in 0..Slots - 1 /\ sprites_found \in 0..Slots + 1
      /\ Sprites \in Nat
  BY NaturalSizes DEF EvaluationInv, TypeOK
<1>2. Placed(Sprites) /\ LastFound = Last /\ (Last = Blank <=> Slots - 1 >= sprites_found)
  BY <1>1, WhatIsFound DEF LastFound, Last
<1>3. Overflows <=> \E sprite \in Last + 1..Sprites - 1 : Hit(sprite, Last)
  BY DEF Overflows, Hit
<1>4. CASE sprites_found < Slots
  <2>1. Last = Blank
    BY <1>1, <1>2, <1>4
  <2>2. ~Overflows
    BY <1>1, <1>3, <2>1 DEF Blank
  <2>3. sprites_found = Cardinality(OnLine)
    BY <1>2, <1>4, AllBefore DEF Placed, Searched
  <2> QED BY <2>1, <2>2, <2>3
<1>5. CASE sprites_found = Slots
  <2>1. Last # Blank /\ ~Overflows
    BY <1>1, <1>2, <1>3, <1>5 DEF Placed, Searched
  <2> QED BY <1>5, <2>1
<1>6. CASE sprites_found = Slots + 1
  <2>1. Overflows /\ sprite_overflow
    BY <1>2, <1>3, <1>6 DEF Placed, Searched
  <2> QED BY <1>6, <2>1
<1> QED BY <1>1, <1>4, <1>5, <1>6

(* As there is a test for every sprite, a line that nothing disturbs finds  *)
(* the first sprites in range, whatever the sizes and whatever came before. *)
THEOREM FirstSpritesFound == HistorySpec => []FirstInRangeFound
<1>1. EvaluationInv => FirstInRangeFound
  BY WhatIsFound DEF FirstInRangeFound
<1> QED BY <1>1, EvaluationInvariant, PTL

(* It counts them, and sets the overflow flag, by the search that looks one *)
(* byte further on for each sprite.                                         *)
THEOREM DiagonalSearch == HistorySpec => []OverflowSearchesDiagonally
<1>1. EvaluationInv => OverflowSearchesDiagonally
  BY SearchIsDiagonal
<1> QED BY <1>1, EvaluationInvariant, PTL

(* And its last fetch leaves these sprites and no other in the units.       *)
THEOREM UnitsLoadedRight == HistorySpec => []UnitsShowSprites
<1>1. ASSUME EvaluationInv PROVE UnitsShowSprites
  <2> SUFFICES ASSUME scanline < VisibleLines, cycle = LastFetch, steady, aligned,
                      NEW unit \in 0..Slots - 1
               PROVE  sprite_units[unit] = IF Due(unit) = Blank THEN Transparent ELSE Due(unit)
    BY DEF UnitsShowSprites
  <2>1. Evaluated
    BY NaturalSizes DEF Evaluated
  <2>2. /\ UnderWay /\ scanline_oam[unit] = Due(unit)
        /\ Due(unit) = Blank <=> unit >= sprites_found
    BY <1>1, <2>1, WhatIsFound
  <2>3. cycle >= LastTest /\ unit < cycle - LastTest
    BY NaturalSizes DEF LastFetch
  <2>4. sprite_units[unit] = IF unit >= sprites_found THEN Transparent ELSE scanline_oam[unit]
    BY <1>1, <2>2, <2>3 DEF EvaluationInv, UnitsLoaded
  <2> QED BY <2>2, <2>4
<1> QED BY <1>1, EvaluationInvariant, PTL
=============================================================================
