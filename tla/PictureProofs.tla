--------------------------- MODULE PictureProofs ----------------------------
(***************************************************************************)
(* Theorems about Picture and PixelOutput, for every width of the name     *)
(* tables and of the picture, and every program.                           *)
(***************************************************************************)
EXTENDS PixelOutput, FiniteSetTheorems, TLAPS

-----------------------------------------------------------------------------
(* THE BACKGROUND                                                           *)

Column == 0..Columns - 1
Register == [Bits -> Nat]

Internals ==
  [ nt_byte : Nat, at_latch : Nat, pt_lo_latch : Nat, pt_hi_latch : Nat,
    at_current : Nat, nt_addr_current : Nat,
    pt_lo_shift_reg : Register, pt_hi_shift_reg : Register,
    at_shift_reg : [palette : Nat, bits : 0..8] ]

PictureTypeOK ==
  /\ scanline \in 0..PreRender /\ dot \in 0..LastDot
  /\ vram_addr \in Column /\ vram_tmp_addr \in Column /\ line_start \in Column
  /\ fine_x \in 0..7
  /\ ppu_mask \in [bg : BOOLEAN, sprite : BOOLEAN, left : BOOLEAN, sprite_left : BOOLEAN]
  /\ bkg_internals \in Internals
  /\ steady \in BOOLEAN

(* The tiles of a line, from the one its prefetch began with.              *)
Tile(n) == (line_start + n) % Columns

(* Dot k of the eighth of a line in which tile j is shown.                 *)
IsDot(d, j, k) == d = 8 * j + k + 1

(* Dot k of the first prefetch, or of the second.                          *)
IsPrefetch(d, q, k) == d = CopyDot + 1 + 8 * q + k

(* A tile of which the first k dots of the fetch are done.                 *)
Fetches(k, tile) ==
  /\ vram_addr = tile
  /\ k >= 1 => bkg_internals.nt_byte = tile
  /\ k >= 3 => bkg_internals.at_latch = tile \div 4
  /\ k >= 5 => bkg_internals.pt_lo_latch = tile
  /\ k >= 7 => bkg_internals.pt_hi_latch = tile

(* The tile whose palette is the next one to be shifted out.               *)
NextPalette(tile) ==
  /\ bkg_internals.at_current = tile \div 4
  /\ bkg_internals.nt_addr_current = tile

ShowsPalette(tile, least) ==
  /\ bkg_internals.at_shift_reg.palette = PaletteOf(tile \div 4, tile)
  /\ bkg_internals.at_shift_reg.bits \in least..8

(* Two tiles, of the first of which k pixels have been shifted out.        *)
Holds(reg, k, first, second) ==
  \A bit \in Bits :
    /\ bit + k < 8 => reg[bit] = Pixels(first, bit + k)
    /\ bit + k >= 8 /\ bit + k < 16 => reg[bit] = Pixels(second, bit + k - 8)

Registers(k, first, second) ==
  /\ Holds(bkg_internals.pt_lo_shift_reg, k, first, second)
  /\ Holds(bkg_internals.pt_hi_shift_reg, k, first, second)

Upper(reg, tile) == \A bit \in Bits : bit >= 8 => reg[bit] = Pixels(tile, bit - 8)

UpperHalves(tile) ==
  /\ Upper(bkg_internals.pt_lo_shift_reg, tile)
  /\ Upper(bkg_internals.pt_hi_shift_reg, tile)

(* The dots of the two prefetches, the idle dot, and dot k of tile j.      *)
PrefetchesFirst(k) ==
  /\ Fetches(k, Tile(0))
  /\ k = 7 => UpperHalves(Tile(0)) /\ NextPalette(Tile(0))

PrefetchesSecond(k) ==
  /\ Fetches(k, Tile(1))
  /\ k <= 6 => UpperHalves(Tile(0)) /\ NextPalette(Tile(0))
  /\ k >= 2 => ShowsPalette(Tile(0), 8)
  /\ k = 7 => Registers(0, Tile(0), Tile(1)) /\ NextPalette(Tile(1))

LineBegins ==
  /\ vram_addr = Tile(2)
  /\ Registers(0, Tile(0), Tile(1)) /\ NextPalette(Tile(1))
  /\ ShowsPalette(Tile(0), 8)

ShowsTiles(k, first, second, third, fine) ==
  /\ Fetches(k, third)
  /\ Registers(k, first, second) /\ NextPalette(second)
  /\ k + fine < 8 => ShowsPalette(first, 8 - k - fine)
  /\ k + fine >= 8 => ShowsPalette(second, 16 - k - fine)

Shows(j, k) == ShowsTiles(k, Tile(j), Tile(j + 1), Tile(j + 2), fine_x)

PipelineInv ==
  steady =>
    /\ ppu_mask.bg
    /\ \A k \in 1..7 : dot = CopyDot + 1 + k => PrefetchesFirst(k)
    /\ \A k \in 0..7 : dot = CopyDot + 9 + k => PrefetchesSecond(k)
    /\ dot = 0 => LineBegins
    /\ \A j \in 0..TilesShown - 1, k \in 0..7 : Visible /\ IsDot(dot, j, k) => Shows(j, k)

PictureInv == PictureTypeOK /\ PipelineInv

-----------------------------------------------------------------------------
(* Remainders.                                                              *)

LEMMA Divided ==
  ASSUME NEW a \in Nat, NEW m \in Nat \ {0}
  PROVE  /\ a \div m \in Nat /\ a % m \in 0..m - 1
         /\ a = m * (a \div m) + (a % m)
OBVIOUS

Splits(a, m, q, r) == q \in Nat /\ r \in 0..m - 1 /\ a = (m * q) + r

LEMMA Quotient ==
  ASSUME NEW a \in Nat, NEW m \in Nat \ {0}, NEW q, NEW r, Splits(a, m, q, r)
  PROVE  a % m = r /\ a \div m = q
<1> USE DEF Splits
<1>1. PICK d \in Nat, e \in 0..m - 1 : d = a \div m /\ e = a % m /\ a = (m * d) + e
  BY Divided
<1>2. CASE q = d
  BY <1>1, <1>2
<1>3. ASSUME q >= d + 1 PROVE FALSE
  <2>1. m * q >= m * (d + 1)
    BY <1>1, <1>3
  <2>2. m * (d + 1) = (m * d) + m
    BY <1>1
  <2> QED BY <1>1, <2>1, <2>2
<1>4. ASSUME d >= q + 1 PROVE FALSE
  <2>1. m * d >= m * (q + 1)
    BY <1>1, <1>4
  <2>2. m * (q + 1) = (m * q) + m
    BY <1>1
  <2> QED BY <1>1, <2>1, <2>2
<1> QED BY <1>1, <1>2, <1>3, <1>4

(* The remainder of a number by one more.                                   *)
LEMMA NextRemainder ==
  ASSUME NEW a \in Nat, NEW m \in Nat \ {0}
  PROVE  ((a % m) + 1) % m = (a + 1) % m
<1>1. PICK d \in Nat, e \in 0..m - 1 : d = a \div m /\ e = a % m /\ a = (m * d) + e
  BY Divided
<1>2. CASE e < m - 1
  <2>1. Splits(a + 1, m, d, e + 1) /\ Splits(e + 1, m, 0, e + 1)
    BY <1>1, <1>2 DEF Splits
  <2>2. (a + 1) % m = e + 1
    BY <1>1, <2>1, Quotient
  <2>3. (e + 1) % m = e + 1
    BY <1>1, <2>1, Quotient
  <2> QED BY <1>1, <2>2, <2>3
<1>3. CASE e = m - 1
  <2>1. /\ m * d \in Nat /\ m * (d + 1) = (m * d) + m /\ 0 \in 0..m - 1
        /\ m * 1 = m
    BY <1>1
  <2>2. Splits(a + 1, m, d + 1, 0) /\ Splits(e + 1, m, 1, 0)
    BY <1>1, <1>3, <2>1 DEF Splits
  <2>3. (a + 1) % m = 0
    BY <2>2, Quotient
  <2>4. (e + 1) % m = 0
    BY <1>1, <2>2, Quotient
  <2> QED BY <1>1, <2>3, <2>4
<1> QED BY <1>1, <1>2, <1>3

(* Eight pixels to a column.                                                *)
LEMMA PixelRemainder ==
  ASSUME NEW a \in Nat, NEW r \in 0..7, NEW m \in Nat \ {0}
  PROVE  /\ ((8 * a) + r) % (8 * m) = (8 * (a % m)) + r
         /\ ((8 * (a % m)) + r) \div 8 = a % m
<1>1. PICK d \in Nat, e \in 0..m - 1 : d = a \div m /\ e = a % m /\ a = (m * d) + e
  BY Divided
<1>2. 8 * m \in Nat \ {0} /\ (8 * e) + r \in 0..(8 * m) - 1 /\ (8 * a) + r \in Nat
  BY <1>1
<1>3. (8 * a) + r = ((8 * m) * d) + ((8 * e) + r)
  <2>1. (8 * m) * d = 8 * (m * d) /\ m * d \in Nat
    BY <1>1
  <2> QED BY <1>1, <2>1
<1>4. ((8 * a) + r) % (8 * m) = (8 * e) + r
  <2>1. Splits((8 * a) + r, 8 * m, d, (8 * e) + r)
    BY <1>1, <1>2, <1>3 DEF Splits
  <2>2. PICK n \in Nat, w \in Nat \ {0}, rest \in Nat :
          n = (8 * a) + r /\ w = 8 * m /\ rest = (8 * e) + r
    BY <1>2
  <2>3. n % w = rest
    BY <2>1, <2>2, Quotient
  <2> QED BY <2>2, <2>3
<1>5. ((8 * e) + r) \div 8 = e
  BY <1>1
<1> QED BY <1>1, <1>4, <1>5

-----------------------------------------------------------------------------
(* The tiles of a line.                                                     *)

LEMMA Sizes ==
  /\ Columns \in Nat \ {0} /\ TilesShown \in Nat \ {0} /\ LastVisible \in Nat
  /\ LastShown = 8 * TilesShown /\ LastShown \in Nat /\ LastShown >= 8
  /\ CopyDot = LastShown + 1 /\ LastDot = LastShown + 17 /\ PreRender = LastVisible + 1
BY ColumnsAssumption, LineAssumption DEF LastShown, CopyDot, LastDot, PreRender

LEMMA Tiles ==
  ASSUME line_start \in Column, NEW n \in Nat
  PROVE  /\ Tile(n) \in Column /\ Tile(n) \in Nat
         /\ (Tile(n) + 1) % Columns = Tile(n + 1)
<1>1. line_start + n \in Nat /\ (line_start + n) + 1 = line_start + (n + 1)
  BY Sizes DEF Column
<1>2. PICK a \in Nat : a = line_start + n /\ a + 1 = line_start + (n + 1)
  BY <1>1
<1>3. a % Columns \in 0..Columns - 1 /\ ((a % Columns) + 1) % Columns = (a + 1) % Columns
  BY Sizes, Divided, NextRemainder
<1> QED BY <1>2, <1>3, Sizes DEF Tile, Column

LEMMA FirstTile ==
  ASSUME line_start \in Column
  PROVE  Tile(0) = line_start
<1>1. /\ line_start \in Nat /\ line_start + 0 = line_start
      /\ Splits(line_start, Columns, 0, line_start)
  BY Sizes DEF Column, Splits
<1> QED BY <1>1, Sizes, Quotient DEF Tile

-----------------------------------------------------------------------------
(* What the fetches, loads and shifts do to each part of the pipeline.      *)

LEMMA RegisterTypes ==
  ASSUME NEW reg \in Register, NEW tile \in Nat
  PROVE  /\ RightShift(reg, 1) \in Register /\ RightShift(reg, 8) \in Register
         /\ LoadUpper(reg, tile) \in Register
<1>1. Empty \in Nat
  BY Sizes DEF Empty, Width
<1>2. RightShift(reg, 1) \in Register /\ RightShift(reg, 8) \in Register
  BY <1>1 DEF RightShift, Register, Bits
<1>3. LoadUpper(reg, tile) \in Register
  BY DEF LoadUpper, Register, Bits, Pixels
<1> QED BY <1>2, <1>3

LEMMA PaletteType ==
  ASSUME NEW group \in Nat, NEW column \in Nat
  PROVE  PaletteOf(group, column) \in Nat
BY DEF PaletteOf

(* The parts that a fetch writes, and those that it leaves alone.           *)
Latches(c, b, k) ==
  /\ c.nt_byte = IF k = 0 THEN vram_addr ELSE b.nt_byte
  /\ c.at_latch = IF k = 2 THEN vram_addr \div 4 ELSE b.at_latch
  /\ c.pt_lo_latch = IF k = 4 THEN b.nt_byte ELSE b.pt_lo_latch
  /\ c.pt_hi_latch = IF k = 6 THEN b.nt_byte ELSE b.pt_hi_latch

SameTables(c, b) ==
  c.pt_lo_shift_reg = b.pt_lo_shift_reg /\ c.pt_hi_shift_reg = b.pt_hi_shift_reg

SameNext(c, b) == c.at_current = b.at_current /\ c.nt_addr_current = b.nt_addr_current

LEMMA FetchedParts ==
  ASSUME NEW b \in Internals, NEW k \in 0..7, vram_addr \in Column
  PROVE  /\ Fetched(b, k) \in Internals
         /\ Latches(Fetched(b, k), b, k)
         /\ SameTables(Fetched(b, k), b) /\ SameNext(Fetched(b, k), b)
         /\ Fetched(b, k).at_shift_reg = b.at_shift_reg
<1> USE DEF Fetched, Internals, Latches, SameTables, SameNext
<1>0. vram_addr \in Nat /\ vram_addr \div 4 \in Nat
  BY Sizes DEF Column
<1>1. CASE k = 0
  BY <1>0, <1>1 DEF fetch_nt_byte
<1>2. CASE k = 2
  BY <1>0, <1>2 DEF fetch_at_byte
<1>3. CASE k = 4
  BY <1>3 DEF fetch_pt_lo
<1>4. CASE k = 6
  BY <1>4 DEF fetch_pt_hi
<1>5. CASE k \in {1, 3, 5, 7}
  <2>1. k # 0 /\ k # 2 /\ k # 4 /\ k # 6
    BY <1>5
  <2>2. Fetched(b, k) = b
    BY <2>1, Zenon
  <2> QED BY <2>1, <2>2
<1> QED BY <1>1, <1>2, <1>3, <1>4, <1>5

LEMMA LoadedParts ==
  ASSUME NEW b \in Internals, vram_addr \in Column,
         NEW c, c = KeepAttribute(load_shift_regs(b))
  PROVE  /\ c \in Internals /\ Latches(c, b, 7)
         /\ c.pt_lo_shift_reg = LoadUpper(b.pt_lo_shift_reg, b.pt_lo_latch)
         /\ c.pt_hi_shift_reg = LoadUpper(b.pt_hi_shift_reg, b.pt_hi_latch)
         /\ c.at_current = b.at_latch /\ c.nt_addr_current = vram_addr
         /\ c.at_shift_reg = b.at_shift_reg
<1>0. vram_addr \in Nat
  BY Sizes DEF Column
<1>1. /\ LoadUpper(b.pt_lo_shift_reg, b.pt_lo_latch) \in Register
      /\ LoadUpper(b.pt_hi_shift_reg, b.pt_hi_latch) \in Register
  BY RegisterTypes DEF Internals
<1>2. PICK l : l = load_shift_regs(b)
  OBVIOUS
<1>3. l \in Internals
  BY <1>1, <1>2 DEF Internals, load_shift_regs
<1>4. /\ Latches(l, b, 7)
      /\ l.pt_lo_shift_reg = LoadUpper(b.pt_lo_shift_reg, b.pt_lo_latch)
      /\ l.pt_hi_shift_reg = LoadUpper(b.pt_hi_shift_reg, b.pt_hi_latch)
      /\ l.at_latch = b.at_latch /\ l.at_shift_reg = b.at_shift_reg
  BY <1>2 DEF Internals, Latches, load_shift_regs
<1>5. c = KeepAttribute(l)
  BY <1>2
<1>6. c \in Internals
  BY <1>0, <1>3, <1>5 DEF Internals, KeepAttribute
<1>7. /\ Latches(c, l, 7) /\ SameTables(c, l)
      /\ c.at_current = l.at_latch /\ c.nt_addr_current = vram_addr
      /\ c.at_shift_reg = l.at_shift_reg
  <2>1. SameTables(c, l) /\ c.at_shift_reg = l.at_shift_reg
    BY ONLY <1>3, <1>5 DEF Internals, SameTables, KeepAttribute
  <2>2. c.at_current = l.at_latch /\ c.nt_addr_current = vram_addr
    BY ONLY <1>3, <1>5 DEF Internals, KeepAttribute
  <2>3. Latches(c, l, 7)
    BY ONLY <1>3, <1>5 DEF Internals, Latches, KeepAttribute
  <2> QED BY <2>1, <2>2, <2>3
<1>8. Latches(c, b, 7)
  BY <1>4, <1>7 DEF Latches
<1> QED BY <1>4, <1>6, <1>7, <1>8 DEF SameTables

LEMMA FilledParts ==
  ASSUME NEW b \in Internals, NEW c, c = fill_attribute_shift_reg(b)
  PROVE  /\ c \in Internals /\ Latches(c, b, 7) /\ SameTables(c, b) /\ SameNext(c, b)
         /\ c.at_shift_reg = [palette |-> PaletteOf(b.at_current, b.nt_addr_current), bits |-> 8]
<1>1. PaletteOf(b.at_current, b.nt_addr_current) \in Nat
  BY PaletteType DEF Internals
<1>2. PICK shift : shift = [palette |-> PaletteOf(b.at_current, b.nt_addr_current), bits |-> 8]
  OBVIOUS
<1>3. shift \in [palette : Nat, bits : 0..8] /\ c = [b EXCEPT !.at_shift_reg = shift]
  BY <1>1, <1>2 DEF fill_attribute_shift_reg
<1>4. c \in Internals
  BY <1>3 DEF Internals
<1>5. Latches(c, b, 7) /\ SameTables(c, b) /\ SameNext(c, b) /\ c.at_shift_reg = shift
  BY <1>3 DEF Internals, Latches, SameTables, SameNext
<1> QED BY <1>2, <1>4, <1>5

Drained(bits) == IF bits = 0 THEN 0 ELSE bits - 1

LEMMA ShiftedParts ==
  ASSUME NEW b \in Internals, Shown, NEW c, c = get_bkg_pixel(b)
  PROVE  /\ c \in Internals /\ Latches(c, b, 7) /\ SameNext(c, b)
         /\ c.pt_lo_shift_reg = RightShift(b.pt_lo_shift_reg, 1)
         /\ c.pt_hi_shift_reg = RightShift(b.pt_hi_shift_reg, 1)
         /\ c.at_shift_reg.palette = b.at_shift_reg.palette
         /\ c.at_shift_reg.bits = Drained(b.at_shift_reg.bits)
<1>1. /\ RightShift(b.pt_lo_shift_reg, 1) \in Register
      /\ RightShift(b.pt_hi_shift_reg, 1) \in Register
  BY RegisterTypes DEF Internals
<1>a. PICK shift : shift = [b.at_shift_reg EXCEPT !.bits = IF @ = 0 THEN 0 ELSE @ - 1]
  OBVIOUS
<1>b. PICK lo \in Register : lo = RightShift(b.pt_lo_shift_reg, 1)
  BY <1>1
<1>c. PICK hi \in Register : hi = RightShift(b.pt_hi_shift_reg, 1)
  BY <1>1
<1>2. /\ shift = [b.at_shift_reg EXCEPT !.bits = IF @ = 0 THEN 0 ELSE @ - 1]
      /\ lo = RightShift(b.pt_lo_shift_reg, 1) /\ hi = RightShift(b.pt_hi_shift_reg, 1)
      /\ lo \in Register /\ hi \in Register
  BY <1>a, <1>b, <1>c
<1>3. /\ shift \in [palette : Nat, bits : 0..8]
      /\ shift.palette = b.at_shift_reg.palette /\ shift.bits = Drained(b.at_shift_reg.bits)
  BY <1>2 DEF Internals, Drained
<1>4. c = [b EXCEPT !.pt_lo_shift_reg = lo, !.pt_hi_shift_reg = hi, !.at_shift_reg = shift]
  BY ONLY <1>2, Shown, c = get_bkg_pixel(b), b \in Internals DEF Internals, get_bkg_pixel
<1>5. c \in Internals
  BY ONLY <1>2, <1>3, <1>4, b \in Internals DEF Internals
<1>6. Latches(c, b, 7) /\ SameNext(c, b)
  BY ONLY <1>4, b \in Internals DEF Internals, Latches, SameNext
<1>7. c.pt_lo_shift_reg = lo /\ c.pt_hi_shift_reg = hi /\ c.at_shift_reg = shift
  BY ONLY <1>4, b \in Internals DEF Internals
<1> QED BY <1>2, <1>3, <1>5, <1>6, <1>7

(* The dots of a line that show something, and its two prefetches.          *)
LEMMA DotOfTile ==
  ASSUME NEW j \in 0..TilesShown - 1, NEW k \in 0..7, NEW d, IsDot(d, j, k)
  PROVE  /\ d \in 1..LastShown /\ (d - 1) % 8 = k /\ (d - 1) \div 8 = j
         /\ \A f \in 0..7 : (d + f) % 8 = 0 <=> k + f = 7
<1> USE DEF IsDot
<1>1. PICK w \in Nat : w = TilesShown /\ LastShown = 8 * w /\ j \in 0..w - 1
  BY Sizes
<1>2. d \in 1..LastShown
  BY <1>1
<1>3. d - 1 = 8 * j + k /\ j \in Nat
  BY <1>1
<1>4. (d - 1) % 8 = k /\ (d - 1) \div 8 = j
  BY <1>3
<1>5. ASSUME NEW f \in 0..7 PROVE (d + f) % 8 = 0 <=> k + f = 7
  <2>1. d + f = 8 * j + (k + f + 1)
    BY <1>1
  <2>2. CASE k + f < 7
    BY <1>3, <2>1, <2>2
  <2>3. CASE k + f >= 7
    <3>1. d + f = 8 * (j + 1) + (k + f - 7) /\ k + f - 7 \in 0..7
      BY <2>1, <2>3
    <3> QED BY <1>3, <2>3, <3>1
  <2> QED BY <2>2, <2>3
<1> QED BY <1>2, <1>4, <1>5

LEMMA TileOfDot ==
  ASSUME NEW d \in 1..LastShown
  PROVE  \E j \in 0..TilesShown - 1, k \in 0..7 : IsDot(d, j, k)
<1> USE DEF IsDot
<1>1. PICK w \in Nat : w = TilesShown /\ LastShown = 8 * w
  BY Sizes
<1>2. (d - 1) \div 8 \in 0..w - 1 /\ (d - 1) % 8 \in 0..7
      /\ d = 8 * ((d - 1) \div 8) + ((d - 1) % 8) + 1
  BY <1>1
<1> QED BY <1>1, <1>2

LEMMA VisibleParts ==
  ASSUME PictureTypeOK, ppu_mask.bg, Visible,
         NEW j \in 0..TilesShown - 1, NEW k \in 0..7, IsDot(dot, j, k),
         NEW b, b = bkg_internals, NEW c, c = Background(get_bkg_pixel(b))
  PROVE  /\ c \in Internals /\ Latches(c, b, k)
         /\ k < 7 =>
              /\ c.pt_lo_shift_reg = RightShift(b.pt_lo_shift_reg, 1)
              /\ c.pt_hi_shift_reg = RightShift(b.pt_hi_shift_reg, 1)
              /\ SameNext(c, b)
         /\ k = 7 =>
              /\ c.pt_lo_shift_reg = LoadUpper(RightShift(b.pt_lo_shift_reg, 1), b.pt_lo_latch)
              /\ c.pt_hi_shift_reg = LoadUpper(RightShift(b.pt_hi_shift_reg, 1), b.pt_hi_latch)
              /\ c.at_current = b.at_latch /\ c.nt_addr_current = vram_addr
         /\ k + fine_x = 7 =>
              c.at_shift_reg = [palette |-> PaletteOf(b.at_current, b.nt_addr_current), bits |-> 8]
         /\ k + fine_x # 7 =>
              /\ c.at_shift_reg.palette = b.at_shift_reg.palette
              /\ c.at_shift_reg.bits = Drained(b.at_shift_reg.bits)
<1>1. dot \in 1..LastShown /\ (dot - 1) % 8 = k /\ (ReloadsAttribute <=> k + fine_x = 7)
  <2>1. fine_x \in 0..7
    BY DEF PictureTypeOK
  <2>2. /\ dot \in 1..LastShown /\ (dot - 1) % 8 = k
        /\ \A f \in 0..7 : (dot + f) % 8 = 0 <=> k + f = 7
    BY DotOfTile
  <2> QED BY <2>1, <2>2, Zenon DEF ReloadsAttribute
<1>2. Shown /\ b \in Internals /\ vram_addr \in Column
  BY <1>1 DEF Shown, PictureTypeOK
<1>3. PICK s : s = get_bkg_pixel(b)
  OBVIOUS
<1>4. PICK f : f = IF ReloadsAttribute THEN fill_attribute_shift_reg(s) ELSE s
  OBVIOUS
<1>5. c = IF k = 7 THEN KeepAttribute(load_shift_regs(f)) ELSE Fetched(f, k)
  <2>1. c = Background(s)
    BY <1>3
  <2>2. Background(s) = IF Visible THEN VisibleDot(s) ELSE Fetched(s, (dot - 1) % 8)
    <3>1. dot \notin Prefetch
      BY <1>1, Sizes DEF Prefetch
    <3> QED BY <1>1, <3>1, Zenon DEF Background
  <2>3. c = VisibleDot(s)
    BY <2>1, <2>2
  <2> QED BY <1>1, <1>4, <2>3, Zenon DEF VisibleDot
<1>6. /\ s \in Internals /\ Latches(s, b, 7) /\ SameNext(s, b)
      /\ s.pt_lo_shift_reg = RightShift(b.pt_lo_shift_reg, 1)
      /\ s.pt_hi_shift_reg = RightShift(b.pt_hi_shift_reg, 1)
      /\ s.at_shift_reg.palette = b.at_shift_reg.palette
      /\ s.at_shift_reg.bits = Drained(b.at_shift_reg.bits)
  BY <1>2, <1>3, ShiftedParts
<1>7. /\ f \in Internals /\ Latches(f, s, 7) /\ SameTables(f, s) /\ SameNext(f, s)
      /\ k + fine_x = 7 =>
           f.at_shift_reg = [palette |-> PaletteOf(s.at_current, s.nt_addr_current), bits |-> 8]
      /\ k + fine_x # 7 => f.at_shift_reg = s.at_shift_reg
  <2>1. CASE k + fine_x = 7
    <3>1. f = fill_attribute_shift_reg(s)
      BY <1>1, <1>4, <2>1
    <3> QED BY <1>6, <2>1, <3>1, FilledParts
  <2>2. CASE k + fine_x # 7
    <3>1. f = s
      BY <1>1, <1>4, <2>2
    <3> QED BY <1>6, <2>2, <3>1 DEF Latches, SameTables, SameNext
  <2> QED BY <2>1, <2>2
<1>8. /\ c \in Internals /\ Latches(c, f, k) /\ c.at_shift_reg = f.at_shift_reg
      /\ k < 7 => SameTables(c, f) /\ SameNext(c, f)
      /\ k = 7 =>
           /\ c.pt_lo_shift_reg = LoadUpper(f.pt_lo_shift_reg, f.pt_lo_latch)
           /\ c.pt_hi_shift_reg = LoadUpper(f.pt_hi_shift_reg, f.pt_hi_latch)
           /\ c.at_current = f.at_latch /\ c.nt_addr_current = vram_addr
  <2>1. CASE k = 7
    <3>1. c = KeepAttribute(load_shift_regs(f))
      BY <1>5, <2>1
    <3> QED BY <1>2, <1>7, <2>1, <3>1, LoadedParts
  <2>2. CASE k # 7
    <3>1. c = Fetched(f, k)
      BY <1>5, <2>2
    <3> QED BY <1>2, <1>7, <2>2, <3>1, FetchedParts
  <2> QED BY <2>1, <2>2
<1>9. Latches(f, b, 7) /\ SameNext(f, b)
  BY <1>6, <1>7 DEF Latches, SameNext
<1>10. Latches(c, b, k)
  BY <1>8, <1>9 DEF Latches
<1>11. /\ k < 7 => /\ c.pt_lo_shift_reg = RightShift(b.pt_lo_shift_reg, 1)
                   /\ c.pt_hi_shift_reg = RightShift(b.pt_hi_shift_reg, 1)
                   /\ SameNext(c, b)
       /\ k = 7 =>
            /\ c.pt_lo_shift_reg = LoadUpper(RightShift(b.pt_lo_shift_reg, 1), b.pt_lo_latch)
            /\ c.pt_hi_shift_reg = LoadUpper(RightShift(b.pt_hi_shift_reg, 1), b.pt_hi_latch)
            /\ c.at_current = b.at_latch /\ c.nt_addr_current = vram_addr
  BY <1>6, <1>7, <1>8, <1>9 DEF SameTables, SameNext, Latches
<1>12. /\ k + fine_x = 7 =>
            c.at_shift_reg = [palette |-> PaletteOf(b.at_current, b.nt_addr_current), bits |-> 8]
       /\ k + fine_x # 7 => /\ c.at_shift_reg.palette = b.at_shift_reg.palette
                            /\ c.at_shift_reg.bits = Drained(b.at_shift_reg.bits)
  BY <1>6, <1>7, <1>8 DEF SameNext
<1> QED BY <1>8, <1>10, <1>11, <1>12

LEMMA PrefetchParts ==
  ASSUME PictureTypeOK, ppu_mask.bg, NEW q \in 0..1, NEW k \in 0..7, IsPrefetch(dot, q, k),
         NEW b, b = bkg_internals, NEW c, c = Background(get_bkg_pixel(b))
  PROVE  /\ c \in Internals /\ Latches(c, b, k)
         /\ k # 6 => SameTables(c, b) /\ SameNext(c, b)
         /\ k = 6 =>
              /\ c.pt_lo_shift_reg = LoadUpper(RightShift(b.pt_lo_shift_reg, 8), b.pt_lo_latch)
              /\ c.pt_hi_shift_reg = LoadUpper(RightShift(b.pt_hi_shift_reg, 8), b.nt_byte)
              /\ c.at_current = b.at_latch /\ c.nt_addr_current = vram_addr
         /\ k = 1 =>
              c.at_shift_reg = [palette |-> PaletteOf(b.at_current, b.nt_addr_current), bits |-> 8]
         /\ k # 1 => c.at_shift_reg = b.at_shift_reg
<1>1. /\ dot \notin 1..LastShown /\ dot \in Prefetch
      /\ (dot - CopyDot - 1) % 8 = k
  <2>1. PICK w \in Nat : w = LastShown /\ CopyDot = w + 1
    BY Sizes
  <2>2. dot \notin 1..LastShown /\ dot \in Prefetch
    BY <2>1 DEF Prefetch, IsPrefetch
  <2>3. dot - CopyDot - 1 = 8 * q + k
    BY <2>1 DEF IsPrefetch
  <2>4. (8 * q + k) % 8 = k
    OBVIOUS
  <2> QED BY <2>2, <2>3, <2>4
<1>2. b \in Internals /\ vram_addr \in Column /\ get_bkg_pixel(b) = b
  BY <1>1 DEF Shown, PictureTypeOK, get_bkg_pixel
<1>3. c = PrefetchDot(b)
  BY <1>1, <1>2, Zenon DEF Background
<1>4. CASE k = 1
  <2>1. c = fill_attribute_shift_reg(b)
    <3>1. (dot - CopyDot - 1) % 8 = 1
      BY <1>1, <1>4
    <3>2. c = PrefetchDot(b)
      BY <1>3
    <3>3. 1 # 6
      OBVIOUS
    <3> QED BY ONLY <3>1, <3>2, <3>3, Zenon DEF PrefetchDot
  <2>2. k # 6 /\ k # 0 /\ k # 2 /\ k # 4
    BY <1>4
  <2>3. /\ c \in Internals /\ Latches(c, b, 7) /\ SameTables(c, b) /\ SameNext(c, b)
        /\ c.at_shift_reg = [palette |-> PaletteOf(b.at_current, b.nt_addr_current), bits |-> 8]
    BY <1>2, <2>1, FilledParts
  <2> QED BY <1>4, <2>2, <2>3 DEF Latches
<1>5. CASE k = 6
  <2>1. PICK f : f = Fetched(b, k)
    OBVIOUS
  <2>2. PICK s : s = [f EXCEPT !.pt_lo_shift_reg = RightShift(@, 8),
                               !.pt_hi_shift_reg = RightShift(@, 8)]
    OBVIOUS
  <2>3. c = KeepAttribute(load_shift_regs(s))
    <3>1. 6 # 1
      OBVIOUS
    <3> QED BY <1>1, <1>3, <1>5, <2>1, <2>2, <3>1, Zenon DEF PrefetchDot
  <2>4. /\ f \in Internals /\ Latches(f, b, 6) /\ SameTables(f, b) /\ SameNext(f, b)
        /\ f.at_shift_reg = b.at_shift_reg
    BY <1>2, <1>5, <2>1, FetchedParts
  <2>5. /\ RightShift(f.pt_lo_shift_reg, 8) \in Register
        /\ RightShift(f.pt_hi_shift_reg, 8) \in Register
    BY <2>4, RegisterTypes DEF Internals
  <2>6. s \in Internals
    BY <2>2, <2>4, <2>5 DEF Internals
  <2>7. /\ Latches(s, f, 7) /\ s.at_shift_reg = f.at_shift_reg
        /\ s.pt_lo_shift_reg = RightShift(f.pt_lo_shift_reg, 8)
        /\ s.pt_hi_shift_reg = RightShift(f.pt_hi_shift_reg, 8)
    BY <2>2, <2>4 DEF Internals, Latches
  <2>8. /\ c \in Internals /\ Latches(c, s, 7)
        /\ c.pt_lo_shift_reg = LoadUpper(s.pt_lo_shift_reg, s.pt_lo_latch)
        /\ c.pt_hi_shift_reg = LoadUpper(s.pt_hi_shift_reg, s.pt_hi_latch)
        /\ c.at_current = s.at_latch /\ c.nt_addr_current = vram_addr
        /\ c.at_shift_reg = s.at_shift_reg
    BY <1>2, <2>3, <2>6, LoadedParts
  <2>9. Latches(c, b, 6) /\ s.at_latch = b.at_latch
        /\ s.pt_lo_latch = b.pt_lo_latch /\ s.pt_hi_latch = b.nt_byte
    BY <2>4, <2>7, <2>8 DEF Latches
  <2> QED BY <1>5, <2>4, <2>7, <2>8, <2>9 DEF SameTables
<1>6. CASE k # 1 /\ k # 6
  <2>1. c = Fetched(b, k)
    BY <1>1, <1>3, <1>6, Zenon DEF PrefetchDot
  <2> QED BY <1>2, <1>6, <2>1, FetchedParts
<1> QED BY <1>4, <1>5, <1>6

(* The dots on which nothing is fetched.                                    *)
LEMMA IdleParts ==
  ASSUME PictureTypeOK, dot \in {0, CopyDot}, NEW b
  PROVE  Background(get_bkg_pixel(b)) = b
<1>1. dot \notin 1..LastShown /\ dot \notin Prefetch
  BY Sizes DEF Prefetch
<1> QED BY <1>1, Zenon DEF Background, get_bkg_pixel, Shown

LEMMA PrefetchOfDot ==
  ASSUME NEW d \in Prefetch
  PROVE  \E q \in 0..1, k \in 0..7 : IsPrefetch(d, q, k)
<1> USE DEF IsPrefetch
<1>1. PICK w \in Nat : w = CopyDot
  BY Sizes
<1>2. d \in (w + 1)..(w + 16)
  BY <1>1 DEF Prefetch
<1>3. CASE d <= w + 8
  <2>1. d - w - 1 \in 0..7 /\ d = w + 1 + 8 * 0 + (d - w - 1)
    BY <1>2, <1>3
  <2> QED BY <1>1, <2>1
<1>4. CASE d > w + 8
  <2>1. d - w - 9 \in 0..7 /\ d = w + 1 + 8 * 1 + (d - w - 9)
    BY <1>2, <1>4
  <2> QED BY <1>1, <2>1
<1> QED BY <1>2, <1>3, <1>4

LEMMA InternalsStep ==
  ASSUME PictureTypeOK, clock_ppu
  PROVE  bkg_internals' \in Internals
<1>1. PICK b \in Internals : b = bkg_internals
  BY DEF PictureTypeOK
<1>2. PICK s \in Internals : s = get_bkg_pixel(b)
  <2>1. CASE Shown
    <3>1. get_bkg_pixel(b) \in Internals
      BY <1>1, <2>1, ShiftedParts
    <3> QED BY <3>1
  <2>2. CASE ~Shown
    BY <1>1, <2>2 DEF get_bkg_pixel
  <2> QED BY <2>1, <2>2
<1>3. bkg_internals' = Background(s) /\ vram_addr \in Column
  BY <1>1, <1>2 DEF clock_ppu, PictureTypeOK
<1>4. CASE ~ppu_mask.bg
  BY <1>2, <1>3, <1>4, Zenon DEF Background
<1>5. CASE ppu_mask.bg /\ dot \in 1..LastShown /\ Visible
  <2>1. PICK j \in 0..TilesShown - 1, k \in 0..7 : IsDot(dot, j, k)
    BY <1>5, TileOfDot
  <2> QED BY <1>1, <1>2, <1>3, <1>5, <2>1, VisibleParts
<1>6. CASE ppu_mask.bg /\ dot \in 1..LastShown /\ ~Visible
  <2>1. dot \notin Prefetch /\ (dot - 1) % 8 \in 0..7
    BY <1>6, Sizes DEF Prefetch
  <2>2. Background(s) = Fetched(s, (dot - 1) % 8)
    BY <1>6, <2>1, Zenon DEF Background
  <2> QED BY <1>2, <1>3, <2>1, <2>2, FetchedParts
<1>7. CASE ppu_mask.bg /\ dot \in Prefetch
  <2>1. PICK q \in 0..1, k \in 0..7 : IsPrefetch(dot, q, k)
    BY <1>7, PrefetchOfDot
  <2> QED BY <1>1, <1>2, <1>3, <1>7, <2>1, PrefetchParts
<1>8. CASE ppu_mask.bg /\ dot \notin 1..LastShown /\ dot \notin Prefetch
  BY <1>2, <1>3, <1>8, Zenon DEF Background
<1> QED BY <1>4, <1>5, <1>6, <1>7, <1>8

LEMMA PictureTypeInitial ==
  ASSUME PictureInit
  PROVE  PictureTypeOK
<1>1. PICK position \in Scrolls : vram_tmp_addr = position \div 8 /\ fine_x = position % 8
  BY DEF PictureInit
<1>2. position \in 0..((8 * Columns) - 1)
  BY <1>1, ScrollsAssumption
<1>3. vram_tmp_addr \in Column /\ fine_x \in 0..7
  <2>1. PICK w \in Nat : w = Columns /\ position \in 0..((8 * w) - 1)
    BY <1>2, Sizes
  <2>2. position \div 8 \in 0..w - 1 /\ position % 8 \in 0..7
    BY <2>1
  <2> QED BY <1>1, <2>1, <2>2 DEF Column
<1>4. PICK held \in {0, Columns - 1} :
        vram_addr = held /\ bkg_internals = [Zero EXCEPT !.nt_byte = held, !.at_latch = held \div 4]
  BY DEF PictureInit
<1>5. held \in Column /\ held \in Nat /\ held \div 4 \in Nat
  BY Sizes DEF Column
<1>6. bkg_internals \in Internals
  <2>1. Empty \in Nat
    BY Sizes DEF Empty, Width
  <2>2. [bit \in Bits |-> Empty] \in Register
    BY <2>1 DEF Register
  <2>3. Zero \in Internals
    BY <2>2 DEF Zero, Internals
  <2> QED BY <1>4, <1>5, <2>3 DEF Internals
<1>7. scanline \in 0..PreRender /\ dot \in 0..LastDot /\ line_start \in Column
  BY Sizes DEF PictureInit, Column
<1>8. /\ ppu_mask \in [bg : BOOLEAN, sprite : BOOLEAN, left : BOOLEAN, sprite_left : BOOLEAN]
      /\ steady \in BOOLEAN
  BY MasksAssumption DEF PictureInit
<1> QED BY <1>3, <1>4, <1>5, <1>6, <1>7, <1>8 DEF PictureTypeOK

LEMMA ClockTypes ==
  ASSUME PictureTypeOK, clock_ppu
  PROVE  PictureTypeOK'
<1>1. bkg_internals' \in Internals
  BY InternalsStep
<1>2. scanline' \in 0..PreRender /\ dot' \in 0..LastDot
  BY Sizes DEF PictureTypeOK, clock_ppu, NextDot, LineEnds
<1>3. vram_addr' \in Column
  <2>1. (vram_addr + 1) % Columns \in Column
    BY Sizes, Divided DEF PictureTypeOK, Column
  <2>2. vram_addr' \in {vram_addr, vram_tmp_addr, (vram_addr + 1) % Columns}
    <3>1. CASE dot = CopyDot /\ ppu_mask.bg
      <4>1. ~EndsTile
        BY <3>1, Sizes DEF EndsTile, Prefetch
      <4> QED BY <3>1, <4>1, Zenon DEF clock_ppu, inc_horz_scroll
    <3>2. CASE ~(dot = CopyDot /\ ppu_mask.bg) /\ EndsTile /\ (ppu_mask.bg \/ ppu_mask.sprite)
      BY <3>2, Zenon DEF clock_ppu, inc_horz_scroll
    <3>3. CASE ~(dot = CopyDot /\ ppu_mask.bg) /\ ~(EndsTile /\ (ppu_mask.bg \/ ppu_mask.sprite))
      BY <3>3, Zenon DEF clock_ppu, inc_horz_scroll
    <3> QED BY <3>1, <3>2, <3>3
  <2> QED BY <2>1, <2>2 DEF PictureTypeOK
<1>4. line_start' \in Column /\ steady' \in BOOLEAN
  <2>1. 0 \in Column /\ vram_addr \in Column /\ line_start \in Column
    BY Sizes DEF PictureTypeOK, Column
  <2>2. steady' \in BOOLEAN
    BY DEF clock_ppu, Remember
  <2>3. line_start' \in {0, vram_addr, line_start}
    <3>1. CASE dot = CopyDot + 1
      BY <3>1, Zenon DEF clock_ppu, Remember
    <3>2. CASE dot # CopyDot + 1 /\ steady
      BY <3>2, Zenon DEF clock_ppu, Remember
    <3>3. CASE dot # CopyDot + 1 /\ ~steady
      BY <3>3, Zenon DEF clock_ppu, Remember
    <3> QED BY <3>1, <3>2, <3>3
  <2> QED BY <2>1, <2>2, <2>3
<1>5. vram_tmp_addr' \in Column /\ fine_x' \in 0..7
      /\ ppu_mask' \in [bg : BOOLEAN, sprite : BOOLEAN, left : BOOLEAN, sprite_left : BOOLEAN]
  BY DEF clock_ppu, written_vars, PictureTypeOK
<1> QED BY <1>1, <1>2, <1>3, <1>4, <1>5 DEF PictureTypeOK

LEMMA WriteTypes ==
  ASSUME PictureTypeOK, Write
  PROVE  PictureTypeOK'
<1> USE DEF ppu_vars
<1>1. ASSUME NEW position \in Scrolls, write_2005(position)
      PROVE  PictureTypeOK'
  <2>1. PICK w \in Nat : w = Columns /\ position \in 0..((8 * w) - 1)
    BY ScrollsAssumption, Sizes
  <2>2. position \div 8 \in 0..w - 1 /\ position % 8 \in 0..7
    BY <2>1
  <2>3. vram_tmp_addr' \in Column /\ fine_x' \in 0..7 /\ steady' \in BOOLEAN /\ ppu_mask' = ppu_mask
    BY <1>1, <2>1, <2>2 DEF write_2005, Column, PictureTypeOK
  <2> QED BY <2>3 DEF Write, PictureTypeOK
<1>2. ASSUME NEW mask \in Masks, write_2001(mask)
      PROVE  PictureTypeOK'
  <2>1. ppu_mask' \in [bg : BOOLEAN, sprite : BOOLEAN, left : BOOLEAN, sprite_left : BOOLEAN]
        /\ steady' \in BOOLEAN
        /\ vram_tmp_addr' = vram_tmp_addr /\ fine_x' = fine_x
    BY <1>2, MasksAssumption DEF write_2001
  <2> QED BY <2>1 DEF Write, PictureTypeOK
<1> QED BY <1>1, <1>2 DEF Write

-----------------------------------------------------------------------------
(* One dot of a steady line.                                                *)

LEMMA HoldsShifted ==
  ASSUME NEW reg, NEW k \in 0..7, NEW first, NEW second, Holds(reg, k, first, second)
  PROVE  Holds(RightShift(reg, 1), k + 1, first, second)
<1> SUFFICES ASSUME NEW bit \in Bits
             PROVE  /\ bit + (k + 1) < 8 => RightShift(reg, 1)[bit] = Pixels(first, bit + (k + 1))
                    /\ bit + (k + 1) >= 8 /\ bit + (k + 1) < 16 =>
                         RightShift(reg, 1)[bit] = Pixels(second, bit + (k + 1) - 8)
  BY DEF Holds
<1>1. CASE bit + (k + 1) < 16
  <2>1. PICK next \in Bits : next = bit + 1 /\ next + k = bit + (k + 1)
    BY <1>1 DEF Bits
  <2>2. RightShift(reg, 1)[bit] = reg[next]
    BY <2>1 DEF RightShift
  <2>3. /\ next + k < 8 => reg[next] = Pixels(first, next + k)
        /\ next + k >= 8 /\ next + k < 16 => reg[next] = Pixels(second, next + k - 8)
    BY DEF Holds
  <2> QED BY <2>1, <2>2, <2>3
<1>2. CASE bit + (k + 1) >= 16
  BY <1>2 DEF Bits
<1> QED BY <1>1, <1>2 DEF Bits

LEMMA HoldsLoaded ==
  ASSUME NEW reg, NEW first, NEW second, NEW tile, Holds(reg, 8, first, second)
  PROVE  Holds(LoadUpper(reg, tile), 0, second, tile)
<1> SUFFICES ASSUME NEW bit \in Bits
             PROVE  /\ bit < 8 => LoadUpper(reg, tile)[bit] = Pixels(second, bit)
                    /\ bit >= 8 => LoadUpper(reg, tile)[bit] = Pixels(tile, bit - 8)
  BY DEF Holds, Bits
<1>1. CASE bit < 8
  <2>1. bit + 8 >= 8 /\ bit + 8 < 16 /\ bit + 8 - 8 = bit /\ ~(bit >= 8)
    BY <1>1 DEF Bits
  <2>2. reg[bit] = Pixels(second, bit)
    BY <2>1 DEF Holds
  <2> QED BY <1>1, <2>1, <2>2 DEF LoadUpper
<1>2. CASE bit >= 8
  BY <1>2 DEF LoadUpper, Bits
<1> QED BY <1>1, <1>2 DEF Bits

LEMMA UpperLoaded ==
  ASSUME NEW reg, NEW tile
  PROVE  Upper(LoadUpper(reg, tile), tile)
BY DEF Upper, LoadUpper, Bits

LEMMA AlignedLoaded ==
  ASSUME NEW reg, NEW first, NEW tile, Upper(reg, first)
  PROVE  Holds(LoadUpper(RightShift(reg, 8), tile), 0, first, tile)
<1> SUFFICES ASSUME NEW bit \in Bits
             PROVE  /\ bit < 8 => LoadUpper(RightShift(reg, 8), tile)[bit] = Pixels(first, bit)
                    /\ bit >= 8 => LoadUpper(RightShift(reg, 8), tile)[bit] = Pixels(tile, bit - 8)
  BY DEF Holds, Bits
<1>1. CASE bit < 8
  <2>1. PICK up \in Bits : up = bit + 8 /\ up >= 8 /\ up - 8 = bit
    BY <1>1 DEF Bits
  <2>2. RightShift(reg, 8)[bit] = reg[up]
    BY <2>1 DEF RightShift
  <2>3. reg[up] = Pixels(first, bit)
    BY <2>1 DEF Upper
  <2>4. LoadUpper(RightShift(reg, 8), tile)[bit] = RightShift(reg, 8)[bit]
    BY <1>1 DEF LoadUpper
  <2> QED BY <1>1, <2>2, <2>3, <2>4 DEF Bits
<1>2. CASE bit >= 8
  BY <1>2 DEF LoadUpper, Bits
<1> QED BY <1>1, <1>2 DEF Bits

(* The k-th dot of a fetch.                                                 *)
LEMMA FetchStep ==
  ASSUME NEW k \in 0..6, NEW tile, Fetches(k, tile),
         Latches(bkg_internals', bkg_internals, k), vram_addr' = vram_addr
  PROVE  Fetches(k + 1, tile)'
<1> USE DEF Fetches, Latches
<1>1. vram_addr' = tile
  OBVIOUS
<1>2. bkg_internals'.nt_byte = tile
  OBVIOUS
<1>3. k + 1 >= 3 => bkg_internals'.at_latch = tile \div 4
  OBVIOUS
<1>4. k + 1 >= 5 => bkg_internals'.pt_lo_latch = tile
  OBVIOUS
<1>5. k + 1 >= 7 => bkg_internals'.pt_hi_latch = tile
  OBVIOUS
<1> QED BY <1>1, <1>2, <1>3, <1>4, <1>5

LEMMA Addresses ==
  ASSUME PictureTypeOK, clock_ppu, ppu_mask.bg
  PROVE  /\ dot = 0 => vram_addr' = vram_addr
         /\ \A j \in 0..TilesShown - 1, k \in 0..7 : IsDot(dot, j, k) =>
              vram_addr' = IF k = 7 THEN (vram_addr + 1) % Columns ELSE vram_addr
         /\ \A q \in 0..1, k \in 0..7 : IsPrefetch(dot, q, k) =>
              vram_addr' = IF k = 7 THEN (vram_addr + 1) % Columns ELSE vram_addr
<1>1. dot # CopyDot => vram_addr' = IF EndsTile THEN (vram_addr + 1) % Columns ELSE vram_addr
  <2>1. CASE dot # CopyDot /\ EndsTile
    BY <2>1, Zenon DEF clock_ppu, inc_horz_scroll
  <2>2. CASE dot # CopyDot /\ ~EndsTile
    BY <2>2, Zenon DEF clock_ppu, inc_horz_scroll
  <2> QED BY <2>1, <2>2
<1>2. PICK w \in Nat : w = LastShown /\ CopyDot = w + 1
  BY Sizes
<1>3. dot = 0 => vram_addr' = vram_addr
  <2>1. dot = 0 => dot # CopyDot /\ ~EndsTile
    BY <1>2 DEF EndsTile, Prefetch
  <2> QED BY <1>1, <2>1
<1>4. ASSUME NEW j \in 0..TilesShown - 1, NEW k \in 0..7, IsDot(dot, j, k)
      PROVE  vram_addr' = IF k = 7 THEN (vram_addr + 1) % Columns ELSE vram_addr
  <2>1. dot \in 1..LastShown /\ (dot - 1) % 8 = k
    BY <1>4, DotOfTile
  <2>2. dot # CopyDot /\ dot \notin Prefetch
    BY <1>2, <2>1 DEF Prefetch
  <2>3. EndsTile <=> k = 7
    BY <2>1, <2>2 DEF EndsTile
  <2> QED BY <1>1, <2>2, <2>3
<1>5. ASSUME NEW q \in 0..1, NEW k \in 0..7, IsPrefetch(dot, q, k)
      PROVE  vram_addr' = IF k = 7 THEN (vram_addr + 1) % Columns ELSE vram_addr
  <2>1. /\ dot \in Prefetch /\ dot \notin 1..LastShown /\ dot # CopyDot
        /\ dot - CopyDot - 1 = 8 * q + k
    BY <1>2, <1>5 DEF Prefetch, IsPrefetch
  <2>2. (8 * q + k) % 8 = k
    OBVIOUS
  <2>3. EndsTile <=> k = 7
    BY <2>1, <2>2 DEF EndsTile
  <2> QED BY <1>1, <2>1, <2>3
<1> QED BY <1>3, <1>4, <1>5

(* A dot of a steady line, other than the first of its prefetch: the tiles  *)
(* stay the same.                                                           *)
SteadyDot ==
  /\ PictureInv /\ clock_ppu /\ steady' /\ dot # CopyDot + 1

LEMMA SteadyFacts ==
  ASSUME SteadyDot
  PROVE  /\ steady /\ ppu_mask.bg /\ PictureTypeOK /\ line_start \in Column
         /\ line_start' = line_start /\ fine_x' = fine_x /\ ppu_mask' = ppu_mask
         /\ \A n \in Nat : /\ Tile(n)' = Tile(n) /\ Tile(n) \in Nat
                           /\ (Tile(n) + 1) % Columns = Tile(n + 1)
<1>1. /\ steady /\ ppu_mask.bg /\ PictureTypeOK /\ line_start \in Column
      /\ fine_x' = fine_x /\ ppu_mask' = ppu_mask
  BY DEF SteadyDot, PictureInv, PictureTypeOK, clock_ppu, Remember, written_vars
<1>2. line_start' = line_start
  <2>1. dot # CopyDot + 1 /\ steady /\ Remember
    BY <1>1 DEF SteadyDot, clock_ppu
  <2> QED BY <2>1, Zenon DEF Remember
<1>3. \A n \in Nat : Tile(n)' = Tile(n)
  BY <1>2 DEF Tile
<1> QED BY <1>1, <1>2, <1>3, Tiles

LEMMA FirstPrefetchStep ==
  ASSUME SteadyDot, NEW k \in 1..7, dot = CopyDot + 1 + k, PrefetchesFirst(k)
  PROVE  /\ k < 7 => PrefetchesFirst(k + 1)'
         /\ k = 7 => PrefetchesSecond(0)'
<1>1. PICK b : b = bkg_internals
  OBVIOUS
<1>2. PICK c : c = bkg_internals' /\ c = Background(get_bkg_pixel(b))
  BY <1>1 DEF SteadyDot, clock_ppu
<1>3. IsPrefetch(dot, 0, k) /\ 0 \in 0..1 /\ k \in 0..7
  BY Sizes DEF IsPrefetch
<1>4. /\ Latches(c, b, k)
      /\ k # 6 => SameTables(c, b) /\ SameNext(c, b)
      /\ k = 6 =>
           /\ c.pt_lo_shift_reg = LoadUpper(RightShift(b.pt_lo_shift_reg, 8), b.pt_lo_latch)
           /\ c.pt_hi_shift_reg = LoadUpper(RightShift(b.pt_hi_shift_reg, 8), b.nt_byte)
           /\ c.at_current = b.at_latch /\ c.nt_addr_current = vram_addr
      /\ k = 1 =>
           c.at_shift_reg = [palette |-> PaletteOf(b.at_current, b.nt_addr_current), bits |-> 8]
      /\ k # 1 => c.at_shift_reg = b.at_shift_reg
  BY <1>1, <1>2, <1>3, SteadyFacts, PrefetchParts
<1>5. vram_addr' = IF k = 7 THEN (vram_addr + 1) % Columns ELSE vram_addr
  BY <1>3, SteadyFacts, Addresses DEF SteadyDot
<1>6. PICK t0, t1 : /\ t0 = Tile(0) /\ t1 = Tile(1) /\ t0 = Tile(0)' /\ t1 = Tile(1)'
                    /\ (t0 + 1) % Columns = t1
  BY SteadyFacts
<1>7. Fetches(k, t0) /\ (k = 7 => UpperHalves(t0) /\ NextPalette(t0))
  BY <1>6 DEF PrefetchesFirst
<1>8. CASE k < 7
  <2>1. Fetches(k + 1, t0)'
    BY <1>1, <1>2, <1>4, <1>5, <1>7, <1>8, FetchStep
  <2>2. k + 1 = 7 => UpperHalves(t0)' /\ NextPalette(t0)'
    <3> HAVE k + 1 = 7
    <3>1. k = 6
      OBVIOUS
    <3>2. b.nt_byte = t0 /\ b.at_latch = t0 \div 4 /\ b.pt_lo_latch = t0 /\ vram_addr = t0
      BY <1>1, <1>7, <3>1 DEF Fetches
    <3>3. UpperHalves(t0)'
      BY <1>2, <1>4, <3>1, <3>2, UpperLoaded DEF UpperHalves
    <3>4. NextPalette(t0)'
      BY <1>2, <1>4, <3>1, <3>2 DEF NextPalette
    <3> QED BY <3>3, <3>4
  <2> QED BY <1>6, <1>8, <2>1, <2>2 DEF PrefetchesFirst
<1>9. CASE k = 7
  <2>1. Fetches(0, t1)'
    BY <1>5, <1>6, <1>7, <1>9 DEF Fetches
  <2>2. UpperHalves(t0)' /\ NextPalette(t0)'
    BY <1>1, <1>2, <1>4, <1>7, <1>9 DEF UpperHalves, NextPalette, SameTables, SameNext
  <2> QED BY <1>6, <1>9, <2>1, <2>2 DEF PrefetchesSecond
<1> QED BY <1>8, <1>9

LEMMA SecondPrefetchStep ==
  ASSUME SteadyDot, NEW k \in 0..7, dot = CopyDot + 9 + k, PrefetchesSecond(k)
  PROVE  /\ k < 7 => PrefetchesSecond(k + 1)'
         /\ k = 7 => LineBegins'
<1>1. PICK b : b = bkg_internals
  OBVIOUS
<1>2. PICK c : c = bkg_internals' /\ c = Background(get_bkg_pixel(b))
  BY <1>1 DEF SteadyDot, clock_ppu
<1>3. IsPrefetch(dot, 1, k)
  BY Sizes DEF IsPrefetch
<1>4. /\ Latches(c, b, k)
      /\ k # 6 => SameTables(c, b) /\ SameNext(c, b)
      /\ k = 6 =>
           /\ c.pt_lo_shift_reg = LoadUpper(RightShift(b.pt_lo_shift_reg, 8), b.pt_lo_latch)
           /\ c.pt_hi_shift_reg = LoadUpper(RightShift(b.pt_hi_shift_reg, 8), b.nt_byte)
           /\ c.at_current = b.at_latch /\ c.nt_addr_current = vram_addr
      /\ k = 1 =>
           c.at_shift_reg = [palette |-> PaletteOf(b.at_current, b.nt_addr_current), bits |-> 8]
      /\ k # 1 => c.at_shift_reg = b.at_shift_reg
  BY <1>1, <1>2, <1>3, SteadyFacts, PrefetchParts
<1>5. vram_addr' = IF k = 7 THEN (vram_addr + 1) % Columns ELSE vram_addr
  BY <1>3, SteadyFacts, Addresses DEF SteadyDot
<1>6. PICK t0, t1, t2 : /\ t0 = Tile(0) /\ t1 = Tile(1) /\ t2 = Tile(2)
                        /\ t0 = Tile(0)' /\ t1 = Tile(1)' /\ t2 = Tile(2)'
                        /\ (t1 + 1) % Columns = t2
  BY SteadyFacts
<1>7. /\ Fetches(k, t1)
      /\ k <= 6 => UpperHalves(t0) /\ NextPalette(t0)
      /\ k >= 2 => ShowsPalette(t0, 8)
      /\ k = 7 => Registers(0, t0, t1) /\ NextPalette(t1)
  BY <1>6 DEF PrefetchesSecond
<1>8. k >= 1 => ShowsPalette(t0, 8)'
  <2>1. CASE k = 1
    <3>1. b.at_current = t0 \div 4 /\ b.nt_addr_current = t0
      BY <1>1, <1>7, <2>1 DEF NextPalette
    <3> QED BY <1>2, <1>4, <2>1, <3>1 DEF ShowsPalette
  <2>2. CASE k >= 2
    BY <1>1, <1>2, <1>4, <1>7, <2>2 DEF ShowsPalette
  <2> QED BY <2>1, <2>2
<1>9. CASE k < 6
  <2>1. Fetches(k + 1, t1)'
    BY <1>1, <1>2, <1>4, <1>5, <1>7, <1>9, FetchStep
  <2>2. UpperHalves(t0)' /\ NextPalette(t0)'
    BY <1>1, <1>2, <1>4, <1>7, <1>9 DEF UpperHalves, NextPalette, SameTables, SameNext
  <2> QED BY <1>6, <1>8, <1>9, <2>1, <2>2 DEF PrefetchesSecond
<1>10. CASE k = 6
  <2>1. Fetches(k + 1, t1)'
    BY <1>1, <1>2, <1>4, <1>5, <1>7, <1>10, FetchStep
  <2>2. b.nt_byte = t1 /\ b.at_latch = t1 \div 4 /\ b.pt_lo_latch = t1 /\ vram_addr = t1
    BY <1>1, <1>7, <1>10 DEF Fetches
  <2>3. Upper(b.pt_lo_shift_reg, t0) /\ Upper(b.pt_hi_shift_reg, t0)
    BY <1>1, <1>7, <1>10 DEF UpperHalves
  <2>4. Registers(0, t0, t1)'
    BY <1>2, <1>4, <1>10, <2>2, <2>3, AlignedLoaded DEF Registers
  <2>5. NextPalette(t1)'
    BY <1>2, <1>4, <1>10, <2>2 DEF NextPalette
  <2> QED BY <1>6, <1>8, <1>10, <2>1, <2>4, <2>5 DEF PrefetchesSecond
<1>11. CASE k = 7
  <2>1. Registers(0, t0, t1)' /\ NextPalette(t1)'
    BY <1>1, <1>2, <1>4, <1>7, <1>11 DEF Registers, NextPalette, SameTables, SameNext
  <2>2. vram_addr' = t2
    BY <1>5, <1>6, <1>7, <1>11 DEF Fetches
  <2> QED BY <1>6, <1>8, <1>11, <2>1, <2>2 DEF LineBegins
<1> QED BY <1>9, <1>10, <1>11

LEMMA LineBeginsStep ==
  ASSUME SteadyDot, dot = 0, LineBegins
  PROVE  Shows(0, 0)'
<1>1. bkg_internals' = bkg_internals
  BY SteadyFacts, IdleParts DEF SteadyDot, clock_ppu
<1>2. vram_addr' = vram_addr
  BY SteadyFacts, Addresses DEF SteadyDot
<1>3. PICK t0, t1, t2 : /\ t0 = Tile(0) /\ t1 = Tile(1) /\ t2 = Tile(2)
                        /\ t0 = Tile(0)' /\ t1 = Tile(1)' /\ t2 = Tile(2)'
  BY SteadyFacts
<1>4. vram_addr = t2 /\ Registers(0, t0, t1) /\ NextPalette(t1) /\ ShowsPalette(t0, 8)
  BY <1>3 DEF LineBegins
<1>5. Fetches(0, t2)' /\ Registers(0, t0, t1)' /\ NextPalette(t1)'
  BY <1>1, <1>2, <1>4 DEF Fetches, Registers, NextPalette
<1>6. PICK f \in 0..7 : f = fine_x /\ f = fine_x'
  BY SteadyFacts DEF PictureTypeOK
<1>7. ShowsPalette(t0, 8 - 0 - f)'
  <2>1. PICK m \in 0..8 : m = bkg_internals.at_shift_reg.bits
    BY SteadyFacts DEF PictureTypeOK, Internals
  <2>2. m >= 8
    BY <1>4, <2>1 DEF ShowsPalette
  <2>3. PICK n \in 0..8 : n = bkg_internals'.at_shift_reg.bits /\ n = m
    BY <1>1, <2>1
  <2>4. n \in (8 - 0 - f)..8
    BY <2>2, <2>3
  <2>5. bkg_internals'.at_shift_reg.palette = PaletteOf(t0 \div 4, t0)
    BY <1>1, <1>4 DEF ShowsPalette
  <2> QED BY ONLY <2>3, <2>4, <2>5 DEF ShowsPalette
<1>8. ~(0 + f >= 8)
  OBVIOUS
<1>9. ShowsTiles(0, t0, t1, t2, f)'
  BY <1>5, <1>7, <1>8 DEF ShowsTiles
<1>10. 0 + 1 = 1 /\ 0 + 2 = 2
  OBVIOUS
<1> QED BY <1>3, <1>6, <1>9, <1>10 DEF Shows

LEMMA ShowsStep ==
  ASSUME SteadyDot, Visible, NEW j \in 0..TilesShown - 1, NEW k \in 0..7, IsDot(dot, j, k),
         Shows(j, k)
  PROVE  /\ k < 7 => Shows(j, k + 1)'
         /\ k = 7 => Shows(j + 1, 0)'
<1>1. PICK b : b = bkg_internals
  OBVIOUS
<1>2. PICK c : c = bkg_internals' /\ c = Background(get_bkg_pixel(b))
  BY <1>1 DEF SteadyDot, clock_ppu
<1>3. /\ b \in Internals /\ Latches(c, b, k)
      /\ k < 7 =>
           /\ c.pt_lo_shift_reg = RightShift(b.pt_lo_shift_reg, 1)
           /\ c.pt_hi_shift_reg = RightShift(b.pt_hi_shift_reg, 1)
           /\ SameNext(c, b)
      /\ k = 7 =>
           /\ c.pt_lo_shift_reg = LoadUpper(RightShift(b.pt_lo_shift_reg, 1), b.pt_lo_latch)
           /\ c.pt_hi_shift_reg = LoadUpper(RightShift(b.pt_hi_shift_reg, 1), b.pt_hi_latch)
           /\ c.at_current = b.at_latch /\ c.nt_addr_current = vram_addr
      /\ k + fine_x = 7 =>
           c.at_shift_reg = [palette |-> PaletteOf(b.at_current, b.nt_addr_current), bits |-> 8]
      /\ k + fine_x # 7 =>
           /\ c.at_shift_reg.palette = b.at_shift_reg.palette
           /\ c.at_shift_reg.bits = Drained(b.at_shift_reg.bits)
  BY <1>1, <1>2, SteadyFacts, VisibleParts DEF PictureTypeOK
<1>4. vram_addr' = IF k = 7 THEN (vram_addr + 1) % Columns ELSE vram_addr
  BY SteadyFacts, Addresses DEF SteadyDot
<1>5. PICK t0, t1, t2, t3 :
        /\ t0 = Tile(j) /\ t1 = Tile(j + 1) /\ t2 = Tile(j + 2) /\ t3 = Tile(j + 3)
        /\ t0 = Tile(j)' /\ t1 = Tile(j + 1)' /\ t2 = Tile(j + 2)' /\ t3 = Tile(j + 3)'
        /\ (t2 + 1) % Columns = t3
  <2>1. j \in Nat /\ j + 1 \in Nat /\ j + 2 \in Nat /\ j + 3 \in Nat /\ (j + 2) + 1 = j + 3
    BY Sizes
  <2> QED BY <2>1, SteadyFacts
<1>6. PICK f \in 0..7 : f = fine_x /\ f = fine_x'
  BY SteadyFacts DEF PictureTypeOK
<1>7. /\ Fetches(k, t2) /\ Registers(k, t0, t1) /\ NextPalette(t1)
      /\ k + f < 8 => ShowsPalette(t0, 8 - k - f)
      /\ k + f >= 8 => ShowsPalette(t1, 16 - k - f)
  BY <1>5, <1>6 DEF Shows, ShowsTiles
<1>8. PICK bits \in 0..8 :
        /\ bits = bkg_internals'.at_shift_reg.bits
        /\ k + f < 7 => c.at_shift_reg.palette = PaletteOf(t0 \div 4, t0) /\ bits >= 7 - k - f
        /\ k + f >= 7 => c.at_shift_reg.palette = PaletteOf(t1 \div 4, t1) /\ bits >= 15 - k - f
  <2>0. PICK m \in 0..8, n \in 0..8 : m = b.at_shift_reg.bits /\ n = c.at_shift_reg.bits
    BY <1>2, <1>3, InternalsStep, SteadyFacts DEF SteadyDot, Internals
  <2>1. CASE k + f < 7
    <3>1. n = Drained(m) /\ c.at_shift_reg.palette = b.at_shift_reg.palette
      BY <1>3, <1>6, <2>0, <2>1
    <3>2. m >= 8 - k - f /\ b.at_shift_reg.palette = PaletteOf(t0 \div 4, t0)
      BY <1>1, <1>7, <2>0, <2>1 DEF ShowsPalette
    <3>3. n >= 7 - k - f
      BY <2>1, <3>1, <3>2 DEF Drained
    <3> QED BY <1>2, <2>0, <2>1, <3>1, <3>2, <3>3
  <2>2. CASE k + f = 7
    <3>1. b.at_current = t1 \div 4 /\ b.nt_addr_current = t1
      BY <1>1, <1>7 DEF NextPalette
    <3>2. c.at_shift_reg = [palette |-> PaletteOf(t1 \div 4, t1), bits |-> 8]
      BY <1>3, <1>6, <2>2, <3>1
    <3> QED BY <1>2, <2>0, <2>2, <3>2
  <2>3. CASE k + f > 7
    <3>1. n = Drained(m) /\ c.at_shift_reg.palette = b.at_shift_reg.palette
      BY <1>3, <1>6, <2>0, <2>3
    <3>2. m >= 16 - k - f /\ b.at_shift_reg.palette = PaletteOf(t1 \div 4, t1)
      BY <1>1, <1>7, <2>0, <2>3 DEF ShowsPalette
    <3>3. n >= 15 - k - f
      BY <2>3, <3>1, <3>2 DEF Drained
    <3> QED BY <1>2, <2>0, <2>3, <3>1, <3>2, <3>3
  <2> QED BY <2>1, <2>2, <2>3
<1>9. /\ Holds(RightShift(b.pt_lo_shift_reg, 1), k + 1, t0, t1)
      /\ Holds(RightShift(b.pt_hi_shift_reg, 1), k + 1, t0, t1)
  BY <1>1, <1>7, HoldsShifted DEF Registers
<1>10. CASE k < 7
  <2>1. Fetches(k + 1, t2)'
    BY <1>1, <1>2, <1>3, <1>4, <1>7, <1>10, FetchStep
  <2>2. Registers(k + 1, t0, t1)' /\ NextPalette(t1)'
    BY <1>1, <1>2, <1>3, <1>7, <1>9, <1>10 DEF Registers, NextPalette, SameNext
  <2>3. /\ (k + 1) + f < 8 => ShowsPalette(t0, 8 - (k + 1) - f)'
        /\ (k + 1) + f >= 8 => ShowsPalette(t1, 16 - (k + 1) - f)'
    <3>1. /\ (k + 1) + f < 8 => bits \in (8 - (k + 1) - f)..8 /\ k + f < 7
          /\ (k + 1) + f >= 8 => bits \in (16 - (k + 1) - f)..8 /\ k + f >= 7
      BY <1>8
    <3> QED BY <1>2, <1>8, <3>1 DEF ShowsPalette
  <2>4. ShowsTiles(k + 1, t0, t1, t2, f)'
    BY <2>1, <2>2, <2>3 DEF ShowsTiles
  <2> QED BY <1>5, <1>6, <1>10, <2>4 DEF Shows
<1>11. CASE k = 7
  <2>1. /\ vram_addr = t2 /\ b.pt_lo_latch = t2 /\ b.pt_hi_latch = t2 /\ b.at_latch = t2 \div 4
    BY <1>1, <1>7, <1>11 DEF Fetches
  <2>2. Fetches(0, t3)'
    BY <1>4, <1>5, <1>11, <2>1 DEF Fetches
  <2>3. Registers(0, t1, t2)'
    <3>1. k + 1 = 8
      BY <1>11
    <3> QED BY <1>2, <1>3, <1>9, <1>11, <2>1, <3>1, HoldsLoaded DEF Registers
  <2>4. NextPalette(t2)'
    BY <1>2, <1>3, <1>11, <2>1 DEF NextPalette
  <2>5. 0 + f < 8 => ShowsPalette(t1, 8 - 0 - f)'
    <3>1. bits \in (8 - 0 - f)..8 /\ k + f >= 7
      BY <1>8, <1>11
    <3> QED BY <1>2, <1>8, <3>1 DEF ShowsPalette
  <2>6. (j + 1) + 1 = j + 2 /\ (j + 1) + 2 = j + 3 /\ ~(0 + f >= 8)
    BY Sizes
  <2>7. ShowsTiles(0, t1, t2, t3, f)'
    BY <2>2, <2>3, <2>4, <2>5, <2>6 DEF ShowsTiles
  <2> QED BY <1>5, <1>6, <1>11, <2>6, <2>7 DEF Shows
<1> QED BY <1>10, <1>11

-----------------------------------------------------------------------------
(* The invariant.                                                           *)

LEMMA NextDots ==
  ASSUME PictureTypeOK, clock_ppu, NEW d \in Nat, d >= 1, dot' = d
  PROVE  dot = d - 1 /\ scanline' = scanline /\ dot # LastDot
<1>1. dot \in Nat
  BY Sizes DEF PictureTypeOK
<1>2. ~LineEnds
  BY DEF clock_ppu, NextDot
<1> QED BY <1>1, <1>2 DEF clock_ppu, NextDot, LineEnds

LEMMA PipelineStep ==
  ASSUME PictureInv, clock_ppu
  PROVE  PipelineInv'
<1> SUFFICES ASSUME steady'
             PROVE  /\ ppu_mask'.bg
                    /\ \A k \in 1..7 : dot' = CopyDot + 1 + k => PrefetchesFirst(k)'
                    /\ \A k \in 0..7 : dot' = CopyDot + 9 + k => PrefetchesSecond(k)'
                    /\ dot' = 0 => LineBegins'
                    /\ \A j \in 0..TilesShown - 1, k \in 0..7 :
                         Visible' /\ IsDot(dot', j, k) => Shows(j, k)'
  BY DEF PipelineInv
<1>1. PictureTypeOK /\ PipelineInv
  BY DEF PictureInv
<1>2. ppu_mask.bg /\ ppu_mask' = ppu_mask
  BY DEF clock_ppu, Remember, written_vars
<1>3. PICK w \in Nat : w = CopyDot /\ LastDot = w + 16 /\ LastShown = w - 1
  BY Sizes
<1>4. dot # CopyDot + 1 => SteadyDot
  BY DEF SteadyDot
<1>5. dot # CopyDot + 1 => steady
  BY DEF clock_ppu, Remember
<1>6. ASSUME NEW k \in 1..7, dot' = CopyDot + 1 + k
      PROVE  PrefetchesFirst(k)'
  <2>1. dot = CopyDot + 1 + (k - 1)
    <3>1. w + 1 + k \in Nat /\ w + 1 + k >= 1 /\ dot' = w + 1 + k
      BY <1>3, <1>6
    <3>2. dot = w + 1 + k - 1
      BY ONLY <1>1, <3>1, clock_ppu, NextDots
    <3> QED BY <1>3, <3>2
  <2>2. CASE k = 1
    <3>1. IsPrefetch(dot, 0, 0)
      BY <1>3, <2>1, <2>2 DEF IsPrefetch
    <3>2. Latches(bkg_internals', bkg_internals, 0)
      BY <1>1, <1>2, <3>1, PrefetchParts DEF clock_ppu
    <3>3. vram_addr' = vram_addr
      BY <1>1, <1>2, <3>1, Addresses
    <3>4. line_start' = vram_addr
      <4>1. dot = CopyDot + 1
        BY <1>3, <2>1, <2>2
      <4> QED BY <4>1, Zenon DEF clock_ppu, Remember
    <3>5. Tile(0)' = vram_addr
      <4>1. vram_addr \in Column
        BY <1>1 DEF PictureTypeOK
      <4>2. PICK n \in Nat : n = vram_addr /\ Splits(n, Columns, 0, n) /\ n + 0 = n
        BY <4>1, Sizes DEF Column, Splits
      <4>3. n % Columns = n
        BY <4>2, Sizes, Quotient
      <4> QED BY <3>4, <4>2, <4>3 DEF Tile
    <3>6. PICK t : t = vram_addr
      OBVIOUS
    <3>7. Fetches(1, t)'
      BY <3>2, <3>3, <3>6 DEF Fetches, Latches
    <3> QED BY <2>2, <3>5, <3>6, <3>7 DEF PrefetchesFirst
  <2>3. CASE k > 1
    <3>1. PICK e \in 1..7 : e = k - 1 /\ e < 7 /\ e + 1 = k
      BY <2>3
    <3>2. dot = CopyDot + 1 + e /\ dot # CopyDot + 1
      BY <1>3, <2>1, <3>1
    <3>3. PrefetchesFirst(e)
      BY <1>1, <1>5, <3>2 DEF PipelineInv
    <3> QED BY <1>4, <3>1, <3>2, <3>3, FirstPrefetchStep
  <2> QED BY <2>2, <2>3
<1>7. ASSUME NEW k \in 0..7, dot' = CopyDot + 9 + k
      PROVE  PrefetchesSecond(k)'
  <2>1. dot = CopyDot + 9 + k - 1
    <3>1. w + 9 + k \in Nat /\ w + 9 + k >= 1 /\ dot' = w + 9 + k
      BY <1>3, <1>7
    <3>2. dot = w + 9 + k - 1
      BY ONLY <1>1, <3>1, clock_ppu, NextDots
    <3> QED BY <1>3, <3>2
  <2>2. CASE k = 0
    <3>1. PICK e \in 1..7 : e = 7 /\ dot = CopyDot + 1 + e /\ dot # CopyDot + 1
      BY <1>3, <2>1, <2>2
    <3>2. PrefetchesFirst(e)
      BY <1>1, <1>5, <3>1 DEF PipelineInv
    <3>3. PrefetchesSecond(0)'
      BY <1>4, <3>1, <3>2, FirstPrefetchStep
    <3> QED
      BY <2>2, <3>3
      DEF PrefetchesSecond, Fetches, UpperHalves, NextPalette, ShowsPalette, Registers
  <2>3. CASE k > 0
    <3>1. PICK e \in 0..7 : e = k - 1 /\ e < 7 /\ e + 1 = k
      BY <2>3
    <3>2. dot = CopyDot + 9 + e /\ dot # CopyDot + 1
      BY <1>3, <2>1, <3>1
    <3>3. PrefetchesSecond(e)
      BY <1>1, <1>5, <3>2 DEF PipelineInv
    <3> QED BY <1>4, <3>1, <3>2, <3>3, SecondPrefetchStep
  <2> QED BY <2>2, <2>3
<1>8. ASSUME dot' = 0
      PROVE  LineBegins'
  <2>1. dot = CopyDot + 9 + 7 /\ dot # CopyDot + 1
    BY <1>1, <1>3, <1>8 DEF clock_ppu, NextDot, LineEnds, PictureTypeOK
  <2>2. PrefetchesSecond(7)
    BY <1>1, <1>5, <2>1 DEF PipelineInv
  <2> QED BY <1>4, <2>1, <2>2, SecondPrefetchStep
<1>9. ASSUME NEW j \in 0..TilesShown - 1, NEW k \in 0..7, Visible', IsDot(dot', j, k)
      PROVE  Shows(j, k)'
  <2>0. PICK d \in 1..LastShown : d = dot' /\ IsDot(d, j, k)
    <3>1. dot' \in 1..LastShown
      BY <1>9, DotOfTile
    <3> QED BY <1>9, <3>1
  <2>1. dot = d - 1 /\ dot \in 0..LastShown /\ Visible /\ dot # CopyDot + 1
    <3>1. d \in Nat /\ d >= 1 /\ dot' = d
      BY <2>0, <1>3
    <3>2. dot = d - 1 /\ scanline' = scanline
      BY ONLY <1>1, <3>1, clock_ppu, NextDots
    <3>3. Visible
      BY <1>9, <3>2, Zenon DEF Visible
    <3>4. PICK v \in Nat, e \in Nat : v = LastShown /\ w = v + 1 /\ e \in 0..v /\ e = d - 1
      BY <1>3, Sizes
    <3>5. dot = e /\ e # w + 1
      BY <3>2, <3>4
    <3> QED BY ONLY <1>3, <3>2, <3>3, <3>4, <3>5
  <2>2. CASE dot = 0
    <3>1. j = 0 /\ k = 0
      BY <2>0, <2>1, <2>2, Sizes DEF IsDot
    <3>2. LineBegins
      BY <1>1, <1>5, <2>1, <2>2 DEF PipelineInv
    <3> QED BY <1>4, <2>1, <2>2, <3>1, <3>2, LineBeginsStep
  <2>3. CASE dot # 0 /\ k > 0
    <3>1. PICK e \in 0..7 : e = k - 1 /\ e < 7 /\ e + 1 = k
      BY <2>3
    <3>2. IsDot(dot, j, e)
      BY <2>0, <2>1, <3>1, Sizes DEF IsDot
    <3>3. Shows(j, e)
      BY <1>1, <1>5, <2>1, <3>2 DEF PipelineInv
    <3> QED BY <1>4, <2>1, <3>1, <3>2, <3>3, ShowsStep
  <2>4. CASE dot # 0 /\ k = 0
    <3>1. PICK i \in 0..TilesShown - 1, e \in 0..7 : e = 7 /\ i + 1 = j /\ IsDot(dot, i, e)
      <4>1. j # 0
        BY <2>0, <2>1, <2>4 DEF IsDot
      <4>2. j - 1 \in 0..TilesShown - 1 /\ (j - 1) + 1 = j /\ 7 \in 0..7
        BY <4>1, Sizes
      <4>3. IsDot(dot, j - 1, 7)
        BY <2>0, <2>1, <2>4, <4>2, Sizes DEF IsDot
      <4> QED BY <4>2, <4>3
    <3>2. Shows(i, e)
      BY <1>1, <1>5, <2>1, <3>1 DEF PipelineInv
    <3> QED BY <1>4, <2>1, <2>4, <3>1, <3>2, ShowsStep
  <2> QED BY <2>2, <2>3, <2>4
<1> QED BY <1>2, <1>6, <1>7, <1>8, <1>9

(* A program does not disturb a line without it being seen.                 *)
LEMMA PipelineWrite ==
  ASSUME PictureInv, UNCHANGED <<ppu_vars, line_start>>,
         steady' => steady /\ ppu_mask'.bg /\ (fine_x' = fine_x \/ ~Shown)
  PROVE  PipelineInv'
<1> SUFFICES ASSUME steady'
             PROVE  /\ ppu_mask'.bg
                    /\ \A k \in 1..7 : dot' = CopyDot + 1 + k => PrefetchesFirst(k)'
                    /\ \A k \in 0..7 : dot' = CopyDot + 9 + k => PrefetchesSecond(k)'
                    /\ dot' = 0 => LineBegins'
                    /\ \A j \in 0..TilesShown - 1, k \in 0..7 :
                         Visible' /\ IsDot(dot', j, k) => Shows(j, k)'
  BY DEF PipelineInv
<1>1. PipelineInv /\ steady /\ ppu_mask'.bg /\ (fine_x' = fine_x \/ ~Shown)
  BY DEF PictureInv
<1>2. /\ dot' = dot /\ scanline' = scanline /\ vram_addr' = vram_addr
      /\ bkg_internals' = bkg_internals /\ line_start' = line_start
  BY DEF ppu_vars
<1>3. PICK t0, t1, t2 : /\ t0 = Tile(0) /\ t1 = Tile(1) /\ t2 = Tile(2)
                        /\ t0 = Tile(0)' /\ t1 = Tile(1)' /\ t2 = Tile(2)'
  BY <1>2 DEF Tile
<1>4. ASSUME NEW k \in 1..7, dot' = CopyDot + 1 + k
      PROVE  PrefetchesFirst(k)'
  <2>1. PrefetchesFirst(k)
    BY <1>1, <1>2, <1>4 DEF PipelineInv
  <2> QED BY <1>2, <1>3, <2>1 DEF PrefetchesFirst, Fetches, UpperHalves, NextPalette
<1>5. ASSUME NEW k \in 0..7, dot' = CopyDot + 9 + k
      PROVE  PrefetchesSecond(k)'
  <2>1. PrefetchesSecond(k)
    BY <1>1, <1>2, <1>5 DEF PipelineInv
  <2> QED 
    BY <1>2, <1>3, <2>1
    DEF PrefetchesSecond, Fetches, UpperHalves, NextPalette, ShowsPalette, Registers
<1>6. ASSUME dot' = 0
      PROVE  LineBegins'
  <2>1. LineBegins
    BY <1>1, <1>2, <1>6 DEF PipelineInv
  <2> QED BY <1>2, <1>3, <2>1 DEF LineBegins, NextPalette, ShowsPalette, Registers
<1>7. ASSUME NEW j \in 0..TilesShown - 1, NEW k \in 0..7, Visible', IsDot(dot', j, k)
      PROVE  Shows(j, k)'
  <2>1. Visible /\ IsDot(dot, j, k)
    BY <1>2, <1>7 DEF Visible
  <2>2. Shown
    BY <2>1, DotOfTile DEF Shown
  <2>3. Shows(j, k) /\ fine_x' = fine_x
    BY <1>1, <2>1, <2>2 DEF PipelineInv
  <2>4. PICK a, b, c, f : /\ a = Tile(j) /\ b = Tile(j + 1) /\ c = Tile(j + 2) /\ f = fine_x
                          /\ a = Tile(j)' /\ b = Tile(j + 1)' /\ c = Tile(j + 2)' /\ f = fine_x'
    BY <1>2, <2>3 DEF Tile
  <2>5. ShowsTiles(k, a, b, c, f)
    BY <2>3, <2>4 DEF Shows
  <2>6. ShowsTiles(k, a, b, c, f)'
    BY <1>2, <2>5 DEF ShowsTiles, Fetches, NextPalette, ShowsPalette, Registers
  <2> QED BY <2>4, <2>6 DEF Shows
<1> QED BY <1>1, <1>4, <1>5, <1>6, <1>7

(* The pixel under the beam of a steady line, and its palette.              *)
BeamPixel == ((8 * line_start) + fine_x + dot - 1) % Width

LEMMA BeamTile ==
  ASSUME PictureTypeOK, NEW j \in 0..TilesShown - 1, NEW k \in 0..7, IsDot(dot, j, k),
         NEW f \in 0..7, f = fine_x
  PROVE  /\ k + f < 8 =>
              /\ BeamPixel = Pixels(Tile(j), f + k) /\ BeamPixel \div 8 = Tile(j)
         /\ k + f >= 8 =>
              /\ BeamPixel = Pixels(Tile(j + 1), f + k - 8) /\ BeamPixel \div 8 = Tile(j + 1)
<1>1. PICK s \in Nat, m \in Nat \ {0}, i \in Nat :
        s = line_start /\ m = Columns /\ i = j /\ Width = 8 * m
  BY Sizes DEF PictureTypeOK, Column, Width
<1>d. PICK d \in Nat : d = dot /\ d = (8 * i) + k + 1
  BY <1>1 DEF IsDot
<1>2. CASE k + f < 8
  <2>0. s + i \in Nat /\ k + f \in 0..7 /\ k + f = f + k
    BY <1>2
  <2>1. PICK a \in Nat, r \in 0..7 : a = s + i /\ r = k + f /\ r = f + k
    BY ONLY <2>0, Zenon
  <2>2. (8 * line_start) + fine_x + dot - 1 = (8 * a) + r
    <3>1. (8 * s) + f + d - 1 = (8 * a) + r
      BY <1>d, <2>1
    <3> QED BY <1>1, <1>d, <3>1
  <2>3. ((8 * a) + r) % (8 * m) = (8 * (a % m)) + r /\ ((8 * (a % m)) + r) \div 8 = a % m
    BY PixelRemainder
  <2>4. Tile(j) = a % m
    BY <1>1, <2>1 DEF Tile
  <2>5. BeamPixel = (8 * (a % m)) + r
    BY <1>1, <2>2, <2>3 DEF BeamPixel
  <2>6. ~(k + f >= 8)
    BY <1>2
  <2> QED BY <2>1, <2>3, <2>4, <2>5, <2>6 DEF Pixels
<1>3. CASE k + f >= 8
  <2>0. s + (i + 1) \in Nat /\ k + f - 8 \in 0..7 /\ k + f - 8 = f + k - 8
    BY <1>3
  <2>1. PICK a \in Nat, r \in 0..7 : a = s + (i + 1) /\ r = k + f - 8 /\ r = f + k - 8
    BY ONLY <2>0, Zenon
  <2>2. (8 * line_start) + fine_x + dot - 1 = (8 * a) + r
    <3>1. (8 * s) + f + d - 1 = (8 * a) + r
      BY <1>d, <2>1
    <3> QED BY <1>1, <1>d, <3>1
  <2>3. ((8 * a) + r) % (8 * m) = (8 * (a % m)) + r /\ ((8 * (a % m)) + r) \div 8 = a % m
    BY PixelRemainder
  <2>4. Tile(j + 1) = a % m
    BY <1>1, <2>1 DEF Tile
  <2>5. BeamPixel = (8 * (a % m)) + r
    BY <1>1, <2>2, <2>3 DEF BeamPixel
  <2>6. ~(k + f < 8)
    BY <1>3
  <2> QED BY <2>1, <2>3, <2>4, <2>5, <2>6 DEF Pixels
<1> QED BY <1>2, <1>3

LEMMA BeamShown ==
  ASSUME PictureInv, Shown, steady
  PROVE  /\ bkg_internals.pt_lo_shift_reg[fine_x] = BeamPixel
         /\ bkg_internals.pt_hi_shift_reg[fine_x] = BeamPixel
         /\ bkg_internals.at_shift_reg.bits > 0
         /\ bkg_internals.at_shift_reg.palette =
              PaletteOf((BeamPixel \div 8) \div 4, BeamPixel \div 8)
<1>1. PICK j \in 0..TilesShown - 1, k \in 0..7 : IsDot(dot, j, k)
  BY TileOfDot DEF Shown
<1>2. PICK f \in 0..7 : f = fine_x /\ f \in Bits
  BY DEF PictureInv, PictureTypeOK, Bits
<1>3. PICK p : p = BeamPixel
  OBVIOUS
<1>4. PICK t0, t1 : t0 = Tile(j) /\ t1 = Tile(j + 1)
  OBVIOUS
<1>5. /\ k + f < 8 => p = Pixels(t0, f + k) /\ p \div 8 = t0
      /\ k + f >= 8 => p = Pixels(t1, f + k - 8) /\ p \div 8 = t1
  BY <1>1, <1>2, <1>3, <1>4, BeamTile DEF PictureInv
<1>6. /\ Registers(k, t0, t1)
      /\ k + f < 8 => ShowsPalette(t0, 8 - k - f)
      /\ k + f >= 8 => ShowsPalette(t1, 16 - k - f)
  BY <1>1, <1>2, <1>4 DEF PictureInv, PipelineInv, Shown, Shows, ShowsTiles
<1>7. CASE k + f < 8
  <2>1. f + k < 8 /\ 8 - k - f \in Nat /\ 8 - k - f > 0
    BY <1>7
  <2>2. /\ bkg_internals.pt_lo_shift_reg[f] = Pixels(t0, f + k)
        /\ bkg_internals.pt_hi_shift_reg[f] = Pixels(t0, f + k)
    BY <1>2, <1>6, <2>1 DEF Registers, Holds
  <2>3. bkg_internals.at_shift_reg.palette = PaletteOf(t0 \div 4, t0)
        /\ bkg_internals.at_shift_reg.bits > 0
    BY <1>6, <1>7, <2>1 DEF ShowsPalette
  <2> QED BY <1>2, <1>3, <1>5, <1>7, <2>2, <2>3
<1>8. CASE k + f >= 8
  <2>1. f + k >= 8 /\ f + k < 16 /\ 16 - k - f \in Nat /\ 16 - k - f > 0
    BY <1>8
  <2>2. /\ bkg_internals.pt_lo_shift_reg[f] = Pixels(t1, f + k - 8)
        /\ bkg_internals.pt_hi_shift_reg[f] = Pixels(t1, f + k - 8)
    BY <1>2, <1>6, <2>1 DEF Registers, Holds
  <2>3. bkg_internals.at_shift_reg.palette = PaletteOf(t1 \div 4, t1)
        /\ bkg_internals.at_shift_reg.bits > 0
    BY <1>6, <1>8, <2>1 DEF ShowsPalette
  <2> QED BY <1>2, <1>3, <1>5, <1>8, <2>2, <2>3
<1> QED BY <1>7, <1>8

LEMMA PictureInvInitial ==
  ASSUME PictureInit
  PROVE  PictureInv
BY PictureTypeInitial DEF PictureInv, PipelineInv, PictureInit

LEMMA PictureInvClock ==
  ASSUME PictureInv, clock_ppu
  PROVE  PictureInv'
BY ClockTypes, PipelineStep DEF PictureInv

LEMMA PictureInvWrite ==
  ASSUME PictureInv, Write
  PROVE  PictureInv'
<1>1. PictureTypeOK'
  BY WriteTypes DEF PictureInv
<1>2. UNCHANGED <<ppu_vars, line_start>>
  BY DEF Write
<1>3. steady' => steady /\ ppu_mask'.bg /\ (fine_x' = fine_x \/ ~Shown)
  <2>1. steady => ppu_mask.bg
    BY DEF PictureInv, PipelineInv
  <2> QED BY <2>1 DEF Write, write_2005, write_2001
<1> QED BY <1>1, <1>2, <1>3, PipelineWrite DEF PictureInv

LEMMA PictureInvStutter ==
  ASSUME PictureInv, UNCHANGED <<ppu_vars, written_vars, line_start, steady>>
  PROVE  PictureInv'
<1>1. PictureTypeOK'
  BY DEF PictureInv, PictureTypeOK, ppu_vars, written_vars
<1>2. UNCHANGED <<ppu_vars, line_start>>
      /\ (steady' => steady /\ ppu_mask'.bg /\ (fine_x' = fine_x \/ ~Shown))
  BY DEF PictureInv, PipelineInv, written_vars
<1> QED BY <1>1, <1>2, PipelineWrite DEF PictureInv

(* The pixel under the beam is the one the scroll position says, on every   *)
(* line that nothing disturbed: what the fetches, the loads of the shift    *)
(* registers and the prefetch of the line before (ppu.c:1181) leave there   *)
(* is what get_bkg_pixel (ppu.c:639) shifts out.                            *)
THEOREM PixelsFollow == PictureSpec => []PixelsFollowScroll
<1>1. PictureInit => PictureInv
  BY PictureInvInitial
<1>2. PictureInv /\ [PictureNext]_picture_vars => PictureInv'
  BY PictureInvClock, PictureInvWrite, PictureInvStutter DEF PictureNext, picture_vars
<1>3. PictureInv => PixelsFollowScroll
  BY BeamShown DEF PixelsFollowScroll, BeamPixel
<1> QED BY <1>1, <1>2, <1>3, PTL DEF PictureSpec

-----------------------------------------------------------------------------
(* THE SPRITES                                                              *)

UnitState == [x_counter : Nat, row : SUBSET (0..7), front : BOOLEAN]

OutputTypeOK ==
  /\ oam \in [UnitNumbers -> Sprite]
  /\ units \in [UnitNumbers -> UnitState]
  /\ known \in BOOLEAN /\ evaluated \in BOOLEAN /\ calm \in BOOLEAN /\ overlapped \in BOOLEAN
  /\ sp_frame_hit_lookahead \in BOOLEAN /\ sprite_hit \in BOOLEAN /\ sprite_overflow \in BOOLEAN

(* What is true in a frame that nothing disturbs.                           *)
CalmInv ==
  calm =>
    /\ Rendering
    /\ dot # 0 => evaluated
    /\ Visible \/ dot > CopyDot + 1 => steady

(* A sprite that a unit has been shown d dots of.                           *)
ShiftedBy(unit, x, row, d) ==
  /\ d <= x => unit.x_counter = x - d /\ unit.row = row
  /\ d >= x => unit.x_counter = 0 /\ \A bit \in 0..7 : bit \in unit.row <=> bit + (d - x) \in row

RowOf(i, line) == oam[i].rows[line - oam[i].y]

UnitHolds(n, line, d) ==
  /\ \A i \in UnitNumbers : Fills(i, n, line) =>
       /\ ShiftedBy(units[n], oam[i].x, RowOf(i, line), d)
       /\ units[n].front = oam[i].front
  /\ (\A i \in UnitNumbers : ~Fills(i, n, line)) => units[n].row = {}

UnitsHold(line, d) == \A n \in UnitNumbers : UnitHolds(n, line, d)

UnitsInv ==
  calm =>
    /\ Visible /\ dot > CopyDot => known /\ UnitsHold(scanline, 0)
    /\ scanline \in 1..LastVisible /\ dot = 0 => known /\ UnitsHold(scanline - 1, 0)
    /\ scanline \in 1..LastVisible /\ dot \in 1..CopyDot =>
         known /\ UnitsHold(scanline - 1, dot - 1)

-----------------------------------------------------------------------------
(* THE HIT OF SPRITE 0                                                      *)

(* A target is a column of this line, which the beam has not left.          *)
TargetInv ==
  \/ hit_target = NoTarget
  \/ /\ scanline \in 1..LastVisible
     /\ \E c \in dot..LastDot : hit_target = [l_sl |-> scanline, l_cl |-> c]

(* Where on this line sprite 0 and the background will meet.                *)
PixelAt(c) == ((8 * line_start) + fine_x + c - 1) % Width

OverlapAt(c) ==
  /\ c < LastShown /\ ~(Clips /\ c <= 8)
  /\ (c - 1) - SpriteZero.x \in SpriteZero.rows[scanline - 1 - SpriteZero.y]
  /\ Opaque(PixelAt(c), PixelAt(c))

LookDot == 8 * (SpriteZero.x \div 8)

Looks == scanline \in 1..LastVisible /\ InRange(SpriteZero, scanline - 1)

(* Nothing has been met and nothing is foreseen.                            *)
Unmet ==
  /\ ~sp_frame_hit_lookahead /\ hit_target = NoTarget /\ ~sprite_hit /\ ~overlapped
  /\ Looks => \A c \in dot..LastDot : dot > LookDot => ~OverlapAt(c)

Foresees(c) ==
  /\ sp_frame_hit_lookahead /\ hit_target = [l_sl |-> scanline, l_cl |-> c]
  /\ ~sprite_hit /\ ~overlapped
  /\ Looks /\ dot > LookDot /\ OverlapAt(c)
  /\ \A other \in dot..LastDot : other < c => ~OverlapAt(other)

Met ==
  sp_frame_hit_lookahead /\ hit_target = NoTarget /\ sprite_hit /\ overlapped

HitInv ==
  /\ calm /\ scanline = PreRender /\ dot > 0 =>
       ~sp_frame_hit_lookahead /\ hit_target = NoTarget /\ ~sprite_hit /\ ~overlapped
  /\ calm /\ ~sprite_overflow /\ Foreseen /\ ~(scanline = PreRender /\ dot > 0) =>
       Unmet \/ Met \/ \E c \in dot..LastDot : Foresees(c)

OutputInv ==
  /\ PictureInv /\ OutputTypeOK /\ CalmInv
  /\ UnitsInv /\ FrontmostShown
  /\ TargetInv /\ HitInv

-----------------------------------------------------------------------------
(* The sprites of a line, in the order of OAM.                              *)

InRangeUpTo(i, line) == { j \in 1..i : InRange(oam[j], line) }

LEMMA PlaceCounts ==
  ASSUME NEW i \in Nat, NEW line
  PROVE  /\ IsFiniteSet(InRangeUpTo(i, line)) /\ Place(i, line) = Cardinality(InRangeUpTo(i, line))
         /\ Place(i, line) \in 0..i
<1>1. IsFiniteSet(1..i) /\ Cardinality(1..i) = i
  BY FS_Interval
<1>2. InRangeUpTo(i, line) \in SUBSET (1..i)
  BY DEF InRangeUpTo
<1>3. /\ IsFiniteSet(InRangeUpTo(i, line))
      /\ Cardinality(InRangeUpTo(i, line)) <= Cardinality(1..i)
  BY <1>1, <1>2, FS_Subset
<1>4. Cardinality(InRangeUpTo(i, line)) \in Nat
  BY <1>3, FS_CardinalityType
<1>5. Place(i, line) = Cardinality(InRangeUpTo(i, line))
  BY DEF Place, InRangeUpTo
<1> QED BY <1>1, <1>3, <1>4, <1>5

LEMMA Places ==
  ASSUME NEW line, NEW i \in UnitNumbers, InRange(oam[i], line)
  PROVE  /\ Place(i, line) \in UnitNumbers
         /\ \A j \in UnitNumbers : j < i => Place(j, line) < Place(i, line)
<1>1. Sprites \in Nat /\ i \in Nat /\ i >= 1 /\ i <= Sprites
  BY SpritesAssumption DEF UnitNumbers
<1>2. /\ IsFiniteSet(InRangeUpTo(i, line)) /\ Place(i, line) = Cardinality(InRangeUpTo(i, line))
      /\ Place(i, line) \in 0..i
  BY <1>1, PlaceCounts
<1>3. i \in InRangeUpTo(i, line)
  BY <1>1 DEF InRangeUpTo
<1>4. Place(i, line) # 0
  BY <1>2, <1>3, FS_EmptySet
<1>5. ASSUME NEW j \in UnitNumbers, j < i
      PROVE  Place(j, line) < Place(i, line)
  <2>1. j \in Nat
    BY DEF UnitNumbers
  <2>2. Place(j, line) = Cardinality(InRangeUpTo(j, line)) /\ Place(j, line) \in 0..j
    BY <2>1, PlaceCounts
  <2>3. /\ IsFiniteSet(InRangeUpTo(i, line) \ {i})
        /\ Cardinality(InRangeUpTo(i, line) \ {i}) = Cardinality(InRangeUpTo(i, line)) - 1
    BY <1>2, <1>3, FS_RemoveElement
  <2>4. InRangeUpTo(j, line) \in SUBSET (InRangeUpTo(i, line) \ {i})
    BY <1>1, <1>5, <2>1 DEF InRangeUpTo
  <2>5. Cardinality(InRangeUpTo(j, line)) <= Cardinality(InRangeUpTo(i, line) \ {i})
    BY <2>3, <2>4, FS_Subset
  <2> QED BY <1>1, <1>2, <2>1, <2>2, <2>3, <2>5
<1> QED BY <1>1, <1>2, <1>4, <1>5 DEF UnitNumbers

(* No two sprites fill the same unit.                                       *)
LEMMA FillsOnce ==
  ASSUME NEW line, NEW n, NEW i \in UnitNumbers, NEW j \in UnitNumbers,
         Fills(i, n, line), Fills(j, n, line)
  PROVE  i = j
<1>1. InRange(oam[i], line) /\ InRange(oam[j], line) /\ Place(i, line) = n /\ Place(j, line) = n
  BY DEF Fills
<1>2. i \in Nat /\ j \in Nat /\ n \in Nat
  BY <1>1, Places DEF UnitNumbers
<1>3. ~(j < i)
  <2>1. j < i => Place(j, line) < Place(i, line)
    BY <1>1, Places
  <2> QED BY <1>1, <1>2, <2>1
<1>4. ~(i < j)
  <2>1. i < j => Place(i, line) < Place(j, line)
    BY <1>1, Places
  <2> QED BY <1>1, <1>2, <2>1
<1> QED BY <1>2, <1>3, <1>4

(* A set of a few numbers has a smallest one.                               *)
LEMMA Smallest ==
  ASSUME NEW from \in Nat, NEW T, T \subseteq (from + 1)..(from + 8), T # {}
  PROVE  \E m \in T : \A other \in T : m <= other
<1>1. PICK B : B = [k \in 1..8 |-> from + k \in T]
  OBVIOUS
<1>2. B[1] \/ B[2] \/ B[3] \/ B[4] \/ B[5] \/ B[6] \/ B[7] \/ B[8]
  <2>1. PICK t \in T : t \in (from + 1)..(from + 8)
    OBVIOUS
  <2>2. t - from \in 1..8 /\ from + (t - from) = t
    BY <2>1
  <2>3. B[t - from]
    BY <1>1, <2>1, <2>2
  <2> QED BY <2>2, <2>3
<1>3. \E m \in 1..8 : B[m] /\ \A k \in 1..8 : k < m => ~B[k]
  BY ONLY <1>2
<1>4. PICK m \in 1..8 : B[m] /\ \A k \in 1..8 : k < m => ~B[k]
  BY <1>3
<1>5. ASSUME NEW other \in T
      PROVE  from + m <= other
  <2>1. other \in (from + 1)..(from + 8)
    OBVIOUS
  <2>2. PICK k \in 1..8 : other = from + k
    <3>1. other - from \in 1..8 /\ other = from + (other - from)
      BY <2>1
    <3> QED BY <3>1
  <2>3. B[k]
    BY <1>1, <2>2
  <2>4. ~(k < m)
    BY <1>4, <2>3
  <2> QED BY <2>2, <2>4
<1>6. from + m \in T
  BY <1>1, <1>4
<1> QED BY <1>5, <1>6

-----------------------------------------------------------------------------
(* The units, dot by dot.                                                   *)

LEMMA NextBitsMembers ==
  ASSUME NEW row \in SUBSET (0..7)
  PROVE  /\ NextBits(row) \in SUBSET (0..7)
         /\ \A bit \in 0..7 : bit \in NextBits(row) <=> bit + 1 \in row
<1>1. NextBits(row) \in SUBSET (0..7)
  <2>1. \A bit \in row \ {0} : bit - 1 \in 0..7
    OBVIOUS
  <2> QED BY <2>1 DEF NextBits
<1>2. ASSUME NEW bit \in 0..7, bit \in NextBits(row)
      PROVE  bit + 1 \in row
  <2>1. PICK above \in row \ {0} : bit = above - 1
    BY <1>2 DEF NextBits
  <2>2. above \in 0..7
    OBVIOUS
  <2>3. bit + 1 = above
    BY <2>1, <2>2
  <2> QED BY <2>1, <2>3
<1>3. ASSUME NEW bit \in 0..7, bit + 1 \in row
      PROVE  bit \in NextBits(row)
  <2>1. bit + 1 \in row \ {0} /\ bit = (bit + 1) - 1
    BY <1>3
  <2> QED BY <2>1 DEF NextBits
<1> QED BY <1>1, <1>2, <1>3

LEMMA ShiftedOnce ==
  ASSUME NEW unit \in UnitState, NEW x \in Nat, NEW row \in SUBSET (0..7), NEW d \in Nat,
         ShiftedBy(unit, x, row, d)
  PROVE  ShiftedBy(ShiftedOut(unit), x, row, d + 1)
<1>1. CASE d < x
  <2>1. /\ unit.x_counter = x - d /\ unit.row = row
        /\ unit.x_counter \in Nat \ {0}
    BY <1>1 DEF ShiftedBy
  <2>2. ShiftedOut(unit) = [unit EXCEPT !.x_counter = @ - 1]
    BY <2>1 DEF ShiftedOut
  <2>3. ShiftedOut(unit).x_counter = x - (d + 1) /\ ShiftedOut(unit).row = row
    <3>1. ShiftedOut(unit).x_counter = unit.x_counter - 1 /\ ShiftedOut(unit).row = unit.row
      BY <2>2 DEF UnitState
    <3>2. (x - d) - 1 = x - (d + 1)
      OBVIOUS
    <3> QED BY <2>1, <3>1, <3>2
  <2>4. d + 1 >= x => x - (d + 1) = 0 /\ \A bit \in 0..7 : bit + ((d + 1) - x) = bit
    BY <1>1
  <2> QED BY <2>3, <2>4 DEF ShiftedBy
<1>2. CASE d >= x
  <2>1. unit.x_counter = 0 /\ \A bit \in 0..7 : bit \in unit.row <=> bit + (d - x) \in row
    BY <1>2 DEF ShiftedBy
  <2>2. ShiftedOut(unit) = [unit EXCEPT !.row = NextBits(@)]
    BY <2>1 DEF ShiftedOut
  <2>3. ShiftedOut(unit).x_counter = 0 /\ ShiftedOut(unit).row = NextBits(unit.row)
    BY <2>1, <2>2 DEF UnitState
  <2>4. ASSUME NEW bit \in 0..7
        PROVE  bit \in NextBits(unit.row) <=> bit + ((d + 1) - x) \in row
    <3>1. bit \in NextBits(unit.row) <=> bit + 1 \in unit.row
      BY NextBitsMembers DEF UnitState
    <3>2. bit + ((d + 1) - x) = (bit + 1) + (d - x)
      OBVIOUS
    <3>3. CASE bit < 7
      <4>1. bit + 1 \in 0..7
        BY <3>3
      <4> QED BY <2>1, <3>1, <3>2, <4>1
    <3>4. CASE bit = 7
      <4>1. bit + 1 \notin 0..7 /\ (bit + 1) + (d - x) \notin 0..7
        BY <1>2, <3>4
      <4>2. unit.row \subseteq 0..7
        BY DEF UnitState
      <4> QED BY <3>1, <3>2, <4>1, <4>2
    <3> QED BY <3>3, <3>4
  <2>5. ~(d + 1 <= x)
    BY <1>2
  <2> QED BY <2>3, <2>4, <2>5 DEF ShiftedBy
<1> QED BY <1>1, <1>2

LEMMA ShiftedOutType ==
  ASSUME NEW unit \in UnitState
  PROVE  ShiftedOut(unit) \in UnitState /\ ShiftedOut(unit).front = unit.front
         /\ (unit.row = {} => ShiftedOut(unit).row = {})
<1>1. CASE unit.x_counter # 0
  <2>1. unit.x_counter - 1 \in Nat
    BY <1>1 DEF UnitState
  <2> QED BY <1>1, <2>1 DEF ShiftedOut, UnitState
<1>2. CASE unit.x_counter = 0
  <2>1. NextBits(unit.row) \in SUBSET (0..7)
    BY NextBitsMembers DEF UnitState
  <2>2. unit.row = {} => NextBits(unit.row) = {}
    BY DEF NextBits
  <2>3. ShiftedOut(unit) = [unit EXCEPT !.row = NextBits(@)]
    BY <1>2 DEF ShiftedOut
  <2> QED BY <2>1, <2>2, <2>3 DEF UnitState
<1> QED BY <1>1, <1>2

(* What the fetches of a line leave in the units.                           *)
LEMMA UnitTypes ==
  ASSUME oam \in [UnitNumbers -> Sprite], NEW line \in Nat, NEW i \in UnitNumbers,
         InRange(oam[i], line)
  PROVE  /\ oam[i].x \in 0..LastShown - 1 /\ oam[i].x \in Nat /\ oam[i].front \in BOOLEAN
         /\ RowOf(i, line) \in SUBSET (0..7)
         /\ Unit(oam[i], line) \in UnitState
         /\ Unit(oam[i], line).x_counter = oam[i].x /\ Unit(oam[i], line).row = RowOf(i, line)
         /\ Unit(oam[i], line).front = oam[i].front
<1>1. PICK s \in Sprite : s = oam[i]
  OBVIOUS
<1>2. s.x \in 0..LastShown - 1 /\ s.front \in BOOLEAN /\ s.rows \in Rows
  BY DEF Sprite
<1>3. s.x \in Nat
  BY <1>2, Sizes
<1>4. s.rows[line - s.y] \in SUBSET (0..7)
  BY <1>1, <1>2 DEF Rows, InRange
<1>5. Unit(s, line) \in UnitState
  BY <1>2, <1>3, <1>4 DEF Unit, UnitState
<1> QED BY <1>1, <1>2, <1>3, <1>4, <1>5 DEF Unit, RowOf

LEMMA LoadedUnits ==
  ASSUME oam \in [UnitNumbers -> Sprite], scanline \in Nat
  PROVE  /\ Loaded \in [UnitNumbers -> UnitState]
         /\ \A n \in UnitNumbers :
              /\ \A i \in UnitNumbers : Fills(i, n, scanline) => Loaded[n] = Unit(oam[i], scanline)
              /\ (\A i \in UnitNumbers : ~Fills(i, n, scanline)) => Loaded[n] = Missing
<1>1. Missing \in UnitState
  BY Sizes DEF Missing, UnitState
<1>2. ASSUME NEW n \in UnitNumbers, NEW i \in UnitNumbers, Fills(i, n, scanline)
      PROVE  Loaded[n] = Unit(oam[i], scanline) /\ Loaded[n] \in UnitState
  <2>1. PICK c : c = CHOOSE e \in UnitNumbers : Fills(e, n, scanline)
    OBVIOUS
  <2>2. c \in UnitNumbers /\ Fills(c, n, scanline)
    BY <1>2, <2>1
  <2>3. c = i
    BY <1>2, <2>2, FillsOnce
  <2>4. Loaded[n] = Unit(oam[c], scanline)
    BY <1>2, <2>1 DEF Loaded
  <2>5. InRange(oam[i], scanline)
    BY <1>2 DEF Fills
  <2> QED BY <2>3, <2>4, <2>5, UnitTypes
<1>3. ASSUME NEW n \in UnitNumbers, \A i \in UnitNumbers : ~Fills(i, n, scanline)
      PROVE  Loaded[n] = Missing
  BY <1>3 DEF Loaded
<1>4. \A n \in UnitNumbers : Loaded[n] \in UnitState
  BY <1>1, <1>2, <1>3
<1>5. Loaded \in [UnitNumbers -> UnitState]
  BY <1>4 DEF Loaded
<1> QED BY <1>2, <1>3, <1>5

-----------------------------------------------------------------------------
(* The pixel of a dot.                                                      *)

(* The sprites that have an opaque pixel where d dots have been shown.      *)
SpritesAt(line, d) ==
  { i \in UnitNumbers : InRange(oam[i], line) /\ d - oam[i].x \in RowOf(i, line) }

LEMMA ActiveUnits ==
  ASSUME OutputTypeOK, NEW line \in Nat, NEW d \in Nat, UnitsHold(line, d)
  PROVE  /\ \A i \in UnitNumbers : InRange(oam[i], line) =>
              /\ Place(i, line) \in Active <=> i \in SpritesAt(line, d)
              /\ units[Place(i, line)].front = oam[i].front
         /\ \A n \in Active : \E i \in SpritesAt(line, d) : Place(i, line) = n
<1>1. ASSUME NEW i \in UnitNumbers, InRange(oam[i], line)
      PROVE  /\ Place(i, line) \in Active <=> i \in SpritesAt(line, d)
             /\ units[Place(i, line)].front = oam[i].front
  <2>1. PICK n \in UnitNumbers : n = Place(i, line)
    BY <1>1, Places
  <2>2. Fills(i, n, line)
    BY <1>1, <2>1 DEF Fills
  <2>3. /\ ShiftedBy(units[n], oam[i].x, RowOf(i, line), d)
        /\ units[n].front = oam[i].front
    BY <2>2 DEF UnitsHold, UnitHolds
  <2>4. PICK x \in Nat, row \in SUBSET (0..7) : x = oam[i].x /\ row = RowOf(i, line)
    BY <1>1, UnitTypes DEF OutputTypeOK
  <2>5. PICK counter, bits : counter = units[n].x_counter /\ bits = units[n].row
    OBVIOUS
  <2>6. (counter = 0 /\ 0 \in bits) <=> d - x \in row
    <3>1. CASE d < x
      <4>1. counter = x - d
        BY <2>3, <2>4, <2>5, <3>1 DEF ShiftedBy
      <4>2. counter # 0 /\ d - x \notin 0..7
        BY <3>1, <4>1
      <4> QED BY <4>2
    <3>2. CASE d >= x
      <4>1. counter = 0 /\ (0 \in bits <=> 0 + (d - x) \in row)
        BY <2>3, <2>4, <2>5, <3>2 DEF ShiftedBy
      <4>2. 0 + (d - x) = d - x
        OBVIOUS
      <4> QED BY <4>1, <4>2
    <3> QED BY <3>1, <3>2
  <2>7. n \in Active <=> d - x \in row
    BY <2>5, <2>6 DEF Active
  <2>8. i \in SpritesAt(line, d) <=> d - x \in row
    BY <1>1, <2>4 DEF SpritesAt
  <2> QED BY <2>1, <2>3, <2>7, <2>8
<1>2. ASSUME NEW n \in Active
      PROVE  \E i \in SpritesAt(line, d) : Place(i, line) = n
  <2>1. n \in UnitNumbers /\ 0 \in units[n].row
    BY DEF Active
  <2>2. \E i \in UnitNumbers : Fills(i, n, line)
    BY <2>1 DEF UnitsHold, UnitHolds
  <2>3. PICK i \in UnitNumbers : Fills(i, n, line)
    BY <2>2
  <2> QED BY <1>1, <2>3 DEF Fills
<1> QED BY <1>1, <1>2

LEMMA FirstActive ==
  ASSUME OutputTypeOK, NEW line \in Nat, NEW d \in Nat, UnitsHold(line, d),
         NEW i \in SpritesAt(line, d), \A other \in SpritesAt(line, d) : i <= other
  PROVE  Active # {} /\ get_sprite_pixel = Place(i, line)
<1>1. i \in UnitNumbers /\ InRange(oam[i], line)
  BY DEF SpritesAt
<1>2. Place(i, line) \in Active /\ Place(i, line) \in Nat
  BY <1>1, ActiveUnits, Places DEF UnitNumbers
<1>3. ASSUME NEW n \in Active
      PROVE  n \in Nat /\ Place(i, line) <= n
  <2>1. PICK other \in SpritesAt(line, d) : Place(other, line) = n
    BY ActiveUnits
  <2>2. other \in UnitNumbers /\ InRange(oam[other], line) /\ i <= other
    BY DEF SpritesAt
  <2>3. n \in Nat
    BY <2>1, <2>2, Places DEF UnitNumbers
  <2>4. CASE i = other
    BY <1>2, <2>1, <2>4
  <2>5. CASE i # other
    <3>1. i < other
      BY <1>1, <2>2, <2>5 DEF UnitNumbers
    <3>2. Place(i, line) < Place(other, line)
      BY <1>1, <2>2, <3>1, Places
    <3> QED BY <1>2, <2>1, <2>3, <3>2
  <2> QED BY <2>3, <2>4, <2>5
<1>4. PICK first : first = CHOOSE n \in Active : \A other \in Active : n <= other
  OBVIOUS
<1>5. first \in Active /\ \A other \in Active : first <= other
  BY <1>2, <1>3, <1>4
<1>6. first = Place(i, line)
  BY <1>2, <1>3, <1>5
<1> QED BY <1>2, <1>4, <1>6 DEF get_sprite_pixel

LEMMA FirstSprite ==
  ASSUME NEW line, NEW d, SpritesAt(line, d) # {}
  PROVE  \E i \in SpritesAt(line, d) : \A other \in SpritesAt(line, d) : i <= other
<1>1. Sprites \in 1..8
  BY SpritesAssumption
<1>2. SpritesAt(line, d) \subseteq (0 + 1)..(0 + 8)
  BY <1>1 DEF SpritesAt, UnitNumbers
<1> QED BY <1>2, Smallest

FrontmostAt(drawn, pixel, line) ==
  LET background == Opaque(pixel, pixel) /\ (ppu_mask.left \/ drawn > 8)
      sprites == IF ppu_mask.sprite_left \/ drawn > 8 THEN SpritesAt(line, drawn - 1) ELSE {}
      InFront(i) == (background => oam[i].front) /\ \A other \in sprites : i <= other
  IN /\ \A i \in sprites : InFront(i) => current_pixel = SpritePixel(Place(i, line))
     /\ (\A i \in sprites : ~InFront(i)) =>
          current_pixel = IF background THEN BackgroundPixel ELSE Backdrop

LEMMA FrontmostMeans ==
  FrontmostShown <=>
    (calm /\ steady /\ scanline \in 1..LastVisible /\ dot - 1 \in 1..LastShown
          /\ (Clips => dot - 1 # 8) =>
       FrontmostAt(dot - 1, ((8 * line_start) + fine_x + (dot - 1) - 1) % Width, scanline - 1))
BY Zenon DEF FrontmostShown, FrontmostAt, SpritesAt, RowOf

(* What is put out where the background and the sprites are known.          *)
LEMMA PixelDrawn ==
  ASSUME PictureInv, OutputTypeOK, Rendering, steady, Shown, known, PutOut, Clips => dot # 8,
         NEW d \in 1..LastShown, d = dot, NEW line \in Nat, UnitsHold(line, d - 1),
         NEW pixel, pixel = BeamPixel,
         NEW sprites,
         sprites = IF ppu_mask.sprite_left \/ d > 8 THEN SpritesAt(line, d - 1) ELSE {},
         NEW background \in BOOLEAN,
         background <=> Opaque(pixel, pixel) /\ (ppu_mask.left \/ d > 8)
  PROVE  /\ \A i \in sprites :
              (background => oam[i].front) /\ (\A other \in sprites : i <= other) =>
                current_pixel' = SpritePixel(Place(i, line))
         /\ (\A i \in sprites :
               ~((background => oam[i].front) /\ \A other \in sprites : i <= other)) =>
              current_pixel' = IF background THEN BackgroundPixel ELSE Backdrop
<1>1. /\ ppu_mask.bg = TRUE /\ ppu_mask.sprite = TRUE /\ ppu_mask.left \in BOOLEAN
      /\ ppu_mask.sprite_left \in BOOLEAN /\ d \in Nat /\ d - 1 \in Nat
  BY Sizes DEF Rendering, PictureInv, PictureTypeOK
<1>2. BackgroundOpaque <=> Opaque(pixel, pixel)
  BY BeamShown DEF BackgroundOpaque
<1>3. d # 8 \/ (ppu_mask.left /\ ppu_mask.sprite_left)
  BY <1>1 DEF Clips
<1>4. ShowsBackdrop <=> ~(ppu_mask.left \/ d > 8)
  BY <1>1, <1>3 DEF ShowsBackdrop
<1>5. SpriteHidden <=> ~(ppu_mask.sprite_left \/ d > 8)
  BY <1>1, <1>3 DEF SpriteHidden
<1>6. NoSprite = IF background THEN BackgroundPixel ELSE Backdrop
  BY <1>2, <1>4 DEF NoSprite
<1>7. BackgroundPixel # Backdrop
  BY DEF BackgroundPixel, Backdrop
<1>8. CASE SpriteHidden
  <2>1. sprites = {}
    BY <1>5, <1>8
  <2>2. current_pixel' = NoSprite
    BY <1>8, Zenon DEF PutOut
  <2> QED BY <1>6, <2>1, <2>2
<1>9. CASE ~SpriteHidden
  <2>1. sprites = SpritesAt(line, d - 1)
    BY <1>5, <1>9
  <2>2. current_pixel' = IF Active = {} THEN NoSprite ELSE get_pixel(get_sprite_pixel)
    BY <1>9, Zenon DEF PutOut
  <2>3. CASE sprites = {}
    <3>1. Active = {}
      BY <1>1, <2>1, <2>3, ActiveUnits
    <3> QED BY <1>6, <2>2, <2>3, <3>1
  <2>4. CASE sprites # {}
    <3>1. PICK first \in sprites : \A other \in sprites : first <= other
      BY <2>1, <2>4, FirstSprite
    <3>2. first \in UnitNumbers /\ InRange(oam[first], line)
      BY <2>1 DEF SpritesAt
    <3>3. Active # {} /\ get_sprite_pixel = Place(first, line)
      BY <1>1, <2>1, <3>1, FirstActive
    <3>4. units[Place(first, line)].front = oam[first].front
      BY <1>1, <3>2, ActiveUnits
    <3>5. current_pixel' = IF oam[first].front \/ NoSprite = Backdrop
                           THEN SpritePixel(Place(first, line)) ELSE NoSprite
      BY <2>2, <3>3, <3>4 DEF get_pixel
    <3>6. ASSUME NEW i \in sprites, \A other \in sprites : i <= other
          PROVE  i = first
      <4>1. i \in Nat /\ first \in Nat
        BY <2>1 DEF SpritesAt, UnitNumbers
      <4> QED BY <3>1, <3>6, <4>1
    <3>7. (background => oam[first].front) => current_pixel' = SpritePixel(Place(first, line))
      BY <1>6, <3>5
    <3>8. ~(background => oam[first].front) => current_pixel' = BackgroundPixel
      BY <1>6, <1>7, <3>5
    <3>9. ASSUME NEW i \in sprites, background => oam[i].front, \A other \in sprites : i <= other
          PROVE  current_pixel' = SpritePixel(Place(i, line))
      BY <3>6, <3>7, <3>9
    <3>10. ASSUME \A i \in sprites : ~((background => oam[i].front)
                                       /\ \A other \in sprites : i <= other)
           PROVE  current_pixel' = IF background THEN BackgroundPixel ELSE Backdrop
      <4>1. ~(background => oam[first].front)
        BY <3>1, <3>10
      <4> QED BY <3>8, <4>1
    <3> QED BY <3>9, <3>10
  <2> QED BY <2>3, <2>4
<1> QED BY <1>8, <1>9

LEMMA FrontmostClock ==
  ASSUME PictureInv, OutputTypeOK, CalmInv, UnitsInv, ClockPixel
  PROVE  FrontmostShown'
<1> SUFFICES ASSUME calm', steady', scanline' \in 1..LastVisible, dot' - 1 \in 1..LastShown,
                    (Clips => dot - 1 # 8)'
             PROVE  FrontmostAt(dot - 1, ((8 * line_start) + fine_x + (dot - 1) - 1) % Width,
                                scanline - 1)'
  <2>1. (FrontmostShown <=>
           (calm /\ steady /\ scanline \in 1..LastVisible /\ dot - 1 \in 1..LastShown
                 /\ (Clips => dot - 1 # 8) =>
              FrontmostAt(dot - 1, ((8 * line_start) + fine_x + (dot - 1) - 1) % Width,
                          scanline - 1)))'
    BY FrontmostMeans, PTL
  <2> QED BY <2>1
<1>1. PictureTypeOK /\ clock_ppu
  BY DEF PictureInv, ClockPixel
<1>0. PICK e \in Nat : e = dot'
  <2>1. dot' \in 0..LastDot
    BY <1>1, ClockTypes DEF PictureTypeOK
  <2>2. PICK last \in Nat : last = LastDot
    BY Sizes
  <2> QED BY <2>1, <2>2
<1>2. PICK d \in 1..LastShown : d = dot' - 1 /\ d = e - 1
  <2>1. dot' - 1 = e - 1
    BY <1>0, Zenon
  <2> QED BY <2>1, Zenon
<1>3. d = dot /\ scanline' = scanline /\ Shown
  <2>1. PICK w \in Nat : w = LastShown
    BY Sizes
  <2>a. d = e - 1
    BY <1>2
  <2>b. d \in 1..w
    BY <2>1
  <2>c. e >= 1
    BY ONLY <2>a, <2>b
  <2>2. e = dot' /\ e >= 1
    BY <1>0, <2>c
  <2>3. dot = e - 1 /\ scanline' = scanline
    BY <1>1, <2>2, NextDots
  <2>4. Visible
    BY <2>3, Sizes DEF Visible
  <2> QED BY <1>2, <2>3, <2>4 DEF Shown
<1>4. d \in Nat /\ d # CopyDot + 1 /\ d <= LastShown /\ d >= 1 /\ d \in 1..CopyDot
  BY Sizes
<1>5. PICK line \in Nat : line = scanline - 1 /\ line = scanline' - 1 /\ scanline \in 1..LastVisible
  BY <1>3, Sizes
<1>6. calm /\ steady /\ line_start' = line_start
  <2>1. ~FrameStarts
    BY <1>3, <1>4 DEF FrameStarts
  <2>2. calm
    BY <2>1 DEF ClockPixel, See
  <2>3. dot # CopyDot + 1
    BY <1>3, <1>4
  <2>4. steady
    BY <1>1, <2>3 DEF clock_ppu, Remember
  <2>5. line_start' = line_start
    BY <1>1, <2>3, <2>4, Zenon DEF clock_ppu, Remember
  <2> QED BY <2>2, <2>4, <2>5
<1>7. oam' = oam /\ pattern' = pattern /\ ppu_mask' = ppu_mask /\ fine_x' = fine_x
  BY <1>1 DEF ClockPixel, clock_ppu, memory_vars, written_vars
<1>8. Rendering /\ known /\ UnitsHold(line, d - 1)
  BY <1>3, <1>4, <1>5, <1>6 DEF CalmInv, UnitsInv
<1>9. PICK pixel : pixel = BeamPixel
  OBVIOUS
<1>10. pixel = (((8 * line_start) + fine_x + (dot - 1) - 1) % Width)'
  <2>1. pixel = ((8 * line_start) + fine_x + d - 1) % Width
    BY <1>3, <1>9 DEF BeamPixel
  <2> QED BY <1>2, <1>6, <1>7, <2>1 DEF Width
<1>a. PICK sprites :
        sprites = IF ppu_mask.sprite_left \/ d > 8 THEN SpritesAt(line, d - 1) ELSE {}
  OBVIOUS
<1>b. \E background \in BOOLEAN :
        background <=> Opaque(pixel, pixel) /\ (ppu_mask.left \/ d > 8)
  <2>1. CASE Opaque(pixel, pixel) /\ (ppu_mask.left \/ d > 8)
    <3> WITNESS TRUE \in BOOLEAN
    <3> QED BY <2>1
  <2>2. CASE ~(Opaque(pixel, pixel) /\ (ppu_mask.left \/ d > 8))
    <3> WITNESS FALSE \in BOOLEAN
    <3> QED BY <2>2
  <2> QED BY <2>1, <2>2
<1>c. PICK background \in BOOLEAN :
        background <=> Opaque(pixel, pixel) /\ (ppu_mask.left \/ d > 8)
  BY <1>b
<1>11. /\ sprites = IF ppu_mask.sprite_left \/ d > 8 THEN SpritesAt(line, d - 1) ELSE {}
       /\ background <=> Opaque(pixel, pixel) /\ (ppu_mask.left \/ d > 8)
  BY <1>a, <1>c
<1>12. Clips => dot # 8
  BY <1>2, <1>3, <1>7 DEF Clips
<1>13. /\ \A i \in sprites :
            (background => oam[i].front) /\ (\A other \in sprites : i <= other) =>
              current_pixel' = SpritePixel(Place(i, line))
       /\ (\A i \in sprites :
             ~((background => oam[i].front) /\ \A other \in sprites : i <= other)) =>
            current_pixel' = IF background THEN BackgroundPixel ELSE Backdrop
  BY <1>3, <1>6, <1>8, <1>9, <1>11, <1>12, PixelDrawn DEF ClockPixel
<1>14. FrontmostAt(d, pixel, line)'
  BY <1>7, <1>11, <1>13 DEF FrontmostAt, Opaque, SpritesAt, RowOf, Place
<1> QED BY <1>2, <1>5, <1>10, <1>14

-----------------------------------------------------------------------------
(* A calm frame, and its units.                                             *)

(* What the look-ahead of a dot does.                                       *)
Armed == sp_frame_hit_lookahead /\ ~(scanline = PreRender /\ ppu_mask.sprite)
Here == [l_sl |-> scanline, l_cl |-> dot]

LEMMA LookaheadParts ==
  ASSUME sprite_hit_lookahead
  PROVE  LET looked == Lookahead(Armed) IN
         /\ sp_frame_hit_lookahead' = looked.armed
         /\ hit_target' = IF looked.target = Here THEN NoTarget ELSE looked.target
         /\ sprite_hit' = (looked.target = Here \/ (sprite_hit /\ ~FrameStarts))
BY DEF sprite_hit_lookahead, Armed, Here

FirstHit == CHOOSE c \in HitColumns : \A other \in HitColumns : c <= other

LEMMA LookaheadCases ==
  ASSUME NEW looked, looked = Lookahead(Armed)
  PROVE  /\ ~LooksAhead => looked.target = hit_target /\ looked.armed = Armed
         /\ LooksAhead /\ ~Armed /\ HitColumns # {} =>
              looked.target = [l_sl |-> scanline, l_cl |-> FirstHit] /\ looked.armed = TRUE
         /\ LooksAhead /\ (Armed \/ HitColumns = {}) =>
              looked.target = NoTarget /\ looked.armed = Armed
<1>1. PICK a, t, yes : a = Armed /\ t = hit_target /\ yes = TRUE
  OBVIOUS
<1>2. PICK none, hit : none = NoTarget /\ hit = [l_sl |-> scanline, l_cl |-> FirstHit]
  OBVIOUS
<1>3. CASE ~LooksAhead
  <2>1. looked = [target |-> t, armed |-> a]
    BY <1>1, <1>3, Zenon DEF Lookahead
  <2>2. looked.target = t /\ looked.armed = a
    BY ONLY <2>1
  <2> QED BY <1>1, <1>3, <2>2
<1>4. CASE LooksAhead /\ ~Armed /\ HitColumns # {}
  <2>1. looked = [target |-> hit, armed |-> yes]
    BY <1>1, <1>2, <1>4, Zenon DEF Lookahead, FirstHit
  <2>2. looked.target = hit /\ looked.armed = yes
    BY ONLY <2>1
  <2> QED BY <1>1, <1>2, <1>4, <2>2
<1>5. CASE LooksAhead /\ (Armed \/ HitColumns = {})
  <2>1. looked = [target |-> none, armed |-> a]
    BY <1>1, <1>2, <1>5, Zenon DEF Lookahead
  <2>2. looked.target = none /\ looked.armed = a
    BY ONLY <2>1
  <2> QED BY <1>1, <1>2, <1>5, <2>2
<1> QED BY <1>3, <1>4, <1>5

LEMMA UnitsClock ==
  ASSUME PictureTypeOK, OutputTypeOK, Units
  PROVE  units' \in [UnitNumbers -> UnitState] /\ known' \in BOOLEAN
<1>0. scanline \in Nat
  BY Sizes DEF PictureTypeOK
<1>1. CASE Shown
  <2>1. units' = [n \in UnitNumbers |-> ShiftedOut(units[n])] /\ known' = known
    <3>1. ~(dot = CopyDot /\ Visible /\ ppu_mask.sprite)
      BY <1>1, Sizes DEF Shown
    <3> QED BY <1>1, <3>1, Zenon DEF Units
  <2> QED BY <2>1, ShiftedOutType DEF OutputTypeOK
<1>2. CASE ~Shown /\ dot = CopyDot /\ Visible /\ ppu_mask.sprite
  <2>1. fetch_sprites
    BY <1>2, Zenon DEF Units
  <2>2. Loaded \in [UnitNumbers -> UnitState]
    BY <1>0, LoadedUnits DEF OutputTypeOK
  <2>3. Missing \in UnitState
    BY Sizes DEF Missing, UnitState
  <2>4. Nothing \in [UnitNumbers -> UnitState]
    BY <2>3 DEF Nothing
  <2> QED BY <2>1, <2>2, <2>4 DEF fetch_sprites, OutputTypeOK
<1>3. CASE ~Shown /\ ~(dot = CopyDot /\ Visible /\ ppu_mask.sprite)
  BY <1>3, Zenon DEF Units, OutputTypeOK
<1> QED BY <1>1, <1>2, <1>3

LEMMA OutputTypesClock ==
  ASSUME PictureInv, OutputTypeOK, ClockPixel
  PROVE  OutputTypeOK'
<1>1. oam' \in [UnitNumbers -> Sprite]
  BY DEF ClockPixel, memory_vars, OutputTypeOK
<1>2. units' \in [UnitNumbers -> UnitState] /\ known' \in BOOLEAN
  BY UnitsClock DEF ClockPixel, PictureInv
<1>3. sprite_overflow' \in BOOLEAN
  BY DEF ClockPixel, SpriteOverflow, OutputTypeOK
<1>4. evaluated' \in BOOLEAN /\ calm' \in BOOLEAN /\ overlapped' \in BOOLEAN
  <2>1. ppu_mask.sprite \in BOOLEAN /\ Rendering \in BOOLEAN
    BY DEF PictureInv, PictureTypeOK, Rendering
  <2> QED BY <2>1 DEF ClockPixel, See, OutputTypeOK
<1>5. sp_frame_hit_lookahead' \in BOOLEAN /\ sprite_hit' \in BOOLEAN
  <2>1. PICK looked : looked = Lookahead(Armed)
    OBVIOUS
  <2>2. /\ sp_frame_hit_lookahead' = looked.armed
        /\ sprite_hit' = (looked.target = Here \/ (sprite_hit /\ ~FrameStarts))
    BY <2>1, LookaheadParts DEF ClockPixel
  <2>3. looked.armed \in BOOLEAN
    <3>1. Armed \in BOOLEAN
      BY DEF Armed
    <3>2. looked.armed \in {Armed, TRUE}
      <4>1. CASE ~LooksAhead
        BY <2>1, <4>1, LookaheadCases
      <4>2. CASE LooksAhead /\ ~Armed /\ HitColumns # {}
        BY <2>1, <4>2, LookaheadCases
      <4>3. CASE LooksAhead /\ (Armed \/ HitColumns = {})
        BY <2>1, <4>3, LookaheadCases
      <4> QED BY <4>1, <4>2, <4>3
    <3> QED BY <3>1, <3>2
  <2> QED BY <2>2, <2>3
<1> QED BY <1>1, <1>2, <1>3, <1>4, <1>5 DEF OutputTypeOK

LEMMA CalmClock ==
  ASSUME PictureInv, CalmInv, ClockPixel
  PROVE  CalmInv'
<1> SUFFICES ASSUME calm'
             PROVE  /\ Rendering' /\ (dot' # 0 => evaluated')
                    /\ Visible' \/ dot' > CopyDot + 1 => steady'
  BY DEF CalmInv
<1>1. PictureTypeOK /\ clock_ppu /\ See
  BY DEF PictureInv, ClockPixel
<1>2. Rendering /\ (~FrameStarts => calm)
  <2>1. CASE FrameStarts
    BY <1>1, <2>1 DEF See
  <2>2. CASE ~FrameStarts
    BY <1>1, <2>2 DEF See, CalmInv
  <2> QED BY <2>1, <2>2
<1>3. Rendering' /\ ppu_mask.bg /\ ppu_mask.sprite
  BY <1>1, <1>2 DEF Rendering, clock_ppu, written_vars
<1>4. dot' # 0 => evaluated'
  BY <1>1, <1>2, <1>3 DEF See, CalmInv, FrameStarts
<1>5. ASSUME Visible' \/ dot' > CopyDot + 1
      PROVE  steady'
  <2>1. steady' <=> steady \/ dot = CopyDot + 1
    BY <1>1, <1>3 DEF clock_ppu, Remember
  <2>2. PICK d \in Nat, w \in Nat : d = dot /\ w = CopyDot /\ w >= 1
    BY <1>1, Sizes DEF PictureTypeOK
  <2>3. CASE LineEnds
    <3>1. d = w + 16
      BY <2>2, <2>3 DEF LineEnds, LastDot
    <3>2. dot > CopyDot + 1 /\ ~FrameStarts
      BY <2>2, <3>1 DEF FrameStarts
    <3> QED BY <1>2, <2>1, <3>2 DEF CalmInv
  <2>4. CASE ~LineEnds
    <3>1. PICK e \in Nat : e = d + 1 /\ dot' = e /\ scanline' = scanline
      BY <1>1, <2>2, <2>4 DEF clock_ppu, NextDot
    <3>2. CASE Visible'
      <4>1. Visible
        BY <3>1, <3>2, Zenon DEF Visible
      <4>2. ~FrameStarts
        BY <4>1, <1>1, Sizes DEF Visible, FrameStarts, PictureTypeOK
      <4> QED BY <1>2, <2>1, <4>1, <4>2 DEF CalmInv
    <3>3. CASE dot' > CopyDot + 1
      <4>1. e > w + 1
        BY <2>2, <3>1, <3>3, Zenon
      <4>2. CASE d = w + 1
        BY <2>1, <2>2, <4>2
      <4>3. CASE d > w + 1
        BY <1>2, <2>1, <2>2, <4>3 DEF CalmInv, FrameStarts
      <4> QED BY <3>1, <4>1, <4>2, <4>3
    <3> QED BY <1>5, <3>2, <3>3
  <2> QED BY <2>3, <2>4
<1> QED BY <1>3, <1>4, <1>5

LEMMA UnitsKept ==
  ASSUME oam' = oam, units' = units, NEW line, NEW d, UnitsHold(line, d)
  PROVE  UnitsHold(line, d)'
BY DEF UnitsHold, UnitHolds, Fills, Place, RowOf

LEMMA UnitsFetched ==
  ASSUME OutputTypeOK, scanline \in Nat, fetch_sprites, evaluated, oam' = oam,
         NEW line, line = scanline
  PROVE  known' /\ UnitsHold(line, 0)'
<1>1. units' = Loaded /\ known'
  BY DEF fetch_sprites
<1>2. ASSUME NEW n \in UnitNumbers, NEW i \in UnitNumbers, Fills(i, n, line)
      PROVE  /\ ShiftedBy(units'[n], oam[i].x, RowOf(i, line), 0)
             /\ units'[n].front = oam[i].front
  <2>1. units'[n] = Unit(oam[i], line)
    BY <1>1, <1>2, LoadedUnits DEF OutputTypeOK
  <2>2. InRange(oam[i], line)
    BY <1>2 DEF Fills
  <2>3. /\ oam[i].x \in Nat /\ RowOf(i, line) \in SUBSET (0..7)
        /\ units'[n].x_counter = oam[i].x /\ units'[n].row = RowOf(i, line)
        /\ units'[n].front = oam[i].front
    <3>1. PICK unit : unit = Unit(oam[i], line)
      OBVIOUS
    <3>2. unit.x_counter = oam[i].x /\ unit.row = RowOf(i, line) /\ unit.front = oam[i].front
      BY <3>1 DEF Unit, RowOf
    <3>3. oam[i].x \in Nat /\ RowOf(i, line) \in SUBSET (0..7)
      BY <2>2, UnitTypes DEF OutputTypeOK
    <3> QED BY <2>1, <3>1, <3>2, <3>3
  <2>5. PICK x \in Nat, row \in SUBSET (0..7) : x = oam[i].x /\ row = RowOf(i, line)
    BY <2>3
  <2>6. PICK unit : unit = units'[n]
    OBVIOUS
  <2>4. ShiftedBy(unit, x, row, 0)
    <3>1. x - 0 = x /\ (0 >= x => x = 0 /\ \A bit \in 0..7 : bit + (0 - x) = bit)
      OBVIOUS
    <3> QED BY <2>3, <2>5, <2>6, <3>1 DEF ShiftedBy
  <2> QED BY <2>3, <2>4, <2>5, <2>6
<1>3. ASSUME NEW n \in UnitNumbers, \A i \in UnitNumbers : ~Fills(i, n, line)
      PROVE  units'[n].row = {}
  <2>1. units'[n] = Missing
    BY <1>1, <1>3, LoadedUnits DEF OutputTypeOK
  <2> QED BY <2>1 DEF Missing
<1> QED BY <1>1, <1>2, <1>3 DEF UnitsHold, UnitHolds, Fills, Place, RowOf

LEMMA UnitsShifted ==
  ASSUME OutputTypeOK, oam' = oam, units' = [n \in UnitNumbers |-> ShiftedOut(units[n])],
         NEW line \in Nat, NEW d \in Nat, UnitsHold(line, d)
  PROVE  UnitsHold(line, d + 1)'
<1>1. ASSUME NEW n \in UnitNumbers, NEW i \in UnitNumbers, Fills(i, n, line)
      PROVE  /\ ShiftedBy(units'[n], oam[i].x, RowOf(i, line), d + 1)
             /\ units'[n].front = oam[i].front
  <2>1. units[n] \in UnitState
    BY DEF OutputTypeOK
  <2>2. InRange(oam[i], line)
    BY <1>1 DEF Fills
  <2>3. oam[i].x \in Nat /\ RowOf(i, line) \in SUBSET (0..7)
    BY <2>2, UnitTypes DEF OutputTypeOK
  <2>4. ShiftedBy(units[n], oam[i].x, RowOf(i, line), d) /\ units[n].front = oam[i].front
    BY <1>1 DEF UnitsHold, UnitHolds
  <2>5. ShiftedBy(ShiftedOut(units[n]), oam[i].x, RowOf(i, line), d + 1)
    BY <2>1, <2>3, <2>4, ShiftedOnce
  <2> QED BY <2>1, <2>4, <2>5, ShiftedOutType
<1>2. ASSUME NEW n \in UnitNumbers, \A i \in UnitNumbers : ~Fills(i, n, line)
      PROVE  units'[n].row = {}
  <2>1. units[n] \in UnitState
    BY DEF OutputTypeOK
  <2>2. units[n].row = {}
    BY <1>2 DEF UnitsHold, UnitHolds
  <2> QED BY <2>1, <2>2, ShiftedOutType
<1> QED BY <1>1, <1>2 DEF UnitsHold, UnitHolds, Fills, Place, RowOf

LEMMA UnitsInvClock ==
  ASSUME PictureInv, OutputTypeOK, CalmInv, UnitsInv, ClockPixel
  PROVE  UnitsInv'
<1> SUFFICES ASSUME calm'
             PROVE  /\ Visible' /\ dot' > CopyDot => known' /\ UnitsHold(scanline, 0)'
                    /\ scanline' \in 1..LastVisible /\ dot' = 0 =>
                         known' /\ UnitsHold(scanline - 1, 0)'
                    /\ scanline' \in 1..LastVisible /\ dot' \in 1..CopyDot =>
                         known' /\ UnitsHold(scanline - 1, dot - 1)'
  BY DEF UnitsInv
<1>1. /\ PictureTypeOK /\ NextDot /\ Units /\ See /\ oam' = oam /\ (calm \/ FrameStarts)
      /\ PictureTypeOK'
  BY ClockTypes DEF PictureInv, ClockPixel, clock_ppu, memory_vars, See
<1>2. PICK w \in Nat, d \in Nat, e \in Nat, v \in Nat :
        w = LastShown /\ d = dot /\ e = dot' /\ v = LastVisible
  BY <1>1, Sizes DEF PictureTypeOK
<1>3. PICK line \in Nat, next \in Nat : line = scanline /\ next = scanline'
  BY <1>1, Sizes DEF PictureTypeOK
<1>4. CopyDot = w + 1 /\ LastDot = w + 17 /\ PreRender = v + 1 /\ d <= w + 17
  BY <1>1, <1>2, Sizes DEF PictureTypeOK
<1>5. /\ d = w + 17 => e = 0 /\ next = IF line = v + 1 THEN 0 ELSE line + 1
      /\ d # w + 17 => e = d + 1 /\ next = line
  <2>1. LineEnds <=> d = w + 17
    BY <1>2, <1>4 DEF LineEnds
  <2> QED BY <1>1, <1>2, <1>3, <1>4, <2>1 DEF NextDot
<1>6. CASE FrameStarts
  <2>1. e = 1 /\ next = v + 1
    BY <1>2, <1>3, <1>4, <1>5, <1>6 DEF FrameStarts
  <2>2. ~Visible' /\ scanline' \notin 1..LastVisible
    BY <1>2, <1>3, <2>1 DEF Visible
  <2> QED BY <2>2
<1>7. CASE ~FrameStarts
  <2>1. calm /\ Rendering /\ ppu_mask.sprite
    BY <1>1, <1>7 DEF CalmInv, Rendering
  <2>2. Shown <=> line <= v /\ d >= 1 /\ d <= w
    BY <1>2, <1>3 DEF Shown, Visible
  <2>3. ASSUME Visible', dot' > CopyDot
        PROVE  known' /\ UnitsHold(scanline, 0)'
    <3>1. next <= v /\ e > w + 1 /\ e = d + 1 /\ next = line
      BY <1>2, <1>3, <1>4, <1>5, <2>3 DEF Visible
    <3>2. CASE d = w + 1
      <4>1. dot = CopyDot /\ Visible /\ ~Shown /\ dot # 0
        BY <1>2, <1>3, <1>4, <2>2, <3>1, <3>2 DEF Visible
      <4>2. fetch_sprites
        BY <1>1, <2>1, <4>1, Zenon DEF Units
      <4>3. known' /\ UnitsHold(line, 0)'
        BY <1>1, <1>3, <2>1, <4>1, <4>2, UnitsFetched DEF CalmInv
      <4> QED BY <1>3, <3>1, <4>3
    <3>3. CASE d > w + 1
      <4>1. dot # CopyDot /\ ~Shown /\ Visible /\ dot > CopyDot
        BY <1>2, <1>3, <1>4, <2>2, <3>1, <3>3 DEF Visible
      <4>2. units' = units /\ known' = known
        BY <1>1, <4>1, Zenon DEF Units
      <4>3. known /\ UnitsHold(line, 0)
        BY <1>3, <2>1, <4>1 DEF UnitsInv
      <4>4. UnitsHold(line, 0)'
        BY <1>1, <4>2, <4>3, UnitsKept
      <4> QED BY <1>3, <3>1, <4>2, <4>3, <4>4
    <3> QED BY <3>1, <3>2, <3>3
  <2>4. ASSUME scanline' \in 1..LastVisible, dot' = 0
        PROVE  known' /\ UnitsHold(scanline - 1, 0)'
    <3>1. d = w + 17 /\ next = line + 1 /\ next \in 1..v
      BY <1>2, <1>3, <1>5, <2>4
    <3>2. dot # CopyDot /\ ~Shown /\ Visible /\ dot > CopyDot
      BY <1>2, <1>3, <1>4, <2>2, <3>1 DEF Visible
    <3>3. units' = units /\ known' = known
      BY <1>1, <3>2, Zenon DEF Units
    <3>4. known /\ UnitsHold(line, 0)
      BY <1>3, <2>1, <3>2 DEF UnitsInv
    <3>5. UnitsHold(line, 0)'
      BY <1>1, <3>3, <3>4, UnitsKept
    <3>6. scanline' - 1 = line
      <4>1. next - 1 = line
        BY <3>1
      <4> QED BY <1>3, <4>1, Zenon
    <3> QED BY <3>3, <3>4, <3>5, <3>6
  <2>5. ASSUME scanline' \in 1..LastVisible, dot' \in 1..CopyDot
        PROVE  known' /\ UnitsHold(scanline - 1, dot - 1)'
    <3>1. e \in 1..w + 1 /\ e = d + 1 /\ next = line /\ line \in 1..v
      BY <1>2, <1>3, <1>4, <1>5, <2>5
    <3>2. PICK before \in Nat : before = line - 1
      BY <3>1
    <3>3. scanline' - 1 = before /\ dot' - 1 = d
      <4>1. next - 1 = before /\ e - 1 = d
        BY <3>1, <3>2
      <4> QED BY <1>2, <1>3, <4>1, Zenon
    <3>4. scanline \in 1..LastVisible /\ scanline - 1 = before
      BY <1>2, <1>3, <3>1, <3>2
    <3>5. CASE d = 0
      <4>1. dot = 0 /\ ~Shown /\ dot # CopyDot
        BY <1>2, <1>4, <2>2, <3>5
      <4>2. units' = units /\ known' = known
        BY <1>1, <4>1, Zenon DEF Units
      <4>3. known /\ UnitsHold(before, 0)
        BY <2>1, <3>4, <4>1 DEF UnitsInv
      <4>4. UnitsHold(before, 0)'
        BY <1>1, <4>2, <4>3, UnitsKept
      <4> QED BY <3>3, <3>5, <4>2, <4>3, <4>4
    <3>6. CASE d # 0
      <4>1. Shown /\ dot # CopyDot /\ dot \in 1..CopyDot
        BY <1>2, <1>4, <2>2, <3>1, <3>6
      <4>2. units' = [n \in UnitNumbers |-> ShiftedOut(units[n])] /\ known' = known
        BY <1>1, <4>1, Zenon DEF Units
      <4>3. PICK shown \in Nat : shown = d - 1 /\ shown = dot - 1 /\ shown + 1 = d
        BY <1>2, <3>6
      <4>4. known /\ UnitsHold(before, shown)
        BY <2>1, <3>4, <4>1, <4>3 DEF UnitsInv
      <4>5. UnitsHold(before, shown + 1)'
        BY <1>1, <4>2, <4>4, UnitsShifted
      <4> QED BY <3>3, <4>2, <4>3, <4>4, <4>5
    <3> QED BY <3>5, <3>6
  <2> QED BY <2>3, <2>4, <2>5
<1> QED BY <1>6, <1>7


-----------------------------------------------------------------------------
(* The program's writes.                                                    *)

Untouched == UNCHANGED <<ppu_mask, fine_x, oam>>

LEMMA ProgramParts ==
  ASSUME OutputTypeOK, Program
  PROVE  /\ UNCHANGED <<ppu_vars, line_start, pattern, pixel_vars, hit_vars>>
         /\ evaluated' \in BOOLEAN /\ calm' \in BOOLEAN /\ overlapped' \in BOOLEAN
         /\ calm' => calm /\ evaluated' = evaluated /\ overlapped' = overlapped /\ Untouched
<1>1. UNCHANGED <<ppu_vars, line_start>>
  BY DEF Program, Write, write_oam
<1>2. /\ evaluated' = (evaluated /\ ppu_mask' = ppu_mask)
      /\ calm' = (calm /\ Untouched) /\ overlapped' = (overlapped /\ Untouched)
  BY DEF Program, Untouched
<1>3. evaluated \in BOOLEAN /\ calm \in BOOLEAN /\ overlapped \in BOOLEAN
  BY DEF OutputTypeOK
<1>4. evaluated' \in BOOLEAN /\ calm' \in BOOLEAN /\ overlapped' \in BOOLEAN
  BY <1>2, <1>3
<1>5. ASSUME calm'
      PROVE  calm /\ evaluated' = evaluated /\ overlapped' = overlapped /\ Untouched
  <2>1. calm /\ Untouched
    BY <1>2, <1>5
  <2>2. ppu_mask' = ppu_mask
    BY <2>1 DEF Untouched
  <2> QED BY <1>2, <1>3, <2>1, <2>2
<1>6. UNCHANGED <<pattern, pixel_vars, hit_vars>>
  BY DEF Program
<1> QED BY <1>1, <1>4, <1>5, <1>6

LEMMA ProgramSteady ==
  ASSUME PictureInv, CalmInv, Program, calm', OutputTypeOK
  PROVE  steady' = steady
<1>1. calm /\ Untouched
  BY ProgramParts
<1>2. steady \in BOOLEAN /\ ppu_mask.bg
  BY <1>1 DEF PictureInv, PictureTypeOK, CalmInv, Rendering
<1>3. ASSUME NEW position \in Scrolls, write_2005(position)
      PROVE  steady' = steady
  BY <1>1, <1>2, <1>3 DEF write_2005, Untouched
<1>4. ASSUME NEW mask \in Masks, write_2001(mask)
      PROVE  steady' = steady
  <2>1. mask = ppu_mask /\ steady' = (steady /\ mask.bg)
    BY <1>1, <1>4 DEF write_2001, Untouched
  <2> QED BY <1>2, <2>1
<1> QED BY <1>3, <1>4 DEF Program, Write, write_oam

LEMMA ProgramPicture ==
  ASSUME PictureInv, Program
  PROVE  PictureInv'
BY PictureInvWrite, PictureInvStutter DEF Program, write_oam

LEMMA ProgramTypes ==
  ASSUME OutputTypeOK, Program
  PROVE  OutputTypeOK'
<1>1. oam' \in [UnitNumbers -> Sprite]
  BY OamAssumption DEF Program, write_oam, OutputTypeOK, UnitNumbers
<1> QED BY <1>1, ProgramParts DEF OutputTypeOK, pixel_vars, hit_vars

LEMMA ProgramCalm ==
  ASSUME PictureInv, OutputTypeOK, CalmInv, Program
  PROVE  CalmInv'
<1> SUFFICES ASSUME calm' PROVE CalmInv'
  BY DEF CalmInv
<1>1. /\ calm /\ evaluated' = evaluated /\ ppu_mask' = ppu_mask /\ dot' = dot
      /\ scanline' = scanline
  BY ProgramParts DEF Untouched, ppu_vars
<1>2. steady' = steady
  BY ProgramSteady
<1> QED BY <1>1, <1>2 DEF CalmInv, Rendering, Visible

LEMMA ProgramUnits ==
  ASSUME OutputTypeOK, UnitsInv, Program
  PROVE  UnitsInv'
<1> SUFFICES ASSUME calm' PROVE UnitsInv'
  BY DEF UnitsInv
<1>1. /\ calm /\ oam' = oam /\ dot' = dot /\ scanline' = scanline /\ units' = units
      /\ known' = known
  BY ProgramParts DEF Untouched, ppu_vars, pixel_vars
<1>2. \A line, d : UnitsHold(line, d)' <=> UnitsHold(line, d)
  BY <1>1 DEF UnitsHold, UnitHolds, Fills, Place, RowOf
<1> QED BY <1>1, <1>2 DEF UnitsInv, Visible

LEMMA ProgramFrontmost ==
  ASSUME PictureInv, OutputTypeOK, CalmInv, FrontmostShown, Program
  PROVE  FrontmostShown'
<1>1. CASE ~calm'
  BY <1>1 DEF FrontmostShown
<1>2. CASE calm'
  <2>1. calm /\ steady' = steady
    BY <1>2, ProgramParts, ProgramSteady
  <2>2. /\ ppu_mask' = ppu_mask /\ fine_x' = fine_x /\ oam' = oam /\ dot' = dot
        /\ scanline' = scanline /\ line_start' = line_start /\ pattern' = pattern
        /\ current_pixel' = current_pixel
    BY <1>2, ProgramParts DEF Untouched, ppu_vars, pixel_vars
  <2> QED BY <2>1, <2>2 DEF FrontmostShown, Clips, Opaque, Place
<1> QED BY <1>1, <1>2

-----------------------------------------------------------------------------
(* The initial states, and the theorems.                                    *)

LEMMA OutputInitial ==
  ASSUME OutputInit
  PROVE  PictureInv /\ OutputTypeOK /\ CalmInv /\ UnitsInv /\ FrontmostShown
<1>1. PictureInv
  BY PictureInvInitial DEF OutputInit
<1>2. OutputTypeOK
  BY OamAssumption DEF OutputInit, OutputTypeOK, UnitState, UnitNumbers
<1>3. ~calm
  BY DEF OutputInit
<1> QED BY <1>1, <1>2, <1>3 DEF CalmInv, UnitsInv, FrontmostShown

ShownInv == PictureInv /\ OutputTypeOK /\ CalmInv /\ UnitsInv /\ FrontmostShown

LEMMA ShownStep ==
  ASSUME ShownInv, [OutputNext]_output_vars
  PROVE  ShownInv'
<1> USE DEF ShownInv
<1>1. CASE ClockPixel
  <2>1. PictureInv'
    BY <1>1, PictureInvClock DEF ClockPixel
  <2>2. OutputTypeOK' /\ CalmInv' /\ UnitsInv' /\ FrontmostShown'
    BY <1>1, OutputTypesClock, CalmClock, UnitsInvClock, FrontmostClock
  <2> QED BY <2>1, <2>2
<1>2. CASE Program
  <2>1. PictureInv' /\ OutputTypeOK' /\ CalmInv'
    BY <1>2, ProgramPicture, ProgramTypes, ProgramCalm
  <2>2. UnitsInv' /\ FrontmostShown'
    BY <1>2, ProgramUnits, ProgramFrontmost
  <2> QED BY <2>1, <2>2
<1>3. CASE UNCHANGED output_vars
  <2>1. PictureInv'
    BY <1>3, PictureInvStutter DEF output_vars, picture_vars
  <2>2. UNCHANGED <<ppu_vars, written_vars, line_start, steady>>
        /\ UNCHANGED <<memory_vars, pixel_vars, hit_vars, seen_vars>>
    BY <1>3 DEF output_vars, picture_vars
  <2>3. /\ UNCHANGED <<scanline, dot, fine_x, ppu_mask, line_start, steady>>
        /\ UNCHANGED <<pattern, oam, units, known, current_pixel>>
        /\ UNCHANGED <<sp_frame_hit_lookahead, sprite_hit, sprite_overflow>>
        /\ UNCHANGED <<evaluated, calm, overlapped>>
    BY <2>2 DEF ppu_vars, written_vars, memory_vars, pixel_vars, hit_vars, seen_vars
  <2>4. OutputTypeOK' /\ CalmInv'
    BY <2>3 DEF OutputTypeOK, CalmInv, Rendering, Visible
  <2>5. UnitsInv'
    BY <2>3 DEF UnitsInv, Visible, UnitsHold, UnitHolds, Fills, Place, RowOf
  <2>6. FrontmostShown'
    BY <2>3 DEF FrontmostShown, Clips, Opaque, Place
  <2> QED BY <2>1, <2>4, <2>5, <2>6
<1> QED BY <1>1, <1>2, <1>3 DEF OutputNext

(* The background under the beam is the one that the scroll position says   *)
(* (get_bkg_pixel, ppu.c:639), also in the whole picture, whatever the      *)
(* sprites and a program that copies OAM do.                                *)
THEOREM OutputFollowsScroll == OutputSpec => []PixelsFollowScroll
<1>1. OutputInit => ShownInv
  BY OutputInitial DEF ShownInv
<1>2. ShownInv /\ [OutputNext]_output_vars => ShownInv'
  BY ShownStep
<1>3. ShownInv => PixelsFollowScroll
  BY BeamShown DEF PixelsFollowScroll, BeamPixel, ShownInv
<1> QED BY <1>1, <1>2, <1>3, PTL DEF OutputSpec

(* In a frame that nothing disturbs the pixel just put out by get_pixel     *)
(* (ppu.c:732) is the one that OAM, the priorities and the scroll position  *)
(* say, although the units it is taken from count down and shift in turn    *)
(* (get_sprite_pixel, ppu.c:677).                                           *)
THEOREM FrontmostPixel == OutputSpec => []FrontmostShown
<1>1. OutputInit => ShownInv
  BY OutputInitial DEF ShownInv
<1>2. ShownInv /\ [OutputNext]_output_vars => ShownInv'
  BY ShownStep
<1>3. ShownInv => FrontmostShown
  BY DEF ShownInv
<1> QED BY <1>1, <1>2, <1>3, PTL DEF OutputSpec

-----------------------------------------------------------------------------
(* Where the look-ahead looks, and what it compares.                        *)

LEMMA SpriteZeroColumn ==
  ASSUME OutputTypeOK
  PROVE  /\ SpriteZero \in Sprite /\ SpriteZero.x \in 0..LastShown - 1 /\ SpriteZero.x \in Nat
         /\ SpriteZero.x % 8 \in 0..7 /\ SpriteZero.x \div 8 \in 0..TilesShown - 1
         /\ SpriteZero.x = LookDot + (SpriteZero.x % 8)
         /\ LookDot \in Nat /\ LookDot < LastShown
<1>1. SpriteZero \in Sprite
  BY SpritesAssumption DEF OutputTypeOK, SpriteZero, UnitNumbers
<1>2. PICK t \in Nat : t = TilesShown /\ LastShown = 8 * t
  BY Sizes
<1>3. PICK x \in 0..(8 * t) - 1 : x = SpriteZero.x
  BY <1>1, <1>2 DEF Sprite
<1>4. /\ x \in Nat /\ x % 8 \in 0..7 /\ x \div 8 \in 0..t - 1 /\ x = (8 * (x \div 8)) + (x % 8)
      /\ 8 * (x \div 8) \in Nat /\ 8 * (x \div 8) < 8 * t
  BY <1>3
<1> QED BY <1>1, <1>2, <1>3, <1>4 DEF LookDot

LEMMA ZeroRow ==
  ASSUME OutputTypeOK, Looks
  PROVE  SpriteZero.rows[scanline - 1 - SpriteZero.y] \in SUBSET (0..7)
BY SpriteZeroColumn DEF Looks, InRange, Sprite, Rows

LEMMA LooksAheadWhere ==
  ASSUME PictureTypeOK, OutputTypeOK
  PROVE  LooksAhead <=> Rendering /\ ~sprite_overflow' /\ Looks /\ dot = LookDot
<1>0. dot \in Nat /\ SpriteZero.x \in Nat /\ LastShown \in Nat
  BY SpriteZeroColumn, Sizes DEF PictureTypeOK
<1>1. PICK d \in Nat, x \in Nat, w \in Nat : d = dot /\ x = SpriteZero.x /\ w = LastShown
  BY ONLY <1>0, Zenon
<1>2. 8 * (x \div 8) < w
  BY <1>1, SpriteZeroColumn DEF LookDot
<1>3. (d % 8 = 0 /\ d < w /\ x \div 8 = d \div 8) <=> d = 8 * (x \div 8)
  <2>1. d = 8 * (d \div 8) + (d % 8) /\ d % 8 \in 0..7 /\ d \div 8 \in Nat /\ x \div 8 \in Nat
    OBVIOUS
  <2>2. CASE d % 8 = 0 /\ x \div 8 = d \div 8
    BY <1>2, <2>1, <2>2
  <2>3. ASSUME d = 8 * (x \div 8)
        PROVE  d % 8 = 0 /\ d < w /\ x \div 8 = d \div 8
    BY <1>2, <2>1, <2>3
  <2> QED BY <2>2, <2>3
<1> QED BY <1>1, <1>3 DEF LooksAhead, Looks, LookDot

(* Sprite 0 is drawn in the eight columns that follow its own.              *)
LEMMA OverlapWhere ==
  ASSUME OutputTypeOK, Looks, NEW c \in Nat, OverlapAt(c)
  PROVE  /\ c >= SpriteZero.x + 1 /\ c <= SpriteZero.x + 8 /\ c < LastShown
         /\ c > LookDot
<1>0. SpriteZero.x \in Nat /\ LookDot \in Nat /\ SpriteZero.x >= LookDot
  <2>1. PICK r \in 0..7, l \in Nat : r = SpriteZero.x % 8 /\ l = LookDot
    BY SpriteZeroColumn, Zenon
  <2> QED BY <2>1, SpriteZeroColumn
<1>1. PICK x \in Nat, l \in Nat : x = SpriteZero.x /\ x >= l /\ l = LookDot
  BY ONLY <1>0, Zenon
<1>2. (c - 1) - x \in 0..7 /\ c < LastShown
  BY <1>1, ZeroRow DEF OverlapAt
<1> QED BY <1>1, <1>2

LEMMA OverlapsMeans ==
  ASSUME PictureInv, OutputTypeOK, CalmInv, calm
  PROVE  Overlaps <=> Looks /\ OverlapAt(dot)
<1>1. PICK d \in Nat, line \in Nat : d = dot /\ line = scanline
  BY Sizes DEF PictureInv, PictureTypeOK
<1>2. PICK w \in Nat, v \in Nat : w = LastShown /\ v = LastVisible
  BY Sizes
<1>3. Looks /\ OverlapAt(dot) => Shown
  <2>1. Looks /\ OverlapAt(dot) => d < w /\ d > LookDot /\ line \in 1..v
    BY <1>1, <1>2, OverlapWhere DEF Looks
  <2> QED BY <1>1, <1>2, <2>1, SpriteZeroColumn DEF Shown, Visible
<1>4. Shown => steady
  BY DEF CalmInv, Shown
<1>5. PixelAt(dot) = BeamPixel
  BY DEF PixelAt, BeamPixel
<1>6. Shown => (BackgroundOpaque <=> Opaque(PixelAt(dot), PixelAt(dot)))
  BY <1>4, <1>5, BeamShown DEF BackgroundOpaque
<1>7. Shown /\ scanline > 0 => line \in 1..v
  BY <1>1, <1>2 DEF Shown, Visible
<1>8. Shown => (dot < LastShown <=> dot # LastShown)
  BY <1>1, <1>2 DEF Shown
<1>9. scanline \in 1..LastVisible => scanline > 0
  BY <1>1, <1>2
<1> QED BY <1>1, <1>2, <1>3, <1>6, <1>7, <1>8, <1>9 DEF Overlaps, OverlapAt, Looks

(* The pixels that two tiles of a line hold.                                *)
LEMMA TilePixel ==
  ASSUME line_start \in Column, NEW q \in Nat, NEW bit \in 0..15
  PROVE  /\ bit < 8 => ((8 * line_start) + (8 * q) + bit) % Width = Pixels(Tile(q), bit)
         /\ bit >= 8 => ((8 * line_start) + (8 * q) + bit) % Width = Pixels(Tile(q + 1), bit - 8)
<1>1. PICK s \in Nat, m \in Nat \ {0} : s = line_start /\ m = Columns /\ Width = 8 * m
  BY Sizes DEF Column, Width
<1>2. CASE bit < 8
  <2>1. PICK a \in Nat, r \in 0..7 : a = s + q /\ r = bit
    BY <1>2
  <2>2. (8 * s) + (8 * q) + bit = (8 * a) + r
    BY <2>1
  <2>3. ((8 * a) + r) % (8 * m) = (8 * (a % m)) + r
    BY PixelRemainder
  <2> QED BY <1>1, <1>2, <2>1, <2>2, <2>3 DEF Tile, Pixels
<1>3. CASE bit >= 8
  <2>0. s + (q + 1) \in Nat /\ bit - 8 \in 0..7
    BY <1>3
  <2>1. PICK a \in Nat, r \in 0..7 : a = s + (q + 1) /\ r = bit - 8
    BY ONLY <2>0, Zenon
  <2>2. (8 * s) + (8 * q) + bit = (8 * a) + r
    BY <2>1
  <2>3. ((8 * a) + r) % (8 * m) = (8 * (a % m)) + r
    BY PixelRemainder
  <2> QED BY <1>1, <1>3, <2>1, <2>2, <2>3 DEF Tile, Pixels
<1> QED BY <1>2, <1>3

(* What the registers hold at the end of the dot at which it is looked.     *)
LEMMA RegistersLooked ==
  ASSUME PictureTypeOK', PipelineInv', steady', Visible', line_start' = line_start,
         NEW q \in 0..TilesShown - 1, IsDot(dot', q, 0), NEW bit \in Bits
  PROVE  LET pixel == IF bit < 8 THEN Pixels(Tile(q), bit) ELSE Pixels(Tile(q + 1), bit - 8)
         IN /\ bkg_internals'.pt_lo_shift_reg[bit] = pixel
            /\ bkg_internals'.pt_hi_shift_reg[bit] = pixel
<1>1. Shows(q, 0)'
  BY DEF PipelineInv
<1>2. PICK a, b : a = Tile(q) /\ b = Tile(q + 1) /\ a = Tile(q)' /\ b = Tile(q + 1)'
  BY DEF Tile
<1>3. Registers(0, a, b)'
  BY <1>1, <1>2 DEF Shows, ShowsTiles
<1>4. /\ Holds(bkg_internals'.pt_lo_shift_reg, 0, a, b)
      /\ Holds(bkg_internals'.pt_hi_shift_reg, 0, a, b)
  BY <1>3 DEF Registers
<1>5. bit \in 0..15 /\ bit + 0 = bit /\ bit + 0 - 8 = bit - 8
  BY DEF Bits
<1>6. CASE bit < 8
  BY <1>2, <1>4, <1>5, <1>6 DEF Holds
<1>7. CASE bit >= 8
  <2>1. ~(bit < 8) /\ bit < 16
    BY <1>5, <1>7
  <2> QED BY <1>2, <1>4, <1>5, <1>7, <2>1 DEF Holds
<1> QED BY <1>5, <1>6, <1>7

LEMMA MeetsMeans ==
  ASSUME PictureTypeOK, OutputTypeOK, Looks, Foreseen, dot = LookDot, dot' = dot + 1,
         PictureTypeOK', PipelineInv', steady', Visible', line_start' = line_start,
         NEW mask \in 1..8, NEW c \in Nat, c = SpriteZero.x + mask
  PROVE  Meets(mask) <=>
           /\ (c - 1) - SpriteZero.x \in SpriteZero.rows[scanline - 1 - SpriteZero.y]
           /\ Opaque(PixelAt(c), PixelAt(c))
<1>1. PICK x \in Nat, r \in 0..7, l \in Nat, f \in 0..7 :
        x = SpriteZero.x /\ r = SpriteZero.x % 8 /\ l = LookDot /\ f = fine_x
  BY SpriteZeroColumn, Zenon DEF PictureTypeOK
<1>2. PICK q \in 0..TilesShown - 1 : q = SpriteZero.x \div 8 /\ l = 8 * q
  BY <1>1, SpriteZeroColumn DEF LookDot
<1>3. x = l + r /\ f + r <= 8
  BY <1>1, SpriteZeroColumn DEF Foreseen
<1>4. q \in Nat
  BY Sizes
<1>5. mask + f + r - 1 \in 0..15 /\ mask - 1 \in Nat
  BY <1>3
<1>6. PICK bit \in 0..15 : bit = mask + f + r - 1
  BY <1>5
<1>7. LookAheadBit(mask) = bit
  BY <1>1, <1>6 DEF LookAheadBit
<1>8. IsDot(dot', q, 0)
  <2>1. dot' = l + 1 /\ l + 1 = 8 * q + 0 + 1
    BY <1>1, <1>2, <1>4
  <2> QED BY <2>1, Zenon DEF IsDot
<1>9. PICK pixel :
        pixel = IF bit < 8 THEN Pixels(Tile(q), bit) ELSE Pixels(Tile(q + 1), bit - 8)
  OBVIOUS
<1>10. bkg_internals'.pt_lo_shift_reg[bit] = pixel /\ bkg_internals'.pt_hi_shift_reg[bit] = pixel
  BY <1>8, <1>9, RegistersLooked DEF Bits
<1>11. PixelAt(c) = pixel
  <2>1. line_start \in Column /\ line_start \in Nat
    BY Sizes DEF PictureTypeOK, Column
  <2>2. PICK s \in Nat : s = line_start
    BY <2>1
  <2>3. (8 * s) + f + c - 1 = (8 * s) + (8 * q) + bit
    <3>1. c = x + mask
      BY <1>1
    <3> QED BY ONLY <1>2, <1>3, <1>4, <1>6, <3>1
  <2>4. PixelAt(c) = ((8 * line_start) + (8 * q) + bit) % Width
    BY <1>1, <2>2, <2>3 DEF PixelAt
  <2>5. ~(bit < 8) <=> bit >= 8
    OBVIOUS
  <2> QED BY <1>4, <1>9, <2>1, <2>4, <2>5, TilePixel
<1>12. (c - 1) - SpriteZero.x = mask - 1
  <2>1. c = x + mask /\ (c - 1) - x = mask - 1
    BY <1>1
  <2> QED BY <1>1, <2>1
<1> QED BY <1>7, <1>10, <1>11, <1>12 DEF Meets, Bits

(* A hit is foreseen where sprite 0 and the background will meet.           *)
LEMMA HitColumnsMean ==
  ASSUME PictureTypeOK, OutputTypeOK, Looks, Foreseen, dot = LookDot, dot' = dot + 1,
         PictureTypeOK', PipelineInv', steady', Visible', line_start' = line_start,
         NEW c \in Nat
  PROVE  c \in HitColumns <=> OverlapAt(c)
<1>1. PICK x \in Nat, w \in Nat : x = SpriteZero.x /\ w = LastShown
  BY SpriteZeroColumn, Sizes, Zenon
<1>2. x + 8 <= w
  BY <1>1 DEF Foreseen
<1>3. CASE c - x \in 1..8
  <2>1. PICK mask \in 1..8 : mask = c - x /\ c = x + mask
    BY <1>3
  <2>2. Meets(mask) <=> /\ (c - 1) - SpriteZero.x \in SpriteZero.rows[scanline - 1 - SpriteZero.y]
                        /\ Opaque(PixelAt(c), PixelAt(c))
    BY <1>1, <2>1, MeetsMeans
  <2>3. c \in { SpriteZero.x + m : m \in { n \in 1..8 : Meets(n) } } <=> Meets(mask)
    <3>1. ASSUME NEW m \in 1..8, c = SpriteZero.x + m
          PROVE  m = mask
      BY <1>1, <2>1, <3>1
    <3> QED BY <1>1, <2>1, <3>1
  <2>4. c \notin ({LastShown} \cup (IF Clips THEN 1..8 ELSE {})) <=>
          c < LastShown /\ ~(Clips /\ c <= 8)
    <3>1. c >= 1 /\ c <= w
      BY <1>2, <2>1
    <3> QED BY <1>1, <3>1
  <2> QED BY <2>2, <2>3, <2>4 DEF HitColumns, OverlapAt
<1>4. CASE c - x \notin 1..8
  <2>1. c \notin HitColumns
    <3>1. ASSUME NEW m \in 1..8
          PROVE  c # SpriteZero.x + m
      BY <1>1, <1>4
    <3> QED BY <3>1 DEF HitColumns
  <2>2. ~OverlapAt(c)
    BY <1>1, <1>4, OverlapWhere
  <2> QED BY <2>1, <2>2
<1> QED BY <1>3, <1>4

(* The first of the hits.                                                   *)
LEMMA FirstHitWhere ==
  ASSUME OutputTypeOK, HitColumns # {}
  PROVE  /\ FirstHit \in HitColumns /\ \A other \in HitColumns : FirstHit <= other
         /\ FirstHit \in (SpriteZero.x + 1)..(SpriteZero.x + 8)
<1>1. PICK x \in Nat : x = SpriteZero.x
  BY SpriteZeroColumn, Zenon
<1>2. HitColumns \subseteq (x + 1)..(x + 8)
  <2>1. ASSUME NEW m \in 1..8
        PROVE  SpriteZero.x + m \in (x + 1)..(x + 8)
    BY <1>1
  <2> QED BY <2>1 DEF HitColumns
<1>3. \E m \in HitColumns : \A other \in HitColumns : m <= other
  BY <1>2, Smallest
<1> QED BY <1>1, <1>2, <1>3 DEF FirstHit


-----------------------------------------------------------------------------
(* The target.                                                              *)

(* A dot that is not the last one of its line.                              *)
LEMMA LineGoesOn ==
  ASSUME PictureTypeOK, clock_ppu, dot < LastDot
  PROVE  dot' = dot + 1 /\ scanline' = scanline
<1>1. PICK d \in Nat, last \in Nat : d = dot /\ last = LastDot
  BY Sizes DEF PictureTypeOK
<1>2. d < last
  BY <1>1
<1>3. ~LineEnds
  BY <1>1, <1>2 DEF LineEnds
<1> QED BY <1>3 DEF clock_ppu, NextDot

Target(line, c) == [l_sl |-> line, l_cl |-> c]

LEMMA Targets ==
  ASSUME NEW line, NEW c, NEW line2, NEW c2
  PROVE  Target(line, c) = Target(line2, c2) <=> line = line2 /\ c = c2
<1>1. /\ Target(line, c).l_sl = line /\ Target(line, c).l_cl = c
      /\ Target(line2, c2).l_sl = line2 /\ Target(line2, c2).l_cl = c2
  BY DEF Target
<1> QED BY <1>1

LEMMA NotHere ==
  ASSUME PictureTypeOK
  PROVE  NoTarget # Here
<1>1. scanline # PreRender + 1
  BY Sizes DEF PictureTypeOK
<1> QED BY <1>1, Targets DEF Target, NoTarget, Here

LEMMA TargetClock ==
  ASSUME PictureTypeOK, OutputTypeOK, TargetInv, ClockPixel
  PROVE  TargetInv'
<1>0. PICK looked : looked = Lookahead(Armed)
  OBVIOUS
<1>1. hit_target' = IF looked.target = Here THEN NoTarget ELSE looked.target
  BY <1>0, LookaheadParts DEF ClockPixel
<1>2. PICK d \in Nat, w \in Nat, last \in Nat :
        d = dot /\ w = LastShown /\ last = LastDot /\ last = w + 17
  BY Sizes DEF PictureTypeOK
<1>3. CASE looked.target = NoTarget \/ looked.target = Here
  BY <1>1, <1>3 DEF TargetInv
<1>4. ASSUME NEW c \in (d + 1)..last, scanline \in 1..LastVisible,
             looked.target = Target(scanline, c)
      PROVE  TargetInv'
  <2>1. Here = Target(scanline, dot)
    BY DEF Here, Target
  <2>2. looked.target # Here
    BY <1>2, <1>4, <2>1, Targets
  <2>3. hit_target' = Target(scanline, c)
    BY <1>1, <1>4, <2>2
  <2>4. dot' = dot + 1 /\ scanline' = scanline
    BY <1>2, <1>4, LineGoesOn DEF ClockPixel
  <2>5. PICK e \in Nat : e = d + 1 /\ e = dot'
    BY <1>2, <2>4
  <2>6. c \in dot'..LastDot
    BY <1>2, <2>5
  <2> QED BY <1>4, <2>3, <2>4, <2>6 DEF TargetInv, Target
<1>5. CASE ~LooksAhead
  <2>1. looked.target = hit_target
    BY <1>0, <1>5, LookaheadCases
  <2>2. CASE hit_target = NoTarget
    BY <1>3, <2>1, <2>2
  <2>3. CASE hit_target # NoTarget
    <3>1. PICK c \in dot..LastDot : scanline \in 1..LastVisible /\ hit_target = Target(scanline, c)
      BY <2>3 DEF TargetInv, Target
    <3>2. CASE c = dot
      <4>1. looked.target = Here
        BY <2>1, <3>1, <3>2 DEF Target, Here
      <4> QED BY <1>3, <4>1
    <3>3. CASE c # dot
      <4>1. c \in (d + 1)..last
        BY <1>2, <3>3
      <4> QED BY <1>4, <2>1, <3>1, <4>1
    <3> QED BY <3>2, <3>3
  <2> QED BY <2>2, <2>3
<1>6. CASE LooksAhead /\ ~Armed /\ HitColumns # {}
  <2>1. looked.target = Target(scanline, FirstHit)
    BY <1>0, <1>6, LookaheadCases DEF Target
  <2>2. scanline \in 1..LastVisible /\ dot = LookDot
    BY <1>6, LooksAheadWhere DEF Looks
  <2>3. PICK x \in Nat, r \in 0..7 : x = SpriteZero.x /\ r = SpriteZero.x % 8
    BY SpriteZeroColumn, Zenon
  <2>4. x = d + r /\ x <= w - 1
    BY <1>2, <2>2, <2>3, SpriteZeroColumn
  <2>5. FirstHit \in (x + 1)..(x + 8)
    BY <1>6, <2>3, FirstHitWhere
  <2>6. FirstHit \in (d + 1)..last
    BY <1>2, <2>4, <2>5
  <2> QED BY <1>4, <2>1, <2>2, <2>6
<1>7. CASE LooksAhead /\ (Armed \/ HitColumns = {})
  BY <1>0, <1>3, <1>7, LookaheadCases
<1> QED BY <1>5, <1>6, <1>7

-----------------------------------------------------------------------------
(* The hit, dot by dot.                                                     *)

HitBasis == PictureInv /\ OutputTypeOK /\ CalmInv /\ TargetInv

(* On the pre-render line nothing is looked for.                            *)
LEMMA NothingOnPreRender ==
  ASSUME HitBasis, ClockPixel, scanline = PreRender, calm',
         FrameStarts \/ (~sp_frame_hit_lookahead /\ ~sprite_hit /\ ~overlapped)
  PROVE  ~sp_frame_hit_lookahead' /\ hit_target' = NoTarget /\ ~sprite_hit' /\ ~overlapped'
<1> USE DEF HitBasis
<1>1. PictureTypeOK /\ scanline \notin 1..LastVisible /\ ~Visible
  BY Sizes DEF PictureInv, Visible
<1>2. Rendering
  BY DEF ClockPixel, See, CalmInv
<1>3. PICK looked : looked = Lookahead(Armed)
  OBVIOUS
<1>4. ~LooksAhead
  BY <1>1 DEF LooksAhead
<1>5. hit_target = NoTarget
  BY <1>1 DEF TargetInv
<1>6. ~Armed
  BY <1>2 DEF Armed, Rendering
<1>7. looked.target = NoTarget /\ looked.armed = Armed /\ looked.target # Here
  BY <1>1, <1>3, <1>4, <1>5, LookaheadCases, NotHere
<1>8. ~sp_frame_hit_lookahead' /\ hit_target' = NoTarget /\ ~sprite_hit'
  <2>1. /\ sp_frame_hit_lookahead' = looked.armed
        /\ hit_target' = IF looked.target = Here THEN NoTarget ELSE looked.target
        /\ sprite_hit' = (looked.target = Here \/ (sprite_hit /\ ~FrameStarts))
    BY <1>3, LookaheadParts DEF ClockPixel
  <2>2. ~sp_frame_hit_lookahead'
    BY <1>6, <1>7, <2>1, Zenon
  <2> QED BY <1>7, <2>1, <2>2
<1>9. ~overlapped'
  BY <1>1 DEF ClockPixel, See, Overlaps, Shown
<1> QED BY <1>8, <1>9

(* On a visible line of a calm frame.                                       *)
LEMMA OnVisibleLine ==
  ASSUME HitBasis, ClockPixel, calm', Visible, NEW looked, looked = Lookahead(Armed)
  PROVE  /\ calm /\ Rendering /\ steady /\ PictureTypeOK /\ NoTarget # Here
         /\ sp_frame_hit_lookahead' = looked.armed
         /\ hit_target' = IF looked.target = Here THEN NoTarget ELSE looked.target
         /\ sprite_hit' <=> looked.target = Here \/ sprite_hit
         /\ overlapped' <=> Overlaps \/ overlapped
         /\ Overlaps <=> Looks /\ OverlapAt(dot)
         /\ Armed <=> sp_frame_hit_lookahead
         /\ sprite_overflow => sprite_overflow'
<1> USE DEF HitBasis
<1>1. PictureTypeOK /\ scanline # PreRender
  BY Sizes DEF PictureInv, PictureTypeOK, Visible
<1>2. ~FrameStarts
  BY <1>1 DEF FrameStarts
<1>3. calm
  BY <1>2 DEF ClockPixel, See
<1>4. Rendering /\ steady
  BY <1>3 DEF CalmInv
<1>5. overlapped' <=> Overlaps \/ overlapped
  BY <1>2 DEF ClockPixel, See
<1>6. Overlaps <=> Looks /\ OverlapAt(dot)
  BY <1>3, OverlapsMeans
<1>7. Armed <=> sp_frame_hit_lookahead
  BY <1>1 DEF Armed
<1>8. sprite_overflow => sprite_overflow'
  BY <1>1 DEF ClockPixel, SpriteOverflow
<1>9. /\ sp_frame_hit_lookahead' = looked.armed
      /\ hit_target' = IF looked.target = Here THEN NoTarget ELSE looked.target
      /\ sprite_hit' = (looked.target = Here \/ (sprite_hit /\ ~FrameStarts))
  BY LookaheadParts DEF ClockPixel
<1>10. sprite_hit' <=> looked.target = Here \/ sprite_hit
  BY <1>2, <1>9
<1> QED BY <1>1, <1>3, <1>4, <1>5, <1>6, <1>7, <1>8, <1>9, <1>10, NotHere

LEMMA LineKept ==
  ASSUME PictureTypeOK, ClockPixel, steady, ppu_mask.bg, Visible, dot < LastShown
  PROVE  /\ dot' = dot + 1 /\ scanline' = scanline /\ line_start' = line_start
         /\ steady' /\ Visible' /\ (Looks' <=> Looks) /\ LookDot' = LookDot
         /\ \A c : OverlapAt(c)' <=> OverlapAt(c)
<1>1. PICK d \in Nat, w \in Nat : d = dot /\ w = LastShown
  BY Sizes DEF PictureTypeOK
<1>2. d < w /\ dot < LastDot /\ dot # CopyDot + 1
  BY <1>1, Sizes
<1>3. dot' = dot + 1 /\ scanline' = scanline
  BY <1>2, LineGoesOn DEF ClockPixel
<1>4. steady' /\ line_start' = line_start
  <2>1. steady'
    BY <1>2 DEF ClockPixel, clock_ppu, Remember
  <2>2. line_start' = line_start
    BY <1>2, Zenon DEF ClockPixel, clock_ppu, Remember
  <2> QED BY <2>1, <2>2
<1>5. oam' = oam /\ pattern' = pattern /\ ppu_mask' = ppu_mask /\ fine_x' = fine_x
  BY DEF ClockPixel, clock_ppu, memory_vars, written_vars
<1>6. \A c : OverlapAt(c)' <=> OverlapAt(c)
  BY <1>3, <1>4, <1>5 DEF OverlapAt, PixelAt, Clips, Opaque, SpriteZero
<1>7. Visible' /\ (Looks' <=> Looks) /\ LookDot' = LookDot
  BY <1>3, <1>5 DEF Visible, Looks, InRange, LookDot, SpriteZero
<1> QED BY <1>3, <1>4, <1>6, <1>7

LEMMA MetStays ==
  ASSUME HitBasis, ClockPixel, calm', Visible, Met
  PROVE  Met'
<1>1. PICK looked : looked = Lookahead(Armed)
  OBVIOUS
<1>2. Armed /\ NoTarget # Here
  BY <1>1, OnVisibleLine DEF Met
<1>3. looked.target = NoTarget /\ looked.armed = Armed
  <2>1. CASE ~LooksAhead
    BY <1>1, <2>1, LookaheadCases DEF Met
  <2>2. CASE LooksAhead
    BY <1>1, <1>2, <2>2, LookaheadCases
  <2> QED BY <2>1, <2>2
<1>4. looked.armed
  BY <1>2, <1>3, Zenon
<1>5. /\ sp_frame_hit_lookahead' = looked.armed
      /\ hit_target' = IF looked.target = Here THEN NoTarget ELSE looked.target
      /\ sprite_hit' /\ overlapped'
  BY <1>1, OnVisibleLine DEF Met
<1>6. sp_frame_hit_lookahead'
  BY <1>4, <1>5, Zenon
<1> QED BY <1>2, <1>3, <1>5, <1>6 DEF Met

LEMMA ForeseenMet ==
  ASSUME HitBasis, ClockPixel, calm', Visible, NEW c \in dot..LastDot, Foresees(c)
  PROVE  Met' \/ \E later \in dot'..LastDot : Foresees(later)'
<1>1. PICK looked : looked = Lookahead(Armed)
  OBVIOUS
<1>2. /\ calm /\ Rendering /\ steady /\ PictureTypeOK /\ OutputTypeOK
      /\ sp_frame_hit_lookahead' = looked.armed
      /\ hit_target' = IF looked.target = Here THEN NoTarget ELSE looked.target
      /\ sprite_hit' <=> looked.target = Here \/ sprite_hit
      /\ overlapped' <=> Overlaps \/ overlapped
      /\ Overlaps <=> Looks /\ OverlapAt(dot)
      /\ Armed <=> sp_frame_hit_lookahead
  BY <1>1, OnVisibleLine DEF HitBasis
<1>m. dot \in Nat /\ LookDot \in Nat /\ LastDot \in Nat
  BY <1>2, SpriteZeroColumn, Sizes DEF PictureTypeOK
<1>3. PICK d \in Nat, l \in Nat, last \in Nat : d = dot /\ l = LookDot /\ last = LastDot
  BY ONLY <1>m, Zenon
<1>4. c \in d..last /\ c \in Nat /\ d > l
  BY <1>3 DEF Foresees
<1>5. ~LooksAhead
  BY <1>2, <1>3, <1>4, LooksAheadWhere
<1>6. looked.target = Target(scanline, c) /\ looked.armed = Armed
  BY <1>1, <1>5, LookaheadCases DEF Foresees, Target
<1>7. looked.armed
  BY <1>2, <1>6, Zenon DEF Foresees
<1>8. sp_frame_hit_lookahead'
  BY <1>2, <1>7, Zenon
<1>9. looked.target = Here <=> c = d
  <2>1. Here = Target(scanline, d)
    BY <1>3 DEF Here, Target
  <2>2. Target(scanline, c) = Target(scanline, d) <=> c = d
    BY Targets
  <2> QED BY <1>6, <2>1, <2>2
<1>10. CASE c = d
  <2>1. hit_target' = NoTarget /\ sprite_hit'
    BY <1>2, <1>9, <1>10
  <2>2. overlapped'
    BY <1>2, <1>3, <1>10 DEF Foresees
  <2> QED BY <1>8, <2>1, <2>2 DEF Met
<1>11. CASE c # d
  <2>1. d < c /\ c < LastShown
    BY <1>2, <1>4, <1>11, OverlapWhere DEF Foresees
  <2>2. PICK w \in Nat : w = LastShown
    BY Sizes
  <2>3. dot < LastShown
    BY <1>3, <1>4, <2>1, <2>2
  <2>4. /\ dot' = dot + 1 /\ scanline' = scanline /\ (Looks' <=> Looks) /\ LookDot' = LookDot
        /\ \A other : OverlapAt(other)' <=> OverlapAt(other)
    BY <1>2, <2>3, LineKept DEF Rendering
  <2>5. PICK e \in Nat : e = d + 1 /\ e = dot'
    BY <1>3, <2>4
  <2>6. hit_target' = Target(scanline', c) /\ ~sprite_hit'
    BY <1>2, <1>6, <1>9, <1>11, <2>4 DEF Foresees
  <2>7. ~overlapped'
    <3>1. ~OverlapAt(dot)
      BY <1>3, <1>4, <2>1 DEF Foresees
    <3> QED BY <1>2, <3>1 DEF Foresees
  <2>8. dot' > LookDot'
    <3>1. e > l
      BY <1>4, <2>5
    <3> QED BY <1>3, <2>4, <2>5, <3>1, Zenon
  <2>9. ASSUME NEW other \in dot'..LastDot, other < c
        PROVE  ~OverlapAt(other)'
    <3>1. other \in dot..LastDot
      BY <1>3, <2>5
    <3> QED BY <2>4, <2>9, <3>1 DEF Foresees
  <2>10. Looks' /\ OverlapAt(c)'
    BY <2>4 DEF Foresees
  <2>11. Foresees(c)'
    BY <1>8, <2>6, <2>7, <2>8, <2>9, <2>10 DEF Foresees, Target, LastDot, CopyDot, LastShown
  <2>12. c \in dot'..LastDot
    BY <1>3, <1>4, <2>1, <2>5
  <2> QED BY <2>11, <2>12
<1> QED BY <1>10, <1>11

(* Nothing is looked for and nothing met: the dot before a line's look.     *)
LEMMA UnmetPasses ==
  ASSUME HitBasis, ClockPixel, calm', Visible, Unmet, ~LooksAhead, ~(Looks /\ OverlapAt(dot)),
         Looks' => \A c \in dot'..LastDot : dot' > LookDot' => ~OverlapAt(c)'
  PROVE  Unmet'
<1>1. PICK looked : looked = Lookahead(Armed)
  OBVIOUS
<1>2. /\ NoTarget # Here
      /\ sp_frame_hit_lookahead' = looked.armed
      /\ hit_target' = IF looked.target = Here THEN NoTarget ELSE looked.target
      /\ sprite_hit' <=> looked.target = Here \/ sprite_hit
      /\ overlapped' <=> Overlaps \/ overlapped
      /\ Overlaps <=> Looks /\ OverlapAt(dot)
      /\ Armed <=> sp_frame_hit_lookahead
  BY <1>1, OnVisibleLine
<1>3. looked.target = NoTarget /\ looked.armed = Armed
  BY <1>1, LookaheadCases DEF Unmet
<1>4. ~sp_frame_hit_lookahead'
  BY <1>2, <1>3, Zenon DEF Unmet
<1>5. hit_target' = NoTarget /\ ~sprite_hit' /\ ~overlapped'
  BY <1>2, <1>3 DEF Unmet
<1>6. LastDot' = LastDot /\ NoTarget' = NoTarget
  BY DEF LastDot, CopyDot, LastShown, NoTarget, PreRender
<1> QED BY <1>4, <1>5, <1>6 DEF Unmet

LEMMA UnmetElsewhere ==
  ASSUME HitBasis, ClockPixel, calm', Visible, Unmet, ~(Looks /\ dot = LookDot)
  PROVE  Unmet'
<1> USE DEF HitBasis
<1>1. calm /\ Rendering /\ steady /\ PictureTypeOK /\ OutputTypeOK
  <2>1. PICK looked : looked = Lookahead(Armed)
    OBVIOUS
  <2> QED BY <2>1, OnVisibleLine
<1>2. ~LooksAhead
  BY <1>1, LooksAheadWhere
<1>m. dot \in Nat /\ LookDot \in Nat /\ LastDot \in Nat /\ LastShown \in Nat
  BY <1>1, SpriteZeroColumn, Sizes DEF PictureTypeOK
<1>3. PICK d \in Nat, l \in Nat, last \in Nat, w \in Nat :
        d = dot /\ l = LookDot /\ last = LastDot /\ w = LastShown
  BY ONLY <1>m, Zenon
<1>4. d <= last /\ l < w /\ last = w + 17
  BY <1>1, <1>3, SpriteZeroColumn, Sizes DEF PictureTypeOK
<1>5. LookDot' = LookDot /\ LookDot' = l
  BY <1>3 DEF ClockPixel, memory_vars, LookDot, SpriteZero
<1>6. ~(Looks /\ OverlapAt(dot))
  <2>1. ASSUME Looks, OverlapAt(dot)
        PROVE  FALSE
    <3>1. dot > LookDot
      BY <1>1, <1>3, <2>1, OverlapWhere
    <3>2. dot \in dot..LastDot
      BY <1>3, <1>4
    <3> QED BY <2>1, <3>1, <3>2 DEF Unmet
  <2> QED BY <2>1
<1>7. CASE d < w
  <2>1. dot < LastShown
    BY <1>3, <1>7
  <2>2. /\ dot' = dot + 1 /\ (Looks' <=> Looks)
        /\ \A c : OverlapAt(c)' <=> OverlapAt(c)
    BY <1>1, <2>1, LineKept DEF Rendering
  <2>3. PICK e \in Nat : e = d + 1 /\ e = dot'
    BY <1>3, <2>2
  <2>4. ASSUME Looks', NEW c \in dot'..LastDot, dot' > LookDot'
        PROVE  ~OverlapAt(c)'
    <3>1. e > l
      BY <1>5, <2>3, <2>4, Zenon
    <3>2. d # l
      BY <1>3, <2>2, <2>4
    <3>3. dot > LookDot /\ c \in dot..LastDot
      BY <1>3, <2>3, <3>1, <3>2
    <3> QED BY <2>2, <2>4, <3>3 DEF Unmet
  <2> QED BY <1>2, <1>6, <2>4, UnmetPasses
<1>8. CASE d = last
  <2>1. dot' = 0
    BY <1>3, <1>8 DEF ClockPixel, clock_ppu, NextDot, LineEnds
  <2>2. ~(dot' > LookDot')
    <3>1. ~(0 > l)
      OBVIOUS
    <3> QED BY <1>5, <2>1, <3>1, Zenon
  <2> QED BY <1>2, <1>6, <2>2, UnmetPasses
<1>9. CASE d >= w /\ d < last
  <2>1. dot' = dot + 1
    BY <1>1, <1>3, <1>9, LineGoesOn DEF ClockPixel
  <2>2. PICK e \in Nat : e = d + 1 /\ e = dot'
    BY <1>3, <2>1
  <2>3. ASSUME NEW c \in dot'..LastDot
        PROVE  ~OverlapAt(c)'
    <3>1. ~(c < LastShown)
      BY <1>3, <1>9, <2>2
    <3> QED BY <3>1 DEF OverlapAt
  <2> QED BY <1>2, <1>6, <2>3, UnmetPasses
<1> QED BY <1>4, <1>7, <1>8, <1>9

(* The look: the first column at which the two will meet is the target.     *)
LEMMA UnmetLooks ==
  ASSUME HitBasis, PictureInv', ClockPixel, calm', Visible, Unmet, Looks, dot = LookDot, Foreseen,
         ~sprite_overflow'
  PROVE  Unmet' \/ \E c \in dot'..LastDot : Foresees(c)'
<1> USE DEF HitBasis
<1>1. PICK looked : looked = Lookahead(Armed)
  OBVIOUS
<1>2. /\ calm /\ Rendering /\ steady /\ PictureTypeOK /\ OutputTypeOK
      /\ NoTarget # Here
      /\ sp_frame_hit_lookahead' = looked.armed
      /\ hit_target' = IF looked.target = Here THEN NoTarget ELSE looked.target
      /\ sprite_hit' <=> looked.target = Here \/ sprite_hit
      /\ overlapped' <=> Overlaps \/ overlapped
      /\ Overlaps <=> Looks /\ OverlapAt(dot)
      /\ Armed <=> sp_frame_hit_lookahead
  BY <1>1, OnVisibleLine
<1>m. dot \in Nat /\ SpriteZero.x \in Nat /\ LastDot \in Nat /\ LastShown \in Nat
      /\ SpriteZero.x % 8 \in 0..7
  BY <1>2, SpriteZeroColumn, Sizes DEF PictureTypeOK
<1>3. PICK d \in Nat, x \in Nat, last \in Nat, w \in Nat, r \in 0..7 :
        d = dot /\ x = SpriteZero.x /\ last = LastDot /\ w = LastShown /\ r = SpriteZero.x % 8
  BY ONLY <1>m, Zenon
<1>4. d < w /\ last = w + 17 /\ x = d + r /\ x < w /\ dot < LastShown
  BY <1>2, <1>3, SpriteZeroColumn, Sizes
<1>5. /\ dot' = dot + 1 /\ scanline' = scanline /\ line_start' = line_start
      /\ steady' /\ Visible' /\ (Looks' <=> Looks) /\ LookDot' = LookDot
      /\ \A c : OverlapAt(c)' <=> OverlapAt(c)
  BY <1>2, <1>4, LineKept DEF Rendering
<1>6. PICK e \in Nat : e = d + 1 /\ e = dot'
  BY <1>3, <1>5
<1>7. \A c \in Nat : c \in HitColumns <=> OverlapAt(c)
  BY <1>2, <1>5, HitColumnsMean DEF PictureInv
<1>8. LooksAhead
  BY <1>2, LooksAheadWhere
<1>9. ~Overlaps /\ ~overlapped'
  <2>1. ~OverlapAt(dot)
    <3>1. ~(dot > LookDot)
      BY <1>3
    <3> QED BY <1>2, <1>3, <3>1, OverlapWhere
  <2> QED BY <1>2, <2>1 DEF Unmet
<1>10. CASE HitColumns = {}
  <2>1. looked.target = NoTarget /\ looked.armed = Armed
    BY <1>1, <1>8, <1>10, LookaheadCases
  <2>2. ~sp_frame_hit_lookahead'
    BY <1>2, <2>1, Zenon DEF Unmet
  <2>3. hit_target' = NoTarget /\ ~sprite_hit'
    BY <1>2, <2>1 DEF Unmet
  <2>4. ASSUME NEW c \in dot'..LastDot
        PROVE  ~OverlapAt(c)'
    <3>1. c \in Nat
      BY <1>3, <1>6
    <3> QED BY <1>5, <1>7, <1>10, <3>1
  <2>5. LastDot' = LastDot /\ NoTarget' = NoTarget
    BY DEF LastDot, CopyDot, LastShown, NoTarget, PreRender
  <2> QED BY <1>9, <2>2, <2>3, <2>4, <2>5 DEF Unmet
<1>11. CASE HitColumns # {}
  <2>1. ~Armed
    BY <1>2 DEF Unmet
  <2>2. looked.target = Target(scanline, FirstHit) /\ looked.armed = TRUE
    BY <1>1, <1>8, <1>11, <2>1, LookaheadCases DEF Target
  <2>3. /\ FirstHit \in HitColumns /\ \A other \in HitColumns : FirstHit <= other
        /\ FirstHit \in (x + 1)..(x + 8)
    BY <1>2, <1>3, <1>11, FirstHitWhere
  <2>f. PICK f \in (x + 1)..(x + 8) : f = FirstHit
    BY <2>3, Zenon
  <2>4. PICK c \in Nat : c = FirstHit /\ c >= d + 1 /\ c <= last
    <3>1. f \in Nat /\ f >= d + 1 /\ f <= last
      BY <1>4
    <3> QED BY <2>f, <3>1
  <2>5. looked.target # Here
    <3>1. Here = Target(scanline, d) /\ c # d
      BY <1>3, <2>4 DEF Here, Target
    <3> QED BY <2>2, <2>4, <3>1, Targets
  <2>6. sp_frame_hit_lookahead' /\ hit_target' = Target(scanline', c) /\ ~sprite_hit'
    <3>1. sp_frame_hit_lookahead'
      BY <1>2, <2>2, Zenon
    <3>2. hit_target' = Target(scanline, c) /\ ~sprite_hit'
      BY <1>2, <2>2, <2>4, <2>5 DEF Unmet
    <3> QED BY <1>5, <3>1, <3>2
  <2>7. dot' > LookDot'
    <3>1. e > d
      BY <1>6
    <3>2. LookDot' = d
      BY <1>3, <1>5, Zenon
    <3> QED BY <1>6, <3>1, <3>2, Zenon
  <2>8. OverlapAt(c)' /\ Looks'
    BY <1>5, <1>7, <2>3, <2>4
  <2>9. ASSUME NEW other \in dot'..LastDot, other < c
        PROVE  ~OverlapAt(other)'
    <3>1. other \in Nat
      BY <1>3, <1>6
    <3>2. other \notin HitColumns
      BY <2>3, <2>4, <2>9, <3>1
    <3> QED BY <1>5, <1>7, <3>1, <3>2
  <2>10. Foresees(c)'
    BY <1>9, <2>6, <2>7, <2>8, <2>9 DEF Foresees, Target, LastDot, CopyDot, LastShown
  <2>11. c \in dot'..LastDot
    BY <1>3, <1>6, <2>4
  <2> QED BY <2>10, <2>11
<1> QED BY <1>10, <1>11

(* Every dot.                                                               *)
LEMMA HitClock ==
  ASSUME HitBasis, HitInv, PictureInv', ClockPixel
  PROVE  HitInv'
<1> USE DEF HitBasis
<1>1. PictureTypeOK /\ PictureTypeOK' /\ (calm' => calm \/ FrameStarts)
  BY DEF PictureInv, ClockPixel, See
<1>2. PICK d \in Nat, last \in Nat, line \in Nat, v \in Nat :
        d = dot /\ last = LastDot /\ line = scanline /\ v = LastVisible
  BY <1>1, Sizes DEF PictureTypeOK
<1>3. PreRender = v + 1 /\ line <= v + 1 /\ d <= last /\ last > 0
  BY <1>1, <1>2, Sizes DEF PictureTypeOK
<1>4. PICK e \in Nat, next \in Nat : e = dot' /\ next = scanline'
  BY <1>1, Sizes DEF PictureTypeOK
<1>5. /\ d = last => e = 0 /\ next = IF line = v + 1 THEN 0 ELSE line + 1
      /\ d # last => e = d + 1 /\ next = line
  BY <1>2, <1>3, <1>4 DEF ClockPixel, clock_ppu, NextDot, LineEnds
<1>6. ASSUME calm', line = v + 1
      PROVE  ~sp_frame_hit_lookahead' /\ hit_target' = NoTarget /\ ~sprite_hit' /\ ~overlapped'
  <2>1. scanline = PreRender
    BY <1>2, <1>3, <1>6
  <2>2. CASE FrameStarts
    BY <1>6, <2>1, <2>2, NothingOnPreRender
  <2>3. CASE ~FrameStarts
    <3>1. calm
      BY <1>1, <1>6, <2>3
    <3>2. dot > 0
      <4>1. d # 0
        BY <1>2, <2>1, <2>3 DEF FrameStarts
      <4> QED BY <1>2, <4>1
    <3>3. ~sp_frame_hit_lookahead /\ ~sprite_hit /\ ~overlapped
      BY <2>1, <3>1, <3>2 DEF HitInv
    <3> QED BY <1>6, <2>1, <3>3, NothingOnPreRender
  <2> QED BY <2>2, <2>3
<1>7. ASSUME calm', scanline' = PreRender, dot' > 0
      PROVE  ~sp_frame_hit_lookahead' /\ hit_target' = NoTarget /\ ~sprite_hit' /\ ~overlapped'
  <2>1. next = v + 1 /\ e > 0
    BY <1>3, <1>4, <1>7, Zenon
  <2> QED BY <1>5, <1>6, <1>7, <2>1
<1>8. ASSUME calm', ~sprite_overflow', Foreseen', ~(scanline' = PreRender /\ dot' > 0)
      PROVE  Unmet' \/ Met' \/ \E c \in dot'..LastDot : Foresees(c)'
  <2>1. CASE line = v + 1
    <3>1. next = 0 /\ e = 0
      <4>1. ~(next = v + 1 /\ e > 0)
        BY <1>3, <1>4, <1>8, Zenon
      <4> QED BY <1>5, <2>1, <4>1
    <3>2. ~Looks'
      <4>1. 0 \notin 1..LastVisible
        BY Sizes
      <4> QED BY <1>4, <3>1, <4>1 DEF Looks
    <3>3. NoTarget' = NoTarget
      BY DEF NoTarget, PreRender
    <3> QED BY <1>6, <1>8, <2>1, <3>2, <3>3 DEF Unmet
  <2>2. CASE line # v + 1
    <3>1. Visible /\ scanline # PreRender
      BY <1>2, <1>3, <2>2 DEF Visible
    <3>2. calm /\ ~sprite_overflow
      <4>1. PICK looked : looked = Lookahead(Armed)
        OBVIOUS
      <4> QED BY <1>8, <3>1, <4>1, OnVisibleLine
    <3>3. Foreseen
      BY <1>8 DEF ClockPixel, clock_ppu, memory_vars, written_vars, Foreseen, SpriteZero
    <3>4. Unmet \/ Met \/ \E c \in dot..LastDot : Foresees(c)
      BY <3>1, <3>2, <3>3 DEF HitInv
    <3>5. CASE Unmet
      BY <1>8, <3>1, <3>3, <3>5, UnmetElsewhere, UnmetLooks
    <3>6. CASE Met
      BY <1>8, <3>1, <3>6, MetStays
    <3>7. CASE \E c \in dot..LastDot : Foresees(c)
      <4>1. PICK c \in dot..LastDot : Foresees(c)
        BY <3>7
      <4> QED BY <1>8, <3>1, <4>1, ForeseenMet
    <3> QED BY <3>4, <3>5, <3>6, <3>7
  <2> QED BY <2>1, <2>2
<1>9. LastDot' = LastDot /\ NoTarget' = NoTarget /\ PreRender' = PreRender
  BY DEF LastDot, CopyDot, LastShown, NoTarget, PreRender
<1> QED BY <1>7, <1>8, <1>9 DEF HitInv

LEMMA HitKept ==
  ASSUME UNCHANGED <<scanline, dot, fine_x, ppu_mask, line_start, oam, pattern>>,
         UNCHANGED <<hit_vars, overlapped>>, calm, HitInv
  PROVE  HitInv'
<1>1. \A c : OverlapAt(c)' <=> OverlapAt(c)
  BY DEF OverlapAt, PixelAt, Clips, Opaque, SpriteZero
<1>2. (Looks' <=> Looks) /\ LookDot' = LookDot /\ (Foreseen' <=> Foreseen)
  BY DEF Looks, InRange, LookDot, SpriteZero, Foreseen
<1>3. LastDot' = LastDot /\ NoTarget' = NoTarget /\ PreRender' = PreRender
  BY DEF LastDot, CopyDot, LastShown, NoTarget, PreRender
<1>4. /\ UNCHANGED <<hit_target, sp_frame_hit_lookahead, sprite_hit, sprite_overflow>>
      /\ UNCHANGED <<scanline, dot, overlapped>>
  BY DEF hit_vars
<1>5. /\ Unmet => Unmet'
      /\ Met => Met'
      /\ \A c : Foresees(c) => Foresees(c)'
  <2>1. Unmet => Unmet'
    BY <1>1, <1>2, <1>3, <1>4 DEF Unmet
  <2>2. Met => Met'
    BY <1>3, <1>4 DEF Met
  <2>3. ASSUME NEW c, Foresees(c)
        PROVE  Foresees(c)'
    BY <1>1, <1>2, <1>3, <1>4, <2>3 DEF Foresees
  <2> QED BY <2>1, <2>2, <2>3
<1> QED BY <1>2, <1>3, <1>4, <1>5 DEF HitInv

LEMMA OutputInvStep ==
  ASSUME OutputInv, [OutputNext]_output_vars
  PROVE  OutputInv'
<1> USE DEF OutputInv
<1>1. ShownInv'
  BY ShownStep DEF ShownInv
<1>2. CASE ClockPixel
  <2>1. TargetInv'
    BY <1>2, TargetClock DEF PictureInv
  <2>2. HitInv'
    BY <1>1, <1>2, HitClock DEF HitBasis, ShownInv
  <2> QED BY <1>1, <2>1, <2>2 DEF ShownInv
<1>3. CASE Program
  <2>1. TargetInv'
    BY <1>3, ProgramParts DEF ppu_vars, hit_vars, TargetInv, NoTarget, LastDot, CopyDot, LastShown
  <2>2. CASE calm'
    <3>1. /\ calm /\ UNCHANGED <<scanline, dot, fine_x, ppu_mask, line_start, oam, pattern>>
          /\ UNCHANGED <<hit_vars, overlapped>>
      BY <1>3, <2>2, ProgramParts DEF Untouched, ppu_vars
    <3>2. HitInv'
      BY <3>1, HitKept
    <3> QED BY <1>1, <2>1, <3>2 DEF ShownInv
  <2>3. CASE ~calm'
    <3>1. HitInv'
      BY <2>3 DEF HitInv
    <3> QED BY <1>1, <2>1, <3>1 DEF ShownInv
  <2> QED BY <2>2, <2>3
<1>4. CASE UNCHANGED output_vars
  <2>1. UNCHANGED <<picture_vars, memory_vars, hit_vars, seen_vars>>
    BY <1>4 DEF output_vars
  <2>2. /\ UNCHANGED <<scanline, dot, fine_x, ppu_mask, line_start, oam, pattern>>
        /\ UNCHANGED <<hit_vars, overlapped, calm>>
    BY <2>1 DEF picture_vars, ppu_vars, written_vars, memory_vars, seen_vars
  <2>3. TargetInv'
    BY <2>2 DEF hit_vars, TargetInv, NoTarget, LastDot, CopyDot, LastShown
  <2>4. HitInv'
    <3>1. CASE calm
      BY <2>2, <3>1, HitKept
    <3>2. CASE ~calm
      BY <2>2, <3>2 DEF HitInv
    <3> QED BY <3>1, <3>2
  <2> QED BY <1>1, <2>3, <2>4 DEF ShownInv
<1> QED BY <1>2, <1>3, <1>4 DEF OutputNext

(* In a frame that nothing disturbs bit 6 of $2002 tells at every dot       *)
(* whether sprite 0 has met the background, although it is set by a         *)
(* look-ahead (sprite_hit_lookahead, ppu.c:915) that compares the two up    *)
(* to fifteen dots before they are drawn.                                   *)
THEOREM HitWhereDrawn == OutputSpec => []HitAsDrawn
<1>1. OutputInit => OutputInv
  <2>1. OutputInit => TargetInv /\ HitInv
    BY DEF OutputInit, TargetInv, HitInv
  <2> QED BY <2>1, OutputInitial DEF OutputInv
<1>2. OutputInv /\ [OutputNext]_output_vars => OutputInv'
  BY OutputInvStep
<1>3. OutputInv => HitAsDrawn
  <2> SUFFICES ASSUME OutputInv, calm, ~sprite_overflow, Foreseen
               PROVE  sprite_hit = overlapped
    BY DEF HitAsDrawn
  <2>1. sprite_hit \in BOOLEAN /\ overlapped \in BOOLEAN
    BY DEF OutputInv, OutputTypeOK
  <2>2. (sprite_hit /\ overlapped) \/ (~sprite_hit /\ ~overlapped)
    BY DEF OutputInv, HitInv, Unmet, Met, Foresees
  <2> QED BY <2>1, <2>2
<1> QED BY <1>1, <1>2, <1>3, PTL DEF OutputSpec
=============================================================================
