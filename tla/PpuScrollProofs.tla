--------------------------- MODULE PpuScrollProofs ---------------------------
(***************************************************************************)
(* Proofs about PpuScroll for nametables of every size, tiles of every     *)
(* height and every content of the memory the program starts with.         *)
(***************************************************************************)
EXTENDS PpuScrollHistory, TLAPS

(* Rows of groups of rows: the arithmetic of the two bytes of an address.  *)
LEMMA RowsOfGroups == TileRows \in Nat \ {0}
BY NametableAssumption DEF TileRows

LEMMA FineRowsEven == FineRows \in Nat /\ FineRows >= 2 /\ FineRows \div 2 \in 1..FineRows
BY NametableAssumption

LEMMA HighRows ==
  ASSUME NEW q \in 0..RowGroups - 1, NEW m \in 0..RowSplit - 1
  PROVE  q * RowSplit + m \in 0..TileRows - 1
<1>1. RowGroups \in Nat /\ RowSplit \in Nat \ {0} /\ q \in Nat /\ q + 1 <= RowGroups
  BY NametableAssumption
<1>2. (q + 1) * RowSplit <= RowGroups * RowSplit
  BY <1>1
<1>3. (q + 1) * RowSplit = q * RowSplit + RowSplit
  BY <1>1
<1>4. q * RowSplit \in Nat /\ RowGroups * RowSplit \in Nat
  BY <1>1
<1> QED BY <1>1, <1>2, <1>3, <1>4 DEF TileRows

LEMMA Remainder ==
  ASSUME NEW c \in 0..TileRows - 1
  PROVE  /\ c % RowSplit \in 0..RowSplit - 1
         /\ \E q \in 0..RowGroups - 1 : c - (c % RowSplit) = q * RowSplit
<1>1. RowGroups \in Nat /\ RowSplit \in Nat \ {0} /\ c \in Nat
  BY NametableAssumption, RowsOfGroups
<1>2. c % RowSplit \in 0..RowSplit - 1 /\ c \div RowSplit \in Int
  BY <1>1
<1>3. c = RowSplit * (c \div RowSplit) + (c % RowSplit)
  BY <1>1
<1> DEFINE q == c \div RowSplit
<1>4. c - (c % RowSplit) = q * RowSplit
  BY <1>1, <1>2, <1>3
<1>5. q * RowSplit < RowGroups * RowSplit /\ q * RowSplit > 0 - RowSplit
  BY <1>1, <1>2, <1>4, RowsOfGroups DEF TileRows
<1> HIDE DEF q
<1>6. q \in Int
  BY <1>2 DEF q
<1>7. q < RowGroups
  <2> SUFFICES ASSUME q >= RowGroups PROVE FALSE
    BY <1>1, <1>6
  <2>1. q * RowSplit >= RowGroups * RowSplit
    BY <1>1, <1>6
  <2> QED BY <2>1, <1>5, <1>1, <1>6
<1>8. q >= 0
  <2> SUFFICES ASSUME q <= 0 - 1 PROVE FALSE
    BY <1>6
  <2>1. q * RowSplit <= (0 - 1) * RowSplit
    BY <1>1, <1>6
  <2> QED BY <2>1, <1>5, <1>1, <1>6
<1>9. q \in 0..RowGroups - 1
  BY <1>1, <1>6, <1>7, <1>8
<1>10. \E p \in 0..RowGroups - 1 : c - (c % RowSplit) = p * RowSplit
  BY <1>9, <1>4
<1> QED BY <1>2, <1>10

-----------------------------------------------------------------------------
(* Every way to move an address keeps its fields within their bits.        *)

LEMMA FieldsType ==
  ASSUME NEW a \in Addr
  PROVE  /\ \A y \in 0..TileRows - 1 : [a EXCEPT !.coarse_y = y] \in Addr
         /\ \A x \in 0..TileColumns - 1 : [a EXCEPT !.coarse_x = x] \in Addr
         /\ \A f \in 0..FineRows - 1 : [a EXCEPT !.fine_y = f] \in Addr
         /\ \A f \in 0..FineRows - 1, y \in 0..TileRows - 1 :
              [a EXCEPT !.fine_y = f, !.coarse_y = y] \in Addr
         /\ \A f \in 0..FineRows - 1, y \in 0..TileRows - 1, v \in 0..1 :
              [a EXCEPT !.fine_y = f, !.coarse_y = y, !.nt_v = v] \in Addr
         /\ \A x \in 0..TileColumns - 1, h \in 0..1 :
              [a EXCEPT !.coarse_x = x, !.nt_h = h] \in Addr
         /\ \A h \in 0..1 : [a EXCEPT !.nt_h = h] \in Addr
         /\ \A h, v \in 0..1 : [a EXCEPT !.nt_h = h, !.nt_v = v] \in Addr
         /\ \A h, v \in 0..1, f \in 0..FineRows - 1 :
              [a EXCEPT !.nt_h = h, !.nt_v = v, !.fine_y = f] \in Addr
         /\ \A h, v, m \in 0..1, f \in 0..FineRows - 1 :
              [a EXCEPT !.nt_h = h, !.nt_v = v, !.fine_y = f, !.msb = m] \in Addr
BY DEF Addr

LEMMA MovesType ==
  ASSUME NEW a \in Addr
  PROVE  /\ inc_vert_scroll(a) \in Addr
         /\ inc_horz_scroll(a) \in Addr
         /\ CarryNametable(a) \in Addr
         /\ Plus32(a) \in Addr
         /\ Plus1(a) \in Addr
<1>0. /\ 0 \in 0..FineRows - 1 /\ 0 \in 0..TileRows - 1 /\ 0 \in 0..TileColumns - 1
      /\ FineRows \in Nat /\ TileRows \in Nat /\ TileColumns \in Nat
      /\ 0 \in 0..1 /\ 1 \in 0..1
  BY NametableAssumption, RowsOfGroups, FineRowsEven
<1>a. ASSUME NEW b \in Addr
      PROVE  /\ b.msb \in 0..1 /\ 1 - b.msb \in 0..1
             /\ b.fine_y \in 0..FineRows - 1
             /\ b.nt_v \in 0..1 /\ 1 - b.nt_v \in 0..1
             /\ b.nt_h \in 0..1 /\ 1 - b.nt_h \in 0..1
             /\ b.coarse_y \in 0..TileRows - 1
             /\ b.coarse_x \in 0..TileColumns - 1
  BY DEF Addr
<1>b. ASSUME NEW b \in Addr
      PROVE  /\ b.fine_y < FineRows - 1 => b.fine_y + 1 \in 0..FineRows - 1
             /\ ~(b.fine_y < FineRows - 1) => b.fine_y = FineRows - 1
             /\ b.coarse_y < TileRows - 1 => b.coarse_y + 1 \in 0..TileRows - 1
             /\ b.coarse_x < TileColumns - 1 => b.coarse_x + 1 \in 0..TileColumns - 1
             /\ b.coarse_x # TileColumns - 1 => b.coarse_x + 1 \in 0..TileColumns - 1
             /\ (b.coarse_y + 1) % TileRows \in 0..TileRows - 1
  BY <1>a, <1>0, RowsOfGroups
<1>1. inc_vert_scroll(a) \in Addr
  <2>1. CASE a.fine_y < FineRows - 1
    <3>1. inc_vert_scroll(a) = [a EXCEPT !.fine_y = a.fine_y + 1]
      BY <2>1, <1>a, <1>0 DEF inc_vert_scroll
    <3> QED BY <3>1, <2>1, <1>b, FieldsType
  <2>2. CASE ~(a.fine_y < FineRows - 1) /\ a.coarse_y = VisibleRows - 1
    <3>1. inc_vert_scroll(a) = [a EXCEPT !.fine_y = 0, !.coarse_y = 0, !.nt_v = 1 - a.nt_v]
      BY <2>2, <1>b DEF inc_vert_scroll
    <3>2. [a EXCEPT !.fine_y = 0, !.coarse_y = 0, !.nt_v = 1 - a.nt_v] \in Addr
      BY <1>a, <1>0, FieldsType
    <3> QED BY <3>1, <3>2
  <2>3. CASE ~(a.fine_y < FineRows - 1) /\ a.coarse_y # VisibleRows - 1
    <3>1. inc_vert_scroll(a) = [a EXCEPT !.fine_y = 0, !.coarse_y = (a.coarse_y + 1) % TileRows]
      BY <2>3, <1>b DEF inc_vert_scroll
    <3>2. [a EXCEPT !.fine_y = 0, !.coarse_y = (a.coarse_y + 1) % TileRows] \in Addr
      BY <1>b, <1>0, FieldsType
    <3> QED BY <3>1, <3>2
  <2> QED BY <2>1, <2>2, <2>3
<1>2. inc_horz_scroll(a) \in Addr
  <2>1. [a EXCEPT !.coarse_x = 0, !.nt_h = 1 - a.nt_h] \in Addr
    BY <1>0, <1>a, FieldsType
  <2>2. ASSUME a.coarse_x # TileColumns - 1
        PROVE  [a EXCEPT !.coarse_x = a.coarse_x + 1] \in Addr
    BY <1>b, <2>2, FieldsType
  <2> QED BY <2>1, <2>2 DEF inc_horz_scroll
<1>3. ASSUME NEW b \in Addr PROVE CarryNametable(b) \in Addr
  <2>1. /\ [b EXCEPT !.nt_h = 1] \in Addr
        /\ [b EXCEPT !.nt_h = 0, !.nt_v = 1] \in Addr
        /\ [b EXCEPT !.nt_h = 0, !.nt_v = 0, !.fine_y = 0, !.msb = 1 - b.msb] \in Addr
    BY <1>0, <1>a, FieldsType
  <2>2. ASSUME b.fine_y < FineRows - 1
        PROVE  [b EXCEPT !.nt_h = 0, !.nt_v = 0, !.fine_y = b.fine_y + 1] \in Addr
    BY <1>0, <1>b, <2>2, FieldsType
  <2>3. b.nt_h \in {0, 1} /\ b.nt_v \in {0, 1}
    BY <1>a
  <2> QED BY <2>1, <2>2, <2>3 DEF CarryNametable
<1>4. ASSUME NEW b \in Addr PROVE Plus32(b) \in Addr
  <2>1. [b EXCEPT !.coarse_y = 0] \in Addr
    BY <1>0, FieldsType
  <2>2. ASSUME b.coarse_y < TileRows - 1
        PROVE  [b EXCEPT !.coarse_y = b.coarse_y + 1] \in Addr
    BY <1>b, <2>2, FieldsType
  <2> QED BY <1>3, <2>1, <2>2 DEF Plus32
<1>5. Plus1(a) \in Addr
  <2>1. [a EXCEPT !.coarse_x = 0] \in Addr
    BY <1>0, FieldsType
  <2>2. ASSUME a.coarse_x < TileColumns - 1
        PROVE  [a EXCEPT !.coarse_x = a.coarse_x + 1] \in Addr
    BY <1>b, <2>2, FieldsType
  <2> QED BY <1>4, <2>1, <2>2 DEF Plus1
<1> QED BY <1>1, <1>2, <1>3, <1>4, <1>5

-----------------------------------------------------------------------------
(* What a dot makes of v.                                                  *)
LEMMA RasterType ==
  ASSUME NEW a \in Addr, vram_tmp_addr \in Addr, NEW l, NEW c
  PROVE  Incremented(Copied(a, l, c), l, c) \in Addr
<1>1. CopyHorz(a) \in Addr
  BY DEF Addr, CopyHorz
<1>2. CopyVert(a) \in Addr
  BY DEF Addr, CopyVert
<1>3. Copied(a, l, c) \in Addr
  BY <1>1, <1>2 DEF Copied
<1> QED BY <1>3, MovesType DEF Incremented

LEMMA TypeInit == Init => TypeOK
<1> SUFFICES ASSUME Init PROVE TypeOK
  OBVIOUS
<1>1. vram_addr \in Addr /\ vram_tmp_addr \in Addr
  BY ProgramAssumption DEF Init
<1>2. PostRender \in Nat
  BY NametableAssumption, FineRowsEven, RowsOfGroups DEF PostRender
<1>3. scanline \in 0..PreRender /\ cycle \in 0..LastDot
  BY <1>2, NametableAssumption DEF Init, PreRender, LastDot, HorzCopy
<1>4. fine_x \in 0..FineColumns - 1
  BY NametableAssumption DEF Init
<1> QED BY <1>1, <1>3, <1>4 DEF Init, TypeOK

LEMMA BeamType ==
  ASSUME TypeOK, clock_ppu
  PROVE  scanline' \in 0..PreRender /\ cycle' \in 0..LastDot
<1>1. PostRender \in Nat
  BY NametableAssumption, FineRowsEven, RowsOfGroups DEF PostRender
<1>2. PreRender \in Nat
  BY <1>1 DEF PreRender
<1>3. LastDot \in Nat
  BY NametableAssumption DEF LastDot, HorzCopy
<1>4. (scanline + 1) % (PreRender + 1) \in 0..PreRender
  BY <1>2 DEF TypeOK
<1>5. scanline' \in 0..PreRender
  BY <1>4 DEF TypeOK, clock_ppu
<1>6. cycle' \in 0..LastDot
  BY <1>3 DEF TypeOK, clock_ppu, LineEnds
<1> QED BY <1>5, <1>6

LEMMA TypeStep == TypeOK /\ [Next]_vars => TypeOK'
<1> SUFFICES ASSUME TypeOK, [Next]_vars PROVE TypeOK'
  OBVIOUS
<1>1. CASE UNCHANGED vars
  BY <1>1 DEF TypeOK, vars, beam, ports
<1>2. CASE clock_ppu
  <2>1. vram_addr' \in Addr
    BY <1>2, RasterType DEF TypeOK, clock_ppu
  <2>2. UNCHANGED ports
    BY <1>2 DEF clock_ppu
  <2>3. scanline' \in 0..PreRender /\ cycle' \in 0..LastDot
    BY <1>2, BeamType
  <2> QED BY <2>1, <2>2, <2>3 DEF TypeOK, ports
<1>3. CASE Ctrl
  <2> PICK v \in 0..1, h \in 0..1, inc \in BOOLEAN : write_2000(v, h, inc)
    BY <1>3 DEF Ctrl
  <2>1. vram_tmp_addr' \in Addr
    BY DEF write_2000, Addr, TypeOK
  <2> QED BY <2>1 DEF write_2000, TypeOK, beam
<1>4. CASE Mask
  BY <1>4, ProgramAssumption DEF Mask, write_2001, TypeOK, beam
<1>5. CASE Status
  BY <1>5 DEF Status, read_2002, TypeOK, beam
<1>6. CASE ScrollX
  <2> PICK coarse \in 0..TileColumns - 1, fine \in 0..FineColumns - 1 : write_2005_first(coarse, fine)
    BY <1>6 DEF ScrollX
  <2>1. vram_tmp_addr' \in Addr
    BY FieldsType DEF write_2005_first, TypeOK
  <2> QED BY <2>1 DEF write_2005_first, TypeOK, beam
<1>7. CASE ScrollY
  <2> PICK coarse \in 0..TileRows - 1, fine \in 0..FineRows - 1 : write_2005_second(coarse, fine)
    BY <1>7 DEF ScrollY
  <2>1. vram_tmp_addr' \in Addr
    BY DEF write_2005_second, TypeOK, Addr
  <2> QED BY <2>1 DEF write_2005_second, TypeOK, beam
<1>8. CASE AddrHigh
  <2> PICK hi \in HighByte : write_2006_first(hi)
    BY <1>8 DEF AddrHigh
  <2> DEFINE low == vram_tmp_addr.coarse_y % RowSplit
             row == hi.rows * RowSplit + low
  <2>1. hi.fine_y \in 0..FineRows - 1
    <3>1. hi.fine_y \in 0..(FineRows \div 2) - 1
      BY DEF HighByte
    <3> QED BY <3>1, FineRowsEven
  <2>2. hi.nt_v \in 0..1 /\ hi.nt_h \in 0..1 /\ hi.rows \in 0..RowGroups - 1
    BY DEF HighByte
  <2>3. low \in 0..RowSplit - 1
    BY Remainder DEF TypeOK, Addr
  <2>4. row \in 0..TileRows - 1
    BY <2>2, <2>3, HighRows
  <2>5. vram_tmp_addr' = [vram_tmp_addr EXCEPT !.fine_y = hi.fine_y, !.nt_v = hi.nt_v,
                                               !.nt_h = hi.nt_h, !.coarse_y = row]
    BY DEF write_2006_first
  <2> HIDE DEF row
  <2>6. vram_tmp_addr' \in Addr
    BY <2>1, <2>2, <2>4, <2>5 DEF TypeOK, Addr
  <2> QED BY <2>6 DEF write_2006_first, TypeOK, beam
<1>9. CASE AddrLow
  <2> PICK lo \in LowByte : write_2006_second(lo)
    BY <1>9 DEF AddrLow
  <2> DEFINE kept == vram_tmp_addr.coarse_y - (vram_tmp_addr.coarse_y % RowSplit)
             row == kept + lo.rows
  <2>1. lo.rows \in 0..RowSplit - 1 /\ lo.coarse_x \in 0..TileColumns - 1
    BY DEF LowByte
  <2>2. vram_tmp_addr.coarse_y \in 0..TileRows - 1
    BY DEF TypeOK, Addr
  <2>3. PICK q \in 0..RowGroups - 1 : kept = q * RowSplit
    BY <2>2, Remainder
  <2>4. row \in 0..TileRows - 1
    BY <2>1, <2>3, HighRows
  <2>5. vram_tmp_addr' = [vram_tmp_addr EXCEPT !.coarse_y = row, !.coarse_x = lo.coarse_x]
    BY DEF write_2006_second
  <2> HIDE DEF row
  <2>6. vram_tmp_addr' \in Addr
    BY <2>1, <2>4, <2>5 DEF TypeOK, Addr
  <2> QED BY <2>6 DEF write_2006_second, TypeOK, beam
<1>10. CASE Data
  <2>1. vram_addr' \in Addr
    BY <1>10, MovesType DEF Data, access_2007, ppu_vram_addr_inc, TypeOK
  <2> QED BY <1>10, <2>1 DEF Data, access_2007, TypeOK, beam, ports
<1> QED
  BY <1>1, <1>2, <1>3, <1>4, <1>5, <1>6, <1>7, <1>8, <1>9, <1>10 DEF Next

(* Every field of v and t stays within its bits, whatever the registers    *)
(* are written and wherever the beam is.                                   *)
THEOREM TypeCorrect == Spec => []TypeOK
BY TypeInit, TypeStep, PTL DEF Spec

-----------------------------------------------------------------------------
(* The history only watches: each of its steps is one of PpuScroll.        *)
LEMMA HistoryStep == [HistoryNext]_history_vars => [Next]_vars
<1>1. UNCHANGED history_vars => UNCHANGED vars
  BY DEF history_vars
<1>2. BeginAddress => AddrHigh
  BY DEF BeginAddress, AddrHigh
<1>3. EndAddress => AddrLow
  BY DEF EndAddress, AddrLow
<1> QED
  BY <1>1, <1>2, <1>3 DEF HistoryNext, Next, Raster, SetCtrl, SetMask, ResetLatch, SetScroll,
     UncountedAddress, Access

LEMMA HistoryType == HistorySpec => []TypeOK
<1>1. HistoryInit => TypeOK
  BY TypeInit DEF HistoryInit
<1>2. TypeOK /\ [HistoryNext]_history_vars => TypeOK'
  BY HistoryStep, TypeStep
<1> QED BY <1>1, <1>2, PTL DEF HistorySpec

-----------------------------------------------------------------------------
LatchInv == latch \in {"unknown", "first", "second"} /\ write_toggle \in BOOLEAN /\ ToggleIsCounted

LEMMA LatchStep == LatchInv /\ [HistoryNext]_history_vars => LatchInv'
<1> SUFFICES ASSUME LatchInv, [HistoryNext]_history_vars PROVE LatchInv'
  OBVIOUS
<1> USE DEF LatchInv, ToggleIsCounted
<1>1. CASE UNCHANGED history_vars
  BY <1>1 DEF history_vars, vars, ports
<1>2. CASE Raster \/ Access
  BY <1>2 DEF Raster, clock_ppu, Access, Data, access_2007, ports
<1>3. CASE SetCtrl \/ SetMask
  BY <1>3 DEF SetCtrl, SetMask, Ctrl, Mask, write_2000, write_2001
<1>4. CASE ResetLatch
  BY <1>4 DEF ResetLatch, Status, read_2002
<1>5. CASE SetScroll
  BY <1>5 DEF SetScroll, ScrollX, ScrollY, write_2005_first, write_2005_second, Counted
<1>6. CASE BeginAddress
  BY <1>6 DEF BeginAddress, write_2006_first, Counted
<1>7. CASE EndAddress
  BY <1>7 DEF EndAddress, write_2006_second, Counted
<1>8. CASE UncountedAddress
  BY <1>8 DEF UncountedAddress, AddrHigh, AddrLow, write_2006_first, write_2006_second
<1> QED BY <1>1, <1>2, <1>3, <1>4, <1>5, <1>6, <1>7, <1>8 DEF HistoryNext

(* From the first read of $2002 on the program knows the toggle.           *)
THEOREM ToggleKnown == HistorySpec => []ToggleIsCounted
<1>1. HistoryInit => LatchInv
  BY DEF HistoryInit, Init, LatchInv, ToggleIsCounted
<1>2. LatchInv => ToggleIsCounted
  BY DEF LatchInv
<1> QED BY <1>1, <1>2, LatchStep, PTL DEF HistorySpec

-----------------------------------------------------------------------------
(* What the counters of tiles and dots say at the next dot.                *)
LEMMA WrapStep ==
  ASSUME NEW x \in Nat, NEW size \in Nat, x + 1 < 2 * size
  PROVE  Wrap(x + 1, size) = Wrap(Wrap(x, size) + 1, size)
BY DEF Wrap

LEMMA TileType ==
  ASSUME NEW a \in Addr
  PROVE  Tile(a) \in 0..2 * TileColumns - 1
<1>1. a.nt_h \in {0, 1} /\ a.coarse_x \in 0..TileColumns - 1
  BY DEF Addr
<1>2. CASE a.nt_h = 0
  BY <1>1, <1>2, NametableAssumption DEF Tile
<1>3. CASE a.nt_h = 1
  BY <1>1, <1>3, NametableAssumption DEF Tile
<1> QED BY <1>1, <1>2, <1>3

LEMMA TileStep ==
  ASSUME NEW a \in Addr
  PROVE  Tile(inc_horz_scroll(a)) = Wrap(Tile(a) + 1, 2 * TileColumns)
<1>1. a.nt_h \in {0, 1} /\ a.coarse_x \in 0..TileColumns - 1 /\ TileColumns \in Nat /\ TileColumns > 1
  BY NametableAssumption DEF Addr
<1>2. CASE a.coarse_x = TileColumns - 1
  <2>1. inc_horz_scroll(a).nt_h = 1 - a.nt_h /\ inc_horz_scroll(a).coarse_x = 0
    BY <1>2 DEF inc_horz_scroll, Addr
  <2>2. CASE a.nt_h = 0
    BY <1>1, <1>2, <2>1, <2>2 DEF Tile, Wrap
  <2>3. CASE a.nt_h = 1
    BY <1>1, <1>2, <2>1, <2>3 DEF Tile, Wrap
  <2> QED BY <2>2, <2>3, <1>1
<1>3. CASE a.coarse_x # TileColumns - 1
  <2>1. inc_horz_scroll(a).nt_h = a.nt_h /\ inc_horz_scroll(a).coarse_x = a.coarse_x + 1
    BY <1>3 DEF inc_horz_scroll, Addr
  <2>2. CASE a.nt_h = 0
    BY <1>1, <1>3, <2>1, <2>2 DEF Tile, Wrap
  <2>3. CASE a.nt_h = 1
    BY <1>1, <1>3, <2>1, <2>3 DEF Tile, Wrap
  <2> QED BY <2>2, <2>3, <1>1
<1> QED BY <1>2, <1>3

(* Moving down or copying the vertical bits leaves the tile alone.         *)
LEMMA TileKept ==
  ASSUME NEW a \in Addr
  PROVE  Tile(inc_vert_scroll(a)) = Tile(a) /\ Tile(CopyVert(a)) = Tile(a)
<1>1. inc_vert_scroll(a).nt_h = a.nt_h /\ inc_vert_scroll(a).coarse_x = a.coarse_x
  BY DEF inc_vert_scroll, Addr
<1>2. CopyVert(a).nt_h = a.nt_h /\ CopyVert(a).coarse_x = a.coarse_x
  BY DEF CopyVert, Addr
<1> QED BY <1>1, <1>2 DEF Tile

LEMMA Geometry ==
  /\ TileColumns \in Nat /\ TileColumns > 1 /\ CopyDots \in Nat /\ CopyDots >= 1
  /\ HorzCopy = TileColumns + 1
  /\ VertCopy = TileColumns + 2 .. TileColumns + 1 + CopyDots
  /\ Prefetch = TileColumns + 2 + CopyDots .. TileColumns + 3 + CopyDots
  /\ LastDot = TileColumns + 3 + CopyDots
  /\ PostRender \in Nat /\ PostRender > 0 /\ PreRender = PostRender + 1
<1>1. VisibleRows \in Nat /\ VisibleRows > 0 /\ FineRows \in Nat /\ FineRows > 0
  BY NametableAssumption, RowsOfGroups, FineRowsEven
<1>2. PostRender \in Nat /\ PostRender > 0
  BY <1>1 DEF PostRender
<1> QED BY <1>2, NametableAssumption DEF HorzCopy, VertCopy, Prefetch, LastDot, PreRender

(* Where the beam goes.                                                    *)
IdleLine == scanline = PostRender => cycle = 0

LEMMA NextDot ==
  ASSUME TypeOK, clock_ppu
  PROVE  /\ IdleLine'
         /\ \/ cycle' = 0 /\ scanline = PostRender /\ scanline' = PreRender
            \/ cycle' = 0 /\ cycle = LastDot /\ scanline # PostRender
                 /\ scanline' = IF scanline = PreRender THEN 0 ELSE scanline + 1
            \/ cycle' = cycle + 1 /\ cycle < LastDot /\ scanline' = scanline /\ scanline # PostRender
<1>1. scanline \in 0..PreRender /\ cycle \in 0..LastDot
  BY DEF TypeOK
<1>2. CASE LineEnds
  <2>1. cycle' = 0 /\ scanline' = (scanline + 1) % (PreRender + 1)
    BY <1>2 DEF clock_ppu
  <2>2. scanline # PreRender => scanline' = scanline + 1
    BY <2>1, <1>1, Geometry
  <2>3. scanline = PreRender => scanline' = 0
    BY <2>1, <1>1, Geometry
  <2> QED BY <1>1, <1>2, <2>1, <2>2, <2>3, Geometry DEF LineEnds, IdleLine
<1>3. CASE ~LineEnds
  BY <1>1, <1>3, Geometry DEF clock_ppu, LineEnds, IdleLine
<1> QED BY <1>2, <1>3

(* What the dot does to the tile while the background is shown.            *)
LEMMA TileMoves ==
  ASSUME TypeOK, clock_ppu, ppu_mask.bg, scanline' # PostRender
  PROVE  /\ cycle' = HorzCopy => Tile(vram_addr') = Tile(vram_tmp_addr)
         /\ cycle' \in 1..TileColumns \union Prefetch =>
              Tile(vram_addr') = Wrap(Tile(vram_addr) + 1, 2 * TileColumns)
         /\ cycle' \in {0} \union VertCopy => Tile(vram_addr') = Tile(vram_addr)
<1>0. vram_addr \in Addr /\ vram_tmp_addr \in Addr /\ cycle' \in 0..LastDot
  BY BeamType DEF TypeOK
<1>a. ppu_mask_bg_or_sprite_enabled
  BY DEF ppu_mask_bg_or_sprite_enabled
<1> DEFINE copied == Copied(vram_addr, scanline', cycle')
<1>1. vram_addr' = Incremented(copied, scanline', cycle')
  BY DEF clock_ppu
<1>2. ASSUME cycle' = HorzCopy PROVE Tile(vram_addr') = Tile(vram_tmp_addr)
  <2>1. copied = CopyHorz(vram_addr)
    BY <1>2 DEF Copied
  <2>2. vram_addr' = copied
    BY <1>1, <1>2, Geometry DEF Incremented
  <2> QED BY <2>1, <2>2, <1>0 DEF CopyHorz, Tile, Addr
<1>3. ASSUME cycle' \in 1..TileColumns \union Prefetch
      PROVE  Tile(vram_addr') = Wrap(Tile(vram_addr) + 1, 2 * TileColumns)
  <2>1. copied = vram_addr
    BY <1>3, Geometry DEF Copied
  <2>2. vram_addr' = inc_horz_scroll(vram_addr)
          \/ vram_addr' = inc_vert_scroll(inc_horz_scroll(vram_addr))
    BY <1>1, <1>3, <1>a, <2>1 DEF Incremented
  <2> QED BY <2>2, <1>0, MovesType, TileStep, TileKept
<1>4. ASSUME cycle' \in {0} \union VertCopy PROVE Tile(vram_addr') = Tile(vram_addr)
  <2>1. copied = vram_addr \/ copied = CopyVert(vram_addr)
    BY <1>4, Geometry DEF Copied
  <2>2. vram_addr' = copied
    BY <1>1, <1>4, Geometry DEF Incremented
  <2> QED BY <2>1, <2>2, <1>0, TileKept
<1> QED BY <1>2, <1>3, <1>4

-----------------------------------------------------------------------------
(* The column: the invariant also says that what is remembered is a tile,  *)
(* and that it is only while the background is shown.                      *)
ColumnInv ==
  /\ TypeOK
  /\ IdleLine
  /\ column \subseteq [nt_h: 0..1, coarse_x: 0..TileColumns - 1]
  /\ column # {} => ppu_mask.bg
  /\ RasterFollowsColumn

LEMMA ColumnRaster == ASSUME ColumnInv, Raster PROVE RasterFollowsColumn'
<1>0. TypeOK /\ clock_ppu /\ TypeOK' /\ cycle \in 0..LastDot
  BY HistoryStep, TypeStep DEF ColumnInv, Raster, HistoryNext, TypeOK
<1> SUFFICES ASSUME NEW left \in column'
             PROVE  Tile(vram_addr)' = Wrap(Tile(left) + TilesAcross', 2 * TileColumns)
  BY DEF RasterFollowsColumn
<1>1. CASE ppu_mask.bg /\ scanline' # PostRender /\ cycle' = HorzCopy
  <2>1. left = [nt_h |-> vram_tmp_addr.nt_h, coarse_x |-> vram_tmp_addr.coarse_x]
    BY <1>1 DEF Raster
  <2>2. Tile(left) = Tile(vram_tmp_addr)
    BY <2>1 DEF Tile
  <2>3. TilesAcross' = 0
    BY <1>1, Geometry DEF TilesAcross
  <2>4. Tile(vram_addr') = Tile(left) /\ Tile(left) \in 0..2 * TileColumns - 1
    BY <1>0, <1>1, <2>2, TileMoves, TileType DEF TypeOK
  <2> QED BY <2>3, <2>4, Geometry DEF Wrap
<1>2. CASE ~(ppu_mask.bg /\ scanline' # PostRender /\ cycle' = HorzCopy)
  <2>1. left \in column
    BY <1>2 DEF Raster
  <2>2. ppu_mask.bg /\ Tile(vram_addr) = Wrap(Tile(left) + TilesAcross, 2 * TileColumns)
    BY <2>1 DEF ColumnInv, RasterFollowsColumn
  <2>3. Tile(left) \in 0..2 * TileColumns - 1
    <3>1. left.nt_h \in {0, 1} /\ left.coarse_x \in 0..TileColumns - 1
      BY <2>1 DEF ColumnInv
    <3>2. CASE left.nt_h = 0
      BY <3>1, <3>2, Geometry DEF Tile
    <3>3. CASE left.nt_h = 1
      BY <3>1, <3>3, Geometry DEF Tile
    <3> QED BY <3>1, <3>2, <3>3
  <2>4. CASE scanline' = PostRender
    <3>1. vram_addr' = vram_addr
      BY <1>0, <2>4 DEF clock_ppu, Copied, Incremented
    <3>2. cycle' = 0 /\ cycle = LastDot
      BY <1>0, <2>4, NextDot, Geometry
    <3>3. TilesAcross' = 2 /\ TilesAcross = 2
      BY <3>2, Geometry DEF TilesAcross
    <3> QED BY <3>1, <3>3, <2>2
  <2>5. CASE scanline' # PostRender /\ cycle' \in 1..TileColumns \union Prefetch
    <3>1. cycle' = cycle + 1
      BY <1>0, <2>5, NextDot, Geometry
    <3>2. TilesAcross' = TilesAcross + 1 /\ TilesAcross \in 0..TileColumns + 1
      BY <3>1, <2>5, <1>0, Geometry DEF TilesAcross
    <3>3. Tile(vram_addr') = Wrap(Tile(vram_addr) + 1, 2 * TileColumns)
      BY <1>0, <2>2, <2>5, TileMoves
    <3>4. Tile(left) + TilesAcross \in Nat /\ 2 * TileColumns \in Nat
            /\ (Tile(left) + TilesAcross) + 1 < 2 * (2 * TileColumns)
      BY <3>2, <2>3, Geometry
    <3>5. Wrap((Tile(left) + TilesAcross) + 1, 2 * TileColumns)
            = Wrap(Wrap(Tile(left) + TilesAcross, 2 * TileColumns) + 1, 2 * TileColumns)
      BY <3>4, WrapStep
    <3>6. (Tile(left) + TilesAcross) + 1 = Tile(left) + TilesAcross'
      BY <3>2, <2>3
    <3> QED BY <3>3, <3>5, <3>6, <2>2
  <2>6. CASE scanline' # PostRender /\ cycle' \in {0} \union VertCopy
    <3>1. Tile(vram_addr') = Tile(vram_addr)
      BY <1>0, <2>2, <2>6, TileMoves
    <3>2. TilesAcross' = TilesAcross
      <4>1. CASE cycle' = 0 /\ scanline = PostRender
        BY <4>1, Geometry DEF TilesAcross, ColumnInv, IdleLine
      <4>2. CASE cycle' = 0 /\ cycle = LastDot
        BY <4>2, Geometry DEF TilesAcross
      <4>3. CASE cycle' = cycle + 1
        BY <4>3, <2>6, <1>0, Geometry DEF TilesAcross
      <4> QED BY <1>0, <4>1, <4>2, <4>3, NextDot
    <3> QED BY <3>1, <3>2, <2>2
  <2>7. cycle' \in {0} \union VertCopy \/ cycle' \in 1..TileColumns \union Prefetch
    <3>1. cycle' # HorzCopy \/ scanline' = PostRender
      BY <1>2, <2>2
    <3>2. cycle' \in 0..LastDot /\ (scanline' = PostRender => cycle' = 0)
      BY <1>0, NextDot DEF TypeOK, IdleLine
    <3> QED BY <3>1, <3>2, Geometry
  <2> QED BY <2>4, <2>5, <2>6, <2>7
<1> QED BY <1>1, <1>2

LEMMA ColumnStep == ColumnInv /\ [HistoryNext]_history_vars => ColumnInv'
<1> SUFFICES ASSUME ColumnInv, [HistoryNext]_history_vars PROVE ColumnInv'
  OBVIOUS
<1>0. TypeOK'
  BY HistoryStep, TypeStep DEF ColumnInv
<1>1. CASE Raster
  <2>1. IdleLine'
    BY <1>1, NextDot DEF ColumnInv, Raster
  <2>2. column' \subseteq [nt_h: 0..1, coarse_x: 0..TileColumns - 1]
    BY <1>1 DEF ColumnInv, Raster, TypeOK, Addr
  <2>3. column' # {} => ppu_mask'.bg
    BY <1>1 DEF ColumnInv, Raster, clock_ppu, ports
  <2> QED BY <1>0, <1>1, <2>1, <2>2, <2>3, ColumnRaster DEF ColumnInv
<1>2. ASSUME UNCHANGED <<beam, vram_addr, column>>, ppu_mask'.bg \/ UNCHANGED ppu_mask
      PROVE  ColumnInv'
  BY <1>0, <1>2 DEF ColumnInv, RasterFollowsColumn, TilesAcross, IdleLine, beam
<1>3. ASSUME UNCHANGED beam, column' = {} PROVE ColumnInv'
  BY <1>0, <1>3 DEF ColumnInv, RasterFollowsColumn, IdleLine, beam
<1>4. CASE UNCHANGED history_vars
  BY <1>4, <1>2 DEF history_vars, vars, ports, origin
<1>5. CASE SetCtrl
  BY <1>5, <1>2 DEF SetCtrl, Ctrl, write_2000, origin
<1>6. CASE SetMask
  BY <1>6, <1>2, <1>3 DEF SetMask, Mask, write_2001, origin, Forget
<1>7. CASE ResetLatch
  BY <1>7, <1>2 DEF ResetLatch, Status, read_2002, origin
<1>8. CASE SetScroll
  BY <1>8, <1>2 DEF SetScroll, ScrollX, ScrollY, write_2005_first, write_2005_second, origin
<1>9. CASE BeginAddress
  BY <1>9, <1>2 DEF BeginAddress, write_2006_first, origin
<1>10. CASE EndAddress
  BY <1>10, <1>3 DEF EndAddress, write_2006_second, Forget
<1>11. CASE UncountedAddress
  BY <1>11, <1>2, <1>3 DEF UncountedAddress, AddrHigh, AddrLow, write_2006_first,
     write_2006_second, Forget, origin
<1>12. CASE Access
  BY <1>12, <1>3 DEF Access, Data, access_2007, Forget
<1> QED
  BY <1>1, <1>4, <1>5, <1>6, <1>7, <1>8, <1>9, <1>10, <1>11, <1>12 DEF HistoryNext

(* The tile fetched is always the scroll position of the line, so many     *)
(* tiles to the right.                                                     *)
THEOREM ColumnFollows == HistorySpec => []RasterFollowsColumn
<1>1. HistoryInit => ColumnInv
  BY TypeInit, Geometry DEF HistoryInit, ColumnInv, IdleLine, RasterFollowsColumn, Init
<1>2. ColumnInv => RasterFollowsColumn
  BY DEF ColumnInv
<1> QED BY <1>1, <1>2, ColumnStep, PTL DEF HistorySpec

-----------------------------------------------------------------------------
(* Lines within one nametable, counted through the rows past the visible.  *)
Below(a) == a.coarse_y * FineRows + a.fine_y
Bottom == TileRows * FineRows
Upper(a) == IF a.nt_v = 0 THEN 0 ELSE PostRender

LEMMA RowsTimesLines ==
  ASSUME NEW n \in Nat, NEW y \in 0..n - 1, NEW f \in 0..FineRows - 1
  PROVE  /\ y * FineRows + f \in 0..n * FineRows - 1
         /\ y * FineRows + f + 1 = n * FineRows <=> y = n - 1 /\ f = FineRows - 1
         /\ (y + 1) * FineRows = y * FineRows + FineRows
<1>1. FineRows \in Nat /\ FineRows >= 2 /\ y \in Nat /\ f \in Nat /\ y + 1 <= n /\ f + 1 <= FineRows
  BY FineRowsEven
<1>2. y * FineRows \in Nat /\ n * FineRows \in Nat /\ (y + 1) * FineRows = y * FineRows + FineRows
  BY <1>1
<1>3. (y + 1) * FineRows <= n * FineRows
  BY <1>1
<1>4. y + 1 # n => (y + 2) * FineRows <= n * FineRows
  BY <1>1
<1>5. (y + 2) * FineRows = y * FineRows + FineRows + FineRows
  BY <1>1
<1>6. y = n - 1 => (y + 1) * FineRows = n * FineRows
  BY <1>1
<1> QED BY <1>1, <1>2, <1>3, <1>4, <1>5, <1>6

LEMMA BelowRange ==
  ASSUME NEW a, a.coarse_y \in 0..TileRows - 1, a.fine_y \in 0..FineRows - 1, a.nt_v \in 0..1
  PROVE  /\ Below(a) \in 0..Bottom - 1
         /\ a.coarse_y < VisibleRows => Below(a) \in 0..PostRender - 1
         /\ Line(a) = Upper(a) + Below(a)
         /\ LinesOutside(a) = IF a.coarse_y < VisibleRows THEN 0 ELSE Bottom - Below(a)
<1>0. /\ TileRows \in Nat /\ FineRows \in Nat /\ VisibleRows \in Nat
      /\ a.coarse_y \in Nat /\ a.fine_y \in Nat /\ a.nt_v \in {0, 1}
  BY RowsOfGroups, FineRowsEven, NametableAssumption
<1>1. Below(a) \in 0..Bottom - 1
  BY <1>0, RowsTimesLines DEF Below, Bottom
<1>2. ASSUME a.coarse_y < VisibleRows PROVE Below(a) \in 0..PostRender - 1
  <2>1. a.coarse_y \in 0..VisibleRows - 1
    BY <1>0, <1>2
  <2> QED BY <1>0, <2>1, RowsTimesLines DEF Below, PostRender
<1>3. Line(a) = Upper(a) + Below(a)
  <2>1. CASE a.nt_v = 0
    BY <1>0, <2>1 DEF Line, Upper, Below
  <2>2. CASE a.nt_v = 1
    <3>1. (VisibleRows + a.coarse_y) * FineRows = VisibleRows * FineRows + a.coarse_y * FineRows
      BY <1>0
    <3>2. a.nt_v * VisibleRows = VisibleRows
      BY <1>0, <2>2
    <3>3. VisibleRows * FineRows \in Nat /\ a.coarse_y * FineRows \in Nat
      BY <1>0
    <3>4. Line(a) = (VisibleRows + a.coarse_y) * FineRows + a.fine_y
      BY <3>2 DEF Line
    <3> QED BY <1>0, <2>2, <3>1, <3>3, <3>4 DEF Upper, Below, PostRender
  <2> QED BY <1>0, <2>1, <2>2
<1>4. (TileRows - a.coarse_y) * FineRows = TileRows * FineRows - a.coarse_y * FineRows
  BY <1>0
<1>5. TileRows * FineRows \in Nat /\ a.coarse_y * FineRows \in Nat
  BY <1>0
<1>6. LinesOutside(a) = IF a.coarse_y < VisibleRows THEN 0 ELSE Bottom - Below(a)
  BY <1>0, <1>4, <1>5 DEF LinesOutside, Bottom, Below
<1> QED BY <1>1, <1>2, <1>3, <1>6

(* One line down, as a number of lines.                                    *)
LEMMA BelowStep ==
  ASSUME NEW a \in Addr
  PROVE  LET b == inc_vert_scroll(a) IN
         /\ Below(a) + 1 < PostRender /\ a.coarse_y < VisibleRows =>
              /\ Below(b) = Below(a) + 1 /\ b.nt_v = a.nt_v /\ b.coarse_y < VisibleRows
         /\ Below(a) + 1 = PostRender /\ a.coarse_y < VisibleRows =>
              Below(b) = 0 /\ b.nt_v = 1 - a.nt_v /\ b.coarse_y < VisibleRows
         /\ Below(a) + 1 < Bottom /\ a.coarse_y >= VisibleRows =>
              Below(b) = Below(a) + 1 /\ b.nt_v = a.nt_v /\ b.coarse_y >= VisibleRows
         /\ Below(a) + 1 = Bottom /\ a.coarse_y >= VisibleRows =>
              Below(b) = 0 /\ b.nt_v = a.nt_v /\ b.coarse_y < VisibleRows
<1>0. /\ TileRows \in Nat /\ VisibleRows \in 1..TileRows /\ FineRows \in Nat /\ FineRows >= 2
      /\ a.coarse_y \in 0..TileRows - 1 /\ a.fine_y \in 0..FineRows - 1 /\ a.nt_v \in 0..1
  BY RowsOfGroups, FineRowsEven, NametableAssumption DEF Addr
<1> DEFINE b == inc_vert_scroll(a)
<1>1. CASE a.fine_y < FineRows - 1
  <2>1. b.fine_y = a.fine_y + 1 /\ b.coarse_y = a.coarse_y /\ b.nt_v = a.nt_v
    BY <1>1 DEF inc_vert_scroll, Addr
  <2>2. a.coarse_y * FineRows \in Nat
    BY <1>0
  <2>3. Below(b) = Below(a) + 1
    BY <2>1, <2>2, <1>0 DEF Below
  <2>4. a.coarse_y < VisibleRows => Below(a) + 1 # PostRender
    <3>1. ASSUME a.coarse_y < VisibleRows PROVE Below(a) + 1 # PostRender
      <4>1. a.coarse_y \in 0..VisibleRows - 1 /\ VisibleRows \in Nat
        BY <1>0, <3>1
      <4> QED BY <4>1, <1>0, <1>1, RowsTimesLines DEF Below, PostRender
    <3> QED BY <3>1
  <2>5. Below(a) + 1 # Bottom
    BY <1>0, <1>1, RowsTimesLines DEF Below, Bottom
  <2> HIDE DEF b
  <2>6. QED BY <1>0, <2>1, <2>3, <2>4, <2>5 DEF b
<1>2. CASE a.fine_y = FineRows - 1 /\ a.coarse_y = VisibleRows - 1
  <2> DEFINE other == 1 - a.nt_v
  <2>0. b = [a EXCEPT !.fine_y = 0, !.coarse_y = 0, !.nt_v = other]
    BY <1>0, <1>2 DEF inc_vert_scroll
  <2> HIDE DEF b, other
  <2>a. b.fine_y = 0 /\ b.coarse_y = 0 /\ b.nt_v = other
    BY <2>0 DEF Addr
  <2>1. b.fine_y = 0 /\ b.coarse_y = 0 /\ b.nt_v = 1 - a.nt_v
    BY <2>a DEF other
  <2>2. Below(b) = 0
    BY <2>1, <1>0 DEF Below
  <2>3. Below(a) + 1 = PostRender
    <3>1. a.coarse_y \in 0..VisibleRows - 1 /\ VisibleRows \in Nat
      BY <1>0, <1>2
    <3> QED BY <3>1, <1>0, <1>2, RowsTimesLines DEF Below, PostRender
  <2>4. PostRender \in Nat
    BY Geometry
  <2>5. QED BY <1>0, <1>2, <2>1, <2>2, <2>3, <2>4 DEF b
<1>3. CASE a.fine_y = FineRows - 1 /\ a.coarse_y # VisibleRows - 1 /\ a.coarse_y # TileRows - 1
  <2>1. (a.coarse_y + 1) % TileRows = a.coarse_y + 1
    BY <1>0, <1>3
  <2>2. b.fine_y = 0 /\ b.coarse_y = a.coarse_y + 1 /\ b.nt_v = a.nt_v
    BY <1>0, <1>3, <2>1 DEF inc_vert_scroll, Addr
  <2>3. (a.coarse_y + 1) * FineRows = a.coarse_y * FineRows + FineRows /\ a.coarse_y * FineRows \in Nat
    BY <1>0
  <2>4. Below(b) = Below(a) + 1
    BY <2>2, <2>3, <1>0, <1>3 DEF Below
  <2>5. a.coarse_y < VisibleRows => Below(a) + 1 # PostRender
    <3>1. ASSUME a.coarse_y < VisibleRows PROVE Below(a) + 1 # PostRender
      <4>1. a.coarse_y \in 0..VisibleRows - 1 /\ VisibleRows \in Nat
        BY <1>0, <3>1
      <4> QED BY <4>1, <1>0, <1>3, RowsTimesLines DEF Below, PostRender
    <3> QED BY <3>1
  <2>6. Below(a) + 1 # Bottom
    BY <1>0, <1>3, RowsTimesLines DEF Below, Bottom
  <2> HIDE DEF b
  <2>7. QED BY <1>0, <1>3, <2>2, <2>4, <2>5, <2>6 DEF b
<1>4. CASE a.fine_y = FineRows - 1 /\ a.coarse_y # VisibleRows - 1 /\ a.coarse_y = TileRows - 1
  <2>1. (a.coarse_y + 1) % TileRows = 0
    BY <1>0, <1>4
  <2>2. b.fine_y = 0 /\ b.coarse_y = 0 /\ b.nt_v = a.nt_v
    BY <1>0, <1>4, <2>1 DEF inc_vert_scroll, Addr
  <2>3. Below(b) = 0
    BY <2>2, <1>0 DEF Below
  <2>4. Below(a) + 1 = Bottom
    BY <1>0, <1>4, RowsTimesLines DEF Below, Bottom
  <2>5. Bottom \in Nat
    BY <1>0 DEF Bottom
  <2> HIDE DEF b
  <2>6. QED BY <1>0, <1>4, <2>2, <2>3, <2>4, <2>5 DEF b
<1> QED BY <1>0, <1>1, <1>2, <1>3, <1>4

-----------------------------------------------------------------------------
(* a is n lines below top; the first conjunct is what the property leaves  *)
(* to be inferred: whether a is in the rows past the visible ones.         *)
Top == [nt_v: 0..1, coarse_y: 0..TileRows - 1, fine_y: 0..FineRows - 1]

Start(top) == IF LinesOutside(top) = 0 THEN top ELSE [top EXCEPT !.coarse_y = 0, !.fine_y = 0]

Follows(a, top, n) ==
  /\ n < LinesOutside(top) <=> a.coarse_y >= VisibleRows
  /\ IF n < LinesOutside(top)
     THEN Line(a) = Line(top) + n /\ a.nt_v = top.nt_v
     ELSE Line(a) = Wrap(Line(Start(top)) + (n - LinesOutside(top)), 2 * PostRender)

SameRows(a, b) == a.nt_v = b.nt_v /\ a.coarse_y = b.coarse_y /\ a.fine_y = b.fine_y

LEMMA FollowsKept ==
  ASSUME NEW a, NEW b, NEW top, NEW n, SameRows(a, b), Follows(a, top, n)
  PROVE  Follows(b, top, n)
BY DEF SameRows, Follows, Line

(* Where a frame starts, and the facts about it as numbers of lines.       *)
LEMMA TopRange ==
  ASSUME NEW top \in Top
  PROVE  /\ Below(top) \in 0..Bottom - 1 /\ Upper(top) \in {0, PostRender}
         /\ Line(top) = Upper(top) + Below(top)
         /\ LinesOutside(top) = IF top.coarse_y < VisibleRows THEN 0 ELSE Bottom - Below(top)
         /\ LinesOutside(top) \in Nat
         /\ LinesOutside(top) = 0 <=> top.coarse_y < VisibleRows
         /\ LinesOutside(top) = 0 => Line(Start(top)) = Line(top) /\ Below(top) \in 0..PostRender - 1
         /\ LinesOutside(top) # 0 => Line(Start(top)) = Upper(top)
<1>1. top.coarse_y \in 0..TileRows - 1 /\ top.fine_y \in 0..FineRows - 1 /\ top.nt_v \in 0..1
  BY DEF Top
<1>2. Below(top) \in 0..Bottom - 1 /\ Bottom \in Nat
  BY <1>1, BelowRange, RowsOfGroups, FineRowsEven DEF Bottom
<1>3. /\ top.coarse_y < VisibleRows => Below(top) \in 0..PostRender - 1
      /\ Line(top) = Upper(top) + Below(top)
      /\ LinesOutside(top) = IF top.coarse_y < VisibleRows THEN 0 ELSE Bottom - Below(top)
  BY <1>1, BelowRange
<1>4. LinesOutside(top) \in Nat /\ (LinesOutside(top) = 0 <=> top.coarse_y < VisibleRows)
  BY <1>2, <1>3
<1>5. ASSUME LinesOutside(top) # 0 PROVE Line(Start(top)) = Upper(top)
  <2> DEFINE start == Start(top)
  <2>0. start = [top EXCEPT !.coarse_y = 0, !.fine_y = 0]
    BY <1>5 DEF Start
  <2> HIDE DEF start
  <2>1. start.coarse_y = 0 /\ start.fine_y = 0 /\ start.nt_v = top.nt_v
    BY <2>0 DEF Top
  <2>2. 0 \in 0..TileRows - 1 /\ 0 \in 0..FineRows - 1 /\ FineRows \in Nat /\ PostRender \in Nat
    BY RowsOfGroups, FineRowsEven, Geometry
  <2>3. Below(start) = 0
    BY <2>1, <2>2 DEF Below
  <2>4. Line(start) = Upper(start) + Below(start)
    BY <2>1, <2>2, <1>1, BelowRange
  <2>5. Upper(start) = Upper(top)
    BY <2>1 DEF Upper
  <2> QED BY <2>2, <2>3, <2>4, <2>5 DEF Upper, start
<1>6. LinesOutside(top) = 0 => Line(Start(top)) = Line(top)
  BY DEF Start
<1> QED BY <1>2, <1>3, <1>4, <1>5, <1>6 DEF Upper

LEMMA FollowsStart ==
  ASSUME NEW a \in Addr, NEW top \in Top, SameRows(top, a)
  PROVE  Follows(a, top, 0)
<1>1. Line(a) = Line(top) /\ a.coarse_y = top.coarse_y /\ a.nt_v = top.nt_v
  BY DEF SameRows, Line
<1>2. LinesOutside(top) \in Nat /\ (LinesOutside(top) = 0 <=> top.coarse_y < VisibleRows)
  BY TopRange
<1>3. PostRender \in Nat /\ top.coarse_y \in Nat /\ VisibleRows \in Nat
  BY Geometry, RowsOfGroups, NametableAssumption DEF Top
<1>4. 0 < LinesOutside(top) <=> a.coarse_y >= VisibleRows
  BY <1>1, <1>2, <1>3
<1>5. CASE 0 < LinesOutside(top)
  <2>1. Line(top) = Upper(top) + Below(top) /\ Upper(top) \in {0, PostRender} /\ Below(top) \in Int
    BY TopRange
  <2>2. Line(top) + 0 = Line(top)
    BY <2>1, <1>3
  <2> QED BY <1>1, <1>4, <1>5, <2>2 DEF Follows
<1>6. CASE LinesOutside(top) = 0
  <2>1. /\ Line(Start(top)) = Line(top) /\ Line(top) = Upper(top) + Below(top)
        /\ Upper(top) \in {0, PostRender} /\ Below(top) \in 0..PostRender - 1
    BY <1>6, TopRange
  <2>2. Wrap(Line(Start(top)) + (0 - LinesOutside(top)), 2 * PostRender) = Line(a)
    BY <1>1, <1>3, <1>6, <2>1 DEF Wrap
  <2> QED BY <1>4, <1>6, <2>2, <1>2 DEF Follows
<1> QED BY <1>2, <1>5, <1>6

(* One more line down.                                                     *)
LEMMA FollowsStep ==
  ASSUME NEW a \in Addr, NEW top \in Top, NEW n \in 0..PostRender, Follows(a, top, n)
  PROVE  Follows(inc_vert_scroll(a), top, n + 1)
<1> DEFINE b == inc_vert_scroll(a)
           out == LinesOutside(top)
           start == Line(Start(top))
<1>1. /\ PostRender \in Nat /\ PostRender > 0 /\ Bottom \in Nat /\ VisibleRows \in Nat
      /\ a.coarse_y \in Nat /\ a.nt_v \in {0, 1}
  BY Geometry, RowsOfGroups, FineRowsEven, NametableAssumption DEF Bottom, Addr
<1>2. /\ Below(a) \in 0..Bottom - 1
      /\ a.coarse_y < VisibleRows => Below(a) \in 0..PostRender - 1
      /\ Line(a) = Upper(a) + Below(a)
  BY BelowRange DEF Addr
<1>3. Line(b) = Upper(b) + Below(b) /\ b.nt_v \in {0, 1} /\ b.coarse_y \in Nat
  <2>1. b \in Addr
    BY MovesType
  <2> HIDE DEF b
  <2>2. b.coarse_y \in 0..TileRows - 1 /\ b.fine_y \in 0..FineRows - 1 /\ b.nt_v \in 0..1
    BY <2>1 DEF Addr
  <2> QED BY <2>2, BelowRange, RowsOfGroups
<1>4. /\ Below(a) + 1 < PostRender /\ a.coarse_y < VisibleRows =>
           /\ Below(b) = Below(a) + 1 /\ b.nt_v = a.nt_v /\ b.coarse_y < VisibleRows
      /\ Below(a) + 1 = PostRender /\ a.coarse_y < VisibleRows =>
           Below(b) = 0 /\ b.nt_v = 1 - a.nt_v /\ b.coarse_y < VisibleRows
      /\ Below(a) + 1 < Bottom /\ a.coarse_y >= VisibleRows =>
           Below(b) = Below(a) + 1 /\ b.nt_v = a.nt_v /\ b.coarse_y >= VisibleRows
      /\ Below(a) + 1 = Bottom /\ a.coarse_y >= VisibleRows =>
           Below(b) = 0 /\ b.nt_v = a.nt_v /\ b.coarse_y < VisibleRows
  BY BelowStep
<1>5. /\ out \in Nat /\ Below(top) \in 0..Bottom - 1 /\ Upper(top) \in {0, PostRender}
      /\ Line(top) = Upper(top) + Below(top)
      /\ out # 0 => out = Bottom - Below(top) /\ start = Upper(top)
      /\ out = 0 => start = Line(top) /\ Below(top) \in 0..PostRender - 1
  BY TopRange
<1>6. /\ n < out <=> a.coarse_y >= VisibleRows
      /\ n < out => Line(a) = Line(top) + n /\ a.nt_v = top.nt_v
      /\ ~(n < out) => Line(a) = Wrap(start + (n - out), 2 * PostRender)
  BY DEF Follows
<1>7. /\ Upper(a) = (IF a.nt_v = 0 THEN 0 ELSE PostRender)
      /\ Upper(b) = (IF b.nt_v = 0 THEN 0 ELSE PostRender)
      /\ a.nt_v = top.nt_v => Upper(a) = Upper(top)
      /\ b.nt_v = top.nt_v => Upper(b) = Upper(top)
  BY DEF Upper
<1> HIDE DEF b, out, start
<1>8. CASE n < out
  <2>1. Below(a) = Below(top) + n
    BY <1>1, <1>2, <1>5, <1>6, <1>7, <1>8
  <2>2. CASE n + 1 < out
    <3>1. Below(b) = Below(a) + 1 /\ b.nt_v = a.nt_v /\ b.coarse_y >= VisibleRows
      BY <1>1, <1>2, <1>4, <1>5, <1>6, <1>8, <2>1, <2>2
    <3>2. Line(b) = Line(top) + (n + 1) /\ b.nt_v = top.nt_v
      BY <1>1, <1>2, <1>3, <1>5, <1>6, <1>7, <1>8, <2>1, <3>1
    <3> QED BY <2>2, <3>1, <3>2 DEF Follows, out, b
  <2>3. CASE n + 1 = out
    <3>1. Below(b) = 0 /\ b.nt_v = a.nt_v /\ b.coarse_y < VisibleRows
      BY <1>1, <1>2, <1>4, <1>5, <1>6, <1>8, <2>1, <2>3
    <3>2. Line(b) = start /\ start \in {0, PostRender}
      BY <1>1, <1>3, <1>5, <1>6, <1>7, <1>8, <3>1
    <3>3. Line(b) = Wrap(start + ((n + 1) - out), 2 * PostRender)
      BY <1>1, <1>5, <2>3, <3>2 DEF Wrap
    <3>4. ~(n + 1 < out) /\ ~(b.coarse_y >= VisibleRows)
      BY <1>1, <1>3, <1>5, <2>3, <3>1
    <3> QED BY <3>3, <3>4 DEF Follows, out, b, start
  <2> QED BY <1>5, <1>8, <2>2, <2>3
<1>9. CASE ~(n < out)
  <2>1. a.coarse_y < VisibleRows /\ Below(a) \in 0..PostRender - 1
    BY <1>1, <1>2, <1>6, <1>9
  <2>2. b.coarse_y < VisibleRows
    BY <1>1, <1>4, <2>1
  <2>3. start \in 0..2 * PostRender - 1
    BY <1>1, <1>5
  <2>4. Line(b) = Wrap(Line(a) + 1, 2 * PostRender)
    <3>1. CASE Below(a) + 1 < PostRender
      BY <1>1, <1>2, <1>3, <1>4, <1>7, <2>1, <3>1 DEF Wrap
    <3>2. CASE Below(a) + 1 = PostRender
      <4>1. Below(b) = 0 /\ b.nt_v = 1 - a.nt_v
        BY <1>4, <2>1, <3>2
      <4>2. CASE a.nt_v = 0
        BY <1>1, <1>2, <1>3, <1>7, <3>2, <4>1, <4>2 DEF Wrap
      <4>3. CASE a.nt_v = 1
        BY <1>1, <1>2, <1>3, <1>7, <3>2, <4>1, <4>3 DEF Wrap
      <4> QED BY <1>1, <4>2, <4>3
    <3> QED BY <1>1, <2>1, <3>1, <3>2
  <2>5. Wrap((start + (n - out)) + 1, 2 * PostRender) = Wrap(Wrap(start + (n - out), 2 * PostRender) + 1, 2 * PostRender)
    <3>1. start + (n - out) \in Nat /\ 2 * PostRender \in Nat
            /\ (start + (n - out)) + 1 < 2 * (2 * PostRender)
      <4>1. CASE out = 0
        BY <1>1, <1>5, <4>1
      <4>2. CASE out # 0
        BY <1>1, <1>5, <1>9, <4>2
      <4> QED BY <4>1, <4>2
    <3> QED BY <3>1, WrapStep
  <2>6. (start + (n - out)) + 1 = start + ((n + 1) - out)
    BY <1>5, <2>3
  <2>7. ~(n + 1 < out) /\ ~(b.coarse_y >= VisibleRows)
    BY <1>1, <1>3, <1>5, <1>9, <2>2
  <2>8. Line(b) = Wrap(start + ((n + 1) - out), 2 * PostRender)
    BY <1>6, <1>9, <2>4, <2>5, <2>6
  <2> QED BY <2>7, <2>8 DEF Follows, out, b, start
<1> QED BY <1>8, <1>9

(* What the dot does to the line while the background is shown.            *)
LEMMA LineMoves ==
  ASSUME TypeOK, clock_ppu, ppu_mask.bg
  PROVE  /\ scanline' = PreRender /\ cycle' \in VertCopy => SameRows(vram_tmp_addr, vram_addr')
         /\ scanline' # PostRender /\ cycle' = TileColumns =>
              \E a \in Addr : SameRows(vram_addr, a) /\ vram_addr' = inc_vert_scroll(a)
         /\ scanline' = PostRender \/ (cycle' # TileColumns /\ ~(scanline' = PreRender /\ cycle' \in VertCopy)) =>
              SameRows(vram_addr, vram_addr')
<1>0. vram_addr \in Addr /\ vram_tmp_addr \in Addr /\ cycle' \in 0..LastDot
  BY BeamType DEF TypeOK
<1>a. ppu_mask_bg_or_sprite_enabled
  BY DEF ppu_mask_bg_or_sprite_enabled
<1>b. ASSUME NEW a \in Addr
      PROVE  inc_horz_scroll(a) \in Addr /\ SameRows(a, inc_horz_scroll(a)) /\ SameRows(a, CopyHorz(a))
  BY MovesType DEF inc_horz_scroll, CopyHorz, Addr, SameRows
<1> DEFINE copied == Copied(vram_addr, scanline', cycle')
<1>1. vram_addr' = Incremented(copied, scanline', cycle')
  BY DEF clock_ppu
<1>2. ASSUME scanline' = PreRender, cycle' \in VertCopy PROVE SameRows(vram_tmp_addr, vram_addr')
  <2>1. copied = CopyVert(vram_addr)
    BY <1>2, Geometry DEF Copied
  <2>2. vram_addr' = copied
    BY <1>1, <1>2, Geometry DEF Incremented
  <2> QED BY <2>1, <2>2, <1>0 DEF CopyVert, Addr, SameRows
<1>3. ASSUME scanline' # PostRender, cycle' = TileColumns
      PROVE  \E a \in Addr : SameRows(vram_addr, a) /\ vram_addr' = inc_vert_scroll(a)
  <2>1. copied = vram_addr
    BY <1>3, Geometry DEF Copied
  <2>2. vram_addr' = inc_vert_scroll(inc_horz_scroll(vram_addr))
    BY <1>1, <1>3, <1>a, <2>1 DEF Incremented
  <2> QED BY <2>2, <1>0, <1>b
<1>4. ASSUME scanline' = PostRender
             \/ (cycle' # TileColumns /\ ~(scanline' = PreRender /\ cycle' \in VertCopy))
      PROVE  SameRows(vram_addr, vram_addr')
  <2>1. copied = vram_addr \/ (copied = CopyHorz(vram_addr) /\ cycle' = HorzCopy)
    BY <1>4, Geometry DEF Copied
  <2>2. vram_addr' = copied \/ (vram_addr' = inc_horz_scroll(copied) /\ cycle' # HorzCopy)
    BY <1>1, <1>4, Geometry DEF Incremented
  <2> QED BY <2>1, <2>2, <1>0, <1>b DEF SameRows
<1> QED BY <1>2, <1>3, <1>4

LineInv ==
  /\ TypeOK
  /\ IdleLine
  /\ line \subseteq Top
  /\ line # {} => ppu_mask.bg
  /\ \A top \in line : Follows(vram_addr, top, LinesDown)

LEMMA LineRaster == ASSUME LineInv, Raster PROVE \A top \in line' : Follows(vram_addr', top, LinesDown')
<1>0. TypeOK /\ clock_ppu /\ TypeOK'
  BY HistoryStep, TypeStep DEF LineInv, Raster, HistoryNext
<1>a. cycle \in 0..LastDot /\ scanline \in 0..PreRender /\ cycle' \in 0..LastDot
  BY <1>0 DEF TypeOK
<1>b. vram_addr' \in Addr
  BY <1>0 DEF TypeOK
<1> SUFFICES ASSUME NEW top \in line' PROVE Follows(vram_addr', top, LinesDown')
  OBVIOUS
<1>1. CASE ppu_mask.bg /\ scanline' = PreRender /\ cycle' \in VertCopy
  <2>1. top = [nt_v |-> vram_tmp_addr.nt_v, coarse_y |-> vram_tmp_addr.coarse_y,
               fine_y |-> vram_tmp_addr.fine_y]
    BY <1>1 DEF Raster
  <2>2. top \in Top
    BY <2>1, <1>0 DEF TypeOK, Addr, Top
  <2>3. LinesDown' = 0
    BY <1>1, Geometry DEF LinesDown
  <2>4. SameRows(vram_tmp_addr, vram_addr')
    BY <1>0, <1>1, LineMoves
  <2>5. SameRows(top, vram_addr')
    BY <2>1, <2>4 DEF SameRows
  <2> QED BY <2>2, <2>3, <2>5, <1>b, FollowsStart
<1>2. CASE ~(ppu_mask.bg /\ scanline' = PreRender /\ cycle' \in VertCopy)
  <2>1. top \in line
    BY <1>2 DEF Raster
  <2>2. top \in Top /\ ppu_mask.bg /\ Follows(vram_addr, top, LinesDown)
    BY <2>1 DEF LineInv
  <2>3. CASE scanline' # PostRender /\ cycle' = TileColumns
    <3>1. cycle' = cycle + 1 /\ scanline' = scanline
      BY <1>0, <2>3, NextDot, Geometry
    <3>2. LinesDown' = LinesDown + 1 /\ LinesDown \in 0..PostRender
      <4>a. cycle \in Int /\ TileColumns \in Int
        BY <1>a, Geometry
      <4>b. cycle + 1 = TileColumns
        BY <2>3, <3>1
      <4>c. cycle = TileColumns - 1 /\ cycle' = TileColumns /\ HorzCopy = TileColumns + 1
        BY <4>a, <4>b, <2>3, Geometry
      <4>1. cycle < TileColumns /\ ~(cycle > HorzCopy) /\ ~(cycle' > HorzCopy) /\ cycle' >= TileColumns
        BY <4>a, <4>c
      <4>d. /\ scanline \in 0..PreRender /\ PostRender \in Nat /\ PreRender = PostRender + 1
            /\ PostRender' = PostRender /\ PreRender' = PreRender
            /\ HorzCopy' = HorzCopy /\ TileColumns' = TileColumns
        BY <1>a, Geometry DEF PostRender, PreRender, HorzCopy
      <4>2. CASE scanline = PreRender
        <5>1. LinesDown = PostRender + 0
          BY <4>1, <4>2, <4>a, <4>d DEF LinesDown
        <5>2. LinesDown' = PostRender + 1
          BY <4>1, <4>2, <4>d, <3>1 DEF LinesDown
        <5> QED BY <5>1, <5>2, <4>d
      <4>3. CASE scanline # PreRender
        <5>1. LinesDown = scanline + 0
          BY <4>1, <4>3, <4>a, <4>d DEF LinesDown
        <5>2. LinesDown' = scanline + 1
          BY <4>1, <4>3, <4>d, <3>1 DEF LinesDown
        <5> QED BY <5>1, <5>2, <4>3, <4>d
      <4> QED BY <4>2, <4>3
    <3>3. PICK a \in Addr : SameRows(vram_addr, a) /\ vram_addr' = inc_vert_scroll(a)
      BY <1>0, <2>2, <2>3, LineMoves
    <3>4. Follows(a, top, LinesDown)
      BY <2>2, <3>3, FollowsKept
    <3> QED BY <2>2, <3>2, <3>3, <3>4, FollowsStep
  <2>4. CASE ~(scanline' # PostRender /\ cycle' = TileColumns)
    <3>1. SameRows(vram_addr, vram_addr')
      BY <1>0, <1>2, <2>2, <2>4, LineMoves
    <3>2. LinesDown' = LinesDown
      <4>1. CASE scanline = PostRender
        BY <1>0, <1>a, <4>1, NextDot, Geometry DEF LinesDown, LineInv, IdleLine
      <4>2. CASE cycle = LastDot /\ scanline # PostRender
        <5>1. cycle' = 0 /\ scanline' = IF scanline = PreRender THEN 0 ELSE scanline + 1
          BY <1>0, <1>a, <4>2, NextDot
        <5>2. CASE scanline = PreRender
          BY <4>2, <5>1, <5>2, Geometry DEF LinesDown
        <5>3. CASE scanline # PreRender
          BY <1>a, <4>2, <5>1, <5>3, Geometry DEF LinesDown
        <5> QED BY <5>2, <5>3
      <4>3. CASE cycle # LastDot /\ scanline # PostRender
        <5>1. cycle' = cycle + 1 /\ scanline' = scanline
          BY <1>0, <4>3, NextDot
        <5>2. cycle' # TileColumns
          BY <2>4, <4>3, <5>1
        <5>3. scanline = PreRender => cycle' \notin VertCopy
          BY <1>2, <2>2, <5>1
        <5> QED BY <1>a, <5>1, <5>2, <5>3, Geometry DEF LinesDown
      <4> QED BY <4>1, <4>2, <4>3
    <3> QED BY <2>2, <3>1, <3>2, FollowsKept
  <2> QED BY <2>3, <2>4
<1> QED BY <1>1, <1>2

LEMMA LineStep == LineInv /\ [HistoryNext]_history_vars => LineInv'
<1> SUFFICES ASSUME LineInv, [HistoryNext]_history_vars PROVE LineInv'
  OBVIOUS
<1>0. TypeOK'
  BY HistoryStep, TypeStep DEF LineInv
<1>1. CASE Raster
  <2>1. IdleLine'
    BY <1>1, NextDot DEF LineInv, Raster
  <2>2. line' \subseteq Top
    <3>1. [nt_v |-> vram_tmp_addr.nt_v, coarse_y |-> vram_tmp_addr.coarse_y,
           fine_y |-> vram_tmp_addr.fine_y] \in Top
      BY DEF LineInv, TypeOK, Addr, Top
    <3> QED BY <1>1, <3>1 DEF LineInv, Raster
  <2>3. line' # {} => ppu_mask'.bg
    BY <1>1 DEF LineInv, Raster, clock_ppu, ports
  <2>4. \A top \in line' : Follows(vram_addr', top, LinesDown')
    BY <1>1, LineRaster
  <2>5. (\A top \in line : Follows(vram_addr, top, LinesDown))'
    BY <2>4 DEF Follows, Line
  <2> QED BY <1>0, <2>1, <2>2, <2>3, <2>5 DEF LineInv
<1>2. ASSUME UNCHANGED <<beam, vram_addr, line>>, ppu_mask'.bg \/ UNCHANGED ppu_mask
      PROVE  LineInv'
  BY <1>0, <1>2 DEF LineInv, Follows, Line, LinesDown, IdleLine, beam
<1>3. ASSUME UNCHANGED beam, line' = {} PROVE LineInv'
  BY <1>0, <1>3 DEF LineInv, IdleLine, beam
<1>4. CASE UNCHANGED history_vars
  BY <1>4, <1>2 DEF history_vars, vars, ports, origin
<1>5. CASE SetCtrl
  BY <1>5, <1>2 DEF SetCtrl, Ctrl, write_2000, origin
<1>6. CASE SetMask
  BY <1>6, <1>2, <1>3 DEF SetMask, Mask, write_2001, origin, Forget
<1>7. CASE ResetLatch
  BY <1>7, <1>2 DEF ResetLatch, Status, read_2002, origin
<1>8. CASE SetScroll
  BY <1>8, <1>2 DEF SetScroll, ScrollX, ScrollY, write_2005_first, write_2005_second, origin
<1>9. CASE BeginAddress
  BY <1>9, <1>2 DEF BeginAddress, write_2006_first, origin
<1>10. CASE EndAddress
  BY <1>10, <1>3 DEF EndAddress, write_2006_second, Forget
<1>11. CASE UncountedAddress
  BY <1>11, <1>2, <1>3 DEF UncountedAddress, AddrHigh, AddrLow, write_2006_first,
     write_2006_second, Forget, origin
<1>12. CASE Access
  BY <1>12, <1>3 DEF Access, Data, access_2007, Forget
<1> QED
  BY <1>1, <1>4, <1>5, <1>6, <1>7, <1>8, <1>9, <1>10, <1>11, <1>12 DEF HistoryNext

(* The line fetched is always the scroll position of the frame, so many    *)
(* lines further down.                                                     *)
THEOREM LineFollows == HistorySpec => []RasterFollowsLine
<1>1. HistoryInit => LineInv
  BY TypeInit, Geometry DEF HistoryInit, LineInv, IdleLine, Init
<1>2. LineInv => RasterFollowsLine
  BY DEF LineInv, Follows, Start, RasterFollowsLine
<1> QED BY <1>1, <1>2, LineStep, PTL DEF HistorySpec


-----------------------------------------------------------------------------
(* An address as a number: digits of a column, a row, and of the nametable *)
(* together with the lines of a tile that it has room for.                 *)

(* The number after n, counting to size.                                   *)
Succ(n, size) == IF n + 1 < size THEN n + 1 ELSE 0

LEMMA RestOf ==
  ASSUME NEW n \in Nat \ {0}, NEW q \in Int, NEW x \in 0..n - 1, NEW a, a = (n * q) + x
  PROVE  a % n = x
<1> DEFINE r == a \div n
           y == a % n
<1>1. a = (n * r) + y /\ y \in 0..n - 1 /\ r \in Int
  BY a \in Int
<1>2. n * (q - r) = y - x
  BY <1>1
<1> HIDE DEF r, y
<1>3. y = x
  <2>1. CASE q - r >= 1
    <3>1. n * (q - r) >= n
      BY <1>1, <2>1
    <3> QED BY <1>1, <1>2, <3>1
  <2>2. CASE q - r <= -1
    <3>1. n * (q - r) <= -n
      BY <1>1, <2>2
    <3> QED BY <1>1, <1>2, <3>1
  <2>3. CASE q - r = 0
    BY <1>1, <1>2, <2>3
  <2> QED BY <1>1, <2>1, <2>2, <2>3
<1> QED BY <1>3 DEF y

(* How a number of two digits counts: n of sizes, and d of size below it,  *)
(* by one and by one in the place above.                                   *)
Counts(number, numbers, n, sizes, d, size) ==
  /\ number \in 0..numbers - 1 /\ numbers \in Nat \ {0}
  /\ d < size - 1 => Succ(number, numbers) = number + 1
  /\ d = size - 1 => Succ(number, numbers) = Succ(n, sizes) * size
  /\ (number + 1) % numbers = Succ(number, numbers)
  /\ (number + size) % numbers = (Succ(n, sizes) * size) + d

LEMMA DigitSucc ==
  ASSUME NEW sizes \in Nat \ {0}, NEW size \in Nat \ {0},
         NEW n \in 0..sizes - 1, NEW d \in 0..size - 1,
         NEW number, number = (n * size) + d, NEW numbers, numbers = sizes * size
  PROVE  Counts(number, numbers, n, sizes, d, size)
<1> DEFINE place == n * size
           all == sizes * size
<1>1. (n + 1) * size = place + size /\ place \in Nat /\ all \in Nat \ {0}
  OBVIOUS
<1>2. /\ n + 1 < sizes => place + size <= all - size
      /\ n + 1 = sizes => place + size = all
  <2>1. ASSUME n + 1 < sizes PROVE place + size <= all - size
    <3>1. (n + 2) * size <= sizes * size
      BY <2>1
    <3>2. (n + 2) * size = place + (2 * size)
      OBVIOUS
    <3> QED BY <1>1, <3>1, <3>2
  <2>2. ASSUME n + 1 = sizes PROVE place + size = all
    BY <1>1, <2>2
  <2> QED BY <2>1, <2>2
<1>3. ASSUME NEW m \in 0..all - 1 PROVE m % all = m /\ (all + m) % all = m
  <2>1. ((all * 1) + m) % all = m /\ ((all * 0) + m) % all = m
    BY <1>1, RestOf
  <2> QED BY <1>1, <2>1
<1>4. /\ n + 1 < sizes => Succ(n, sizes) * size = place + size
      /\ n + 1 = sizes => Succ(n, sizes) * size = 0
  BY <1>1 DEF Succ
<1>5. all % all = 0
  BY <1>1, <1>3
<1> HIDE DEF place, all
<1>6. place + d \in 0..all - 1
  BY <1>1, <1>2
<1>7. (place + d) + 1 < all \/ (place + d) + 1 = all
  BY <1>1, <1>6
<1>8. ((place + d) + 1) % all = Succ(place + d, all)
  BY <1>1, <1>3, <1>5, <1>6, <1>7 DEF Succ
<1>9. d < size - 1 => Succ(place + d, all) = place + (d + 1)
  BY <1>1, <1>2 DEF Succ
<1>10. d = size - 1 => Succ(place + d, all) = Succ(n, sizes) * size
  BY <1>1, <1>2, <1>4 DEF Succ
<1>11. ((place + d) + size) % all = (Succ(n, sizes) * size) + d
  <2>1. CASE n + 1 < sizes
    <3>1. (place + d) + size \in 0..all - 1
      BY <1>1, <1>2, <2>1
    <3> QED BY <1>1, <1>3, <1>4, <2>1, <3>1
  <2>2. CASE n + 1 = sizes
    <3>1. (place + d) + size = all + d /\ d \in 0..all - 1
      BY <1>1, <1>2, <2>2
    <3> QED BY <1>3, <1>4, <2>2, <3>1
  <2> QED BY <2>1, <2>2
<1>12. number = place + d /\ numbers = all
  BY DEF place, all
<1>13. place + (d + 1) = number + 1
  BY <1>1, <1>12
<1> QED BY <1>1, <1>6, <1>8, <1>9, <1>10, <1>11, <1>12, <1>13 DEF Counts


Halves == FineRows \div 2

(* The lines of half a tile in the four nametables: bits 13 to 10.         *)
High(a) == ((((a.fine_y % Halves) * 2) + a.nt_v) * 2) + a.nt_h
Highs == 4 * Halves

LEMMA HalfTile ==
  /\ Halves \in Nat \ {0} /\ FineRows = 2 * Halves /\ Highs \in Nat \ {0}
  /\ \A y \in 0..FineRows - 1 : y % Halves = IF y < Halves THEN y ELSE y - Halves
<1>1. FineRows \in Nat \ {0} /\ FineRows % 2 = 0
  BY NametableAssumption
<1>2. Halves \in Nat \ {0} /\ FineRows = 2 * Halves
  BY <1>1 DEF Halves
<1>3. ASSUME NEW y \in 0..FineRows - 1
      PROVE  y % Halves = IF y < Halves THEN y ELSE y - Halves
  <2>1. CASE y < Halves
    <3>1. ((Halves * 0) + y) % Halves = y
      BY <1>2, <2>1, RestOf
    <3> QED BY <1>2, <2>1, <3>1
  <2>2. CASE y >= Halves
    <3> DEFINE x == y - Halves
    <3>1. x \in 0..Halves - 1
      BY <1>2, <2>2
    <3>2. ((Halves * 1) + x) % Halves = x
      BY <1>2, <3>1, RestOf
    <3>3. (Halves * 1) + x = y
      BY <1>2
    <3> QED BY <1>2, <2>2, <3>2, <3>3
  <2> QED BY <1>2, <2>1, <2>2
<1> QED BY <1>2, <1>3 DEF Highs

LEMMA HighRange == ASSUME NEW a \in Addr PROVE High(a) \in 0..Highs - 1
<1>1. /\ a.fine_y % Halves \in 0..Halves - 1 /\ a.nt_v \in 0..1 /\ a.nt_h \in 0..1
  BY HalfTile DEF Addr
<1> DEFINE y == a.fine_y % Halves
<1> HIDE DEF y
<1>2. High(a) = (((y * 2) + a.nt_v) * 2) + a.nt_h
  BY DEF High, y
<1>3. y \in 0..Halves - 1
  BY <1>1 DEF y
<1> DEFINE v == a.nt_v
           h == a.nt_h
<1>4. v \in 0..1 /\ h \in 0..1 /\ High(a) = (((y * 2) + v) * 2) + h
  BY <1>1, <1>2
<1> HIDE DEF v, h
<1> QED BY <1>3, <1>4, HalfTile DEF Highs

LEMMA CarryCounts ==
  ASSUME NEW a \in Addr
  PROVE  /\ High(CarryNametable(a)) = Succ(High(a), Highs)
         /\ CarryNametable(a).coarse_y = a.coarse_y
         /\ CarryNametable(a).coarse_x = a.coarse_x
<1> DEFINE b == CarryNametable(a)
           y == a.fine_y % Halves
           z == b.fine_y % Halves
<1>1. /\ a.fine_y \in 0..FineRows - 1 /\ a.nt_v \in {0, 1} /\ a.nt_h \in {0, 1}
      /\ a = [msb |-> a.msb, fine_y |-> a.fine_y, nt_v |-> a.nt_v, nt_h |-> a.nt_h,
              coarse_y |-> a.coarse_y, coarse_x |-> a.coarse_x]
  BY DEF Addr
<1>2. b.coarse_y = a.coarse_y /\ b.coarse_x = a.coarse_x
  BY <1>1 DEF CarryNametable
<1>3. y \in 0..Halves - 1
  BY <1>1, HalfTile
<1>4. /\ High(a) = (((y * 2) + a.nt_v) * 2) + a.nt_h
      /\ High(b) = (((z * 2) + b.nt_v) * 2) + b.nt_h
  BY DEF High
<1>5. CASE a.nt_h = 0
  <2>1. b.fine_y = a.fine_y /\ b.nt_v = a.nt_v /\ b.nt_h = 1
    BY <1>1, <1>5 DEF CarryNametable
  <2>2. z = y
    BY <2>1
  <2> HIDE DEF b, y, z
  <2>3. High(b) = Succ(High(a), Highs)
    BY <1>1, <1>3, <1>4, <1>5, <2>1, <2>2, HalfTile DEF Highs, Succ
  <2> QED BY <1>2, <2>3 DEF b
<1>6. CASE a.nt_h = 1 /\ a.nt_v = 0
  <2>0. b = [a EXCEPT !.nt_h = 0, !.nt_v = 1]
    BY <1>6 DEF CarryNametable
  <2>1. b.fine_y = a.fine_y /\ b.nt_v = 1 /\ b.nt_h = 0
    BY <1>1, <2>0
  <2>2. z = y
    BY <2>1
  <2> HIDE DEF b, y, z
  <2>3. High(b) = Succ(High(a), Highs)
    BY <1>1, <1>3, <1>4, <1>6, <2>1, <2>2, HalfTile DEF Highs, Succ
  <2> QED BY <1>2, <2>3 DEF b
<1>7. CASE a.nt_h = 1 /\ a.nt_v = 1
  <2>1. b.nt_v = 0 /\ b.nt_h = 0
    BY <1>1, <1>7 DEF CarryNametable
  <2>2. b.fine_y = IF a.fine_y < FineRows - 1 THEN a.fine_y + 1 ELSE 0
    BY <1>1, <1>7 DEF CarryNametable
  <2> HIDE DEF b
  <2>3. b.fine_y \in 0..FineRows - 1
    BY <1>1, <2>2, HalfTile
  <2>4. z = IF y + 1 < Halves THEN y + 1 ELSE 0
    BY <1>1, <2>2, <2>3, HalfTile
  <2> HIDE DEF y, z
  <2>5. High(b) = Succ(High(a), Highs)
    BY <1>1, <1>3, <1>4, <1>7, <2>1, <2>4, HalfTile DEF Highs, Succ
  <2> QED BY <1>2, <2>5 DEF b
<1> QED BY <1>1, <1>5, <1>6, <1>7

(* Bits 13 to 5 of an address, and all of its bits.                        *)
RowNumber(a) == (High(a) * TileRows) + a.coarse_y

LEMMA RowCounts ==
  ASSUME NEW a \in Addr
  PROVE  /\ RowNumber(Plus32(a)) = Succ(RowNumber(a), Highs * TileRows)
         /\ Plus32(a).coarse_x = a.coarse_x
         /\ RowNumber(a) \in 0..(Highs * TileRows) - 1
<1>1. High(a) \in 0..Highs - 1 /\ a.coarse_y \in 0..TileRows - 1
  BY HighRange DEF Addr
<1>2. TileRows \in Nat \ {0} /\ Highs \in Nat \ {0}
  BY RowsOfGroups, HalfTile
<1>3. Counts(RowNumber(a), Highs * TileRows, High(a), Highs, a.coarse_y, TileRows)
  BY <1>1, <1>2, DigitSucc DEF RowNumber
<1>4. CASE a.coarse_y < TileRows - 1
  <2>1. Plus32(a) = [a EXCEPT !.coarse_y = a.coarse_y + 1]
    BY <1>4 DEF Plus32
  <2>2. /\ High(Plus32(a)) = High(a) /\ Plus32(a).coarse_y = a.coarse_y + 1
        /\ Plus32(a).coarse_x = a.coarse_x
    BY <2>1 DEF Addr, High
  <2>3. RowNumber(a) \in Int /\ RowNumber(Plus32(a)) = RowNumber(a) + 1
    BY <1>1, <1>2, <2>2 DEF RowNumber
  <2> QED BY <1>3, <1>4, <2>2, <2>3 DEF Counts
<1>5. CASE a.coarse_y = TileRows - 1
  <2> DEFINE c == [a EXCEPT !.coarse_y = 0]
  <2>1. Plus32(a) = CarryNametable(c)
    BY <1>2, <1>5 DEF Plus32
  <2>2. c \in Addr /\ High(c) = High(a) /\ c.coarse_y = 0 /\ c.coarse_x = a.coarse_x
    BY <1>2 DEF Addr, High
  <2> HIDE DEF c
  <2>3. /\ High(Plus32(a)) = Succ(High(a), Highs) /\ Plus32(a).coarse_y = 0
        /\ Plus32(a).coarse_x = a.coarse_x
    BY <2>1, <2>2, CarryCounts
  <2>4. Succ(High(a), Highs) \in Nat
    BY <1>1, <1>2 DEF Succ
  <2>5. RowNumber(Plus32(a)) = Succ(High(a), Highs) * TileRows
    BY <1>2, <2>3, <2>4 DEF RowNumber
  <2> QED BY <1>3, <1>5, <2>3, <2>5 DEF Counts
<1> QED BY <1>1, <1>2, <1>3, <1>4, <1>5 DEF Counts


(* What $2007 adds to v it adds to the position, which wraps at its end.   *)
LEMMA PositionCounts ==
  ASSUME NEW a \in Addr
  PROVE  Position(ppu_vram_addr_inc(a))
           = (Position(a) + (IF inc32 THEN TileColumns ELSE 1)) % Positions
<1> DEFINE rows == Highs * TileRows
           r == RowNumber(a)
<1>1. TileColumns \in Nat \ {0} /\ rows \in Nat \ {0} /\ r \in 0..rows - 1
  BY NametableAssumption, RowsOfGroups, HalfTile, RowCounts
<1>2. a.coarse_x \in 0..TileColumns - 1
  BY DEF Addr
<1>3. ASSUME NEW b PROVE Position(b) = (RowNumber(b) * TileColumns) + b.coarse_x
  BY DEF Position, Linear, RowNumber, High, Halves
<1>4. Positions = rows * TileColumns
  <2>1. FineRows * 2 = Highs
    BY HalfTile DEF Highs
  <2> QED BY <2>1 DEF Positions
<1>5. RowNumber(Plus32(a)) = Succ(r, rows) /\ Plus32(a).coarse_x = a.coarse_x
  BY RowCounts
<1> HIDE DEF rows, r
<1>6. Counts(Position(a), Positions, r, rows, a.coarse_x, TileColumns)
  <2>1. Position(a) = (r * TileColumns) + a.coarse_x
    BY <1>3 DEF r
  <2> QED BY <1>1, <1>2, <1>4, <2>1, DigitSucc
<1>7. CASE inc32
  <2>1. Position(Plus32(a)) = (Succ(r, rows) * TileColumns) + a.coarse_x
    BY <1>3, <1>5
  <2> QED BY <1>6, <1>7, <2>1 DEF ppu_vram_addr_inc, Counts
<1>8. CASE ~inc32 /\ a.coarse_x < TileColumns - 1
  <2>1. Plus1(a) = [a EXCEPT !.coarse_x = a.coarse_x + 1]
    BY <1>8 DEF Plus1
  <2>2. RowNumber(Plus1(a)) = r /\ Plus1(a).coarse_x = a.coarse_x + 1
    BY <2>1 DEF Addr, RowNumber, High, r
  <2>3. Position(Plus1(a)) = Position(a) + 1
    <3>1. /\ Position(Plus1(a)) = (r * TileColumns) + (a.coarse_x + 1)
          /\ Position(a) = (r * TileColumns) + a.coarse_x
      BY <1>3, <2>2 DEF r
    <3>2. r * TileColumns \in Int
      BY <1>1
    <3> QED BY <1>1, <1>2, <3>1, <3>2
  <2> QED BY <1>6, <1>8, <2>3 DEF ppu_vram_addr_inc, Counts
<1>9. CASE ~inc32 /\ a.coarse_x = TileColumns - 1
  <2> DEFINE c == [a EXCEPT !.coarse_x = 0]
  <2>1. Plus1(a) = Plus32(c)
    BY <1>1, <1>9 DEF Plus1
  <2>2. c \in Addr /\ RowNumber(c) = r /\ c.coarse_x = 0
    BY <1>1 DEF Addr, RowNumber, High, r
  <2> HIDE DEF c
  <2>3. RowNumber(Plus1(a)) = Succ(r, rows) /\ Plus1(a).coarse_x = 0
    BY <2>1, <2>2, RowCounts DEF rows
  <2>4. Succ(r, rows) \in Nat
    BY <1>1 DEF Succ
  <2>5. Position(Plus1(a)) = Succ(r, rows) * TileColumns
    BY <1>1, <1>3, <2>3, <2>4
  <2> QED BY <1>6, <1>9, <2>5 DEF ppu_vram_addr_inc, Counts
<1> QED BY <1>1, <1>2, <1>7, <1>8, <1>9

(* The high byte of an address begun is in t.                              *)
HighInv ==
  /\ high \subseteq HighByte
  /\ \A hi \in high :
       /\ vram_tmp_addr.fine_y = hi.fine_y
       /\ vram_tmp_addr.nt_v = hi.nt_v /\ vram_tmp_addr.nt_h = hi.nt_h
       /\ vram_tmp_addr.coarse_y - (vram_tmp_addr.coarse_y % RowSplit) = hi.rows * RowSplit

AccessInv == TypeOK /\ HighInv /\ AccessesAreConsecutive

LEMMA HighStep == AccessInv /\ [HistoryNext]_history_vars => HighInv'
<1> SUFFICES ASSUME AccessInv, [HistoryNext]_history_vars PROVE HighInv'
  OBVIOUS
<1>1. CASE UNCHANGED <<vram_tmp_addr, high>>
  BY <1>1 DEF AccessInv, HighInv
<1>2. CASE high' = {}
  BY <1>2 DEF HighInv
<1>3. CASE BeginAddress
  <2>1. PICK hi \in HighByte : write_2006_first(hi) /\ high' = {hi}
    BY <1>3 DEF BeginAddress
  <2> DEFINE low == vram_tmp_addr.coarse_y % RowSplit
             y == (hi.rows * RowSplit) + low
  <2>2. /\ RowSplit \in Nat \ {0} /\ hi.rows \in Nat /\ low \in 0..RowSplit - 1
    <3>1. vram_tmp_addr.coarse_y \in 0..TileRows - 1 /\ hi.rows \in 0..RowGroups - 1
      BY <2>1 DEF AccessInv, TypeOK, Addr, HighByte
    <3> QED BY <3>1, NametableAssumption, Remainder
  <2>3. vram_tmp_addr' = [vram_tmp_addr EXCEPT !.fine_y = hi.fine_y, !.nt_v = hi.nt_v,
                            !.nt_h = hi.nt_h, !.coarse_y = y]
    BY <2>1 DEF write_2006_first, AccessInv, TypeOK, Addr
  <2> HIDE DEF low
  <2>4. y % RowSplit = low
    <3>1. PICK q \in Int, x \in 0..RowSplit - 1, b \in Int :
            q = hi.rows /\ x = low /\ b = y
      BY <2>2
    <3>2. b = (RowSplit * q) + x
      BY <2>2, <3>1
    <3>3. b % RowSplit = x
      BY <2>2, <3>2, RestOf
    <3> QED BY <3>1, <3>3
  <2>5. y - (y % RowSplit) = hi.rows * RowSplit
    BY <2>2, <2>4
  <2> HIDE DEF y
  <2>6. /\ vram_tmp_addr'.fine_y = hi.fine_y /\ vram_tmp_addr'.coarse_y = y
        /\ vram_tmp_addr'.nt_v = hi.nt_v /\ vram_tmp_addr'.nt_h = hi.nt_h
    BY <2>3 DEF AccessInv, TypeOK, Addr
  <2> QED BY <2>1, <2>5, <2>6 DEF HighInv
<1>4. UNCHANGED history_vars \/ Raster \/ SetMask \/ Access => UNCHANGED <<vram_tmp_addr, high>>
  BY DEF history_vars, vars, ports, Raster, clock_ppu, SetMask, Mask, write_2001, Access, Data,
         access_2007
<1>5. SetCtrl \/ ResetLatch \/ SetScroll \/ EndAddress \/ UncountedAddress => high' = {}
  BY DEF SetCtrl, ResetLatch, SetScroll, EndAddress, UncountedAddress
<1> QED BY <1>1, <1>2, <1>3, <1>4, <1>5 DEF HistoryNext

LEMMA AccessStep == AccessInv /\ [HistoryNext]_history_vars => AccessInv'
<1> SUFFICES ASSUME AccessInv, [HistoryNext]_history_vars PROVE AccessInv'
  OBVIOUS
<1>1. TypeOK'
  BY HistoryStep, TypeStep DEF AccessInv
<1>2. HighInv'
  BY HighStep
<1> SUFFICES AccessesAreConsecutive'
  BY <1>1, <1>2 DEF AccessInv
<1>3. CASE vram_addr' = vram_addr /\ expected' \subseteq expected
  BY <1>3 DEF AccessInv, AccessesAreConsecutive, Position
<1>4. CASE expected' = {}
  BY <1>4 DEF AccessesAreConsecutive
<1>5. CASE EndAddress
  <2>1. PICK lo \in LowByte :
          /\ write_2006_second(lo)
          /\ expected' = { Linear(hi.fine_y, hi.nt_v, hi.nt_h, hi.rows * RowSplit + lo.rows, lo.coarse_x)
                             : hi \in high }
    BY <1>5 DEF EndAddress
  <2>2. ASSUME NEW hi \in high
        PROVE  Position(vram_addr')
                 = Linear(hi.fine_y, hi.nt_v, hi.nt_h, hi.rows * RowSplit + lo.rows, lo.coarse_x)
    <3> DEFINE y == (vram_tmp_addr.coarse_y - (vram_tmp_addr.coarse_y % RowSplit)) + lo.rows
    <3>1. vram_addr' = [vram_tmp_addr EXCEPT !.coarse_y = y, !.coarse_x = lo.coarse_x]
      BY <2>1 DEF write_2006_second, AccessInv, TypeOK, Addr
    <3>2. y = hi.rows * RowSplit + lo.rows
      BY DEF AccessInv, HighInv
    <3> HIDE DEF y
    <3>3. /\ vram_addr'.fine_y = hi.fine_y /\ vram_addr'.coarse_y = y
          /\ vram_addr'.nt_v = hi.nt_v /\ vram_addr'.nt_h = hi.nt_h
          /\ vram_addr'.coarse_x = lo.coarse_x
      BY <3>1 DEF AccessInv, TypeOK, HighInv, Addr
    <3> QED BY <3>2, <3>3 DEF Position
  <2>3. ASSUME NEW e \in expected' PROVE Position(vram_addr') = e
    BY <2>1, <2>2
  <2> QED BY <2>3 DEF AccessesAreConsecutive, Position
<1>6. CASE Access /\ ~Rendering
  <2>1. /\ vram_addr' = ppu_vram_addr_inc(vram_addr)
        /\ expected' = { (e + (IF inc32 THEN TileColumns ELSE 1)) % Positions : e \in expected }
    BY <1>6 DEF Access, Data, access_2007
  <2>2. Position(vram_addr')
          = (Position(vram_addr) + (IF inc32 THEN TileColumns ELSE 1)) % Positions
    BY <2>1, PositionCounts DEF AccessInv, TypeOK
  <2>3. ASSUME NEW e \in expected' PROVE Position(vram_addr') = e
    <3>1. PICK d \in expected : e = (d + (IF inc32 THEN TileColumns ELSE 1)) % Positions
      BY <2>1, <2>3
    <3>2. Position(vram_addr) = d
      BY DEF AccessInv, AccessesAreConsecutive
    <3> QED BY <2>2, <3>1, <3>2
  <2> QED BY <2>3 DEF AccessesAreConsecutive, Position
<1>7. CASE Raster
  <2>1. CASE ppu_mask_bg_or_sprite_enabled
    BY <1>4, <1>7, <2>1 DEF Raster
  <2>2. CASE ~ppu_mask_bg_or_sprite_enabled
    BY <1>3, <1>7, <2>2 DEF Raster, clock_ppu, Incremented, Copied, ppu_mask_bg_or_sprite_enabled
  <2> QED BY <2>1, <2>2
<1>8. CASE Access /\ Rendering
  BY <1>4, <1>8 DEF Access
<1>9. CASE UncountedAddress
  BY <1>3, <1>4, <1>9 DEF UncountedAddress, AddrHigh, AddrLow, write_2006_first, write_2006_second
<1>10. CASE SetCtrl \/ SetMask \/ ResetLatch
  BY <1>3, <1>10 DEF SetCtrl, SetMask, ResetLatch, Ctrl, Mask, Status, write_2000, write_2001,
                     read_2002
<1>11. CASE SetScroll \/ BeginAddress
  BY <1>3, <1>11 DEF SetScroll, ScrollX, ScrollY, write_2005_first, write_2005_second,
                     BeginAddress, write_2006_first
<1>12. CASE UNCHANGED history_vars
  BY <1>3, <1>12 DEF history_vars, vars
<1> QED
  BY <1>5, <1>6, <1>7, <1>8, <1>9, <1>10, <1>11, <1>12 DEF HistoryNext

(* The address a program has set, one step further with every access, is   *)
(* the one its next access uses, for every size of the nametables.         *)
THEOREM AccessesFollow == HistorySpec => []AccessesAreConsecutive
<1>1. HistoryInit => AccessInv
  BY TypeInit DEF HistoryInit, AccessInv, HighInv, AccessesAreConsecutive
<1>2. AccessInv => AccessesAreConsecutive
  BY DEF AccessInv
<1> QED BY <1>1, <1>2, AccessStep, PTL DEF HistorySpec
=============================================================================
