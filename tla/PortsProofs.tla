----------------------------- MODULE PortsProofs -----------------------------
(***************************************************************************)
(* Both memories of the PPU as a program reaches them, for every size of   *)
(* them and every set of bytes and pages: the types; that the copy made    *)
(* over some 513 clocks implements the one step of OamMemory; and that a   *)
(* program reads through $2007 what it wrote there, by any name.           *)
(***************************************************************************)
EXTENDS PpuPorts, TLAPS

-----------------------------------------------------------------------------
(* Quotients and remainders.                                               *)

LEMMA DivMod ==
  ASSUME NEW a \in Int, NEW n \in Nat \ {0}
  PROVE  a = (n * (a \div n)) + (a % n) /\ a % n \in 0..n - 1 /\ a \div n \in Int
  OBVIOUS

LEMMA SmallMultiple ==
  ASSUME NEW k \in Int, NEW n \in Nat \ {0}, n * k < n, n * k > -n
  PROVE  k = 0
  <1>1. CASE k >= 1
    <2>1. n * k >= n
      BY <1>1
    <2>2. QED
      BY <2>1
  <1>2. CASE k <= -1
    <2>1. n * k <= -n
      BY <1>2
    <2>2. QED
      BY <2>1
  <1>3. QED
    BY <1>1, <1>2

LEMMA SameRest ==
  ASSUME NEW n \in Nat \ {0}, NEW q \in Int, NEW r \in Int, NEW s \in Int,
         NEW x \in 0..n - 1, NEW y \in 0..n - 1, ((n * q) + x) - ((n * r) + y) = n * s
  PROVE  x = y
  <1>1. x - y = n * ((s - q) + r)
    OBVIOUS
  <1>2. (s - q) + r = 0
    BY SmallMultiple, <1>1
  <1>3. QED
    BY <1>1, <1>2

(* A value is known from its quotient and its rest.                        *)
LEMMA DivModUnique ==
  ASSUME NEW n \in Nat \ {0}, NEW q \in Int, NEW x \in 0..n - 1
  PROVE  ((n * q) + x) % n = x /\ ((n * q) + x) \div n = q
  <1> DEFINE a == (n * q) + x
             r == a \div n
             y == a % n
  <1>1. a = (n * r) + y /\ y \in 0..n - 1 /\ r \in Int
    BY DivMod, a \in Int
  <1>2. ((n * q) + x) - ((n * r) + y) = n * 0
    BY <1>1
  <1> HIDE DEF r, y
  <1>3. x = y
    BY SameRest, <1>1, <1>2
  <1>4. n * (q - r) = 0
    BY <1>2, <1>3, <1>1
  <1>5. q - r = 0
    BY SmallMultiple, <1>4, <1>1
  <1>6. QED
    BY <1>3, <1>5, <1>1 DEF r, y

LEMMA RestOf ==
  ASSUME NEW n \in Nat \ {0}, NEW q \in Int, NEW x \in 0..n - 1, NEW a \in Int, a = (n * q) + x
  PROVE  a % n = x
  <1>1. ((n * q) + x) % n = x
    BY DivModUnique
  <1>2. QED
    BY <1>1

LEMMA NoRest ==
  ASSUME NEW n \in Nat \ {0}, NEW q \in Int, NEW a \in Int, a = n * q
  PROVE  a % n = 0
  <1> DEFINE x == 0
  <1>1. x \in 0..n - 1 /\ a = (n * q) + x
    OBVIOUS
  <1> HIDE DEF x
  <1>2. a % n = x
    BY <1>1, RestOf
  <1>3. QED
    BY <1>2 DEF x

LEMMA Multiple ==
  ASSUME NEW a \in Int, NEW n \in Nat \ {0}, a % n = 0
  PROVE  \E k \in Int : a = n * k
  <1>1. a = n * (a \div n) /\ a \div n \in Int
    BY DivMod
  <1>2. QED
    BY <1>1

LEMMA Congruent ==
  ASSUME NEW a \in Int, NEW b \in Int, NEW n \in Nat \ {0}
  PROVE  a % n = b % n <=> (a - b) % n = 0
  <1> DEFINE q == a \div n
             r == b \div n
             s == (a - b) \div n
             x == a % n
             y == b % n
             z == (a - b) % n
  <1>1. /\ a = (n * q) + x /\ x \in 0..n - 1 /\ q \in Int
        /\ b = (n * r) + y /\ y \in 0..n - 1 /\ r \in Int
        /\ a - b = (n * s) + z /\ z \in 0..n - 1 /\ s \in Int
    BY DivMod, a - b \in Int
  <1> HIDE DEF q, r, s, x, y, z
  <1>2. ASSUME z = 0 PROVE x = y
    <2>1. ((n * q) + x) - ((n * r) + y) = n * s
      BY <1>1, <1>2
    <2>2. QED
      BY SameRest, <1>1, <2>1
  <1>3. ASSUME x = y PROVE z = 0
    <2>1. ((n * s) + z) - ((n * 0) + 0) = n * (q - r)
      BY <1>1, <1>3
    <2>2. q - r \in Int /\ 0 \in Int /\ 0 \in 0..n - 1
      BY <1>1
    <2>3. QED
      BY SameRest, <1>1, <2>1, <2>2
  <1>4. QED
    BY <1>2, <1>3 DEF x, y, z

-----------------------------------------------------------------------------
(* SPRITE MEMORY                                                            *)

(* A copy goes through the page from its first byte on, one in two clocks. *)
BytesCopied == OamSize - (cycles_left \div 2)

(* Between copies the clock of execute_DMA is idle; during one, the bytes  *)
(* gone through are in place.                                              *)
CopyInv ==
  /\ dma_clocked => dma_pending
  /\ ~dma_clocked => cycles_left = DmaIdle
  /\ dma_clocked => \A a \in 0..OamSize - 1 :
       a >= oam_addr /\ a - oam_addr < BytesCopied => oam[a] = base_addr[a - oam_addr]

OamInv == OamTypeOK /\ CopyInv

LEMMA OamInitially == OamInit => OamInv
  <1> SUFFICES ASSUME OamInit PROVE OamInv
    OBVIOUS
  <1> USE OamAssumption DEF OamInit
  <1>1. oam \in [0..OamSize - 1 -> OamBytes] /\ oam_overrun \in 0..OamSize - 1
    OBVIOUS
  <1>2. oam_return_value \in 0..255 /\ oam_addr \in 0..OamSize - 1
    OBVIOUS
  <1>3. cycles_left = DmaIdle /\ cycles_left \in 1..DmaIdle
    BY DEF DmaIdle, CopyClocks
  <1>4. QED
    BY <1>1, <1>2, <1>3 DEF OamInv, OamTypeOK, CopyInv

LEMMA AttributesInByte ==
  ASSUME NEW data \in 0..255
  PROVE  Attributes(data) \in 0..255
  BY DEF Attributes

LEMMA Uint8InOam ==
  ASSUME NEW value \in Nat
  PROVE  Uint8(value) \in 0..OamSize - 1
  <1>1. OamSize \in Nat \ {0}
    BY OamAssumption
  <1>2. QED
    BY <1>1, DivMod DEF Uint8

(* The clocks of execute_DMA: what cycles_left is, when a byte is copied   *)
(* and which.                                                              *)
Left == IF Copies THEN DmaClock - 1 ELSE DmaClock

Writes == Copies /\ DmaClock % 2 = 0

LEMMA ClockOfCopy ==
  ASSUME OamInv
  PROVE  /\ Left \in 0..DmaIdle
         /\ ~dma_clocked => ~Writes /\ Left # 0 /\ OamSize - (Left \div 2) <= 0
         /\ Writes => /\ Index \in 0..OamSize - 1
                      /\ OamSize - (Left \div 2) = Index + 1
                      /\ BytesCopied >= Index
         /\ dma_clocked /\ ~Writes => OamSize - (Left \div 2) <= BytesCopied
                                      \/ OamSize - (Left \div 2) <= 0
  <1> USE OamAssumption
  <1>1. cycles_left \in 1..(2 * OamSize) + 2
    BY DEF OamInv, OamTypeOK, DmaIdle, CopyClocks
  <1>2. /\ ~dma_clocked => cycles_left = (2 * OamSize) + 2
        /\ cpu_cycle_odd \in BOOLEAN
    BY DEF OamInv, OamTypeOK, CopyInv, DmaIdle, CopyClocks
  <1>3. QED
    BY <1>1, <1>2 DEF Left, Writes, Copies, DmaClock, DmaAligned, DmaIdle, CopyClocks, Index, BytesCopied

(* One lemma per step: the invariant is kept, and the step is one of       *)
(* OamMemory or leaves its variables alone.                                *)

Requested == IF dma_pending /\ ~dma_clocked THEN {base_addr} ELSE {}

memory_vars == <<OamCompleted, oam_addr, oam_rendering, Requested, oam_return_value>>

LEMMA CpuStep ==
  ASSUME OamInv, CpuRuns, UNCHANGED dma_vars
  PROVE  /\ ~dma_clocked /\ ~dma_clocked'
         /\ CopyInv'
         /\ OamCompleted = oam /\ OamCompleted' = oam'
         /\ Requested = {} /\ Requested' = {}
         /\ base_addr' \in OamPages /\ cycles_left' \in 1..DmaIdle
         /\ dma_pending' \in BOOLEAN /\ dma_clocked' \in BOOLEAN /\ cpu_cycle_odd' \in BOOLEAN
  <1>1. ~dma_clocked /\ ~dma_pending
    BY DEF CpuRuns, OamInv, CopyInv
  <1>2. ~dma_clocked' /\ ~dma_pending'
    BY <1>1 DEF dma_vars
  <1>3. CopyInv'
    BY <1>1, <1>2 DEF CopyInv, OamInv, dma_vars, DmaIdle, CopyClocks
  <1>4. QED
    BY <1>1, <1>2, <1>3 DEF OamCompleted, Requested, OamInv, OamTypeOK, dma_vars, DmaIdle, CopyClocks

LEMMA SelectStep ==
  ASSUME OamInv, write_2003
  PROVE  OamInv' /\ Memory!Select
  <1>1. CpuRuns /\ UNCHANGED dma_vars
    BY DEF write_2003
  <1>2. OamInv'
    BY <1>1, CpuStep DEF write_2003, OamInv, OamTypeOK
  <1>3. Memory!Select
    BY <1>1, CpuStep DEF write_2003, Memory!Select, Requested
  <1>4. QED
    BY <1>2, <1>3

LEMMA WriteInVainStep ==
  ASSUME OamInv, write_2004_rendering
  PROVE  OamInv' /\ Memory!WriteInVain
  <1>1. CpuRuns /\ UNCHANGED dma_vars
    BY DEF write_2004_rendering
  <1>2. oam_addr + 4 \in Nat
    BY OamAssumption DEF OamInv, OamTypeOK
  <1>3. oam_addr' \in 0..OamSize - 1
    BY <1>2, Uint8InOam DEF write_2004_rendering
  <1>4. OamInv'
    BY <1>1, <1>3, CpuStep DEF write_2004_rendering, OamInv, OamTypeOK
  <1>5. Memory!WriteInVain
    BY <1>1, CpuStep DEF write_2004_rendering, Memory!WriteInVain, Requested, Uint8
  <1>6. QED
    BY <1>4, <1>5

LEMMA WriteStep ==
  ASSUME OamInv, write_2004
  PROVE  OamInv' /\ Memory!Write
  <1>1. CpuRuns /\ UNCHANGED dma_vars
    BY DEF write_2004
  <1>2. oam_addr + 1 \in Nat
    BY OamAssumption DEF OamInv, OamTypeOK
  <1>3. oam_addr' \in 0..OamSize - 1
    BY <1>2, Uint8InOam DEF write_2004
  <1>4. oam' \in [0..OamSize - 1 -> OamBytes]
    BY DEF write_2004, OamInv, OamTypeOK
  <1>5. OamInv'
    BY <1>1, <1>3, <1>4, CpuStep DEF write_2004, OamInv, OamTypeOK
  <1>6. Memory!Write
    BY <1>1, CpuStep DEF write_2004, Memory!Write, Requested, Uint8
  <1>7. QED
    BY <1>5, <1>6

LEMMA ReadStep ==
  ASSUME OamInv, read_2004
  PROVE  OamInv' /\ Memory!Read
  <1>1. CpuRuns /\ UNCHANGED dma_vars
    BY DEF read_2004
  <1>2. oam_addr \in 0..OamSize - 1 /\ oam_addr + 1 \in Nat
    BY OamAssumption DEF OamInv, OamTypeOK
  <1>3. oam_addr' \in 0..OamSize - 1
    BY <1>2, Uint8InOam DEF read_2004
  <1>4. oam[oam_addr] \in OamBytes /\ oam[oam_addr] \in 0..255
    BY <1>2, OamAssumption DEF OamInv, OamTypeOK
  <1>5. oam_return_value' \in 0..255
    BY <1>4, AttributesInByte DEF read_2004
  <1>6. OamInv'
    BY <1>1, <1>3, <1>5, CpuStep DEF read_2004, OamInv, OamTypeOK
  <1>7. Memory!Read
    BY <1>1, <1>4, CpuStep DEF read_2004, Memory!Read, Requested, Uint8
  <1>8. QED
    BY <1>6, <1>7

LEMMA RequestStep ==
  ASSUME OamInv, write_4014
  PROVE  OamInv' /\ Memory!Request
  <1>1. ~dma_clocked /\ ~dma_clocked' /\ dma_pending'
    BY DEF write_4014
  <1>2. OamInv'
    BY <1>1 DEF write_4014, OamInv, OamTypeOK, CopyInv, DmaIdle, CopyClocks
  <1>3. /\ OamCompleted = oam /\ OamCompleted' = oam'
        /\ Requested' = {base_addr'}
    BY <1>1 DEF OamCompleted, Requested
  <1>4. Memory!Request
    BY <1>3 DEF write_4014, Memory!Request, Requested
  <1>5. QED
    BY <1>2, <1>4

LEMMA RenderStep ==
  ASSUME OamInv, RenderingChanges
  PROVE  OamInv' /\ Memory!Render
  <1>1. OamInv'
    BY DEF RenderingChanges, dma_vars, OamInv, OamTypeOK, CopyInv, BytesCopied, DmaIdle, CopyClocks
  <1>2. OamCompleted' = OamCompleted /\ Requested' = Requested
    BY DEF RenderingChanges, dma_vars, OamCompleted, Requested
  <1>3. QED
    BY <1>1, <1>2 DEF RenderingChanges, Memory!Render, Requested

(* A clock of execute_DMA: what becomes of the memory.                     *)
LEMMA CopiedByte ==
  ASSUME OamInv, execute_DMA
  PROVE  /\ oam' \in [0..OamSize - 1 -> OamBytes]
         /\ oam_overrun' \in 0..OamSize - 1
         /\ \A a \in 0..OamSize - 1 :
              oam'[a] = IF Writes /\ a = Target THEN base_addr[Index] ELSE oam[a]
  <1> USE OamAssumption
  <1>1. /\ oam \in [0..OamSize - 1 -> OamBytes]
        /\ oam_addr \in 0..OamSize - 1 /\ oam_overrun \in 0..OamSize - 1
        /\ base_addr \in [0..OamSize - 1 -> OamBytes]
    BY DEF OamInv, OamTypeOK
  <1>2. CASE ~Writes
    BY <1>1, <1>2 DEF execute_DMA, Writes
  <1>3. CASE Writes /\ Target < OamSize
    <2>1. oam' = [oam EXCEPT ![Target] = base_addr[Index]] /\ UNCHANGED oam_overrun
      BY <1>3 DEF execute_DMA, Writes, CopyByte
    <2>2. Index \in 0..OamSize - 1 /\ base_addr[Index] \in OamBytes
      BY <1>1, <1>3, ClockOfCopy
    <2>3. Target \in 0..OamSize - 1
      BY <1>1, <1>3, <2>2 DEF Target
    <2>4. QED
      BY <1>1, <1>3, <2>1, <2>2, <2>3
  <1>4. CASE Writes /\ ~(Target < OamSize)
    <2>1. /\ oam_overrun' = IF Target - OamSize < oam_overrun THEN oam_overrun
                            ELSE Target - OamSize + 1
          /\ UNCHANGED oam
      BY <1>4 DEF execute_DMA, Writes, CopyByte
    <2>2. Target \in OamSize..(2 * OamSize) - 2
      BY <1>1, <1>4, ClockOfCopy DEF Target
    <2>3. QED
      BY <1>1, <2>1, <2>2
  <1>5. QED
    BY <1>2, <1>3, <1>4

LEMMA DmaStep ==
  ASSUME OamInv, execute_DMA
  PROVE  OamInv' /\ (Memory!Transfer \/ UNCHANGED memory_vars)
  <1> USE OamAssumption
  <1>1. /\ oam \in [0..OamSize - 1 -> OamBytes]
        /\ oam_addr \in 0..OamSize - 1 /\ oam_addr' = oam_addr
        /\ base_addr \in [0..OamSize - 1 -> OamBytes] /\ base_addr' = base_addr
        /\ dma_pending
    BY DEF OamInv, OamTypeOK, execute_DMA
  <1>2. /\ cycles_left' = IF Left = 0 THEN DmaIdle ELSE Left
        /\ dma_pending' = (Left # 0) /\ dma_clocked' = (Left # 0)
    BY DEF execute_DMA, Left
  <1>3. /\ Left \in 0..DmaIdle
        /\ cycles_left' \in 1..DmaIdle
        /\ BytesCopied \in Int /\ BytesCopied' \in Int
        /\ Left # 0 => BytesCopied' = OamSize - (Left \div 2)
        /\ Left = 0 => OamSize - (Left \div 2) = OamSize
    <2>1. Left \in 0..DmaIdle
      BY ClockOfCopy
    <2>2. QED
      BY <1>2, <2>1 DEF BytesCopied, DmaIdle, CopyClocks, OamInv, OamTypeOK
  (* What is gone through after the clock is in place.                     *)
  <1>4. ASSUME NEW a \in 0..OamSize - 1, a >= oam_addr, a - oam_addr < OamSize - (Left \div 2)
        PROVE  oam'[a] = base_addr[a - oam_addr]
    <2>1. CASE Writes
      <3>1. dma_clocked /\ Index \in 0..OamSize - 1 /\ BytesCopied >= Index
            /\ OamSize - (Left \div 2) = Index + 1
        BY <2>1, ClockOfCopy
      <3>2. CASE a = Target
        BY <1>1, <2>1, <3>1, <3>2, CopiedByte DEF Target
      <3>3. CASE a # Target
        <4>1. a - oam_addr < Index
          BY <1>1, <1>4, <3>1, <3>3 DEF Target
        <4>2. oam[a] = base_addr[a - oam_addr]
          BY <1>1, <1>3, <1>4, <3>1, <4>1 DEF OamInv, CopyInv
        <4>3. QED
          BY <3>3, <4>2, CopiedByte
      <3>4. QED
        BY <3>2, <3>3
    <2>2. CASE ~Writes
      <3>1. a - oam_addr >= 0
        BY <1>1, <1>4
      <3>2. Left \div 2 \in Int
        BY <1>3 DEF DmaIdle, CopyClocks
      <3>3. dma_clocked /\ OamSize - (Left \div 2) <= BytesCopied
        BY <1>1, <1>4, <2>2, <3>1, <3>2, ClockOfCopy
      <3>4. oam[a] = base_addr[a - oam_addr]
        BY <1>1, <1>3, <1>4, <3>2, <3>3 DEF OamInv, CopyInv
      <3>5. QED
        BY <2>2, <3>4, CopiedByte
    <2>3. QED
      BY <2>1, <2>2
  <1>5. OamInv'
    <2>1. CopyInv'
      <3>1. CASE Left = 0
        BY <1>2, <3>1 DEF CopyInv
      <3>2. CASE Left # 0
        BY <1>1, <1>2, <1>3, <1>4, <3>2 DEF CopyInv
      <3>3. QED
        BY <3>1, <3>2
    <2>2. OamTypeOK'
      BY <1>2, <1>3, CopiedByte DEF OamTypeOK, OamInv, execute_DMA
    <2>3. QED
      BY <2>1, <2>2 DEF OamInv
  (* Before and after the clock the copy comes to the same.                *)
  <1> DEFINE whole == [a \in 0..OamSize - 1 |->
                         IF a >= oam_addr THEN base_addr[a - oam_addr] ELSE oam[a]]
  <1>6. OamCompleted' = whole
    <2>1. /\ oam' \in [0..OamSize - 1 -> OamBytes]
          /\ \A a \in 0..OamSize - 1 : a < oam_addr => oam'[a] = oam[a]
      BY <1>1, CopiedByte, ClockOfCopy DEF Target
    <2>2. CASE Left # 0
      <3>1. OamCompleted' = [a \in 0..OamSize - 1 |->
                               IF a >= oam_addr THEN base_addr[a - oam_addr] ELSE oam'[a]]
        BY <1>1, <1>2, <2>2 DEF OamCompleted
      <3>2. QED
        BY <1>1, <2>1, <3>1
    <2>3. CASE Left = 0
      <3>1. \A a \in 0..OamSize - 1 : a >= oam_addr => oam'[a] = base_addr[a - oam_addr]
        BY <1>1, <1>3, <1>4, <2>3
      <3>2. OamCompleted' = oam'
        BY <1>2, <2>3 DEF OamCompleted
      <3>3. oam' = whole
        BY <1>1, <2>1, <3>1
      <3>4. QED
        BY <3>2, <3>3
    <2>4. QED
      BY <2>2, <2>3
  <1>7. Requested' = {}
    BY <1>2 DEF Requested
  <1>8. CASE dma_clocked
    <2>1. OamCompleted = whole
      BY <1>8 DEF OamCompleted
    <2>2. Requested = {}
      BY <1>8 DEF Requested
    <2>3. QED
      BY <1>1, <1>5, <1>6, <1>7, <2>1, <2>2 DEF memory_vars, execute_DMA
  <1>9. CASE ~dma_clocked
    <2>1. OamCompleted = oam
      BY <1>9 DEF OamCompleted
    <2>2. Requested = {base_addr}
      BY <1>1, <1>9 DEF Requested
    <2>3. Memory!Transfer
      BY <1>1, <1>6, <1>7, <2>1, <2>2 DEF Memory!Transfer, Requested, execute_DMA
    <2>4. QED
      BY <1>5, <2>3
  <1>10. QED
    BY <1>8, <1>9

(* A step of the port keeps the invariant, and implements OamMemory.       *)
LEMMA OamStep ==
  ASSUME OamInv, OamNext
  PROVE  OamInv' /\ (Memory!Next \/ UNCHANGED memory_vars)
  <1>1. CASE write_2003
    BY <1>1, SelectStep DEF Memory!Next
  <1>2. CASE write_2004
    BY <1>2, WriteStep DEF Memory!Next
  <1>3. CASE write_2004_rendering
    BY <1>3, WriteInVainStep DEF Memory!Next
  <1>4. CASE read_2004
    BY <1>4, ReadStep DEF Memory!Next
  <1>5. CASE write_4014
    BY <1>5, RequestStep DEF Memory!Next
  <1>6. CASE execute_DMA
    BY <1>6, DmaStep DEF Memory!Next
  <1>7. CASE RenderingChanges
    BY <1>7, RenderStep DEF Memory!Next
  <1>8. QED
    BY <1>1, <1>2, <1>3, <1>4, <1>5, <1>6, <1>7 DEF OamNext

LEMMA OamStutter ==
  ASSUME OamInv, UNCHANGED oam_vars
  PROVE  OamInv' /\ UNCHANGED memory_vars
  <1> USE DEF oam_vars, dma_vars
  <1>1. OamInv'
    BY DEF OamInv, OamTypeOK, CopyInv, BytesCopied, DmaIdle, CopyClocks
  <1>2. UNCHANGED memory_vars
    BY DEF memory_vars, OamCompleted, Requested
  <1>3. QED
    BY <1>1, <1>2

-----------------------------------------------------------------------------
(* THE MEMORY OF THE PPU                                                    *)

LEMMA Sizes ==
  /\ TableSize \in Nat \ {0} /\ PatternSize \in Nat
  /\ PaletteSize \in Nat \ {0} /\ Half \in Nat \ {0} /\ PaletteSize = 2 * Half
  /\ AddressSpace \in Nat \ {0} /\ AddressSpace = PatternSize + (8 * TableSize)
  /\ PaletteStart \in Nat /\ PaletteStart < AddressSpace
  /\ PaletteStart >= PatternSize + (7 * TableSize)
  BY VramAssumption DEF AddressSpace, Address, Half

(* The memory behind an address, named as the manuals name it.             *)
Kind(addr) == IF InPatterns(addr) THEN "pattern" ELSE IF InPalette(addr) THEN "palette" ELSE "name"

Entry(addr) == IF addr % PaletteSize = Half THEN 0 ELSE addr % PaletteSize

Place(addr) ==
  << Kind(addr),
     IF Kind(addr) = "name" THEN PageOf(addr) ELSE "",
     CASE Kind(addr) = "pattern" -> addr
       [] Kind(addr) = "palette" -> Entry(addr)
       [] Kind(addr) = "name" -> Offset(addr) >>

LEMMA PageValues ==
  ASSUME NEW t \in 0..3
  PROVE  /\ Pages["HORIZONTAL"][t + 1] = (IF t \div 2 = 0 THEN "A" ELSE "B")
         /\ Pages["VERTICAL"][t + 1] = (IF t % 2 = 0 THEN "A" ELSE "B")
         /\ Pages["SINGLE_SCREEN_A"][t + 1] = "A"
         /\ Pages["SINGLE_SCREEN_B"][t + 1] = "B"
  <1>1. t = 0 \/ t = 1 \/ t = 2 \/ t = 3
    OBVIOUS
  <1>2. CASE t = 0
    BY <1>2 DEF Pages
  <1>3. CASE t = 1
    BY <1>3 DEF Pages
  <1>4. CASE t = 2
    BY <1>4 DEF Pages
  <1>5. CASE t = 3
    BY <1>5 DEF Pages
  <1>6. QED
    BY <1>1, <1>2, <1>3, <1>4, <1>5

LEMMA Layouts ==
  DOMAIN Pages = {"HORIZONTAL", "VERTICAL", "SINGLE_SCREEN_A", "SINGLE_SCREEN_B"}
  BY DEF Pages

LEMMA TableOfAddress ==
  ASSUME NEW addr \in Address, ~InPatterns(addr)
  PROVE  /\ Table(addr) \in 0..3 /\ addr - PatternSize \in Nat
         /\ Offset(addr) \in 0..TableSize - 1
  <1> DEFINE behind == addr - PatternSize
             row == behind \div TableSize
  <1>1. behind \in Nat
    BY Sizes DEF InPatterns, Address
  <1>2. Table(addr) = row % 4 /\ Offset(addr) = behind % TableSize
    BY DEF Table, Offset
  <1>3. row \in Int /\ behind % TableSize \in 0..TableSize - 1
    <2> HIDE DEF behind
    <2>1. QED
      BY <1>1, Sizes, DivMod
  <1> HIDE DEF row
  <1>4. row % 4 \in 0..3
    BY <1>3
  <1>5. QED
    BY <1>1, <1>2, <1>3, <1>4

LEMMA PageOfAddress ==
  ASSUME VramTypeOK, NEW addr \in Address, ~InPatterns(addr)
  PROVE  PageOf(addr) \in {"A", "B"}
  BY TableOfAddress, PageValues, Layouts DEF PageOf, VramTypeOK

LEMMA PaletteOffset ==
  ASSUME NEW addr \in Address
  PROVE  /\ (addr - PaletteStart) % PaletteSize = addr % PaletteSize
         /\ addr % PaletteSize \in 0..PaletteSize - 1
  <1>1. addr - (addr - PaletteStart) = PaletteStart
    BY Sizes DEF Address
  <1>2. addr \in Int /\ addr - PaletteStart \in Int
    BY Sizes DEF Address
  <1>3. PaletteStart % PaletteSize = 0
    BY VramAssumption
  <1>4. addr % PaletteSize = (addr - PaletteStart) % PaletteSize
    BY <1>1, <1>2, <1>3, Sizes, Congruent
  <1>5. QED
    BY <1>2, <1>4, Sizes, DivMod

SameTable(s, t) ==
  CASE nametable_mirroring = "HORIZONTAL" -> s \div 2 = t \div 2
    [] nametable_mirroring = "VERTICAL" -> s % 2 = t % 2
    [] OTHER -> TRUE

LEMMA SamePages ==
  ASSUME VramTypeOK, NEW s \in 0..3, NEW t \in 0..3
  PROVE  Pages[nametable_mirroring][s + 1] = Pages[nametable_mirroring][t + 1] <=> SameTable(s, t)
  <1>1. nametable_mirroring \in {"HORIZONTAL", "VERTICAL", "SINGLE_SCREEN_A", "SINGLE_SCREEN_B"}
    BY Layouts DEF VramTypeOK
  <1>2. /\ s \div 2 \in {0, 1} /\ s % 2 \in {0, 1}
        /\ t \div 2 \in {0, 1} /\ t % 2 \in {0, 1}
    OBVIOUS
  <1>3. CASE nametable_mirroring = "HORIZONTAL"
    BY <1>2, <1>3, PageValues DEF SameTable
  <1>4. CASE nametable_mirroring = "VERTICAL"
    BY <1>2, <1>4, PageValues DEF SameTable
  <1>5. CASE nametable_mirroring \in {"SINGLE_SCREEN_A", "SINGLE_SCREEN_B"}
    BY <1>5, PageValues DEF SameTable
  <1>6. QED
    BY <1>1, <1>3, <1>4, <1>5

(* The map of the code and that of the manuals agree.                      *)
LEMMA PlacesAgree ==
  ASSUME VramTypeOK, NEW a \in Address, NEW b \in Address
  PROVE  SamePlace(a, b) <=> Place(a) = Place(b)
  <1>1. /\ Kind(a) \in {"pattern", "palette", "name"}
        /\ Kind(b) \in {"pattern", "palette", "name"}
    BY DEF Kind
  <1>2. CASE Kind(a) # Kind(b)
    <2>1. a \in Int /\ b \in Int /\ PatternSize \in Int /\ PaletteStart \in Int
          /\ PatternSize <= PaletteStart
      BY Sizes DEF Address
    <2>2. /\ a < PatternSize => ~(b < PatternSize)
          /\ a >= PaletteStart => b < PaletteStart
          /\ ~(a < PatternSize) /\ a < PaletteStart => b < PatternSize \/ ~(b < PaletteStart)
      BY <1>2, <2>1 DEF Kind, InPatterns, InPalette
    <2>3. ASSUME SamePlace(a, b) PROVE FALSE
      <3>1. CASE a < PatternSize
        BY <2>1, <2>2, <2>3, <3>1 DEF SamePlace
      <3>2. CASE ~(a < PatternSize) /\ a < PaletteStart
        BY <2>1, <2>2, <2>3, <3>2 DEF SamePlace
      <3>3. CASE ~(a < PatternSize) /\ ~(a < PaletteStart)
        BY <2>1, <2>2, <2>3, <3>3 DEF SamePlace
      <3>4. QED
        BY <3>1, <3>2, <3>3
    <2>4. Place(a) # Place(b)
      BY <1>1, <1>2 DEF Place
    <2>5. QED
      BY <2>3, <2>4
  <1>3. CASE Kind(a) = "pattern" /\ Kind(b) = "pattern"
    BY <1>3 DEF SamePlace, Place, Kind, InPatterns, InPalette
  <1>4. CASE Kind(a) = "palette" /\ Kind(b) = "palette"
    <2>1. a >= PaletteStart /\ ~(a < PatternSize) /\ b >= PaletteStart /\ ~(b < PatternSize)
          /\ ~(a < PaletteStart) /\ ~(b < PaletteStart)
      BY <1>4, Sizes DEF Kind, InPatterns, InPalette, Address
    <2>2. SamePlace(a, b) <=> Entry(a) = Entry(b)
      BY <1>4, <2>1, PaletteOffset DEF SamePlace, Entry
    <2>3. QED
      BY <1>4, <2>2 DEF Place
  <1>5. CASE Kind(a) = "name" /\ Kind(b) = "name"
    <2>1. ~(a < PatternSize) /\ a < PaletteStart /\ ~(b < PatternSize) /\ b < PaletteStart
      BY <1>5, Sizes DEF Kind, InPatterns, InPalette, Address
    <2>2. SamePlace(a, b) <=> SameTable(Table(a), Table(b)) /\ (a - b) % TableSize = 0
      BY <2>1 DEF SamePlace, SameTable, Table
    <2>3. PageOf(a) = PageOf(b) <=> SameTable(Table(a), Table(b))
      <3>1. Table(a) \in 0..3 /\ Table(b) \in 0..3
        BY <2>1, TableOfAddress DEF InPatterns
      <3>2. QED
        BY <3>1, SamePages DEF PageOf
    <2>4. Offset(a) = Offset(b) <=> (a - b) % TableSize = 0
      <3>1. /\ a - PatternSize \in Int /\ b - PatternSize \in Int
            /\ (a - PatternSize) - (b - PatternSize) = a - b
        BY Sizes DEF Address
      <3>2. QED
        BY <3>1, Congruent, Sizes DEF Offset
    <2>5. QED
      BY <1>5, <2>2, <2>3, <2>4 DEF Place
  <1>6. QED
    BY <1>1, <1>2, <1>3, <1>4, <1>5

(* The entries half a palette apart.                                       *)
LEMMA Halves ==
  ASSUME NEW addr \in Nat
  PROVE  /\ addr % Half = 0 <=> addr % PaletteSize \in {0, Half}
         /\ addr % Half = 0 => { addr % PaletteSize, (addr + Half) % PaletteSize } = {0, Half}
  <1> DEFINE k == addr \div Half
             m == k \div 2
             y == addr % Half
  <1>1. addr = (Half * k) + y /\ y \in 0..Half - 1 /\ k \in Int
    BY Sizes, DivMod
  <1> HIDE DEF k, y
  <1>2. k = 2 * m \/ k = (2 * m) + 1
    BY <1>1
  <1>3. m \in Int
    BY <1>1
  <1> HIDE DEF m
  <1>4. CASE k = 2 * m
    <2>1. addr = (PaletteSize * m) + y /\ y \in 0..PaletteSize - 1
      BY <1>1, <1>3, <1>4, Sizes
    <2>2. addr % PaletteSize = y
      BY <1>3, <2>1, Sizes, DivModUnique
    <2>3. ASSUME y = 0 PROVE (addr + Half) % PaletteSize = Half
      <3> DEFINE next == addr + Half
      <3>1. next = (PaletteSize * m) + Half /\ Half \in 0..PaletteSize - 1 /\ next \in Int
        BY <1>3, <2>1, <2>3, Sizes
      <3> HIDE DEF next
      <3>2. next % PaletteSize = Half
        BY <1>3, <3>1, Sizes, RestOf
      <3>3. QED
        BY <3>2 DEF next
    <2>4. QED
      BY <1>1, <2>2, <2>3, Sizes DEF y
  <1>5. CASE k = (2 * m) + 1
    <2> DEFINE z == Half + y
    <2>1. addr = (PaletteSize * m) + z /\ z \in 0..PaletteSize - 1 /\ z >= Half
      BY <1>1, <1>3, <1>5, Sizes
    <2>2. z = Half <=> y = 0
      BY <1>1, Sizes
    <2> HIDE DEF z
    <2>3. addr % PaletteSize = z
      BY <1>3, <2>1, Sizes, DivModUnique
    <2>4. ASSUME y = 0 PROVE (addr + Half) % PaletteSize = 0
      <3> DEFINE next == addr + Half
                 q == m + 1
      <3>1. next = PaletteSize * q /\ q \in Int /\ next \in Int
        BY <1>3, <2>1, <2>2, <2>4, Sizes
      <3> HIDE DEF next, q
      <3>2. next % PaletteSize = 0
        BY <3>1, NoRest, Sizes
      <3>3. QED
        BY <3>2 DEF next
    <2>5. addr % PaletteSize \in {0, Half} <=> y = 0
      BY <1>1, <2>1, <2>2, <2>3, Sizes
    <2>6. QED
      BY <2>2, <2>3, <2>4, <2>5 DEF y
  <1>6. QED
    BY <1>2, <1>4, <1>5

(* What a write to a palette address reaches is what has its name.         *)
LEMMA EntriesOfAddress ==
  ASSUME NEW addr \in Address, NEW a \in Address
  PROVE  /\ a % PaletteSize \in Entries(addr) => Entry(a) = Entry(addr)
         /\ ~EndOfMirrors(addr) /\ Entry(a) = Entry(addr) => a % PaletteSize \in Entries(addr)
  <1>1. /\ addr \in Nat /\ a \in Nat /\ addr < AddressSpace
        /\ addr % PaletteSize \in 0..PaletteSize - 1 /\ a % PaletteSize \in 0..PaletteSize - 1
    BY PaletteOffset, Sizes DEF Address
  <1>2. CASE addr % Half # 0
    <2>1. Entries(addr) = {addr % PaletteSize}
      BY <1>2 DEF Entries, Backdrops
    <2>2. addr % PaletteSize \notin {0, Half}
      BY <1>1, <1>2, Halves
    <2>3. QED
      BY <1>1, <2>1, <2>2, Sizes DEF Entry
  <1>3. CASE addr % Half = 0
    <2>1. { addr % PaletteSize, (addr + Half) % PaletteSize } = {0, Half}
      BY <1>1, <1>3, Halves
    <2>2. Entries(addr) \subseteq {0, Half}
      BY <1>3, <2>1 DEF Entries, Backdrops
    <2>3. Entry(addr) = 0
      BY <2>1 DEF Entry
    <2>4. ASSUME ~EndOfMirrors(addr) PROVE {0, Half} \subseteq Entries(addr)
      <3>1. addr + Half \in Address
        <4>1. AddressSpace % Half = 0
          BY Halves, Sizes, VramAssumption
        <4>2. PICK p \in Int : addr = Half * p
          <5>1. addr \in Int /\ Half \in Nat \ {0}
            BY <1>1, Sizes
          <5>2. QED
            BY <1>3, <5>1, Multiple, Zenon
        <4>3. PICK q \in Int : AddressSpace = Half * q
          BY <4>1, Multiple, Sizes
        <4>4. p < q /\ p # q - 1
          <5>1. CASE p >= q
            <6>1. Half * p >= Half * q
              BY <5>1, Sizes
            <6>2. QED
              BY <1>1, <4>2, <4>3, <6>1, Sizes
          <5>2. CASE p = q - 1
            <6>1. Half * p = (Half * q) - Half
              BY <5>2, Sizes
            <6>2. QED
              BY <2>4, <4>2, <4>3, <6>1, Sizes DEF EndOfMirrors
          <5>3. QED
            BY <5>1, <5>2
        <4>5. p <= q - 2
          BY <4>4
        <4>6. Half * p <= Half * (q - 2)
          BY <4>5, Sizes
        <4>7. Half * (q - 2) = (Half * q) - (2 * Half)
          BY Sizes
        <4>8. QED
          BY <1>1, <4>2, <4>3, <4>6, <4>7, Sizes DEF Address
      <3>2. QED
        BY <1>3, <2>1, <3>1 DEF Entries, Backdrops
    <2>5. Entry(a) = 0 <=> a % PaletteSize \in {0, Half}
      BY DEF Entry
    <2>6. QED
      BY <2>2, <2>3, <2>4, <2>5
  <1>4. QED
    BY <1>2, <1>3

(* A write to an address: what is read of every other.                     *)
LEMMA WriteType ==
  ASSUME VramTypeOK, NEW addr \in Address, NEW data \in Data, cpu_writes_to_vram(addr, data)
  PROVE  /\ pattern_table' \in [0..PatternSize - 1 -> Data]
         /\ nametable' \in [{"A", "B"} -> [0..TableSize - 1 -> Data]]
         /\ palette_ram' \in [0..PaletteSize - 1 -> Data]
  <1>1. pattern_table' \in [0..PatternSize - 1 -> Data]
    BY DEF cpu_writes_to_vram, VramTypeOK
  <1>2. palette_ram' \in [0..PaletteSize - 1 -> Data]
    BY DEF cpu_writes_to_vram, VramTypeOK
  <1>3. nametable' \in [{"A", "B"} -> [0..TableSize - 1 -> Data]]
    <2>1. CASE InPatterns(addr) \/ InPalette(addr)
      BY <2>1 DEF cpu_writes_to_vram, VramTypeOK
    <2>2. CASE ~(InPatterns(addr) \/ InPalette(addr))
      <3>1. nametable' = [nametable EXCEPT ![PageOf(addr)][Offset(addr)] = data]
        BY <2>2 DEF cpu_writes_to_vram
      <3>2. PageOf(addr) \in {"A", "B"} /\ Offset(addr) \in 0..TableSize - 1
        BY <2>2, PageOfAddress, TableOfAddress
      <3>3. QED
        BY <3>1, <3>2 DEF VramTypeOK
    <2>3. QED
      BY <2>1, <2>2
  <1>4. QED
    BY <1>1, <1>2, <1>3

LEMMA WriteReaches ==
  ASSUME VramTypeOK, NEW addr \in Address, NEW data \in Data, cpu_writes_to_vram(addr, data),
         UNCHANGED nametable_mirroring, NEW a \in Address
  PROVE  /\ Place(a) = Place(addr) /\ ~EndOfMirrors(addr) /\ ~(InPatterns(addr) /\ ~chr_ram)
              => read_from_ppu_vram(a)' = IF InPalette(a) THEN data % 64 ELSE data
         /\ Place(a) # Place(addr) \/ (InPatterns(addr) /\ ~chr_ram)
              => read_from_ppu_vram(a)' = read_from_ppu_vram(a)
  <1>1. /\ pattern_table \in [0..PatternSize - 1 -> Data]
        /\ nametable \in [{"A", "B"} -> [0..TableSize - 1 -> Data]]
        /\ palette_ram \in [0..PaletteSize - 1 -> Data]
    BY DEF VramTypeOK
  <1>2. PageOf(a)' = PageOf(a)
    BY DEF PageOf
  <1>3. PatternSize <= PaletteStart /\ PatternSize \in Nat /\ PaletteStart \in Nat /\ a \in Nat /\ addr \in Nat
    BY Sizes DEF Address
  <1>4. CASE InPatterns(a)
    <2>1. a \in 0..PatternSize - 1
      BY <1>3, <1>4 DEF InPatterns
    <2>2. Kind(a) = "pattern" /\ ~InPalette(a)
      BY <1>3, <1>4 DEF Kind, InPatterns, InPalette
    <2>3. Place(a) = Place(addr) <=> a = addr
      BY <2>2 DEF Place
    <2>4. read_from_ppu_vram(a)' = pattern_table'[a] /\ read_from_ppu_vram(a) = pattern_table[a]
      BY <1>4 DEF read_from_ppu_vram
    <2>5. QED
      BY <1>1, <1>4, <2>1, <2>2, <2>3, <2>4 DEF cpu_writes_to_vram
  <1>5. CASE ~InPatterns(a) /\ InPalette(a)
    <2>1. Kind(a) = "palette" /\ a % PaletteSize \in 0..PaletteSize - 1
      BY <1>5, PaletteOffset DEF Kind
    <2>2. /\ read_from_ppu_vram(a)' = palette_ram'[a % PaletteSize] % 64
          /\ read_from_ppu_vram(a) = palette_ram[a % PaletteSize] % 64
      BY <1>5 DEF read_from_ppu_vram
    <2>3. CASE InPalette(addr)
      <3>1. Kind(addr) = "palette" /\ ~InPatterns(addr)
        BY <1>3, <2>3 DEF Kind, InPatterns, InPalette
      <3>2. Place(a) = Place(addr) <=> Entry(a) = Entry(addr)
        BY <2>1, <3>1 DEF Place
      <3>3. palette_ram'[a % PaletteSize] =
              IF a % PaletteSize \in Entries(addr) THEN data ELSE palette_ram[a % PaletteSize]
        BY <1>1, <2>1, <2>3 DEF cpu_writes_to_vram
      <3>4. QED
        BY <1>5, <2>2, <3>1, <3>2, <3>3, EntriesOfAddress
    <2>4. CASE ~InPalette(addr)
      <3>1. Place(a) # Place(addr)
        BY <2>1, <2>4 DEF Place, Kind
      <3>2. palette_ram' = palette_ram
        BY <2>4 DEF cpu_writes_to_vram
      <3>3. QED
        BY <2>2, <3>1, <3>2
    <2>5. QED
      BY <2>3, <2>4
  <1>6. CASE ~InPatterns(a) /\ ~InPalette(a)
    <2>1. Kind(a) = "name" /\ PageOf(a) \in {"A", "B"} /\ Offset(a) \in 0..TableSize - 1
      BY <1>6, PageOfAddress, TableOfAddress DEF Kind
    <2>2. /\ read_from_ppu_vram(a)' = nametable'[PageOf(a)][Offset(a)]
          /\ read_from_ppu_vram(a) = nametable[PageOf(a)][Offset(a)]
      BY <1>2, <1>6 DEF read_from_ppu_vram
    <2>3. CASE ~InPatterns(addr) /\ ~InPalette(addr)
      <3>1. Kind(addr) = "name" /\ PageOf(addr) \in {"A", "B"} /\ Offset(addr) \in 0..TableSize - 1
        BY <2>3, PageOfAddress, TableOfAddress DEF Kind
      <3>2. Place(a) = Place(addr) <=> PageOf(a) = PageOf(addr) /\ Offset(a) = Offset(addr)
        BY <2>1, <3>1 DEF Place
      <3>3. nametable' = [nametable EXCEPT ![PageOf(addr)][Offset(addr)] = data]
        BY <2>3 DEF cpu_writes_to_vram
      <3>4. nametable'[PageOf(a)][Offset(a)] =
              IF PageOf(a) = PageOf(addr) /\ Offset(a) = Offset(addr) THEN data
              ELSE nametable[PageOf(a)][Offset(a)]
        BY <1>1, <2>1, <3>1, <3>3
      <3>5. QED
        BY <1>6, <2>2, <2>3, <3>2, <3>4
    <2>4. CASE InPatterns(addr) \/ InPalette(addr)
      <3>1. Place(a) # Place(addr)
        BY <2>1, <2>4 DEF Place, Kind
      <3>2. nametable' = nametable
        BY <2>4 DEF cpu_writes_to_vram
      <3>3. QED
        BY <2>2, <3>1, <3>2
    <2>5. QED
      BY <2>3, <2>4
  <1>7. QED
    BY <1>4, <1>5, <1>6

-----------------------------------------------------------------------------
(* WHAT THE PROGRAM REMEMBERS                                               *)

(* Every name of the watched address shows what is held, and the read      *)
(* buffer holds what was read ahead.                                       *)
RememberedInv ==
  /\ follows \in {"oam", "vram"} /\ address \in Address
  /\ held \in Data \union {Unknown} /\ ahead \in Data \union {Unknown}
  /\ ahead # Unknown => buffer_2007 = ahead
  /\ held # Unknown => \A a \in Address : Place(a) = Place(address) =>
       read_from_ppu_vram(a) = IF InPalette(a) THEN held % 64 ELSE held

PortsInv == OamInv /\ VramTypeOK /\ RememberedInv

LEMMA VramInitially == VramInit => VramTypeOK
  <1> SUFFICES ASSUME VramInit PROVE VramTypeOK
    OBVIOUS
  <1>1. 0 \in Data /\ 0 \in Address
    BY VramAssumption, Sizes DEF Address
  <1>2. QED
    BY <1>1 DEF VramInit, VramTypeOK

LEMMA PortsInitially == PortsInit => PortsInv
  BY OamInitially, VramInitially, VramAssumption DEF PortsInit, PortsInv, RememberedInv

LEMMA AdvanceInSpace ==
  ASSUME VramTypeOK, Advance
  PROVE  vram_addr' \in Address
  <1>1. PICK step \in {1, Row} : vram_addr' = (vram_addr + step) % AddressSpace
    BY DEF Advance
  <1> DEFINE next == vram_addr + step
  <1>2. next \in Int
    BY <1>1, VramAssumption DEF VramTypeOK, Address
  <1> HIDE DEF next
  <1>3. next % AddressSpace \in 0..AddressSpace - 1
    BY <1>2, Sizes, DivMod
  <1>4. QED
    BY <1>1, <1>3 DEF next, Address

LEMMA KnownIsHeld ==
  ASSUME VramTypeOK, RememberedInv, NEW addr \in Address, Known(addr) # Unknown
  PROVE  /\ Known(addr) = held /\ held \in Data
         /\ read_from_ppu_vram(addr) = IF InPalette(addr) THEN held % 64 ELSE held
  <1>1. Known(addr) = held /\ SamePlace(addr, address)
    BY DEF Known
  <1>2. Place(addr) = Place(address)
    BY <1>1, PlacesAgree DEF RememberedInv
  <1>3. QED
    BY <1>1, <1>2 DEF RememberedInv

LEMMA StoreStep ==
  ASSUME VramTypeOK, RememberedInv, NEW data \in Data, Store(data), UNCHANGED <<follows, address>>
  PROVE  VramTypeOK' /\ RememberedInv'
  <1>1. /\ vram_addr \in Address /\ address \in Address
        /\ cpu_writes_to_vram(vram_addr, data)
        /\ UNCHANGED <<nametable_mirroring, chr_ram, buffer_2007>>
    BY DEF Store, write_2007, VramTypeOK, RememberedInv
  <1>2. VramTypeOK'
    BY <1>1, WriteType, AdvanceInSpace DEF Store, write_2007, VramTypeOK
  <1>3. /\ ahead' = ahead
        /\ held' = IF Place(vram_addr) # Place(address) \/ (InPatterns(address) /\ ~chr_ram) THEN held
                   ELSE IF EndOfMirrors(vram_addr) THEN Unknown ELSE data
    BY <1>1, PlacesAgree DEF Store
  <1>4. ASSUME held' # Unknown, NEW a \in Address, Place(a)' = Place(address)'
        PROVE  read_from_ppu_vram(a)' = IF InPalette(a) THEN held' % 64 ELSE held'
    <2>1. Place(a) = Place(address)
      BY <1>1, <1>4 DEF Place, PageOf, Kind, Entry, Offset
    <2>2. CASE Place(vram_addr) # Place(address)
      <3>1. held' = held /\ Place(a) # Place(vram_addr)
        BY <1>3, <2>1, <2>2
      <3>2. read_from_ppu_vram(a)' = read_from_ppu_vram(a)
        BY <1>1, <3>1, WriteReaches
      <3>3. QED
        BY <1>4, <2>1, <3>1, <3>2 DEF RememberedInv
    <2>3. CASE Place(vram_addr) = Place(address)
      <3>1. InPatterns(address) <=> InPatterns(vram_addr)
        BY <2>3 DEF Place, Kind
      <3>2. CASE InPatterns(address) /\ ~chr_ram
        <4>1. held' = held
          BY <1>3, <3>2
        <4>2. read_from_ppu_vram(a)' = read_from_ppu_vram(a)
          BY <1>1, <3>1, <3>2, WriteReaches
        <4>3. QED
          BY <1>4, <2>1, <4>1, <4>2 DEF RememberedInv
      <3>3. CASE ~(InPatterns(address) /\ ~chr_ram)
        <4>1. held' = data /\ ~EndOfMirrors(vram_addr)
          BY <1>3, <1>4, <2>3, <3>3
        <4>2. QED
          BY <1>1, <2>1, <2>3, <3>1, <3>3, <4>1, WriteReaches
      <3>4. QED
        BY <3>2, <3>3
    <2>4. QED
      BY <2>2, <2>3
  <1>5. RememberedInv'
    BY <1>1, <1>3, <1>4 DEF RememberedInv
  <1>6. QED
    BY <1>2, <1>5

(* Neither a read nor a new address changes what the memory shows.         *)
LEMMA MemoryUnchanged ==
  ASSUME RememberedInv, unchanged_memory, UNCHANGED <<nametable_mirroring, held, follows, address>>
  PROVE  /\ held' \in Data \union {Unknown} /\ address' \in Address /\ follows' \in {"oam", "vram"}
         /\ held' # Unknown => \A a \in Address : Place(a)' = Place(address)' =>
              read_from_ppu_vram(a)' = IF InPalette(a) THEN held' % 64 ELSE held'
  <1>1. \A a : Place(a)' = Place(a) /\ read_from_ppu_vram(a)' = read_from_ppu_vram(a)
    BY DEF Place, PageOf, Kind, Entry, Offset, read_from_ppu_vram, unchanged_memory
  <1>2. Place(address)' = Place(address)
    BY DEF Place, PageOf, Kind, Entry, Offset
  <1>3. QED
    BY <1>1, <1>2 DEF RememberedInv

LEMMA BehindPaletteInSpace ==
  ASSUME NEW addr \in Address
  PROVE  /\ BehindPalette(addr) \in Address
         /\ ~InPalette(BehindPalette(addr))
         /\ BehindPalette(addr) = IF addr < PaletteStart THEN addr ELSE addr - (4 * TableSize)
  BY Sizes DEF BehindPalette, InPalette, Address

LEMMA ReadTypes ==
  ASSUME VramTypeOK, NEW addr \in Address, ~InPalette(addr)
  PROVE  read_from_ppu_vram(addr) \in Data
  <1>1. CASE InPatterns(addr)
    <2>1. addr \in 0..PatternSize - 1
      BY <1>1, Sizes DEF InPatterns, Address
    <2>2. QED
      BY <1>1, <2>1 DEF read_from_ppu_vram, VramTypeOK
  <1>2. CASE ~InPatterns(addr)
    BY <1>2, PageOfAddress, TableOfAddress DEF read_from_ppu_vram, VramTypeOK
  <1>3. QED
    BY <1>1, <1>2

LEMMA LoadStep ==
  ASSUME VramTypeOK, RememberedInv, Load, UNCHANGED <<follows, address>>
  PROVE  VramTypeOK' /\ RememberedInv'
  <1> DEFINE from == BehindPalette(vram_addr)
  <1>1. /\ from \in Address /\ ~InPalette(from)
        /\ ahead' = Known(from)
        /\ buffer_2007' = read_from_ppu_vram(from)
    BY BehindPaletteInSpace DEF Load, read_2007, VramTypeOK
  <1> HIDE DEF from
  <1>2. VramTypeOK'
    BY <1>1, ReadTypes, AdvanceInSpace DEF Load, read_2007, unchanged_memory, VramTypeOK
  <1>3. ahead' \in Data \union {Unknown} /\ (ahead' # Unknown => buffer_2007' = ahead')
    BY <1>1, KnownIsHeld
  <1>4. RememberedInv'
    BY <1>3, MemoryUnchanged DEF Load, read_2007, RememberedInv
  <1>5. QED
    BY <1>2, <1>4

LEMMA AimStep ==
  ASSUME VramTypeOK, RememberedInv, Aim, UNCHANGED <<follows, address>>
  PROVE  VramTypeOK' /\ RememberedInv'
  <1>1. PICK addr \in Watched : write_2006(addr)
    BY DEF Aim
  <1>2. addr \in Address
    BY VramAssumption
  <1>3. VramTypeOK'
    BY <1>1, <1>2 DEF write_2006, unchanged_memory, VramTypeOK
  <1>4. /\ unchanged_memory /\ UNCHANGED <<nametable_mirroring, buffer_2007, held, ahead>>
    BY <1>1 DEF write_2006, Aim
  <1>5. RememberedInv'
    BY <1>4, MemoryUnchanged DEF RememberedInv
  <1>6. QED
    BY <1>3, <1>5

(* The name tables change places, nothing else does.                       *)
LEMMA RearrangeStep ==
  ASSUME VramTypeOK, RememberedInv, Rearrange, UNCHANGED <<follows, address>>
  PROVE  VramTypeOK' /\ RememberedInv'
  <1>1. /\ unchanged_memory /\ UNCHANGED <<chr_ram, vram_addr, buffer_2007, ahead>>
        /\ nametable_mirroring' \in DOMAIN Pages
        /\ held' = IF InPatterns(address) \/ InPalette(address) THEN held ELSE Unknown
    BY DEF Rearrange, set_nametable_mirroring
  <1>2. VramTypeOK'
    BY <1>1 DEF unchanged_memory, VramTypeOK
  <1>3. ASSUME held' # Unknown, NEW a \in Address, Place(a)' = Place(address)'
        PROVE  read_from_ppu_vram(a)' = IF InPalette(a) THEN held' % 64 ELSE held'
    <2>1. held' = held /\ Kind(address) \in {"pattern", "palette"}
      BY <1>1, <1>3 DEF Kind
    <2>2. Kind(a) = Kind(address)
      BY <1>3 DEF Place, Kind
    <2>3. Place(a) = Place(address)
      BY <1>3, <2>1, <2>2 DEF Place, Kind, Entry
    <2>4. read_from_ppu_vram(a)' = read_from_ppu_vram(a)
      BY <1>1, <2>1, <2>2 DEF Kind, read_from_ppu_vram, unchanged_memory
    <2>5. QED
      BY <1>3, <2>1, <2>3, <2>4 DEF RememberedInv
  <1>4. RememberedInv'
    BY <1>1, <1>3 DEF RememberedInv
  <1>5. QED
    BY <1>2, <1>4

LEMMA VramStutter ==
  ASSUME VramTypeOK, RememberedInv, UNCHANGED <<vram_vars, remembered>>
  PROVE  VramTypeOK' /\ RememberedInv'
  <1> USE DEF vram_vars, remembered
  <1>1. VramTypeOK'
    BY DEF VramTypeOK
  <1>2. RememberedInv'
    BY MemoryUnchanged DEF RememberedInv, unchanged_memory
  <1>3. QED
    BY <1>1, <1>2

-----------------------------------------------------------------------------
LEMMA PortsStep ==
  ASSUME PortsInv, [PortsNext]_ports_vars
  PROVE  PortsInv' /\ (Memory!Next \/ UNCHANGED memory_vars)
  <1> USE DEF PortsInv
  <1>1. CASE OamNext /\ UNCHANGED <<vram_vars, remembered>>
    BY <1>1, OamStep, VramStutter
  <1>2. ASSUME NEW data \in Data, Store(data), UNCHANGED <<oam_vars, follows, address>>
        PROVE  PortsInv' /\ UNCHANGED memory_vars
    BY <1>2, StoreStep, OamStutter
  <1>3. CASE Load /\ UNCHANGED <<oam_vars, follows, address>>
    BY <1>3, LoadStep, OamStutter
  <1>4. CASE Aim /\ UNCHANGED <<oam_vars, follows, address>>
    BY <1>4, AimStep, OamStutter
  <1>5. CASE Rearrange /\ UNCHANGED <<oam_vars, follows, address>>
    BY <1>5, RearrangeStep, OamStutter
  <1>6. CASE UNCHANGED ports_vars
    BY <1>6, OamStutter, VramStutter DEF ports_vars
  <1>7. QED
    BY <1>1, <1>2, <1>3, <1>4, <1>5, <1>6 DEF PortsNext

(* In every state, of a copy going on the bytes gone through are in place, *)
(* and every name of the watched address shows what is held.               *)
THEOREM PortsInvariant == PortsSpec => []PortsInv
  <1>1. PortsInit => PortsInv
    BY PortsInitially
  <1>2. PortsInv /\ [PortsNext]_ports_vars => PortsInv'
    BY PortsStep
  <1>3. QED
    BY <1>1, <1>2, PTL DEF PortsSpec

(* PortsTypeOK of every state: in particular a copy that leaves oam stays  *)
(* within a page of it, and the idle clocks within their bounds.           *)
THEOREM PortsTypeCorrect == PortsSpec => []PortsTypeOK
  <1>1. PortsInv => PortsTypeOK
    BY DEF PortsInv, OamInv, RememberedInv, PortsTypeOK
  <1>2. QED
    BY <1>1, PortsInvariant, PTL

(* ReadsWhatWasWritten of every state, whatever the sizes of the tables    *)
(* and of the palette, and whatever address is watched.                    *)
THEOREM WrittenIsRead == PortsSpec => []ReadsWhatWasWritten
  <1>1. ASSUME PortsInv PROVE ReadsWhatWasWritten
    <2>1. vram_addr \in Address
      BY <1>1 DEF PortsInv, VramTypeOK
    <2>2. ASSUME InPalette(vram_addr), Known(vram_addr) # Unknown PROVE ReturnValue = held % 64
      BY <1>1, <2>1, <2>2, KnownIsHeld DEF PortsInv, ReturnValue
    <2>3. ahead # Unknown => buffer_2007 = ahead
      BY <1>1 DEF PortsInv, RememberedInv
    <2>4. QED
      BY <2>2, <2>3 DEF ReadsWhatWasWritten, ReturnValue
  <1>2. QED
    BY <1>1, PortsInvariant, PTL

(* The port, with its copies made byte by byte over clocks of the CPU that *)
(* begin on an odd or an even one, implements sprite memory with transfers *)
(* in one step.                                                            *)
THEOREM OamMemoryImplemented == PortsSpec => ImplementsOamMemory
  <1>1. PortsInit => Memory!Init
    BY OamAssumption DEF PortsInit, OamInit, Memory!Init, OamCompleted
  <1>2. PortsInv /\ [PortsNext]_ports_vars => [Memory!Next]_(Memory!memory)
    BY PortsStep DEF Memory!memory, memory_vars, Requested
  <1>3. QED
    BY <1>1, <1>2, PortsInvariant, PTL DEF PortsSpec, ImplementsOamMemory, Memory!Spec
=============================================================================
