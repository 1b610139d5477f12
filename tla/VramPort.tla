------------------------------ MODULE VramPort ------------------------------
(***************************************************************************)
(* The memory of the PPU as a program reaches it through $2006 and $2007   *)
(* while nothing is rendered: the map of the address space, the read       *)
(* buffer, and the mirror of the backdrop colour.  How $2006 is written in *)
(* two halves, and what $2007 does to the address during rendering, is in  *)
(* PpuScroll; which memory of the cartridge the pattern tables show, and   *)
(* when the name tables are rearranged, in Mmc1.                           *)
(***************************************************************************)
EXTENDS Integers

CONSTANTS
  TableSize,      \* bytes of a name table (0x400)
  PatternSize,    \* bytes of both pattern tables (0x2000)
  PaletteStart,   \* where palette memory begins (0x3F00), and
  PaletteSize,    \* its bytes (0x20); mirrors of it fill the address space
  Row,            \* the large step of the address (32)
  Data,           \* the bytes a program writes
  Watched         \* the addresses it writes and reads deliberately

AddressSpace == PatternSize + (8 * TableSize)   \* 0x4000
Address == 0..AddressSpace - 1

ASSUME VramAssumption ==
  /\ TableSize \in Nat \ {0} /\ PatternSize \in Nat
  /\ PaletteSize \in Nat /\ PaletteSize % 2 = 0 /\ PaletteSize >= 2
  /\ PaletteStart \in Address /\ PaletteStart >= PatternSize + (7 * TableSize)
  /\ PaletteStart % PaletteSize = 0 /\ AddressSpace % PaletteSize = 0
  /\ Row \in Nat
  /\ 0 \in Data /\ Data \subseteq 0..255
  /\ Watched \subseteq Address

VARIABLES
  pattern_table,         \* CHR memory, both tables
  nametable,             \* pages A and B
  palette_ram,
  nametable_mirroring,
  chr_ram,               \* the cartridge has CHR RAM
  vram_addr,
  buffer_2007

vram_vars ==
  <<pattern_table, nametable, palette_ram, nametable_mirroring, chr_ram, vram_addr, buffer_2007>>

-----------------------------------------------------------------------------
(* THE ADDRESS SPACE                                                        *)

(* The page each of the four name tables points to.                        *)
Pages ==
  [ HORIZONTAL |-> <<"A", "A", "B", "B">>, VERTICAL |-> <<"A", "B", "A", "B">>,
    SINGLE_SCREEN_A |-> <<"A", "A", "A", "A">>, SINGLE_SCREEN_B |-> <<"B", "B", "B", "B">> ]

InPatterns(addr) == addr < PatternSize
InPalette(addr) == addr >= PaletteStart

Table(addr) == ((addr - PatternSize) \div TableSize) % 4

PageOf(addr) == Pages[nametable_mirroring][Table(addr) + 1]
Offset(addr) == (addr - PatternSize) % TableSize

(* The two upper bits of a palette entry are not there to be read.         *)
read_from_ppu_vram(addr) ==
  IF InPatterns(addr) THEN pattern_table[addr]
  ELSE IF InPalette(addr) THEN palette_ram[addr % PaletteSize] % 64
  ELSE nametable[PageOf(addr)][Offset(addr)]

Half == PaletteSize \div 2

(* Mutant: the mirror is the next entry, not the next palette's.           *)
BackdropsMutant(addr) == {addr, addr + 1}

(* What a write to an entry of the palette reaches: a backdrop colour also *)
(* goes to the one half a palette further on.  What it does with sprite    *)
(* palette 0 in mind never happens, the first test holds for both; and     *)
(* behind the last mirror there is nothing more.                           *)
Backdrops(addr) == IF addr % Half = 0 THEN {addr, addr + Half} ELSE {addr}

Entries(addr) == { a % PaletteSize : a \in Backdrops(addr) \intersect Address }

cpu_writes_to_vram(addr, data) ==
  /\ pattern_table' =
       IF chr_ram /\ InPatterns(addr) THEN [pattern_table EXCEPT ![addr] = data] ELSE pattern_table
  /\ nametable' =
       IF InPatterns(addr) \/ InPalette(addr) THEN nametable
       ELSE [nametable EXCEPT ![PageOf(addr)][Offset(addr)] = data]
  /\ palette_ram' =
       IF InPalette(addr)
       THEN [e \in DOMAIN palette_ram |-> IF e \in Entries(addr) THEN data ELSE palette_ram[e]]
       ELSE palette_ram

-----------------------------------------------------------------------------
(* Nothing sets the memory and the address at power on; zeros stand for    *)
(* what they hold, which no program knows.                                 *)
VramInit ==
  /\ pattern_table = [a \in 0..PatternSize - 1 |-> 0]
  /\ nametable = [p \in {"A", "B"} |-> [a \in 0..TableSize - 1 |-> 0]]
  /\ palette_ram = [e \in 0..PaletteSize - 1 |-> 0]
  /\ nametable_mirroring \in DOMAIN Pages
  /\ chr_ram \in BOOLEAN
  /\ vram_addr = 0
  /\ buffer_2007 \in Data

unchanged_memory == UNCHANGED <<pattern_table, nametable, palette_ram>>

(* Two writes to $2006.                                                    *)
write_2006(addr) ==
  /\ vram_addr' = addr
  /\ unchanged_memory
  /\ UNCHANGED <<nametable_mirroring, chr_ram, buffer_2007>>

(* Bit 2 of $2000 chooses the step; the program may change it any time.    *)
Advance == \E step \in {1, Row} : vram_addr' = (vram_addr + step) % AddressSpace

write_2007(data) ==
  /\ cpu_writes_to_vram(vram_addr, data)
  /\ Advance
  /\ UNCHANGED <<nametable_mirroring, chr_ram, buffer_2007>>

(* Behind the palette lie the mirrors of the name tables.                  *)
BehindPalette(addr) == IF InPalette(addr) THEN addr - (4 * TableSize) ELSE addr

ReturnValue == IF InPalette(vram_addr) THEN read_from_ppu_vram(vram_addr) ELSE buffer_2007

read_2007 ==
  /\ buffer_2007' = read_from_ppu_vram(BehindPalette(vram_addr))
  /\ Advance
  /\ unchanged_memory
  /\ UNCHANGED <<nametable_mirroring, chr_ram>>

set_nametable_mirroring ==
  /\ nametable_mirroring' \in DOMAIN Pages \ {nametable_mirroring}
  /\ unchanged_memory
  /\ UNCHANGED <<chr_ram, vram_addr, buffer_2007>>

VramTypeOK ==
  /\ pattern_table \in [0..PatternSize - 1 -> Data]
  /\ nametable \in [{"A", "B"} -> [0..TableSize - 1 -> Data]]
  /\ palette_ram \in [0..PaletteSize - 1 -> Data]
  /\ nametable_mirroring \in DOMAIN Pages
  /\ chr_ram \in BOOLEAN
  /\ vram_addr \in Address
  /\ buffer_2007 \in Data
=============================================================================
