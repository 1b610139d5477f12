------------------------------ MODULE PpuPorts ------------------------------
(***************************************************************************)
(* A program that reaches both memories of the PPU, with what it remembers *)
(* of one address of the PPU's: what it wrote there last, under any name,  *)
(* and what it read ahead.  The two ports share no state, so a program     *)
(* that is followed in one of them leaves the other alone.                 *)
(***************************************************************************)
EXTENDS OamPort, VramPort

VARIABLES
  follows,   \* the port that is followed
  address,   \* the watched address
  held,      \* what the program wrote to it last
  ahead      \* what it knows to be in the read buffer

remembered == <<follows, address, held, ahead>>
ports_vars == <<oam_vars, vram_vars, remembered>>

Unknown == 256

(* Two addresses with the same memory behind them, as the manuals of the   *)
(* machine have it: the page is one bit of the number of the name table,   *)
(* mirrors repeat after four tables, and a palette has one backdrop.  The   *)
(* machine also shares the first entries of the other palettes between     *)
(* background and sprites; the code does not, and neither does this.       *)
SamePlace(a, b) ==
  LET Page(addr) ==
        LET number == ((addr - PatternSize) \div TableSize) % 4 IN
        CASE nametable_mirroring = "HORIZONTAL" -> number \div 2
          [] nametable_mirroring = "VERTICAL" -> number % 2
          [] OTHER -> 0
      Entry(addr) ==
        LET entry == (addr - PaletteStart) % PaletteSize IN IF entry = Half THEN 0 ELSE entry
      Kind(addr) ==
        IF addr < PatternSize THEN "pattern" ELSE IF addr < PaletteStart THEN "name" ELSE "palette"
  IN /\ Kind(a) = Kind(b)
     /\ CASE Kind(a) = "pattern" -> a = b
          [] Kind(a) = "palette" -> Entry(a) = Entry(b)
          [] Kind(a) = "name" -> Page(a) = Page(b) /\ (a - b) % TableSize = 0

(* The one place where a backdrop is not mirrored.                         *)
EndOfMirrors(addr) == addr = AddressSpace - Half

(* Of the port that is not followed one initial state will do.             *)
VramLeftAlone ==
  /\ nametable_mirroring = "VERTICAL" /\ chr_ram = FALSE /\ buffer_2007 = 0
  /\ address = CHOOSE addr \in Watched : TRUE

OamLeftAlone ==
  /\ oam_rendering = FALSE /\ oam_return_value = 0
  /\ base_addr = CHOOSE page \in OamPages : TRUE

PortsInit ==
  /\ OamInit /\ VramInit
  /\ address \in Watched
  /\ \/ follows = "oam" /\ VramLeftAlone
     \/ follows = "vram" /\ OamLeftAlone
  /\ held = Unknown
  /\ ahead = Unknown

Known(addr) == IF SamePlace(addr, address) THEN held ELSE Unknown

(* The program writes what it cares about where it watches, and clears     *)
(* other places.                                                           *)
Store(data) ==
  /\ data = 0 \/ SamePlace(vram_addr, address)
  /\ write_2007(data)
  /\ held' = IF ~SamePlace(vram_addr, address) \/ (InPatterns(address) /\ ~chr_ram) THEN held
             ELSE IF EndOfMirrors(vram_addr) THEN Unknown ELSE data
  /\ UNCHANGED ahead

Load ==
  /\ read_2007
  /\ ahead' = Known(IF vram_addr < PaletteStart THEN vram_addr ELSE vram_addr - (4 * TableSize))
  /\ UNCHANGED held

Aim ==
  /\ \E addr \in Watched : write_2006(addr)
  /\ UNCHANGED <<held, ahead>>

Rearrange ==
  /\ set_nametable_mirroring
  /\ held' = IF InPatterns(address) \/ InPalette(address) THEN held ELSE Unknown
  /\ UNCHANGED ahead

PortsNext ==
  \/ /\ follows = "oam"
     /\ OamNext
     /\ UNCHANGED <<vram_vars, remembered>>
  \/ /\ follows = "vram"
     /\ (\E data \in Data : Store(data)) \/ Load \/ Aim \/ Rearrange
     /\ UNCHANGED <<oam_vars, follows, address>>

PortsSpec == PortsInit /\ [][PortsNext]_ports_vars

-----------------------------------------------------------------------------
PortsTypeOK ==
  /\ OamTypeOK /\ VramTypeOK
  /\ held \in Data \union {Unknown}
  /\ ahead \in Data \union {Unknown}

(* What the program wrote it reads again, by whatever name of the place,   *)
(* whatever else it did in between: from the palette at once, less the two *)
(* upper bits, from elsewhere with the next read but one, also when that   *)
(* is a read of the palette, and as it was when it was fetched.  The       *)
(* backdrop entry that ends the address space ($3FF0) is excepted.         *)
ReadsWhatWasWritten ==
  /\ ahead # Unknown => buffer_2007 = ahead
  /\ InPalette(vram_addr) /\ Known(vram_addr) # Unknown => ReturnValue = held % 64
  /\ ~InPalette(vram_addr) /\ ahead # Unknown => ReturnValue = ahead
=============================================================================
