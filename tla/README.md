# cNES in TLA+

cNES is a NES emulator in C. Its core is a handful of state machines that are
clocked in lock step and talk through shared flags; most of what is hard in it
is *when* something happens, not what is computed. This directory models those
state machines in TLA+, checks them with TLC on small instances, and proves the
central safety properties with TLAPS for all values of the constants.

Paths below are relative to the repository root (`src/core/cpu.c`, ...).

## Inventory

| part | state | operations | talks to |
|---|---|---|---|
| `main` and game loop, `emu.c` | the structs it allocates, the limit of cycles, whether to quit | set-up, loading, `clock_all_units`: one `clock_cpu`, three `clock_ppu`; window and key events, polled while the VBlank flag is up; the frees at the end | calls everything else |
| CPU, `cpu.c` | registers, `instruction_state`, `instruction_cycles_remaining`, `cycle`, `process_interrupt`, `delay_nmi`, static counter of `execute_DMA` | `clock_cpu`: fetch, decode, execute, `execute_NMI`, `execute_DMA`; the bus (`read_from_cpu`, `write_to_cpu`) | PPU through `CpuPpuShare`, cartridge through `CpuMapperShare` |
| CPU/PPU interface, `cpu_ppu_interface.c` | `CpuPpuShare`: registers $2000-$2007, NMI and DMA requests, suppression and look-ahead flags, one buffered register write, the write toggle, the $2007 read buffer | `read_2002/2004/2007`, `write_2000..2007`, `write_4014` | reached by the CPU at once (reads) or after some dots (writes) |
| PPU timing, `ppu.c` | dot, scanline, `odd_frame`, warm-up counter | `clock_ppu`: counters, warm-up, flushing the buffered write, odd-frame skip, VBlank, NMI | sets flags the CPU looks at |
| PPU scrolling and VRAM address | `vram_addr` (v), `vram_tmp_addr` (t), `fine_x` | `inc_vert_scroll`, `inc_horz_scroll`, copies of t to v | also changed by $2005, $2006, $2007 |
| PPU sprites | secondary OAM, `sprite_index`, `sprites_found`, `stop_early`, a static byte offset, the sprite units, sprite zero bookkeeping | `reset_secondary_oam`, `sprite_evaluation`, fetches, `sprite_hit_lookahead` | OAM, also written by $2004 and DMA |
| PPU background and pixels | shift registers and latches, the units of the sprites, the target of the sprite zero hit | fetches, `get_bkg_pixel`, `get_sprite_pixel`, `get_pixel`, `sprite_hit_lookahead` | VRAM, OAM, $2002 |
| mappers, `mappers.c` | MMC1 shift register (`write_count`, `buffer`, `write_cycle`, all function statics), bank modes, mapped banks, mirroring, `enable_prg_ram` | `mapper_write`, `mapper_read`, `mmc1_reg_write` | the CPU's bus, the PPU's pattern and name tables |
| cartridge, `cart.c` | sizes and contents of the parts of a file | `parse_nes_cart_file` and the header parsers | initialises mappers, CPU, PPU |
| controllers, `emu.c` and `cpu.c` | buttons held, the latch, two static shift positions | key events, `read_4016`, `read_4017`, `write_4016` | the CPU's bus |
| windows, `gui.c` | SDL objects | drawing, closing | called by the PPU and the game loop |

Everything runs in one thread. The interleavings that matter are those of the
four calls of `clock_all_units` with multi-clock sequences in the CPU
(instructions, 7 clocks of NMI, 513 or 514 of DMA) and multi-dot sequences in
the PPU (a delayed write, the start of VBlank), with the user's events on the
other side of SDL's queue. Nothing is persisted, sent or retried; what may fail
is the set-up.

What makes each part correct:

- *Lock step*: no delayed write is lost; an NMI is serviced iff it stands, after
  a bounded delay, and once begun is not broken up; a DMA is not broken up and
  keeps the CPU's parity; the VBlank flag is seen in VBlank only; a racing read
  of $2002 suppresses the NMI of that frame.
- *Instructions*: longer numbers come out right over chains of instructions; an
  index carries into the upper byte exactly when a clock is spent on it; what is
  pushed comes back.
- *PPU registers*: two-write registers combine the right halves; v stays a
  VRAM address; what is written through $2007 is read again under every name of
  the place.
- *MMC1*: five writes load one register, whatever came before; what is mapped
  is what the registers say.
- *Sprites*: the first eight sprites in range are found, in order, and no more.
- *Background*: the pixel under the beam, and its palette, are those at the
  beam's distance from the scroll position.
- *Pixels*: of the sprites under the beam the first counts, before or behind the
  background as it says; sprite 0 is reported when it meets the background.
- *DMA data*: one page, each byte once, starting at OAMADDR.
- *Controllers*: eight reads report the eight buttons the user holds.
- *A run of the program*: whatever fails, everything allocated is freed once, and
  nothing is used that is not there; a user who quits does.

The hazards, each at its line and with the properties that cover it, are listed
in `PROJECT.json`.

## Plan

In this order, the lock step first because everything else hangs on it:

1. `Instructions`, `ClockSync`, `ClockSyncHistory`, `ClockSyncProofs`: done.
2. `Mmc1`, `Mmc1Registers`, `Mmc1History`, `Mmc1Proofs`: done.
3. `PpuScroll`, `PpuScrollHistory`, `PpuScrollProofs`: done.
4. `SpriteEvaluation`, `SpriteHistory`, `SpriteProofs`: done.
5. `OamPort`, `OamMemory`: OAMADDR, $2004 and the bytes of a DMA, against a copy
   in one step: done.
6. `VramPort`, `PpuPorts`: what $2007 reads and writes: done.
7. `CartHeader`, `Controller`, `Session`: the life of a run, from the command
   line to the frees: done.
8. `Alu`, `Addressing`, `CpuStack`, `CpuPrograms`: what instructions compute:
   done.
9. `Picture`, `PixelOutput`: the background pipeline, the pixels put out and the
   hit of sprite 0: done.
10. `PortsProofs`, `SessionProofs`, `CpuProofs`: done.
11. `PictureProofs`, and in `ClockSyncProofs` the theorems about NMIs: done. Of
    what the runs check only liveness is left without a proof.

## Modules

### Instructions

The timing of the 6502 instructions as the rest of the machine sees it. An
instruction is a record: its decoder, what it does to its target register, which
register that is, which register the uncarried address of an indexed mode hits,
the bit it writes, whether a page is crossed and a branch taken. `MaxCycles` is
the last column of `isa_info`; `Executes`, `StaysInExecute`, `DummyRead` and
`DummyWrite` are what the `decode_*` and the multi-clock `execute_*` functions
do at a given `instruction_cycles_remaining`. What a program computes is left to
`Alu`, `Addressing` and `CpuStack`, so here the values are properties of the
instruction instance.

### ClockSync

One step is one call of `clock_cpu` or `clock_ppu`; `turn` is the position in
`clock_all_units`. The variables `cpu`, `ppu` and `io` are the structs, reduced
to the fields decisions depend on; `dma_cycles_left` is the static of
`execute_DMA`.

| action | code |
|---|---|
| `ExecuteNmi` | `clock_cpu` in FETCH with an NMI due: `execute_NMI` and the decrement after it |
| `ExecuteDma` | `clock_cpu` in FETCH with a DMA due: `execute_DMA` |
| `FetchOpcode` | `fetch_opcode`, for any instruction of `Program` |
| `Decode` | a clock of a decoder that does not execute, with its dummy reads and writes |
| `Execute` | a clock that executes, and the NMI polling after it |
| `ClockPpu` | `clock_ppu` up to the NMI logic, in the order of the code |

`cpu.cycle` is compared with the warm-up cycles and modulo 2 and 3 only, so past
the warm-up it repeats with period 6 (`NextCycle`); `remaining` rests at 0
outside an instruction, where the code's unsigned counter goes on down and is
not read. POST_EXECUTE never outlives a call and is merged with FETCH.

### ClockSyncHistory

Adds history variables (fetches since the NMI was requested, a racing read in
this VBlank, whether the write in the buffer has replaced another) that follow
the steps without restricting them. `EarlyFlagsAnnounce` is stated with the last
of these: each early flag is up exactly while a write to $2001 that sets it is on
its last three dots in the buffer; but the 0 that a read-modify-write instruction
writes first puts up the disable flag, and this stays until the second write is
flushed, also when that one switches the background on.

### ClockSyncProofs

The theorems about the lock step; see "Proofs".

### Mmc1

One step is one write of the program to the mapper, or the fetch that separates
the writes of two instructions. `age` stands for `cpu->cycle - write_cycle`,
which the code only compares with 1; `second` is the second write of a
read-modify-write instruction, which comes in the clock after the first. Banks
are numbers, the four name table pointers are pages A and B. Boards have any power
of two of banks, down to one, and CHR ROM, CHR RAM or both.

| action | code |
|---|---|
| `FirstWrite`, `SecondWrite` | `mmc1_reg_write`: `IgnoreAdjacent`, `ResetSerial`, or `ShiftBit`, whose fifth bit is followed by `LoadControl`, `LoadChr0`, `LoadChr1` or `LoadPrg` |
| `Fetch` | the clocks until the next instruction can write |
| `prg_ram_writes` | a write to $6000-$7FFF |

### Mmc1Registers

What a program may count on: bits are collected into values, a value goes to one
register, a reset starts over. It knows nothing of `write_count`, `buffer`, the
OR that sets a bit, or the clock of the last write.

### Mmc1History

Adds the bits the program has sent (one per instruction, whatever it writes
second), the value each register was last loaded with, and which registers have
not been loaded since the mode changed. `Registers` is the refinement mapping:
modes and name tables come from the code's variables, the bits from what was
sent, so the code must put exactly those bits into the registers.

### PpuScroll

One step is one dot of the PPU that may touch v, or one access of the program to
$2000, $2001, $2002, $2005, $2006 or $2007. v and t are records of the bit
fields; the bit tricks of the code (masks, shifts, XORs) become assignments to
fields, and an addition becomes carries from field to field, those into the
unused fifteenth bit included. The dots that only fetch are left out: `cycle`
numbers the horizontal increments of a line (one per tile), the dot of the
vertical increment and horizontal copy, the dots of the vertical copy, and the
two increments of the next line's first tiles. The scanlines 240 to 260 are one.
The program acts between any two dots.

| action | code |
|---|---|
| `clock_ppu` | the increments `inc_horz_scroll`, `inc_vert_scroll` and the copies of t, under `ppu_show_bg` |
| `Ctrl`, `Mask`, `Status` | `write_2000`, $2001, `read_2002` |
| `ScrollX`, `ScrollY` | the two writes of `write_2005` |
| `AddrHigh`, `AddrLow` | the two writes of `write_2006` |
| `Data` | the increment of v in `read_2007` and `write_2007`, a line down and a tile right at once while rendering |

v, t and the toggle start with what the allocated memory holds (`PowerOn`):
`ppu_init` does not set them.

### PpuScrollHistory

Adds the scroll position each line and frame started from (while the background
is shown and the program leaves v alone), and what a program knows that reads
$2002, counts its writes and sets an address.

### Mmc1Proofs

The theorems about the mapper, its history and the registers it implements; see
"Proofs".

### PpuScrollProofs

The theorems about v, t and the toggle; see "Proofs".

### SpriteEvaluation

One step is one dot or one write of the program. Of a line there are the idle
dot, one of the dots that reset secondary OAM, two for every evaluation (odd and
even dots from 65 to 256) and the last of the eight of each fetch. A byte copied
into secondary OAM is represented by the number of its sprite, a unit's pattern
by the sprite it shows.

| action | code |
|---|---|
| `read_oam`, `test_sprite` | the odd and the even dots of `sprite_evaluation` |
| `reset_secondary_oam` | the function, under `ppu_show_sprite` |
| `fetch_sprite` | the fetches of dots 257 to 320, with the clearing of the units without a sprite |
| `pre_render_dot` | the clearing of the overflow flag and of `sprite_index` on line 261 |
| `idle_dot` | any other dot; dot 1 to 256 shift the units out (`get_sprite_pixel`) |
| `Height`, `Mask`, `OamWrite`, `Dma` | $2000, $2001, $2004 and a byte of `execute_DMA` |

`oam_y_byte_offset` is the static of `sprite_evaluation`. The static `count` of
the fetches is set before each use and left out, as are `sprite_zero_scanline`
and its copy, which nothing reads. Here $2004 and a DMA may write any address of
OAM; which one they do write is in `OamPort`.

### SpriteHistory

Adds whether the line has been rendered with sprites, undisturbed, since its
start (`steady`), and whether the search began with the y positions (`aligned`),
and defines which sprites such a line should find.

### SpriteProofs

The theorems about a line's sprites; see "Proofs".

### OamPort, OamMemory

`OamPort` has OAM as $2003, $2004 and `execute_DMA` reach it, with one step per
access or per clock of a copy. `cycles_left` is the static of `execute_DMA`,
`oam_overrun` counts the bytes behind the array that a copy has written,
`cpu_cycle_odd` is the parity of the clock. `ClockSync` has the same counter
among everything that competes for the CPU, without the bytes.

| action | code |
|---|---|
| `write_2003`, `read_2004` | the functions, for all of OAMADDR |
| `write_2004`, `write_2004_rendering` | `write_2004`, outside and during rendering |
| `write_4014` | the request, once or twice by a read-modify-write instruction |
| `execute_DMA` | one call: an idle clock, a read or a write |
| `RenderingChanges` | the PPU begins or ends rendering, or a program switches it |

`OamMemory` is what a program may count on: cells, an address, and a transfer
that puts a page behind the address in one step. The refinement mapping shows
OAM as it will be when the copy under way is complete (`OamCompleted`), so the
copy takes effect at its first clock and every later one must stutter. The code
reads the page from `cpu->mem` without the mirrors of the bus; pages are given
by what they hold.

### VramPort, PpuPorts

`VramPort` has the PPU's address space, `read_from_ppu_vram`,
`cpu_writes_to_vram`, the read buffer and both steps of $2007 outside rendering.

| action | code |
|---|---|
| `write_2006` | both writes at once; their halves are in `PpuScroll` |
| `write_2007`, `read_2007` | the functions, with the increment of the address by either step |
| `set_nametable_mirroring` | the function, as MMC1 calls it |

`PpuPorts` puts both ports together with a program that watches one address of
the PPU: it remembers what it wrote there under any name (`held`), and what it
knows of the read buffer (`ahead`). `SamePlace` says what names a place has, from
the machine's manuals and not from the code's masks, except that the mirrors
which the code does not have at all are left out (see the deviations). The ports
share no state, so a behaviour follows one of them. Memory and address are not set at power on;
zeros stand for what they hold.

### Alu, Addressing, CpuStack, CpuPrograms

What the instructions compute, without the clocks of `Instructions`.

| module | action | code |
|---|---|---|
| `Alu` | one per `execute_` function, or per group of alike ones (`execute_LD` for LDA, LDX, LDY; `Logic`, `Shift`, `Count`, `SetFlag`) | registers, flags and the byte written, for any operand |
| `Addressing` | `decode_ABS`, `decode_ZPI`, `Indexed`, `decode_INDX`, `decode_Bxx`, the two forms of `execute_JMP` | the `decode_` functions, with the address on the bus before the carry (`early`) and whether the clock for the carry was spent (`late`) |
| `CpuStack` | JSR, RTS, PHA, PLA, PHP, PLP, BRK, RTI, TXS, TSX, `execute_NMI` | the functions with `stack_push` and `stack_pull` |

P is the set of the flags that are set; `StatusByte` and `FlagsOf` convert it as
the stack needs it. The stack page may be small. A flag of `Indexed` says whether
the instruction saves the clock if no page is crossed.

`CpuPrograms` has the programs: chains of instructions on numbers of two bytes
(`long`), single instructions on any registers, addressing with any index,
branches and jumps between places of which memory has instructions, and calls,
interrupts and saved registers nested in any way (`frames`). A program uses one
of these, as they share little: that keeps the product of their states out.

### PortsProofs

The theorems about both ports; see "Proofs".

### CpuProofs

The theorems about the four kinds of programs, in the order of the invariants
they need: types, addresses, the stack, longer numbers; see "Proofs".

### CartHeader, Controller, Session

`CartHeader` turns the bytes of a header into the cartridge: the format, the
sizes of both formats, mapper, mirroring. `Controller` has the user, SDL's queue,
the buttons and $4016. `Session` runs `main`.

| action | code |
|---|---|
| `Arguments`, `Allocate`, `Initialise` | the command line; the six allocations, all tried before one is looked at; the `_init` functions |
| `OpenRom`, `ReadHeader`, `Load`, `Map` | `parse_nes_cart_file`: opening, header, the four parts, each of which may fail, `init_mapper` |
| `LoopTop`, `PollEvent`, `EventsPolled` | the loop's condition and one turn of the event loop: quit, keys, `process_window_events` |
| `clock_all_units` | one call, reduced to an access to $4016 and the VBlank flag |
| `SDL_Quit`, `ProgramExit` | the end of the loop, the label `program_exit` |
| `KeyDown`, `KeyUp`, `Close` | the user; SDL queues what is done |

A pointer is unset, null or set, and the heap says whose block is allocated, so
that freeing twice, freeing what was never set and leaks can be told (`misuse`,
`heap`). `misuse` also has PRG ROM that
the set-up of a mapper copies past its end (`mapper_000`, `mapper_001`), and what
is read from memory that no cartridge part was mapped to in full
(`PatternTableSet`). `Supported` says in sizes for which cartridges there is none
of either; no header is refused for less.

### SessionProofs

The theorems about a run of the program; see "Proofs".

### Picture

The background: one step is one dot, or a write to $2001 or $2005. Bytes of the
tables stand for the column they come from, so that a register's bit tells which
tile it is from and an attribute which quadrant; colours and the rows of the
picture are left out. Of a line there are the idle dot, the visible ones, the
one that copies the column of t, and the 16 that prefetch two tiles.

| action | code |
|---|---|
| `clock_ppu` | `get_bkg_pixel` with its shift, `Background` (the fetches, `load_shift_regs`, `fill_attribute_shift_reg` in the order of the code), `inc_horz_scroll` and the copy of t |
| `Write` | $2001 and both halves of the horizontal $2005 |

`line_start` and `steady` remember where the prefetch began and whether the
background has been shown since, with the fine scroll left alone.

### PixelOutput

What is made of the pipeline, and of the sprites: `Picture` extended by OAM, the
units (`sprite_x_counter`, the shift registers and the priority in
`sprite_at_latches`), the pixel put out, and the look-ahead for the hit of
sprite 0. One step is one dot of both, in the order of `clock_ppu`.

| action | code |
|---|---|
| `ClockPixel` | a dot: `get_sprite_pixel` with its counters and shifts (`Units`), `get_pixel` (`PutOut`), the fetches of the sprites, `sprite_hit_lookahead` after the pipeline has moved, and the report of the hit; bits 5 and 6 of $2002 are cleared on the pre-render line |
| `Program` | `Write` of `Picture`, or another OAM, copied in VBlank or with rendering off |

A tile's pixels are opaque or not, in each plane of the background and in each
line of a sprite. `evaluated` says that the sprites were shown from the start of
the line; only then the units get what OAM says, and otherwise (`known` is
false) it is left open what they show. `calm` says that since the start of the
pre-render line nothing was switched, scrolled by a fraction of a tile or copied.
`overlapped` is what `sprite_hit` should be: the pixel of sprite 0 that OAM says
is drawn here met an opaque pixel of the background.

### PictureProofs

The theorems about both; see "Proofs".

## Runs

The runs of `ClockSync` use scanlines of 8 dots, 19 scanlines and DMAs of 4 bytes
(2 in `live`). These are
chosen to keep what the real numbers give: the picture is longer than any NMI may
be pending (`PictureAssumption`); the warm-up shows the VBlank flag in the last
seven dots of the post-render line (`WarmupAssumption`; here, as in the code, in
the first and the second of them); a frame (152 dots here, 89342 there)
leaves the same residue modulo 3, so VBlank drifts against the CPU's clock in
the same way and all alignments occur; there are enough dots before, on and
after the NMI scanline for every special dot (0 to 4, the last two); the
odd-frame skip moves the alignment once more. Programs are sets of instructions
of which any may be next, so every instruction sequence over them is covered.

| run | shows |
|---|---|
| `nmi` | with everything that requests, delays, suppresses or withdraws an NMI, with DMAs, and with single and double writes in all kinds of addressing modes: types, no service of a withdrawn NMI, unbroken NMI and DMA sequences, the parity of a DMA, the VBlank window, the bound on the delay, racing reads; the one write buffer suffices, the early flags say what it holds |
| `live` | requested NMIs and DMAs are answered |

The runs of `Mmc1` use 4 PRG banks, or 4 CHR banks: the fewest for which a bank,
its pair in a 32 or 8 KiB mode, the first and the last bank differ. Every byte,
register and order of plain, reset and double writes occurs; the PRG and CHR
registers are in runs of their own because they share register 0 only.

| run | shows |
|---|---|
| `mmc1_prg` | the registers are loaded as `Mmc1Registers` says; PRG banks and PRG RAM follow them |
| `mmc1_chr` | CHR banks follow the registers, and exist but in the two cases that `BanksExist` names |

Banks are compared with a register only while it has been loaded since the mode
last changed: the code, unlike a register file wired to the memory, maps banks
when a register is loaded and leaves them when register 0 changes the mode.

`PpuScroll` is checked with tiles of 2 lines and 2 columns of tiles. `scroll` has
3 rows of which 2 are visible, so that a program may scroll into the row past
them, and switches the background on and off beside the sprites; `address_port` has 2 rows, memory that is all
ones at power on, and accesses $2007 in both increments.

| run | shows |
|---|---|
| `scroll` | the tile and the line being fetched are at the beam's distance from the scroll position of the line and of the frame |
| `address_port` | a program that reads $2002 knows the toggle; one that sets an address accesses that and the following ones |

`SpriteEvaluation` is checked with 4 sprites of 2 bytes, 2 slots, 5 evaluations
per line (one more than sprites, so that `stop_early` matters), 2 lines, and
sprites of height 1 and 2. The second sprite and the last byte may be on either
line, the first sprite and the last byte may be written, so that there are lines
with none, too few, just enough and too many sprites, and overflow is found by y
positions and by other bytes. $2000, $2001 and OAM change between any two dots.

| run | shows |
|---|---|
| `sprites` | undisturbed lines find the first sprites in range, overflow as the diagonal search has it, and fill the units, whatever came before |

`FirstInRangeFound` and its companions assume `aligned`; without it they fail, as
the offset of the search survives a line (see the deviations).

`ports` has OAM of 8 bytes (two sprites, so that attribute bytes and the steps of
1 and 4 occur; the counter's edges 513 and 514 are `CopyClocks` and `DmaIdle`),
two pages of alternating bytes, name tables of 10 bytes, pattern tables of 4 and
a palette of 4 with mirrors behind it up to the end of the address space. The
watched addresses are of each kind, with several names of the same place.

| run | shows |
|---|---|
| `ports` | what is written through $2007 is read again under every name of its place; the clocks of a DMA implement a copy in one step; what passes the end of OAM is less than a page |

`cpu` uses the bytes 0, 1, 127, 128 and 255 (both ends of signed and unsigned
numbers, and all carries and overflows between them), offsets at the ends of
their range, code across a page and at the end of memory, and a stack of 6 bytes,
which two interrupts fill and a third wraps. A chain of instructions ends, so the
run does not check deadlock.

| run | shows |
|---|---|
| `cpu` | addition, subtraction, comparison and shifts of two bytes are exact; addresses carry when a clock is spent; calls, interrupts and saved registers come back |

`session` has twelve headers (both formats, the signed and the headerless ones, no
PRG ROM, with either mapper, RAM instead of ROM, exponents, CHR ROM and CHR RAM of
a few bytes and CHR RAM of one bank with MMC1, an unsupported mapper), two keys and
three key events before the user closes the window, and limits of 0 and 1 cycles.
The program ends, so the run does not check deadlock.

| run | shows |
|---|---|
| `session` | whichever step fails, all is freed once, and what is used without being there is what the failed allocation or the unsupported cartridge accounts for; the program sees the keys held; quitting and the limit end the run |

`picture` has lines of two tiles over name tables of 8 columns, three visible
lines and the pre-render line; scroll positions without a fine part, and with one
next to the right edge; $2001 off, with sprites only, with everything, and with
both left columns hidden; two OAMs of two sprites of two lines (one over the other,
and one behind the other in OAM but before it on the screen); and two writes of the
program after it has set things up in VBlank: enough to switch rendering off and on
again, to scroll in the middle of a line or to change OAM. Lines 1 and 2 show the
two rows of a sprite; line 0 shows none.

| run | shows |
|---|---|
| `picture` | on an undisturbed line each pixel and its palette are of the tile the scroll position says; in an undisturbed frame the sprite in front is put out, and the hit of sprite 0 is reported when it is drawn |
| `left_column` | a finding: the eighth pixel of a clipped line is drawn |

In `ClockSync` the frame counter, `warmup`, is the only thing that distinguishes the first
frames: after it the state space is periodic and TLC exhausts it.

Fairness. In `ClockSync`, `WF_vars(Next)` only. The game loop calls
`clock_all_units` for ever and each call returns, which is exactly that some step
is taken; no fairness between alternatives is assumed, so a program may always
choose the same instruction. In `Session`, `WF(Main)`: `main` goes on, while the
user need not do anything; and `SF(clock_all_units /\ vblank')`: the VBlank flag
is up at the top of the loop again and again. The PPU raises it once a frame; a
program that reads $2002 in the very iteration, every frame, would keep the loop
from polling, and the assumption excludes it. The number of events a user causes
is bounded, as a queue that is filled faster than it is polled never gets empty.

Two facts worth knowing came out of the runs of `ClockSync`. An NMI requested by writing $2000
during the warm-up VBlank, right before the true look-ahead, is delayed twice;
everywhere else by at most one instruction (`NmiWithinOneInstruction`). And the
liveness of NMIs needs every instruction to end: with an unofficial opcode the
CPU stays in DECODE for ever while the PPU runs on.

## Proofs

All theorems are about the specifications the runs check, for every value of the
constants that satisfies the named assumptions. Every safety theorem has the same
argument: an inductive invariant, one lemma per action (or per group of actions
that leave the same part alone), and a temporal step. What follows gives for each
component what is proved, the invariant and why the property needs it.

| module | theorem | states |
|---|---|---|
| `ClockSyncProofs` | `TypeCorrect`, `ClockInvariant` | `TypeOK`, `ClockInv` |
| | `BufferIsDrained`, `WithdrawnNmiIsNotServiced`, `DmaIsNotInterrupted`, `DmaKeepsParity` | `WriteBufferDrained`, `NoServiceOfWithdrawnNmi`, `DmaSequenceUnbroken`, `DmaWritesOnEvenCycles` |
| | `NoBufferedWriteIsLost` | `BufferedWriteNotLost` (of steps) |
| | `VBlankInItsWindow` | `VBlankWindow` |
| | `NmiIsNotBrokenUp` | `NmiSequenceUnbroken` |
| | `NmiDelaysDoNotAddUp`, `RacedReadCostsTheNmi`, `EarlyFlagsHold` | `NmiWithinOneInstruction`, `RacedReadSuppressesNmi`, `EarlyFlagsAnnounce` (with history) |
| | `NmiAnsweredInTime` | `AnsweredInTime`: the bound behind `NmiAnswered` |
| `Mmc1Proofs` | `TypeCorrect`, `BanksAlwaysExist` | `TypeOK`, `BanksExist` |
| | `RegistersImplemented` | `Registers!Spec`, the refinement |
| | `PrgBanksSelected`, `ChrBanksSelected` | `PrgFollowsRegister`, `ChrFollowsRegisters` |
| `PpuScrollProofs` | `TypeCorrect`, `ToggleKnown` | `TypeOK`, `ToggleIsCounted` |
| | `ColumnFollows`, `LineFollows`, `AccessesFollow` | `RasterFollowsColumn`, `RasterFollowsLine`, `AccessesAreConsecutive` |
| `SpriteProofs` | `TypeCorrect` | `TypeOK` |
| | `FirstSpritesFound`, `DiagonalSearch`, `UnitsLoadedRight` | `FirstInRangeFound`, `OverflowSearchesDiagonally`, `UnitsShowSprites` |
| `PortsProofs` | `PortsTypeCorrect`, `WrittenIsRead` | `PortsTypeOK`, `ReadsWhatWasWritten` |
| | `OamMemoryImplemented` | `OamMemory!Spec`, the refinement |
| `PictureProofs` | `PixelsFollow` | `PixelsFollowScroll` |
| | `OutputFollowsScroll`, `FrontmostPixel`, `HitWhereDrawn` | `PixelsFollowScroll` with the sprites, `FrontmostShown`, `HitAsDrawn` |
| `CpuProofs` | `CpuTypeCorrect`, `CarriesArrive`, `LongNumbersExact` | `CpuTypeOK`, `AddressesCarry`, `LongArithmeticIsExact` |
| | `PushedComesBack` | `StackReturns` (of steps) |
| `SessionProofs` | `SessionEndsClean`, `KeysReachButtons` | `EndsClean`, `ButtonsFollowKeys` |

### Lock step

`TypeOK` is inductive as it stands. The others are not: that the buffer is
drained when the CPU's turn comes needs `BufferInv`, where a write stands before
each of the four calls; that a replaced write was of the same instruction needs
`WriterInv`, that the CPU is still inside a read-modify-write instruction or done
with it; the parity of a DMA needs the idle clock before the first copy
(`DmaInv`). `ClockInv` is the conjunction; it is proved and no run's own property,
as the runs check its consequences.

The early flags need `ClockInv` (where in the buffer the announced write is) and
`SecondInv`: between the two writes of an instruction the buffer holds the 0 of the
first, so what a second write replaces has put up the disable flag and no other.
The window of the VBlank flag needs the warm-up, in which the flag
is put up by the CPU's cycle and not by the beam: `WarmupInv` relates the two
(three dots a cycle, from `InitDot`), until the second of the warm-up's flags.
`WarmupAssumption` says that both of them fall on the post-render scanline, in
frames of which none is short; with other numbers the property is false. It says
in fact a little more, the last seven dots of that line: the code's 27383 and
57164 give dots 334 and 335 of 340.

What is said of an NMI follows from one invariant, `NmiInv`, since each part
needs the others. A sequence under way can only be broken up by a request that is
older than it should be: a withdrawal comes on the first dots of the line VBlank
starts on, so the danger is a request that is still pending there, from the
warm-up's early flag or from the frame before.

- `SignalsInv`: where the beam is while each signal is up. The look-ahead lasts
  from the last dot before VBlank to its third, a withdrawal (`ignore_nmi`) is on
  its way for no more than the dots since the CPU's last clock, a read of $2002 is
  seen by the very next dot, and what is pending in the first dots is enabled.
- `InstructionInv`: an instruction has the clock at which it executes still before
  it, so `remaining` bounds what is left of it, unless it is an unofficial
  opcode (`Stuck`).
- `LateInv`: a request on the post-render line. The warm-up's flag comes so late
  that the CPU can do no more than begin the next instruction: the CPU is still
  in FETCH, or the opcode is just fetched, and no write to $2000 is on its way.
  This is where the seven dots of `WarmupAssumption` are needed.
- `AgeInv`: a request that is pending in the picture. `Work` bounds the clocks
  that are left until it is answered: the rest of the instruction, a DMA that
  waits for its cycle, the one instruction of the delay, the seven clocks. Each
  clock of the CPU works off one and nothing in the picture adds any (`CpuWork`).
  `PictureAssumption` says that the picture is longer than all of it: 535 clocks
  (`NmiLatency`) against 27280 in the code. So nothing is pending when the
  post-render line begins (`NotSoLong`); `NmiAnsweredInTime` is the bound itself.
- `SequenceInv`: a sequence under way has its latch set and its request standing,
  nothing suppresses it, and no write to $2000 waits to withdraw it.

`FetchedInv` counts the opcodes fetched while a request stands. Once the first is
fetched the NMI is latched when the instruction ends, and only the look-ahead can
delay it again: never a request made in VBlank, as the dots of the look-ahead
are over by then, and an early one once, from where the beam was at the CPU's last
clock. `RacedInv`: from the racing read to the pre-render line the flag is down, so
that no write to $2000 requests an NMI, and the one request of dot 1 meets
`suppress_nmi_flag`, which the read has left for exactly that dot.

### MMC1

For every number of banks that is a power of two (the code's own assumption where
it masks), every header and every set of registers written. Types need
`BufferFits` (buffer holds no bit that is still to come, so that OR adds) and
`SecondIsAdjacent` (a second write follows an accepted one). `BanksAlwaysExist`
is about all of these boards. It has the two cases in which the code does map a
bank that is not there (see the deviations): the second of a pair on a board with
one bank, and a bank of CHR ROM whose number is masked with that of RAM banks.
The refinement needs `SentIsCollected`, that buffer is the value of the bits sent
so far: a write that is accepted is a `Collect`, `Complete` or `Clear`; everything
else stutters. What is mapped follows the registers because a mode of PRG ROM is
always flagged by one fixed bank at least (`PrgFlags`), so that a load finds the
bank it leaves alone where the mode wants it.

### Scrolling and $2007

For every size of nametables and tiles (at least two columns, an even number of
lines in a tile), every program and everything memory may hold at power on.
`ColumnInv` and `LineInv` say that a scroll position is remembered only while the
background is shown, so that no dot's increment or copy is missed, and that the
line between picture and pre-render has one dot. A position goes once around its
two nametables at most before it is copied again, so the properties wrap by
subtraction (`Wrap`) and the proofs need no division. `AccessesFollow` needs
`HighInv`, that t still has what the first write of $2006 left there, and that an
increment of v's fields is one of the number they make up (`Linear`).

### Sprites

For every size of OAM, secondary OAM and screen. `EvaluationInv` follows a line
that nothing disturbs from dot to dot: after the nth test, secondary OAM holds
the first in range of the first n sprites, and the search past the last slot is
where a search by the definition would be (`Placed`, `Running`); after the last
test each fetch fills one more unit (`UnitsLoaded`). `EverySpriteTested` says that
a line has dots enough for every sprite (the code has 96 pairs for 64 sprites);
without it the last sprites would not be looked at.

### Ports

`CopyInv` says of a DMA under way that the bytes it has gone through are in place
and the counter tells how many: this is what the refinement needs at the last
clock, where the copy that `OamMemory` made at once must be complete. On the way
each clock leaves OAM as it will be (`OamCompleted`) unchanged.
`RememberedInv` says that every name of the watched place reads as what was
written last, and the read buffer as what was read ahead of it; a write anywhere
else changes none of them as places are the same or share no cell
(`SamePlace` against the code's masks and mirrors, for every size of the tables).

### Instructions

For any operands, offsets, places in memory, and stack pages from 6 to 256 bytes
(`StackAssumption`: a stack pointer is a byte; and the frames of two interrupts
fit, so that a push that no longer fits, after which all frames are forgotten, has
overwritten more than one and is not mistaken for a pull. The code has 256).

- Types: every result is narrowed where the code narrows it.
- `CarryInv`: that the programs which index or jump are the only ones that decode
  and that they execute in between, so that an index is compared with the address
  it was added to. The clock for the carry is spent exactly when the upper bytes
  differ, by `Crossing`, from the code's comparison of lower bytes.
- `FramesInv`: the frames lie one behind the other below the place where the stack
  began, each is where the stack pointer was, and the bytes of each are what its
  instruction pushed. A push leaves them alone while the frames fit into the page,
  also around its end; a pull reads them in the reverse order.
- `LongInv`: how far a chain of instructions has come, and what A, the carry and
  what was stored say of the numbers at that point. The last step joins both
  bytes (`LongSum`, `LongDifference`): carry, sign and overflow of the upper byte
  are those of the longer number.

The first proof of `CarriesArrive` failed for a good reason: the conjunct of
`AddressesCarry` about pointers in a page had been read as part of another
alternative of a CASE and was not checked for the indirect modes. It is a conjunct
of its own now, and holds.

### Picture and pixels

For pictures and name tables of any width, every program, any sprites of any
height as long as there is a unit for each (at most eight), and every pattern.

`PipelineInv` says what is where on a steady line, for each of the eight dots in
which tile j is shown: the latches hold as much of tile j + 2 as has been fetched
(`Fetches`), the shift registers what is left of j and the part of j + 1 that has
moved up (`Registers`, `Holds`), the attribute registers as many pixels of one
palette and of the next (`ShowsPalette`); and the same for the two tiles that are
prefetched on the line before, and for the idle dot. A dot of any of these kinds
leads to the next one, a switch of rendering or a write of the fine scroll ends the
line's steadiness, and what `get_bkg_pixel` shifts out is the pixel at the beam's
distance from the scroll position, around the name tables (`BeamPixel`).

`UnitsInv` says of each unit that holds a sprite of this line how often it has been
counted down and shifted: once for every dot shown (`ShiftedBy`), which makes its
leftmost bit the sprite's pixel under the beam. That a unit is filled by the
sprite whose place among those in range is its number needs a count (`Place` is the
cardinality of `InRangeUpTo`), and from its monotony follows that the first opaque
unit is the first opaque sprite in OAM. `CalmInv` ties both to the steadiness of
the background.

`HitInv` is about time. In a calm frame nothing is met and nothing foreseen
(`Unmet`), or the target is the first column at which sprite 0 and the background
will both be opaque and nothing has been reported (`Foresees`), or flag and picture
both have it (`Met`). The step that matters is the one dot of a line at which the
look-ahead compares the two (`LookDot`): what the registers hold there is what will
be under the beam when the sprite is, in the eight columns that follow its own, as
far as `Foreseen` says. Where it sees no further is among the deviations.

### A run of the program

`SessionInv` goes by the phase: which blocks are set in it and which are still to
be loaded (`BlocksInv`, `AllocationInv`, `LoadedInv`), that the file is open only
while loading, that a window which is to be closed is there (`WindowInv`), and
what may have been misused (`UseInv`: the members of `cart`, or `cart` itself, after
a failed allocation, and what the set-up of an unsupported cartridge copies past
its end or leaves unmapped; `SupportedCartridge` says that the sizes of a supported
one are enough for both mappers, `RomSizes` that sizes are natural numbers). For the
buttons, `KeysInv`: the last event of a key that waits, or else the bit of its
button, says whether the key is held. It holds for every set of headers, limits
and keys, and every order of events.

### Only model-checked

Liveness: `NmiAnswered`, `DmaAnswered` and `Ends`. Fairness and ENABLED are beyond
the prover. What is proved stops short of the first two by just that:
`NmiAnsweredInTime` bounds how much of the picture a pending NMI may take, and the
lemmas `CpuWork` and `DmaLeftFalls` say that each clock of the CPU brings the answer,
or the end of a DMA, nearer. That the next clock comes is what fairness assumes.

## Known deviations

Where the code does something a reader may not expect. The properties above are
stated so that they leave these cases out, or name them, and say so.

- MMC1: a reset in a mode with a fixed low bank leaves both banks flagged as fixed,
  and the low one wins (`mappers.c:272`), while the reset is meant to fix the
  upper bank (`cpu_mapper_interface.h:25` has one flag per bank). `PrgFollowsRegister`
  excludes `BothFixed`.
- Early flags: an instruction that reads, modifies and writes $2001 writes back what it read, 0,
  first (`cpu.c:1022`); its disable flag is put up before the second write replaces it
  in the buffer (`ppu.c:1059`, `cpu.c:664`). The flag stays up while a write waits
  that may switch the background on, and keeps an odd frame from being shortened;
  the comment in `cpu_ppu_interface.h:30` has each flag represent the buffered
  write. `EarlyFlagsAnnounce` says when exactly this is so.
- MMC1: with CHR ROM and CHR RAM, ROM banks are counted in RAM (`mappers.c:349`), so
  that ROM may be mapped past its end if RAM is larger; `BanksExist` names it.
- MMC1: on a board with one bank of PRG ROM or CHR memory, the modes that map banks
  in pairs map what is behind it too (`mappers.c:386` to `389`, `mappers.c:38`);
  `BanksExist` names it.
- MMC1: the set-up copies the first and the last bank of 16 KiB of PRG ROM
  (`mappers.c:189`) whatever its size: with less than one bank it reads past the
  end, and with none the number of the last bank is that before 0. It maps CHR
  memories of any size, also of a few bytes (`mappers.c:194`, `cart.c:171`).
  `EndsClean` has these as `prg_copy` and unmapped pattern tables.
- Palettes: only the entries whose address ends in 0 are mirrored
  (`cpu_ppu_interface.c:116`); on the machine $3F04, $3F08 and $3F0C share their
  memory with $3F14, $3F18 and $3F1C as well. `SamePlace` has what the code has.
- Sprites: `oam_y_byte_offset` is a static that survives a line (`ppu.c:866`), so a
  line after an interrupted search may begin at a wrong byte; sprites found for
  the line after the last visible one stay in the units until they are shown on
  line 0 (`ppu.c:1357` clears other state there).
- Background: with the left column hidden, its eighth pixel is drawn
  (`ppu.c:659`, and `ppu.c:707` for sprites). This is the run `left_column`.
- Sprite zero hit: the look-ahead (`ppu.c:915`) asks for bits of the 16-bit
  registers up to the 22nd, so that an overlap is missed when fine x and the
  sprite's place in its tile add up to more than 8 (`ppu.c:944`); it reports
  hits past the right edge, of which only the last pixel is excluded
  (`ppu.c:997`); it is off after a sprite overflow (`ppu.c:1373`); and it only
  begins again if sprites are shown on the pre-render line (`ppu.c:1356`). In the
  lower half of a sprite of 16 lines it adds 8 to the offset for each of the
  eight pixels (`ppu.c:949`) and reads other tiles. `HitAsDrawn` leaves the first four
  out by `Foreseen`, `sprite_overflow` and `calm`; without either part of the
  first, or without the second, TLC finds frames (with other sprites) in which the
  flag and the picture differ. The last is beyond the model.
- $2007: a write to $3FF0 does not reach the mirror of the backdrop, as the
  second address is past the last mirror (`cpu_ppu_interface.c:116`).
- Controller: writing the latch neither resets the position of the reads nor
  freezes the buttons (`cpu.c:678`, `cpu.c:691`): a program that reads fewer than
  eight stays out of step, and a key released between two reads is missed.
- NES 2.0 headers: the exponent of a size is masked but not shifted, and the upper
  bits of the size of CHR ROM stay in the upper half of their byte
  (`cart.c:159` to `172`).
- NROM with CHR RAM leaves the pattern tables unset (`mappers.c:178`); NROM copies
  32 KiB from a PRG ROM of any size but 16 KiB. `EndsClean` has both as above.
- If a structure cannot be allocated, `program_exit` frees members of `cart` that
  nobody has set, or reads them through a null pointer (`emu.c:229`, `emu.c:316`).
  `EndsClean` allows this, and only after a failed allocation.
- `execute_DMA` reads `cpu->mem` itself, not the bus, so the mirrors of RAM and
  the registers read as whatever is in that array (`cpu.c:2499`), and it writes
  past the end of OAM unless OAMADDR is 0.
- RTI leaves B as it was pushed, which PLP does not.
- The comment of `write_2003` has OAMADDR choose the first sprite evaluated; the
  code always begins with sprite 0.

## Not modelled

- Colours beyond opacity and palette, and grey scale: functions of a pixel that
  keep no state. `PixelOutput` has no more sprites than units, and a sprite's
  pixels are given line by line as they are shown, so that flips, tile addresses
  and the tall sprites' second tile are abstracted.
- Numbers of banks that are not powers of two, and CHR memories smaller than a
  bank, in `Mmc1`; the sizes as such are in `Session`.
- SDL textures, scaling and the debug windows: drawing only.
- $4017 (the second controller is never set), open bus values, `execute_IRQ`
  (nothing calls it), unofficial opcodes (they never leave DECODE).
- Logging and the instruction trace, and the scale factor of the command line.
- A file shorter than its header says: the rest of what it fills is uninitialised.
- The values read back from $2002 are not compared; `clear_status` is kept because
  it is state, not because a property is about it.
