------------------------------ MODULE Session -------------------------------
(***************************************************************************)
(* A run of the program from main's first line to its last: what it        *)
(* allocates, opens and frees, the loading of a cartridge with every step  *)
(* of it that may fail, and the game loop that polls events while the      *)
(* VBlank flag is up.                                                      *)
(*                                                                         *)
(* A pointer is unset, null or set; heap holds the blocks that are         *)
(* allocated, and each pointer points to the block of its name or to       *)
(* nothing, so that a set pointer whose block is gone dangles.  misuse     *)
(* collects what the language leaves undefined.  What the CPU and the PPU  *)
(* do in an iteration is reduced to the VBlank flag and the accesses to    *)
(* the controller; it is the subject of the other modules.                 *)
(***************************************************************************)
EXTENDS CartHeader, Controller, FiniteSets, Integers

CONSTANTS
  Limits   \* the numbers of cycles that option -c may set, 0 for no limit

ASSUME LimitsAssumption == Limits \subseteq Nat /\ Limits # {} /\ IsFiniteSet(Limits)

VARIABLES
  phase,        \* where main is
  ret,
  max_cycles,
  pointer,      \* of each block
  heap,
  rom,          \* the file
  cart,         \* the cartridge, the mapper's number and the mirroring
  mapped,       \* the memories the PPU reads that are there in full
  window,       \* of the display
  quit,
  cycle,
  vblank,       \* bit 7 of ppu_status
  misuse

memory == <<pointer, heap, misuse>>
loop_vars == <<quit, cycle, vblank>>
session_vars ==
  <<phase, ret, max_cycles, memory, rom, cart, mapped, window, loop_vars, controller_vars>>

Structs == {"cart", "cpu_mapper", "cpu_ppu", "cpu", "ppu", "cnes_main"}
Members == {"trainer", "prg_rom", "chr_rom", "chr_ram"}
Blocks == Structs \union Members

InLoop == phase \in {"top", "poll", "clock"}

(* One more than the largest limit: cycles are compared with limits only.  *)
CycleBound == 1 + CHOOSE limit \in Limits : \A other \in Limits : other <= limit

SessionInit ==
  /\ ControllerInit
  /\ phase = "arguments" /\ ret = -1 /\ max_cycles = 0
  /\ pointer = [block \in Blocks |-> "unset"] /\ heap = {} /\ misuse = {}
  /\ rom = "closed" /\ cart = cart_init /\ mapped = {} /\ window = "null"
  /\ quit = FALSE /\ cycle = 0 /\ vblank = FALSE

GoesTo(next) == phase' = next

-----------------------------------------------------------------------------
(* Set-up.                                                                 *)

(* The command line: help, or where to stop.                               *)
Arguments ==
  /\ phase = "arguments"
  /\ \/ GoesTo("ended") /\ UNCHANGED max_cycles
     \/ GoesTo("allocate") /\ max_cycles' \in Limits
  /\ UNCHANGED <<ret, memory, rom, cart, mapped, window, loop_vars, controller_vars>>

(* All are attempted, and any of them may fail.  The members of cart are   *)
(* what the memory held.                                                   *)
Allocate ==
  /\ phase = "allocate"
  /\ \E failed \in SUBSET Structs :
       /\ pointer' = [block \in Blocks |->
            IF block \in Members THEN "unset" ELSE IF block \in failed THEN "null" ELSE "set"]
       /\ heap' = Structs \ failed
       /\ GoesTo(IF failed = {} THEN "init" ELSE "exit")
  /\ UNCHANGED <<ret, max_cycles, misuse, rom, cart, mapped, window, loop_vars, controller_vars>>

(* The init functions; that SDL or the window fail is only reported.       *)
Initialise ==
  /\ phase = "init"
  /\ pointer' = [block \in Blocks |-> IF block \in Members THEN "null" ELSE pointer[block]]
  /\ cart' = cart_init
  /\ window' \in {"null", "live"}
  /\ player_1_controller' = {} /\ controller_latch' = 0
  /\ GoesTo("open")
  /\ UNCHANGED <<ret, max_cycles, heap, misuse, rom, mapped, loop_vars,
                 clock_pulse, events, user, position>>

-----------------------------------------------------------------------------
(* parse_nes_cart_file.                                                    *)

Loading == <<ret, max_cycles, misuse, mapped, window, loop_vars, controller_vars>>

Fails == rom' = "closed" /\ GoesTo("exit")

OpenRom ==
  /\ phase = "open"
  /\ \/ rom' = "open" /\ GoesTo("header")
     \/ Fails
  /\ UNCHANGED <<Loading, pointer, heap, cart>>

(* The file may be too short or not be read.                               *)
ReadHeader ==
  /\ phase = "header"
  /\ \/ Fails /\ UNCHANGED cart
     \/ \E h \in Headers :
          IF Format(h) = "HEADERLESS"
            THEN Fails /\ UNCHANGED cart
            ELSE cart' = Parsed(h) /\ GoesTo("trainer") /\ UNCHANGED rom
  /\ UNCHANGED <<Loading, pointer, heap>>

(* PRG ROM is loaded whatever its size.                                    *)
Needed(part) == part = "prg_rom" \/ cart[part] > 0

Load(part, next) ==
  /\ phase = part
  /\ \/ /\ ~Needed(part)
        /\ GoesTo(next)
        /\ UNCHANGED <<pointer, heap, rom>>
     \/ /\ Needed(part)
        /\ pointer' = [pointer EXCEPT ![part] = "set"]
        /\ heap' = heap \union {part}
        /\ GoesTo(next)
        /\ UNCHANGED rom
     \/ /\ Needed(part)
        /\ pointer' = [pointer EXCEPT ![part] = "null"]
        /\ Fails
        /\ UNCHANGED heap
  /\ UNCHANGED <<Loading, cart>>

(* NROM copies its PRG ROM and frees it.                                   *)

(* Mutant: it leaves the pointer.                                          *)
ReleasedPrgMutant == pointer

ReleasedPrg == [pointer EXCEPT !["prg_rom"] = "null"]

(* A bank of that size is in the memory of the cartridge, all of it.  The  *)
(* numbers of banks are unsigned: one below 0 is far past the end.         *)
Within(part, bank, size) == bank >= 0 /\ (bank + 1) * size <= cart[part]

CopiesPrg(within) == misuse' = misuse \union (IF within THEN {} ELSE {"prg_copy"})

(* It copies 16 or 32 KiB, without a look at what there is.                *)
Copied == IF cart.prg_rom = 16 * KiB THEN 16 * KiB ELSE 32 * KiB

mapper_000 ==
  /\ CopiesPrg(Within("prg_rom", 0, Copied))
  /\ heap' = heap \ {"prg_rom"}
  /\ pointer' = ReleasedPrg

(* MMC1 copies its first and its last bank of 16 KiB, and keeps PRG ROM.   *)
mapper_001 ==
  LET prg_rom_banks == cart.prg_rom \div (16 * KiB)
  IN  /\ CopiesPrg(\A bank \in {0, prg_rom_banks - 1} : Within("prg_rom", bank, 16 * KiB))
      /\ UNCHANGED <<heap, pointer>>

(* The 4 KiB a half of the pattern tables points to.  MMC1 takes them from *)
(* CHR ROM or twice from the start of CHR RAM, but the upper half from an  *)
(* 8 KiB CHR RAM whenever there is one.                                    *)
PatternTableSet(half) ==
  CASE cart.mapper_number = 0 -> Within("chr_rom", half, 4 * KiB)
    [] cart.mapper_number = 1 ->
         IF half = 1 /\ cart.chr_ram = 8 * KiB THEN Within("chr_ram", 1, 4 * KiB)
         ELSE IF cart.chr_rom # 0 THEN Within("chr_rom", half, 4 * KiB)
         ELSE Within("chr_ram", 0, 4 * KiB)
    [] OTHER -> FALSE

init_mapper ==
  /\ mapped' = { memories \in {"pattern_tables", "nametables"} :
                   IF memories = "nametables" THEN cart.mirroring # "FOUR_SCREEN"
                   ELSE \A half \in {0, 1} : PatternTableSet(half) }
  /\ \/ cart.mapper_number = 0 /\ mapper_000
     \/ cart.mapper_number = 1 /\ mapper_001
     \/ cart.mapper_number \notin {0, 1} /\ UNCHANGED memory

Map ==
  /\ phase = "map"
  /\ rom' = "closed"
  /\ init_mapper
  /\ GoesTo("top")
  /\ UNCHANGED <<ret, max_cycles, cart, window, loop_vars, controller_vars>>

-----------------------------------------------------------------------------
(* The game loop.                                                          *)

Looping == <<ret, max_cycles, rom, cart, mapped, pointer, heap>>

LoopTop ==
  /\ phase = "top"
  /\ quit' = (quit \/ (max_cycles # 0 /\ cycle > max_cycles))
  /\ GoesTo(IF vblank THEN "poll" ELSE "clock")
  /\ UNCHANGED <<Looping, misuse, window, cycle, vblank, controller_vars>>

(* kill_screen destroys the renderer and the window it draws to.           *)
process_window_events(e) ==
  /\ window' = IF e.type = "SDL_WINDOWEVENT_CLOSE" THEN "null" ELSE window
  /\ misuse' = IF e.type = "SDL_WINDOWEVENT_CLOSE" /\ window = "null"
                 THEN misuse \union {"renderer"} ELSE misuse

(* Mutant: quit is assigned anew with each event.                          *)
QuitAfterMutant(e) == e.type = "SDL_QUIT"

QuitAfter(e) == quit \/ e.type = "SDL_QUIT"

PollEvent ==
  /\ phase = "poll" /\ events # <<>>
  /\ LET e == Head(events) IN
       /\ quit' = QuitAfter(e)
       /\ process_player_1_input(e)
       /\ process_window_events(e)
  /\ events' = Tail(events)
  /\ UNCHANGED <<phase, Looping, cycle, vblank, controller_latch, clock_pulse, user, position>>

EventsPolled ==
  /\ phase = "poll" /\ events = <<>>
  /\ GoesTo("clock")
  /\ UNCHANGED <<Looping, misuse, window, loop_vars, controller_vars>>

(* An iteration that may use the controller, may begin or end VBlank, and  *)
(* renders from the memories the cartridge has mapped.                     *)
clock_all_units ==
  /\ phase = "clock"
  /\ cycle' = IF cycle < CycleBound THEN cycle + 1 ELSE cycle
  /\ vblank' \in BOOLEAN
  /\ misuse' = misuse \union ({"pattern_tables", "nametables"} \ mapped)
  /\ \/ UNCHANGED <<pad, position>>
     \/ read_4016
     \/ \E data \in {0, 1, 2} : write_4016(data)
  /\ GoesTo(IF quit THEN "quit" ELSE "top")
  /\ UNCHANGED <<Looping, window, quit, events, user>>

SDL_Quit ==
  /\ phase = "quit"
  /\ window' = "null"
  /\ ret' = 0
  /\ GoesTo("exit")
  /\ UNCHANGED <<max_cycles, memory, rom, cart, mapped, loop_vars, controller_vars>>

(* Without a cart its members are read through a null pointer.             *)
ProgramExit ==
  /\ phase = "exit"
  /\ misuse' = misuse \union { block \in Blocks : pointer[block] = "unset" }
       \union { block \in Blocks : pointer[block] = "set" /\ block \notin heap }
       \union (IF pointer["cart"] = "null" THEN {"cart"} ELSE {})
  /\ heap' = { block \in heap : pointer[block] # "set" }
  /\ GoesTo("ended")
  /\ UNCHANGED <<ret, max_cycles, pointer, rom, cart, mapped, window, loop_vars, controller_vars>>

-----------------------------------------------------------------------------
(* The user acts while there is a window.                                  *)
UserActs ==
  /\ window = "live"
  /\ Close \/ \E key \in Keys : KeyDown(key) \/ KeyUp(key)
  /\ UNCHANGED <<phase, ret, max_cycles, memory, rom, cart, mapped, window, loop_vars, pad, position>>

Main ==
  \/ Arguments \/ Allocate \/ Initialise
  \/ OpenRom \/ ReadHeader
  \/ Load("trainer", "prg_rom") \/ Load("prg_rom", "chr_rom")
  \/ Load("chr_rom", "chr_ram") \/ Load("chr_ram", "map")
  \/ Map
  \/ LoopTop \/ PollEvent \/ EventsPolled \/ clock_all_units
  \/ SDL_Quit \/ ProgramExit

SessionNext == Main \/ UserActs

(* main goes on, and VBlank comes again and again.                         *)
SessionSpec ==
  /\ SessionInit /\ [][SessionNext]_session_vars
  /\ WF_session_vars(Main)
  /\ SF_session_vars(clock_all_units /\ vblank')

-----------------------------------------------------------------------------
(* The cartridges the program supports, if there is one yet: one of two    *)
(* mappers, two name tables, a bank of PRG ROM (with NROM one or two or    *)
(* more), and CHR ROM for both pattern tables or, with MMC1, a bank of CHR *)
(* RAM.  No header is refused for having less.                             *)
Supported ==
  \/ cart.header = "HEADERLESS"
  \/ /\ cart.mapper_number \in {0, 1}
     /\ cart.mirroring # "FOUR_SCREEN"
     /\ cart.prg_rom = 16 * KiB \/ cart.prg_rom >= (IF cart.mapper_number = 0 THEN 32 ELSE 16) * KiB
     /\ \/ cart.chr_rom >= 8 * KiB
        \/ cart.mapper_number = 1 /\ cart.chr_rom = 0 /\ 4 * KiB <= cart.chr_ram

AllAllocated == \A struct \in Structs : pointer[struct] # "null"

(* Whichever allocation or step of the loading fails and whenever the user *)
(* quits, the program ends with every block freed and with the file        *)
(* closed, and no block is freed twice.  On the way it reads nothing that  *)
(* is not there, but for two things: if a structure could not be           *)
(* allocated, the members of cart are freed before cart_init has set them, *)
(* or looked for without a cart; and setting up a cartridge that is not    *)
(* supported reads past its memories or leaves them unmapped.  (The banks  *)
(* a program of MMC1 switches to afterwards are the subject of Mmc1.)      *)
EndsClean ==
  /\ phase = "ended" => heap = {} /\ rom = "closed"
  /\ misuse \subseteq (IF AllAllocated THEN {} ELSE Members \union {"cart"})
                      \union (IF Supported THEN {} ELSE {"pattern_tables", "nametables", "prg_copy"})

(* Once the queue is empty, a program that reads the buttons in eights     *)
(* finds each button where it expects it, pressed if and only if its key   *)
(* is held, whatever keys were pressed, repeated and released meanwhile.   *)
ButtonsFollowKeys ==
  InLoop /\ events = <<>> => ReadValue = (KeyOf[position] \in held)

(* A user who closes the window and a number of cycles both end the        *)
(* program.                                                                *)
Ends == (CloseRequested \/ max_cycles > 0) ~> phase = "ended"
=============================================================================
