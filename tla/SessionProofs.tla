---------------------------- MODULE SessionProofs ----------------------------
(***************************************************************************)
(* A run of the program, for every set of cartridge headers, keys and      *)
(* limits: it ends with nothing left allocated and uses nothing that is    *)
(* not there, and the buttons follow the keys.                             *)
(***************************************************************************)
EXTENDS Session, SequenceTheorems, TLAPS

-----------------------------------------------------------------------------
(* THE INDUCTIVE INVARIANT                                                  *)

BeforeInit == {"arguments", "allocate", "init"}
WhileLoading == {"header", "trainer", "prg_rom", "chr_rom", "chr_ram", "map"}
BeforeLoop == BeforeInit \union {"open"} \union WhileLoading
Loop == {"top", "poll", "clock"}
Phases == BeforeLoop \union Loop \union {"quit", "exit", "ended"}

Event == [ type : {"SDL_KEYDOWN", "SDL_KEYUP", "SDL_WINDOWEVENT_CLOSE", "SDL_QUIT"},
           key : Keys \union {""} ]

SessionTypeOK ==
  /\ phase \in Phases
  /\ pointer \in [Blocks -> {"unset", "null", "set"}]
  /\ heap \subseteq Blocks
  /\ cart.prg_rom \in Nat /\ cart.chr_rom \in Nat
  /\ player_1_controller \subseteq 0..7
  /\ events \in Seq(Event)

(* A pointer is set if and only if its block is allocated, and none is     *)
(* unset that was allocated or, once cart is initialised, belongs to cart. *)
BlocksInv ==
  /\ phase = "ended" => heap = {}
  /\ phase # "ended" => \A block \in Blocks : pointer[block] = "set" <=> block \in heap
  /\ phase = "exit" => \A struct \in Structs : pointer[struct] # "unset"
  /\ AllAllocated /\ phase \notin BeforeInit \union {"ended"} =>
       /\ \A block \in Blocks : pointer[block] # "unset"
       /\ pointer["cart"] = "set"

(* Until the end, an allocation has failed only if the program exits.      *)
AllocationInv ==
  /\ phase \in {"arguments", "allocate"} => heap = {} /\ \A block \in Blocks : pointer[block] = "unset"
  /\ phase = "init" => \A member \in Members : pointer[member] = "unset"
  /\ phase \notin {"arguments", "allocate", "exit", "ended"} => \A struct \in Structs : pointer[struct] = "set"

(* The members of cart are loaded in turn, none of them twice.             *)
NotYet(at) ==
  CASE at \in {"open", "header", "trainer"} -> Members
    [] at = "prg_rom" -> {"prg_rom", "chr_rom", "chr_ram"}
    [] at = "chr_rom" -> {"chr_rom", "chr_ram"}
    [] at = "chr_ram" -> {"chr_ram"}
    [] OTHER -> {}

LoadedInv == \A member \in NotYet(phase) : pointer[member] = "null"

(* The file is open while it is read, and no part is without a header.     *)
FileInv ==
  /\ phase \notin WhileLoading => rom = "closed"
  /\ phase \in WhileLoading \ {"header"} => cart.header # "HEADERLESS"

(* The user closes a window that is there, and once.                       *)
IsClose(i) == i \in 1..Len(events) /\ events[i].type = "SDL_WINDOWEVENT_CLOSE"

WindowInv ==
  /\ phase \in BeforeInit => window = "null" /\ events = <<>> /\ held = {} /\ player_1_controller = {}
  /\ phase \notin {"exit", "ended"} =>
       \A i, j \in 1..Len(events) : IsClose(i) /\ IsClose(j) => i = j /\ window = "live"

Unset == IF AllAllocated THEN {} ELSE Members \union {"cart"}
Unsupported == IF Supported THEN {} ELSE {"pattern_tables", "nametables", "prg_copy"}

UseInv ==
  /\ phase \in BeforeLoop => misuse = {}
  /\ phase \in Loop /\ Supported => {"pattern_tables", "nametables"} \subseteq mapped
  /\ misuse \subseteq Unset \union Unsupported

(* The last event of a key that waits, or else the bit of its button, says *)
(* whether the key is held; and the program knows which button is next.    *)
Concerns(i, bit) ==
  events[i].type \in {"SDL_KEYDOWN", "SDL_KEYUP"} /\ events[i].key = KeyOf[bit]

Waits(bit) ==
  \E i \in 1..Len(events) :
    /\ Concerns(i, bit)
    /\ \A j \in 1..Len(events) : Concerns(j, bit) => j <= i
    /\ events[i].type = "SDL_KEYDOWN" <=> KeyOf[bit] \in held

Shows(bit) ==
  /\ \A i \in 1..Len(events) : ~Concerns(i, bit)
  /\ bit \in player_1_controller <=> KeyOf[bit] \in held

KeysInv == \A bit \in 0..7 : Waits(bit) \/ Shows(bit)

PulseInv == clock_pulse = position /\ position \in 0..7

SessionInv ==
  /\ SessionTypeOK /\ BlocksInv /\ AllocationInv /\ LoadedInv /\ FileInv /\ WindowInv /\ UseInv
  /\ KeysInv /\ PulseInv

-----------------------------------------------------------------------------
(* SET-UP                                                                   *)

LEMMA RomSizes ==
  ASSUME NEW h \in Headers
  PROVE  Parsed(h).prg_rom \in Nat /\ Parsed(h).chr_rom \in Nat
  <1>1. h \in Header
    BY HeadersAssumption
  <1> DEFINE clean == Cleaned(h)
  <1>2. clean.prg \in Nat /\ clean.chr \in Nat /\ clean.byte9 \in Nat
    BY <1>1 DEF Cleaned, Header, Byte
  <1> HIDE DEF clean
  <1>3. Ines(clean).prg_rom \in Nat /\ Ines(clean).chr_rom \in Nat
    BY <1>2 DEF Ines, KiB
  <1>4. ASSUME NEW size \in Nat PROVE Multiplied(size) \in Nat
    BY DEF Multiplied
  <1>5. Nes2(clean).prg_rom \in Nat
    <2> DEFINE msb == clean.byte9 % 16
    <2>1. msb \in Nat
      BY <1>2
    <2> HIDE DEF msb
    <2>2. 16 * KiB * ((256 * msb) + clean.prg) \in Nat
      BY <1>2, <2>1 DEF KiB
    <2>3. Nes2(clean).prg_rom =
            IF msb = 15 THEN Multiplied(clean.prg) ELSE 16 * KiB * ((256 * msb) + clean.prg)
      BY DEF Nes2, msb
    <2>4. QED
      BY <1>2, <1>4, <2>2, <2>3
  <1>6. Nes2(clean).chr_rom \in Nat
    <2> DEFINE msb == 16 * (clean.byte9 \div 16)
    <2>1. msb \in Nat
      BY <1>2
    <2> HIDE DEF msb
    <2>2. 8 * KiB * ((256 * msb) + clean.chr) \in Nat
      BY <1>2, <2>1 DEF KiB
    <2>3. Nes2(clean).chr_rom =
            IF msb = 240 THEN Multiplied(clean.chr) ELSE 8 * KiB * ((256 * msb) + clean.chr)
      BY DEF Nes2, msb
    <2>4. QED
      BY <1>2, <1>4, <2>2, <2>3
  <1>7. /\ Parsed(h).prg_rom = IF Format(h) = "NES_2" THEN Nes2(clean).prg_rom ELSE Ines(clean).prg_rom
        /\ Parsed(h).chr_rom = IF Format(h) = "NES_2" THEN Nes2(clean).chr_rom ELSE Ines(clean).chr_rom
    BY DEF Parsed, clean
  <1>8. QED
    BY <1>3, <1>5, <1>6, <1>7

LEMMA SupportedKept ==
  ASSUME UNCHANGED cart
  PROVE  (Supported' <=> Supported) /\ Unsupported' = Unsupported
  BY DEF Supported, Unsupported

LEMMA KeysUnchanged ==
  ASSUME KeysInv, UNCHANGED <<player_1_controller, events, held>>
  PROVE  KeysInv'
  <1>1. ASSUME NEW bit \in 0..7 PROVE (Waits(bit)' <=> Waits(bit)) /\ (Shows(bit)' <=> Shows(bit))
    BY DEF Waits, Shows, Concerns
  <1>2. QED
    BY <1>1 DEF KeysInv

LEMMA ControllerUnchanged ==
  ASSUME KeysInv, PulseInv, UNCHANGED <<player_1_controller, events, held, clock_pulse, position>>
  PROVE  KeysInv' /\ PulseInv'
  BY KeysUnchanged DEF PulseInv

LEMMA SessionInitially == SessionInit => SessionInv
  <1> SUFFICES ASSUME SessionInit PROVE SessionInv
    OBVIOUS
  <1> USE DEF SessionInit, ControllerInit
  <1>1. events = <<>> /\ Len(events) = 0 /\ events \in Seq(Event)
    OBVIOUS
  <1>2. SessionTypeOK
    BY <1>1 DEF SessionTypeOK, Phases, BeforeLoop, BeforeInit, cart_init
  <1>3. BlocksInv /\ AllocationInv /\ LoadedInv /\ FileInv /\ UseInv
    BY DEF BlocksInv, AllocationInv, LoadedInv, NotYet, FileInv, UseInv, BeforeInit, BeforeLoop, Loop, WhileLoading
  <1>4. WindowInv
    BY <1>1 DEF WindowInv
  <1>5. KeysInv /\ PulseInv
    BY <1>1 DEF KeysInv, PulseInv, Shows
  <1>6. QED
    BY <1>2, <1>3, <1>4, <1>5 DEF SessionInv

LEMMA ArgumentsStep ==
  ASSUME SessionInv, Arguments
  PROVE  SessionInv'
  <1> USE DEF Arguments, GoesTo, memory, loop_vars, controller_vars, pad, user, SessionInv,
      Phases, BeforeInit, BeforeLoop, Loop, WhileLoading
  <1>1. SessionTypeOK'
    BY DEF SessionTypeOK
  <1>2. BlocksInv' /\ AllocationInv'
    BY DEF BlocksInv, AllocationInv, AllAllocated
  <1>3. LoadedInv' /\ FileInv' /\ UseInv'
    BY SupportedKept DEF LoadedInv, NotYet, FileInv, UseInv, Unset, AllAllocated
  <1>4. WindowInv'
    BY DEF WindowInv, IsClose
  <1>5. KeysInv' /\ PulseInv'
    BY ControllerUnchanged
  <1>6. QED
    BY <1>1, <1>2, <1>3, <1>4, <1>5

LEMMA AllocateStep ==
  ASSUME SessionInv, Allocate
  PROVE  SessionInv'
  <1> USE DEF Allocate, GoesTo, loop_vars, controller_vars, pad, user, SessionInv,
      Phases, BeforeInit, BeforeLoop, Loop, WhileLoading
  <1>1. PICK failed \in SUBSET Structs :
          /\ pointer' = [block \in Blocks |->
               IF block \in Members THEN "unset" ELSE IF block \in failed THEN "null" ELSE "set"]
          /\ heap' = Structs \ failed
          /\ phase' = IF failed = {} THEN "init" ELSE "exit"
    OBVIOUS
  <1>2. Structs \intersect Members = {} /\ Blocks = Structs \union Members /\ "cart" \in Structs
    BY DEF Structs, Members, Blocks
  <1>3. AllAllocated' <=> failed = {}
    BY <1>1, <1>2 DEF AllAllocated
  <1>4. SessionTypeOK'
    BY <1>1, <1>2 DEF SessionTypeOK
  <1>5. BlocksInv' /\ AllocationInv'
    BY <1>1, <1>2, <1>3 DEF BlocksInv, AllocationInv
  <1>6. LoadedInv' /\ FileInv' /\ UseInv'
    BY <1>1 DEF LoadedInv, NotYet, FileInv, UseInv
  <1>7. WindowInv'
    BY <1>1 DEF WindowInv, IsClose
  <1>8. KeysInv' /\ PulseInv'
    BY ControllerUnchanged
  <1>9. QED
    BY <1>4, <1>5, <1>6, <1>7, <1>8

LEMMA InitialiseStep ==
  ASSUME SessionInv, Initialise
  PROVE  SessionInv'
  <1> USE DEF Initialise, GoesTo, loop_vars, SessionInv,
      Phases, BeforeInit, BeforeLoop, Loop, WhileLoading
  <1>1. Structs \intersect Members = {} /\ Blocks = Structs \union Members /\ "cart" \in Structs
    BY DEF Structs, Members, Blocks
  <1>2. \A block \in Structs : pointer[block] = "set" /\ pointer'[block] = "set"
    BY <1>1 DEF AllocationInv
  <1>3. \A block \in Members : pointer'[block] = "null"
    BY <1>1
  <1>4. SessionTypeOK'
    BY <1>1 DEF SessionTypeOK, cart_init
  <1>5. AllAllocated
    BY <1>2 DEF AllAllocated
  <1>6. BlocksInv' /\ AllocationInv'
    <2>1. \A block \in Blocks : pointer[block] = "set" <=> block \in heap
      BY DEF BlocksInv
    <2>2. \A block \in Members : pointer[block] # "set"
      BY <1>1 DEF AllocationInv
    <2>3. QED
      BY <1>1, <1>2, <1>3, <2>1, <2>2 DEF BlocksInv, AllocationInv
  <1>7. LoadedInv' /\ FileInv' /\ UseInv'
    BY <1>3 DEF LoadedInv, NotYet, FileInv, UseInv
  <1>8. events = <<>> /\ events' = <<>> /\ player_1_controller' = player_1_controller /\ held' = held
    BY DEF WindowInv, user
  <1>9. WindowInv'
    BY <1>8 DEF WindowInv, IsClose
  <1>10. KeysInv' /\ PulseInv'
    BY <1>8, ControllerUnchanged
  <1>11. QED
    BY <1>4, <1>6, <1>7, <1>9, <1>10

(* Loading leaves the controller, the window and misuse alone.             *)
LEMMA LoadingStep ==
  ASSUME SessionInv, UNCHANGED Loading, phase \in BeforeLoop \ BeforeInit,
         phase' \in WhileLoading \union {"exit"}
  PROVE  /\ UseInv' /\ WindowInv' /\ KeysInv' /\ PulseInv'
         /\ player_1_controller' \subseteq 0..7 /\ events' \in Seq(Event)
  <1> USE DEF SessionInv, Loading, loop_vars, controller_vars, pad, user, BeforeLoop, BeforeInit, Loop, WhileLoading
  <1>1. misuse' = {}
    BY DEF UseInv
  <1>2. UseInv'
    BY <1>1 DEF UseInv
  <1>3. WindowInv'
    BY DEF WindowInv, IsClose
  <1>4. KeysInv' /\ PulseInv'
    BY ControllerUnchanged
  <1>5. QED
    BY <1>2, <1>3, <1>4 DEF SessionTypeOK

(* A step of the loading that leaves the memory alone.                     *)
LEMMA MemoryKept ==
  ASSUME SessionInv, UNCHANGED <<pointer, heap>>, phase \in BeforeLoop \ BeforeInit,
         phase' \in WhileLoading \union {"exit"}
  PROVE  BlocksInv' /\ AllocationInv' /\ pointer' \in [Blocks -> {"unset", "null", "set"}] /\ heap' \subseteq Blocks
  <1> USE DEF SessionInv, BeforeLoop, BeforeInit, WhileLoading
  <1>1. BlocksInv'
    <2>1. \A struct \in Structs : pointer'[struct] = "set"
      BY DEF AllocationInv
    <2>2. AllAllocated' <=> AllAllocated
      BY DEF AllAllocated
    <2>3. QED
      BY <2>1, <2>2 DEF BlocksInv
  <1>2. AllocationInv'
    BY DEF AllocationInv
  <1>3. QED
    BY <1>1, <1>2 DEF SessionTypeOK

LEMMA OpenStep ==
  ASSUME SessionInv, OpenRom \/ ReadHeader
  PROVE  SessionInv'
  <1>1. /\ phase \in BeforeLoop \ BeforeInit /\ phase' \in WhileLoading \union {"exit"}
        /\ UNCHANGED <<pointer, heap>> /\ UNCHANGED Loading
        /\ phase' = "exit" => rom' = "closed"
    BY DEF OpenRom, ReadHeader, Fails, GoesTo, BeforeLoop, BeforeInit, WhileLoading
  <1>2. cart'.prg_rom \in Nat /\ cart'.chr_rom \in Nat
    BY RomSizes DEF OpenRom, ReadHeader, SessionInv, SessionTypeOK
  <1>3. SessionTypeOK'
    BY <1>1, <1>2, LoadingStep, MemoryKept DEF SessionTypeOK, Phases, BeforeLoop
  <1>4. FileInv'
    <2>1. phase' \in WhileLoading \ {"header"} => cart'.header # "HEADERLESS"
      BY DEF OpenRom, ReadHeader, Fails, GoesTo, WhileLoading, Parsed
    <2>2. QED
      BY <1>1, <2>1 DEF FileInv
  <1>5. LoadedInv'
    BY DEF OpenRom, ReadHeader, Fails, GoesTo, LoadedInv, NotYet, SessionInv
  <1>6. QED
    BY <1>1, <1>3, <1>4, <1>5, LoadingStep, MemoryKept DEF SessionInv

LEMMA LoadStep ==
  ASSUME SessionInv, NEW part \in Members, NEW next \in WhileLoading, Load(part, next),
         part \in NotYet(part), NotYet(next) = NotYet(part) \ {part}, NotYet("exit") = {},
         NotYet(part) \subseteq Members
  PROVE  SessionInv'
  <1>1. /\ phase \in BeforeLoop \ BeforeInit /\ phase \in WhileLoading
        /\ phase' \in WhileLoading \union {"exit"}
        /\ UNCHANGED Loading /\ cart' = cart
        /\ phase' = "exit" => rom' = "closed"
    BY DEF Load, Fails, GoesTo, BeforeLoop, BeforeInit, WhileLoading, Members
  <1>2. part \in Blocks /\ part \notin Structs /\ "cart" \in Structs /\ Structs \subseteq Blocks
    BY DEF Blocks, Structs, Members
  <1> DEFINE consistent == \A block \in Blocks : pointer[block] = "set" <=> block \in heap
             none_unset == \A block \in Blocks : pointer[block] # "unset"
  <1>3. /\ pointer \in [Blocks -> {"unset", "null", "set"}] /\ heap \subseteq Blocks
        /\ \A struct \in Structs : pointer[struct] = "set"
        /\ AllAllocated /\ consistent /\ none_unset
    <2>1. \A struct \in Structs : pointer[struct] = "set"
      BY <1>1 DEF SessionInv, AllocationInv, BeforeLoop, BeforeInit, WhileLoading
    <2>2. AllAllocated
      BY <2>1 DEF AllAllocated
    <2>3. QED
      BY <1>1, <2>1, <2>2 DEF SessionInv, SessionTypeOK, BlocksInv, BeforeInit, WhileLoading
  <1>4. ASSUME \A struct \in Structs : pointer'[struct] = pointer[struct], consistent', none_unset'
        PROVE  BlocksInv' /\ AllocationInv'
    BY <1>1, <1>2, <1>3, <1>4 DEF BlocksInv, AllocationInv, WhileLoading
  <1>5. /\ pointer' \in [Blocks -> {"unset", "null", "set"}] /\ heap' \subseteq Blocks
        /\ BlocksInv' /\ AllocationInv'
    <2>1. CASE UNCHANGED <<pointer, heap>>
      BY <1>1, <2>1, MemoryKept
    <2>2. CASE pointer' = [pointer EXCEPT ![part] = "set"] /\ heap' = heap \union {part}
      BY <1>2, <1>3, <1>4, <2>2
    <2>3. CASE pointer' = [pointer EXCEPT ![part] = "null"] /\ heap' = heap
      <3>1. part \notin heap
        BY <1>2, <1>3 DEF Load, LoadedInv, SessionInv
      <3>2. QED
        BY <1>2, <1>3, <1>4, <2>3, <3>1
    <2>4. QED
      BY <2>1, <2>2, <2>3 DEF Load, Fails
  <1>6. SessionTypeOK'
    BY <1>1, <1>5, LoadingStep DEF SessionInv, SessionTypeOK, Phases, BeforeLoop
  <1>7. FileInv'
    BY <1>1 DEF FileInv, Load, SessionInv, Members
  <1>8. LoadedInv'
    <2>1. CASE phase' = next
      <3>1. \A member \in Members : member # part => pointer'[member] = pointer[member]
        BY DEF Load, SessionInv, SessionTypeOK, Blocks
      <3>2. QED
        BY <2>1, <3>1 DEF LoadedInv, SessionInv, Load
    <2>2. CASE phase' = "exit"
      BY <2>2 DEF LoadedInv
    <2>3. QED
      BY <2>1, <2>2 DEF Load, Fails, GoesTo
  <1>9. QED
    BY <1>1, <1>5, <1>6, <1>7, <1>8, LoadingStep DEF SessionInv

(* What a supported cartridge has is enough for what the set-up maps.      *)
LEMMA SupportedCartridge ==
  ASSUME SessionTypeOK, Supported, cart.header # "HEADERLESS"
  PROVE  /\ cart.mirroring # "FOUR_SCREEN"
         /\ \A half \in {0, 1} : PatternTableSet(half)
         /\ cart.mapper_number = 0 => Within("prg_rom", 0, Copied)
         /\ cart.mapper_number = 1 =>
              \A bank \in {0, cart.prg_rom \div (16 * KiB) - 1} : Within("prg_rom", bank, 16 * KiB)
  <1>1. PICK prg \in Nat : prg = cart.prg_rom
    BY DEF SessionTypeOK
  <1>2. PICK chr \in Nat : chr = cart.chr_rom
    BY DEF SessionTypeOK
  <1>3. cart.mapper_number \in {0, 1} /\ cart.mirroring # "FOUR_SCREEN"
    BY DEF Supported
  <1>4. ASSUME NEW half \in {0, 1} PROVE PatternTableSet(half)
    <2>1. chr >= 8 * KiB => Within("chr_rom", half, 4 * KiB)
      BY <1>2 DEF Within, KiB
    <2>2. cart.chr_ram = 8 * KiB => Within("chr_ram", 1, 4 * KiB)
      BY DEF Within, KiB
    <2>3. 4 * KiB <= cart.chr_ram => Within("chr_ram", 0, 4 * KiB)
      BY DEF Within, KiB
    <2>4. \/ chr >= 8 * KiB /\ chr # 0
          \/ cart.mapper_number = 1 /\ chr = 0 /\ 4 * KiB <= cart.chr_ram
      BY <1>2 DEF Supported, KiB
    <2>5. QED
      BY <1>2, <1>3, <2>1, <2>2, <2>3, <2>4 DEF PatternTableSet
  <1>5. cart.mapper_number = 0 => Within("prg_rom", 0, Copied)
    BY <1>1 DEF Supported, Within, Copied, KiB
  <1>6. ASSUME cart.mapper_number = 1, NEW bank \in {0, prg \div (16 * KiB) - 1}
        PROVE  Within("prg_rom", bank, 16 * KiB)
    <2>1. prg >= 16 * KiB
      BY <1>1, <1>6 DEF Supported, KiB
    <2>2. PICK banks \in Nat : banks = prg \div (16 * KiB)
      BY DEF KiB
    <2>3. banks >= 1 /\ banks * (16 * KiB) <= prg
      BY <2>1, <2>2 DEF KiB
    <2>4. bank >= 0 /\ (bank + 1) * (16 * KiB) <= prg
      BY <2>2, <2>3 DEF KiB
    <2>5. QED
      BY <1>1, <2>4 DEF Within
  <1>7. QED
    BY <1>1, <1>3, <1>4, <1>5, <1>6

LEMMA MapStep ==
  ASSUME SessionInv, Map
  PROVE  SessionInv'
  <1> USE DEF SessionInv, Map, GoesTo, BeforeLoop, BeforeInit, Loop, WhileLoading, Phases
  <1>1. /\ phase = "map" /\ phase' = "top" /\ cart' = cart
        /\ UNCHANGED <<player_1_controller, events, held, clock_pulse, position, window>>
    BY DEF loop_vars, controller_vars, pad, user
  <1>2. "prg_rom" \in Blocks \ Structs /\ "cart" \in Structs /\ Structs \subseteq Blocks
    BY DEF Blocks, Structs, Members
  <1>3. AllAllocated
    BY <1>1 DEF AllocationInv, AllAllocated
  <1>4. \/ heap' = heap \ {"prg_rom"} /\ pointer' = [pointer EXCEPT !["prg_rom"] = "null"]
        \/ heap' = heap /\ pointer' = pointer
    BY DEF init_mapper, mapper_000, mapper_001, memory, ReleasedPrg
  <1>5. /\ pointer' \in [Blocks -> {"unset", "null", "set"}] /\ heap' \subseteq Blocks
        /\ \A block \in Blocks : /\ pointer'[block] = "set" <=> block \in heap'
                                 /\ pointer'[block] # "unset"
        /\ \A struct \in Structs : pointer'[struct] = "set"
    BY <1>1, <1>2, <1>3, <1>4 DEF SessionTypeOK, BlocksInv, AllocationInv
  <1>6. BlocksInv' /\ AllocationInv' /\ LoadedInv' /\ FileInv'
    BY <1>1, <1>2, <1>5 DEF BlocksInv, AllocationInv, LoadedInv, NotYet, FileInv
  <1>7. UseInv'
    <2>1. (Supported' <=> Supported) /\ Unsupported' = Unsupported
      BY <1>1, SupportedKept
    <2>2. Supported => mapped' = {"pattern_tables", "nametables"}
      BY <1>1, SupportedCartridge DEF init_mapper, FileInv
    <2>3. misuse' \subseteq IF Supported THEN {} ELSE {"prg_copy"}
      <3>1. misuse = {}
        BY DEF UseInv
      <3>2. cart.header # "HEADERLESS"
        BY <1>1 DEF FileInv
      <3>3. QED
        BY <3>1, <3>2, SupportedCartridge DEF init_mapper, mapper_000, mapper_001, CopiesPrg, memory
    <2>4. QED
      BY <1>1, <2>1, <2>2, <2>3 DEF UseInv, Unsupported
  <1>8. WindowInv'
    BY <1>1 DEF WindowInv, IsClose
  <1>9. KeysInv' /\ PulseInv'
    BY <1>1, ControllerUnchanged
  <1>10. SessionTypeOK'
    BY <1>1, <1>5 DEF SessionTypeOK
  <1>11. QED
    BY <1>6, <1>7, <1>8, <1>9, <1>10

-----------------------------------------------------------------------------
(* THE LOOP                                                                 *)

(* Nothing is allocated or freed in the loop, and the cartridge stays.     *)
LEMMA LoopKeeps ==
  ASSUME SessionInv, UNCHANGED Looping, phase \in Loop \union {"quit"}, phase' \in Loop \union {"quit", "exit"}
  PROVE  /\ BlocksInv' /\ AllocationInv' /\ LoadedInv' /\ FileInv'
         /\ Supported' <=> Supported
         /\ Unset' = Unset /\ Unsupported' = Unsupported
         /\ pointer' \in [Blocks -> {"unset", "null", "set"}] /\ heap' \subseteq Blocks
         /\ cart' = cart /\ phase' \in Phases
  <1> USE DEF SessionInv, Looping, BeforeLoop, BeforeInit, Loop, WhileLoading, Phases
  <1>1. AllAllocated' <=> AllAllocated
    BY DEF AllAllocated
  <1>2. BlocksInv' /\ AllocationInv'
    BY <1>1 DEF BlocksInv, AllocationInv
  <1>3. LoadedInv' /\ FileInv'
    BY DEF LoadedInv, NotYet, FileInv
  <1>4. QED
    BY <1>1, <1>2, <1>3, SupportedKept DEF SessionTypeOK, Unset

LEMMA LoopUse ==
  ASSUME SessionInv, UNCHANGED Looping, phase \in Loop \union {"quit"}, phase' \in Loop \union {"quit", "exit"},
         misuse' \subseteq misuse \union (IF Supported THEN {} ELSE {"pattern_tables", "nametables"}),
         phase' \in Loop => phase \in Loop
  PROVE  UseInv'
  BY LoopKeeps DEF SessionInv, UseInv, Unsupported, Looping, BeforeLoop, BeforeInit, Loop, WhileLoading

LEMMA TopStep ==
  ASSUME SessionInv, LoopTop \/ EventsPolled
  PROVE  SessionInv'
  <1>1. /\ phase \in Loop /\ phase' \in Loop /\ UNCHANGED Looping
        /\ UNCHANGED <<misuse, window, player_1_controller, events, held, clock_pulse, position>>
    BY DEF LoopTop, EventsPolled, GoesTo, Loop, controller_vars, pad, user
  <1>2. UseInv'
    BY <1>1, LoopUse
  <1>3. WindowInv'
    BY <1>1 DEF SessionInv, WindowInv, IsClose, Loop, BeforeInit
  <1>4. KeysInv' /\ PulseInv'
    BY <1>1, ControllerUnchanged DEF SessionInv
  <1>5. SessionTypeOK'
    BY <1>1, LoopKeeps DEF SessionInv, SessionTypeOK
  <1>6. QED
    BY <1>1, <1>2, <1>3, <1>4, <1>5, LoopKeeps DEF SessionInv

LEMMA ClockStep ==
  ASSUME SessionInv, clock_all_units
  PROVE  SessionInv'
  <1>1. /\ phase = "clock" /\ phase' \in {"quit", "top"} /\ UNCHANGED Looping
        /\ UNCHANGED <<window, events, held>> /\ player_1_controller' = player_1_controller
        /\ misuse' = misuse \union ({"pattern_tables", "nametables"} \ mapped)
    BY DEF clock_all_units, GoesTo, user, pad, read_4016, write_4016
  <1>2. UseInv'
    <2>1. Supported => {"pattern_tables", "nametables"} \subseteq mapped
      BY <1>1 DEF SessionInv, UseInv, Loop
    <2>2. QED
      BY <1>1, <2>1, LoopUse DEF Loop
  <1>3. WindowInv'
    BY <1>1 DEF SessionInv, WindowInv, IsClose, BeforeInit
  <1>4. KeysInv'
    BY <1>1, KeysUnchanged DEF SessionInv
  <1>5. PulseInv'
    <2>1. \/ UNCHANGED <<clock_pulse, position>>
          \/ clock_pulse' = (clock_pulse + 1) % 8 /\ position' = (position + 1) % 8
      BY DEF clock_all_units, pad, read_4016, write_4016, NextPulse
    <2>2. QED
      BY <2>1 DEF SessionInv, PulseInv
  <1>6. SessionTypeOK'
    BY <1>1, LoopKeeps DEF SessionInv, SessionTypeOK, Loop
  <1>7. QED
    BY <1>1, <1>2, <1>3, <1>4, <1>5, <1>6, LoopKeeps DEF SessionInv, Loop

(* What is left of the queue when its first event is taken.                *)
LEMMA TailOfQueue ==
  ASSUME events \in Seq(Event), events # <<>>
  PROVE  /\ Tail(events) \in Seq(Event) /\ Len(Tail(events)) = Len(events) - 1
         /\ Len(events) \in Nat \ {0}
         /\ \A i \in 1..Len(events) - 1 : Tail(events)[i] = events[i + 1]
         /\ Head(events) = events[1] /\ Head(events) \in Event
  OBVIOUS

(* The button takes the state of the event, which was the last of its key  *)
(* or is followed by another.                                              *)
LEMMA PollKeepsKeys ==
  ASSUME SessionTypeOK, KeysInv, PollEvent
  PROVE  KeysInv'
  <1> DEFINE n == Len(events)
             e == Head(events)
  <1>1. /\ n \in Nat \ {0} /\ Len(events') = n - 1 /\ e = events[1]
        /\ \A i \in 1..n - 1 : events'[i] = events[i + 1]
        /\ process_player_1_input(e) /\ held' = held
    BY TailOfQueue DEF SessionTypeOK, PollEvent, user
  <1>2. e.type \in {"SDL_KEYDOWN", "SDL_KEYUP", "SDL_WINDOWEVENT_CLOSE", "SDL_QUIT"}
    BY TailOfQueue DEF SessionTypeOK, PollEvent, Event
  <1> HIDE DEF n, e
  <1> SUFFICES ASSUME NEW bit \in 0..7 PROVE (Waits(bit) \/ Shows(bit))'
    BY DEF KeysInv
  <1>3. /\ \A i \in 1..n - 1 : Concerns(i, bit)' <=> Concerns(i + 1, bit)
        /\ Concerns(1, bit) <=> e.type \in {"SDL_KEYDOWN", "SDL_KEYUP"} /\ e.key = KeyOf[bit]
    BY <1>1 DEF Concerns
  <1>4. bit \in player_1_controller' <=>
          IF Concerns(1, bit) THEN e.type = "SDL_KEYDOWN" ELSE bit \in player_1_controller
    BY <1>1, <1>2, <1>3 DEF process_player_1_input, Released, ButtonsOf
  <1>5. CASE \E i \in 2..n : Concerns(i, bit)
    <2>1. Waits(bit)
      BY <1>1, <1>5 DEF KeysInv, Shows, n
    <2>2. PICK i \in 1..n : /\ Concerns(i, bit)
                            /\ \A j \in 1..n : Concerns(j, bit) => j <= i
                            /\ events[i].type = "SDL_KEYDOWN" <=> KeyOf[bit] \in held
      BY <2>1 DEF Waits, n
    <2>3. i - 1 \in 1..n - 1 /\ (i - 1) + 1 = i
      BY <1>1, <1>5, <2>2
    <2>4. Concerns(i - 1, bit)'
      BY <1>3, <2>2, <2>3
    <2>5. events'[i - 1].type = "SDL_KEYDOWN" <=> KeyOf[bit] \in held'
      BY <1>1, <2>2, <2>3
    <2>6. ASSUME NEW j \in 1..n - 1, Concerns(j, bit)' PROVE j <= i - 1
      <3>1. j + 1 \in 1..n /\ Concerns(j + 1, bit)
        BY <1>1, <1>3, <2>6
      <3>2. j + 1 <= i
        BY <2>2, <3>1
      <3>3. QED
        BY <1>1, <2>2, <3>2
    <2>7. Waits(bit)'
      BY <1>1, <2>3, <2>4, <2>5, <2>6 DEF Waits
    <2>8. QED
      BY <2>7
  <1>6. CASE \A i \in 2..n : ~Concerns(i, bit)
    <2>1. \A i \in 1..n - 1 : ~Concerns(i, bit)'
      BY <1>1, <1>3, <1>6
    <2>2. bit \in player_1_controller' <=> KeyOf[bit] \in held
      <3>1. CASE Concerns(1, bit)
        <4>1. ~Shows(bit)
          BY <1>1, <3>1 DEF Shows, n
        <4>2. PICK i \in 1..n : /\ Concerns(i, bit)
                                /\ events[i].type = "SDL_KEYDOWN" <=> KeyOf[bit] \in held
          BY <4>1 DEF KeysInv, Waits, n
        <4>3. i = 1
          BY <1>1, <1>6, <4>2
        <4>4. QED
          BY <1>1, <1>4, <3>1, <4>2, <4>3
      <3>2. CASE ~Concerns(1, bit)
        <4>1. \A i \in 1..n : ~Concerns(i, bit)
          BY <1>1, <1>6, <3>2
        <4>2. Shows(bit)
          BY <4>1 DEF KeysInv, Waits, n
        <4>3. QED
          BY <1>4, <3>2, <4>2 DEF Shows
      <3>3. QED
        BY <3>1, <3>2
    <2>3. Shows(bit)'
      BY <1>1, <2>1, <2>2 DEF Shows
    <2>4. QED
      BY <2>3
  <1>7. QED
    BY <1>5, <1>6

LEMMA PollStep ==
  ASSUME SessionInv, PollEvent
  PROVE  SessionInv'
  <1> DEFINE e == Head(events)
  <1>1. /\ phase = "poll" /\ phase' = "poll" /\ UNCHANGED Looping /\ UNCHANGED <<clock_pulse, position, held>>
        /\ process_player_1_input(e) /\ process_window_events(e)
    BY DEF PollEvent, user
  <1>2. /\ e = events[1] /\ e \in Event /\ Len(events) \in Nat \ {0}
        /\ events' \in Seq(Event) /\ Len(events') = Len(events) - 1
        /\ \A i \in 1..Len(events) - 1 : events'[i] = events[i + 1]
    BY TailOfQueue DEF SessionInv, SessionTypeOK, PollEvent
  <1> HIDE DEF e
  <1>3. \A i \in 1..Len(events') : IsClose(i)' <=> IsClose(i + 1)
    BY <1>2 DEF IsClose
  <1>4. IsClose(1) <=> e.type = "SDL_WINDOWEVENT_CLOSE"
    BY <1>2 DEF IsClose
  <1>5. \A i, j \in 1..Len(events) : IsClose(i) /\ IsClose(j) => i = j /\ window = "live"
    BY <1>1 DEF SessionInv, WindowInv
  <1>6. WindowInv'
    <2>1. ASSUME NEW i \in 1..Len(events'), NEW j \in 1..Len(events'), IsClose(i)', IsClose(j)'
          PROVE  i = j /\ window' = "live"
      <3>1. i + 1 \in 1..Len(events) /\ j + 1 \in 1..Len(events) /\ 1 \in 1..Len(events)
        BY <1>2
      <3>2. IsClose(i + 1) /\ IsClose(j + 1)
        BY <1>3, <2>1
      <3>3. i + 1 = j + 1 /\ window = "live"
        BY <1>5, <3>1, <3>2
      <3>4. ~IsClose(1)
        <4>1. i + 1 # 1
          BY <1>2
        <4>2. QED
          BY <1>5, <3>1, <3>2, <4>1
      <3>5. QED
        BY <1>1, <1>2, <1>4, <3>3, <3>4 DEF process_window_events
    <2>2. QED
      BY <1>1, <2>1 DEF WindowInv, BeforeInit
  <1>7. UseInv'
    <2>1. misuse' = misuse
      <3>1. 1 \in 1..Len(events)
        BY <1>2
      <3>2. QED
        BY <1>1, <1>4, <1>5, <3>1 DEF process_window_events
    <2>2. QED
      BY <1>1, <2>1, LoopUse DEF Loop
  <1>8. player_1_controller' \subseteq 0..7
    BY <1>1 DEF process_player_1_input, Released, ButtonsOf, SessionInv, SessionTypeOK
  <1>9. SessionTypeOK'
    BY <1>1, <1>2, <1>8, LoopKeeps DEF SessionInv, SessionTypeOK, Loop
  <1>10. KeysInv' /\ PulseInv'
    BY <1>1, PollKeepsKeys DEF SessionInv, PulseInv
  <1>11. QED
    BY <1>1, <1>6, <1>7, <1>9, <1>10, LoopKeeps DEF SessionInv, Loop

LEMMA QuitStep ==
  ASSUME SessionInv, SDL_Quit
  PROVE  SessionInv'
  <1>1. /\ phase = "quit" /\ phase' = "exit" /\ UNCHANGED <<pointer, heap, misuse>> /\ UNCHANGED <<rom, cart, mapped>>
        /\ UNCHANGED <<player_1_controller, events, held, clock_pulse, position>>
    BY DEF SDL_Quit, GoesTo, memory, controller_vars, pad, user
  <1> USE DEF SessionInv, BeforeLoop, BeforeInit, Loop, WhileLoading, Phases
  <1>2. AllAllocated' <=> AllAllocated
    BY <1>1 DEF AllAllocated
  <1>3. BlocksInv' /\ AllocationInv' /\ LoadedInv' /\ FileInv'
    BY <1>1, <1>2 DEF BlocksInv, AllocationInv, LoadedInv, NotYet, FileInv
  <1>4. UseInv'
    BY <1>1, <1>2, SupportedKept DEF UseInv, Unset
  <1>5. WindowInv'
    BY <1>1 DEF WindowInv
  <1>6. KeysInv' /\ PulseInv'
    BY <1>1, ControllerUnchanged
  <1>7. SessionTypeOK'
    BY <1>1 DEF SessionTypeOK
  <1>8. QED
    BY <1>3, <1>4, <1>5, <1>6, <1>7

LEMMA ExitStep ==
  ASSUME SessionInv, ProgramExit
  PROVE  SessionInv'
  <1>1. /\ phase = "exit" /\ phase' = "ended" /\ UNCHANGED pointer /\ UNCHANGED <<rom, cart, mapped>>
        /\ UNCHANGED <<player_1_controller, events, held, clock_pulse, position>>
        /\ heap' = { block \in heap : pointer[block] # "set" }
    BY DEF ProgramExit, GoesTo, controller_vars, pad, user
  <1> USE DEF SessionInv, BeforeLoop, BeforeInit, Loop, WhileLoading, Phases
  <1>2. AllAllocated' <=> AllAllocated
    BY <1>1 DEF AllAllocated
  <1>3. /\ \A block \in Blocks : pointer[block] = "set" <=> block \in heap
        /\ \A struct \in Structs : pointer[struct] # "unset"
        /\ AllAllocated => pointer["cart"] = "set" /\ \A block \in Blocks : pointer[block] # "unset"
    BY <1>1 DEF BlocksInv
  <1>4. heap' = {} /\ misuse' \subseteq misuse \union Unset
    <2>1. heap' = {}
      BY <1>1, <1>3 DEF SessionTypeOK
    <2>2. misuse' = misuse \union { block \in Blocks : pointer[block] = "unset" }
              \union { block \in Blocks : pointer[block] = "set" /\ block \notin heap }
              \union (IF pointer["cart"] = "null" THEN {"cart"} ELSE {})
      BY DEF ProgramExit
    <2>3. { block \in Blocks : pointer[block] = "set" /\ block \notin heap } = {}
      BY <1>3
    <2>4. { block \in Blocks : pointer[block] = "unset" } \subseteq Unset
      BY <1>3 DEF Unset, Blocks
    <2>5. QED
      BY <1>3, <2>1, <2>2, <2>3, <2>4 DEF Unset
  <1>5. BlocksInv' /\ AllocationInv' /\ LoadedInv' /\ FileInv'
    BY <1>1, <1>2, <1>4 DEF BlocksInv, AllocationInv, LoadedInv, NotYet, FileInv
  <1>6. UseInv'
    <2>1. Unset' = Unset /\ Unsupported' = Unsupported
      BY <1>1, <1>2, SupportedKept DEF Unset
    <2>2. QED
      BY <1>1, <1>4, <2>1 DEF UseInv
  <1>7. WindowInv'
    BY <1>1 DEF WindowInv
  <1>8. KeysInv' /\ PulseInv'
    BY <1>1, ControllerUnchanged
  <1>9. SessionTypeOK'
    BY <1>1 DEF SessionTypeOK
  <1>10. QED
    BY <1>5, <1>6, <1>7, <1>8, <1>9

-----------------------------------------------------------------------------
(* THE USER                                                                 *)

(* The program's side of a step of the user.                               *)
LEMMA UserKeeps ==
  ASSUME SessionInv, UserActs
  PROVE  /\ BlocksInv' /\ AllocationInv' /\ LoadedInv' /\ FileInv' /\ UseInv' /\ PulseInv'
         /\ phase \notin BeforeInit /\ phase' = phase /\ window' = "live"
         /\ (events' \in Seq(Event) => SessionTypeOK')
         /\ player_1_controller' = player_1_controller
  <1>1. /\ UNCHANGED <<phase, pointer, heap, misuse, rom, cart, mapped, window>>
        /\ UNCHANGED <<player_1_controller, clock_pulse, position>>
        /\ window = "live"
    BY DEF UserActs, memory, pad
  <1> USE DEF SessionInv
  <1>2. AllAllocated' <=> AllAllocated
    BY <1>1 DEF AllAllocated
  <1>3. BlocksInv' /\ AllocationInv' /\ LoadedInv' /\ FileInv'
    BY <1>1, <1>2 DEF BlocksInv, AllocationInv, LoadedInv, NotYet, FileInv
  <1>4. UseInv' /\ PulseInv'
    BY <1>1, <1>2, SupportedKept DEF UseInv, Unset, PulseInv
  <1>5. phase \notin BeforeInit
    BY <1>1 DEF WindowInv
  <1>6. QED
    BY <1>1, <1>3, <1>4, <1>5 DEF SessionTypeOK

(* A key event goes to the end of the queue, and says what is held.        *)
LEMMA KeyStep ==
  ASSUME SessionInv, UserActs, NEW key \in Keys, KeyDown(key) \/ KeyUp(key)
  PROVE  SessionInv'
  <1>0. PICK n \in Nat : n = Len(events)
    BY DEF SessionInv, SessionTypeOK
  <1> DEFINE type == IF KeyDown(key) THEN "SDL_KEYDOWN" ELSE "SDL_KEYUP"
             e == [type |-> type, key |-> key]
  <1>1. /\ events' = Append(events, e)
        /\ held' = IF type = "SDL_KEYDOWN" THEN held \union {key} ELSE held \ {key}
    BY DEF KeyDown, KeyUp, Caused
  <1>2. e \in Event /\ e.type = type /\ e.key = key /\ type \in {"SDL_KEYDOWN", "SDL_KEYUP"}
    BY DEF Event
  <1> HIDE DEF type, e
  <1>3. /\ n \in Nat /\ Len(events') = n + 1 /\ events' \in Seq(Event) /\ events'[n + 1] = e
        /\ \A i \in 1..n : events'[i] = events[i]
    BY <1>0, <1>1, <1>2 DEF SessionInv, SessionTypeOK
  <1>4. WindowInv'
    <2>1. \A i \in 1..n + 1 : IsClose(i)' => IsClose(i)
      BY <1>0, <1>2, <1>3 DEF IsClose
    <2>2. ASSUME phase \notin {"exit", "ended"}, NEW i \in 1..n + 1, NEW j \in 1..n + 1, IsClose(i)', IsClose(j)'
          PROVE  i = j
      <3>1. IsClose(i) /\ IsClose(j) /\ i \in 1..Len(events) /\ j \in 1..Len(events)
        BY <2>1, <2>2 DEF IsClose
      <3>2. QED
        BY <2>2, <3>1 DEF SessionInv, WindowInv
    <2>3. QED
      BY <1>3, <2>2, UserKeeps DEF WindowInv
  <1>5. ASSUME NEW bit \in 0..7 PROVE (Waits(bit) \/ Shows(bit))'
    <2>1. /\ \A i \in 1..n : Concerns(i, bit)' <=> Concerns(i, bit)
          /\ Concerns(n + 1, bit)' <=> key = KeyOf[bit]
      BY <1>2, <1>3 DEF Concerns
    <2>2. CASE key = KeyOf[bit]
      <3>1. events'[n + 1].type = "SDL_KEYDOWN" <=> KeyOf[bit] \in held'
        BY <1>1, <1>2, <1>3, <2>2
      <3>2. Concerns(n + 1, bit)' /\ n + 1 \in 1..n + 1 /\ \A j \in 1..n + 1 : j <= n + 1
        BY <1>3, <2>1, <2>2
      <3>3. Waits(bit)'
        BY <1>3, <3>1, <3>2 DEF Waits
      <3>4. QED
        BY <3>3
    <2>3. CASE key # KeyOf[bit]
      <3>1. KeyOf[bit] \in held' <=> KeyOf[bit] \in held
        BY <1>1, <2>3
      <3>2. ~Concerns(n + 1, bit)'
        BY <2>1, <2>3
      <3>3. CASE Waits(bit)
        <4>1. PICK i \in 1..n : /\ Concerns(i, bit)
                                /\ \A j \in 1..n : Concerns(j, bit) => j <= i
                                /\ events[i].type = "SDL_KEYDOWN" <=> KeyOf[bit] \in held
          BY <1>0, <3>3 DEF Waits
        <4>2. i \in 1..n + 1 /\ Concerns(i, bit)'
              /\ (events'[i].type = "SDL_KEYDOWN" <=> KeyOf[bit] \in held')
          BY <1>3, <2>1, <3>1, <4>1
        <4>3. ASSUME NEW j \in 1..n + 1, Concerns(j, bit)' PROVE j <= i
          <5>1. j \in 1..n
            BY <1>3, <3>2, <4>3
          <5>2. QED
            BY <2>1, <4>1, <4>3, <5>1
        <4>4. Waits(bit)'
          BY <1>3, <4>2, <4>3 DEF Waits
        <4>5. QED
          BY <4>4
      <3>4. CASE Shows(bit)
        <4>1. ASSUME NEW i \in 1..n + 1 PROVE ~Concerns(i, bit)'
          <5>1. CASE i = n + 1
            BY <3>2, <5>1
          <5>2. CASE i \in 1..n
            BY <1>0, <2>1, <3>4, <5>2 DEF Shows
          <5>3. QED
            BY <1>3, <5>1, <5>2
        <4>2. Shows(bit)'
          BY <1>3, <3>1, <3>4, <4>1, UserKeeps DEF Shows
        <4>3. QED
          BY <4>2
      <3>5. QED
        BY <3>3, <3>4 DEF SessionInv, KeysInv
    <2>4. QED
      BY <2>2, <2>3
  <1>6. KeysInv'
    BY <1>5 DEF KeysInv
  <1>7. QED
    BY <1>3, <1>4, <1>6, UserKeeps DEF SessionInv

(* A request to close is the only one, and no event of a key.              *)
LEMMA CloseStep ==
  ASSUME SessionInv, UserActs, Close
  PROVE  SessionInv'
  <1>0. PICK n \in Nat : n = Len(events)
    BY DEF SessionInv, SessionTypeOK
  <1> DEFINE close == [type |-> "SDL_WINDOWEVENT_CLOSE", key |-> ""]
             quits == [type |-> "SDL_QUIT", key |-> ""]
  <1>1. /\ events' = events \o <<close, quits>> /\ held' = held
        /\ \A i \in 1..n : events[i].type # "SDL_WINDOWEVENT_CLOSE"
    <2>1. DOMAIN events = 1..n
      BY <1>0, LenProperties DEF SessionInv, SessionTypeOK
    <2>2. QED
      BY <2>1 DEF Close, CloseRequested, user
  <1>2. close \in Event /\ quits \in Event /\ close.type = "SDL_WINDOWEVENT_CLOSE" /\ quits.type = "SDL_QUIT"
    BY DEF Event
  <1> HIDE DEF close, quits
  <1>3. /\ n \in Nat /\ Len(events') = n + 2 /\ events' \in Seq(Event)
        /\ events'[n + 1] = close /\ events'[n + 2] = quits
        /\ \A i \in 1..n : events'[i] = events[i]
    BY <1>0, <1>1, <1>2 DEF SessionInv, SessionTypeOK
  <1>4. WindowInv'
    <2>1. ASSUME NEW i \in 1..n + 2, IsClose(i)' PROVE i = n + 1
      <3>1. i \in 1..n \/ i = n + 1 \/ i = n + 2
        BY <1>3
      <3>2. events'[i].type = "SDL_WINDOWEVENT_CLOSE"
        BY <2>1 DEF IsClose
      <3>3. QED
        BY <1>1, <1>2, <1>3, <3>1, <3>2
    <2>2. QED
      BY <1>3, <2>1, UserKeeps DEF WindowInv
  <1>5. ASSUME NEW bit \in 0..7 PROVE (Waits(bit) \/ Shows(bit))'
    <2>1. /\ \A i \in 1..n : Concerns(i, bit)' <=> Concerns(i, bit)
          /\ ~Concerns(n + 1, bit)' /\ ~Concerns(n + 2, bit)'
      BY <1>2, <1>3 DEF Concerns
    <2>2. \A i \in 1..n + 2 : i \in 1..n \/ i = n + 1 \/ i = n + 2
      BY <1>3
    <2>3. CASE Waits(bit)
      <3>1. PICK i \in 1..n : /\ Concerns(i, bit)
                              /\ \A j \in 1..n : Concerns(j, bit) => j <= i
                              /\ events[i].type = "SDL_KEYDOWN" <=> KeyOf[bit] \in held
        BY <1>0, <2>3 DEF Waits
      <3>2. i \in 1..n + 2 /\ Concerns(i, bit)'
            /\ (events'[i].type = "SDL_KEYDOWN" <=> KeyOf[bit] \in held')
        BY <1>1, <1>3, <2>1, <3>1
      <3>3. \A j \in 1..n + 2 : Concerns(j, bit)' => j <= i
        BY <2>1, <2>2, <3>1
      <3>4. Waits(bit)'
        BY <1>3, <3>2, <3>3 DEF Waits
      <3>5. QED
        BY <3>4
    <2>4. CASE Shows(bit)
      <3>1. \A i \in 1..n + 2 : ~Concerns(i, bit)'
        BY <1>0, <2>1, <2>2, <2>4 DEF Shows
      <3>2. Shows(bit)'
        BY <1>1, <1>3, <2>4, <3>1, UserKeeps DEF Shows
      <3>3. QED
        BY <3>2
    <2>5. QED
      BY <2>3, <2>4 DEF SessionInv, KeysInv
  <1>6. KeysInv'
    BY <1>5 DEF KeysInv
  <1>7. QED
    BY <1>3, <1>4, <1>6, UserKeeps DEF SessionInv

-----------------------------------------------------------------------------
LEMMA SessionStutter ==
  ASSUME SessionInv, UNCHANGED session_vars
  PROVE  SessionInv'
  <1> USE DEF SessionInv, session_vars, memory, loop_vars, controller_vars, pad, user
  <1>1. SessionTypeOK' /\ LoadedInv' /\ FileInv'
    BY DEF SessionTypeOK, LoadedInv, NotYet, FileInv
  <1>2. BlocksInv' /\ AllocationInv' /\ UseInv'
    BY SupportedKept DEF BlocksInv, AllocationInv, UseInv, Unset, AllAllocated
  <1>3. WindowInv'
    BY DEF WindowInv, IsClose
  <1>4. KeysInv' /\ PulseInv'
    BY ControllerUnchanged
  <1>5. QED
    BY <1>1, <1>2, <1>3, <1>4

LEMMA SessionStep ==
  ASSUME SessionInv, [SessionNext]_session_vars
  PROVE  SessionInv'
  <1>1. CASE Arguments \/ Allocate \/ Initialise
    BY <1>1, ArgumentsStep, AllocateStep, InitialiseStep
  <1>2. CASE OpenRom \/ ReadHeader
    BY <1>2, OpenStep
  <1>3. CASE Load("trainer", "prg_rom")
    BY <1>3, LoadStep DEF NotYet, Members, WhileLoading
  <1>4. CASE Load("prg_rom", "chr_rom")
    BY <1>4, LoadStep DEF NotYet, Members, WhileLoading
  <1>5. CASE Load("chr_rom", "chr_ram")
    BY <1>5, LoadStep DEF NotYet, Members, WhileLoading
  <1>6. CASE Load("chr_ram", "map")
    BY <1>6, LoadStep DEF NotYet, Members, WhileLoading
  <1>7. CASE Map
    BY <1>7, MapStep
  <1>8. CASE LoopTop \/ EventsPolled
    BY <1>8, TopStep
  <1>9. CASE PollEvent
    BY <1>9, PollStep
  <1>10. CASE clock_all_units
    BY <1>10, ClockStep
  <1>11. CASE SDL_Quit
    BY <1>11, QuitStep
  <1>12. CASE ProgramExit
    BY <1>12, ExitStep
  <1>13. CASE UserActs
    BY <1>13, KeyStep, CloseStep DEF UserActs
  <1>14. CASE UNCHANGED session_vars
    BY <1>14, SessionStutter
  <1>15. QED
    BY <1>1, <1>2, <1>3, <1>4, <1>5, <1>6, <1>7, <1>8, <1>9, <1>10, <1>11, <1>12, <1>13, <1>14
    DEF SessionNext, Main

(* Blocks and pointers agree in every phase, one window is closed once,    *)
(* and the waiting events lead from the buttons to the keys.               *)
THEOREM SessionInvariant == SessionSpec => []SessionInv
  <1>1. SessionInit => SessionInv
    BY SessionInitially
  <1>2. SessionInv /\ [SessionNext]_session_vars => SessionInv'
    BY SessionStep
  <1>3. QED
    BY <1>1, <1>2, PTL DEF SessionSpec

(* EndsClean of every state: whatever allocation or step of the loading    *)
(* fails and whatever the header says, no block is left and none is freed  *)
(* twice; and what is used without being there is what EndsClean names.    *)
THEOREM SessionEndsClean == SessionSpec => []EndsClean
  <1>1. SessionInv => EndsClean
    BY DEF SessionInv, BlocksInv, FileInv, UseInv, Unset, Unsupported, EndsClean, WhileLoading
  <1>2. QED
    BY <1>1, SessionInvariant, PTL

(* ButtonsFollowKeys of every state, for any keys and any number of events *)
(* between two polls.                                                      *)
THEOREM KeysReachButtons == SessionSpec => []ButtonsFollowKeys
  <1>1. ASSUME SessionInv, InLoop, events = <<>> PROVE ReadValue = (KeyOf[position] \in held)
    <2>1. Len(events) = 0 /\ position \in 0..7 /\ clock_pulse = position
      BY <1>1 DEF SessionInv, PulseInv
    <2>2. Shows(position)
      BY <1>1, <2>1 DEF SessionInv, KeysInv, Waits
    <2>3. QED
      BY <2>1, <2>2 DEF Shows, ReadValue
  <1>2. SessionInv => ButtonsFollowKeys
    BY <1>1 DEF ButtonsFollowKeys
  <1>3. QED
    BY <1>2, SessionInvariant, PTL
=============================================================================
