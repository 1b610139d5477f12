----------------------------- MODULE Controller -----------------------------
(***************************************************************************)
(* The first player's controller: the user presses and releases keys, the  *)
(* events wait in SDL's queue until the game loop polls them, and the      *)
(* program reads the buttons one by one from $4016.                        *)
(*                                                                         *)
(* player_1_controller is the set of the numbers of the bits that are set. *)
(* The user is SDL's side of the queue; the variables held and position    *)
(* are what the user and the program know: the keys that are down, and     *)
(* which of the eight reads is next.                                       *)
(***************************************************************************)
EXTENDS Naturals, Sequences

CONSTANTS
  Keys,       \* the keys the user presses
  KeyEvents   \* bound: how many events the user causes before it closes the window

VARIABLES
  player_1_controller,
  controller_latch,
  clock_pulse,   \* the static of read_4016
  events,        \* SDL's queue
  held,
  position,
  left           \* events the user may still cause

pad == <<player_1_controller, controller_latch, clock_pulse>>
user == <<held, left>>
controller_vars == <<pad, events, user, position>>

(* The key of the button that bit n stands for.                            *)
KeyOf == [ bit \in 0..7 |-> <<"m", "n", "q", "e", "w", "s", "a", "d">>[bit + 1] ]

ButtonsOf(key) == { bit \in 0..7 : KeyOf[bit] = key }

-----------------------------------------------------------------------------
(* The user.                                                               *)

Caused(type, key) == events' = Append(events, [type |-> type, key |-> key])

KeyDown(key) ==
  /\ left > 0
  /\ Caused("SDL_KEYDOWN", key)
  /\ held' = held \union {key}
  /\ left' = left - 1

KeyUp(key) ==
  /\ left > 0 /\ key \in held
  /\ Caused("SDL_KEYUP", key)
  /\ held' = held \ {key}
  /\ left' = left - 1

(* Closing the only window, once: SDL adds a request to quit.              *)
CloseRequested == \E i \in DOMAIN events : events[i].type = "SDL_WINDOWEVENT_CLOSE"

Close ==
  /\ ~CloseRequested
  /\ events' = events \o << [type |-> "SDL_WINDOWEVENT_CLOSE", key |-> ""],
                            [type |-> "SDL_QUIT", key |-> ""] >>
  /\ UNCHANGED user

-----------------------------------------------------------------------------
(* emu.c.                                                                  *)

(* Mutant: the mask is not complemented.                                   *)
ReleasedMutant(buttons, key) == buttons \intersect ButtonsOf(key)

Released(buttons, key) == buttons \ ButtonsOf(key)

process_player_1_input(e) ==
  player_1_controller' =
    CASE e.type = "SDL_KEYDOWN" -> player_1_controller \union ButtonsOf(e.key)
      [] e.type = "SDL_KEYUP" -> Released(player_1_controller, e.key)
      [] OTHER -> player_1_controller

-----------------------------------------------------------------------------
(* The bus.                                                                *)

(* A program latches before it reads the eight buttons.                    *)
write_4016(data) ==
  /\ position = 0
  /\ controller_latch' = IF data \in {0, 1} THEN data ELSE controller_latch
  /\ UNCHANGED <<player_1_controller, clock_pulse, position>>

ReadValue == clock_pulse \in player_1_controller

NextPulse == (clock_pulse + 1) % 8

read_4016 ==
  /\ clock_pulse' = NextPulse
  /\ position' = (position + 1) % 8
  /\ UNCHANGED <<player_1_controller, controller_latch>>

ControllerInit ==
  /\ player_1_controller = {} /\ controller_latch = 0
  /\ clock_pulse = 0
  /\ events = <<>>
  /\ held = {} /\ left = KeyEvents
  /\ position = 0
=============================================================================
