----------------------------- MODULE MCPicture ------------------------------
EXTENDS PixelOutput

(* A position without a fine scroll, and one with, next to the right edge  *)
(* of the name tables.                                                     *)
Positions == {0, 61}

Off == [bg |-> FALSE, sprite |-> FALSE, left |-> FALSE, sprite_left |-> FALSE]
SpritesOnly == [Off EXCEPT !.sprite = TRUE]
Clipped == [Off EXCEPT !.bg = TRUE, !.sprite = TRUE]
Everything == [bg |-> TRUE, sprite |-> TRUE, left |-> TRUE, sprite_left |-> TRUE]
OffAndOn == {Off, SpritesOnly, Clipped, Everything}

(* Two that lie over each other, the second one behind the background, and *)
(* two that are first seen on different lines, the first of which meets    *)
(* the background on the last pixel of a line only.                        *)
At(y, x, front) ==
  [y |-> y, x |-> x, front |-> front, rows |-> [line \in 0..1 |-> IF line = 0 THEN {0, 3, 6, 7} ELSE {2, 7}]]
Stacked == <<At(0, 1, TRUE), At(0, 4, FALSE)>>
Spread == <<At(1, 8, TRUE), At(0, 5, TRUE)>>
Pairs == {Stacked, Spread}

Striped == [lo |-> { p \in 0..63 : p % 3 = 0 }, hi |-> { p \in 0..63 : p % 8 = 4 }]
Patterned == {Striped}
=============================================================================
