------------------------------- MODULE MCSprite -------------------------------
(* Contents of OAM for the model-checking runs of SpriteEvaluation: bytes    *)
(* are on the first line (0), on the second (1) or, with height 2, on both.  *)
EXTENDS SpriteHistory

SmallAndLarge == {1, 2}
BothLines == {0, 1}

Shown(b, s) == [bg |-> b, sprite |-> s]
AnyMask == { Shown(FALSE, FALSE), Shown(TRUE, FALSE), Shown(TRUE, TRUE) }

(* The second sprite on either line, and a byte of the last beyond its y     *)
(* position; this byte, and the y position of the first, may be written.     *)
FirstMoves ==
  { o \in Oam : \A a \in 0..OamSize - 1 : a \notin {SpriteBytes, OamSize - 1} => o[a] = 0 }
FirstAndLast == {0, OamSize - 1}
=============================================================================
