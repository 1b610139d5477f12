----------------------------- MODULE MCSession ------------------------------
EXTENDS Session

(* A plain header, and what others have in its place.                      *)
Nrom ==
  [ tag |-> TRUE, disk_dude |-> FALSE, prg |-> 1, chr |-> 1, flags |-> 1, mapper |-> 0,
    byte8 |-> 0, byte9 |-> 0, byte10 |-> 0, byte11 |-> 0, byte12 |-> 0 ]

FileHeaders ==
  { Nrom,
    [Nrom EXCEPT !.tag = FALSE],
    [Nrom EXCEPT !.prg = 0],
    [Nrom EXCEPT !.prg = 2, !.flags = 4 + 8],
    [Nrom EXCEPT !.flags = 16 + 4, !.chr = 0],
    [Nrom EXCEPT !.disk_dude = TRUE, !.mapper = 68, !.byte9 = 115],
    [Nrom EXCEPT !.flags = 16, !.mapper = 8, !.byte10 = 7, !.byte11 = 7],
    [Nrom EXCEPT !.flags = 16, !.prg = 0],
    [Nrom EXCEPT !.flags = 16, !.mapper = 8, !.byte9 = 240],
    [Nrom EXCEPT !.flags = 16, !.mapper = 8, !.chr = 0, !.byte11 = 1],
    [Nrom EXCEPT !.flags = 16, !.mapper = 8, !.chr = 0, !.byte11 = 6],
    [Nrom EXCEPT !.flags = 32 + 2, !.mapper = 8, !.byte8 = 1, !.byte9 = 240, !.byte12 = 1] }
=============================================================================
