---- MODULE MCPpuScroll ----
EXTENDS PpuScrollHistory

(* Two of the contents that allocated memory may have.                     *)
Clear == [msb |-> 0, fine_y |-> 0, nt_v |-> 0, nt_h |-> 0, coarse_y |-> 0, coarse_x |-> 0]
AllSet == [msb |-> 1, fine_y |-> FineRows - 1, nt_v |-> 1, nt_h |-> 1,
           coarse_y |-> TileRows - 1, coarse_x |-> TileColumns - 1]
Zeroed == {Clear}
Ones == {AllSet}

Off == [bg |-> FALSE, sprite |-> FALSE]
Sprites == [bg |-> FALSE, sprite |-> TRUE]
Both == [bg |-> TRUE, sprite |-> TRUE]
Shown == {Sprites, Both}
NoBackground == {Off, Sprites}

Scrolling == {"2000", "2001", "2005"}
AddressPort == {"2000", "2001", "2002", "2005", "2006", "2007"}
====
