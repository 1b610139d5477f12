------------------------------ MODULE MCPorts ------------------------------
(* Sprite memory of two sprites, two name tables' worth of addresses for    *)
(* each page, and a palette with two mirrors behind it.                     *)
EXTENDS PpuPorts

OamByte == {0, 255}
Stripes == { [a \in 0..OamSize - 1 |-> IF a \in s THEN 255 ELSE 0] : s \in {{0, 3, 4, 6}, {1, 2, 5, 7}} }

ChrOrColour == {0, 65}

(* Of pattern and name tables one each; the mirror that ends at the        *)
(* palette, the name table behind it, and the palette with its mirrors.    *)
Places == {3, 8, 25, PaletteStart - 1, PaletteStart - (4 * TableSize), PaletteStart, PaletteStart + 1,
           PaletteStart + Half, AddressSpace - Half}
=============================================================================
