------------------------------- MODULE MCCpu -------------------------------
(* Bytes at the edges of signed and unsigned numbers; a page of the stack    *)
(* that two interrupts fill; and code across a page and at the end of memory *)
EXTENDS CpuPrograms

Edges == {0, 1, 127, 128, 255}
Short == {-128, -2, -1, 0, 1, 127}
Sites == {33022, 33024, 33025, 65533, 0}     \* $80FE, $8100, $8101, $FFFD, $0000
=============================================================================
