------------------------------- MODULE MCMmc1 -------------------------------
(* Boards for the model-checking runs of Mmc1.                              *)
EXTENDS Mmc1History

PrgRegisters == {"control", "prg"}
ChrRegisters == {"control", "chr0", "chr1"}
=============================================================================
