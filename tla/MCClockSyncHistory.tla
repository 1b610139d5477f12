------------------------- MODULE MCClockSyncHistory -------------------------
(* The programs of MCClockSync for the runs with history variables.         *)
EXTENDS MCClockSync, ClockSyncHistory
=============================================================================
