--------------------------- MODULE MCWorkbenchChat ---------------------------
(* Instances of WorkbenchChat for TLC. *)
EXTENDS WorkbenchChat

CONSTANTS t1, t2, c1, c2, c3, c4, c5, c6

ASSUME EnoughIdsHere == EnoughIds
=============================================================================
