--------------------------- MODULE MCUptestTrigger ---------------------------
(* Values of the constants of UptestTrigger for TLC. *)
EXTENDS UptestTrigger
=============================================================================
