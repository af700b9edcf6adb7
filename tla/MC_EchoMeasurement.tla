------------------------- MODULE MC_EchoMeasurement -------------------------
(* Three requests and one duplication: an answer may be late for its own   *)
(* request, in time for the next, and leave the last one behind.           *)
EXTENDS EchoMeasurement, TLC
=============================================================================
