----------------------------- MODULE MC_TdmaBridge --------------------------
(* A queue of two commands and two publishers of /cmd_vel.  Three commands *)
(* and two ticks fill it, overflow it and let deadlines pass, before,      *)
(* during and after a shutdown.                                            *)
EXTENDS TdmaBridge, TLC

CONSTANTS p1, p2
=============================================================================
