--------------------------- MODULE MC_Experiments ---------------------------
(* Two stations, two runs of the scripts in any order, a sweep over one    *)
(* and two slots.                                                          *)
EXTENDS Experiments, TLC

SweptValues == {<<2, 1>>, <<7>>}

(* The defaults of measure_overhead.py, a frame that is nearly full, and   *)
(* one that its control slots over-fill (in units of 10 us).               *)
ThreeFrames ==
    {[hw_frame_us |-> 400, sw_frame_us |-> 2000, slot_us |-> 10,
      n_control |-> 4, beacon_us |-> 20, guard_us |-> 1],
     [hw_frame_us |-> 40, sw_frame_us |-> 200, slot_us |-> 12,
      n_control |-> 1, beacon_us |-> 2, guard_us |-> 4],
     [hw_frame_us |-> 40, sw_frame_us |-> 200, slot_us |-> 12,
      n_control |-> 4, beacon_us |-> 2, guard_us |-> 4]}
=============================================================================
