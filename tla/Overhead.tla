------------------------------ MODULE Overhead ------------------------------
(***************************************************************************)
(* measure_overhead.py: the budget of one hardware frame.  f is the        *)
(* parameters of the program, in microseconds; as the beacon's share       *)
(* divides by sw_frame_us, every time below is given in units of           *)
(* 1/sw_frame_us, exactly.  The program computes in floating point.        *)
(***************************************************************************)
EXTENDS Integers

(* Frames of positive length with a slot to put a flow into.               *)
IsFrame(f) ==
    /\ f.hw_frame_us \in Nat \ {0} /\ f.sw_frame_us \in Nat \ {0}
    /\ f.slot_us \in Nat \ {0} /\ f.guard_us \in Nat
    /\ f.n_control \in Nat /\ f.beacon_us \in Nat

(* Mutation: one guard interval less than slots, as between them only.     *)
t_guard_between(f, n_tdma) ==
    (IF n_tdma > 0 THEN n_tdma - 1 ELSE 0) * f.guard_us * f.sw_frame_us

t_tdma(f, n_tdma) == n_tdma * f.slot_us * f.sw_frame_us
t_control(f) == f.n_control * f.slot_us * f.sw_frame_us
t_guard(f, n_tdma) == n_tdma * f.guard_us * f.sw_frame_us
beacon_per_hw(f) == f.beacon_us * f.hw_frame_us

(* All that the frame loses, and what is left for CSMA, which may be        *)
(* negative.                                                               *)
t_overhead(f, n_tdma) ==
    t_tdma(f, n_tdma) + t_control(f) + t_guard(f, n_tdma) + beacon_per_hw(f)
t_csma_effective(f, n_tdma) ==
    f.hw_frame_us * f.sw_frame_us - t_overhead(f, n_tdma)

(* eta, the fraction left to CSMA, is at least p percent.                  *)
Preserves(f, n_tdma, p) ==
    100 * t_csma_effective(f, n_tdma) >= p * f.hw_frame_us * f.sw_frame_us

(* The room that control slots, beacon and p percent of CSMA leave, and    *)
(* what one flow takes of it (both times 100).                             *)
Room(f, p) ==
    100 * (f.hw_frame_us * f.sw_frame_us - t_control(f) - beacon_per_hw(f))
      - p * f.hw_frame_us * f.sw_frame_us
PerFlow(f) == 100 * (f.slot_us + f.guard_us) * f.sw_frame_us

(* Python's int() cuts towards 0.                                          *)
int_quotient(a, b) == IF a >= 0 THEN a \div b ELSE -((-a) \div b)

(* N_max of sweep_tdma: the most flows that preserve p percent.            *)
n_max(f, p) == int_quotient(Room(f, p), PerFlow(f))
=============================================================================
