--------------------------- MODULE Overhead_proofs --------------------------
(* Proofs about the frame budget of measure_overhead.py.                    *)
EXTENDS Overhead, TLAPS

(* The quotient is the largest number of whole parts.                       *)
LEMMA QuotientIsLargest ==
    ASSUME NEW a \in Nat, NEW b \in Nat \ {0}, NEW n \in Nat
    PROVE  n <= a \div b <=> n * b <= a
<1> DEFINE q == a \div b
           r == a % b
<1>1. q \in Int /\ r \in Int /\ a = b * q + r /\ 0 <= r /\ r < b
  OBVIOUS
<1> HIDE DEF q, r
<1>2. n <= q => n * b <= a
  <2> SUFFICES ASSUME n <= q PROVE n * b <= a
    OBVIOUS
  <2>1. b * n <= b * q
    BY <1>1
  <2> QED
    BY <2>1, <1>1
<1>3. n > q => n * b > a
  <2> SUFFICES ASSUME n > q PROVE n * b > a
    OBVIOUS
  <2>1. b * n >= b * (q + 1)
    BY <1>1
  <2>2. b * (q + 1) = b * q + b
    BY <1>1
  <2> QED
    BY <2>1, <2>2, <1>1
<1> QED
  BY <1>1, <1>2, <1>3 DEF q

(* A flow after the other is taken from the room.                           *)
LEMMA Balance ==
    ASSUME NEW f, IsFrame(f), NEW p \in Nat, NEW n \in Nat
    PROVE  /\ Room(f, p) \in Int
           /\ PerFlow(f) \in Nat \ {0}
           /\ 100 * t_csma_effective(f, n) - p * f.hw_frame_us * f.sw_frame_us
                = Room(f, p) - n * PerFlow(f)
           /\ p * f.hw_frame_us * f.sw_frame_us \in Int
           /\ t_csma_effective(f, n) \in Int
<1> DEFINE h == f.hw_frame_us
           s == f.sw_frame_us
           l == f.slot_us
           g == f.guard_us
           c == f.n_control
           b == f.beacon_us
<1>1. /\ h \in Nat \ {0} /\ s \in Nat \ {0} /\ l \in Nat \ {0}
      /\ g \in Nat /\ c \in Nat /\ b \in Nat
  BY DEF IsFrame
<1>2. /\ Room(f, p) = 100 * (h * s - c * l * s - b * h) - p * h * s
      /\ PerFlow(f) = 100 * (l + g) * s
      /\ t_csma_effective(f, n)
           = h * s - (n * l * s + c * l * s + n * g * s + b * h)
  BY DEF Room, PerFlow, t_csma_effective, t_overhead, t_tdma, t_control,
         t_guard, beacon_per_hw
<1> HIDE DEF h, s, l, g, c, b
<1>3. n * (100 * (l + g) * s) = 100 * (n * l * s) + 100 * (n * g * s)
  BY <1>1
<1>4. (l + g) * s \in Nat \ {0}
  BY <1>1
<1>5. /\ h * s \in Int /\ c * l * s \in Int /\ b * h \in Int /\ p * h * s \in Int
      /\ n * l * s \in Int /\ n * g * s \in Int
  BY <1>1
<1>6. 100 * (l + g) * s = 100 * ((l + g) * s)
  BY <1>1
<1>7. p * f.hw_frame_us * f.sw_frame_us = p * h * s
  BY DEF h, s
<1>8. PerFlow(f) \in Nat \ {0}
  BY <1>2, <1>4, <1>6
<1>9. Room(f, p) \in Int /\ t_csma_effective(f, n) \in Int
  BY <1>2, <1>5
<1>10. 100 * t_csma_effective(f, n) - p * h * s = Room(f, p) - n * PerFlow(f)
  <2>1. n * PerFlow(f) = 100 * (n * l * s) + 100 * (n * g * s)
    BY <1>2, <1>3
  <2> QED
    BY <1>2, <1>5, <2>1
<1> QED
  BY <1>5, <1>7, <1>8, <1>9, <1>10

(* N_max is tight: more flows never preserve p percent for CSMA, and as     *)
(* many always do where the frame has room at all.                          *)
THEOREM NMaxTight ==
    ASSUME NEW f, IsFrame(f), NEW p \in Nat, NEW n \in Nat
    PROVE  /\ n > n_max(f, p) => ~Preserves(f, n, p)
           /\ Room(f, p) >= 0 => (n <= n_max(f, p) <=> Preserves(f, n, p))
<1> DEFINE R == Room(f, p)
           F == PerFlow(f)
<1>1. R \in Int /\ F \in Nat \ {0}
  BY Balance
<1>2. Preserves(f, n, p) <=> n * F <= R
  <2>1. n * F \in Int
    BY <1>1
  <2> QED
    BY <2>1, Balance DEF Preserves
<1>3. CASE R >= 0
  <2>1. n_max(f, p) = R \div F
    BY <1>3 DEF n_max, int_quotient
  <2>2. R \div F \in Int
    BY <1>1
  <2> QED
    BY <1>1, <1>2, <1>3, <2>1, <2>2, QuotientIsLargest
<1>4. CASE R < 0
  <2>1. n * F >= 0
    BY <1>1
  <2> QED
    BY <1>1, <1>2, <1>4, <2>1
<1> QED
  BY <1>1, <1>3, <1>4
=============================================================================
