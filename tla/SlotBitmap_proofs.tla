-------------------------- MODULE SlotBitmap_proofs -------------------------
(* What the slot codec guarantees for every superframe layout.             *)
EXTENDS SlotBitmap, TLAPS

(* The encoder never sets a bit outside the slot word, whatever indices it *)
(* is given: TDMA_client.py does not validate what it received.            *)
THEOREM BitmapInWord ==
    ASSUME NEW s1 \in SUBSET Int, NEW s2 \in SUBSET Int
    PROVE  slots_to_bitmap(s1, s2) \subseteq DriverBits
  BY LayoutAssumption DEF slots_to_bitmap, DriverBits, Session1, Session2

(* Two nodes whose logical slots are disjoint get disjoint driver words: no *)
(* bit of session 1 is ever also a bit of session 2.                       *)
THEOREM BitmapDisjoint ==
    ASSUME NEW a \in Assignments, NEW b \in Assignments,
           DisjointAssignments(a, b)
    PROVE  Bitmap(a) \cap Bitmap(b) = {}
  BY LayoutAssumption
  DEF Bitmap, slots_to_bitmap, DisjointAssignments, Assignments, Session1, Session2

(* Fewer logical slots never set more driver bits.                         *)
LEMMA BitmapMonotone ==
    ASSUME NEW s1, NEW s2, NEW t1, NEW t2, s1 \subseteq t1, s2 \subseteq t2
    PROVE  slots_to_bitmap(s1, s2) \subseteq slots_to_bitmap(t1, t2)
  BY DEF slots_to_bitmap

(* A driver bit is set exactly for the logical slot it stands for.          *)
LEMMA BitOfSlot ==
    ASSUME NEW a \in Assignments
    PROVE  /\ \A i \in Session1 :
                 SESSION1_DRIVER_OFFSET + i \in Bitmap(a) <=> i \in a.s1
           /\ \A i \in Session2 :
                 SESSION2_DRIVER_OFFSET + i \in Bitmap(a) <=> i \in a.s2
<1> USE LayoutAssumption
    DEF Session1, Session2, Bitmap, slots_to_bitmap, Assignments
<1>1. \A i \in Session1 :
         SESSION1_DRIVER_OFFSET + i \in Bitmap(a) <=> i \in a.s1
  OBVIOUS
<1>2. \A i \in Session2 :
         SESSION2_DRIVER_OFFSET + i \in Bitmap(a) <=> i \in a.s2
  OBVIOUS
<1> QED
  BY <1>1, <1>2

(* The driver word determines the assignment it was made from: nothing that *)
(* the server accepts is lost or merged by the encoding.                   *)
THEOREM BitmapInjective ==
    ASSUME NEW a \in Assignments, NEW b \in Assignments, Bitmap(a) = Bitmap(b)
    PROVE  a = b
<1>1. a.s1 = b.s1
  BY BitOfSlot DEF Assignments
<1>2. a.s2 = b.s2
  BY BitOfSlot DEF Assignments
<1> QED
  BY <1>1, <1>2 DEF Assignments

(* The flat slot numbers of the API and the driver bits agree: has_slot     *)
(* answers for logical slot i of a session exactly what the slot word says. *)
THEOREM HasSlotAgrees ==
    ASSUME NEW a \in Assignments
    PROVE  /\ \A i \in Session1 :
                 has_slot(a, i) <=> SESSION1_DRIVER_OFFSET + i \in Bitmap(a)
           /\ \A i \in Session2 :
                 has_slot(a, SESSION1_SLOTS + i)
                   <=> SESSION2_DRIVER_OFFSET + i \in Bitmap(a)
<1>1. /\ \A i \in Session1 : has_slot(a, i) <=> i \in a.s1
      /\ \A i \in Session2 : has_slot(a, SESSION1_SLOTS + i) <=> i \in a.s2
  BY LayoutAssumption DEF has_slot, Assignments, Session1, Session2
<1> QED
  BY <1>1, BitOfSlot

(* No slot that TDMAClient.slots returns is active at any time: nothing in  *)
(* tdma_api.py sets its start or its duration.                              *)
THEOREM SlotsAreNeverActive ==
    ASSUME NEW slot_id \in Nat, NEW node_id, NEW current_us \in Int
    PROVE  ~is_active(TDMASlot(slot_id, node_id), current_us)
  BY DEF is_active, TDMASlot
=============================================================================
