----------------------------- MODULE SlotBitmap -----------------------------
(***************************************************************************)
(* The slot vocabulary that TDMA_server.py, TDMA_client.py, tdma_api.py    *)
(* and sweep_tdma_slots.py each repeat: logical slot indices of the two    *)
(* sessions of a superframe, and the driver's slot word, in which session  *)
(* 1 and session 2 occupy two separate ranges of bits.                     *)
(*                                                                         *)
(* A bitmap is the SET of its 1-bits; a list of slot indices is the set of *)
(* the indices in it (the code never uses their order or multiplicity).    *)
(***************************************************************************)
EXTENDS Integers, FiniteSets

CONSTANTS
    TOTAL_SLOTS,              \* bits of the slot word that carry a slot
    SESSION1_SLOTS,           \* logical slots of session 1 (TDMA traffic)
    SESSION2_SLOTS,           \* logical slots of session 2 (control)
    SESSION1_DRIVER_OFFSET,   \* driver bit of logical slot 0 of session 1
    SESSION2_DRIVER_OFFSET    \* driver bit of logical slot 0 of session 2

(* The constants 30, 6, 4, 1 and 20 of the code satisfy this: the sessions *)
(* fit the word and their ranges do not meet.                              *)
ASSUME LayoutAssumption ==
    /\ TOTAL_SLOTS \in Nat
    /\ SESSION1_SLOTS \in Nat
    /\ SESSION2_SLOTS \in Nat
    /\ SESSION1_DRIVER_OFFSET \in Nat
    /\ SESSION2_DRIVER_OFFSET \in Nat
    /\ SESSION1_DRIVER_OFFSET + SESSION1_SLOTS <= SESSION2_DRIVER_OFFSET
    /\ SESSION2_DRIVER_OFFSET + SESSION2_SLOTS <= TOTAL_SLOTS

Session1 == 0 .. SESSION1_SLOTS - 1
Session2 == 0 .. SESSION2_SLOTS - 1
DriverBits == 0 .. TOTAL_SLOTS - 1

(* What parse_slot_input accepts for the two prompts of one node.          *)
Assignments == [s1 : SUBSET Session1, s2 : SUBSET Session2]

(* Mutation: session 2 gets the offset of session 1.                       *)
slots_to_one_range(session1_slots, session2_slots) ==
    {SESSION1_DRIVER_OFFSET + idx : idx \in session1_slots \cap Session1}
      \cup
    {SESSION1_DRIVER_OFFSET + idx : idx \in session2_slots \cap Session2}

(* slots_to_bitmap and its copies: an index outside its session is skipped *)
(* silently, every other one sets one bit.                                 *)
slots_to_bitmap(session1_slots, session2_slots) ==
    {SESSION1_DRIVER_OFFSET + idx : idx \in session1_slots \cap Session1}
      \cup
    {SESSION2_DRIVER_OFFSET + idx : idx \in session2_slots \cap Session2}

Bitmap(a) == slots_to_bitmap(a.s1, a.s2)

(* TDMAClient.has_slot and the slot_id of TDMAClient.slots: one flat index *)
(* space in which session 2 follows session 1.                             *)
has_slot(a, slot_index) ==
    slot_index \in a.s1 \cup {idx + SESSION1_SLOTS : idx \in a.s2}

(* A member of TDMAClient.slots, which leaves its times at their defaults. *)
TDMASlot(slot_id, node_id) ==
    [slot_id |-> slot_id, allocated_to |-> node_id,
     start_us |-> 0, duration_us |-> 0]

is_active(slot, current_us) ==
    /\ slot.start_us <= current_us
    /\ current_us < slot.start_us + slot.duration_us

DisjointAssignments(a, b) == a.s1 \cap b.s1 = {} /\ a.s2 \cap b.s2 = {}
=============================================================================
