---------------------------- MODULE MC_MiscDevice ---------------------------
(* Two node configurations, a status read and a send_in_slot call on one   *)
(* board.  Two cells, the node id and the bitmap, are enough to tear a     *)
(* record; their contents are abstract values.                             *)
EXTENDS MiscDevice, TLC

CONSTANTS w1, w2, r1, s1

Rec(id, vec) == [user_ID |-> id, allo_vec |-> vec]

MCCells == {"user_ID", "allo_vec"}
MCData == {"zero", "id0", "id1", "slotsA", "slotsB", "time", "payload"}

MCSlotRecord ==
    [w \in Writers |-> IF w = w1 THEN Rec("id0", "slotsA") ELSE Rec("id1", "slotsB")]

(* 8 bytes of header and 5 of payload: two calls that are taken, and three *)
(* bytes left over that are refused.                                       *)
MCPacket == [s \in Senders |-> <<Rec("time", "time"), Rec("zero", "payload")>>]
MCRemainder == [s \in Senders |-> 3]

MCSlackRecords == {Rec("id0", "time")}
=============================================================================
