-------------------------- MODULE MC_TdmaAllocation -------------------------
(* Small instances of TdmaAllocation: two stations, three programs, the    *)
(* superframe layout of the code, and operator input that separates        *)
(* disjoint from overlapping plans and full from empty slot lists.         *)
EXTENDS TdmaAllocation

CONSTANTS c1, c2, c3, a1, b1, sta1, sta2

Slots(s1, s2) == [s1 |-> s1, s2 |-> s2]

(* Every STA has slots in both sessions, so that a truncated response shows. *)
PlanOfTwo == [ap |-> Slots({0}, {0}), num_clients |-> 2,
              sta_configs |-> (0 :> Slots({1}, {1}) @@ 1 :> Slots({2, 3}, {2}))]

(* The same for other boards: station 1 of this plan has slots that station *)
(* 0 has in the other one, and session 2 is not used by station 0.         *)
PlanShifted == [ap |-> Slots({0}, {0}), num_clients |-> 2,
                sta_configs |-> (0 :> Slots({3}, {}) @@ 1 :> Slots({1}, {3}))]

OneServerPlans == {PlanOfTwo}
TwoServerPlans == {PlanOfTwo, PlanShifted}

(* Command-line clients, two of them on one station: they race for its     *)
(* device, each with the id and the slots of its own connection.           *)
RaceBoard == c1 :> sta1 @@ c2 :> sta2 @@ c3 :> sta1
RaceKind == c1 :> "cli" @@ c2 :> "cli" @@ c3 :> "cli"

(* The two on one station can be told apart by nothing but their names.    *)
RaceSymmetry == Permutations({c1, c3})

(* The command-line clients of two stations and an API call on one.        *)
MixBoard == c1 :> sta1 @@ c2 :> sta2 @@ a1 :> sta1
MixKind == c1 :> "cli" @@ c2 :> "cli" @@ a1 :> "api"

(* The quick start: TDMA_client.py, then the bridge, on each station.      *)
QuickBoard == c1 :> sta1 @@ c2 :> sta2 @@ b1 :> sta1
QuickKind == c1 :> "cli" @@ c2 :> "cli" @@ b1 :> "bridge"
=============================================================================
