------------------------- MODULE Experiments_proofs -------------------------
(* Proofs about the experiment scripts, for every number of stations and    *)
(* repeats, every sequence of swept values and any number of faults.        *)
EXTENDS Experiments, SlotBitmap_proofs, ResultsAnalysis_proofs, Overhead_proofs,
        TLAPS

(* -------------------------- Constants and bits -------------------------- *)

LEMMA Constants ==
    /\ num_stas \in Nat \ {0} /\ num_stas <= SESSION1_SLOTS
    /\ 0 \in Stations /\ Stations \subseteq Nat
    /\ AP \notin Stations /\ AP \in Boards /\ Stations \subseteq Boards
    /\ Stations \subseteq Ids
  BY TestbedAssumption, LayoutAssumption DEF Stations, Boards, Ids

LEMMA Values ==
    ASSUME NEW vs \in ValueLists
    PROVE  /\ vs \in Seq(Nat) /\ Len(vs) \in Nat \ {0}
           /\ DOMAIN vs = 1 .. Len(vs) /\ 1 \in DOMAIN vs
           /\ \A v \in DOMAIN vs : vs[v] \in Nat /\ vs[v] \in Ids
<1>1. vs \in Seq(Nat) /\ vs # << >>
  BY TestbedAssumption
<1>2. Len(vs) \in Nat /\ DOMAIN vs = 1 .. Len(vs)
  BY <1>1
<1>3. Len(vs) # 0
  BY <1>1
<1>4. \A v \in DOMAIN vs : vs[v] \in Nat
  BY <1>1, <1>2
<1>5. \A v \in DOMAIN vs : vs[v] \in Ids
  BY DEF Ids
<1> QED
  BY <1>1, <1>2, <1>3, <1>4, <1>5

(* A log's name.                                                            *)
LEMMA NameType ==
    ASSUME NEW r \in 1 .. MaxRepeats
    PROVE  /\ \A s \in Stations : echo_sta(s, r) \in LogNames
           /\ \A n \in Ids : echo_n(n, r) \in LogNames
  BY Constants DEF echo_sta, echo_n, LogNames

LEMMA LateType ==
    ASSUME NEW cs \in SUBSET Clients
    PROVE  Late(cs) \subseteq Clients
  BY DEF Late, Clients

(* The clients that have seen the AP's device, and the TDMA clients whose   *)
(* server, ssh or configuration is gone.                                    *)
LEMMA SeeApType ==
    ASSUME NEW cs \in SUBSET Clients, dev'[AP] \in SUBSET DriverBits
    PROVE  SeeAp(cs) \subseteq Clients
<1> SUFFICES ASSUME NEW c \in cs PROVE [c EXCEPT !.ap = @ \cup {dev'[AP]}] \in Clients
  BY DEF SeeAp
<1>1. c \in Clients
  OBVIOUS
<1>2. c.ap \cup {dev'[AP]} \in SUBSET (SUBSET DriverBits)
  BY <1>1 DEF Clients
<1> QED
  BY <1>1, <1>2 DEF Clients

LEMMA TdmaClientsType ==
    ASSUME NEW cs \in SUBSET TdmaClients
    PROVE  /\ Cut(cs) \subseteq TdmaClients
           /\ Outdated(cs) \subseteq TdmaClients
           /\ faults' \in 0 .. MaxFaults => Abandoned(cs) \subseteq TdmaClients
<1>1. Cut(cs) \subseteq TdmaClients
  BY DEF Cut, TdmaClients
<1>2. Outdated(cs) \subseteq TdmaClients
  BY DEF Outdated, TdmaClients
<1>3. ASSUME faults' \in 0 .. MaxFaults PROVE Abandoned(cs) \subseteq TdmaClients
  BY <1>3 DEF Abandoned, TdmaClients
<1> QED
  BY <1>1, <1>2, <1>3

(* Slot i of the first session is one bit of the word, its own.             *)
LEMMA OneSlot ==
    ASSUME NEW i \in Session1
    PROVE  slots_to_bitmap({i}, {}) = {SESSION1_DRIVER_OFFSET + i}
  BY DEF slots_to_bitmap

LEMMA SlotBits ==
    ASSUME NEW slots \in SUBSET Int
    PROVE  slots_to_bitmap(slots, {}) \subseteq DriverBits
  BY BitmapInWord

LEMMA SweptBits ==
    ASSUME NEW n \in Nat, ap_slots(n) \subseteq Session1
    PROVE  /\ logical_slots_to_driver_bitmap(ap_slots(n)) \subseteq DriverBits
           /\ logical_slots_to_driver_bitmap(ap_slots(n))
                = slots_to_bitmap(0 .. n - 1 \ sta_slots(n), {})
<1>1. ap_slots(n) = 0 .. n - 1 \ sta_slots(n)
  <2>1. \A i \in 0 .. n - 1 : i % 2 = 0 <=> i % 2 # 1
    OBVIOUS
  <2>2. n = 1 => 0 .. n - 1 = {0}
    OBVIOUS
  <2> QED
    BY <2>1, <2>2 DEF ap_slots, sta_slots
<1>2. logical_slots_to_driver_bitmap(ap_slots(n))
        = slots_to_bitmap(ap_slots(n), {})
  BY DEF logical_slots_to_driver_bitmap, slots_to_bitmap
<1>3. slots_to_bitmap(ap_slots(n), {}) \subseteq DriverBits
  BY BitmapInWord DEF ap_slots
<1> QED
  BY <1>1, <1>2, <1>3

(* ----------------------------- Type correctness ------------------------- *)

PlaceOK ==
    /\ pc = "idle" \/ Orchestrating \/ Sweeping
    /\ n_tdma_values \in ValueLists \cup {<< >>}
    /\ IF Sweeping THEN idx \in DOMAIN n_tdma_values
       ELSE idx \in Nat /\ (Orchestrating => idx \in Stations)
    /\ pc # "idle" => run # 0

RowsOK ==
    /\ all_results \subseteq Rows /\ csv \subseteq Rows
    /\ results \subseteq SweepRows /\ sweep_csv \subseteq SweepRows
    /\ planned \in BOOLEAN /\ refused \subseteq Ids

TypeInv == TestbedTypeOK /\ PlaceOK /\ RowsOK

LEMMA TypeInvTypes == TypeInv => TypeOK
  BY DEF TypeInv, PlaceOK, RowsOK, TypeOK

LEMMA TypeInit == Init => TypeInv
<1> SUFFICES ASSUME Init PROVE TypeInv
  OBVIOUS
<1>1. TestbedTypeOK
  BY TestbedAssumption, Constants
     DEF Init, TestbedInit, TestbedTypeOK, Boards, DriverBits
<1>2. PlaceOK /\ RowsOK
  BY DEF Init, TestbedInit, OrchestrationInit, SweepInit, PlaceOK, RowsOK,
         Orchestrating, Preparing, Measuring, Sweeping
<1> QED
  BY <1>1, <1>2 DEF TypeInv

LEMMA NextStation ==
    ASSUME NEW label, NEW next, idx \in Stations, EachStation(label, next)
    PROVE  idx' \in Stations /\ pc' \in {label, next}
  BY TestbedAssumption DEF EachStation, Stations

LEMMA PlaceKept ==
    ASSUME PlaceOK, Orchestrating, Orchestrating', idx' \in Stations,
           UNCHANGED <<run, n_tdma_values>>
    PROVE  PlaceOK'
<1>1. ~Sweeping /\ ~Sweeping' /\ pc # "idle" /\ pc' # "idle"
  BY DEF Orchestrating, Sweeping, Preparing, Measuring
<1> QED
  BY <1>1, Constants DEF PlaceOK

(* A client has connected; its slots are written.                           *)
LEMMA ConnectedType ==
    ASSUME TestbedTypeOK, NEW s \in Stations, NEW fault \in 0 .. MaxFaults
    PROVE  Connected(s, fault) \in TdmaClients
<1>1. next_node_id % num_stas \in Nat /\ next_node_id \in Int
  BY Constants DEF TestbedTypeOK
<1> QED
  BY <1>1 DEF Connected, TdmaClients

LEMMA WriteType ==
    ASSUME TestbedTypeOK, NEW c \in tdma_clients, WriteSlots(c)
    PROVE  /\ dev' \in [Boards -> SUBSET DriverBits]
           /\ number' \in [Stations -> Int]
<1>1. c.slots \in SUBSET Nat /\ c.number \in Int
  BY DEF TestbedTypeOK, TdmaClients
<1>2. \A slots \in {c.slots, {}} : slots_to_bitmap(slots, {}) \subseteq DriverBits
  BY <1>1, SlotBits
<1>3. dev' \in [Boards -> SUBSET DriverBits]
  <2> PICK slots \in {c.slots} \cup (IF c.cut THEN {{}} ELSE {}) :
         dev' = [dev EXCEPT ![c.sta] = slots_to_bitmap(slots, {})]
    BY DEF WriteSlots
  <2>1. slots \in {c.slots, {}}
    OBVIOUS
  <2>2. slots_to_bitmap(slots, {}) \in SUBSET DriverBits
    BY <1>2, <2>1
  <2> QED
    BY <2>2 DEF TestbedTypeOK
<1>4. number' \in [Stations -> Int]
  BY <1>1 DEF WriteSlots, TestbedTypeOK
<1> QED
  BY <1>3, <1>4

LEMMA TypeStep == TypeInv /\ [Next]_vars => TypeInv'
<1> SUFFICES ASSUME TypeInv, [Next]_vars PROVE TypeInv'
  OBVIOUS
<1> USE DEF TypeInv, TestbedTypeOK, PlaceOK, RowsOK, testbedVars, scriptVars,
            argVars, slotVars, echoVars, orchestratorVars, sweepVars,
            Orchestrating, Preparing, Measuring, Sweeping
<1>0. /\ MaxRepeats \in Nat \ {0} /\ MaxFaults \in Nat /\ Count \in Nat
      /\ repeat \in 1 .. MaxRepeats
      /\ run \in 0 .. MaxRepeats
      /\ pc # "idle" => run \in 1 .. MaxRepeats
  BY TestbedAssumption
<1>f. Works \/ Fails => faults' \in 0 .. MaxFaults
  BY <1>0 DEF Works, Fails
<1>1. CASE StartOrchestrator /\ UNCHANGED sweepVars
  <2>1. TestbedTypeOK'
    BY <1>0, <1>f, <1>1, Constants DEF StartOrchestrator, check_connectivity, Begin
  <2>2. PlaceOK'
    BY <1>0, <1>f, <1>1, Constants DEF StartOrchestrator, check_connectivity, Begin
  <2>3. RowsOK'
    BY <1>0, <1>f, <1>1, Constants DEF StartOrchestrator, check_connectivity, Begin
  <2> QED
    BY <2>1, <2>2, <2>3
<1>2. CASE StartSweep /\ UNCHANGED orchestratorVars
  <2>1. TestbedTypeOK'
    BY <1>0, <1>f, <1>2, Constants, Values DEF StartSweep, Begin
  <2>2. PlaceOK'
    BY <1>0, <1>f, <1>2, Constants, Values DEF StartSweep, Begin
  <2>3. RowsOK'
    BY <1>0, <1>f, <1>2, Constants, Values DEF StartSweep, Begin
  <2> QED
    BY <2>1, <2>2, <2>3
<1>3. CASE ConfigureAp /\ UNCHANGED sweepVars
  <2>a. slots_to_bitmap({}, {}) \subseteq DriverBits
    BY BitmapInWord
  <2>b. dev' \in [Boards -> SUBSET DriverBits]
    BY <1>3, <2>a DEF ConfigureAp
  <2>e. number' = [s \in Stations |-> -1] /\ taken' = 0
        /\ tdma_up' \in {TRUE, FALSE, tdma_up}
        /\ next_node_id' \in {0, next_node_id}
    BY <1>3 DEF ConfigureAp, AfterConfigure
  <2>c. /\ number' \in [Stations -> Int] /\ taken' \in Nat
        /\ tdma_up' \in BOOLEAN /\ next_node_id' \in Nat
    <3>1. [s \in Stations |-> -1] \in [Stations -> Int]
      OBVIOUS
    <3>2. tdma_up \in BOOLEAN /\ next_node_id \in Nat
      OBVIOUS
    <3>3. tdma_up' \in BOOLEAN
      BY <2>e, <3>2, Zenon
    <3>4. number' \in [Stations -> Int]
      BY <2>e, <3>1
    <3>5. taken' \in Nat /\ next_node_id' \in Nat
      BY <2>e, <3>2
    <3> QED
      BY <3>3, <3>4, <3>5
  <2>d. faults' \in 0 .. MaxFaults
    BY <1>f, <1>3 DEF ConfigureAp
  <2>f. tdma_clients' \subseteq TdmaClients
    <3>1. tdma_clients \in SUBSET TdmaClients
      OBVIOUS
    <3>2. /\ Cut(tdma_clients) \in SUBSET TdmaClients
          /\ Outdated(tdma_clients) \in SUBSET TdmaClients
      BY <3>1, TdmaClientsType
    <3>3. Outdated(Cut(tdma_clients)) \subseteq TdmaClients
      BY <3>2, TdmaClientsType
    <3> QED
      BY <1>3, <3>2, <3>3 DEF ConfigureAp
  <2>g. clients' \subseteq Clients
    <3>1. dev'[AP] \in SUBSET DriverBits
      BY <2>b, Constants
    <3>2. clients \in SUBSET Clients
      OBVIOUS
    <3> QED
      BY <1>3, <3>1, <3>2, SeeApType DEF ConfigureAp
  <2>h. pc' = "join" /\ idx' = 0 /\ UNCHANGED <<argVars, repeat, echo, remote, wrote,
           local, all_results, csv>> /\ planned' \in BOOLEAN
    BY <1>3 DEF ConfigureAp, AfterConfigure
  <2>1. TestbedTypeOK'
    BY <2>b, <2>c, <2>d, <2>f, <2>g, <2>h
  <2>2. PlaceOK'
    BY <1>0, <1>3, <2>h, Constants DEF ConfigureAp
  <2>3. RowsOK'
    BY <1>3, <2>h
  <2> QED
    BY <2>1, <2>2, <2>3
<1>4. CASE JoinStation /\ UNCHANGED sweepVars
  <2>a. idx \in Stations
    BY <1>4 DEF JoinStation
  <2>b. idx' \in Stations /\ pc' \in {"join", "joined", "server"}
    BY <1>4, <2>a, NextStation DEF JoinStation
  <2>c. next_node_id' \in Nat /\ taken' \in Nat
    BY <1>4 DEF JoinStation, TakeId
  <2>d. faults' \in 0 .. MaxFaults /\ planned' \in BOOLEAN
    BY <1>0, <1>f, <1>4, <2>a DEF JoinStation
  <2>e. tdma_clients' \subseteq TdmaClients
    <3>1. Connected(idx, 0) \in TdmaClients
      BY <1>0, <2>a, ConnectedType
    <3>2. [sta |-> idx, fault |-> faults', connected |-> FALSE,
           slots |-> {}, number |-> -1, cut |-> FALSE] \in TdmaClients
      BY <2>a, <2>d DEF TdmaClients
    <3> QED
      BY <1>4, <3>1, <3>2 DEF JoinStation
  <2>f. UNCHANGED <<argVars, repeat, tdma_up, dev, number, echoVars, local,
                    all_results, csv>>
    BY <1>4 DEF JoinStation
  <2>1. TestbedTypeOK'
    BY <2>c, <2>d, <2>e, <2>f
  <2>u. UNCHANGED <<run, n_tdma_values>> /\ Orchestrating
    BY <1>4 DEF JoinStation
  <2>2. PlaceOK'
    BY <2>b, <2>u, PlaceKept
  <2>3. RowsOK'
    BY <1>4, <2>d, <2>f
  <2> QED
    BY <2>1, <2>2, <2>3
<1>23. CASE JoinWrites /\ UNCHANGED sweepVars
  <2>a. idx \in Stations
    BY <1>23 DEF JoinWrites
  <2>b. idx' \in Stations /\ pc' \in {"join", "server"}
    BY <1>23, <2>a, NextStation DEF JoinWrites
  <2>c. /\ dev' \in [Boards -> SUBSET DriverBits]
        /\ number' \in [Stations -> Int]
    BY <1>23, WriteType DEF JoinWrites
  <2>d. faults' \in 0 .. MaxFaults /\ planned' \in BOOLEAN
    BY <1>0, <1>f, <1>23 DEF JoinWrites
  <2>e. tdma_clients' \subseteq TdmaClients
    <3>1. tdma_clients \in SUBSET TdmaClients
      OBVIOUS
    <3>2. Abandoned(tdma_clients) \subseteq TdmaClients
      BY <2>d, <3>1, TdmaClientsType
    <3> QED
      BY <1>23, <3>2 DEF JoinWrites
  <2>f. UNCHANGED <<argVars, repeat, tdma_up, next_node_id, taken, echoVars, local,
                    all_results, csv>>
    BY <1>23 DEF JoinWrites
  <2>1. TestbedTypeOK'
    BY <2>c, <2>d, <2>e, <2>f
  <2>u. UNCHANGED <<run, n_tdma_values>> /\ Orchestrating
    BY <1>23 DEF JoinWrites
  <2>2. PlaceOK'
    BY <2>b, <2>u, PlaceKept
  <2>3. RowsOK'
    BY <1>23, <2>d, <2>f
  <2> QED
    BY <2>1, <2>2, <2>3
<1>5. CASE StartEchoServer /\ UNCHANGED sweepVars
  <2>a. echo' \subseteq Stations /\ faults' \in 0 .. MaxFaults
    BY <1>0, <1>f, <1>5 DEF StartEchoServer
  <2>b. clients' \subseteq Clients
    <3>1. \A c \in Clients, b \in BOOLEAN : [c EXCEPT !.starved = b] \in Clients
      BY DEF Clients
    <3>2. \A c \in clients :
             (c.starved \/ (~c.late /\ c.sta \notin echo')) \in BOOLEAN
      BY DEF Clients
    <3> QED
      BY <1>5, <3>1, <3>2 DEF StartEchoServer
  <2>1. TestbedTypeOK'
    BY <1>5, <2>a, <2>b DEF StartEchoServer
  <2>2. PlaceOK'
    BY <1>0, <1>f, <1>5, Constants DEF StartEchoServer, Clients
  <2>3. RowsOK'
    BY <1>0, <1>f, <1>5, Constants DEF StartEchoServer, Clients
  <2> QED
    BY <2>1, <2>2, <2>3
<1>6. CASE StartEchoClient /\ UNCHANGED sweepVars
  <2>a. idx \in Stations /\ run \in 1 .. MaxRepeats
    BY <1>0, <1>f, <1>6 DEF StartEchoClient
  <2>b. idx' \in Stations /\ pc' \in {"server", "wait"}
    BY <1>6, <2>a, NextStation DEF StartEchoClient
  <2>c. clients' \subseteq Clients
    <3>1. [sta |-> idx, log |-> echo_sta(idx, repeat), by |-> run,
           starved |-> idx \notin echo, late |-> FALSE, ap |-> {}] \in Clients
      BY <1>0, <2>a, NameType DEF Clients
    <3> QED
      BY <1>6, <3>1 DEF StartEchoClient
  <2>d. faults' \in 0 .. MaxFaults
    BY <1>f, <1>6 DEF StartEchoClient
  <2>1. TestbedTypeOK'
    BY <1>6, <2>c, <2>d DEF StartEchoClient
  <2>u. UNCHANGED <<run, n_tdma_values>> /\ Orchestrating
    BY <1>6 DEF StartEchoClient
  <2>2. PlaceOK'
    BY <2>b, <2>u, PlaceKept
  <2>3. RowsOK'
    BY <1>0, <1>f, <1>6, Constants, NameType DEF StartEchoClient, EachStation, Clients
  <2> QED
    BY <2>1, <2>2, <2>3
<1>7. CASE Wait /\ UNCHANGED sweepVars
  <2>1. TestbedTypeOK'
    BY <1>0, <1>f, <1>7, Constants DEF Wait
  <2>2. PlaceOK'
    BY <1>0, <1>f, <1>7, Constants DEF Wait
  <2>3. RowsOK'
    BY <1>0, <1>f, <1>7, Constants DEF Wait
  <2> QED
    BY <2>1, <2>2, <2>3
<1>8. CASE Collect /\ UNCHANGED sweepVars
  <2>a. idx \in Stations /\ echo_sta(idx, repeat) \in LogNames
    BY <1>0, <1>f, <1>8, NameType DEF Collect
  <2>b. idx' \in Stations /\ pc' \in {"collect", "cleanup"}
    BY <1>8, <2>a, NextStation DEF Collect
  <2>c. /\ faults' \in 0 .. MaxFaults
        /\ local' \in [LogNames -> Logs \cup {NoLog}]
    BY <1>0, <1>f, <1>8, <2>a DEF Collect, Copy, CopyFails
  <2>d. all_results' \subseteq Rows
    <3>1. CASE Copy(echo_sta(idx, repeat)) /\ Record(local'[echo_sta(idx, repeat)])
      <4>1. local'[echo_sta(idx, repeat)] \in Logs
        BY <3>1, <2>a DEF Copy
      <4> QED
        BY <3>1, <4>1, <2>a, <1>0 DEF Record, Rows
    <3> QED
      BY <1>8, <3>1 DEF Collect
  <2>1. TestbedTypeOK'
    BY <1>8, <2>c DEF Collect
  <2>u. UNCHANGED <<run, n_tdma_values>> /\ Orchestrating
    BY <1>8 DEF Collect
  <2>2. PlaceOK'
    BY <2>b, <2>u, PlaceKept
  <2>3. RowsOK'
    BY <1>8, <2>d DEF Collect
  <2> QED
    BY <2>1, <2>2, <2>3
<1>9. CASE CleanupAp /\ UNCHANGED sweepVars
  <2>a. echo' \subseteq Stations /\ tdma_up' \in BOOLEAN
    BY <1>9 DEF CleanupAp
  <2>b. faults' \in 0 .. MaxFaults
    BY <1>f, <1>9 DEF CleanupAp
  <2>c. tdma_clients' \subseteq TdmaClients
    <3>1. tdma_clients \in SUBSET TdmaClients
      OBVIOUS
    <3> QED
      BY <1>9, <3>1, TdmaClientsType DEF CleanupAp
  <2>1. TestbedTypeOK'
    BY <1>9, <2>a, <2>b, <2>c DEF CleanupAp
  <2>2. PlaceOK'
    BY <1>0, <1>f, <1>9, Constants DEF CleanupAp
  <2>3. RowsOK'
    BY <1>0, <1>f, <1>9, Constants DEF CleanupAp
  <2> QED
    BY <2>1, <2>2, <2>3
<1>10. CASE CleanupSta /\ UNCHANGED sweepVars
  <2> DEFINE here == {c \in clients : c.sta = idx}
             last == idx + 1 = num_stas /\ repeat = repeats
  <2>a. idx \in Stations
    BY <1>10 DEF CleanupSta
  <2>b. idx' \in Stations /\ pc' \in {"cleanup_sta", "save", "configure"}
    BY <1>10, <2>a, NextStation DEF CleanupSta
  <2>c. Late(here) \subseteq Clients
    BY LateType
  <2>d. clients' \subseteq Clients
    BY <1>10, <2>c DEF CleanupSta
  <2>f. faults' \in 0 .. MaxFaults
    BY <1>f, <1>10 DEF CleanupSta
  <2>e. repeat' \in 1 .. repeats
    BY <1>0, <1>f, <1>10 DEF CleanupSta
  <2>1. TestbedTypeOK'
    BY <1>10, <2>d, <2>e, <2>f DEF CleanupSta
  <2>u. UNCHANGED <<run, n_tdma_values>> /\ Orchestrating
    BY <1>10 DEF CleanupSta
  <2>2. PlaceOK'
    BY <2>b, <2>u, PlaceKept
  <2>3. RowsOK'
    BY <1>0, <1>f, <1>10, Constants, LateType DEF CleanupSta, EachStation
  <2> QED
    BY <2>1, <2>2, <2>3
<1>11. CASE SaveResults /\ UNCHANGED sweepVars
  <2>1. TestbedTypeOK'
    BY <1>0, <1>f, <1>11, Constants DEF SaveResults, End
  <2>2. PlaceOK'
    BY <1>0, <1>f, <1>11, Constants DEF SaveResults, End
  <2>3. RowsOK'
    BY <1>0, <1>f, <1>11, Constants DEF SaveResults, End
  <2> QED
    BY <2>1, <2>2, <2>3
<1>12. CASE SweepConfigure /\ UNCHANGED orchestratorVars
  <2>a. /\ ap_slots(n_tdma) \subseteq Session1 /\ n_tdma \in Nat
    BY <1>12, Values DEF SweepConfigure, n_tdma
  <2>b. dev' \in [Boards -> SUBSET DriverBits]
    BY <1>12, <2>a, SweptBits DEF SweepConfigure
  <2>c. faults' \in 0 .. MaxFaults
    BY <1>f, <1>12 DEF SweepConfigure
  <2>d. clients' \subseteq Clients
    <3>1. dev'[AP] \in SUBSET DriverBits
      BY <2>b, Constants
    <3>2. clients \in SUBSET Clients
      OBVIOUS
    <3> QED
      BY <1>12, <3>1, <3>2, SeeApType DEF SweepConfigure
  <2>e. n_tdma \in Ids
    BY <1>12, Values DEF SweepConfigure, n_tdma
  <2>1. TestbedTypeOK'
    BY <1>0, <1>f, <1>12, <2>b, <2>c, <2>d DEF SweepConfigure
  <2>2. PlaceOK'
    BY <1>0, <1>f, <1>12, Constants, Values, SweptBits DEF SweepConfigure, n_tdma
  <2>3. RowsOK'
    BY <1>12, <2>e DEF SweepConfigure
  <2> QED
    BY <2>1, <2>2, <2>3
<1>13. CASE SweepRaises /\ UNCHANGED orchestratorVars
  <2>1. TestbedTypeOK'
    BY <1>0, <1>f, <1>13, Constants DEF SweepRaises, End
  <2>2. PlaceOK'
    BY <1>0, <1>f, <1>13, Constants DEF SweepRaises, End
  <2>3. RowsOK'
    BY <1>0, <1>f, <1>13, Constants DEF SweepRaises, End
  <2> QED
    BY <2>1, <2>2, <2>3
<1>14. CASE SweepMeasure /\ UNCHANGED orchestratorVars
  <2> DEFINE f == echo_n(n_tdma, repeat)
  <2>a. f \in LogNames /\ run \in 1 .. MaxRepeats
    BY <1>0, <1>f, <1>14, Values, NameType DEF SweepMeasure, n_tdma
  <2>h. {dev[AP]} \in SUBSET (SUBSET DriverBits)
    BY Constants
  <2>b. \A lost \in 0 .. Slack : [by |-> run, lost |-> lost, ap |-> {dev[AP]}] \in Logs
    BY <2>a, <2>h, TestbedAssumption DEF Logs
  <2> HIDE DEF f
  <2>c. remote' \in [LogNames -> Logs \cup {NoLog}]
    BY <1>14, <2>b DEF SweepMeasure, f
  <2>d. wrote' \subseteq [log : LogNames, by : 1 .. MaxRepeats]
    BY <1>14, <2>a DEF SweepMeasure, f
  <2>e. clients' \subseteq Clients
    <3>1. [sta |-> 0, log |-> f, by |-> run,
           starved |-> 0 \notin echo, late |-> TRUE, ap |-> {dev[AP]}] \in Clients
      BY <2>a, <2>h, Constants DEF Clients
    <3> QED
      BY <1>14, <3>1 DEF SweepMeasure, f
  <2>g. faults' \in 0 .. MaxFaults
    BY <1>f, <1>14 DEF SweepMeasure
  <2>1. TestbedTypeOK'
    BY <1>14, <2>c, <2>d, <2>e, <2>g DEF SweepMeasure
  <2>2. PlaceOK'
    BY <1>0, <1>f, <1>14, Constants, Values, NameType DEF SweepMeasure, n_tdma, Clients, Logs
  <2>3. RowsOK'
    BY <1>0, <1>f, <1>14, Constants, Values, NameType DEF SweepMeasure, n_tdma, Clients, Logs
  <2> QED
    BY <2>1, <2>2, <2>3
<1>15. CASE SweepParse /\ UNCHANGED orchestratorVars
  <2> DEFINE f == echo_n(n_tdma, repeat)
  <2>a. f \in LogNames /\ n_tdma \in Ids /\ idx \in 1 .. Len(n_tdma_values)
    BY <1>0, <1>f, <1>15, Values, NameType DEF SweepParse, n_tdma
  <2>b. repeat' \in 1 .. repeats
    BY <1>0, <1>f, <1>15 DEF SweepParse, NextMeasurement
  <2> HIDE DEF f
  <2>c. /\ faults' \in 0 .. MaxFaults
        /\ local' \in [LogNames -> Logs \cup {NoLog}]
    BY <1>0, <1>f, <1>15, <2>a DEF SweepParse, Copy, CopyFails, f
  <2>d. results' \subseteq SweepRows
    <3>1. CASE local'[f] # NoLog /\ Measured(local'[f])
      <4>1. local'[f] \in Logs
        BY <3>1, <2>a, <2>c
      <4> QED
        BY <3>1, <4>1, <2>a, <1>0 DEF Measured, SweepRows
    <3> QED
      BY <1>15, <3>1 DEF SweepParse, f
  <2>1. TestbedTypeOK'
    BY <1>15, <2>b, <2>c DEF SweepParse
  <2>2. PlaceOK'
    BY <1>0, <1>f, <1>15, Constants, Values, NameType DEF SweepParse, Copy, CopyFails, Measured, NextMeasurement, n_tdma, SweepRows
  <2>3. RowsOK'
    BY <1>15, <2>d DEF SweepParse
  <2> QED
    BY <2>1, <2>2, <2>3
<1>16. CASE SweepSave /\ UNCHANGED orchestratorVars
  <2>1. TestbedTypeOK'
    BY <1>0, <1>f, <1>16, Constants DEF SweepSave, End
  <2>2. PlaceOK'
    BY <1>0, <1>f, <1>16, Constants DEF SweepSave, End
  <2>3. RowsOK'
    BY <1>0, <1>f, <1>16, Constants DEF SweepSave, End
  <2> QED
    BY <2>1, <2>2, <2>3
<1>17. CASE Interrupt /\ UNCHANGED <<orchestratorVars, sweepVars>>
  <2>a. faults' \in 0 .. MaxFaults
    BY <1>f, <1>17 DEF Interrupt
  <2>b. tdma_clients' \subseteq TdmaClients
    <3>1. tdma_clients \in SUBSET TdmaClients
      OBVIOUS
    <3> QED
      BY <1>17, <2>a, <3>1, TdmaClientsType DEF Interrupt
  <2>1. TestbedTypeOK'
    BY <1>0, <1>17, <2>a, <2>b, Constants, LateType DEF Interrupt, End
  <2>2. PlaceOK' /\ RowsOK'
    BY <1>0, <1>f, <1>17, Constants, LateType DEF Interrupt, End
  <2> QED
    BY <2>1, <2>2
<1>18. ASSUME NEW c \in tdma_clients, LateConnect(c) \/ LateWrite(c),
             UNCHANGED <<orchestratorVars, sweepVars>>
      PROVE  TypeInv'
  <2>a. c.sta \in Stations /\ c.fault \in 0 .. MaxFaults
    BY DEF TdmaClients
  <2>b. tdma_clients' \subseteq TdmaClients
    BY <1>18, <2>a, ConnectedType DEF LateConnect, LateWrite
  <2>c. next_node_id' \in Nat /\ taken' \in Nat
    BY <1>18 DEF LateConnect, LateWrite, TakeId
  <2>d. /\ dev' \in [Boards -> SUBSET DriverBits]
        /\ number' \in [Stations -> Int]
    BY <1>18, WriteType DEF LateConnect, LateWrite
  <2>e. UNCHANGED <<scriptVars, faults, tdma_up, echoVars, local>>
    BY <1>18 DEF LateConnect, LateWrite
  <2>1. TestbedTypeOK'
    BY <2>b, <2>c, <2>d, <2>e
  <2>2. PlaceOK' /\ RowsOK'
    BY <1>18, <2>e
  <2> QED
    BY <2>1, <2>2
<1>19. ASSUME NEW c \in clients, ClientFinishes(c), UNCHANGED <<orchestratorVars, sweepVars>>
      PROVE  TypeInv'
  <2>a. /\ c.log \in LogNames /\ c.by \in 1 .. MaxRepeats
        /\ c.ap \in SUBSET (SUBSET DriverBits)
    BY DEF Clients
  <2>b. \A lost \in Losses(c) : [by |-> c.by, lost |-> lost, ap |-> c.ap] \in Logs
    BY <2>a, TestbedAssumption DEF Losses, Logs
  <2>c. remote' \in [LogNames -> Logs \cup {NoLog}]
    BY <1>19, <2>b DEF ClientFinishes
  <2>d. wrote' \subseteq [log : LogNames, by : 1 .. MaxRepeats]
    BY <1>19, <2>a DEF ClientFinishes
  <2>1. TestbedTypeOK'
    BY <1>19, <2>c, <2>d DEF ClientFinishes
  <2>2. PlaceOK' /\ RowsOK'
    BY <1>0, <1>f, <1>19, Constants DEF ClientFinishes, Losses, Clients, Logs
  <2> QED
    BY <2>1, <2>2
<1>20. ASSUME NEW c \in clients, ClientDies(c), UNCHANGED <<orchestratorVars, sweepVars>>
      PROVE  TypeInv'
  <2>1. TestbedTypeOK'
    BY <1>0, <1>f, <1>20, Constants DEF ClientDies
  <2>2. PlaceOK' /\ RowsOK'
    BY <1>0, <1>f, <1>20, Constants DEF ClientDies
  <2> QED
    BY <2>1, <2>2
<1>21. CASE StartEchoByHand /\ UNCHANGED <<orchestratorVars, sweepVars>>
  <2>1. TestbedTypeOK'
    BY <1>0, <1>f, <1>21, Constants DEF StartEchoByHand
  <2>2. PlaceOK' /\ RowsOK'
    BY <1>0, <1>f, <1>21, Constants DEF StartEchoByHand
  <2> QED
    BY <2>1, <2>2
<1>22. CASE UNCHANGED vars
  BY <1>22 DEF vars, n_tdma
<1> QED
  BY <1>1, <1>2, <1>3, <1>4, <1>5, <1>6, <1>7, <1>8, <1>9, <1>10, <1>11, <1>12, <1>13, <1>14, <1>15, <1>16, <1>17, <1>18, <1>19, <1>20, <1>21, <1>22, <1>23
     DEF Next, Script, Orchestrator, Sweep, Hosts

THEOREM TypeCorrect == Spec => []TypeOK
<1>1. Init => TypeInv
  BY TypeInit
<1>2. TypeInv /\ [Next]_vars => TypeInv'
  BY TypeStep
<1> QED
  BY <1>1, <1>2, TypeInvTypes, PTL DEF Spec

(* ------------------------------ Frame lemmas ---------------------------- *)

(* What a step leaves alone that writes no device and gives no id.          *)
SlotsKept ==
    /\ UNCHANGED <<next_node_id, dev, taken, number>>
    /\ \/ tdma_clients' = tdma_clients /\ (pc = "joined" => UNCHANGED <<pc, idx>>)
       \/ tdma_clients' = Cut(tdma_clients) /\ pc # "joined"
       \/ tdma_clients' = Abandoned(tdma_clients) /\ faults' # 0 /\ pc' = "idle"
    /\ planned' /\ (Preparing' \/ Measuring') /\ pc' # "configure" =>
          /\ planned
          /\ \/ Measuring /\ Measuring'
             \/ Preparing /\ UNCHANGED <<pc, idx>>

LEMMA SlotSteps ==
    ASSUME TypeInv, [Next]_vars
    PROVE  \/ SlotsKept
           \/ ConfigureAp /\ UNCHANGED sweepVars
           \/ (JoinStation \/ JoinWrites) /\ UNCHANGED sweepVars
           \/ /\ \E c \in tdma_clients : LateConnect(c) \/ LateWrite(c)
              /\ UNCHANGED <<orchestratorVars, sweepVars>>
           \/ SweepConfigure /\ UNCHANGED orchestratorVars
<1> USE DEF SlotsKept, scriptVars, argVars, slotVars, echoVars, orchestratorVars,
            sweepVars, Preparing, Measuring
<1>1. CASE StartOrchestrator /\ UNCHANGED sweepVars
  BY <1>1 DEF StartOrchestrator, Begin
<1>2. CASE StartSweep /\ UNCHANGED orchestratorVars
  BY <1>2 DEF StartSweep, Begin
<1>3. CASE StartEchoServer /\ UNCHANGED sweepVars
  BY <1>3 DEF StartEchoServer
<1>4. CASE StartEchoClient /\ UNCHANGED sweepVars
  BY <1>4 DEF StartEchoClient, EachStation
<1>5. CASE Wait /\ UNCHANGED sweepVars
  BY <1>5 DEF Wait
<1>6. CASE Collect /\ UNCHANGED sweepVars
  BY <1>6 DEF Collect, EachStation
<1>7. CASE CleanupAp /\ UNCHANGED sweepVars
  BY <1>7 DEF CleanupAp
<1>8. CASE CleanupSta /\ UNCHANGED sweepVars
  BY <1>8 DEF CleanupSta, EachStation
<1>9. CASE SaveResults /\ UNCHANGED sweepVars
  BY <1>9 DEF SaveResults, End
<1>10. CASE SweepRaises /\ UNCHANGED orchestratorVars
  BY <1>10 DEF SweepRaises, End
<1>11. CASE SweepMeasure /\ UNCHANGED orchestratorVars
  BY <1>11 DEF SweepMeasure
<1>12. CASE SweepParse /\ UNCHANGED orchestratorVars
  BY <1>12 DEF SweepParse, NextMeasurement
<1>13. CASE SweepSave /\ UNCHANGED orchestratorVars
  BY <1>13 DEF SweepSave, End
<1>14. CASE Interrupt /\ UNCHANGED <<orchestratorVars, sweepVars>>
  <2>1. faults' # 0
    BY <1>14 DEF Interrupt, Fails, TypeInv, TestbedTypeOK
  <2> QED
    BY <1>14, <2>1 DEF Interrupt, End
<1>15. ASSUME NEW c \in clients, ClientFinishes(c) \/ ClientDies(c),
             UNCHANGED <<orchestratorVars, sweepVars>>
      PROVE  SlotsKept
  BY <1>15 DEF ClientFinishes, ClientDies
<1>16. CASE StartEchoByHand /\ UNCHANGED <<orchestratorVars, sweepVars>>
  BY <1>16 DEF StartEchoByHand
<1>17. CASE UNCHANGED vars
  BY <1>17 DEF vars, testbedVars
<1> QED
  BY <1>1, <1>2, <1>3, <1>4, <1>5, <1>6, <1>7, <1>8, <1>9, <1>10, <1>11, <1>12, <1>13,
     <1>14, <1>15, <1>16, <1>17 DEF Next, Script, Orchestrator, Sweep, Hosts

(* A TDMA client whose server or ssh goes keeps what it was given.          *)
LEMMA SameClients ==
    ASSUME TypeInv, tdma_clients' \in {tdma_clients, Cut(tdma_clients),
                                       Abandoned(tdma_clients)}
    PROVE  /\ \A d \in tdma_clients' : \E c \in tdma_clients :
                 d.number = c.number /\ d.slots = c.slots
           /\ \A d, e \in tdma_clients' : d # e => \E c, b \in tdma_clients :
                 c # b /\ d.number = c.number /\ e.number = b.number
<1> DEFINE Kept(d, c) == d.number = c.number /\ d.slots = c.slots
<1>1. \A c \in tdma_clients : c \in TdmaClients
  BY DEF TypeInv, TestbedTypeOK
<1>2. CASE tdma_clients' = tdma_clients
  BY <1>2
<1>3. CASE tdma_clients' = Cut(tdma_clients)
  <2> DEFINE g(c) == [c EXCEPT !.cut = TRUE]
  <2>1. \A c \in tdma_clients : Kept(g(c), c)
    BY <1>1 DEF TdmaClients
  <2>2. tdma_clients' = {g(c) : c \in tdma_clients}
    BY <1>3 DEF Cut
  <2> HIDE DEF g
  <2> QED
    BY <2>1, <2>2
<1>4. CASE tdma_clients' = Abandoned(tdma_clients)
  <2> DEFINE g(c) == IF c.fault = 0 THEN [c EXCEPT !.fault = faults'] ELSE c
  <2>1. \A c \in tdma_clients : Kept(g(c), c)
    BY <1>1 DEF TdmaClients
  <2>2. tdma_clients' = {g(c) : c \in tdma_clients}
    BY <1>4 DEF Abandoned
  <2> HIDE DEF g
  <2> QED
    BY <2>1, <2>2
<1> QED
  BY <1>2, <1>3, <1>4

(* The client that the script waits for is of the station that joins, and   *)
(* its server is the one that runs.                                         *)
Awaited(c) == c.fault = 0 => pc = "joined" /\ c.sta = idx /\ c.number # -1 /\ ~c.cut

JoiningInv ==
    /\ \A c \in tdma_clients : Awaited(c)
    /\ \A c, b \in tdma_clients : c.fault = 0 /\ b.fault = 0 => c = b

LEMMA AbandonedHaveFault ==
    ASSUME TypeInv, faults' # 0
    PROVE  \A d \in Abandoned(tdma_clients) : d.fault # 0
  BY DEF Abandoned, TypeInv, TestbedTypeOK, TdmaClients

LEMMA SameFaults ==
    ASSUME TypeInv
    PROVE  /\ \A d \in Cut(tdma_clients) : \E c \in tdma_clients : d.fault = c.fault
           /\ \A d \in Outdated(tdma_clients) : \E c \in tdma_clients : d.fault = c.fault
           /\ \A d \in Outdated(Cut(tdma_clients)) :
                 \E c \in tdma_clients : d.fault = c.fault
           /\ \A d \in Outdated(tdma_clients) \cup Outdated(Cut(tdma_clients)) :
                 d.number = -1
<1>1. tdma_clients \in SUBSET TdmaClients /\ Cut(tdma_clients) \in SUBSET TdmaClients
  BY TdmaClientsType DEF TypeInv, TestbedTypeOK
<1>2. \A cs \in SUBSET TdmaClients :
         \A d \in Outdated(cs) : d.number = -1 /\ \E c \in cs : d.fault = c.fault
  BY DEF Outdated, TdmaClients
<1>3. \A d \in Cut(tdma_clients) : \E c \in tdma_clients : d.fault = c.fault
  BY <1>1 DEF Cut, TdmaClients
<1> QED
  BY <1>1, <1>2, <1>3

(* What the AP is configured to do leaves only clients with a fault.        *)
LEMMA ConfiguredClients ==
    ASSUME TypeInv, JoiningInv, ConfigureAp
    PROVE  \A d \in tdma_clients' : d.number = -1 /\ d.fault # 0
<1>1. /\ pc = "configure"
      /\ tdma_clients' \in {Outdated(tdma_clients), Outdated(Cut(tdma_clients))}
  BY DEF ConfigureAp
<1>2. \A c \in tdma_clients : c.fault # 0
  BY <1>1 DEF JoiningInv, Awaited
<1> QED
  BY <1>1, <1>2, SameFaults

LEMMA JoiningStep == TypeInv /\ JoiningInv /\ [Next]_vars => JoiningInv'
<1> SUFFICES ASSUME TypeInv, JoiningInv, [Next]_vars PROVE JoiningInv'
  OBVIOUS
<1>0. ASSUME \A d \in tdma_clients' : d.fault # 0 PROVE JoiningInv'
  BY <1>0 DEF JoiningInv, Awaited
<1>1. CASE SlotsKept
  <2>1. CASE pc = "joined" /\ UNCHANGED <<pc, idx, tdma_clients>>
    BY <2>1 DEF JoiningInv, Awaited
  <2>2. CASE tdma_clients' = Abandoned(tdma_clients) /\ faults' # 0
    BY <1>0, <2>2, AbandonedHaveFault
  <2>3. CASE pc # "joined" /\ tdma_clients' \in {tdma_clients, Cut(tdma_clients)}
    <3>1. \A c \in tdma_clients : c.fault # 0
      BY <2>3 DEF JoiningInv, Awaited
    <3> QED
      BY <1>0, <2>3, <3>1, SameFaults
  <2> QED
    BY <1>1, <2>1, <2>2, <2>3 DEF SlotsKept
<1>2. CASE ConfigureAp
  BY <1>0, <1>2, ConfiguredClients
<1>3. CASE JoinStation
  <2>1. \A c \in tdma_clients : c.fault # 0
    BY <1>3 DEF JoinStation, JoiningInv, Awaited
  <2>2. CASE /\ tdma_clients' = tdma_clients \cup {Connected(idx, 0)}
             /\ pc' = "joined" /\ UNCHANGED idx
    <3>1. /\ Connected(idx, 0).sta = idx /\ Connected(idx, 0).number = next_node_id
          /\ ~Connected(idx, 0).cut
      BY DEF Connected
    <3>2. next_node_id # -1
      BY DEF TypeInv, TestbedTypeOK
    <3> QED
      BY <2>1, <2>2, <3>1, <3>2 DEF JoiningInv, Awaited
  <2>3. CASE tdma_clients' = tdma_clients
    BY <1>0, <2>1, <2>3
  <2>4. CASE /\ Fails
             /\ tdma_clients' = tdma_clients \cup
                   {[sta |-> idx, fault |-> faults', connected |-> FALSE,
                     slots |-> {}, number |-> -1, cut |-> FALSE]}
    <3>1. faults' # 0
      BY <2>4 DEF Fails, TypeInv, TestbedTypeOK
    <3> QED
      BY <1>0, <2>1, <2>4, <3>1
  <2> QED
    BY <1>3, <2>2, <2>3, <2>4 DEF JoinStation
<1>4. CASE JoinWrites
  <2>1. PICK c \in tdma_clients :
           /\ c.fault = 0
           /\ \/ tdma_clients' = tdma_clients \ {c}
              \/ Fails /\ tdma_clients' = Abandoned(tdma_clients)
    BY <1>4 DEF JoinWrites
  <2>2. CASE tdma_clients' = tdma_clients \ {c}
    BY <1>0, <2>1, <2>2 DEF JoiningInv
  <2>3. CASE Fails /\ tdma_clients' = Abandoned(tdma_clients)
    <3>1. faults' # 0
      BY <2>3 DEF Fails, TypeInv, TestbedTypeOK
    <3> QED
      BY <1>0, <2>3, <3>1, AbandonedHaveFault
  <2> QED
    BY <2>1, <2>2, <2>3
<1>5. ASSUME NEW c \in tdma_clients, LateConnect(c) \/ LateWrite(c) PROVE JoiningInv'
  <2>1. UNCHANGED <<pc, idx>> /\ c.fault # 0
    BY <1>5 DEF LateConnect, LateWrite, scriptVars
  <2>2. Connected(c.sta, c.fault).fault = c.fault
    BY DEF Connected
  <2>3. tdma_clients' \subseteq tdma_clients \cup {Connected(c.sta, c.fault)}
    BY <1>5 DEF LateConnect, LateWrite
  <2> QED
    BY <2>1, <2>2, <2>3 DEF JoiningInv, Awaited
<1>6. CASE SweepConfigure
  <2>1. tdma_clients' = tdma_clients /\ pc # "joined"
    BY <1>6 DEF SweepConfigure
  <2> QED
    BY <1>0, <2>1 DEF JoiningInv, Awaited
<1> QED
  BY <1>1, <1>2, <1>3, <1>4, <1>5, <1>6, SlotSteps

(* -------------------------- Stations served differ ---------------------- *)

(* The numbers of the connections since the AP was configured.              *)
InWindow(n, next, t) == n # -1 => n \in next - t .. next - 1

(* These are all different and lie in a window as long as there were        *)
(* connections, whether the slots are written or still with the client; a   *)
(* device has those of its number or, when the response was cut, none.      *)
SlotInv ==
    /\ taken <= next_node_id
    /\ \A c \in tdma_clients :
          /\ InWindow(c.number, next_node_id, taken)
          /\ c.number # -1 => c.slots = {c.number % num_stas}
    /\ \A s \in Stations :
          /\ InWindow(number[s], next_node_id, taken)
          /\ number[s] # -1 =>
                dev[s] \in {{}, slots_to_bitmap({number[s] % num_stas}, {})}
    /\ \A s, t \in Stations : s # t /\ number[s] # -1 => number[s] # number[t]
    /\ \A c, b \in tdma_clients : c # b /\ c.number # -1 => c.number # b.number
    /\ \A c \in tdma_clients, s \in Stations : c.number # -1 => c.number # number[s]

(* Two numbers less than n apart do not agree modulo n.                     *)
LEMMA Residues ==
    ASSUME NEW n \in Nat \ {0}, NEW a \in Nat, NEW b \in Nat,
           a < b, b - a < n
    PROVE  a % n # b % n
<1> DEFINE qa == a \div n
           qb == b \div n
           ra == a % n
           rb == b % n
<1>1. /\ qa \in Int /\ ra \in Int /\ a = n * qa + ra
      /\ qb \in Int /\ rb \in Int /\ b = n * qb + rb
  OBVIOUS
<1> HIDE DEF qa, qb, ra, rb
<1> SUFFICES ASSUME ra = rb PROVE FALSE
  BY DEF ra, rb
<1>2. b - a = n * (qb - qa)
  BY <1>1
<1>3. CASE qb - qa <= 0
  BY <1>1, <1>2, <1>3
<1>4. CASE qb - qa >= 1
  <2>1. n * (qb - qa) >= n
    BY <1>1, <1>4
  <2> QED
    BY <2>1, <1>2
<1> QED
  BY <1>1, <1>3, <1>4

LEMMA ServedDiffer == TypeInv /\ SlotInv => ServedStationsDiffer
<1> SUFFICES ASSUME TypeInv, SlotInv, taken <= num_stas,
                    NEW s \in Stations, NEW t \in Stations,
                    s # t, number[s] # -1, number[t] # -1
             PROVE  dev[s] \cap dev[t] = {}
  BY DEF ServedStationsDiffer
<1> DEFINE a == number[s]
           b == number[t]
<1>0. taken \in Nat /\ next_node_id \in Nat /\ taken <= next_node_id
  BY DEF SlotInv, TypeInv, TestbedTypeOK
<1>1. /\ a \in Nat /\ b \in Nat /\ a # b
      /\ a - b < num_stas /\ b - a < num_stas
  <2>1. /\ a \in next_node_id - taken .. next_node_id - 1
        /\ b \in next_node_id - taken .. next_node_id - 1
        /\ a # b
    BY DEF SlotInv, InWindow
  <2> HIDE DEF a, b
  <2> QED
    BY <1>0, <2>1, Constants
<1>2. /\ dev[s] \in {{}, slots_to_bitmap({a % num_stas}, {})}
      /\ dev[t] \in {{}, slots_to_bitmap({b % num_stas}, {})}
  BY DEF SlotInv
<1> HIDE DEF a, b
<1>3. a % num_stas # b % num_stas
  <2>1. CASE a < b
    BY <1>1, <2>1, Residues, Constants
  <2>2. CASE b < a
    BY <1>1, <2>2, Residues, Constants
  <2> QED
    BY <1>1, <2>1, <2>2
<1>4. a % num_stas \in Session1 /\ b % num_stas \in Session1
  BY <1>1, Constants, LayoutAssumption DEF Session1
<1>5. SESSION1_DRIVER_OFFSET + (a % num_stas) # SESSION1_DRIVER_OFFSET + (b % num_stas)
  BY <1>3, <1>4, LayoutAssumption DEF Session1
<1> QED
  BY <1>2, <1>4, <1>5, OneSlot

(* Nothing is given and nothing written, and clients that were given        *)
(* something keep it or end.                                                *)
LEMMA SlotOther ==
    ASSUME TypeInv, SlotInv, UNCHANGED <<next_node_id, taken, number>>,
           \A s \in Stations : dev'[s] = dev[s],
           \A d \in tdma_clients' : d \in tdma_clients \/ d.number = -1
    PROVE  SlotInv'
  BY DEF SlotInv, InWindow

LEMMA SlotSame ==
    ASSUME TypeInv, SlotInv, UNCHANGED <<next_node_id, taken, number, dev>>,
           tdma_clients' \in {tdma_clients, Cut(tdma_clients), Abandoned(tdma_clients)}
    PROVE  SlotInv'
<1>1. \A d \in tdma_clients' : \E c \in tdma_clients :
         d.number = c.number /\ d.slots = c.slots
  BY SameClients
<1>2. \A d, e \in tdma_clients' : d # e => \E c, b \in tdma_clients :
         c # b /\ d.number = c.number /\ e.number = b.number
  BY SameClients
<1>3. \A d \in tdma_clients' :
         /\ InWindow(d.number, next_node_id', taken')
         /\ d.number # -1 => d.slots = {d.number % num_stas}
  BY <1>1 DEF SlotInv, InWindow
<1>4. \A d \in tdma_clients', s \in Stations : d.number # -1 => d.number # number'[s]
  BY <1>1 DEF SlotInv
<1>5. \A d, e \in tdma_clients' : d # e /\ d.number # -1 => d.number # e.number
  BY <1>2 DEF SlotInv
<1> QED
  BY <1>3, <1>4, <1>5 DEF SlotInv, InWindow

(* The next number is another than all before and extends the window.       *)
LEMMA SlotConnected ==
    ASSUME TypeInv, SlotInv, NEW s, NEW fault, NEW cs \in SUBSET tdma_clients, TakeId,
           tdma_clients' = cs \cup {Connected(s, fault)}, UNCHANGED <<dev, number>>
    PROVE  SlotInv'
<1> DEFINE new == Connected(s, fault)
<1>1. new.number = next_node_id /\ new.slots = {next_node_id % num_stas}
  BY DEF Connected
<1> HIDE DEF new
<1>2. /\ next_node_id' = next_node_id + 1 /\ taken' = taken + 1
      /\ next_node_id \in Nat /\ taken \in Nat /\ taken <= next_node_id
  BY DEF TakeId, SlotInv, TypeInv, TestbedTypeOK
<1>3. \A n \in Int : InWindow(n, next_node_id, taken) =>
         InWindow(n, next_node_id', taken') /\ n # next_node_id
  BY <1>2 DEF InWindow
<1>4. InWindow(next_node_id, next_node_id', taken')
  BY <1>2 DEF InWindow
<1>5. /\ \A c \in tdma_clients : c.number \in Int
      /\ \A t \in Stations : number[t] \in Int
  BY DEF TypeInv, TestbedTypeOK, TdmaClients
<1>6. \A c \in tdma_clients :
         /\ InWindow(c.number, next_node_id', taken') /\ c.number # next_node_id
         /\ c.number # -1 => c.slots = {c.number % num_stas}
  BY <1>3, <1>5 DEF SlotInv
<1>7. \A t \in Stations :
         /\ InWindow(number[t], next_node_id', taken') /\ number[t] # next_node_id
         /\ number[t] # -1 =>
               dev[t] \in {{}, slots_to_bitmap({number[t] % num_stas}, {})}
  BY <1>3, <1>5 DEF SlotInv
<1>8. tdma_clients' = cs \cup {new}
  BY DEF new
<1>9. \A d \in tdma_clients' :
         /\ InWindow(d.number, next_node_id', taken')
         /\ d.number # -1 => d.slots = {d.number % num_stas}
  BY <1>1, <1>4, <1>6, <1>8
<1>10. \A d, e \in tdma_clients' : d # e /\ d.number # -1 => d.number # e.number
  BY <1>1, <1>6, <1>8 DEF SlotInv
<1>11. \A d \in tdma_clients', t \in Stations : d.number # -1 => d.number # number[t]
  BY <1>1, <1>7, <1>8 DEF SlotInv
<1>12. \A t \in Stations :
          /\ InWindow(number'[t], next_node_id', taken')
          /\ number'[t] # -1 =>
                dev'[t] \in {{}, slots_to_bitmap({number'[t] % num_stas}, {})}
  BY <1>7 DEF InWindow
<1> QED
  BY <1>2, <1>9, <1>10, <1>11, <1>12 DEF SlotInv, InWindow

(* What WriteSlots does to the devices and the numbers.                     *)
LEMMA Written ==
    ASSUME TypeInv, NEW c \in tdma_clients, WriteSlots(c)
    PROVE  /\ c.sta \in Stations /\ dev'[AP] = dev[AP]
           /\ number'[c.sta] = c.number
           /\ dev'[c.sta] \in {{}, slots_to_bitmap(c.slots, {})}
           /\ ~c.cut => dev'[c.sta] = slots_to_bitmap(c.slots, {})
           /\ \A s \in Stations \ {c.sta} : number'[s] = number[s] /\ dev'[s] = dev[s]
<1>1. /\ c.sta \in Stations
      /\ dev \in [Boards -> SUBSET DriverBits] /\ number \in [Stations -> Int]
  BY DEF TypeInv, TestbedTypeOK, TdmaClients
<1>2. PICK slots \in {c.slots} \cup (IF c.cut THEN {{}} ELSE {}) :
         dev' = [dev EXCEPT ![c.sta] = slots_to_bitmap(slots, {})]
  BY DEF WriteSlots
<1>3. number' = [number EXCEPT ![c.sta] = c.number]
  BY DEF WriteSlots
<1>4. slots_to_bitmap({}, {}) = {}
  BY DEF slots_to_bitmap
<1>5. dev'[c.sta] = slots_to_bitmap(slots, {})
  BY <1>1, <1>2, Constants
<1>6. slots \in {c.slots, {}} /\ (~c.cut => slots = c.slots)
  OBVIOUS
<1>7. /\ dev'[c.sta] \in {{}, slots_to_bitmap(c.slots, {})}
      /\ ~c.cut => dev'[c.sta] = slots_to_bitmap(c.slots, {})
  BY <1>4, <1>5, <1>6
<1>8. /\ dev'[AP] = dev[AP]
      /\ \A s \in Stations \ {c.sta} : dev'[s] = dev[s]
  BY <1>1, <1>2, Constants
<1>9. /\ number'[c.sta] = c.number
      /\ \A s \in Stations \ {c.sta} : number'[s] = number[s]
  BY <1>1, <1>3
<1> QED
  BY <1>1, <1>7, <1>8, <1>9

(* A number goes from its client to the client's station.                   *)
LEMMA SlotWritten ==
    ASSUME TypeInv, SlotInv, NEW c \in tdma_clients, WriteSlots(c),
           tdma_clients' = tdma_clients \ {c}, UNCHANGED <<next_node_id, taken>>
    PROVE  SlotInv'
<1>1. /\ c.sta \in Stations /\ number'[c.sta] = c.number
      /\ dev'[c.sta] \in {{}, slots_to_bitmap(c.slots, {})}
      /\ \A s \in Stations \ {c.sta} : number'[s] = number[s] /\ dev'[s] = dev[s]
  BY Written
<1>2. /\ InWindow(c.number, next_node_id, taken)
      /\ c.number # -1 => c.slots = {c.number % num_stas}
  BY DEF SlotInv
<1>3. \A s \in Stations :
         /\ InWindow(number'[s], next_node_id, taken)
         /\ number'[s] # -1 =>
               dev'[s] \in {{}, slots_to_bitmap({number'[s] % num_stas}, {})}
  <2> SUFFICES ASSUME NEW s \in Stations
               PROVE  /\ InWindow(number'[s], next_node_id, taken)
                      /\ number'[s] # -1 =>
                            dev'[s] \in {{}, slots_to_bitmap({number'[s] % num_stas}, {})}
    OBVIOUS
  <2>1. CASE s = c.sta
    BY <1>1, <1>2, <2>1
  <2>2. CASE s # c.sta
    <3>1. number'[s] = number[s] /\ dev'[s] = dev[s]
      BY <1>1, <2>2
    <3> QED
      BY <3>1 DEF SlotInv
  <2> QED
    BY <2>1, <2>2
<1>4. \A s, t \in Stations : s # t /\ number'[s] # -1 => number'[s] # number'[t]
  BY <1>1 DEF SlotInv
<1>5. \A b \in tdma_clients', s \in Stations : b.number # -1 => b.number # number'[s]
  BY <1>1 DEF SlotInv
<1> QED
  BY <1>3, <1>4, <1>5 DEF SlotInv, InWindow

LEMMA SlotStep == TypeInv /\ JoiningInv /\ SlotInv /\ [Next]_vars => SlotInv'
<1> SUFFICES ASSUME TypeInv, JoiningInv, SlotInv, [Next]_vars PROVE SlotInv'
  OBVIOUS
<1>1. CASE SlotsKept
  BY <1>1, SlotSame DEF SlotsKept
<1>2. CASE ConfigureAp
  <2>1. /\ taken' = 0 /\ number' = [s \in Stations |-> -1]
        /\ next_node_id' \in {0, next_node_id}
    BY <1>2 DEF ConfigureAp, AfterConfigure
  <2>2. \A d \in tdma_clients' : d.number = -1
    BY <1>2, ConfiguredClients
  <2>3. taken' <= next_node_id'
    BY <2>1 DEF TypeInv, TestbedTypeOK
  <2>4. \A s \in Stations : number'[s] = -1
    BY <2>1
  <2> QED
    BY <2>2, <2>3, <2>4 DEF SlotInv, InWindow
<1>3. CASE JoinStation
  <2>1. CASE /\ TakeId /\ UNCHANGED <<dev, number>>
             /\ tdma_clients' = tdma_clients \cup {Connected(idx, 0)}
    BY <2>1, SlotConnected
  <2>2. CASE /\ UNCHANGED <<next_node_id, taken, dev, number>>
             /\ \/ tdma_clients' = tdma_clients
                \/ tdma_clients' = tdma_clients \cup
                      {[sta |-> idx, fault |-> faults', connected |-> FALSE,
                        slots |-> {}, number |-> -1, cut |-> FALSE]}
    BY <2>2, SlotOther
  <2> QED
    BY <1>3, <2>1, <2>2 DEF JoinStation
<1>4. CASE JoinWrites
  <2>1. PICK c \in tdma_clients :
           \/ WriteSlots(c) /\ tdma_clients' = tdma_clients \ {c}
           \/ /\ tdma_clients' \in {tdma_clients \ {c}, Abandoned(tdma_clients)}
              /\ UNCHANGED <<dev, number>>
    BY <1>4 DEF JoinWrites
  <2>2. UNCHANGED <<next_node_id, taken>>
    BY <1>4 DEF JoinWrites
  <2>3. CASE WriteSlots(c) /\ tdma_clients' = tdma_clients \ {c}
    BY <2>2, <2>3, SlotWritten
  <2>4. CASE tdma_clients' = tdma_clients \ {c} /\ UNCHANGED <<dev, number>>
    BY <2>2, <2>4, SlotOther
  <2>5. CASE tdma_clients' = Abandoned(tdma_clients) /\ UNCHANGED <<dev, number>>
    BY <2>2, <2>5, SlotSame
  <2> QED
    BY <2>1, <2>3, <2>4, <2>5
<1>5. ASSUME NEW c \in tdma_clients, LateConnect(c) \/ LateWrite(c) PROVE SlotInv'
  <2>1. CASE LateConnect(c)
    <3>1. tdma_clients \ {c} \in SUBSET tdma_clients
      OBVIOUS
    <3> QED
      BY <2>1, <3>1, SlotConnected DEF LateConnect
  <2>2. CASE LateWrite(c)
    BY <2>2, SlotWritten DEF LateWrite
  <2> QED
    BY <1>5, <2>1, <2>2
<1>6. CASE SweepConfigure
  <2>1. /\ UNCHANGED <<next_node_id, taken, number, tdma_clients>>
        /\ \A s \in Stations : dev'[s] = dev[s]
    BY <1>6, Constants DEF SweepConfigure, TypeInv, TestbedTypeOK
  <2> QED
    BY <2>1, SlotOther
<1> QED
  BY <1>1, <1>2, <1>3, <1>4, <1>5, <1>6, SlotSteps

(* ------------------------------ Plan in force --------------------------- *)

(* While nothing failed every station's turn took an id, from a server that *)
(* began with 0; as long as nobody else took one, station i got id i, and   *)
(* only the client that the script waits for has slots still to write.      *)
PlanInv ==
    planned /\ (Preparing \/ Measuring) /\ pc # "configure" =>
        /\ dev[AP] = {}
        /\ next_node_id = taken /\ taken >= Served
        /\ taken = Served =>
              /\ \A s \in Stations : s < Joined /\ number[s] # -1 =>
                    dev[s] = slots_to_bitmap({s}, {})
              /\ \A c \in tdma_clients : c.number # -1 => c.fault = 0 /\ c.number = idx

LEMMA PlanHolds == TypeInv /\ PlanInv => PlanInForce
<1> SUFFICES ASSUME TypeInv, PlanInv, planned, Preparing \/ Measuring, pc # "configure"
             PROVE  /\ dev[AP] = {}
                    /\ taken = Served => \A s \in 0 .. Joined - 1 :
                          number[s] # -1 => dev[s] = slots_to_bitmap({s}, {})
  BY DEF PlanInForce
<1>1. Joined \in Nat /\ Joined <= num_stas
  BY Constants DEF Joined, TypeInv, PlaceOK, Orchestrating, Sweeping, Preparing,
                   Measuring, Stations
<1>2. \A s \in 0 .. Joined - 1 : s \in Stations /\ s < Joined
  BY <1>1, Constants DEF Stations
<1> QED
  BY <1>2 DEF PlanInv

LEMMA PlanPlace ==
    ASSUME TypeInv, Preparing \/ Measuring
    PROVE  /\ idx \in Stations /\ idx \in Nat /\ idx < num_stas /\ num_stas \in Nat
           /\ Joined \in Nat /\ Served \in Nat
           /\ next_node_id \in Nat /\ taken \in Nat
<1>1. idx \in Stations
  BY DEF TypeInv, PlaceOK, Orchestrating, Sweeping, Preparing, Measuring
<1>2. idx \in Nat /\ idx < num_stas /\ num_stas \in Nat
  BY <1>1, Constants, TestbedAssumption DEF Stations
<1> QED
  BY <1>1, <1>2 DEF Joined, Served, TypeInv, TestbedTypeOK

LEMMA PlanStep ==
    TypeInv /\ JoiningInv /\ SlotInv /\ PlanInv /\ [Next]_vars => PlanInv'
<1> SUFFICES ASSUME TypeInv, JoiningInv, SlotInv, PlanInv, [Next]_vars,
                    planned', Preparing' \/ Measuring', pc' # "configure"
             PROVE  /\ dev'[AP] = {}
                    /\ next_node_id' = taken' /\ taken' >= Served'
                    /\ taken' = Served' =>
                          /\ \A s \in Stations : s < Joined' /\ number'[s] # -1 =>
                                dev'[s] = slots_to_bitmap({s}, {})
                          /\ \A c \in tdma_clients' :
                                c.number # -1 => c.fault = 0 /\ c.number = idx'
  BY DEF PlanInv
<1>1. CASE SlotsKept
  <2>1. planned /\ pc # "configure" /\ (Preparing \/ Measuring)
    BY <1>1 DEF SlotsKept, Preparing, Measuring
  <2>2. Joined' = Joined /\ Served' = Served
    BY <1>1 DEF SlotsKept, Joined, Served, Preparing, Measuring
  <2>3. UNCHANGED <<dev, next_node_id, taken, number>>
    BY <1>1 DEF SlotsKept
  <2>4. ASSUME taken = Served, NEW d \in tdma_clients', d.number # -1
        PROVE  d.fault = 0 /\ d.number = idx'
    <3>1. PICK c \in tdma_clients : d.number = c.number
      BY <1>1, SameClients DEF SlotsKept
    <3>2. c.fault = 0
      BY <2>1, <2>4, <3>1 DEF PlanInv
    <3>3. pc = "joined"
      BY <3>2 DEF JoiningInv, Awaited
    <3>4. UNCHANGED <<pc, idx>>
      BY <1>1, <3>3 DEF SlotsKept, Preparing, Measuring
    <3>5. CASE tdma_clients' = tdma_clients
      BY <2>1, <2>4, <3>4, <3>5 DEF PlanInv
    <3>6. tdma_clients' = tdma_clients
      BY <1>1, <3>3, <3>4 DEF SlotsKept
    <3> QED
      BY <3>5, <3>6
  <2> QED
    BY <2>1, <2>2, <2>3, <2>4 DEF PlanInv
<1>2. CASE ConfigureAp
  <2>1. /\ dev' = [dev EXCEPT ![AP] = slots_to_bitmap({}, {})]
        /\ next_node_id' = 0
    BY <1>2 DEF ConfigureAp
  <2>2. dev'[AP] = {}
    BY <2>1, Constants DEF slots_to_bitmap, TypeInv, TestbedTypeOK
  <2>3. taken' = 0 /\ pc' = "join" /\ idx' = 0
    BY <1>2 DEF ConfigureAp, AfterConfigure
  <2>4. Joined' = 0 /\ Served' = 0
    BY <2>3 DEF Joined, Served, Measuring, Preparing
  <2>5. \A d \in tdma_clients' : d.number = -1
    BY <1>2, ConfiguredClients
  <2> QED
    BY <2>1, <2>2, <2>3, <2>4, <2>5, Constants
<1>3. CASE JoinStation
  <2>1. /\ pc = "join" /\ pc' = "joined" /\ idx' = idx /\ TakeId /\ planned
        /\ tdma_clients' = tdma_clients \cup {Connected(idx, 0)}
        /\ UNCHANGED <<dev, number>>
    BY <1>3 DEF JoinStation
  <2>2. idx \in Nat /\ next_node_id \in Nat /\ taken \in Nat
    BY <2>1, PlanPlace DEF Preparing
  <2>3. Joined = idx /\ Served = idx /\ Joined' = idx /\ Served' = idx + 1
    BY <2>1 DEF Joined, Served, Measuring, Preparing
  <2>4. /\ dev[AP] = {} /\ next_node_id = taken /\ taken >= idx
        /\ taken = idx =>
              /\ \A s \in Stations : s < idx /\ number[s] # -1 =>
                    dev[s] = slots_to_bitmap({s}, {})
              /\ \A c \in tdma_clients : c.number # -1 => c.fault = 0
    BY <2>1, <2>3 DEF PlanInv, Preparing
  <2>5. next_node_id' = next_node_id + 1 /\ taken' = taken + 1
    BY <2>1 DEF TakeId
  <2>6. \A c \in tdma_clients : c.fault # 0
    BY <2>1 DEF JoiningInv, Awaited
  <2>7. Connected(idx, 0).fault = 0 /\ Connected(idx, 0).number = next_node_id
    BY DEF Connected
  <2> QED
    BY <2>1, <2>2, <2>3, <2>4, <2>5, <2>6, <2>7
<1>4. CASE JoinWrites
  <2>1. PICK c \in tdma_clients :
           /\ c.fault = 0 /\ WriteSlots(c) /\ tdma_clients' = tdma_clients \ {c}
    BY <1>4 DEF JoinWrites
  <2>2. /\ pc = "joined" /\ planned /\ EachStation("join", "server")
        /\ UNCHANGED <<next_node_id, taken>>
    BY <1>4 DEF JoinWrites
  <2>3. /\ idx \in Stations /\ idx \in Nat /\ idx < num_stas /\ num_stas \in Nat
        /\ taken \in Nat
    BY <2>2, PlanPlace DEF Preparing
  <2>4. Joined = idx /\ Served = idx + 1 /\ Joined' = idx + 1 /\ Served' = idx + 1
    BY <2>2, <2>3 DEF Joined, Served, Measuring, Preparing, EachStation
  <2>5. /\ dev[AP] = {} /\ next_node_id = taken /\ taken >= idx + 1
        /\ taken = idx + 1 =>
              /\ \A s \in Stations : s < idx /\ number[s] # -1 =>
                    dev[s] = slots_to_bitmap({s}, {})
              /\ \A b \in tdma_clients : b.number # -1 => b.number = idx
    BY <2>2, <2>4 DEF PlanInv, Preparing
  <2>6. c.sta = idx /\ c.number # -1 /\ ~c.cut
    BY <2>1 DEF JoiningInv, Awaited
  <2>7. /\ dev'[AP] = dev[AP]
        /\ dev'[idx] = slots_to_bitmap(c.slots, {})
        /\ \A s \in Stations \ {idx} : number'[s] = number[s] /\ dev'[s] = dev[s]
    BY <2>1, <2>6, Written
  <2>8. ASSUME taken = idx + 1, NEW s \in Stations, s < idx + 1, number'[s] # -1
        PROVE  dev'[s] = slots_to_bitmap({s}, {})
    <3>1. CASE s = idx
      <4>1. c.number = idx
        BY <2>5, <2>6, <2>8
      <4>2. c.slots = {idx % num_stas}
        BY <2>6, <4>1 DEF SlotInv
      <4>3. idx % num_stas = idx
        BY <2>3
      <4> QED
        BY <2>7, <3>1, <4>2, <4>3
    <3>2. CASE s # idx
      <4>1. s < idx
        BY <2>3, <2>8, <3>2, Constants
      <4>2. number'[s] = number[s] /\ dev'[s] = dev[s]
        BY <2>7, <3>2
      <4> QED
        BY <2>5, <2>8, <4>1, <4>2
    <3> QED
      BY <3>1, <3>2
  <2>9. ASSUME taken = idx + 1, NEW b \in tdma_clients' PROVE b.number = -1
    BY <2>1, <2>5, <2>6, <2>9 DEF SlotInv
  <2> QED
    BY <2>2, <2>4, <2>5, <2>7, <2>8, <2>9
<1>5. CASE /\ \E c \in tdma_clients : LateConnect(c) \/ LateWrite(c)
           /\ UNCHANGED <<orchestratorVars, sweepVars>>
  <2> PICK c \in tdma_clients : LateConnect(c) \/ LateWrite(c)
    BY <1>5
  <2>1. UNCHANGED <<pc, idx, planned>> /\ c.fault # 0
    BY <1>5 DEF LateConnect, LateWrite, scriptVars, orchestratorVars
  <2>2. planned /\ pc # "configure" /\ (Preparing \/ Measuring)
    BY <2>1 DEF Preparing, Measuring
  <2>3. Joined' = Joined /\ Served' = Served
    BY <2>1 DEF Joined, Served, Measuring, Preparing
  <2>4. Served \in Nat /\ next_node_id \in Nat /\ taken \in Nat
    BY <2>2, PlanPlace
  <2>5. CASE LateConnect(c)
    <3>1. /\ next_node_id' = next_node_id + 1 /\ taken' = taken + 1 /\ dev' = dev
      BY <2>5 DEF LateConnect, TakeId
    <3> QED
      BY <2>2, <2>3, <2>4, <3>1 DEF PlanInv
  <2>6. CASE LateWrite(c)
    <3>1. /\ UNCHANGED <<next_node_id, taken>> /\ WriteSlots(c)
          /\ tdma_clients' = tdma_clients \ {c}
      BY <2>6 DEF LateWrite
    <3>2. taken = Served => c.number = -1
      BY <2>1, <2>2 DEF PlanInv
    <3>3. /\ dev'[AP] = dev[AP] /\ number'[c.sta] = c.number
          /\ \A s \in Stations \ {c.sta} : number'[s] = number[s] /\ dev'[s] = dev[s]
      BY <3>1, Written
    <3> QED
      BY <2>1, <2>2, <2>3, <3>1, <3>2, <3>3 DEF PlanInv
  <2> QED
    BY <2>5, <2>6
<1>6. CASE SweepConfigure
  BY <1>6 DEF SweepConfigure, Preparing, Measuring
<1> QED
  BY <1>1, <1>2, <1>3, <1>4, <1>5, <1>6, SlotSteps

(* --------------------------- The frames' capacity ----------------------- *)

LEMMA CapacityTight == TypeInv => NMaxIsTight
<1> SUFFICES ASSUME TypeInv, Sweeping, NEW f \in Frames, NEW p \in {30, 50}
             PROVE  /\ n_tdma > n_max(f, p) => ~Preserves(f, n_tdma, p)
                    /\ Room(f, p) >= 0 =>
                          (n_tdma <= n_max(f, p) <=> Preserves(f, n_tdma, p))
  BY DEF NMaxIsTight
<1>1. n_tdma \in Nat
  BY Values DEF TypeInv, PlaceOK, n_tdma
<1>2. IsFrame(f) /\ p \in 0 .. 100
  BY FramesAssumption
<1> QED
  BY <1>1, <1>2, NMaxTight

(* ------------------------ One station per repeat ------------------------ *)

(* No client, log or row is of a run that has not started.                  *)
LogInv ==
    /\ \A c \in clients : c.by <= run
    /\ \A f \in LogNames : remote[f] # NoLog => remote[f].by <= run
    /\ \A row \in all_results : row.log.by <= run

(* A client of the run is of a repeat so far, of an earlier one if late.    *)
ClientOfRun(c) ==
    c.by = run =>
       /\ c.log = echo_sta(c.sta, c.log.repeat)
       /\ c.log.repeat <= repeat
       /\ c.late /\ pc \notin {"cleanup_sta", "save"} => c.log.repeat < repeat

(* One that is not late is of this repeat, and not cleaned up yet.          *)
ClientInTime(c) ==
    ~c.late => /\ c.by = run /\ Measuring
               /\ pc \in {"cleanup", "cleanup_sta"} => c.sta >= idx

ClientInv == \A c \in clients : IF Orchestrating
                                THEN ClientOfRun(c) /\ ClientInTime(c)
                                ELSE c.late

(* At most one echo server is alive, and while a repeat is measured only    *)
(* the clients of its station may be done in time.                          *)
ServerInv ==
    /\ \A x, y \in echo : x = y
    /\ pc \in {"server", "client", "wait", "collect"} =>
          \A c \in clients : ~c.late /\ ~c.starved => c.sta \in echo

(* Hence only that station has a log of this repeat when it is collected.   *)
RemoteOfRun(s, r) ==
    remote[echo_sta(s, r)] # NoLog /\ remote[echo_sta(s, r)].by = run =>
       /\ r <= repeat
       /\ Preparing \/ pc \in {"server", "client"} => r < repeat
       /\ pc \in {"wait", "collect"} /\ r = repeat => s \in echo

RemoteInv ==
    Orchestrating => \A s \in Stations, r \in 1 .. MaxRepeats : RemoteOfRun(s, r)

RowOfRun(row) ==
    /\ row.repeat <= repeat
    /\ Preparing \/ pc \in {"server", "client", "wait"} => row.repeat < repeat
    /\ pc = "collect" /\ row.repeat = repeat /\ row.log.by = run =>
          row.station \in echo

RowInv ==
    /\ OneStationPerRepeat
    /\ Orchestrating => \A row \in all_results : RowOfRun(row)

EchoInv == LogInv /\ ClientInv /\ ServerInv /\ RemoteInv /\ RowInv

(* A client that has seen more of the AP's device, and is the same besides. *)
LEMMA SeenClients ==
    ASSUME TypeInv, NEW d \in SeeAp(clients)
    PROVE  \E c \in clients :
              /\ d.sta = c.sta /\ d.log = c.log /\ d.by = c.by
              /\ d.starved = c.starved /\ d.late = c.late /\ c.ap \subseteq d.ap
<1>1. PICK c \in clients :
         d = IF c.log.kind = "n" THEN [c EXCEPT !.ap = @ \cup {dev'[AP]}] ELSE c
  BY DEF SeeAp
<1>2. c \in Clients
  BY DEF TypeInv, TestbedTypeOK
<1>3. /\ d.sta = c.sta /\ d.log = c.log /\ d.by = c.by
      /\ d.starved = c.starved /\ d.late = c.late
  BY <1>1, <1>2 DEF Clients
<1>4. c.ap \subseteq d.ap
  BY <1>1, <1>2 DEF Clients
<1> QED
  BY <1>3, <1>4

(* Steps that leave logs, clients and echo servers alone.                   *)
EchoKept ==
    /\ UNCHANGED <<run, echo, remote, all_results>>
    /\ clients' = clients \/ clients' = SeeAp(clients)
    /\ \/ Preparing /\ (Preparing' \/ pc' = "server") /\ repeat' = repeat
       \/ ~Orchestrating /\ ~Orchestrating'
       \/ UNCHANGED <<pc, repeat, idx>>

LEMMA EchoKeeps ==
    ASSUME TypeInv, EchoInv, EchoKept
    PROVE  EchoInv'
<1> USE DEF EchoInv, EchoKept, Preparing, Measuring, Orchestrating
<1>0. \A d \in clients' : \E c \in clients :
         /\ d.sta = c.sta /\ d.log = c.log /\ d.by = c.by
         /\ d.starved = c.starved /\ d.late = c.late
  BY SeenClients
<1>1. LogInv'
  BY <1>0 DEF LogInv
<1>2. ClientInv'
  <2> SUFFICES ASSUME NEW d \in clients'
               PROVE  (IF Orchestrating THEN ClientOfRun(d) /\ ClientInTime(d)
                                        ELSE d.late)'
    BY DEF ClientInv
  <2> PICK c \in clients : /\ d.sta = c.sta /\ d.log = c.log /\ d.by = c.by
                           /\ d.starved = c.starved /\ d.late = c.late
    BY <1>0
  <2>1. IF Orchestrating THEN ClientOfRun(c) /\ ClientInTime(c) ELSE c.late
    BY DEF ClientInv
  <2> QED
    BY <2>1 DEF ClientOfRun, ClientInTime, echo_sta
<1>3. ServerInv'
  BY <1>0 DEF ServerInv, ClientInv, ClientInTime
<1>4. RemoteInv'
  BY DEF RemoteInv, RemoteOfRun
<1>5. RowInv'
  BY DEF RowInv, RowOfRun, OneStationPerRepeat
<1> QED
  BY <1>1, <1>2, <1>3, <1>4, <1>5

(* The start of a script: all there is is of earlier runs.                  *)
LEMMA EchoBegin ==
    ASSUME TypeInv, EchoInv, StartOrchestrator \/ (StartSweep /\ UNCHANGED orchestratorVars)
    PROVE  EchoInv'
<1> USE DEF EchoInv, Preparing, Measuring, Orchestrating
<1>1. /\ run \in Nat /\ run' = run + 1 /\ pc = "idle"
      /\ UNCHANGED <<clients, echo, remote>>
      /\ all_results' \in {{}, all_results}
  BY TestbedAssumption
     DEF StartOrchestrator, StartSweep, Begin, TypeInv, TestbedTypeOK, orchestratorVars
<1>2. /\ \A c \in clients : c.by \in Nat /\ c.by <= run
      /\ \A f \in LogNames : remote[f] # NoLog => remote[f].by \in Nat /\ remote[f].by <= run
      /\ \A row \in all_results : row.log.by \in Nat /\ row.log.by <= run
  BY DEF LogInv, TypeInv, TestbedTypeOK, RowsOK, Clients, Rows, Logs
<1>3. LogInv'
  BY <1>1, <1>2 DEF LogInv
<1>4. \A c \in clients : c.late
  BY <1>1 DEF ClientInv
<1>5. ClientInv'
  BY <1>1, <1>2, <1>4 DEF ClientInv, ClientOfRun, ClientInTime
<1>6. ServerInv'
  BY <1>1, <1>4 DEF ServerInv
<1>7. RemoteInv'
  <2> SUFFICES ASSUME NEW s \in Stations, NEW r \in 1 .. MaxRepeats
               PROVE  RemoteOfRun(s, r)'
    BY DEF RemoteInv
  <2>1. echo_sta(s, r) \in LogNames
    BY NameType
  <2>2. remote[echo_sta(s, r)] # NoLog => remote[echo_sta(s, r)].by # run + 1
    BY <1>1, <1>2, <2>1
  <2> QED
    BY <1>1, <2>2 DEF RemoteOfRun, echo_sta
<1>8. RowInv'
  <2>1. \A row \in all_results' : row.log.by # run'
    BY <1>1, <1>2
  <2>2. Orchestrating' => all_results' = {}
    BY DEF StartOrchestrator, StartSweep, Begin
  <2> QED
    BY <2>1, <2>2 DEF RowInv, OneStationPerRepeat
<1> QED
  BY <1>3, <1>5, <1>6, <1>7, <1>8

LEMMA EchoServerStep ==
    ASSUME TypeInv, EchoInv, StartEchoServer
    PROVE  EchoInv'
<1> USE DEF EchoInv, Preparing, Measuring, Orchestrating
<1>1. /\ pc = "server" /\ pc' = "client"
      /\ UNCHANGED <<run, repeat, idx, remote, all_results>>
      /\ echo' \in {{}, {idx}, echo}
  BY DEF StartEchoServer, argVars, orchestratorVars
<1>2. \A d \in clients' : \E c \in clients :
         /\ d.sta = c.sta /\ d.log = c.log /\ d.by = c.by /\ d.late = c.late
         /\ d.starved = (c.starved \/ (~c.late /\ c.sta \notin echo'))
  BY DEF StartEchoServer, TypeInv, TestbedTypeOK, Clients
<1>3. LogInv'
  BY <1>1, <1>2 DEF LogInv
<1>4. ClientInv'
  <2> SUFFICES ASSUME NEW d \in clients'
               PROVE  ClientOfRun(d)' /\ ClientInTime(d)'
    BY <1>1 DEF ClientInv
  <2> PICK c \in clients :
         /\ d.sta = c.sta /\ d.log = c.log /\ d.by = c.by /\ d.late = c.late
    BY <1>2
  <2>1. ClientOfRun(c) /\ ClientInTime(c)
    BY <1>1 DEF ClientInv
  <2> QED
    BY <1>1, <2>1 DEF ClientOfRun, ClientInTime, echo_sta
<1>5. ServerInv'
  <2>1. \A x, y \in echo' : x = y
    BY <1>1 DEF ServerInv
  <2>2. ASSUME NEW d \in clients', ~d.late, ~d.starved
        PROVE  d.sta \in echo'
    BY <1>2, <2>2, Zenon
  <2> QED
    BY <2>1, <2>2 DEF ServerInv
<1>6. RemoteInv'
  BY <1>1 DEF RemoteInv, RemoteOfRun, echo_sta
<1>7. RowInv'
  BY <1>1 DEF RowInv, RowOfRun, OneStationPerRepeat
<1> QED
  BY <1>3, <1>4, <1>5, <1>6, <1>7

LEMMA EchoClientStep ==
    ASSUME TypeInv, EchoInv, StartEchoClient
    PROVE  EchoInv'
<1> USE DEF EchoInv, Preparing, Measuring, Orchestrating
<1> DEFINE new == [sta |-> idx, log |-> echo_sta(idx, repeat), by |-> run,
                   starved |-> idx \notin echo, late |-> FALSE, ap |-> {}]
<1>1. /\ pc = "client" /\ pc' \in {"server", "wait"}
      /\ UNCHANGED <<run, repeat, echo, remote, all_results>>
      /\ clients' \subseteq clients \cup {new}
      /\ run \in Nat /\ repeat \in Nat
  BY TestbedAssumption DEF StartEchoClient, EachStation, argVars, orchestratorVars, TypeInv, TestbedTypeOK
<1>2. /\ new.sta = idx /\ new.by = run /\ ~new.late
      /\ new.starved = (idx \notin echo)
      /\ new.log = echo_sta(idx, repeat) /\ new.log.repeat = repeat
  BY DEF echo_sta
<1> HIDE DEF new
<1>3. LogInv'
  BY <1>1, <1>2 DEF LogInv
<1>4. ClientInv'
  <2> SUFFICES ASSUME NEW d \in clients'
               PROVE  ClientOfRun(d)' /\ ClientInTime(d)'
    BY <1>1 DEF ClientInv
  <2>1. CASE d \in clients
    BY <1>1, <2>1 DEF ClientInv, ClientOfRun, ClientInTime, echo_sta
  <2>2. CASE d = new
    BY <1>1, <1>2, <2>2 DEF ClientOfRun, ClientInTime
  <2> QED
    BY <1>1, <2>1, <2>2
<1>5. ServerInv'
  BY <1>1, <1>2 DEF ServerInv
<1>6. RemoteInv'
  BY <1>1 DEF RemoteInv, RemoteOfRun, echo_sta, TypeInv, TestbedTypeOK
<1>7. RowInv'
  BY <1>1 DEF RowInv, RowOfRun, OneStationPerRepeat
<1> QED
  BY <1>3, <1>4, <1>5, <1>6, <1>7

LEMMA EchoWait ==
    ASSUME TypeInv, EchoInv, Wait
    PROVE  EchoInv'
<1> USE DEF EchoInv, Preparing, Measuring, Orchestrating
<1>1. /\ pc = "wait" /\ pc' = "collect"
      /\ UNCHANGED <<run, repeat, idx, echo, clients, remote, all_results>>
  BY DEF Wait, argVars, echoVars, orchestratorVars
<1>2. LogInv' /\ ServerInv' /\ RemoteInv'
  BY <1>1 DEF LogInv, ServerInv, RemoteInv, RemoteOfRun
<1>3. ClientInv'
  BY <1>1 DEF ClientInv, ClientOfRun, ClientInTime
<1>4. RowInv'
  <2>1. \A row \in all_results : row.repeat < repeat /\ row.repeat \in Nat /\ repeat \in Nat
    BY <1>1 DEF RowInv, RowOfRun, TypeInv, TestbedTypeOK, RowsOK, Rows
  <2> QED
    BY <1>1, <2>1 DEF RowInv, RowOfRun, OneStationPerRepeat
<1> QED
  BY <1>2, <1>3, <1>4

(* The row made is of the station that has the echo server.                 *)
LEMMA EchoCollect ==
    ASSUME TypeInv, EchoInv, Collect
    PROVE  EchoInv'
<1> USE DEF EchoInv, Preparing, Measuring, Orchestrating
<1> DEFINE f == echo_sta(idx, repeat)
           new == [station |-> idx, repeat |-> repeat, log |-> remote[f]]
<1>1. /\ pc = "collect" /\ pc' \in {"collect", "cleanup"}
      /\ UNCHANGED <<run, repeat, echo, clients, remote>>
      /\ pc' = "cleanup" => idx' = 0
  BY DEF Collect, EachStation, argVars, echoVars
<1>2. idx \in Stations /\ repeat \in 1 .. MaxRepeats /\ f \in LogNames
  BY <1>1, NameType, TestbedAssumption DEF TypeInv, PlaceOK, Sweeping, TestbedTypeOK
<1>3. \/ all_results' = all_results
      \/ remote[f] # NoLog /\ all_results' = all_results \cup {new}
  <2>1. CASE Copy(f) /\ Record(local'[f])
    <3>1. remote[f] # NoLog /\ local'[f] = remote[f]
      BY <1>2, <2>1 DEF Copy, TypeInv, TestbedTypeOK
    <3> QED
      BY <2>1, <3>1 DEF Record
  <2> QED
    BY <2>1 DEF Collect
<1>4. new.station = idx /\ new.repeat = repeat /\ new.log = remote[f]
  OBVIOUS
<1>5. remote[f] # NoLog => /\ remote[f].by <= run
                           /\ remote[f].by = run => idx \in echo
  BY <1>1, <1>2 DEF LogInv, RemoteInv, RemoteOfRun
<1> HIDE DEF new, f
<1>6. LogInv'
  BY <1>1, <1>3, <1>4, <1>5 DEF LogInv
<1>7. ClientInv'
  <2>1. \A c \in clients : c.sta \in Stations
    BY DEF TypeInv, TestbedTypeOK, Clients
  <2>2. \A s \in Stations : s >= 0
    BY Constants
  <2> QED
    BY <1>1, <2>1, <2>2 DEF ClientInv, ClientOfRun, ClientInTime, echo_sta
<1>8. ServerInv' /\ RemoteInv'
  BY <1>1 DEF ServerInv, RemoteInv, RemoteOfRun, echo_sta
<1>9. RowInv'
  <2>1. \A row \in all_results' : RowOfRun(row)
    BY <1>1, <1>2, <1>3, <1>4, <1>5 DEF RowInv, RowOfRun
  <2>2. \A x, y \in all_results' :
           x.log.by = run /\ y.log.by = run /\ x.repeat = y.repeat => x.station = y.station
    <3> SUFFICES ASSUME NEW x \in all_results', NEW y \in all_results',
                        x.log.by = run, y.log.by = run, x.repeat = y.repeat
                 PROVE  x.station = y.station
      OBVIOUS
    <3>1. CASE x \in all_results /\ y \in all_results
      BY <3>1 DEF RowInv, OneStationPerRepeat
    <3>2. CASE x.repeat = repeat
      BY <1>1, <2>1, <3>2 DEF RowOfRun, ServerInv
    <3>3. CASE x.repeat # repeat
      BY <1>3, <1>4, <3>1, <3>3
    <3> QED
      BY <3>2, <3>3
  <2> QED
    BY <1>1, <2>1, <2>2 DEF RowInv, RowOfRun, OneStationPerRepeat
<1> QED
  BY <1>6, <1>7, <1>8, <1>9

LEMMA EchoCleanupAp ==
    ASSUME TypeInv, EchoInv, CleanupAp
    PROVE  EchoInv'
<1> USE DEF EchoInv, Preparing, Measuring, Orchestrating
<1>1. /\ pc = "cleanup" /\ pc' = "cleanup_sta"
      /\ UNCHANGED <<run, repeat, idx, clients, remote, all_results>>
      /\ echo' \in {{}, echo}
  BY DEF CleanupAp, argVars, orchestratorVars
<1>2. LogInv'
  BY <1>1 DEF LogInv
<1>3. ClientInv'
  BY <1>1 DEF ClientInv, ClientOfRun, ClientInTime, echo_sta
<1>4. ServerInv'
  BY <1>1 DEF ServerInv
<1>5. RemoteInv'
  BY <1>1 DEF RemoteInv, RemoteOfRun, echo_sta
<1>6. RowInv'
  BY <1>1 DEF RowInv, RowOfRun, OneStationPerRepeat
<1> QED
  BY <1>2, <1>3, <1>4, <1>5, <1>6

(* With the last station's clients the repeat has none left in time.        *)
LEMMA EchoCleanupSta ==
    ASSUME TypeInv, EchoInv, CleanupSta
    PROVE  EchoInv'
<1> USE DEF EchoInv, Preparing, Measuring, Orchestrating
<1>1. /\ pc = "cleanup_sta" /\ pc' \in {"cleanup_sta", "save", "configure"}
      /\ UNCHANGED <<run, echo, remote, all_results>>
      /\ idx \in Stations /\ repeat \in Nat
      /\ pc' = "cleanup_sta" => idx' = idx + 1 /\ repeat' = repeat
      /\ pc' = "save" => idx + 1 = num_stas /\ repeat' = repeat
      /\ pc' = "configure" => idx + 1 = num_stas /\ repeat' = repeat + 1
  <2>1. idx \in Stations /\ idx < num_stas /\ idx \in Nat /\ num_stas \in Nat
        /\ repeat \in Nat
    BY Constants, TestbedAssumption
       DEF CleanupSta, TypeInv, PlaceOK, TestbedTypeOK, Sweeping, Stations
  <2> QED
    BY <2>1 DEF CleanupSta, EachStation, argVars, orchestratorVars
<1>2. \A d \in clients' :
         \/ d \in clients /\ d.sta # idx
         \/ \E c \in clients : d = [c EXCEPT !.late = TRUE]
  BY DEF CleanupSta, Late
<1>3. \A d \in clients' : \E c \in clients :
         /\ d.sta = c.sta /\ d.log = c.log /\ d.by = c.by
         /\ d.late \/ (~c.late /\ d.sta # idx)
  BY <1>2 DEF TypeInv, TestbedTypeOK, Clients
<1>4. LogInv'
  BY <1>1, <1>3 DEF LogInv
<1>5. ClientInv'
  <2> SUFFICES ASSUME NEW d \in clients'
               PROVE  ClientOfRun(d)' /\ ClientInTime(d)'
    BY <1>1 DEF ClientInv
  <2> PICK c \in clients :
         /\ d.sta = c.sta /\ d.log = c.log /\ d.by = c.by
         /\ d.late \/ (~c.late /\ d.sta # idx)
    BY <1>3
  <2>1. ClientOfRun(c) /\ ClientInTime(c)
    BY <1>1 DEF ClientInv
  <2>2. c.sta \in Nat /\ c.sta < num_stas /\ idx \in Nat /\ num_stas \in Nat
        /\ c.log.repeat \in Nat
    <3>1. c \in Clients
      BY DEF TypeInv, TestbedTypeOK
    <3>2. c.sta \in Stations /\ c.log \in LogNames
      BY <3>1 DEF Clients
    <3>3. c.log.repeat \in 1 .. MaxRepeats
      BY <3>2 DEF LogNames
    <3> QED
      BY <1>1, <3>2, <3>3, Constants, TestbedAssumption DEF Stations
  <2>3. ClientOfRun(d)'
    BY <1>1, <2>1, <2>2 DEF ClientOfRun, echo_sta
  <2>4. ASSUME ~d.late
        PROVE  /\ c.by = run /\ pc' = "cleanup_sta" /\ c.sta >= idx'
    <3>1. ~c.late /\ c.sta # idx
      BY <2>4
    <3>2. c.by = run /\ c.sta >= idx
      BY <1>1, <2>1, <3>1 DEF ClientInTime
    <3> QED
      BY <1>1, <2>2, <3>1, <3>2
  <2>5. ClientInTime(d)'
    BY <1>1, <2>4 DEF ClientInTime
  <2> QED
    BY <2>3, <2>5
<1>6. ServerInv'
  BY <1>1 DEF ServerInv
<1>7. RemoteInv'
  BY <1>1 DEF RemoteInv, RemoteOfRun, echo_sta
<1>8. RowInv'
  <2>1. \A row \in all_results : row.repeat \in Nat
    BY DEF TypeInv, RowsOK, Rows
  <2> QED
    BY <1>1, <2>1 DEF RowInv, RowOfRun, OneStationPerRepeat
<1> QED
  BY <1>4, <1>5, <1>6, <1>7, <1>8

(* The end of a script, regular or not: no client is in time any more.      *)
LEMMA EchoEnd ==
    ASSUME TypeInv, EchoInv, SaveResults \/ (Interrupt /\ UNCHANGED orchestratorVars)
    PROVE  EchoInv'
<1> USE DEF EchoInv, Preparing, Measuring, Orchestrating
<1>1. /\ pc' = "idle"
      /\ UNCHANGED <<run, echo, remote, all_results>>
  BY DEF SaveResults, Interrupt, End, orchestratorVars
<1>2. \A d \in clients' : d.late /\ \E c \in clients : d.by = c.by
  <2>1. CASE SaveResults
    BY <2>1 DEF SaveResults, ClientInv, ClientInTime
  <2>2. CASE Interrupt
    BY <2>2 DEF Interrupt, Late, TypeInv, TestbedTypeOK, Clients
  <2> QED
    BY <2>1, <2>2
<1>3. LogInv'
  BY <1>1, <1>2 DEF LogInv
<1>4. ClientInv'
  BY <1>1, <1>2 DEF ClientInv
<1>5. ServerInv'
  BY <1>1 DEF ServerInv
<1>6. RemoteInv'
  BY <1>1 DEF RemoteInv
<1>7. RowInv'
  BY <1>1 DEF RowInv, OneStationPerRepeat
<1> QED
  BY <1>3, <1>4, <1>5, <1>6, <1>7

LEMMA EchoSweepMeasure ==
    ASSUME TypeInv, EchoInv, SweepMeasure, UNCHANGED orchestratorVars
    PROVE  EchoInv'
<1> USE DEF EchoInv, Preparing, Measuring, Orchestrating
<1> DEFINE f == echo_n(n_tdma, repeat)
           new == [sta |-> 0, log |-> f, by |-> run,
                   starved |-> 0 \notin echo, late |-> TRUE, ap |-> {dev[AP]}]
<1>1. /\ pc = "sw_measure" /\ pc' = "sw_parse"
      /\ UNCHANGED <<run, repeat, idx, echo, all_results>>
      /\ clients' \subseteq clients \cup {new}
      /\ \/ remote' = remote
         \/ \E lost \in 0 .. Slack :
               remote' = [remote EXCEPT ![f] = [by |-> run, lost |-> lost,
                                                ap |-> {dev[AP]}]]
      /\ run \in Nat
  BY DEF SweepMeasure, argVars, orchestratorVars, TypeInv, TestbedTypeOK
<1>2. new.by = run /\ new.late
  OBVIOUS
<1> HIDE DEF new, f
<1>3. LogInv'
  <2>1. \A g \in LogNames : remote'[g] = remote[g] \/ remote'[g].by = run
    BY <1>1 DEF TypeInv, TestbedTypeOK
  <2> QED
    BY <1>1, <1>2, <2>1 DEF LogInv
<1>4. ClientInv'
  BY <1>1, <1>2 DEF ClientInv
<1>5. ServerInv' /\ RemoteInv'
  BY <1>1 DEF ServerInv, RemoteInv
<1>6. RowInv'
  BY <1>1 DEF RowInv, OneStationPerRepeat
<1> QED
  BY <1>3, <1>4, <1>5, <1>6

(* Of the clients of this repeat only one whose station has the server can  *)
(* be done in time: the others have lost more than Slack requests.          *)
LEMMA EchoFinishes ==
    ASSUME TypeInv, EchoInv, NEW c \in clients, ClientFinishes(c),
           UNCHANGED orchestratorVars
    PROVE  EchoInv'
<1> USE DEF EchoInv, Preparing, Measuring, Orchestrating
<1>1. /\ UNCHANGED <<run, pc, repeat, idx, echo, all_results>>
      /\ clients' = clients \ {c}
      /\ pc \in {"server", "client"} => c.late
  BY DEF ClientFinishes, scriptVars, argVars, orchestratorVars
<1>2. PICK lost \in Losses(c) :
         /\ lost <= Slack \/ c.late
         /\ remote' = [remote EXCEPT ![c.log] = [by |-> c.by, lost |-> lost,
                                                 ap |-> c.ap]]
  BY DEF ClientFinishes
<1>3. /\ c \in Clients /\ c.log \in LogNames
      /\ remote \in [LogNames -> Logs \cup {NoLog}]
  BY DEF TypeInv, TestbedTypeOK, Clients
<1>4. ~c.late => ~c.starved
  <2> SUFFICES ASSUME ~c.late, c.starved PROVE FALSE
    OBVIOUS
  <2>1. lost \in Count - Early .. Count /\ lost <= Slack
    BY <1>2 DEF Losses
  <2> QED
    BY <2>1, TestbedAssumption
<1>5. \A g \in LogNames : g # c.log => remote'[g] = remote[g]
  BY <1>2, <1>3
<1>6. remote'[c.log].by = c.by
  BY <1>2, <1>3
<1>7. LogInv'
  <2>1. c.by <= run
    BY DEF LogInv
  <2> QED
    BY <1>1, <1>5, <1>6, <2>1 DEF LogInv
<1>8. ClientInv' /\ ServerInv'
  BY <1>1 DEF ClientInv, ClientOfRun, ClientInTime, ServerInv, echo_sta
<1>9. RemoteInv'
  <2> SUFFICES ASSUME Orchestrating, NEW s \in Stations, NEW r \in 1 .. MaxRepeats
               PROVE  RemoteOfRun(s, r)'
    BY <1>1 DEF RemoteInv
  <2>1. echo_sta(s, r) \in LogNames
    BY NameType
  <2>2. CASE echo_sta(s, r) # c.log
    <3>1. remote'[echo_sta(s, r)] = remote[echo_sta(s, r)]
      BY <1>5, <2>1, <2>2
    <3>2. RemoteOfRun(s, r)
      BY DEF RemoteInv
    <3> QED
      BY <1>1, <3>1, <3>2 DEF RemoteOfRun, echo_sta
  <2>3. CASE echo_sta(s, r) = c.log /\ c.by = run
    <3>1. ClientOfRun(c) /\ ClientInTime(c)
      BY DEF ClientInv
    <3>2. c.sta = s /\ c.log.repeat = r
      BY <2>3, <3>1 DEF ClientOfRun, echo_sta
    <3>3. r <= repeat /\ r \in Nat /\ repeat \in Nat
      BY <2>3, <3>1, <3>2 DEF ClientOfRun, TypeInv, TestbedTypeOK
    <3>4. Preparing \/ pc \in {"server", "client"} => r < repeat
      <4>1. Preparing => c.late
        BY <3>1 DEF ClientInTime
      <4> QED
        BY <1>1, <2>3, <3>1, <3>2, <4>1 DEF ClientOfRun
    <3>5. pc \in {"wait", "collect"} /\ r = repeat => s \in echo
      <4> SUFFICES ASSUME pc \in {"wait", "collect"}, r = repeat
                   PROVE  s \in echo
        OBVIOUS
      <4>1. ~c.late
        BY <2>3, <3>1, <3>2, <3>3 DEF ClientOfRun
      <4> QED
        BY <1>4, <3>2, <4>1 DEF ServerInv
    <3> QED
      BY <1>1, <3>3, <3>4, <3>5 DEF RemoteOfRun, echo_sta
  <2>4. CASE echo_sta(s, r) = c.log /\ c.by # run
    BY <1>1, <1>6, <2>4 DEF RemoteOfRun, echo_sta
  <2> QED
    BY <2>2, <2>3, <2>4
<1>10. RowInv'
  BY <1>1 DEF RowInv, RowOfRun, OneStationPerRepeat
<1> QED
  BY <1>7, <1>8, <1>9, <1>10

LEMMA EchoHosts ==
    ASSUME TypeInv, EchoInv, UNCHANGED orchestratorVars,
           (\E c \in clients : ClientDies(c)) \/ StartEchoByHand
    PROVE  EchoInv'
<1> USE DEF EchoInv, Preparing, Measuring, Orchestrating
<1>1. /\ UNCHANGED <<run, pc, repeat, idx, remote, all_results>>
      /\ clients' \subseteq clients
      /\ \/ echo' = echo
         \/ pc = "idle" /\ echo' = {0}
  BY DEF ClientDies, StartEchoByHand, scriptVars, argVars, orchestratorVars
<1>2. LogInv' /\ ClientInv'
  BY <1>1 DEF LogInv, ClientInv, ClientOfRun, ClientInTime, echo_sta
<1>3. ServerInv' /\ RemoteInv'
  BY <1>1 DEF ServerInv, RemoteInv, RemoteOfRun, echo_sta
<1>4. RowInv'
  BY <1>1 DEF RowInv, RowOfRun, OneStationPerRepeat
<1> QED
  BY <1>2, <1>3, <1>4

LEMMA EchoInit == Init => EchoInv
  BY DEF Init, TestbedInit, OrchestrationInit, EchoInv, LogInv, ClientInv, ServerInv,
         RemoteInv, RowInv, OneStationPerRepeat, Orchestrating, Preparing, Measuring

LEMMA EchoStep == TypeInv /\ EchoInv /\ [Next]_vars => EchoInv'
<1> SUFFICES ASSUME TypeInv, EchoInv, [Next]_vars PROVE EchoInv'
  OBVIOUS
<1> USE DEF argVars, scriptVars, echoVars, orchestratorVars
<1>1. CASE EchoKept
  BY <1>1, EchoKeeps
<1>2. CASE StartOrchestrator \/ (StartSweep /\ UNCHANGED orchestratorVars)
  BY <1>2, EchoBegin
<1>3. ASSUME Orchestrator PROVE EchoInv'
  <2>1. ConfigureAp \/ JoinStation \/ JoinWrites => EchoKept
    BY DEF ConfigureAp, AfterConfigure, JoinStation, JoinWrites, EachStation, EchoKept,
           Preparing
  <2> QED
    BY <1>1, <1>3, <2>1, EchoServerStep, EchoClientStep, EchoWait, EchoCollect,
       EchoCleanupAp, EchoCleanupSta, EchoEnd DEF Orchestrator
<1>4. ASSUME Sweep, UNCHANGED orchestratorVars PROVE EchoInv'
  <2>1. SweepConfigure \/ SweepRaises \/ SweepParse \/ SweepSave => EchoKept
    BY <1>4 DEF SweepConfigure, SweepRaises, SweepParse, SweepSave, NextMeasurement,
           End, EchoKept, Orchestrating, Preparing, Measuring
  <2> QED
    BY <1>1, <1>4, <2>1, EchoSweepMeasure DEF Sweep
<1>5. CASE Interrupt /\ UNCHANGED orchestratorVars
  BY <1>5, EchoEnd
<1>6. ASSUME Hosts, UNCHANGED orchestratorVars PROVE EchoInv'
  <2>1. (\E c \in tdma_clients : LateConnect(c) \/ LateWrite(c)) => EchoKept
    BY <1>6 DEF LateConnect, LateWrite, EchoKept
  <2> QED
    BY <1>1, <1>6, <2>1, EchoFinishes, EchoHosts DEF Hosts
<1>7. CASE UNCHANGED vars
  BY <1>1, <1>7 DEF vars, testbedVars, EchoKept
<1> QED
  BY <1>2, <1>3, <1>4, <1>5, <1>6, <1>7 DEF Next, Script

(* --------------------------- Rows of the sweep -------------------------- *)

(* A log that a client of this sweep wrote for n slots, or will: n had its  *)
(* turn; the AP held the slots of that turn in the client's life, and       *)
(* nothing else as long as n's only turn lasts.                             *)
SweepLog(n, ap) ==
    /\ \E v \in 1 .. idx : n_tdma_values[v] = n /\ (pc = "sw_configure" => v < idx)
    /\ n \notin refused => ApWord(n) \in ap
    /\ n \notin refused /\ Once(n) /\ pc # "sw_configure" /\ n = n_tdma =>
          ap = {ApWord(n)}

SweepLogs ==
    Sweeping =>
        /\ \A c \in clients :
              c.by = run /\ c.log.kind = "n" => SweepLog(c.log.id, c.ap)
        /\ \A f \in LogNames : f.kind = "n" =>
              /\ remote[f] # NoLog /\ remote[f].by = run =>
                    SweepLog(f.id, remote[f].ap)
              /\ local[f] # NoLog /\ local[f].by = run =>
                    SweepLog(f.id, local[f].ap)

(* While a value is measured whose slots the AP took, it holds them.        *)
ApHolds ==
    pc \in {"sw_measure", "sw_parse"} /\ n_tdma \notin refused =>
        dev[AP] = ApWord(n_tdma)

(* No copy and no row of the sweep is of a run that has not started.        *)
PastRuns ==
    /\ \A f \in LogNames : local[f] # NoLog => local[f].by <= run
    /\ \A row \in results : row.log.by <= run

SweepInv == SweepLogs /\ ApHolds /\ PastRuns /\ SweepRowsMatchConfiguration

(* A step that ends or is outside the sweep, and one that leaves it alone.  *)
OutsideSweep ==
    /\ ~Sweeping' /\ UNCHANGED <<results, refused, n_tdma_values>>
    /\ run' \in {run, run + 1}
    /\ \/ local' = local
       \/ \E f \in LogNames : local' = [local EXCEPT ![f] = remote[f]]

BesideSweep ==
    /\ UNCHANGED <<run, pc, idx, n_tdma_values, refused, results, remote, local>>
    /\ clients' \subseteq clients
    /\ dev'[AP] = dev[AP]

LEMMA SweepSteps ==
    ASSUME TypeInv, [Next]_vars
    PROVE  \/ OutsideSweep \/ BesideSweep
           \/ StartSweep \/ SweepConfigure \/ SweepMeasure \/ SweepParse
           \/ (\E c \in clients : ClientFinishes(c)) /\ UNCHANGED sweepVars
<1> USE DEF argVars, scriptVars, slotVars, echoVars, sweepVars, Sweeping
<1>1. StartOrchestrator /\ UNCHANGED sweepVars => OutsideSweep
  BY DEF StartOrchestrator, Begin, OutsideSweep
<1>2. ASSUME Orchestrator, UNCHANGED sweepVars PROVE OutsideSweep
  <2>1. run' = run
    BY <1>2 DEF Orchestrator, ConfigureAp, AfterConfigure, JoinStation, JoinWrites,
       StartEchoServer, StartEchoClient, Wait, Collect, CleanupAp, CleanupSta,
       SaveResults, End
  <2>2. pc' \notin {"sw_configure", "sw_measure", "sw_parse", "sw_save"}
    BY <1>2 DEF Orchestrator, ConfigureAp, AfterConfigure, JoinStation, JoinWrites,
       StartEchoServer, StartEchoClient, Wait, Collect, CleanupAp, CleanupSta,
       SaveResults, End, EachStation
  <2>3. ASSUME Collect
        PROVE  \/ local' = local
               \/ \E f \in LogNames : local' = [local EXCEPT ![f] = remote[f]]
    <3>1. pc = "collect"
      BY <2>3 DEF Collect
    <3>2. echo_sta(idx, repeat) \in LogNames
      BY <3>1, NameType, TestbedAssumption
         DEF TypeInv, PlaceOK, TestbedTypeOK, Orchestrating, Measuring
    <3> QED
      BY <2>3, <3>2 DEF Collect, Copy, CopyFails
  <2>4. ~Collect => local' = local
    BY <1>2 DEF Orchestrator, ConfigureAp, AfterConfigure, JoinStation, JoinWrites,
       StartEchoServer, StartEchoClient, Wait, CleanupAp, CleanupSta, SaveResults
  <2> QED
    BY <1>2, <2>1, <2>2, <2>3, <2>4 DEF OutsideSweep
<1>3. SweepRaises \/ SweepSave => OutsideSweep
  BY DEF SweepRaises, SweepSave, End, OutsideSweep
<1>4. Interrupt /\ UNCHANGED sweepVars => OutsideSweep
  BY DEF Interrupt, End, OutsideSweep
<1>5. ASSUME NEW c \in tdma_clients, LateConnect(c) \/ LateWrite(c), UNCHANGED sweepVars
      PROVE  BesideSweep
  <2>1. UNCHANGED <<scriptVars, echoVars, local>>
    BY <1>5 DEF LateConnect, LateWrite
  <2>2. dev'[AP] = dev[AP]
    BY <1>5, Written DEF LateConnect, LateWrite
  <2> QED
    BY <1>5, <2>1, <2>2 DEF BesideSweep
<1>6. (\E c \in clients : ClientDies(c)) /\ UNCHANGED sweepVars => BesideSweep
  BY DEF ClientDies, BesideSweep
<1>7. StartEchoByHand /\ UNCHANGED sweepVars => BesideSweep
  BY DEF StartEchoByHand, BesideSweep
<1>8. UNCHANGED vars => BesideSweep
  BY DEF vars, testbedVars, BesideSweep
<1> QED
  BY <1>1, <1>2, <1>3, <1>4, <1>5, <1>6, <1>7, <1>8 DEF Next, Script, Sweep, Hosts

LEMMA SweepOutside ==
    ASSUME TypeInv, EchoInv, SweepInv, OutsideSweep
    PROVE  SweepInv'
<1>1. /\ run \in Nat /\ run' \in {run, run + 1}
      /\ \A f \in LogNames : remote[f] # NoLog => remote[f].by \in Nat
      /\ \A f \in LogNames : local[f] # NoLog => local[f].by \in Nat
      /\ \A row \in results : row.log.by \in Nat
  BY TestbedAssumption
     DEF OutsideSweep, TypeInv, TestbedTypeOK, RowsOK, SweepRows, Logs
<1>2. SweepLogs' /\ ApHolds'
  BY DEF OutsideSweep, SweepLogs, ApHolds, Sweeping
<1>3. \A f \in LogNames : local'[f] # NoLog => local'[f].by <= run'
  <2>1. \A f \in LogNames : local'[f] \in {local[f], remote[f]}
    BY DEF OutsideSweep, TypeInv, TestbedTypeOK
  <2>2. \A f \in LogNames : /\ local[f] # NoLog => local[f].by <= run
                            /\ remote[f] # NoLog => remote[f].by <= run
    BY DEF SweepInv, PastRuns, EchoInv, LogInv
  <2>3. ASSUME NEW f \in LogNames, local'[f] # NoLog PROVE local'[f].by <= run'
    <3>1. CASE local'[f] = local[f]
      BY <1>1, <2>2, <2>3, <3>1
    <3>2. CASE local'[f] = remote[f]
      BY <1>1, <2>2, <2>3, <3>2
    <3> QED
      BY <2>1, <3>1, <3>2
  <2> QED
    BY <2>3
<1>4. \A row \in results' : row.log.by <= run' /\ (row.log.by = run' => run' = run)
  BY <1>1 DEF OutsideSweep, SweepInv, PastRuns
<1>5. SweepRowsMatchConfiguration'
  BY <1>4 DEF OutsideSweep, SweepInv, SweepRowsMatchConfiguration, Once
<1> QED
  BY <1>2, <1>3, <1>4, <1>5 DEF SweepInv, PastRuns

LEMMA SweepBeside ==
    ASSUME TypeInv, SweepInv, BesideSweep
    PROVE  SweepInv'
<1>1. SweepLogs'
  BY DEF SweepInv, BesideSweep, SweepLogs, SweepLog, Sweeping, Once, n_tdma
<1>2. ApHolds' /\ PastRuns'
  BY DEF SweepInv, BesideSweep, ApHolds, PastRuns, n_tdma
<1>3. SweepRowsMatchConfiguration'
  BY DEF SweepInv, BesideSweep, SweepRowsMatchConfiguration, Once
<1> QED
  BY <1>1, <1>2, <1>3 DEF SweepInv

(* All there is is of earlier runs.                                         *)
LEMMA SweepStarts ==
    ASSUME TypeInv, EchoInv, SweepInv, StartSweep
    PROVE  SweepInv'
<1>1. /\ run \in Nat /\ run' = run + 1 /\ pc' = "sw_configure" /\ results' = {}
      /\ UNCHANGED <<clients, remote, local>>
  BY TestbedAssumption DEF StartSweep, Begin, TypeInv, TestbedTypeOK
<1>2. /\ \A c \in clients : c.by \in Nat
      /\ \A f \in LogNames : remote[f] # NoLog => remote[f].by \in Nat
      /\ \A f \in LogNames : local[f] # NoLog => local[f].by \in Nat
  BY DEF TypeInv, TestbedTypeOK, Clients, Logs
<1>3. /\ \A c \in clients : c.by # run'
      /\ \A f \in LogNames : remote[f] # NoLog => remote[f].by # run'
      /\ \A f \in LogNames : local[f] # NoLog => local[f].by # run' /\ local[f].by <= run'
  BY <1>1, <1>2 DEF SweepInv, PastRuns, EchoInv, LogInv
<1> QED
  BY <1>1, <1>3 DEF SweepInv, SweepLogs, ApHolds, PastRuns, SweepRowsMatchConfiguration

LEMMA SweepPlace ==
    ASSUME TypeInv, Sweeping
    PROVE  /\ idx \in DOMAIN n_tdma_values /\ idx \in 1 .. Len(n_tdma_values)
           /\ DOMAIN n_tdma_values = 1 .. Len(n_tdma_values)
           /\ Len(n_tdma_values) \in Nat
           /\ n_tdma = n_tdma_values[idx] /\ n_tdma \in Nat /\ n_tdma \in Ids
           /\ repeat \in 1 .. MaxRepeats /\ run \in 1 .. MaxRepeats
           /\ echo_n(n_tdma, repeat) \in LogNames
<1>1. n_tdma_values \in ValueLists /\ idx \in DOMAIN n_tdma_values
  BY DEF TypeInv, PlaceOK, Sweeping
<1>2. repeat \in 1 .. MaxRepeats /\ run \in 1 .. MaxRepeats
  BY TestbedAssumption DEF TypeInv, PlaceOK, TestbedTypeOK, Sweeping
<1> QED
  BY <1>1, <1>2, Values, NameType DEF n_tdma

(* A client of this run for the value whose turn begins is of another turn. *)
LEMMA SweepConfigures ==
    ASSUME TypeInv, SweepInv, SweepConfigure
    PROVE  SweepInv'
<1>1. /\ pc = "sw_configure" /\ pc' = "sw_measure" /\ n_tdma' = n_tdma
      /\ UNCHANGED <<run, idx, n_tdma_values, results, remote, local>>
      /\ refused \subseteq refused' /\ clients' = SeeAp(clients)
      /\ ap_slots(n_tdma) \subseteq Session1
      /\ \/ n_tdma \in refused'
         \/ dev' = [dev EXCEPT ![AP] = logical_slots_to_driver_bitmap(ap_slots(n_tdma))]
  BY DEF SweepConfigure, argVars, n_tdma
<1>2. idx \in DOMAIN n_tdma_values /\ DOMAIN n_tdma_values = 1 .. Len(n_tdma_values)
      /\ Len(n_tdma_values) \in Nat /\ n_tdma = n_tdma_values[idx] /\ n_tdma \in Nat
  BY <1>1, SweepPlace DEF Sweeping
<1>3. ASSUME NEW n, NEW ap, NEW seen, SweepLog(n, ap), ap \subseteq seen
      PROVE  /\ \E v \in 1 .. idx' : n_tdma_values'[v] = n
             /\ n \notin refused' => ApWord(n) \in seen
             /\ ~(Once(n) /\ n = n_tdma)
  <2>1. PICK v \in 1 .. idx : n_tdma_values[v] = n /\ v < idx
    BY <1>1, <1>3 DEF SweepLog
  <2>2. v \in DOMAIN n_tdma_values
    BY <1>2, <2>1
  <2>3. ~(Once(n) /\ n = n_tdma)
    BY <1>2, <2>1, <2>2 DEF Once
  <2> QED
    BY <1>1, <1>3, <2>1, <2>3 DEF SweepLog
<1>4. SweepLogs'
  <2>0. Sweeping
    BY <1>1 DEF Sweeping
  <2>1. ASSUME NEW d \in clients', d.by = run', d.log.kind = "n"
        PROVE  SweepLog(d.log.id, d.ap)'
    <3>1. PICK c \in clients : d.log = c.log /\ d.by = c.by /\ c.ap \subseteq d.ap
      BY <1>1, SeenClients
    <3>2. SweepLog(c.log.id, c.ap)
      BY <1>1, <2>0, <2>1, <3>1 DEF SweepInv, SweepLogs
    <3>3. /\ \E v \in 1 .. idx' : n_tdma_values'[v] = d.log.id
          /\ d.log.id \notin refused' => ApWord(d.log.id) \in d.ap
          /\ ~(Once(d.log.id) /\ d.log.id = n_tdma)
      BY <1>3, <3>1, <3>2
    <3> QED
      BY <1>1, <3>3 DEF SweepLog, Once
  <2>2. ASSUME NEW f \in LogNames, f.kind = "n", NEW log \in {remote[f], local[f]},
               log # NoLog, log.by = run
        PROVE  /\ \E v \in 1 .. idx' : n_tdma_values'[v] = f.id
               /\ f.id \notin refused' => ApWord(f.id) \in log.ap
               /\ ~(Once(f.id) /\ f.id = n_tdma)
    <3>1. SweepLog(f.id, log.ap)
      BY <2>0, <2>2 DEF SweepInv, SweepLogs
    <3> QED
      BY <1>3, <3>1
  <2> QED
    BY <1>1, <2>1, <2>2 DEF SweepLogs, SweepLog, Once
<1>5. ApHolds'
  BY <1>1, <1>2, SweptBits, Constants DEF ApHolds, ApWord, TypeInv, TestbedTypeOK
<1>6. PastRuns'
  BY <1>1 DEF SweepInv, PastRuns
<1>7. SweepRowsMatchConfiguration'
  BY <1>1 DEF SweepInv, SweepRowsMatchConfiguration, Once
<1> QED
  BY <1>4, <1>5, <1>6, <1>7 DEF SweepInv

LEMMA SweepMeasures ==
    ASSUME TypeInv, SweepInv, SweepMeasure
    PROVE  SweepInv'
<1> DEFINE f == echo_n(n_tdma, repeat)
           new == [sta |-> 0, log |-> f, by |-> run, starved |-> 0 \notin echo,
                   late |-> TRUE, ap |-> {dev[AP]}]
<1>1. /\ pc = "sw_measure" /\ pc' = "sw_parse" /\ n_tdma' = n_tdma
      /\ UNCHANGED <<run, idx, n_tdma_values, refused, results, local, dev>>
      /\ clients' \subseteq clients \cup {new}
      /\ \/ remote' = remote
         \/ \E lost \in 0 .. Slack :
               remote' = [remote EXCEPT ![f] = [by |-> run, lost |-> lost,
                                                ap |-> {dev[AP]}]]
  BY DEF SweepMeasure, argVars, slotVars, sweepVars, n_tdma
<1>2. /\ new.log.id = n_tdma /\ new.ap = {dev[AP]} /\ f.id = n_tdma
      /\ f \in LogNames
  BY <1>1, SweepPlace DEF echo_n, Sweeping
<1> HIDE DEF f, new
<1>3. SweepLog(n_tdma, {dev[AP]})'
  <2>1. idx \in 1 .. idx /\ n_tdma_values[idx] = n_tdma
    BY <1>1, SweepPlace DEF Sweeping
  <2>2. n_tdma \notin refused => dev[AP] = ApWord(n_tdma)
    BY <1>1 DEF SweepInv, ApHolds
  <2> QED
    BY <1>1, <2>1, <2>2 DEF SweepLog, n_tdma
<1>4. ASSUME NEW n, NEW ap, SweepLog(n, ap)
      PROVE  SweepLog(n, ap)'
  BY <1>1, <1>4 DEF SweepLog, Once
<1>5. SweepLogs'
  <2>0. Sweeping
    BY <1>1 DEF Sweeping
  <2>1. ASSUME NEW c \in clients', c.by = run', c.log.kind = "n"
        PROVE  SweepLog(c.log.id, c.ap)'
    <3>1. CASE c = new
      BY <1>1, <1>2, <1>3, <3>1 DEF SweepLog, n_tdma
    <3>2. CASE c \in clients
      <4>1. SweepLog(c.log.id, c.ap)
        BY <1>1, <2>0, <2>1, <3>2 DEF SweepInv, SweepLogs
      <4> QED
        BY <1>1, <4>1 DEF SweepLog, Once
    <3> QED
      BY <1>1, <3>1, <3>2
  <2>2. ASSUME NEW g \in LogNames, g.kind = "n", remote'[g] # NoLog,
               remote'[g].by = run'
        PROVE  SweepLog(g.id, remote[g].ap)'
    <3>1. CASE remote'[g] = remote[g]
      <4>1. SweepLog(g.id, remote[g].ap)
        BY <1>1, <2>0, <2>2, <3>1 DEF SweepInv, SweepLogs
      <4> QED
        BY <1>1, <3>1, <4>1 DEF SweepLog, Once
    <3>2. CASE g = f /\ remote'[g].ap = {dev[AP]}
      BY <1>1, <1>2, <1>3, <3>2 DEF SweepLog, n_tdma
    <3>3. remote'[g] = remote[g] \/ (g = f /\ remote'[g].ap = {dev[AP]})
      BY <1>1 DEF TypeInv, TestbedTypeOK
    <3> QED
      BY <3>1, <3>2, <3>3
  <2>3. ASSUME NEW g \in LogNames, g.kind = "n", local'[g] # NoLog, local'[g].by = run'
        PROVE  SweepLog(g.id, local[g].ap)'
    <3>1. SweepLog(g.id, local[g].ap)
      BY <1>1, <2>0, <2>3 DEF SweepInv, SweepLogs
    <3> QED
      BY <1>1, <3>1 DEF SweepLog, Once
  <2> QED
    BY <2>1, <2>2, <2>3 DEF SweepLogs
<1>6. ApHolds' /\ PastRuns'
  BY <1>1 DEF SweepInv, ApHolds, PastRuns
<1>7. SweepRowsMatchConfiguration'
  BY <1>1 DEF SweepInv, SweepRowsMatchConfiguration, Once
<1> QED
  BY <1>5, <1>6, <1>7 DEF SweepInv

(* The row is made in the turn of its value.                                *)
LEMMA SweepParses ==
    ASSUME TypeInv, EchoInv, SweepInv, SweepParse
    PROVE  SweepInv'
<1> DEFINE f == echo_n(n_tdma, repeat)
           new == [n_tdma |-> n_tdma, repeat |-> repeat, log |-> local'[f]]
<1>1. /\ pc = "sw_parse" /\ NextMeasurement
      /\ UNCHANGED <<run, n_tdma_values, refused, remote, clients, dev>>
      /\ results' = results \/ (local'[f] # NoLog /\ results' = results \cup {new})
      /\ local' = local \/ local' = [local EXCEPT ![f] = remote[f]]
  BY DEF SweepParse, argVars, slotVars, echoVars, Copy, CopyFails, Measured
<1>2. /\ f \in LogNames /\ f.id = n_tdma /\ f.kind = "n"
      /\ idx \in 1 .. Len(n_tdma_values) /\ n_tdma = n_tdma_values[idx]
      /\ Len(n_tdma_values) \in Nat /\ run \in Nat
  BY <1>1, SweepPlace DEF echo_n, Sweeping
<1>3. new.n_tdma = n_tdma /\ new.log = local'[f]
  OBVIOUS
<1> HIDE DEF f, new
<1>4. /\ idx' = idx \/ (idx' = idx + 1 /\ pc' = "sw_configure")
      /\ pc' = "sw_configure" => idx' = idx + 1
      /\ pc' # "sw_configure" => n_tdma' = n_tdma
      /\ Sweeping /\ Sweeping'
  BY <1>1 DEF NextMeasurement, n_tdma, Sweeping
<1>5. \A g \in LogNames : local'[g] = local[g] \/ (g = f /\ local'[g] = remote[f])
  BY <1>1 DEF TypeInv, TestbedTypeOK
<1>6. ASSUME NEW n, NEW ap, SweepLog(n, ap)
      PROVE  /\ \E v \in 1 .. idx' : /\ n_tdma_values'[v] = n
                                     /\ pc' = "sw_configure" => v < idx'
             /\ n \notin refused' => ApWord(n) \in ap
             /\ n \notin refused' /\ Once(n) /\ pc' # "sw_configure" /\ n = n_tdma' =>
                   ap = {ApWord(n)}
  <2>1. PICK v \in 1 .. idx : n_tdma_values[v] = n
    BY <1>6 DEF SweepLog
  <2>2. v \in 1 .. idx' /\ (pc' = "sw_configure" => v < idx')
    BY <1>2, <1>4, <2>1
  <2> QED
    BY <1>1, <1>4, <1>6, <2>1, <2>2 DEF SweepLog
<1>7. ASSUME NEW g \in LogNames, g.kind = "n", local'[g] # NoLog, local'[g].by = run
      PROVE  SweepLog(g.id, local'[g].ap)
  <2>1. CASE local'[g] = local[g]
    BY <1>4, <1>7, <2>1 DEF SweepInv, SweepLogs
  <2>2. CASE g = f /\ local'[g] = remote[f]
    BY <1>2, <1>4, <1>7, <2>2 DEF SweepInv, SweepLogs
  <2> QED
    BY <1>5, <2>1, <2>2
<1>8. SweepLogs'
  <2>1. ASSUME NEW c \in clients', c.by = run', c.log.kind = "n"
        PROVE  SweepLog(c.log.id, c.ap)'
    <3>1. SweepLog(c.log.id, c.ap)
      BY <1>1, <1>4, <2>1 DEF SweepInv, SweepLogs
    <3> QED
      BY <1>1, <1>6, <3>1 DEF SweepLog, Once
  <2>2. ASSUME NEW g \in LogNames, g.kind = "n", remote'[g] # NoLog, remote'[g].by = run'
        PROVE  SweepLog(g.id, remote[g].ap)'
    <3>1. SweepLog(g.id, remote[g].ap)
      BY <1>1, <1>4, <2>2 DEF SweepInv, SweepLogs
    <3> QED
      BY <1>1, <1>6, <3>1 DEF SweepLog, Once
  <2>3. ASSUME NEW g \in LogNames, g.kind = "n", local'[g] # NoLog, local'[g].by = run'
        PROVE  SweepLog(g.id, local[g].ap)'
    <3> DEFINE ap == local'[g].ap
    <3>1. SweepLog(g.id, ap)
      BY <1>1, <1>7, <2>3
    <3> HIDE DEF ap
    <3>2. /\ \E v \in 1 .. idx' : /\ n_tdma_values'[v] = g.id
                                  /\ pc' = "sw_configure" => v < idx'
          /\ g.id \notin refused' => ApWord(g.id) \in ap
          /\ g.id \notin refused' /\ Once(g.id) /\ pc' # "sw_configure"
                /\ g.id = n_tdma' => ap = {ApWord(g.id)}
      BY <1>6, <3>1
    <3> QED
      BY <1>1, <3>2 DEF SweepLog, Once, ap
  <2> QED
    BY <2>1, <2>2, <2>3 DEF SweepLogs
<1>9. ApHolds'
  BY <1>1, <1>4 DEF SweepInv, ApHolds
<1>10. \A g \in LogNames : local'[g] # NoLog => local'[g].by <= run
  BY <1>2, <1>5 DEF SweepInv, PastRuns, EchoInv, LogInv
<1>11. PastRuns'
  BY <1>1, <1>2, <1>3, <1>10 DEF SweepInv, PastRuns
<1>12. SweepRowsMatchConfiguration'
  <2>1. ASSUME local'[f] # NoLog, new.log.by = run, new.n_tdma \notin refused
        PROVE  /\ ApWord(new.n_tdma) \in new.log.ap
               /\ Once(new.n_tdma) => new.log.ap = {ApWord(new.n_tdma)}
    <3>1. SweepLog(n_tdma, local'[f].ap)
      BY <1>2, <1>3, <1>7, <2>1
    <3> QED
      BY <1>1, <1>3, <2>1, <3>1 DEF SweepLog
  <2> QED
    BY <1>1, <2>1 DEF SweepInv, SweepRowsMatchConfiguration, Once
<1> QED
  BY <1>8, <1>9, <1>11, <1>12 DEF SweepInv

LEMMA SweepFinishes ==
    ASSUME TypeInv, EchoInv, SweepInv, NEW c \in clients, ClientFinishes(c),
           UNCHANGED sweepVars
    PROVE  SweepInv'
<1>1. /\ UNCHANGED <<run, pc, idx, n_tdma_values, refused, results, local, dev>>
      /\ clients' = clients \ {c}
  BY DEF ClientFinishes, scriptVars, argVars, slotVars, sweepVars
<1>2. PICK lost : remote' = [remote EXCEPT ![c.log] = [by |-> c.by, lost |-> lost,
                                                       ap |-> c.ap]]
  BY DEF ClientFinishes
<1>3. \A g \in LogNames : \/ remote'[g] = remote[g]
                          \/ g = c.log /\ remote'[g].by = c.by /\ remote'[g].ap = c.ap
  BY <1>2 DEF TypeInv, TestbedTypeOK
<1>4. SweepLogs'
  <2>1. ASSUME Sweeping, NEW g \in LogNames, g.kind = "n", remote'[g] # NoLog,
               remote'[g].by = run
        PROVE  SweepLog(g.id, remote'[g].ap)
    BY <1>3, <2>1 DEF SweepInv, SweepLogs
  <2>2. ASSUME Sweeping, NEW g \in LogNames, g.kind = "n", remote'[g] # NoLog,
               remote'[g].by = run'
        PROVE  SweepLog(g.id, remote[g].ap)'
    <3>1. SweepLog(g.id, remote'[g].ap)
      BY <1>1, <2>1, <2>2
    <3> QED
      BY <1>1, <3>1 DEF SweepLog, Once, n_tdma
  <2>3. ASSUME Sweeping, NEW g \in LogNames, g.kind = "n", local'[g] # NoLog,
               local'[g].by = run'
        PROVE  SweepLog(g.id, local[g].ap)'
    <3>1. SweepLog(g.id, local[g].ap)
      BY <1>1, <2>3 DEF SweepInv, SweepLogs
    <3> QED
      BY <1>1, <3>1 DEF SweepLog, Once, n_tdma
  <2>4. ASSUME Sweeping, NEW b \in clients', b.by = run', b.log.kind = "n"
        PROVE  SweepLog(b.log.id, b.ap)'
    <3>1. SweepLog(b.log.id, b.ap)
      BY <1>1, <2>4 DEF SweepInv, SweepLogs
    <3> QED
      BY <1>1, <3>1 DEF SweepLog, Once, n_tdma
  <2>5. Sweeping' => Sweeping
    BY <1>1 DEF Sweeping
  <2> QED
    BY <2>2, <2>3, <2>4, <2>5 DEF SweepLogs
<1>5. ApHolds' /\ PastRuns'
  BY <1>1 DEF SweepInv, ApHolds, PastRuns, n_tdma
<1>6. SweepRowsMatchConfiguration'
  BY <1>1 DEF SweepInv, SweepRowsMatchConfiguration, Once
<1> QED
  BY <1>4, <1>5, <1>6 DEF SweepInv

LEMMA SweepStep == TypeInv /\ EchoInv /\ SweepInv /\ [Next]_vars => SweepInv'
  BY SweepSteps, SweepOutside, SweepBeside, SweepStarts, SweepConfigures, SweepMeasures,
     SweepParses, SweepFinishes

(* --------------------------- Origin of old rows ------------------------- *)

(* A log written in this run is still there, or was overwritten by a client *)
(* of an earlier run that ended in this one.                                *)
WroteInv ==
    pc # "idle" => \A f \in LogNames :
        [log |-> f, by |-> run] \in wrote =>
           /\ remote[f] # NoLog
           /\ [log |-> f, by |-> remote[f].by] \in wrote

(* Logs are written where that is recorded.                                 *)
LEMMA WrittenRecorded ==
    ASSUME TypeInv, WroteInv, pc # "idle", pc' # "idle", run' = run,
           NEW g \in LogNames, NEW log \in Logs,
           remote' = [remote EXCEPT ![g] = log],
           wrote' = wrote \cup {[log |-> g, by |-> log.by]}
    PROVE  WroteInv'
<1>1. remote \in [LogNames -> Logs \cup {NoLog}]
  BY DEF TypeInv, TestbedTypeOK
<1> SUFFICES ASSUME NEW f \in LogNames, [log |-> f, by |-> run] \in wrote'
             PROVE  /\ remote'[f] # NoLog
                    /\ [log |-> f, by |-> remote'[f].by] \in wrote'
  BY DEF WroteInv
<1>2. CASE f = g
  <2>1. remote'[f] = log
    BY <1>1, <1>2
  <2> QED
    BY <1>2, <2>1, NoLogAssumption
<1>3. CASE f # g
  <2>1. remote'[f] = remote[f]
    BY <1>1, <1>3
  <2>2. [log |-> f, by |-> run] \in wrote
    BY <1>3
  <2> QED
    BY <2>1, <2>2 DEF WroteInv
<1> QED
  BY <1>2, <1>3

LEMMA WroteStep == TypeInv /\ WroteInv /\ [Next]_vars => WroteInv'
<1> SUFFICES ASSUME TypeInv, WroteInv, [Next]_vars PROVE WroteInv'
  OBVIOUS
<1> USE DEF argVars, scriptVars, echoVars
<1>1. CASE pc' = "idle"
  BY <1>1 DEF WroteInv
<1>2. CASE wrote' = {}
  BY <1>2 DEF WroteInv
<1>3. CASE pc # "idle" /\ UNCHANGED <<run, remote, wrote>>
  BY <1>3 DEF WroteInv
<1>4. StartOrchestrator \/ StartSweep \/ Interrupt => wrote' = {}
  BY DEF StartOrchestrator, StartSweep, Begin, Interrupt, End
<1>5. Orchestrator => wrote' = {} \/ (pc # "idle" /\ UNCHANGED <<run, remote, wrote>>)
  BY DEF Orchestrator, ConfigureAp, AfterConfigure, JoinStation, JoinWrites, StartEchoServer, StartEchoClient, Wait,
         Collect, CleanupAp, CleanupSta, SaveResults, End
<1>6. ASSUME Sweep PROVE WroteInv'
  <2>1. SweepConfigure \/ SweepRaises \/ SweepParse \/ SweepSave =>
           wrote' = {} \/ (pc # "idle" /\ UNCHANGED <<run, remote, wrote>>)
    BY DEF SweepConfigure, SweepRaises, SweepParse, SweepSave, End
  <2>2. ASSUME SweepMeasure PROVE WroteInv'
    <3> DEFINE f == echo_n(n_tdma, repeat)
    <3>1. pc = "sw_measure" /\ pc' = "sw_parse" /\ run' = run
      BY <2>2 DEF SweepMeasure
    <3>2. f \in LogNames /\ run \in 1 .. MaxRepeats
      BY <3>1, Values, NameType, TestbedAssumption
         DEF TypeInv, PlaceOK, TestbedTypeOK, Sweeping, n_tdma
    <3> HIDE DEF f
    <3>3. CASE UNCHANGED <<remote, wrote>>
      BY <1>3, <3>1, <3>3
    <3>4. CASE /\ \E lost \in 0 .. Slack :
                     remote' = [remote EXCEPT ![f] = [by |-> run, lost |-> lost,
                                                      ap |-> {dev[AP]}]]
               /\ wrote' = wrote \cup {[log |-> f, by |-> run]}
      <4> PICK lost \in 0 .. Slack :
                 remote' = [remote EXCEPT ![f] = [by |-> run, lost |-> lost,
                                                  ap |-> {dev[AP]}]]
        BY <3>4
      <4> DEFINE log == [by |-> run, lost |-> lost, ap |-> {dev[AP]}]
      <4>0. {dev[AP]} \in SUBSET (SUBSET DriverBits)
        BY Constants DEF TypeInv, TestbedTypeOK
      <4>1. log \in Logs
        BY <3>2, <4>0, TestbedAssumption DEF Logs
      <4>2. log.by = run
        OBVIOUS
      <4> QED
        BY <3>1, <3>2, <3>4, <4>1, <4>2, WrittenRecorded
    <3> QED
      BY <2>2, <3>3, <3>4 DEF SweepMeasure, f
  <2> QED
    BY <1>2, <1>3, <1>6, <2>1, <2>2 DEF Sweep
<1>7. ASSUME Hosts PROVE WroteInv'
  <2>1. CASE UNCHANGED <<run, pc, remote, wrote>>
    BY <1>3, <1>1, <2>1
  <2>2. ASSUME NEW c \in clients, ClientFinishes(c) PROVE WroteInv'
    <3> PICK lost \in Losses(c) :
               remote' = [remote EXCEPT ![c.log] = [by |-> c.by, lost |-> lost,
                                                    ap |-> c.ap]]
      BY <2>2 DEF ClientFinishes
    <3> DEFINE log == [by |-> c.by, lost |-> lost, ap |-> c.ap]
    <3>1. /\ UNCHANGED <<run, pc>>
          /\ pc # "idle" => wrote' = wrote \cup {[log |-> c.log, by |-> c.by]}
      BY <2>2 DEF ClientFinishes
    <3>2. /\ c.log \in LogNames /\ c.by \in 1 .. MaxRepeats
          /\ c.ap \in SUBSET (SUBSET DriverBits)
      BY DEF TypeInv, TestbedTypeOK, Clients
    <3>3. log \in Logs
      BY <3>2, TestbedAssumption DEF Losses, Logs
    <3>4. log.by = c.by
      OBVIOUS
    <3> QED
      BY <1>1, <3>1, <3>2, <3>3, <3>4, WrittenRecorded
  <2>3. \A c \in tdma_clients :
           LateConnect(c) \/ LateWrite(c) => UNCHANGED <<run, pc, remote, wrote>>
    BY DEF LateConnect, LateWrite
  <2>4. \A c \in clients : ClientDies(c) => UNCHANGED <<run, pc, remote, wrote>>
    BY DEF ClientDies
  <2>5. StartEchoByHand => UNCHANGED <<run, pc, remote, wrote>>
    BY DEF StartEchoByHand
  <2> QED
    BY <1>7, <2>1, <2>2, <2>3, <2>4, <2>5 DEF Hosts
<1>8. CASE UNCHANGED vars
  BY <1>8 DEF vars, testbedVars, WroteInv
<1> QED
  BY <1>2, <1>3, <1>4, <1>5, <1>6, <1>7, <1>8 DEF Next, Script

NewRowsExplained ==
    /\ \A row \in all_results' \ all_results :
          OldLog(row, echo_sta(row.station, row.repeat))
    /\ \A row \in results' \ results :
          OldLog(row, echo_n(row.n_tdma, row.repeat))

(* A log that is there for the taking.                                      *)
LEMMA RemoteLog ==
    ASSUME WroteInv, pc # "idle", NEW f \in LogNames, NEW row, row.log = remote[f]
    PROVE  OldLog(row, f)
  BY DEF WroteInv, OldLog

LEMMA CollectedRow ==
    ASSUME TypeInv, WroteInv, Collect, UNCHANGED sweepVars
    PROVE  NewRowsExplained
<1> DEFINE f == echo_sta(idx, repeat)
           new == [station |-> idx, repeat |-> repeat, log |-> remote[f]]
<1>1. pc = "collect" /\ results' = results
  BY DEF Collect, sweepVars
<1>2. f \in LogNames
  BY <1>1, NameType, TestbedAssumption
     DEF TypeInv, PlaceOK, TestbedTypeOK, Orchestrating, Measuring, Sweeping
<1>3. all_results' \subseteq all_results \cup {new}
  <2>1. CASE Copy(f) /\ Record(local'[f])
    <3>1. local'[f] = remote[f]
      BY <1>2, <2>1 DEF Copy, TypeInv, TestbedTypeOK
    <3> QED
      BY <2>1, <3>1 DEF Record
  <2> QED
    BY <2>1 DEF Collect
<1>4. new.station = idx /\ new.repeat = repeat /\ new.log = remote[f]
  OBVIOUS
<1>5. OldLog(new, echo_sta(new.station, new.repeat))
  <2>1. OldLog(new, f)
    BY <1>1, <1>2, <1>4, RemoteLog
  <2> QED
    BY <1>4, <2>1
<1> HIDE DEF new, f
<1> QED
  BY <1>1, <1>3, <1>5 DEF NewRowsExplained

LEMMA ParsedRow ==
    ASSUME TypeInv, WroteInv, SweepParse, UNCHANGED orchestratorVars
    PROVE  NewRowsExplained
<1> DEFINE f == echo_n(n_tdma, repeat)
<1>1. pc = "sw_parse" /\ all_results' = all_results
  BY DEF SweepParse, orchestratorVars
<1>2. f \in LogNames /\ f.kind = "n"
  BY <1>1, Values, NameType, TestbedAssumption
     DEF TypeInv, PlaceOK, TestbedTypeOK, Sweeping, n_tdma, echo_n
<1> HIDE DEF f
<1>3. CASE results' = results
  BY <1>1, <1>3 DEF NewRowsExplained
<1>4. CASE local'[f] # NoLog /\ Measured(local'[f])
  <2> DEFINE new == [n_tdma |-> n_tdma, repeat |-> repeat, log |-> local'[f]]
  <2>1. results' = results \cup {new}
    BY <1>4 DEF Measured
  <2>2. new.n_tdma = n_tdma /\ new.repeat = repeat /\ new.log = local'[f]
    OBVIOUS
  <2> HIDE DEF new
  <2>3. OldLog(new, f)
    <3>1. CASE Copy(f)
      <4>1. local'[f] = remote[f]
        BY <1>2, <3>1 DEF Copy, TypeInv, TestbedTypeOK
      <4> QED
        BY <1>1, <1>2, <2>2, <4>1, RemoteLog
    <3>2. CASE CopyFails(f) /\ remote[f] = NoLog
      BY <1>1, <1>2, <3>2 DEF WroteInv, OldLog
    <3>3. CASE CopyFails(f) /\ remote[f] # NoLog
      <4>1. local' = local /\ faults' = faults + 1 /\ faults \in Nat
        BY <3>3 DEF CopyFails, Fails, TypeInv, TestbedTypeOK
      <4> QED
        BY <1>2, <2>2, <4>1 DEF OldLog
    <3> QED
      BY <3>1, <3>2, <3>3 DEF SweepParse, f
  <2>4. OldLog(new, echo_n(new.n_tdma, new.repeat))
    BY <2>2, <2>3 DEF f
  <2> QED
    BY <1>1, <2>1, <2>4 DEF NewRowsExplained
<1> QED
  BY <1>3, <1>4 DEF SweepParse, f

LEMMA NewRows == TypeInv /\ WroteInv /\ [Next]_vars => NewRowsExplained
<1> SUFFICES ASSUME TypeInv, WroteInv, [Next]_vars PROVE NewRowsExplained
  OBVIOUS
<1> USE DEF orchestratorVars, sweepVars
<1>1. CASE all_results' \subseteq all_results /\ results' \subseteq results
  BY <1>1 DEF NewRowsExplained
<1>2. StartOrchestrator /\ UNCHANGED sweepVars =>
         all_results' \subseteq all_results /\ results' \subseteq results
  BY DEF StartOrchestrator
<1>3. StartSweep /\ UNCHANGED orchestratorVars =>
         all_results' \subseteq all_results /\ results' \subseteq results
  BY DEF StartSweep
<1>4. Orchestrator /\ ~Collect => all_results' = all_results
  BY DEF Orchestrator, ConfigureAp, AfterConfigure, JoinStation, JoinWrites,
         StartEchoServer, StartEchoClient, Wait, CleanupAp, CleanupSta, SaveResults
<1>5. Sweep /\ ~SweepParse => results' = results
  BY DEF Sweep, SweepConfigure, SweepRaises, SweepMeasure, SweepSave
<1>6. CASE Script
  BY <1>1, <1>4, <1>5, <1>6, CollectedRow, ParsedRow DEF Script
<1> QED
  BY <1>1, <1>2, <1>3, <1>6 DEF Next, vars

(* ------------------------- The logs of the rows ------------------------- *)

(* A log under a station's name is a station's, on its host and as copied.  *)
NamesInv ==
    /\ \A c \in clients : c.log.kind = "sta" => c.log.id \in Stations
    /\ \A f \in LogNames : f.kind = "sta" /\ f.id \notin Stations =>
          remote[f] = NoLog /\ local[f] = NoLog

(* The log of a row is as it was copied, since the rest of the script goes  *)
(* on to other stations and repeats; that of a row in the table is there.   *)
CopiesInv ==
    /\ \A row \in all_results :
          /\ local[echo_sta(row.station, row.repeat)] = row.log
          /\ pc = "collect" /\ row.repeat = repeat => row.station < idx
    /\ \A row \in csv : local[echo_sta(row.station, row.repeat)] # NoLog

LEMMA LateLogs ==
    ASSUME NEW cs \in SUBSET Clients, NEW c \in Late(cs)
    PROVE  \E b \in cs : c.log = b.log
  BY DEF Late, Clients

LEMMA NamesStep == TypeInv /\ NamesInv /\ [Next]_vars => NamesInv'
<1> SUFFICES ASSUME TypeInv, NamesInv, [Next]_vars PROVE NamesInv'
  OBVIOUS
<1> USE DEF echoVars, slotVars, testbedVars
<1> DEFINE Good(f) == f.kind = "sta" => f.id \in Stations
<1>1. ASSUME \A c \in clients' : Good(c.log),
             \/ remote' = remote
             \/ \E f \in LogNames : \E log : Good(f) /\ remote' = [remote EXCEPT ![f] = log],
             \/ local' = local
             \/ \E f \in LogNames : Good(f) /\ local' = [local EXCEPT ![f] = remote[f]]
      PROVE  NamesInv'
  <2>1. /\ remote \in [LogNames -> Logs \cup {NoLog}]
        /\ local \in [LogNames -> Logs \cup {NoLog}]
    BY DEF TypeInv, TestbedTypeOK
  <2>2. \A f \in LogNames : ~Good(f) => remote'[f] = remote[f] /\ local'[f] = local[f]
    BY <1>1, <2>1
  <2> QED
    BY <1>1, <2>2 DEF NamesInv
<1>2. \A c \in clients : Good(c.log)
  BY DEF NamesInv
<1>3. /\ \A s \in Stations, r \in Nat : Good(echo_sta(s, r))
      /\ \A n, r : Good(echo_n(n, r))
  BY DEF echo_sta, echo_n
<1>4. CASE UNCHANGED <<clients, remote, local>>
  BY <1>1, <1>2, <1>4
<1>5. StartOrchestrator \/ StartSweep => UNCHANGED <<clients, remote, local>>
  BY DEF StartOrchestrator, StartSweep
<1>6. ASSUME Interrupt PROVE NamesInv'
  <2>1. \A c \in clients' : \E b \in clients : c.log = b.log
    <3>1. clients \in SUBSET Clients
      BY DEF TypeInv, TestbedTypeOK
    <3> QED
      BY <1>6, <3>1, LateLogs DEF Interrupt
  <2> QED
    BY <1>1, <1>2, <1>6, <2>1 DEF Interrupt
<1>7. ASSUME Orchestrator PROVE NamesInv'
  <2>0. pc \in {"client", "collect"} => idx \in Stations /\ repeat \in Nat
                                        /\ echo_sta(idx, repeat) \in LogNames
    BY NameType, TestbedAssumption
       DEF TypeInv, PlaceOK, TestbedTypeOK, Orchestrating, Measuring, Sweeping
  <2>1. JoinStation \/ JoinWrites \/ Wait \/ CleanupAp \/ SaveResults =>
           UNCHANGED <<clients, remote, local>>
    BY DEF JoinStation, JoinWrites, Wait, CleanupAp, SaveResults
  <2>6. ASSUME ConfigureAp PROVE NamesInv'
    <3>1. \A c \in clients' : \E b \in clients : c.log = b.log
      BY <2>6, SeenClients DEF ConfigureAp
    <3> QED
      BY <1>1, <1>2, <2>6, <3>1 DEF ConfigureAp, AfterConfigure
  <2>2. ASSUME StartEchoServer PROVE NamesInv'
    <3>1. \A c \in clients' : \E b \in clients : c.log = b.log
      BY <2>2 DEF StartEchoServer, TypeInv, TestbedTypeOK, Clients
    <3> QED
      BY <1>1, <1>2, <2>2, <3>1 DEF StartEchoServer
  <2>3. ASSUME StartEchoClient PROVE NamesInv'
    <3>1. \A c \in clients' : c \in clients \/ c.log = echo_sta(idx, repeat)
      BY <2>3 DEF StartEchoClient
    <3>2. \A c \in clients' : Good(c.log)
      BY <1>2, <1>3, <2>0, <2>3, <3>1 DEF StartEchoClient
    <3> QED
      BY <1>1, <2>3, <3>2 DEF StartEchoClient
  <2>4. ASSUME Collect PROVE NamesInv'
    <3>1. /\ UNCHANGED <<clients, remote>>
          /\ \/ local' = local
             \/ local' = [local EXCEPT ![echo_sta(idx, repeat)]
                             = remote[echo_sta(idx, repeat)]]
      BY <2>4 DEF Collect, Copy, CopyFails
    <3>2. Good(echo_sta(idx, repeat)) /\ echo_sta(idx, repeat) \in LogNames
      BY <1>3, <2>0, <2>4 DEF Collect
    <3> QED
      BY <1>1, <1>2, <3>1, <3>2
  <2>5. ASSUME CleanupSta PROVE NamesInv'
    <3>1. \A c \in clients' : \E b \in clients : c.log = b.log
      <4> DEFINE here == {c \in clients : c.sta = idx}
      <4>1. here \in SUBSET Clients /\ here \subseteq clients
        BY DEF TypeInv, TestbedTypeOK
      <4>2. clients' = clients \ here \/ clients' = (clients \ here) \cup Late(here)
        BY <2>5 DEF CleanupSta
      <4> HIDE DEF here
      <4> QED
        BY <4>1, <4>2, LateLogs
    <3> QED
      BY <1>1, <1>2, <2>5, <3>1 DEF CleanupSta
  <2> QED
    BY <1>4, <1>7, <2>1, <2>2, <2>3, <2>4, <2>5, <2>6 DEF Orchestrator
<1>8. ASSUME Sweep PROVE NamesInv'
  <2>0. pc \in {"sw_measure", "sw_parse"} => echo_n(n_tdma, repeat) \in LogNames
    BY Values, NameType, TestbedAssumption
       DEF TypeInv, PlaceOK, TestbedTypeOK, Sweeping, n_tdma
  <2>1. SweepRaises \/ SweepSave => UNCHANGED <<clients, remote, local>>
    BY DEF SweepRaises, SweepSave
  <2>4. ASSUME SweepConfigure PROVE NamesInv'
    <3>1. \A c \in clients' : \E b \in clients : c.log = b.log
      BY <2>4, SeenClients DEF SweepConfigure
    <3> QED
      BY <1>1, <1>2, <2>4, <3>1 DEF SweepConfigure
  <2>2. ASSUME SweepMeasure PROVE NamesInv'
    <3>1. /\ \A c \in clients' : c \in clients \/ c.log = echo_n(n_tdma, repeat)
          /\ \/ remote' = remote
             \/ \E log : remote' = [remote EXCEPT ![echo_n(n_tdma, repeat)] = log]
          /\ local' = local
      BY <2>2 DEF SweepMeasure
    <3>2. \A c \in clients' : Good(c.log)
      BY <1>2, <1>3, <3>1
    <3>3. echo_n(n_tdma, repeat) \in LogNames /\ Good(echo_n(n_tdma, repeat))
      BY <1>3, <2>0, <2>2 DEF SweepMeasure
    <3> QED
      BY <1>1, <3>1, <3>2, <3>3
  <2>3. ASSUME SweepParse PROVE NamesInv'
    <3>1. /\ UNCHANGED <<clients, remote>>
          /\ \/ local' = local
             \/ local' = [local EXCEPT ![echo_n(n_tdma, repeat)]
                             = remote[echo_n(n_tdma, repeat)]]
      BY <2>3 DEF SweepParse, Copy, CopyFails
    <3>2. echo_n(n_tdma, repeat) \in LogNames /\ Good(echo_n(n_tdma, repeat))
      BY <1>3, <2>0, <2>3 DEF SweepParse
    <3> QED
      BY <1>1, <1>2, <3>1, <3>2
  <2> QED
    BY <1>4, <1>8, <2>1, <2>2, <2>3, <2>4 DEF Sweep
<1>9. ASSUME Hosts PROVE NamesInv'
  <2>1. ASSUME NEW c \in clients, ClientFinishes(c) PROVE NamesInv'
    <3>1. PICK lost : remote' = [remote EXCEPT ![c.log] = [by |-> c.by, lost |-> lost,
                                                           ap |-> c.ap]]
      BY <2>1 DEF ClientFinishes
    <3>2. c.log \in LogNames /\ Good(c.log)
      BY <1>2 DEF TypeInv, TestbedTypeOK, Clients
    <3>3. clients' \subseteq clients /\ local' = local
      BY <2>1 DEF ClientFinishes
    <3> QED
      BY <1>1, <1>2, <3>1, <3>2, <3>3
  <2>2. ASSUME NEW c \in clients, ClientDies(c) PROVE NamesInv'
    BY <1>1, <1>2, <2>2 DEF ClientDies
  <2>3. \A c \in tdma_clients :
           LateConnect(c) \/ LateWrite(c) => UNCHANGED <<clients, remote, local>>
    BY DEF LateConnect, LateWrite
  <2>4. StartEchoByHand => UNCHANGED <<clients, remote, local>>
    BY DEF StartEchoByHand
  <2> QED
    BY <1>4, <1>9, <2>1, <2>2, <2>3, <2>4 DEF Hosts
<1>10. UNCHANGED vars => UNCHANGED <<clients, remote, local>>
  BY DEF vars
<1> QED
  BY <1>4, <1>5, <1>6, <1>7, <1>8, <1>9, <1>10 DEF Next, Script

(* A row's log under its name is another than that which a sweep copies.    *)
LEMMA SweepCopiesOthers ==
    ASSUME NEW s, NEW n, NEW r, NEW k
    PROVE  echo_sta(s, r) # echo_n(n, k)
<1>1. echo_sta(s, r).kind = "sta" /\ echo_n(n, k).kind = "n"
  BY DEF echo_sta, echo_n
<1> QED
  BY <1>1

LEMMA RowNames ==
    ASSUME TypeInv, NEW row \in all_results \cup csv
    PROVE  /\ row \in Rows /\ row.log \in Logs /\ row.log # NoLog
           /\ row.station \in Stations /\ row.repeat \in 1 .. MaxRepeats
           /\ echo_sta(row.station, row.repeat) \in LogNames
           /\ echo_sta(row.station, row.repeat).id = row.station
           /\ echo_sta(row.station, row.repeat).repeat = row.repeat
  BY NameType, NoLogAssumption DEF TypeInv, RowsOK, Rows, echo_sta

LEMMA CopiesKept ==
    ASSUME TypeInv, CopiesInv, local' = local,
           all_results' \subseteq all_results, csv' \subseteq all_results \cup csv,
           \/ pc' # "collect"
           \/ pc = "collect" /\ UNCHANGED <<pc, repeat, idx>>
           \/ \A row \in all_results : row.repeat # repeat'
    PROVE  CopiesInv'
<1>1. \A row \in all_results \cup csv : local[echo_sta(row.station, row.repeat)] # NoLog
  BY RowNames DEF CopiesInv
<1>2. ASSUME NEW row \in all_results'
      PROVE  local[echo_sta(row.station, row.repeat)] = row.log
             /\ (pc' = "collect" /\ row.repeat = repeat' => row.station < idx')
  BY DEF CopiesInv
<1> QED
  BY <1>1, <1>2 DEF CopiesInv

LEMMA CopiesCollect ==
    ASSUME TypeInv, CopiesInv, EchoInv, Collect
    PROVE  CopiesInv'
<1> DEFINE f == echo_sta(idx, repeat)
           new == [station |-> idx, repeat |-> repeat, log |-> remote[f]]
<1>1. pc = "collect" /\ idx \in Stations /\ Stations \subseteq Nat
      /\ repeat \in 1 .. MaxRepeats /\ repeat' = repeat /\ csv' = csv
      /\ f \in LogNames
  BY Constants, NameType, TestbedAssumption
     DEF Collect, argVars, TypeInv, PlaceOK, TestbedTypeOK, Orchestrating, Measuring, Sweeping
<1>2. pc' = "collect" => idx' = idx + 1
  BY <1>1 DEF Collect, EachStation
<1>3. \/ Copy(f) /\ all_results' = all_results \cup {new}
      \/ local' = local /\ all_results' = all_results
  <2>1. Copy(f) => local'[f] = remote[f]
    BY <1>1 DEF Copy, TypeInv, TestbedTypeOK
  <2> QED
    BY <2>1 DEF Collect, Record, CopyFails
<1>4. \A row \in all_results : row.repeat = repeat => row.station < idx
  BY <1>1 DEF CopiesInv
<1>5. ASSUME NEW row \in all_results \cup csv,
             echo_sta(row.station, row.repeat) = f
      PROVE  row.station = idx /\ row.repeat = repeat
  BY <1>5, RowNames DEF echo_sta
<1>6. new.station = idx /\ new.repeat = repeat /\ new.log = remote[f]
  OBVIOUS
<1>7. ASSUME Copy(f)
      PROVE  /\ local'[f] = remote[f] /\ remote[f] # NoLog
             /\ \A g \in LogNames : g # f => local'[g] = local[g]
  BY <1>1, <1>7 DEF Copy, TypeInv, TestbedTypeOK
<1> HIDE DEF f, new
<1>8. ASSUME NEW row \in all_results
      PROVE  /\ local'[echo_sta(row.station, row.repeat)] = row.log
             /\ pc' = "collect" /\ row.repeat = repeat' => row.station < idx'
  <2>1. echo_sta(row.station, row.repeat) # f
    <3>1. row.station \in Nat
      BY <1>1, RowNames
    <3> QED
      BY <1>1, <1>4, <1>5, <3>1
  <2>2. local'[echo_sta(row.station, row.repeat)] = local[echo_sta(row.station, row.repeat)]
    BY <1>3, <1>7, <2>1, RowNames
  <2>3. row.station \in Nat /\ idx \in Nat
    BY <1>1, RowNames
  <2> QED
    BY <1>1, <1>2, <1>4, <2>2, <2>3 DEF CopiesInv
<1>9. new \in all_results' /\ new \notin all_results =>
         /\ local'[echo_sta(new.station, new.repeat)] = new.log
         /\ pc' = "collect" /\ new.repeat = repeat' => new.station < idx'
  BY <1>1, <1>2, <1>3, <1>6, <1>7 DEF f
<1>10. \A row \in csv : local'[echo_sta(row.station, row.repeat)] # NoLog
  <2> SUFFICES ASSUME NEW row \in csv
               PROVE  local'[echo_sta(row.station, row.repeat)] # NoLog
    OBVIOUS
  <2>1. local[echo_sta(row.station, row.repeat)] # NoLog
    BY DEF CopiesInv
  <2> QED
    BY <1>3, <1>7, <2>1, RowNames
<1> QED
  BY <1>1, <1>3, <1>8, <1>9, <1>10 DEF CopiesInv

LEMMA CopiesParse ==
    ASSUME TypeInv, CopiesInv, SweepParse, UNCHANGED orchestratorVars
    PROVE  CopiesInv'
<1> DEFINE f == echo_n(n_tdma, repeat)
<1>1. pc' # "collect"
  BY DEF SweepParse, NextMeasurement
<1>2. \A row \in all_results \cup csv :
         local'[echo_sta(row.station, row.repeat)]
           = local[echo_sta(row.station, row.repeat)]
  <2>1. local' = local \/ local' = [local EXCEPT ![f] = remote[f]]
    BY DEF SweepParse, Copy, CopyFails
  <2> HIDE DEF f
  <2>2. \A g \in LogNames : g # f => local'[g] = local[g]
    BY <2>1 DEF TypeInv, TestbedTypeOK
  <2> QED
    BY <2>2, RowNames, SweepCopiesOthers DEF f
<1> QED
  BY <1>1, <1>2 DEF CopiesInv, orchestratorVars

LEMMA CopiesStep == TypeInv /\ EchoInv /\ CopiesInv /\ [Next]_vars => CopiesInv'
<1> SUFFICES ASSUME TypeInv, EchoInv, CopiesInv, [Next]_vars PROVE CopiesInv'
  OBVIOUS
<1> USE DEF argVars, scriptVars, orchestratorVars
<1> DEFINE Kept == /\ local' = local /\ all_results' \subseteq all_results
                   /\ csv' \subseteq all_results \cup csv
                   /\ pc' # "collect" \/ UNCHANGED <<pc, repeat, idx>>
<1>1. Kept => CopiesInv'
  BY CopiesKept
<1>2. StartOrchestrator \/ (StartSweep /\ UNCHANGED orchestratorVars) => Kept
  BY DEF StartOrchestrator, StartSweep, Begin
<1>3. ASSUME Orchestrator PROVE CopiesInv'
  <2>1. ConfigureAp \/ JoinStation \/ JoinWrites \/ StartEchoServer
           \/ StartEchoClient \/ CleanupAp \/ CleanupSta \/ SaveResults => Kept
    BY DEF ConfigureAp, AfterConfigure, JoinStation, JoinWrites, StartEchoServer,
           StartEchoClient, CleanupAp, CleanupSta, SaveResults, EachStation, End
  <2>2. ASSUME Wait PROVE CopiesInv'
    <3>1. \A row \in all_results : row.repeat # repeat
      <4>1. \A row \in all_results : row.repeat < repeat
        BY <2>2 DEF Wait, EchoInv, RowInv, RowOfRun, Orchestrating, Measuring
      <4>2. \A row \in all_results : row.repeat \in Nat
        BY RowNames
      <4> QED
        BY <4>1, <4>2 DEF TypeInv, TestbedTypeOK
    <3> QED
      BY <2>2, <3>1, CopiesKept DEF Wait
  <2> QED
    BY <1>1, <1>3, <2>1, <2>2, CopiesCollect DEF Orchestrator
<1>4. ASSUME Sweep, UNCHANGED orchestratorVars PROVE CopiesInv'
  <2>1. SweepConfigure \/ SweepRaises \/ SweepMeasure \/ SweepSave => Kept
    BY <1>4 DEF SweepConfigure, SweepRaises, SweepMeasure, SweepSave, End
  <2> QED
    BY <1>1, <1>4, <2>1, CopiesParse DEF Sweep
<1>5. Interrupt /\ UNCHANGED orchestratorVars => Kept
  BY DEF Interrupt, End
<1>6. Hosts /\ UNCHANGED orchestratorVars => Kept
  BY DEF Hosts, LateConnect, LateWrite, ClientFinishes, ClientDies, StartEchoByHand
<1>7. UNCHANGED vars => Kept
  BY DEF vars, testbedVars
<1> QED
  BY <1>1, <1>2, <1>3, <1>4, <1>5, <1>6, <1>7 DEF Next, Script

(* -------------------------- What the analyzer sees ---------------------- *)

(* A directory of station's logs alone, as far as stations' names go.       *)
LEMMA CopiesAreDirectory ==
    ASSUME TypeInv, NamesInv
    PROVE  /\ IsDirectory(local)
           /\ DOMAIN analyze_logs(local) \subseteq Stations
<1>1. local \in [LogNames -> Logs \cup {NoLog}]
  BY DEF TypeInv, TestbedTypeOK
<1>2. IsDirectory(local)
  BY <1>1 DEF IsDirectory
<1>3. \A f \in DOMAIN local : f \in echo_files(local, f.id) => f.id \in Stations
  BY <1>1 DEF echo_files, NamesInv
<1>4. DOMAIN analyze_logs(local) \subseteq Stations
  BY <1>3 DEF analyze_logs
<1> QED
  BY <1>2, <1>4

(* The file of a row of the table or of the run.                            *)
LEMMA RowHasFile ==
    ASSUME TypeInv, CopiesInv, NEW row \in all_results \cup csv
    PROVE  /\ echo_sta(row.station, row.repeat) \in echo_files(local, row.station)
           /\ row.station \in DOMAIN analyze_logs(local)
<1> DEFINE f == echo_sta(row.station, row.repeat)
<1>1. f \in DOMAIN local /\ f.kind = "sta" /\ f.id = row.station
  BY RowNames DEF TypeInv, TestbedTypeOK, echo_sta
<1>2. local[f] # NoLog
  BY RowNames DEF CopiesInv
<1> HIDE DEF f
<1>3. f \in echo_files(local, f.id)
  BY <1>1, <1>2 DEF echo_files
<1>4. f.id \in DOMAIN analyze_logs(local)
  BY <1>1, <1>3 DEF analyze_logs
<1> QED
  BY <1>1, <1>3, <1>4 DEF f

(* Rows of a station in this run have files of their own.                   *)
LEMMA RowsAreFiles ==
    ASSUME TypeInv, NamesInv, CopiesInv, NEW s \in DOMAIN analyze_logs(local)
    PROVE  analyze_logs(local)[s].num_runs
             >= Cardinality({row \in all_results : row.station = s})
<1> DEFINE of == {row \in all_results : row.station = s}
           files == echo_files(local, s)
           file == [row \in of |-> echo_sta(row.station, row.repeat)]
<1>1. IsFiniteSet(files) /\ analyze_logs(local)[s].num_runs = Cardinality(files)
  BY CopiesAreDirectory, FilesOfStation, AnalyzedStation
<1>2. file \in Injection(of, files)
  <2>1. \A row \in of : echo_sta(row.station, row.repeat) \in files
    BY RowHasFile
  <2>2. ASSUME NEW x \in of, NEW y \in of,
               echo_sta(x.station, x.repeat) = echo_sta(y.station, y.repeat)
        PROVE  x = y
    <3>1. x \in all_results /\ y \in all_results
      OBVIOUS
    <3>2. x.log = y.log
      BY <2>2, <3>1 DEF CopiesInv
    <3>3. x.station = y.station /\ x.repeat = y.repeat
      BY <2>2, <3>1, RowNames
    <3>4. x \in Rows /\ y \in Rows
      BY <3>1, RowNames
    <3> QED
      BY <3>2, <3>3, <3>4 DEF Rows
  <2> HIDE DEF of, files
  <2> QED
    BY <2>1, <2>2 DEF Injection, IsInjective
<1> HIDE DEF of, files, file
<1>3. Cardinality(of) <= Cardinality(files)
  BY <1>1, <1>2, FS_Injection
<1>4. Cardinality(of) \in Nat /\ Cardinality(files) \in Nat
  BY <1>1, <1>2, FS_Injection, FS_CardinalityType
<1> QED
  BY <1>1, <1>3, <1>4 DEF of

LEMMA EveryRowSeen ==
    ASSUME TypeInv, NamesInv, CopiesInv
    PROVE  AnalyzerSeesEveryRow
<1> DEFINE found == analyze_single_dir(local, csv)
<1>1. \A row \in all_results : local[echo_sta(row.station, row.repeat)] = row.log
  BY DEF CopiesInv
<1>2. \A row \in csv \cup all_results : row.station \in DOMAIN analyze_logs(local)
  BY RowHasFile
<1>3. ASSUME NEW s \in DOMAIN found
      PROVE  found[s].num_runs
               >= Cardinality({row \in all_results : row.station = s})
  <2>1. found = analyze_logs(local)
    <3>1. CASE DOMAIN analyze_logs(local) # {}
      BY <3>1 DEF analyze_single_dir
    <3>2. CASE DOMAIN analyze_logs(local) = {}
      <4>1. csv = {}
        BY <1>2, <3>2
      <4>2. DOMAIN analyze_aggregated_csv(csv) = {}
        BY <4>1 DEF analyze_aggregated_csv
      <4> QED
        BY <3>2, <4>2 DEF analyze_single_dir
    <3> QED
      BY <3>1, <3>2
  <2> QED
    BY <2>1, RowsAreFiles
<1> HIDE DEF found
<1> QED
  BY <1>1, <1>2, <1>3 DEF AnalyzerSeesEveryRow, found

(* ------------------------ What the analyzer makes of it ----------------- *)

(* The tables are finite: rows are of stations, repeats and logs.           *)
LEMMA RowsFinite == IsFiniteSet(Rows)
<1> DEFINE S == Stations \X (1 .. MaxRepeats)
           W == SUBSET (SUBSET DriverBits)
           L == ((1 .. MaxRepeats) \X (0 .. Count)) \X W
           at == [row \in Rows |->
                     <<<<row.station, row.repeat>>,
                       <<<<row.log.by, row.log.lost>>, row.log.ap>>>>]
<1>0. /\ IsFiniteSet(Stations) /\ IsFiniteSet(1 .. MaxRepeats)
      /\ IsFiniteSet(0 .. Count) /\ IsFiniteSet(DriverBits)
  <2>1. /\ num_stas - 1 \in Int /\ MaxRepeats \in Int /\ Count \in Int
        /\ TOTAL_SLOTS - 1 \in Int
    BY TestbedAssumption, Constants, LayoutAssumption
  <2> QED
    BY <2>1, FS_Interval DEF Stations, DriverBits
<1>4. IsFiniteSet(W)
  BY <1>0, FS_SUBSET
<1>1. IsFiniteSet(S) /\ IsFiniteSet(L)
  <2>1. IsFiniteSet((1 .. MaxRepeats) \X (0 .. Count))
    BY <1>0, FS_Product
  <2> HIDE DEF W
  <2> QED
    BY <1>0, <1>4, <2>1, FS_Product
<1>2. IsFiniteSet(S \X L)
  BY <1>1, FS_Product
<1>3. at \in Injection(Rows, S \X L)
  <2>1. \A row \in Rows :
           /\ row.station \in Stations /\ row.repeat \in 1 .. MaxRepeats
           /\ row.log.by \in 1 .. MaxRepeats /\ row.log.lost \in 0 .. Count
           /\ row.log.ap \in W
    BY DEF Rows, Logs
  <2>2. at \in [Rows -> S \X L]
    BY <2>1
  <2>3. ASSUME NEW x \in Rows, NEW y \in Rows, at[x] = at[y] PROVE x = y
    <3>1. /\ x.station = y.station /\ x.repeat = y.repeat
          /\ x.log.by = y.log.by /\ x.log.lost = y.log.lost /\ x.log.ap = y.log.ap
      BY <2>3
    <3>2. x.log = y.log
      BY <3>1 DEF Rows, Logs
    <3> QED
      BY <3>1, <3>2 DEF Rows
  <2> HIDE DEF at, S, L
  <2> QED
    BY <2>2, <2>3 DEF Injection, IsInjective
<1> HIDE DEF at, S, L
<1> QED
  BY <1>2, <1>3, FS_Injection

(* The rows of a station in a table.                                        *)
LEMMA RowsOfStation ==
    ASSUME NEW rows \in SUBSET Rows, NEW s \in {row.station : row \in rows}
    PROVE  LET of == {row \in rows : row.station = s} IN
           /\ IsFiniteSet(of) /\ Cardinality(of) \in Nat \ {0}
           /\ s \in Stations
<1> DEFINE of == {row \in rows : row.station = s}
<1>1. IsFiniteSet(of)
  BY RowsFinite, FS_Subset
<1>2. of # {} /\ s \in Stations
  BY DEF Rows
<1> HIDE DEF of
<1>3. Cardinality(of) \in Nat \ {0}
  BY <1>1, <1>2, FS_EmptySet, FS_CardinalityType
<1> QED
  BY <1>1, <1>2, <1>3 DEF of

(* The mean that print_summary prints is Count for every station.           *)
LEMMA SummaryEven ==
    ASSUME NEW rows \in SUBSET Rows
    PROVE  print_summary(rows).num = print_summary(rows).den
<1> DEFINE S == {row.station : row \in rows}
           of(s) == {row \in rows : row.station = s}
           t == [s \in S |-> SumFunction([row \in of(s) |->
                                             parse_rtt_csv(row.log).received])
                               \div Cardinality(of(s))]
<1>1. print_summary(rows) = compute_jain_fairness(t)
  BY DEF print_summary
<1>2. Count \in Nat \ {0}
  BY TestbedAssumption
<1>3. ASSUME NEW s \in S PROVE t[s] = Count
  <2> DEFINE n == Cardinality(of(s))
             r == [row \in of(s) |-> parse_rtt_csv(row.log).received]
  <2>1. IsFiniteSet(of(s)) /\ n \in Nat \ {0}
    BY RowsOfStation
  <2>2. DOMAIN r = of(s) /\ \A row \in of(s) : r[row] = Count
    BY DEF parse_rtt_csv
  <2>3. t[s] = SumFunction(r) \div n
    OBVIOUS
  <2> HIDE DEF r, n, of, t
  <2>4. SumFunction(r) = Count * n
    BY <1>2, <2>1, <2>2, SumConstant DEF SumFunction, n
  <2>5. (Count * n) \div n = Count
    BY <1>2, <2>1
  <2> QED
    BY <2>3, <2>4, <2>5
<1>4. IsFiniteSet(S) /\ t \in [S -> Nat]
  <2>1. S \subseteq Stations
    BY DEF Rows
  <2>2. IsFiniteSet(Stations)
    BY TestbedAssumption, LayoutAssumption, FS_Interval DEF Stations
  <2> HIDE DEF S
  <2> QED
    BY <1>2, <1>3, <2>1, <2>2, FS_Subset
<1> HIDE DEF S, t
<1>5. compute_jain_fairness(t).num = compute_jain_fairness(t).den
  BY <1>3, <1>4, JainBounds
<1> QED
  BY <1>1, <1>5

(* Logs or rows, a station has Count received for each of its runs.         *)
Even(found) ==
    /\ IsFiniteSet(DOMAIN found)
    /\ \A s \in DOMAIN found :
          /\ found[s].num_runs \in Nat \ {0}
          /\ found[s].total_received = Count * found[s].num_runs

LEMMA FoundEven ==
    ASSUME NEW dir, IsDirectory(dir), DOMAIN analyze_logs(dir) \subseteq Stations,
           NEW rows \in SUBSET Rows
    PROVE  Even(analyze_single_dir(dir, rows))
<1>0. IsFiniteSet(Stations)
  BY TestbedAssumption, LayoutAssumption, FS_Interval DEF Stations
<1>1. CASE DOMAIN analyze_logs(dir) # {}
  <2>1. analyze_single_dir(dir, rows) = analyze_logs(dir)
    BY <1>1 DEF analyze_single_dir
  <2>2. IsFiniteSet(DOMAIN analyze_logs(dir))
    BY <1>0, FS_Subset
  <2> QED
    BY <2>1, <2>2, AnalyzedStation DEF Even
<1>2. CASE DOMAIN analyze_logs(dir) = {}
  <2> DEFINE S == {row.station : row \in rows}
             of(s) == {row \in rows : row.station = s}
             found == analyze_aggregated_csv(rows)
  <2>1. analyze_single_dir(dir, rows) = found
    BY <1>2 DEF analyze_single_dir
  <2>2. /\ DOMAIN found = S
        /\ \A s \in S : /\ found[s].total_received = Count * Cardinality(of(s))
                        /\ found[s].num_runs = Cardinality(of(s))
    BY DEF analyze_aggregated_csv
  <2>3. \A s \in S : Cardinality(of(s)) \in Nat \ {0} /\ s \in Stations
    BY RowsOfStation
  <2>4. IsFiniteSet(S)
    <3>1. S \subseteq Stations
      BY <2>3
    <3> HIDE DEF S
    <3> QED
      BY <1>0, <3>1, FS_Subset
  <2> HIDE DEF S, of, found
  <2> QED
    BY <2>1, <2>2, <2>3, <2>4 DEF Even
<1> QED
  BY <1>1, <1>2

(* Hence the index is of numbers of runs.                                   *)
LEMMA FairnessOfRuns ==
    ASSUME NEW found, Even(found)
    PROVE  LET jain == reported_fairness(found) IN
           /\ jain.den >= jain.num /\ jain.num >= 0
           /\ DOMAIN found # {} => jain.num * Cardinality(DOMAIN found) >= jain.den
           /\ jain.num = jain.den <=>
                 \A s, t \in DOMAIN found : found[s].num_runs = found[t].num_runs
<1> DEFINE S == DOMAIN found
           t == [s \in S |-> found[s].total_received]
           jain == compute_jain_fairness(t)
<1>1. reported_fairness(found) = jain
  BY DEF reported_fairness
<1>2. Count \in Nat \ {0}
  BY TestbedAssumption
<1>3. \A s \in S : /\ found[s].num_runs \in Nat
                   /\ t[s] = Count * found[s].num_runs
                   /\ Count * found[s].num_runs \in Nat
  BY <1>2 DEF Even
<1>4. t \in [S -> Nat] /\ IsFiniteSet(S)
  BY <1>3 DEF Even
<1>5. \A x, y \in S : t[x] = t[y] <=> found[x].num_runs = found[y].num_runs
  <2>1. \A m, n \in Nat : Count * m = Count * n <=> m = n
    BY <1>2
  <2> HIDE DEF t
  <2> QED
    BY <1>3, <2>1
<1> HIDE DEF S, t
<1>6. /\ jain.num \in Nat /\ jain.den \in Nat /\ jain.num <= jain.den
      /\ S # {} => jain.num * Cardinality(S) >= jain.den
      /\ jain.num = jain.den <=> \A x, y \in S : t[x] = t[y]
  BY <1>4, JainBounds
<1> HIDE DEF jain
<1>7. jain.num = jain.den <=> \A x, y \in S : found[x].num_runs = found[y].num_runs
  BY <1>5, <1>6
<1>8. jain.den >= jain.num /\ jain.num >= 0
  BY <1>6
<1> QED
  BY <1>1, <1>6, <1>7, <1>8 DEF S

LEMMA DirectoryConsistent ==
    ASSUME TypeInv, NEW dir, IsDirectory(dir),
           DOMAIN analyze_logs(dir) \subseteq Stations
    PROVE  Consistent(dir)
<1>1. csv \in SUBSET Rows
  BY DEF TypeInv, RowsOK
<1>2. Even(analyze_single_dir(dir, csv))
  BY <1>1, FoundEven
<1>3. print_summary(csv).num = print_summary(csv).den
  BY <1>1, SummaryEven
<1>4. ASSUME NEW s \in DOMAIN analyze_logs(dir)
      PROVE  LET st == analyze_logs(dir)[s].stats IN
             /\ \A p, q \in DOMAIN st.at : p < q => st.at[p] <= st.at[q]
             /\ \A p \in DOMAIN st.at : st.min <= st.at[p] /\ st.at[p] <= st.max
             /\ st.at[50] = -1 <=>
                   2 * SumFunction([f \in echo_files(dir, s) |-> dir[f].lost])
                     > st.count
  <2> DEFINE n == Count * Cardinality(echo_files(dir, s))
             l == Lost(dir, s)
  <2>1. /\ n \in Nat \ {0} /\ l \in 0 .. n
        /\ analyze_logs(dir)[s].stats = compute_stats(n, l)
    BY AnalyzedStation
  <2>2. l = SumFunction([f \in echo_files(dir, s) |-> dir[f].lost])
    BY DEF Lost
  <2> DEFINE st == compute_stats(n, l)
  <2> HIDE DEF n, l
  <2>3. /\ st.count = n
        /\ \A p, q \in DOMAIN st.at : p < q => st.at[p] <= st.at[q]
        /\ \A p \in DOMAIN st.at : st.min <= st.at[p] /\ st.at[p] <= st.max
        /\ st.at[50] = -1 <=> 2 * l > st.count
    BY <2>1, PercentilesOrdered
  <2> HIDE DEF st
  <2>4. analyze_logs(dir)[s].stats = st
    BY <2>1 DEF st
  <2> QED
    BY <2>2, <2>3, <2>4
<1> QED
  BY <1>2, <1>3, <1>4, FairnessOfRuns DEF Consistent

LEMMA AnyDirectory ==
    ASSUME NEW dir \in Directories
    PROVE  IsDirectory(dir) /\ DOMAIN analyze_logs(dir) \subseteq Stations
<1> DEFINE D == {echo_sta(s, r) : s \in Stations, r \in 1 .. MaxRepeats}
<1>1. dir \in [D -> Logs \cup {NoLog}]
  <2> DEFINE L == [by : 1 .. MaxRepeats, lost : 0 .. Count, ap : {{}}]
  <2>1. L \subseteq Logs
    BY DEF Logs
  <2>2. dir \in [D -> L \cup {NoLog}]
    BY DEF Directories
  <2> HIDE DEF L, D
  <2> QED
    BY <2>1, <2>2
<1>2. \A f \in D : f \in LogNames /\ f.id \in Stations
  <2>1. \A s \in Stations, r \in 1 .. MaxRepeats :
           echo_sta(s, r) \in LogNames /\ echo_sta(s, r).id \in Stations
    BY NameType DEF echo_sta
  <2> QED
    BY <2>1
<1> HIDE DEF D
<1>3. IsDirectory(dir)
  BY <1>1, <1>2 DEF IsDirectory
<1>4. DOMAIN analyze_logs(dir) \subseteq Stations
  BY <1>1, <1>2 DEF analyze_logs, echo_files
<1> QED
  BY <1>3, <1>4

LEMMA AnalysisHolds == TypeInv /\ NamesInv => AnalysisConsistent
  BY CopiesAreDirectory, AnyDirectory, DirectoryConsistent DEF AnalysisConsistent

(* -------------------------- The invariant and theorems ------------------ *)

IInv == /\ TypeInv /\ JoiningInv /\ SlotInv /\ PlanInv
        /\ EchoInv /\ SweepInv /\ WroteInv /\ NamesInv /\ CopiesInv

LEMMA IInvInit == Init => IInv
<1> SUFFICES ASSUME Init PROVE IInv
  OBVIOUS
<1>1. JoiningInv /\ SlotInv
  BY DEF Init, TestbedInit, JoiningInv, SlotInv, InWindow
<1>2. PlanInv /\ SweepInv /\ WroteInv
  BY DEF Init, TestbedInit, OrchestrationInit, SweepInit, PlanInv, SweepInv, WroteInv,
         SweepLogs, ApHolds, PastRuns, Sweeping, SweepRowsMatchConfiguration
<1>3. NamesInv /\ CopiesInv
  BY DEF Init, TestbedInit, OrchestrationInit, NamesInv, CopiesInv
<1> QED
  BY <1>1, <1>2, <1>3, TypeInit, EchoInit DEF IInv

LEMMA IInvStep == IInv /\ [Next]_vars => IInv'
  BY TypeStep, JoiningStep, SlotStep, PlanStep, SweepStep, EchoStep, WroteStep, NamesStep,
     CopiesStep DEF IInv

LEMMA Invariance == Spec => []IInv
  BY IInvInit, IInvStep, PTL DEF Spec

(* At most one station of a repeat is ever measured in its run, although    *)
(* each has a port, a server and a client: of all rows that a client of the *)
(* run measured none are of two stations of one repeat, for any number of   *)
(* stations and any faults.                                                 *)
THEOREM AtMostOneMeasured == Spec => []OneStationPerRepeat
<1>1. IInv => OneStationPerRepeat
  BY DEF IInv, EchoInv, RowInv
<1> QED
  BY <1>1, Invariance, PTL

(* Two stations that hold what they were given after the last configuration *)
(* of the AP hold different slots, as long as no more connections than      *)
(* stations were served, whenever the clients write what they were given.   *)
THEOREM ServedDisjoint == Spec => []ServedStationsDiffer
<1>1. IInv => ServedStationsDiffer
  BY ServedDiffer DEF IInv
<1> QED
  BY <1>1, Invariance, PTL

(* A repeat in which every configuring command worked runs with no slot at  *)
(* the AP and, if nobody else took an id, slot i at station i, where no     *)
(* client of an earlier configuration has written since.                    *)
THEOREM PlannedInForce == Spec => []PlanInForce
<1>1. IInv => PlanInForce
  BY PlanHolds DEF IInv
<1> QED
  BY <1>1, Invariance, PTL

(* A log of the run that became a row for n slots is of a client in whose   *)
(* life the AP held n's slots, and nothing else if n is swept once, unless  *)
(* the AP refused n's slots: for every sequence of values.                  *)
THEOREM SweptInForce == Spec => []SweepRowsMatchConfiguration
<1>1. IInv => SweepRowsMatchConfiguration
  BY DEF IInv, SweepInv
<1> QED
  BY <1>1, Invariance, PTL

(* Whatever is swept, N_max separates the n that preserve p percent for     *)
(* CSMA from those that do not.                                             *)
THEOREM CapacityOfSweep == Spec => []NMaxIsTight
<1>1. IInv => NMaxIsTight
  BY CapacityTight DEF IInv
<1> QED
  BY <1>1, Invariance, PTL

(* Each row from another run's log has one of the three reasons named.      *)
THEOREM OldRowsHaveReason == Spec => OldRowsExplained
<1>1. IInv /\ [Next]_vars => [NewRowsExplained]_vars
  BY NewRows DEF IInv
<1> QED
  BY <1>1, Invariance, PTL DEF Spec, OldRowsExplained, NewRowsExplained

(* The analyzer finds the log of each row of the run as it was copied: it   *)
(* never falls back to a table that has a row, and counts no fewer runs of  *)
(* a station than the run has rows of it, whatever older logs lie there.    *)
THEOREM EveryRowIsSeen == Spec => []AnalyzerSeesEveryRow
<1>1. IInv => AnalyzerSeesEveryRow
  BY EveryRowSeen DEF IInv
<1> QED
  BY <1>1, Invariance, PTL

(* The fairness index and the percentiles of the analyzer, for any          *)
(* directory of logs before the first run and for those that runs leave.    *)
THEOREM AnalysisIsConsistent == Spec => []AnalysisConsistent
<1>1. IInv => AnalysisConsistent
  BY AnalysisHolds DEF IInv
<1> QED
  BY <1>1, Invariance, PTL
=============================================================================
