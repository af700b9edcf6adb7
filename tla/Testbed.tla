------------------------------- MODULE Testbed ------------------------------
(***************************************************************************)
(* The hosts on which multi_sta_orchestrator.py and sweep_tdma_slots.py    *)
(* act through ssh and scp: the processes on them, the logs in their /tmp, *)
(* the slot words in their devices, and the directory on the control host  *)
(* into which the logs are copied.                                         *)
(*                                                                         *)
(* An operator runs the scripts one after the other; run numbers the       *)
(* executions.  A remote command may take effect or not whatever ssh       *)
(* reports: the host is not reached, the command outlives the timeout of   *)
(* subprocess.run, or it fails on its host; MaxFaults bounds these.  Not a  *)
(* fault: pkill -f also matches the shell that was given the pattern, so   *)
(* that what follows a pkill in the same command may never run.            *)
(*                                                                         *)
(* Time: Count requests take an interval each when they are answered and a *)
(* timeout of ten intervals when not.  A client that lost more than Slack  *)
(* of them cannot be done when the scripts' wait ends; of a client whose   *)
(* server is gone at the end of the launch at most Early were answered.    *)
(***************************************************************************)
EXTENDS SlotBitmap, Sequences

CONSTANTS
    num_stas,     \* stations of an experiment
    ValueLists,   \* the sequences that --n_tdma_values may be
    Count,        \* requests of one echo client: int(duration / 0.1)
    Early,        \* of which at most so many fall into the launch
    Slack,        \* losses with which a client still ends within the wait
    AP,           \* the board of the access point
    NoLog,        \* there is no file of that name
    MaxRepeats,   \* bound: repeats (--repeats) over all executions
    MaxFaults     \* bound: remote commands that go wrong

Stations == 0 .. num_stas - 1
Boards == Stations \cup {AP}

(* configure_ap_slots refuses more stations than there are slots.  With    *)
(* the defaults (300 s, waits of 330 and 360 s, two seconds between the    *)
(* launches) Count = 3000, Slack < 100 and Early < 150.                    *)
ASSUME TestbedAssumption ==
    /\ num_stas \in 1 .. SESSION1_SLOTS
    /\ ValueLists \subseteq Seq(Nat) \ {<< >>}
    /\ Count \in Nat /\ Early \in Nat /\ Slack \in Nat
    /\ Slack + Early < Count
    /\ AP \notin Nat
    /\ MaxRepeats \in Nat \ {0} /\ MaxFaults \in Nat

Ids == Stations \cup UNION {{vs[v] : v \in DOMAIN vs} : vs \in ValueLists}

(* /tmp/echo_sta{i}_k{k}_r{r}.csv and /tmp/echo_n{n}_r{r}.csv: neither     *)
(* names the execution that wrote it.                                      *)
LogNames == [kind : {"sta", "n"}, id : Ids, repeat : 1 .. MaxRepeats]
echo_sta(s, r) == [kind |-> "sta", id |-> s, repeat |-> r]
echo_n(n, r) == [kind |-> "n", id |-> n, repeat |-> r]

(* A log is written at the end of a client, so that it always has Count    *)
(* rows; lost of them have the round trip -1.  History, for the logs of    *)
(* the sweep: ap has what was in the AP's device in the client's life.     *)
Logs == [by : 1 .. MaxRepeats, lost : 0 .. Count, ap : SUBSET (SUBSET DriverBits)]
ASSUME NoLogAssumption == NoLog \notin Logs

VARIABLES
    run,          \* number of the present or last execution of a script
    pc,           \* where the script is, "idle" when none runs
    repeats,      \* its --repeats
    spent,        \* repeats of all executions so far, and of this one
    repeat,       \* its repeat
    idx,          \* its index into the stations or into n_tdma_values
    faults,       \* remote commands that went wrong
    echo,         \* ports (as offsets from --port) with a live echo server
    tdma_up,      \* a TDMA server listens on the AP
    next_node_id, \* the counter of the last TDMA server
    clients,      \* echo clients that run on the stations
    tdma_clients, \* TDMA clients that run on the stations
    remote,       \* remote[f]: the log of that name on its station
    local,        \* local[f]: the log of that name on the control host
    dev,          \* dev[b]: driver bits in the device of board b
    taken,        \* history: ids given out since the AP was configured last
    number,       \* history: number[s] is the number of the connection that
                  \*   dev[s] was written from last, -1 if that connection
                  \*   is older than the AP's configuration
    wrote         \* history: logs written in this run, with their clients' run

argVars == <<run, repeats, spent>>
scriptVars == <<argVars, pc, repeat, idx>>
slotVars == <<tdma_up, next_node_id, tdma_clients, dev, taken, number>>
echoVars == <<echo, clients, remote, wrote>>
testbedVars == <<scriptVars, faults, slotVars, echoVars, local>>

Clients == [sta : Stations, log : LogNames, by : 1 .. MaxRepeats,
            starved : BOOLEAN,   \* nearly all of the echoes had no server
            late : BOOLEAN,      \* its repeat is over
            ap : SUBSET (SUBSET DriverBits)]

(* fault is 0 for the client that the script waits for, else the number of *)
(* the fault by which ssh gave up on it.  A client has connected from when *)
(* the server accepted it; the response may be cut when that server is     *)
(* killed.  The slots are those the server has given it.                   *)
TdmaClients == [sta : Stations, fault : 0 .. MaxFaults, connected : BOOLEAN,
                slots : SUBSET Nat, number : Int, cut : BOOLEAN]

TestbedInit ==
    /\ run = 0 /\ repeats = 1 /\ spent = 0
    /\ pc = "idle" /\ repeat = 1 /\ idx = 0 /\ faults = 0
    /\ echo = {} /\ clients = {} /\ wrote = {}
    /\ tdma_up = FALSE /\ next_node_id = 0 /\ tdma_clients = {}
    /\ remote = [f \in LogNames |-> NoLog]
    /\ local = [f \in LogNames |-> NoLog]
    /\ dev = [b \in Boards |-> {}]
    /\ taken = 0 /\ number = [s \in Stations |-> -1]

(* A remote command does what it is meant to, or a fault is used up.       *)
Works == UNCHANGED faults
Fails == faults < MaxFaults /\ faults' = faults + 1

Late(cs) == {[c EXCEPT !.late = TRUE] : c \in cs}

(* The sweep's clients that run see the AP's device change.                *)
SeeAp(cs) ==
    {IF c.log.kind = "n" THEN [c EXCEPT !.ap = @ \cup {dev'[AP]}] ELSE c : c \in cs}

(* The TDMA server is killed; the AP is configured anew.                   *)
Cut(cs) == {[c EXCEPT !.cut = TRUE] : c \in cs}
Outdated(cs) == {[c EXCEPT !.number = -1] : c \in cs}

(* ssh is killed or gives up on the client it waited for, which goes on.   *)
Abandoned(cs) == {IF c.fault = 0 THEN [c EXCEPT !.fault = faults'] ELSE c : c \in cs}

(* The start of a script: its results are empty, the hosts are as the last *)
(* script left them.                                                       *)
Begin(first) ==
    /\ pc = "idle"
    /\ \E n \in 1 .. MaxRepeats :
          /\ spent + n <= MaxRepeats
          /\ repeats' = n /\ spent' = spent + n
    /\ run' = run + 1 /\ pc' = first /\ repeat' = 1
    /\ wrote' = {}

End ==
    /\ pc' = "idle" /\ repeats' = 1 /\ repeat' = 1 /\ idx' = 0
    /\ wrote' = {}
    /\ UNCHANGED <<run, spent>>

(* Ctrl-C: nothing is stopped on any host.                                 *)
Interrupt ==
    /\ pc # "idle" /\ Fails /\ End
    /\ clients' = Late(clients)
    /\ tdma_clients' = Abandoned(tdma_clients)
    /\ UNCHANGED <<echo, tdma_up, next_node_id, dev, taken, number, remote, local>>

(* scp_file: the copy of log f to the control host.                        *)
Copy(f) == /\ Works /\ remote[f] # NoLog
           /\ local' = [local EXCEPT ![f] = remote[f]]

CopyFails(f) == /\ IF remote[f] = NoLog THEN Works ELSE Fails
                /\ UNCHANGED local

-----------------------------------------------------------------------------
(* What goes on at the hosts meanwhile.                                    *)

(* The server gives the next id to whoever connects.                        *)
TakeId == /\ tdma_up
          /\ next_node_id' = next_node_id + 1
          /\ taken' = taken + 1

(* The TDMA client of station s when it has connected: it is given slot i  *)
(* for id i, as in the input that configure_ap_slots pipes into the server. *)
Connected(s, fault) ==
    [sta |-> s, fault |-> fault, connected |-> TRUE,
     slots |-> {next_node_id % num_stas}, number |-> next_node_id, cut |-> FALSE]

(* Mutation: the slots are or'ed to those of the device.                   *)
WriteSlots_adds(c) ==
    /\ \E slots \in {c.slots} \cup (IF c.cut THEN {{}} ELSE {}) :
          dev' = [dev EXCEPT ![c.sta] = @ \cup slots_to_bitmap(slots, {})]
    /\ number' = [number EXCEPT ![c.sta] = c.number]

(* It runs userapp with what it has read.  Of a response that was cut it   *)
(* may have the whole, or the id alone, which reads like no slots (or      *)
(* nothing, and then it ends without a write).                             *)
WriteSlots(c) ==
    /\ \E slots \in {c.slots} \cup (IF c.cut THEN {{}} ELSE {}) :
          dev' = [dev EXCEPT ![c.sta] = slots_to_bitmap(slots, {})]
    /\ number' = [number EXCEPT ![c.sta] = c.number]

(* A TDMA client that ssh gave up on connects now, to the server that is   *)
(* there.                                                                  *)
LateConnect(c) ==
    /\ c.fault # 0 /\ ~c.connected
    /\ TakeId
    /\ tdma_clients' = (tdma_clients \ {c}) \cup {Connected(c.sta, c.fault)}
    /\ UNCHANGED <<scriptVars, faults, tdma_up, dev, number, echoVars, local>>

(* It writes its slots now, whatever server there is by then.              *)
LateWrite(c) ==
    /\ c.fault # 0 /\ c.connected
    /\ WriteSlots(c)
    /\ tdma_clients' = tdma_clients \ {c}
    /\ UNCHANGED <<scriptVars, faults, tdma_up, next_node_id, taken, echoVars, local>>

(* The losses with which a client may end.                                 *)
Losses(c) == IF c.starved /\ ~c.late THEN Count - Early .. Count
                                    ELSE 0 .. Count

(* An echo client ends and writes its log over an older one of that name:  *)
(* within the wait if it lost little, later if it is left alone.           *)
ClientFinishes(c) ==
    /\ pc \in {"server", "client"} => c.late
    /\ \E lost \in Losses(c) :
          /\ lost <= Slack \/ c.late
          /\ remote' = [remote EXCEPT ![c.log] = [by |-> c.by, lost |-> lost, ap |-> c.ap]]
    /\ clients' = clients \ {c}
    /\ wrote' = IF pc = "idle" THEN {}
                ELSE wrote \cup {[log |-> c.log, by |-> c.by]}
    /\ UNCHANGED <<scriptVars, faults, echo, slotVars, local>>

(* An error of its socket ends a client without a log.                     *)
ClientDies(c) ==
    /\ clients' = clients \ {c}
    /\ UNCHANGED <<scriptVars, faults, echo, slotVars, remote, wrote, local>>

(* The operator starts an echo server by hand, as the sweep needs it.      *)
StartEchoByHand ==
    /\ pc = "idle" /\ echo = {}
    /\ echo' = {0}
    /\ UNCHANGED <<scriptVars, faults, slotVars, clients, remote, wrote, local>>

Hosts ==
    \/ \E c \in tdma_clients : LateConnect(c) \/ LateWrite(c)
    \/ \E c \in clients : ClientFinishes(c) \/ ClientDies(c)
    \/ StartEchoByHand

TestbedTypeOK ==
    /\ run \in 0 .. spent /\ spent \in 0 .. MaxRepeats
    /\ repeats \in 1 .. MaxRepeats /\ repeat \in 1 .. repeats
    /\ faults \in 0 .. MaxFaults
    /\ echo \subseteq Stations
    /\ tdma_up \in BOOLEAN
    /\ next_node_id \in Nat
    /\ clients \subseteq Clients
    /\ tdma_clients \subseteq TdmaClients
    /\ remote \in [LogNames -> Logs \cup {NoLog}]
    /\ local \in [LogNames -> Logs \cup {NoLog}]
    /\ dev \in [Boards -> SUBSET DriverBits]
    /\ taken \in Nat
    /\ number \in [Stations -> Int]
    /\ wrote \subseteq [log : LogNames, by : 1 .. MaxRepeats]
=============================================================================
