---------------------------- MODULE Orchestration ---------------------------
(***************************************************************************)
(* multi_sta_orchestrator.py: per repeat, configure the AP's server, let   *)
(* the stations fetch their slots one after the other, start echo servers  *)
(* and clients, wait, copy the logs, clean up.  No result of a remote      *)
(* command changes the course; only scp's does.  Background traffic loads  *)
(* the channel and touches nothing else: it is in the losses.              *)
(***************************************************************************)
EXTENDS Testbed

VARIABLES
    all_results,  \* the rows of this run
    csv,          \* the rows in multi_sta_results.csv
    planned       \* history: in this repeat everything was configured as
                  \*   configure_ap_slots means it

orchestratorVars == <<all_results, csv, planned>>

OrchestrationInit == all_results = {} /\ csv = {} /\ planned = FALSE

(* Every host answers.  When one does not, the script ends before it has   *)
(* touched anything, which is no step at all.                              *)
check_connectivity == Works

(* run_experiment, up to the loop.                                         *)
StartOrchestrator ==
    /\ check_connectivity /\ Begin("configure")
    /\ idx' = 0 /\ all_results' = {} /\ planned' = FALSE
    /\ UNCHANGED <<echo, clients, remote, slotVars, local, csv>>

(* The server starts to give out ids, or the old one goes on.              *)
AfterConfigure ==
    /\ taken' = 0 /\ number' = [s \in Stations |-> -1]
    /\ pc' = "join" /\ idx' = 0
    /\ UNCHANGED <<argVars, repeat, echo, remote, wrote, local, all_results, csv>>

(* Mutation: the server leaves the AP's own slots as they are.             *)
ConfigureAp_kept ==
    /\ pc = "configure" /\ Works
    /\ tdma_up' = TRUE /\ next_node_id' = 0 /\ planned' = TRUE
    /\ tdma_clients' = Outdated(Cut(tdma_clients))
    /\ UNCHANGED <<dev, clients>>
    /\ AfterConfigure

(* pkill -f TDMA_server.py; printf ... | nohup python3 TDMA_server.py &    *)
(* The new server first writes the AP's own slots: none.                   *)
ConfigureAp ==
    /\ pc = "configure"
    /\ \/ /\ Works
          /\ tdma_up' = TRUE /\ next_node_id' = 0 /\ planned' = TRUE
          /\ dev' = [dev EXCEPT ![AP] = slots_to_bitmap({}, {})]
          /\ tdma_clients' = Outdated(Cut(tdma_clients))
       \/ /\ Fails                  \* the AP's userapp fails
          /\ tdma_up' = TRUE /\ next_node_id' = 0 /\ planned' = FALSE
          /\ tdma_clients' = Outdated(Cut(tdma_clients))
          /\ UNCHANGED dev
       \/ /\ Works                  \* the shell was killed as well
          /\ tdma_up' = FALSE /\ planned' = FALSE
          /\ tdma_clients' = Outdated(Cut(tdma_clients))
          /\ UNCHANGED <<next_node_id, dev>>
       \/ /\ Fails                  \* the old server goes on
          /\ planned' = FALSE
          /\ tdma_clients' = Outdated(tdma_clients)
          /\ UNCHANGED <<tdma_up, next_node_id, dev>>
    /\ clients' = SeeAp(clients)
    /\ AfterConfigure

(* Mutation: one station too many.                                         *)
EachStation_off(label, next) ==
    /\ pc' = IF idx < num_stas THEN label ELSE next
    /\ idx' = IF idx < num_stas THEN idx + 1 ELSE 0

(* After the last station the script goes on at label next.                *)
EachStation(label, next) ==
    /\ pc' = IF idx + 1 < num_stas THEN label ELSE next
    /\ idx' = IF idx + 1 < num_stas THEN idx + 1 ELSE 0

(* start_sta_tdma_client: a failure is printed, and the script goes on.    *)
JoinStation ==
    /\ pc = "join"
    /\ \/ /\ Works /\ TakeId
          /\ tdma_clients' = tdma_clients \cup {Connected(idx, 0)}
          /\ pc' = "joined"
          /\ UNCHANGED <<idx, planned>>
       \/ /\ IF tdma_up THEN Fails ELSE Works
          /\ planned' = FALSE       \* refused, or the station not reached
          /\ EachStation("join", "server")
          /\ UNCHANGED <<next_node_id, taken, tdma_clients>>
       \/ /\ Fails                  \* ssh times out, the client goes on
          /\ planned' = FALSE
          /\ tdma_clients' = tdma_clients \cup
                {[sta |-> idx, fault |-> faults', connected |-> FALSE,
                  slots |-> {}, number |-> -1, cut |-> FALSE]}
          /\ EachStation("join", "server")
          /\ UNCHANGED <<next_node_id, taken>>
    /\ UNCHANGED <<argVars, repeat, tdma_up, dev, number, echoVars, local,
                   all_results, csv>>

(* The client has its id and writes its slots; it returns 0 also when its  *)
(* userapp failed.                                                         *)
JoinWrites ==
    /\ pc = "joined"
    /\ \E c \in tdma_clients :
          /\ c.fault = 0
          /\ \/ /\ Works /\ WriteSlots(c)
                /\ tdma_clients' = tdma_clients \ {c}
                /\ UNCHANGED planned
             \/ /\ Fails            \* the station's userapp fails
                /\ tdma_clients' = tdma_clients \ {c}
                /\ planned' = FALSE
                /\ UNCHANGED <<dev, number>>
             \/ /\ Fails            \* ssh times out before the write
                /\ tdma_clients' = Abandoned(tdma_clients)
                /\ planned' = FALSE
                /\ UNCHANGED <<dev, number>>
    /\ EachStation("join", "server")
    /\ UNCHANGED <<argVars, repeat, tdma_up, next_node_id, taken, echoVars, local,
                   all_results, csv>>

(* start_echo_server: pkill -f UDP_echo_server.py; nohup python3 ... &     *)
(* kills the servers of all ports.  A client of this repeat that loses its *)
(* server now loses nearly all echoes.                                     *)
StartEchoServer ==
    /\ pc = "server"
    /\ \/ Works /\ echo' = {idx}
       \/ Works /\ echo' = {}        \* the shell was killed as well
       \/ Fails /\ UNCHANGED echo
    /\ clients' = {[c EXCEPT !.starved =
                       @ \/ (~c.late /\ c.sta \notin echo')] : c \in clients}
    /\ pc' = "client"
    /\ UNCHANGED <<argVars, repeat, idx, slotVars, remote, wrote, local,
                   orchestratorVars>>

(* start_echo_client: in the background, to the station's own port.        *)
StartEchoClient ==
    /\ pc = "client"
    /\ \/ /\ Works
          /\ clients' = clients \cup
                {[sta |-> idx, log |-> echo_sta(idx, repeat), by |-> run,
                  starved |-> idx \notin echo, late |-> FALSE, ap |-> {}]}
       \/ Fails /\ UNCHANGED clients
    /\ EachStation("server", "wait")
    /\ UNCHANGED <<argVars, repeat, echo, slotVars, remote, wrote, local,
                   orchestratorVars>>

(* Mutation: the script waits until its clients are done.                  *)
Wait_done ==
    /\ pc = "wait" /\ \A c \in clients : c.late
    /\ pc' = "collect"
    /\ UNCHANGED <<argVars, repeat, idx, faults, slotVars, echoVars, local,
                   orchestratorVars>>

(* time.sleep(args.duration + 30), whatever the clients do.                *)
Wait ==
    /\ pc = "wait"
    /\ pc' = "collect"
    /\ UNCHANGED <<argVars, repeat, idx, faults, slotVars, echoVars, local,
                   orchestratorVars>>

(* The row of the station: by the file's place, not by what is in it.      *)
Record(log) ==
    all_results' = all_results \cup
        {[station |-> idx, repeat |-> repeat, log |-> log]}

(* Mutation: a file that is there is read although the copy failed.        *)
Collect_old ==
    LET f == echo_sta(idx, repeat) IN
    /\ pc = "collect"
    /\ Copy(f) \/ CopyFails(f)
    /\ IF local'[f] = NoLog THEN UNCHANGED all_results ELSE Record(local'[f])
    /\ EachStation("collect", "cleanup")
    /\ UNCHANGED <<argVars, repeat, slotVars, echoVars, csv, planned>>

(* collect_results for a station.                                          *)
Collect ==
    LET f == echo_sta(idx, repeat) IN
    /\ pc = "collect"
    /\ \/ Copy(f) /\ Record(local'[f])
       \/ CopyFails(f) /\ UNCHANGED all_results
    /\ EachStation("collect", "cleanup")
    /\ UNCHANGED <<argVars, repeat, slotVars, echoVars, csv, planned>>

(* pkill -f UDP_echo_server.py; pkill -f TDMA_server.py on the AP.         *)
CleanupAp ==
    /\ pc = "cleanup"
    /\ \/ /\ Works /\ echo' = {} /\ tdma_up' = FALSE
          /\ tdma_clients' = Cut(tdma_clients)
       \/ /\ Works /\ echo' = {}    \* the shell was killed as well
          /\ UNCHANGED <<tdma_up, tdma_clients>>
       \/ Fails /\ UNCHANGED <<echo, tdma_up, tdma_clients>>
    /\ pc' = "cleanup_sta"
    /\ UNCHANGED <<argVars, repeat, idx, next_node_id, dev, taken, number, clients,
                   remote, wrote, local, orchestratorVars>>

(* pkill -f UDP_echo_client.py on a station: a client that is killed       *)
(* leaves no log, one that is not is from an earlier repeat from now on.   *)
CleanupSta ==
    LET here == {c \in clients : c.sta = idx}
        last == idx + 1 = num_stas /\ repeat = repeats IN
    /\ pc = "cleanup_sta"
    /\ \/ Works /\ clients' = clients \ here
       \/ Fails /\ clients' = (clients \ here) \cup Late(here)
    /\ EachStation("cleanup_sta", IF last THEN "save" ELSE "configure")
    /\ repeat' = IF idx + 1 = num_stas /\ ~last THEN repeat + 1 ELSE repeat
    /\ UNCHANGED <<argVars, echo, slotVars, remote, wrote, local, orchestratorVars>>

(* The table, when there is a row, and print_summary.                      *)
SaveResults ==
    /\ pc = "save" /\ End
    /\ csv' = IF all_results # {} THEN all_results ELSE csv
    /\ UNCHANGED <<faults, slotVars, echo, clients, remote, local, all_results,
                   planned>>

Orchestrator ==
    \/ ConfigureAp \/ JoinStation \/ JoinWrites \/ StartEchoServer \/ StartEchoClient \/ Wait
    \/ Collect \/ CleanupAp \/ CleanupSta \/ SaveResults
=============================================================================
