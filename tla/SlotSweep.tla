------------------------------ MODULE SlotSweep -----------------------------
(***************************************************************************)
(* sweep_tdma_slots.py: for every value of --n_tdma_values write the AP's  *)
(* slots with userapp, then repeats times run an echo client on the        *)
(* station over ssh, copy its log and make a row of it.  The sweep starts  *)
(* no echo server, kills no client and writes no device but the AP's.      *)
(***************************************************************************)
EXTENDS Testbed

VARIABLES
    n_tdma_values, \* --n_tdma_values of the last sweep
    results,   \* the rows of this run
    sweep_csv, \* the rows in sweep_results.csv
    refused    \* history: values of this run whose slots the AP did not take

sweepVars == <<n_tdma_values, results, sweep_csv, refused>>

SweepInit ==
    n_tdma_values = << >> /\ results = {} /\ sweep_csv = {} /\ refused = {}

n_tdma == n_tdma_values[idx]

(* The even slots below n; none for n = 1, where the station gets slot 0.  *)
ap_slots(n) == {i \in 0 .. n - 1 : n # 1 /\ i % 2 = 0}
sta_slots(n) == {i \in 0 .. n - 1 : n = 1 \/ i % 2 = 1}

(* Raises ValueError for a slot that session 1 does not have.              *)
logical_slots_to_driver_bitmap(slots) ==
    {SESSION1_DRIVER_OFFSET + slot : slot \in slots}

StartSweep ==
    /\ Works /\ Begin("sw_configure") /\ idx' = 1
    /\ n_tdma_values' \in ValueLists
    /\ results' = {} /\ refused' = {}
    /\ UNCHANGED <<echo, clients, remote, slotVars, local, sweep_csv>>

(* configure_tdma_slots; False is ignored by run_sweep.                    *)
SweepConfigure ==
    /\ pc = "sw_configure"
    /\ ap_slots(n_tdma) \subseteq Session1
    /\ \/ /\ Works /\ UNCHANGED refused
          /\ dev' = [dev EXCEPT ![AP] =
                        logical_slots_to_driver_bitmap(ap_slots(n_tdma))]
       \/ Fails /\ refused' = refused \cup {n_tdma} /\ UNCHANGED dev
    /\ clients' = SeeAp(clients)
    /\ pc' = "sw_measure" /\ repeat' = 1
    /\ UNCHANGED <<argVars, idx, tdma_up, next_node_id, tdma_clients, taken, number,
                   echo, remote, wrote, local, n_tdma_values, results, sweep_csv>>

(* The ValueError ends the sweep before its table is written.              *)
SweepRaises ==
    /\ pc = "sw_configure"
    /\ ~(ap_slots(n_tdma) \subseteq Session1)
    /\ End
    /\ UNCHANGED <<faults, slotVars, echo, clients, remote, local, sweepVars>>

(* run_echo_measurement waits for its client.  After the timeout of ssh    *)
(* the client goes on by itself, and the sweep as well.                    *)
SweepMeasure ==
    LET f == echo_n(n_tdma, repeat) IN
    /\ pc = "sw_measure"
    /\ \/ /\ Works /\ 0 \in echo
          /\ \E lost \in 0 .. Slack :
                remote' = [remote EXCEPT ![f] =
                              [by |-> run, lost |-> lost, ap |-> {dev[AP]}]]
          /\ wrote' = wrote \cup {[log |-> f, by |-> run]}
          /\ UNCHANGED clients
       \/ /\ IF 0 \in echo THEN Fails ELSE Works
          /\ clients' = clients \cup
                {[sta |-> 0, log |-> f, by |-> run,
                  starved |-> 0 \notin echo, late |-> TRUE, ap |-> {dev[AP]}]}
          /\ UNCHANGED <<remote, wrote>>
       \/ Fails /\ UNCHANGED <<clients, remote, wrote>>
    /\ pc' = "sw_parse"
    /\ UNCHANGED <<argVars, repeat, idx, echo, slotVars, local, sweepVars>>

(* The row of a measurement: the n it was meant for, and whatever was read. *)
Measured(log) ==
    results' = results \cup {[n_tdma |-> n_tdma, repeat |-> repeat, log |-> log]}

(* Mutation: the slots are configured for the first value only.            *)
NextMeasurement_unconfigured ==
    IF repeat < repeats
      THEN repeat' = repeat + 1 /\ pc' = "sw_measure" /\ idx' = idx
      ELSE /\ repeat' = IF idx < Len(n_tdma_values) THEN 1 ELSE repeat
           /\ IF idx < Len(n_tdma_values)
                THEN pc' = "sw_measure" /\ idx' = idx + 1
                ELSE pc' = "sw_save" /\ idx' = idx

(* The next repeat, value, or the end of both loops.                       *)
NextMeasurement ==
    IF repeat < repeats
      THEN repeat' = repeat + 1 /\ pc' = "sw_measure" /\ idx' = idx
      ELSE /\ repeat' = repeat
           /\ IF idx < Len(n_tdma_values)
                THEN pc' = "sw_configure" /\ idx' = idx + 1
                ELSE pc' = "sw_save" /\ idx' = idx

(* parse_echo_results reads whatever file of that name is there, copied    *)
(* now or not.                                                             *)
SweepParse ==
    LET f == echo_n(n_tdma, repeat) IN
    /\ pc = "sw_parse"
    /\ Copy(f) \/ CopyFails(f)
    /\ IF local'[f] = NoLog THEN UNCHANGED results ELSE Measured(local'[f])
    /\ NextMeasurement
    /\ UNCHANGED <<argVars, slotVars, echoVars, n_tdma_values, sweep_csv, refused>>

SweepSave ==
    /\ pc = "sw_save" /\ End
    /\ sweep_csv' = IF results # {} THEN results ELSE sweep_csv
    /\ UNCHANGED <<faults, slotVars, echo, clients, remote, local, n_tdma_values,
                   results, refused>>

Sweep == \/ SweepConfigure \/ SweepRaises \/ SweepMeasure \/ SweepParse
         \/ SweepSave
=============================================================================
