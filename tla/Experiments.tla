----------------------------- MODULE Experiments ----------------------------
(***************************************************************************)
(* The two experiment scripts run one after the other on one testbed, and  *)
(* what the analyzer and the overhead calculator say of them.              *)
(***************************************************************************)
EXTENDS Orchestration, SlotSweep, ResultsAnalysis, Overhead

CONSTANT Frames   \* parameters given to measure_overhead.py

ASSUME FramesAssumption == \A f \in Frames : IsFrame(f)

vars == <<testbedVars, orchestratorVars, sweepVars>>

Init == TestbedInit /\ OrchestrationInit /\ SweepInit

(* A step of the script that runs.                                         *)
Script == \/ (Orchestrator /\ UNCHANGED sweepVars)
          \/ (Sweep /\ UNCHANGED orchestratorVars)

Next ==
    \/ StartOrchestrator /\ UNCHANGED sweepVars
    \/ StartSweep /\ UNCHANGED orchestratorVars
    \/ Script
    \/ (Interrupt \/ Hosts) /\ UNCHANGED <<orchestratorVars, sweepVars>>

Spec == Init /\ [][Next]_vars

(* Every remote command of a script has a timeout, and its waits are fixed *)
(* times: the script goes on.  Nothing is assumed of the hosts.            *)
FairSpec == Spec /\ WF_vars(Script)

-----------------------------------------------------------------------------
Preparing == pc \in {"configure", "join", "joined"}
Measuring == pc \in {"server", "client", "wait", "collect", "cleanup",
                     "cleanup_sta"}
Orchestrating == Preparing \/ Measuring \/ pc = "save"
Sweeping == pc \in {"sw_configure", "sw_measure", "sw_parse", "sw_save"}

Rows == [station : Stations, repeat : 1 .. MaxRepeats, log : Logs]
SweepRows == [n_tdma : Ids, repeat : 1 .. MaxRepeats, log : Logs]

TypeOK ==
    /\ TestbedTypeOK
    /\ pc = "idle" \/ Orchestrating \/ Sweeping
    /\ n_tdma_values \in ValueLists \cup {<< >>}
    /\ IF Sweeping THEN idx \in DOMAIN n_tdma_values
       ELSE idx \in Nat /\ (Orchestrating => idx \in Stations)
    /\ all_results \subseteq Rows /\ csv \subseteq Rows
    /\ results \subseteq SweepRows /\ sweep_csv \subseteq SweepRows
    /\ planned \in BOOLEAN /\ refused \subseteq Ids

(* "Each STA uses a slightly different port to avoid collision", "Start a  *)
(* separate echo server for each STA port" (orchestrator:308-310), so that *)
(* each station is measured: the start of one station's echo server leaves *)
(* those of the other stations' clients running.                           *)
SeparateEchoServers ==
    [][\A c \in clients :
          pc = "server" /\ pc' = "client" /\ c.sta \in echo /\ c.sta # idx
            => c.sta \in echo']_vars

(* What holds instead: pkill before each start leaves one echo server, so  *)
(* that of all the stations of a repeat at most one is ever measured in    *)
(* this run: the clients of the others wait for echoes until they are      *)
(* killed without a log.                                                   *)
OneStationPerRepeat ==
    \A x, y \in all_results :
        /\ x.log.by = run /\ y.log.by = run
        /\ x.repeat = y.repeat
        => x.station = y.station

(* Stations that hold what they were given since the AP was configured     *)
(* hold different slots, unless more connections than stations were served *)
(* (of clients that ssh gave up on): whoever failed, whenever they write   *)
(* what they were given, and even if the old server is still the one that  *)
(* answers.  A client of an earlier configuration can still write the slot *)
(* that it was given then; its station, whose number is -1, is excepted.   *)
ServedStationsDiffer ==
    taken <= num_stas =>
        \A s, t \in Stations :
            s # t /\ number[s] # -1 /\ number[t] # -1 => dev[s] \cap dev[t] = {}

(* The stations that the script has let join in this repeat, and those     *)
(* that took an id for it.                                                 *)
Joined == IF Measuring THEN num_stas ELSE IF Preparing THEN idx ELSE 0
Served == IF pc = "joined" THEN idx + 1 ELSE Joined

(* If no configuring command failed in this repeat, the AP has no slot,    *)
(* and, if nobody else asked for a slot, station i holds slot i from its   *)
(* join on, unless a client that was given its slot before that            *)
(* configuration wrote it over: whatever the runs before (a sweep gives    *)
(* slots to the AP) have left in the devices, and whichever server that    *)
(* was.                                                                    *)
PlanInForce ==
    planned /\ (Preparing \/ Measuring) /\ pc # "configure" =>
        /\ dev[AP] = {}
        /\ taken = Served =>
              \A s \in 0 .. Joined - 1 :
                  number[s] # -1 => dev[s] = slots_to_bitmap({s}, {})

(* A row made of a log that another run has written: then the client of    *)
(* this run had no log at that moment (it was late, lost or never          *)
(* started), an orphan of that other run has just overwritten it, or, in   *)
(* the sweep alone, the copy failed and an older copy was read.            *)
OldLog(row, f) ==
    row.log.by # run =>
        \/ [log |-> f, by |-> run] \notin wrote
        \/ [log |-> f, by |-> row.log.by] \in wrote
        \/ f.kind = "n" /\ local[f] = row.log /\ faults' > faults

OldRowsExplained ==
    [][/\ \A row \in all_results' \ all_results :
             OldLog(row, echo_sta(row.station, row.repeat))
       /\ \A row \in results' \ results :
             OldLog(row, echo_n(row.n_tdma, row.repeat))]_vars

(* The value n occurs once in the list.                                    *)
Once(n) ==
    \A v, w \in DOMAIN n_tdma_values :
        n_tdma_values[v] = n /\ n_tdma_values[w] = n => v = w

(* The driver bits of the slots below n that are not the station's.        *)
ApWord(n) == slots_to_bitmap(0 .. n - 1 \ sta_slots(n), {})

(* A row that a client of this run measured for n slots was measured while *)
(* the AP held the first n slots but those that the sweep prints as the    *)
(* station's, and nothing else, unless the AP did not take its slots in    *)
(* this run: neither what the runs before left nor clients that go on when *)
(* ssh gave up on them nor a failed copy mixes configurations.  When n is  *)
(* listed twice, a client of its first turn may still run through the      *)
(* turns of others and is then read in the second.                         *)
SweepRowsMatchConfiguration ==
    \A row \in results :
        row.log.by = run /\ row.n_tdma \notin refused =>
            /\ ApWord(row.n_tdma) \in row.log.ap
            /\ Once(row.n_tdma) => row.log.ap = {ApWord(row.n_tdma)}

(* The analyzer finds the log of every row of this run, as it was copied,  *)
(* and so never falls back to the table; what it finds besides has no row. *)
AnalyzerSeesEveryRow ==
    /\ \A row \in all_results :
          local[echo_sta(row.station, row.repeat)] = row.log
    /\ LET found == analyze_single_dir(local, csv) IN
       pc = "idle" =>
          /\ \A row \in csv \cup all_results :
                row.station \in DOMAIN analyze_logs(local)
          /\ \A s \in DOMAIN found :
                found[s].num_runs
                  >= Cardinality({row \in all_results : row.station = s})

Directories ==
    [{echo_sta(s, r) : s \in Stations, r \in 1 .. MaxRepeats} ->
        [by : 1 .. MaxRepeats, lost : 0 .. Count, ap : {{}}] \cup {NoLog}]

Consistent(dir) ==
    LET found == analyze_single_dir(dir, csv)
        jain == reported_fairness(found)
    IN  /\ jain.den >= jain.num /\ jain.num >= 0
        /\ DOMAIN found # {} =>
              jain.num * Cardinality(DOMAIN found) >= jain.den
        /\ print_summary(csv).num = print_summary(csv).den
        /\ jain.num = jain.den <=>
              \A s, t \in DOMAIN found :
                  found[s].num_runs = found[t].num_runs
        /\ \A s \in DOMAIN analyze_logs(dir) :
              LET st == analyze_logs(dir)[s].stats IN
              /\ \A p, q \in DOMAIN st.at : p < q => st.at[p] <= st.at[q]
              /\ \A p \in DOMAIN st.at : st.min <= st.at[p] /\ st.at[p] <= st.max
              /\ st.at[50] = -1 <=>
                    2 * SumFunction([f \in echo_files(dir, s) |-> dir[f].lost])
                      > st.count

(* compute_jain_fairness "Returns float in [0, 1]", and never less than    *)
(* 1/n.  It is 1 exactly if all stations have as many logs in the          *)
(* directory, whatever was lost, since a lost request's -1 counts as       *)
(* received; that of print_summary always is 1.  Percentiles are in order, *)
(* and the median is that of a loss exactly if more than half of the       *)
(* requests were lost.  For every directory of orchestrator logs, and for  *)
(* those that runs leave.                                                  *)
AnalysisConsistent ==
    pc = "idle" =>
        \A dir \in IF run = 0 THEN Directories ELSE {local} : Consistent(dir)

(* N_max is tight: the n of the sweep preserves p percent of the frame for *)
(* CSMA exactly if n <= N_max, in every frame that has room for none.      *)
NMaxIsTight ==
    Sweeping =>
        \A f \in Frames, p \in {30, 50} :
            /\ n_tdma > n_max(f, p) => ~Preserves(f, n_tdma, p)
            /\ Room(f, p) >= 0 =>
                  (n_tdma <= n_max(f, p) <=> Preserves(f, n_tdma, p))

(* Whatever hangs or fails on the hosts, a script ends.                    *)
ScriptEnds == []<>(pc = "idle")
=============================================================================
