--------------------------- MODULE ResultsAnalysis --------------------------
(***************************************************************************)
(* multi_sta_analyzer.py: what it makes of the logs in one results         *)
(* directory.  A directory is a function from file names [kind, id,        *)
(* repeat] to logs [by, lost] or NoLog, as in Testbed.  An answered        *)
(* request's round trip is 1 and a lost one's -1, so that a sorted list of *)
(* round trips is given by its length and its losses; means and deviations *)
(* are left out.                                                           *)
(***************************************************************************)
EXTENDS Testbed, FiniteSets, Functions

(* parse_rtt_csv: a row's -1 is a number like any other, and the column    *)
(* deadline_met that it looks for is not one that the client writes.       *)
parse_rtt_csv(log) ==
    [total |-> Count, received |-> Count, missed |-> 0,
     deadline_misses |-> 0, lost |-> log.lost]

(* The round trip at index i (from 0) of a sorted list of n with l losses. *)
RttAt(i, l) == IF i < l THEN -1 ELSE 1

(* int(n * p) limited to the last index; p in percent.                     *)
percentile_idx(n, p) == IF (n * p) \div 100 < n - 1 THEN (n * p) \div 100
                                                    ELSE n - 1

(* compute_stats for n sorted round trips of which l are -1.               *)
compute_stats(n, l) ==
    [count |-> n, min |-> RttAt(0, l), max |-> RttAt(n - 1, l),
     at |-> [p \in {25, 50, 75, 95, 99} |-> RttAt(percentile_idx(n, p), l)]]

(* Mutation: one log of each station.                                      *)
echo_files_first(dir, s) ==
    {f \in DOMAIN dir : f = echo_sta(s, 1) /\ dir[f] # NoLog}

(* The files that the glob echo_sta*.csv finds and groups under station s, *)
(* whatever experiment, number of stations or repeat they belong to.       *)
echo_files(dir, s) ==
    {f \in DOMAIN dir : f.kind = "sta" /\ f.id = s /\ dir[f] # NoLog}

(* analyze_aggregated_csv, of the orchestrator's table.                    *)
analyze_aggregated_csv(rows) ==
    [s \in {row.station : row \in rows} |->
        LET of == {row \in rows : row.station = s}
        IN  [total_received |-> Count * Cardinality(of),
             num_runs |-> Cardinality(of)]]

(* analyze_single_dir, when there is such a file: the other files are not  *)
(* looked at then.                                                         *)
analyze_logs(dir) ==
    [s \in {f.id : f \in {g \in DOMAIN dir : g \in echo_files(dir, g.id)}} |->
        LET data == [f \in echo_files(dir, s) |-> parse_rtt_csv(dir[f])]
            total(field) == SumFunction([f \in DOMAIN data |-> data[f][field]])
            received == total("received")
        IN  [stats |-> compute_stats(received, total("lost")),
             total_packets |-> total("total"),
             total_received |-> received,
             num_runs |-> Cardinality(DOMAIN data)]]

(* The table is read when there is no log at all.                          *)
analyze_single_dir(dir, table) ==
    IF DOMAIN analyze_logs(dir) # {} THEN analyze_logs(dir)
    ELSE analyze_aggregated_csv(table)

(* Mutation: the number of flows is left out.                              *)
compute_jain_sum(throughputs) ==
    LET S == DOMAIN throughputs
        sum == SumFunction(throughputs)
        sum2 == SumFunction([s \in S |-> throughputs[s] * throughputs[s]])
    IN  IF sum = 0 THEN [num |-> 0, den |-> 0]
        ELSE [num |-> sum * sum, den |-> sum2]

(* compute_jain_fairness as a fraction; [0, 0] stands for None.            *)
compute_jain_fairness(throughputs) ==
    LET S == DOMAIN throughputs
        sum == SumFunction(throughputs)
        sum2 == SumFunction([s \in S |-> throughputs[s] * throughputs[s]])
    IN  IF sum = 0 THEN [num |-> 0, den |-> 0]
        ELSE [num |-> sum * sum, den |-> Cardinality(S) * sum2]

(* The index that print_comparison_table prints for one directory: a row   *)
(* of the table has the number of its packets where logs give those        *)
(* received.                                                               *)
reported_fairness(results) ==
    compute_jain_fairness([s \in DOMAIN results |-> results[s].total_received])

(* The index that the orchestrator's print_summary prints, of the mean of  *)
(* what its own parse_rtt_csv counts as received.                          *)
print_summary(rows) ==
    LET mean(s) == LET of == {row \in rows : row.station = s} IN
            SumFunction([row \in of |-> parse_rtt_csv(row.log).received])
              \div Cardinality(of)
    IN  compute_jain_fairness([s \in {row.station : row \in rows} |-> mean(s)])
=============================================================================
