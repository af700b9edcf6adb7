# Hybrid TDMA/CSMA MAC and ROS bridge: specifications, model checking, proofs

TLA+ models of the user-space and kernel-side programs of this repository,
TLC configurations that check them on small instances, and theorems that the
TLA+ proof system checks for every value of the constants.

Abbreviations: `APP` = `src/sdr_fpga/driver/TDMA_driver/TDMA_Python_app`,
`MISC` = `src/sdr_fpga/driver/TDMA_driver/misc_module`,
`BRIDGE` = `src/ros_integration/tdma_bridge/tdma_bridge.py`.

## 1. The system

| Component | Code | State it keeps | Operations |
|---|---|---|---|
| Slot vocabulary | `slots_to_bitmap` and its copies | none | logical slots of two sessions to the driver's 30-bit word |
| Allocation server (AP) | `APP/TDMA_server.py` | the operator's plan, a counter of connections, a listen queue | configure, accept, send three lines, close |
| Allocation client (STA) | `APP/TDMA_client.py` | the lines it has read | connect, read, parse, run `userapp` |
| TDMA API (STA) | `APP/tdma_api.py` | `config` | configure, query slots, `send_in_slot` |
| misc device | `MISC/misc.c`, `MISC/userapp.c` | `open_state`, `strChangeData1`, `timeSlack` | open, release, read, write, two functions for the WiFi driver |
| ROS bridge (robot) | `BRIDGE` | command queue and its counters, `_running`, UDP socket, statistics | start, callbacks, slot worker, stop |
| Echo measurement | `APP/UDP_echo_client.py`, `APP/UDP_echo_server.py` | counters, rows, log | send, receive or time out, sleep, summarise; echo |
| Orchestrator | `APP/multi_sta_orchestrator.py` | `all_results`; on other hosts the servers and clients it started, their logs, the boards' slots | per repeat: configure the AP, join the stations, start echo servers and clients, wait, collect, clean up; save |
| Slot sweep | `APP/sweep_tdma_slots.py` | `results`; the AP's device, logs and their copies | per value: configure the AP; per repeat: measure, copy, parse; save |
| Results analyzer | `APP/multi_sta_analyzer.py` | none | group the logs of a directory, statistics, Jain's index, fall back to the table |
| Overhead calculator | `APP/measure_overhead.py` | none | the budget of a frame, the largest number of flows |
| Pure pursuit | `ros_simulation/.../purepursuit` | path, poses, loop index, last angle | callbacks, control loop at a fixed period |

How they meet:

```
operator -> TDMA_server --TCP, 3 lines--> TDMA_client --userapp--> /dev/my_misc (STA) <-- WiFi driver
                |                         tdma_api, tdma_bridge          ^
                +--userapp--> /dev/my_misc (AP)        send_in_slot -----+
/cmd_vel publishers --rospy threads--> queue <--slot worker--> UDP socket
orchestrator, sweep --ssh--> TDMA and echo servers (AP), clients (STAs), userapp (AP)
echo client <--UDP--> echo server;  log --scp--> results directory --> rows, table, analyzer
```

What makes this hard is spread over it: the server numbers *connections*, in
order of arrival, and a program may be gone, cut off or restarted at any
moment of a three-line response (`TdmaAllocation`); the kernel module shares
packed records with a driver that takes no lock (`MiscDevice`); three kinds of
threads of the bridge share a queue with a lock and a flag, a clock, a counter
and a socket without one (`TdmaBridge`); UDP loses, delays, reorders and
duplicates (`EchoMeasurement`); the scripts act on hosts through ssh commands
whose results they ignore, whose processes outlive them and whose `pkill -f`
hits more than they mean (`Experiments`). `PROJECT.json` lists each of these hazards at
its line with the properties that would catch it.

What makes each component correct, in a sentence: nobody believes in, holds or
writes a slot that it was not given, however its session ended; the device has
one holder and never shows a mix of records that were not in force together;
every command is sent once, dropped once or missed once, in order, and at most
one is sent after stop; a measurement has no more answered rows than requests
that were answered, but for what the network duplicates, and counters and rows
agree wherever the user interrupts; a row of an
experiment stands for its own station, repeat and configuration, or it is known
what must have failed for it not to.

## 2. Modules

| Module | Models | Used by |
|---|---|---|
| `SlotBitmap` | slot indices, bitmaps (as sets of bits), `has_slot`, `TDMASlot` | `SlotService`, `TdmaAllocation`, `Testbed` |
| `SlotService` | abstract: what slot allocation promises | `TdmaAllocation` |
| `TdmaAllocation` | server, TCP, the three kinds of configuring programs, the boards' devices (as one cell each) | `MC_TdmaAllocation` |
| `MiscDevice` | one board's `/dev/my_misc` in pieces, its processes, the WiFi driver's two calls | `MC_MiscDevice` |
| `LossyQueue` | abstract: what the command queue promises | `TdmaBridge` |
| `TdmaBridge` | the running bridge, thread by thread | `MC_TdmaBridge` |
| `EchoMeasurement` | echo client and server, the network, the reader of the log | `MC_EchoMeasurement` |
| `Testbed` | the hosts: processes, logs, devices; what goes on there by itself | the next three |
| `Orchestration` | the steps of the orchestrator | `Experiments` |
| `SlotSweep` | the steps of the sweep | `Experiments` |
| `ResultsAnalysis` | the analyzer, as operators on a directory | `Experiments` |
| `Overhead` | the overhead calculator, as operators on frame parameters | `Experiments` |
| `Experiments` | composition: scripts one after the other on one testbed, and what the analyzer and the calculator say of it | `MC_Experiments` |
| `*_proofs` | the theorems about the module of that name | |

Definitions called *Mutation* in a comment are wrong variants of the
definition that follows them. They are used by nothing: each property is
checked to fail when its variant takes the place of the definition, which
shows that the property depends on the code (the pairs are in
`PROJECT.json`, "mutants").

### TdmaAllocation and SlotService

An element of `Programs` is one execution of `TDMA_client.py` ("cli"), of
`TDMAClient.connect_and_configure` ("api") or of the bridge's management client
("bridge"), on the board `Board[p]`. `server`, `plan`, `next_node_id`, `conn`
and `backlog` are the server's control point, its input, its counter, the
connection it is serving and the kernel's queue of established connections.
`wire[p]` holds the lines sent to `p`, `link[p]` what `p` can observe of its
connection, `config[p]` what it has parsed, `dev[b]` the record in the device of
board `b`. `granted` is a history: which execution, number and plan each program
was accepted under.

The server's main is cut into `StartServer` (up to the AP's own write),
`AbortConfiguration`, `Listen`, `Accept`, `SendLine` (one per `sendall`) and
`CloseConn`. It can be killed, can be ended by the exception of a `sendall` whose
peer is gone (`CrashOnSend`: only after an earlier line went to nobody), or lose
power. A program's three reads are one step that waits for all lines or the end
of the stream: until then they have no effect that anybody sees. A line that
is missing because the stream ended reads as the empty string, which the code
takes for an empty slot list; that is `ReadLine`. `write_to_fpga` may fail
without consequence, as in the code. TCP itself is external: connections
deliver lines whole and in order, each response line being one small segment.

`SlotService` is what this adds up to for somebody who sees no connection: an
execution of the server has one plan and grants the numbers 0, 1, 2, ...; who
was granted a number obtains in one step the id and the slots that the plan has
for it; what was obtained is what is written, to the writer's own board. Its
`grant` is `granted` of the programs that were accepted, its `held` is `config` of
those that have parsed a response, its `pending` are the clients that have still to
call `userapp`; the number of a grant is the number of grants before it, not a
counter. It says what a cut connection costs: a program may end up with
session 1 alone or with no slots, but only under its own id and only if the
execution that granted it is over; while the server runs, an assignment is whole
or not obtained at all. The ways in which a session ends (a kill, an exception, a loss of
power, a reset, a timeout, a program that gives up) are `End` or no step at all.

### MiscDevice

A record is a function over `Cells`, and every copy in the kernel takes a step
per cell, in any order: the structure is packed, so that neither the two
assignments of `misc_write` nor the structure copies and `memcpy` are single
accesses. `open_state` is tested and set in one step because the misc core calls
`misc_open` under its mutex; release is called for a killed process too.
`send_in_slot` is the sequence of `write(2)` calls that Python's BufferedWriter
makes of a packet when each call returns the size of one record: `Packet[s]` are
the records that result and `Remainder[s]` the bytes of the last, refused call.
`committed`, `lastReport`, `inForce` and `reported` are histories.

### TdmaBridge and LossyQueue

One step is one operation under the queue's lock or one access to something
shared without a lock. `main` is the main thread (`start`, keep-alive loop, `stop`,
`close`), `worker` the slot worker from the test of `_running` to the return of
`sendto`, `callback[p]` the deadline that a callback has computed but not yet
enqueued (rospy runs one thread per publisher, so one callback per publisher is
under way). Time is a tick counter. `sendto` may take for ever, since it may be
looking up a name, and may succeed or fail; the join of `stop` ends after two
seconds, whatever the worker does. `LossyQueue` is the promise to the sender,
in terms of sequence numbers only: the oldest waiting command next, only the
oldest give way, nothing twice and nothing backwards. `TdmaBridge` instantiates
it with the numbers in its deque, `seq_counter` and a history of the last number
dequeued.

### EchoMeasurement

Every statement of the client's loop that changes a counter, the rows or the
network is a step of its own, because Ctrl-C may fall between any two. A datagram
is the number of its request and of its copy; requests and answers on their way
are sets, so that they are delivered in any order or lost, and `Duplicate` makes a
copy. Real datagrams carry no number of their copy; it keeps two of them apart in
a set, and no step of the client or the server and no property looks at it. Clocks are abstracted: a timeout may happen whenever the socket is empty,
an answer may be early or late for the deadline. `parse_rtt_csv` is the
orchestrator's reader, as an operator on the rows.

### Testbed, Orchestration, SlotSweep, Experiments

Here a whole TDMA client, a whole echo client and a whole ssh command are one
process each, and the models above show what happens inside. `Testbed` has the state that both
scripts act on and that outlives them: live echo servers (`echo`, by port) and
clients (`clients`), the TDMA server and its counter, the boards' devices, the logs
in the stations' `/tmp` (`remote`) and their copies (`local`), under names that do
not say which execution wrote them. A log is the number of the execution that
wrote it and how many requests were lost. `run`, `pc`, `repeat` and `idx` are the
control point of the one script that runs; an operator starts scripts in any
order (`StartOrchestrator`, `StartSweep`) and may interrupt them.

Each action is one remote command with all it changes, for station `idx`, and
the loop's step to the next station (`EachStation`) is part of it. A command may do its work
(`Works`), not do it, or do it although it was reported failed (`Fails`, at most
`MaxFaults` times). One outcome is no fault: `pkill -f UDP_echo_server.py; nohup
python3 UDP_echo_server.py` runs in a shell whose own command line matches the
pattern, so the rest may never run.

A `TDMA_client.py` takes its id when the server accepts it (`JoinStation`,
`LateConnect`) and writes its device in a later step (`JoinWrites`, `LateWrite`), and
is in `tdma_clients` in between, with the slots that the server has given it. One
whose ssh timed out goes on by itself, before or after it has its id: it may
connect to whatever server there is by then, and may write what an earlier server
gave it after that one was replaced, its counter reset and its station served
again. When its server is killed its response may be cut (`cut`): it then writes
its slots, no slots, or nothing.

An echo client is
*starved* when nearly all of its echoes have no server and *late* when the script
no longer waits for it; one with too many losses cannot end in time, since a lost
request takes a timeout of ten intervals and the wait is the nominal duration
plus 30 s.

`taken`, `number`, `wrote`, `planned`, `refused` and the component `ap` of an echo
client and of its log are histories: connections served since the AP was configured
last; the number of the connection that each station's device was written from, -1
if that connection is older than the configuration; the logs that clients wrote
during this run; whether the configuring commands of this repeat worked; the values
whose slots the AP did not take in this run; and the words that were in the AP's
device while that client ran, from its start to its end. So a row of the sweep is
judged by what its own client saw, not by what the device holds when the log is
read.

### ResultsAnalysis and Overhead

Operators, no state. A directory is a function from file names to logs. A round
trip is 1 or, for a loss, the -1 that the client writes, which is enough for
counts, extremes, percentiles (by index into the sorted list) and Jain's index (as
a fraction). `Overhead` multiplies by `sw_frame_us` to stay in integers; `n_max` cuts
towards zero as Python's `int` does.

## 3. Runs

Deadlock is not checked in the models of programs that really end (all but
`MiscDevice`, where the WiFi driver goes on for ever).

| Run | Shows | Bounds |
|---|---|---|
| `allocation` | seven invariants of the allocation, and that it implements `SlotService` | two stations, three "cli" programs, two of them on one board, two executions of the server, two plans that give a slot of one station to the other, queue of 2 |
| `allocation_ends` | `ConfigurationEnds` | two "cli" and one "api" program, one execution of the server and one plan |
| `quick_start` | finding: stations come to share slots | two "cli" programs and a bridge |
| `misc_device` | five invariants and `EveryProcessEnds` | two writers, a reader, a sender of two records and a remainder, two cells, one report |
| `misc_reserved` | finding: packets become the allocation | one writer |
| `bridge` | four invariants, order and expiry, two liveness properties, `LossyQueue` | two publishers, queue of 2, three commands, two ticks |
| `bridge_expiry` | finding: expiry is incomplete | as `bridge` |
| `echo` | six invariants and `ClientEnds` | three requests, one duplication, buffer of 2 |
| `experiments` | which slots are in force, under which configuration a row was measured and whose log it is made of, what the analyzer and the calculator say of it, and `ScriptEnds` | two stations, two repeats over all executions, one fault, sweeps over `<<2, 1>>` and `<<7>>` |
| `experiments_servers` | finding: one station's echo server ends the others' | as `experiments` |
| `echo_rtt`, `echo_parse` | findings: attribution, and the reading of the log | as `echo` |

Why the bounds are enough. *Allocation*: three programs for plans of two stations
make the counter wrap, two command-line clients on one board race for its device
(they are interchangeable, which is the run's symmetry), two
executions with different plans make every stale id and slot list visible; the
plans use both sessions, different numbers of slots and an empty list, so that a
truncated line cannot pass for a whole one unnoticed. *Device*: two cells are the
least that can tear; three concurrent openers include every pair of kinds.
*Bridge*: three commands overflow a queue of two, two ticks let a deadline of
one tick pass while another command is in time, and two publishers invert
deadlines. *Echo*: one request times out, the next takes its answer, the third
is wrong because of that; one duplicate can do the same without a timeout.
*Experiments*: with two stations the second echo server kills the first, and a
failed join shifts the other station's id; two repeats are one execution of two,
or two executions, of the same script or of one after the other, so that an
orphan, a log or a slot of the first meets the second; one fault is what it takes
to make one. `<<2, 1>>` has the general case and the special case of one slot, 7 is a
slot that session 1 does not have. `Count` = 2, `Early` = 1 and `Slack` = 0 stand for
3000 requests of which fewer than 150 fall into the launch and fewer than 100 may
be lost in time; what matters is `Slack + Early < Count`. The analyzer is checked on
the directories that runs leave and, in the initial state, on every directory of
orchestrator logs; the calculator on its default frame, on one nearly full and on
one that its control slots over-fill. What could only go wrong with more is
covered by the proofs, which also allow what these bounds leave out: a sweep that lists a value
twice, and two clients that outlive their ssh.

Names of bounds: `MaxStarts` (executions of the server), `Backlog` (a real limit,
5 in the code), `MaxSlack` (reports of the driver), `MaxCommands`, `MaxTime`,
`MaxCopies` (duplications), `MaxRepeats` (repeats over all executions), `MaxFaults`
(remote commands that go wrong); `Count`, `max_queue_len` and `DeadlineTicks` are the
programs' own parameters.

### Fairness

`TdmaAllocation`: weak fairness of the server's loop, of each program's own steps
and of the 10 s socket timeout of the API and the bridge. Nobody has to start,
kill or connect anything. `TDMA_client.py` has no timeout, and `ConfigurationEnds`
excepts it when the AP lost power. `MiscDevice`: weak fairness of each process
that was started; nothing of the WiFi driver. `TdmaBridge`: weak fairness of the
worker's steps up to `sendto` and of the shutdown, *not* of the return of
`sendto`, so that `StopEnds` holds with a worker that hangs and `CommandsLeave`
excepts exactly that. `EchoMeasurement`: weak fairness of the client alone, whose
timeout elapses; neither the server nor the network has to do anything.
`Experiments`: weak fairness of the running script's steps, because each of its
remote commands has a timeout and its waits are fixed times; nothing is assumed
of the hosts, so that `ScriptEnds` holds whatever hangs there.

## 4. Findings

Six runs violate a statement of the repository, and `PROJECT.json` quotes each:
the uniqueness of ids per robot (`quick_start`), the reservation of the device
(`misc_reserved`), the completeness of expiry (`bridge_expiry`), the round trip that
is measured (`echo_rtt`), the reading of a timed-out row as an answer (`echo_parse`)
and the separate echo server of each station (`experiments_servers`). For each there
is also what does hold: within one round of one server execution no slots are
shared (`SameRoundNoOverlap`), a late command stays only behind another publisher's
(`LateOnlyBehindAnother`), every round trip is right until the first timeout or
duplicate (`OwnReplyUntilTimeout`), of the stations of a repeat at most one is
measured (`OneStationPerRepeat`, a theorem).

What else the code does that its text or its user may not expect. These are seen in
the definitions or stated by properties that hold; no run violates them:

- Only the command-line client and the server write the device. The driver's
  README (`src/sdr_fpga/driver/README.md:20`) says that `tdma_api.py` writes its bitmap
  through `/dev/my_misc` as well: it only computes it, and a caller that was told
  True still holds slots that the driver knows nothing of.
- The bridge's docstring (`tdma_bridge.py:161`) calls its queue a "Priority queue" whose
  commands leave "in TDMA-slot order". It is first in, first out (`QueueImplements`):
  neither `slot_id` nor the deadline has a say in the order.
- The rows of the stations that were not measured are missing, or come from logs
  of earlier executions (`OldRowsExplained`).
- Stations may share slots after a connection more than there are stations; the
  precondition of `ServedStationsDiffer` is needed. So is its exception: a client
  that outlived its ssh, and was given a slot by a server that has been replaced
  since, writes that slot over the present one.
- The sweep writes only the AP's slots, so that the station keeps what it had. It
  parses a file that an earlier sweep left when its own copy fails, where the
  orchestrator records nothing: such a row was measured under whatever slots its
  own run had set, which is why `SweepRowsMatchConfiguration` speaks of logs of this
  run only. Even among these a value that is listed twice can get a log from a
  client of its first turn, which ran on under the slots of the values between.
- Jain's index of the analyzer compares numbers of logs, and that of
  `print_summary` always is 1, because a loss counts as received
  (`AnalysisConsistent`). For the same reason the analyzer reports no packet
  loss, and the column `deadline_met` that it looks for is written by no client.
- The deadline is handed in milliseconds to a client that takes seconds, and the
  sweep looks for a label of the miss rate that the client does not print.

## 5. Proofs

The safety properties in this table are proved for all values of the constants
that satisfy the named assumptions of the module (`LayoutAssumption`, `AllocationAssumption`, `DeviceAssumption`,
`BridgeAssumption`, `EchoAssumption`, `TestbedAssumption`, `NoLogAssumption`,
`FramesAssumption`); TLC evaluates these assumptions in the runs. They are every
invariant, action property and refinement of the runs that are expected to pass,
`OneStationPerRepeat` and `NumbersHandedOutOnce`, and facts about the operators.

| Module | Theorems |
|---|---|
| `SlotBitmap_proofs` | a bitmap stays in its word; disjoint assignments have disjoint bitmaps; equal bitmaps come from equal assignments; `has_slot` agrees with the bitmap; no slot that the API returns is ever active |
| `TdmaAllocation_proofs` | `TypeOK`, `NeverMoreThanGranted`, `FullyServedIsComplete`, `SameRoundNoOverlap`, `DeviceFromOwnGrant`, `FirstRoundMediumExclusive`, `NumbersHandedOutOnce`, `ReaderIsAttended`, the refinement of `SlotService` |
| `MiscDevice_proofs` | `TypeOK`, `SingleHolder`, `AllocationIsWhole`, `DriverReadIsRegular`, `SlackReadIsRegular` |
| `TdmaBridge_proofs` | `TypeOK`, `EveryCommandCounted`, `AtMostOneAfterStop`, `WorkerKeepsItsSocket`, `LateOnlyBehindAnother`, the refinement of `LossyQueue`, its order, and expiry with one publisher |
| `EchoMeasurement_proofs` | `TypeOK`, `RowsExceedRequestsByCopies`, `OwnReplyUntilTimeout`, `SummaryAgreesWithRows`, `MissedAgreesWithRows`, `ReceivedWereEchoed` |
| `ResultsAnalysis_proofs` | Jain's index of any n numbers is between 1/n and 1, and 1 exactly if they are equal; percentiles of any sample are in order, within its extremes, and the median is a loss exactly if more than half are |
| `Overhead_proofs` | `n_max` is the most flows that preserve p percent, for every frame with room for none |
| `Experiments_proofs` | `TypeOK`, `OneStationPerRepeat`, `ServedStationsDiffer`, `PlanInForce`, `SweepRowsMatchConfiguration`, `NMaxIsTight`, `OldRowsExplained`, `AnalyzerSeesEveryRow`, `AnalysisConsistent` |

Each proof follows one pattern: an inductive invariant `IInv`, the conjunction of
the named parts at the end of the module, with one lemma per part (`Init` implies
it, every step keeps it), one case per action, and the theorem from these by
`PTL`. Why the strengthening is needed:

- *Allocation.* What a program holds is right because what is on its wire are
  the first lines of its own assignment (`WireInv`), because no line can follow once
  it has parsed (`ConfigInv`), because a queued connection was never served
  (`BacklogInv`) and a number is never given out twice by one execution
  (`NumbersInv`).
  That an execution leaves no number out (`NoGap`) and that a reader is queued or
  served (`ReaderIsAttended`) are inductive beside it. The refinement of `SlotService`
  needs two more facts. The counter is the number of grants of this execution: the
  numbers given out are all those below it and no two are equal, so that they
  map one to one onto an interval (`CounterCounts`). A connection that the open
  execution has closed has had its three lines (`CompleteInv`), so that a response
  with fewer comes from an execution that is over. Every other step of the
  server, the connections and the programs maps to a step of the service or to none
  (`ServiceStep`).
- *Device.* During a write the allocation is new in the cells that are done and
  old in the others (`AllocationInv`); whatever is in force while somebody copies
  belongs to the history of that copy (`WindowInv`); only one process holds the
  file (`SingleHolder`), which is why there is at most one write to consider.
- *Bridge.* The deque holds an interval of numbers that ends with the newest
  (`QueueInv`), which carries the refinement; a send after stop leaves the worker
  nothing but to find the flag down (`StopInv`); one publisher's deadlines never
  decrease along the deque (`DeadlineInv`).
- *Echo measurement.* That the answered rows are not more than the requests they
  echo and the duplications depends on where all datagrams are: each is in exactly
  one of the request path, the reply path, the socket's buffer, the client's hand or
  a row, and carries a request that was sent (`PlacesInv`, `RowsInv`). A fresh request
  and a fresh copy are then new to all of them, each copy is one datagram
  (`CopiesInv`), and rows that echo the same request are told apart by their copies,
  which are counted by an injection. Until the first timeout or duplicate nothing is under way between two
  requests (`CleanInv`), so the unchecked answer is the right one. The summary
  follows from the offsets of counters and rows at each statement (`CountersInv`,
  `MissedInv`), the bound by the server's counter from counting the answers under
  way as well (`EchoedInv`).
- *Experiments.* That a repeat measures one station is a statement about rows, and
  its reason is spread over five kinds of state (`EchoInv`): no log or row is of a run
  that has not started (`LogInv`); a client is late once its repeat is over
  (`ClientInv`); at most one server is alive, and only clients of its station can
  finish in time (`ServerInv`); hence only that station has a log of this repeat
  (`RemoteInv`), and only it gets a row (`RowInv`). Stations' slots differ because
  their numbers, and those of the clients that have a number and have not written
  yet, are all different and lie in a window no longer than the connections since
  the configuration, in which residues differ; a device has the slot of its number
  or none, and a client that was overtaken by a configuration has left the window
  (`SlotInv`). The script waits for at most one client, of the station that joins
  and of the server that runs (`JoiningInv`), which is why in an undisturbed repeat
  only that client has slots still to write (`PlanInv`). A log of the sweep has what
  the AP held while its client ran: a client of this run begins with the slots of
  its value, and later values only add theirs to a client that goes on, whose log
  is then read under another name unless its value comes a second time
  (`SweepInv`). `WroteInv` says where a log of this run went if it is no longer
  there.
- *Rows and the analyzer.* That the analyzer finds every row depends on names: a log
  that is called after a station belongs to one (`NamesInv`), and a row's log is the
  copy under its own name, which no later copy replaces, because copies of the
  present repeat are of the stations not yet passed (`CopiesInv`). The number of
  logs that it groups is then at least the number of rows, by an injection.
- *Analyzer.* Its sums are folds over finite sets. Statements about them are proved
  without an induction schema: if one failed for some number of elements, it would fail
  for a least number, and taking one element away contradicts that. The
  bounds on Jain's index are the inequality of Cauchy and Schwarz in that form,
  including when it is an equality. `AnalysisConsistent` is these facts applied to
  the logs that a directory groups by station.

Only model-checked: the liveness properties `ConfigurationEnds`, `EveryProcessEnds`,
`CommandsLeave`, `StopEnds`, `ClientEnds` and `ScriptEnds` (the prover does not reach
liveness under fairness), and what the finding runs show.

## 6. Not modelled

The Openwifi driver and the FPGA are not in the repository: `MiscDevice` has the
two calls that the driver makes, nothing of what it does with the slots. Payloads,
printed text, DSCP marking, LaTeX, CSV and tables have no control. The board scripts
exit at once. Wall clocks are left out of `EchoMeasurement`, so that steps of the clock
are a hazard without a property.

Of the scripts: background traffic only loads the channel, which is in the
losses; dry runs change nothing; the miss rate that the sweep scrapes from the
client's output and the summaries are text. A copy that fails leaves the old local
file as it was (`CopyFails`), although an scp that breaks off may leave a shorter
one; and every log has the same number of rows (`Count`), although a client that
was interrupted by hand writes fewer. Of the analyzer: means and deviations
are floating point, and its LaTeX, CSV and CDF outputs are layout. Of the
calculator: rounding.

Pure pursuit is left out because every decision of its loop compares
floating-point distances and angles along a spline; without them a timer that
publishes a number is left. The faults of its bookkeeping (a path appended to while
its length is overwritten, a timer before the first path) are listed as hazards
without a property.

## 7. Plan

Done, in this order: slot vocabulary, allocation, device, bridge with its abstract
queue, echo measurement, the testbed with both experiment scripts, the analyzer and
the overhead calculator; for each its runs and its proofs.

Left, by importance:

1. A composition of `TdmaAllocation` with `MiscDevice` in place of the one-cell
   device: a userapp that finds the device busy is then an outcome of the
   interleaving and not a free choice, and `MiscDevice` refines the cell.
2. `Testbed`'s TDMA clients (`Connected`, `WriteSlots`) as a view of `SlotService`,
   which `TdmaAllocation` implements.
3. The bookkeeping of the pure pursuit controller over a path of a few points.
