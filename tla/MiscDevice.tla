----------------------------- MODULE MiscDevice -----------------------------
(***************************************************************************)
(* /dev/my_misc of one board: misc.c, the processes that open it (userapp, *)
(* and send_in_slot of tdma_api.py), and the WiFi driver, which reads the  *)
(* slot allocation and writes the time slack through the two exported      *)
(* functions without any lock.                                             *)
(*                                                                         *)
(* STRU_CHANGE is packed, so that its fields are stored and loaded in      *)
(* several pieces.  A record is therefore a function over Cells (the bytes *)
(* that matter), and every copy of a record in the kernel takes one step   *)
(* per cell, in any order.  Process and driver steps interleave freely.    *)
(*                                                                         *)
(* The misc core (external) calls misc_open under one mutex, and releases  *)
(* the file of a process that dies; a process dies only outside the        *)
(* kernel.                                                                 *)
(***************************************************************************)
EXTENDS Naturals, Sequences, FiniteSets

CONSTANTS
    Cells,          \* pieces of an STRU_CHANGE
    Data,           \* what a cell may hold
    Zero,           \* the content of a static variable at module load
    Writers,        \* executions of "userapp <device> 1 <node_id> <bitmap>"
    Readers,        \* executions of "userapp <device> 2"
    Senders,        \* calls of TDMAClient.send_in_slot
    SlotRecord,     \* SlotRecord[w]: the record that writer w was given
    Packet,         \* Packet[s]: the first record's worth of each write(2)
                    \*   that is long enough, in the order of the calls
    Remainder,      \* Remainder[s]: bytes left over for the last write(2)
    SlackRecords,   \* records the WiFi driver may report
    MaxSlack        \* bound: reports of the WiFi driver

Users == Writers \cup Readers \cup Senders
Records == [Cells -> Data]
ZeroRecord == [c \in Cells |-> Zero]

ASSUME DeviceAssumption ==
    /\ Zero \in Data
    /\ Writers \cap Readers = {} /\ Writers \cap Senders = {}
    /\ Readers \cap Senders = {}
    /\ SlotRecord \in [Writers -> Records]
    /\ Packet \in [Senders -> Seq(Records) \ {<<>>}]
    /\ Remainder \in [Senders -> 0 .. 4]
    /\ SlackRecords \subseteq Records
    /\ MaxSlack \in Nat

VARIABLES
    open_state,       \* misc.c: 1 while the device is open
    strChangeData1,   \* misc.c: the slot allocation
    timeSlack,        \* misc.c: the driver's report
    pc,               \* pc[u]: where process u is
    cells,            \* cells[u]: cells copied by u's present call
    calls,            \* calls[s]: completed write(2) calls of sender s
    databuf,          \* databuf[r]: what reader r has copied
    driver,           \* the WiFi driver's read: [pc, cells, data]
    slack,            \* the WiFi driver's report: [pc, cells, data, n]
    committed,        \* history: the allocation last stored completely
    lastReport,       \* history: the report last stored completely
    inForce,          \* history: allocations in force during the driver's read
    reported          \* history: reported[r]: reports in force during r's read

kernel == <<open_state, strChangeData1, timeSlack>>
wifi == <<driver, slack>>
history == <<committed, lastReport, inForce, reported>>
vars == <<kernel, pc, cells, calls, databuf, wifi, history>>

NotReading == [pc |-> "idle", cells |-> {}, data |-> ZeroRecord]

Init ==
    /\ open_state = 0
    /\ strChangeData1 = ZeroRecord
    /\ timeSlack = ZeroRecord
    /\ pc = [u \in Users |-> "start"]
    /\ cells = [u \in Users |-> {}]
    /\ calls = [s \in Senders |-> 0]
    /\ databuf = [r \in Readers |-> ZeroRecord]
    /\ driver = NotReading
    /\ slack = [pc |-> "idle", cells |-> {}, data |-> ZeroRecord, n |-> 0]
    /\ committed = ZeroRecord
    /\ lastReport = ZeroRecord
    /\ inForce = {}
    /\ reported = [r \in Readers |-> {}]

-----------------------------------------------------------------------------
(* Who has the file open; who is inside misc_write.                        *)
Holders == {u \in Users : pc[u] \in {"open", "storing", "loading", "closing", "failing"}}
Storing == {u \in Users : pc[u] = "storing"}

(* The record of u's present or next misc_write.                           *)
Given(u) == IF u \in Writers THEN SlotRecord[u] ELSE Packet[u][calls[u] + 1]

(* What a reader that starts now may see.                                  *)
Allocations == {committed} \cup {Given(u) : u \in Storing}
Reports == {lastReport} \cup (IF slack.pc = "storing" THEN {slack.data} ELSE {})

Goto(u, label) == pc' = [pc EXCEPT ![u] = label]

(* Mutation: the flag is set, but no longer looked at.                     *)
MiscOpenUnchecked(u) ==
    /\ pc[u] = "start"
    /\ open_state' = 1
    /\ Goto(u, "open")
    /\ UNCHANGED <<strChangeData1, timeSlack, cells, calls, databuf, wifi, history>>

(* Mutation: the openers are counted instead.                              *)
MiscOpenCounted(u) ==
    /\ pc[u] = "start"
    /\ open_state' = open_state + 1
    /\ Goto(u, "open")
    /\ UNCHANGED <<strChangeData1, timeSlack, cells, calls, databuf, wifi, history>>

(* open(2) of a device that is not open.                                   *)
MiscOpen(u) ==
    /\ pc[u] = "start"
    /\ open_state = 0
    /\ open_state' = 1
    /\ Goto(u, "open")
    /\ UNCHANGED <<strChangeData1, timeSlack, cells, calls, databuf, wifi, history>>

(* Mutation: the error path of open undoes what this open did not do.      *)
MiscOpenBusyClears(u) ==
    /\ pc[u] = "start"
    /\ open_state = 1
    /\ open_state' = 0
    /\ Goto(u, "failed")
    /\ UNCHANGED <<strChangeData1, timeSlack, cells, calls, databuf, wifi, history>>

(* open(2) of a device that is open fails; nobody waits or tries again.    *)
MiscOpenBusy(u) ==
    /\ pc[u] = "start"
    /\ open_state = 1
    /\ Goto(u, "failed")
    /\ UNCHANGED <<kernel, cells, calls, databuf, wifi, history>>

(* misc_write of at least a record, up to the two assignments.  A sender's *)
(* BufferedWriter calls again until all its bytes are taken.               *)
EnterWrite(u) ==
    /\ pc[u] = "open"
    /\ u \in Writers \/ (u \in Senders /\ calls[u] < Len(Packet[u]))
    /\ Goto(u, "storing")
    /\ cells' = [cells EXCEPT ![u] = {}]
    /\ inForce' = inForce \cup (IF driver.pc = "loading" THEN {Given(u)} ELSE {})
    /\ UNCHANGED <<kernel, calls, databuf, wifi, committed, lastReport, reported>>

(* Mutation: the record is cleared before it is filled.                    *)
StoreCellCleared(u) ==
    /\ pc[u] = "storing"
    /\ \E c \in Cells \ cells[u] :
          /\ strChangeData1' =
                [d \in Cells |-> IF d = c \/ d \in cells[u] THEN Given(u)[d] ELSE Zero]
          /\ cells' = [cells EXCEPT ![u] = @ \cup {c}]
    /\ UNCHANGED <<open_state, timeSlack, pc, calls, databuf, wifi, history>>

(* The assignments to strChangeData1, a cell at a time.                    *)
StoreCell(u) ==
    /\ pc[u] = "storing"
    /\ \E c \in Cells \ cells[u] :
          /\ strChangeData1' = [strChangeData1 EXCEPT ![c] = Given(u)[c]]
          /\ cells' = [cells EXCEPT ![u] = @ \cup {c}]
    /\ UNCHANGED <<open_state, timeSlack, pc, calls, databuf, wifi, history>>

(* misc_write returns the size of one record, however much it was given:   *)
(* a sender goes on with the rest of its packet.                           *)
LeaveWrite(u) ==
    /\ pc[u] = "storing"
    /\ cells[u] = Cells
    /\ committed' = Given(u)
    /\ cells' = [cells EXCEPT ![u] = {}]
    /\ IF u \in Senders
       THEN /\ calls' = [calls EXCEPT ![u] = @ + 1]
            /\ Goto(u, IF calls'[u] < Len(Packet[u]) \/ Remainder[u] > 0
                       THEN "open" ELSE "closing")
       ELSE /\ Goto(u, "closing")
            /\ UNCHANGED calls
    /\ UNCHANGED <<kernel, databuf, wifi, lastReport, inForce, reported>>

(* Mutation: 0 is returned instead, and the BufferedWriter calls again.    *)
RefuseShortWriteSilently(s) ==
    /\ s \in Senders
    /\ pc[s] = "open"
    /\ calls[s] = Len(Packet[s])
    /\ UNCHANGED vars

(* misc_write of less than a record: -EINVAL, which send_in_slot turns     *)
(* into False once the file is closed.                                     *)
RefuseShortWrite(s) ==
    /\ s \in Senders
    /\ pc[s] = "open"
    /\ calls[s] = Len(Packet[s])
    /\ Goto(s, "failing")
    /\ UNCHANGED <<kernel, cells, calls, databuf, wifi, history>>

(* misc_read: memcpy of timeSlack, a cell at a time.                       *)
EnterRead(r) ==
    /\ r \in Readers
    /\ pc[r] = "open"
    /\ Goto(r, "loading")
    /\ cells' = [cells EXCEPT ![r] = {}]
    /\ reported' = [reported EXCEPT ![r] = Reports]
    /\ UNCHANGED <<kernel, calls, databuf, wifi, committed, lastReport, inForce>>

(* Mutation: it copies the record that misc_write stores.                  *)
LoadCellOfAllocation(r) ==
    /\ pc[r] = "loading"
    /\ \E c \in Cells \ cells[r] :
          /\ databuf' = [databuf EXCEPT ![r][c] = strChangeData1[c]]
          /\ cells' = [cells EXCEPT ![r] = @ \cup {c}]
    /\ UNCHANGED <<kernel, pc, calls, wifi, history>>

LoadCell(r) ==
    /\ pc[r] = "loading"
    /\ \E c \in Cells \ cells[r] :
          /\ databuf' = [databuf EXCEPT ![r][c] = timeSlack[c]]
          /\ cells' = [cells EXCEPT ![r] = @ \cup {c}]
    /\ UNCHANGED <<kernel, pc, calls, wifi, history>>

(* userapp 2 prints the record and exits with -1 even so.                  *)
LeaveRead(r) ==
    /\ pc[r] = "loading"
    /\ cells[r] = Cells
    /\ Goto(r, "failing")
    /\ cells' = [cells EXCEPT ![r] = {}]
    /\ reported' = [reported EXCEPT ![r] = {}]
    /\ UNCHANGED <<kernel, calls, databuf, wifi, committed, lastReport, inForce>>

(* close(2) calls misc_release; the process ends with its result.          *)
MiscRelease(u) ==
    /\ pc[u] \in {"closing", "failing"}
    /\ open_state' = 0
    /\ Goto(u, IF pc[u] = "closing" THEN "ok" ELSE "failed")
    /\ UNCHANGED <<strChangeData1, timeSlack, cells, calls, databuf, wifi, history>>

(* The process is killed; its file is released with it.                    *)
Kill(u) ==
    /\ pc[u] \in {"start", "open", "closing", "failing"}
    /\ open_state' = IF u \in Holders THEN 0 ELSE open_state
    /\ Goto(u, "failed")
    /\ UNCHANGED <<strChangeData1, timeSlack, cells, calls, databuf, wifi, history>>

-----------------------------------------------------------------------------
(* restrive_from_misc: the WiFi driver copies the allocation.              *)
DriverEnter ==
    /\ driver.pc = "idle"
    /\ driver' = [driver EXCEPT !.pc = "loading", !.cells = {}]
    /\ inForce' = Allocations
    /\ UNCHANGED <<kernel, pc, cells, calls, databuf, slack, committed,
                   lastReport, reported>>

DriverLoad ==
    /\ driver.pc = "loading"
    /\ \E c \in Cells \ driver.cells :
          driver' = [driver EXCEPT !.data[c] = strChangeData1[c],
                                   !.cells = @ \cup {c}]
    /\ UNCHANGED <<kernel, pc, cells, calls, databuf, slack, history>>

DriverLeave ==
    /\ driver.pc = "loading"
    /\ driver.cells = Cells
    /\ driver' = NotReading
    /\ inForce' = {}
    /\ UNCHANGED <<kernel, pc, cells, calls, databuf, slack, committed,
                   lastReport, reported>>

(* restrive_from_wifi_driver: it stores its report.                        *)
SlackEnter ==
    /\ slack.pc = "idle"
    /\ slack.n < MaxSlack
    /\ \E rec \in SlackRecords :
          /\ slack' = [pc |-> "storing", cells |-> {}, data |-> rec, n |-> slack.n + 1]
          /\ reported' = [r \in Readers |->
                             IF pc[r] = "loading" THEN reported[r] \cup {rec}
                             ELSE reported[r]]
    /\ UNCHANGED <<kernel, pc, cells, calls, databuf, driver, committed,
                   lastReport, inForce>>

SlackStore ==
    /\ slack.pc = "storing"
    /\ \E c \in Cells \ slack.cells :
          /\ timeSlack' = [timeSlack EXCEPT ![c] = slack.data[c]]
          /\ slack' = [slack EXCEPT !.cells = @ \cup {c}]
    /\ UNCHANGED <<open_state, strChangeData1, pc, cells, calls, databuf, driver,
                   history>>

SlackLeave ==
    /\ slack.pc = "storing"
    /\ slack.cells = Cells
    /\ slack' = [slack EXCEPT !.pc = "idle", !.cells = {}]
    /\ lastReport' = slack.data
    /\ UNCHANGED <<kernel, pc, cells, calls, databuf, driver, committed, inForce,
                   reported>>

-----------------------------------------------------------------------------
Proceed(u) == \/ MiscOpen(u) \/ MiscOpenBusy(u)
              \/ EnterWrite(u) \/ StoreCell(u) \/ LeaveWrite(u)
              \/ RefuseShortWrite(u)
              \/ EnterRead(u) \/ LoadCell(u) \/ LeaveRead(u)
              \/ MiscRelease(u)

Wifi == DriverEnter \/ DriverLoad \/ DriverLeave
          \/ SlackEnter \/ SlackStore \/ SlackLeave

Next == Wifi \/ \E u \in Users : Proceed(u) \/ Kill(u)

Spec == Init /\ [][Next]_vars

(* A process that was started is scheduled until it ends.                  *)
FairSpec == Spec /\ \A u \in Users : WF_vars(Proceed(u))

-----------------------------------------------------------------------------
TypeOK ==
    /\ open_state \in 0 .. 1
    /\ strChangeData1 \in Records
    /\ timeSlack \in Records
    /\ pc \in [Users -> {"start", "open", "storing", "loading", "closing",
                         "failing", "ok", "failed"}]
    /\ cells \in [Users -> SUBSET Cells]
    /\ calls \in [Senders -> Nat]
    /\ databuf \in [Readers -> Records]
    /\ driver \in [pc : {"idle", "loading"}, cells : SUBSET Cells, data : Records]
    /\ slack \in [pc : {"idle", "storing"}, cells : SUBSET Cells, data : Records,
                  n : 0 .. MaxSlack]
    /\ committed \in Records
    /\ lastReport \in Records
    /\ inForce \subseteq Records
    /\ reported \in [Readers -> SUBSET Records]

(* The flag tells the truth: it is 1 exactly while one process has the     *)
(* device open, through failing writes, kills and refused opens alike, and *)
(* no two processes ever have it open together.                            *)
SingleHolder ==
    /\ open_state = 1 <=> Holders # {}
    /\ \A u, v \in Holders : u = v

(* While nobody is storing, the allocation is the record of one completed  *)
(* misc_write: two processes never leave a mix of their records behind.    *)
AllocationIsWhole == Storing = {} => strChangeData1 = committed

(* What the WiFi driver copies without a lock is, cell by cell, from a     *)
(* record that was in force during the copy: the last complete one, or one *)
(* that was being stored meanwhile.  A copy that no write overlaps is that *)
(* record.                                                                 *)
DriverReadIsRegular ==
    \A c \in driver.cells : \E rec \in inForce : driver.data[c] = rec[c]

(* The same for the report that userapp 2 reads.                           *)
SlackReadIsRegular ==
    \A r \in Readers : \A c \in cells[r] :
        \E rec \in reported[r] : databuf[r][c] = rec[c]

(* Every process that is started comes to an end, and with the last one    *)
(* the device is free: a refused open does not wait, a write cannot fail   *)
(* half-way, a loop over a long packet ends.                               *)
EveryProcessEnds == \A u \in Users : <>(pc[u] \in {"ok", "failed"})

(* tdma_bridge/README.md: the device "is reserved for slot allocation by   *)
(* TDMA_server.py, TDMA_client.py, and userapp".  What the driver takes    *)
(* for the allocation is a record that a userapp was told to write.        *)
ReservedForAllocation ==
    committed \in {ZeroRecord} \cup {SlotRecord[w] : w \in Writers}

-----------------------------------------------------------------------------
(* The inductive invariant behind the safety properties.                   *)

(* A sender never has more calls behind it than its packet has records,    *)
(* and only senders and writers store, only readers load.                  *)
CallsInv ==
    /\ Storing \subseteq Writers \cup Senders
    /\ \A r \in Users : pc[r] = "loading" => r \in Readers
    /\ \A s \in Senders : pc[s] = "storing" => calls[s] < Len(Packet[s])

(* During a misc_write the allocation is made of the new record in the     *)
(* cells that are done and of the last complete one in the others.         *)
AllocationInv ==
    /\ Storing = {} => strChangeData1 = committed
    /\ \A u \in Storing : \A c \in Cells :
          strChangeData1[c] = IF c \in cells[u] THEN Given(u)[c] ELSE committed[c]

ReportInv ==
    \A c \in Cells :
        timeSlack[c] = IF slack.pc = "storing" /\ c \in slack.cells
                       THEN slack.data[c] ELSE lastReport[c]

(* Whatever is in force while a reader is at work belongs to its history.  *)
WindowInv ==
    /\ driver.pc = "loading" => Allocations \subseteq inForce
    /\ driver.pc = "idle" => driver.cells = {}
    /\ \A r \in Readers : IF pc[r] = "loading" THEN Reports \subseteq reported[r]
                           ELSE cells[r] = {}

IInv == /\ TypeOK /\ SingleHolder /\ CallsInv /\ AllocationInv /\ ReportInv
        /\ WindowInv /\ DriverReadIsRegular /\ SlackReadIsRegular
=============================================================================
