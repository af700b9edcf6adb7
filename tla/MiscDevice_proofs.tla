-------------------------- MODULE MiscDevice_proofs -------------------------
(***************************************************************************)
(* The safety properties of /dev/my_misc, for every record layout, every   *)
(* set of processes, packets and remainders, and every number of reports.  *)
(* IInv is inductive; the properties are among its conjuncts.              *)
(***************************************************************************)
EXTENDS MiscDevice, TLAPS

(* The record of a misc_write that is under way is a record.               *)
LEMMA GivenTyped ==
    ASSUME TypeOK, NEW u \in Writers \cup Senders,
           u \in Senders => calls[u] < Len(Packet[u])
    PROVE  Given(u) \in Records
<1>1. CASE u \in Writers
  BY <1>1, DeviceAssumption DEF Given
<1>2. CASE u \in Senders
  <2>1. Packet[u] \in Seq(Records) /\ calls[u] \in Nat
    BY <1>2, DeviceAssumption DEF TypeOK
  <2>2. calls[u] + 1 \in 1 .. Len(Packet[u])
    BY <1>2, <2>1
  <2>3. u \notin Writers
    BY <1>2, DeviceAssumption
  <2> QED
    BY <2>1, <2>2, <2>3 DEF Given
<1> QED
  BY <1>1, <1>2

(* Whoever stores is a writer or a sender with a record left.              *)
LEMMA StoringTyped ==
    ASSUME IInv, NEW u \in Users, pc[u] = "storing"
    PROVE  /\ u \in Writers \cup Senders
           /\ u \in Senders => calls[u] < Len(Packet[u])
           /\ Given(u) \in Records
<1>1. u \in Writers \cup Senders /\ (u \in Senders => calls[u] < Len(Packet[u]))
  BY DEF IInv, CallsInv, Storing
<1> QED
  BY <1>1, GivenTyped DEF IInv

(* The one process that has the device open is the only one that can be    *)
(* storing or loading.                                                     *)
LEMMA OnlyHolder ==
    ASSUME IInv, NEW u \in Users, u \in Holders, NEW v \in Users,
           pc[v] \in {"open", "storing", "loading", "closing", "failing"}
    PROVE  v = u
  BY DEF IInv, SingleHolder, Holders

(* A process that is about to open, close or leave does not store, and     *)
(* then nobody does.                                                       *)
LEMMA NobodyStores ==
    ASSUME IInv, NEW u \in Users, pc[u] \in {"open", "loading", "closing", "failing"}
    PROVE  Storing = {}
  BY OnlyHolder DEF Storing, Holders

LEMMA TypeStep == IInv /\ [Next]_vars => TypeOK'
<1> SUFFICES ASSUME IInv, [Next]_vars PROVE TypeOK'
  OBVIOUS
<1> USE DEF TypeOK, kernel, wifi, history, Goto
<1>0. TypeOK /\ Zero \in Data /\ ZeroRecord \in Records
  BY DeviceAssumption DEF IInv, ZeroRecord, Records
<1>1. ASSUME NEW u \in Users, MiscOpen(u) PROVE TypeOK'
  BY <1>0, <1>1 DEF MiscOpen
<1>2. ASSUME NEW u \in Users, MiscOpenBusy(u) PROVE TypeOK'
  BY <1>0, <1>2 DEF MiscOpenBusy
<1>3. ASSUME NEW u \in Users, EnterWrite(u) PROVE TypeOK'
  <2>1. Given(u) \in Records
    BY <1>0, <1>3, GivenTyped, DeviceAssumption DEF EnterWrite
  <2>2. inForce' \subseteq Records
    BY <1>0, <1>3, <2>1 DEF EnterWrite
  <2> QED
    BY <1>0, <1>3, <2>2 DEF EnterWrite
<1>4. ASSUME NEW u \in Users, StoreCell(u) PROVE TypeOK'
  <2>1. Given(u) \in Records
    BY <1>4, StoringTyped DEF StoreCell
  <2>0. PICK c \in Cells :
            strChangeData1' = [strChangeData1 EXCEPT ![c] = Given(u)[c]]
    BY <1>4 DEF StoreCell
  <2>2. strChangeData1' \in Records
    BY <1>0, <2>0, <2>1 DEF Records
  <2>3. cells' \in [Users -> SUBSET Cells]
    BY <1>0, <1>4 DEF StoreCell
  <2> QED
    BY <1>0, <1>4, <2>2, <2>3 DEF StoreCell
<1>5. ASSUME NEW u \in Users, LeaveWrite(u) PROVE TypeOK'
  <2>1. Given(u) \in Records
    BY <1>5, StoringTyped DEF LeaveWrite
  <2>2. calls' \in [Senders -> Nat]
    BY <1>0, <1>5 DEF LeaveWrite
  <2>3. pc' \in [Users -> {"start", "open", "storing", "loading", "closing",
                           "failing", "ok", "failed"}]
    BY <1>0, <1>5 DEF LeaveWrite
  <2> QED
    BY <1>0, <1>5, <2>1, <2>2, <2>3 DEF LeaveWrite
<1>6. ASSUME NEW u \in Users, RefuseShortWrite(u) PROVE TypeOK'
  BY <1>0, <1>6 DEF RefuseShortWrite
<1>7. ASSUME NEW u \in Users, EnterRead(u) PROVE TypeOK'
  <2>1. Reports \subseteq Records
    BY <1>0 DEF Reports
  <2> QED
    BY <1>0, <1>7, <2>1 DEF EnterRead
<1>8. ASSUME NEW u \in Users, LoadCell(u) PROVE TypeOK'
  <2>1. u \in Readers
    BY <1>8 DEF LoadCell, IInv, CallsInv
  <2>2. PICK c \in Cells : databuf' = [databuf EXCEPT ![u][c] = timeSlack[c]]
    BY <1>8 DEF LoadCell
  <2>3. databuf' \in [Readers -> Records]
    BY <1>0, <2>1, <2>2 DEF Records
  <2>4. cells' \in [Users -> SUBSET Cells]
    BY <1>0, <1>8 DEF LoadCell
  <2> QED
    BY <1>0, <1>8, <2>3, <2>4 DEF LoadCell
<1>9. ASSUME NEW u \in Users, LeaveRead(u) PROVE TypeOK'
  BY <1>0, <1>9 DEF LeaveRead
<1>10. ASSUME NEW u \in Users, MiscRelease(u) PROVE TypeOK'
  BY <1>0, <1>10 DEF MiscRelease
<1>11. ASSUME NEW u \in Users, Kill(u) PROVE TypeOK'
  BY <1>0, <1>11 DEF Kill
<1>12. CASE DriverEnter
  <2>1. Allocations \subseteq Records
    BY <1>0, StoringTyped DEF Allocations, Storing
  <2> QED
    BY <1>0, <1>12, <2>1 DEF DriverEnter
<1>13. CASE DriverLoad
  <2>1. PICK c \in Cells \ driver.cells :
            driver' = [driver EXCEPT !.data[c] = strChangeData1[c],
                                     !.cells = @ \cup {c}]
    BY <1>13 DEF DriverLoad
  <2>2. [driver.data EXCEPT ![c] = strChangeData1[c]] \in Records
    BY <1>0 DEF Records
  <2>3. driver' \in [pc : {"idle", "loading"}, cells : SUBSET Cells, data : Records]
    BY <1>0, <2>1, <2>2
  <2> QED
    BY <1>0, <1>13, <2>3 DEF DriverLoad
<1>14. CASE DriverLeave
  BY <1>0, <1>14 DEF DriverLeave, NotReading
<1>15. CASE SlackEnter
  <2>1. PICK rec \in SlackRecords :
          /\ slack' = [pc |-> "storing", cells |-> {}, data |-> rec, n |-> slack.n + 1]
          /\ reported' = [r \in Readers |->
                             IF pc[r] = "loading" THEN reported[r] \cup {rec}
                             ELSE reported[r]]
    BY <1>15 DEF SlackEnter
  <2>2. rec \in Records /\ slack.n + 1 \in 0 .. MaxSlack
    BY <1>0, <1>15, DeviceAssumption DEF SlackEnter
  <2>3. slack' \in [pc : {"idle", "storing"}, cells : SUBSET Cells, data : Records,
                    n : 0 .. MaxSlack]
    BY <2>1, <2>2
  <2>4. reported' \in [Readers -> SUBSET Records]
    BY <1>0, <2>1, <2>2
  <2> QED
    BY <1>0, <1>15, <2>3, <2>4 DEF SlackEnter
<1>16. CASE SlackStore
  <2>1. PICK c \in Cells \ slack.cells :
          /\ timeSlack' = [timeSlack EXCEPT ![c] = slack.data[c]]
          /\ slack' = [slack EXCEPT !.cells = @ \cup {c}]
    BY <1>16 DEF SlackStore
  <2>2. timeSlack' \in Records
    BY <1>0, <2>1 DEF Records
  <2>3. slack' \in [pc : {"idle", "storing"}, cells : SUBSET Cells, data : Records,
                    n : 0 .. MaxSlack]
    BY <1>0, <2>1
  <2> QED
    BY <1>0, <1>16, <2>2, <2>3 DEF SlackStore
<1>17. CASE SlackLeave
  BY <1>0, <1>17 DEF SlackLeave
<1>18. CASE UNCHANGED vars
  BY <1>0, <1>18 DEF vars
<1> QED
  BY <1>1, <1>2, <1>3, <1>4, <1>5, <1>6, <1>7, <1>8, <1>9, <1>10, <1>11, <1>12,
     <1>13, <1>14, <1>15, <1>16, <1>17, <1>18 DEF Next, Proceed, Wifi

-----------------------------------------------------------------------------
(* The flag and the holder change together.                                *)
LEMMA HolderStep == IInv /\ [Next]_vars => SingleHolder'
<1> SUFFICES ASSUME IInv, [Next]_vars PROVE SingleHolder'
  OBVIOUS
<1> USE DEF SingleHolder, Holders, kernel, Goto
<1>0. SingleHolder /\ open_state \in 0 .. 1 /\ pc = [u \in Users |-> pc[u]]
  BY DEF IInv, TypeOK
<1>1. ASSUME NEW u \in Users, MiscOpen(u) PROVE SingleHolder'
  BY <1>0, <1>1 DEF MiscOpen
<1>2. ASSUME NEW u \in Users, MiscOpenBusy(u) PROVE SingleHolder'
  BY <1>0, <1>2 DEF MiscOpenBusy
<1>3. ASSUME NEW u \in Users,
             EnterWrite(u) \/ StoreCell(u) \/ LeaveWrite(u) \/ RefuseShortWrite(u)
               \/ EnterRead(u) \/ LoadCell(u) \/ LeaveRead(u)
      PROVE  SingleHolder'
  <2>1. open_state' = open_state /\ Holders' = Holders
    BY <1>0, <1>3 DEF EnterWrite, StoreCell, LeaveWrite, RefuseShortWrite,
                      EnterRead, LoadCell, LeaveRead
  <2> QED
    BY <1>0, <2>1
<1>4. ASSUME NEW u \in Users, MiscRelease(u) PROVE SingleHolder'
  <2>1. open_state' = 0 /\ Holders' = {}
    BY <1>0, <1>4 DEF MiscRelease
  <2> QED
    BY <2>1
<1>5. ASSUME NEW u \in Users, Kill(u) PROVE SingleHolder'
  <2>1. CASE u \in Holders
    <3>1. open_state' = 0 /\ Holders' = {}
      BY <1>0, <1>5, <2>1 DEF Kill
    <3> QED
      BY <3>1
  <2>2. CASE u \notin Holders
    <3>1. open_state' = open_state /\ Holders' = Holders
      BY <1>0, <1>5, <2>2 DEF Kill
    <3> QED
      BY <1>0, <3>1
  <2> QED
    BY <2>1, <2>2
<1>6. CASE Wifi \/ UNCHANGED vars
  BY <1>0, <1>6 DEF Wifi, DriverEnter, DriverLoad, DriverLeave, SlackEnter,
                    SlackStore, SlackLeave, vars
<1> QED
  BY <1>1, <1>2, <1>3, <1>4, <1>5, <1>6 DEF Next, Proceed

LEMMA CallsStep == IInv /\ [Next]_vars => CallsInv'
<1> SUFFICES ASSUME IInv, [Next]_vars PROVE CallsInv'
  OBVIOUS
<1> USE DEF CallsInv, Storing, Goto
<1>0. CallsInv /\ TypeOK
  BY DEF IInv
<1>1. ASSUME NEW u \in Users, EnterWrite(u) PROVE CallsInv'
  BY <1>0, <1>1, DeviceAssumption DEF EnterWrite, TypeOK
<1>2. ASSUME NEW u \in Users, LeaveWrite(u) PROVE CallsInv'
  <2>1. \A v \in Users : pc'[v] = "storing" => v # u /\ pc[v] = "storing"
    BY <1>0, <1>2 DEF LeaveWrite, TypeOK
  <2>2. \A v \in Users : pc'[v] = "loading" => pc[v] = "loading"
    BY <1>0, <1>2 DEF LeaveWrite, TypeOK
  <2>3. \A s \in Senders : s # u => calls'[s] = calls[s]
    BY <1>0, <1>2 DEF LeaveWrite, TypeOK
  <2> QED
    BY <1>0, <2>1, <2>2, <2>3 DEF Users
<1>3. ASSUME NEW u \in Users,
             MiscOpen(u) \/ MiscOpenBusy(u) \/ StoreCell(u) \/ RefuseShortWrite(u)
               \/ EnterRead(u) \/ LoadCell(u) \/ LeaveRead(u) \/ MiscRelease(u)
               \/ Kill(u)
      PROVE  CallsInv'
  <2>1. /\ calls' = calls
        /\ \A v \in Users : pc'[v] = "storing" => pc[v] = "storing"
        /\ \A v \in Users : pc'[v] = "loading" => pc[v] = "loading" \/ v \in Readers
    BY <1>0, <1>3 DEF MiscOpen, MiscOpenBusy, StoreCell, RefuseShortWrite,
         EnterRead, LoadCell, LeaveRead, MiscRelease, Kill, TypeOK
  <2> QED
    BY <1>0, <2>1 DEF Users
<1>4. CASE Wifi \/ UNCHANGED vars
  BY <1>0, <1>4 DEF Wifi, DriverEnter, DriverLoad, DriverLeave, SlackEnter,
                    SlackStore, SlackLeave, vars
<1> QED
  BY <1>1, <1>2, <1>3, <1>4 DEF Next, Proceed

(* The new record advances over the old one a cell at a time, and no other *)
(* process interferes, because the storer is the only holder.              *)
LEMMA AllocationStep == IInv /\ [Next]_vars => AllocationInv'
<1> SUFFICES ASSUME IInv, [Next]_vars PROVE AllocationInv'
  OBVIOUS
<1> USE DEF Goto
<1>0. AllocationInv /\ TypeOK
  BY DEF IInv
<1>1. ASSUME NEW u \in Users, EnterWrite(u) PROVE AllocationInv'
  <2>1. Storing = {}
    BY <1>1, NobodyStores DEF EnterWrite
  <2>2. strChangeData1' = committed'
    BY <1>0, <1>1, <2>1 DEF EnterWrite, AllocationInv, kernel
  <2>3. Storing' = {u} /\ cells'[u] = {}
    BY <1>0, <1>1, <2>1 DEF EnterWrite, Storing, TypeOK
  <2> QED
    BY <2>2, <2>3 DEF AllocationInv
<1>2. ASSUME NEW u \in Users, StoreCell(u) PROVE AllocationInv'
  <2>1. Storing = {u} /\ Storing' = {u}
    BY <1>2, OnlyHolder DEF StoreCell, Storing, Holders
  <2>2. PICK c \in Cells : /\ strChangeData1' = [strChangeData1 EXCEPT ![c] = Given(u)[c]]
                           /\ cells' = [cells EXCEPT ![u] = @ \cup {c}]
    BY <1>2 DEF StoreCell
  <2>3. cells'[u] = cells[u] \cup {c}
    BY <1>0, <2>2 DEF TypeOK
  <2>4. Given(u)' = Given(u) /\ committed' = committed
    BY <1>2 DEF StoreCell, Given, history
  <2>5. ASSUME NEW d \in Cells
        PROVE  strChangeData1'[d] = IF d \in cells'[u] THEN Given(u)[d] ELSE committed[d]
    <3>1. strChangeData1'[d] = IF d = c THEN Given(u)[d] ELSE strChangeData1[d]
      BY <1>0, <2>2 DEF TypeOK, Records
    <3>2. strChangeData1[d] = IF d \in cells[u] THEN Given(u)[d] ELSE committed[d]
      BY <1>0, <2>1 DEF AllocationInv
    <3> QED
      BY <2>3, <3>1, <3>2
  <2> QED
    BY <2>1, <2>4, <2>5 DEF AllocationInv
<1>3. ASSUME NEW u \in Users, LeaveWrite(u) PROVE AllocationInv'
  <2>1. Storing = {u}
    BY <1>3, OnlyHolder DEF LeaveWrite, Storing, Holders
  <2>2. Storing' = {}
    BY <1>0, <1>3, <2>1 DEF LeaveWrite, Storing, TypeOK
  <2>3. \A d \in Cells : strChangeData1[d] = Given(u)[d]
    BY <1>0, <1>3, <2>1 DEF LeaveWrite, AllocationInv
  <2>4. Given(u) \in Records
    BY <1>3, StoringTyped DEF LeaveWrite
  <2>5. strChangeData1 = Given(u)
    BY <1>0, <2>3, <2>4 DEF TypeOK, Records
  <2>6. strChangeData1' = committed'
    BY <1>3, <2>5 DEF LeaveWrite, kernel
  <2> QED
    BY <2>2, <2>6 DEF AllocationInv
<1>4. ASSUME strChangeData1' = strChangeData1, committed' = committed, calls' = calls,
             Storing' = Storing,
             \A v \in Storing : cells'[v] = cells[v]
      PROVE  AllocationInv'
  BY <1>0, <1>4 DEF AllocationInv, Given
<1>5. ASSUME NEW u \in Users,
             MiscOpen(u) \/ MiscOpenBusy(u) \/ RefuseShortWrite(u)
               \/ EnterRead(u) \/ LoadCell(u) \/ LeaveRead(u) \/ MiscRelease(u)
               \/ Kill(u)
      PROVE  AllocationInv'
  <2>1. pc[u] # "storing" /\ pc'[u] # "storing"
    BY <1>0, <1>5 DEF MiscOpen, MiscOpenBusy, RefuseShortWrite, EnterRead, LoadCell,
         LeaveRead, MiscRelease, Kill, TypeOK
  <2>2. \A v \in Users : v # u => pc'[v] = pc[v] /\ cells'[v] = cells[v]
    BY <1>0, <1>5 DEF MiscOpen, MiscOpenBusy, RefuseShortWrite, EnterRead, LoadCell,
         LeaveRead, MiscRelease, Kill, TypeOK
  <2>3. strChangeData1' = strChangeData1 /\ committed' = committed /\ calls' = calls
    BY <1>5 DEF MiscOpen, MiscOpenBusy, RefuseShortWrite, EnterRead, LoadCell,
         LeaveRead, MiscRelease, Kill, kernel, history
  <2> QED
    BY <1>4, <2>1, <2>2, <2>3 DEF Storing
<1>6. CASE Wifi \/ UNCHANGED vars
  <2>1. /\ strChangeData1' = strChangeData1 /\ committed' = committed
        /\ calls' = calls /\ pc' = pc /\ cells' = cells
    BY <1>6 DEF Wifi, DriverEnter, DriverLoad, DriverLeave, SlackEnter,
         SlackStore, SlackLeave, vars, kernel, history
  <2> QED
    BY <1>4, <2>1 DEF Storing
<1> QED
  BY <1>1, <1>2, <1>3, <1>5, <1>6 DEF Next, Proceed

(* The report behaves in the same way; its only writer is the WiFi driver. *)
LEMMA ReportStep == IInv /\ [Next]_vars => ReportInv'
<1> SUFFICES ASSUME IInv, [Next]_vars PROVE ReportInv'
  OBVIOUS
<1>0. ReportInv /\ TypeOK
  BY DEF IInv
<1>1. CASE SlackEnter
  BY <1>0, <1>1 DEF SlackEnter, ReportInv, kernel
<1>2. CASE SlackStore
  <2>1. PICK c \in Cells \ slack.cells :
          /\ timeSlack' = [timeSlack EXCEPT ![c] = slack.data[c]]
          /\ slack' = [slack EXCEPT !.cells = @ \cup {c}]
    BY <1>2 DEF SlackStore
  <2>2. /\ slack'.pc = "storing" /\ slack'.data = slack.data
        /\ slack'.cells = slack.cells \cup {c} /\ lastReport' = lastReport
    BY <1>0, <1>2, <2>1 DEF SlackStore, history, TypeOK
  <2>3. ASSUME NEW d \in Cells
        PROVE  timeSlack'[d] = IF d \in slack'.cells THEN slack.data[d] ELSE lastReport[d]
    <3>1. timeSlack'[d] = IF d = c THEN slack.data[d] ELSE timeSlack[d]
      BY <1>0, <2>1 DEF TypeOK, Records
    <3>2. timeSlack[d] = IF d \in slack.cells THEN slack.data[d] ELSE lastReport[d]
      BY <1>0, <1>2 DEF ReportInv, SlackStore
    <3> QED
      BY <2>2, <3>1, <3>2
  <2> QED
    BY <2>2, <2>3 DEF ReportInv
<1>3. CASE SlackLeave
  <2>1. slack'.pc = "idle" /\ lastReport' = slack.data /\ timeSlack' = timeSlack
    BY <1>0, <1>3 DEF SlackLeave, kernel, TypeOK
  <2>2. \A d \in Cells : timeSlack[d] = slack.data[d]
    BY <1>0, <1>3 DEF SlackLeave, ReportInv
  <2> QED
    BY <2>1, <2>2 DEF ReportInv
<1>4. ASSUME timeSlack' = timeSlack, slack' = slack, lastReport' = lastReport
      PROVE  ReportInv'
  BY <1>0, <1>4 DEF ReportInv
<1>5. ASSUME NEW u \in Users, Proceed(u) \/ Kill(u) PROVE ReportInv'
  BY <1>4, <1>5 DEF Proceed, MiscOpen, MiscOpenBusy, EnterWrite, StoreCell, LeaveWrite,
       RefuseShortWrite, EnterRead, LoadCell, LeaveRead, MiscRelease, Kill,
       kernel, wifi, history
<1>6. CASE DriverEnter \/ DriverLoad \/ DriverLeave \/ UNCHANGED vars
  BY <1>4, <1>6 DEF DriverEnter, DriverLoad, DriverLeave, vars, kernel, wifi, history
<1> QED
  BY <1>1, <1>2, <1>3, <1>5, <1>6 DEF Next, Wifi

-----------------------------------------------------------------------------
(* Every cell of the allocation comes from a record that is in force, and  *)
(* every cell of the report from a report that is.                         *)
LEMMA CellSource ==
    ASSUME IInv, NEW c \in Cells
    PROVE  \E rec \in Allocations : strChangeData1[c] = rec[c]
<1>1. CASE Storing = {}
  BY <1>1 DEF IInv, AllocationInv, Allocations
<1>2. CASE Storing # {}
  <2>1. PICK u \in Storing : TRUE
    BY <1>2
  <2>2. strChangeData1[c] = IF c \in cells[u] THEN Given(u)[c] ELSE committed[c]
    BY <2>1 DEF IInv, AllocationInv
  <2> QED
    BY <2>1, <2>2 DEF Allocations
<1> QED
  BY <1>1, <1>2

LEMMA ReportSource ==
    ASSUME IInv, NEW c \in Cells
    PROVE  \E rec \in Reports : timeSlack[c] = rec[c]
  BY DEF IInv, ReportInv, Reports

(* The records in force change only when a misc_write begins or ends.      *)
LEMMA AllocationsFrame ==
    ASSUME committed' = committed, calls' = calls, Storing' = Storing
    PROVE  Allocations' = Allocations
  BY DEF Allocations, Given

LEMMA NotAStorer ==
    ASSUME IInv, NEW u \in Users,
           MiscOpen(u) \/ MiscOpenBusy(u) \/ StoreCell(u) \/ RefuseShortWrite(u)
             \/ EnterRead(u) \/ LoadCell(u) \/ LeaveRead(u) \/ MiscRelease(u) \/ Kill(u)
    PROVE  /\ Storing' = Storing /\ committed' = committed /\ calls' = calls
           /\ driver' = driver /\ inForce' = inForce
<1>1. TypeOK
  BY DEF IInv
<1>2. \A v \in Users : pc'[v] = "storing" <=> pc[v] = "storing"
  BY <1>1 DEF MiscOpen, MiscOpenBusy, StoreCell, RefuseShortWrite, EnterRead, LoadCell,
     LeaveRead, MiscRelease, Kill, Goto, TypeOK
<1> QED
  BY <1>2 DEF MiscOpen, MiscOpenBusy, StoreCell, RefuseShortWrite, EnterRead, LoadCell,
     LeaveRead, MiscRelease, Kill, wifi, history, Storing

(* What the driver may see never falls behind what is in force.            *)
LEMMA DriverWindowStep ==
    IInv /\ [Next]_vars
      => /\ driver'.pc = "loading" => Allocations' \subseteq inForce'
         /\ driver'.pc = "idle" => driver'.cells = {}
<1> DEFINE W == /\ driver.pc = "loading" => Allocations \subseteq inForce
                /\ driver.pc = "idle" => driver.cells = {}
<1> SUFFICES ASSUME IInv, [Next]_vars PROVE W'
  OBVIOUS
<1>0. W /\ TypeOK
  BY DEF IInv, WindowInv
<1>1. ASSUME Allocations' = Allocations, driver' = driver, inForce' = inForce PROVE W'
  BY <1>0, <1>1
<1> HIDE DEF W
<1>2. ASSUME NEW u \in Users, EnterWrite(u) PROVE W'
  <2>1. Storing = {} /\ Storing' = {u}
    BY <1>0, <1>2, NobodyStores DEF EnterWrite, Storing, Goto, TypeOK
  <2>2. /\ Given(u)' = Given(u) /\ committed' = committed /\ driver' = driver
        /\ inForce' = inForce \cup (IF driver.pc = "loading" THEN {Given(u)} ELSE {})
    BY <1>2 DEF EnterWrite, Given, wifi
  <2>3. Allocations' = {committed, Given(u)} /\ committed \in Allocations
    BY <2>1, <2>2 DEF Allocations
  <2> QED
    BY <1>0, <2>2, <2>3 DEF W
<1>3. ASSUME NEW u \in Users, LeaveWrite(u) PROVE W'
  <2>1. Storing = {u} /\ Storing' = {}
    BY <1>0, <1>3, OnlyHolder DEF LeaveWrite, Storing, Holders, Goto, TypeOK
  <2>2. Allocations' = {Given(u)} /\ Given(u) \in Allocations
    BY <1>3, <2>1 DEF Allocations, LeaveWrite
  <2>3. driver' = driver /\ inForce' = inForce
    BY <1>3 DEF LeaveWrite, wifi
  <2> QED
    BY <1>0, <2>2, <2>3 DEF W
<1>4. ASSUME NEW u \in Users,
             MiscOpen(u) \/ MiscOpenBusy(u) \/ StoreCell(u) \/ RefuseShortWrite(u)
               \/ EnterRead(u) \/ LoadCell(u) \/ LeaveRead(u) \/ MiscRelease(u)
               \/ Kill(u)
      PROVE  W'
  BY <1>1, <1>4, NotAStorer, AllocationsFrame
<1>5. ASSUME Wifi \/ UNCHANGED vars PROVE Allocations' = Allocations
  BY <1>5, AllocationsFrame DEF Wifi, DriverEnter, DriverLoad, DriverLeave, SlackEnter,
     SlackStore, SlackLeave, vars, history, Storing
<1>6. CASE DriverEnter
  <2>1. driver'.pc = "loading" /\ inForce' = Allocations
    BY <1>0, <1>6 DEF DriverEnter, TypeOK
  <2> QED
    BY <1>5, <1>6, <2>1 DEF W, Wifi
<1>7. CASE DriverLoad
  <2>1. driver'.pc = "loading" /\ driver.pc = "loading" /\ inForce' = inForce
    BY <1>0, <1>7 DEF DriverLoad, TypeOK, history
  <2> QED
    BY <1>0, <1>5, <1>7, <2>1 DEF W, Wifi
<1>8. CASE DriverLeave
  BY <1>8 DEF DriverLeave, NotReading, W
<1>9. CASE SlackEnter \/ SlackStore \/ SlackLeave \/ UNCHANGED vars
  <2>1. driver' = driver /\ inForce' = inForce
    BY <1>9 DEF SlackEnter, SlackStore, SlackLeave, vars, wifi, history
  <2> QED
    BY <1>1, <1>5, <1>9, <2>1 DEF Wifi
<1>10. W'
  BY <1>2, <1>3, <1>4, <1>6, <1>7, <1>8, <1>9 DEF Next, Proceed, Wifi
<1> QED
  BY <1>10

(* What a reader may see never falls behind what is reported.              *)
LEMMA ReaderWindowStep ==
    IInv /\ [Next]_vars
      => \A r \in Readers : IF pc'[r] = "loading" THEN Reports' \subseteq reported'[r]
                            ELSE cells'[r] = {}
<1> DEFINE V(r) == IF pc[r] = "loading" THEN Reports \subseteq reported[r]
                   ELSE cells[r] = {}
<1> SUFFICES ASSUME IInv, [Next]_vars, NEW r \in Readers PROVE V(r)'
  OBVIOUS
<1>0. V(r) /\ TypeOK /\ r \in Users
  BY DEF IInv, WindowInv, Users
<1>1. ASSUME Reports' = Reports, pc'[r] = pc[r], cells'[r] = cells[r],
             reported'[r] = reported[r]
      PROVE  V(r)'
  BY <1>0, <1>1
<1> HIDE DEF V
<1>2. ASSUME NEW u \in Users, Proceed(u) \/ Kill(u) PROVE Reports' = Reports
  BY <1>2 DEF Proceed, MiscOpen, MiscOpenBusy, EnterWrite, StoreCell, LeaveWrite,
     RefuseShortWrite, EnterRead, LoadCell, LeaveRead, MiscRelease, Kill, wifi,
     history, Reports
<1>3. ASSUME NEW u \in Users, u # r, Proceed(u) \/ Kill(u) PROVE V(r)'
  <2>1. pc'[r] = pc[r] /\ cells'[r] = cells[r] /\ reported'[r] = reported[r]
    BY <1>0, <1>3 DEF Proceed, MiscOpen, MiscOpenBusy, EnterWrite, StoreCell,
       LeaveWrite, RefuseShortWrite, EnterRead, LoadCell, LeaveRead, MiscRelease,
       Kill, Goto, history, TypeOK
  <2> QED
    BY <1>1, <1>2, <1>3, <2>1
<1>4. ASSUME EnterRead(r) PROVE V(r)'
  <2>1. pc'[r] = "loading" /\ reported'[r] = Reports
    BY <1>0, <1>4 DEF EnterRead, Goto, TypeOK
  <2> QED
    BY <1>0, <1>2, <1>4, <2>1 DEF V, Proceed
<1>5. ASSUME LoadCell(r) PROVE V(r)'
  <2>1. pc'[r] = "loading" /\ pc[r] = "loading" /\ reported' = reported
    BY <1>5 DEF LoadCell, history
  <2> QED
    BY <1>0, <1>2, <1>5, <2>1 DEF V, Proceed
<1>6. ASSUME LeaveRead(r) PROVE V(r)'
  <2>1. pc'[r] # "loading" /\ cells'[r] = {}
    BY <1>0, <1>6 DEF LeaveRead, Goto, TypeOK
  <2> QED
    BY <2>1 DEF V
<1>7. ASSUME MiscOpen(r) \/ MiscOpenBusy(r) \/ MiscRelease(r) \/ Kill(r) PROVE V(r)'
  <2>1. pc[r] # "loading" /\ pc'[r] # "loading" /\ cells' = cells
    BY <1>0, <1>7 DEF MiscOpen, MiscOpenBusy, MiscRelease, Kill, Goto, TypeOK
  <2> QED
    BY <1>0, <2>1 DEF V
<1>8. ~EnterWrite(r) /\ ~StoreCell(r) /\ ~LeaveWrite(r) /\ ~RefuseShortWrite(r)
  BY <1>0, DeviceAssumption, StoringTyped DEF EnterWrite, StoreCell, LeaveWrite,
     RefuseShortWrite
<1>9. CASE SlackEnter
  <2>1. PICK rec \in SlackRecords :
          /\ slack' = [pc |-> "storing", cells |-> {}, data |-> rec, n |-> slack.n + 1]
          /\ reported' = [q \in Readers |->
                             IF pc[q] = "loading" THEN reported[q] \cup {rec}
                             ELSE reported[q]]
    BY <1>9 DEF SlackEnter
  <2>2. pc' = pc /\ cells' = cells /\ lastReport' = lastReport
    BY <1>9 DEF SlackEnter
  <2>3. Reports' = {lastReport, rec} /\ lastReport \in Reports
    BY <2>1, <2>2 DEF Reports
  <2> QED
    BY <1>0, <2>1, <2>2, <2>3 DEF V
<1>10. CASE SlackStore
  <2>1. Reports' = Reports
    BY <1>0, <1>10 DEF SlackStore, Reports, TypeOK, history
  <2> QED
    BY <1>1, <1>10, <2>1 DEF SlackStore, history
<1>11. CASE SlackLeave
  <2>1. Reports' \subseteq Reports
    BY <1>0, <1>11 DEF SlackLeave, Reports, TypeOK
  <2> QED
    BY <1>0, <1>11, <2>1 DEF SlackLeave, V
<1>12. CASE DriverEnter \/ DriverLoad \/ DriverLeave \/ UNCHANGED vars
  <2>1. Reports' = Reports /\ pc' = pc /\ cells' = cells /\ reported' = reported
    BY <1>12 DEF DriverEnter, DriverLoad, DriverLeave, vars, wifi, history, Reports
  <2> QED
    BY <1>1, <2>1
<1>13. V(r)'
  BY <1>3, <1>4, <1>5, <1>6, <1>7, <1>8, <1>9, <1>10, <1>11, <1>12
  DEF Next, Proceed, Wifi
<1> QED
  BY <1>13 DEF V

LEMMA WindowStep == IInv /\ [Next]_vars => WindowInv'
  BY DriverWindowStep, ReaderWindowStep DEF WindowInv

-----------------------------------------------------------------------------
(* A cell is loaded from a record in force, and records only leave the     *)
(* driver's window when its copy is over.                                  *)
LEMMA DriverReadStep == IInv /\ [Next]_vars => DriverReadIsRegular'
<1> SUFFICES ASSUME IInv, [Next]_vars PROVE DriverReadIsRegular'
  OBVIOUS
<1>0. DriverReadIsRegular /\ TypeOK
  BY DEF IInv
<1>1. ASSUME driver' = driver, inForce \subseteq inForce' PROVE DriverReadIsRegular'
  BY <1>0, <1>1 DEF DriverReadIsRegular
<1>2. ASSUME NEW u \in Users, Proceed(u) \/ Kill(u) PROVE DriverReadIsRegular'
  <2>1. driver' = driver /\ inForce \subseteq inForce'
    BY <1>2 DEF Proceed, MiscOpen, MiscOpenBusy, EnterWrite, StoreCell, LeaveWrite,
       RefuseShortWrite, EnterRead, LoadCell, LeaveRead, MiscRelease, Kill, wifi,
       history
  <2> QED
    BY <1>1, <2>1
<1>3. CASE DriverEnter
  <2>1. driver'.cells = {}
    BY <1>0, <1>3 DEF DriverEnter, TypeOK
  <2> QED
    BY <2>1 DEF DriverReadIsRegular
<1>4. CASE DriverLoad
  <2>1. PICK c \in Cells \ driver.cells :
            driver' = [driver EXCEPT !.data[c] = strChangeData1[c],
                                     !.cells = @ \cup {c}]
    BY <1>4 DEF DriverLoad
  <2>2. /\ driver'.cells = driver.cells \cup {c}
        /\ \A d \in Cells : driver'.data[d] = IF d = c THEN strChangeData1[c]
                                              ELSE driver.data[d]
    BY <1>0, <2>1 DEF TypeOK, Records
  <2>3. Allocations \subseteq inForce /\ inForce' = inForce
    BY <1>4 DEF IInv, WindowInv, DriverLoad, history
  <2>4. \E rec \in inForce : strChangeData1[c] = rec[c]
    BY <2>3, CellSource
  <2>5. driver.cells \subseteq Cells
    BY <1>0 DEF TypeOK
  <2> QED
    BY <1>0, <2>2, <2>3, <2>4, <2>5 DEF DriverReadIsRegular
<1>5. CASE DriverLeave
  BY <1>5 DEF DriverLeave, NotReading, DriverReadIsRegular
<1>6. CASE SlackEnter \/ SlackStore \/ SlackLeave \/ UNCHANGED vars
  <2>1. driver' = driver /\ inForce' = inForce
    BY <1>6 DEF SlackEnter, SlackStore, SlackLeave, vars, wifi, history
  <2> QED
    BY <1>1, <2>1
<1> QED
  BY <1>2, <1>3, <1>4, <1>5, <1>6 DEF Next, Wifi

LEMMA SlackReadStep == IInv /\ [Next]_vars => SlackReadIsRegular'
<1> DEFINE G(r) == \A c \in cells[r] : \E rec \in reported[r] : databuf[r][c] = rec[c]
<1> SUFFICES ASSUME IInv, [Next]_vars, NEW r \in Readers PROVE G(r)'
  BY DEF SlackReadIsRegular
<1>0. G(r) /\ TypeOK /\ r \in Users
  BY DEF IInv, SlackReadIsRegular, Users
<1>1. ASSUME cells'[r] = cells[r], databuf'[r] = databuf[r],
             reported[r] \subseteq reported'[r]
      PROVE  G(r)'
  BY <1>0, <1>1
<1>2. ASSUME NEW u \in Users, u # r, Proceed(u) \/ Kill(u) PROVE G(r)'
  <2>1. cells'[r] = cells[r] /\ databuf'[r] = databuf[r] /\ reported'[r] = reported[r]
    BY <1>0, <1>2 DEF Proceed, MiscOpen, MiscOpenBusy, EnterWrite, StoreCell,
       LeaveWrite, RefuseShortWrite, EnterRead, LoadCell, LeaveRead, MiscRelease,
       Kill, Goto, history, TypeOK
  <2> QED
    BY <1>1, <2>1
<1>3. ASSUME LoadCell(r) PROVE G(r)'
  <2>1. PICK c \in Cells \ cells[r] :
          /\ databuf' = [databuf EXCEPT ![r][c] = timeSlack[c]]
          /\ cells' = [cells EXCEPT ![r] = @ \cup {c}]
    BY <1>3 DEF LoadCell
  <2>2. /\ cells'[r] = cells[r] \cup {c} /\ cells[r] \subseteq Cells
        /\ \A d \in Cells : databuf'[r][d] = IF d = c THEN timeSlack[c] ELSE databuf[r][d]
    BY <1>0, <2>1 DEF TypeOK, Records
  <2>3. Reports \subseteq reported[r] /\ reported' = reported
    BY <1>3 DEF IInv, WindowInv, LoadCell, history
  <2>4. \E rec \in reported[r] : timeSlack[c] = rec[c]
    BY <2>3, ReportSource
  <2> QED
    BY <1>0, <2>2, <2>3, <2>4
<1>4. ASSUME EnterRead(r) \/ LeaveRead(r) PROVE G(r)'
  <2>1. cells'[r] = {}
    BY <1>0, <1>4 DEF EnterRead, LeaveRead, TypeOK
  <2> QED
    BY <2>1
<1>5. ASSUME MiscOpen(r) \/ MiscOpenBusy(r) \/ MiscRelease(r) \/ Kill(r) PROVE G(r)'
  <2>1. cells' = cells /\ databuf' = databuf /\ reported' = reported
    BY <1>5 DEF MiscOpen, MiscOpenBusy, MiscRelease, Kill, history
  <2> QED
    BY <1>1, <2>1
<1>6. ~EnterWrite(r) /\ ~StoreCell(r) /\ ~LeaveWrite(r) /\ ~RefuseShortWrite(r)
  BY <1>0, DeviceAssumption, StoringTyped DEF EnterWrite, StoreCell, LeaveWrite,
     RefuseShortWrite
<1>7. CASE SlackEnter
  <2>1. cells' = cells /\ databuf' = databuf /\ reported[r] \subseteq reported'[r]
    BY <1>0, <1>7 DEF SlackEnter, TypeOK
  <2> QED
    BY <1>1, <2>1
<1>8. CASE DriverEnter \/ DriverLoad \/ DriverLeave \/ SlackStore \/ SlackLeave
             \/ UNCHANGED vars
  <2>1. cells' = cells /\ databuf' = databuf /\ reported' = reported
    BY <1>8 DEF DriverEnter, DriverLoad, DriverLeave, SlackStore, SlackLeave, vars,
       history
  <2> QED
    BY <1>1, <2>1
<1>9. G(r)'
  BY <1>2, <1>3, <1>4, <1>5, <1>6, <1>7, <1>8 DEF Next, Proceed, Wifi
<1> QED
  BY <1>9

-----------------------------------------------------------------------------
LEMMA InitInv == Init => IInv
<1> SUFFICES ASSUME Init PROVE IInv
  OBVIOUS
<1>1. Zero \in Data /\ ZeroRecord \in Records
  BY DeviceAssumption DEF ZeroRecord, Records
<1>2. Holders = {} /\ Storing = {}
  BY DEF Init, Holders, Storing
<1>3. TypeOK
  BY <1>1, DeviceAssumption DEF Init, TypeOK, NotReading
<1>4. SingleHolder /\ CallsInv /\ AllocationInv /\ ReportInv
  <2>1. SingleHolder /\ AllocationInv
    BY <1>2 DEF Init, SingleHolder, AllocationInv
  <2>2. \A u \in Users : pc[u] = "start"
    BY DEF Init
  <2>3. CallsInv
    BY <1>2, <2>2 DEF CallsInv, Users
  <2>4. ReportInv
    BY DEF Init, ReportInv
  <2> QED
    BY <2>1, <2>3, <2>4
<1>5. WindowInv /\ DriverReadIsRegular /\ SlackReadIsRegular
  BY DEF Init, WindowInv, DriverReadIsRegular, SlackReadIsRegular, NotReading, Users
<1> QED
  BY <1>3, <1>4, <1>5 DEF IInv

(* The device as a whole: every reachable state satisfies IInv.            *)
THEOREM Invariance == Spec => []IInv
<1>1. IInv /\ [Next]_vars => IInv'
  BY TypeStep, HolderStep, CallsStep, AllocationStep, ReportStep, WindowStep,
     DriverReadStep, SlackReadStep DEF IInv
<1> QED
  BY InitInv, <1>1, PTL DEF Spec

(* Type correctness.                                                       *)
THEOREM TypeCorrect == Spec => []TypeOK
<1>1. IInv => TypeOK
  BY DEF IInv
<1> QED
  BY <1>1, Invariance, PTL

(* misc_open and misc_release: the flag is 1 exactly while one process has *)
(* the device open, and no two ever have.                                  *)
THEOREM SingleHolderHolds == Spec => []SingleHolder
<1>1. IInv => SingleHolder
  BY DEF IInv
<1> QED
  BY <1>1, Invariance, PTL

(* misc_write: between writes the allocation is one complete record,       *)
(* although it is stored in pieces and without a lock.                     *)
THEOREM AllocationWhole == Spec => []AllocationIsWhole
<1>1. IInv => AllocationIsWhole
  BY DEF IInv, AllocationInv, AllocationIsWhole
<1> QED
  BY <1>1, Invariance, PTL

(* restrive_from_misc: every cell the driver copies without a lock comes   *)
(* from a record in force during the copy.                                 *)
THEOREM DriverReadHolds == Spec => []DriverReadIsRegular
<1>1. IInv => DriverReadIsRegular
  BY DEF IInv
<1> QED
  BY <1>1, Invariance, PTL

(* restrive_from_wifi_driver and misc_read: the same for the report.       *)
THEOREM SlackReadHolds == Spec => []SlackReadIsRegular
<1>1. IInv => SlackReadIsRegular
  BY DEF IInv
<1> QED
  BY <1>1, Invariance, PTL
=============================================================================
