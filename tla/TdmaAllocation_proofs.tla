------------------------ MODULE TdmaAllocation_proofs -----------------------
(***************************************************************************)
(* The safety properties of the slot allocation, for every set of programs *)
(* and boards, every superframe layout, every set of plans, every backlog  *)
(* and every number of server executions.  IInv is inductive; each         *)
(* property follows from it.                                               *)
(***************************************************************************)
EXTENDS TdmaAllocation, SlotBitmap_proofs, SequenceTheorems, FiniteSetTheorems,
        TLAPS

(* The id computed for a connection is one of the STA ids.                 *)
LEMMA Residue ==
    ASSUME NEW k \in Nat, NEW n \in Nat \ {0}
    PROVE  k % n \in 0 .. n - 1
  OBVIOUS

(* The counter determines round and id, and they determine it.             *)
LEMMA SameRoundSameNumber ==
    ASSUME NEW j \in Nat, NEW k \in Nat, NEW n \in Nat \ {0},
           j % n = k % n, j \div n = k \div n
    PROVE  j = k
  OBVIOUS

(* In the first num_clients accepts the counter is in its first round.     *)
LEMMA FirstRound ==
    ASSUME NEW k \in Nat, NEW n \in Nat \ {0}, k < n
    PROVE  k \div n = 0
  OBVIOUS

(* Whatever the counter, an accepted program gets an id and an assignment  *)
(* of its plan, and the lines made from them are lists of numbers.         *)
LEMMA GrantTyped ==
    ASSUME TypeOK, NEW p \in Programs
    PROVE  /\ GrantedId(p) \in 0 .. granted[p].plan.num_clients - 1
           /\ GrantedSlots(p) \in Assignments
           /\ \A i \in 1 .. 3 : Line(p, i) \in SUBSET Nat
<1>1. IsPlan(granted[p].plan) /\ granted[p].k \in Nat
  BY AllocationAssumption DEF TypeOK
<1>2. GrantedId(p) \in 0 .. granted[p].plan.num_clients - 1
  BY <1>1, Residue DEF GrantedId, IsPlan
<1>3. GrantedSlots(p) \in Assignments
  BY <1>1, <1>2 DEF GrantedSlots, IsPlan
<1>4. /\ Line(p, 1) = {GrantedId(p)}
      /\ Line(p, 2) = GrantedSlots(p).s1
      /\ Line(p, 3) = GrantedSlots(p).s2
  BY DEF Line
<1>5. /\ {GrantedId(p)} \in SUBSET Nat
      /\ GrantedSlots(p).s1 \in SUBSET Nat
      /\ GrantedSlots(p).s2 \in SUBSET Nat
  BY <1>1, <1>2, <1>3, LayoutAssumption
  DEF Assignments, Session1, Session2, IsPlan
<1> QED
  BY <1>2, <1>3, <1>4, <1>5

(* A written bitmap keeps the device records well-formed.                  *)
LEMMA DeviceWriteTyped ==
    ASSUME TypeOK, NEW b \in Boards, NEW id \in Nat,
           NEW s1 \in SUBSET Nat, NEW s2 \in SUBSET Nat,
           write_to_fpga(b, id, slots_to_bitmap(s1, s2))
    PROVE  dev' \in [Boards -> Records]
<1>1. slots_to_bitmap(s1, s2) \subseteq DriverBits
  BY BitmapInWord
<1>2. [user_ID |-> id, allo_vec |-> slots_to_bitmap(s1, s2)] \in Records
  BY <1>1 DEF Records
<1> QED
  BY <1>2 DEF write_to_fpga, TypeOK

LEMMA ReadLineTyped ==
    ASSUME TypeOK, NEW p \in Programs, NEW i \in 1 .. 3
    PROVE  ReadLine(p, i) \in SUBSET Nat
  BY DEF TypeOK, ReadLine

LEMMA TypeStep == IInv /\ [Next]_vars => TypeOK'
<1> SUFFICES ASSUME IInv, [Next]_vars PROVE TypeOK'
  OBVIOUS
<1> USE DEF TypeOK, serverVars, clientVars
<1>1. CASE StartServer
  <2>1. IsPlan(plan')
    BY <1>1, AllocationAssumption DEF StartServer
  <2>2. plan'.ap.s1 \in SUBSET Nat /\ plan'.ap.s2 \in SUBSET Nat
    BY <2>1, LayoutAssumption DEF IsPlan, Assignments, Session1, Session2
  <2>3. write_to_fpga(AP, 0, slots_to_bitmap(plan'.ap.s1, plan'.ap.s2))
    BY <1>1 DEF StartServer, Bitmap
  <2>4. dev' \in [Boards -> Records]
    BY <2>2, <2>3, DeviceWriteTyped DEF IInv, Boards
  <2> QED
    BY <1>1, <2>4, AllocationAssumption DEF StartServer, IInv
<1>2. CASE AbortConfiguration
  BY <1>2 DEF AbortConfiguration, IInv
<1>3. CASE Listen
  BY <1>3 DEF Listen, IInv
<1>4. CASE Accept
  <2>1. Head(backlog) \in Programs /\ Tail(backlog) \in Seq(Programs)
    BY <1>4 DEF Accept, IInv
  <2> QED
    BY <1>4, <2>1 DEF Accept, IInv
<1>5. CASE SendLine
  <2>1. conn \in Programs /\ wire[conn] \in Seq(SUBSET Nat)
    BY <1>5 DEF SendLine, IInv, ServingInv
  <2>2. Line(conn, Len(wire[conn]) + 1) \in SUBSET Nat
    <3>1. Len(wire[conn]) + 1 \in 1 .. 3
      BY <1>5, <2>1 DEF SendLine
    <3> QED
      BY <2>1, <3>1, GrantTyped DEF IInv
  <2>3. Append(wire[conn], Line(conn, Len(wire[conn]) + 1)) \in Seq(SUBSET Nat)
    BY <2>1, <2>2
  <2> QED
    BY <1>5, <2>1, <2>3 DEF SendLine, IInv
<1>6. CASE CloseConn
  BY <1>6 DEF CloseConn, IInv
<1>7. CASE ServerDies
  BY <1>7 DEF ServerDies, IInv
<1>8. CASE PowerLoss
  <2>1. NoRecord \in Records
    BY DEF NoRecord, Records
  <2>2. dev' \in [Boards -> Records]
    BY <1>8, <2>1 DEF PowerLoss, IInv
  <2>3. link' \in [Programs -> {"none", "open", "closed", "reset", "silent"}]
    BY <1>8 DEF PowerLoss, IInv
  <2> QED
    BY <1>8, <2>2, <2>3 DEF PowerLoss, IInv
<1>9. ASSUME NEW p \in Programs, Connect(p) PROVE TypeOK'
  BY <1>9 DEF Connect, IInv
<1>10. ASSUME NEW p \in Programs, ConnectFails(p) PROVE TypeOK'
  BY <1>10 DEF ConnectFails, IInv
<1>11. ASSUME NEW p \in Programs, EmptyResponse(p) PROVE TypeOK'
  BY <1>11 DEF EmptyResponse, IInv
<1>12. ASSUME NEW p \in Programs, Configured(p) PROVE TypeOK'
  <2>1. \A i \in 1 .. 3 : ReadLine(p, i) \in SUBSET Nat
    BY ReadLineTyped DEF IInv
  <2>2. config' \in [Programs -> [id : Nat, s1 : SUBSET Nat, s2 : SUBSET Nat]]
    BY <1>12, <2>1 DEF Configured, IInv
  <2> QED
    BY <1>12, <2>2 DEF Configured, IInv
<1>13. ASSUME NEW p \in Programs, WriteSlots(p) PROVE TypeOK'
  <2>1. dev' \in [Boards -> Records]
    BY <1>13, DeviceWriteTyped, AllocationAssumption DEF WriteSlots, IInv, Boards
  <2> QED
    BY <1>13, <2>1 DEF WriteSlots, IInv
<1>14. ASSUME NEW p \in Programs, ConnectionReset(p) PROVE TypeOK'
  BY <1>14 DEF ConnectionReset, IInv
<1>15. ASSUME NEW p \in Programs, Timeout(p) PROVE TypeOK'
  BY <1>15 DEF Timeout, IInv
<1>16. ASSUME NEW p \in Programs, KillProgram(p) PROVE TypeOK'
  BY <1>16 DEF KillProgram, IInv
<1>17. CASE UNCHANGED vars
  BY <1>17 DEF vars, IInv
<1> QED
  BY <1>1, <1>2, <1>3, <1>4, <1>5, <1>6, <1>7, <1>8, <1>9, <1>10, <1>11, <1>12,
     <1>13, <1>14, <1>15, <1>16, <1>17
  DEF Next, Server, Serve, CrashOnSend, KillServer, Program, Proceed

(* The counter: a number is given out once per execution.  Only the start  *)
(* of an execution, its listen and its accepts touch the numbers.          *)
LEMMA NumbersStep == IInv /\ [Next]_vars => NumbersInv'
<1> SUFFICES ASSUME IInv, [Next]_vars PROVE NumbersInv'
  OBVIOUS
<1> USE DEF NumbersInv, IsGranted, serverVars, clientVars
<1>1. CASE StartServer
  BY <1>1 DEF StartServer, IInv, TypeOK
<1>2. CASE Listen
  BY <1>2 DEF Listen, IInv, TypeOK
<1>3. CASE Accept
  <2> DEFINE p0 == Head(backlog)
             g0 == [run |-> starts, k |-> next_node_id, plan |-> plan]
  <2>1. p0 \in Programs
    BY <1>3 DEF Accept, IInv, TypeOK
  <2>2. /\ granted' = [granted EXCEPT ![p0] = g0]
        /\ next_node_id' = next_node_id + 1
        /\ server' = "serving" /\ server = "accepting"
        /\ starts' = starts /\ plan' = plan
    BY <1>3 DEF Accept
  <2>3. /\ granted'[p0].run = starts
        /\ granted'[p0].k = next_node_id
        /\ granted'[p0].plan = plan
        /\ \A q \in Programs \ {p0} : granted'[q] = granted[q]
    BY <2>1, <2>2 DEF IInv, TypeOK
  <2>4. \A q \in Programs \ {p0} : granted[q].run = starts =>
           granted[q].k < next_node_id /\ granted[q].plan = plan
    BY <2>2 DEF IInv, TypeOK
  <2>5. starts > 0
    BY <2>2 DEF IInv
  <2> HIDE DEF p0
  <2>6. next_node_id \in Nat /\ starts \in Nat /\ p0 \in Programs
    BY <2>1, AllocationAssumption DEF IInv, TypeOK
  <2>7. \A q \in Programs : granted[q].k \in Nat /\ granted[q].run \in Nat
    BY AllocationAssumption DEF IInv, TypeOK
  <2>8. \A q \in Programs : granted'[q].run <= starts
    BY <2>3, <2>6 DEF IInv
  <2>9. \A q \in Programs : granted'[q].run = starts =>
           granted'[q].k < next_node_id + 1 /\ granted'[q].plan = plan
    BY <2>3, <2>4, <2>6, <2>7
  <2>10. \A q, r \in Programs :
           q # r /\ granted'[q].run > 0 /\ granted'[q].run = granted'[r].run =>
             granted'[q].k # granted'[r].k /\ granted'[q].plan = granted'[r].plan
    BY <2>3, <2>4, <2>6, <2>7 DEF IInv
  <2> QED
    BY <2>2, <2>5, <2>8, <2>9, <2>10
<1>4. CASE /\ \/ server' = server
              \/ server' = "down"
              \/ server = "serving" /\ server' = "accepting"
           /\ UNCHANGED <<starts, plan, next_node_id, granted>>
  BY <1>4 DEF IInv, TypeOK
<1> QED
  BY <1>1, <1>2, <1>3, <1>4
  DEF Next, Server, Serve, CrashOnSend, KillServer, Program, Proceed, vars,
      AbortConfiguration, SendLine, CloseConn, ServerDies, PowerLoss, Connect,
      ConnectFails, EmptyResponse, Configured, WriteSlots, ConnectionReset,
      Timeout, KillProgram

(* Who is not in the listen queue: a program that has not connected yet, or *)
(* is past reading, or whose connection was served or closed.              *)
LEMMA NotQueued ==
    ASSUME IInv, NEW i \in DOMAIN backlog
    PROVE  /\ backlog[i] \in Programs
           /\ pc[backlog[i]] \notin {"idle", "writing", "done"}
           /\ ~AllRead(backlog[i])
           /\ backlog[i] # conn
<1>1. backlog[i] \in Programs
  BY DEF IInv, TypeOK
<1>2. /\ pc[backlog[i]] \in {"reading", "failed"}
      /\ link[backlog[i]] = "open" /\ wire[backlog[i]] = <<>>
      /\ ~IsGranted(backlog[i])
  BY DEF IInv, BacklogInv
<1>3. Len(wire[backlog[i]]) = 0
  BY <1>2
<1>4. ~AllRead(backlog[i])
  BY <1>2, <1>3 DEF AllRead
<1>5. backlog[i] # conn
  BY <1>1, <1>2, AllocationAssumption DEF IInv, ServingInv
<1> QED
  BY <1>1, <1>2, <1>4, <1>5

(* The listen queue: a program enters it once, before it is served, and    *)
(* leaves it only to be served or with the server.                         *)
LEMMA BacklogStep == IInv /\ [Next]_vars => BacklogInv'
<1> SUFFICES ASSUME IInv, [Next]_vars PROVE BacklogInv'
  OBVIOUS
<1> USE DEF BacklogInv, IsGranted, serverVars, clientVars
<1>1. CASE Accept
  <2>1. /\ backlog \in Seq(Programs) /\ backlog # <<>>
        /\ backlog' = Tail(backlog)
        /\ server' = "serving"
        /\ UNCHANGED <<pc, link, wire>>
    BY <1>1 DEF Accept, IInv, TypeOK
  <2>2. \A q \in Programs : q # backlog[1] => granted'[q] = granted[q]
    BY <1>1, <2>1 DEF Accept, IInv, TypeOK
  <2>3. \A i \in DOMAIN backlog' :
           /\ i + 1 \in DOMAIN backlog /\ backlog'[i] = backlog[i + 1]
           /\ backlog[i + 1] \in Programs /\ i # 0
    BY <2>1
  <2>4. \A i \in DOMAIN backlog' : ~(granted'[backlog'[i]].run > 0)
    <3> SUFFICES ASSUME NEW i \in DOMAIN backlog'
                 PROVE  ~(granted'[backlog'[i]].run > 0)
      OBVIOUS
    <3>1. 1 \in DOMAIN backlog /\ i + 1 # 1
      BY <2>1, <2>3
    <3>2. backlog[i + 1] # backlog[1]
      BY <2>3, <3>1 DEF IInv
    <3> QED
      BY <2>2, <2>3, <3>2 DEF IInv
  <2>5. \A i, j \in DOMAIN backlog' : backlog'[i] = backlog'[j] => i = j
    <3> SUFFICES ASSUME NEW i \in DOMAIN backlog', NEW j \in DOMAIN backlog',
                        backlog'[i] = backlog'[j]
                 PROVE  i = j
      OBVIOUS
    <3>1. i + 1 = j + 1
      BY <2>3 DEF IInv
    <3>2. i \in Nat /\ j \in Nat
      BY <2>1
    <3> QED
      BY <3>1, <3>2
  <2>6. \A i \in DOMAIN backlog' :
           /\ pc'[backlog'[i]] \in {"reading", "failed"}
           /\ link'[backlog'[i]] = "open"
           /\ wire'[backlog'[i]] = <<>>
    BY <2>1, <2>3 DEF IInv
  <2> QED
    BY <2>1, <2>4, <2>5, <2>6
<1>2. ASSUME NEW p \in Programs, Connect(p) PROVE BacklogInv'
  <2>1. \A i \in DOMAIN backlog : backlog[i] \in Programs /\ backlog[i] # p
    BY <1>2, NotQueued DEF Connect
  <2>2. /\ backlog \in Seq(Programs) /\ backlog' = Append(backlog, p)
        /\ server' \in {"accepting", "serving"}
        /\ wire' = wire /\ granted' = granted
        /\ pc' = [pc EXCEPT ![p] = "reading"]
        /\ link' = [link EXCEPT ![p] = "open"]
    BY <1>2 DEF Connect, IInv, TypeOK
  <2>3. /\ pc'[p] = "reading" /\ link'[p] = "open"
        /\ wire'[p] = <<>> /\ ~(granted'[p].run > 0)
    BY <1>2, <2>2 DEF Connect, IInv, TypeOK, ServingInv
  <2>4. \A q \in Programs \ {p} : pc'[q] = pc[q] /\ link'[q] = link[q]
    BY <2>2 DEF IInv, TypeOK
  <2>5. /\ DOMAIN backlog' = 1 .. Len(backlog) + 1
        /\ DOMAIN backlog = 1 .. Len(backlog) /\ Len(backlog) \in Nat
        /\ backlog'[Len(backlog) + 1] = p
        /\ \A i \in 1 .. Len(backlog) : backlog'[i] = backlog[i]
    BY <2>2
  <2>6. \A i \in DOMAIN backlog' :
           i = Len(backlog) + 1 \/ i \in DOMAIN backlog
    BY <2>5
  <2>7. \A i \in DOMAIN backlog' :
           /\ pc'[backlog'[i]] \in {"reading", "failed"}
           /\ link'[backlog'[i]] = "open"
           /\ wire'[backlog'[i]] = <<>>
           /\ ~(granted'[backlog'[i]].run > 0)
    BY <2>1, <2>2, <2>3, <2>4, <2>5, <2>6 DEF IInv
  <2>8. \A i, j \in DOMAIN backlog' : backlog'[i] = backlog'[j] => i = j
    BY <2>1, <2>5, <2>6 DEF IInv
  <2> QED
    BY <2>2, <2>7, <2>8
<1>3. CASE SendLine
  <2>1. conn \in Programs
    BY <1>3 DEF SendLine, IInv, TypeOK, ServingInv
  <2>2. \A i \in DOMAIN backlog : backlog[i] \in Programs /\ backlog[i] # conn
    BY NotQueued
  <2> QED
    BY <1>3, <2>1, <2>2 DEF SendLine, IInv, TypeOK
<1>4. CASE CloseConn
  <2>1. conn \in Programs
    BY <1>4 DEF CloseConn, IInv, TypeOK, ServingInv
  <2>2. \A i \in DOMAIN backlog : backlog[i] \in Programs /\ backlog[i] # conn
    BY NotQueued
  <2> QED
    BY <1>4, <2>1, <2>2 DEF CloseConn, IInv, TypeOK
<1>5. CASE ServerDies \/ PowerLoss
  BY <1>5 DEF ServerDies, PowerLoss
<1>6. CASE StartServer \/ AbortConfiguration \/ Listen
  BY <1>6 DEF StartServer, AbortConfiguration, Listen, IInv
<1>7. ASSUME NEW p \in Programs, Proceed(p) \/ ConnectFails(p)
      PROVE  BacklogInv'
  <2>1. /\ UNCHANGED <<server, backlog, link, wire, granted>>
        /\ \E c : pc' = [pc EXCEPT ![p] = c] /\ (c = "failed" \/ pc[p] = "writing" \/ AllRead(p))
    BY <1>7
    DEF Proceed, ConnectFails, EmptyResponse, Configured, WriteSlots,
        ConnectionReset
  <2>2. \A i \in DOMAIN backlog :
           pc'[backlog[i]] = pc[backlog[i]] \/ pc'[backlog[i]] = "failed"
    <3>1. PICK c : /\ pc' = [pc EXCEPT ![p] = c]
                   /\ c = "failed" \/ pc[p] = "writing" \/ AllRead(p)
      BY <2>1
    <3>2. ASSUME NEW i \in DOMAIN backlog, backlog[i] = p PROVE c = "failed"
      BY <3>1, <3>2, NotQueued
    <3>3. pc \in [Programs -> {"idle", "reading", "writing", "done", "failed"}]
      BY DEF IInv, TypeOK
    <3> QED
      BY <3>1, <3>2, <3>3, NotQueued
  <2> QED
    BY <2>1, <2>2 DEF IInv
<1>8. ASSUME NEW p \in Programs, Timeout(p) \/ KillProgram(p)
      PROVE  BacklogInv'
  <2>1. /\ UNCHANGED <<server, backlog, link, wire, granted>>
        /\ pc' = [pc EXCEPT ![p] = "failed"]
    BY <1>8 DEF Timeout, KillProgram
  <2>2. \A i \in DOMAIN backlog :
           pc'[backlog[i]] = pc[backlog[i]] \/ pc'[backlog[i]] = "failed"
    BY <2>1, NotQueued DEF IInv, TypeOK
  <2> QED
    BY <2>1, <2>2 DEF IInv
<1>9. CASE UNCHANGED vars
  BY <1>9 DEF vars, IInv
<1> QED
  BY <1>1, <1>2, <1>3, <1>4, <1>5, <1>6, <1>7, <1>8, <1>9
  DEF Next, Server, Serve, CrashOnSend, KillServer, Program

(* The connection being served is the one that was accepted last, and no   *)
(* program is served before it has connected.                              *)
LEMMA ServingStep == IInv /\ [Next]_vars => ServingInv'
<1> SUFFICES ASSUME IInv, [Next]_vars PROVE ServingInv'
  OBVIOUS
<1> USE DEF ServingInv, IsGranted, serverVars, clientVars
<1>1. CASE Accept
  <2>1. Head(backlog) = backlog[1] /\ 1 \in DOMAIN backlog /\ backlog[1] \in Programs
    BY <1>1 DEF Accept, IInv, TypeOK
  <2>2. starts > 0
    BY <1>1 DEF Accept, IInv, NumbersInv
  <2>3. link[backlog[1]] = "open" /\ pc[backlog[1]] # "idle" /\ backlog[1] # NoProgram
    BY <2>1, AllocationAssumption DEF IInv, BacklogInv
  <2> QED
    BY <1>1, <2>1, <2>2, <2>3 DEF Accept, IInv, TypeOK
<1>2. CASE SendLine
  BY <1>2 DEF SendLine, IInv, TypeOK
<1>3. CASE CloseConn
  BY <1>3 DEF CloseConn, IInv, TypeOK
<1>4. CASE ServerDies \/ PowerLoss
  <2>1. \A p \in Programs : pc[p] = "idle" => p # conn /\ p \notin ToSet(backlog)
    BY NotQueued, AllocationAssumption DEF IInv, ToSet
  <2>2. \A p \in Programs : pc[p] = "idle" => link'[p] = "none"
    BY <1>4, <2>1 DEF ServerDies, PowerLoss, IInv
  <2> QED
    BY <1>4, <2>2 DEF ServerDies, PowerLoss, IInv
<1>5. CASE StartServer \/ AbortConfiguration \/ Listen
  BY <1>5 DEF StartServer, AbortConfiguration, Listen, IInv
<1>6. ASSUME NEW p \in Programs, Connect(p) PROVE ServingInv'
  BY <1>6 DEF Connect, IInv, TypeOK
<1>7. ASSUME NEW p \in Programs,
             \/ ConnectFails(p) \/ EmptyResponse(p) \/ Configured(p)
             \/ WriteSlots(p) \/ ConnectionReset(p) \/ Timeout(p)
             \/ KillProgram(p)
      PROVE  ServingInv'
  <2>1. /\ UNCHANGED <<server, conn, link, wire, granted>>
        /\ \E c \in {"writing", "done", "failed"} : pc' = [pc EXCEPT ![p] = c]
    BY <1>7
    DEF ConnectFails, EmptyResponse, Configured, WriteSlots, ConnectionReset,
        Timeout, KillProgram
  <2> QED
    BY <2>1 DEF IInv, TypeOK
<1>8. CASE UNCHANGED vars
  BY <1>8 DEF vars, IInv
<1> QED
  BY <1>1, <1>2, <1>3, <1>4, <1>5, <1>6, <1>7, <1>8
  DEF Next, Server, Serve, CrashOnSend, KillServer, Program, Proceed

(* The session: only the program being served gets lines, its own, in      *)
(* order, and its grant does not change while it may still read them.      *)
LEMMA LineOfGrant ==
    ASSUME NEW p \in Programs, granted'[p] = granted[p]
    PROVE  /\ \A i \in 1 .. 3 : Line(p, i)' = Line(p, i)
           /\ GrantedId(p)' = GrantedId(p)
           /\ GrantedSlots(p)' = GrantedSlots(p)
           /\ IsGranted(p)' <=> IsGranted(p)
  BY DEF Line, GrantedId, GrantedSlots, IsGranted

(* A program keeps its grant for good: only queued ones are accepted.      *)
LEMMA GrantStable ==
    ASSUME IInv, [Next]_vars, NEW p \in Programs, IsGranted(p)
    PROVE  granted'[p] = granted[p]
<1>1. CASE Accept
  <2>1. backlog # <<>> /\ backlog \in Seq(Programs) /\ Head(backlog) = backlog[1]
        /\ 1 \in DOMAIN backlog
    BY <1>1 DEF Accept, IInv, TypeOK
  <2>2. ~IsGranted(backlog[1])
    BY <2>1 DEF IInv, BacklogInv
  <2> QED
    BY <1>1, <2>1, <2>2 DEF Accept, IInv, TypeOK
<1>2. CASE UNCHANGED granted
  BY <1>2
<1> QED
  BY <1>1, <1>2
  DEF Next, Server, Serve, CrashOnSend, KillServer, Program, Proceed, vars,
      StartServer, Listen, AbortConfiguration, SendLine, CloseConn, ServerDies,
      PowerLoss, Connect, ConnectFails, EmptyResponse, Configured, WriteSlots,
      ConnectionReset, Timeout, KillProgram

LEMMA WireStep == IInv /\ [Next]_vars => WireInv'
<1> SUFFICES ASSUME IInv, [Next]_vars, NEW p \in Programs
             PROVE  /\ Len(wire'[p]) <= 3
                    /\ wire'[p] # <<>> => IsGranted(p)'
                    /\ \A i \in 1 .. Len(wire'[p]) : wire'[p][i] = Line(p, i)'
  BY DEF WireInv
<1>1. /\ wire[p] \in Seq(SUBSET Nat) /\ Len(wire[p]) <= 3
      /\ \A i \in 1 .. Len(wire[p]) : wire[p][i] = Line(p, i)
      /\ wire[p] # <<>> => IsGranted(p)
  BY DEF IInv, WireInv, TypeOK
<1>2. CASE SendLine /\ p = conn
  <2>1. /\ wire'[p] = Append(wire[p], Line(p, Len(wire[p]) + 1))
        /\ Len(wire[p]) < 3 /\ granted' = granted
    BY <1>2 DEF SendLine, IInv, TypeOK
  <2>2. IsGranted(p)
    BY <1>2, AllocationAssumption DEF IInv, ServingInv
  <2>3. /\ Len(wire'[p]) = Len(wire[p]) + 1
        /\ wire'[p][Len(wire[p]) + 1] = Line(p, Len(wire[p]) + 1)
        /\ \A i \in 1 .. Len(wire[p]) : wire'[p][i] = wire[p][i]
    BY <1>1, <2>1
  <2>4. \A i \in 1 .. Len(wire'[p]) : wire'[p][i] = Line(p, i)
    BY <1>1, <2>3
  <2>5. \A i \in 1 .. Len(wire'[p]) : Line(p, i)' = Line(p, i)
    BY <1>1, <2>1, <2>3, LineOfGrant
  <2> QED
    BY <1>1, <2>1, <2>2, <2>3, <2>4, <2>5, LineOfGrant
<1>3. CASE wire'[p] = wire[p]
  <2>1. CASE wire[p] = <<>>
    BY <1>3, <2>1
  <2>2. CASE wire[p] # <<>>
    BY <1>1, <1>3, <2>2, GrantStable, LineOfGrant
  <2> QED
    BY <2>1, <2>2
<1>4. SendLine /\ p # conn => wire'[p] = wire[p]
  BY DEF SendLine, IInv, TypeOK
<1>5. SendLine \/ wire' = wire
  BY DEF Next, Server, Serve, CrashOnSend, KillServer, Program, Proceed, vars,
      StartServer, Listen, AbortConfiguration, Accept, CloseConn, ServerDies,
      PowerLoss, Connect, ConnectFails, EmptyResponse, Configured, WriteSlots,
      ConnectionReset, Timeout, KillProgram
<1> QED
  BY <1>2, <1>3, <1>4, <1>5

(* A program that parsed its response has the lines the server sent it, and *)
(* none can follow.                                                        *)
LEMMA ParsedStep ==
    IInv /\ [Next]_vars =>
        \A p \in Programs : HasConfig(p)' =>
            /\ Len(wire'[p]) = 3 \/ link'[p] = "closed"
            /\ wire'[p] # <<>>
            /\ config'[p].id = GrantedId(p)'
            /\ config'[p].s1 = ReadLine(p, 2)'
            /\ config'[p].s2 = ReadLine(p, 3)'
<1> SUFFICES ASSUME IInv, [Next]_vars, NEW p \in Programs, HasConfig(p)'
             PROVE  /\ Len(wire'[p]) = 3 \/ link'[p] = "closed"
                    /\ wire'[p] # <<>>
                    /\ config'[p].id = GrantedId(p)'
                    /\ config'[p].s1 = ReadLine(p, 2)'
                    /\ config'[p].s2 = ReadLine(p, 3)'
  OBVIOUS
<1>1. CASE Configured(p)
  <2>1. /\ AllRead(p)
        /\ UNCHANGED <<wire, link, granted>>
    BY <1>1 DEF Configured, serverVars
  <2>2. PICK id \in ReadLine(p, 1) :
           config' = [config EXCEPT ![p] =
                         [id |-> id, s1 |-> ReadLine(p, 2), s2 |-> ReadLine(p, 3)]]
    BY <1>1 DEF Configured
  <2>3. config'[p] = [id |-> id, s1 |-> ReadLine(p, 2), s2 |-> ReadLine(p, 3)]
    BY <2>2 DEF IInv, TypeOK
  <2>4. 1 <= Len(wire[p]) /\ id \in wire[p][1] /\ wire[p] \in Seq(SUBSET Nat)
    BY <2>2 DEF ReadLine, IInv, TypeOK
  <2>5. wire[p] # <<>>
    BY <2>4
  <2>6. wire[p][1] = {GrantedId(p)}
    <3>1. 1 \in 1 .. Len(wire[p])
      BY <2>4
    <3>2. wire[p][1] = Line(p, 1)
      BY <3>1 DEF IInv, WireInv
    <3> QED
      BY <3>2 DEF Line
  <2>7. GrantedId(p)' = GrantedId(p)
    BY <2>1 DEF GrantedId
  <2>8. \A i \in 1 .. 3 : ReadLine(p, i)' = ReadLine(p, i)
    BY <2>1 DEF ReadLine
  <2> QED
    BY <2>1, <2>3, <2>4, <2>5, <2>6, <2>7, <2>8 DEF AllRead
<1>2. CASE ~Configured(p)
  <2>1. HasConfig(p) /\ config'[p] = config[p]
    BY <1>2
    DEF HasConfig, IInv, TypeOK,
        Next, Server, Serve, CrashOnSend, KillServer, Program, Proceed, vars,
        StartServer, Listen, AbortConfiguration, Accept, SendLine, CloseConn,
        ServerDies, PowerLoss, Connect, ConnectFails, EmptyResponse, Configured,
        WriteSlots, ConnectionReset, Timeout, KillProgram, serverVars, clientVars
  <2>2. /\ Len(wire[p]) = 3 \/ link[p] = "closed"
        /\ wire[p] # <<>>
        /\ config[p].id = GrantedId(p)
        /\ config[p].s1 = ReadLine(p, 2)
        /\ config[p].s2 = ReadLine(p, 3)
    BY <2>1 DEF IInv, ConfigInv
  <2>3. GrantedId(p)' = GrantedId(p)
    <3>1. IsGranted(p)
      BY <2>2 DEF IInv, WireInv
    <3> QED
      BY <3>1, GrantStable, LineOfGrant
  <2>4. p = conn => link[p] = "open"
    BY AllocationAssumption DEF IInv, ServingInv
  <2>5. wire'[p] = wire[p]
    <3>1. SendLine => wire'[p] = wire[p]
      <4>1. ASSUME SendLine PROVE p # conn
        <5>1. SUFFICES ASSUME p = conn PROVE FALSE
          OBVIOUS
        <5>2. Len(wire[p]) = 3
          BY <2>2, <2>4, <5>1
        <5> QED
          BY <4>1, <5>1, <5>2 DEF SendLine
      <4> QED
        BY <4>1 DEF SendLine, IInv, TypeOK
    <3>2. SendLine \/ wire' = wire
      BY DEF Next, Server, Serve, CrashOnSend, KillServer, Program, Proceed, vars,
          StartServer, Listen, AbortConfiguration, Accept, CloseConn, ServerDies,
          PowerLoss, Connect, ConnectFails, EmptyResponse, Configured, WriteSlots,
          ConnectionReset, Timeout, KillProgram
    <3> QED
      BY <3>1, <3>2
  <2>6. link[p] = "closed" => link'[p] = "closed"
    <3> SUFFICES ASSUME link[p] = "closed" PROVE link'[p] = "closed"
      OBVIOUS
    <3>1. p # conn /\ p \notin ToSet(backlog) /\ pc[p] # "idle"
      BY <2>1, <2>4 DEF IInv, BacklogInv, ToSet, HasConfig
    <3>2. CASE ServerDies \/ PowerLoss
      BY <3>1, <3>2 DEF ServerDies, PowerLoss
    <3>3. CASE CloseConn
      BY <3>3 DEF CloseConn, IInv, TypeOK
    <3>4. ASSUME NEW q \in Programs, Connect(q) PROVE link'[p] = "closed"
      BY <3>1, <3>4 DEF Connect, IInv, TypeOK
    <3>5. CASE UNCHANGED link
      BY <3>5
    <3> QED
      BY <3>2, <3>3, <3>4, <3>5
      DEF Next, Server, Serve, CrashOnSend, KillServer, Program, Proceed, vars,
          StartServer, Listen, AbortConfiguration, Accept, SendLine,
          ConnectFails, EmptyResponse, Configured, WriteSlots, ConnectionReset,
          Timeout, KillProgram
  <2> QED
    BY <2>1, <2>2, <2>3, <2>5, <2>6 DEF ReadLine
<1> QED
  BY <1>1, <1>2

(* What a configured program holds, in terms of its grant.                 *)
LEMMA ConfigOfGrant ==
    ASSUME IInv, NEW p \in Programs, HasConfig(p)
    PROVE  /\ IsGranted(p)
           /\ config[p].id = GrantedId(p)
           /\ config[p].s1 \subseteq GrantedSlots(p).s1
           /\ config[p].s2 \subseteq GrantedSlots(p).s2
           /\ Len(wire[p]) = 3 => /\ config[p].s1 = GrantedSlots(p).s1
                                  /\ config[p].s2 = GrantedSlots(p).s2
<1>1. /\ IsGranted(p)
      /\ wire[p] \in Seq(SUBSET Nat)
      /\ \A i \in 1 .. Len(wire[p]) : wire[p][i] = Line(p, i)
      /\ config[p].id = GrantedId(p)
      /\ config[p].s1 = ReadLine(p, 2)
      /\ config[p].s2 = ReadLine(p, 3)
  BY DEF IInv, ConfigInv, WireInv, TypeOK
<1>2. /\ Line(p, 2) = GrantedSlots(p).s1
      /\ Line(p, 3) = GrantedSlots(p).s2
  BY DEF Line
<1>3. Len(wire[p]) \in Nat
  BY <1>1
<1>4. ReadLine(p, 2) = IF 2 <= Len(wire[p]) THEN GrantedSlots(p).s1 ELSE {}
  BY <1>1, <1>2, <1>3 DEF ReadLine
<1>5. ReadLine(p, 3) = IF 3 <= Len(wire[p]) THEN GrantedSlots(p).s2 ELSE {}
  BY <1>1, <1>2, <1>3 DEF ReadLine
<1>6. config[p].s1 \subseteq GrantedSlots(p).s1
  BY <1>1, <1>4
<1>7. config[p].s2 \subseteq GrantedSlots(p).s2
  BY <1>1, <1>5
<1>8. Len(wire[p]) = 3 => config[p].s1 = GrantedSlots(p).s1
  BY <1>1, <1>4
<1>9. Len(wire[p]) = 3 => config[p].s2 = GrantedSlots(p).s2
  BY <1>1, <1>5
<1> QED
  BY <1>1, <1>6, <1>7, <1>8, <1>9

LEMMA ConfigStep == IInv /\ [Next]_vars => ConfigInv'
<1> SUFFICES ASSUME IInv, [Next]_vars PROVE ConfigInv'
  OBVIOUS
<1>1. ASSUME NEW p \in Programs, pc'[p] = "writing" PROVE Kind[p] = "cli"
  <2>1. CASE pc[p] = "writing"
    BY <2>1 DEF IInv, ConfigInv
  <2>2. CASE pc[p] # "writing"
    <3>1. Configured(p)
      BY <1>1, <2>2
      DEF IInv, TypeOK,
          Next, Server, Serve, CrashOnSend, KillServer, Program, Proceed, vars,
          StartServer, Listen, AbortConfiguration, Accept, SendLine, CloseConn,
          ServerDies, PowerLoss, Connect, ConnectFails, EmptyResponse, Configured,
          WriteSlots, ConnectionReset, Timeout, KillProgram, serverVars, clientVars
    <3> QED
      BY <1>1, <3>1 DEF Configured, IInv, TypeOK
  <2> QED
    BY <2>1, <2>2
<1> QED
  BY <1>1, ParsedStep DEF ConfigInv

(* The devices of the stations: only WriteSlots writes them, from the      *)
(* response of the program that writes.                                    *)
LEMMA DeviceStep == IInv /\ [Next]_vars => DeviceFromOwnGrant'
<1> SUFFICES ASSUME IInv, [Next]_vars, NEW b \in Stas, dev'[b] # NoRecord
             PROVE  \E p \in Programs :
                       /\ Board[p] = b /\ Kind[p] = "cli" /\ IsGranted(p)'
                       /\ dev'[b].user_ID = GrantedId(p)'
                       /\ dev'[b].allo_vec \subseteq Bitmap(GrantedSlots(p))'
  BY DEF DeviceFromOwnGrant
<1>1. CASE dev'[b] = dev[b]
  <2>1. PICK p \in Programs :
            /\ Board[p] = b /\ Kind[p] = "cli" /\ IsGranted(p)
            /\ dev[b].user_ID = GrantedId(p)
            /\ dev[b].allo_vec \subseteq Bitmap(GrantedSlots(p))
    BY <1>1 DEF IInv, DeviceFromOwnGrant
  <2>2. granted'[p] = granted[p]
    BY <2>1, GrantStable
  <2>3. /\ IsGranted(p)' /\ GrantedId(p)' = GrantedId(p)
        /\ Bitmap(GrantedSlots(p))' = Bitmap(GrantedSlots(p))
    BY <2>1, <2>2, LineOfGrant DEF Bitmap
  <2> QED
    BY <1>1, <2>1, <2>3
<1>2. CASE dev'[b] # dev[b]
  <2>1. PICK p \in Programs : WriteSlots(p) /\ Board[p] = b
    <3>1. b # AP /\ b \in Boards
      BY AllocationAssumption DEF Boards
    <3> QED
      BY <1>2, <3>1
      DEF IInv, TypeOK, write_to_fpga,
          Next, Server, Serve, CrashOnSend, KillServer, Program, Proceed, vars,
          StartServer, Listen, AbortConfiguration, Accept, SendLine, CloseConn,
          ServerDies, PowerLoss, Connect, ConnectFails, EmptyResponse, Configured,
          WriteSlots, ConnectionReset, Timeout, KillProgram
  <2>2. HasConfig(p) /\ Kind[p] = "cli" /\ granted' = granted
    BY <2>1 DEF WriteSlots, HasConfig, IInv, ConfigInv
  <2>3. dev'[b] = [user_ID |-> config[p].id,
                   allo_vec |-> slots_to_bitmap(config[p].s1, config[p].s2)]
    BY <1>2, <2>1 DEF WriteSlots, write_to_fpga, IInv, TypeOK, Boards
  <2>4. /\ IsGranted(p) /\ config[p].id = GrantedId(p)
        /\ slots_to_bitmap(config[p].s1, config[p].s2)
              \subseteq Bitmap(GrantedSlots(p))
    BY <2>2, ConfigOfGrant, BitmapMonotone DEF Bitmap
  <2>5. /\ IsGranted(p)' /\ GrantedId(p)' = GrantedId(p)
        /\ Bitmap(GrantedSlots(p))' = Bitmap(GrantedSlots(p))
    BY <2>2, <2>4, LineOfGrant DEF Bitmap
  <2> QED
    BY <2>1, <2>2, <2>3, <2>4, <2>5
<1> QED
  BY <1>1, <1>2

(* The AP's device: written by the server when it starts, lost with power. *)
LEMMA ApDeviceStep == IInv /\ [Next]_vars => ApDeviceInv'
<1> SUFFICES ASSUME IInv, [Next]_vars PROVE ApDeviceInv'
  OBVIOUS
<1> USE DEF ApDeviceInv, serverVars, clientVars
<1>1. CASE StartServer
  <2>1. starts \in Nat /\ starts' = starts + 1
    BY <1>1, AllocationAssumption DEF StartServer, IInv, TypeOK
  <2>2. SUFFICES ASSUME starts' <= 1
                 PROVE  dev'[AP].allo_vec \subseteq Bitmap(plan'.ap)
    BY <2>1
  <2>3. dev[AP].allo_vec = {}
    BY <2>1, <2>2 DEF IInv
  <2>4. dev' = dev \/ dev' = [dev EXCEPT ![AP] =
                              [user_ID |-> 0, allo_vec |-> Bitmap(plan'.ap)]]
    BY <1>1 DEF StartServer, write_to_fpga
  <2>5. AP \in Boards
    BY DEF Boards
  <2> QED
    BY <2>3, <2>4, <2>5 DEF IInv, TypeOK
<1>2. CASE PowerLoss
  <2>1. dev'[AP] = NoRecord
    BY <1>2 DEF PowerLoss, IInv, TypeOK, Boards
  <2> QED
    BY <1>2, <2>1 DEF PowerLoss, NoRecord
<1>3. ASSUME NEW p \in Programs, WriteSlots(p) PROVE ApDeviceInv'
  <2>1. dev'[AP] = dev[AP]
    BY <1>3, AllocationAssumption
    DEF WriteSlots, write_to_fpga, IInv, TypeOK, Boards
  <2> QED
    BY <1>3, <2>1 DEF WriteSlots, IInv
<1>4. CASE UNCHANGED <<starts, plan, dev>>
  BY <1>4 DEF IInv
<1> QED
  BY <1>1, <1>2, <1>3, <1>4
  DEF Next, Server, Serve, CrashOnSend, KillServer, Program, Proceed, vars,
      Listen, AbortConfiguration, Accept, SendLine, CloseConn,
      ServerDies, Connect, ConnectFails, EmptyResponse, Configured,
      ConnectionReset, Timeout, KillProgram

-----------------------------------------------------------------------------
LEMMA InitInv == Init => IInv
<1> SUFFICES ASSUME Init PROVE IInv
  OBVIOUS
<1> USE DEF Init, NoGrant, NoConfig, NoRecord
<1>1. NoGrant.plan \in Plans
  BY AllocationAssumption
<1>2. TypeOK
  BY <1>1, AllocationAssumption, LayoutAssumption DEF TypeOK, Records, DriverBits
<1>3. NumbersInv /\ BacklogInv /\ ServingInv
  BY DEF NumbersInv, BacklogInv, ServingInv, IsGranted
<1>4. WireInv /\ ConfigInv
  BY DEF WireInv, ConfigInv, HasConfig
<1>5. DeviceFromOwnGrant /\ ApDeviceInv
  BY DEF DeviceFromOwnGrant, ApDeviceInv, Boards
<1> QED
  BY <1>2, <1>3, <1>4, <1>5 DEF IInv

LEMMA StepInv == IInv /\ [Next]_vars => IInv'
  BY TypeStep, NumbersStep, BacklogStep, ServingStep, WireStep, ConfigStep,
     DeviceStep, ApDeviceStep DEF IInv

THEOREM Invariance == Spec => []IInv
  BY InitInv, StepInv, PTL DEF Spec

(* Type correctness.                                                       *)
THEOREM TypeCorrect == Spec => []TypeOK
<1>1. IInv => TypeOK
  BY DEF IInv
<1> QED
  BY <1>1, Invariance, PTL

(* No program ever believes to own a slot that its id was not given,       *)
(* whatever died or was cut off.                                           *)
THEOREM NeverMoreThanGrantedHolds == Spec => []NeverMoreThanGranted
<1>1. IInv => NeverMoreThanGranted
  BY ConfigOfGrant DEF NeverMoreThanGranted
<1> QED
  BY <1>1, Invariance, PTL

(* A fully served program has all its slots.                               *)
THEOREM FullyServedHolds == Spec => []FullyServedIsComplete
<1>1. IInv => FullyServedIsComplete
  BY ConfigOfGrant DEF FullyServedIsComplete
<1> QED
  BY <1>1, Invariance, PTL

(* The core of the allocation: programs configured in one round of one     *)
(* server execution never share a slot of a disjoint plan.                 *)
LEMMA SameRoundDifferentIds ==
    ASSUME IInv, NEW p \in Programs, NEW q \in Programs, p # q, SameRound(p, q)
    PROVE  /\ granted[p].plan = granted[q].plan
           /\ GrantedId(p) # GrantedId(q)
<1>1. /\ granted[p].plan = granted[q].plan
      /\ granted[p].k # granted[q].k
  BY DEF IInv, NumbersInv, SameRound
<1>2. /\ granted[p].k \in Nat /\ granted[q].k \in Nat
      /\ granted[p].plan.num_clients \in Nat \ {0}
  BY AllocationAssumption DEF IInv, TypeOK, IsPlan
<1>3. granted[p].k \div granted[p].plan.num_clients
        = granted[q].k \div granted[p].plan.num_clients
  BY <1>1 DEF SameRound
<1> QED
  BY <1>1, <1>2, <1>3, SameRoundSameNumber DEF GrantedId

THEOREM SameRoundNoOverlapHolds == Spec => []SameRoundNoOverlap
<1>1. ASSUME IInv, NEW p \in Programs, NEW q \in Programs, p # q,
             HasConfig(p), HasConfig(q), SameRound(p, q),
             DisjointPlan(granted[p].plan)
      PROVE  DisjointAssignments(config[p], config[q])
  <2>1. /\ granted[p].plan = granted[q].plan
        /\ GrantedId(p) # GrantedId(q)
    BY <1>1, SameRoundDifferentIds
  <2>2. /\ GrantedId(p) \in 0 .. granted[p].plan.num_clients - 1
        /\ GrantedId(q) \in 0 .. granted[p].plan.num_clients - 1
    BY <1>1, <2>1, GrantTyped DEF IInv
  <2>3. DisjointAssignments(GrantedSlots(p), GrantedSlots(q))
    BY <1>1, <2>1, <2>2 DEF DisjointPlan, GrantedSlots
  <2>4. /\ config[p].s1 \subseteq GrantedSlots(p).s1
        /\ config[p].s2 \subseteq GrantedSlots(p).s2
        /\ config[q].s1 \subseteq GrantedSlots(q).s1
        /\ config[q].s2 \subseteq GrantedSlots(q).s2
    BY <1>1, ConfigOfGrant
  <2> QED
    BY <2>3, <2>4 DEF DisjointAssignments
<1>2. IInv => SameRoundNoOverlap
  BY <1>1 DEF SameRoundNoOverlap
<1> QED
  BY <1>2, Invariance, PTL

(* A station's device never mixes the id of one program with the slots of  *)
(* another.                                                                *)
THEOREM DeviceFromOwnGrantHolds == Spec => []DeviceFromOwnGrant
<1>1. IInv => DeviceFromOwnGrant
  BY DEF IInv
<1> QED
  BY <1>1, Invariance, PTL

(* In the first round of the only execution, the owner of a station's      *)
(* slots has a number below num_clients of the plan in force.              *)
LEMMA FirstRoundOwner ==
    ASSUME IInv, starts = 1, next_node_id <= plan.num_clients,
           NEW b \in Stas, dev[b].allo_vec # {}
    PROVE  \E p \in Programs :
              /\ Board[p] = b /\ IsGranted(p)
              /\ granted[p].run = 1 /\ granted[p].plan = plan
              /\ granted[p].k \div plan.num_clients = 0
              /\ dev[b].allo_vec \subseteq Bitmap(GrantedSlots(p))
<1>1. dev[b] # NoRecord
  BY DEF NoRecord
<1>2. PICK p \in Programs :
          /\ Board[p] = b /\ IsGranted(p)
          /\ dev[b].allo_vec \subseteq Bitmap(GrantedSlots(p))
  BY <1>1 DEF IInv, DeviceFromOwnGrant
<1>3. granted[p].run \in Nat /\ granted[p].run <= 1
  BY <1>2, AllocationAssumption DEF IInv, NumbersInv, TypeOK
<1>4. granted[p].run = 1
  BY <1>2, <1>3 DEF IsGranted
<1>5. granted[p].k < next_node_id /\ granted[p].plan = plan
  BY <1>4 DEF IInv, NumbersInv
<1>6. /\ granted[p].k \in Nat /\ next_node_id \in Nat
      /\ plan.num_clients \in Nat \ {0}
  BY AllocationAssumption DEF IInv, TypeOK, IsPlan
<1>7. granted[p].k \div plan.num_clients = 0
  BY <1>5, <1>6, FirstRound
<1> QED
  BY <1>2, <1>4, <1>5, <1>7

(* Until the counter wraps, a disjoint plan means a medium without         *)
(* collisions, whoever died or was cut off meanwhile.                      *)
THEOREM MediumExclusive == Spec => []FirstRoundMediumExclusive
<1> DEFINE Quiet == /\ IInv /\ starts = 1 /\ DisjointPlan(plan)
                    /\ next_node_id <= plan.num_clients
           Apart(b, c) == dev[b].allo_vec \cap dev[c].allo_vec = {}
<1>1. ASSUME Quiet, NEW b \in Stas, NEW c \in Stas, b # c PROVE Apart(b, c)
  <2>1. SUFFICES ASSUME dev[b].allo_vec # {}, dev[c].allo_vec # {}
                 PROVE  Apart(b, c)
    OBVIOUS
  <2>2. PICK p \in Programs :
            /\ Board[p] = b /\ IsGranted(p)
            /\ granted[p].run = 1 /\ granted[p].plan = plan
            /\ granted[p].k \div plan.num_clients = 0
            /\ dev[b].allo_vec \subseteq Bitmap(GrantedSlots(p))
    BY <1>1, <2>1, FirstRoundOwner
  <2>3. PICK q \in Programs :
            /\ Board[q] = c /\ IsGranted(q)
            /\ granted[q].run = 1 /\ granted[q].plan = plan
            /\ granted[q].k \div plan.num_clients = 0
            /\ dev[c].allo_vec \subseteq Bitmap(GrantedSlots(q))
    BY <1>1, <2>1, FirstRoundOwner
  <2>4. p # q /\ SameRound(p, q)
    BY <1>1, <2>2, <2>3 DEF SameRound
  <2>5. GrantedId(p) # GrantedId(q)
    BY <1>1, <2>4, SameRoundDifferentIds
  <2>6. /\ GrantedId(p) \in 0 .. plan.num_clients - 1
        /\ GrantedId(q) \in 0 .. plan.num_clients - 1
        /\ GrantedSlots(p) \in Assignments /\ GrantedSlots(q) \in Assignments
    BY <1>1, <2>2, <2>3, GrantTyped DEF IInv
  <2>7. DisjointAssignments(GrantedSlots(p), GrantedSlots(q))
    BY <1>1, <2>2, <2>3, <2>5, <2>6 DEF DisjointPlan, GrantedSlots
  <2>8. Bitmap(GrantedSlots(p)) \cap Bitmap(GrantedSlots(q)) = {}
    BY <2>6, <2>7, BitmapDisjoint
  <2> QED
    BY <2>2, <2>3, <2>8
<1>2. ASSUME Quiet, NEW c \in Stas PROVE Apart(AP, c)
  <2>1. SUFFICES ASSUME dev[c].allo_vec # {} PROVE Apart(AP, c)
    OBVIOUS
  <2>2. PICK q \in Programs :
            /\ granted[q].plan = plan
            /\ dev[c].allo_vec \subseteq Bitmap(GrantedSlots(q))
    BY <1>2, <2>1, FirstRoundOwner
  <2>3. /\ GrantedId(q) \in 0 .. plan.num_clients - 1
        /\ GrantedSlots(q) \in Assignments
    BY <1>2, <2>2, GrantTyped DEF IInv
  <2>4. plan.ap \in Assignments /\ DisjointAssignments(plan.ap, GrantedSlots(q))
    BY <1>2, <2>2, <2>3, AllocationAssumption
    DEF DisjointPlan, GrantedSlots, IInv, TypeOK, IsPlan
  <2>5. Bitmap(plan.ap) \cap Bitmap(GrantedSlots(q)) = {}
    BY <2>3, <2>4, BitmapDisjoint
  <2>6. dev[AP].allo_vec \subseteq Bitmap(plan.ap)
    BY <1>2 DEF IInv, ApDeviceInv
  <2> QED
    BY <2>2, <2>5, <2>6
<1>3. ASSUME Quiet, NEW b \in Boards, NEW c \in Boards, b # c PROVE Apart(b, c)
  BY <1>1, <1>2, <1>3 DEF Boards
<1>4. IInv => FirstRoundMediumExclusive
  BY <1>3 DEF FirstRoundMediumExclusive
<1> QED
  BY <1>4, Invariance, PTL
-----------------------------------------------------------------------------
(* The second half of NumbersHandedOutOnce: while the server accepts, the  *)
(* numbers of its execution are those below its counter, without a gap.    *)
NoGap ==
    server \in {"accepting", "serving"} =>
        {granted[p].k : p \in {r \in Programs : granted[r].run = starts}}
          = 0 .. next_node_id - 1

(* Listen finds no number of the execution that starts, and an accept adds *)
(* the next one for a program that had none.                               *)
LEMMA NoGapStep == IInv /\ NoGap /\ [Next]_vars => NoGap'
<1> SUFFICES ASSUME IInv, NoGap, [Next]_vars,
                    server' \in {"accepting", "serving"}
             PROVE  {granted'[p].k : p \in {r \in Programs : granted'[r].run = starts'}}
                      = 0 .. next_node_id' - 1
  BY DEF NoGap
<1> USE DEF serverVars, clientVars
<1>1. CASE Listen
  <2>1. /\ server = "configuring" /\ next_node_id' = 0
        /\ starts' = starts /\ granted' = granted
    BY <1>1 DEF Listen
  <2>2. {r \in Programs : granted[r].run = starts} = {}
    BY <2>1, AllocationAssumption DEF IInv, TypeOK, NumbersInv
  <2> QED
    BY <2>1, <2>2
<1>2. CASE Accept
  <2> DEFINE p0 == Head(backlog)
             g0 == [run |-> starts, k |-> next_node_id, plan |-> plan]
  <2>1. /\ server = "accepting" /\ starts' = starts
        /\ next_node_id' = next_node_id + 1
        /\ granted' = [granted EXCEPT ![p0] = g0]
    BY <1>2 DEF Accept
  <2>2. p0 \in Programs /\ ~IsGranted(p0)
    <3>1. 1 \in DOMAIN backlog /\ p0 = backlog[1] /\ backlog[1] \in Programs
      BY <1>2 DEF Accept, IInv, TypeOK
    <3> QED
      BY <3>1 DEF IInv, BacklogInv
  <2>3. starts > 0 /\ granted[p0].run # starts
    BY <2>1, <2>2, AllocationAssumption DEF IInv, TypeOK, NumbersInv, IsGranted
  <2>4. /\ granted'[p0].run = starts /\ granted'[p0].k = next_node_id
        /\ \A q \in Programs \ {p0} : granted'[q] = granted[q]
    BY <2>1, <2>2 DEF IInv, TypeOK
  <2> HIDE DEF p0, g0
  <2>5. {granted'[p].k : p \in {r \in Programs : granted'[r].run = starts}}
          = {granted[p].k : p \in {r \in Programs : granted[r].run = starts}}
              \cup {next_node_id}
    <3>1. {r \in Programs : granted'[r].run = starts}
            = {r \in Programs : granted[r].run = starts} \cup {p0}
      BY <2>2, <2>4
    <3>2. \A q \in {r \in Programs : granted[r].run = starts} :
             granted'[q] = granted[q]
      BY <2>3, <2>4
    <3> QED
      BY <2>4, <3>1, <3>2
  <2>6. {granted[p].k : p \in {r \in Programs : granted[r].run = starts}}
          = 0 .. next_node_id - 1
    BY <2>1 DEF NoGap
  <2>7. next_node_id \in Nat
    BY DEF IInv, TypeOK
  <2>8. (0 .. next_node_id - 1) \cup {next_node_id} = 0 .. (next_node_id + 1) - 1
    BY <2>7
  <2> QED
    BY <2>1, <2>5, <2>6, <2>8
<1>3. CASE /\ server' = server \/ server = "serving"
           /\ UNCHANGED <<starts, next_node_id, granted>>
  BY <1>3 DEF NoGap
<1> QED
  BY <1>1, <1>2, <1>3
  DEF Next, Server, Serve, CrashOnSend, KillServer, Program, Proceed, vars,
      StartServer, AbortConfiguration, SendLine, CloseConn, ServerDies, PowerLoss,
      Connect, ConnectFails, EmptyResponse, Configured, WriteSlots,
      ConnectionReset, Timeout, KillProgram

(* Ids come in order of arrival: an execution's accepts take the numbers   *)
(* 0, 1, 2, ..., each once, whatever dies in between.                      *)
THEOREM NumbersHandedOutOnceHolds == Spec => []NumbersHandedOutOnce
<1>1. Init => NoGap
  BY DEF Init, NoGap
<1>2. IInv /\ NoGap => NumbersHandedOutOnce
  BY DEF NumbersHandedOutOnce, NoGap, IInv, NumbersInv
<1> QED
  BY <1>1, <1>2, NoGapStep, Invariance, PTL DEF Spec

-----------------------------------------------------------------------------
(* A program that waits for lines is queued or served as long as its       *)
(* connection is open, and only then.                                      *)
LEMMA AttendedStep ==
    IInv /\ ReaderIsAttended /\ [Next]_vars => ReaderIsAttended'
<1> SUFFICES ASSUME IInv, ReaderIsAttended, [Next]_vars,
                    NEW p \in Programs, pc'[p] = "reading"
             PROVE  /\ link'[p] # "none"
                    /\ link'[p] = "open" <=> (p = conn' \/ p \in ToSet(backlog'))
  BY DEF ReaderIsAttended
<1> USE DEF serverVars, clientVars
<1>1. pc[p] = "reading" =>
         /\ link[p] # "none"
         /\ link[p] = "open" <=> (p = conn \/ p \in ToSet(backlog))
  BY DEF ReaderIsAttended
<1>2. p # NoProgram /\ p \in DOMAIN link /\ backlog \in Seq(Programs)
  BY AllocationAssumption DEF IInv, TypeOK
<1>3. conn \notin ToSet(backlog)
  BY NotQueued DEF ToSet
<1>4. CASE Accept
  <2>1. /\ backlog # <<>> /\ conn' = Head(backlog) /\ backlog' = Tail(backlog)
        /\ link' = link /\ pc' = pc /\ conn = NoProgram
    BY <1>4 DEF Accept, IInv, ServingInv
  <2>2. ToSet(backlog) = {Head(backlog)} \cup ToSet(Tail(backlog))
    <3>1. \A i \in DOMAIN backlog :
             i = 1 \/ (i - 1 \in DOMAIN Tail(backlog)
                         /\ Tail(backlog)[i - 1] = backlog[i])
      BY <1>2, <2>1
    <3>2. \A i \in DOMAIN Tail(backlog) :
             i + 1 \in DOMAIN backlog /\ Tail(backlog)[i] = backlog[i + 1]
      BY <1>2, <2>1
    <3>3. Head(backlog) = backlog[1] /\ 1 \in DOMAIN backlog
      BY <1>2, <2>1
    <3>4. ASSUME NEW x \in ToSet(backlog)
          PROVE  x = Head(backlog) \/ x \in ToSet(Tail(backlog))
      <4>1. PICK i \in DOMAIN backlog : x = backlog[i]
        BY <3>4 DEF ToSet
      <4> QED
        BY <3>1, <3>3, <4>1 DEF ToSet
    <3>5. ASSUME NEW x \in ToSet(Tail(backlog))
          PROVE  x \in ToSet(backlog)
      <4>1. PICK i \in DOMAIN Tail(backlog) : x = Tail(backlog)[i]
        BY <3>5 DEF ToSet
      <4> QED
        BY <3>2, <4>1 DEF ToSet
    <3>6. Head(backlog) \in ToSet(backlog)
      BY <3>3 DEF ToSet
    <3> QED
      BY <3>4, <3>5, <3>6
  <2> QED
    BY <1>1, <1>2, <2>1, <2>2
<1>5. ASSUME NEW q \in Programs, Connect(q)
      PROVE  /\ link'[p] # "none"
             /\ link'[p] = "open" <=> (p = conn' \/ p \in ToSet(backlog'))
  <2>1. /\ backlog' = Append(backlog, q) /\ conn' = conn
        /\ link' = [link EXCEPT ![q] = "open"]
        /\ pc' = [pc EXCEPT ![q] = "reading"]
    BY <1>5 DEF Connect
  <2>2. ToSet(backlog') = ToSet(backlog) \cup {q}
    <3>1. /\ DOMAIN backlog' = DOMAIN backlog \cup {Len(backlog) + 1}
          /\ backlog'[Len(backlog) + 1] = q
          /\ \A i \in DOMAIN backlog : backlog'[i] = backlog[i]
      BY <1>2, <2>1
    <3> QED
      BY <3>1 DEF ToSet
  <2>3. p # q => pc[p] = "reading" /\ link'[p] = link[p]
    BY <2>1 DEF IInv, TypeOK
  <2>4. link'[q] = "open"
    BY <2>1 DEF IInv, TypeOK
  <2> QED
    BY <1>1, <2>1, <2>2, <2>3, <2>4
<1>6. CASE CloseConn
  <2>1. /\ link' = [link EXCEPT ![conn] = "closed"] /\ conn' = NoProgram
        /\ backlog' = backlog /\ pc' = pc
    BY <1>6 DEF CloseConn
  <2>2. link'[p] = IF p = conn THEN "closed" ELSE link[p]
    BY <1>2, <2>1
  <2> QED
    BY <1>1, <1>2, <1>3, <2>1, <2>2
<1>7. CASE ServerDies \/ PowerLoss
  <2>1. /\ conn' = NoProgram /\ backlog' = << >> /\ pc' = pc
        /\ p = conn \/ p \in ToSet(backlog) => link'[p] \in {"closed", "reset", "silent"}
        /\ ~(p = conn \/ p \in ToSet(backlog)) => link'[p] = link[p]
    BY <1>7 DEF ServerDies, PowerLoss
  <2>2. ToSet(backlog') = {}
    BY <2>1 DEF ToSet
  <2> QED
    BY <1>1, <1>2, <2>1, <2>2
<1>8. CASE UNCHANGED <<link, conn, backlog, pc>>
  BY <1>1, <1>8
<1>9. ASSUME NEW q \in Programs, NEW c,
             c # "reading", pc' = [pc EXCEPT ![q] = c],
             UNCHANGED <<link, conn, backlog>>
      PROVE  /\ link'[p] # "none"
             /\ link'[p] = "open" <=> (p = conn' \/ p \in ToSet(backlog'))
  <2>1. pc[p] = "reading"
    BY <1>9 DEF IInv, TypeOK
  <2> QED
    BY <1>1, <1>9, <2>1
<1>10. CASE Server
  BY <1>4, <1>6, <1>7, <1>8, <1>10
  DEF Server, Serve, CrashOnSend, KillServer, StartServer, AbortConfiguration,
      Listen, SendLine
<1>11. ASSUME NEW q \in Programs, Program(q)
       PROVE  /\ link'[p] # "none"
              /\ link'[p] = "open" <=> (p = conn' \/ p \in ToSet(backlog'))
  <2>1. CASE Connect(q)
    BY <1>5, <2>1
  <2>2. CASE ~Connect(q)
    <3>1. /\ UNCHANGED <<link, conn, backlog>>
          /\ \E c : c # "reading" /\ pc' = [pc EXCEPT ![q] = c]
      BY <1>11, <2>2
      DEF Program, Proceed, ConnectFails, EmptyResponse, Configured, WriteSlots,
          ConnectionReset, Timeout, KillProgram
    <3> QED
      BY <1>9, <3>1
  <2> QED
    BY <2>1, <2>2
<1> QED
  BY <1>8, <1>10, <1>11 DEF Next, vars

(* Nobody waits for lines on a connection that the server does not know.   *)
THEOREM ReaderIsAttendedHolds == Spec => []ReaderIsAttended
<1>1. Init => ReaderIsAttended
  BY DEF Init, ReaderIsAttended
<1> QED
  BY <1>1, AttendedStep, Invariance, PTL DEF Spec
-----------------------------------------------------------------------------
(* The refinement of SlotService.  A connection that was closed early was   *)
(* closed by the end of its execution.                                     *)
CompleteInv ==
    \A p \in Programs :
        /\ IsGranted(p) /\ granted[p].run = starts
        /\ Phase = "open" /\ link[p] = "closed"
        => Len(wire[p]) = 3

LEMMA CompleteStep == IInv /\ CompleteInv /\ [Next]_vars => CompleteInv'
<1> SUFFICES ASSUME IInv, CompleteInv, [Next]_vars PROVE CompleteInv'
  OBVIOUS
<1>0. Phase' = "open" => server' \in {"accepting", "serving"}
  <2>1. TypeOK'
    BY TypeStep
  <2> QED
    BY <2>1 DEF Phase, TypeOK
<1> SUFFICES ASSUME NEW p \in Programs,
                    granted'[p].run > 0, granted'[p].run = starts',
                    server' \in {"accepting", "serving"}, link'[p] = "closed"
             PROVE  Len(wire'[p]) = 3
  BY <1>0 DEF CompleteInv, IsGranted
<1> USE DEF serverVars, clientVars
<1>1. CASE /\ UNCHANGED <<granted, starts, link, wire>>
           /\ server \in {"accepting", "serving"}
  BY <1>1 DEF CompleteInv, Phase, IsGranted
<1>2. CASE Listen
  BY <1>2 DEF Listen, IInv, NumbersInv
<1>3. CASE Accept
  <2>1. 1 \in DOMAIN backlog /\ backlog[1] = Head(backlog) /\ backlog[1] \in Programs
    BY <1>3 DEF Accept, IInv, TypeOK
  <2>2. link[backlog[1]] = "open"
    BY <2>1 DEF IInv, BacklogInv
  <2>3. granted'[p] = granted[p] /\ link[p] = "closed"
    BY <1>3, <2>1, <2>2 DEF Accept, IInv, TypeOK
  <2> QED
    BY <1>3, <2>3 DEF Accept, CompleteInv, Phase, IsGranted
<1>4. CASE SendLine
  <2>1. p # conn
    BY <1>4, AllocationAssumption DEF SendLine, IInv, ServingInv
  <2>2. wire'[p] = wire[p]
    BY <1>4, <2>1 DEF SendLine, IInv, TypeOK
  <2> QED
    BY <1>4, <2>2 DEF SendLine, CompleteInv, Phase, IsGranted
<1>5. CASE CloseConn
  <2>1. p # conn => link'[p] = link[p]
    BY <1>5 DEF CloseConn, IInv, TypeOK
  <2> QED
    BY <1>5, <2>1 DEF CloseConn, CompleteInv, Phase, IsGranted
<1>6. ASSUME NEW q \in Programs, Connect(q) PROVE Len(wire'[p]) = 3
  <2>1. link'[q] = "open" /\ \A r \in Programs : r # q => link'[r] = link[r]
    BY <1>6 DEF Connect, IInv, TypeOK
  <2> QED
    BY <1>6, <2>1 DEF Connect, CompleteInv, Phase, IsGranted
<1>7. StartServer \/ AbortConfiguration \/ ServerDies \/ PowerLoss =>
         server' \notin {"accepting", "serving"}
  BY DEF StartServer, AbortConfiguration, ServerDies, PowerLoss
<1>8. ASSUME NEW q \in Programs, Proceed(q) \/ ConnectFails(q) \/ Timeout(q) \/ KillProgram(q)
      PROVE  UNCHANGED <<granted, starts, link, wire, server>>
  BY <1>8 DEF Proceed, EmptyResponse, Configured, WriteSlots, ConnectionReset,
              ConnectFails, Timeout, KillProgram
<1> QED
  BY <1>1, <1>2, <1>3, <1>4, <1>5, <1>6, <1>7, <1>8
  DEF Next, Server, Serve, CrashOnSend, KillServer, Program, vars

LEMMA ServiceCardinality ==
    ASSUME NEW S
    PROVE  Service!Cardinality(S) = Cardinality(S)
  BY DEF Service!Cardinality, Cardinality

(* The counter is the number of connections that the execution accepted.   *)
LEMMA CounterCounts ==
    ASSUME IInv, NoGap, server \in {"accepting", "serving"}
    PROVE  Service!NextNumber = next_node_id
<1> DEFINE S == {q \in DOMAIN Grants : Grants[q].run = starts}
           T == 0 .. next_node_id - 1
           k == [q \in S |-> granted[q].k]
<1>1. starts \in Nat \ {0} /\ next_node_id \in Nat
  BY AllocationAssumption DEF IInv, NumbersInv, TypeOK
<1>2. S = {q \in Programs : granted[q].run = starts}
  BY <1>1 DEF Grants, IsGranted
<1>3. {granted[q].k : q \in S} = T
  BY <1>2 DEF NoGap
<1>4. \A p, q \in S : granted[p].k = granted[q].k => p = q
  BY <1>1, <1>2 DEF IInv, NumbersInv, IsGranted
<1> HIDE DEF S, T
<1>5. k \in [S -> T] /\ \A q \in S : k[q] = granted[q].k
  BY <1>3
<1>6. k \in Injection(S, T)
  BY <1>4, <1>5 DEF Injection, IsInjective
<1>7. k \in Surjection(S, T)
  BY <1>3, <1>5 DEF Surjection
<1> HIDE DEF k
<1>8. IsFiniteSet(T) /\ Cardinality(T) = next_node_id
  BY <1>1, FS_Interval DEF T
<1>9. Cardinality(S) = Cardinality(T)
  BY <1>6, <1>7, <1>8, FS_Injection
<1> QED
  BY <1>8, <1>9, ServiceCardinality DEF Service!NextNumber, S

(* What a program has parsed is what it may obtain: the whole or, if the    *)
(* connection was closed early and the execution is over, its first lines. *)
LEMMA ParsedIsObtainable ==
    ASSUME IInv, CompleteInv, NEW p \in Programs, Configured(p)
    PROVE  /\ p \in DOMAIN Grants \ DOMAIN Holds
           /\ config'[p] \in Service!Obtainable(p)
           /\ \A q \in Programs \ {p} : config'[q] = config[q]
<1>1. AllRead(p) /\ pc[p] = "reading"
  BY DEF Configured, AllRead
<1>2. PICK id \in ReadLine(p, 1) :
         config' = [config EXCEPT ![p] =
                       [id |-> id, s1 |-> ReadLine(p, 2), s2 |-> ReadLine(p, 3)]]
  BY DEF Configured
<1>3. Len(wire[p]) \in 1 .. 3
  <2>1. Len(wire[p]) \in Nat
    BY DEF IInv, TypeOK
  <2>2. 1 <= Len(wire[p])
    BY <1>2 DEF ReadLine
  <2>3. Len(wire[p]) <= 3
    BY DEF IInv, WireInv
  <2>4. \A n \in Nat : 1 <= n /\ n <= 3 => n \in 1 .. 3
    OBVIOUS
  <2> QED
    BY <2>1, <2>2, <2>3, <2>4
<1>4. IsGranted(p) /\ p \in DOMAIN Grants /\ Grants[p] = granted[p]
  <2>1. wire[p] # << >>
    BY <1>3
  <2> QED
    BY <2>1 DEF IInv, WireInv, Grants
<1>5. p \notin DOMAIN Holds
  BY <1>1 DEF Holds, HasConfig
<1>6. \A i \in 1 .. 3 :
         ReadLine(p, i) = IF i <= Len(wire[p]) THEN Line(p, i) ELSE {}
  <2>1. \A i \in 1 .. 3 : i <= Len(wire[p]) => i \in 1 .. Len(wire[p])
    BY <1>3
  <2>2. \A i \in 1 .. Len(wire[p]) : wire[p][i] = Line(p, i)
    BY DEF IInv, WireInv
  <2> QED
    BY <2>1, <2>2 DEF ReadLine
<1>7. /\ Line(p, 1) = {GrantedId(p)}
      /\ Line(p, 2) = GrantedSlots(p).s1
      /\ Line(p, 3) = GrantedSlots(p).s2
  BY DEF Line
<1>8. Service!Id(p) = GrantedId(p) /\ Service!Slots(p) = GrantedSlots(p)
  BY <1>4 DEF Service!Id, Service!Slots, GrantedId, GrantedSlots
<1>9. /\ config'[p] = Service!Obtained(p, ReadLine(p, 2), ReadLine(p, 3))
      /\ \A q \in Programs \ {p} : config'[q] = config[q]
  <2>1. id = GrantedId(p)
    BY <1>2, <1>3, <1>6, <1>7
  <2> QED
    BY <1>2, <1>8, <2>1 DEF IInv, TypeOK, Service!Obtained
<1>10. Phase = "open" /\ granted[p].run = starts => Len(wire[p]) = 3
  BY <1>1, <1>4 DEF AllRead, CompleteInv
<1>11. config'[p] \in Service!Obtainable(p)
  <2>1. CASE Len(wire[p]) = 3
    BY <1>6, <1>7, <1>8, <1>9, <2>1 DEF Service!Obtainable
  <2>2. CASE Len(wire[p]) = 2
    BY <1>4, <1>6, <1>7, <1>8, <1>9, <1>10, <2>2 DEF Service!Obtainable
  <2>3. CASE Len(wire[p]) = 1
    BY <1>4, <1>6, <1>7, <1>8, <1>9, <1>10, <2>3 DEF Service!Obtainable
  <2> QED
    BY <1>3, <2>1, <2>2, <2>3
<1> QED
  BY <1>4, <1>5, <1>9, <1>11

LEMMA ServiceInit == Init => Service!Init
<1> SUFFICES ASSUME Init PROVE Service!Init
  OBVIOUS
<1>1. Phase = "down" /\ starts = 0 /\ plan \in Plans
  BY AllocationAssumption DEF Init, Phase, NoGrant
<1>2. Grants = << >> /\ Holds = << >> /\ ToWrite = {}
  <2>1. DOMAIN Grants = {} /\ DOMAIN Holds = {} /\ ToWrite = {}
    BY DEF Init, Grants, IsGranted, NoGrant, Holds, HasConfig, ToWrite
  <2>2. Grants = [x \in {} |-> 0] /\ Holds = [x \in {} |-> 0]
    BY <2>1 DEF Grants, Holds
  <2> QED
    BY <2>1, <2>2
<1>3. dev = [b \in Stas \cup {AP} |-> Service!NoRecord]
  BY DEF Init, Boards, NoRecord, Service!NoRecord
<1> QED
  BY <1>1, <1>2, <1>3 DEF Service!Init

(* What a step does to the three functions of the service.                 *)
LEMMA ServiceSame ==
    ASSUME IInv
    PROVE  /\ UNCHANGED granted => Grants' = Grants
           /\ (\A p \in Programs : HasConfig(p)' <=> HasConfig(p)) /\ UNCHANGED config
                => Holds' = Holds
<1>1. UNCHANGED granted => Grants' = Grants
  BY DEF Grants, IsGranted
<1>2. ASSUME \A p \in Programs : HasConfig(p)' <=> HasConfig(p), UNCHANGED config
      PROVE  Holds' = Holds
  <2>1. {q \in Programs : HasConfig(q)'} = {q \in Programs : HasConfig(q)}
    BY <1>2
  <2> QED
    BY <1>2, <2>1 DEF Holds
<1> QED
  BY <1>1, <1>2

LEMMA ServiceStep ==
    IInv /\ NoGap /\ CompleteInv /\ [Next]_vars => [Service!Next]_Service!vars
<1> SUFFICES ASSUME IInv, NoGap, CompleteInv, [Next]_vars
             PROVE  Service!Next \/ UNCHANGED Service!vars
  OBVIOUS
<1> USE DEF serverVars, clientVars
<1>1. CASE UNCHANGED vars
  <2>1. UNCHANGED <<Phase, starts, plan, dev, ToWrite>>
    BY <1>1 DEF vars, Phase, ToWrite
  <2>2. UNCHANGED <<Grants, Holds>>
    BY <1>1, ServiceSame DEF vars, HasConfig
  <2> QED
    BY <2>1, <2>2 DEF Service!vars
<1>2. CASE StartServer
  <2>1. UNCHANGED <<Grants, Holds, ToWrite>>
    BY <1>2, ServiceSame DEF StartServer, HasConfig, ToWrite
  <2>2. Phase = "down" /\ Phase' = "configuring"
    BY <1>2 DEF StartServer, Phase
  <2>3. Service!Write(AP, 0, plan'.ap)
    BY <1>2 DEF StartServer, write_to_fpga, Service!Write, Service!Bitmap,
                Service!slots_to_bitmap, Bitmap, slots_to_bitmap, Session1, Session2,
                Service!Session1, Service!Session2
  <2> QED
    BY <1>2, <2>1, <2>2, <2>3 DEF StartServer, Service!Next, Service!Start
<1>3. CASE Listen
  <2>1. UNCHANGED <<Grants, Holds, ToWrite>>
    BY <1>3, ServiceSame DEF Listen, HasConfig, ToWrite
  <2>2. Phase = "configuring" /\ Phase' = "open"
    BY <1>3 DEF Listen, Phase
  <2> QED
    BY <1>3, <2>1, <2>2 DEF Listen, Service!Next, Service!Open
<1>4. CASE AbortConfiguration
  <2>1. UNCHANGED <<Grants, Holds, ToWrite>>
    BY <1>4, ServiceSame DEF AbortConfiguration, HasConfig, ToWrite
  <2>2. Phase = "configuring" /\ Phase' = "down"
    BY <1>4 DEF AbortConfiguration, Phase
  <2> QED
    BY <1>4, <2>1, <2>2 DEF AbortConfiguration, Service!Next, Service!End
<1>5. CASE /\ server \in {"accepting", "serving"}
           /\ ServerDies
  <2>1. UNCHANGED <<Grants, Holds, ToWrite>>
    BY <1>5, ServiceSame DEF ServerDies, HasConfig, ToWrite
  <2>2. Phase = "open" /\ Phase' = "down"
    BY <1>5 DEF ServerDies, Phase
  <2> QED
    BY <1>5, <2>1, <2>2 DEF ServerDies, Service!Next, Service!End
<1>6. CASE PowerLoss
  <2>1. UNCHANGED <<Grants, Holds, ToWrite>>
    BY <1>6, ServiceSame DEF PowerLoss, HasConfig, ToWrite
  <2>2. Phase = "open" /\ Phase' = "down"
    BY <1>6 DEF PowerLoss, Phase
  <2>3. NoRecord = Service!NoRecord
    BY DEF NoRecord, Service!NoRecord
  <2> QED
    BY <1>6, <2>1, <2>2, <2>3 DEF PowerLoss, Service!Next, Service!End
<1>7. CASE Accept
  <2> DEFINE c == Head(backlog)
             g == [run |-> starts, k |-> next_node_id, plan |-> plan]
  <2>1. 1 \in DOMAIN backlog /\ backlog[1] = c /\ c \in Programs
    BY <1>7 DEF Accept, IInv, TypeOK
  <2>2. ~IsGranted(c)
    BY <2>1 DEF IInv, BacklogInv
  <2>3. UNCHANGED <<Holds, ToWrite>>
    BY <1>7, ServiceSame DEF Accept, HasConfig, ToWrite
  <2>4. Phase = "open" /\ Phase' = "open"
    BY <1>7 DEF Accept, Phase
  <2>5. Service!NextNumber = next_node_id
    BY <1>7, CounterCounts DEF Accept
  <2>6. starts > 0
    BY <1>7 DEF Accept, IInv, NumbersInv
  <2> HIDE DEF c
  <2>7. granted'[c] = g /\ \A q \in Programs \ {c} : granted'[q] = granted[q]
    BY <1>7, <2>1 DEF Accept, IInv, TypeOK, c
  <2>8. DOMAIN Grants' = DOMAIN Grants \cup {c} /\ c \notin DOMAIN Grants
    BY <2>1, <2>2, <2>6, <2>7 DEF Grants, IsGranted
  <2>9. Grants' = Service!With(Grants, c, g)
    <3>1. \A q \in DOMAIN Grants' : Grants'[q] = IF q = c THEN g ELSE Grants[q]
      BY <2>7, <2>8 DEF Grants
    <3> QED
      BY <2>8, <3>1 DEF Service!With, Grants
  <2>10. Service!Grant(c)
    BY <1>7, <2>3, <2>4, <2>5, <2>8, <2>9 DEF Accept, Service!Grant
  <2> QED
    BY <2>1, <2>10 DEF Service!Next
<1>8. CASE SendLine \/ CloseConn
  <2>1. UNCHANGED <<Grants, Holds, ToWrite>>
    BY <1>8, ServiceSame DEF SendLine, CloseConn, HasConfig, ToWrite
  <2>2. UNCHANGED Phase
    BY <1>8 DEF SendLine, CloseConn, Phase
  <2> QED
    BY <1>8, <2>1, <2>2 DEF SendLine, CloseConn, Service!vars
<1>9. ASSUME NEW p \in Programs, Program(p)
      PROVE  Service!Next \/ UNCHANGED Service!vars
  <2>1. UNCHANGED <<Grants, Phase, starts, plan>>
    BY <1>9, ServiceSame
    DEF Program, Connect, ConnectFails, Proceed, EmptyResponse, Configured, WriteSlots,
        ConnectionReset, Timeout, KillProgram, Phase
  <2>2. /\ pc'[p] # pc[p] => pc' = [pc EXCEPT ![p] = pc'[p]]
        /\ \A q \in Programs \ {p} : pc'[q] = pc[q]
    BY <1>9
    DEF Program, Connect, ConnectFails, Proceed, EmptyResponse, Configured, WriteSlots,
        ConnectionReset, Timeout, KillProgram, IInv, TypeOK
  <2>3. CASE Configured(p)
    <3> DEFINE a == config'[p]
    <3>1. /\ p \in DOMAIN Grants \ DOMAIN Holds
          /\ a \in Service!Obtainable(p)
          /\ \A q \in Programs \ {p} : config'[q] = config[q]
      BY <2>3, ParsedIsObtainable
    <3>2. /\ pc[p] = "reading" /\ UNCHANGED dev
          /\ pc'[p] = IF Kind[p] = "cli" THEN "writing" ELSE "done"
      BY <2>3 DEF Configured, AllRead, IInv, TypeOK
    <3>3. DOMAIN Holds' = DOMAIN Holds \cup {p}
      BY <2>2, <3>2 DEF Holds, HasConfig
    <3> HIDE DEF a
    <3>4. Holds' = Service!With(Holds, p, a)
      <4>1. \A q \in DOMAIN Holds' : Holds'[q] = IF q = p THEN a ELSE Holds[q]
        BY <3>1, <3>3 DEF Holds, a
      <4> QED
        BY <3>3, <4>1 DEF Service!With, Holds
    <3>5. ToWrite' = ToWrite \cup ({p} \cap Writers)
      BY <2>2, <3>2 DEF ToWrite, Writers
    <3> QED
      BY <2>1, <3>1, <3>2, <3>4, <3>5 DEF Service!Next, Service!Obtain
  <2>4. CASE WriteSlots(p)
    <3>1. pc[p] = "writing" /\ pc'[p] = "done" /\ UNCHANGED config
      BY <2>4 DEF WriteSlots, IInv, TypeOK
    <3>2. UNCHANGED Holds
      BY <2>2, <3>1, ServiceSame DEF HasConfig
    <3>3. p \in ToWrite /\ ToWrite' = ToWrite \ {p}
      BY <2>2, <3>1 DEF ToWrite
    <3>4. Holds[p] = config[p]
      BY <3>1 DEF Holds, HasConfig
    <3>5. Service!Write(Board[p], Holds[p].id, Holds[p])
      BY <2>4, <3>4
      DEF WriteSlots, write_to_fpga, Service!Write, Service!Bitmap,
          Service!slots_to_bitmap, slots_to_bitmap, Session1, Session2,
          Service!Session1, Service!Session2
    <3> QED
      BY <2>1, <3>2, <3>3, <3>5 DEF Service!Next, Service!WriteSlots
  <2>5. CASE KillProgram(p) /\ pc[p] = "writing"
    <3>1. pc'[p] = "failed" /\ UNCHANGED <<config, dev>>
      BY <2>5 DEF KillProgram, IInv, TypeOK
    <3>2. p \in ToWrite /\ ToWrite' = ToWrite \ {p}
      BY <2>2, <2>5, <3>1 DEF ToWrite
    <3>3. DOMAIN Holds' = DOMAIN Holds \ {p}
      BY <2>2, <3>1 DEF Holds, HasConfig
    <3>4. Holds' = [q \in DOMAIN Holds \ {p} |-> Holds[q]]
      <4>1. \A q \in DOMAIN Holds' : Holds'[q] = Holds[q]
        BY <3>1, <3>3 DEF Holds
      <4> QED
        BY <3>3, <4>1 DEF Holds
    <3> QED
      BY <2>1, <3>1, <3>2, <3>4 DEF Service!Next, Service!Quit
  <2>6. CASE /\ pc[p] \in {"idle", "reading"}
             /\ pc'[p] \in {"reading", "failed"}
             /\ UNCHANGED <<config, dev>>
    <3>1. UNCHANGED Holds
      BY <2>2, <2>6, ServiceSame DEF HasConfig
    <3>2. UNCHANGED ToWrite
      BY <2>2, <2>6 DEF ToWrite
    <3> QED
      BY <2>1, <2>6, <3>1, <3>2 DEF Service!vars
  <2>7. Connect(p) \/ ConnectFails(p) \/ EmptyResponse(p) \/ ConnectionReset(p)
          \/ Timeout(p) \/ (KillProgram(p) /\ pc[p] # "writing")
          => /\ pc[p] \in {"idle", "reading"}
             /\ pc'[p] \in {"reading", "failed"}
             /\ UNCHANGED <<config, dev>>
    BY DEF Connect, ConnectFails, EmptyResponse, ConnectionReset, Timeout, KillProgram,
           AllRead, IInv, TypeOK
  <2> QED
    BY <1>9, <2>3, <2>4, <2>5, <2>6, <2>7 DEF Program, Proceed
<1> QED
  BY <1>1, <1>2, <1>3, <1>4, <1>5, <1>6, <1>7, <1>8, <1>9
  DEF Next, Server, Serve, CrashOnSend, KillServer

(* The server, the connections and the programs that read from them        *)
(* implement the service: numbers are handed out in the order of the       *)
(* grants, and whatever dies, is cut or times out, a program obtains what  *)
(* the plan has for its number, once, and less only after the end of the   *)
(* execution that granted it.                                              *)
THEOREM ServiceImplements == Spec => ServiceImplemented
<1>1. Init => NoGap
  BY DEF Init, NoGap
<1>2. Init => CompleteInv
  BY DEF Init, CompleteInv, IsGranted, NoGrant
<1> QED
  BY <1>1, <1>2, ServiceInit, ServiceStep, CompleteStep, NoGapStep, Invariance, PTL
  DEF Spec, ServiceImplemented, Service!Spec
=============================================================================
