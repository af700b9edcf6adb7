--------------------------- MODULE TdmaAllocation ---------------------------
(***************************************************************************)
(* Slot allocation: TDMA_server.py on the AP hands out slot assignments    *)
(* over TCP to TDMA_client.py, to TDMAClient of tdma_api.py and to         *)
(* TDMAManagementClient of tdma_bridge.py, which run on the STAs.          *)
(*                                                                         *)
(* One element of Programs is ONE execution of a configuring program (for  *)
(* the API: one call of connect_and_configure).  Several programs may run  *)
(* on one board.  The server can be stopped and started again, each time   *)
(* with another plan typed in by the operator.                             *)
(*                                                                         *)
(* TCP is external: a connection delivers the lines the server sent, in    *)
(* order, to a program that is still there; it ends by an orderly close    *)
(* (also when the server process dies after accept), by a reset (the       *)
(* server dies with the connection in its listen queue), or goes silent    *)
(* (the AP loses power).                                                   *)
(***************************************************************************)
EXTENDS SlotBitmap, Sequences, SequencesExt

CONSTANTS
    Programs,      \* executions of configuring programs
    Stas,          \* boards of the stations
    AP,            \* the board of the access point
    Board,         \* Board[p]: the STA program p runs on
    Kind,          \* Kind[p]: "cli", "api" or "bridge"
    NoProgram,     \* no connection is being served
    Plans,         \* what an operator may type into the server
    Backlog,       \* length of the server's listen queue
    MaxStarts      \* bound: executions of the server

Boards == Stas \cup {AP}

(* The operator's input: the AP's slots, num_clients and sta_configs.      *)
IsPlan(pl) ==
    /\ pl.ap \in Assignments
    /\ pl.num_clients \in Nat \ {0}
    /\ pl.sta_configs \in [0 .. pl.num_clients - 1 -> Assignments]

ASSUME AllocationAssumption ==
    /\ AP \notin Stas
    /\ Board \in [Programs -> Stas]
    /\ Kind \in [Programs -> {"cli", "api", "bridge"}]
    /\ NoProgram \notin Programs
    /\ Plans # {} /\ \A pl \in Plans : IsPlan(pl)
    /\ Backlog \in Nat \ {0}
    /\ MaxStarts \in Nat

VARIABLES
    server,        \* "down", "configuring", "accepting" or "serving"
    starts,        \* number of times the server was started
    plan,          \* what the operator types into the running server
    next_node_id,  \* the server's counter
    conn,          \* the program whose connection the server is serving
    backlog,       \* connections established but not yet accepted
    link,          \* link[p]: state of p's connection as p can observe it
    wire,          \* wire[p]: the lines the server sent to p
    pc,            \* pc[p]: where program p is
    config,        \* config[p]: [id, s1, s2] as p parsed it
    dev,           \* dev[b]: [user_ID, allo_vec] held by /dev/my_misc of b
    granted        \* history: granted[p] = [run, k, plan] at p's accept

serverVars == <<server, starts, plan, next_node_id, conn, backlog>>
clientVars == <<pc, config>>
vars == <<server, starts, plan, next_node_id, conn, backlog, link, wire, pc,
          config, dev, granted>>

NoConfig == [id |-> 0, s1 |-> {}, s2 |-> {}]
NoRecord == [user_ID |-> 0, allo_vec |-> {}]
NoGrant  == [run |-> 0, k |-> 0, plan |-> CHOOSE pl \in Plans : TRUE]

(* The id the server computed when it accepted p, and its assignment.      *)
GrantedId(p) == granted[p].k % granted[p].plan.num_clients
GrantedSlots(p) == granted[p].plan.sta_configs[GrantedId(p)]
IsGranted(p) == granted[p].run > 0

Init ==
    /\ server = "down"
    /\ starts = 0
    /\ plan = NoGrant.plan
    /\ next_node_id = 0
    /\ conn = NoProgram
    /\ backlog = <<>>
    /\ link = [p \in Programs |-> "none"]
    /\ wire = [p \in Programs |-> <<>>]
    /\ pc = [p \in Programs |-> "idle"]
    /\ config = [p \in Programs |-> NoConfig]
    /\ dev = [b \in Boards |-> NoRecord]
    /\ granted = [p \in Programs |-> NoGrant]

-----------------------------------------------------------------------------
(* Mutation: the slots are or'ed to those that the device holds already.   *)
write_to_fpga_adds(b, node_id, bitmap) ==
    \/ dev' = [dev EXCEPT ![b] = [user_ID |-> node_id,
                                  allo_vec |-> @.allo_vec \cup bitmap]]
    \/ UNCHANGED dev

(* write_to_fpga runs userapp and only prints when that fails (the device  *)
(* is busy, the module is not loaded): the caller goes on either way.      *)
write_to_fpga(b, node_id, bitmap) ==
    \/ dev' = [dev EXCEPT ![b] = [user_ID |-> node_id, allo_vec |-> bitmap]]
    \/ UNCHANGED dev

(* main up to the first write: the operator starts the server and types in *)
(* the AP's slots, which are written to the AP's device at once.           *)
StartServer ==
    /\ server = "down"
    /\ starts < MaxStarts
    /\ starts' = starts + 1
    /\ plan' \in Plans
    /\ server' = "configuring"
    /\ write_to_fpga(AP, 0, Bitmap(plan'.ap))
    /\ UNCHANGED <<next_node_id, conn, backlog, link, wire, clientVars, granted>>

(* A number of clients below 1, an index out of range or a failed bind     *)
(* ends the server, with the AP's slots already in force.                  *)
AbortConfiguration ==
    /\ server = "configuring"
    /\ server' = "down"
    /\ UNCHANGED <<starts, plan, next_node_id, conn, backlog, link, wire,
                   clientVars, dev, granted>>

(* Mutation: the counter survives from the previous execution.             *)
ListenKeepsCounter ==
    /\ server = "configuring"
    /\ server' = "accepting"
    /\ UNCHANGED <<starts, plan, next_node_id, conn, backlog, link, wire,
                   clientVars, dev, granted>>

(* The STA configurations are complete: bind, listen(5).                   *)
Listen ==
    /\ server = "configuring"
    /\ server' = "accepting"
    /\ next_node_id' = 0
    /\ UNCHANGED <<starts, plan, conn, backlog, link, wire, clientVars, dev,
                   granted>>

(* Mutation: the counter is never advanced.                                *)
AcceptSameNumber ==
    /\ server = "accepting"
    /\ backlog # <<>>
    /\ conn' = Head(backlog)
    /\ backlog' = Tail(backlog)
    /\ granted' = [granted EXCEPT ![Head(backlog)] =
                       [run |-> starts, k |-> next_node_id, plan |-> plan]]
    /\ server' = "serving"
    /\ UNCHANGED <<starts, plan, next_node_id, link, wire, clientVars, dev>>

(* server.accept() and the counter: an id is used up whether or not the    *)
(* program that connected is still there.                                  *)
Accept ==
    /\ server = "accepting"
    /\ backlog # <<>>
    /\ conn' = Head(backlog)
    /\ backlog' = Tail(backlog)
    /\ next_node_id' = next_node_id + 1
    /\ granted' = [granted EXCEPT ![Head(backlog)] =
                       [run |-> starts, k |-> next_node_id, plan |-> plan]]
    /\ server' = "serving"
    /\ UNCHANGED <<starts, plan, link, wire, clientVars, dev>>

Present(p) == pc[p] = "reading"

(* Mutation: ids are printed from 1 but stored from 0, or read back so.    *)
LineShifted(p, i) == CASE i = 1 -> {GrantedId(p) - 1}
                       [] i = 2 -> GrantedSlots(p).s1
                       [] i = 3 -> GrantedSlots(p).s2

(* Mutation: the two slot lines are sent in the wrong order.               *)
LineSwapped(p, i) == CASE i = 1 -> {GrantedId(p)}
                       [] i = 2 -> GrantedSlots(p).s2
                       [] i = 3 -> GrantedSlots(p).s1

(* The three lines.  A line is the set of the integers in it: the node id  *)
(* alone, or a slot list, which may be empty.                              *)
Line(p, i) == CASE i = 1 -> {GrantedId(p)}
                [] i = 2 -> GrantedSlots(p).s1
                [] i = 3 -> GrantedSlots(p).s2

(* One conn.sendall.  To a program that is gone it still succeeds; the     *)
(* line is lost.                                                           *)
SendLine ==
    /\ server = "serving"
    /\ Len(wire[conn]) < 3
    /\ wire' = [wire EXCEPT ![conn] = Append(@, Line(conn, Len(@) + 1))]
    /\ UNCHANGED <<serverVars, link, clientVars, dev, granted>>

CloseConn ==
    /\ server = "serving"
    /\ Len(wire[conn]) = 3
    /\ link' = [link EXCEPT ![conn] = "closed"]
    /\ conn' = NoProgram
    /\ server' = "accepting"
    /\ UNCHANGED <<starts, plan, next_node_id, backlog, wire, clientVars, dev,
                   granted>>

(* Mutation: queued connections are left open when the server ends.        *)
ServerDiesQuietly ==
    /\ server' = "down"
    /\ link' = [p \in Programs |-> IF p = conn THEN "closed" ELSE link[p]]
    /\ conn' = NoProgram
    /\ backlog' = <<>>
    /\ UNCHANGED <<starts, plan, next_node_id, wire, clientVars, dev, granted>>

(* The server process ends: the connection being served is closed by the   *)
(* kernel after the lines already sent, those in the queue are reset.      *)
ServerDies ==
    /\ server' = "down"
    /\ link' = [p \in Programs |-> IF p = conn THEN "closed"
                                   ELSE IF p \in ToSet(backlog) THEN "reset"
                                   ELSE link[p]]
    /\ conn' = NoProgram
    /\ backlog' = <<>>
    /\ UNCHANGED <<starts, plan, next_node_id, wire, clientVars, dev, granted>>

(* sendall raises when the peer's reset has arrived, which takes an earlier *)
(* line that was sent to nobody; main does not catch it.                   *)
CrashOnSend ==
    /\ server = "serving"
    /\ ~Present(conn)
    /\ Len(wire[conn]) \in 1 .. 2
    /\ ServerDies

(* Ctrl-C or kill of the server.                                           *)
KillServer == server \in {"accepting", "serving"} /\ ServerDies

(* The AP loses power: nobody is told, and its device loses its content.   *)
PowerLoss ==
    /\ server \in {"accepting", "serving"}
    /\ server' = "down"
    /\ link' = [p \in Programs |-> IF p = conn \/ p \in ToSet(backlog)
                                   THEN "silent" ELSE link[p]]
    /\ conn' = NoProgram
    /\ backlog' = <<>>
    /\ dev' = [dev EXCEPT ![AP] = NoRecord]
    /\ UNCHANGED <<starts, plan, next_node_id, wire, clientVars, granted>>

-----------------------------------------------------------------------------
(* connect succeeds as soon as the listen queue has room, long before the  *)
(* server accepts.                                                         *)
Connect(p) ==
    /\ pc[p] = "idle"
    /\ server \in {"accepting", "serving"}
    /\ Len(backlog) < Backlog
    /\ backlog' = Append(backlog, p)
    /\ link' = [link EXCEPT ![p] = "open"]
    /\ pc' = [pc EXCEPT ![p] = "reading"]
    /\ UNCHANGED <<server, starts, plan, next_node_id, conn, wire, config, dev,
                   granted>>

(* Nobody listens (refused), or the listen queue stays full (timed out).   *)
ConnectFails(p) ==
    /\ pc[p] = "idle"
    /\ server \in {"down", "configuring"} \/ Len(backlog) >= Backlog
    /\ pc' = [pc EXCEPT ![p] = "failed"]
    /\ UNCHANGED <<serverVars, link, wire, config, dev, granted>>

(* The three readlines are complete: every line has arrived or the         *)
(* connection is closed.                                                   *)
AllRead(p) ==
    /\ pc[p] = "reading"
    /\ Len(wire[p]) = 3 \/ link[p] = "closed"

(* Mutation: the last line is dropped with its missing newline.            *)
ReadLineShort(p, i) == IF i < Len(wire[p]) THEN wire[p][i] ELSE {}

(* A line after the end of the stream reads as the empty string, which     *)
(* parse_slot_line takes for an empty slot list.                           *)
ReadLine(p, i) == IF i <= Len(wire[p]) THEN wire[p][i] ELSE {}

(* No node id line: TDMA_client.py prints an error, the others say False.  *)
EmptyResponse(p) ==
    /\ AllRead(p)
    /\ ReadLine(p, 1) = {}
    /\ pc' = [pc EXCEPT ![p] = "failed"]
    /\ UNCHANGED <<serverVars, link, wire, config, dev, granted>>

(* The response is parsed.  The API and the bridge are done with that;     *)
(* TDMA_client.py has the bitmap still to write.                           *)
Configured(p) ==
    /\ AllRead(p)
    /\ \E id \in ReadLine(p, 1) :
          config' = [config EXCEPT ![p] =
                        [id |-> id, s1 |-> ReadLine(p, 2), s2 |-> ReadLine(p, 3)]]
    /\ pc' = [pc EXCEPT ![p] = IF Kind[p] = "cli" THEN "writing" ELSE "done"]
    /\ UNCHANGED <<serverVars, link, wire, dev, granted>>

(* write_to_fpga of TDMA_client.py, which exits with 0 whatever happened.  *)
WriteSlots(p) ==
    /\ pc[p] = "writing"
    /\ write_to_fpga(Board[p], config[p].id,
                     slots_to_bitmap(config[p].s1, config[p].s2))
    /\ pc' = [pc EXCEPT ![p] = "done"]
    /\ UNCHANGED <<serverVars, link, wire, config, granted>>

(* recv raises: the connection was reset.                                  *)
ConnectionReset(p) ==
    /\ pc[p] = "reading"
    /\ link[p] = "reset"
    /\ pc' = [pc EXCEPT ![p] = "failed"]
    /\ UNCHANGED <<serverVars, link, wire, config, dev, granted>>

(* Mutation: settimeout covers connect only.                               *)
TimeoutConnecting(p) ==
    /\ pc[p] = "reading"
    /\ Kind[p] # "cli"
    /\ p \in ToSet(backlog)
    /\ pc' = [pc EXCEPT ![p] = "failed"]
    /\ UNCHANGED <<serverVars, link, wire, config, dev, granted>>

(* The API and the bridge set a timeout of 10 s on the socket; the server  *)
(* is not told that they gave up.                                          *)
Timeout(p) ==
    /\ pc[p] = "reading"
    /\ Kind[p] # "cli"
    /\ pc' = [pc EXCEPT ![p] = "failed"]
    /\ UNCHANGED <<serverVars, link, wire, config, dev, granted>>

(* The user interrupts the program before it has written anything.         *)
KillProgram(p) ==
    /\ pc[p] \in {"reading", "writing"}
    /\ pc' = [pc EXCEPT ![p] = "failed"]
    /\ UNCHANGED <<serverVars, link, wire, config, dev, granted>>

-----------------------------------------------------------------------------
Serve == Accept \/ SendLine \/ CloseConn

Server == StartServer \/ AbortConfiguration \/ Listen \/ Serve
            \/ CrashOnSend \/ KillServer \/ PowerLoss

Proceed(p) == EmptyResponse(p) \/ Configured(p) \/ WriteSlots(p) \/ ConnectionReset(p)

Program(p) == Connect(p) \/ ConnectFails(p) \/ Proceed(p) \/ Timeout(p) \/ KillProgram(p)

Next == Server \/ \E p \in Programs : Program(p)

Spec == Init /\ [][Next]_vars

(* The server loop and the programs are scheduled by their systems; the    *)
(* timeout of a socket elapses.  Nobody has to start or kill anything.     *)
Fairness ==
    /\ WF_vars(Serve \/ CrashOnSend)
    /\ \A p \in Programs : WF_vars(Proceed(p)) /\ WF_vars(Timeout(p))

FairSpec == Spec /\ Fairness

-----------------------------------------------------------------------------
Records == [user_ID : Nat, allo_vec : SUBSET DriverBits]

TypeOK ==
    /\ server \in {"down", "configuring", "accepting", "serving"}
    /\ starts \in 0 .. MaxStarts
    /\ plan \in Plans
    /\ next_node_id \in Nat
    /\ conn \in Programs \cup {NoProgram}
    /\ backlog \in Seq(Programs)
    /\ link \in [Programs -> {"none", "open", "closed", "reset", "silent"}]
    /\ wire \in [Programs -> Seq(SUBSET Nat)]
    /\ pc \in [Programs -> {"idle", "reading", "writing", "done", "failed"}]
    /\ config \in [Programs -> [id : Nat, s1 : SUBSET Nat, s2 : SUBSET Nat]]
    /\ dev \in [Boards -> Records]
    /\ granted \in [Programs -> [run : 0 .. MaxStarts, k : Nat, plan : Plans]]

(* A plan that gives no slot to two nodes.  The server does not demand it. *)
DisjointPlan(pl) ==
    /\ \A i, j \in 0 .. pl.num_clients - 1 :
          i # j => DisjointAssignments(pl.sta_configs[i], pl.sta_configs[j])
    /\ \A i \in 0 .. pl.num_clients - 1 :
          DisjointAssignments(pl.ap, pl.sta_configs[i])

(* p and q were accepted by the same server execution, and the counter did *)
(* not wrap around between them.                                           *)
SameRound(p, q) ==
    /\ IsGranted(p) /\ IsGranted(q)
    /\ granted[p].run = granted[q].run
    /\ granted[p].k \div granted[p].plan.num_clients
         = granted[q].k \div granted[q].plan.num_clients

HasConfig(p) == pc[p] \in {"writing", "done"}

(* However a session ended (a truncated stream, a dying server), a program *)
(* never believes to own a slot that the operator did not give to the id   *)
(* it reports, and that id was its own: readline's silent end of file and  *)
(* the empty line mean the same to it.                                     *)
NeverMoreThanGranted ==
    \A p \in Programs : HasConfig(p) =>
        /\ IsGranted(p)
        /\ config[p].id = GrantedId(p)
        /\ config[p].s1 \subseteq GrantedSlots(p).s1
        /\ config[p].s2 \subseteq GrantedSlots(p).s2

(* A program that the server served to the end has its whole assignment.   *)
FullyServedIsComplete ==
    \A p \in Programs : HasConfig(p) /\ Len(wire[p]) = 3 =>
        /\ config[p].s1 = GrantedSlots(p).s1
        /\ config[p].s2 = GrantedSlots(p).s2

(* Two programs configured by the same server execution, the counter not   *)
(* having wrapped between them, never hold a slot in common, if the plan   *)
(* gives none to two nodes: whatever died, timed out or was truncated.     *)
SameRoundNoOverlap ==
    \A p, q \in Programs :
        /\ p # q
        /\ HasConfig(p) /\ HasConfig(q)
        /\ SameRound(p, q)
        /\ DisjointPlan(granted[p].plan)
        => DisjointAssignments(config[p], config[q])

(* The medium: while the server has been started once and has accepted no  *)
(* more connections than there are STA ids, no two boards (the AP's        *)
(* included) have a driver bit in common.                                  *)
FirstRoundMediumExclusive ==
    (starts = 1 /\ DisjointPlan(plan) /\ next_node_id <= plan.num_clients) =>
        \A b, c \in Boards :
            b # c => dev[b].allo_vec \cap dev[c].allo_vec = {}

(* Each of a server execution's accepts took the next number, and nobody   *)
(* was given the number of another: ids come in order of arrival.          *)
NumbersHandedOutOnce ==
    /\ \A p, q \in Programs :
          p # q /\ IsGranted(p) /\ granted[p].run = granted[q].run
            => granted[p].k # granted[q].k
    /\ server \in {"accepting", "serving"} =>
          {granted[p].k : p \in {r \in Programs : granted[r].run = starts}}
            = 0 .. next_node_id - 1

(* A program that waits for lines is known to the server, queued or being  *)
(* served, until its connection ends in a way it may notice: no program    *)
(* hangs on a connection that nobody will ever serve or close.             *)
ReaderIsAttended ==
    \A p \in Programs : pc[p] = "reading" =>
        /\ link[p] # "none"
        /\ link[p] = "open" <=> (p = conn \/ p \in ToSet(backlog))

(* What the device of a station holds was put there by a program of that   *)
(* station under the id that this very program was given, and has no slot  *)
(* outside that id's: concurrent programs, truncated sessions and restarts *)
(* of the server never mix the id of one with the slots of another.        *)
DeviceFromOwnGrant ==
    \A b \in Stas : dev[b] # NoRecord =>
        \E p \in Programs :
            /\ Board[p] = b /\ Kind[p] = "cli" /\ IsGranted(p)
            /\ dev[b].user_ID = GrantedId(p)
            /\ dev[b].allo_vec \subseteq Bitmap(GrantedSlots(p))

(* Every program that connected comes to an end; TDMA_client.py, which has *)
(* no timeout, unless the AP lost power under it.                          *)
ConfigurationEnds ==
    \A p \in Programs :
        pc[p] = "reading" ~> (pc[p] # "reading"
                                \/ (Kind[p] = "cli" /\ link[p] = "silent"))

(* The claim of --robot-id ("Unique robot ID for slot assignment") and of  *)
(* TDMA_server.py ("assigns logical TDMA slots to the AP and each STA"):   *)
(* two boards never end up with a slot in common when every program is run *)
(* once, as the quick start says.  The server counts connections, not      *)
(* stations, and the bridge's connection counts too.                       *)
StationsDoNotShareSlots ==
    \A p, q \in Programs :
        /\ HasConfig(p) /\ HasConfig(q)
        /\ Board[p] # Board[q]
        /\ DisjointPlan(plan)
        => DisjointAssignments(config[p], config[q])

(* What the code does is what SlotService promises: its grants, what the   *)
(* programs have parsed and what is in the devices are those of a service  *)
(* without connections, where an assignment is obtained in one step, and   *)
(* whole unless the execution that granted it is over.                     *)
Phase == IF server \in {"accepting", "serving"} THEN "open" ELSE server
Grants == [p \in {q \in Programs : IsGranted(q)} |-> granted[p]]
Holds == [p \in {q \in Programs : HasConfig(q)} |-> config[p]]
ToWrite == {p \in Programs : pc[p] = "writing"}
Writers == {p \in Programs : Kind[p] = "cli"}

Service == INSTANCE SlotService WITH
    server <- Phase, run <- starts, grant <- Grants, held <- Holds,
    pending <- ToWrite

ServiceImplemented == Service!Spec

-----------------------------------------------------------------------------
(* The inductive invariant behind the safety properties.                   *)

(* Numbers given out by the present execution are below its counter, and   *)
(* within one execution they differ and belong to one plan.                *)
NumbersInv ==
    /\ server # "down" => starts > 0
    /\ \A p \in Programs : granted[p].run <= starts
    /\ \A p \in Programs : granted[p].run = starts /\ starts > 0 =>
          /\ server # "configuring"
          /\ granted[p].k < next_node_id
          /\ granted[p].plan = plan
    /\ \A p, q \in Programs :
          p # q /\ IsGranted(p) /\ granted[p].run = granted[q].run =>
            /\ granted[p].k # granted[q].k
            /\ granted[p].plan = granted[q].plan

(* A queued connection belongs to one program that nobody has served.      *)
BacklogInv ==
    /\ server \in {"down", "configuring"} => backlog = <<>>
    /\ \A i \in DOMAIN backlog :
          /\ pc[backlog[i]] \in {"reading", "failed"}
          /\ link[backlog[i]] = "open"
          /\ wire[backlog[i]] = <<>>
          /\ ~IsGranted(backlog[i])
    /\ \A i, j \in DOMAIN backlog : backlog[i] = backlog[j] => i = j

(* The connection being served is open, and its program has its number.    *)
ServingInv ==
    /\ server = "serving" <=> conn # NoProgram
    /\ conn # NoProgram =>
          /\ IsGranted(conn)
          /\ link[conn] = "open"
          /\ pc[conn] # "idle"
    /\ \A p \in Programs : pc[p] = "idle" =>
          ~IsGranted(p) /\ wire[p] = <<>> /\ link[p] = "none"

(* What was sent to a program are the first lines of its own assignment.   *)
WireInv ==
    \A p \in Programs :
        /\ Len(wire[p]) <= 3
        /\ wire[p] # <<>> => IsGranted(p)
        /\ \A i \in 1 .. Len(wire[p]) : wire[p][i] = Line(p, i)

(* What a program has parsed are the lines that were sent to it, and no    *)
(* line can follow.  Only TDMA_client.py goes on to write them.            *)
ConfigInv ==
    /\ \A p \in Programs : HasConfig(p) =>
          /\ Len(wire[p]) = 3 \/ link[p] = "closed"
          /\ wire[p] # <<>>
          /\ config[p].id = GrantedId(p)
          /\ config[p].s1 = ReadLine(p, 2)
          /\ config[p].s2 = ReadLine(p, 3)
    /\ \A p \in Programs : pc[p] = "writing" => Kind[p] = "cli"

(* While only one execution has happened the AP's device holds no slot     *)
(* outside the plan's.                                                     *)
ApDeviceInv ==
    /\ starts = 0 => dev[AP].allo_vec = {}
    /\ starts <= 1 => dev[AP].allo_vec \subseteq Bitmap(plan.ap)

IInv == /\ TypeOK /\ NumbersInv /\ BacklogInv /\ ServingInv /\ WireInv
        /\ ConfigInv /\ DeviceFromOwnGrant /\ ApDeviceInv
=============================================================================
