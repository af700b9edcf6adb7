--------------------------- MODULE EchoMeasurement --------------------------
(***************************************************************************)
(* One latency measurement: UDP_echo_client.py on a STA, UDP_echo_server.py *)
(* on the AP, the datagrams between them, and the orchestrator's reading   *)
(* of the client's log.                                                    *)
(*                                                                         *)
(* A datagram is the number of the request it carries and the number of    *)
(* the copy it is (0 for the one that was sent).  The network is external: *)
(* it loses, delays, reorders and duplicates datagrams, the last at most   *)
(* MaxCopies times.  Clocks are left out.  What depends on them is free:   *)
(* recvfrom may time out whenever nothing has arrived, and an answer may   *)
(* be early or late for the deadline.                                      *)
(***************************************************************************)
EXTENDS Integers, Sequences, FiniteSets

CONSTANTS
    Count,      \* --count
    RcvBuf,     \* datagrams that the client's socket buffers
    MaxCopies,  \* bound: duplications by the network
    NoReply     \* stands for the rtt_ms of -1 of a timeout

Datagrams == [seq : Nat, copy : Nat]

ASSUME EchoAssumption ==
    /\ Count \in Nat
    /\ RcvBuf \in Nat \ {0}
    /\ MaxCopies \in Nat
    /\ NoReply \notin Datagrams

VARIABLES
    deadline,         \* --deadline > 0
    pc,               \* where the client is
    seq,              \* its loop variable
    sent,             \* its counters
    received,
    missed_deadline,
    got,              \* the datagram it has received: [reply, late]
    results,          \* its rows: [seq, reply, missed]
    log,              \* the CSV file, once it is written
    requests,         \* datagrams on their way to the server
    replies,          \* datagrams on their way to the client
    rcvbuf,           \* datagrams in the client's socket
    copies,           \* duplications so far
    server,           \* where the server is
    echoed            \* its counter

counters == <<sent, received, missed_deadline>>
clientVars == <<deadline, pc, seq, counters, got, results, log>>
netVars == <<requests, replies, rcvbuf, copies>>
serverVars == <<server, echoed>>
vars == <<clientVars, netVars, serverVars>>

Nothing == [reply |-> NoReply, late |-> TRUE]

Init ==
    /\ deadline \in BOOLEAN
    /\ pc = "loop"
    /\ seq = 0
    /\ sent = 0 /\ received = 0 /\ missed_deadline = 0
    /\ got = Nothing
    /\ results = <<>>
    /\ log = <<>>
    /\ requests = {} /\ replies = {} /\ rcvbuf = <<>> /\ copies = 0
    /\ server = "ready"
    /\ echoed = 0

-----------------------------------------------------------------------------
(* The client.                                                             *)

(* Mutation: the loop runs once more than --count says.                    *)
SendtoOnceMore ==
    /\ pc = "loop"
    /\ seq <= Count
    /\ requests' = requests \cup {[seq |-> seq, copy |-> 0]}
    /\ pc' = "sent"
    /\ UNCHANGED <<deadline, seq, counters, got, results, log, replies, rcvbuf,
                   copies, serverVars>>

Sendto ==
    /\ pc = "loop"
    /\ seq < Count
    /\ requests' = requests \cup {[seq |-> seq, copy |-> 0]}
    /\ pc' = "sent"
    /\ UNCHANGED <<deadline, seq, counters, got, results, log, replies, rcvbuf,
                   copies, serverVars>>

(* An OSError of sendto ends the program without a log.                    *)
SendtoFails ==
    /\ pc = "loop"
    /\ seq < Count
    /\ pc' = "crashed"
    /\ UNCHANGED <<deadline, seq, counters, got, results, log, netVars, serverVars>>

CountSent ==
    /\ pc = "sent"
    /\ sent' = sent + 1
    /\ pc' = "waiting"
    /\ UNCHANGED <<deadline, seq, received, missed_deadline, got, results, log,
                   netVars, serverVars>>

(* Mutation: the datagram is looked at, but left in the buffer.            *)
ReceivePeek ==
    /\ pc = "waiting"
    /\ rcvbuf # <<>>
    /\ \E late \in BOOLEAN : got' = [reply |-> Head(rcvbuf), late |-> deadline /\ late]
    /\ pc' = "received"
    /\ UNCHANGED <<deadline, seq, counters, results, log, netVars, serverVars>>

(* recvfrom takes what is there: the number in it is never looked at.      *)
Receive ==
    /\ pc = "waiting"
    /\ rcvbuf # <<>>
    /\ rcvbuf' = Tail(rcvbuf)
    /\ \E late \in BOOLEAN : got' = [reply |-> Head(rcvbuf), late |-> deadline /\ late]
    /\ pc' = "received"
    /\ UNCHANGED <<deadline, seq, counters, results, log, requests, replies,
                   copies, serverVars>>

CountReceived ==
    /\ pc = "received"
    /\ received' = received + 1
    /\ pc' = "counted"
    /\ UNCHANGED <<deadline, seq, sent, missed_deadline, got, results, log,
                   netVars, serverVars>>

CountMissed ==
    /\ pc = "counted"
    /\ missed_deadline' = missed_deadline + (IF got.late THEN 1 ELSE 0)
    /\ pc' = "checked"
    /\ UNCHANGED <<deadline, seq, sent, received, got, results, log, netVars,
                   serverVars>>

AppendRow ==
    /\ pc = "checked"
    /\ results' = Append(results,
                         [seq |-> seq, reply |-> got.reply, missed |-> got.late])
    /\ got' = Nothing
    /\ pc' = "pause"
    /\ UNCHANGED <<deadline, seq, counters, log, netVars, serverVars>>

(* Mutation: a timeout starts the wait anew.                               *)
WaitAgain ==
    /\ pc = "waiting"
    /\ rcvbuf = <<>>
    /\ UNCHANGED vars

(* Mutation: the row of a timeout is left out.                             *)
TimeoutWithoutRow ==
    /\ pc = "waiting"
    /\ rcvbuf = <<>>
    /\ pc' = "timedout"
    /\ UNCHANGED <<deadline, seq, counters, got, results, log, netVars, serverVars>>

(* socket.timeout: here the row comes first and the counter second.        *)
Timeout ==
    /\ pc = "waiting"
    /\ rcvbuf = <<>>
    /\ results' = Append(results, [seq |-> seq, reply |-> NoReply, missed |-> TRUE])
    /\ pc' = "timedout"
    /\ UNCHANGED <<deadline, seq, counters, got, log, netVars, serverVars>>

(* Mutation: a timeout is counted whether or not there is a deadline.      *)
CountTimeoutAlways ==
    /\ pc = "timedout"
    /\ missed_deadline' = missed_deadline + 1
    /\ pc' = "pause"
    /\ UNCHANGED <<deadline, seq, sent, received, got, results, log, netVars,
                   serverVars>>

CountTimeout ==
    /\ pc = "timedout"
    /\ missed_deadline' = missed_deadline + (IF deadline THEN 1 ELSE 0)
    /\ pc' = "pause"
    /\ UNCHANGED <<deadline, seq, sent, received, got, results, log, netVars,
                   serverVars>>

(* The sleep that fills the interval, and the next iteration.              *)
Sleep ==
    /\ pc = "pause"
    /\ seq' = seq + 1
    /\ pc' = "loop"
    /\ UNCHANGED <<deadline, counters, got, results, log, netVars, serverVars>>

LoopEnds ==
    /\ pc = "loop"
    /\ seq = Count
    /\ pc' = "summary"
    /\ UNCHANGED <<deadline, seq, counters, got, results, log, netVars, serverVars>>

HasReply == pc \in {"received", "counted", "checked"}

InLoop == pc \in {"loop", "sent", "waiting", "timedout", "pause"} \/ HasReply

(* Ctrl-C anywhere in the loop, between any two statements of it.          *)
Interrupt ==
    /\ InLoop
    /\ pc' = "summary"
    /\ UNCHANGED <<deadline, seq, counters, got, results, log, netVars, serverVars>>

WriteLog ==
    /\ pc = "summary"
    /\ log' = results
    /\ pc' = "done"
    /\ UNCHANGED <<deadline, seq, counters, got, results, netVars, serverVars>>

-----------------------------------------------------------------------------
(* The server.  It has one thread: what it has echoed but not yet counted  *)
(* is at most one datagram.                                                *)

Echo(m) ==
    /\ server = "ready"
    /\ m \in requests
    /\ requests' = requests \ {m}
    /\ replies' = replies \cup {m}
    /\ server' = "echoed"
    /\ UNCHANGED <<clientVars, rcvbuf, copies, echoed>>

(* Mutation: only what is logged is counted, and there is no log.          *)
CountEchoedLogged ==
    /\ server = "echoed"
    /\ server' = "ready"
    /\ UNCHANGED <<clientVars, netVars, echoed>>

CountEchoed ==
    /\ server = "echoed"
    /\ echoed' = echoed + 1
    /\ server' = "ready"
    /\ UNCHANGED <<clientVars, netVars>>

(* Ctrl-C, a kill, or an OSError of sendto.                                *)
ServerStops ==
    /\ server # "stopped"
    /\ server' = "stopped"
    /\ UNCHANGED <<clientVars, netVars, echoed>>

-----------------------------------------------------------------------------
(* The network.                                                            *)

(* A full buffer drops what arrives.                                       *)
Deliver(m) ==
    /\ m \in replies
    /\ replies' = replies \ {m}
    /\ rcvbuf' = IF Len(rcvbuf) < RcvBuf THEN Append(rcvbuf, m) ELSE rcvbuf
    /\ UNCHANGED <<clientVars, requests, copies, serverVars>>

Lose(m) ==
    /\ m \in requests \cup replies
    /\ requests' = requests \ {m}
    /\ replies' = replies \ {m}
    /\ UNCHANGED <<clientVars, rcvbuf, copies, serverVars>>

Duplicate(m) ==
    /\ copies < MaxCopies
    /\ copies' = copies + 1
    /\ LET again == [m EXCEPT !.copy = copies + 1] IN
       \/ /\ m \in requests
          /\ requests' = requests \cup {again}
          /\ UNCHANGED replies
       \/ /\ m \in replies
          /\ replies' = replies \cup {again}
          /\ UNCHANGED requests
    /\ UNCHANGED <<clientVars, rcvbuf, serverVars>>

-----------------------------------------------------------------------------
Client == \/ Sendto \/ CountSent \/ Receive \/ CountReceived \/ CountMissed
          \/ AppendRow \/ Timeout \/ CountTimeout \/ Sleep \/ LoopEnds \/ WriteLog

Network(m) == Deliver(m) \/ Lose(m) \/ Duplicate(m)

Next == \/ Client \/ SendtoFails \/ Interrupt
        \/ CountEchoed \/ ServerStops
        \/ \E m \in requests : Echo(m)
        \/ \E m \in requests \cup replies : Network(m)

Spec == Init /\ [][Next]_vars

(* The client is scheduled, and its timeout elapses.  Nothing is assumed   *)
(* of the server and the network.                                          *)
FairSpec == Spec /\ WF_vars(Client)

-----------------------------------------------------------------------------
(* parse_rtt_csv: every row whose rtt_ms is a number is an RTT, the -1 of  *)
(* a timeout too.                                                          *)
parse_rtt_csv(rows) ==
    [count |-> Len(rows), received |-> Len(rows), missed |-> 0]

-----------------------------------------------------------------------------
Answered == {i \in DOMAIN results : results[i].reply # NoReply}
TimedOut == DOMAIN results \ Answered
Missed == {i \in DOMAIN results : results[i].missed}

Rows == [seq : Nat, reply : Datagrams \cup {NoReply}, missed : BOOLEAN]

TypeOK ==
    /\ deadline \in BOOLEAN
    /\ InLoop \/ pc \in {"summary", "done", "crashed"}
    /\ seq \in 0 .. Count
    /\ sent \in 0 .. Count
    /\ received \in Nat
    /\ missed_deadline \in Nat
    /\ got \in [reply : Datagrams \cup {NoReply}, late : BOOLEAN]
    /\ results \in Seq(Rows)
    /\ log \in Seq(Rows)
    /\ requests \subseteq Datagrams /\ IsFiniteSet(requests)
    /\ replies \subseteq Datagrams /\ IsFiniteSet(replies)
    /\ rcvbuf \in Seq(Datagrams) /\ Len(rcvbuf) <= RcvBuf
    /\ copies \in 0 .. MaxCopies
    /\ server \in {"ready", "echoed", "stopped"}
    /\ echoed \in Nat

(* The requests whose echoes fill the answered rows.                       *)
RequestsInRows == {results[i].reply.seq : i \in Answered}

(* However the network and the timeouts mix the answers up, the answered   *)
(* rows are echoes of as many different requests, but for one row at most  *)
(* for each time the network duplicated a datagram; and no row has the     *)
(* echo of a request younger than its own.  The client itself never makes  *)
(* two rows of one answer, although it looks at no number.                 *)
RowsExceedRequestsByCopies ==
    /\ Cardinality(Answered) <= Cardinality(RequestsInRows) + copies
    /\ \A i \in Answered : results[i].reply.seq <= results[i].seq

(* The numbers in the payload are never compared.  Still, as long as no    *)
(* request has timed out and no datagram was duplicated, every row has the *)
(* round trip of its own request.                                          *)
OwnReplyUntilTimeout ==
    TimedOut = {} /\ copies = 0 =>
        \A i \in Answered : results[i].reply.seq = results[i].seq

(* The summary and the rows agree, although Ctrl-C may fall between a      *)
(* counter and its row: what is reported lost are the rows that timed out  *)
(* and at most one request whose answer was not waited for, and no more    *)
(* than one answer is missing from the rows.                               *)
SummaryAgreesWithRows ==
    pc \in {"summary", "done"} =>
        /\ sent - received - Cardinality(TimedOut) \in 0 .. 1
        /\ received - Cardinality(Answered) \in 0 .. 1
        /\ sent - Len(results) \in 0 .. 1
        /\ seq = Count => /\ sent = Count /\ Len(results) = Count
                          /\ received = Cardinality(Answered)

(* The same for deadlines: without one, nothing is reported missed and the *)
(* rows marked as missed are the timeouts.                                 *)
MissedAgreesWithRows ==
    pc \in {"summary", "done"} =>
        IF deadline
        THEN /\ missed_deadline - Cardinality(Missed) \in -1 .. 1
             /\ seq = Count => missed_deadline = Cardinality(Missed)
        ELSE missed_deadline = 0 /\ Missed = TimedOut

(* The two programs count the same traffic from both ends: the client has  *)
(* no more answers than the server says it echoed, but for the echo it has *)
(* not counted (for good, if it was stopped there) and the copies the      *)
(* network made.                                                           *)
ReceivedWereEchoed == received <= echoed + copies + (IF server = "ready" THEN 0 ELSE 1)

(* Whatever is lost and whether or not there is a server, the client ends. *)
ClientEnds == <>(pc \in {"done", "crashed"})

(* The client's docstring: it "Sends periodic UDP packets to the echo      *)
(* server and measures RTT".  A late answer is taken for the answer to the *)
(* next request, and from then on every row may be wrong.                  *)
RttIsOwnRoundTrip ==
    \A i \in Answered : results[i].reply.seq = results[i].seq

(* The client marks a timeout with an rtt_ms of -1 ("timeout", line 108).  *)
(* What the orchestrator reports as received and missed should be what the *)
(* rows say.                                                               *)
ParsedAsWritten ==
    pc = "done" => /\ parse_rtt_csv(log).received = Cardinality(Answered)
                   /\ parse_rtt_csv(log).missed = Cardinality(TimedOut)

-----------------------------------------------------------------------------
(* The inductive invariant behind the safety properties.                   *)

(* The loop variable, the counters and the rows move together.             *)
CountersInv ==
    /\ InLoop /\ pc # "loop" => seq < Count
    /\ pc \in {"loop", "sent"} => sent = seq
    /\ pc \in {"waiting", "timedout", "pause"} \/ HasReply => sent = seq + 1
    /\ pc \in {"loop", "sent", "waiting"} \/ HasReply => Len(results) = seq
    /\ pc \in {"timedout", "pause"} => Len(results) = seq + 1
    /\ InLoop => received = Cardinality(Answered)
                              + (IF pc \in {"counted", "checked"} THEN 1 ELSE 0)

(* Rows and counter of the missed deadlines, with the statement between    *)
(* them that may be outstanding.                                           *)
MissedInv ==
    InLoop =>
        IF deadline
        THEN missed_deadline = Cardinality(Missed)
                                 + (IF pc = "checked" /\ got.late THEN 1 ELSE 0)
                                 - (IF pc = "timedout" THEN 1 ELSE 0)
        ELSE /\ missed_deadline = 0 /\ Missed = TimedOut
             /\ HasReply => ~got.late

(* Where a datagram can be, until it is in a row.                          *)
Arrived == {rcvbuf[i] : i \in DOMAIN rcvbuf}
InHand == IF HasReply THEN {got.reply} ELSE {}
InFlight == requests \cup replies \cup Arrived

(* It carries a request that was sent, and is no copy that is yet to be    *)
(* made.                                                                   *)
Genuine(m) ==
    /\ m.copy <= copies
    /\ m.seq < seq \/ (m.seq = seq /\ pc # "loop")

(* A datagram is in one place.                                             *)
PlacesInv ==
    /\ HasReply => got.reply # NoReply
    /\ \A m \in InFlight \cup InHand : Genuine(m)
    /\ requests \cap replies = {}
    /\ Arrived \cap (requests \cup replies) = {}
    /\ InHand \cap InFlight = {}
    /\ \A i, j \in DOMAIN rcvbuf : rcvbuf[i] = rcvbuf[j] => i = j

(* A datagram in a row is nowhere else.                                    *)
RowsInv ==
    /\ \A i, j \in Answered : results[i].reply = results[j].reply => i = j
    /\ \A i \in Answered : results[i].reply.seq <= results[i].seq
    /\ \A i \in Answered : results[i].reply \notin InFlight \cup InHand
    /\ \A i \in Answered : Genuine(results[i].reply)

(* Each duplication made one datagram more.                                *)
CopiesInv ==
    \A m, k \in InFlight \cup InHand \cup {results[i].reply : i \in Answered} :
        m.copy = k.copy /\ m.copy # 0 => m = k

(* Until something is late or doubled, nothing is under way but the        *)
(* present request or its answer.                                          *)
CleanInv ==
    TimedOut = {} /\ copies = 0 =>
        /\ pc # "timedout"
        /\ \A i \in Answered : results[i].reply.seq = results[i].seq
        /\ pc \in {"sent", "waiting"} => \A m \in InFlight : m.seq = seq
        /\ pc \in {"loop", "pause"} \/ HasReply => InFlight = {}
        /\ \A m \in InHand : m.seq = seq

(* Every answer on its way, arrived or counted was echoed or is a copy.    *)
EchoedInv ==
    received + Cardinality(replies) + Len(rcvbuf) + (IF pc = "received" THEN 1 ELSE 0)
        <= echoed + copies + (IF server = "ready" THEN 0 ELSE 1)

IInv == /\ TypeOK /\ CountersInv /\ SummaryAgreesWithRows /\ MissedInv
        /\ MissedAgreesWithRows /\ PlacesInv /\ RowsInv /\ CopiesInv /\ CleanInv
        /\ EchoedInv
=============================================================================
