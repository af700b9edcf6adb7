----------------------- MODULE EchoMeasurement_proofs -----------------------
(***************************************************************************)
(* The safety properties of the echo measurement, for every number of      *)
(* requests, buffer and number of duplications.                            *)
(***************************************************************************)
EXTENDS EchoMeasurement, FiniteSetTheorems, SequenceTheorems, TLAPS

-----------------------------------------------------------------------------
(* The rows and their three sets.                                          *)

(* Every row is answered or timed out, and not both.                       *)
LEMMA RowSets ==
    ASSUME TypeOK
    PROVE  /\ IsFiniteSet(Answered) /\ IsFiniteSet(Missed)
           /\ Cardinality(Answered) \in Nat /\ Cardinality(Missed) \in Nat
           /\ Cardinality(TimedOut) = Len(results) - Cardinality(Answered)
           /\ Len(results) \in Nat /\ DOMAIN results = 1 .. Len(results)
<1>1. Len(results) \in Nat /\ DOMAIN results = 1 .. Len(results)
  BY DEF TypeOK
<1>2. IsFiniteSet(DOMAIN results) /\ Cardinality(DOMAIN results) = Len(results)
  <2>1. /\ IsFiniteSet(1 .. Len(results))
        /\ Cardinality(1 .. Len(results)) =
             IF 1 > Len(results) THEN 0 ELSE Len(results) - 1 + 1
    BY <1>1, FS_Interval
  <2> QED BY <1>1, <2>1
<1>3. Answered \in SUBSET DOMAIN results /\ Missed \in SUBSET DOMAIN results
  BY DEF Answered, Missed
<1>4. IsFiniteSet(Answered) /\ IsFiniteSet(Missed)
  BY <1>2, <1>3, FS_Subset
<1>5. Cardinality(Answered) \in Nat /\ Cardinality(Missed) \in Nat
  BY <1>4, FS_CardinalityType
<1>6. DOMAIN results \cap Answered = Answered
  BY <1>3
<1>7. Cardinality(TimedOut) = Len(results) - Cardinality(Answered)
  <2>1. Cardinality(DOMAIN results \ Answered) =
            Cardinality(DOMAIN results) - Cardinality(DOMAIN results \cap Answered)
    BY <1>2, FS_Difference
  <2> QED BY <1>2, <1>6, <2>1 DEF TimedOut
<1> QED BY <1>1, <1>4, <1>5, <1>7

(* What one more row does to them.                                         *)
LEMMA RowAppended ==
    ASSUME TypeOK, NEW r \in Rows, results' = Append(results, r)
    PROVE  LET n == Len(results) + 1 IN
           /\ results' \in Seq(Rows)
           /\ Len(results') = n
           /\ DOMAIN results' = DOMAIN results \cup {n}
           /\ \A i \in DOMAIN results : results'[i] = results[i]
           /\ results'[n] = r
           /\ Answered' = IF r.reply # NoReply THEN Answered \cup {n} ELSE Answered
           /\ TimedOut' = IF r.reply # NoReply THEN TimedOut ELSE TimedOut \cup {n}
           /\ Missed' = IF r.missed THEN Missed \cup {n} ELSE Missed
           /\ Cardinality(Answered') =
                Cardinality(Answered) + (IF r.reply # NoReply THEN 1 ELSE 0)
           /\ Cardinality(Missed') =
                Cardinality(Missed) + (IF r.missed THEN 1 ELSE 0)
<1> DEFINE n == Len(results) + 1
<1>1. results \in Seq(Rows) /\ Len(results) \in Nat /\ DOMAIN results = 1 .. Len(results)
  BY DEF TypeOK
<1>2. /\ results' \in Seq(Rows) /\ Len(results') = n
      /\ \A i \in DOMAIN results : results'[i] = results[i]
      /\ results'[n] = r
  BY <1>1
<1>3. DOMAIN results' = DOMAIN results \cup {n} /\ n \notin DOMAIN results
  BY <1>1, <1>2
<1>4. Answered' = IF r.reply # NoReply THEN Answered \cup {n} ELSE Answered
  BY <1>2, <1>3 DEF Answered
<1>5. TimedOut' = IF r.reply # NoReply THEN TimedOut ELSE TimedOut \cup {n}
  BY <1>3, <1>4 DEF TimedOut, Answered
<1>6. Missed' = IF r.missed THEN Missed \cup {n} ELSE Missed
  BY <1>2, <1>3 DEF Missed
<1>7. n \notin Answered /\ n \notin Missed
  BY <1>3 DEF Answered, Missed
<1>8. Cardinality(Answered') = Cardinality(Answered) + (IF r.reply # NoReply THEN 1 ELSE 0)
  <2>1. IsFiniteSet(Answered) /\ Cardinality(Answered) \in Nat
    BY RowSets
  <2>2. Cardinality(Answered \cup {n}) = Cardinality(Answered) + 1
    BY <1>7, <2>1, FS_AddElement
  <2> QED BY <1>4, <2>1, <2>2
<1>9. Cardinality(Missed') = Cardinality(Missed) + (IF r.missed THEN 1 ELSE 0)
  <2>1. IsFiniteSet(Missed) /\ Cardinality(Missed) \in Nat
    BY RowSets
  <2>2. Cardinality(Missed \cup {n}) = Cardinality(Missed) + 1
    BY <1>7, <2>1, FS_AddElement
  <2> QED BY <1>6, <2>1, <2>2
<1> QED BY <1>2, <1>3, <1>4, <1>5, <1>6, <1>8, <1>9

(* Everything but AppendRow and Timeout leaves them alone.                 *)
LEMMA RowsKept ==
    ASSUME results' = results
    PROVE  Answered' = Answered /\ TimedOut' = TimedOut /\ Missed' = Missed
  BY DEF Answered, TimedOut, Missed

LEMMA AppendRowRow ==
    ASSUME TypeOK, AppendRow
    PROVE  \E r \in Rows : /\ results' = Append(results, r)
                           /\ r = [seq |-> seq, reply |-> got.reply, missed |-> got.late]
<1> DEFINE r == [seq |-> seq, reply |-> got.reply, missed |-> got.late]
<1>1. r \in Rows
  BY EchoAssumption DEF TypeOK, Rows
<1> QED BY <1>1 DEF AppendRow

LEMMA TimeoutRow ==
    ASSUME TypeOK, Timeout
    PROVE  \E r \in Rows : /\ results' = Append(results, r)
                           /\ r = [seq |-> seq, reply |-> NoReply, missed |-> TRUE]
<1> DEFINE r == [seq |-> seq, reply |-> NoReply, missed |-> TRUE]
<1>1. r \in Rows
  BY EchoAssumption DEF TypeOK, Rows
<1> QED BY <1>1 DEF Timeout

-----------------------------------------------------------------------------
(* The steps, by what they may change.                                     *)

(* Steps of the client that move no datagram and write no row.             *)
Quiet == SendtoFails \/ CountSent \/ CountReceived \/ CountMissed \/ CountTimeout
           \/ Sleep \/ LoopEnds \/ Interrupt \/ WriteLog

(* Steps of the server that move no datagram.                              *)
QuietServer == CountEchoed \/ ServerStops

LEMMA Steps ==
    ASSUME [Next]_vars
    PROVE  \/ Quiet \/ QuietServer \/ Sendto \/ Receive \/ AppendRow \/ Timeout
           \/ \E m \in requests : Echo(m)
           \/ \E m \in requests \cup replies : Deliver(m) \/ Lose(m) \/ Duplicate(m)
           \/ UNCHANGED vars
  BY DEF Next, Client, Network, Quiet, QuietServer

-----------------------------------------------------------------------------
(* Type correctness.                                                       *)

LEMMA TypeInit == Init => TypeOK
  BY EchoAssumption, FS_EmptySet DEF Init, TypeOK, InLoop, HasReply, Nothing, Rows

LEMMA TypeStep ==
    ASSUME TypeOK, CountersInv, [Next]_vars
    PROVE  TypeOK'
<1> USE EchoAssumption
<1>1. CASE Quiet
  <2>1. CASE CountSent
    BY <2>1 DEF TypeOK, CountersInv, InLoop, HasReply, CountSent, netVars, serverVars
  <2>2. CASE CountReceived
    BY <2>2 DEF TypeOK, InLoop, HasReply, CountReceived, netVars, serverVars
  <2>3. CASE CountMissed \/ CountTimeout
    BY <2>3 DEF TypeOK, InLoop, HasReply, CountMissed, CountTimeout, netVars, serverVars
  <2>4. CASE Sleep
    BY <2>4 DEF TypeOK, CountersInv, InLoop, HasReply, Sleep, counters, netVars,
         serverVars
  <2>5. CASE WriteLog
    BY <2>5 DEF TypeOK, InLoop, HasReply, WriteLog, counters, netVars, serverVars
  <2>6. CASE SendtoFails \/ LoopEnds \/ Interrupt
    BY <2>6 DEF TypeOK, InLoop, HasReply, SendtoFails, LoopEnds, Interrupt, counters,
                netVars, serverVars
  <2> QED BY <1>1, <2>1, <2>2, <2>3, <2>4, <2>5, <2>6 DEF Quiet
<1>2. CASE QuietServer
  <2>1. CASE CountEchoed
    BY <2>1 DEF TypeOK, InLoop, HasReply, CountEchoed, clientVars, counters, netVars
  <2>2. CASE ServerStops
    BY <2>2 DEF TypeOK, InLoop, HasReply, ServerStops, clientVars, counters, netVars
  <2> QED BY <1>2, <2>1, <2>2 DEF QuietServer
<1>3. CASE Sendto
  <2>1. [seq |-> seq, copy |-> 0] \in Datagrams
    BY DEF TypeOK, Datagrams
  <2>2. IsFiniteSet(requests \cup {[seq |-> seq, copy |-> 0]})
    BY FS_AddElement DEF TypeOK
  <2>3. requests' \subseteq Datagrams /\ IsFiniteSet(requests')
    BY <1>3, <2>1, <2>2 DEF TypeOK, Sendto
  <2> QED BY <1>3, <2>3 DEF TypeOK, InLoop, HasReply, Sendto, counters, serverVars
<1>4. CASE Receive
  <2>1. rcvbuf' \in Seq(Datagrams) /\ Len(rcvbuf') <= RcvBuf /\ Head(rcvbuf) \in Datagrams
    BY <1>4 DEF TypeOK, Receive
  <2>2. got' \in [reply : Datagrams \cup {NoReply}, late : BOOLEAN]
    BY <1>4, <2>1 DEF TypeOK, Receive
  <2> QED BY <1>4, <2>1, <2>2 DEF TypeOK, InLoop, HasReply, Receive, counters,
               serverVars
<1>5. CASE AppendRow
  <2>1. results' \in Seq(Rows)
    BY <1>5, AppendRowRow, RowAppended
  <2> QED BY <1>5, <2>1 DEF TypeOK, InLoop, HasReply, AppendRow, Nothing, counters,
               netVars,
                            serverVars
<1>6. CASE Timeout
  <2>1. results' \in Seq(Rows)
    BY <1>6, TimeoutRow, RowAppended
  <2> QED BY <1>6, <2>1 DEF TypeOK, InLoop, HasReply, Timeout, counters, netVars,
               serverVars
<1>7. ASSUME NEW m \in requests, Echo(m)
      PROVE  TypeOK'
  <2>1. IsFiniteSet(requests') /\ IsFiniteSet(replies')
    BY <1>7, FS_AddElement, FS_RemoveElement DEF TypeOK, Echo
  <2> QED BY <1>7, <2>1 DEF TypeOK, InLoop, HasReply, Echo, clientVars, counters
<1>8. ASSUME NEW m \in requests \cup replies, Deliver(m)
      PROVE  TypeOK'
  <2>1. IsFiniteSet(replies') /\ m \in Datagrams
    BY <1>8, FS_RemoveElement DEF TypeOK, Deliver
  <2>2. rcvbuf' \in Seq(Datagrams) /\ Len(rcvbuf') <= RcvBuf
    BY <1>8, <2>1 DEF TypeOK, Deliver
  <2> QED BY <1>8, <2>1, <2>2 DEF TypeOK, InLoop, HasReply, Deliver, clientVars,
               counters,
                                  serverVars
<1>9. ASSUME NEW m \in requests \cup replies, Lose(m)
      PROVE  TypeOK'
  <2>1. IsFiniteSet(requests') /\ IsFiniteSet(replies')
    BY <1>9, FS_RemoveElement DEF TypeOK, Lose
  <2> QED BY <1>9, <2>1 DEF TypeOK, InLoop, HasReply, Lose, clientVars, counters,
               serverVars
<1>10. ASSUME NEW m \in requests \cup replies, Duplicate(m)
       PROVE  TypeOK'
  <2> DEFINE again == [m EXCEPT !.copy = copies + 1]
  <2>1. again \in Datagrams /\ copies' \in 0 .. MaxCopies
    <3>1. m \in Datagrams /\ copies + 1 \in Nat
      BY DEF TypeOK
    <3>2. again \in Datagrams
      BY <3>1 DEF Datagrams
    <3> QED BY <1>10, <3>2 DEF TypeOK, Duplicate
  <2>2. /\ requests' = requests \/ requests' = requests \cup {again}
        /\ replies' = replies \/ replies' = replies \cup {again}
    BY <1>10 DEF Duplicate
  <2> HIDE DEF again
  <2>3. IsFiniteSet(requests') /\ IsFiniteSet(replies')
    <3>1. IsFiniteSet(requests \cup {again}) /\ IsFiniteSet(replies \cup {again})
      BY FS_AddElement DEF TypeOK
    <3> QED BY <2>2, <3>1 DEF TypeOK
  <2>4. requests' \subseteq Datagrams /\ replies' \subseteq Datagrams
    BY <2>1, <2>2 DEF TypeOK
  <2> QED BY <1>10, <2>1, <2>3, <2>4 DEF TypeOK, InLoop, HasReply, Duplicate,
               clientVars,
                                         counters, serverVars
<1>11. CASE UNCHANGED vars
  BY <1>11 DEF TypeOK, InLoop, HasReply, vars, clientVars, counters, netVars, serverVars
<1> QED BY <1>1, <1>2, <1>3, <1>4, <1>5, <1>6, <1>7, <1>8, <1>9, <1>10, <1>11, Steps

-----------------------------------------------------------------------------
(* Steps that only the network or the server takes.                        *)

LEMMA ClientKept ==
    ASSUME UNCHANGED clientVars
    PROVE  /\ CountersInv => CountersInv'
           /\ SummaryAgreesWithRows => SummaryAgreesWithRows'
           /\ MissedInv => MissedInv'
           /\ MissedAgreesWithRows => MissedAgreesWithRows'
  BY RowsKept DEF clientVars, counters, CountersInv, SummaryAgreesWithRows, MissedInv,
                  MissedAgreesWithRows, InLoop, HasReply

LEMMA NotTheClient ==
    ASSUME \/ QuietServer \/ UNCHANGED vars
           \/ \E m \in requests : Echo(m)
           \/ \E m \in requests \cup replies : Deliver(m) \/ Lose(m) \/ Duplicate(m)
    PROVE  UNCHANGED clientVars
  BY DEF QuietServer, CountEchoed, ServerStops, vars, Echo, Deliver, Lose, Duplicate

-----------------------------------------------------------------------------
(* The counters and the rows.                                              *)

(* What the counters say when the loop is left, wherever it is.            *)
LEMMA LeavingTheLoop ==
    ASSUME TypeOK, CountersInv, MissedInv, InLoop, pc = "loop" \/ seq # Count
    PROVE  /\ sent - received - Cardinality(TimedOut) \in 0 .. 1
           /\ received - Cardinality(Answered) \in 0 .. 1
           /\ sent - Len(results) \in 0 .. 1
           /\ seq = Count => /\ sent = Count /\ Len(results) = Count
                             /\ received = Cardinality(Answered)
           /\ IF deadline
              THEN /\ missed_deadline - Cardinality(Missed) \in -1 .. 1
                   /\ seq = Count => missed_deadline = Cardinality(Missed)
              ELSE missed_deadline = 0 /\ Missed = TimedOut
<1> USE EchoAssumption
<1>1. /\ Cardinality(Answered) \in Nat /\ Cardinality(Missed) \in Nat
      /\ Cardinality(TimedOut) = Len(results) - Cardinality(Answered)
      /\ Len(results) \in Nat
  BY RowSets
<1>2. /\ seq \in Nat /\ sent \in Nat /\ received \in Nat /\ missed_deadline \in Nat
      /\ Count \in Nat
  BY DEF TypeOK
<1>3. received = Cardinality(Answered) + (IF pc \in {"counted", "checked"} THEN 1 ELSE 0)
  BY DEF CountersInv
<1>4. \/ sent = seq /\ Len(results) = seq /\ pc \notin {"counted", "checked"}
      \/ sent = seq + 1 /\ Len(results) = seq /\ pc # "loop"
      \/ sent = seq + 1 /\ Len(results) = seq + 1 /\ pc \notin {"loop", "counted", "checked"}
  BY DEF CountersInv, InLoop, HasReply
<1>5. /\ sent - received - Cardinality(TimedOut) \in 0 .. 1
      /\ received - Cardinality(Answered) \in 0 .. 1
      /\ sent - Len(results) \in 0 .. 1
  <2>1. sent - Len(results) \in 0 .. 1 /\ received - Cardinality(Answered) \in 0 .. 1
    <3>1. sent - Len(results) \in 0 .. 1
      BY <1>1, <1>2, <1>4
    <3>2. received - Cardinality(Answered) \in 0 .. 1
      BY <1>1, <1>2, <1>3
    <3> QED BY <3>1, <3>2
  <2>2. sent - received - Cardinality(TimedOut) =
            (sent - Len(results)) - (received - Cardinality(Answered))
    BY <1>1, <1>2
  <2>3. CASE pc \in {"counted", "checked"}
    <3>1. sent - Len(results) = 1 /\ received - Cardinality(Answered) = 1
      BY <1>1, <1>2, <1>3, <1>4, <2>3
    <3> QED BY <2>1, <2>2, <3>1
  <2>4. CASE pc \notin {"counted", "checked"}
    <3>1. received - Cardinality(Answered) = 0
      BY <1>1, <1>2, <1>3, <2>4
    <3> QED BY <1>1, <1>2, <2>1, <2>2, <3>1
  <2> QED BY <2>3, <2>4
<1>6. seq = Count => /\ sent = Count /\ Len(results) = Count
                     /\ received = Cardinality(Answered)
  BY <1>1, <1>2, <1>3, <1>4
<1>7. CASE deadline
  <2>1. missed_deadline = Cardinality(Missed)
                            + (IF pc = "checked" /\ got.late THEN 1 ELSE 0)
                            - (IF pc = "timedout" THEN 1 ELSE 0)
    BY <1>7 DEF MissedInv
  <2> QED BY <1>1, <1>2, <1>5, <1>6, <1>7, <2>1
<1>8. CASE ~deadline
  BY <1>5, <1>6, <1>8 DEF MissedInv
<1> QED BY <1>5, <1>6, <1>7, <1>8

LEMMA CountersStep ==
    ASSUME TypeOK, TypeOK', CountersInv, SummaryAgreesWithRows, MissedInv, PlacesInv,
           [Next]_vars
    PROVE  CountersInv' /\ SummaryAgreesWithRows'
<1> USE EchoAssumption
<1>1. /\ Cardinality(Answered) \in Nat /\ Len(results) \in Nat
      /\ seq \in Nat /\ sent \in Nat /\ received \in Nat
  BY RowSets DEF TypeOK
<1>2. CASE CountSent \/ Sendto \/ Receive \/ CountReceived \/ CountMissed \/ CountTimeout \/ Sleep
  <2>1. Answered' = Answered /\ results' = results
    BY <1>2, RowsKept DEF CountSent, Sendto, Receive, CountReceived, CountMissed,
         CountTimeout, Sleep
  <2>2. CountersInv'
    <3>1. CASE CountSent
      BY <1>1, <2>1, <3>1 DEF CountersInv, InLoop, HasReply, CountSent
    <3>2. CASE Sendto
      BY <1>1, <2>1, <3>2 DEF TypeOK, CountersInv, InLoop, HasReply, Sendto, counters
    <3>3. CASE Receive
      BY <1>1, <2>1, <3>3 DEF CountersInv, InLoop, HasReply, Receive, counters
    <3>4. CASE CountReceived
      BY <1>1, <2>1, <3>4 DEF CountersInv, InLoop, HasReply, CountReceived
    <3>5. CASE CountMissed \/ CountTimeout
      BY <1>1, <2>1, <3>5 DEF CountersInv, InLoop, HasReply, CountMissed, CountTimeout
    <3>6. CASE Sleep
      BY <1>1, <2>1, <3>6 DEF CountersInv, InLoop, HasReply, Sleep, counters
    <3> QED BY <1>2, <3>1, <3>2, <3>3, <3>4, <3>5, <3>6
  <2>3. SummaryAgreesWithRows'
    BY <1>2 DEF SummaryAgreesWithRows, CountSent, Sendto, Receive, CountReceived,
                CountMissed, CountTimeout, Sleep
  <2> QED BY <2>2, <2>3
<1>3. CASE SendtoFails
  BY <1>3 DEF CountersInv, SummaryAgreesWithRows, InLoop, HasReply, SendtoFails
<1>4. CASE LoopEnds \/ Interrupt
  <2>1. Answered' = Answered /\ TimedOut' = TimedOut /\ results' = results
    BY <1>4, RowsKept DEF LoopEnds, Interrupt
  <2>2. pc' = "summary" /\ UNCHANGED <<seq, counters>>
    BY <1>4 DEF LoopEnds, Interrupt
  <2>3. InLoop /\ (pc = "loop" \/ seq # Count)
    BY <1>1, <1>4 DEF CountersInv, InLoop, HasReply, LoopEnds, Interrupt
  <2>4. SummaryAgreesWithRows'
    BY <2>1, <2>2, <2>3, LeavingTheLoop DEF SummaryAgreesWithRows, counters
  <2>5. CountersInv'
    BY <2>2 DEF CountersInv, InLoop, HasReply
  <2> QED BY <2>4, <2>5
<1>5. CASE WriteLog
  <2>1. Answered' = Answered /\ TimedOut' = TimedOut
    BY <1>5, RowsKept DEF WriteLog
  <2> QED BY <1>5, <2>1 DEF CountersInv, SummaryAgreesWithRows, InLoop, HasReply,
               WriteLog, counters
<1>6. CASE AppendRow
  <2>1. got.reply # NoReply
    BY <1>6 DEF HasReply, PlacesInv, AppendRow
  <2>2. /\ Cardinality(Answered') = Cardinality(Answered) + 1
        /\ Len(results') = Len(results) + 1
    BY <1>6, <2>1, AppendRowRow, RowAppended
  <2> QED BY <1>1, <1>6, <2>2 DEF CountersInv, SummaryAgreesWithRows, InLoop,
               HasReply, AppendRow,
                                  counters
<1>7. CASE Timeout
  <2>1. /\ Cardinality(Answered') = Cardinality(Answered)
        /\ Len(results') = Len(results) + 1
    BY <1>1, <1>7, TimeoutRow, RowAppended
  <2> QED BY <1>1, <1>7, <2>1 DEF CountersInv, SummaryAgreesWithRows, InLoop,
               HasReply, Timeout,
                                  counters
<1>8. CASE UNCHANGED clientVars
  BY <1>8, ClientKept
<1> QED BY <1>2, <1>3, <1>4, <1>5, <1>6, <1>7, <1>8, Steps, NotTheClient DEF Quiet

-----------------------------------------------------------------------------
(* The deadlines.                                                          *)

LEMMA MissedStep ==
    ASSUME TypeOK, TypeOK', CountersInv, MissedInv, MissedAgreesWithRows, PlacesInv,
           [Next]_vars
    PROVE  MissedInv' /\ MissedAgreesWithRows'
<1> USE EchoAssumption
<1>1. /\ Cardinality(Missed) \in Nat /\ missed_deadline \in Nat /\ deadline \in BOOLEAN
      /\ got.late \in BOOLEAN
  BY RowSets DEF TypeOK
<1>2. CASE CountSent \/ Sendto \/ Receive \/ CountReceived \/ CountMissed \/ CountTimeout \/ Sleep
  <2>1. Missed' = Missed /\ TimedOut' = TimedOut
    BY <1>2, RowsKept DEF CountSent, Sendto, Receive, CountReceived, CountMissed,
         CountTimeout, Sleep
  <2>2. MissedInv'
    <3>1. CASE CountSent \/ Sendto \/ Sleep
      BY <1>1, <2>1, <3>1 DEF MissedInv, InLoop, HasReply, CountSent, Sendto, Sleep,
           counters
    <3>2. CASE Receive
      BY <1>1, <2>1, <3>2 DEF MissedInv, InLoop, HasReply, Receive, counters
    <3>3. CASE CountReceived
      BY <1>1, <2>1, <3>3 DEF MissedInv, InLoop, HasReply, CountReceived
    <3>4. CASE CountMissed
      BY <1>1, <2>1, <3>4 DEF MissedInv, InLoop, HasReply, CountMissed
    <3>5. CASE CountTimeout
      BY <1>1, <2>1, <3>5 DEF MissedInv, InLoop, HasReply, CountTimeout
    <3> QED BY <1>2, <3>1, <3>2, <3>3, <3>4, <3>5
  <2>3. MissedAgreesWithRows'
    BY <1>2 DEF MissedAgreesWithRows, CountSent, Sendto, Receive, CountReceived,
                CountMissed, CountTimeout, Sleep
  <2> QED BY <2>2, <2>3
<1>3. CASE SendtoFails
  BY <1>3 DEF MissedInv, MissedAgreesWithRows, InLoop, HasReply, SendtoFails
<1>4. CASE LoopEnds \/ Interrupt
  <2>1. Missed' = Missed /\ TimedOut' = TimedOut
    BY <1>4, RowsKept DEF LoopEnds, Interrupt
  <2>2. pc' = "summary" /\ UNCHANGED <<deadline, seq, counters>>
    BY <1>4 DEF LoopEnds, Interrupt
  <2>3. InLoop /\ (pc = "loop" \/ seq # Count)
    BY <1>4 DEF TypeOK, CountersInv, InLoop, HasReply, LoopEnds, Interrupt
  <2>4. MissedAgreesWithRows'
    BY <2>1, <2>2, <2>3, LeavingTheLoop DEF MissedAgreesWithRows, counters
  <2>5. MissedInv'
    BY <2>2 DEF MissedInv, InLoop, HasReply
  <2> QED BY <2>4, <2>5
<1>5. CASE WriteLog
  <2>1. Missed' = Missed /\ TimedOut' = TimedOut
    BY <1>5, RowsKept DEF WriteLog
  <2> QED BY <1>5, <2>1 DEF MissedInv, MissedAgreesWithRows, InLoop, HasReply,
               WriteLog, counters
<1>6. CASE AppendRow
  <2>1. got.reply # NoReply
    BY <1>6 DEF HasReply, PlacesInv, AppendRow
  <2>2. /\ TimedOut' = TimedOut
        /\ ~got.late => Missed' = Missed
        /\ Cardinality(Missed') = Cardinality(Missed) + (IF got.late THEN 1 ELSE 0)
    BY <1>6, <2>1, AppendRowRow, RowAppended
  <2>3. MissedInv'
    BY <1>1, <1>6, <2>2 DEF MissedInv, InLoop, HasReply, AppendRow, counters
  <2> QED BY <1>6, <2>3 DEF MissedAgreesWithRows, AppendRow
<1>7. CASE Timeout
  <2>1. /\ TimedOut' = TimedOut \cup {Len(results) + 1}
        /\ Missed' = Missed \cup {Len(results) + 1}
        /\ Cardinality(Missed') = Cardinality(Missed) + 1
    BY <1>7, TimeoutRow, RowAppended
  <2>2. MissedInv'
    BY <1>1, <1>7, <2>1 DEF MissedInv, InLoop, HasReply, Timeout, counters
  <2> QED BY <1>7, <2>2 DEF MissedAgreesWithRows, Timeout
<1>8. CASE UNCHANGED clientVars
  BY <1>8, ClientKept
<1> QED BY <1>2, <1>3, <1>4, <1>5, <1>6, <1>7, <1>8, Steps, NotTheClient DEF Quiet

-----------------------------------------------------------------------------
(* Where the datagrams are.                                                *)

(* Steps that move no datagram and write no row.                           *)
LEMMA NothingMoves ==
    ASSUME TypeOK, Quiet \/ QuietServer \/ UNCHANGED vars
    PROVE  /\ UNCHANGED <<netVars, results>>
           /\ HasReply' => got' = got /\ HasReply
           /\ \A m \in Datagrams : Genuine(m) => Genuine(m)'
<1> USE EchoAssumption
<1>1. CASE Sleep
  BY <1>1 DEF HasReply, TypeOK, Datagrams, Sleep, counters, netVars, Genuine
<1>2. CASE Quiet /\ ~Sleep
  BY <1>2 DEF HasReply, Quiet, SendtoFails, CountSent, CountReceived, CountMissed,
       CountTimeout, LoopEnds,
              Interrupt, WriteLog, counters, netVars, Genuine
<1>3. CASE QuietServer \/ UNCHANGED vars
  BY <1>3 DEF HasReply, QuietServer, CountEchoed, ServerStops, vars, clientVars,
       counters, netVars,
              Genuine
<1> QED BY <1>1, <1>2, <1>3

LEMMA PlacesTyped ==
    ASSUME TypeOK, PlacesInv
    PROVE  /\ InFlight \subseteq Datagrams /\ InHand \subseteq Datagrams
           /\ \A i \in Answered : results[i].reply \in Datagrams /\ results[i].seq \in Nat
<1>1. Arrived \subseteq Datagrams
  BY DEF TypeOK, Arrived
<1>2. InHand \subseteq Datagrams
  BY DEF TypeOK, PlacesInv, InHand, HasReply
<1>3. \A i \in Answered : results[i] \in Rows /\ results[i].reply # NoReply
  BY DEF TypeOK, Answered
<1>4. InFlight \subseteq Datagrams
  BY <1>1 DEF TypeOK, InFlight
<1> QED BY <1>2, <1>3, <1>4 DEF Rows

(* The first datagram of the buffer, and the others.                       *)
LEMMA BufferTail ==
    ASSUME TypeOK, PlacesInv, rcvbuf # <<>>, rcvbuf' = Tail(rcvbuf)
    PROVE  /\ Head(rcvbuf) \in Arrived
           /\ Arrived' = Arrived \ {Head(rcvbuf)}
           /\ \A i, j \in DOMAIN rcvbuf' : rcvbuf'[i] = rcvbuf'[j] => i = j
<1>1. /\ rcvbuf \in Seq(Datagrams) /\ Len(rcvbuf) \in Nat \ {0}
      /\ DOMAIN rcvbuf = 1 .. Len(rcvbuf) /\ Head(rcvbuf) = rcvbuf[1]
  BY DEF TypeOK
<1>2. /\ DOMAIN rcvbuf' = 1 .. Len(rcvbuf) - 1
      /\ \A i \in DOMAIN rcvbuf' : rcvbuf'[i] = rcvbuf[i + 1]
  BY <1>1
<1>3. \A i, j \in DOMAIN rcvbuf : rcvbuf[i] = rcvbuf[j] => i = j
  BY DEF PlacesInv
<1>4. \A i, j \in DOMAIN rcvbuf' : rcvbuf'[i] = rcvbuf'[j] => i = j
  <2> SUFFICES ASSUME NEW i \in DOMAIN rcvbuf', NEW j \in DOMAIN rcvbuf',
                      rcvbuf'[i] = rcvbuf'[j]
               PROVE  i = j
    OBVIOUS
  <2>1. i + 1 \in DOMAIN rcvbuf /\ j + 1 \in DOMAIN rcvbuf /\ i \in Nat /\ j \in Nat
    BY <1>1, <1>2
  <2> QED BY <1>2, <1>3, <2>1
<1>5. Arrived' \subseteq Arrived \ {Head(rcvbuf)}
  <2> SUFFICES ASSUME NEW i \in DOMAIN rcvbuf'
               PROVE  rcvbuf'[i] \in Arrived \ {Head(rcvbuf)}
    BY DEF Arrived
  <2>1. i + 1 \in DOMAIN rcvbuf /\ i + 1 # 1 /\ 1 \in DOMAIN rcvbuf
    BY <1>1, <1>2
  <2> QED BY <1>1, <1>2, <1>3, <2>1 DEF Arrived
<1>6. Arrived \ {Head(rcvbuf)} \subseteq Arrived'
  <2> SUFFICES ASSUME NEW i \in DOMAIN rcvbuf, rcvbuf[i] # Head(rcvbuf)
               PROVE  rcvbuf[i] \in Arrived'
    BY DEF Arrived
  <2>1. i - 1 \in DOMAIN rcvbuf' /\ (i - 1) + 1 = i
    BY <1>1, <1>2
  <2> QED BY <1>2, <2>1 DEF Arrived
<1>7. Head(rcvbuf) \in Arrived
  BY <1>1 DEF Arrived
<1> QED BY <1>4, <1>5, <1>6, <1>7

(* A datagram that joins the buffer.                                       *)
LEMMA BufferAppend ==
    ASSUME TypeOK, PlacesInv, NEW m \in Datagrams, m \notin Arrived,
           rcvbuf' = Append(rcvbuf, m)
    PROVE  /\ Arrived' = Arrived \cup {m}
           /\ \A i, j \in DOMAIN rcvbuf' : rcvbuf'[i] = rcvbuf'[j] => i = j
<1> DEFINE n == Len(rcvbuf) + 1
<1>1. /\ DOMAIN rcvbuf = 1 .. Len(rcvbuf) /\ Len(rcvbuf) \in Nat
      /\ DOMAIN rcvbuf' = DOMAIN rcvbuf \cup {n} /\ rcvbuf'[n] = m
      /\ \A i \in DOMAIN rcvbuf : rcvbuf'[i] = rcvbuf[i]
  <2>1. rcvbuf \in Seq(Datagrams)
    BY DEF TypeOK
  <2>2. /\ Len(rcvbuf') = n /\ DOMAIN rcvbuf' = 1 .. n /\ Len(rcvbuf) \in Nat
        /\ DOMAIN rcvbuf = 1 .. Len(rcvbuf)
    BY <2>1
  <2>3. rcvbuf'[n] = m /\ \A i \in DOMAIN rcvbuf : rcvbuf'[i] = rcvbuf[i]
    BY <2>1, <2>2
  <2> QED BY <2>2, <2>3
<1>2. \A i \in DOMAIN rcvbuf : rcvbuf[i] # m
  BY DEF Arrived
<1> HIDE DEF n
<1>3. \A i, j \in DOMAIN rcvbuf' : rcvbuf'[i] = rcvbuf'[j] => i = j
  BY <1>1, <1>2 DEF PlacesInv
<1>4. Arrived' = Arrived \cup {m}
  BY <1>1 DEF Arrived
<1> QED BY <1>3, <1>4

(* What each step does with the datagrams.                                 *)
LEMMA SendtoMoves ==
    ASSUME TypeOK, PlacesInv, Sendto
    PROVE  \E d \in Datagrams :
           /\ requests' = requests \cup {d} /\ d.seq = seq /\ d.copy = 0
           /\ InFlight' = InFlight \cup {d} /\ InHand = {} /\ InHand' = {}
           /\ ~Genuine(d) /\ Genuine(d)'
           /\ \A m \in Datagrams : Genuine(m) => Genuine(m)'
<1> USE EchoAssumption
<1>1. PICK d \in Datagrams : /\ d = [seq |-> seq, copy |-> 0]
                             /\ d.seq = seq /\ d.copy = 0
  <2>1. seq \in Nat
    BY DEF TypeOK
  <2>2. [seq |-> seq, copy |-> 0] \in Datagrams
    BY <2>1 DEF Datagrams
  <2> QED BY <2>2
<1>2. requests' = requests \cup {d} /\ Arrived' = Arrived /\ replies' = replies
  BY <1>1 DEF Sendto, Arrived
<1>3. InHand = {} /\ InHand' = {}
  BY DEF Sendto, InHand, HasReply
<1>4. pc = "loop" /\ pc' = "sent" /\ seq' = seq /\ copies' = copies /\ copies >= 0
  BY DEF TypeOK, Sendto
<1>5. ~Genuine(d)
  BY <1>1, <1>4 DEF TypeOK, Genuine
<1>6. Genuine(d)'
  BY <1>1, <1>4 DEF TypeOK, Genuine
<1>7. \A m \in Datagrams : Genuine(m) => Genuine(m)'
  BY <1>4 DEF Genuine
<1>8. InFlight' = InFlight \cup {d}
  BY <1>2 DEF InFlight
<1> QED BY <1>1, <1>2, <1>3, <1>5, <1>6, <1>7, <1>8

LEMMA ReceiveMoves ==
    ASSUME TypeOK, PlacesInv, Receive
    PROVE  LET h == Head(rcvbuf) IN
           /\ h \in InFlight /\ h \in Datagrams
           /\ InFlight' = InFlight \ {h} /\ InHand = {} /\ InHand' = {h}
           /\ Arrived' \subseteq Arrived
           /\ \A i, j \in DOMAIN rcvbuf' : rcvbuf'[i] = rcvbuf'[j] => i = j
           /\ \A m \in Datagrams : Genuine(m) => Genuine(m)'
<1> DEFINE h == Head(rcvbuf)
<1>1. /\ h \in Arrived /\ Arrived' = Arrived \ {h}
      /\ \A i, j \in DOMAIN rcvbuf' : rcvbuf'[i] = rcvbuf'[j] => i = j
  BY BufferTail DEF Receive
<1>2. requests' = requests /\ replies' = replies
  BY DEF Receive
<1>3. h \notin requests \cup replies
  BY <1>1 DEF PlacesInv
<1>4. InFlight' = InFlight \ {h} /\ h \in InFlight
  BY <1>1, <1>2, <1>3 DEF InFlight
<1>5. h \in Datagrams
  BY <1>4, PlacesTyped
<1>6. InHand = {} /\ InHand' = {h}
  BY DEF Receive, InHand, HasReply
<1>7. \A m \in Datagrams : Genuine(m) => Genuine(m)'
  BY DEF Receive, Genuine
<1> QED BY <1>1, <1>4, <1>5, <1>6, <1>7

LEMMA EchoMoves ==
    ASSUME TypeOK, NEW m \in requests, Echo(m)
    PROVE  /\ InFlight' = InFlight /\ InHand' = InHand /\ Arrived' = Arrived
           /\ \A k \in Datagrams : Genuine(k) => Genuine(k)'
  BY DEF Echo, InFlight, InHand, HasReply, Arrived, clientVars, Genuine

LEMMA DeliverMoves ==
    ASSUME TypeOK, PlacesInv, NEW m \in requests \cup replies, Deliver(m)
    PROVE  /\ InFlight' \subseteq InFlight /\ InHand' = InHand
           /\ Arrived' \cap (requests' \cup replies') = {}
           /\ \A i, j \in DOMAIN rcvbuf' : rcvbuf'[i] = rcvbuf'[j] => i = j
           /\ \A k \in Datagrams : Genuine(k) => Genuine(k)'
<1>1. /\ m \in replies /\ m \notin Arrived /\ m \notin requests /\ m \in Datagrams
      /\ replies' = replies \ {m} /\ requests' = requests
  BY DEF TypeOK, PlacesInv, Deliver
<1>2. Arrived \cap (requests \cup replies) = {}
  BY DEF PlacesInv
<1>3. InHand' = InHand /\ \A k \in Datagrams : Genuine(k) => Genuine(k)'
  BY DEF Deliver, InHand, HasReply, clientVars, Genuine
<1>4. CASE Len(rcvbuf) < RcvBuf
  <2>1. rcvbuf' = Append(rcvbuf, m)
    BY <1>4 DEF Deliver
  <2>2. /\ Arrived' = Arrived \cup {m}
        /\ \A i, j \in DOMAIN rcvbuf' : rcvbuf'[i] = rcvbuf'[j] => i = j
    BY <1>1, <2>1, BufferAppend
  <2> QED BY <1>1, <1>2, <1>3, <2>2 DEF InFlight
<1>5. CASE ~(Len(rcvbuf) < RcvBuf)
  <2>1. rcvbuf' = rcvbuf
    BY <1>5 DEF Deliver
  <2>2. Arrived' = Arrived
    BY <2>1 DEF Arrived
  <2> QED BY <1>1, <1>2, <1>3, <2>1, <2>2 DEF InFlight, PlacesInv
<1> QED BY <1>4, <1>5

LEMMA LoseMoves ==
    ASSUME NEW m \in requests \cup replies, Lose(m)
    PROVE  /\ InFlight' \subseteq InFlight /\ InHand' = InHand /\ Arrived' = Arrived
           /\ requests' \subseteq requests /\ replies' \subseteq replies
           /\ \A k \in Datagrams : Genuine(k) => Genuine(k)'
  BY DEF Lose, InFlight, InHand, HasReply, Arrived, clientVars, Genuine

LEMMA DuplicateMoves ==
    ASSUME TypeOK, PlacesInv, NEW m \in requests \cup replies, Duplicate(m)
    PROVE  \E again \in Datagrams :
           /\ InFlight' = InFlight \cup {again} /\ InHand' = InHand /\ Arrived' = Arrived
           /\ \/ requests' = requests \cup {again} /\ replies' = replies
              \/ replies' = replies \cup {again} /\ requests' = requests
           /\ ~Genuine(again) /\ Genuine(again)' /\ again.copy = copies + 1
           /\ \A k \in Datagrams : Genuine(k) => Genuine(k)'
<1> USE EchoAssumption
<1>1. copies \in Nat /\ copies' = copies + 1 /\ m \in Datagrams
  BY DEF TypeOK, Duplicate
<1>2. PICK again \in Datagrams : /\ again = [m EXCEPT !.copy = copies + 1]
                                 /\ again.seq = m.seq /\ again.copy = copies + 1
  <2>1. copies + 1 \in Nat /\ m \in [seq : Nat, copy : Nat]
    BY <1>1 DEF Datagrams
  <2>2. /\ [m EXCEPT !.copy = copies + 1] \in [seq : Nat, copy : Nat]
        /\ [m EXCEPT !.copy = copies + 1].seq = m.seq
        /\ [m EXCEPT !.copy = copies + 1].copy = copies + 1
    BY <2>1
  <2> QED BY <2>2 DEF Datagrams
<1>3. \/ requests' = requests \cup {again} /\ replies' = replies
      \/ replies' = replies \cup {again} /\ requests' = requests
  BY <1>2 DEF Duplicate
<1>4. InHand' = InHand /\ Arrived' = Arrived
  BY DEF Duplicate, InHand, HasReply, Arrived, clientVars
<1>5. Genuine(m)
  BY DEF PlacesInv, InFlight
<1>6. UNCHANGED <<seq, pc>>
  BY DEF Duplicate, clientVars
<1>7. ~Genuine(again) /\ Genuine(again)'
  BY <1>1, <1>2, <1>5, <1>6 DEF Genuine
<1>8. \A k \in Datagrams : Genuine(k) => Genuine(k)'
  BY <1>1, <1>6 DEF Genuine, Datagrams
<1>9. InFlight' = InFlight \cup {again}
  BY <1>3, <1>4 DEF InFlight
<1> QED BY <1>2, <1>3, <1>4, <1>7, <1>8, <1>9

(* A datagram is in one place at a time, and those in the rows in none.    *)
LEMMA PlacesStep ==
    ASSUME TypeOK, TypeOK', PlacesInv, RowsInv, [Next]_vars
    PROVE  PlacesInv'
<1> USE PlacesTyped
<1>1. CASE Quiet \/ QuietServer \/ UNCHANGED vars
  <2>1. /\ UNCHANGED <<requests, replies, rcvbuf, Arrived, InFlight>>
        /\ InHand' \subseteq InHand
        /\ \A m \in Datagrams : Genuine(m) => Genuine(m)'
    BY <1>1, NothingMoves DEF netVars, Arrived, InFlight, InHand, HasReply
  <2>2. HasReply' => got'.reply # NoReply
    BY <1>1, NothingMoves DEF PlacesInv
  <2> QED BY <2>1, <2>2 DEF PlacesInv
<1>2. CASE Sendto
  <2>1. PICK d \in Datagrams :
           /\ requests' = requests \cup {d}
           /\ InFlight' = InFlight \cup {d} /\ InHand' = {}
           /\ ~Genuine(d) /\ Genuine(d)'
           /\ \A m \in Datagrams : Genuine(m) => Genuine(m)'
    BY <1>2, SendtoMoves
  <2>2. replies' = replies /\ rcvbuf' = rcvbuf /\ Arrived' = Arrived /\ pc' = "sent"
    BY <1>2 DEF Sendto, Arrived
  <2>3. d \notin replies \cup Arrived
    BY <2>1 DEF PlacesInv, InFlight
  <2>4. \A m \in InFlight' \cup InHand' : Genuine(m)'
    BY <2>1 DEF PlacesInv
  <2> QED BY <2>1, <2>2, <2>3, <2>4 DEF HasReply, PlacesInv
<1>3. CASE Receive
  <2>1. requests' = requests /\ replies' = replies /\ got'.reply = Head(rcvbuf)
    BY <1>3 DEF Receive
  <2>2. got'.reply # NoReply
    BY <1>3, <2>1, ReceiveMoves, EchoAssumption
  <2> QED BY <1>3, <2>1, <2>2, ReceiveMoves DEF PlacesInv
<1>4. CASE AppendRow \/ Timeout
  <2>1. /\ UNCHANGED <<requests, replies, rcvbuf, Arrived, InFlight>>
        /\ InHand' = {} /\ ~HasReply'
        /\ \A m \in Datagrams : Genuine(m) => Genuine(m)'
    BY <1>4 DEF AppendRow, Timeout, netVars, Arrived, InFlight, InHand, HasReply,
         Genuine
  <2> QED BY <2>1 DEF PlacesInv
<1>5. ASSUME NEW m \in requests, Echo(m)
      PROVE  PlacesInv'
  <2>1. /\ requests' = requests \ {m} /\ replies' = replies \cup {m}
        /\ UNCHANGED <<pc, got, rcvbuf>>
    BY <1>5 DEF Echo, clientVars
  <2> QED BY <1>5, <2>1, EchoMoves DEF HasReply, PlacesInv
<1>6. ASSUME NEW m \in requests \cup replies, Deliver(m)
      PROVE  PlacesInv'
  <2>1. /\ requests' \subseteq requests /\ replies' \subseteq replies
        /\ UNCHANGED <<pc, got>>
    BY <1>6 DEF Deliver, clientVars
  <2> QED BY <1>6, <2>1, DeliverMoves DEF HasReply, PlacesInv
<1>7. ASSUME NEW m \in requests \cup replies, Lose(m)
      PROVE  PlacesInv'
  <2>1. UNCHANGED <<pc, got, rcvbuf>>
    BY <1>7 DEF Lose, clientVars
  <2> QED BY <1>7, <2>1, LoseMoves DEF HasReply, PlacesInv
<1>8. ASSUME NEW m \in requests \cup replies, Duplicate(m)
      PROVE  PlacesInv'
  <2>1. UNCHANGED <<pc, got, rcvbuf>>
    BY <1>8 DEF Duplicate, clientVars
  <2>2. PICK again \in Datagrams :
           /\ InFlight' = InFlight \cup {again} /\ InHand' = InHand /\ Arrived' = Arrived
           /\ \/ requests' = requests \cup {again} /\ replies' = replies
              \/ replies' = replies \cup {again} /\ requests' = requests
           /\ ~Genuine(again) /\ Genuine(again)'
           /\ \A k \in Datagrams : Genuine(k) => Genuine(k)'
    BY <1>8, DuplicateMoves
  <2>3. again \notin InFlight \cup InHand
    BY <2>2 DEF PlacesInv
  <2>4. again \notin requests \cup replies \cup Arrived
    BY <2>3 DEF InFlight
  <2> QED BY <2>1, <2>2, <2>3, <2>4 DEF HasReply, PlacesInv
<1> QED BY <1>1, <1>2, <1>3, <1>4, <1>5, <1>6, <1>7, <1>8, Steps

(* What RowsInv says of the rows alone.                                    *)
RowsOrdered ==
    /\ \A i, j \in Answered : results[i].reply = results[j].reply => i = j
    /\ \A i \in Answered : results[i].reply.seq <= results[i].seq

LEMMA RowsStep ==
    ASSUME TypeOK, TypeOK', PlacesInv, RowsInv, [Next]_vars
    PROVE  RowsInv'
<1> USE PlacesTyped
<1>1. ASSUME UNCHANGED results,
             \A m \in InFlight' \cup InHand' : m \in InFlight \cup InHand \/ ~Genuine(m),
             \A m \in Datagrams : Genuine(m) => Genuine(m)'
      PROVE  RowsInv'
  <2>1. Answered' = Answered
    BY <1>1, RowsKept
  <2>2. RowsOrdered'
    BY <1>1, <2>1 DEF RowsInv, RowsOrdered
  <2>3. \A i \in Answered' : results'[i].reply \notin InFlight' \cup InHand'
    BY <1>1, <2>1 DEF RowsInv
  <2>4. \A i \in Answered' : Genuine(results[i].reply)'
    BY <1>1, <2>1 DEF RowsInv
  <2> QED BY <2>2, <2>3, <2>4 DEF RowsInv, RowsOrdered
<1>2. CASE Quiet \/ QuietServer \/ UNCHANGED vars
  <2>1. /\ InFlight' \cup InHand' \subseteq InFlight \cup InHand
        /\ UNCHANGED results /\ \A m \in Datagrams : Genuine(m) => Genuine(m)'
    BY <1>2, NothingMoves DEF netVars, Arrived, InFlight, InHand, HasReply
  <2> QED BY <1>1, <2>1
<1>3. CASE Sendto
  <2>1. UNCHANGED results
    BY <1>3 DEF Sendto
  <2>2. \A m \in InFlight' \cup InHand' : m \in InFlight \cup InHand \/ ~Genuine(m)
    BY <1>3, SendtoMoves
  <2>3. \A m \in Datagrams : Genuine(m) => Genuine(m)'
    BY <1>3, SendtoMoves
  <2> QED BY <1>1, <2>1, <2>2, <2>3
<1>4. CASE Receive
  <2>1. UNCHANGED results
    BY <1>4 DEF Receive
  <2>2. InFlight' \cup InHand' \subseteq InFlight \cup InHand
    BY <1>4, ReceiveMoves
  <2> QED BY <1>1, <1>4, <2>1, <2>2, ReceiveMoves
<1>5. CASE AppendRow
  <2> DEFINE n == Len(results) + 1
  <2>1. /\ InFlight' = InFlight /\ InHand' = {} /\ InHand = {got.reply}
        /\ pc # "loop" /\ pc' # "loop" /\ seq' = seq
        /\ \A m \in Datagrams : Genuine(m) => Genuine(m)'
    BY <1>5 DEF AppendRow, netVars, Arrived, InFlight, InHand, HasReply, Genuine
  <2>2. got.reply # NoReply /\ got.reply \notin InFlight /\ Genuine(got.reply)
    BY <1>5, <2>1 DEF HasReply, PlacesInv, AppendRow
  <2>3. got.reply.seq <= seq
    BY <2>1, <2>2, EchoAssumption DEF TypeOK, Genuine, Datagrams
  <2>4. /\ Answered' = Answered \cup {n} /\ n \notin Answered
        /\ results'[n].reply = got.reply /\ results'[n].seq = seq
        /\ \A i \in Answered : results'[i] = results[i]
    <3>1. n \notin DOMAIN results
      BY RowSets
    <3> QED BY <1>5, <2>2, <3>1, AppendRowRow, RowAppended DEF Answered
  <2>5. \A i \in Answered : results[i].reply # got.reply
    BY <2>1 DEF RowsInv
  <2>6. RowsOrdered'
    BY <2>3, <2>4, <2>5 DEF RowsInv, RowsOrdered
  <2>7. \A i \in Answered' : results'[i].reply \notin InFlight' \cup InHand'
    BY <2>1, <2>2, <2>4 DEF RowsInv
  <2>8. \A i \in Answered' : Genuine(results[i].reply)'
    BY <2>1, <2>2, <2>4 DEF RowsInv
  <2> QED BY <2>6, <2>7, <2>8 DEF RowsInv, RowsOrdered
<1>6. CASE Timeout
  <2>1. /\ InFlight' = InFlight /\ InHand' = {}
        /\ \A m \in Datagrams : Genuine(m) => Genuine(m)'
    BY <1>6 DEF Timeout, netVars, Arrived, InFlight, InHand, HasReply, Genuine
  <2>2. /\ Answered' = Answered
        /\ \A i \in Answered : results'[i] = results[i]
    BY <1>6, TimeoutRow, RowAppended DEF Answered
  <2>3. RowsOrdered'
    BY <2>2 DEF RowsInv, RowsOrdered
  <2>4. \A i \in Answered' : results'[i].reply \notin InFlight' \cup InHand'
    BY <2>1, <2>2 DEF RowsInv
  <2>5. \A i \in Answered' : Genuine(results[i].reply)'
    BY <2>1, <2>2 DEF RowsInv
  <2> QED BY <2>3, <2>4, <2>5 DEF RowsInv, RowsOrdered
<1>7. ASSUME NEW m \in requests, Echo(m)
      PROVE  RowsInv'
  <2>1. UNCHANGED results /\ InFlight' \cup InHand' \subseteq InFlight \cup InHand
    BY <1>7, EchoMoves DEF Echo, clientVars
  <2> QED BY <1>1, <1>7, <2>1, EchoMoves
<1>8. ASSUME NEW m \in requests \cup replies, Deliver(m) \/ Lose(m)
      PROVE  RowsInv'
  <2>1. UNCHANGED results /\ InFlight' \cup InHand' \subseteq InFlight \cup InHand
    BY <1>8, DeliverMoves, LoseMoves DEF Deliver, Lose, clientVars
  <2> QED BY <1>1, <1>8, <2>1, DeliverMoves, LoseMoves
<1>9. ASSUME NEW m \in requests \cup replies, Duplicate(m)
      PROVE  RowsInv'
  <2>1. UNCHANGED results
    BY <1>9 DEF Duplicate, clientVars
  <2>2. PICK again \in Datagrams :
           /\ InFlight' = InFlight \cup {again} /\ InHand' = InHand /\ ~Genuine(again)
           /\ \A k \in Datagrams : Genuine(k) => Genuine(k)'
    BY <1>9, DuplicateMoves
  <2>3. \A k \in InFlight' \cup InHand' : k \in InFlight \cup InHand \/ ~Genuine(k)
    BY <2>2
  <2> QED BY <1>1, <2>1, <2>2, <2>3
<1> QED BY <1>2, <1>3, <1>4, <1>5, <1>6, <1>7, <1>8, <1>9, Steps

(* The datagrams that are somewhere.                                       *)
Known == InFlight \cup InHand \cup {results[i].reply : i \in Answered}

(* Only Sendto and Duplicate make a datagram, and only the latter a copy,  *)
(* the next one.                                                           *)
LEMMA KnownStep ==
    ASSUME TypeOK, PlacesInv, [Next]_vars
    PROVE  \E d : /\ Known' \subseteq Known \cup {d}
                  /\ d.copy = 0 \/ d.copy = copies + 1
<1> DEFINE d0 == [seq |-> seq, copy |-> 0]
<1>1. d0.copy = 0
  OBVIOUS
<1> HIDE DEF d0
<1>2. ASSUME UNCHANGED results
      PROVE  {results[i].reply : i \in Answered}' = {results[i].reply : i \in Answered}
  BY <1>2, RowsKept
<1>3. CASE Quiet \/ QuietServer \/ UNCHANGED vars
  <2>1. InFlight' = InFlight /\ InHand' \subseteq InHand /\ UNCHANGED results
    BY <1>3, NothingMoves DEF netVars, Arrived, InFlight, InHand, HasReply
  <2> QED BY <1>1, <1>2, <2>1 DEF Known
<1>4. CASE Sendto
  <2>1. UNCHANGED results
    BY <1>4 DEF Sendto
  <2>2. PICK d \in Datagrams : /\ InFlight' = InFlight \cup {d} /\ InHand' = {}
                               /\ d.copy = 0
    BY <1>4, SendtoMoves
  <2> QED BY <1>2, <2>1, <2>2 DEF Known
<1>5. CASE Receive
  <2>1. UNCHANGED results
    BY <1>5 DEF Receive
  <2>2. InFlight' \cup InHand' \subseteq InFlight \cup InHand
    BY <1>5, ReceiveMoves
  <2> QED BY <1>1, <1>2, <2>1, <2>2 DEF Known
<1>6. CASE AppendRow
  <2> DEFINE n == Len(results) + 1
  <2>1. InFlight' = InFlight /\ InHand' = {} /\ InHand = {got.reply}
    BY <1>6 DEF AppendRow, netVars, Arrived, InFlight, InHand, HasReply
  <2>2. got.reply # NoReply
    BY <1>6 DEF HasReply, PlacesInv, AppendRow
  <2>3. /\ Answered' = Answered \cup {n} /\ results'[n].reply = got.reply
        /\ \A i \in Answered : results'[i] = results[i]
    BY <1>6, <2>2, AppendRowRow, RowAppended DEF Answered
  <2> QED BY <1>1, <2>1, <2>3 DEF Known
<1>7. CASE Timeout
  <2>1. InFlight' = InFlight /\ InHand' = {}
    BY <1>7 DEF Timeout, netVars, Arrived, InFlight, InHand, HasReply
  <2>2. Answered' = Answered /\ \A i \in Answered : results'[i] = results[i]
    BY <1>7, TimeoutRow, RowAppended DEF Answered
  <2> QED BY <1>1, <2>1, <2>2 DEF Known
<1>8. ASSUME NEW m \in requests, Echo(m)
      PROVE  Known' \subseteq Known
  <2>1. UNCHANGED results
    BY <1>8 DEF Echo, clientVars
  <2> QED BY <1>2, <1>8, <2>1, EchoMoves DEF Known
<1>9. ASSUME NEW m \in requests \cup replies, Deliver(m) \/ Lose(m)
      PROVE  Known' \subseteq Known
  <2>1. UNCHANGED results /\ InFlight' \cup InHand' \subseteq InFlight \cup InHand
    BY <1>9, DeliverMoves, LoseMoves DEF Deliver, Lose, clientVars
  <2> QED BY <1>2, <2>1 DEF Known
<1>10. ASSUME NEW m \in requests \cup replies, Duplicate(m)
       PROVE  \E d : Known' \subseteq Known \cup {d} /\ d.copy = copies + 1
  <2>1. UNCHANGED results
    BY <1>10 DEF Duplicate, clientVars
  <2>2. PICK again \in Datagrams : /\ InFlight' = InFlight \cup {again} /\ InHand' = InHand
                                   /\ again.copy = copies + 1
    BY <1>10, DuplicateMoves
  <2> QED BY <1>2, <2>1, <2>2 DEF Known
<1> QED BY <1>1, <1>3, <1>4, <1>5, <1>6, <1>7, <1>8, <1>9, <1>10, Steps

(* Copies are numbered one after the other.                                *)
LEMMA CopiesStep ==
    ASSUME TypeOK, PlacesInv, RowsInv, CopiesInv, [Next]_vars
    PROVE  CopiesInv'
<1>1. PICK d : /\ Known' \subseteq Known \cup {d}
               /\ d.copy = 0 \/ d.copy = copies + 1
  BY KnownStep
<1>2. \A m \in Known : m.copy \in Nat /\ m.copy <= copies
  BY PlacesTyped DEF Known, PlacesInv, RowsInv, Genuine, Datagrams
<1>3. copies \in Nat
  BY EchoAssumption DEF TypeOK
<1>4. ASSUME NEW m \in Known', NEW k \in Known', m.copy = k.copy, m.copy # 0
      PROVE  m = k
  <2>1. m \in Known => m.copy # copies + 1
    BY <1>2, <1>3
  <2>2. k \in Known => k.copy # copies + 1
    BY <1>2, <1>3
  <2> QED BY <1>1, <1>4, <2>1, <2>2 DEF CopiesInv, Known
<1> QED BY <1>4 DEF CopiesInv, Known

(* The rows of one request differ in the copy, and the copies of all rows  *)
(* differ, so that those with a copy are as many as there are copies at    *)
(* most and the others as many as there are requests.                      *)
LEMMA RowsCounted ==
    ASSUME TypeOK, PlacesInv, RowsInv, CopiesInv
    PROVE  RowsExceedRequestsByCopies
<1> DEFINE Originals == {i \in Answered : results[i].reply.copy = 0}
           Repeats == {i \in Answered : results[i].reply.copy # 0}
<1>1. IsFiniteSet(Answered) /\ copies \in Nat
  BY RowSets, EchoAssumption DEF TypeOK
<1>2. \A i \in Answered : /\ results[i].reply \in [seq : Nat, copy : Nat]
                           /\ results[i].reply.copy <= copies
  BY PlacesTyped DEF RowsInv, Genuine, Datagrams
<1>3. /\ IsFiniteSet(Originals) /\ IsFiniteSet(Repeats)
      /\ Answered = Originals \cup Repeats /\ Originals \cap Repeats = {}
  <2>1. Originals \subseteq Answered /\ Repeats \subseteq Answered
    OBVIOUS
  <2>2. IsFiniteSet(Originals) /\ IsFiniteSet(Repeats)
    BY <1>1, <2>1, FS_Subset
  <2> QED BY <2>2
<1>4. IsFiniteSet(RequestsInRows)
  <2> DEFINE f == [i \in Answered |-> results[i].reply.seq]
  <2>1. f \in Surjection(Answered, RequestsInRows)
    BY DEF Surjection, RequestsInRows
  <2> QED BY <1>1, <2>1, FS_Surjection
<1>5. Cardinality(Originals) <= Cardinality(RequestsInRows)
  <2> DEFINE f == [i \in Originals |-> results[i].reply.seq]
  <2>1. \A i, j \in Originals : f[i] = f[j] => i = j
    <3> SUFFICES ASSUME NEW i \in Originals, NEW j \in Originals, f[i] = f[j]
                 PROVE  i = j
      OBVIOUS
    <3>1. results[i].reply = results[j].reply
      BY <1>2
    <3> QED BY <3>1 DEF RowsInv
  <2>2. f \in [Originals -> RequestsInRows]
    BY DEF RequestsInRows
  <2>3. f \in Injection(Originals, RequestsInRows)
    BY <2>1, <2>2 DEF Injection, IsInjective
  <2> QED BY <1>4, <2>3, FS_Injection
<1>6. Cardinality(Repeats) <= copies
  <2> DEFINE f == [i \in Repeats |-> results[i].reply.copy]
  <2>1. \A i, j \in Repeats : f[i] = f[j] => i = j
    <3> SUFFICES ASSUME NEW i \in Repeats, NEW j \in Repeats, f[i] = f[j]
                 PROVE  i = j
      OBVIOUS
    <3>1. results[i].reply = results[j].reply
      BY DEF CopiesInv
    <3> QED BY <3>1 DEF RowsInv
  <2>2. f \in [Repeats -> 1 .. copies]
    BY <1>1, <1>2
  <2>3. f \in Injection(Repeats, 1 .. copies)
    BY <2>1, <2>2 DEF Injection, IsInjective
  <2>4. IsFiniteSet(1 .. copies) /\ Cardinality(1 .. copies) = copies
    <3>1. /\ IsFiniteSet(1 .. copies)
          /\ Cardinality(1 .. copies) = IF 1 > copies THEN 0 ELSE copies - 1 + 1
      BY <1>1, FS_Interval
    <3> QED BY <1>1, <3>1
  <2> QED BY <2>3, <2>4, FS_Injection
<1>7. Cardinality(Answered) = Cardinality(Originals) + Cardinality(Repeats)
  <2> HIDE DEF Originals, Repeats
  <2>1. /\ Cardinality(Originals \cup Repeats) = Cardinality(Originals)
              + Cardinality(Repeats) - Cardinality(Originals \cap Repeats)
        /\ Cardinality(Originals) \in Nat /\ Cardinality(Repeats) \in Nat
    BY <1>3, FS_Union, FS_CardinalityType
  <2> QED BY <1>3, <2>1, FS_EmptySet
<1>8. /\ Cardinality(Originals) \in Nat /\ Cardinality(Repeats) \in Nat
      /\ Cardinality(RequestsInRows) \in Nat
  BY <1>3, <1>4, FS_CardinalityType
<1> HIDE DEF Originals, Repeats
<1>9. Cardinality(Answered) <= Cardinality(RequestsInRows) + copies
  BY <1>1, <1>5, <1>6, <1>7, <1>8
<1> QED BY <1>9 DEF RowsExceedRequestsByCopies, RowsInv

-----------------------------------------------------------------------------
(* Until something is late or doubled, and the count of what was echoed.   *)

LEMMA TimedOutStays ==
    ASSUME TypeOK, PlacesInv, [Next]_vars
    PROVE  TimedOut \subseteq TimedOut' /\ copies <= copies'
<1>1. CASE AppendRow
  <2>1. TimedOut' = TimedOut
    BY <1>1, AppendRowRow, RowAppended DEF HasReply, PlacesInv, AppendRow
  <2> QED BY <1>1, <2>1, EchoAssumption DEF TypeOK, AppendRow, netVars
<1>2. CASE Timeout
  <2>1. TimedOut' = TimedOut \cup {Len(results) + 1}
    BY <1>2, TimeoutRow, RowAppended
  <2> QED BY <1>2, <2>1, EchoAssumption DEF TypeOK, Timeout, netVars
<1>3. CASE ~AppendRow /\ ~Timeout
  <2>1. CASE Quiet \/ QuietServer \/ UNCHANGED vars
    BY <2>1, NothingMoves, RowsKept, EchoAssumption DEF TypeOK, netVars
  <2>2. CASE Sendto \/ Receive
    BY <2>2, RowsKept, EchoAssumption DEF TypeOK, Sendto, Receive
  <2>3. ASSUME NEW m \in requests, Echo(m)
        PROVE  TimedOut \subseteq TimedOut' /\ copies <= copies'
    BY <2>3, RowsKept, EchoAssumption DEF TypeOK, Echo, clientVars
  <2>4. ASSUME NEW m \in requests \cup replies, Deliver(m) \/ Lose(m) \/ Duplicate(m)
        PROVE  TimedOut \subseteq TimedOut' /\ copies <= copies'
    BY <2>4, RowsKept, EchoAssumption DEF TypeOK, Deliver, Lose, Duplicate, clientVars
  <2> QED BY <1>3, <2>1, <2>2, <2>3, <2>4, Steps
<1> QED BY <1>1, <1>2, <1>3

LEMMA CleanStep ==
    ASSUME TypeOK, TypeOK', PlacesInv, PlacesInv', CleanInv, [Next]_vars
    PROVE  CleanInv'
<1> SUFFICES ASSUME TimedOut' = {}, copies' = 0
             PROVE  /\ pc' # "timedout"
                    /\ \A i \in Answered' : results'[i].reply.seq = results'[i].seq
                    /\ pc' \in {"sent", "waiting"} => \A m \in InFlight' : m.seq = seq'
                    /\ pc' \in {"loop", "pause"} \/ HasReply' => InFlight' = {}
                    /\ \A m \in InHand' : m.seq = seq'
  BY DEF CleanInv
<1> USE PlacesTyped, EchoAssumption
<1>1. TimedOut = {} /\ copies = 0
  BY TimedOutStays DEF TypeOK
<1>2. /\ pc # "timedout"
      /\ \A i \in Answered : results[i].reply.seq = results[i].seq
      /\ pc \in {"sent", "waiting"} => \A m \in InFlight : m.seq = seq
      /\ pc \in {"loop", "pause"} \/ HasReply => InFlight = {}
      /\ \A m \in InHand : m.seq = seq
  BY <1>1 DEF CleanInv
<1>3. CASE Quiet \/ QuietServer \/ UNCHANGED vars
  <2>1. InFlight' = InFlight /\ InHand' \subseteq InHand /\ results' = results
    BY <1>3, NothingMoves DEF netVars, Arrived, InFlight, InHand, HasReply
  <2>2. Answered' = Answered
    BY <2>1, RowsKept
  <2>3. CASE Sleep
    <3>1. InHand = {} /\ pc = "pause" /\ pc' = "loop"
      BY <2>3 DEF Sleep, InHand, HasReply
    <3> QED BY <1>2, <2>1, <2>2, <3>1
  <2>4. CASE ~Sleep
    <3>1. /\ seq' = seq /\ pc' # "timedout"
          /\ pc' \in {"sent", "waiting"} => pc \in {"sent", "waiting"}
          /\ pc' \in {"loop", "pause"} \/ HasReply' => pc \in {"loop", "pause"} \/ HasReply
      BY <1>2, <1>3, <2>4 DEF HasReply, Quiet, SendtoFails, CountSent, CountReceived,
           CountMissed, CountTimeout,
            LoopEnds, Interrupt, WriteLog, QuietServer, CountEchoed, ServerStops, vars,
            clientVars, counters
    <3> QED BY <1>2, <2>1, <2>2, <3>1
  <2> QED BY <2>3, <2>4
<1>4. CASE Sendto
  <2>1. /\ pc = "loop" /\ pc' = "sent" /\ seq' = seq /\ results' = results
        /\ Answered' = Answered
    BY <1>4, RowsKept DEF Sendto
  <2>2. PICK d \in Datagrams : /\ InFlight' = InFlight \cup {d} /\ InHand' = {}
                               /\ d.seq = seq
    BY <1>4, SendtoMoves
  <2> QED BY <1>2, <2>1, <2>2 DEF HasReply
<1>5. CASE Receive
  <2> DEFINE h == Head(rcvbuf)
  <2>1. /\ pc = "waiting" /\ pc' = "received" /\ seq' = seq /\ results' = results
        /\ Answered' = Answered
    BY <1>5, RowsKept DEF Receive
  <2>2. /\ h \in InFlight /\ InFlight' = InFlight \ {h} /\ InHand' = {h}
    BY <1>5, ReceiveMoves
  <2>3. \A m \in InFlight : m \in [seq : Nat, copy : Nat] /\ m.seq = seq /\ m.copy = 0
    BY <1>1, <1>2, <2>1 DEF PlacesInv, Genuine, Datagrams
  <2> HIDE DEF h
  <2>4. \A m \in InFlight : m = h
    BY <2>2, <2>3
  <2> QED BY <1>2, <2>1, <2>2, <2>3, <2>4
<1>6. CASE AppendRow
  <2> DEFINE n == Len(results) + 1
  <2>1. /\ InFlight' = InFlight /\ InHand' = {} /\ InHand = {got.reply}
        /\ pc = "checked" /\ pc' = "pause" /\ seq' = seq
    BY <1>6 DEF AppendRow, netVars, Arrived, InFlight, InHand, HasReply
  <2>2. got.reply # NoReply
    BY <1>6 DEF HasReply, PlacesInv, AppendRow
  <2>3. /\ Answered' = Answered \cup {n}
        /\ results'[n].reply = got.reply /\ results'[n].seq = seq
        /\ \A i \in Answered : results'[i] = results[i]
    BY <1>6, <2>2, AppendRowRow, RowAppended DEF Answered
  <2>4. got.reply.seq = seq
    BY <1>2, <2>1
  <2> QED BY <1>2, <2>1, <2>3, <2>4 DEF HasReply
<1>7. CASE Timeout
  <2>1. TimedOut' # {}
    BY <1>7, TimeoutRow, RowAppended
  <2> QED BY <2>1
<1>8. ASSUME NEW m \in requests \cup replies,
             (m \in requests /\ Echo(m)) \/ Deliver(m) \/ Lose(m)
      PROVE  /\ pc' # "timedout"
             /\ \A i \in Answered' : results'[i].reply.seq = results'[i].seq
             /\ pc' \in {"sent", "waiting"} => \A k \in InFlight' : k.seq = seq'
             /\ pc' \in {"loop", "pause"} \/ HasReply' => InFlight' = {}
             /\ \A k \in InHand' : k.seq = seq'
  <2>1. InFlight' \subseteq InFlight /\ InHand' = InHand
    BY <1>8, EchoMoves, DeliverMoves, LoseMoves
  <2>2. UNCHANGED <<pc, seq, results>> /\ Answered' = Answered
    BY <1>8, RowsKept DEF Echo, Deliver, Lose, clientVars
  <2> QED BY <1>2, <2>1, <2>2 DEF HasReply
<1>9. ASSUME NEW m \in requests \cup replies, Duplicate(m)
      PROVE  FALSE
  BY <1>1, <1>9 DEF Duplicate
<1> QED BY <1>3, <1>4, <1>5, <1>6, <1>7, <1>8, <1>9, Steps

LEMMA EchoedStep ==
    ASSUME TypeOK, TypeOK', PlacesInv, EchoedInv, [Next]_vars
    PROVE  EchoedInv'
<1> USE EchoAssumption
<1>1. /\ IsFiniteSet(replies) /\ Cardinality(replies) \in Nat
      /\ received \in Nat /\ echoed \in Nat /\ copies \in Nat
      /\ rcvbuf \in Seq(Datagrams) /\ Len(rcvbuf) \in Nat
  BY FS_CardinalityType DEF TypeOK
<1>2. CASE Quiet
  <2>1. UNCHANGED <<replies, rcvbuf, copies, server, echoed>>
    BY <1>2 DEF Quiet, SendtoFails, CountSent, CountReceived, CountMissed,
         CountTimeout, Sleep,
                LoopEnds, Interrupt, WriteLog, netVars, serverVars
  <2>2. \/ received' = received /\ (pc' = "received" => pc = "received")
        \/ received' = received + 1 /\ pc = "received" /\ pc' # "received"
    BY <1>2 DEF Quiet, SendtoFails, CountSent, CountReceived, CountMissed,
         CountTimeout, Sleep,
                LoopEnds, Interrupt, WriteLog, counters
  <2> QED BY <1>1, <2>1, <2>2 DEF EchoedInv
<1>3. CASE QuietServer
  <2>1. UNCHANGED <<replies, rcvbuf, copies, received, pc>>
    BY <1>3 DEF QuietServer, CountEchoed, ServerStops, clientVars, counters, netVars
  <2>2. \/ echoed' = echoed + 1 /\ server # "ready" /\ server' = "ready"
        \/ echoed' = echoed /\ server' # "ready"
    BY <1>3 DEF QuietServer, CountEchoed, ServerStops
  <2> QED BY <1>1, <2>1, <2>2 DEF EchoedInv
<1>4. CASE Sendto \/ AppendRow \/ Timeout
  <2>1. /\ UNCHANGED <<replies, rcvbuf, copies, server, echoed, received>>
        /\ pc' # "received"
    BY <1>4 DEF Sendto, AppendRow, Timeout, counters, netVars, serverVars
  <2> QED BY <1>1, <2>1 DEF EchoedInv
<1>5. CASE Receive
  <2>1. /\ UNCHANGED <<replies, copies, server, echoed, received>>
        /\ pc = "waiting" /\ pc' = "received"
    BY <1>5 DEF Receive, counters, serverVars
  <2>2. Len(rcvbuf') = Len(rcvbuf) - 1
    BY <1>1, <1>5 DEF Receive
  <2> QED BY <1>1, <2>1, <2>2 DEF EchoedInv
<1>6. ASSUME NEW m \in requests, Echo(m)
      PROVE  EchoedInv'
  <2>1. /\ UNCHANGED <<pc, received, rcvbuf, copies, echoed>>
        /\ server = "ready" /\ server' # "ready"
    BY <1>6 DEF Echo, clientVars, counters
  <2>2. Cardinality(replies') <= Cardinality(replies) + 1 /\ Cardinality(replies') \in Nat
    <3>1. /\ Cardinality(replies \cup {m}) \in {Cardinality(replies), Cardinality(replies) + 1}
          /\ replies' = replies \cup {m}
      BY <1>1, <1>6, FS_AddElement DEF Echo
    <3> QED BY <1>1, <3>1
  <2> QED BY <1>1, <2>1, <2>2 DEF EchoedInv
<1>7. ASSUME NEW m \in requests \cup replies, Deliver(m)
      PROVE  EchoedInv'
  <2>1. UNCHANGED <<pc, received, copies, echoed, server>>
    BY <1>7 DEF Deliver, clientVars, counters, serverVars
  <2>2. Cardinality(replies') = Cardinality(replies) - 1
    BY <1>1, <1>7, FS_RemoveElement DEF Deliver
  <2>3. Len(rcvbuf') \in {Len(rcvbuf), Len(rcvbuf) + 1}
    <3>1. m \in Datagrams
      BY DEF TypeOK
    <3> QED BY <1>1, <1>7, <3>1 DEF Deliver
  <2> QED BY <1>1, <2>1, <2>2, <2>3 DEF EchoedInv
<1>8. ASSUME NEW m \in requests \cup replies, Lose(m)
      PROVE  EchoedInv'
  <2>1. UNCHANGED <<pc, received, rcvbuf, copies, echoed, server>>
    BY <1>8 DEF Lose, clientVars, counters, serverVars
  <2>2. Cardinality(replies') \in {Cardinality(replies), Cardinality(replies) - 1}
    BY <1>1, <1>8, FS_RemoveElement DEF Lose
  <2> QED BY <1>1, <2>1, <2>2 DEF EchoedInv
<1>9. ASSUME NEW m \in requests \cup replies, Duplicate(m)
      PROVE  EchoedInv'
  <2>1. UNCHANGED <<pc, received, rcvbuf, echoed, server>> /\ copies' = copies + 1
    BY <1>9 DEF Duplicate, clientVars, counters, serverVars
  <2>2. PICK again \in Datagrams : replies' = replies \cup {again} \/ replies' = replies
    BY <1>9, DuplicateMoves
  <2>3. Cardinality(replies') <= Cardinality(replies) + 1 /\ Cardinality(replies') \in Nat
    <3>1. Cardinality(replies \cup {again}) \in {Cardinality(replies), Cardinality(replies) + 1}
      BY <1>1, FS_AddElement
    <3>2. CASE replies' = replies
      BY <1>1, <3>2
    <3>3. CASE replies' = replies \cup {again}
      BY <1>1, <3>1, <3>3
    <3> QED BY <2>2, <3>2, <3>3
  <2> QED BY <1>1, <2>1, <2>3 DEF EchoedInv
<1>10. CASE UNCHANGED vars
  BY <1>10 DEF EchoedInv, vars, clientVars, counters, netVars, serverVars
<1> QED BY <1>2, <1>3, <1>4, <1>5, <1>6, <1>7, <1>8, <1>9, <1>10, Steps

-----------------------------------------------------------------------------
(* The invariant and what follows from it.                                 *)

LEMMA InvariantInit == Init => IInv
<1> SUFFICES ASSUME Init
             PROVE  IInv
  OBVIOUS
<1>1. Answered = {} /\ TimedOut = {} /\ Missed = {}
  BY DEF Init, Answered, TimedOut, Missed
<1>2. Cardinality(Answered) = 0 /\ Cardinality(Missed) = 0 /\ Cardinality(replies) = 0
  BY <1>1, FS_EmptySet DEF Init
<1>3. InFlight = {} /\ InHand = {} /\ Arrived = {}
  BY DEF Init, InFlight, InHand, HasReply, Arrived
<1>4. TypeOK
  BY TypeInit
<1>5. CountersInv /\ SummaryAgreesWithRows
  BY <1>2 DEF Init, CountersInv, SummaryAgreesWithRows, InLoop, HasReply
<1>6. MissedInv /\ MissedAgreesWithRows
  BY <1>1, <1>2 DEF Init, MissedInv, MissedAgreesWithRows, InLoop, HasReply
<1>7. PlacesInv
  BY <1>3 DEF HasReply, Init, PlacesInv
<1>8. RowsInv /\ CopiesInv /\ CleanInv
  BY <1>1, <1>3 DEF Init, RowsInv, CopiesInv, CleanInv
<1>9. EchoedInv
  BY <1>2 DEF Init, EchoedInv
<1> QED BY <1>4, <1>5, <1>6, <1>7, <1>8, <1>9 DEF IInv

LEMMA InvariantStep == IInv /\ [Next]_vars => IInv'
<1> SUFFICES ASSUME IInv, [Next]_vars
             PROVE  IInv'
  OBVIOUS
<1> USE DEF IInv
<1>1. TypeOK'
  BY TypeStep
<1>2. PlacesInv'
  BY <1>1, PlacesStep
<1> QED BY <1>1, <1>2, CountersStep, MissedStep, RowsStep, CopiesStep, CleanStep,
         EchoedStep

(* The inductive invariant: the counters and the rows move together, every *)
(* datagram is in one place, and nothing but an echo or a copy comes back. *)
THEOREM Invariance == Spec => []IInv
  BY InvariantInit, InvariantStep, PTL DEF Spec

(* Every variable of the two programs and of the network has its type; in  *)
(* particular the client never counts more requests than --count asks for. *)
THEOREM TypeCorrect == Spec => []TypeOK
<1>1. IInv => TypeOK
  BY DEF IInv
<1> QED BY <1>1, Invariance, PTL

(* However late, reordered or duplicated the answers are: the answered     *)
(* rows of the log are at most one more than the requests whose echoes     *)
(* they hold for each duplication, and no row answers a later request.     *)
THEOREM RepliesCountedOnce == Spec => []RowsExceedRequestsByCopies
<1>1. IInv => RowsExceedRequestsByCopies
  BY RowsCounted DEF IInv
<1> QED BY <1>1, Invariance, PTL

(* Before the first timeout and the first duplicate, an answer that        *)
(* recvfrom takes unchecked is the one to the request just sent.           *)
THEOREM OwnReplies == Spec => []OwnReplyUntilTimeout
<1>1. IInv => OwnReplyUntilTimeout
  BY DEF IInv, CleanInv, OwnReplyUntilTimeout
<1> QED BY <1>1, Invariance, PTL

(* Wherever Ctrl-C falls, the counters of the summary and the rows of the  *)
(* log differ by one request at most, and not at all after a full run.     *)
THEOREM SummaryAgrees == Spec => []SummaryAgreesWithRows
<1>1. IInv => SummaryAgreesWithRows
  BY DEF IInv
<1> QED BY <1>1, Invariance, PTL

(* The same for the deadlines that were missed.                            *)
THEOREM MissedAgrees == Spec => []MissedAgreesWithRows
<1>1. IInv => MissedAgreesWithRows
  BY DEF IInv
<1> QED BY <1>1, Invariance, PTL

(* The client's counter of answers is bounded by the server's counter of   *)
(* echoes, the copies of the network and the echo not counted yet.         *)
THEOREM ReceivedEchoed == Spec => []ReceivedWereEchoed
<1>1. IInv => ReceivedWereEchoed
  <2> SUFFICES ASSUME IInv
               PROVE  ReceivedWereEchoed
    OBVIOUS
  <2>1. /\ Cardinality(replies) \in Nat /\ Len(rcvbuf) \in Nat
        /\ received \in Nat /\ echoed \in Nat /\ copies \in Nat
    BY FS_CardinalityType, EchoAssumption DEF IInv, TypeOK
  <2> QED BY <2>1 DEF IInv, EchoedInv, ReceivedWereEchoed
<1> QED BY <1>1, Invariance, PTL
=============================================================================
