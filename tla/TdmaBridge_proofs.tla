-------------------------- MODULE TdmaBridge_proofs -------------------------
(***************************************************************************)
(* The safety properties of the bridge, for every set of publishers, queue *)
(* length and deadline, and that its command queue implements LossyQueue.  *)
(***************************************************************************)
EXTENDS TdmaBridge, SequenceTheorems, TLAPS

-----------------------------------------------------------------------------
(* The three operations on the deque, entry by entry.                      *)

LEMMA PutEntries ==
    ASSUME NEW S, NEW q \in Seq(S), NEW e \in S
    PROVE  /\ Append(q, e) \in Seq(S)
           /\ Len(Append(q, e)) = Len(q) + 1
           /\ \A i \in 1 .. Len(q) : Append(q, e)[i] = q[i]
           /\ Append(q, e)[Len(q) + 1] = e
  OBVIOUS

LEMMA TailEntries ==
    ASSUME NEW S, NEW q \in Seq(S), q # <<>>
    PROVE  /\ Tail(q) \in Seq(S)
           /\ Len(q) \in Nat \ {0}
           /\ Len(Tail(q)) = Len(q) - 1
           /\ \A i \in 1 .. Len(q) - 1 : Tail(q)[i] = q[i + 1]
           /\ Head(q) = q[1] /\ Head(q) \in S
  OBVIOUS

LEMMA RestEntries ==
    ASSUME NEW S, NEW q \in Seq(S), NEW k \in 0 .. Len(q)
    PROVE  /\ SubSeq(q, k + 1, Len(q)) \in Seq(S)
           /\ Len(SubSeq(q, k + 1, Len(q))) = Len(q) - k
           /\ \A i \in 1 .. Len(q) - k : SubSeq(q, k + 1, Len(q))[i] = q[i + k]
  BY SubSeqProperties

(* What enqueue leaves behind: the old entries, without the first one if   *)
(* the deque was full, and the new one.                                    *)
LEMMA EnqueueEntries ==
    ASSUME TypeOK, NEW p \in Publishers, Enqueue(p)
    PROVE  \E d \in 0 .. 1 :
             /\ d = IF Len(queue) >= max_queue_len THEN 1 ELSE 0
             /\ dropped_count' = dropped_count + d
             /\ seq_counter' = seq_counter + 1
             /\ NewCommand(p) \in Commands
             /\ queue' \in Seq(Commands)
             /\ Len(queue') = Len(queue) + 1 - d
             /\ Len(queue') <= max_queue_len
             /\ \A i \in 1 .. Len(queue) - d : queue'[i] = queue[i + d]
             /\ Len(queue') > 0 => queue'[Len(queue')] = NewCommand(p)
<1> DEFINE q == Append(queue, NewCommand(p))
<1>1. NewCommand(p) \in Commands
  BY DEF TypeOK, Enqueue, NewCommand, Commands
<1>2. queue \in Seq(Commands) /\ Len(queue) \in Nat /\ max_queue_len \in Nat
  BY BridgeAssumption DEF TypeOK
<1>3. /\ q \in Seq(Commands) /\ Len(q) = Len(queue) + 1
      /\ \A i \in 1 .. Len(queue) : q[i] = queue[i]
      /\ q[Len(queue) + 1] = NewCommand(p)
  BY <1>1, <1>2, PutEntries
<1> HIDE DEF q
<1>4. CASE Len(queue) >= max_queue_len
  <2>1. queue' = Tail(q) /\ dropped_count' = dropped_count + 1
    BY <1>4 DEF Enqueue, q
  <2>2. q # <<>>
    BY <1>2, <1>3
  <2>3. /\ Tail(q) \in Seq(Commands) /\ Len(Tail(q)) = Len(q) - 1
        /\ \A i \in 1 .. Len(q) - 1 : Tail(q)[i] = q[i + 1]
    BY <1>3, <2>2, TailEntries
  <2>4. Len(queue') = Len(queue) /\ Len(queue) <= max_queue_len
    BY <1>2, <1>3, <2>1, <2>3 DEF TypeOK
  <2>5. \A i \in 1 .. Len(queue) - 1 : queue'[i] = queue[i + 1]
    BY <1>2, <1>3, <2>1, <2>3
  <2>6. Len(queue') > 0 => queue'[Len(queue')] = NewCommand(p)
    BY <1>2, <1>3, <2>1, <2>3, <2>4
  <2>7. seq_counter' = seq_counter + 1
    BY DEF Enqueue
  <2>8. queue' \in Seq(Commands) /\ Len(queue') = Len(queue) + 1 - 1
    BY <1>2, <2>1, <2>3, <2>4
  <2> WITNESS 1 \in 0 .. 1
  <2> QED
    BY <1>1, <1>4, <2>1, <2>4, <2>5, <2>6, <2>7, <2>8
<1>5. CASE ~(Len(queue) >= max_queue_len)
  <2>1. /\ queue' = q /\ dropped_count' = dropped_count
        /\ seq_counter' = seq_counter + 1
    BY <1>5 DEF Enqueue, q
  <2>2. dropped_count = dropped_count + 0
    BY DEF TypeOK
  <2> QED
    BY <1>1, <1>2, <1>3, <1>5, <2>1, <2>2
<1> QED
  BY <1>4, <1>5

(* What expire_before leaves behind.                                       *)
LEMMA ExpireEntries ==
    ASSUME TypeOK, ExpireBefore
    PROVE  \E k \in 0 .. Len(queue) :
             /\ stats' = [stats EXCEPT !.missed_deadline = @ + k]
             /\ queue' \in Seq(Commands)
             /\ Len(queue') = Len(queue) - k
             /\ \A i \in 1 .. Len(queue) - k : queue'[i] = queue[i + k]
             /\ \A i \in 1 .. k : queue[i].deadline_us < now_us
             /\ k < Len(queue) => queue[k + 1].deadline_us >= now_us
<1>1. PICK k \in 0 .. Len(queue) :
          /\ \A i \in 1 .. k : queue[i].deadline_us < now_us
          /\ k < Len(queue) => queue[k + 1].deadline_us >= now_us
          /\ Expire(k)
  BY DEF ExpireBefore
<1>2. queue \in Seq(Commands)
  BY DEF TypeOK
<1>3. /\ SubSeq(queue, k + 1, Len(queue)) \in Seq(Commands)
      /\ Len(SubSeq(queue, k + 1, Len(queue))) = Len(queue) - k
      /\ \A i \in 1 .. Len(queue) - k :
            SubSeq(queue, k + 1, Len(queue))[i] = queue[i + k]
  BY <1>2, RestEntries
<1> QED
  BY <1>1, <1>3 DEF Expire

(* What dequeue takes, and what it leaves behind.                          *)
LEMMA DequeueEntries ==
    ASSUME TypeOK, Dequeue, queue # <<>>
    PROVE  /\ cmd' = queue[1] /\ cmd' \in Commands /\ last' = queue[1].seq
           /\ Len(queue) \in Nat \ {0}
           /\ queue' \in Seq(Commands)
           /\ Len(queue') = Len(queue) - 1
           /\ \A i \in 1 .. Len(queue) - 1 : queue'[i] = queue[i + 1]
           /\ worker' = "socket"
<1>1. queue \in Seq(Commands)
  BY DEF TypeOK
<1>2. /\ Tail(queue) \in Seq(Commands)
      /\ Len(queue) \in Nat \ {0}
      /\ Len(Tail(queue)) = Len(queue) - 1
      /\ \A i \in 1 .. Len(queue) - 1 : Tail(queue)[i] = queue[i + 1]
      /\ Head(queue) = queue[1] /\ Head(queue) \in Commands
  BY <1>1, TailEntries
<1> QED
  BY <1>2 DEF Dequeue

(* The steps that leave the queue and its counters alone.                  *)
Elsewhere == \/ Tick \/ Main
             \/ CheckRunning \/ ReadClock \/ ReadDropped \/ OpenSocket \/ CallSendto
             \/ \E p \in Publishers : CmdVelCallback(p)
             \/ \E ok \in BOOLEAN : Sendto(ok)
             \/ Dequeue /\ queue = <<>>
             \/ UNCHANGED vars

LEMMA StepKinds ==
    ASSUME [Next]_vars
    PROVE  \/ \E p \in Publishers : Enqueue(p)
           \/ ExpireBefore
           \/ Dequeue /\ queue # <<>>
           \/ Elsewhere
  BY DEF Next, Worker, Callback, Elsewhere

LEMMA ElsewhereKeepsQueue ==
    ASSUME Elsewhere
    PROVE  /\ queue' = queue /\ seq_counter' = seq_counter
           /\ dropped_count' = dropped_count /\ last' = last
  BY DEF Elsewhere, Tick, Main, ConfigureFails, Start, Subscribe, InterruptOutsideLoop,
     Interrupt, Shutdown, Join, CloseSocket, ForgetSocket, Exit, CheckRunning,
     ReadClock, ReadDropped, OpenSocket, CallSendto, CmdVelCallback, Sendto, Dequeue,
     vars, mainVars, queueVars, workerVars

-----------------------------------------------------------------------------
LEMMA TypeStep == IInv /\ [Next]_vars => TypeOK'
<1> SUFFICES ASSUME IInv, [Next]_vars PROVE TypeOK'
  OBVIOUS
<1> USE BridgeAssumption DEF mainVars, queueVars, workerVars
<1>0. TypeOK
  BY DEF IInv
<1>1. ASSUME NEW p \in Publishers, Enqueue(p) PROVE TypeOK'
  <2>1. /\ queue' \in Seq(Commands) /\ Len(queue') <= max_queue_len
        /\ dropped_count' \in Nat /\ seq_counter' \in Nat
    BY <1>0, <1>1, EnqueueEntries DEF TypeOK
  <2>2. callback' \in [Publishers -> Nat \cup {NoDeadline}]
    BY <1>0, <1>1 DEF Enqueue, TypeOK
  <2> QED
    BY <1>0, <1>1, <2>1, <2>2 DEF Enqueue, TypeOK
<1>2. CASE ExpireBefore
  <2>1. PICK k \in 0 .. Len(queue) :
             /\ stats' = [stats EXCEPT !.missed_deadline = @ + k]
             /\ queue' \in Seq(Commands)
             /\ Len(queue') = Len(queue) - k
    BY <1>0, <1>2, ExpireEntries
  <2>2. /\ Len(queue') <= max_queue_len /\ k \in Nat
        /\ stats.missed_deadline + k \in Nat
    <3>1. Len(queue) \in Nat /\ Len(queue) <= max_queue_len
      BY <1>0 DEF TypeOK
    <3>2. stats.missed_deadline \in Nat /\ k \in Nat
      BY <1>0, <2>1, <3>1 DEF TypeOK
    <3> QED
      BY <2>1, <3>1, <3>2
  <2>3. stats' \in [tx_total : Nat, tx_success : Nat, missed_deadline : Nat,
                    queued_dropped : Nat]
    BY <1>0, <2>1, <2>2 DEF TypeOK
  <2> QED
    BY <1>0, <1>2, <2>1, <2>2, <2>3 DEF ExpireBefore, Expire, TypeOK
<1>3. CASE Dequeue /\ queue # <<>>
  <2>1. /\ cmd' \in Commands /\ queue[1] \in Commands /\ last' = queue[1].seq
        /\ queue' \in Seq(Commands) /\ Len(queue') <= max_queue_len
        /\ worker' = "socket"
    BY <1>0, <1>3, DequeueEntries DEF TypeOK
  <2>2. last' \in Nat
    BY <2>1 DEF Commands
  <2> QED
    BY <1>0, <1>3, <2>1, <2>2 DEF Dequeue, TypeOK
<1>4. CASE Tick
  BY <1>0, <1>4 DEF Tick, TypeOK
<1>9. CASE Main
  <2>1. /\ main' \in {"configuring", "starting", "looping", "joining", "closing",
                      "closed", "exited"}
        /\ running' \in BOOLEAN
        /\ sock' \in {"none", "open", "closed"}
        /\ worker' \in {worker, "loop"}
        /\ UNCHANGED <<now, callback, queue, seq_counter, dropped_count, now_us,
                      cmd, stats, last, late>>
    BY <1>0, <1>9 DEF Main, ConfigureFails, Start, Subscribe, InterruptOutsideLoop,
       Interrupt, Shutdown, Join, CloseSocket, ForgetSocket, Exit, TypeOK
  <2> QED
    BY <1>0, <2>1 DEF TypeOK
<1>5. CASE CheckRunning \/ ReadClock \/ ReadDropped \/ OpenSocket \/ CallSendto
             \/ (Dequeue /\ queue = <<>>)
  BY <1>0, <1>5 DEF CheckRunning, ReadClock, ReadDropped, OpenSocket, CallSendto,
     Dequeue, TypeOK
<1>6. ASSUME NEW p \in Publishers, CmdVelCallback(p) PROVE TypeOK'
  <2>1. callback' \in [Publishers -> Nat \cup {NoDeadline}]
    BY <1>0, <1>6 DEF CmdVelCallback, TypeOK
  <2> QED
    BY <1>0, <1>6, <2>1 DEF CmdVelCallback, TypeOK
<1>7. ASSUME NEW ok \in BOOLEAN, Sendto(ok) PROVE TypeOK'
  <2>0. /\ stats.tx_total + 1 \in Nat
        /\ stats.tx_success + (IF ok THEN 1 ELSE 0) \in Nat
        /\ late + 1 \in Nat
    BY <1>0 DEF TypeOK
  <2>1. stats' \in [tx_total : Nat, tx_success : Nat, missed_deadline : Nat,
                    queued_dropped : Nat]
    BY <1>0, <1>7, <2>0 DEF Sendto, TypeOK
  <2>2. late' \in Nat /\ cmd' \in Commands \cup {NoCommand} /\ worker' = "loop"
    BY <1>0, <1>7, <2>0 DEF Sendto, TypeOK
  <2>3. UNCHANGED <<now, main, running, sock, callback, queue, seq_counter,
                    dropped_count, now_us, last>>
    BY <1>7 DEF Sendto
  <2> QED
    BY <1>0, <2>1, <2>2, <2>3 DEF TypeOK
<1>8. CASE UNCHANGED vars
  BY <1>0, <1>8 DEF vars, TypeOK
<1> QED
  BY <1>1, <1>2, <1>3, <1>4, <1>5, <1>6, <1>7, <1>8, <1>9, StepKinds DEF Elsewhere

(* Each operation moves a command from one counter to the next.            *)
LEMMA CountStep == IInv /\ [Next]_vars => EveryCommandCounted'
<1> SUFFICES ASSUME IInv, [Next]_vars PROVE EveryCommandCounted'
  OBVIOUS
<1> USE DEF EveryCommandCounted
<1>0. TypeOK /\ EveryCommandCounted /\ HandInv
  BY DEF IInv
<1>a. /\ Len(queue) \in Nat /\ NoCommand \notin Commands
      /\ seq_counter \in Nat /\ dropped_count \in Nat
      /\ stats.missed_deadline \in Nat /\ stats.tx_total \in Nat
  BY <1>0, BridgeAssumption DEF TypeOK, Commands
<1>1. ASSUME NEW p \in Publishers, Enqueue(p) PROVE EveryCommandCounted'
  <2>1. PICK d \in 0 .. 1 :
             /\ dropped_count' = dropped_count + d
             /\ seq_counter' = seq_counter + 1
             /\ Len(queue') = Len(queue) + 1 - d
    BY <1>0, <1>1, EnqueueEntries
  <2>2. stats' = stats /\ cmd' = cmd
    BY <1>1 DEF Enqueue, workerVars
  <2> QED
    BY <1>0, <1>a, <2>1, <2>2
<1>2. CASE ExpireBefore
  <2>1. PICK k \in 0 .. Len(queue) :
             /\ stats' = [stats EXCEPT !.missed_deadline = @ + k]
             /\ Len(queue') = Len(queue) - k
    BY <1>0, <1>2, ExpireEntries
  <2>2. /\ stats'.missed_deadline = stats.missed_deadline + k
        /\ stats'.tx_total = stats.tx_total
    BY <1>0, <2>1 DEF TypeOK
  <2>3. seq_counter' = seq_counter /\ dropped_count' = dropped_count /\ cmd' = cmd
    BY <1>2 DEF ExpireBefore, Expire
  <2> QED
    BY <1>0, <1>a, <2>1, <2>2, <2>3
<1>3. CASE Dequeue /\ queue # <<>>
  <2>1. cmd = NoCommand
    BY <1>0, <1>3 DEF Dequeue, Work, HandInv
  <2>2. cmd' # NoCommand /\ Len(queue') = Len(queue) - 1
    BY <1>0, <1>a, <1>3, DequeueEntries
  <2>3. /\ seq_counter' = seq_counter /\ dropped_count' = dropped_count
        /\ stats' = stats
    BY <1>3 DEF Dequeue
  <2> QED
    BY <1>0, <1>a, <2>1, <2>2, <2>3
<1>4. ASSUME NEW ok \in BOOLEAN, Sendto(ok) PROVE EveryCommandCounted'
  <2>1. cmd # NoCommand /\ cmd' = NoCommand
    BY <1>0, <1>4 DEF Sendto, Work, HandInv
  <2>2. /\ stats'.missed_deadline = stats.missed_deadline
        /\ stats'.tx_total = stats.tx_total + 1
    BY <1>0, <1>4 DEF Sendto, TypeOK
  <2>3. /\ seq_counter' = seq_counter /\ dropped_count' = dropped_count
        /\ queue' = queue
    BY <1>4 DEF Sendto, queueVars
  <2> QED
    BY <1>0, <1>a, <2>1, <2>2, <2>3
<1>5. CASE ReadDropped
  <2>1. /\ stats'.missed_deadline = stats.missed_deadline
        /\ stats'.tx_total = stats.tx_total
    BY <1>0, <1>5 DEF ReadDropped, TypeOK
  <2> QED
    BY <1>0, <1>5, <2>1 DEF ReadDropped, queueVars
<1>6. CASE Tick \/ Main \/ CheckRunning \/ ReadClock \/ OpenSocket \/ CallSendto
             \/ (\E p \in Publishers : CmdVelCallback(p))
             \/ (Dequeue /\ queue = <<>>) \/ UNCHANGED vars
  <2>1. stats' = stats /\ cmd' = cmd
    BY <1>6 DEF Tick, Main, ConfigureFails, Start, Subscribe, InterruptOutsideLoop,
       Interrupt, Shutdown, Join, CloseSocket, ForgetSocket, Exit, CheckRunning,
       ReadClock, OpenSocket, CallSendto, CmdVelCallback, Dequeue, vars, workerVars
  <2> QED
    BY <1>0, <1>6, <2>1, ElsewhereKeepsQueue DEF Elsewhere
<1> QED
  BY <1>1, <1>2, <1>3, <1>4, <1>5, <1>6, StepKinds DEF Elsewhere

(* The queue stays an interval of numbers; dequeued numbers lie below it.  *)
LEMMA QueueStep == IInv /\ [Next]_vars => QueueInv'
<1> SUFFICES ASSUME IInv, [Next]_vars PROVE QueueInv'
  OBVIOUS
<1>0. TypeOK /\ QueueInv
  BY DEF IInv
<1>a. Len(queue) \in Nat /\ seq_counter \in Nat /\ last \in Int
  BY <1>0 DEF TypeOK
<1>b. /\ \A i \in 1 .. Len(queue) : queue[i].seq = seq_counter - Len(queue) + i - 1
      /\ last < seq_counter - Len(queue)
  BY <1>0 DEF QueueInv
<1>1. ASSUME NEW p \in Publishers, Enqueue(p) PROVE QueueInv'
  <2>1. PICK d \in 0 .. 1 :
             /\ seq_counter' = seq_counter + 1
             /\ Len(queue') = Len(queue) + 1 - d
             /\ \A i \in 1 .. Len(queue) - d : queue'[i] = queue[i + d]
             /\ Len(queue') > 0 => queue'[Len(queue')] = NewCommand(p)
    BY <1>0, <1>1, EnqueueEntries
  <2>2. NewCommand(p).seq = seq_counter /\ last' = last
    BY <1>1 DEF NewCommand, Enqueue, workerVars
  <2>3. ASSUME NEW i \in 1 .. Len(queue')
        PROVE  queue'[i].seq = seq_counter' - Len(queue') + i - 1
    <3>1. CASE i = Len(queue')
      BY <1>a, <2>1, <2>2, <3>1
    <3>2. CASE i # Len(queue')
      <4>1. i \in 1 .. Len(queue) - d /\ i + d \in 1 .. Len(queue)
        BY <1>a, <2>1, <3>2
      <4>2. queue'[i] = queue[i + d]
        BY <2>1, <4>1
      <4>3. queue[i + d].seq = seq_counter - Len(queue) + (i + d) - 1
        BY <1>b, <4>1
      <4>4. seq_counter' - Len(queue') = seq_counter - Len(queue) + d
        BY <1>a, <2>1
      <4>5. i \in Int /\ d \in Int
        OBVIOUS
      <4> QED
        BY <1>a, <4>2, <4>3, <4>4, <4>5
    <3> QED
      BY <3>1, <3>2
  <2>4. last' < seq_counter' - Len(queue')
    BY <1>a, <1>b, <2>1, <2>2
  <2> QED
    BY <2>3, <2>4 DEF QueueInv
<1>2. CASE ExpireBefore
  <2>1. PICK k \in 0 .. Len(queue) :
             /\ Len(queue') = Len(queue) - k
             /\ \A i \in 1 .. Len(queue) - k : queue'[i] = queue[i + k]
    BY <1>0, <1>2, ExpireEntries
  <2>2. seq_counter' = seq_counter /\ last' = last
    BY <1>2 DEF ExpireBefore, Expire
  <2>3. ASSUME NEW i \in 1 .. Len(queue')
        PROVE  queue'[i].seq = seq_counter' - Len(queue') + i - 1
    <3>1. i \in 1 .. Len(queue) - k /\ i + k \in 1 .. Len(queue)
      BY <1>a, <2>1
    <3>2. queue'[i] = queue[i + k]
      BY <2>1, <3>1
    <3>3. queue[i + k].seq = seq_counter - Len(queue) + (i + k) - 1
      BY <1>b, <3>1
    <3> QED
      BY <1>a, <2>1, <2>2, <3>1, <3>2, <3>3
  <2>4. last' < seq_counter' - Len(queue')
    BY <1>a, <1>b, <2>1, <2>2
  <2> QED
    BY <2>3, <2>4 DEF QueueInv
<1>3. CASE Dequeue /\ queue # <<>>
  <2>1. /\ last' = queue[1].seq /\ Len(queue) \in Nat \ {0}
        /\ Len(queue') = Len(queue) - 1
        /\ \A i \in 1 .. Len(queue) - 1 : queue'[i] = queue[i + 1]
    BY <1>0, <1>3, DequeueEntries
  <2>2. seq_counter' = seq_counter
    BY <1>3 DEF Dequeue
  <2>3. ASSUME NEW i \in 1 .. Len(queue')
        PROVE  queue'[i].seq = seq_counter' - Len(queue') + i - 1
    <3>1. i \in 1 .. Len(queue) - 1 /\ i + 1 \in 1 .. Len(queue)
      BY <2>1
    <3>2. queue'[i] = queue[i + 1]
      BY <2>1, <3>1
    <3>3. queue[i + 1].seq = seq_counter - Len(queue) + (i + 1) - 1
      BY <1>b, <3>1
    <3> QED
      BY <1>a, <2>1, <2>2, <3>1, <3>2, <3>3
  <2>4. queue[1].seq = seq_counter - Len(queue)
    <3>1. 1 \in 1 .. Len(queue)
      BY <2>1
    <3>2. queue[1].seq = seq_counter - Len(queue) + 1 - 1
      BY <1>b, <3>1
    <3> QED
      BY <1>a, <3>2
  <2>5. last' < seq_counter' - Len(queue')
    BY <1>a, <2>1, <2>2, <2>4
  <2> QED
    BY <2>3, <2>5 DEF QueueInv
<1>4. CASE Elsewhere
  BY <1>0, <1>4, ElsewhereKeepsQueue DEF QueueInv
<1> QED
  BY <1>1, <1>2, <1>3, <1>4, StepKinds

LEMMA HandStep == IInv /\ [Next]_vars => HandInv'
<1> SUFFICES ASSUME IInv, [Next]_vars PROVE HandInv'
  OBVIOUS
<1>0. TypeOK /\ HandInv /\ NoCommand \notin Commands
  BY BridgeAssumption DEF IInv, Commands
<1>1. CASE Dequeue /\ queue # <<>>
  <2>1. cmd' \in Commands /\ worker' = "socket"
    BY <1>0, <1>1, DequeueEntries
  <2> QED
    BY <1>0, <2>1 DEF HandInv
<1>2. CASE Tick \/ (\E p \in Publishers : Enqueue(p) \/ CmdVelCallback(p)) \/ UNCHANGED vars
  <2>1. worker' = worker /\ cmd' = cmd
    BY <1>2 DEF Tick, Enqueue, CmdVelCallback, vars, workerVars
  <2> QED
    BY <1>0, <2>1 DEF HandInv
<1>3. CASE Main
  <2>1. worker' = worker \/ (worker = "off" /\ worker' = "loop")
    BY <1>3 DEF IInv, StopInv, Main, ConfigureFails, Start, Subscribe,
       InterruptOutsideLoop, Interrupt, Shutdown, Join, CloseSocket, ForgetSocket,
       Exit, workerVars
  <2>2. cmd' = cmd
    BY <1>3 DEF Main, ConfigureFails, Start, Subscribe,
       InterruptOutsideLoop, Interrupt, Shutdown, Join, CloseSocket, ForgetSocket,
       Exit, workerVars
  <2> QED
    BY <1>0, <2>1, <2>2 DEF HandInv
<1>4. CASE CheckRunning \/ ReadClock \/ ReadDropped \/ OpenSocket \/ CallSendto
             \/ ExpireBefore \/ (Dequeue /\ queue = <<>>)
             \/ (\E ok \in BOOLEAN : Sendto(ok))
  BY <1>0, <1>4 DEF CheckRunning, ReadClock, ReadDropped, OpenSocket, CallSendto,
     ExpireBefore, Expire, Dequeue, Sendto, Work, HandInv
<1> QED
  BY <1>1, <1>2, <1>3, <1>4, StepKinds DEF Elsewhere

LEMMA StopStep == IInv /\ [Next]_vars => StopInv'
<1> SUFFICES ASSUME IInv, [Next]_vars PROVE StopInv'
  OBVIOUS
<1>0. StopInv /\ late \in Nat
  BY DEF IInv, TypeOK
<1>1. CASE Tick \/ (\E p \in Publishers : Enqueue(p) \/ CmdVelCallback(p)) \/ UNCHANGED vars
  <2>1. main' = main /\ running' = running /\ worker' = worker /\ late' = late
    BY <1>1 DEF Tick, Enqueue, CmdVelCallback, vars, workerVars, mainVars
  <2> QED
    BY <1>0, <2>1 DEF StopInv
<1>2. CASE Main
  BY <1>0, <1>2 DEF Main, ConfigureFails, Start, Subscribe, InterruptOutsideLoop,
     Interrupt, Shutdown, Join, CloseSocket, ForgetSocket, Exit, workerVars, mainVars,
     StopInv
<1>3. CASE CheckRunning
  BY <1>0, <1>3 DEF CheckRunning, Work, StopInv, mainVars
<1>5. CASE ReadClock \/ ReadDropped \/ OpenSocket \/ CallSendto \/ ExpireBefore
             \/ Dequeue
  <2>1. worker \notin {"off", "loop", "done"} /\ UNCHANGED <<main, running, late>>
    BY <1>5 DEF ReadClock, ReadDropped, OpenSocket, CallSendto, ExpireBefore, Expire,
       Dequeue, Work, mainVars
  <2> QED
    BY <1>0, <2>1 DEF StopInv
<1>4. CASE \E ok \in BOOLEAN : Sendto(ok)
  BY <1>0, <1>4 DEF Sendto, Work, StopInv, mainVars
<1> QED
  BY <1>1, <1>2, <1>3, <1>4, <1>5 DEF Next, Worker, Callback

LEMMA SocketStep == IInv /\ [Next]_vars => SocketInv'
<1> SUFFICES ASSUME IInv, [Next]_vars PROVE SocketInv'
  OBVIOUS
<1> USE DEF WorkerKeepsItsSocket
<1>0. StopInv /\ SocketInv
  BY DEF IInv
<1>1. CASE Tick \/ (\E p \in Publishers : Enqueue(p) \/ CmdVelCallback(p)) \/ UNCHANGED vars
  <2>1. main' = main /\ running' = running /\ worker' = worker /\ sock' = sock
    BY <1>1 DEF Tick, Enqueue, CmdVelCallback, vars, workerVars, mainVars
  <2> QED
    BY <1>0, <2>1 DEF SocketInv
<1>2. CASE Main
  BY <1>0, <1>2 DEF Main, ConfigureFails, Start, Subscribe, InterruptOutsideLoop,
     Interrupt, Shutdown, Join, CloseSocket, ForgetSocket, Exit, workerVars, mainVars,
     StopInv, SocketInv
<1>3. CASE OpenSocket \/ CallSendto
  BY <1>0, <1>3 DEF OpenSocket, CallSendto, Work, SocketInv, mainVars
<1>4. CASE CheckRunning \/ ReadClock \/ ReadDropped \/ ExpireBefore \/ Dequeue
             \/ (\E ok \in BOOLEAN : Sendto(ok))
  <2>1. worker' # "dead" /\ UNCHANGED <<main, running, sock>>
    BY <1>4 DEF CheckRunning, ReadClock, ReadDropped, ExpireBefore, Expire, Dequeue,
       Sendto, Work, mainVars
  <2> QED
    BY <1>0, <2>1 DEF SocketInv
<1> QED
  BY <1>1, <1>2, <1>3, <1>4 DEF Next, Worker, Callback

(* A publisher's next deadline is no earlier than its last, because its    *)
(* callbacks follow each other and the clock does not go back.             *)
LEMMA DeadlineStep == IInv /\ [Next]_vars => DeadlineInv'
<1> SUFFICES ASSUME IInv, [Next]_vars PROVE DeadlineInv'
  OBVIOUS
<1> DEFINE Sorted(q) ==
             \A i, j \in 1 .. Len(q) : i < j /\ q[i].publisher = q[j].publisher
                                         => q[i].deadline_us <= q[j].deadline_us
           Below(q, cb, t) ==
             \A i \in 1 .. Len(q) :
                /\ q[i].deadline_us <= t + DeadlineTicks
                /\ cb[q[i].publisher] # NoDeadline
                     => q[i].deadline_us <= cb[q[i].publisher]
           Stamped(cb, t) ==
             \A p \in Publishers : cb[p] # NoDeadline => cb[p] <= t + DeadlineTicks
<1>0. TypeOK /\ Sorted(queue) /\ Below(queue, callback, now) /\ Stamped(callback, now)
  BY DEF IInv, DeadlineInv
<1>a. /\ now \in Nat /\ DeadlineTicks \in Nat /\ Len(queue) \in Nat
      /\ callback \in [Publishers -> Nat \cup {NoDeadline}]
      /\ NoDeadline \notin Nat
      /\ queue \in Seq(Commands)
      /\ \A i \in 1 .. Len(queue) : queue[i] \in Commands
  BY <1>0, BridgeAssumption DEF TypeOK
<1>b. \A i \in 1 .. Len(queue) :
          queue[i].deadline_us \in Nat /\ queue[i].publisher \in Publishers
  BY <1>a DEF Commands
<1>1. ASSUME Sorted(queue'), Below(queue', callback', now'), Stamped(callback', now')
      PROVE  DeadlineInv'
  BY <1>1 DEF DeadlineInv
<1>2. ASSUME NEW k \in Nat, Len(queue') = Len(queue) - k,
             \A i \in 1 .. Len(queue) - k : queue'[i] = queue[i + k],
             callback' = callback, now' = now
      PROVE  DeadlineInv'
  <2>1. \A i \in 1 .. Len(queue') : i + k \in 1 .. Len(queue) /\ queue'[i] = queue[i + k]
    BY <1>a, <1>2
  <2>2. Sorted(queue')
    <3>1. SUFFICES ASSUME NEW i \in 1 .. Len(queue'), NEW j \in 1 .. Len(queue'), i < j,
                          queue'[i].publisher = queue'[j].publisher
                   PROVE  queue'[i].deadline_us <= queue'[j].deadline_us
      OBVIOUS
    <3>2. i + k < j + k
      BY <3>1
    <3> QED
      BY <1>0, <2>1, <3>1, <3>2
  <2>3. Below(queue', callback', now')
    BY <1>0, <1>2, <2>1
  <2>4. Stamped(callback', now')
    BY <1>0, <1>2
  <2> QED
    BY <1>1, <2>2, <2>3, <2>4
<1>3. ASSUME NEW p \in Publishers, Enqueue(p) PROVE DeadlineInv'
  <2>1. PICK d \in 0 .. 1 :
             /\ Len(queue') = Len(queue) + 1 - d
             /\ \A i \in 1 .. Len(queue) - d : queue'[i] = queue[i + d]
             /\ Len(queue') > 0 => queue'[Len(queue')] = NewCommand(p)
    BY <1>0, <1>3, EnqueueEntries
  <2>2. /\ callback[p] \in Nat /\ now' = now
        /\ callback' = [callback EXCEPT ![p] = NoDeadline]
    BY <1>a, <1>3 DEF Enqueue
  <2>3. NewCommand(p).deadline_us = callback[p] /\ NewCommand(p).publisher = p
    BY DEF NewCommand
  <2>4. \A i \in 1 .. Len(queue') :
          \/ i = Len(queue') /\ queue'[i] = NewCommand(p)
          \/ i + d \in 1 .. Len(queue) /\ queue'[i] = queue[i + d] /\ i < Len(queue')
    BY <1>a, <2>1
  <2>5. \A i \in 1 .. Len(queue) : queue[i].publisher = p => queue[i].deadline_us <= callback[p]
    BY <1>0, <1>a, <2>2
  <2>6. Sorted(queue')
    <3>1. SUFFICES ASSUME NEW i \in 1 .. Len(queue'), NEW j \in 1 .. Len(queue'), i < j,
                          queue'[i].publisher = queue'[j].publisher
                   PROVE  queue'[i].deadline_us <= queue'[j].deadline_us
      OBVIOUS
    <3>2. i + d \in 1 .. Len(queue) /\ queue'[i] = queue[i + d]
      BY <1>a, <2>1, <2>4, <3>1
    <3>3. CASE j = Len(queue') /\ queue'[j] = NewCommand(p)
      BY <2>3, <2>5, <3>1, <3>2, <3>3
    <3>4. CASE j + d \in 1 .. Len(queue) /\ queue'[j] = queue[j + d]
      <4>1. i + d < j + d
        BY <3>1
      <4> QED
        BY <1>0, <3>1, <3>2, <3>4, <4>1
    <3> QED
      BY <2>4, <3>3, <3>4
  <2>7. Below(queue', callback', now')
    <3>1. SUFFICES ASSUME NEW i \in 1 .. Len(queue')
                   PROVE  /\ queue'[i].deadline_us <= now' + DeadlineTicks
                          /\ callback'[queue'[i].publisher] # NoDeadline
                               => queue'[i].deadline_us <= callback'[queue'[i].publisher]
      OBVIOUS
    <3>2. CASE queue'[i] = NewCommand(p)
      BY <1>0, <1>a, <2>2, <2>3, <3>2
    <3>3. CASE i + d \in 1 .. Len(queue) /\ queue'[i] = queue[i + d]
      <4>1. /\ queue[i + d].deadline_us <= now + DeadlineTicks
            /\ callback[queue[i + d].publisher] # NoDeadline
                 => queue[i + d].deadline_us <= callback[queue[i + d].publisher]
        BY <1>0, <3>3
      <4>2. \A r \in Publishers : callback'[r] # NoDeadline => callback'[r] = callback[r]
        BY <1>a, <2>2
      <4>3. queue[i + d].publisher \in Publishers
        BY <1>b, <3>3
      <4> QED
        BY <2>2, <3>3, <4>1, <4>2, <4>3
    <3> QED
      BY <2>4, <3>2, <3>3
  <2>8. Stamped(callback', now')
    BY <1>0, <1>a, <2>2
  <2> QED
    BY <1>1, <2>6, <2>7, <2>8
<1>4. CASE ExpireBefore
  <2>1. PICK k \in 0 .. Len(queue) :
             /\ Len(queue') = Len(queue) - k
             /\ \A i \in 1 .. Len(queue) - k : queue'[i] = queue[i + k]
    BY <1>0, <1>4, ExpireEntries
  <2>2. callback' = callback /\ now' = now /\ k \in Nat
    BY <1>a, <1>4 DEF ExpireBefore, Expire
  <2> QED
    BY <1>2, <2>1, <2>2
<1>5. CASE Dequeue /\ queue # <<>>
  <2>1. /\ Len(queue') = Len(queue) - 1
        /\ \A i \in 1 .. Len(queue) - 1 : queue'[i] = queue[i + 1]
    BY <1>0, <1>5, DequeueEntries
  <2>2. callback' = callback /\ now' = now
    BY <1>5 DEF Dequeue
  <2> QED
    BY <1>2, <2>1, <2>2
<1>6. ASSUME NEW p \in Publishers, CmdVelCallback(p) PROVE DeadlineInv'
  <2>1. /\ callback' = [callback EXCEPT ![p] = now + DeadlineTicks]
        /\ queue' = queue /\ now' = now
    BY <1>6 DEF CmdVelCallback, queueVars
  <2>2. Below(queue', callback', now')
    <3>1. \A r \in Publishers : callback'[r] = IF r = p THEN now + DeadlineTicks
                                               ELSE callback[r]
      BY <1>a, <2>1
    <3> QED
      BY <1>0, <1>a, <1>b, <2>1, <3>1
  <2>3. Stamped(callback', now')
    BY <1>0, <1>a, <2>1
  <2>4. Sorted(queue')
    BY <1>0, <2>1
  <2> QED
    BY <1>1, <2>2, <2>3, <2>4
<1>7. CASE Tick
  <2>1. callback' = callback /\ queue' = queue /\ now' = now + 1
    BY <1>7 DEF Tick, queueVars
  <2>2. Below(queue', callback', now')
    BY <1>0, <1>a, <1>b, <2>1
  <2>3. Stamped(callback', now')
    BY <1>0, <1>a, <2>1
  <2>4. Sorted(queue')
    BY <1>0, <2>1
  <2> QED
    BY <1>1, <2>2, <2>3, <2>4
<1>8. CASE Main \/ CheckRunning \/ ReadClock \/ ReadDropped \/ OpenSocket \/ CallSendto
             \/ (\E ok \in BOOLEAN : Sendto(ok))
             \/ (Dequeue /\ queue = <<>>) \/ UNCHANGED vars
  <2>1. callback' = callback /\ now' = now
    BY <1>8 DEF Main, ConfigureFails, Start, Subscribe, InterruptOutsideLoop,
       Interrupt, Shutdown, Join, CloseSocket, ForgetSocket, Exit, CheckRunning,
       ReadClock, ReadDropped, OpenSocket, CallSendto, Sendto, Dequeue, vars
  <2>2. queue' = queue
    BY <1>8, ElsewhereKeepsQueue DEF Elsewhere
  <2> QED
    BY <1>0, <1>1, <2>1, <2>2
<1> QED
  BY <1>3, <1>4, <1>5, <1>6, <1>7, <1>8, StepKinds DEF Elsewhere

-----------------------------------------------------------------------------
LEMMA InitInv == Init => IInv
<1> SUFFICES ASSUME Init PROVE IInv
  OBVIOUS
<1>0. /\ queue = <<>> /\ Len(queue) = 0 /\ <<>> \in Seq(Commands)
      /\ max_queue_len \in Nat /\ MaxTime \in Nat
  BY BridgeAssumption DEF Init
<1>1. TypeOK
  <2>1. callback \in [Publishers -> Nat \cup {NoDeadline}]
    BY DEF Init
  <2>2. stats \in [tx_total : Nat, tx_success : Nat, missed_deadline : Nat,
                   queued_dropped : Nat]
    BY DEF Init
  <2>3. queue \in Seq(Commands) /\ Len(queue) <= max_queue_len
    BY <1>0
  <2>4. now \in 0 .. MaxTime /\ now_us \in 0 .. MaxTime
    BY <1>0 DEF Init
  <2>5. last \in Nat \cup {-1} /\ cmd \in Commands \cup {NoCommand}
    BY DEF Init
  <2>6. /\ running \in BOOLEAN /\ sock = "none" /\ main = "configuring"
        /\ worker = "off" /\ seq_counter = 0 /\ dropped_count = 0 /\ late = 0
    BY DEF Init
  <2> QED
    BY <2>1, <2>2, <2>3, <2>4, <2>5, <2>6 DEF TypeOK
<1>2. EveryCommandCounted /\ HandInv
  BY <1>0 DEF Init, EveryCommandCounted, HandInv
<1>3. QueueInv /\ DeadlineInv
  BY <1>0 DEF Init, QueueInv, DeadlineInv
<1>4. StopInv /\ SocketInv
  BY DEF Init, StopInv, SocketInv, WorkerKeepsItsSocket
<1> QED
  BY <1>1, <1>2, <1>3, <1>4 DEF IInv

LEMMA StepInv == IInv /\ [Next]_vars => IInv'
  BY TypeStep, CountStep, QueueStep, HandStep, StopStep, SocketStep, DeadlineStep
  DEF IInv

(* Every reachable state of the bridge satisfies IInv.                     *)
THEOREM Invariance == Spec => []IInv
  BY InitInv, StepInv, PTL DEF Spec

(* Type correctness, which bounds the queue.                               *)
THEOREM TypeCorrect == Spec => []TypeOK
<1>1. IInv => TypeOK
  BY DEF IInv
<1> QED
  BY <1>1, Invariance, PTL

(* enqueue, expire_before, dequeue, send_at_time: no command is lost from  *)
(* the counters and none is counted twice.                                 *)
THEOREM Conservation == Spec => []EveryCommandCounted
<1>1. IInv => EveryCommandCounted
  BY DEF IInv
<1> QED
  BY <1>1, Invariance, PTL

(* stop: at most one command is sent once the flag is down.                *)
THEOREM OneAfterStop == Spec => []AtMostOneAfterStop
<1>1. IInv => AtMostOneAfterStop
  BY DEF IInv, StopInv, AtMostOneAfterStop
<1> QED
  BY <1>1, Invariance, PTL

(* SDRInterface: the unlocked socket is safe while the bridge runs.        *)
THEOREM SocketKept == Spec => []WorkerKeepsItsSocket
<1>1. IInv => WorkerKeepsItsSocket
  BY DEF IInv, SocketInv
<1> QED
  BY <1>1, Invariance, PTL

-----------------------------------------------------------------------------
(* What a pass of expire_before leaves behind.                             *)
LEMMA ExpiryStep ==
    ASSUME IInv, [Next]_vars, worker = "expire", worker' = "dropped"
    PROVE  \A i \in 1 .. Len(queue') : queue'[i].deadline_us < now_us =>
              \E j \in 1 .. i - 1 :
                 /\ queue'[j].deadline_us >= now_us
                 /\ queue'[j].publisher # queue'[i].publisher
<1>0. TypeOK
  BY DEF IInv
<1>1. ExpireBefore
  BY DEF Next, Tick, Main, ConfigureFails, Start, Subscribe, InterruptOutsideLoop,
     Interrupt, Shutdown, Join, CloseSocket, ForgetSocket, Exit, Worker, Work,
     CheckRunning, ReadClock, ReadDropped, Dequeue, OpenSocket, CallSendto, Callback,
     CmdVelCallback, Enqueue, Sendto, vars, workerVars
<1>2. PICK k \in 0 .. Len(queue) :
         /\ queue' \in Seq(Commands)
         /\ Len(queue') = Len(queue) - k
         /\ \A i \in 1 .. Len(queue) - k : queue'[i] = queue[i + k]
         /\ k < Len(queue) => queue[k + 1].deadline_us >= now_us
  BY <1>0, <1>1, ExpireEntries
<1>3. SUFFICES ASSUME NEW i \in 1 .. Len(queue'), queue'[i].deadline_us < now_us
               PROVE  \E j \in 1 .. i - 1 :
                         /\ queue'[j].deadline_us >= now_us
                         /\ queue'[j].publisher # queue'[i].publisher
  OBVIOUS
<1>4. Len(queue) \in Nat /\ now_us \in Int
  BY <1>0 DEF TypeOK
<1>5. 1 \in 1 .. Len(queue') /\ queue'[1].deadline_us >= now_us
  <2>1. k < Len(queue) /\ 1 \in 1 .. Len(queue) - k
    BY <1>2, <1>3, <1>4
  <2>2. queue'[1] = queue[1 + k] /\ queue[k + 1].deadline_us >= now_us /\ 1 + k = k + 1
    BY <1>2, <2>1
  <2> QED
    BY <1>2, <2>1, <2>2
<1>6. queue'[i].deadline_us \in Nat /\ queue'[1].deadline_us \in Nat
  <2>1. queue'[i] \in Commands /\ queue'[1] \in Commands
    BY <1>2, <1>3, <1>5
  <2> QED
    BY <2>1 DEF Commands
<1>7. i # 1 /\ 1 < i
  BY <1>3, <1>4, <1>5, <1>6
<1>8. queue'[1].publisher # queue'[i].publisher
  <2>1. DeadlineInv'
    BY DeadlineStep
  <2>2. SUFFICES ASSUME queue'[1].publisher = queue'[i].publisher PROVE FALSE
    OBVIOUS
  <2>3. queue'[1].deadline_us <= queue'[i].deadline_us
    BY <1>3, <1>5, <1>7, <2>1, <2>2 DEF DeadlineInv
  <2> QED
    BY <1>3, <1>4, <1>5, <1>6, <2>3
<1>9. 1 \in 1 .. i - 1
  BY <1>3, <1>7
<1> QED
  BY <1>5, <1>8, <1>9

(* expire_before: an overdue command stays only behind another publisher's *)
(* command that is in time.                                                *)
THEOREM LateOnlyBehindAnotherHolds == Spec => LateOnlyBehindAnother
<1> DEFINE Late == \A i \in 1 .. Len(queue') : queue'[i].deadline_us < now_us =>
                      \E j \in 1 .. i - 1 :
                         /\ queue'[j].deadline_us >= now_us
                         /\ queue'[j].publisher # queue'[i].publisher
<1>1. IInv /\ [Next]_vars => [worker = "expire" /\ worker' = "dropped" => Late]_vars
  BY ExpiryStep
<1> QED
  BY <1>1, Invariance, PTL DEF Spec, LateOnlyBehindAnother

(* With a single publisher expire_before does what its docstring says.     *)
THEOREM OnePublisherExpiry ==
    ASSUME \A p, q \in Publishers : p = q
    PROVE  Spec => ExpiryIsComplete
<1> DEFINE Complete == \A i \in 1 .. Len(queue') : queue'[i].deadline_us >= now_us
<1>1. IInv /\ [Next]_vars => [worker = "expire" /\ worker' = "dropped" => Complete]_vars
  <2>1. SUFFICES ASSUME IInv, [Next]_vars, worker = "expire", worker' = "dropped",
                        NEW i \in 1 .. Len(queue')
                 PROVE  queue'[i].deadline_us >= now_us
    OBVIOUS
  <2>2. TypeOK /\ TypeOK'
    BY <2>1, TypeStep DEF IInv
  <2>3. queue' \in Seq(Commands) /\ now_us \in Int
    BY <2>2 DEF TypeOK
  <2>4. \A j \in 1 .. Len(queue') :
            queue'[j].publisher \in Publishers /\ queue'[j].deadline_us \in Nat
    <3>1. \A j \in 1 .. Len(queue') : queue'[j] \in Commands
      BY <2>3
    <3> QED
      BY <3>1 DEF Commands
  <2>5. ~(queue'[i].deadline_us < now_us)
    <3>1. SUFFICES ASSUME queue'[i].deadline_us < now_us PROVE FALSE
      OBVIOUS
    <3>2. PICK j \in 1 .. i - 1 : queue'[j].publisher # queue'[i].publisher
      BY <2>1, <3>1, ExpiryStep
    <3>3. j \in 1 .. Len(queue')
      BY <2>1, <2>3, <3>2
    <3> QED
      BY <2>1, <2>4, <3>2, <3>3
  <2> QED
    BY <2>1, <2>3, <2>4, <2>5
<1> QED
  BY <1>1, Invariance, PTL DEF Spec, ExpiryIsComplete

-----------------------------------------------------------------------------
(* The numbers that wait are an interval.                                  *)
NumbersOf(q) == {q[i].seq : i \in 1 .. Len(q)}
Numbers == NumbersOf(queue)

LEMMA NumbersInterval ==
    ASSUME NEW q, NEW m \in Nat, Len(q) \in Nat,
           \A i \in 1 .. Len(q) : q[i].seq = m - Len(q) + i - 1
    PROVE  NumbersOf(q) = m - Len(q) .. m - 1
<1>1. ASSUME NEW n \in m - Len(q) .. m - 1 PROVE n \in NumbersOf(q)
  <2> DEFINE i == n - m + Len(q) + 1
  <2>1. i \in 1 .. Len(q) /\ n = m - Len(q) + i - 1
    BY <1>1
  <2>2. n = q[i].seq
    BY <2>1
  <2> QED
    BY <2>1, <2>2 DEF NumbersOf
<1>2. ASSUME NEW n \in NumbersOf(q) PROVE n \in m - Len(q) .. m - 1
  <2>1. PICK i \in 1 .. Len(q) : n = q[i].seq
    BY <1>2 DEF NumbersOf
  <2>2. n = m - Len(q) + i - 1
    BY <2>1
  <2> QED
    BY <2>1, <2>2
<1> QED
  BY <1>1, <1>2

LEMMA QueueInit == Init => Lossy!Init
  BY DEF Init, Lossy!Init

(* Every step of the bridge is a step of the abstract queue or leaves it   *)
(* alone: enqueue puts, expire_before gives up, dequeue takes.             *)
LEMMA QueueStepImplements == IInv /\ [Next]_vars => [Lossy!Next]_Lossy!vars
<1> SUFFICES ASSUME IInv, [Next]_vars PROVE [Lossy!Next]_Lossy!vars
  OBVIOUS
<1>0. TypeOK /\ QueueInv /\ TypeOK' /\ QueueInv'
  BY TypeStep, QueueStep DEF IInv
<1>1. /\ Numbers = seq_counter - Len(queue) .. seq_counter - 1
      /\ Numbers' = seq_counter' - Len(queue') .. seq_counter' - 1
  <2>0. /\ Len(queue) \in Nat /\ seq_counter \in Nat
        /\ Len(queue') \in Nat /\ seq_counter' \in Nat
    BY <1>0 DEF TypeOK
  <2>a. /\ \A i \in 1 .. Len(queue) : queue[i].seq = seq_counter - Len(queue) + i - 1
        /\ \A i \in 1 .. Len(queue') :
              queue'[i].seq = seq_counter' - Len(queue') + i - 1
    BY <1>0 DEF QueueInv
  <2>1. Numbers = seq_counter - Len(queue) .. seq_counter - 1
    BY <2>0, <2>a, NumbersInterval DEF Numbers
  <2>2. NumbersOf(queue') = seq_counter' - Len(queue') .. seq_counter' - 1
    BY <2>0, <2>a, NumbersInterval
  <2>3. Numbers' = NumbersOf(queue')
    BY DEF Numbers, NumbersOf
  <2> QED
    BY <2>1, <2>2, <2>3
<1>2. /\ Len(queue) \in Nat /\ seq_counter \in Nat /\ max_queue_len \in Nat
      /\ Len(queue) <= max_queue_len
  BY <1>0, BridgeAssumption DEF TypeOK
<1>3. ASSUME NEW p \in Publishers, Enqueue(p) PROVE Lossy!Put
  <2>1. PICK d \in 0 .. 1 :
             /\ d = IF Len(queue) >= max_queue_len THEN 1 ELSE 0
             /\ seq_counter' = seq_counter + 1
             /\ Len(queue') = Len(queue) + 1 - d
    BY <1>0, <1>3, EnqueueEntries
  <2>2. last' = last
    BY <1>3 DEF Enqueue, workerVars
  <2>3. Numbers' = {n \in Numbers \cup {seq_counter} : n + max_queue_len > seq_counter}
    <3>1. Numbers' = seq_counter - Len(queue) + d .. seq_counter
      BY <1>1, <1>2, <2>1
    <3>2. Numbers \cup {seq_counter} = seq_counter - Len(queue) .. seq_counter
      BY <1>1, <1>2
    <3>3. \A n \in seq_counter - Len(queue) .. seq_counter :
              n + max_queue_len > seq_counter <=> n >= seq_counter - Len(queue) + d
      BY <1>2, <2>1
    <3> QED
      BY <1>2, <2>1, <3>1, <3>2, <3>3
  <2> QED
    BY <2>1, <2>2, <2>3 DEF Lossy!Put, Numbers, NumbersOf
<1>4. CASE ExpireBefore
  <2>1. PICK k \in 0 .. Len(queue) : Len(queue') = Len(queue) - k
    BY <1>0, <1>4, ExpireEntries
  <2>2. seq_counter' = seq_counter /\ last' = last
    BY <1>4 DEF ExpireBefore, Expire
  <2>3. CASE k = 0
    <3>1. Numbers' = Numbers
      BY <1>1, <1>2, <2>1, <2>2, <2>3
    <3> QED
      BY <2>2, <3>1 DEF Lossy!vars, Numbers, NumbersOf
  <2>4. CASE k # 0
    <3> DEFINE n == seq_counter - Len(queue) + k - 1
    <3>1. n \in Numbers /\ Numbers' = {m \in Numbers : n < m}
      BY <1>1, <1>2, <2>1, <2>2, <2>4
    <3> HIDE DEF n
    <3> QED
      BY <2>2, <3>1 DEF Lossy!Next, Lossy!GiveUp, Numbers, NumbersOf
  <2> QED
    BY <2>3, <2>4
<1>5. CASE Dequeue /\ queue # <<>>
  <2>1. /\ last' = queue[1].seq /\ Len(queue) \in Nat \ {0}
        /\ Len(queue') = Len(queue) - 1
    BY <1>0, <1>5, DequeueEntries
  <2>2. seq_counter' = seq_counter
    BY <1>5 DEF Dequeue
  <2>3. last' = seq_counter - Len(queue)
    <3>1. queue[1].seq = seq_counter - Len(queue) + 1 - 1
      BY <1>0, <2>1 DEF QueueInv
    <3> QED
      BY <1>2, <2>1, <3>1
  <2>4. /\ last' \in Numbers /\ \A m \in Numbers : last' <= m
        /\ Numbers' = Numbers \ {last'}
    BY <1>1, <1>2, <2>1, <2>2, <2>3
  <2> QED
    BY <2>2, <2>4 DEF Lossy!Next, Lossy!Take, Numbers, NumbersOf
<1>6. CASE Elsewhere
  BY <1>6, ElsewhereKeepsQueue DEF Lossy!vars
<1> QED
  BY <1>3, <1>4, <1>5, <1>6, StepKinds DEF Lossy!Next

(* The command queue implements the abstract lossy queue.                  *)
THEOREM Implements == Spec => QueueImplements
  BY QueueInit, QueueStepImplements, Invariance, PTL
  DEF Spec, QueueImplements, Lossy!Spec

(* What the worker sends is therefore in order: an older command is never  *)
(* sent after a newer one, and none is dequeued twice.                     *)
THEOREM SentInOrder == Spec => Lossy!InOrder
<1>1. IInv /\ [Next]_vars => [last' # last => last < last' /\ last' < seq_counter]_Lossy!vars
  <2>1. SUFFICES ASSUME IInv, [Next]_vars, last' # last
                 PROVE  last < last' /\ last' < seq_counter
    OBVIOUS
  <2>2. TypeOK /\ QueueInv
    BY <2>1 DEF IInv
  <2>3. Dequeue /\ queue # <<>>
    <3>1. ASSUME NEW p \in Publishers, Enqueue(p) PROVE last' = last
      BY <3>1 DEF Enqueue, workerVars
    <3>2. ASSUME ExpireBefore PROVE last' = last
      BY <3>2 DEF ExpireBefore, Expire
    <3> QED
      BY <2>1, <3>1, <3>2, StepKinds, ElsewhereKeepsQueue
  <2>4. last' = queue[1].seq /\ Len(queue) \in Nat \ {0}
    BY <2>2, <2>3, DequeueEntries
  <2>5. queue[1].seq = seq_counter - Len(queue) + 1 - 1 /\ last < seq_counter - Len(queue)
    BY <2>2, <2>4 DEF QueueInv
  <2> QED
    BY <2>2, <2>4, <2>5 DEF TypeOK
<1> QED
  BY <1>1, Invariance, PTL DEF Spec, Lossy!InOrder
=============================================================================
