------------------------------ MODULE TdmaBridge ----------------------------
(***************************************************************************)
(* The running bridge of one robot: tdma_bridge.py from the moment its     *)
(* slots are configured (TdmaAllocation has the configuration itself).     *)
(* Three kinds of threads share the command queue, the running flag and    *)
(* the UDP socket: the main thread (start, the keep-alive loop, stop), the *)
(* slot worker, and the callbacks, of which rospy (external) runs one      *)
(* thread per publisher of /cmd_vel.                                       *)
(*                                                                         *)
(* One step is one operation under the queue's lock, or one access to what *)
(* is shared without a lock: the flag, the clock, dropped_count, the       *)
(* socket.  Payloads are left out: a command is its number and deadline.   *)
(***************************************************************************)
EXTENDS Integers, Sequences, FiniteSets

CONSTANTS
    Publishers,      \* publishers of /cmd_vel
    max_queue_len,   \* --queue-len
    DeadlineTicks,   \* --deadline-ms, in ticks of the monotonic clock
    MaxCommands,     \* bound: commands received
    MaxTime,         \* bound: ticks of the clock
    NoDeadline,      \* no callback is under way
    NoCommand        \* the worker has no command in hand

ASSUME BridgeAssumption ==
    /\ max_queue_len \in Nat
    /\ DeadlineTicks \in Nat
    /\ MaxCommands \in Nat
    /\ MaxTime \in Nat
    /\ NoDeadline \notin Nat
    /\ NoCommand \notin [seq : Nat, deadline_us : Nat, publisher : Publishers]

VARIABLES
    now,            \* time.monotonic()
    main,           \* where the main thread is
    running,        \* _running
    sock,           \* sdr._sock: "none", "open" or "closed"
    callback,       \* callback[p]: the deadline p's callback has computed
    queue,          \* cmd_queue._queue
    seq_counter,    \* cmd_queue._seq_counter
    dropped_count,  \* cmd_queue._dropped_count
    worker,         \* where the slot worker is
    now_us,         \* its clock reading
    cmd,            \* the command it has dequeued
    stats,          \* _stats
    last,           \* history: the number of the last command dequeued, or -1
    late            \* history: commands sent after stop cleared the flag

mainVars == <<main, running>>
queueVars == <<queue, seq_counter, dropped_count>>
workerVars == <<worker, now_us, cmd, stats, last, late>>
vars == <<now, mainVars, sock, callback, queueVars, workerVars>>

Commands == [seq : Nat, deadline_us : Nat, publisher : Publishers]

Init ==
    /\ now = 0
    /\ main = "configuring"
    /\ running = FALSE
    /\ sock = "none"
    /\ callback = [p \in Publishers |-> NoDeadline]
    /\ queue = <<>>
    /\ seq_counter = 0
    /\ dropped_count = 0
    /\ worker = "off"
    /\ now_us = 0
    /\ cmd = NoCommand
    /\ stats = [tx_total |-> 0, tx_success |-> 0, missed_deadline |-> 0,
                queued_dropped |-> 0]
    /\ last = -1
    /\ late = 0

-----------------------------------------------------------------------------
(* The threads end with the process: the worker is a daemon.               *)
Alive == main # "exited"
Subscribed == main \in {"looping", "joining", "closing", "closed"}
Work(from) == Alive /\ worker = from

Tick ==
    /\ Alive
    /\ now < MaxTime
    /\ now' = now + 1
    /\ UNCHANGED <<mainVars, sock, callback, queueVars, workerVars>>

-----------------------------------------------------------------------------
(* The main thread.                                                        *)

(* Without slots there is no bridge.                                       *)
ConfigureFails ==
    /\ main = "configuring"
    /\ main' = "exited"
    /\ UNCHANGED <<now, running, sock, callback, queueVars, workerVars>>

Start ==
    /\ main = "configuring"
    /\ main' = "starting"
    /\ sock' = "open"
    /\ running' = TRUE
    /\ worker' = "loop"
    /\ UNCHANGED <<now, callback, queueVars, now_us, cmd, stats, last, late>>

Subscribe ==
    /\ main = "starting"
    /\ main' = "looping"
    /\ UNCHANGED <<now, running, sock, callback, queueVars, workerVars>>

(* Ctrl+C is handled in the keep-alive loop only.                          *)
InterruptOutsideLoop ==
    /\ main \in {"configuring", "starting", "joining", "closing", "closed"}
    /\ main' = "exited"
    /\ UNCHANGED <<now, running, sock, callback, queueVars, workerVars>>

(* Mutation: stop does not clear the flag.                                 *)
InterruptKeepsRunning ==
    /\ main = "looping"
    /\ main' = "joining"
    /\ UNCHANGED <<now, running, sock, callback, queueVars, workerVars>>

(* The loop ends in stop, which clears the flag.                           *)
Interrupt ==
    /\ main = "looping"
    /\ main' = "joining"
    /\ running' = FALSE
    /\ UNCHANGED <<now, sock, callback, queueVars, workerVars>>

(* Mutation: stop waits for the worker without a limit.                    *)
JoinWorker ==
    /\ main = "joining"
    /\ worker \in {"done", "dead"}
    /\ main' = "closing"
    /\ UNCHANGED <<now, running, sock, callback, queueVars, workerVars>>

(* join(timeout=2.0) returns when the worker is done, or after two seconds *)
(* whatever the worker is doing.                                           *)
Join ==
    /\ main = "joining"
    /\ main' = "closing"
    /\ UNCHANGED <<now, running, sock, callback, queueVars, workerVars>>

(* SDRInterface.close: the socket is closed first and forgotten then.      *)
CloseSocket ==
    /\ main = "closing"
    /\ sock = "open"
    /\ sock' = "closed"
    /\ UNCHANGED <<now, mainVars, callback, queueVars, workerVars>>

ForgetSocket ==
    /\ main = "closing"
    /\ sock = "closed"
    /\ sock' = "none"
    /\ main' = "closed"
    /\ UNCHANGED <<now, running, callback, queueVars, workerVars>>

Exit ==
    /\ main = "closed"
    /\ main' = "exited"
    /\ UNCHANGED <<now, running, sock, callback, queueVars, workerVars>>

-----------------------------------------------------------------------------
(* A callback.                                                             *)

Waiting == {p \in Publishers : callback[p] # NoDeadline}

(* The deadline is computed before the queue's lock is taken.              *)
CmdVelCallback(p) ==
    /\ Subscribed
    /\ callback[p] = NoDeadline
    /\ seq_counter + Cardinality(Waiting) < MaxCommands
    /\ callback' = [callback EXCEPT ![p] = now + DeadlineTicks]
    /\ UNCHANGED <<now, mainVars, sock, queueVars, workerVars>>

NewCommand(p) ==
    [seq |-> seq_counter, deadline_us |-> callback[p], publisher |-> p]

(* Mutation: the newest command is the one that gives way.                 *)
EnqueueRefused(p) ==
    /\ Alive
    /\ callback[p] # NoDeadline
    /\ seq_counter' = seq_counter + 1
    /\ IF Len(queue) >= max_queue_len
       THEN /\ dropped_count' = dropped_count + 1
            /\ UNCHANGED queue
       ELSE /\ queue' = Append(queue, NewCommand(p))
            /\ UNCHANGED dropped_count
    /\ callback' = [callback EXCEPT ![p] = NoDeadline]
    /\ UNCHANGED <<now, mainVars, sock, workerVars>>

(* Mutation: a drop is counted only once the queue is over its limit.      *)
EnqueueMiscounted(p) ==
    /\ Alive
    /\ callback[p] # NoDeadline
    /\ seq_counter' = seq_counter + 1
    /\ dropped_count' = IF Len(queue) > max_queue_len THEN dropped_count + 1
                        ELSE dropped_count
    /\ queue' = IF Len(queue) >= max_queue_len THEN Tail(Append(queue, NewCommand(p)))
                ELSE Append(queue, NewCommand(p))
    /\ callback' = [callback EXCEPT ![p] = NoDeadline]
    /\ UNCHANGED <<now, mainVars, sock, workerVars>>

(* Mutation: the drop is counted, but the deque has no maxlen.             *)
EnqueueUnbounded(p) ==
    /\ Alive
    /\ callback[p] # NoDeadline
    /\ seq_counter' = seq_counter + 1
    /\ dropped_count' = IF Len(queue) >= max_queue_len THEN dropped_count + 1
                        ELSE dropped_count
    /\ queue' = Append(queue, NewCommand(p))
    /\ callback' = [callback EXCEPT ![p] = NoDeadline]
    /\ UNCHANGED <<now, mainVars, sock, workerVars>>

(* enqueue: a full deque drops its oldest command as it takes the new one. *)
Enqueue(p) ==
    /\ Alive
    /\ callback[p] # NoDeadline
    /\ seq_counter' = seq_counter + 1
    /\ IF Len(queue) >= max_queue_len
       THEN /\ dropped_count' = dropped_count + 1
            /\ queue' = Tail(Append(queue, NewCommand(p)))
       ELSE /\ queue' = Append(queue, NewCommand(p))
            /\ UNCHANGED dropped_count
    /\ callback' = [callback EXCEPT ![p] = NoDeadline]
    /\ UNCHANGED <<now, mainVars, sock, workerVars>>

-----------------------------------------------------------------------------
(* The slot worker.                                                        *)

CheckRunning ==
    /\ Work("loop")
    /\ worker' = IF running THEN "clock" ELSE "done"
    /\ UNCHANGED <<now, mainVars, sock, callback, queueVars, now_us, cmd, stats,
                   last, late>>

ReadClock ==
    /\ Work("clock")
    /\ now_us' = now
    /\ worker' = "expire"
    /\ UNCHANGED <<now, mainVars, sock, callback, queueVars, cmd, stats, last, late>>

(* The first k commands leave as missed.                                   *)
Expire(k) ==
    /\ queue' = SubSeq(queue, k + 1, Len(queue))
    /\ stats' = [stats EXCEPT !.missed_deadline = @ + k]
    /\ worker' = "dropped"
    /\ UNCHANGED <<now, mainVars, sock, callback, seq_counter, dropped_count,
                   now_us, cmd, last, late>>

(* Mutation: one command is expired in a pass.                             *)
ExpireOne ==
    /\ Work("expire")
    /\ Expire(IF queue # <<>> /\ queue[1].deadline_us < now_us THEN 1 ELSE 0)

(* expire_before: commands leave from the head until the first one that is *)
(* in time, or the end.                                                    *)
ExpireBefore ==
    /\ Work("expire")
    /\ \E k \in 0 .. Len(queue) :
          /\ \A i \in 1 .. k : queue[i].deadline_us < now_us
          /\ k < Len(queue) => queue[k + 1].deadline_us >= now_us
          /\ Expire(k)

(* dropped_count is read without the lock.                                 *)
ReadDropped ==
    /\ Work("dropped")
    /\ stats' = [stats EXCEPT !.queued_dropped = dropped_count]
    /\ worker' = "dequeue"
    /\ UNCHANGED <<now, mainVars, sock, callback, queueVars, now_us, cmd, last, late>>

(* Mutation: the worker takes an empty queue for the end.                  *)
DequeueStops ==
    /\ Work("dequeue")
    /\ IF queue = <<>>
       THEN /\ worker' = "done"
            /\ UNCHANGED <<queue, cmd, last>>
       ELSE /\ cmd' = Head(queue)
            /\ last' = Head(queue).seq
            /\ queue' = Tail(queue)
            /\ worker' = "socket"
    /\ UNCHANGED <<now, mainVars, sock, callback, seq_counter, dropped_count,
                   now_us, stats, late>>

(* dequeue: an empty queue sends the worker to sleep and round again.      *)
Dequeue ==
    /\ Work("dequeue")
    /\ IF queue = <<>>
       THEN /\ worker' = "loop"
            /\ UNCHANGED <<queue, cmd, last>>
       ELSE /\ cmd' = Head(queue)
            /\ last' = Head(queue).seq
            /\ queue' = Tail(queue)
            /\ worker' = "socket"
    /\ UNCHANGED <<now, mainVars, sock, callback, seq_counter, dropped_count,
                   now_us, stats, late>>

(* send_at_time opens the socket if there is none, even after stop.        *)
OpenSocket ==
    /\ Work("socket")
    /\ sock' = IF sock = "none" THEN "open" ELSE sock
    /\ worker' = "sendto"
    /\ UNCHANGED <<now, mainVars, callback, queueVars, now_us, cmd, stats, last, late>>

(* _sock is read again.  If stop has forgotten it, the call is on None,    *)
(* which no handler catches, and the thread dies.                          *)
CallSendto ==
    /\ Work("sendto")
    /\ worker' = IF sock = "none" THEN "dead" ELSE "sending"
    /\ UNCHANGED <<now, mainVars, sock, callback, queueVars, now_us, cmd, stats,
                   last, late>>

(* Mutation: a failed send keeps the command, to try it again.             *)
SendtoRetries(ok) ==
    /\ Work("sending")
    /\ stats' = [stats EXCEPT !.tx_total = @ + 1,
                              !.tx_success = @ + (IF ok THEN 1 ELSE 0)]
    /\ worker' = IF ok THEN "loop" ELSE "socket"
    /\ cmd' = IF ok THEN NoCommand ELSE cmd
    /\ late' = IF running THEN late ELSE late + 1
    /\ UNCHANGED <<now, mainVars, sock, callback, queueVars, now_us, last>>

(* sendto returns or fails with an OSError, after however long a time (the *)
(* socket may have been closed meanwhile): the command counts as           *)
(* transmitted either way.                                                 *)
Sendto(ok) ==
    /\ Work("sending")
    /\ stats' = [stats EXCEPT !.tx_total = @ + 1,
                              !.tx_success = @ + (IF ok THEN 1 ELSE 0)]
    /\ worker' = "loop"
    /\ cmd' = NoCommand
    /\ late' = IF running THEN late ELSE late + 1
    /\ UNCHANGED <<now, mainVars, sock, callback, queueVars, now_us, last>>

-----------------------------------------------------------------------------
Shutdown == Join \/ CloseSocket \/ ForgetSocket \/ Exit
Main == ConfigureFails \/ Start \/ Subscribe \/ InterruptOutsideLoop \/ Interrupt
          \/ Shutdown
Callback(p) == CmdVelCallback(p) \/ Enqueue(p)
Worker == CheckRunning \/ ReadClock \/ ExpireBefore \/ ReadDropped \/ Dequeue
            \/ OpenSocket \/ CallSendto

Next == \/ Tick \/ Main \/ Worker
        \/ \E p \in Publishers : Callback(p)
        \/ \E ok \in BOOLEAN : Sendto(ok)

Spec == Init /\ [][Next]_vars

(* Both threads are scheduled.  Nothing makes a call of sendto return: it  *)
(* may be looking up the name of the destination.                          *)
FairSpec == Spec /\ WF_vars(Worker) /\ WF_vars(Shutdown)

-----------------------------------------------------------------------------
TypeOK ==
    /\ now \in 0 .. MaxTime
    /\ main \in {"configuring", "starting", "looping", "joining", "closing",
                 "closed", "exited"}
    /\ running \in BOOLEAN
    /\ sock \in {"none", "open", "closed"}
    /\ callback \in [Publishers -> Nat \cup {NoDeadline}]
    /\ queue \in Seq(Commands) /\ Len(queue) <= max_queue_len
    /\ seq_counter \in Nat
    /\ dropped_count \in Nat
    /\ worker \in {"off", "loop", "clock", "expire", "dropped", "dequeue", "socket",
                   "sendto", "sending", "done", "dead"}
    /\ now_us \in 0 .. MaxTime
    /\ cmd \in Commands \cup {NoCommand}
    /\ stats \in [tx_total : Nat, tx_success : Nat, missed_deadline : Nat,
                  queued_dropped : Nat]
    /\ last \in Nat \cup {-1}
    /\ late \in Nat

(* The counters of three threads add up: every command that was given a    *)
(* number waits, is in the worker's hand, or was counted exactly once as   *)
(* dropped, missed or transmitted.                                         *)
EveryCommandCounted ==
    seq_counter = dropped_count + stats.missed_deadline + stats.tx_total
                    + Len(queue) + (IF cmd = NoCommand THEN 0 ELSE 1)

(* stop clears the flag without a lock and gives up waiting for the worker *)
(* after two seconds.  Whatever the worker is doing, at most one command   *)
(* is sent after that.                                                     *)
AtMostOneAfterStop == late <= 1

(* The socket is used without a lock.  While the bridge runs, nobody       *)
(* closes it under the worker, and the worker does not die of it.          *)
WorkerKeepsItsSocket == running => sock = "open" /\ worker # "dead"

(* What the sender is given is what LossyQueue allows: in order, without   *)
(* repetition, and only old commands give way.                             *)
Lossy == INSTANCE LossyQueue WITH
            Capacity <- max_queue_len,
            waiting <- {queue[i].seq : i \in 1 .. Len(queue)},
            next <- seq_counter

QueueImplements == Lossy!Spec

(* expire_before stops at the first command that is in time.  Deadlines    *)
(* are computed outside the lock, so that one publisher's commands may     *)
(* overtake another's: an overdue command stays only behind one that is in *)
(* time and came from another publisher.                                   *)
LateOnlyBehindAnother ==
    [][worker = "expire" /\ worker' = "dropped" =>
         \A i \in 1 .. Len(queue') : queue'[i].deadline_us < now_us =>
             \E j \in 1 .. i - 1 :
                 /\ queue'[j].deadline_us >= now_us
                 /\ queue'[j].publisher # queue'[i].publisher]_vars

(* The docstring of expire_before: "Remove and return all commands whose   *)
(* deadline has passed."                                                   *)
ExpiryIsComplete ==
    [][worker = "expire" /\ worker' = "dropped" =>
         \A i \in 1 .. Len(queue') : queue'[i].deadline_us >= now_us]_vars

Queued(n) == \E i \in 1 .. Len(queue) : queue[i].seq = n

(* While the bridge runs, every command leaves the queue, in one way or    *)
(* another, unless a call of sendto never returns.                         *)
CommandsLeave ==
    \/ <>[](worker = "sending")
    \/ \A n \in 0 .. MaxCommands - 1 : Queued(n) ~> ~Queued(n) \/ ~running

(* Ctrl+C ends the program even when the worker hangs in sendto.           *)
StopEnds == main = "joining" ~> main = "exited"

-----------------------------------------------------------------------------
(* The inductive invariant behind the safety properties.                   *)

(* The queue is an interval of numbers that ends with the newest, beyond   *)
(* everything that was dequeued.                                           *)
QueueInv ==
    /\ \A i \in 1 .. Len(queue) : queue[i].seq = seq_counter - Len(queue) + i - 1
    /\ last < seq_counter - Len(queue)

HandInv == cmd # NoCommand <=> worker \in {"socket", "sendto", "sending", "dead"}

(* The flag is down only once stop is under way; a send after that leaves  *)
(* the worker nothing but to find the flag down.                           *)
StopInv ==
    /\ main = "configuring" => worker = "off"
    /\ main \in {"starting", "looping"} => running
    /\ main \in {"joining", "closing", "closed"} => ~running
    /\ running => late = 0
    /\ late <= 1
    /\ late = 1 => worker \in {"loop", "done"}

SocketInv ==
    /\ WorkerKeepsItsSocket
    /\ main = "joining" => sock = "open"
    /\ running => main \in {"starting", "looping", "exited"}

(* The deadlines of one publisher do not decrease along the queue.         *)
DeadlineInv ==
    /\ \A i, j \in 1 .. Len(queue) :
          i < j /\ queue[i].publisher = queue[j].publisher
            => queue[i].deadline_us <= queue[j].deadline_us
    /\ \A i \in 1 .. Len(queue) :
          /\ queue[i].deadline_us <= now + DeadlineTicks
          /\ callback[queue[i].publisher] # NoDeadline
               => queue[i].deadline_us <= callback[queue[i].publisher]
    /\ \A p \in Publishers :
          callback[p] # NoDeadline => callback[p] <= now + DeadlineTicks

IInv == /\ TypeOK /\ EveryCommandCounted /\ QueueInv /\ HandInv /\ StopInv
        /\ SocketInv /\ DeadlineInv
=============================================================================
