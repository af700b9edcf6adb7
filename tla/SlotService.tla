---------------------------- MODULE SlotService ----------------------------
(***************************************************************************)
(* What slot allocation promises, without connections, lines and queues.   *)
(* Each execution of the server has one plan and hands out the numbers 0,  *)
(* 1, 2, ... of its grants.  A program that is granted a number may obtain *)
(* the id and the slots that the plan has for it.  It may obtain less,     *)
(* session 2 first, only from an execution that is over.  A program that   *)
(* writes at all writes what it obtained, once, to its own board; one that *)
(* quits before gives it up.  The server writes the plan's own slots to    *)
(* the AP's board.  Writes may fail.                                       *)
(***************************************************************************)
EXTENDS SlotBitmap

CONSTANTS
    Programs,
    Writers,   \* the programs that write a device
    Stas,
    AP,
    Board,     \* Board[p]: the board of program p
    Plans

VARIABLES
    server,    \* "down", "configuring" or "open"
    run,       \* number of the present or last execution
    plan,      \* its plan
    grant,     \* grant[p] = [run, k, plan], of the programs granted a number
    held,      \* held[p] = [id, s1, s2], of those that have obtained slots
    pending,   \* the programs that have still to write what they obtained
    dev        \* dev[b]: what is in the device of board b

vars == <<server, run, plan, grant, held, pending, dev>>

NoRecord == [user_ID |-> 0, allo_vec |-> {}]

Init ==
    /\ server = "down" /\ run = 0 /\ plan \in Plans
    /\ grant = << >> /\ held = << >> /\ pending = {}
    /\ dev = [b \in Stas \cup {AP} |-> NoRecord]

(* f with the value v for x, whether or not it has x.                      *)
With(f, x, v) == [y \in DOMAIN f \cup {x} |-> IF y = x THEN v ELSE f[y]]

Write(b, id, a) ==
    \/ dev' = [dev EXCEPT ![b] = [user_ID |-> id, allo_vec |-> Bitmap(a)]]
    \/ UNCHANGED dev

Start ==
    /\ server = "down" /\ server' = "configuring"
    /\ run' = run + 1 /\ plan' \in Plans
    /\ Write(AP, 0, plan'.ap)
    /\ UNCHANGED <<grant, held, pending>>

Open ==
    /\ server = "configuring" /\ server' = "open"
    /\ UNCHANGED <<run, plan, grant, held, pending, dev>>

(* The end of the execution, or of the board with what is in its device.   *)
End ==
    /\ server # "down" /\ server' = "down"
    /\ \/ UNCHANGED dev
       \/ server = "open" /\ dev' = [dev EXCEPT ![AP] = NoRecord]
    /\ UNCHANGED <<run, plan, grant, held, pending>>

(* The next number is the number of grants so far.                         *)
NextNumber == Cardinality({q \in DOMAIN grant : grant[q].run = run})

Grant(p) ==
    /\ server = "open" /\ p \notin DOMAIN grant
    /\ grant' = With(grant, p, [run |-> run, k |-> NextNumber, plan |-> plan])
    /\ UNCHANGED <<server, run, plan, held, pending, dev>>

Id(p) == grant[p].k % grant[p].plan.num_clients

Slots(p) == grant[p].plan.sta_configs[Id(p)]

Obtained(p, s1, s2) == [id |-> Id(p), s1 |-> s1, s2 |-> s2]

Obtainable(p) ==
    {Obtained(p, Slots(p).s1, Slots(p).s2)} \cup
        IF server = "open" /\ grant[p].run = run THEN {}
        ELSE {Obtained(p, Slots(p).s1, {}), Obtained(p, {}, {})}

Obtain(p) ==
    /\ p \in DOMAIN grant \ DOMAIN held
    /\ \E a \in Obtainable(p) : held' = With(held, p, a)
    /\ pending' = pending \cup ({p} \cap Writers)
    /\ UNCHANGED <<server, run, plan, grant, dev>>

WriteSlots(p) ==
    /\ p \in pending /\ pending' = pending \ {p}
    /\ Write(Board[p], held[p].id, held[p])
    /\ UNCHANGED <<server, run, plan, grant, held>>

(* The program is ended before it writes.                                  *)
Quit(p) ==
    /\ p \in pending /\ pending' = pending \ {p}
    /\ held' = [q \in DOMAIN held \ {p} |-> held[q]]
    /\ UNCHANGED <<server, run, plan, grant, dev>>

Next ==
    \/ Start \/ Open \/ End
    \/ \E p \in Programs : Grant(p) \/ Obtain(p) \/ WriteSlots(p) \/ Quit(p)

Spec == Init /\ [][Next]_vars
=============================================================================
