------------------------------ MODULE LossyQueue ----------------------------
(***************************************************************************)
(* What the command queue of the bridge promises.  Commands are numbered   *)
(* in the order in which they are accepted.  A command waits until it is   *)
(* given to the sender, until Capacity newer ones have been accepted, or   *)
(* until it is given up together with everything older.  The sender gets   *)
(* the oldest that waits: what it is given has gaps, but never goes back   *)
(* and never repeats itself.                                               *)
(***************************************************************************)
EXTENDS Integers

CONSTANT Capacity

VARIABLES
    waiting,  \* the numbers of the commands that wait
    next,     \* the number of the next command
    last      \* the number last given to the sender, or -1

vars == <<waiting, next, last>>

Init == waiting = {} /\ next = 0 /\ last = -1

Put == /\ next' = next + 1
       /\ waiting' = {n \in waiting \cup {next} : n + Capacity > next}
       /\ UNCHANGED last

Take == \E n \in waiting :
            /\ \A m \in waiting : n <= m
            /\ last' = n
            /\ waiting' = waiting \ {n}
            /\ UNCHANGED next

GiveUp == \E n \in waiting :
              /\ waiting' = {m \in waiting : n < m}
              /\ UNCHANGED <<next, last>>

Next == Put \/ Take \/ GiveUp

Spec == Init /\ [][Next]_vars

(* The promise in one formula, which the sender relies on.                 *)
InOrder == [][last' # last => last < last' /\ last' < next]_vars
=============================================================================
