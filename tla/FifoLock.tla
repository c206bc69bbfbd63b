------------------------------- MODULE FifoLock -------------------------------
(***************************************************************************)
(* What the worker relies on when it calls globalMutex.acquire(): callers   *)
(* get the lock one at a time and in the order in which they asked.         *)
(***************************************************************************)
EXTENDS Naturals, Sequences

CONSTANT Task    \* the calls that may want the lock

VARIABLE queue   \* those that asked and have not released, the holder first

Init == queue = <<>>

Ask(t) ==
    /\ \A i \in 1 .. Len(queue) : queue[i] # t
    /\ queue' = Append(queue, t)

GiveBack == queue # <<>> /\ queue' = Tail(queue)

Next == GiveBack \/ \E t \in Task : Ask(t)

Spec == Init /\ [][Next]_queue
===============================================================================
