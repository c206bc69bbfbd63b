----------------------------- MODULE PromiseMutex -----------------------------
(***************************************************************************)
(* class Mutex of src/worker.js.  acquire() makes a promise, puts it behind *)
(* the chain `_promise` with then(), and awaits the chain it found;         *)
(* release() resolves the caller's promise.  A promise of the chain is      *)
(* resolved when its caller released and the one before it is resolved, so  *)
(* the unresolved promises are the last ones made.  A promise is named by   *)
(* its distance from the last resolved one; 0 stands for no promise.        *)
(***************************************************************************)
EXTENDS Naturals

CONSTANT Task     \* the calls of acquire() that can be pending at once

VARIABLES
    place,        \* which unresolved promise is this call's own
    unresolved    \* how many promises of the chain are unresolved

mutexVars == <<place, unresolved>>

MutexInit ==
    /\ place = [t \in Task |-> 0]
    /\ unresolved = 0

\* Mutants of Acquire: the chain is not extended; the call jumps the queue.
AcquireUnchained(t) ==
    /\ place[t] = 0
    /\ place' = [place EXCEPT ![t] = unresolved + 1]
    /\ unresolved' = 1
AcquireFirst(t) ==
    /\ place[t] = 0
    /\ place' = [s \in Task |-> IF s = t THEN IF unresolved = 0 THEN 1 ELSE 2
                                ELSE IF place[s] > 1 THEN place[s] + 1 ELSE place[s]]
    /\ unresolved' = unresolved + 1
Acquire(t) ==
    /\ place[t] = 0
    /\ place' = [place EXCEPT ![t] = unresolved + 1]
    /\ unresolved' = unresolved + 1

\* The awaited promise is resolved, or there was none.
Granted(t) == place[t] = 1

Release(t) ==
    /\ Granted(t)
    /\ place' = [s \in Task |-> IF place[s] = 0 THEN 0 ELSE place[s] - 1]
    /\ unresolved' = unresolved - 1

MutexNext == \E t \in Task : Acquire(t) \/ Release(t)

MutexSpec == MutexInit /\ [][MutexNext]_mutexVars

-------------------------------------------------------------------------------
MutexTypeOK ==
    /\ place \in [Task -> Nat]
    /\ unresolved \in Nat

\* The unresolved promises are numbered without gap, each made by one call.
ChainInvariant ==
    /\ MutexTypeOK
    /\ \A t \in Task : place[t] <= unresolved
    /\ \A i \in 1 .. unresolved : \E t \in Task : place[t] = i
    /\ \A s, t \in Task : place[s] = place[t] /\ place[s] # 0 => s = t

\* Two calls never hold the mutex at once.
MutualExclusion == \A s, t \in Task : Granted(s) /\ Granted(t) => s = t

\* The calls of the chain, the holder first.
Lock == INSTANCE FifoLock WITH
    queue <- [i \in 1 .. unresolved |-> CHOOSE t \in Task : place[t] = i]

\* worker.js:284, the chain of promises is a first-in first-out lock: whatever
\* the callers do in between, none is overtaken and none shares.
MutexIsALock == Lock!Spec
===============================================================================
