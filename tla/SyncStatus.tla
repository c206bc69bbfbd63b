------------------------------ MODULE SyncStatus ------------------------------
(***************************************************************************)
(* The synchronisation rounds of the worker (src/worker.js): bootstrapSync  *)
(* asks the verified peers for their tips, syncForward downloads the        *)
(* winner's blocks, a failure pauses and starts over, a circuit breaker     *)
(* gives up.  Rounds are started by timers, new peers and far blocks,       *)
(* so several wait at once; they share `status`, the flag `isSyncing` and   *)
(* the failure count.  Between two awaits of one round any other may run.   *)
(*                                                                          *)
(* What the peers answer is a choice of the environment.  The blocks        *)
(* themselves are the business of ChainState.  The command retrySync, which *)
(* forces the shared cells back by hand, is left out.                       *)
(***************************************************************************)
EXTENDS Naturals

CONSTANTS
    Rounds,                        \* the calls of bootstrapSync that can be pending at once
    MAX_ATTEMPTS,                  \* questions asked by one round
    MAX_CONSECUTIVE_SYNC_FAILURES  \* where the circuit breaker opens

ASSUME SyncAssumption ==
    /\ MAX_ATTEMPTS \in Nat \ {0}
    /\ MAX_CONSECUTIVE_SYNC_FAILURES \in Nat \ {0}

VARIABLES
    status,       \* syncState.syncProgress.status
    isSyncing,    \* workerState.isSyncing: arriving blocks are put off while it is set
    failures,     \* syncState.consecutiveFailures
    round,        \* where each round is, and its number of questions
    mutexStuck    \* globalMutex was acquired by a handler that never releases it

vars == <<status, isSyncing, failures, round, mutexStuck>>

Status == {"IDLE", "CONSENSUS", "DOWNLOADING", "COOLDOWN"}

\* asking awaits the publish, listening the two seconds for answers,
\* evaluating the fetch of a candidate's tip; hashes, blocks, rescan and reorg
\* are the awaits of syncForward; refetch and handing those of the short way
\* for a fork that is not longer.
Consensus == {"asking", "listening", "evaluating"}
Download == {"hashes", "blocks", "rescan", "reorg", "refetch", "handing"}
Place == {"none", "timer", "cooldown", "lastTry"} \union Consensus \union Download

Round == [at : Place, attempt : 1 .. MAX_ATTEMPTS]
NoRound == [at |-> "none", attempt |-> 1]

TypeOK ==
    /\ status \in Status
    /\ isSyncing \in BOOLEAN
    /\ failures \in 0 .. MAX_CONSECUTIVE_SYNC_FAILURES
    /\ round \in [Rounds -> Round]
    /\ mutexStuck \in BOOLEAN

At(r, place) == round[r].at = place
Goto(r, place) == round' = [round EXCEPT ![r].at = place]
Leave(r) == round' = [round EXCEPT ![r] = NoRound]

Init ==
    /\ status = "IDLE"
    /\ isSyncing = FALSE
    /\ failures = 0
    /\ round = [r \in Rounds |-> NoRound]
    /\ mutexStuck = FALSE

-------------------------------------------------------------------------------
(* bootstrapSync                                                            *)

\* The timers that start a round: at start-up, after a peer is verified, after
\* a manual connection, after a block from far ahead.
Trigger(r) ==
    /\ At(r, "none")
    /\ round' = [round EXCEPT ![r] = [at |-> "timer", attempt |-> 1]]
    /\ UNCHANGED <<status, isSyncing, failures, mutexStuck>>

\* Mutants of MayStart.
MayStartUnlessDownloading(st) == st # "DOWNLOADING"
MayStartUnlessAsking(st) == st # "CONSENSUS"
MayStartInPause(st) == st \in {"IDLE", "COOLDOWN"}
MayStart(st) == st = "IDLE"

\* scheduleRetry, in the status it finds: it sets the next timer or gives up.
ScheduleRetry(r, st) ==
    IF st # "CONSENSUS"
    THEN Leave(r) /\ status' = st
    ELSE IF round[r].attempt >= MAX_ATTEMPTS
         THEN Leave(r) /\ status' = "IDLE"
         ELSE /\ round' = [round EXCEPT ![r] =
                              [at |-> "timer", attempt |-> round[r].attempt + 1]]
              /\ status' = st

TimerSkips(r) ==
    /\ At(r, "timer")
    /\ ~MayStart(status)
    /\ Leave(r)
    /\ UNCHANGED <<status, isSyncing, failures, mutexStuck>>

TimerFindsNobody(r) ==
    /\ At(r, "timer")
    /\ MayStart(status)
    /\ ScheduleRetry(r, "IDLE")
    /\ UNCHANGED <<isSyncing, failures, mutexStuck>>

TimerAsks(r) ==
    /\ At(r, "timer")
    /\ MayStart(status)
    /\ status' = "CONSENSUS"
    /\ Goto(r, "asking")
    /\ UNCHANGED <<isSyncing, failures, mutexStuck>>

AskFails(r) ==
    /\ At(r, "asking")
    /\ status' = "IDLE"
    /\ Leave(r)
    /\ UNCHANGED <<isSyncing, failures, mutexStuck>>

AskSent(r) ==
    /\ At(r, "asking")
    /\ Goto(r, "listening")
    /\ UNCHANGED <<status, isSyncing, failures, mutexStuck>>

\* Two seconds later.  A round whose status somebody changed ends here.
NobodyAnswered(r) ==
    /\ At(r, "listening")
    /\ ScheduleRetry(r, status)
    /\ UNCHANGED <<isSyncing, failures, mutexStuck>>

TipsReceived(r) ==
    /\ At(r, "listening")
    /\ IF status = "CONSENSUS" THEN Goto(r, "evaluating") ELSE Leave(r)
    /\ UNCHANGED <<status, isSyncing, failures, mutexStuck>>

NoBetterChain(r) ==
    /\ At(r, "evaluating")
    /\ status' = "IDLE"
    /\ Leave(r)
    /\ UNCHANGED <<isSyncing, failures, mutexStuck>>

-------------------------------------------------------------------------------
(* syncForward                                                              *)

SyncForwardWithoutBreaker(r, syncing) ==  \* a mutant
    IF status = "DOWNLOADING"
    THEN /\ isSyncing' = syncing
         /\ Leave(r)
         /\ UNCHANGED status
    ELSE /\ isSyncing' = TRUE
         /\ status' = "DOWNLOADING"
         /\ Goto(r, "hashes")

\* syncForward up to its first await, called with isSyncing as `syncing`.
SyncForward(r, syncing) ==
    IF status = "DOWNLOADING" \/ failures >= MAX_CONSECUTIVE_SYNC_FAILURES
    THEN /\ isSyncing' = syncing
         /\ Leave(r)
         /\ UNCHANGED status
    ELSE /\ isSyncing' = TRUE
         /\ status' = "DOWNLOADING"
         /\ Goto(r, "hashes")

LongerChainFound(r) ==
    /\ At(r, "evaluating")
    /\ SyncForward(r, TRUE)
    /\ UNCHANGED <<failures, mutexStuck>>

\* An empty list: already at the target height, return.
HashesEmpty(r) ==
    /\ At(r, "hashes")
    /\ Leave(r)
    /\ UNCHANGED <<status, isSyncing, failures, mutexStuck>>

HashesReceived(r) ==
    /\ At(r, "hashes")
    /\ Goto(r, "blocks")
    /\ UNCHANGED <<status, isSyncing, failures, mutexStuck>>

\* A block of the list that is no child of the tip: plan a reorganisation.
BlocksFork(r) ==
    /\ At(r, "blocks")
    /\ Goto(r, "reorg")
    /\ UNCHANGED <<status, isSyncing, failures, mutexStuck>>

\* Every block is in; open wallets are scanned under globalMutex.
BlocksDone(r) ==
    /\ At(r, "blocks")
    /\ Goto(r, "rescan")
    /\ UNCHANGED <<status, isSyncing, failures, mutexStuck>>

Complete(r) ==
    /\ status' = "IDLE"
    /\ isSyncing' = FALSE
    /\ failures' = 0
    /\ Leave(r)
    /\ UNCHANGED mutexStuck

BlocksDoneNoWallet(r) == At(r, "blocks") /\ Complete(r)
RescanDone(r) == At(r, "rescan") /\ ~mutexStuck /\ Complete(r)
ReorgDone(r) == At(r, "reorg") /\ Complete(r)

\* A mutant of Failed: the failure is not counted.
FailedUncounted(r, boss) ==
    /\ status' = "COOLDOWN"
    /\ Goto(r, "cooldown")
    /\ UNCHANGED <<isSyncing, failures, mutexStuck>>

\* The catch of syncForward.  `boss`: a bootstrap peer is connected.
Failed(r, boss) ==
    /\ LET more == failures + 1
           open == more >= MAX_CONSECUTIVE_SYNC_FAILURES
       IN  \/ /\ open /\ boss
              /\ failures' = 0
              /\ Goto(r, "lastTry")
              /\ UNCHANGED <<status, isSyncing>>
           \/ /\ open /\ ~boss
              /\ failures' = more
              /\ status' = "IDLE"
              /\ isSyncing' = FALSE
              /\ Leave(r)
           \/ /\ ~open
              /\ failures' = more
              /\ status' = "COOLDOWN"
              /\ Goto(r, "cooldown")
              /\ UNCHANGED isSyncing
    /\ UNCHANGED mutexStuck

\* Hash lists that fail or disagree, a block that is missing or invalid, a
\* timeout, a wallet that cannot be scanned.
SyncFails(r) ==
    /\ \/ At(r, "hashes") \/ At(r, "blocks")
       \/ At(r, "rescan") /\ ~mutexStuck
    /\ \E boss \in BOOLEAN : Failed(r, boss)

\* The end of the pause sets IDLE and calls bootstrapSync at once.
CooldownEnds(r) ==
    /\ At(r, "cooldown")
    /\ \/ /\ status' = "IDLE"
          /\ Leave(r)
       \/ /\ status' = "CONSENSUS"
          /\ round' = [round EXCEPT ![r] = [at |-> "asking", attempt |-> 1]]
    /\ UNCHANGED <<isSyncing, failures, mutexStuck>>

\* The last direct attempt calls syncForward itself.
LastTry(r) ==
    /\ At(r, "lastTry")
    /\ SyncForward(r, isSyncing)
    /\ UNCHANGED <<failures, mutexStuck>>

-------------------------------------------------------------------------------
(* A heavier fork that is not longer                                        *)

ForkFound(r) ==
    /\ At(r, "evaluating")
    /\ isSyncing' = TRUE
    /\ status' = "DOWNLOADING"
    /\ Goto(r, "refetch")
    /\ UNCHANGED <<failures, mutexStuck>>

\* The tip is fetched again and handed to handleRemoteBlockDownloaded, which
\* waits for globalMutex and puts the block off while isSyncing is set.
TipFetched(r) ==
    /\ At(r, "refetch")
    /\ Goto(r, "handing")
    /\ UNCHANGED <<status, isSyncing, failures, mutexStuck>>

TipHandled(r) ==
    /\ At(r, "handing")
    /\ ~mutexStuck
    /\ status' = "IDLE"
    /\ isSyncing' = FALSE
    /\ Leave(r)
    /\ UNCHANGED <<failures, mutexStuck>>

\* The second fetch yields null: the handler acquires globalMutex and throws,
\* and its finally block throws again before release().
TipMissing(r) ==
    /\ At(r, "refetch")
    /\ ~mutexStuck
    /\ mutexStuck' = TRUE
    /\ status' = "IDLE"
    /\ Leave(r)
    /\ UNCHANGED <<isSyncing, failures>>

-------------------------------------------------------------------------------
(* Outside the rounds                                                       *)

\* A block handler with an active miner reorganises and then waits, inside
\* globalMutex, for startPoSTMining, which waits for globalMutex.
HandlerWaitsForItself ==
    /\ ~mutexStuck
    /\ mutexStuck' = TRUE
    /\ UNCHANGED <<status, isSyncing, failures, round>>

Bootstrap(r) ==
    \/ TimerSkips(r) \/ TimerFindsNobody(r) \/ TimerAsks(r)
    \/ AskFails(r) \/ AskSent(r) \/ NobodyAnswered(r) \/ TipsReceived(r)
    \/ NoBetterChain(r) \/ LongerChainFound(r) \/ ForkFound(r)

Forward(r) ==
    \/ HashesEmpty(r) \/ HashesReceived(r) \/ BlocksFork(r) \/ BlocksDone(r)
    \/ BlocksDoneNoWallet(r) \/ RescanDone(r) \/ SyncFails(r)
    \/ CooldownEnds(r) \/ LastTry(r)

Fork(r) == TipFetched(r) \/ TipHandled(r) \/ TipMissing(r)

Step(r) == Bootstrap(r) \/ Forward(r) \/ ReorgDone(r) \/ Fork(r)

Next == (\E r \in Rounds : Trigger(r) \/ Step(r)) \/ HandlerWaitsForItself

\* Blocks come on direct streams, which are opened and read without a timeout
\* (fetchBlockDirectly): a round that waits for one may wait for ever, however
\* long TIMEOUT_MS is, for syncForward looks at the clock between batches only.
Streaming == {"evaluating", "blocks", "refetch"}

\* Timers fire, requests for tips and hashes are answered or time out, publishes
\* return.  What needs globalMutex ends only if the mutex is released (a
\* reorganisation that restarts the miner needs it too).
Progress(r) ==
    /\ round[r].at \notin Streaming
    /\ Bootstrap(r) \/ Forward(r) \/ Fork(r) \/ (ReorgDone(r) /\ ~mutexStuck)

Spec == Init /\ [][Next]_vars /\ \A r \in Rounds : WF_vars(Progress(r))

-------------------------------------------------------------------------------
(* Properties                                                               *)

InProgress(r) == round[r].at \notin {"none", "timer"}
Downloading(r) == round[r].at \in Download

\* However many rounds are started, at most one is between its question and
\* its end, its pauses included: rounds never interleave their writes to the
\* shared status, flag and failure count.
ExclusiveSync ==
    \A r, q \in Rounds : InProgress(r) /\ InProgress(q) => r = q

\* While blocks are downloaded, scanned or reorganised, the flag that makes the
\* block handler put arriving blocks off is set, whatever other rounds, timers
\* and failures did in between.
DownloadIsProtected ==
    \A r \in Rounds : Downloading(r) => isSyncing /\ status = "DOWNLOADING"

\* A pause ends by its own timer only: no new peer and no arriving block starts
\* a synchronisation before the back-off of the last failure is over.
CooldownIsKept ==
    status = "COOLDOWN" <=> \E r \in Rounds : At(r, "cooldown")

\* Each place of a round has its status, and a download never starts with the
\* circuit breaker open: what the three invariants above need to be inductive.
StatusFits ==
    \A r \in Rounds :
        /\ round[r].at \in Consensus => status = "CONSENSUS"
        /\ round[r].at \in Download \union {"lastTry"} => status = "DOWNLOADING" /\ isSyncing
        /\ round[r].at \in {"hashes", "blocks", "rescan", "reorg"} =>
               failures < MAX_CONSECUTIVE_SYNC_FAILURES

SyncInvariant == TypeOK /\ ExclusiveSync /\ CooldownIsKept /\ StatusFits

\* No sequence of failures, pauses and retries goes on for ever, because the
\* circuit breaker counts across rounds: a round ends, or it waits for ever at
\* one place, for a mutex that is never released or a peer that keeps a stream
\* silent.
Hangs(r) ==
    \/ \E place \in {"rescan", "reorg", "handing"} : <>[](mutexStuck /\ At(r, place))
    \/ \E place \in Streaming : <>[]At(r, place)

RoundsEndOrHang == \A r \in Rounds : []<>At(r, "none") \/ Hangs(r)
===============================================================================
