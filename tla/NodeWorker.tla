------------------------------ MODULE NodeWorker ------------------------------
(***************************************************************************)
(* The block handler and the control of the miner (src/worker.js and        *)
(* src/mining-worker.js).  Blocks are handled one at a time under           *)
(* globalMutex; so is the start of a mining job.  Between two awaits of one *)
(* call any other may run: other handlers, restart timers, commands of the  *)
(* user, candidates of the mining thread, and the synchronisation, which    *)
(* moves the tip without the mutex.                                         *)
(*                                                                         *)
(* What the core answers for a block is a choice limited by what the tip    *)
(* allows; the blocks themselves are the business of ChainState.            *)
(***************************************************************************)
EXTENDS PromiseMutex

CONSTANTS
    Handlers,     \* calls of handleRemoteBlockDownloaded that can be pending at once
    Starters,     \* calls of startPoSTMining that can be pending at once
    Inner,        \* the call of startPoSTMining made inside a block handler
    MaxHeight,    \* bound: heights of the chain
    MaxReorgs,    \* bound: how often the chain moves to another branch
    MaxRestarts   \* bound: more pending restart timers than this count as this many

ASSUME WorkerAssumption ==
    /\ Task = Handlers \union Starters \union {Inner}
    /\ Handlers \intersect Starters = {}
    /\ Inner \notin Handlers \union Starters
    /\ MaxHeight \in Nat /\ MaxReorgs \in Nat /\ MaxRestarts \in Nat \ {0}

VARIABLES
    at,           \* where each call is
    tip,          \* the tip of the chain: its height, and which branch it is on
    carried,      \* the mining candidate a handler works on, or NoJob for a peer's block
    minerActive,  \* workerState.minerActive
    isSyncing,    \* workerState.isSyncing
    isReorging,   \* workerState.isReorging
    restarts,     \* restart timers and spawned restarts that have not begun
    job,          \* what the mining thread works on
    found,        \* the current job's candidate on its way from the mining thread;
                  \* one of an older job is ignored when it arrives
    processing,   \* workerState.processingCandidateHeight, 0 for null
    height,       \* the height startPoSTMining read before its await
    excused       \* history: since the last job was posted, one of the known
                  \* ways to lose the miner occurred

mining == <<job, found, processing, height, excused>>
vars == <<place, unresolved, at, tip, carried, minerActive, isSyncing, isReorging,
          restarts, job, found, processing, height, excused>>

Tip == [height : 0 .. MaxHeight, branch : 0 .. MaxReorgs]
Job == [height : 1 .. MaxHeight + 1, prev : Tip]
NoJob == [height |-> 0]

\* waiting: in globalMutex.acquire(); asked: the same in a start of the user;
\* publishing, requesting: in a publish; aborting, stopping: in
\* abortCurrentMiningJob() before a reorganisation, with __resumeMining unset or
\* set; switching, switchStopped: awaiting atomic_reorg, that is, with the
\* miner to resume in the second case; planning, planStopping, planSwitching,
\* planSwitchStopped: the same in triggerReorgPlan; restarting: in
\* abortCurrentMiningJob() before a restart; starting: inside startPoSTMining;
\* resuming: in startPoSTMining called by the handler; lost: the handler threw
\* before release().
Inside == {"publishing", "requesting", "aborting", "stopping", "switching", "switchStopped",
           "starting", "resuming", "lost"}
Waiting == {"waiting", "asked"}
Plans == {"planning", "planStopping", "planSwitching", "planSwitchStopped"}
Outside == Waiting \union Plans \union {"idle", "restarting"}
Planning(s) == at[s] \in Plans

TypeOK ==
    /\ place \in [Task -> Nat] /\ unresolved \in Nat
    /\ at \in [Task -> Inside \union Outside]
    /\ tip \in Tip
    /\ carried \in [Handlers -> Job \union {NoJob}]
    /\ minerActive \in BOOLEAN /\ isSyncing \in BOOLEAN /\ isReorging \in BOOLEAN
    /\ restarts \in 0 .. MaxRestarts
    /\ job \in Job \union {NoJob}
    /\ found \in Job \union {NoJob}
    /\ processing \in 0 .. MaxHeight + 1
    /\ height \in [Starters -> 0 .. MaxHeight]
    /\ excused \in BOOLEAN

At(t, p) == at[t] = p
Goto(t, p) == at' = [at EXCEPT ![t] = p]

Init ==
    /\ MutexInit
    /\ at = [t \in Task |-> "idle"]
    /\ tip = [height |-> 0, branch |-> 0]
    /\ carried = [h \in Handlers |-> NoJob]
    /\ minerActive = FALSE /\ isSyncing = FALSE /\ isReorging = FALSE
    /\ restarts = 0
    /\ job = NoJob /\ found = NoJob /\ processing = 0
    /\ height = [s \in Starters |-> 0]
    /\ excused = FALSE

\* What a step can do to the tip: one block more, or another branch, which
\* takes one block away and adds one or more.
Extended == [tip EXCEPT !.height = @ + 1]
CanExtend == tip.height < MaxHeight
CanReorganise == tip.branch < MaxReorgs /\ tip.height > 0
Reorganised ==
    \E to \in tip.height .. MaxHeight : tip' = [height |-> to, branch |-> tip.branch + 1]

More(n) == IF restarts + n > MaxRestarts THEN MaxRestarts ELSE restarts + n

-------------------------------------------------------------------------------
(* handleRemoteBlockDownloaded                                              *)

\* A block of a peer: gossip, a direct fetch, a fork found by synchronisation.
BlockArrives(h) ==
    /\ At(h, "idle")
    /\ Acquire(h)
    /\ Goto(h, "waiting")
    /\ UNCHANGED <<tip, carried, minerActive, isSyncing, isReorging, restarts, mining>>

\* Mutants of Finish: no restart after the attempt; a return past the finally.
FinishWithoutRestart(h) ==
    /\ Release(h)
    /\ Goto(h, "idle")
    /\ carried' = [carried EXCEPT ![h] = NoJob]
    /\ UNCHANGED <<restarts, excused>>
FinishHolding(h) ==
    /\ Goto(h, "idle")
    /\ carried' = [carried EXCEPT ![h] = NoJob]
    /\ UNCHANGED <<place, unresolved, restarts, excused>>

\* The finally block.  `processing` stays: it holds the BigInt of the candidate,
\* which is compared with the Number of the block.
Finish(h) ==
    /\ Release(h)
    /\ Goto(h, "idle")
    /\ carried' = [carried EXCEPT ![h] = NoJob]
    /\ IF minerActive /\ ~isReorging' /\ ~isSyncing
       THEN restarts' = More(1) /\ UNCHANGED excused
       ELSE /\ excused' = (excused \/ minerActive)
            /\ UNCHANGED restarts

\* A mutant of Entered: the promise of acquire() is not awaited.
EnteredAtOnce(t) == at[t] \in Waiting
Entered(t) == at[t] \in Waiting /\ Granted(t)

FarAhead(h) == carried[h] # NoJob /\ carried[h].height > tip.height + 1
Own(h) == carried[h] # NoJob

\* The block is null: the try throws, and the finally throws before release().
BlockMissing(h) ==
    /\ Entered(h) /\ ~Own(h)
    /\ Goto(h, "lost")
    /\ UNCHANGED <<mutexVars, tip, carried, minerActive, isSyncing, isReorging, restarts, mining>>

\* Put off to the database; how far ahead a peer's block is, is its own affair.
Defer(h) ==
    /\ Entered(h)
    /\ isSyncing \/ ~Own(h) \/ FarAhead(h)
    /\ UNCHANGED isReorging
    /\ Finish(h)
    /\ UNCHANGED <<tip, minerActive, isSyncing, job, found, processing, height>>

Ingest(h) == Entered(h) /\ ~isSyncing /\ ~FarAhead(h)

AcceptedAndExtended(h) ==
    /\ Ingest(h) /\ CanExtend
    /\ Own(h) => carried[h].prev = tip
    /\ tip' = Extended
    /\ Goto(h, "publishing")
    /\ UNCHANGED <<mutexVars, carried, minerActive, isSyncing, isReorging, restarts, mining>>

\* Announced, published, wallets scanned; an active miner is restarted at once
\* and once more by the finally block.
Published(h) ==
    /\ At(h, "publishing")
    /\ Release(h)
    /\ Goto(h, "idle")
    /\ carried' = [carried EXCEPT ![h] = NoJob]
    /\ restarts' = IF ~minerActive THEN restarts ELSE IF isSyncing THEN More(1) ELSE More(2)
    /\ UNCHANGED <<tip, minerActive, isSyncing, isReorging, mining>>

\* The parent, or blocks of the fork, are missing: ask for them.
AskForBlocks(h) ==
    /\ Ingest(h) /\ ~Own(h)
    /\ Goto(h, "requesting")
    /\ UNCHANGED <<mutexVars, tip, carried, minerActive, isSyncing, isReorging, restarts, mining>>

Asked(h) ==
    /\ At(h, "requesting")
    /\ UNCHANGED isReorging
    /\ Finish(h)
    /\ UNCHANGED <<tip, minerActive, isSyncing, job, found, processing, height>>

\* Invalid, asked for already, or a side block that does not win.
NothingToDo(h) ==
    /\ Ingest(h)
    /\ UNCHANGED isReorging
    /\ Finish(h)
    /\ UNCHANGED <<tip, minerActive, isSyncing, job, found, processing, height>>

\* A side block that wins: stop the miner first.
PlanReorg(h) ==
    /\ Ingest(h)
    /\ Own(h) => carried[h].prev # tip
    /\ Goto(h, IF minerActive THEN "stopping" ELSE "aborting")
    /\ job' = NoJob
    /\ UNCHANGED <<mutexVars, tip, carried, minerActive, isSyncing, isReorging, restarts,
                   found, processing, height, excused>>

\* atomic_reorg moves the tip, or refuses the plan: one that no longer fits, or
\* one that takes two blocks or more away.
Reorganise(h) ==
    /\ at[h] \in {"aborting", "stopping"}
    /\ isReorging' = TRUE
    /\ \/ /\ CanReorganise /\ Reorganised
          /\ Goto(h, IF At(h, "stopping") THEN "switchStopped" ELSE "switching")
       \/ UNCHANGED tip /\ Goto(h, "switching")
    /\ UNCHANGED <<mutexVars, carried, minerActive, isSyncing, restarts, mining>>

\* Refused, or there was no miner to resume.
ReorgEnds(h) ==
    /\ At(h, "switching")
    /\ isReorging' = FALSE
    /\ Finish(h)
    /\ UNCHANGED <<tip, minerActive, isSyncing, job, found, processing, height>>

\* A miner that was active when the plan was made is started again, by a call
\* of startPoSTMining that waits for the mutex this handler holds: the
\* handler has no further step.
Resume(h) ==
    /\ At(h, "switchStopped")
    /\ isReorging' = FALSE
    /\ minerActive' = TRUE
    /\ Acquire(Inner)
    /\ at' = [at EXCEPT ![h] = "resuming", ![Inner] = "waiting"]
    /\ UNCHANGED <<tip, carried, isSyncing, restarts, mining>>

-------------------------------------------------------------------------------
(* startPoSTMining                                                          *)

\* The command setMinerActive.
UserStarts(s) ==
    /\ At(s, "idle")
    /\ minerActive' = TRUE
    /\ Acquire(s)
    /\ Goto(s, "asked")
    /\ UNCHANGED <<tip, carried, isSyncing, isReorging, restarts, mining>>

UserStops ==
    /\ minerActive
    /\ minerActive' = FALSE
    /\ job' = NoJob
    /\ UNCHANGED <<mutexVars, at, tip, carried, isSyncing, isReorging, restarts,
                   found, processing, height, excused>>

\* A restart begins with STOP and up to two seconds outside the mutex.
RestartBegins(s) ==
    /\ At(s, "idle") /\ restarts > 0
    /\ restarts' = restarts - 1
    /\ job' = NoJob
    /\ Goto(s, "restarting")
    /\ UNCHANGED <<mutexVars, tip, carried, minerActive, isSyncing, isReorging,
                   found, processing, height, excused>>

RestartAcquires(s) ==
    /\ At(s, "restarting")
    /\ Acquire(s)
    /\ Goto(s, "waiting")
    /\ UNCHANGED <<tip, carried, minerActive, isSyncing, isReorging, restarts, mining>>

\* The user stopped the miner in the meantime, the state cannot be put right, or
\* the wallet is not open.  In the first two cases false is returned, and a start
\* of the user then takes the miner for inactive; a restart does not look.
StartGivesUp(s) ==
    /\ Entered(s)
    /\ Release(s)
    /\ Goto(s, "idle")
    /\ \/ UNCHANGED minerActive
       \/ At(s, "asked") /\ minerActive' = FALSE
    /\ excused' = (excused \/ minerActive)
    /\ UNCHANGED <<tip, carried, isSyncing, isReorging, restarts,
                   job, found, processing, height>>

\* The height is read, then the job in flight is stopped for up to two seconds.
StartReads(s) ==
    /\ Entered(s) /\ minerActive
    /\ height' = [height EXCEPT ![s] = tip.height]
    /\ job' = NoJob
    /\ Goto(s, "starting")
    /\ UNCHANGED <<mutexVars, tip, carried, minerActive, isSyncing, isReorging,
                   restarts, found, processing, excused>>

\* A mutant of NextHeight.
SameHeight(h) == h
NextHeight(h) == h + 1

\* The new job has the height read before and the parent read now.
StartPosts(s) ==
    /\ At(s, "starting")
    /\ job' = [height |-> NextHeight(height[s]), prev |-> tip]
    /\ found' = NoJob
    /\ height' = [height EXCEPT ![s] = 0]
    /\ excused' = FALSE
    /\ Release(s)
    /\ Goto(s, "idle")
    /\ UNCHANGED <<tip, carried, minerActive, isSyncing, isReorging, restarts, processing>>

-------------------------------------------------------------------------------
(* The mining thread and its candidates                                     *)

\* One candidate ends a job; STOP and a new job reach the thread between two
\* batches.
CandidateFound ==
    /\ job # NoJob
    /\ found' = job
    /\ job' = NoJob
    /\ UNCHANGED <<mutexVars, at, tip, carried, minerActive, isSyncing, isReorging,
                   restarts, processing, height, excused>>

\* Five batches in a row throw.
MinerGivesUp ==
    /\ job # NoJob
    /\ job' = NoJob
    /\ excused' = TRUE
    /\ UNCHANGED <<mutexVars, at, tip, carried, minerActive, isSyncing, isReorging,
                   restarts, found, processing, height>>

Busy == found.height = processing

\* The candidate has the height that is, or once was, being processed.
CandidateIgnored ==
    /\ found # NoJob /\ Busy
    /\ found' = NoJob
    /\ excused' = TRUE
    /\ UNCHANGED <<mutexVars, at, tip, carried, minerActive, isSyncing, isReorging,
                   restarts, job, processing, height>>

\* The block of the candidate cannot be put together: the flag is cleared.
AssemblyFails ==
    /\ found # NoJob /\ ~Busy
    /\ found' = NoJob
    /\ processing' = 0
    /\ excused' = TRUE
    /\ UNCHANGED <<mutexVars, at, tip, carried, minerActive, isSyncing, isReorging,
                   restarts, job, height>>

CandidateTaken(h) ==
    /\ found # NoJob /\ ~Busy
    /\ At(h, "idle")
    /\ found' = NoJob
    /\ processing' = found.height
    /\ carried' = [carried EXCEPT ![h] = found]
    /\ Acquire(h)
    /\ Goto(h, "waiting")
    /\ UNCHANGED <<tip, minerActive, isSyncing, isReorging, restarts, job, height, excused>>

-------------------------------------------------------------------------------
(* The synchronisation, as far as it touches the same state                 *)

\* The tip of a better chain is ingested as a probe, then isSyncing is set.
SyncBegins ==
    /\ ~isSyncing
    /\ isSyncing' = TRUE /\ UNCHANGED isReorging
    /\ tip' \in {tip} \union IF CanExtend THEN {Extended} ELSE {}
    /\ UNCHANGED <<mutexVars, at, carried, minerActive, restarts, mining>>

SyncIngests ==
    /\ isSyncing /\ CanExtend
    /\ tip' = Extended
    /\ UNCHANGED <<mutexVars, at, carried, minerActive, isSyncing, isReorging, restarts, mining>>

\* triggerReorgPlan, called by syncForward.
SyncPlans(s) ==
    /\ isSyncing
    /\ At(s, "idle")
    /\ job' = NoJob
    /\ Goto(s, IF minerActive THEN "planStopping" ELSE "planning")
    /\ UNCHANGED <<mutexVars, tip, carried, minerActive, isSyncing, isReorging, restarts,
                   found, processing, height, excused>>

SyncReorganises(s) ==
    /\ at[s] \in {"planning", "planStopping"}
    /\ isReorging' = TRUE
    /\ \/ /\ CanReorganise /\ Reorganised
          /\ Goto(s, IF At(s, "planStopping") THEN "planSwitchStopped" ELSE "planSwitching")
       \/ UNCHANGED tip /\ Goto(s, "planSwitching")
    /\ UNCHANGED <<mutexVars, carried, minerActive, isSyncing, restarts, mining>>

\* Refused, which resumes no miner, or there was none.
SyncReorgEnds(s) ==
    /\ At(s, "planSwitching")
    /\ isReorging' = FALSE
    /\ Goto(s, "idle")
    /\ excused' = (excused \/ minerActive)
    /\ UNCHANGED <<mutexVars, tip, carried, minerActive, isSyncing, restarts,
                   job, found, processing, height>>

SyncResumes(s) ==
    /\ At(s, "planSwitchStopped")
    /\ isReorging' = FALSE
    /\ minerActive' = TRUE
    /\ Acquire(s)
    /\ Goto(s, "waiting")
    /\ UNCHANGED <<tip, carried, isSyncing, restarts, mining>>

SyncEnds ==
    /\ isSyncing /\ \A s \in Starters : ~Planning(s)
    /\ isSyncing' = FALSE /\ UNCHANGED isReorging
    /\ UNCHANGED <<mutexVars, at, tip, carried, minerActive, restarts, mining>>

-------------------------------------------------------------------------------
HandlerStep(h) ==
    \/ BlockMissing(h) \/ Defer(h) \/ AcceptedAndExtended(h) \/ Published(h)
    \/ AskForBlocks(h) \/ Asked(h) \/ NothingToDo(h)
    \/ PlanReorg(h) \/ Reorganise(h) \/ ReorgEnds(h) \/ Resume(h)

StarterStep(s) ==
    \/ RestartAcquires(s) \/ StartGivesUp(s) \/ StartReads(s) \/ StartPosts(s)
    \/ SyncReorganises(s) \/ SyncReorgEnds(s) \/ SyncResumes(s)

Begin ==
    \/ \E h \in Handlers : BlockArrives(h)
    \/ \E s \in Starters : UserStarts(s) \/ RestartBegins(s) \/ SyncPlans(s)
    \/ UserStops

Mine ==
    \/ CandidateFound \/ MinerGivesUp
    \/ CandidateIgnored \/ AssemblyFails
    \/ \E h \in Handlers : CandidateTaken(h)

Next ==
    \/ \E h \in Handlers : HandlerStep(h)
    \/ \E s \in Starters : StarterStep(s)
    \/ Begin \/ Mine
    \/ SyncBegins \/ SyncIngests \/ SyncEnds

\* A handler or a starter that can go on does: publishes return or fail, the
\* abort ends by its timer, resolved promises continue.
Spec ==
    /\ Init /\ [][Next]_vars
    /\ \A h \in Handlers : WF_vars(HandlerStep(h))
    /\ \A s \in Starters : WF_vars(StarterStep(s))

-------------------------------------------------------------------------------
(* Properties                                                               *)

\* A handler past its acquire(), or a start that read the height, is alone.
CriticalSections ==
    \A s, t \in Task : at[s] \in Inside /\ at[t] \in Inside => s = t

\* A new job never builds on a tip other than the one whose height it read,
\* unless the synchronisation moved the tip meanwhile: no handler can, because
\* both run under the mutex.
OnlySyncMovesTheTipUnderAStart ==
    [][(\E s \in Starters : At(s, "starting")) /\ tip' # tip => isSyncing']_vars

\* Who is past its acquire() has the mutex, who has not called it has no place
\* in the chain, and a reorganisation is planned only while isSyncing is set:
\* what the properties above and below rest on.
PlacesMatch ==
    \A t \in Task :
        /\ at[t] \in Inside => Granted(t)
        /\ at[t] \in Outside \ Waiting => place[t] = 0
PlansAreOfARound == \A s \in Starters : Planning(s) => isSyncing
WorkerInvariant == TypeOK /\ ChainInvariant /\ PlacesMatch /\ PlansAreOfARound

\* worker.js:2069: an active miner is only ever left idle with nothing under
\* way that restarts it when one of the known reasons applied since its last
\* job; in particular no outcome of a block attempt leaves it idle.
NoSilentStop ==
    minerActive /\ ~excused =>
        \/ job # NoJob \/ restarts > 0
        \/ found # NoJob
        \/ \E h \in Handlers : at[h] # "idle"
        \/ \E s \in Starters : at[s] # "idle"

\* A handler that will never release the mutex.
Stuck == \E h \in Handlers : At(h, "lost") \/ At(h, "resuming")

\* worker.js:2063: every block handler ends and every start ends, whatever the
\* core answers and however many wait before it, except behind a handler that
\* got a null block or that restarts the miner after a reorganisation.
CallsEnd == \A t \in Handlers \union Starters : ~At(t, "idle") ~> (At(t, "idle") \/ Stuck)

\* worker.js:2069: after a block attempt that reorganised the chain, too, the
\* miner restarts with the latest chain state.
MinerRestartsAfterReorg == \A h \in Handlers : At(h, "resuming") ~> job # NoJob
===============================================================================
