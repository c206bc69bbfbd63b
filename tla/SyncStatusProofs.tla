--------------------------- MODULE SyncStatusProofs ---------------------------
(***************************************************************************)
(* Proofs about SyncStatus, for any number of rounds and any limits: the    *)
(* rounds exclude each other, and the flag and the status mean what the     *)
(* block handler takes them for.                                            *)
(***************************************************************************)
EXTENDS SyncStatus, TLAPS

\* A round that leaves keeps the rest of the type of `round`, and is nowhere.
LEMMA LeaveFacts ==
    ASSUME round \in [Rounds -> Round], NEW r \in Rounds, Leave(r)
    PROVE  /\ round' \in [Rounds -> Round]
           /\ round'[r].at = "none"
           /\ \A q \in Rounds : q # r => round'[q] = round[q]
BY SyncAssumption DEF SyncAssumption, Leave, NoRound, Round, Place, Consensus, Download

\* A round that moves is at its new place and the others stay.
LEMMA GotoFacts ==
    ASSUME round \in [Rounds -> Round], NEW r \in Rounds, NEW place \in Place,
           Goto(r, place)
    PROVE  /\ round' \in [Rounds -> Round]
           /\ round'[r].at = place
           /\ \A q \in Rounds : q # r => round'[q] = round[q]
BY DEF Goto, Round

\* The empty system satisfies the invariant.
LEMMA InitInvariant == Init => SyncInvariant
<1> SUFFICES ASSUME Init PROVE SyncInvariant
    OBVIOUS
<1>1. NoRound \in Round
    BY SyncAssumption DEF SyncAssumption, NoRound, Round, Place
<1>2. \A r \in Rounds : round[r].at = "none"
    BY DEF Init, NoRound
<1>3. TypeOK
    <2>1. round \in [Rounds -> Round]
        BY <1>1 DEF Init
    <2>2. 0 \in 0 .. MAX_CONSECUTIVE_SYNC_FAILURES
        BY SyncAssumption DEF SyncAssumption
    <2> QED
        BY <2>1, <2>2 DEF Init, TypeOK, Status
<1>4. ExclusiveSync /\ CooldownIsKept
    BY <1>2 DEF ExclusiveSync, CooldownIsKept, InProgress, At, Init
<1>5. StatusFits
    BY <1>2 DEF StatusFits, Consensus, Download
<1> QED
    BY <1>3, <1>4, <1>5 DEF SyncInvariant

\* What every step needs to know of the step's round when the others stay: if
\* the round was in progress, or the status was IDLE, nobody else is.
LEMMA OthersIdle ==
    ASSUME SyncInvariant, NEW r \in Rounds, InProgress(r) \/ status = "IDLE"
    PROVE  \A q \in Rounds : q # r => ~InProgress(q)
<1>1. CASE InProgress(r)
    BY <1>1 DEF SyncInvariant, ExclusiveSync
<1>2. CASE status = "IDLE"
    <2> SUFFICES ASSUME NEW q \in Rounds, InProgress(q) PROVE FALSE
        OBVIOUS
    <2>1. round[q].at \in Place
        BY DEF SyncInvariant, TypeOK, Round
    <2> QED
        BY <1>2, <2>1 DEF SyncInvariant, StatusFits, CooldownIsKept, InProgress, At, Place
<1> QED
    BY <1>1, <1>2

\* The step of a round that leaves, or was alone in progress and goes on.  It
\* is enough to look at its own new place.
LEMMA MoveInvariant ==
    ASSUME SyncInvariant, NEW r \in Rounds,
           \A q \in Rounds : q # r => ~InProgress(q),
           \A q \in Rounds : q # r => round'[q] = round[q],
           TypeOK',
           round'[r].at \in Consensus => status' = "CONSENSUS",
           round'[r].at \in Download \union {"lastTry"} => status' = "DOWNLOADING" /\ isSyncing',
           round'[r].at \in {"hashes", "blocks", "rescan", "reorg"} =>
               failures' < MAX_CONSECUTIVE_SYNC_FAILURES,
           status' = "COOLDOWN" <=> round'[r].at = "cooldown"
    PROVE  SyncInvariant'
<1>1. \A q \in Rounds : q # r => round'[q].at \in {"none", "timer"}
    BY DEF InProgress
<1>2. ExclusiveSync'
    BY <1>1 DEF ExclusiveSync, InProgress
<1>3. CooldownIsKept'
    BY <1>1 DEF CooldownIsKept, At
<1>4. StatusFits'
    BY <1>1 DEF StatusFits, Consensus, Download
<1> QED
    BY <1>2, <1>3, <1>4 DEF SyncInvariant

\* A round that was not in progress and is not in progress afterwards changes
\* nothing that the invariant looks at.
LEMMA AsideInvariant ==
    ASSUME SyncInvariant, NEW r \in Rounds, round'[r].at \in {"none", "timer"},
           round[r].at \in {"none", "timer"},
           \A q \in Rounds : q # r => round'[q] = round[q],
           TypeOK', UNCHANGED <<status, isSyncing, failures>>
    PROVE  SyncInvariant'
<1>1. \A q \in Rounds : InProgress(q)' => InProgress(q) /\ round'[q] = round[q]
    BY DEF InProgress
<1>2. \A q \in Rounds : InProgress(q) => round'[q] = round[q]
    BY DEF InProgress
<1>3. ExclusiveSync'
    BY <1>1 DEF SyncInvariant, ExclusiveSync
<1>4. CooldownIsKept'
    BY <1>1, <1>2 DEF SyncInvariant, CooldownIsKept, At, InProgress
<1>5. StatusFits'
    BY <1>1 DEF SyncInvariant, StatusFits, InProgress, Consensus, Download
<1> QED
    BY <1>3, <1>4, <1>5 DEF SyncInvariant

\* Where a round can come from when it is in progress, and what it may rely on.
LEMMA PlaceFacts ==
    ASSUME SyncInvariant, NEW r \in Rounds
    PROVE  /\ round[r].at \in Place
           /\ round[r].attempt \in 1 .. MAX_ATTEMPTS
           /\ status \in Status
           /\ isSyncing \in BOOLEAN
           /\ failures \in 0 .. MAX_CONSECUTIVE_SYNC_FAILURES
           /\ round[r].at \in Consensus => status = "CONSENSUS"
           /\ round[r].at \in Download \union {"lastTry"} => status = "DOWNLOADING" /\ isSyncing
           /\ round[r].at \in {"hashes", "blocks", "rescan", "reorg"} =>
                  failures < MAX_CONSECUTIVE_SYNC_FAILURES
BY DEF SyncInvariant, TypeOK, Round, StatusFits

\* A round in progress that ends leaves some status, but neither a pause nor a
\* failure count beyond the limit.
LEMMA EndInvariant ==
    ASSUME SyncInvariant, NEW r \in Rounds, InProgress(r) \/ status = "IDLE", Leave(r),
           status' \in Status \ {"COOLDOWN"}, isSyncing' \in BOOLEAN,
           failures' \in 0 .. MAX_CONSECUTIVE_SYNC_FAILURES,
           mutexStuck' \in BOOLEAN
    PROVE  SyncInvariant'
<1>1. round \in [Rounds -> Round]
    BY DEF SyncInvariant, TypeOK
<1>2. /\ round' \in [Rounds -> Round]
      /\ round'[r].at = "none"
      /\ \A q \in Rounds : q # r => round'[q] = round[q]
    BY <1>1, LeaveFacts
<1>3. TypeOK'
    BY <1>1, <1>2 DEF TypeOK
<1>4. \A q \in Rounds : q # r => ~InProgress(q)
    BY OthersIdle
<1> QED
    BY <1>2, <1>3, <1>4, MoveInvariant DEF Consensus, Download

\* A round that goes on to a place that fits the status it leaves.
LEMMA GoOnInvariant ==
    ASSUME SyncInvariant, NEW r \in Rounds, NEW place \in Place,
           InProgress(r) \/ status = "IDLE", Goto(r, place),
           status' \in Status, isSyncing' \in BOOLEAN,
           failures' \in 0 .. MAX_CONSECUTIVE_SYNC_FAILURES,
           UNCHANGED mutexStuck,
           place \in Consensus => status' = "CONSENSUS",
           place \in Download \union {"lastTry"} => status' = "DOWNLOADING" /\ isSyncing',
           place \in {"hashes", "blocks", "rescan", "reorg"} =>
               failures' < MAX_CONSECUTIVE_SYNC_FAILURES,
           status' = "COOLDOWN" <=> place = "cooldown"
    PROVE  SyncInvariant'
<1>1. /\ round \in [Rounds -> Round]
      /\ mutexStuck \in BOOLEAN
    BY DEF SyncInvariant, TypeOK
<1>2. /\ round' \in [Rounds -> Round]
      /\ round'[r].at = place
      /\ \A q \in Rounds : q # r => round'[q] = round[q]
    BY <1>1, GotoFacts
<1>3. TypeOK'
    BY <1>1, <1>2 DEF TypeOK
<1>4. \A q \in Rounds : q # r => ~InProgress(q)
    BY OthersIdle
<1> QED
    BY <1>2, <1>3, <1>4, MoveInvariant

\* Each step of bootstrapSync preserves the invariant.
LEMMA BootstrapInvariant ==
    ASSUME SyncInvariant, NEW r \in Rounds, Bootstrap(r)
    PROVE  SyncInvariant'
<1> USE PlaceFacts
<1>1. mutexStuck \in BOOLEAN /\ round \in [Rounds -> Round]
    BY DEF SyncInvariant, TypeOK
<1>2. CASE TimerSkips(r)
    <2>1. /\ round' \in [Rounds -> Round]
          /\ round'[r].at = "none"
          /\ \A q \in Rounds : q # r => round'[q] = round[q]
        BY <1>1, <1>2, LeaveFacts DEF TimerSkips
    <2>2. TypeOK'
        BY <1>2, <2>1 DEF TimerSkips, SyncInvariant, TypeOK
    <2> QED
        BY <1>2, <2>1, <2>2, AsideInvariant DEF TimerSkips, At
<1>3. CASE TimerFindsNobody(r)
    BY <1>1, <1>3, EndInvariant DEF TimerFindsNobody, ScheduleRetry, MayStart, Status
<1>4. CASE TimerAsks(r)
    BY <1>4, GoOnInvariant DEF TimerAsks, MayStart, Status, Place, Consensus, Download
<1>5. CASE AskFails(r) \/ NoBetterChain(r)
    BY <1>1, <1>5, EndInvariant DEF AskFails, NoBetterChain, Status, At, InProgress
<1>6. CASE AskSent(r)
    BY <1>6, GoOnInvariant
       DEF AskSent, Status, At, InProgress, Place, Consensus, Download
<1>7. CASE NobodyAnswered(r)
    <2>1. At(r, "listening") /\ InProgress(r) /\ status = "CONSENSUS"
        BY <1>7 DEF NobodyAnswered, At, InProgress, Consensus
    <2>2. CASE round[r].attempt >= MAX_ATTEMPTS
        BY <1>1, <1>7, <2>1, <2>2, EndInvariant DEF NobodyAnswered, ScheduleRetry, Status
    <2>3. CASE ~(round[r].attempt >= MAX_ATTEMPTS)
        <3>1. round' = [round EXCEPT ![r] = [at |-> "timer", attempt |-> round[r].attempt + 1]]
            BY <1>7, <2>1, <2>3 DEF NobodyAnswered, ScheduleRetry
        <3>2. [at |-> "timer", attempt |-> round[r].attempt + 1] \in Round
            BY <2>3, SyncAssumption DEF SyncAssumption, Round, Place
        <3>3. UNCHANGED <<status, isSyncing, failures, mutexStuck>>
            BY <1>7, <2>1, <2>3 DEF NobodyAnswered, ScheduleRetry
        <3>4. TypeOK'
            BY <1>1, <3>1, <3>2, <3>3 DEF SyncInvariant, TypeOK
        <3>5. /\ \A q \in Rounds : q # r => round'[q] = round[q]
              /\ round'[r].at = "timer"
            BY <1>1, <3>1
        <3>6. \A q \in Rounds : q # r => ~InProgress(q)
            BY <2>1, OthersIdle
        <3> QED
            BY <2>1, <3>3, <3>4, <3>5, <3>6, MoveInvariant DEF Consensus, Download
    <2> QED
        BY <2>2, <2>3
<1>8. CASE TipsReceived(r)
    BY <1>8, GoOnInvariant
       DEF TipsReceived, Status, At, InProgress, Place, Consensus, Download
<1>9. CASE LongerChainFound(r)
    <2>1. InProgress(r) /\ status = "CONSENSUS"
        BY <1>9 DEF LongerChainFound, At, InProgress, Consensus
    <2>2. CASE failures >= MAX_CONSECUTIVE_SYNC_FAILURES
        BY <1>1, <1>9, <2>1, <2>2, EndInvariant DEF LongerChainFound, SyncForward, Status
    <2>3. CASE ~(failures >= MAX_CONSECUTIVE_SYNC_FAILURES)
        BY <1>9, <2>1, <2>3, GoOnInvariant, SyncAssumption
           DEF SyncAssumption, LongerChainFound, SyncForward, Status, Place, Consensus, Download
    <2> QED
        BY <2>2, <2>3
<1>10. CASE ForkFound(r)
    BY <1>10, GoOnInvariant
       DEF ForkFound, Status, At, InProgress, Place, Consensus, Download
<1> QED
    BY <1>2, <1>3, <1>4, <1>5, <1>6, <1>7, <1>8, <1>9, <1>10 DEF Bootstrap

\* Each step of syncForward and of its pauses preserves the invariant.
LEMMA ForwardInvariant ==
    ASSUME SyncInvariant, NEW r \in Rounds, Forward(r) \/ ReorgDone(r)
    PROVE  SyncInvariant'
<1> USE PlaceFacts
<1>1. mutexStuck \in BOOLEAN /\ round \in [Rounds -> Round]
    BY DEF SyncInvariant, TypeOK
<1>2. CASE HashesEmpty(r)
    BY <1>1, <1>2, EndInvariant DEF HashesEmpty, At, InProgress, Download
<1>3. CASE HashesReceived(r)
    BY <1>3, GoOnInvariant DEF HashesReceived, At, InProgress, Place, Consensus, Download
<1>4. CASE BlocksFork(r)
    BY <1>4, GoOnInvariant DEF BlocksFork, At, InProgress, Place, Consensus, Download
<1>5. CASE BlocksDone(r)
    BY <1>5, GoOnInvariant DEF BlocksDone, At, InProgress, Place, Consensus, Download
<1>6. CASE BlocksDoneNoWallet(r) \/ RescanDone(r) \/ ReorgDone(r)
    <2>1. Complete(r)
        BY <1>6 DEF BlocksDoneNoWallet, RescanDone, ReorgDone
    <2>2. InProgress(r)
        BY <1>6 DEF BlocksDoneNoWallet, RescanDone, ReorgDone, At, InProgress
    <2>3. 0 \in 0 .. MAX_CONSECUTIVE_SYNC_FAILURES
        BY SyncAssumption DEF SyncAssumption
    <2> QED
        BY <1>1, <2>1, <2>2, <2>3, EndInvariant DEF Complete, Status
<1>7. CASE SyncFails(r)
    <2>1. PICK boss \in BOOLEAN : Failed(r, boss)
        BY <1>7 DEF SyncFails
    <2>2. /\ InProgress(r) /\ status = "DOWNLOADING" /\ isSyncing
          /\ failures < MAX_CONSECUTIVE_SYNC_FAILURES
        BY <1>7 DEF SyncFails, At, InProgress, Download
    <2> DEFINE open == failures + 1 >= MAX_CONSECUTIVE_SYNC_FAILURES
    <2>3. failures + 1 \in 0 .. MAX_CONSECUTIVE_SYNC_FAILURES
        BY <2>2, SyncAssumption DEF SyncAssumption
    <2>4. CASE open /\ boss
        <3>1. /\ Goto(r, "lastTry") /\ failures' = 0
              /\ UNCHANGED <<status, isSyncing, mutexStuck>>
            BY <2>1, <2>4 DEF Failed
        <3>2. 0 \in 0 .. MAX_CONSECUTIVE_SYNC_FAILURES
            BY SyncAssumption DEF SyncAssumption
        <3> QED
            BY <2>2, <3>1, <3>2, GoOnInvariant DEF Place, Consensus, Download
    <2>5. CASE open /\ ~boss
        BY <1>1, <2>1, <2>2, <2>3, <2>5, EndInvariant DEF Failed, Status
    <2>6. CASE ~open
        BY <2>1, <2>2, <2>3, <2>6, GoOnInvariant
           DEF Failed, Status, Place, Consensus, Download
    <2> QED
        BY <2>4, <2>5, <2>6
<1>8. CASE CooldownEnds(r)
    <2>1. InProgress(r)
        BY <1>8 DEF CooldownEnds, At, InProgress
    <2>2. CASE status' = "IDLE" /\ Leave(r)
        BY <1>1, <1>8, <2>1, <2>2, EndInvariant DEF CooldownEnds, Status
    <2>3. CASE /\ status' = "CONSENSUS"
               /\ round' = [round EXCEPT ![r] = [at |-> "asking", attempt |-> 1]]
        <3>1. [at |-> "asking", attempt |-> 1] \in Round
            BY SyncAssumption DEF SyncAssumption, Round, Place, Consensus
        <3>2. UNCHANGED <<isSyncing, failures, mutexStuck>>
            BY <1>8 DEF CooldownEnds
        <3>3. TypeOK'
            BY <1>1, <2>3, <3>1, <3>2 DEF SyncInvariant, TypeOK, Status
        <3>4. /\ \A q \in Rounds : q # r => round'[q] = round[q]
              /\ round'[r].at = "asking"
            BY <1>1, <2>3
        <3>5. \A q \in Rounds : q # r => ~InProgress(q)
            BY <2>1, OthersIdle
        <3> QED
            BY <2>3, <3>3, <3>4, <3>5, MoveInvariant DEF Consensus, Download
    <2> QED
        BY <1>8, <2>2, <2>3 DEF CooldownEnds
<1>9. CASE LastTry(r)
    BY <1>1, <1>9, EndInvariant DEF LastTry, SyncForward, At, InProgress, Status
<1> QED
    BY <1>2, <1>3, <1>4, <1>5, <1>6, <1>7, <1>8, <1>9 DEF Forward

\* Each step of the short way for a fork preserves the invariant.
LEMMA ForkInvariant ==
    ASSUME SyncInvariant, NEW r \in Rounds, Fork(r)
    PROVE  SyncInvariant'
<1> USE PlaceFacts
<1>1. mutexStuck \in BOOLEAN
    BY DEF SyncInvariant, TypeOK
<1>2. CASE TipFetched(r)
    BY <1>2, GoOnInvariant DEF TipFetched, At, InProgress, Place, Consensus, Download
<1>3. CASE TipHandled(r)
    BY <1>1, <1>3, EndInvariant DEF TipHandled, At, InProgress, Status
<1>4. CASE TipMissing(r)
    BY <1>1, <1>4, EndInvariant DEF TipMissing, At, InProgress, Status
<1> QED
    BY <1>2, <1>3, <1>4 DEF Fork

\* A round set up by a timer disturbs nobody.
LEMMA TriggerInvariant ==
    ASSUME SyncInvariant, NEW r \in Rounds, Trigger(r)
    PROVE  SyncInvariant'
<1>1. [at |-> "timer", attempt |-> 1] \in Round
    BY SyncAssumption DEF SyncAssumption, Round, Place
<1>2. round \in [Rounds -> Round]
    BY DEF SyncInvariant, TypeOK
<1>3. TypeOK'
    BY <1>1, <1>2 DEF Trigger, SyncInvariant, TypeOK
<1>4. /\ \A q \in Rounds : q # r => round'[q] = round[q]
      /\ round'[r].at = "timer" /\ round[r].at = "none"
    BY <1>2 DEF Trigger, At
<1> QED
    BY <1>3, <1>4, AsideInvariant DEF Trigger

\* The invariant is inductive.
THEOREM SyncCorrect == Spec => []SyncInvariant
<1>1. Init => SyncInvariant
    BY InitInvariant
<1>2. SyncInvariant /\ [Next]_vars => SyncInvariant'
    <2> SUFFICES ASSUME SyncInvariant, [Next]_vars PROVE SyncInvariant'
        OBVIOUS
    <2>1. CASE \E r \in Rounds : Trigger(r)
        BY <2>1, TriggerInvariant
    <2>2. CASE \E r \in Rounds : Step(r)
        BY <2>2, BootstrapInvariant, ForwardInvariant, ForkInvariant DEF Step
    <2>3. CASE HandlerWaitsForItself
        BY <2>3
           DEF HandlerWaitsForItself, SyncInvariant, TypeOK, ExclusiveSync, CooldownIsKept,
               StatusFits, InProgress, At
    <2>4. CASE UNCHANGED vars
        BY <2>4
           DEF vars, SyncInvariant, TypeOK, ExclusiveSync, CooldownIsKept, StatusFits,
               InProgress, At
    <2> QED
        BY <2>1, <2>2, <2>3, <2>4 DEF Next
<1> QED
    BY <1>1, <1>2, PTL DEF Spec

\* At most one synchronisation is in progress, for any number of rounds that
\* timers, peers and blocks start.
THEOREM RoundsExcludeEachOther == Spec => []ExclusiveSync
<1>1. SyncInvariant => ExclusiveSync
    BY DEF SyncInvariant
<1> QED
    BY <1>1, SyncCorrect, PTL

\* Whatever round runs and however its peers answer, the counters, the flags
\* and the program counters of runTimeDrivenSync keep their types.
THEOREM SyncTypesHold == Spec => []TypeOK
<1>1. SyncInvariant => TypeOK
    BY DEF SyncInvariant
<1> QED
    BY <1>1, SyncCorrect, PTL

\* The block handler puts blocks off during every download.
THEOREM DownloadsAreProtected == Spec => []DownloadIsProtected
<1>1. SyncInvariant => DownloadIsProtected
    BY DEF SyncInvariant, StatusFits, DownloadIsProtected, Downloading
<1> QED
    BY <1>1, SyncCorrect, PTL

\* A back-off is waited out.
THEOREM CooldownsAreKept == Spec => []CooldownIsKept
<1>1. SyncInvariant => CooldownIsKept
    BY DEF SyncInvariant
<1> QED
    BY <1>1, SyncCorrect, PTL
===============================================================================
