----------------------------- MODULE WorkerProofs -----------------------------
(***************************************************************************)
(* Proofs about globalMutex (PromiseMutex) and the calls that use it        *)
(* (NodeWorker), for any number of calls.                                   *)
(***************************************************************************)
EXTENDS NodeWorker, Sequences, TLAPS

-------------------------------------------------------------------------------
(* The mutex                                                                *)

LEMMA ChainExclusive == ChainInvariant => MutualExclusion
  BY DEF ChainInvariant, MutualExclusion, Granted

LEMMA ChainStart == MutexInit => ChainInvariant
  BY DEF MutexInit, ChainInvariant, MutexTypeOK

LEMMA AcquireKeepsChain ==
  ASSUME ChainInvariant, NEW t \in Task, Acquire(t)
  PROVE  ChainInvariant'
<1>1. MutexTypeOK'
  BY DEF ChainInvariant, MutexTypeOK, Acquire
<1>2. \A s \in Task : place'[s] <= unresolved'
  BY DEF ChainInvariant, MutexTypeOK, Acquire
<1>3. \A i \in 1 .. unresolved' : \E s \in Task : place'[s] = i
  <2> SUFFICES ASSUME NEW i \in 1 .. unresolved'
               PROVE  \E s \in Task : place'[s] = i
    OBVIOUS
  <2>1. CASE i = unresolved + 1
    BY <2>1 DEF ChainInvariant, MutexTypeOK, Acquire
  <2>2. CASE i # unresolved + 1
    <3>1. i \in 1 .. unresolved
      BY <2>2 DEF ChainInvariant, MutexTypeOK, Acquire
    <3>2. PICK s \in Task : place[s] = i
      BY <3>1 DEF ChainInvariant
    <3>3. s # t
      BY <3>1, <3>2 DEF Acquire
    <3> QED
      BY <3>2, <3>3 DEF ChainInvariant, MutexTypeOK, Acquire
  <2> QED
    BY <2>1, <2>2
<1>4. \A s, u \in Task : place'[s] = place'[u] /\ place'[s] # 0 => s = u
  BY DEF ChainInvariant, MutexTypeOK, Acquire
<1> QED
  BY <1>1, <1>2, <1>3, <1>4 DEF ChainInvariant

LEMMA ReleaseKeepsChain ==
  ASSUME ChainInvariant, NEW t \in Task, Release(t)
  PROVE  ChainInvariant'
<1>0. unresolved >= 1 /\ unresolved' = unresolved - 1
  BY DEF ChainInvariant, MutexTypeOK, Release, Granted
<1>1. MutexTypeOK'
  BY <1>0 DEF ChainInvariant, MutexTypeOK, Release
<1>2. \A s \in Task : place'[s] <= unresolved'
  BY <1>0 DEF ChainInvariant, MutexTypeOK, Release
<1>3. \A i \in 1 .. unresolved' : \E s \in Task : place'[s] = i
  <2> SUFFICES ASSUME NEW i \in 1 .. unresolved'
               PROVE  \E s \in Task : place'[s] = i
    OBVIOUS
  <2>1. i + 1 \in 1 .. unresolved
    BY <1>0 DEF ChainInvariant, MutexTypeOK
  <2>2. PICK s \in Task : place[s] = i + 1
    BY <2>1 DEF ChainInvariant
  <2> QED
    BY <2>2 DEF Release
<1>4. \A s, u \in Task : place'[s] = place'[u] /\ place'[s] # 0 => s = u
  <2> SUFFICES ASSUME NEW s \in Task, NEW u \in Task,
                      place'[s] = place'[u], place'[s] # 0
               PROVE  s = u
    OBVIOUS
  <2>1. place[s] # 0 /\ place[u] # 0 /\ place[s] - 1 = place[u] - 1
    BY DEF ChainInvariant, MutexTypeOK, Release
  <2> QED
    BY <2>1 DEF ChainInvariant, MutexTypeOK
<1> QED
  BY <1>1, <1>2, <1>3, <1>4 DEF ChainInvariant

LEMMA ChainStep ==
  ASSUME ChainInvariant, [MutexNext]_mutexVars
  PROVE  ChainInvariant'
<1>1. CASE UNCHANGED mutexVars
  BY <1>1 DEF mutexVars, ChainInvariant, MutexTypeOK
<1>2. CASE MutexNext
  BY <1>2, AcquireKeepsChain, ReleaseKeepsChain DEF MutexNext
<1> QED
  BY <1>1, <1>2

\* However many calls acquire and release globalMutex, no two hold it.
THEOREM MutexExcludes == MutexSpec => []MutualExclusion
<1>1. MutexSpec => []ChainInvariant
  BY ChainStart, ChainStep, PTL DEF MutexSpec
<1> QED
  BY <1>1, ChainExclusive, PTL

LEMMA QueueIsEmpty ==
  ASSUME MutexInit
  PROVE  Lock!Init
BY DEF MutexInit, Lock!Init

\* The chain of promises, read from the holder on.
Chain == [i \in 1 .. unresolved |-> CHOOSE t \in Task : place[t] = i]

\* It lists each waiting call once, in the order of the places.
ChainInOrder ==
  /\ Chain \in Seq(Task)
  /\ Len(Chain) = unresolved
  /\ \A i \in 1 .. unresolved : place[Chain[i]] = i
  /\ \A t \in Task : place[t] # 0 => Chain[place[t]] = t

LEMMA ChainPlaces == ChainInvariant => ChainInOrder
<1> SUFFICES ASSUME ChainInvariant PROVE ChainInOrder
  OBVIOUS
<1>1. \A i \in 1 .. unresolved :
         (CHOOSE t \in Task : place[t] = i) \in Task /\ place[CHOOSE t \in Task : place[t] = i] = i
  BY DEF ChainInvariant
<1>2. Chain \in [1 .. unresolved -> Task]
  BY <1>1 DEF Chain
<1>3. unresolved \in Nat
  BY DEF ChainInvariant, MutexTypeOK
<1>4. Chain \in Seq(Task) /\ Len(Chain) = unresolved
  BY <1>2, <1>3
<1>5. \A i \in 1 .. unresolved : Chain[i] \in Task /\ place[Chain[i]] = i
  BY <1>1 DEF Chain
<1>6. ASSUME NEW t \in Task, place[t] # 0
      PROVE  Chain[place[t]] = t
  <2>1. place[t] \in 1 .. unresolved
    BY <1>3, <1>6 DEF ChainInvariant, MutexTypeOK
  <2>2. Chain[place[t]] \in Task /\ place[Chain[place[t]]] = place[t]
    BY <2>1, <1>5
  <2> QED
    BY <2>2, <1>6 DEF ChainInvariant
<1> QED
  BY <1>4, <1>5, <1>6 DEF ChainInOrder

LEMMA ChainPlacesNext == ChainInvariant' => ChainInOrder'
  BY ChainPlaces, PTL

LEMMA AcquireAsks ==
  ASSUME ChainInvariant, ChainInvariant', NEW t \in Task, Acquire(t)
  PROVE  Lock!Ask(t)
<1>1. Chain' = Append(Chain, t)
  <2>1. Chain \in Seq(Task) /\ Len(Chain) = unresolved /\ Chain' \in Seq(Task)
        /\ Len(Chain') = unresolved + 1
    BY ChainPlaces, ChainPlacesNext DEF ChainInOrder, Acquire
  <2>2. unresolved \in Nat
    BY DEF ChainInvariant, MutexTypeOK
  <2>3. ASSUME NEW i \in 1 .. unresolved + 1
        PROVE  Chain'[i] = Append(Chain, t)[i]
    <3>1. Chain'[i] \in Task /\ place'[Chain'[i]] = i
      BY ChainPlaces, ChainPlacesNext, <2>1, <2>3 DEF ChainInOrder, Acquire
    <3>2. CASE i = unresolved + 1
      BY <3>1, <3>2, <2>1, <2>2, ChainInvariant' DEF ChainInvariant, MutexTypeOK, Acquire
    <3>3. CASE i # unresolved + 1
      <4>1. i \in 1 .. unresolved
        BY <3>3, <2>2
      <4>2. Chain[i] \in Task /\ place[Chain[i]] = i /\ i # 0
        BY <4>1, ChainPlaces, ChainPlacesNext, <2>1, <2>2 DEF ChainInOrder
      <4>3. Chain[i] # t
        BY <4>2 DEF Acquire
      <4>4. place'[Chain[i]] = i
        BY <4>2, <4>3 DEF Acquire, ChainInvariant, MutexTypeOK
      <4>5. Chain'[i] = Chain[i]
        BY <4>4, <4>2, <3>1 DEF ChainInvariant
      <4>6. Append(Chain, t)[i] = Chain[i]
        BY <4>1, <2>1
      <4> QED
        BY <4>5, <4>6
    <3> QED
      BY <3>2, <3>3
  <2>4. Append(Chain, t) \in Seq(Task) /\ Len(Append(Chain, t)) = unresolved + 1
    BY <2>1, <2>2
  <2> QED
    BY <2>1, <2>2, <2>3, <2>4
<1>2. ASSUME NEW i \in 1 .. Len(Chain)
      PROVE  Chain[i] # t
  <2>1. i \in 1 .. unresolved /\ i # 0
    BY ChainPlaces, <1>2 DEF ChainInOrder, ChainInvariant, MutexTypeOK
  <2>2. place[Chain[i]] = i
    BY <2>1, ChainPlaces DEF ChainInOrder
  <2>3. place[t] = 0
    BY DEF Acquire
  <2> QED
    BY <2>1, <2>2, <2>3
<1> QED
  BY <1>1, <1>2 DEF Lock!Ask, Chain

LEMMA ReleaseGivesBack ==
  ASSUME ChainInvariant, ChainInvariant', NEW t \in Task, Release(t)
  PROVE  Lock!GiveBack
<1>0. unresolved \in Nat /\ unresolved >= 1 /\ unresolved' = unresolved - 1
  BY DEF ChainInvariant, MutexTypeOK, Release, Granted
<1>1. Chain \in Seq(Task) /\ Len(Chain) = unresolved /\ Chain' \in Seq(Task)
      /\ Len(Chain') = unresolved - 1
  BY ChainPlaces, ChainPlacesNext, <1>0 DEF ChainInOrder
<1>2. Chain # <<>>
  BY <1>0, <1>1
<1>3. Tail(Chain) \in Seq(Task) /\ Len(Tail(Chain)) = unresolved - 1
      /\ \A i \in 1 .. unresolved - 1 : Tail(Chain)[i] = Chain[i + 1]
  BY <1>0, <1>1, <1>2
<1>4. ASSUME NEW i \in 1 .. unresolved - 1
      PROVE  Chain'[i] = Chain[i + 1]
  <2>1. Chain'[i] \in Task /\ place'[Chain'[i]] = i
    BY ChainPlaces, ChainPlacesNext, <1>0, <1>1, <1>4 DEF ChainInOrder
  <2>2. i + 1 \in 1 .. unresolved
    BY <1>0
  <2>3. Chain[i + 1] \in Task /\ place[Chain[i + 1]] = i + 1
    BY <2>2, <1>1, ChainPlaces, ChainPlacesNext DEF ChainInOrder
  <2>4. place'[Chain[i + 1]] = i /\ i # 0
    BY <2>3, <1>0 DEF Release
  <2> QED
    BY <2>1, <2>3, <2>4 DEF ChainInvariant
<1>5. Chain' = Tail(Chain)
  BY <1>0, <1>1, <1>3, <1>4
<1> QED
  BY <1>2, <1>5 DEF Lock!GiveBack, Chain

\* The chain of promises is a first-in first-out lock.
THEOREM MutexImplementsLock == MutexSpec => Lock!Spec
<1>1. MutexInit => Lock!Init
  BY QueueIsEmpty
<1>2. ASSUME ChainInvariant, ChainInvariant', [MutexNext]_mutexVars
      PROVE  [Lock!Next]_Chain
  <2>1. CASE UNCHANGED mutexVars
    BY <2>1 DEF mutexVars, Chain
  <2>2. CASE MutexNext
    BY <2>2, <1>2, AcquireAsks, ReleaseGivesBack DEF MutexNext, Lock!Next
  <2> QED
    BY <1>2, <2>1, <2>2
<1>3. MutexSpec => []ChainInvariant
  BY ChainStart, ChainStep, PTL DEF MutexSpec
<1> QED
  BY <1>1, <1>2, <1>3, PTL DEF MutexSpec, Lock!Spec, Chain

-------------------------------------------------------------------------------
(* The calls that use the mutex                                             *)

LEMMA TasksOfTheWorker ==
  /\ \A h \in Handlers : h \in Task /\ h \notin Starters /\ h # Inner
  /\ \A s \in Starters : s \in Task /\ s # Inner
  /\ Inner \in Task
  BY WorkerAssumption DEF WorkerAssumption

LEMMA MutexSteps == [Next]_vars => [MutexNext]_mutexVars
<1> SUFFICES ASSUME [Next]_vars PROVE MutexNext \/ UNCHANGED mutexVars
  OBVIOUS
<1>1. ASSUME NEW h \in Handlers, HandlerStep(h)
      PROVE  MutexNext \/ UNCHANGED mutexVars
  BY <1>1, TasksOfTheWorker
  DEF HandlerStep, BlockMissing, Defer, AcceptedAndExtended, Published, AskForBlocks, Asked,
      NothingToDo, PlanReorg, Reorganise, ReorgEnds, Resume, Finish, MutexNext, mutexVars
<1>2. ASSUME NEW s \in Starters, StarterStep(s)
      PROVE  MutexNext \/ UNCHANGED mutexVars
  BY <1>2, TasksOfTheWorker
  DEF StarterStep, RestartAcquires, StartGivesUp, StartReads, StartPosts, SyncReorganises,
      SyncReorgEnds, SyncResumes, MutexNext, mutexVars
<1>3. CASE Begin
  BY <1>3, TasksOfTheWorker
  DEF Begin, BlockArrives, UserStarts, RestartBegins, SyncPlans, UserStops, MutexNext, mutexVars
<1>4. CASE Mine
  BY <1>4, TasksOfTheWorker
  DEF Mine, CandidateFound, MinerGivesUp, CandidateIgnored, AssemblyFails, CandidateTaken,
      MutexNext, mutexVars
<1>5. CASE SyncBegins \/ SyncIngests \/ SyncEnds
  BY <1>5 DEF SyncBegins, SyncIngests, SyncEnds, mutexVars
<1>6. CASE UNCHANGED vars
  BY <1>6 DEF vars, mutexVars
<1> QED
  BY <1>1, <1>2, <1>3, <1>4, <1>5, <1>6 DEF Next

\* The block handlers and starts of the worker are callers of globalMutex: to
\* the mutex everything else is a stutter.
THEOREM WorkerUsesTheMutex == Spec => MutexSpec
<1>1. Init => MutexInit
  BY DEF Init
<1> QED
  BY <1>1, MutexSteps, PTL DEF Spec, MutexSpec

\* Hence no two of them hold it,
THEOREM WorkerExcludes == Spec => []MutualExclusion
  BY WorkerUsesTheMutex, MutexExcludes, PTL

\* and none is overtaken.
THEOREM WorkerKeepsTheOrder == Spec => MutexIsALock
  BY WorkerUsesTheMutex, MutexImplementsLock, PTL DEF MutexIsALock

LEMMA ChainKept == ChainInvariant /\ [Next]_vars => ChainInvariant'
  BY MutexSteps, ChainStep

\* Ways a step moves the calls: one asks for the mutex, one gives it back, one
\* goes on without either.
LEMMA AskingKeepsPlaces ==
  ASSUME TypeOK, PlacesMatch, NEW t \in Task, NEW p \in Waiting, Acquire(t), Goto(t, p)
  PROVE  PlacesMatch'
  BY DEF TypeOK, PlacesMatch, Acquire, Goto, Granted, Inside, Outside, Waiting, Plans

LEMMA ReturningKeepsPlaces ==
  ASSUME TypeOK, ChainInvariant, PlacesMatch, NEW t \in Task, Release(t), Goto(t, "idle")
  PROVE  PlacesMatch'
<1> SUFFICES ASSUME NEW s \in Task
             PROVE  /\ at'[s] \in Inside => place'[s] = 1
                    /\ at'[s] \in Outside \ Waiting => place'[s] = 0
  BY DEF PlacesMatch, Granted
<1>1. CASE s = t
  BY <1>1 DEF TypeOK, Release, Goto, Granted, Inside, Outside, Waiting, Plans
<1>2. CASE s # t
  <2>1. place[s] # 1
    BY <1>2 DEF Release, Granted, ChainInvariant
  <2>2. at'[s] = at[s] /\ at[s] \notin Inside
    BY <1>2, <2>1 DEF TypeOK, Goto, PlacesMatch, Granted
  <2> QED
    BY <2>1, <2>2 DEF TypeOK, Release, PlacesMatch, Granted, Inside, Outside, Waiting, Plans
<1> QED
  BY <1>1, <1>2

LEMMA MovingKeepsPlaces ==
  ASSUME TypeOK, PlacesMatch, NEW t \in Task, NEW p, UNCHANGED mutexVars, Goto(t, p),
         \/ p \in Inside /\ Granted(t)
         \/ p \in Outside \ Waiting /\ place[t] = 0
  PROVE  PlacesMatch'
  BY DEF TypeOK, PlacesMatch, mutexVars, Goto, Granted, Inside, Outside, Waiting, Plans

LEMMA StayingKeepsPlaces ==
  ASSUME PlacesMatch, UNCHANGED <<place, at>>
  PROVE  PlacesMatch'
  BY DEF PlacesMatch, Granted

LEMMA HandlerKeepsPlaces ==
  ASSUME TypeOK, ChainInvariant, PlacesMatch, NEW h \in Handlers, HandlerStep(h)
  PROVE  PlacesMatch'
<1>0. h \in Task /\ h # Inner /\ Inner \in Task
  BY TasksOfTheWorker
<1>1. ASSUME Finish(h) PROVE PlacesMatch'
  BY <1>0, <1>1, ReturningKeepsPlaces DEF Finish
<1>2. CASE \/ BlockMissing(h) \/ AcceptedAndExtended(h) \/ AskForBlocks(h) \/ PlanReorg(h)
           \/ Reorganise(h)
  <2>1. Granted(h)
    BY <1>0, <1>2
    DEF BlockMissing, AcceptedAndExtended, AskForBlocks, PlanReorg, Reorganise, Ingest, Entered,
        PlacesMatch, Inside
  <2>2. \E p \in Inside : Goto(h, p)
    BY <1>2 DEF BlockMissing, AcceptedAndExtended, AskForBlocks, PlanReorg, Reorganise, Inside
  <2>3. UNCHANGED mutexVars
    BY <1>2 DEF BlockMissing, AcceptedAndExtended, AskForBlocks, PlanReorg, Reorganise
  <2> QED
    BY <1>0, <2>1, <2>2, <2>3, MovingKeepsPlaces
<1>3. CASE Defer(h) \/ Asked(h) \/ NothingToDo(h) \/ ReorgEnds(h)
  BY <1>1, <1>3 DEF Defer, Asked, NothingToDo, ReorgEnds
<1>4. CASE Published(h)
  BY <1>0, <1>4, ReturningKeepsPlaces DEF Published
<1>5. CASE Resume(h)
  <2>1. Acquire(Inner) /\ at' = [at EXCEPT ![h] = "resuming", ![Inner] = "waiting"]
    BY <1>5 DEF Resume
  <2>2. Granted(h)
    BY <1>0, <1>5 DEF Resume, PlacesMatch, At, Inside
  <2> QED
    BY <1>0, <2>1, <2>2
    DEF TypeOK, PlacesMatch, Acquire, Granted, Inside, Outside, Waiting, Plans
<1> QED
  BY <1>2, <1>3, <1>4, <1>5 DEF HandlerStep

LEMMA StarterKeepsPlaces ==
  ASSUME TypeOK, ChainInvariant, PlacesMatch, NEW s \in Starters, StarterStep(s)
  PROVE  PlacesMatch'
<1>0. s \in Task
  BY TasksOfTheWorker
<1>1. CASE RestartAcquires(s)
  BY <1>0, <1>1, AskingKeepsPlaces DEF RestartAcquires, Waiting
<1>2. CASE StartGivesUp(s) \/ StartPosts(s)
  BY <1>0, <1>2, ReturningKeepsPlaces DEF StartGivesUp, StartPosts
<1>3. CASE StartReads(s)
  <2>1. "starting" \in Inside
    BY DEF Inside
  <2> QED
    BY <1>0, <1>3, <2>1, MovingKeepsPlaces DEF StartReads, Entered
<1>4. ASSUME Planning(s) PROVE place[s] = 0
  BY <1>0, <1>4 DEF Planning, PlacesMatch, Outside, Plans, Waiting
<1>5. CASE SyncReorganises(s) \/ SyncReorgEnds(s)
  <2>1. Planning(s) /\ UNCHANGED mutexVars
    BY <1>5 DEF SyncReorganises, SyncReorgEnds, Planning, Plans, At
  <2>2. \E p \in Outside \ Waiting : Goto(s, p)
    BY <1>5 DEF SyncReorganises, SyncReorgEnds, Outside, Plans, Waiting
  <2> QED
    BY <1>0, <1>4, <2>1, <2>2, MovingKeepsPlaces
<1>6. CASE SyncResumes(s)
  BY <1>0, <1>6, AskingKeepsPlaces DEF SyncResumes, Waiting
<1> QED
  BY <1>1, <1>2, <1>3, <1>5, <1>6 DEF StarterStep

LEMMA BeginKeepsPlaces ==
  ASSUME TypeOK, ChainInvariant, PlacesMatch, Begin
  PROVE  PlacesMatch'
<1>1. CASE \E h \in Handlers : BlockArrives(h)
  BY <1>1, TasksOfTheWorker, AskingKeepsPlaces DEF BlockArrives, Waiting
<1>2. CASE \E s \in Starters : UserStarts(s)
  BY <1>2, TasksOfTheWorker, AskingKeepsPlaces DEF UserStarts, Waiting
<1>3. ASSUME NEW s \in Starters, RestartBegins(s) \/ SyncPlans(s)
      PROVE  PlacesMatch'
  <2>1. s \in Task /\ At(s, "idle") /\ UNCHANGED mutexVars
    BY <1>3, TasksOfTheWorker DEF RestartBegins, SyncPlans
  <2>2. place[s] = 0
    BY <2>1 DEF PlacesMatch, At, Outside, Waiting
  <2>3. \E p \in Outside \ Waiting : Goto(s, p)
    BY <1>3 DEF RestartBegins, SyncPlans, Outside, Waiting, Plans
  <2> QED
    BY <2>1, <2>2, <2>3, MovingKeepsPlaces
<1>4. CASE UserStops
  BY <1>4, StayingKeepsPlaces DEF UserStops, mutexVars
<1> QED
  BY <1>1, <1>2, <1>3, <1>4 DEF Begin

LEMMA MineKeepsPlaces ==
  ASSUME TypeOK, PlacesMatch, Mine
  PROVE  PlacesMatch'
<1>1. CASE \E h \in Handlers : CandidateTaken(h)
  BY <1>1, TasksOfTheWorker, AskingKeepsPlaces DEF CandidateTaken, Waiting
<1>2. CASE CandidateFound \/ MinerGivesUp \/ CandidateIgnored \/ AssemblyFails
  BY <1>2, StayingKeepsPlaces
  DEF CandidateFound, MinerGivesUp, CandidateIgnored, AssemblyFails, mutexVars
<1> QED
  BY <1>1, <1>2 DEF Mine

LEMMA PlacesKept ==
  ASSUME TypeOK, ChainInvariant, PlacesMatch, [Next]_vars
  PROVE  PlacesMatch'
<1>1. CASE SyncBegins \/ SyncIngests \/ SyncEnds \/ UNCHANGED vars
  BY <1>1, StayingKeepsPlaces DEF SyncBegins, SyncIngests, SyncEnds, vars, mutexVars
<1> QED
  BY <1>1, HandlerKeepsPlaces, StarterKeepsPlaces, BeginKeepsPlaces, MineKeepsPlaces DEF Next

-------------------------------------------------------------------------------
(* Types                                                                    *)

LEMMA Bounds == MaxHeight \in Nat /\ MaxReorgs \in Nat /\ MaxRestarts \in Nat \ {0}
  BY WorkerAssumption DEF WorkerAssumption

LEMMA TipMoves ==
  ASSUME TypeOK
  PROVE  /\ CanExtend => Extended \in Tip
         /\ CanReorganise /\ Reorganised => tip' \in Tip
  BY Bounds DEF TypeOK, Tip, CanExtend, Extended, CanReorganise, Reorganised

LEMMA MoreIsBounded ==
  ASSUME TypeOK, NEW n \in {1, 2}
  PROVE  More(n) \in 1 .. MaxRestarts
  BY Bounds DEF TypeOK, More

LEMMA JobsAreNotNoJob ==
  ASSUME NEW j \in Job
  PROVE  j # NoJob /\ j.height \in 1 .. MaxHeight + 1
  BY Bounds DEF Job, NoJob

LEMMA MutexTypes ==
  ASSUME TypeOK, ChainInvariant, [Next]_vars
  PROVE  place' \in [Task -> Nat] /\ unresolved' \in Nat
  BY ChainKept DEF ChainInvariant, MutexTypeOK

\* The types of what the block handlers and the starts change.
CallTypes ==
  /\ at \in [Task -> Inside \union Outside]
  /\ tip \in Tip
  /\ carried \in [Handlers -> Job \union {NoJob}]
  /\ minerActive \in BOOLEAN /\ isSyncing \in BOOLEAN /\ isReorging \in BOOLEAN
  /\ restarts \in 0 .. MaxRestarts
MiningTypes ==
  /\ job \in Job \union {NoJob}
  /\ found \in Job \union {NoJob}
  /\ processing \in 0 .. MaxHeight + 1
  /\ height \in [Starters -> 0 .. MaxHeight]
  /\ excused \in BOOLEAN

LEMMA FinishTypes ==
  ASSUME TypeOK, NEW h \in Handlers, Finish(h)
  PROVE  /\ at' \in [Task -> Inside \union Outside]
         /\ carried' \in [Handlers -> Job \union {NoJob}]
         /\ restarts' \in 0 .. MaxRestarts
         /\ excused' \in BOOLEAN
<1>1. More(1) \in 0 .. MaxRestarts
  BY MoreIsBounded, Bounds
<1> QED
  BY <1>1 DEF TypeOK, Finish, Goto, Inside, Outside, Waiting, Plans

LEMMA HandlerTypes ==
  ASSUME TypeOK, NEW h \in Handlers, HandlerStep(h)
  PROVE  CallTypes' /\ MiningTypes'
<1>0. h \in Task
  BY TasksOfTheWorker
<1>1. CASE Defer(h) \/ Asked(h) \/ NothingToDo(h) \/ ReorgEnds(h)
  BY <1>1, FinishTypes
  DEF TypeOK, CallTypes, MiningTypes, Defer, Asked, NothingToDo, ReorgEnds
<1>2. CASE BlockMissing(h) \/ AskForBlocks(h) \/ PlanReorg(h)
  BY <1>0, <1>2
  DEF TypeOK, CallTypes, MiningTypes, BlockMissing, AskForBlocks, PlanReorg, mining, Goto,
      Inside, Outside, Waiting, Plans
<1>3. CASE AcceptedAndExtended(h)
  BY <1>0, <1>3, TipMoves
  DEF TypeOK, CallTypes, MiningTypes, AcceptedAndExtended, mining, Goto, Inside, Outside, Waiting, Plans
<1>4. CASE Published(h)
  <2>1. More(1) \in 0 .. MaxRestarts /\ More(2) \in 0 .. MaxRestarts
    BY MoreIsBounded, Bounds
  <2>2. restarts' \in 0 .. MaxRestarts
    BY <1>4, <2>1 DEF Published, TypeOK
  <2> QED
    BY <1>0, <1>4, <2>2
    DEF TypeOK, CallTypes, MiningTypes, Published, mining, Goto, Inside, Outside, Waiting, Plans
<1>5. CASE Reorganise(h)
  <2>1. tip' \in Tip
    BY <1>5, TipMoves DEF Reorganise, TypeOK
  <2> QED
    BY <1>0, <1>5, <2>1
    DEF TypeOK, CallTypes, MiningTypes, Reorganise, mining, Goto, Inside, Outside, Waiting, Plans
<1>6. CASE Resume(h)
  BY <1>0, <1>6
  DEF TypeOK, CallTypes, MiningTypes, Resume, mining, Inside, Outside, Waiting, Plans
<1> QED
  BY <1>1, <1>2, <1>3, <1>4, <1>5, <1>6 DEF HandlerStep

LEMMA StarterTypes ==
  ASSUME TypeOK, NEW s \in Starters, StarterStep(s)
  PROVE  CallTypes' /\ MiningTypes'
<1>0. s \in Task
  BY TasksOfTheWorker
<1>1. CASE RestartAcquires(s) \/ StartGivesUp(s) \/ SyncReorgEnds(s) \/ SyncResumes(s)
  BY <1>0, <1>1
  DEF TypeOK, CallTypes, MiningTypes, RestartAcquires, StartGivesUp, SyncReorgEnds, SyncResumes, mining,
      Goto, Inside, Outside, Waiting, Plans
<1>2. CASE StartReads(s)
  <2>1. tip.height \in 0 .. MaxHeight
    BY DEF TypeOK, Tip
  <2> QED
    BY <1>0, <1>2, <2>1
    DEF TypeOK, CallTypes, MiningTypes, StartReads, Goto, Inside, Outside, Waiting, Plans
<1>3. CASE StartPosts(s)
  <2>1. height[s] + 1 \in 1 .. MaxHeight + 1 /\ 0 \in 0 .. MaxHeight
    BY Bounds DEF TypeOK
  <2>2. job' \in Job
    BY <1>3, <2>1 DEF StartPosts, TypeOK, Job, NextHeight
  <2> QED
    BY <1>0, <1>3, <2>1, <2>2
    DEF TypeOK, CallTypes, MiningTypes, StartPosts, Goto, Inside, Outside, Waiting, Plans
<1>4. CASE SyncReorganises(s)
  <2>1. tip' \in Tip
    BY <1>4, TipMoves DEF SyncReorganises, TypeOK
  <2> QED
    BY <1>0, <1>4, <2>1
    DEF TypeOK, CallTypes, MiningTypes, SyncReorganises, mining, Goto, Inside, Outside, Waiting,
        Plans
<1> QED
  BY <1>1, <1>2, <1>3, <1>4 DEF StarterStep

LEMMA OtherTypes ==
  ASSUME TypeOK, Begin \/ Mine \/ SyncBegins \/ SyncIngests \/ SyncEnds \/ UNCHANGED vars
  PROVE  CallTypes' /\ MiningTypes'
<1>1. CASE Begin
  <2>1. UNCHANGED <<tip, carried, isSyncing, isReorging, found, processing, height, excused>>
    BY <1>1 DEF Begin, BlockArrives, UserStarts, RestartBegins, SyncPlans, UserStops, mining
  <2>2. at' \in [Task -> Inside \union Outside]
    BY <1>1, TasksOfTheWorker
    DEF TypeOK, Begin, BlockArrives, UserStarts, RestartBegins, SyncPlans, UserStops, Goto,
        Inside, Outside, Waiting, Plans
  <2>3. minerActive' \in BOOLEAN /\ job' \in Job \union {NoJob}
    BY <1>1
    DEF TypeOK, Begin, BlockArrives, UserStarts, RestartBegins, SyncPlans, UserStops, mining
  <2>4. restarts' = restarts \/ (restarts > 0 /\ restarts' = restarts - 1)
    BY <1>1 DEF Begin, BlockArrives, UserStarts, RestartBegins, SyncPlans, UserStops
  <2>5. restarts' \in 0 .. MaxRestarts
    BY <2>4, Bounds DEF TypeOK
  <2> QED
    BY <2>1, <2>2, <2>3, <2>5 DEF TypeOK, CallTypes, MiningTypes
<1>2. CASE CandidateFound \/ MinerGivesUp \/ CandidateIgnored \/ AssemblyFails
  <2>1. 0 \in 0 .. MaxHeight + 1
    BY Bounds
  <2> QED
    BY <1>2, <2>1
    DEF TypeOK, CallTypes, MiningTypes, CandidateFound, MinerGivesUp, CandidateIgnored, AssemblyFails
<1>3. ASSUME NEW h \in Handlers, CandidateTaken(h)
      PROVE  CallTypes' /\ MiningTypes'
  <2>1. found \in Job
    BY <1>3 DEF TypeOK, CandidateTaken
  <2>2. found.height \in 0 .. MaxHeight + 1
    BY <2>1, JobsAreNotNoJob, Bounds
  <2> QED
    BY <1>3, <2>1, <2>2, TasksOfTheWorker
    DEF TypeOK, CallTypes, MiningTypes, CandidateTaken, Goto, Inside, Outside, Waiting, Plans
<1>4. CASE SyncBegins \/ SyncIngests \/ SyncEnds \/ UNCHANGED vars
  BY <1>4, TipMoves
  DEF TypeOK, CallTypes, MiningTypes, SyncBegins, SyncIngests, SyncEnds, vars, mining
<1> QED
  BY <1>1, <1>2, <1>3, <1>4 DEF Mine

LEMMA TypesKept ==
  ASSUME TypeOK, ChainInvariant, [Next]_vars
  PROVE  TypeOK'
<1>1. CallTypes' /\ MiningTypes'
  BY HandlerTypes, StarterTypes, OtherTypes DEF Next
<1> QED
  BY <1>1, MutexTypes DEF TypeOK, CallTypes, MiningTypes

-------------------------------------------------------------------------------
(* The invariant and what follows from it                                   *)

LEMMA PlansKept ==
  ASSUME TypeOK, PlansAreOfARound, [Next]_vars
  PROVE  PlansAreOfARound'
<1> SUFFICES ASSUME NEW s \in Starters, Planning(s)'
             PROVE  isSyncing'
  BY DEF PlansAreOfARound
<1>0. s \in Task /\ Inner \in Task /\ s # Inner
  BY TasksOfTheWorker
<1>1. CASE SyncPlans(s)
  BY <1>1 DEF SyncPlans
<1>2. CASE SyncEnds \/ SyncBegins
  BY <1>2 DEF SyncEnds, SyncBegins, Planning, Plans, mutexVars
<1>3. CASE ~SyncPlans(s) /\ ~SyncEnds /\ ~SyncBegins
  <2>1. isSyncing' = isSyncing
    BY <1>3
    DEF Next, HandlerStep, BlockMissing, Defer, AcceptedAndExtended, Published, AskForBlocks,
        Asked, NothingToDo, PlanReorg, Reorganise, ReorgEnds, Resume, StarterStep, RestartAcquires,
        StartGivesUp, StartReads, StartPosts, SyncReorganises, SyncReorgEnds, SyncResumes, Begin,
        BlockArrives, UserStarts, RestartBegins, SyncPlans, UserStops, Mine, CandidateFound,
        MinerGivesUp, CandidateIgnored, AssemblyFails, CandidateTaken, SyncIngests, vars
  <2>2. CASE \E h \in Handlers : HandlerStep(h)
    <3>1. Planning(s)
      BY <1>0, <2>2, TasksOfTheWorker
      DEF TypeOK, Planning, Plans, HandlerStep, BlockMissing, Defer, AcceptedAndExtended, Published,
          AskForBlocks, Asked, NothingToDo, PlanReorg, Reorganise, ReorgEnds, Resume,
          Finish, Goto
    <3> QED
      BY <2>1, <3>1 DEF PlansAreOfARound
  <2>3. CASE \E t \in Starters : StarterStep(t)
    <3>1. Planning(s)
      BY <1>0, <2>3, TasksOfTheWorker
      DEF TypeOK, Planning, Plans, StarterStep, RestartAcquires, StartGivesUp, StartReads, StartPosts,
          SyncReorganises, SyncReorgEnds, SyncResumes, Goto
    <3> QED
      BY <2>1, <3>1 DEF PlansAreOfARound
  <2>4. CASE Begin
    <3>1. CASE \E t \in Starters \ {s} : SyncPlans(t)
      BY <1>0, <3>1, TasksOfTheWorker, <2>1 DEF SyncPlans, PlansAreOfARound, Planning, Goto
    <3>2. CASE ~\E t \in Starters : SyncPlans(t)
      <4>1. Planning(s)
        BY <1>0, <2>4, <3>2, TasksOfTheWorker
        DEF TypeOK, Planning, Plans, Begin, BlockArrives, UserStarts, RestartBegins, UserStops, Goto
      <4> QED
        BY <2>1, <4>1 DEF PlansAreOfARound
    <3> QED
      BY <1>3, <3>1, <3>2
  <2>5. CASE Mine
    <3>1. Planning(s)
      BY <1>0, <2>5, TasksOfTheWorker
      DEF TypeOK, Planning, Plans, Mine, CandidateFound, MinerGivesUp, CandidateIgnored, AssemblyFails,
          CandidateTaken, Goto
    <3> QED
      BY <2>1, <3>1 DEF PlansAreOfARound
  <2>6. CASE SyncIngests \/ UNCHANGED vars
    BY <2>1, <2>6 DEF SyncIngests, vars, Planning, PlansAreOfARound
  <2> QED
    BY <1>3, <2>2, <2>3, <2>4, <2>5, <2>6 DEF Next
<1> QED
  BY <1>1, <1>2, <1>3

\* Who runs past acquire() holds the mutex and who has not called it is not in
\* the chain, whatever the handlers, the starts, the user, the miner and the
\* synchronisation do.
THEOREM WorkerIsConsistent == Spec => []WorkerInvariant
<1>1. ASSUME Init PROVE WorkerInvariant
  <2>1. TypeOK
    <3>1. 0 \in 0 .. MaxHeight /\ 0 \in 0 .. MaxReorgs /\ 0 \in 0 .. MaxRestarts
          /\ 0 \in 0 .. MaxHeight + 1
      BY Bounds
    <3>2. tip \in Tip
      BY <1>1, <3>1 DEF Init, Tip
    <3> QED
      BY <1>1, <3>1, <3>2 DEF Init, MutexInit, TypeOK, Inside, Outside, Waiting, Plans
  <2>2. ChainInvariant
    BY <1>1, ChainStart DEF Init
  <2>3. PlacesMatch /\ PlansAreOfARound
    BY <1>1, TasksOfTheWorker
    DEF Init, MutexInit, PlacesMatch, PlansAreOfARound, Planning, Plans, Inside, Granted
  <2> QED
    BY <2>1, <2>2, <2>3 DEF WorkerInvariant
<1>2. ASSUME WorkerInvariant, [Next]_vars PROVE WorkerInvariant'
  <2>1. TypeOK /\ ChainInvariant /\ PlacesMatch /\ PlansAreOfARound
    BY <1>2 DEF WorkerInvariant
  <2>2. TypeOK' /\ PlacesMatch' /\ PlansAreOfARound'
    BY <1>2, <2>1, TypesKept, PlacesKept, PlansKept
  <2>3. ChainInvariant'
    BY <1>2, <2>1, ChainKept
  <2> QED
    BY <2>2, <2>3 DEF WorkerInvariant
<1> QED
  BY <1>1, <1>2, PTL DEF Spec

\* The variables keep their types.
THEOREM WorkerTypes == Spec => []TypeOK
<1>1. WorkerInvariant => TypeOK
  BY DEF WorkerInvariant
<1> QED
  BY <1>1, WorkerIsConsistent, PTL

LEMMA OneInside == WorkerInvariant => CriticalSections
  BY DEF WorkerInvariant, PlacesMatch, ChainInvariant, CriticalSections, Granted

\* No two calls are ever past their acquire(), however they interleave.
THEOREM WorkersAreAlone == Spec => []CriticalSections
  BY OneInside, WorkerIsConsistent, PTL

\* While a start is between reading the height and posting the job, only the
\* synchronisation, which takes no mutex, moves the tip.
THEOREM StartsSeeOneTip == Spec => OnlySyncMovesTheTipUnderAStart
<1>1. ASSUME WorkerInvariant, [Next]_vars,
             NEW s \in Starters, At(s, "starting"), tip' # tip
      PROVE  isSyncing'
  <2>0. s \in Task /\ Granted(s)
    BY <1>1, TasksOfTheWorker DEF WorkerInvariant, PlacesMatch, At, Inside
  <2>1. ASSUME NEW h \in Handlers
        PROVE  ~Granted(h) /\ h \in Task
    BY <1>1, <2>0, TasksOfTheWorker DEF WorkerInvariant, ChainInvariant, Granted
  <2>2. ASSUME NEW h \in Handlers, HandlerStep(h)
        PROVE  FALSE
    <3>1. AcceptedAndExtended(h) \/ Reorganise(h)
      BY <1>1, <2>2
      DEF HandlerStep, BlockMissing, Defer, Published, AskForBlocks, Asked, NothingToDo,
          PlanReorg, ReorgEnds, Resume
    <3>2. Granted(h)
      BY <1>1, <2>1, <3>1
      DEF AcceptedAndExtended, Ingest, Entered, Reorganise, WorkerInvariant,
          PlacesMatch, Inside
    <3> QED
      BY <2>1, <3>2
  <2>3. ASSUME NEW t \in Starters, StarterStep(t)
        PROVE  isSyncing'
    <3>1. SyncReorganises(t)
      BY <1>1, <2>3
      DEF StarterStep, RestartAcquires, StartGivesUp, StartReads, StartPosts, SyncReorgEnds, SyncResumes
    <3> QED
      BY <1>1, <3>1 DEF SyncReorganises, WorkerInvariant, PlansAreOfARound, Planning, Plans
  <2>4. CASE SyncBegins \/ SyncIngests
    BY <2>4 DEF SyncBegins, SyncIngests
  <2>5. ~Begin /\ ~Mine /\ ~SyncEnds /\ ~UNCHANGED vars
    BY <1>1
    DEF Begin, BlockArrives, UserStarts, RestartBegins, SyncPlans, UserStops, Mine,
        CandidateFound, MinerGivesUp, CandidateIgnored, AssemblyFails, CandidateTaken,
        SyncEnds, vars
  <2> QED
    BY <1>1, <2>2, <2>3, <2>4, <2>5 DEF Next
<1>2. WorkerInvariant /\ [Next]_vars
      => [(\E s \in Starters : At(s, "starting")) /\ tip' # tip => isSyncing']_vars
  BY <1>1
<1> QED
  BY <1>2, WorkerIsConsistent, PTL DEF Spec, OnlySyncMovesTheTipUnderAStart

LEMMA MinerWatched ==
  ASSUME TypeOK, NoSilentStop, [Next]_vars
  PROVE  NoSilentStop'
<1>0. NoSilentStop' \/ (minerActive' /\ ~excused' /\ job' = NoJob /\ ~(restarts' > 0)
        /\ found' = NoJob /\ (\A h \in Handlers : at'[h] = "idle")
        /\ \A s \in Starters : at'[s] = "idle")
  BY DEF NoSilentStop
<1> SUFFICES ASSUME minerActive', ~excused', job' = NoJob, ~(restarts' > 0), found' = NoJob,
                    \A h \in Handlers : at'[h] = "idle", \A s \in Starters : at'[s] = "idle"
             PROVE  FALSE
  BY <1>0
<1>f. ASSUME NEW h \in Handlers, Finish(h), UNCHANGED minerActive
      PROVE  FALSE
  <2>1. More(1) > 0
    BY MoreIsBounded, Bounds
  <2> QED
    BY <1>f, <2>1 DEF Finish
<1>1. ASSUME NEW h \in Handlers, HandlerStep(h)
      PROVE  FALSE
  <2>0. h \in Task /\ at'[h] = "idle"
    BY TasksOfTheWorker
  <2>1. CASE \/ BlockMissing(h) \/ AcceptedAndExtended(h) \/ AskForBlocks(h) \/ PlanReorg(h)
             \/ Reorganise(h)
    BY <2>0, <2>1
    DEF TypeOK, BlockMissing, AcceptedAndExtended, AskForBlocks, PlanReorg, Reorganise, Goto
  <2>2. CASE Defer(h) \/ Asked(h) \/ NothingToDo(h) \/ ReorgEnds(h)
    BY <1>f, <2>2 DEF Defer, Asked, NothingToDo, ReorgEnds
  <2>3. CASE Published(h)
    <3>1. More(1) > 0 /\ More(2) > 0
      BY MoreIsBounded, Bounds
    <3> QED
      BY <2>3, <3>1 DEF Published
  <2>4. CASE Resume(h)
    BY <2>0, <2>4, TasksOfTheWorker DEF Resume, TypeOK
  <2> QED
    BY <1>1, <2>1, <2>2, <2>3, <2>4 DEF HandlerStep
<1>2. ASSUME NEW s \in Starters, StarterStep(s)
      PROVE  FALSE
  <2>0. s \in Task /\ at'[s] = "idle"
    BY TasksOfTheWorker
  <2>1. CASE RestartAcquires(s) \/ StartReads(s)
    BY <2>0, <2>1 DEF TypeOK, RestartAcquires, StartReads, Goto
  <2>2. CASE StartGivesUp(s) \/ SyncReorgEnds(s)
    BY <2>2 DEF StartGivesUp, SyncReorgEnds
  <2>3. CASE StartPosts(s)
    <3>1. height[s] \in Nat /\ job'.height = height[s] + 1
      BY <2>3, Bounds DEF StartPosts, NextHeight, TypeOK
    <3>2. job'.height = 0
      BY DEF NoJob
    <3> QED
      BY <3>1, <3>2
  <2>4. CASE SyncReorganises(s) \/ SyncResumes(s)
    BY <2>0, <2>4 DEF TypeOK, SyncReorganises, SyncResumes, Goto
  <2> QED
    BY <1>2, <2>1, <2>2, <2>3, <2>4 DEF StarterStep
<1>3. CASE Begin
  <2>1. CASE \E h \in Handlers : BlockArrives(h)
    BY <2>1, TasksOfTheWorker DEF TypeOK, BlockArrives, Goto
  <2>2. CASE \E s \in Starters : UserStarts(s) \/ RestartBegins(s) \/ SyncPlans(s)
    BY <2>2, TasksOfTheWorker DEF TypeOK, UserStarts, RestartBegins, SyncPlans, Goto
  <2>3. CASE UserStops
    BY <2>3 DEF UserStops
  <2> QED
    BY <1>3, <2>1, <2>2, <2>3 DEF Begin
<1>4. CASE Mine
  BY <1>4, TasksOfTheWorker
  DEF TypeOK, Mine, CandidateFound, MinerGivesUp, CandidateIgnored, AssemblyFails,
      CandidateTaken, Goto
<1>5. CASE SyncBegins \/ SyncIngests \/ SyncEnds \/ UNCHANGED vars
  BY <1>5 DEF SyncBegins, SyncIngests, SyncEnds, vars, mining, NoSilentStop
<1> QED
  BY <1>1, <1>2, <1>3, <1>4, <1>5 DEF Next

\* No outcome of a block attempt, and no interleaving with the starts and the
\* user's commands, leaves an active miner idle with nothing under way.
THEOREM MinerIsNotForgotten == Spec => []NoSilentStop
<1>1. Init => NoSilentStop
  BY DEF Init, NoSilentStop
<1>2. TypeOK /\ NoSilentStop /\ [Next]_vars => NoSilentStop'
  BY MinerWatched
<1> QED
  BY <1>1, <1>2, WorkerTypes, PTL DEF Spec
===============================================================================
