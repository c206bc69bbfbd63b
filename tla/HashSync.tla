------------------------------- MODULE HashSync -------------------------------
(***************************************************************************)
(* One call of syncForward (src/worker.js): the node asks several peers    *)
(* for the hashes after its tip, compares the lists it gets, and ingests   *)
(* the blocks of the first one in their order.                             *)
(*                                                                         *)
(* A request is broadcast: every peer sees every request and answers it,   *)
(* in chunks that are broadcast too, and the node picks the chunks of the  *)
(* peer it asked.  Gossip delivers messages in any order and each at most  *)
(* once; one that is lost is one never delivered.  A peer reads its chain  *)
(* height by height, with an await at each, and its chain may move         *)
(* meanwhile.  So may the chain of the node: a block handler that is past  *)
(* the isSyncing test goes on.                                             *)
(*                                                                         *)
(* The blocks themselves are fetched as in BlockFetch, a batch at a time,  *)
(* which may never return; here a block is there or it is not when its     *)
(* turn comes.                                                             *)
(***************************************************************************)
EXTENDS Integers, Sequences, SequencesExt, FiniteSets

CONSTANTS
    Block, Genesis,
    Prev,                   \* Prev[b]: Block.prev_hash
    Height, Branch,         \* Branch[b][h]: the ancestor of b at height h
    Peers,                  \* peersToQuery, a list
    Start,                  \* the tip of the node when the call begins
    Heard,                  \* blocks it has beside its chain by then
    TheirStart,             \* the tips the peers may have by then
    PeerTips,               \* the tips they may have later
    HASH_CHUNK_SIZE, MAX_HASHES_PER_SYNC, BATCH_SIZE,
    MaxMoves                \* bound: blocks that move a chain meanwhile

ASSUME HashSyncAssumption ==
    /\ Genesis \in Block /\ Start \in Block
    /\ TheirStart \subseteq PeerTips /\ PeerTips \subseteq Block /\ Heard \subseteq Block /\ MaxMoves \in Nat
    /\ Prev \in [Block -> Block] /\ Height \in [Block -> Nat]
    /\ \A b \in Block : /\ Branch[b] \in [0..Height[b] -> Block]
                        /\ Branch[b][Height[b]] = b
    /\ \A b \in Block : Height[b] = Height[Prev[b]] + 1 =>
          \A h \in 0..Height[Prev[b]] : Branch[b][h] = Branch[Prev[b]][h]
    /\ HASH_CHUNK_SIZE \in Nat \ {0} /\ MAX_HASHES_PER_SYNC \in Nat
    /\ BATCH_SIZE \in Nat \ {0}

VARIABLES
    phase,          \* where syncForward is
    request,        \* request[p]: the promise requestAllHashes(p) waits for
    entries,        \* the keys of hashRequestState, named by the peer asked
    collected,      \* collected[p]: the hashes of the entry or its result
    asks, chunks,   \* messages in flight
    serving,        \* serving[q][p]: peer q answers the request meant for p
    theirs, moves,  \* the tips of the peers, and a bound counter
    tip, stored,    \* the node's tip, and the blocks it has
    list, next      \* allHashes and the position in it

chain == <<tip, stored>>
position == <<list, next>>
net == <<asks, chunks>>
peers == <<serving, theirs>>
vars == <<phase, request, entries, collected, net, peers, moves, chain, position>>

Peer == ToSet(Peers)
Served == [st : {"idle", "reading", "over"}, at : Nat, last : Nat, read : Seq(Block)]
Idle == [st |-> "idle", at |-> 0, last |-> 0, read |-> <<>>]

Init ==
    /\ phase = "asking"
    /\ request = [p \in Peer |-> "new"] /\ entries = {}
    /\ collected = [p \in Peer |-> <<>>]
    /\ asks = {} /\ chunks = {}
    /\ serving = [q \in Peer |-> [p \in Peer |-> Idle]]
    /\ theirs \in [Peer -> TheirStart] /\ moves = 0
    /\ tip = Start
    /\ stored = {Branch[Start][h] : h \in 0..Height[Start]} \cup Heard
    /\ list = <<>> /\ next = 1

-----------------------------------------------------------------------------
(* requestAllHashes *)

Ask(p) ==
    /\ request[p] = "new"
    /\ request' = [request EXCEPT ![p] = "open"]
    /\ entries' = entries \cup {p}
    /\ asks' = asks \cup {[to |-> q, for |-> p] : q \in Peer}
    /\ UNCHANGED <<phase, collected, chunks, peers, moves, chain, position>>

(***************************************************************************)
(* publish throws: the promise fails, and the entry stays.                 *)
(***************************************************************************)
AskFails(p) ==
    /\ request[p] = "new"
    /\ request' = [request EXCEPT ![p] = "failed"]
    /\ entries' = entries \cup {p}
    /\ UNCHANGED <<phase, collected, net, peers, moves, chain, position>>

(***************************************************************************)
(* Ninety seconds have passed.                                             *)
(***************************************************************************)
TimesOut(p) ==
    /\ request[p] = "open" /\ p \in entries
    /\ request' = [request EXCEPT ![p] = "failed"]
    /\ entries' = entries \ {p}
    /\ UNCHANGED <<phase, collected, net, peers, moves, chain, position>>

-----------------------------------------------------------------------------
(* The peers: subscribe(TOPICS.GET_HASHES_REQUEST) *)

(***************************************************************************)
(* What the peers do and say after the requests have ended does not reach  *)
(* this call, whose entries are gone: it is left out.                      *)
(***************************************************************************)
Asking == phase = "asking"

(***************************************************************************)
(* A request that comes within the interval after the last one is dropped, *)
(* whoever it is meant for.                                                *)
(***************************************************************************)
Hears(q, p) ==
    /\ Asking /\ [to |-> q, for |-> p] \in asks
    /\ asks' = asks \ {[to |-> q, for |-> p]}
    /\ \/ serving' = [serving EXCEPT ![q][p] =
              [st |-> "reading", at |-> Height[Start] + 1, last |-> Height[theirs[q]],
               read |-> <<>>]]
       \/ (\E r \in Peer : serving[q][r].st # "idle") /\ UNCHANGED serving
    /\ UNCHANGED <<phase, request, entries, collected, chunks, theirs, moves, chain, position>>

(***************************************************************************)
(* get_canonical_hashes_after: the next height of the chain as it is now.  *)
(* A height that is gone ends the answer.                                  *)
(***************************************************************************)
Reads(q, p) ==
    LET s == serving[q][p]
    IN  /\ Asking /\ s.st = "reading" /\ s.at <= s.last
        /\ serving' = [serving EXCEPT ![q][p] =
              IF s.at <= Height[theirs[q]]
              THEN [s EXCEPT !.at = @ + 1, !.read = Append(@, Branch[theirs[q]][s.at])]
              ELSE [Idle EXCEPT !.st = "over"]]
        /\ UNCHANGED <<phase, request, entries, collected, net, theirs, moves, chain,
                   position>>

(***************************************************************************)
(* The list in chunks, the last one marked; an empty list is one chunk.    *)
(***************************************************************************)
Least(m, n) == IF m <= n THEN m ELSE n

Chunks(q, p, s) ==
    IF s = <<>> THEN {[from |-> q, for |-> p, part |-> 1, hashes |-> <<>>, finalChunk |-> TRUE]}
    ELSE {[from |-> q, for |-> p, part |-> i,
           hashes |-> SubSeq(s, i, Least(i + HASH_CHUNK_SIZE - 1, Len(s))),
           finalChunk |-> i + HASH_CHUNK_SIZE > Len(s)] :
             i \in {j \in 1..Len(s) : (j - 1) % HASH_CHUNK_SIZE = 0}}

Answers(q, p) ==
    LET s == serving[q][p]
    IN  /\ Asking /\ s.st = "reading" /\ s.at > s.last
        /\ chunks' = chunks \cup Chunks(q, p, s.read)
        /\ serving' = [serving EXCEPT ![q][p].st = "over"]
        /\ UNCHANGED <<phase, request, entries, collected, asks, theirs, moves, chain,
                   position>>

(***************************************************************************)
(* The peer extends its chain or takes another one, which may be shorter.  *)
(***************************************************************************)
PeerMoves(q, b) ==
    /\ Asking /\ moves < MaxMoves
    /\ ~(Height[b] <= Height[theirs[q]] /\ Branch[theirs[q]][Height[b]] = b)
    /\ theirs' = [theirs EXCEPT ![q] = b] /\ moves' = moves + 1
    /\ UNCHANGED <<phase, request, entries, collected, net, serving, chain, position>>

-----------------------------------------------------------------------------
(* subscribe(TOPICS.HASHES_RESPONSE) *)

(***************************************************************************)
(* Only the peer that was asked may answer, as long as the entry is there; *)
(* any other chunk leaves no trace.  (Mutant FromAnyone: the first test is *)
(* left out.)                                                              *)
(***************************************************************************)
FromAnyone(m) == m.for \in entries

Expected(m) == m.from = m.for /\ m.for \in entries

(***************************************************************************)
(* A list that grows too long fails the request.  (Mutant OnlyForgotten:   *)
(* the entry is deleted and the promise is not rejected.)                  *)
(***************************************************************************)
TooLong(m) == Len(collected[m.for]) + Len(m.hashes) > MAX_HASHES_PER_SYNC

OnlyForgotten(m) ==
    /\ Expected(m) /\ TooLong(m)
    /\ chunks' = chunks \ {m}
    /\ entries' = entries \ {m.for}
    /\ UNCHANGED <<phase, request, collected, asks, peers, moves, chain, position>>

Overflows(m) ==
    /\ Expected(m) /\ TooLong(m)
    /\ chunks' = chunks \ {m}
    /\ entries' = entries \ {m.for}
    /\ request' = [request EXCEPT ![m.for] = "failed"]
    /\ UNCHANGED <<phase, collected, asks, peers, moves, chain, position>>

(***************************************************************************)
(* request.hashes.push(...hashes).  (Mutant PushedWhole: without the dots, *)
(* the chunk becomes one element.)                                         *)
(***************************************************************************)
PushedWhole(hashes, chunk) == Append(hashes, chunk)

Pushed(hashes, chunk) == hashes \o chunk

Collects(m) ==
    /\ Expected(m) /\ ~TooLong(m)
    /\ chunks' = chunks \ {m}
    /\ collected' = [collected EXCEPT ![m.for] = Pushed(@, m.hashes)]
    /\ IF m.finalChunk
       THEN /\ entries' = entries \ {m.for}
            /\ request' = [request EXCEPT ![m.for] = "got"]
       ELSE UNCHANGED <<entries, request>>
    /\ UNCHANGED <<phase, asks, peers, moves, chain, position>>

-----------------------------------------------------------------------------
(* syncForward *)

(***************************************************************************)
(* All requests have ended.  The lists that came must have one length and  *)
(* one last hash; the first of them is used.                               *)
(***************************************************************************)
Settled == \A p \in Peer : request[p] \in {"got", "failed"}
Answered == {p \in Peer : request[p] = "got"}
IsFirst(p) ==
    \E i \in 1..Len(Peers) : /\ Peers[i] = p
                             /\ \A j \in 1..(i - 1) : Peers[j] \notin Answered

Agree ==
    \A p, q \in Answered :
        /\ Len(collected[p]) = Len(collected[q])
        /\ collected[p] # <<>> => Last(collected[p]) = Last(collected[q])

Compare ==
    /\ phase = "asking" /\ Settled
    /\ \/ /\ Answered = {} \/ ~Agree
          /\ phase' = "failed" /\ UNCHANGED list
       \/ \E p \in Answered :
             /\ Agree /\ IsFirst(p)
             /\ phase' = IF collected[p] = <<>> THEN "nothing" ELSE "fetching"
             /\ list' = collected[p]
    /\ UNCHANGED <<request, entries, collected, net, peers, moves, chain, next>>

Canonical(b) == Height[b] <= Height[tip] /\ Branch[tip][Height[b]] = b

Current == list[next]
Turn == phase = "ingesting" /\ next <= Len(list) /\ ~Canonical(Current)
Aside == UNCHANGED <<request, entries, collected, net, peers, moves, list>>

(***************************************************************************)
(* The list is worked off in batches: fetchBlocksParallel is awaited before *)
(* the first block of each.                                                *)
(***************************************************************************)
BatchIsFetched ==
    /\ phase = "fetching" /\ phase' = "ingesting"
    /\ Aside /\ UNCHANGED <<chain, next>>

AfterBlock == IF next % BATCH_SIZE = 0 /\ next < Len(list) THEN "fetching" ELSE "ingesting"

(***************************************************************************)
(* Before a batch: TIMEOUT_MS is over, or nobody trusted is left to ask.   *)
(* In it: the block was not fetched, or is not what it should be, or       *)
(* ingestion finds it invalid.                                             *)
(***************************************************************************)
BlockFails ==
    /\ phase \in {"fetching", "ingesting"} /\ next <= Len(list)
    /\ phase' = "failed"
    /\ Aside /\ UNCHANGED <<chain, next>>

AlreadyHave ==
    /\ phase = "ingesting" /\ next <= Len(list) /\ Canonical(Current)
    /\ next' = next + 1 /\ phase' = AfterBlock
    /\ Aside /\ UNCHANGED chain

(***************************************************************************)
(* What ingest_block_bytes says of a block that is not in the chain.  It   *)
(* keeps the block in every case.                                          *)
(***************************************************************************)
ExtendsTip(b) == Prev[b] = tip /\ Height[b] = Height[tip] + 1

OnSide(b) ==
    ~ExtendsTip(b) /\ (Height[b] <= Height[tip] \/ b \in stored \/ Prev[b] \in stored)

Extends ==
    /\ Turn /\ ExtendsTip(Current)
    /\ tip' = Current /\ stored' = stored \cup {Current}
    /\ next' = next + 1 /\ phase' = AfterBlock
    /\ Aside

(***************************************************************************)
(* A reorganisation takes the tip away and no block more (atomic_reorg     *)
(* refuses longer detach lists), for a branch that is all there.           *)
(***************************************************************************)
BranchIsHere(b) == \A h \in 0..(Height[b] - 1) : Branch[b][h] \in stored

ReplacesTip(b) ==
    /\ tip # Genesis /\ Height[b] >= Height[tip] /\ BranchIsHere(b)
    /\ Branch[b][Height[tip]] # tip /\ Branch[b][Height[tip] - 1] = Prev[tip]

(***************************************************************************)
(* storedOnSide: triggerReorgPlan is called, which may adopt the block,    *)
(* and the call ends.                                                      *)
(***************************************************************************)
Forks ==
    /\ Turn /\ OnSide(Current)
    /\ stored' = stored \cup {Current}
    /\ \/ UNCHANGED tip
       \/ ReplacesTip(Current) /\ tip' = Current
    /\ phase' = "forked"
    /\ Aside /\ UNCHANGED next

(***************************************************************************)
(* needParent: the list has a gap or is not one chain.  (Mutant GoesOn:    *)
(* the result is not looked at.)                                           *)
(***************************************************************************)
GoesOn ==
    /\ Turn /\ ~ExtendsTip(Current) /\ ~OnSide(Current)
    /\ stored' = stored \cup {Current}
    /\ next' = next + 1 /\ phase' = AfterBlock
    /\ Aside /\ UNCHANGED tip

ParentMissing ==
    /\ Turn /\ ~ExtendsTip(Current) /\ ~OnSide(Current)
    /\ stored' = stored \cup {Current}
    /\ phase' = "failed"
    /\ Aside /\ UNCHANGED <<tip, next>>

Complete ==
    /\ phase = "ingesting" /\ next > Len(list)
    /\ phase' = "complete"
    /\ Aside /\ UNCHANGED <<chain, next>>

(***************************************************************************)
(* A block handler that passed the isSyncing test before the call began    *)
(* extends the chain, or its plan is carried out.                          *)
(***************************************************************************)
TipMoves(b) ==
    /\ phase \in {"asking", "fetching", "ingesting"}
    /\ moves < MaxMoves /\ moves' = moves + 1
    /\ ExtendsTip(b) \/ ReplacesTip(b)
    /\ tip' = b /\ stored' = stored \cup {b}
    /\ UNCHANGED <<phase, request, entries, collected, net, peers, position>>

-----------------------------------------------------------------------------
Step == Compare \/ BlockFails \/ AlreadyHave \/ Extends \/ Forks \/ ParentMissing \/ Complete

Next ==
    \/ \E p \in Peer : Ask(p) \/ AskFails(p) \/ TimesOut(p)
    \/ \E q, p \in Peer : Hears(q, p) \/ Reads(q, p) \/ Answers(q, p)
    \/ \E q \in Peer, b \in PeerTips : PeerMoves(q, b)
    \/ \E m \in chunks : Overflows(m) \/ Collects(m)
    \/ \E b \in Block : TipMoves(b)
    \/ BatchIsFetched
    \/ Step

(***************************************************************************)
(* The node goes on and its timers fire.  Nothing is assumed of the peers  *)
(* or of gossip, so nothing of the batches, which wait for direct streams  *)
(* without a timeout.                                                      *)
(***************************************************************************)
Fairness ==
    /\ \A p \in Peer : WF_vars(Ask(p)) /\ WF_vars(TimesOut(p))
    /\ WF_vars(phase # "fetching" /\ Step)

Spec == Init /\ [][Next]_vars /\ Fairness

-----------------------------------------------------------------------------
(***************************************************************************)
(* Every variable has its type.                                            *)
(***************************************************************************)
TypeOK ==
    /\ phase \in {"asking", "fetching", "ingesting", "nothing", "forked", "failed", "complete"}
    /\ request \in [Peer -> {"new", "open", "got", "failed"}]
    /\ entries \subseteq Peer
    /\ collected \in [Peer -> Seq(Block)]
    /\ asks \subseteq [to : Peer, for : Peer]
    /\ \A m \in chunks : m \in [from : Peer, for : Peer, part : Nat \ {0},
                              hashes : Seq(Block), finalChunk : BOOLEAN]
    /\ theirs \in [Peer -> PeerTips] /\ moves \in 0..MaxMoves
    /\ serving \in [Peer -> [Peer -> Served]]
    /\ tip \in Block /\ stored \subseteq Block
    /\ list \in Seq(Block) /\ next \in Nat \ {0}

(***************************************************************************)
(* A call that logs "Completed sync" has the last block of every list it   *)
(* compared, and its chain is as high, although chunks get lost or         *)
(* overtake each other, a peer may reorganise while it reads, and the      *)
(* node's own tip may move: a list with a gap ends the call.               *)
(***************************************************************************)
CompleteMeansCaughtUp ==
    phase = "complete" =>
        \A p \in Answered : /\ Last(collected[p]) \in stored
                            /\ Height[tip] >= Height[Last(collected[p])]

(***************************************************************************)
(* A list holds only what the peer that was asked for it read in its own   *)
(* chain, and that peer has ended its answer by then, though every peer    *)
(* answers every request: an empty list of a peer that is behind is not    *)
(* taken for the answer of another, nor are the chunks of two peers mixed. *)
(* That no chunk of the answer is missing is not promised.                 *)
(***************************************************************************)
OnlyTheAskedAnswers ==
    \A p \in Peer : request[p] = "got" =>
        /\ serving[p][p].st = "over"
        /\ ToSet(collected[p]) \subseteq ToSet(serving[p][p].read)

(***************************************************************************)
(* An entry of hashRequestState belongs to a request that still waits, and *)
(* the other way round: what is settled can neither grow nor be settled    *)
(* again, and what waits can be timed out.  The exception is the entry of  *)
(* a request whose publish threw, which nobody removes.                    *)
(***************************************************************************)
WaitingRequestsHaveEntries ==
    \A p \in Peer : /\ request[p] = "open" => p \in entries
                    /\ p \in entries => request[p] \in {"open", "failed"}

(***************************************************************************)
(* The call ends, whatever happens to the requests, unless a batch keeps   *)
(* it waiting for ever.                                                    *)
(***************************************************************************)
SyncForwardEndsOrFetches ==
    \/ <>(phase \notin {"asking", "fetching", "ingesting"})
    \/ <>[](phase = "fetching")
=============================================================================
