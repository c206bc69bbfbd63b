------------------------------ MODULE BlockFetch ------------------------------
(***************************************************************************)
(* One call of fetchBlocksParallel (src/worker.js): a batch of blocks is   *)
(* downloaded from several peers at once, each by fetchBlockDirectly,      *)
(* which asks one peer on a stream of its own and, when the stream fails,  *)
(* broadcasts the request and waits for the block among the blocks that    *)
(* gossip delivers.                                                        *)
(*                                                                         *)
(* For that wait it pushes a temporary handler on the handlers of          *)
(* TOPICS.BLOCKS, the array handleGossipMessage (src/libp2p-node.js) is    *)
(* walking with "for (... of ...)" and an await per handler: an index into *)
(* a live array.                                                           *)
(*                                                                         *)
(* The worker has one thread.  The part of the loop between two awaits is  *)
(* several steps here, during which nothing else moves ("filling").        *)
(***************************************************************************)
EXTENDS Integers, Sequences, FiniteSets, SequencesExt

CONSTANTS
    Hash,                \* blockHashes, numbered in the order of the list
    Peers,               \* peerIds, a list
    PARALLEL_DOWNLOADS,
    MAX_FETCH_ATTEMPTS,
    MAX_IN_FLIGHT_PER_PEER,
    Arrival              \* bound: the gossip messages that carry a block

ASSUME FetchAssumption ==
    /\ Hash \subseteq Nat /\ IsFiniteSet(Hash)
    /\ Peers \in Seq(Nat) /\ Len(Peers) > 0
    /\ PARALLEL_DOWNLOADS \in Nat \ {0}
    /\ MAX_FETCH_ATTEMPTS \in Nat \ {0}
    /\ MAX_IN_FLIGHT_PER_PEER \in Nat \ {0}

VARIABLES
    loop,                \* where the while loop is
    pending, inFlight,   \* sets of hashes
    peerInFlightCounts,
    peerIndex,           \* the next peer of the round robin
    fetch,               \* fetch[h]: the promise for h and what it waits for
    results,             \* the hashes with a block
    handlers,            \* this.handlers.get(TOPICS.BLOCKS)
    walk                 \* walk[m]: handleGossipMessage for message m

batch == <<loop, pending, inFlight, peerInFlightCounts, peerIndex>>
gossip == <<handlers, walk>>
vars == <<batch, fetch, results, gossip>>

Peer == ToSet(Peers)

(***************************************************************************)
(* A handler is the permanent one of the worker or the temporary one of an *)
(* attempt.  fetch[h].at says what the attempt waits for; "got" and        *)
(* "failed" are the two ways the promise ends.                             *)
(***************************************************************************)
Main == [hash |-> -1, attempt |-> 0]
Temporary(h, n) == [hash |-> h, attempt |-> n]
Waits == {"stream", "gossip", "backoff"}
Ends == {"got", "failed"}
NoFetch == [at |-> "none", attempt |-> 0, peer |-> Peers[1]]

(***************************************************************************)
(* A message that has not come, and one whose walk is over.                *)
(***************************************************************************)
NotSeen == [hash |-> -1, next |-> 0]
Over == [hash |-> -1, next |-> -1]

Init ==
    /\ loop = "filling"
    /\ pending = Hash /\ inFlight = {}
    /\ peerInFlightCounts = [p \in Peer |-> 0]
    /\ peerIndex = 1
    /\ fetch = [h \in Hash |-> NoFetch]
    /\ results = {}
    /\ handlers = <<Main>>
    /\ walk = [m \in Arrival |-> NotSeen]

-----------------------------------------------------------------------------
(* The while loop *)

(***************************************************************************)
(* getNextPeer, until a peer has a free slot: the peers are tried from     *)
(* peerIndex round to the one before it.  (Mutant HasSlotOrOneMore: off by *)
(* one.)                                                                   *)
(***************************************************************************)
Tried(i) == ((peerIndex + i - 1) % Len(Peers)) + 1
HasSlotOrOneMore(p) == peerInFlightCounts[p] <= MAX_IN_FLIGHT_PER_PEER

HasSlot(p) == peerInFlightCounts[p] < MAX_IN_FLIGHT_PER_PEER

FreeAfter(i) ==
    /\ HasSlot(Peers[Tried(i)])
    /\ \A j \in 0..(i - 1) : ~HasSlot(Peers[Tried(j)])

Room == Cardinality(inFlight) < PARALLEL_DOWNLOADS /\ pending # {}

(***************************************************************************)
(* The first pending hash goes to the first peer with a free slot, and its *)
(* fetch runs up to its first await.                                       *)
(***************************************************************************)
First == CHOOSE h \in pending : \A g \in pending : h <= g

Start(i) ==
    /\ loop = "filling" /\ Room /\ FreeAfter(i)
    /\ LET p == Peers[Tried(i)]
       IN  /\ pending' = pending \ {First}
           /\ inFlight' = inFlight \cup {First}
           /\ peerInFlightCounts' = [peerInFlightCounts EXCEPT ![p] = @ + 1]
           /\ fetch' = [fetch EXCEPT ![First] =
                           [at |-> "stream", attempt |-> 1, peer |-> p]]
    /\ peerIndex' = (Tried(i) % Len(Peers)) + 1
    /\ UNCHANGED <<loop, results, gossip>>

(***************************************************************************)
(* Nothing more can be started.  With nothing in flight and something      *)
(* pending the while loop would come back here without an await.           *)
(***************************************************************************)
Filled ==
    /\ loop = "filling"
    /\ ~Room \/ \A p \in Peer : ~HasSlot(p)
    /\ loop' = IF inFlight # {} THEN "racing"
               ELSE IF pending # {} THEN "filling" ELSE "returned"
    /\ UNCHANGED <<pending, inFlight, peerInFlightCounts, peerIndex, fetch, results, gossip>>

(***************************************************************************)
(* Promise.race gives one of the fetches that have ended.  (Mutants        *)
(* RaceKeepsSlot: the slot of the peer is released only by a success;      *)
(* RaceReleasesFirst: it is the first peer that gets a slot back.)         *)
(***************************************************************************)
RaceReleasesFirst(h) ==
    /\ loop = "racing" /\ h \in inFlight /\ fetch[h].at \in Ends
    /\ peerInFlightCounts' = [peerInFlightCounts EXCEPT ![Peers[1]] = @ - 1]
    /\ inFlight' = inFlight \ {h}
    /\ loop' = "filling"
    /\ UNCHANGED <<pending, peerIndex, fetch, results, gossip>>

RaceKeepsSlot(h) ==
    /\ loop = "racing" /\ h \in inFlight /\ fetch[h].at \in Ends
    /\ peerInFlightCounts' = [peerInFlightCounts EXCEPT ![fetch[h].peer] =
                                 IF fetch[h].at = "got" THEN @ - 1 ELSE @]
    /\ inFlight' = inFlight \ {h}
    /\ loop' = "filling"
    /\ UNCHANGED <<pending, peerIndex, fetch, results, gossip>>

Race(h) ==
    /\ loop = "racing" /\ h \in inFlight /\ fetch[h].at \in Ends
    /\ peerInFlightCounts' = [peerInFlightCounts EXCEPT ![fetch[h].peer] = @ - 1]
    /\ inFlight' = inFlight \ {h}
    /\ loop' = "filling"
    /\ UNCHANGED <<pending, peerIndex, fetch, results, gossip>>

-----------------------------------------------------------------------------
(* One fetch *)

Awaits(h, where) == loop # "filling" /\ h \in inFlight /\ fetch[h].at = where

Gets(h) ==
    /\ fetch' = [fetch EXCEPT ![h].at = "got"]
    /\ results' = results \cup {h}

(***************************************************************************)
(* fetchBlockDirectly has given null: another attempt on the same peer     *)
(* after a pause, or the end.  (Mutant GivesUpEarly: off by one.)          *)
(***************************************************************************)
GivesUpEarly(f) == [f EXCEPT !.at = IF f.attempt + 1 < MAX_FETCH_ATTEMPTS THEN "backoff" ELSE "failed"]

AfterNull(f) == [f EXCEPT !.at = IF f.attempt < MAX_FETCH_ATTEMPTS THEN "backoff" ELSE "failed"]

GetsNull(h) == fetch' = [fetch EXCEPT ![h] = AfterNull(@)] /\ UNCHANGED results

StreamGives(h) == Awaits(h, "stream") /\ Gets(h) /\ UNCHANGED <<batch, gossip>>

StreamRefuses(h) == Awaits(h, "stream") /\ GetsNull(h) /\ UNCHANGED <<batch, gossip>>

(***************************************************************************)
(* The stream fails: the temporary handler is pushed and the request       *)
(* broadcast.                                                              *)
(***************************************************************************)
Push(h) == handlers' = Append(handlers, Temporary(h, fetch[h].attempt))

StreamFails(h) ==
    /\ Awaits(h, "stream") /\ Push(h)
    /\ fetch' = [fetch EXCEPT ![h].at = "gossip"]
    /\ UNCHANGED <<batch, results, walk>>

(***************************************************************************)
(* The broadcast throws as well: null, and the handler stays.              *)
(***************************************************************************)
BroadcastFails(h) ==
    /\ Awaits(h, "stream") /\ Push(h)
    /\ GetsNull(h)
    /\ UNCHANGED <<batch, walk>>

(***************************************************************************)
(* Seven seconds pass: null, and the handler stays.                        *)
(***************************************************************************)
GossipTimesOut(h) == Awaits(h, "gossip") /\ GetsNull(h) /\ UNCHANGED <<batch, gossip>>

BackoffEnds(h) ==
    /\ Awaits(h, "backoff")
    /\ fetch' = [fetch EXCEPT ![h].at = "stream", ![h].attempt = @ + 1]
    /\ UNCHANGED <<batch, results, gossip>>

-----------------------------------------------------------------------------
(* handleGossipMessage on TOPICS.BLOCKS *)

Arrives(m, h) ==
    /\ loop # "filling" /\ walk[m] = NotSeen
    /\ walk' = [walk EXCEPT ![m] = [hash |-> h, next |-> 1]]
    /\ UNCHANGED <<batch, fetch, results, handlers>>

(***************************************************************************)
(* The next handler is called: the temporary ones of the block remove      *)
(* themselves from the array and resolve the promise of their attempt,     *)
(* which no longer matters when the attempt is over.                       *)
(***************************************************************************)
Resolves(t) == fetch[t.hash].at = "gossip" /\ fetch[t.hash].attempt = t.attempt

Removed(t) == RemoveAt(handlers, CHOOSE i \in 1..Len(handlers) : handlers[i] = t)

Walks(m) == loop # "filling" /\ walk[m].next \in 1..Len(handlers)

CallOther(m) ==
    /\ Walks(m)
    /\ handlers[walk[m].next].hash # walk[m].hash
    /\ walk' = [walk EXCEPT ![m].next = @ + 1]
    /\ UNCHANGED <<batch, fetch, results, handlers>>

CallTemporary(m) ==
    /\ Walks(m)
    /\ LET t == handlers[walk[m].next]
       IN  /\ t.hash = walk[m].hash
           /\ handlers' = Removed(t)
           /\ IF Resolves(t) THEN Gets(t.hash) ELSE UNCHANGED <<fetch, results>>
    /\ walk' = [walk EXCEPT ![m].next = @ + 1]
    /\ UNCHANGED batch

WalkEnds(m) ==
    /\ loop # "filling" /\ walk[m].next > Len(handlers)
    /\ walk' = [walk EXCEPT ![m] = Over]
    /\ UNCHANGED <<batch, fetch, results, handlers>>

-----------------------------------------------------------------------------
Returned == loop = "returned" /\ UNCHANGED vars

FetchStep(h) ==
    \/ StreamGives(h) \/ StreamRefuses(h) \/ StreamFails(h) \/ BroadcastFails(h)
    \/ GossipTimesOut(h) \/ BackoffEnds(h)

Next ==
    \/ \E i \in 0..(Len(Peers) - 1) : Start(i)
    \/ Filled
    \/ \E h \in Hash : Race(h) \/ FetchStep(h)
    \/ \E m \in Arrival : CallOther(m) \/ CallTemporary(m) \/ WalkEnds(m)
    \/ \E m \in Arrival, h \in Hash : Arrives(m, h)
    \/ Returned

(***************************************************************************)
(* The loop goes on and timers fire.  Nothing is assumed of gossip, nor of *)
(* a stream: it is opened and read without a timeout, so a peer that keeps *)
(* it open and silent keeps its fetch waiting.                             *)
(***************************************************************************)
Fairness ==
    /\ \A i \in 0..(Len(Peers) - 1) : WF_vars(Start(i))
    /\ WF_vars(Filled)
    /\ \A h \in Hash : WF_vars(Race(h)) /\ WF_vars(GossipTimesOut(h)) /\ WF_vars(BackoffEnds(h))

Spec == Init /\ [][Next]_vars /\ Fairness

-----------------------------------------------------------------------------
(***************************************************************************)
(* Every variable has its type.                                            *)
(***************************************************************************)
TypeOK ==
    /\ loop \in {"filling", "racing", "returned"}
    /\ pending \subseteq Hash /\ inFlight \subseteq Hash
    /\ peerInFlightCounts \in [Peer -> Nat]
    /\ peerIndex \in 1..Len(Peers)
    /\ fetch \in [Hash -> [at : Waits \cup Ends \cup {"none"},
                           attempt : 0..MAX_FETCH_ATTEMPTS, peer : Peer]]
    /\ results \subseteq Hash
    /\ handlers \in Seq([hash : Hash \cup {-1}, attempt : 0..MAX_FETCH_ATTEMPTS])
    /\ walk \in [Arrival -> {NotSeen, Over} \cup [hash : Hash, next : Nat \ {0}]]

(***************************************************************************)
(* The counter of a peer is the number of fetches that occupy it, so that  *)
(* no peer serves more than its share and no slot is lost when fetches     *)
(* fail, are answered late, or end together.                               *)
(***************************************************************************)
Occupies(p) == {h \in inFlight : fetch[h].peer = p}

SlotsAreKept ==
    \A p \in Peer : /\ peerInFlightCounts[p] = Cardinality(Occupies(p))
                    /\ peerInFlightCounts[p] <= MAX_IN_FLIGHT_PER_PEER

(***************************************************************************)
(* No hash is forgotten or fetched twice: one that is neither pending nor  *)
(* in flight has its block or has used up its attempts, and a block is in  *)
(* the results if and only if its fetch ended so.                          *)
(***************************************************************************)
EveryHashHasItsFetch ==
    /\ pending \cap inFlight = {}
    /\ \A h \in Hash :
          /\ h \in pending <=> fetch[h].at = "none"
          /\ h \in results <=> fetch[h].at = "got"
          /\ h \notin pending \cup inFlight => fetch[h].at \in Ends
          /\ fetch[h].at = "failed" => fetch[h].attempt = MAX_FETCH_ATTEMPTS
          /\ fetch[h].at = "backoff" => fetch[h].attempt < MAX_FETCH_ATTEMPTS
    /\ loop = "returned" => pending \cup inFlight = {}

(***************************************************************************)
(* The call returns, whatever gossip does and however fetches fail and end *)
(* together, unless a peer keeps a stream silent for ever.                 *)
(***************************************************************************)
OnlySilenceHangsTheBatch ==
    \/ <>(loop = "returned")
    \/ \E h \in Hash : <>[](fetch[h].at = "stream")
=============================================================================
