-------------------------- MODULE BlockFetchProofs --------------------------
(***************************************************************************)
(* Proofs about BlockFetch: its types, the accounts of the peers and of    *)
(* the hashes, for every batch, list of peers and limits.                  *)
(***************************************************************************)
EXTENDS BlockFetch, FiniteSetTheorems, WellFoundedInduction, TLAPS

USE FetchAssumption

(***************************************************************************)
(* Every attempt to fill finds the first pending hash.                     *)
(***************************************************************************)
LEMMA FirstIsPending ==
    ASSUME pending \subseteq Hash, pending # {}
    PROVE  First \in pending
<1>1. PICK h \in pending : \A g \in pending : ~ <<g, h>> \in OpToRel(<, Nat)
    <2>1. pending \subseteq Nat
        OBVIOUS
    <2> QED
        BY <2>1, NatLessThanWellFounded, WFMin, Zenon
<1>2. ASSUME NEW g \in pending
      PROVE  h <= g
    <2>1. g \in Nat /\ h \in Nat
        OBVIOUS
    <2>2. g < h => <<g, h>> \in OpToRel(<, Nat)
        BY <2>1 DEF OpToRel
    <2>3. ~ (g < h)
        BY <1>1, <2>2, Zenon
    <2> QED
        BY <2>1, <2>3
<1> QED
    BY <1>2 DEF First

(***************************************************************************)
(* getNextPeer stays inside the list.                                      *)
(***************************************************************************)
LEMMA TriedIsAPeer ==
    ASSUME peerIndex \in 1..Len(Peers), NEW i \in 0..(Len(Peers) - 1)
    PROVE  /\ Tried(i) \in 1..Len(Peers)
           /\ Peers[Tried(i)] \in Peer
           /\ (Tried(i) % Len(Peers)) + 1 \in 1..Len(Peers)
<1>1. Len(Peers) \in Nat \ {0}
    OBVIOUS
<1>2. ASSUME NEW k \in Int PROVE (k % Len(Peers)) + 1 \in 1..Len(Peers)
    BY <1>1
<1>3. Tried(i) \in 1..Len(Peers)
    <2>1. peerIndex + i - 1 \in Int
        BY <1>1
    <2> QED
        BY <1>2, <2>1 DEF Tried
<1>4. Peers[Tried(i)] \in Peer
    BY <1>3 DEF Peer, ToSet
<1> QED
    BY <1>2, <1>3, <1>4

LEMMA FirstPeer == Peers[1] \in Peer
    BY DEF Peer, ToSet

-----------------------------------------------------------------------------
LEMMA TypesInitially == Init => TypeOK
<1> SUFFICES ASSUME Init PROVE TypeOK
    OBVIOUS
<1>1. fetch \in [Hash -> [at : Waits \cup Ends \cup {"none"},
                          attempt : 0..MAX_FETCH_ATTEMPTS, peer : Peer]]
    BY FirstPeer DEF Init, NoFetch
<1>2. handlers \in Seq([hash : Hash \cup {-1}, attempt : 0..MAX_FETCH_ATTEMPTS])
    BY DEF Init, Main
<1>3. walk \in [Arrival -> {NotSeen, Over} \cup [hash : Hash, next : Nat \ {0}]]
    BY DEF Init
<1>4. peerIndex \in 1..Len(Peers)
    BY DEF Init
<1> QED
    BY <1>1, <1>2, <1>3, <1>4 DEF Init, TypeOK

(***************************************************************************)
(* What one fetch does to its own record.                                  *)
(***************************************************************************)
LEMMA FetchTypes ==
    ASSUME TypeOK, EveryHashHasItsFetch, NEW h \in Hash, FetchStep(h)
    PROVE  /\ fetch' \in [Hash -> [at : Waits \cup Ends \cup {"none"},
                                   attempt : 0..MAX_FETCH_ATTEMPTS, peer : Peer]]
           /\ results' \subseteq Hash
           /\ UNCHANGED <<batch, walk>>
           /\ handlers' \in Seq([hash : Hash \cup {-1}, attempt : 0..MAX_FETCH_ATTEMPTS])
<1> DEFINE Record == [at : Waits \cup Ends \cup {"none"}, attempt : 0..MAX_FETCH_ATTEMPTS,
                      peer : Peer]
<1>1. fetch \in [Hash -> Record] /\ fetch[h] \in Record
    BY DEF TypeOK
<1>2. AfterNull(fetch[h]) \in Record
    BY <1>1 DEF AfterNull, Waits, Ends
<1>3. [fetch EXCEPT ![h] = AfterNull(@)] \in [Hash -> Record]
    BY <1>1, <1>2
<1>4. [fetch EXCEPT ![h].at = "got"] \in [Hash -> Record]
    BY <1>1 DEF Ends
<1>5. [fetch EXCEPT ![h].at = "gossip"] \in [Hash -> Record]
    BY <1>1 DEF Waits
<1>6. Push(h) => handlers' \in Seq([hash : Hash \cup {-1}, attempt : 0..MAX_FETCH_ATTEMPTS])
    BY <1>1 DEF TypeOK, Push, Temporary
<1>7. CASE StreamGives(h)
    BY <1>4, <1>7 DEF StreamGives, Gets, TypeOK, batch, gossip
<1>8. CASE StreamRefuses(h)
    BY <1>3, <1>8 DEF StreamRefuses, GetsNull, TypeOK, batch, gossip
<1>9. CASE StreamFails(h)
    BY <1>5, <1>6, <1>9 DEF StreamFails, TypeOK, batch
<1>10. CASE BroadcastFails(h)
    BY <1>3, <1>6, <1>10 DEF BroadcastFails, GetsNull, TypeOK, batch
<1>11. CASE GossipTimesOut(h)
    BY <1>3, <1>11 DEF GossipTimesOut, GetsNull, TypeOK, batch, gossip
<1>12. CASE BackoffEnds(h)
    <2>1. fetch[h].at = "backoff"
        BY <1>12 DEF BackoffEnds, Awaits
    <2>2. fetch[h].attempt + 1 \in 0..MAX_FETCH_ATTEMPTS
        BY <1>1, <2>1 DEF EveryHashHasItsFetch
    <2>3. [fetch EXCEPT ![h].at = "stream", ![h].attempt = @ + 1] \in [Hash -> Record]
        BY <1>1, <2>2 DEF Waits
    <2> QED
        BY <2>3, <1>12 DEF BackoffEnds, TypeOK, batch, gossip
<1> QED
    BY <1>7, <1>8, <1>9, <1>10, <1>11, <1>12 DEF FetchStep

(***************************************************************************)
(* A fetch that ends or goes on keeps its peer, its place in the loop and  *)
(* the accounts.                                                           *)
(***************************************************************************)
LEMMA FetchAccounts ==
    ASSUME TypeOK, EveryHashHasItsFetch, NEW h \in Hash, FetchStep(h)
    PROVE  /\ EveryHashHasItsFetch'
           /\ \A g \in Hash : fetch'[g].peer = fetch[g].peer
           /\ UNCHANGED batch
<1> DEFINE f == fetch'[h]
<1>1. /\ h \in inFlight
      /\ \A g \in Hash : g # h => fetch'[g] = fetch[g] /\ (g \in results' <=> g \in results)
      /\ f.peer = fetch[h].peer
      /\ f.at \in {"stream", "gossip", "backoff", "got", "failed"}
      /\ h \in results' <=> f.at = "got"
      /\ f.at = "failed" => f.attempt = MAX_FETCH_ATTEMPTS
      /\ f.at = "backoff" => f.attempt < MAX_FETCH_ATTEMPTS
      /\ UNCHANGED batch
    <2>1. CASE StreamGives(h)
        BY <2>1 DEF StreamGives, Gets, Awaits, TypeOK, batch, EveryHashHasItsFetch
    <2>2. CASE StreamRefuses(h)
        BY <2>2 DEF StreamRefuses, GetsNull, AfterNull, Awaits, TypeOK, batch, EveryHashHasItsFetch
    <2>3. CASE StreamFails(h)
        BY <2>3 DEF StreamFails, Awaits, TypeOK, batch, EveryHashHasItsFetch
    <2>4. CASE BroadcastFails(h)
        BY <2>4 DEF BroadcastFails, GetsNull, AfterNull, Awaits, TypeOK, batch, EveryHashHasItsFetch
    <2>5. CASE GossipTimesOut(h)
        BY <2>5 DEF GossipTimesOut, GetsNull, AfterNull, Awaits, TypeOK, batch, EveryHashHasItsFetch
    <2>6. CASE BackoffEnds(h)
        BY <2>6 DEF BackoffEnds, Awaits, TypeOK, batch, EveryHashHasItsFetch
    <2> QED
        BY <2>1, <2>2, <2>3, <2>4, <2>5, <2>6 DEF FetchStep
<1>2. EveryHashHasItsFetch'
    BY <1>1 DEF EveryHashHasItsFetch, batch, Ends
<1> QED
    BY <1>1, <1>2

(***************************************************************************)
(* The fetches of a peer are finitely many.                                *)
(***************************************************************************)
LEMMA OccupiesIsFinite ==
    ASSUME TypeOK, NEW p
    PROVE  IsFiniteSet(Occupies(p)) /\ Cardinality(Occupies(p)) \in Nat
<1>1. Occupies(p) \in SUBSET Hash
    BY DEF Occupies, TypeOK
<1>2. IsFiniteSet(Occupies(p))
    BY <1>1, FS_Subset
<1> QED
    BY <1>2, FS_CardinalityType

(***************************************************************************)
(* The fetch that starts occupies the peer it was given, and no other.     *)
(***************************************************************************)
LEMMA StartKeepsSlots ==
    ASSUME TypeOK, SlotsAreKept, EveryHashHasItsFetch,
           NEW i \in 0..(Len(Peers) - 1), Start(i)
    PROVE  SlotsAreKept' /\ EveryHashHasItsFetch' /\ TypeOK'
<1> DEFINE q == Peers[Tried(i)]
           Record == [at : Waits \cup Ends \cup {"none"}, attempt : 0..MAX_FETCH_ATTEMPTS,
                      peer : Peer]
<1>1. First \in pending /\ First \in Hash /\ q \in Peer
    BY FirstIsPending, TriedIsAPeer DEF Start, Room, TypeOK
<1>2. /\ pending' = pending \ {First} /\ inFlight' = inFlight \cup {First}
      /\ peerInFlightCounts' = [peerInFlightCounts EXCEPT ![q] = @ + 1]
      /\ fetch' = [fetch EXCEPT ![First] = [at |-> "stream", attempt |-> 1, peer |-> q]]
      /\ loop = "filling" /\ loop' = loop /\ results' = results /\ UNCHANGED <<handlers, walk>>
    BY DEF Start, gossip
<1>3. peerInFlightCounts[q] < MAX_IN_FLIGHT_PER_PEER
    BY DEF Start, FreeAfter, HasSlot
<1>4. ASSUME NEW p \in Peer
      PROVE  /\ peerInFlightCounts'[p] = Cardinality(Occupies(p)')
             /\ peerInFlightCounts'[p] <= MAX_IN_FLIGHT_PER_PEER
    <2>1. First \notin inFlight
        BY <1>1 DEF EveryHashHasItsFetch
    <2>2. peerInFlightCounts[p] = Cardinality(Occupies(p)) /\ peerInFlightCounts[p] \in Nat
          /\ peerInFlightCounts[p] <= MAX_IN_FLIGHT_PER_PEER
        BY DEF SlotsAreKept, TypeOK
    <2>3. CASE p = q
        <3>1. Occupies(p)' = Occupies(p) \cup {First}
            BY SMTT(30), <1>1, <1>2, <2>1, <2>3 DEF Occupies, TypeOK
        <3>2. Cardinality(Occupies(p)') = Cardinality(Occupies(p)) + 1
            <4>1. First \notin Occupies(p)
                BY <2>1 DEF Occupies
            <4> QED
                BY <3>1, <4>1, OccupiesIsFinite, FS_AddElement
        <3>3. peerInFlightCounts'[p] = peerInFlightCounts[p] + 1
            BY <1>1, <1>2, <2>3 DEF TypeOK
        <3> QED
            BY <1>3, <2>2, <2>3, <3>2, <3>3
    <2>4. CASE p # q
        <3>1. Occupies(p)' = Occupies(p)
            BY SMTT(30), <1>1, <1>2, <2>1, <2>4 DEF Occupies, TypeOK
        <3>2. peerInFlightCounts'[p] = peerInFlightCounts[p]
            BY <1>1, <1>2, <2>4 DEF TypeOK
        <3> QED
            BY <2>2, <3>1, <3>2
    <2> QED
        BY <2>3, <2>4
<1>5. EveryHashHasItsFetch'
    BY <1>1, <1>2 DEF EveryHashHasItsFetch, TypeOK, Ends
<1>6. TypeOK'
    <2>1. fetch' \in [Hash -> Record]
        BY <1>1, <1>2 DEF TypeOK, Waits
    <2>2. peerInFlightCounts' \in [Peer -> Nat]
        BY SMTT(30), <1>1, <1>2 DEF TypeOK
    <2>3. peerIndex' \in 1..Len(Peers)
        BY TriedIsAPeer DEF TypeOK, Start
    <2> QED
        BY <1>1, <1>2, <2>1, <2>2, <2>3 DEF TypeOK
<1> QED
    BY <1>4, <1>5, <1>6 DEF SlotsAreKept

(***************************************************************************)
(* A fetch that has ended gives its slot back.                             *)
(***************************************************************************)
LEMMA RaceKeepsSlots ==
    ASSUME TypeOK, SlotsAreKept, EveryHashHasItsFetch, NEW h \in Hash, Race(h)
    PROVE  SlotsAreKept' /\ EveryHashHasItsFetch' /\ TypeOK'
<1> DEFINE q == fetch[h].peer
<1>1. /\ h \in inFlight /\ fetch[h].at \in Ends /\ inFlight' = inFlight \ {h}
      /\ peerInFlightCounts' = [peerInFlightCounts EXCEPT ![q] = @ - 1]
      /\ loop' = "filling"
      /\ UNCHANGED <<pending, peerIndex, fetch, results, handlers, walk>>
    BY DEF Race, gossip
<1>2. q \in Peer
    BY DEF TypeOK
<1>3. ASSUME NEW p \in Peer
      PROVE  /\ peerInFlightCounts'[p] = Cardinality(Occupies(p)')
             /\ peerInFlightCounts'[p] <= MAX_IN_FLIGHT_PER_PEER
             /\ peerInFlightCounts'[p] \in Nat
    <2>1. peerInFlightCounts[p] = Cardinality(Occupies(p)) /\ peerInFlightCounts[p] \in Nat
          /\ peerInFlightCounts[p] <= MAX_IN_FLIGHT_PER_PEER
        BY DEF SlotsAreKept, TypeOK
    <2>2. CASE p = q
        <3>1. h \in Occupies(p) /\ Occupies(p)' = Occupies(p) \ {h}
            BY <1>1, <2>2 DEF Occupies
        <3>2. Cardinality(Occupies(p)') = Cardinality(Occupies(p)) - 1
            BY ZenonT(60), <3>1, OccupiesIsFinite, FS_RemoveElement
        <3>3. Cardinality(Occupies(p)') \in Nat
            <4>1. IsFiniteSet(Occupies(p)')
                BY <3>1, OccupiesIsFinite, FS_RemoveElement
            <4> QED
                BY <4>1, FS_CardinalityType
        <3>4. peerInFlightCounts'[p] = peerInFlightCounts[p] - 1
            BY <1>1, <1>2, <2>2 DEF TypeOK
        <3> QED
            BY <2>1, <3>2, <3>3, <3>4
    <2>3. CASE p # q
        <3>1. Occupies(p)' = Occupies(p)
            BY <1>1, <2>3 DEF Occupies
        <3>2. peerInFlightCounts'[p] = peerInFlightCounts[p]
            BY <1>1, <2>3 DEF TypeOK
        <3> QED
            BY <2>1, <3>1, <3>2
    <2> QED
        BY <2>2, <2>3
<1>4. EveryHashHasItsFetch'
    BY <1>1 DEF EveryHashHasItsFetch, TypeOK
<1>5. TypeOK'
    <2>1. peerInFlightCounts' \in [Peer -> Nat]
        BY <1>1, <1>2, <1>3 DEF TypeOK
    <2> QED
        BY <1>1, <2>1 DEF TypeOK
<1> QED
    BY <1>3, <1>4, <1>5 DEF SlotsAreKept

(***************************************************************************)
(* A walk that is under way is about a block of the batch, and goes on.    *)
(***************************************************************************)
LEMMA WalkTypes ==
    ASSUME TypeOK, NEW m \in Arrival, Walks(m)
    PROVE  /\ walk[m].hash \in Hash
           /\ handlers[walk[m].next] \in [hash : Hash \cup {-1}, attempt : 0..MAX_FETCH_ATTEMPTS]
           /\ [walk EXCEPT ![m].next = @ + 1]
                 \in [Arrival -> {NotSeen, Over} \cup [hash : Hash, next : Nat \ {0}]]
<1> DEFINE Walk == {NotSeen, Over} \cup [hash : Hash, next : Nat \ {0}]
<1>1. walk \in [Arrival -> Walk] /\ walk[m] \in Walk
    BY DEF TypeOK
<1>2. walk[m].next \in 1..Len(handlers)
    BY DEF Walks
<1>3. handlers \in Seq([hash : Hash \cup {-1}, attempt : 0..MAX_FETCH_ATTEMPTS])
    BY DEF TypeOK
<1>4. Len(handlers) \in Nat /\ walk[m].next >= 1
    BY <1>2, <1>3
<1>5. walk[m] \in [hash : Hash, next : Nat \ {0}]
    BY <1>1, <1>4 DEF NotSeen, Over
<1>6. [walk[m] EXCEPT !.next = @ + 1] \in Walk
    BY <1>5
<1>7. [walk EXCEPT ![m].next = @ + 1] \in [Arrival -> Walk]
    BY <1>1, <1>6
<1>8. handlers[walk[m].next] \in [hash : Hash \cup {-1}, attempt : 0..MAX_FETCH_ATTEMPTS]
    <2> DEFINE Handler == [hash : Hash \cup {-1}, attempt : 0..MAX_FETCH_ATTEMPTS]
    <2>1. handlers \in Seq(Handler)
        BY <1>3
    <2> HIDE DEF Handler
    <2>2. handlers[walk[m].next] \in Handler
        BY <1>2, <2>1
    <2> QED
        BY <2>2 DEF Handler
<1> QED
    BY <1>5, <1>7, <1>8

(***************************************************************************)
(* A message moves through the handlers: it can end one fetch, the one     *)
(* whose handler it is given to.                                           *)
(***************************************************************************)
LEMMA GossipKeepsAccounts ==
    ASSUME TypeOK, EveryHashHasItsFetch, NEW m \in Arrival,
           CallOther(m) \/ CallTemporary(m) \/ WalkEnds(m)
           \/ \E h \in Hash : Arrives(m, h)
    PROVE  /\ EveryHashHasItsFetch' /\ TypeOK'
           /\ \A g \in Hash : fetch'[g].peer = fetch[g].peer
           /\ UNCHANGED batch
<1> DEFINE Record == [at : Waits \cup Ends \cup {"none"}, attempt : 0..MAX_FETCH_ATTEMPTS,
                      peer : Peer]
           Handler == [hash : Hash \cup {-1}, attempt : 0..MAX_FETCH_ATTEMPTS]
           Walk == {NotSeen, Over} \cup [hash : Hash, next : Nat \ {0}]
<1>1. CASE \E h \in Hash : Arrives(m, h)
    <2>1. walk' \in [Arrival -> Walk]
        BY <1>1 DEF Arrives, TypeOK
    <2> QED
        BY <1>1, <2>1 DEF Arrives, TypeOK, EveryHashHasItsFetch, batch
<1>2. CASE CallOther(m)
    <2>1. walk' \in [Arrival -> Walk]
        BY <1>2, WalkTypes DEF CallOther
    <2>2. UNCHANGED <<batch, fetch, results, handlers>>
        BY <1>2 DEF CallOther
    <2> QED
        BY <2>1, <2>2 DEF TypeOK, EveryHashHasItsFetch, batch
<1>3. CASE WalkEnds(m)
    <2>1. walk' \in [Arrival -> Walk]
        BY <1>3 DEF WalkEnds, TypeOK
    <2> QED
        BY <1>3, <2>1 DEF WalkEnds, TypeOK, EveryHashHasItsFetch, batch
<1>4. CASE CallTemporary(m)
    <2> DEFINE t == handlers[walk[m].next]
               i == CHOOSE k \in 1..Len(handlers) : handlers[k] = t
    <2>0. Walks(m)
        BY <1>4 DEF CallTemporary
    <2>1. /\ t.hash = walk[m].hash
          /\ handlers' = Removed(t)
          /\ IF Resolves(t) THEN Gets(t.hash) ELSE UNCHANGED <<fetch, results>>
          /\ walk' = [walk EXCEPT ![m].next = @ + 1]
          /\ UNCHANGED batch
        BY <1>4 DEF CallTemporary
    <2>2. walk' \in [Arrival -> Walk] /\ t \in Handler /\ t.hash \in Hash
        BY <2>0, <2>1, WalkTypes
    <2>3. handlers' \in Seq(Handler)
        <3>1. walk[m].next \in 1..Len(handlers)
            BY <2>0 DEF Walks
        <3>2. i \in 1..Len(handlers)
            BY <3>1
        <3>3. handlers' = SubSeq(handlers, 1, i - 1) \o SubSeq(handlers, i + 1, Len(handlers))
            BY <2>1 DEF Removed, RemoveAt
        <3>4. handlers \in Seq(Handler)
            BY DEF TypeOK
        <3> HIDE DEF i, Handler
        <3>5. SubSeq(handlers, 1, i - 1) \in Seq(Handler)
            BY <3>2, <3>4
        <3>6. SubSeq(handlers, i + 1, Len(handlers)) \in Seq(Handler)
            BY <3>2, <3>4
        <3> QED
            BY SMTT(30), <3>3, <3>5, <3>6
    <2> HIDE DEF t
    <2>4. CASE ~ Resolves(t)
        <3>1. UNCHANGED <<fetch, results>>
            BY <2>1, <2>4
        <3>2. EveryHashHasItsFetch'
            BY <2>1, <3>1 DEF EveryHashHasItsFetch, batch
        <3> QED
            BY <2>1, <2>2, <2>3, <3>1, <3>2 DEF TypeOK, batch
    <2>5. CASE Resolves(t)
        <3> DEFINE h == t.hash
        <3>1. /\ fetch[h].at = "gossip" /\ h \in Hash
              /\ fetch' = [fetch EXCEPT ![h].at = "got"] /\ results' = results \cup {h}
            BY <2>1, <2>2, <2>5 DEF Resolves, Gets
        <3> HIDE DEF h
        <3>2. fetch' \in [Hash -> Record]
            BY ZenonT(60), <3>1 DEF TypeOK, Ends
        <3>3. /\ \A g \in Hash : fetch'[g].peer = fetch[g].peer
              /\ EveryHashHasItsFetch'
            BY <2>1, <3>1 DEF TypeOK, EveryHashHasItsFetch, batch, Ends
        <3> QED
            BY <2>1, <2>2, <2>3, <3>1, <3>2, <3>3 DEF TypeOK, batch
    <2> QED
        BY <2>4, <2>5
<1> QED
    BY <1>1, <1>2, <1>3, <1>4

-----------------------------------------------------------------------------
(***************************************************************************)
(* The accounts of the peers, of the hashes and the types hold together.   *)
(***************************************************************************)
FetchInvariant == TypeOK /\ SlotsAreKept /\ EveryHashHasItsFetch

LEMMA FetchInvariantInitially == Init => FetchInvariant
<1> SUFFICES ASSUME Init PROVE FetchInvariant
    OBVIOUS
<1>1. ASSUME NEW p \in Peer PROVE Occupies(p) = {}
    BY DEF Init, Occupies
<1>2. SlotsAreKept
    <2>1. ASSUME NEW p \in Peer
          PROVE  Cardinality(Occupies(p)) = 0 /\ peerInFlightCounts[p] = 0
        BY <1>1, FS_EmptySet DEF Init
    <2> QED
        BY <2>1 DEF SlotsAreKept
<1>3. EveryHashHasItsFetch
    BY DEF Init, EveryHashHasItsFetch, NoFetch
<1> QED
    BY <1>2, <1>3, TypesInitially DEF FetchInvariant

LEMMA FetchInvariantPreserved == FetchInvariant /\ [Next]_vars => FetchInvariant'
<1> SUFFICES ASSUME FetchInvariant, [Next]_vars PROVE FetchInvariant'
    OBVIOUS
<1>0. TypeOK /\ SlotsAreKept /\ EveryHashHasItsFetch
    BY DEF FetchInvariant
<1>1. ASSUME NEW i \in 0..(Len(Peers) - 1), Start(i) PROVE FetchInvariant'
    BY <1>0, <1>1, StartKeepsSlots DEF FetchInvariant
<1>2. CASE Filled
    <2>1. TypeOK'
        BY <1>0, <1>2 DEF Filled, TypeOK, gossip
    <2>2. SlotsAreKept'
        BY <1>0, <1>2 DEF Filled, SlotsAreKept, Occupies
    <2>3. EveryHashHasItsFetch'
        BY <1>0, <1>2 DEF Filled, EveryHashHasItsFetch
    <2> QED
        BY <2>1, <2>2, <2>3 DEF FetchInvariant
<1>3. ASSUME NEW h \in Hash, Race(h) PROVE FetchInvariant'
    BY <1>0, <1>3, RaceKeepsSlots DEF FetchInvariant
<1>4. ASSUME UNCHANGED batch, \A g \in Hash : fetch'[g].peer = fetch[g].peer
      PROVE  SlotsAreKept'
    <2>1. ASSUME NEW p \in Peer PROVE Occupies(p)' = Occupies(p)
        BY <1>0, <1>4 DEF Occupies, TypeOK, batch
    <2> QED
        BY <1>0, <1>4, <2>1 DEF SlotsAreKept, batch
<1>5. ASSUME NEW h \in Hash, FetchStep(h) PROVE FetchInvariant'
    <2>1. TypeOK'
        BY <1>0, <1>5, FetchTypes DEF TypeOK, batch
    <2>2. EveryHashHasItsFetch' /\ SlotsAreKept'
        BY <1>0, <1>4, <1>5, FetchAccounts
    <2> QED
        BY <2>1, <2>2 DEF FetchInvariant
<1>6. ASSUME NEW m \in Arrival,
             CallOther(m) \/ CallTemporary(m) \/ WalkEnds(m) \/ \E h \in Hash : Arrives(m, h)
      PROVE  FetchInvariant'
    BY <1>0, <1>4, <1>6, GossipKeepsAccounts DEF FetchInvariant
<1>7. CASE UNCHANGED vars
    BY <1>0, <1>7 DEF FetchInvariant, TypeOK, SlotsAreKept, Occupies, EveryHashHasItsFetch,
                      vars, batch, gossip
<1>8. CASE Returned
    BY <1>7, <1>8 DEF Returned
<1> QED
    BY <1>1, <1>2, <1>3, <1>5, <1>6, <1>7, <1>8 DEF Next

THEOREM FetchInvariantHolds == Spec => []FetchInvariant
BY FetchInvariantInitially, FetchInvariantPreserved, PTL DEF Spec

(***************************************************************************)
(* Every variable of a fetch keeps its type; no attempt exceeds the limit. *)
(***************************************************************************)
THEOREM FetchTypesHold == Spec => []TypeOK
<1>1. FetchInvariant => TypeOK
    BY DEF FetchInvariant
<1> QED
    BY <1>1, FetchInvariantHolds, PTL

(***************************************************************************)
(* The counter of every peer is the number of fetches that occupy it, and  *)
(* at most MAX_IN_FLIGHT_PER_PEER.                                         *)
(***************************************************************************)
THEOREM PeersAreNotOverloaded == Spec => []SlotsAreKept
<1>1. FetchInvariant => SlotsAreKept
    BY DEF FetchInvariant
<1> QED
    BY <1>1, FetchInvariantHolds, PTL

(***************************************************************************)
(* No hash is forgotten or fetched twice.                                  *)
(***************************************************************************)
THEOREM NoHashIsForgotten == Spec => []EveryHashHasItsFetch
<1>1. FetchInvariant => EveryHashHasItsFetch
    BY DEF FetchInvariant
<1> QED
    BY <1>1, FetchInvariantHolds, PTL
=============================================================================
