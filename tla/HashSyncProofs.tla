--------------------------- MODULE HashSyncProofs ---------------------------
(***************************************************************************)
(* Proofs about HashSync: its types, the entries of the requests, whose    *)
(* answers they take, and what a completed call has.                       *)
(***************************************************************************)
EXTENDS HashSync, SequenceTheorems, TLAPS

(***************************************************************************)
(* The plain part of the assumption.                                       *)
(***************************************************************************)
LEMMA ConstantTypes ==
    /\ Start \in Block /\ PeerTips \subseteq Block /\ TheirStart \subseteq PeerTips
    /\ Heard \subseteq Block /\ Height \in [Block -> Nat]
    /\ MaxMoves \in Nat /\ HASH_CHUNK_SIZE \in Nat \ {0} /\ BATCH_SIZE \in Nat \ {0}
    /\ \A b \in Block : Branch[b] \in [0..Height[b] -> Block]
BY HashSyncAssumption

USE ConstantTypes

-----------------------------------------------------------------------------
(* Types *)

(***************************************************************************)
(* The chunks of a list are typed lists of its elements.                   *)
(***************************************************************************)
LEMMA ChunksAreTyped ==
    ASSUME NEW q \in Peer, NEW p \in Peer, NEW s \in Seq(Block), NEW m \in Chunks(q, p, s)
    PROVE  /\ m \in [from : Peer, for : Peer, part : Nat \ {0},
                     hashes : Seq(Block), finalChunk : BOOLEAN]
           /\ m.from = q /\ m.for = p
           /\ ToSet(m.hashes) \subseteq ToSet(s)
<1>1. CASE s = <<>>
    <2>1. m = [from |-> q, for |-> p, part |-> 1, hashes |-> <<>>, finalChunk |-> TRUE]
        BY <1>1 DEF Chunks
    <2>2. <<>> \in Seq(Block) /\ 1 \in Nat \ {0} /\ ToSet(<<>>) = {}
        BY DEF ToSet
    <2> QED
        BY <2>1, <2>2
<1>2. CASE s # <<>>
    <2>1. PICK i \in {j \in 1..Len(s) : (j - 1) % HASH_CHUNK_SIZE = 0} :
             m = [from |-> q, for |-> p, part |-> i,
                  hashes |-> SubSeq(s, i, Least(i + HASH_CHUNK_SIZE - 1, Len(s))),
                  finalChunk |-> i + HASH_CHUNK_SIZE > Len(s)]
        BY <1>2 DEF Chunks
    <2>2. i \in Nat \ {0} /\ Len(s) \in Nat
        OBVIOUS
    <2>3. Least(i + HASH_CHUNK_SIZE - 1, Len(s)) \in 0..Len(s)
        BY <2>2 DEF Least
    <2>4. \A k \in i..Least(i + HASH_CHUNK_SIZE - 1, Len(s)) : s[k] \in Block
        BY <2>2, <2>3
    <2>5. SubSeq(s, i, Least(i + HASH_CHUNK_SIZE - 1, Len(s))) \in Seq(Block)
        BY <2>2, <2>3, <2>4, SubSeqProperties
    <2>6. ToSet(SubSeq(s, i, Least(i + HASH_CHUNK_SIZE - 1, Len(s)))) \subseteq ToSet(s)
        <3> DEFINE l == Least(i + HASH_CHUNK_SIZE - 1, Len(s))
        <3>1. l \in 0..Len(s)
            BY <2>3
        <3> HIDE DEF l
        <3>2. Len(SubSeq(s, i, l)) = (IF i <= l THEN l - i + 1 ELSE 0)
            BY <2>2, <2>4, <3>1, SubSeqProperties DEF l
        <3>3. \A k \in 1..Len(SubSeq(s, i, l)) : SubSeq(s, i, l)[k] = s[i + k - 1]
            BY <2>2, <2>4, <3>1, SubSeqProperties DEF l
        <3>4. \A k \in 1..Len(SubSeq(s, i, l)) : i + k - 1 \in 1..Len(s)
            BY <2>2, <3>1, <3>2
        <3>5. ToSet(SubSeq(s, i, l)) \subseteq ToSet(s)
            <4> DEFINE c == SubSeq(s, i, l)
            <4>1. DOMAIN c = 1..Len(c) /\ DOMAIN s = 1..Len(s)
                BY <2>2, <2>4, <3>1, SubSeqProperties DEF l
            <4>2. \A k \in 1..Len(c) : \E n \in 1..Len(s) : c[k] = s[n]
                BY <3>3, <3>4
            <4> HIDE DEF c
            <4> QED
                BY <4>1, <4>2 DEF ToSet, c
        <3> QED
            BY <3>5 DEF l
    <2> QED
        BY <2>1, <2>2, <2>5, <2>6
<1> QED
    BY <1>1, <1>2

LEMMA JoinedElements ==
    ASSUME NEW a \in Seq(Block), NEW b \in Seq(Block)
    PROVE  ToSet(a \o b) \subseteq ToSet(a) \cup ToSet(b)
<1> DEFINE c == a \o b
<1>1. /\ DOMAIN c = 1..(Len(a) + Len(b))
      /\ DOMAIN a = 1..Len(a) /\ DOMAIN b = 1..Len(b)
      /\ Len(a) \in Nat /\ Len(b) \in Nat
    BY ConcatProperties
<1>2. \A k \in DOMAIN c : \/ \E n \in DOMAIN a : c[k] = a[n]
                         \/ \E n \in DOMAIN b : c[k] = b[n]
    <2> SUFFICES ASSUME NEW k \in 1..(Len(a) + Len(b))
                 PROVE  \/ \E n \in 1..Len(a) : c[k] = a[n]
                        \/ \E n \in 1..Len(b) : c[k] = b[n]
        BY <1>1
    <2>1. c[k] = IF k <= Len(a) THEN a[k] ELSE b[k - Len(a)]
        BY ConcatProperties
    <2>2. CASE k <= Len(a)
        BY <1>1, <2>1, <2>2
    <2>3. CASE ~(k <= Len(a))
        <3>1. k - Len(a) \in 1..Len(b)
            BY <1>1, <2>3
        <3> QED
            BY <2>1, <2>3, <3>1
    <2> QED
        BY <2>2, <2>3
<1> HIDE DEF c
<1>3. ToSet(c) \subseteq ToSet(a) \cup ToSet(b)
    BY <1>2 DEF ToSet
<1> QED
    BY <1>3 DEF c

LEMMA OverIsServed == Idle \in Served /\ [Idle EXCEPT !.st = "over"] \in Served
<1>1. <<>> \in Seq(Block) /\ 0 \in Nat
    OBVIOUS
<1> QED
    BY <1>1 DEF Idle, Served

LEMMA TypesInitially == Init => TypeOK
<1> SUFFICES ASSUME Init PROVE TypeOK
    OBVIOUS
<1>1. stored \subseteq Block
    BY DEF Init
<1>2. collected \in [Peer -> Seq(Block)]
    BY DEF Init
<1>3. serving \in [Peer -> [Peer -> Served]]
    BY OverIsServed DEF Init
<1> QED
    BY <1>1, <1>2, <1>3 DEF Init, TypeOK

LEMMA TypesOfRequests ==
    ASSUME TypeOK, NEW p \in Peer, Ask(p) \/ AskFails(p) \/ TimesOut(p)
    PROVE  TypeOK'
<1>1. CASE Ask(p)
    BY <1>1 DEF Ask, TypeOK, peers, chain, position
<1>2. CASE AskFails(p)
    BY <1>2 DEF AskFails, TypeOK, net, peers, chain, position
<1>3. CASE TimesOut(p)
    BY <1>3 DEF TimesOut, TypeOK, net, peers, chain, position
<1> QED
    BY <1>1, <1>2, <1>3

LEMMA TypesOfPeers ==
    ASSUME TypeOK, NEW q \in Peer, NEW p \in Peer,
           Hears(q, p) \/ Reads(q, p) \/ Answers(q, p)
    PROVE  TypeOK'
<1>1. CASE Hears(q, p)
    <2> DEFINE asked == [st |-> "reading", at |-> Height[Start] + 1,
                         last |-> Height[theirs[q]], read |-> <<>>]
    <2>1. asked \in Served
        <3>1. theirs[q] \in Block
            BY DEF TypeOK
        <3>2. Height[Start] + 1 \in Nat /\ Height[theirs[q]] \in Nat /\ <<>> \in Seq(Block)
            BY <3>1
        <3> QED
            BY <3>2 DEF Served
    <2>2. serving' \in [Peer -> [Peer -> Served]]
        <3>1. serving' = serving \/ serving' = [serving EXCEPT ![q][p] = asked]
            BY <1>1 DEF Hears
        <3> HIDE DEF asked
        <3>2. serving \in [Peer -> [Peer -> Served]]
            BY DEF TypeOK
        <3>3. [serving EXCEPT ![q][p] = asked] \in [Peer -> [Peer -> Served]]
            BY <2>1, <3>2
        <3> QED
            BY <3>1, <3>2, <3>3
    <2> QED
        BY <1>1, <2>2 DEF Hears, TypeOK, chain, position
<1>2. CASE Reads(q, p)
    <2> DEFINE s == serving[q][p]
               more == [s EXCEPT !.at = @ + 1, !.read = Append(@, Branch[theirs[q]][s.at])]
               over == [Idle EXCEPT !.st = "over"]
    <2>1. s \in Served /\ theirs[q] \in Block
        BY DEF TypeOK
    <2> USE DEF Served
    <2>2. ASSUME s.at <= Height[theirs[q]]
          PROVE  more \in Served
        <3>1. s.at \in 0..Height[theirs[q]]
            BY <2>1, <2>2
        <3>2. Branch[theirs[q]][s.at] \in Block
            BY <2>1, <3>1
        <3>3. Append(s.read, Branch[theirs[q]][s.at]) \in Seq(Block) /\ s.at + 1 \in Nat
            BY <2>1, <3>2
        <3> QED
            BY <2>1, <3>3
    <2>3. over \in Served
        BY OverIsServed
    <2>4. serving' = [serving EXCEPT ![q][p] =
                         IF s.at <= Height[theirs[q]] THEN more ELSE over]
        BY <1>2 DEF Reads
    <2>5. (IF s.at <= Height[theirs[q]] THEN more ELSE over) \in Served
        BY <2>2, <2>3
    <2>6. serving' \in [Peer -> [Peer -> Served]]
        <3> HIDE DEF more, over, s
        <3> QED
            BY <2>4, <2>5 DEF TypeOK
    <2> QED
        BY <1>2, <2>6 DEF Reads, TypeOK, net, chain, position
<1>3. CASE Answers(q, p)
    <2>1. serving[q][p].read \in Seq(Block)
        BY DEF TypeOK, Served
    <2>2. \A m \in chunks' : m \in [from : Peer, for : Peer, part : Nat \ {0},
                                   hashes : Seq(Block), finalChunk : BOOLEAN]
        <3>1. chunks' = chunks \cup Chunks(q, p, serving[q][p].read)
            BY <1>3 DEF Answers
        <3>2. \A m \in chunks : m \in [from : Peer, for : Peer, part : Nat \ {0},
                                       hashes : Seq(Block), finalChunk : BOOLEAN]
            BY DEF TypeOK
        <3>3. \A m \in Chunks(q, p, serving[q][p].read) :
                 m \in [from : Peer, for : Peer, part : Nat \ {0},
                        hashes : Seq(Block), finalChunk : BOOLEAN]
            BY <2>1, ChunksAreTyped
        <3> QED
            BY <3>1, <3>2, <3>3, Zenon
    <2>3. serving' \in [Peer -> [Peer -> Served]]
        <3> DEFINE over == [serving[q][p] EXCEPT !.st = "over"]
        <3>1. serving' = [serving EXCEPT ![q][p] = over]
            BY <1>3 DEF Answers, TypeOK
        <3>2. over \in Served
            <4>1. serving[q][p] \in Served
                BY DEF TypeOK
            <4> QED
                BY <4>1 DEF Served
        <3> HIDE DEF over
        <3> QED
            BY <3>1, <3>2 DEF TypeOK
    <2> QED
        BY <1>3, <2>2, <2>3 DEF Answers, TypeOK, chain, position
<1> QED
    BY <1>1, <1>2, <1>3

LEMMA TypesOfMoves ==
    ASSUME TypeOK, (\E q \in Peer, b \in PeerTips : PeerMoves(q, b)) \/ (\E b \in Block : TipMoves(b))
    PROVE  TypeOK'
<1>1. ASSUME NEW q \in Peer, NEW b \in PeerTips, PeerMoves(q, b)
      PROVE  TypeOK'
    <2>1. theirs' \in [Peer -> PeerTips] /\ moves' \in 0..MaxMoves
        BY <1>1 DEF PeerMoves, TypeOK
    <2> QED
        BY <1>1, <2>1 DEF PeerMoves, TypeOK, net, chain, position
<1>2. ASSUME NEW b \in Block, TipMoves(b)
      PROVE  TypeOK'
    BY <1>2 DEF TipMoves, TypeOK, net, peers, position
<1> QED
    BY <1>1, <1>2

LEMMA TypesOfChunks ==
    ASSUME TypeOK, NEW m \in chunks, Overflows(m) \/ Collects(m)
    PROVE  TypeOK'
<1>1. m.for \in Peer /\ m.hashes \in Seq(Block)
    BY DEF TypeOK
<1>2. CASE Overflows(m)
    BY <1>1, <1>2 DEF Overflows, TypeOK, peers, chain, position
<1>3. CASE Collects(m)
    <2>1. collected[m.for] \o m.hashes \in Seq(Block)
        BY <1>1 DEF TypeOK
    <2>2. collected' \in [Peer -> Seq(Block)]
        BY <1>1, <1>3, <2>1 DEF Collects, Pushed, TypeOK
    <2> QED
        BY <1>1, <1>3, <2>2 DEF Collects, TypeOK, peers, chain, position
<1> QED
    BY <1>2, <1>3

LEMMA AfterBlockIsAPhase == AfterBlock \in {"fetching", "ingesting"}
    BY DEF AfterBlock

LEMMA TypesOfSync ==
    ASSUME TypeOK, Step
    PROVE  TypeOK'
<1>1. CASE Compare
    <2>1. list' \in Seq(Block)
        BY <1>1 DEF Compare, Answered, TypeOK
    <2>2. phase' \in {"fetching", "nothing", "failed"}
        BY <1>1 DEF Compare
    <2> QED
        BY <1>1, <2>1, <2>2 DEF Compare, TypeOK, net, peers, chain
<1>2. ASSUME phase = "ingesting", next <= Len(list)
      PROVE  Current \in Block /\ next + 1 \in Nat \ {0}
    BY <1>2 DEF TypeOK, Current
<1>3. CASE BlockFails \/ Complete
    BY <1>3 DEF BlockFails, Complete, Aside, TypeOK, net, peers, chain
<1>7. CASE AlreadyHave
    BY <1>2, <1>7, AfterBlockIsAPhase DEF AlreadyHave, Aside, TypeOK, net, peers, chain
<1>4. CASE Extends
    BY <1>2, <1>4, AfterBlockIsAPhase DEF Extends, Turn, Aside, TypeOK, net, peers
<1>5. CASE Forks
    BY <1>2, <1>5 DEF Forks, Turn, Aside, TypeOK, net, peers
<1>6. CASE ParentMissing
    BY <1>2, <1>6 DEF ParentMissing, Turn, Aside, TypeOK, net, peers
<1> QED
    BY <1>1, <1>3, <1>4, <1>5, <1>6, <1>7 DEF Step

LEMMA TypesAreKept == TypeOK /\ [Next]_vars => TypeOK'
<1> SUFFICES ASSUME TypeOK, [Next]_vars PROVE TypeOK'
    OBVIOUS
<1>1. CASE UNCHANGED vars
    BY <1>1 DEF vars, TypeOK, net, peers, chain, position
<1>2. CASE Next
    <2>1. CASE BatchIsFetched
        BY <2>1 DEF BatchIsFetched, Aside, TypeOK, net, peers, chain
    <2> QED
        BY <1>2, <2>1, TypesOfRequests, TypesOfPeers, TypesOfMoves, TypesOfChunks, TypesOfSync,
           Zenon DEF Next
<1> QED
    BY <1>1, <1>2

(***************************************************************************)
(* The types hold for every tree, list of peers and chunk size.            *)
(***************************************************************************)
THEOREM HashTypesHold == Spec => []TypeOK
    BY TypesInitially, TypesAreKept, PTL DEF Spec
-----------------------------------------------------------------------------
(* Requests and answers *)

(***************************************************************************)
(* A request in flight has not been heard yet, nor has one not made.       *)
(***************************************************************************)
HeardOnce ==
    \A q, p \in Peer :
        /\ [to |-> q, for |-> p] \in asks \/ request[p] = "new" => serving[q][p].st = "idle"
        /\ [to |-> q, for |-> p] \in asks => request[p] # "new"

(***************************************************************************)
(* A chunk is said at the end of an answer and is part of it.              *)
(***************************************************************************)
SaidAtTheEnd ==
    \A m \in chunks : /\ serving[m.from][m.for].st = "over"
                      /\ ToSet(m.hashes) \subseteq ToSet(serving[m.from][m.for].read)

(***************************************************************************)
(* What has been collected comes from the chunks of the peer asked.        *)
(***************************************************************************)
Own ==
    \A p \in Peer : collected[p] # <<>> =>
        /\ serving[p][p].st = "over"
        /\ ToSet(collected[p]) \subseteq ToSet(serving[p][p].read)

GotIsOver == \A p \in Peer : request[p] = "got" => serving[p][p].st = "over"

Exchange == HeardOnce /\ SaidAtTheEnd /\ Own /\ GotIsOver /\ WaitingRequestsHaveEntries

Answering == TypeOK /\ Exchange

LEMMA AnsweringInitially == Init => Answering
<1> SUFFICES ASSUME Init PROVE Answering
    OBVIOUS
<1>1. TypeOK
    BY TypesInitially
<1>2. Idle.st = "idle"
    BY DEF Idle
<1> QED
    BY <1>1, <1>2 DEF Init, Answering, Exchange, HeardOnce, SaidAtTheEnd, Own, GotIsOver,
                      WaitingRequestsHaveEntries

LEMMA RequestsAnswering ==
    ASSUME Answering, NEW p \in Peer, Ask(p) \/ AskFails(p) \/ TimesOut(p)
    PROVE  Exchange'
<1> USE DEF Answering, Exchange
<1>1. UNCHANGED <<serving, chunks, collected>>
    BY DEF Ask, AskFails, TimesOut, net, peers
<1>2. SaidAtTheEnd' /\ Own'
    BY <1>1 DEF SaidAtTheEnd, Own
<1>3. \E r \in {"open", "failed"} : request' = [request EXCEPT ![p] = r]
    BY DEF Ask, AskFails, TimesOut
<1>4. GotIsOver'
    BY <1>1, <1>3 DEF GotIsOver, TypeOK
<1>5. WaitingRequestsHaveEntries'
    BY DEF Ask, AskFails, TimesOut, WaitingRequestsHaveEntries, TypeOK
<1>6. HeardOnce'
    <2>1. CASE Ask(p)
        <3>1. request' = [request EXCEPT ![p] = "open"] /\ request[p] = "new"
              /\ asks' = asks \cup {[to |-> q, for |-> p] : q \in Peer}
            BY <2>1 DEF Ask
        <3> SUFFICES ASSUME NEW r \in Peer, NEW o \in Peer
                     PROVE  /\ [to |-> r, for |-> o] \in asks' \/ request'[o] = "new"
                                 => serving[r][o].st = "idle"
                            /\ [to |-> r, for |-> o] \in asks' => request'[o] # "new"
            BY <1>1 DEF HeardOnce
        <3>2. [to |-> r, for |-> o] \in asks' => o = p \/ [to |-> r, for |-> o] \in asks
            BY <3>1
        <3> QED
            BY <3>1, <3>2 DEF HeardOnce, TypeOK
    <2>2. CASE AskFails(p) \/ TimesOut(p)
        BY <1>1, <2>2 DEF AskFails, TimesOut, HeardOnce, TypeOK, net
    <2> QED
        BY <2>1, <2>2
<1> QED
    BY <1>2, <1>4, <1>5, <1>6

(***************************************************************************)
(* A peer that answers changes its place in one answer, which is not over. *)
(***************************************************************************)
LEMMA PeersAnswering ==
    ASSUME Answering, NEW q \in Peer, NEW p \in Peer,
           Hears(q, p) \/ Reads(q, p) \/ Answers(q, p)
    PROVE  Exchange'
<1> USE DEF Answering, Exchange
<1>1. UNCHANGED <<request, entries, collected>> /\ WaitingRequestsHaveEntries'
    BY DEF Hears, Reads, Answers, WaitingRequestsHaveEntries
<1>2. \A r, o \in Peer : r # q \/ o # p => serving'[r][o] = serving[r][o]
    BY DEF Hears, Reads, Answers, TypeOK
<1>3. asks' \subseteq asks /\ (Hears(q, p) => [to |-> q, for |-> p] \notin asks')
    BY DEF Hears, Reads, Answers, net
<1>4. serving[q][p].st = "idle" \/ serving[q][p].st = "reading"
    <2>1. CASE Hears(q, p)
        BY <2>1 DEF Hears, HeardOnce
    <2>2. CASE Reads(q, p) \/ Answers(q, p)
        BY <2>2 DEF Reads, Answers
    <2> QED
        BY <2>1, <2>2
<1>5. ASSUME serving'[q][p] # serving[q][p]
      PROVE  [to |-> q, for |-> p] \notin asks' /\ request[p] # "new"
    <2>1. CASE Hears(q, p)
        <3>1. request[p] # "new"
            BY <2>1 DEF Hears, HeardOnce
        <3> QED
            BY <1>3, <2>1, <3>1
    <2>2. CASE Reads(q, p) \/ Answers(q, p)
        <3>1. serving[q][p].st = "reading"
            BY <2>2 DEF Reads, Answers
        <3> QED
            BY <1>3, <3>1 DEF HeardOnce
    <2> QED
        BY <2>1, <2>2
<1>6. HeardOnce'
    <2> SUFFICES ASSUME NEW r \in Peer, NEW o \in Peer
                 PROVE  /\ [to |-> r, for |-> o] \in asks' \/ request'[o] = "new"
                             => serving'[r][o].st = "idle"
                        /\ [to |-> r, for |-> o] \in asks' => request'[o] # "new"
        BY DEF HeardOnce
    <2>1. request' = request
        BY <1>1
    <2>2. [to |-> r, for |-> o] \in asks' => [to |-> r, for |-> o] \in asks
        BY <1>3
    <2>3. CASE serving'[r][o] = serving[r][o]
        BY <2>1, <2>2, <2>3 DEF HeardOnce
    <2>4. CASE serving'[r][o] # serving[r][o]
        <3>1. r = q /\ o = p
            BY <1>2, <2>4
        <3> QED
            BY <1>5, <2>1, <2>4, <3>1
    <2> QED
        BY <2>3, <2>4
<1>7. \A m \in chunks : m.from \in Peer /\ m.for \in Peer /\ (m.from # q \/ m.for # p)
    BY <1>4 DEF SaidAtTheEnd, TypeOK
<1>8. SaidAtTheEnd'
    <2>1. CASE Hears(q, p) \/ Reads(q, p)
        <3>1. chunks' = chunks
            BY <2>1 DEF Hears, Reads, net
        <3> QED
            BY <1>2, <1>7, <3>1 DEF SaidAtTheEnd
    <2>2. CASE Answers(q, p)
        <3>1. chunks' = chunks \cup Chunks(q, p, serving[q][p].read)
            BY <2>2 DEF Answers
        <3>2. serving[q][p].read \in Seq(Block) /\ serving[q][p] \in Served
            BY DEF TypeOK, Served
        <3>3. \A m \in Chunks(q, p, serving[q][p].read) :
                 m.from = q /\ m.for = p /\ ToSet(m.hashes) \subseteq ToSet(serving[q][p].read)
            BY <3>2, ChunksAreTyped
        <3>4. serving'[q][p] = [serving[q][p] EXCEPT !.st = "over"]
            BY <2>2 DEF Answers, TypeOK
        <3>5. serving'[q][p].st = "over" /\ serving'[q][p].read = serving[q][p].read
            BY <3>2, <3>4 DEF Served
        <3>6. \A m \in chunks : serving'[m.from][m.for] = serving[m.from][m.for]
            BY <1>2, <1>7
        <3>7. ASSUME NEW m \in chunks'
              PROVE  /\ serving'[m.from][m.for].st = "over"
                     /\ ToSet(m.hashes) \subseteq ToSet(serving'[m.from][m.for].read)
            BY <3>1, <3>3, <3>5, <3>6, <3>7 DEF SaidAtTheEnd
        <3> QED
            BY <3>7 DEF SaidAtTheEnd
    <2> QED
        BY <2>1, <2>2
<1>9. GotIsOver' /\ Own'
    BY <1>1, <1>2, <1>4 DEF GotIsOver, Own
<1> QED
    BY <1>1, <1>6, <1>8, <1>9

LEMMA ChunksAnswering ==
    ASSUME Answering, NEW m \in chunks, Overflows(m) \/ Collects(m)
    PROVE  Exchange'
<1> USE DEF Answering, Exchange
<1>1. m.for \in Peer /\ m.from = m.for /\ m.for \in entries
    BY DEF Overflows, Collects, Expected, TypeOK
<1>2. /\ serving[m.for][m.for].st = "over"
      /\ ToSet(m.hashes) \subseteq ToSet(serving[m.for][m.for].read)
    BY <1>1 DEF SaidAtTheEnd
<1>3. UNCHANGED <<asks, serving>> /\ chunks' = chunks \ {m}
    BY DEF Overflows, Collects, peers
<1>4. request[m.for] # "new"
    BY <1>1, <1>2 DEF HeardOnce
<1>5. \/ UNCHANGED <<request, entries>>
      \/ /\ entries' = entries \ {m.for}
         /\ \/ request' = [request EXCEPT ![m.for] = "failed"]
            \/ request' = [request EXCEPT ![m.for] = "got"]
    BY DEF Overflows, Collects
<1>6. HeardOnce'
    BY <1>1, <1>3, <1>5 DEF HeardOnce, TypeOK
<1>7. SaidAtTheEnd'
    BY <1>3 DEF SaidAtTheEnd
<1>8. GotIsOver'
    BY <1>1, <1>2, <1>3, <1>5 DEF GotIsOver, TypeOK
<1>9. WaitingRequestsHaveEntries'
    BY <1>1, <1>5 DEF WaitingRequestsHaveEntries, TypeOK
<1>10. Own'
    <2>1. CASE Overflows(m)
        BY <1>3, <2>1 DEF Overflows, Own
    <2>2. CASE Collects(m)
        <3>1. /\ collected[m.for] \in Seq(Block) /\ m.hashes \in Seq(Block)
              /\ collected' = [collected EXCEPT ![m.for] = collected[m.for] \o m.hashes]
            BY <1>1, <2>2 DEF Collects, Pushed, TypeOK
        <3>2. ToSet(collected[m.for]) \subseteq ToSet(serving[m.for][m.for].read)
            <4>1. CASE collected[m.for] = <<>>
                BY <4>1 DEF ToSet
            <4>2. CASE collected[m.for] # <<>>
                BY <1>1, <4>2 DEF Own
            <4> QED
                BY <4>1, <4>2
        <3>3. ToSet(collected[m.for] \o m.hashes)
                 \subseteq ToSet(collected[m.for]) \cup ToSet(m.hashes)
            BY <3>1, JoinedElements
        <3>4. /\ ToSet(collected'[m.for]) \subseteq ToSet(serving[m.for][m.for].read)
              /\ \A p \in Peer : p # m.for => collected'[p] = collected[p]
            BY <1>1, <1>2, <3>1, <3>2, <3>3 DEF TypeOK
        <3> QED
            BY <1>2, <1>3, <3>4 DEF Own
    <2> QED
        BY <2>1, <2>2
<1> QED
    BY <1>6, <1>7, <1>8, <1>9, <1>10

(***************************************************************************)
(* The other steps leave the requests and their answers alone.             *)
(***************************************************************************)
LEMMA RestAnswering ==
    ASSUME Answering, UNCHANGED <<request, entries, collected, net, serving>>
    PROVE  Exchange'
<1>1. UNCHANGED <<asks, chunks>>
    BY DEF net
<1>2. HeardOnce' /\ SaidAtTheEnd'
    BY <1>1 DEF Answering, Exchange, HeardOnce, SaidAtTheEnd
<1>3. GotIsOver' /\ WaitingRequestsHaveEntries'
    BY DEF Answering, Exchange, GotIsOver, WaitingRequestsHaveEntries
<1>4. Own'
    BY DEF Answering, Exchange, Own
<1> QED
    BY <1>2, <1>3, <1>4 DEF Exchange

LEMMA AnsweringIsKept == Answering /\ [Next]_vars => Answering'
<1> SUFFICES ASSUME Answering, [Next]_vars PROVE Answering'
    OBVIOUS
<1>1. TypeOK'
    BY TypesAreKept DEF Answering
<1> SUFFICES Exchange'
    BY <1>1 DEF Answering
<1>2. CASE \E q \in Peer, b \in PeerTips : PeerMoves(q, b)
    BY <1>2, RestAnswering DEF PeerMoves
<1>3. CASE \E b \in Block : TipMoves(b)
    BY <1>3, RestAnswering DEF TipMoves, peers
<1>4. CASE Step \/ BatchIsFetched
    <2>1. UNCHANGED <<request, entries, collected, net, peers>>
        BY <1>4 DEF Step, Compare, BatchIsFetched, BlockFails, AlreadyHave, Extends, Forks,
                    ParentMissing, Complete, Aside
    <2> QED
        BY <2>1, RestAnswering DEF peers
<1>5. CASE UNCHANGED vars
    BY <1>5, RestAnswering DEF vars, peers
<1> QED
    BY <1>2, <1>3, <1>4, <1>5, RequestsAnswering, PeersAnswering, ChunksAnswering, Zenon DEF Next

(***************************************************************************)
(* A list holds only what the asked peer read, for every number of peers,  *)
(* chunk size and tree.                                                    *)
(***************************************************************************)
THEOREM AnswersAreOwn == Spec => []OnlyTheAskedAnswers
<1>1. Answering => OnlyTheAskedAnswers
    <2> SUFFICES ASSUME Answering, NEW p \in Peer, request[p] = "got"
                 PROVE  /\ serving[p][p].st = "over"
                        /\ ToSet(collected[p]) \subseteq ToSet(serving[p][p].read)
        BY DEF OnlyTheAskedAnswers
    <2>1. serving[p][p].st = "over"
        BY DEF Answering, Exchange, GotIsOver
    <2>2. collected[p] # <<>> \/ ToSet(collected[p]) = {}
        BY DEF ToSet
    <2>3. collected[p] # <<>> => ToSet(collected[p]) \subseteq ToSet(serving[p][p].read)
        BY DEF Answering, Exchange, Own
    <2> QED
        BY <2>1, <2>2, <2>3
<1> QED
    BY <1>1, AnsweringInitially, AnsweringIsKept, PTL DEF Spec

(***************************************************************************)
(* Waiting requests are those with an entry, failed publishes apart.       *)
(***************************************************************************)
THEOREM EntriesAreKept == Spec => []WaitingRequestsHaveEntries
<1>1. Answering => WaitingRequestsHaveEntries
    BY DEF Answering, Exchange
<1> QED
    BY <1>1, AnsweringInitially, AnsweringIsKept, PTL DEF Spec

-----------------------------------------------------------------------------
(* A completed call *)

(***************************************************************************)
(* Nobody was asked for a list whose request could not be published.       *)
(***************************************************************************)
Unasked ==
    \A p \in Peer : request[p] = "failed" /\ p \in entries =>
        \A q \in Peer : [to |-> q, for |-> p] \notin asks /\ serving[q][p].st = "idle"

ChainIsStored == \A h \in 0..Height[tip] : Branch[tip][h] \in stored

(***************************************************************************)
(* The walk along the list: what is behind next is there, and not above    *)
(* the tip.                                                                *)
(***************************************************************************)
Walking ==
    /\ phase = "asking" => next = 1
    /\ phase \in {"fetching", "ingesting", "complete"} =>
          /\ Settled /\ Agree /\ list # <<>>
          /\ \E p \in Answered : list = collected[p]
          /\ \A i \in 1..Len(list) :
                i < next => list[i] \in stored /\ Height[tip] >= Height[list[i]]
    /\ phase = "complete" => next > Len(list)

CaughtUp == Answering /\ Unasked /\ ChainIsStored /\ Walking

LEMMA CaughtUpInitially == Init => CaughtUp
<1> SUFFICES ASSUME Init PROVE CaughtUp
    OBVIOUS
<1>1. Answering
    BY AnsweringInitially
<1>2. ChainIsStored
    BY DEF Init, ChainIsStored
<1>3. Unasked /\ Walking
    BY DEF Init, Unasked, Walking
<1> QED
    BY <1>1, <1>2, <1>3 DEF CaughtUp

-----------------------------------------------------------------------------
LEMMA UnaskedIsKept ==
    ASSUME Answering, Unasked, [Next]_vars
    PROVE  Unasked'
<1> USE DEF Answering, Exchange
<1>1. ASSUME NEW p \in Peer, Ask(p) \/ AskFails(p) \/ TimesOut(p)
      PROVE  Unasked'
    <2> SUFFICES ASSUME NEW o \in Peer, request'[o] = "failed", o \in entries', NEW q \in Peer
                 PROVE  [to |-> q, for |-> o] \notin asks' /\ serving'[q][o].st = "idle"
        BY DEF Unasked
    <2>1. serving' = serving
        BY <1>1 DEF Ask, AskFails, TimesOut, peers
    <2>2. CASE Ask(p)
        <3>1. o # p /\ request[o] = "failed" /\ o \in entries
            BY <2>2 DEF Ask, TypeOK
        <3>2. asks' = asks \cup {[to |-> r, for |-> p] : r \in Peer}
            BY <2>2 DEF Ask
        <3> QED
            BY <2>1, <3>1, <3>2 DEF Unasked
    <2>3. CASE AskFails(p)
        <3>1. asks' = asks /\ request[p] = "new"
            BY <2>3 DEF AskFails, net
        <3>2. o = p \/ (request[o] = "failed" /\ o \in entries)
            BY <2>3 DEF AskFails, TypeOK
        <3> QED
            BY <2>1, <3>1, <3>2 DEF Unasked, HeardOnce
    <2>4. CASE TimesOut(p)
        <3>1. asks' = asks /\ o # p /\ request[o] = "failed" /\ o \in entries
            BY <2>4 DEF TimesOut, net, TypeOK
        <3> QED
            BY <2>1, <3>1 DEF Unasked
    <2> QED
        BY <1>1, <2>2, <2>3, <2>4
<1>2. ASSUME NEW q \in Peer, NEW p \in Peer, Hears(q, p) \/ Reads(q, p) \/ Answers(q, p)
      PROVE  Unasked'
    <2> SUFFICES ASSUME NEW o \in Peer, request'[o] = "failed", o \in entries', NEW r \in Peer
                 PROVE  [to |-> r, for |-> o] \notin asks' /\ serving'[r][o].st = "idle"
        BY DEF Unasked
    <2>1. request' = request /\ entries' = entries /\ asks' \subseteq asks
        BY <1>2 DEF Hears, Reads, Answers, net
    <2>2. o # p
        BY <1>2, <2>1 DEF Hears, Reads, Answers, Unasked
    <2>3. serving'[r][o] = serving[r][o]
        BY SMTT(30), <1>2, <2>2 DEF Hears, Reads, Answers, TypeOK
    <2> QED
        BY <2>1, <2>3 DEF Unasked
<1>3. ASSUME NEW m \in chunks, Overflows(m) \/ Collects(m)
      PROVE  Unasked'
    <2>1. UNCHANGED <<asks, serving>> /\ m.for \in Peer
        BY <1>3 DEF Overflows, Collects, peers, TypeOK
    <2>2. \A o \in Peer : request'[o] = "failed" /\ o \in entries'
                             => request[o] = "failed" /\ o \in entries
        BY <1>3, <2>1 DEF Overflows, Collects, TypeOK
    <2> QED
        BY <2>1, <2>2 DEF Unasked
<1>4. CASE UNCHANGED <<request, entries, net, serving>>
    BY <1>4 DEF Unasked, net
<1>5. CASE (\E q \in Peer, b \in PeerTips : PeerMoves(q, b)) \/ (\E b \in Block : TipMoves(b))
           \/ BatchIsFetched \/ Step \/ UNCHANGED vars
    <2>1. UNCHANGED <<request, entries, net, serving>>
        BY <1>5 DEF PeerMoves, TipMoves, Step, Compare, BatchIsFetched, BlockFails, AlreadyHave, Extends, Forks,
                    ParentMissing, Complete, Aside, vars, peers, net
    <2> QED
        BY <1>4, <2>1
<1> QED
    BY <1>1, <1>2, <1>3, <1>5 DEF Next

(***************************************************************************)
(* The tip only moves to a block whose branch is stored.                   *)
(***************************************************************************)
LEMMA StoredWith ==
    ASSUME NEW b \in Block, BranchIsHere(b), stored' = stored \cup {b}, tip' = b
    PROVE  ChainIsStored'
<1>1. Height[b] \in Nat /\ Branch[b][Height[b]] = b
    BY HashSyncAssumption
<1>2. \A h \in 0..Height[b] : h = Height[b] \/ h \in 0..(Height[b] - 1)
    BY <1>1
<1> QED
    BY <1>1, <1>2 DEF ChainIsStored, BranchIsHere

(***************************************************************************)
(* The branch of a child of the tip is the chain.                          *)
(***************************************************************************)
LEMMA BranchOfAChild ==
    ASSUME TypeOK, ChainIsStored, NEW b \in Block, ExtendsTip(b)
    PROVE  BranchIsHere(b)
<1>1. Prev[b] = tip /\ Height[b] = Height[tip] + 1 /\ Height[tip] \in Nat
    BY DEF ExtendsTip, TypeOK
<1>2. \A h \in 0..Height[tip] : Branch[b][h] = Branch[tip][h]
    BY <1>1, HashSyncAssumption
<1>3. 0..(Height[b] - 1) = 0..Height[tip]
    BY <1>1
<1> QED
    BY <1>2, <1>3, Zenon DEF BranchIsHere, ChainIsStored

LEMMA ChainIsKept ==
    ASSUME TypeOK, ChainIsStored, [Next]_vars
    PROVE  ChainIsStored'
<1>1. CASE UNCHANGED tip /\ stored \subseteq stored'
    BY <1>1 DEF ChainIsStored
<1>2. CASE \E b \in Block : TipMoves(b)
    <2>1. PICK b \in Block : TipMoves(b)
        BY <1>2
    <2>2. BranchIsHere(b)
        BY <2>1, BranchOfAChild DEF TipMoves, ReplacesTip
    <2> QED
        BY <2>1, <2>2, StoredWith DEF TipMoves
<1>3. CASE Extends
    <2>1. Current \in Block /\ ExtendsTip(Current)
        BY <1>3 DEF Extends, Turn, Current, TypeOK
    <2>4. BranchIsHere(Current)
        BY <2>1, BranchOfAChild
    <2>5. tip' = Current /\ stored' = stored \cup {Current}
        BY <1>3 DEF Extends
    <2> QED
        BY <2>1, <2>4, <2>5, StoredWith
<1>4. CASE Forks
    <2>1. Current \in Block /\ stored' = stored \cup {Current}
        BY <1>4 DEF Forks, Turn, Current, TypeOK
    <2>2. UNCHANGED tip \/ (BranchIsHere(Current) /\ tip' = Current)
        BY <1>4 DEF Forks, ReplacesTip
    <2> QED
        BY <1>1, <2>1, <2>2, StoredWith
<1>5. CASE Compare \/ BatchIsFetched \/ BlockFails \/ AlreadyHave \/ Complete \/ ParentMissing
    BY <1>1, <1>5 DEF Compare, BatchIsFetched, BlockFails, AlreadyHave, Complete, ParentMissing, chain
<1>6. CASE UNCHANGED vars
    BY <1>1, <1>6 DEF vars, chain
<1>7. CASE Next
    <2>1. ASSUME NEW p \in Peer, Ask(p) \/ AskFails(p) \/ TimesOut(p)
          PROVE  UNCHANGED chain
        BY <2>1 DEF Ask, AskFails, TimesOut
    <2>2. ASSUME NEW q \in Peer, NEW p \in Peer, Hears(q, p) \/ Reads(q, p) \/ Answers(q, p)
          PROVE  UNCHANGED chain
        BY <2>2 DEF Hears, Reads, Answers
    <2>3. ASSUME NEW q \in Peer, NEW b \in PeerTips, PeerMoves(q, b)
          PROVE  UNCHANGED chain
        BY <2>3 DEF PeerMoves
    <2>4. ASSUME NEW m \in chunks, Overflows(m) \/ Collects(m)
          PROVE  UNCHANGED chain
        BY <2>4 DEF Overflows, Collects
    <2>5. UNCHANGED chain \/ (\E b \in Block : TipMoves(b)) \/ BatchIsFetched \/ Step
        BY <1>7, <2>1, <2>2, <2>3, <2>4, Zenon DEF Next
    <2>6. UNCHANGED chain => UNCHANGED tip /\ stored \subseteq stored'
        BY DEF chain
    <2> QED
        BY <1>1, <1>2, <1>3, <1>4, <1>5, <2>5, <2>6 DEF Step
<1> QED
    BY <1>6, <1>7

(***************************************************************************)
(* Before the requests have ended nothing walks.                           *)
(***************************************************************************)
LEMMA AskingDoesNotWalk ==
    ASSUME Walking, phase = "asking", UNCHANGED <<phase, next>>
    PROVE  Walking'
    BY DEF Walking

(***************************************************************************)
(* Requests that have ended do not change any more.                        *)
(***************************************************************************)
LEMMA SettledStays ==
    ASSUME Walking, Settled, phase # "asking",
           UNCHANGED <<phase, list, next, request, collected>>,
           stored \subseteq stored', Height[tip'] >= Height[tip], TypeOK, TypeOK'
    PROVE  Walking'
<1>1. Settled' = Settled /\ Answered' = Answered /\ (Agree => Agree')
    BY DEF Settled, Answered, Agree
<1>2. CASE phase \in {"fetching", "ingesting", "complete"}
    <2>1. PICK p \in Answered : list = collected[p]
        BY <1>2 DEF Walking
    <2>2. \E q \in Answered' : list' = collected'[q]
        BY <1>1, <2>1
    <2>3. ASSUME NEW i \in 1..Len(list), i < next
          PROVE  list[i] \in stored' /\ Height[tip'] >= Height[list[i]]
        <3>1. list[i] \in stored /\ Height[tip] >= Height[list[i]]
            BY <1>2, <2>3 DEF Walking
        <3>2. Height[tip] \in Nat /\ Height[tip'] \in Nat /\ Height[list[i]] \in Nat
            BY SMTT(30) DEF TypeOK
        <3> QED
            BY <3>1, <3>2
    <2>4. phase = "complete" => next > Len(list)
        BY DEF Walking
    <2> QED
        BY <1>1, <1>2, <2>2, <2>3, <2>4 DEF Walking
<1>3. CASE phase \notin {"fetching", "ingesting", "complete"}
    BY <1>3 DEF Walking
<1> QED
    BY <1>2, <1>3

LEMMA WalkIsKeptByMessages ==
    ASSUME CaughtUp, TypeOK', NEW p \in Peer,
           \/ Ask(p) \/ AskFails(p) \/ TimesOut(p)
           \/ \E q \in Peer : Hears(q, p) \/ Reads(q, p) \/ Answers(q, p)
           \/ \E m \in chunks : Overflows(m) \/ Collects(m)
    PROVE  Walking'
<1> USE DEF CaughtUp, Answering, Exchange
<1>1. UNCHANGED <<phase, next, list, tip, stored>>
    BY DEF Ask, AskFails, TimesOut, Hears, Reads, Answers, Overflows, Collects, chain, position
<1>2. CASE phase = "asking"
    BY <1>1, <1>2, AskingDoesNotWalk
<1>3. CASE phase \in {"fetching", "ingesting", "complete"}
    <2>1. Settled
        BY <1>3 DEF Walking
    <2>2. request[p] # "new" /\ request[p] # "open"
        BY <2>1 DEF Settled
    <2>3. ASSUME NEW m \in chunks
          PROVE  ~Expected(m)
        <3>1. m.for \in Peer /\ m.from \in Peer /\ serving[m.from][m.for].st = "over"
            BY DEF TypeOK, SaidAtTheEnd
        <3>2. ASSUME m.for \in entries
              PROVE  FALSE
            <4>1. request[m.for] = "failed"
                BY <2>1, <3>1, <3>2 DEF Settled, WaitingRequestsHaveEntries
            <4>2. serving[m.from][m.for].st = "idle"
                BY <3>1, <3>2, <4>1 DEF Unasked
            <4> QED
                BY <3>1, <4>2
        <3> QED
            BY <3>2 DEF Expected
    <2>4. FALSE
        BY <1>3, <2>2, <2>3 DEF Ask, AskFails, TimesOut, Hears, Reads, Answers, Asking,
                                Overflows, Collects
    <2> QED
        BY <2>4
<1>4. CASE phase \notin {"asking", "fetching", "ingesting", "complete"}
    BY <1>1, <1>4 DEF Walking
<1> QED
    BY <1>2, <1>3, <1>4

LEMMA WalkIsKeptByMoves ==
    ASSUME CaughtUp, TypeOK',
           \/ \E q \in Peer, b \in PeerTips : PeerMoves(q, b)
           \/ \E b \in Block : TipMoves(b)
    PROVE  Walking'
<1> USE DEF CaughtUp, Answering, Exchange
<1>1. UNCHANGED <<phase, list, next, request, collected>>
    BY DEF PeerMoves, TipMoves, position
<1>2. stored \subseteq stored' /\ Height[tip'] >= Height[tip]
    <2>1. Height[tip] \in Nat
        BY DEF TypeOK
    <2> QED
        BY <2>1 DEF PeerMoves, TipMoves, ExtendsTip, ReplacesTip, chain
<1>3. CASE phase = "asking"
    BY <1>1, <1>3, AskingDoesNotWalk
<1>4. CASE phase \in {"fetching", "ingesting", "complete"}
    <2>1. Settled
        BY <1>4 DEF Walking
    <2> QED
        BY <1>1, <1>2, <1>4, <2>1, SettledStays
<1>5. CASE phase \notin {"asking", "fetching", "ingesting", "complete"}
    BY <1>1, <1>5 DEF Walking
<1> QED
    BY <1>3, <1>4, <1>5

-----------------------------------------------------------------------------
(***************************************************************************)
(* One more block is behind next.                                          *)
(***************************************************************************)
LEMMA OneFurther ==
    ASSUME CaughtUp, TypeOK', Aside, phase = "ingesting", phase' \in {"fetching", "ingesting"},
           next <= Len(list), next' = next + 1, stored \subseteq stored',
           Height[tip'] >= Height[tip], Current \in stored', Height[tip'] >= Height[Current]
    PROVE  Walking'
<1> USE DEF CaughtUp, Answering, Exchange
<1>1. UNCHANGED <<request, collected, list>>
    BY DEF Aside
<1>2. Settled' /\ Agree' /\ list' # <<>> /\ (\E p \in Answered' : list' = collected'[p])
    BY <1>1 DEF Walking, Settled, Answered, Agree
<1>3. ASSUME NEW i \in 1..Len(list), i < next + 1
      PROVE  list[i] \in stored' /\ Height[tip'] >= Height[list[i]]
    <2>1. Height[tip] \in Nat /\ Height[tip'] \in Nat /\ Height[list[i]] \in Nat /\ next \in Nat
        BY SMTT(30) DEF TypeOK
    <2>2. CASE i = next
        BY <2>2 DEF Current
    <2>3. CASE i < next
        <3>1. list[i] \in stored /\ Height[tip] >= Height[list[i]]
            BY <2>3 DEF Walking
        <3> QED
            BY <2>1, <3>1
    <2> QED
        BY <1>3, <2>1, <2>2, <2>3
<1> QED
    BY <1>1, <1>2, <1>3 DEF Walking

LEMMA WalkIsKeptBySync ==
    ASSUME CaughtUp, TypeOK', Step
    PROVE  Walking'
<1> USE DEF CaughtUp, Answering, Exchange
<1>1. CASE Compare
    <2>1. UNCHANGED <<request, collected, next>> /\ next = 1 /\ Settled
        BY <1>1 DEF Compare, Walking
    <2>2. CASE phase' \in {"failed", "nothing"}
        BY <2>2 DEF Walking
    <2>3. CASE phase' \notin {"failed", "nothing"}
        <3>1. PICK p \in Answered : /\ Agree /\ collected[p] # <<>>
                                    /\ phase' = "fetching" /\ list' = collected[p]
            BY <1>1, <2>3 DEF Compare
        <3>2. Settled' /\ Agree' /\ (\E o \in Answered' : list' = collected'[o])
            BY <2>1, <3>1 DEF Settled, Answered, Agree
        <3> QED
            BY <2>1, <3>1, <3>2 DEF Walking
    <2> QED
        BY <2>2, <2>3
<1>2. CASE BlockFails \/ Forks \/ ParentMissing
    BY <1>2 DEF BlockFails, Forks, ParentMissing, Walking
<1>3. CASE Complete
    <2>1. UNCHANGED <<request, collected, list, next, stored, tip>>
        BY <1>3 DEF Complete, Aside, chain
    <2>2. phase = "ingesting" /\ next > Len(list) /\ phase' = "complete"
        BY <1>3 DEF Complete
    <2> QED
        BY <2>1, <2>2 DEF Walking, Settled, Answered, Agree
<1>4. CASE AlreadyHave
    <2>1. Canonical(Current) /\ Current \in Block /\ Height[tip] \in Nat
        BY <1>4 DEF AlreadyHave, Current, TypeOK
    <2>2. Height[Current] \in 0..Height[tip]
        BY <2>1 DEF Canonical
    <2>3. Current \in stored /\ Height[tip] >= Height[Current]
        BY <2>1, <2>2 DEF Canonical, ChainIsStored
    <2>4. /\ Aside /\ phase = "ingesting" /\ phase' \in {"fetching", "ingesting"}
          /\ next <= Len(list)
          /\ next' = next + 1 /\ stored' = stored /\ tip' = tip
        BY <1>4, AfterBlockIsAPhase DEF AlreadyHave, chain
    <2> QED
        BY <2>1, <2>3, <2>4, OneFurther
<1>5. CASE Extends
    <2>1. Current \in Block /\ Height[tip] \in Nat /\ Height[Current] = Height[tip] + 1
        BY <1>5 DEF Extends, Turn, ExtendsTip, Current, TypeOK
    <2>2. /\ Aside /\ phase = "ingesting" /\ phase' \in {"fetching", "ingesting"}
          /\ next <= Len(list)
          /\ next' = next + 1 /\ stored' = stored \cup {Current} /\ tip' = Current
        BY <1>5, AfterBlockIsAPhase DEF Extends, Turn
    <2>3. Height[tip'] >= Height[tip] /\ Height[tip'] >= Height[Current]
        BY <2>1, <2>2
    <2> QED
        BY <2>2, <2>3, OneFurther
<1> QED
    BY <1>1, <1>2, <1>3, <1>4, <1>5 DEF Step

LEMMA CaughtUpIsKept == CaughtUp /\ [Next]_vars => CaughtUp'
<1> SUFFICES ASSUME CaughtUp, [Next]_vars PROVE CaughtUp'
    OBVIOUS
<1>1. Answering' /\ TypeOK' /\ Unasked' /\ ChainIsStored'
    BY AnsweringIsKept, UnaskedIsKept, ChainIsKept DEF CaughtUp, Answering
<1>2. ASSUME UNCHANGED vars
      PROVE  Walking'
    <2>1. UNCHANGED <<phase, request, collected, tip, stored, list, next>>
        BY <1>2 DEF vars, chain, position
    <2>2. (Settled <=> Settled') /\ Answered' = Answered /\ (Agree <=> Agree')
        BY <2>1 DEF Settled, Answered, Agree
    <2> QED
        BY <2>1, <2>2 DEF CaughtUp, Walking
<1>3. ASSUME NEW p \in Peer, Ask(p) \/ AskFails(p) \/ TimesOut(p)
      PROVE  Walking'
    BY <1>1, <1>3, WalkIsKeptByMessages
<1>8. ASSUME NEW q \in Peer, NEW p \in Peer, Hears(q, p) \/ Reads(q, p) \/ Answers(q, p)
      PROVE  Walking'
    BY <1>1, <1>8, WalkIsKeptByMessages
<1>4. ASSUME NEW m \in chunks, Overflows(m) \/ Collects(m)
      PROVE  Walking'
    <2>1. m.for \in Peer
        BY DEF CaughtUp, Answering, TypeOK
    <2> QED
        BY <1>1, <1>4, <2>1, WalkIsKeptByMessages
<1>5. ASSUME (\E q \in Peer, b \in PeerTips : PeerMoves(q, b)) \/ (\E b \in Block : TipMoves(b))
      PROVE  Walking'
    BY <1>1, <1>5, WalkIsKeptByMoves, Zenon
<1>6. ASSUME Step
      PROVE  Walking'
    BY <1>1, <1>6, WalkIsKeptBySync, Zenon
<1>9. ASSUME BatchIsFetched
      PROVE  Walking'
    <2>1. UNCHANGED <<request, collected, tip, stored, list, next>>
          /\ phase = "fetching" /\ phase' = "ingesting"
        BY <1>9 DEF BatchIsFetched, Aside, chain
    <2>2. (Settled <=> Settled') /\ Answered' = Answered /\ (Agree <=> Agree')
        BY <2>1 DEF Settled, Answered, Agree
    <2> QED
        BY <2>1, <2>2 DEF CaughtUp, Walking
<1>7. ASSUME Next
      PROVE  Walking'
    BY <1>3, <1>4, <1>5, <1>6, <1>7, <1>8, <1>9, Zenon DEF Next
<1> QED
    BY <1>1, <1>2, <1>7 DEF CaughtUp

(***************************************************************************)
(* A completed call has caught up with every list it compared, for every   *)
(* tree, number of peers and chunk size.                                   *)
(***************************************************************************)
THEOREM CompletedCallsCatchUp == Spec => []CompleteMeansCaughtUp
<1>1. CaughtUp => CompleteMeansCaughtUp
    <2> SUFFICES ASSUME CaughtUp, phase = "complete", NEW p \in Answered
                 PROVE  /\ Last(collected[p]) \in stored
                        /\ Height[tip] >= Height[Last(collected[p])]
        BY DEF CompleteMeansCaughtUp
    <2>1. PICK f \in Answered : list = collected[f]
        BY DEF CaughtUp, Walking
    <2>2. list # <<>> /\ Agree /\ next > Len(list)
        BY DEF CaughtUp, Walking
    <2>3. Last(collected[f]) = Last(collected[p])
        BY <2>1, <2>2 DEF Agree
    <2>4. list \in Seq(Block) /\ next \in Nat
        BY DEF CaughtUp, Answering, TypeOK
    <2>5. Last(list) = list[Len(list)] /\ Len(list) \in 1..Len(list) /\ Len(list) < next
        BY <2>2, <2>4 DEF Last
    <2>6. list[Len(list)] \in stored /\ Height[tip] >= Height[list[Len(list)]]
        BY <2>5 DEF CaughtUp, Walking
    <2> QED
        BY <2>1, <2>3, <2>5, <2>6
<1> QED
    BY <1>1, CaughtUpInitially, CaughtUpIsKept, PTL DEF Spec
=============================================================================
