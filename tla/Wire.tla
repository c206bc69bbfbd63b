--------------------------------- MODULE Wire ---------------------------------
(***************************************************************************)
(* How a message goes from one node (or thread) to another: an object is   *)
(* encoded by the codec of its class (WireCodec), travels as a sequence of *)
(* numbered items, perhaps written by a later version of the class with a  *)
(* field this one does not know, and is decoded.                           *)
(***************************************************************************)
EXTENDS WireCodec, Integers

CONSTANTS
    Objects,  \* for each class the objects that are sent
    Sites     \* the calls of publish() that are made, of DOMAIN Published

VARIABLES
    phase,  \* "idle", "travels" or "arrived"
    sent,   \* [class, object]: what was given to encode()
    wire,   \* the items between the two nodes
    got     \* what decode() returned

vars == <<phase, sent, wire, got>>

-------------------------------------------------------------------------------
(* What the worker and the node publish: the topic's payload and the object. *)

Typical(type) ==
    CASE type = "uint64" -> Scalar("Long", 7) [] type = "uint32" -> Scalar("Number", 3)
      [] type = "bool" -> Scalar("Boolean", 1) [] type = "string" -> Scalar("String", 1)
      [] type = "bytes" -> Scalar("Bytes", 1)

\* Every field given (of a oneof the first), lists of two.
Fullest[class \in Classes] ==
    LET Some(f) == IF IsScalar(f) THEN Typical(f.type) ELSE Fullest[f.type]
        Chosen == {f \in Schema[class] : class \in OneOfs => f.id = 1}
    IN Object({Property(f.name, IF Repeated(f) THEN <<Some(f), Some(f)>> ELSE <<Some(f)>>) :
               f \in Chosen})

Has(name, value) == Property(name, <<value>>)
Text(name) == Has(name, Scalar("String", 1))
Data(name) == Has(name, Scalar("Bytes", 1))
Digits(name) == Has(name, Scalar("String", 7))  \* a number written with toString()
Num(name) == Has(name, Scalar("Number", 7))
Bit(name, n) == Has(name, Scalar("Boolean", n))
Call(payload, properties) == [payload |-> payload, object |-> Object(properties)]

Published == [
    announcement |-> Call("blockAnnouncement", {Text("hash"), Digits("height")}),
    block |-> [payload |-> "block", object |-> Fullest["Block"]],
    blockRequest |-> Call("blockRequest", {Text("hash")}),
    transaction |-> [payload |-> "transaction", object |-> Fullest["Transaction"]],
    hashesRequest |-> Call("getHashesRequest", {Digits("startHeight"), Text("requestId")}),
    noHashes |-> Call("hashesResponse",
        {Property("hashes", <<>>), Text("requestId"), Bit("finalChunk", 1)}),
    hashes |-> Call("hashesResponse",
        {Property("hashes", <<Scalar("String", 1), Scalar("String", 2)>>), Text("requestId"),
         Bit("finalChunk", 0)}),
    tipRequest |-> Call("syncMessage", {Has("tipRequest", Object({}))}),
    tip |-> Call("syncMessage",
        {Has("tipResponse", Object({Num("height"), Text("totalWork"), Text("tipHash")}))}),
    fundNonce |-> Call("channelFundNonce", {Data("channelId"), Data("publicNoncePoint")}),
    fundSig |-> Call("channelFundSig",
        {Data("channelId"), Data("partialSignature"), Has("fundingTx", Fullest["Transaction"])}),
    closeNonce |-> Call("channelCloseNonce", {Data("channelId"), Data("publicNoncePoint")}),
    closeSig |-> Call("channelCloseSig", {Data("channelId"), Data("partialSignature")}),
    aliceSig |-> Call("swapAliceAdaptorSig", {Data("swapId"), Has("adaptorSig",
        Object({Data("publicNonce"), Data("adaptorPoint"), Data("preSignature"),
                Data("challenge")}))}),
    channelProposal |-> Call("channelPropose",
        {Data("channel_id"), Num("version"), Data("party_a_pubkey"), Num("party_a_funding"),
         Data("party_b_pubkey"), Num("party_b_funding"), Num("dispute_period"),
         Num("min_confirmations"), Num("created_at")}),
    payProposal |-> Call("channelPayPropose",
        {Data("channel_id"), Num("new_sequence"), Num("amount"), Num("new_balance_a"),
         Num("new_balance_b"), Num("timestamp")}),
    payAcceptance |-> Call("channelPayAccept",
        {Data("channel_id"), Num("sequence"), Num("accepted_at")}),
    swapProposal |-> Call("swapPropose",
        {Data("swap_id"), Num("alice_amount"), Num("bob_amount"), Data("secret_hash")}),
    swapResponse |-> Call("swapRespond",
        {Data("swap_id"), Text("bob_btc_address"), Num("bob_timeout_height")})]

Message(site) == Object({Has(Published[site].payload, Published[site].object)})

ASSUME ObjectsAssumption ==
    /\ \A class \in Classes : Objects[class] \subseteq Value
    /\ "P2pMessage" \in Classes /\ \A site \in Sites : Message(site) \in Value

-------------------------------------------------------------------------------
Nothing == [class |-> "P2pMessage", object |-> Object({})]

Init == phase = "idle" /\ sent = Nothing /\ wire = <<>> /\ got = Object({})

Send(class, object) ==
    /\ phase = "idle"
    /\ phase' = "travels"
    /\ sent' = [class |-> class, object |-> object]
    /\ wire' = Codec[class].encode[object]
    /\ UNCHANGED got

\* Any object of any class, between two nodes or between the threads of one.
SendObject == \E class \in Classes : \E object \in Objects[class] : Send(class, object)

\* publish(): the object becomes the payload that the topic stands for.
Publish == \E site \in Sites : Send("P2pMessage", Message(site))

\* The sender has a later version of the class, with one more field.
FieldOfALaterVersion ==
    /\ phase = "travels"
    /\ \A k \in DOMAIN wire : HasField(sent.class, wire[k].id)
    /\ \E k \in 1..(Len(wire) + 1) :
        wire' = InsertAt(wire, k, Item(LastId(sent.class) + 1, <<1>>, <<>>))
    /\ UNCHANGED <<phase, sent, got>>

Receive ==
    /\ phase = "travels"
    /\ phase' = "arrived"
    /\ got' = Codec[sent.class].decode[wire]
    /\ UNCHANGED <<sent, wire>>

Handled ==
    /\ phase = "arrived" /\ phase' = "idle"
    /\ sent' = Nothing /\ wire' = <<>> /\ got' = Object({})

Next == SendObject \/ Publish \/ FieldOfALaterVersion \/ Receive \/ Handled

Spec == Init /\ [][Next]_vars

-------------------------------------------------------------------------------
\* The state is made of classes, objects and items.
TypeOK ==
    /\ phase \in {"idle", "travels", "arrived"}
    /\ sent \in [class : Classes, object : Value]
    /\ wire \in Packet
    /\ got \in Value

Arrived == phase = "arrived"
SentCodec == Codec[sent.class]

\* A message says after decode() what it said before encode(): no field is
\* lost, renumbered, read as another or turned from absent to given.  Objects
\* that verify() refuses, and numbers that are too large for their field, are
\* exempt, for encode() writes them unchecked.
ArrivesAsSent ==
    Arrived /\ SentCodec.verify[sent.object] /\ SentCodec.inRange[sent.object] =>
        SentCodec.same[<<sent.object, got>>]

\* What decode() returns passes verify(), its numbers fit, and it says the
\* same after being encoded and decoded again: a node may send on what it has
\* received (blocks, stem transactions).
CanBeSentOn ==
    Arrived /\ SentCodec.verify[sent.object] =>
        /\ SentCodec.verify[got] /\ SentCodec.inRange[got]
        /\ SentCodec.same[<<got, SentCodec.decode[SentCodec.encode[got]]>>]

\* Of every object that is published or sent, also one verify() would refuse,
\* a property reaches the other side if it is a field of its class: only names
\* the class does not know are lost.
OnlyUnknownNamesAreLost ==
    Arrived /\ SentCodec.regular[sent.object] => SentCodec.conveyed[<<sent.object, got>>]

\* The publishers that hand over an object of the Rust core with the names of
\* its struct (src/worker.js:3106): of these messages only the fields that have
\* one word for a name reach the other side.
RustNamed == {Message(site) : site \in {"channelProposal", "payProposal", "payAcceptance",
                                        "swapProposal", "swapResponse"}}

\* "This file defines the strict, language-agnostic contract for all
\* peer-to-peer messages" (src/src/p2p.proto:5): what any of the publishers puts
\* into a message reaches the other side, but for the names in RustNamed that
\* no class has.
OnlyRustNamesAreLost ==
    /\ OnlyUnknownNamesAreLost
    /\ Arrived /\ sent.object \notin RustNamed => SentCodec.reaches[<<sent.object, got>>]
===============================================================================
