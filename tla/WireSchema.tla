------------------------------ MODULE WireSchema ------------------------------
(***************************************************************************)
(* The messages of src/p2p_pb.cjs, the codec generated from src/p2p.proto: *)
(* for each class its fields, with the number under which encode() writes  *)
(* and decode() finds a field, the type of its value, and whether it is    *)
(* repeated or optional.  encode(), decode() and verify() of a class go    *)
(* through exactly these fields (module WireCodec).                        *)
(***************************************************************************)
EXTENDS Naturals

Field(i, name, type) == [id |-> i, name |-> name, type |-> type, label |-> "plain"]
U64(i, name) == Field(i, name, "uint64")
U32(i, name) == Field(i, name, "uint32")
Bool(i, name) == Field(i, name, "bool")
Str(i, name) == Field(i, name, "string")
Bytes(i, name) == Field(i, name, "bytes")
Sub(i, name, class) == Field(i, name, class)
Many(f) == [f EXCEPT !.label = "repeated"]
Opt(f) == [f EXCEPT !.label = "optional"]

-------------------------------------------------------------------------------
VrfProof == {Bytes(1, "gamma"), Bytes(2, "c"), Bytes(3, "s"), Bytes(4, "output")}
VdfProof == {Bytes(1, "y"), Bytes(2, "pi"), Bytes(3, "l"), Bytes(4, "r"), U64(5, "iterations")}
Challenge == {Str(1, "challenge"), Str(2, "from"), Str(3, "difficulty")}
ChallengeResponse == {Str(1, "solution"), Str(2, "nonce"), Str(3, "from")}
DirectBlockRequest == {Str(1, "hash")}
BlockTransferResponse == {Sub(1, "blockData", "Block"), Str(2, "errorReason")}
TransactionInput == {Bytes(1, "commitment"), U64(2, "sourceHeight")}
TransactionOutput == {Bytes(1, "commitment"), Opt(Bytes(3, "ephemeralKey")),
    Opt(Bytes(4, "stealthPayload")), Opt(Bytes(5, "viewTag"))}
TransactionKernel == {Bytes(1, "excess"), Bytes(2, "signature"), U64(3, "fee"),
    U64(4, "minHeight"), U64(5, "timestamp")}
Transaction == {Many(Sub(1, "inputs", "TransactionInput")),
    Many(Sub(2, "outputs", "TransactionOutput")), Many(Sub(3, "kernels", "TransactionKernel")),
    U64(4, "timestamp"), Bytes(5, "aggregatedRangeProof")}
Block == {U64(1, "height"), Str(2, "prevHash"), U64(3, "timestamp"),
    Many(Sub(4, "transactions", "Transaction")), U64(5, "lotteryNonce"),
    Sub(6, "vrfProof", "VrfProof"), Sub(7, "vdfProof", "VdfProof"), Bytes(8, "minerPubkey"),
    Bytes(9, "vrfThreshold"), U64(10, "vdfIterations"), Bytes(11, "txMerkleRoot"),
    U64(12, "totalWork"), Str(13, "hash")}
BlockAnnouncement == {Str(1, "hash"), U64(2, "height")}
BlockRequest == {Str(1, "hash")}
GetHashesRequest == {U64(1, "startHeight"), Str(2, "requestId")}
HashesResponse == {Many(Str(1, "hashes")), Str(2, "requestId"), Bool(3, "finalChunk")}
TipRequest == {}
TipResponse == {Str(1, "tipHash"), U64(2, "height"), Str(3, "totalWork")}
SyncMessage == {Sub(1, "tipRequest", "TipRequest"), Sub(2, "tipResponse", "TipResponse")}
DandelionStem == {Sub(1, "transaction", "Transaction"), U32(2, "hopCount"), U64(3, "timestamp")}
ReorgMarker == {U64(1, "originalTipHeight"), U64(2, "newTipHeight"), Str(3, "newTipHash"),
    Many(Str(4, "blocksToAttach")), Many(U64(5, "blocksToDetachHeights")), U64(6, "timestamp")}
AdaptorSignature == {Bytes(1, "publicNonce"), Bytes(2, "adaptorPoint"),
    Bytes(3, "preSignature"), Bytes(4, "challenge")}
AtomicSwap == {Bytes(1, "swapId"), U64(2, "stateEnum"), U64(3, "aliceAmount"),
    Bytes(4, "alicePubkey"), Bytes(5, "aliceCommitment"),
    Opt(Sub(6, "aliceAdaptorSig", "AdaptorSignature")), U64(7, "aliceTimeoutHeight"),
    U64(8, "bobAmount"), Bytes(9, "bobPubkey"), Str(10, "bobBtcAddress"), Str(11, "bobBtcTxid"),
    U32(12, "bobBtcVout"), Bytes(13, "bobAdaptorSig"), U64(14, "bobTimeoutHeight"),
    Bytes(15, "sharedAdaptorPoint"), Bytes(16, "secretHash"), U64(17, "createdAt"),
    U64(18, "expiresAt"), U64(19, "lastUpdated")}
SwapAliceAdaptorSig == {Bytes(1, "swapId"), Sub(2, "adaptorSig", "AdaptorSignature")}
ChannelProposal == {Bytes(1, "channelId"), U32(2, "version"), Bytes(3, "partyAPubkey"),
    U64(4, "partyAFunding"), Bytes(5, "partyBPubkey"), U64(6, "partyBFunding"),
    U64(7, "disputePeriod"), U64(8, "minConfirmations"), U64(9, "createdAt")}
CommitmentState == {U64(1, "sequenceNumber"), U32(2, "ownerPartyEnum"), U64(3, "ownerBalance"),
    U64(4, "counterpartyBalance"), Sub(5, "commitmentTx", "Transaction"),
    Bytes(6, "ownerBlinding"), Bytes(7, "counterpartyBlinding"),
    Sub(8, "adaptorSignature", "AdaptorSignature"), Bytes(9, "revocationPoint")}
ChannelAcceptance == {Bytes(1, "channelId"), Sub(2, "partyBCommitment", "CommitmentState"),
    Bytes(3, "partyBRevocationPoint"), U64(4, "acceptedAt")}
\* A mutant of ChannelNonce: the field is not named as the publishers name it.
ChannelNonceRenamed == {Bytes(1, "channelId"), Bytes(2, "publicNonce")}
ChannelNonce == {Bytes(1, "channelId"), Bytes(2, "publicNoncePoint")}
ChannelPartialSig == {Bytes(1, "channelId"), Bytes(2, "partialSignature"),
    Sub(3, "fundingTx", "Transaction")}
RevocationData == {U32(1, "partyEnum"), U64(2, "sequenceNumber"), Bytes(3, "revocationSecret"),
    Bytes(4, "revocationPoint"), U64(5, "revokedAt")}
PaymentProposal == {Bytes(1, "channelId"), U64(2, "newSequence"), U64(3, "amount"),
    U32(4, "senderPartyEnum"), U64(5, "newBalanceA"), U64(6, "newBalanceB"),
    Sub(7, "newCommitment", "CommitmentState"), Opt(Sub(8, "oldRevocation", "RevocationData")),
    U64(9, "timestamp")}
PaymentAcceptance == {Bytes(1, "channelId"), U64(2, "sequence"),
    Sub(3, "newCommitment", "CommitmentState"), Opt(Sub(4, "oldRevocation", "RevocationData")),
    U64(5, "acceptedAt")}
GetBlockFiltersRequest == {U64(1, "startHeight"), U64(2, "endHeight"), Str(3, "requestId")}
BlockFilterData == {U64(1, "height"), Bytes(2, "filterEntries")}
BlockFiltersResponse == {Many(Sub(1, "filters", "BlockFilterData")), Str(2, "requestId")}
P2pMessage == {Sub(1, "block", "Block"), Sub(2, "transaction", "Transaction"),
    Sub(3, "blockAnnouncement", "BlockAnnouncement"), Sub(4, "blockRequest", "BlockRequest"),
    Sub(5, "getHashesRequest", "GetHashesRequest"), Sub(6, "hashesResponse", "HashesResponse"),
    Sub(7, "syncMessage", "SyncMessage"), Sub(8, "dandelionStem", "DandelionStem"),
    Sub(9, "swapPropose", "AtomicSwap"), Sub(10, "swapRespond", "AtomicSwap"),
    Sub(11, "swapAliceAdaptorSig", "SwapAliceAdaptorSig"),
    Sub(12, "channelPropose", "ChannelProposal"), Sub(13, "channelAccept", "ChannelAcceptance"),
    Sub(14, "channelFundNonce", "ChannelNonce"), Sub(15, "channelFundSig", "ChannelPartialSig"),
    Sub(16, "channelPayPropose", "PaymentProposal"),
    Sub(17, "channelPayAccept", "PaymentAcceptance"),
    Sub(18, "channelCloseNonce", "ChannelNonce"),
    Sub(19, "channelCloseSig", "ChannelPartialSig"),
    Sub(20, "getBlockFilters", "GetBlockFiltersRequest"),
    Sub(21, "blockFiltersResponse", "BlockFiltersResponse")}
JSToRust_Command == {Sub(1, "initialize", "InitializeRequest"),
    Sub(2, "createWallet", "CreateWalletRequest"),
    Sub(3, "restoreWallet", "RestoreWalletRequest"), Sub(4, "loadWallet", "LoadWalletRequest"),
    Sub(5, "getBalance", "GetBalanceRequest"),
    Sub(6, "createTransaction", "CreateTransactionRequest"),
    Sub(7, "toggleMiner", "ToggleMinerRequest"), Sub(8, "getStatus", "GetStatusRequest"),
    Sub(9, "getSupply", "GetSupplyRequest"), Sub(10, "getPeers", "GetPeersRequest"),
    Sub(11, "connectPeer", "ConnectPeerRequest"), Sub(12, "syncTick", "SyncTickRequest"),
    Sub(13, "swapInitiate", "SwapInitiateRequest"), Sub(14, "swapList", "SwapListRequest"),
    Sub(15, "swapRespond", "SwapRespondRequest"), Sub(16, "swapClaim", "SwapClaimRequest"),
    Sub(17, "swapRefund", "SwapRefundRequest"), Sub(18, "channelOpen", "ChannelOpenRequest"),
    Sub(19, "channelList", "ChannelListRequest"),
    Sub(20, "channelAccept", "ChannelAcceptRequest"),
    Sub(21, "channelFund", "ChannelFundRequest"), Sub(22, "channelPay", "ChannelPayRequest"),
    Sub(23, "channelClose", "ChannelCloseRequest")}
JSToRust_NetworkEvent == {Sub(1, "p2pMessage", "P2pMessageReceived"),
    Sub(2, "peerConnected", "PeerConnected"), Sub(3, "peerDisconnected", "PeerDisconnected"),
    Sub(4, "peerVerified", "PeerVerified")}
RustToJs_CommandBatch == {Many(Sub(1, "commands", "RustCommand"))}
ControlMining == {Bool(1, "start"), U64(2, "height"), Bytes(3, "minerPubkey"),
    Bytes(4, "minerSecretKey"), Str(5, "prevHash"), Bytes(6, "vrfThreshold"),
    U64(7, "vdfIterations"), U64(8, "jobId")}
RustCommand == {Sub(1, "logMessage", "LogMessage"), Sub(2, "p2pPublish", "PublishP2pMessage"),
    Sub(3, "p2pSendDirect", "SendDirectP2pMessage"), Sub(4, "p2pHangUp", "HangUpPeer"),
    Sub(5, "updateUiBalance", "UpdateUiBalance"),
    Sub(6, "updateUiMinerStatus", "UpdateUiMinerStatus"),
    Sub(7, "updateUiSyncProgress", "UpdateUiSyncProgress"),
    Sub(8, "uiNetworkInitialized", "UiNetworkInitialized"),
    Sub(9, "uiWalletLoaded", "UiWalletLoaded"), Sub(10, "uiPeerList", "UiPeerList"),
    Sub(11, "uiTotalSupply", "UiTotalSupply"), Sub(12, "controlMining", "ControlMining")}
InitializeRequest == {}
CreateWalletRequest == {Str(1, "walletId")}
RestoreWalletRequest == {Str(1, "walletId"), Str(2, "phrase")}
LoadWalletRequest == {Str(1, "walletId")}
GetBalanceRequest == {Str(1, "walletId")}
CreateTransactionRequest == {Str(1, "fromWalletId"), Str(2, "toAddress"), U64(3, "amount"),
    U64(4, "fee")}
ToggleMinerRequest == {Str(1, "minerId")}
GetStatusRequest == {}
GetSupplyRequest == {}
GetPeersRequest == {}
ConnectPeerRequest == {Str(1, "multiaddr")}
SyncTickRequest == {}
SwapInitiateRequest == {Str(1, "walletId"), Str(2, "counterpartyPubkey"), U64(3, "plbAmount"),
    U64(4, "btcAmount"), U64(5, "timeoutBlocks")}
SwapListRequest == {}
SwapRespondRequest == {Str(1, "walletId"), Str(2, "swapId"), Str(3, "btcAddress"),
    Str(4, "btcTxid"), U32(5, "btcVout")}
SwapClaimRequest == {Str(1, "walletId"), Str(2, "swapId"), Str(3, "adaptorSecretHex")}
SwapRefundRequest == {Str(1, "walletId"), Str(2, "swapId")}
ChannelOpenRequest == {Str(1, "walletId"), Str(2, "counterpartyPubkey"), U64(3, "myAmount"),
    U64(4, "theirAmount")}
ChannelListRequest == {}
ChannelAcceptRequest == {Str(1, "walletId"), Str(2, "proposalId")}
ChannelFundRequest == {Str(1, "walletId"), Str(2, "channelId")}
ChannelPayRequest == {Str(1, "walletId"), Str(2, "channelId"), U64(3, "amount")}
ChannelCloseRequest == {Str(1, "walletId"), Str(2, "channelId")}
P2pMessageReceived == {Str(1, "topic"), Bytes(2, "data"), Str(3, "fromPeerId")}
PeerConnected == {Str(1, "peerId")}
PeerDisconnected == {Str(1, "peerId")}
PeerVerified == {Str(1, "peerId")}
LogMessage == {Str(1, "level"), Str(2, "message")}
PublishP2pMessage == {Str(1, "topic"), Bytes(2, "data")}
SendDirectP2pMessage == {Str(1, "peerId"), Str(2, "protocol"), Bytes(3, "data")}
HangUpPeer == {Str(1, "peerId"), Str(2, "reason")}
UpdateUiBalance == {Str(1, "walletId"), Str(2, "balanceString")}
UpdateUiMinerStatus == {Bool(1, "isMining")}
UpdateUiSyncProgress == {U64(1, "current"), U64(2, "target"), U64(3, "startTime")}
UiNetworkInitialized == {}
UiWalletLoaded == {Str(1, "walletId"), Str(2, "balance"), Str(3, "address")}
UiPeerList == {Many(Str(1, "peerIds"))}
UiTotalSupply == {Str(1, "supplyString")}

-------------------------------------------------------------------------------
P2pSchema == [
    VrfProof |-> VrfProof, VdfProof |-> VdfProof, Challenge |-> Challenge,
    ChallengeResponse |-> ChallengeResponse, DirectBlockRequest |-> DirectBlockRequest,
    BlockTransferResponse |-> BlockTransferResponse, TransactionInput |-> TransactionInput,
    TransactionOutput |-> TransactionOutput, TransactionKernel |-> TransactionKernel,
    Transaction |-> Transaction, Block |-> Block, BlockAnnouncement |-> BlockAnnouncement,
    BlockRequest |-> BlockRequest, GetHashesRequest |-> GetHashesRequest,
    HashesResponse |-> HashesResponse, TipRequest |-> TipRequest, TipResponse |-> TipResponse,
    SyncMessage |-> SyncMessage, DandelionStem |-> DandelionStem, ReorgMarker |-> ReorgMarker,
    AdaptorSignature |-> AdaptorSignature, AtomicSwap |-> AtomicSwap,
    SwapAliceAdaptorSig |-> SwapAliceAdaptorSig, ChannelProposal |-> ChannelProposal,
    CommitmentState |-> CommitmentState, ChannelAcceptance |-> ChannelAcceptance,
    ChannelNonce |-> ChannelNonce, ChannelPartialSig |-> ChannelPartialSig,
    RevocationData |-> RevocationData, PaymentProposal |-> PaymentProposal,
    PaymentAcceptance |-> PaymentAcceptance, GetBlockFiltersRequest |-> GetBlockFiltersRequest,
    BlockFilterData |-> BlockFilterData, BlockFiltersResponse |-> BlockFiltersResponse,
    P2pMessage |-> P2pMessage, JSToRust_Command |-> JSToRust_Command,
    JSToRust_NetworkEvent |-> JSToRust_NetworkEvent,
    RustToJs_CommandBatch |-> RustToJs_CommandBatch, ControlMining |-> ControlMining,
    RustCommand |-> RustCommand, InitializeRequest |-> InitializeRequest,
    CreateWalletRequest |-> CreateWalletRequest, RestoreWalletRequest |-> RestoreWalletRequest,
    LoadWalletRequest |-> LoadWalletRequest, GetBalanceRequest |-> GetBalanceRequest,
    CreateTransactionRequest |-> CreateTransactionRequest,
    ToggleMinerRequest |-> ToggleMinerRequest, GetStatusRequest |-> GetStatusRequest,
    GetSupplyRequest |-> GetSupplyRequest, GetPeersRequest |-> GetPeersRequest,
    ConnectPeerRequest |-> ConnectPeerRequest, SyncTickRequest |-> SyncTickRequest,
    SwapInitiateRequest |-> SwapInitiateRequest, SwapListRequest |-> SwapListRequest,
    SwapRespondRequest |-> SwapRespondRequest, SwapClaimRequest |-> SwapClaimRequest,
    SwapRefundRequest |-> SwapRefundRequest, ChannelOpenRequest |-> ChannelOpenRequest,
    ChannelListRequest |-> ChannelListRequest, ChannelAcceptRequest |-> ChannelAcceptRequest,
    ChannelFundRequest |-> ChannelFundRequest, ChannelPayRequest |-> ChannelPayRequest,
    ChannelCloseRequest |-> ChannelCloseRequest, P2pMessageReceived |-> P2pMessageReceived,
    PeerConnected |-> PeerConnected, PeerDisconnected |-> PeerDisconnected,
    PeerVerified |-> PeerVerified, LogMessage |-> LogMessage,
    PublishP2pMessage |-> PublishP2pMessage, SendDirectP2pMessage |-> SendDirectP2pMessage,
    HangUpPeer |-> HangUpPeer, UpdateUiBalance |-> UpdateUiBalance,
    UpdateUiMinerStatus |-> UpdateUiMinerStatus, UpdateUiSyncProgress |-> UpdateUiSyncProgress,
    UiNetworkInitialized |-> UiNetworkInitialized, UiWalletLoaded |-> UiWalletLoaded,
    UiPeerList |-> UiPeerList, UiTotalSupply |-> UiTotalSupply]

\* The classes whose fields all belong to one oneof.
P2pOneOfs == {"BlockTransferResponse", "SyncMessage", "P2pMessage",
              "JSToRust_Command", "JSToRust_NetworkEvent", "RustCommand"}

===============================================================================
