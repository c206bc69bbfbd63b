CONSTANTS
    Block = {"g", "c1", "a2", "a3", "b2", "b3", "b4"}
    Genesis = "g"
    Prev <- TreePrev
    Height <- TreeHeight
    Branch <- TreeBranch
    Peers <- TwoPeers
    Start = "c1"
    Heard = {"b2"}
    TheirStart = {"c1", "a3"}
    PeerTips = {"c1", "a3", "b2", "b4"}
    HASH_CHUNK_SIZE = 1
    MAX_HASHES_PER_SYNC = 2
    BATCH_SIZE = 1
    MaxMoves = 1
SPECIFICATION Spec
CHECK_DEADLOCK FALSE
INVARIANTS
    TypeOK
    CompleteMeansCaughtUp
    OnlyTheAskedAnswers
    WaitingRequestsHaveEntries
PROPERTIES
    SyncForwardEndsOrFetches
