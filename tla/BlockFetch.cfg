CONSTANTS
    Hash = {1, 2, 3}
    Peers <- TwoPeers
    PARALLEL_DOWNLOADS = 3
    MAX_FETCH_ATTEMPTS = 2
    MAX_IN_FLIGHT_PER_PEER = 1
    Arrival = {1}
SPECIFICATION Spec
INVARIANTS
    TypeOK
    SlotsAreKept
    EveryHashHasItsFetch
PROPERTIES
    OnlySilenceHangsTheBatch
