CONSTANTS
    Genesis = "g"
    Block <- ForkBlocks
    Prev <- ForkPrev
    HashRank <- ForkRank
    Work <- UnitWork
    BlockTxs <- ForkContents
    Payments <- ForkPayments
    Height <- TreeHeight
    Branch <- TreeBranch
    Tx <- TableTxs
    Commitment <- TableCommitments
    TxIns <- TableIns
    TxOuts <- TableOuts
    TxFee <- TableFee
    SourceHeight <- TableSource
    Sound <- Mined
    UtxoAfter <- ReplayUtxos
    IndexAfter <- ReplayIndex
    COINBASE_MATURITY = 2
    MAX_SIDE_BLOCKS = 2
    MAX_TX_POOL_SIZE = 1
    MaxPlans = 2
    MaxCrashes = 0
SPECIFICATION Spec
INVARIANTS
    TypeOK
    UtxosAreTheReplay
    CoinbasesAreTheReplay
    WorkIsTheReplay
    ReorgFollowsTheBranches
    PlansDetach
    FeeTotalIsTheSum
PROPERTIES
    ReorgsStartAtThePlannedTip
    ImplementsLedger
