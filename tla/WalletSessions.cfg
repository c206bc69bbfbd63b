CONSTANTS
    Genesis = "g"
    Block <- ForkBlocks
    Prev <- ForkPrev
    HashRank <- ForkRank
    Work <- UnitWork
    BlockTxs <- WalletBlocks
    Payments <- WalletPayments
    Height <- TreeHeight
    Branch <- TreeBranch
    Tx <- TableTxs
    Commitment <- TableCommitments
    TxIns <- TableIns
    TxOuts <- TableOuts
    TxFee <- TableFee
    SourceHeight <- TableSource
    Sound <- Mined
    UtxoAfter <- ReplayUtxos
    IndexAfter <- ReplayIndex
    COINBASE_MATURITY = 1
    Mine <- WalletCoins
    MAX_TX_POOL_SIZE = 2
    MaxReorgs = 2
    MaxRestarts = 1
SPECIFICATION Spec
CHECK_DEADLOCK FALSE
INVARIANTS
    TypeOK
    NoCoinOfferedTwice
    ReservationInvariant
    WholeWalletsAreReplays
    OnlyReorgsLeaveGaps
