CONSTANTS
    w1 = w1
    w2 = w2
    t1 = t1
    t2 = t2
    t3 = t3
    WalletIDList <- MCWalletIDList
    MapOrder <- MCMapOrder
    WatchOnly <- MCWatchOnly
    Offline <- MCOffline
    Txs <- MCTxs
    TxWallets <- MCTxWallets
    TxRank <- MCTxRank
    StartHeight = 6
    InitHeights = {1, 6}
    MaxHeight = 8
    UnconfHeight = 255
    EngineScansWallets = FALSE
SPECIFICATION Spec
INVARIANTS
    BalancesMirrorWallets
