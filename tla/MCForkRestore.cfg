SPECIFICATION Spec
CONSTANTS
    g = g
    a1 = a1
    a2 = a2
    b1 = b1
    b2 = b2
    b3 = b3
    c2 = c2
    c3 = c3
    d2 = d2
    t1 = t1
    t2 = t2
    t3 = t3
    Blocks <- MCBlocks
    Genesis = g
    Parent <- MCParent
    Height <- MCHeight
    Bad = {c3}
    Txs = {t1, t2, t3}
    TxOf <- MCTxOf
    Runs <- MCRuns
    MaxPending = 2
INVARIANT PoolExecuted
\* Peers may run out of blocks to deliver.
CHECK_DEADLOCK FALSE
