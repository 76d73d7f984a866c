SPECIFICATION Spec
CONSTANTS
    Modes = {"replica"}
    MaxHeight = 3
    MaxStack = 4
    Txs = {t1, t2}
    MaxPending = 2
INVARIANT Restarts
\* A refused start stays refused, and a replica that caught up waits.
CHECK_DEADLOCK FALSE
