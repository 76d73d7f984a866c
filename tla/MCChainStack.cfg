SPECIFICATION Spec
CONSTANTS
    Modes = {"replica"}
    MaxHeight = 3
    MaxStack = 2
    Txs = {t1, t2}
    MaxPending = 2
PROPERTY CatchesUp
\* A refused start stays refused, and a replica that caught up waits.
CHECK_DEADLOCK FALSE
