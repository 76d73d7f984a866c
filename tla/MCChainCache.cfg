SPECIFICATION Spec
CONSTANTS
    Modes = {"full"}
    MaxHeight = 3
    MaxStack = 4
    Txs = {t1, t2}
    MaxPending = 2
INVARIANT AdmitsFresh
\* A refused start stays refused, and a replica that caught up waits.
CHECK_DEADLOCK FALSE
