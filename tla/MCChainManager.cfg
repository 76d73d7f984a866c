SPECIFICATION Spec
CONSTANTS
    Modes = {"full", "replica"}
    MaxHeight = 3
    MaxStack = 4
    Txs = {t1, t2}
    MaxPending = 2
INVARIANTS TypeOK HeadAgreement EventsDurable SolidDurable ChainInv
PROPERTY CatchesUp
\* A refused start stays refused, and a replica that caught up waits.
CHECK_DEADLOCK FALSE
