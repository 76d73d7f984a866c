SPECIFICATION FairSpec
CONSTANTS
    Handles = {h1, h2}
    Keys = {k1}
    Vals = {v1}
    Absent = Absent
    Unset = Unset
    Identities = {b1}
    MaxSessions = 4
    MaxBlock = 0
INVARIANTS TypeOK ActiveCount AbandonedCovered EnabledWhileActive PendingSlot StackInv
PROPERTIES SessionsDrain ImplementsSnapshots
