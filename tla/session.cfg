\* A client that may be given two IDs, loses packets, is slow, or leaves.
SPECIFICATION FairSpec
CONSTANTS
    i1 = i1
    i2 = i2
    IDs = {i1, i2}
    Slow = {i1}
    MaxLate = 1
    NoID = NoID
INVARIANTS TypeOK
PROPERTIES TakesPart GhostsLeave ImplementsPresence
CHECK_DEADLOCK FALSE
