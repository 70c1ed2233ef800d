\* Three answers, two of a kind.
SPECIFICATION Spec
CONSTANTS
    c1 = c1
    c2 = c2
    c3 = c3
    v1 = v1
    Clients = {c1, c2, c3}
    VoteIDs = {v1}
    Malformed = {}
    Repeats = {}
    Askers = {c1}
    Unsteady = {}
    Mortal = {}
    Restarts = FALSE
    NoReferendum = NoReferendum
INVARIANTS EarlyCallIsFinal
CHECK_DEADLOCK FALSE
