\* A repeated vote request reopens a closed referendum.
SPECIFICATION Spec
CONSTANTS
    c1 = c1
    c2 = c2
    v1 = v1
    Clients = {c1, c2}
    VoteIDs = {v1}
    Malformed = {}
    Repeats = {v1}
    Askers = {c1}
    Unsteady = {}
    Mortal = {}
    Restarts = FALSE
    NoReferendum = NoReferendum
INVARIANTS Agreement
CHECK_DEADLOCK FALSE
