\* A participant disconnects before it answers.
SPECIFICATION FairSpec
CONSTANTS
    c1 = c1
    c2 = c2
    v1 = v1
    Clients = {c1, c2}
    VoteIDs = {v1}
    Malformed = {}
    Repeats = {}
    Askers = {c1}
    Unsteady = {}
    Mortal = {c2}
    Restarts = FALSE
    NoReferendum = NoReferendum
PROPERTIES Closes
CHECK_DEADLOCK FALSE
