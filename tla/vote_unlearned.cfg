\* The result overtakes the question.
SPECIFICATION FairSpec
CONSTANTS
    c1 = c1
    c2 = c2
    c3 = c3
    v1 = v1
    Clients = {c1, c2, c3}
    VoteIDs = {v1}
    Malformed = {}
    Repeats = {}
    Askers = {c1}
    Unsteady = {}
    Mortal = {}
    Restarts = FALSE
    NoReferendum = NoReferendum
PROPERTIES ParticipantsLearn
CHECK_DEADLOCK FALSE
