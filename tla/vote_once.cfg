\* The vote request is handled once; c3 and c4 come and go.
SPECIFICATION FairSpec
CONSTANTS
    c1 = c1
    c2 = c2
    c3 = c3
    c4 = c4
    v1 = v1
    Clients = {c1, c2, c3, c4}
    VoteIDs = {v1}
    Malformed = {}
    Repeats = {}
    Askers = {c1}
    Unsteady = {c3, c4}
    Mortal = {}
    Restarts = FALSE
    NoReferendum = NoReferendum
INVARIANTS TypeOK TallyMatchesBallots OngoingUndecided FullTurnoutCloses NearPlurality AgreementUnlessReopened
PROPERTIES ImplementsReferendum Closes VotersLearn
CHECK_DEADLOCK FALSE
