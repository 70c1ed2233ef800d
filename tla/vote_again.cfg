\* Everything is delivered again and again, but for the request for v2; c2 may leave, the server may start again.
SPECIFICATION Spec
CONSTANTS
    c1 = c1
    c2 = c2
    v1 = v1
    v2 = v2
    Clients = {c1, c2}
    VoteIDs = {v1, v2}
    Malformed = {v2}
    Repeats = {v1}
    Askers = {c1}
    Unsteady = {}
    Mortal = {c2}
    Restarts = TRUE
    NoReferendum = NoReferendum
VIEW SafetyView
INVARIANTS TallyMatchesBallots OngoingUndecided AgreementUnlessReopened
PROPERTIES VerdictStands ImplementsReferendum
CHECK_DEADLOCK FALSE
