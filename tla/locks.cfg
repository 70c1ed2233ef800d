\* Two conversations and one datagram at a time.
SPECIFICATION FairSpec
CONSTANTS
    c1 = c1
    c2 = c2
    d1 = d1
    Conversations = {c1, c2}
    Datagrams = {d1}
    None = None
INVARIANTS TypeOK NoCircularWait MapGuarded
PROPERTIES KeepsLockOrder LoopersGoRound
