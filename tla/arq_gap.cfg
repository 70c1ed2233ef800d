\* A packet arrives before the ones sent ahead of it.
SPECIFICATION Spec
CONSTANTS
    WindowSize = 3
    Modulus = 16
    MaxPackets = 3
    Lossy = TRUE
    PeerNAKs = FALSE
PROPERTIES GapsAreNAKed
