\* A packet arrives again after it was processed.
SPECIFICATION Spec
CONSTANTS
    WindowSize = 2
    Modulus = 16
    MaxPackets = 2
    Lossy = TRUE
    PeerNAKs = FALSE
PROPERTIES ProcessedOnce
