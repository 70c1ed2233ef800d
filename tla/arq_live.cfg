\* Two packets in a window of two, over a network that loses, repeats and reorders.
SPECIFICATION FairSpec
CONSTANTS
    WindowSize = 2
    Modulus = 16
    MaxPackets = 2
    Lossy = TRUE
    PeerNAKs = FALSE
PROPERTIES WindowDrains ImplementsAtLeastOnce
