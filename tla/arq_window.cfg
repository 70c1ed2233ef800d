\* A window of two packets slides over three; every datagram may arrive at any time, again and again.
SPECIFICATION Spec
CONSTANTS
    WindowSize = 2
    Modulus = 16
    MaxPackets = 3
    Lossy = FALSE
    PeerNAKs = TRUE
INVARIANTS TypeOK AckedIsReceived BehindWindowIsAcked WithinWindow
PROPERTIES AckedStaysAcked KeepsChannel
