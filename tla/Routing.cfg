\* Two legs whose handlers may make a third registration; two packets, one of them in a batch.
SPECIFICATION Spec
CONSTANTS
    GenMod = 8
    NoValue = NoValue
    Protocols = {}
    UdpDatagram = "UdpDatagram"
    NoType = "NoType"
    Captures = {A, B}
    Datagrams = {d1,d2}
    MAX_FRAMES_PER_EVENT = 1
    Batch = 2
    Configured = 2
    MaxFrames = 3
    MaxPackets = 2
    MaxRegistrations = 3
SYMMETRY Symmetry
INVARIANTS FedOnce SentOnceIfOk DrainEnds
PROPERTY CountedAsBest
