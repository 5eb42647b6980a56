SPECIFICATION Spec
CONSTANTS
    MaxStreamId = 4
    InitialWindow = 8
    MaxFrameSize = 2
    MaxReserved = 1
    ServerMax = 1
    PeerMax = 2
    ClientMax = 2
    ClientWindow = 8
    Sizes = {1}
    MaxStreams = 3
    MaxResets = 0
    MaxFailures = 1
    Timeouts = TRUE
    Tightens = TRUE
INVARIANTS
    CountersExact
    GoawayCoversProcessed
CHECK_DEADLOCK FALSE
