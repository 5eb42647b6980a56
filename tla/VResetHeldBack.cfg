SPECIFICATION FairSpec
CONSTANTS
    MaxStreamId = 1
    InitialWindow = 4
    MaxFrameSize = 2
    MaxReserved = 2
    ServerMax = 1
    PeerMax = 1
    ClientMax = 2
    ClientWindow = 4
    Sizes = {1}
    MaxStreams = 3
    MaxResets = 1
    MaxFailures = 0
    Timeouts = FALSE
    Tightens = FALSE
PROPERTIES
    ResetsAreSent
CHECK_DEADLOCK FALSE
