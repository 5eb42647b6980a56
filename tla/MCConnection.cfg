SPECIFICATION FairSpec
CONSTANTS
    MaxStreamId = 3
    InitialWindow = 4
    MaxFrameSize = 2
    MaxReserved = 2
    ServerMax = 3
    PeerMax = 3
    ClientMax = 2
    ClientWindow = 2
    Sizes = {3}
    MaxStreams = 3
    MaxResets = 1
    MaxFailures = 0
    Timeouts = FALSE
    Tightens = FALSE
INVARIANTS
    ConnectionTypeOK
    CountersExact
    ConnectionWindowConserved
    StreamWindowConserved
    NoConnectionError
    QuietMeansDone
PROPERTIES
    ResetIsFinal
    RequestsEnd
CHECK_DEADLOCK FALSE
