SPECIFICATION Spec
CONSTANTS
    Client = client
    Server = server
    Lossy = {}
    BandwidthLimited = FALSE
    MaxResend = 0
    MTU = 5
    ContLimit = 2
    NakLimit = 2
    NakWindow = 2
    AckWindow = 2
    Closing = {}
    Reconnecting = {}
    ClientChunks = 3
    ServerChunks = 1
    MaxChunks <- MCMaxChunks
    NetCap = 2
INVARIANTS
    NakAsserts
CHECK_DEADLOCK FALSE
