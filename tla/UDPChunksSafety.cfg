SPECIFICATION Spec
CONSTANTS
    Client = client
    Server = server
    Lossy = {}
    BandwidthLimited = FALSE
    MaxResend = 0
    MTU = 5
    ContLimit = 2
    NakLimit = 2
    NakWindow = 2
    AckWindow = 2
    Closing = {}
    Reconnecting = {}
    ClientChunks = 4
    ServerChunks = 0
    MaxChunks <- MCMaxChunks
    NetCap = 2
INVARIANTS
    TypeOK
    NoChunkLost
    Contiguous
    CurrentNaksAreRight
    ResendsOnlyUnacked
CHECK_DEADLOCK FALSE
