SPECIFICATION Spec
CONSTANTS
    Client = client
    Server = server
    Lossy = {server}
    BandwidthLimited = TRUE
    MaxResend = 1
    MTU = 1
    ContLimit = 1
    NakLimit = 1
    NakWindow = 1
    AckWindow = 1
    Closing = {client}
    Reconnecting = {client}
    ClientChunks = 2
    ServerChunks = 1
    MaxChunks <- MCMaxChunks
    NetCap = 1
INVARIANTS
    NoChunkLost
PROPERTIES
    ProbeIsHarmless
CHECK_DEADLOCK FALSE
