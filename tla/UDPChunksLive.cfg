SPECIFICATION FairSpec
CONSTANTS
    Client = client
    Server = server
    Lossy = {client}
    BandwidthLimited = FALSE
    MaxResend = 1
    MTU = 5
    ContLimit = 2
    NakLimit = 2
    NakWindow = 2
    AckWindow = 2
    Closing = {}
    Reconnecting = {}
    ClientChunks = 2
    ServerChunks = 1
    MaxChunks <- MCMaxChunks
    NetCap = 1
PROPERTIES
    EveryChunkArrives
    UnackedDrains
