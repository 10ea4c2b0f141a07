SPECIFICATION MsgSpec
CONSTANTS
    Client = client
    Server = server
    Lossy = {}
    BandwidthLimited = FALSE
    MaxResend = 0
    MTU = 5
    ContLimit = 2
    NakLimit = 2
    NakWindow = 2
    AckWindow = 2
    Closing = {client}
    Reconnecting = {}
    MaxChunks <- MCMaxChunks
    NetCap = 1
    Script <- MCScript
    MsgLen <- MCMsgLen
    HeaderLen <- MCHeaderLen
    maxChunkSize = 2
INVARIANTS
    MsgTypeOK
    FragmentIsNextMessage
PROPERTIES
    ToServerReliable
    ToClientReliable
CHECK_DEADLOCK FALSE
