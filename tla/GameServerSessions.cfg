\* Two players, the first of whom comes a second time.
SPECIFICATION Spec
CONSTANTS
    NumPlayers = 2
    ReconnectTimeout = {TRUE, FALSE}
    SyncTimeout = 1
    EarlyReturn = {TRUE, FALSE}
    MaxPrograms <- MCMaxPrograms
    MaxNewFrames = 1
    MaxBroadcasts = 8
INVARIANTS
    TypeOK
    LinkMeansPresent
    StreamIsHistory
    PresenceAnnounced
    ResponsesBelong
    FramesAwaitThePresent
\* UpdateLoop ends when nobody is left.
CHECK_DEADLOCK FALSE
