SPECIFICATION ServeSpec
CONSTANTS
    Files <- MCFiles
    Certs <- MCCerts
    NoCert = NoCert
    None = None
    Clients = {k1}
    Commands <- MCCommands
    MaxEdits = 1
    MaxEvents = 2
    EventBytes = 4
    Overhead = {0, 3}
    Word = 64
INVARIANTS
    RunningIsAuthorized
    QuietReloadIsWhole
    SignalsAreNotLost
    StoreClosesLast
PROPERTIES
    ShutdownEnds
CHECK_DEADLOCK FALSE
