SPECIFICATION ServeSpec
CONSTANTS
    Files <- MCFiles
    Certs <- MCCerts
    NoCert = NoCert
    None = None
    Clients = {k1}
    Commands <- MCCommands
    MaxEdits = 2
    MaxEvents = 2
    EventBytes = 4
    Overhead = {0, 3}
    Word = 64
PROPERTY
    HistoryWithinLimitStays
CHECK_DEADLOCK FALSE
