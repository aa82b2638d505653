SPECIFICATION WatchSpec
CONSTANTS
    Keys = {k1}
    Data = {d1}
    Absent = Absent
    NoApply = NoApply
    MaxRev = 3
    Watchers = {w1, w2}
    NoWatcher = NoWatcher
    ChanCap = 2
    EventsLimit = 10
SYMMETRY Symmetry
INVARIANTS
    ChannelClosedOnce
    StreamReachesRevision
    OneHolder
PROPERTIES
    ClientMissesNothing
