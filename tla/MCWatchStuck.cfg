SPECIFICATION FairWatchSpec
CONSTANTS
    Keys = {k1}
    Data = {d1}
    Absent = Absent
    NoApply = NoApply
    MaxRev = 2
    Watchers = {w1}
    NoWatcher = NoWatcher
    ChanCap = 1
    EventsLimit = 10
PROPERTIES
    ReplayEnds
