SPECIFICATION HistorySpec
CONSTANTS
    Keys = {k1, k2}
    Data = {d1}
    Absent = Absent
    NoApply = NoApply
    MaxRev = 4
    Readers = {r1}
    EventsLimit = 2
SYMMETRY Symmetry
INVARIANT
    SnapshotNamesItsRevision
