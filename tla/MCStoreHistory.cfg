SPECIFICATION HistorySpec
CONSTANTS
    Keys = {k1, k2}
    Data = {d1, d2}
    Absent = Absent
    NoApply = NoApply
    MaxRev = 4
    Readers = {r1}
    EventsLimit = 2
SYMMETRY Symmetry
INVARIANTS
    TypeOK
    VisibleIsARevision
    JournalIsASuffix
    EventsUndo
    StampNamesItsWrite
    DiskIsLastRevision
    RetainedSnapshotIsExact
    RetainedDiffIsGapFree
PROPERTIES
    RevisionsAreFinal
    DurableSpec
