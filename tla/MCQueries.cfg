SPECIFICATION ListSpec
CONSTANTS
    MaxPaths = 2
    NoNode = NoNode
    NilFilter = NilFilter
    Absent = Absent
    Init0 <- MCInit0
    Mutations <- MCMutations
    Filters <- MCFilters
    Within <- MCWithin
    PageSizes = {0, 1, 9}
    Windows <- MCWindows
    DefaultSize = 2
    MaxSize = 3
    ChunkSize = 2
    ResolveLimit = 3
    MaxRev = 3
    Constraints <- MCConstraints
    Failures <- MCFailures
INVARIANTS
    ListTypeOK
    ListingsAreComplete
    ChangesHaveNoHole
    ReadsAgree
    PathsAreShortest
    AlternativesAreEqual
    ImpactIsTheCut
CHECK_DEADLOCK FALSE
