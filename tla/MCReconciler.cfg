SPECIFICATION Spec
CONSTANTS
    Peers = {1, 2}
    Preference <- MCPreference
    Domain <- MCDomain
    Fields <- MCFields
    NoVal = NoVal
    a = a
    b = b
    x = x
    y = y
    NodeA = NodeA
    NodeB = NodeB
    NoAdvert = NoAdvert
    NoAttrs = NoAttrs
    Malformed = Malformed
    NoDescriptor = NoDescriptor
    Nlris <- MCNlris
    Offers <- MCOffers
    Absent = Absent
    QueueCap = 2
    MaxRev = 4
    MaxUpdates = 4
INVARIANTS
    RecTypeOK
    SourcesFollowPeers
    CanonIsMerge
    ConvergesToMerge
    ReferencesResolve
