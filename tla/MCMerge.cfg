SPECIFICATION MergeSpec
CONSTANTS
    Peers = {1, 2, 3}
    Preference <- MCPreference
    Fields = {name, metric}
    Vals = {a, b}
    NoVal = NoVal
    TLVs = {t}
    Rests = {active, stale}
INVARIANTS
    CanonicalIsRight
