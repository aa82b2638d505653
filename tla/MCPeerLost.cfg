SPECIFICATION PeerSpec
CONSTANTS
    Ids = {"p", "q"}
    Addrs = {"a", "A", "b"}
    Canon <- MCCanon
    NoSecret = ""
    Configs <- MCConfigs
    Yaml <- MCYaml
    Imports <- MCImports
    EventCap = 1
    Requests = {r1, r2}
    Absent = Absent
    Idle = Idle
    MaxRev = 5
SYMMETRY Symmetry
PROPERTY UpdatesAreConditional
