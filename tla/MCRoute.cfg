CONSTANTS
    k1 = k1
    k2 = k2
    s1 = s1
    s2 = s2
    r1 = r1
    r2 = r2
    Keys = {k1, k2}
    Stations = {s1, s2}
    Global = Global
    StationOf <- MCStationOf
    Limit <- MCLimit
    Requests = {r1, r2}
    Idempotent = {}
    NoKey = NoKey
    Rankings <- MCRankings
    Drifts <- MCDrifts
    MaxKeys = 2
    Threshold = 2
    HardCap = 2
    MaxReplans = 1
    MaxFence = 1
SPECIFICATION Spec
SYMMETRY RequestSymmetry
INVARIANTS
    TypeOK
    LeasePhases
    CapacityExact
    CapacityBound
