CONSTANTS
    k1 = k1
    k2 = k2
    s1 = s1
    Keys = {k1, k2}
    Stations = {s1}
    Global = Global
    StationOf <- MCStationOf
    Limit <- MCLimit
    Requests = {r1}
    Idempotent = {}
    NoKey = NoKey
    Rankings <- MCRankings
    Drifts <- MCDrifts
    MaxKeys = 2
    Threshold = 2
    HardCap = 40
    MaxReplans = 2
    MaxFence = 1
SPECIFICATION FairSpec
INVARIANTS
    RouteInv
    SafeReplay
PROPERTIES
    NoSecondChance
    RequestEnds
