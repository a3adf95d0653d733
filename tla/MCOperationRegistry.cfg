CONSTANTS
    o1 = o1
    o2 = o2
    o3 = o3
    k1 = k1
    c1 = c1
    Operations = {o1, o2, o3}
    Keys = {k1}
    NoKey = NoKey
    KeyOf <- MCKeyOf
    Cooperative = {o1, o2}
    Callers = {c1}
    NoOperation = NoOperation
    MaxRunning = 2
    MaxPerKey = 1
    TerminalMax = 1
SPECIFICATION Spec
SYMMETRY Alike
INVARIANTS
    RegistryInv
    BodiesBounded
    DrainQuiescent
    CommitNeverDenied
PROPERTIES
    OutcomeFinal
CHECK_DEADLOCK FALSE
