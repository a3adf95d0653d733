CONSTANTS
    k1 = k1
    k2 = k2
    r1 = r1
    r2 = r2
    Keys = {k1, k2}
    NoKey = NoKey
    NoLease = NoLease
    Requests = {r1, r2}
    Attempts <- MCAttempts
    Policies = {1}
    FailThreshold <- MCFailThreshold
    RecoveryThreshold <- MCRecoveryThreshold
    RecoveryWait <- MCRecoveryWait
    MaxCooldown = 1
    MaxIndex = 0
    MaxTime = 2
    Deadline <- MCDeadline
SPECIFICATION FairSpec
INVARIANTS
    CircuitInv
PROPERTIES
    LeaseReleased
