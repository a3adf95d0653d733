CONSTANTS
    r1 = r1
    r2 = r2
    Keys = {k1}
    NoKey = NoKey
    NoLease = NoLease
    Requests = {r1, r2}
    Attempts <- MCAttempts
    Policies = {1}
    FailThreshold <- MCFailThreshold
    RecoveryThreshold <- MCRecoveryThreshold
    RecoveryWait <- MCRecoveryWait
    MaxCooldown = 1
    MaxIndex = 1
    MaxTime = 3
    Deadline <- MCDeadline
SPECIFICATION Spec
INVARIANT ReapedAttemptNeverCounts
