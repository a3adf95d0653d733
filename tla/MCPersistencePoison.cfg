CONSTANTS
    a1 = a1
    a2 = a2
    k1 = k1
    k2 = k2
    Attempts = {a1, a2}
    Keys = {k1, k2}
    KeyOf <- MCKeyOf
    NoAttempt = NoAttempt
    Capacity = 2
    MaxTries = 2
    MaxFaults = 2
SPECIFICATION FairSpec
PROPERTY RecoveryResumes
