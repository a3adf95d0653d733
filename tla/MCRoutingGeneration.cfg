SPECIFICATION FairSpec
CONSTANTS
  Policies <- MCPolicies
  FirstPolicy <- MCBase
  Profiles = {0, 1}
  FirstProfile = 0
  Attempts = {a1}
  MaxPolicies = 2
  MaxGens = 3
  MaxLog = 1
  MaxFences = 2
  MaxFaults = 1
INVARIANTS
  TypeOK
  RegistryConsistent
  NoAttemptSpansCutover
PROPERTIES
  ActivationComplete
  PolicyNeverMovesBack
  FenceLifts
  NewestPolicyActivated
