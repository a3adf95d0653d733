SPECIFICATION FairSpec
CONSTANTS
  Policies <- MCPolicies
  FirstPolicy <- MCBase
  Profiles = {0}
  FirstProfile = 0
  Attempts = {a1}
  MaxPolicies = 3
  MaxGens = 3
  MaxLog = 0
  MaxFences = 3
  MaxFaults = 0
PROPERTIES
  LastSaveWins
