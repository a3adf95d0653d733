CONSTANTS
  NoFile = NoFile
  NoJournal = NoJournal
  Unsound = {2}
  Replacements = {"at_once", "renames"}
  Faults = {"prepare", "crash", "backup", "start", "replace", "validate"}
  MaxImports = 2
  MaxWrites = 2
  MaxFaults = 3
SPECIFICATION FairSpec
INVARIANTS
  ActivationInv
  DatabaseSurvives
PROPERTIES
  ImplementsContract
  StartupLoopEnds
