CONSTANTS
  NoFile = NoFile
  NoJournal = NoJournal
  Unsound = {2}
  Replacements = {"at_once", "renames"}
  Faults = {"crash"}
  MaxImports = 2
  MaxWrites = 2
  MaxFaults = 1
SPECIFICATION Spec
INVARIANTS
  RecoveredByFiles

