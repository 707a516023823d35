CONSTANTS
  MaxId = 2
  MaxEntries = 1
  MaxSaved = 2
  MaxCrash = 2
  Kinds = {"job", "future"}
  SpawnFails = TRUE
SPECIFICATION LiveSpec
INVARIANT JobToldOnce
 
