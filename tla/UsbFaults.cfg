SPECIFICATION Spec
CONSTANTS
  Keys = {4}
  Faults = {"noise", "late", "plug", "merge", "nak", "stray", "bit"}
  MaxMishaps = 1
  InsertTries = 1
  RemoveTries = 1
INVARIANTS
  AsksForEightBytes
  ListsKeptWhole
  PolledIsConfigured
PROPERTY ShowsLastReport
CHECK_DEADLOCK FALSE
