SPECIFICATION Spec
CONSTANTS
  Keys = {4}
  Faults = {"nak"}
  MaxMishaps = 1
  InsertTries = 1
  RemoveTries = 1
PROPERTIES
  Enumerated
  ReportIsShown
  RemovalIsSeen
