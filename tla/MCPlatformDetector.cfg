SPECIFICATION Spec
CONSTANTS
  HVisible = 6
  HTotal = 8
  VVisible = 3
  VSyncLine = 5
  VTotal = 7
  TestColumn = 5
  Mod = 16
  LastPtr = 3
  Rows <- MCRows
  FeetLines = {0, 1, 15}
INVARIANTS
  GroundIsThere
  FindsFirst
  NoHalfPlatform
