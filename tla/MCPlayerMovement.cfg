SPECIFICATION Spec
CONSTANTS
  Mod = 32
  XStart = 3
  YStart = 4
  XRestart = 3
  YRestart = 2
  XMin = 2
  ScrollMax = 3
  XMax = 11
  YMax = 13
  Step = 1
  ScrollStep = 1
  Jump = 4
  GravityStep = 1
  GravityTop = 2
  Above = 2
  Below = 1
  Gap = 1
  Lift = 2
  Drop = 4
  Height <- MCHeight
  Width <- MCWidth
  CountMod = 8
  GravityBit = 2
  LastPtr = 2
  HVisible = 12
  TestColumn = 10
  Codes = {0, 2, 3, 4}
  Levels <- MCLevels
INVARIANTS
  InBand
PROPERTIES
  StandsOnGround
  Settles
