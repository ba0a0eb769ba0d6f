SPECIFICATION Spec
CONSTANTS
  Mod = 16
  XMax = 9
  YMax = 7
  Step = 3
  Edge = 1
  Mid = 1
  Low = 2
  Width = 4
  Height = 6
  PlayerXs = {3}
  PlayerYs = {1, 14}
INVARIANTS
  SpentIsHidden
PROPERTIES
  ShotMatchesAim
  StraightUnlessAgain
  GunReady
  HeldFiresOnce
