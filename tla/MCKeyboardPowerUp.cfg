SPECIFICATION PowerUpSpec
CONSTANTS
  Keys = {W, A}
  Shoot = Shoot
  Jump = Jump
  Extend = Extend
  Break = Break
  Other = Other
  None = None
  NumSlots = 2
  CounterMod = 8
  PriorityMod = 4
  WindowClks = 3
PROPERTY HealsForGood
