SPECIFICATION SessionSpec
CONSTANTS
  Keys = {W, A}
  Shoot = Shoot
  Jump = Jump
  Extend = Extend
  Break = Break
  Other = Other
  None = None
  NumSlots = 2
  CounterMod = 128
  PriorityMod = 8
  WindowClks = 3
  MaxDown = 2
INVARIANTS
  ShowsWhatIsHeld
PROPERTY PressIsSeen
