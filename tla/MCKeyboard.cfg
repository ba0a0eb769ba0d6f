SPECIFICATION Spec
CONSTANTS
  Keys = {W, A, S}
  Shoot = Shoot
  Jump = Jump
  Extend = Extend
  Break = Break
  Other = Other
  None = None
  NumSlots = 3
  CounterMod = 128
  PriorityMod = 8
  WindowClks = 3
SYMMETRY KeySymmetry
INVARIANTS
  TypeOK
  RanksExact
  ListExact
  OutputsSettled
PROPERTY ImplementsKeyList
