SPECIFICATION ControlSpec
CONSTANTS
  MaxHeld = 2
  LastPtr = 3
INVARIANTS
  WindowInLevel
PROPERTIES
  KeyStartsGame
  MotionStops
