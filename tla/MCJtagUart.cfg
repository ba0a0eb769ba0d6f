SPECIFICATION Spec
CONSTANTS
  Out = 4
  In = 3
  BufLen = 3
  Fifo = 1
  Threshold = 0
  Longest = 2
  Timeout = 2
  IntMax = 4
INVARIANTS
  TextInOrder
  InputInOrder
  InterruptsOn
PROPERTIES
  WriteEnds
  TextArrives
