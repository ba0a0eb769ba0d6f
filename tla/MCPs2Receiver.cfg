SPECIFICATION Spec
CONSTANTS
  Codes = {c1, c2}
  None = None
  DataBits = 8
  Div = 3
  LowMin = 9
  HighMin = 3
INVARIANT SeesWhatIsSent
PROPERTY OneWindowPerCode
