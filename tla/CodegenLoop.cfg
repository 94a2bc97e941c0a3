SPECIFICATION Spec
CONSTANTS
  Literals = {"string"}
  Operators = {}
  ListSizes = {5}
  ArgCounts = {}
  PlainLoops = FALSE
  MaxSteps = 4
  MaxPending = 5
  MaxOpen = 3
  MaxUnits = 1
  MaxLength = 40
INVARIANT
  JumpsReachTheirLoop
CHECK_DEADLOCK FALSE
