SPECIFICATION Spec
CONSTANTS
  Literals = {"string"}
  Operators = {"ADD", "STORE", "SET", "CALL", "AND", "OR"}
  ListSizes = {0, 2}
  ArgCounts = {1}
  PlainLoops = TRUE
  MaxSteps = 4
  MaxPending = 3
  MaxOpen = 4
  MaxUnits = 2
  MaxLength = 100
INVARIANTS
  TypeOK
  JumpsReachTheirLoop
  JumpsLand
  StackBalanced
\* A program ends, and one that does not fit within the bounds stops.
CHECK_DEADLOCK FALSE
