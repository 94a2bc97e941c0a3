SPECIFICATION ListSpec
CONSTANTS
  c = c
  s = s
  l1 = l1
  l2 = l2
  k = k
  Nothing = Nothing
  Object <- MCObject
  Constants <- MCConstants
  Kind <- MCKind
  MaxStack = 3
  MaxElements = 2
INVARIANTS
  ListsHoldTheirElements
CHECK_DEADLOCK FALSE
