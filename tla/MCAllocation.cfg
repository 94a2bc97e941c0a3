SPECIFICATION SafeSpec
CONSTANTS
  c = c
  s = s
  l1 = l1
  l2 = l2
  k = k
  Nothing = Nothing
  Object <- MCObject
  Constants <- MCConstants
  Kind <- MCKind
  MaxStack = 2
  MaxElements = 2
INVARIANTS
  TypeOK
  NoDangling
  CleanMarks
\* The addresses run out, and the stack may then be empty.
CHECK_DEADLOCK FALSE
