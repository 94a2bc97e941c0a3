SPECIFICATION FairSpec
CONSTANTS
  l = l
  k = k
  s = s
  NoObject = NoObject
  Object <- MCObject
  Kind <- MCKind
  InitNextGc = 0
  LimitNextGc = 3
INVARIANTS
  TypeOK
  NoDangling
  CleanMarks
  NoFloatingGarbage
PROPERTIES
  GcTerminates
  Refinement
\* The addresses run out, and the program may then have nothing left to do.
CHECK_DEADLOCK FALSE
