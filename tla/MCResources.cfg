\* Two blocks, one stream, five objects: two files with their pointers, and one more.
SPECIFICATION Spec
CONSTANTS
  o1 = o1
  o2 = o2
  o3 = o3
  o4 = o4
  o5 = o5
  b1 = b1
  b2 = b2
  s1 = s1
  Nothing = Nothing
  Object = {o1, o2, o3, o4, o5}
  Block = {b1, b2}
  Stream = {s1}
  MaxTerms = 2
  MaxAsked = 2
SYMMETRY Symmetry
INVARIANTS
  TypeOK
  BlocksHaveOneOwner
  ClosedAsAsked
  TerminalRestored
