SPECIFICATION Spec
CONSTANTS
  Name = {x, len}
  Builtin = {len}
  x = x
  len = len
  MaxLevel = 4
  MaxDefinitions <- MCMaxDefinitions
  MaxParams = 2
  Undefined = Undefined
INVARIANTS
  TypeOK
  SlotsDistinct
  CapturesValid
  AddressesOwner
PROPERTY
  BindingsStable
