SPECIFICATION Spec
CONSTANTS
  Savers = {app, daemon}
  Takers = {launcher}
  Values = {first, second, third}
  NoFile = NoFile
  Torn = Torn
  NoOne = NoOne
  MaxKept = 1
INVARIANT TypeOK
PROPERTY KeepsWhole
CHECK_DEADLOCK FALSE
