SPECIFICATION Spec
CONSTANTS
  Savers = {app}
  Takers = {}
  Values = {first, second, third}
  NoFile = NoFile
  Torn = Torn
  NoOne = NoOne
  MaxKept = 1
PROPERTY OldOrNew
CHECK_DEADLOCK FALSE
