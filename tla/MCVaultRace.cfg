CONSTANTS
  Callers = {c1, c2}
  Names = {n1}
  Values = {v1}
  None = None
  Keys = {k1}
  NoKey = NoKey
  Missing = Missing
  Torn = Torn
SPECIFICATION Spec
PROPERTIES
  NeverTruncated
