CONSTANTS
  Callers = {c1}
  Names = {n1, n2, n3}
  Values = {v1}
  None = None
  Keys = {k1, k2}
  NoKey = NoKey
  Missing = Missing
  Torn = Torn
SPECIFICATION Spec
INVARIANTS
  TypeOK
  BackupOneBehind
PROPERTIES
  NeverTruncated
  FailClosed
  ImplementsSecretMap
