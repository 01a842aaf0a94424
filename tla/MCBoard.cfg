CONSTANTS
  Callers = {c1, c2}
  Tools <- AllTools
  Overlap = FALSE
  Agents = {a1}
  Nobody = Nobody
  Everyone = Everyone
  Tasks = {k1}
  Msgs = {m1, m2}
  Statuses = {"done"}
  Caps = {mql5}
  NoCaps = NoCaps
  NoRow = NoRow
  Torn = Torn
SPECIFICATION Spec
SYMMETRY Symmetric
INVARIANTS
  TypeOK
  PostedIsKept
PROPERTIES
  ImplementsTaskBoard
