CONSTANTS
  Callers = {c1, c2}
  Tools = {"inbox_post"}
  Overlap = TRUE
  Agents = {a1}
  Nobody = Nobody
  Everyone = Everyone
  Tasks = {k1}
  Msgs = {m1, m2}
  Statuses = {}
  Caps = {mql5}
  NoCaps = NoCaps
  NoRow = NoRow
  Torn = Torn
SPECIFICATION Spec
SYMMETRY Symmetric
INVARIANTS
  PostedIsKept
