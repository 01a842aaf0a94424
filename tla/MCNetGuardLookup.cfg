CONSTANTS
  Threads = {t1, t2}
  Hosts = {h1}
  Addr = {pub, lan}
  Permitted = {pub}
  NoThread = NoThread
SPECIFICATION Spec
INVARIANTS
  LookupNeverBroken
