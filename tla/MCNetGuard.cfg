CONSTANTS
  Threads = {t1, t2, t3}
  Hosts = {h1, h2}
  Addr = {pub, lan}
  Permitted = {pub}
  NoThread = NoThread
SPECIFICATION Spec
INVARIANTS
  TypeOK
  GuardedAnswersPermitted
  GuardedNeverBroken
  RestoredWhenUnguarded
