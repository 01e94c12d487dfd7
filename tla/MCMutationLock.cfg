SPECIFICATION FairLockSpec
CONSTANTS
  Tasks = {t1, t2, t3, t4}
  Paths = {p1, p2}
  Holders = {h1, h2, h3, h4}
  Nothing = Nothing
INVARIANTS
  LockTypeOK
  RegistryExact
PROPERTIES
  ImplementsMutex
  EveryoneEnters
