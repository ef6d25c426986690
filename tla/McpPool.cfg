SPECIFICATION Spec
CONSTANTS
  Requests = {r1, r2}
  Janitor = janitor
  NoTask = none
  Connections = {c1, c2}
  Versions = {1, 2}
  MaxSessions = 1
  MaxOpened = 2
INVARIANTS TypeOK PoolBound OneCallPerClient
PROPERTIES NoSurpriseEviction RequestsEnd
