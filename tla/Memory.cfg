SPECIFICATION Spec
CONSTANTS
  k1 = k1
  v1 = v1
  v2 = v2
  m1 = m1
  Keys = {k1}
  Values = {v1, v2}
  NoValue = NoValue
  Users = {u1}
  Jobs = {j1}
  NoJob = NoJob
  History <- MCHistory
  MaxRows = 2
  Offered <- MCOffered
  AutoApply = 90
  ForgetAt = 98
INVARIANTS TypeOK VersionsChain
PROPERTIES FactSpec
CHECK_DEADLOCK FALSE
