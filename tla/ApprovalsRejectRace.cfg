SPECIFICATION Spec
CONSTANTS
  Approvals = {a1}
  NoApproval = none
  Requests = {r1, r2}
  Engines = {"pocoflow"}
  DurableCheckpoints = TRUE
  MaxRuns = 2
INVARIANT RejectedNeverRuns
CHECK_DEADLOCK FALSE
