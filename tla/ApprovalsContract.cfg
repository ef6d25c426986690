SPECIFICATION Spec
CONSTANTS
  Approvals = {a1, a2}
  NoApproval = none
  Requests = {r1, r2}
  Engines = {"pocoflow", "langgraph"}
  DurableCheckpoints = TRUE
  MaxRuns = 2
SYMMETRY Symmetry
VIEW ContractView
CHECK_DEADLOCK FALSE
INVARIANTS RejectionStands
PROPERTIES ContractSpec
