SPECIFICATION Spec
CONSTANTS
  Approvals = {a1, a2}
  NoApproval = none
  Requests = {r1, r2}
  Engines = {"pocoflow", "langgraph"}
  DurableCheckpoints = FALSE
  MaxRuns = 2
SYMMETRY Symmetry
VIEW RunsView
CHECK_DEADLOCK FALSE
INVARIANTS RunNeedsTimelyApproval ExecutedMeansRan
PROPERTIES RunsUnderLiveAccess NoRerunWithoutCause
