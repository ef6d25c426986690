SPECIFICATION TurnSpec
CONSTANTS
  Tools = {t1, t2}
  NoTool = none
  Engines = {"pocoflow", "langgraph"}
  MaxIterations = 4
  MaxBatch = 2
CHECK_DEADLOCK FALSE
INVARIANTS BudgetHolds GateHolds EndsWithAnswer
PROPERTY ComesToRest
