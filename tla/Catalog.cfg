SPECIFICATION CatalogSpec
CONSTANTS
  McpTools = {m}
  Workflow = w
  Versions = {v1, v2}
  NoVersion = none
  Admins = {a1, a2}
  MaxChanges = 3
SYMMETRY Symmetry
INVARIANTS PublishNeverClashes RowFollowsVersion RetiredNotOffered
CHECK_DEADLOCK FALSE
