SPECIFICATION Spec
CONSTANTS
  McpTools = {m}
  Workflow = w
  Versions = {v1}
  NoVersion = none
  Admins = {a1}
  MaxChanges = 2
  Requests = {r1}
  Managers = {p1, p2}
  MaxReleases = 1
SYMMETRY Symmetry
INVARIANTS RevokedStaysOut ToolsWereLive GateIsLive PlatformAsksAgent
CHECK_DEADLOCK FALSE
