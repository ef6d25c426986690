SPECIFICATION Spec
CONSTANTS
  Memories = {m1}
  Names = {n1}
  Texts = {a, bad}
  Malformed = {bad}
  None = None
  Reflections = {weekly}
  Syncs = {sync}
  Scripts = {script}
  NoProc = NoProc
  MaxEdits = 2
INVARIANTS ActiveIsEvaluated
PROPERTIES JobPromotesBacked SettlesOnStrapi
CHECK_DEADLOCK FALSE
