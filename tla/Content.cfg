SPECIFICATION Spec
CONSTANTS
  Faqs = {1, 2}
  a = a
  b = b
  Texts = {a, b}
  Written <- MCWritten
  None = None
  Jobs = {job}
  Scripts = {script}
  NoProc = NoProc
  PageSize = 1
  BatchSize = 2
  MaxRetries = 2
INVARIANTS VectorMatchesHash StaleIsComputedAgain
PROPERTIES QuietSyncMirrors
CHECK_DEADLOCK FALSE
