SPECIFICATION MCSpec
CONSTANTS
  Agents = {own, open}
  NoAgent = none
  PublicAgents = {open}
  Turns = {turn}
  Jobs = {job}
  Keys = {k}
  Values = {v, w}
  NoValue = NoValue
  MaxChanges = 1
  MaxWrites = 2
SYMMETRY Symmetry
INVARIANTS PrivateStaysPrivate SharedByConsent
PROPERTIES FactsKeepTheirOwner
CHECK_DEADLOCK FALSE
