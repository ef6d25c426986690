CONSTANTS
  p = p
  q = q
  g = g
  s1 = s1
  NoTurn = NoTurn
  NoReply = NoReply
  Console = {g}
  Turns <- MCTurns
  Sessions = {s1}
  KindOf <- MCKind
  SessionOf <- MCSession
  Limit = 3
  MaxEvents = 1
  MaxFaults = 1
SPECIFICATION ConsoleSpec
INVARIANTS ConsoleTypeOK AnswerHasQuestion ChatTurnsSerial StreamTellsTruth PageRatesWhatItShows RecordTellsTruth
CHECK_DEADLOCK FALSE
