\* Two turns of one scope at the same time.
SPECIFICATION Spec
CONSTANTS
  Turns = {t1, t2}
  Scopes = {s1}
  Workers = {w1}
  NoTurn = NoTurn
  EnqueueThreads = 2
  LlmSeconds = 1
  DbSeconds = 0
  StaleSeconds = 2
  DedupSeconds = 1
  HourSeconds = 1
  MaxPerHour = 2
  BatchSize = 1
  MaxKills = 0
  MaxDbErrors = 0
INVARIANT FirstInsertWins
