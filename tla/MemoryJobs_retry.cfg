\* One turn whose worker is killed once.
SPECIFICATION Spec
CONSTANTS
  Turns = {t1}
  Scopes = {s1}
  Workers = {w1}
  NoTurn = NoTurn
  EnqueueThreads = 1
  LlmSeconds = 1
  DbSeconds = 0
  StaleSeconds = 2
  DedupSeconds = 1
  HourSeconds = 1
  MaxPerHour = 2
  BatchSize = 1
  MaxKills = 1
  MaxDbErrors = 0
INVARIANT RetryWritesOnce
