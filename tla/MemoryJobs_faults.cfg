\* Two turns, two workers; one worker is killed and one sqlite error is raised.
SPECIFICATION LiveSpec
CONSTANTS
  Turns = {t1, t2}
  Scopes = {s1}
  Workers = {w1, w2}
  NoTurn = NoTurn
  EnqueueThreads = 1
  LlmSeconds = 1
  DbSeconds = 1
  StaleSeconds = 8
  DedupSeconds = 0
  HourSeconds = 0
  MaxPerHour = 2
  BatchSize = 1
  MaxKills = 1
  MaxDbErrors = 1
INVARIANTS TypeOK NeverStolen ExclusiveHolder WritesBounded
PROPERTIES TerminalStable LeaseSpec EveryJobSettles
