\* Four turns of one scope, two of them at a time; nothing fails.
SPECIFICATION Spec
CONSTANTS
  Turns = {t1, t2, t3, t4}
  Scopes = {s1}
  Workers = {w1, w2}
  NoTurn = NoTurn
  EnqueueThreads = 2
  LlmSeconds = 1
  DbSeconds = 0
  StaleSeconds = 2
  DedupSeconds = 1
  HourSeconds = 2
  MaxPerHour = 2
  BatchSize = 1
  MaxKills = 0
  MaxDbErrors = 0
SYMMETRY Symmetry
INVARIANTS BurstBounded HourlyBounded
PROPERTIES ClaimsInOrder
