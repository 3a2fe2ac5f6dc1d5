SPECIFICATION Spec
CONSTANTS
  Workers = {w1}
  Learners = {"u1", "u2"}
  RawKeys <- MCRawKeys
  Keys <- MCKeys
  Norm <- MCNorm
  NoKey = ""
  Names = {"n1", "n2"}
  NoName = "none"
  Weak = "weak"
  Strong = "strong"
  NoMark = "none"
  NoSummary = ""
  Evals <- MCTopicEvals
  MaxObservations = 2
  MaxConcepts = 3
  WeakLimit = 2
  MaxApplies = 1
  MaxLoads = 1
CHECK_DEADLOCK FALSE
INVARIANT EveryPrerequisiteSurfaces
