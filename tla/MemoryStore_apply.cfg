SPECIFICATION Spec
CONSTANTS
  Workers = {w1, w2}
  Learners = {"u1", "u2"}
  RawKeys <- MCRawKeys
  Keys <- MCKeys
  Norm <- MCNorm
  NoKey = ""
  Names = {"n1", "n2"}
  NoName = "none"
  Weak = "weak"
  Strong = "strong"
  NoMark = "none"
  NoSummary = ""
  Evals <- MCEvals
  MaxObservations = 2
  MaxConcepts = 3
  WeakLimit = 2
  MaxApplies = 3
  MaxLoads = 1
CHECK_DEADLOCK FALSE
INVARIANTS TypeOK NoDanglingConcept SectionsMeanTheEvaluation ReplayOnlyRepeatsObservations
PROPERTIES AppliedWhole
