SPECIFICATION FairSpec
CONSTANTS
  w1 = w1
  w2 = w2
  Worker = {w1, w2}
  FlagSets <- MCFlagSets
  MaxFollowers = 2
  MaxReEvaluations = 2
INVARIANTS OneSource Announced
PROPERTY StartEnds
