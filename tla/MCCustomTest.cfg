SPECIFICATION FairSpec
CONSTANTS
  Topics = {t1, t2, t3}
  Counts = {1, 2}
  FirstCount = 1
  MaxQuestions = 1
  NoWalk = NoWalk
  NoTest = NoTest
INVARIANTS
  StuckNeedsCause
  OtherTopicsNeedSwap
PROPERTIES
  LoadingEnds
