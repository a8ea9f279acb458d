SPECIFICATION FairSpec
CONSTANTS
  Vars = {v1, v2}
  WireLen = 2
  Burst = 2
INVARIANTS
  SleepsOnlyWhenEmpty
PROPERTIES
  AnswerIsNew
  RequestEnds
