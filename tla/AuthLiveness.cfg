CONSTANTS
  Ops = {q1}
  Refreshes = {f1, f2}
  Attempts = {a1, a2}
  NoRefresh = NoRefresh
  NoAttempt = NoAttempt
  MaxEpoch = 5
SPECIFICATION FairSpec
CHECK_DEADLOCK FALSE
PROPERTIES
  TransientStatusEnds
  OperationsSettle
