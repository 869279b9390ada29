CONSTANTS
  Ops = {q1, q2}
  Refreshes = {f1, f2, f3}
  Attempts = {a1}
  NoRefresh = NoRefresh
  NoAttempt = NoAttempt
  MaxEpoch = 4
SPECIFICATION Spec
CHECK_DEADLOCK FALSE
PROPERTIES
  DenialOnlyBeforeConfirmation
