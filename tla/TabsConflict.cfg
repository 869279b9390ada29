SPECIFICATION Spec
CONSTANTS
  Docs = {d1, d2}
  Queries = {q1, q2}
  Workspaces = {w1, w2}
  Texts = {t1, t2}
  NoText = NoText
  None = None
  MaxQueue = 2
  MaxElsewhere = 1
  MaxActs = 3
SYMMETRY Symmetry
INVARIANT ConflictCanBeResolved
CHECK_DEADLOCK FALSE
