SPECIFICATION Spec
CONSTANTS
  r1 = r1 r2 = r2 x = x a = a
  None = None
  Tiles = {1, 2}
  Variables = {x}
  Items = {a}
  Reads <- BothRead
  Needs <- OneNeeds
  Runs = {r1, r2}
  PoolSize = 1
SYMMETRY Symmetric
INVARIANTS TypeOK AnswersMatchValues SpinnersAreOwned NoOrphanQueries
CHECK_DEADLOCK FALSE
