SPECIFICATION Spec
CONSTANTS
  None = None
  MaxDashboards = 1
  MaxEntries = 2
  Changes = {"document", "queries"}
  MaxWrites = 1
  MaxOthers = 1
INVARIANTS ShownIsCommitted
CHECK_DEADLOCK FALSE
