SPECIFICATION Spec
CONSTANTS
  None = None
  MaxDashboards = 2
  MaxEntries = 3
  Changes = {}
  MaxWrites = 1
  MaxOthers = 1
INVARIANTS LoginIsNotCovered
CHECK_DEADLOCK FALSE
