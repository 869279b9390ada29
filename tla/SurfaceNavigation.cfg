SPECIFICATION Spec
CONSTANTS
  None = None
  MaxDashboards = 2
  MaxEntries = 3
  Changes = {"document"}
  MaxWrites = 2
  MaxOthers = 1
INVARIANTS TypeOK SurfaceIsShown RebuildIsOwed
PROPERTIES BackRestores WritesDoNotNavigate LoginIsKept
CONSTRAINT FewAtOnce
CHECK_DEADLOCK FALSE
