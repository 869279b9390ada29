SPECIFICATION Spec
CONSTANTS
  l1 = l1 d1 = d1 d2 = d2 None = None
  Tables = {"t"}
  Loads = {l1}
  Lookups = {d1, d2}
  Keys = {"format", "alias"}
  Sources = {"formats", "documentation"}
  Documentation = "documentation"
  SourcesOf <- SomeSources
  Canonical <- OneSpelling
  Kept = {"format", "alias"}
  MaxLogins = 2
  MaxLoads = 2
SYMMETRY Symmetric
INVARIANTS HeldIsCurrent KeptIsConfirmed RequestsAreShared
CHECK_DEADLOCK FALSE
