SPECIFICATION Spec
CONSTANTS
  w1 = w1 w2 = w2 s1 = s1 s2 = s2
  NoTab = NoTab NoShow = NoShow NoResult = NoResult NoWave = NoWave
  Tabs = {A, B}
  MaxStatements = 2
  Waves = {w1}
  Shows = {s1, s2}
  Programs <- SomePrograms
SYMMETRY Symmetric
PROPERTY SupersededIsInert
CHECK_DEADLOCK FALSE
