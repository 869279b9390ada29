SPECIFICATION FairSpec
CONSTANTS
  w1 = w1 w2 = w2 s1 = s1 s2 = s2
  NoTab = NoTab NoShow = NoShow NoResult = NoResult NoWave = NoWave
  Tabs = {A}
  MaxStatements = 2
  Waves = {w1, w2}
  Shows = {}
  Programs <- SomePrograms
INVARIANTS OneRunAtATime EffectsRunOnce AbandonedIsKilled SchemaChangesAreReloaded
PROPERTIES StaleWavesAreInert CancelSettles
CHECK_DEADLOCK FALSE
