SPECIFICATION Spec
CONSTANTS
  t1 = t1
  t2 = t2
  Tabs <- TwoTabs
  w1 = w1
  w2 = w2
  Workspaces <- TwoWorkspaces
  NoTab = NoTab
  NoWorkspace = NoWorkspace
  MaxCommits = 3
  MaxNavigations <- Never
  MaxQueue <- TwoEach
SYMMETRY SymmetricTabs
INVARIANT InvalidationIsFollowedByRead
PROPERTY OwnCommitNotOverwritten
CHECK_DEADLOCK FALSE
