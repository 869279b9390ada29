--------------------------- MODULE MCWorkspaceSync --------------------------
\* Two tabs for the runs of WorkspaceSync: one that also navigates and one that stays,
\* or two that stay.
EXTENDS WorkspaceSync, TLC

CONSTANTS t1, t2, w1, w2

TwoTabs       == {t1, t2}
TwoWorkspaces == {w1, w2}

Never        == t1 :> 0 @@ t2 :> 0
OnceTheFirst == t1 :> 1 @@ t2 :> 0
OnlyTheFirst == t1 :> 2 @@ t2 :> 0
OnlyTheSecond == t1 :> 0 @@ t2 :> 1
OneEach      == t1 :> 1 @@ t2 :> 1
TwoEach      == t1 :> 2 @@ t2 :> 2

SymmetricTabs       == Permutations(TwoTabs) \cup Permutations(Workspaces)
SymmetricWorkspaces == Permutations(Workspaces)

\* TLC does not reduce by symmetry under fairness: of each two initial states that differ
\* by the names of the workspaces, the one where the second tab shows w1.
FromFirst == Init /\ tab[t2].ws = w1

FairSpecFromFirst == FromFirst /\ [][Next]_vars /\ Fairness
=============================================================================
