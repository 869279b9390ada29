------------------------ MODULE MCDashboardViewer ------------------------
\* Two tiles that read one selection; only the first cannot run without it.
EXTENDS DashboardViewer, TLC

CONSTANTS r1, r2, x, a

BothRead == [t \in Tiles |-> {x}]

OneNeeds == [t \in Tiles |-> IF t = 1 THEN {x} ELSE {}]

Symmetric == Permutations(Runs)
=============================================================================
