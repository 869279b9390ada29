----------------------------- MODULE MCWorkbench -----------------------------
\* One wave and its successor, or one wave next to two graphs, for the runs of Workbench.
EXTENDS Workbench, TLC

CONSTANTS w1, w2, s1, s2

\* A read, and a script in which a schema change comes before a read.
SomePrograms == {<<"rows">>, <<"schema", "rows">>}

Symmetric == Permutations(Shows) \cup Permutations(Tabs)
=============================================================================
