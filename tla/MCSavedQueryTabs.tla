-------------------------- MODULE MCSavedQueryTabs --------------------------
EXTENDS SavedQueryTabs, TLC

Symmetry == Permutations(Docs) \cup Permutations(Queries) \cup Permutations(Texts)
=============================================================================
