--------------------------- MODULE MCSchemaCatalog ---------------------------
\* A format that is looked up under two spellings and has a source of its own.
EXTENDS SchemaCatalog, TLC

CONSTANTS l1, d1, d2

SomeSources == [k \in Keys |-> <<"formats", "documentation">>]
OneSpelling == [k \in Keys |-> "format"]

Symmetric == Permutations(Lookups)
=============================================================================
