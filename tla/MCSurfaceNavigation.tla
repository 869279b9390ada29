------------------------- MODULE MCSurfaceNavigation -------------------------
\* Two dashboards in a history of a few entries, with writes that overlap: two of them as
\* long as the history is short, one when it is full.
EXTENDS SurfaceNavigation

FewAtOnce == Len(tab.entries) = MaxEntries => Len(tab.writes) < MaxWrites
=============================================================================
