--------------------- MODULE MCDocumentSyncCoordinator ---------------------
\* DocumentSyncCoordinator with the small sets the model checker explores.
EXTENDS DocumentSyncCoordinator, TLC

\* The coordinator compares component values and never orders them.
Symmetry == Permutations(Contents) \cup Permutations(Metas)
============================================================================
