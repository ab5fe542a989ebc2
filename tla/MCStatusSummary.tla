--------------------------- MODULE MCStatusSummary ---------------------------
\* Small instances of StatusSummary for TLC.
EXTENDS StatusSummary, TLC

Symmetry == Permutations(Alerts)
=============================================================================
