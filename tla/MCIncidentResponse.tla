-------------------------- MODULE MCIncidentResponse --------------------------
\* Small instances of IncidentResponse for TLC.
EXTENDS IncidentResponse, TLC

\* Commands are interchangeable, and so are alerts.
Symmetry == Permutations(Commands) \cup Permutations(Alerts)
=============================================================================
