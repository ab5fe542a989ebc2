--------------------------- MODULE MCRealtimeFanout ---------------------------
\* Small instances of RealtimeFanout for TLC; the run checks liveness, so there
\* is no symmetry.
EXTENDS RealtimeFanout, TLC
=============================================================================
