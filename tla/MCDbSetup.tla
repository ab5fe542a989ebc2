------------------------------- MODULE MCDbSetup -------------------------------
\* Small instances of DbSetup for TLC.
EXTENDS DbSetup, TLC
=============================================================================
