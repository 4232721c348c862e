----------------------------- MODULE MCMhiChan -----------------------------
\* Instances of MhiChan for TLC: the constants are in the .cfg files.
EXTENDS MhiChan
=============================================================================
