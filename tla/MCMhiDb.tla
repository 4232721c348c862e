------------------------------ MODULE MCMhiDb ------------------------------
\* Instances of MhiDb for TLC: the constants are in the .cfg file.
EXTENDS MhiDb
=============================================================================
