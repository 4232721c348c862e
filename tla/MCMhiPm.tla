------------------------------- MODULE MCMhiPm -------------------------------
EXTENDS MhiPm
=============================================================================
