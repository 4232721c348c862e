------------------------------ MODULE MCMhiPci ------------------------------
(* Model values for the devices of MhiPci. *)
EXTENDS MhiPci
CONSTANTS d1, d2
=============================================================================
