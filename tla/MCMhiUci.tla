------------------------------ MODULE MCMhiUci ------------------------------
(* Model values for the files of MhiUci. *)
EXTENDS MhiUci
CONSTANTS f1, f2
=============================================================================
