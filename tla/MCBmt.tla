-------------------------------- MODULE MCBmt --------------------------------
(* TLC instances of Bmt.                                                   *)
EXTENDS Bmt
=============================================================================
