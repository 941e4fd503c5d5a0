------------------------------ MODULE MCAbBoot -------------------------------
(* TLC instances of AbBoot: the real priorities and retry budget.          *)
EXTENDS AbBoot
=============================================================================
