---------------------------- MODULE MCHandshake -----------------------------
(* Tokens of three pieces: one whose mode is kept, one that may be forbidden *)
(* and displaced, and an AT command.                                       *)
EXTENDS Handshake

SomeTokens == {"META", "FACT", "ATNBOOT"}
=============================================================================
