------------------------------- MODULE MCRele -------------------------------
(* Rele with the times in units of a heartbeat, and small bounds.          *)
EXTENDS Rele
=============================================================================
