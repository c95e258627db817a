------------------------------- MODULE MCCola -------------------------------
(***************************************************************************)
(* Small instances of Cola for TLC.                                        *)
(***************************************************************************)
EXTENDS Cola, TLC

CONSTANTS t1, t2, s1, s2, v1, h1, h2

Simetria == Permutations({t1, t2}) \cup Permutations({s1, s2}) \cup Permutations({h1, h2})
=============================================================================
