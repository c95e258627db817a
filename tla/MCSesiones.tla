---------------------------- MODULE MCSesiones ----------------------------
(***************************************************************************)
(* Small instances of Sesiones for TLC: one or two chairs, two sessions,   *)
(* two slots for HTTP calls and timer callbacks, besides the slots of      *)
(* EnergiaService and of the bootstrap.                                    *)
(***************************************************************************)
EXTENDS Sesiones, TLC

CONSTANTS t1, t2, s1, s2, h1, h2

\* The slots are interchangeable; the sessions are not (ConRetorno).
SimetriaHilos == Permutations({h1, h2})
=============================================================================
