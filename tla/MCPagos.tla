------------------------------ MODULE MCPagos ------------------------------
(***************************************************************************)
(* Small instances of Pagos for TLC: two payments, of one session, of one  *)
(* turn, or of nothing known, each of the right amount or not.             *)
(***************************************************************************)
EXTENDS Pagos, TLC

CONSTANTS p1, p2, s1, t1, h1, h2

LasDosDeLoMismo == {[p \in Pago |-> r] : r \in {s1, t1, Desconocida}}

Simetria == Permutations({h1, h2}) \cup Permutations({p1, p2})
=============================================================================
