----------------------------- MODULE MCRefresh -----------------------------
(* A small instance of Refresh. Liveness is checked, so symmetry is not used. *)
EXTENDS Refresh
=============================================================================
