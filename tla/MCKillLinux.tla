---------------------------- MODULE MCKillLinux ----------------------------
(* Small instances of KillLinux: one killable pid that is reused. *)
EXTENDS KillLinux, TLC

CallSymmetry == Permutations(Calls)
=============================================================================
