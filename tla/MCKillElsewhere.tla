--------------------------- MODULE MCKillElsewhere ---------------------------
(* Small instances of KillElsewhere: one killable pid that is reused. *)
EXTENDS KillElsewhere
=============================================================================
