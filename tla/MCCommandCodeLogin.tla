------------------------- MODULE MCCommandCodeLogin -------------------------
(* An instance of CommandCodeLogin for TLC. *)
EXTENDS CommandCodeLogin

CONSTANTS u1, u2, k1

MCAdmins == {u1, u2}
=============================================================================
