----------------------- MODULE MCCommandCodeTransport -----------------------
(* An instance of CommandCodeTransport for TLC. *)
EXTENDS CommandCodeTransport

CONSTANTS r1, r2
=============================================================================
