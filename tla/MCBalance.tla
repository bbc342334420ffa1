------------------------------ MODULE MCBalance ------------------------------
(* An instance of Balance for TLC. *)
EXTENDS Balance

CONSTANTS c1, c2, a1, s1

MCAmounts == {-1, 0, 50, 150}
=============================================================================
