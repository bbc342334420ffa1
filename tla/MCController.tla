---------------------------- MODULE MCController ----------------------------
(* Instances of Controller for TLC. *)
EXTENDS Controller, TLC

CONSTANTS s1, s2, q1, p1, p2

MCOneSetter == {s1}
MCTwoSetters == {s1, s2}
MCOneQuitter == {q1}
MCPorts == {p1, p2}
MCTwoGenerations == 1..2
MCThreeGenerations == 1..3
SafetySymmetry == Permutations(MCTwoSetters) \cup Permutations(MCPorts)
=============================================================================
