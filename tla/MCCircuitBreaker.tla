-------------------------- MODULE MCCircuitBreaker --------------------------
(* Instances of CircuitBreaker for TLC: an ordinary channel whose upstream *)
(* may fail, one whose upstream never does, and a Command Code channel.    *)
EXTENDS CircuitBreaker, TLC

CONSTANTS plain, cc

MCPriority == [c \in Channels |-> IF c = plain THEN 0 ELSE 1]

Symmetry == Permutations(Requests) \cup Permutations(Probes)
=============================================================================
