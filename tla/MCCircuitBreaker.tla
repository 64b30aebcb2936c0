-------------------------- MODULE MCCircuitBreaker --------------------------
(* Small instances of CircuitBreaker: the callers. *)
EXTENDS CircuitBreaker, TLC

CONSTANTS c1, c2, c3, c4

AnyCaller == Permutations(Callers)
=============================================================================
