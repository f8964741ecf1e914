-------------------------- MODULE MCCircuitBreaker --------------------------
(* Instances of CircuitBreaker for TLC. *)
EXTENDS CircuitBreaker, TLC

(* Request tasks are interchangeable (used where only safety is checked). *)
TaskSymmetry == Permutations(Tasks)

=============================================================================
