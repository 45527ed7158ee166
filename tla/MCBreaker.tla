------------------------------ MODULE MCBreaker ------------------------------
(* The circuit breaker on small instances. *)
EXTENDS Breaker, TLC

\* Callers are interchangeable; used by the safety runs only.
CallerSymmetry == Permutations(Callers)

=============================================================================
