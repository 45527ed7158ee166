---------------------------- MODULE MCMiddleware ----------------------------
(* The middleware on a small instance. *)
EXTENDS Middleware, TLC

CONSTANTS r1, r2, r3, k

OneShard == [key \in Keys |-> 0]

Symmetry == Permutations(Requests)

=============================================================================
