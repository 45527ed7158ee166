-------------------------- MODULE ReferenceLimiter --------------------------
(***************************************************************************)
(* The abstract rate limiter: an answer depends on nothing but the time    *)
(* and the key's own use of the limiter since its last reset.  There is no *)
(* entry that could expire, be swept or be stale.  May(k, u, at, n) says   *)
(* when a call of key k for n units at time "at" may be admitted, and      *)
(* Must(k, u, at, n) when it has to be, if the key's usage is u: u[s]      *)
(* units since time s.  Every algorithm of the library has its own May and *)
(* Must, and a store is shown to implement this specification.             *)
(***************************************************************************)
EXTENDS Ledger

CONSTANTS May(_, _, _, _), Must(_, _, _, _)

Allow(k, n) ==
  \/ May(k, Usage(k), now, n) /\ Admit(k, n)
  \/ ~ Must(k, Usage(k), now, n) /\ Refuse(k, n)

Reset(k) == Forget(k)

Next ==
  \/ AdvanceClock
  \/ \E k \in Keys : Reset(k) \/ \E n \in Costs : Allow(k, n)

Spec == LedgerInit /\ [][Next]_ledger

=============================================================================
