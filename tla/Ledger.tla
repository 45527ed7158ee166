------------------------------- MODULE Ledger -------------------------------
(***************************************************************************)
(* What a rate limiter is judged by: the clock, how much it has admitted   *)
(* for each key and when, and its last answer.  Every model of a limiter   *)
(* keeps the ledger next to its own state; no limiter reads it.            *)
(***************************************************************************)
EXTENDS Integers

CONSTANTS
  Keys,     \* the keys in use
  Costs,    \* the values of n that AllowN is called with
  MaxTime,  \* bound: where the clock stops
  NoReply   \* no answer at this time yet

ASSUME LedgerAssumption ==
  /\ Costs \subseteq Nat
  /\ MaxTime \in Nat
  /\ NoReply \notin [key : Keys, n : Costs, allowed : BOOLEAN]

VARIABLES
  now,       \* the clock
  admitted,  \* units admitted for a key since it was last reset
  before,    \* of those, the units admitted strictly before each time
  reply      \* the last answer given at this time

ledger == <<now, admitted, before, reply>>

Times == 0..MaxTime

LedgerTypeOK ==
  /\ now \in Times
  /\ admitted \in [Keys -> Nat]
  /\ before \in [Keys -> [Times -> Nat]]
  /\ reply \in [key : Keys, n : Costs, allowed : BOOLEAN] \cup {NoReply}

LedgerInit ==
  /\ now = 0
  /\ admitted = [k \in Keys |-> 0]
  /\ before = [k \in Keys |-> [s \in Times |-> 0]]
  /\ reply = NoReply

\* Units admitted for key k at time s or later.
Since(k, s) == admitted[k] - before[k][s]

\* The same as a function of every time so far.
Usage(k) == [s \in 0..now |-> Since(k, s)]

AdvanceClock ==
  /\ now < MaxTime
  /\ now' = now + 1
  /\ before' = [k \in Keys |-> [before[k] EXCEPT ![now + 1] = admitted[k]]]
  /\ reply' = NoReply
  /\ UNCHANGED admitted

Admit(k, n) ==
  /\ admitted' = [admitted EXCEPT ![k] = @ + n]
  /\ reply' = [key |-> k, n |-> n, allowed |-> TRUE]
  /\ UNCHANGED <<now, before>>

Refuse(k, n) ==
  /\ reply' = [key |-> k, n |-> n, allowed |-> FALSE]
  /\ UNCHANGED <<now, admitted, before>>

\* A reset gives a key a fresh start.
Forget(k) ==
  /\ admitted' = [admitted EXCEPT ![k] = 0]
  /\ before' = [before EXCEPT ![k] = [s \in Times |-> 0]]
  /\ reply' = NoReply
  /\ UNCHANGED now

=============================================================================
