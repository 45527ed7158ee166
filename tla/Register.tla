------------------------------ MODULE Register ------------------------------
(***************************************************************************)
(* What Get, Set and Increment of a store promise to those who use them    *)
(* directly: under every key there is a value until its deadline, and      *)
(* nothing from then on.  There is no entry that is still there although   *)
(* it has expired, and nobody who removes entries.                         *)
(***************************************************************************)
EXTENDS Integers

CONSTANTS
  Keys, MaxTime,
  Values,       \* what Set is called with
  TTL,          \* how long a value stays that Set puts there
  CountTTL,     \* how long one stays that Increment puts there
  Nothing,      \* there is no value
  NoAnswer,     \* the last operation has no result
  Shown(_),     \* what Get returns of a value, or of Nothing
  Bumped(_, _), \* what Increment makes of a value, or of Nothing, at a time
  Counted(_),   \* what Increment returns, having made that of it
  Renews        \* does Increment give a value that is there a new deadline?

VARIABLES now, value, until, answer

Init ==
  /\ now = 0
  /\ value = [k \in Keys |-> Nothing]
  /\ until = [k \in Keys |-> 0]
  /\ answer = NoAnswer

Tick ==
  /\ now < MaxTime
  /\ now' = now + 1
  /\ value' = [k \in Keys |-> IF now + 1 >= until[k] THEN Nothing ELSE value[k]]
  /\ until' = [k \in Keys |-> IF now + 1 >= until[k] THEN 0 ELSE until[k]]
  /\ UNCHANGED answer

Get(k) ==
  /\ answer' = Shown(value[k])
  /\ UNCHANGED <<now, value, until>>

Set(k, v) ==
  /\ value' = [value EXCEPT ![k] = v]
  /\ until' = [until EXCEPT ![k] = now + TTL]
  /\ answer' = NoAnswer
  /\ UNCHANGED now

Increment(k) ==
  /\ value' = [value EXCEPT ![k] = Bumped(value[k], now)]
  /\ until' = IF value[k] = Nothing \/ Renews THEN [until EXCEPT ![k] = now + CountTTL] ELSE until
  /\ answer' = Counted(value'[k])
  /\ UNCHANGED now

Reset(k) ==
  /\ value' = [value EXCEPT ![k] = Nothing]
  /\ until' = [until EXCEPT ![k] = 0]
  /\ answer' = NoAnswer
  /\ UNCHANGED now

Next ==
  \/ Tick
  \/ \E k \in Keys :
       Get(k) \/ Increment(k) \/ Reset(k) \/ \E v \in Values : Set(k, v)

Spec == Init /\ [][Next]_<<now, value, until, answer>>

=============================================================================
