------------------------------- MODULE Breaker -------------------------------
(***************************************************************************)
(* The circuit breaker of internal/circuit, used the way FallbackStore     *)
(* uses it: every caller repeats Allow, then, when admitted, one call of   *)
(* the primary store, then ReportSuccess or ReportFailure.  Any caller may *)
(* also Reset the breaker.                                                 *)
(*                                                                         *)
(* One action is one atomic operation of the code on shared memory (an     *)
(* atomic load, store, add or compare-and-swap) or one sampling of the     *)
(* clock.  Taking the mutex is merged with the step that follows it and    *)
(* releasing it with the store before it; no other thread can tell.        *)
(***************************************************************************)
EXTENDS Integers

CONSTANTS
  Callers,           \* the goroutines that use the store
  FailureThreshold,  \* Config.FailureThreshold
  SuccessThreshold,  \* Config.SuccessThreshold
  Cooldown,          \* Config.Cooldown, in ticks of the clock
  MaxFailures,       \* bound: how many calls of the primary store fail
  MaxResets,         \* bound: how many times Reset is called
  Nobody             \* "the mutex is free"; not a caller

ASSUME ThresholdsPositive ==
  /\ FailureThreshold \in Nat \ {0}
  /\ SuccessThreshold \in Nat \ {0}
  /\ Cooldown \in Nat \ {0}

ASSUME BoundsNatural == MaxFailures \in Nat /\ MaxResets \in Nat

ASSUME NobodyIsNoCaller == Nobody \notin Callers

VARIABLES
  state,         \* Breaker.state
  failureCount,  \* Breaker.failureCount
  successCount,  \* Breaker.successCount
  openUntil,     \* Breaker.openUntil
  mu,            \* the holder of Breaker.mu, or Nobody
  now,           \* the clock
  pc,            \* the next operation of each caller
  t,             \* the clock value each caller last sampled
  failures,      \* calls of the primary store that have failed
  resets         \* calls of Reset

counters == <<failureCount, successCount>>
budgets  == <<failures, resets>>
vars == <<state, counters, openUntil, mu, now, pc, t, budgets>>

States == {"Closed", "Open", "HalfOpen"}

AllowSteps   == {"sample", "deadline", "cas", "zero", "recheck"}
ReportSteps  == {"call", "succ", "clear", "addSucc", "lockClose", "fail",
                 "addFail", "lockTrip"}
CloseSteps   == {"closeFails", "closeSuccs", "closeState"}
TripSteps    == {"tripUntil", "tripFails", "tripSuccs", "tripState"}
ResetSteps   == {"resetState", "resetFails", "resetSuccs", "resetUntil"}

\* The operations performed with Breaker.mu held.
LockedSteps == CloseSteps \cup TripSteps \cup ResetSteps
Steps == {"idle"} \cup AllowSteps \cup ReportSteps \cup LockedSteps

TypeOK ==
  /\ state \in States
  /\ failureCount \in Nat
  /\ successCount \in Nat
  /\ openUntil \in Nat
  /\ mu \in Callers \cup {Nobody}
  /\ now \in Nat
  /\ pc \in [Callers -> Steps]
  /\ t \in [Callers -> Nat]
  /\ failures \in 0..MaxFailures
  /\ resets \in 0..MaxResets

Init ==
  /\ state = "Closed"
  /\ failureCount = 0
  /\ successCount = 0
  /\ openUntil = 0
  /\ mu = Nobody
  /\ now = 0
  /\ pc = [c \in Callers |-> "idle"]
  /\ t = [c \in Callers |-> 0]
  /\ failures = 0
  /\ resets = 0

-----------------------------------------------------------------------------

\* Caller c performs its operation "from" and goes on to operation "to".
Go(c, from, to) == pc[c] = from /\ pc' = [pc EXCEPT ![c] = to]

\* The same, for an operation that takes or releases the mutex.
Acquire(c, from, to) == Go(c, from, to) /\ mu = Nobody /\ mu' = c
Release(c, from) == Go(c, from, "idle") /\ mu' = Nobody

-----------------------------------------------------------------------------
(* Allow *)

\* Half-open admits without looking further.
MutLoadState(c) ==
  /\ \/ state = "Closed"   /\ Go(c, "idle", "call")
     \/ state = "HalfOpen" /\ Go(c, "idle", "zero")
     \/ state = "Open"     /\ Go(c, "idle", "sample")
  /\ UNCHANGED <<state, counters, openUntil, mu, now, t, budgets>>

LoadState(c) ==
  /\ \/ state # "Open" /\ Go(c, "idle", "call")
     \/ state = "Open" /\ Go(c, "idle", "sample")
  /\ UNCHANGED <<state, counters, openUntil, mu, now, t, budgets>>

Sample(c) ==
  /\ Go(c, "sample", "deadline")
  /\ t' = [t EXCEPT ![c] = now]
  /\ UNCHANGED <<state, counters, openUntil, mu, now, budgets>>

MutCheckDeadline(c) ==
  /\ \/ t[c] < openUntil  /\ Go(c, "deadline", "cas")
     \/ t[c] >= openUntil /\ Go(c, "deadline", "idle")
  /\ UNCHANGED <<state, counters, openUntil, mu, now, t, budgets>>

\* Idle again means "not admitted": FallbackStore asks the secondary store.
CheckDeadline(c) ==
  /\ \/ t[c] < openUntil  /\ Go(c, "deadline", "idle")
     \/ t[c] >= openUntil /\ Go(c, "deadline", "cas")
  /\ UNCHANGED <<state, counters, openUntil, mu, now, t, budgets>>

MutCas(c) ==
  /\ \/ state = "Open" /\ Go(c, "cas", "call") /\ state' = "HalfOpen"
     \/ state # "Open" /\ Go(c, "cas", "recheck") /\ UNCHANGED state
  /\ UNCHANGED <<counters, openUntil, mu, now, t, budgets>>

Cas(c) ==
  /\ \/ state = "Open" /\ Go(c, "cas", "zero") /\ state' = "HalfOpen"
     \/ state # "Open" /\ Go(c, "cas", "recheck") /\ UNCHANGED state
  /\ UNCHANGED <<counters, openUntil, mu, now, t, budgets>>

ZeroSuccesses(c) ==
  /\ Go(c, "zero", "call")
  /\ successCount' = 0
  /\ UNCHANGED <<state, failureCount, openUntil, mu, now, t, budgets>>

Recheck(c) ==
  /\ \/ state = "HalfOpen" /\ Go(c, "recheck", "call")
     \/ state # "HalfOpen" /\ Go(c, "recheck", "idle")
  /\ UNCHANGED <<state, counters, openUntil, mu, now, t, budgets>>

Allow(c) ==
  \/ LoadState(c) \/ Sample(c) \/ CheckDeadline(c)
  \/ Cas(c) \/ ZeroSuccesses(c) \/ Recheck(c)

-----------------------------------------------------------------------------
(* The call of the primary store *)

CallSucceeds(c) ==
  /\ Go(c, "call", "succ")
  /\ UNCHANGED <<state, counters, openUntil, mu, now, t, budgets>>

CallFails(c) ==
  /\ failures < MaxFailures
  /\ Go(c, "call", "fail")
  /\ failures' = failures + 1
  /\ UNCHANGED <<state, counters, openUntil, mu, now, t, resets>>

-----------------------------------------------------------------------------
(* ReportSuccess *)

LoadOnSuccess(c) ==
  /\ \/ state = "Closed"   /\ Go(c, "succ", "clear")
     \/ state = "HalfOpen" /\ Go(c, "succ", "addSucc")
     \/ state = "Open"     /\ Go(c, "succ", "idle")
  /\ UNCHANGED <<state, counters, openUntil, mu, now, t, budgets>>

ClearFailures(c) ==
  /\ Go(c, "clear", "idle")
  /\ failureCount' = 0
  /\ UNCHANGED <<state, successCount, openUntil, mu, now, t, budgets>>

AddSuccess(c) ==
  /\ successCount' = successCount + 1
  /\ IF successCount' >= SuccessThreshold
       THEN Go(c, "addSucc", "lockClose")
       ELSE Go(c, "addSucc", "idle")
  /\ UNCHANGED <<state, failureCount, openUntil, mu, now, t, budgets>>

MutLockCloseForgetsState(c) ==
  /\ Acquire(c, "lockClose", "closeFails")
  /\ UNCHANGED <<state, counters, openUntil, now, t, budgets>>

MutLockCloseKeepsMutex(c) ==
  /\ \/ state = "HalfOpen" /\ Acquire(c, "lockClose", "closeFails")
     \/ state # "HalfOpen" /\ Acquire(c, "lockClose", "idle")
  /\ UNCHANGED <<state, counters, openUntil, now, t, budgets>>

\* The state is read again under the mutex; unless it is still half-open the
\* mutex is released at once.
LockClose(c) ==
  /\ \/ state = "HalfOpen" /\ Acquire(c, "lockClose", "closeFails")
     \/ state # "HalfOpen" /\ mu = Nobody /\ Release(c, "lockClose")
  /\ UNCHANGED <<state, counters, openUntil, now, t, budgets>>

CloseFails(c) ==
  /\ Go(c, "closeFails", "closeSuccs")
  /\ failureCount' = 0
  /\ UNCHANGED <<state, successCount, openUntil, mu, now, t, budgets>>

CloseSuccs(c) ==
  /\ Go(c, "closeSuccs", "closeState")
  /\ successCount' = 0
  /\ UNCHANGED <<state, failureCount, openUntil, mu, now, t, budgets>>

CloseState(c) ==
  /\ Release(c, "closeState")
  /\ state' = "Closed"
  /\ UNCHANGED <<counters, openUntil, now, t, budgets>>

ReportSuccess(c) ==
  \/ LoadOnSuccess(c) \/ ClearFailures(c) \/ AddSuccess(c)
  \/ LockClose(c) \/ CloseFails(c) \/ CloseSuccs(c) \/ CloseState(c)

-----------------------------------------------------------------------------
(* ReportFailure and trip *)

LoadOnFailure(c) ==
  /\ \/ state = "HalfOpen" /\ Go(c, "fail", "lockTrip")
     \/ state = "Closed"   /\ Go(c, "fail", "addFail")
     \/ state = "Open"     /\ Go(c, "fail", "idle")
  /\ UNCHANGED <<state, counters, openUntil, mu, now, t, budgets>>

MutAddFailure(c) ==
  /\ failureCount' = failureCount + 1
  /\ IF failureCount' > FailureThreshold
       THEN Go(c, "addFail", "lockTrip")
       ELSE Go(c, "addFail", "idle")
  /\ UNCHANGED <<state, successCount, openUntil, mu, now, t, budgets>>

AddFailure(c) ==
  /\ failureCount' = failureCount + 1
  /\ IF failureCount' >= FailureThreshold
       THEN Go(c, "addFail", "lockTrip")
       ELSE Go(c, "addFail", "idle")
  /\ UNCHANGED <<state, successCount, openUntil, mu, now, t, budgets>>

MutLockTripStaleClock(c) ==
  /\ Acquire(c, "lockTrip", "tripUntil")
  /\ UNCHANGED <<state, counters, openUntil, now, t, budgets>>

MutLockTripOpensFirst(c) ==
  /\ Acquire(c, "lockTrip", "tripUntil")
  /\ t' = [t EXCEPT ![c] = now]
  /\ state' = "Open"
  /\ UNCHANGED <<counters, openUntil, now, budgets>>

\* The clock is sampled with the mutex held.
LockTrip(c) ==
  /\ Acquire(c, "lockTrip", "tripUntil")
  /\ t' = [t EXCEPT ![c] = now]
  /\ UNCHANGED <<state, counters, openUntil, now, budgets>>

MutTripUntil(c) ==
  /\ Go(c, "tripUntil", "tripFails")
  /\ openUntil' = t[c] - Cooldown
  /\ UNCHANGED <<state, counters, mu, now, t, budgets>>

TripUntil(c) ==
  /\ Go(c, "tripUntil", "tripFails")
  /\ openUntil' = t[c] + Cooldown
  /\ UNCHANGED <<state, counters, mu, now, t, budgets>>

TripFails(c) ==
  /\ Go(c, "tripFails", "tripSuccs")
  /\ failureCount' = 0
  /\ UNCHANGED <<state, successCount, openUntil, mu, now, t, budgets>>

TripSuccs(c) ==
  /\ Go(c, "tripSuccs", "tripState")
  /\ successCount' = 0
  /\ UNCHANGED <<state, failureCount, openUntil, mu, now, t, budgets>>

TripState(c) ==
  /\ Release(c, "tripState")
  /\ state' = "Open"
  /\ UNCHANGED <<counters, openUntil, now, t, budgets>>

Trip(c) == TripUntil(c) \/ TripFails(c) \/ TripSuccs(c) \/ TripState(c)

ReportFailure(c) ==
  LoadOnFailure(c) \/ AddFailure(c) \/ LockTrip(c) \/ Trip(c)

-----------------------------------------------------------------------------
(* Reset *)

LockReset(c) ==
  /\ resets < MaxResets
  /\ Acquire(c, "idle", "resetState")
  /\ resets' = resets + 1
  /\ UNCHANGED <<state, counters, openUntil, now, t, failures>>

ResetState(c) ==
  /\ Go(c, "resetState", "resetFails")
  /\ state' = "Closed"
  /\ UNCHANGED <<counters, openUntil, mu, now, t, budgets>>

ResetFails(c) ==
  /\ Go(c, "resetFails", "resetSuccs")
  /\ failureCount' = 0
  /\ UNCHANGED <<state, successCount, openUntil, mu, now, t, budgets>>

ResetSuccs(c) ==
  /\ Go(c, "resetSuccs", "resetUntil")
  /\ successCount' = 0
  /\ UNCHANGED <<state, failureCount, openUntil, mu, now, t, budgets>>

ResetUntil(c) ==
  /\ Release(c, "resetUntil")
  /\ openUntil' = 0
  /\ UNCHANGED <<state, counters, now, t, budgets>>

Reset(c) == ResetState(c) \/ ResetFails(c) \/ ResetSuccs(c) \/ ResetUntil(c)

-----------------------------------------------------------------------------

\* Time passes only while somebody can still tell: a deadline lies ahead, or
\* a trip has sampled the clock and not stored the deadline yet.
Tick ==
  /\ \/ now < openUntil
     \/ \E c \in Callers : pc[c] = "tripUntil" /\ now < t[c] + Cooldown
  /\ now' = now + 1
  /\ UNCHANGED <<state, counters, openUntil, mu, pc, t, budgets>>

Step(c) ==
  \/ Allow(c)
  \/ CallSucceeds(c) \/ CallFails(c)
  \/ ReportSuccess(c) \/ ReportFailure(c)
  \/ LockReset(c) \/ Reset(c)

Next == Tick \/ \E c \in Callers : Step(c)

Spec == Init /\ [][Next]_vars

\* What a caller does once it is running, the start of a Reset excepted.  A
\* call of the primary store may always fail; fairness asks only that it
\* returns.
Advance(c) ==
  \/ Allow(c)
  \/ CallSucceeds(c) \/ CallFails(c)
  \/ ReportSuccess(c) \/ ReportFailure(c)
  \/ Reset(c)

\* The clock advances, the scheduler runs every goroutine, requests keep
\* coming, and Go's mutex lets nobody starve (hence SF).
FairSpec == Spec /\ WF_vars(Tick) /\ \A c \in Callers : SF_vars(Advance(c))

-----------------------------------------------------------------------------
(* Safety *)

\* A mutex that is held is held by the one caller in a locked region.
Mutex == \A c \in Callers : (pc[c] \in LockedSteps) <=> (mu = c)

\* No trip is lost (circuit.go:128-130, 141): consecutive failures reach the
\* threshold only while somebody is on the way to open the breaker and to
\* zero the count, however the adds, the zeroing of successes, the closing and
\* the resets of other callers interleave.
NoLostTrip ==
  failureCount >= FailureThreshold =>
    \E c \in Callers : pc[c] \in {"lockTrip", "tripUntil", "tripFails"}

\* No close is lost (circuit.go:84-85, 104-111): a half-open breaker that has
\* its successes has somebody about to close it, or about to discard them
\* because the probe that opened this half-open period starts the count late.
\* Otherwise it would stay half-open with its threshold met.
NoLostClose ==
  state = "HalfOpen" /\ successCount >= SuccessThreshold =>
    \E c \in Callers : pc[c] \in {"zero", "lockClose", "closeFails", "closeSuccs"}

\* An open breaker has the deadline of a trip, not the zero of a Reset nor
\* that of a breaker that was never open, and the deadline is at most one
\* cooldown away: it neither probes at once nor diverts for longer
\* (circuit.go:139-143 against 155-158).
OpenHasDeadline ==
  state = "Open" => openUntil \in Cooldown..(now + Cooldown)

\* The breaker only moves along its diagram (circuit.go:84, 107-110, 143):
\* from open it is closed by a Reset alone, never by a success that waited
\* for the mutex while another caller tripped it; and it becomes half-open
\* only from open.
FollowsDiagram ==
  [][/\ state = "Open" /\ state' = "Closed" =>
          \E c \in Callers : pc[c] = "resetState"
     /\ state # "HalfOpen" /\ state' = "HalfOpen" => state = "Open"]_vars

\* A trip never moves the deadline back (circuit.go:136-140): of two trips
\* that compete for the mutex the later one ends later.  Only Reset clears
\* the deadline.
CooldownNeverShortened ==
  [][openUntil' < openUntil => \E c \in Callers : pc[c] = "resetUntil"]_vars

\* circuit.go:46 says that the breaker remains open for Cooldown before it
\* probes.  The compare-and-swap at line 84 can act on a deadline checked
\* before somebody else's probe failed and tripped the breaker again.
HalfOpenAfterCooldown ==
  [][state # "HalfOpen" /\ state' = "HalfOpen" => now >= openUntil]_vars

(* Liveness *)

\* Once the primary store stops failing the breaker closes and stays closed
\* (circuit.go:78-88, 103-111): no order of stale reports, late trips and
\* discarded successes leaves it open or half-open for ever.
Recovery == <>[](state = "Closed")

\* Every Allow, report and Reset returns (circuit.go:106-112, 136-137,
\* 153-154): no path keeps the mutex and nobody waits for it for ever.
EveryCallReturns == \A c \in Callers : pc[c] # "idle" ~> pc[c] = "idle"

=============================================================================
