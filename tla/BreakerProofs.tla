---------------------------- MODULE BreakerProofs ----------------------------
(***************************************************************************)
(* Proofs about the circuit breaker and about the fallback store that uses *)
(* it, for any set of callers, any positive thresholds and cooldown, and   *)
(* any number of failures and resets.                                      *)
(***************************************************************************)
EXTENDS Fallback, FiniteSetTheorems, TLAPS

(* The pieces of the inductive invariant that no run checks by name. *)

\* Who closes found the breaker half-open, and only the holder of the mutex
\* could change that; who resets has already closed the breaker.
HolderSeesState ==
  \A c \in Callers :
    /\ pc[c] \in CloseSteps => state = "HalfOpen"
    /\ pc[c] \in {"resetFails", "resetSuccs", "resetUntil"} => state # "Open"

\* Deadlines lie at most one cooldown after the present, and at most one
\* after the clock value of the trip that is about to store its own.
DeadlinesBounded ==
  /\ \A c \in Callers : t[c] <= now
  /\ openUntil <= now + Cooldown
  /\ \A c \in Callers : pc[c] = "tripUntil" => openUntil <= t[c] + Cooldown

\* A trip that has stored its deadline keeps it until it opens the breaker.
TripKeepsDeadline ==
  \A c \in Callers :
    pc[c] \in {"tripFails", "tripSuccs", "tripState"} => openUntil >= Cooldown

IInv ==
  /\ TypeOK
  /\ Mutex
  /\ HolderSeesState
  /\ DeadlinesBounded
  /\ TripKeepsDeadline
  /\ OpenHasDeadline
  /\ NoLostTrip
  /\ NoLostClose

\* Every step keeps the types: counters and deadlines stay natural numbers, and
\* the budgets bound the failures and the resets.
LEMMA TypeStep ==
  ASSUME TypeOK, [Next]_vars
  PROVE  TypeOK'
<1> USE ThresholdsPositive, BoundsNatural DEF TypeOK, States, Go, Acquire,
        Release, budgets, counters, Steps, AllowSteps, ReportSteps, LockedSteps,
        CloseSteps, TripSteps, ResetSteps
<1>1. CASE UNCHANGED vars
  BY <1>1 DEF vars
<1>2. CASE Tick
  BY <1>2 DEF Tick
<1>3. ASSUME NEW c \in Callers, Step(c)
      PROVE  TypeOK'
  <2>1. CASE Allow(c)
    BY <2>1 DEF Allow, LoadState, Sample, CheckDeadline, Cas, ZeroSuccesses, Recheck
  <2>2. CASE CallSucceeds(c) \/ CallFails(c)
    BY <2>2 DEF CallSucceeds, CallFails
  <2>3. CASE ReportSuccess(c)
    BY <2>3 DEF ReportSuccess, LoadOnSuccess, ClearFailures, AddSuccess,
                LockClose, CloseFails, CloseSuccs, CloseState
  <2>4. CASE LoadOnFailure(c) \/ AddFailure(c) \/ LockTrip(c)
    BY <2>4 DEF LoadOnFailure, AddFailure, LockTrip
  <2>5. CASE Trip(c)
    BY <2>5 DEF Trip, TripUntil, TripFails, TripSuccs, TripState
  <2>6. CASE LockReset(c) \/ Reset(c)
    BY <2>6 DEF LockReset, Reset, ResetState, ResetFails, ResetSuccs, ResetUntil
  <2>7. QED
    BY <1>3, <2>1, <2>2, <2>3, <2>4, <2>5, <2>6 DEF Step, ReportFailure
<1>4. QED
  BY <1>1, <1>2, <1>3 DEF Next

\* The mutex is held exactly by the caller in the middle of closing, tripping
\* or resetting.
LEMMA MutexStep ==
  ASSUME TypeOK, Mutex, [Next]_vars
  PROVE  Mutex'
<1> USE NobodyIsNoCaller DEF TypeOK, Mutex, Go, Acquire, Release,
        Steps, AllowSteps, ReportSteps, LockedSteps, CloseSteps, TripSteps, ResetSteps
<1>1. CASE UNCHANGED vars
  BY <1>1 DEF vars
<1>2. CASE Tick
  BY <1>2 DEF Tick
<1>3. ASSUME NEW c \in Callers, Step(c)
      PROVE  Mutex'
  <2>1. CASE Allow(c)
    BY <2>1 DEF Allow, LoadState, Sample, CheckDeadline, Cas, ZeroSuccesses, Recheck
  <2>2. CASE CallSucceeds(c) \/ CallFails(c)
    BY <2>2 DEF CallSucceeds, CallFails
  <2>3. CASE ReportSuccess(c)
    BY <2>3 DEF ReportSuccess, LoadOnSuccess, ClearFailures, AddSuccess,
                LockClose, CloseFails, CloseSuccs, CloseState
  <2>4. CASE LoadOnFailure(c) \/ AddFailure(c) \/ LockTrip(c)
    BY <2>4 DEF LoadOnFailure, AddFailure, LockTrip
  <2>5. CASE Trip(c)
    BY <2>5 DEF Trip, TripUntil, TripFails, TripSuccs, TripState
  <2>6. CASE LockReset(c) \/ Reset(c)
    BY <2>6 DEF LockReset, Reset, ResetState, ResetFails, ResetSuccs, ResetUntil
  <2>7. QED
    BY <1>3, <2>1, <2>2, <2>3, <2>4, <2>5, <2>6 DEF Step, ReportFailure
<1>4. QED
  BY <1>1, <1>2, <1>3 DEF Next

\* While a caller closes, nobody can move the breaker from half-open: trips and
\* resets wait for the mutex and the compare-and-swap needs it open.
LEMMA HolderStep ==
  ASSUME TypeOK, Mutex, HolderSeesState, [Next]_vars
  PROVE  HolderSeesState'
<1> USE ThresholdsPositive DEF TypeOK, Mutex, Go, Acquire, Release, counters,
        budgets, Steps, AllowSteps, ReportSteps, LockedSteps, CloseSteps,
        TripSteps, ResetSteps, HolderSeesState
<1>1. CASE UNCHANGED vars
  BY <1>1 DEF vars
<1>2. CASE Tick
  BY <1>2 DEF Tick
<1>3. ASSUME NEW c \in Callers, Step(c)
      PROVE  HolderSeesState'
  <2>1. CASE Allow(c)
    BY <2>1 DEF Allow, LoadState, Sample, CheckDeadline, Cas, ZeroSuccesses, Recheck
  <2>2. CASE CallSucceeds(c) \/ CallFails(c)
    BY <2>2 DEF CallSucceeds, CallFails
  <2>3. CASE ReportSuccess(c)
    BY <2>3 DEF ReportSuccess, LoadOnSuccess, ClearFailures, AddSuccess,
                LockClose, CloseFails, CloseSuccs, CloseState
  <2>4. CASE LoadOnFailure(c) \/ AddFailure(c) \/ LockTrip(c)
    BY <2>4 DEF LoadOnFailure, AddFailure, LockTrip
  <2>5. CASE Trip(c)
    BY <2>5 DEF Trip, TripUntil, TripFails, TripSuccs, TripState
  <2>6. CASE LockReset(c) \/ Reset(c)
    BY <2>6 DEF LockReset, Reset, ResetState, ResetFails, ResetSuccs, ResetUntil
  <2>7. QED
    BY <1>3, <2>1, <2>2, <2>3, <2>4, <2>5, <2>6 DEF Step, ReportFailure
<1>4. QED
  BY <1>1, <1>2, <1>3 DEF Next

\* Time does not go back, and a trip samples it with the mutex held, so no
\* deadline stored meanwhile is later than the one the trip will store.
LEMMA DeadlineStep ==
  ASSUME TypeOK, Mutex, DeadlinesBounded, [Next]_vars
  PROVE  DeadlinesBounded'
<1> USE ThresholdsPositive DEF TypeOK, Mutex, Go, Acquire, Release, counters,
        budgets, Steps, AllowSteps, ReportSteps, LockedSteps, CloseSteps,
        TripSteps, ResetSteps, DeadlinesBounded
<1>1. CASE UNCHANGED vars
  BY <1>1 DEF vars
<1>2. CASE Tick
  BY <1>2 DEF Tick
<1>3. ASSUME NEW c \in Callers, Step(c)
      PROVE  DeadlinesBounded'
  <2>1. CASE Allow(c)
    BY <2>1 DEF Allow, LoadState, Sample, CheckDeadline, Cas, ZeroSuccesses, Recheck
  <2>2. CASE CallSucceeds(c) \/ CallFails(c)
    BY <2>2 DEF CallSucceeds, CallFails
  <2>3. CASE ReportSuccess(c)
    BY <2>3 DEF ReportSuccess, LoadOnSuccess, ClearFailures, AddSuccess,
                LockClose, CloseFails, CloseSuccs, CloseState
  <2>4. CASE LoadOnFailure(c) \/ AddFailure(c) \/ LockTrip(c)
    BY <2>4 DEF LoadOnFailure, AddFailure, LockTrip
  <2>5. CASE Trip(c)
    BY <2>5 DEF Trip, TripUntil, TripFails, TripSuccs, TripState
  <2>6. CASE LockReset(c) \/ Reset(c)
    BY <2>6 DEF LockReset, Reset, ResetState, ResetFails, ResetSuccs, ResetUntil
  <2>7. QED
    BY <1>3, <2>1, <2>2, <2>3, <2>4, <2>5, <2>6 DEF Step, ReportFailure
<1>4. QED
  BY <1>1, <1>2, <1>3 DEF Next

\* Only a trip and a Reset write the deadline, and both hold the mutex.
LEMMA TripKeepsStep ==
  ASSUME TypeOK, Mutex, TripKeepsDeadline, [Next]_vars
  PROVE  TripKeepsDeadline'
<1> USE ThresholdsPositive DEF TypeOK, Mutex, Go, Acquire, Release, counters,
        budgets, Steps, AllowSteps, ReportSteps, LockedSteps, CloseSteps,
        TripSteps, ResetSteps, TripKeepsDeadline
<1>1. CASE UNCHANGED vars
  BY <1>1 DEF vars
<1>2. CASE Tick
  BY <1>2 DEF Tick
<1>3. ASSUME NEW c \in Callers, Step(c)
      PROVE  TripKeepsDeadline'
  <2>1. CASE Allow(c)
    BY <2>1 DEF Allow, LoadState, Sample, CheckDeadline, Cas, ZeroSuccesses, Recheck
  <2>2. CASE CallSucceeds(c) \/ CallFails(c)
    BY <2>2 DEF CallSucceeds, CallFails
  <2>3. CASE ReportSuccess(c)
    BY <2>3 DEF ReportSuccess, LoadOnSuccess, ClearFailures, AddSuccess,
                LockClose, CloseFails, CloseSuccs, CloseState
  <2>4. CASE LoadOnFailure(c) \/ AddFailure(c) \/ LockTrip(c)
    BY <2>4 DEF LoadOnFailure, AddFailure, LockTrip
  <2>5. CASE Trip(c)
    BY <2>5 DEF Trip, TripUntil, TripFails, TripSuccs, TripState
  <2>6. CASE LockReset(c) \/ Reset(c)
    BY <2>6 DEF LockReset, Reset, ResetState, ResetFails, ResetSuccs, ResetUntil
  <2>7. QED
    BY <1>3, <2>1, <2>2, <2>3, <2>4, <2>5, <2>6 DEF Step, ReportFailure
<1>4. QED
  BY <1>1, <1>2, <1>3 DEF Next

\* The deadline is stored before the breaker opens, and cleared only after it
\* was closed.
LEMMA OpenStep ==
  ASSUME TypeOK, Mutex, HolderSeesState, DeadlinesBounded, DeadlinesBounded',
         TripKeepsDeadline, OpenHasDeadline, [Next]_vars
  PROVE  OpenHasDeadline'
<1> USE ThresholdsPositive DEF TypeOK, Mutex, Go, Acquire, Release, counters,
        budgets, Steps, AllowSteps, ReportSteps, LockedSteps, CloseSteps,
        TripSteps, ResetSteps, HolderSeesState,
        DeadlinesBounded, TripKeepsDeadline, OpenHasDeadline
<1>1. CASE UNCHANGED vars
  BY <1>1 DEF vars
<1>2. CASE Tick
  BY <1>2 DEF Tick
<1>3. ASSUME NEW c \in Callers, Step(c)
      PROVE  OpenHasDeadline'
  <2>1. CASE Allow(c)
    BY <2>1 DEF Allow, LoadState, Sample, CheckDeadline, Cas, ZeroSuccesses, Recheck
  <2>2. CASE CallSucceeds(c) \/ CallFails(c)
    BY <2>2 DEF CallSucceeds, CallFails
  <2>3. CASE ReportSuccess(c)
    BY <2>3 DEF ReportSuccess, LoadOnSuccess, ClearFailures, AddSuccess,
                LockClose, CloseFails, CloseSuccs, CloseState
  <2>4. CASE LoadOnFailure(c) \/ AddFailure(c) \/ LockTrip(c)
    BY <2>4 DEF LoadOnFailure, AddFailure, LockTrip
  <2>5. CASE Trip(c)
    BY <2>5 DEF Trip, TripUntil, TripFails, TripSuccs, TripState
  <2>6. CASE LockReset(c) \/ Reset(c)
    BY <2>6 DEF LockReset, Reset, ResetState, ResetFails, ResetSuccs, ResetUntil
  <2>7. QED
    BY <1>3, <2>1, <2>2, <2>3, <2>4, <2>5, <2>6 DEF Step, ReportFailure
<1>4. QED
  BY <1>1, <1>2, <1>3 DEF Next

\* The add that reaches the threshold sends its caller to trip, and the count
\* is zero again before the caller is done.
LEMMA NoLostTripStep ==
  ASSUME TypeOK, Mutex, NoLostTrip, [Next]_vars
  PROVE  NoLostTrip'
<1> USE ThresholdsPositive DEF TypeOK, Mutex, Go, Acquire, Release, counters,
        budgets, Steps, AllowSteps, ReportSteps, LockedSteps, CloseSteps,
        TripSteps, ResetSteps, NoLostTrip
<1>1. CASE UNCHANGED vars
  BY <1>1 DEF vars
<1>2. CASE Tick
  BY <1>2 DEF Tick
<1>3. ASSUME NEW c \in Callers, Step(c)
      PROVE  NoLostTrip'
  <2>1. CASE Allow(c)
    BY <2>1 DEF Allow, LoadState, Sample, CheckDeadline, Cas, ZeroSuccesses, Recheck
  <2>2. CASE CallSucceeds(c) \/ CallFails(c)
    BY <2>2 DEF CallSucceeds, CallFails
  <2>3. CASE ReportSuccess(c)
    BY <2>3 DEF ReportSuccess, LoadOnSuccess, ClearFailures, AddSuccess,
                LockClose, CloseFails, CloseSuccs, CloseState
  <2>4. CASE LoadOnFailure(c) \/ AddFailure(c) \/ LockTrip(c)
    BY <2>4 DEF LoadOnFailure, AddFailure, LockTrip
  <2>5. CASE Trip(c)
    BY <2>5 DEF Trip, TripUntil, TripFails, TripSuccs, TripState
  <2>6. CASE LockReset(c) \/ Reset(c)
    BY <2>6 DEF LockReset, Reset, ResetState, ResetFails, ResetSuccs, ResetUntil
  <2>7. QED
    BY <1>3, <2>1, <2>2, <2>3, <2>4, <2>5, <2>6 DEF Step, ReportFailure
<1>4. QED
  BY <1>1, <1>2, <1>3 DEF Next

\* The add that reaches the threshold sends its caller to close; it turns back
\* only if the breaker is not half-open, and whoever makes it half-open again is
\* about to zero the count.
LEMMA NoLostCloseStep ==
  ASSUME TypeOK, Mutex, NoLostClose, [Next]_vars
  PROVE  NoLostClose'
<1> USE ThresholdsPositive DEF TypeOK, Mutex, Go, Acquire, Release, counters,
        budgets, Steps, AllowSteps, ReportSteps, LockedSteps, CloseSteps,
        TripSteps, ResetSteps, NoLostClose
<1>1. CASE UNCHANGED vars
  BY <1>1 DEF vars
<1>2. CASE Tick
  BY <1>2 DEF Tick
<1>3. ASSUME NEW c \in Callers, Step(c)
      PROVE  NoLostClose'
  <2>1. CASE Allow(c)
    BY <2>1 DEF Allow, LoadState, Sample, CheckDeadline, Cas, ZeroSuccesses, Recheck
  <2>2. CASE CallSucceeds(c) \/ CallFails(c)
    BY <2>2 DEF CallSucceeds, CallFails
  <2>3. CASE ReportSuccess(c)
    BY <2>3 DEF ReportSuccess, LoadOnSuccess, ClearFailures, AddSuccess,
                LockClose, CloseFails, CloseSuccs, CloseState
  <2>4. CASE LoadOnFailure(c) \/ AddFailure(c) \/ LockTrip(c)
    BY <2>4 DEF LoadOnFailure, AddFailure, LockTrip
  <2>5. CASE Trip(c)
    BY <2>5 DEF Trip, TripUntil, TripFails, TripSuccs, TripState
  <2>6. CASE LockReset(c) \/ Reset(c)
    BY <2>6 DEF LockReset, Reset, ResetState, ResetFails, ResetSuccs, ResetUntil
  <2>7. QED
    BY <1>3, <2>1, <2>2, <2>3, <2>4, <2>5, <2>6 DEF Step, ReportFailure
<1>4. QED
  BY <1>1, <1>2, <1>3 DEF Next

-----------------------------------------------------------------------------

\* IInv is inductive: it holds at first and every step keeps it.
THEOREM Invariance == Spec => []IInv
<1>1. Init => IInv
  BY ThresholdsPositive, BoundsNatural, NobodyIsNoCaller
  DEF Init, IInv, TypeOK, States, Steps, LockedSteps, CloseSteps, TripSteps,
      ResetSteps, Mutex, HolderSeesState, DeadlinesBounded, TripKeepsDeadline,
      OpenHasDeadline, NoLostTrip, NoLostClose
<1>2. IInv /\ [Next]_vars => IInv'
  BY TypeStep, MutexStep, HolderStep, DeadlineStep, TripKeepsStep, OpenStep,
     NoLostTripStep, NoLostCloseStep
  DEF IInv
<1>3. QED
  BY <1>1, <1>2, PTL DEF Spec

\* Type correctness of the breaker.
THEOREM TypeCorrect == Spec => []TypeOK
BY Invariance, PTL DEF IInv

\* A failure count at its threshold always has a trip on its way
\* (circuit.go:128-130).
THEOREM TripNotLost == Spec => []NoLostTrip
BY Invariance, PTL DEF IInv

\* A half-open breaker with its successes is always about to close or to
\* discard them (circuit.go:84-85, 104-111).
THEOREM CloseNotLost == Spec => []NoLostClose
BY Invariance, PTL DEF IInv

\* An open breaker has the deadline of a trip, at most one cooldown away
\* (circuit.go:139-143).
THEOREM OpenWithDeadline == Spec => []OpenHasDeadline
BY Invariance, PTL DEF IInv

\* Open closes only by Reset and half-open follows only from open
\* (circuit.go:84, 107-110, 143).
THEOREM DiagramFollowed == Spec => FollowsDiagram
<1>1. ASSUME IInv, [Next]_vars
      PROVE  [/\ state = "Open" /\ state' = "Closed" =>
                    \E c \in Callers : pc[c] = "resetState"
              /\ state # "HalfOpen" /\ state' = "HalfOpen" => state = "Open"]_vars
  <2>1. CASE Tick \/ UNCHANGED vars
    BY <2>1 DEF Tick, vars
  <2>2. ASSUME NEW c \in Callers, Step(c), state' # state
        PROVE  Cas(c) \/ CloseState(c) \/ TripState(c) \/ ResetState(c)
    BY <2>2 DEF Step, Allow, LoadState, Sample, CheckDeadline, ZeroSuccesses,
                Recheck, CallSucceeds, CallFails, ReportSuccess, LoadOnSuccess,
                ClearFailures, AddSuccess, LockClose, CloseFails, CloseSuccs,
                ReportFailure, LoadOnFailure, AddFailure, LockTrip, Trip,
                TripUntil, TripFails, TripSuccs, LockReset, Reset, ResetFails,
                ResetSuccs, ResetUntil
  <2>3. ASSUME NEW c \in Callers, CloseState(c)
        PROVE  state = "HalfOpen"
    BY <1>1, <2>3 DEF CloseState, Release, Go, IInv, HolderSeesState, CloseSteps
  <2>4. QED
    BY <1>1, <2>1, <2>2, <2>3 DEF Next, Cas, CloseState, TripState, ResetState, Go
<1>2. QED
  BY <1>1, Invariance, PTL DEF Spec, FollowsDiagram

\* A trip never moves the deadline back (circuit.go:136-140).
THEOREM CooldownKept == Spec => CooldownNeverShortened
<1>1. ASSUME IInv, [Next]_vars
      PROVE  [openUntil' < openUntil =>
                \E c \in Callers : pc[c] = "resetUntil"]_vars
  <2>1. CASE Tick \/ UNCHANGED vars
    BY <1>1, <2>1 DEF Tick, vars, IInv, TypeOK
  <2>2. ASSUME NEW c \in Callers, Step(c), openUntil' # openUntil
        PROVE  TripUntil(c) \/ ResetUntil(c)
    BY <2>2 DEF Step, Allow, LoadState, Sample, CheckDeadline, Cas,
                ZeroSuccesses, Recheck, CallSucceeds, CallFails, ReportSuccess,
                LoadOnSuccess, ClearFailures, AddSuccess, LockClose, CloseFails,
                CloseSuccs, CloseState, ReportFailure, LoadOnFailure,
                AddFailure, LockTrip, Trip, TripFails, TripSuccs, TripState,
                LockReset, Reset, ResetState, ResetFails, ResetSuccs
  <2>3. ASSUME NEW c \in Callers, TripUntil(c)
        PROVE  ~ (openUntil' < openUntil)
    BY <1>1, <2>3, ThresholdsPositive
    DEF TripUntil, Go, IInv, TypeOK, DeadlinesBounded
  <2>4. QED
    BY <1>1, <2>1, <2>2, <2>3 DEF Next, ResetUntil, Release, Go, IInv, TypeOK
<1>2. QED
  BY <1>1, Invariance, PTL DEF Spec, CooldownNeverShortened

-----------------------------------------------------------------------------
(* The fallback store *)

\* What the fallback store does with its breaker the breaker allows: of the
\* breaker, every step of the store is a step or leaves it alone.
LEMMA FallbackSteps == [FNext]_fvars => [Next]_vars
<1> USE DEF Next, Step
<1>1. ASSUME NEW c \in Callers, Serve(c)
      PROVE  Step(c) \/ UNCHANGED vars
  BY <1>1 DEF Serve, Ask, InBreaker, PrimaryAnswers, PrimaryFails, AskSecondary, Allow
<1>2. QED
  BY <1>1 DEF FNext, FTick, ResetPrimary, ResetSecondary, fvars

\* So every theorem about the breaker holds of the breaker of the store.
THEOREM FallbackUsesBreaker == FSpec => Spec
<1>1. FInit => Init
  BY DEF FInit
<1>2. QED
  BY <1>1, FallbackSteps, PTL DEF FSpec, Spec

(* The pieces of the inductive invariant of the fallback store. *)

FailSteps == {"fail", "addFail", "lockTrip"} \cup TripSteps
SuccessSteps == {"succ", "clear", "addSucc", "lockClose"} \cup CloseSteps

\* Who reports a success has its answer, and who reports a failure has none yet.
RequestsMatch ==
  \A c \in Callers :
    /\ pc[c] \in SuccessSteps => request[c] = "done"
    /\ pc[c] \in FailSteps => request[c] = "failed"

\* The calls that have failed and that the breaker may still count.
Uncounted == {c \in Callers : pc[c] \in {"fail", "addFail"}}

FailuresCounted ==
  /\ IsFiniteSet(Uncounted)
  /\ failureCount + Cardinality(Uncounted) <= failures

\* The breaker is no longer as it was made, or a request sees that it was not.
Opened ==
  \/ state # "Closed"
  \/ \E c \in Callers : pc[c] \in AllowSteps \cup TripSteps \cup {"lockTrip"}
  \/ \E c \in Callers : hasPrimary /\ pc[c] = "idle" /\ request[c] = "asked"
  \/ diverted

OpenedAfterThreshold == Opened => failures >= FailureThreshold

\* Of a Reset in the middle the primary store is already cleared or has failed;
\* how it ends says which of the two, and the same of the secondary store.
StoresCleared ==
  /\ reset \in {"nil", "primary"} => "old" \notin secondary
  /\ reset \in {"cleared", "nil", "secondary"} => "old" \notin primary

FInv ==
  /\ FallbackTypeOK
  /\ RequestsMatch
  /\ FailuresCounted
  /\ OpenedAfterThreshold
  /\ StoresCleared

\* The store has its types: it leaves its configuration alone, and calls of
\* the stores only add entries.
LEMMA FallbackTypeStep ==
  ASSUME FallbackTypeOK, [FNext]_fvars
  PROVE  FallbackTypeOK'
<1>1. TypeOK'
  BY FallbackSteps, TypeStep DEF FallbackTypeOK
<1> USE <1>1 DEF FallbackTypeOK, Entries, stores, Returned
<1>2. CASE UNCHANGED fvars \/ FTick
  BY <1>2 DEF fvars, FTick
<1>3. CASE ResetPrimary
  BY <1>3 DEF ResetPrimary, Aged
<1>4. CASE ResetSecondary
  BY <1>4 DEF ResetSecondary
<1>5. ASSUME NEW c \in Callers, Serve(c)
      PROVE  FallbackTypeOK'
  BY <1>5 DEF Serve, Ask, InBreaker, PrimaryAnswers, PrimaryFails, AskSecondary
<1>6. QED
  BY <1>2, <1>3, <1>4, <1>5 DEF FNext

\* A report begins with the answer or the failure of the primary store, and the
\* request changes again only when its caller is idle.
LEMMA RequestsStep ==
  ASSUME FallbackTypeOK, RequestsMatch, [FNext]_fvars
  PROVE  RequestsMatch'
<1> USE DEF FallbackTypeOK, TypeOK, RequestsMatch, FailSteps, SuccessSteps, Go,
        Acquire, Release, Steps, AllowSteps, ReportSteps, LockedSteps, CloseSteps,
        TripSteps, ResetSteps
<1>1. CASE UNCHANGED fvars \/ FTick
  BY <1>1 DEF fvars, FTick, Tick, vars
<1>2. CASE ResetPrimary \/ ResetSecondary
  BY <1>2 DEF ResetPrimary, ResetSecondary, vars
<1>3. ASSUME NEW c \in Callers, Serve(c)
      PROVE  RequestsMatch'
  <2>1. CASE Ask(c)
    BY <2>1 DEF Ask, LoadState, vars
  <2>2. CASE /\ Sample(c) \/ CheckDeadline(c) \/ Cas(c) \/ ZeroSuccesses(c) \/ Recheck(c)
             /\ UNCHANGED request
    BY <2>2 DEF Sample, CheckDeadline, Cas, ZeroSuccesses, Recheck
  <2>3. CASE ReportSuccess(c) /\ UNCHANGED request
    BY <2>3 DEF ReportSuccess, LoadOnSuccess, ClearFailures, AddSuccess,
                LockClose, CloseFails, CloseSuccs, CloseState
  <2>4. CASE ReportFailure(c) /\ UNCHANGED request
    BY <2>4 DEF ReportFailure, LoadOnFailure, AddFailure, LockTrip, Trip, TripUntil,
                TripFails, TripSuccs, TripState
  <2>5. CASE PrimaryAnswers(c) \/ PrimaryFails(c)
    BY <2>5 DEF PrimaryAnswers, PrimaryFails, CallSucceeds, CallFails
  <2>6. CASE AskSecondary(c)
    BY <2>6 DEF AskSecondary, vars
  <2>7. QED
    BY <1>3, <2>1, <2>2, <2>3, <2>4, <2>5, <2>6 DEF Serve, InBreaker
<1>4. QED
  BY <1>1, <1>2, <1>3 DEF FNext

\* Of the breaker: each failure is counted once at most, by the caller whose
\* call failed, and whatever else touches the count makes it zero.
LEMMA CountedStep ==
  ASSUME TypeOK, FailuresCounted, [Next]_vars
  PROVE  FailuresCounted'
<1> USE DEF Go, Acquire, Release
<1>1. /\ failureCount \in Nat /\ failures \in Nat /\ Cardinality(Uncounted) \in Nat
      /\ pc \in [Callers -> Steps]
  BY FS_CardinalityType, BoundsNatural DEF TypeOK, FailuresCounted
<1>2. ASSUME Uncounted' = Uncounted, failures' = failures,
             failureCount' = failureCount \/ failureCount' = 0
      PROVE  FailuresCounted'
  BY <1>1, <1>2 DEF FailuresCounted
<1>3. ASSUME NEW c \in Callers, Uncounted' = Uncounted \ {c}, c \in Uncounted,
             failures' = failures,
             failureCount' = failureCount \/ failureCount' = failureCount + 1
      PROVE  FailuresCounted'
  <2>1. IsFiniteSet(Uncounted') /\ Cardinality(Uncounted') = Cardinality(Uncounted) - 1
    BY <1>3, FS_RemoveElement DEF FailuresCounted
  <2>2. QED
    BY <1>1, <1>3, <2>1 DEF FailuresCounted
<1>4. ASSUME NEW c \in Callers, CallFails(c)
      PROVE  FailuresCounted'
  <2>1. Uncounted' = Uncounted \cup {c} /\ c \notin Uncounted
    BY <1>1, <1>4 DEF CallFails, Uncounted
  <2>2. IsFiniteSet(Uncounted') /\ Cardinality(Uncounted') = Cardinality(Uncounted) + 1
    BY <2>1, FS_AddElement DEF FailuresCounted
  <2>3. failures' = failures + 1 /\ failureCount' = failureCount
    BY <1>4 DEF CallFails, counters
  <2>4. QED
    BY <1>1, <2>2, <2>3 DEF FailuresCounted
<1>5. ASSUME NEW c \in Callers, LoadOnFailure(c) \/ AddFailure(c)
      PROVE  FailuresCounted'
  <2>1. c \in Uncounted
    BY <1>5 DEF LoadOnFailure, AddFailure, Uncounted
  <2>2. CASE pc'[c] = "addFail"
    <3>1. LoadOnFailure(c)
      BY <1>1, <1>5, <2>2 DEF AddFailure
    <3>2. Uncounted' = Uncounted
      BY <1>1, <2>1, <2>2, <3>1 DEF LoadOnFailure, Uncounted
    <3>3. QED
      BY <1>2, <3>1, <3>2 DEF LoadOnFailure, counters, budgets
  <2>3. CASE pc'[c] # "addFail"
    <3>1. Uncounted' = Uncounted \ {c}
      BY <1>1, <1>5, <2>3 DEF LoadOnFailure, AddFailure, Uncounted
    <3>2. QED
      BY <1>3, <1>5, <2>1, <3>1 DEF LoadOnFailure, AddFailure, counters, budgets
  <2>4. QED
    BY <2>2, <2>3
<1>6. CASE UNCHANGED vars \/ Tick
  BY <1>2, <1>6 DEF vars, Tick, Uncounted, counters, budgets
<1>7. ASSUME NEW c \in Callers, Step(c),
             ~ (CallFails(c) \/ LoadOnFailure(c) \/ AddFailure(c))
      PROVE  FailuresCounted'
  <2> USE <1>1 DEF Uncounted, counters, budgets
  <2>1. CASE Allow(c)
    BY <1>2, <2>1 DEF Allow, LoadState, Sample, CheckDeadline, Cas, ZeroSuccesses, Recheck
  <2>2. CASE CallSucceeds(c) \/ LockTrip(c)
    BY <1>2, <2>2 DEF CallSucceeds, LockTrip
  <2>3. CASE ReportSuccess(c)
    BY <1>2, <2>3 DEF ReportSuccess, LoadOnSuccess, ClearFailures, AddSuccess,
                LockClose, CloseFails, CloseSuccs, CloseState
  <2>4. CASE Trip(c)
    BY <1>2, <2>4 DEF Trip, TripUntil, TripFails, TripSuccs, TripState
  <2>5. CASE LockReset(c) \/ Reset(c)
    BY <1>2, <2>5 DEF LockReset, Reset, ResetState, ResetFails, ResetSuccs, ResetUntil
  <2>6. QED
    BY <1>7, <2>1, <2>2, <2>3, <2>4, <2>5 DEF Step, ReportFailure
<1>8. QED
  BY <1>4, <1>5, <1>6, <1>7 DEF Next

\* From a breaker that never opened only the add that reaches the threshold
\* leads on, and it has counted failures only; a request that comes back from
\* the breaker has been admitted and reported.
LEMMA OpenedStep ==
  ASSUME FallbackTypeOK, RequestsMatch, FailuresCounted, OpenedAfterThreshold,
         [FNext]_fvars
  PROVE  OpenedAfterThreshold'
<1> USE ThresholdsPositive DEF Go, Acquire, Release, counters, budgets
<1>1. /\ failures \in Nat /\ failureCount \in Nat
      /\ pc \in [Callers -> Steps] /\ request \in [Callers -> {"done", "asked", "failed"}]
  BY BoundsNatural DEF FallbackTypeOK, TypeOK
<1>2. CASE Opened
  <2>1. failures' \in Nat /\ failures' >= failures
    <3>1. CASE \E c \in Callers : CallFails(c)
      BY <1>1, <3>1 DEF CallFails
    <3>2. ASSUME ~ \E c \in Callers : CallFails(c)
          PROVE  failures' = failures
      <4>1. CASE UNCHANGED vars \/ Tick
        BY <4>1 DEF vars, Tick
      <4>2. ASSUME NEW c \in Callers, Step(c)
            PROVE  failures' = failures
        BY <3>2, <4>2 DEF Step, Allow, LoadState, Sample, CheckDeadline, Cas,
           ZeroSuccesses, Recheck, CallSucceeds, ReportSuccess, LoadOnSuccess,
           ClearFailures, AddSuccess, LockClose, CloseFails, CloseSuccs, CloseState,
           ReportFailure, LoadOnFailure, AddFailure, LockTrip, Trip, TripUntil,
           TripFails, TripSuccs, TripState, LockReset, Reset, ResetState,
           ResetFails, ResetSuccs, ResetUntil
      <4>3. QED
        BY <4>1, <4>2, FallbackSteps DEF Next
    <3>3. QED
      BY <1>1, <3>1, <3>2
  <2>2. QED
    BY <1>1, <1>2, <2>1 DEF OpenedAfterThreshold
<1>3. CASE ~ Opened
  <2> USE DEF Opened
  <2>1. ASSUME NEW c \in Callers, AddFailure(c)
        PROVE  \/ OpenedAfterThreshold'
               \/ UNCHANGED <<state, failures>> /\ pc' = [pc EXCEPT ![c] = "idle"]
    <3>1. Cardinality(Uncounted) \in Nat /\ Cardinality(Uncounted) # 0
      BY <2>1, FS_CardinalityType, FS_EmptySet DEF AddFailure, Uncounted, FailuresCounted
    <3>2. failures >= failureCount + 1
      BY <1>1, <3>1 DEF FailuresCounted
    <3>3. QED
      BY <1>1, <2>1, <3>2 DEF AddFailure, OpenedAfterThreshold
  <2>2. CASE UNCHANGED fvars \/ FTick
    BY <1>3, <2>2 DEF fvars, vars, FTick, Tick, OpenedAfterThreshold
  <2>3. CASE ResetPrimary \/ ResetSecondary
    BY <1>3, <2>3 DEF ResetPrimary, ResetSecondary, vars, OpenedAfterThreshold
  <2>4. ASSUME NEW c \in Callers, Serve(c)
        PROVE  OpenedAfterThreshold'
    <3> USE <1>1, <1>3 DEF OpenedAfterThreshold, AllowSteps, TripSteps
    <3>1. CASE Ask(c)
      BY <3>1 DEF Ask, LoadState, vars
    <3>2. CASE Sample(c) \/ CheckDeadline(c) \/ Cas(c) \/ ZeroSuccesses(c) \/ Recheck(c)
      BY <3>2 DEF Sample, CheckDeadline, Cas, ZeroSuccesses, Recheck
    <3>3. CASE ReportSuccess(c) /\ UNCHANGED <<hasPrimary, request, diverted>>
      BY <3>3 DEF ReportSuccess, LoadOnSuccess, ClearFailures, AddSuccess, LockClose,
         CloseFails, CloseSuccs, CloseState, RequestsMatch, SuccessSteps, CloseSteps
    <3>4. CASE ReportFailure(c) /\ UNCHANGED <<hasPrimary, request, diverted>>
      <4>1. request[c] = "failed"
        BY <3>4 DEF ReportFailure, LoadOnFailure, AddFailure, LockTrip, Trip, TripUntil,
           TripFails, TripSuccs, TripState, RequestsMatch, FailSteps
      <4>2. CASE AddFailure(c)
        BY <2>1, <3>4, <4>1, <4>2 DEF AddFailure
      <4>3. CASE LoadOnFailure(c)
        BY <3>4, <4>1, <4>3 DEF LoadOnFailure
      <4>4. QED
        BY <3>4, <4>2, <4>3 DEF ReportFailure, LockTrip, Trip, TripUntil, TripFails,
           TripSuccs, TripState
    <3>5. CASE PrimaryAnswers(c) \/ PrimaryFails(c)
      BY <3>5 DEF PrimaryAnswers, PrimaryFails, CallSucceeds, CallFails
    <3>6. CASE AskSecondary(c)
      BY <3>6 DEF AskSecondary, vars
    <3>7. QED
      BY <2>4, <3>1, <3>2, <3>3, <3>4, <3>5, <3>6 DEF Serve, InBreaker
  <2>5. QED
    BY <2>2, <2>3, <2>4 DEF FNext
<1>4. QED
  BY <1>2, <1>3

\* Both stores age when a Reset begins; each is empty when it has been cleared
\* and then only gets new entries.  A store whose Reset failed promises nothing.
LEMMA ClearedStep ==
  ASSUME FallbackTypeOK, StoresCleared, [FNext]_fvars
  PROVE  StoresCleared'
<1> USE DEF FallbackTypeOK, StoresCleared, stores
<1>1. CASE UNCHANGED fvars \/ FTick
  BY <1>1 DEF fvars, FTick
<1>2. CASE ResetPrimary \/ ResetSecondary
  BY <1>2 DEF ResetPrimary, ResetSecondary
<1>3. ASSUME NEW c \in Callers, Serve(c)
      PROVE  StoresCleared'
  BY <1>3 DEF Serve, Ask, InBreaker, PrimaryAnswers, PrimaryFails, AskSecondary
<1>4. QED
  BY <1>1, <1>2, <1>3 DEF FNext

\* FInv is inductive: it holds at first and every step keeps it.
THEOREM FallbackInvariance == FSpec => []FInv
<1>1. FInit => FInv
  <2> SUFFICES ASSUME FInit PROVE FInv
    OBVIOUS
  <2>1. FallbackTypeOK
    <3>1. TypeOK
      BY ThresholdsPositive, BoundsNatural DEF FInit, Init, TypeOK, States, Steps
    <3>2. QED
      BY <3>1 DEF FInit, FallbackTypeOK, Entries, Returned
  <2>2. Uncounted = {}
    BY DEF FInit, Init, Uncounted
  <2>3. FailuresCounted
    BY <2>2, FS_EmptySet DEF FInit, Init, FailuresCounted
  <2>4. RequestsMatch /\ OpenedAfterThreshold /\ StoresCleared
    BY DEF FInit, Init, RequestsMatch, FailSteps, SuccessSteps, TripSteps, CloseSteps,
       OpenedAfterThreshold, Opened, AllowSteps, StoresCleared
  <2>5. QED
    BY <2>1, <2>3, <2>4 DEF FInv
<1>2. FInv /\ [FNext]_fvars => FInv'
  <2> SUFFICES ASSUME FInv, [FNext]_fvars PROVE FInv'
    OBVIOUS
  <2>1. TypeOK
    BY DEF FInv, FallbackTypeOK
  <2>2. QED
    BY <2>1, FallbackSteps, FallbackTypeStep, RequestsStep, CountedStep, OpenedStep,
       ClearedStep DEF FInv
<1>3. QED
  BY <1>1, <1>2, PTL DEF FSpec

\* Type correctness of the fallback store.
THEOREM FallbackTypeCorrect == FSpec => []FallbackTypeOK
BY FallbackInvariance, PTL DEF FInv

\* Requests are diverted only after as many failures as the threshold says
\* (fallback.go:85-93, circuit.go:117-131).
THEOREM DivertedAfterThreshold == FSpec => []DivertsOnlyAfterThreshold
<1>1. FInv => DivertsOnlyAfterThreshold
  BY DEF FInv, OpenedAfterThreshold, Opened, DivertsOnlyAfterThreshold
<1>2. QED
  BY <1>1, FallbackInvariance, PTL

\* Whatever requests do meanwhile, a Reset that has returned without an error
\* has cleared both stores, and one that has failed in one store has cleared the
\* other (fallback.go:68-82).
THEOREM ResetCleared == FSpec => []ResetClearsBoth
<1>1. FInv => ResetClearsBoth
  BY DEF FInv, StoresCleared, ResetClearsBoth
<1>2. QED
  BY <1>1, FallbackInvariance, PTL

==============================================================================
