--------------------------- MODULE MemoryLimiters ---------------------------
(***************************************************************************)
(* Limiters of all four kinds on one in-memory store, each with keys of    *)
(* its own.                                                                *)
(***************************************************************************)
EXTENDS TokenBucket, FixedWindow, SlidingCounter, SlidingLog

\* One Allow operation on key k.
Allow(k) ==
  \E n \in Costs :
    \/ k \in BucketKeys  /\ AllowTokenBucket(k, n)
    \/ k \in WindowKeys  /\ AllowFixedWindow(k, n)
    \/ k \in CounterKeys /\ AllowSlidingWindowCounter(k, n)
    \/ k \in LogKeys     /\ AllowSlidingWindowLog(k, n)

Next == Background \/ \E k \in Keys : Allow(k) \/ Reset(k)

Spec == StoreInit /\ [][Next]_vars

-----------------------------------------------------------------------------

TypeOK ==
  /\ StoreTypeOK
  /\ BucketTypeOK /\ WindowTypeOK /\ CounterTypeOK /\ LogTypeOK

Reference == INSTANCE ReferenceLimiter WITH May <- May, Must <- Must

\* The store implements the reference limiter (memory.go:158-471): buckets that
\* are refilled on demand, counters that are moved on demand, logs that are
\* trimmed on demand, entries that expire and are replaced, and a cleanup that
\* works with an old clock value answer every call as the policy does that
\* knows the key's whole history.
ImplementsReference == Reference!Spec

=============================================================================
