------------------------------ MODULE Policies ------------------------------
(***************************************************************************)
(* What the four kinds of limiter decide, said of a key's own use of the   *)
(* limiter and without the data the stores keep: the operators that make   *)
(* ReferenceLimiter the specification of a store.  u is a usage, u[s] the  *)
(* units admitted since time s.                                            *)
(***************************************************************************)
EXTENDS Windows

CONSTANTS
  BucketKeys, WindowKeys, CounterKeys, LogKeys,  \* the keys of each kind
  Capacity, Scale, Rate  \* of a bucket; a token is Scale units, and Rate
                         \* units flow in at every tick

ASSUME KindsApart ==
  /\ BucketKeys \cup WindowKeys \cup CounterKeys \cup LogKeys \subseteq Keys
  /\ BucketKeys \cap (WindowKeys \cup CounterKeys \cup LogKeys) = {}
  /\ WindowKeys \cap (CounterKeys \cup LogKeys) = {}
  /\ CounterKeys \cap LogKeys = {}

ASSUME BucketAssumption ==
  /\ Capacity \in Nat \ {0}
  /\ Scale \in Nat \ {0}
  /\ Rate \in Nat \ {0}

Full == Capacity * Scale

Least(a, b) == IF a <= b THEN a ELSE b

-----------------------------------------------------------------------------

\* Token bucket: n more units may be admitted if in no span of time that ends
\* now more is admitted than a full bucket and what flows in during the span.
FitsEnvelope(u, at, n) ==
  \A s \in DOMAIN u : (u[s] + n) * Scale <= Full + Rate * (at - s)

\* Fixed window: n more units may be admitted if the current window then has no
\* more than Limit.
FitsFixedWindow(u, at, n) == u[WindowStart(at)] + n <= Limit

\* What a key with usage u used of the previous window.
PreviousUse(u, at) ==
  IF WindowNum(at) = 0 THEN 0 ELSE u[WindowStart(at) - Span] - u[WindowStart(at)]

\* SpanMs times the estimate of the sliding window, n more units included.
Estimate(u, at, n) ==
  PreviousUse(u, at) * Left(at) + (u[WindowStart(at)] + n) * SpanMs

\* Sliding window counter: cut to a whole number, the estimate may not exceed
\* the limit.  A whole estimate of Limit + 1 may slip through the cut.
MustFitEstimate(u, at, n) == Estimate(u, at, n) < (Limit + 1) * SpanMs
MayFitEstimate(u, at, n) ==
  \/ MustFitEstimate(u, at, n)
  \/ Passed(at) > 0 /\ Estimate(u, at, n) = (Limit + 1) * SpanMs

\* Sliding window log: n more units may be admitted if the window that ends now
\* then has no more than Limit.
FitsSlidingWindow(u, at, n) ==
  u[IF at < Window THEN 0 ELSE at - Window + 1] + n <= Limit

\* The policy of each key.
May(k, u, at, n) ==
  \/ k \in BucketKeys  /\ FitsEnvelope(u, at, n)
  \/ k \in WindowKeys  /\ FitsFixedWindow(u, at, n)
  \/ k \in CounterKeys /\ MayFitEstimate(u, at, n)
  \/ k \in LogKeys     /\ FitsSlidingWindow(u, at, n)

Must(k, u, at, n) ==
  \/ k \in BucketKeys  /\ FitsEnvelope(u, at, n)
  \/ k \in WindowKeys  /\ FitsFixedWindow(u, at, n)
  \/ k \in CounterKeys /\ MustFitEstimate(u, at, n)
  \/ k \in LogKeys     /\ FitsSlidingWindow(u, at, n)

=============================================================================
