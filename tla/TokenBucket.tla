----------------------------- MODULE TokenBucket -----------------------------
(***************************************************************************)
(* AllowTokenBucket of the in-memory store, for the keys of a token bucket *)
(* limiter.  One token is Scale units, and Rate units flow in at every     *)
(* tick of the clock, so that the bucket holds a whole number of units.    *)
(***************************************************************************)
EXTENDS MemoryStore, Policies

MutBucketKeepsTime(e, at) ==
  CASE Missing(e, at) ->
         [ZeroEntry EXCEPT !.tokens = Full, !.lastUpd = at]
    [] ~ Missing(e, at) /\ at > e.lastUpd ->
         [e EXCEPT !.tokens = Least(@ + Rate * (at - e.lastUpd), Full)]
    [] OTHER -> e

\* The bucket of a key whose entry is e, refilled up to time "at".
Bucket(e, at) ==
  CASE Missing(e, at) ->
         [ZeroEntry EXCEPT !.tokens = Full, !.lastUpd = at]
    [] ~ Missing(e, at) /\ e.lastUpd = Never ->
         [e EXCEPT !.tokens = Full, !.lastUpd = at]
    [] ~ Missing(e, at) /\ e.lastUpd # Never /\ at > e.lastUpd ->
         [e EXCEPT !.tokens = Least(@ + Rate * (at - e.lastUpd), Full),
                   !.lastUpd = at]
    [] OTHER -> e

MutDecideTokenBucket(e, at, n) ==
  LET b == Bucket(e, at)
      allowed == b.tokens >= n * Scale
      left == IF allowed THEN b.tokens - n * Scale ELSE b.tokens
  IN  [allowed    |-> allowed,
       entry      |-> [b EXCEPT !.tokens = left, !.expiresAt = at + TTL],
       remaining  |-> left \div Scale,
       retryAfter |-> IF allowed THEN 0 ELSE (Full - left) \div Rate]

\* AllowTokenBucket for n tokens.  The waiting time is cut to whole ticks.
DecideTokenBucket(e, at, n) ==
  LET b == Bucket(e, at)
      allowed == b.tokens >= n * Scale
      left == IF allowed THEN b.tokens - n * Scale ELSE b.tokens
  IN  [allowed    |-> allowed,
       entry      |-> [b EXCEPT !.tokens = left, !.expiresAt = at + TTL],
       remaining  |-> left \div Scale,
       retryAfter |-> IF allowed THEN 0 ELSE (n * Scale - left) \div Rate]

AllowTokenBucket(k, n) == Answer(k, n, DecideTokenBucket(data[k], now, n))

-----------------------------------------------------------------------------

BucketTypeOK ==
  \A k \in BucketKeys : data[k] # NoEntry => data[k].tokens <= Full

\* In no span of time is more admitted for a key than its capacity and the
\* tokens of the span (memory.go:168-186, e2e/stress_test.go:66).
RateBound ==
  \A k \in BucketKeys : \A s \in 0..now :
    Since(k, s) * Scale <= Full + Rate * (now - s)

\* RetryAfter is right up to the cut to whole ticks (memory.go:201-211): a
\* refused caller that retries alone is refused again at any earlier time and
\* admitted one tick later at most, whatever expires in between.
BucketRetryTight ==
  \A k \in BucketKeys : \A n \in {m \in Costs : m <= Capacity} :
    LET d == DecideTokenBucket(data[k], now, n)
        Retry(w) == DecideTokenBucket(d.entry, now + w, n).allowed
    IN  ~ d.allowed =>
          Retry(d.retryAfter + 1) /\ \A w \in 0..(d.retryAfter - 1) : ~ Retry(w)

=============================================================================
