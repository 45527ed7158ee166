----------------------------- MODULE SlidingLog -----------------------------
(***************************************************************************)
(* AllowSlidingWindowLog of the in-memory store, for the keys of a sliding *)
(* window log limiter: the times of all units admitted in the last window. *)
(***************************************************************************)
EXTENDS MemoryStore, Policies

\* The log of a key whose entry is e, before old times are removed.
Log(e, at) == IF Missing(e, at) THEN [ZeroEntry EXCEPT !.lastUpd = at] ELSE e

\* How many times at the head of log q are not after "from".
Cutoff(q, from) ==
  CHOOSE c \in 0..Len(q) :
    /\ \A i \in 1..c : q[i] <= from
    /\ c < Len(q) => q[c + 1] > from

Recent(q, from) == SubSeq(q, Cutoff(q, from) + 1, Len(q))

Copies(n, at) == [i \in 1..n |-> at]

MutDecideSlidingLog(e, at, n) ==
  LET q == Recent(Log(e, at).requests, at - Window)
      allowed == Len(q) + n <= Limit
      needed == Len(q) + n - Limit
  IN  [allowed    |-> allowed,
       entry      |-> [Log(e, at) EXCEPT
                         !.requests = IF allowed THEN q \o Copies(n, at) ELSE q,
                         !.expiresAt = at + TTL],
       retryAfter |-> IF allowed \/ q = << >> THEN 0 ELSE q[1] + Window - at]

MutAddsOne(e, at, n) ==
  LET q == Recent(Log(e, at).requests, at - Window)
      allowed == Len(q) + n <= Limit
  IN  [allowed    |-> allowed,
       entry      |-> [Log(e, at) EXCEPT
                         !.requests = IF allowed THEN Append(q, at) ELSE q,
                         !.expiresAt = at + TTL],
       retryAfter |-> 0]

\* AllowSlidingWindowLog for n units.
DecideSlidingLog(e, at, n) ==
  LET q == Recent(Log(e, at).requests, at - Window)
      allowed == Len(q) + n <= Limit
      needed == Len(q) + n - Limit
  IN  [allowed    |-> allowed,
       entry      |-> [Log(e, at) EXCEPT
                         !.requests = IF allowed THEN q \o Copies(n, at) ELSE q,
                         !.expiresAt = at + TTL],
       retryAfter |-> CASE allowed \/ q = << >> -> 0
                        [] ~ allowed /\ needed \in 1..Len(q) -> q[needed] + Window - at
                        [] OTHER -> Window]

AllowSlidingWindowLog(k, n) == Answer(k, n, DecideSlidingLog(data[k], now, n))

-----------------------------------------------------------------------------

LogTypeOK ==
  \A k \in LogKeys : data[k] # NoEntry => Len(data[k].requests) <= Limit

\* No span as long as the window admits more than the limit (memory.go:387-408;
\* docs/algorithms.md:105 promises no burst beyond it).
StrictLimit ==
  \A k \in LogKeys : \A s \in 0..now : now - s < Window => Since(k, s) <= Limit

\* RetryAfter is exact, to the request whose expiry makes room for n units
\* (memory.go:419-432): a refused caller that retries alone is refused at any
\* earlier time and admitted when it has passed.
LogRetryExact ==
  \A k \in LogKeys : \A n \in {m \in Costs : m <= Limit} :
    LET d == DecideSlidingLog(data[k], now, n)
        Retry(w) == DecideSlidingLog(d.entry, now + w, n).allowed
    IN  ~ d.allowed =>
          Retry(d.retryAfter) /\ \A w \in 0..(d.retryAfter - 1) : ~ Retry(w)

=============================================================================
