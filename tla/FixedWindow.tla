----------------------------- MODULE FixedWindow -----------------------------
(***************************************************************************)
(* AllowFixedWindow of the in-memory store, for the keys of a fixed window *)
(* limiter.                                                                *)
(***************************************************************************)
EXTENDS MemoryStore, Policies

MutCounterAnyTime(e, at) ==
  CASE Missing(e, at) ->
         [ZeroEntry EXCEPT !.windowNum = WindowNum(at), !.lastUpd = at]
    [] ~ Missing(e, at) /\ e.lastUpd # at ->
         [e EXCEPT !.count = 0, !.windowNum = WindowNum(at), !.lastUpd = at]
    [] OTHER -> e

MutCounterKept(e, at) ==
  IF Missing(e, at)
    THEN [ZeroEntry EXCEPT !.windowNum = WindowNum(at), !.lastUpd = at]
    ELSE [e EXCEPT !.windowNum = WindowNum(at)]

\* The counter of a key whose entry is e, for the window of time "at".
Counter(e, at) ==
  CASE Missing(e, at) ->
         [ZeroEntry EXCEPT !.windowNum = WindowNum(at), !.lastUpd = at]
    [] ~ Missing(e, at) /\ e.windowNum # WindowNum(at) ->
         [e EXCEPT !.count = 0, !.windowNum = WindowNum(at), !.lastUpd = at]
    [] OTHER -> e

MutDecideFixedWindow(e, at, n) ==
  LET c == Counter(e, at)
      allowed == Plus(c.count, n) <= Limit
      count == IF allowed THEN Plus(c.count, n) ELSE c.count
  IN  [allowed    |-> allowed,
       entry      |-> [c EXCEPT !.count = count, !.expiresAt = WindowEnd(at) + Window],
       remaining  |-> IF count > Limit THEN 0 ELSE Limit - count,
       retryAfter |-> IF allowed THEN 0 ELSE Window]

MutCountsRefused(e, at, n) ==
  LET c == Counter(e, at)
      count == Plus(c.count, n)
  IN  [allowed    |-> count <= Limit,
       entry      |-> [c EXCEPT !.count = count, !.expiresAt = WindowEnd(at) + Window],
       remaining  |-> IF count > Limit THEN 0 ELSE Limit - count,
       retryAfter |-> IF count <= Limit THEN 0 ELSE WindowEnd(at) - at]

\* AllowFixedWindow for n units.
DecideFixedWindow(e, at, n) ==
  LET c == Counter(e, at)
      allowed == Plus(c.count, n) <= Limit
      count == IF allowed THEN Plus(c.count, n) ELSE c.count
  IN  [allowed    |-> allowed,
       entry      |-> [c EXCEPT !.count = count, !.expiresAt = WindowEnd(at) + Window],
       remaining  |-> IF count > Limit THEN 0 ELSE Limit - count,
       retryAfter |-> IF allowed THEN 0 ELSE WindowEnd(at) - at]

AllowFixedWindow(k, n) == Answer(k, n, DecideFixedWindow(data[k], now, n))

-----------------------------------------------------------------------------

WindowTypeOK ==
  \A k \in WindowKeys : data[k] # NoEntry => data[k].count \in 0..Limit

\* No span as long as the window that is counted, which is the configured one
\* cut to whole milliseconds, admits more than twice the limit
\* (memory.go:243-269; docs/algorithms.md:80 calls this the worst case).
TwiceLimit ==
  \A k \in WindowKeys : \A s \in 0..now :
    now - s < Span => Since(k, s) <= 2 * Limit

\* RetryAfter is exact (memory.go:276-282): a refused caller that retries alone
\* is refused at any earlier time and admitted when it has passed.
WindowRetryExact ==
  \A k \in WindowKeys : \A n \in {m \in Costs : m <= Limit} :
    LET d == DecideFixedWindow(data[k], now, n)
        Retry(w) == DecideFixedWindow(d.entry, now + w, n).allowed
    IN  ~ d.allowed =>
          Retry(d.retryAfter) /\ \A w \in 0..(d.retryAfter - 1) : ~ Retry(w)

=============================================================================
