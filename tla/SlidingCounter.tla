--------------------------- MODULE SlidingCounter ---------------------------
(***************************************************************************)
(* AllowSlidingWindowCounter of the in-memory store, for the keys of a     *)
(* sliding window counter limiter: the count of the current window plus    *)
(* the share of the previous window's count that the sliding window still  *)
(* overlaps.                                                               *)
(***************************************************************************)
EXTENDS MemoryStore, Policies

MutCounters(e, at) ==
  CASE Missing(e, at) ->
         [ZeroEntry EXCEPT !.windowNum = WindowNum(at), !.lastUpd = at]
    [] ~ Missing(e, at) /\ e.windowNum # WindowNum(at) ->
         [e EXCEPT !.prevCount = 0, !.count = 0,
                   !.windowNum = WindowNum(at), !.lastUpd = at]
    [] OTHER -> e

\* The counters of a key whose entry is e, for the window of time "at".
Counters(e, at) ==
  CASE Missing(e, at) ->
         [ZeroEntry EXCEPT !.windowNum = WindowNum(at), !.lastUpd = at]
    [] ~ Missing(e, at) /\ e.windowNum # WindowNum(at) ->
         [e EXCEPT !.prevCount = IF WindowNum(at) = e.windowNum + 1 THEN e.count ELSE 0,
                   !.count = 0,
                   !.windowNum = WindowNum(at),
                   !.lastUpd = at]
    [] OTHER -> e

\* AllowSlidingWindowCounter for n units.
DecideSlidingCounter(e, at, n, slip) ==
  LET c == Counters(e, at)
      estimate == (c.prevCount * Left(at)) \div SpanMs - slip + c.count
      allowed == Plus(estimate, n) <= Limit
  IN  [allowed    |-> allowed,
       entry      |-> [c EXCEPT !.count = IF allowed THEN Plus(@, n) ELSE @,
                                !.expiresAt = WindowEnd(at) + Window],
       retryAfter |-> IF allowed THEN 0 ELSE WindowEnd(at) - at]

AllowSlidingWindowCounter(k, n) ==
  \E slip \in Slips(Counters(data[k], now).prevCount, now) :
    Answer(k, n, DecideSlidingCounter(data[k], now, n, slip))

-----------------------------------------------------------------------------

CounterTypeOK ==
  \A k \in CounterKeys : data[k] # NoEntry =>
    data[k].count \in 0..Limit /\ data[k].prevCount \in 0..Limit

\* What a window admits on top of what the previous one did is bounded by the
\* limit and the share of the previous window that has slid out, up to one unit
\* lost to the cut (memory.go:332-342): no burst of twice the limit where two
\* windows meet.
SmoothBoundary ==
  \A k \in CounterKeys :
    LET u == Usage(k)
    IN  u[WindowStart(now)] > 0 => Estimate(u, now, 0) <= (Limit + 1) * SpanMs

\* limiter.go:34 says that RetryAfter is how long to wait before retrying.
\* Where the next window starts the current count weighs fully as the previous
\* one (memory.go:333, 350-352).
CounterRetrySuffices ==
  \A k \in CounterKeys : \A n \in {m \in Costs : m <= Limit} :
    LET d == DecideSlidingCounter(data[k], now, n, 0)
    IN  d.allowed \/ DecideSlidingCounter(d.entry, now + d.retryAfter, n, 0).allowed

=============================================================================
