--------------------------- MODULE MiddlewareProofs ---------------------------
(***************************************************************************)
(* The middleware handles each request as the limiter decided, lets no     *)
(* more past than the limit, and tells refused clients to wait for long    *)
(* enough: proofs for any number of concurrent requests, any limit, window *)
(* and clock resolution.                                                   *)
(***************************************************************************)
EXTENDS Middleware, MemoryProofs, FiniteSetTheorems

\* A request with this verdict is for the next handler.
Through(q) ==
  \/ q.verdict \in {"bypassed", "allowed"}
  \/ q.verdict = "error" /\ ~ closed

\* What is settled of a request when its middleware has returned.
Settled(q) ==
  /\ q.verdict # "none"
  /\ Through(q) => q.handled = 1 /\ q.status = 200
  /\ ~ Through(q) => /\ q.handled = 0
                     /\ q.status = IF q.verdict = "refused" THEN 429 ELSE 500
                     /\ q.pc = "returned" => q.aborted

\* The verdict of a request fits the step that is next.
InTurn(q) ==
  /\ q.pc \in {"absent", "ask"} => q.verdict = "none"
  /\ q.pc = "headers" => q.verdict \in {"allowed", "refused"}
  /\ q.pc = "failed" => q.verdict = "error"
  /\ q.pc = "refuse" => q.verdict = "refused"
  /\ q.pc = "next" => Through(q)
  /\ q.pc \notin {"returned", "done"} => q.handled = 0 /\ ~ q.aborted /\ q.retry = NoHeader
  /\ q.pc \in {"returned", "done"} => Settled(q)

\* The headers of a refused request point at the end of the window in which it
\* was refused, or after it.
Answered(q) ==
  /\ q.asked <= now
  /\ q.verdict = "refused" =>
       /\ q.wait = WindowEnd(q.asked) - q.asked
       /\ q.pc # "headers" => WindowEnd(q.asked) <= now + (q.reset + 1) * Second
       /\ q.retry # NoHeader => WindowEnd(q.asked) <= q.asked + (q.retry + 1) * Second

\* A request that was admitted and is not handled yet.
Waiting(q) == q.verdict = "allowed" /\ q.pc \in {"headers", "next"}

\* Those that were admitted in window w.
Pending(w) == {r \in Requests : Waiting(req[r]) /\ WindowNum(req[r].asked) = w}

\* What the limiter has admitted in window w, at most.
Granted(w) ==
  IF w = WindowNum(now) THEN Tally(Key) ELSE IF w < WindowNum(now) THEN Limit ELSE 0

\* Requests that were handled or will be were admitted.
Accounted(w) ==
  IsFiniteSet(Pending(w)) /\ served[w] + Cardinality(Pending(w)) <= Granted(w)

MInv ==
  /\ WInv
  /\ MTypeOK
  /\ \A r \in Requests : InTurn(req[r]) /\ Answered(req[r])
  /\ \A w \in 0..WindowNum(MaxTime) : Accounted(w)

-----------------------------------------------------------------------------
(* Seconds and windows *)

\* A duration cut to whole seconds is less than a second shorter.
LEMMA SecondsCut ==
  ASSUME NEW d \in Int
  PROVE  Seconds(d) \in Nat /\ d <= (Seconds(d) + 1) * Second
<1>1. Second \in Nat \ {0}
  BY MiddlewareAssumption
<1>2. CASE d < 0
  BY <1>1, <1>2 DEF Seconds
<1>3. CASE ~ (d < 0)
  <2> DEFINE m == d \div Second
  <2>1. d \in Nat
    BY <1>3
  <2>2. m \in Nat /\ d < Second * m + Second
    BY <1>1, <2>1, Division
  <2>3. Seconds(d) = m
    BY <1>3 DEF Seconds
  <2> HIDE DEF m
  <2>4. (m + 1) * Second = Second * m + Second /\ Second * m \in Nat
    BY <1>1, <2>2
  <2>5. QED
    BY <1>1, <2>1, <2>2, <2>3, <2>4
<1>4. QED
  BY <1>2, <1>3

\* Later times are in later windows.
LEMMA WindowsGrow ==
  ASSUME NEW s \in Nat, NEW t \in Nat, s <= t
  PROVE  WindowNum(s) <= WindowNum(t)
<1> DEFINE v == WindowNum(s)
           w == WindowNum(t)
<1>1. /\ v \in Nat /\ v * Span \in Nat /\ v * Span <= s
      /\ w \in Nat /\ t < (w + 1) * Span
  BY InWindow DEF WindowStart
<1>2. (w + 1) * Span \in Nat
  BY InWindow, WindowTypes
<1>3. w < v => (w + 1) * Span <= v * Span
  BY <1>1, EndsGrow
<1> HIDE DEF v, w
<1>4. v <= w
  BY <1>1, <1>2, <1>3
<1>5. QED
  BY <1>4 DEF v, w

\* A time that is not before the end of a window is in a later window.
LEMMA AfterWindow ==
  ASSUME NEW s \in Nat, NEW t \in Nat, WindowEnd(s) <= t
  PROVE  WindowNum(s) < WindowNum(t)
<1>1. /\ WindowNum(s) \in Nat /\ WindowNum(t) \in Nat
      /\ WindowEnd(s) \in Nat /\ WindowEnd(s) = (WindowNum(s) + 1) * Span
      /\ t < (WindowNum(t) + 1) * Span
  BY InWindow, WindowTypes
<1>2. (WindowNum(t) + 1) * Span \in Nat
  BY <1>1, InWindow, WindowTypes
<1> DEFINE v == WindowNum(s)
           w == WindowNum(t)
<1>3. w < v => (w + 1) * Span <= v * Span
  BY <1>1, EndsGrow
<1>4. v * Span \in Nat /\ v * Span <= s /\ s < (v + 1) * Span
  BY InWindow DEF WindowStart
<1> HIDE DEF v, w
<1>5. v < w
  BY <1>1, <1>2, <1>3, <1>4 DEF v, w
<1>6. QED
  BY <1>5 DEF v, w


-----------------------------------------------------------------------------
(* One step of one request *)

\* A request with another value in one of its fields.
LEMMA Updated ==
  ASSUME NEW e \in Request
  PROVE  /\ \A v \in {"ask", "headers", "failed", "refuse", "next", "returned", "done"} :
              [e EXCEPT !.pc = v] \in Request
         /\ \A v \in {"bypassed", "allowed", "refused", "error"} :
              [e EXCEPT !.verdict = v] \in Request
         /\ \A v \in Times : [e EXCEPT !.asked = v] \in Request
         /\ \A v \in Nat : [e EXCEPT !.wait = v] \in Request
         /\ \A v \in Nat : [e EXCEPT !.reset = v] \in Request
         /\ \A v \in Nat \cup {NoHeader} : [e EXCEPT !.retry = v] \in Request
         /\ \A v \in BOOLEAN : [e EXCEPT !.aborted = v] \in Request
         /\ \A v \in {0, 1} : [e EXCEPT !.handled = v] \in Request
         /\ \A v \in {200, 429, 500} : [e EXCEPT !.status = v] \in Request
<1>1. \A v \in {"ask", "headers", "failed", "refuse", "next", "returned", "done"} :
        [e EXCEPT !.pc = v] \in Request
  BY DEF Request
<1>2. \A v \in {"bypassed", "allowed", "refused", "error"} :
        [e EXCEPT !.verdict = v] \in Request
  BY DEF Request
<1>3. \A v \in Times : [e EXCEPT !.asked = v] \in Request
  BY DEF Request
<1>4. \A v \in Nat : [e EXCEPT !.wait = v] \in Request
  BY DEF Request
<1>5. \A v \in Nat : [e EXCEPT !.reset = v] \in Request
  BY DEF Request
<1>6. \A v \in Nat \cup {NoHeader} : [e EXCEPT !.retry = v] \in Request
  BY DEF Request
<1>7. \A v \in BOOLEAN : [e EXCEPT !.aborted = v] \in Request
  BY DEF Request
<1>8. \A v \in {0, 1} : [e EXCEPT !.handled = v] \in Request
  BY DEF Request
<1>9. \A v \in {200, 429, 500} : [e EXCEPT !.status = v] \in Request
  BY DEF Request
<1>10. QED
  BY <1>1, <1>2, <1>3, <1>4, <1>5, <1>6, <1>7, <1>8, <1>9

\* What is known of a request.
LEMMA RequestFacts ==
  ASSUME MInv, NEW r \in Requests
  PROVE  /\ req \in [Requests -> Request] /\ req[r] \in Request
         /\ InTurn(req[r]) /\ Answered(req[r])
         /\ now \in Nat /\ now \in Times /\ Times \subseteq Nat
         /\ req[r].asked \in Nat
         /\ closed \in BOOLEAN /\ adapter \in Adapters
         /\ Key \in WindowKeys /\ Key \in Keys /\ 1 \in Costs
         /\ Second \in Nat \ {0}
<1>1. /\ req \in [Requests -> Request] /\ closed \in BOOLEAN /\ adapter \in Adapters
      /\ now \in Times
  BY DEF MInv, MTypeOK, StoreTypeOK, LedgerTypeOK
<1>2. Times \subseteq Nat
  BY LedgerAssumption DEF Times
<1>3. req[r] \in Request
  BY <1>1
<1>4. req[r].asked \in Nat
  <2>1. req[r].asked \in Times
    BY <1>3 DEF Request
  <2>2. QED
    BY <1>2, <2>1
<1>5. Key \in Keys
  BY MiddlewareAssumption, KindsApart
<1>6. QED
  BY <1>1, <1>2, <1>3, <1>4, <1>5, MiddlewareAssumption DEF MInv

LEMMA ArriveStep ==
  ASSUME MInv, NEW r \in Requests, Arrive(r)
  PROVE  \E q \in Request : Becomes(r, q) /\ InTurn(q) /\ Answered(q) /\ ~ Waiting(q)
<1> DEFINE e == req[r]
<1>1. e \in Request /\ InTurn(e) /\ Answered(e) /\ e.pc = "absent"
  BY RequestFacts DEF Arrive
<1> HIDE DEF e
<1> DEFINE q == [e EXCEPT !.pc = "ask"]
           p == [e EXCEPT !.pc = "next", !.verdict = "bypassed"]
<1>2. Becomes(r, q) \/ Becomes(r, p)
  BY DEF Arrive, e
<1>3. /\ q \in Request /\ q.pc = "ask" /\ q.verdict = e.verdict
      /\ q.handled = e.handled /\ q.aborted = e.aborted
      /\ q.asked = e.asked /\ q.retry = e.retry
  <2>1. q \in Request
    BY <1>1, Updated
  <2>2. QED
    BY <1>1, <2>1 DEF Request
<1>4. /\ p \in Request /\ p.pc = "next" /\ p.verdict = "bypassed"
      /\ p.handled = e.handled /\ p.aborted = e.aborted
      /\ p.asked = e.asked /\ p.retry = e.retry
  <2> DEFINE p1 == [e EXCEPT !.pc = "next"]
             p2 == [p1 EXCEPT !.verdict = "bypassed"]
  <2>1. p = p2
    OBVIOUS
  <2>2. p1 \in Request
    BY <1>1, Updated
  <2> HIDE DEF p1
  <2>3. p2 \in Request
    BY <2>2, Updated
  <2> HIDE DEF p, p2
  <2>4. p \in Request
    BY <2>1, <2>3
  <2>5. QED
    BY <1>1, <2>4 DEF Request, p
<1> HIDE DEF q, p
<1>5. InTurn(q) /\ Answered(q) /\ ~ Waiting(q)
  BY <1>1, <1>3 DEF InTurn, Answered, Waiting
<1>6. InTurn(p) /\ Answered(p) /\ ~ Waiting(p)
  BY <1>1, <1>4 DEF InTurn, Answered, Waiting, Through
<1>7. QED
  BY <1>2, <1>3, <1>4, <1>5, <1>6

LEMMA AllowStep ==
  ASSUME SmallCounts, MInv, NEW r \in Requests, LimiterAllow(r)
  PROVE  /\ \E q \in Request :
              /\ Becomes(r, q) /\ InTurn(q) /\ Answered(q)
              /\ q.asked = now
              /\ q.verdict = IF Tally(Key) + 1 <= Limit THEN "allowed" ELSE "refused"
              /\ q.pc = "headers"
         /\ Tally(Key)' = IF Tally(Key) + 1 <= Limit THEN Tally(Key) + 1 ELSE Tally(Key)
         /\ Allow(Key)
         /\ UNCHANGED <<now, adapter, closed, served>>
<1> DEFINE e == req[r]
           d == DecideFixedWindow(data[Key], now, 1)
           v == IF Tally(Key) + 1 <= Limit THEN "allowed" ELSE "refused"
<1>1. /\ e \in Request /\ InTurn(e) /\ Answered(e) /\ e.pc = "ask"
      /\ now \in Nat /\ now \in Times /\ Key \in WindowKeys /\ 1 \in Costs
  BY RequestFacts DEF LimiterAllow
<1>2. /\ d.allowed = (Tally(Key) + 1 <= Limit)
      /\ d.retryAfter = IF Tally(Key) + 1 <= Limit THEN 0 ELSE WindowEnd(now) - now
      /\ d.entry \in Entry
      /\ d.entry.count = IF Tally(Key) + 1 <= Limit THEN Tally(Key) + 1 ELSE Tally(Key)
      /\ d.entry.windowNum = WindowNum(now)
      /\ d.entry.expiresAt = WindowEnd(now) + Window
  <2>1. /\ data[Key] \in Entry \cup {NoEntry}
        /\ data[Key] # NoEntry => data[Key].count \in 0..Limit
    BY <1>1, WindowFacts DEF MInv, WInv
  <2>2. QED
    BY <1>1, <2>1, WindowDecision DEF Tally
<1>3. d.retryAfter \in Nat
  <2>1. WindowEnd(now) \in Nat /\ now < WindowEnd(now)
    BY <1>1, InWindow, WindowTypes
  <2>2. QED
    BY <1>1, <1>2, <2>1
<1> DEFINE w == d.retryAfter
           q == [e EXCEPT !.pc = "headers", !.asked = now, !.wait = w, !.verdict = v]
<1>4. (IF d.allowed THEN "allowed" ELSE "refused") = v
  BY <1>2, Zenon
<1>5. AllowFixedWindow(Key, 1) /\ UNCHANGED <<adapter, closed, served>>
  BY DEF LimiterAllow
<1>6. Becomes(r, q)
  BY <1>4, Zenon DEF LimiterAllow
<1>7. Allow(Key) /\ UNCHANGED now
  BY <1>1, <1>5 DEF Allow, AllowFixedWindow, Answer, Admit, Refuse
<1>8. Tally(Key)' = IF Tally(Key) + 1 <= Limit THEN Tally(Key) + 1 ELSE Tally(Key)
  <2> DEFINE f == d.entry
  <2>1. data' = [data EXCEPT ![Key] = f]
    BY <1>5 DEF AllowFixedWindow, Answer
  <2>2. data \in [Keys -> Entry \cup {NoEntry}] /\ Key \in Keys
    BY RequestFacts DEF MInv, WInv, TInv, StoreTypeOK
  <2>3. /\ f \in Entry /\ f.windowNum = WindowNum(now)
        /\ f.expiresAt = WindowEnd(now) + Window
        /\ f.count = IF Tally(Key) + 1 <= Limit THEN Tally(Key) + 1 ELSE Tally(Key)
    BY <1>2
  <2> HIDE DEF f
  <2>4. data'[Key] = f /\ f # NoEntry
    BY <2>1, <2>2, <2>3, StoreAssumption
  <2>5. f.expiresAt >= (f.windowNum + 1) * Span
    <3>1. WindowEnd(now) = (f.windowNum + 1) * Span /\ WindowEnd(now) \in Nat
      BY <1>1, <2>3, InWindow, WindowTypes
    <3>2. QED
      BY <2>3, <3>1, WindowAssumption
  <2>6. CountIn(f, now, WindowNum(now)) = f.count
    BY <1>1, <2>3, <2>4, <2>5, TallyAlive
  <2>7. Tally(Key)' = CountIn(f, now, WindowNum(now))
    BY <1>7, <2>4 DEF Tally
  <2>8. QED
    BY <2>3, <2>6, <2>7
<1>9. v = "refused" => w = WindowEnd(now) - now
  BY <1>2
<1>10. v \in {"allowed", "refused"} /\ w \in Nat
  BY <1>3
<1> HIDE DEF e, w, v
<1>11. /\ q \in Request /\ q.pc = "headers" /\ q.asked = now /\ q.wait = w /\ q.verdict = v
       /\ q.handled = e.handled /\ q.aborted = e.aborted /\ q.retry = e.retry
  <2> DEFINE q1 == [e EXCEPT !.pc = "headers"]
             q2 == [q1 EXCEPT !.asked = now]
             q3 == [q2 EXCEPT !.wait = w]
             q4 == [q3 EXCEPT !.verdict = v]
  <2>1. q = q4
    OBVIOUS
  <2>2. q1 \in Request
    BY <1>1, Updated
  <2> HIDE DEF q1
  <2>3. q2 \in Request
    BY <1>1, <2>2, Updated
  <2> HIDE DEF q2
  <2>4. q3 \in Request
    BY <1>10, <2>3, Updated
  <2> HIDE DEF q3
  <2>5. q4 \in Request
    <3>1. v \in {"bypassed", "allowed", "refused", "error"}
      BY <1>10
    <3>2. \A x \in {"bypassed", "allowed", "refused", "error"} :
            [q3 EXCEPT !.verdict = x] \in Request
      BY <2>4, Updated
    <3>3. QED
      BY <3>1, <3>2, Zenon
  <2> HIDE DEF q, q4
  <2>6. q \in Request
    BY <2>1, <2>5
  <2>7. QED
    BY <1>1, <2>6 DEF Request, q
<1> HIDE DEF q
<1>12. e.retry = NoHeader
  BY <1>1 DEF InTurn, Answered
<1>13. InTurn(q) /\ Answered(q)
  BY <1>1, <1>9, <1>10, <1>11, <1>12 DEF InTurn, Answered
<1>14. QED
  BY <1>5, <1>6, <1>7, <1>8, <1>11, <1>13 DEF v

LEMMA FailStep ==
  ASSUME MInv, NEW r \in Requests, AllowFails(r) \/ FailStrategy(r)
  PROVE  \E q \in Request : Becomes(r, q) /\ InTurn(q) /\ Answered(q) /\ ~ Waiting(q)
<1> DEFINE e == req[r]
<1>1. /\ e \in Request /\ InTurn(e) /\ Answered(e)
      /\ now \in Times /\ now \in Nat
  BY RequestFacts
<1> HIDE DEF e
<1>2. CASE AllowFails(r)
  <2> DEFINE q1 == [e EXCEPT !.pc = "failed"]
             q2 == [q1 EXCEPT !.asked = now]
             q3 == [q2 EXCEPT !.verdict = "error"]
             q == [e EXCEPT !.pc = "failed", !.asked = now, !.verdict = "error"]
  <2>1. q = q3
    OBVIOUS
  <2>2. q1 \in Request
    BY <1>1, Updated
  <2> HIDE DEF q1
  <2>3. q2 \in Request
    BY <1>1, <2>2, Updated
  <2> HIDE DEF q2
  <2>4. q3 \in Request
    BY <2>3, Updated
  <2> HIDE DEF q, q3
  <2>5. q \in Request
    BY <2>1, <2>4
  <2>6. Becomes(r, q) /\ e.pc = "ask"
    BY <1>2 DEF AllowFails, e, q
  <2>7. /\ q.pc = "failed" /\ q.asked = now /\ q.verdict = "error"
        /\ q.handled = e.handled /\ q.aborted = e.aborted /\ q.retry = e.retry
    BY <1>1, <2>5 DEF Request, q
  <2>8. InTurn(q) /\ Answered(q) /\ ~ Waiting(q)
    BY <1>1, <2>6, <2>7 DEF InTurn, Answered, Waiting
  <2>9. QED
    BY <2>5, <2>6, <2>8
<1>3. CASE FailStrategy(r) /\ closed
  <2> DEFINE q1 == [e EXCEPT !.pc = "returned"]
             q2 == [q1 EXCEPT !.aborted = TRUE]
             q3 == [q2 EXCEPT !.status = 500]
             q == [e EXCEPT !.pc = "returned", !.aborted = TRUE, !.status = 500]
  <2>1. q = q3
    OBVIOUS
  <2>2. q1 \in Request
    BY <1>1, Updated
  <2> HIDE DEF q1
  <2>3. q2 \in Request
    BY <2>2, Updated
  <2> HIDE DEF q2
  <2>4. q3 \in Request
    <3>1. \A v \in {200, 429, 500} : [q2 EXCEPT !.status = v] \in Request
      BY <2>3, Updated
    <3>2. QED
      BY <3>1
  <2> HIDE DEF q, q3
  <2>5. q \in Request
    BY <2>1, <2>4
  <2>6. Becomes(r, q) /\ e.pc = "failed"
    BY <1>3 DEF FailStrategy, e, q
  <2>7. /\ q.pc = "returned" /\ q.aborted /\ q.status = 500
        /\ q.verdict = e.verdict /\ q.asked = e.asked
        /\ q.handled = e.handled /\ q.retry = e.retry
    BY <1>1, <2>5 DEF Request, q
  <2>8. InTurn(q) /\ Answered(q) /\ ~ Waiting(q)
    BY <1>1, <1>3, <2>6, <2>7 DEF InTurn, Answered, Waiting, Settled, Through
  <2>9. QED
    BY <2>5, <2>6, <2>8
<1>4. CASE FailStrategy(r) /\ ~ closed
  <2> DEFINE q == [e EXCEPT !.pc = "next"]
  <2>1. q \in Request
    BY <1>1, Updated
  <2>2. /\ q.pc = "next" /\ q.verdict = e.verdict /\ q.asked = e.asked
        /\ q.handled = e.handled /\ q.aborted = e.aborted /\ q.retry = e.retry
    BY <1>1, <2>1 DEF Request
  <2> HIDE DEF q
  <2>3. Becomes(r, q) /\ e.pc = "failed"
    BY <1>4 DEF FailStrategy, e, q
  <2>4. InTurn(q) /\ Answered(q) /\ ~ Waiting(q)
    BY <1>1, <1>4, <2>2, <2>3 DEF InTurn, Answered, Waiting, Through
  <2>5. QED
    BY <2>1, <2>3, <2>4
<1>5. closed \in BOOLEAN
  BY RequestFacts
<1>6. QED
  BY <1>2, <1>3, <1>4, <1>5

LEMMA HeadersStep ==
  ASSUME MInv, NEW r \in Requests, SetHeaders(r)
  PROVE  \E q \in Request :
           /\ Becomes(r, q) /\ InTurn(q) /\ Answered(q)
           /\ Waiting(q) => Waiting(req[r]) /\ q.asked = req[r].asked
<1> DEFINE e == req[r]
           s == Seconds(WindowEnd(e.asked) - now)
           v == IF e.verdict = "allowed" THEN "next" ELSE "refuse"
           q1 == [e EXCEPT !.reset = s]
           q2 == [q1 EXCEPT !.pc = v]
           q == [e EXCEPT !.reset = s, !.pc = v]
<1>1. /\ e \in Request /\ InTurn(e) /\ Answered(e) /\ e.pc = "headers"
      /\ now \in Nat /\ e.asked \in Nat
  BY RequestFacts DEF SetHeaders
<1>2. Becomes(r, q)
  BY DEF SetHeaders
<1>3. s \in Nat /\ WindowEnd(e.asked) <= now + (s + 1) * Second
  <2> DEFINE d == WindowEnd(e.asked) - now
             m == (s + 1) * Second
  <2>1. WindowEnd(e.asked) \in Nat
    BY <1>1, WindowTypes
  <2>2. d \in Int
    BY <1>1, <2>1
  <2>3. s \in Nat /\ d <= m
    <3> HIDE DEF d
    <3>1. Seconds(d) \in Nat /\ d <= (Seconds(d) + 1) * Second
      BY <2>2, SecondsCut
    <3>2. QED
      BY <3>1 DEF d
  <2>4. m \in Nat
    <3>1. \A a, b \in Nat : (a + 1) * b \in Nat
      OBVIOUS
    <3>2. QED
      BY <2>3, <3>1, MiddlewareAssumption
  <2> HIDE DEF s, m
  <2>5. WindowEnd(e.asked) <= now + m
    BY <1>1, <2>1, <2>3, <2>4
  <2>6. QED
    BY <2>3, <2>5 DEF m
<1>4. v = "next" \/ v = "refuse"
  OBVIOUS
<1>5. e.verdict \in {"allowed", "refused"}
  BY <1>1 DEF InTurn
<1> HIDE DEF e, s
<1>6. q = q2
  OBVIOUS
<1>7. v = IF e.verdict = "allowed" THEN "next" ELSE "refuse"
  OBVIOUS
<1> HIDE DEF v
<1>8. q1 \in Request
  BY <1>1, <1>3, Updated
<1> HIDE DEF q1
<1>9. q2 \in Request
  <2>1. \A x \in {"ask", "headers", "failed", "refuse", "next", "returned", "done"} :
          [q1 EXCEPT !.pc = x] \in Request
    BY <1>8, Updated
  <2>2. QED
    BY <1>4, <2>1
<1> HIDE DEF q, q2
<1>10. q \in Request
  BY <1>6, <1>9
<1>11. /\ q.reset = s /\ q.pc = v /\ q.verdict = e.verdict /\ q.asked = e.asked
       /\ q.wait = e.wait
       /\ q.handled = e.handled /\ q.aborted = e.aborted /\ q.retry = e.retry
  BY <1>1, <1>10 DEF Request, q
<1>12. InTurn(q)
  BY <1>1, <1>5, <1>7, <1>11 DEF InTurn, Through
<1>13. Answered(q)
  BY <1>1, <1>3, <1>11 DEF Answered, InTurn
<1>14. Waiting(q) => Waiting(e) /\ q.asked = e.asked
  BY <1>1, <1>11 DEF Waiting
<1>15. QED
  BY <1>2, <1>10, <1>12, <1>13, <1>14 DEF e

LEMMA RefuseStep ==
  ASSUME MInv, NEW r \in Requests, ErrorHandler(r)
  PROVE  \E q \in Request : Becomes(r, q) /\ InTurn(q) /\ Answered(q) /\ ~ Waiting(q)
<1> DEFINE e == req[r]
           h == IF adapter \in {"stdlib", "fiber"} THEN Seconds(e.wait) ELSE NoHeader
           q1 == [e EXCEPT !.pc = "returned"]
           q2 == [q1 EXCEPT !.status = 429]
           q3 == [q2 EXCEPT !.aborted = TRUE]
           q4 == [q3 EXCEPT !.retry = h]
           q == [e EXCEPT !.pc = "returned", !.status = 429, !.aborted = TRUE, !.retry = h]
<1>1. /\ e \in Request /\ InTurn(e) /\ Answered(e) /\ e.pc = "refuse"
      /\ now \in Nat /\ e.asked \in Nat
  BY RequestFacts DEF ErrorHandler
<1>2. Becomes(r, q)
  BY DEF ErrorHandler
<1>3. e.wait \in Nat /\ e.wait = WindowEnd(e.asked) - e.asked
  BY <1>1 DEF Request, InTurn, Answered
<1>4. /\ h \in Nat \cup {NoHeader}
      /\ h # NoHeader => WindowEnd(e.asked) <= e.asked + (h + 1) * Second
  <2> DEFINE d == e.wait
             s == Seconds(d)
             m == (s + 1) * Second
  <2>1. s \in Nat /\ d <= m
    BY <1>3, SecondsCut
  <2>2. m \in Nat
    <3>1. \A a, b \in Nat : (a + 1) * b \in Nat
      OBVIOUS
    <3>2. QED
      BY <2>1, <3>1, MiddlewareAssumption
  <2>3. WindowEnd(e.asked) \in Nat
    BY <1>1, WindowTypes
  <2>4. h = s \/ h = NoHeader
    OBVIOUS
  <2> HIDE DEF h, s, m
  <2>5. WindowEnd(e.asked) <= e.asked + m
    BY <1>1, <1>3, <2>1, <2>2, <2>3
  <2>6. QED
    BY <2>1, <2>4, <2>5 DEF m
<1> HIDE DEF e, h
<1>5. q = q4
  OBVIOUS
<1>6. q1 \in Request
  BY <1>1, Updated
<1> HIDE DEF q1
<1>7. q2 \in Request
  <2>1. \A v \in {200, 429, 500} : [q1 EXCEPT !.status = v] \in Request
    BY <1>6, Updated
  <2>2. QED
    BY <2>1
<1> HIDE DEF q2
<1>8. q3 \in Request
  BY <1>7, Updated
<1> HIDE DEF q3
<1>9. q4 \in Request
  BY <1>4, <1>8, Updated
<1> HIDE DEF q, q4
<1>10. q \in Request
  BY <1>5, <1>9
<1>11. /\ q.pc = "returned" /\ q.status = 429 /\ q.aborted /\ q.retry = h
       /\ q.verdict = e.verdict /\ q.asked = e.asked /\ q.wait = e.wait
       /\ q.reset = e.reset /\ q.handled = e.handled
  BY <1>1, <1>10 DEF Request, q
<1>12. e.verdict = "refused" /\ e.handled = 0
  BY <1>1 DEF InTurn
<1>13. InTurn(q)
  BY <1>11, <1>12 DEF InTurn, Settled, Through
<1>14. Answered(q)
  BY <1>1, <1>4, <1>11, <1>12 DEF Answered
<1>15. ~ Waiting(q)
  BY <1>11 DEF Waiting
<1>16. QED
  BY <1>2, <1>10, <1>13, <1>14, <1>15

LEMMA HandleStep ==
  ASSUME MInv, NEW r \in Requests, ServeHTTP(r)
  PROVE  \E q \in Request : Becomes(r, q) /\ InTurn(q) /\ Answered(q) /\ ~ Waiting(q)
<1> DEFINE e == req[r]
           q1 == [e EXCEPT !.pc = "returned"]
           q2 == [q1 EXCEPT !.handled = 1]
           q3 == [q2 EXCEPT !.status = 200]
           q == [e EXCEPT !.pc = "returned", !.handled = 1, !.status = 200]
<1>1. /\ e \in Request /\ InTurn(e) /\ Answered(e) /\ e.pc = "next"
  BY RequestFacts DEF ServeHTTP
<1>2. e.handled = 0 /\ ~ e.aborted /\ Through(e)
  BY <1>1 DEF InTurn
<1>3. Becomes(r, q)
  <2>1. e.handled + 1 = 1
    BY <1>2
  <2>2. Becomes(r, [e EXCEPT !.pc = "returned", !.handled = e.handled + 1, !.status = 200])
    BY DEF ServeHTTP
  <2>3. QED
    BY <2>1, <2>2, Zenon
<1> HIDE DEF e
<1>4. q = q3
  OBVIOUS
<1>5. q1 \in Request
  BY <1>1, Updated
<1> HIDE DEF q1
<1>6. q2 \in Request
  BY <1>5, Updated
<1> HIDE DEF q2
<1>7. q3 \in Request
  <2>1. \A v \in {200, 429, 500} : [q2 EXCEPT !.status = v] \in Request
    BY <1>6, Updated
  <2>2. QED
    BY <2>1
<1> HIDE DEF q, q3
<1>8. q \in Request
  BY <1>4, <1>7
<1>9. /\ q.pc = "returned" /\ q.status = 200 /\ q.handled = 1
      /\ q.verdict = e.verdict /\ q.asked = e.asked /\ q.wait = e.wait
      /\ q.reset = e.reset /\ q.retry = e.retry
  BY <1>1, <1>8 DEF Request, q
<1>10. InTurn(q)
  BY <1>2, <1>9 DEF InTurn, Settled, Through
<1>11. Answered(q)
  BY <1>1, <1>9 DEF Answered
<1>12. ~ Waiting(q)
  BY <1>9 DEF Waiting
<1>13. QED
  BY <1>3, <1>8, <1>10, <1>11, <1>12

LEMMA ReturnStep ==
  ASSUME MInv, NEW r \in Requests, Return(r)
  PROVE  \E q \in Request : Becomes(r, q) /\ InTurn(q) /\ Answered(q) /\ ~ Waiting(q)
<1> DEFINE e == req[r]
           h == IF adapter = "gin" /\ ~ e.aborted /\ e.handled = 0 THEN 1 ELSE e.handled
           q1 == [e EXCEPT !.pc = "done"]
           q2 == [q1 EXCEPT !.handled = h]
           q == [e EXCEPT !.pc = "done", !.handled = h]
<1>1. /\ e \in Request /\ InTurn(e) /\ Answered(e) /\ e.pc = "returned"
  BY RequestFacts DEF Return
<1>2. Becomes(r, q)
  BY DEF Return
<1>3. Settled(e)
  BY <1>1 DEF InTurn
\* gin does not go on: the request is handled already, or its chain is aborted.
<1>4. h = e.handled
  BY <1>1, <1>3 DEF Settled
<1>5. h \in {0, 1}
  BY <1>1, <1>4 DEF Request
<1> HIDE DEF e, h
<1>6. q = q2
  OBVIOUS
<1>7. q1 \in Request
  BY <1>1, Updated
<1> HIDE DEF q1
<1>8. q2 \in Request
  <2>1. \A v \in {0, 1} : [q1 EXCEPT !.handled = v] \in Request
    BY <1>7, Updated
  <2>2. QED
    BY <1>5, <2>1
<1> HIDE DEF q, q2
<1>9. q \in Request
  BY <1>6, <1>8
<1>10. /\ q.pc = "done" /\ q.handled = e.handled /\ q.status = e.status
       /\ q.verdict = e.verdict /\ q.asked = e.asked /\ q.wait = e.wait
       /\ q.reset = e.reset /\ q.retry = e.retry
  BY <1>1, <1>4, <1>9 DEF Request, q
<1>11. InTurn(q)
  BY <1>3, <1>10 DEF InTurn, Settled, Through
<1>12. Answered(q)
  BY <1>1, <1>10 DEF Answered
<1>13. ~ Waiting(q)
  BY <1>10 DEF Waiting
<1>14. QED
  BY <1>2, <1>9, <1>11, <1>12, <1>13

LEMMA AbsentRequest ==
  ASSUME now \in Nat
  PROVE  Absent \in Request /\ InTurn(Absent) /\ Answered(Absent) /\ ~ Waiting(Absent)
<1>1. 0 \in Times
  BY LedgerAssumption DEF Times
<1>2. Absent \in Request
  BY <1>1 DEF Absent, Request
<1>3. InTurn(Absent) /\ Answered(Absent) /\ ~ Waiting(Absent)
  BY DEF Absent, InTurn, Answered, Waiting
<1>4. QED
  BY <1>2, <1>3

\* Every step of a request leaves the others alone, and no request is admitted
\* but by the limiter.
LEMMA ServeStep ==
  ASSUME SmallCounts, MInv, NEW r \in Requests, Serve(r)
  PROVE  /\ \E q \in Request :
              /\ Becomes(r, q) /\ InTurn(q) /\ Answered(q)
              /\ Waiting(q) => \/ LimiterAllow(r)
                               \/ Waiting(req[r]) /\ q.asked = req[r].asked
         /\ UNCHANGED <<now, adapter, closed>>
         /\ LimiterAllow(r) \/ UNCHANGED vars
         /\ Allow(Key) \/ UNCHANGED vars
         /\ ServeHTTP(r) \/ UNCHANGED served
<1>1. CASE Arrive(r)
  BY <1>1, ArriveStep DEF Arrive, Keep, vars, ledger
<1>2. CASE LimiterAllow(r)
  BY <1>2, AllowStep
<1>3. CASE AllowFails(r) \/ FailStrategy(r)
  BY <1>3, FailStep DEF AllowFails, FailStrategy, Keep, vars, ledger
<1>4. CASE SetHeaders(r)
  BY <1>4, HeadersStep DEF SetHeaders, Keep, vars, ledger
<1>5. CASE ErrorHandler(r)
  BY <1>5, RefuseStep DEF ErrorHandler, Keep, vars, ledger
<1>6. CASE ServeHTTP(r)
  BY <1>6, HandleStep DEF ServeHTTP, vars, ledger
<1>7. CASE Return(r)
  BY <1>7, ReturnStep DEF Return, Keep, vars, ledger
<1>8. CASE Respond(r)
  BY <1>8, AbsentRequest, RequestFacts DEF Respond, Keep, vars, ledger
<1>9. QED
  BY <1>1, <1>2, <1>3, <1>4, <1>5, <1>6, <1>7, <1>8 DEF Serve

-----------------------------------------------------------------------------
(* The requests of a window *)

\* What is known of the account of a window.
LEMMA AccountFacts ==
  ASSUME MInv, NEW w \in 0..WindowNum(MaxTime)
  PROVE  /\ w \in Nat /\ served \in [0..WindowNum(MaxTime) -> Nat] /\ served[w] \in Nat
         /\ IsFiniteSet(Pending(w)) /\ Cardinality(Pending(w)) \in Nat
         /\ served[w] + Cardinality(Pending(w)) <= Granted(w)
         /\ now \in Nat /\ WindowNum(now) \in Nat
         /\ Tally(Key) \in 0..Limit /\ Limit \in Nat
         /\ Granted(w) \in 0..Limit
<1>1. served \in [0..WindowNum(MaxTime) -> Nat] /\ Accounted(w)
  BY DEF MInv, MTypeOK
<1>2. now \in Nat /\ WindowNum(MaxTime) \in Nat
  BY LedgerAssumption, WindowTypes DEF MInv, MTypeOK, StoreTypeOK, LedgerTypeOK, Times
<1>3. WindowNum(now) \in Nat /\ w \in Nat
  BY <1>2, WindowTypes
<1>4. Tally(Key) \in 0..Limit /\ Limit \in Nat
  BY WindowFacts, MiddlewareAssumption DEF MInv, WInv
<1>5. Granted(w) \in 0..Limit
  BY <1>4 DEF Granted
<1>6. IsFiniteSet(Pending(w)) /\ Cardinality(Pending(w)) \in Nat
  BY <1>1, FS_CardinalityType DEF Accounted
<1>7. QED
  BY <1>1, <1>2, <1>3, <1>4, <1>5, <1>6 DEF Accounted

\* Fewer are pending, no more are served, and as much is granted.
LEMMA AccountShrinks ==
  ASSUME MInv, NEW w \in 0..WindowNum(MaxTime),
         Pending(w)' \subseteq Pending(w), served'[w] = served[w],
         Granted(w)' \in Nat, Granted(w) <= Granted(w)'
  PROVE  Accounted(w)'
<1> DEFINE S == Pending(w)
           T == Pending(w)'
           g == Granted(w)
           h == Granted(w)'
<1>1. /\ IsFiniteSet(S) /\ Cardinality(S) \in Nat /\ served[w] \in Nat /\ g \in Nat
      /\ served[w] + Cardinality(S) <= g
  BY AccountFacts
<1>2. T \subseteq S /\ h \in Nat /\ g <= h
  OBVIOUS
<1>3. Accounted(w)' <=> (IsFiniteSet(T) /\ served'[w] + Cardinality(T) <= h)
  BY DEF Accounted
<1> HIDE DEF S, T, g, h
<1>4. IsFiniteSet(T) /\ Cardinality(T) <= Cardinality(S)
  BY <1>1, <1>2, FS_Subset
<1>5. Cardinality(T) \in Nat
  BY <1>4, FS_CardinalityType
<1>6. QED
  BY <1>1, <1>2, <1>3, <1>4, <1>5

\* When time passes, the current window may become the previous one.
LEMMA TickAccount ==
  ASSUME MInv, Tick, UNCHANGED <<req, served>>, NEW w \in 0..WindowNum(MaxTime)
  PROVE  Accounted(w)'
<1>1. /\ now \in Nat /\ w \in Nat /\ WindowNum(now) \in Nat /\ Limit \in Nat
      /\ Tally(Key) \in 0..Limit /\ Granted(w) \in 0..Limit
  BY AccountFacts
<1>2. now' = now + 1 /\ data' = data /\ now + 1 \in Nat
  BY <1>1 DEF Tick, AdvanceClock, store
<1>3. /\ data[Key] \in Entry \cup {NoEntry}
      /\ data[Key] # NoEntry =>
           /\ data[Key].count \in 0..Limit
           /\ data[Key].expiresAt >= (data[Key].windowNum + 1) * Span
  <2>1. TInv /\ WindowInv(Key) /\ Key \in WindowKeys
    BY MiddlewareAssumption DEF MInv, WInv
  <2>2. QED
    BY <2>1, WindowFacts DEF WindowInv, OutlivesWindow, Outlives
<1> DEFINE tally(at) ==
             IF data[Key] # NoEntry /\ data[Key].windowNum = WindowNum(at)
               THEN data[Key].count ELSE 0
<1>4. Tally(Key) = tally(now) /\ Tally(Key)' = tally(now + 1)
  <2>1. CountIn(data[Key], now, WindowNum(now)) = tally(now)
    BY <1>1, <1>3, TallyAlive
  <2>2. CountIn(data[Key], now + 1, WindowNum(now + 1)) = tally(now + 1)
    BY <1>2, <1>3, TallyAlive
  <2>3. Tally(Key)' = CountIn(data[Key], now + 1, WindowNum(now + 1))
    BY <1>2 DEF Tally
  <2>4. QED
    BY <2>1, <2>2, <2>3 DEF Tally
<1>5. tally(now + 1) \in 0..Limit
  BY <1>1, <1>3
<1>6. Granted(w)' = IF w = WindowNum(now + 1) THEN Tally(Key)'
                      ELSE IF w < WindowNum(now + 1) THEN Limit ELSE 0
  BY <1>2 DEF Granted
<1>7. Pending(w)' = Pending(w) /\ served'[w] = served[w]
  BY DEF Pending, Waiting
<1>8. WindowNum(now + 1) = WindowNum(now) \/ WindowNum(now + 1) = WindowNum(now) + 1
  BY <1>1, NextTick
<1>9. Granted(w)' \in Nat /\ Granted(w) <= Granted(w)'
  <2>1. CASE WindowNum(now + 1) = WindowNum(now)
    <3>1. Tally(Key)' = Tally(Key)
      BY <1>4, <2>1
    <3>2. Granted(w)' = Granted(w)
      BY <1>6, <2>1, <3>1 DEF Granted
    <3>3. QED
      BY <1>1, <3>2
  <2>2. CASE WindowNum(now + 1) = WindowNum(now) + 1
    <3> DEFINE u == WindowNum(now)
               v == WindowNum(now + 1)
               a == Tally(Key)
               b == Tally(Key)'
    <3>1. b \in 0..Limit /\ a \in 0..Limit /\ v = u + 1 /\ u \in Nat
      BY <1>1, <1>4, <1>5, <2>2
    <3>2. /\ Granted(w)' = IF w = v THEN b ELSE IF w < v THEN Limit ELSE 0
          /\ Granted(w) = IF w = u THEN a ELSE IF w < u THEN Limit ELSE 0
      BY <1>6 DEF Granted
    <3> HIDE DEF u, v, a, b
    <3>3. QED
      BY <1>1, <3>1, <3>2
  <2>3. QED
    BY <1>8, <2>1, <2>2
<1>10. QED
  BY <1>7, <1>9, AccountShrinks

\* An admitted request is one more that is pending in the current window.
LEMMA AllowAccount ==
  ASSUME SmallCounts, MInv, NEW r \in Requests, LimiterAllow(r),
         NEW w \in 0..WindowNum(MaxTime)
  PROVE  Accounted(w)'
<1>1. PICK q \in Request :
        /\ Becomes(r, q) /\ q.asked = now /\ q.pc = "headers"
        /\ q.verdict = IF Tally(Key) + 1 <= Limit THEN "allowed" ELSE "refused"
  BY AllowStep
<1>2. /\ Tally(Key)' = IF Tally(Key) + 1 <= Limit THEN Tally(Key) + 1 ELSE Tally(Key)
      /\ now' = now /\ served' = served
  BY AllowStep
<1>3. /\ req \in [Requests -> Request] /\ req[r].pc = "ask"
      /\ req' = [req EXCEPT ![r] = q]
  BY <1>1, RequestFacts DEF LimiterAllow, Becomes
<1>4. /\ w \in Nat /\ served[w] \in Nat
      /\ IsFiniteSet(Pending(w)) /\ Cardinality(Pending(w)) \in Nat
      /\ served[w] + Cardinality(Pending(w)) <= Granted(w)
      /\ WindowNum(now) \in Nat
      /\ Tally(Key) \in 0..Limit /\ Limit \in Nat
      /\ Granted(w) \in 0..Limit
  BY AccountFacts
<1>5. r \notin Pending(w)
  BY <1>3 DEF Pending, Waiting
<1>6. /\ req'[r] = q
      /\ \A s \in Requests \ {r} : req'[s] = req[s]
  BY <1>3
<1>7. /\ Granted(w)' = IF w = WindowNum(now) THEN Tally(Key)'
                         ELSE IF w < WindowNum(now) THEN Limit ELSE 0
      /\ Granted(w) = IF w = WindowNum(now) THEN Tally(Key)
                        ELSE IF w < WindowNum(now) THEN Limit ELSE 0
  BY <1>2 DEF Granted
<1>8. Granted(w)' \in Nat /\ Granted(w) <= Granted(w)'
  BY <1>2, <1>4, <1>7
<1>9. CASE w = WindowNum(now) /\ Tally(Key) + 1 <= Limit
  <2>1. Pending(w)' = Pending(w) \cup {r}
    BY <1>1, <1>6, <1>9 DEF Pending, Waiting
  <2>2. Granted(w)' = Granted(w) + 1
    BY <1>2, <1>4, <1>7, <1>9
  <2> DEFINE S == Pending(w)
             T == Pending(w)'
  <2>3. IsFiniteSet(T) /\ Cardinality(T) = Cardinality(S) + 1
    BY <1>4, <1>5, <2>1, FS_AddElement
  <2>4. Accounted(w)' <=> (IsFiniteSet(T) /\ served'[w] + Cardinality(T) <= Granted(w)')
    BY DEF Accounted
  <2>5. /\ Cardinality(S) \in Nat /\ served'[w] = served[w]
        /\ served[w] + Cardinality(S) <= Granted(w)
    BY <1>2, <1>4
  <2> HIDE DEF S, T
  <2>6. QED
    BY <1>4, <2>2, <2>3, <2>4, <2>5
<1>10. CASE ~ (w = WindowNum(now) /\ Tally(Key) + 1 <= Limit)
  <2>1. ~ (Waiting(q) /\ WindowNum(q.asked) = w)
    BY <1>1, <1>10 DEF Waiting
  <2>2. Pending(w)' \subseteq Pending(w)
    BY <1>6, <2>1 DEF Pending, Waiting
  <2>3. QED
    BY <1>2, <1>8, <2>2, AccountShrinks
<1>11. QED
  BY <1>9, <1>10

\* An admitted request that is served is no longer pending.
LEMMA ServeAccount ==
  ASSUME SmallCounts, MInv, NEW r \in Requests, Serve(r),
         NEW w \in 0..WindowNum(MaxTime)
  PROVE  Accounted(w)'
<1>1. PICK q \in Request :
        /\ Becomes(r, q)
        /\ Waiting(q) => \/ LimiterAllow(r)
                         \/ Waiting(req[r]) /\ q.asked = req[r].asked
  BY ServeStep
<1>2. /\ now' = now
      /\ LimiterAllow(r) \/ UNCHANGED vars
      /\ ServeHTTP(r) \/ UNCHANGED served
  BY ServeStep
<1>3. CASE LimiterAllow(r)
  BY <1>3, AllowAccount
<1>4. CASE ~ LimiterAllow(r)
  <2>1. /\ req \in [Requests -> Request] /\ InTurn(req[r])
        /\ req' = [req EXCEPT ![r] = q]
    BY <1>1, RequestFacts DEF Becomes
  <2>2. req'[r] = q /\ \A s \in Requests \ {r} : req'[s] = req[s]
    BY <2>1
  <2>3. Granted(w)' = Granted(w)
    BY <1>2, <1>4 DEF Granted, Tally, vars, ledger, store
  <2>4. /\ w \in Nat /\ served[w] \in Nat /\ served \in [0..WindowNum(MaxTime) -> Nat]
        /\ IsFiniteSet(Pending(w)) /\ Cardinality(Pending(w)) \in Nat
        /\ served[w] + Cardinality(Pending(w)) <= Granted(w)
        /\ Granted(w) \in 0..Limit /\ Limit \in Nat
    BY AccountFacts
  <2>5. Pending(w)' \subseteq Pending(w)
    BY <1>1, <1>4, <2>2 DEF Pending, Waiting
  <2>6. CASE served'[w] = served[w]
    BY <2>3, <2>4, <2>5, <2>6, AccountShrinks
  <2>7. CASE served'[w] # served[w]
    <3>1. /\ ServeHTTP(r) /\ closed /\ req[r].verdict # "bypassed"
          /\ served' = [served EXCEPT ![WindowNum(req[r].asked)] = @ + 1]
      BY <1>2, <2>7 DEF ServeHTTP
    <3>2. WindowNum(req[r].asked) = w /\ served'[w] = served[w] + 1
      BY <2>4, <2>7, <3>1
    <3>3. req[r].pc = "next" /\ req[r].verdict = "allowed"
      BY <2>1, <3>1 DEF ServeHTTP, InTurn, Through
    <3>4. r \in Pending(w)
      BY <3>2, <3>3 DEF Pending, Waiting
    <3>5. ~ Waiting(q)
      <4>1. PICK p \in Request : Becomes(r, p) /\ ~ Waiting(p)
        BY <3>1, HandleStep
      <4>2. req' = [req EXCEPT ![r] = p]
        BY <4>1 DEF Becomes
      <4>3. q = p
        BY <2>1, <2>2, <4>2
      <4>4. QED
        BY <4>1, <4>3
    <3>6. Pending(w)' \subseteq Pending(w) \ {r}
      BY <2>2, <2>5, <3>5 DEF Pending, Waiting
    <3> DEFINE S == Pending(w)
               T == Pending(w)'
    <3>7. /\ IsFiniteSet(S \ {r}) /\ Cardinality(S \ {r}) = Cardinality(S) - 1
      BY <2>4, <3>4, FS_RemoveElement
    <3>8. T \subseteq S \ {r} /\ Cardinality(S) \in Nat
      BY <2>4, <3>6
    <3>9. Accounted(w)' <=> (IsFiniteSet(T) /\ served'[w] + Cardinality(T) <= Granted(w)')
      BY DEF Accounted
    <3>10. served[w] + Cardinality(S) <= Granted(w)
      BY <2>4
    <3> HIDE DEF S, T
    <3>11. IsFiniteSet(T) /\ Cardinality(T) <= Cardinality(S \ {r})
      BY <3>7, <3>8, FS_Subset
    <3>12. Cardinality(T) \in Nat
      BY <3>11, FS_CardinalityType
    <3>13. QED
      BY <2>3, <2>4, <3>2, <3>7, <3>8, <3>9, <3>10, <3>11, <3>12
  <2>8. QED
    BY <2>6, <2>7
<1>5. QED
  BY <1>3, <1>4

-----------------------------------------------------------------------------
(* The invariant *)

LEMMA MInvInit ==
  ASSUME MInit
  PROVE  MInv
<1>1. /\ StoreInit
      /\ adapter \in Adapters /\ closed \in BOOLEAN
      /\ req = [r \in Requests |-> Absent]
      /\ served = [w \in 0..WindowNum(MaxTime) |-> 0]
  BY DEF MInit
<1>2. WInv /\ StoreTypeOK
  BY <1>1, WInvInit DEF WInv, TInv
<1>3. now \in Nat
  BY <1>2, LedgerAssumption DEF StoreTypeOK, LedgerTypeOK, Times
<1>4. MTypeOK
  BY <1>1, <1>2, <1>3, AbsentRequest DEF MTypeOK
<1>5. \A r \in Requests : InTurn(req[r]) /\ Answered(req[r])
  BY <1>1, <1>3, AbsentRequest
<1>6. ASSUME NEW w \in 0..WindowNum(MaxTime)
      PROVE  Accounted(w)
  <2>1. Pending(w) = {}
    BY <1>1, <1>3, AbsentRequest DEF Pending
  <2>2. IsFiniteSet(Pending(w)) /\ Cardinality(Pending(w)) = 0
    BY <2>1, FS_EmptySet
  <2>3. served[w] = 0
    BY <1>1
  <2>4. Tally(Key) \in 0..Limit /\ Limit \in Nat
    BY <1>2, WindowFacts, MiddlewareAssumption DEF WInv
  <2>5. Granted(w) \in 0..Limit
    BY <2>4 DEF Granted
  <2>6. QED
    BY <2>2, <2>3, <2>4, <2>5 DEF Accounted
<1>7. QED
  BY <1>2, <1>4, <1>5, <1>6 DEF MInv

\* What the middleware does to the store, its limiter does.
LEMMA StoreStep ==
  ASSUME SmallCounts, MInv, [MNext]_mvars
  PROVE  [Next]_vars
<1>1. CASE UNCHANGED mvars
  BY <1>1 DEF mvars
<1>2. CASE Tick
  BY <1>2 DEF Next, Background
<1>3. ASSUME NEW r \in Requests, Serve(r)
      PROVE  [Next]_vars
  BY <1>3, ServeStep, RequestFacts DEF Next
<1>4. QED
  BY <1>1, <1>2, <1>3 DEF MNext

\* What holds of a request also holds a tick later.
LEMMA AnsweredLater ==
  ASSUME NEW q \in Request, Answered(q), now \in Nat, now' = now \/ now' = now + 1
  PROVE  Answered(q)'
<1> DEFINE m == (q.reset + 1) * Second
           u == WindowEnd(q.asked)
<1>1. /\ q.asked \in Times /\ q.reset \in Nat
  BY DEF Request
<1>2. q.asked \in Nat
  BY <1>1, LedgerAssumption DEF Times
<1>3. u \in Nat
  BY <1>2, WindowTypes
<1>4. m \in Nat
  <2>1. \A a, b \in Nat : (a + 1) * b \in Nat
    OBVIOUS
  <2>2. QED
    BY <1>1, <2>1, MiddlewareAssumption
<1>5. /\ q.asked <= now
      /\ q.verdict = "refused" /\ q.pc # "headers" => u <= now + m
  BY DEF Answered
<1>6. /\ q.verdict = "refused" =>
           /\ q.wait = u - q.asked
           /\ q.retry # NoHeader => u <= q.asked + (q.retry + 1) * Second
  BY DEF Answered
<1>7. Answered(q)' <=>
        /\ q.asked <= now'
        /\ q.verdict = "refused" =>
             /\ q.wait = u - q.asked
             /\ q.pc # "headers" => u <= now' + m
             /\ q.retry # NoHeader => u <= q.asked + (q.retry + 1) * Second
  BY DEF Answered
<1> HIDE DEF m, u
<1>8. q.asked <= now' /\ (q.verdict = "refused" /\ q.pc # "headers" => u <= now' + m)
  BY <1>2, <1>3, <1>4, <1>5
<1>9. QED
  BY <1>6, <1>7, <1>8

LEMMA MInvStep ==
  ASSUME SmallCounts, MInv, [MNext]_mvars
  PROVE  MInv'
<1>1. WInv'
  BY StoreStep, WInvStep DEF MInv
<1>2. StoreTypeOK'
  BY <1>1 DEF WInv, TInv
<1>3. /\ req \in [Requests -> Request]
      /\ served \in [0..WindowNum(MaxTime) -> Nat]
      /\ adapter \in Adapters /\ closed \in BOOLEAN
      /\ now \in Nat
      /\ \A r \in Requests : InTurn(req[r]) /\ Answered(req[r])
      /\ \A w \in 0..WindowNum(MaxTime) : Accounted(w)
  BY LedgerAssumption DEF MInv, MTypeOK, StoreTypeOK, LedgerTypeOK, Times
<1>4. CASE UNCHANGED mvars
  <2>1. /\ UNCHANGED <<adapter, closed, req, served, now, data>>
    BY <1>4 DEF mvars, vars, ledger, store
  <2>2. MTypeOK'
    BY <1>2, <1>3, <2>1 DEF MTypeOK
  <2>3. \A r \in Requests : (InTurn(req[r]) /\ Answered(req[r]))'
    BY <1>3, <2>1 DEF InTurn, Answered, Settled, Through
  <2>4. \A w \in 0..WindowNum(MaxTime) : Accounted(w)'
    BY <1>3, <2>1 DEF Accounted, Pending, Granted, Waiting, Tally
  <2>5. QED
    BY <1>1, <2>2, <2>3, <2>4 DEF MInv
<1>5. CASE Tick /\ UNCHANGED <<adapter, closed, req, served>>
  <2>1. now' = now + 1
    BY <1>5 DEF Tick, AdvanceClock
  <2>2. MTypeOK'
    BY <1>2, <1>3, <1>5 DEF MTypeOK
  <2>3. ASSUME NEW r \in Requests
        PROVE  (InTurn(req[r]) /\ Answered(req[r]))'
    <3>1. InTurn(req[r])'
      BY <1>3, <1>5 DEF InTurn, Settled, Through
    <3> DEFINE q == req[r]
    <3>2. q \in Request /\ Answered(q) /\ req'[r] = q
      BY <1>3, <1>5
    <3>3. \A p \in Request : Answered(p) => Answered(p)'
      BY <1>3, <2>1, AnsweredLater
    <3>4. Answered(req[r])'
      BY <3>2, <3>3 DEF Answered
    <3>5. QED
      BY <3>1, <3>4
  <2>4. \A w \in 0..WindowNum(MaxTime) : Accounted(w)'
    BY <1>5, TickAccount
  <2>5. QED
    BY <1>1, <2>2, <2>3, <2>4 DEF MInv
<1>6. ASSUME NEW r \in Requests, Serve(r)
      PROVE  MInv'
  <2>1. PICK q \in Request : Becomes(r, q) /\ InTurn(q) /\ Answered(q)
    BY <1>6, ServeStep
  <2>2. UNCHANGED <<now, adapter, closed>> /\ (ServeHTTP(r) \/ UNCHANGED served)
    BY <1>6, ServeStep
  <2>3. req' = [req EXCEPT ![r] = q]
    BY <2>1 DEF Becomes
  <2>4. served' \in [0..WindowNum(MaxTime) -> Nat]
    <3>1. CASE UNCHANGED served
      BY <1>3, <3>1
    <3>2. CASE ServeHTTP(r)
      <4> DEFINE x == WindowNum(req[r].asked)
      <4>1. served' = served \/ served' = [served EXCEPT ![x] = @ + 1]
        BY <3>2 DEF ServeHTTP
      <4> HIDE DEF x
      <4>2. \A f, y : /\ f \in [0..WindowNum(MaxTime) -> Nat]
                      /\ y \in 0..WindowNum(MaxTime) => f[y] + 1 \in Nat
                      => [f EXCEPT ![y] = f[y] + 1] \in [0..WindowNum(MaxTime) -> Nat]
        BY Zenon
      <4>3. x \in 0..WindowNum(MaxTime) => served[x] + 1 \in Nat
        BY <1>3
      <4>4. [served EXCEPT ![x] = @ + 1] \in [0..WindowNum(MaxTime) -> Nat]
        BY <1>3, <4>2, <4>3
      <4>5. QED
        BY <1>3, <4>1, <4>4
    <3>3. QED
      BY <2>2, <3>1, <3>2
  <2>5. MTypeOK'
    <3>1. req' \in [Requests -> Request]
      BY <1>3, <2>1, <2>3
    <3>2. QED
      BY <1>2, <1>3, <2>2, <2>4, <3>1 DEF MTypeOK
  <2>6. ASSUME NEW s \in Requests
        PROVE  (InTurn(req[s]) /\ Answered(req[s]))'
    <3>1. req'[s] = IF s = r THEN q ELSE req[s]
      BY <1>3, <2>3
    <3>2. InTurn(req'[s]) /\ Answered(req'[s])
      BY <1>3, <2>1, <3>1
    <3>3. QED
      BY <2>2, <3>2 DEF InTurn, Answered, Settled, Through
  <2>7. \A w \in 0..WindowNum(MaxTime) : Accounted(w)'
    BY <1>6, ServeAccount
  <2>8. QED
    BY <1>1, <2>5, <2>6, <2>7 DEF MInv
<1>7. QED
  BY <1>4, <1>5, <1>6 DEF MNext

\* The invariant holds of every behaviour of the middleware.
THEOREM MiddlewareInvariance ==
  ASSUME SmallCounts
  PROVE  MSpec => []MInv
<1>1. MInit => MInv
  BY MInvInit
<1>2. MInv /\ [MNext]_mvars => MInv'
  BY MInvStep
<1>3. QED
  BY <1>1, <1>2, PTL DEF MSpec

-----------------------------------------------------------------------------

\* However many requests it serves at a time, the middleware uses its limiter
\* as any callers do (stdlib.go:29): what is proved of the calls of a limiter,
\* such as TwiceLimitKept, also holds of one behind the middleware.
THEOREM MiddlewareUsesStore ==
  ASSUME SmallCounts
  PROVE  MSpec => Spec
<1>1. MInit => StoreInit
  BY DEF MInit
<1>2. MInv /\ [MNext]_mvars => [Next]_vars
  BY StoreStep
<1>3. QED
  BY <1>1, <1>2, MiddlewareInvariance, PTL DEF MSpec, Spec

\* The variables of the store, of the requests and of the account keep their
\* types; no header is negative (middleware.go:47-50).
THEOREM MiddlewareTypeCorrect ==
  ASSUME SmallCounts
  PROVE  MSpec => []MTypeOK
<1>1. MInv => MTypeOK
  BY DEF MInv
<1>2. QED
  BY <1>1, MiddlewareInvariance, PTL

\* In every adapter a request is handled, once, exactly if it was not for the
\* limiter, or was admitted, or the limiter failed under FailOpen
\* (stdlib.go:20-48, chi.go:43-77, gin.go:40-74, echo.go:51-79, fiber.go:43-83).
THEOREM RequestsHandledAsDecided ==
  ASSUME SmallCounts
  PROVE  MSpec => []HandledAsDecided
<1>1. MInv => HandledAsDecided
  <2> SUFFICES ASSUME MInv, NEW r \in Requests, req[r].pc = "done"
               PROVE  CASE req[r].verdict \in {"bypassed", "allowed"} ->
                             req[r].handled = 1 /\ req[r].status = 200
                        [] req[r].verdict = "refused" ->
                             req[r].handled = 0 /\ req[r].status = 429
                        [] req[r].verdict = "error" /\ closed ->
                             req[r].handled = 0 /\ req[r].status = 500
                        [] OTHER -> req[r].handled = 1 /\ req[r].status = 200
    BY Zenon DEF HandledAsDecided
  <2> DEFINE q == req[r]
  <2>1. Settled(q) /\ q \in Request /\ q.pc = "done"
    BY RequestFacts DEF InTurn
  <2> HIDE DEF q
  <2>2. q.verdict \in {"bypassed", "allowed"} => q.handled = 1 /\ q.status = 200
    BY <2>1 DEF Settled, Through
  <2>3. q.verdict = "refused" => q.handled = 0 /\ q.status = 429
    BY <2>1 DEF Settled, Through
  <2>4. q.verdict = "error" /\ closed => q.handled = 0 /\ q.status = 500
    BY <2>1 DEF Settled, Through
  <2>5. \/ q.verdict \in {"bypassed", "allowed"} \/ q.verdict = "refused"
        \/ q.verdict = "error" /\ closed
        \/ q.handled = 1 /\ q.status = 200
    BY <2>1 DEF Settled, Through, Request
  <2>6. /\ q.verdict \in {"bypassed", "allowed"} =>
             q.verdict # "refused" /\ q.verdict # "error"
        /\ q.verdict = "refused" => q.verdict # "error"
    OBVIOUS
  <2>7. QED
    BY <2>2, <2>3, <2>4, <2>5, <2>6, Zenon DEF q
<1>2. QED
  BY <1>1, MiddlewareInvariance, PTL

\* Under FailClosed no more requests get past the middleware in a window than
\* the limit, however the steps of concurrent requests interleave
\* (limiter.go:16).
THEOREM ServedWithin ==
  ASSUME SmallCounts
  PROVE  MSpec => []ServedWithinLimit
<1>1. MInv => ServedWithinLimit
  <2> SUFFICES ASSUME MInv, NEW w \in DOMAIN served
               PROVE  served[w] <= Limit
    BY DEF ServedWithinLimit
  <2>1. w \in 0..WindowNum(MaxTime)
    BY DEF MInv, MTypeOK
  <2> DEFINE c == Cardinality(Pending(w))
             g == Granted(w)
  <2>2. /\ served[w] \in Nat /\ c \in Nat /\ served[w] + c <= g
        /\ g \in 0..Limit /\ Limit \in Nat
    BY <2>1, AccountFacts
  <2> HIDE DEF c, g
  <2>3. QED
    BY <2>2
<1>2. QED
  BY <1>1, MiddlewareInvariance, PTL

\* A refused client that waits for one second more than RateLimit-Reset or
\* Retry-After say is admitted, if it is alone from now on and the window that
\* refused it is not over (middleware.go:47-57, fiber.go:71-79): both headers
\* then point into a later window, which the entry does not count yet.
THEOREM WaitingSuffices ==
  ASSUME SmallCounts
  PROVE  MSpec => []WaitSuffices
<1>1. MInv => WaitSuffices
  <2> SUFFICES ASSUME MInv, NEW r \in Requests,
                      req[r].pc = "done", req[r].verdict = "refused",
                      WindowNum(now) = WindowNum(req[r].asked),
                      NEW h \in {req[r].reset, req[r].retry} \ {NoHeader}
               PROVE  DecideFixedWindow(data[Key], now + (h + 1) * Second, 1).allowed
    BY DEF WaitSuffices
  <2> DEFINE q == req[r]
             m == (h + 1) * Second
             at == now + m
             x == CountIn(data[Key], at, WindowNum(at))
  <2>1. /\ q \in Request /\ Answered(q) /\ q.asked \in Nat /\ now \in Nat
        /\ Key \in WindowKeys /\ 1 \in Costs
    BY RequestFacts
  <2>2. h \in Nat /\ (h = q.reset \/ (h = q.retry /\ q.retry # NoHeader))
    <3>1. q.reset \in Nat /\ q.retry \in Nat \cup {NoHeader}
      BY <2>1 DEF Request
    <3>2. (h = q.reset \/ h = q.retry) /\ h # NoHeader
      OBVIOUS
    <3> HIDE DEF q
    <3>3. QED
      BY <3>1, <3>2
  <2>3. m \in Nat
    <3>1. \A a, b \in Nat : (a + 1) * b \in Nat
      OBVIOUS
    <3>2. QED
      BY <2>2, <3>1, MiddlewareAssumption
  <2>4. WindowEnd(q.asked) \in Nat
    BY <2>1, WindowTypes
  <2>5. WindowEnd(q.asked) <= at
    <3>1. /\ q.asked <= now
          /\ WindowEnd(q.asked) <= now + (q.reset + 1) * Second
          /\ q.retry # NoHeader => WindowEnd(q.asked) <= q.asked + (q.retry + 1) * Second
      BY <2>1 DEF Answered
    <3>2. CASE h = q.reset
      BY <3>1, <3>2
    <3>3. CASE h = q.retry /\ q.retry # NoHeader
      <4>1. WindowEnd(q.asked) <= q.asked + m
        BY <3>1, <3>3
      <4> HIDE DEF m
      <4>2. QED
        BY <2>1, <2>3, <2>4, <3>1, <4>1
    <3>4. QED
      BY <2>2, <3>2, <3>3
  <2>6. at \in Nat
    BY <2>1, <2>3
  <2>7. WindowNum(now) < WindowNum(at)
    <3> HIDE DEF at
    <3>1. WindowNum(q.asked) < WindowNum(at)
      BY <2>1, <2>5, <2>6, AfterWindow
    <3>2. QED
      BY <3>1
  <2>8. /\ data[Key] \in Entry \cup {NoEntry}
        /\ data[Key] # NoEntry =>
             /\ data[Key].count \in 0..Limit
             /\ data[Key].windowNum \in Nat /\ data[Key].windowNum <= WindowNum(now)
    <3>1. TInv /\ WindowInv(Key)
      BY <2>1 DEF MInv, WInv
    <3>2. QED
      BY <2>1, <3>1, WindowFacts DEF WindowInv, OutlivesWindow, Outlives
  <2>9. WindowNum(now) \in Nat /\ WindowNum(at) \in Nat
    BY <2>1, <2>6, WindowTypes
  <2> HIDE DEF at
  <2>10. data[Key] # NoEntry => data[Key].windowNum # WindowNum(at)
    BY <2>7, <2>8, <2>9
  <2>11. x = 0
    BY <2>10 DEF CountIn, Missing
  <2>12. DecideFixedWindow(data[Key], at, 1).allowed = (x + 1 <= Limit)
    BY <2>1, <2>6, <2>8, WindowDecision
  <2> HIDE DEF x
  <2>13. x + 1 <= Limit
    BY <2>11, WindowAssumption
  <2>14. DecideFixedWindow(data[Key], at, 1).allowed
    BY <2>12, <2>13, Zenon
  <2>15. QED
    BY <2>14 DEF at
<1>2. QED
  BY <1>1, MiddlewareInvariance, PTL

==============================================================================
