---------------------------- MODULE MemoryProofs ----------------------------
(***************************************************************************)
(* Proofs about the in-memory store, its token bucket and its fixed        *)
(* window, for any keys, costs, capacities, limits, windows, milliseconds, *)
(* time to live and shards.                                                *)
(***************************************************************************)
EXTENDS MemoryLimiters, PolicyProofs, WellFoundedInduction, SequenceTheorems

\* No count comes near the largest machine integer.
SmallCounts == \A n \in Costs : 2 * Limit + n <= IntMax

-----------------------------------------------------------------------------
(* What the Allow operations make of an entry *)

\* The bucket of a key has its fields in order and its time is the present.
LEMMA BucketEntry ==
  ASSUME NEW e \in Entry \cup {NoEntry}, NEW at \in Nat,
         e # NoEntry => e.lastUpd \in 0..at /\ e.tokens <= Full
  PROVE  /\ Bucket(e, at) \in Entry
         /\ Bucket(e, at).lastUpd = at
         /\ Bucket(e, at).tokens \in 0..Full
         /\ Bucket(e, at).tokens =
              IF Missing(e, at) THEN Full
                                ELSE Least(e.tokens + Rate * (at - e.lastUpd), Full)
<1>1. Full \in Nat /\ NoEntry \notin Entry
  BY BucketAssumption, StoreAssumption DEF Full
<1>2. ZeroEntry \in Entry
  BY DEF ZeroEntry, Entry, Never
<1>3. CASE Missing(e, at)
  <2>1. Bucket(e, at) = [ZeroEntry EXCEPT !.tokens = Full, !.lastUpd = at]
    BY <1>3 DEF Bucket
  <2> DEFINE f == [ZeroEntry EXCEPT !.tokens = Full, !.lastUpd = at]
  <2>2. f \in Entry /\ f.tokens = Full /\ f.lastUpd = at
    BY <1>1, <1>2 DEF Entry
  <2>3. Full \in 0..Full
    BY <1>1
  <2>4. QED
    BY <1>3, <2>1, <2>2, <2>3, Zenon
<1>4. CASE ~ Missing(e, at)
  <2>1. e \in Entry /\ e.lastUpd # Never /\ e.lastUpd \in 0..at
    BY <1>4 DEF Missing, Never
  <2>2. Rate * (at - e.lastUpd) \in Nat
    BY <2>1, BucketAssumption
  <2>3. CASE at > e.lastUpd
    <3>1. Bucket(e, at) = [e EXCEPT
                             !.tokens = Least(e.tokens + Rate * (at - e.lastUpd), Full),
                             !.lastUpd = at]
      BY <1>4, <2>1, <2>3 DEF Bucket
    <3>2. Least(e.tokens + Rate * (at - e.lastUpd), Full) \in 0..Full
      BY <1>1, <2>1, <2>2 DEF Least, Entry
    <3> DEFINE x == Least(e.tokens + Rate * (at - e.lastUpd), Full)
               f == [e EXCEPT !.tokens = x, !.lastUpd = at]
    <3>3. x \in Nat
      BY <1>1, <3>2
    <3> HIDE DEF x
    <3>4. f \in Entry /\ f.tokens = x /\ f.lastUpd = at
      BY <2>1, <3>3 DEF Entry
    <3>5. QED
      BY <1>4, <3>1, <3>2, <3>4, Zenon DEF x
  <2>4. CASE at = e.lastUpd
    <3>1. Rate * (at - e.lastUpd) = 0
      BY <2>4, <2>1, BucketAssumption
    <3>2. Bucket(e, at) = e
      BY <1>4, <2>1, <2>4 DEF Bucket
    <3>3. e.tokens \in Nat /\ e.tokens <= Full
      BY <1>1, <2>1 DEF Entry
    <3>4. QED
      BY <1>1, <1>4, <2>1, <2>4, <3>1, <3>2, <3>3 DEF Least
  <2>5. QED
    BY <2>1, <2>3, <2>4
<1>5. QED
  BY <1>3, <1>4

\* AllowTokenBucket admits when the refilled bucket holds enough, takes the
\* tokens if it does, and renews the entry's time to live in any case.
LEMMA BucketDecision ==
  ASSUME NEW e \in Entry \cup {NoEntry}, NEW at \in Nat, NEW n \in Nat,
         e # NoEntry => e.lastUpd \in 0..at /\ e.tokens <= Full
  PROVE  /\ DecideTokenBucket(e, at, n).entry \in Entry
         /\ DecideTokenBucket(e, at, n).entry.lastUpd = at
         /\ DecideTokenBucket(e, at, n).entry.expiresAt = at + TTL
         /\ DecideTokenBucket(e, at, n).allowed = (Bucket(e, at).tokens >= n * Scale)
         /\ DecideTokenBucket(e, at, n).entry.tokens =
              IF Bucket(e, at).tokens >= n * Scale
                THEN Bucket(e, at).tokens - n * Scale
                ELSE Bucket(e, at).tokens
<1> DEFINE b == Bucket(e, at)
           left == IF b.tokens >= n * Scale THEN b.tokens - n * Scale ELSE b.tokens
           f == [b EXCEPT !.tokens = left, !.expiresAt = at + TTL]
<1>1. b \in Entry /\ b.lastUpd = at /\ b.tokens \in 0..Full
  BY BucketEntry
<1>2. n * Scale \in Nat /\ at + TTL \in Nat /\ Full \in Nat
  BY BucketAssumption, StoreAssumption DEF Full
<1> HIDE DEF b
<1>3. left \in Nat
  BY <1>1, <1>2
<1> HIDE DEF left
<1>4. f \in Entry /\ f.tokens = left /\ f.lastUpd = at /\ f.expiresAt = at + TTL
  BY <1>1, <1>2, <1>3 DEF Entry
<1>5. /\ DecideTokenBucket(e, at, n).entry = f
      /\ DecideTokenBucket(e, at, n).allowed = (b.tokens >= n * Scale)
  BY DEF DecideTokenBucket, b, left
<1>6. QED
  BY <1>4, <1>5, Zenon DEF b, left

\* What the window operations make of an entry, as operators, so that what
\* they keep is stated once.
Renewed(e, w, at)    == [e EXCEPT !.windowNum = w, !.lastUpd = at]
Cleared(e, w, at)    == [e EXCEPT !.count = 0, !.windowNum = w, !.lastUpd = at]
Counted(e, x, until) == [e EXCEPT !.count = x, !.expiresAt = until]
Carried(e, p)        == [e EXCEPT !.prevCount = p]
Logged(e, q, until)  == [e EXCEPT !.requests = q, !.expiresAt = until]

LEMMA RenewedKeeps ==
  ASSUME NEW e \in Entry, NEW w \in Nat, NEW at \in Nat
  PROVE  /\ Renewed(e, w, at) \in Entry
         /\ Renewed(e, w, at).count = e.count
         /\ Renewed(e, w, at).prevCount = e.prevCount
         /\ Renewed(e, w, at).windowNum = w
BY DEF Entry, Renewed

LEMMA ClearedCount ==
  ASSUME NEW e \in Entry, NEW w \in Nat, NEW at \in Nat
  PROVE  /\ Cleared(e, w, at) \in Entry
         /\ Cleared(e, w, at).count = 0
         /\ Cleared(e, w, at).prevCount = e.prevCount
         /\ Cleared(e, w, at).windowNum = w
<1> DEFINE f == [e EXCEPT !.count = 0]
<1>1. f \in Entry /\ f.count = 0 /\ f.prevCount = e.prevCount
  BY DEF Entry
<1>2. Cleared(e, w, at) = Renewed(f, w, at)
  BY DEF Cleared, Renewed
<1> HIDE DEF f
<1> DEFINE g == Renewed(f, w, at)
<1>3. /\ g \in Entry /\ g.count = f.count /\ g.prevCount = f.prevCount
      /\ g.windowNum = w
  BY <1>1, RenewedKeeps
<1> HIDE DEF g
<1>4. g \in Entry /\ g.count = 0 /\ g.prevCount = e.prevCount /\ g.windowNum = w
  BY <1>1, <1>3
<1>5. QED
  BY <1>2, <1>4 DEF g

LEMMA CountedCount ==
  ASSUME NEW e \in Entry, NEW x \in Int, NEW until \in Nat
  PROVE  /\ Counted(e, x, until) \in Entry
         /\ Counted(e, x, until).count = x
         /\ Counted(e, x, until).prevCount = e.prevCount
         /\ Counted(e, x, until).windowNum = e.windowNum
         /\ Counted(e, x, until).expiresAt = until
BY DEF Entry, Counted

LEMMA CarriedCount ==
  ASSUME NEW e \in Entry, NEW p \in Int
  PROVE  /\ Carried(e, p) \in Entry
         /\ Carried(e, p).count = e.count
         /\ Carried(e, p).prevCount = p
BY DEF Entry, Carried

LEMMA LoggedRequests ==
  ASSUME NEW e \in Entry, NEW q \in Seq(Nat), NEW until \in Nat
  PROVE  /\ Logged(e, q, until) \in Entry
         /\ Logged(e, q, until).requests = q
         /\ Logged(e, q, until).expiresAt = until
BY DEF Entry, Logged

\* A fresh entry counts nothing and has an empty log.
LEMMA FreshEntry ==
  /\ ZeroEntry \in Entry
  /\ ZeroEntry.count = 0 /\ ZeroEntry.prevCount = 0 /\ ZeroEntry.requests = << >>
BY DEF ZeroEntry, Entry, Never

\* A count that is admitted fits the limit: it is too small to wrap around.
LEMMA NoWrap ==
  ASSUME SmallCounts, NEW a \in Int, a <= 2 * Limit, NEW n \in Costs
  PROVE  /\ n \in Nat /\ Limit \in Nat
         /\ Plus(a, n) = a + n
BY WindowAssumption, LedgerAssumption DEF SmallCounts, Plus

\* What an entry that has not expired counts in window w.
CountIn(e, at, w) == IF ~ Missing(e, at) /\ e.windowNum = w THEN e.count ELSE 0

\* The counter is that of the current window and starts at zero in a new one.
LEMMA CurrentCounter ==
  ASSUME NEW e \in Entry \cup {NoEntry}, NEW at \in Nat
  PROVE  /\ Counter(e, at) \in Entry
         /\ Counter(e, at).windowNum = WindowNum(at)
         /\ Counter(e, at).count = CountIn(e, at, WindowNum(at))
<1> DEFINE c == Counter(e, at)
           w == WindowNum(at)
           x == CountIn(e, at, w)
<1>1. w \in Nat
  BY WindowTypes
<1>2. CASE Missing(e, at)
  <2> DEFINE f == Renewed(ZeroEntry, w, at)
  <2>1. c = f
    BY <1>2 DEF Counter, Renewed
  <2>2. f \in Entry /\ f.count = ZeroEntry.count /\ f.windowNum = w
    BY <1>1, FreshEntry, RenewedKeeps
  <2> HIDE DEF f
  <2>3. f \in Entry /\ f.count = 0 /\ f.windowNum = w
    BY <2>2, FreshEntry
  <2>4. x = 0
    BY <1>2 DEF CountIn
  <2>5. QED
    BY <2>1, <2>3, <2>4, Zenon
<1>3. CASE ~ Missing(e, at) /\ e.windowNum # w
  <2> DEFINE f == Cleared(e, w, at)
  <2>1. c = f
    BY <1>3 DEF Counter, Cleared
  <2>2. e \in Entry
    BY <1>3 DEF Missing
  <2>3. f \in Entry /\ f.count = 0 /\ f.windowNum = w
    BY <1>1, <2>2, ClearedCount
  <2>4. x = 0
    BY <1>3 DEF CountIn
  <2> HIDE DEF f, x
  <2>5. QED
    BY <2>1, <2>3, <2>4, Zenon DEF x
<1>4. CASE ~ Missing(e, at) /\ e.windowNum = w
  BY <1>4 DEF Counter, Missing, CountIn
<1>5. QED
  BY <1>2, <1>3, <1>4

\* AllowFixedWindow admits when the current window then has no more than Limit,
\* counts what it admits, and keeps the entry for one window more.
LEMMA WindowDecision ==
  ASSUME SmallCounts,
         NEW e \in Entry \cup {NoEntry}, NEW at \in Nat, NEW n \in Costs,
         e # NoEntry => e.count \in 0..Limit
  PROVE  LET x == CountIn(e, at, WindowNum(at))
             d == DecideFixedWindow(e, at, n)
         IN  /\ x \in 0..Limit
             /\ d.allowed = (x + n <= Limit)
             /\ d.retryAfter = IF x + n <= Limit THEN 0 ELSE WindowEnd(at) - at
             /\ d.entry \in Entry
             /\ d.entry.count = IF x + n <= Limit THEN x + n ELSE x
             /\ d.entry.count \in 0..Limit
             /\ d.entry.windowNum = WindowNum(at)
             /\ d.entry.expiresAt = WindowEnd(at) + Window
<1> DEFINE c == Counter(e, at)
           x == CountIn(e, at, WindowNum(at))
           count == IF x + n <= Limit THEN x + n ELSE x
           until == WindowEnd(at) + Window
           f == Counted(c, count, until)
<1>1. Limit \in Nat /\ n \in Nat /\ until \in Nat
  BY WindowTypes, WindowAssumption, LedgerAssumption
<1>2. x \in 0..Limit
  BY <1>1 DEF CountIn, Missing
<1>3. c \in Entry /\ c.windowNum = WindowNum(at) /\ c.count = x
  BY CurrentCounter
<1> HIDE DEF c, x, until
<1>4. Plus(x, n) = x + n
  BY <1>1, <1>2, NoWrap
<1>5. count \in 0..Limit
  BY <1>1, <1>2
<1>6. /\ DecideFixedWindow(e, at, n).allowed = (x + n <= Limit)
      /\ DecideFixedWindow(e, at, n).retryAfter
           = IF x + n <= Limit THEN 0 ELSE WindowEnd(at) - at
      /\ DecideFixedWindow(e, at, n).entry = f
  BY <1>3, <1>4, Zenon DEF DecideFixedWindow, Counted, c, until
<1> HIDE DEF count
<1>7. f \in Entry /\ f.count = count /\ f.windowNum = c.windowNum /\ f.expiresAt = until
  <2>1. count \in Int
    BY <1>1, <1>5
  <2>2. QED
    BY <1>1, <1>3, <2>1, CountedCount
<1> HIDE DEF f
<1>8. QED
  BY <1>2, <1>3, <1>5, <1>6, <1>7, Zenon DEF x, until, count

\* The log is cut between its old and its recent times.
LEMMA CutoffExists ==
  ASSUME NEW q \in Seq(Nat), NEW from \in Int
  PROVE  /\ Cutoff(q, from) \in 0..Len(q)
         /\ \A i \in 1..Cutoff(q, from) : q[i] <= from
         /\ Cutoff(q, from) < Len(q) => q[Cutoff(q, from) + 1] > from
<1> DEFINE Late == {i \in Nat : i \in 1..Len(q) => q[i] > from} \ {0}
           Cut(c) == /\ \A i \in 1..c : q[i] <= from
                     /\ c < Len(q) => q[c + 1] > from
<1>1. Len(q) \in Nat /\ \A i \in 1..Len(q) : q[i] \in Nat
  OBVIOUS
<1>2. Len(q) + 1 \in Late
  BY <1>1
<1>3. PICK m \in Late : \A y \in Late : ~ (<<y, m>> \in OpToRel(<, Nat))
  <2> HIDE DEF Late
  <2>1. Late \subseteq Nat
    BY DEF Late
  <2>2. QED
    BY <1>2, <2>1, WFMin, NatLessThanWellFounded
<1>4. \A y \in Late : y >= m
  <2> SUFFICES ASSUME NEW y \in Late, y < m
               PROVE  FALSE
    <3>1. Late \subseteq Nat
      OBVIOUS
    <3> HIDE DEF Late
    <3>2. QED
      BY <3>1
  <2>1. y \in Nat /\ m \in Nat
    OBVIOUS
  <2> HIDE DEF Late
  <2>2. <<y, m>> \in OpToRel(<, Nat)
    BY <2>1 DEF OpToRel
  <2>3. QED
    BY <1>3, <2>2
<1>5. m - 1 \in 0..Len(q) /\ Cut(m - 1)
  BY <1>1, <1>2, <1>4
<1>6. Cutoff(q, from) = CHOOSE c \in 0..Len(q) : Cut(c)
  BY DEF Cutoff
<1> HIDE DEF Cut
<1>7. Cutoff(q, from) \in 0..Len(q) /\ Cut(Cutoff(q, from))
  BY <1>5, <1>6
<1>8. QED
  BY <1>7 DEF Cut

\* What an entry that has not expired counts in the window before window w.
PreviousIn(e, at, w) ==
  CASE ~ Missing(e, at) /\ e.windowNum = w     -> e.prevCount
    [] ~ Missing(e, at) /\ e.windowNum + 1 = w -> e.count
    [] OTHER                                   -> 0

\* The counters are those of the current window and of the one before it.
LEMMA CurrentCounters ==
  ASSUME NEW e \in Entry \cup {NoEntry}, NEW at \in Nat
  PROVE  /\ Counters(e, at) \in Entry
         /\ Counters(e, at).windowNum = WindowNum(at)
         /\ Counters(e, at).count = CountIn(e, at, WindowNum(at))
         /\ Counters(e, at).prevCount = PreviousIn(e, at, WindowNum(at))
<1> DEFINE c == Counters(e, at)
           w == WindowNum(at)
           x == CountIn(e, at, w)
           y == PreviousIn(e, at, w)
<1>1. w \in Nat
  BY WindowTypes
<1>2. CASE Missing(e, at)
  <2> DEFINE f == Renewed(ZeroEntry, w, at)
  <2>1. c = f
    BY <1>2 DEF Counters, Renewed
  <2>2. /\ f \in Entry /\ f.windowNum = w
        /\ f.count = ZeroEntry.count /\ f.prevCount = ZeroEntry.prevCount
    BY <1>1, FreshEntry, RenewedKeeps
  <2> HIDE DEF f
  <2>3. f \in Entry /\ f.windowNum = w /\ f.count = 0 /\ f.prevCount = 0
    BY <2>2, FreshEntry
  <2>4. x = 0 /\ y = 0
    BY <1>2 DEF CountIn, PreviousIn
  <2>5. QED
    BY <2>1, <2>3, <2>4, Zenon
<1>3. CASE ~ Missing(e, at) /\ e.windowNum # w
  <2> DEFINE p == IF w = e.windowNum + 1 THEN e.count ELSE 0
             g == Carried(e, p)
             f == Cleared(g, w, at)
  <2>1. e \in Entry /\ e.count \in Int /\ p \in Int
    BY <1>3 DEF Missing, Entry
  <2>2. c = f
    BY <1>3 DEF Counters, Carried, Cleared
  <2>3. x = 0 /\ y = p
    BY <1>3 DEF CountIn, PreviousIn
  <2> HIDE DEF p, x, y
  <2>4. g \in Entry /\ g.prevCount = p
    BY <2>1, CarriedCount
  <2> HIDE DEF g
  <2>5. f \in Entry /\ f.count = 0 /\ f.prevCount = g.prevCount /\ f.windowNum = w
    BY <1>1, <2>4, ClearedCount
  <2> HIDE DEF f
  <2>6. QED
    BY <2>2, <2>3, <2>4, <2>5, Zenon DEF x, y
<1>4. CASE ~ Missing(e, at) /\ e.windowNum = w
  <2>1. c = e
    BY <1>4, Zenon DEF Counters
  <2>2. e \in Entry
    BY <1>4 DEF Missing
  <2>3. x = e.count /\ y = e.prevCount
    <3>1. e.windowNum + 1 # w
      BY <1>4, <2>2 DEF Entry
    <3>2. QED
      BY <1>4, <3>1, Zenon DEF CountIn, PreviousIn
  <2> HIDE DEF c, x, y
  <2>4. QED
    BY <1>4, <2>1, <2>2, <2>3, Zenon DEF c, x, y
<1>5. QED
  BY <1>2, <1>3, <1>4

\* AllowSlidingWindowCounter admits when the share of the previous window and
\* the current one then have no more than Limit, counts what it admits, and
\* keeps the entry for one window more.
LEMMA CounterDecision ==
  ASSUME SmallCounts,
         NEW e \in Entry \cup {NoEntry}, NEW at \in Nat, NEW n \in Costs,
         NEW slip \in Slips(Counters(e, at).prevCount, at),
         e # NoEntry => e.count \in 0..Limit /\ e.prevCount \in 0..Limit
  PROVE  LET x == CountIn(e, at, WindowNum(at))
             y == PreviousIn(e, at, WindowNum(at))
             share == (y * Left(at)) \div SpanMs - slip
             d == DecideSlidingCounter(e, at, n, slip)
         IN  /\ x \in 0..Limit /\ y \in 0..Limit /\ slip \in Slips(y, at)
             /\ d.allowed = (share + x + n <= Limit)
             /\ d.entry \in Entry
             /\ d.entry.count = IF share + x + n <= Limit THEN x + n ELSE x
             /\ d.entry.count \in 0..Limit
             /\ d.entry.prevCount = y
             /\ d.entry.windowNum = WindowNum(at)
             /\ d.entry.expiresAt = WindowEnd(at) + Window
<1> DEFINE c == Counters(e, at)
           x == CountIn(e, at, WindowNum(at))
           y == PreviousIn(e, at, WindowNum(at))
           share == (y * Left(at)) \div SpanMs - slip
           count == IF share + x + n <= Limit THEN x + n ELSE x
           until == WindowEnd(at) + Window
           f == Counted(c, count, until)
<1>1. Limit \in Nat /\ n \in Nat /\ until \in Nat
  BY WindowTypes, WindowAssumption, LedgerAssumption
<1>2. x \in 0..Limit /\ y \in 0..Limit
  BY <1>1 DEF CountIn, PreviousIn, Missing
<1>3. c \in Entry /\ c.windowNum = WindowNum(at) /\ c.count = x /\ c.prevCount = y
  BY CurrentCounters
<1>4. slip \in Slips(y, at)
  BY <1>3
<1>5. share \in 0..y
  <2> HIDE DEF y
  <2>1. y \in Nat
    BY <1>1, <1>2
  <2>2. QED
    BY <1>4, <2>1, ShareBounds
<1>6. /\ DecideSlidingCounter(e, at, n, slip).allowed
           = (Plus(share + x, n) <= Limit)
      /\ DecideSlidingCounter(e, at, n, slip).entry
           = Counted(c, IF Plus(share + x, n) <= Limit THEN Plus(x, n) ELSE x, until)
  <2> HIDE DEF x, y
  <2>1. QED
    BY <1>3, Zenon DEF DecideSlidingCounter, Counted, c, until
<1> HIDE DEF c, x, y, share, until
<1>7. Plus(share + x, n) = share + x + n /\ Plus(x, n) = x + n
  <2>1. share + x \in Int /\ share + x <= 2 * Limit /\ x \in Int /\ x <= 2 * Limit
    BY <1>1, <1>2, <1>5
  <2>2. QED
    BY <2>1, NoWrap
<1>8. count \in 0..Limit
  BY <1>1, <1>2, <1>5
<1>9. /\ DecideSlidingCounter(e, at, n, slip).allowed = (share + x + n <= Limit)
      /\ DecideSlidingCounter(e, at, n, slip).entry = f
  BY <1>6, <1>7, Zenon
<1> HIDE DEF count
<1>10. /\ f \in Entry /\ f.count = count /\ f.prevCount = c.prevCount
       /\ f.windowNum = c.windowNum /\ f.expiresAt = until
  <2>1. count \in Int
    BY <1>1, <1>8
  <2>2. QED
    BY <1>1, <1>3, <2>1, CountedCount
<1> HIDE DEF f
<1>11. QED
  BY <1>2, <1>3, <1>4, <1>8, <1>9, <1>10, Zenon DEF x, y, share, until, count

\* AllowSlidingWindowLog drops the times that are no longer in the window, admits
\* when no more than Limit are left then, adds what it admits, and renews the
\* entry's time to live.
LEMMA LogDecision ==
  ASSUME NEW e \in Entry \cup {NoEntry}, NEW at \in Nat, NEW n \in Costs,
         e # NoEntry => Len(e.requests) <= Limit
  PROVE  LET q == Recent(Log(e, at).requests, at - Window)
             d == DecideSlidingLog(e, at, n)
         IN  /\ Log(e, at).requests \in Seq(Nat)
             /\ q \in Seq(Nat)
             /\ d.allowed = (Len(q) + n <= Limit)
             /\ d.entry \in Entry
             /\ d.entry.requests = IF Len(q) + n <= Limit THEN q \o Copies(n, at) ELSE q
             /\ Len(d.entry.requests) <= Limit
             /\ d.entry.expiresAt = at + TTL
<1> DEFINE l == Log(e, at)
           q == Recent(l.requests, at - Window)
           r == IF Len(q) + n <= Limit THEN q \o Copies(n, at) ELSE q
<1>1. Limit \in Nat /\ n \in Nat /\ at - Window \in Int /\ at + TTL \in Nat
  BY WindowAssumption, LedgerAssumption, StoreAssumption
<1>2. l \in Entry /\ Len(l.requests) <= Limit
  <2>1. CASE Missing(e, at)
    <3> DEFINE f == [ZeroEntry EXCEPT !.lastUpd = at]
    <3>1. f \in Entry /\ f.requests = ZeroEntry.requests
      BY FreshEntry DEF Entry
    <3>2. l = f
      BY <2>1 DEF Log
    <3> HIDE DEF f
    <3>3. f \in Entry /\ Len(f.requests) <= Limit
      BY <1>1, <3>1, FreshEntry
    <3>4. QED
      BY <3>2, <3>3
  <2>2. CASE ~ Missing(e, at)
    BY <2>2 DEF Log, Missing
  <2>3. QED
    BY <2>1, <2>2
<1>3. l.requests \in Seq(Nat)
  BY <1>2 DEF Entry
<1> HIDE DEF l
<1>4. q \in Seq(Nat) /\ Len(q) <= Len(l.requests)
  <2>1. Cutoff(l.requests, at - Window) \in 0..Len(l.requests)
    BY <1>1, <1>3, CutoffExists
  <2>2. QED
    BY <1>3, <2>1 DEF Recent
<1> HIDE DEF q
<1>5. Copies(n, at) \in Seq(Nat) /\ Len(Copies(n, at)) = n
  BY <1>1 DEF Copies
<1>6. r \in Seq(Nat) /\ Len(r) <= Limit
  <2>1. CASE Len(q) + n <= Limit
    BY <1>1, <1>4, <1>5, <2>1
  <2>2. CASE ~ (Len(q) + n <= Limit)
    <3>1. Len(q) <= Limit
      BY <1>1, <1>2, <1>3, <1>4
    <3>2. QED
      BY <1>4, <2>2, <3>1
  <2>3. QED
    BY <2>1, <2>2
<1>7. DecideSlidingLog(e, at, n).entry = Logged(l, r, at + TTL)
  BY DEF DecideSlidingLog, Logged, l, q
<1>8. DecideSlidingLog(e, at, n).allowed = (Len(q) + n <= Limit)
  BY Zenon DEF DecideSlidingLog, l, q
<1>9. r = IF Len(q) + n <= Limit THEN q \o Copies(n, at) ELSE q
  OBVIOUS
<1> HIDE DEF r
<1>10. QED
  <2> DEFINE f == Logged(l, r, at + TTL)
  <2>1. f \in Entry /\ f.requests = r /\ f.expiresAt = at + TTL
    <3>1. at + TTL \in Nat /\ l \in Entry /\ r \in Seq(Nat)
      BY <1>1, <1>2, <1>6
    <3>2. QED
      BY <3>1, LoggedRequests, Zenon
  <2> HIDE DEF f
  <2>2. QED
    BY <1>3, <1>4, <1>6, <1>7, <1>8, <1>9, <2>1, Zenon DEF f, q, l

-----------------------------------------------------------------------------
(* The inductive invariant *)

\* The bounds of the entry of a key, by its kind.
KindOK(k, e) ==
  /\ k \in BucketKeys  => e.tokens <= Full
  /\ k \in WindowKeys  => e.count \in 0..Limit
  /\ k \in CounterKeys => e.count \in 0..Limit /\ e.prevCount \in 0..Limit
  /\ k \in LogKeys     => Len(e.requests) <= Limit

KindsOK == \A k \in Keys : data[k] # NoEntry => KindOK(k, data[k])

\* A bucket was refilled in the past, and its time to live counts from then.
BucketClockOK(e, at) == e.lastUpd \in 0..at /\ e.expiresAt = e.lastUpd + TTL

BucketClocks ==
  \A k \in BucketKeys : data[k] # NoEntry => BucketClockOK(data[k], now)

TInv == StoreTypeOK /\ KindsOK /\ BucketClocks /\ sweepAt <= now

\* TypeOK says the same of the kinds, one kind after the other.
LEMMA KindsByKey ==
  ASSUME StoreTypeOK, KindsOK
  PROVE  TypeOK
<1>1. \A k \in BucketKeys \cup WindowKeys \cup CounterKeys \cup LogKeys : k \in Keys
  BY KindsApart
<1>2. BucketTypeOK
  BY <1>1 DEF KindsOK, KindOK, BucketTypeOK
<1>3. WindowTypeOK
  BY <1>1 DEF KindsOK, KindOK, WindowTypeOK
<1>4. CounterTypeOK
  BY <1>1 DEF KindsOK, KindOK, CounterTypeOK
<1>5. LogTypeOK
  BY <1>1 DEF KindsOK, KindOK, LogTypeOK
<1>6. QED
  BY <1>2, <1>3, <1>4, <1>5 DEF TypeOK

\* What a call of any kind has in common: it answers with a decision whose entry
\* is well formed for the key.
Decided(k, n, d) ==
  /\ Answer(k, n, d)
  /\ d.entry \in Entry
  /\ d.allowed \in BOOLEAN
  /\ KindOK(k, d.entry)
  /\ k \in BucketKeys =>
       d = DecideTokenBucket(data[k], now, n) /\ BucketClockOK(d.entry, now)
  /\ k \in WindowKeys => d = DecideFixedWindow(data[k], now, n)
  /\ k \in CounterKeys =>
       \E slip \in Slips(Counters(data[k], now).prevCount, now) :
         d = DecideSlidingCounter(data[k], now, n, slip)
  /\ k \in LogKeys => d = DecideSlidingLog(data[k], now, n)

LEMMA AllowDecides ==
  ASSUME SmallCounts, TInv, NEW k \in Keys, Allow(k)
  PROVE  \E n \in Costs : \E d : Decided(k, n, d)
<1>1. PICK n \in Costs :
        \/ k \in BucketKeys  /\ AllowTokenBucket(k, n)
        \/ k \in WindowKeys  /\ AllowFixedWindow(k, n)
        \/ k \in CounterKeys /\ AllowSlidingWindowCounter(k, n)
        \/ k \in LogKeys     /\ AllowSlidingWindowLog(k, n)
  BY DEF Allow
<1>2. /\ now \in Nat /\ n \in Nat
      /\ data[k] \in Entry \cup {NoEntry}
      /\ data[k] # NoEntry => KindOK(k, data[k])
  BY LedgerAssumption DEF TInv, StoreTypeOK, LedgerTypeOK, Times, KindsOK
<1>3. CASE k \in BucketKeys /\ AllowTokenBucket(k, n)
  <2> DEFINE d == DecideTokenBucket(data[k], now, n)
  <2>1. data[k] # NoEntry => data[k].lastUpd \in 0..now /\ data[k].tokens <= Full
    BY <1>2, <1>3 DEF TInv, BucketClocks, BucketClockOK, KindOK
  <2>2. /\ d.entry \in Entry
        /\ d.entry.lastUpd = now
        /\ d.entry.expiresAt = now + TTL
        /\ d.allowed = (Bucket(data[k], now).tokens >= n * Scale)
        /\ d.entry.tokens = IF Bucket(data[k], now).tokens >= n * Scale
                              THEN Bucket(data[k], now).tokens - n * Scale
                              ELSE Bucket(data[k], now).tokens
    BY <1>2, <2>1, BucketDecision
  <2>3. Bucket(data[k], now).tokens \in 0..Full /\ n * Scale \in Nat /\ Full \in Nat
    BY <1>2, <2>1, BucketEntry, BucketAssumption, KindsApart DEF Full
  <2>4. Answer(k, n, d)
    BY <1>3 DEF AllowTokenBucket
  <2> HIDE DEF d
  <2>5. d.allowed \in BOOLEAN
    BY <2>2
  <2>6. d.entry.tokens <= Full
    BY <2>2, <2>3
  <2>7. KindOK(k, d.entry)
    BY <1>3, <2>6, KindsApart DEF KindOK
  <2>8. BucketClockOK(d.entry, now)
    BY <1>2, <2>2 DEF BucketClockOK
  <2>9. QED
    BY <1>3, <2>2, <2>4, <2>5, <2>7, <2>8, KindsApart DEF Decided, d
<1>4. CASE k \in WindowKeys /\ AllowFixedWindow(k, n)
  <2> DEFINE d == DecideFixedWindow(data[k], now, n)
  <2>1. d.entry \in Entry /\ d.allowed \in BOOLEAN /\ d.entry.count \in 0..Limit
    <3>1. (CountIn(data[k], now, WindowNum(now)) + n <= Limit) \in BOOLEAN
      OBVIOUS
    <3>2. data[k] # NoEntry => data[k].count \in 0..Limit
      BY <1>2, <1>4 DEF KindOK
    <3>3. QED
      BY <1>2, <3>1, <3>2, WindowDecision
  <2>2. Answer(k, n, d)
    BY <1>4 DEF AllowFixedWindow
  <2> HIDE DEF d
  <2>3. KindOK(k, d.entry)
    BY <1>4, <2>1, KindsApart DEF KindOK
  <2>4. QED
    BY <1>4, <2>1, <2>2, <2>3, KindsApart DEF Decided, d
<1>5. CASE k \in CounterKeys /\ AllowSlidingWindowCounter(k, n)
  <2>1. PICK slip \in Slips(Counters(data[k], now).prevCount, now) :
          Answer(k, n, DecideSlidingCounter(data[k], now, n, slip))
    BY <1>5 DEF AllowSlidingWindowCounter
  <2> DEFINE d == DecideSlidingCounter(data[k], now, n, slip)
  <2>2. /\ d.entry \in Entry /\ d.allowed \in BOOLEAN
        /\ d.entry.count \in 0..Limit /\ d.entry.prevCount \in 0..Limit
    <3> DEFINE y == PreviousIn(data[k], now, WindowNum(now))
               share == (y * Left(now)) \div SpanMs - slip
    <3>1. (share + CountIn(data[k], now, WindowNum(now)) + n <= Limit) \in BOOLEAN
      OBVIOUS
    <3>2. /\ data[k] \in Entry \cup {NoEntry} /\ now \in Nat
          /\ data[k] # NoEntry => data[k].count \in 0..Limit /\ data[k].prevCount \in 0..Limit
      BY <1>2, <1>5 DEF KindOK
    <3>3. /\ d.allowed = (share + CountIn(data[k], now, WindowNum(now)) + n <= Limit)
          /\ d.entry \in Entry /\ d.entry.count \in 0..Limit
          /\ d.entry.prevCount = y /\ y \in 0..Limit
      BY <3>2, CounterDecision
    <3> HIDE DEF d, share, y
    <3>4. QED
      BY <3>1, <3>3
  <2>3. Answer(k, n, d)
    BY <2>1
  <2> HIDE DEF d
  <2>4. KindOK(k, d.entry)
    BY <1>5, <2>2, KindsApart DEF KindOK
  <2>5. QED
    BY <1>5, <2>2, <2>3, <2>4, KindsApart DEF Decided, d
<1>6. CASE k \in LogKeys /\ AllowSlidingWindowLog(k, n)
  <2> DEFINE d == DecideSlidingLog(data[k], now, n)
  <2>1. d.entry \in Entry /\ d.allowed \in BOOLEAN /\ Len(d.entry.requests) <= Limit
    <3> DEFINE q == Recent(Log(data[k], now).requests, now - Window)
    <3>1. (Len(q) + n <= Limit) \in BOOLEAN
      OBVIOUS
    <3>2. data[k] # NoEntry => Len(data[k].requests) <= Limit
      BY <1>2, <1>6 DEF KindOK
    <3>3. /\ d.allowed = (Len(q) + n <= Limit)
          /\ d.entry \in Entry /\ Len(d.entry.requests) <= Limit
      BY <1>2, <3>2, LogDecision
    <3> HIDE DEF d, q
    <3>4. QED
      BY <3>1, <3>3
  <2>2. Answer(k, n, d)
    BY <1>6 DEF AllowSlidingWindowLog
  <2> HIDE DEF d
  <2>3. KindOK(k, d.entry)
    BY <1>6, <2>1, KindsApart DEF KindOK
  <2>4. QED
    BY <1>6, <2>1, <2>2, <2>3, KindsApart DEF Decided, d
<1>7. QED
  BY <1>1, <1>3, <1>4, <1>5, <1>6

\* The invariant holds after the entry of one key was replaced or removed.
LEMMA TInvPointwise ==
  ASSUME TInv, LedgerTypeOK', now' >= now, sweepAt' <= now',
         sweepAt' \in Times, nextShard' \in 0..NumShards,
         data' \in [Keys -> Entry \cup {NoEntry}],
         \A k \in Keys : data'[k] # NoEntry =>
           \/ data'[k] = data[k]
           \/ KindOK(k, data'[k]) /\ (k \in BucketKeys => BucketClockOK(data'[k], now'))
  PROVE  TInv'
<1>1. StoreTypeOK'
  BY DEF StoreTypeOK
<1>2. KindsOK'
  BY DEF TInv, KindsOK
<1>3. BucketClocks'
  <2> SUFFICES ASSUME NEW k \in BucketKeys, data'[k] # NoEntry
               PROVE  BucketClockOK(data'[k], now')
    BY DEF BucketClocks
  <2>1. k \in Keys
    BY KindsApart
  <2>2. CASE data'[k] = data[k]
    <3>1. BucketClockOK(data[k], now)
      BY <2>2 DEF TInv, BucketClocks
    <3>2. now \in Nat /\ now' \in Nat
      BY LedgerAssumption DEF TInv, StoreTypeOK, LedgerTypeOK, Times
    <3>3. BucketClockOK(data[k], now')
      BY <3>1, <3>2 DEF BucketClockOK
    <3>4. QED
      BY <2>2, <3>3
  <2>3. QED
    BY <2>1, <2>2
<1>4. QED
  BY <1>1, <1>2, <1>3 DEF TInv

LEMMA TInvInit ==
  ASSUME StoreInit
  PROVE  TInv
<1> USE LedgerAssumption, StoreAssumption DEF StoreInit, LedgerInit
<1>1. StoreTypeOK
  BY DEF StoreTypeOK, LedgerTypeOK, Times
<1>2. KindsOK /\ BucketClocks
  BY KindsApart DEF KindsOK, BucketClocks
<1>3. QED
  BY <1>1, <1>2 DEF TInv

LEMMA TInvStep ==
  ASSUME SmallCounts, TInv, [Next]_vars
  PROVE  TInv'
<1>1. /\ StoreTypeOK /\ LedgerTypeOK
      /\ data \in [Keys -> Entry \cup {NoEntry}]
      /\ sweepAt \in Times /\ now \in Times /\ nextShard \in 0..NumShards
      /\ NumShards \in Nat /\ Times \subseteq Nat /\ sweepAt <= now
      /\ NoEntry \notin Entry
  BY LedgerAssumption, StoreAssumption DEF TInv, StoreTypeOK, LedgerTypeOK, Times
<1>2. CASE UNCHANGED vars
  BY <1>2 DEF vars, ledger, store, sweep, TInv, StoreTypeOK, LedgerTypeOK,
              KindsOK, BucketClocks
<1>3. CASE Tick
  <2>1. now' = now + 1 /\ data' = data /\ sweepAt' = sweepAt /\ nextShard' = nextShard
    BY <1>3 DEF Tick, AdvanceClock, store, sweep
  <2>2. LedgerTypeOK'
    BY <1>1, <1>3, LedgerAssumption DEF Tick, AdvanceClock, LedgerTypeOK, Times
  <2>3. now' >= now /\ sweepAt' <= now'
    BY <1>1, <2>1
  <2>4. QED
    BY <1>1, <2>1, <2>2, <2>3, TInvPointwise
<1>4. CASE BeginSweep
  <2>1. /\ UNCHANGED <<now, admitted, before, reply, data>>
        /\ sweepAt' = now /\ nextShard' = 0
    BY <1>4 DEF BeginSweep, ledger
  <2>2. LedgerTypeOK'
    BY <1>1, <2>1 DEF LedgerTypeOK
  <2>3. QED
    BY <1>1, <2>1, <2>2, TInvPointwise
<1>5. CASE SweepShard
  <2>1. /\ UNCHANGED <<now, admitted, before, reply, sweepAt>>
        /\ nextShard' \in 0..NumShards
    BY <1>1, <1>5 DEF SweepShard, ledger
  <2>2. /\ data' \in [Keys -> Entry \cup {NoEntry}]
        /\ \A k \in Keys : data'[k] # NoEntry => data'[k] = data[k]
    BY <1>1, <1>5 DEF SweepShard
  <2>3. LedgerTypeOK'
    BY <1>1, <2>1 DEF LedgerTypeOK
  <2>4. QED
    BY <1>1, <2>1, <2>2, <2>3, TInvPointwise
<1>6. ASSUME NEW k \in Keys, Allow(k)
      PROVE  TInv'
  <2>1. PICK n \in Costs : \E d : Decided(k, n, d)
    BY <1>6, AllowDecides
  <2>2. PICK d : Decided(k, n, d)
    BY <2>1
  <2>3. /\ data' = [data EXCEPT ![k] = d.entry]
        /\ UNCHANGED <<sweepAt, nextShard>>
        /\ Admit(k, n) \/ Refuse(k, n)
    BY <2>2 DEF Decided, Answer, sweep
  <2>4. LedgerTypeOK' /\ now' = now
    BY <1>1, <2>3, AnswerKeepsLedger
  <2>5. d.entry \in Entry /\ KindOK(k, d.entry)
        /\ (k \in BucketKeys => BucketClockOK(d.entry, now'))
    BY <2>2, <2>4 DEF Decided
  <2> DEFINE e == d.entry
  <2>6. e \in Entry /\ data' = [data EXCEPT ![k] = e]
    BY <2>3, <2>5
  <2> HIDE DEF e
  <2>7. /\ data' \in [Keys -> Entry \cup {NoEntry}]
        /\ \A j \in Keys : data'[j] = IF j = k THEN e ELSE data[j]
    BY <1>1, <2>6
  <2>8. \A j \in Keys : data'[j] # NoEntry =>
           \/ data'[j] = data[j]
           \/ KindOK(j, data'[j]) /\ (j \in BucketKeys => BucketClockOK(data'[j], now'))
    BY <2>5, <2>7 DEF e
  <2>9. QED
    BY <1>1, <2>3, <2>4, <2>7, <2>8, TInvPointwise
<1>7. ASSUME NEW k \in Keys, Reset(k)
      PROVE  TInv'
  <2>1. /\ data' = [data EXCEPT ![k] = NoEntry]
        /\ UNCHANGED <<sweepAt, nextShard, now>>
        /\ Forget(k)
    BY <1>7 DEF Reset, Forget, sweep
  <2>2. LedgerTypeOK'
    BY <1>1, <2>1, LedgerAssumption DEF Forget, LedgerTypeOK
  <2>3. /\ data' \in [Keys -> Entry \cup {NoEntry}]
        /\ \A j \in Keys : data'[j] # NoEntry => data'[j] = data[j]
    BY <1>1, <2>1
  <2>4. QED
    BY <1>1, <2>1, <2>2, <2>3, TInvPointwise
<1>8. QED
  BY <1>2, <1>3, <1>4, <1>5, <1>6, <1>7 DEF Next, Background

\* TypeOK holds in every reachable state (memory.go:20-32): token counts stay
\* between nothing and a full bucket, window counts and logs within the limit,
\* whatever expires, is swept or is reset, if no count is near the largest
\* integer.
THEOREM TypeCorrect ==
  ASSUME SmallCounts
  PROVE  Spec => []TypeOK
<1>1. TInv => TypeOK
  BY KindsByKey DEF TInv
<1>2. QED
  BY <1>1, TInvInit, TInvStep, PTL DEF Spec

-----------------------------------------------------------------------------
(* The token bucket *)

\* An entry lives long enough for its bucket to fill up meanwhile.
LongTTL == Full <= Rate * (TTL + 1)

\* The content of the bucket of key k, refilled up to now.
Level(k) == Bucket(data[k], now).tokens

\* What was admitted since s and what is left fit a full bucket and the tokens
\* that have flowed in since s; and for some s they are exactly that.
Within(k, s) == Since(k, s) * Scale + Level(k) <= Full + Rate * (now - s)
Exact(k, s)  == Since(k, s) * Scale + Level(k) = Full + Rate * (now - s)

Balanced(k) == (\A s \in 0..now : Within(k, s)) /\ (\E s \in 0..now : Exact(k, s))

BInv == TInv /\ \A k \in BucketKeys : Balanced(k)

-----------------------------------------------------------------------------

LEMMA Constants ==
  /\ Full \in Nat /\ Scale \in Nat /\ Rate \in Nat /\ TTL \in Nat
  /\ NoEntry \notin Entry
  /\ BucketKeys \subseteq Keys
BY BucketAssumption, KindsApart, StoreAssumption DEF Full

\* In a tick a bucket gains what flows in or becomes full, also when its entry
\* expires.
LEMMA Flow ==
  ASSUME LongTTL, NEW e \in Entry \cup {NoEntry}, NEW at \in Nat,
         e # NoEntry => BucketClockOK(e, at) /\ e.tokens <= Full
  PROVE  /\ Bucket(e, at).tokens \in 0..Full
         /\ Bucket(e, at + 1).tokens = Least(Bucket(e, at).tokens + Rate, Full)
<1> DEFINE b == Bucket(e, at).tokens
           c == Bucket(e, at + 1).tokens
<1>1. e # NoEntry => e.lastUpd \in 0..at /\ e.lastUpd \in 0..(at + 1) /\ e.tokens <= Full
  BY DEF BucketClockOK
<1>2. /\ b \in 0..Full
      /\ b = IF Missing(e, at) THEN Full
                               ELSE Least(e.tokens + Rate * (at - e.lastUpd), Full)
  BY <1>1, BucketEntry
<1>3. c = IF Missing(e, at + 1) THEN Full
                 ELSE Least(e.tokens + Rate * ((at + 1) - e.lastUpd), Full)
  BY <1>1, BucketEntry
<1> HIDE DEF b, c
<1>4. CASE Missing(e, at)
  <2>1. Missing(e, at + 1)
    <3>1. CASE e = NoEntry
      BY <3>1 DEF Missing
    <3>2. CASE e # NoEntry
      <4>1. e.expiresAt \in Nat /\ at > e.expiresAt
        BY <1>1, <1>4, <3>2, Constants DEF Missing, BucketClockOK
      <4>2. QED
        BY <4>1 DEF Missing
    <3>3. QED
      BY <3>1, <3>2
  <2>2. QED
    BY <1>2, <1>3, <1>4, <2>1, Constants DEF Least, b, c
<1>5. CASE ~ Missing(e, at)
  <2> DEFINE x == at - e.lastUpd
             y == e.tokens
  <2>1. /\ x \in Nat /\ y \in Nat /\ y <= Full /\ e.lastUpd \in Nat
        /\ Missing(e, at + 1) => x = TTL
    <3>1. e \in Entry /\ e.lastUpd \in 0..at /\ e.tokens \in Nat
          /\ e.expiresAt = e.lastUpd + TTL /\ ~ (at > e.expiresAt)
      BY <1>1, <1>5 DEF Missing, BucketClockOK, Entry
    <3>2. e # NoEntry
      BY <3>1, Constants
    <3>3. Missing(e, at + 1) => at + 1 > e.expiresAt
      BY <3>2 DEF Missing
    <3>4. QED
      BY <1>1, <3>1, <3>2, <3>3, Constants
  <2>2. (at + 1) - e.lastUpd = x + 1
    BY <2>1
  <2> HIDE DEF x, y
  <2>3. b = Least(y + Rate * x, Full)
    BY <1>2, <1>5 DEF x, y
  <2>4. c = IF Missing(e, at + 1) THEN Full ELSE Least(y + Rate * (x + 1), Full)
    BY <1>3, <2>2 DEF y
  <2>5. Rate * x \in Nat /\ Rate * (x + 1) = Rate * x + Rate
    BY <2>1, Constants
  <2>6. CASE Missing(e, at + 1)
    <3>1. Full <= Rate * x + Rate
      BY <2>1, <2>5, <2>6, Constants DEF LongTTL
    <3>2. QED
      BY <2>1, <2>3, <2>4, <2>5, <2>6, <3>1, Constants DEF Least, b, c
  <2>7. CASE ~ Missing(e, at + 1)
    BY <2>1, <2>3, <2>4, <2>5, <2>7, Constants DEF Least, b, c
  <2>8. QED
    BY <1>2, <2>6, <2>7 DEF b, c
<1>6. QED
  BY <1>4, <1>5

\* What is known of a bucket key in a state of the invariant.
LEMMA BucketFacts ==
  ASSUME TInv, NEW k \in BucketKeys
  PROVE  /\ k \in Keys
         /\ now \in Nat /\ now \in Times /\ Times \subseteq Nat
         /\ \A s \in 0..now : s \in Times
         /\ admitted \in [Keys -> Nat] /\ before \in [Keys -> [Times -> Nat]]
         /\ data \in [Keys -> Entry \cup {NoEntry}]
         /\ data[k] # NoEntry => BucketClockOK(data[k], now) /\ data[k].tokens <= Full
         /\ data[k] # NoEntry => data[k].lastUpd \in 0..now /\ data[k].tokens <= Full
         /\ Level(k) \in 0..Full
<1>1. /\ k \in Keys
      /\ now \in Nat /\ now \in Times /\ Times \subseteq Nat
      /\ \A s \in 0..now : s \in Times
      /\ admitted \in [Keys -> Nat] /\ before \in [Keys -> [Times -> Nat]]
      /\ data \in [Keys -> Entry \cup {NoEntry}]
  BY Constants, LedgerAssumption DEF TInv, StoreTypeOK, LedgerTypeOK, Times
<1>2. data[k] # NoEntry => BucketClockOK(data[k], now) /\ data[k].tokens <= Full
  BY <1>1 DEF TInv, BucketClocks, KindsOK, KindOK
<1>3. data[k] # NoEntry => data[k].lastUpd \in 0..now /\ data[k].tokens <= Full
  BY <1>2 DEF BucketClockOK
<1>4. data[k] \in Entry \cup {NoEntry}
  BY <1>1
<1>5. Level(k) \in 0..Full
  BY <1>1, <1>3, <1>4, BucketEntry DEF Level
<1>6. QED
  BY <1>1, <1>2, <1>3, <1>5

\* A step after which a key has the same ledger and as much in its bucket.
LEMMA SameBalance ==
  ASSUME NEW k, Balanced(k), UNCHANGED now,
         admitted'[k] = admitted[k], before'[k] = before[k], Level(k)' = Level(k)
  PROVE  Balanced(k)'
BY DEF Balanced, Within, Exact, Since

LEMMA TickBalance ==
  ASSUME LongTTL, TInv, NEW k \in BucketKeys, Balanced(k), Tick
  PROVE  Balanced(k)'
<1>1. /\ now' = now + 1 /\ admitted' = admitted /\ data' = data
      /\ now + 1 \in Times
      /\ before' = [j \in Keys |-> [before[j] EXCEPT ![now + 1] = admitted[j]]]
  BY BucketFacts, LedgerAssumption DEF Tick, AdvanceClock, store, Times
<1>2. /\ Level(k) \in 0..Full /\ Level(k)' \in 0..Full
      /\ Level(k)' = Least(Level(k) + Rate, Full)
  <2>1. /\ data[k] \in Entry \cup {NoEntry} /\ now \in Nat
        /\ data[k] # NoEntry => BucketClockOK(data[k], now) /\ data[k].tokens <= Full
    BY BucketFacts
  <2>2. /\ Bucket(data[k], now).tokens \in 0..Full
        /\ Bucket(data[k], now + 1).tokens = Least(Bucket(data[k], now).tokens + Rate, Full)
    BY <2>1, Flow
  <2>3. Level(k)' = Bucket(data[k], now + 1).tokens
    BY <1>1 DEF Level
  <2> HIDE DEF Level
  <2>4. Level(k) = Bucket(data[k], now).tokens
    BY DEF Level
  <2>5. QED
    BY <2>2, <2>3, <2>4, Constants DEF Least
<1> DEFINE l == Level(k)
           m == Level(k)'
           u(s) == admitted[k] - before[k][s]
           v(s) == admitted'[k] - before'[k][s]
<1>3. /\ \A s \in 0..now : u(s) \in Int /\ v(s) = u(s)
      /\ v(now + 1) = 0
  <2>1. /\ k \in Keys /\ now \in Nat /\ \A s \in 0..now : s \in Times /\ s # now + 1
        /\ admitted[k] \in Nat /\ before[k] \in [Times -> Nat]
    BY BucketFacts
  <2>2. before'[k] = [before[k] EXCEPT ![now + 1] = admitted[k]]
    BY <1>1, <2>1
  <2>3. /\ \A s \in 0..now : before'[k][s] = before[k][s] /\ before[k][s] \in Nat
        /\ before'[k][now + 1] = admitted[k]
    BY <1>1, <2>1, <2>2
  <2>4. QED
    BY <1>1, <2>1, <2>3
<1>4. \A s \in 0..now : /\ Rate * (now - s) \in Nat
                        /\ Rate * ((now + 1) - s) = Rate * (now - s) + Rate
                        /\ u(s) * Scale \in Int
  <2> SUFFICES ASSUME NEW s \in 0..now
               PROVE  /\ Rate * (now - s) \in Nat
                      /\ Rate * ((now + 1) - s) = Rate * (now - s) + Rate
                      /\ u(s) * Scale \in Int
    OBVIOUS
  <2>1. now - s \in Nat /\ (now + 1) - s = (now - s) + 1
    BY BucketFacts
  <2>2. u(s) \in Int
    BY <1>3
  <2>3. \A x \in Nat : Rate * x \in Nat /\ Rate * (x + 1) = Rate * x + Rate
    BY Constants
  <2>4. \A x \in Int : x * Scale \in Int
    BY Constants
  <2> HIDE DEF u
  <2>5. QED
    BY <2>1, <2>2, <2>3, <2>4
<1>5. /\ \A s \in 0..now : u(s) * Scale + l <= Full + Rate * (now - s)
      /\ \E s \in 0..now : u(s) * Scale + l = Full + Rate * (now - s)
  BY DEF Balanced, Within, Exact, Since
<1>6. /\ v(now + 1) * Scale = 0
      /\ Rate * ((now + 1) - (now + 1)) = 0
  BY <1>3, BucketFacts, Constants
<1>7. now \in Nat /\ now' = now + 1
  BY <1>1, BucketFacts
<1>8. ASSUME NEW s \in 0..(now + 1)
      PROVE  v(s) * Scale + m <= Full + Rate * ((now + 1) - s)
  <2>1. CASE s = now + 1
    BY <1>2, <1>6, <2>1, Constants
  <2>2. CASE s \in 0..now
    <3>1. v(s) = u(s)
      BY <1>3, <2>2
    <3> HIDE DEF u, v, l, m
    <3>2. m <= l + Rate
      BY <1>2, Constants DEF Least, l, m
    <3>3. l \in Int /\ m \in Int
      BY <1>2, Constants DEF l, m
    <3>4. QED
      BY <1>4, <1>5, <2>2, <3>1, <3>2, <3>3, Constants
  <2>3. QED
    BY <1>7, <2>1, <2>2
<1>9. \E s \in 0..(now + 1) : v(s) * Scale + m = Full + Rate * ((now + 1) - s)
  <2>1. CASE m = Full
    <3>1. now + 1 \in 0..(now + 1)
      BY <1>7
    <3>2. v(now + 1) * Scale + m = Full + Rate * ((now + 1) - (now + 1))
      BY <1>6, <2>1, Constants
    <3>3. QED
      BY <3>1, <3>2
  <2>2. CASE m = l + Rate
    <3>1. PICK s \in 0..now : u(s) * Scale + l = Full + Rate * (now - s)
      BY <1>5
    <3>2. v(s) = u(s) /\ s \in 0..(now + 1)
      BY <1>3, <1>7
    <3> HIDE DEF u, v, l, m
    <3>3. l \in Int
      BY <1>2, Constants DEF l
    <3>4. v(s) * Scale + m = Full + Rate * ((now + 1) - s)
      BY <1>4, <2>2, <3>1, <3>2, <3>3, Constants
    <3>5. QED
      BY <3>2, <3>4
  <2>3. QED
    BY <1>2, <2>1, <2>2 DEF Least
<1>10. QED
  BY <1>1, <1>8, <1>9 DEF Balanced, Within, Exact, Since

LEMMA ResetBalance ==
  ASSUME TInv, NEW k \in BucketKeys, Reset(k)
  PROVE  Balanced(k)'
<1>1. /\ k \in Keys /\ now \in Nat /\ \A s \in 0..now : s \in Times
      /\ admitted \in [Keys -> Nat] /\ before \in [Keys -> [Times -> Nat]]
      /\ data \in [Keys -> Entry \cup {NoEntry}]
  BY BucketFacts
<1>2. /\ now' = now
      /\ data'[k] = NoEntry
      /\ admitted'[k] = 0
      /\ \A s \in 0..now : before'[k][s] = 0
  BY <1>1 DEF Reset, Forget
<1>3. Level(k)' = Full
  <2>1. Missing(NoEntry, now)
    BY DEF Missing
  <2>2. Bucket(NoEntry, now).tokens = Full
    BY <1>1, <2>1, Constants, BucketEntry
  <2>3. QED
    BY <1>2, <2>2 DEF Level
<1>4. \A s \in 0..now : Since(k, s)' = 0 /\ 0 * Scale = 0
  BY <1>2, Constants DEF Since
<1>5. \A s \in 0..now : Rate * (now - s) \in Nat
  <2>1. \A x \in Nat : Rate * x \in Nat
    BY Constants
  <2>2. QED
    BY <1>1, <2>1
<1>6. now \in 0..now /\ Rate * (now - now) = 0
  BY <1>1, Constants
<1> HIDE DEF Level, Since
<1>7. \A s \in 0..now' : Within(k, s)'
  BY <1>2, <1>3, <1>4, <1>5, Constants DEF Within
<1>8. PICK z \in 0..now : z = now
  BY <1>6
<1>9. Exact(k, z)'
  BY <1>2, <1>3, <1>4, <1>6, <1>8, Constants DEF Exact
<1>10. QED
  BY <1>2, <1>7, <1>8, <1>9 DEF Balanced

LEMMA SweepBalance ==
  ASSUME TInv, NEW k \in BucketKeys, Balanced(k), SweepShard
  PROVE  Balanced(k)'
<1>1. /\ k \in Keys /\ now \in Nat
      /\ data \in [Keys -> Entry \cup {NoEntry}]
      /\ data[k] # NoEntry => BucketClockOK(data[k], now)
      /\ data[k] # NoEntry => data[k].lastUpd \in 0..now /\ data[k].tokens <= Full
  BY BucketFacts
<1>2. UNCHANGED <<now, admitted, before>>
  BY DEF SweepShard, ledger
<1>3. CASE data'[k] = data[k]
  <2>1. Level(k)' = Level(k)
    BY <1>2, <1>3 DEF Level
  <2>2. QED
    BY <1>2, <2>1, SameBalance
<1>4. CASE data'[k] # data[k]
  <2>1. data'[k] = NoEntry /\ data[k] # NoEntry /\ sweepAt > data[k].expiresAt
    BY <1>1, <1>4 DEF SweepShard
  <2>2. now > data[k].expiresAt
    <3>1. sweepAt <= now /\ sweepAt \in Nat
      BY LedgerAssumption DEF TInv, StoreTypeOK, Times
    <3>2. data[k].expiresAt \in Nat
      BY <1>1, <2>1, Constants DEF BucketClockOK
    <3>3. QED
      BY <1>1, <2>1, <3>1, <3>2
  <2>3. Missing(data[k], now) /\ Missing(NoEntry, now)
    BY <2>2 DEF Missing
  <2>4. Bucket(data[k], now).tokens = Full
    <3>1. data[k] \in Entry \cup {NoEntry}
      BY <1>1
    <3>2. QED
      BY <1>1, <2>3, <3>1, BucketEntry
  <2>5. Bucket(NoEntry, now).tokens = Full
    BY <1>1, <2>3, BucketEntry
  <2>6. Level(k)' = Level(k)
    BY <1>2, <2>1, <2>4, <2>5 DEF Level
  <2>7. QED
    BY <1>2, <2>6, SameBalance
<1>5. QED
  BY <1>3, <1>4

\* A call takes from the bucket what it adds to the ledger.
LEMMA AllowBalance ==
  ASSUME TInv, NEW k \in BucketKeys, Balanced(k), NEW n \in Costs, NEW d, Decided(k, n, d)
  PROVE  /\ Balanced(k)'
         /\ reply' = [key |-> k, n |-> n, allowed |-> d.allowed]
         /\ d.allowed = (Level(k) >= n * Scale)
<1>1. /\ k \in Keys /\ now \in Nat /\ n \in Nat /\ \A s \in 0..now : s \in Times
      /\ admitted \in [Keys -> Nat] /\ before \in [Keys -> [Times -> Nat]]
      /\ data \in [Keys -> Entry \cup {NoEntry}]
      /\ data[k] # NoEntry => data[k].lastUpd \in 0..now /\ data[k].tokens <= Full
      /\ Level(k) \in 0..Full
  BY BucketFacts, LedgerAssumption
<1>2. n * Scale \in Nat
  BY <1>1, Constants
<1>3. /\ d = DecideTokenBucket(data[k], now, n)
      /\ d.entry \in Entry /\ d.allowed \in BOOLEAN
      /\ d.entry.lastUpd \in 0..now /\ d.entry.expiresAt = d.entry.lastUpd + TTL
      /\ data' = [data EXCEPT ![k] = d.entry]
      /\ IF d.allowed THEN Admit(k, n) ELSE Refuse(k, n)
  BY DEF Decided, Answer, BucketClockOK
<1>4. /\ d.entry.lastUpd = now
      /\ d.allowed = (Level(k) >= n * Scale)
      /\ d.entry.tokens = IF Level(k) >= n * Scale THEN Level(k) - n * Scale ELSE Level(k)
  <2>1. /\ data[k] \in Entry \cup {NoEntry} /\ now \in Nat /\ n \in Nat
        /\ data[k] # NoEntry => data[k].lastUpd \in 0..now /\ data[k].tokens <= Full
    BY <1>1
  <2> DEFINE f == DecideTokenBucket(data[k], now, n)
  <2>2. /\ f.entry.lastUpd = now
        /\ f.allowed = (Bucket(data[k], now).tokens >= n * Scale)
        /\ f.entry.tokens = IF Bucket(data[k], now).tokens >= n * Scale
                              THEN Bucket(data[k], now).tokens - n * Scale
                              ELSE Bucket(data[k], now).tokens
    BY <2>1, BucketDecision
  <2> HIDE DEF f
  <2>3. d = f
    BY <1>3 DEF f
  <2>4. QED
    BY <2>2, <2>3, Zenon DEF Level
<1> DEFINE e == d.entry
           l == Level(k)
           m == Level(k)'
           t == n * Scale
<1>5. e \in Entry /\ data'[k] = e /\ e.lastUpd = now /\ e.expiresAt = now + TTL
  BY <1>1, <1>3, <1>4
<1>6. e.tokens = IF l >= t THEN l - t ELSE l
  BY <1>4
<1>7. now' = now /\ before' = before /\ reply' = [key |-> k, n |-> n, allowed |-> d.allowed]
      /\ admitted'[k] = IF l >= t THEN admitted[k] + n ELSE admitted[k]
  <2>1. CASE d.allowed
    BY <1>1, <1>3, <1>4, <2>1 DEF Admit
  <2>2. CASE ~ d.allowed
    BY <1>1, <1>3, <1>4, <2>2 DEF Refuse
  <2>3. QED
    BY <2>1, <2>2
<1> HIDE DEF e
<1>8. m = e.tokens
  <2>1. ~ Missing(e, now)
    BY <1>1, <1>5, Constants DEF Missing
  <2>2. Bucket(e, now) = e
    BY <1>1, <1>5, <2>1 DEF Bucket, Never
  <2>3. QED
    BY <1>5, <1>7, <2>2 DEF Level
<1>9. m = IF l >= t THEN l - t ELSE l
  BY <1>6, <1>8
<1>10. \A s \in 0..now : Since(k, s)' * Scale + m = Since(k, s) * Scale + l
  <2> SUFFICES ASSUME NEW s \in 0..now
               PROVE  Since(k, s)' * Scale + m = Since(k, s) * Scale + l
    OBVIOUS
  <2>1. before[k][s] \in Nat /\ admitted[k] \in Nat
    BY <1>1
  <2> DEFINE u == admitted[k] - before[k][s]
  <2>2. /\ Since(k, s) = u /\ u \in Int
        /\ Since(k, s)' = IF l >= t THEN u + n ELSE u
    BY <1>1, <1>7, <2>1 DEF Since
  <2> HIDE DEF u, l, m
  <2>3. (u + n) * Scale = u * Scale + t /\ u * Scale \in Int /\ t \in Nat
    BY <1>1, <1>2, <2>2, Constants
  <2>4. l \in Int
    BY <1>1, Constants DEF l
  <2> HIDE DEF t
  <2>5. QED
    BY <1>9, <2>2, <2>3, <2>4
<1> HIDE DEF l, m
<1>11. Balanced(k)'
  <2>1. /\ \A s \in 0..now : Since(k, s) * Scale + l <= Full + Rate * (now - s)
        /\ \E s \in 0..now : Since(k, s) * Scale + l = Full + Rate * (now - s)
    BY DEF Balanced, Within, Exact, l
  <2>2. /\ \A s \in 0..now : Since(k, s)' * Scale + m <= Full + Rate * (now - s)
        /\ \E s \in 0..now : Since(k, s)' * Scale + m = Full + Rate * (now - s)
    BY <1>10, <2>1
  <2>3. QED
    BY <1>7, <2>2 DEF Balanced, Within, Exact, m
<1>12. QED
  BY <1>4, <1>7, <1>11

\* The balance of a full bucket that was never used.
LEMMA BInvInit ==
  ASSUME StoreInit
  PROVE  BInv
<1>1. TInv
  BY TInvInit
<1>2. ASSUME NEW k \in BucketKeys
      PROVE  Balanced(k)
  <2>1. /\ now = 0 /\ data[k] = NoEntry
        /\ \A s \in 0..now : Since(k, s) = 0 /\ s = 0
    BY LedgerAssumption, Constants DEF StoreInit, LedgerInit, Since, Times
  <2>2. Level(k) = Full
    <3>1. Missing(NoEntry, 0)
      BY DEF Missing
    <3>2. Bucket(NoEntry, 0).tokens = Full
      BY <3>1, Constants, BucketEntry
    <3>3. QED
      BY <2>1, <3>2 DEF Level
  <2>3. Full \in Nat /\ 0 * Scale = 0 /\ Rate * (0 - 0) = 0 /\ 0 \in 0..0
    BY Constants
  <2>4. QED
    BY <2>1, <2>2, <2>3 DEF Balanced, Within, Exact
<1>3. QED
  BY <1>1, <1>2 DEF BInv

LEMMA BInvStep ==
  ASSUME SmallCounts, LongTTL, BInv, [Next]_vars
  PROVE  BInv'
<1>1. TInv /\ TInv'
  BY TInvStep DEF BInv
<1>2. ASSUME NEW k \in BucketKeys
      PROVE  Balanced(k)'
  <2>1. k \in Keys /\ Balanced(k)
    BY <1>1, BucketFacts DEF BInv
  <2>2. CASE UNCHANGED vars
    <3>1. UNCHANGED <<now, admitted, before, data>>
      BY <2>2 DEF vars, ledger, store
    <3>2. Level(k)' = Level(k)
      BY <3>1 DEF Level
    <3>3. QED
      BY <2>1, <3>1, <3>2, SameBalance
  <2>3. CASE Tick
    BY <1>1, <2>1, <2>3, TickBalance
  <2>4. CASE BeginSweep
    <3>1. UNCHANGED <<now, admitted, before, data>>
      BY <2>4 DEF BeginSweep, ledger
    <3>2. Level(k)' = Level(k)
      BY <3>1 DEF Level
    <3>3. QED
      BY <2>1, <3>1, <3>2, SameBalance
  <2>5. CASE SweepShard
    BY <1>1, <2>1, <2>5, SweepBalance
  <2>6. ASSUME NEW j \in Keys, Allow(j)
        PROVE  Balanced(k)'
    <3>1. PICK n \in Costs : \E d : Decided(j, n, d)
      BY <1>1, <2>6, AllowDecides
    <3>2. PICK d : Decided(j, n, d)
      BY <3>1
    <3>3. CASE j = k
      <4>1. Decided(k, n, d)
        BY <3>2, <3>3
      <4>2. QED
        BY <1>1, <2>1, <4>1, AllowBalance
    <3>4. CASE j # k
      <4>1. /\ admitted \in [Keys -> Nat] /\ data \in [Keys -> Entry \cup {NoEntry}]
            /\ before \in [Keys -> [Times -> Nat]]
        BY <1>1, BucketFacts
      <4>2. /\ data' = [data EXCEPT ![j] = d.entry]
            /\ Admit(j, n) \/ Refuse(j, n)
        BY <3>2 DEF Decided, Answer
      <4>3. UNCHANGED now /\ admitted'[k] = admitted[k] /\ before'[k] = before[k]
        BY <2>1, <3>4, <4>1, <4>2 DEF Admit, Refuse
      <4>4. data'[k] = data[k]
        BY <2>1, <3>4, <4>1, <4>2
      <4>5. Level(k)' = Level(k)
        BY <4>3, <4>4 DEF Level
      <4>6. QED
        BY <2>1, <4>3, <4>5, SameBalance
    <3>5. QED
      BY <3>3, <3>4
  <2>7. ASSUME NEW j \in Keys, Reset(j)
        PROVE  Balanced(k)'
    <3>1. CASE j = k
      <4>1. Reset(k)
        BY <2>7, <3>1
      <4>2. QED
        BY <1>1, <4>1, ResetBalance
    <3>2. CASE j # k
      <4>1. /\ admitted \in [Keys -> Nat] /\ data \in [Keys -> Entry \cup {NoEntry}]
            /\ before \in [Keys -> [Times -> Nat]]
        BY <1>1, BucketFacts
      <4>2. /\ UNCHANGED now /\ admitted'[k] = admitted[k] /\ before'[k] = before[k]
            /\ data'[k] = data[k]
        BY <2>1, <2>7, <3>2, <4>1 DEF Reset, Forget
      <4>3. Level(k)' = Level(k)
        BY <4>2 DEF Level
      <4>4. QED
        BY <2>1, <4>2, <4>3, SameBalance
    <3>3. QED
      BY <3>1, <3>2
  <2>8. QED
    BY <2>2, <2>3, <2>4, <2>5, <2>6, <2>7 DEF Next, Background
<1>3. QED
  BY <1>1, <1>2 DEF BInv

LEMMA BInvRateBound ==
  ASSUME BInv
  PROVE  RateBound
<1> SUFFICES ASSUME NEW k \in BucketKeys, NEW s \in 0..now
             PROVE  Since(k, s) * Scale <= Full + Rate * (now - s)
  BY DEF RateBound
<1>1. Level(k) \in 0..Full /\ now \in Nat /\ s \in Times /\ k \in Keys
      /\ admitted \in [Keys -> Nat] /\ before \in [Keys -> [Times -> Nat]]
  BY BucketFacts DEF BInv
<1>2. Since(k, s) * Scale + Level(k) <= Full + Rate * (now - s)
  BY DEF BInv, Balanced, Within
<1>3. Since(k, s) * Scale \in Int /\ Rate * (now - s) \in Int
  <2>1. Since(k, s) \in Int
    BY <1>1 DEF Since
  <2>2. \A x, y \in Int : x * y \in Int
    OBVIOUS
  <2>3. QED
    BY <1>1, <2>1, <2>2, Constants
<1>4. QED
  BY <1>1, <1>2, <1>3, Constants

\* In no span of time is more admitted for a key than its capacity and the
\* tokens of the span (memory.go:168-186), for any interleaving of calls,
\* resets, expiry and cleanup, provided that an entry lives until its bucket
\* would be full.
THEOREM RateBounded ==
  ASSUME SmallCounts, LongTTL
  PROVE  Spec => []RateBound
<1>1. StoreInit => BInv
  BY BInvInit
<1>2. BInv /\ [Next]_vars => BInv'
  BY BInvStep
<1>3. BInv => RateBound
  BY BInvRateBound
<1>4. QED
  BY <1>1, <1>2, <1>3, PTL DEF Spec

\* A call of a token bucket key is answered as the policy says that knows
\* nothing but the key's own history: it is admitted exactly when that leaves
\* every span of time within its bound (memory.go:158-211).
AnswersFitPolicy ==
  [][\A k \in BucketKeys : Allow(k) =>
       \E n \in Costs :
         reply' = [key |-> k, n |-> n, allowed |-> FitsEnvelope(Usage(k), now, n)]]_vars

LEMMA EnvelopeIsLevel ==
  ASSUME BInv, NEW k \in BucketKeys, NEW n \in Costs
  PROVE  (Level(k) >= n * Scale) = FitsEnvelope(Usage(k), now, n)
<1>1. /\ Level(k) \in 0..Full /\ now \in Nat /\ k \in Keys /\ n \in Nat
      /\ \A s \in 0..now : s \in Times
      /\ admitted \in [Keys -> Nat] /\ before \in [Keys -> [Times -> Nat]]
  BY BucketFacts, LedgerAssumption DEF BInv
<1>2. \A s \in 0..now : /\ Since(k, s) * Scale \in Int
                        /\ (Since(k, s) + n) * Scale = Since(k, s) * Scale + n * Scale
                        /\ Rate * (now - s) \in Int
  <2> SUFFICES ASSUME NEW s \in 0..now
               PROVE  /\ Since(k, s) * Scale \in Int
                      /\ (Since(k, s) + n) * Scale = Since(k, s) * Scale + n * Scale
                      /\ Rate * (now - s) \in Int
    OBVIOUS
  <2>1. Since(k, s) \in Int
    BY <1>1 DEF Since
  <2>2. now - s \in Int
    BY <1>1
  <2> DEFINE u == Since(k, s)
             w == now - s
  <2> HIDE DEF u, w
  <2>3. u * Scale \in Int /\ (u + n) * Scale = u * Scale + n * Scale
    BY <1>1, <2>1, Constants DEF u
  <2>4. Rate * w \in Int
    BY <2>2, Constants DEF w
  <2>5. QED
    BY <2>3, <2>4 DEF u, w
<1>3. n * Scale \in Nat
  BY <1>1, Constants
<1>4. FitsEnvelope(Usage(k), now, n)
        <=> \A s \in 0..now : (Since(k, s) + n) * Scale <= Full + Rate * (now - s)
  BY DEF FitsEnvelope, Usage
<1>5. /\ \A s \in 0..now : Since(k, s) * Scale + Level(k) <= Full + Rate * (now - s)
      /\ \E s \in 0..now : Since(k, s) * Scale + Level(k) = Full + Rate * (now - s)
  BY DEF BInv, Balanced, Within, Exact
<1> DEFINE c == n * Scale
           l == Level(k)
<1> HIDE DEF c
<1>6. \A s \in 0..now : (Since(k, s) + n) * Scale = Since(k, s) * Scale + c
  BY <1>2 DEF c
<1>7. c \in Int /\ l \in Int
  BY <1>1, <1>3, Constants DEF c
<1> HIDE DEF l
<1>8. l >= c <=> \A s \in 0..now : (Since(k, s) + n) * Scale <= Full + Rate * (now - s)
  <2>1. ASSUME l >= c, NEW s \in 0..now
        PROVE  (Since(k, s) + n) * Scale <= Full + Rate * (now - s)
    <3>1. Since(k, s) * Scale + l <= Full + Rate * (now - s)
      BY <1>5 DEF l
    <3>2. QED
      BY <1>2, <1>6, <1>7, <2>1, <3>1, Constants
  <2>2. PICK z \in 0..now : Since(k, z) * Scale + l = Full + Rate * (now - z)
    BY <1>5 DEF l
  <2>3. (Since(k, z) + n) * Scale <= Full + Rate * (now - z) => l >= c
    BY <1>2, <1>6, <1>7, <2>2, Constants
  <2>4. QED
    BY <2>1, <2>3
<1>9. QED
  <2>1. FitsEnvelope(Usage(k), now, n) \in BOOLEAN /\ (l >= c) \in BOOLEAN
    BY <1>7 DEF FitsEnvelope
  <2>2. l >= c <=> FitsEnvelope(Usage(k), now, n)
    BY <1>4, <1>8, Zenon
  <2>3. (l >= c) = FitsEnvelope(Usage(k), now, n)
    BY <2>1, <2>2, Zenon
  <2>4. QED
    BY <2>3 DEF c, l

THEOREM BucketExact ==
  ASSUME SmallCounts, LongTTL
  PROVE  Spec => AnswersFitPolicy
<1>1. ASSUME BInv, NEW k \in BucketKeys, Allow(k)
      PROVE  \E n \in Costs :
               reply' = [key |-> k, n |-> n, allowed |-> FitsEnvelope(Usage(k), now, n)]
  <2>1. TInv /\ Balanced(k) /\ k \in Keys
    BY <1>1, BucketFacts DEF BInv
  <2>2. PICK n \in Costs : \E d : Decided(k, n, d)
    BY <1>1, <2>1, AllowDecides
  <2>3. PICK d : Decided(k, n, d)
    BY <2>2
  <2>4. /\ reply' = [key |-> k, n |-> n, allowed |-> d.allowed]
        /\ d.allowed = (Level(k) >= n * Scale)
    BY <2>1, <2>3, AllowBalance
  <2>5. (Level(k) >= n * Scale) = FitsEnvelope(Usage(k), now, n)
    BY <1>1, EnvelopeIsLevel
  <2>6. d.allowed = FitsEnvelope(Usage(k), now, n)
    BY <2>4, <2>5, Zenon
  <2>7. QED
    BY <2>4, <2>6, Zenon
<1>2. BInv => [\A k \in BucketKeys : Allow(k) =>
                 \E n \in Costs :
                   reply' = [key |-> k, n |-> n,
                             allowed |-> FitsEnvelope(Usage(k), now, n)]]_vars
  BY <1>1
<1>3. StoreInit => BInv
  BY BInvInit
<1>4. BInv /\ [Next]_vars => BInv'
  BY BInvStep
<1>5. QED
  BY <1>2, <1>3, <1>4, PTL DEF Spec, AnswersFitPolicy

\* A refused call leaves the bucket as refilled, which refuses until enough has
\* flowed in; the entry does not expire before.
LEMMA RefusedUntilRefilled ==
  ASSUME LongTTL, NEW e \in Entry \cup {NoEntry}, NEW at \in Nat, NEW n \in Nat,
         e # NoEntry => e.lastUpd \in 0..at /\ e.tokens <= Full, n <= Capacity,
         ~ DecideTokenBucket(e, at, n).allowed
  PROVE  LET d == DecideTokenBucket(e, at, n)
         IN  /\ DecideTokenBucket(d.entry, at + (d.retryAfter + 1), n).allowed
             /\ \A w \in 0..(d.retryAfter - 1) :
                  ~ DecideTokenBucket(d.entry, at + w, n).allowed
<1> DEFINE x == Bucket(e, at).tokens
           c == n * Scale
           d == DecideTokenBucket(e, at, n)
           f == d.entry
           wait == d.retryAfter
<1>1. x \in 0..Full /\ c \in Nat /\ c <= Full /\ Full \in Nat /\ Rate \in Nat \ {0}
      /\ TTL \in Nat
  <2>1. \A s, a, b \in Nat : a <= b => a * s \in Nat /\ b * s \in Nat /\ a * s <= b * s
    OBVIOUS
  <2>2. c \in Nat /\ c <= Full
    BY <2>1, BucketAssumption DEF Full
  <2>3. QED
    BY <2>2, BucketEntry, BucketAssumption, Constants
<1>2. ~ (x >= c)
  <2>1. d.allowed = (x >= c)
    BY BucketDecision
  <2>2. ~ d.allowed
    OBVIOUS
  <2> HIDE DEF d, x, c
  <2>3. QED
    BY <2>1, <2>2, Zenon
<1>3. f \in Entry /\ f.lastUpd = at /\ f.expiresAt = at + TTL /\ f.tokens = x
  <2>1. /\ f \in Entry /\ f.lastUpd = at /\ f.expiresAt = at + TTL
        /\ f.tokens = IF x >= c THEN x - c ELSE x
    BY BucketDecision
  <2> HIDE DEF f, x, c
  <2>2. QED
    BY <1>2, <2>1
<1>4. wait = (c - x) \div Rate
  <2> DEFINE b == Bucket(e, at)
             left == IF b.tokens >= c THEN b.tokens - c ELSE b.tokens
  <2>1. wait = IF b.tokens >= c THEN 0 ELSE (c - left) \div Rate
    BY DEF DecideTokenBucket
  <2>2. left = IF x >= c THEN x - c ELSE x
    OBVIOUS
  <2>3. b.tokens = x
    OBVIOUS
  <2> HIDE DEF wait, left, b, x, c
  <2>4. left = x
    BY <1>2, <2>2
  <2>5. QED
    BY <1>2, <2>1, <2>3, <2>4, Zenon
<1>5. NoEntry \notin Entry
  BY Constants
<1> HIDE DEF x, c, d, f, wait
<1>6. wait \in Nat /\ Rate * wait <= c - x /\ c - x < Rate * wait + Rate
  <2>1. c - x \in Nat
    BY <1>1, <1>2
  <2> DEFINE y == c - x
  <2> HIDE DEF y
  <2>2. y \div Rate \in Nat /\ Rate * (y \div Rate) <= y /\ y < Rate * (y \div Rate) + Rate
    BY <1>1, <2>1, Division DEF y
  <2>3. QED
    BY <1>4, <2>2 DEF y
\* What the bucket holds w ticks later, and what is decided then.
<1>7. ASSUME NEW w \in Nat
      PROVE  DecideTokenBucket(f, at + w, n).allowed
               <=> (w > TTL \/ x + Rate * w >= c)
  <2> DEFINE y == Bucket(f, at + w).tokens
             in == Rate * w
  <2>1. at + w \in Nat /\ f # NoEntry /\ f.lastUpd \in 0..(at + w) /\ f.tokens <= Full
        /\ (at + w) - f.lastUpd = w /\ f \in Entry \cup {NoEntry}
    BY <1>1, <1>3, <1>5
  <2>2. y = IF Missing(f, at + w) THEN Full
                                  ELSE Least(f.tokens + Rate * ((at + w) - f.lastUpd), Full)
    BY <2>1, BucketEntry
  <2>3. Missing(f, at + w) <=> w > TTL
    BY <1>1, <1>3, <2>1 DEF Missing
  <2>4. in \in Nat
    BY <1>1
  <2>5. DecideTokenBucket(f, at + w, n).allowed = (y >= c)
    BY <2>1, BucketDecision DEF c
  <2> HIDE DEF y, in
  <2>6. y = IF w > TTL THEN Full ELSE Least(x + in, Full)
    BY <1>3, <2>1, <2>2, <2>3 DEF in
  <2>7. y >= c <=> (w > TTL \/ x + in >= c)
    BY <1>1, <2>4, <2>6 DEF Least
  <2>8. QED
    BY <2>5, <2>7, Zenon DEF in
<1>8. DecideTokenBucket(f, at + (wait + 1), n).allowed
  <2>1. Rate * (wait + 1) = Rate * wait + Rate /\ Rate * wait \in Nat
    BY <1>1, <1>6
  <2>2. x + Rate * (wait + 1) >= c
    BY <1>1, <1>6, <2>1
  <2>3. QED
    BY <1>6, <1>7, <2>2
<1>9. ASSUME NEW w \in 0..(wait - 1)
      PROVE  ~ DecideTokenBucket(f, at + w, n).allowed
  <2>1. \A a, b \in Nat : a + 1 <= b =>
           Rate * a \in Nat /\ Rate * b \in Nat /\ Rate * a + Rate <= Rate * b
    <3> SUFFICES ASSUME NEW a \in Nat, NEW b \in Nat, a + 1 <= b
                 PROVE  Rate * a \in Nat /\ Rate * b \in Nat /\ Rate * a + Rate <= Rate * b
      OBVIOUS
    <3>1. \A r, p, q \in Nat : p <= q => r * p <= r * q
      OBVIOUS
    <3>2. Rate * (a + 1) = Rate * a + Rate
      BY <1>1
    <3>3. QED
      BY <1>1, <3>1, <3>2
  <2>2. w \in Nat /\ w + 1 <= wait
    BY <1>6
  <2>3. x + Rate * w < c
    BY <1>1, <1>6, <2>1, <2>2
  <2>4. w <= TTL
    <3>1. SUFFICES ASSUME TTL + 1 <= w PROVE FALSE
      BY <1>1, <2>2
    <3> DEFINE m == TTL + 1
    <3>2. m \in Nat /\ m + 1 <= wait
      BY <1>1, <1>6, <2>2, <3>1
    <3>3. Full <= Rate * m
      BY DEF LongTTL
    <3> HIDE DEF m
    <3>4. Rate * m \in Nat /\ Rate * m + Rate <= Rate * wait
      BY <1>6, <2>1, <3>2
    <3>5. QED
      BY <1>1, <1>6, <3>3, <3>4
  <2>5. QED
    BY <1>1, <1>7, <2>2, <2>3, <2>4
<1>10. QED
  BY <1>8, <1>9 DEF d, f, wait

\* RetryAfter of a refused token bucket call is right up to the cut to whole
\* ticks (memory.go:201-211): a caller that retries alone is refused at any
\* earlier time and admitted one tick later at most.
THEOREM BucketRetryIsTight ==
  ASSUME SmallCounts, LongTTL
  PROVE  Spec => []BucketRetryTight
<1>1. ASSUME TInv
      PROVE  BucketRetryTight
  <2> SUFFICES ASSUME NEW k \in BucketKeys, NEW n \in {m \in Costs : m <= Capacity},
                      ~ DecideTokenBucket(data[k], now, n).allowed
               PROVE  LET d == DecideTokenBucket(data[k], now, n)
                      IN  /\ DecideTokenBucket(d.entry, now + (d.retryAfter + 1), n).allowed
                          /\ \A w \in 0..(d.retryAfter - 1) :
                               ~ DecideTokenBucket(d.entry, now + w, n).allowed
    BY DEF BucketRetryTight
  <2>1. /\ now \in Nat /\ data[k] \in Entry \cup {NoEntry}
        /\ data[k] # NoEntry => data[k].lastUpd \in 0..now /\ data[k].tokens <= Full
    BY <1>1, BucketFacts DEF BucketClockOK
  <2>2. n \in Nat /\ n <= Capacity
    BY LedgerAssumption
  <2>3. QED
    BY <2>1, <2>2, RefusedUntilRefilled
<1>2. QED
  BY <1>1, TInvInit, TInvStep, PTL DEF Spec

-----------------------------------------------------------------------------
(* The fixed window *)

\* What the entry of key k counts in the current window.
Tally(k) == CountIn(data[k], now, WindowNum(now))

\* The tally is what the ledger has of the current window.
Tallied(k) == Since(k, WindowStart(now)) = Tally(k)

\* An entry outlives the window that it counts, which has begun.
Outlives(e, at) == e.windowNum <= WindowNum(at) /\ e.expiresAt >= (e.windowNum + 1) * Span

OutlivesWindow(k) == data[k] # NoEntry => Outlives(data[k], now)

\* The ledger grows with time.
Ordered(k) ==
  \A s \in 0..now : /\ before[k][s] <= admitted[k]
                    /\ \A r \in 0..s : before[k][r] <= before[k][s]

\* The previous window had no more than Limit.
PreviousWithin(k) ==
  WindowStart(now) >= Span =>
    before[k][WindowStart(now)] - before[k][WindowStart(now) - Span] <= Limit

WindowInv(k) == Tallied(k) /\ OutlivesWindow(k) /\ Ordered(k) /\ PreviousWithin(k)

WInv == TInv /\ \A k \in WindowKeys : WindowInv(k)

-----------------------------------------------------------------------------
(* Its invariant *)

\* What is known of a window key in a state of the invariant.
LEMMA WindowFacts ==
  ASSUME TInv, NEW k \in WindowKeys
  PROVE  /\ k \in Keys
         /\ now \in Nat /\ \A s \in 0..now : s \in Times
         /\ admitted \in [Keys -> Nat] /\ before \in [Keys -> [Times -> Nat]]
         /\ data \in [Keys -> Entry \cup {NoEntry}]
         /\ data[k] # NoEntry =>
              /\ data[k] \in Entry
              /\ data[k].count \in 0..Limit /\ data[k].windowNum \in Nat
         /\ Tally(k) \in 0..Limit
         /\ Limit \in Nat /\ Span \in Nat \ {0}
         /\ WindowStart(now) \in 0..now
<1>1. /\ k \in Keys
      /\ now \in Nat /\ \A s \in 0..now : s \in Times
      /\ admitted \in [Keys -> Nat] /\ before \in [Keys -> [Times -> Nat]]
      /\ data \in [Keys -> Entry \cup {NoEntry}]
  BY KindsApart, LedgerAssumption DEF TInv, StoreTypeOK, LedgerTypeOK, Times
<1>2. Limit \in Nat /\ Span \in Nat \ {0}
  BY WindowAssumption, SpanPositive
<1>3. data[k] # NoEntry =>
        /\ data[k] \in Entry
        /\ data[k].count \in 0..Limit /\ data[k].windowNum \in Nat
  BY <1>1 DEF TInv, KindsOK, KindOK, Entry
<1>4. Tally(k) \in 0..Limit
  BY <1>2, <1>3 DEF Tally, CountIn, Missing
<1>5. WindowStart(now) \in 0..now
  BY <1>1, InWindow
<1>6. QED
  BY <1>1, <1>2, <1>3, <1>4, <1>5

\* A step after which a key has the same ledger and tally.
LEMMA SameWindow ==
  ASSUME NEW k, WindowInv(k), UNCHANGED now,
         admitted'[k] = admitted[k], before'[k] = before[k], Tally(k)' = Tally(k),
         data'[k] # NoEntry => Outlives(data'[k], now)
  PROVE  WindowInv(k)'
BY DEF WindowInv, Tallied, OutlivesWindow, Outlives, Ordered, PreviousWithin, Since

\* A counter does not expire during the window that it counts.
LEMMA TallyAlive ==
  ASSUME NEW e \in Entry \cup {NoEntry}, NEW at \in Nat,
         e # NoEntry => e.expiresAt >= (e.windowNum + 1) * Span
  PROVE  CountIn(e, at, WindowNum(at))
           = IF e # NoEntry /\ e.windowNum = WindowNum(at) THEN e.count ELSE 0
<1>1. CASE e = NoEntry
  BY <1>1 DEF CountIn, Missing
<1>2. CASE e # NoEntry /\ e.windowNum # WindowNum(at)
  BY <1>2 DEF CountIn
<1>3. CASE e # NoEntry /\ e.windowNum = WindowNum(at)
  <2>1. WindowEnd(at) = (e.windowNum + 1) * Span /\ at < WindowEnd(at) /\ WindowEnd(at) \in Nat
    BY <1>3, InWindow, WindowTypes
  <2>2. e.expiresAt >= WindowEnd(at)
    BY <1>3, <2>1
  <2>3. e.expiresAt \in Int
    BY <1>3 DEF Entry, Never
  <2>4. ~ Missing(e, at)
    BY <1>3, <2>1, <2>2, <2>3 DEF Missing
  <2>5. QED
    BY <1>3, <2>4 DEF CountIn
<1>4. QED
  BY <1>1, <1>2, <1>3

LEMMA TickWindow ==
  ASSUME TInv, NEW k \in WindowKeys, WindowInv(k), Tick
  PROVE  WindowInv(k)'
<1>1. /\ k \in Keys /\ now \in Nat /\ \A s \in 0..now : s \in Times
      /\ admitted \in [Keys -> Nat] /\ before \in [Keys -> [Times -> Nat]]
      /\ data[k] \in Entry \cup {NoEntry}
      /\ data[k] # NoEntry => data[k].windowNum \in Nat
      /\ Tally(k) \in 0..Limit /\ Limit \in Nat /\ Span \in Nat \ {0}
      /\ WindowStart(now) \in 0..now
  BY WindowFacts
<1>2. /\ now' = now + 1 /\ admitted' = admitted /\ data' = data /\ now + 1 \in Times
      /\ before' = [j \in Keys |-> [before[j] EXCEPT ![now + 1] = admitted[j]]]
  BY <1>1, LedgerAssumption DEF Tick, AdvanceClock, store, Times
<1>3. /\ \A s \in 0..now : before'[k][s] = before[k][s]
      /\ before'[k][now + 1] = admitted[k]
  BY <1>1, <1>2
<1>4. Ordered(k)'
  <2>1. /\ \A s \in 0..now : before[k][s] <= admitted[k]
        /\ \A s \in 0..now : \A r \in 0..s : before[k][r] <= before[k][s]
    BY DEF WindowInv, Ordered
  <2>2. admitted[k] \in Nat
    BY <1>1
  <2> SUFFICES ASSUME NEW s \in 0..(now + 1)
               PROVE  /\ before'[k][s] <= admitted[k]
                      /\ \A r \in 0..s : before'[k][r] <= before'[k][s]
    BY <1>2 DEF Ordered
  <2>3. CASE s \in 0..now
    <3>1. \A r \in 0..s : r \in 0..now
      BY <1>1, <2>3
    <3>2. QED
      BY <1>3, <2>1, <2>3, <3>1
  <2>4. CASE s = now + 1
    <3>1. \A r \in 0..s : r \in 0..now \/ r = now + 1
      BY <1>1, <2>4
    <3>2. QED
      BY <1>3, <2>1, <2>2, <2>4, <3>1
  <2>5. QED
    BY <1>1, <2>3, <2>4
<1>5. data[k] # NoEntry => Outlives(data[k], now)
  BY DEF WindowInv, OutlivesWindow
<1>6. /\ Tally(k) = IF data[k] # NoEntry /\ data[k].windowNum = WindowNum(now)
                      THEN data[k].count ELSE 0
      /\ Tally(k)' = IF data[k] # NoEntry /\ data[k].windowNum = WindowNum(now + 1)
                       THEN data[k].count ELSE 0
  <2>1. data[k] # NoEntry => data[k].expiresAt >= (data[k].windowNum + 1) * Span
    BY <1>5 DEF Outlives
  <2>2. Tally(k)' = CountIn(data[k], now + 1, WindowNum(now + 1))
    BY <1>2 DEF Tally
  <2>3. now + 1 \in Nat
    BY <1>1
  <2>4. QED
    BY <1>1, <2>1, <2>2, <2>3, TallyAlive DEF Tally
<1>7. WindowNum(now) \in Nat
  BY <1>1, InWindow
<1>8. /\ Tallied(k)' <=> admitted[k] - before'[k][WindowStart(now + 1)] = Tally(k)'
      /\ Tallied(k) <=> admitted[k] - before[k][WindowStart(now)] = Tally(k)
  <2>1. WindowStart(now)' = WindowStart(now + 1)
    BY <1>2
  <2>2. QED
    BY <1>2, <2>1 DEF Tallied, Since
<1>9. PreviousWithin(k)' <=>
        (WindowStart(now + 1) >= Span =>
           before'[k][WindowStart(now + 1)] - before'[k][WindowStart(now + 1) - Span] <= Limit)
  BY <1>2 DEF PreviousWithin
<1>10. Tallied(k) /\ PreviousWithin(k)
  BY DEF WindowInv
<1> HIDE DEF Tally
<1>11. CASE /\ WindowNum(now + 1) = WindowNum(now)
            /\ WindowStart(now + 1) = WindowStart(now)
  <2>1. Tally(k)' = Tally(k)
    BY <1>6, <1>11
  <2>2. Tallied(k)'
    BY <1>1, <1>3, <1>8, <1>10, <1>11, <2>1
  <2>3. WindowStart(now) >= Span => WindowStart(now) - Span \in 0..now
    BY <1>1
  <2>4. PreviousWithin(k)'
    BY <1>1, <1>3, <1>9, <1>10, <1>11, <2>3 DEF PreviousWithin
  <2>5. OutlivesWindow(k)'
    BY <1>2, <1>5, <1>11 DEF OutlivesWindow, Outlives
  <2>6. QED
    BY <1>4, <2>2, <2>4, <2>5 DEF WindowInv
<1>12. CASE /\ WindowNum(now + 1) = WindowNum(now) + 1
            /\ WindowStart(now + 1) = now + 1
            /\ WindowStart(now) + Span = now + 1
  <2>1. data[k] # NoEntry => data[k].windowNum <= WindowNum(now)
    BY <1>5 DEF Outlives
  <2>2. data[k] # NoEntry => data[k].windowNum # WindowNum(now) + 1
    BY <1>1, <1>7, <2>1
  <2>3. Tally(k)' = 0
    BY <1>6, <1>12, <2>2
  <2>4. Tallied(k)'
    BY <1>1, <1>3, <1>8, <1>12, <2>3
  <2>5. (now + 1) - Span = WindowStart(now)
    <3>1. \A a, b, c \in Nat : a + b = c => c - b = a
      OBVIOUS
    <3>2. WindowStart(now) \in Nat /\ Span \in Nat /\ now + 1 \in Nat
      BY <1>1
    <3>3. QED
      BY <1>12, <3>1, <3>2, Zenon
  <2>6. PreviousWithin(k)'
    <3>1. /\ before'[k][WindowStart(now + 1)] = admitted[k]
          /\ before'[k][WindowStart(now + 1) - Span] = before[k][WindowStart(now)]
      BY <1>1, <1>3, <1>12, <2>5
    <3>2. admitted[k] - before[k][WindowStart(now)] <= Limit
      BY <1>1, <1>8, <1>10
    <3>3. QED
      BY <1>9, <3>1, <3>2
  <2>7. OutlivesWindow(k)'
    <3>1. data[k] # NoEntry => data[k].windowNum <= WindowNum(now) + 1
      BY <1>1, <1>7, <2>1
    <3>2. QED
      BY <1>2, <1>5, <1>12, <3>1 DEF OutlivesWindow, Outlives
  <2>8. QED
    BY <1>4, <2>4, <2>6, <2>7 DEF WindowInv
<1>13. QED
  BY <1>1, <1>11, <1>12, NextTick

LEMMA SweepWindow ==
  ASSUME TInv, NEW k \in WindowKeys, WindowInv(k), SweepShard
  PROVE  WindowInv(k)'
<1>1. /\ k \in Keys /\ now \in Nat
      /\ data[k] \in Entry \cup {NoEntry}
      /\ data[k] # NoEntry => data[k].windowNum \in Nat
  BY WindowFacts
<1>2. UNCHANGED <<now, admitted, before>>
  BY DEF SweepShard, ledger
<1>3. data[k] # NoEntry => Outlives(data[k], now)
  BY DEF WindowInv, OutlivesWindow
<1>4. CASE data'[k] = data[k]
  <2>1. Tally(k)' = Tally(k)
    BY <1>2, <1>4 DEF Tally
  <2>2. QED
    BY <1>2, <1>3, <1>4, <2>1, SameWindow
<1>5. CASE data'[k] # data[k]
  <2>1. data'[k] = NoEntry /\ data[k] # NoEntry /\ sweepAt > data[k].expiresAt
    BY <1>1, <1>5 DEF SweepShard
  <2>2. now > data[k].expiresAt
    <3>1. sweepAt <= now /\ sweepAt \in Nat
      BY LedgerAssumption DEF TInv, StoreTypeOK, Times
    <3>2. data[k].expiresAt \in Int
      BY <1>1, <2>1 DEF Entry, Never
    <3>3. QED
      BY <1>1, <2>1, <3>1, <3>2
  <2>3. Missing(data[k], now) /\ Missing(NoEntry, now)
    BY <2>2 DEF Missing
  <2>4. Tally(k) = 0 /\ Tally(k)' = 0
    BY <1>2, <2>1, <2>3 DEF Tally, CountIn
  <2>5. QED
    BY <1>2, <2>1, <2>4, SameWindow
<1>6. QED
  BY <1>4, <1>5

LEMMA ResetWindow ==
  ASSUME TInv, NEW k \in WindowKeys, Reset(k)
  PROVE  WindowInv(k)'
<1>1. /\ k \in Keys /\ now \in Nat /\ \A s \in 0..now : s \in Times
      /\ admitted \in [Keys -> Nat] /\ before \in [Keys -> [Times -> Nat]]
      /\ data \in [Keys -> Entry \cup {NoEntry}]
      /\ Limit \in Nat /\ Span \in Nat \ {0} /\ WindowStart(now) \in 0..now
  BY WindowFacts
<1>2. /\ now' = now /\ data'[k] = NoEntry /\ admitted'[k] = 0
      /\ \A s \in 0..now : before'[k][s] = 0
  BY <1>1 DEF Reset, Forget
<1>3. Tally(k)' = 0
  BY <1>2 DEF Tally, CountIn, Missing
<1>4. Tallied(k)' /\ OutlivesWindow(k)'
  BY <1>1, <1>2, <1>3 DEF Tallied, OutlivesWindow, Since
<1>5. Ordered(k)'
  <2>1. \A s \in 0..now : \A r \in 0..s : r \in 0..now
    BY <1>1
  <2>2. QED
    BY <1>2, <2>1 DEF Ordered
<1>6. PreviousWithin(k)'
  <2>1. WindowStart(now) >= Span => WindowStart(now) - Span \in 0..now
    BY <1>1
  <2>2. QED
    BY <1>1, <1>2, <2>1 DEF PreviousWithin
<1>7. QED
  BY <1>4, <1>5, <1>6 DEF WindowInv

\* A call adds to the tally what it adds to the ledger.
LEMMA AllowWindow ==
  ASSUME SmallCounts, TInv, NEW k \in WindowKeys, WindowInv(k),
         NEW n \in Costs, NEW d, Decided(k, n, d)
  PROVE  /\ WindowInv(k)'
         /\ reply' = [key |-> k, n |-> n, allowed |-> d.allowed]
         /\ d.allowed = (Tally(k) + n <= Limit)
<1>1. /\ k \in Keys /\ now \in Nat /\ n \in Nat /\ \A s \in 0..now : s \in Times
      /\ admitted \in [Keys -> Nat] /\ before \in [Keys -> [Times -> Nat]]
      /\ data \in [Keys -> Entry \cup {NoEntry}] /\ data[k] \in Entry \cup {NoEntry}
      /\ data[k] # NoEntry => data[k].count \in 0..Limit
      /\ Tally(k) \in 0..Limit /\ Limit \in Nat /\ Span \in Nat \ {0}
      /\ WindowStart(now) \in 0..now
  BY WindowFacts, LedgerAssumption
<1> DEFINE x == Tally(k)
           e == d.entry
<1>2. /\ d = DecideFixedWindow(data[k], now, n)
      /\ data' = [data EXCEPT ![k] = e]
      /\ d.allowed \in BOOLEAN
      /\ IF d.allowed THEN Admit(k, n) ELSE Refuse(k, n)
  BY DEF Decided, Answer
<1>3. /\ d.allowed = (x + n <= Limit)
      /\ e \in Entry
      /\ e.count = IF x + n <= Limit THEN x + n ELSE x
      /\ e.windowNum = WindowNum(now)
      /\ e.expiresAt = WindowEnd(now) + Window
  <2>1. /\ data[k] \in Entry \cup {NoEntry} /\ now \in Nat
        /\ data[k] # NoEntry => data[k].count \in 0..Limit
    BY <1>1
  <2>2. x = CountIn(data[k], now, WindowNum(now))
    BY DEF Tally
  <2> HIDE DEF x
  <2>3. QED
    BY <1>2, <2>1, <2>2, WindowDecision, Zenon
<1>4. WindowEnd(now) = (e.windowNum + 1) * Span /\ now < WindowEnd(now)
      /\ WindowEnd(now) \in Nat /\ Window \in Nat /\ WindowNum(now) \in Nat
  BY <1>1, <1>3, InWindow, WindowTypes, WindowAssumption
<1>5. data'[k] = e /\ e # NoEntry
  BY <1>1, <1>2, <1>3, StoreAssumption
<1>6. /\ now' = now /\ before' = before
      /\ reply' = [key |-> k, n |-> n, allowed |-> d.allowed]
      /\ admitted'[k] = IF x + n <= Limit THEN admitted[k] + n ELSE admitted[k]
  <2>1. CASE d.allowed
    BY <1>1, <1>2, <1>3, <2>1 DEF Admit
  <2>2. CASE ~ d.allowed
    BY <1>1, <1>2, <1>3, <2>2 DEF Refuse
  <2>3. QED
    BY <2>1, <2>2
<1> HIDE DEF e
<1>7. Outlives(e, now)
  BY <1>3, <1>4 DEF Outlives
<1>8. Tally(k)' = IF x + n <= Limit THEN x + n ELSE x
  <2>1. CountIn(e, now, WindowNum(now)) = e.count
    <3>1. e.expiresAt >= (e.windowNum + 1) * Span
      BY <1>7 DEF Outlives
    <3>2. QED
      BY <1>1, <1>3, <1>5, <3>1, TallyAlive
  <2>2. Tally(k)' = CountIn(e, now, WindowNum(now))
    BY <1>5, <1>6 DEF Tally
  <2>3. QED
    BY <1>3, <2>1, <2>2
<1> HIDE DEF x
<1>9. x \in Nat /\ admitted[k] \in Nat
  BY <1>1 DEF x
<1>10. Tallied(k)'
  <2>1. admitted[k] - before[k][WindowStart(now)] = x
    BY DEF WindowInv, Tallied, Since, x
  <2>2. before[k][WindowStart(now)] \in Nat
    BY <1>1
  <2>3. Tallied(k)' <=> admitted'[k] - before[k][WindowStart(now)] = Tally(k)'
    BY <1>6 DEF Tallied, Since
  <2> DEFINE a == admitted[k]
             b == before[k][WindowStart(now)]
  <2>4. a \in Nat /\ b \in Nat /\ a - b = x /\ n \in Nat
    BY <1>1, <1>9, <2>1, <2>2
  <2>5. /\ admitted'[k] = IF x + n <= Limit THEN a + n ELSE a
        /\ Tallied(k)' <=> admitted'[k] - b = Tally(k)'
    BY <1>6, <2>3
  <2> HIDE DEF a, b
  <2>6. (a + n) - b = x + n
    BY <1>9, <2>4
  <2>7. QED
    BY <1>8, <2>4, <2>5, <2>6
<1>11. Ordered(k)'
  <2>1. /\ \A s \in 0..now : before[k][s] <= admitted[k]
        /\ \A s \in 0..now : \A r \in 0..s : before[k][r] <= before[k][s]
    BY DEF WindowInv, Ordered
  <2>2. admitted'[k] >= admitted[k] /\ admitted'[k] \in Nat
    BY <1>1, <1>6, <1>9
  <2>3. \A s \in 0..now : before[k][s] \in Nat
    BY <1>1
  <2>4. \A s \in 0..now : before[k][s] <= admitted'[k]
    BY <1>9, <2>1, <2>2, <2>3
  <2>5. QED
    BY <1>6, <2>1, <2>4 DEF Ordered
<1>12. PreviousWithin(k)'
  BY <1>6 DEF WindowInv, PreviousWithin
<1>13. OutlivesWindow(k)'
  BY <1>5, <1>6, <1>7 DEF OutlivesWindow, Outlives
<1>14. QED
  BY <1>3, <1>6, <1>10, <1>11, <1>12, <1>13 DEF WindowInv, x

LEMMA WInvInit ==
  ASSUME StoreInit
  PROVE  WInv
<1>1. TInv
  BY TInvInit
<1>2. ASSUME NEW k \in WindowKeys
      PROVE  WindowInv(k)
  <2>1. /\ now = 0 /\ data[k] = NoEntry /\ admitted[k] = 0
        /\ \A s \in 0..now : before[k][s] = 0 /\ s = 0
    BY LedgerAssumption, KindsApart DEF StoreInit, LedgerInit, Times
  <2>2. WindowStart(now) = 0 /\ Span \in Nat \ {0}
    BY <2>1, InWindow, SpanPositive
  <2>3. Tally(k) = 0
    BY <2>1 DEF Tally, CountIn, Missing
  <2>4. Tallied(k) /\ OutlivesWindow(k) /\ Ordered(k) /\ PreviousWithin(k)
    BY <2>1, <2>2, <2>3 DEF Tallied, OutlivesWindow, Ordered, PreviousWithin, Since
  <2>5. QED
    BY <2>4 DEF WindowInv
<1>3. QED
  BY <1>1, <1>2 DEF WInv

LEMMA WInvStep ==
  ASSUME SmallCounts, WInv, [Next]_vars
  PROVE  WInv'
<1>1. TInv /\ TInv'
  BY TInvStep DEF WInv
<1>2. ASSUME NEW k \in WindowKeys
      PROVE  WindowInv(k)'
  <2>1. /\ k \in Keys /\ WindowInv(k)
        /\ admitted \in [Keys -> Nat] /\ data \in [Keys -> Entry \cup {NoEntry}]
        /\ before \in [Keys -> [Times -> Nat]]
    BY <1>1, WindowFacts DEF WInv
  <2>2. data[k] # NoEntry => Outlives(data[k], now)
    BY <2>1 DEF WindowInv, OutlivesWindow
  <2>3. ASSUME UNCHANGED now, admitted'[k] = admitted[k], before'[k] = before[k],
               data'[k] = data[k]
        PROVE  WindowInv(k)'
    <3>1. Tally(k)' = Tally(k)
      BY <2>3 DEF Tally
    <3>2. QED
      BY <2>1, <2>2, <2>3, <3>1, SameWindow
  <2>4. CASE UNCHANGED vars \/ BeginSweep
    BY <2>3, <2>4 DEF vars, ledger, store, BeginSweep
  <2>5. CASE Tick
    BY <1>1, <2>1, <2>5, TickWindow
  <2>6. CASE SweepShard
    BY <1>1, <2>1, <2>6, SweepWindow
  <2>7. ASSUME NEW j \in Keys, Allow(j)
        PROVE  WindowInv(k)'
    <3>1. PICK n \in Costs : \E d : Decided(j, n, d)
      BY <1>1, <2>7, AllowDecides
    <3>2. PICK d : Decided(j, n, d)
      BY <3>1
    <3>3. CASE j = k
      <4>1. Decided(k, n, d)
        BY <3>2, <3>3
      <4>2. QED
        BY <1>1, <2>1, <4>1, AllowWindow
    <3>4. CASE j # k
      <4>1. /\ data' = [data EXCEPT ![j] = d.entry]
            /\ Admit(j, n) \/ Refuse(j, n)
        BY <3>2 DEF Decided, Answer
      <4>2. UNCHANGED now /\ admitted'[k] = admitted[k] /\ before'[k] = before[k]
        BY <2>1, <3>4, <4>1 DEF Admit, Refuse
      <4>3. data'[k] = data[k]
        BY <2>1, <3>4, <4>1
      <4>4. QED
        BY <2>3, <4>2, <4>3
    <3>5. QED
      BY <3>3, <3>4
  <2>8. ASSUME NEW j \in Keys, Reset(j)
        PROVE  WindowInv(k)'
    <3>1. CASE j = k
      <4>1. Reset(k)
        BY <2>8, <3>1
      <4>2. QED
        BY <1>1, <4>1, ResetWindow
    <3>2. CASE j # k
      <4>1. /\ UNCHANGED now /\ admitted'[k] = admitted[k] /\ before'[k] = before[k]
            /\ data'[k] = data[k]
        BY <2>1, <2>8, <3>2 DEF Reset, Forget
      <4>2. QED
        BY <2>3, <4>1
    <3>3. QED
      BY <3>1, <3>2
  <2>9. QED
    BY <2>4, <2>5, <2>6, <2>7, <2>8 DEF Next, Background
<1>3. QED
  BY <1>1, <1>2 DEF WInv

-----------------------------------------------------------------------------

\* A span of less than a window begins in the current window or in the previous
\* one; each of the two has no more than Limit.
LEMMA WInvTwiceLimit ==
  ASSUME WInv
  PROVE  TwiceLimit
<1> SUFFICES ASSUME NEW k \in WindowKeys, NEW s \in 0..now, now - s < Span
             PROVE  Since(k, s) <= 2 * Limit
  BY DEF TwiceLimit
<1>1. /\ k \in Keys /\ now \in Nat /\ \A r \in 0..now : r \in Times
      /\ admitted \in [Keys -> Nat] /\ before \in [Keys -> [Times -> Nat]]
      /\ Tally(k) \in 0..Limit /\ Limit \in Nat /\ Span \in Nat \ {0}
      /\ WindowStart(now) \in 0..now /\ WindowInv(k)
  BY WindowFacts DEF WInv
<1> DEFINE a == admitted[k]
           b(r) == before[k][r]
           w == WindowStart(now)
<1>2. a \in Nat /\ \A r \in 0..now : b(r) \in Nat
  BY <1>1
<1>3. a - b(w) = Tally(k)
  BY <1>1 DEF WindowInv, Tallied, Since
<1>4. \A t \in 0..now : \A r \in 0..t : b(r) <= b(t)
  BY <1>1 DEF WindowInv, Ordered
<1>5. w >= Span => b(w) - b(w - Span) <= Limit
  BY <1>1 DEF WindowInv, PreviousWithin
<1>6. Since(k, s) = a - b(s)
  BY DEF Since
<1>7. w \in 0..now /\ now < w + Span
  BY <1>1, InWindow
<1> HIDE DEF a, b, w
<1>8. CASE w <= s
  <2>1. w \in 0..s
    BY <1>7, <1>8
  <2>2. b(w) <= b(s)
    BY <1>4, <2>1
  <2>3. QED
    BY <1>1, <1>2, <1>3, <1>6, <1>7, <2>2
<1>9. CASE s < w
  <2>1. w < s + Span
    BY <1>1, <1>7
  <2>2. CASE w >= Span
    <3> DEFINE p == w - Span
    <3>1. p \in 0..s /\ p \in 0..now
      BY <1>1, <1>7, <2>1, <2>2
    <3>2. b(p) <= b(s) /\ b(w) - b(p) <= Limit
      BY <1>4, <1>5, <2>2, <3>1
    <3>3. b(p) \in Nat /\ b(s) \in Nat /\ b(w) \in Nat
      BY <1>2, <1>7, <3>1
    <3> HIDE DEF p
    <3>4. QED
      BY <1>1, <1>2, <1>3, <1>6, <3>2, <3>3
  <2>3. CASE w < Span
    <3>1. w = 0
      BY <1>1, <2>3, FirstWindow DEF w
    <3>2. QED
      BY <1>1, <1>7, <1>9, <3>1
  <2>4. QED
    BY <1>1, <1>7, <2>2, <2>3
<1>10. QED
  BY <1>1, <1>7, <1>8, <1>9

\* No span as long as the window that is counted admits more than twice the
\* limit (memory.go:243-269), however a caller places its calls at the end of
\* one window and the beginning of the next, for any interleaving with resets,
\* expiry and cleanup.
THEOREM TwiceLimitKept ==
  ASSUME SmallCounts
  PROVE  Spec => []TwiceLimit
<1>1. StoreInit => WInv
  BY WInvInit
<1>2. WInv /\ [Next]_vars => WInv'
  BY WInvStep
<1>3. WInv => TwiceLimit
  BY WInvTwiceLimit
<1>4. QED
  BY <1>1, <1>2, <1>3, PTL DEF Spec

\* A call of a fixed window key is answered as the policy says that knows
\* nothing but the key's own history: it is admitted exactly when the current
\* window then has no more than the limit (memory.go:215-286).
WindowAnswersFitPolicy ==
  [][\A k \in WindowKeys : Allow(k) =>
       \E n \in Costs :
         reply' = [key |-> k, n |-> n, allowed |-> FitsFixedWindow(Usage(k), now, n)]]_vars

THEOREM WindowExact ==
  ASSUME SmallCounts
  PROVE  Spec => WindowAnswersFitPolicy
<1>1. ASSUME WInv, NEW k \in WindowKeys, Allow(k)
      PROVE  \E n \in Costs :
               reply' = [key |-> k, n |-> n, allowed |-> FitsFixedWindow(Usage(k), now, n)]
  <2>1. TInv /\ WindowInv(k) /\ k \in Keys /\ WindowStart(now) \in 0..now
    BY <1>1, WindowFacts DEF WInv
  <2>2. PICK n \in Costs : \E d : Decided(k, n, d)
    BY <1>1, <2>1, AllowDecides
  <2>3. PICK d : Decided(k, n, d)
    BY <2>2
  <2>4. /\ reply' = [key |-> k, n |-> n, allowed |-> d.allowed]
        /\ d.allowed = (Tally(k) + n <= Limit)
    BY <2>1, <2>3, AllowWindow
  <2>5. Usage(k)[WindowStart(now)] = Tally(k)
    BY <2>1 DEF Usage, WindowInv, Tallied
  <2>6. FitsFixedWindow(Usage(k), now, n) = (Tally(k) + n <= Limit)
    BY <2>5, Zenon DEF FitsFixedWindow
  <2>7. QED
    BY <2>4, <2>6, Zenon
<1>2. WInv => [\A k \in WindowKeys : Allow(k) =>
                 \E n \in Costs :
                   reply' = [key |-> k, n |-> n,
                             allowed |-> FitsFixedWindow(Usage(k), now, n)]]_vars
  BY <1>1
<1>3. StoreInit => WInv
  BY WInvInit
<1>4. WInv /\ [Next]_vars => WInv'
  BY WInvStep
<1>5. QED
  BY <1>2, <1>3, <1>4, PTL DEF Spec, WindowAnswersFitPolicy

\* A refused call leaves an entry that refuses until the window ends and then
\* counts from zero.
LEMMA RefusedUntilEnd ==
  ASSUME SmallCounts, NEW e \in Entry \cup {NoEntry}, NEW at \in Nat, NEW n \in Costs,
         e # NoEntry => e.count \in 0..Limit, n <= Limit,
         ~ DecideFixedWindow(e, at, n).allowed
  PROVE  LET d == DecideFixedWindow(e, at, n)
         IN  /\ d.retryAfter \in Nat
             /\ DecideFixedWindow(d.entry, at + d.retryAfter, n).allowed
             /\ \A w \in 0..(d.retryAfter - 1) :
                  ~ DecideFixedWindow(d.entry, at + w, n).allowed
<1> DEFINE d == DecideFixedWindow(e, at, n)
           f == d.entry
           x == CountIn(e, at, WindowNum(at))
           v == WindowNum(at)
<1>1. /\ x \in 0..Limit /\ ~ (x + n <= Limit) /\ n \in Nat /\ Limit \in Nat
      /\ d.retryAfter = WindowEnd(at) - at
      /\ f \in Entry /\ f.count = x
      /\ f.windowNum = v /\ f.expiresAt = WindowEnd(at) + Window
      /\ f.count \in 0..Limit
  <2>1. /\ x \in 0..Limit
        /\ d.allowed = (x + n <= Limit)
        /\ d.retryAfter = IF x + n <= Limit THEN 0 ELSE WindowEnd(at) - at
        /\ f \in Entry /\ f.count = IF x + n <= Limit THEN x + n ELSE x
        /\ f.count \in 0..Limit
        /\ f.windowNum = v /\ f.expiresAt = WindowEnd(at) + Window
    BY WindowDecision
  <2>2. ~ d.allowed
    OBVIOUS
  <2> HIDE DEF d, f, x, v
  <2>3. ~ (x + n <= Limit)
    BY <2>1, <2>2, Zenon
  <2>4. n \in Nat /\ Limit \in Nat
    BY WindowAssumption, LedgerAssumption
  <2>5. QED
    BY <2>1, <2>3, <2>4
<1>2. /\ v \in Nat /\ v * Span <= at /\ at < WindowEnd(at)
      /\ WindowEnd(at) = (v + 1) * Span /\ WindowEnd(at) \in Nat
      /\ Window \in Nat \ {0} /\ Span \in Nat \ {0} /\ v * Span \in Nat
  BY InWindow, WindowTypes, WindowAssumption, SpanPositive DEF WindowStart
<1> HIDE DEF d, f, x, v
<1>3. f.expiresAt >= (f.windowNum + 1) * Span /\ f # NoEntry
  BY <1>1, <1>2, StoreAssumption
\* What the entry counts at a time t, and what is decided then.
<1>4. ASSUME NEW t \in Nat
      PROVE  DecideFixedWindow(f, t, n).allowed
               = ((IF v = WindowNum(t) THEN x ELSE 0) + n <= Limit)
  <2>1. CountIn(f, t, WindowNum(t)) = IF v = WindowNum(t) THEN x ELSE 0
    BY <1>1, <1>3, TallyAlive
  <2>2. DecideFixedWindow(f, t, n).allowed = (CountIn(f, t, WindowNum(t)) + n <= Limit)
    BY <1>1, WindowDecision
  <2>3. QED
    BY <2>1, <2>2, Zenon
<1>5. ASSUME NEW w \in 0..(d.retryAfter - 1)
      PROVE  ~ DecideFixedWindow(f, at + w, n).allowed
  <2>1. at + w \in Nat /\ v * Span <= at + w /\ at + w < (v + 1) * Span
    BY <1>1, <1>2
  <2>2. WindowNum(at + w) = v
    BY <1>2, <2>1, WindowUnique
  <2>3. QED
    BY <1>1, <1>4, <2>1, <2>2
<1>6. at + d.retryAfter = (v + 1) * Span /\ at + d.retryAfter \in Nat /\ d.retryAfter \in Nat
  BY <1>1, <1>2
<1>7. DecideFixedWindow(f, at + d.retryAfter, n).allowed
  <2> DEFINE t == at + d.retryAfter
  <2>1. ((v + 1) + 1) * Span = (v + 1) * Span + Span /\ v + 1 \in Nat
    BY <1>2
  <2>2. (v + 1) * Span <= t /\ t < ((v + 1) + 1) * Span /\ t \in Nat
    BY <1>2, <1>6, <2>1
  <2>3. WindowNum(t) = v + 1 /\ v # v + 1
    BY <1>2, <2>1, <2>2, WindowUnique
  <2> HIDE DEF t
  <2>4. DecideFixedWindow(f, t, n).allowed = (0 + n <= Limit)
    BY <1>4, <2>2, <2>3
  <2>5. 0 + n <= Limit
    BY <1>1
  <2>6. QED
    BY <2>4, <2>5 DEF t
<1>8. QED
  BY <1>5, <1>6, <1>7 DEF d, f

\* RetryAfter of a refused fixed window call is exact (memory.go:276-282): a
\* caller that retries alone is refused at any earlier time and admitted then.
THEOREM WindowRetryIsExact ==
  ASSUME SmallCounts
  PROVE  Spec => []WindowRetryExact
<1>1. ASSUME TInv
      PROVE  WindowRetryExact
  <2> SUFFICES ASSUME NEW k \in WindowKeys, NEW n \in {m \in Costs : m <= Limit},
                      ~ DecideFixedWindow(data[k], now, n).allowed
               PROVE  LET d == DecideFixedWindow(data[k], now, n)
                      IN  /\ DecideFixedWindow(d.entry, now + d.retryAfter, n).allowed
                          /\ \A w \in 0..(d.retryAfter - 1) :
                               ~ DecideFixedWindow(d.entry, now + w, n).allowed
    BY DEF WindowRetryExact
  <2>1. /\ now \in Nat /\ data[k] \in Entry \cup {NoEntry}
        /\ data[k] # NoEntry => data[k].count \in 0..Limit
    BY <1>1, WindowFacts
  <2>2. n \in Costs /\ n <= Limit
    OBVIOUS
  <2>3. QED
    BY <2>1, <2>2, RefusedUntilEnd
<1>2. QED
  BY <1>1, TInvInit, TInvStep, PTL DEF Spec

=============================================================================
