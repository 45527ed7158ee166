---------------------------- MODULE SlidingProofs ----------------------------
(***************************************************************************)
(* The sliding window counter and the sliding window log answer as their   *)
(* policies say, and the bounds that follow: proofs for any keys of every  *)
(* kind, limit, costs and time to live, and any window of at least one     *)
(* millisecond.                                                            *)
(***************************************************************************)
EXTENDS MemoryProofs

\* A window has at least one millisecond.  A shorter one is counted as one of a
\* millisecond, and its entries expire before the next window ends.
WholeMillis == Milli <= Window

-----------------------------------------------------------------------------
(* The sliding window counter *)

\* What the entry of key k counts in the previous window.
Before(k) == PreviousIn(data[k], now, WindowNum(now))

\* It is what the ledger has of the previous window.
PreviousTallied(k) ==
  (IF WindowNum(now) = 0 THEN 0
   ELSE Since(k, WindowStart(now) - Span) - Since(k, WindowStart(now))) = Before(k)

\* An entry outlives the window after the one that it counts, which has begun.
OutlivesBoth(e, at) == e.windowNum <= WindowNum(at) /\ e.expiresAt >= (e.windowNum + 2) * Span

OutlivesNextWindow(k) == data[k] # NoEntry => OutlivesBoth(data[k], now)

\* A window that has admitted anything is within the limit together with the
\* share of the previous one, up to the unit that is lost to the cut.
WeighedWithin(k) ==
  Tally(k) > 0 => Before(k) * Left(now) + Tally(k) * SpanMs <= (Limit + 1) * SpanMs

CounterInv(k) ==
  Tallied(k) /\ PreviousTallied(k) /\ OutlivesNextWindow(k) /\ WeighedWithin(k)

CInv == TInv /\ \A k \in CounterKeys : CounterInv(k)

\* What is known of a counter key in a state of the invariant.
LEMMA CounterFacts ==
  ASSUME TInv, NEW k \in CounterKeys
  PROVE  /\ k \in Keys
         /\ now \in Nat /\ \A s \in 0..now : s \in Times
         /\ admitted \in [Keys -> Nat] /\ before \in [Keys -> [Times -> Nat]]
         /\ data \in [Keys -> Entry \cup {NoEntry}] /\ data[k] \in Entry \cup {NoEntry}
         /\ data[k] # NoEntry =>
              /\ data[k] \in Entry /\ data[k].windowNum \in Nat
              /\ data[k].count \in 0..Limit /\ data[k].prevCount \in 0..Limit
         /\ Tally(k) \in 0..Limit /\ Before(k) \in 0..Limit
         /\ Limit \in Nat /\ Span \in Nat \ {0}
         /\ WindowNum(now) \in Nat /\ WindowStart(now) \in 0..now
<1>1. /\ k \in Keys
      /\ now \in Nat /\ \A s \in 0..now : s \in Times
      /\ admitted \in [Keys -> Nat] /\ before \in [Keys -> [Times -> Nat]]
      /\ data \in [Keys -> Entry \cup {NoEntry}] /\ data[k] \in Entry \cup {NoEntry}
  BY KindsApart, LedgerAssumption DEF TInv, StoreTypeOK, LedgerTypeOK, Times
<1>2. Limit \in Nat /\ Span \in Nat \ {0}
  BY WindowAssumption, SpanPositive
<1>3. data[k] # NoEntry =>
        /\ data[k] \in Entry /\ data[k].windowNum \in Nat
        /\ data[k].count \in 0..Limit /\ data[k].prevCount \in 0..Limit
  BY <1>1 DEF TInv, KindsOK, KindOK, Entry
<1>4. Tally(k) \in 0..Limit /\ Before(k) \in 0..Limit
  <2>1. Missing(data[k], now) => Tally(k) = 0 /\ Before(k) = 0
    BY Zenon DEF Tally, Before, CountIn, PreviousIn
  <2>2. Tally(k) \in {0, data[k].count}
    BY Zenon DEF Tally, CountIn
  <2>3. Before(k) \in {0, data[k].count, data[k].prevCount}
    BY Zenon DEF Before, PreviousIn
  <2>4. ~ Missing(data[k], now) => data[k] # NoEntry
    BY DEF Missing
  <2>5. QED
    BY <1>2, <1>3, <2>1, <2>2, <2>3, <2>4
<1>5. WindowNum(now) \in Nat /\ WindowStart(now) \in 0..now
  BY <1>1, InWindow
<1>6. QED
  BY <1>1, <1>2, <1>3, <1>4, <1>5

\* A counter does not expire during the window that it counts nor the next one.
LEMMA CountsAlive ==
  ASSUME NEW e \in Entry \cup {NoEntry}, NEW at \in Nat,
         e # NoEntry => e.expiresAt >= (e.windowNum + 2) * Span
  PROVE  /\ CountIn(e, at, WindowNum(at))
              = IF e # NoEntry /\ e.windowNum = WindowNum(at) THEN e.count ELSE 0
         /\ PreviousIn(e, at, WindowNum(at))
              = IF e # NoEntry /\ e.windowNum = WindowNum(at) THEN e.prevCount
                ELSE IF e # NoEntry /\ e.windowNum + 1 = WindowNum(at) THEN e.count
                ELSE 0
<1> DEFINE w == WindowNum(at)
<1>1. w \in Nat /\ at < (w + 1) * Span /\ Span \in Nat
  BY InWindow, SpanPositive
<1>2. CASE e = NoEntry
  <2>1. Missing(e, at)
    BY <1>2 DEF Missing
  <2>2. QED
    BY <1>2, <2>1, Zenon DEF CountIn, PreviousIn
<1>3. CASE e # NoEntry
  <2>1. e.windowNum \in Nat /\ e.expiresAt \in Int
    BY <1>3 DEF Entry, Never
  <2>2. e.windowNum = w \/ e.windowNum + 1 = w => ~ Missing(e, at)
    <3> SUFFICES ASSUME e.windowNum = w \/ e.windowNum + 1 = w
                 PROVE  ~ Missing(e, at)
      OBVIOUS
    <3> DEFINE v == e.windowNum
    <3>1. (v + 2) * Span = (v + 1) * Span + Span /\ ((v + 1) + 1) * Span = (v + 2) * Span
          /\ (v + 1) * Span \in Nat /\ (v + 2) * Span \in Nat
      BY <1>1, <2>1
    <3>2. at < (v + 2) * Span
      <4>1. CASE v = w
        BY <1>1, <3>1, <4>1
      <4>2. CASE v + 1 = w
        BY <1>1, <3>1, <4>2
      <4>3. QED
        BY <4>1, <4>2
    <3>3. ~ (at > e.expiresAt)
      BY <1>3, <2>1, <3>1, <3>2
    <3>4. QED
      BY <1>3, <3>3 DEF Missing
  <2>3. e.windowNum + 1 # e.windowNum
    BY <2>1
  <2> HIDE DEF w
  <2>4. CountIn(e, at, w) = IF e.windowNum = w THEN e.count ELSE 0
    BY <2>2, Zenon DEF CountIn
  <2>5. PreviousIn(e, at, w) = IF e.windowNum = w THEN e.prevCount
                               ELSE IF e.windowNum + 1 = w THEN e.count ELSE 0
    <3>1. CASE e.windowNum = w
      BY <2>2, <2>3, <3>1, Zenon DEF PreviousIn
    <3>2. CASE e.windowNum + 1 = w
      BY <2>2, <2>3, <3>2, Zenon DEF PreviousIn
    <3>3. CASE e.windowNum # w /\ e.windowNum + 1 # w
      BY <3>3, Zenon DEF PreviousIn
    <3>4. QED
      BY <3>1, <3>2, <3>3
  <2>6. QED
    BY <1>3, <2>4, <2>5, Zenon DEF w
<1>4. QED
  BY <1>2, <1>3

\* A step after which a key has the same ledger and counts.
LEMMA SameCounts ==
  ASSUME NEW k, CounterInv(k), UNCHANGED now,
         admitted'[k] = admitted[k], before'[k] = before[k],
         Tally(k)' = Tally(k), Before(k)' = Before(k),
         data'[k] # NoEntry => OutlivesBoth(data'[k], now)
  PROVE  CounterInv(k)'
<1>1. Tallied(k)' /\ PreviousTallied(k)'
  BY DEF CounterInv, Tallied, PreviousTallied, Since
<1>2. OutlivesNextWindow(k)'
  BY DEF OutlivesNextWindow, OutlivesBoth
<1>3. WeighedWithin(k)'
  BY DEF CounterInv, WeighedWithin
<1>4. QED
  BY <1>1, <1>2, <1>3 DEF CounterInv

LEMMA TickCounter ==
  ASSUME TInv, NEW k \in CounterKeys, CounterInv(k), Tick
  PROVE  CounterInv(k)'
<1>1. /\ k \in Keys /\ now \in Nat /\ \A s \in 0..now : s \in Times
      /\ admitted \in [Keys -> Nat] /\ before \in [Keys -> [Times -> Nat]]
      /\ data[k] \in Entry \cup {NoEntry}
      /\ data[k] # NoEntry => data[k].windowNum \in Nat
      /\ Tally(k) \in 0..Limit /\ Before(k) \in 0..Limit
      /\ Limit \in Nat /\ Span \in Nat \ {0}
      /\ WindowNum(now) \in Nat /\ WindowStart(now) \in 0..now
  BY CounterFacts
<1>2. /\ now' = now + 1 /\ admitted' = admitted /\ data' = data /\ now + 1 \in Times
      /\ before' = [j \in Keys |-> [before[j] EXCEPT ![now + 1] = admitted[j]]]
  BY <1>1, LedgerAssumption DEF Tick, AdvanceClock, store, Times
<1>3. /\ \A s \in 0..now : before'[k][s] = before[k][s]
      /\ before'[k][now + 1] = admitted[k]
  BY <1>1, <1>2
<1>4. data[k] # NoEntry => OutlivesBoth(data[k], now)
  BY DEF CounterInv, OutlivesNextWindow
<1>5. /\ Tally(k) = IF data[k] # NoEntry /\ data[k].windowNum = WindowNum(now)
                      THEN data[k].count ELSE 0
      /\ Before(k) = IF data[k] # NoEntry /\ data[k].windowNum = WindowNum(now)
                       THEN data[k].prevCount
                     ELSE IF data[k] # NoEntry /\ data[k].windowNum + 1 = WindowNum(now)
                       THEN data[k].count ELSE 0
      /\ Tally(k)' = IF data[k] # NoEntry /\ data[k].windowNum = WindowNum(now + 1)
                       THEN data[k].count ELSE 0
      /\ Before(k)' = IF data[k] # NoEntry /\ data[k].windowNum = WindowNum(now + 1)
                        THEN data[k].prevCount
                      ELSE IF data[k] # NoEntry /\ data[k].windowNum + 1 = WindowNum(now + 1)
                        THEN data[k].count ELSE 0
  <2>1. data[k] # NoEntry => data[k].expiresAt >= (data[k].windowNum + 2) * Span
    BY <1>4 DEF OutlivesBoth
  <2>2. /\ Tally(k)' = CountIn(data[k], now + 1, WindowNum(now + 1))
        /\ Before(k)' = PreviousIn(data[k], now + 1, WindowNum(now + 1))
    BY <1>2 DEF Tally, Before
  <2>3. now + 1 \in Nat
    BY <1>1
  <2>4. QED
    BY <1>1, <2>1, <2>2, <2>3, CountsAlive, Zenon DEF Tally, Before
<1>6. \A s \in 0..now : Since(k, s)' = admitted[k] - before[k][s]
  BY <1>2, <1>3 DEF Since
<1>7. /\ Since(k, WindowStart(now)) = Tally(k)
      /\ (IF WindowNum(now) = 0 THEN 0
          ELSE Since(k, WindowStart(now) - Span) - Since(k, WindowStart(now))) = Before(k)
  BY Zenon DEF CounterInv, Tallied, PreviousTallied
<1>8. /\ Tallied(k)' <=> admitted[k] - before'[k][WindowStart(now + 1)] = Tally(k)'
      /\ PreviousTallied(k)' <=>
           (IF WindowNum(now + 1) = 0 THEN 0
            ELSE (admitted[k] - before'[k][WindowStart(now + 1) - Span])
                 - (admitted[k] - before'[k][WindowStart(now + 1)])) = Before(k)'
  <2>1. WindowStart(now)' = WindowStart(now + 1) /\ WindowNum(now)' = WindowNum(now + 1)
    BY <1>2
  <2>2. QED
    BY <1>2, <2>1 DEF Tallied, PreviousTallied, Since
<1>9. OutlivesNextWindow(k)' <=>
        (data[k] # NoEntry => OutlivesBoth(data[k], now + 1))
  BY <1>2 DEF OutlivesNextWindow
<1>10. WeighedWithin(k)' <=>
         (Tally(k)' > 0 =>
            Before(k)' * Left(now + 1) + Tally(k)' * SpanMs <= (Limit + 1) * SpanMs)
  BY <1>2 DEF WeighedWithin
<1> HIDE DEF Tally, Before
<1>11. CASE /\ WindowNum(now + 1) = WindowNum(now)
            /\ WindowStart(now + 1) = WindowStart(now)
  <2>1. Tally(k)' = Tally(k) /\ Before(k)' = Before(k)
    BY <1>5, <1>11
  <2>2. Tallied(k)'
    BY <1>1, <1>3, <1>7, <1>8, <1>11, <2>1 DEF Since
  <2>3. PreviousTallied(k)'
    <3>1. WindowNum(now) # 0 => WindowStart(now) - Span \in 0..now
      BY <1>1, EarlierWindow
    <3>2. QED
      BY <1>1, <1>3, <1>7, <1>8, <1>11, <2>1, <3>1 DEF Since
  <2>4. OutlivesNextWindow(k)'
    BY <1>4, <1>9, <1>11 DEF OutlivesBoth
  <2>5. WeighedWithin(k)'
    <3> DEFINE p == Before(k)
               l == Left(now)
               m == Left(now + 1)
    <3>1. p \in Nat /\ l \in Nat /\ m \in Nat /\ m <= l
      BY <1>1, <1>11, LeftShrinks, LeftBounds
    <3>2. Tally(k) > 0 => p * l + Tally(k) * SpanMs <= (Limit + 1) * SpanMs
      BY DEF CounterInv, WeighedWithin
    <3> HIDE DEF p, l, m
    <3>3. p * m <= p * l
      <4>1. PICK r \in Nat : l = m + r
        <5>1. l - m \in Nat /\ l = m + (l - m)
          BY <3>1
        <5>2. QED
          BY <5>1
      <4>2. p * l = p * m + p * r /\ p * r \in Nat /\ p * m \in Nat
        BY <3>1, <4>1
      <4>3. QED
        BY <4>2
    <3>4. p * m \in Nat /\ p * l \in Nat /\ Tally(k) * SpanMs \in Nat
          /\ (Limit + 1) * SpanMs \in Nat
      BY <1>1, <3>1, SpanPositive
    <3>5. Tally(k) > 0 => p * m + Tally(k) * SpanMs <= (Limit + 1) * SpanMs
      BY <3>2, <3>3, <3>4
    <3>6. QED
      BY <1>10, <2>1, <3>5 DEF p, m
  <2>6. QED
    BY <2>2, <2>3, <2>4, <2>5 DEF CounterInv
<1>12. CASE /\ WindowNum(now + 1) = WindowNum(now) + 1
            /\ WindowStart(now + 1) = now + 1
            /\ WindowStart(now) + Span = now + 1
  <2>1. data[k] # NoEntry =>
          /\ data[k].windowNum # WindowNum(now) + 1
          /\ data[k].windowNum <= WindowNum(now) + 1
          /\ (data[k].windowNum + 1 = WindowNum(now) + 1 <=> data[k].windowNum = WindowNum(now))
    <3>1. data[k] # NoEntry => data[k].windowNum <= WindowNum(now) /\ data[k].windowNum \in Nat
      BY <1>1, <1>4, Zenon DEF OutlivesBoth
    <3>2. WindowNum(now) \in Nat
      BY <1>1
    <3>3. \A v, w \in Nat : v <= w => v # w + 1 /\ v <= w + 1 /\ (v + 1 = w + 1 <=> v = w)
      OBVIOUS
    <3>4. QED
      BY <3>1, <3>2, <3>3, Zenon
  <2>2. Tally(k)' = 0 /\ Before(k)' = Tally(k)
    BY <1>5, <1>12, <2>1, Zenon
  <2>3. Tallied(k)'
    BY <1>1, <1>3, <1>8, <1>12, <2>2
  <2>4. (now + 1) - Span = WindowStart(now)
    <3>1. \A a, b, c \in Nat : a + b = c => c - b = a
      OBVIOUS
    <3>2. WindowStart(now) \in Nat /\ Span \in Nat /\ now + 1 \in Nat
      BY <1>1
    <3>3. QED
      BY <1>12, <3>1, <3>2, Zenon
  <2>5. PreviousTallied(k)'
    <3>1. before'[k][WindowStart(now + 1) - Span] = before[k][WindowStart(now)]
      BY <1>1, <1>3, <1>12, <2>4
    <3>2. before'[k][WindowStart(now + 1)] = admitted[k] /\ WindowNum(now + 1) # 0
      BY <1>1, <1>3, <1>12
    <3>3. admitted[k] - before[k][WindowStart(now)] = Tally(k)
      BY <1>7 DEF Since
    <3>4. admitted[k] \in Nat /\ before[k][WindowStart(now)] \in Nat /\ Tally(k) \in Nat
      BY <1>1
    <3>5. (admitted[k] - before[k][WindowStart(now)]) - (admitted[k] - admitted[k]) = Tally(k)
      BY <3>3, <3>4
    <3>6. QED
      BY <1>8, <2>2, <3>1, <3>2, <3>5, Zenon
  <2>6. OutlivesNextWindow(k)'
    BY <1>4, <1>9, <1>12, <2>1 DEF OutlivesBoth
  <2>7. WeighedWithin(k)'
    BY <1>10, <2>2
  <2>8. QED
    BY <2>3, <2>5, <2>6, <2>7 DEF CounterInv
<1>13. QED
  BY <1>1, <1>11, <1>12, NextTick

LEMMA SweepCounter ==
  ASSUME TInv, NEW k \in CounterKeys, CounterInv(k), SweepShard
  PROVE  CounterInv(k)'
<1>1. /\ k \in Keys /\ now \in Nat
      /\ data[k] \in Entry \cup {NoEntry}
      /\ data[k] # NoEntry => data[k].windowNum \in Nat
  BY CounterFacts
<1>2. UNCHANGED <<now, admitted, before>>
  BY DEF SweepShard, ledger
<1>3. data[k] # NoEntry => OutlivesBoth(data[k], now)
  BY DEF CounterInv, OutlivesNextWindow
<1>4. CASE data'[k] = data[k]
  <2>1. Tally(k)' = Tally(k) /\ Before(k)' = Before(k)
    BY <1>2, <1>4 DEF Tally, Before
  <2>2. QED
    BY <1>2, <1>3, <1>4, <2>1, SameCounts
<1>5. CASE data'[k] # data[k]
  <2>1. data'[k] = NoEntry /\ data[k] # NoEntry /\ sweepAt > data[k].expiresAt
    BY <1>1, <1>5 DEF SweepShard
  <2>2. now > data[k].expiresAt
    <3>1. sweepAt <= now /\ sweepAt \in Nat
      BY LedgerAssumption DEF TInv, StoreTypeOK, Times
    <3>2. data[k].expiresAt \in Int
      BY <1>1, <2>1 DEF Entry, Never
    <3>3. QED
      BY <1>1, <2>1, <3>1, <3>2
  <2>3. Missing(data[k], now) /\ Missing(NoEntry, now)
    BY <2>2 DEF Missing
  <2>4. Tally(k) = 0 /\ Before(k) = 0
    BY <2>3, Zenon DEF Tally, Before, CountIn, PreviousIn
  <2>5. Tally(k)' = 0 /\ Before(k)' = 0
    <3>1. /\ Tally(k)' = CountIn(NoEntry, now, WindowNum(now))
          /\ Before(k)' = PreviousIn(NoEntry, now, WindowNum(now))
      BY <1>2, <2>1 DEF Tally, Before
    <3>2. QED
      BY <2>3, <3>1, Zenon DEF CountIn, PreviousIn
  <2>6. QED
    BY <1>2, <2>1, <2>4, <2>5, SameCounts
<1>6. QED
  BY <1>4, <1>5

LEMMA ResetCounter ==
  ASSUME TInv, NEW k \in CounterKeys, Reset(k)
  PROVE  CounterInv(k)'
<1>1. /\ k \in Keys /\ now \in Nat /\ \A s \in 0..now : s \in Times
      /\ admitted \in [Keys -> Nat] /\ before \in [Keys -> [Times -> Nat]]
      /\ data \in [Keys -> Entry \cup {NoEntry}]
      /\ WindowStart(now) \in 0..now
  BY CounterFacts
<1>2. /\ now' = now /\ data'[k] = NoEntry /\ admitted'[k] = 0
      /\ \A s \in 0..now : before'[k][s] = 0
  BY <1>1 DEF Reset, Forget
<1>3. Tally(k)' = 0 /\ Before(k)' = 0
  <2>1. Missing(NoEntry, now)
    BY DEF Missing
  <2>2. /\ Tally(k)' = CountIn(NoEntry, now, WindowNum(now))
        /\ Before(k)' = PreviousIn(NoEntry, now, WindowNum(now))
    BY <1>2 DEF Tally, Before
  <2>3. QED
    BY <2>1, <2>2, Zenon DEF CountIn, PreviousIn
<1>4. Tallied(k)' /\ OutlivesNextWindow(k)' /\ WeighedWithin(k)'
  BY <1>1, <1>2, <1>3 DEF Tallied, OutlivesNextWindow, WeighedWithin, Since
<1>5. PreviousTallied(k)'
  <2>1. WindowNum(now) # 0 => WindowStart(now) - Span \in 0..now
    BY <1>1, EarlierWindow
  <2>2. QED
    BY <1>1, <1>2, <1>3, <2>1 DEF PreviousTallied, Since
<1>6. QED
  BY <1>4, <1>5 DEF CounterInv

\* A call adds to the tally what it adds to the ledger, and is admitted or
\* refused by the cut share of the previous window.
LEMMA AllowCounter ==
  ASSUME SmallCounts, WholeMillis, TInv, NEW k \in CounterKeys, CounterInv(k),
         NEW n \in Costs, NEW d, Decided(k, n, d)
  PROVE  /\ CounterInv(k)'
         /\ reply' = [key |-> k, n |-> n, allowed |-> d.allowed]
         /\ d.allowed \in BOOLEAN
         /\ d.allowed => Before(k) * Left(now) + (Tally(k) + n) * SpanMs < (Limit + 1) * SpanMs
              \/ (/\ Passed(now) > 0
                  /\ Before(k) * Left(now) + (Tally(k) + n) * SpanMs = (Limit + 1) * SpanMs)
         /\ ~ d.allowed =>
              ~ (Before(k) * Left(now) + (Tally(k) + n) * SpanMs < (Limit + 1) * SpanMs)
<1>1. /\ k \in Keys /\ now \in Nat /\ n \in Nat /\ \A s \in 0..now : s \in Times
      /\ admitted \in [Keys -> Nat] /\ before \in [Keys -> [Times -> Nat]]
      /\ data \in [Keys -> Entry \cup {NoEntry}] /\ data[k] \in Entry \cup {NoEntry}
      /\ data[k] # NoEntry => data[k].count \in 0..Limit /\ data[k].prevCount \in 0..Limit
      /\ Tally(k) \in 0..Limit /\ Before(k) \in 0..Limit
      /\ Limit \in Nat /\ Span \in Nat \ {0}
      /\ WindowNum(now) \in Nat /\ WindowStart(now) \in 0..now
  BY CounterFacts, LedgerAssumption
<1> DEFINE x == Tally(k)
           y == Before(k)
           e == d.entry
<1>2. /\ data' = [data EXCEPT ![k] = e]
      /\ d.allowed \in BOOLEAN
      /\ IF d.allowed THEN Admit(k, n) ELSE Refuse(k, n)
  BY DEF Decided, Answer
<1>3. PICK slip \in Slips(Counters(data[k], now).prevCount, now) :
        d = DecideSlidingCounter(data[k], now, n, slip)
  BY DEF Decided
<1> DEFINE share == (y * Left(now)) \div SpanMs - slip
<1>4. /\ slip \in Slips(y, now)
      /\ d.allowed = (share + x + n <= Limit)
      /\ e \in Entry
      /\ e.count = IF share + x + n <= Limit THEN x + n ELSE x
      /\ e.prevCount = y
      /\ e.windowNum = WindowNum(now)
      /\ e.expiresAt = WindowEnd(now) + Window
  <2> DEFINE g == DecideSlidingCounter(data[k], now, n, slip)
  <2>1. /\ slip \in Slips(y, now)
        /\ g.allowed = (share + x + n <= Limit)
        /\ g.entry \in Entry
        /\ g.entry.count = IF share + x + n <= Limit THEN x + n ELSE x
        /\ g.entry.prevCount = y
        /\ g.entry.windowNum = WindowNum(now)
        /\ g.entry.expiresAt = WindowEnd(now) + Window
    <3>1. /\ now \in Nat /\ data[k] \in Entry \cup {NoEntry}
          /\ slip \in Slips(Counters(data[k], now).prevCount, now)
          /\ data[k] # NoEntry => data[k].count \in 0..Limit /\ data[k].prevCount \in 0..Limit
      BY <1>1, <1>3
    <3>2. QED
      BY <3>1, CounterDecision DEF Tally, Before
  <2>2. d = g
    BY <1>3
  <2> HIDE DEF g, x, y, share
  <2>3. QED
    BY <2>1, <2>2
<1>5. data'[k] = e /\ e # NoEntry
  BY <1>1, <1>2, <1>4, StoreAssumption
<1>6. OutlivesBoth(e, now)
  <2>1. /\ WindowEnd(now) = (WindowNum(now) + 1) * Span
        /\ WindowNum(now) \in Nat /\ Window \in Nat
    BY <1>1, InWindow, WindowAssumption
  <2>2. (WindowNum(now) + 2) * Span = (WindowNum(now) + 1) * Span + Span
        /\ (WindowNum(now) + 1) * Span \in Nat
    BY <1>1, <2>1
  <2>3. Span <= Window
    <3>1. /\ Window \in Nat \ {0} /\ Milli \in Nat \ {0} /\ Milli <= Window
          /\ Window \div Milli \in Nat
          /\ Milli * (Window \div Milli) <= Window
      BY WindowAssumption, Division DEF WholeMillis
    <3>2. CASE Window \div Milli = 0
      BY <3>1, <3>2 DEF Span, SpanMs
    <3>3. CASE Window \div Milli # 0
      <4>1. Span = (Window \div Milli) * Milli
        BY <3>3 DEF Span, SpanMs
      <4>2. (Window \div Milli) * Milli = Milli * (Window \div Milli)
        BY <3>1
      <4>3. QED
        BY <3>1, <4>1, <4>2
    <3>4. QED
      BY <3>2, <3>3
  <2>4. e.expiresAt >= (WindowNum(now) + 2) * Span
    BY <1>1, <1>4, <2>1, <2>2, <2>3
  <2>5. QED
    BY <1>1, <1>4, <2>4 DEF OutlivesBoth
<1>7. /\ now' = now /\ before' = before
      /\ reply' = [key |-> k, n |-> n, allowed |-> d.allowed]
      /\ admitted'[k] = IF d.allowed THEN admitted[k] + n ELSE admitted[k]
  <2>1. CASE d.allowed
    BY <1>1, <1>2, <2>1 DEF Admit
  <2>2. CASE ~ d.allowed
    BY <1>1, <1>2, <2>2 DEF Refuse
  <2>3. QED
    BY <2>1, <2>2
<1>8. /\ Tally(k)' = IF d.allowed THEN x + n ELSE x
      /\ Before(k)' = y
  <2>1. Tally(k)' = CountIn(e, now, WindowNum(now))
        /\ Before(k)' = PreviousIn(e, now, WindowNum(now))
    BY <1>5, <1>7 DEF Tally, Before
  <2>2. e.expiresAt >= (e.windowNum + 2) * Span
    BY <1>6 DEF OutlivesBoth
  <2> HIDE DEF e, x, y, share
  <2>3. CountIn(e, now, WindowNum(now)) = e.count
        /\ PreviousIn(e, now, WindowNum(now)) = e.prevCount
    BY <1>1, <1>4, <1>5, <2>2, CountsAlive
  <2>4. e.count = IF d.allowed THEN x + n ELSE x
    BY <1>4, Zenon
  <2>5. QED
    BY <1>4, <2>1, <2>3, <2>4, Zenon
\* The arithmetic of the cut.
<1>9. x \in Nat /\ y \in Nat /\ x + n \in Nat /\ share \in Nat
  <2>1. x \in Nat /\ y \in Nat /\ x + n \in Nat
    BY <1>1
  <2> HIDE DEF x, y
  <2>2. QED
    BY <1>1, <1>4, <2>1, ShareCut
<1> DEFINE estimate == y * Left(now) + (x + n) * SpanMs
           most == (Limit + 1) * SpanMs
<1>10. /\ share + (x + n) <= Limit =>
            /\ estimate <= most
            /\ estimate < most \/ (Passed(now) > 0 /\ estimate = most)
       /\ ~ (share + (x + n) <= Limit) => ~ (estimate < most)
  <2> HIDE DEF x, y
  <2>1. QED
    BY <1>1, <1>4, <1>9, ShareDecides
<1> HIDE DEF x, y, e
<1>11. d.allowed = (share + (x + n) <= Limit)
  <2> HIDE DEF share
  <2>1. share + x + n = share + (x + n)
    BY <1>1, <1>9
  <2>2. QED
    BY <1>4, <2>1, Zenon
<1> HIDE DEF share, most, estimate
<1>12. /\ d.allowed => estimate <= most
       /\ d.allowed => estimate < most \/ (Passed(now) > 0 /\ estimate = most)
       /\ ~ d.allowed => ~ (estimate < most)
  BY <1>10, <1>11, Zenon
<1>13. Tallied(k)'
  <2> DEFINE a == admitted[k]
             b == before[k][WindowStart(now)]
  <2>1. a \in Nat /\ b \in Nat /\ n \in Nat
    BY <1>1
  <2>2. a - b = x
    BY DEF CounterInv, Tallied, Since, x
  <2>3. /\ admitted'[k] = IF d.allowed THEN a + n ELSE a
        /\ Tallied(k)' <=> admitted'[k] - b = Tally(k)'
    BY <1>7 DEF Tallied, Since
  <2> HIDE DEF a, b
  <2>4. (a + n) - b = x + n
    BY <1>9, <2>1, <2>2
  <2>5. QED
    BY <1>8, <2>1, <2>2, <2>3, <2>4
<1>14. PreviousTallied(k)'
  <2> DEFINE s == WindowStart(now)
             r == WindowStart(now) - Span
  <2>1. (IF WindowNum(now) = 0 THEN 0
         ELSE (admitted[k] - before[k][r]) - (admitted[k] - before[k][s])) = y
    BY DEF CounterInv, PreviousTallied, Since, y
  <2>2. PreviousTallied(k)' <=>
          (IF WindowNum(now) = 0 THEN 0
           ELSE (admitted'[k] - before[k][r]) - (admitted'[k] - before[k][s])) = y
    BY <1>7, <1>8 DEF PreviousTallied, Since
  <2>3. CASE WindowNum(now) = 0
    BY <2>1, <2>2, <2>3
  <2>4. CASE WindowNum(now) # 0
    <3>1. r \in 0..now /\ s \in 0..now
      BY <1>1, <2>4, EarlierWindow
    <3>2. before[k][r] \in Nat /\ before[k][s] \in Nat /\ admitted[k] \in Nat
          /\ admitted'[k] \in Nat
      BY <1>1, <1>7, <3>1
    <3> DEFINE a == admitted[k]
               c == admitted'[k]
               b(t) == before[k][t]
    <3> HIDE DEF r, s
    <3>3. (a - b(r)) - (a - b(s)) = (c - b(r)) - (c - b(s))
      BY <3>2
    <3>4. QED
      BY <2>1, <2>2, <2>4, <3>3
  <2>5. QED
    BY <2>3, <2>4
<1>15. OutlivesNextWindow(k)'
  BY <1>5, <1>6, <1>7 DEF OutlivesNextWindow, OutlivesBoth
<1>16. WeighedWithin(k)'
  <2>1. WeighedWithin(k)' <=>
          (Tally(k)' > 0 => y * Left(now) + Tally(k)' * SpanMs <= most)
    BY <1>7, <1>8 DEF WeighedWithin, most
  <2>2. CASE d.allowed
    <3>1. Tally(k)' = x + n /\ estimate <= most
      BY <1>8, <1>12, <2>2
    <3>2. QED
      BY <2>1, <3>1 DEF estimate
  <2>3. CASE ~ d.allowed
    <3>1. Tally(k)' = x
      BY <1>8, <2>3
    <3>2. x > 0 => y * Left(now) + x * SpanMs <= most
      BY DEF CounterInv, WeighedWithin, x, y, most
    <3>3. QED
      BY <2>1, <3>1, <3>2
  <2>4. QED
    BY <2>2, <2>3
<1>17. CounterInv(k)'
  BY <1>13, <1>14, <1>15, <1>16 DEF CounterInv
<1>18. QED
  BY <1>2, <1>7, <1>12, <1>17, Zenon DEF x, y, estimate, most

\* The policy's estimate, in terms of what the entry counts.
LEMMA CounterEstimate ==
  ASSUME TInv, NEW k \in CounterKeys, CounterInv(k), NEW n
  PROVE  /\ Estimate(Usage(k), now, n) = Before(k) * Left(now) + (Tally(k) + n) * SpanMs
         /\ Usage(k)[WindowStart(now)] = Tally(k)
<1>1. now \in Nat /\ WindowStart(now) \in 0..now
  BY CounterFacts
<1>2. Usage(k)[WindowStart(now)] = Tally(k)
  BY <1>1 DEF Usage, CounterInv, Tallied
<1>3. PreviousUse(Usage(k), now) = Before(k)
  <2>1. WindowNum(now) # 0 => WindowStart(now) - Span \in 0..now
    BY <1>1, EarlierWindow
  <2>2. WindowNum(now) # 0 =>
          /\ Usage(k)[WindowStart(now)] = Since(k, WindowStart(now))
          /\ Usage(k)[WindowStart(now) - Span] = Since(k, WindowStart(now) - Span)
    BY <1>1, <2>1 DEF Usage
  <2>3. (IF WindowNum(now) = 0 THEN 0
         ELSE Since(k, WindowStart(now) - Span) - Since(k, WindowStart(now))) = Before(k)
    BY Zenon DEF CounterInv, PreviousTallied
  <2>4. QED
    BY <2>2, <2>3, Zenon DEF PreviousUse
<1>4. QED
  BY <1>2, <1>3, Zenon DEF Estimate

\* What a call of a counter key is answered fits the policy.
LEMMA CounterFitsPolicy ==
  ASSUME SmallCounts, WholeMillis, TInv, NEW k \in CounterKeys, CounterInv(k),
         NEW n \in Costs, NEW d, Decided(k, n, d)
  PROVE  /\ d.allowed => MayFitEstimate(Usage(k), now, n)
         /\ ~ d.allowed => ~ MustFitEstimate(Usage(k), now, n)
<1> DEFINE estimate == Before(k) * Left(now) + (Tally(k) + n) * SpanMs
<1>1. Estimate(Usage(k), now, n) = estimate
  BY CounterEstimate
<1>2. /\ d.allowed => estimate < (Limit + 1) * SpanMs
           \/ (Passed(now) > 0 /\ estimate = (Limit + 1) * SpanMs)
      /\ ~ d.allowed => ~ (estimate < (Limit + 1) * SpanMs)
  BY AllowCounter
<1> HIDE DEF estimate
<1>3. QED
  BY <1>1, <1>2, Zenon DEF MayFitEstimate, MustFitEstimate

LEMMA CInvInit ==
  ASSUME StoreInit
  PROVE  CInv
<1>1. TInv
  BY TInvInit
<1>2. ASSUME NEW k \in CounterKeys
      PROVE  CounterInv(k)
  <2>1. /\ now = 0 /\ data[k] = NoEntry /\ admitted[k] = 0
        /\ \A s \in 0..now : before[k][s] = 0
    BY LedgerAssumption, KindsApart DEF StoreInit, LedgerInit, Times
  <2>2. WindowStart(now) \in 0..now /\ now \in Nat
    BY <1>1, CounterFacts
  <2>3. Missing(data[k], now)
    BY <2>1 DEF Missing
  <2>4. Tally(k) = 0 /\ Before(k) = 0
    BY <2>3, Zenon DEF Tally, Before, CountIn, PreviousIn
  <2>5. Tallied(k) /\ OutlivesNextWindow(k) /\ WeighedWithin(k)
    BY <2>1, <2>2, <2>4 DEF Tallied, OutlivesNextWindow, WeighedWithin, Since
  <2>6. PreviousTallied(k)
    <3>1. WindowNum(now) # 0 => WindowStart(now) - Span \in 0..now
      BY <2>2, EarlierWindow
    <3>2. QED
      BY <2>1, <2>2, <2>4, <3>1 DEF PreviousTallied, Since
  <2>7. QED
    BY <2>5, <2>6 DEF CounterInv
<1>3. QED
  BY <1>1, <1>2 DEF CInv

LEMMA CInvStep ==
  ASSUME SmallCounts, WholeMillis, CInv, [Next]_vars
  PROVE  CInv'
<1>1. TInv /\ TInv'
  BY TInvStep DEF CInv
<1>2. ASSUME NEW k \in CounterKeys
      PROVE  CounterInv(k)'
  <2>1. /\ k \in Keys /\ CounterInv(k)
        /\ admitted \in [Keys -> Nat] /\ data \in [Keys -> Entry \cup {NoEntry}]
        /\ before \in [Keys -> [Times -> Nat]]
    BY <1>1, CounterFacts DEF CInv
  <2>2. data[k] # NoEntry => OutlivesBoth(data[k], now)
    BY <2>1 DEF CounterInv, OutlivesNextWindow
  <2>3. ASSUME UNCHANGED now, admitted'[k] = admitted[k], before'[k] = before[k],
               data'[k] = data[k]
        PROVE  CounterInv(k)'
    <3>1. Tally(k)' = Tally(k) /\ Before(k)' = Before(k)
      BY <2>3 DEF Tally, Before
    <3>2. QED
      BY <2>1, <2>2, <2>3, <3>1, SameCounts
  <2>4. CASE UNCHANGED vars \/ BeginSweep
    BY <2>3, <2>4 DEF vars, ledger, store, BeginSweep
  <2>5. CASE Tick
    BY <1>1, <2>1, <2>5, TickCounter
  <2>6. CASE SweepShard
    BY <1>1, <2>1, <2>6, SweepCounter
  <2>7. ASSUME NEW j \in Keys, Allow(j)
        PROVE  CounterInv(k)'
    <3>1. PICK n \in Costs : \E d : Decided(j, n, d)
      BY <1>1, <2>7, AllowDecides
    <3>2. PICK d : Decided(j, n, d)
      BY <3>1
    <3>3. CASE j = k
      <4>1. Decided(k, n, d)
        BY <3>2, <3>3
      <4>2. QED
        BY <1>1, <2>1, <4>1, AllowCounter
    <3>4. CASE j # k
      <4>1. /\ data' = [data EXCEPT ![j] = d.entry]
            /\ Admit(j, n) \/ Refuse(j, n)
        BY <3>2 DEF Decided, Answer
      <4>2. UNCHANGED now /\ admitted'[k] = admitted[k] /\ before'[k] = before[k]
        BY <2>1, <3>4, <4>1 DEF Admit, Refuse
      <4>3. data'[k] = data[k]
        BY <2>1, <3>4, <4>1
      <4>4. QED
        BY <2>3, <4>2, <4>3
    <3>5. QED
      BY <3>3, <3>4
  <2>8. ASSUME NEW j \in Keys, Reset(j)
        PROVE  CounterInv(k)'
    <3>1. CASE j = k
      <4>1. Reset(k)
        BY <2>8, <3>1
      <4>2. QED
        BY <1>1, <4>1, ResetCounter
    <3>2. CASE j # k
      <4>1. /\ UNCHANGED now /\ admitted'[k] = admitted[k] /\ before'[k] = before[k]
            /\ data'[k] = data[k]
        BY <2>1, <2>8, <3>2 DEF Reset, Forget
      <4>2. QED
        BY <2>3, <4>1
    <3>3. QED
      BY <3>1, <3>2
  <2>9. QED
    BY <2>4, <2>5, <2>6, <2>7, <2>8 DEF Next, Background
<1>3. QED
  BY <1>1, <1>2 DEF CInv

\* A window never admits more than the limit together with the share of the
\* previous window that has not slid out, up to one unit lost to the cut
\* (memory.go:332-342), for any interleaving of calls with resets, expiry and
\* cleanup.
THEOREM SmoothBoundaryKept ==
  ASSUME SmallCounts, WholeMillis
  PROVE  Spec => []SmoothBoundary
<1>1. StoreInit => CInv
  BY CInvInit
<1>2. CInv /\ [Next]_vars => CInv'
  BY CInvStep
<1>3. ASSUME CInv
      PROVE  SmoothBoundary
  <2> SUFFICES ASSUME NEW k \in CounterKeys, Usage(k)[WindowStart(now)] > 0
               PROVE  Estimate(Usage(k), now, 0) <= (Limit + 1) * SpanMs
    BY DEF SmoothBoundary
  <2>1. TInv /\ CounterInv(k) /\ Tally(k) \in Nat
    <3>1. TInv /\ CounterInv(k)
      BY <1>3 DEF CInv
    <3>2. QED
      BY <3>1, CounterFacts
  <2>2. Estimate(Usage(k), now, 0) = Before(k) * Left(now) + (Tally(k) + 0) * SpanMs
        /\ Usage(k)[WindowStart(now)] = Tally(k)
    BY <2>1, CounterEstimate
  <2>3. Tally(k) + 0 = Tally(k) /\ Tally(k) > 0
    BY <2>1, <2>2
  <2>4. Before(k) * Left(now) + Tally(k) * SpanMs <= (Limit + 1) * SpanMs
    BY <2>1, <2>3 DEF CounterInv, WeighedWithin
  <2>5. QED
    BY <2>2, <2>3, <2>4
<1>4. QED
  BY <1>1, <1>2, <1>3, PTL DEF Spec

-----------------------------------------------------------------------------
(* The sliding window log *)

\* A log outlives the window that it is for.  A shorter time to live makes the
\* store forget what is still in the window (run MemoryLogTTL).
LongLog == Window <= TTL + 1

\* The log of key k, nothing of it removed.
Kept(k) == Log(data[k], now).requests

\* In log q, the times from s on are the last m ones.
Parts(q, s, m) ==
  \E c \in 0..Len(q) : /\ m = Len(q) - c
                       /\ \A i \in 1..c : q[i] < s
                       /\ \A i \in (c + 1)..Len(q) : q[i] >= s

\* The log has what the ledger has of every span within the window.
LogTallied(k) == \A s \in 0..now : s > now - Window => Parts(Kept(k), s, Since(k, s))

\* An entry lives for TTL after each time in its log.
Dated(e, at) ==
  \A i \in 1..Len(e.requests) : e.requests[i] <= at /\ e.requests[i] + TTL <= e.expiresAt

LogDated(k) == data[k] # NoEntry => Dated(data[k], now)

LogInv(k) == LogTallied(k) /\ LogDated(k)

LInv == TInv /\ \A k \in LogKeys : LogInv(k)

LEMMA PartsWithin ==
  ASSUME NEW q \in Seq(Nat), NEW s, NEW m, Parts(q, s, m)
  PROVE  m \in 0..Len(q)
BY DEF Parts

\* Of a log whose times are all earlier than s, none is from s on.
LEMMA PartsOfOld ==
  ASSUME NEW q \in Seq(Nat), NEW s \in Int, NEW m, Parts(q, s, m),
         \A i \in 1..Len(q) : q[i] < s
  PROVE  m = 0
<1>1. PICK c \in 0..Len(q) : m = Len(q) - c /\ \A i \in (c + 1)..Len(q) : q[i] >= s
  BY DEF Parts
<1>2. Len(q) \in Nat /\ \A i \in 1..Len(q) : q[i] \in Nat
  OBVIOUS
<1>3. CASE c < Len(q)
  <2>1. c + 1 \in (c + 1)..Len(q) /\ c + 1 \in 1..Len(q)
    BY <1>2, <1>3
  <2>2. q[c + 1] >= s /\ q[c + 1] < s /\ q[c + 1] \in Nat
    BY <1>1, <1>2, <2>1
  <2>3. QED
    BY <2>2
<1>4. QED
  BY <1>1, <1>2, <1>3

\* The end of a log is a log, of times of the log.
LEMMA RecentLog ==
  ASSUME NEW q \in Seq(Nat), NEW from \in Int
  PROVE  LET c == Cutoff(q, from)
         IN  /\ c \in 0..Len(q)
             /\ Recent(q, from) \in Seq(Nat)
             /\ Len(Recent(q, from)) = Len(q) - c
             /\ \A i \in 1..(Len(q) - c) : Recent(q, from)[i] = q[i + c]
<1> DEFINE c == Cutoff(q, from)
<1>1. c \in 0..Len(q)
  BY CutoffExists
<1> HIDE DEF c
<1>2. /\ SubSeq(q, c + 1, Len(q)) \in Seq(Nat)
      /\ Len(SubSeq(q, c + 1, Len(q))) = Len(q) - c
      /\ \A i \in 1..(Len(q) - c) : SubSeq(q, c + 1, Len(q))[i] = q[i + c]
  <2> DEFINE m == c + 1
             l == Len(q)
             r == SubSeq(q, m, l)
  <2>1. /\ l \in Nat /\ m \in Int /\ m = c + 1 /\ c \in 0..l
        /\ \A i \in m..l : q[i] \in Nat
    BY <1>1
  <2> HIDE DEF m, l
  <2>2. /\ r \in Seq(Nat)
        /\ Len(r) = IF m <= l THEN l - m + 1 ELSE 0
        /\ \A i \in 1..(l - m + 1) : r[i] = q[m + i - 1]
    BY <2>1, SubSeqProperties
  <2> HIDE DEF r
  <2>3. Len(r) = l - c /\ l - m + 1 = l - c
    BY <2>1, <2>2
  <2>4. \A i \in 1..(l - c) : m + i - 1 = i + c
    BY <2>1
  <2>5. \A i \in 1..(l - c) : r[i] = q[i + c]
    BY <2>2, <2>3, <2>4
  <2>6. QED
    BY <2>2, <2>3, <2>5 DEF r, m, l
<1>3. Recent(q, from) = SubSeq(q, c + 1, Len(q))
  BY DEF Recent, c
<1>4. QED
  BY <1>1, <1>2, <1>3 DEF c

\* Removing old times does not change what is from s on.
LEMMA PartsOfRecent ==
  ASSUME NEW q \in Seq(Nat), NEW from \in Int, NEW s \in Int, s > from, NEW m,
         Parts(q, s, m)
  PROVE  Parts(Recent(q, from), s, m)
<1> DEFINE r == Recent(q, from)
           cut == Cutoff(q, from)
<1>1. /\ cut \in 0..Len(q) /\ r \in Seq(Nat) /\ Len(r) = Len(q) - cut
      /\ \A i \in 1..(Len(q) - cut) : r[i] = q[i + cut]
  BY RecentLog
<1>2. \A i \in 1..cut : q[i] <= from
  BY CutoffExists
<1>3. PICK c \in 0..Len(q) : /\ m = Len(q) - c
                             /\ \A i \in 1..c : q[i] < s
                             /\ \A i \in (c + 1)..Len(q) : q[i] >= s
  BY DEF Parts
<1>4. Len(q) \in Nat /\ \A i \in 1..Len(q) : q[i] \in Nat
  OBVIOUS
<1> HIDE DEF r, cut
<1>5. cut <= c
  <2> SUFFICES ASSUME c < cut
               PROVE  FALSE
    BY <1>1, <1>3
  <2>1. c + 1 \in 1..cut /\ c + 1 \in (c + 1)..Len(q) /\ c + 1 \in 1..Len(q)
    BY <1>1, <1>3, <1>4
  <2>2. q[c + 1] <= from /\ q[c + 1] >= s /\ q[c + 1] \in Nat
    BY <1>2, <1>3, <1>4, <2>1
  <2>3. QED
    BY <2>2
<1> DEFINE e == c - cut
<1>6. e \in 0..Len(r) /\ m = Len(r) - e
  BY <1>1, <1>3, <1>4, <1>5
<1>7. \A i \in 1..e : r[i] < s
  <2> SUFFICES ASSUME NEW i \in 1..e
               PROVE  r[i] < s
    OBVIOUS
  <2>1. i \in 1..(Len(q) - cut) /\ i + cut \in 1..c
    BY <1>1, <1>3, <1>4
  <2>2. QED
    BY <1>1, <1>3, <2>1
<1>8. \A i \in (e + 1)..Len(r) : r[i] >= s
  <2> SUFFICES ASSUME NEW i \in (e + 1)..Len(r)
               PROVE  r[i] >= s
    OBVIOUS
  <2>1. i \in 1..(Len(q) - cut) /\ i + cut \in (c + 1)..Len(q)
    BY <1>1, <1>3, <1>4, <1>6
  <2>2. QED
    BY <1>1, <1>3, <2>1
<1> HIDE DEF e
<1>9. Parts(r, s, m)
  BY <1>6, <1>7, <1>8 DEF Parts
<1>10. QED
  BY <1>9 DEF r

\* A log of which only the times in the window are left has the use of the
\* window as its length.
LEMMA PartsOfAll ==
  ASSUME NEW q \in Seq(Nat), NEW from \in Int, NEW s \in Int, NEW m,
         \A t \in Nat : t > from => t >= s,
         Parts(Recent(q, from), s, m)
  PROVE  m = Len(Recent(q, from))
<1> DEFINE r == Recent(q, from)
           cut == Cutoff(q, from)
<1>1. /\ cut \in 0..Len(q) /\ r \in Seq(Nat) /\ Len(r) = Len(q) - cut
      /\ \A i \in 1..(Len(q) - cut) : r[i] = q[i + cut]
  BY RecentLog
<1>2. cut < Len(q) => q[cut + 1] > from
  BY CutoffExists
<1>3. PICK c \in 0..Len(r) : m = Len(r) - c /\ \A i \in 1..c : r[i] < s
  BY DEF Parts
<1>4. Len(q) \in Nat /\ \A i \in 1..Len(q) : q[i] \in Nat
  OBVIOUS
<1> HIDE DEF r, cut
<1>5. c = 0
  <2> SUFFICES ASSUME c > 0
               PROVE  FALSE
    BY <1>1, <1>3, <1>4
  <2>1. 1 \in 1..c /\ 1 \in 1..(Len(q) - cut) /\ cut + 1 \in 1..Len(q) /\ cut < Len(q)
        /\ 1 + cut = cut + 1
    BY <1>1, <1>3, <1>4
  <2>2. r[1] < s /\ r[1] = q[cut + 1] /\ q[cut + 1] \in Nat /\ q[cut + 1] > from
    BY <1>1, <1>2, <1>3, <1>4, <2>1
  <2>3. QED
    BY <2>2
<1>6. m = Len(r)
  BY <1>1, <1>3, <1>4, <1>5
<1>7. QED
  BY <1>6 DEF r

LEMMA LogAndMore ==
  ASSUME NEW q \in Seq(Nat), NEW x \in Seq(Nat), NEW n \in Nat, Len(x) = n
  PROVE  /\ q \o x \in Seq(Nat) /\ Len(q \o x) = Len(q) + n /\ Len(q) \in Nat
         /\ \A i \in 1..Len(q \o x) :
              (q \o x)[i] = IF i <= Len(q) THEN q[i] ELSE x[i - Len(q)]
OBVIOUS

\* What is admitted now is from s on.
LEMMA PartsWithMore ==
  ASSUME NEW q \in Seq(Nat), NEW s \in Int, NEW at \in Nat, at >= s, NEW n \in Nat, NEW m,
         Parts(q, s, m)
  PROVE  Parts(q \o Copies(n, at), s, m + n)
<1> DEFINE x == Copies(n, at)
           r == q \o x
<1>1. x \in Seq(Nat) /\ Len(x) = n /\ \A i \in 1..n : x[i] = at
  BY DEF Copies
<1> HIDE DEF x
<1>2. /\ r \in Seq(Nat) /\ Len(r) = Len(q) + n /\ Len(q) \in Nat
      /\ \A i \in 1..Len(r) : r[i] = IF i <= Len(q) THEN q[i] ELSE x[i - Len(q)]
  BY <1>1
<1>3. PICK c \in 0..Len(q) : /\ m = Len(q) - c
                             /\ \A i \in 1..c : q[i] < s
                             /\ \A i \in (c + 1)..Len(q) : q[i] >= s
  BY DEF Parts
<1> HIDE DEF r
<1>4. c \in 0..Len(r) /\ m + n = Len(r) - c
  BY <1>2, <1>3
<1>5. \A i \in 1..c : r[i] < s
  <2> SUFFICES ASSUME NEW i \in 1..c
               PROVE  r[i] < s
    OBVIOUS
  <2>1. i \in 1..Len(r) /\ i <= Len(q)
    BY <1>2, <1>3
  <2>2. QED
    BY <1>2, <1>3, <2>1
<1>6. \A i \in (c + 1)..Len(r) : r[i] >= s
  <2> SUFFICES ASSUME NEW i \in (c + 1)..Len(r)
               PROVE  r[i] >= s
    OBVIOUS
  <2>1. i \in 1..Len(r) /\ i \in Int
    BY <1>2, <1>3
  <2>2. CASE i <= Len(q)
    <3>1. i \in (c + 1)..Len(q) /\ r[i] = q[i]
      BY <1>2, <1>3, <2>1, <2>2
    <3>2. QED
      BY <1>3, <3>1
  <2>3. CASE ~ (i <= Len(q))
    <3>1. i - Len(q) \in 1..n /\ r[i] = x[i - Len(q)]
      BY <1>2, <2>1, <2>3
    <3>2. r[i] = at
      BY <1>1, <3>1
    <3>3. QED
      BY <3>2
  <2>4. QED
    BY <2>2, <2>3
<1>7. Parts(r, s, m + n)
  BY <1>4, <1>5, <1>6 DEF Parts
<1>8. QED
  BY <1>7 DEF r, x

\* What is known of a log key in a state of the invariant.
LEMMA LogFacts ==
  ASSUME TInv, NEW k \in LogKeys
  PROVE  /\ k \in Keys
         /\ now \in Nat /\ \A s \in 0..now : s \in Times
         /\ admitted \in [Keys -> Nat] /\ before \in [Keys -> [Times -> Nat]]
         /\ data \in [Keys -> Entry \cup {NoEntry}] /\ data[k] \in Entry \cup {NoEntry}
         /\ data[k] # NoEntry =>
              /\ data[k] \in Entry /\ data[k].requests \in Seq(Nat)
              /\ data[k].expiresAt \in Int /\ Len(data[k].requests) <= Limit
         /\ Kept(k) = IF Missing(data[k], now) THEN << >> ELSE data[k].requests
         /\ Kept(k) \in Seq(Nat) /\ Len(Kept(k)) <= Limit
         /\ Limit \in Nat /\ Window \in Nat \ {0} /\ TTL \in Nat
<1>1. /\ k \in Keys
      /\ now \in Nat /\ \A s \in 0..now : s \in Times
      /\ admitted \in [Keys -> Nat] /\ before \in [Keys -> [Times -> Nat]]
      /\ data \in [Keys -> Entry \cup {NoEntry}] /\ data[k] \in Entry \cup {NoEntry}
  BY KindsApart, LedgerAssumption DEF TInv, StoreTypeOK, LedgerTypeOK, Times
<1>2. Limit \in Nat /\ Window \in Nat \ {0} /\ TTL \in Nat
  BY WindowAssumption, StoreAssumption
<1>3. data[k] # NoEntry =>
        /\ data[k] \in Entry /\ data[k].requests \in Seq(Nat)
        /\ data[k].expiresAt \in Int /\ Len(data[k].requests) <= Limit
  BY <1>1 DEF TInv, KindsOK, KindOK, Entry, Never
<1>4. Kept(k) = IF Missing(data[k], now) THEN << >> ELSE data[k].requests
  <2>1. CASE Missing(data[k], now)
    <3>1. Log(data[k], now) = [ZeroEntry EXCEPT !.lastUpd = now]
      BY <2>1 DEF Log
    <3>2. [ZeroEntry EXCEPT !.lastUpd = now].requests = << >>
      BY DEF ZeroEntry
    <3>3. QED
      BY <2>1, <3>1, <3>2, Zenon DEF Kept
  <2>2. CASE ~ Missing(data[k], now)
    BY <2>2, Zenon DEF Kept, Log
  <2>3. QED
    BY <2>1, <2>2
<1>5. Kept(k) \in Seq(Nat) /\ Len(Kept(k)) <= Limit
  <2>1. CASE Missing(data[k], now)
    BY <1>2, <1>4, <2>1
  <2>2. CASE ~ Missing(data[k], now)
    <3>1. data[k] # NoEntry
      BY <2>2 DEF Missing
    <3>2. QED
      BY <1>3, <1>4, <2>2, <3>1
  <2>3. QED
    BY <2>1, <2>2
<1>6. QED
  BY <1>1, <1>2, <1>3, <1>4, <1>5

\* A step after which a key has the same ledger and log.
LEMMA SameLog ==
  ASSUME NEW k, LogInv(k), UNCHANGED now,
         admitted'[k] = admitted[k], before'[k] = before[k], Kept(k)' = Kept(k),
         data'[k] # NoEntry => Dated(data'[k], now)
  PROVE  LogInv(k)'
<1>1. LogTallied(k)'
  <2>1. \A s \in 0..now : s > now - Window => Parts(Kept(k), s, Since(k, s))
    BY DEF LogInv, LogTallied
  <2>2. \A s : Since(k, s)' = Since(k, s)
    BY DEF Since
  <2>3. \A s : Parts(Kept(k), s, Since(k, s))' <=> Parts(Kept(k), s, Since(k, s))
    BY <2>2 DEF Parts
  <2>4. QED
    BY <2>1, <2>3 DEF LogTallied
<1>2. LogDated(k)'
  BY DEF LogDated, Dated
<1>3. QED
  BY <1>1, <1>2 DEF LogInv

\* A log that expires has no time left in the window.
LEMMA TickLog ==
  ASSUME LongLog, TInv, NEW k \in LogKeys, LogInv(k), Tick
  PROVE  LogInv(k)'
<1>1. /\ k \in Keys /\ now \in Nat /\ \A s \in 0..now : s \in Times
      /\ admitted \in [Keys -> Nat] /\ before \in [Keys -> [Times -> Nat]]
      /\ data[k] # NoEntry =>
           /\ data[k] \in Entry /\ data[k].requests \in Seq(Nat)
           /\ data[k].expiresAt \in Int
      /\ Kept(k) = IF Missing(data[k], now) THEN << >> ELSE data[k].requests
      /\ Kept(k) \in Seq(Nat)
      /\ Window \in Nat \ {0} /\ TTL \in Nat
  BY LogFacts
<1>2. /\ now' = now + 1 /\ admitted' = admitted /\ data' = data /\ now + 1 \in Times
      /\ before' = [j \in Keys |-> [before[j] EXCEPT ![now + 1] = admitted[j]]]
  BY <1>1, LedgerAssumption DEF Tick, AdvanceClock, store, Times
<1>3. /\ \A s \in 0..now : before'[k][s] = before[k][s]
      /\ before'[k][now + 1] = admitted[k]
  BY <1>1, <1>2
<1>4. data[k] # NoEntry => Dated(data[k], now)
  BY DEF LogInv, LogDated
<1>5. LogDated(k)'
  <2>1. data[k] # NoEntry => Dated(data[k], now + 1)
    <3> SUFFICES ASSUME data[k] # NoEntry, NEW i \in 1..Len(data[k].requests)
                 PROVE  /\ data[k].requests[i] <= now + 1
                        /\ data[k].requests[i] + TTL <= data[k].expiresAt
      BY DEF Dated
    <3>1. data[k].requests[i] <= now /\ data[k].requests[i] + TTL <= data[k].expiresAt
      BY <1>4 DEF Dated
    <3>2. data[k].requests[i] \in Nat
      BY <1>1
    <3>3. QED
      BY <1>1, <3>1, <3>2
  <2>2. QED
    BY <1>2, <2>1 DEF LogDated
<1>6. Kept(k)' = IF Missing(data[k], now + 1) THEN << >> ELSE data[k].requests
  <2>1. Kept(k)' = Log(data[k], now + 1).requests
    BY <1>2 DEF Kept
  <2>2. CASE Missing(data[k], now + 1)
    <3>1. Log(data[k], now + 1) = [ZeroEntry EXCEPT !.lastUpd = now + 1]
      BY <2>2 DEF Log
    <3>2. [ZeroEntry EXCEPT !.lastUpd = now + 1].requests = << >>
      BY DEF ZeroEntry
    <3>3. QED
      BY <2>1, <2>2, <3>1, <3>2, Zenon
  <2>3. CASE ~ Missing(data[k], now + 1)
    BY <2>1, <2>3, Zenon DEF Log
  <2>4. QED
    BY <2>2, <2>3
<1>7. Missing(data[k], now) => Missing(data[k], now + 1)
  BY <1>1 DEF Missing
<1>8. \A s \in 0..now : s > now - Window => Parts(Kept(k), s, Since(k, s))
  BY DEF LogInv, LogTallied
<1>9. ASSUME NEW s \in 0..(now + 1), s > (now + 1) - Window
      PROVE  Parts(Kept(k)', s, Since(k, s)')
  <2>1. Since(k, s)' = IF s = now + 1 THEN 0 ELSE Since(k, s)
    <3>1. Since(k, s)' = admitted[k] - before'[k][s]
      BY <1>2 DEF Since
    <3>2. CASE s = now + 1
      BY <1>1, <1>3, <3>1, <3>2
    <3>3. CASE s # now + 1
      <4>1. s \in 0..now
        BY <1>1, <3>3
      <4>2. QED
        BY <1>3, <3>1, <3>3, <4>1 DEF Since
    <3>4. QED
      BY <3>2, <3>3
  <2>2. s # now + 1 => s \in 0..now /\ s > now - Window /\ Parts(Kept(k), s, Since(k, s))
    BY <1>1, <1>8, <1>9
\* With times up to now, nothing is from the next tick on.
  <2>3. ASSUME NEW q \in Seq(Nat), \A i \in 1..Len(q) : q[i] < s
        PROVE  Parts(q, s, 0)
    <3>1. Len(q) \in 0..Len(q) /\ 0 = Len(q) - Len(q)
      BY <2>3
    <3>2. \A i \in (Len(q) + 1)..Len(q) : q[i] >= s
      BY <2>3
    <3>3. QED
      BY <2>3, <3>1, <3>2 DEF Parts
  <2>4. CASE Missing(data[k], now + 1)
    <3>1. Kept(k)' = << >>
      BY <1>6, <2>4
    <3>2. Since(k, s)' = 0
      <4>1. CASE s = now + 1
        BY <2>1, <4>1
      <4>2. CASE s # now + 1 /\ Missing(data[k], now)
        <5>1. Len(Kept(k)) = 0
          BY <1>1, <4>2
        <5>2. Since(k, s) \in 0..Len(Kept(k))
          BY <1>1, <2>2, <4>2, PartsWithin
        <5>3. QED
          BY <2>1, <4>2, <5>1, <5>2
      <4>3. CASE s # now + 1 /\ ~ Missing(data[k], now)
        <5>1. /\ data[k] # NoEntry /\ Kept(k) = data[k].requests
              /\ now + 1 > data[k].expiresAt
          BY <1>1, <2>4, <4>3 DEF Missing
        <5>2. \A i \in 1..Len(Kept(k)) : Kept(k)[i] < s
          <6> SUFFICES ASSUME NEW i \in 1..Len(Kept(k))
                       PROVE  Kept(k)[i] < s
            OBVIOUS
          <6>1. Kept(k)[i] + TTL <= data[k].expiresAt
            BY <1>4, <5>1 DEF Dated
          <6>2. Kept(k)[i] \in Nat
            BY <1>1
          <6>3. /\ data[k].expiresAt \in Int /\ Window <= TTL + 1
                /\ now \in Nat /\ Window \in Nat /\ TTL \in Nat /\ s \in Int
                /\ s > (now + 1) - Window
            BY <1>1, <1>9, <5>1 DEF LongLog
          <6> DEFINE t == Kept(k)[i]
                     x == data[k].expiresAt
          <6>4. t \in Nat /\ x \in Int /\ t + TTL <= x /\ now + 1 > x
            BY <5>1, <6>1, <6>2, <6>3
          <6> HIDE DEF t, x
          <6>5. t < s
            BY <6>3, <6>4
          <6>6. QED
            BY <6>5 DEF t
        <5>3. s \in Int
          OBVIOUS
        <5>4. Since(k, s) = 0
          BY <1>1, <2>2, <4>3, <5>2, <5>3, PartsOfOld
        <5>5. QED
          BY <2>1, <4>3, <5>4
      <4>4. QED
        BY <4>1, <4>2, <4>3
    <3>3. Parts(<< >>, s, 0)
      BY DEF Parts
    <3>4. QED
      BY <3>1, <3>2, <3>3, Zenon
  <2>5. CASE ~ Missing(data[k], now + 1)
    <3>1. Kept(k)' = Kept(k) /\ Kept(k) = data[k].requests /\ data[k] # NoEntry
      BY <1>1, <1>6, <1>7, <2>5 DEF Missing
    <3>2. CASE s # now + 1
      BY <2>1, <2>2, <3>1, <3>2
    <3>3. CASE s = now + 1
      <4>1. \A i \in 1..Len(Kept(k)) : Kept(k)[i] < s
        <5> SUFFICES ASSUME NEW i \in 1..Len(Kept(k))
                     PROVE  Kept(k)[i] < s
          OBVIOUS
        <5>1. Kept(k)[i] <= now
          BY <1>4, <3>1 DEF Dated
        <5>2. Kept(k)[i] \in Nat
          BY <1>1
        <5>3. QED
          BY <1>1, <3>3, <5>1, <5>2
      <4>2. Parts(Kept(k), s, 0)
        BY <1>1, <2>3, <4>1
      <4>3. QED
        BY <2>1, <3>1, <3>3, <4>2
    <3>4. QED
      BY <3>2, <3>3
  <2>6. QED
    BY <2>4, <2>5
<1>10. LogTallied(k)'
  BY <1>2, <1>9 DEF LogTallied
<1>11. QED
  BY <1>5, <1>10 DEF LogInv

LEMMA SweepLog ==
  ASSUME TInv, NEW k \in LogKeys, LogInv(k), SweepShard
  PROVE  LogInv(k)'
<1>1. /\ k \in Keys /\ now \in Nat
      /\ data[k] \in Entry \cup {NoEntry}
  BY LogFacts
<1>2. UNCHANGED <<now, admitted, before>>
  BY DEF SweepShard, ledger
<1>3. data[k] # NoEntry => Dated(data[k], now)
  BY DEF LogInv, LogDated
<1>4. Kept(k)' = Log(data'[k], now).requests
  BY <1>2 DEF Kept
<1>5. CASE data'[k] = data[k]
  <2>1. Kept(k)' = Kept(k)
    BY <1>4, <1>5 DEF Kept
  <2>2. QED
    BY <1>2, <1>3, <1>5, <2>1, SameLog
<1>6. CASE data'[k] # data[k]
  <2>1. data'[k] = NoEntry /\ data[k] # NoEntry /\ sweepAt > data[k].expiresAt
    BY <1>1, <1>6 DEF SweepShard
  <2>2. now > data[k].expiresAt
    <3>1. sweepAt <= now /\ sweepAt \in Nat
      BY LedgerAssumption DEF TInv, StoreTypeOK, Times
    <3>2. data[k].expiresAt \in Int
      BY <1>1, <2>1 DEF Entry, Never
    <3>3. QED
      BY <1>1, <2>1, <3>1, <3>2
  <2>3. Missing(data[k], now) /\ Missing(NoEntry, now)
    BY <2>2 DEF Missing
  <2>4. Log(data[k], now) = Log(NoEntry, now)
    BY <2>3, Zenon DEF Log
  <2>5. Kept(k)' = Kept(k)
    BY <1>4, <2>1, <2>4, Zenon DEF Kept
  <2>6. QED
    BY <1>2, <2>1, <2>5, SameLog
<1>7. QED
  BY <1>5, <1>6

LEMMA ResetLog ==
  ASSUME TInv, NEW k \in LogKeys, Reset(k)
  PROVE  LogInv(k)'
<1>1. /\ k \in Keys /\ now \in Nat /\ \A s \in 0..now : s \in Times
      /\ admitted \in [Keys -> Nat] /\ before \in [Keys -> [Times -> Nat]]
      /\ data \in [Keys -> Entry \cup {NoEntry}]
  BY LogFacts
<1>2. /\ now' = now /\ data'[k] = NoEntry /\ admitted'[k] = 0
      /\ \A s \in 0..now : before'[k][s] = 0
  BY <1>1 DEF Reset, Forget
<1>3. Kept(k)' = << >>
  <2>1. Missing(NoEntry, now)
    BY DEF Missing
  <2>2. Kept(k)' = Log(NoEntry, now).requests
    BY <1>2 DEF Kept
  <2>3. Log(NoEntry, now) = [ZeroEntry EXCEPT !.lastUpd = now]
    BY <2>1, Zenon DEF Log
  <2>4. [ZeroEntry EXCEPT !.lastUpd = now].requests = << >>
    BY DEF ZeroEntry
  <2>5. QED
    BY <2>2, <2>3, <2>4, Zenon
<1>4. \A s \in 0..now : Since(k, s)' = 0
  BY <1>1, <1>2 DEF Since
<1>5. \A s : Parts(<< >>, s, 0)
  BY DEF Parts
<1>6. \A s \in 0..now : Parts(Kept(k)', s, Since(k, s)')
  BY <1>3, <1>4, <1>5, Zenon
<1>7. LogTallied(k)'
  BY <1>2, <1>6 DEF LogTallied
<1>8. LogDated(k)'
  BY <1>2 DEF LogDated
<1>9. QED
  BY <1>7, <1>8 DEF LogInv

\* A call adds to the log what it adds to the ledger, and is admitted exactly
\* when the window has room for it.
LEMMA AllowLog ==
  ASSUME SmallCounts, TInv, NEW k \in LogKeys, LogInv(k),
         NEW n \in Costs, NEW d, Decided(k, n, d)
  PROVE  /\ LogInv(k)'
         /\ reply' = [key |-> k, n |-> n, allowed |-> d.allowed]
         /\ d.allowed = FitsSlidingWindow(Usage(k), now, n)
<1>1. /\ k \in Keys /\ now \in Nat /\ n \in Nat
      /\ admitted \in [Keys -> Nat] /\ before \in [Keys -> [Times -> Nat]]
      /\ \A s \in 0..now : s \in Times
      /\ data \in [Keys -> Entry \cup {NoEntry}] /\ data[k] \in Entry \cup {NoEntry}
      /\ data[k] # NoEntry =>
           /\ data[k] \in Entry /\ data[k].requests \in Seq(Nat)
           /\ data[k].expiresAt \in Int /\ Len(data[k].requests) <= Limit
      /\ Kept(k) = IF Missing(data[k], now) THEN << >> ELSE data[k].requests
      /\ Kept(k) \in Seq(Nat)
      /\ Limit \in Nat /\ Window \in Nat \ {0} /\ TTL \in Nat
  BY LogFacts, LedgerAssumption
<1> DEFINE q == Recent(Kept(k), now - Window)
           r == IF d.allowed THEN q \o Copies(n, now) ELSE q
           e == d.entry
<1>2. /\ data' = [data EXCEPT ![k] = e]
      /\ d.allowed \in BOOLEAN
      /\ IF d.allowed THEN Admit(k, n) ELSE Refuse(k, n)
  BY DEF Decided, Answer
<1>3. /\ q \in Seq(Nat)
      /\ d.allowed = (Len(q) + n <= Limit)
      /\ e \in Entry /\ e.requests = r /\ e.expiresAt = now + TTL
  <2>1. d = DecideSlidingLog(data[k], now, n)
    BY DEF Decided
  <2>2. /\ q \in Seq(Nat)
        /\ d.allowed = (Len(q) + n <= Limit)
        /\ e \in Entry /\ e.expiresAt = now + TTL
        /\ e.requests = IF Len(q) + n <= Limit THEN q \o Copies(n, now) ELSE q
    BY <1>1, <2>1, LogDecision DEF Kept
  <2> HIDE DEF q, e
  <2>3. QED
    BY <2>2, Zenon
<1>4. data'[k] = e /\ e # NoEntry
  BY <1>1, <1>2, <1>3, StoreAssumption
<1>5. /\ now' = now /\ before' = before
      /\ reply' = [key |-> k, n |-> n, allowed |-> d.allowed]
      /\ admitted'[k] = IF d.allowed THEN admitted[k] + n ELSE admitted[k]
  <2>1. CASE d.allowed
    BY <1>1, <1>2, <2>1 DEF Admit
  <2>2. CASE ~ d.allowed
    BY <1>1, <1>2, <2>2 DEF Refuse
  <2>3. QED
    BY <2>1, <2>2
<1>6. now - Window \in Int
  BY <1>1
<1>7. \A s \in 0..now : s > now - Window => Parts(q, s, Since(k, s))
  <2> SUFFICES ASSUME NEW s \in 0..now, s > now - Window
               PROVE  Parts(q, s, Since(k, s))
    OBVIOUS
  <2>1. Parts(Kept(k), s, Since(k, s)) /\ s \in Int
    BY DEF LogInv, LogTallied
  <2>2. QED
    BY <1>1, <1>6, <2>1, PartsOfRecent
\* The answer.
<1>8. d.allowed = FitsSlidingWindow(Usage(k), now, n)
  <2> DEFINE s == IF now < Window THEN 0 ELSE now - Window + 1
             m == Since(k, s)
  <2>1. s \in 0..now /\ s > now - Window /\ s \in Int
        /\ \A t \in Nat : t > now - Window => t >= s
    BY <1>1
  <2>2. Usage(k)[s] = m
    BY <2>1 DEF Usage
  <2>3. FitsSlidingWindow(Usage(k), now, n) = (m + n <= Limit)
    BY <2>2, Zenon DEF FitsSlidingWindow
  <2> HIDE DEF s, m
  <2>4. Parts(Recent(Kept(k), now - Window), s, m)
    BY <1>7, <2>1 DEF m
  <2>5. m = Len(Recent(Kept(k), now - Window))
    BY <1>1, <1>6, <2>1, <2>4, PartsOfAll
  <2>6. QED
    BY <1>3, <2>3, <2>5, Zenon
\* The times in the log and its time to live.
<1>9. Dated(e, now)
  <2>1. \A i \in 1..Len(Kept(k)) : Kept(k)[i] <= now /\ Kept(k)[i] \in Nat
    <3>1. CASE Missing(data[k], now)
      <4>1. Kept(k) = << >>
        BY <1>1, <3>1
      <4>2. Len(Kept(k)) = 0
        BY <4>1
      <4>3. QED
        BY <4>2
    <3>2. CASE ~ Missing(data[k], now)
      <4>1. data[k] # NoEntry /\ Kept(k) = data[k].requests
        BY <1>1, <3>2 DEF Missing
      <4>2. Dated(data[k], now)
        BY <4>1 DEF LogInv, LogDated
      <4>3. QED
        <5> DEFINE x == Kept(k)
        <5>1. x \in Seq(Nat) /\ \A i \in 1..Len(x) : x[i] <= now
          BY <1>1, <4>1, <4>2 DEF Dated
        <5> HIDE DEF x
        <5>2. \A i \in 1..Len(x) : x[i] <= now /\ x[i] \in Nat
          BY <5>1
        <5>3. QED
          BY <5>2 DEF x
    <3>3. QED
      BY <3>1, <3>2
  <2>2. \A i \in 1..Len(q) : q[i] <= now
    <3> DEFINE c == Cutoff(Kept(k), now - Window)
    <3>1. /\ c \in 0..Len(Kept(k)) /\ Len(q) = Len(Kept(k)) - c
          /\ \A i \in 1..(Len(Kept(k)) - c) : q[i] = Kept(k)[i + c]
      BY <1>1, <1>6, RecentLog
    <3> HIDE DEF c, q
    <3>2. ASSUME NEW i \in 1..Len(q)
          PROVE  q[i] <= now
      <4>1. i + c \in 1..Len(Kept(k)) /\ q[i] = Kept(k)[i + c]
        BY <1>1, <3>1
      <4>2. QED
        BY <2>1, <4>1
    <3>3. QED
      BY <3>2
  <2> HIDE DEF q
  <2>3. Copies(n, now) \in Seq(Nat) /\ Len(Copies(n, now)) = n
        /\ \A i \in 1..n : Copies(n, now)[i] = now
    BY <1>1 DEF Copies
  <2>4. r \in Seq(Nat) /\ \A i \in 1..Len(r) : r[i] <= now
    <3>1. CASE d.allowed
      <4> DEFINE x == Copies(n, now)
                 z == q \o x
      <4>1. r = z
        BY <3>1
      <4>2. x \in Seq(Nat) /\ Len(x) = n /\ \A i \in 1..n : x[i] = now
        BY <2>3
      <4> HIDE DEF x
      <4>3. /\ z \in Seq(Nat) /\ Len(z) = Len(q) + n /\ Len(q) \in Nat
            /\ \A i \in 1..Len(z) : z[i] = IF i <= Len(q) THEN q[i] ELSE x[i - Len(q)]
        <5>1. n \in Nat /\ q \in Seq(Nat)
          BY <1>1, <1>3
        <5>2. QED
          BY <4>2, <5>1, LogAndMore
      <4> HIDE DEF z, r
      <4>4. ASSUME NEW i \in 1..Len(z)
            PROVE  z[i] <= now
        <5>1. CASE i <= Len(q)
          <6>1. i \in 1..Len(q) /\ z[i] = q[i]
            BY <1>1, <4>3, <5>1
          <6>2. QED
            BY <2>2, <6>1
        <5>2. CASE ~ (i <= Len(q))
          <6>1. i - Len(q) \in 1..n /\ z[i] = x[i - Len(q)]
            BY <1>1, <4>3, <5>2
          <6>2. z[i] = now
            BY <4>2, <6>1
          <6>3. QED
            BY <1>1, <6>2
        <5>3. QED
          BY <5>1, <5>2
      <4>5. QED
        BY <4>1, <4>3, <4>4
    <3>2. CASE ~ d.allowed
      BY <1>3, <2>2, <3>2
    <3>3. QED
      BY <3>1, <3>2
  <2>5. e.requests = r /\ e.expiresAt = now + TTL
    BY <1>3
  <2> HIDE DEF e, r
  <2>6. \A i \in 1..Len(r) : r[i] <= now /\ r[i] + TTL <= now + TTL
    <3> SUFFICES ASSUME NEW i \in 1..Len(r)
                 PROVE  r[i] <= now /\ r[i] + TTL <= now + TTL
      OBVIOUS
    <3> DEFINE t == r[i]
    <3>1. t \in Nat /\ t <= now
      BY <2>4
    <3> HIDE DEF t
    <3>2. t <= now /\ t + TTL <= now + TTL
      BY <1>1, <3>1
    <3>3. QED
      BY <3>2 DEF t
  <2>7. QED
    BY <2>5, <2>6 DEF Dated
<1>10. Kept(k)' = r
  <2>1. Kept(k)' = Log(e, now).requests
    BY <1>4, <1>5 DEF Kept
  <2>2. ~ Missing(e, now)
    <3> HIDE DEF e
    <3>1. QED
      BY <1>1, <1>3, <1>4 DEF Missing
  <2>3. Log(e, now) = e
    BY <2>2, Zenon DEF Log
  <2>4. QED
    BY <1>3, <2>1, <2>3, Zenon
<1>11. ASSUME NEW s \in 0..now, s > now - Window
       PROVE  Parts(r, s, Since(k, s)')
  <2> DEFINE m == Since(k, s)
  <2>1. Parts(q, s, m)
    BY <1>7, <1>11
  <2>2. Since(k, s)' = IF d.allowed THEN m + n ELSE m
    <3>1. Since(k, s)' = admitted'[k] - before[k][s]
      BY <1>5 DEF Since
    <3>2. admitted[k] \in Nat /\ before[k][s] \in Nat
      BY <1>1
    <3> DEFINE a == admitted[k]
               b == before[k][s]
    <3>3. m = a - b /\ admitted'[k] = IF d.allowed THEN a + n ELSE a
      BY <1>5 DEF Since
    <3>4. a \in Nat /\ b \in Nat
      BY <3>2
    <3> HIDE DEF a, m
    <3>5. (a + n) - b = (a - b) + n
      BY <1>1, <3>4
    <3>6. QED
      BY <3>1, <3>3, <3>5
  <2> HIDE DEF q, m
  <2>3. CASE d.allowed
    <3>1. now >= s /\ s \in Int
      BY <1>1
    <3>2. Parts(q \o Copies(n, now), s, m + n)
      BY <1>1, <1>3, <2>1, <3>1, PartsWithMore
    <3>3. QED
      BY <2>2, <2>3, <3>2
  <2>4. CASE ~ d.allowed
    BY <2>1, <2>2, <2>4
  <2>5. QED
    BY <2>3, <2>4
<1> HIDE DEF r
<1>12. LogTallied(k)'
  BY <1>5, <1>10, <1>11 DEF LogTallied
<1>13. LogDated(k)'
  BY <1>4, <1>5, <1>9 DEF LogDated
<1>14. QED
  BY <1>5, <1>8, <1>12, <1>13 DEF LogInv

LEMMA LInvInit ==
  ASSUME StoreInit
  PROVE  LInv
<1>1. TInv
  BY TInvInit
<1>2. ASSUME NEW k \in LogKeys
      PROVE  LogInv(k)
  <2>1. /\ now = 0 /\ data[k] = NoEntry /\ admitted[k] = 0
        /\ \A s \in 0..now : before[k][s] = 0
    BY LedgerAssumption, KindsApart DEF StoreInit, LedgerInit, Times
  <2>2. Kept(k) = << >>
    BY <1>1, <2>1, LogFacts DEF Missing
  <2>3. \A s \in 0..now : Since(k, s) = 0
    BY <2>1 DEF Since
  <2>4. \A s : Parts(<< >>, s, 0)
    BY DEF Parts
  <2>5. \A s \in 0..now : Parts(Kept(k), s, Since(k, s))
    BY <2>2, <2>3, <2>4, Zenon
  <2>6. QED
    BY <2>1, <2>5 DEF LogInv, LogTallied, LogDated
<1>3. QED
  BY <1>1, <1>2 DEF LInv

LEMMA LInvStep ==
  ASSUME SmallCounts, LongLog, LInv, [Next]_vars
  PROVE  LInv'
<1>1. TInv /\ TInv'
  BY TInvStep DEF LInv
<1>2. ASSUME NEW k \in LogKeys
      PROVE  LogInv(k)'
  <2>1. /\ k \in Keys /\ LogInv(k)
        /\ admitted \in [Keys -> Nat] /\ data \in [Keys -> Entry \cup {NoEntry}]
        /\ before \in [Keys -> [Times -> Nat]]
    BY <1>1, LogFacts DEF LInv
  <2>2. data[k] # NoEntry => Dated(data[k], now)
    BY <2>1 DEF LogInv, LogDated
  <2>3. ASSUME UNCHANGED now, admitted'[k] = admitted[k], before'[k] = before[k],
               data'[k] = data[k]
        PROVE  LogInv(k)'
    <3>1. Kept(k)' = Kept(k)
      BY <2>3 DEF Kept
    <3>2. QED
      BY <2>1, <2>2, <2>3, <3>1, SameLog
  <2>4. CASE UNCHANGED vars \/ BeginSweep
    BY <2>3, <2>4 DEF vars, ledger, store, BeginSweep
  <2>5. CASE Tick
    BY <1>1, <2>1, <2>5, TickLog
  <2>6. CASE SweepShard
    BY <1>1, <2>1, <2>6, SweepLog
  <2>7. ASSUME NEW j \in Keys, Allow(j)
        PROVE  LogInv(k)'
    <3>1. PICK n \in Costs : \E d : Decided(j, n, d)
      BY <1>1, <2>7, AllowDecides
    <3>2. PICK d : Decided(j, n, d)
      BY <3>1
    <3>3. CASE j = k
      <4>1. Decided(k, n, d)
        BY <3>2, <3>3
      <4>2. QED
        BY <1>1, <2>1, <4>1, AllowLog
    <3>4. CASE j # k
      <4>1. /\ data' = [data EXCEPT ![j] = d.entry]
            /\ Admit(j, n) \/ Refuse(j, n)
        BY <3>2 DEF Decided, Answer
      <4>2. UNCHANGED now /\ admitted'[k] = admitted[k] /\ before'[k] = before[k]
        BY <2>1, <3>4, <4>1 DEF Admit, Refuse
      <4>3. data'[k] = data[k]
        BY <2>1, <3>4, <4>1
      <4>4. QED
        BY <2>3, <4>2, <4>3
    <3>5. QED
      BY <3>3, <3>4
  <2>8. ASSUME NEW j \in Keys, Reset(j)
        PROVE  LogInv(k)'
    <3>1. CASE j = k
      <4>1. Reset(k)
        BY <2>8, <3>1
      <4>2. QED
        BY <1>1, <4>1, ResetLog
    <3>2. CASE j # k
      <4>1. /\ UNCHANGED now /\ admitted'[k] = admitted[k] /\ before'[k] = before[k]
            /\ data'[k] = data[k]
        BY <2>1, <2>8, <3>2 DEF Reset, Forget
      <4>2. QED
        BY <2>3, <4>1
    <3>3. QED
      BY <3>1, <3>2
  <2>9. QED
    BY <2>4, <2>5, <2>6, <2>7, <2>8 DEF Next, Background
<1>3. QED
  BY <1>1, <1>2 DEF LInv

\* No span as long as the window admits more than the limit (memory.go:387-408),
\* for any interleaving of calls with resets, expiry and cleanup, provided that
\* an entry outlives the window.
THEOREM StrictLimitKept ==
  ASSUME SmallCounts, LongLog
  PROVE  Spec => []StrictLimit
<1>1. StoreInit => LInv
  BY LInvInit
<1>2. LInv /\ [Next]_vars => LInv'
  BY LInvStep
<1>3. ASSUME LInv
      PROVE  StrictLimit
  <2> SUFFICES ASSUME NEW k \in LogKeys, NEW s \in 0..now, now - s < Window
               PROVE  Since(k, s) <= Limit
    BY DEF StrictLimit
  <2>1. /\ now \in Nat /\ Window \in Nat /\ Limit \in Nat /\ LogInv(k)
        /\ Kept(k) \in Seq(Nat) /\ Len(Kept(k)) <= Limit
    BY <1>3, LogFacts DEF LInv
  <2>2. Parts(Kept(k), s, Since(k, s))
    BY <2>1 DEF LogInv, LogTallied
  <2>3. Since(k, s) \in 0..Len(Kept(k)) /\ Len(Kept(k)) \in Nat
    BY <2>1, <2>2, PartsWithin
  <2>4. QED
    BY <2>1, <2>3
<1>4. QED
  BY <1>1, <1>2, <1>3, PTL DEF Spec

\* What is left of a log is in order and within the window.
LEMMA RecentInOrder ==
  ASSUME TInv, NEW k \in LogKeys, LogInv(k)
  PROVE  LET q == Recent(Kept(k), now - Window)
         IN  /\ q \in Seq(Nat)
             /\ \A i \in 1..Len(q) : q[i] \in (now - Window + 1)..now
             /\ \A i, j \in 1..Len(q) : i <= j => q[i] <= q[j]
<1> DEFINE p == Kept(k)
           from == now - Window
           q == Recent(p, from)
           c == Cutoff(p, from)
<1>1. p \in Seq(Nat) /\ from \in Int /\ now \in Nat /\ Window \in Nat \ {0}
  BY LogFacts
<1> HIDE DEF p
<1>2. /\ c \in 0..Len(p) /\ q \in Seq(Nat) /\ Len(q) = Len(p) - c
      /\ \A i \in 1..(Len(p) - c) : q[i] = p[i + c]
  BY <1>1, RecentLog
<1>3. c < Len(p) => p[c + 1] > from
  BY <1>1, CutoffExists
<1>4. \A s \in 0..now : s > from => Parts(q, s, Since(k, s))
  <2> SUFFICES ASSUME NEW s \in 0..now, s > from
               PROVE  Parts(q, s, Since(k, s))
    OBVIOUS
  <2>1. Parts(p, s, Since(k, s))
    BY DEF LogInv, LogTallied, p
  <2> HIDE DEF from
  <2>2. s \in Int
    BY <1>1
  <2>3. QED
    BY <1>1, <2>1, <2>2, PartsOfRecent
<1> HIDE DEF c, q
<1>5. \A i \in 1..Len(q) : q[i] \in 0..now
  <2>1. \A i \in 1..Len(p) : p[i] \in 0..now
    <3>1. CASE Missing(data[k], now)
      BY <3>1, LogFacts DEF p
    <3>2. CASE ~ Missing(data[k], now)
      <4>1. data[k] # NoEntry /\ p = data[k].requests
        BY <3>2, LogFacts DEF p, Missing
      <4>2. \A i \in 1..Len(p) : p[i] <= now
        BY <4>1 DEF LogInv, LogDated, Dated
      <4>3. QED
        BY <1>1, <4>2
    <3>3. QED
      BY <3>1, <3>2
  <2>2. ASSUME NEW i \in 1..Len(q)
        PROVE  q[i] \in 0..now
    <3>1. i + c \in 1..Len(p) /\ q[i] = p[i + c]
      BY <1>1, <1>2
    <3>2. QED
      BY <2>1, <3>1
  <2>3. QED
    BY <2>2
<1>6. Len(q) \in Nat
  BY <1>2
<1>7. ASSUME NEW i \in 1..Len(q), q[i] > from, NEW j \in 1..Len(q), i <= j
      PROVE  q[i] <= q[j]
  <2> DEFINE s == q[i]
  <2>1. s \in 0..now /\ s > from /\ s \in Nat
    BY <1>5, <1>7
  <2>2. Parts(q, s, Since(k, s))
    BY <1>4, <2>1
  <2>3. PICK b \in 0..Len(q) : /\ \A x \in 1..b : q[x] < s
                               /\ \A x \in (b + 1)..Len(q) : q[x] >= s
    BY <2>2 DEF Parts
  <2>4. q[i] = s
    OBVIOUS
  <2> HIDE DEF s
  <2>5. ~ (i <= b)
    BY <1>6, <1>7, <2>1, <2>3, <2>4
  <2>6. j \in (b + 1)..Len(q)
    BY <1>6, <1>7, <2>5
  <2>7. q[j] >= s /\ q[j] \in Nat
    BY <1>5, <2>3, <2>6, <1>7
  <2>8. QED
    BY <2>1, <2>4, <2>7
<1>8. \A i \in 1..Len(q) : q[i] > from
  <2> SUFFICES ASSUME NEW i \in 1..Len(q)
               PROVE  q[i] > from
    OBVIOUS
  <2>1. 1 \in 1..Len(q) /\ 1 <= i
    BY <1>6
  <2>2. q[1] > from
    BY <1>1, <1>2, <1>3, <2>1
  <2>3. q[1] <= q[i]
    BY <1>7, <2>1, <2>2
  <2> HIDE DEF from
  <2>4. QED
    BY <1>1, <1>5, <2>1, <2>2, <2>3
<1>9. \A i \in 1..Len(q) : q[i] \in (from + 1)..now
  <2> HIDE DEF from
  <2>1. QED
    BY <1>1, <1>5, <1>8
<1>10. \A i, j \in 1..Len(q) : i <= j => q[i] <= q[j]
  BY <1>7, <1>8
<1>11. QED
  BY <1>2, <1>9, <1>10 DEF q, p

\* A refused call leaves the log without what is no longer in the window.  The
\* one whose expiry makes room is there until it expires, and all before it go
\* no later.
LEMMA RefusedUntilRoom ==
  ASSUME LongLog, NEW e \in Entry \cup {NoEntry}, NEW at \in Nat, NEW n \in Costs,
         e # NoEntry => Len(e.requests) <= Limit, n <= Limit,
         \A i \in 1..Len(Recent(Log(e, at).requests, at - Window)) :
           Recent(Log(e, at).requests, at - Window)[i] \in (at - Window + 1)..at,
         \A i, j \in 1..Len(Recent(Log(e, at).requests, at - Window)) :
           i <= j => Recent(Log(e, at).requests, at - Window)[i]
                       <= Recent(Log(e, at).requests, at - Window)[j],
         ~ DecideSlidingLog(e, at, n).allowed
  PROVE  LET d == DecideSlidingLog(e, at, n)
         IN  /\ DecideSlidingLog(d.entry, at + d.retryAfter, n).allowed
             /\ \A w \in 0..(d.retryAfter - 1) :
                  ~ DecideSlidingLog(d.entry, at + w, n).allowed
<1> DEFINE q == Recent(Log(e, at).requests, at - Window)
           d == DecideSlidingLog(e, at, n)
           f == d.entry
           wait == d.retryAfter
           needed == Len(q) + n - Limit
<1>1. /\ n \in Nat /\ Limit \in Nat /\ Window \in Nat \ {0} /\ TTL \in Nat
      /\ NoEntry \notin Entry
  BY WindowAssumption, LedgerAssumption, StoreAssumption
<1>2. /\ q \in Seq(Nat) /\ d.allowed = (Len(q) + n <= Limit)
      /\ f \in Entry /\ f.requests = (IF Len(q) + n <= Limit THEN q \o Copies(n, at) ELSE q)
      /\ Len(f.requests) <= Limit
      /\ f.expiresAt = at + TTL
  BY LogDecision
<1>3. /\ \A i \in 1..Len(q) : q[i] \in (at - Window + 1)..at
      /\ \A i, j \in 1..Len(q) : i <= j => q[i] <= q[j]
      /\ ~ d.allowed
  OBVIOUS
<1>4. wait = CASE d.allowed \/ q = << >> -> 0
               [] ~ d.allowed /\ needed \in 1..Len(q) -> q[needed] + Window - at
               [] OTHER -> Window
  <2>1. d.allowed = (Len(q) + n <= Limit)
    BY <1>2
  <2>2. d.retryAfter = CASE (Len(q) + n <= Limit) \/ q = << >> -> 0
               [] ~ (Len(q) + n <= Limit) /\ needed \in 1..Len(q) -> q[needed] + Window - at
               [] OTHER -> Window
    BY Zenon DEF DecideSlidingLog
  <2> HIDE DEF d, q, needed
  <2>3. QED
    BY <2>1, <2>2, Zenon DEF wait
<1> HIDE DEF d, f, wait, q
<1>5. ~ (Len(q) + n <= Limit)
  BY <1>2, <1>3, Zenon
<1>6. Len(q) \in Nat /\ needed \in 1..Len(q) /\ q # << >>
  BY <1>1, <1>2, <1>5
<1>7. wait = q[needed] + Window - at
  <2> HIDE DEF needed
  <2>1. QED
    BY <1>3, <1>4, <1>6, Zenon
<1>8. f.requests = q /\ f # NoEntry /\ f.expiresAt = at + TTL /\ Len(q) <= Limit
  BY <1>1, <1>2, <1>5
<1> DEFINE z == q[needed]
<1>9. z \in (at - Window + 1)..at /\ z \in Nat /\ wait = z + Window - at
  BY <1>2, <1>3, <1>6, <1>7
<1>10. wait \in Nat /\ wait <= TTL + 1
  BY <1>1, <1>9 DEF LongLog
\* What is in the log w ticks later, and what is decided then.
<1>11. ASSUME NEW w \in Nat
       PROVE  LET p == IF w > TTL THEN << >> ELSE q
              IN  DecideSlidingLog(f, at + w, n).allowed
                    = (Len(Recent(p, (at + w) - Window)) + n <= Limit)
  <2> DEFINE p == IF w > TTL THEN << >> ELSE q
             l == Log(f, at + w).requests
  <2>1. Missing(f, at + w) <=> w > TTL
    BY <1>1, <1>8 DEF Missing
  <2>2. l = p
    <3>1. CASE w > TTL
      <4>1. Log(f, at + w) = [ZeroEntry EXCEPT !.lastUpd = at + w]
        BY <2>1, <3>1 DEF Log
      <4>2. [ZeroEntry EXCEPT !.lastUpd = at + w].requests = << >>
        BY DEF ZeroEntry
      <4>3. QED
        BY <3>1, <4>1, <4>2, Zenon
    <3>2. CASE ~ (w > TTL)
      <4>1. Log(f, at + w) = f
        BY <2>1, <3>2, Zenon DEF Log
      <4>2. QED
        BY <1>8, <3>2, <4>1, Zenon
    <3>3. QED
      BY <3>1, <3>2
  <2>3. at + w \in Nat /\ f \in Entry \cup {NoEntry} /\ Len(f.requests) <= Limit
    BY <1>2
  <2>4. DecideSlidingLog(f, at + w, n).allowed
          = (Len(Recent(l, (at + w) - Window)) + n <= Limit)
    BY <2>3, LogDecision
  <2> HIDE DEF l, p
  <2>5. QED
    BY <2>2, <2>4, Zenon DEF p
<1> HIDE DEF needed
<1>12. needed = Len(q) + n - Limit
  BY DEF needed
<1>13. ASSUME NEW from \in Int
       PROVE  /\ from < z => Len(Recent(q, from)) + n > Limit
              /\ from = z => Len(Recent(q, from)) + n <= Limit
  <2> DEFINE c == Cutoff(q, from)
  <2>1. /\ c \in 0..Len(q)
        /\ \A i \in 1..c : q[i] <= from
        /\ c < Len(q) => q[c + 1] > from
    BY <1>2, CutoffExists
  <2>2. Len(Recent(q, from)) = Len(q) - c
    BY <1>2, RecentLog
  <2> HIDE DEF c
  <2>3. ASSUME from < z
        PROVE  c < needed
    BY <1>6, <1>9, <2>1, <2>3
  <2>4. ASSUME from = z
        PROVE  c >= needed
    <3> SUFFICES ASSUME c < needed
                 PROVE  FALSE
      BY <1>6, <2>1
    <3>1. c + 1 \in 1..Len(q) /\ c + 1 <= needed /\ c < Len(q)
      BY <1>6, <2>1
    <3>2. q[c + 1] <= z
      BY <1>3, <1>6, <3>1
    <3>3. q[c + 1] > z /\ q[c + 1] \in Nat
      BY <1>2, <2>1, <2>4, <3>1
    <3>4. QED
      BY <1>9, <3>2, <3>3
  <2>5. QED
    BY <1>1, <1>6, <1>12, <2>1, <2>2, <2>3, <2>4
<1>14. DecideSlidingLog(f, at + wait, n).allowed
  <2> DEFINE p == IF wait > TTL THEN << >> ELSE q
             from == (at + wait) - Window
  <2>1. DecideSlidingLog(f, at + wait, n).allowed = (Len(Recent(p, from)) + n <= Limit)
    BY <1>10, <1>11
  <2>2. from = z /\ from \in Int
    BY <1>1, <1>9
  <2>3. CASE wait > TTL
    <3>1. p = << >>
      BY <2>3
    <3> HIDE DEF from, p
    <3>2. p \in Seq(Nat) /\ Len(p) = 0
      BY <3>1
    <3>3. Cutoff(p, from) \in 0..0 /\ Len(Recent(p, from)) = 0 - Cutoff(p, from)
      BY <2>2, <3>2, RecentLog
    <3>4. Len(Recent(p, from)) + n <= Limit
      BY <1>1, <3>3
    <3>5. QED
      BY <2>1, <3>4
  <2>4. CASE ~ (wait > TTL)
    <3>1. p = q
      BY <2>4
    <3> HIDE DEF from, p, z
    <3>2. Len(Recent(p, from)) + n <= Limit
      BY <1>13, <2>2, <3>1
    <3>3. QED
      BY <2>1, <3>2
  <2>5. QED
    BY <2>3, <2>4
<1>15. ASSUME NEW w \in 0..(wait - 1)
       PROVE  ~ DecideSlidingLog(f, at + w, n).allowed
  <2> DEFINE p == IF w > TTL THEN << >> ELSE q
             from == (at + w) - Window
  <2>1. w \in Nat /\ ~ (w > TTL)
    BY <1>1, <1>10
  <2>2. DecideSlidingLog(f, at + w, n).allowed = (Len(Recent(p, from)) + n <= Limit)
    BY <1>11, <2>1
  <2>3. p = q
    BY <2>1
  <2>4. from < z /\ from \in Int
    BY <1>1, <1>9, <2>1
  <2> HIDE DEF from, p, z
  <2>5. Len(Recent(q, from)) + n > Limit
    BY <1>13, <2>4
  <2>6. Len(Recent(q, from)) \in Nat
    <3>1. Recent(q, from) \in Seq(Nat)
      BY <1>2, <2>4, RecentLog
    <3>2. QED
      BY <3>1
  <2>7. ~ (Len(Recent(q, from)) + n <= Limit)
    BY <1>1, <2>5, <2>6
  <2>8. QED
    BY <2>2, <2>3, <2>7, Zenon
<1>16. QED
  BY <1>14, <1>15 DEF d, f, wait

\* RetryAfter of a refused sliding window log call is exact (memory.go:419-432),
\* to the entry of the log whose expiry makes room: a caller that retries alone
\* is refused at any earlier time and admitted then.
THEOREM LogRetryIsExact ==
  ASSUME SmallCounts, LongLog
  PROVE  Spec => []LogRetryExact
<1>1. ASSUME LInv
      PROVE  LogRetryExact
  <2> SUFFICES ASSUME NEW k \in LogKeys, NEW n \in {m \in Costs : m <= Limit},
                      ~ DecideSlidingLog(data[k], now, n).allowed
               PROVE  LET d == DecideSlidingLog(data[k], now, n)
                      IN  /\ DecideSlidingLog(d.entry, now + d.retryAfter, n).allowed
                          /\ \A w \in 0..(d.retryAfter - 1) :
                               ~ DecideSlidingLog(d.entry, now + w, n).allowed
    BY DEF LogRetryExact
  <2>1. TInv /\ LogInv(k)
    BY <1>1 DEF LInv
  <2>2. /\ now \in Nat /\ data[k] \in Entry \cup {NoEntry}
        /\ data[k] # NoEntry => Len(data[k].requests) <= Limit
    BY <2>1, LogFacts
  <2>3. n \in Costs /\ n <= Limit
    OBVIOUS
  <2> DEFINE q == Recent(Kept(k), now - Window)
  <2>4. /\ \A i \in 1..Len(q) : q[i] \in (now - Window + 1)..now
        /\ \A i, j \in 1..Len(q) : i <= j => q[i] <= q[j]
    BY <2>1, RecentInOrder
  <2>5. q = Recent(Log(data[k], now).requests, now - Window)
    BY DEF Kept
  <2>6. QED
    BY <2>2, <2>3, <2>4, <2>5, RefusedUntilRoom
<1>2. StoreInit => LInv
  BY LInvInit
<1>3. LInv /\ [Next]_vars => LInv'
  BY LInvStep
<1>4. QED
  BY <1>1, <1>2, <1>3, PTL DEF Spec

-----------------------------------------------------------------------------
(* The store implements the reference limiter *)

\* What a call of any kind is answered fits the policy of its key.
LEMMA DecisionFitsPolicy ==
  ASSUME SmallCounts, LongTTL, WholeMillis, BInv, WInv, CInv, LInv,
         NEW k \in BucketKeys \cup WindowKeys \cup CounterKeys \cup LogKeys,
         NEW n \in Costs, NEW d, Decided(k, n, d)
  PROVE  /\ d.allowed => May(k, Usage(k), now, n)
         /\ ~ d.allowed => ~ Must(k, Usage(k), now, n)
<1> DEFINE u == Usage(k)
<1>1. TInv /\ k \in Keys
  BY KindsApart DEF BInv
<1>2. CASE k \in BucketKeys
  <2>1. d.allowed = (Level(k) >= n * Scale)
    BY <1>1, <1>2, AllowBalance DEF BInv
  <2>2. (Level(k) >= n * Scale) = FitsEnvelope(u, now, n)
    BY <1>2, EnvelopeIsLevel
  <2>3. k \notin WindowKeys /\ k \notin CounterKeys /\ k \notin LogKeys
    BY <1>2, KindsApart
  <2> HIDE DEF u
  <2>4. d.allowed = FitsEnvelope(u, now, n)
    BY <2>1, <2>2, Zenon
  <2>5. QED
    BY <1>2, <2>3, <2>4, Zenon DEF May, Must, u
<1>3. CASE k \in WindowKeys
  <2>1. d.allowed = (Tally(k) + n <= Limit)
    BY <1>1, <1>3, AllowWindow DEF WInv
  <2>2. u[WindowStart(now)] = Tally(k)
    <3>1. WindowStart(now) \in 0..now /\ WindowInv(k)
      BY <1>1, <1>3, WindowFacts DEF WInv
    <3>2. QED
      BY <3>1 DEF Usage, WindowInv, Tallied
  <2>3. k \notin BucketKeys /\ k \notin CounterKeys /\ k \notin LogKeys
    BY <1>3, KindsApart
  <2> HIDE DEF u
  <2>4. d.allowed = FitsFixedWindow(u, now, n)
    BY <2>1, <2>2, Zenon DEF FitsFixedWindow
  <2>5. QED
    BY <1>3, <2>3, <2>4, Zenon DEF May, Must, u
<1>4. CASE k \in CounterKeys
  <2>1. /\ d.allowed => MayFitEstimate(u, now, n)
        /\ ~ d.allowed => ~ MustFitEstimate(u, now, n)
    BY <1>1, <1>4, CounterFitsPolicy DEF CInv
  <2>2. k \notin BucketKeys /\ k \notin WindowKeys /\ k \notin LogKeys
    BY <1>4, KindsApart
  <2> HIDE DEF u
  <2>3. QED
    BY <1>4, <2>1, <2>2, Zenon DEF May, Must, u
<1>5. CASE k \in LogKeys
  <2>1. d.allowed = FitsSlidingWindow(u, now, n)
    BY <1>1, <1>5, AllowLog DEF LInv
  <2>2. k \notin BucketKeys /\ k \notin WindowKeys /\ k \notin CounterKeys
    BY <1>5, KindsApart
  <2> HIDE DEF u
  <2>3. QED
    BY <1>5, <2>1, <2>2, Zenon DEF May, Must, u
<1>6. QED
  BY <1>2, <1>3, <1>4, <1>5

LEMMA InitImplements ==
  ASSUME StoreInit
  PROVE  Reference!LedgerInit
BY DEF StoreInit, LedgerInit, Reference!LedgerInit, Times, Reference!Times

LEMMA StepImplements ==
  ASSUME SmallCounts, LongTTL, WholeMillis, LongLog, BInv, WInv, CInv, LInv, [Next]_vars
  PROVE  [Reference!Next]_(Reference!ledger)
<1>1. CASE UNCHANGED ledger
  BY <1>1 DEF ledger, Reference!ledger
<1>2. CASE Tick
  BY <1>2 DEF Tick, AdvanceClock, Reference!Next, Reference!AdvanceClock
<1>3. ASSUME NEW k \in Keys, Reset(k)
      PROVE  Reference!Next
  <2>1. Reference!Reset(k)
    BY <1>3 DEF Reset, Forget, Reference!Reset, Reference!Forget, Times, Reference!Times
  <2>2. QED
    BY <2>1 DEF Reference!Next
<1>4. ASSUME NEW k \in Keys, Allow(k)
      PROVE  Reference!Next
  <2>1. PICK n \in Costs : \E d : Decided(k, n, d)
    BY <1>4, AllowDecides DEF BInv
  <2>2. PICK d : Decided(k, n, d)
    BY <2>1
  <2>3. k \in BucketKeys \cup WindowKeys \cup CounterKeys \cup LogKeys
    BY <1>4 DEF Allow
  <2>4. /\ d.allowed => May(k, Usage(k), now, n)
        /\ ~ d.allowed => ~ Must(k, Usage(k), now, n)
    BY <2>2, <2>3, DecisionFitsPolicy
  <2>5. IF d.allowed THEN Admit(k, n) ELSE Refuse(k, n)
    BY <2>2 DEF Decided, Answer
  <2>6. Reference!Usage(k) = Usage(k)
    BY DEF Reference!Usage, Usage, Since, Reference!Since
  <2>7. Reference!Allow(k, n)
    <3>1. CASE d.allowed
      <4>1. Admit(k, n) /\ May(k, Usage(k), now, n)
        BY <2>4, <2>5, <3>1
      <4>2. Reference!Admit(k, n)
        BY <4>1 DEF Admit, Reference!Admit
      <4>3. QED
        BY <2>6, <4>1, <4>2 DEF Reference!Allow
    <3>2. CASE ~ d.allowed
      <4>1. Refuse(k, n) /\ ~ Must(k, Usage(k), now, n)
        BY <2>4, <2>5, <3>2
      <4>2. Reference!Refuse(k, n)
        BY <4>1 DEF Refuse, Reference!Refuse
      <4>3. QED
        BY <2>6, <4>1, <4>2 DEF Reference!Allow
    <3>3. QED
      BY <3>1, <3>2
  <2>8. QED
    BY <2>7 DEF Reference!Next
<1>5. CASE UNCHANGED vars \/ BeginSweep \/ SweepShard
  <2>1. UNCHANGED ledger
    BY <1>5 DEF vars, ledger, BeginSweep, SweepShard
  <2>2. QED
    BY <1>1, <2>1
<1>6. QED
  BY <1>2, <1>3, <1>4, <1>5 DEF Next, Background

\* The store implements the reference limiter (memory.go:158-471): every call of
\* every kind is answered as the policy says that knows the key's whole history,
\* whatever has expired, was swept or was cleaned up with an old clock value.
\* This needs entries that outlive what they are for: a bucket until it would be
\* full, a log for its window, and counters of windows of at least a
\* millisecond.
THEOREM Implementation ==
  ASSUME SmallCounts, LongTTL, WholeMillis, LongLog
  PROVE  Spec => ImplementsReference
<1> DEFINE IInv == BInv /\ WInv /\ CInv /\ LInv
<1>1. StoreInit => IInv
  BY BInvInit, WInvInit, CInvInit, LInvInit
<1>2. IInv /\ [Next]_vars => IInv'
  BY BInvStep, WInvStep, CInvStep, LInvStep
<1>3. IInv /\ [Next]_vars => [Reference!Next]_(Reference!ledger)
  BY StepImplements
<1>4. StoreInit => Reference!LedgerInit
  BY InitImplements
<1> HIDE DEF IInv
<1>5. QED
  BY <1>1, <1>2, <1>3, <1>4, PTL DEF Spec, ImplementsReference, Reference!Spec

==============================================================================
