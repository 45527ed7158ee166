----------------------------- MODULE RedisProofs -----------------------------
(***************************************************************************)
(* Proofs about the Redis store, for any number of clients, keys, costs,   *)
(* capacities, limits and windows, and any drift of the clocks that the    *)
(* hypotheses of a theorem allow.                                          *)
(***************************************************************************)
EXTENDS RedisLegacy, PolicyProofs, FiniteSetTheorems, WellFoundedInduction

-----------------------------------------------------------------------------
(* Constants *)

LEMMA Positive ==
  /\ Capacity \in Nat \ {0} /\ Scale \in Nat \ {0} /\ Rate \in Nat \ {0} /\ Full \in Nat
  /\ Limit \in Nat \ {0} /\ Window \in Nat \ {0} /\ TTL \in Nat \ {0}
  /\ Costs \subseteq Nat /\ MaxTime \in Nat /\ Times \subseteq Nat
BY BucketAssumption, WindowAssumption, RedisAssumption, LedgerAssumption DEF Full, Times

\* With one tick to the millisecond, what is counted is the window itself.
LEMMA WholeWindow ==
  /\ SpanMs = Window /\ Span = Window
  /\ \A at \in Nat : Passed(at) = at - WindowStart(at)
<1>1. Milli = 1 /\ Window \in Nat \ {0}
  BY RedisAssumption, Positive
<1>2. \A x \in Int : x \div 1 = x /\ x * 1 = x
  OBVIOUS
<1>3. SpanMs = Window
  BY <1>1, <1>2 DEF SpanMs
<1>4. Span = Window
  BY <1>1, <1>2, <1>3 DEF Span
<1>5. ASSUME NEW at \in Nat
      PROVE  Passed(at) = at - WindowStart(at)
  <2>1. at - WindowStart(at) \in Int
    BY InWindow
  <2>2. QED
    BY <1>1, <1>2, <2>1 DEF Passed
<1>6. QED
  BY <1>3, <1>4, <1>5

\* The clock value of a call belongs to a window that has a counter.
LEMMA Windowed ==
  ASSUME now \in Times, NEW k, NEW at \in now..(now + DriftOf(k))
  PROVE  /\ at \in Nat /\ now \in Nat /\ now <= at /\ at <= now + Drift
         /\ WindowNum(at) \in WindowNums /\ WindowNums \subseteq Nat
         /\ 0 \in WindowNums
         /\ WindowNum(at) # 0 => WindowNum(at) - 1 \in WindowNums
<1>1. /\ Drift \in Nat /\ DriftOf(k) \in 0..Drift /\ now \in Nat /\ now <= MaxTime /\ MaxTime \in Nat
  BY RedisAssumption, Positive DEF DriftOf, Times
<1>2. at \in Nat /\ at <= MaxTime + Drift /\ MaxTime + Drift \in Nat
  BY <1>1
<1>3. WindowNum(at) \in Nat /\ WindowNum(MaxTime + Drift) \in Nat
  BY <1>2, WindowTypes
<1>4. WindowNum(at) <= WindowNum(MaxTime + Drift)
  BY <1>2, SpanPositive, DivisionGrows DEF WindowNum
<1>5. QED
  BY <1>1, <1>2, <1>3, <1>4 DEF WindowNums

-----------------------------------------------------------------------------
(* The scripts *)

\* The bucket as a script finds it.
LEMMA RefilledBucket ==
  ASSUME NEW b \in Bucket \cup {NoKey}, NEW at \in Nat
  PROVE  /\ Refilled(b, at).tokens \in 0..Full /\ Refilled(b, at).lastUpdate \in Nat
         /\ b = NoKey => Refilled(b, at).tokens = Full /\ Refilled(b, at).lastUpdate = at
         /\ b # NoKey /\ at > b.lastUpdate =>
              /\ Refilled(b, at).tokens = Least(b.tokens + Rate * (at - b.lastUpdate), Full)
              /\ Refilled(b, at).lastUpdate = at
         /\ b # NoKey /\ ~ (at > b.lastUpdate) =>
              /\ Refilled(b, at).tokens = b.tokens
              /\ Refilled(b, at).lastUpdate = b.lastUpdate
<1>1. Full \in Nat /\ Full \in 0..Full
  BY Positive
<1>2. CASE b = NoKey
  <2>1. Refilled(b, at) = [tokens |-> Full, lastUpdate |-> at]
    BY <1>2 DEF Refilled
  <2>2. QED
    BY <1>1, <1>2, <2>1
<1>3. CASE b # NoKey /\ at > b.lastUpdate
  <2> DEFINE x == Least(b.tokens + Rate * (at - b.lastUpdate), Full)
  <2>1. b.tokens \in 0..Full /\ b.lastUpdate \in Nat
    BY <1>3 DEF Bucket
  <2>2. Rate * (at - b.lastUpdate) \in Nat
    BY <1>3, <2>1, Positive
  <2>3. x \in 0..Full
    BY <1>1, <2>1, <2>2 DEF Least
  <2>4. Refilled(b, at) = [tokens |-> x, lastUpdate |-> at]
    BY <1>3 DEF Refilled
  <2> HIDE DEF x
  <2>5. Refilled(b, at).tokens = x /\ Refilled(b, at).lastUpdate = at
    BY <2>4
  <2>6. QED
    BY <1>3, <2>3, <2>5 DEF x
<1>4. CASE b # NoKey /\ ~ (at > b.lastUpdate)
  <2>1. b.tokens \in 0..Full /\ b.lastUpdate \in Nat
    BY <1>4 DEF Bucket
  <2>2. Refilled(b, at) = [tokens |-> b.tokens, lastUpdate |-> b.lastUpdate]
    BY <1>4 DEF Refilled
  <2>3. QED
    BY <1>4, <2>1, <2>2
<1>5. QED
  BY <1>2, <1>3, <1>4

\* The script admits when the refilled bucket holds enough, and takes it.
LEMMA BucketScript ==
  ASSUME NEW b \in Bucket \cup {NoKey}, NEW at \in Nat, NEW t \in Nat, NEW n \in Nat
  PROVE  LET d == TokenBucketScript(b, at, t, n)
             r == Refilled(b, at)
         IN  /\ d.allowed = (r.tokens >= n * Scale) /\ d.allowed \in BOOLEAN
             /\ d.bucket \in Bucket
             /\ d.bucket.tokens = IF r.tokens >= n * Scale THEN r.tokens - n * Scale ELSE r.tokens
             /\ d.bucket.lastUpdate = r.lastUpdate
             /\ d.bucket.expiresAt = t + TTL
             /\ d.retryAfter = IF r.tokens >= n * Scale THEN 0
                                 ELSE CeilDiv(n * Scale - r.tokens, Rate)
<1> DEFINE d == TokenBucketScript(b, at, t, n)
           r == Refilled(b, at)
           x == IF r.tokens >= n * Scale THEN r.tokens - n * Scale ELSE r.tokens
           f == [tokens |-> x, lastUpdate |-> r.lastUpdate, expiresAt |-> t + TTL]
<1>1. r.tokens \in 0..Full /\ r.lastUpdate \in Nat
  BY RefilledBucket
<1>2. n * Scale \in Nat /\ t + TTL \in Expiry /\ Full \in Nat
  BY Positive DEF Expiry
<1>3. /\ d.allowed = (r.tokens >= n * Scale)
      /\ d.bucket = f
      /\ d.retryAfter = IF r.tokens >= n * Scale THEN 0 ELSE CeilDiv(n * Scale - x, Rate)
  BY Zenon DEF TokenBucketScript
<1> HIDE DEF r
<1>4. x \in 0..Full /\ (~ (r.tokens >= n * Scale) => x = r.tokens)
  BY <1>1, <1>2
<1> HIDE DEF d
<1>5. d.retryAfter = IF r.tokens >= n * Scale THEN 0 ELSE CeilDiv(n * Scale - r.tokens, Rate)
  BY <1>3, <1>4, Zenon
<1> DEFINE y == x
<1>6. f = [tokens |-> y, lastUpdate |-> r.lastUpdate, expiresAt |-> t + TTL] /\ y \in 0..Full
  BY <1>4
<1> HIDE DEF x, y
<1>7. /\ f \in Bucket /\ f.tokens = y /\ f.lastUpdate = r.lastUpdate
      /\ f.expiresAt = t + TTL
  BY <1>1, <1>2, <1>6 DEF Bucket
<1> HIDE DEF f
<1>8. (r.tokens >= n * Scale) \in BOOLEAN
  BY <1>1, <1>2
<1>9. QED
  BY <1>3, <1>5, <1>7, <1>8, Zenon DEF r, d, x, y

\* Increasing a counter gives it the expiry of a new one if it was zero.
LEMMA Incrby ==
  ASSUME NEW c \in Counter \cup {NoKey}, NEW t \in Nat, NEW n \in Nat
  PROVE  /\ Value(c) \in 0..Limit
         /\ AfterIncrby(c, t, n).value = Value(c) + n
         /\ AfterIncrby(c, t, n).expiresAt = IF Value(c) = 0 THEN t + 2 * Window ELSE c.expiresAt
         /\ AfterIncrby(c, t, n).expiresAt \in Expiry
         /\ Value(c) # 0 => c # NoKey
<1>1. Value(c) \in 0..Limit /\ (Value(c) # 0 => c # NoKey)
  BY Positive DEF Value, Counter
<1>2. c # NoKey => c.expiresAt \in Expiry
  BY DEF Counter
<1>3. t + 2 * Window \in Expiry
  BY Positive DEF Expiry
<1>4. (Value(c) + n = n) = (Value(c) = 0)
  BY <1>1
<1> DEFINE e == IF Value(c) + n = n THEN t + 2 * Window ELSE c.expiresAt
<1>5. AfterIncrby(c, t, n) = [value |-> Value(c) + n, expiresAt |-> e]
  BY DEF AfterIncrby
<1>6. e = IF Value(c) = 0 THEN t + 2 * Window ELSE c.expiresAt
  BY <1>4
<1>7. e \in Expiry
  BY <1>1, <1>2, <1>3, <1>6
<1> HIDE DEF e
<1>8. AfterIncrby(c, t, n).value = Value(c) + n /\ AfterIncrby(c, t, n).expiresAt = e
  BY <1>5
<1>9. QED
  BY <1>1, <1>6, <1>7, <1>8, Zenon

\* The script counts what fits the limit; what it takes back leaves a counter
\* of the old value.
LEMMA WindowScript ==
  ASSUME NEW c \in Counter \cup {NoKey}, NEW at \in Nat, NEW t \in Nat, NEW n \in Nat
  PROVE  LET d == FixedWindowScript(c, at, t, n)
         IN  /\ d.allowed = (Value(c) + n <= Limit) /\ d.allowed \in BOOLEAN
             /\ d.counter \in Counter
             /\ d.counter.value = IF Value(c) + n <= Limit THEN Value(c) + n ELSE Value(c)
             /\ d.counter.expiresAt = IF Value(c) = 0 THEN t + 2 * Window ELSE c.expiresAt
<1> DEFINE d == FixedWindowScript(c, at, t, n)
           a == AfterIncrby(c, t, n)
           g == [a EXCEPT !.value = @ - n]
<1>1. /\ Value(c) \in 0..Limit /\ a.value = Value(c) + n
      /\ a.expiresAt = IF Value(c) = 0 THEN t + 2 * Window ELSE c.expiresAt
      /\ a.expiresAt \in Expiry
  BY Incrby
<1>2. a = [value |-> a.value, expiresAt |-> a.expiresAt]
  BY DEF AfterIncrby
<1>3. /\ d.allowed = (a.value <= Limit)
      /\ d.counter = IF a.value <= Limit THEN a ELSE g
  BY DEF FixedWindowScript
<1> HIDE DEF a, d
<1>4. d.allowed = (Value(c) + n <= Limit)
  BY <1>1, <1>3, Zenon
<1>5. g = [value |-> a.value - n, expiresAt |-> a.expiresAt]
  BY <1>2
<1>6. a.value - n = Value(c) /\ Limit \in Nat
  BY <1>1, Positive
<1>7. (Value(c) + n <= Limit) \in BOOLEAN
  BY <1>1, <1>6
<1>8. CASE Value(c) + n <= Limit
  <2>1. d.counter = a
    BY <1>1, <1>3, <1>8
  <2>2. a \in Counter
    <3>1. a.value \in 0..Limit
      BY <1>1, <1>6, <1>8
    <3>2. QED
      BY <1>1, <1>2, <3>1 DEF Counter
  <2>3. QED
    BY <1>1, <1>4, <1>8, <1>7, <2>1, <2>2, Zenon DEF d
<1>9. CASE ~ (Value(c) + n <= Limit)
  <2>1. d.counter = g
    BY <1>1, <1>3, <1>9
  <2>2. g \in Counter /\ g.value = Value(c) /\ g.expiresAt = a.expiresAt
    BY <1>1, <1>5, <1>6 DEF Counter
  <2> HIDE DEF g
  <2>3. QED
    BY <1>1, <1>4, <1>9, <1>7, <2>1, <2>2, Zenon DEF d
<1>10. QED
  BY <1>8, <1>9

\* What decision d of a script at server time t makes of counter c.
Counts(d, c, t, n) ==
  LET kept == IF Value(c) = 0 THEN t + 2 * Window ELSE c.expiresAt
  IN  /\ d.allowed \in BOOLEAN
      /\ d.allowed =>
           d.counter \in Counter /\ d.counter.value = Value(c) + n /\ d.counter.expiresAt = kept
      /\ ~ d.allowed =>
           \/ d.counter = c
           \/ d.counter \in Counter /\ d.counter.value = Value(c) /\ d.counter.expiresAt = kept

\* The sliding counter counts what fits the limit together with a share of the
\* previous counter, and does not touch its counter otherwise.
LEMMA CounterScript ==
  ASSUME NEW p \in Counter \cup {NoKey}, NEW c \in Counter \cup {NoKey},
         NEW at \in Nat, NEW t \in Nat, NEW n \in Nat, NEW slip \in Slips(Value(p), at)
  PROVE  Counts(SlidingCounterScript(p, c, at, t, n, slip), c, t, n)
<1> DEFINE d == SlidingCounterScript(p, c, at, t, n, slip)
           share == (Value(p) * Left(at)) \div SpanMs - slip
           a == AfterIncrby(c, t, n)
<1>1. /\ Value(c) \in 0..Limit /\ a.value = Value(c) + n
      /\ a.expiresAt = IF Value(c) = 0 THEN t + 2 * Window ELSE c.expiresAt
      /\ a.expiresAt \in Expiry
  BY Incrby
<1>2. a = [value |-> a.value, expiresAt |-> a.expiresAt]
  BY DEF AfterIncrby
<1>3. share \in Nat
  <2>1. Value(p) \in Nat
    BY Positive DEF Value, Counter
  <2>2. share \in 0..Value(p)
    BY <2>1, ShareBounds
  <2>3. QED
    BY <2>1, <2>2
<1>4. /\ d.allowed = (share + Value(c) + n <= Limit)
      /\ d.counter = IF share + Value(c) + n <= Limit THEN a ELSE c
  BY Zenon DEF SlidingCounterScript
<1> HIDE DEF a, d, share
<1>5. (share + Value(c) + n <= Limit) = (share + (Value(c) + n) <= Limit)
  BY <1>1, <1>3, Positive
<1>6. d.allowed = (share + (Value(c) + n) <= Limit)
  BY <1>4, <1>5, Zenon
<1>7. ASSUME share + (Value(c) + n) <= Limit
      PROVE  d.counter = a /\ a \in Counter
  <2>1. d.counter = a
    BY <1>4, <1>5, <1>7
  <2>2. a.value \in 0..Limit
    BY <1>1, <1>3, <1>7, Positive
  <2>3. QED
    BY <1>1, <1>2, <2>1, <2>2 DEF Counter
<1>8. ~ (share + (Value(c) + n) <= Limit) => d.counter = c
  BY <1>4, <1>5
<1>9. (share + (Value(c) + n) <= Limit) \in BOOLEAN
  BY <1>1, <1>3, Positive
<1>10. Counts(d, c, t, n)
  BY <1>1, <1>6, <1>7, <1>8, <1>9, Zenon DEF Counts
<1>11. QED
  BY <1>10 DEF d

\* The sequence numbers make what one call adds as many members as it has units.
LEMMA NewMembers ==
  ASSUME NEW s \in Serial \cup {NoKey}, NEW at \in Nat, NEW n \in Nat
  PROVE  /\ Value(s) \in Nat
         /\ Entries(s, at, n) \subseteq Member
         /\ IsFiniteSet(Entries(s, at, n)) /\ Cardinality(Entries(s, at, n)) = n
         /\ \A m \in Entries(s, at, n) :
              m.score = at /\ m.seq > Value(s) /\ m.seq <= Value(s) + n
<1> DEFINE v == Value(s)
           E == {[score |-> at, i |-> i, seq |-> v + i] : i \in 1..n}
           f == [i \in 1..n |-> [score |-> at, i |-> i, seq |-> v + i]]
<1>1. v \in Nat
  BY DEF Value, Serial
<1>2. Entries(s, at, n) = E
  BY DEF Entries
<1> HIDE DEF v
<1>3. f \in Bijection(1..n, E)
  <2>1. f \in [1..n -> E]
    OBVIOUS
  <2>2. \A a, b \in 1..n : f[a] = f[b] => a = b
    <3>1. \A a \in 1..n : f[a].i = a
      OBVIOUS
    <3> HIDE DEF f
    <3>2. QED
      BY <3>1
  <2>3. \A e \in E : \E a \in 1..n : f[a] = e
    OBVIOUS
  <2> HIDE DEF f, E
  <2>4. f \in Injection(1..n, E)
    BY <2>1, <2>2 DEF Injection, IsInjective
  <2>5. f \in Surjection(1..n, E)
    BY <2>1, <2>3 DEF Surjection
  <2>6. QED
    BY <2>4, <2>5 DEF Bijection
<1>4. IsFiniteSet(1..n) /\ Cardinality(1..n) = n
  <2>1. 1 \in Int /\ n \in Int
    OBVIOUS
  <2>2. IsFiniteSet(1..n) /\ Cardinality(1..n) = IF 1 > n THEN 0 ELSE n - 1 + 1
    BY <2>1, FS_Interval
  <2>3. QED
    BY <2>2
<1>5. ExistsBijection(1..n, E)
  BY <1>3 DEF ExistsBijection
<1>6. E \subseteq Member /\ \A m \in E : m.score = at /\ m.seq > v /\ m.seq <= v + n
  BY <1>1 DEF Member
<1> HIDE DEF E, f
<1>7. IsFiniteSet(E) /\ Cardinality(E) = n
  BY <1>4, <1>5, FS_Bijection
<1>8. QED
  BY <1>1, <1>2, <1>6, <1>7, Zenon DEF v

\* What is known of a log.
LogOK(l) == l # NoKey => /\ IsFiniteSet(l.members) /\ l.members # {}
                         /\ Cardinality(l.members) <= Limit

LEMMA SortedSetMembers ==
  ASSUME NEW M \in SUBSET Member, IsFiniteSet(M), Cardinality(M) <= Limit,
         NEW e, M # {} => e \in Expiry
  PROVE  LET l == SortedSet(M, e)
         IN  /\ l \in Log \cup {NoKey} /\ LogOK(l) /\ Members(l) = M
             /\ (l = NoKey) = (M = {})
             /\ l # NoKey => l.expiresAt = e
<1>1. CASE M = {}
  BY <1>1 DEF SortedSet, Members, LogOK
<1>2. CASE M # {}
  <2> DEFINE l == [members |-> M, expiresAt |-> e]
  <2>1. SortedSet(M, e) = l
    BY <1>2 DEF SortedSet
  <2>2. l \in Log /\ l.members = M /\ l.expiresAt = e
    BY <1>2 DEF Log
  <2>3. l # NoKey
    BY <2>2, NothingAssumption
  <2> HIDE DEF l
  <2>4. QED
    BY <1>2, <2>1, <2>2, <2>3 DEF LogOK, Members
<1>3. QED
  BY <1>1, <1>2

\* The members that a script called with clock value "at" leaves in log l.
Remaining(l, at) == {m \in Members(l) : m.score > at - Window}

LEMMA RemainingMembers ==
  ASSUME NEW l \in Log \cup {NoKey}, LogOK(l), NEW at \in Nat
  PROVE  /\ IsFiniteSet(Members(l)) /\ Cardinality(Members(l)) <= Limit
         /\ Members(l) \subseteq Member
         /\ IsFiniteSet(Remaining(l, at)) /\ Remaining(l, at) \subseteq Members(l)
         /\ Cardinality(Remaining(l, at)) \in 0..Limit
         /\ Remaining(l, at) # {} => l # NoKey /\ l.expiresAt \in Expiry
<1>1. IsFiniteSet(Members(l)) /\ Cardinality(Members(l)) <= Limit
  BY FS_EmptySet, Positive DEF Members, LogOK
<1>2. Members(l) \subseteq Member /\ (l # NoKey => l.expiresAt \in Expiry)
  BY DEF Members, Log
<1>3. Remaining(l, at) \in SUBSET Members(l)
  BY DEF Remaining
<1>4. /\ IsFiniteSet(Remaining(l, at))
      /\ Cardinality(Remaining(l, at)) <= Cardinality(Members(l))
  BY <1>1, <1>3, FS_Subset
<1>5. Cardinality(Remaining(l, at)) \in Nat /\ Cardinality(Members(l)) \in Nat
  BY <1>1, <1>4, FS_CardinalityType
<1>6. Remaining(l, at) # {} => l # NoKey
  BY <1>3 DEF Members
<1>7. QED
  BY <1>1, <1>2, <1>3, <1>4, <1>5, <1>6, Positive

\* The script admits what fits the remaining log, and adds it.
\* What a script that answers d has made of log l and serial number s.
LogEffect(d, l, s, at, t, n) ==
  /\ d.allowed \in BOOLEAN
  /\ d.log \in Log \cup {NoKey} /\ LogOK(d.log)
  /\ d.seq \in Serial \cup {NoKey} /\ (s # NoKey => d.seq # NoKey)
  /\ d.allowed =>
       /\ Members(d.log) = Remaining(l, at) \cup Entries(s, at, n)
       /\ d.log # NoKey => d.log.expiresAt = t + TTL
       /\ Value(d.seq) = Value(s) + n
       /\ d.seq # NoKey => d.seq.expiresAt = t + TTL
  /\ ~ d.allowed =>
       /\ Members(d.log) = Remaining(l, at)
       /\ d.log # NoKey => l # NoKey /\ d.log.expiresAt = l.expiresAt
       /\ d.seq = s

LEMMA LogScript ==
  ASSUME NEW l \in Log \cup {NoKey}, LogOK(l), NEW s \in Serial \cup {NoKey},
         NEW at \in Nat, NEW t \in Nat, NEW n \in Nat
  PROVE  LogEffect(SlidingLogScript(l, s, at, t, n), l, s, at, t, n)
<1> DEFINE d == SlidingLogScript(l, s, at, t, n)
           kept == Remaining(l, at)
           fits == Cardinality(kept) + n <= Limit
           more == kept \cup Entries(s, at, n)
           serial == [value |-> Value(s) + n, expiresAt |-> t + TTL]
<1>1. /\ IsFiniteSet(kept) /\ kept \in SUBSET Member /\ Cardinality(kept) \in 0..Limit
      /\ kept # {} => l # NoKey /\ l.expiresAt \in Expiry
  BY RemainingMembers
<1>2. /\ Value(s) \in Nat /\ Entries(s, at, n) \subseteq Member
      /\ IsFiniteSet(Entries(s, at, n)) /\ Cardinality(Entries(s, at, n)) = n
  BY NewMembers
<1>3. t + TTL \in Expiry /\ Limit \in Nat
  BY Positive DEF Expiry
<1>4. /\ d.allowed = fits
      /\ d.log = IF fits THEN SortedSet(more, t + TTL) ELSE SortedSet(kept, l.expiresAt)
      /\ d.seq = IF fits /\ (s # NoKey \/ n > 0) THEN serial ELSE s
  BY Zenon DEF SlidingLogScript, Remaining
<1>5. more \in SUBSET Member /\ IsFiniteSet(more)
      /\ Cardinality(more) <= Cardinality(kept) + n
  <2>1. /\ IsFiniteSet(more)
        /\ Cardinality(more) = Cardinality(kept) + n - Cardinality(kept \cap Entries(s, at, n))
    BY <1>1, <1>2, FS_Union
  <2>2. Cardinality(kept \cap Entries(s, at, n)) \in Nat
    BY <1>1, FS_Intersection, FS_CardinalityType
  <2>3. QED
    BY <1>1, <1>2, <2>1, <2>2
<1>6. /\ serial \in Serial /\ serial.value = Value(s) + n /\ serial.expiresAt = t + TTL
      /\ serial # NoKey
  <2>1. serial \in Serial /\ serial.value = Value(s) + n /\ serial.expiresAt = t + TTL
    BY <1>2, <1>3 DEF Serial
  <2>2. QED
    BY <2>1, NothingAssumption
<1> HIDE DEF d, kept, more, serial, fits
<1>7. d.allowed \in BOOLEAN
  <2>1. fits \in BOOLEAN
    BY DEF fits
  <2>2. QED
    BY <1>4, <2>1, Zenon
<1>8. CASE fits
  <2> DEFINE x == SortedSet(more, t + TTL)
  <2>1. Cardinality(more) <= Limit
    <3>1. Cardinality(more) \in Nat
      BY <1>5, FS_CardinalityType
    <3>2. QED
      BY <1>1, <1>3, <1>5, <1>8, <3>1 DEF fits
  <2>2. /\ x \in Log \cup {NoKey} /\ LogOK(x) /\ Members(x) = more
        /\ x # NoKey => x.expiresAt = t + TTL
    BY <1>3, <1>5, <2>1, SortedSetMembers
  <2>3. d.log = x /\ d.allowed
    BY <1>4, <1>8
  <2>4. d.seq = IF s # NoKey \/ n > 0 THEN serial ELSE s
    BY <1>4, <1>8
  <2> HIDE DEF x
  <2>5. /\ d.seq \in Serial \cup {NoKey} /\ (s # NoKey => d.seq # NoKey)
        /\ Value(d.seq) = Value(s) + n
        /\ d.seq # NoKey => d.seq.expiresAt = t + TTL
    <3>1. CASE s # NoKey \/ n > 0
      BY <1>6, <2>4, <3>1 DEF Value
    <3>2. CASE s = NoKey /\ ~ (n > 0)
      BY <1>2, <2>4, <3>2 DEF Value
    <3>3. QED
      BY <3>1, <3>2
  <2>6. LogEffect(d, l, s, at, t, n)
    BY <1>7, <2>2, <2>3, <2>5 DEF LogEffect, kept, more
  <2>7. QED
    BY <2>6 DEF d
<1>9. CASE ~ fits
  <2> DEFINE x == SortedSet(kept, l.expiresAt)
  <2>1. Cardinality(kept) <= Limit /\ (kept # {} => l.expiresAt \in Expiry)
    BY <1>1, <1>3
  <2>2. /\ x \in Log \cup {NoKey} /\ LogOK(x) /\ Members(x) = kept
        /\ (x = NoKey) = (kept = {})
        /\ x # NoKey => x.expiresAt = l.expiresAt
    BY <1>1, <2>1, SortedSetMembers
  <2>3. d.log = x /\ ~ d.allowed /\ d.seq = s
    BY <1>4, <1>9
  <2> HIDE DEF x
  <2>4. d.log # NoKey => l # NoKey
    BY <1>1, <2>2, <2>3
  <2>5. LogEffect(d, l, s, at, t, n)
    BY <1>7, <2>2, <2>3, <2>4 DEF LogEffect, kept
  <2>6. QED
    BY <2>5 DEF d
<1>10. QED
  BY <1>8, <1>9

-----------------------------------------------------------------------------

(* Types *)

StoreOK == TypeOK /\ \A k \in Keys : LogOK(log[k])

LEMMA NamesTyped ==
  ASSUME NEW k
  PROVE  Names(k) \subseteq Kinds \X WindowNums /\ <<"bucket", 0>> \in Kinds \X WindowNums
<1>1. 0 \in WindowNums
  <2>1. MaxTime + Drift \in Nat
    BY Positive, RedisAssumption
  <2>2. QED
    BY <2>1, WindowTypes DEF WindowNums
<1>2. QED
  BY <1>1 DEF Names, Kinds

\* A step that changes the database keeps the running Reset, if there is one.
LEMMA ScanKept ==
  ASSUME scan \in Scan \cup {NoScan}, KeepScan
  PROVE  scan' \in Scan \cup {NoScan}
<1>1. CASE scan = NoScan /\ scan' = NoScan
  BY <1>1
<1>2. ASSUME NEW k \in Keys, scan # NoScan,
             scan' = [scan EXCEPT !.must = @ \cap Names(k)']
      PROVE  scan' \in Scan
  <2> DEFINE m == scan.must \cap Names(k)'
  <2>1. scan \in Scan /\ scan' = [scan EXCEPT !.must = m]
    BY <1>2
  <2>2. m \in SUBSET (Kinds \X WindowNums)
    BY <2>1 DEF Scan
  <2> HIDE DEF m
  <2>3. QED
    BY <2>1, <2>2 DEF Scan
<1>3. QED
  BY <1>1, <1>2 DEF KeepScan

\* What is entered is entered for one key and one window.
LEMMA EnterStep ==
  ASSUME TypeOK, NEW k \in Keys, NEW n \in Costs, NEW at \in now..(now + DriftOf(k)), NEW d,
         d.allowed \in BOOLEAN, Enter(k, n, at, d)
  PROVE  /\ LedgerTypeOK' /\ now' = now /\ before' = before
         /\ admitted'[k] = IF d.allowed THEN admitted[k] + n ELSE admitted[k]
         /\ \A j \in Keys : j # k => admitted'[j] = admitted[j] /\ windowUse'[j] = windowUse[j]
         /\ reply' = [key |-> k, n |-> n, allowed |-> d.allowed]
         /\ scan' \in Scan \cup {NoScan}
         /\ windowUse' \in [Keys -> [WindowNums -> Nat]]
         /\ \A w \in WindowNums : windowUse'[k][w] =
              IF d.allowed /\ k \in WindowKeys \cup CounterKeys /\ w = WindowNum(at)
                THEN windowUse[k][w] + n ELSE windowUse[k][w]
<1>1. /\ LedgerTypeOK /\ scan \in Scan \cup {NoScan}
      /\ windowUse \in [Keys -> [WindowNums -> Nat]]
      /\ admitted \in [Keys -> Nat] /\ n \in Nat
  BY Positive DEF TypeOK, LedgerTypeOK
<1>2. LedgerTypeOK' /\ now' = now
  BY <1>1, AnswerKeepsLedger DEF Enter
<1>3. before' = before
  BY DEF Enter, Admit, Refuse
<1>4. /\ admitted'[k] = IF d.allowed THEN admitted[k] + n ELSE admitted[k]
      /\ \A j \in Keys : j # k => admitted'[j] = admitted[j]
  BY <1>1 DEF Enter, Admit, Refuse
<1>5. reply' = [key |-> k, n |-> n, allowed |-> d.allowed]
  BY DEF Enter, Admit, Refuse
<1>6. scan' \in Scan \cup {NoScan}
  BY <1>1, ScanKept DEF Enter
<1>7. WindowNum(at) \in WindowNums
  BY <1>1, Windowed DEF LedgerTypeOK
<1>8. CASE d.allowed /\ k \in WindowKeys \cup CounterKeys
  <2> DEFINE w == WindowNum(at)
             u == windowUse[k]
             v == [u EXCEPT ![w] = u[w] + n]
  <2>1. windowUse' = [windowUse EXCEPT ![k] = v]
    BY <1>8 DEF Enter
  <2>2. /\ v \in [WindowNums -> Nat]
        /\ \A x \in WindowNums : v[x] = IF x = w THEN u[x] + n ELSE u[x]
    <3>1. u \in [WindowNums -> Nat] /\ w \in WindowNums
      BY <1>1, <1>7
    <3> HIDE DEF u, w
    <3>2. QED
      BY <1>1, <3>1
  <2> HIDE DEF v, u, w
  <2>3. /\ windowUse' \in [Keys -> [WindowNums -> Nat]] /\ windowUse'[k] = v
        /\ \A j \in Keys : j # k => windowUse'[j] = windowUse[j]
    BY <1>1, <2>1, <2>2
  <2>4. QED
    BY <1>2, <1>3, <1>4, <1>5, <1>6, <1>8, <2>2, <2>3 DEF u, w
<1>9. CASE ~ (d.allowed /\ k \in WindowKeys \cup CounterKeys)
  <2>1. windowUse' = windowUse
    BY <1>9 DEF Enter
  <2>2. QED
    BY <1>1, <1>2, <1>3, <1>4, <1>5, <1>6, <1>9, <2>1
<1>10. QED
  BY <1>8, <1>9

\* Of a key that runs a script everything keeps its type, and nothing of the
\* other keys changes.
LEMMA AllowTyped ==
  ASSUME StoreOK, NEW k \in Keys, NEW n \in Costs, NEW at \in now..(now + DriftOf(k)),
         \/ AllowTokenBucket(k, n, at)
         \/ AllowFixedWindow(k, n, at)
         \/ AllowSlidingWindowCounter(k, n, at)
         \/ AllowSlidingWindowLog(k, n, at)
  PROVE  /\ StoreOK'
         /\ now' = now /\ before' = before
         /\ \A j \in Keys : j # k =>
              /\ admitted'[j] = admitted[j] /\ windowUse'[j] = windowUse[j]
              /\ bucket'[j] = bucket[j] /\ counter'[j] = counter[j]
              /\ log'[j] = log[j] /\ seq'[j] = seq[j]
<1>1. /\ bucket \in [Keys -> Bucket \cup {NoKey}]
      /\ counter \in [Keys -> [WindowNums -> Counter \cup {NoKey}]]
      /\ log \in [Keys -> Log \cup {NoKey}] /\ LogOK(log[k])
      /\ seq \in [Keys -> Serial \cup {NoKey}]
      /\ TypeOK /\ now \in Times
  BY DEF StoreOK, TypeOK, LedgerTypeOK
<1>2. /\ n \in Nat /\ at \in Nat /\ now \in Nat
      /\ WindowNum(at) \in WindowNums
      /\ WindowNum(at) # 0 => WindowNum(at) - 1 \in WindowNums
  BY <1>1, Windowed, Positive
<1> DEFINE Same(x, y) == \A j \in Keys : j # k => x[j] = y[j]
           Changed == /\ bucket' \in [Keys -> Bucket \cup {NoKey}] /\ Same(bucket', bucket)
                      /\ counter' \in [Keys -> [WindowNums -> Counter \cup {NoKey}]]
                      /\ Same(counter', counter)
                      /\ log' \in [Keys -> Log \cup {NoKey}] /\ Same(log', log)
                      /\ LogOK(log'[k])
                      /\ seq' \in [Keys -> Serial \cup {NoKey}] /\ Same(seq', seq)
<1>3. ASSUME NEW d, d.allowed \in BOOLEAN, Enter(k, n, at, d), Changed
      PROVE  StoreOK' /\ now' = now /\ before' = before
             /\ Same(admitted', admitted) /\ Same(windowUse', windowUse)
  <2>1. /\ LedgerTypeOK' /\ now' = now /\ before' = before
        /\ Same(admitted', admitted) /\ Same(windowUse', windowUse)
        /\ scan' \in Scan \cup {NoScan}
        /\ windowUse' \in [Keys -> [WindowNums -> Nat]]
    BY <1>1, <1>3, EnterStep
  <2>2. \A j \in Keys : LogOK(log'[j])
    BY <1>3 DEF StoreOK
  <2>3. \A j \in Keys : log'[j] # NoKey =>
          log'[j].members # {} /\ Cardinality(log'[j].members) <= Limit
    BY <2>2, Zenon DEF LogOK
  <2>4. TypeOK'
    BY <1>3, <2>1, <2>3 DEF TypeOK
  <2>5. QED
    BY <2>1, <2>2, <2>4, Zenon DEF StoreOK, LogOK
<1>4. CASE AllowTokenBucket(k, n, at)
  <2> DEFINE d == TokenBucketScript(bucket[k], at, now, n)
  <2>1. d.bucket \in Bucket /\ d.allowed \in BOOLEAN
    BY <1>1, <1>2, BucketScript
  <2>2. /\ bucket' = [bucket EXCEPT ![k] = d.bucket] /\ UNCHANGED <<counter, log, seq>>
        /\ Enter(k, n, at, d)
    BY <1>4 DEF AllowTokenBucket
  <2> HIDE DEF d
  <2>3. Changed
    BY <1>1, <2>1, <2>2
  <2>4. QED
    BY <1>3, <2>1, <2>2, <2>3
<1>5. CASE AllowFixedWindow(k, n, at)
  <2> DEFINE w == WindowNum(at)
             c == counter[k]
             d == FixedWindowScript(c[w], at, now, n)
             e == [c EXCEPT ![w] = d.counter]
  <2>1. d.counter \in Counter /\ d.allowed \in BOOLEAN
    BY <1>1, <1>2, WindowScript
  <2>2. /\ counter' = [counter EXCEPT ![k] = e] /\ UNCHANGED <<bucket, log, seq>>
        /\ Enter(k, n, at, d)
    BY <1>5 DEF AllowFixedWindow
  <2> HIDE DEF d
  <2>3. e \in [WindowNums -> Counter \cup {NoKey}]
    BY <1>1, <1>2, <2>1
  <2> HIDE DEF e
  <2>4. Changed
    BY <1>1, <2>2, <2>3
  <2>5. QED
    BY <1>3, <2>1, <2>2, <2>4
<1>6. CASE AllowSlidingWindowCounter(k, n, at)
  <2> DEFINE w == WindowNum(at)
             c == counter[k]
             p == IF w = 0 THEN NoKey ELSE c[w - 1]
  <2>1. p \in Counter \cup {NoKey} /\ c[w] \in Counter \cup {NoKey}
    BY <1>1, <1>2
  <2> HIDE DEF p
  <2>2. PICK slip \in Slips(Value(p), at) :
          LET d == SlidingCounterScript(p, c[w], at, now, n, slip)
          IN  /\ counter' = [counter EXCEPT ![k][w] = d.counter]
              /\ UNCHANGED <<bucket, log, seq>>
              /\ Enter(k, n, at, d)
    BY <1>6 DEF AllowSlidingWindowCounter, p
  <2> DEFINE d == SlidingCounterScript(p, c[w], at, now, n, slip)
             e == [c EXCEPT ![w] = d.counter]
  <2>3. Counts(d, c[w], now, n)
    BY <1>2, <2>1, CounterScript
  <2>4. /\ counter' = [counter EXCEPT ![k] = e] /\ UNCHANGED <<bucket, log, seq>>
        /\ Enter(k, n, at, d)
    BY <2>2
  <2> HIDE DEF d
  <2>5. d.counter \in Counter \cup {NoKey}
    BY <2>1, <2>3, Zenon DEF Counts
  <2>6. e \in [WindowNums -> Counter \cup {NoKey}]
    BY <1>1, <1>2, <2>5
  <2> HIDE DEF e
  <2>7. Changed
    BY <1>1, <2>4, <2>6
  <2>8. d.allowed \in BOOLEAN
    BY <2>3, Zenon DEF Counts
  <2>9. QED
    BY <1>3, <2>4, <2>7, <2>8
<1>7. CASE AllowSlidingWindowLog(k, n, at)
  <2> DEFINE d == SlidingLogScript(log[k], seq[k], at, now, n)
  <2>1. LogEffect(d, log[k], seq[k], at, now, n)
    BY <1>1, <1>2, LogScript
  <2>2. /\ log' = [log EXCEPT ![k] = d.log] /\ seq' = [seq EXCEPT ![k] = d.seq]
        /\ UNCHANGED <<bucket, counter>>
        /\ Enter(k, n, at, d)
    BY <1>7 DEF AllowSlidingWindowLog
  <2> HIDE DEF d
  <2>8. /\ d.log \in Log \cup {NoKey} /\ LogOK(d.log) /\ d.seq \in Serial \cup {NoKey}
        /\ d.allowed \in BOOLEAN
    BY <2>1 DEF LogEffect
  <2>3. /\ log' \in [Keys -> Log \cup {NoKey}] /\ Same(log', log) /\ log'[k] = d.log
        /\ seq' \in [Keys -> Serial \cup {NoKey}] /\ Same(seq', seq)
        /\ bucket' = bucket /\ counter' = counter
    BY <1>1, <2>8, <2>2
  <2>4. LogOK(log'[k])
    BY <2>8, <2>3, Zenon
  <2>5. Changed
    BY <1>1, <2>3, <2>4
  <2>6. QED
    BY <1>3, <2>8, <2>2, <2>5
<1>8. QED
  BY <1>4, <1>5, <1>6, <1>7

LEMMA TickTyped ==
  ASSUME StoreOK, Tick
  PROVE  StoreOK'
<1>1. /\ LedgerTypeOK' /\ now' = now + 1
      /\ bucket \in [Keys -> Bucket \cup {NoKey}]
      /\ counter \in [Keys -> [WindowNums -> Counter \cup {NoKey}]]
      /\ log \in [Keys -> Log \cup {NoKey}]
      /\ seq \in [Keys -> Serial \cup {NoKey}]
      /\ scan' \in Scan \cup {NoScan}
      /\ windowUse' \in [Keys -> [WindowNums -> Nat]]
  BY TickKeepsLedger, ScanKept DEF StoreOK, TypeOK, Tick
<1>2. \A e, t : Alive(e, t) \in {e, NoKey}
  BY DEF Alive
<1>3. bucket' \in [Keys -> Bucket \cup {NoKey}]
  BY <1>1, <1>2 DEF Tick
<1>4. counter' \in [Keys -> [WindowNums -> Counter \cup {NoKey}]]
  BY <1>1, <1>2 DEF Tick
<1>5. log' \in [Keys -> Log \cup {NoKey}] /\ \A k \in Keys : log'[k] \in {log[k], NoKey}
  BY <1>1, <1>2 DEF Tick
<1>6. seq' \in [Keys -> Serial \cup {NoKey}]
  BY <1>1, <1>2 DEF Tick
<1>7. \A k \in Keys : LogOK(log'[k])
  BY <1>5, Zenon DEF StoreOK, LogOK
<1>8. \A k \in Keys : log'[k] # NoKey =>
        log'[k].members # {} /\ Cardinality(log'[k].members) <= Limit
  BY <1>7, Zenon DEF LogOK
<1>9. TypeOK'
  BY <1>1, <1>3, <1>4, <1>5, <1>6, <1>8 DEF TypeOK
<1>10. QED
  BY <1>7, <1>9, Zenon DEF StoreOK, LogOK

\* Between its start and its DEL a Reset changes nothing but what it has found.
LEMMA ScanTyped ==
  ASSUME StoreOK, \/ ScanPage \/ ScanEnds \/ ScanFails \/ DelFails
                  \/ \E k \in Keys : BeginReset(k)
  PROVE  StoreOK' /\ UNCHANGED <<ledger, db, windowUse>>
<1>1. UNCHANGED <<ledger, db, windowUse>>
  BY DEF ScanPage, ScanEnds, ScanFails, DelFails, BeginReset
<1>2. scan \in Scan \cup {NoScan}
  BY DEF StoreOK, TypeOK
<1>3. scan' \in Scan \cup {NoScan}
  <2>1. ASSUME NEW k \in Keys, BeginReset(k)
        PROVE  scan' \in Scan
    <3>1. scan' = [key |-> k, phase |-> "scan", must |-> Names(k), found |-> {<<"bucket", 0>>}]
      BY <2>1 DEF BeginReset
    <3>2. Names(k) \in SUBSET (Kinds \X WindowNums)
          /\ {<<"bucket", 0>>} \in SUBSET (Kinds \X WindowNums)
      BY NamesTyped
    <3>3. QED
      BY <3>1, <3>2 DEF Scan
  <2>2. CASE ScanPage
    <3>1. PICK page \in SUBSET (Names(scan.key) \ scan.found) :
            scan' = [scan EXCEPT !.found = @ \cup page]
      BY <2>2 DEF ScanPage
    <3> DEFINE f == scan.found \cup page
    <3>2. scan \in Scan /\ scan' = [scan EXCEPT !.found = f]
      BY <1>2, <2>2, <3>1 DEF ScanPage
    <3>3. f \in SUBSET (Kinds \X WindowNums)
      BY <3>2, NamesTyped DEF Scan
    <3> HIDE DEF f
    <3>4. QED
      BY <3>2, <3>3 DEF Scan
  <2>3. CASE ScanEnds \/ ScanFails
    <3>1. scan \in Scan /\ scan' = [scan EXCEPT !.phase = "del"]
      BY <1>2, <2>3 DEF ScanEnds, ScanFails
    <3>2. QED
      BY <3>1 DEF Scan
  <2>4. CASE DelFails
    BY <2>4 DEF DelFails
  <2>5. QED
    BY <2>1, <2>2, <2>3, <2>4
<1>4. TypeOK'
  BY <1>1, <1>3 DEF StoreOK, TypeOK, LedgerTypeOK, ledger, db
<1>5. \A k \in Keys : LogOK(log[k])'
  BY <1>1 DEF StoreOK, LogOK, db
<1>6. QED
  BY <1>1, <1>4, <1>5 DEF StoreOK

\* A DEL removes what was found of one key, and of its ledger everything.
LEMMA DelTyped ==
  ASSUME StoreOK, Del
  PROVE  /\ StoreOK'
         /\ \E k \in Keys :
              /\ Forget(k)
              /\ \A w \in WindowNums : windowUse'[k][w] = 0
              /\ bucket'[k] = NoKey
              /\ \A w \in WindowNums : counter'[k][w] \in {counter[k][w], NoKey}
              /\ log'[k] \in {log[k], NoKey} /\ seq'[k] \in {seq[k], NoKey}
              /\ \A j \in Keys : j # k =>
                   /\ bucket'[j] = bucket[j] /\ counter'[j] = counter[j]
                   /\ log'[j] = log[j] /\ seq'[j] = seq[j] /\ windowUse'[j] = windowUse[j]
<1> DEFINE k == scan.key
           c == [w \in WindowNums |->
                   IF <<"counter", w>> \in scan.found THEN NoKey ELSE counter[k][w]]
           l == IF <<"log", 0>> \in scan.found THEN NoKey ELSE log[k]
           s == IF <<"seq", 0>> \in scan.found THEN NoKey ELSE seq[k]
           u == [w \in WindowNums |-> 0]
<1>1. /\ bucket \in [Keys -> Bucket \cup {NoKey}]
      /\ counter \in [Keys -> [WindowNums -> Counter \cup {NoKey}]]
      /\ log \in [Keys -> Log \cup {NoKey}]
      /\ seq \in [Keys -> Serial \cup {NoKey}]
      /\ windowUse \in [Keys -> [WindowNums -> Nat]]
      /\ k \in Keys
  BY DEF StoreOK, TypeOK, Del, Scan
<1>2. /\ Forget(k)
      /\ bucket' = [bucket EXCEPT ![k] = NoKey]
      /\ counter' = [counter EXCEPT ![k] = c]
      /\ log' = [log EXCEPT ![k] = l]
      /\ seq' = [seq EXCEPT ![k] = s]
      /\ windowUse' = [windowUse EXCEPT ![k] = u]
      /\ scan' = NoScan
  BY DEF Del
<1>3. /\ c \in [WindowNums -> Counter \cup {NoKey}]
      /\ \A w \in WindowNums : c[w] \in {counter[k][w], NoKey}
      /\ l \in {log[k], NoKey} /\ s \in {seq[k], NoKey}
      /\ u \in [WindowNums -> Nat] /\ \A w \in WindowNums : u[w] = 0
  BY <1>1
<1> HIDE DEF k, c, l, s, u
<1>4. /\ bucket' \in [Keys -> Bucket \cup {NoKey}] /\ bucket'[k] = NoKey
      /\ counter' \in [Keys -> [WindowNums -> Counter \cup {NoKey}]] /\ counter'[k] = c
      /\ log' \in [Keys -> Log \cup {NoKey}] /\ log'[k] = l
      /\ seq' \in [Keys -> Serial \cup {NoKey}] /\ seq'[k] = s
      /\ windowUse' \in [Keys -> [WindowNums -> Nat]] /\ windowUse'[k] = u
      /\ \A j \in Keys : j # k =>
           /\ bucket'[j] = bucket[j] /\ counter'[j] = counter[j]
           /\ log'[j] = log[j] /\ seq'[j] = seq[j] /\ windowUse'[j] = windowUse[j]
  BY <1>1, <1>2, <1>3
<1>5. LedgerTypeOK'
  BY <1>1, <1>2, ForgetKeepsLedger DEF StoreOK, TypeOK
<1>6. \A j \in Keys : log'[j] \in {log[j], NoKey}
  BY <1>3, <1>4
<1>7. \A j \in Keys : LogOK(log'[j])
  BY <1>6, Zenon DEF StoreOK, LogOK
<1>8. \A j \in Keys : log'[j] # NoKey =>
        log'[j].members # {} /\ Cardinality(log'[j].members) <= Limit
  BY <1>7, Zenon DEF LogOK
<1>9. TypeOK'
  BY <1>2, <1>4, <1>5, <1>8 DEF TypeOK
<1>10. StoreOK'
  BY <1>7, <1>9, Zenon DEF StoreOK, LogOK
<1>11. QED
  BY <1>1, <1>2, <1>3, <1>4, <1>10

LEMMA StoreOKInit == Init => StoreOK
<1> SUFFICES ASSUME Init PROVE StoreOK
  OBVIOUS
<1>1. LedgerTypeOK
  BY Positive DEF Init, LedgerInit, LedgerTypeOK, Times
<1>2. TypeOK
  BY <1>1 DEF Init, TypeOK
<1>3. QED
  BY <1>2 DEF Init, StoreOK, LogOK

LEMMA StoreOKStep ==
  ASSUME StoreOK, [Next]_vars
  PROVE  StoreOK'
<1>1. CASE Tick
  BY <1>1, TickTyped
<1>2. CASE \/ ScanPage \/ ScanEnds \/ ScanFails \/ DelFails \/ \E k \in Keys : BeginReset(k)
  BY <1>2, ScanTyped
<1>3. CASE Del
  BY <1>3, DelTyped
<1>4. ASSUME NEW k \in Keys, Allow(k)
      PROVE  StoreOK'
  BY <1>4, AllowTyped DEF Allow
<1>5. CASE UNCHANGED vars
  <2>1. TypeOK'
    BY <1>5 DEF StoreOK, TypeOK, LedgerTypeOK, vars, ledger, db
  <2>2. \A k \in Keys : LogOK(log[k])'
    BY <1>5 DEF StoreOK, LogOK, vars, db
  <2>3. QED
    BY <2>1, <2>2 DEF StoreOK
<1>6. QED
  BY <1>1, <1>2, <1>3, <1>4, <1>5 DEF Next, Resetting

\* The store holds what the types say: no counter and no log beyond the limit,
\* no bucket beyond its capacity, whatever the scripts bring (redis.go:44-231).
THEOREM StoreTypeCorrect == Spec => []TypeOK
<1>1. StoreOK => TypeOK
  BY DEF StoreOK
<1>2. QED
  BY <1>1, StoreOKInit, StoreOKStep, PTL DEF Spec

-----------------------------------------------------------------------------
(* The token bucket *)

\* A bucket expires only when it would be full again by every client's clock.
FullOnExpiry == Full <= Rate * (TTL + 1 - Drift)

\* What bucket b holds and what the ledger has of any span are at most a full
\* bucket and what flows in up to the last refill, and nothing was admitted since.
Filled(b, k) ==
  /\ b.expiresAt \in TTL..(now + TTL)
  /\ b.lastUpdate <= b.expiresAt - TTL + DriftOf(k)
  /\ \A s \in 0..now :
       IF s <= b.lastUpdate
         THEN Since(k, s) * Scale + b.tokens <= Full + Rate * (b.lastUpdate - s)
         ELSE Since(k, s) = 0

\* Without a bucket, the next call may take a full one.
BucketInv(k) ==
  IF bucket[k] = NoKey THEN \A s \in 0..now : Since(k, s) * Scale <= Rate * (now - s)
                       ELSE Filled(bucket[k], k)

BucketsInv == \A k \in BucketKeys : BucketInv(k)

LEMMA Flows ==
  /\ \A a \in Int : Rate * a \in Int /\ (0 <= a => 0 <= Rate * a)
  /\ \A a, b \in Int : a <= b => Rate * a <= Rate * b
  /\ \A a, b \in Int : Rate * (a + b) = Rate * a + Rate * b
<1>1. Rate \in Nat
  BY Positive
<1>2. \A a \in Int : Rate * a \in Int /\ (0 <= a => 0 <= Rate * a)
  BY <1>1
<1>3. \A a, b \in Int : Rate * (a + b) = Rate * a + Rate * b
  BY <1>1
<1>4. ASSUME NEW a \in Int, NEW b \in Int, a <= b
      PROVE  Rate * a <= Rate * b
  <2>1. /\ b - a \in Int /\ 0 <= b - a /\ a + (b - a) = b
    BY <1>4
  <2>2. Rate * b = Rate * a + Rate * (b - a) /\ 0 <= Rate * (b - a)
    BY <1>2, <1>3, <2>1
  <2>3. Rate * a \in Int /\ Rate * (b - a) \in Int
    BY <1>2, <2>1
  <2>4. QED
    BY <2>2, <2>3
<1>5. QED
  BY <1>2, <1>3, <1>4

\* What is known of a key in a state of the types.
LEMMA KeyFacts ==
  ASSUME StoreOK, NEW k \in Keys
  PROVE  /\ now \in Nat /\ now \in Times /\ \A s \in 0..now : s \in Times
         /\ admitted[k] \in Nat /\ before[k] \in [Times -> Nat]
         /\ \A s \in 0..now : Since(k, s) \in Int
         /\ DriftOf(k) \in 0..Drift /\ Drift \in Nat
         /\ bucket[k] \in Bucket \cup {NoKey}
         /\ counter[k] \in [WindowNums -> Counter \cup {NoKey}]
         /\ log[k] \in Log \cup {NoKey} /\ LogOK(log[k])
         /\ seq[k] \in Serial \cup {NoKey}
         /\ windowUse[k] \in [WindowNums -> Nat]
<1>1. /\ now \in Times /\ admitted[k] \in Nat /\ before[k] \in [Times -> Nat]
      /\ bucket[k] \in Bucket \cup {NoKey}
      /\ counter[k] \in [WindowNums -> Counter \cup {NoKey}]
      /\ log[k] \in Log \cup {NoKey} /\ LogOK(log[k])
      /\ seq[k] \in Serial \cup {NoKey}
      /\ windowUse[k] \in [WindowNums -> Nat]
  BY DEF StoreOK, TypeOK, LedgerTypeOK
<1>2. now \in Nat /\ \A s \in 0..now : s \in Times
  BY <1>1, LedgerAssumption DEF Times
<1>3. \A s \in 0..now : Since(k, s) \in Int
  BY <1>1, <1>2 DEF Since
<1>4. DriftOf(k) \in 0..Drift /\ Drift \in Nat
  BY RedisAssumption DEF DriftOf
<1>5. QED
  BY <1>1, <1>2, <1>3, <1>4

LEMMA SameBucket ==
  ASSUME NEW k, BucketInv(k), now' = now, bucket'[k] = bucket[k],
         admitted'[k] = admitted[k], before'[k] = before[k]
  PROVE  BucketInv(k)'
BY DEF BucketInv, Filled, Since

LEMMA TickBucket ==
  ASSUME FullOnExpiry, StoreOK, NEW k \in BucketKeys, BucketInv(k), Tick
  PROVE  BucketInv(k)'
<1> DEFINE New(s) == admitted'[k] - before'[k][s]
<1>1. /\ k \in Keys /\ now \in Nat /\ Full \in Nat /\ Scale \in Nat /\ TTL \in Nat
      /\ \A s \in 0..now : Since(k, s) \in Int
      /\ DriftOf(k) \in 0..Drift /\ Drift \in Nat
      /\ bucket[k] \in Bucket \cup {NoKey}
  BY KeyFacts, Positive, KindsApart
<1>2. /\ now' = now + 1
      /\ \A s \in 0..now : New(s) = Since(k, s)
      /\ New(now + 1) = 0
  <2>1. /\ now' = now + 1 /\ admitted'[k] = admitted[k] /\ admitted[k] \in Nat
        /\ \A s \in 0..now : before'[k][s] = before[k][s]
        /\ before'[k][now + 1] = admitted[k]
    BY <1>1, TickKeepsLedger, KeyFacts DEF Tick, StoreOK, TypeOK
  <2>2. QED
    BY <2>1 DEF Since
<1>3. \A s \in 0..(now + 1) : s \in 0..now \/ s = now + 1
  BY <1>1
<1> DEFINE Inflow == \A s \in 0..(now + 1) : New(s) * Scale <= Rate * (now + 1 - s)
<1>10. ASSUME bucket'[k] = NoKey, Inflow
       PROVE  BucketInv(k)'
  <2>1. ASSUME NEW s \in 0..now'
        PROVE  New(s) * Scale <= Rate * (now' - s)
    <3>1. s \in 0..(now + 1) /\ now' - s = now + 1 - s
      BY <1>1, <1>2
    <3>2. New(s) * Scale <= Rate * (now + 1 - s)
      BY <1>10, <3>1
    <3>3. QED
      BY <3>1, <3>2, Zenon
  <2> HIDE DEF Inflow
  <2>2. \A s \in 0..now' : (admitted'[k] - before'[k][s]) * Scale <= Rate * (now' - s)
    BY <2>1
  <2>3. QED
    BY <1>10, <2>2, Zenon DEF BucketInv, Since
<1>4. bucket'[k] = Alive(bucket[k], now + 1)
  BY <1>1 DEF Tick, StoreOK, TypeOK
<1>5. CASE bucket[k] = NoKey
  <2>1. bucket'[k] = NoKey
    BY <1>4, <1>5 DEF Alive
  <2>2. ASSUME NEW s \in 0..(now + 1)
        PROVE  New(s) * Scale <= Rate * (now + 1 - s)
    <3>1. CASE s \in 0..now
      <4>1. Since(k, s) * Scale <= Rate * (now - s)
        BY <1>5, <3>1 DEF BucketInv
      <4>2. now - s <= now + 1 - s /\ now - s \in Int /\ now + 1 - s \in Int
        BY <1>1
      <4>3. /\ Rate * (now - s) <= Rate * (now + 1 - s)
            /\ Rate * (now - s) \in Int /\ Rate * (now + 1 - s) \in Int
        BY <4>2, Flows
      <4>4. Since(k, s) * Scale \in Int
        BY <1>1, <3>1
      <4>5. QED
        BY <1>2, <3>1, <4>1, <4>3, <4>4
    <3>2. CASE s = now + 1
      BY <1>1, <1>2, <3>2, Flows
    <3>3. QED
      BY <1>3, <3>1, <3>2
  <2>3. QED
    BY <1>10, <2>1, <2>2
<1>6. CASE bucket[k] # NoKey /\ ~ (now + 1 > bucket[k].expiresAt)
  <2> DEFINE b == bucket[k]
  <2>1. /\ b \in Bucket /\ b.tokens \in 0..Full /\ b.lastUpdate \in Nat
        /\ b.expiresAt \in TTL..(now + TTL)
        /\ b.lastUpdate <= b.expiresAt - TTL + DriftOf(k)
    BY <1>1, <1>6 DEF Bucket, BucketInv, Filled
  <2>2. b' = b /\ b # NoKey
    BY <1>4, <1>6 DEF Alive
  <2>3. ASSUME NEW s \in 0..(now + 1)
        PROVE  IF s <= b.lastUpdate
                 THEN New(s) * Scale + b.tokens <= Full + Rate * (b.lastUpdate - s)
                 ELSE New(s) = 0
    <3>1. CASE s \in 0..now
      BY <1>2, <1>6, <3>1 DEF BucketInv, Filled
    <3>2. CASE s = now + 1
      <4>1. New(s) = 0
        BY <1>2, <3>2
      <4>2. s <= b.lastUpdate => 0 <= Rate * (b.lastUpdate - s) /\ Rate * (b.lastUpdate - s) \in Int
        <5>1. /\ b.lastUpdate - s \in Int
              /\ s <= b.lastUpdate => 0 <= b.lastUpdate - s
          BY <1>1, <2>1
        <5>2. QED
          BY <5>1, Flows
      <4>3. QED
        BY <1>1, <2>1, <4>1, <4>2
    <3>3. QED
      BY <1>3, <3>1, <3>2
  <2>4. b.expiresAt \in TTL..(now + 1 + TTL)
    BY <1>1, <2>1
  <2>5. DriftOf(k)' = DriftOf(k)
    BY DEF DriftOf
  <2> HIDE DEF b
  <2>6. bucket'[k] = b
    BY <2>2 DEF b
  <2>7. QED
    BY <1>2, <2>1, <2>2, <2>3, <2>4, <2>5, <2>6 DEF BucketInv, Filled, Since
<1>7. CASE bucket[k] # NoKey /\ now + 1 > bucket[k].expiresAt
  <2> DEFINE b == bucket[k]
  <2>1. /\ b \in Bucket /\ b.tokens \in 0..Full /\ b.lastUpdate \in Nat
        /\ b.expiresAt \in TTL..(now + TTL)
        /\ b.lastUpdate <= b.expiresAt - TTL + DriftOf(k)
        /\ \A s \in 0..now :
             IF s <= b.lastUpdate
               THEN Since(k, s) * Scale + b.tokens <= Full + Rate * (b.lastUpdate - s)
               ELSE Since(k, s) = 0
    BY <1>1, <1>7 DEF Bucket, BucketInv, Filled
  <2>2. bucket'[k] = NoKey
    <3>1. bucket[k].expiresAt # Never
      BY <1>1, <2>1 DEF Never
    <3>2. QED
      BY <1>4, <1>7, <3>1 DEF Alive
  <2>3. now + 1 > b.expiresAt
    BY <1>7
  <2> HIDE DEF b
  <2>4. Full <= Rate * (now + 1 - b.lastUpdate)
    <3>1. /\ TTL + 1 - Drift <= now + 1 - b.lastUpdate
          /\ TTL + 1 - Drift \in Int /\ now + 1 - b.lastUpdate \in Int
      BY <1>1, <2>1, <2>3
    <3>2. /\ Rate * (TTL + 1 - Drift) <= Rate * (now + 1 - b.lastUpdate)
          /\ Rate * (TTL + 1 - Drift) \in Int /\ Rate * (now + 1 - b.lastUpdate) \in Int
      BY <3>1, Flows
    <3>3. QED
      BY <1>1, <3>2 DEF FullOnExpiry
  <2>5. ASSUME NEW s \in 0..(now + 1)
        PROVE  New(s) * Scale <= Rate * (now + 1 - s)
    <3>1. CASE s \in 0..now /\ s <= b.lastUpdate
      <4>1. Since(k, s) * Scale + b.tokens <= Full + Rate * (b.lastUpdate - s)
        BY <2>1, <3>1
      <4>2. /\ now + 1 - s = (now + 1 - b.lastUpdate) + (b.lastUpdate - s)
            /\ now + 1 - b.lastUpdate \in Int /\ b.lastUpdate - s \in Int
        BY <1>1, <2>1
      <4>3. /\ Rate * (now + 1 - s) = Rate * (now + 1 - b.lastUpdate) + Rate * (b.lastUpdate - s)
            /\ Rate * (now + 1 - b.lastUpdate) \in Int /\ Rate * (b.lastUpdate - s) \in Int
        BY <4>2, Flows
      <4>4. Since(k, s) * Scale \in Int
        BY <1>1, <3>1
      <4>5. QED
        BY <1>1, <1>2, <2>1, <2>4, <3>1, <4>1, <4>3, <4>4
    <3>2. CASE s = now + 1 \/ (s \in 0..now /\ ~ (s <= b.lastUpdate))
      <4>1. New(s) = 0
        BY <1>2, <2>1, <3>2
      <4>2. now + 1 - s \in Int /\ 0 <= now + 1 - s
        BY <1>1
      <4>3. 0 <= Rate * (now + 1 - s)
        BY <4>2, Flows
      <4>4. QED
        BY <1>1, <4>1, <4>3
    <3>3. QED
      BY <1>3, <3>1, <3>2
  <2>6. QED
    BY <1>10, <2>2, <2>5
<1>8. QED
  BY <1>5, <1>6, <1>7

\* A script that takes n units of a bucket enters n units in the ledger, and its
\* clock is no earlier than "now".
LEMMA AllowBucket ==
  ASSUME StoreOK, NEW k \in BucketKeys, BucketInv(k), NEW n \in Costs,
         NEW at \in now..(now + DriftOf(k)), AllowTokenBucket(k, n, at)
  PROVE  BucketInv(k)'
<1> DEFINE b == bucket[k]
           r == Refilled(b, at)
           d == TokenBucketScript(b, at, now, n)
<1>1. /\ k \in Keys /\ now \in Nat /\ Full \in Nat /\ Scale \in Nat /\ TTL \in Nat /\ n \in Nat
      /\ \A s \in 0..now : Since(k, s) \in Int
      /\ DriftOf(k) \in 0..Drift /\ Drift \in Nat
      /\ at \in Nat /\ now <= at /\ at <= now + DriftOf(k)
      /\ b \in Bucket \cup {NoKey} /\ bucket \in [Keys -> Bucket \cup {NoKey}]
  BY KeyFacts, Positive, KindsApart DEF StoreOK, TypeOK
<1>2. /\ r.tokens \in 0..Full /\ r.lastUpdate \in Nat
      /\ b = NoKey => r.tokens = Full /\ r.lastUpdate = at
      /\ b # NoKey /\ at > b.lastUpdate =>
           /\ r.tokens = Least(b.tokens + Rate * (at - b.lastUpdate), Full)
           /\ r.lastUpdate = at
      /\ b # NoKey /\ ~ (at > b.lastUpdate) =>
           r.tokens = b.tokens /\ r.lastUpdate = b.lastUpdate
  BY <1>1, RefilledBucket
<1>3. /\ d.allowed \in BOOLEAN /\ d.bucket \in Bucket
      /\ d.allowed = (r.tokens >= n * Scale)
      /\ d.bucket.tokens = IF r.tokens >= n * Scale THEN r.tokens - n * Scale ELSE r.tokens
      /\ d.bucket.lastUpdate = r.lastUpdate /\ d.bucket.expiresAt = now + TTL
  BY <1>1, BucketScript
<1>4. bucket' = [bucket EXCEPT ![k] = d.bucket] /\ Enter(k, n, at, d)
  BY DEF AllowTokenBucket
<1>5. b # NoKey =>
        /\ b.tokens \in 0..Full /\ b.lastUpdate \in Nat
        /\ b.expiresAt \in TTL..(now + TTL)
        /\ b.lastUpdate <= b.expiresAt - TTL + DriftOf(k)
        /\ \A s \in 0..now :
             IF s <= b.lastUpdate
               THEN Since(k, s) * Scale + b.tokens <= Full + Rate * (b.lastUpdate - s)
               ELSE Since(k, s) = 0
  BY <1>1 DEF Bucket, BucketInv, Filled
<1>6. b = NoKey => \A s \in 0..now : Since(k, s) * Scale <= Rate * (now - s)
  BY DEF BucketInv
<1> HIDE DEF r, d, b
<1>7. now <= r.lastUpdate /\ r.lastUpdate <= now + DriftOf(k)
  BY <1>1, <1>2, <1>5
<1>8. ASSUME NEW s \in 0..now
      PROVE  Since(k, s) * Scale + r.tokens <= Full + Rate * (r.lastUpdate - s)
  <2>1. Since(k, s) \in Int /\ Since(k, s) * Scale \in Int
    BY <1>1
  <2>2. CASE b = NoKey
    <3>1. /\ Since(k, s) * Scale <= Rate * (now - s)
          /\ r.tokens = Full /\ r.lastUpdate = at
      BY <1>2, <1>6, <2>2
    <3>2. now - s <= at - s /\ now - s \in Int /\ at - s \in Int
      BY <1>1
    <3>3. /\ Rate * (now - s) <= Rate * (at - s)
          /\ Rate * (now - s) \in Int /\ Rate * (at - s) \in Int
      BY <3>2, Flows
    <3>4. QED
      BY <1>1, <2>1, <3>1, <3>3
  <2>3. CASE b # NoKey /\ at > b.lastUpdate /\ s <= b.lastUpdate
    <3>1. /\ Since(k, s) * Scale + b.tokens <= Full + Rate * (b.lastUpdate - s)
          /\ b.tokens \in Nat
      BY <1>1, <1>5, <2>3
    <3>2. /\ at - s = (at - b.lastUpdate) + (b.lastUpdate - s)
          /\ at - b.lastUpdate \in Int /\ b.lastUpdate - s \in Int
      BY <1>1, <1>5, <2>3
    <3>3. /\ Rate * (at - s) = Rate * (at - b.lastUpdate) + Rate * (b.lastUpdate - s)
          /\ Rate * (at - b.lastUpdate) \in Int /\ Rate * (b.lastUpdate - s) \in Int
      BY <3>2, Flows
    <3>4. /\ r.tokens <= b.tokens + Rate * (at - b.lastUpdate)
          /\ r.lastUpdate = at
      BY <1>1, <1>2, <2>3, <3>1, <3>3 DEF Least
    <3>5. QED
      BY <1>1, <1>2, <2>1, <3>1, <3>3, <3>4
  <2>4. CASE b # NoKey /\ at > b.lastUpdate /\ ~ (s <= b.lastUpdate)
    <3>1. Since(k, s) = 0 /\ r.lastUpdate = at
      BY <1>2, <1>5, <2>4
    <3>2. at - s \in Int /\ 0 <= at - s
      BY <1>1
    <3>3. 0 <= Rate * (at - s) /\ Rate * (at - s) \in Int
      BY <3>2, Flows
    <3>4. QED
      BY <1>1, <1>2, <3>1, <3>3
  <2>5. CASE b # NoKey /\ ~ (at > b.lastUpdate)
    <3>1. s <= b.lastUpdate /\ r.tokens = b.tokens /\ r.lastUpdate = b.lastUpdate
      BY <1>1, <1>2, <1>5, <2>5
    <3>2. QED
      BY <1>5, <2>5, <3>1
  <2>6. QED
    BY <2>2, <2>3, <2>4, <2>5
<1>9. /\ now' = now /\ before' = before
      /\ admitted'[k] = IF d.allowed THEN admitted[k] + n ELSE admitted[k]
  <2>1. TypeOK /\ d.allowed \in BOOLEAN /\ at \in now..(now + DriftOf(k))
    BY <1>3 DEF StoreOK
  <2>2. QED
    BY <1>1, <1>4, <2>1, EnterStep
<1>10. bucket'[k] = d.bucket /\ d.bucket # NoKey
  BY <1>1, <1>3, <1>4, NothingAssumption
<1>11. ASSUME NEW s \in 0..now
       PROVE  Since(k, s)' * Scale + d.bucket.tokens <= Full + Rate * (r.lastUpdate - s)
  <2>1. admitted[k] \in Nat /\ before[k][s] \in Nat
    BY <1>1, KeyFacts
  <2>2. CASE r.tokens >= n * Scale
    <3>1. d.allowed /\ d.bucket.tokens = r.tokens - n * Scale
      BY <1>3, <2>2
    <3>2. Since(k, s)' = Since(k, s) + n
      BY <1>1, <1>9, <2>1, <3>1 DEF Since
    <3>3. /\ (Since(k, s) + n) * Scale = Since(k, s) * Scale + n * Scale
          /\ Since(k, s) * Scale \in Int /\ n * Scale \in Int
      BY <1>1
    <3>4. Since(k, s)' * Scale + d.bucket.tokens = Since(k, s) * Scale + r.tokens
      BY <1>2, <3>1, <3>2, <3>3
    <3>5. QED
      BY <1>8, <3>4
  <2>3. CASE ~ (r.tokens >= n * Scale)
    <3>1. ~ d.allowed /\ d.bucket.tokens = r.tokens
      BY <1>3, <2>3
    <3>2. Since(k, s)' = Since(k, s)
      BY <1>9, <3>1 DEF Since
    <3>3. QED
      BY <1>8, <3>1, <3>2
  <2>4. QED
    BY <2>2, <2>3
<1>12. /\ \A s \in 0..now : s <= r.lastUpdate
       /\ d.bucket.expiresAt \in TTL..(now + TTL)
       /\ d.bucket.lastUpdate <= d.bucket.expiresAt - TTL + DriftOf(k)
  BY <1>1, <1>2, <1>3, <1>7
<1> DEFINE e == bucket'[k]
<1>13. /\ e # NoKey /\ e.expiresAt \in TTL..(now' + TTL)
       /\ e.lastUpdate <= e.expiresAt - TTL + DriftOf(k)
       /\ \A s \in 0..now' :
            /\ s <= e.lastUpdate
            /\ Since(k, s)' * Scale + e.tokens <= Full + Rate * (e.lastUpdate - s)
  BY <1>3, <1>9, <1>10, <1>11, <1>12
<1>14. DriftOf(k)' = DriftOf(k)
  BY DEF DriftOf
<1>15. QED
  BY <1>13, <1>14 DEF BucketInv, Filled

LEMMA DelBucket ==
  ASSUME StoreOK, NEW k \in BucketKeys, BucketInv(k), Del
  PROVE  BucketInv(k)'
<1>1. PICK j \in Keys :
        /\ Forget(j) /\ bucket'[j] = NoKey
        /\ \A i \in Keys : i # j => bucket'[i] = bucket[i]
  BY DelTyped
<1>2. k \in Keys /\ now \in Nat
  BY KeyFacts, KindsApart
<1>3. /\ now' = now /\ admitted'[j] = 0 /\ \A s \in Times : before'[j][s] = 0
      /\ \A i \in Keys : i # j => admitted'[i] = admitted[i] /\ before'[i] = before[i]
  BY <1>1 DEF Forget, StoreOK, TypeOK, LedgerTypeOK
<1>4. CASE k = j
  <2>1. \A s \in 0..now : (admitted'[k] - before'[k][s]) = 0
    BY <1>2, <1>3, <1>4, KeyFacts
  <2>2. \A s \in 0..now : 0 <= now - s /\ now - s \in Int
    BY <1>2
  <2>3. \A s \in 0..now : 0 <= Rate * (now - s)
    BY <2>2, Flows
  <2>4. 0 * Scale = 0
    BY Positive
  <2>5. \A s \in 0..now : (admitted'[k] - before'[k][s]) * Scale <= Rate * (now - s)
    BY <2>1, <2>3, <2>4
  <2>6. QED
    BY <1>1, <1>3, <1>4, <2>5 DEF BucketInv, Since
<1>5. CASE k # j
  BY <1>1, <1>2, <1>3, <1>5, SameBucket
<1>6. QED
  BY <1>4, <1>5

LEMMA BucketsStep ==
  ASSUME FullOnExpiry, StoreOK, BucketsInv, [Next]_vars
  PROVE  BucketsInv'
<1> SUFFICES ASSUME NEW k \in BucketKeys PROVE BucketInv(k)'
  BY DEF BucketsInv
<1>1. BucketInv(k) /\ k \in Keys
  BY KindsApart DEF BucketsInv
<1>2. CASE Tick
  BY <1>1, <1>2, TickBucket
<1>3. CASE \/ ScanPage \/ ScanEnds \/ ScanFails \/ DelFails \/ \E j \in Keys : BeginReset(j)
  <2>1. UNCHANGED <<ledger, db>>
    BY <1>3, ScanTyped
  <2>2. QED
    BY <1>1, <2>1, SameBucket DEF ledger, db
<1>4. CASE Del
  BY <1>1, <1>4, DelBucket
<1>5. ASSUME NEW j \in Keys, Allow(j)
      PROVE  BucketInv(k)'
  <2>1. PICK n \in Costs, at \in now..(now + DriftOf(j)) :
          \/ j \in BucketKeys  /\ AllowTokenBucket(j, n, at)
          \/ j \in WindowKeys  /\ AllowFixedWindow(j, n, at)
          \/ j \in CounterKeys /\ AllowSlidingWindowCounter(j, n, at)
          \/ j \in LogKeys     /\ AllowSlidingWindowLog(j, n, at)
    BY <1>5 DEF Allow
  <2>2. CASE j = k
    <3>1. AllowTokenBucket(k, n, at) /\ at \in now..(now + DriftOf(k))
      BY <2>1, <2>2, KindsApart
    <3>2. QED
      BY <1>1, <3>1, AllowBucket
  <2>3. CASE j # k
    <3>1. /\ now' = now /\ before' = before
          /\ admitted'[k] = admitted[k] /\ bucket'[k] = bucket[k]
      BY <1>1, <2>1, <2>3, AllowTyped
    <3>2. QED
      BY <1>1, <3>1, SameBucket
  <2>4. QED
    BY <2>2, <2>3
<1>6. CASE UNCHANGED vars
  BY <1>1, <1>6, SameBucket DEF vars, ledger, db
<1>7. QED
  BY <1>2, <1>3, <1>4, <1>5, <1>6 DEF Next, Resetting

LEMMA BucketsInit == Init => BucketsInv
<1> SUFFICES ASSUME Init, NEW k \in BucketKeys PROVE BucketInv(k)
  BY DEF BucketsInv
<1>1. k \in Keys /\ bucket[k] = NoKey /\ now = 0 /\ Since(k, 0) = 0
  BY KindsApart, LedgerAssumption DEF Init, LedgerInit, Since, Times
<1>2. Since(k, 0) * Scale <= Rate * (now - 0)
  BY <1>1, Positive
<1>3. \A s \in 0..now : s = 0
  BY <1>1
<1>4. QED
  BY <1>1, <1>2, <1>3 DEF BucketInv

LEMMA BucketsBound ==
  ASSUME StoreOK, BucketsInv
  PROVE  RateBound
<1> SUFFICES ASSUME NEW k \in BucketKeys, NEW s \in 0..now
             PROVE  Since(k, s) * Scale <= Full + Rate * (now - s + DriftOf(k))
  BY DEF RateBound
<1> DEFINE b == bucket[k]
<1>1. /\ k \in Keys /\ now \in Nat /\ Full \in Nat /\ Scale \in Nat /\ TTL \in Nat
      /\ Since(k, s) \in Int /\ Since(k, s) * Scale \in Int
      /\ DriftOf(k) \in Nat
      /\ b \in Bucket \cup {NoKey} /\ BucketInv(k)
  BY KeyFacts, Positive, KindsApart DEF BucketsInv
<1>2. now - s + DriftOf(k) \in Int /\ 0 <= now - s + DriftOf(k)
  BY <1>1
<1>3. Rate * (now - s + DriftOf(k)) \in Int /\ 0 <= Rate * (now - s + DriftOf(k))
  BY <1>2, Flows
<1>4. CASE b = NoKey
  <2>1. Since(k, s) * Scale <= Rate * (now - s)
    BY <1>1, <1>4 DEF BucketInv
  <2>2. now - s \in Int /\ now - s <= now - s + DriftOf(k)
    BY <1>1
  <2>3. /\ Rate * (now - s) <= Rate * (now - s + DriftOf(k))
        /\ Rate * (now - s) \in Int
    BY <1>2, <2>2, Flows
  <2>4. QED
    BY <1>1, <1>3, <2>1, <2>3
<1>5. CASE b # NoKey /\ s <= b.lastUpdate
  <2>1. /\ b.tokens \in Nat /\ b.lastUpdate \in Nat
        /\ b.expiresAt \in TTL..(now + TTL)
        /\ b.lastUpdate <= b.expiresAt - TTL + DriftOf(k)
        /\ Since(k, s) * Scale + b.tokens <= Full + Rate * (b.lastUpdate - s)
    BY <1>1, <1>5 DEF Bucket, BucketInv, Filled
  <2>2. /\ b.lastUpdate - s \in Int
        /\ b.lastUpdate - s <= now - s + DriftOf(k)
    BY <1>1, <2>1
  <2>3. /\ Rate * (b.lastUpdate - s) <= Rate * (now - s + DriftOf(k))
        /\ Rate * (b.lastUpdate - s) \in Int
    BY <1>2, <2>2, Flows
  <2>4. QED
    BY <1>1, <1>3, <2>1, <2>3
<1>6. CASE b # NoKey /\ ~ (s <= b.lastUpdate)
  <2>1. Since(k, s) = 0
    BY <1>1, <1>6 DEF BucketInv, Filled
  <2>2. QED
    BY <1>1, <1>3, <2>1
<1>7. QED
  BY <1>4, <1>5, <1>6

\* Where a bucket outlives its own refill, no order of scripts with clocks that
\* differ by the drift, no expiry and no Reset lets a key take more of a span of
\* time than a full bucket and what flows in (redis.go:44-95).
THEOREM RateBoundKept ==
  ASSUME FullOnExpiry
  PROVE  Spec => []RateBound
<1>1. Init => StoreOK /\ BucketsInv
  BY StoreOKInit, BucketsInit
<1>2. StoreOK /\ BucketsInv /\ [Next]_vars => StoreOK' /\ BucketsInv'
  BY StoreOKStep, BucketsStep
<1>3. StoreOK /\ BucketsInv => RateBound
  BY BucketsBound
<1>4. QED
  BY <1>1, <1>2, <1>3, PTL DEF Spec

-----------------------------------------------------------------------------
(* The windows *)

\* Two clock values at one time are at most a window apart, and a tick.
CloseClocks == Drift <= Window + 1

\* At time t the counter c of window w has every one of the u units admitted in
\* it, or the window is over for every client and the counter is gone.
Counted(c, u, w, t) ==
  /\ c # NoKey => u <= c.value /\ (w + 1) * Span <= c.expiresAt + 1
  /\ c = NoKey => u <= (IF (w + 1) * Span <= t THEN Limit ELSE 0)

CountersInv ==
  \A k \in WindowKeys \cup CounterKeys : \A w \in WindowNums :
    Counted(counter[k][w], windowUse[k][w], w, now)

LEMMA CountedTick ==
  ASSUME NEW c \in Counter \cup {NoKey}, NEW u \in Nat, NEW w \in Nat, NEW t \in Nat,
         Counted(c, u, w, t)
  PROVE  Counted(Alive(c, t + 1), u, w, t + 1)
<1> DEFINE end == (w + 1) * Span
<1>1. end \in Nat /\ 0 < end /\ Limit \in Nat
  <2>1. Span \in Nat \ {0} /\ w + 1 \in Nat /\ 0 < w + 1
    BY SpanPositive
  <2>2. QED
    BY <2>1, Positive
<1> HIDE DEF end
<1>2. CASE c = NoKey
  BY <1>1, <1>2 DEF Counted, Alive, end
<1>3. CASE c # NoKey
  <2>1. /\ c.value \in 0..Limit /\ c.expiresAt \in Expiry
        /\ u <= c.value /\ end <= c.expiresAt + 1
    BY <1>3 DEF Counted, Counter, end
  <2>2. c.expiresAt \in Nat
    BY <1>1, <2>1 DEF Expiry, Never
  <2>3. CASE t + 1 > c.expiresAt
    <3>1. Alive(c, t + 1) = NoKey
      BY <1>3, <2>2, <2>3 DEF Alive, Never
    <3>2. end <= t + 1 /\ u <= Limit
      BY <1>1, <2>1, <2>2, <2>3
    <3>3. QED
      BY <3>1, <3>2 DEF Counted, end
  <2>4. CASE ~ (t + 1 > c.expiresAt)
    <3>1. Alive(c, t + 1) = c
      BY <2>4 DEF Alive
    <3>2. QED
      BY <1>3, <2>1, <3>1 DEF Counted, end
  <2>5. QED
    BY <2>3, <2>4
<1>4. QED
  BY <1>2, <1>3

\* A script that finds a counter gone is the first of its window, as no client's
\* clock comes back to a window that is over.
LEMMA CountedAllow ==
  ASSUME CloseClocks, NEW c \in Counter \cup {NoKey}, NEW u \in Nat, NEW t \in Nat,
         NEW at \in t..(t + Drift), Counted(c, u, WindowNum(at), t),
         NEW m \in Nat, NEW e \in Counter, e.value = Value(c) + m,
         e.expiresAt = IF Value(c) = 0 THEN t + 2 * Window ELSE c.expiresAt
  PROVE  Counted(e, u + m, WindowNum(at), t)
<1> DEFINE w == WindowNum(at)
           end == (w + 1) * Span
<1>1. /\ Drift \in Nat /\ Window \in Nat /\ at \in Nat /\ t <= at /\ at <= t + Drift
      /\ Drift <= Window + 1
  BY RedisAssumption, Positive DEF CloseClocks
<1>2. w \in Nat /\ end \in Int /\ at < end /\ end <= at + Window
  <2>1. w \in Nat
    BY <1>1, WindowTypes
  <2>2. w * Span <= at /\ at < (w + 1) * Span
    BY <1>1, InWindow DEF WindowStart, WindowEnd
  <2>3. end = w * Span + Span /\ w * Span \in Nat /\ Span = Window
    BY <2>1, SpanPositive, WholeWindow
  <2>4. QED
    BY <1>1, <2>1, <2>2, <2>3
<1> HIDE DEF w, end
<1>3. u <= Value(c) /\ Value(c) \in Nat
  <2>1. CASE c = NoKey
    BY <1>1, <1>2, <2>1 DEF Counted, Value, w, end
  <2>2. CASE c # NoKey
    BY <2>2 DEF Counted, Value, Counter
  <2>3. QED
    BY <2>1, <2>2
<1>4. u + m <= e.value
  BY <1>3
<1>5. end <= e.expiresAt + 1
  <2>1. CASE Value(c) = 0
    BY <1>1, <1>2, <2>1
  <2>2. CASE Value(c) # 0
    BY <2>2 DEF Counted, Value, w, end
  <2>3. QED
    BY <2>1, <2>2
<1>6. e # NoKey
  BY NothingAssumption
<1>7. QED
  BY <1>4, <1>5, <1>6 DEF Counted, w, end

LEMMA CountedWithin ==
  ASSUME NEW c \in Counter \cup {NoKey}, NEW u \in Nat, NEW w \in Nat, NEW t \in Nat,
         Counted(c, u, w, t)
  PROVE  u <= Limit
<1>1. c # NoKey => c.value \in 0..Limit
  BY DEF Counter
<1>2. QED
  BY <1>1, Positive DEF Counted

\* A fresh start: nothing is counted that is not, whatever the counter has.
LEMMA CountedFresh ==
  ASSUME NEW c \in Counter \cup {NoKey}, NEW e \in {c, NoKey}, NEW u \in Nat,
         NEW w \in Nat, NEW t \in Nat, Counted(c, u, w, t)
  PROVE  Counted(e, 0, w, t)
<1>1. c # NoKey => c.value \in 0..Limit
  BY DEF Counter
<1>2. QED
  BY <1>1, Positive DEF Counted

LEMMA WindowScriptCounts ==
  ASSUME NEW c \in Counter \cup {NoKey}, NEW at \in Nat, NEW t \in Nat, NEW n \in Nat
  PROVE  Counts(FixedWindowScript(c, at, t, n), c, t, n)
<1> DEFINE d == FixedWindowScript(c, at, t, n)
           fits == Value(c) + n <= Limit
<1>1. /\ d.allowed = fits /\ d.allowed \in BOOLEAN
      /\ d.counter \in Counter
      /\ d.counter.value = IF fits THEN Value(c) + n ELSE Value(c)
      /\ d.counter.expiresAt = IF Value(c) = 0 THEN t + 2 * Window ELSE c.expiresAt
  BY WindowScript
<1> HIDE DEF d, fits
<1>2. QED
  BY <1>1, Zenon DEF Counts, d

\* A window script decides of the counter of its clock's window, and changes no other.
LEMMA AllowCounts ==
  ASSUME StoreOK, NEW k \in WindowKeys \cup CounterKeys,
         NEW n \in Costs, NEW at \in now..(now + DriftOf(k)),
         \/ k \in WindowKeys  /\ AllowFixedWindow(k, n, at)
         \/ k \in CounterKeys /\ AllowSlidingWindowCounter(k, n, at)
  PROVE  \E d : /\ Counts(d, counter[k][WindowNum(at)], now, n)
                /\ counter' = [counter EXCEPT ![k] =
                                [counter[k] EXCEPT ![WindowNum(at)] = d.counter]]
                /\ UNCHANGED <<bucket, log, seq>>
                /\ Enter(k, n, at, d)
<1> DEFINE w == WindowNum(at)
           c == counter[k]
<1>1. /\ k \in Keys /\ n \in Nat /\ at \in Nat /\ now \in Nat
      /\ w \in WindowNums /\ (w # 0 => w - 1 \in WindowNums)
  <2>1. k \in Keys /\ n \in Nat /\ now \in Times
    BY KindsApart, Positive DEF StoreOK, TypeOK, LedgerTypeOK
  <2>2. QED
    BY <2>1, Windowed
<1>2. c \in [WindowNums -> Counter \cup {NoKey}]
  BY <1>1 DEF StoreOK, TypeOK
<1>3. CASE AllowFixedWindow(k, n, at)
  <2> DEFINE d == FixedWindowScript(c[w], at, now, n)
  <2>1. c[w] \in Counter \cup {NoKey}
    BY <1>1, <1>2
  <2>2. Counts(d, c[w], now, n)
    BY <1>1, <2>1, WindowScriptCounts
  <2>3. /\ counter' = [counter EXCEPT ![k][w] = d.counter] /\ UNCHANGED <<bucket, log, seq>>
        /\ Enter(k, n, at, d)
    BY <1>3 DEF AllowFixedWindow
  <2>4. QED
    BY <2>2, <2>3
<1>4. CASE AllowSlidingWindowCounter(k, n, at)
  <2> DEFINE p == IF w = 0 THEN NoKey ELSE c[w - 1]
  <2>1. p \in Counter \cup {NoKey} /\ c[w] \in Counter \cup {NoKey}
    BY <1>1, <1>2
  <2> HIDE DEF p
  <2>2. PICK slip \in Slips(Value(p), at) :
          LET d == SlidingCounterScript(p, c[w], at, now, n, slip)
          IN  /\ counter' = [counter EXCEPT ![k][w] = d.counter]
              /\ UNCHANGED <<bucket, log, seq>>
              /\ Enter(k, n, at, d)
    BY <1>4 DEF AllowSlidingWindowCounter, p
  <2> DEFINE d == SlidingCounterScript(p, c[w], at, now, n, slip)
  <2>3. Counts(d, c[w], now, n)
    BY <1>1, <2>1, CounterScript
  <2>4. QED
    BY <2>2, <2>3
<1>5. QED
  BY <1>3, <1>4

\* The counter that a script leaves has the n units the script admits, or none.
LEMMA AllowCounted ==
  ASSUME CloseClocks, StoreOK, CountersInv, NEW k \in WindowKeys \cup CounterKeys,
         NEW n \in Costs, NEW at \in now..(now + DriftOf(k)),
         \/ k \in WindowKeys  /\ AllowFixedWindow(k, n, at)
         \/ k \in CounterKeys /\ AllowSlidingWindowCounter(k, n, at),
         NEW x \in WindowNums
  PROVE  Counted(counter'[k][x], windowUse'[k][x], x, now)
<1> DEFINE w == WindowNum(at)
           c == counter[k]
<1>1. /\ k \in Keys /\ n \in Nat /\ at \in Nat /\ now \in Nat /\ at \in now..(now + Drift)
      /\ w \in WindowNums /\ WindowNums \subseteq Nat
      /\ w # 0 => w - 1 \in WindowNums
  <2>1. k \in Keys /\ n \in Nat /\ now \in Times /\ Drift \in Nat
    BY KindsApart, Positive, RedisAssumption DEF StoreOK, TypeOK, LedgerTypeOK
  <2>2. /\ at \in Nat /\ now \in Nat /\ now <= at /\ at <= now + Drift
        /\ w \in WindowNums /\ WindowNums \subseteq Nat /\ (w # 0 => w - 1 \in WindowNums)
    BY <2>1, Windowed
  <2>3. QED
    BY <2>1, <2>2
<1>2. /\ counter \in [Keys -> [WindowNums -> Counter \cup {NoKey}]]
      /\ c \in [WindowNums -> Counter \cup {NoKey}]
      /\ windowUse[k] \in [WindowNums -> Nat] /\ TypeOK
  BY <1>1 DEF StoreOK, TypeOK
<1>3. \A y \in WindowNums : Counted(c[y], windowUse[k][y], y, now)
  BY DEF CountersInv
<1>4. PICK d : /\ Counts(d, c[w], now, n)
               /\ counter' = [counter EXCEPT ![k] = [c EXCEPT ![w] = d.counter]]
               /\ Enter(k, n, at, d)
  BY AllowCounts
<1>5. \A y \in WindowNums :
        windowUse'[k][y] = IF d.allowed /\ y = w THEN windowUse[k][y] + n ELSE windowUse[k][y]
  <2>1. d.allowed \in BOOLEAN
    BY <1>4 DEF Counts
  <2>2. \A y \in WindowNums : windowUse'[k][y] =
          IF d.allowed /\ k \in WindowKeys \cup CounterKeys /\ y = w
            THEN windowUse[k][y] + n ELSE windowUse[k][y]
    BY <1>1, <1>2, <1>4, <2>1, EnterStep
  <2>3. QED
    BY <2>2
<1>6. CASE x # w
  <2>1. counter'[k][x] = c[x] /\ windowUse'[k][x] = windowUse[k][x]
    BY <1>1, <1>2, <1>4, <1>5, <1>6
  <2>2. QED
    BY <1>3, <2>1
<1>7. CASE x = w
  <2>1. counter'[k][w] = d.counter /\ windowUse'[k][w] =
          IF d.allowed THEN windowUse[k][w] + n ELSE windowUse[k][w]
    BY <1>1, <1>2, <1>4, <1>5
  <2>2. /\ Counted(c[w], windowUse[k][w], WindowNum(at), now)
        /\ c[w] \in Counter \cup {NoKey} /\ windowUse[k][w] \in Nat
    BY <1>1, <1>2, <1>3
  <2>3. /\ d.allowed \in BOOLEAN
        /\ d.allowed =>
             /\ d.counter \in Counter /\ d.counter.value = Value(c[w]) + n
             /\ d.counter.expiresAt = IF Value(c[w]) = 0 THEN now + 2 * Window ELSE c[w].expiresAt
        /\ ~ d.allowed =>
             \/ d.counter = c[w]
             \/ /\ d.counter \in Counter /\ d.counter.value = Value(c[w])
                /\ d.counter.expiresAt =
                     IF Value(c[w]) = 0 THEN now + 2 * Window ELSE c[w].expiresAt
    BY <1>4, Zenon DEF Counts
  <2>4. CASE d.allowed
    <3>1. Counted(d.counter, windowUse[k][w] + n, WindowNum(at), now)
      BY <1>1, <2>2, <2>3, <2>4, CountedAllow
    <3>2. QED
      BY <1>7, <2>1, <2>4, <3>1
  <2>5. CASE ~ d.allowed /\ d.counter # c[w]
    <3>1. Value(c[w]) \in Nat /\ Value(c[w]) + 0 = Value(c[w])
      BY <2>2 DEF Value, Counter
    <3>2. /\ d.counter \in Counter /\ d.counter.value = Value(c[w]) + 0
          /\ d.counter.expiresAt =
               IF Value(c[w]) = 0 THEN now + 2 * Window ELSE c[w].expiresAt
      BY <2>3, <2>5, <3>1
    <3>3. Counted(d.counter, windowUse[k][w] + 0, WindowNum(at), now)
      BY <1>1, <2>2, <3>2, CountedAllow
    <3>4. windowUse[k][w] + 0 = windowUse[k][w]
      BY <2>2
    <3>5. QED
      BY <1>7, <2>1, <2>5, <3>3, <3>4
  <2>6. CASE ~ d.allowed /\ d.counter = c[w]
    BY <1>7, <2>1, <2>2, <2>6
  <2>7. QED
    BY <2>4, <2>5, <2>6
<1>8. QED
  BY <1>6, <1>7

LEMMA CountersStep ==
  ASSUME CloseClocks, StoreOK, CountersInv, [Next]_vars
  PROVE  CountersInv'
<1> SUFFICES ASSUME NEW k \in WindowKeys \cup CounterKeys, NEW w \in WindowNums
             PROVE  Counted(counter'[k][w], windowUse'[k][w], w, now')
  BY DEF CountersInv
<1>1. /\ k \in Keys /\ now \in Nat /\ w \in Nat
      /\ Counted(counter[k][w], windowUse[k][w], w, now)
      /\ counter[k][w] \in Counter \cup {NoKey} /\ windowUse[k][w] \in Nat
  <2>1. k \in Keys /\ now \in Times
    BY KindsApart DEF StoreOK, TypeOK, LedgerTypeOK
  <2>2. now \in now..(now + DriftOf(k)) /\ now \in Nat
    BY <2>1, Positive, RedisAssumption DEF DriftOf
  <2>3. WindowNums \subseteq Nat
    BY <2>1, <2>2, Windowed
  <2>4. QED
    BY <2>1, <2>2, <2>3 DEF CountersInv, StoreOK, TypeOK
<1>2. CASE Tick
  <2>1. /\ counter'[k][w] = Alive(counter[k][w], now + 1)
        /\ windowUse' = windowUse /\ now' = now + 1
    BY <1>1, <1>2 DEF Tick, AdvanceClock
  <2>2. QED
    BY <1>1, <2>1, CountedTick
<1>3. CASE \/ ScanPage \/ ScanEnds \/ ScanFails \/ DelFails \/ \E j \in Keys : BeginReset(j)
  <2>1. UNCHANGED <<ledger, db, windowUse>>
    BY <1>3, ScanTyped
  <2>2. QED
    BY <1>1, <2>1 DEF ledger, db
<1>4. CASE Del
  <2>1. PICK j \in Keys :
          /\ Forget(j)
          /\ \A x \in WindowNums : windowUse'[j][x] = 0
          /\ \A x \in WindowNums : counter'[j][x] \in {counter[j][x], NoKey}
          /\ \A i \in Keys : i # j =>
               counter'[i] = counter[i] /\ windowUse'[i] = windowUse[i]
    BY <1>4, DelTyped
  <2>2. now' = now
    BY <2>1 DEF Forget
  <2>3. CASE k = j
    <3>1. counter'[k][w] \in {counter[k][w], NoKey} /\ windowUse'[k][w] = 0
      BY <2>1, <2>3
    <3>2. QED
      BY <1>1, <2>2, <3>1, CountedFresh
  <2>4. CASE k # j
    BY <1>1, <2>1, <2>2, <2>4
  <2>5. QED
    BY <2>3, <2>4
<1>5. ASSUME NEW j \in Keys, Allow(j)
      PROVE  Counted(counter'[k][w], windowUse'[k][w], w, now')
  <2>1. PICK n \in Costs, at \in now..(now + DriftOf(j)) :
          \/ j \in BucketKeys  /\ AllowTokenBucket(j, n, at)
          \/ j \in WindowKeys  /\ AllowFixedWindow(j, n, at)
          \/ j \in CounterKeys /\ AllowSlidingWindowCounter(j, n, at)
          \/ j \in LogKeys     /\ AllowSlidingWindowLog(j, n, at)
    BY <1>5 DEF Allow
  <2>2. /\ now' = now
        /\ \A i \in Keys : i # j =>
             counter'[i] = counter[i] /\ windowUse'[i] = windowUse[i]
    BY <2>1, AllowTyped
  <2>3. CASE j = k
    <3>1. /\ \/ k \in WindowKeys  /\ AllowFixedWindow(k, n, at)
             \/ k \in CounterKeys /\ AllowSlidingWindowCounter(k, n, at)
          /\ at \in now..(now + DriftOf(k))
      BY <2>1, <2>3, KindsApart
    <3>2. Counted(counter'[k][w], windowUse'[k][w], w, now)
      BY <3>1, AllowCounted
    <3>3. QED
      BY <2>2, <3>2
  <2>4. CASE j # k
    BY <1>1, <2>2, <2>4
  <2>5. QED
    BY <2>3, <2>4
<1>6. CASE UNCHANGED vars
  BY <1>1, <1>6 DEF vars, ledger, db
<1>7. QED
  BY <1>2, <1>3, <1>4, <1>5, <1>6 DEF Next, Resetting

LEMMA CountersInit == Init => CountersInv
<1> SUFFICES ASSUME Init, NEW k \in WindowKeys \cup CounterKeys, NEW w \in WindowNums
             PROVE  Counted(counter[k][w], windowUse[k][w], w, now)
  BY DEF CountersInv
<1>1. k \in Keys /\ counter[k][w] = NoKey /\ windowUse[k][w] = 0
  BY KindsApart DEF Init
<1>2. QED
  BY <1>1, Positive DEF Counted

LEMMA CountersBound ==
  ASSUME StoreOK, CountersInv
  PROVE  WindowLimit
<1> SUFFICES ASSUME NEW k \in WindowKeys \cup CounterKeys, NEW w \in WindowNums
             PROVE  windowUse[k][w] <= Limit
  BY DEF WindowLimit
<1>1. /\ k \in Keys /\ Counted(counter[k][w], windowUse[k][w], w, now)
      /\ counter[k][w] \in Counter \cup {NoKey} /\ windowUse[k][w] \in Nat
      /\ now \in Times /\ now \in Nat
  BY KindsApart, Positive DEF CountersInv, StoreOK, TypeOK, LedgerTypeOK
<1>2. w \in Nat
  BY <1>1, RedisAssumption, Windowed, Positive DEF WindowNums
<1>3. QED
  BY <1>1, <1>2, CountedWithin

\* With clocks no further apart than a window, a counter lives for every late
\* script of its window: a second counter of the same window, which would admit
\* the limit once more, is never made (redis.go:97-122, 124-177).
THEOREM WindowLimitKept ==
  ASSUME CloseClocks
  PROVE  Spec => []WindowLimit
<1>1. Init => StoreOK /\ CountersInv
  BY StoreOKInit, CountersInit
<1>2. StoreOK /\ CountersInv /\ [Next]_vars => StoreOK' /\ CountersInv'
  BY StoreOKStep, CountersStep
<1>3. StoreOK /\ CountersInv => WindowLimit
  BY CountersBound
<1>4. QED
  BY <1>1, <1>2, <1>3, PTL DEF Spec

-----------------------------------------------------------------------------
(* The sliding window log *)

\* A log expires only when it is empty by every client's clock.
WindowWithinTTL == Window <= TTL + 1

\* The members of log l that count for time s, each numbered by a serial number
\* that q has given out: the next members will be others.
Held(l, q, s) == {m \in Members(l) : m.score >= s /\ m.seq <= Value(q)}

\* Every one of the u units admitted since s has its member, and neither the log
\* nor the serial number expires as long as s counts.
Logged(l, q, u, s) ==
  /\ u <= Cardinality(Held(l, q, s))
  /\ u > 0 => /\ l # NoKey /\ s + TTL <= l.expiresAt
              /\ q # NoKey /\ s + TTL <= q.expiresAt

\* So it is for the times that every client's clock still counts.
LogsInv ==
  \A k \in LogKeys : \A s \in 0..now :
    now + DriftOf(k) - Window < s => Logged(log[k], seq[k], Since(k, s), s)

LEMMA HeldTyped ==
  ASSUME NEW l \in Log \cup {NoKey}, LogOK(l), NEW q, NEW s
  PROVE  /\ IsFiniteSet(Held(l, q, s)) /\ Held(l, q, s) \subseteq Members(l)
         /\ Cardinality(Held(l, q, s)) \in 0..Limit
<1>1. IsFiniteSet(Members(l)) /\ Cardinality(Members(l)) <= Limit
  BY FS_EmptySet, Positive DEF Members, LogOK
<1>2. Held(l, q, s) \in SUBSET Members(l)
  BY DEF Held
<1>3. /\ IsFiniteSet(Held(l, q, s))
      /\ Cardinality(Held(l, q, s)) <= Cardinality(Members(l))
  BY <1>1, <1>2, FS_Subset
<1>4. Cardinality(Held(l, q, s)) \in Nat /\ Cardinality(Members(l)) \in Nat
  BY <1>1, <1>3, FS_CardinalityType
<1>5. QED
  BY <1>1, <1>2, <1>3, <1>4, Positive

LEMMA LoggedTick ==
  ASSUME NEW l \in Log \cup {NoKey}, LogOK(l), NEW q \in Serial \cup {NoKey},
         NEW u \in Int, NEW s \in Nat, NEW t \in Nat, t + 1 <= s + TTL, Logged(l, q, u, s)
  PROVE  Logged(Alive(l, t + 1), Alive(q, t + 1), u, s)
<1>1. CASE u > 0
  <2>1. /\ l # NoKey /\ s + TTL <= l.expiresAt /\ q # NoKey /\ s + TTL <= q.expiresAt
        /\ l.expiresAt \in Int /\ q.expiresAt \in Int /\ TTL \in Nat
    BY <1>1, Positive DEF Logged, Log, Serial, Expiry, Never
  <2>2. ~ (t + 1 > l.expiresAt) /\ ~ (t + 1 > q.expiresAt)
    BY <2>1
  <2>3. Alive(l, t + 1) = l /\ Alive(q, t + 1) = q
    BY <2>2 DEF Alive
  <2>4. QED
    BY <2>3
<1>2. CASE ~ (u > 0)
  <2>1. Alive(l, t + 1) \in {l, NoKey}
    BY DEF Alive
  <2>2. Alive(l, t + 1) \in Log \cup {NoKey} /\ LogOK(Alive(l, t + 1))
    BY <2>1 DEF LogOK
  <2>3. Cardinality(Held(Alive(l, t + 1), Alive(q, t + 1), s)) \in Nat
    BY <2>2, HeldTyped, Positive
  <2>4. QED
    BY <1>2, <2>3 DEF Logged
<1>3. QED
  BY <1>1, <1>2

\* A script removes nothing that counts for every clock, and of what it admits
\* every unit is a new member of the log.
LEMMA LoggedAllow ==
  ASSUME NEW l \in Log \cup {NoKey}, LogOK(l), NEW q \in Serial \cup {NoKey},
         NEW u \in Int, NEW s \in Nat, NEW t \in Nat, NEW at \in Nat, NEW n \in Nat,
         s <= t, t <= at, at - Window < s, Logged(l, q, u, s)
  PROVE  LET d == SlidingLogScript(l, q, at, t, n)
         IN  Logged(d.log, d.seq, IF d.allowed THEN u + n ELSE u, s)
<1> DEFINE d == SlidingLogScript(l, q, at, t, n)
           kept == Remaining(l, at)
           held == Held(l, q, s)
           new == Held(d.log, d.seq, s)
           more == Entries(q, at, n)
<1>0. LogEffect(d, l, q, at, t, n)
  BY LogScript
<1> HIDE DEF d
<1>1. /\ d.allowed \in BOOLEAN
      /\ d.log \in Log \cup {NoKey} /\ LogOK(d.log)
      /\ d.seq \in Serial \cup {NoKey} /\ (q # NoKey => d.seq # NoKey)
      /\ d.allowed =>
           /\ Members(d.log) = kept \cup more
           /\ d.log # NoKey => d.log.expiresAt = t + TTL
           /\ Value(d.seq) = Value(q) + n
           /\ d.seq # NoKey => d.seq.expiresAt = t + TTL
      /\ ~ d.allowed =>
           /\ Members(d.log) = kept
           /\ d.log # NoKey => l # NoKey /\ d.log.expiresAt = l.expiresAt
           /\ d.seq = q
  BY <1>0, Zenon DEF LogEffect
<1>2. /\ Value(q) \in Nat
      /\ IsFiniteSet(more) /\ Cardinality(more) = n
      /\ \A m \in more : m.score = at /\ m.seq > Value(q) /\ m.seq <= Value(q) + n
  BY NewMembers
<1> HIDE DEF more
<1>3. /\ IsFiniteSet(held) /\ Cardinality(held) \in Nat
      /\ IsFiniteSet(new) /\ Cardinality(new) \in Nat
  BY <1>1, HeldTyped, Positive
<1>4. held \subseteq kept /\ \A m \in held : m.score >= s /\ m.seq <= Value(q) /\ m.seq \in Nat
  <2>1. Members(l) \subseteq Member
    BY RemainingMembers
  <2>2. ASSUME NEW m \in held
        PROVE  m \in kept /\ m.score >= s /\ m.seq <= Value(q) /\ m.seq \in Nat
    <3>1. m \in Members(l) /\ m.score >= s /\ m.seq <= Value(q)
      BY DEF Held
    <3>2. m.score \in Nat /\ m.seq \in Nat
      BY <2>1, <3>1 DEF Member
    <3>3. m.score > at - Window
      BY <3>1, <3>2, Positive
    <3>4. QED
      BY <3>1, <3>2, <3>3 DEF Remaining
  <2>3. QED
    BY <2>2
<1>5. u <= Cardinality(held)
      /\ (u > 0 => /\ l # NoKey /\ s + TTL <= l.expiresAt
                   /\ q # NoKey /\ s + TTL <= q.expiresAt)
  BY DEF Logged
<1> HIDE DEF held, kept
<1>6. CASE d.allowed
  <2>1. held \cup more \subseteq new
    <3>1. Members(d.log) = kept \cup more /\ Value(d.seq) = Value(q) + n
      BY <1>1, <1>6
    <3>2. \A m \in held : m \in Members(d.log) /\ m.score >= s /\ m.seq <= Value(d.seq)
      BY <1>2, <1>4, <3>1
    <3>3. \A m \in more : m \in Members(d.log) /\ m.score >= s /\ m.seq <= Value(d.seq)
      BY <1>2, <3>1
    <3>4. QED
      BY <3>2, <3>3 DEF Held
  <2>2. held \cap more = {}
    BY <1>2, <1>4
  <2>3. /\ IsFiniteSet(held \cup more)
        /\ Cardinality(held \cup more) = Cardinality(held) + n
    <3>1. /\ IsFiniteSet(held \cup more)
          /\ Cardinality(held \cup more)
               = Cardinality(held) + n - Cardinality(held \cap more)
      BY <1>2, <1>3, FS_Union
    <3>2. Cardinality(held \cap more) = 0
      BY <2>2, FS_EmptySet
    <3>3. QED
      BY <1>3, <3>1, <3>2
  <2>4. Cardinality(held \cup more) <= Cardinality(new)
    BY <1>3, <2>1, FS_Subset
  <2>5. u + n <= Cardinality(new)
    BY <1>3, <1>5, <2>3, <2>4
  <2>6. ASSUME u + n > 0
        PROVE  /\ d.log # NoKey /\ s + TTL <= d.log.expiresAt
               /\ d.seq # NoKey /\ s + TTL <= d.seq.expiresAt
    <3>1. new # {}
      BY <1>3, <2>5, <2>6, FS_EmptySet
    <3>2. d.log # NoKey
      BY <3>1 DEF Held, Members
    <3>3. d.seq # NoKey
      <4>1. CASE u > 0
        BY <1>1, <1>5, <4>1
      <4>2. CASE ~ (u > 0)
        <5>1. Value(d.seq) # 0
          BY <1>1, <1>2, <1>6, <2>6, <4>2
        <5>2. QED
          BY <5>1 DEF Value
      <4>3. QED
        BY <4>1, <4>2
    <3>4. QED
      BY <1>1, <1>6, <3>2, <3>3, Positive
  <2> HIDE DEF new
  <2>7. Logged(d.log, d.seq, u + n, s)
    BY <2>5, <2>6 DEF Logged, new
  <2>8. QED
    BY <1>6, <2>7 DEF d
<1>7. CASE ~ d.allowed
  <2>1. held \subseteq new
    <3>1. Members(d.log) = kept /\ d.seq = q
      BY <1>1, <1>7
    <3>2. QED
      BY <1>4, <3>1 DEF Held
  <2>2. Cardinality(held) <= Cardinality(new)
    BY <1>3, <2>1, FS_Subset
  <2>3. u <= Cardinality(new)
    BY <1>3, <1>5, <2>2
  <2>4. ASSUME u > 0
        PROVE  /\ d.log # NoKey /\ s + TTL <= d.log.expiresAt
               /\ d.seq # NoKey /\ s + TTL <= d.seq.expiresAt
    <3>1. new # {}
      BY <1>3, <2>3, <2>4, FS_EmptySet
    <3>2. d.log # NoKey
      BY <3>1 DEF Held, Members
    <3>3. QED
      BY <1>1, <1>5, <1>7, <2>4, <3>2
  <2> HIDE DEF new
  <2>5. Logged(d.log, d.seq, u, s)
    BY <2>3, <2>4 DEF Logged, new
  <2>6. QED
    BY <1>7, <2>5 DEF d
<1>8. d.allowed \in BOOLEAN
  BY <1>1, Zenon
<1>9. QED
  BY <1>6, <1>7, <1>8

LEMMA LogsStep ==
  ASSUME WindowWithinTTL, StoreOK, LogsInv, [Next]_vars
  PROVE  LogsInv'
<1> DEFINE New(k, s) == admitted'[k] - before'[k][s]
<1> SUFFICES ASSUME NEW k \in LogKeys, NEW s \in 0..now', now' + DriftOf(k) - Window < s
             PROVE  Logged(log'[k], seq'[k], New(k, s), s)
  BY Zenon DEF LogsInv, Since, DriftOf
<1>1. /\ k \in Keys /\ now \in Nat /\ s \in Nat /\ DriftOf(k) \in Nat
      /\ Window \in Nat /\ TTL \in Nat /\ Window <= TTL + 1
      /\ \A r \in 0..now : Since(k, r) \in Int
      /\ log[k] \in Log \cup {NoKey} /\ LogOK(log[k])
      /\ seq[k] \in Serial \cup {NoKey}
  <2>1. k \in Keys
    BY KindsApart
  <2>2. now' \in Nat
    BY StoreOKStep, Positive DEF StoreOK, TypeOK, LedgerTypeOK
  <2>3. QED
    BY <2>1, <2>2, KeyFacts, Positive DEF WindowWithinTTL
<1>2. s \in 0..now /\ now + DriftOf(k) - Window < s =>
        Logged(log[k], seq[k], Since(k, s), s)
  BY DEF LogsInv
<1>3. CASE Tick
  <2>1. /\ now' = now + 1 /\ admitted'[k] = admitted[k] /\ admitted[k] \in Nat
        /\ \A r \in 0..now : before'[k][r] = before[k][r]
        /\ before'[k][now + 1] = admitted[k]
    BY <1>1, <1>3, TickKeepsLedger, KeyFacts DEF Tick, StoreOK, TypeOK
  <2>2. log'[k] = Alive(log[k], now + 1) /\ seq'[k] = Alive(seq[k], now + 1)
    BY <1>1, <1>3 DEF Tick
  <2>3. CASE s \in 0..now
    <3>1. now + DriftOf(k) - Window < s /\ now + 1 <= s + TTL
      BY <1>1, <2>1
    <3>2. New(k, s) = Since(k, s)
      BY <2>1, <2>3 DEF Since
    <3>3. QED
      BY <1>1, <1>2, <2>2, <2>3, <3>1, <3>2, LoggedTick
  <2>4. CASE s = now + 1
    <3>1. New(k, s) = 0
      BY <2>1, <2>4
    <3>2. log'[k] \in Log \cup {NoKey} /\ LogOK(log'[k])
      BY <1>1, <2>2 DEF Alive, LogOK
    <3>3. Cardinality(Held(log'[k], seq'[k], s)) \in Nat
      BY <3>2, HeldTyped, Positive
    <3>4. QED
      BY <3>1, <3>3 DEF Logged
  <2>5. QED
    BY <1>1, <2>1, <2>3, <2>4
<1>4. CASE /\ now' = now /\ admitted'[k] = admitted[k] /\ before'[k] = before[k]
           /\ log'[k] = log[k] /\ seq'[k] = seq[k]
  <2>1. New(k, s) = Since(k, s)
    BY <1>4 DEF Since
  <2>2. QED
    BY <1>2, <1>4, <2>1
<1>5. CASE \/ ScanPage \/ ScanEnds \/ ScanFails \/ DelFails \/ \E j \in Keys : BeginReset(j)
  <2>1. UNCHANGED <<ledger, db>>
    BY <1>5, ScanTyped
  <2>2. QED
    BY <1>4, <2>1 DEF ledger, db
<1>6. CASE Del
  <2>1. PICK j \in Keys :
          /\ Forget(j)
          /\ log'[j] \in {log[j], NoKey} /\ seq'[j] \in {seq[j], NoKey}
          /\ \A i \in Keys : i # j => log'[i] = log[i] /\ seq'[i] = seq[i]
    BY <1>6, DelTyped
  <2>2. /\ now' = now /\ admitted'[j] = 0 /\ \A r \in Times : before'[j][r] = 0
        /\ \A i \in Keys : i # j => admitted'[i] = admitted[i] /\ before'[i] = before[i]
    BY <2>1 DEF Forget, StoreOK, TypeOK, LedgerTypeOK
  <2>3. CASE k = j
    <3>1. New(k, s) = 0
      BY <1>1, <2>2, <2>3, KeyFacts
    <3>2. log'[k] \in Log \cup {NoKey} /\ LogOK(log'[k])
      BY <1>1, <2>1, <2>3 DEF LogOK
    <3>3. Cardinality(Held(log'[k], seq'[k], s)) \in Nat
      BY <3>2, HeldTyped, Positive
    <3>4. QED
      BY <3>1, <3>3 DEF Logged
  <2>4. CASE k # j
    BY <1>1, <1>4, <2>1, <2>2, <2>4
  <2>5. QED
    BY <2>3, <2>4
<1>7. ASSUME NEW j \in Keys, Allow(j)
      PROVE  Logged(log'[k], seq'[k], New(k, s), s)
  <2>1. PICK n \in Costs, at \in now..(now + DriftOf(j)) :
          \/ j \in BucketKeys  /\ AllowTokenBucket(j, n, at)
          \/ j \in WindowKeys  /\ AllowFixedWindow(j, n, at)
          \/ j \in CounterKeys /\ AllowSlidingWindowCounter(j, n, at)
          \/ j \in LogKeys     /\ AllowSlidingWindowLog(j, n, at)
    BY <1>7 DEF Allow
  <2>2. /\ now' = now /\ before' = before
        /\ \A i \in Keys : i # j =>
             admitted'[i] = admitted[i] /\ log'[i] = log[i] /\ seq'[i] = seq[i]
    BY <2>1, AllowTyped
  <2>3. CASE j # k
    BY <1>1, <1>4, <2>2, <2>3
  <2>4. CASE j = k
    <3> DEFINE d == SlidingLogScript(log[k], seq[k], at, now, n)
    <3>1. /\ AllowSlidingWindowLog(k, n, at) /\ n \in Nat
          /\ at \in now..(now + DriftOf(k)) /\ at \in Nat
          /\ now <= at /\ at - Window < s /\ s \in 0..now /\ s <= now
      BY <1>1, <2>1, <2>2, <2>4, KindsApart, Positive
    <3>2. /\ log' = [log EXCEPT ![k] = d.log] /\ seq' = [seq EXCEPT ![k] = d.seq]
          /\ Enter(k, n, at, d)
      BY <3>1 DEF AllowSlidingWindowLog
    <3>3. Logged(log[k], seq[k], Since(k, s), s)
      BY <1>2, <2>2, <3>1
    <3>4. Logged(d.log, d.seq, IF d.allowed THEN Since(k, s) + n ELSE Since(k, s), s)
      BY <1>1, <3>1, <3>3, LoggedAllow
    <3>5. d.allowed \in BOOLEAN
      <4>1. LogEffect(d, log[k], seq[k], at, now, n)
        BY <1>1, <3>1, LogScript
      <4> HIDE DEF d
      <4>2. QED
        BY <4>1 DEF LogEffect
    <3> HIDE DEF d
    <3>6. admitted'[k] = IF d.allowed THEN admitted[k] + n ELSE admitted[k]
      <4>1. TypeOK /\ at \in now..(now + DriftOf(k))
        BY <3>1 DEF StoreOK
      <4>2. QED
        BY <1>1, <3>2, <3>5, <4>1, EnterStep
    <3>7. New(k, s) = IF d.allowed THEN Since(k, s) + n ELSE Since(k, s)
      <4>1. admitted[k] \in Nat /\ before[k][s] \in Nat
        BY <1>1, <3>1, KeyFacts
      <4>2. QED
        BY <2>2, <3>1, <3>6, <4>1 DEF Since
    <3>8. log'[k] = d.log /\ seq'[k] = d.seq
      BY <1>1, <3>2 DEF StoreOK, TypeOK
    <3>9. QED
      BY <3>4, <3>7, <3>8
  <2>5. QED
    BY <2>3, <2>4
<1>8. CASE UNCHANGED vars
  BY <1>4, <1>8 DEF vars, ledger, db
<1>9. QED
  BY <1>3, <1>5, <1>6, <1>7, <1>8 DEF Next, Resetting

LEMMA LogsInit == Init => LogsInv
<1> SUFFICES ASSUME Init, NEW k \in LogKeys, NEW s \in 0..now
             PROVE  Logged(log[k], seq[k], Since(k, s), s)
  BY DEF LogsInv
<1>1. k \in Keys /\ Since(k, s) = 0 /\ log[k] = NoKey
  BY KindsApart, LedgerAssumption DEF Init, LedgerInit, Since, Times
<1>2. Cardinality(Held(log[k], seq[k], s)) \in Nat
  BY <1>1, HeldTyped, Positive DEF LogOK
<1>3. QED
  BY <1>1, <1>2 DEF Logged

LEMMA LogsBound ==
  ASSUME StoreOK, LogsInv
  PROVE  StrictLimit
<1> SUFFICES ASSUME NEW k \in LogKeys, NEW s \in 0..now, now - s + DriftOf(k) < Window
             PROVE  Since(k, s) <= Limit
  BY DEF StrictLimit
<1>1. /\ k \in Keys /\ now \in Nat /\ DriftOf(k) \in Nat /\ Window \in Nat
      /\ log[k] \in Log \cup {NoKey} /\ LogOK(log[k])
      /\ Since(k, s) \in Int
  BY KindsApart, KeyFacts, Positive
<1>2. now + DriftOf(k) - Window < s
  BY <1>1
<1>3. Since(k, s) <= Cardinality(Held(log[k], seq[k], s))
  BY <1>2 DEF LogsInv, Logged
<1>4. Cardinality(Held(log[k], seq[k], s)) \in 0..Limit
  BY <1>1, HeldTyped
<1>5. QED
  BY <1>1, <1>3, <1>4, Positive

\* Where a log lives as long as its window, no span that is shorter than the
\* window by the drift ever has more than the limit: what an eager clock removes
\* and what a script adds under a number of its own leaves nothing uncounted that
\* is younger (redis.go:179-231).
THEOREM StrictLimitHolds ==
  ASSUME WindowWithinTTL
  PROVE  Spec => []StrictLimit
<1>1. Init => StoreOK /\ LogsInv
  BY StoreOKInit, LogsInit
<1>2. StoreOK /\ LogsInv /\ [Next]_vars => StoreOK' /\ LogsInv'
  BY StoreOKStep, LogsStep
<1>3. StoreOK /\ LogsInv => StrictLimit
  BY LogsBound
<1>4. QED
  BY <1>1, <1>2, <1>3, PTL DEF Spec

-----------------------------------------------------------------------------
(* Expiry *)

Longest == IF TTL > 2 * Window THEN TTL ELSE 2 * Window

\* At time t what e is has an expiry that is not over and not too far.
Lasting(e, t) == e # NoKey => e.expiresAt \in t..(t + Longest)

Stored(k) ==
  /\ Lasting(bucket[k], now) /\ Lasting(log[k], now) /\ Lasting(seq[k], now)
  /\ \A w \in WindowNums : Lasting(counter[k][w], now)

StoredInv == \A k \in Keys : Stored(k)

LEMMA LongestSpans ==
  /\ Longest \in Nat /\ TTL \in Nat /\ TTL <= Longest
  /\ 2 * Window \in Nat /\ 2 * Window <= Longest
BY Positive DEF Longest

LEMMA LastingTick ==
  ASSUME NEW e, NEW t \in Nat, Lasting(e, t)
  PROVE  Lasting(Alive(e, t + 1), t + 1)
<1>1. CASE e = NoKey
  BY <1>1 DEF Alive, Lasting
<1>2. CASE e # NoKey
  <2>1. e.expiresAt \in t..(t + Longest) /\ Longest \in Nat
    BY <1>2, LongestSpans DEF Lasting
  <2>2. CASE t + 1 > e.expiresAt
    BY <1>2, <2>1, <2>2 DEF Alive, Lasting, Never
  <2>3. CASE ~ (t + 1 > e.expiresAt)
    <3>1. Alive(e, t + 1) = e
      BY <2>3 DEF Alive
    <3>2. e.expiresAt \in (t + 1)..(t + 1 + Longest)
      BY <2>1, <2>3
    <3>3. QED
      BY <3>1, <3>2 DEF Lasting
  <2>4. QED
    BY <2>2, <2>3
<1>3. QED
  BY <1>1, <1>2

LEMMA StoredTick ==
  ASSUME StoreOK, StoredInv, Tick
  PROVE  StoredInv'
<1> SUFFICES ASSUME NEW k \in Keys PROVE Stored(k)'
  BY DEF StoredInv
<1>1. /\ now \in Nat /\ now' = now + 1
      /\ bucket'[k] = Alive(bucket[k], now + 1)
      /\ log'[k] = Alive(log[k], now + 1) /\ seq'[k] = Alive(seq[k], now + 1)
      /\ \A w \in WindowNums : counter'[k][w] = Alive(counter[k][w], now + 1)
  BY Positive DEF Tick, AdvanceClock, StoreOK, TypeOK, LedgerTypeOK
<1>2. /\ Lasting(bucket[k], now) /\ Lasting(log[k], now) /\ Lasting(seq[k], now)
      /\ \A w \in WindowNums : Lasting(counter[k][w], now)
  BY DEF StoredInv, Stored
<1>3. /\ Lasting(bucket'[k], now') /\ Lasting(log'[k], now') /\ Lasting(seq'[k], now')
      /\ \A w \in WindowNums : Lasting(counter'[k][w], now')
  BY <1>1, <1>2, LastingTick
<1>4. QED
  BY <1>3 DEF Stored

\* Each script gives what it writes an expiry, or leaves the one there is.
LEMMA StoredAllow ==
  ASSUME StoreOK, NEW k \in Keys, Stored(k), NEW n \in Costs,
         NEW at \in now..(now + DriftOf(k)),
         \/ k \in BucketKeys  /\ AllowTokenBucket(k, n, at)
         \/ k \in WindowKeys  /\ AllowFixedWindow(k, n, at)
         \/ k \in CounterKeys /\ AllowSlidingWindowCounter(k, n, at)
         \/ k \in LogKeys     /\ AllowSlidingWindowLog(k, n, at)
  PROVE  Stored(k)'
<1>1. /\ now \in Nat /\ now \in Times /\ n \in Nat /\ at \in Nat /\ now' = now
      /\ WindowNum(at) \in WindowNums
  <2>1. now \in Nat /\ now \in Times /\ n \in Nat
    BY Positive DEF StoreOK, TypeOK, LedgerTypeOK
  <2>2. now' = now
    BY AllowTyped
  <2>3. QED
    BY <2>1, <2>2, Windowed
<1>2. /\ bucket \in [Keys -> Bucket \cup {NoKey}]
      /\ counter \in [Keys -> [WindowNums -> Counter \cup {NoKey}]]
      /\ log \in [Keys -> Log \cup {NoKey}] /\ LogOK(log[k])
      /\ seq \in [Keys -> Serial \cup {NoKey}]
  BY DEF StoreOK, TypeOK
<1>3. /\ Lasting(bucket[k], now) /\ Lasting(log[k], now) /\ Lasting(seq[k], now)
      /\ \A w \in WindowNums : Lasting(counter[k][w], now)
  BY DEF Stored
<1>4. /\ now + TTL \in now..(now + Longest)
      /\ now + 2 * Window \in now..(now + Longest)
  BY <1>1, LongestSpans
<1>5. SUFFICES /\ Lasting(bucket'[k], now) /\ Lasting(log'[k], now) /\ Lasting(seq'[k], now)
               /\ \A w \in WindowNums : Lasting(counter'[k][w], now)
  BY <1>1 DEF Stored
<1>6. CASE AllowTokenBucket(k, n, at)
  <2> DEFINE d == TokenBucketScript(bucket[k], at, now, n)
  <2>1. d.bucket.expiresAt = now + TTL
    BY DEF TokenBucketScript
  <2>2. bucket' = [bucket EXCEPT ![k] = d.bucket] /\ UNCHANGED <<counter, log, seq>>
    BY <1>6 DEF AllowTokenBucket
  <2> HIDE DEF d
  <2>3. bucket'[k] = d.bucket
    BY <1>2, <2>2
  <2>4. Lasting(bucket'[k], now)
    BY <1>4, <2>1, <2>3 DEF Lasting
  <2>5. QED
    BY <1>3, <2>2, <2>4
<1>7. CASE \/ k \in WindowKeys  /\ AllowFixedWindow(k, n, at)
           \/ k \in CounterKeys /\ AllowSlidingWindowCounter(k, n, at)
  <2> DEFINE w == WindowNum(at)
             c == counter[k]
  <2>1. PICK d : /\ Counts(d, c[w], now, n)
                 /\ counter' = [counter EXCEPT ![k] = [c EXCEPT ![w] = d.counter]]
                 /\ UNCHANGED <<bucket, log, seq>>
    BY <1>7, AllowCounts
  <2>2. /\ c \in [WindowNums -> Counter \cup {NoKey}] /\ c[w] \in Counter \cup {NoKey}
        /\ Lasting(c[w], now)
    BY <1>1, <1>2, <1>3
  <2>3. \/ d.counter = c[w]
        \/ d.counter.expiresAt = IF Value(c[w]) = 0 THEN now + 2 * Window ELSE c[w].expiresAt
    BY <2>1, Zenon DEF Counts
  <2>4. Value(c[w]) # 0 => c[w] # NoKey
    BY DEF Value
  <2> HIDE DEF c, w
  <2>5. Lasting(d.counter, now)
    <3>1. CASE d.counter = c[w]
      BY <2>2, <3>1
    <3>2. CASE d.counter.expiresAt = IF Value(c[w]) = 0 THEN now + 2 * Window ELSE c[w].expiresAt
      BY <1>4, <2>2, <2>4, <3>2 DEF Lasting
    <3>3. QED
      BY <2>3, <3>1, <3>2
  <2>6. \A x \in WindowNums : counter'[k][x] = IF x = w THEN d.counter ELSE c[x]
    BY <1>2, <2>1, <2>2
  <2>7. \A x \in WindowNums : Lasting(counter'[k][x], now)
    BY <1>3, <2>5, <2>6 DEF c
  <2>8. QED
    BY <1>3, <2>1, <2>7
<1>8. CASE AllowSlidingWindowLog(k, n, at)
  <2> DEFINE l == log[k]
             q == seq[k]
             d == SlidingLogScript(l, q, at, now, n)
  <2>1. l \in Log \cup {NoKey} /\ LogOK(l) /\ q \in Serial \cup {NoKey}
    BY <1>2
  <2>2. /\ log' = [log EXCEPT ![k] = d.log] /\ seq' = [seq EXCEPT ![k] = d.seq]
        /\ UNCHANGED <<bucket, counter>>
    BY <1>8 DEF AllowSlidingWindowLog
  <2>3. Lasting(l, now) /\ Lasting(q, now)
    BY <1>3
  <2> HIDE DEF l, q
  <2>4. LogEffect(d, l, q, at, now, n)
    BY <1>1, <2>1, LogScript
  <2> HIDE DEF d
  <2>8. log'[k] = d.log /\ seq'[k] = d.seq
    BY <1>2, <2>2
  <2>9. Lasting(d.log, now) /\ Lasting(d.seq, now)
    BY <1>4, <2>3, <2>4 DEF Lasting, LogEffect
  <2>10. QED
    BY <1>3, <2>2, <2>8, <2>9
<1>9. QED
  BY <1>6, <1>7, <1>8

LEMMA StoredStep ==
  ASSUME StoreOK, StoredInv, [Next]_vars
  PROVE  StoredInv'
<1>1. CASE Tick
  BY <1>1, StoredTick
<1> DEFINE Same(k) == /\ now' = now /\ bucket'[k] = bucket[k] /\ counter'[k] = counter[k]
                      /\ log'[k] = log[k] /\ seq'[k] = seq[k]
<1>2. ASSUME NEW k \in Keys, Same(k)
      PROVE  Stored(k)'
  BY <1>2 DEF StoredInv, Stored
<1>3. CASE \/ ScanPage \/ ScanEnds \/ ScanFails \/ DelFails \/ \E j \in Keys : BeginReset(j)
  <2>1. UNCHANGED <<ledger, db>>
    BY <1>3, ScanTyped
  <2>2. QED
    BY <1>2, <2>1 DEF ledger, db, StoredInv
<1>4. CASE Del
  <2>1. PICK j \in Keys :
          /\ Forget(j) /\ bucket'[j] = NoKey
          /\ \A w \in WindowNums : counter'[j][w] \in {counter[j][w], NoKey}
          /\ log'[j] \in {log[j], NoKey} /\ seq'[j] \in {seq[j], NoKey}
          /\ \A i \in Keys : i # j =>
               /\ bucket'[i] = bucket[i] /\ counter'[i] = counter[i]
               /\ log'[i] = log[i] /\ seq'[i] = seq[i]
    BY <1>4, DelTyped
  <2>2. now' = now
    BY <2>1 DEF Forget
  <2>3. Stored(j)'
    <3>1. /\ Lasting(log[j], now) /\ Lasting(seq[j], now)
          /\ \A w \in WindowNums : Lasting(counter[j][w], now)
      BY DEF StoredInv, Stored
    <3>2. Lasting(NoKey, now)
      BY DEF Lasting
    <3>3. /\ Lasting(bucket'[j], now') /\ Lasting(log'[j], now') /\ Lasting(seq'[j], now')
          /\ \A w \in WindowNums : Lasting(counter'[j][w], now')
      BY <2>1, <2>2, <3>1, <3>2
    <3>4. QED
      BY <3>3 DEF Stored
  <2>4. ASSUME NEW k \in Keys, k # j
        PROVE  Stored(k)'
    BY <1>2, <2>1, <2>2, <2>4
  <2>5. QED
    BY <2>3, <2>4 DEF StoredInv
<1>5. ASSUME NEW j \in Keys, Allow(j)
      PROVE  StoredInv'
  <2>1. PICK n \in Costs, at \in now..(now + DriftOf(j)) :
          \/ j \in BucketKeys  /\ AllowTokenBucket(j, n, at)
          \/ j \in WindowKeys  /\ AllowFixedWindow(j, n, at)
          \/ j \in CounterKeys /\ AllowSlidingWindowCounter(j, n, at)
          \/ j \in LogKeys     /\ AllowSlidingWindowLog(j, n, at)
    BY <1>5 DEF Allow
  <2>2. Stored(j)'
    BY <2>1, StoredAllow DEF StoredInv
  <2>3. ASSUME NEW k \in Keys, k # j
        PROVE  Stored(k)'
    <3>1. Same(k)
      BY <2>1, <2>3, AllowTyped
    <3>2. QED
      BY <1>2, <3>1
  <2>4. QED
    BY <2>2, <2>3 DEF StoredInv
<1>6. CASE UNCHANGED vars
  BY <1>2, <1>6 DEF vars, ledger, db, StoredInv
<1>7. QED
  BY <1>1, <1>3, <1>4, <1>5, <1>6 DEF Next, Resetting

LEMMA StoredInit == Init => StoredInv
<1> SUFFICES ASSUME Init, NEW k \in Keys PROVE Stored(k)
  BY DEF StoredInv
<1>1. /\ bucket[k] = NoKey /\ log[k] = NoKey /\ seq[k] = NoKey
      /\ \A w \in WindowNums : counter[k][w] = NoKey
  BY DEF Init
<1>2. QED
  BY <1>1 DEF Stored, Lasting

-----------------------------------------------------------------------------
(* Get, Set and Increment *)

\* EXPIRE with a ttl in whole seconds gives a time to live as well.
LEMMA LifetimesPositive ==
  /\ CountTTL \in Nat \ {0} /\ LongestTTL \in Nat
  /\ TTL <= LongestTTL /\ CountTTL <= LongestTTL
<1>1. TTL \in Nat /\ Second \in Nat /\ Second > 0
  BY Positive, PlainAssumption
<1>2. CountTTL \in Nat \ {0}
  <2>1. CASE TTL < Second
    BY <1>1, <2>1 DEF CountTTL, WholeSeconds
  <2>2. CASE ~ (TTL < Second)
    <3> DEFINE d == TTL \div Second
    <3>1. d \in Nat /\ d > 0
      <4>1. d \in Int /\ TTL >= Second
        BY <1>1, <2>2
      <4>2. QED
        BY <1>1, <4>1
    <3>2. CountTTL = Second * d
      BY <2>2 DEF CountTTL, WholeSeconds
    <3> HIDE DEF d
    <3>3. QED
      BY <1>1, <3>1, <3>2
  <2>3. QED
    BY <2>1, <2>2
<1>3. QED
  BY <1>1, <1>2 DEF LongestTTL

PlainTypeOK ==
  /\ plain \in [PlainKeys -> Plain \cup {NoKey}]
  /\ pipes \in [PlainKeys -> 0..MaxPipes]
  /\ unsafe \in [PlainKeys -> BOOLEAN]

\* What the string of a key says of expiry, when p pipelines have begun and u
\* says whether an EXPIRE was lost.
Expiring(e, p, u, t) ==
  e # NoKey => \/ e.expiresAt \in t..(t + LongestTTL)
               \/ e.expiresAt = Never /\ (p > 0 \/ u)

PlainInv == \A k \in PlainKeys : Expiring(plain[k], pipes[k], unsafe[k], now)

LegacyInv == StoreOK /\ StoredInv /\ PlainTypeOK /\ PlainInv

\* INCR adds one to a number, and leaves the expiry.
LEMMA Incremented ==
  ASSUME NEW e \in Plain \cup {NoKey}
  PROVE  /\ AfterIncr(e) \in Plain /\ AfterIncr(e) # NoKey
         /\ AfterIncr(e).expiresAt = IF e = NoKey THEN Never ELSE e.expiresAt
<1> DEFINE a == AfterIncr(e)
<1>1. \A i \in Nat \ {0} : Number(i) \in [number : Nat \ {0}] /\ Number(i + 1) \in [number : Nat \ {0}]
  BY DEF Number
<1>2. CASE e = NoKey
  <2>1. a = [string |-> Number(1), expiresAt |-> Never]
    BY <1>2 DEF AfterIncr
  <2>2. a \in Plain /\ a.expiresAt = Never
    BY <1>1, <2>1 DEF Plain, Expiry
  <2> HIDE DEF a
  <2>3. QED
    BY <1>2, <2>2, NoPlainAssumption DEF a
<1>3. CASE e # NoKey /\ IsNumber(e.string)
  <2> DEFINE m == [e.string EXCEPT !.number = @ + 1]
  <2>1. e \in Plain /\ e.string \in [number : Nat \ {0}]
    BY <1>3 DEF Plain, IsNumber
  <2>2. a = [e EXCEPT !.string = m]
    BY <1>3 DEF AfterIncr
  <2>3. m \in [number : Nat \ {0}]
    BY <2>1
  <2> HIDE DEF m, a
  <2>4. a \in Plain /\ a.expiresAt = e.expiresAt
    BY <2>1, <2>2, <2>3 DEF Plain
  <2>5. QED
    BY <1>3, <2>4, NoPlainAssumption DEF a
<1>4. CASE e # NoKey /\ ~ IsNumber(e.string)
  <2>1. a = e
    BY <1>4 DEF AfterIncr
  <2>2. QED
    BY <1>4, <2>1
<1>5. QED
  BY <1>2, <1>3, <1>4

\* What a step with one of the three operations leaves of a key.
LEMMA PlainStep ==
  ASSUME PlainTypeOK, PlainInv, now' = now, NEW k \in PlainKeys,
         NEW e \in Plain \cup {NoKey}, NEW p \in 0..MaxPipes, NEW u \in BOOLEAN,
         plain' = [plain EXCEPT ![k] = e], pipes' = [pipes EXCEPT ![k] = p],
         unsafe' = [unsafe EXCEPT ![k] = u], Expiring(e, p, u, now)
  PROVE  PlainTypeOK' /\ PlainInv'
<1>1. /\ plain' \in [PlainKeys -> Plain \cup {NoKey}] /\ plain'[k] = e
      /\ pipes' \in [PlainKeys -> 0..MaxPipes] /\ pipes'[k] = p
      /\ unsafe' \in [PlainKeys -> BOOLEAN] /\ unsafe'[k] = u
      /\ \A j \in PlainKeys : j # k =>
           plain'[j] = plain[j] /\ pipes'[j] = pipes[j] /\ unsafe'[j] = unsafe[j]
  BY DEF PlainTypeOK
<1>2. \A j \in PlainKeys : Expiring(plain'[j], pipes'[j], unsafe'[j], now)
  BY <1>1 DEF PlainInv
<1>3. QED
  BY <1>1, <1>2 DEF PlainTypeOK, PlainInv

LEMMA DirectKept ==
  ASSUME LegacyInv, NEW k \in PlainKeys, Direct(k)
  PROVE  PlainTypeOK' /\ PlainInv' /\ UNCHANGED vars
<1> DEFINE e == plain[k]
           p == pipes[k]
           u == unsafe[k]
<1>1. /\ PlainTypeOK /\ PlainInv /\ now \in Nat /\ TTL \in Nat /\ MaxPipes \in Nat
      /\ CountTTL \in Nat /\ LongestTTL \in Nat
      /\ TTL <= LongestTTL /\ CountTTL <= LongestTTL
      /\ e \in Plain \cup {NoKey} /\ p \in 0..MaxPipes /\ u \in BOOLEAN
      /\ plain = [plain EXCEPT ![k] = e] /\ pipes = [pipes EXCEPT ![k] = p]
      /\ unsafe = [unsafe EXCEPT ![k] = u]
      /\ Expiring(e, p, u, now)
  BY Positive, PlainAssumption, LifetimesPositive
     DEF LegacyInv, PlainTypeOK, PlainInv, StoreOK, TypeOK, LedgerTypeOK
<1>2. UNCHANGED vars
  BY DEF Direct, Get, Set, Incr, Expire, LoseExpire
<1>3. now' = now
  BY <1>2 DEF vars, ledger
<1>4. CASE Get(k)
  BY <1>1, <1>2, <1>3, <1>4 DEF Get, PlainTypeOK, PlainInv
<1>5. ASSUME NEW s \in States, Set(k, s)
      PROVE  PlainTypeOK' /\ PlainInv'
  <2> DEFINE f == [string |-> s, expiresAt |-> now + TTL]
  <2>1. /\ plain' = [plain EXCEPT ![k] = f] /\ unsafe' = [unsafe EXCEPT ![k] = FALSE]
        /\ pipes' = [pipes EXCEPT ![k] = p]
    BY <1>1, <1>5 DEF Set
  <2>2. f \in Plain /\ f.expiresAt = now + TTL
    BY <1>1 DEF Plain, Expiry
  <2> HIDE DEF f
  <2>3. Expiring(f, p, FALSE, now)
    BY <1>1, <2>2 DEF Expiring
  <2>4. QED
    BY <1>1, <1>2, <1>3, <2>1, <2>2, <2>3, PlainStep
<1>6. CASE Incr(k)
  <2> DEFINE q == p + 1
             f == AfterIncr(e)
  <2>1. /\ plain' = [plain EXCEPT ![k] = f] /\ pipes' = [pipes EXCEPT ![k] = q]
        /\ unsafe' = [unsafe EXCEPT ![k] = u] /\ p < MaxPipes
    BY <1>1, <1>6 DEF Incr
  <2>2. /\ f \in Plain /\ f # NoKey
        /\ f.expiresAt = IF e = NoKey THEN Never ELSE e.expiresAt
    BY <1>1, Incremented
  <2> HIDE DEF f
  <2>3. f \in Plain \cup {NoKey} /\ q \in 0..MaxPipes /\ q > 0
    BY <1>1, <2>1, <2>2
  <2>4. Expiring(f, q, u, now)
    BY <1>1, <2>2, <2>3 DEF Expiring
  <2> HIDE DEF q, e, p, u
  <2>5. /\ plain' \in [PlainKeys -> Plain \cup {NoKey}] /\ plain'[k] = f
        /\ pipes' \in [PlainKeys -> 0..MaxPipes] /\ pipes'[k] = q
        /\ \A j \in PlainKeys : j # k => plain'[j] = plain[j] /\ pipes'[j] = pipes[j]
    BY <1>1, <2>1, <2>3 DEF PlainTypeOK
  <2>6. \A j \in PlainKeys : Expiring(plain'[j], pipes'[j], unsafe[j], now)
    BY <1>1, <2>4, <2>5 DEF PlainInv, u
  <2>7. unsafe' = unsafe
    BY <1>6 DEF Incr
  <2>8. QED
    BY <1>1, <1>2, <1>3, <2>5, <2>6, <2>7 DEF PlainTypeOK, PlainInv
<1>7. CASE Expire(k)
  <2> DEFINE q == p - 1
             f == IF e = NoKey THEN NoKey ELSE [e EXCEPT !.expiresAt = now + CountTTL]
  <2>1. /\ plain' = [plain EXCEPT ![k] = f] /\ pipes' = [pipes EXCEPT ![k] = q]
        /\ unsafe' = [unsafe EXCEPT ![k] = FALSE] /\ p > 0
    BY <1>1, <1>7 DEF Expire
  <2>2. f \in Plain \cup {NoKey} /\ (f # NoKey => f.expiresAt = now + CountTTL)
    BY <1>1 DEF Plain, Expiry
  <2> HIDE DEF f
  <2>3. q \in 0..MaxPipes
    BY <1>1, <2>1
  <2>4. Expiring(f, q, FALSE, now)
    BY <1>1, <2>2 DEF Expiring
  <2> HIDE DEF q
  <2>5. QED
    BY <1>1, <1>2, <1>3, <2>1, <2>2, <2>3, <2>4, PlainStep
<1>8. CASE LoseExpire(k)
  <2> DEFINE q == p - 1
  <2>1. /\ plain' = [plain EXCEPT ![k] = e] /\ pipes' = [pipes EXCEPT ![k] = q]
        /\ unsafe' = [unsafe EXCEPT ![k] = TRUE] /\ p > 0
    BY <1>1, <1>8 DEF LoseExpire
  <2>2. q \in 0..MaxPipes
    BY <1>1, <2>1
  <2>3. Expiring(e, q, TRUE, now)
    BY <1>1 DEF Expiring
  <2> HIDE DEF q
  <2>4. QED
    BY <1>1, <1>2, <1>3, <2>1, <2>2, <2>3, PlainStep
<1>9. QED
  BY <1>2, <1>4, <1>5, <1>6, <1>7, <1>8 DEF Direct

LEMMA PlainTick ==
  ASSUME LegacyInv, LegacyTick
  PROVE  PlainTypeOK' /\ PlainInv'
<1>0. LongestTTL \in Nat
  BY LifetimesPositive
<1>1. /\ now \in Nat /\ now' = now + 1 /\ pipes' = pipes /\ unsafe' = unsafe
      /\ PlainTypeOK /\ PlainInv
      /\ \A k \in PlainKeys : plain'[k] = Alive(plain[k], now + 1)
      /\ plain' = [k \in PlainKeys |-> Alive(plain[k], now + 1)]
  BY Positive DEF LegacyTick, Tick, AdvanceClock, LegacyInv, StoreOK, TypeOK, LedgerTypeOK
<1>2. \A k \in PlainKeys : plain'[k] \in {plain[k], NoKey}
  BY <1>1 DEF Alive
<1>3. PlainTypeOK'
  BY <1>1, <1>2 DEF PlainTypeOK
<1>4. ASSUME NEW k \in PlainKeys
      PROVE  Expiring(plain'[k], pipes'[k], unsafe'[k], now')
  <2> DEFINE e == plain[k]
  <2>1. Expiring(e, pipes[k], unsafe[k], now)
    BY <1>1 DEF PlainInv
  <2>2. CASE plain'[k] = NoKey
    BY <2>2 DEF Expiring
  <2>3. CASE plain'[k] # NoKey
    <3>1. plain'[k] = e /\ e # NoKey /\ ~ (e.expiresAt # Never /\ now + 1 > e.expiresAt)
      BY <1>1, <2>3 DEF Alive
    <3>2. CASE e.expiresAt = Never
      <4>1. ~ (Never \in now..(now + LongestTTL))
        BY <1>0, <1>1 DEF Never
      <4>2. pipes[k] > 0 \/ unsafe[k]
        BY <2>1, <3>1, <3>2, <4>1 DEF Expiring
      <4>3. QED
        BY <1>0, <1>1, <3>1, <3>2, <4>2 DEF Expiring
    <3>3. CASE e.expiresAt # Never
      <4>1. e.expiresAt \in now..(now + LongestTTL)
        BY <2>1, <3>1, <3>3 DEF Expiring
      <4>2. e.expiresAt \in (now + 1)..(now + 1 + LongestTTL)
        BY <1>0, <1>1, <3>1, <3>3, <4>1
      <4>3. QED
        BY <1>0, <1>1, <3>1, <4>2 DEF Expiring
    <3>4. QED
      BY <3>2, <3>3
  <2>4. QED
    BY <2>2, <2>3
<1>5. QED
  BY <1>3, <1>4 DEF PlainInv

LEMMA PlainDel ==
  ASSUME LegacyInv, LegacyDel
  PROVE  PlainTypeOK' /\ PlainInv'
<1>1. /\ PlainTypeOK /\ PlainInv /\ pipes' = pipes /\ now' = now
      /\ plain' = [k \in PlainKeys |-> IF k = scan.key THEN NoKey ELSE plain[k]]
      /\ unsafe' = [k \in PlainKeys |-> unsafe[k] /\ k # scan.key]
  BY DelTyped DEF LegacyInv, LegacyDel, Del, Forget
<1>2. PlainTypeOK'
  BY <1>1 DEF PlainTypeOK
<1>3. ASSUME NEW k \in PlainKeys
      PROVE  Expiring(plain'[k], pipes'[k], unsafe'[k], now')
  <2>1. CASE k = scan.key
    BY <1>1, <2>1 DEF Expiring
  <2>2. CASE k # scan.key
    <3>1. plain'[k] = plain[k] /\ (unsafe[k] => unsafe'[k])
      BY <1>1, <2>2
    <3>2. Expiring(plain[k], pipes[k], unsafe[k], now)
      BY <1>1 DEF PlainInv
    <3>3. QED
      BY <1>1, <3>1, <3>2 DEF Expiring
  <2>3. QED
    BY <2>1, <2>2
<1>4. QED
  BY <1>2, <1>3 DEF PlainInv

\* Next to Get, Set and Increment the store makes its own steps.
LEMMA LegacyMakesSteps ==
  ASSUME [LegacyNext]_legacyVars, \A k \in PlainKeys : Direct(k) => UNCHANGED vars
  PROVE  [Next]_vars
<1>1. \A k \in Keys : LegacyAllow(k) \/ LegacyBeginReset(k) => Next
  BY DEF LegacyAllow, LegacyBeginReset, Next
<1>2. LegacyTick \/ LegacyResetting => Next
  BY DEF LegacyTick, LegacyResetting, LegacyScan, LegacyDel, Next, Resetting
<1>3. QED
  BY <1>1, <1>2 DEF LegacyNext, legacyVars

LEMMA LegacyInvStep ==
  ASSUME LegacyInv, [LegacyNext]_legacyVars
  PROVE  LegacyInv' /\ [Next]_vars
<1>1. [Next]_vars
  BY DirectKept, LegacyMakesSteps
<1>2. StoreOK' /\ StoredInv'
  BY <1>1, StoreOKStep, StoredStep DEF LegacyInv
<1>3. PlainTypeOK' /\ PlainInv'
  <2>1. CASE LegacyTick
    BY <2>1, PlainTick
  <2>2. CASE LegacyDel
    BY <2>2, PlainDel
  <2>3. ASSUME UNCHANGED legacy, now' = now
        PROVE  PlainTypeOK' /\ PlainInv'
    <3>1. UNCHANGED <<plain, pipes, unsafe>>
      BY <2>3 DEF legacy
    <3>2. PlainTypeOK /\ PlainInv
      BY DEF LegacyInv
    <3>3. QED
      BY <2>3, <3>1, <3>2 DEF PlainTypeOK, PlainInv
  <2>4. CASE LegacyScan \/ \E k \in Keys : LegacyBeginReset(k)
    <3>1. UNCHANGED legacy
      BY <2>4 DEF LegacyScan, LegacyBeginReset
    <3>2. UNCHANGED ledger
      BY <2>4 DEF LegacyScan, LegacyBeginReset, ScanPage, ScanEnds, ScanFails, DelFails, BeginReset
    <3>3. QED
      BY <2>3, <3>1, <3>2 DEF ledger
  <2>5. CASE \E k \in Keys : LegacyAllow(k)
    <3>1. PICK k \in Keys : Allow(k) /\ UNCHANGED legacy
      BY <2>5 DEF LegacyAllow
    <3>2. now' = now
      BY <3>1, AllowTyped DEF Allow, LegacyInv
    <3>3. QED
      BY <2>3, <3>1, <3>2
  <2>6. CASE \E k \in PlainKeys : Direct(k)
    BY <2>6, DirectKept
  <2>7. CASE UNCHANGED legacyVars
    BY <2>3, <2>7 DEF legacyVars, vars, ledger
  <2>8. QED
    BY <2>1, <2>2, <2>4, <2>5, <2>6, <2>7 DEF LegacyNext, LegacyResetting
<1>4. QED
  BY <1>1, <1>2, <1>3 DEF LegacyInv

LEMMA LegacyInvInit == LegacyInit => LegacyInv
<1> SUFFICES ASSUME LegacyInit PROVE LegacyInv
  OBVIOUS
<1>1. StoreOK /\ StoredInv
  BY StoreOKInit, StoredInit DEF LegacyInit
<1>2. PlainTypeOK /\ PlainInv
  BY PlainAssumption DEF LegacyInit, PlainTypeOK, PlainInv, Expiring
<1>3. QED
  BY <1>1, <1>2 DEF LegacyInv

LEMMA LegacyInvExpiry ==
  ASSUME LegacyInv
  PROVE  EveryKeyExpires
<1>1. ASSUME NEW k \in Keys
      PROVE  \A e \in ({bucket[k], log[k], seq[k]} \cup {counter[k][w] : w \in WindowNums}) \ {NoKey} :
               e.expiresAt \in now..(now + Longest)
  BY DEF LegacyInv, StoredInv, Stored, Lasting
<1>2. ASSUME NEW k \in PlainKeys, plain[k] # NoKey
      PROVE  \/ plain[k].expiresAt \in now..(now + LongestTTL)
             \/ plain[k].expiresAt = Never /\ (pipes[k] > 0 \/ unsafe[k])
  BY <1>2 DEF LegacyInv, PlainInv, Expiring
<1>3. QED
  BY <1>1, <1>2 DEF EveryKeyExpires, Longest

\* The limiters' part of Redis keeps all its promises while others use Get, Set,
\* Increment and Reset next to it (redis.go:243-315): every behaviour of the whole
\* is one of the store.
THEOREM LegacyUsesStore == LegacySpec => Spec
<1>1. LegacyInit => Init
  BY DEF LegacyInit
<1>2. QED
  BY <1>1, LegacyInvInit, LegacyInvStep, PTL DEF LegacySpec, Spec

\* Everything that Redis holds keeps its type: a counter and a log their limit,
\* and a string is what Set has put there or a number above zero.
THEOREM LegacyTypeCorrect == LegacySpec => []LegacyTypeOK
<1>1. LegacyInv => LegacyTypeOK
  BY DEF LegacyInv, StoreOK, PlainTypeOK, LegacyTypeOK
<1>2. QED
  BY <1>1, LegacyInvInit, LegacyInvStep, PTL DEF LegacySpec

\* Nothing is in Redis for ever, whatever the scripts, pipelines and Resets do in
\* between each other, unless an Increment lost its EXPIRE and returned an error.
THEOREM KeysExpire == LegacySpec => []EveryKeyExpires
BY LegacyInvInit, LegacyInvStep, LegacyInvExpiry, PTL DEF LegacySpec

-----------------------------------------------------------------------------
(* RetryAfter *)

LEMMA RoundedUp ==
  ASSUME NEW a \in Nat \ {0}, NEW b \in Nat \ {0}
  PROVE  /\ CeilDiv(a, b) \in Nat \ {0}
         /\ a <= b * CeilDiv(a, b) /\ b * (CeilDiv(a, b) - 1) < a
<1> DEFINE c == (a + b - 1) \div b
<1>1. a + b - 1 \in Nat
  OBVIOUS
<1>2. c \in Nat /\ b * c <= a + b - 1 /\ a + b - 1 < b * c + b
  BY <1>1, Division
<1>3. CeilDiv(a, b) = c
  BY DEF CeilDiv
<1> HIDE DEF c
<1>4. b * c \in Nat /\ b * (c - 1) = b * c - b
  BY <1>2
<1>5. c # 0
  BY <1>2
<1>6. QED
  BY <1>2, <1>3, <1>4, <1>5

LEMMA BucketAnswer ==
  ASSUME NEW b \in Bucket \cup {NoKey}, NEW at \in Nat, NEW t \in Nat, NEW n \in Nat
  PROVE  /\ Refilled(b, at).tokens >= n * Scale => TokenBucketScript(b, at, t, n).allowed
         /\ ~ (Refilled(b, at).tokens >= n * Scale) => ~ TokenBucketScript(b, at, t, n).allowed
<1>1. TokenBucketScript(b, at, t, n).allowed = (Refilled(b, at).tokens >= n * Scale)
  BY BucketScript
<1>2. QED
  BY <1>1, Zenon

\* A script that comes w ticks after a refused one finds the bucket that this one
\* has left, or none any more.
LEMMA BucketAgain ==
  ASSUME NEW b \in Bucket, NEW t \in Nat, NEW w \in Nat, NEW n \in Nat,
         b.lastUpdate = t, b.expiresAt = t + TTL, n * Scale <= Full
  PROVE  LET d == TokenBucketScript(Alive(b, t + w), t + w, t + w, n)
         IN  /\ w > TTL => d.allowed
             /\ b.tokens + Rate * w >= n * Scale => d.allowed
             /\ w <= TTL /\ b.tokens + Rate * w < n * Scale => ~ d.allowed
<1> DEFINE at == t + w
           e == Alive(b, at)
           r == Refilled(e, at)
           d == TokenBucketScript(e, at, at, n)
<1>1. /\ TTL \in Nat /\ Full \in Nat /\ n * Scale \in Nat /\ b.tokens \in 0..Full
      /\ Rate * w \in Nat /\ at \in Nat /\ b # NoKey
  BY Positive, NothingAssumption DEF Bucket
<1>2. /\ w > TTL => e = NoKey
      /\ w <= TTL => e = b
  BY <1>1 DEF Alive, Never
<1>3. e \in Bucket \cup {NoKey}
  BY <1>1, <1>2
<1> HIDE DEF e, at
<1>4. /\ r.tokens \in 0..Full
      /\ e = NoKey => r.tokens = Full
      /\ e # NoKey /\ at > e.lastUpdate =>
           r.tokens = Least(e.tokens + Rate * (at - e.lastUpdate), Full)
      /\ e # NoKey /\ ~ (at > e.lastUpdate) => r.tokens = e.tokens
  BY <1>1, <1>3, RefilledBucket
<1>5. /\ r.tokens >= n * Scale => d.allowed
      /\ ~ (r.tokens >= n * Scale) => ~ d.allowed
  BY <1>1, <1>3, BucketAnswer
<1> HIDE DEF r, d
<1>6. w > TTL => r.tokens = Full
  BY <1>2, <1>4
<1>7. w <= TTL => r.tokens = Least(b.tokens + Rate * w, Full)
  <2>1. CASE w <= TTL /\ w > 0
    <3>1. e = b /\ at > e.lastUpdate /\ at - e.lastUpdate = w
      BY <1>2, <2>1 DEF at
    <3>2. QED
      BY <1>1, <1>4, <3>1
  <2>2. CASE w <= TTL /\ w = 0
    <3>1. e = b /\ ~ (at > e.lastUpdate) /\ Rate * w = 0
      BY <1>2, <2>2, Positive DEF at
    <3>2. QED
      BY <1>1, <1>4, <3>1 DEF Least
  <2>3. QED
    BY <2>1, <2>2
<1>8. /\ w > TTL => r.tokens >= n * Scale
      /\ b.tokens + Rate * w >= n * Scale => r.tokens >= n * Scale
      /\ w <= TTL /\ b.tokens + Rate * w < n * Scale => ~ (r.tokens >= n * Scale)
  <2>1. w > TTL \/ w <= TTL
    BY <1>1
  <2>2. CASE w > TTL
    BY <1>1, <1>6, <2>2
  <2>3. CASE w <= TTL
    BY <1>1, <1>7, <2>3 DEF Least
  <2>4. QED
    BY <2>1, <2>2, <2>3
<1>9. QED
  BY <1>5, <1>8, Zenon DEF d, e, at

\* A bucket does not expire before it would be full again.
FullBeforeExpiry == Full <= Rate * (TTL + 1)

LEMMA BucketRetry ==
  ASSUME FullBeforeExpiry,
         NEW b \in Bucket \cup {NoKey}, NEW t \in Nat, NEW n \in Nat, n * Scale <= Full,
         b # NoKey => b.lastUpdate <= t,
         ~ TokenBucketScript(b, t, t, n).allowed
  PROVE  LET d == TokenBucketScript(b, t, t, n)
             Retry(w) == TokenBucketScript(Alive(d.bucket, t + w), t + w, t + w, n).allowed
         IN  Retry(d.retryAfter) /\ \A w \in 0..(d.retryAfter - 1) : ~ Retry(w)
<1> DEFINE r == Refilled(b, t)
           d == TokenBucketScript(b, t, t, n)
           e == d.bucket
           need == n * Scale - r.tokens
           wait == d.retryAfter
<1>1. /\ r.tokens \in 0..Full /\ r.lastUpdate = t
  BY RefilledBucket DEF Bucket
<1>2. ~ (r.tokens >= n * Scale)
  BY BucketAnswer
<1>3. /\ e \in Bucket /\ e.tokens = r.tokens /\ e.lastUpdate = t /\ e.expiresAt = t + TTL
      /\ wait = CeilDiv(need, Rate)
  <2>1. /\ e \in Bucket
        /\ e.tokens = IF r.tokens >= n * Scale THEN r.tokens - n * Scale ELSE r.tokens
        /\ e.lastUpdate = r.lastUpdate /\ e.expiresAt = t + TTL
        /\ wait = IF r.tokens >= n * Scale THEN 0 ELSE CeilDiv(need, Rate)
    BY BucketScript
  <2> HIDE DEF d, r
  <2>2. QED
    BY <1>1, <1>2, <2>1
<1> HIDE DEF d, r
<1>4. /\ n * Scale \in Nat /\ Full \in Nat /\ TTL \in Nat /\ Rate \in Nat \ {0}
      /\ need \in Nat \ {0} /\ need <= Full
  <2>1. n * Scale \in Nat /\ Full \in Nat /\ TTL \in Nat /\ Rate \in Nat \ {0}
    BY Positive
  <2>2. QED
    BY <1>1, <1>2, <2>1
<1>5. /\ wait \in Nat \ {0} /\ need <= Rate * wait /\ Rate * (wait - 1) < need
  BY <1>3, <1>4, RoundedUp
<1> HIDE DEF need
<1>6. wait - 1 <= TTL
  <2>1. Rate * (wait - 1) < Rate * (TTL + 1)
    <3>1. Rate * (wait - 1) \in Int /\ Rate * (TTL + 1) \in Int
      BY <1>4, <1>5
    <3>2. QED
      BY <1>4, <1>5, <3>1 DEF FullBeforeExpiry
  <2>2. ~ (TTL + 1 <= wait - 1)
    <3>1. TTL + 1 <= wait - 1 => Rate * (TTL + 1) <= Rate * (wait - 1)
      BY <1>4, <1>5, Flows
    <3>2. Rate * (wait - 1) \in Int /\ Rate * (TTL + 1) \in Int
      BY <1>4, <1>5
    <3>3. QED
      BY <2>1, <3>1, <3>2
  <2>3. QED
    BY <1>4, <1>5, <2>2
<1> DEFINE Retry(w) == TokenBucketScript(Alive(e, t + w), t + w, t + w, n).allowed
<1>7. \A w \in Nat : /\ e.tokens + Rate * w >= n * Scale => Retry(w)
                     /\ w <= TTL /\ e.tokens + Rate * w < n * Scale => ~ Retry(w)
  BY <1>3, BucketAgain
<1>8. Retry(wait)
  <2>1. e.tokens + Rate * wait >= n * Scale
    <3>1. Rate * wait \in Nat
      BY <1>4, <1>5
    <3>2. QED
      BY <1>1, <1>3, <1>4, <1>5, <3>1 DEF need
  <2> HIDE DEF Retry, wait
  <2>2. QED
    BY <1>5, <1>7, <2>1
<1>9. ASSUME NEW w \in 0..(wait - 1)
      PROVE  ~ Retry(w)
  <2>1. w \in Nat /\ w <= wait - 1 /\ w <= TTL
    BY <1>4, <1>5, <1>6
  <2>2. Rate * w <= Rate * (wait - 1) /\ Rate * w \in Int /\ Rate * (wait - 1) \in Int
    <3>1. wait - 1 \in Int /\ w \in Int
      BY <1>5, <2>1
    <3> HIDE DEF wait
    <3>2. QED
      BY <2>1, <3>1, Flows
  <2>3. e.tokens + Rate * w < n * Scale
    BY <1>1, <1>3, <1>4, <1>5, <2>2 DEF need
  <2> HIDE DEF Retry, wait
  <2>4. QED
    BY <1>7, <2>1, <2>3
<1>10. QED
  BY <1>8, <1>9 DEF d

\* Among members with natural scores up to t, every rank has its score.
LEMMA RankedScore ==
  ASSUME NEW M, IsFiniteSet(M), NEW t \in Nat, \A m \in M : m.score \in Nat /\ m.score <= t,
         NEW r \in Nat \ {0}, r <= Cardinality(M)
  PROVE  /\ \E m \in M : m.score = Score(M, r)
         /\ Score(M, r) \in Nat
         /\ Cardinality({m \in M : m.score < Score(M, r)}) < r
         /\ Cardinality({m \in M : m.score <= Score(M, r)}) >= r
<1> DEFINE Below(x) == {m \in M : m.score < x}
           UpTo(x) == {m \in M : m.score <= x}
           Enough == {x \in Nat : Cardinality(UpTo(x)) >= r}
           Ranked(x) == Cardinality(Below(x)) < r /\ Cardinality(UpTo(x)) >= r
<1>1. t \in Enough
  <2>1. UpTo(t) = M
    OBVIOUS
  <2>2. QED
    BY <2>1
<1>2. PICK x \in Enough : \A y \in Enough : ~ (<<y, x>> \in OpToRel(<, Nat))
  <2> HIDE DEF Enough
  <2>1. Enough \subseteq Nat
    BY DEF Enough
  <2>2. QED
    BY <1>1, <2>1, WFMin, NatLessThanWellFounded
<1>3. x \in Nat /\ Cardinality(UpTo(x)) >= r
  OBVIOUS
<1>4. \A y \in Nat : y < x => ~ (Cardinality(UpTo(y)) >= r)
  <2> SUFFICES ASSUME NEW y \in Nat, y < x, y \in Enough
               PROVE  FALSE
    OBVIOUS
  <2> HIDE DEF Enough
  <2>1. <<y, x>> \in OpToRel(<, Nat)
    BY <1>3 DEF OpToRel
  <2>2. QED
    BY <1>2, <2>1
<1> HIDE DEF Enough
<1>5. \A y \in Nat : Cardinality(UpTo(y)) \in Nat /\ Cardinality(Below(y)) \in Nat
  <2>1. \A y \in Nat : UpTo(y) \in SUBSET M /\ Below(y) \in SUBSET M
    OBVIOUS
  <2> HIDE DEF UpTo, Below
  <2>2. QED
    BY <2>1, FS_Subset, FS_CardinalityType
<1>6. Cardinality(Below(x)) < r
  <2>1. CASE x = 0
    <3>1. Below(x) = {}
      BY <2>1
    <3>2. QED
      BY <3>1, FS_EmptySet
  <2>2. CASE x # 0
    <3>1. x - 1 \in Nat /\ x - 1 < x
      BY <1>3, <2>2
    <3>2. Below(x) = UpTo(x - 1)
      BY <1>3, <3>1
    <3>3. ~ (Cardinality(UpTo(x - 1)) >= r) /\ Cardinality(UpTo(x - 1)) \in Nat
      BY <1>4, <1>5, <3>1
    <3> HIDE DEF UpTo, Below
    <3>4. QED
      BY <3>2, <3>3
  <2>3. QED
    BY <2>1, <2>2
<1>7. \E m \in M : m.score = x
  <2> SUFFICES ASSUME \A m \in M : m.score # x PROVE FALSE
    OBVIOUS
  <2>1. UpTo(x) = Below(x)
    BY <1>3
  <2> HIDE DEF UpTo, Below
  <2>2. QED
    BY <1>3, <1>5, <1>6, <2>1
<1>8. x \in {m.score : m \in M} /\ Ranked(x)
  BY <1>3, <1>6, <1>7
<1>9. Score(M, r) = CHOOSE y \in {m.score : m \in M} : Ranked(y)
  BY DEF Score
<1> HIDE DEF Ranked
<1>10. Score(M, r) \in {m.score : m \in M} /\ Ranked(Score(M, r))
  BY <1>8, <1>9
<1>11. QED
  BY <1>10 DEF Ranked

LEMMA LogAnswer ==
  ASSUME NEW l \in Log \cup {NoKey}, LogOK(l), NEW q \in Serial \cup {NoKey},
         NEW at \in Nat, NEW t \in Nat, NEW n \in Nat
  PROVE  /\ Cardinality(Remaining(l, at)) + n <= Limit => SlidingLogScript(l, q, at, t, n).allowed
         /\ ~ (Cardinality(Remaining(l, at)) + n <= Limit) =>
              ~ SlidingLogScript(l, q, at, t, n).allowed
<1>1. SlidingLogScript(l, q, at, t, n).allowed = (Cardinality(Remaining(l, at)) + n <= Limit)
  BY Zenon DEF SlidingLogScript, Remaining
<1>2. QED
  BY <1>1, Zenon

\* What a refused script leaves, and what it answers.
LEMMA LogRefusal ==
  ASSUME NEW l \in Log \cup {NoKey}, LogOK(l), NEW q \in Serial \cup {NoKey},
         NEW t \in Nat, NEW n \in Nat, n <= Limit,
         ~ SlidingLogScript(l, q, t, t, n).allowed
  PROVE  LET d == SlidingLogScript(l, q, t, t, n)
             kept == Remaining(l, t)
         IN  /\ ~ (Cardinality(kept) + n <= Limit)
             /\ d.retryAfter = Score(kept, Cardinality(kept) + n - Limit) + Window - t
             /\ d.log \in Log \cup {NoKey} /\ LogOK(d.log) /\ Members(d.log) = kept
             /\ d.log # NoKey => l # NoKey /\ d.log.expiresAt = l.expiresAt
             /\ d.seq = q
<1> DEFINE d == SlidingLogScript(l, q, t, t, n)
           kept == Remaining(l, t)
           needed == Cardinality(kept) + n - Limit
           allowed == Cardinality(kept) + n <= Limit
<1>1. ~ allowed
  BY LogAnswer
<1>2. d.retryAfter = CASE allowed -> 0
                       [] ~ allowed /\ needed <= Cardinality(kept) ->
                            Score(kept, needed) + Window - t
                       [] OTHER -> Window
  BY DEF SlidingLogScript, Remaining
<1>3. needed <= Cardinality(kept)
  <2>1. Cardinality(kept) \in Nat
    BY RemainingMembers, Positive
  <2>2. QED
    BY <2>1, Positive
<1>4. LogEffect(d, l, q, t, t, n) /\ ~ d.allowed
  BY LogScript
<1> HIDE DEF d, kept, needed, allowed
<1>5. /\ d.log \in Log \cup {NoKey} /\ LogOK(d.log) /\ Members(d.log) = kept
      /\ d.log # NoKey => l # NoKey /\ d.log.expiresAt = l.expiresAt
      /\ d.seq = q
  BY <1>4, Zenon DEF LogEffect, kept
<1>6. d.retryAfter = Score(kept, needed) + Window - t
  BY <1>1, <1>2, <1>3, Zenon
<1>7. QED
  BY <1>1, <1>5, <1>6, Zenon DEF d, kept, needed, allowed

\* At time t no member of log l is of later, and l does not expire before the
\* youngest of its members would.
Dated(l, t) == \A m \in Members(l) : m.score <= t /\ m.score + TTL <= l.expiresAt

LEMMA LogRetry ==
  ASSUME WindowWithinTTL,
         NEW l \in Log \cup {NoKey}, LogOK(l), NEW q \in Serial \cup {NoKey},
         NEW t \in Nat, Dated(l, t), NEW n \in Nat, n <= Limit,
         ~ SlidingLogScript(l, q, t, t, n).allowed
  PROVE  LET d == SlidingLogScript(l, q, t, t, n)
             Retry(w) == SlidingLogScript(Alive(d.log, t + w), Alive(d.seq, t + w),
                                          t + w, t + w, n).allowed
         IN  Retry(d.retryAfter) /\ \A w \in 0..(d.retryAfter - 1) : ~ Retry(w)
<1> DEFINE d == SlidingLogScript(l, q, t, t, n)
           kept == Remaining(l, t)
           needed == Cardinality(kept) + n - Limit
           x == Score(kept, needed)
           Later(a) == Alive(d.log, a)
           Again(a) == SlidingLogScript(Later(a), Alive(d.seq, a), a, a, n).allowed
<1>1. /\ ~ (Cardinality(kept) + n <= Limit)
      /\ d.retryAfter = x + Window - t
      /\ d.log \in Log \cup {NoKey} /\ LogOK(d.log) /\ Members(d.log) = kept
      /\ d.log # NoKey => l # NoKey /\ d.log.expiresAt = l.expiresAt
      /\ d.seq = q
  BY LogRefusal
<1> HIDE DEF d
<1>2. /\ IsFiniteSet(kept) /\ Cardinality(kept) \in 0..Limit
      /\ Limit \in Nat /\ Window \in Nat /\ TTL \in Nat /\ Window <= TTL + 1
      /\ l # NoKey => l.expiresAt \in Int
  BY RemainingMembers, Positive DEF WindowWithinTTL, Log, Expiry, Never
<1>3. \A m \in kept : /\ m.score \in Nat /\ m.score <= t /\ m.score > t - Window
                      /\ m.score + TTL <= l.expiresAt
  BY RemainingMembers DEF Remaining, Dated, Member
<1> HIDE DEF kept
<1>4. /\ \E m \in kept : m.score = x
      /\ x \in Nat
      /\ Cardinality({m \in kept : m.score < x}) < needed
      /\ Cardinality({m \in kept : m.score <= x}) >= needed
  <2>1. needed \in Nat \ {0} /\ needed <= Cardinality(kept)
    BY <1>1, <1>2
  <2> HIDE DEF needed
  <2>2. QED
    BY <1>2, <1>3, <2>1, RankedScore
<1>5. x <= t /\ x > t - Window /\ x + TTL <= l.expiresAt
  BY <1>3, <1>4
<1>6. d.log # NoKey /\ d.log.expiresAt = l.expiresAt /\ l # NoKey
  <2>1. kept # {}
    BY <1>4
  <2>2. QED
    BY <1>1, <2>1 DEF Members
<1> HIDE DEF x, needed
<1>7. ASSUME NEW a \in Nat
      PROVE  /\ Cardinality(Remaining(Later(a), a)) + n <= Limit => Again(a)
             /\ ~ (Cardinality(Remaining(Later(a), a)) + n <= Limit) => ~ Again(a)
             /\ Later(a) \in {d.log, NoKey}
             /\ a <= l.expiresAt => Later(a) = d.log
  <2>1. Later(a) \in {d.log, NoKey} /\ Alive(q, a) \in {q, NoKey}
    BY DEF Alive
  <2>2. /\ Later(a) \in Log \cup {NoKey} /\ LogOK(Later(a))
        /\ Alive(d.seq, a) \in Serial \cup {NoKey}
    BY <1>1, <2>1 DEF LogOK
  <2>3. a <= l.expiresAt => Later(a) = d.log
    BY <1>2, <1>6 DEF Alive
  <2> DEFINE y == Later(a)
             z == Alive(d.seq, a)
  <2> HIDE DEF y, z
  <2>4. y \in Log \cup {NoKey} /\ LogOK(y) /\ z \in Serial \cup {NoKey}
    BY <2>2 DEF y, z
  <2>5. /\ Cardinality(Remaining(y, a)) + n <= Limit => SlidingLogScript(y, z, a, a, n).allowed
        /\ ~ (Cardinality(Remaining(y, a)) + n <= Limit) =>
             ~ SlidingLogScript(y, z, a, a, n).allowed
    BY <2>4, LogAnswer
  <2>6. QED
    BY <2>1, <2>3, <2>5, Zenon DEF y, z
<1> HIDE DEF Again
<1>8. Again(x + Window)
  <2> DEFINE a == x + Window
             rest == Remaining(Later(a), a)
             gone == {m \in kept : m.score <= x}
  <2>1. a \in Nat
    BY <1>2, <1>4
  <2>2. Later(a) \in {d.log, NoKey}
    BY <1>7, <2>1
  <2>3. rest \subseteq kept \ gone
    <3>1. Members(Later(a)) \subseteq kept
      BY <1>1, <2>2 DEF Members
    <3>2. \A m \in rest : m \in kept /\ m.score > x
      <4> SUFFICES ASSUME NEW m \in rest PROVE m \in kept /\ m.score > x
        OBVIOUS
      <4>1. m \in Members(Later(a)) /\ m.score > a - Window
        BY DEF Remaining
      <4>2. a - Window = x
        BY <1>2, <1>4
      <4>3. QED
        BY <3>1, <4>1, <4>2
    <3>3. QED
      BY <1>3, <1>4, <3>2
  <2>4. kept \cap gone = gone /\ gone \in SUBSET kept
    OBVIOUS
  <2> HIDE DEF rest, gone, a
  <2>5. /\ IsFiniteSet(kept \ gone)
        /\ Cardinality(kept \ gone) = Cardinality(kept) - Cardinality(gone)
    BY <1>2, <2>4, FS_Difference
  <2>6. IsFiniteSet(rest) /\ Cardinality(rest) <= Cardinality(kept \ gone)
    BY <2>3, <2>5, FS_Subset
  <2>7. Cardinality(gone) \in Nat /\ Cardinality(rest) \in Nat
    BY <1>2, <2>4, <2>6, FS_Subset, FS_CardinalityType
  <2>8. Cardinality(gone) >= Cardinality(kept) + n - Limit
    BY <1>4 DEF gone, needed
  <2>9. Cardinality(rest) + n <= Limit
    BY <1>2, <2>5, <2>6, <2>7, <2>8
  <2>10. QED
    BY <1>7, <2>1, <2>9 DEF a, rest
<1>9. ASSUME NEW a \in Nat, t <= a, a < x + Window
      PROVE  ~ Again(a)
  <2> DEFINE rest == Remaining(d.log, a)
             gone == {m \in kept : m.score < x}
  <2>1. Later(a) = d.log
    <3>1. a <= l.expiresAt
      BY <1>2, <1>4, <1>5, <1>6, <1>9
    <3>2. QED
      BY <1>7, <3>1
  <2>2. kept \ gone \subseteq rest
    <3>1. \A m \in kept \ gone : m.score > a - Window
      BY <1>2, <1>3, <1>4, <1>9
    <3>2. QED
      BY <1>1, <3>1 DEF Remaining
  <2>3. IsFiniteSet(rest) /\ Cardinality(rest) \in Nat
    BY <1>1, RemainingMembers, FS_CardinalityType
  <2>4. kept \cap gone = gone /\ gone \in SUBSET kept
    OBVIOUS
  <2> HIDE DEF rest, gone
  <2>5. Cardinality(kept \ gone) = Cardinality(kept) - Cardinality(gone)
    BY <1>2, <2>4, FS_Difference
  <2>6. Cardinality(kept \ gone) <= Cardinality(rest)
    BY <2>2, <2>3, FS_Subset
  <2>7. Cardinality(gone) \in Nat
    BY <1>2, <2>4, FS_Subset, FS_CardinalityType
  <2>8. Cardinality(gone) < Cardinality(kept) + n - Limit
    BY <1>4 DEF gone, needed
  <2>9. ~ (Cardinality(rest) + n <= Limit)
    BY <1>2, <2>3, <2>5, <2>6, <2>7, <2>8
  <2>10. QED
    BY <1>7, <2>1, <2>9 DEF rest
<1>10. /\ t + d.retryAfter = x + Window
       /\ \A w \in 0..(d.retryAfter - 1) : t + w \in Nat /\ t <= t + w /\ t + w < x + Window
  BY <1>1, <1>2, <1>4
<1>11. Again(t + d.retryAfter)
  BY <1>8, <1>10
<1>12. \A w \in 0..(d.retryAfter - 1) : ~ Again(t + w)
  BY <1>9, <1>10
<1>13. QED
  BY <1>11, <1>12 DEF Again, d


\* No clock goes back for a client that is alone: nothing its key holds is of
\* later.
Past(b, t) == b # NoKey => b.lastUpdate <= t

SoloInv ==
  \A k \in Keys \ SharedKeys :
    /\ k \in BucketKeys => Past(bucket[k], now)
    /\ k \in LogKeys => Dated(log[k], now)

LEMMA DatedLater ==
  ASSUME NEW l \in Log \cup {NoKey}, LogOK(l), NEW t \in Nat, Dated(l, t),
         NEW m, m \in {l, NoKey}
  PROVE  Dated(m, t + 1) /\ Dated(m, t)
<1>1. Dated(NoKey, t) /\ Dated(NoKey, t + 1)
  BY DEF Dated, Members
<1>2. \A x \in Members(l) : x.score \in Nat
  BY RemainingMembers DEF Member
<1>3. Dated(l, t + 1)
  BY <1>2 DEF Dated
<1>4. QED
  BY <1>1, <1>3

LEMMA PastAllow ==
  ASSUME NEW b \in Bucket \cup {NoKey}, NEW t \in Nat, NEW n \in Nat, Past(b, t)
  PROVE  Past(TokenBucketScript(b, t, t, n).bucket, t)
<1>1. Refilled(b, t).lastUpdate <= t
  BY RefilledBucket DEF Past, Bucket
<1>2. TokenBucketScript(b, t, t, n).bucket.lastUpdate = Refilled(b, t).lastUpdate
  BY BucketScript
<1>3. QED
  BY <1>1, <1>2 DEF Past

LEMMA DatedAllow ==
  ASSUME NEW l \in Log \cup {NoKey}, LogOK(l), NEW q \in Serial \cup {NoKey},
         NEW t \in Nat, NEW n \in Nat, Dated(l, t)
  PROVE  Dated(SlidingLogScript(l, q, t, t, n).log, t)
<1> DEFINE d == SlidingLogScript(l, q, t, t, n)
           kept == Remaining(l, t)
           more == Entries(q, t, n)
<1>1. LogEffect(d, l, q, t, t, n)
  BY LogScript
<1> HIDE DEF d
<1>2. /\ d.allowed \in BOOLEAN
      /\ d.allowed => Members(d.log) = kept \cup more
      /\ d.allowed => (d.log # NoKey => d.log.expiresAt = t + TTL)
      /\ ~ d.allowed => Members(d.log) = kept
      /\ ~ d.allowed => (d.log # NoKey => l # NoKey /\ d.log.expiresAt = l.expiresAt)
  BY <1>1, Zenon DEF LogEffect
<1>6. \A m \in kept : m.score \in Nat /\ m.score <= t /\ m.score + TTL <= l.expiresAt
  BY RemainingMembers DEF Remaining, Dated, Member
<1>7. \A m \in more : m.score = t
  BY NewMembers
<1>8. TTL \in Nat
  BY Positive
<1> HIDE DEF kept, more
<1>9. SUFFICES ASSUME NEW m \in Members(d.log)
               PROVE  m.score <= t /\ m.score + TTL <= d.log.expiresAt
  BY DEF Dated, d
<1>10. d.log # NoKey
  BY DEF Members
<1>11. CASE d.allowed
  BY <1>2, <1>6, <1>7, <1>8, <1>10, <1>11
<1>12. CASE ~ d.allowed
  BY <1>2, <1>6, <1>10, <1>12
<1>13. QED
  BY <1>2, <1>11, <1>12

LEMMA SoloStep ==
  ASSUME StoreOK, SoloInv, [Next]_vars
  PROVE  SoloInv'
<1> DEFINE Solo(k) == /\ k \in BucketKeys => Past(bucket'[k], now')
                      /\ k \in LogKeys => Dated(log'[k], now')
<1> SUFFICES ASSUME NEW k \in Keys \ SharedKeys PROVE Solo(k)
  BY DEF SoloInv
<1>1. /\ now \in Nat /\ DriftOf(k) = 0
      /\ bucket[k] \in Bucket \cup {NoKey}
      /\ log[k] \in Log \cup {NoKey} /\ LogOK(log[k])
      /\ seq[k] \in Serial \cup {NoKey}
  BY Positive DEF StoreOK, TypeOK, LedgerTypeOK, DriftOf
<1>2. /\ k \in BucketKeys => Past(bucket[k], now)
      /\ k \in LogKeys => Dated(log[k], now)
  BY DEF SoloInv
<1>3. CASE Tick
  <2>1. /\ now' = now + 1 /\ bucket'[k] \in {bucket[k], NoKey} /\ log'[k] \in {log[k], NoKey}
    BY <1>3 DEF Tick, AdvanceClock, Alive
  <2>2. k \in BucketKeys => Past(bucket'[k], now + 1)
    BY <1>1, <1>2, <2>1 DEF Past, Bucket
  <2>3. k \in LogKeys => Dated(log'[k], now + 1)
    BY <1>1, <1>2, <2>1, DatedLater
  <2>4. QED
    BY <2>1, <2>2, <2>3
<1>4. CASE now' = now /\ bucket'[k] = bucket[k] /\ log'[k] = log[k]
  BY <1>2, <1>4
<1>5. CASE \/ ScanPage \/ ScanEnds \/ ScanFails \/ DelFails \/ \E j \in Keys : BeginReset(j)
  <2>1. UNCHANGED <<ledger, db>>
    BY <1>5, ScanTyped
  <2>2. QED
    BY <1>4, <2>1 DEF ledger, db
<1>6. CASE Del
  <2>1. PICK j \in Keys :
          /\ Forget(j) /\ bucket'[j] = NoKey /\ log'[j] \in {log[j], NoKey}
          /\ \A i \in Keys : i # j => bucket'[i] = bucket[i] /\ log'[i] = log[i]
    BY <1>6, DelTyped
  <2>2. now' = now
    BY <2>1 DEF Forget
  <2>3. CASE k = j
    <3>1. Past(bucket'[k], now')
      BY <2>1, <2>3 DEF Past
    <3>2. k \in LogKeys => Dated(log'[k], now')
      BY <1>1, <1>2, <2>1, <2>2, <2>3, DatedLater
    <3>3. QED
      BY <3>1, <3>2
  <2>4. CASE k # j
    BY <1>4, <2>1, <2>2, <2>4
  <2>5. QED
    BY <2>3, <2>4
<1>7. ASSUME NEW j \in Keys, Allow(j)
      PROVE  Solo(k)
  <2>1. PICK n \in Costs, at \in now..(now + DriftOf(j)) :
          \/ j \in BucketKeys  /\ AllowTokenBucket(j, n, at)
          \/ j \in WindowKeys  /\ AllowFixedWindow(j, n, at)
          \/ j \in CounterKeys /\ AllowSlidingWindowCounter(j, n, at)
          \/ j \in LogKeys     /\ AllowSlidingWindowLog(j, n, at)
    BY <1>7 DEF Allow
  <2>2. /\ now' = now
        /\ \A i \in Keys : i # j => bucket'[i] = bucket[i] /\ log'[i] = log[i]
    BY <2>1, AllowTyped
  <2>3. CASE j # k
    BY <1>4, <2>2, <2>3
  <2>4. CASE j = k
    <3>1. n \in Nat /\ at = now
      BY <1>1, <2>1, <2>4, Positive
    <3>2. ASSUME k \in BucketKeys
          PROVE  Past(bucket'[k], now')
      <4> DEFINE d == TokenBucketScript(bucket[k], now, now, n)
      <4>1. AllowTokenBucket(k, n, now)
        BY <2>1, <2>4, <3>1, <3>2, KindsApart
      <4>2. bucket' = [bucket EXCEPT ![k] = d.bucket]
        BY <4>1 DEF AllowTokenBucket
      <4>3. Past(d.bucket, now)
        BY <1>1, <1>2, <3>1, <3>2, PastAllow
      <4> HIDE DEF d
      <4>4. bucket'[k] = d.bucket
        BY <4>2 DEF StoreOK, TypeOK
      <4>5. QED
        BY <2>2, <4>3, <4>4
    <3>3. ASSUME k \in LogKeys
          PROVE  Dated(log'[k], now')
      <4> DEFINE d == SlidingLogScript(log[k], seq[k], now, now, n)
      <4>1. AllowSlidingWindowLog(k, n, now)
        BY <2>1, <2>4, <3>1, <3>3, KindsApart
      <4>2. log' = [log EXCEPT ![k] = d.log]
        BY <4>1 DEF AllowSlidingWindowLog
      <4>3. Dated(d.log, now)
        BY <1>1, <1>2, <3>1, <3>3, DatedAllow
      <4> HIDE DEF d
      <4>4. log'[k] = d.log
        BY <4>2 DEF StoreOK, TypeOK
      <4>5. QED
        BY <2>2, <4>3, <4>4
    <3>4. QED
      BY <3>2, <3>3
  <2>5. QED
    BY <2>3, <2>4
<1>8. CASE UNCHANGED vars
  BY <1>4, <1>8 DEF vars, ledger, db
<1>9. QED
  BY <1>3, <1>5, <1>6, <1>7, <1>8 DEF Next, Resetting

LEMMA SoloInit == Init => SoloInv
BY DEF Init, SoloInv, Past, Dated, Members

LEMMA WithinFull ==
  ASSUME NEW n \in Nat, n <= Capacity
  PROVE  n * Scale <= Full
<1>1. Capacity \in Nat /\ Scale \in Nat /\ Capacity - n \in Nat
  BY Positive
<1>2. (Capacity - n) * Scale \in Nat /\ n * Scale \in Nat
  BY <1>1
<1>3. Capacity * Scale = n * Scale + (Capacity - n) * Scale
  BY <1>1
<1>4. QED
  BY <1>2, <1>3 DEF Full

LEMMA SoloRetries ==
  ASSUME FullBeforeExpiry, WindowWithinTTL, StoreOK, SoloInv
  PROVE  RetryExact
<1>1. now \in Nat /\ Costs \subseteq Nat
  BY Positive DEF StoreOK, TypeOK, LedgerTypeOK
<1>2. ASSUME NEW k \in Keys \ SharedKeys, NEW n \in Costs, k \in BucketKeys, n <= Capacity,
             ~ TokenBucketScript(bucket[k], now, now, n).allowed
      PROVE  LET d == TokenBucketScript(bucket[k], now, now, n)
                 Retry(w) == TokenBucketScript(Alive(d.bucket, now + w), now + w, now + w, n).allowed
             IN  Retry(d.retryAfter) /\ \A w \in 0..(d.retryAfter - 1) : ~ Retry(w)
  <2> DEFINE b == bucket[k]
  <2>1. b \in Bucket \cup {NoKey} /\ (b # NoKey => b.lastUpdate <= now)
    BY <1>2 DEF StoreOK, TypeOK, SoloInv, Past
  <2>2. n \in Nat /\ n * Scale <= Full
    BY <1>1, <1>2, WithinFull
  <2> HIDE DEF b
  <2>3. QED
    BY <1>1, <1>2, <2>1, <2>2, BucketRetry DEF b
<1>3. ASSUME NEW k \in Keys \ SharedKeys, NEW n \in Costs, k \in LogKeys, n <= Limit,
             ~ SlidingLogScript(log[k], seq[k], now, now, n).allowed
      PROVE  LET d == SlidingLogScript(log[k], seq[k], now, now, n)
                 Retry(w) == SlidingLogScript(Alive(d.log, now + w), Alive(d.seq, now + w),
                                              now + w, now + w, n).allowed
             IN  Retry(d.retryAfter) /\ \A w \in 0..(d.retryAfter - 1) : ~ Retry(w)
  <2> DEFINE l == log[k]
             q == seq[k]
  <2>1. l \in Log \cup {NoKey} /\ LogOK(l) /\ q \in Serial \cup {NoKey} /\ Dated(l, now)
    BY <1>3 DEF StoreOK, TypeOK, SoloInv
  <2> HIDE DEF l, q
  <2>2. QED
    BY <1>1, <1>3, <2>1, LogRetry DEF l, q
<1>4. QED
  BY <1>2, <1>3, Zenon DEF RetryExact

\* Where neither the bucket nor the log expires before its last unit is back,
\* what a client that is alone is told to wait is exact: it is refused again at
\* every earlier time and admitted then, whatever Redis expires meanwhile
\* (redis.go:82-86, 169-173, 208-220).
THEOREM RetriesAreExact ==
  ASSUME FullBeforeExpiry, WindowWithinTTL
  PROVE  Spec => []RetryExact
<1>1. Init => StoreOK /\ SoloInv
  BY StoreOKInit, SoloInit
<1>2. StoreOK /\ SoloInv /\ [Next]_vars => StoreOK' /\ SoloInv'
  BY StoreOKStep, SoloStep
<1>3. StoreOK /\ SoloInv => RetryExact
  BY SoloRetries
<1>4. QED
  BY <1>1, <1>2, <1>3, PTL DEF Spec

-----------------------------------------------------------------------------
(* The store implements the register, for clients that are alone *)

\* A client that is alone has at most one pipeline under way, with a count that
\* no Reset of its own can reach, and has lost none.
AloneInv ==
  \A k \in Alone :
    /\ ~ unsafe[k] /\ pipes[k] \in {0, 1}
    /\ pipes[k] > 0 => plain[k] # NoKey /\ (scan # NoScan => scan.key # k)

RInv == LegacyInv /\ AloneInv

LEMMA ScanBegins ==
  ASSUME NEW k \in Keys, BeginReset(k)
  PROVE  scan' # NoScan /\ scan'.key = k
<1>1. scan' = [key |-> k, phase |-> "scan", must |-> Names(k), found |-> {<<"bucket", 0>>}]
  BY DEF BeginReset
<1>2. Names(k) \in SUBSET (Kinds \X WindowNums)
      /\ {<<"bucket", 0>>} \in SUBSET (Kinds \X WindowNums)
  BY NamesTyped
<1>3. scan' \in Scan /\ scan'.key = k
  BY <1>1, <1>2 DEF Scan
<1>4. QED
  BY <1>3, NothingAssumption

\* A step of the store goes on with the Reset that is running, ends it or, if
\* there is none, begins one.
LEMMA ScanSteps ==
  ASSUME StoreOK, Next
  PROVE  \/ scan' = NoScan
         \/ scan # NoScan /\ scan' # NoScan /\ scan'.key = scan.key
         \/ \E k \in Keys : BeginReset(k) /\ scan'.key = k
<1>1. scan \in Scan \cup {NoScan}
  BY DEF StoreOK, TypeOK
<1>2. KeepScan => \/ scan' = NoScan
                  \/ scan # NoScan /\ scan' # NoScan /\ scan'.key = scan.key
  <2>1. ASSUME NEW k \in Keys, scan # NoScan,
               scan' = [scan EXCEPT !.must = @ \cap Names(k)']
        PROVE  scan' # NoScan /\ scan'.key = scan.key
    <3> DEFINE m == scan.must \cap Names(k)'
    <3>1. scan \in Scan /\ scan' = [scan EXCEPT !.must = m]
      BY <1>1, <2>1
    <3>2. m \in SUBSET (Kinds \X WindowNums)
      BY <3>1 DEF Scan
    <3> HIDE DEF m
    <3>3. scan' \in Scan /\ scan'.key = scan.key
      BY <3>1, <3>2 DEF Scan
    <3>4. QED
      BY <3>3, NothingAssumption
  <2>2. QED
    BY <2>1 DEF KeepScan
<1>3. CASE Tick
  BY <1>2, <1>3 DEF Tick
<1>4. ASSUME NEW k \in Keys, Allow(k)
      PROVE  KeepScan
  BY <1>4 DEF Allow, AllowTokenBucket, AllowFixedWindow, AllowSlidingWindowCounter,
              AllowSlidingWindowLog, Enter
<1>5. ASSUME NEW k \in Keys, BeginReset(k)
      PROVE  scan'.key = k
  BY <1>5 DEF BeginReset
<1>6. CASE ScanPage
  <2>1. PICK page \in SUBSET (Names(scan.key) \ scan.found) :
          scan' = [scan EXCEPT !.found = @ \cup page]
    BY <1>6 DEF ScanPage
  <2> DEFINE f == scan.found \cup page
  <2>2. scan \in Scan /\ scan # NoScan /\ scan' = [scan EXCEPT !.found = f]
    BY <1>1, <1>6, <2>1 DEF ScanPage
  <2>3. scan' \in Scan \cup {NoScan}
    BY <1>6, ScanTyped DEF StoreOK, TypeOK
  <2> HIDE DEF f
  <2>4. scan'.key = scan.key
    BY <2>2 DEF Scan
  <2>5. QED
    BY <2>2, <2>4
<1>7. CASE ScanEnds \/ ScanFails
  <2>1. scan \in Scan /\ scan # NoScan /\ scan' = [scan EXCEPT !.phase = "del"]
    BY <1>1, <1>7 DEF ScanEnds, ScanFails
  <2>2. scan'.key = scan.key
    BY <2>1 DEF Scan
  <2>3. QED
    BY <2>1, <2>2
<1>8. CASE Del \/ DelFails
  BY <1>8 DEF Del, DelFails
<1>9. QED
  BY <1>2, <1>3, <1>4, <1>5, <1>6, <1>7, <1>8 DEF Next, Resetting

LEMMA AloneStep ==
  ASSUME RInv, [LegacyNext]_legacyVars
  PROVE  AloneInv'
<1> DEFINE Kept(k) == /\ ~ unsafe'[k] /\ pipes'[k] \in {0, 1}
                      /\ pipes'[k] > 0 => plain'[k] # NoKey /\ (scan' # NoScan => scan'.key # k)
<1> SUFFICES ASSUME NEW k \in Alone PROVE Kept(k)
  BY DEF AloneInv
<1>1. /\ ~ unsafe[k] /\ pipes[k] \in {0, 1} /\ k \in PlainKeys /\ k \notin SharedKeys
      /\ pipes[k] > 0 => plain[k] # NoKey /\ (scan # NoScan => scan.key # k)
      /\ plain[k] \in Plain \cup {NoKey}
      /\ PlainTypeOK /\ StoreOK
  BY DEF RInv, AloneInv, Alone, LegacyInv, PlainTypeOK
<1>2. CASE LegacyTick
  <2>1. pipes'[k] = 0 /\ unsafe'[k] = unsafe[k]
    BY <1>2 DEF LegacyTick
  <2>2. QED
    BY <1>1, <2>1
<1>3. ASSUME UNCHANGED legacy, Next, ~ \E j \in Keys : BeginReset(j)
      PROVE  Kept(k)
  <2>1. plain'[k] = plain[k] /\ pipes'[k] = pipes[k] /\ unsafe'[k] = unsafe[k]
    BY <1>3 DEF legacy
  <2>2. pipes[k] > 0 /\ scan' # NoScan => scan'.key # k
    BY <1>1, <1>3, ScanSteps
  <2>3. QED
    BY <1>1, <2>1, <2>2
<1>4. CASE LegacyScan
  <2>1. UNCHANGED legacy /\ Next
    BY <1>4 DEF LegacyScan, Next, Resetting
  <2>2. ~ \E j \in Keys : BeginReset(j)
    BY <1>4 DEF LegacyScan, ScanPage, ScanEnds, ScanFails, DelFails, BeginReset
  <2>3. QED
    BY <1>3, <2>1, <2>2
<1>5. CASE LegacyDel
  <2>1. /\ scan' = NoScan /\ scan # NoScan /\ pipes'[k] = pipes[k]
        /\ plain'[k] = IF k = scan.key THEN NoKey ELSE plain[k]
        /\ unsafe'[k] = (unsafe[k] /\ k # scan.key)
    BY <1>1, <1>5 DEF LegacyDel, Del
  <2>2. ~ unsafe'[k]
    BY <1>1, <2>1, Zenon
  <2>3. QED
    BY <1>1, <2>1, <2>2
<1>6. ASSUME NEW j \in Keys, LegacyAllow(j)
      PROVE  Kept(k)
  <2>1. KeepScan /\ UNCHANGED legacy /\ Next
    BY <1>6 DEF LegacyAllow, Next, Allow, AllowTokenBucket, AllowFixedWindow,
                AllowSlidingWindowCounter, AllowSlidingWindowLog, Enter
  <2>2. ~ \E i \in Keys : BeginReset(i)
    BY <2>1, ScanBegins DEF KeepScan, BeginReset
  <2>3. QED
    BY <1>3, <2>1, <2>2
<1>7. ASSUME NEW j \in Keys, LegacyBeginReset(j)
      PROVE  Kept(k)
  <2>1. UNCHANGED legacy /\ Next /\ scan' # NoScan /\ scan'.key = j
        /\ (j = k => pipes[k] = 0)
    <3>1. BeginReset(j) /\ UNCHANGED legacy /\ (j \in PlainKeys => Free(j))
      BY <1>7 DEF LegacyBeginReset
    <3>2. StoreOK' /\ scan'.key = j /\ Next
      BY <1>1, <3>1, ScanTyped DEF BeginReset, Next
    <3>3. scan' # NoScan
      BY <1>1, <3>1, ScanBegins
    <3>4. QED
      BY <1>1, <3>1, <3>2, <3>3 DEF Free
  <2>2. plain'[k] = plain[k] /\ pipes'[k] = pipes[k] /\ unsafe'[k] = unsafe[k]
    BY <2>1 DEF legacy
  <2>3. QED
    BY <1>1, <2>1, <2>2
<1>8. ASSUME NEW j \in PlainKeys, Direct(j)
      PROVE  Kept(k)
  <2>1. UNCHANGED scan
    BY <1>8, DirectKept DEF RInv, vars
  <2>2. /\ plain \in [PlainKeys -> Plain \cup {NoKey}]
        /\ pipes \in [PlainKeys -> 0..MaxPipes] /\ unsafe \in [PlainKeys -> BOOLEAN]
    BY <1>1 DEF PlainTypeOK
  <2>3. CASE j # k
    <3>1. plain'[k] = plain[k] /\ pipes'[k] = pipes[k] /\ unsafe'[k] = unsafe[k]
      BY <1>1, <1>8, <2>2, <2>3 DEF Direct, Get, Set, Incr, Expire, LoseExpire
    <3>2. QED
      BY <1>1, <2>1, <3>1
  <2>4. CASE j = k
    <3>1. CASE Get(k)
      BY <1>1, <2>1, <3>1 DEF Get
    <3>2. ASSUME NEW s \in States, Set(k, s)
          PROVE  Kept(k)
      <4>1. pipes'[k] = pipes[k] /\ pipes[k] = 0 /\ unsafe'[k] = FALSE
        BY <1>1, <2>2, <3>2 DEF Set, Free
      <4>2. QED
        BY <4>1
    <3>3. CASE Incr(k)
      <4>1. /\ pipes[k] = 0 /\ pipes'[k] = pipes[k] + 1 /\ unsafe'[k] = unsafe[k]
            /\ scan = NoScan /\ plain'[k] = AfterIncr(plain[k])
        BY <1>1, <2>2, <3>3 DEF Incr, Free
      <4>2. plain'[k] # NoKey
        BY <1>1, <4>1, Incremented
      <4>3. QED
        BY <1>1, <2>1, <4>1, <4>2
    <3>4. CASE Expire(k)
      <4>1. pipes[k] > 0 /\ pipes'[k] = pipes[k] - 1 /\ unsafe'[k] = FALSE
        BY <1>1, <2>2, <3>4 DEF Expire
      <4>2. QED
        BY <1>1, <4>1
    <3>5. CASE LoseExpire(k)
      BY <1>1, <3>5 DEF LoseExpire
    <3>6. QED
      BY <1>8, <2>4, <3>1, <3>2, <3>3, <3>4, <3>5 DEF Direct
  <2>5. QED
    BY <2>3, <2>4
<1>9. CASE UNCHANGED legacyVars
  BY <1>1, <1>9 DEF legacyVars, legacy, vars
<1>10. QED
  BY <1>2, <1>4, <1>5, <1>6, <1>7, <1>8, <1>9 DEF LegacyNext, LegacyResetting

\* What the register has under key k, and until when.
StringAt(k) == IF plain[k] = NoKey THEN NoKey ELSE plain[k].string
UntilAt(k) == CASE plain[k] = NoKey -> 0
                [] plain[k] # NoKey /\ pipes[k] > 0 -> now + CountTTL + 1
                [] OTHER -> plain[k].expiresAt + 1

Strings == [k \in Alone |-> StringAt(k)]
Untils  == [k \in Alone |-> UntilAt(k)]
register == <<now, Strings, Untils, answer>>

LEMMA RegisterFacts ==
  ASSUME RInv, NEW k \in Alone
  PROVE  /\ now \in Nat /\ TTL \in Nat /\ CountTTL \in Nat /\ k \in PlainKeys /\ k \notin SharedKeys
         /\ plain[k] \in Plain \cup {NoKey} /\ NoKey \notin Plain
         /\ LongestTTL \in Nat
         /\ plain[k] # NoKey => plain[k].string # NoKey
         /\ plain[k] # NoKey /\ pipes[k] = 0 => plain[k].expiresAt \in now..(now + LongestTTL)
         /\ pipes[k] \in {0, 1} /\ (pipes[k] > 0 => plain[k] # NoKey)
         /\ plain \in [PlainKeys -> Plain \cup {NoKey}]
         /\ pipes \in [PlainKeys -> 0..MaxPipes]
         /\ Strings[k] = StringAt(k) /\ Untils[k] = UntilAt(k)
<1>1. /\ now \in Nat /\ TTL \in Nat /\ CountTTL \in Nat /\ k \in PlainKeys /\ k \notin SharedKeys
      /\ LongestTTL \in Nat
      /\ plain \in [PlainKeys -> Plain \cup {NoKey}]
      /\ pipes \in [PlainKeys -> 0..MaxPipes]
      /\ Strings[k] = StringAt(k) /\ Untils[k] = UntilAt(k)
  BY Positive, LifetimesPositive DEF RInv, LegacyInv, StoreOK, TypeOK, LedgerTypeOK, PlainTypeOK, Alone,
                  Strings, Untils
<1>2. ~ unsafe[k] /\ pipes[k] \in {0, 1} /\ (pipes[k] > 0 => plain[k] # NoKey)
  BY DEF RInv, AloneInv
<1>3. plain[k] \in Plain \cup {NoKey} /\ NoKey \notin Plain
  BY <1>1, NoPlainAssumption
<1>4. plain[k] # NoKey => plain[k].string # NoKey
  BY <1>3, NoPlainAssumption DEF Plain
<1>5. plain[k] # NoKey /\ pipes[k] = 0 => plain[k].expiresAt \in now..(now + LongestTTL)
  BY <1>1, <1>2 DEF RInv, LegacyInv, PlainInv, Expiring
<1>6. QED
  BY <1>1, <1>2, <1>3, <1>4, <1>5

\* An operation on key k that puts e there and leaves p pipelines.
LEMMA PutString ==
  ASSUME RInv, NEW k \in Alone, NEW e, e # NoKey, NEW p, now' = now,
         plain' = [plain EXCEPT ![k] = e], pipes' = [pipes EXCEPT ![k] = p]
  PROVE  /\ Strings' = [Strings EXCEPT ![k] = e.string]
         /\ Untils' = [Untils EXCEPT ![k] = IF p > 0 THEN now + CountTTL + 1 ELSE e.expiresAt + 1]
<1>1. /\ plain'[k] = e /\ pipes'[k] = p
      /\ \A j \in Alone : j # k => plain'[j] = plain[j] /\ pipes'[j] = pipes[j]
  BY RegisterFacts DEF Alone
<1>2. ASSUME NEW j \in Alone, j # k
      PROVE  StringAt(j)' = StringAt(j) /\ UntilAt(j)' = UntilAt(j)
  <2>1. plain'[j] = plain[j] /\ pipes'[j] = pipes[j]
    BY <1>1, <1>2
  <2>2. StringAt(j)' = StringAt(j)
    BY <2>1 DEF StringAt
  <2>3. UntilAt(j)' = UntilAt(j)
    BY <2>1 DEF UntilAt
  <2>4. QED
    BY <2>2, <2>3
<1>3. StringAt(k)' = e.string
  BY <1>1 DEF StringAt
<1>4. UntilAt(k)' = IF p > 0 THEN now + CountTTL + 1 ELSE e.expiresAt + 1
  BY <1>1 DEF UntilAt
<1> DEFINE f == e.string
           u == IF p > 0 THEN now + CountTTL + 1 ELSE e.expiresAt + 1
<1> HIDE DEF f, u
<1>5. /\ \A j \in Alone : StringAt(j)' = IF j = k THEN f ELSE StringAt(j)
      /\ \A j \in Alone : UntilAt(j)' = IF j = k THEN u ELSE UntilAt(j)
  BY <1>2, <1>3, <1>4, Zenon DEF f, u
<1>6. Strings' = [Strings EXCEPT ![k] = f] /\ Untils' = [Untils EXCEPT ![k] = u]
  BY <1>5 DEF Strings, Untils
<1>7. QED
  BY <1>6, Zenon DEF f, u

\* Who leaves the strings, deadlines and pipelines of the clients that are alone,
\* and the clock, leaves the register.
LEMMA SameStrings ==
  ASSUME now' = now,
         \A k \in Alone : plain'[k] = plain[k] /\ pipes'[k] = pipes[k]
  PROVE  Strings' = Strings /\ Untils' = Untils
<1>1. \A k \in Alone : StringAt(k)' = StringAt(k) /\ UntilAt(k)' = UntilAt(k)
  BY Zenon DEF StringAt, UntilAt
<1>2. QED
  BY <1>1 DEF Strings, Untils

\* Set puts its value there until its deadline.
LEMMA StoreSets ==
  ASSUME RInv, NEW k \in Alone, NEW s \in States, Set(k, s)
  PROVE  AsRegister!Set(k, s)
<1> DEFINE e == [string |-> s, expiresAt |-> now + TTL]
<1>1. /\ plain' = [plain EXCEPT ![k] = e] /\ answer' = NoAnswer /\ UNCHANGED <<vars, pipes>>
      /\ pipes[k] = 0
  BY RegisterFacts DEF Set, Returns, Free
<1>2. /\ plain' = [plain EXCEPT ![k] = e] /\ now' = now
      /\ pipes' = [pipes EXCEPT ![k] = 0]
  BY <1>1, RegisterFacts DEF vars, ledger
<1>3. e \in Plain /\ e.string = s /\ e.expiresAt = now + TTL
  BY RegisterFacts DEF Plain, Expiry
<1> HIDE DEF e
<1>4. e # NoKey /\ now + TTL + 1 = now + (TTL + 1)
  BY <1>3, RegisterFacts
<1>5. /\ Strings' = [Strings EXCEPT ![k] = e.string]
      /\ Untils' = [Untils EXCEPT ![k] = IF 0 > 0 THEN now + CountTTL + 1 ELSE e.expiresAt + 1]
  BY <1>2, <1>4, PutString
<1>6. Strings' = [Strings EXCEPT ![k] = s] /\ Untils' = [Untils EXCEPT ![k] = now + (TTL + 1)]
  <2> DEFINE u == IF 0 > 0 THEN now + CountTTL + 1 ELSE e.expiresAt + 1
  <2>1. u = now + (TTL + 1)
    BY <1>3, <1>4, SMT
  <2>2. Untils' = [Untils EXCEPT ![k] = u]
    BY <1>5, Zenon
  <2> HIDE DEF u
  <2>3. QED
    BY <1>3, <1>5, <2>1, <2>2
<1>7. QED
  BY <1>1, <1>2, <1>6, Zenon DEF AsRegister!Set, Strings, Untils, StringAt, UntilAt

\* Get sees exactly what is there.
LEMMA StoreGets ==
  ASSUME RInv, NEW k \in Alone, Get(k)
  PROVE  AsRegister!Get(k)
<1>1. /\ answer' = IF plain[k] = NoKey THEN EmptyState ELSE Read(plain[k].string)
      /\ now' = now /\ plain' = plain /\ pipes' = pipes
  BY DEF Get, Returns, vars, ledger
<1>2. Strings' = Strings /\ Untils' = Untils
  BY <1>1, SameStrings
<1>3. /\ plain[k] = NoKey => Strings[k] = NoKey
      /\ plain[k] # NoKey => Strings[k] # NoKey /\ Strings[k] = plain[k].string
  BY RegisterFacts DEF StringAt
<1>4. answer' = IF Strings[k] = NoKey THEN EmptyState ELSE Read(Strings[k])
  BY <1>1, <1>3, Zenon
<1>5. QED
  BY <1>1, <1>2, <1>4, Zenon DEF AsRegister!Get, Strings, Untils, StringAt, UntilAt

\* What INCR makes of a string, or of nothing.
Bumped(v) == CASE v = NoKey -> Number(1)
               [] v # NoKey /\ IsNumber(v) -> Number(v.number + 1)
               [] OTHER -> v

LEMMA IncrementedString ==
  ASSUME RInv, NEW k \in Alone
  PROVE  AfterIncr(plain[k]).string = Bumped(StringAt(k))
<1> DEFINE e == plain[k]
           a == AfterIncr(e)
<1>1. /\ e \in Plain \cup {NoKey} /\ (e # NoKey => e.string # NoKey)
      /\ StringAt(k) = IF e = NoKey THEN NoKey ELSE e.string
  BY RegisterFacts DEF StringAt
<1> HIDE DEF e
<1>2. CASE e = NoKey
  BY <1>1, <1>2 DEF AfterIncr, Bumped, e
<1>3. CASE e # NoKey /\ IsNumber(e.string)
  <2> DEFINE m == [e.string EXCEPT !.number = @ + 1]
  <2>1. e \in Plain /\ e.string \in [number : Nat \ {0}]
    BY <1>1, <1>3 DEF Plain, IsNumber
  <2>2. a = [e EXCEPT !.string = m]
    BY <1>3 DEF AfterIncr
  <2>3. m = Number(e.string.number + 1)
    BY <2>1 DEF Number
  <2>4. Bumped(e.string) = Number(e.string.number + 1)
    BY <1>1, <1>3 DEF Bumped
  <2> HIDE DEF m, a
  <2>5. a.string = m
    BY <2>1, <2>2 DEF Plain
  <2>6. QED
    BY <1>1, <1>3, <2>3, <2>4, <2>5 DEF a, e
<1>4. CASE e # NoKey /\ ~ IsNumber(e.string)
  <2>1. a = e
    BY <1>4 DEF AfterIncr
  <2>2. Bumped(e.string) = e.string
    BY <1>1, <1>4 DEF Bumped
  <2>3. QED
    BY <1>1, <1>4, <2>1, <2>2 DEF e
<1>5. QED
  BY <1>2, <1>3, <1>4

\* Increment counts on at its first command, for which the second is taken to
\* have given the expiry already.
LEMMA StoreIncrements ==
  ASSUME RInv, NEW k \in Alone, Incr(k)
  PROVE  AsRegister!Increment(k)
<1> DEFINE e == AfterIncr(plain[k])
<1>1. /\ plain' = [plain EXCEPT ![k] = e] /\ now' = now
      /\ pipes' = [pipes EXCEPT ![k] = pipes[k] + 1] /\ pipes[k] = 0
      /\ answer' = IF IsNumber(plain'[k].string) THEN plain'[k].string ELSE Failed
  BY RegisterFacts DEF Incr, Free, Returns, vars, ledger
<1>2. /\ plain'[k] = e /\ e # NoKey /\ e.string = Bumped(StringAt(k))
      /\ pipes' = [pipes EXCEPT ![k] = 1]
      /\ k \in DOMAIN Strings
  <2>1. e # NoKey
    BY RegisterFacts, Incremented
  <2>2. e.string = Bumped(StringAt(k))
    BY IncrementedString
  <2>3. plain'[k] = e /\ pipes' = [pipes EXCEPT ![k] = 1] /\ k \in DOMAIN Strings
    BY <1>1, RegisterFacts DEF Strings
  <2>4. QED
    BY <2>1, <2>2, <2>3
<1> HIDE DEF e
<1>3. /\ Strings' = [Strings EXCEPT ![k] = e.string]
      /\ Untils' = [Untils EXCEPT ![k] = IF 1 > 0 THEN now + CountTTL + 1 ELSE e.expiresAt + 1]
  BY <1>1, <1>2, PutString
<1>4. /\ Strings' = [Strings EXCEPT ![k] = e.string]
      /\ Untils' = [Untils EXCEPT ![k] = now + (CountTTL + 1)]
  <2>1. (IF 1 > 0 THEN now + CountTTL + 1 ELSE e.expiresAt + 1) = now + (CountTTL + 1)
    BY RegisterFacts
  <2> DEFINE u == IF 1 > 0 THEN now + CountTTL + 1 ELSE e.expiresAt + 1
  <2>2. Untils' = [Untils EXCEPT ![k] = u] /\ u = now + (CountTTL + 1)
    BY <1>3, <2>1, Zenon
  <2> HIDE DEF u
  <2>3. QED
    BY <1>3, <2>2
<1>5. Strings' = [Strings EXCEPT ![k] = Bumped(Strings[k])]
  BY <1>2, <1>4, RegisterFacts, Zenon
<1>6. answer' = IF IsNumber(Strings'[k]) THEN Strings'[k] ELSE Failed
  <2>1. Strings'[k] = e.string
    BY <1>2, <1>4
  <2>2. QED
    BY <1>1, <1>2, <2>1, Zenon
<1>7. Untils' = IF Strings[k] = NoKey \/ TRUE
                  THEN [Untils EXCEPT ![k] = now + (CountTTL + 1)] ELSE Untils
  BY <1>4, Zenon
<1>8. QED
  BY <1>1, <1>5, <1>6, <1>7, Zenon
  DEF AsRegister!Increment, Strings, Untils, StringAt, UntilAt, Bumped

\* The second command of Increment changes nothing that has not been said.
LEMMA StoreExpires ==
  ASSUME RInv, NEW k \in PlainKeys, Expire(k) \/ LoseExpire(k)
  PROVE  UNCHANGED register
<1>1. now' = now /\ answer' = answer
  BY DEF Expire, LoseExpire, vars, ledger
<1>2. PlainTypeOK
  BY DEF RInv, LegacyInv
<1>3. CASE k \notin Alone
  <2>1. \A j \in Alone : plain'[j] = plain[j] /\ pipes'[j] = pipes[j]
    BY <1>2, <1>3 DEF Expire, LoseExpire, PlainTypeOK, Alone
  <2>2. QED
    BY <1>1, <2>1, SameStrings DEF register
<1>4. CASE k \in Alone
  <2> DEFINE e == [plain[k] EXCEPT !.expiresAt = now + CountTTL]
  <2>1. /\ plain[k] \in Plain /\ plain[k] # NoKey /\ pipes[k] = 1 /\ Expire(k)
    BY <1>4, RegisterFacts DEF Expire, LoseExpire
  <2>2. /\ plain' = [plain EXCEPT ![k] = e] /\ pipes' = [pipes EXCEPT ![k] = pipes[k] - 1]
    BY <2>1 DEF Expire
  <2>3. e \in Plain /\ e.string = plain[k].string /\ e.expiresAt = now + CountTTL
    BY <1>4, <2>1, RegisterFacts DEF Plain, Expiry
  <2> HIDE DEF e
  <2>4. e # NoKey
    BY <2>3, NoPlainAssumption
  <2>5. pipes' = [pipes EXCEPT ![k] = 0]
    BY <2>1, <2>2
  <2>6. /\ Strings' = [Strings EXCEPT ![k] = e.string]
        /\ Untils' = [Untils EXCEPT ![k] = IF 0 > 0 THEN now + CountTTL + 1 ELSE e.expiresAt + 1]
    BY <1>1, <1>4, <2>2, <2>4, <2>5, PutString
  <2>7. /\ Strings[k] = e.string /\ Untils[k] = now + CountTTL + 1
    BY <1>4, <2>1, <2>3, RegisterFacts DEF StringAt, UntilAt
  <2>8. /\ Strings' = [Strings EXCEPT ![k] = Strings[k]]
        /\ Untils' = [Untils EXCEPT ![k] = Untils[k]]
    BY <2>3, <2>4, <2>6, <2>7
  <2>9. Strings' = Strings /\ Untils' = Untils
    BY <2>8 DEF Strings, Untils
  <2>10. QED
    BY <1>1, <2>9 DEF register
<1>5. QED
  BY <1>3, <1>4

\* What is there goes when it expires, which is after its last tick.
LEMMA StoreTicks ==
  ASSUME RInv, LegacyTick
  PROVE  AsRegister!Tick
<1>1. /\ now < MaxTime /\ now' = now + 1 /\ answer' = answer /\ pipes' = pipes
      /\ \A k \in Alone : pipes[k] = 0 /\ plain'[k] = Alive(plain[k], now + 1)
  BY DEF LegacyTick, Tick, AdvanceClock, Alone
<1>2. ASSUME NEW k \in Alone
      PROVE  /\ StringAt(k)' = IF now + 1 >= UntilAt(k) THEN NoKey ELSE StringAt(k)
             /\ UntilAt(k)' = IF now + 1 >= UntilAt(k) THEN 0 ELSE UntilAt(k)
  <2>1. now \in Nat
    BY <1>2, RegisterFacts
  <2>2. CASE plain[k] = NoKey
    <3>1. plain'[k] = NoKey
      BY <1>1, <2>2 DEF Alive
    <3>2. UntilAt(k) = 0 /\ StringAt(k) = NoKey /\ UntilAt(k)' = 0 /\ StringAt(k)' = NoKey
      BY <2>2, <3>1 DEF StringAt, UntilAt
    <3>3. QED
      BY <3>2
  <2>3. CASE plain[k] # NoKey
    <3>1. /\ pipes[k] = 0 /\ pipes'[k] = 0
          /\ plain[k].expiresAt \in Nat /\ plain[k].expiresAt # Never
      BY <1>1, <1>2, <2>1, <2>3, RegisterFacts DEF Never
    <3>2. UntilAt(k) = plain[k].expiresAt + 1 /\ StringAt(k) = plain[k].string
      BY <2>3, <3>1 DEF StringAt, UntilAt
    <3>3. CASE now + 1 > plain[k].expiresAt
      <4>1. plain'[k] = NoKey
        BY <1>1, <2>3, <3>1, <3>3 DEF Alive
      <4>2. UntilAt(k)' = 0 /\ StringAt(k)' = NoKey
        BY <4>1 DEF StringAt, UntilAt
      <4>3. QED
        BY <2>1, <3>1, <3>2, <3>3, <4>2
    <3>4. CASE ~ (now + 1 > plain[k].expiresAt)
      <4>1. plain'[k] = plain[k]
        BY <1>1, <3>4 DEF Alive
      <4>2. UntilAt(k)' = plain[k].expiresAt + 1 /\ StringAt(k)' = plain[k].string
        BY <2>3, <3>1, <4>1 DEF StringAt, UntilAt
      <4>3. QED
        BY <2>1, <3>1, <3>2, <3>4, <4>2
    <3>5. QED
      BY <3>3, <3>4
  <2>4. QED
    BY <2>2, <2>3
<1>3. /\ Strings' = [k \in Alone |-> IF now + 1 >= Untils[k] THEN NoKey ELSE Strings[k]]
      /\ Untils' = [k \in Alone |-> IF now + 1 >= Untils[k] THEN 0 ELSE Untils[k]]
  BY <1>2 DEF Strings, Untils
<1>4. QED
  BY <1>1, <1>3, Zenon DEF AsRegister!Tick, Strings, Untils, StringAt, UntilAt

\* Only the last step of a Reset removes the string, and of its key alone.
LEMMA StoreResets ==
  ASSUME RInv, LegacyDel
  PROVE  (\E k \in Alone : AsRegister!Reset(k)) \/ UNCHANGED register
<1>1. /\ now' = now /\ pipes' = pipes
      /\ plain' = [k \in PlainKeys |-> IF k = scan.key THEN NoKey ELSE plain[k]]
      /\ scan # NoScan /\ answer' = IF scan.key \in Alone THEN NoAnswer ELSE answer
  BY DEF LegacyDel, Del, Forget, Returns
<1>2. \A j \in Alone : plain'[j] = IF j = scan.key THEN NoKey ELSE plain[j]
  BY <1>1 DEF Alone
<1>3. ASSUME NEW k \in Alone, scan.key = k
      PROVE  AsRegister!Reset(k)
  <2>1. /\ plain'[k] = NoKey /\ answer' = NoAnswer
        /\ \A j \in Alone : j # k => plain'[j] = plain[j] /\ pipes'[j] = pipes[j]
    BY <1>1, <1>2, <1>3
  <2>2. StringAt(k)' = NoKey /\ UntilAt(k)' = 0
    BY <2>1 DEF StringAt, UntilAt
  <2>3. ASSUME NEW j \in Alone, j # k
        PROVE  StringAt(j)' = StringAt(j) /\ UntilAt(j)' = UntilAt(j)
    <3>1. plain'[j] = plain[j] /\ pipes'[j] = pipes[j]
      BY <2>1, <2>3
    <3>2. QED
      BY <1>1, <3>1 DEF StringAt, UntilAt
  <2>4. Strings' = [Strings EXCEPT ![k] = NoKey] /\ Untils' = [Untils EXCEPT ![k] = 0]
    BY <2>2, <2>3 DEF Strings, Untils
  <2>5. QED
    BY <1>1, <2>1, <2>4, Zenon DEF AsRegister!Reset, Strings, Untils, StringAt, UntilAt
<1>4. CASE scan.key \notin Alone
  <2>1. \A j \in Alone : plain'[j] = plain[j] /\ pipes'[j] = pipes[j]
    BY <1>1, <1>2, <1>4
  <2>2. QED
    BY <1>1, <1>4, <2>1, SameStrings DEF register
<1>5. QED
  BY <1>3, <1>4

LEMMA RegisterInit == LegacyInit => AsRegister!Init
BY DEF AsRegister!Init, LegacyInit, Init, LedgerInit, Alone

LEMMA RegisterStep ==
  ASSUME RInv, [LegacyNext]_legacyVars
  PROVE  [AsRegister!Next]_register
<1>1. ASSUME now' = now, answer' = answer, UNCHANGED <<plain, pipes>>
      PROVE  UNCHANGED register
  BY <1>1, SameStrings DEF register
<1>2. CASE LegacyTick
  BY <1>2, StoreTicks, Zenon DEF AsRegister!Next
<1>3. CASE LegacyDel
  BY <1>3, StoreResets, Zenon DEF AsRegister!Next
<1>4. CASE LegacyScan \/ \E k \in Keys : LegacyBeginReset(k)
  <2>1. UNCHANGED legacy /\ UNCHANGED ledger
    BY <1>4 DEF LegacyScan, LegacyBeginReset, ScanPage, ScanEnds, ScanFails, DelFails, BeginReset
  <2>2. QED
    BY <1>1, <2>1 DEF legacy, ledger
<1>5. CASE \E k \in Keys : LegacyAllow(k)
  <2>1. PICK k \in Keys : Allow(k) /\ UNCHANGED legacy
    BY <1>5 DEF LegacyAllow
  <2>2. now' = now
    BY <2>1, AllowTyped DEF Allow, RInv, LegacyInv
  <2>3. QED
    BY <1>1, <2>1, <2>2 DEF legacy
<1>6. ASSUME NEW k \in PlainKeys, Direct(k)
      PROVE  [AsRegister!Next]_register
  <2>1. CASE Expire(k) \/ LoseExpire(k)
    BY <2>1, StoreExpires
  <2>2. CASE k \in Alone /\ ~ (Expire(k) \/ LoseExpire(k))
    <3>1. \/ AsRegister!Get(k) \/ AsRegister!Increment(k)
          \/ \E s \in States : AsRegister!Set(k, s)
      BY <1>6, <2>2, StoreGets, StoreSets, StoreIncrements DEF Direct
    <3>2. QED
      BY <2>2, <3>1, Zenon DEF AsRegister!Next
  <2>3. CASE k \notin Alone /\ ~ (Expire(k) \/ LoseExpire(k))
    <3>1. now' = now /\ answer' = answer
      BY <1>6, <2>3 DEF Direct, Get, Set, Incr, Returns, vars, ledger
    <3>2. \A j \in Alone : plain'[j] = plain[j] /\ pipes'[j] = pipes[j]
      BY <1>6, <2>3 DEF Direct, Get, Set, Incr, PlainTypeOK, Alone, RInv, LegacyInv
    <3>3. QED
      BY <3>1, <3>2, SameStrings DEF register
  <2>4. QED
    BY <2>1, <2>2, <2>3
<1>7. CASE UNCHANGED legacyVars
  BY <1>1, <1>7 DEF legacyVars, legacy, vars, ledger
<1>8. QED
  BY <1>2, <1>3, <1>4, <1>5, <1>6, <1>7 DEF LegacyNext, LegacyResetting

\* For clients that are alone, Get, Set, Increment and Reset of the Redis store
\* are those of a register with deadlines (redis.go:243-315), although an
\* Increment is two commands and a Reset is many: neither is ever seen half done,
\* and nothing others do to their keys meanwhile shows.
THEOREM RedisRegisterImplemented == LegacySpec => LegacyImplementsRegister
<1>1. LegacyInit => RInv /\ AsRegister!Init
  <2>1. LegacyInit => AloneInv
    BY DEF LegacyInit, AloneInv, Alone
  <2>2. QED
    BY <2>1, LegacyInvInit, RegisterInit DEF RInv
<1>2. RInv /\ [LegacyNext]_legacyVars => RInv' /\ [AsRegister!Next]_register
  BY LegacyInvStep, AloneStep, RegisterStep DEF RInv
<1>3. QED
  BY <1>1, <1>2, PTL
  DEF LegacySpec, LegacyImplementsRegister, AsRegister!Spec, register, Strings, Untils,
      StringAt, UntilAt

==============================================================================
