------------------------- MODULE RedisReferenceProofs -------------------------
(***************************************************************************)
(* The Redis store implements the reference limiter for every client that  *)
(* is alone on its key.                                                    *)
(***************************************************************************)
EXTENDS RedisProofs

-----------------------------------------------------------------------------
(* Usages *)

\* What a usage u at time t becomes by a tick, by n more units, and by a Reset.
Later(u, t)   == [s \in 0..(t + 1) |-> IF s = t + 1 THEN 0 ELSE u[s]]
More(u, t, n) == [s \in 0..t |-> u[s] + n]
Nought(t)     == [s \in 0..t |-> 0]

LEMMA UsageTyped ==
  ASSUME StoreOK, NEW k \in Keys
  PROVE  now \in Nat /\ Usage(k) \in [0..now -> Int]
BY KeyFacts DEF Usage

LEMMA UsageTick ==
  ASSUME StoreOK, Tick, NEW k \in Keys
  PROVE  now' = now + 1 /\ Usage(k)' = Later(Usage(k), now)
<1>1. /\ now \in Nat /\ now' = now + 1 /\ admitted'[k] = admitted[k] /\ admitted[k] \in Nat
      /\ \A s \in 0..now : before'[k][s] = before[k][s]
      /\ before'[k][now + 1] = admitted[k]
  BY TickKeepsLedger, KeyFacts DEF Tick, StoreOK, TypeOK
<1>2. ASSUME NEW s \in 0..(now + 1)
      PROVE  admitted'[k] - before'[k][s] = IF s = now + 1 THEN 0 ELSE Usage(k)[s]
  <2>1. CASE s = now + 1
    BY <1>1, <2>1
  <2>2. CASE s # now + 1
    <3>1. s \in 0..now
      BY <1>1, <2>2
    <3>2. QED
      BY <1>1, <2>2, <3>1 DEF Usage, Since
  <2>3. QED
    BY <2>1, <2>2
<1>3. [s \in 0..now' |-> admitted'[k] - before'[k][s]] = Later(Usage(k), now)
  BY <1>1, <1>2 DEF Later
<1>4. QED
  BY <1>1, <1>3 DEF Usage, Since

LEMMA UsageAnswer ==
  ASSUME StoreOK, NEW k \in Keys, NEW n \in Costs, NEW at \in now..(now + DriftOf(k)), NEW d,
         d.allowed \in BOOLEAN, Enter(k, n, at, d)
  PROVE  /\ now' = now
         /\ Usage(k)' = IF d.allowed THEN More(Usage(k), now, n) ELSE Usage(k)
<1>1. /\ now' = now /\ before' = before
      /\ admitted'[k] = IF d.allowed THEN admitted[k] + n ELSE admitted[k]
  BY EnterStep DEF StoreOK
<1>2. /\ n \in Nat /\ admitted[k] \in Nat /\ \A s \in 0..now : before[k][s] \in Nat
  BY KeyFacts, Positive
<1>3. CASE d.allowed
  <2>1. \A s \in 0..now : admitted'[k] - before[k][s] = Usage(k)[s] + n
    BY <1>1, <1>2, <1>3 DEF Usage, Since
  <2>2. QED
    BY <1>1, <1>3, <2>1 DEF Usage, Since, More
<1>4. CASE ~ d.allowed
  BY <1>1, <1>4 DEF Usage, Since
<1>5. QED
  BY <1>3, <1>4

LEMMA UsageForgotten ==
  ASSUME StoreOK, NEW k \in Keys, Forget(k)
  PROVE  /\ now' = now /\ Usage(k)' = Nought(now)
         /\ \A j \in Keys : j # k => Usage(j)' = Usage(j)
<1>1. /\ now' = now /\ \A s \in 0..now : Since(k, s)' = 0
      /\ \A j \in Keys : j # k => admitted'[j] = admitted[j] /\ before'[j] = before[j]
  BY ForgetKeepsLedger DEF StoreOK, TypeOK
<1>2. QED
  BY <1>1 DEF Usage, Nought, Since

-----------------------------------------------------------------------------
(* The token bucket *)

\* A bucket of l holds exactly what usage u at time t leaves of it.
Balanced(u, l, t) ==
  /\ \A s \in 0..t : u[s] * Scale + l <= Full + Rate * (t - s)
  /\ \E s \in 0..t : u[s] * Scale + l = Full + Rate * (t - s)

\* In one tick more Rate units more flow in.
LEMMA NextFlow ==
  ASSUME NEW a \in Int, NEW b, b = a + 1
  PROVE  Rate * b = Rate * a + Rate /\ Rate * a \in Int
<1>1. Rate \in Nat /\ 1 \in Int
  BY Positive
<1>2. Rate * (a + 1) = Rate * a + Rate * 1 /\ Rate * a \in Int
  BY <1>1, Flows
<1>3. QED
  BY <1>1, <1>2

\* The bucket is kept in balance by a tick, an admitted call and a fresh start.
LEMMA BalancedTick ==
  ASSUME NEW t \in Nat, NEW u \in [0..t -> Int], NEW l \in 0..Full, Balanced(u, l, t)
  PROVE  Balanced(Later(u, t), Least(l + Rate, Full), t + 1)
<1> DEFINE v == Later(u, t)
           m == Least(l + Rate, Full)
<1>1. /\ Rate \in Nat /\ Scale \in Nat /\ Full \in Nat /\ l \in Nat
      /\ m \in Nat /\ m <= l + Rate /\ m <= Full /\ (m = l + Rate \/ m = Full)
  BY Positive DEF Least
<1>2. /\ v[t + 1] = 0 /\ t + 1 \in 0..(t + 1)
      /\ \A s \in 0..(t + 1) : s \in 0..t \/ s = t + 1
  BY DEF Later
<1>3. ASSUME NEW s \in 0..t
      PROVE  /\ Rate * ((t + 1) - s) = Rate * (t - s) + Rate /\ Rate * (t - s) \in Int
             /\ v[s] = u[s] /\ u[s] * Scale \in Int /\ s \in 0..(t + 1)
  <2>1. t - s \in Int /\ (t + 1) - s = (t - s) + 1
    OBVIOUS
  <2>2. Rate * ((t + 1) - s) = Rate * (t - s) + Rate /\ Rate * (t - s) \in Int
    BY <2>1, NextFlow
  <2>3. u[s] \in Int /\ s \in 0..(t + 1) /\ s # t + 1
    OBVIOUS
  <2>4. u[s] * Scale \in Int
    BY <1>1, <2>3
  <2>5. v[s] = u[s]
    BY <2>3 DEF Later
  <2>6. QED
    BY <2>2, <2>3, <2>4, <2>5
<1>4. 0 * Scale = 0 /\ Rate * ((t + 1) - (t + 1)) = 0
  BY <1>1
<1> HIDE DEF v, m
<1>5. ASSUME NEW s \in 0..(t + 1)
      PROVE  v[s] * Scale + m <= Full + Rate * ((t + 1) - s)
  <2>1. CASE s \in 0..t
    <3> DEFINE x == u[s] * Scale
               y == Rate * (t - s)
               z == Rate * ((t + 1) - s)
    <3>1. x + l <= Full + y
      BY <2>1 DEF Balanced
    <3>2. z = y + Rate /\ y \in Int /\ x \in Int /\ v[s] * Scale = x
      BY <1>3, <2>1
    <3> HIDE DEF x, y, z
    <3>3. x + m <= Full + z
      BY <1>1, <3>1, <3>2
    <3>4. QED
      BY <3>2, <3>3 DEF z
  <2>2. CASE s = t + 1
    BY <1>1, <1>2, <1>4, <2>2
  <2>3. QED
    BY <1>2, <2>1, <2>2
<1>6. \E s \in 0..(t + 1) : v[s] * Scale + m = Full + Rate * ((t + 1) - s)
  <2>1. CASE m = l + Rate
    <3>1. PICK s \in 0..t : u[s] * Scale + l = Full + Rate * (t - s)
      BY DEF Balanced
    <3> DEFINE x == u[s] * Scale
               y == Rate * (t - s)
               z == Rate * ((t + 1) - s)
    <3>2. z = y + Rate /\ y \in Int /\ x \in Int /\ v[s] * Scale = x /\ s \in 0..(t + 1)
      BY <1>3
    <3>3. x + l = Full + y
      BY <3>1
    <3> HIDE DEF x, y, z
    <3>4. x + m = Full + z
      BY <1>1, <2>1, <3>2, <3>3
    <3>5. QED
      BY <3>2, <3>4 DEF z
  <2>2. CASE m = Full
    <3>1. v[t + 1] * Scale + m = Full + Rate * ((t + 1) - (t + 1))
      BY <1>1, <1>2, <1>4, <2>2
    <3>2. QED
      BY <1>2, <3>1
  <2>3. QED
    BY <1>1, <2>1, <2>2
<1>7. QED
  BY <1>5, <1>6 DEF Balanced, v, m

LEMMA BalancedMore ==
  ASSUME NEW t \in Nat, NEW u \in [0..t -> Int], NEW l \in 0..Full, NEW n \in Nat,
         Balanced(u, l, t)
  PROVE  Balanced(More(u, t, n), l - n * Scale, t)
<1>1. Scale \in Nat /\ Full \in Nat /\ n * Scale \in Nat
  BY Positive
<1>2. \A x \in Int : (x + n) * Scale = x * Scale + n * Scale /\ x * Scale \in Int
  BY <1>1
<1>3. \A s \in 0..t : More(u, t, n)[s] * Scale + (l - n * Scale) = u[s] * Scale + l
  <2> SUFFICES ASSUME NEW s \in 0..t
               PROVE  More(u, t, n)[s] * Scale + (l - n * Scale) = u[s] * Scale + l
    OBVIOUS
  <2>1. More(u, t, n)[s] = u[s] + n /\ u[s] \in Int
    BY DEF More
  <2>2. (u[s] + n) * Scale = u[s] * Scale + n * Scale /\ u[s] * Scale \in Int
    BY <1>2, <2>1
  <2>3. QED
    BY <1>1, <2>1, <2>2
<1>4. QED
  BY <1>3, Zenon DEF Balanced

LEMMA BalancedNought ==
  ASSUME NEW t \in Nat
  PROVE  Balanced(Nought(t), Full, t)
<1>1. Scale \in Nat /\ Full \in Nat /\ 0 * Scale = 0
  BY Positive
<1>2. \A s \in 0..t : Nought(t)[s] * Scale + Full = Full
  BY <1>1 DEF Nought
<1>3. \A s \in 0..t : t - s \in Int /\ 0 <= t - s
  OBVIOUS
<1>4. \A s \in 0..t : Rate * (t - s) \in Int /\ 0 <= Rate * (t - s)
  BY <1>3, Flows
<1>5. t \in 0..t /\ Rate * (t - t) = 0
  BY Positive
<1>6. QED
  BY <1>1, <1>2, <1>4, <1>5 DEF Balanced

\* The policy admits what the bucket holds.
LEMMA BalancedFits ==
  ASSUME NEW t \in Nat, NEW u \in [0..t -> Int], NEW l \in 0..Full, NEW n \in Nat,
         Balanced(u, l, t)
  PROVE  /\ l >= n * Scale => FitsEnvelope(u, t, n)
         /\ ~ (l >= n * Scale) => ~ FitsEnvelope(u, t, n)
<1>1. Scale \in Nat /\ Full \in Nat /\ n * Scale \in Nat /\ DOMAIN u = 0..t
  BY Positive
<1>2. ASSUME NEW s \in 0..t
      PROVE  /\ (u[s] + n) * Scale = u[s] * Scale + n * Scale
             /\ u[s] * Scale \in Int /\ Rate * (t - s) \in Int
  <2>1. u[s] \in Int /\ t - s \in Int
    OBVIOUS
  <2>2. Rate * (t - s) \in Int
    BY <2>1, Flows
  <2>3. \A x \in Int : (x + n) * Scale = x * Scale + n * Scale /\ x * Scale \in Int
    BY <1>1
  <2>4. QED
    BY <2>1, <2>2, <2>3
<1>3. ASSUME l >= n * Scale, NEW s \in 0..t
      PROVE  (u[s] + n) * Scale <= Full + Rate * (t - s)
  <2> DEFINE x == u[s] * Scale
             y == Rate * (t - s)
             z == n * Scale
  <2>1. x + l <= Full + y
    BY DEF Balanced
  <2>2. x \in Int /\ y \in Int /\ z \in Nat /\ (u[s] + n) * Scale = x + z /\ l >= z
    BY <1>1, <1>2, <1>3
  <2> HIDE DEF x, y, z
  <2>3. x + z <= Full + y
    BY <1>1, <2>1, <2>2
  <2>4. QED
    BY <2>2, <2>3 DEF y
<1>4. ASSUME ~ (l >= n * Scale)
      PROVE  \E s \in 0..t : ~ ((u[s] + n) * Scale <= Full + Rate * (t - s))
  <2>1. PICK s \in 0..t : u[s] * Scale + l = Full + Rate * (t - s)
    BY DEF Balanced
  <2> DEFINE x == u[s] * Scale
             y == Rate * (t - s)
             z == n * Scale
  <2>2. x \in Int /\ y \in Int /\ z \in Nat /\ (u[s] + n) * Scale = x + z /\ ~ (l >= z)
    BY <1>1, <1>2, <1>4
  <2>3. x + l = Full + y
    BY <2>1
  <2> HIDE DEF x, y, z
  <2>4. ~ (x + z <= Full + y)
    BY <1>1, <2>2, <2>3
  <2>5. QED
    BY <2>2, <2>4 DEF y
<1>5. QED
  BY <1>1, <1>3, <1>4 DEF FitsEnvelope

\* What a script at time t would find in bucket b, in units.
Level(b, t) == Refilled(b, t).tokens

\* A bucket of a client that is alone, and its exact content.
BucketExact(b, u, t) ==
  /\ b # NoKey => b.lastUpdate <= t /\ b.expiresAt = b.lastUpdate + TTL
  /\ Balanced(u, Level(b, t), t)

LEMMA LevelOf ==
  ASSUME NEW b \in Bucket \cup {NoKey}, NEW t \in Nat, b # NoKey => b.lastUpdate <= t
  PROVE  /\ Level(b, t) \in 0..Full
         /\ b = NoKey => Level(b, t) = Full
         /\ b # NoKey => Level(b, t) = Least(b.tokens + Rate * (t - b.lastUpdate), Full)
<1>1. CASE b = NoKey
  BY <1>1, RefilledBucket DEF Level
<1>2. CASE b # NoKey
  <2>1. b.tokens \in 0..Full /\ b.lastUpdate \in Nat /\ b.lastUpdate <= t /\ Full \in Nat
    BY <1>2, Positive DEF Bucket
  <2>2. CASE t > b.lastUpdate
    BY <1>2, <2>2, RefilledBucket DEF Level
  <2>3. CASE ~ (t > b.lastUpdate)
    <3>1. Level(b, t) = b.tokens /\ Level(b, t) \in 0..Full
      BY <1>2, <2>3, RefilledBucket DEF Level
    <3>2. Rate * (t - b.lastUpdate) = 0
      <4>1. t - b.lastUpdate = 0
        BY <2>1, <2>3
      <4>2. QED
        BY <4>1, Positive
    <3>3. QED
      BY <1>2, <2>1, <3>1, <3>2 DEF Least
  <2>4. QED
    BY <2>2, <2>3
<1>3. QED
  BY <1>1, <1>2

\* A tick lets Rate units flow in, even if Redis expires the bucket.
LEMMA LevelTick ==
  ASSUME FullBeforeExpiry, NEW b \in Bucket \cup {NoKey}, NEW t \in Nat,
         b # NoKey => b.lastUpdate <= t /\ b.expiresAt = b.lastUpdate + TTL
  PROVE  Level(Alive(b, t + 1), t + 1) = Least(Level(b, t) + Rate, Full)
<1>1. Rate \in Nat /\ Full \in Nat /\ TTL \in Nat
  BY Positive
<1>2. CASE b = NoKey
  <2>1. Alive(b, t + 1) = NoKey
    BY <1>2 DEF Alive
  <2>2. Level(NoKey, t + 1) = Full /\ Level(NoKey, t) = Full
    BY LevelOf
  <2>3. QED
    BY <1>1, <1>2, <2>1, <2>2 DEF Least
<1>3. CASE b # NoKey
  <2> DEFINE x == Rate * (t - b.lastUpdate)
  <2>1. /\ b \in Bucket /\ b.tokens \in Nat /\ b.lastUpdate \in Nat /\ b.lastUpdate <= t
        /\ b.expiresAt = b.lastUpdate + TTL
        /\ b.lastUpdate <= t + 1 /\ t + 1 \in Nat
    BY <1>3 DEF Bucket
  <2>2. x \in Nat /\ Rate * ((t + 1) - b.lastUpdate) = x + Rate
    <3>1. (t + 1) - b.lastUpdate = (t - b.lastUpdate) + 1 /\ t - b.lastUpdate \in Nat
      BY <2>1
    <3>2. Rate * ((t + 1) - b.lastUpdate) = x + Rate
      BY <3>1, NextFlow
    <3>3. x \in Nat
      BY <1>1, <3>1
    <3>4. QED
      BY <3>2, <3>3
  <2>3. Level(b, t) = Least(b.tokens + x, Full)
    BY <1>3, <2>1, LevelOf
  <2>4. CASE t + 1 > b.expiresAt
    <3>1. Alive(b, t + 1) = NoKey
      BY <1>1, <1>3, <2>1, <2>4 DEF Alive, Never
    <3>2. Level(NoKey, t + 1) = Full
      BY LevelOf
    <3>3. Full <= x + Rate
      <4>1. /\ TTL + 1 <= (t + 1) - b.lastUpdate
            /\ TTL + 1 \in Int /\ (t + 1) - b.lastUpdate \in Int
        BY <1>1, <2>1, <2>4
      <4>2. Rate * (TTL + 1) <= Rate * ((t + 1) - b.lastUpdate) /\ Rate * (TTL + 1) \in Int
        BY <4>1, Flows
      <4>3. QED
        BY <1>1, <2>2, <4>2 DEF FullBeforeExpiry
    <3> HIDE DEF x
    <3>4. Level(b, t) \in Nat /\ Full <= Level(b, t) + Rate
      BY <1>1, <2>1, <2>2, <2>3, <3>3 DEF Least
    <3>5. Least(Level(b, t) + Rate, Full) = Full
      BY <1>1, <3>4 DEF Least
    <3>6. QED
      BY <3>1, <3>2, <3>5
  <2>5. CASE ~ (t + 1 > b.expiresAt)
    <3>1. Alive(b, t + 1) = b
      BY <2>5 DEF Alive
    <3>2. Level(b, t + 1) = Least(b.tokens + (x + Rate), Full)
      BY <1>3, <2>1, <2>2, LevelOf
    <3> HIDE DEF x
    <3>3. QED
      BY <1>1, <2>1, <2>2, <2>3, <3>1, <3>2 DEF Least
  <2>6. QED
    BY <2>4, <2>5
<1>4. QED
  BY <1>2, <1>3

LEMMA BucketTick ==
  ASSUME FullBeforeExpiry, NEW b \in Bucket \cup {NoKey}, NEW t \in Nat,
         NEW u \in [0..t -> Int], BucketExact(b, u, t)
  PROVE  BucketExact(Alive(b, t + 1), Later(u, t), t + 1)
<1>1. /\ b # NoKey => b.lastUpdate <= t /\ b.expiresAt = b.lastUpdate + TTL
      /\ Balanced(u, Level(b, t), t)
  BY DEF BucketExact
<1>2. Level(b, t) \in 0..Full
  BY <1>1, LevelOf
<1>3. Balanced(Later(u, t), Level(Alive(b, t + 1), t + 1), t + 1)
  BY <1>1, <1>2, BalancedTick, LevelTick
<1>4. Alive(b, t + 1) \in {b, NoKey} /\ (b # NoKey => b.lastUpdate \in Nat)
  BY DEF Alive, Bucket
<1>5. QED
  BY <1>1, <1>3, <1>4 DEF BucketExact

\* A script answers as the policy does, and the bucket it leaves is exact.
LEMMA BucketAllowed ==
  ASSUME NEW b \in Bucket \cup {NoKey}, NEW t \in Nat,
         NEW u \in [0..t -> Int], NEW n \in Nat, BucketExact(b, u, t)
  PROVE  LET d == TokenBucketScript(b, t, t, n)
         IN  /\ BucketExact(d.bucket, IF d.allowed THEN More(u, t, n) ELSE u, t)
             /\ d.allowed => FitsEnvelope(u, t, n)
             /\ ~ d.allowed => ~ FitsEnvelope(u, t, n)
<1> DEFINE d == TokenBucketScript(b, t, t, n)
           l == Level(b, t)
           e == d.bucket
<1>1. /\ b # NoKey => b.lastUpdate <= t /\ b.expiresAt = b.lastUpdate + TTL
      /\ Balanced(u, l, t)
  BY DEF BucketExact
<1>2. l \in 0..Full /\ n * Scale \in Nat /\ Full \in Nat
  BY <1>1, LevelOf, Positive
<1>3. /\ l >= n * Scale => FitsEnvelope(u, t, n)
      /\ ~ (l >= n * Scale) => ~ FitsEnvelope(u, t, n)
  BY <1>1, <1>2, BalancedFits
<1>4. /\ l >= n * Scale => d.allowed
      /\ ~ (l >= n * Scale) => ~ d.allowed
  BY BucketAnswer DEF Level
<1>5. Refilled(b, t).lastUpdate = t
  <2>1. b # NoKey => b.lastUpdate \in Nat /\ b.lastUpdate <= t
    BY <1>1 DEF Bucket
  <2>2. QED
    BY <2>1, RefilledBucket
<1>6. /\ e \in Bucket /\ e.lastUpdate = t /\ e.expiresAt = t + TTL
      /\ e.tokens = IF l >= n * Scale THEN l - n * Scale ELSE l
  BY <1>5, BucketScript DEF Level
<1> HIDE DEF d, l
<1>7. e # NoKey /\ e.tokens \in 0..Full
  BY <1>6, NothingAssumption DEF Bucket
<1>8. Level(e, t) = e.tokens
  <2>1. Level(e, t) = Least(e.tokens + Rate * (t - e.lastUpdate), Full)
    BY <1>6, <1>7, LevelOf
  <2>2. Rate * (t - e.lastUpdate) = 0
    BY <1>6, Positive
  <2>3. QED
    BY <1>2, <1>7, <2>1, <2>2 DEF Least
<1>9. CASE l >= n * Scale
  <2>1. d.allowed /\ Level(e, t) = l - n * Scale
    BY <1>4, <1>6, <1>8, <1>9
  <2>2. Balanced(More(u, t, n), Level(e, t), t)
    BY <1>1, <1>2, <2>1, BalancedMore
  <2>3. QED
    BY <1>3, <1>6, <1>9, <2>1, <2>2 DEF BucketExact, d
<1>10. CASE ~ (l >= n * Scale)
  <2>1. ~ d.allowed /\ Level(e, t) = l
    BY <1>4, <1>6, <1>8, <1>10
  <2>2. Balanced(u, Level(e, t), t)
    BY <1>1, <2>1
  <2>3. QED
    BY <1>3, <1>6, <1>10, <2>1, <2>2 DEF BucketExact, d
<1>11. QED
  BY <1>9, <1>10

-----------------------------------------------------------------------------
(* The windows *)

\* What a key with counters c used of the window before w.
Earlier(c, w) == IF w = 0 THEN 0 ELSE Value(c[w - 1])

\* The counters of a client that is alone: the current one and the one before have
\* exactly what usage u has at time t, and no counter expires before the window
\* after its own has ended.
CountersExact(c, u, t) ==
  /\ u[WindowStart(t)] = Value(c[WindowNum(t)])
  /\ PreviousUse(u, t) = Earlier(c, WindowNum(t))
  /\ \A v \in WindowNums : c[v] # NoKey =>
       v <= WindowNum(t) /\ (v + 2) * Span <= c[v].expiresAt

\* A counter that still matters at time t does not expire by then.
LEMMA CounterAlive ==
  ASSUME NEW c \in Counter \cup {NoKey}, NEW x \in Nat, NEW t \in Nat,
         c # NoKey => (x + 2) * Span <= c.expiresAt, WindowNum(t) <= x + 1
  PROVE  Alive(c, t) = c
<1>1. CASE c = NoKey
  BY <1>1 DEF Alive
<1>2. CASE c # NoKey
  <2> DEFINE w == WindowNum(t)
  <2>1. w \in Nat /\ t < (w + 1) * Span
    BY InWindow
  <2>2. (w + 1) * Span <= (x + 2) * Span /\ (x + 2) * Span \in Int /\ (w + 1) * Span \in Int
    <3>1. w \in Nat /\ x + 2 \in Nat /\ w < x + 2 /\ x + 2 \in Int /\ Span \in Nat
      BY <2>1, SpanPositive
    <3>2. (w + 1) * Span <= (x + 2) * Span
      BY <3>1, EndsGrow
    <3>3. QED
      BY <3>1, <3>2
  <2>3. c.expiresAt \in Int /\ (x + 2) * Span <= c.expiresAt
    BY <1>2 DEF Counter, Expiry, Never
  <2> HIDE DEF w
  <2>4. ~ (t > c.expiresAt)
    BY <2>1, <2>2, <2>3
  <2>5. QED
    BY <2>4 DEF Alive
<1>3. QED
  BY <1>1, <1>2

\* In a new window the counter of the old one becomes the previous one.
LEMMA CountersTick ==
  ASSUME NEW t \in Nat, NEW u \in [0..t -> Int],
         NEW c \in [WindowNums -> Counter \cup {NoKey}], WindowNums \subseteq Nat,
         WindowNum(t + 1) \in WindowNums, WindowNum(t) \in WindowNums,
         WindowNum(t) # 0 => WindowNum(t) - 1 \in WindowNums, CountersExact(c, u, t)
  PROVE  CountersExact([x \in WindowNums |-> Alive(c[x], t + 1)], Later(u, t), t + 1)
<1> DEFINE w == WindowNum(t)
           x == WindowNum(t + 1)
           e == [y \in WindowNums |-> Alive(c[y], t + 1)]
           v == Later(u, t)
<1>1. /\ w \in Nat /\ x \in Nat /\ t + 1 \in Nat
      /\ WindowStart(t) \in 0..t /\ Span \in Nat
      /\ w # 0 => WindowStart(t) - Span \in 0..t
  BY InWindow, EarlierWindow, SpanPositive
<1>2. /\ u[WindowStart(t)] = Value(c[w])
      /\ PreviousUse(u, t) = Earlier(c, w)
      /\ \A y \in WindowNums : c[y] # NoKey => y <= w /\ (y + 2) * Span <= c[y].expiresAt
  BY DEF CountersExact
<1>3. \A y \in WindowNums : x <= y + 1 => e[y] = c[y]
  <2> SUFFICES ASSUME NEW y \in WindowNums, x <= y + 1
               PROVE  Alive(c[y], t + 1) = c[y]
    OBVIOUS
  <2>1. c[y] \in Counter \cup {NoKey} /\ y \in Nat
    OBVIOUS
  <2>2. QED
    BY <1>1, <1>2, <2>1, CounterAlive
<1>4. /\ v[t + 1] = 0
      /\ \A s \in 0..t : v[s] = u[s]
  BY DEF Later
<1>5. \A y \in WindowNums : e[y] # NoKey => c[y] # NoKey /\ e[y] = c[y]
  BY DEF Alive
<1>6. \/ x = w /\ WindowStart(t + 1) = WindowStart(t)
      \/ x = w + 1 /\ WindowStart(t + 1) = t + 1 /\ WindowStart(t) + Span = t + 1
  BY NextTick
<1>7. \A y \in WindowNums : e[y] # NoKey => y <= x /\ (y + 2) * Span <= e[y].expiresAt
  BY <1>1, <1>2, <1>5, <1>6
<1> HIDE DEF e, v
<1>8. CASE x = w /\ WindowStart(t + 1) = WindowStart(t)
  <2>1. v[WindowStart(t)] = u[WindowStart(t)] /\ e[w] = c[w]
    BY <1>1, <1>3, <1>4, <1>8
  <2>2. PreviousUse(v, t + 1) = PreviousUse(u, t)
    BY <1>1, <1>4, <1>8 DEF PreviousUse
  <2>3. Earlier(e, w) = Earlier(c, w)
    <3>1. CASE w = 0
      BY <3>1 DEF Earlier
    <3>2. CASE w # 0
      <4>1. w - 1 \in WindowNums /\ x <= (w - 1) + 1
        BY <1>1, <1>8, <3>2
      <4>2. e[w - 1] = c[w - 1]
        BY <1>3, <4>1
      <4>3. QED
        BY <4>2 DEF Earlier
    <3>3. QED
      BY <3>1, <3>2
  <2>4. QED
    BY <1>2, <1>7, <1>8, <2>1, <2>2, <2>3 DEF CountersExact, e, v
<1>9. CASE x = w + 1 /\ WindowStart(t + 1) = t + 1 /\ WindowStart(t) + Span = t + 1
  <2>1. c[x] = NoKey
    BY <1>1, <1>2, <1>9
  <2>2. e[x] = NoKey
    <3>1. x \in WindowNums /\ x <= x + 1
      BY <1>1
    <3>2. QED
      BY <1>3, <2>1, <3>1
  <2>3. v[WindowStart(t + 1)] = Value(e[x])
    BY <1>4, <1>9, <2>2 DEF Value
  <2>4. e[w] = c[w]
    BY <1>1, <1>3, <1>9
  <2>5. WindowStart(t + 1) - Span = WindowStart(t)
    BY <1>1, <1>9
  <2>6. PreviousUse(v, t + 1) = u[WindowStart(t)]
    <3>1. x # 0 /\ v[WindowStart(t)] = u[WindowStart(t)] /\ u[WindowStart(t)] \in Int
      BY <1>1, <1>4, <1>9
    <3>2. PreviousUse(v, t + 1) = v[WindowStart(t)] - v[t + 1]
      BY <1>9, <2>5, <3>1 DEF PreviousUse
    <3>3. QED
      BY <1>4, <3>1, <3>2
  <2>7. Earlier(e, x) = Value(c[w])
    <3> HIDE DEF x, w
    <3>1. x # 0 /\ x - 1 = w
      BY <1>1, <1>9
    <3>2. QED
      BY <2>4, <3>1 DEF Earlier
  <2>8. QED
    BY <1>2, <1>7, <2>3, <2>6, <2>7 DEF CountersExact, e, v
<1>10. QED
  BY <1>6, <1>8, <1>9

\* A script counts what it admits in the current window.
LEMMA CountersAllow ==
  ASSUME NEW t \in Nat, NEW u \in [0..t -> Int], NEW n \in Nat,
         NEW c \in [WindowNums -> Counter \cup {NoKey}], WindowNums \subseteq Nat,
         WindowNum(t) \in WindowNums,
         WindowNum(t) # 0 => WindowNum(t) - 1 \in WindowNums, CountersExact(c, u, t),
         NEW d, Counts(d, c[WindowNum(t)], t, n)
  PROVE  CountersExact([c EXCEPT ![WindowNum(t)] = d.counter],
                       IF d.allowed THEN More(u, t, n) ELSE u, t)
<1> DEFINE w == WindowNum(t)
           x == c[w]
           e == [c EXCEPT ![w] = d.counter]
           v == IF d.allowed THEN More(u, t, n) ELSE u
           m == IF d.allowed THEN n ELSE 0
           kept == IF Value(x) = 0 THEN t + 2 * Window ELSE x.expiresAt
<1>1. /\ w \in Nat /\ WindowStart(t) \in 0..t /\ w \in WindowNums
      /\ w # 0 => WindowStart(t) - Span \in 0..t /\ w - 1 \in WindowNums
  BY InWindow, EarlierWindow
<1>2. /\ u[WindowStart(t)] = Value(x)
      /\ PreviousUse(u, t) = Earlier(c, w)
      /\ \A y \in WindowNums : c[y] # NoKey => y <= w /\ (y + 2) * Span <= c[y].expiresAt
  BY DEF CountersExact
<1>3. /\ d.allowed \in BOOLEAN
      /\ d.allowed =>
           d.counter \in Counter /\ d.counter.value = Value(x) + n /\ d.counter.expiresAt = kept
      /\ ~ d.allowed =>
           \/ d.counter = x
           \/ d.counter \in Counter /\ d.counter.value = Value(x) /\ d.counter.expiresAt = kept
  BY Zenon DEF Counts
<1>4. /\ Value(x) \in Nat /\ (Value(x) # 0 => x # NoKey)
  BY <1>1 DEF Value, Counter
<1>5. (w + 2) * Span <= kept
  <2>1. CASE Value(x) = 0
    <3>1. (w + 2) * Span = WindowStart(t) + 2 * Window
      <4>1. Span = Window /\ Window \in Nat /\ WindowStart(t) = w * Span
        BY WholeWindow, Positive DEF WindowStart
      <4>2. QED
        BY <1>1, <4>1
    <3>2. QED
      BY <1>1, <2>1, <3>1, Positive
  <2>2. CASE Value(x) # 0
    BY <1>1, <1>2, <1>4, <2>2
  <2>3. QED
    BY <2>1, <2>2
<1>6. /\ e[w] = d.counter /\ \A y \in WindowNums : y # w => e[y] = c[y]
  BY <1>1
<1>7. /\ m \in Nat
      /\ \A s \in 0..t : v[s] = u[s] + m
  BY <1>3 DEF More
<1> HIDE DEF e, v, kept
<1>8. Value(e[w]) = Value(x) + m
  <2>1. CASE d.allowed
    <3>1. d.counter # NoKey /\ d.counter.value = Value(x) + n
      BY <1>3, <2>1, NothingAssumption
    <3>2. QED
      BY <1>6, <2>1, <3>1 DEF Value
  <2>2. CASE ~ d.allowed /\ d.counter = x
    BY <1>4, <1>6, <2>2
  <2>3. CASE ~ d.allowed /\ d.counter # x
    <3>1. d.counter # NoKey /\ d.counter.value = Value(x)
      BY <1>3, <2>3, NothingAssumption
    <3>2. Value(d.counter) = Value(x)
      BY <3>1 DEF Value
    <3>3. QED
      BY <1>4, <1>6, <2>3, <3>2
  <2>4. QED
    BY <1>3, <2>1, <2>2, <2>3
<1>9. PreviousUse(v, t) = PreviousUse(u, t)
  BY <1>1, <1>7 DEF PreviousUse
<1>10. Earlier(e, w) = Earlier(c, w)
  BY <1>1, <1>6 DEF Earlier
<1>11. ASSUME NEW y \in WindowNums, e[y] # NoKey
       PROVE  y <= w /\ (y + 2) * Span <= e[y].expiresAt
  <2>1. CASE y # w
    BY <1>2, <1>6, <1>11, <2>1
  <2>2. CASE y = w /\ d.counter = x
    BY <1>1, <1>2, <1>6, <1>11, <2>2
  <2>3. CASE y = w /\ d.counter # x
    <3>1. e[y].expiresAt = kept
      BY <1>3, <1>6, <2>3
    <3>2. QED
      BY <1>1, <1>5, <2>3, <3>1
  <2>4. QED
    BY <2>1, <2>2, <2>3
<1>12. v[WindowStart(t)] = Value(e[w])
  BY <1>1, <1>2, <1>7, <1>8
<1>13. QED
  BY <1>2, <1>9, <1>10, <1>11, <1>12 DEF CountersExact, e, v

LEMMA CountersNought ==
  ASSUME NEW t \in Nat, NEW c, \A y \in WindowNums : c[y] = NoKey,
         WindowNum(t) \in WindowNums,
         WindowNum(t) # 0 => WindowNum(t) - 1 \in WindowNums
  PROVE  CountersExact(c, Nought(t), t)
<1>1. /\ WindowStart(t) \in 0..t
      /\ WindowNum(t) # 0 => WindowStart(t) - Span \in 0..t
  BY InWindow, EarlierWindow
<1>2. Value(NoKey) = 0 /\ \A s \in 0..t : Nought(t)[s] = 0
  BY DEF Value, Nought
<1>3. PreviousUse(Nought(t), t) = 0 /\ Earlier(c, WindowNum(t)) = 0
  BY <1>1, <1>2 DEF PreviousUse, Earlier
<1>4. QED
  BY <1>1, <1>2, <1>3 DEF CountersExact

\* The fixed window admits what fits the window, the sliding counter what fits its
\* estimate.
LEMMA WindowAllowed ==
  ASSUME NEW t \in Nat, NEW u \in [0..t -> Int], NEW n \in Nat,
         NEW c \in [WindowNums -> Counter \cup {NoKey}],
         WindowNum(t) \in WindowNums, CountersExact(c, u, t)
  PROVE  LET d == FixedWindowScript(c[WindowNum(t)], t, t, n)
         IN  /\ d.allowed => FitsFixedWindow(u, t, n)
             /\ ~ d.allowed => ~ FitsFixedWindow(u, t, n)
<1> DEFINE w == WindowNum(t)
           d == FixedWindowScript(c[w], t, t, n)
<1>1. d.allowed = (Value(c[w]) + n <= Limit)
  BY WindowScript
<1>2. u[WindowStart(t)] = Value(c[w])
  BY DEF CountersExact
<1> HIDE DEF d, w
<1>3. FitsFixedWindow(u, t, n) = (Value(c[w]) + n <= Limit)
  BY <1>2, Zenon DEF FitsFixedWindow
<1>4. QED
  BY <1>1, <1>3, Zenon DEF d, w

LEMMA CounterAllowed ==
  ASSUME NEW t \in Nat, NEW u \in [0..t -> Int], NEW n \in Nat,
         NEW c \in [WindowNums -> Counter \cup {NoKey}],
         WindowNum(t) \in WindowNums,
         WindowNum(t) # 0 => WindowNum(t) - 1 \in WindowNums, CountersExact(c, u, t),
         NEW p, p = IF WindowNum(t) = 0 THEN NoKey ELSE c[WindowNum(t) - 1],
         NEW slip \in Slips(Value(p), t)
  PROVE  LET d == SlidingCounterScript(p, c[WindowNum(t)], t, t, n, slip)
         IN  /\ d.allowed => MayFitEstimate(u, t, n)
             /\ ~ d.allowed => ~ MustFitEstimate(u, t, n)
<1> DEFINE w == WindowNum(t)
           x == c[w]
           d == SlidingCounterScript(p, x, t, t, n, slip)
           prev == Value(p)
           share == (prev * Left(t)) \div SpanMs - slip
           most == (Limit + 1) * SpanMs
           estimate == prev * Left(t) + (Value(x) + n) * SpanMs
           fits == share + (Value(x) + n) <= Limit
<1>1. p \in Counter \cup {NoKey} /\ x \in Counter \cup {NoKey}
  OBVIOUS
<1>2. prev \in Nat /\ Value(x) \in Nat /\ Value(x) + n \in Nat
  BY <1>1 DEF Value, Counter
<1>3. PreviousUse(u, t) = prev /\ u[WindowStart(t)] = Value(x)
  BY DEF CountersExact, Earlier, Value
<1>4. d.allowed = (share + Value(x) + n <= Limit)
  BY Zenon DEF SlidingCounterScript
<1>5. share \in Int
  <2>1. share \in 0..prev
    BY <1>2, ShareBounds
  <2>2. QED
    BY <1>2, <2>1
<1>6. /\ fits => /\ estimate <= most
                 /\ estimate < most \/ (Passed(t) > 0 /\ estimate = most)
      /\ ~ fits => ~ (estimate < most)
  BY <1>2, ShareDecides
<1>7. Estimate(u, t, n) = estimate
  BY <1>3, Zenon DEF Estimate
<1> HIDE DEF d, share, x, prev
<1>8. (share + Value(x) + n <= Limit) = fits
  BY <1>2, <1>5
<1>9. d.allowed = fits
  BY <1>4, <1>8, Zenon
<1> HIDE DEF fits, estimate, most
<1>10. /\ fits => MayFitEstimate(u, t, n)
       /\ ~ fits => ~ MustFitEstimate(u, t, n)
  BY <1>6, <1>7, Zenon DEF MayFitEstimate, MustFitEstimate, most
<1>11. QED
  BY <1>9, <1>10, Zenon DEF d, x

-----------------------------------------------------------------------------
(* The log *)

\* The log of a client that is alone has nothing of later than t, and no member
\* that usage u does not have.
LogExact(l, u, t) ==
  /\ \A m \in Members(l) : m.score <= t
  /\ \A s \in 0..t : Cardinality({m \in Members(l) : m.score >= s}) <= u[s]

\* The members of log l since time s.
Youngest(l, s) == {m \in Members(l) : m.score >= s}

LEMMA YoungestTyped ==
  ASSUME NEW l \in Log \cup {NoKey}, LogOK(l), NEW s
  PROVE  /\ IsFiniteSet(Youngest(l, s)) /\ Youngest(l, s) \subseteq Members(l)
         /\ Cardinality(Youngest(l, s)) \in Nat
<1>1. IsFiniteSet(Members(l))
  BY FS_EmptySet DEF Members, LogOK
<1>2. Youngest(l, s) \in SUBSET Members(l)
  BY DEF Youngest
<1>3. IsFiniteSet(Youngest(l, s))
  BY <1>1, <1>2, FS_Subset
<1>4. QED
  BY <1>2, <1>3, FS_CardinalityType

\* The log stays exact when the clock ticks and Redis perhaps expires it.
LEMMA LogTick ==
  ASSUME NEW l \in Log \cup {NoKey}, LogOK(l), NEW t \in Nat, NEW u \in [0..t -> Int],
         LogExact(l, u, t)
  PROVE  LogExact(Alive(l, t + 1), Later(u, t), t + 1)
<1> DEFINE e == Alive(l, t + 1)
<1>1. e \in {l, NoKey} /\ e \in Log \cup {NoKey} /\ LogOK(e)
  BY DEF Alive, LogOK
<1>2. Members(e) \subseteq Members(l)
  BY <1>1 DEF Members
<1>3. /\ \A m \in Members(l) : m.score <= t
      /\ \A s \in 0..t : Cardinality(Youngest(l, s)) <= u[s]
  BY DEF LogExact, Youngest
<1>4. \A m \in Members(e) : m.score \in Nat /\ m.score <= t
  BY <1>1, <1>2, <1>3, RemainingMembers DEF Member
<1> HIDE DEF e
<1>5. ASSUME NEW s \in 0..t
      PROVE  Cardinality(Youngest(e, s)) <= Later(u, t)[s]
  <2>1. /\ IsFiniteSet(Youngest(l, s)) /\ Cardinality(Youngest(l, s)) \in Nat
        /\ Cardinality(Youngest(e, s)) \in Nat
    BY <1>1, YoungestTyped
  <2>2. Youngest(e, s) \in SUBSET Youngest(l, s)
    BY <1>2 DEF Youngest
  <2>3. Cardinality(Youngest(e, s)) <= Cardinality(Youngest(l, s))
    BY <2>1, <2>2, FS_Subset
  <2>4. Later(u, t)[s] = u[s] /\ u[s] \in Int
    BY DEF Later
  <2>5. QED
    BY <1>3, <2>1, <2>3, <2>4
<1>6. Cardinality(Youngest(e, t + 1)) <= Later(u, t)[t + 1]
  <2>1. Youngest(e, t + 1) = {}
    BY <1>4 DEF Youngest
  <2>2. Later(u, t)[t + 1] = 0
    BY DEF Later
  <2>3. Cardinality(Youngest(e, t + 1)) = 0
    BY <2>1, FS_EmptySet, Zenon
  <2>4. QED
    BY <2>2, <2>3
<1>7. \A s \in 0..(t + 1) : s \in 0..t \/ s = t + 1
  OBVIOUS
<1>8. \A s \in 0..(t + 1) : Cardinality(Youngest(e, s)) <= Later(u, t)[s]
  BY <1>5, <1>6, <1>7
<1>9. \A m \in Members(e) : m.score <= t + 1
  BY <1>4
<1>10. QED
  BY <1>8, <1>9 DEF LogExact, Youngest, e

LEMMA LogAllow ==
  ASSUME NEW l \in Log \cup {NoKey}, LogOK(l), NEW q \in Serial \cup {NoKey},
         NEW t \in Nat, NEW u \in [0..t -> Int], NEW n \in Nat, LogExact(l, u, t),
         NEW d, LogEffect(d, l, q, t, t, n)
  PROVE  LogExact(d.log, IF d.allowed THEN More(u, t, n) ELSE u, t)
<1> DEFINE kept == Remaining(l, t)
           more == Entries(q, t, n)
           v == IF d.allowed THEN More(u, t, n) ELSE u
<1>1. /\ d.allowed \in BOOLEAN /\ d.log \in Log \cup {NoKey} /\ LogOK(d.log)
      /\ d.allowed => Members(d.log) = kept \cup more
      /\ ~ d.allowed => Members(d.log) = kept
  BY Zenon DEF LogEffect
<1>2. /\ IsFiniteSet(more) /\ Cardinality(more) = n
      /\ \A m \in more : m.score = t
  BY NewMembers
<1>3. kept \subseteq Members(l)
  BY DEF Remaining
<1>4. /\ \A m \in Members(l) : m.score <= t
      /\ \A s \in 0..t : Cardinality(Youngest(l, s)) <= u[s]
  BY DEF LogExact, Youngest
<1>5. \A s \in 0..t : v[s] = IF d.allowed THEN u[s] + n ELSE u[s]
  BY DEF More
<1> HIDE DEF kept, more, v
<1>6. \A m \in Members(d.log) : m.score <= t
  BY <1>1, <1>2, <1>3, <1>4
<1>7. ASSUME NEW s \in 0..t
      PROVE  Cardinality(Youngest(d.log, s)) <= v[s]
  <2>1. /\ IsFiniteSet(Youngest(l, s)) /\ Cardinality(Youngest(l, s)) \in Nat
        /\ Cardinality(Youngest(d.log, s)) \in Nat
    BY <1>1, YoungestTyped
  <2>2. u[s] \in Int /\ Cardinality(Youngest(l, s)) <= u[s]
    BY <1>4
  <2>3. CASE d.allowed
    <3>1. Youngest(d.log, s) \in SUBSET (Youngest(l, s) \cup more)
      BY <1>1, <1>3, <2>3 DEF Youngest
    <3>2. /\ IsFiniteSet(Youngest(l, s) \cup more)
          /\ Cardinality(Youngest(l, s) \cup more) =
               Cardinality(Youngest(l, s)) + Cardinality(more)
                 - Cardinality(Youngest(l, s) \cap more)
      BY <1>2, <2>1, FS_Union
    <3>3. Cardinality(Youngest(l, s) \cap more) \in Nat
      <4>1. Youngest(l, s) \cap more \in SUBSET more
        OBVIOUS
      <4>2. IsFiniteSet(Youngest(l, s) \cap more)
        BY <1>2, <4>1, FS_Subset
      <4>3. QED
        BY <4>2, FS_CardinalityType
    <3>4. Cardinality(Youngest(d.log, s)) <= Cardinality(Youngest(l, s) \cup more)
      BY <3>1, <3>2, FS_Subset
    <3>5. QED
      BY <1>2, <1>5, <2>1, <2>2, <2>3, <3>2, <3>3, <3>4
  <2>4. CASE ~ d.allowed
    <3>1. Youngest(d.log, s) \in SUBSET Youngest(l, s)
      BY <1>1, <1>3, <2>4 DEF Youngest
    <3>2. Cardinality(Youngest(d.log, s)) <= Cardinality(Youngest(l, s))
      BY <2>1, <3>1, FS_Subset
    <3>3. QED
      BY <1>5, <2>1, <2>2, <2>4, <3>2
  <2>5. QED
    BY <1>1, <2>3, <2>4
<1>8. QED
  BY <1>6, <1>7 DEF LogExact, Youngest, v

LEMMA LogNought ==
  ASSUME NEW t \in Nat
  PROVE  LogExact(NoKey, Nought(t), t)
<1>1. \A s : {m \in Members(NoKey) : m.score >= s} = {}
  BY DEF Members
<1>2. QED
  BY <1>1, FS_EmptySet DEF LogExact, Members, Nought

\* The log has neither fewer nor more members than the window has units.
LEMMA LogAllowed ==
  ASSUME NEW l \in Log \cup {NoKey}, LogOK(l), NEW q \in Serial \cup {NoKey},
         NEW t \in Nat, NEW u \in [0..t -> Int], NEW n \in Nat, LogExact(l, u, t),
         \A s \in 0..t : t - Window < s => Logged(l, q, u[s], s)
  PROVE  LET d == SlidingLogScript(l, q, t, t, n)
         IN  /\ d.allowed => FitsSlidingWindow(u, t, n)
             /\ ~ d.allowed => ~ FitsSlidingWindow(u, t, n)
<1> DEFINE s == IF t < Window THEN 0 ELSE t - Window + 1
           d == SlidingLogScript(l, q, t, t, n)
           c == Cardinality(Remaining(l, t))
<1>1. Window \in Nat \ {0}
  BY Positive
<1>2. s \in 0..t /\ t - Window < s /\ u[s] \in Int
  BY <1>1
<1>3. Remaining(l, t) = Youngest(l, s)
  <2>1. \A m \in Members(l) : m.score \in Nat
    BY RemainingMembers DEF Member
  <2>2. \A x \in Nat : (x > t - Window) <=> (x >= s)
    BY <1>1
  <2>3. QED
    BY <2>1, <2>2 DEF Remaining, Youngest
<1>4. c <= u[s]
  BY <1>2, <1>3 DEF LogExact, Youngest
<1>5. u[s] <= Cardinality(Held(l, q, s))
  BY <1>2 DEF Logged
<1>6. Cardinality(Held(l, q, s)) <= c /\ c \in Nat /\ Cardinality(Held(l, q, s)) \in Nat
  <2>1. IsFiniteSet(Youngest(l, s)) /\ Cardinality(Youngest(l, s)) \in Nat
    BY YoungestTyped
  <2>2. Held(l, q, s) \in SUBSET Youngest(l, s)
    BY DEF Held, Youngest
  <2>3. IsFiniteSet(Held(l, q, s)) /\ Cardinality(Held(l, q, s)) <= Cardinality(Youngest(l, s))
    BY <2>1, <2>2, FS_Subset
  <2>4. Cardinality(Held(l, q, s)) \in Nat
    BY <2>3, FS_CardinalityType
  <2>5. QED
    BY <1>3, <2>1, <2>3, <2>4
<1>7. /\ c + n <= Limit => d.allowed
      /\ ~ (c + n <= Limit) => ~ d.allowed
  BY LogAnswer
<1> HIDE DEF c, d, s
<1>8. u[s] = c
  BY <1>2, <1>4, <1>5, <1>6
<1>9. FitsSlidingWindow(u, t, n) <=> c + n <= Limit
  BY <1>8, Zenon DEF FitsSlidingWindow, s
<1>10. QED
  BY <1>7, <1>9, Zenon DEF d

-----------------------------------------------------------------------------
(* Reset *)

\* The running Reset of a client that is alone has found, or is yet to find, every
\* name of the key.
ScanInv ==
  scan # NoScan /\ scan.key \notin SharedKeys =>
    Names(scan.key) \subseteq (IF scan.phase = "scan" THEN scan.must ELSE scan.found)

\* The names of a key, one by one.
LEMMA NamesAre ==
  ASSUME NEW k
  PROVE  \A x : x \in Names(k) <=>
           \/ bucket[k] # NoKey /\ x = <<"bucket", 0>>
           \/ log[k] # NoKey /\ x = <<"log", 0>>
           \/ seq[k] # NoKey /\ x = <<"seq", 0>>
           \/ \E w \in WindowNums : counter[k][w] # NoKey /\ x = <<"counter", w>>
BY DEF Names

\* Redis drops names when the clock ticks, and makes none.
LEMMA NamesTick ==
  ASSUME StoreOK, Tick, NEW k \in Keys
  PROVE  Names(k)' \subseteq Names(k)
<1>1. /\ bucket'[k] \in {bucket[k], NoKey} /\ log'[k] \in {log[k], NoKey}
      /\ seq'[k] \in {seq[k], NoKey}
      /\ \A w \in WindowNums : counter'[k][w] \in {counter[k][w], NoKey}
  BY DEF Tick, Alive
<1>2. QED
  BY <1>1 DEF Names

\* What every step but those of a Reset keeps of the one that is running.
LEMMA KeptScanInv ==
  ASSUME StoreOK, ScanInv, KeepScan,
         \A k \in Keys \ SharedKeys : scan # NoScan /\ scan.key = k => Names(k)' \subseteq Names(k)
  PROVE  ScanInv'
<1>1. CASE scan = NoScan
  BY <1>1 DEF KeepScan, ScanInv
<1>2. CASE scan # NoScan
  <2>1. scan \in Scan
    BY <1>2 DEF StoreOK, TypeOK
  <2>2. PICK k \in Keys : scan.key = k /\ scan' = [scan EXCEPT !.must = @ \cap Names(k)']
    BY <1>2 DEF KeepScan
  <2> DEFINE m == scan.must \cap Names(k)'
  <2>3. scan' = [scan EXCEPT !.must = m]
    BY <2>2
  <2>4. m = scan.must \cap Names(k)'
    OBVIOUS
  <2> HIDE DEF m
  <2>5. scan'.key = k /\ scan'.phase = scan.phase /\ scan'.found = scan.found /\ scan'.must = m
    BY <2>1, <2>2, <2>3 DEF Scan
  <2>6. ASSUME k \notin SharedKeys
        PROVE  Names(k)' \subseteq (IF scan'.phase = "scan" THEN scan'.must ELSE scan'.found)
    <3>1. Names(k) \subseteq (IF scan.phase = "scan" THEN scan.must ELSE scan.found)
      BY <1>2, <2>2, <2>6 DEF ScanInv
    <3>2. Names(k)' \subseteq Names(k)
      BY <1>2, <2>2, <2>6
    <3>3. QED
      BY <2>4, <2>5, <3>1, <3>2
  <2>7. QED
    BY <2>5, <2>6 DEF ScanInv
<1>3. QED
  BY <1>1, <1>2

LEMMA AllowKeepsScan ==
  ASSUME NEW k \in Keys, Allow(k)
  PROVE  KeepScan
BY DEF Allow, AllowTokenBucket, AllowFixedWindow, AllowSlidingWindowCounter,
       AllowSlidingWindowLog, Enter

LEMMA ScanInvStep ==
  ASSUME StoreOK, ScanInv, [Next]_vars
  PROVE  ScanInv'
<1>1. CASE Tick
  <2>1. KeepScan
    BY <1>1 DEF Tick
  <2>2. QED
    BY <1>1, <2>1, NamesTick, KeptScanInv
<1>2. ASSUME NEW j \in Keys, Allow(j)
      PROVE  ScanInv'
  <2>1. KeepScan /\ (j \notin SharedKeys => scan = NoScan)
    BY <1>2, AllowKeepsScan DEF Allow
  <2>2. \A i \in Keys : i # j =>
          /\ bucket'[i] = bucket[i] /\ counter'[i] = counter[i]
          /\ log'[i] = log[i] /\ seq'[i] = seq[i]
    BY <1>2, AllowTyped DEF Allow
  <2>3. ASSUME NEW k \in Keys \ SharedKeys, scan # NoScan, scan.key = k
        PROVE  Names(k)' \subseteq Names(k)
    <3>1. k # j
      BY <2>1, <2>3
    <3>2. /\ bucket'[k] = bucket[k] /\ counter'[k] = counter[k]
          /\ log'[k] = log[k] /\ seq'[k] = seq[k]
      BY <2>2, <3>1
    <3>3. QED
      BY <3>2 DEF Names
  <2>4. QED
    BY <2>1, <2>3, KeptScanInv
<1>3. ASSUME NEW k \in Keys, BeginReset(k)
      PROVE  ScanInv'
  <2>1. /\ scan' = [key |-> k, phase |-> "scan", must |-> Names(k), found |-> {<<"bucket", 0>>}]
        /\ UNCHANGED db
    BY <1>3 DEF BeginReset
  <2>2. Names(k)' = Names(k)
    BY <2>1 DEF Names, db
  <2> DEFINE m == Names(k)
  <2>3. scan'.key = k /\ scan'.phase = "scan" /\ scan'.must = m
    BY <2>1
  <2>4. Names(k)' = m
    BY <2>2
  <2> HIDE DEF m
  <2>5. Names(scan.key)' = m
    BY <2>3, <2>4
  <2>6. QED
    BY <2>3, <2>5 DEF ScanInv
<1>4. CASE ScanPage \/ ScanEnds \/ ScanFails
  <2>1. scan \in Scan /\ scan # NoScan /\ scan.phase = "scan" /\ UNCHANGED db
    BY <1>4 DEF StoreOK, TypeOK, ScanPage, ScanEnds, ScanFails
  <2>2. /\ scan'.key = scan.key
        /\ \/ scan'.phase = "scan" /\ scan'.must = scan.must
           \/ scan'.phase = "del" /\ scan'.found = scan.found
              /\ (scan.must \subseteq scan.found \/ scan.key \in SharedKeys)
    <3>1. CASE ScanPage
      <4>1. PICK page \in SUBSET (Names(scan.key) \ scan.found) :
              scan' = [scan EXCEPT !.found = @ \cup page]
        BY <3>1 DEF ScanPage
      <4> DEFINE f == scan.found \cup page
      <4>2. scan' = [scan EXCEPT !.found = f]
        BY <4>1
      <4> HIDE DEF f
      <4>3. QED
        BY <2>1, <4>2 DEF Scan
    <3>2. CASE ScanEnds \/ ScanFails
      <4>1. /\ scan' = [scan EXCEPT !.phase = "del"]
            /\ scan.must \subseteq scan.found \/ scan.key \in SharedKeys
        BY <3>2 DEF ScanEnds, ScanFails
      <4>2. QED
        BY <2>1, <4>1 DEF Scan
    <3>3. QED
      BY <1>4, <3>1, <3>2
  <2>3. PICK k : k = scan.key
    OBVIOUS
  <2>4. Names(k)' = Names(k)
    BY <2>1 DEF Names, db
  <2>5. k \notin SharedKeys => Names(k) \subseteq scan.must
    BY <2>1, <2>3 DEF ScanInv
  <2>6. k \notin SharedKeys =>
          Names(k)' \subseteq (IF scan'.phase = "scan" THEN scan'.must ELSE scan'.found)
    BY <2>2, <2>3, <2>4, <2>5
  <2>7. scan'.key = k
    BY <2>2, <2>3
  <2>8. QED
    BY <2>6, <2>7 DEF ScanInv
<1>5. CASE Del \/ DelFails
  BY <1>5 DEF Del, DelFails, ScanInv
<1>6. CASE UNCHANGED vars
  BY <1>6 DEF vars, db, ScanInv, Names
<1>7. QED
  BY <1>1, <1>2, <1>3, <1>4, <1>5, <1>6 DEF Next, Resetting

\* So a Reset of a client that is alone leaves nothing.
LEMMA DelClears ==
  ASSUME StoreOK, ScanInv, Del, NEW k \in Keys \ SharedKeys, scan.key = k
  PROVE  /\ Forget(k)
         /\ bucket'[k] = NoKey /\ log'[k] = NoKey
         /\ \A w \in WindowNums : counter'[k][w] = NoKey
<1> DEFINE c == [w \in WindowNums |->
                   IF <<"counter", w>> \in scan.found THEN NoKey ELSE counter[k][w]]
           l == IF <<"log", 0>> \in scan.found THEN NoKey ELSE log[k]
<1>1. /\ bucket \in [Keys -> Bucket \cup {NoKey}]
      /\ counter \in [Keys -> [WindowNums -> Counter \cup {NoKey}]]
      /\ log \in [Keys -> Log \cup {NoKey}]
      /\ scan # NoScan /\ scan.phase = "del"
  BY DEF StoreOK, TypeOK, Del
<1>2. /\ Forget(k)
      /\ bucket' = [bucket EXCEPT ![k] = NoKey]
      /\ counter' = [counter EXCEPT ![k] = c]
      /\ log' = [log EXCEPT ![k] = l]
  BY DEF Del
<1>3. Names(k) \subseteq scan.found
  BY <1>1 DEF ScanInv
<1>4. l = NoKey
  BY <1>3, NamesAre
<1>5. \A w \in WindowNums : c[w] = NoKey
  BY <1>3, NamesAre
<1> HIDE DEF c, l
<1>6. bucket'[k] = NoKey /\ counter'[k] = c /\ log'[k] = l
  BY <1>1, <1>2
<1>7. QED
  BY <1>2, <1>4, <1>5, <1>6

-----------------------------------------------------------------------------
(* The store implements the reference limiter *)

\* What Redis holds for key k is exactly what its usage u leaves at time t.
KeyExact(k, b, c, l, u, t) ==
  /\ k \in BucketKeys => BucketExact(b, u, t)
  /\ k \in WindowKeys \cup CounterKeys => CountersExact(c, u, t)
  /\ k \in LogKeys => LogExact(l, u, t)

ExactInv ==
  \A k \in Keys \ SharedKeys :
    KeyExact(k, bucket[k], counter[k], log[k], Usage(k), now)

\* The window of a time has a counter.
LEMMA WindowOf ==
  ASSUME NEW t \in Times
  PROVE  /\ WindowNum(t) \in WindowNums /\ WindowNums \subseteq Nat
         /\ WindowNum(t) # 0 => WindowNum(t) - 1 \in WindowNums
<1>1. /\ Drift \in Nat /\ t \in Nat /\ t <= MaxTime /\ MaxTime \in Nat
      /\ MaxTime + Drift \in Nat /\ t <= MaxTime + Drift
  BY RedisAssumption, Positive DEF Times
<1>2. WindowNum(t) \in Nat /\ WindowNum(MaxTime + Drift) \in Nat
  BY <1>1, WindowTypes
<1>3. WindowNum(t) <= WindowNum(MaxTime + Drift)
  BY <1>1, SpanPositive, DivisionGrows DEF WindowNum
<1>4. QED
  BY <1>1, <1>2, <1>3 DEF WindowNums

\* What is exact stays so when the clock ticks, and is so of an unused key.
LEMMA KeyTick ==
  ASSUME FullBeforeExpiry, NEW k, NEW t \in Times, t + 1 \in Times, NEW u \in [0..t -> Int],
         NEW b \in Bucket \cup {NoKey}, NEW c \in [WindowNums -> Counter \cup {NoKey}],
         NEW l \in Log \cup {NoKey}, LogOK(l), KeyExact(k, b, c, l, u, t)
  PROVE  KeyExact(k, Alive(b, t + 1), [w \in WindowNums |-> Alive(c[w], t + 1)],
                  Alive(l, t + 1), Later(u, t), t + 1)
<1>1. t \in Nat
  BY Positive
<1>2. ASSUME k \in BucketKeys
      PROVE  BucketExact(Alive(b, t + 1), Later(u, t), t + 1)
  <2>1. BucketExact(b, u, t)
    BY <1>2 DEF KeyExact
  <2>2. QED
    BY <1>1, <2>1, BucketTick
<1>3. ASSUME k \in WindowKeys \cup CounterKeys
      PROVE  CountersExact([w \in WindowNums |-> Alive(c[w], t + 1)], Later(u, t), t + 1)
  <2>1. CountersExact(c, u, t)
    BY <1>3 DEF KeyExact
  <2>2. WindowNum(t + 1) \in WindowNums
    BY WindowOf
  <2>3. /\ WindowNum(t) \in WindowNums /\ WindowNums \subseteq Nat
        /\ WindowNum(t) # 0 => WindowNum(t) - 1 \in WindowNums
    BY WindowOf
  <2>4. QED
    BY <1>1, <2>1, <2>2, <2>3, CountersTick
<1>4. ASSUME k \in LogKeys
      PROVE  LogExact(Alive(l, t + 1), Later(u, t), t + 1)
  <2>1. LogExact(l, u, t)
    BY <1>4 DEF KeyExact
  <2>2. QED
    BY <1>1, <2>1, LogTick
<1>5. QED
  BY <1>2, <1>3, <1>4, Zenon DEF KeyExact

LEMMA KeyNought ==
  ASSUME NEW k, NEW t \in Times, NEW c, \A w \in WindowNums : c[w] = NoKey
  PROVE  KeyExact(k, NoKey, c, NoKey, Nought(t), t)
<1>1. t \in Nat
  BY Positive
<1>2. BucketExact(NoKey, Nought(t), t)
  <2>1. Level(NoKey, t) = Full
    BY <1>1, LevelOf
  <2>2. Balanced(Nought(t), Full, t)
    BY <1>1, BalancedNought
  <2>3. QED
    BY <2>1, <2>2 DEF BucketExact
<1>3. CountersExact(c, Nought(t), t)
  <2>1. /\ WindowNum(t) \in WindowNums
        /\ WindowNum(t) # 0 => WindowNum(t) - 1 \in WindowNums
    BY WindowOf
  <2>2. QED
    BY <1>1, <2>1, CountersNought
<1>4. LogExact(NoKey, Nought(t), t)
  BY <1>1, LogNought
<1>5. QED
  BY <1>2, <1>3, <1>4 DEF KeyExact

\* What decision d makes of the key, in a step.
Answered(k, n, d) ==
  /\ d.allowed \in BOOLEAN /\ Enter(k, n, now, d)
  /\ KeyExact(k, bucket'[k], counter'[k], log'[k],
              IF d.allowed THEN More(Usage(k), now, n) ELSE Usage(k), now)
  /\ d.allowed => May(k, Usage(k), now, n)
  /\ ~ d.allowed => ~ Must(k, Usage(k), now, n)

\* Every kind of limiter answers a client that is alone as its policy says, and
\* keeps what Redis holds exact.
LEMMA BucketAnswers ==
  ASSUME StoreOK, ExactInv, NEW k \in BucketKeys \ SharedKeys, NEW n \in Costs,
         AllowTokenBucket(k, n, now)
  PROVE  \E d : Answered(k, n, d)
<1> DEFINE b == bucket[k]
           u == Usage(k)
           d == TokenBucketScript(b, now, now, n)
<1>1. /\ k \in Keys /\ k \notin WindowKeys /\ k \notin CounterKeys /\ k \notin LogKeys
      /\ n \in Nat
  BY KindsApart, Positive
<1>2. /\ now \in Nat /\ u \in [0..now -> Int] /\ b \in Bucket \cup {NoKey}
      /\ bucket \in [Keys -> Bucket \cup {NoKey}]
  BY <1>1, UsageTyped, KeyFacts DEF StoreOK, TypeOK
<1>3. BucketExact(b, u, now)
  BY <1>1 DEF ExactInv, KeyExact
<1>4. d.allowed \in BOOLEAN
  BY <1>1, <1>2, BucketScript
<1>5. /\ bucket' = [bucket EXCEPT ![k] = d.bucket]
      /\ Enter(k, n, now, d)
  BY DEF AllowTokenBucket
<1>6. /\ BucketExact(d.bucket, IF d.allowed THEN More(u, now, n) ELSE u, now)
      /\ d.allowed => FitsEnvelope(u, now, n)
      /\ ~ d.allowed => ~ FitsEnvelope(u, now, n)
  BY <1>1, <1>2, <1>3, BucketAllowed
<1> HIDE DEF d, u
<1>7. bucket'[k] = d.bucket
  BY <1>1, <1>2, <1>5
<1>8. /\ d.allowed => May(k, u, now, n)
      /\ ~ d.allowed => ~ Must(k, u, now, n)
  BY <1>1, <1>6, Zenon DEF May, Must
<1>9. KeyExact(k, bucket'[k], counter'[k], log'[k],
               IF d.allowed THEN More(u, now, n) ELSE u, now)
  BY <1>1, <1>6, <1>7 DEF KeyExact
<1>10. Answered(k, n, d)
  BY <1>4, <1>5, <1>8, <1>9, Zenon DEF Answered, u
<1>11. QED
  BY <1>10

LEMMA WindowAnswers ==
  ASSUME StoreOK, ExactInv, NEW k \in WindowKeys \ SharedKeys, NEW n \in Costs,
         AllowFixedWindow(k, n, now)
  PROVE  \E d : Answered(k, n, d)
<1> DEFINE w == WindowNum(now)
           c == counter[k]
           u == Usage(k)
           d == FixedWindowScript(c[w], now, now, n)
           e == [c EXCEPT ![w] = d.counter]
<1>1. /\ k \in Keys /\ k \notin BucketKeys /\ k \notin CounterKeys /\ k \notin LogKeys
      /\ n \in Nat
  BY KindsApart, Positive
<1>2. /\ now \in Nat /\ u \in [0..now -> Int]
      /\ c \in [WindowNums -> Counter \cup {NoKey}]
      /\ counter \in [Keys -> [WindowNums -> Counter \cup {NoKey}]]
      /\ now \in Times
  BY <1>1, UsageTyped, KeyFacts DEF StoreOK, TypeOK
<1>3. /\ w \in WindowNums /\ WindowNums \subseteq Nat
      /\ w # 0 => w - 1 \in WindowNums
  BY <1>2, WindowOf
<1>4. CountersExact(c, u, now)
  BY <1>1 DEF ExactInv, KeyExact
<1>5. Counts(d, c[w], now, n)
  BY <1>1, <1>2, <1>3, WindowScriptCounts
<1>6. /\ counter' = [counter EXCEPT ![k] = e]
      /\ Enter(k, n, now, d)
  BY DEF AllowFixedWindow
<1>7. /\ d.allowed => FitsFixedWindow(u, now, n)
      /\ ~ d.allowed => ~ FitsFixedWindow(u, now, n)
  BY <1>1, <1>2, <1>3, <1>4, WindowAllowed
<1> HIDE DEF d, u
<1>8. CountersExact(e, IF d.allowed THEN More(u, now, n) ELSE u, now)
  BY <1>1, <1>2, <1>3, <1>4, <1>5, CountersAllow
<1> HIDE DEF e
<1>9. counter'[k] = e
  BY <1>1, <1>2, <1>6
<1>10. /\ d.allowed => May(k, u, now, n)
       /\ ~ d.allowed => ~ Must(k, u, now, n)
  BY <1>1, <1>7, Zenon DEF May, Must
<1>11. KeyExact(k, bucket'[k], counter'[k], log'[k],
                IF d.allowed THEN More(u, now, n) ELSE u, now)
  BY <1>1, <1>8, <1>9 DEF KeyExact
<1>12. d.allowed \in BOOLEAN
  BY <1>5, Zenon DEF Counts
<1>13. Answered(k, n, d)
  BY <1>6, <1>10, <1>11, <1>12, Zenon DEF Answered, u
<1>14. QED
  BY <1>13

LEMMA CounterAnswers ==
  ASSUME StoreOK, ExactInv, NEW k \in CounterKeys \ SharedKeys, NEW n \in Costs,
         AllowSlidingWindowCounter(k, n, now)
  PROVE  \E d : Answered(k, n, d)
<1> DEFINE w == WindowNum(now)
           c == counter[k]
           u == Usage(k)
           p == IF w = 0 THEN NoKey ELSE c[w - 1]
<1>1. /\ k \in Keys /\ k \notin BucketKeys /\ k \notin WindowKeys /\ k \notin LogKeys
      /\ n \in Nat
  BY KindsApart, Positive
<1>2. /\ now \in Nat /\ u \in [0..now -> Int]
      /\ c \in [WindowNums -> Counter \cup {NoKey}]
      /\ counter \in [Keys -> [WindowNums -> Counter \cup {NoKey}]]
      /\ now \in Times
  BY <1>1, UsageTyped, KeyFacts DEF StoreOK, TypeOK
<1>3. /\ w \in WindowNums /\ WindowNums \subseteq Nat
      /\ w # 0 => w - 1 \in WindowNums
  BY <1>2, WindowOf
<1>4. CountersExact(c, u, now)
  BY <1>1 DEF ExactInv, KeyExact
<1>5. p \in Counter \cup {NoKey} /\ c[w] \in Counter \cup {NoKey}
  BY <1>2, <1>3
<1>6. PICK slip \in Slips(Value(p), now) :
        LET d == SlidingCounterScript(p, c[w], now, now, n, slip)
        IN  /\ counter' = [counter EXCEPT ![k][w] = d.counter]
            /\ UNCHANGED <<bucket, log, seq>>
            /\ Enter(k, n, now, d)
  BY DEF AllowSlidingWindowCounter
<1> DEFINE d == SlidingCounterScript(p, c[w], now, now, n, slip)
           e == [c EXCEPT ![w] = d.counter]
<1>7. Counts(d, c[w], now, n)
  BY <1>1, <1>2, <1>5, CounterScript
<1>8. /\ counter' = [counter EXCEPT ![k] = e]
      /\ Enter(k, n, now, d)
  BY <1>6
<1>9. /\ d.allowed => MayFitEstimate(u, now, n)
      /\ ~ d.allowed => ~ MustFitEstimate(u, now, n)
  BY <1>1, <1>2, <1>3, <1>4, CounterAllowed
<1> HIDE DEF d, u
<1>10. CountersExact(e, IF d.allowed THEN More(u, now, n) ELSE u, now)
  BY <1>1, <1>2, <1>3, <1>4, <1>7, CountersAllow
<1> HIDE DEF e
<1>11. counter'[k] = e
  BY <1>1, <1>2, <1>8
<1>12. /\ d.allowed => May(k, u, now, n)
       /\ ~ d.allowed => ~ Must(k, u, now, n)
  BY <1>1, <1>9, Zenon DEF May, Must
<1>13. KeyExact(k, bucket'[k], counter'[k], log'[k],
                IF d.allowed THEN More(u, now, n) ELSE u, now)
  BY <1>1, <1>10, <1>11 DEF KeyExact
<1>14. d.allowed \in BOOLEAN
  BY <1>7, Zenon DEF Counts
<1>15. Answered(k, n, d)
  BY <1>8, <1>12, <1>13, <1>14, Zenon DEF Answered, u
<1>16. QED
  BY <1>15

LEMMA LogAnswers ==
  ASSUME StoreOK, LogsInv, ExactInv, NEW k \in LogKeys \ SharedKeys, NEW n \in Costs,
         AllowSlidingWindowLog(k, n, now)
  PROVE  \E d : Answered(k, n, d)
<1> DEFINE l == log[k]
           q == seq[k]
           u == Usage(k)
           d == SlidingLogScript(l, q, now, now, n)
<1>1. /\ k \in Keys /\ k \notin BucketKeys /\ k \notin WindowKeys /\ k \notin CounterKeys
      /\ n \in Nat
  BY KindsApart, Positive
<1>2. /\ now \in Nat /\ u \in [0..now -> Int]
      /\ l \in Log \cup {NoKey} /\ LogOK(l) /\ q \in Serial \cup {NoKey}
      /\ log \in [Keys -> Log \cup {NoKey}]
  BY <1>1, UsageTyped, KeyFacts DEF StoreOK, TypeOK
<1>3. LogExact(l, u, now)
  BY <1>1 DEF ExactInv, KeyExact
<1>4. \A s \in 0..now : now - Window < s => Logged(l, q, u[s], s)
  <2> SUFFICES ASSUME NEW s \in 0..now, now - Window < s
               PROVE  Logged(l, q, u[s], s)
    OBVIOUS
  <2>1. DriftOf(k) = 0 /\ now + 0 - Window < s
    BY <1>2, Positive DEF DriftOf
  <2>2. Logged(l, q, Since(k, s), s)
    BY <2>1 DEF LogsInv
  <2>3. u[s] = Since(k, s)
    BY DEF Usage
  <2>4. QED
    BY <2>2, <2>3
<1>5. LogEffect(d, l, q, now, now, n)
  BY <1>1, <1>2, LogScript
<1>6. /\ log' = [log EXCEPT ![k] = d.log]
      /\ Enter(k, n, now, d)
  BY DEF AllowSlidingWindowLog
<1>7. /\ d.allowed => FitsSlidingWindow(u, now, n)
      /\ ~ d.allowed => ~ FitsSlidingWindow(u, now, n)
  BY <1>1, <1>2, <1>3, <1>4, LogAllowed
<1> HIDE DEF d, u
<1>8. LogExact(d.log, IF d.allowed THEN More(u, now, n) ELSE u, now)
  BY <1>1, <1>2, <1>3, <1>5, LogAllow
<1>9. log'[k] = d.log
  BY <1>1, <1>2, <1>6
<1>10. /\ d.allowed => May(k, u, now, n)
       /\ ~ d.allowed => ~ Must(k, u, now, n)
  BY <1>1, <1>7, Zenon DEF May, Must
<1>11. KeyExact(k, bucket'[k], counter'[k], log'[k],
                IF d.allowed THEN More(u, now, n) ELSE u, now)
  BY <1>1, <1>8, <1>9 DEF KeyExact
<1>12. d.allowed \in BOOLEAN
  BY <1>5, Zenon DEF LogEffect
<1>13. Answered(k, n, d)
  BY <1>6, <1>10, <1>11, <1>12, Zenon DEF Answered, u
<1>14. QED
  BY <1>13

LEMMA SoloAnswers ==
  ASSUME StoreOK, LogsInv, ExactInv, NEW k \in Keys \ SharedKeys, Allow(k)
  PROVE  \E n \in Costs : \E d : Answered(k, n, d)
<1>1. PICK n \in Costs, at \in now..(now + DriftOf(k)) :
        \/ k \in BucketKeys  /\ AllowTokenBucket(k, n, at)
        \/ k \in WindowKeys  /\ AllowFixedWindow(k, n, at)
        \/ k \in CounterKeys /\ AllowSlidingWindowCounter(k, n, at)
        \/ k \in LogKeys     /\ AllowSlidingWindowLog(k, n, at)
  BY DEF Allow
<1>2. at = now
  <2>1. now \in Nat /\ DriftOf(k) = 0
    BY KeyFacts DEF DriftOf
  <2>2. QED
    BY <2>1
<1>3. \E d : Answered(k, n, d)
  BY <1>1, <1>2, BucketAnswers, WindowAnswers, CounterAnswers, LogAnswers
<1>4. QED
  BY <1>3

LEMMA ExactStep ==
  ASSUME FullBeforeExpiry, StoreOK, LogsInv, ScanInv, ExactInv, [Next]_vars
  PROVE  ExactInv'
<1> SUFFICES ASSUME NEW k \in Keys \ SharedKeys
             PROVE  KeyExact(k, bucket'[k], counter'[k], log'[k], Usage(k)', now')
  BY DEF ExactInv
<1>1. /\ KeyExact(k, bucket[k], counter[k], log[k], Usage(k), now)
      /\ now \in Times /\ Usage(k) \in [0..now -> Int]
      /\ bucket[k] \in Bucket \cup {NoKey}
      /\ counter[k] \in [WindowNums -> Counter \cup {NoKey}]
      /\ log[k] \in Log \cup {NoKey} /\ LogOK(log[k])
  BY KeyFacts, UsageTyped DEF ExactInv
<1>2. CASE Tick
  <2>1. now' = now + 1 /\ Usage(k)' = Later(Usage(k), now)
    BY <1>2, UsageTick
  <2>2. now + 1 \in Times
    BY <1>2, TickKeepsLedger DEF Tick, StoreOK, TypeOK
  <2>3. /\ bucket'[k] = Alive(bucket[k], now + 1)
        /\ counter'[k] = [w \in WindowNums |-> Alive(counter[k][w], now + 1)]
        /\ log'[k] = Alive(log[k], now + 1)
    BY <1>2 DEF Tick
  <2>4. KeyExact(k, Alive(bucket[k], now + 1),
                 [w \in WindowNums |-> Alive(counter[k][w], now + 1)],
                 Alive(log[k], now + 1), Later(Usage(k), now), now + 1)
    BY <1>1, <2>2, KeyTick
  <2>5. QED
    BY <2>1, <2>3, <2>4
<1>3. CASE /\ now' = now /\ admitted'[k] = admitted[k] /\ before'[k] = before[k]
           /\ bucket'[k] = bucket[k] /\ counter'[k] = counter[k] /\ log'[k] = log[k]
  <2>1. Usage(k)' = Usage(k)
    BY <1>3 DEF Usage, Since
  <2>2. QED
    BY <1>1, <1>3, <2>1
<1>4. CASE \/ ScanPage \/ ScanEnds \/ ScanFails \/ DelFails \/ \E j \in Keys : BeginReset(j)
  <2>1. UNCHANGED <<ledger, db>>
    BY <1>4, ScanTyped
  <2>2. QED
    BY <1>3, <2>1 DEF ledger, db
<1>5. CASE Del
  <2>1. /\ bucket \in [Keys -> Bucket \cup {NoKey}]
        /\ counter \in [Keys -> [WindowNums -> Counter \cup {NoKey}]]
        /\ log \in [Keys -> Log \cup {NoKey}]
        /\ admitted \in [Keys -> Nat] /\ before \in [Keys -> [Times -> Nat]]
    BY DEF StoreOK, TypeOK, LedgerTypeOK
  <2>2. CASE scan.key # k
    <3>1. /\ now' = now /\ admitted'[k] = admitted[k] /\ before'[k] = before[k]
      BY <1>5, <2>1, <2>2 DEF Del, Forget
    <3>2. /\ bucket'[k] = bucket[k] /\ counter'[k] = counter[k] /\ log'[k] = log[k]
      BY <1>5, <2>1, <2>2 DEF Del
    <3>3. QED
      BY <1>3, <3>1, <3>2
  <2>3. CASE scan.key = k
    <3>1. /\ Forget(k)
          /\ bucket'[k] = NoKey /\ log'[k] = NoKey
          /\ \A w \in WindowNums : counter'[k][w] = NoKey
      BY <1>5, <2>3, DelClears
    <3>2. now' = now /\ Usage(k)' = Nought(now)
      BY <3>1, UsageForgotten
    <3>3. KeyExact(k, NoKey, counter'[k], NoKey, Nought(now), now)
      BY <1>1, <3>1, KeyNought
    <3>4. QED
      BY <3>1, <3>2, <3>3
  <2>4. QED
    BY <2>2, <2>3
<1>6. ASSUME NEW j \in Keys, Allow(j), j # k
      PROVE  KeyExact(k, bucket'[k], counter'[k], log'[k], Usage(k)', now')
  BY <1>3, <1>6, AllowTyped DEF Allow
<1>7. ASSUME Allow(k)
      PROVE  KeyExact(k, bucket'[k], counter'[k], log'[k], Usage(k)', now')
  <2>1. PICK n \in Costs : \E d : Answered(k, n, d)
    BY <1>7, SoloAnswers
  <2>2. PICK d : Answered(k, n, d)
    BY <2>1
  <2>3. /\ d.allowed \in BOOLEAN /\ Enter(k, n, now, d)
        /\ KeyExact(k, bucket'[k], counter'[k], log'[k],
                    IF d.allowed THEN More(Usage(k), now, n) ELSE Usage(k), now)
    BY <2>2 DEF Answered
  <2>4. now \in now..(now + DriftOf(k))
    BY KeyFacts
  <2>5. /\ now' = now
        /\ Usage(k)' = IF d.allowed THEN More(Usage(k), now, n) ELSE Usage(k)
    BY <2>3, <2>4, UsageAnswer
  <2>6. QED
    BY <2>3, <2>5
<1>8. CASE UNCHANGED vars
  BY <1>3, <1>8 DEF vars, ledger, db
<1>9. QED
  BY <1>2, <1>4, <1>5, <1>6, <1>7, <1>8 DEF Next, Resetting

LEMMA ExactInit == Init => ScanInv /\ ExactInv
<1> SUFFICES ASSUME Init PROVE ScanInv /\ ExactInv
  OBVIOUS
<1>1. ScanInv
  BY DEF Init, ScanInv
<1>2. ASSUME NEW k \in Keys \ SharedKeys
      PROVE  KeyExact(k, bucket[k], counter[k], log[k], Usage(k), now)
  <2>1. /\ now \in Times /\ now \in Nat /\ \A s \in 0..now : s \in Times
    BY StoreOKInit, KeyFacts
  <2>2. Usage(k) = Nought(now)
    BY <2>1 DEF Init, LedgerInit, Usage, Since, Nought
  <2>3. bucket[k] = NoKey /\ log[k] = NoKey /\ \A w \in WindowNums : counter[k][w] = NoKey
    BY DEF Init
  <2>4. QED
    BY <2>1, <2>2, <2>3, KeyNought
<1>3. QED
  BY <1>1, <1>2 DEF ExactInv

\* Whatever a script decides is entered as an answer.
LEMMA AllowAnswers ==
  ASSUME NEW k \in Keys, Allow(k)
  PROVE  \E n \in Costs : Admit(k, n) \/ Refuse(k, n)
<1>1. PICK n \in Costs, at \in now..(now + DriftOf(k)) :
        \/ AllowTokenBucket(k, n, at)
        \/ AllowFixedWindow(k, n, at)
        \/ AllowSlidingWindowCounter(k, n, at)
        \/ AllowSlidingWindowLog(k, n, at)
  BY DEF Allow
<1>2. ASSUME NEW d, Enter(k, n, at, d)
      PROVE  Admit(k, n) \/ Refuse(k, n)
  BY <1>2 DEF Enter
<1>3. \E d : Enter(k, n, at, d)
  BY <1>1 DEF AllowTokenBucket, AllowFixedWindow, AllowSlidingWindowCounter,
              AllowSlidingWindowLog
<1>4. QED
  BY <1>2, <1>3

LEMMA ReferenceInit == Init => Reference!LedgerInit
BY DEF Init, LedgerInit, Reference!LedgerInit, Times, Reference!Times

LEMMA ReferenceStep ==
  ASSUME StoreOK, LogsInv, ExactInv, [Next]_vars
  PROVE  [Reference!Next]_(Reference!ledger)
<1>1. CASE UNCHANGED ledger
  BY <1>1 DEF ledger, Reference!ledger
<1>2. CASE Tick
  BY <1>2 DEF Tick, AdvanceClock, Reference!Next, Reference!AdvanceClock
<1>3. CASE Del
  <2>1. PICK k \in Keys : Forget(k)
    BY <1>3, DelTyped
  <2>2. Reference!Reset(k)
    BY <2>1 DEF Forget, Reference!Reset, Reference!Forget, Times, Reference!Times
  <2>3. QED
    BY <2>2 DEF Reference!Next
<1>4. ASSUME NEW k \in Keys, NEW n \in Costs,
             \/ Admit(k, n) /\ MaySolo(k, Usage(k), now, n)
             \/ Refuse(k, n) /\ ~ MustSolo(k, Usage(k), now, n)
      PROVE  Reference!Next
  <2>1. Reference!Usage(k) = Usage(k)
    BY DEF Reference!Usage, Usage, Since, Reference!Since
  <2>2. CASE Admit(k, n) /\ MaySolo(k, Usage(k), now, n)
    <3>1. Reference!Admit(k, n)
      BY <2>2 DEF Admit, Reference!Admit
    <3>2. Reference!Allow(k, n)
      BY <2>1, <2>2, <3>1 DEF Reference!Allow
    <3>3. QED
      BY <3>2 DEF Reference!Next
  <2>3. CASE Refuse(k, n) /\ ~ MustSolo(k, Usage(k), now, n)
    <3>1. Reference!Refuse(k, n)
      BY <2>3 DEF Refuse, Reference!Refuse
    <3>2. Reference!Allow(k, n)
      BY <2>1, <2>3, <3>1 DEF Reference!Allow
    <3>3. QED
      BY <3>2 DEF Reference!Next
  <2>4. QED
    BY <1>4, <2>2, <2>3
<1>5. ASSUME NEW k \in Keys, Allow(k)
      PROVE  Reference!Next
  <2>1. CASE k \in SharedKeys
    <3>1. PICK n \in Costs : Admit(k, n) \/ Refuse(k, n)
      BY <1>5, AllowAnswers
    <3>2. MaySolo(k, Usage(k), now, n) /\ ~ MustSolo(k, Usage(k), now, n)
      BY <2>1 DEF MaySolo, MustSolo
    <3>3. QED
      BY <1>4, <3>1, <3>2
  <2>2. CASE k \notin SharedKeys
    <3>1. PICK n \in Costs : \E d : Answered(k, n, d)
      BY <1>5, <2>2, SoloAnswers
    <3>2. PICK d : Answered(k, n, d)
      BY <3>1
    <3>3. /\ d.allowed => Admit(k, n) /\ May(k, Usage(k), now, n)
          /\ ~ d.allowed => Refuse(k, n) /\ ~ Must(k, Usage(k), now, n)
      BY <3>2 DEF Answered, Enter
    <3>4. \/ Admit(k, n) /\ MaySolo(k, Usage(k), now, n)
          \/ Refuse(k, n) /\ ~ MustSolo(k, Usage(k), now, n)
      BY <3>3 DEF MaySolo, MustSolo
    <3>5. QED
      BY <1>4, <3>4
  <2>3. QED
    BY <2>1, <2>2
<1>6. CASE \/ ScanPage \/ ScanEnds \/ ScanFails \/ DelFails \/ \E k \in Keys : BeginReset(k)
  <2>1. UNCHANGED ledger
    BY <1>6, ScanTyped
  <2>2. QED
    BY <1>1, <2>1
<1>7. CASE UNCHANGED vars
  <2>1. UNCHANGED ledger
    BY <1>7 DEF vars
  <2>2. QED
    BY <1>1, <2>1
<1>8. QED
  BY <1>2, <1>3, <1>5, <1>6, <1>7 DEF Next, Resetting

\* For every client that is alone on its key the Redis store implements the
\* reference limiter, with the policies of the in-memory store
\* (redis.go:44-231, 290-315): no expiry, no call that is taken back, no trimmed log
\* and no Reset leaves a trace in a later answer.  This needs keys that live long
\* enough: a bucket until it would be full, a log for its window.
THEOREM RedisImplementation ==
  ASSUME FullBeforeExpiry, WindowWithinTTL
  PROVE  Spec => ImplementsReference
<1> DEFINE IInv == StoreOK /\ LogsInv /\ ScanInv /\ ExactInv
<1>1. Init => IInv
  BY StoreOKInit, LogsInit, ExactInit
<1>2. IInv /\ [Next]_vars => IInv'
  BY StoreOKStep, LogsStep, ScanInvStep, ExactStep
<1>3. IInv /\ [Next]_vars => [Reference!Next]_(Reference!ledger)
  BY ReferenceStep
<1>4. Init => Reference!LedgerInit
  BY ReferenceInit
<1> HIDE DEF IInv
<1>5. QED
  BY <1>1, <1>2, <1>3, <1>4, PTL DEF Spec, ImplementsReference, Reference!Spec

\* The same of the store together with Get, Set and Increment (redis.go:244-287).
THEOREM LegacyImplementation ==
  ASSUME FullBeforeExpiry, WindowWithinTTL
  PROVE  LegacySpec => ImplementsReference
BY RedisImplementation, LegacyUsesStore, PTL

==============================================================================
