----------------------------- MODULE RedisStore -----------------------------
(***************************************************************************)
(* The Redis store of store/redis.go.  An Allow operation samples the      *)
(* client's clock and sends a Lua script, which Redis runs atomically, at  *)
(* some later time, with the value that was sampled; Redis itself expires  *)
(* keys by its own clock.  Reset is a loop of SCAN calls and a DEL, and    *)
(* scripts run in between.  One tick is one millisecond.                   *)
(*                                                                         *)
(* Calls wait for their reply and keep nothing else, so there is no        *)
(* variable for them: a script may run at any time with any clock value    *)
(* that a call could have brought.  That covers calls that are delayed,    *)
(* overtake each other, are sent twice or lose their reply.                *)
(***************************************************************************)
EXTENDS Policies, FiniteSets

CONSTANTS
  TTL,         \* the ttl of token buckets and logs
  SharedKeys,  \* the keys used by any number of clients
  Drift,       \* bound: how much the clock values that scripts of a shared key
               \*   bring at one time differ, by clocks and by delays
  NoKey,       \* what Redis holds under an absent key
  NoScan       \* no Reset is running

ASSUME RedisAssumption ==
  /\ TTL \in Nat \ {0}
  /\ SharedKeys \subseteq Keys
  /\ Drift \in Nat
  /\ Milli = 1

VARIABLES
  bucket,      \* the hash at fullKey
  counter,     \* the counters at fullKey:fw:w or fullKey:swc:w, by window w
  log,         \* the sorted set at fullKey:swl
  seq,         \* the number at fullKey:swl:seq
  scan,        \* the Reset that is running
  windowUse    \* units admitted for a key by calls with a clock in a window

db == <<bucket, counter, log, seq>>
vars == <<ledger, db, scan, windowUse>>

\* The other keys have one client, which makes one call after the other over a
\* connection that does not fail, with the clock of "now".
DriftOf(k) == IF k \in SharedKeys THEN Drift ELSE 0

WindowNums == 0..WindowNum(MaxTime + Drift)

\* The names that SCAN may find for a key.
Kinds == {"bucket", "counter", "log", "seq"}
Names(k) ==
  {<<"bucket", 0>> : b \in {bucket[k]} \ {NoKey}}
  \cup {<<"log", 0>> : l \in {log[k]} \ {NoKey}}
  \cup {<<"seq", 0>> : s \in {seq[k]} \ {NoKey}}
  \cup {<<"counter", w>> : w \in {v \in WindowNums : counter[k][v] # NoKey}}

Never == -1
Expiry == Nat \cup {Never}

Bucket  == [tokens : 0..Full, lastUpdate : Nat, expiresAt : Expiry]
Counter == [value : 0..Limit, expiresAt : Expiry]
Member  == [score : Nat, i : Nat, seq : Nat]
Log     == [members : SUBSET Member, expiresAt : Expiry]
Serial  == [value : Nat, expiresAt : Expiry]
Scan    == [key : Keys, phase : {"scan", "del"},
            must : SUBSET (Kinds \X WindowNums), found : SUBSET (Kinds \X WindowNums)]

ASSUME NothingAssumption ==
  /\ NoKey \notin Bucket /\ NoKey \notin Counter /\ NoKey \notin Log /\ NoKey \notin Serial
  /\ NoScan \notin Scan

TypeOK ==
  /\ LedgerTypeOK
  /\ bucket \in [Keys -> Bucket \cup {NoKey}]
  /\ counter \in [Keys -> [WindowNums -> Counter \cup {NoKey}]]
  /\ log \in [Keys -> Log \cup {NoKey}]
  /\ \A k \in Keys : log[k] # NoKey =>
       log[k].members # {} /\ Cardinality(log[k].members) <= Limit
  /\ seq \in [Keys -> Serial \cup {NoKey}]
  /\ scan \in Scan \cup {NoScan}
  /\ windowUse \in [Keys -> [WindowNums -> Nat]]

Init ==
  /\ LedgerInit
  /\ bucket = [k \in Keys |-> NoKey]
  /\ counter = [k \in Keys |-> [w \in WindowNums |-> NoKey]]
  /\ log = [k \in Keys |-> NoKey]
  /\ seq = [k \in Keys |-> NoKey]
  /\ scan = NoScan
  /\ windowUse = [k \in Keys |-> [w \in WindowNums |-> 0]]

-----------------------------------------------------------------------------
(* Redis *)

\* What Redis holds at time t of what was stored under a key.
Alive(e, t) == IF e # NoKey /\ e.expiresAt # Never /\ t > e.expiresAt THEN NoKey ELSE e

\* A counter as INCRBY sees it.
Value(e) == IF e = NoKey THEN 0 ELSE e.value

\* A sorted set that has lost its last member is gone.
SortedSet(members, expiresAt) ==
  IF members = {} THEN NoKey ELSE [members |-> members, expiresAt |-> expiresAt]

Members(l) == IF l = NoKey THEN {} ELSE l.members

\* The score of rank r, from 1, among some members.
Score(members, r) ==
  CHOOSE x \in {m.score : m \in members} :
    /\ Cardinality({m \in members : m.score < x}) < r
    /\ Cardinality({m \in members : m.score <= x}) >= r

-----------------------------------------------------------------------------
(* The scripts: what they make of the keys at server time t, called with the *)
(* clock value "at" for n units.                                             *)

MutRefilled(b, at) ==
  IF b = NoKey THEN [tokens |-> Full, lastUpdate |-> at]
  ELSE [tokens |-> IF at > b.lastUpdate
                     THEN Least(b.tokens + Rate * (at - b.lastUpdate), Full)
                     ELSE b.tokens,
        lastUpdate |-> at]

\* The bucket is refilled only if the clock value is later than the last one.
Refilled(b, at) ==
  CASE b = NoKey -> [tokens |-> Full, lastUpdate |-> at]
    [] b # NoKey /\ at > b.lastUpdate ->
         [tokens |-> Least(b.tokens + Rate * (at - b.lastUpdate), Full), lastUpdate |-> at]
    [] OTHER -> [tokens |-> b.tokens, lastUpdate |-> b.lastUpdate]

CeilDiv(a, b) == (a + b - 1) \div b

MutTokenBucketScript(b, at, t, n) ==
  LET r == Refilled(b, at)
      allowed == r.tokens >= n * Scale
      tokens == IF allowed THEN r.tokens - n * Scale ELSE r.tokens
  IN  [allowed    |-> allowed,
       bucket     |-> [tokens |-> tokens, lastUpdate |-> r.lastUpdate, expiresAt |-> t + TTL],
       retryAfter |-> IF allowed THEN 0 ELSE (n * Scale - tokens) \div Rate]

TokenBucketScript(b, at, t, n) ==
  LET r == Refilled(b, at)
      allowed == r.tokens >= n * Scale
      tokens == IF allowed THEN r.tokens - n * Scale ELSE r.tokens
  IN  [allowed    |-> allowed,
       bucket     |-> [tokens |-> tokens, lastUpdate |-> r.lastUpdate, expiresAt |-> t + TTL],
       retryAfter |-> IF allowed THEN 0 ELSE CeilDiv(n * Scale - tokens, Rate)]

MutOneWindow(c, t, n) ==
  [value |-> Value(c) + n,
   expiresAt |-> IF Value(c) + n = n THEN t + Window ELSE c.expiresAt]

MutFirstUnit(c, t, n) ==
  [value |-> Value(c) + n,
   expiresAt |-> CASE Value(c) + n = 1 -> t + 2 * Window
                   [] Value(c) + n # 1 /\ c = NoKey -> Never
                   [] OTHER -> c.expiresAt]

\* INCRBY, and PEXPIRE if that was the first.
AfterIncrby(c, t, n) ==
  [value |-> Value(c) + n,
   expiresAt |-> IF Value(c) + n = n THEN t + 2 * Window ELSE c.expiresAt]

MutFixedWindowScript(c, at, t, n) ==
  LET counted == AfterIncrby(c, t, n)
      allowed == counted.value <= Limit
  IN  [allowed    |-> allowed,
       counter    |-> counted,
       retryAfter |-> IF allowed THEN 0 ELSE WindowEnd(at) - at]

\* A call beyond the limit is taken back by DECRBY.
FixedWindowScript(c, at, t, n) ==
  LET counted == AfterIncrby(c, t, n)
      allowed == counted.value <= Limit
  IN  [allowed    |-> allowed,
       counter    |-> IF allowed THEN counted ELSE [counted EXCEPT !.value = @ - n],
       retryAfter |-> IF allowed THEN 0 ELSE WindowEnd(at) - at]

\* p is the previous window's counter.
SlidingCounterScript(p, c, at, t, n, slip) ==
  LET estimate == (Value(p) * Left(at)) \div SpanMs - slip + Value(c)
      allowed == estimate + n <= Limit
  IN  [allowed    |-> allowed,
       counter    |-> IF allowed THEN AfterIncrby(c, t, n) ELSE c,
       retryAfter |-> IF allowed THEN 0 ELSE WindowEnd(at) - at]

MutEntries(s, at, n) == {[score |-> at, i |-> i, seq |-> 0] : i \in 1..n}

\* What the loop adds to the set; INCR makes each member different from all others.
Entries(s, at, n) == {[score |-> at, i |-> i, seq |-> Value(s) + i] : i \in 1..n}

SlidingLogScript(l, s, at, t, n) ==
  LET kept == {m \in Members(l) : m.score > at - Window}
      allowed == Cardinality(kept) + n <= Limit
      needed == Cardinality(kept) + n - Limit
  IN  [allowed    |-> allowed,
       log        |-> IF allowed
                        THEN SortedSet(kept \cup Entries(s, at, n), t + TTL)
                        ELSE SortedSet(kept, l.expiresAt),
       seq        |-> IF allowed /\ (s # NoKey \/ n > 0)
                        THEN [value |-> Value(s) + n, expiresAt |-> t + TTL]
                        ELSE s,
       retryAfter |-> CASE allowed -> 0
                        [] ~ allowed /\ needed <= Cardinality(kept) ->
                             Score(kept, needed) + Window - at
                        [] OTHER -> Window]

-----------------------------------------------------------------------------
(* The Allow operations *)

\* Names seen at the start of the running Reset and not deleted since; the step
\* has to determine db'.
KeepScan ==
  \/ scan = NoScan /\ scan' = NoScan
  \/ \E k \in Keys :
       /\ scan # NoScan /\ scan.key = k
       /\ scan' = [scan EXCEPT !.must = @ \cap Names(k)']

\* The script's decision goes into the ledger.
Enter(k, n, at, d) ==
  /\ IF d.allowed THEN Admit(k, n) ELSE Refuse(k, n)
  /\ windowUse' = IF d.allowed /\ k \in WindowKeys \cup CounterKeys
                    THEN [windowUse EXCEPT ![k][WindowNum(at)] = @ + n]
                    ELSE windowUse
  /\ KeepScan

AllowTokenBucket(k, n, at) ==
  LET d == TokenBucketScript(bucket[k], at, now, n)
  IN  /\ bucket' = [bucket EXCEPT ![k] = d.bucket]
      /\ UNCHANGED <<counter, log, seq>>
      /\ Enter(k, n, at, d)

AllowFixedWindow(k, n, at) ==
  LET w == WindowNum(at)
      d == FixedWindowScript(counter[k][w], at, now, n)
  IN  /\ counter' = [counter EXCEPT ![k][w] = d.counter]
      /\ UNCHANGED <<bucket, log, seq>>
      /\ Enter(k, n, at, d)

AllowSlidingWindowCounter(k, n, at) ==
  LET w == WindowNum(at)
      p == IF w = 0 THEN NoKey ELSE counter[k][w - 1]
  IN  \E slip \in Slips(Value(p), at) :
        LET d == SlidingCounterScript(p, counter[k][w], at, now, n, slip)
        IN  /\ counter' = [counter EXCEPT ![k][w] = d.counter]
            /\ UNCHANGED <<bucket, log, seq>>
            /\ Enter(k, n, at, d)

AllowSlidingWindowLog(k, n, at) ==
  LET d == SlidingLogScript(log[k], seq[k], at, now, n)
  IN  /\ log' = [log EXCEPT ![k] = d.log]
      /\ seq' = [seq EXCEPT ![k] = d.seq]
      /\ UNCHANGED <<bucket, counter>>
      /\ Enter(k, n, at, d)

\* A script runs for key k.
Allow(k) ==
  /\ k \notin SharedKeys => scan = NoScan
  /\ \E n \in Costs, at \in now..(now + DriftOf(k)) :
       \/ k \in BucketKeys  /\ AllowTokenBucket(k, n, at)
       \/ k \in WindowKeys  /\ AllowFixedWindow(k, n, at)
       \/ k \in CounterKeys /\ AllowSlidingWindowCounter(k, n, at)
       \/ k \in LogKeys     /\ AllowSlidingWindowLog(k, n, at)

-----------------------------------------------------------------------------
(* Time, and Reset *)

Tick ==
  /\ AdvanceClock
  /\ bucket' = [k \in Keys |-> Alive(bucket[k], now + 1)]
  /\ counter' = [k \in Keys |-> [w \in WindowNums |-> Alive(counter[k][w], now + 1)]]
  /\ log' = [k \in Keys |-> Alive(log[k], now + 1)]
  /\ seq' = [k \in Keys |-> Alive(seq[k], now + 1)]
  /\ KeepScan
  /\ UNCHANGED windowUse

\* fullKey, which is the bucket's name, is deleted whether found or not.
BeginReset(k) ==
  /\ scan = NoScan
  /\ scan' = [key |-> k, phase |-> "scan", must |-> Names(k), found |-> {<<"bucket", 0>>}]
  /\ UNCHANGED <<ledger, db, windowUse>>

\* A call of SCAN returns any of the names; all calls together return at least
\* those that were there throughout.
ScanPage ==
  /\ scan # NoScan /\ scan.phase = "scan"
  /\ \E page \in SUBSET (Names(scan.key) \ scan.found) :
       /\ page # {}
       /\ scan' = [scan EXCEPT !.found = @ \cup page]
  /\ UNCHANGED <<ledger, db, windowUse>>

ScanEnds ==
  /\ scan # NoScan /\ scan.phase = "scan"
  /\ scan.must \subseteq scan.found
  /\ scan' = [scan EXCEPT !.phase = "del"]
  /\ UNCHANGED <<ledger, db, windowUse>>

\* An error ends the loop, and the names found so far are deleted all the same.
ScanFails ==
  /\ scan # NoScan /\ scan.phase = "scan"
  /\ scan.key \in SharedKeys
  /\ scan' = [scan EXCEPT !.phase = "del"]
  /\ UNCHANGED <<ledger, db, windowUse>>

MutDel ==
  /\ scan # NoScan /\ scan.phase = "del"
  /\ \E k \in {scan.key} :
       /\ Forget(k)
       /\ bucket' = [bucket EXCEPT ![k] = NoKey]
       /\ windowUse' = [windowUse EXCEPT ![k] = [w \in WindowNums |-> 0]]
  /\ UNCHANGED <<counter, log, seq>>
  /\ scan' = NoScan

\* DEL succeeds, and Reset returns without an error.
Del ==
  /\ scan # NoScan /\ scan.phase = "del"
  /\ \E k \in {scan.key} :
       /\ Forget(k)
       /\ bucket' = [bucket EXCEPT ![k] = NoKey]
       /\ counter' = [counter EXCEPT ![k] = [w \in WindowNums |->
                        IF <<"counter", w>> \in scan.found THEN NoKey ELSE @[w]]]
       /\ log' = [log EXCEPT ![k] = IF <<"log", 0>> \in scan.found THEN NoKey ELSE @]
       /\ seq' = [seq EXCEPT ![k] = IF <<"seq", 0>> \in scan.found THEN NoKey ELSE @]
       /\ windowUse' = [windowUse EXCEPT ![k] = [w \in WindowNums |-> 0]]
  /\ scan' = NoScan

\* DEL does not reach Redis, and Reset returns the error.
DelFails ==
  /\ scan # NoScan /\ scan.phase = "del"
  /\ scan.key \in SharedKeys
  /\ scan' = NoScan
  /\ UNCHANGED <<ledger, db, windowUse>>

Resetting == ScanPage \/ ScanEnds \/ ScanFails \/ Del \/ DelFails

Next == Tick \/ Resetting \/ \E k \in Keys : Allow(k) \/ BeginReset(k)

Spec == Init /\ [][Next]_vars

-----------------------------------------------------------------------------

\* Whatever the clocks of the clients and the order of their scripts, in no
\* span of time is more admitted for a key than its capacity and the tokens of
\* the span and of the drift (redis.go:56-74): a slow clock after a fast one
\* neither refills the bucket again nor sets it back.
RateBound ==
  \A k \in BucketKeys : \A s \in 0..now :
    Since(k, s) * Scale <= Full + Rate * (now - s + DriftOf(k))

\* No window of the clients' clocks admits more than the limit
\* (redis.go:109-120, 156-161): the counter lives for every late script of its
\* window, and of two scripts only one gets the last unit.
WindowLimit ==
  \A k \in WindowKeys \cup CounterKeys : \A w \in WindowNums : windowUse[k][w] <= Limit

\* No span shorter than the window by the drift admits more than the limit
\* (redis.go:187-203): a fast clock removes what slower ones still count, but
\* nothing younger, and no two members of the set are one.
StrictLimit ==
  \A k \in LogKeys : \A s \in 0..now :
    now - s + DriftOf(k) < Window => Since(k, s) <= Limit

\* RetryAfter is exact for a client that is alone (redis.go:82-86, 169-173,
\* 208-220), whatever expires while it waits: it is refused again at any
\* earlier time and admitted when it has passed.
RetryExact ==
  \A k \in Keys \ SharedKeys : \A n \in Costs :
    /\ k \in BucketKeys /\ n <= Capacity =>
         LET d == TokenBucketScript(bucket[k], now, now, n)
             Retry(w) == TokenBucketScript(Alive(d.bucket, now + w), now + w, now + w, n).allowed
         IN  ~ d.allowed =>
               Retry(d.retryAfter) /\ \A w \in 0..(d.retryAfter - 1) : ~ Retry(w)
    /\ k \in LogKeys /\ n <= Limit =>
         LET d == SlidingLogScript(log[k], seq[k], now, now, n)
             Retry(w) == SlidingLogScript(Alive(d.log, now + w), Alive(d.seq, now + w),
                                          now + w, now + w, n).allowed
         IN  ~ d.allowed =>
               Retry(d.retryAfter) /\ \A w \in 0..(d.retryAfter - 1) : ~ Retry(w)

\* redis.go:289 says that Reset removes all state for a key: when it returns
\* without an error, nothing is left that was there when it began
\* (redis.go:299-312).
ResetClears ==
  [][\A k \in Keys : Del /\ scan.key = k => scan.must \cap Names(k)' = {}]_vars

\* The policies, for the keys with one client.
MaySolo(k, u, at, n)  == k \in SharedKeys \/ May(k, u, at, n)
MustSolo(k, u, at, n) == k \notin SharedKeys /\ Must(k, u, at, n)

Reference == INSTANCE ReferenceLimiter WITH May <- MaySolo, Must <- MustSolo

\* For a client that is alone, the Redis store implements the reference limiter
\* (redis.go:44-231, 290-315), with the policies of the in-memory store: a key
\* that expires, a call that is taken back, a trimmed log and a Reset leave no
\* trace in any later answer.
ImplementsReference == Reference!Spec

=============================================================================
