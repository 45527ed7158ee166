# Verification of RateShield

RateShield is a rate limiting library for Go: four algorithms, an in-memory and a
Redis store, a fallback between the two behind a circuit breaker, and HTTP
middleware. This directory holds TLA+ models of its code, TLC runs, and proofs
checked by TLAPS. Paths such as `memory.go:168` are relative to `src/`, with
`store/`, `internal/circuit/` and `middleware/` left out.

To check: `tlc -workers 2 -config X.cfg M` for the runs of `PROJECT.json`,
`tlapm M.tla` for a module whose name ends in `Proofs`.

## 1. Inventory

| Component | Code | State | Operations | Model |
|---|---|---|---|---|
| Circuit breaker | `internal/circuit/circuit.go` | state, two counters, deadline (atomics); a mutex | Allow, ReportSuccess, ReportFailure, trip, Reset | `Breaker`, complete |
| In-memory store | `store/memory.go` | 64 shards: a lock and a map of entries with an expiry each; a channel that Close closes | Reset, cleanup goroutine, Get, Set, Increment, Close | `MemoryStore`, `Lifecycle`, complete |
| Token bucket | `memory.go:158-211` | tokens, time of last refill | AllowTokenBucket | `TokenBucket` |
| Fixed window | `memory.go:215-286` | window number, count | AllowFixedWindow | `FixedWindow` |
| Sliding window counter | `memory.go:290-364` | window number, this and the previous count | AllowSlidingWindowCounter | `SlidingCounter` |
| Sliding window log | `memory.go:368-445` | times of the admitted units | AllowSlidingWindowLog | `SlidingLog` |
| Fallback store | `store/fallback.go` | two stores, a breaker | the four Allow operations, Reset, Close | `Fallback`, without Close |
| Redis store | `store/redis.go` | Redis keys with TTLs | a Lua script per algorithm, Reset by SCAN and DEL, Get, Set, Increment, Close | `RedisStore`, `RedisLegacy`, without Close |
| Limiters, options | `limiters.go`, `limiter.go`, `options.go` | configuration | constructors, New, Allow, AllowN, Reset | `Limiters`, `Configuration`; Close is that of the store, in `Lifecycle` |
| Middleware | `middleware/` | none but that of each request | skip, extract key, ask limiter, let through or refuse | `Middleware` |
| Key extractors, interfaces, aliases, examples | `keys.go`, `store/store.go`, `algorithms/`, `examples/` | none | stateless | not modelled |

How they interact. A request goes through a middleware adapter, which extracts a
key and calls a limiter; the limiter passes its parameters to a store. A
`MemoryStore` operation is a critical section of the key's shard; a Redis
operation is one script on the server, which is given the clock of the client. The
fallback store asks its breaker first; when admitted it calls the primary store,
reports how the call ended, and on failure, or when not admitted, calls the
secondary. The breaker's fields are shared by all requests, and are read without
its mutex.

What is hard, and what correctness means:

* **Breaker.** Its state, counters and deadline are separate atomics, written in
  several steps under the mutex and read without it. Correct means: no trip and
  no close is lost, the state follows its diagram, nobody shortens a cooldown,
  an open breaker has the deadline of a trip, and once the primary works again
  the breaker closes for good.
* **In-memory store.** Entries are refilled, moved to the current window, trimmed
  or replaced when they are used, and removed by a goroutine that works with an
  old clock value. Correct means that none of this shows: a call is answered as
  by the policy that knows the key's whole history. It also means that a policy
  keeps what its algorithm promises, and that RetryAfter is right. Who uses Get, Set and Increment
  must see a value up to its deadline and not after it, the cleanup has to remove what has
  expired, and after Close its goroutine has to end.
* **Redis store.** Scripts of several clients run in another order than their
  clock values; replies are lost and calls repeated; keys expire by the server's
  clock; Reset is not atomic. Correct means that a client which is alone sees
  the policy, that with several the limits are exceeded by no more than the clocks
  differ, that nothing stays in Redis for ever, and that a Reset leaves nothing. Increment is two
  commands, of which the second can be lost and takes whole seconds.
* **Fallback store.** Two stores count separately; a request can be counted by
  both; either can fail, in a call or in Reset. Correct means that the secondary is used only when
  the primary has failed, and in the end no more, that every request returns, be it with the secondary's error, and that
  what Reset says is true: both stores are cleared if it returns no error, and a store that fails does not keep
  the other from being cleared. Without a primary, every request is one for
  the secondary.
* **Limiters.** Options in any order and number, some of them out of range, have to yield a
  limiter that asks the right store for the right algorithm with the right parameters, or an error.
* **Middleware.** Each adapter has to let through or refuse as the fail strategy
  says, in every outcome of the limiter; gin's chain goes on by itself; the headers
  are computed with a later clock than the decision.

`PROJECT.json` lists the places in the code where these things bite, as
"hazards", with the properties that watch them.

## 2. Modules

```
Breaker <- MCBreaker
        <- Fallback <- BreakerProofs

Ledger <- ReferenceLimiter
       <- MemoryStore <- Lifecycle
       <- Windows <- Policies <- RedisStore <- RedisLegacy <- MCRedis
                              <- PolicyProofs

MemoryStore, Policies <- TokenBucket, SlidingCounter, SlidingLog
                      <- FixedWindow <- Middleware <- MCMiddleware
TokenBucket, FixedWindow, SlidingCounter, SlidingLog <- MemoryLimiters
MemoryLimiters <- MCMemory, SharedKey
MemoryLimiters, PolicyProofs <- MemoryProofs <- SlidingProofs
Middleware, MemoryProofs <- MiddlewareProofs
RedisLegacy, PolicyProofs <- RedisProofs <- RedisReferenceProofs
Limiters <- MCMemory
         <- Configuration
Lifecycle, Configuration <- MCLifecycle, LifecycleProofs
```

(`A <- B`: B extends A. `ReferenceLimiter` is instantiated by `MemoryLimiters` and
`RedisStore`, which implement it, and `Register` by `Lifecycle` and `RedisLegacy`.)

### The breaker

`Breaker` has one action per atomic operation of the code (`circuit.go:69-159`).
`pc[c]` is the next operation of caller `c`, `t[c]` the clock value it sampled
last. A caller that is "idle" may start Allow or Reset; "call" is the call of the
primary store, which may succeed or fail; "succ" and "fail" are the start of
ReportSuccess and ReportFailure. This is the protocol of the Allow operations of
`fallback.go:84-146`. Taking the mutex is one step with the load or clock
sample that follows it, and releasing it one with the store before it. That
hides no interleaving: between the two, nobody else can see a difference.

### The in-memory store

`Ledger` is what any limiter is judged by: the clock, how much it has admitted for each
key and when, and the last answer. No code corresponds to it except the
clock; no limiter reads it. `ReferenceLimiter` is the abstract specification: a
limiter whose answer depends on nothing but the ledger, through two operators:
`Must`, when a call has to be admitted, and `May`, when it can be.

`MemoryStore` has the entries (`memEntry`), `Reset`, and the cleanup
(`BeginSweep` samples the clock, `SweepShard` visits one shard). One module per
algorithm has the operation on one entry as an operator, `Decide...`, that
yields the new entry, whether the call is admitted, and RetryAfter; the action is
`Answer`, which stores the entry and enters the outcome in the ledger. The
operation holds the shard's lock from its clock sample to its last write, so it
is one action. The policies (`FitsEnvelope`, `FitsFixedWindow`,
`MustFitEstimate` and `MayFitEstimate`, `FitsSlidingWindow`) are stated in `Policies`, over the
ledger alone: without entries, windows that move, or expiry, and the same for both stores.

`MemoryLimiters` puts limiters of all kinds, each with keys of its own, on one store and
states that the result implements `ReferenceLimiter`. `SharedKey` has limiters of all kinds that
are given one store and ask it about one key: the store has one entry, each limiter a ledger of
its own.

`Lifecycle` is the store as somebody has it who uses it directly (`memory.go:67-156`): `Get`, `Set` and
`Increment`, each a critical section; `TryClose` and `CloseChannel`, the two steps of Close by
any number of callers; and the loop of the cleanup goroutine around the sweeps of `MemoryStore`,
which `Stop` leaves. `Register` is what it is to implement: under each key a value until its
deadline and nothing from then on, without expired entries and without a cleanup.

### Limiters and options

`Limiters` has the code that keeps no state as operators: the constructors with their validation and
defaults (`limiters.go`), the options and the limiter that `New` makes of them (`options.go:148-185`), and for
each limiter what it asks its store for: operation, key, parameters, time to live. `MCMemory` takes the time to
live of a limiter made by `New` from it, for the run `sliding_log_ttl`.

`Configuration` is a call of `New`: `AddOption` is its caller, who collects options in any order (`given`);
`CallNew` starts from the defaults, each `Apply` is one turn of the loop over the options (`options.go:137`),
which works on `o` and has come to `applied`, and `Return` makes the limiter or the error. `AsksAsConfigured`
compares what the limiter then asks for with the table of options in the repository's README,
where for each field the option that was given last counts. Its rows `WithFailStrategy` and `WithKeyExtractor` are not
compared: `New` ignores these two fields, and no limiter has them (section 5).

### The Redis store

`RedisStore` has a script per algorithm as an operator on what Redis holds (`TokenBucketScript`,
`FixedWindowScript`, ...), and an action per Allow operation that runs it. A call
keeps nothing between its clock sample and its script, so the action takes *any* clock
value from `now` to `now + Drift`. `now` is the oldest value that can arrive; the server's
clock matters only by how far it advances, since expiries are relative. That covers
delayed calls, calls that overtake each other, calls repeated after their reply was
lost, and clocks that differ. Keys in `SharedKeys` are used like that; the others have a
single client without delays, and for them the store implements `ReferenceLimiter`.
Expiry is part of `Tick`: Redis removes what has expired. INCRBY followed by DECRBY of a refused call is inside one
script. `scan` is a running Reset: `ScanPage` is one SCAN reply (any new names that
exist, duplicates allowed by having no effect), `ScanEnds` the cursor 0, `ScanFails` the error that only
ends the loop (line 302), then `Del` or `DelFails`. Names that exist throughout must be found before
the cursor is 0 (`must`), which is what Redis guarantees of SCAN; names that come or go meanwhile may
be missed. One tick is a millisecond, the unit of the scripts. `windowUse` is history: what was
admitted by clock values of each window.

`RedisLegacy` adds Get, Set and Increment (`redis.go:244-287`), for keys that no limiter uses. Increment is a pipeline,
which is no transaction: `Incr` and `Expire` are steps of their own, between them commands of
other clients run, and `LoseExpire` is the connection that breaks there (`unsafe` remembers it, as
history). For a client that is alone the two commands arrive together: no tick falls between them, and
it waits for its pipeline and its Reset (`Alone`). For such clients, of which alone results are recorded, the store implements `Register`
too; unlike the in-memory store, Increment renews the deadline (`Renews`), and the new one is not `TTL` away:
go-redis sends EXPIRE in whole seconds, dropping the rest, and a second for anything shorter (`WholeSeconds`, `CountTTL`),
where SET and the PEXPIRE of the scripts have milliseconds.

### The fallback store

`Fallback` extends `Breaker`: a request begins with the breaker's Allow, `PrimaryAnswers` and
`PrimaryFails` are the call of the primary store (which, failing, may have reached the store or not),
and `AskSecondary` comes when the breaker has not admitted the request or has been told of
the failure. What the secondary returns is returned, an answer or its error; with an error the call may have had its
effect or not. (A request whose context has expired gets an answer from neither: `memory.go:159`.) The breaker is present with every atomic operation. What a store decides does not
matter here, so a store is the set of ages ("old": from before the latest Reset) of its
entries. `ResetPrimary` and `ResetSecondary` are the two halves of Reset (`fallback.go:69-82`),
either of which can fail, with or without effect; a Reset that has returned is "nil", or named for the store that
failed, or "both". Its caller sees one error, the primary's if there are two.
`hasPrimary` is false for a store made without a primary, which asks only the secondary.

### The middleware

`Middleware` has concurrent requests in front of the fixed window of `FixedWindow`, in one
adapter and with one fail strategy per behaviour. A request's `pc` follows the lines of the
adapters: `Arrive` (skip and key), `LimiterAllow` or `AllowFails`, `FailStrategy`, `SetHeaders`,
`ErrorHandler`, `ServeHTTP`, and `Return`, where gin's engine goes on with the next handler unless the
chain was aborted. The clock can advance between any two. The adapters share everything but
that and the Retry-After header, which only the default handler of stdlib and the Fiber adapter
set. The in-memory store fails only for a cancelled context, before it changes anything.

### Abstractions

* Time is a whole number of ticks and does not go back. The breaker's clock
  stops when no deadline lies ahead, since nobody could then tell.
* Tokens are counted in units small enough to be whole (`Scale` per token,
  `Rate` per tick). The code uses float64: its rounding is not modelled for the
  token bucket. For the sliding counter it is, because it is cut to a whole
  number there: a product that should be whole can be cut to one less (`Slips`;
  for instance a previous count of 165 at 8 ms of 10).
* int64 counts wrap around at `IntMax` (`Plus`). The runs and theorems use limits
  for which that does not happen, and say so (`SmallCounts`).
* ResetAt is left out, but in `Middleware`. `remaining` is kept where the decision computes it
  but no property is about it. A cancelled context returns before anything
  changes, which is no step of the model.
* In Redis the keys of one limiter key never extend another's: the pattern of Reset,
  `fullKey:*`, would also match a limiter key that is this one with a colon and
  more after it. Windows are at least one millisecond; the scripts divide by zero below.
* The middle of a map lookup, the hash of `getShard` (a constant function
  `ShardOf`) and the capacity hints of slices are left out.

## 3. Runs

| Run | Shows | Instance | States |
|---|---|---|---|
| `breaker` | TypeOK, NoLostTrip, NoLostClose, OpenHasDeadline, FollowsDiagram, CooldownNeverShortened | 3 callers, thresholds 2, cooldown 1, 4 failures, 1 Reset | 880 000 |
| `breaker_live` | Recovery, EveryCallReturns | 2 callers, cooldown 2, 3 failures, 1 Reset | 63 000 |
| `memory` | TypeOK, RateBound, BucketRetryTight, TwiceLimit, WindowRetryExact, SmoothBoundary, StrictLimit, LogRetryExact, ImplementsReference | a key of each kind, times 0..8, costs 1 and 2 | 329 000 |
| `lifecycle` | LTypeOK, PanicNeedsOverlap, AsksAsConfigured, ImplementsRegister, ExpiredRemoved, CleanupStops | a key in the first shard or the last, times 0..4, 2 callers of Close; or New with up to 3 of 22 options: each algorithm and one that is none, a store and none, and -1, 0 and 7 for each number | 116 000 |
| `redis` | LegacyTypeOK, RateBound, WindowLimit, StrictLimit, RetryExact, EveryKeyExpires, ImplementsReference, LegacyImplementsRegister | a key of each kind with one client (times 0..7, costs 1 and 2), four shared keys (times 0..5, drift 2, one Reset, two pipelines at a time), seconds of 3 | 224 000 |
| `fallback` | FallbackTypeOK, DivertsOnlyAfterThreshold, ResetClearsBoth, ReturnsToPrimary, EveryRequestReturns | 2 callers, thresholds 2 and 1, cooldown 1, 2 failures, any number of Resets of the stores, each call of either store failing or not in Reset | 86 000 |
| `middleware` | MTypeOK, HandledAsDecided, ServedWithinLimit, WaitSuffices | 2 requests at a time, 5 adapters, 2 strategies, times 0..6, windows of 3 ticks, seconds of 2 | 850 000 |
| `breaker_early_probe`, `sliding_counter_retry`, `sliding_log_ttl`, `shared_key`, `redis_reset` | one violation each, section 5 | | |

Why these bounds are enough. *breaker*: two callers race for the mutex while a third
acts on what it read before; four failures trip a breaker with threshold 2 twice, the second trip
while a reader of the first is still on its way; a Reset can fall in between.
*memory*: a window of five ticks, with two to the millisecond, is counted as one of four, and
nine times span two of those and the beginning of a third; the bucket (2 tokens, 2/3 of a token per tick) empties, is refilled in
part and in full, and its entry, with a TTL of 4, expires within the run while
the cleanup holds an older clock; the log is trimmed of some of its
times and of all. Two shards, the key in the second, let operations happen
between the start of a sweep and its use of the clock. A behaviour uses one key:
operations of different keys share only the sweep and the clock, which each
key's behaviours contain anyway. The proofs have no such restriction. *lifecycle*: with a TTL of 2,
times up to 4 let an entry expire, be counted or set again, and expire again, while a sweep
begun earlier is under way; two callers are enough for Close to race with itself, and neither to one call. Three options let one be given twice with another between.
*redis*: seven milliseconds are more than two windows of three, so that a
counter is needed as the previous one and expires after that; a TTL of 4 lets bucket and log
expire and come back, and is more than the second of 3 to which EXPIRE cuts it; a drift of 2 lets clocks of both sides of a window meet. The Reset of a shared key
begins at time 2, with entries of every kind before and calls of every kind during it; two pipelines
of one key let the EXPIRE of one be lost and that of the other make up for it. *fallback*: two
failures of the primary trip the breaker once, with a caller still on its way; after that it must come
back. *middleware*: a limit of one is contended by two requests; a second that is no whole part
of the window makes every cut of the headers occur; six ticks let a request see
the end of its window at each of its steps.

Each property of a passing run has a mutant in `PROJECT.json`: a version of one
definition with a plausible bug, under which TLC finds the property violated.

## 4. Fairness

Three runs need it: `breaker_live` (`FairSpec`), `fallback` (`FFairSpec`) and `lifecycle`
(`CleanupRuns`).

In the first two the clock advances: weak fairness of
`Tick`. The Go scheduler runs every goroutine, and Go's mutex goes into a mode
that serves its waiters in order when one starves: strong fairness of each
caller's steps. It includes the start of the next Allow: Recovery needs requests,
since a breaker acts only when it is called. Starting a Reset is not fair, and
whether a call of the primary fails is not fair either; that calls stop failing
is the bound `MaxFailures`. In `FFairSpec` a caller's steps include those at the stores, and
the second half of a Reset is fair: it is the next statement of a goroutine; how often Reset
is called is not.

In `lifecycle` the ticker goes on firing and the goroutine is scheduled: weak fairness of `StartSweep` and
`Sweep`, which nothing can disable for ever but themselves and `Stop`. `Stop` is disabled by each
sweep and enabled after it, and Go's select picks at random among the cases that are ready: strong fairness.
The clock, the users and the callers of Close are not fair there.

## 5. Where the code differs from its documentation

Each has a run in which TLC shows it.

* `breaker_early_probe`: the deadline check (`circuit.go:79`) and the
  compare-and-swap (line 84) are separate. If a probe fails in between, the
  breaker is half-open again at once, without the new cooldown.
* `sliding_counter_retry`: RetryAfter of the sliding window counter ends with the
  window, where the count weighs fully as the previous one and the request is refused again.
* `sliding_log_ttl`: a TTL shorter than the window drops a log that still counts. The TTL is the one of
  `New`, an hour whatever the window (`options.go:130`); the constructor's own default of two windows
  (`limiters.go:32`) is then never used.
* `shared_key`: limiters of different algorithms that share a store and a key share an entry. A fixed
  window moves its window on and drops the count (`memory.go:259`), which a sliding window counter
  then misses as its previous one, and admits more than it should.
* `redis_reset`: an error of SCAN only ends the loop; Reset then deletes what it has found and
  returns nil, with counters or a log left.

Known as well, and met with the models under other constants, without a run of their own:

* `RateBound` fails when the entry's TTL is shorter than the time to fill
  the bucket (`limiters.go:44`: one hour by default, whatever rate and capacity;
  `docs/algorithms.md:12`). The theorem below has this as its hypothesis.
* `TwiceLimit` is about the windows that are counted, which are the configured ones cut to whole milliseconds.
  A span of the configured length can meet three of those and have three times the limit (Window 5, Milli 3;
  `docs/algorithms.md:80`).
* A sum of count and n beyond the largest int64 wraps around and is admitted.
* Retry-After is cut to whole seconds (`middleware.go:57`, `fiber.go:79`): a client that waits just as long
  is refused again. `WaitSuffices` holds with one second more. Chi, gin and echo set no such header.
* Half-open admits every caller, where `circuit.go:20` speaks of a limited
  probe. A success counts towards closing when it is reported in half-open, even if the call was made
  before the breaker opened; and `trip` does not read the state again under the mutex, so one that waited there
  opens a breaker which has recovered meanwhile.
* `WithTTL` accepts a negative duration, and `AllowN` a negative n, which gives units back.
* A `New` that fails leaves the goroutine of the store it has created (`options.go:150`). Close of a limiter
  closes its store, also when others use it (`limiters.go:104`).
* Two calls of the in-memory store's Close that overlap can both take the default branch
  (`memory.go:149-153`), and the second then panics; `PanicNeedsOverlap` says that this is the only way.
* `Set` has no window, so the next call of a window limiter starts a count of its own. A bucket on an entry
  that another kind of limiter has created starts empty.
* In Redis the counter of a window lives for two windows from its first call. With clocks, delays included, that differ by more than
  a window and a tick, a late call of that window finds it gone, and `WindowLimit` fails (Window 1, Drift 3; not with Drift 2).
* `RateBound` of a shared Redis bucket also fails with a TTL that is too short, and with clocks that differ the TTL has to be longer by
  as much: a fast client's refill counts for time that the bucket has not lived.
* The ttl of `Increment` is cut to whole seconds in Redis, and at least one: 1500 ms are 1000, and 200 ms are 1000
  (`redis.go:279`). The in-memory store and Redis's `Set` keep it to the millisecond.
* `New` does not look at `WithFailStrategy` and `WithKeyExtractor`; the middleware has configuration of its own for both.
* In Redis, Get of a count is an error, as it is no JSON; Increment of a State is an error, and renews its
  expiry. A lost EXPIRE leaves a count for ever (`unsafe` in `EveryKeyExpires`). A count that expires between
  INCR and EXPIRE of a later pipeline cannot be told from one that was deleted.
* In Redis, Reset's pattern `fullKey:*` (`redis.go:298`) also matches longer limiter keys: those of
  `KeyByIP` and `KeyByIPAndEndpoint` extend each other (`keys.go:13`, `keys.go:49`).

## 6. Proofs

| Theorem | Module | Says |
|---|---|---|
| `TypeCorrect`, `TripNotLost`, `CloseNotLost`, `OpenWithDeadline`, `DiagramFollowed`, `CooldownKept` | `BreakerProofs` | the safety properties of the run `breaker`, for any callers, positive thresholds and cooldown |
| `Invariance` | `BreakerProofs` | the inductive invariant they rest on |
| `FallbackUsesBreaker` | `BreakerProofs` | every behaviour of the fallback store is one of the breaker, so that the theorems above hold of it |
| `FallbackTypeCorrect`, `DivertedAfterThreshold`, `ResetCleared` | `BreakerProofs` | the safety properties of the run `fallback` |
| `FallbackInvariance` | `BreakerProofs` | the inductive invariant they rest on |
| `TypeCorrect` | `MemoryProofs` | `TypeOK` of the in-memory store |
| `RateBounded` | `MemoryProofs` | `RateBound`, if an entry lives until its bucket would be full |
| `BucketExact` | `MemoryProofs` | a token bucket call is admitted exactly when the policy over the ledger admits it |
| `BucketRetryIsTight` | `MemoryProofs` | `BucketRetryTight` |
| `TwiceLimitKept` | `MemoryProofs` | `TwiceLimit`, for any limit, window and time to live |
| `WindowExact` | `MemoryProofs` | a fixed window call is admitted exactly when the policy over the ledger admits it |
| `WindowRetryIsExact` | `MemoryProofs` | `WindowRetryExact` |
| `SmoothBoundaryKept` | `SlidingProofs` | `SmoothBoundary`, for windows of at least a millisecond |
| `StrictLimitKept` | `SlidingProofs` | `StrictLimit`, if a log's entry lives for a window |
| `LogRetryIsExact` | `SlidingProofs` | `LogRetryExact`, under the same |
| `Implementation` | `SlidingProofs` | `ImplementsReference`: the in-memory store implements the abstract limiter |
| `LifecycleTypeCorrect`, `PanicsOnlyOverlapping` | `LifecycleProofs` | the safety properties of the run `lifecycle` |
| `RegisterImplemented` | `LifecycleProofs` | `ImplementsRegister`: Get, Set, Increment and Reset implement a value with a deadline |
| `OptionsRespected` | `LifecycleProofs` | `AsksAsConfigured`, for any list of options |
| `MiddlewareUsesStore` | `MiddlewareProofs` | every behaviour of the middleware is one of the fixed window |
| `MiddlewareTypeCorrect`, `RequestsHandledAsDecided`, `ServedWithin`, `WaitingSuffices` | `MiddlewareProofs` | the safety properties of the run `middleware`, for any number of requests |
| `MiddlewareInvariance` | `MiddlewareProofs` | the inductive invariant they rest on |
| `RateBoundKept` | `RedisProofs` | `RateBound` of Redis buckets, if one that expires would be full for every client |
| `WindowLimitKept` | `RedisProofs` | `WindowLimit`, if clocks differ by no more than a window and a tick |
| `StrictLimitHolds` | `RedisProofs` | `StrictLimit` of Redis logs, if a log does not expire before its window |
| `RetriesAreExact` | `RedisProofs` | `RetryExact`, for a client that is alone, if neither expires too early |
| `StoreTypeCorrect`, `LegacyTypeCorrect` | `RedisProofs` | the types of the Redis store, without and with Get, Set and Increment |
| `LegacyUsesStore` | `RedisProofs` | every behaviour of the store with these is one of the store without, so that the theorems about limiters hold of it |
| `KeysExpire` | `RedisProofs` | `EveryKeyExpires` |
| `RedisRegisterImplemented` | `RedisProofs` | `LegacyImplementsRegister`: what a client that is alone sees of Get, Set, Increment and Reset is a value with a deadline, which Increment gives in whole seconds |
| `RedisImplementation` | `RedisReferenceProofs` | `ImplementsReference`: for clients that are alone the Redis store implements the abstract limiter, if neither a bucket nor a log expires too early |
| `LegacyImplementation` | `RedisReferenceProofs` | the same of the store with Get, Set and Increment |

**Breaker.** None of its properties is inductive. `NoLostTrip` needs that whoever zeroes
the count holds the mutex, so `Mutex` is in the invariant; `FollowsDiagram` needs
that the caller closing the breaker found it half-open and that only the holder
of the mutex could change that (`HolderSeesState`); `OpenHasDeadline` needs
that a stored deadline stays until the state is stored (`TripKeepsDeadline`);
`CooldownNeverShortened` needs that no deadline lies beyond the cooldown of the
trip that is about to write (`DeadlinesBounded`). Each conjunct has a lemma
with one step per action; the theorems combine them.

**Fallback store.** Each of its steps is one of the breaker or leaves the breaker alone
(`FallbackUsesBreaker`), so that the breaker's theorems hold here as they stand. `FInv` is the fallback store's own
invariant and uses the breaker's. For `DivertsOnlyAfterThreshold` it has
that the breaker's count, together with the failures whose callers have not counted them yet, is at most the number of
failed calls (`FailuresCounted`), hence whoever has seen the breaker other than closed came after
enough of them (`OpenedAfterThreshold`; a closing and a Reset only lower the count); for `ResetClearsBoth`, what a Reset
has cleared by its halfway point (`StoresCleared`). The theorem says nothing of a store whose own Reset failed.

**In-memory store.** Lemmas say what each `Decide...` makes of an entry
(`BucketDecision`, `WindowDecision`, `CounterDecision`, `LogDecision`; the log
needs that its cutoff exists, `CutoffExists`, the counter that the share of the
previous window lies between none and all of it, `ShareBounds`). `AllowDecides`
puts them together, and `TInvStep` shows `TInv`: types, the bounds of each kind,
and that the cleanup's clock and a bucket's refill lie in the past.

`RateBound` is not inductive, because it says nothing of what the bucket still
holds. The invariant `Balanced` does: for every `s`, what was admitted since `s` plus
the refilled content is at most a full bucket plus what has flowed in since `s`, and for
some `s` it is equal. A call moves units from the content to the ledger; a tick adds `Rate` to both
sides unless the bucket is full (`Flow`); a sweep removes only an entry whose
bucket would be full anyway, which is where `LongTTL` is used. The first half
gives `RateBound`. With the second, "the bucket holds n tokens" is the same as
"n more units fit every span", which is `BucketExact`.

`TwiceLimit` needs what the entry counts to be what the ledger has of the current window (`Tallied`). That
survives expiry and sweeps because an entry outlives the window that it counts (`OutlivesWindow`), and a tick
because it stays in its window or begins the next one (`NextTick`), where the count of an older entry is
void. The count of the window that has ended becomes the bound of the previous one (`PreviousWithin`). A span shorter
than a window begins in one of these two. `Tallied` also makes the call's condition that of the
policy, which is `WindowExact`. `WindowRetryIsExact` needs no invariant but the types: a refused call leaves
an entry that refuses in the same window, and whose count is void in the next.

The sliding counter's entry has two counts. Its invariant is that they are what the ledger has of the current window and of
the one before, wherever the entry stands: an entry of the window before has the current count as its
previous one, an older or an expired one has nothing (`Tallied`, `PreviousTallied`). For that an entry has to live through the
window after its own, which the code's deadline of two windows gives (`OutlivesNextWindow`). `SmoothBoundary` is about every
state and not only those in which something is admitted: a window that has admitted anything is still within the limit
with the share of the previous one (`WeighedWithin`), as that share only shrinks. The log's
entry is a sequence of times; its invariant says that for each `s` within the last window
the times from `s` on are its last ones, and as many as the ledger has since `s` (`LogTallied`),
which is what the trimming and RetryAfter (the time of the one entry that has to go) rely on, and that no
entry expires before all its times have left the window (`LogDated`, with `LongLog`).

`Implementation` is the step simulation: sweeps and the begin of a sweep are stutters of
`ReferenceLimiter`, a tick is `AdvanceClock`, Reset is its Reset, and an Allow is its Allow since the
exactness invariants of the four kinds (`Balanced`, `Tallied`, the counts and the log) turn the condition on the entry into the policy on the
ledger. `BucketRetryTight` and `LogRetryExact` compare two decisions, now and after a wait, on the
entry that the first one has left.

**Lifecycle.** `PanicNeedsOverlap` needs that, as long as no two calls of Close overlap, at most one caller stands
between its look at the channel and closing it, none once it is closed, and none has panicked (`ClosersInTurn`). `RegisterImplemented` maps an entry that has
expired to nothing, so a sweep is a stutter and a tick is what takes the value away.

**Options.** The invariant of the loop (`ConfigurationInv`) is that each field of `o` has the value of the last of the
options applied so far that is for it, or its default (`Stands`); one lemma for the turn of the loop (`ApplyStep`). At the end
that is what the table says (`SettingStands`), and a limiter made of such fields asks for it (`LimiterAsks`).

**Middleware.** `ServedWithinLimit` counts requests that have been served, and is not inductive: between
the limiter's answer and the handler a request has its unit and has not been served. `Accounted` counts those as well: served and
admitted requests of a window together are at most what the window has granted, and that is at most the limit by `Tallied`.
`HandledAsDecided` and `WaitSuffices` need `Answered`, what a
refused request's headers say of the window that refused it although the clock has gone on since, and `InTurn`, which verdicts
can be at which step in every adapter.

**Redis store.** The lemmas about the scripts (`BucketScript`, `WindowScript`, `CounterScript`, `LogScript`) say what each one makes of
its keys for any clock value and any server time; `AllowTyped`, `DelTyped` and `ScanTyped` what a step leaves
alone. What the limits rest on is that the server's state, under clock values in any order, still accounts for
everything admitted:

* `BucketsInv`: for every `s`, what was admitted since `s` and what the bucket holds is at most a full bucket and what has flowed
  in from `s` to the last refill. The last refill is at most `Drift` ahead of `now` and never goes back; a bucket that expires
  has an inflow behind it that makes it full for the slowest clock, which is the hypothesis `FullOnExpiry`.
* `CountersInv`: the counter of a window has every unit admitted in it, lives at least until no client's clock can
  be in the window any more, and a window whose counter is gone gets no more calls (`Counted`). A counter lives two windows
  from its first call, and that call may come with the fastest clock: hence `CloseClocks`.
* `LogsInv`: for every `s` that is less than a window before the fastest clock, each unit admitted since `s` has a member
  in the log, with a number of its own that the serial number has passed, so that the next unit is another member; and log and serial
  number live as long as that (`Logged`, `WindowWithinTTL`).
* `StoredInv`, `PlainInv`: whatever is stored has an expiry that is not too far (`Lasting`), or, under a key that is
  counted with Increment, has an EXPIRE on its way or has lost it (`Expiring`).
* `SoloInv`: nothing that a client alone has stored is of later than its clock (`Past`, `Dated`), so its waits can be
  counted from `now`. `RetryExact` then compares two runs of a script, with an expiry perhaps between them (`BucketRetry`, `LogRetry`):
  the tokens that flow in during the wait, rounded up, are enough and no fewer are (`RoundedUp`), and the member whose rank
  is the number of units that have to go is the one to wait for (`RankedScore`).
* `AloneInv`, for the register: a client that is alone has at most one pipeline under way, with a count there that no
  Reset of its own can reach. The register changes at the INCR, and gets the deadline that the EXPIRE behind it will
  give, in whole seconds as that has them (`LifetimesPositive` is all that is needed of these), so that the EXPIRE is a stutter; a Reset takes effect at its DEL, and its SCANs are stutters. One lemma per operation
  (`StoreSets`, `StoreGets`, `StoreIncrements`, `StoreExpires`, `StoreTicks`, `StoreResets`) rests on `PutString`: what
  one key becomes in the register.

**Redis store as reference limiter.** The invariants above say "at most", since other clients' clocks may have
taken more away. For a client that is alone `ExactInv` has equations, so that a script's condition on its keys is the policy on the ledger:

* `BucketExact`: what was admitted since `s` and the content that a script run now would find is at most a full bucket and
  the inflow since `s`, for every `s`, and equal for some `s`; a bucket that expires would be full then (`FullBeforeExpiry`).
* `CountersExact`: the counters of the current window and of the one before have exactly what the ledger has, and no
  counter expires before the window after its own has ended, so that a tick takes away only counters that no longer count.
* `LogExact`: the log has no more members than units have been admitted; that it has no fewer is `LogsInv`.
* `ScanInv`: while a Reset runs, every name that exists has been found or has to be found before the cursor is 0. No
  other command of the client can come between, so a `Del` leaves nothing of the key. The Resets of such a client meet no
  error in the model; what an error of SCAN does is the finding of `redis_reset`.

A refused call changes nothing that matters, though its script may move tokens, take back an INCRBY or trim the log.
A tick is `AdvanceClock`, the SCANs are stutters, a `Del` is Reset and an Allow is Allow (`ExactStep`, `ReferenceStep`, one
step per action). Of a shared key the abstract limiter demands nothing and allows anything (`MaySolo`, `MustSolo`).

Assumptions: the `ASSUME`s of the modules (signs of constants, keys of different
kinds apart), and, as named hypotheses of the theorems that need them:

* `SmallCounts`: twice the limit and a cost fit an int64. Without it counts wrap around (section 5).
* `LongTTL`: an entry lives until its bucket would be full (`limiters.go:44` does not see to it, section 5).
* `LongLog`: an entry of a log lives for a window. The constructor's default of two windows
  satisfies it, the hour of `New` for windows up to an hour; the run `sliding_log_ttl` shows what happens otherwise.
* `WholeMillis`: a window has at least one millisecond. The code takes shorter ones for one of a millisecond
  (`SpanMs`), and what is counted is then no longer what was configured.
* `PositiveTTL`: Set and Increment are called with a positive time to live.
* `FullOnExpiry`, `FullBeforeExpiry`: a Redis bucket that expires would be full, for the slowest client or for the one
  there is: a full bucket flows in within the TTL and a tick, less the drift. As in memory, the constructor does not see to it.
* `CloseClocks`: clocks, delays included, differ by no more than a window and a tick (section 5 says what happens otherwise).
* `WindowWithinTTL`: a log lives as long as its window, but for a tick (the Redis counterpart of `LongLog`).

Only model-checked: liveness (`Recovery`, `EveryCallReturns`, `ReturnsToPrimary`,
`EveryRequestReturns`, `ExpiredRemoved`, `CleanupStops`), since fairness is
beyond the prover. Every other property of a passing run is the subject of a theorem. The five properties that TLC finds
violated are false, so there is nothing to prove of them; the theorems that hold instead name the hypothesis that is missing.

## 7. Not modelled

* The key extractors: functions from a request to a string, without state. The interfaces and aliases: no
  behaviour. The examples: programs that call the library.
* Close of the Redis and of the fallback store: each only calls another Close, and what a
  call after it does is up to the Redis client.
* Two limiters with different windows on one Redis key: their counters have names of their own
  only if the window numbers differ.
* A wall clock that is set back. The counters of a later window would then be reset as if they were old.
* Allocation, logging, HTTP formatting.
