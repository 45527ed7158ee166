------------------------------ MODULE Limiters ------------------------------
(***************************************************************************)
(* The constructors of the limiters, the options of New and the limiter    *)
(* that it makes of them, and what a limiter asks its store for.  Numbers  *)
(* stand for rates, counts and durations alike; only their sign and        *)
(* identity matter here.                                                   *)
(***************************************************************************)
EXTENDS Integers, Sequences

CONSTANTS
  Minute, Hour,   \* the durations of the defaults
  NilStore,       \* no store
  NewMemory,      \* an in-memory store that New has created
  InvalidConfig,  \* ErrInvalidConfig
  InvalidKey      \* ErrInvalidKey

ASSUME DurationAssumption == Minute \in Nat \ {0} /\ Hour \in Nat \ {0}

-----------------------------------------------------------------------------
(* The constructors, on a configuration *)

NewTokenBucket(cfg) ==
  IF cfg.rate <= 0 \/ cfg.capacity <= 0 \/ cfg.store = NilStore
    THEN InvalidConfig
    ELSE [kind |-> "TokenBucket", store |-> cfg.store,
          rate |-> cfg.rate, capacity |-> cfg.capacity,
          ttl |-> IF cfg.ttl = 0 THEN Hour ELSE cfg.ttl]

\* The three limiters with a window.
NewWindowed(kind, cfg) ==
  IF cfg.limit <= 0 \/ cfg.window <= 0 \/ cfg.store = NilStore
    THEN InvalidConfig
    ELSE [kind |-> kind, store |-> cfg.store, limit |-> cfg.limit, window |-> cfg.window,
          ttl |-> IF cfg.ttl = 0 THEN 2 * cfg.window ELSE cfg.ttl]

NewFixedWindow(cfg)          == NewWindowed("FixedWindow", cfg)
NewSlidingWindowCounter(cfg) == NewWindowed("SlidingWindowCounter", cfg)
NewSlidingWindow(cfg)        == NewWindowed("SlidingWindow", cfg)

-----------------------------------------------------------------------------
(* Options *)

DefaultOptions ==
  [algorithm |-> "TokenBucket", rate |-> 10, capacity |-> 20, limit |-> 100,
   window |-> Minute, store |-> NilStore, ttl |-> Hour]

\* The With functions.
Option(field, v) == [field |-> field, arg |-> v]

\* What New makes of its options.
Limiter(o) ==
  LET cfg == [o EXCEPT !.store = IF @ = NilStore THEN NewMemory ELSE @]
  IN  CASE o.algorithm = "TokenBucket"          -> NewTokenBucket(cfg)
        [] o.algorithm = "FixedWindow"          -> NewFixedWindow(cfg)
        [] o.algorithm = "SlidingWindow"        -> NewSlidingWindow(cfg)
        [] o.algorithm = "SlidingWindowCounter" -> NewSlidingWindowCounter(cfg)
        [] OTHER                                -> InvalidConfig

-----------------------------------------------------------------------------
(* What a limiter asks its store for; or its error *)

EmptyKey == ""

Ask(l, op, key, args) ==
  IF key = EmptyKey THEN InvalidKey
  ELSE [op |-> op, store |-> l.store, key |-> key, args |-> args]

TokenBucketAllowN(l, key, n) ==
  Ask(l, "AllowTokenBucket", key, <<l.rate, l.capacity, n, l.ttl>>)

FixedWindowAllowN(l, key, n) ==
  Ask(l, "AllowFixedWindow", key, <<l.limit, l.window, n, l.ttl>>)

SlidingWindowCounterAllowN(l, key, n) ==
  Ask(l, "AllowSlidingWindowCounter", key, <<l.limit, l.window, n, l.ttl>>)

SlidingWindowAllowN(l, key, n) ==
  Ask(l, "AllowSlidingWindowLog", key, <<l.limit, l.window, n, l.ttl>>)

AllowN(l, key, n) ==
  CASE l.kind = "TokenBucket"          -> TokenBucketAllowN(l, key, n)
    [] l.kind = "FixedWindow"          -> FixedWindowAllowN(l, key, n)
    [] l.kind = "SlidingWindowCounter" -> SlidingWindowCounterAllowN(l, key, n)
    [] l.kind = "SlidingWindow"        -> SlidingWindowAllowN(l, key, n)

ResetKey(l, key) == Ask(l, "Reset", key, << >>)

=============================================================================
