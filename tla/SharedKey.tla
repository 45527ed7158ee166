------------------------------ MODULE SharedKey -----------------------------
(***************************************************************************)
(* Limiters of several kinds that are given the same in-memory store and   *)
(* ask it about the same key.  Each has a ledger of its own, under its     *)
(* name; the store has one entry, which is data[k] for every name k.       *)
(***************************************************************************)
EXTENDS MemoryLimiters

\* The entry is in one shard.
OneShard == [k \in Keys |-> 0]

\* What the store may answer to limiter k.
Decisions(k, n) ==
  CASE k \in BucketKeys  -> {DecideTokenBucket(data[k], now, n)}
    [] k \in WindowKeys  -> {DecideFixedWindow(data[k], now, n)}
    [] k \in LogKeys     -> {DecideSlidingLog(data[k], now, n)}
    [] k \in CounterKeys -> {DecideSlidingCounter(data[k], now, n, slip) :
                               slip \in Slips(Counters(data[k], now).prevCount, now)}

Ask(k, n) ==
  \E d \in Decisions(k, n) :
    /\ data' = [l \in Keys |-> d.entry]
    /\ IF d.allowed THEN Admit(k, n) ELSE Refuse(k, n)
    /\ UNCHANGED sweep

SharedNext == Background \/ \E k \in Keys, n \in Costs : Ask(k, n)

SharedSpec == StoreInit /\ [][SharedNext]_vars

=============================================================================
