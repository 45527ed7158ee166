------------------------------ MODULE MCMemory ------------------------------
(***************************************************************************)
(* The in-memory store on small instances.  There is a key for each kind   *)
(* of limiter, and a behaviour uses one of them: the kinds are checked     *)
(* next to each other and not in all combinations.                         *)
(***************************************************************************)
EXTENDS MemoryLimiters, Limiters

CONSTANTS kb, kw, kc, kl

AllKeys == {kb, kw, kc, kl}

\* The cleanup visits an empty shard first.
LastShard == [k \in Keys |-> NumShards - 1]

\* The time to live of a sliding window that New makes with just its limit and
\* its window given.
TTLOfNew ==
  Limiter([DefaultOptions EXCEPT !.algorithm = "SlidingWindow", !.limit = Limit,
                                 !.window = Window]).ttl

VARIABLE used   \* the key that the behaviour uses

MCInit == StoreInit /\ used \in BucketKeys \cup WindowKeys \cup CounterKeys \cup LogKeys

MCNext == (Background \/ Allow(used) \/ Reset(used)) /\ UNCHANGED used

MCSpec == MCInit /\ [][MCNext]_<<vars, used>>

=============================================================================
