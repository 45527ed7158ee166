---------------------------- MODULE MCLifecycle -----------------------------
(***************************************************************************)
(* The in-memory store used directly, and New, on small instances.  A      *)
(* behaviour either uses one key of a store, in the first shard or in the  *)
(* last, or it calls New with some options, again and again.               *)
(***************************************************************************)
EXTENDS Lifecycle, Configuration

CONSTANTS
  k1, k2,
  NoKey,       \* the behaviour calls New
  MaxCount     \* bound: how far Increment counts

VARIABLE used

ByKey == [k \in Keys |-> IF k = k1 THEN 0 ELSE NumShards - 1]

SomeState == {[tokens |-> 3, lastUpd |-> Never, count |-> 1, requests |-> <<0>>]}

\* For each With function values in and out of its range.
SomeOptions ==
  [f \in Fields |-> IF f \in Numbers THEN {-1, 0, 7}
                    ELSE IF f = "algorithm" THEN Algorithms ELSE Stores]

MCInit == LInit /\ ConfigurationInit /\ used \in Keys \cup {NoKey}

UseKey ==
  /\ used # NoKey
  /\ \/ LTick \/ StartSweep \/ Sweep \/ Stop
     \/ Get(used) \/ LReset(used) \/ \E s \in States : Set(used, s)
     \/ (data[used] # NoEntry => data[used].count < MaxCount) /\ Increment(used)
     \/ \E c \in Closers : TryClose(c) \/ CloseChannel(c)
  /\ UNCHANGED cvars

UseNew == used = NoKey /\ ConfigurationNext /\ UNCHANGED lvars

MCNext == (UseKey \/ UseNew) /\ UNCHANGED used

MCSpec == MCInit /\ [][MCNext]_<<lvars, cvars, used>> /\ (used # NoKey => CleanupRuns)

=============================================================================
