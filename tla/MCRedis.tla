------------------------------- MODULE MCRedis -------------------------------
(***************************************************************************)
(* The Redis store on small instances: for each kind of limiter a key with *)
(* one client and one that is shared.  A behaviour uses one key.  Shared   *)
(* keys have many more behaviours, so these stop earlier, their calls are  *)
(* for one unit, and one Reset begins at a given time.                     *)
(***************************************************************************)
EXTENDS RedisLegacy

CONSTANTS
  kb, kw, kc, kl, kp, sb, sw, sl, sp,
  SharedTime,  \* bound: where the clock stops for a shared key
  ResetTime,   \* bound: when a shared key is reset
  MaxNumber    \* bound: how far Increment counts

AllKeys == {kb, kw, kc, kl, kp, sb, sw, sl, sp}
ManyClients == {sb, sw, sl, sp}

VARIABLES
  used,    \* the key that the behaviour uses
  resets   \* the Resets of a shared key

MCInit ==
  /\ LegacyInit
  /\ used \in BucketKeys \cup WindowKeys \cup CounterKeys \cup LogKeys \cup PlainKeys
  /\ resets = 0

Shared == used \in SharedKeys

MCTick == (Shared => now < SharedTime) /\ LegacyTick /\ UNCHANGED resets

MCAllow ==
  /\ LegacyAllow(used)
  /\ Shared => reply'.n = 1
  /\ UNCHANGED resets

MCDirect ==
  /\ used \in PlainKeys
  /\ Direct(used)
  /\ plain'[used] # NoKey /\ IsNumber(plain'[used].string) =>
       plain'[used].string.number <= MaxNumber
  /\ UNCHANGED resets

MCBeginReset ==
  /\ Shared => now = ResetTime /\ resets = 0
  /\ LegacyBeginReset(used)
  /\ resets' = IF Shared THEN 1 ELSE 0

MCNext ==
  /\ MCTick \/ MCAllow \/ MCDirect \/ MCBeginReset \/ (LegacyResetting /\ UNCHANGED resets)
  /\ UNCHANGED used

MCSpec == MCInit /\ [][MCNext]_<<legacyVars, used, resets>>

=============================================================================
