----------------------------- MODULE MemoryStore -----------------------------
(***************************************************************************)
(* The in-memory store of store/memory.go without its four algorithms:     *)
(* the entries, Reset, and the goroutine that removes expired entries.     *)
(*                                                                         *)
(* An operation on a key holds the lock of the key's shard throughout and  *)
(* reads the clock with the lock held, so it is one action.  The cleanup   *)
(* goroutine reads the clock once and then locks one shard after another:  *)
(* its clock value may be old by the time it uses it.                      *)
(***************************************************************************)
EXTENDS Ledger, Sequences

CONSTANTS
  TTL,        \* how long an entry lives after a call that is given a ttl
  NumShards,  \* the number of shards
  ShardOf,    \* the shard of each key (getShard)
  NoEntry     \* what a lookup of an absent key yields

Never == -1   \* the zero time.Time

\* memEntry.  Token counts are in units small enough to be whole.
Entry == [tokens : Nat, lastUpd : Nat \cup {Never}, count : Int, prevCount : Int,
          windowNum : Nat, requests : Seq(Nat), expiresAt : Nat \cup {Never}]

ZeroEntry == [tokens |-> 0, lastUpd |-> Never, count |-> 0, prevCount |-> 0,
              windowNum |-> 0, requests |-> << >>, expiresAt |-> Never]

ASSUME StoreAssumption ==
  /\ TTL \in Nat
  /\ NumShards \in Nat \ {0}
  /\ ShardOf \in [Keys -> 0..(NumShards - 1)]
  /\ NoEntry \notin Entry

VARIABLES
  data,       \* the maps of all shards
  sweepAt,    \* the clock value the cleanup goroutine works with
  nextShard   \* the shard it visits next; NumShards between two sweeps

sweep == <<sweepAt, nextShard>>
store == <<data, sweep>>
vars  == <<ledger, store>>

StoreTypeOK ==
  /\ LedgerTypeOK
  /\ data \in [Keys -> Entry \cup {NoEntry}]
  /\ sweepAt \in Times
  /\ nextShard \in 0..NumShards

StoreInit ==
  /\ LedgerInit
  /\ data = [k \in Keys |-> NoEntry]
  /\ sweepAt = 0
  /\ nextShard = NumShards

\* An absent or expired entry is replaced by a fresh one.
Missing(e, at) == e = NoEntry \/ at > e.expiresAt

-----------------------------------------------------------------------------

Tick == AdvanceClock /\ UNCHANGED store

Reset(k) ==
  /\ data' = [data EXCEPT ![k] = NoEntry]
  /\ Forget(k)
  /\ UNCHANGED sweep

\* What the last lines of every Allow operation do with decision d: the entry
\* is already updated, admitted or not, and the caller gets the answer.
Answer(k, n, d) ==
  /\ data' = [data EXCEPT ![k] = d.entry]
  /\ IF d.allowed THEN Admit(k, n) ELSE Refuse(k, n)
  /\ UNCHANGED sweep

MutBeginSweep ==
  /\ nextShard = NumShards
  /\ nextShard' = 1
  /\ sweepAt' = now
  /\ UNCHANGED <<ledger, data>>

BeginSweep ==
  /\ nextShard = NumShards
  /\ nextShard' = 0
  /\ sweepAt' = now
  /\ UNCHANGED <<ledger, data>>

MutSweepShard ==
  /\ nextShard < NumShards
  /\ nextShard' = nextShard + 1
  /\ data' = [k \in Keys |->
                IF /\ ShardOf[k] = nextShard
                   /\ data[k] # NoEntry
                   /\ sweepAt >= data[k].expiresAt
                  THEN NoEntry
                  ELSE data[k]]
  /\ UNCHANGED <<ledger, sweepAt>>

MutSweepPastEnd ==
  /\ nextShard <= NumShards
  /\ nextShard' = nextShard + 1
  /\ UNCHANGED <<ledger, data, sweepAt>>

SweepShard ==
  /\ nextShard < NumShards
  /\ nextShard' = nextShard + 1
  /\ data' = [k \in Keys |->
                IF /\ ShardOf[k] = nextShard
                   /\ data[k] # NoEntry
                   /\ sweepAt > data[k].expiresAt
                  THEN NoEntry
                  ELSE data[k]]
  /\ UNCHANGED <<ledger, sweepAt>>

\* What happens without a call.
Background == Tick \/ BeginSweep \/ SweepShard

=============================================================================
