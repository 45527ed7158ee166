----------------------------- MODULE Lifecycle ------------------------------
(***************************************************************************)
(* The in-memory store as somebody has it who uses it directly: Get, Set   *)
(* and Increment, the loop of the cleanup goroutine from NewMemory to its  *)
(* return, and Close, which its limiters and the application may call      *)
(* concurrently and more than once.                                        *)
(***************************************************************************)
EXTENDS MemoryStore

CONSTANTS
  States,   \* what Set is called with
  Closers,  \* who calls Close
  NoAnswer  \* the last operation has no result

VARIABLES
  answer,   \* the result of the last operation
  closed,   \* is closeCh closed?
  closer,   \* of each closer: "idle", "default" when it has found closeCh open,
            \*   or "panicked"
  overlap,  \* have two calls of Close ever overlapped?
  stopped   \* has the cleanup goroutine returned?

life == <<closed, closer, overlap, stopped>>
lvars == <<vars, answer, life>>

\* The fields of a State.  WindowStart, which no entry keeps, is left out.
State == [tokens : Nat, lastUpd : Nat \cup {Never}, count : Int, requests : Seq(Nat)]

ASSUME StatesAssumption == States \subseteq State /\ NoEntry \notin State

StateOf(e) ==
  [tokens |-> e.tokens, lastUpd |-> e.lastUpd, count |-> e.count, requests |-> e.requests]

NoState == StateOf(ZeroEntry)

LTypeOK ==
  /\ StoreTypeOK
  /\ closed \in BOOLEAN /\ overlap \in BOOLEAN /\ stopped \in BOOLEAN
  /\ closer \in [Closers -> {"idle", "default", "panicked"}]

LInit ==
  /\ StoreInit
  /\ answer = NoAnswer
  /\ closed = FALSE /\ overlap = FALSE /\ stopped = FALSE
  /\ closer = [c \in Closers |-> "idle"]

-----------------------------------------------------------------------------
(* The operations on an entry, each under the lock of its shard *)

MutLive(e) == e # NoEntry /\ now <= e.expiresAt

\* Unlike the Allow operations, these see an entry only before it expires.
Live(e) == e # NoEntry /\ now < e.expiresAt

Get(k) ==
  /\ answer' = IF Live(data[k]) THEN StateOf(data[k]) ELSE NoState
  /\ UNCHANGED <<vars, life>>

\* The entry is a new one: it has no window.
Set(k, s) ==
  /\ data' = [data EXCEPT ![k] =
                [tokens |-> s.tokens, lastUpd |-> s.lastUpd, count |-> s.count, prevCount |-> 0,
                 windowNum |-> 0, requests |-> s.requests, expiresAt |-> now + TTL]]
  /\ answer' = NoAnswer
  /\ UNCHANGED <<ledger, sweep, life>>

\* A live entry counts one more and keeps its deadline; another one starts anew.
Incremented(e) ==
  IF Live(e)
    THEN [e EXCEPT !.count = @ + 1, !.lastUpd = now]
    ELSE [ZeroEntry EXCEPT !.count = 1, !.lastUpd = now, !.expiresAt = now + TTL]

Increment(k) ==
  /\ data' = [data EXCEPT ![k] = Incremented(data[k])]
  /\ answer' = [incremented |-> data'[k].count]
  /\ UNCHANGED <<ledger, sweep, life>>

LReset(k) == Reset(k) /\ answer' = NoAnswer /\ UNCHANGED life

-----------------------------------------------------------------------------
(* Close *)

MutTryClose(c) ==
  /\ closer[c] = "idle"
  /\ closer' = [closer EXCEPT ![c] = "default"]
  /\ overlap' = (overlap \/ \E d \in Closers : closer[d] = "default")
  /\ UNCHANGED <<vars, answer, closed, stopped>>

\* The select; with the channel closed it returns at once.
TryClose(c) ==
  /\ closer[c] = "idle" /\ ~ closed
  /\ closer' = [closer EXCEPT ![c] = "default"]
  /\ overlap' = (overlap \/ \E d \in Closers : closer[d] = "default")
  /\ UNCHANGED <<vars, answer, closed, stopped>>

\* close(closeCh) panics if the channel has been closed meanwhile.
CloseChannel(c) ==
  /\ closer[c] = "default"
  /\ closer' = [closer EXCEPT ![c] = IF closed THEN "panicked" ELSE "idle"]
  /\ closed' = TRUE
  /\ UNCHANGED <<vars, answer, overlap, stopped>>

-----------------------------------------------------------------------------
(* The cleanup goroutine *)

\* The ticker has fired.
StartSweep == ~ stopped /\ BeginSweep /\ UNCHANGED <<answer, life>>

Sweep == SweepShard /\ UNCHANGED <<answer, life>>

MutStop ==
  /\ ~ stopped /\ nextShard = NumShards /\ closed
  /\ UNCHANGED <<vars, answer, life>>

\* Between two sweeps the goroutine sees that the channel is closed.
Stop ==
  /\ ~ stopped /\ nextShard = NumShards /\ closed
  /\ stopped' = TRUE
  /\ UNCHANGED <<vars, answer, closed, closer, overlap>>

-----------------------------------------------------------------------------

LTick == Tick /\ UNCHANGED <<answer, life>>

Use(k) == Get(k) \/ Increment(k) \/ LReset(k) \/ \E s \in States : Set(k, s)

LNext ==
  \/ LTick \/ StartSweep \/ Sweep \/ Stop
  \/ \E k \in Keys : Use(k)
  \/ \E c \in Closers : TryClose(c) \/ CloseChannel(c)

\* The ticker goes on firing and the scheduler runs the goroutine.  If a tick
\* and the closed channel are both ready the select takes either, and not one
\* of them for ever.
CleanupRuns == WF_lvars(StartSweep) /\ WF_lvars(Sweep) /\ SF_lvars(Stop)

LSpec == LInit /\ [][LNext]_lvars /\ CleanupRuns

-----------------------------------------------------------------------------

\* Nothing is seen as the zero State.
Seen(v) == IF v = NoEntry THEN NoState ELSE v

AsRegister == INSTANCE Register WITH
  Values <- States,
  Nothing <- NoEntry,
  value <- [k \in Keys |-> IF Live(data[k]) THEN StateOf(data[k]) ELSE NoEntry],
  until <- [k \in Keys |-> IF Live(data[k]) THEN data[k].expiresAt ELSE 0],
  CountTTL <- TTL,
  Shown <- Seen,
  Bumped <- LAMBDA v, t : [Seen(v) EXCEPT !.count = Seen(v).count + 1, !.lastUpd = t],
  Counted <- LAMBDA v : [incremented |-> v.count],
  Renews <- FALSE

\* Whoever uses the store directly has a value with a deadline under each key
\* (memory.go:67-145, 459-471): an entry that has expired and not been removed
\* is never seen or counted on, one that was set anew is not removed by a sweep
\* whose clock value is from before, and no count is lost.
ImplementsRegister == AsRegister!Spec

\* Of the calls of Close, in any number, none panics unless it overlaps another
\* one (memory.go:148-156).
PanicNeedsOverlap == (\E c \in Closers : closer[c] = "panicked") => overlap

\* While the store is open no expired entry stays (memory.go:445-471), whatever
\* happens to other shards and however long a sweep takes.
ExpiredRemoved ==
  \A k \in Keys :
    data[k] # NoEntry /\ now > data[k].expiresAt ~>
      data[k] = NoEntry \/ now <= data[k].expiresAt \/ closed

\* A store that is closed has no goroutine in the end (memory.go:147-156,
\* 449-456), whatever the cleanup is doing.
CleanupStops == closed ~> stopped

=============================================================================
