--------------------------- MODULE LifecycleProofs ---------------------------
(***************************************************************************)
(* Proofs about the in-memory store used directly, for any keys, states,   *)
(* times to live and shards, and any number of calls of Close; and about   *)
(* New, for any options.                                                   *)
(***************************************************************************)
EXTENDS Lifecycle, Configuration, TLAPS

\* An entry lives for a while.  Without that an entry is expired when it is set.
PositiveTTL == TTL > 0

\* The cleanup goroutine has its clock value from the past.
LInv == LTypeOK /\ sweepAt <= now

\* If no two calls of Close have overlapped there is at most one between its
\* look at the channel and closing it, none once it is closed, and none that
\* panicked.
ClosersInTurn ==
  ~ overlap => /\ \A c, d \in Closers : closer[c] = "default" /\ closer[d] = "default" => c = d
               /\ closed => \A c \in Closers : closer[c] # "default"
               /\ \A c \in Closers : closer[c] # "panicked"

-----------------------------------------------------------------------------
(* The operations on an entry *)

\* The entry that Set makes of a state, and those that Increment makes.
Stored(s) ==
  [tokens |-> s.tokens, lastUpd |-> s.lastUpd, count |-> s.count, prevCount |-> 0,
   windowNum |-> 0, requests |-> s.requests, expiresAt |-> now + TTL]
More(e) == [e EXCEPT !.count = @ + 1, !.lastUpd = now]
With(e, x, at, until) == [e EXCEPT !.count = x, !.lastUpd = at, !.expiresAt = until]
First == With(ZeroEntry, 1, now, now + TTL)

LEMMA StateOfEntry ==
  ASSUME NEW e \in Entry
  PROVE  StateOf(e) \in State /\ StateOf(e) # NoEntry
BY StatesAssumption DEF StateOf, State, Entry

LEMMA NoStateType == NoState \in State
BY DEF NoState, StateOf, ZeroEntry, State, Never

LEMMA StoredEntry ==
  ASSUME NEW s \in State, now \in Nat
  PROVE  Stored(s) \in Entry /\ StateOf(Stored(s)) = s /\ Stored(s).expiresAt = now + TTL
<1>1. now + TTL \in Nat
  BY StoreAssumption
<1>2. Stored(s) \in Entry
  BY <1>1 DEF Stored, Entry, State
<1>3. StateOf(Stored(s)) = s
  BY DEF Stored, StateOf, State
<1>4. QED
  BY <1>2, <1>3 DEF Stored

\* A state with a count and a time of its own.
LEMMA StateWith ==
  ASSUME NEW s \in State, NEW x \in Int, NEW at \in Nat
  PROVE  [s EXCEPT !.count = x, !.lastUpd = at]
           = [tokens |-> s.tokens, lastUpd |-> at, count |-> x, requests |-> s.requests]
<1> DEFINE r == [s EXCEPT !.count = x, !.lastUpd = at]
<1>1. /\ r \in State /\ r.tokens = s.tokens /\ r.lastUpd = at /\ r.count = x
      /\ r.requests = s.requests
  BY DEF State
<1> HIDE DEF r
<1>2. r = [tokens |-> s.tokens, lastUpd |-> at, count |-> x, requests |-> s.requests]
  BY <1>1 DEF State
<1>3. QED
  BY <1>2 DEF r

LEMMA MoreEntry ==
  ASSUME NEW e \in Entry, now \in Nat
  PROVE  /\ More(e) \in Entry /\ More(e).expiresAt = e.expiresAt
         /\ StateOf(More(e)) = [StateOf(e) EXCEPT !.count = @ + 1, !.lastUpd = now]
<1> DEFINE x == e.count + 1
           m == [e EXCEPT !.count = x, !.lastUpd = now]
           s == StateOf(e)
<1>1. x \in Int /\ s \in State /\ s.tokens = e.tokens /\ s.requests = e.requests
      /\ s.count + 1 = x
  BY StateOfEntry DEF Entry, StateOf
<1>2. More(e) = m
  BY DEF More
<1>3. [s EXCEPT !.count = @ + 1, !.lastUpd = now] = [s EXCEPT !.count = x, !.lastUpd = now]
  BY <1>1
<1> HIDE DEF x
<1>4. /\ m \in Entry /\ m.expiresAt = e.expiresAt
      /\ m.tokens = e.tokens /\ m.lastUpd = now /\ m.count = x /\ m.requests = e.requests
  BY <1>1 DEF Entry
<1> HIDE DEF m, s
<1>5. [s EXCEPT !.count = x, !.lastUpd = now]
        = [tokens |-> s.tokens, lastUpd |-> now, count |-> x, requests |-> s.requests]
  BY <1>1, StateWith
<1>6. StateOf(m) = [tokens |-> s.tokens, lastUpd |-> now, count |-> x, requests |-> s.requests]
  BY <1>1, <1>4, Zenon DEF StateOf
<1>7. StateOf(m) = [s EXCEPT !.count = @ + 1, !.lastUpd = now]
  BY <1>3, <1>5, <1>6, Zenon
<1>8. QED
  BY <1>2, <1>4, <1>7, Zenon DEF s

LEMMA EntryWith ==
  ASSUME NEW e \in Entry, NEW x \in Int, NEW at \in Nat, NEW until \in Nat
  PROVE  /\ With(e, x, at, until) \in Entry
         /\ With(e, x, at, until).expiresAt = until
         /\ With(e, x, at, until).tokens = e.tokens
         /\ With(e, x, at, until).lastUpd = at
         /\ With(e, x, at, until).count = x
         /\ With(e, x, at, until).requests = e.requests
<1> DEFINE f == [e EXCEPT !.count = x, !.lastUpd = at]
           m == [f EXCEPT !.expiresAt = until]
<1>1. /\ f \in Entry /\ f.tokens = e.tokens /\ f.lastUpd = at /\ f.count = x
      /\ f.requests = e.requests
  BY DEF Entry
<1>2. m = With(e, x, at, until)
  BY DEF With
<1> HIDE DEF f
<1>3. /\ m \in Entry /\ m.expiresAt = until
      /\ m.tokens = f.tokens /\ m.lastUpd = f.lastUpd /\ m.count = f.count
      /\ m.requests = f.requests
  BY <1>1 DEF Entry
<1> HIDE DEF m
<1>4. /\ m \in Entry /\ m.expiresAt = until
      /\ m.tokens = e.tokens /\ m.lastUpd = at /\ m.count = x /\ m.requests = e.requests
  BY <1>1, <1>3
<1>5. QED
  BY <1>2, <1>4

LEMMA FirstEntry ==
  ASSUME now \in Nat
  PROVE  /\ First \in Entry /\ First.expiresAt = now + TTL
         /\ StateOf(First) = [NoState EXCEPT !.count = @ + 1, !.lastUpd = now]
<1> DEFINE until == now + TTL
           m == With(ZeroEntry, 1, now, until)
<1>1. until \in Nat /\ NoState \in State /\ NoState.tokens = 0 /\ NoState.requests = << >>
      /\ NoState.count + 1 = 1
  BY NoStateType, StoreAssumption DEF NoState, StateOf, ZeroEntry
<1>2. First = m
  BY DEF First
<1>3. [NoState EXCEPT !.count = @ + 1, !.lastUpd = now]
        = [NoState EXCEPT !.count = 1, !.lastUpd = now]
  BY <1>1
<1> HIDE DEF until
<1>4. /\ m \in Entry /\ m.expiresAt = until
      /\ m.tokens = 0 /\ m.lastUpd = now /\ m.count = 1 /\ m.requests = << >>
  <2>1. ZeroEntry \in Entry /\ ZeroEntry.tokens = 0 /\ ZeroEntry.requests = << >>
    BY DEF ZeroEntry, Entry, Never
  <2> HIDE DEF m
  <2>2. /\ m \in Entry /\ m.expiresAt = until
        /\ m.tokens = ZeroEntry.tokens /\ m.lastUpd = now /\ m.count = 1
        /\ m.requests = ZeroEntry.requests
    <3>1. until \in Nat /\ ZeroEntry \in Entry
      BY <1>1, <2>1
    <3> DEFINE z == ZeroEntry
    <3> HIDE DEF z
    <3>2. z \in Entry
      BY <3>1 DEF z
    <3>3. /\ m \in Entry /\ m.expiresAt = until
          /\ m.tokens = z.tokens /\ m.lastUpd = now /\ m.count = 1
          /\ m.requests = z.requests
      BY <3>1, <3>2, EntryWith DEF m, z
    <3>4. QED
      BY <3>3 DEF z
  <2>3. QED
    BY <2>1, <2>2
<1> HIDE DEF m
<1>5. [NoState EXCEPT !.count = 1, !.lastUpd = now]
        = [tokens |-> 0, lastUpd |-> now, count |-> 1, requests |-> << >>]
  <2>1. 1 \in Int
    OBVIOUS
  <2>2. [NoState EXCEPT !.count = 1, !.lastUpd = now]
          = [tokens |-> NoState.tokens, lastUpd |-> now, count |-> 1,
             requests |-> NoState.requests]
    BY <1>1, <2>1, StateWith, Zenon
  <2>3. QED
    BY <1>1, <2>2, Zenon
<1>6. StateOf(m) = [tokens |-> 0, lastUpd |-> now, count |-> 1, requests |-> << >>]
  BY <1>4, Zenon DEF StateOf
<1>7. StateOf(m) = [NoState EXCEPT !.count = @ + 1, !.lastUpd = now]
  BY <1>3, <1>5, <1>6, Zenon
<1>8. QED
  BY <1>2, <1>4, <1>7, Zenon DEF until

-----------------------------------------------------------------------------
(* Types, and the calls of Close *)

LEMMA LInvInit ==
  ASSUME LInit
  PROVE  LInv
<1> USE LedgerAssumption, StoreAssumption DEF LInit, StoreInit, LedgerInit
<1>1. StoreTypeOK /\ sweepAt <= now
  BY DEF StoreTypeOK, LedgerTypeOK, Times
<1>2. QED
  BY <1>1 DEF LInv, LTypeOK

\* What is known of the store in a state of the invariant.
LEMMA StoreFacts ==
  ASSUME LInv
  PROVE  /\ now \in Times /\ now \in Nat /\ sweepAt \in Times /\ sweepAt <= now
         /\ nextShard \in 0..NumShards /\ LedgerTypeOK
         /\ data \in [Keys -> Entry \cup {NoEntry}]
         /\ NoEntry \notin Entry /\ TTL \in Nat /\ NumShards \in Nat /\ Times \subseteq Nat
BY LedgerAssumption, StoreAssumption DEF LInv, LTypeOK, StoreTypeOK, LedgerTypeOK, Times

\* What an operation on an entry does to the data: it removes it or puts in its
\* place one of the entries above.
LEMMA UseStores ==
  ASSUME LInv, NEW k \in Keys, Use(k)
  PROVE  \/ Get(k)
         \/ LReset(k)
         \/ \E s \in States : Set(k, s) /\ data' = [data EXCEPT ![k] = Stored(s)]
         \/ Increment(k) /\ Live(data[k]) /\ data' = [data EXCEPT ![k] = More(data[k])]
         \/ Increment(k) /\ ~ Live(data[k]) /\ data' = [data EXCEPT ![k] = First]
<1>1. ASSUME NEW s \in States, Set(k, s)
      PROVE  data' = [data EXCEPT ![k] = Stored(s)]
  BY <1>1, Zenon DEF Set, Stored
<1>2. ASSUME Increment(k)
      PROVE  data' = [data EXCEPT ![k] = IF Live(data[k]) THEN More(data[k]) ELSE First]
  BY <1>2, Zenon DEF Increment, Incremented, More, First, With
<1>3. ASSUME Increment(k), Live(data[k])
      PROVE  data' = [data EXCEPT ![k] = More(data[k])]
  BY <1>2, <1>3, Zenon
<1>4. ASSUME Increment(k), ~ Live(data[k])
      PROVE  data' = [data EXCEPT ![k] = First]
  BY <1>2, <1>4, Zenon
<1>5. QED
  BY <1>1, <1>3, <1>4, Zenon DEF Use

LEMMA LInvStep ==
  ASSUME LInv, [LNext]_lvars
  PROVE  LInv'
<1>1. /\ now \in Times /\ now \in Nat /\ sweepAt \in Times /\ sweepAt <= now
      /\ nextShard \in 0..NumShards /\ LedgerTypeOK
      /\ data \in [Keys -> Entry \cup {NoEntry}]
      /\ NoEntry \notin Entry /\ NumShards \in Nat /\ Times \subseteq Nat
  BY StoreFacts
<1>2. /\ closed \in BOOLEAN /\ overlap \in BOOLEAN /\ stopped \in BOOLEAN
      /\ closer \in [Closers -> {"idle", "default", "panicked"}]
  BY DEF LInv, LTypeOK
\* Who keeps the calls of Close as they are has to keep the store well formed.
<1>3. ASSUME UNCHANGED <<closed, closer, overlap>>, stopped' \in BOOLEAN,
             LedgerTypeOK', sweepAt' \in Times, sweepAt' <= now',
             nextShard' \in 0..NumShards, data' \in [Keys -> Entry \cup {NoEntry}]
      PROVE  LInv'
  BY <1>2, <1>3 DEF LInv, LTypeOK, StoreTypeOK
<1>4. CASE UNCHANGED lvars
  BY <1>1, <1>2, <1>3, <1>4 DEF lvars, vars, ledger, store, sweep, life, LedgerTypeOK
<1>5. CASE LTick
  <2>1. now' = now + 1 /\ UNCHANGED <<data, sweepAt, nextShard, life>>
    BY <1>5 DEF LTick, Tick, AdvanceClock, store, sweep
  <2>2. LedgerTypeOK'
    BY <1>1, <1>5, LedgerAssumption DEF LTick, Tick, AdvanceClock, LedgerTypeOK, Times
  <2>3. sweepAt' <= now'
    BY <1>1, <2>1
  <2>4. QED
    BY <1>1, <1>2, <1>3, <2>1, <2>2, <2>3 DEF life
<1>6. CASE StartSweep
  <2>1. /\ UNCHANGED <<now, admitted, before, reply, data, life>>
        /\ sweepAt' = now /\ nextShard' = 0
    BY <1>6 DEF StartSweep, BeginSweep, ledger
  <2>2. LedgerTypeOK'
    BY <1>1, <2>1 DEF LedgerTypeOK
  <2>3. QED
    BY <1>1, <1>2, <1>3, <2>1, <2>2 DEF life
<1>7. CASE Sweep
  <2>1. /\ UNCHANGED <<now, admitted, before, reply, sweepAt, life>>
        /\ nextShard' \in 0..NumShards
    BY <1>1, <1>7 DEF Sweep, SweepShard, ledger
  <2>2. data' \in [Keys -> Entry \cup {NoEntry}]
    BY <1>1, <1>7 DEF Sweep, SweepShard
  <2>3. LedgerTypeOK'
    BY <1>1, <2>1 DEF LedgerTypeOK
  <2>4. QED
    BY <1>1, <1>2, <1>3, <2>1, <2>2, <2>3 DEF life
<1>8. CASE Stop
  BY <1>1, <1>2, <1>3, <1>8 DEF Stop, vars, ledger, store, sweep, LedgerTypeOK
<1>9. ASSUME NEW k \in Keys, Use(k)
      PROVE  LInv'
  <2>1. ASSUME NEW e \in Entry, data' = [data EXCEPT ![k] = e], UNCHANGED <<ledger, sweep, life>>
        PROVE  LInv'
    <3>1. data' \in [Keys -> Entry \cup {NoEntry}]
      BY <1>1, <2>1
    <3>2. QED
      BY <1>1, <1>2, <1>3, <2>1, <3>1 DEF ledger, sweep, life, LedgerTypeOK
  <2>2. CASE Get(k)
    BY <1>1, <1>2, <1>3, <2>2 DEF Get, vars, ledger, store, sweep, life, LedgerTypeOK
  <2>3. CASE LReset(k)
    <3>1. /\ data' = [data EXCEPT ![k] = NoEntry] /\ Forget(k)
          /\ UNCHANGED <<now, sweepAt, nextShard, life>>
      BY <2>3 DEF LReset, Reset, Forget, sweep
    <3>2. LedgerTypeOK' /\ data' \in [Keys -> Entry \cup {NoEntry}]
      BY <1>1, <3>1 DEF Forget, LedgerTypeOK
    <3>3. QED
      BY <1>1, <1>2, <1>3, <3>1, <3>2 DEF life
  <2>4. ASSUME NEW s \in States, Set(k, s), data' = [data EXCEPT ![k] = Stored(s)]
        PROVE  LInv'
    BY <1>1, <2>1, <2>4, StoredEntry, StatesAssumption DEF Set
  <2>5. CASE Increment(k) /\ Live(data[k]) /\ data' = [data EXCEPT ![k] = More(data[k])]
    <3>1. data[k] \in Entry
      BY <1>1, <2>5 DEF Live
    <3>2. QED
      BY <1>1, <2>1, <2>5, <3>1, MoreEntry DEF Increment
  <2>6. CASE Increment(k) /\ ~ Live(data[k]) /\ data' = [data EXCEPT ![k] = First]
    BY <1>1, <2>1, <2>6, FirstEntry DEF Increment
  <2>7. QED
    BY <1>9, <2>2, <2>3, <2>4, <2>5, <2>6, UseStores
<1>10. ASSUME NEW c \in Closers, TryClose(c) \/ CloseChannel(c)
       PROVE  LInv'
  <2>1. /\ closed' \in BOOLEAN /\ overlap' \in BOOLEAN
        /\ closer' \in [Closers -> {"idle", "default", "panicked"}]
        /\ UNCHANGED <<vars, stopped>>
    BY <1>2, <1>10 DEF TryClose, CloseChannel
  <2>2. QED
    BY <1>1, <1>2, <2>1 DEF vars, ledger, store, sweep, LInv, LTypeOK, StoreTypeOK,
       LedgerTypeOK, Times
<1>11. QED
  BY <1>4, <1>5, <1>6, <1>7, <1>8, <1>9, <1>10 DEF LNext

\* Type correctness of the store that is used directly (memory.go:20-42).
THEOREM LifecycleTypeCorrect == LSpec => []LTypeOK
<1>1. LInv => LTypeOK
  BY DEF LInv
<1>2. QED
  BY <1>1, LInvInit, LInvStep, PTL DEF LSpec

LEMMA InTurnStep ==
  ASSUME LInv, ClosersInTurn, [LNext]_lvars
  PROVE  ClosersInTurn'
<1> USE DEF ClosersInTurn
<1>1. CASE UNCHANGED <<closed, closer, overlap>>
  BY <1>1
<1>2. ASSUME NEW c \in Closers, TryClose(c)
      PROVE  ClosersInTurn'
  BY <1>2 DEF TryClose, LInv, LTypeOK
<1>3. ASSUME NEW c \in Closers, CloseChannel(c)
      PROVE  ClosersInTurn'
  BY <1>3 DEF CloseChannel, LInv, LTypeOK
<1>4. ASSUME NEW k \in Keys, Use(k)
      PROVE  UNCHANGED <<closed, closer, overlap>>
  BY <1>4 DEF Use, Get, Set, Increment, LReset, life
<1>5. QED
  BY <1>1, <1>2, <1>3, <1>4 DEF LNext, lvars, life, LTick, StartSweep, Sweep, Stop

\* A call of Close panics only if it overlaps another one (memory.go:148-156),
\* however many there are and whatever else happens.
THEOREM PanicsOnlyOverlapping == LSpec => []PanicNeedsOverlap
<1> DEFINE Inv == LInv /\ ClosersInTurn
<1>1. LInit => Inv
  BY LInvInit DEF LInit, ClosersInTurn
<1>2. Inv /\ [LNext]_lvars => Inv'
  BY LInvStep, InTurnStep
<1>3. Inv => PanicNeedsOverlap
  BY DEF ClosersInTurn, PanicNeedsOverlap
<1> HIDE DEF Inv
<1>4. QED
  BY <1>1, <1>2, <1>3, PTL DEF LSpec

-----------------------------------------------------------------------------
(* The store implements the register *)

\* What the register has under key k, and until when.
Value(k) == IF Live(data[k]) THEN StateOf(data[k]) ELSE NoEntry
Until(k) == IF Live(data[k]) THEN data[k].expiresAt ELSE 0

Values  == [k \in Keys |-> Value(k)]
Untils  == [k \in Keys |-> Until(k)]
register == <<now, Values, Untils, answer>>

\* An operation on key k that puts there an entry that lives.
LEMMA PutValue ==
  ASSUME LInv, NEW k \in Keys, NEW e \in Entry, data' = [data EXCEPT ![k] = e],
         UNCHANGED now, now < e.expiresAt
  PROVE  /\ Values' = [Values EXCEPT ![k] = StateOf(e)]
         /\ Untils' = [Untils EXCEPT ![k] = e.expiresAt]
<1>1. data \in [Keys -> Entry \cup {NoEntry}] /\ NoEntry \notin Entry
  BY StoreFacts
<1>2. \A j \in Keys : data'[j] = IF j = k THEN e ELSE data[j]
  BY <1>1
<1>3. \A j \in Keys : Value(j)' = IF j = k THEN StateOf(e) ELSE Value(j)
  BY <1>1, <1>2 DEF Value, Live, StateOf
<1>4. \A j \in Keys : Until(j)' = IF j = k THEN e.expiresAt ELSE Until(j)
  BY <1>1, <1>2 DEF Until, Live
<1>5. QED
  BY <1>3, <1>4 DEF Values, Untils

\* Who leaves every value and the deadline of every live one leaves the register.
LEMMA SameValues ==
  ASSUME \A k \in Keys : Value(k)' = Value(k) /\ Until(k)' = Until(k)
  PROVE  Values' = Values /\ Untils' = Untils
BY DEF Values, Untils

\* Get sees exactly what is there, and an expired entry is nothing.
LEMMA GetImplements ==
  ASSUME LInv, NEW k \in Keys, Get(k)
  PROVE  AsRegister!Get(k)
<1>1. data \in [Keys -> Entry \cup {NoEntry}]
  BY StoreFacts
<1>2. answer' = Seen(Value(k))
  <2>1. CASE Live(data[k])
    <3>1. data[k] \in Entry
      BY <1>1, <2>1 DEF Live
    <3>2. Value(k) = StateOf(data[k]) /\ StateOf(data[k]) # NoEntry
      BY <2>1, <3>1, StateOfEntry DEF Value
    <3>3. answer' = StateOf(data[k])
      BY <2>1, Zenon DEF Get
    <3>4. QED
      BY <3>2, <3>3, Zenon DEF Seen
  <2>2. CASE ~ Live(data[k])
    BY <2>2, Zenon DEF Get, Value, Seen
  <2>3. QED
    BY <2>1, <2>2
<1>3. UNCHANGED <<now, Values, Untils>>
  BY DEF Get, vars, ledger, store, Values, Untils, Value, Until, Live
<1>4. Values[k] = Value(k)
  BY DEF Values
<1>5. answer' = Seen(Values[k])
  BY <1>2, <1>4, Zenon
<1>6. QED
  BY <1>3, <1>5, Zenon DEF AsRegister!Get, Values, Untils, Value, Until

\* Set puts a new entry in place of whatever is there.
LEMMA SetImplements ==
  ASSUME PositiveTTL, LInv, NEW k \in Keys, NEW s \in States, Set(k, s),
         data' = [data EXCEPT ![k] = Stored(s)]
  PROVE  AsRegister!Set(k, s)
<1>1. now \in Nat /\ TTL \in Nat /\ s \in State
  BY StoreFacts, StatesAssumption
<1> DEFINE e == Stored(s)
<1>2. e \in Entry /\ StateOf(e) = s /\ e.expiresAt = now + TTL
  BY <1>1, StoredEntry
<1>3. data' = [data EXCEPT ![k] = e] /\ UNCHANGED now /\ answer' = NoAnswer
  BY DEF Set, ledger
<1> HIDE DEF e
<1>4. now < e.expiresAt
  BY <1>1, <1>2 DEF PositiveTTL
<1>5. Values' = [Values EXCEPT ![k] = StateOf(e)] /\ Untils' = [Untils EXCEPT ![k] = e.expiresAt]
  BY <1>2, <1>3, <1>4, PutValue
<1>6. Values' = [Values EXCEPT ![k] = s] /\ Untils' = [Untils EXCEPT ![k] = now + TTL]
  BY <1>2, <1>5, Zenon
<1>7. QED
  BY <1>3, <1>6, Zenon DEF AsRegister!Set, Values, Untils, Value, Until

\* Increment counts on from a value that is there, and else from nothing.
LEMMA IncrementImplements ==
  ASSUME PositiveTTL, LInv, NEW k \in Keys, Increment(k)
  PROVE  AsRegister!Increment(k)
<1>1. /\ now \in Nat /\ TTL \in Nat /\ data \in [Keys -> Entry \cup {NoEntry}]
  BY StoreFacts
<1> DEFINE e == Incremented(data[k])
           s == [Seen(Value(k)) EXCEPT !.count = Seen(Value(k)).count + 1, !.lastUpd = now]
           until == IF Live(data[k]) THEN data[k].expiresAt ELSE now + TTL
<1>2. /\ e \in Entry /\ StateOf(e) = s /\ e.expiresAt = until /\ now < until
      /\ Live(data[k]) <=> Value(k) # NoEntry
  <2>1. CASE Live(data[k])
    <3>1. data[k] \in Entry /\ now < data[k].expiresAt
      BY <1>1, <2>1 DEF Live
    <3>2. e = More(data[k])
      BY <2>1, Zenon DEF Incremented, More
    <3>3. Seen(Value(k)) = StateOf(data[k]) /\ Value(k) # NoEntry
      BY <2>1, <3>1, StateOfEntry DEF Value, Seen
    <3>4. /\ More(data[k]) \in Entry /\ More(data[k]).expiresAt = data[k].expiresAt
          /\ StateOf(More(data[k]))
               = [StateOf(data[k]) EXCEPT !.count = StateOf(data[k]).count + 1, !.lastUpd = now]
      BY <1>1, <3>1, MoreEntry
    <3>5. QED
      BY <2>1, <3>1, <3>2, <3>3, <3>4, Zenon
  <2>2. CASE ~ Live(data[k])
    <3>1. e = First
      BY <2>2, Zenon DEF Incremented, First, With
    <3>2. Seen(Value(k)) = NoState /\ Value(k) = NoEntry
      BY <2>2, Zenon DEF Value, Seen
    <3>3. /\ First \in Entry /\ First.expiresAt = now + TTL
          /\ StateOf(First) = [NoState EXCEPT !.count = NoState.count + 1, !.lastUpd = now]
      BY <1>1, FirstEntry
    <3>4. now < now + TTL
      BY <1>1 DEF PositiveTTL
    <3>5. QED
      BY <2>2, <3>1, <3>2, <3>3, <3>4, Zenon
  <2>3. QED
    BY <2>1, <2>2, Zenon
<1>3. data' = [data EXCEPT ![k] = e] /\ UNCHANGED now
      /\ answer' = [incremented |-> data'[k].count]
  BY DEF Increment, ledger
<1> HIDE DEF e, s, until
<1>4. Values' = [Values EXCEPT ![k] = StateOf(e)] /\ Untils' = [Untils EXCEPT ![k] = e.expiresAt]
  BY <1>2, <1>3, PutValue
<1>5. /\ Values' = [Values EXCEPT ![k] = s] /\ Untils' = [Untils EXCEPT ![k] = until]
      /\ Values[k] = Value(k) /\ Values'[k] = s
  <2>1. Values' = [Values EXCEPT ![k] = s] /\ Untils' = [Untils EXCEPT ![k] = until]
    BY <1>2, <1>4, Zenon
  <2>2. k \in DOMAIN Values /\ Values[k] = Value(k)
    BY DEF Values
  <2>3. Values'[k] = s
    BY <2>1, <2>2
  <2>4. QED
    BY <2>1, <2>2, <2>3
<1>6. answer' = [incremented |-> Values'[k].count]
  <2>1. data'[k] = e /\ s.count = e.count
    BY <1>1, <1>2, <1>3 DEF StateOf
  <2>2. QED
    BY <1>3, <1>5, <2>1, Zenon
<1>7. Untils' = IF Values[k] = NoEntry \/ FALSE THEN [Untils EXCEPT ![k] = now + TTL] ELSE Untils
  <2>1. CASE Live(data[k])
    <3>1. until = Untils[k] /\ Untils = [Untils EXCEPT ![k] = Untils[k]]
      BY <2>1 DEF until, Untils, Until
    <3>2. QED
      BY <1>2, <1>5, <2>1, <3>1, Zenon
  <2>2. CASE ~ Live(data[k])
    <3>1. until = now + TTL
      BY <2>2 DEF until
    <3>2. QED
      BY <1>2, <1>5, <2>2, <3>1, Zenon
  <2>3. QED
    BY <2>1, <2>2
<1>8. Values' = [Values EXCEPT ![k] = [Seen(Values[k]) EXCEPT
                                         !.count = Seen(Values[k]).count + 1, !.lastUpd = now]]
  BY <1>5, Zenon DEF s
<1>9. QED
  BY <1>3, <1>6, <1>7, <1>8, Zenon DEF AsRegister!Increment, Values, Untils, Value, Until

\* Reset leaves nothing under its key.
LEMMA ResetImplements ==
  ASSUME LInv, NEW k \in Keys, LReset(k)
  PROVE  AsRegister!Reset(k)
<1>1. data \in [Keys -> Entry \cup {NoEntry}]
  BY StoreFacts
<1>2. data' = [data EXCEPT ![k] = NoEntry] /\ UNCHANGED now /\ answer' = NoAnswer
  BY DEF LReset, Reset, Forget
<1>3. \A j \in Keys : data'[j] = IF j = k THEN NoEntry ELSE data[j]
  BY <1>1, <1>2
<1>4. \A j \in Keys : /\ Value(j)' = IF j = k THEN NoEntry ELSE Value(j)
                      /\ Until(j)' = IF j = k THEN 0 ELSE Until(j)
  BY <1>2, <1>3 DEF Value, Until, Live
<1>5. Values' = [Values EXCEPT ![k] = NoEntry] /\ Untils' = [Untils EXCEPT ![k] = 0]
  BY <1>4 DEF Values, Untils
<1>6. QED
  BY <1>2, <1>5, Zenon DEF AsRegister!Reset, Values, Untils, Value, Until

\* What is there goes at its deadline.
LEMMA TickImplements ==
  ASSUME LInv, LTick
  PROVE  AsRegister!Tick
<1>1. now \in Nat /\ data \in [Keys -> Entry \cup {NoEntry}]
  BY StoreFacts
<1>2. now < MaxTime /\ now' = now + 1 /\ UNCHANGED <<data, answer>>
  BY DEF LTick, Tick, AdvanceClock, store
<1>3. ASSUME NEW k \in Keys
      PROVE  /\ Value(k)' = IF now + 1 >= Until(k) THEN NoEntry ELSE Value(k)
             /\ Until(k)' = IF now + 1 >= Until(k) THEN 0 ELSE Until(k)
  <2>1. Live(data[k]) => data[k].expiresAt \in Int
    BY <1>1 DEF Live, Entry, Never
  <2>2. Live(data[k])' <=> Live(data[k]) /\ now + 1 < data[k].expiresAt
    BY <1>1, <1>2, <2>1 DEF Live, Entry, Never
  <2>3. CASE Live(data[k])
    BY <1>1, <1>2, <2>1, <2>2, <2>3 DEF Value, Until
  <2>4. CASE ~ Live(data[k])
    BY <1>1, <1>2, <2>2, <2>4 DEF Value, Until
  <2>5. QED
    BY <2>3, <2>4
<1>4. /\ Values' = [k \in Keys |-> IF now + 1 >= Untils[k] THEN NoEntry ELSE Values[k]]
      /\ Untils' = [k \in Keys |-> IF now + 1 >= Untils[k] THEN 0 ELSE Untils[k]]
  BY <1>3 DEF Values, Untils
<1>5. QED
  BY <1>2, <1>4, Zenon DEF AsRegister!Tick, Values, Untils, Value, Until

\* A sweep removes only what has expired: its clock value is from the past.
LEMMA SweepImplements ==
  ASSUME LInv, Sweep
  PROVE  UNCHANGED register
<1>1. /\ now \in Nat /\ sweepAt \in Nat /\ sweepAt <= now
      /\ data \in [Keys -> Entry \cup {NoEntry}]
  BY StoreFacts
<1>2. UNCHANGED <<now, answer>>
  BY DEF Sweep, SweepShard, ledger
<1>3. ASSUME NEW k \in Keys
      PROVE  \/ data'[k] = data[k]
             \/ data'[k] = NoEntry /\ ~ Live(data[k])
  <2>1. \/ data'[k] = data[k]
        \/ data'[k] = NoEntry /\ data[k] # NoEntry /\ sweepAt > data[k].expiresAt
    BY DEF Sweep, SweepShard
  <2>2. data[k] # NoEntry => data[k].expiresAt \in Int
    BY <1>1 DEF Entry, Never
  <2>3. QED
    BY <1>1, <2>1, <2>2 DEF Live
<1>4. ASSUME NEW k \in Keys
      PROVE  Value(k)' = Value(k) /\ Until(k)' = Until(k)
  BY <1>2, <1>3 DEF Value, Until, Live
<1>5. QED
  BY <1>2, <1>4, SameValues DEF register

LEMMA LInitImplements ==
  ASSUME LInit
  PROVE  AsRegister!Init
BY DEF AsRegister!Init, LInit, StoreInit, LedgerInit, Live

LEMMA LStepImplements ==
  ASSUME PositiveTTL, LInv, [LNext]_lvars
  PROVE  [AsRegister!Next]_register
<1>1. ASSUME UNCHANGED <<now, data, answer>>
      PROVE  UNCHANGED register
  BY <1>1 DEF register, Values, Untils, Value, Until, Live
<1>2. ASSUME NEW k \in Keys, Use(k)
      PROVE  AsRegister!Next
  <2>1. \/ AsRegister!Get(k) \/ AsRegister!Increment(k) \/ AsRegister!Reset(k)
        \/ \E s \in States : AsRegister!Set(k, s)
    BY <1>2, UseStores, GetImplements, SetImplements, IncrementImplements, ResetImplements
  <2>2. QED
    BY <2>1, Zenon DEF AsRegister!Next
<1>3. CASE LTick
  BY <1>3, TickImplements, Zenon DEF AsRegister!Next
<1>4. CASE Sweep
  BY <1>4, SweepImplements
<1>5. CASE StartSweep \/ Stop \/ UNCHANGED lvars
  BY <1>1, <1>5 DEF StartSweep, BeginSweep, Stop, ledger, lvars, vars, store
<1>6. ASSUME NEW c \in Closers, TryClose(c) \/ CloseChannel(c)
      PROVE  UNCHANGED register
  BY <1>1, <1>6 DEF TryClose, CloseChannel, vars, ledger, store
<1>7. QED
  BY <1>2, <1>3, <1>4, <1>5, <1>6 DEF LNext

\* Get, Set, Increment and Reset of the in-memory store are those of a register
\* with deadlines (memory.go:67-145, 459-471), for any entries that live for a
\* while, whatever the cleanup does with clock values from the past.
THEOREM RegisterImplemented ==
  ASSUME PositiveTTL
  PROVE  LSpec => ImplementsRegister
<1>1. LInit => LInv /\ AsRegister!Init
  BY LInvInit, LInitImplements
<1>2. LInv /\ [LNext]_lvars => LInv' /\ [AsRegister!Next]_register
  BY LInvStep, LStepImplements
<1>3. QED
  BY <1>1, <1>2, PTL
  DEF LSpec, ImplementsRegister, AsRegister!Spec, register, Values, Untils, Value, Until

-----------------------------------------------------------------------------
(* New and its options *)

\* What a caller of New can give.
AnyOption == UNION {{Option(f, v) : v \in TypeOf(f)} : f \in Fields}

\* Of the first n options the last one for field f has value v, or there is
\* none and v is the default.
Stands(f, n, v) ==
  \/ \E i \in 1..n : /\ given[i].field = f /\ given[i].arg = v
                     /\ \A j \in (i + 1)..n : given[j].field # f
  \/ v = DefaultOptions[f] /\ \A j \in 1..n : given[j].field # f

OptionsOK ==
  /\ DOMAIN o = Fields
  /\ \A f \in Fields : o[f] \in TypeOf(f)

\* The loop has applied the options before applied, and what New has returned is
\* made of all of them.
ConfigurationInv ==
  /\ given \in Seq(AnyOption) /\ OptionsOK
  /\ pc \in {"collect", "apply", "returned"}
  /\ applied \in 0..Len(given)
  /\ pc # "collect" => \A f \in Fields : Stands(f, applied, o[f])
  /\ pc = "returned" => applied = Len(given) /\ limiter = Limiter(o)

LEMMA DefaultsType ==
  /\ DOMAIN DefaultOptions = Fields
  /\ \A f \in Fields : DefaultOptions[f] \in TypeOf(f)
<1>1. DOMAIN DefaultOptions = Fields
  BY DEF DefaultOptions, Fields, Numbers
<1>2. \A f \in Numbers : DefaultOptions[f] \in Int
  BY DurationAssumption DEF DefaultOptions, Numbers
<1>3. DefaultOptions["algorithm"] = "TokenBucket" /\ DefaultOptions["store"] = NilStore
  BY DEF DefaultOptions
<1>4. ASSUME NEW f \in Fields
      PROVE  DefaultOptions[f] \in TypeOf(f)
  <2>1. CASE f \in Numbers
    BY <1>2, <2>1 DEF TypeOf
  <2>2. CASE f = "algorithm"
    BY <1>3, <2>2, ChoicesAssumption DEF TypeOf, Numbers, Kinds
  <2>3. CASE f = "store"
    BY <1>3, <2>3, DistinctAssumption DEF TypeOf, Numbers
  <2>4. QED
    BY <2>1, <2>2, <2>3 DEF Fields
<1>5. QED
  BY <1>1, <1>4

LEMMA ChoiceType ==
  ASSUME NEW c \in AnyOption
  PROVE  c.field \in Fields /\ c.arg \in TypeOf(c.field)
BY DEF AnyOption, Option

LEMMA ApplyStep ==
  ASSUME ConfigurationInv, Apply
  PROVE  ConfigurationInv'
<1> DEFINE c == given[applied + 1]
<1>1. /\ pc = "apply" /\ pc' = pc /\ given' = given
      /\ applied' = applied + 1 /\ o' = [o EXCEPT ![c.field] = c.arg]
  BY DEF Apply
<1>2. /\ given \in Seq(AnyOption) /\ applied \in Nat /\ applied + 1 \in 1..Len(given)
      /\ DOMAIN o = Fields /\ \A f \in Fields : o[f] \in TypeOf(f) /\ Stands(f, applied, o[f])
  BY <1>1 DEF Apply, ConfigurationInv, OptionsOK
<1>3. c.field \in Fields /\ c.arg \in TypeOf(c.field)
  BY <1>2, ChoiceType
<1>4. DOMAIN o' = Fields /\ \A f \in Fields : o'[f] = IF f = c.field THEN c.arg ELSE o[f]
  BY <1>1, <1>2, <1>3
<1>5. OptionsOK'
  BY <1>2, <1>3, <1>4 DEF OptionsOK
<1>6. ASSUME NEW f \in Fields
      PROVE  Stands(f, applied, o[f])'
  <2>1. CASE f = c.field
    BY <1>1, <1>2, <1>4, <2>1 DEF Stands
  <2>2. CASE f # c.field
    <3>1. Stands(f, applied, o[f]) /\ o'[f] = o[f]
      BY <1>2, <1>4, <2>2
    <3>2. QED
      BY <1>1, <1>2, <2>2, <3>1 DEF Stands
  <2>3. QED
    BY <2>1, <2>2
<1>7. QED
  BY <1>1, <1>2, <1>5, <1>6 DEF ConfigurationInv

LEMMA ConfigurationStep ==
  ASSUME ConfigurationInv, [ConfigurationNext]_cvars
  PROVE  ConfigurationInv'
<1>1. CASE AddOption
  <2>1. PICK f \in Fields : \E v \in Choices[f] : given' = Append(given, Option(f, v))
    BY <1>1 DEF AddOption
  <2>2. PICK v \in Choices[f] : given' = Append(given, Option(f, v))
    BY <2>1
  <2>3. Option(f, v) \in AnyOption
    BY <2>1, <2>2, ChoicesAssumption DEF AnyOption
  <2>4. QED
    BY <1>1, <2>2, <2>3 DEF AddOption, ConfigurationInv, OptionsOK
<1>2. CASE CallNew
  <2>1. OptionsOK'
    BY <1>2, DefaultsType DEF CallNew, OptionsOK
  <2>2. \A f \in Fields : Stands(f, applied, o[f])'
    BY <1>2 DEF CallNew, Stands
  <2>3. QED
    BY <1>2, <2>1, <2>2 DEF CallNew, ConfigurationInv
<1>3. CASE Apply
  BY <1>3, ApplyStep
<1>4. CASE Return
  BY <1>4 DEF Return, ConfigurationInv, OptionsOK, Stands
<1>5. CASE StartOver
  BY <1>5, DefaultsType DEF StartOver, ConfigurationInv, OptionsOK
<1>6. CASE UNCHANGED cvars
  BY <1>6 DEF cvars, ConfigurationInv, OptionsOK, Stands
<1>7. QED
  BY <1>1, <1>2, <1>3, <1>4, <1>5, <1>6 DEF ConfigurationNext

\* When all options are applied each field is as the table says; and no store is
\* what stands for a new one.
LEMMA SettingStands ==
  ASSUME given \in Seq(AnyOption), NEW f \in Fields, NEW v \in TypeOf(f),
         Stands(f, Len(given), v)
  PROVE  Setting(f) = IF f = "store" /\ v = NilStore THEN NewMemory ELSE v
<1>1. DOMAIN given = 1..Len(given) /\ Len(given) \in Nat
  OBVIOUS
<1>2. v = NilStore => f = "store"
  BY DistinctAssumption DEF TypeOf, Fields, Numbers
<1>3. /\ Defaults["store"] = NewMemory /\ DefaultOptions["store"] = NilStore
      /\ f # "store" => DefaultOptions[f] = Defaults[f]
  BY DEF Defaults, DefaultOptions, Fields, Numbers
<1>4. CASE v = DefaultOptions[f] /\ \A j \in 1..Len(given) : given[j].field # f
  <2>1. LastGiven(f) = {}
    BY <1>1, <1>4 DEF LastGiven
  <2>2. QED
    BY <1>2, <1>3, <1>4, <2>1 DEF Setting
<1>5. ASSUME NEW i \in 1..Len(given), given[i].field = f, given[i].arg = v,
             \A j \in (i + 1)..Len(given) : given[j].field # f
      PROVE  Setting(f) = IF f = "store" /\ v = NilStore THEN NewMemory ELSE v
  <2>1. \A j \in LastGiven(f) : j = i
    BY <1>1, <1>5 DEF LastGiven
  <2>2. i \in LastGiven(f)
    BY <1>1, <1>5 DEF LastGiven
  <2>3. (CHOOSE j \in LastGiven(f) : TRUE) = i
    BY <2>1, <2>2
  <2>4. CASE v = NilStore
    BY <1>2, <1>3, <1>5, <2>1, <2>4 DEF Setting
  <2>5. CASE v # NilStore
    BY <1>5, <2>2, <2>3, <2>5 DEF Setting
  <2>6. QED
    BY <2>4, <2>5
<1>6. QED
  BY <1>4, <1>5 DEF Stands

\* A limiter made of options for a known algorithm with what it needs asks its
\* store as they say; other options make an error.
LEMMA LimiterAsks ==
  ASSUME OptionsOK, NEW s \in Stores \cup {NewMemory},
         s = IF o["store"] = NilStore THEN NewMemory ELSE o["store"],
         NEW kind, kind = o["algorithm"],
         NEW x, NEW y, NEW ttl,
         x = o[Needed(kind)[1]], y = o[Needed(kind)[2]],
         ttl = IF o["ttl"] # 0 THEN o["ttl"] ELSE IF kind = "TokenBucket" THEN Hour ELSE 2 * y
  PROVE  IF kind \notin DOMAIN Operation \/ x <= 0 \/ y <= 0
           THEN Limiter(o) = InvalidConfig
           ELSE /\ Limiter(o) # InvalidConfig
                /\ AllowN(Limiter(o), EmptyKey, 1) = InvalidKey
                /\ ResetKey(Limiter(o), EmptyKey) = InvalidKey
                /\ AllowN(Limiter(o), "key", 1) =
                     [op |-> Operation[kind], store |-> s,
                      key |-> "key", args |-> <<x, y, 1, ttl>>]
<1> DEFINE cfg == [o EXCEPT !.store = s]
<1>1. /\ s # NilStore /\ kind \in Algorithms
      /\ o["rate"] \in Int /\ o["capacity"] \in Int /\ o["limit"] \in Int
      /\ o["window"] \in Int /\ o["ttl"] \in Int
  BY DistinctAssumption DEF OptionsOK, TypeOf, Fields, Numbers
<1>2. /\ cfg.store = s /\ cfg.rate = o["rate"] /\ cfg.capacity = o["capacity"]
      /\ cfg.limit = o["limit"] /\ cfg.window = o["window"] /\ cfg.ttl = o["ttl"]
  BY DEF OptionsOK, Fields, Numbers
<1>3. DOMAIN Operation = Kinds /\ Needed("TokenBucket") = <<"rate", "capacity">>
      /\ \A k \in Kinds \ {"TokenBucket"} : Needed(k) = <<"limit", "window">>
  BY DEF Operation, Needed, Kinds
<1> HIDE DEF cfg
<1>4. Limiter(o) = CASE kind = "TokenBucket"          -> NewTokenBucket(cfg)
                     [] kind = "FixedWindow"          -> NewFixedWindow(cfg)
                     [] kind = "SlidingWindow"        -> NewSlidingWindow(cfg)
                     [] kind = "SlidingWindowCounter" -> NewSlidingWindowCounter(cfg)
                     [] OTHER                         -> InvalidConfig
  <2>1. cfg = [o EXCEPT !.store = IF @ = NilStore THEN NewMemory ELSE @]
    BY <1>1 DEF cfg, OptionsOK, Fields
  <2>2. QED
    BY <2>1, Zenon DEF Limiter
<1>5. CASE kind = "TokenBucket"
  <2>1. x = o["rate"] /\ y = o["capacity"] /\ Limiter(o) = NewTokenBucket(cfg)
    BY <1>3, <1>4, <1>5
  <2>2. CASE x <= 0 \/ y <= 0
    BY <1>2, <2>1, <2>2 DEF NewTokenBucket
  <2>3. CASE ~ (x <= 0 \/ y <= 0)
    <3> DEFINE l == [kind |-> kind, store |-> s, rate |-> x, capacity |-> y, ttl |-> ttl]
    <3>1. ttl \in Int /\ ttl = IF o["ttl"] = 0 THEN Hour ELSE o["ttl"]
      BY <1>1, <1>5, DurationAssumption
    <3>2. Limiter(o) = l
      BY <1>1, <1>2, <1>5, <2>1, <2>3, <3>1 DEF NewTokenBucket
    <3>3. l # InvalidConfig
      BY <1>1, <1>5, <2>1, <3>1, DistinctAssumption DEF Kinds
    <3>4. AllowN(l, EmptyKey, 1) = TokenBucketAllowN(l, EmptyKey, 1)
          /\ AllowN(l, "key", 1) = TokenBucketAllowN(l, "key", 1)
      BY <1>5 DEF AllowN
    <3>5. Operation[kind] = "AllowTokenBucket" /\ kind \in DOMAIN Operation
      BY <1>5 DEF Operation
    <3>6. QED
      BY <2>3, <3>2, <3>3, <3>4, <3>5 DEF TokenBucketAllowN, Ask, ResetKey, EmptyKey
  <2>4. QED
    BY <2>2, <2>3
<1>6. ASSUME kind \in Kinds \ {"TokenBucket"}
      PROVE  IF x <= 0 \/ y <= 0
               THEN Limiter(o) = InvalidConfig
               ELSE Limiter(o) = [kind |-> kind, store |-> s, limit |-> x, window |-> y,
                                  ttl |-> ttl]
                    /\ Limiter(o) # InvalidConfig
  <2>1. x = o["limit"] /\ y = o["window"] /\ x \in Int /\ y \in Int
    BY <1>1, <1>3, <1>6
  <2>2. ttl \in Int /\ ttl = IF o["ttl"] = 0 THEN 2 * y ELSE o["ttl"]
    BY <1>1, <1>6, <2>1
  <2>3. Limiter(o) = NewWindowed(kind, cfg)
    BY <1>4, <1>6 DEF Kinds, NewFixedWindow, NewSlidingWindow, NewSlidingWindowCounter
  <2>4. Limiter(o) = IF x <= 0 \/ y <= 0 THEN InvalidConfig
                     ELSE [kind |-> kind, store |-> s, limit |-> x, window |-> y, ttl |-> ttl]
    BY <1>1, <1>2, <2>1, <2>2, <2>3 DEF NewWindowed
  <2>5. [kind |-> kind, store |-> s, limit |-> x, window |-> y, ttl |-> ttl] # InvalidConfig
    BY <1>1, <1>6, <2>1, <2>2, DistinctAssumption
  <2>6. QED
    BY <2>4, <2>5
<1>7. CASE kind \in Kinds \ {"TokenBucket"} /\ ~ (x <= 0 \/ y <= 0)
  <2> DEFINE l == [kind |-> kind, store |-> s, limit |-> x, window |-> y, ttl |-> ttl]
  <2>1. Limiter(o) = l /\ l # InvalidConfig
    BY <1>6, <1>7
  <2>2. ASSUME NEW key \in {EmptyKey, "key"}
        PROVE  AllowN(l, key, 1) = Ask(l, Operation[kind], key, <<x, y, 1, ttl>>)
    <3>1. CASE kind = "FixedWindow"
      BY <3>1 DEF AllowN, FixedWindowAllowN, Operation
    <3>2. CASE kind = "SlidingWindow"
      BY <3>2 DEF AllowN, SlidingWindowAllowN, Operation
    <3>3. CASE kind = "SlidingWindowCounter"
      BY <3>3 DEF AllowN, SlidingWindowCounterAllowN, Operation
    <3>4. QED
      BY <1>7, <3>1, <3>2, <3>3 DEF Kinds
  <2>3. QED
    BY <1>3, <1>7, <2>1, <2>2 DEF Ask, ResetKey, EmptyKey
<1>8. CASE kind \in Kinds \ {"TokenBucket"} /\ (x <= 0 \/ y <= 0)
  BY <1>6, <1>8
<1>9. CASE kind \notin Kinds
  <2>1. Limiter(o) = InvalidConfig
    BY <1>4, <1>9 DEF Kinds
  <2>2. QED
    BY <1>3, <1>9, <2>1
<1>10. QED
  BY <1>5, <1>7, <1>8, <1>9 DEF Kinds

LEMMA ConfigurationAsks ==
  ASSUME ConfigurationInv
  PROVE  AsksAsConfigured
<1> SUFFICES ASSUME pc = "returned"
             PROVE  AsksAsConfigured
  BY DEF AsksAsConfigured
<1>1. /\ given \in Seq(AnyOption) /\ OptionsOK
      /\ \A f \in Fields : Stands(f, Len(given), o[f])
      /\ limiter = Limiter(o)
  BY DEF ConfigurationInv
<1>2. \A f \in Fields :
        Setting(f) = IF f = "store" /\ o[f] = NilStore THEN NewMemory ELSE o[f]
  BY <1>1, SettingStands DEF OptionsOK
<1>3. /\ Setting("algorithm") = o["algorithm"] /\ Setting("ttl") = o["ttl"]
      /\ Setting("store") = IF o["store"] = NilStore THEN NewMemory ELSE o["store"]
      /\ Setting("store") \in Stores \cup {NewMemory}
  BY <1>1, <1>2 DEF Fields, Numbers, OptionsOK, TypeOf
<1>4. \A kind : /\ Setting(Needed(kind)[1]) = o[Needed(kind)[1]]
                /\ Setting(Needed(kind)[2]) = o[Needed(kind)[2]]
  BY <1>2 DEF Needed, Fields, Numbers
<1> DEFINE kind == Setting("algorithm")
           x == Setting(Needed(kind)[1])
           y == Setting(Needed(kind)[2])
           s == Setting("store")
           ttl == IF Setting("ttl") # 0 THEN Setting("ttl")
                  ELSE IF kind = "TokenBucket" THEN Hour ELSE 2 * y
<1>5. /\ kind = o["algorithm"] /\ x = o[Needed(kind)[1]] /\ y = o[Needed(kind)[2]]
      /\ ttl = IF o["ttl"] # 0 THEN o["ttl"] ELSE IF kind = "TokenBucket" THEN Hour ELSE 2 * y
      /\ s \in Stores \cup {NewMemory}
      /\ s = IF o["store"] = NilStore THEN NewMemory ELSE o["store"]
  BY <1>3, <1>4
<1>6. ASSUME IF kind \notin DOMAIN Operation \/ x <= 0 \/ y <= 0
               THEN limiter = InvalidConfig
               ELSE /\ limiter # InvalidConfig
                    /\ AllowN(limiter, EmptyKey, 1) = InvalidKey
                    /\ ResetKey(limiter, EmptyKey) = InvalidKey
                    /\ AllowN(limiter, "key", 1) =
                         [op |-> Operation[kind], store |-> s,
                          key |-> "key", args |-> <<x, y, 1, ttl>>]
      PROVE  AsksAsConfigured
  BY <1>6, Zenon DEF AsksAsConfigured
<1> HIDE DEF kind, x, y, s, ttl
<1>7. IF kind \notin DOMAIN Operation \/ x <= 0 \/ y <= 0
        THEN Limiter(o) = InvalidConfig
        ELSE /\ Limiter(o) # InvalidConfig
             /\ AllowN(Limiter(o), EmptyKey, 1) = InvalidKey
             /\ ResetKey(Limiter(o), EmptyKey) = InvalidKey
             /\ AllowN(Limiter(o), "key", 1) =
                  [op |-> Operation[kind], store |-> s,
                   key |-> "key", args |-> <<x, y, 1, ttl>>]
  <2>1. OptionsOK /\ o["algorithm"] = kind
    BY <1>1, <1>5
  <2>2. QED
    BY <1>5, <2>1, LimiterAsks
<1>8. QED
  BY <1>1, <1>6, <1>7, Zenon

\* New does what its options say, whatever options its caller gives.
THEOREM OptionsRespected == ConfigurationSpec => []AsksAsConfigured
<1>1. ConfigurationInit => ConfigurationInv
  BY DefaultsType DEF ConfigurationInit, ConfigurationInv, OptionsOK
<1>2. ConfigurationInv /\ [ConfigurationNext]_cvars => ConfigurationInv'
  BY ConfigurationStep
<1>3. ConfigurationInv => AsksAsConfigured
  BY ConfigurationAsks
<1>4. QED
  BY <1>1, <1>2, <1>3, PTL DEF ConfigurationSpec

=============================================================================
