----------------------------- MODULE RedisLegacy -----------------------------
(***************************************************************************)
(* The Redis store with Get, Set and Increment, for keys that no limiter   *)
(* uses.  The string at such a key is a State, as JSON, or a number.       *)
(* Increment sends INCR and EXPIRE in a pipeline, which is no transaction: *)
(* commands of other clients run between the two, and if the connection    *)
(* fails the second one may be lost.                                       *)
(***************************************************************************)
EXTENDS RedisStore

CONSTANTS
  PlainKeys,   \* the keys used with Get, Set and Increment
  States,      \* what Set is called with
  Second,      \* the ticks in a second, 1000 in truth
  MaxPipes,    \* bound: pipelines of a key that have begun and not ended
  NoAnswer,    \* the last operation of a client that is alone has no result
  EmptyState,  \* what Get returns of an absent key
  Failed       \* the operation returned an error

ASSUME PlainAssumption ==
  /\ PlainKeys \subseteq Keys
  /\ PlainKeys \cap (BucketKeys \cup WindowKeys \cup CounterKeys \cup LogKeys) = {}
  /\ MaxPipes \in Nat
  /\ Second \in Nat \ {0}

VARIABLES
  plain,    \* the string at fullKey, with its expiry
  pipes,    \* of each key, the pipelines whose INCR has run and whose EXPIRE has not
  unsafe,   \* has an EXPIRE of the key been lost, and the expiry not been set since?
  answer    \* the result of the last operation on a key with one client

legacy == <<plain, pipes, unsafe, answer>>
legacyVars == <<vars, legacy>>

\* EXPIRE takes whole seconds: go-redis drops the rest of a duration, but makes
\* one below a second a second.  SET and PEXPIRE have milliseconds.
WholeSeconds(d) == IF d < Second THEN Second ELSE Second * (d \div Second)

\* The ttl is the same for Set and Increment, but lasts this long after Increment.
CountTTL == WholeSeconds(TTL)

LongestTTL == IF TTL > CountTTL THEN TTL ELSE CountTTL

Number(i) == [number |-> i]
IsNumber(s) == s \notin States

\* The string at a key, with its expiry.
Plain == [string : States \cup [number : Nat \ {0}], expiresAt : Expiry]

ASSUME NoPlainAssumption == NoKey \notin Plain /\ NoKey \notin States \cup [number : Nat \ {0}]

LegacyTypeOK ==
  /\ TypeOK
  /\ plain \in [PlainKeys -> Plain \cup {NoKey}]
  /\ pipes \in [PlainKeys -> 0..MaxPipes]
  /\ unsafe \in [PlainKeys -> BOOLEAN]

LegacyInit ==
  /\ Init
  /\ plain = [k \in PlainKeys |-> NoKey]
  /\ pipes = [k \in PlainKeys |-> 0]
  /\ unsafe = [k \in PlainKeys |-> FALSE]
  /\ answer = NoAnswer

-----------------------------------------------------------------------------

\* A client that is alone waits for its pipeline, and for its Reset.
Free(k) == k \in SharedKeys \/ (pipes[k] = 0 /\ scan = NoScan)

Alone == PlainKeys \ SharedKeys

\* Results are recorded of clients that are alone.
Returns(k, a) == answer' = IF k \in Alone THEN a ELSE answer

\* A number is no JSON object.
Read(s) == IF IsNumber(s) THEN Failed ELSE s

Get(k) ==
  /\ Free(k)
  /\ Returns(k, IF plain[k] = NoKey THEN EmptyState ELSE Read(plain[k].string))
  /\ UNCHANGED <<vars, plain, pipes, unsafe>>

MutSet(k, s) ==
  /\ Free(k)
  /\ plain' = [plain EXCEPT ![k] =
                 [string |-> s, expiresAt |-> IF @ = NoKey THEN now + TTL ELSE @.expiresAt]]
  /\ unsafe' = [unsafe EXCEPT ![k] = FALSE]
  /\ Returns(k, NoAnswer)
  /\ UNCHANGED <<vars, pipes>>

\* SET also replaces the expiry.
Set(k, s) ==
  /\ Free(k)
  /\ plain' = [plain EXCEPT ![k] = [string |-> s, expiresAt |-> now + TTL]]
  /\ unsafe' = [unsafe EXCEPT ![k] = FALSE]
  /\ Returns(k, NoAnswer)
  /\ UNCHANGED <<vars, pipes>>

AfterIncr(e) ==
  CASE e = NoKey -> [string |-> Number(1), expiresAt |-> Never]
    [] e # NoKey /\ IsNumber(e.string) -> [e EXCEPT !.string.number = @ + 1]
    [] OTHER -> e

\* The first half of Increment; INCR fails on a State.
Incr(k) ==
  /\ Free(k) /\ pipes[k] < MaxPipes
  /\ plain' = [plain EXCEPT ![k] = AfterIncr(@)]
  /\ pipes' = [pipes EXCEPT ![k] = @ + 1]
  /\ Returns(k, IF IsNumber(plain'[k].string) THEN plain'[k].string ELSE Failed)
  /\ UNCHANGED <<vars, unsafe>>

\* The second half, which runs whether INCR failed or not.
Expire(k) ==
  /\ pipes[k] > 0
  /\ pipes' = [pipes EXCEPT ![k] = @ - 1]
  /\ plain' = [plain EXCEPT ![k] =
                 IF @ = NoKey THEN NoKey ELSE [@ EXCEPT !.expiresAt = now + CountTTL]]
  /\ unsafe' = [unsafe EXCEPT ![k] = FALSE]
  /\ UNCHANGED <<vars, answer>>

\* The connection fails in between, and Increment returns an error.
LoseExpire(k) ==
  /\ k \in SharedKeys /\ pipes[k] > 0
  /\ pipes' = [pipes EXCEPT ![k] = @ - 1]
  /\ unsafe' = [unsafe EXCEPT ![k] = TRUE]
  /\ UNCHANGED <<vars, plain, answer>>

\* The commands of a pipeline of a client that is alone arrive together.
LegacyTick ==
  /\ \A k \in Alone : pipes[k] = 0
  /\ Tick
  /\ plain' = [k \in PlainKeys |-> Alive(plain[k], now + 1)]
  /\ UNCHANGED <<pipes, unsafe, answer>>

LegacyBeginReset(k) ==
  /\ k \in PlainKeys => Free(k)
  /\ BeginReset(k)
  /\ UNCHANGED legacy

LegacyScan == (ScanPage \/ ScanEnds \/ ScanFails \/ DelFails) /\ UNCHANGED legacy

\* fullKey is always among the keys that are deleted.
LegacyDel ==
  /\ Del
  /\ plain' = [k \in PlainKeys |-> IF k = scan.key THEN NoKey ELSE plain[k]]
  /\ unsafe' = [k \in PlainKeys |-> unsafe[k] /\ k # scan.key]
  /\ Returns(scan.key, NoAnswer)
  /\ UNCHANGED pipes

LegacyResetting == LegacyScan \/ LegacyDel

Direct(k) == Get(k) \/ Incr(k) \/ Expire(k) \/ LoseExpire(k) \/ \E s \in States : Set(k, s)

LegacyAllow(k) == Allow(k) /\ UNCHANGED legacy

LegacyNext ==
  \/ LegacyTick \/ LegacyResetting
  \/ \E k \in Keys : LegacyAllow(k) \/ LegacyBeginReset(k)
  \/ \E k \in PlainKeys : Direct(k)

LegacySpec == LegacyInit /\ [][LegacyNext]_legacyVars

-----------------------------------------------------------------------------

\* Nothing stays in Redis for ever (redis.go:77, 110-112, 159-161, 200-201,
\* 269-283): whatever is stored has an expiry no later than the longest that is
\* ever given, or will have when the pipelines that have begun end, unless the
\* last word was that of an Increment that returned an error.
EveryKeyExpires ==
  /\ \A k \in Keys :
       LET stored == {bucket[k], log[k], seq[k]} \cup {counter[k][w] : w \in WindowNums}
           longest == IF TTL > 2 * Window THEN TTL ELSE 2 * Window
       IN  \A e \in stored \ {NoKey} : e.expiresAt \in now..(now + longest)
  /\ \A k \in PlainKeys :
       plain[k] # NoKey => \/ plain[k].expiresAt \in now..(now + LongestTTL)
                           \/ plain[k].expiresAt = Never /\ (pipes[k] > 0 \/ unsafe[k])

AsRegister == INSTANCE Register WITH
  Keys <- Alone,
  Values <- States,
  Nothing <- NoKey,
  value <- [k \in Alone |-> IF plain[k] = NoKey THEN NoKey ELSE plain[k].string],
  until <- [k \in Alone |-> CASE plain[k] = NoKey -> 0
                              [] plain[k] # NoKey /\ pipes[k] > 0 -> now + CountTTL + 1
                              [] OTHER -> plain[k].expiresAt + 1],
  TTL <- TTL + 1,
  CountTTL <- CountTTL + 1,
  Shown <- LAMBDA v : IF v = NoKey THEN EmptyState ELSE Read(v),
  Bumped <- LAMBDA v, t : CASE v = NoKey -> Number(1)
                            [] v # NoKey /\ IsNumber(v) -> Number(v.number + 1)
                            [] OTHER -> v,
  Counted <- LAMBDA v : IF IsNumber(v) THEN v ELSE Failed,
  Renews <- TRUE

\* A client that is alone has a value with a deadline under each key, as in the
\* in-memory store (redis.go:244-287), although an Increment is two commands and a
\* Reset is many; but here an Increment renews the deadline, by the whole seconds
\* of its ttl.  A value set after a count, or a count begun after a Reset, has a
\* deadline of its own.
LegacyImplementsRegister == AsRegister!Spec

=============================================================================
