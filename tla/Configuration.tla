---------------------------- MODULE Configuration ----------------------------
(***************************************************************************)
(* A call of New: its caller collects options, New applies them one after  *)
(* the other to the defaults and makes a limiter of the result.            *)
(***************************************************************************)
EXTENDS Limiters

CONSTANTS
  Algorithms, \* the values of an Algorithm, the four that have a name and others
  Stores,     \* the stores that callers have, and no store
  Choices,    \* for each field the values that callers give
  MaxOptions, \* bound: how many a call of New is given
  NoLimiter   \* New has not returned

Kinds   == {"TokenBucket", "FixedWindow", "SlidingWindow", "SlidingWindowCounter"}
Numbers == {"rate", "capacity", "limit", "window", "ttl"}
Fields  == Numbers \cup {"algorithm", "store"}

\* The values of a field.
TypeOf(f) == IF f \in Numbers THEN Int ELSE IF f = "algorithm" THEN Algorithms ELSE Stores

\* The With functions take values of the types of their fields.
ASSUME ChoicesAssumption ==
  /\ MaxOptions \in Nat /\ Kinds \subseteq Algorithms
  /\ \A f \in Fields : Choices[f] \subseteq TypeOf(f)

\* The store that New creates is new, and an error is no limiter.
ASSUME DistinctAssumption ==
  /\ NilStore \in Stores /\ NewMemory \notin Stores
  /\ NilStore \notin Int /\ NilStore \notin Algorithms
  /\ LET Store == Stores \cup {NewMemory}
     IN  InvalidConfig \notin
           [kind : Kinds, store : Store, rate : Int, capacity : Int, ttl : Int]
             \cup [kind : Kinds, store : Store, limit : Int, window : Int, ttl : Int]

VARIABLES
  pc,       \* "collect" before the call, "apply" in the loop, "returned"
  given,    \* the options of the call
  o,        \* the Options that New works on
  applied,  \* how many of the options it has applied
  limiter   \* what it has returned, a limiter or an error

cvars == <<pc, given, o, applied, limiter>>

ConfigurationInit ==
  /\ pc = "collect" /\ given = << >>
  /\ o = DefaultOptions /\ applied = 0
  /\ limiter = NoLimiter

-----------------------------------------------------------------------------

AddOption ==
  /\ pc = "collect" /\ Len(given) < MaxOptions
  /\ \E f \in Fields : \E v \in Choices[f] : given' = Append(given, Option(f, v))
  /\ UNCHANGED <<pc, o, applied, limiter>>

CallNew ==
  /\ pc = "collect" /\ pc' = "apply"
  /\ o' = DefaultOptions /\ applied' = 0
  /\ UNCHANGED <<given, limiter>>

\* The body of the loop over the options.
MutApply ==
  /\ pc = "apply" /\ applied < Len(given)
  /\ LET c == given[Len(given) - applied]
     IN  o' = [o EXCEPT ![c.field] = c.arg]
  /\ applied' = applied + 1
  /\ UNCHANGED <<pc, given, limiter>>

Apply ==
  /\ pc = "apply" /\ applied < Len(given)
  /\ LET c == given[applied + 1]
     IN  o' = [o EXCEPT ![c.field] = c.arg]
  /\ applied' = applied + 1
  /\ UNCHANGED <<pc, given, limiter>>

Return ==
  /\ pc = "apply" /\ applied = Len(given)
  /\ pc' = "returned" /\ limiter' = Limiter(o)
  /\ UNCHANGED <<given, o, applied>>

\* The caller prepares another call.
StartOver ==
  /\ pc = "returned" /\ pc' = "collect"
  /\ given' = << >> /\ o' = DefaultOptions
  /\ applied' = 0 /\ limiter' = NoLimiter

ConfigurationNext == AddOption \/ CallNew \/ Apply \/ Return \/ StartOver

ConfigurationSpec == ConfigurationInit /\ [][ConfigurationNext]_cvars

-----------------------------------------------------------------------------

\* README.md:283-290, a column of the table of options; the time to live is not
\* in it (options.go:130).
Defaults ==
  [algorithm |-> "TokenBucket", rate |-> 10, capacity |-> 20, limit |-> 100,
   window |-> Minute, store |-> NewMemory, ttl |-> Hour]

\* Where field f is given last, if it is.
LastGiven(f) ==
  {i \in DOMAIN given : given[i].field = f /\ \A j \in DOMAIN given : given[j].field = f => j <= i}

\* The option that was given last counts, or else the default.
Setting(f) ==
  IF \E i \in LastGiven(f) : given[i].arg # NilStore
    THEN given[CHOOSE i \in LastGiven(f) : TRUE].arg
    ELSE Defaults[f]

\* What an algorithm needs, and what its limiter calls.
Needed(kind) == IF kind = "TokenBucket" THEN <<"rate", "capacity">> ELSE <<"limit", "window">>

Operation ==
  [TokenBucket |-> "AllowTokenBucket", FixedWindow |-> "AllowFixedWindow",
   SlidingWindow |-> "AllowSlidingWindowLog",
   SlidingWindowCounter |-> "AllowSlidingWindowCounter"]

\* With any options New returns a limiter that asks the right store for the
\* algorithm, with the parameters and for the key and units it should, or, if a
\* parameter that the algorithm needs is not positive, an error; and an empty
\* key never reaches a store (options.go:135-185, limiters.go:38-101).  The fail
\* strategy and the key extractor, which New ignores, are not part of this.
AsksAsConfigured ==
  pc = "returned" =>
    LET kind == Setting("algorithm")
        x == Setting(Needed(kind)[1])
        y == Setting(Needed(kind)[2])
        ttl == IF Setting("ttl") # 0 THEN Setting("ttl")
               ELSE IF kind = "TokenBucket" THEN Hour ELSE 2 * y
    IN  IF kind \notin DOMAIN Operation \/ x <= 0 \/ y <= 0
          THEN limiter = InvalidConfig
          ELSE /\ limiter # InvalidConfig
               /\ AllowN(limiter, EmptyKey, 1) = InvalidKey
               /\ ResetKey(limiter, EmptyKey) = InvalidKey
               /\ AllowN(limiter, "key", 1) =
                    [op |-> Operation[kind], store |-> Setting("store"),
                     key |-> "key", args |-> <<x, y, 1, ttl>>]

=============================================================================
