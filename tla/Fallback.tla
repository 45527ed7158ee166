------------------------------ MODULE Fallback ------------------------------
(***************************************************************************)
(* The fallback store: the breaker of Breaker with the requests that go    *)
(* through it and the two stores that answer them, and Reset, which clears *)
(* the stores one after the other while requests go on.                    *)
(*                                                                         *)
(* How a store decides is the subject of MemoryLimiters and RedisStore.    *)
(* Here a store only has entries, which every call that it answers leaves, *)
(* admitted or refused: those left since the last Reset began are "new",   *)
(* those from before are "old".  A call of either store that fails may     *)
(* have had its effect there or not.                                       *)
(***************************************************************************)
EXTENDS Breaker

VARIABLES
  hasPrimary, \* has the store been given a primary store?
  request,    \* of each caller: "done", "asked", or "failed" in the primary store
  primary,    \* the entries in the primary store
  secondary,  \* the entries in the secondary store
  reset,      \* the Reset of the store: about to clear the secondary store after
              \*   the primary one was "cleared" or has "failed"; or it has returned,
              \*   with "nil" or because of the failure of one store or of both
  diverted    \* has the breaker ever sent a request to the secondary store?

stores == <<primary, secondary>>
Returned == {"nil", "primary", "secondary", "both"}

fvars == <<vars, hasPrimary, request, stores, reset, diverted>>

Entries == SUBSET {"old", "new"}

FallbackTypeOK ==
  /\ TypeOK
  /\ hasPrimary \in BOOLEAN
  /\ request \in [Callers -> {"done", "asked", "failed"}]
  /\ primary \in Entries /\ secondary \in Entries
  /\ reset \in {"cleared", "failed"} \cup Returned
  /\ diverted \in BOOLEAN

FInit ==
  /\ Init
  /\ hasPrimary \in BOOLEAN
  /\ request = [c \in Callers |-> "done"]
  /\ primary = {} /\ secondary = {}
  /\ reset = "nil"
  /\ diverted = FALSE

-----------------------------------------------------------------------------
(* The Allow operations *)

\* A request begins with the first step of the breaker's Allow; without a
\* primary store the breaker is not asked.
Ask(c) ==
  /\ request[c] = "done"
  /\ IF hasPrimary THEN LoadState(c) ELSE pc[c] = "idle" /\ UNCHANGED vars
  /\ request' = [request EXCEPT ![c] = "asked"]
  /\ UNCHANGED <<hasPrimary, stores, reset, diverted>>

\* The rest of the breaker's operations.
InBreaker(c) ==
  /\ \/ Sample(c) \/ CheckDeadline(c) \/ Cas(c) \/ ZeroSuccesses(c) \/ Recheck(c)
     \/ ReportSuccess(c) \/ ReportFailure(c)
  /\ UNCHANGED <<hasPrimary, request, stores, reset, diverted>>

MutPrimaryAnswers(c) ==
  /\ Go(c, "call", "fail")
  /\ UNCHANGED <<state, counters, openUntil, mu, now, t, budgets>>
  /\ request' = [request EXCEPT ![c] = "done"]
  /\ primary' = primary \cup {"new"}
  /\ UNCHANGED <<hasPrimary, secondary, reset, diverted>>

\* The answer is that of the primary store, admitted or refused; what is left
\* is to report the success.
PrimaryAnswers(c) ==
  /\ CallSucceeds(c)
  /\ request' = [request EXCEPT ![c] = "done"]
  /\ primary' = primary \cup {"new"}
  /\ UNCHANGED <<hasPrimary, secondary, reset, diverted>>

PrimaryFails(c) ==
  /\ CallFails(c)
  /\ request' = [request EXCEPT ![c] = "failed"]
  /\ primary' \in {primary, primary \cup {"new"}}
  /\ UNCHANGED <<hasPrimary, secondary, reset, diverted>>

MutAskSecondary(c) ==
  /\ pc[c] = "idle" /\ request[c] = "failed"
  /\ request' = [request EXCEPT ![c] = "done"]
  /\ secondary' \in {secondary, secondary \cup {"new"}}
  /\ UNCHANGED <<vars, hasPrimary, primary, reset, diverted>>

\* The breaker did not admit the request, or its failure is reported: what the
\* secondary store returns is returned, an answer or its error.
AskSecondary(c) ==
  /\ pc[c] = "idle" /\ request[c] # "done"
  /\ request' = [request EXCEPT ![c] = "done"]
  /\ secondary' \in {secondary, secondary \cup {"new"}}
  /\ diverted' = (diverted \/ (hasPrimary /\ request[c] = "asked"))
  /\ UNCHANGED <<vars, hasPrimary, primary, reset>>

-----------------------------------------------------------------------------
(* Reset of the store; the breaker is not touched *)

Aged(entries) == IF entries = {} THEN {} ELSE {"old"}

\* The primary store, if there is one, is cleared, or the call fails with or
\* without effect.
ResetPrimary ==
  /\ reset \in Returned
  /\ \/ reset' = "cleared" /\ primary' = {}
     \/ hasPrimary /\ reset' = "failed" /\ primary' \in {{}, Aged(primary)}
  /\ secondary' = Aged(secondary)
  /\ UNCHANGED <<vars, hasPrimary, request, diverted>>

MutResetSecondary ==
  /\ \/ reset = "cleared" /\ reset' = "nil" /\ secondary' = {}
     \/ reset = "failed" /\ reset' = "primary" /\ UNCHANGED secondary
  /\ UNCHANGED <<vars, hasPrimary, request, primary, diverted>>

\* Then the secondary store, in any case, which may fail as well.  The error
\* returned is that of the primary store if it failed.
ResetSecondary ==
  /\ \/ reset = "cleared" /\ reset' = "nil" /\ secondary' = {}
     \/ reset = "failed" /\ reset' = "primary" /\ secondary' = {}
     \/ reset = "cleared" /\ reset' = "secondary" /\ secondary' \in {{}, secondary}
     \/ reset = "failed" /\ reset' = "both" /\ secondary' \in {{}, secondary}
  /\ UNCHANGED <<vars, hasPrimary, request, primary, diverted>>

-----------------------------------------------------------------------------

Serve(c) ==
  \/ Ask(c) \/ InBreaker(c)
  \/ PrimaryAnswers(c) \/ PrimaryFails(c) \/ AskSecondary(c)

FTick == Tick /\ UNCHANGED <<hasPrimary, request, stores, reset, diverted>>

FNext ==
  \/ FTick \/ ResetPrimary \/ ResetSecondary
  \/ \E c \in Callers : Serve(c)

FSpec == FInit /\ [][FNext]_fvars

\* As in Breaker; and a Reset that has begun goes on.
FFairSpec ==
  /\ FSpec
  /\ WF_fvars(FTick) /\ WF_fvars(ResetSecondary)
  /\ \A c \in Callers : SF_fvars(Serve(c))

-----------------------------------------------------------------------------

\* The breaker diverts requests only after as many calls of the primary store
\* have failed as its threshold says (fallback.go:85-93): answers that refuse a
\* request are no failures, nor is anything else that requests and Resets do.
DivertsOnlyAfterThreshold == diverted => failures >= FailureThreshold

\* What a Reset that has returned says of the stores is true of them
\* (fallback.go:68-82): without an error nothing is left in either that was there
\* before it began, whatever requests did meanwhile; the failure of one store
\* has not kept the other from being cleared.
ResetClearsBoth ==
  /\ reset \in {"nil", "primary"} => "old" \notin secondary
  /\ reset \in {"nil", "secondary"} => "old" \notin primary

\* Once a primary store stops failing, the secondary is in the end never
\* asked again, so that a key is not counted in two places for ever
\* (fallback.go:85-94).
ReturnsToPrimary == hasPrimary => <>[](\A c \in Callers : pc[c] = "idle" => request[c] = "done")

\* Every request returns, with the answer of a store or with the error of the
\* secondary, whatever the breaker and the primary store did with it
\* (fallback.go:84-94).
EveryRequestReturns == \A c \in Callers : request[c] # "done" ~> request[c] = "done"

=============================================================================
