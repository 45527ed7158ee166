----------------------------- MODULE Middleware -----------------------------
(***************************************************************************)
(* The HTTP middleware: requests that are served concurrently by one of    *)
(* the five adapters in front of a fixed window limiter with an in-memory  *)
(* store.  The adapters share their decisions and differ in how a refused  *)
(* request is kept from the handler and in the Retry-After header.         *)
(*                                                                         *)
(* The limiter fails only when the request's context is cancelled, which   *)
(* the store looks at before anything else.  Handlers and error handlers   *)
(* are single steps.                                                       *)
(***************************************************************************)
EXTENDS FixedWindow

CONSTANTS
  Requests,  \* the requests that can be in progress at a time
  Key,       \* what the key extractor yields, unless it yields nothing
  Second     \* ticks in a second

ASSUME MiddlewareAssumption ==
  /\ Key \in WindowKeys /\ 1 \in Costs
  /\ Second \in Nat \ {0}

VARIABLES
  adapter,  \* which adapter serves the requests
  closed,   \* is the fail strategy FailClosed?
  req,      \* the requests in progress
  served    \* under FailClosed: for each window, the requests handled that
            \*   the limiter was asked about in it

mvars == <<vars, adapter, closed, req, served>>

Adapters == {"stdlib", "chi", "gin", "echo", "fiber"}

NoHeader == -1

\* A request: "asked" is when the limiter answered, "wait" the RetryAfter of the
\* answer; "reset" and "retry" are the headers RateLimit-Reset and Retry-After.
Request ==
  [pc : {"absent", "ask", "headers", "failed", "refuse", "next", "returned", "done"},
   verdict : {"none", "bypassed", "allowed", "refused", "error"},
   asked : Times, wait : Nat, reset : Nat, retry : Nat \cup {NoHeader},
   aborted : BOOLEAN, handled : {0, 1}, status : {0, 200, 429, 500}]

\* One that has not arrived yet.
Absent == [pc |-> "absent", verdict |-> "none", asked |-> 0, wait |-> 0,
           reset |-> 0, retry |-> NoHeader,
           aborted |-> FALSE, handled |-> 0, status |-> 0]

MInit ==
  /\ StoreInit
  /\ adapter \in Adapters /\ closed \in BOOLEAN
  /\ req = [r \in Requests |-> Absent]
  /\ served = [w \in 0..WindowNum(MaxTime) |-> 0]

MutSeconds(d) == d \div Second

\* A duration cut to whole seconds, and not negative.
Seconds(d) == IF d < 0 THEN 0 ELSE d \div Second

-----------------------------------------------------------------------------

Keep == UNCHANGED <<vars, adapter, closed, served>>

Becomes(r, q) == req' = [req EXCEPT ![r] = q]

\* Skip, or an empty key, lets a request through; others are for the limiter.
Arrive(r) ==
  /\ req[r].pc = "absent"
  /\ \/ Becomes(r, [req[r] EXCEPT !.pc = "ask"])
     \/ Becomes(r, [req[r] EXCEPT !.pc = "next", !.verdict = "bypassed"])
  /\ Keep

\* Limiter.Allow.
LimiterAllow(r) ==
  /\ req[r].pc = "ask"
  /\ AllowFixedWindow(Key, 1)
  /\ LET d == DecideFixedWindow(data[Key], now, 1)
     IN  Becomes(r, [req[r] EXCEPT !.pc = "headers", !.asked = now, !.wait = d.retryAfter,
                                   !.verdict = IF d.allowed THEN "allowed" ELSE "refused"])
  /\ UNCHANGED <<adapter, closed, served>>

AllowFails(r) ==
  /\ req[r].pc = "ask"
  /\ Becomes(r, [req[r] EXCEPT !.pc = "failed", !.asked = now, !.verdict = "error"])
  /\ Keep

MutFailStrategy(r) ==
  /\ req[r].pc = "failed"
  /\ Becomes(r, [req[r] EXCEPT !.pc = "next"])
  /\ Keep

\* FailClosed responds with an error, and aborts gin's chain.
FailStrategy(r) ==
  /\ req[r].pc = "failed"
  /\ Becomes(r, IF closed
                   THEN [req[r] EXCEPT !.pc = "returned", !.aborted = TRUE, !.status = 500]
                   ELSE [req[r] EXCEPT !.pc = "next"])
  /\ Keep

\* setRateLimitHeaders reads the clock again, perhaps after ResetAt.
SetHeaders(r) ==
  /\ req[r].pc = "headers"
  /\ Becomes(r, [req[r] EXCEPT !.reset = Seconds(WindowEnd(req[r].asked) - now),
                               !.pc = IF req[r].verdict = "allowed" THEN "next" ELSE "refuse"])
  /\ Keep

MutErrorHandler(r) ==
  /\ req[r].pc = "refuse"
  /\ Becomes(r, [req[r] EXCEPT !.pc = "returned", !.status = 429,
                               !.retry = IF adapter \in {"stdlib", "fiber"}
                                           THEN Seconds(req[r].wait) ELSE NoHeader])
  /\ Keep

\* The error handler; only two adapters set Retry-After.  With gin the chain of
\* handlers is aborted after it.
ErrorHandler(r) ==
  /\ req[r].pc = "refuse"
  /\ Becomes(r, [req[r] EXCEPT !.pc = "returned", !.status = 429, !.aborted = TRUE,
                               !.retry = IF adapter \in {"stdlib", "fiber"}
                                           THEN Seconds(req[r].wait) ELSE NoHeader])
  /\ Keep

\* The next handler.
ServeHTTP(r) ==
  /\ req[r].pc = "next"
  /\ Becomes(r, [req[r] EXCEPT !.pc = "returned", !.handled = @ + 1, !.status = 200])
  /\ served' = IF closed /\ req[r].verdict # "bypassed"
                 THEN [served EXCEPT ![WindowNum(req[r].asked)] = @ + 1]
                 ELSE served
  /\ UNCHANGED <<vars, adapter, closed>>

\* gin goes on to the next handler when a middleware returns, unless that has
\* been done or the chain was aborted; elsewhere a return is the end.
Return(r) ==
  /\ req[r].pc = "returned"
  /\ Becomes(r, [req[r] EXCEPT !.pc = "done",
                               !.handled = IF adapter = "gin" /\ ~ req[r].aborted /\ @ = 0
                                             THEN 1 ELSE @])
  /\ Keep

\* The response is sent, and a new request can take the place.
Respond(r) ==
  /\ req[r].pc = "done"
  /\ Becomes(r, Absent)
  /\ Keep

Serve(r) ==
  \/ Arrive(r) \/ LimiterAllow(r) \/ AllowFails(r) \/ FailStrategy(r) \/ SetHeaders(r)
  \/ ErrorHandler(r) \/ ServeHTTP(r) \/ Return(r) \/ Respond(r)

MNext ==
  \/ Tick /\ UNCHANGED <<adapter, closed, req, served>>
  \/ \E r \in Requests : Serve(r)

MSpec == MInit /\ [][MNext]_mvars

-----------------------------------------------------------------------------

MTypeOK ==
  /\ StoreTypeOK
  /\ adapter \in Adapters /\ closed \in BOOLEAN
  /\ served \in [0..WindowNum(MaxTime) -> Nat]
  /\ req \in [Requests -> Request]

\* In every adapter a request is handled, once, exactly if it was not for the
\* limiter, or was admitted, or the limiter failed and the strategy is FailOpen
\* (stdlib.go:20-48, chi.go:43-77, gin.go:40-74, echo.go:51-79, fiber.go:43-83).
HandledAsDecided ==
  \A r \in Requests : req[r].pc = "done" =>
    CASE req[r].verdict \in {"bypassed", "allowed"} -> req[r].handled = 1 /\ req[r].status = 200
      [] req[r].verdict = "refused" -> req[r].handled = 0 /\ req[r].status = 429
      [] req[r].verdict = "error" /\ closed -> req[r].handled = 0 /\ req[r].status = 500
      [] OTHER -> req[r].handled = 1 /\ req[r].status = 200

\* Under FailClosed concurrent requests get no more past the middleware than
\* the limiter's limit for each of its windows (limiter.go:16).
ServedWithinLimit == \A w \in DOMAIN served : served[w] <= Limit

\* A refused client that adds one second to RateLimit-Reset or Retry-After, since
\* both are cut to whole seconds, is admitted if it is alone from now on
\* (middleware.go:47-57, fiber.go:71-79).  If the window that refused it is over
\* when the response is sent, other clients may have used up the next one.
WaitSuffices ==
  \A r \in Requests :
    /\ req[r].pc = "done" /\ req[r].verdict = "refused"
    /\ WindowNum(now) = WindowNum(req[r].asked)
    => \A h \in {req[r].reset, req[r].retry} \ {NoHeader} :
         DecideFixedWindow(data[Key], now + (h + 1) * Second, 1).allowed

=============================================================================
