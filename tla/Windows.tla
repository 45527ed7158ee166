------------------------------- MODULE Windows -------------------------------
(***************************************************************************)
(* The parameters of the limiters with a window: windows aligned to the    *)
(* wall clock, whose milliseconds have Milli ticks each, and counts that   *)
(* are machine integers no greater than IntMax.                            *)
(***************************************************************************)
EXTENDS Ledger

CONSTANTS Limit, Window, Milli, IntMax

ASSUME WindowAssumption ==
  /\ Limit \in Nat \ {0}
  /\ Window \in Nat \ {0}
  /\ Milli \in Nat \ {0}
  /\ IntMax \in Nat /\ Limit <= IntMax

\* Addition of two int64 values that are not both negative wraps around.
Plus(a, b) == IF a + b > IntMax THEN a + b - 2 * (IntMax + 1) ELSE a + b

\* The window that is counted: whole milliseconds, at least one.
SpanMs == IF Window \div Milli = 0 THEN 1 ELSE Window \div Milli
Span == SpanMs * Milli

WindowNum(at) == at \div Span
WindowStart(at) == WindowNum(at) * Span
WindowEnd(at) == (WindowNum(at) + 1) * Span

\* Milliseconds of the current window that have passed, and that are left.
Passed(at) == (at - WindowStart(at)) \div Milli
Left(at) == SpanMs - Passed(at)

\* The weight 1 - Passed / SpanMs is a float64: the product with the previous
\* count can fall just short of a whole number, and is then cut to one less.
Slips(prev, at) ==
  IF Passed(at) > 0 /\ prev > 0 /\ (prev * Left(at)) % SpanMs = 0 THEN {0, 1} ELSE {0}

=============================================================================
