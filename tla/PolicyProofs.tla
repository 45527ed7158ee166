----------------------------- MODULE PolicyProofs -----------------------------
(***************************************************************************)
(* What the proofs about every store need to know of windows and weights:  *)
(* lemmas for any limit and any window.                                    *)
(***************************************************************************)
EXTENDS Policies, TLAPS

-----------------------------------------------------------------------------
(* Windows *)

\* Integer division by a positive number, as the windows need it.
LEMMA Division ==
  ASSUME NEW a \in Nat, NEW b \in Nat \ {0}
  PROVE  /\ a \div b \in Nat
         /\ b * (a \div b) <= a
         /\ a < b * (a \div b) + b
OBVIOUS

LEMMA DivisionGrows ==
  ASSUME NEW x \in Nat, NEW y \in Nat, NEW m \in Nat \ {0}, x <= y
  PROVE  x \div m <= y \div m
<1> DEFINE p == x \div m
           q == y \div m
<1>1. p \in Nat /\ q \in Nat /\ m * p <= x /\ y < m * q + m
  BY Division
<1> HIDE DEF p, q
<1>2. m * p < m * (q + 1)
  <2>1. m * (q + 1) = m * q + m /\ m * q \in Nat /\ m * p \in Nat
    BY <1>1
  <2>2. QED
    BY <1>1, <2>1
<1>3. p < q + 1
  BY <1>1, <1>2
<1>4. QED
  BY <1>1, <1>3 DEF p, q

LEMMA SpanPositive == SpanMs \in Nat \ {0} /\ Span \in Nat \ {0}
<1>1. Window \div Milli \in Nat
  BY WindowAssumption, Division
<1>2. SpanMs \in Nat \ {0}
  BY <1>1 DEF SpanMs
<1>3. \A a, b \in Nat \ {0} : a * b \in Nat \ {0}
  OBVIOUS
<1>4. QED
  BY <1>2, <1>3, WindowAssumption DEF Span

LEMMA WindowTypes ==
  ASSUME NEW at \in Nat
  PROVE  WindowNum(at) \in Nat /\ WindowEnd(at) \in Nat
<1>1. WindowNum(at) \in Nat
  BY Division, SpanPositive DEF WindowNum
<1>2. \A a, b \in Nat : (a + 1) * b \in Nat
  OBVIOUS
<1>3. QED
  BY <1>1, <1>2, SpanPositive DEF WindowEnd

\* Time t is in its window.
LEMMA InWindow ==
  ASSUME NEW t \in Nat
  PROVE  /\ WindowNum(t) \in Nat
         /\ WindowStart(t) \in Nat /\ WindowStart(t) <= t
         /\ WindowEnd(t) = WindowStart(t) + Span /\ t < WindowEnd(t)
         /\ WindowEnd(t) = (WindowNum(t) + 1) * Span
<1>1. Span \in Nat \ {0}
  BY SpanPositive
<1>2. /\ WindowNum(t) \in Nat
      /\ Span * WindowNum(t) <= t /\ t < Span * WindowNum(t) + Span
  BY <1>1, Division DEF WindowNum
<1>3. \A w \in Nat : w * Span \in Nat /\ Span * w = w * Span /\ (w + 1) * Span = w * Span + Span
  BY <1>1
<1>4. QED
  <2> DEFINE w == WindowNum(t)
             m == w * Span
  <2>1. m \in Nat /\ Span * w = m /\ (w + 1) * Span = m + Span
    BY <1>2, <1>3
  <2>2. WindowStart(t) = m /\ WindowEnd(t) = (w + 1) * Span
    BY DEF WindowStart, WindowEnd
  <2> HIDE DEF m
  <2>3. QED
    BY <1>1, <1>2, <2>1, <2>2

\* Windows with greater numbers end later.
LEMMA EndsGrow ==
  ASSUME NEW v \in Nat, NEW w \in Nat, v < w
  PROVE  (v + 1) * Span <= w * Span
<1>1. Span \in Nat
  BY SpanPositive
<1>2. \A a, b \in Nat : a <= b => a * Span <= b * Span
  <2> SUFFICES ASSUME NEW a \in Nat, NEW b \in Nat, a <= b
               PROVE  a * Span <= b * Span
    OBVIOUS
  <2>1. PICK c \in Nat : b = a + c
    <3>1. b - a \in Nat /\ b = a + (b - a)
      OBVIOUS
    <3>2. QED
      BY <3>1
  <2>2. b * Span = a * Span + c * Span /\ c * Span \in Nat /\ a * Span \in Nat
    BY <1>1, <2>1
  <2>3. QED
    BY <2>2
<1>3. QED
  BY <1>2

\* A time that lies before the end of a window of number w and not before its
\* beginning is in that window.
LEMMA WindowUnique ==
  ASSUME NEW t \in Nat, NEW w \in Nat, w * Span <= t, t < (w + 1) * Span
  PROVE  WindowNum(t) = w
<1>1. /\ WindowNum(t) \in Nat
      /\ WindowNum(t) * Span <= t /\ t < (WindowNum(t) + 1) * Span
  BY InWindow DEF WindowStart
<1>2. Span \in Nat /\ \A v \in Nat : v * Span \in Nat
  <2>1. Span \in Nat
    BY SpanPositive
  <2>2. QED
    BY <2>1
<1>3. ~ (WindowNum(t) < w)
  <2> SUFFICES ASSUME WindowNum(t) < w
               PROVE  FALSE
    OBVIOUS
  <2>1. (WindowNum(t) + 1) * Span <= w * Span
    BY <1>1, EndsGrow
  <2>2. w * Span \in Nat /\ (WindowNum(t) + 1) * Span \in Nat
    BY <1>1, <1>2
  <2>3. QED
    BY <1>1, <2>1, <2>2
<1>4. ~ (w < WindowNum(t))
  <2> SUFFICES ASSUME w < WindowNum(t)
               PROVE  FALSE
    OBVIOUS
  <2>1. (w + 1) * Span <= WindowNum(t) * Span
    BY <1>1, EndsGrow
  <2>2. WindowNum(t) * Span \in Nat /\ (w + 1) * Span \in Nat
    BY <1>1, <1>2
  <2>3. QED
    BY <1>1, <2>1, <2>2
<1>5. QED
  BY <1>1, <1>3, <1>4

\* Only the first window begins before the end of the first window.
LEMMA FirstWindow ==
  ASSUME NEW t \in Nat, WindowStart(t) < Span
  PROVE  WindowStart(t) = 0
<1>1. /\ WindowNum(t) \in Nat /\ Span \in Nat \ {0}
      /\ WindowStart(t) = WindowNum(t) * Span
  BY InWindow, SpanPositive DEF WindowStart
<1>2. WindowNum(t) = 0 \/ 0 < WindowNum(t)
  BY <1>1
<1>3. CASE 0 < WindowNum(t)
  <2>1. (0 + 1) * Span <= WindowNum(t) * Span
    BY <1>1, <1>3, EndsGrow
  <2>2. (0 + 1) * Span = Span /\ WindowStart(t) \in Nat
    BY <1>1, InWindow
  <2>3. QED
    BY <1>1, <2>1, <2>2
<1>4. CASE WindowNum(t) = 0
  BY <1>1, <1>4
<1>5. QED
  BY <1>2, <1>3, <1>4

\* A window that is not the first one has another before it.
LEMMA EarlierWindow ==
  ASSUME NEW t \in Nat, WindowNum(t) # 0
  PROVE  WindowStart(t) - Span \in 0..t
<1>1. /\ WindowNum(t) \in Nat /\ WindowStart(t) = WindowNum(t) * Span
      /\ WindowStart(t) \in Nat /\ WindowStart(t) <= t /\ Span \in Nat \ {0}
  BY InWindow, SpanPositive DEF WindowStart
<1>2. (0 + 1) * Span <= WindowNum(t) * Span
  BY <1>1, EndsGrow
<1>3. (0 + 1) * Span = Span
  BY <1>1
<1>4. QED
  BY <1>1, <1>2, <1>3

\* A tick stays in its window or begins the next one.
LEMMA NextTick ==
  ASSUME NEW t \in Nat
  PROVE  \/ /\ WindowNum(t + 1) = WindowNum(t)
            /\ WindowStart(t + 1) = WindowStart(t)
         \/ /\ WindowNum(t + 1) = WindowNum(t) + 1
            /\ WindowStart(t + 1) = t + 1
            /\ WindowStart(t) + Span = t + 1
<1> DEFINE w == WindowNum(t)
<1>1. /\ w \in Nat /\ WindowStart(t) \in Nat /\ WindowStart(t) <= t
      /\ t < WindowStart(t) + Span
      /\ WindowStart(t) = w * Span /\ (w + 1) * Span = WindowStart(t) + Span
      /\ Span \in Nat \ {0}
  BY InWindow, SpanPositive DEF WindowStart
<1>2. ((w + 1) + 1) * Span = (w + 1) * Span + Span
  BY <1>1
<1>3. \A v : WindowNum(t + 1) = v => WindowStart(t + 1) = v * Span
  BY DEF WindowStart
<1> HIDE DEF w
<1>4. CASE t + 1 < WindowStart(t) + Span
  <2>1. w * Span <= t + 1 /\ t + 1 < (w + 1) * Span
    BY <1>1, <1>4
  <2>2. WindowNum(t + 1) = w
    BY <1>1, <2>1, WindowUnique
  <2>3. QED
    BY <1>1, <1>3, <2>2 DEF w
<1>5. CASE t + 1 = WindowStart(t) + Span
  <2>1. (w + 1) * Span = t + 1 /\ t + 1 < ((w + 1) + 1) * Span /\ w + 1 \in Nat
    BY <1>1, <1>2, <1>5
  <2>2. WindowNum(t + 1) = w + 1
    BY <2>1, WindowUnique
  <2>3. QED
    BY <1>3, <1>5, <2>1, <2>2 DEF w
<1>6. QED
  BY <1>1, <1>4, <1>5

-----------------------------------------------------------------------------
(* The share of the previous window *)

\* Some of the window is left at any time in it.
LEMMA LeftBounds ==
  ASSUME NEW at \in Nat
  PROVE  Passed(at) \in Nat /\ Left(at) \in 1..SpanMs /\ Left(at) = SpanMs - Passed(at)
<1>1. SpanMs \in Nat \ {0} /\ Span \in Nat \ {0} /\ Milli \in Nat \ {0}
  BY SpanPositive, WindowAssumption
<1>2. /\ WindowNum(at) \in Nat
      /\ Span * WindowNum(at) <= at
      /\ at < Span * WindowNum(at) + Span
  BY <1>1, Division DEF WindowNum
<1>3. WindowStart(at) = Span * WindowNum(at) /\ WindowStart(at) \in Nat
  BY <1>1, <1>2 DEF WindowStart
<1>4. at - WindowStart(at) \in Nat /\ at - WindowStart(at) < SpanMs * Milli
  <2>1. Span = SpanMs * Milli
    BY DEF Span
  <2>2. at - WindowStart(at) \in Nat /\ at - WindowStart(at) < Span
    BY <1>1, <1>2, <1>3
  <2>3. QED
    BY <2>1, <2>2
<1>5. Passed(at) \in Nat /\ Milli * Passed(at) <= at - WindowStart(at)
  BY <1>1, <1>4, Division DEF Passed
<1>6. Milli * Passed(at) < Milli * SpanMs
  BY <1>1, <1>3, <1>4, <1>5
<1>7. Passed(at) < SpanMs
  BY <1>1, <1>5, <1>6
<1>8. QED
  BY <1>1, <1>5, <1>7 DEF Left

\* Of a window that goes on, less is left.
LEMMA LeftShrinks ==
  ASSUME NEW t \in Nat, WindowStart(t + 1) = WindowStart(t)
  PROVE  Left(t + 1) <= Left(t)
<1> DEFINE a == t - WindowStart(t)
           b == (t + 1) - WindowStart(t + 1)
<1>1. Milli \in Nat \ {0} /\ a \in Nat /\ b \in Nat /\ a <= b /\ SpanMs \in Nat
  <2>1. WindowStart(t) \in Nat /\ WindowStart(t) <= t
    BY InWindow
  <2>2. QED
    BY <2>1, WindowAssumption, SpanPositive
<1>2. Passed(t) = a \div Milli /\ Passed(t + 1) = b \div Milli
  BY DEF Passed
<1> HIDE DEF a, b
<1>3. Passed(t) <= Passed(t + 1)
  BY <1>1, <1>2, DivisionGrows
<1>4. t + 1 \in Nat /\ Passed(t) \in Nat /\ Passed(t + 1) \in Nat
  BY LeftBounds
<1>5. QED
  BY <1>1, <1>3, <1>4 DEF Left

\* The share of the previous window is between none and all of it, even when
\* the product falls short of a whole number.
LEMMA ShareBounds ==
  ASSUME NEW at \in Nat, NEW prev \in Nat, NEW slip \in Slips(prev, at)
  PROVE  (prev * Left(at)) \div SpanMs - slip \in 0..prev
<1>1. SpanMs \in Nat \ {0}
  BY SpanPositive
<1>2. Left(at) \in 1..SpanMs
  BY LeftBounds
<1> DEFINE p == prev * Left(at)
           q == p \div SpanMs
<1>3. p \in Nat /\ p <= SpanMs * prev /\ (prev > 0 => p > 0)
  BY <1>1, <1>2
<1>4. q \in Nat /\ SpanMs * q <= p /\ p < SpanMs * q + SpanMs
  <2> HIDE DEF p
  <2>1. QED
    BY <1>1, <1>3, Division
<1>5. slip \in {0, 1} /\ (slip = 1 => prev > 0 /\ p % SpanMs = 0)
  BY DEF Slips
<1>6. q <= prev
  <2> HIDE DEF q
  <2>1. SpanMs * q <= SpanMs * prev
    <3> HIDE DEF p
    <3>1. SpanMs * q \in Nat /\ SpanMs * prev \in Nat
      BY <1>1, <1>4
    <3>2. QED
      BY <1>3, <1>4, <3>1
  <2>2. QED
    BY <1>1, <1>4, <2>1
<1>7. slip = 1 => q >= 1
  <2> HIDE DEF p
  <2>1. SUFFICES ASSUME p > 0, p % SpanMs = 0
                 PROVE  p \div SpanMs # 0
    BY <1>3, <1>4, <1>5
  <2>2. p = SpanMs * (p \div SpanMs) + (p % SpanMs)
    BY <1>1, <1>3
  <2>3. QED
    BY <1>1, <2>1, <2>2
<1> HIDE DEF p
<1>8. q - slip \in 0..prev
  <2> HIDE DEF q
  <2>1. QED
    BY <1>4, <1>5, <1>6, <1>7
<1>9. QED
  BY <1>8 DEF p

\* The share that is counted is the weighed previous count cut to a whole
\* number, or one less than a whole one.
LEMMA ShareCut ==
  ASSUME NEW at \in Nat, NEW prev \in Nat, NEW slip \in Slips(prev, at)
  PROVE  LET share == (prev * Left(at)) \div SpanMs - slip
         IN  /\ share \in Nat
             /\ SpanMs * share <= prev * Left(at)
             /\ prev * Left(at) <= SpanMs * share + SpanMs
             /\ Passed(at) = 0 => prev * Left(at) < SpanMs * share + SpanMs
<1> DEFINE p == prev * Left(at)
           q == p \div SpanMs
           share == q - slip
<1>1. SpanMs \in Nat \ {0} /\ Left(at) \in Nat
  BY SpanPositive, LeftBounds
<1>2. p \in Nat
  BY <1>1
<1>3. slip \in {0, 1} /\ (slip = 1 => Passed(at) > 0 /\ p % SpanMs = 0)
  BY DEF Slips
<1>4. share \in 0..prev
  BY ShareBounds
<1> HIDE DEF p
<1>5. q \in Nat /\ SpanMs * q <= p /\ p < SpanMs * q + SpanMs
  BY <1>1, <1>2, Division
<1>6. p % SpanMs = 0 => p = SpanMs * q
  BY <1>1, <1>2
<1> HIDE DEF q
<1>7. CASE slip = 0
  BY <1>1, <1>2, <1>4, <1>5, <1>7 DEF p, q
<1>8. CASE slip = 1
  <2>1. p = SpanMs * q /\ Passed(at) > 0 /\ Passed(at) \in Nat
    BY <1>3, <1>6, <1>8, LeftBounds
  <2>2. SpanMs * share = SpanMs * q - SpanMs /\ SpanMs * q \in Nat
    BY <1>1, <1>5, <1>8
  <2>3. share \in Nat
    BY <1>4
  <2>4. SpanMs * share <= p /\ p <= SpanMs * share + SpanMs /\ Passed(at) # 0
    BY <1>1, <2>1, <2>2
  <2>5. QED
    BY <2>3, <2>4 DEF p, q
<1>9. QED
  BY <1>3, <1>7, <1>8

\* With that share, what is admitted may fit the policy and what is refused does
\* not have to.
LEMMA ShareDecides ==
  ASSUME NEW at \in Nat, NEW prev \in Nat, NEW slip \in Slips(prev, at), NEW c \in Nat
  PROVE  LET share == (prev * Left(at)) \div SpanMs - slip
             estimate == prev * Left(at) + c * SpanMs
             most == (Limit + 1) * SpanMs
         IN  /\ share + c <= Limit =>
                  /\ estimate <= most
                  /\ estimate < most \/ (Passed(at) > 0 /\ estimate = most)
             /\ ~ (share + c <= Limit) => ~ (estimate < most)
<1> DEFINE share == (prev * Left(at)) \div SpanMs - slip
           p == prev * Left(at)
<1>1. /\ share \in Nat /\ SpanMs * share <= p /\ p <= SpanMs * share + SpanMs
      /\ Passed(at) = 0 => p < SpanMs * share + SpanMs
  BY ShareCut
<1>2. /\ SpanMs \in Nat \ {0} /\ Left(at) \in Nat /\ Passed(at) \in Nat
      /\ Limit \in Nat /\ p \in Nat
  BY SpanPositive, LeftBounds, WindowAssumption
<1> HIDE DEF share, p
<1>3. ASSUME share + c <= Limit
      PROVE  SpanMs * share + SpanMs + c * SpanMs <= (Limit + 1) * SpanMs
  <2>1. PICK r \in Nat : Limit = share + c + r
    <3>1. Limit - (share + c) \in Nat /\ Limit = share + c + (Limit - (share + c))
      BY <1>1, <1>2, <1>3
    <3>2. QED
      BY <3>1
  <2>2. (Limit + 1) * SpanMs = SpanMs * share + c * SpanMs + r * SpanMs + SpanMs
    BY <1>1, <1>2, <2>1
  <2>3. /\ r * SpanMs \in Nat /\ SpanMs * share \in Nat /\ c * SpanMs \in Nat
    BY <1>1, <1>2
  <2>4. QED
    BY <1>2, <2>2, <2>3
<1>4. ASSUME ~ (share + c <= Limit)
      PROVE  (Limit + 1) * SpanMs <= SpanMs * share + c * SpanMs
  <2>1. PICK r \in Nat : share + c = Limit + 1 + r
    <3>1. share + c - (Limit + 1) \in Nat /\ share + c = Limit + 1 + (share + c - (Limit + 1))
      BY <1>1, <1>2, <1>4
    <3>2. QED
      BY <3>1
  <2>2. SpanMs * share + c * SpanMs = (share + c) * SpanMs
    BY <1>1, <1>2
  <2>3. (share + c) * SpanMs = (Limit + 1) * SpanMs + r * SpanMs /\ r * SpanMs \in Nat
    BY <1>1, <1>2, <2>1
  <2>4. (Limit + 1) * SpanMs \in Nat
    BY <1>2
  <2>5. QED
    BY <2>2, <2>3, <2>4
<1>5. /\ SpanMs * share \in Nat /\ c * SpanMs \in Nat /\ (Limit + 1) * SpanMs \in Nat
  BY <1>1, <1>2
<1>6. share + c <= Limit =>
        /\ p + c * SpanMs <= (Limit + 1) * SpanMs
        /\ p + c * SpanMs < (Limit + 1) * SpanMs
           \/ (Passed(at) > 0 /\ p + c * SpanMs = (Limit + 1) * SpanMs)
  BY <1>1, <1>2, <1>3, <1>5
<1>7. ~ (share + c <= Limit) => ~ (p + c * SpanMs < (Limit + 1) * SpanMs)
  BY <1>1, <1>2, <1>4, <1>5
<1>8. QED
  BY <1>6, <1>7, Zenon DEF share, p

-----------------------------------------------------------------------------
(* The ledger *)

LEMMA AnswerKeepsLedger ==
  ASSUME LedgerTypeOK, NEW k \in Keys, NEW n \in Costs, Admit(k, n) \/ Refuse(k, n)
  PROVE  LedgerTypeOK' /\ now' = now
<1> USE LedgerAssumption DEF LedgerTypeOK, Times
<1>1. CASE Admit(k, n)
  BY <1>1 DEF Admit
<1>2. CASE Refuse(k, n)
  BY <1>2 DEF Refuse
<1>3. QED
  BY <1>1, <1>2

LEMMA TickKeepsLedger ==
  ASSUME LedgerTypeOK, AdvanceClock
  PROVE  /\ LedgerTypeOK' /\ now' = now + 1 /\ now + 1 \in Times
         /\ \A k \in Keys : /\ admitted'[k] = admitted[k]
                            /\ \A s \in 0..now : before'[k][s] = before[k][s]
                            /\ before'[k][now + 1] = admitted[k]
<1>1. /\ now \in Times /\ now + 1 \in Times /\ now' = now + 1
      /\ \A s \in 0..now : s \in Times /\ s # now + 1
  BY LedgerAssumption DEF LedgerTypeOK, AdvanceClock, Times
<1>2. /\ admitted' = admitted /\ admitted \in [Keys -> Nat] /\ reply' = NoReply
      /\ before' = [k \in Keys |-> [before[k] EXCEPT ![now + 1] = admitted[k]]]
  BY DEF LedgerTypeOK, AdvanceClock
<1>3. ASSUME NEW k \in Keys
      PROVE  /\ before'[k] \in [Times -> Nat]
             /\ \A s \in 0..now : before'[k][s] = before[k][s]
             /\ before'[k][now + 1] = admitted[k]
  <2>1. before'[k] = [before[k] EXCEPT ![now + 1] = admitted[k]]
    BY <1>2
  <2>2. before[k] \in [Times -> Nat] /\ admitted[k] \in Nat
    BY <1>2 DEF LedgerTypeOK
  <2>3. QED
    BY <1>1, <2>1, <2>2
<1>4. before' \in [Keys -> [Times -> Nat]]
  BY <1>2, <1>3
<1>5. LedgerTypeOK'
  BY <1>1, <1>2, <1>4 DEF LedgerTypeOK
<1>6. QED
  BY <1>1, <1>2, <1>3, <1>5

LEMMA ForgetKeepsLedger ==
  ASSUME LedgerTypeOK, NEW k \in Keys, Forget(k)
  PROVE  /\ LedgerTypeOK' /\ now' = now
         /\ \A s \in 0..now : Since(k, s)' = 0
         /\ \A j \in Keys : j # k => admitted'[j] = admitted[j] /\ before'[j] = before[j]
<1>1. /\ now' = now /\ now \in Times /\ reply' = NoReply
      /\ admitted' = [admitted EXCEPT ![k] = 0] /\ admitted \in [Keys -> Nat]
      /\ before' = [before EXCEPT ![k] = [s \in Times |-> 0]]
      /\ before \in [Keys -> [Times -> Nat]]
      /\ \A s \in 0..now : s \in Times
  BY LedgerAssumption DEF LedgerTypeOK, Forget, Times
<1>2. /\ admitted' \in [Keys -> Nat] /\ before' \in [Keys -> [Times -> Nat]]
      /\ admitted'[k] = 0 /\ \A s \in 0..now : before'[k][s] = 0
      /\ \A j \in Keys : j # k => admitted'[j] = admitted[j] /\ before'[j] = before[j]
  BY <1>1
<1>3. QED
  BY <1>1, <1>2 DEF LedgerTypeOK, Since

==============================================================================
