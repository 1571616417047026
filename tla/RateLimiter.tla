---------------------------- MODULE RateLimiter -----------------------------
(***************************************************************************)
(* The sliding window counters of middleware/rate_limit.py: one for the    *)
(* credential endpoints, one for the creation of sandboxes.  A key names   *)
(* the counter and what it counts by, so the allowance and the window      *)
(* belong to the key.  Time is counted in ticks, Second of them a second.  *)
(***************************************************************************)
EXTENDS Integers, Sequences

CONSTANTS Keys,       \* what hits are counted by
          Allowance,  \* max_requests of the key's counter
          Window,     \* its window_seconds, in ticks
          Second,     \* ticks per second
          MaxClock    \* bound on the clock

\* Nothing keeps the settings from an allowance of nothing.
ASSUME LimiterAssumption ==
  /\ Allowance \in [Keys -> Nat]
  /\ Window \in [Keys -> Nat \ {0}]
  /\ Second \in Nat \ {0}
  /\ MaxClock \in Nat

VARIABLES clock,     \* time.monotonic()
          hits,      \* _hits
          admitted,  \* history: when each key was let through, oldest first
          advice     \* history: when the last refusal told it to come back

NoAdvice == -1

limiterVars == <<clock, hits, admitted, advice>>

LimiterTypeOK ==
  /\ clock \in Nat
  /\ hits \in [Keys -> Seq(Nat)]
  /\ admitted \in [Keys -> Seq(Nat)]
  /\ advice \in [Keys -> Nat \cup {NoAdvice}]

\* A new process: the counters live in memory.
Fresh == [k \in Keys |-> <<>>]

LimiterInit ==
  /\ clock = 0
  /\ hits = Fresh
  /\ admitted = Fresh
  /\ advice = [k \in Keys |-> NoAdvice]

\* Fault: the hits of the window's last tick are dropped too.
AgesOutEarly(k, time) == time <= clock - Window[k] + 1

AgesOut(k, time) == time <= clock - Window[k]

\* The n oldest hits of k are those that check drops from the left.
Drops(k, n) ==
  /\ n \in 0 .. Len(hits[k])
  /\ \A i \in 1 .. n : AgesOut(k, hits[k][i])
  /\ n < Len(hits[k]) => ~AgesOut(k, hits[k][n + 1])

Kept(k, n) == SubSeq(hits[k], n + 1, Len(hits[k]))

\* Fault: the seconds are rounded down.
RetryAfterShort(k, first) ==
  LET wait == first + Window[k] - clock
  IN  IF wait \div Second > 1 THEN wait \div Second ELSE 1

\* Fault: the wait is taken from the wrong end.
RetryAfterPast(k, first) == (clock - first - Window[k]) \div Second + 1

\* The whole seconds a refused caller is told to wait: max(int(...) + 1, 1).
RetryAfter(k, first) ==
  LET wait == first + Window[k] - clock
  IN  IF wait \div Second + 1 > 1 THEN wait \div Second + 1 ELSE 1

\* check, letting the hit through.
Admit(k) ==
  \E n \in 0 .. Len(hits[k]) :
    /\ Drops(k, n)
    /\ Len(Kept(k, n)) < Allowance[k]
    /\ hits' = [hits EXCEPT ![k] = Append(Kept(k, n), clock)]
    /\ admitted' = [admitted EXCEPT ![k] = Append(admitted[k], clock)]
    /\ advice' = [advice EXCEPT ![k] = NoAdvice]
    /\ UNCHANGED clock

\* check, refusing it; a refused hit is not counted.  With an allowance of
\* nothing there is no oldest hit, and the request ends in an IndexError.
Refuse(k) ==
  \E n \in 0 .. Len(hits[k]) :
    /\ Drops(k, n)
    /\ Len(Kept(k, n)) >= Allowance[k]
    /\ hits' = [hits EXCEPT ![k] = Kept(k, n)]
    /\ advice' = [advice EXCEPT ![k] =
                    IF Kept(k, n) = <<>> THEN NoAdvice
                    ELSE clock + RetryAfter(k, hits[k][n + 1]) * Second]
    /\ UNCHANGED <<clock, admitted>>

Tick ==
  /\ clock < MaxClock
  /\ clock' = clock + 1
  /\ UNCHANGED <<hits, admitted, advice>>

Restart ==
  /\ hits' = Fresh
  /\ admitted' = Fresh
  /\ advice' = [k \in Keys |-> NoAdvice]
  /\ UNCHANGED clock

LimiterNext ==
  \/ \E k \in Keys : Admit(k) \/ Refuse(k)
  \/ Tick
  \/ Restart

LimiterSpec == LimiterInit /\ [][LimiterNext]_limiterVars

-----------------------------------------------------------------------------
\* However hits, refusals and the passing of time alternate, one process lets
\* a key through at most Allowance times in any stretch of one window: each
\* hit comes at least a window after the one that many places before it.
\* (middleware/rate_limit.py:26, "inside a sliding window".)
AllowanceHolds ==
  \A k \in Keys :
    \A i \in 1 .. Len(admitted[k]) - Allowance[k] :
      admitted[k][i + Allowance[k]] - admitted[k][i] >= Window[k]

\* Whoever waits for as long as the refusal said is let through, unless
\* another hit on the same key was let through meanwhile: the rounding to
\* whole seconds never sends a caller back too early.
AdviceHonoured ==
  \A k \in Keys :
    advice[k] # NoAdvice /\ clock >= advice[k] =>
      \A n \in 0 .. Len(hits[k]) : Drops(k, n) => Len(Kept(k, n)) < Allowance[k]
=============================================================================
