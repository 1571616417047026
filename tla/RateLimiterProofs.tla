-------------------------- MODULE RateLimiterProofs --------------------------
(***************************************************************************)
(* The allowance of a window and the advice to come back hold for every    *)
(* number of keys, every allowance, every window and without a bound on    *)
(* time.  The history of admissions is tied to the counter: what check     *)
(* keeps is its newest part, and the rest is at least a window old.        *)
(***************************************************************************)
EXTENDS RateLimiter, TLAPS

\* How many of the admissions of k have left the counter.
Gone(k) == Len(admitted[k]) - Len(hits[k])

CounterIsNewest(k) ==
  /\ Len(hits[k]) <= Len(admitted[k])
  /\ \A i \in 1 .. Len(hits[k]) : hits[k][i] = admitted[k][i + Gone(k)]
  /\ \A i \in 1 .. Gone(k) : admitted[k][i] + Window[k] <= clock

WithinAllowance(k) ==
  /\ Len(hits[k]) <= Allowance[k]
  /\ \A i \in 1 .. Len(admitted[k]) - Allowance[k] :
       admitted[k][i + Allowance[k]] - admitted[k][i] >= Window[k]

AdviceOutlastsFirst(k) ==
  advice[k] # NoAdvice =>
    /\ Len(hits[k]) > 0
    /\ hits[k][1] + Window[k] <= advice[k]

LimiterIInv ==
  /\ LimiterTypeOK
  /\ \A k \in Keys :
       CounterIsNewest(k) /\ WithinAllowance(k) /\ AdviceOutlastsFirst(k)

-----------------------------------------------------------------------------
\* Rounding up to whole seconds never shortens a wait.
LEMMA WholeSecondsSuffice ==
  ASSUME NEW wait \in Nat, NEW s \in Nat \ {0}
  PROVE  /\ wait \div s \in Nat
         /\ wait < (wait \div s + 1) * s
  OBVIOUS

\* A refusal names a moment at which the oldest hit it kept has aged out.
LEMMA RefusalOutlastsFirst ==
  ASSUME clock \in Nat, NEW k \in Keys, NEW first \in Nat,
         ~AgesOut(k, first)
  PROVE  /\ clock + RetryAfter(k, first) * Second \in Nat
         /\ first + Window[k] <= clock + RetryAfter(k, first) * Second
<1> DEFINE wait == first + Window[k] - clock
<1>1. Second \in Nat \ {0} /\ Window[k] \in Nat
  BY LimiterAssumption
<1>2. wait \in Nat
  BY <1>1 DEF AgesOut
<1>3. wait \div Second \in Nat /\ wait < (wait \div Second + 1) * Second
  BY <1>1, <1>2, WholeSecondsSuffice
<1>4. RetryAfter(k, first) = wait \div Second + 1
  BY <1>3 DEF RetryAfter
<1> HIDE DEF wait
<1>5. (wait \div Second + 1) * Second \in Nat
  BY <1>1, <1>3
<1>6. first + Window[k] = clock + wait
  BY <1>1 DEF wait
<1> QED
  BY <1>1, <1>2, <1>3, <1>4, <1>5, <1>6

\* What is kept is the counter without its n oldest hits.
LEMMA KeptHits ==
  ASSUME LimiterTypeOK, NEW k \in Keys, NEW n \in 0 .. Len(hits[k])
  PROVE  /\ Kept(k, n) \in Seq(Nat)
         /\ Len(Kept(k, n)) = Len(hits[k]) - n
         /\ \A i \in 1 .. Len(hits[k]) - n : Kept(k, n)[i] = hits[k][i + n]
<1>1. hits[k] \in Seq(Nat) /\ Len(hits[k]) \in Nat
  BY DEF LimiterTypeOK
<1> QED
  BY <1>1 DEF Kept

-----------------------------------------------------------------------------
LEMMA LimiterInitIInv == LimiterInit => LimiterIInv
BY LimiterAssumption
DEF LimiterInit, LimiterIInv, LimiterTypeOK, Fresh, NoAdvice, CounterIsNewest, Gone,
    WithinAllowance, AdviceOutlastsFirst

\* The hits that check drops have aged out, and so have those dropped before.
LEMMA DroppedAreOld ==
  ASSUME LimiterIInv, NEW k \in Keys, NEW n \in 0 .. Len(hits[k]), Drops(k, n)
  PROVE  \A i \in 1 .. Gone(k) + n : admitted[k][i] + Window[k] <= clock
<1>1. /\ hits[k] \in Seq(Nat) /\ admitted[k] \in Seq(Nat) /\ clock \in Nat
      /\ Window[k] \in Nat /\ Len(hits[k]) \in Nat /\ Len(admitted[k]) \in Nat
  BY LimiterAssumption DEF LimiterIInv, LimiterTypeOK
<1> SUFFICES ASSUME NEW i \in 1 .. Gone(k) + n
             PROVE  admitted[k][i] + Window[k] <= clock
  OBVIOUS
<1>2. CounterIsNewest(k)
  BY DEF LimiterIInv
<1>3. Gone(k) \in Nat
  BY <1>1, <1>2 DEF CounterIsNewest, Gone
<1>4. CASE i <= Gone(k)
  <2>1. i \in 1 .. Gone(k)
    BY <1>1, <1>3, <1>4
  <2> QED
    BY <1>2, <2>1 DEF CounterIsNewest
<1>5. CASE i > Gone(k)
  <2>1. PICK j \in 1 .. n : j + Gone(k) = i
    <3>1. i - Gone(k) \in 1 .. n /\ (i - Gone(k)) + Gone(k) = i
      BY <1>1, <1>3, <1>5
    <3> QED
      BY <3>1
  <2>2. j \in 1 .. Len(hits[k])
    BY <1>1
  <2>3. hits[k][j] = admitted[k][i]
    BY <1>2, <2>1, <2>2 DEF CounterIsNewest
  <2>4. hits[k][j] <= clock - Window[k] /\ hits[k][j] \in Nat
    <3>1. AgesOut(k, hits[k][j])
      BY DEF Drops
    <3> QED
      BY <1>1, <2>2, <3>1 DEF AgesOut
  <2> QED
    BY <1>1, <2>3, <2>4
<1>6. i \in Int
  BY <1>1, <1>3
<1> QED
  BY <1>3, <1>4, <1>5, <1>6

LEMMA AdmitIInv ==
  ASSUME LimiterIInv, NEW k \in Keys, Admit(k)
  PROVE  LimiterIInv'
<1>1. PICK n \in 0 .. Len(hits[k]) :
        /\ Drops(k, n)
        /\ Len(Kept(k, n)) < Allowance[k]
        /\ hits' = [hits EXCEPT ![k] = Append(Kept(k, n), clock)]
        /\ admitted' = [admitted EXCEPT ![k] = Append(admitted[k], clock)]
        /\ advice' = [advice EXCEPT ![k] = NoAdvice]
        /\ UNCHANGED clock
  BY DEF Admit
<1>2. /\ hits[k] \in Seq(Nat) /\ admitted[k] \in Seq(Nat) /\ clock \in Nat
      /\ Window[k] \in Nat /\ Allowance[k] \in Nat
      /\ Len(hits[k]) \in Nat /\ Len(admitted[k]) \in Nat
      /\ hits \in [Keys -> Seq(Nat)] /\ admitted \in [Keys -> Seq(Nat)]
      /\ advice \in [Keys -> Nat \cup {NoAdvice}]
  BY LimiterAssumption DEF LimiterIInv, LimiterTypeOK
<1> DEFINE kept == Kept(k, n)
           old == admitted[k]
<1>3. /\ kept \in Seq(Nat) /\ Len(kept) = Len(hits[k]) - n
      /\ \A i \in 1 .. Len(hits[k]) - n : kept[i] = hits[k][i + n]
  BY KeptHits DEF LimiterIInv
<1>4. /\ CounterIsNewest(k) /\ WithinAllowance(k)
  BY DEF LimiterIInv
<1>5. \A i \in 1 .. Gone(k) + n : old[i] + Window[k] <= clock
  BY <1>1, DroppedAreOld
<1>6. /\ hits'[k] = Append(kept, clock) /\ admitted'[k] = Append(old, clock)
      /\ advice'[k] = NoAdvice /\ clock' = clock
      /\ \A q \in Keys : q # k => /\ hits'[q] = hits[q] /\ admitted'[q] = admitted[q]
                                  /\ advice'[q] = advice[q]
  BY <1>1, <1>2
<1> HIDE DEF kept, old
<1>7. /\ Len(Append(kept, clock)) = Len(kept) + 1 /\ Append(kept, clock) \in Seq(Nat)
      /\ \A i \in 1 .. Len(kept) : Append(kept, clock)[i] = kept[i]
      /\ Append(kept, clock)[Len(kept) + 1] = clock
  BY <1>2, <1>3
<1>8. /\ Len(Append(old, clock)) = Len(old) + 1 /\ Append(old, clock) \in Seq(Nat)
      /\ \A i \in 1 .. Len(old) : Append(old, clock)[i] = old[i] /\ old[i] \in Nat
      /\ Append(old, clock)[Len(old) + 1] = clock
      /\ Len(old) = Len(admitted[k])
  BY <1>2 DEF old
<1>9. LimiterTypeOK'
  BY <1>1, <1>2, <1>7, <1>8 DEF LimiterTypeOK, kept, old
\* The lengths by themselves.
<1>10. /\ n \in Nat /\ Len(kept) \in Nat /\ Len(old) \in Nat /\ Gone(k) \in Nat
       /\ Len(hits[k]) \in Nat /\ Len(hits[k]) = Len(kept) + n
       /\ Len(old) = Len(kept) + n + Gone(k)
  <2>1. Len(kept) = Len(hits[k]) - n
    BY <1>3
  <2>2. Len(hits[k]) <= Len(admitted[k]) /\ Gone(k) = Len(old) - Len(hits[k])
    BY <1>4, <1>8 DEF CounterIsNewest, Gone
  <2>3. Len(hits[k]) \in Nat /\ Len(old) \in Nat /\ Len(old) = Len(admitted[k])
    BY <1>2, <1>8
  <2> QED
    BY <2>1, <2>2, <2>3
<1>11. CounterIsNewest(k)'
  <2>1. Gone(k)' = Gone(k) + n
    <3>1. Gone(k)' = Len(Append(old, clock)) - Len(Append(kept, clock))
      BY <1>6 DEF Gone
    <3> QED
      BY <1>7, <1>8, <1>10, <3>1
  <2>2. Len(hits'[k]) <= Len(admitted'[k])
    <3>1. Len(kept) + 1 <= Len(old) + 1
      BY <1>10
    <3> QED
      BY <1>6, <1>7, <1>8, <3>1
  <2>3. ASSUME NEW i \in 1 .. Len(kept) + 1
        PROVE  Append(kept, clock)[i] = Append(old, clock)[i + (Gone(k) + n)]
    <3>1. CASE i = Len(kept) + 1
      <4>1. i + (Gone(k) + n) = Len(old) + 1
        BY <1>10, <3>1
      <4> QED
        BY <1>7, <1>8, <3>1, <4>1
    <3>2. CASE i # Len(kept) + 1
      <4>1. /\ i \in 1 .. Len(kept) /\ i \in 1 .. Len(hits[k]) - n
            /\ i + n \in 1 .. Len(hits[k])
            /\ i + (Gone(k) + n) \in 1 .. Len(old)
            /\ (i + n) + Gone(k) = i + (Gone(k) + n)
        BY <1>10, <3>2
      <4>2. kept[i] = hits[k][i + n]
        BY <1>3, <4>1
      <4>3. hits[k][i + n] = old[(i + n) + Gone(k)]
        BY <1>4, <4>1 DEF CounterIsNewest, old
      <4> QED
        BY <1>7, <1>8, <4>1, <4>2, <4>3
    <3> QED
      BY <3>1, <3>2
  <2>4. ASSUME NEW i \in 1 .. Gone(k) + n
        PROVE  Append(old, clock)[i] + Window[k] <= clock
    <3>1. i \in 1 .. Len(old)
      BY <1>10
    <3> QED
      BY <1>5, <1>8, <3>1
  <2> QED
    BY <1>6, <1>7, <2>1, <2>2, <2>3, <2>4 DEF CounterIsNewest
<1>12. WithinAllowance(k)'
  <2>1. Len(hits'[k]) <= Allowance[k]
    BY <1>1, <1>2, <1>3, <1>6, <1>7 DEF kept
  <2>2. /\ Len(old) \in Nat /\ Allowance[k] \in Nat \ {0} /\ Window[k] \in Nat
        /\ clock \in Nat
    <3>1. Len(Kept(k, n)) \in Nat
      BY <1>10 DEF kept
    <3> QED
      BY <1>1, <1>2, <1>8, <3>1
  <2>3. ASSUME NEW i \in 1 .. Len(old) + 1 - Allowance[k]
        PROVE  Append(old, clock)[i + Allowance[k]] - Append(old, clock)[i] >= Window[k]
    <3>1. i \in 1 .. Len(old) /\ i \in Nat
      BY <2>2
    <3>2. CASE i + Allowance[k] = Len(old) + 1
      <4>1. i \in 1 .. Gone(k) + n
        BY <1>1, <1>2, <1>3, <1>8, <3>2 DEF Gone, kept
      <4>2. old[i] + Window[k] <= clock /\ old[i] \in Nat
        BY <1>5, <1>8, <3>1, <4>1
      <4>3. /\ Append(old, clock)[i] = old[i]
            /\ Append(old, clock)[i + Allowance[k]] = clock
        BY <1>8, <3>1, <3>2
      <4> QED
        BY <2>2, <4>2, <4>3
    <3>3. CASE i + Allowance[k] # Len(old) + 1
      <4>1. i \in 1 .. Len(old) - Allowance[k] /\ i + Allowance[k] \in 1 .. Len(old)
        BY <2>2, <3>3
      <4>2. old[i + Allowance[k]] - old[i] >= Window[k]
        BY <1>4, <4>1 DEF WithinAllowance, old
      <4> QED
        BY <1>8, <3>1, <4>1, <4>2
    <3> QED
      BY <3>2, <3>3
  <2>4. Len(admitted'[k]) = Len(old) + 1
    BY <1>6, <1>8
  <2>5. \A i \in 1 .. Len(admitted'[k]) - Allowance[k] :
           admitted'[k][i + Allowance[k]] - admitted'[k][i] >= Window[k]
    <3>1. admitted'[k] = Append(old, clock)
      BY <1>6
    <3> SUFFICES ASSUME NEW i \in 1 .. Len(admitted'[k]) - Allowance[k]
                 PROVE  admitted'[k][i + Allowance[k]] - admitted'[k][i] >= Window[k]
      OBVIOUS
    <3>2. i \in 1 .. Len(old) + 1 - Allowance[k]
      BY <2>2, <2>4
    <3>3. Append(old, clock)[i + Allowance[k]] - Append(old, clock)[i] >= Window[k]
      BY <2>3, <3>2
    <3> QED
      BY <3>1, <3>3
  <2> QED
    BY <2>1, <2>5 DEF WithinAllowance
<1>13. AdviceOutlastsFirst(k)'
  BY <1>6 DEF AdviceOutlastsFirst
<1>14. ASSUME NEW q \in Keys, q # k
       PROVE  (CounterIsNewest(q) /\ WithinAllowance(q) /\ AdviceOutlastsFirst(q))'
  <2>1. CounterIsNewest(q) /\ WithinAllowance(q) /\ AdviceOutlastsFirst(q)
    BY DEF LimiterIInv
  <2> QED
    BY <1>6, <1>14, <2>1
    DEF CounterIsNewest, Gone, WithinAllowance, AdviceOutlastsFirst
<1> QED
  BY <1>9, <1>11, <1>12, <1>13, <1>14 DEF LimiterIInv

LEMMA RefuseIInv ==
  ASSUME LimiterIInv, NEW k \in Keys, Refuse(k)
  PROVE  LimiterIInv'
<1>1. PICK n \in 0 .. Len(hits[k]) :
        /\ Drops(k, n)
        /\ Len(Kept(k, n)) >= Allowance[k]
        /\ hits' = [hits EXCEPT ![k] = Kept(k, n)]
        /\ advice' = [advice EXCEPT ![k] =
                        IF Kept(k, n) = <<>> THEN NoAdvice
                        ELSE clock + RetryAfter(k, hits[k][n + 1]) * Second]
        /\ UNCHANGED <<clock, admitted>>
  BY DEF Refuse
<1>2. /\ hits[k] \in Seq(Nat) /\ admitted[k] \in Seq(Nat) /\ clock \in Nat
      /\ Window[k] \in Nat /\ Allowance[k] \in Nat
      /\ Len(hits[k]) \in Nat /\ Len(admitted[k]) \in Nat
      /\ hits \in [Keys -> Seq(Nat)] /\ admitted \in [Keys -> Seq(Nat)]
      /\ advice \in [Keys -> Nat \cup {NoAdvice}]
  BY LimiterAssumption DEF LimiterIInv, LimiterTypeOK
<1> DEFINE kept == Kept(k, n)
           wait == clock + RetryAfter(k, hits[k][n + 1]) * Second
           told == IF kept = <<>> THEN NoAdvice ELSE wait
<1>3. /\ kept \in Seq(Nat) /\ Len(kept) = Len(hits[k]) - n
      /\ \A i \in 1 .. Len(hits[k]) - n : kept[i] = hits[k][i + n]
  BY KeptHits DEF LimiterIInv
<1>4. /\ CounterIsNewest(k) /\ WithinAllowance(k)
  BY DEF LimiterIInv
<1>5. \A i \in 1 .. Gone(k) + n : admitted[k][i] + Window[k] <= clock
  BY <1>1, DroppedAreOld
<1>6. /\ hits'[k] = kept /\ advice'[k] = told
      /\ clock' = clock /\ admitted' = admitted
      /\ \A q \in Keys : q # k => hits'[q] = hits[q] /\ advice'[q] = advice[q]
  BY <1>1, <1>2
<1>7. /\ n \in Nat /\ Len(kept) \in Nat /\ Gone(k) \in Nat
      /\ Len(hits[k]) \in Nat /\ Len(hits[k]) = Len(kept) + n
      /\ Len(admitted[k]) = Len(kept) + n + Gone(k)
  <2>1. Len(kept) = Len(hits[k]) - n
    BY <1>3
  <2>2. Len(hits[k]) <= Len(admitted[k]) /\ Gone(k) = Len(admitted[k]) - Len(hits[k])
    BY <1>4 DEF CounterIsNewest, Gone
  <2>3. n \in Nat /\ Len(hits[k]) \in Nat /\ Len(admitted[k]) \in Nat
    BY <1>2
  <2> HIDE DEF kept
  <2> QED
    BY <2>1, <2>2, <2>3
<1>8. /\ told \in Nat \cup {NoAdvice}
      /\ told # NoAdvice => Len(kept) > 0 /\ kept[1] + Window[k] <= told
  <2>1. CASE kept = <<>>
    BY <2>1
  <2>2. CASE kept # <<>>
    <3>1. Len(kept) > 0 /\ told = wait
      BY <1>3, <2>2
    <3>2. kept[1] = hits[k][n + 1] /\ n + 1 \in 1 .. Len(hits[k]) /\ n < Len(hits[k])
      <4> HIDE DEF kept
      <4>1. /\ 1 \in 1 .. Len(hits[k]) - n /\ 1 + n = n + 1
            /\ n + 1 \in 1 .. Len(hits[k]) /\ n < Len(hits[k])
        BY <1>7, <3>1
      <4> QED
        BY <1>3, <4>1
    <3>3. hits[k][n + 1] \in Nat /\ ~AgesOut(k, hits[k][n + 1])
      BY <1>1, <1>2, <3>2 DEF Drops
    <3>4. wait \in Nat /\ hits[k][n + 1] + Window[k] <= wait
      BY <1>2, <3>3, RefusalOutlastsFirst
    <3> QED
      BY <3>1, <3>2, <3>4
  <2> QED
    BY <2>1, <2>2
<1>9. LimiterTypeOK'
  BY <1>1, <1>2, <1>3, <1>8 DEF LimiterTypeOK
<1> HIDE DEF kept, told
<1>10. CounterIsNewest(k)'
  <2>1. Gone(k)' = Gone(k) + n
    <3>1. Gone(k)' = Len(admitted[k]) - Len(kept)
      BY <1>6 DEF Gone
    <3> QED
      BY <1>7, <3>1
  <2>2. Len(kept) <= Len(admitted[k])
    BY <1>7
  <2>3. ASSUME NEW i \in 1 .. Len(kept)
        PROVE  kept[i] = admitted[k][i + (Gone(k) + n)]
    <3>1. /\ i \in 1 .. Len(hits[k]) - n /\ i + n \in 1 .. Len(hits[k])
          /\ (i + n) + Gone(k) = i + (Gone(k) + n)
      BY <1>7
    <3>2. hits[k][i + n] = admitted[k][(i + n) + Gone(k)]
      BY <1>4, <3>1 DEF CounterIsNewest
    <3> QED
      BY <1>3, <3>1, <3>2
  <2> QED
    BY <1>5, <1>6, <2>1, <2>2, <2>3 DEF CounterIsNewest
<1>11. WithinAllowance(k)'
  <2>1. Len(kept) <= Len(hits[k]) /\ Len(hits[k]) <= Allowance[k]
    BY <1>4, <1>7 DEF WithinAllowance
  <2>2. Len(kept) <= Allowance[k]
    BY <1>2, <1>7, <2>1
  <2> QED
    BY <1>4, <1>6, <2>2 DEF WithinAllowance
<1>12. AdviceOutlastsFirst(k)'
  BY <1>6, <1>7, <1>8 DEF AdviceOutlastsFirst
<1>13. ASSUME NEW q \in Keys, q # k
       PROVE  (CounterIsNewest(q) /\ WithinAllowance(q) /\ AdviceOutlastsFirst(q))'
  <2>1. CounterIsNewest(q) /\ WithinAllowance(q) /\ AdviceOutlastsFirst(q)
    BY DEF LimiterIInv
  <2> QED
    BY <1>6, <1>13, <2>1
    DEF CounterIsNewest, Gone, WithinAllowance, AdviceOutlastsFirst
<1> QED
  BY <1>9, <1>10, <1>11, <1>12, <1>13 DEF LimiterIInv

LEMMA TickIInv ==
  ASSUME LimiterIInv, Tick
  PROVE  LimiterIInv'
<1>1. clock \in Nat /\ clock' = clock + 1 /\ UNCHANGED <<hits, admitted, advice>>
  BY DEF Tick, LimiterIInv, LimiterTypeOK
<1>2. LimiterTypeOK'
  BY <1>1 DEF LimiterIInv, LimiterTypeOK
<1>3. ASSUME NEW k \in Keys
      PROVE  (CounterIsNewest(k) /\ WithinAllowance(k) /\ AdviceOutlastsFirst(k))'
  <2>1. CounterIsNewest(k) /\ WithinAllowance(k) /\ AdviceOutlastsFirst(k)
    BY DEF LimiterIInv
  <2>2. ASSUME NEW i \in 1 .. Gone(k)
        PROVE  admitted[k][i] + Window[k] <= clock + 1
    <3>1. admitted[k] \in Seq(Nat) /\ hits[k] \in Seq(Nat) /\ Window[k] \in Nat
      BY LimiterAssumption DEF LimiterIInv, LimiterTypeOK
    <3>2. i \in 1 .. Len(admitted[k])
      BY <3>1 DEF Gone
    <3>3. admitted[k][i] \in Nat /\ admitted[k][i] + Window[k] <= clock
      BY <2>1, <3>1, <3>2 DEF CounterIsNewest
    <3> QED
      BY <1>1, <3>1, <3>3
  <2> QED
    BY <1>1, <2>1, <2>2 DEF CounterIsNewest, Gone, WithinAllowance, AdviceOutlastsFirst
<1> QED
  BY <1>2, <1>3 DEF LimiterIInv

LEMMA RestartIInv ==
  ASSUME LimiterIInv, Restart
  PROVE  LimiterIInv'
BY LimiterAssumption
DEF Restart, LimiterIInv, LimiterTypeOK, Fresh, NoAdvice, CounterIsNewest, Gone,
    WithinAllowance, AdviceOutlastsFirst

LEMMA LimiterNextIInv == LimiterIInv /\ [LimiterNext]_limiterVars => LimiterIInv'
<1> SUFFICES ASSUME LimiterIInv, [LimiterNext]_limiterVars
             PROVE  LimiterIInv'
  OBVIOUS
<1>1. CASE UNCHANGED limiterVars
  BY <1>1
  DEF limiterVars, LimiterIInv, LimiterTypeOK, CounterIsNewest, Gone, WithinAllowance,
      AdviceOutlastsFirst
<1>2. CASE LimiterNext
  BY <1>2, AdmitIInv, RefuseIInv, TickIInv, RestartIInv DEF LimiterNext
<1> QED
  BY <1>1, <1>2

\* The inductive invariant says at once that the allowance holds.
LEMMA IInvAllowance == LimiterIInv => AllowanceHolds
BY DEF LimiterIInv, WithinAllowance, AllowanceHolds

\* Once the advice is past, check drops the first hit at least, and the rest
\* is less than the allowance.
LEMMA IInvAdvice == LimiterIInv => AdviceHonoured
<1> SUFFICES ASSUME LimiterIInv, NEW k \in Keys, advice[k] # NoAdvice,
                    clock >= advice[k],
                    NEW n \in 0 .. Len(hits[k]), Drops(k, n)
             PROVE  Len(Kept(k, n)) < Allowance[k]
  BY DEF AdviceHonoured
<1>1. /\ hits[k] \in Seq(Nat) /\ clock \in Nat /\ advice[k] \in Nat
      /\ Window[k] \in Nat /\ Allowance[k] \in Nat /\ Len(hits[k]) \in Nat
  BY LimiterAssumption DEF LimiterIInv, LimiterTypeOK
<1>2. Len(hits[k]) > 0 /\ hits[k][1] + Window[k] <= advice[k]
  BY DEF LimiterIInv, AdviceOutlastsFirst
<1>3. hits[k][1] \in Nat
  BY <1>1, <1>2
<1>4. AgesOut(k, hits[k][1])
  BY <1>1, <1>2, <1>3 DEF AgesOut
<1>5. n # 0
  BY <1>1, <1>2, <1>4 DEF Drops
<1>6. Len(Kept(k, n)) = Len(hits[k]) - n
  BY KeptHits DEF LimiterIInv
<1>7. Len(hits[k]) <= Allowance[k]
  BY DEF LimiterIInv, WithinAllowance
<1> QED
  BY <1>1, <1>5, <1>6, <1>7

-----------------------------------------------------------------------------
\* The counters keep their types and the inductive invariant.
THEOREM LimiterInvariant == LimiterSpec => []LimiterIInv
<1>1. LimiterInit => LimiterIInv
  BY LimiterInitIInv
<1>2. LimiterIInv /\ [LimiterNext]_limiterVars => LimiterIInv'
  BY LimiterNextIInv
<1> QED
  BY <1>1, <1>2, PTL DEF LimiterSpec

\* No key is let through more often than its allowance in any stretch of one
\* window, however long the process runs (rate_limit.py, check).
THEOREM LimiterAllowance == LimiterSpec => []AllowanceHolds
BY LimiterInvariant, IInvAllowance, PTL

\* The wait a refusal names is always long enough (rate_limit.py:45).
THEOREM LimiterAdvice == LimiterSpec => []AdviceHonoured
BY LimiterInvariant, IInvAdvice, PTL
=============================================================================
