-------------------------- MODULE SlotSearchProofs --------------------------
(***************************************************************************)
(* What the comparisons and the loops of the availability engine compute,  *)
(* for every slot length, day length, UTC offset and query: the loops      *)
(* return the set that module Availability defines, in order, which is the *)
(* set of starts a customer would expect, and every step of them is one of *)
(* finitely many.                                                          *)
(***************************************************************************)
EXTENDS SlotSearch, TLAPS

-----------------------------------------------------------------------------
(* Intervals.                                                              *)

\* TimeRange.overlaps compares two ends; what it decides is whether some
\* instant lies in both intervals.
THEOREM OverlapIsSharedInstant ==
  ASSUME NEW a \in Intervals, NEW b \in Intervals,
         a.start < a.end, b.start < b.end
  PROVE  Overlaps(a, b) <=> \E t \in Int : Contains(a, t) /\ Contains(b, t)
<1> USE DEF Intervals, Overlaps, Contains
<1>1. ASSUME Overlaps(a, b)
      PROVE  \E t \in Int : Contains(a, t) /\ Contains(b, t)
  <2>1. CASE a.start <= b.start
    <3>1. b.start \in Int /\ Contains(a, b.start) /\ Contains(b, b.start)
      BY <1>1, <2>1
    <3> QED BY <3>1
  <2>2. CASE b.start < a.start
    <3>1. a.start \in Int /\ Contains(a, a.start) /\ Contains(b, a.start)
      BY <1>1, <2>2
    <3> QED BY <3>1
  <2> QED BY <2>1, <2>2
<1>2. ASSUME NEW t \in Int, Contains(a, t), Contains(b, t)
      PROVE  Overlaps(a, b)
  BY <1>2
<1> QED BY <1>1, <1>2

\* An opening window has integer ends.
LEMMA WindowType ==
  ASSUME NEW day \in Int, NEW hours \in [opens : Int, closes : Int]
  PROVE  /\ OpeningWindow(day, hours).start \in Int
         /\ OpeningWindow(day, hours).end \in Int
  BY AvailabilityAssumption DEF OpeningWindow, Interval

\* Every start that is offered leaves the whole appointment inside opening
\* hours, apart from every occupied interval and within the horizon.
THEOREM OfferedStartsAreFree ==
  ASSUME NEW day \in Int, NEW duration \in Nat \ {0},
         NEW hours \in [opens : Int, closes : Int],
         NEW busy \in SUBSET Intervals, NEW horizon \in Intervals,
         NEW s \in AvailableStarts(day, hours, duration, busy, horizon)
  PROVE  /\ horizon.start <= s /\ s <= horizon.end
         /\ \A t \in s .. (s + duration - 1) :
              /\ Contains(OpeningWindow(day, hours), t)
              /\ \A taken \in busy : ~Contains(taken, t)
<1> DEFINE window == OpeningWindow(day, hours)
<1>1. s \in SlotStarts(window, duration) /\ IsFree(s, duration, busy, horizon)
  BY DEF AvailableStarts
<1>2. window.start \in Int /\ window.end \in Int
  BY WindowType
<1> HIDE DEF window
<1>3. s \in window.start .. (window.end - duration)
  BY <1>1 DEF SlotStarts
<1>4. s \in Int /\ window.start <= s /\ s + duration <= window.end
  BY <1>2, <1>3
<1>5. ASSUME NEW t \in s .. (s + duration - 1)
      PROVE  Contains(window, t)
  BY <1>2, <1>4 DEF Contains
<1>6. ASSUME NEW t \in s .. (s + duration - 1), NEW taken \in busy
      PROVE  ~Contains(taken, t)
  <2>1. ~Overlaps(Interval(s, s + duration), taken)
    BY <1>1 DEF IsFree
  <2>2. taken.start \in Int /\ taken.end \in Int
    BY DEF Intervals
  <2> QED BY <1>4, <2>1, <2>2 DEF Overlaps, Interval, Contains
<1>7. horizon.start <= s /\ s <= horizon.end
  BY <1>1 DEF IsFree
<1> QED BY <1>5, <1>6, <1>7 DEF window

-----------------------------------------------------------------------------
(* The grid.                                                               *)

LEMMA DivisionWithRemainder ==
  ASSUME NEW k \in Nat \ {0}, NEW x \in Int
  PROVE  /\ x \div k \in Int
         /\ x % k \in 0 .. (k - 1)
         /\ x = k * (x \div k) + (x % k)
  OBVIOUS

\* A multiple of k in absolute value below k is 0.
LEMMA SmallMultiple ==
  ASSUME NEW k \in Nat \ {0}, NEW d \in Int, -k < k * d, k * d < k
  PROVE  d = 0
<1>1. d < 1
  <2> SUFFICES ASSUME d >= 1 PROVE FALSE
    OBVIOUS
  <2>1. k * d >= k
    OBVIOUS
  <2> QED BY <2>1
<1>2. d > -1
  <2> SUFFICES ASSUME d <= -1 PROVE FALSE
    OBVIOUS
  <2>1. k * d <= -k
    OBVIOUS
  <2> QED BY <2>1
<1> QED BY <1>1, <1>2

\* From one point of the grid the next is k further on, and none between.
LEMMA NextGridPoint ==
  ASSUME NEW k \in Nat \ {0}, NEW x \in Int, x % k = 0
  PROVE  /\ (x + k) % k = 0
         /\ \A y \in Int : y % k = 0 /\ x <= y /\ y < x + k => y = x
<1>1. x = k * (x \div k) /\ x \div k \in Int
  BY DivisionWithRemainder
<1>2. (x + k) % k = 0
  <2> DEFINE d == ((x + k) \div k) - (x \div k) - 1
             rest == (x + k) % k
  <2>0. x + k \in Int
    OBVIOUS
  <2>1. /\ x + k = k * ((x + k) \div k) + rest
        /\ rest \in 0 .. (k - 1)
        /\ (x + k) \div k \in Int
    BY <2>0, DivisionWithRemainder
  <2>2. k * d + rest = 0 /\ d \in Int
    BY <1>1, <2>1
  <2> HIDE DEF d, rest
  <2>3. d = 0
    BY <2>1, <2>2, SmallMultiple
  <2> QED BY <2>2, <2>3 DEF rest
<1>3. ASSUME NEW y \in Int, y % k = 0, x <= y, y < x + k
      PROVE  y = x
  <2> DEFINE d == (y \div k) - (x \div k)
  <2>1. y = k * (y \div k) /\ y \div k \in Int
    BY <1>3, DivisionWithRemainder
  <2>2. k * d = y - x /\ d \in Int
    BY <1>1, <2>1
  <2> HIDE DEF d
  <2>3. d = 0
    BY <1>3, <2>2, SmallMultiple
  <2> QED BY <2>2, <2>3
<1> QED BY <1>2, <1>3

-----------------------------------------------------------------------------
(* The loops.                                                              *)

Elements(seq) == {seq[i] : i \in DOMAIN seq}

Increasing(seq) == \A i, j \in DOMAIN seq : i < j => seq[i] < seq[j]

\* Every member of seq comes before every member of next.
Precedes(seq, next) ==
  \A i \in DOMAIN seq, j \in DOMAIN next : seq[i] < next[j]

Free(s) == IsFree(s, query.duration, query.busy, query.horizon)

Answer == AvailableStarts(query.day, query.hours, query.duration,
                          query.busy, query.horizon)

\* The candidates before instant c.
Candidates(c) ==
  {s \in Int : /\ Window.start <= s
               /\ s < c
               /\ s <= LatestStart
               /\ (s - Window.start) % SlotMinutes = 0}

SearchTypeOK ==
  /\ query \in Queries
  /\ pc \in {"generate", "filter", "done"}
  /\ cursor \in Int
  /\ starts \in Seq(Int)
  /\ available \in Seq(Int)

\* While candidates are generated, starts has those before the cursor.
GeneratedSoFar ==
  pc = "generate" =>
    /\ query.duration > 0
    /\ available = <<>>
    /\ Window.start <= cursor
    /\ (cursor - Window.start) % SlotMinutes = 0
    /\ Elements(starts) = Candidates(cursor)

\* While they are filtered, what was kept and the free ones among those left
\* make the answer.
FilteredSoFar ==
  pc \in {"filter", "done"} =>
    Elements(available) \cup {s \in Elements(starts) : Free(s)} = Answer

SearchIInv ==
  /\ SearchTypeOK
  /\ Increasing(starts)
  /\ Increasing(available)
  /\ Precedes(available, starts)
  /\ GeneratedSoFar
  /\ FilteredSoFar
  /\ pc = "done" => starts = <<>>

\* The arguments are typed.
LEMMA QueryType ==
  ASSUME SearchTypeOK
  PROVE  /\ query.day \in Int
         /\ query.hours \in [opens : Int, closes : Int]
         /\ query.duration \in Int
         /\ query.busy \in SUBSET Intervals
         /\ query.horizon \in Intervals
         /\ \A taken \in query.busy : taken.start < taken.end
         /\ Window.start \in Int
         /\ Window.end \in Int
         /\ LatestStart \in Int
<1>1. /\ query \in [day : Int, hours : [opens : Int, closes : Int],
                    duration : Int, busy : SUBSET Intervals,
                    horizon : Intervals]
      /\ \A taken \in query.busy : taken.start < taken.end
  BY SearchAssumption DEF SearchTypeOK
<1>2. /\ query.day \in Int
      /\ query.hours \in [opens : Int, closes : Int]
      /\ query.duration \in Int
  BY <1>1
<1>3. Window.start \in Int /\ Window.end \in Int
  BY <1>2, WindowType DEF Window
<1> QED BY <1>1, <1>2, <1>3 DEF LatestStart

\* Appending to and taking from the front of a sequence.
LEMMA AppendElements ==
  ASSUME NEW seq \in Seq(Int), NEW c \in Int,
         Increasing(seq), \A i \in DOMAIN seq : seq[i] < c
  PROVE  /\ Append(seq, c) \in Seq(Int)
         /\ Elements(Append(seq, c)) = Elements(seq) \cup {c}
         /\ Increasing(Append(seq, c))
<1> DEFINE longer == Append(seq, c)
<1>1. /\ longer \in Seq(Int)
      /\ DOMAIN seq = 1 .. Len(seq)
      /\ DOMAIN longer = 1 .. (Len(seq) + 1)
      /\ Len(seq) \in Nat
      /\ \A i \in 1 .. Len(seq) : longer[i] = seq[i]
      /\ longer[Len(seq) + 1] = c
  OBVIOUS
<1> HIDE DEF longer
<1>2. Elements(longer) = Elements(seq) \cup {c}
  BY <1>1 DEF Elements
<1>3. Increasing(longer)
  <2> SUFFICES ASSUME NEW i \in DOMAIN longer, NEW j \in DOMAIN longer, i < j
               PROVE  longer[i] < longer[j]
    BY DEF Increasing
  <2>1. i \in 1 .. Len(seq) /\ i \in DOMAIN seq /\ longer[i] = seq[i]
    BY <1>1
  <2>2. CASE j = Len(seq) + 1
    <3>1. longer[j] = c
      BY <1>1, <2>2
    <3> QED BY <2>1, <3>1
  <2>3. CASE j # Len(seq) + 1
    <3>1. j \in 1 .. Len(seq) /\ j \in DOMAIN seq /\ longer[j] = seq[j]
      BY <1>1, <2>3
    <3> QED BY <2>1, <3>1 DEF Increasing
  <2> QED BY <2>2, <2>3
<1> QED BY <1>1, <1>2, <1>3 DEF longer

LEMMA TailElements ==
  ASSUME NEW seq \in Seq(Int), seq # <<>>, Increasing(seq)
  PROVE  /\ Head(seq) \in Int
         /\ Tail(seq) \in Seq(Int)
         /\ Elements(seq) = {Head(seq)} \cup Elements(Tail(seq))
         /\ Increasing(Tail(seq))
         /\ \A j \in DOMAIN Tail(seq) : Head(seq) < Tail(seq)[j]
         /\ Len(Tail(seq)) = Len(seq) - 1
<1> DEFINE rest == Tail(seq)
<1>1. /\ Head(seq) = seq[1] /\ seq[1] \in Int
      /\ Len(seq) \in Nat \ {0}
      /\ DOMAIN seq = 1 .. Len(seq)
      /\ rest \in Seq(Int)
      /\ Len(rest) = Len(seq) - 1
      /\ DOMAIN rest = 1 .. (Len(seq) - 1)
      /\ \A i \in 1 .. (Len(seq) - 1) : rest[i] = seq[i + 1]
  OBVIOUS
<1> HIDE DEF rest
<1>2. Elements(seq) = {seq[1]} \cup Elements(rest)
  <2>1. ASSUME NEW i \in DOMAIN seq
        PROVE  seq[i] \in {seq[1]} \cup Elements(rest)
    <3>1. CASE i = 1
      BY <3>1
    <3>2. CASE i # 1
      <4>1. i - 1 \in DOMAIN rest /\ rest[i - 1] = seq[i]
        BY <1>1, <3>2
      <4> QED BY <4>1 DEF Elements
    <3> QED BY <3>1, <3>2
  <2>2. ASSUME NEW i \in DOMAIN rest
        PROVE  rest[i] \in Elements(seq)
    <3>1. i + 1 \in DOMAIN seq /\ rest[i] = seq[i + 1]
      BY <1>1
    <3> QED BY <3>1 DEF Elements
  <2>3. seq[1] \in Elements(seq)
    BY <1>1 DEF Elements
  <2> QED BY <2>1, <2>2, <2>3 DEF Elements
<1>3. Increasing(rest)
  <2>1. ASSUME NEW i \in DOMAIN rest, NEW j \in DOMAIN rest, i < j
        PROVE  rest[i] < rest[j]
    <3> DEFINE n == Len(seq)
    <3>1. n \in Nat \ {0} /\ i \in 1 .. (n - 1) /\ j \in 1 .. (n - 1)
      BY <1>1
    <3>2. rest[i] = seq[i + 1] /\ rest[j] = seq[j + 1]
      BY <1>1, <3>1
    <3>3. DOMAIN seq = 1 .. n
      BY <1>1
    <3> HIDE DEF n
    <3>4. i + 1 \in 1 .. n /\ j + 1 \in 1 .. n /\ i + 1 < j + 1
      BY <2>1, <3>1
    <3>5. i + 1 \in DOMAIN seq /\ j + 1 \in DOMAIN seq
      BY <3>3, <3>4
    <3> QED BY <3>2, <3>4, <3>5 DEF Increasing
  <2> QED BY <2>1 DEF Increasing
<1>4. ASSUME NEW j \in DOMAIN rest PROVE seq[1] < rest[j]
  <2>1. 1 \in DOMAIN seq /\ j + 1 \in DOMAIN seq /\ 1 < j + 1 /\ rest[j] = seq[j + 1]
    BY <1>1
  <2> QED BY <2>1 DEF Increasing
<1> QED BY <1>1, <1>2, <1>3, <1>4 DEF rest

\* Initially.
LEMMA InitSearch == Init => SearchIInv
<1> SUFFICES ASSUME Init PROVE SearchIInv
  OBVIOUS
<1>1. query \in Queries /\ starts = <<>> /\ available = <<>> /\ cursor = Window.start
      /\ pc = IF query.duration <= 0 THEN "filter" ELSE "generate"
  BY DEF Init
<1>2. query.day \in Int /\ query.hours \in [opens : Int, closes : Int]
      /\ query.duration \in Int
  BY <1>1, SearchAssumption
<1>3. SearchTypeOK
  BY <1>1, <1>2, WindowType DEF SearchTypeOK, Window
<1>4. Elements(<<>>) = {} /\ DOMAIN <<>> = {}
  BY DEF Elements
<1>5. Increasing(starts) /\ Increasing(available) /\ Precedes(available, starts)
  BY <1>1, <1>4 DEF Increasing, Precedes
<1>6. GeneratedSoFar
  <2> SUFFICES ASSUME pc = "generate" PROVE GeneratedSoFar
    BY DEF GeneratedSoFar
  <2>1. query.duration > 0
    BY <1>1, <1>2
  <2>2. Window.start \in Int
    BY <1>3, QueryType
  <2>3. Candidates(cursor) = {}
    BY <1>1, <2>2 DEF Candidates
  <2>4. (cursor - Window.start) % SlotMinutes = 0
    BY <1>1, <2>2, AvailabilityAssumption
  <2> QED BY <1>1, <1>4, <2>1, <2>2, <2>3, <2>4 DEF GeneratedSoFar
<1>7. FilteredSoFar
  <2> SUFFICES ASSUME pc = "filter" PROVE FilteredSoFar
    BY <1>1 DEF FilteredSoFar
  <2>1. Answer = {}
    BY <1>1 DEF Answer, AvailableStarts, SlotStarts
  <2> QED BY <1>1, <1>4, <2>1 DEF FilteredSoFar
<1> QED BY <1>1, <1>3, <1>5, <1>6, <1>7 DEF SearchIInv

\* The cursor's instant is the next candidate.
LEMMA AppendSearch ==
  ASSUME SearchIInv, AppendStart
  PROVE  SearchIInv'
<1>1. /\ pc = "generate" /\ pc' = pc /\ query' = query /\ available' = available
      /\ cursor <= LatestStart
      /\ starts' = Append(starts, cursor)
      /\ cursor' = cursor + SlotMinutes
  BY DEF AppendStart, StillFits
<1>2. /\ Window.start \in Int /\ LatestStart \in Int /\ SlotMinutes \in Nat \ {0}
      /\ cursor \in Int /\ starts \in Seq(Int)
  BY QueryType, AvailabilityAssumption DEF SearchIInv, SearchTypeOK
<1>3. Window' = Window /\ LatestStart' = LatestStart
  BY <1>1 DEF Window, LatestStart
<1>4. /\ query.duration > 0 /\ available = <<>> /\ Window.start <= cursor
      /\ (cursor - Window.start) % SlotMinutes = 0
      /\ Elements(starts) = Candidates(cursor)
  BY <1>1 DEF SearchIInv, GeneratedSoFar
<1>5. \A i \in DOMAIN starts : starts[i] < cursor
  BY <1>4 DEF Elements, Candidates
<1>6. /\ starts' \in Seq(Int)
      /\ Elements(starts') = Elements(starts) \cup {cursor}
      /\ Increasing(starts')
  BY <1>1, <1>2, <1>5, AppendElements DEF SearchIInv
<1>7. /\ (cursor' - Window.start) % SlotMinutes = 0
      /\ \A s \in Int : /\ (s - Window.start) % SlotMinutes = 0
                        /\ cursor <= s
                        /\ s < cursor'
                        => s = cursor
  <2>1. cursor - Window.start \in Int
        /\ cursor' - Window.start = (cursor - Window.start) + SlotMinutes
    BY <1>1, <1>2
  <2>2. ((cursor - Window.start) + SlotMinutes) % SlotMinutes = 0
    BY <1>2, <1>4, <2>1, NextGridPoint
  <2>3. ASSUME NEW s \in Int, (s - Window.start) % SlotMinutes = 0,
               cursor <= s, s < cursor'
        PROVE  s = cursor
    <3>1. /\ s - Window.start \in Int
          /\ cursor - Window.start <= s - Window.start
          /\ s - Window.start < (cursor - Window.start) + SlotMinutes
      BY <1>1, <1>2, <2>3
    <3>2. s - Window.start = cursor - Window.start
      BY <1>2, <1>4, <2>1, <2>3, <3>1, NextGridPoint
    <3> QED BY <1>2, <3>2
  <2> QED BY <2>1, <2>2, <2>3
<1>8. Candidates(cursor)' = Candidates(cursor) \cup {cursor}
  <2>1. ASSUME NEW s \in Candidates(cursor)'
        PROVE  s \in Candidates(cursor) \cup {cursor}
    <3>1. /\ s \in Int /\ Window.start <= s /\ s < cursor' /\ s <= LatestStart
          /\ (s - Window.start) % SlotMinutes = 0
      BY <1>3 DEF Candidates
    <3>2. s < cursor \/ s = cursor
      BY <1>2, <1>7, <3>1
    <3> QED BY <3>1, <3>2 DEF Candidates
  <2>2. ASSUME NEW s \in Candidates(cursor) \cup {cursor}
        PROVE  s \in Candidates(cursor)'
    <3>1. /\ s \in Int /\ Window.start <= s /\ s <= cursor /\ s <= LatestStart
          /\ (s - Window.start) % SlotMinutes = 0
      BY <1>1, <1>2, <1>4 DEF Candidates
    <3>2. s < cursor'
      BY <1>1, <1>2, <3>1
    <3> QED BY <1>3, <3>1, <3>2 DEF Candidates
  <2> QED BY <2>1, <2>2
<1>9. GeneratedSoFar'
  <2>1. Window.start <= cursor'
    BY <1>1, <1>2, <1>4
  <2> QED BY <1>1, <1>3, <1>4, <1>6, <1>7, <1>8, <2>1 DEF GeneratedSoFar
<1>10. SearchTypeOK'
  BY <1>1, <1>2, <1>6 DEF SearchIInv, SearchTypeOK
<1>11. Increasing(available)' /\ Precedes(available, starts)'
  BY <1>1, <1>4 DEF Increasing, Precedes
<1>12. FilteredSoFar'
  BY <1>1 DEF FilteredSoFar
<1> QED BY <1>1, <1>6, <1>9, <1>10, <1>11, <1>12 DEF SearchIInv

\* When the cursor is past the last start that fits, no candidate is missing.
LEMMA StopSearch ==
  ASSUME SearchIInv, StopGenerating
  PROVE  SearchIInv'
<1>1. /\ pc = "generate" /\ pc' = "filter" /\ UNCHANGED <<query, cursor, starts, available>>
      /\ ~(cursor <= LatestStart)
  BY DEF StopGenerating, StillFits
<1>2. /\ query.duration > 0 /\ available = <<>>
      /\ Elements(starts) = Candidates(cursor)
  BY <1>1 DEF SearchIInv, GeneratedSoFar
<1>3. /\ query.duration \in Int /\ cursor \in Int
      /\ Window.start \in Int /\ Window.end \in Int
      /\ LatestStart \in Int /\ LatestStart = Window.end - query.duration
  BY QueryType DEF SearchIInv, SearchTypeOK, LatestStart
<1>4. Candidates(cursor) = SlotStarts(Window, query.duration)
  BY <1>1, <1>2, <1>3 DEF Candidates, SlotStarts
<1>5. {s \in Elements(starts) : Free(s)} = Answer
  BY <1>2, <1>4 DEF Answer, AvailableStarts, Free, Window
<1>6. Elements(available) = {}
  BY <1>2 DEF Elements
<1>7. FilteredSoFar'
  BY <1>1, <1>5, <1>6 DEF FilteredSoFar, Answer, Free
<1>8. SearchTypeOK'
  BY <1>1 DEF SearchIInv, SearchTypeOK
<1> QED BY <1>1, <1>7, <1>8 DEF SearchIInv, Increasing, Precedes, GeneratedSoFar

\* A candidate that is kept was free; one that is dropped was not.
LEMMA FilterSearch ==
  ASSUME SearchIInv, Keep \/ Drop
  PROVE  SearchIInv'
<1> DEFINE first == Head(starts)
<1>1. /\ pc = "filter" /\ pc' = pc /\ starts # <<>> /\ UNCHANGED <<query, cursor>>
      /\ starts' = Tail(starts)
      /\ \/ Free(first) /\ available' = Append(available, first)
         \/ ~Free(first) /\ available' = available
  BY DEF Keep, Drop, HeadIsFree, Free
<1>2. /\ starts \in Seq(Int) /\ available \in Seq(Int)
      /\ Increasing(starts) /\ Increasing(available)
      /\ Precedes(available, starts)
  BY DEF SearchIInv, SearchTypeOK
<1>3. /\ first \in Int
      /\ starts' \in Seq(Int)
      /\ Elements(starts) = {first} \cup Elements(starts')
      /\ Increasing(starts')
      /\ \A j \in DOMAIN starts' : first < starts'[j]
  BY <1>1, <1>2, TailElements
<1>4. \A i \in DOMAIN available : available[i] < first
  <2>1. 1 \in DOMAIN starts /\ first = starts[1]
    BY <1>1, <1>2
  <2> QED BY <1>2, <2>1 DEF Precedes
<1>5. \A s : Free(s)' <=> Free(s)
  BY <1>1 DEF Free
<1>6. Answer' = Answer
  BY <1>1 DEF Answer
<1>7. Elements(available) \cup {s \in Elements(starts) : Free(s)} = Answer
  BY <1>1 DEF SearchIInv, FilteredSoFar
<1>8. \A i \in DOMAIN available, j \in DOMAIN starts' : available[i] < starts'[j]
  <2>1. ASSUME NEW i \in DOMAIN available, NEW j \in DOMAIN starts'
        PROVE  available[i] < starts'[j]
    <3>1. available[i] < first /\ first < starts'[j]
          /\ available[i] \in Int /\ starts'[j] \in Int
      BY <1>2, <1>3, <1>4
    <3> QED BY <1>3, <3>1
  <2> QED BY <2>1
<1> HIDE DEF first
<1>9. CASE Free(first) /\ available' = Append(available, first)
  <2>1. /\ available' \in Seq(Int)
        /\ Elements(available') = Elements(available) \cup {first}
        /\ Increasing(available')
    BY <1>2, <1>3, <1>4, <1>9, AppendElements
  <2>2. Precedes(available, starts)'
    <3>1. \A i \in DOMAIN available' : available'[i] \in Elements(available) \cup {first}
      BY <2>1 DEF Elements
    <3> QED BY <1>3, <1>8, <3>1 DEF Precedes, Elements
  <2>3. FilteredSoFar'
    BY <1>3, <1>5, <1>6, <1>7, <1>9, <2>1 DEF FilteredSoFar
  <2>4. SearchTypeOK'
    BY <1>1, <1>3, <2>1 DEF SearchIInv, SearchTypeOK
  <2> QED BY <1>1, <1>3, <2>1, <2>2, <2>3, <2>4 DEF SearchIInv, GeneratedSoFar
<1>10. CASE ~Free(first) /\ available' = available
  <2>1. Precedes(available, starts)'
    BY <1>8, <1>10 DEF Precedes
  <2>2. FilteredSoFar'
    BY <1>3, <1>5, <1>6, <1>7, <1>10 DEF FilteredSoFar
  <2>3. SearchTypeOK'
    BY <1>1, <1>3, <1>10 DEF SearchIInv, SearchTypeOK
  <2> QED BY <1>1, <1>2, <1>3, <1>10, <2>1, <2>2, <2>3 DEF SearchIInv, GeneratedSoFar
<1> QED BY <1>1, <1>9, <1>10

\* The answer is complete when no candidate is left.
LEMMA ReturnSearch ==
  ASSUME SearchIInv, Return
  PROVE  SearchIInv'
  BY DEF SearchIInv, Return, SearchTypeOK, Increasing, Precedes, GeneratedSoFar,
         FilteredSoFar, Answer, Free

LEMMA SearchInvariant == Spec => []SearchIInv
<1>1. SearchIInv /\ UNCHANGED vars => SearchIInv'
  BY DEF vars, SearchIInv, SearchTypeOK, Increasing, Precedes, GeneratedSoFar,
         FilteredSoFar, Answer, Free, Candidates, Window, LatestStart
<1>2. SearchIInv /\ [Next]_vars => SearchIInv'
  BY <1>1, AppendSearch, StopSearch, FilterSearch, ReturnSearch DEF Next
<1> QED BY <1>2, InitSearch, PTL DEF Spec

-----------------------------------------------------------------------------
(* What the search returns.                                                *)

\* The loops return the set that the booking engine's model uses, in order
\* and without repetition.
THEOREM SearchIsRight == Spec => []SearchAgrees
<1>1. SearchIInv => SearchAgrees
  <2> SUFFICES ASSUME SearchIInv, pc = "done" PROVE SearchAgrees
    BY DEF SearchAgrees
  <2>1. starts = <<>> /\ Elements(available) \cup {s \in Elements(starts) : Free(s)} = Answer
    BY DEF SearchIInv, FilteredSoFar
  <2>2. Elements(available) = Answer
    BY <2>1 DEF Elements
  <2> QED BY <2>2 DEF SearchAgrees, Found, Elements, Answer, SearchIInv, Increasing
<1> QED BY <1>1, SearchInvariant, PTL

\* A start is available exactly when a customer would expect it to be.
LEMMA AvailableIsExpected ==
  ASSUME SearchTypeOK, NEW s \in Int
  PROVE  s \in Answer <=> Expected(s)
<1> DEFINE first == query.day * DayLength
<1>1. /\ query.day \in Int
      /\ query.hours.opens \in Int /\ query.hours.closes \in Int
      /\ query.duration \in Int
      /\ query.busy \in SUBSET Intervals
      /\ query.horizon.start \in Int /\ query.horizon.end \in Int
      /\ \A taken \in query.busy : taken.start < taken.end
      /\ UtcOffset \in Int /\ first \in Int
  BY QueryType, AvailabilityAssumption DEF Intervals
<1>2. /\ Window.start = first + query.hours.opens - UtcOffset
      /\ Window.end = first + query.hours.closes - UtcOffset
      /\ Window.start \in Int /\ Window.end \in Int
  BY QueryType DEF Window, OpeningWindow, Interval
<1> HIDE DEF first
<1>3. s \in Answer <=> /\ query.duration > 0
                       /\ Window.start <= s
                       /\ s + query.duration <= Window.end
                       /\ (s - Window.start) % SlotMinutes = 0
                       /\ Free(s)
  BY <1>1, <1>2 DEF Answer, AvailableStarts, SlotStarts, Free, Window
<1>4. ASSUME NEW t \in Int
      PROVE  LET wall == t + UtcOffset - query.day * DayLength
             IN  /\ wall \in Int
                 /\ query.hours.opens <= wall <=> Window.start <= t
                 /\ wall < query.hours.closes <=> t < Window.end
  BY <1>1, <1>2 DEF first
<1>5. ASSUME query.duration > 0, NEW taken \in query.busy
      PROVE  Overlaps(Interval(s, s + query.duration), taken)
             <=> \E t \in s .. (s + query.duration - 1) : Contains(taken, t)
  <2>1. /\ taken \in Intervals /\ taken.start < taken.end
        /\ Interval(s, s + query.duration) \in Intervals
        /\ Interval(s, s + query.duration).start = s
        /\ Interval(s, s + query.duration).end = s + query.duration
        /\ s < s + query.duration
    BY <1>1, <1>5 DEF Interval, Intervals
  <2>2. Overlaps(Interval(s, s + query.duration), taken)
        <=> \E t \in Int : Contains(Interval(s, s + query.duration), t)
                           /\ Contains(taken, t)
    BY <2>1, OverlapIsSharedInstant
  <2>3. ASSUME NEW t \in Int
        PROVE  Contains(Interval(s, s + query.duration), t)
               <=> t \in s .. (s + query.duration - 1)
    BY <1>1, <2>1 DEF Contains
  <2>4. \A t \in s .. (s + query.duration - 1) : t \in Int
    OBVIOUS
  <2> QED BY <2>2, <2>3, <2>4
<1>6. ASSUME s \in Answer PROVE Expected(s)
  <2>1. /\ query.duration > 0 /\ Window.start <= s /\ s + query.duration <= Window.end
        /\ (s - Window.start) % SlotMinutes = 0 /\ Free(s)
    BY <1>3, <1>6
  <2>2. ASSUME NEW t \in s .. (s + query.duration - 1)
        PROVE  LET wall == t + UtcOffset - query.day * DayLength
               IN  /\ query.hours.opens <= wall
                   /\ wall < query.hours.closes
                   /\ \A taken \in query.busy : ~Contains(taken, t)
    <3>1. t \in Int /\ Window.start <= t /\ t < Window.end
      BY <1>1, <1>2, <2>1
    <3>2. \A taken \in query.busy : ~Contains(taken, t)
      BY <1>5, <2>1 DEF Free, IsFree
    <3> QED BY <1>4, <3>1, <3>2
  <2> QED BY <2>1, <2>2 DEF Expected, Free, IsFree
<1>7. ASSUME Expected(s) PROVE s \in Answer
  <2>1. /\ query.duration > 0
        /\ (s - Window.start) % SlotMinutes = 0
        /\ query.horizon.start <= s /\ s <= query.horizon.end
    BY <1>7 DEF Expected
  <2>2. s \in s .. (s + query.duration - 1)
        /\ s + query.duration - 1 \in s .. (s + query.duration - 1)
        /\ s + query.duration - 1 \in Int
    BY <1>1, <2>1
  <2>3. Window.start <= s
    BY <1>4, <1>7, <2>2 DEF Expected
  <2>4. s + query.duration - 1 < Window.end
    BY <1>4, <1>7, <2>2 DEF Expected
  <2>5. s + query.duration <= Window.end
    BY <1>1, <1>2, <2>4
  <2>6. \A taken \in query.busy : ~Overlaps(Interval(s, s + query.duration), taken)
    BY <1>5, <1>7, <2>1 DEF Expected
  <2> QED BY <1>3, <2>1, <2>3, <2>5, <2>6 DEF Free, IsFree
<1> QED BY <1>6, <1>7

\* The search offers exactly the starts from which every instant of the
\* appointment is within opening hours and free.
THEOREM SearchIsExact == Spec => []OffersExactlyTheFreeStarts
<1>1. SearchIInv => OffersExactlyTheFreeStarts
  <2> SUFFICES ASSUME SearchIInv, pc = "done",
                      NEW s \in (Window.start - 1) .. (Window.end + 1)
               PROVE  s \in Found <=> Expected(s)
    BY DEF OffersExactlyTheFreeStarts
  <2>1. Found = Answer
    BY DEF SearchIInv, FilteredSoFar, Found, Elements
  <2>2. s \in Int
    BY QueryType DEF SearchIInv
  <2> QED BY <2>1, <2>2, AvailableIsExpected DEF SearchIInv
<1> QED BY <1>1, SearchInvariant, PTL

-----------------------------------------------------------------------------
(* How long the search takes.                                              *)

\* The instants that the cursor has still to pass.
Remaining == IF cursor <= LatestStart THEN LatestStart - cursor + 1 ELSE 0

Rank ==
  CASE pc = "generate" -> 2 * Remaining + Len(starts) + 2
    [] pc = "filter"   -> Len(starts) + 1
    [] OTHER           -> 0

RankFalls == Rank \in Nat /\ Rank' \in Nat /\ Rank' < Rank

\* Every step brings the search closer to its end, and it starts at a finite
\* distance: no query, however odd, keeps the loops running.
THEOREM EveryStepCounts == Spec => [][RankFalls]_vars
<1>1. ASSUME SearchIInv, Next
      PROVE  Rank \in Nat /\ Rank' \in Nat /\ Rank' < Rank
  <2>1. /\ cursor \in Int /\ LatestStart \in Int /\ SlotMinutes \in Nat \ {0}
        /\ starts \in Seq(Int) /\ Len(starts) \in Nat
    BY <1>1, QueryType, AvailabilityAssumption DEF SearchIInv, SearchTypeOK
  <2>2. CASE AppendStart
    <3>1. /\ pc = "generate" /\ pc' = "generate"
          /\ cursor <= LatestStart
          /\ cursor' = cursor + SlotMinutes
          /\ Len(starts') = Len(starts) + 1
          /\ LatestStart' = LatestStart
      BY <2>1, <2>2 DEF AppendStart, StillFits, LatestStart, Window
    <3>2. Remaining \in Nat /\ Remaining' \in Nat /\ Remaining' < Remaining
      BY <2>1, <3>1 DEF Remaining
    <3> QED BY <2>1, <3>1, <3>2 DEF Rank
  <2>3. CASE StopGenerating
    <3>1. Remaining \in Nat
      BY <2>1 DEF Remaining
    <3>2. pc = "generate" /\ pc' = "filter" /\ Len(starts') = Len(starts)
      BY <2>3 DEF StopGenerating
    <3> QED BY <2>1, <3>1, <3>2 DEF Rank
  <2>4. CASE Keep \/ Drop
    <3>1. /\ pc = "filter" /\ pc' = "filter" /\ Len(starts') = Len(starts) - 1
          /\ Len(starts') \in Nat
      BY <1>1, <2>1, <2>4, TailElements DEF Keep, Drop, SearchIInv
    <3> QED BY <2>1, <3>1 DEF Rank
  <2>5. CASE Return
    <3>1. pc = "filter" /\ pc' = "done" /\ Len(starts) = 0
      BY <2>5 DEF Return
    <3> QED BY <3>1 DEF Rank
  <2> QED BY <1>1, <2>2, <2>3, <2>4, <2>5 DEF Next
<1>2. SearchIInv /\ [Next]_vars => [RankFalls]_vars
  BY <1>1 DEF RankFalls
<1> QED BY <1>2, SearchInvariant, PTL DEF Spec
=============================================================================
