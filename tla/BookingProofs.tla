--------------------------- MODULE BookingProofs ----------------------------
(***************************************************************************)
(* Proofs about Booking for every set of requests, every payload and every *)
(* interleaving: the rows of one day are all that a check has to read, the *)
(* type invariant and NoDoubleBooking.                                     *)
(***************************************************************************)
EXTENDS Booking, TLAPS

\* What the type proof carries: types, and what a request carries at each step.
TypeInv == TypeOK /\ RequestShape

-----------------------------------------------------------------------------
(* Which rows a check has to read.                                         *)

\* An appointment that starts on the slot grid lies within opening hours, and
\* so within the bounds of its local day.
LEMMA SlotWithinDay ==
  ASSUME NEW day \in Int, NEW duration \in Nat \ {0},
         NEW hours \in [opens : 0 .. DayLength, closes : 0 .. DayLength],
         NEW s \in SlotStarts(OpeningWindow(day, hours), duration)
  PROVE  /\ s \in Int
         /\ OpeningWindow(day, hours).start <= s
         /\ s + duration <= OpeningWindow(day, hours).end
         /\ DayBounds(day).start <= s
         /\ s + duration <= DayBounds(day).end
<1> DEFINE first == day * DayLength
<1>1. /\ first \in Int
      /\ (day + 1) * DayLength = first + DayLength
      /\ DayLength \in Nat
      /\ UtcOffset \in Int
  BY AvailabilityAssumption
<1>2. hours.opens \in 0 .. DayLength /\ hours.closes \in 0 .. DayLength
  OBVIOUS
<1> HIDE DEF first
<1>3. /\ OpeningWindow(day, hours).start = first + hours.opens - UtcOffset
      /\ OpeningWindow(day, hours).end = first + hours.closes - UtcOffset
  BY DEF OpeningWindow, Interval, first
<1>4. /\ DayBounds(day).start = first - UtcOffset
      /\ DayBounds(day).end = first + DayLength - UtcOffset
  BY <1>1 DEF DayBounds, Interval, first
<1>5. s \in OpeningWindow(day, hours).start .. (OpeningWindow(day, hours).end - duration)
  BY DEF SlotStarts
<1> QED BY <1>1, <1>2, <1>3, <1>4, <1>5

\* collect_busy reads only what overlaps the local day; whatever could be in
\* the way of an appointment of that day is among it.
THEOREM DayRowsSuffice ==
  ASSUME NEW day \in Int, NEW duration \in Nat \ {0},
         NEW hours \in [opens : 0 .. DayLength, closes : 0 .. DayLength],
         NEW s \in SlotStarts(OpeningWindow(day, hours), duration),
         NEW taken \in Intervals,
         Overlaps(Interval(s, s + duration), taken)
  PROVE  Overlaps(taken, DayBounds(day))
<1>1. /\ s \in Int
      /\ DayBounds(day).start <= s
      /\ s + duration <= DayBounds(day).end
  BY SlotWithinDay
<1>2. DayBounds(day).start \in Int /\ DayBounds(day).end \in Int
  BY AvailabilityAssumption DEF DayBounds, Interval
<1>3. s < taken.end /\ taken.start < s + duration
  BY DEF Overlaps, Interval
<1> QED BY <1>1, <1>2, <1>3 DEF Overlaps, Intervals

-----------------------------------------------------------------------------
(* Rows and spans.                                                         *)

\* The interval a row occupies is an interval.
LEMMA SpanType ==
  ASSUME NEW row \in Rows
  PROVE  Span(row) \in Intervals
  BY DEF Span, Rows, Interval, Intervals

\* The constraint does not care in which order it meets two rows.
LEMMA ClashSymmetric ==
  ASSUME NEW row, NEW other, Clash(row, other)
  PROVE  Clash(other, row)
  BY DEF Clash, Overlaps

\* What list_blocking_for_barbers yields are intervals.
LEMMA BlockingSpansType ==
  ASSUME TypeOK, NEW barber, NEW day
  PROVE  BlockingSpans(barber, day) \in SUBSET Intervals
  BY SpanType DEF BlockingSpans, TypeOK

\* A booking's row is a well-typed row.
LEMMA NewRowType ==
  ASSUME NEW a \in BookAsks, a.barber \in Barbers
  PROVE  NewRow(a) \in Rows
<1>1. a.customer \in Users /\ a.offer \in Offers /\ a.starts \in Starts
  BY DEF BookAsks
<1>2. Starts \subseteq Int /\ Duration \in [Offers -> Nat \ {0}]
  BY BookingAssumption, Zenon
<1>3. a.starts \in Int
  BY <1>1, <1>2
<1>4. Duration[a.offer] \in Nat \ {0}
  BY <1>1, <1>2
<1>5. a.starts + Duration[a.offer] \in Int
  BY <1>3, <1>4
<1> QED
  BY <1>1, <1>3, <1>5 DEF NewRow, Rows, Statuses

\* Moving a row yields a row.
LEMMA MovedType ==
  ASSUME NEW a \in MoveAsks, NEW row \in Rows
  PROVE  Moved(a, row) \in Rows
  BY DEF MoveAsks, Moved, Rows

\* The verdict of the first checks is an answer or the next step, and the
\* next step only for a barber.
LEMMA PartiesVerdictType ==
  ASSUME NEW a, NEW gone \in {"not_found", "validation_error"}
  PROVE  /\ PartiesVerdict(a, gone) \in Answers \cup {"appointments"}
         /\ PartiesVerdict(a, gone) \notin Answers => a.barber \in Barbers
  BY DEF PartiesVerdict, Answers, IsBookable

\* The verdict on a transition is an answer or the next step, and the next
\* step only for a row that exists.
LEMMA MoveVerdictType ==
  ASSUME NEW a, NEW row, NEW reason
  PROVE  /\ MoveVerdict(a, row, reason) \in Answers \cup {"update"}
         /\ MoveVerdict(a, row, reason) \notin Answers => row # NoRow
<1>1. CASE row = NoRow
  BY <1>1 DEF MoveVerdict, Answers
<1>2. CASE row # NoRow
  <2>1. MoveVerdict(a, row, reason) \in
          {"not_found", "business_rule", "validation_error", "update", "forbidden"}
    BY <1>2 DEF MoveVerdict
  <2> QED BY <2>1, <1>2 DEF Answers
<1> QED BY <1>1, <1>2

-----------------------------------------------------------------------------
(* The ways in which a request moves, and the type invariant.              *)

\* Answering without having changed anything keeps the types.
LEMMA RefuseType ==
  ASSUME TypeInv, NEW r \in Requests, NEW answer \in Answers, Refuse(r, answer)
  PROVE  TypeInv'
<1> USE DEF TypeInv, Refuse, Reply, Go, Close, Forget, db
<1>1. TypeOK'
  BY DEF TypeOK, NoFacts
<1>2. RequestShape'
  BY DEF TypeOK, RequestShape, Answers
<1> QED BY <1>1, <1>2

\* The facts a request remembers at its arrival are typed.
LEMMA FactsType ==
  Facts \in [absences : SUBSET Requests, inactive : SUBSET (Barbers \cup Offers)]
  BY DEF Facts

\* Taking something out of what stands in a request's way keeps its type.
LEMMA StandingType ==
  ASSUME NEW f \in [absences : SUBSET Requests, inactive : SUBSET (Barbers \cup Offers)],
         NEW S
  PROVE  /\ [f EXCEPT !.absences = @ \ S]
              \in [absences : SUBSET Requests, inactive : SUBSET (Barbers \cup Offers)]
         /\ [f EXCEPT !.inactive = @ \ S]
              \in [absences : SUBSET Requests, inactive : SUBSET (Barbers \cup Offers)]
  OBVIOUS

\* Arriving keeps the types.
LEMMA ArriveType ==
  ASSUME TypeInv, NEW r \in Requests,
         NEW payload \in BookAsks \cup MoveAsks \cup BlockAsks,
         NEW step \in {"parties", "row", "overlap", "forbidden"},
         step = "parties" => Operation[r] = "book" /\ payload \in BookAsks,
         step = "row" => payload \in MoveAsks,
         step = "overlap" => payload \in BlockAsks,
         Arrive(r, payload, step)
  PROVE  TypeInv'
<1> USE DEF TypeInv, Arrive, Go, db
<1>1. TypeOK'
  BY FactsType DEF TypeOK, Steps, Answers
<1>2. RequestShape'
  BY DEF TypeOK, RequestShape
<1> QED BY <1>1, <1>2

\* Initially the types hold.
LEMMA InitType == Init => TypeInv
<1> SUFFICES ASSUME Init PROVE TypeInv
  OBVIOUS
<1>1. appointments \in [Ids -> Rows \cup {NoRow}]
  BY SeedAssumption DEF Init, Ids
<1>2. TypeOK
  BY <1>1 DEF Init, TypeOK, Steps, NoFacts
<1>3. RequestShape
  BY DEF Init, RequestShape
<1> QED BY <1>2, <1>3 DEF TypeInv

\* Every step keeps the types: one step of the proof per action.
LEMMA NextType == TypeInv /\ [Next]_vars => TypeInv'
<1> SUFFICES ASSUME TypeInv, [Next]_vars PROVE TypeInv'
  OBVIOUS
<1> USE DEF TypeInv
<1>1. CASE UNCHANGED vars
  BY <1>1 DEF TypeOK, RequestShape, vars, db, local, history
<1>2. CASE Tick
  BY <1>2 DEF Tick, TypeOK, RequestShape, db, local, history
<1>3. ASSUME NEW r \in Requests, BookArrives(r)
      PROVE  TypeInv'
  BY <1>3, ArriveType DEF BookArrives
<1>4. ASSUME NEW r \in Requests, MoveArrives(r)
      PROVE  TypeInv'
  BY <1>4, ArriveType DEF MoveArrives
<1>5. ASSUME NEW r \in Requests, BlockArrives(r)
      PROVE  TypeInv'
  BY <1>5, ArriveType DEF BlockArrives
<1>6. ASSUME NEW r \in Requests, RemoveAbsence(r)
      PROVE  TypeInv'
  <2>1. PICK i \in Requests :
          /\ absences' = [absences EXCEPT ![i] = NoAbsence]
          /\ standing' = [q \in Requests |->
                            [standing[q] EXCEPT !.absences = @ \ {i}]]
    BY <1>6 DEF RemoveAbsence
  <2>2. standing' \in [Requests -> [absences : SUBSET Requests,
                                    inactive : SUBSET (Barbers \cup Offers)]]
    BY <2>1, StandingType DEF TypeOK
  <2> USE <1>6 DEF RemoveAbsence, Reply, Go, Close
  <2>3. TypeOK'
    BY <2>1, <2>2 DEF TypeOK, Answers
  <2>4. RequestShape'
    BY DEF TypeOK, RequestShape
  <2> QED BY <2>3, <2>4
<1>7. ASSUME NEW r \in Requests, Toggle(r)
      PROVE  TypeInv'
  <2>1. PICK e \in Barbers \cup Offers :
          /\ active' = IF e \in active THEN active \ {e} ELSE active \cup {e}
          /\ standing' = [q \in Requests |->
                            [standing[q] EXCEPT !.inactive = @ \ active']]
    BY <1>7 DEF Toggle
  <2>2. active' \subseteq Barbers \cup Offers
    BY <2>1 DEF TypeOK
  <2>3. standing' \in [Requests -> [absences : SUBSET Requests,
                                    inactive : SUBSET (Barbers \cup Offers)]]
    BY <2>1, StandingType DEF TypeOK
  <2> USE <1>7 DEF Toggle, Reply, Go, Close
  <2>4. TypeOK'
    BY <2>2, <2>3 DEF TypeOK, Answers
  <2>5. RequestShape'
    BY DEF TypeOK, RequestShape
  <2> QED BY <2>4, <2>5
<1>8. ASSUME NEW r \in Requests, CheckParties(r)
      PROVE  TypeInv'
  <2>0. PICK gone \in {"not_found", "validation_error"} :
          /\ pc[r] = "parties"
          /\ IF PartiesVerdict(ask[r], gone) \in Answers
             THEN Refuse(r, PartiesVerdict(ask[r], gone))
             ELSE /\ Continue(r, PartiesVerdict(ask[r], gone))
                  /\ UNCHANGED <<busy, seen, write>>
    BY <1>8 DEF CheckParties
  <2>1. CASE PartiesVerdict(ask[r], gone) \in Answers
    BY <2>0, <2>1, RefuseType
  <2>2. CASE PartiesVerdict(ask[r], gone) \notin Answers
    <3>1. /\ PartiesVerdict(ask[r], gone) = "appointments"
          /\ ask[r].barber \in Barbers
      BY <2>2, PartiesVerdictType
    <3>2. /\ pc[r] = "parties"
          /\ pc' = [pc EXCEPT ![r] = "appointments"]
          /\ UNCHANGED <<clock, db, ask, history, busy, seen, write>>
      BY <2>0, <2>2, <3>1 DEF Continue, Go
    <3>3. TypeOK'
      BY <3>2 DEF TypeOK, Steps, db, history
    <3>4. RequestShape'
      BY <3>1, <3>2 DEF TypeOK, RequestShape, db
    <3> QED BY <3>3, <3>4
  <2> QED BY <2>1, <2>2
<1>9. ASSUME NEW r \in Requests, ReadAppointments(r)
      PROVE  TypeInv'
  <2> USE <1>9 DEF ReadAppointments, Continue, Go, db, history
  <2>1. TypeOK'
    BY BlockingSpansType DEF TypeOK, Steps
  <2>2. RequestShape'
    BY DEF TypeOK, RequestShape
  <2> QED BY <2>1, <2>2
<1>10. ASSUME NEW r \in Requests, ReadAbsences(r)
       PROVE  TypeInv'
  <2>1. CASE Refuse(r, "slot_unavailable")
    BY <2>1, RefuseType DEF Answers
  <2>2. CASE /\ pc[r] = "absences"
             /\ Continue(r, "insert")
             /\ busy' = [busy EXCEPT ![r] = {}]
             /\ UNCHANGED <<seen, write>>
    <3> USE <2>2 DEF Continue, Go, db, history
    <3>1. TypeOK'
      BY DEF TypeOK, Steps
    <3>2. RequestShape'
      BY DEF TypeOK, RequestShape
    <3> QED BY <3>1, <3>2
  <2> QED BY <1>10, <2>1, <2>2 DEF ReadAbsences
<1>11. ASSUME NEW r \in Requests, Insert(r)
       PROVE  TypeInv'
  <2> USE <1>11 DEF Insert, Continue, Go, db, history
  <2>1. r \in Ids /\ ask[r] \in BookAsks /\ ask[r].barber \in Barbers
    BY DEF RequestShape, Ids
  <2>2. [id |-> r, row |-> NewRow(ask[r])] \in [id : Ids, row : Rows]
    BY <2>1, NewRowType
  <2>3. TypeOK'
    BY <2>2 DEF TypeOK, Steps
  <2>4. RequestShape'
    BY <2>2, NullAssumption DEF TypeOK, RequestShape
  <2> QED BY <2>3, <2>4
<1>12. ASSUME NEW r \in Requests, ReadRow(r)
       PROVE  TypeInv'
  <2>1. PICK reason \in BOOLEAN :
          LET row == appointments[ask[r].target]
              verdict == MoveVerdict(ask[r], row, reason)
          IN  IF verdict \in Answers
              THEN Refuse(r, verdict)
              ELSE /\ Continue(r, verdict)
                   /\ seen' = [seen EXCEPT ![r] = row]
                   /\ UNCHANGED <<busy, write>>
    BY <1>12 DEF ReadRow
  <2> DEFINE row == appointments[ask[r].target]
             verdict == MoveVerdict(ask[r], row, reason)
  <2>2. CASE verdict \in Answers
    BY <2>1, <2>2, RefuseType
  <2>3. CASE verdict \notin Answers
    <3>1. verdict = "update" /\ row # NoRow
      BY <2>3, MoveVerdictType
    <3>2. /\ pc[r] = "row"
          /\ pc' = [pc EXCEPT ![r] = "update"]
          /\ seen' = [seen EXCEPT ![r] = row]
          /\ UNCHANGED <<clock, db, ask, history, busy, write>>
      BY <1>12, <2>1, <2>3, <3>1 DEF ReadRow, Continue, Go
    <3>3. ask[r] \in MoveAsks /\ ask[r].target \in Ids
      BY <3>2 DEF RequestShape, MoveAsks
    <3>4. row \in Rows \cup {NoRow}
      BY <3>3 DEF TypeOK
    <3> HIDE DEF row, verdict
    <3>5. TypeOK'
      BY <3>2, <3>4 DEF TypeOK, Steps, db, history
    <3> USE DEF row
    <3>6. RequestShape'
      BY <3>1, <3>2, <3>3 DEF TypeOK, RequestShape, db
    <3> QED BY <3>5, <3>6
  <2> QED BY <2>2, <2>3
<1>13. ASSUME NEW r \in Requests, Update(r)
       PROVE  TypeInv'
  <2> DEFINE version == [id |-> ask[r].target,
                         row |-> Moved(ask[r], appointments[ask[r].target])]
  <2>1. /\ pc[r] = "update"
        /\ pc' = [pc EXCEPT ![r] = "check"]
        /\ write' = [write EXCEPT ![r] = version]
        /\ UNCHANGED <<clock, db, ask, history, busy, seen>>
    BY <1>13 DEF Update, Continue, Go
  <2>2. ask[r] \in MoveAsks /\ ask[r].target \in Ids
    BY <2>1 DEF RequestShape, MoveAsks
  <2>3. appointments[ask[r].target] \in Rows
    BY <2>1, <2>2 DEF TypeOK, RequestShape
  <2>4. version \in [id : Ids, row : Rows]
    BY <2>2, <2>3, MovedType
  <2> HIDE DEF version
  <2>5. TypeOK'
    BY <2>1, <2>4 DEF TypeOK, Steps, db, history
  <2>6. RequestShape'
    BY <2>1, <2>4, NullAssumption DEF TypeOK, RequestShape, db
  <2> QED BY <2>5, <2>6
<1>14. ASSUME NEW r \in Requests, PassCheck(r)
       PROVE  TypeInv'
  <2> USE <1>14 DEF PassCheck, Continue, Go, db, history
  <2>1. TypeOK'
    BY DEF TypeOK, Steps
  <2>2. RequestShape'
    BY DEF TypeOK, RequestShape
  <2> QED BY <2>1, <2>2
<1>15. ASSUME NEW r \in Requests, FailCheck(r)
       PROVE  TypeInv'
  BY <1>15, RefuseType DEF FailCheck, Answers
<1>16. ASSUME NEW r \in Requests, DeadlockVictim(r)
       PROVE  TypeInv'
  BY <1>16, RefuseType DEF DeadlockVictim, Answers
<1>17. ASSUME NEW r \in Requests, Commit(r)
       PROVE  TypeInv'
  <2> USE <1>17 DEF Commit, Reply, Go, Close, Forget
  <2>1. write[r] \in [id : Ids, row : Rows]
    BY DEF TypeOK, RequestShape
  <2>2. TypeOK'
    BY <2>1 DEF TypeOK, Answers, NoFacts
  <2>3. RequestShape'
    BY <2>1, NullAssumption DEF TypeOK, RequestShape
  <2> QED BY <2>2, <2>3
<1>18. ASSUME NEW r \in Requests, CheckOverlap(r)
       PROVE  TypeInv'
  <2>1. CASE Refuse(r, "business_rule")
    BY <2>1, RefuseType DEF Answers
  <2>2. CASE /\ pc[r] = "overlap"
             /\ Continue(r, "store")
             /\ UNCHANGED <<busy, seen, write>>
    <3> USE <2>2 DEF Continue, Go, db, history
    <3>1. TypeOK'
      BY DEF TypeOK, Steps
    <3>2. RequestShape'
      BY DEF TypeOK, RequestShape
    <3> QED BY <3>1, <3>2
  <2> QED BY <1>18, <2>1, <2>2 DEF CheckOverlap
<1>19. ASSUME NEW r \in Requests, StoreAbsence(r)
       PROVE  TypeInv'
  <2> USE <1>19 DEF StoreAbsence, Reply, Go, Close, Forget
  <2>1. [barber |-> ask[r].barber, span |-> ask[r].span]
          \in [barber : Barbers, span : Intervals]
    BY BookingAssumption DEF RequestShape, BlockAsks
  <2>2. TypeOK'
    BY <2>1 DEF TypeOK, Answers, NoFacts
  <2>3. RequestShape'
    BY DEF TypeOK, RequestShape
  <2> QED BY <2>2, <2>3
<1>20. ASSUME NEW r \in Requests, Lose(r)
       PROVE  TypeInv'
  BY <1>20, RefuseType DEF Lose, Answers
<1> QED
  BY <1>1, <1>2, <1>3, <1>4, <1>5, <1>6, <1>7, <1>8, <1>9, <1>10, <1>11,
     <1>12, <1>13, <1>14, <1>15, <1>16, <1>17, <1>18, <1>19, <1>20
     DEF Next, AllServed, Arrives, Serve

\* In every reachable state the variables have their types, and each request
\* carries what its step needs.
THEOREM TypeCorrect == Spec => []TypeOK
<1>1. Spec => []TypeInv
  BY InitType, NextType, PTL DEF Spec
<1>2. TypeInv => TypeOK
  BY DEF TypeInv
<1> QED BY <1>1, <1>2, PTL

-----------------------------------------------------------------------------
(* No double booking.                                                      *)

\* What the constraint keeps of the invariant, types aside.
Safe == OneWriter /\ CheckHolds /\ NoDoubleBooking

\* A step that commits nothing, writes nothing and passes no check at most
\* rolls something back, which makes nothing conflict.
LEMMA QuietStep ==
  ASSUME TypeInv, Safe, TypeInv',
         UNCHANGED appointments,
         \A q \in Requests : /\ write'[q] \in {write[q], NoWrite}
                             /\ pc[q] = "ok" => pc'[q] = "ok"
                             /\ pc'[q] = "commit" => pc[q] = "commit"
  PROVE  Safe'
<1>1. OneWriter'
  BY DEF Safe, OneWriter, HasWritten
<1>2. \A q \in Requests : pc'[q] = "commit" => write'[q] = write[q]
  BY DEF TypeInv, RequestShape
<1>3. CheckHolds'
  BY <1>2 DEF Safe, CheckHolds
<1>4. NoDoubleBooking'
  BY DEF Safe, NoDoubleBooking
<1> QED BY <1>1, <1>3, <1>4 DEF Safe

\* Being refused is such a step.
LEMMA RefuseSafe ==
  ASSUME TypeInv, Safe, TypeInv', NEW r \in Requests, NEW answer \in Answers,
         pc[r] \in Steps, Refuse(r, answer)
  PROVE  Safe'
<1>1. \A q \in Requests : /\ write'[q] \in {write[q], NoWrite}
                          /\ pc[q] = "ok" => pc'[q] = "ok"
                          /\ pc'[q] = "commit" => pc[q] = "commit"
  BY DEF TypeInv, TypeOK, Refuse, Reply, Go, Close, Answers, Steps
<1> QED BY <1>1, QuietStep DEF Refuse, db

\* So is arriving.
LEMMA ArriveSafe ==
  ASSUME TypeInv, Safe, TypeInv', NEW r \in Requests, NEW payload,
         NEW step \in {"parties", "row", "overlap", "forbidden"},
         Arrive(r, payload, step)
  PROVE  Safe'
<1>1. \A q \in Requests : /\ write'[q] \in {write[q], NoWrite}
                          /\ pc[q] = "ok" => pc'[q] = "ok"
                          /\ pc'[q] = "commit" => pc[q] = "commit"
  BY DEF TypeInv, TypeOK, Arrive, Go
<1> QED BY <1>1, QuietStep DEF Arrive, db

\* So is going on to a step that neither follows a write nor a check.
LEMMA ContinueSafe ==
  ASSUME TypeInv, Safe, TypeInv', NEW r \in Requests, NEW step,
         pc[r] # "ok", step # "commit", Continue(r, step), UNCHANGED write
  PROVE  Safe'
<1>1. \A q \in Requests : /\ write'[q] \in {write[q], NoWrite}
                          /\ pc[q] = "ok" => pc'[q] = "ok"
                          /\ pc'[q] = "commit" => pc[q] = "commit"
  BY DEF TypeInv, TypeOK, Continue, Go
<1> QED BY <1>1, QuietStep DEF Continue, db

\* Writing a row nobody else has written disturbs no one's check: the writer
\* has not passed its own.
LEMMA WriteSafe ==
  ASSUME TypeInv, Safe, NEW r \in Requests, NEW v \in [id : Ids, row : Rows],
         pc[r] \in {"insert", "update"},
         v.id = r \/ appointments[v.id] # NoRow,
         \A q \in Requests \ {r} : ~HasWritten(q, v.id),
         write' = [write EXCEPT ![r] = v], Continue(r, "check")
  PROVE  Safe'
<1> USE DEF TypeInv, Safe, Continue, Go, db
<1>1. OneWriter'
  BY DEF OneWriter, HasWritten, TypeOK
<1>2. CheckHolds'
  BY DEF CheckHolds, TypeOK
<1>3. NoDoubleBooking'
  BY DEF NoDoubleBooking
<1> QED BY <1>1, <1>2, <1>3

\* Passing the check: the row conflicts with nothing committed and nothing
\* under way.
LEMMA PassSafe ==
  ASSUME TypeInv, Safe, NEW r \in Requests, PassCheck(r)
  PROVE  Safe'
<1> USE DEF TypeInv, Safe, PassCheck, Continue, Go, db
<1>1. OneWriter'
  BY DEF OneWriter, HasWritten, TypeOK
<1>2. \A i \in Ids \ {write[r].id} :
        appointments[i] # NoRow => ~Clash(write[r].row, appointments[i])
  BY DEF NoConflict, Taken
<1>3. \A q \in Requests \ {r} :
        write[q] # NoWrite => ~Clash(write[r].row, write[q].row)
  BY DEF NoConflict, Rivals
<1>4. \A q \in Requests \ {r} :
        pc[q] = "commit" => /\ ~Clash(write[r].row, write[q].row)
                            /\ ~Clash(write[q].row, write[r].row)
  BY <1>3, ClashSymmetric DEF RequestShape
<1>5. CheckHolds'
  BY <1>2, <1>4 DEF CheckHolds, TypeOK
<1>6. NoDoubleBooking'
  BY DEF NoDoubleBooking
<1> QED BY <1>1, <1>5, <1>6

\* Committing a checked row.
LEMMA CommitSafe ==
  ASSUME TypeInv, Safe, NEW r \in Requests, Commit(r)
  PROVE  Safe'
<1> DEFINE id == write[r].id
           row == write[r].row
<1>1. /\ pc[r] = "commit"
      /\ write[r] # NoWrite
      /\ id \in Ids
      /\ row \in Rows
  BY DEF TypeInv, TypeOK, RequestShape, Commit
<1>2. /\ appointments' = [appointments EXCEPT ![id] = row]
      /\ pc' = [pc EXCEPT ![r] = "ok"]
      /\ write' = [write EXCEPT ![r] = NoWrite]
  BY DEF Commit, Reply, Go, Close
<1>3. \A i \in Ids \ {id} :
        appointments[i] # NoRow => /\ ~Clash(row, appointments[i])
                                   /\ ~Clash(appointments[i], row)
  BY <1>1, ClashSymmetric DEF Safe, CheckHolds
<1>4. \A q \in Requests \ {r} :
        pc[q] = "commit" => /\ write[q] # NoWrite
                            /\ write[q].id # id
                            /\ ~Clash(write[q].row, row)
  BY <1>1 DEF Safe, CheckHolds, OneWriter, HasWritten, TypeInv, RequestShape
<1>5. appointments \in [Ids -> Rows \cup {NoRow}]
  BY DEF TypeInv, TypeOK
<1>6. pc \in [Requests -> Steps \cup Answers] /\ DOMAIN write = Requests
  BY DEF TypeInv, TypeOK
<1>7. row # NoRow
  BY <1>1, NullAssumption
<1>8. id \in Requests => id = r \/ pc[id] = "ok"
  BY <1>1 DEF Safe, OneWriter
<1> HIDE DEF id, row
<1>9. OneWriter'
  <2>1. \A s \in Requests \cap Ids : appointments'[s] # NoRow => pc'[s] = "ok"
    BY <1>2, <1>5, <1>6, <1>8 DEF Safe, OneWriter
  <2>2. \A q \in Requests :
          write'[q] # NoWrite
          => write'[q].id = q \/ appointments'[write'[q].id] # NoRow
    BY <1>1, <1>2, <1>5, <1>6, <1>7 DEF Safe, OneWriter
  <2>3. \A p, q \in Requests :
          p # q /\ write'[p] # NoWrite
          => ~(write'[q] # NoWrite /\ write'[q].id = write'[p].id)
    BY <1>2, <1>6 DEF Safe, OneWriter, HasWritten
  <2> QED BY <2>1, <2>2, <2>3 DEF OneWriter, HasWritten
<1>10. CheckHolds'
  BY <1>2, <1>4, <1>5, <1>6 DEF Safe, CheckHolds
<1>11. NoDoubleBooking'
  BY <1>2, <1>3, <1>5 DEF Safe, NoDoubleBooking
<1> QED BY <1>9, <1>10, <1>11 DEF Safe

\* Initially no request has begun and the rows booked before do not clash.
LEMMA InitSafe == Init => Safe
<1> SUFFICES ASSUME Init PROVE Safe
  OBVIOUS
<1>1. OneWriter
  BY BookingAssumption DEF Init, OneWriter, HasWritten
<1>2. CheckHolds
  BY DEF Init, CheckHolds
<1>3. NoDoubleBooking
  BY SeedAssumption DEF Init, NoDoubleBooking, Ids
<1> QED BY <1>1, <1>2, <1>3 DEF Safe

\* Every step keeps the constraint's part of the invariant.
LEMMA NextSafe == TypeInv /\ Safe /\ [Next]_vars => Safe'
<1> SUFFICES ASSUME TypeInv, Safe, [Next]_vars PROVE Safe'
  OBVIOUS
<1>t. TypeInv'
  BY NextType
<1>1. CASE UNCHANGED vars
  BY <1>1, <1>t, QuietStep DEF vars, db, local
<1>2. CASE Tick
  BY <1>2, <1>t, QuietStep DEF Tick, db, local
<1>3. ASSUME NEW r \in Requests, BookArrives(r)
      PROVE  Safe'
  BY <1>3, <1>t, ArriveSafe DEF BookArrives
<1>4. ASSUME NEW r \in Requests, MoveArrives(r)
      PROVE  Safe'
  BY <1>4, <1>t, ArriveSafe DEF MoveArrives
<1>5. ASSUME NEW r \in Requests, BlockArrives(r)
      PROVE  Safe'
  BY <1>5, <1>t, ArriveSafe DEF BlockArrives
<1>6. ASSUME NEW r \in Requests,
             RemoveAbsence(r) \/ Toggle(r) \/ StoreAbsence(r)
      PROVE  Safe'
  <2>1. /\ pc[r] \in {"idle", "store"}
        /\ Reply(r, "ok")
        /\ UNCHANGED appointments
    BY <1>6 DEF RemoveAbsence, Toggle, StoreAbsence
  <2>2. \A q \in Requests : /\ write'[q] \in {write[q], NoWrite}
                            /\ pc[q] = "ok" => pc'[q] = "ok"
                            /\ pc'[q] = "commit" => pc[q] = "commit"
    BY <2>1 DEF TypeInv, TypeOK, Reply, Go, Close
  <2> QED BY <1>t, <2>1, <2>2, QuietStep
<1>7. ASSUME NEW r \in Requests, NEW answer \in Answers, pc[r] \in Steps,
             Refuse(r, answer)
      PROVE  Safe'
  BY <1>7, <1>t, RefuseSafe
<1>8. ASSUME NEW r \in Requests, CheckParties(r)
      PROVE  Safe'
  <2>0. PICK gone \in {"not_found", "validation_error"} :
          /\ pc[r] = "parties"
          /\ IF PartiesVerdict(ask[r], gone) \in Answers
             THEN Refuse(r, PartiesVerdict(ask[r], gone))
             ELSE /\ Continue(r, PartiesVerdict(ask[r], gone))
                  /\ UNCHANGED <<busy, seen, write>>
    BY <1>8 DEF CheckParties
  <2>1. PartiesVerdict(ask[r], gone) \in Answers
          \/ PartiesVerdict(ask[r], gone) = "appointments"
    BY PartiesVerdictType
  <2>2. CASE PartiesVerdict(ask[r], gone) \in Answers
    BY <1>7, <2>0, <2>2 DEF Steps
  <2>3. CASE PartiesVerdict(ask[r], gone) \notin Answers
    BY <1>t, <2>0, <2>1, <2>3, ContinueSafe
  <2> QED BY <2>2, <2>3
<1>9. ASSUME NEW r \in Requests, ReadAppointments(r)
      PROVE  Safe'
  BY <1>9, <1>t, ContinueSafe DEF ReadAppointments
<1>10. ASSUME NEW r \in Requests, ReadAbsences(r)
       PROVE  Safe'
  <2>1. CASE Refuse(r, "slot_unavailable")
    BY <1>7, <1>10, <2>1 DEF ReadAbsences, Answers, Steps
  <2>2. CASE Continue(r, "insert") /\ UNCHANGED write
    BY <1>10, <1>t, <2>2, ContinueSafe DEF ReadAbsences
  <2> QED BY <1>10, <2>1, <2>2 DEF ReadAbsences
<1>11. ASSUME NEW r \in Requests, Insert(r)
       PROVE  Safe'
  <2> DEFINE version == [id |-> r, row |-> NewRow(ask[r])]
  <2>1. /\ pc[r] = "insert"
        /\ write' = [write EXCEPT ![r] = version]
        /\ Continue(r, "check")
    BY <1>11 DEF Insert
  <2>2. r \in Ids /\ ask[r] \in BookAsks /\ ask[r].barber \in Barbers
    BY <2>1 DEF TypeInv, RequestShape, Ids
  <2>3. version \in [id : Ids, row : Rows] /\ version.id = r
    BY <2>2, NewRowType
  <2>4. \A q \in Requests \ {r} : ~HasWritten(q, r)
    BY <2>1, <2>2 DEF Safe, OneWriter, HasWritten
  <2> HIDE DEF version
  <2> QED BY <2>1, <2>3, <2>4, WriteSafe
<1>12. ASSUME NEW r \in Requests, ReadRow(r)
       PROVE  Safe'
  <2>1. /\ pc[r] = "row"
        /\ \/ \E answer \in Answers : Refuse(r, answer)
           \/ Continue(r, "update") /\ UNCHANGED write
    BY <1>12, MoveVerdictType DEF ReadRow
  <2> QED BY <1>7, <1>t, <2>1, ContinueSafe DEF Steps
<1>13. ASSUME NEW r \in Requests, Update(r)
       PROVE  Safe'
  <2> DEFINE id == ask[r].target
             version == [id |-> id, row |-> Moved(ask[r], appointments[id])]
  <2>1. /\ pc[r] = "update"
        /\ \A q \in Requests \ {r} : ~HasWritten(q, id)
        /\ write' = [write EXCEPT ![r] = version]
        /\ Continue(r, "check")
    BY <1>13 DEF Update
  <2>2. ask[r] \in MoveAsks /\ id \in Ids /\ appointments[id] # NoRow
    BY <2>1 DEF TypeInv, RequestShape, MoveAsks
  <2>3. appointments[id] \in Rows
    BY <2>2 DEF TypeInv, TypeOK
  <2>4. version \in [id : Ids, row : Rows] /\ version.id = id
    BY <2>2, <2>3, MovedType
  <2> HIDE DEF version, id
  <2> QED BY <2>1, <2>2, <2>4, WriteSafe
<1>14. ASSUME NEW r \in Requests, PassCheck(r)
       PROVE  Safe'
  BY <1>14, PassSafe
<1>15. ASSUME NEW r \in Requests, FailCheck(r)
       PROVE  Safe'
  BY <1>7, <1>15 DEF FailCheck, Answers, Steps
<1>16. ASSUME NEW r \in Requests, DeadlockVictim(r)
       PROVE  Safe'
  <2>1. pc[r] \in {"check", "update"}
    BY <1>16 DEF DeadlockVictim, WaitsFor
  <2> QED BY <1>7, <1>16, <2>1 DEF DeadlockVictim, Answers, Steps
<1>17. ASSUME NEW r \in Requests, Commit(r)
       PROVE  Safe'
  BY <1>17, CommitSafe
<1>18. ASSUME NEW r \in Requests, CheckOverlap(r)
       PROVE  Safe'
  <2>1. CASE Refuse(r, "business_rule")
    BY <1>7, <1>18, <2>1 DEF CheckOverlap, Answers, Steps
  <2>2. CASE Continue(r, "store") /\ UNCHANGED write
    BY <1>18, <1>t, <2>2, ContinueSafe DEF CheckOverlap
  <2> QED BY <1>18, <2>1, <2>2 DEF CheckOverlap
<1>19. ASSUME NEW r \in Requests, Lose(r)
       PROVE  Safe'
  BY <1>7, <1>19 DEF Lose, Answers
<1> QED
  BY <1>1, <1>2, <1>3, <1>4, <1>5, <1>6, <1>8, <1>9, <1>10, <1>11, <1>12,
     <1>13, <1>14, <1>15, <1>16, <1>17, <1>18, <1>19
     DEF Next, AllServed, Arrives, Serve

\* The inductive invariant holds in every reachable state.
THEOREM BookingInvariant == Spec => []BookingInv
<1>1. Init => TypeInv /\ Safe
  BY InitType, InitSafe
<1>2. TypeInv /\ Safe /\ [Next]_vars => (TypeInv /\ Safe)'
  BY NextType, NextSafe
<1>3. TypeInv /\ Safe => BookingInv
  BY DEF TypeInv, Safe, BookingInv
<1> QED BY <1>1, <1>2, <1>3, PTL DEF Spec

\* Whatever requests arrive and however they interleave, no barber has two
\* active appointments at the same time.
THEOREM NoDoubleBookingHolds == Spec => []NoDoubleBooking
<1>1. BookingInv => NoDoubleBooking
  BY DEF BookingInv
<1> QED BY <1>1, BookingInvariant, PTL
=============================================================================
