------------------------------ MODULE Booking -------------------------------
(***************************************************************************)
(* The booking engine over its PostgreSQL store: the HTTP requests that    *)
(* book an appointment (BookingService), move one to another status        *)
(* (AppointmentService), block or free a barber's time (ScheduleService)   *)
(* and switch a barber or a service on or off.                             *)
(*                                                                         *)
(* Each request is one asyncio task with one database session, opened and  *)
(* committed by get_db.  It yields at every await, so an action is what    *)
(* happens between two statements, and a statement sees what other         *)
(* sessions have committed before it (READ COMMITTED, the default).  What  *)
(* a request has written but not committed is in write[r]: no SELECT sees  *)
(* it, but a row lock and the exclusion constraint do.                     *)
(***************************************************************************)
EXTENDS Availability, Lifecycle, FiniteSets, Relation

CONSTANTS Requests,     \* HTTP requests, each served once
          Operation,    \* what each request asks for
          Aborting,     \* requests whose connection may fail
          Seeds,        \* ids of appointments booked before the run
          SeedRows,     \* and their rows
          ActiveUsers,  \* accounts with is_active; no operation changes it
          Offers,       \* a service with the extras chosen for it
          Duration,     \* total_duration of each offer
          DaysInWeek,   \* length of the weekly opening schedule
          Hours,        \* opening hours of each weekday, or Closed
          Closed,
          Starts,       \* the starts_at clients ask for
          Spans,        \* the absences administrators ask for
          Lead,         \* settings.booking_min_lead_minutes
          MaxAdvance,   \* settings.booking_max_advance_days
          MaxClock,     \* bound on the clock
          NoRow, NoWrite, NoAbsence, NoAsk

Operations == {"book", "move", "block", "unblock", "toggle"}

OpeningHours == {h \in [opens : 0 .. DayLength, closes : 0 .. DayLength] :
                   h.opens < h.closes}

ASSUME BookingAssumption ==
  /\ Operation \in [Requests -> Operations]
  /\ IsFiniteSet(Requests)
  /\ Requests \cap Seeds = {}
  /\ ActiveUsers \subseteq Users
  /\ Duration \in [Offers -> Nat \ {0}]
  /\ DaysInWeek \in Nat \ {0}
  /\ Hours \in [0 .. (DaysInWeek - 1) -> OpeningHours \cup {Closed}]
  /\ Starts \subseteq Int
  /\ Spans \subseteq {i \in Intervals : i.start < i.end}
  /\ Lead \in Nat
  /\ MaxAdvance \in Nat
  /\ MaxClock \in Nat

\* A booking's appointment takes the name of the request that makes it.
Ids == {r \in Requests : Operation[r] = "book"} \cup Seeds

Span(row) == Interval(row.starts, row.ends)

Blocking(row) == row.status \in BlockingStatuses

\* Two rows the exclusion constraint refuses together.
Clash(row, other) ==
  /\ Blocking(row)
  /\ Blocking(other)
  /\ row.barber = other.barber
  /\ Overlaps(Span(row), Span(other))

ASSUME SeedAssumption ==
  /\ SeedRows \in [Seeds -> Rows]
  /\ \A i \in Seeds : SeedRows[i].starts < SeedRows[i].ends
  /\ \A i \in Seeds : SeedRows[i].cancelledAt = (SeedRows[i].status = "cancelled")
  /\ \A i, j \in Seeds : i # j => ~Clash(SeedRows[i], SeedRows[j])

ASSUME NullAssumption ==
  /\ NoRow \notin Rows
  /\ NoRow \notin [barber : Barbers, start : Int, end : Int]
  /\ NoWrite \notin [id : Ids, row : Rows]
  /\ NoAbsence \notin [barber : Barbers, span : Intervals]

VARIABLES
  clock,         \* datetime.now(UTC)
  appointments,  \* committed rows of the appointments table
  absences,      \* committed rows of barber_time_off, by creating request
  active,        \* barber profiles and offers with is_active
  pc,            \* the statement each request is about to send, or its answer
  ask,           \* the request's payload and viewer
  busy,          \* the occupied intervals it has collected
  seen,          \* the appointment row it has read
  write,         \* the row version it has written and not committed
  arrived,       \* history: the clock when it arrived
  standing       \* history: what has stood in its way ever since it arrived

db == <<appointments, absences, active>>
local == <<pc, ask, busy, seen, write>>
history == <<arrived, standing>>
vars == <<clock, db, local, history>>

Answers == {"ok", "forbidden", "not_found", "business_rule",
            "slot_unavailable", "validation_error", "conflict",
            "database_unavailable", "lost"}

Steps == {"idle", "parties", "appointments", "absences", "insert", "check",
          "commit", "row", "update", "overlap", "store"}

BookAsks == [customer : Users, barber : Users, offer : Offers, starts : Starts]
MoveAsks == [viewer : Users, target : Ids, to : Statuses]
BlockAsks == [barber : Barbers, span : Spans]

NoFacts == [absences |-> {}, inactive |-> {}]

TypeOK ==
  /\ clock \in Nat
  /\ appointments \in [Ids -> Rows \cup {NoRow}]
  /\ absences \in [Requests ->
                     [barber : Barbers, span : Intervals] \cup {NoAbsence}]
  /\ active \subseteq Barbers \cup Offers
  /\ pc \in [Requests -> Steps \cup Answers]
  /\ ask \in [Requests -> BookAsks \cup MoveAsks \cup BlockAsks \cup {NoAsk}]
  /\ busy \in [Requests -> SUBSET Intervals]
  /\ seen \in [Requests -> Rows \cup {NoRow}]
  /\ write \in [Requests -> [id : Ids, row : Rows] \cup {NoWrite}]
  /\ arrived \in [Requests -> Nat]
  /\ standing \in [Requests -> [absences : SUBSET Requests,
                                inactive : SUBSET (Barbers \cup Offers)]]

Init ==
  /\ clock = 0
  /\ appointments = [i \in Ids |-> IF i \in Seeds THEN SeedRows[i] ELSE NoRow]
  /\ absences = [r \in Requests |-> NoAbsence]
  /\ active = Barbers \cup Offers
  /\ pc = [r \in Requests |-> "idle"]
  /\ ask = [r \in Requests |-> NoAsk]
  /\ busy = [r \in Requests |-> {}]
  /\ seen = [r \in Requests |-> NoRow]
  /\ write = [r \in Requests |-> NoWrite]
  /\ arrived = [r \in Requests |-> 0]
  /\ standing = [r \in Requests |-> NoFacts]

-----------------------------------------------------------------------------
(* How a request moves on and how it ends.                                 *)

Go(r, step) == pc' = [pc EXCEPT ![r] = step]

\* The session is closed: what was not committed is rolled back, what was
\* read is forgotten.
Close(r) ==
  /\ ask' = [ask EXCEPT ![r] = NoAsk]
  /\ busy' = [busy EXCEPT ![r] = {}]
  /\ seen' = [seen EXCEPT ![r] = NoRow]
  /\ write' = [write EXCEPT ![r] = NoWrite]
  /\ arrived' = [arrived EXCEPT ![r] = 0]

Reply(r, answer) == Go(r, answer) /\ Close(r)

Forget(r) == standing' = [standing EXCEPT ![r] = NoFacts]

Refuse(r, answer) ==
  /\ Reply(r, answer)
  /\ Forget(r)
  /\ UNCHANGED <<clock, db>>

\* The request goes on to the step, having changed nothing but its own
\* local state.
Continue(r, step) ==
  /\ Go(r, step)
  /\ UNCHANGED <<clock, db, ask, history>>

Facts ==
  [absences |-> {i \in Requests : absences[i] # NoAbsence},
   inactive |-> (Barbers \cup Offers) \ active]

Arrive(r, payload, step) ==
  /\ pc[r] = "idle"
  /\ Go(r, step)
  /\ ask' = [ask EXCEPT ![r] = payload]
  /\ arrived' = [arrived EXCEPT ![r] = clock]
  /\ standing' = [standing EXCEPT ![r] = Facts]
  /\ UNCHANGED <<clock, db, busy, seen, write>>

-----------------------------------------------------------------------------
(* Booking.                                                                *)

\* POST /appointments and POST /appointments/admin: an administrator books
\* for anyone, a customer for themselves, a barber not at all.
BookArrives(r) ==
  /\ Operation[r] = "book"
  /\ \E viewer \in ActiveUsers, payload \in BookAsks :
       /\ Role[viewer] # "admin" => payload.customer = viewer
       /\ Arrive(r, payload,
                 IF Role[viewer] = "barber" THEN "forbidden" ELSE "parties")

IsBookable(barber) ==
  /\ barber \in Barbers
  /\ barber \in active
  /\ barber \in ActiveUsers

Horizon == Interval(clock + Lead, clock + MaxAdvance)

InHorizon(t) == Horizon.start <= t /\ t <= Horizon.end

HoursOn(day) == Hours[day % DaysInWeek]

\* create_appointment up to its first look at the agenda.  The four rows it
\* reads (service, extras, barber, customer) are independent of one another,
\* so one action stands for the four statements.  gone is the answer to an
\* offer that is not active: not_found for the service, validation_error for
\* one of the extras.
PartiesVerdict(a, gone) ==
  IF a.offer \notin active THEN gone
  ELSE IF ~ (IsBookable(a.barber) /\ a.customer \in ActiveUsers)
  THEN "not_found"
  ELSE IF a.customer = a.barber \/ ~InHorizon(a.starts)
  THEN "business_rule"
  ELSE IF HoursOn(LocalDay(a.starts)) = Closed
  THEN "slot_unavailable"
  ELSE "appointments"

CheckParties(r) ==
  /\ pc[r] = "parties"
  /\ \E gone \in {"not_found", "validation_error"} :
       LET verdict == PartiesVerdict(ask[r], gone)
       IN  IF verdict \in Answers
           THEN Refuse(r, verdict)
           ELSE Continue(r, verdict) /\ UNCHANGED <<busy, seen, write>>

\* list_blocking_for_barbers: the committed rows that occupy the barber on
\* the requested local day.
BlockingSpans(barber, day) ==
  {Span(row) : row \in {appointments[i] : i \in
     {j \in Ids : /\ appointments[j] # NoRow
                  /\ appointments[j].barber = barber
                  /\ Blocking(appointments[j])
                  /\ Overlaps(Span(appointments[j]), DayBounds(day))}}}

ReadAppointments(r) ==
  /\ pc[r] = "appointments"
  /\ busy' = [busy EXCEPT ![r] =
                BlockingSpans(ask[r].barber, LocalDay(ask[r].starts))]
  /\ Continue(r, "absences")
  /\ UNCHANGED <<seen, write>>

\* list_for_barbers: the absences of a barber that overlap a window.
AbsencesOf(barber, window) ==
  {i \in Requests : /\ absences[i] # NoAbsence
                    /\ absences[i].barber = barber
                    /\ Overlaps(absences[i].span, window)}

\* What _assert_slot_bookable and available_starts make of what was read.
SlotOffered(a, occupied) ==
  LET day == LocalDay(a.starts)
  IN  a.starts \in AvailableStarts(day, HoursOn(day), Duration[a.offer],
                                   occupied, Horizon)

ReadAbsences(r) ==
  /\ pc[r] = "absences"
  /\ LET a == ask[r]
         away == {absences[i].span :
                    i \in AbsencesOf(a.barber, DayBounds(LocalDay(a.starts)))}
     IN  IF SlotOffered(a, busy[r] \cup away)
         THEN /\ Continue(r, "insert")
              /\ busy' = [busy EXCEPT ![r] = {}]
              /\ UNCHANGED <<seen, write>>
         ELSE Refuse(r, "slot_unavailable")

\* Fault: a status the state machine does not know.
NewRowDraft(a) ==
  [customer |-> a.customer, barber |-> a.barber, starts |-> a.starts,
   ends |-> a.starts + Duration[a.offer], status |-> "draft",
   cancelledAt |-> FALSE]

NewRow(a) ==
  [customer |-> a.customer, barber |-> a.barber, starts |-> a.starts,
   ends |-> a.starts + Duration[a.offer], status |-> "pending",
   cancelledAt |-> FALSE]

\* INSERT: the row is in the table, seen by the constraint's own check and
\* by nobody else until it commits.
Insert(r) ==
  /\ pc[r] = "insert"
  /\ write' = [write EXCEPT ![r] = [id |-> r, row |-> NewRow(ask[r])]]
  /\ Continue(r, "check")
  /\ UNCHANGED <<busy, seen>>

-----------------------------------------------------------------------------
(* The storage layer: row locks and the exclusion constraint               *)
(*   EXCLUDE USING gist (barber_id WITH =, tstzrange WITH &&)              *)
(*   WHERE status IN ('pending', 'confirmed').                             *)
(* PostgreSQL puts the row in the table first and looks for conflicts      *)
(* afterwards.  It fails on a committed row, and waits for the transaction *)
(* that has written, or is replacing, a conflicting row.                   *)

HasWritten(q, id) == write[q] # NoWrite /\ write[q].id = id

\* The committed rows that conflict with what r has written.
Taken(r) ==
  {i \in Ids \ {write[r].id} :
     appointments[i] # NoRow /\ Clash(write[r].row, appointments[i])}

\* The other transactions on whose outcome r's check depends.
Rivals(r) ==
  {q \in Requests \ {r} :
     write[q] # NoWrite /\ \/ Clash(write[r].row, write[q].row)
                           \/ write[q].id \in Taken(r)}

\* Faults: the check stops at committed rows, or at transactions under way.
NoConflictCommitted(r) == Taken(r) = {}
NoConflictInFlight(r) == Rivals(r) = {}

NoConflict(r) == Taken(r) = {} /\ Rivals(r) = {}

\* A committed row conflicts and no transaction is about to replace it.
Conflict(r) ==
  \E i \in Taken(r) : \A q \in Requests \ {r} : ~HasWritten(q, i)

PassCheck(r) ==
  /\ pc[r] = "check"
  /\ NoConflict(r)
  /\ Continue(r, "commit")
  /\ UNCHANGED <<busy, seen, write>>

\* Fault: the insert is tried again as long as the constraint refuses it.
FailCheckRetried(r) ==
  /\ pc[r] = "check"
  /\ Conflict(r)
  /\ write' = [write EXCEPT ![r] = NoWrite]
  /\ Continue(r, "insert")
  /\ UNCHANGED <<busy, seen>>

\* IntegrityError: BookingService answers it, update_status leaves it to the
\* exception handler.
FailCheck(r) ==
  /\ pc[r] = "check"
  /\ Conflict(r)
  /\ Refuse(r, IF Operation[r] = "book" THEN "slot_unavailable" ELSE "conflict")

\* Fault: the endpoint answers, but its session is closed uncommitted.
CommitForgotten(r) ==
  /\ pc[r] = "commit"
  /\ Refuse(r, "ok")

\* get_db commits once the endpoint has returned.
Commit(r) ==
  /\ pc[r] = "commit"
  /\ appointments' = [appointments EXCEPT ![write[r].id] = write[r].row]
  /\ Reply(r, "ok")
  /\ Forget(r)
  /\ UNCHANGED <<clock, absences, active>>

-----------------------------------------------------------------------------
(* Moving an appointment to another status.                                *)

MoveArrives(r) ==
  /\ Operation[r] = "move"
  /\ \E payload \in MoveAsks :
       /\ payload.viewer \in ActiveUsers
       /\ Arrive(r, payload, "row")

\* _require_visible and _assert_transition_allowed, then the rule about the
\* cancellation reason.  Nothing else looks at the reason, so whether the
\* payload has one is chosen here.
MoveVerdict(a, row, reason) ==
  IF row = NoRow \/ ~CanView(row, a.viewer)
  THEN "not_found"
  ELSE IF a.to = row.status \/ a.to \notin StatusTransitions[row.status]
  THEN "business_rule"
  ELSE IF a.to \in AllowedTransitions(row, a.viewer, clock)
  THEN IF reason /\ a.to # "cancelled" THEN "validation_error" ELSE "update"
  ELSE IF /\ a.to = "cancelled"
          /\ Role[a.viewer] = "customer"
          /\ IsOwner(row, a.viewer)
  THEN "business_rule"
  ELSE "forbidden"

ReadRow(r) ==
  /\ pc[r] = "row"
  /\ \E reason \in BOOLEAN :
       LET row == appointments[ask[r].target]
           verdict == MoveVerdict(ask[r], row, reason)
       IN  IF verdict \in Answers
           THEN Refuse(r, verdict)
           ELSE /\ Continue(r, verdict)
                /\ seen' = [seen EXCEPT ![r] = row]
                /\ UNCHANGED <<busy, write>>

\* The changed columns only, laid over whatever is committed by then.
\* Fault: the stamp is left out.
MovedUnstamped(a, row) == [row EXCEPT !.status = a.to]

Moved(a, row) ==
  [row EXCEPT !.status = a.to,
              !.cancelledAt = @ \/ a.to = "cancelled"]

\* UPDATE ... WHERE id = target, once no other transaction holds the row.
\* Nothing makes it look again at the status it replaces.
Update(r) ==
  /\ pc[r] = "update"
  /\ \A q \in Requests \ {r} : ~HasWritten(q, ask[r].target)
  /\ write' = [write EXCEPT ![r] =
                 [id |-> ask[r].target,
                  row |-> Moved(ask[r], appointments[ask[r].target])]]
  /\ Continue(r, "check")
  /\ UNCHANGED <<busy, seen>>

-----------------------------------------------------------------------------
(* Absences, and the switches of the catalogue and of the staff list.      *)

BlockArrives(r) ==
  /\ Operation[r] = "block"
  /\ \E payload \in BlockAsks : Arrive(r, payload, "overlap")

\* create_time_off looks at the other absences, never at appointments.
CheckOverlap(r) ==
  /\ pc[r] = "overlap"
  /\ IF AbsencesOf(ask[r].barber, ask[r].span) # {}
     THEN Refuse(r, "business_rule")
     ELSE Continue(r, "store") /\ UNCHANGED <<busy, seen, write>>

\* Nothing sees the row between its INSERT and its COMMIT.
StoreAbsence(r) ==
  /\ pc[r] = "store"
  /\ absences' = [absences EXCEPT ![r] =
                    [barber |-> ask[r].barber, span |-> ask[r].span]]
  /\ Reply(r, "ok")
  /\ Forget(r)
  /\ UNCHANGED <<clock, appointments, active>>

\* delete_time_off: an absence is only ever deleted, never altered.
RemoveAbsence(r) ==
  /\ Operation[r] = "unblock"
  /\ pc[r] = "idle"
  /\ \E i \in Requests :
       /\ absences[i] # NoAbsence
       /\ absences' = [absences EXCEPT ![i] = NoAbsence]
       /\ standing' = [q \in Requests |->
                         [standing[q] EXCEPT !.absences = @ \ {i}]]
  /\ Reply(r, "ok")
  /\ UNCHANGED <<clock, appointments, active>>

\* update_barber, update_service, update_extra with is_active.
Toggle(r) ==
  /\ Operation[r] = "toggle"
  /\ pc[r] = "idle"
  /\ \E e \in Barbers \cup Offers :
       /\ active' = IF e \in active THEN active \ {e} ELSE active \cup {e}
       /\ standing' = [q \in Requests |->
                         [standing[q] EXCEPT !.inactive = @ \ active']]
  /\ Reply(r, "ok")
  /\ UNCHANGED <<clock, appointments, absences>>

-----------------------------------------------------------------------------
(* What may befall a request under way.                                    *)

\* The transactions r may be waiting for.
WaitsFor(r) ==
  IF pc[r] = "check" THEN Rivals(r)
  ELSE IF pc[r] = "update"
       THEN {q \in Requests \ {r} : HasWritten(q, ask[r].target)}
       ELSE {}

WaitsInCycle(r) ==
  TransitiveClosure([p, q \in Requests |-> q \in WaitsFor(p)], Requests)[r, r]

\* PostgreSQL's deadlock detector rolls one transaction of a cycle back; the
\* error is no IntegrityError, so the exception handler answers 503.
DeadlockVictim(r) ==
  /\ WaitsFor(r) # {}
  /\ WaitsInCycle(r)
  /\ Refuse(r, "database_unavailable")

\* The database connection or the worker process dies before the commit.
Lose(r) ==
  /\ r \in Aborting
  /\ pc[r] \in Steps \ {"idle"}
  /\ Refuse(r, "lost")

Tick ==
  /\ clock < MaxClock
  /\ clock' = clock + 1
  /\ UNCHANGED <<db, local, history>>

\* Every request has been answered and the clock has reached its bound.
AllServed ==
  /\ clock = MaxClock
  /\ \A r \in Requests : pc[r] \in Answers
  /\ UNCHANGED vars

Arrives(r) ==
  BookArrives(r) \/ MoveArrives(r) \/ BlockArrives(r)
    \/ RemoveAbsence(r) \/ Toggle(r)

\* A step of a request under way, taken by the event loop or the database.
Serve(r) ==
  \/ CheckParties(r) \/ ReadAppointments(r) \/ ReadAbsences(r) \/ Insert(r)
  \/ ReadRow(r) \/ Update(r)
  \/ PassCheck(r) \/ FailCheck(r) \/ DeadlockVictim(r) \/ Commit(r)
  \/ CheckOverlap(r) \/ StoreAbsence(r)

Next ==
  \/ Tick
  \/ AllServed
  \/ \E r \in Requests : Arrives(r) \/ Serve(r) \/ Lose(r)

Spec == Init /\ [][Next]_vars

\* The event loop resumes every task whose statement has returned, and the
\* database answers every statement that nothing blocks.  Clients need not
\* send anything, connections need not fail, and the clock may stand still.
FairSpec == Spec /\ \A r \in Requests : WF_vars(Serve(r))

-----------------------------------------------------------------------------
(* Why NoDoubleBooking holds.                                              *)

\* What a request carries fits the step it is at.
RequestShape ==
  \A r \in Requests :
    /\ pc[r] \in {"parties", "appointments", "absences", "insert"}
         => Operation[r] = "book" /\ ask[r] \in BookAsks
    /\ pc[r] \in {"appointments", "absences", "insert"}
         => ask[r].barber \in Barbers
    /\ pc[r] \in {"row", "update"} => ask[r] \in MoveAsks
    /\ pc[r] = "update" => appointments[ask[r].target] # NoRow
    /\ pc[r] \in {"overlap", "store"} => ask[r] \in BlockAsks
    /\ write[r] # NoWrite <=> pc[r] \in {"check", "commit"}

\* A transaction writes the row of its own booking, which does not exist
\* yet, or one that does exist; no two write the same row.
OneWriter ==
  /\ \A r \in Requests \cap Ids : appointments[r] # NoRow => pc[r] = "ok"
  /\ \A r \in Requests :
       write[r] # NoWrite
       => write[r].id = r \/ appointments[write[r].id] # NoRow
  /\ \A r, q \in Requests :
       r # q /\ write[r] # NoWrite => ~HasWritten(q, write[r].id)

\* A transaction that has passed the check conflicts with no committed row
\* but the one it replaces, and with no other that has passed it.
CheckHolds ==
  \A r \in Requests :
    pc[r] = "commit" =>
      /\ \A i \in Ids \ {write[r].id} :
           appointments[i] # NoRow => ~Clash(write[r].row, appointments[i])
      /\ \A q \in Requests \ {r} :
           pc[q] = "commit" => ~Clash(write[r].row, write[q].row)

-----------------------------------------------------------------------------
(* Why moves are lawful and appointments keep their place.                 *)

SameAppointment(row, other) ==
  /\ row.customer = other.customer
  /\ row.barber = other.barber
  /\ row.starts = other.starts
  /\ row.ends = other.ends

\* What _assert_transition_allowed found is still true of the row that was
\* read, and the row has not become another appointment.
AllowedWhenRead(r) ==
  LET a == ask[r]
      row == seen[r]
  IN  /\ a \in MoveAsks
      /\ row \in Rows
      /\ appointments[a.target] # NoRow
      /\ SameAppointment(row, appointments[a.target])
      /\ a.to \in StatusTransitions[row.status]
      /\ Role[a.viewer] = "customer" =>
           /\ row.customer = a.viewer
           /\ row.starts - arrived[r] >= Cutoff
      /\ Role[a.viewer] = "barber" => row.barber = a.viewer

MovesFit ==
  \A r \in Requests :
    /\ pc[r] \in {"row", "update"} => Operation[r] = "move"
    /\ \/ pc[r] = "update"
       \/ write[r] # NoWrite /\ Operation[r] = "move"
       => AllowedWhenRead(r)

\* A transaction writes a new active row, or the row it was asked to move
\* with nothing but its status and stamp changed.
WritesFit ==
  \A r \in Requests :
    write[r] # NoWrite =>
      LET row == write[r].row
      IN  /\ row.status = "cancelled" => row.cancelledAt
          /\ \/ Operation[r] = "book" /\ write[r].id = r /\ Blocking(row)
             \/ /\ Operation[r] = "move"
                /\ write[r].id = ask[r].target
                /\ SameAppointment(row, appointments[write[r].id])
                /\ row.status = ask[r].to

ArrivedInPast == \A r \in Requests : arrived[r] <= clock

-----------------------------------------------------------------------------
(* Properties.                                                             *)

\* No barber has two active appointments at the same time, whatever the
\* requests that make, confirm or cancel them interleave.
\* (README: "PostgreSQL refuses overlaps at the storage layer".)
NoDoubleBooking ==
  \A i, j \in Ids :
    /\ i # j
    /\ appointments[i] # NoRow
    /\ appointments[j] # NoRow
    => ~Clash(appointments[i], appointments[j])

\* The inductive invariant behind NoDoubleBooking.
BookingInv == TypeOK /\ RequestShape /\ OneWriter /\ CheckHolds /\ NoDoubleBooking

\* The committed rows behave as the agenda of module Agenda: appointments
\* keep the barber and the time they were given, take their place only when
\* it is free and leave it by ending.
HeldIds == {i \in Ids : appointments[i] # NoRow /\ Blocking(appointments[i])}

PlaceOf(row) ==
  IF row = NoRow THEN NoRow
  ELSE [barber |-> row.barber, start |-> row.starts, end |-> row.ends]

Promise == INSTANCE Agenda
             WITH Appointments <- Ids,
                  NoPlace <- NoRow,
                  place <- [i \in Ids |-> PlaceOf(appointments[i])],
                  held <- HeldIds

KeepsAgenda == Promise!AgendaSpec

CommitsNow(r) == pc[r] = "commit" /\ pc'[r] = "ok"

\* create_appointment re-checks every rule itself: a booking that commits
\* fits the opening hours of its local day on the slot grid, keeps the lead
\* time counted from the request's arrival, and meets neither an absence of
\* its barber nor an inactive barber or service that stood in its way ever
\* since the request arrived.  (BookingService: "a client that skips the
\* availability call, replays a stale slot, or races another customer still
\* cannot create an invalid booking".)
ValidBooking(r) ==
  LET row == write[r].row
      a == ask[r]
      day == LocalDay(row.starts)
  IN  /\ HoursOn(day) # Closed
      /\ row.starts \in SlotStarts(OpeningWindow(day, HoursOn(day)),
                                   row.ends - row.starts)
      /\ arrived[r] + Lead <= row.starts
      /\ row.starts <= clock + MaxAdvance
      /\ {a.barber, a.offer} \cap standing[r].inactive = {}
      /\ \A i \in standing[r].absences :
           absences[i].barber = row.barber
             => \A t \in row.starts .. (row.ends - 1) :
                  ~Contains(absences[i].span, t)

BookingRevalidated ==
  [][\A r \in Requests :
       CommitsNow(r) /\ Operation[r] = "book" => ValidBooking(r)]_vars

\* An appointment changes status only along the state machine from the
\* status its request read, by a viewer with a right to, and a customer's
\* cancellation was sent before the cutoff.
MovesAreLawful ==
  [][\A r \in Requests :
       CommitsNow(r) /\ Operation[r] = "move"
       => LET a == ask[r]
              row == write[r].row
          IN  /\ row.status \in StatusTransitions[seen[r].status]
              /\ Role[a.viewer] = "customer" =>
                   /\ row.customer = a.viewer
                   /\ row.starts - arrived[r] >= Cutoff
              /\ Role[a.viewer] = "barber" => row.barber = a.viewer]_vars

\* A final status is lost only to a request that had read the row before it
\* became final: two transitions of one appointment have to overlap.
FinalUnlessRaced ==
  [][\A i \in Ids :
       appointments[i] # NoRow /\ appointments[i].status \in TerminalStatuses
       => \/ appointments'[i] = appointments[i]
          \/ \E r \in Requests : /\ CommitsNow(r)
                                 /\ write[r].id = i
                                 /\ Blocking(seen[r])]_vars

\* A cancelled appointment always says when it was cancelled.
CancelledIsStamped ==
  \A i \in Ids :
    appointments[i] # NoRow /\ appointments[i].status = "cancelled"
    => appointments[i].cancelledAt

\* The inductive invariant behind the properties of transitions.
TransitionInv ==
  BookingInv /\ ArrivedInPast /\ MovesFit /\ WritesFit /\ CancelledIsStamped

\* Terminal states are final (README, "Appointment states").  Two requests
\* that read the same active row refute it: the second overwrites the first.
TerminalIsFinal ==
  [][\A i \in Ids :
       appointments[i] # NoRow /\ appointments[i].status \in TerminalStatuses
       => appointments'[i].status = appointments[i].status]_vars

\* The loser of a race for a slot is told slot_unavailable
\* (docs/ARCHITECTURE.md, "Why the exclusion constraint").  Two inserts that
\* wait for one another refute it.
LoserToldSlotUnavailable ==
  \A r \in Requests :
    Operation[r] = "book" => pc[r] # "database_unavailable"

\* Every request that arrives is answered: no two transactions wait for one
\* another for ever.
EveryRequestAnswered ==
  \A r \in Requests : pc[r] # "idle" ~> pc[r] \in Answers

\* Racing bookings do not all lose: when bookings wait for one another in a
\* cycle, the time each of them asked for ends up occupied.
RacedSlotIsTaken ==
  \A a \in BookAsks :
    (\E r \in Requests : pc[r] = "check" /\ ask[r] = a /\ WaitsInCycle(r))
    ~> (\E i \in HeldIds : Clash(appointments[i], NewRow(a)))
=============================================================================
