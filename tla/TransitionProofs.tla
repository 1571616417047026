-------------------------- MODULE TransitionProofs --------------------------
(***************************************************************************)
(* Proofs about what Booking commits, for every set of requests: the stamp *)
(* of cancelled appointments, lawful moves, the only way in which a final  *)
(* status is lost, the implementation of Agenda, and that a booking still  *)
(* respects when it commits what its checks have found.                    *)
(***************************************************************************)
EXTENDS BookingProofs

\* What TransitionInv adds to BookingInv.
MoveInv == ArrivedInPast /\ MovesFit /\ WritesFit /\ CancelledIsStamped

BaseInv == TypeInv /\ Safe

-----------------------------------------------------------------------------
(* Operators.                                                              *)

\* What a viewer is shown: the can_cancel flag and the list of transitions of
\* an active appointment say the same, except to a barber who has booked with
\* a colleague and is in time to cancel (appointment_view.py: can_cancel looks
\* at the owner first, allowed_transitions at the role).
THEOREM CancelFlagAndList ==
  ASSUME NEW row \in Rows, NEW viewer \in Users, NEW now \in Int
  PROVE  /\ "cancelled" \in AllowedTransitions(row, viewer, now)
              => CanCancel(row, viewer, now)
         /\ (/\ CanCancel(row, viewer, now)
             /\ "cancelled" \notin AllowedTransitions(row, viewer, now))
              <=> (/\ row.status \in BlockingStatuses
                   /\ Role[viewer] = "barber"
                   /\ IsOwner(row, viewer) /\ ~IsAssignedBarber(row, viewer)
                   /\ row.starts - now >= Cutoff)
<1>1. Role[viewer] \in Roles
  BY LifecycleAssumption
<1>2. row.status \in BlockingStatuses
        => "cancelled" \in StatusTransitions[row.status] \cap RoleTransitions[Role[viewer]]
  BY <1>1 DEF StatusTransitions, RoleTransitions, Statuses, BlockingStatuses, Roles
<1>3. "cancelled" \in AllowedTransitions(row, viewer, now)
        <=> HasAuthority(row, viewer) /\ CanCancel(row, viewer, now)
  BY <1>2 DEF AllowedTransitions, CanCancel
<1>4. CanCancel(row, viewer, now) /\ Role[viewer] # "barber" => HasAuthority(row, viewer)
  <2>1. Role[row.barber] = "barber"
    BY DEF Rows, Barbers
  <2> QED
    BY <1>1, <2>1 DEF CanCancel, HasAuthority, IsAssignedBarber, Roles
<1>5. Role[viewer] = "barber" => (HasAuthority(row, viewer) <=> IsAssignedBarber(row, viewer))
  BY DEF HasAuthority
<1>6. CanCancel(row, viewer, now) /\ ~HasAuthority(row, viewer)
        <=> CanCancel(row, viewer, now) /\ Role[viewer] = "barber"
              /\ ~IsAssignedBarber(row, viewer)
  BY <1>4, <1>5
<1>7. Role[viewer] = "barber" /\ ~IsAssignedBarber(row, viewer)
        => (CanCancel(row, viewer, now)
              <=> /\ row.status \in BlockingStatuses
                  /\ IsOwner(row, viewer) /\ row.starts - now >= Cutoff)
  BY DEF CanCancel
<1>8. CanCancel(row, viewer, now) /\ "cancelled" \notin AllowedTransitions(row, viewer, now)
        <=> CanCancel(row, viewer, now) /\ ~HasAuthority(row, viewer)
  BY <1>3
<1>9. CanCancel(row, viewer, now) => row.status \in BlockingStatuses
  BY DEF CanCancel
<1> HIDE DEF CanCancel, HasAuthority, IsOwner, IsAssignedBarber
<1> QED
  BY <1>3, <1>6, <1>7, <1>8, <1>9, Zenon

\* Moving a row changes its status and its stamp only.
LEMMA MovedKeepsAppointment ==
  ASSUME NEW a \in MoveAsks, NEW row \in Rows
  PROVE  /\ SameAppointment(Moved(a, row), row)
         /\ Moved(a, row).status = a.to
         /\ a.to = "cancelled" => Moved(a, row).cancelledAt
  BY DEF SameAppointment, Moved, Rows, MoveAsks

\* Only an active row may be moved.
LEMMA OnlyActiveMove ==
  ASSUME NEW row \in Rows, NEW to \in StatusTransitions[row.status]
  PROVE  Blocking(row)
  BY DEF StatusTransitions, Rows, Statuses, Blocking, BlockingStatuses

\* A verdict that lets the request go on has checked the viewer's rights.
LEMMA VerdictMeansLawful ==
  ASSUME NEW a \in MoveAsks, NEW row \in Rows, NEW reason, clock \in Nat,
         MoveVerdict(a, row, reason) = "update"
  PROVE  /\ a.to \in StatusTransitions[row.status]
         /\ Role[a.viewer] = "customer" =>
              /\ row.customer = a.viewer
              /\ row.starts - clock >= Cutoff
         /\ Role[a.viewer] = "barber" => row.barber = a.viewer
<1>1. a.to \in AllowedTransitions(row, a.viewer, clock)
  BY DEF MoveVerdict
<1>2. /\ a.to \in StatusTransitions[row.status]
      /\ a.to \in RoleTransitions[Role[a.viewer]]
      /\ HasAuthority(row, a.viewer)
      /\ a.to = "cancelled" => CanCancel(row, a.viewer, clock)
  BY <1>1 DEF AllowedTransitions
<1>3. ASSUME Role[a.viewer] = "customer"
      PROVE  row.customer = a.viewer /\ row.starts - clock >= Cutoff
  <2>1. a.to = "cancelled"
    BY <1>2, <1>3 DEF RoleTransitions, Roles
  <2>2. row.barber # a.viewer
    BY <1>3 DEF Rows, Barbers
  <2> QED BY <1>2, <1>3, <2>1, <2>2
             DEF CanCancel, HasAuthority, IsOwner, IsAssignedBarber
<1>4. Role[a.viewer] = "barber" => row.barber = a.viewer
  BY <1>2 DEF HasAuthority, IsAssignedBarber
<1> QED BY <1>2, <1>3, <1>4

-----------------------------------------------------------------------------
(* The invariant of transitions.                                           *)

\* A request that keeps what it carries, or drops what it has written.
Undisturbed(q) ==
  \/ /\ ask'[q] = ask[q]
     /\ seen'[q] = seen[q]
     /\ write'[q] = write[q]
     /\ arrived'[q] = arrived[q]
     /\ pc'[q] \in {"row", "update"} => pc'[q] = pc[q]
  \/ /\ write'[q] = NoWrite
     /\ pc'[q] # "update"
     /\ pc'[q] = "row" => Operation[q] = "move"
     /\ arrived'[q] <= clock'

\* A step that leaves the appointments and what requests carry alone.
LEMMA QuietMove ==
  ASSUME MoveInv, UNCHANGED appointments,
         clock \in Nat, clock' \in Nat, clock <= clock',
         arrived \in [Requests -> Nat],
         \A q \in Requests : Undisturbed(q)
  PROVE  MoveInv'
<1>1. ArrivedInPast'
  BY DEF MoveInv, ArrivedInPast, Undisturbed
<1>2. MovesFit'
  BY DEF MoveInv, MovesFit, AllowedWhenRead, Undisturbed
<1>3. WritesFit'
  BY DEF MoveInv, WritesFit, Undisturbed
<1>4. CancelledIsStamped'
  BY DEF MoveInv, CancelledIsStamped
<1> QED BY <1>1, <1>2, <1>3, <1>4 DEF MoveInv

\* Answering, and anything else that ends in Reply, disturbs nobody.
LEMMA ReplyUndisturbed ==
  ASSUME TypeInv, NEW r \in Requests, NEW answer \in Answers,
         Reply(r, answer), UNCHANGED clock, ArrivedInPast
  PROVE  \A q \in Requests : Undisturbed(q)
  BY DEF TypeInv, TypeOK, Reply, Go, Close, Undisturbed, Answers

\* Going on to a step other than row and update disturbs nobody.
LEMMA ContinueUndisturbed ==
  ASSUME TypeInv, NEW r \in Requests,
         NEW step \in Steps \ {"row", "update"},
         Continue(r, step), UNCHANGED <<seen, write>>
  PROVE  \A q \in Requests : Undisturbed(q)
  BY DEF TypeInv, TypeOK, Continue, Go, Undisturbed, history

\* Arriving disturbs nobody.
LEMMA ArriveUndisturbed ==
  ASSUME TypeInv, NEW r \in Requests, NEW payload,
         NEW step \in Steps \cup Answers,
         step # "update", step = "row" => Operation[r] = "move",
         Arrive(r, payload, step)
  PROVE  \A q \in Requests : Undisturbed(q)
<1>1. write[r] = NoWrite
  BY DEF TypeInv, RequestShape, Arrive
<1> QED
  BY <1>1 DEF TypeInv, TypeOK, Arrive, Go, Undisturbed

\* Reading the row of an appointment one may move.
LEMMA ReadRowMove ==
  ASSUME BaseInv, MoveInv, NEW r \in Requests, ReadRow(r)
  PROVE  MoveInv'
<1> DEFINE a == ask[r]
           row == appointments[a.target]
<1>1. /\ pc[r] = "row"
      /\ a \in MoveAsks
      /\ a.target \in Ids
      /\ Operation[r] = "move"
  BY DEF ReadRow, BaseInv, TypeInv, RequestShape, MoveInv, MovesFit, MoveAsks
<1>2. PICK reason \in BOOLEAN :
        IF MoveVerdict(a, row, reason) \in Answers
        THEN Refuse(r, MoveVerdict(a, row, reason))
        ELSE /\ Continue(r, MoveVerdict(a, row, reason))
             /\ seen' = [seen EXCEPT ![r] = row]
             /\ UNCHANGED <<busy, write>>
  BY DEF ReadRow
<1>3. CASE MoveVerdict(a, row, reason) \in Answers
  <2>1. Refuse(r, MoveVerdict(a, row, reason))
    BY <1>2, <1>3
  <2>2. UNCHANGED <<clock, appointments>>
    BY <2>1 DEF Refuse, db
  <2>3. \A q \in Requests : Undisturbed(q)
    BY <1>3, <2>1, <2>2, ReplyUndisturbed DEF Refuse, BaseInv, MoveInv
  <2> QED BY <2>2, <2>3, QuietMove DEF BaseInv, TypeInv, TypeOK
<1>4. CASE MoveVerdict(a, row, reason) \notin Answers
  <2>1. MoveVerdict(a, row, reason) = "update" /\ row # NoRow
    BY <1>4, MoveVerdictType
  <2>2. row \in Rows
    BY <1>1, <2>1 DEF BaseInv, TypeInv, TypeOK
  <2>3. /\ pc' = [pc EXCEPT ![r] = "update"]
        /\ seen' = [seen EXCEPT ![r] = row]
        /\ UNCHANGED <<clock, appointments, ask, write, arrived>>
    BY <1>2, <1>4, <2>1 DEF Continue, Go, db, history
  <2>4. clock \in Nat /\ arrived[r] \in Nat /\ arrived[r] <= clock
    BY DEF BaseInv, TypeInv, TypeOK, MoveInv, ArrivedInPast
  <2>5. /\ a.to \in StatusTransitions[row.status]
        /\ Role[a.viewer] = "customer" =>
             /\ row.customer = a.viewer
             /\ row.starts - clock >= Cutoff
        /\ Role[a.viewer] = "barber" => row.barber = a.viewer
    BY <1>1, <2>1, <2>2, <2>4, VerdictMeansLawful
  <2>6. row.starts \in Int /\ Cutoff \in Nat
    BY <2>2, LifecycleAssumption DEF Rows
  <2>7. row.starts - clock >= Cutoff => row.starts - arrived[r] >= Cutoff
    BY <2>4, <2>6
  <2>8. DOMAIN seen = Requests /\ DOMAIN pc = Requests
    BY DEF BaseInv, TypeInv, TypeOK
  <2>9. AllowedWhenRead(r)'
    BY <1>1, <2>1, <2>2, <2>3, <2>5, <2>7, <2>8
       DEF AllowedWhenRead, SameAppointment
  <2>10. \A q \in Requests \ {r} :
           AllowedWhenRead(q) => AllowedWhenRead(q)'
    BY <2>3, <2>8 DEF AllowedWhenRead
  <2>11. MovesFit'
    BY <1>1, <2>3, <2>8, <2>9, <2>10 DEF MoveInv, MovesFit
  <2>12. ArrivedInPast' /\ WritesFit' /\ CancelledIsStamped'
    BY <2>3 DEF MoveInv, ArrivedInPast, WritesFit, CancelledIsStamped
  <2> QED BY <2>11, <2>12 DEF MoveInv
<1> QED BY <1>3, <1>4

\* Inserting a booking's row.
LEMMA InsertMove ==
  ASSUME BaseInv, MoveInv, NEW r \in Requests, Insert(r)
  PROVE  MoveInv'
<1> DEFINE version == [id |-> r, row |-> NewRow(ask[r])]
<1>1. /\ Operation[r] = "book"
      /\ write' = [write EXCEPT ![r] = version]
      /\ pc' = [pc EXCEPT ![r] = "check"]
      /\ UNCHANGED <<clock, appointments, ask, seen, arrived>>
  BY DEF Insert, Continue, Go, db, history, BaseInv, TypeInv, RequestShape
<1>2. /\ version.id = r
      /\ Blocking(version.row)
      /\ version.row.status # "cancelled"
  BY DEF NewRow, Blocking, BlockingStatuses
<1>3. DOMAIN write = Requests /\ DOMAIN pc = Requests
  BY DEF BaseInv, TypeInv, TypeOK
<1> HIDE DEF version
<1>4. \A q \in Requests : AllowedWhenRead(q) => AllowedWhenRead(q)'
  BY <1>1 DEF AllowedWhenRead
<1>5. MovesFit'
  BY <1>1, <1>3, <1>4 DEF MoveInv, MovesFit
<1>6. WritesFit'
  BY <1>1, <1>2, <1>3 DEF MoveInv, WritesFit
<1>7. ArrivedInPast' /\ CancelledIsStamped'
  BY <1>1 DEF MoveInv, ArrivedInPast, CancelledIsStamped
<1> QED BY <1>5, <1>6, <1>7 DEF MoveInv

\* Writing the moved row.
LEMMA UpdateMove ==
  ASSUME BaseInv, MoveInv, NEW r \in Requests, Update(r)
  PROVE  MoveInv'
<1> DEFINE id == ask[r].target
           version == [id |-> id, row |-> Moved(ask[r], appointments[id])]
<1>1. /\ pc[r] = "update"
      /\ write' = [write EXCEPT ![r] = version]
      /\ pc' = [pc EXCEPT ![r] = "check"]
      /\ UNCHANGED <<clock, appointments, ask, seen, arrived>>
  BY DEF Update, Continue, Go, db, history
<1>2. Operation[r] = "move" /\ AllowedWhenRead(r)
  BY <1>1 DEF MoveInv, MovesFit
<1>3. ask[r] \in MoveAsks /\ id \in Ids /\ appointments[id] \in Rows
  BY <1>2 DEF AllowedWhenRead, MoveAsks, BaseInv, TypeInv, TypeOK
<1>4. /\ version.id = id
      /\ SameAppointment(version.row, appointments[id])
      /\ version.row.status = ask[r].to
      /\ version.row.status = "cancelled" => version.row.cancelledAt
  BY <1>3, MovedKeepsAppointment
<1>5. DOMAIN write = Requests /\ DOMAIN pc = Requests
  BY DEF BaseInv, TypeInv, TypeOK
<1> HIDE DEF version
<1>6. \A q \in Requests : AllowedWhenRead(q) => AllowedWhenRead(q)'
  BY <1>1 DEF AllowedWhenRead
<1>7. MovesFit'
  BY <1>1, <1>2, <1>5, <1>6 DEF MoveInv, MovesFit
<1>8. WritesFit'
  BY <1>1, <1>2, <1>4, <1>5 DEF MoveInv, WritesFit
<1>9. ArrivedInPast' /\ CancelledIsStamped'
  BY <1>1 DEF MoveInv, ArrivedInPast, CancelledIsStamped
<1> QED BY <1>7, <1>8, <1>9 DEF MoveInv

\* What a transaction about to commit has written: a booking that does not
\* exist yet, or the very appointment it was asked to move.
LEMMA WrittenRow ==
  ASSUME BaseInv, MoveInv, NEW r \in Requests, Commit(r)
  PROVE  /\ pc[r] = "commit"
         /\ write[r] # NoWrite
         /\ write[r].id \in Ids
         /\ write[r].row \in Rows
         /\ \/ /\ Operation[r] = "book"
               /\ appointments[write[r].id] = NoRow
               /\ Blocking(write[r].row)
            \/ /\ Operation[r] = "move"
               /\ appointments[write[r].id] \in Rows
               /\ AllowedWhenRead(r)
               /\ write[r].id = ask[r].target
               /\ SameAppointment(write[r].row, appointments[write[r].id])
               /\ write[r].row.status = ask[r].to
<1>1. /\ pc[r] = "commit"
      /\ write[r] # NoWrite
      /\ write[r].id \in Ids
      /\ write[r].row \in Rows
  BY DEF Commit, BaseInv, TypeInv, TypeOK, RequestShape
<1>2. CASE Operation[r] = "book" /\ write[r].id = r /\ Blocking(write[r].row)
  BY <1>1, <1>2 DEF BaseInv, Safe, OneWriter
<1>3. CASE /\ Operation[r] = "move"
           /\ write[r].id = ask[r].target
           /\ SameAppointment(write[r].row, appointments[write[r].id])
           /\ write[r].row.status = ask[r].to
  <2>1. AllowedWhenRead(r)
    BY <1>1, <1>3 DEF MoveInv, MovesFit
  <2>2. appointments[write[r].id] \in Rows
    BY <1>1, <1>3, <2>1 DEF AllowedWhenRead, BaseInv, TypeInv, TypeOK
  <2> QED BY <1>1, <1>3, <2>1, <2>2
<1> QED BY <1>1, <1>2, <1>3 DEF MoveInv, WritesFit

\* Committing: no other request's appointment becomes another one.
LEMMA CommitMove ==
  ASSUME BaseInv, MoveInv, NEW r \in Requests, Commit(r)
  PROVE  MoveInv'
<1> DEFINE id == write[r].id
           row == write[r].row
<1>1. /\ write[r] # NoWrite
      /\ id \in Ids
      /\ row \in Rows
      /\ appointments[id] = NoRow \/ SameAppointment(row, appointments[id])
  BY WrittenRow
<1>2. /\ appointments' = [appointments EXCEPT ![id] = row]
      /\ pc' = [pc EXCEPT ![r] = "ok"]
      /\ ask' = [ask EXCEPT ![r] = NoAsk]
      /\ seen' = [seen EXCEPT ![r] = NoRow]
      /\ write' = [write EXCEPT ![r] = NoWrite]
      /\ arrived' = [arrived EXCEPT ![r] = 0]
      /\ UNCHANGED clock
  BY DEF Commit, Reply, Go, Close
<1>3. /\ DOMAIN pc = Requests
      /\ DOMAIN ask = Requests
      /\ DOMAIN seen = Requests
      /\ DOMAIN write = Requests
      /\ DOMAIN arrived = Requests
      /\ DOMAIN appointments = Ids
      /\ clock \in Nat
  BY DEF BaseInv, TypeInv, TypeOK
<1>4. row # NoRow
  BY <1>1, NullAssumption
<1>5. row.status = "cancelled" => row.cancelledAt
  BY <1>1 DEF MoveInv, WritesFit
<1>6. \A q \in Requests \ {r} : write[q] # NoWrite => write[q].id # id
  BY <1>1 DEF BaseInv, Safe, OneWriter, HasWritten
<1> HIDE DEF id, row
<1>7. ArrivedInPast'
  BY <1>2, <1>3 DEF MoveInv, ArrivedInPast
<1>8. CancelledIsStamped'
  BY <1>1, <1>2, <1>3, <1>5 DEF MoveInv, CancelledIsStamped
<1>9. WritesFit'
  <2>1. \A q \in Requests \ {r} :
          /\ write'[q] = write[q]
          /\ ask'[q] = ask[q]
          /\ write[q] # NoWrite
               => appointments'[write[q].id] = appointments[write[q].id]
    BY <1>1, <1>2, <1>3, <1>6
  <2>2. write'[r] = NoWrite
    BY <1>2, <1>3
  <2> QED BY <2>1, <2>2 DEF MoveInv, WritesFit
<1>10. MovesFit'
  <2>1. ASSUME NEW q \in Requests \ {r}, AllowedWhenRead(q)
        PROVE  AllowedWhenRead(q)'
    <3>1. /\ ask'[q] = ask[q]
          /\ seen'[q] = seen[q]
          /\ arrived'[q] = arrived[q]
          /\ ask[q].target \in Ids
          /\ appointments[ask[q].target] # NoRow
          /\ SameAppointment(seen[q], appointments[ask[q].target])
      BY <1>2, <1>3, <2>1 DEF AllowedWhenRead, MoveAsks
    <3>2. /\ appointments'[ask[q].target] # NoRow
          /\ SameAppointment(seen[q], appointments'[ask[q].target])
      <4>1. CASE ask[q].target = id
        BY <1>1, <1>2, <1>3, <1>4, <3>1, <4>1 DEF SameAppointment
      <4>2. CASE ask[q].target # id
        BY <1>2, <1>3, <3>1, <4>2
      <4> QED BY <4>1, <4>2
    <3> QED BY <2>1, <3>1, <3>2 DEF AllowedWhenRead
  <2> QED BY <1>2, <1>3, <2>1 DEF MoveInv, MovesFit
<1> QED BY <1>7, <1>8, <1>9, <1>10 DEF MoveInv

\* Initially nothing has been written, and the rows booked before are
\* stamped.
LEMMA InitMove == Init => MoveInv
<1> SUFFICES ASSUME Init PROVE MoveInv
  OBVIOUS
<1>1. ArrivedInPast /\ MovesFit /\ WritesFit
  BY DEF Init, ArrivedInPast, MovesFit, WritesFit
<1>2. CancelledIsStamped
  BY SeedAssumption DEF Init, CancelledIsStamped, Ids
<1> QED BY <1>1, <1>2 DEF MoveInv

\* Every step keeps the invariant of transitions.
LEMMA NextMove == BaseInv /\ MoveInv /\ [Next]_vars => MoveInv'
<1> SUFFICES ASSUME BaseInv, MoveInv, [Next]_vars PROVE MoveInv'
  OBVIOUS
<1>t. /\ TypeInv
      /\ ArrivedInPast
      /\ clock \in Nat
      /\ arrived \in [Requests -> Nat]
  BY DEF BaseInv, TypeInv, TypeOK, MoveInv
<1>q. ASSUME UNCHANGED <<clock, appointments>>,
             \A q \in Requests : Undisturbed(q)
      PROVE  MoveInv'
  BY <1>t, <1>q, QuietMove
<1>a. ASSUME NEW r \in Requests, NEW answer \in Answers, Reply(r, answer),
             UNCHANGED <<clock, appointments>>
      PROVE  MoveInv'
  BY <1>a, <1>q, <1>t, ReplyUndisturbed
<1>f. ASSUME NEW r \in Requests, NEW answer \in Answers, Refuse(r, answer)
      PROVE  MoveInv'
  BY <1>a, <1>f DEF Refuse, db
<1>c. ASSUME NEW r \in Requests, NEW step \in Steps \ {"row", "update"},
             Continue(r, step), UNCHANGED <<seen, write>>
      PROVE  MoveInv'
  BY <1>c, <1>q, <1>t, ContinueUndisturbed DEF Continue, db
<1>1. CASE UNCHANGED vars
  BY <1>1, <1>t, QuietMove DEF vars, db, local, history, Undisturbed
<1>2. CASE Tick
  BY <1>2, <1>t, QuietMove DEF Tick, db, local, history, Undisturbed
<1>r. ASSUME NEW r \in Requests, NEW payload, NEW step \in Steps \cup Answers,
             step # "update", step = "row" => Operation[r] = "move",
             Arrive(r, payload, step)
      PROVE  MoveInv'
  BY <1>q, <1>r, <1>t, ArriveUndisturbed DEF Arrive, db
<1>3. ASSUME NEW r \in Requests, BookArrives(r) \/ MoveArrives(r) \/ BlockArrives(r)
      PROVE  MoveInv'
  BY <1>3, <1>r DEF BookArrives, MoveArrives, BlockArrives, Steps, Answers
<1>4. ASSUME NEW r \in Requests,
             RemoveAbsence(r) \/ Toggle(r) \/ StoreAbsence(r)
      PROVE  MoveInv'
  BY <1>4, <1>a DEF RemoveAbsence, Toggle, StoreAbsence, Answers
<1>5. ASSUME NEW r \in Requests, CheckParties(r)
      PROVE  MoveInv'
  <2>1. PICK gone \in {"not_found", "validation_error"} :
          IF PartiesVerdict(ask[r], gone) \in Answers
          THEN Refuse(r, PartiesVerdict(ask[r], gone))
          ELSE /\ Continue(r, PartiesVerdict(ask[r], gone))
               /\ UNCHANGED <<busy, seen, write>>
    BY <1>5 DEF CheckParties
  <2>2. PartiesVerdict(ask[r], gone) \in Answers \cup {"appointments"}
    BY PartiesVerdictType
  <2> QED BY <1>c, <1>f, <2>1, <2>2 DEF Steps
<1>6. ASSUME NEW r \in Requests, ReadAppointments(r)
      PROVE  MoveInv'
  BY <1>6, <1>c DEF ReadAppointments, Steps
<1>7. ASSUME NEW r \in Requests, ReadAbsences(r)
      PROVE  MoveInv'
  <2>1. \/ Refuse(r, "slot_unavailable")
        \/ Continue(r, "insert") /\ UNCHANGED <<seen, write>>
    BY <1>7 DEF ReadAbsences
  <2> QED BY <1>c, <1>f, <2>1 DEF Steps, Answers
<1>8. ASSUME NEW r \in Requests, PassCheck(r)
      PROVE  MoveInv'
  BY <1>8, <1>c DEF PassCheck, Steps
<1>9. ASSUME NEW r \in Requests,
             FailCheck(r) \/ DeadlockVictim(r) \/ Lose(r)
      PROVE  MoveInv'
  BY <1>9, <1>f DEF FailCheck, DeadlockVictim, Lose, Answers
<1>10. ASSUME NEW r \in Requests, CheckOverlap(r)
       PROVE  MoveInv'
  <2>1. \/ Refuse(r, "business_rule")
        \/ Continue(r, "store") /\ UNCHANGED <<seen, write>>
    BY <1>10 DEF CheckOverlap
  <2> QED BY <1>c, <1>f, <2>1 DEF Steps, Answers
<1>11. ASSUME NEW r \in Requests,
              Insert(r) \/ ReadRow(r) \/ Update(r) \/ Commit(r)
       PROVE  MoveInv'
  BY <1>11, InsertMove, ReadRowMove, UpdateMove, CommitMove
<1> QED
  BY <1>1, <1>2, <1>3, <1>4, <1>5, <1>6, <1>7, <1>8, <1>9, <1>10, <1>11
     DEF Next, AllServed, Arrives, Serve

\* The two invariants together.
LEMMA AllInvariant == Spec => [](BaseInv /\ MoveInv)
<1>1. Init => BaseInv /\ MoveInv
  BY InitType, InitSafe, InitMove DEF BaseInv
<1>2. BaseInv /\ MoveInv /\ [Next]_vars => (BaseInv /\ MoveInv)'
  BY NextType, NextSafe, NextMove DEF BaseInv
<1> QED BY <1>1, <1>2, PTL DEF Spec

\* In every reachable state, what a request is about to write comes from a
\* lawful reading of the appointment it still is about.
THEOREM TransitionInvariant == Spec => []TransitionInv
<1>1. BaseInv /\ MoveInv => TransitionInv
  BY DEF BaseInv, TypeInv, Safe, BookingInv, MoveInv, TransitionInv
<1> QED BY <1>1, AllInvariant, PTL

\* Whatever transitions race, a cancelled appointment says when it was
\* cancelled.
THEOREM CancelledIsAlwaysStamped == Spec => []CancelledIsStamped
<1>1. MoveInv => CancelledIsStamped
  BY DEF MoveInv
<1> QED BY <1>1, AllInvariant, PTL

-----------------------------------------------------------------------------
(* What a step may do to the appointments.                                 *)

\* Only a commit changes an appointment.
LEMMA OnlyCommitWrites ==
  ASSUME [Next]_vars, appointments' # appointments
  PROVE  \E r \in Requests : Commit(r)
<1>1. ASSUME NEW r \in Requests, ~Commit(r), Arrives(r) \/ Serve(r) \/ Lose(r)
      PROVE  UNCHANGED appointments
  <2> USE DEF Refuse, Continue, Arrive, db
  <2>1. CASE Arrives(r)
    BY <2>1 DEF Arrives, BookArrives, MoveArrives, BlockArrives, RemoveAbsence, Toggle
  <2>2. CASE Lose(r)
    BY <2>2 DEF Lose
  <2>3. CASE CheckParties(r) \/ ReadAppointments(r) \/ ReadAbsences(r)
    BY <2>3 DEF CheckParties, ReadAppointments, ReadAbsences
  <2>4. CASE Insert(r) \/ ReadRow(r) \/ Update(r)
    BY <2>4 DEF Insert, ReadRow, Update
  <2>5. CASE PassCheck(r) \/ FailCheck(r) \/ DeadlockVictim(r)
    BY <2>5 DEF PassCheck, FailCheck, DeadlockVictim
  <2>6. CASE CheckOverlap(r) \/ StoreAbsence(r)
    BY <2>6 DEF CheckOverlap, StoreAbsence
  <2> QED BY <1>1, <2>1, <2>2, <2>3, <2>4, <2>5, <2>6 DEF Serve
<1> QED BY <1>1 DEF Next, Tick, AllServed, vars, db

\* Every move that commits was lawful when its request read the row.
THEOREM LawfulMoves == Spec => MovesAreLawful
<1>1. ASSUME BaseInv, MoveInv, NEW r \in Requests,
             CommitsNow(r), Operation[r] = "move", [Next]_vars
      PROVE  LET a == ask[r]
                 row == write[r].row
             IN  /\ row.status \in StatusTransitions[seen[r].status]
                 /\ Role[a.viewer] = "customer" =>
                      /\ row.customer = a.viewer
                      /\ row.starts - arrived[r] >= Cutoff
                 /\ Role[a.viewer] = "barber" => row.barber = a.viewer
  <2>1. write[r] # NoWrite
    BY <1>1 DEF CommitsNow, BaseInv, TypeInv, RequestShape
  <2>2. /\ SameAppointment(write[r].row, appointments[ask[r].target])
        /\ write[r].row.status = ask[r].to
    BY <1>1, <2>1 DEF MoveInv, WritesFit
  <2>3. AllowedWhenRead(r)
    BY <1>1, <2>1 DEF MoveInv, MovesFit
  <2> QED BY <2>2, <2>3 DEF AllowedWhenRead, SameAppointment
<1>2. BaseInv /\ MoveInv /\ [Next]_vars
      => [\A r \in Requests :
            CommitsNow(r) /\ Operation[r] = "move"
            => LET a == ask[r]
                   row == write[r].row
               IN  /\ row.status \in StatusTransitions[seen[r].status]
                   /\ Role[a.viewer] = "customer" =>
                        /\ row.customer = a.viewer
                        /\ row.starts - arrived[r] >= Cutoff
                   /\ Role[a.viewer] = "barber" => row.barber = a.viewer]_vars
  BY <1>1
<1> QED BY <1>2, AllInvariant, PTL DEF Spec, MovesAreLawful

\* A final status is lost only to a request that read the row while it was
\* active.
THEOREM FinalStatusKept == Spec => FinalUnlessRaced
<1>1. ASSUME BaseInv, MoveInv, [Next]_vars, NEW i \in Ids,
             appointments[i] # NoRow,
             appointments'[i] # appointments[i]
      PROVE  \E r \in Requests : /\ CommitsNow(r)
                                 /\ write[r].id = i
                                 /\ Blocking(seen[r])
  <2>1. PICK r \in Requests : Commit(r)
    BY <1>1, OnlyCommitWrites
  <2>2. /\ pc' = [pc EXCEPT ![r] = "ok"]
        /\ appointments' = [appointments EXCEPT ![write[r].id] = write[r].row]
    BY <2>1 DEF Commit, Reply, Go
  <2>3. write[r].id = i
    BY <1>1, <2>2 DEF BaseInv, TypeInv, TypeOK
  <2>4. pc[r] = "commit" /\ AllowedWhenRead(r)
    BY <1>1, <2>1, <2>3, WrittenRow
  <2>5. Blocking(seen[r])
    BY <2>4, OnlyActiveMove DEF AllowedWhenRead
  <2>6. CommitsNow(r)
    BY <1>1, <2>2, <2>4 DEF CommitsNow, BaseInv, TypeInv, TypeOK
  <2> QED BY <2>3, <2>5, <2>6
<1>2. BaseInv /\ MoveInv /\ [Next]_vars
      => [\A i \in Ids :
            appointments[i] # NoRow /\ appointments[i].status \in TerminalStatuses
            => \/ appointments'[i] = appointments[i]
               \/ \E r \in Requests : /\ CommitsNow(r)
                                      /\ write[r].id = i
                                      /\ Blocking(seen[r])]_vars
  BY <1>1
<1> QED BY <1>2, AllInvariant, PTL DEF Spec, FinalUnlessRaced

-----------------------------------------------------------------------------
(* The rows implement the agenda.                                          *)

\* A row's place is a place of the agenda.
LEMMA PlaceType ==
  ASSUME NEW row \in Rows
  PROVE  /\ PlaceOf(row) \in Promise!Places
         /\ PlaceOf(row) # NoRow
         /\ row # NoRow
<1>1. row # NoRow
  BY NullAssumption
<1>2. PlaceOf(row) \in [barber : Barbers, start : Int, end : Int]
  BY <1>1 DEF PlaceOf, Rows
<1> QED BY <1>1, <1>2, NullAssumption DEF Promise!Places

\* Rows that do not clash hold places that do not collide.
LEMMA ClashIsCollision ==
  ASSUME NEW row \in Rows, NEW other \in Rows,
         Blocking(row), Blocking(other), ~Clash(row, other)
  PROVE  ~Promise!Collide(PlaceOf(row), PlaceOf(other))
<1>1. row # NoRow /\ other # NoRow
  BY PlaceType
<1> QED
  BY <1>1 DEF Clash, Overlaps, Span, Interval, PlaceOf, Promise!Collide

\* One appointment has one place.
LEMMA SamePlace ==
  ASSUME NEW row \in Rows, NEW other \in Rows, SameAppointment(row, other)
  PROVE  PlaceOf(row) = PlaceOf(other)
  BY PlaceType DEF PlaceOf, SameAppointment

\* The rows of a state make an agenda.
LEMMA AgendaState ==
  ASSUME BaseInv
  PROVE  Promise!AgendaInit
<1>1. \A i \in Ids : appointments[i] \in Rows \/ appointments[i] = NoRow
  BY DEF BaseInv, TypeInv, TypeOK
<1>2. \A i \in Ids : PlaceOf(appointments[i]) \in Promise!Places \cup {NoRow}
  BY <1>1, PlaceType DEF PlaceOf
<1>3. Promise!AgendaTypeOK
  BY <1>1, <1>2, PlaceType DEF Promise!AgendaTypeOK, HeldIds
<1>4. Promise!Disjoint
  BY <1>1, ClashIsCollision
     DEF Promise!Disjoint, HeldIds, BaseInv, Safe, NoDoubleBooking
<1> QED BY <1>3, <1>4 DEF Promise!AgendaInit

\* A commit takes a free place, gives one up, or leaves the agenda alone.
LEMMA CommitIsAgendaStep ==
  ASSUME BaseInv, MoveInv, NEW r \in Requests, Commit(r)
  PROVE  [Promise!AgendaNext]_(Promise!agendaVars)
<1> DEFINE id == write[r].id
           row == write[r].row
           old == appointments[id]
           places == [i \in Ids |-> PlaceOf(appointments[i])]
<1>1. /\ pc[r] = "commit"
      /\ id \in Ids
      /\ row \in Rows
      /\ \/ old = NoRow /\ Blocking(row)
         \/ old \in Rows /\ SameAppointment(row, old)
  BY WrittenRow
<1>2. appointments' = [appointments EXCEPT ![id] = row]
  BY DEF Commit
<1>3. /\ DOMAIN appointments = Ids
      /\ \A i \in Ids : appointments[i] \in Rows \/ appointments[i] = NoRow
  BY DEF BaseInv, TypeInv, TypeOK
<1>4. \A i \in Ids \ {id} : appointments[i] # NoRow => ~Clash(row, appointments[i])
  BY <1>1 DEF BaseInv, Safe, CheckHolds
<1>5. row # NoRow /\ PlaceOf(row) \in Promise!Places
  BY <1>1, PlaceType
<1>6. PlaceOf(old) \in {NoRow, PlaceOf(row)}
  BY <1>1, SamePlace DEF PlaceOf
<1> HIDE DEF id, row
<1>7. places' = [places EXCEPT ![id] = PlaceOf(row)]
  BY <1>1, <1>2, <1>3
<1>8. HeldIds' = IF Blocking(row) THEN HeldIds \cup {id} ELSE HeldIds \ {id}
  BY <1>1, <1>2, <1>3, <1>5 DEF HeldIds
<1>9. places'[id] = PlaceOf(row) /\ places[id] = PlaceOf(old)
  BY <1>1, <1>7
<1>h. id \in HeldIds => old # NoRow
  BY DEF HeldIds
<1> HIDE DEF old
<1>10. CASE Blocking(row) /\ id \notin HeldIds
  <2>1. \A i \in HeldIds : ~Promise!Collide(PlaceOf(row), places[i])
    BY <1>1, <1>3, <1>4, <1>10, ClashIsCollision DEF HeldIds
  <2>2. Promise!Take(id)
    BY <1>5, <1>6, <1>7, <1>8, <1>9, <1>10, <2>1 DEF Promise!Take
  <2> QED BY <1>1, <2>2 DEF Promise!AgendaNext
<1>11. CASE ~Blocking(row) /\ id \in HeldIds
  <2>1. places' = places
    BY <1>1, <1>7, <1>9, <1>h, <1>11, SamePlace
  <2>2. Promise!Release(id)
    BY <1>8, <1>11, <2>1 DEF Promise!Release
  <2> QED BY <1>1, <2>2 DEF Promise!AgendaNext
<1>12. CASE Blocking(row) <=> id \in HeldIds
  <2>1. old # NoRow
    BY <1>1, <1>h, <1>12, PlaceType
  <2>2. places' = places
    BY <1>1, <1>7, <1>9, <2>1, SamePlace
  <2>3. HeldIds' = HeldIds
    BY <1>8, <1>12
  <2> QED BY <2>2, <2>3 DEF Promise!agendaVars
<1> QED BY <1>10, <1>11, <1>12

\* The committed appointments implement the agenda: whatever the requests do,
\* an appointment keeps its barber and time, takes its place only when it is
\* free and leaves it by ending.
THEOREM AgendaKept == Spec => KeepsAgenda
<1>1. ASSUME BaseInv, MoveInv, [Next]_vars
      PROVE  [Promise!AgendaNext]_(Promise!agendaVars)
  <2>1. CASE appointments' = appointments
    BY <2>1 DEF Promise!agendaVars, HeldIds
  <2>2. CASE appointments' # appointments
    BY <1>1, <2>2, OnlyCommitWrites, CommitIsAgendaStep
  <2> QED BY <2>1, <2>2
<1>2. BaseInv => Promise!AgendaInit
  BY AgendaState
<1> QED BY <1>1, <1>2, AllInvariant, PTL DEF Spec, KeepsAgenda, Promise!AgendaSpec

-----------------------------------------------------------------------------
(* What a booking has re-checked stays true until it commits.              *)

\* Absences and switches recorded as standing are still as they were; an
\* absence belongs to a request that has been answered, so it never changes.
StandingHolds ==
  /\ \A i \in Requests : absences[i] # NoAbsence => pc[i] = "ok"
  /\ \A r \in Requests :
       /\ \A i \in standing[r].absences : absences[i] # NoAbsence
       /\ standing[r].inactive \cap active = {}

\* What the first checks have found, for as long as r is under way.
PartiesHold(r) ==
  LET a == ask[r]
  IN  /\ a \in BookAsks
      /\ a.barber \in Barbers
      /\ HoursOn(LocalDay(a.starts)) # Closed
      /\ arrived[r] + Lead <= a.starts
      /\ a.starts <= clock + MaxAdvance
      /\ {a.barber, a.offer} \cap standing[r].inactive = {}

\* What the agenda has shown: the start is on the grid, and no absence of the
\* barber that has stood ever since is in the way.
SlotHolds(r) ==
  LET a == ask[r]
      day == LocalDay(a.starts)
  IN  /\ a.starts \in SlotStarts(OpeningWindow(day, HoursOn(day)), Duration[a.offer])
      /\ \A i \in standing[r].absences :
           absences[i].barber = a.barber
             => ~Overlaps(Interval(a.starts, a.starts + Duration[a.offer]),
                          absences[i].span)

Checked(r) ==
  /\ pc[r] \in {"appointments", "absences", "insert"} => PartiesHold(r)
  /\ pc[r] = "insert" => SlotHolds(r)
  /\ pc[r] \in {"check", "commit"} /\ Operation[r] = "book" =>
       /\ PartiesHold(r)
       /\ SlotHolds(r)
       /\ write[r].row = NewRow(ask[r])

RevalidatedInv == StandingHolds /\ \A r \in Requests : Checked(r)

\* Nothing new stands in q's way, and what stood is unchanged or gone.
StillStands(q) ==
  /\ standing'[q].absences \subseteq standing[q].absences
  /\ standing'[q].inactive \subseteq standing[q].inactive
  /\ \A i \in standing'[q].absences : absences'[i] = absences[i]

\* Time and the disappearance of obstacles spoil nothing that was found.
LEMMA FindingsLast ==
  ASSUME BaseInv, NEW q \in Requests, StillStands(q),
         clock' \in Nat, clock <= clock',
         ask'[q] = ask[q], arrived'[q] = arrived[q]
  PROVE  /\ PartiesHold(q) => PartiesHold(q)'
         /\ SlotHolds(q) => SlotHolds(q)'
<1>1. ASSUME PartiesHold(q) PROVE PartiesHold(q)'
  <2>1. ask[q].starts \in Int /\ MaxAdvance \in Nat
    <3>1. ask[q].starts \in Starts
      BY <1>1 DEF PartiesHold, BookAsks
    <3> QED BY <3>1, BookingAssumption
  <2>2. clock \in Nat
    BY DEF BaseInv, TypeInv, TypeOK
  <2>3. ask[q].starts <= clock' + MaxAdvance
    BY <1>1, <2>1, <2>2 DEF PartiesHold
  <2> QED
    BY <1>1, <2>3 DEF PartiesHold, StillStands
<1>2. ASSUME SlotHolds(q) PROVE SlotHolds(q)'
  BY <1>2 DEF SlotHolds, StillStands
<1> QED BY <1>1, <1>2

\* The request carries on as it was, or is not, or not yet, past a check.
SameBooking(q) ==
  /\ StillStands(q)
  /\ ask'[q] = ask[q]
  /\ arrived'[q] = arrived[q]
  /\ pc'[q] = pc[q]
  /\ write'[q] = write[q]

NoBooking(q) ==
  /\ pc'[q] \notin {"appointments", "absences", "insert"}
  /\ pc'[q] \in {"check", "commit"} => Operation[q] # "book"

\* It is enough to look at the requests whose findings a step touches.
LEMMA CheckedLasts ==
  ASSUME BaseInv, RevalidatedInv, NEW q \in Requests,
         clock' \in Nat, clock <= clock', SameBooking(q) \/ NoBooking(q)
  PROVE  Checked(q)'
<1>1. CASE NoBooking(q)
  BY <1>1 DEF NoBooking, Checked
<1>2. CASE SameBooking(q)
  <2>1. /\ PartiesHold(q) => PartiesHold(q)'
        /\ SlotHolds(q) => SlotHolds(q)'
    BY <1>2, FindingsLast DEF SameBooking
  <2> QED BY <1>2, <2>1 DEF SameBooking, RevalidatedInv, Checked
<1> QED BY <1>1, <1>2

\* A step that stores or removes no absence and switches nothing.
LEMMA StandingLasts ==
  ASSUME BaseInv, RevalidatedInv, UNCHANGED <<absences, active>>,
         \A q \in Requests : pc[q] = "ok" => pc'[q] = "ok",
         \A q \in Requests : standing'[q] \in {standing[q], NoFacts, Facts}
  PROVE  StandingHolds'
<1>1. \A i \in Requests : absences'[i] # NoAbsence => pc'[i] = "ok"
  BY DEF RevalidatedInv, StandingHolds
<1>2. ASSUME NEW r \in Requests
      PROVE  /\ \A i \in standing'[r].absences : absences'[i] # NoAbsence
             /\ standing'[r].inactive \cap active' = {}
  <2>1. CASE standing'[r] = standing[r]
    BY <2>1 DEF RevalidatedInv, StandingHolds
  <2>2. CASE standing'[r] = NoFacts
    BY <2>2 DEF NoFacts
  <2>3. CASE standing'[r] = Facts
    BY <2>3 DEF Facts
  <2> QED BY <2>1, <2>2, <2>3
<1> QED BY <1>1, <1>2 DEF StandingHolds

\* Such a step of r, which is not, or not yet, past a check afterwards.
LEMMA LocalStep ==
  ASSUME BaseInv, RevalidatedInv, NEW r \in Requests, pc[r] # "ok",
         UNCHANGED <<clock, absences, active>>,
         \A q \in Requests \ {r} :
           /\ pc'[q] = pc[q] /\ ask'[q] = ask[q] /\ arrived'[q] = arrived[q]
           /\ write'[q] = write[q] /\ standing'[q] = standing[q],
         standing'[r] \in {standing[r], NoFacts, Facts},
         Checked(r)'
  PROVE  RevalidatedInv'
<1>1. StandingHolds'
  BY StandingLasts
<1>2. ASSUME NEW q \in Requests \ {r} PROVE Checked(q)'
  <2>1. SameBooking(q)
    BY DEF SameBooking, StillStands
  <2>2. clock' \in Nat /\ clock <= clock'
    BY DEF BaseInv, TypeInv, TypeOK
  <2> QED BY <2>1, <2>2, CheckedLasts
<1> QED BY <1>1, <1>2 DEF RevalidatedInv

\* A request that is refused, or that arrives, has no findings.
LEMMA RefuseRevalidated ==
  ASSUME BaseInv, RevalidatedInv, NEW r \in Requests, pc[r] # "ok",
         NEW answer \in Answers, Refuse(r, answer)
  PROVE  RevalidatedInv'
<1>1. pc'[r] = answer
  BY DEF Refuse, Reply, Go, BaseInv, TypeInv, TypeOK
<1>2. Checked(r)'
  BY <1>1 DEF Checked, Answers
<1>3. /\ UNCHANGED <<clock, absences, active>>
      /\ standing'[r] = NoFacts
      /\ \A q \in Requests \ {r} :
           /\ pc'[q] = pc[q] /\ ask'[q] = ask[q] /\ arrived'[q] = arrived[q]
           /\ write'[q] = write[q] /\ standing'[q] = standing[q]
  BY DEF Refuse, Reply, Go, Close, Forget, db, BaseInv, TypeInv, TypeOK
<1> QED BY <1>2, <1>3, LocalStep

LEMMA ArriveRevalidated ==
  ASSUME BaseInv, RevalidatedInv, NEW r \in Requests, NEW payload,
         NEW step \in {"parties", "row", "overlap", "forbidden"},
         Arrive(r, payload, step)
  PROVE  RevalidatedInv'
<1>1. pc'[r] = step /\ pc[r] = "idle"
  BY DEF Arrive, Go, BaseInv, TypeInv, TypeOK
<1>2. Checked(r)'
  BY <1>1 DEF Checked
<1>3. /\ UNCHANGED <<clock, absences, active>>
      /\ standing'[r] = Facts
      /\ \A q \in Requests \ {r} :
           /\ pc'[q] = pc[q] /\ ask'[q] = ask[q] /\ arrived'[q] = arrived[q]
           /\ write'[q] = write[q] /\ standing'[q] = standing[q]
  BY DEF Arrive, Go, db, BaseInv, TypeInv, TypeOK
<1> QED BY <1>1, <1>2, <1>3, LocalStep

\* A request that goes on, its findings being in order.
LEMMA ContinueRevalidated ==
  ASSUME BaseInv, RevalidatedInv, NEW r \in Requests, pc[r] # "ok",
         NEW step, Continue(r, step),
         \A q \in Requests \ {r} : write'[q] = write[q],
         Checked(r)'
  PROVE  RevalidatedInv'
<1>1. /\ UNCHANGED <<clock, absences, active>>
      /\ standing'[r] = standing[r]
      /\ \A q \in Requests \ {r} :
           /\ pc'[q] = pc[q] /\ ask'[q] = ask[q] /\ arrived'[q] = arrived[q]
           /\ write'[q] = write[q] /\ standing'[q] = standing[q]
  BY DEF Continue, Go, db, history, BaseInv, TypeInv, TypeOK
<1> QED BY <1>1, LocalStep

\* What a request that goes on has found, it has found afterwards.
LEMMA ContinueKeepsFindings ==
  ASSUME BaseInv, NEW r \in Requests, NEW step, Continue(r, step)
  PROVE  /\ PartiesHold(r) => PartiesHold(r)'
         /\ SlotHolds(r) => SlotHolds(r)'
         /\ pc'[r] = step
         /\ ask'[r] = ask[r]
<1>1. /\ ask' = ask /\ arrived' = arrived /\ clock' = clock /\ StillStands(r)
      /\ pc'[r] = step
  BY DEF Continue, Go, db, history, StillStands, BaseInv, TypeInv, TypeOK
<1>2. clock' \in Nat /\ clock <= clock'
  BY <1>1 DEF BaseInv, TypeInv, TypeOK
<1> QED BY <1>1, <1>2, FindingsLast

\* The opening hours of a day that is not closed.
LEMMA HoursOnType ==
  ASSUME NEW day \in Int, HoursOn(day) # Closed
  PROVE  HoursOn(day) \in [opens : 0 .. DayLength, closes : 0 .. DayLength]
<1>1. day % DaysInWeek \in 0 .. (DaysInWeek - 1)
  BY BookingAssumption
<1>2. HoursOn(day) \in OpeningHours \cup {Closed}
  BY <1>1, BookingAssumption DEF HoursOn
<1> QED BY <1>2 DEF OpeningHours

\* What an appointment asks for is typed, and so is its local day.
LEMMA AskedTimes ==
  ASSUME NEW a \in BookAsks
  PROVE  /\ a.starts \in Int
         /\ Duration[a.offer] \in Nat \ {0}
         /\ LocalDay(a.starts) \in Int
<1>1. a.starts \in Starts /\ a.offer \in Offers
  BY DEF BookAsks
<1>2. Starts \subseteq Int /\ Duration \in [Offers -> Nat \ {0}]
  BY BookingAssumption
<1>3. a.starts \in Int /\ Duration[a.offer] \in Nat \ {0}
  BY <1>1, <1>2
<1>4. LocalDay(a.starts) \in Int
  BY <1>3, AvailabilityAssumption DEF LocalDay
<1> QED BY <1>3, <1>4

\* The first look finds the parties in order, or refuses.
LEMMA PartiesChecked ==
  ASSUME BaseInv, MoveInv, RevalidatedInv, NEW r \in Requests, CheckParties(r)
  PROVE  RevalidatedInv'
<1>1. PICK gone \in {"not_found", "validation_error"} :
        IF PartiesVerdict(ask[r], gone) \in Answers
        THEN Refuse(r, PartiesVerdict(ask[r], gone))
        ELSE /\ Continue(r, PartiesVerdict(ask[r], gone))
             /\ UNCHANGED <<busy, seen, write>>
  BY DEF CheckParties
<1>2. pc[r] = "parties" /\ ask[r] \in BookAsks
  BY DEF CheckParties, BaseInv, TypeInv, RequestShape
<1>3. CASE PartiesVerdict(ask[r], gone) \in Answers
  BY <1>1, <1>2, <1>3, RefuseRevalidated
<1>4. CASE PartiesVerdict(ask[r], gone) \notin Answers
  <2>1. /\ PartiesVerdict(ask[r], gone) = "appointments"
        /\ Continue(r, "appointments")
        /\ UNCHANGED <<busy, seen, write>>
    BY <1>1, <1>4, PartiesVerdictType
  <2>2. /\ ask[r].offer \in active
        /\ IsBookable(ask[r].barber)
        /\ InHorizon(ask[r].starts)
        /\ HoursOn(LocalDay(ask[r].starts)) # Closed
    BY <2>1 DEF PartiesVerdict
  <2>3. {ask[r].barber, ask[r].offer} \cap standing[r].inactive = {}
    BY <2>2 DEF RevalidatedInv, StandingHolds, IsBookable
  <2>4. arrived[r] + Lead <= ask[r].starts
    <3>1. /\ arrived[r] \in Nat /\ clock \in Nat /\ arrived[r] <= clock
          /\ Lead \in Nat /\ ask[r].starts \in Int
      BY <1>2, AskedTimes, BookingAssumption
         DEF BaseInv, TypeInv, TypeOK, MoveInv, ArrivedInPast
    <3> QED BY <2>2, <3>1 DEF InHorizon, Horizon, Interval
  <2>5. PartiesHold(r)
    BY <1>2, <2>2, <2>3, <2>4 DEF PartiesHold, IsBookable, InHorizon, Horizon, Interval
  <2>6. Checked(r)'
    BY <2>1, <2>5, ContinueKeepsFindings DEF Checked
  <2> QED BY <1>2, <2>1, <2>6, ContinueRevalidated
<1> QED BY <1>3, <1>4

\* Reading the appointments finds nothing that the property is about.
LEMMA AppointmentsRead ==
  ASSUME BaseInv, RevalidatedInv, NEW r \in Requests, ReadAppointments(r)
  PROVE  RevalidatedInv'
<1>1. pc[r] = "appointments" /\ Continue(r, "absences") /\ write' = write
  BY DEF ReadAppointments
<1>2. PartiesHold(r)
  BY <1>1 DEF RevalidatedInv, Checked
<1>3. Checked(r)'
  BY <1>1, <1>2, ContinueKeepsFindings DEF Checked
<1> QED BY <1>1, <1>3, ContinueRevalidated

\* A start that is offered in spite of the absences that overlap its local
\* day is in the way of no absence at all.
LEMMA AwayIsEnough ==
  ASSUME BaseInv, NEW a \in BookAsks, HoursOn(LocalDay(a.starts)) # Closed,
         NEW occupied,
         SlotOffered(a, occupied \cup
           {absences[i].span : i \in AbsencesOf(a.barber, DayBounds(LocalDay(a.starts)))}),
         NEW i \in Requests, absences[i] # NoAbsence, absences[i].barber = a.barber
  PROVE  /\ a.starts \in SlotStarts(OpeningWindow(LocalDay(a.starts),
                                                  HoursOn(LocalDay(a.starts))),
                                    Duration[a.offer])
         /\ ~Overlaps(Interval(a.starts, a.starts + Duration[a.offer]),
                      absences[i].span)
<1> DEFINE day == LocalDay(a.starts)
           span == absences[i].span
           wanted == Interval(a.starts, a.starts + Duration[a.offer])
<1>1. /\ a.starts \in Int /\ Duration[a.offer] \in Nat \ {0} /\ day \in Int
      /\ HoursOn(day) \in [opens : 0 .. DayLength, closes : 0 .. DayLength]
  BY AskedTimes, HoursOnType
<1>2. span \in Intervals
  BY DEF BaseInv, TypeInv, TypeOK
<1>3. a.starts \in SlotStarts(OpeningWindow(day, HoursOn(day)), Duration[a.offer])
  BY DEF SlotOffered, AvailableStarts
<1>4. ASSUME i \in AbsencesOf(a.barber, DayBounds(day))
      PROVE  ~Overlaps(wanted, span)
  BY <1>4 DEF SlotOffered, AvailableStarts, IsFree
<1>5. ASSUME i \notin AbsencesOf(a.barber, DayBounds(day))
      PROVE  ~Overlaps(wanted, span)
  <2>1. ~Overlaps(span, DayBounds(day))
    BY <1>5 DEF AbsencesOf
  <2> HIDE DEF day, span
  <2> QED BY <1>1, <1>2, <1>3, <2>1, DayRowsSuffice
<1> QED BY <1>3, <1>4, <1>5

\* The look at the absences finds the slot in order, or refuses.
LEMMA AbsencesRead ==
  ASSUME BaseInv, RevalidatedInv, NEW r \in Requests, ReadAbsences(r)
  PROVE  RevalidatedInv'
<1> DEFINE a == ask[r]
           away == {absences[i].span :
                      i \in AbsencesOf(a.barber, DayBounds(LocalDay(a.starts)))}
<1>1. /\ pc[r] = "absences"
      /\ IF SlotOffered(a, busy[r] \cup away)
         THEN Continue(r, "insert") /\ UNCHANGED write
         ELSE Refuse(r, "slot_unavailable")
  BY DEF ReadAbsences
<1>2. PartiesHold(r)
  BY <1>1 DEF RevalidatedInv, Checked
<1>3. CASE ~SlotOffered(a, busy[r] \cup away)
  BY <1>1, <1>3, RefuseRevalidated DEF Answers
<1>4. CASE SlotOffered(a, busy[r] \cup away)
  <2>1. a \in BookAsks /\ HoursOn(LocalDay(a.starts)) # Closed
    BY <1>2 DEF PartiesHold
  <2>2. a.starts \in SlotStarts(OpeningWindow(LocalDay(a.starts),
                                              HoursOn(LocalDay(a.starts))),
                                Duration[a.offer])
    BY <1>4 DEF SlotOffered, AvailableStarts
  <2>3. ASSUME NEW i \in standing[r].absences, absences[i].barber = a.barber
        PROVE  ~Overlaps(Interval(a.starts, a.starts + Duration[a.offer]),
                         absences[i].span)
    <3>1. i \in Requests /\ absences[i] # NoAbsence
      BY DEF BaseInv, TypeInv, TypeOK, RevalidatedInv, StandingHolds
    <3> QED BY <1>4, <2>1, <2>3, <3>1, AwayIsEnough
  <2>4. SlotHolds(r)
    BY <2>2, <2>3 DEF SlotHolds
  <2> HIDE DEF a, away
  <2>5. Checked(r)'
    BY <1>1, <1>2, <1>4, <2>4, ContinueKeepsFindings DEF Checked
  <2> QED BY <1>1, <1>4, <2>5, ContinueRevalidated
<1> QED BY <1>3, <1>4

\* What is inserted is what was checked.
LEMMA InsertRevalidated ==
  ASSUME BaseInv, RevalidatedInv, NEW r \in Requests, Insert(r)
  PROVE  RevalidatedInv'
<1>1. /\ pc[r] = "insert"
      /\ Continue(r, "check")
      /\ write' = [write EXCEPT ![r] = [id |-> r, row |-> NewRow(ask[r])]]
  BY DEF Insert
<1>2. /\ write'[r].row = NewRow(ask[r])
      /\ \A q \in Requests \ {r} : write'[q] = write[q]
  BY <1>1 DEF BaseInv, TypeInv, TypeOK
<1>3. PartiesHold(r) /\ SlotHolds(r)
  BY <1>1 DEF RevalidatedInv, Checked
<1>4. Checked(r)'
  BY <1>1, <1>2, <1>3, ContinueKeepsFindings DEF Checked, NewRow
<1> QED BY <1>1, <1>2, <1>4, ContinueRevalidated

\* Passing the constraint's check changes nothing of it.
LEMMA PassRevalidated ==
  ASSUME BaseInv, RevalidatedInv, NEW r \in Requests, PassCheck(r)
  PROVE  RevalidatedInv'
<1>1. pc[r] = "check" /\ Continue(r, "commit") /\ write' = write
  BY DEF PassCheck
<1>2. Operation[r] = "book" =>
        PartiesHold(r) /\ SlotHolds(r) /\ write[r].row = NewRow(ask[r])
  BY <1>1 DEF RevalidatedInv, Checked
<1>3. /\ pc'[r] = "commit" /\ ask'[r] = ask[r] /\ write'[r].row = write[r].row
      /\ PartiesHold(r) => PartiesHold(r)'
      /\ SlotHolds(r) => SlotHolds(r)'
  BY <1>1, ContinueKeepsFindings
<1>4. Checked(r)'
  BY <1>2, <1>3 DEF Checked, NewRow
<1> QED BY <1>1, <1>4, ContinueRevalidated

\* A new absence stands in nobody's way yet.
LEMMA StoreRevalidated ==
  ASSUME BaseInv, RevalidatedInv, NEW r \in Requests, StoreAbsence(r)
  PROVE  RevalidatedInv'
<1>1. /\ pc[r] = "store"
      /\ pc' = [pc EXCEPT ![r] = "ok"]
      /\ standing' = [standing EXCEPT ![r] = NoFacts]
      /\ UNCHANGED <<clock, active>>
      /\ \A q \in Requests \ {r} :
           /\ absences'[q] = absences[q]
           /\ ask'[q] = ask[q] /\ arrived'[q] = arrived[q] /\ write'[q] = write[q]
  BY DEF StoreAbsence, Reply, Go, Close, Forget, BaseInv, TypeInv, TypeOK
<1>2. absences[r] = NoAbsence
  BY <1>1 DEF RevalidatedInv, StandingHolds
<1>3. StandingHolds'
  <2>1. \A i \in Requests : absences'[i] # NoAbsence => pc'[i] = "ok"
    BY <1>1 DEF RevalidatedInv, StandingHolds, BaseInv, TypeInv, TypeOK
  <2>2. ASSUME NEW q \in Requests
        PROVE  /\ \A i \in standing'[q].absences : absences'[i] # NoAbsence
               /\ standing'[q].inactive \cap active' = {}
    <3>1. CASE q = r
      BY <1>1, <3>1 DEF NoFacts, BaseInv, TypeInv, TypeOK
    <3>2. CASE q # r
      BY <1>1, <1>2, <3>2
         DEF RevalidatedInv, StandingHolds, BaseInv, TypeInv, TypeOK
    <3> QED BY <3>1, <3>2
  <2> QED BY <2>1, <2>2 DEF StandingHolds
<1>4. ASSUME NEW q \in Requests PROVE SameBooking(q) \/ NoBooking(q)
  <2>1. CASE q = r
    BY <1>1, <2>1 DEF NoBooking, BaseInv, TypeInv, TypeOK
  <2>2. CASE q # r
    <3>1. standing'[q] = standing[q] /\ pc'[q] = pc[q]
      BY <1>1, <2>2 DEF BaseInv, TypeInv, TypeOK
    <3>2. ASSUME NEW i \in standing[q].absences PROVE absences'[i] = absences[i]
      BY <1>1, <1>2 DEF RevalidatedInv, StandingHolds, BaseInv, TypeInv, TypeOK
    <3> QED BY <1>1, <2>2, <3>1, <3>2 DEF SameBooking, StillStands
  <2> QED BY <2>1, <2>2
<1>5. clock' \in Nat /\ clock <= clock'
  BY <1>1 DEF BaseInv, TypeInv, TypeOK
<1> QED BY <1>3, <1>4, <1>5, CheckedLasts DEF RevalidatedInv

\* An absence that is removed stands in nobody's way any more.
LEMMA RemoveRevalidated ==
  ASSUME BaseInv, RevalidatedInv, NEW r \in Requests, RemoveAbsence(r)
  PROVE  RevalidatedInv'
<1>1. PICK i \in Requests :
        /\ absences' = [absences EXCEPT ![i] = NoAbsence]
        /\ standing' = [q \in Requests |->
                          [standing[q] EXCEPT !.absences = @ \ {i}]]
  BY DEF RemoveAbsence
<1>2. /\ pc[r] = "idle"
      /\ pc' = [pc EXCEPT ![r] = "ok"]
      /\ UNCHANGED <<clock, active>>
      /\ \A q \in Requests \ {r} :
           ask'[q] = ask[q] /\ arrived'[q] = arrived[q] /\ write'[q] = write[q]
  BY DEF RemoveAbsence, Reply, Go, Close, BaseInv, TypeInv, TypeOK
<1>3. \A q \in Requests :
        /\ standing'[q].absences = standing[q].absences \ {i}
        /\ standing'[q].inactive = standing[q].inactive
        /\ standing[q].absences \subseteq Requests
  BY <1>1 DEF BaseInv, TypeInv, TypeOK
<1>4. \A j \in Requests \ {i} : absences'[j] = absences[j]
  BY <1>1 DEF BaseInv, TypeInv, TypeOK
<1>5. StandingHolds'
  <2>1. \A j \in Requests : absences'[j] # NoAbsence => pc'[j] = "ok"
    BY <1>1, <1>2 DEF RevalidatedInv, StandingHolds, BaseInv, TypeInv, TypeOK
  <2> QED
    BY <1>2, <1>3, <1>4, <2>1 DEF RevalidatedInv, StandingHolds
<1>6. ASSUME NEW q \in Requests PROVE SameBooking(q) \/ NoBooking(q)
  <2>1. CASE q = r
    BY <1>2, <2>1 DEF NoBooking, BaseInv, TypeInv, TypeOK
  <2>2. CASE q # r
    <3>1. StillStands(q)
      BY <1>3, <1>4 DEF StillStands
    <3> QED BY <1>2, <2>2, <3>1 DEF SameBooking, BaseInv, TypeInv, TypeOK
  <2> QED BY <2>1, <2>2
<1>7. clock' \in Nat /\ clock <= clock'
  BY <1>2 DEF BaseInv, TypeInv, TypeOK
<1> QED BY <1>5, <1>6, <1>7, CheckedLasts DEF RevalidatedInv

\* What is switched on has not been off ever since; what is switched off
\* stands in nobody's way yet.
LEMMA ToggleRevalidated ==
  ASSUME BaseInv, RevalidatedInv, NEW r \in Requests, Toggle(r)
  PROVE  RevalidatedInv'
<1>1. /\ pc[r] = "idle"
      /\ pc' = [pc EXCEPT ![r] = "ok"]
      /\ standing' = [q \in Requests |->
                        [standing[q] EXCEPT !.inactive = @ \ active']]
      /\ UNCHANGED <<clock, absences>>
      /\ \A q \in Requests \ {r} :
           ask'[q] = ask[q] /\ arrived'[q] = arrived[q] /\ write'[q] = write[q]
  BY DEF Toggle, Reply, Go, Close, BaseInv, TypeInv, TypeOK
<1>2. \A q \in Requests :
        /\ standing'[q].inactive = standing[q].inactive \ active'
        /\ standing'[q].absences = standing[q].absences
  BY <1>1 DEF BaseInv, TypeInv, TypeOK
<1>3. StandingHolds'
  BY <1>1, <1>2 DEF RevalidatedInv, StandingHolds, BaseInv, TypeInv, TypeOK
<1>4. ASSUME NEW q \in Requests PROVE SameBooking(q) \/ NoBooking(q)
  <2>1. CASE q = r
    BY <1>1, <2>1 DEF NoBooking, BaseInv, TypeInv, TypeOK
  <2>2. CASE q # r
    BY <1>1, <1>2, <2>2 DEF SameBooking, StillStands, BaseInv, TypeInv, TypeOK
  <2> QED BY <2>1, <2>2
<1>5. clock' \in Nat /\ clock <= clock'
  BY <1>1 DEF BaseInv, TypeInv, TypeOK
<1> QED BY <1>3, <1>4, <1>5, CheckedLasts DEF RevalidatedInv

\* Initially nobody has found anything.
LEMMA InitRevalidated == Init => RevalidatedInv
  BY DEF Init, RevalidatedInv, StandingHolds, Checked, NoFacts

\* A commit, and the steps of the requests that do not book.
LEMMA OtherRevalidated ==
  ASSUME BaseInv, MoveInv, RevalidatedInv, NEW r \in Requests,
         ReadRow(r) \/ Update(r) \/ Commit(r) \/ CheckOverlap(r)
  PROVE  RevalidatedInv'
<1>1. CASE ReadRow(r)
  <2>1. PICK reason \in BOOLEAN :
          LET verdict == MoveVerdict(ask[r], appointments[ask[r].target], reason)
          IN  IF verdict \in Answers
              THEN Refuse(r, verdict)
              ELSE Continue(r, verdict) /\ UNCHANGED write
    BY <1>1 DEF ReadRow
  <2> DEFINE verdict == MoveVerdict(ask[r], appointments[ask[r].target], reason)
  <2>2. pc[r] = "row"
    BY <1>1 DEF ReadRow
  <2>3. CASE verdict \in Answers
    BY <2>1, <2>2, <2>3, RefuseRevalidated
  <2>4. CASE verdict \notin Answers
    <3>1. verdict = "update"
      BY <2>4, MoveVerdictType
    <3>2. Continue(r, "update") /\ UNCHANGED write
      BY <2>1, <2>4, <3>1
    <3> HIDE DEF verdict
    <3>3. Checked(r)'
      BY <3>2, ContinueKeepsFindings DEF Checked
    <3> QED BY <2>2, <3>2, <3>3, ContinueRevalidated
  <2> QED BY <2>3, <2>4
<1>2. CASE Update(r)
  <2>1. /\ pc[r] = "update"
        /\ Operation[r] = "move"
        /\ Continue(r, "check")
        /\ \A q \in Requests \ {r} : write'[q] = write[q]
    BY <1>2 DEF Update, MoveInv, MovesFit, BaseInv, TypeInv, TypeOK
  <2>2. Checked(r)'
    BY <2>1, ContinueKeepsFindings DEF Checked
  <2> QED BY <2>1, <2>2, ContinueRevalidated
<1>3. CASE Commit(r)
  <2>1. /\ pc[r] = "commit"
        /\ pc'[r] = "ok"
        /\ UNCHANGED <<clock, absences, active>>
        /\ standing'[r] = NoFacts
        /\ \A q \in Requests \ {r} :
             /\ pc'[q] = pc[q] /\ ask'[q] = ask[q] /\ arrived'[q] = arrived[q]
             /\ write'[q] = write[q] /\ standing'[q] = standing[q]
    BY <1>3 DEF Commit, Reply, Go, Close, Forget, BaseInv, TypeInv, TypeOK
  <2>2. Checked(r)'
    BY <2>1 DEF Checked
  <2> QED BY <2>1, <2>2, LocalStep
<1>4. CASE CheckOverlap(r)
  <2>1. pc[r] = "overlap"
    BY <1>4 DEF CheckOverlap
  <2>2. CASE Refuse(r, "business_rule")
    BY <2>1, <2>2, RefuseRevalidated DEF Answers
  <2>3. CASE Continue(r, "store") /\ UNCHANGED write
    <3>1. Checked(r)'
      BY <2>3, ContinueKeepsFindings DEF Checked
    <3> QED BY <2>1, <2>3, <3>1, ContinueRevalidated
  <2> QED BY <1>4, <2>2, <2>3 DEF CheckOverlap
<1> QED BY <1>1, <1>2, <1>3, <1>4

\* Every step keeps what bookings have found true.
LEMMA NextRevalidated ==
  BaseInv /\ MoveInv /\ RevalidatedInv /\ [Next]_vars => RevalidatedInv'
<1> SUFFICES ASSUME BaseInv, MoveInv, RevalidatedInv, [Next]_vars
             PROVE  RevalidatedInv'
  OBVIOUS
<1>1. CASE UNCHANGED vars \/ Tick
  <2>1. /\ UNCHANGED <<db, local, history>>
        /\ clock' \in Nat /\ clock <= clock'
    BY <1>1 DEF vars, Tick, BaseInv, TypeInv, TypeOK
  <2>2. StandingHolds'
    BY <2>1, StandingLasts DEF db, local, history
  <2>3. \A q \in Requests : SameBooking(q)
    BY <2>1 DEF SameBooking, StillStands, db, local, history
  <2> QED BY <2>1, <2>2, <2>3, CheckedLasts DEF RevalidatedInv
<1>2. ASSUME NEW r \in Requests,
             BookArrives(r) \/ MoveArrives(r) \/ BlockArrives(r)
      PROVE  RevalidatedInv'
  BY <1>2, ArriveRevalidated DEF BookArrives, MoveArrives, BlockArrives
<1>3. ASSUME NEW r \in Requests, RemoveAbsence(r) \/ Toggle(r)
      PROVE  RevalidatedInv'
  BY <1>3, RemoveRevalidated, ToggleRevalidated
<1>4. ASSUME NEW r \in Requests,
             CheckParties(r) \/ ReadAppointments(r) \/ ReadAbsences(r) \/ Insert(r)
      PROVE  RevalidatedInv'
  BY <1>4, PartiesChecked, AppointmentsRead, AbsencesRead, InsertRevalidated
<1>5. ASSUME NEW r \in Requests, FailCheck(r) \/ DeadlockVictim(r) \/ Lose(r)
      PROVE  RevalidatedInv'
  <2>1. pc[r] # "ok"
    BY <1>5 DEF FailCheck, DeadlockVictim, WaitsFor, Lose, Steps
  <2> QED BY <1>5, <2>1, RefuseRevalidated DEF FailCheck, DeadlockVictim, Lose, Answers
<1>6. ASSUME NEW r \in Requests, PassCheck(r) \/ StoreAbsence(r)
      PROVE  RevalidatedInv'
  BY <1>6, PassRevalidated, StoreRevalidated
<1>7. ASSUME NEW r \in Requests,
             ReadRow(r) \/ Update(r) \/ Commit(r) \/ CheckOverlap(r)
      PROVE  RevalidatedInv'
  BY <1>7, OtherRevalidated
<1> QED
  BY <1>1, <1>2, <1>3, <1>4, <1>5, <1>6, <1>7 DEF Next, AllServed, Arrives, Serve

\* In every reachable state, what bookings under way have found is still true.
LEMMA FindingsHold == Spec => [](BaseInv /\ RevalidatedInv)
<1>1. Init => RevalidatedInv
  BY InitRevalidated
<1>2. (BaseInv /\ MoveInv) /\ RevalidatedInv /\ [Next]_vars => RevalidatedInv'
  BY NextRevalidated
<1> QED BY <1>1, <1>2, AllInvariant, PTL DEF Spec

\* Whatever is stored, removed or switched while a booking is under way, what
\* it commits fits the opening hours, the lead time and everything that has
\* stood ever since it arrived.
THEOREM BookingsRevalidated == Spec => BookingRevalidated
<1>1. ASSUME BaseInv, RevalidatedInv, NEW r \in Requests,
             CommitsNow(r), Operation[r] = "book"
      PROVE  ValidBooking(r)
  <2> DEFINE a == ask[r]
             row == write[r].row
             day == LocalDay(row.starts)
  <2>1. PartiesHold(r) /\ SlotHolds(r) /\ row = NewRow(a)
    BY <1>1 DEF CommitsNow, RevalidatedInv, Checked
  <2>2. a \in BookAsks
    BY <2>1 DEF PartiesHold
  <2>3. a.starts \in Int /\ Duration[a.offer] \in Nat \ {0}
    BY <2>2, AskedTimes
  <2>4. /\ row.starts = a.starts
        /\ row.barber = a.barber
        /\ row.ends = a.starts + Duration[a.offer]
        /\ row.ends - row.starts = Duration[a.offer]
    BY <2>1, <2>3 DEF NewRow
  <2>5. ASSUME NEW i \in standing[r].absences, absences[i].barber = row.barber,
               NEW t \in row.starts .. (row.ends - 1)
        PROVE  ~Contains(absences[i].span, t)
    <3>1. ~Overlaps(Interval(a.starts, a.starts + Duration[a.offer]), absences[i].span)
      BY <2>1, <2>4, <2>5 DEF SlotHolds
    <3>2. absences[i].span \in Intervals
      BY <1>1 DEF BaseInv, TypeInv, TypeOK, RevalidatedInv, StandingHolds
    <3> QED BY <2>3, <2>4, <3>1, <3>2 DEF Overlaps, Interval, Intervals, Contains
  <2> HIDE DEF row
  <2> QED BY <2>1, <2>4, <2>5 DEF ValidBooking, PartiesHold, SlotHolds, row
<1>2. BaseInv /\ RevalidatedInv
      => [\A r \in Requests :
            CommitsNow(r) /\ Operation[r] = "book" => ValidBooking(r)]_vars
  BY <1>1
<1> QED BY <1>2, FindingsHold, PTL DEF BookingRevalidated
=============================================================================
