----------------------------- MODULE SlotSearch -----------------------------
(***************************************************************************)
(* compute_available_starts as the program runs it: the while loop of      *)
(* generate_slot_starts, then the for loop of filter_available_starts.     *)
(* The module shows that the two loops end, that they compute what module  *)
(* Availability defines, and that this is the set a customer would expect: *)
(* the starts from which every instant of the appointment is inside        *)
(* opening hours and free.                                                 *)
(***************************************************************************)
EXTENDS Availability, Sequences

CONSTANT Queries  \* the arguments tried

\* Appointments and absences end after they start: the tables have check
\* constraints (models/appointment.py:62, models/schedule.py:67).
ASSUME SearchAssumption ==
  /\ Queries \subseteq
       [day : Int, hours : [opens : Int, closes : Int], duration : Int,
        busy : SUBSET Intervals, horizon : Intervals]
  /\ \A q \in Queries : \A taken \in q.busy : taken.start < taken.end

VARIABLES query,      \* the arguments of this call
          pc,         \* which loop is running
          cursor,     \* the while loop's cursor
          starts,     \* candidates not examined yet
          available   \* candidates kept

vars == <<query, pc, cursor, starts, available>>

Window == OpeningWindow(query.day, query.hours)

Init ==
  /\ query \in Queries
  /\ pc = IF query.duration <= 0 THEN "filter" ELSE "generate"
  /\ cursor = Window.start
  /\ starts = <<>>
  /\ available = <<>>

LatestStart == Window.end - query.duration

\* Faults: the last start that fits is missed; the cursor starts late.
StillFitsStrict == cursor < LatestStart

StillFits == cursor <= LatestStart

AppendStart ==
  /\ pc = "generate"
  /\ StillFits
  /\ starts' = Append(starts, cursor)
  /\ cursor' = cursor + SlotMinutes
  /\ UNCHANGED <<query, pc, available>>

StopGenerating ==
  /\ pc = "generate"
  /\ ~StillFits
  /\ pc' = "filter"
  /\ UNCHANGED <<query, cursor, starts, available>>

HeadIsFree == IsFree(Head(starts), query.duration, query.busy, query.horizon)

Keep ==
  /\ pc = "filter"
  /\ starts # <<>>
  /\ HeadIsFree
  /\ available' = Append(available, Head(starts))
  /\ starts' = Tail(starts)
  /\ UNCHANGED <<query, pc, cursor>>

\* Fault: an occupied candidate is looked at again and again.
DropNothing ==
  /\ pc = "filter"
  /\ starts # <<>>
  /\ ~HeadIsFree
  /\ UNCHANGED vars

Drop ==
  /\ pc = "filter"
  /\ starts # <<>>
  /\ ~HeadIsFree
  /\ starts' = Tail(starts)
  /\ UNCHANGED <<query, pc, cursor, available>>

Return ==
  /\ pc = "filter"
  /\ starts = <<>>
  /\ pc' = "done"
  /\ UNCHANGED <<query, cursor, starts, available>>

Next == AppendStart \/ StopGenerating \/ Keep \/ Drop \/ Return

Spec == Init /\ [][Next]_vars

FairSpec == Spec /\ WF_vars(Next)

-----------------------------------------------------------------------------
Found == {available[i] : i \in DOMAIN available}

\* The loops return what the operator used by the booking engine's model
\* defines, in order and without repetition: the slots the API lists are
\* the slots create_appointment accepts.
SearchAgrees ==
  pc = "done" =>
    /\ Found = AvailableStarts(query.day, query.hours, query.duration,
                               query.busy, query.horizon)
    /\ \A i, j \in DOMAIN available : i < j => available[i] < available[j]

\* A start is offered exactly when it lies on the grid counted from opening
\* time, inside the horizon, and every instant of the appointment falls on
\* the queried local day, within its opening hours and in nobody's way.
Expected(s) ==
  /\ query.duration > 0
  /\ (s - Window.start) % SlotMinutes = 0
  /\ query.horizon.start <= s
  /\ s <= query.horizon.end
  /\ \A t \in s .. (s + query.duration - 1) :
       LET wall == t + UtcOffset - query.day * DayLength
       IN  /\ query.hours.opens <= wall
           /\ wall < query.hours.closes
           /\ \A taken \in query.busy : ~Contains(taken, t)

OffersExactlyTheFreeStarts ==
  pc = "done" =>
    \A s \in (Window.start - 1) .. (Window.end + 1) :
      s \in Found <=> Expected(s)

\* The search ends for every query.
SearchEnds == <>(pc = "done")
=============================================================================
