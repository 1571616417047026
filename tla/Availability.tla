---------------------------- MODULE Availability ----------------------------
(***************************************************************************)
(* The slot arithmetic of the booking engine: the pure functions of        *)
(* services/availability.py, and the local-day arithmetic of               *)
(* AvailabilityService that decides which rows those functions are shown.  *)
(*                                                                         *)
(* An instant is an integer: the number of time units since the UTC epoch. *)
(* UtcOffset is what the shop's timezone adds to an instant to obtain its  *)
(* wall clock, so local day d spans [d*DayLength, (d+1)*DayLength) of wall *)
(* clock.  The offset is constant: the default timezone (Buenos Aires)     *)
(* keeps no daylight saving time.                                          *)
(***************************************************************************)
EXTENDS Integers

CONSTANTS SlotMinutes,   \* settings.booking_slot_minutes
          DayLength,     \* units in one local calendar day
          UtcOffset      \* wall clock minus UTC

\* The bounds core/config.py puts on the settings, in the model's units.
ASSUME AvailabilityAssumption ==
  /\ SlotMinutes \in Nat \ {0}
  /\ DayLength \in Nat \ {0}
  /\ UtcOffset \in Int

-----------------------------------------------------------------------------
(* Intervals.  TimeRange: half-open, [start, end).                         *)

Interval(s, e) == [start |-> s, end |-> e]

Intervals == [start : Int, end : Int]

\* Faults: touching intervals collide; only the first one's start is looked at.
OverlapsClosed(a, b) == a.start <= b.end /\ b.start <= a.end
OverlapsOneSided(a, b) == b.start <= a.start /\ a.start < b.end

Overlaps(a, b) == a.start < b.end /\ b.start < a.end

Contains(a, t) == a.start <= t /\ t < a.end

-----------------------------------------------------------------------------
(* Days.  Opening hours are wall-clock times of a day, opens < closes.     *)

LocalDay(t) == (t + UtcOffset) \div DayLength

\* Fault: the day is bounded in UTC instead of the shop's timezone.
DayBoundsNaive(day) ==
  Interval(day * DayLength, (day + 1) * DayLength)

DayBounds(day) ==
  Interval(day * DayLength - UtcOffset, (day + 1) * DayLength - UtcOffset)

OpeningWindow(day, hours) ==
  Interval(day * DayLength + hours.opens - UtcOffset,
           day * DayLength + hours.closes - UtcOffset)

-----------------------------------------------------------------------------
(* Slots.                                                                  *)

\* generate_slot_starts: from the opening on, one start every SlotMinutes,
\* as long as the whole appointment fits before closing time.
SlotStarts(window, duration) ==
  IF duration <= 0 THEN {}
  ELSE {s \in window.start .. (window.end - duration) :
          (s - window.start) % SlotMinutes = 0}

\* filter_available_starts: what is neither too soon, too far nor occupied.
IsFree(s, duration, busy, horizon) ==
  /\ horizon.start <= s
  /\ s <= horizon.end
  /\ \A taken \in busy : ~Overlaps(Interval(s, s + duration), taken)

\* compute_available_starts.
AvailableStarts(day, hours, duration, busy, horizon) ==
  {s \in SlotStarts(OpeningWindow(day, hours), duration) :
     IsFree(s, duration, busy, horizon)}
=============================================================================
