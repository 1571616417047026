----------------------------- MODULE MCBooking ------------------------------
(***************************************************************************)
(* Small instances of Booking for TLC.  A day has six units, the shop's    *)
(* wall clock is two units behind UTC (so local day 0 is instants 2 to 7), *)
(* and the week alternates an open day (wall clock 1 to 5, instants 3 to   *)
(* 7) and a closed one.                                                    *)
(***************************************************************************)
EXTENDS Booking, TLC

CONSTANTS ana, bruno, carla, dario,     \* users
          cut, shave,                   \* offers
          b1, b2, b3, m1, m2, x1, x2, u1, t1,  \* requests
          s1, s2                        \* appointments booked before

MCRole ==
  [u \in {ana, bruno, carla, dario} |->
     CASE u = ana   -> "admin"
       [] u = bruno -> "barber"
       [] u = dario -> "barber"
       [] OTHER     -> "customer"]

RoleOf(users) == [u \in users |-> MCRole[u]]

MCDuration == [o \in {cut, shave} |-> IF o = cut THEN 2 ELSE 1]

DurationOf(offers) == [o \in offers |-> MCDuration[o]]

MCOffset == -2

MCHours == [d \in {0, 1} |-> IF d = 0 THEN [opens |-> 1, closes |-> 5] ELSE Closed]

Asks(books, moves, blocks, unblocks, toggles) ==
  [r \in books \cup moves \cup blocks \cup unblocks \cup toggles |->
     CASE r \in books    -> "book"
       [] r \in moves    -> "move"
       [] r \in blocks   -> "block"
       [] r \in unblocks -> "unblock"
       [] OTHER          -> "toggle"]

Row(customer, starts, ends, status) ==
  [customer |-> customer, barber |-> bruno, starts |-> starts, ends |-> ends,
   status |-> status, cancelledAt |-> FALSE]

-----------------------------------------------------------------------------
\* Race: three customers' requests for overlapping times of one barber.
RaceUsers == {bruno, carla}
RaceRole == RoleOf(RaceUsers)
RaceOffers == {cut}
RaceDuration == DurationOf(RaceOffers)
RaceOperation == Asks({b1, b2, b3}, {}, {}, {}, {})
RaceStarts == {3, 4}
NoSeedRows == [s \in {} |-> NoRow]

\* Day: one booking among absences that come and go and a switch.
DayUsers == {bruno, carla}
DayRole == RoleOf(DayUsers)
DayOffers == {cut, shave}
DayDuration == DurationOf(DayOffers)
DayOperation == Asks({b1}, {}, {x1, x2}, {u1}, {t1})
DayStarts == {2, 3, 5, 9}
DaySpans == {Interval(1, 4), Interval(6, 7)}
DaySeedRows == [s \in {s1} |-> Row(carla, 4, 5, "confirmed")]

\* Moves: two transitions and a booking around one appointment.
MoveUsers == {ana, bruno, carla}
MoveRole == RoleOf(MoveUsers)
MoveOperation == Asks({b1}, {m1, m2}, {}, {}, {})
TwoMoves == Asks({}, {m1, m2}, {}, {}, {})
MoveSymmetry == Permutations({m1, m2})

MoveStarts == {3}
MoveSeedRows == [s \in {s1} |-> Row(carla, 4, 5, "pending")]
=============================================================================
