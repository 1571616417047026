------------------------------- MODULE Agenda -------------------------------
(***************************************************************************)
(* What the booking system promises about the barbers' agendas, with no    *)
(* word about requests, transactions or statuses.  An appointment is given *)
(* one barber and one span of time for ever.  It holds that place or it    *)
(* does not, and two appointments never hold overlapping places of one     *)
(* barber.                                                                 *)
(***************************************************************************)
EXTENDS Integers

CONSTANTS Appointments,  \* appointment ids
          Barbers,
          NoPlace        \* "this id names no appointment yet"

\* place[a] is the barber and span given to appointment a, held the
\* appointments that occupy theirs.
VARIABLES place, held

agendaVars == <<place, held>>

Places == [barber : Barbers, start : Int, end : Int]

Collide(p, q) ==
  /\ p.barber = q.barber
  /\ p.start < q.end
  /\ q.start < p.end

AgendaTypeOK ==
  /\ place \in [Appointments -> Places \cup {NoPlace}]
  /\ held \subseteq {a \in Appointments : place[a] # NoPlace}

\* No two held places collide.
Disjoint ==
  \A a, b \in held : a # b => ~Collide(place[a], place[b])

AgendaInit == AgendaTypeOK /\ Disjoint

\* Appointment a takes a place which nobody who holds one may collide with.
\* An appointment that has given its place up may take that place again.
Take(a) ==
  /\ a \notin held
  /\ place'[a] \in Places
  /\ place[a] \in {NoPlace, place'[a]}
  /\ \A b \in held : ~Collide(place'[a], place[b])
  /\ place' = [place EXCEPT ![a] = place'[a]]
  /\ held' = held \cup {a}

\* Appointment a gives its place up: cancelled, completed or missed.
Release(a) ==
  /\ a \in held
  /\ held' = held \ {a}
  /\ UNCHANGED place

AgendaNext ==
  \E a \in Appointments : Take(a) \/ Release(a)

AgendaSpec == AgendaInit /\ [][AgendaNext]_agendaVars
=============================================================================
