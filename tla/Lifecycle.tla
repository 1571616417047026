----------------------------- MODULE Lifecycle ------------------------------
(***************************************************************************)
(* The appointment state machine and who may drive it: models/enums.py and *)
(* the decisions of services/appointment_view.py, as pure operators over   *)
(* an appointment row, a viewer and the current time.                      *)
(***************************************************************************)
EXTENDS Integers

CONSTANTS Users,    \* account ids
          Role,     \* the role stored in each account's row
          Cutoff    \* settings.booking_cancellation_cutoff_minutes

Roles == {"admin", "barber", "customer"}

ASSUME LifecycleAssumption ==
  /\ Role \in [Users -> Roles]
  /\ Cutoff \in Nat

Barbers == {u \in Users : Role[u] = "barber"}

-----------------------------------------------------------------------------
(* Statuses.                                                               *)

Statuses == {"pending", "confirmed", "cancelled", "completed", "no_show"}

BlockingStatuses == {"pending", "confirmed"}

TerminalStatuses == {"cancelled", "completed", "no_show"}

\* Fault: a cancelled appointment may be put back.
TransitionsWithUndo ==
  [s \in Statuses |->
     CASE s = "pending"   -> {"confirmed", "cancelled", "no_show", "completed"}
       [] s = "confirmed" -> {"completed", "cancelled", "no_show"}
       [] s = "cancelled" -> {"confirmed"}
       [] OTHER           -> {}]

StatusTransitions ==
  [s \in Statuses |->
     CASE s = "pending"   -> {"confirmed", "cancelled", "no_show", "completed"}
       [] s = "confirmed" -> {"completed", "cancelled", "no_show"}
       [] OTHER           -> {}]

RoleTransitions ==
  [r \in Roles |->
     CASE r = "admin"  -> Statuses
       [] r = "barber" -> {"confirmed", "completed", "cancelled", "no_show"}
       [] OTHER        -> {"cancelled"}]

-----------------------------------------------------------------------------
(* Appointment rows.  ends is starts plus the duration of the service and  *)
(* of the extras; cancelledAt says whether the column of that name is set. *)
(* Prices, notes and the payment columns decide nothing here.              *)

Rows == [customer : Users, barber : Barbers, starts : Int, ends : Int,
         status : Statuses, cancelledAt : BOOLEAN]

IsOwner(row, viewer) == row.customer = viewer

IsAssignedBarber(row, viewer) == row.barber = viewer

CanView(row, viewer) ==
  \/ Role[viewer] = "admin"
  \/ IsOwner(row, viewer)
  \/ IsAssignedBarber(row, viewer)

\* Fault: the owner may cancel at any time.
CanCancelLate(row, viewer, now) ==
  /\ row.status \in BlockingStatuses
  /\ CanView(row, viewer)

CanCancel(row, viewer, now) ==
  /\ row.status \in BlockingStatuses
  /\ \/ Role[viewer] = "admin"
     \/ IsAssignedBarber(row, viewer)
     \/ IsOwner(row, viewer) /\ row.starts - now >= Cutoff

\* The barber's and the customer's rights reach their own rows only.
HasAuthority(row, viewer) ==
  /\ Role[viewer] = "barber" => IsAssignedBarber(row, viewer)
  /\ Role[viewer] = "customer" => IsOwner(row, viewer)

\* allowed_transitions: what the viewer may do to this row now.
AllowedTransitions(row, viewer, now) ==
  {s \in StatusTransitions[row.status] \cap RoleTransitions[Role[viewer]] :
     /\ HasAuthority(row, viewer)
     /\ s = "cancelled" => CanCancel(row, viewer, now)}
=============================================================================
