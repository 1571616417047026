-------------------------- MODULE MCBookingWizard ---------------------------
(***************************************************************************)
(* A small instance of BookingWizard for TLC: the real shop with a short   *)
(* and a long service, two fillings of a sandbox, two barbers, two days.   *)
(***************************************************************************)
EXTENDS BookingWizard, TLC

CONSTANTS real, d1, d2,   \* shops
          short, long,    \* services of the real shop
          demo,           \* a service of the sandbox, before it is reset
          wash,           \* an extra
          ana, leo,       \* barbers
          mon, tue        \* days

Belongs == (short :> real) @@ (long :> real) @@ (demo :> d1)

Times == [barber : {ana, leo}, day : {mon, tue}, late : BOOLEAN]

\* Customers may ask for leo or for any barber, and get ana in that case.
\* The late start is too late for a long appointment and for ana; on tuesday
\* leo is off.
\* When any barber will do, a start is listed once, for the first of them.
Free(service, extras, day, barber, late) ==
  /\ late => service # long /\ extras = {} /\ barber = leo
  /\ barber = leo => day = mon

Listed ==
  [c \in (Services \X (SUBSET Extras) \X (Barbers \cup {None}) \X Dates) |->
     {t \in Times : /\ t.day = c[4]
                    /\ Free(c[1], c[2], t.day, t.barber, t.late)
                    /\ IF c[3] = None
                       THEN t.barber = leo => ~Free(c[1], c[2], t.day, ana, t.late)
                       ELSE t.barber = c[3]}]
=============================================================================
