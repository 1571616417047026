---------------------------- MODULE MCSlotSearch ----------------------------
(***************************************************************************)
(* Every combination of opening hours, duration, horizon and at most two   *)
(* occupied intervals on a day of six units.                               *)
(***************************************************************************)
EXTENDS SlotSearch, FiniteSets

MCOffset == -2

\* Local day 0 is the instants 2 to 7.
MCBusy ==
  {b \in SUBSET {Interval(1, 3), Interval(3, 4), Interval(4, 7), Interval(6, 9)} :
     Cardinality(b) <= 2}

MCHours ==
  {[opens |-> o, closes |-> c] : o \in {0, 1}, c \in {3, 5, 6}}

MCQueries ==
  {[day |-> d, hours |-> h, duration |-> n, busy |-> b, horizon |-> z] :
     d \in {0, 1}, h \in MCHours, n \in 0 .. 3, b \in MCBusy,
     z \in {Interval(0, 20), Interval(4, 5), Interval(6, 3)}}
=============================================================================
