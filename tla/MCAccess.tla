------------------------------ MODULE MCAccess ------------------------------
(***************************************************************************)
(* Small instances of Access for TLC.                                      *)
(***************************************************************************)
EXTENDS Access

CONSTANTS c1,            \* a client address
          e1,            \* an address to register with
          d1,            \* a sandbox
          admin, customer

\* The limiter on the creation of sandboxes: two per window.
DemoKeys == {"demo"} \X {c1}

TwoEach == [k \in DemoKeys |-> 2]

ThreeTicks == [k \in DemoKeys |-> 3]
=============================================================================
