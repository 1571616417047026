--------------------------- MODULE MCDemoSandbox ----------------------------
(***************************************************************************)
(* Small instances of DemoSandbox for TLC.                                 *)
(***************************************************************************)
EXTENDS DemoSandbox

CONSTANTS r1, r2, r3,  \* requests
          cron,        \* the cleanup job
          d1, d2       \* sandboxes

\* Three tabs over one sandbox, one of which may start a second one.
TabAsks ==
  [r \in {r1, r2, r3} |->
     CASE r = r1 -> {"book", "configure", "reset"}
       [] r = r2 -> {"start", "read", "configure", "end"}
       [] OTHER  -> {"book", "signup"}]

\* Two visitors who start a sandbox.
StartAsks == [r \in {r1, r2} |-> {"start"}]
=============================================================================
