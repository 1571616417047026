--------------------------- MODULE SandboxLedger ----------------------------
(***************************************************************************)
(* What the demo promises about a sandbox's allowance, with no word about  *)
(* requests, transactions or counters: an open sandbox holds what its      *)
(* visitor has made since it was opened or refilled, one thing at a time   *)
(* and never more than the allowance.                                      *)
(***************************************************************************)
EXTENDS Naturals

CONSTANTS Sandboxes, Allowance

VARIABLES open,   \* the sandboxes that exist
          used    \* how much of its allowance each has used

ledgerVars == <<open, used>>

LedgerInit ==
  /\ open \subseteq Sandboxes
  /\ used = [s \in Sandboxes |-> 0]

Open(s) ==
  /\ s \notin open
  /\ open' = open \cup {s}
  /\ UNCHANGED used

Use(s) ==
  /\ s \in open
  /\ used[s] < Allowance
  /\ used' = [used EXCEPT ![s] = used[s] + 1]
  /\ UNCHANGED open

Refill(s) ==
  /\ s \in open
  /\ used' = [used EXCEPT ![s] = 0]
  /\ UNCHANGED open

\* Several sandboxes may be closed together; they give everything back.
Shut(closed) ==
  /\ open' = open \ closed
  /\ used' = [s \in Sandboxes |-> IF s \in closed THEN 0 ELSE used[s]]

LedgerNext ==
  \/ \E s \in Sandboxes : Open(s) \/ Use(s) \/ Refill(s)
  \/ \E closed \in SUBSET open : Shut(closed)

LedgerSpec == LedgerInit /\ [][LedgerNext]_ledgerVars
=============================================================================
