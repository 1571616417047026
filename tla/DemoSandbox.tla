---------------------------- MODULE DemoSandbox -----------------------------
(***************************************************************************)
(* The demo sandboxes (services/demo_service.py, api/v1/routes/demo.py,    *)
(* api/v1/deps.py) over PostgreSQL: visitors start, use, reset and end a   *)
(* sandbox while the scheduled job scripts/cleanup_demo.py removes the     *)
(* expired ones.                                                           *)
(*                                                                         *)
(* A task is a request or a run of the job, with one transaction.  What it *)
(* has written and not committed is in draft[t], added[t], removed[t] and  *)
(* gone[t].  A request that carries a sandbox token first reads the        *)
(* sandbox's registry row and then updates its idle timer; from that       *)
(* UPDATE on it holds the row's lock until it commits.                     *)
(***************************************************************************)
EXTENDS Integers, FiniteSets

CONSTANTS Requests,     \* HTTP requests, each served once
          Asks,         \* the operations each request may ask for
          Sweeps,       \* runs of the cleanup job, repeated for ever
          Sandboxes,    \* sandbox ids
          Standing,     \* sandboxes that exist before the run
          Ttl,          \* settings.demo_session_ttl_minutes
          IdleTimeout,  \* settings.demo_idle_timeout_minutes
          MaxBookings,  \* settings.demo_max_appointments
          MaxWrites,    \* settings.demo_max_writes
          MaxActive,    \* settings.demo_max_active_sessions
          MaxClock,     \* bound on the clock
          NoSession, NoTask

Tasks == Requests \cup Sweeps

Operations == {"start", "read", "book", "configure", "signup", "reset", "end"}

ASSUME SandboxAssumption ==
  /\ Asks \in [Requests -> SUBSET Operations]
  /\ IsFiniteSet(Requests)
  /\ Requests \cap Sweeps = {}
  /\ Requests \cap Sandboxes = {}
  /\ Standing \subseteq Sandboxes
  /\ Ttl \in Nat \ {0}
  /\ IdleTimeout \in Nat \ {0}
  /\ MaxBookings \in Nat \ {0}
  /\ MaxWrites \in Nat \ {0}
  /\ MaxActive \in Nat \ {0}
  /\ MaxClock \in Nat

ASSUME NoValueAssumption ==
  /\ NoTask \notin Requests \cup Sandboxes
  /\ NoSession \notin [expires : Nat, seen : Nat, booked : Nat, written : Nat]

\* A row of demo_sessions.  revoked is left out: nothing ever sets it.
Sessions == [expires : Nat, seen : Nat, booked : Nat, written : Nat]

\* The tables a sandbox owns rows of, in the order they are purged.  Payments
\* go with appointments, profiles and absences with accounts; the catalogue
\* stands for services, extras and opening hours.
Kinds == {"appointment", "account", "catalog"}

\* Who inserted a row: a request, or whatever made the sandbox before.
Makers == Requests \cup Sandboxes

\* An appointment references an account (ON DELETE RESTRICT).
Rows == [shop : Sandboxes, kind : Kinds, by : Makers, account : Makers,
         seeded : BOOLEAN]

Row(s, k, maker, account, seeded) ==
  [shop |-> s, kind |-> k, by |-> maker, account |-> account, seeded |-> seeded]

SeedCatalog(s, maker) == {Row(s, "catalog", maker, maker, TRUE)}
SeedAppointments(s, maker) == {Row(s, "appointment", maker, maker, TRUE)}

\* seed_sandbox: accounts, a catalogue with hours, appointments among them.
SeedOf(s, maker) ==
  {Row(s, "account", maker, maker, TRUE)}
    \cup SeedCatalog(s, maker) \cup SeedAppointments(s, maker)

VARIABLES clock,
          registry,  \* committed rows of demo_sessions
          rows,      \* committed rows the sandboxes own
          minted,    \* ids that token_urlsafe has drawn
          tokens     \* the tokens handed out: a sandbox and an account

VARIABLES pc,        \* the statement a task is about to send, or its answer
          ask,       \* what the request asks for, or the sandbox being swept
          now,       \* the time it read before its first statement
          queue,     \* the sandboxes a sweep has yet to remove
          draft,     \* the registry row it has inserted or updated
          gone,      \* the registry rows it has deleted
          added, removed,  \* the owned rows it has inserted and deleted
          sent       \* the rows that a DELETE found before it had to wait

\* History: the sandboxes a sweep has removed.
VARIABLE swept

db == <<registry, rows, minted, tokens>>
transaction == <<now, queue, draft, gone, added, removed, sent>>
vars == <<clock, db, pc, ask, transaction, swept>>

Answers == {"ok", "authentication_error", "demo_quota_exceeded",
            "demo_capacity_reached", "conflict", "database_unavailable"}

Steps == {"idle", "count", "create", "resolve", "touch", "admit", "write",
          "purge_appointment", "purge_account", "purge_catalog", "seed",
          "unregister", "commit"}

NoAsk == [op |-> "none", shop |-> NoTask, user |-> NoTask]

TypeOK ==
  /\ clock \in Nat
  /\ registry \in [Sandboxes -> Sessions \cup {NoSession}]
  /\ rows \subseteq Rows
  /\ minted \subseteq Sandboxes
  /\ tokens \subseteq [shop : Sandboxes, user : Makers]
  /\ pc \in [Tasks -> Steps \cup Answers]
  /\ ask \in [Tasks -> [op : Operations \cup {"sweep", "none"},
                        shop : Sandboxes \cup {NoTask},
                        user : Makers \cup {NoTask}]]
  /\ now \in [Tasks -> Nat]
  /\ queue \in [Tasks -> SUBSET Sandboxes]
  /\ draft \in [Tasks -> Sessions \cup {NoSession}]
  /\ gone \in [Tasks -> SUBSET Sandboxes]
  /\ added \in [Tasks -> SUBSET Rows]
  /\ removed \in [Tasks -> SUBSET Rows]
  /\ sent \in [Tasks -> SUBSET Rows]
  /\ swept \subseteq Sandboxes

Init ==
  /\ clock = 0
  /\ registry = [s \in Sandboxes |->
                   IF s \in Standing
                   THEN [expires |-> Ttl, seen |-> 0, booked |-> 0, written |-> 0]
                   ELSE NoSession]
  /\ rows = UNION {SeedOf(s, s) : s \in Standing}
  /\ minted = Standing
  /\ tokens = {[shop |-> s, user |-> s] : s \in Standing}
  /\ pc = [t \in Tasks |-> "idle"]
  /\ ask = [t \in Tasks |-> NoAsk]
  /\ now = [t \in Tasks |-> 0]
  /\ queue = [t \in Tasks |-> {}]
  /\ draft = [t \in Tasks |-> NoSession]
  /\ gone = [t \in Tasks |-> {}]
  /\ added = [t \in Tasks |-> {}]
  /\ removed = [t \in Tasks |-> {}]
  /\ sent = [t \in Tasks |-> {}]
  /\ swept = {}

-----------------------------------------------------------------------------
(* How a task moves on and how it ends.                                    *)

Go(t, step) == pc' = [pc EXCEPT ![t] = step]

\* The session closes and forgets everything it had not committed.
Close(t) ==
  /\ ask' = [ask EXCEPT ![t] = NoAsk]
  /\ now' = [now EXCEPT ![t] = 0]
  /\ queue' = [queue EXCEPT ![t] = {}]
  /\ draft' = [draft EXCEPT ![t] = NoSession]
  /\ gone' = [gone EXCEPT ![t] = {}]
  /\ added' = [added EXCEPT ![t] = {}]
  /\ removed' = [removed EXCEPT ![t] = {}]
  /\ sent' = [sent EXCEPT ![t] = {}]

\* Fault: the session of a failed request is never closed.
FailOpen(t, answer) ==
  /\ Go(t, IF t \in Sweeps THEN "idle" ELSE answer)
  /\ UNCHANGED <<clock, db, ask, transaction, swept>>

\* A failed request answers and a failed sweep waits for its next turn; the
\* transaction is rolled back.
Fail(t, answer) ==
  /\ Go(t, IF t \in Sweeps THEN "idle" ELSE answer)
  /\ Close(t)
  /\ UNCHANGED <<clock, db, swept>>

\* The task goes on to its next statement, having changed nothing but its own
\* transaction.
Continue(t, step) ==
  /\ Go(t, step)
  /\ sent' = [sent EXCEPT ![t] = {}]
  /\ UNCHANGED <<clock, db, swept>>

Alive(session, time) ==
  /\ session # NoSession
  /\ session.expires > time
  /\ session.seen > time - IdleTimeout

Unexpired(s) == registry[s] # NoSession /\ registry[s].expires > clock

\* The lock on the registry row of s, taken by an UPDATE or a DELETE.
Holds(t, s) == (draft[t] # NoSession /\ ask[t].shop = s) \/ s \in gone[t]

Holders(t) == {q \in Tasks \ {t} : Holds(q, ask[t].shop)}

-----------------------------------------------------------------------------
(* Starting a sandbox.                                                     *)

Start(r) ==
  /\ pc[r] = "idle"
  /\ "start" \in Asks[r]
  /\ \E s \in Sandboxes \ minted :
       /\ minted' = minted \cup {s}
       /\ ask' = [ask EXCEPT ![r] = [op |-> "start", shop |-> s, user |-> NoTask]]
  /\ Go(r, "count")
  /\ UNCHANGED <<clock, registry, rows, tokens, transaction, swept>>

\* create_session up to its first statement's result.
Count(r) ==
  /\ pc[r] = "count"
  /\ IF Cardinality({s \in Sandboxes : Unexpired(s)}) >= MaxActive
     THEN Fail(r, "demo_capacity_reached")
     ELSE /\ now' = [now EXCEPT ![r] = clock]
          /\ Continue(r, "create")
          /\ UNCHANGED <<ask, queue, draft, gone, added, removed>>

\* The registry row and the seed, seen by nobody until they are committed.
\* A seed that fails leaves nothing behind.
Create(r) ==
  /\ pc[r] = "create"
  /\ \/ /\ draft' = [draft EXCEPT ![r] =
                       [expires |-> now[r] + Ttl, seen |-> now[r],
                        booked |-> 0, written |-> 0]]
        /\ added' = [added EXCEPT ![r] = SeedOf(ask[r].shop, ask[r].shop)]
        /\ Continue(r, "commit")
        /\ UNCHANGED <<ask, now, queue, gone, removed>>
     \/ Fail(r, "database_unavailable")

-----------------------------------------------------------------------------
(* Requests that carry a sandbox token.                                    *)

Arrive(r) ==
  /\ pc[r] = "idle"
  /\ \E op \in Asks[r] \ {"start"}, token \in tokens :
       ask' = [ask EXCEPT ![r] =
                 [op |-> op, shop |-> token.shop, user |-> token.user]]
  /\ Go(r, "resolve")
  /\ UNCHANGED <<clock, db, transaction, swept>>

\* Fault: get_active looks at expires_at only.
ResolveIdle(r) ==
  /\ pc[r] = "resolve"
  /\ IF Unexpired(ask[r].shop)
     THEN /\ now' = [now EXCEPT ![r] = clock]
          /\ Continue(r, "touch")
          /\ UNCHANGED <<ask, queue, draft, gone, added, removed>>
     ELSE Fail(r, "authentication_error")

\* get_tenant reads the registry row; it keeps the time, not the row.
Resolve(r) ==
  /\ pc[r] = "resolve"
  /\ IF Alive(registry[ask[r].shop], clock)
     THEN /\ now' = [now EXCEPT ![r] = clock]
          /\ Continue(r, "touch")
          /\ UNCHANGED <<ask, queue, draft, gone, added, removed>>
     ELSE Fail(r, "authentication_error")

AfterTouch(r) == IF ask[r].op = "signup" THEN "write" ELSE "admit"

\* Fault: the idle timer is refreshed without waiting for the row's lock, on
\* the row as it is now.
TouchUnlocked(r) ==
  /\ pc[r] = "touch"
  /\ registry[ask[r].shop] # NoSession
  /\ draft' = [draft EXCEPT ![r] = [registry[ask[r].shop] EXCEPT !.seen = now[r]]]
  /\ Continue(r, AfterTouch(r))
  /\ UNCHANGED <<ask, now, queue, gone, added, removed>>

\* get_tenant refreshes the idle timer.  The UPDATE waits for the row lock
\* and applies to the newest version; a row deleted meanwhile makes it match
\* nothing, which SQLAlchemy reports as StaleDataError.
Touch(r) ==
  /\ pc[r] = "touch"
  /\ Holders(r) = {}
  /\ LET session == registry[ask[r].shop]
     IN  IF session = NoSession
         THEN Fail(r, "database_unavailable")
         ELSE /\ draft' = [draft EXCEPT ![r] = [session EXCEPT !.seen = now[r]]]
              /\ Continue(r, AfterTouch(r))
              /\ UNCHANGED <<ask, now, queue, gone, added, removed>>

HasAccount(s, user) ==
  \E x \in rows : x.shop = s /\ x.kind = "account" /\ x.by = user

NeedsAccount(op) == op \in {"read", "book", "configure"}

\* Fault: the check of the quota lets one more through.
WithinQuotaLoose(op, session) ==
  /\ op = "book" => session.booked <= MaxBookings
  /\ op = "configure" => session.written <= MaxWrites

\* The check of register_appointment and of register_write.
WithinQuota(op, session) ==
  /\ op = "book" => session.booked < MaxBookings
  /\ op = "configure" => session.written < MaxWrites

\* Fault: the counters count down.
ChargedDown(op, session) ==
  CASE op = "book"      -> [session EXCEPT !.booked = session.booked - 1]
    [] op = "configure" -> [session EXCEPT !.written = session.written - 1]
    [] OTHER            -> session

Charged(op, session) ==
  CASE op = "book"      -> [session EXCEPT !.booked = session.booked + 1]
    [] op = "configure" -> [session EXCEPT !.written = session.written + 1]
    [] OTHER            -> session

AfterAdmit(op) ==
  CASE op \in {"book", "configure"} -> "write"
    [] op \in {"reset", "end"}      -> "purge_appointment"
    [] OTHER                        -> "commit"

\* What the other dependencies of the route do with the row locked:
\* get_current_user, which every route with a quota has before its guard, the
\* second look at the sandbox in require_demo or in the guards, and the
\* charge.  That second SELECT loads the row afresh, because nothing refers to
\* the object get_tenant had any more.
Admit(r) ==
  /\ pc[r] = "admit"
  /\ LET op == ask[r].op
     IN  IF \/ NeedsAccount(op) /\ ~HasAccount(ask[r].shop, ask[r].user)
            \/ ~Alive(draft[r], clock)
         THEN Fail(r, "authentication_error")
         ELSE IF ~WithinQuota(op, draft[r])
         THEN Fail(r, "demo_quota_exceeded")
         ELSE /\ draft' = [draft EXCEPT ![r] = Charged(op, draft[r])]
              /\ Continue(r, AfterAdmit(op))
              /\ UNCHANGED <<ask, now, queue, gone, added, removed>>

NewRow(r) ==
  LET s == ask[r].shop
  IN  CASE ask[r].op = "book"      -> Row(s, "appointment", r, ask[r].user, FALSE)
        [] ask[r].op = "configure" -> Row(s, "catalog", r, r, FALSE)
        [] OTHER                   -> Row(s, "account", r, r, FALSE)

\* An INSERT of an appointment locks the account it references; it waits for
\* a transaction that is deleting that account.
RemovingAccount(r) ==
  {q \in Tasks \ {r} : \E x \in removed[q] :
     x.shop = ask[r].shop /\ x.kind = "account" /\ x.by = NewRow(r).account}

WriteBlockers(r) == IF ask[r].op = "book" THEN RemovingAccount(r) ELSE {}

\* The operation itself, or a refusal by its own rules (slot taken, name or
\* email in use), which rolls the charge back too.  A row stands for what was
\* done, also where a change updates or deletes one.
Write(r) ==
  /\ pc[r] = "write"
  /\ \/ /\ WriteBlockers(r) = {}
        /\ ask[r].op = "book" => HasAccount(ask[r].shop, NewRow(r).account)
        /\ added' = [added EXCEPT ![r] = {NewRow(r)}]
        /\ Continue(r, "commit")
        /\ UNCHANGED <<ask, now, queue, draft, gone, removed>>
     \/ Fail(r, "conflict")

-----------------------------------------------------------------------------
(* Purging, for reset, end and sweep: one DELETE per table.                *)

PurgeStep(kind) ==
  CASE kind = "appointment" -> "purge_appointment"
    [] kind = "account"     -> "purge_account"
    [] OTHER                -> "purge_catalog"

AfterPurge(t, kind) ==
  CASE kind = "appointment" -> "purge_account"
    [] kind = "account"     -> "purge_catalog"
    [] OTHER -> IF ask[t].op = "reset" THEN "seed" ELSE "unregister"

\* The committed rows a DELETE finds: not those of other transactions.
Targets(t, kind) ==
  {x \in rows \ removed[t] : x.shop = ask[t].shop /\ x.kind = kind}

\* One that had to wait keeps to what it found when it was sent, without what
\* has gone meanwhile: what others commit during its wait it does not see.
Found(t, kind) ==
  IF sent[t] = {} THEN Targets(t, kind) ELSE Targets(t, kind) \cap sent[t]

References(x, account) ==
  /\ account.kind = "account"
  /\ x.kind = "appointment"
  /\ x.shop = account.shop
  /\ x.account = account.by

\* A DELETE waits for a transaction that has deleted one of its rows, or
\* that has inserted a reference to one.
PurgeBlockers(t, kind) ==
  {q \in Tasks \ {t} :
     \/ Found(t, kind) \cap removed[q] # {}
     \/ \E x \in added[q], y \in Found(t, kind) : References(x, y)}

\* A DELETE that has to wait.
Wait(t, kind) ==
  /\ pc[t] = PurgeStep(kind)
  /\ sent[t] = {}
  /\ PurgeBlockers(t, kind) # {}
  /\ sent' = [sent EXCEPT ![t] = Targets(t, kind)]
  /\ UNCHANGED <<clock, db, pc, ask, now, queue, draft, gone, added, removed, swept>>

\* ON DELETE RESTRICT: a committed appointment keeps its account; the check
\* sees what has been committed by now.
Restricted(t, kind) ==
  \E x \in rows \ removed[t], y \in Found(t, kind) : References(x, y)

\* Fault: the appointments are forgotten.
PurgeShort(t, kind) ==
  /\ pc[t] = PurgeStep(kind)
  /\ removed' = [removed EXCEPT ![t] =
                   @ \cup (IF kind = "catalog" THEN {} ELSE Found(t, kind))]
  /\ Continue(t, AfterPurge(t, kind))
  /\ UNCHANGED <<ask, now, queue, draft, gone, added>>

Purge(t, kind) ==
  /\ pc[t] = PurgeStep(kind)
  /\ PurgeBlockers(t, kind) = {}
  /\ IF Restricted(t, kind)
     THEN Fail(t, "conflict")
     ELSE /\ removed' = [removed EXCEPT ![t] = @ \cup Found(t, kind)]
          /\ Continue(t, AfterPurge(t, kind))
          /\ UNCHANGED <<ask, now, queue, draft, gone, added>>

\* Fault: a reset gives back the bookings only.
SeedHalf(r) ==
  /\ pc[r] = "seed"
  /\ added' = [added EXCEPT ![r] = SeedOf(ask[r].shop, r)]
  /\ draft' = [draft EXCEPT ![r].booked = 0, ![r].seen = clock]
  /\ Continue(r, "commit")
  /\ UNCHANGED <<ask, now, queue, gone, removed>>

\* reset_demo_session: seed_sandbox, then reset_counters.
Seed(r) ==
  /\ pc[r] = "seed"
  /\ added' = [added EXCEPT ![r] = SeedOf(ask[r].shop, r)]
  /\ draft' = [draft EXCEPT ![r].booked = 0, ![r].written = 0, ![r].seen = clock]
  /\ Continue(r, "commit")
  /\ UNCHANGED <<ask, now, queue, gone, removed>>

\* Fault: the rows go, the registry row stays.
UnregisterNothing(t) ==
  /\ pc[t] = "unregister"
  /\ queue' = [queue EXCEPT ![t] = {}]
  /\ Continue(t, "commit")
  /\ UNCHANGED <<ask, now, draft, gone, added, removed>>

\* end_session deletes the registry row last.  A sweep goes on to its next
\* sandbox in the same transaction.
Unregister(t) ==
  /\ pc[t] = "unregister"
  /\ Holders(t) = {}
  /\ gone' = [gone EXCEPT ![t] = @ \cup {ask[t].shop}]
  /\ IF queue[t] = {}
     THEN Continue(t, "commit") /\ UNCHANGED <<ask, queue>>
     ELSE /\ \E s \in queue[t] :
               /\ ask' = [ask EXCEPT ![t].shop = s]
               /\ queue' = [queue EXCEPT ![t] = @ \ {s}]
          /\ Continue(t, "purge_appointment")
  /\ UNCHANGED <<now, draft, added, removed>>

\* cleanup_expired: the sandboxes past their TTL, whatever their idle timer.
Sweep(t) ==
  /\ t \in Sweeps
  /\ pc[t] = "idle"
  /\ LET expired == {s \in Sandboxes : registry[s] # NoSession
                                       /\ registry[s].expires <= clock}
     IN  \E s \in expired :
           /\ ask' = [ask EXCEPT ![t] =
                        [op |-> "sweep", shop |-> s, user |-> NoTask]]
           /\ queue' = [queue EXCEPT ![t] = expired \ {s}]
  /\ Continue(t, "purge_appointment")
  /\ UNCHANGED <<now, draft, gone, added, removed>>

-----------------------------------------------------------------------------
(* The end of a transaction.                                               *)

\* The tokens an answer carries: start and reset issue one for an account of
\* the new seed, switching persona one for any account with the role.
Issued(t) ==
  CASE ask[t].op \in {"start", "reset"} ->
         {[shop |-> x.shop, user |-> x.by] : x \in
            {y \in added[t] : y.kind = "account"}}
    [] ask[t].op = "read" ->
         {[shop |-> x.shop, user |-> x.by] : x \in
            {y \in rows : y.shop = ask[t].shop /\ y.kind = "account"}}
    [] OTHER -> {}

Commit(t) ==
  /\ pc[t] = "commit"
  /\ registry' = [s \in Sandboxes |->
                    IF s \in gone[t] THEN NoSession
                    ELSE IF draft[t] # NoSession /\ ask[t].shop = s THEN draft[t]
                    ELSE registry[s]]
  /\ rows' = (rows \ removed[t]) \cup added[t]
  /\ tokens' = tokens \cup Issued(t)
  /\ swept' = IF t \in Sweeps
              THEN swept \cup {s \in gone[t] : registry[s] # NoSession}
              ELSE swept
  /\ Go(t, IF t \in Sweeps THEN "idle" ELSE "ok")
  /\ Close(t)
  /\ UNCHANGED <<clock, minted>>

\* PostgreSQL breaks a cycle of waits by aborting one of its members.
WaitsFor(t) ==
  CASE pc[t] \in {"touch", "unregister"} -> Holders(t)
    [] pc[t] = "purge_appointment"       -> PurgeBlockers(t, "appointment")
    [] pc[t] = "purge_account"           -> PurgeBlockers(t, "account")
    [] pc[t] = "purge_catalog"           -> PurgeBlockers(t, "catalog")
    [] pc[t] = "write"                   -> WriteBlockers(t)
    [] OTHER                             -> {}

\* Those t waits for through at most n others.
Behind(t) ==
  LET behind[n \in Nat] ==
        IF n = 0 THEN WaitsFor(t)
        ELSE behind[n - 1] \cup UNION {WaitsFor(q) : q \in behind[n - 1]}
  IN  behind

WaitsInCycle(t) ==
  /\ WaitsFor(t) # {}
  /\ t \in Behind(t)[Cardinality(Tasks)]

DeadlockVictim(t) ==
  /\ WaitsInCycle(t)
  /\ Fail(t, "database_unavailable")

Tick ==
  /\ clock < MaxClock
  /\ clock' = clock + 1
  /\ UNCHANGED <<db, pc, ask, transaction, swept>>

\* The only state that may stop: everybody answered, nothing left to sweep.
AllServed ==
  /\ \A r \in Requests : pc[r] \in Answers \cup {"idle"}
  /\ \A t \in Sweeps : pc[t] = "idle"
  /\ clock = MaxClock
  /\ \A s \in Sandboxes : registry[s] # NoSession => registry[s].expires > clock
  /\ UNCHANGED vars

Serve(t) ==
  \/ t \in Requests /\ (Count(t) \/ Create(t) \/ Resolve(t) \/ Touch(t)
                        \/ Admit(t) \/ Write(t) \/ Seed(t))
  \/ Sweep(t)
  \/ \E kind \in Kinds : Wait(t, kind) \/ Purge(t, kind)
  \/ Unregister(t)
  \/ Commit(t)
  \/ DeadlockVictim(t)

Next ==
  \/ \E r \in Requests : Start(r) \/ Arrive(r)
  \/ \E t \in Tasks : Serve(t)
  \/ Tick
  \/ AllServed

Spec == Init /\ [][Next]_vars

\* The event loop resumes a task whose statement returned, and PostgreSQL
\* answers a statement nothing blocks; a lock that is released goes to those
\* who wait for it before the cleanup job, which runs every ten minutes
\* (README, "Known limitations"), can come back for it.  Nothing is assumed
\* of visitors or of time.
FairSpec == /\ Spec
            /\ \A r \in Requests : SF_vars(Serve(r))
            /\ \A t \in Sweeps : WF_vars(Serve(t))

-----------------------------------------------------------------------------
(* Properties.                                                             *)

\* What the visitor of s has made, as the committed rows show it.
Made(s, kind) ==
  {x \in rows : x.shop = s /\ x.kind = kind /\ ~x.seeded}

\* Every booking and every change of a sandbox is charged exactly once, and a
\* refused or rolled back one is not: the counters that the guards compare
\* with the caps agree with the rows, whatever the requests that charge,
\* reset and end interleave.
LedgerExact ==
  \A s \in Sandboxes :
    registry[s] # NoSession =>
      /\ registry[s].booked = Cardinality(Made(s, "appointment"))
      /\ registry[s].written = Cardinality(Made(s, "catalog"))

\* Counted by its rows, a sandbox behaves as an allowance that is used one by
\* one, refilled and given back.  (README: "per-sandbox caps on bookings and
\* configuration changes"; "reset reseeds in place".)
Open == {s \in Sandboxes : registry[s] # NoSession}

Used(kind) ==
  [s \in Sandboxes |-> IF s \in Open THEN Cardinality(Made(s, kind)) ELSE 0]

Bookings == INSTANCE SandboxLedger
              WITH Allowance <- MaxBookings,
                   open <- Open,
                   used <- Used("appointment")

Changes == INSTANCE SandboxLedger
             WITH Allowance <- MaxWrites,
                  open <- Open,
                  used <- Used("catalog")

KeepsBookingQuota == Bookings!LedgerSpec
KeepsWriteQuota == Changes!LedgerSpec

CommitsNow(t) == pc[t] = "commit" /\ pc'[t] \in {"ok", "idle"}

\* A reset hands back the sandbox as it was seeded, with its whole allowance:
\* nothing made before survives, and a request under way does not leak in.
ResetIsClean ==
  [][\A r \in Requests :
       LET s == ask[r].shop
       IN  CommitsNow(r) /\ ask[r].op = "reset" =>
             /\ {x \in rows' : x.shop = s} = SeedOf(s, r)
             /\ registry'[s].booked = 0
             /\ registry'[s].written = 0]_vars

\* Ending a sandbox never leaves a row (README: "ending a session deletes every
\* row it owns").  The sweep is excepted: a request still writing when its
\* sandbox expires commits into a table that has been purged.
OrphansOnlyFromSweep ==
  \A x \in rows : registry[x.shop] = NoSession => x.shop \in swept

\* A request is using s: it has been let in and has not finished.
InUse(s) == \E r \in Requests :
              ask[r].shop = s /\ pc[r] \notin {"idle", "resolve"} \cup Answers

\* A sandbox that lapses with no request under way never comes back to life.
\* (README: "a sandbox stops working the moment it lapses".)
Lapsed(s) == registry[s] # NoSession /\ ~Alive(registry[s], clock) /\ ~InUse(s)

LapseIsFinal ==
  [][\A s \in Sandboxes :
       Lapsed(s) => ~Alive(registry[s], clock)' /\ ~InUse(s)']_vars

\* The sandboxes whose TTL has not passed never exceed the global cap.
\* (README: DEMO_MAX_ACTIVE_SESSIONS "is enforced with a database count, so
\* it holds regardless of replica count".)
CapHolds == Cardinality({s \in Sandboxes : Unexpired(s)}) <= MaxActive

\* Again and again no expired sandbox is left, although a sweep that fails
\* takes back everything it had removed.
ExpiredIsRemoved ==
  []<>(\A s \in Sandboxes : registry[s] # NoSession => registry[s].expires > clock)

\* No visitor waits for ever behind a row lock: again and again everybody who
\* has asked has been answered.
EveryVisitorAnswered ==
  []<>(\A r \in Requests : pc[r] \in Answers \cup {"idle"})
=============================================================================
