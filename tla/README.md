# Verification of the BarberApp booking system

TLA+ models of the BarberApp back end (FastAPI, SQLAlchemy over PostgreSQL) and
of the stateful part of its Next.js front end, the session and the booking
wizard; the TLC runs that check them on small instances; and TLAPS proofs of
what matters most. Source paths below are relative to the repository.

Contents: [1 inventory](#1-inventory), [2 plan](#2-plan),
[3 what is modelled](#3-what-is-modelled), [4 runs](#4-runs),
[5 proofs](#5-proofs), [6 findings](#6-findings),
[7 limits](#7-what-is-not-covered).

## 1. Inventory

How the parts fit: an HTTP request becomes one asyncio task with one database
session (`backend/db/session.py`, `get_db`), committed after the endpoint
returns and before the response is sent. Dependencies resolve the tenant and
the user (`auth/jwt_config.py`) and charge the demo quota (`api/v1/deps.py`);
then one service runs its statements. Tasks share nothing in memory but two
rate-limit counters; they interact through PostgreSQL at READ COMMITTED. Hence
the hard behaviour is that of *statements of several sessions interleaving*:
what one request read may no longer hold when it writes.

| Component | State it keeps | Operations | Correct when |
|---|---|---|---|
| Availability engine: `services/availability.py`, `availability_service.py` | none (pure); reads hours, absences, appointments | `get_availability`, `available_starts` | it offers exactly the grid starts at which every instant of the appointment is open and free; the local day it looks at contains the appointment |
| Booking: `services/booking_service.py` | `appointments` rows | `create_appointment` (customer, admin) | a committed booking obeys every rule; no barber has two active appointments at once |
| Appointment lifecycle: `appointment_service.py`, `appointment_view.py`, `models/enums.py` | `status`, `cancelled_at` | `update_status`, `search`, `get_for_viewer` | rows move along the state machine only, by viewers with the right to; terminal states are final |
| Schedule: `schedule_service.py` | `business_hours`, `barber_time_off` | replace hours, create and delete an absence | one row per weekday, absences of one barber disjoint |
| Catalogue and staff: `catalog_service.py`, `user_service.py` | services, extras, barber profiles, `is_active` | create, update, deactivate | names that a look can find are taken once, races apart; inactive things cannot be booked |
| Accounts: `auth_service.py`, `auth/` | users, bearer tokens | register, login, resolve user and tenant | one account per email; a token reaches only its own tenant |
| Tenancy: `core/tenancy.py`, `repositories/base.py` | `shop_id` on every row | `scoped`, `owned`, `stamped` | no request reads or writes another shop's rows |
| Demo sandbox: `demo_service.py`, `demo_seed.py`, `api/v1/deps.py` | `demo_sessions`: expiry, idle timer, counters | create, reset, end, cleanup, quota charges | live sandboxes and quotas stay within their caps; an ended sandbox leaves no row behind |
| Rate limiting: `middleware/rate_limit.py` | hits per key in a sliding window | `check` | never more than the allowance in any window; waiting as told is enough |
| Error envelope: `middleware/exception_handler.py` | none | exception to status and code | every failure has the documented code |
| Dashboard: `dashboard_service.py` | none | aggregates | read-only |
| Storage: Alembic revisions | exclusion constraint, unique keys, cascades | | the last word on overlaps |
| Front end: wizard (`features/booking/`), session (`store/session-store.ts`, `lib/api-client.ts`), pages | chosen service, extras, barber, slot; the session's token; cached answers | pick, back, submit, sign in and out, start, reset and end the demo | a slot is never submitted with choices it was not offered for; what is listed belongs to the shop one is in |
| Scripts: `scripts/cleanup_demo.py`, `init_dev.py`, `create_user.py` | none of their own | sweep expired sandboxes; fill an empty database; create an account | they may run while requests do |

Interactions: booking, availability and lifecycle meet in the `appointments`
table and its exclusion constraint; schedule and catalogue change facts a booking
has already read; demo reset, end and cleanup delete rows under requests that
use them; the front end shows slots that may be taken before it submits them.
The hazards these produce are listed in `PROJECT.json`, each at its line.

## 2. Plan

Most important behaviour first. All of it is done, except where item 9 says so.

1. `Availability`, `Lifecycle`: the pure rules as operators, parameters as
   constants with assumptions, no recursion (both are used in proofs).
2. `SlotSearch`: the slot loops step by step against `Availability`.
3. `Booking`: the requests over the database, composing 1; `Agenda`, the
   abstract specification it implements; runs `booking_*`.
4. `BookingProofs` (type correctness, the inductive invariant, no double booking),
   `TransitionProofs` (transitions, implementation of `Agenda`, re-validation),
   `SlotSearchProofs` (the arithmetic and the loops).
5. `DemoSandbox`: start, use, charge, reset, end and sweep over the registry and
   what the sandboxes own; `SandboxLedger`, the allowance it implements.
6. `BackOffice`: everything else that looks before it writes: names, accounts,
   profiles, opening hours, absences, and the scripts that do the same.
7. `RateLimiter`: the sliding window and its advice.
8. `Access`: accounts, tokens, tenants, personas, the life of a sandbox, composed
   with `RateLimiter`.
9. `BookingWizard`: the session, the query cache and the wizard of one tab. Answers
   to a session that has been replaced meanwhile, and a second tab over the same
   storage, are left.
10. A proof module for each of 5 to 9.

## 3. What is modelled

### Availability and SlotSearch

Instants are integers; `UtcOffset` turns an instant into the shop's wall clock.
`Overlaps`, `DayBounds`, `OpeningWindow`, `SlotStarts`, `IsFree`,
`AvailableStarts` are the functions of `services/availability.py` and the day
arithmetic of `AvailabilityService`, as sets. The offset is constant: daylight
saving changes are not modelled (the default zone, Buenos Aires, has none).
`SlotSearch` is the same computation as the program does it, the `while` of
`generate_slot_starts` and the `for` of `filter_available_starts`, one iteration
per action. `SearchAssumption` gives every busy interval a positive length, as the
check constraints of the two tables do (`models/appointment.py:62`,
`models/schedule.py:67`): for an empty interval inside another the comparison in
`TimeRange.overlaps` answers yes although no instant is shared, so
`OffersExactlyTheFreeStarts` would not follow.

### Lifecycle

`StatusTransitions`, `RoleTransitions`, `CanView`, `CanCancel` and
`AllowedTransitions` are the tables of `models/enums.py` and the functions of
`services/appointment_view.py`. A row keeps customer, barber, times, status and
whether `cancelled_at` is set; prices, notes and payment fields decide nothing.

### Booking

| Model | Code |
|---|---|
| `pc[r]` | the statement request r is about to send, or its answer |
| `appointments`, `absences`, `active` | committed rows |
| `write[r]` | what r's transaction has written and not committed |
| `busy[r]`, `seen[r]`, `ask[r]` | local variables: intervals collected, row read, payload |
| `arrived`, `standing` | history: when r arrived, and the absences and inactive things that have stood without a break ever since |
| `BookArrives`, `CheckParties`, `ReadAppointments`, `ReadAbsences`, `Insert` | `create_appointment` and `_assert_slot_bookable`, `collect_busy`'s two SELECTs apart |
| `PassCheck`, `FailCheck`, `DeadlockVictim` | the exclusion constraint inside the INSERT or UPDATE |
| `Commit`, `Lose` | `get_db`: commit, or rollback when the connection fails |
| `MoveArrives`, `ReadRow`, `Update` | `update_status`: the SELECT with all its checks, then `UPDATE ... WHERE id` |
| `BlockArrives`, `CheckOverlap`, `StoreAbsence`, `RemoveAbsence` | `create_time_off`, `delete_time_off` |
| `Toggle` | `update_barber`, `update_service`, `update_extra` with `is_active` |

What happens between two `await`s is one action. The four single-row reads at
the start of a booking are independent and make one action. PostgreSQL is
external and modelled from how the code uses it: a SELECT sees committed rows
only; an UPDATE waits for the row lock and then applies its changed columns to
the newest version; an exclusion check runs *after* the row is in the table,
fails on a committed conflict, waits for an uncommitted one, and a cycle of
waits is broken by aborting one of its members. A failed transaction leaves
nothing (`Close`). SQLite, the development database, has no such constraint and
is not modelled. An insert whose status is final needs no check, because the
constraint covers active rows only.

### Agenda

What a user may rely on: an appointment keeps its barber and time for ever,
takes the place only when it is free, and gives it up. `KeepsAgenda` says that
the committed rows of `Booking` implement it; a place taken back after a stale
transition is allowed there, but only when it is still free.

### DemoSandbox and SandboxLedger

| Model | Code |
|---|---|
| `registry`, `rows` | committed rows of `demo_sessions`, and of the tables a sandbox owns; `appointment` includes payments, `account` profiles and absences, `catalog` services, extras and hours |
| `minted`, `tokens` | sandbox ids drawn; tokens handed out |
| `pc[t]`, `ask[t]`, `now[t]`, `queue[t]` | the statement a request or sweep is about to send, its payload, the time it has read, the sandboxes a sweep has yet to remove |
| `draft`, `gone`, `added`, `removed` | what its transaction has written and not committed |
| `sent[t]` | the rows that a DELETE had found when it had to wait |
| `swept` | history: the sandboxes a sweep has removed |
| `Start`, `Count`, `Create` | `start_demo_session`, `create_session` up to its seed |
| `Arrive`, `Resolve`, `Touch` | `get_tenant`: the token, the SELECT of the session, the UPDATE of its idle timer |
| `Admit` | `get_current_user`, `require_demo` or the guards of `api/v1/deps.py`: the account, the cap, the charge |
| `Write` | the request's own work: a booking, a configuration change, a sign-up |
| `Wait`, `Purge`, `Seed`, `Unregister` | `purge_session_data` table by table, `reset_demo_session`, `end_session` |
| `Sweep` | `cleanup_expired`, which goes through `Purge` and `Unregister` for each sandbox |
| `Commit`, `Fail`, `DeadlockVictim` | the end of the transaction |

What the quota rests on deserves a word. SQLAlchemy's identity map holds rows
weakly, and the object `get_tenant` loads is unreferenced when it returns. The
guard's SELECT therefore loads the row anew, under the row lock that the
idle-timer UPDATE has taken; a charge never works on a stale counter
(`LedgerExact`). A purge does not take that lock: a reset or an end does, because it
is a request, but a sweep takes it only with its last DELETE. That is why
`OrphansOnlyFromSweep` excepts sandboxes that a sweep removed: a request still writing
when its sandbox expires may commit into a table that has been purged already, and no
later sweep looks for the row.
A DELETE works on the snapshot it was sent with: one that has to wait (`Wait`) removes
afterwards what it had found then and is still there, and nothing that was committed
during its wait; the check of a foreign key, which runs last, does see it (`Restricted`).
`count_active` and `list_expired` ignore the idle timer, as the model does. A
timer may be set to a time older than the one it replaces, because the time is
read before the UPDATE waits; `LapseIsFinal` is about sandboxes that lapse with
no such request under way. "configure" stands for every charged configuration change,
its row for what
was done even where a change updates or deletes one; "read" stands for every request
without a charge. `revoked` and `users.is_active` are never set
by any code and are left out. A foreign key that refuses is answered `conflict`;
a lost row and a deadlock `database_unavailable`. A sweep that fails is tried again
ten minutes later, without a new run of the model.

`SandboxLedger` is what a visitor is promised: an allowance used one by one,
refilled by a reset, given back with the sandbox. `KeepsBookingQuota` and
`KeepsWriteQuota` say that the rows implement it, once for each of the two caps.

### RateLimiter and Access

`RateLimiter` is `SlidingWindowCounter.check` for any number of keys, with its clock
in ticks, several to a second, so that the rounding of `Retry-After` shows. `admitted`
and `advice` are history. An allowance of 0, which the settings of the credential endpoints
do not rule out, lets nobody in; the code then looks for the oldest hit of none and fails
with an `IndexError`, which `Refuse` keeps as a refusal without advice. Keys are never
removed, as in the code; `Restart` is a new
process, which forgets the hits.

`Access` extends it. A handler is one step here, since its inside is in
`DemoSandbox` and `BackOffice`; what interleaves are whole requests, the clock, the
cleanup job and restarts.

| Model | Code |
|---|---|
| `accounts`, `registry` | `users`, `demo_sessions` |
| `tokens` | every token issued, its user, shop claim, time of issue and expiry |
| `Decodes`, `Claim`, `TenantOf`, `ActsAs` | `decode_token`, `get_tenant`, `get_current_user` |
| `Register`, `Login`, `TokenForm` | `routes/auth.py`; `/auth/token` is under no limiter's prefix |
| `Start`, `SwitchRole`, `Reset`, `End`, `CleanUp` | `routes/demo.py`, `cleanup_expired` |
| `Me` | any endpoint that needs an account |

Both counters are optional in the settings, hence `Limited`. A registration or login
under a demo token works on the sandbox's accounts but returns a token without
a shop claim; such a token acts as nobody (`ActsInsideItsShop`). `SignupStaysInSandbox` is
stated for living tokens: an expired one is ignored by `get_tenant`, so a sign-up
with it makes a real account (`README.md:60` speaks of "holding" a token).
A token is good to the end of the second in which it expires, because the library
compares whole seconds and refuses what lies in the past only; a tick is such a unit for
`Decodes`. `VisitorsKeepAccess` is about every token of a sandbox, not the first alone: as
long as the sandbox works and the token's own lifetime (`TokenLife` from its issue) has not
passed, it opens the sandbox. The settings allow a sandbox of 240 minutes with tokens of
60; a visitor who neither switches nor resets is then locked out of a working sandbox
after an hour, which the property does not deny. A persona is any account of its role, the
code's choice being the first by email.

### BackOffice

A task has a job, a list of targets, and for each target looks for what is stored
and then adds, updates or removes. The kinds of target:

| Kind | Code |
|---|---|
| `add` | `create_service`, `create_extra`, `create_barber`, `register`, `create_time_off`, `create_user.py` |
| `rename` | `update_service`, `update_extra` with a name |
| `replace` | `replace_business_hours` |
| `remove` | `delete_time_off` |
| `ensure`, `seed` | the two ways `init_dev.py` fills what is missing |

PostgreSQL's unique keys are `Collides`: `users.email` over all shops, one profile
per account, one weekday per shop *unless the shop is the real one*, whose `shop_id`
is NULL and equal to nothing. `Update` writes only the columns that differ from
the loaded row, which is what SQLAlchemy sends. Reading the row that a rename names
and looking for its new name make one step. The absence repository has no tenant
filter; `WritesStayInShop` exempts absences and says so. A day may be closed, and only an
open one must open before it closes (`Fits`). Prices, texts and phone numbers are left out.
Updating a weekday that has been stored twice fails (`MultipleResultsFound`). A seed looks
once for a table and then puts in all its rows (`Seeding`). An absence is removed only
under the barber it belongs to (`Owner`); under which barber's path is up to the request.

What a look finds is a constant, `Finds`, because it is not equality. `name_exists` uses
the name as an ILIKE pattern (`repositories/catalog.py:56`, `:110`): it finds every
spelling, a name with `%` or `_` finds others, and one with a backslash does not even
find itself. Windows find those they overlap. `Blank` is the name that is left of
two spaces, which pass the length check before they are trimmed; a rename to it skips the
look (`catalog_service.py:62`, `:102`). Hence what `DuplicatesOnlyFromRaces` says and
does not say: two rows that *find one another* come from transactions that overlapped,
while the empty name, and any name no look finds, can be stored twice one after the
other. It exempts pairs that are both stored from the start, too: the tables have no
constraint that would rule them out.

### BookingWizard

| Model | Code |
|---|---|
| `session`, `lapsed` | `session-store.ts`; `expiresAt` has passed |
| `menu`, `fresh`, `fetching` | the cached answer of the query `["services", "public"]`, `staleTime`, a fetch under way, each with the shop that answers it |
| `form` | `BookingState` |
| `list`, `asked` | the availability query of the current choices |
| `sent`, `confirmed` | `handleConfirm` between `await` and answer; the success screen |
| `SelectService` to `SelectSlot`, `JumpTo`, `Back`, `Forward` | the setters of `useBookingState` as the four steps, the stepper and the footer call them |
| `Confirm`, `Accepted`, `Refused` | `handleConfirm` |
| `StartDemo`, `Reset`, `ChangeRole`, `LeaveDemo`, `SignIn`, `SignOut`, `Reload` | the handlers that replace the session, each with its request |

TanStack Query is external: a query with fresh data is not fetched when a page
appears, a fetch under way is shared, an invalidated query is fetched again if it is
on the screen. A reset gives every row a new id, so the model counts it as another
sandbox. The login page may be opened inside a demo (nothing asks for a session there),
and a login replaces the sandbox's session by one whose token names no shop. Cached
start times are over-approximated: any choice may find its answer
in the cache. `Offer` stands for what availability may answer, which is
`Availability`'s subject; the wizard adds that a start is listed once when any
barber will do.

## 4. Runs

| Run | Question | Distinct states |
|---|---|---|
| `booking_race` | Three bookings of overlapping times, one barber, all interleavings: no double booking; every request is answered; a time raced for ends up taken | 11 thousand |
| `booking_day` | A booking, two absences stored, one removed, a switch: does what commits respect everything that stood since the request arrived? | 374 thousand |
| `booking_moves` | Two transitions by any viewers and a booking for the same time: `BookingInv`, `TransitionInv`, `cancelled_at`, the agenda, lawful moves, final states lost only in a race | 300 thousand |
| `booking_terminal` | Are terminal states final? **Violated** (section 6) | stops at a trace of 11 states |
| `booking_loser` | Is the loser of a race told `slot_unavailable`? **Violated** | stops early |
| `slot_search` | Do the loops end, agree with the operator, and offer exactly the free starts? | 9 thousand |
| `demo_sandbox` | Three tabs and the cleanup job over one sandbox, and another being started: are counters rows, are quotas an allowance, is a reset clean, a lapse final, an expired sandbox removed, everybody answered? | 221 thousand |
| `demo_cap` | Does the cap on live sandboxes hold? **Violated** | stops early |
| `access` | Registration, logins, sandboxes, personas, restarts: do tokens, tenants, accounts and the limiter agree? | 386 thousand |
| `backoffice` | Three tasks out of eighteen jobs over two shops: what does looking first prevent, what only the unique keys, and do deadlocks end? | 321 thousand |
| `booking_wizard` | Back and forth in the wizard, late failures, resets: is what is submitted what was offered for it? | 978 thousand |
| `wizard_shop` | Is a demo visitor shown the sandbox's services? **Violated** | stops early |

Bounds of the booking runs. `Requests`: three bookings are the fewest that show a
cycle of waits with a bystander; two transitions and one booking are the fewest that
lose a final status, free the slot, let it be booked and try to take it back. Day:
six units, a wall clock two units behind UTC, so that an absence may lie in the
local day and outside the UTC day of the same number, and the day after is closed.
`Starts` include one before opening, one after the last start that fits and one on
the closed day. `MaxClock` lets the clock tick once, enough to cross the lead time
and the cancellation cutoff (`Cutoff` is set so that the seeded appointment is at
the cutoff when the clock is 0). `Aborting` names the request whose connection may
fail. `booking_moves` uses symmetry between the two transitions; it checks no
liveness. `SlotSearch` stops when its answer is ready, so deadlock is not checked
there; in `Booking`, `DemoSandbox` and `BackOffice` the action `AllServed` marks the
only state that may stop, and deadlock is checked.

Bounds of the others. `demo_sandbox`: every cap is 1, so that the first charge fills
it; two writers, an end and a sweep are what it takes to have a purge meet a writer on
each side; the clock goes to 3, past a sandbox's life (3) and idle time (2).
`access`: one client and one sandbox besides the real shop, two starts in three
ticks, three draws of account ids, three tokens, a clock up to 5, which is one past a
sandbox's life (4); a token's life (3) is shorter, so that the lock-out above is in the run
and a reissued token is clamped by either. Only the counter of sandbox creation is on,
because with both the
product of their windows drowns what the run is about; `AccessImplementsLimiter` covers
every choice. Clock and ids run out, so deadlock is not checked. `backoffice`: two
weekdays suffice for opposite lock orders, three tasks for a cycle with a
bystander; hours 1 to 3 have every way of mixing two days, one of them closed and turned
round; of the names one is a plain one, two find one another, one finds nothing and one
is empty. `booking_wizard`: two
services of different length, an extra, "any barber" or one of two, two days, two
fillings of one sandbox (a reset needs two).

Fairness. `FairSpec` of `Booking` is weak fairness of `Serve(r)` for each request:
the event loop resumes a task whose statement returned, and PostgreSQL answers a
statement nothing blocks, the deadlock detector included. Nothing is assumed of
clients, of failing connections or of the clock. `SlotSearch` is a synchronous
function, hence weak fairness of its next step. In `DemoSandbox` and `BackOffice` the
fairness of a request is strong: a statement that waits for a row lock is enabled
again and again while others take and release it, and PostgreSQL queues the
waiters of a lock, so that each gets its turn. The cleanup job has weak fairness: it is
started every ten minutes for ever, and `ExpiredIsRemoved` is the only property that
uses it.

Faults. Operators marked *Fault* in the modules (for instance
`NoConflictCommitted`, `DayBoundsNaive`) are plausible bugs of the definition that
follows them. Nothing uses them in the specifications; each property has been seen
to fail with one of them in its place (`PROJECT.json`, "mutants").

## 5. Proofs

All theorems hold for every value of the constants that meets the named assumptions:
`AvailabilityAssumption`, `LifecycleAssumption`, `BookingAssumption`,
`SeedAssumption`, `NullAssumption` for bookings; `SearchAssumption` for the slot loops;
`SandboxAssumption`,
`NoValueAssumption` for sandboxes; `LimiterAssumption`, `AccessAssumption`,
`NullsAreNoRows` for access;
`BackOfficeAssumption`, `JobAssumption`, `StoredAssumption` for the back office;
`WizardAssumption` for the wizard. TLC evaluates them on every run. So the theorems speak
of any number of requests, users, sandboxes, keys, services, and of any settings,
where a run speaks of three or four.

`BookingProofs`:

- `TypeCorrect`: `Spec => []TypeOK`,
- `BookingInvariant`: `Spec => []BookingInv`,
- `NoDoubleBookingHolds`: `Spec => []NoDoubleBooking`.

`NoDoubleBooking` is not inductive: a commit keeps it only because of what the
check has found and nobody has spoilt since. `BookingInv` adds

- `RequestShape`: what a request carries fits the statement it is at;
- `OneWriter`: a transaction writes its own new row or an existing one, and no two
  write the same row (the row lock);
- `CheckHolds`: a transaction past the check clashes with no committed row other
  than the one it replaces, and with no other transaction past the check.

`CheckHolds` survives `PassCheck` because that step finds neither a committed
conflict nor a rival under way, survives `Commit` because the committed row is one of
those it already speaks of, and survives the rest because they write no
appointment. The proof has one step per action, under it one per conjunct the
action disturbs; the facts shared by several actions (`Refuse`, `Continue`) are
lemmas.

`TransitionProofs` rests on a second inductive invariant, `TransitionInv`:

- `MovesFit`: from the moment a transition has passed its checks, they are still
  true *of the row it read*, and the committed row is still the same appointment
  (customer, barber and times), although its status may have moved on;
- `WritesFit`: what a transaction has written is a new active row, or the row it
  was asked to move with only status and stamp changed;
- `ArrivedInPast` and `CancelledIsStamped`.

From it follow `CancelledIsAlwaysStamped`, `LawfulMoves` and `FinalStatusKept` (action
properties), and `AgendaKept`: `Spec => KeepsAgenda`. Only `Commit` changes
appointments (`OnlyCommitWrites`), and `CommitIsAgendaStep` maps it to `Take` (a new
row, or a final one brought back; `CheckHolds` says the place is free), to `Release`
(an active row that ends) or to a stutter.

`BookingsRevalidated` is about the facts no lock protects. Its invariant,
`RevalidatedInv`, says for each statement of a booking what has been found by then
(`PartiesHold` after the first checks, `SlotHolds` after the agenda's) *about what
still stands since the request arrived*: those absences and switches are as they
were (`StandingHolds`), because an absence belongs to a request that has been
answered, and the passing of time only widens the horizon. What became of the facts that
changed meanwhile is not claimed, by the property or by the proof.

`BookingProofs` also has `DayRowsSuffice`: an appointment on the grid lies inside its
local day, so whatever can be in its way overlaps that day, and the rows that
`collect_busy` reads are enough. `TransitionProofs` has `CancelFlagAndList`: the
`can_cancel` flag a client is shown agrees with its list of transitions except to a
barber who is a colleague's customer, and to them only in time and while the
appointment is active (`services/appointment_view.py:69`).

`SlotSearchProofs` says what the comparisons mean (`OverlapIsSharedInstant`,
`OfferedStartsAreFree`: an offered start keeps every instant open and free) and what
the loops compute, `SearchIsRight` and `SearchIsExact`. `SearchIInv` is the loop
invariant of both: while the first loop runs, `starts` holds exactly the grid
points before the cursor, in order (`GeneratedSoFar`); while the second runs, what is
kept and what is left and free make up the answer (`FilteredSoFar`), in order because
everything kept comes before everything left (`Precedes`). That nothing is skipped is
`NextGridPoint`, which is arithmetic modulo the slot length. `EveryStepCounts`
is what can be proved of termination: a rank in the naturals that every step lowers,
for any query; that steps are taken is fairness, and `SearchEnds` stays with TLC.

`DemoSandboxProofs` has one inductive invariant, `SandboxIInv`:

- `OneHolder`: at most one task holds the lock of a registry row, that is, has an
  uncommitted version of it or has deleted it;
- `TaskFits`, for each task, what it carries at the statement it is at: its token
  and account (`AskFits`), the rows it has added (`WrittenFits`, `StartFits`), the
  counters in its draft (`DraftFits`), and what a purge must have found by now
  (`PurgedFits`, `SweepFits`);
- `StoreFits`, `MadeFinite`: stored rows belong to sandboxes that were drawn, and
  are finitely many;
- `LedgerExact` and `OrphansOnlyFromSweep`.

`LedgerExact` alone is not inductive. A commit stores a counter and a row together;
that they agree afterwards takes `DraftFits` (the draft is one ahead of the committed
row exactly when a row is waiting with it), and that the committed row is still the
one the draft was made from takes `OneHolder`. A commit after a purge needs
`PurgedFits`: while a request holds the registry row no other request of the sandbox
can commit a row, so the DELETE has found all of them, also when it had to wait and
sees nothing that was committed meanwhile (`SentFits`: what it was sent for is what there
is; with it `WaitIInv`, inductive together with `SandboxIInv`); a sweep holds no such row and has no
such clause. Only `Commit` writes (`CommitLocal`), so the store's part is one case.
From the invariant follow `ResetsAreClean`, `LapsesAreFinal`, and with `RegistryMoves`,
which maps each commit to a step of the ledger, `BookingQuotaKept` and `WriteQuotaKept`.

The cap on live sandboxes does not hold (section 6); `CapUpToRaces` bounds the damage:
if what stands at first is within the cap and never more than `n` requests are
between their count and their answer, the cap is exceeded by at most `n - 1`, and
`CapHoldsAlone` is `n = 1`. The sum of live sandboxes and starts under way stays below
`MaxActive + n` (`CapInv`): a start enters the sum only after it counted fewer than
`MaxActive`, and a commit moves it from one term to the other. That nothing else
brings a sandbox to life needs `ExpiryKept`: a charge, a reset or a touch writes back
the expiry of the row it has locked.

`RateLimiterProofs`: `LimiterIInv` says the counter holds the newest admissions, no
more than the allowance, none dropped before it aged, and that advice reaches past
the window of the oldest. `LimiterAllowance`, `LimiterAdvice` follow.

`AccessProofs`: `AccessImplementsLimiter` (`Spec => LimiterSpec`) carries those two
over to the composed system instead of proving them again. `AccessIInv` is about the
shops: accounts belong to sandboxes in the registry, ids are drawn once, no token
outlives its sandbox, and none expires before the earlier of its sandbox's end and its own
lifetime (`TokensLast`). With it `ActingInside`, `SigningUpInside`, `EmailsIdentify`,
`TokensDie`, `VisitorsAreLetIn` and `ResetRetires`. Nothing is assumed of how the
lifetimes of tokens and sandboxes compare.

`BackOfficeProofs`: `BackOfficeIInv` says that no uncommitted row collides with a stored
one or another uncommitted one under a unique key (`NoClash`), and that what each task
has loaded, added, updated and removed fits its job and its shop. From it `UniqueKeys`,
`HoursStaySane` (no mixture of columns closes a day before it opens, which the check
constraint sees to) and `WritesStay`. `CrossingsAreRemovals` sharpens it for the table
that `WritesStayInShop` exempts: what crosses shops is the deletion of the absence that
the request names, and nothing else.

`DuplicatesNeedRaces` takes two more clauses, `RaceIInv`. `LateTwins`: any stored row with
a key that finds the one a task has found free, and is found by it, comes from a task
that committed since it began; without it a commit could meet an old row its look had
overlooked. `KeysFit`: a
rename is all its request does, and a day that is replaced keeps its key and its
author, so that a key always has the author that `since` speaks of. `WeekIsStored`
rests on `WeekIInv`: while nobody commits, a task sees every weekday it has done as it
was submitted, and the row it has loaded is the one it is about to update.

`BookingWizardProofs`: the slot on the form is one offered for the choices on the form
(`SlotFits`), whence `SubmissionsOffered`. The strengthening is the point: the property
speaks of what was sent, and holds only because *every* change of a choice gives the
slot up before it can be sent.

## 6. Findings

1. *Terminal states are not final under concurrency* (`booking_terminal`).
   `update_status` (`services/appointment_service.py:101`) checks the transition on
   a row it read earlier and updates by primary key. An administrator cancels while
   the barber, whose request read the row as pending, confirms it: the second
   UPDATE wins and the row ends confirmed with `cancelled_at` set. README.md:318
   says "Terminal states are final." `FinalUnlessRaced` shows the damage stops
   there: without overlapping transitions the rule holds, and a revived
   appointment never takes a time booked meanwhile.
2. *A loser may be told 503* (`booking_loser`). `docs/ARCHITECTURE.md:111` says the
   loser's INSERT raises `IntegrityError` and is answered `409 slot_unavailable`;
   two inserts that wait for each other end in a deadlock error, which only the
   generic handler catches, as `503 database_unavailable`.
3. *The cap on live sandboxes can be exceeded* (`demo_cap`). `create_session`
   (`services/demo_service.py:131`) counts and then inserts, with nothing between the
   two; visitors who arrive together are all let in. README.md:459-461 says the count
   makes the cap hold globally. It holds up to the overlap (`CapUpToRaces`).
4. *A demo visitor may be shown the real shop* (`wizard_shop`). Starting a demo
   (`features/demo/demo-landing.tsx:37`) leaves the query cache as it is, and its keys name
   no shop. `lib/api-client.ts:91` says the visitor must see the sandbox's catalogue.
   The back end refuses what is chosen there, so nothing is booked in the wrong shop.

Some premises of properties that hold are also worth a reader's attention.
`DuplicatesOnlyFromRaces` leaves out the empty name and names that no look finds, which
the code stores twice without any race (section 3, BackOffice); `VisitorsKeepAccess` ends
with a token's own lifetime, which may be shorter than its sandbox's (Access).
`OrphansOnlyFromSweep` excepts swept sandboxes, although `scripts/cleanup_demo.py:1`
promises "everything they own" (section 3, DemoSandbox). `SoloHoursAsSubmitted` speaks
of a week submitted while nobody else commits: an UPDATE has only the columns that
differ from what the request loaded (`repositories/base.py:95`), so of two
administrators who each change another end of one weekday neither is stored as
submitted; `HoursMakeSense` says that the mixture still opens before it closes.

## 7. What is not covered

Left to TLC only: everything with liveness, because the provers do no fairness and no
ENABLED (`EveryRequestAnswered`, `RacedSlotIsTaken`, `SearchEnds`, `ExpiredIsRemoved`,
`EveryVisitorAnswered`, `EverybodyAnswered`), and the four violations of section 6. Every
invariant and every action property of the other runs is stated by a theorem.

Not modelled:

- the dashboard: separate SELECTs of committed rows, no state, and nothing says
  that its figures agree with one another;
- the pages and forms of the front end other than the wizard: they show what the
  API returns;
- a second browser tab over the same storage, and answers that arrive after the session
  they were asked for is gone;
- prices and payments (no operation depends on them), password hashing and the format of
  JWTs (libraries), formatting and wording, the production checks of the settings, which
  only stop a start;
- SQLite, the development database, which has no exclusion constraint and one writer.

Abstractions that a reader should know: `Booking` has one tenant (tenancy is the
subject of `Access` and `BackOffice`); durations and opening hours do not change during
one of its runs; accounts are never deactivated (no operation does it); two
administrators deleting one absence at once are not told apart in `Booking`.
