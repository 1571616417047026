----------------------------- MODULE BackOffice -----------------------------
(***************************************************************************)
(* What staff and sign-ups write besides appointments: catalogue names,    *)
(* accounts and profiles, opening hours and absences (catalog_service.py,  *)
(* user_service.py, schedule_service.py, auth_service.register, and the    *)
(* scripts init_dev.py and create_user.py) over PostgreSQL.                *)
(*                                                                         *)
(* Every one of these looks for what is stored already and then writes, in *)
(* one READ COMMITTED transaction and with no lock in between.  A job is a *)
(* list of targets, each looked up and then written.  SQLAlchemy sends an  *)
(* UPDATE only for the columns that differ from what it has loaded.        *)
(***************************************************************************)
EXTENDS Integers, FiniteSets, Sequences

CONSTANTS Tasks,   \* requests and scripts, each with one transaction
          Jobs,    \* the jobs each task may be given
          Stored,  \* the rows that exist before
          Shops,
          Real,    \* the shop that is not a sandbox: its shop_id is NULL
          Keys,    \* names, addresses, weekdays and windows
          Finds,   \* the names (windows) that a look for a name (window) answers
          Blank,   \* the name that trimming leaves empty
          Barbers,
          Owner,   \* the barber a window is about
          Hours,   \* times of the day
          Before,  \* the maker of the stored rows
          NoRow

Tables == {"service", "extra", "user", "profile", "hours", "absence"}

\* A row; only opening hours have times and may be closed.  by is history: who
\* gave the row its key.
Ids == (Tasks \cup {Before}) \X Nat

Rows == [table : Tables, shop : Shops, id : Ids, key : Keys,
         opens : Hours, closes : Hours, closed : BOOLEAN,
         by : Tasks \cup {Before}]

\* "add" refuses what exists, "ensure" leaves it alone, "seed" fills a table
\* that is empty, "replace" updates what exists; "rename" and "remove" are for
\* the row that the request names.
Kinds == {"add", "ensure", "seed", "replace", "rename", "remove"}

Targets == [kind : Kinds, table : Tables, key : Keys, opens : Hours,
            closes : Hours, closed : BOOLEAN]

JobType == [shop : Shops, targets : Seq(Targets)]

\* A name is looked up as an ILIKE pattern: it answers for every spelling, one
\* with % or _ for other names too, one with a backslash not for itself.  A
\* window answers for those it overlaps.  Everything else is compared.
Found(table, k) ==
  IF table \in {"service", "extra", "absence"} THEN Finds[k] ELSE {k}

\* x and y answer to a look for one another.
FindOneAnother(x, y) ==
  /\ x.table = y.table
  /\ x.key \in Found(y.table, y.key)
  /\ y.key \in Found(x.table, x.key)

ASSUME BackOfficeAssumption ==
  /\ Jobs \in [Tasks -> SUBSET JobType]
  /\ IsFiniteSet(Tasks)
  /\ Stored \subseteq Rows
  /\ Real \in Shops
  /\ Before \notin Tasks
  /\ NoRow \notin Rows
  /\ Finds \in [Keys -> SUBSET Keys]
  /\ Owner \in [Keys -> Barbers]
  /\ Hours \subseteq Int

\* Fault: the table has no constraint on the window.
FitsAnyhow(x) == TRUE

\* ck_business_hours_window, and the check of the payload.
Fits(x) == x.table = "hours" => x.closed \/ x.opens < x.closes

\* The payloads the endpoints accept: weeks list each weekday once, and an open
\* day with its opening before its closing (schemas/schedule.py); only
\* catalogue entries are renamed, and only absences removed, one per request.
\* The scripts seed names that differ.
ASSUME JobAssumption ==
  \A t \in Tasks : \A j \in Jobs[t] :
    LET n == Len(j.targets)
    IN  /\ n > 0
        /\ \A i \in 1 .. n :
             LET x == j.targets[i]
             IN  /\ Fits(x)
                 /\ x.kind = "replace" => x.table = "hours"
                 /\ x.kind = "rename" => x.table \in {"service", "extra"} /\ n = 1
                 /\ x.kind = "remove" => x.table = "absence" /\ n = 1
        /\ \A i, k \in 1 .. n :
             LET x == j.targets[i]
                 y == j.targets[k]
             IN  FindOneAnother(x, y) \/ (x.table = y.table /\ x.key = y.key) => i = k

VARIABLES rows,     \* committed rows
          pc,       \* the statement a task is about to send, or its answer
          job, at,  \* what it is doing, and the target it has reached
          named,    \* the row the request names
          loaded,   \* the row the last look found, as it was then
          added, updated, removed,  \* its uncommitted writes
          since     \* history: the tasks that have committed since it began

draftVars == <<added, updated, removed>>
vars == <<rows, pc, job, at, named, loaded, draftVars, since>>

Answers == {"ok", "conflict", "not_found", "database_unavailable"}

NoJob == [shop |-> Real, targets |-> <<>>]

TypeOK ==
  /\ rows \subseteq Rows
  /\ \A x, y \in rows : x.id = y.id => x = y
  /\ pc \in [Tasks -> {"idle", "look", "insert", "update", "delete", "commit"}
                      \cup Answers]
  /\ job \in [Tasks -> JobType]
  /\ at \in [Tasks -> Nat]
  /\ named \in [Tasks -> Rows \cup {NoRow}]
  /\ loaded \in [Tasks -> Rows \cup {NoRow}]
  /\ added \in [Tasks -> SUBSET Rows]
  /\ updated \in [Tasks -> SUBSET Rows]
  /\ removed \in [Tasks -> SUBSET Rows]
  /\ since \in [Tasks -> SUBSET Tasks]

Init ==
  /\ rows = Stored
  /\ pc = [t \in Tasks |-> "idle"]
  /\ job = [t \in Tasks |-> NoJob]
  /\ at = [t \in Tasks |-> 1]
  /\ named = [t \in Tasks |-> NoRow]
  /\ loaded = [t \in Tasks |-> NoRow]
  /\ added = [t \in Tasks |-> {}]
  /\ updated = [t \in Tasks |-> {}]
  /\ removed = [t \in Tasks |-> {}]
  /\ since = [t \in Tasks |-> {}]

-----------------------------------------------------------------------------
Go(t, step) == pc' = [pc EXCEPT ![t] = step]

Target(t) == job[t].targets[at[t]]

Named(set, x) == \E y \in set : y.id = x.id

\* Fault: the session of a failed request is never closed.
FailOpen(t, answer) ==
  /\ Go(t, answer)
  /\ UNCHANGED <<rows, job, at, named, loaded, draftVars, since>>

\* The transaction is rolled back.
Fail(t, answer) ==
  /\ Go(t, answer)
  /\ added' = [added EXCEPT ![t] = {}]
  /\ updated' = [updated EXCEPT ![t] = {}]
  /\ removed' = [removed EXCEPT ![t] = {}]
  /\ UNCHANGED <<rows, job, at, named, loaded, since>>

\* The target is done.
Advance(t) ==
  /\ at' = [at EXCEPT ![t] = @ + 1]
  /\ Go(t, IF at[t] < Len(job[t].targets) THEN "look" ELSE "commit")
  /\ UNCHANGED <<rows, job, named, since>>

\* Fault: a new version of a row is stored next to the old one.
ViewBoth(t) == (rows \ removed[t]) \cup added[t] \cup updated[t]

\* What t sees: what is committed, with its own writes on top.
View(t) ==
  {x \in rows : ~Named(updated[t] \cup removed[t], x)} \cup added[t] \cup updated[t]

Begin(t) ==
  /\ pc[t] = "idle"
  /\ \E j \in Jobs[t] :
       /\ job' = [job EXCEPT ![t] = j]
       /\ IF j.targets[1].kind \in {"rename", "remove"}
          THEN \E x \in rows : /\ x.table = j.targets[1].table
                               /\ named' = [named EXCEPT ![t] = x]
          ELSE UNCHANGED named
  /\ Go(t, "look")
  /\ UNCHANGED <<rows, at, loaded, draftVars, since>>

-----------------------------------------------------------------------------
(* Looking: the SELECT that comes before a write.                          *)

\* Fault: the lookup by id forgets the tenant.
OwnedByAny(t, x) == TRUE

\* repositories/base.py: owned.  Absences carry no shop of their own, and
\* their repository does not filter.
Owned(t, x) == x.table = "absence" \/ x.shop = job[t].shop

\* Fault: a name is compared within the named row only.
AlikeSelf(t) ==
  {x \in View(t) :
     /\ x.table = Target(t).table
     /\ x.shop = job[t].shop
     /\ Target(t).kind = "seed" \/ x.key \in Found(x.table, Target(t).key)
     /\ Target(t).kind = "rename" => x.id = named[t].id}

\* The rows of the shop that a look for the target answers: get_by_email,
\* name_exists, list_for_barbers, get_for_weekday, get_by_user_id; for a seed
\* the whole table.
Alike(t) ==
  {x \in View(t) :
     /\ x.table = Target(t).table
     /\ x.shop = job[t].shop
     /\ Target(t).kind = "seed" \/ x.key \in Found(x.table, Target(t).key)
     /\ Target(t).kind = "rename" => x.id # named[t].id}

Loads(t, x, step) ==
  /\ loaded' = [loaded EXCEPT ![t] = x]
  /\ Go(t, step)
  /\ UNCHANGED <<rows, job, at, named, draftVars, since>>

LookToAdd(t) ==
  /\ pc[t] = "look"
  /\ Target(t).kind = "add"
  /\ IF Alike(t) # {} THEN Fail(t, "conflict") ELSE Loads(t, NoRow, "insert")

LookToEnsure(t) ==
  /\ pc[t] = "look"
  /\ Target(t).kind = "ensure"
  /\ IF Alike(t) # {}
     THEN Advance(t) /\ UNCHANGED <<loaded, draftVars>>
     ELSE Loads(t, NoRow, "insert")

\* t has found the table empty and put in the row before this one.
Seeding(t) ==
  \E x \in added[t] : /\ x.id = <<t, at[t] - 1>>
                      /\ x.table = Target(t).table
                      /\ job[t].targets[at[t] - 1].kind = "seed"

\* One look decides for all the rows of a table.
LookToSeed(t) ==
  /\ pc[t] = "look"
  /\ Target(t).kind = "seed"
  /\ IF Alike(t) # {} /\ ~Seeding(t)
     THEN Advance(t) /\ UNCHANGED <<loaded, draftVars>>
     ELSE Loads(t, NoRow, "insert")

\* scalar_one_or_none raises when two rows answer.
LookToReplace(t) ==
  /\ pc[t] = "look"
  /\ Target(t).kind = "replace"
  /\ IF Cardinality(Alike(t)) > 1
     THEN Fail(t, "database_unavailable")
     ELSE \/ Alike(t) = {} /\ Loads(t, NoRow, "insert")
          \/ \E x \in Alike(t) : Loads(t, x, "update")

\* An empty name is not looked up.
LookToRename(t) ==
  /\ pc[t] = "look"
  /\ Target(t).kind = "rename"
  /\ \E x \in rows :
       /\ x.id = named[t].id
       /\ IF ~Owned(t, x) THEN Fail(t, "not_found")
          ELSE IF Target(t).key # Blank /\ Alike(t) # {} THEN Fail(t, "conflict")
          ELSE Loads(t, x, "update")

\* The absence must be one of the barber in the path, whose key the target has.
LookToRemove(t) ==
  /\ pc[t] = "look"
  /\ Target(t).kind = "remove"
  /\ IF ~Named(rows, named[t])
     THEN Fail(t, "not_found")
     ELSE \E x \in rows :
            /\ x.id = named[t].id
            /\ IF Owner[x.key] # Owner[Target(t).key]
               THEN Fail(t, "not_found")
               ELSE Loads(t, x, "delete")

Look(t) ==
  \/ LookToAdd(t)
  \/ LookToEnsure(t)
  \/ LookToSeed(t)
  \/ LookToReplace(t)
  \/ LookToRename(t)
  \/ LookToRemove(t)

-----------------------------------------------------------------------------
(* Writing.                                                                *)

\* Fault: only the addresses are unique.
CollidesEmailsOnly(x, y) == x.table = "user" /\ y.table = "user" /\ x.key = y.key

\* The unique indexes: an address over all shops, a profile per account, a
\* weekday per sandbox.  NULLs are distinct, so the real shop's week is free.
Collides(x, y) ==
  /\ x.table = y.table
  /\ x.key = y.key
  /\ \/ x.table \in {"user", "profile"}
     \/ x.table = "hours" /\ x.shop = y.shop /\ x.shop # Real

\* What is stored before obeys the constraints already.
ASSUME StoredAssumption ==
  /\ \A x \in Stored : x.id[1] = Before /\ x.by = Before /\ Fits(x)
  /\ \A x, y \in Stored : x.id = y.id => x = y
  /\ \A x, y \in Stored : x.id # y.id => ~Collides(x, y)

NewRow(t) ==
  [table |-> Target(t).table, shop |-> job[t].shop, id |-> <<t, at[t]>>,
   key |-> Target(t).key, opens |-> Target(t).opens, closes |-> Target(t).closes,
   closed |-> Target(t).closed, by |-> t]

\* An INSERT waits for an open transaction that has written the same key.
InsertBlockers(t) ==
  {q \in Tasks \ {t} : \E y \in added[q] : Collides(y, NewRow(t))}

Insert(t) ==
  /\ pc[t] = "insert"
  /\ InsertBlockers(t) = {}
  /\ IF \E y \in rows : Collides(y, NewRow(t))
     THEN Fail(t, "conflict")
     ELSE /\ added' = [added EXCEPT ![t] = @ \cup {NewRow(t)}]
          /\ Advance(t)
          /\ UNCHANGED <<loaded, updated, removed>>

\* The row the request asks for, where only what differs from the loaded row
\* is written.
Patched(t, x) ==
  IF Target(t).kind = "rename"
  THEN IF Target(t).key # loaded[t].key
       THEN [x EXCEPT !.key = Target(t).key, !.by = t] ELSE x
  ELSE [x EXCEPT
          !.opens = IF Target(t).opens # loaded[t].opens THEN Target(t).opens ELSE @,
          !.closes = IF Target(t).closes # loaded[t].closes THEN Target(t).closes ELSE @,
          !.closed = IF Target(t).closed # loaded[t].closed THEN Target(t).closed ELSE @]

RowBlockers(t) ==
  {q \in Tasks \ {t} : Named(updated[q] \cup removed[q], loaded[t])}

NothingToSay(t) == Patched(t, loaded[t]) = loaded[t]

\* Fault: the times are not written when the row exists.
UpdateNothing(t) ==
  /\ pc[t] = "update"
  /\ Advance(t)
  /\ UNCHANGED <<loaded, draftVars>>

\* An UPDATE waits for the row's lock and applies to the newest version; one
\* with nothing to set is not sent.
Update(t) ==
  /\ pc[t] = "update"
  /\ \/ /\ NothingToSay(t)
        /\ Advance(t)
        /\ UNCHANGED <<loaded, draftVars>>
     \/ /\ ~NothingToSay(t)
        /\ RowBlockers(t) = {}
        /\ \E x \in View(t) :
             /\ x.id = loaded[t].id
             /\ IF Fits(Patched(t, x))
                THEN /\ updated' = [updated EXCEPT ![t] = @ \cup {Patched(t, x)}]
                     /\ Advance(t)
                     /\ UNCHANGED <<loaded, added, removed>>
                ELSE Fail(t, "conflict")

\* A DELETE that finds its row gone is a StaleDataError.
Delete(t) ==
  /\ pc[t] = "delete"
  /\ RowBlockers(t) = {}
  /\ IF Named(rows, loaded[t])
     THEN /\ removed' = [removed EXCEPT ![t] = {x \in rows : x.id = loaded[t].id}]
          /\ Advance(t)
          /\ UNCHANGED <<loaded, added, updated>>
     ELSE Fail(t, "database_unavailable")

Commit(t) ==
  /\ pc[t] = "commit"
  /\ rows' = View(t)
  /\ Go(t, "ok")
  /\ added' = [added EXCEPT ![t] = {}]
  /\ updated' = [updated EXCEPT ![t] = {}]
  /\ removed' = [removed EXCEPT ![t] = {}]
  /\ since' = [q \in Tasks |->
                 IF pc[q] \in {"idle"} \cup Answers THEN since[q]
                 ELSE since[q] \cup ({t} \ {q})]
  /\ UNCHANGED <<job, at, named, loaded>>

\* PostgreSQL aborts a member of a cycle of waits.
WaitsFor(t) ==
  CASE pc[t] = "insert"                    -> InsertBlockers(t)
    [] pc[t] = "update" /\ ~NothingToSay(t) -> RowBlockers(t)
    [] pc[t] = "delete"                    -> RowBlockers(t)
    [] OTHER                               -> {}

Behind(t) ==
  LET behind[n \in Nat] ==
        IF n = 0 THEN WaitsFor(t)
        ELSE behind[n - 1] \cup UNION {WaitsFor(q) : q \in behind[n - 1]}
  IN  behind

DeadlockVictim(t) ==
  /\ WaitsFor(t) # {}
  /\ t \in Behind(t)[Cardinality(Tasks)]
  /\ Fail(t, "database_unavailable")

Serve(t) ==
  Look(t) \/ Insert(t) \/ Update(t) \/ Delete(t) \/ Commit(t) \/ DeadlockVictim(t)

AllServed ==
  /\ \A t \in Tasks : pc[t] \in Answers \cup {"idle"}
  /\ UNCHANGED vars

Next ==
  \/ \E t \in Tasks : Begin(t) \/ Serve(t)
  \/ AllServed

Spec == Init /\ [][Next]_vars

\* PostgreSQL answers a statement that nothing blocks and grants a lock to
\* those who wait for it.
FairSpec == Spec /\ \A t \in Tasks : SF_vars(Serve(t))

-----------------------------------------------------------------------------
(* Properties.                                                             *)

\* The transactions of p and q overlapped: one was under way when the other
\* committed.
Overlapped(p, q) ==
  \/ p \in Tasks /\ q \in since[p]
  \/ q \in Tasks /\ p \in since[q]

\* Two rows of a shop with names, windows or weekdays that find one another
\* come only from requests that ran at the same time; whatever was stored
\* before a request began, it never repeats.  (catalog_service.py:45 and :62,
\* schedule_service.py:78 and :46, init_dev.py:92 look before they write and
\* nothing else stops a duplicate; what was stored twice from the start is
\* nobody's doing.)  Names that a look cannot find are outside it: two entries
\* may be renamed to the empty name, or given one name with a backslash, one
\* after the other.
DuplicatesOnlyFromRaces ==
  \A x, y \in rows :
    /\ x.id # y.id
    /\ x.shop = y.shop
    /\ FindOneAnother(x, y)
    /\ x.table \in {"service", "extra"} => Blank \notin {x.key, y.key}
    => {x.by, y.by} = {Before} \/ Overlapped(x.by, y.by)

\* However sign-ups, staff and scripts race, and although they look in their
\* own shop only, an address never names two accounts, an account never has
\* two customer profiles, and a sandbox never has a weekday twice.
UniqueKeysHold ==
  \A x, y \in rows :
    x.id # y.id /\ x.table = y.table /\ x.key = y.key =>
      /\ x.table \notin {"user", "profile"}
      /\ x.table = "hours" /\ x.shop = y.shop => x.shop = Real

\* An open day never closes before it opens, even when one request has set one
\* of its times and another the other, or has opened the day.
HoursMakeSense ==
  \A x \in rows : x.table = "hours" /\ ~x.closed => x.opens < x.closes

CommitsNow(t) == pc[t] = "commit" /\ pc'[t] = "ok"

\* The week that t has submitted is the week that is stored.
StoredAsSubmitted(t) ==
  \A n \in 1 .. Len(job[t].targets) :
    LET day == job[t].targets[n]
    IN  day.kind = "replace" =>
          \E x \in rows' : /\ x.table = "hours"
                           /\ x.shop = job[t].shop
                           /\ x.key = day.key
                           /\ x.opens = day.opens
                           /\ x.closes = day.closes
                           /\ x.closed = day.closed

\* A week submitted while nobody else commits is stored as it was submitted,
\* the days that existed and the days that did not.  (schemas/schedule.py:36:
\* "Full replacement of the weekly opening schedule."  Without the premise it
\* fails: two submissions that each change another column mix.)
SoloHoursAsSubmitted ==
  [][\A t \in Tasks : CommitsNow(t) /\ since[t] = {} => StoredAsSubmitted(t)]_vars

\* Except for absences, a request changes rows of its own shop only, whatever
\* row it names.  (docs/ARCHITECTURE.md: repositories "filter every read
\* through it and stamp" what they write.)
WritesStayInShop ==
  [][\A t \in Tasks : CommitsNow(t) =>
       \A x \in (rows \ rows') \cup (rows' \ rows) :
         x.shop = job[t].shop \/ x.table = "absence"]_vars

\* Nobody waits for ever behind a lock: again and again everybody who has
\* asked has been answered.
EverybodyAnswered ==
  []<>(\A t \in Tasks : pc[t] \in Answers \cup {"idle"})
=============================================================================
