------------------------- MODULE DemoSandboxProofs --------------------------
(***************************************************************************)
(* Type correctness of DemoSandbox, the exactness of its counters, that    *)
(* its quotas are the allowances of SandboxLedger, and by how much the     *)
(* cap can be exceeded by starts that overlap.                             *)
(***************************************************************************)
EXTENDS DemoSandbox, FiniteSetTheorems, TLAPS

\* TypeOK without what waiting DELETEs have found.
WorkTypeOK ==
  /\ clock \in Nat
  /\ registry \in [Sandboxes -> Sessions \cup {NoSession}]
  /\ rows \subseteq Rows
  /\ minted \subseteq Sandboxes
  /\ tokens \subseteq [shop : Sandboxes, user : Makers]
  /\ pc \in [Tasks -> Steps \cup Answers]
  /\ ask \in [Tasks -> [op : Operations \cup {"sweep", "none"},
                        shop : Sandboxes \cup {NoTask},
                        user : Makers \cup {NoTask}]]
  /\ now \in [Tasks -> Nat]
  /\ queue \in [Tasks -> SUBSET Sandboxes]
  /\ draft \in [Tasks -> Sessions \cup {NoSession}]
  /\ gone \in [Tasks -> SUBSET Sandboxes]
  /\ added \in [Tasks -> SUBSET Rows]
  /\ removed \in [Tasks -> SUBSET Rows]
  /\ swept \subseteq Sandboxes

Finished == {"idle"} \cup Answers
Purging == {"purge_appointment", "purge_account", "purge_catalog"}
Before == {"count", "create", "resolve", "touch"}
Locking == {"admit", "write", "seed", "unregister", "commit"} \cup Purging

\* The sandboxes that have been handed out.
Opened == {token.shop : token \in tokens}

\* Where a request can be with what it asks for.
AskFits(t) ==
  /\ pc[t] \in Finished <=> ask[t] = NoAsk
  /\ pc[t] \notin Finished => ask[t].op \in Operations /\ ask[t].shop \in Sandboxes
  /\ pc[t] \in {"count", "create"} => ask[t].op = "start"
  /\ pc[t] \in {"resolve", "touch"} => ask[t].op # "start"
  /\ pc[t] = "admit" => ask[t].op \notin {"start", "signup"}
  /\ pc[t] = "write" => ask[t].op \in {"book", "configure", "signup"}
  /\ pc[t] \in Purging => ask[t].op \in {"reset", "end"}
  /\ pc[t] = "seed" => ask[t].op = "reset"
  /\ pc[t] = "unregister" => ask[t].op = "end"

\* What a request has inserted when it is about to commit.
Inserted(t) ==
  CASE ask[t].op = "start"                          -> SeedOf(ask[t].shop, ask[t].shop)
    [] ask[t].op = "reset"                          -> SeedOf(ask[t].shop, t)
    [] ask[t].op \in {"book", "configure", "signup"} -> {NewRow(t)}
    [] OTHER                                        -> {}

\* What a request has written and not committed.
WrittenFits(t) ==
  /\ draft[t] # NoSession <=> pc[t] \in Locking
  /\ gone[t] = IF pc[t] = "commit" /\ ask[t].op = "end" THEN {ask[t].shop} ELSE {}
  /\ queue[t] = {}
  /\ added[t] = IF pc[t] = "commit" THEN Inserted(t) ELSE {}
  /\ ask[t].op \notin {"reset", "end"} => removed[t] = {}
  /\ \A x \in removed[t] : x.shop = ask[t].shop

\* What t deletes, when it has come past the table: all there is.
Purged(t, kind) == {x \in rows : x.shop = ask[t].shop /\ x.kind = kind} \subseteq removed[t]

Past(t, steps) ==
  pc[t] \in steps \/ (pc[t] = "commit" /\ ask[t].op \in {"reset", "end"})

PurgedFits(t) ==
  /\ Past(t, {"purge_account", "purge_catalog", "seed", "unregister"}) =>
       Purged(t, "appointment")
  /\ Past(t, {"purge_catalog", "seed", "unregister"}) => Purged(t, "account")
  /\ Past(t, {"seed", "unregister"}) => Purged(t, "catalog")

\* What a request's waiting DELETE has found: all there is.
SentFits(t) ==
  sent[t] # {} =>
    /\ pc[t] \in Purging
    /\ \A kind \in Kinds :
         pc[t] = PurgeStep(kind) =>
           {x \in rows : x.shop = ask[t].shop /\ x.kind = kind} \subseteq removed[t] \cup sent[t]

WaitIInv ==
  /\ sent \in [Tasks -> SUBSET Rows]
  /\ \A r \in Requests : SentFits(r)

\* One more, from the charge until the commit.
Charge(t, op) == IF ask[t].op = op /\ pc[t] \in {"write", "commit"} THEN 1 ELSE 0

ResetDone(t) == ask[t].op = "reset" /\ pc[t] = "commit"

\* With the lock held, the counters are the committed ones and the charge.
DraftFits(t) ==
  pc[t] \in Locking /\ ask[t].op # "start" =>
    LET session == registry[ask[t].shop]
    IN  /\ session # NoSession
        /\ ResetDone(t) => draft[t].booked = 0 /\ draft[t].written = 0
        /\ ~ResetDone(t) =>
             /\ draft[t].booked = session.booked + Charge(t, "book")
             /\ draft[t].written = session.written + Charge(t, "configure")
        /\ Charge(t, "book") = 1 => draft[t].booked <= MaxBookings
        /\ Charge(t, "configure") = 1 => draft[t].written <= MaxWrites

StartFits(t) ==
  pc[t] = "commit" /\ ask[t].op = "start" => draft[t].booked = 0 /\ draft[t].written = 0

RequestFits(t) ==
  AskFits(t) /\ WrittenFits(t) /\ PurgedFits(t) /\ DraftFits(t) /\ StartFits(t)

\* A run of the cleanup job.
SweepFits(t) ==
  /\ pc[t] \in {"idle", "unregister", "commit"} \cup Purging
  /\ draft[t] = NoSession
  /\ added[t] = {}
  /\ pc[t] = "idle" => ask[t] = NoAsk /\ gone[t] = {} /\ removed[t] = {}
  /\ pc[t] # "idle" => ask[t].op = "sweep" /\ ask[t].shop \in Sandboxes
  /\ \A x \in removed[t] : x.shop \in gone[t] \/ x.shop = ask[t].shop
  /\ pc[t] = "commit" => ask[t].shop \in gone[t]

\* A sandbox that is being started is nobody else's yet.
ShopsFit(t) ==
  /\ ask[t].op = "start" => ask[t].shop \in minted \ Opened
  /\ ask[t].op \notin {"start", "none"} => ask[t].shop \in Opened
  /\ queue[t] \cup gone[t] \subseteq Opened

TaskFits(t) ==
  /\ t \in Requests => RequestFits(t)
  /\ t \in Sweeps => SweepFits(t)
  /\ ShopsFit(t)

\* The row lock: two tasks never have it, and a new sandbox has one starter.
OneHolder ==
  \A t, q \in Tasks : t # q =>
    /\ \A s \in Sandboxes : ~(Holds(t, s) /\ Holds(q, s))
    /\ ~(ask[t].op = "start" /\ ask[q].op = "start" /\ ask[t].shop = ask[q].shop)

\* What is stored belongs to sandboxes that were handed out and to requests
\* that were accepted.
StoreFits ==
  /\ Opened \subseteq minted
  /\ \A s \in Sandboxes : registry[s] # NoSession => s \in Opened
  /\ \A x \in rows : x.shop \in Opened /\ (x.by \in Requests => pc[x.by] = "ok")

MadeFinite ==
  \A s \in Sandboxes : registry[s] # NoSession =>
    IsFiniteSet(Made(s, "appointment")) /\ IsFiniteSet(Made(s, "catalog"))

SandboxIInv ==
  /\ WorkTypeOK
  /\ \A t \in Tasks : TaskFits(t)
  /\ OneHolder
  /\ StoreFits
  /\ MadeFinite
  /\ LedgerExact
  /\ OrphansOnlyFromSweep

-----------------------------------------------------------------------------
(* Steps that commit nothing.                                              *)

AskType == [op : Operations \cup {"sweep", "none"}, shop : Sandboxes \cup {NoTask},
            user : Makers \cup {NoTask}]

\* Nothing of q changes.
Idles(q) ==
  /\ pc'[q] = pc[q]
  /\ ask'[q] = ask[q]
  /\ queue'[q] = queue[q]
  /\ draft'[q] = draft[q]
  /\ gone'[q] = gone[q]
  /\ added'[q] = added[q]
  /\ removed'[q] = removed[q]

\* Whoever does nothing still fits.
LEMMA IdlesFits ==
  ASSUME NEW q \in Tasks, TaskFits(q), Idles(q), UNCHANGED <<registry, rows, tokens>>,
         minted \subseteq minted'
  PROVE  TaskFits(q)'
<1>1. AskFits(q) => AskFits(q)'
  BY DEF AskFits, Idles
<1>2. WrittenFits(q) => WrittenFits(q)'
  BY DEF WrittenFits, Idles, Inserted, NewRow
<1>3. PurgedFits(q) => PurgedFits(q)'
  BY DEF PurgedFits, Past, Purged, Idles
<1>4. DraftFits(q) => DraftFits(q)'
  BY DEF DraftFits, Charge, ResetDone, Idles
<1>5. StartFits(q) => StartFits(q)'
  BY DEF StartFits, Idles
<1>6. SweepFits(q) => SweepFits(q)'
  BY DEF SweepFits, Idles
<1>7. ShopsFit(q) => ShopsFit(q)'
  BY DEF ShopsFit, Opened, Idles
<1> QED
  BY <1>1, <1>2, <1>3, <1>4, <1>5, <1>6, <1>7 DEF TaskFits, RequestFits

\* It is enough to look at the task that moves.
LEMMA QuietStep ==
  ASSUME NEW t \in Tasks, SandboxIInv, pc[t] # "ok", WorkTypeOK',
         UNCHANGED <<registry, rows, tokens, swept>>, minted \subseteq minted',
         \A q \in Tasks \ {t} : Idles(q), TaskFits(t)',
         \A s \in Sandboxes : Holds(t, s)' =>
           Holds(t, s) \/ \A q \in Tasks \ {t} : ~Holds(q, s),
         ask'[t].op = "start" => ask'[t] = ask[t] \/ ask'[t].shop \notin minted
  PROVE  SandboxIInv'
<1>1. \A q \in Tasks : TaskFits(q)'
  BY IdlesFits DEF SandboxIInv
<1>2. OneHolder'
  <2>1. \A q \in Tasks \ {t}, s \in Sandboxes : Holds(q, s)' <=> Holds(q, s)
    BY DEF Holds, Idles
  <2>2. ASSUME NEW q \in Tasks \ {t}, NEW s \in Sandboxes, Holds(t, s)', Holds(q, s)
        PROVE  FALSE
    BY <2>2 DEF SandboxIInv, OneHolder
  <2>3. ASSUME NEW q \in Tasks \ {t}, ask'[t].op = "start", ask[q].op = "start",
               ask'[t].shop = ask[q].shop
        PROVE  FALSE
    BY <2>3 DEF SandboxIInv, OneHolder, TaskFits, ShopsFit
  <2> SUFFICES ASSUME NEW p \in Tasks, NEW q \in Tasks, p # q
               PROVE  /\ \A s \in Sandboxes : ~(Holds(p, s)' /\ Holds(q, s)')
                      /\ ~(ask'[p].op = "start" /\ ask'[q].op = "start"
                           /\ ask'[p].shop = ask'[q].shop)
    BY DEF OneHolder
  <2>4. CASE p # t /\ q # t
    BY <2>1, <2>4 DEF SandboxIInv, OneHolder, Idles
  <2>5. CASE p = t
    BY <2>1, <2>2, <2>3, <2>5 DEF Idles
  <2>6. CASE q = t
    BY <2>1, <2>2, <2>3, <2>6 DEF Idles
  <2> QED
    BY <2>4, <2>5, <2>6
<1>3. StoreFits'
  BY DEF SandboxIInv, StoreFits, Opened, Idles, Tasks
<1>4. MadeFinite' /\ LedgerExact' /\ OrphansOnlyFromSweep'
  BY DEF SandboxIInv, MadeFinite, LedgerExact, Made, OrphansOnlyFromSweep
<1> QED
  BY <1>1, <1>2, <1>3, <1>4 DEF SandboxIInv

\* A session that closes.
LEMMA Closes ==
  ASSUME WorkTypeOK, NEW t \in Tasks, Close(t)
  PROVE  /\ ask' \in [Tasks -> AskType]
         /\ now' \in [Tasks -> Nat] /\ queue' \in [Tasks -> SUBSET Sandboxes]
         /\ draft' \in [Tasks -> Sessions \cup {NoSession}]
         /\ gone' \in [Tasks -> SUBSET Sandboxes]
         /\ added' \in [Tasks -> SUBSET Rows] /\ removed' \in [Tasks -> SUBSET Rows]
         /\ ask'[t] = NoAsk /\ queue'[t] = {} /\ draft'[t] = NoSession
         /\ gone'[t] = {} /\ added'[t] = {} /\ removed'[t] = {}
         /\ \A s \in Sandboxes : ~Holds(t, s)'
         /\ \A q \in Tasks \ {t} : pc'[q] = pc[q] => Idles(q)
<1>1. NoAsk \in AskType
  BY DEF NoAsk, AskType
<1>2. /\ ask' \in [Tasks -> AskType]
      /\ now' \in [Tasks -> Nat] /\ queue' \in [Tasks -> SUBSET Sandboxes]
      /\ draft' \in [Tasks -> Sessions \cup {NoSession}]
      /\ gone' \in [Tasks -> SUBSET Sandboxes]
      /\ added' \in [Tasks -> SUBSET Rows] /\ removed' \in [Tasks -> SUBSET Rows]
  BY <1>1 DEF Close, WorkTypeOK, AskType
<1>3. /\ ask'[t] = NoAsk /\ queue'[t] = {} /\ draft'[t] = NoSession
      /\ gone'[t] = {} /\ added'[t] = {} /\ removed'[t] = {}
  BY DEF Close, WorkTypeOK
<1>4. \A s \in Sandboxes : ~Holds(t, s)'
  BY <1>3 DEF Holds
<1>5. \A q \in Tasks \ {t} : pc'[q] = pc[q] => Idles(q)
  BY DEF Close, WorkTypeOK, Idles
<1> QED
  BY <1>2, <1>3, <1>4, <1>5

\* A closed session fits.
LEMMA ClosedFits ==
  ASSUME WorkTypeOK, NEW t \in Tasks, Close(t), pc'[t] \in Finished,
         t \in Sweeps => pc'[t] = "idle"
  PROVE  TaskFits(t)'
<1>1. /\ ask'[t] = NoAsk /\ queue'[t] = {} /\ draft'[t] = NoSession
      /\ gone'[t] = {} /\ added'[t] = {} /\ removed'[t] = {}
  BY Closes
<1>2. ShopsFit(t)'
  BY <1>1 DEF ShopsFit, NoAsk
<1>3. t \in Sweeps => SweepFits(t)'
  BY <1>1 DEF SweepFits
<1>4. AskFits(t)'
  BY <1>1 DEF AskFits, Finished, Answers, Purging
<1>5. WrittenFits(t)'
  BY <1>1 DEF WrittenFits, NoAsk, Finished, Answers, Locking, Purging
<1>6. PurgedFits(t)' /\ DraftFits(t)' /\ StartFits(t)'
  BY <1>1 DEF PurgedFits, Past, DraftFits, StartFits, Finished, Answers, Locking, Purging
<1> QED
  BY <1>2, <1>3, <1>4, <1>5, <1>6 DEF TaskFits, RequestFits

\* A task whose transaction is rolled back.
LEMMA FailKeeps ==
  ASSUME NEW t \in Tasks, SandboxIInv, pc[t] \notin Finished, NEW answer \in Answers,
         Fail(t, answer)
  PROVE  SandboxIInv'
<1> DEFINE step == IF t \in Sweeps THEN "idle" ELSE answer
<1>1. /\ step \in Steps \cup Answers /\ step \in Finished
      /\ t \in Sweeps => step = "idle"
  BY DEF Steps, Finished
<1>2. pc' = [pc EXCEPT ![t] = step] /\ Close(t)
  BY DEF Fail, Go
<1>3. UNCHANGED <<clock, registry, rows, minted, tokens, swept>> /\ WorkTypeOK
  BY DEF Fail, db, SandboxIInv
<1> HIDE DEF step
<1>4. WorkTypeOK'
  <2>1. pc' \in [Tasks -> Steps \cup Answers]
    BY <1>1, <1>2, <1>3 DEF WorkTypeOK
  <2> QED
    BY <1>2, <1>3, <2>1, Closes DEF WorkTypeOK, AskType
<1>5. pc'[t] = step /\ \A q \in Tasks \ {t} : pc'[q] = pc[q]
  BY <1>2, <1>3 DEF WorkTypeOK
<1>6. \A q \in Tasks \ {t} : Idles(q)
  BY <1>2, <1>3, <1>5, Closes
<1>7. TaskFits(t)'
  BY <1>1, <1>2, <1>3, <1>5, ClosedFits
<1>8. /\ \A s \in Sandboxes : ~Holds(t, s)'
      /\ ask'[t].op # "start" /\ pc[t] # "ok"
  BY <1>2, <1>3, Closes DEF NoAsk, Finished, Answers
<1> QED
  BY <1>3, <1>4, <1>6, <1>7, <1>8, QuietStep

-----------------------------------------------------------------------------
(* Starting a sandbox and arriving at one.                                 *)

\* A request is no run of the job.
LEMMA OnlyARequest == ASSUME NEW r \in Requests PROVE r \in Tasks /\ r \notin Sweeps
BY SandboxAssumption DEF Tasks

\* A request that has nothing written yet.
LEMMA EmptyHanded ==
  ASSUME SandboxIInv, NEW r \in Requests, pc[r] \notin Locking
  PROVE  /\ draft[r] = NoSession /\ gone[r] = {} /\ queue[r] = {} /\ added[r] = {}
         /\ pc[r] \in Finished => ask[r] = NoAsk /\ removed[r] = {}
         /\ pc[r] \notin Finished => ask[r].op \in Operations /\ ask[r].shop \in Sandboxes
<1>1. AskFits(r) /\ WrittenFits(r)
  BY OnlyARequest DEF SandboxIInv, TaskFits, RequestFits
<1>2. /\ draft[r] = NoSession /\ gone[r] = {} /\ queue[r] = {} /\ added[r] = {}
      /\ pc[r] \in Finished => ask[r] = NoAsk
      /\ pc[r] \notin Finished => ask[r].op \in Operations /\ ask[r].shop \in Sandboxes
  BY <1>1 DEF AskFits, WrittenFits, Locking
<1>3. ask[r] = NoAsk => removed[r] = {}
  BY <1>1 DEF WrittenFits, NoAsk
<1> QED
  BY <1>2, <1>3

\* A request that still has nothing written when it moves on.
LEMMA EarlyStep ==
  ASSUME SandboxIInv, NEW r \in Requests, pc[r] \in Before, pc'[r] \in Before,
         pc'[r] \in {"count", "create"} <=> ask[r].op = "start",
         UNCHANGED <<registry, rows, tokens, minted>>,
         ask'[r] = ask[r], queue'[r] = queue[r], draft'[r] = draft[r],
         gone'[r] = gone[r], added'[r] = added[r], removed'[r] = removed[r]
  PROVE  TaskFits(r)'
<1>1. AskFits(r) /\ WrittenFits(r) /\ ShopsFit(r) /\ r \notin Sweeps
  BY OnlyARequest DEF SandboxIInv, TaskFits, RequestFits
<1>2. /\ pc[r] \notin Finished \cup Locking
      /\ pc'[r] \notin Finished \cup Locking
  BY DEF Before, Finished, Answers, Locking, Purging
<1>3. AskFits(r)'
  BY <1>1, <1>2 DEF AskFits, Before, Locking, Purging
<1>4. WrittenFits(r)'
  BY <1>1, <1>2 DEF WrittenFits, Locking
<1>5. PurgedFits(r)' /\ DraftFits(r)' /\ StartFits(r)'
  BY <1>2 DEF PurgedFits, Past, DraftFits, StartFits, Locking, Purging
<1>6. ShopsFit(r)'
  BY <1>1 DEF ShopsFit, Opened
<1> QED
  BY <1>1, <1>3, <1>4, <1>5, <1>6 DEF TaskFits, RequestFits

\* Drawing an id for a new sandbox.
LEMMA StartKeeps ==
  ASSUME SandboxIInv, NEW r \in Requests, Start(r)
  PROVE  SandboxIInv'
<1>1. PICK s \in Sandboxes \ minted :
        /\ minted' = minted \cup {s}
        /\ ask' = [ask EXCEPT ![r] = [op |-> "start", shop |-> s, user |-> NoTask]]
  BY DEF Start
<1> DEFINE k == [op |-> "start", shop |-> s, user |-> NoTask]
<1>2. /\ pc[r] = "idle" /\ pc' = [pc EXCEPT ![r] = "count"]
      /\ UNCHANGED <<clock, registry, rows, tokens, swept>>
      /\ UNCHANGED <<now, queue, draft, gone, added, removed>>
  BY DEF Start, Go, transaction
<1>3. r \in Tasks /\ r \notin Sweeps /\ WorkTypeOK
  BY OnlyARequest DEF SandboxIInv
<1>4. k \in AskType /\ "count" \in Steps \cup Answers
  BY DEF AskType, Operations, Steps
<1>5. minted' \subseteq Sandboxes /\ minted \subseteq minted'
  BY <1>1, <1>3 DEF WorkTypeOK
<1>6. WorkTypeOK'
  <2>1. pc' \in [Tasks -> Steps \cup Answers] /\ ask' \in [Tasks -> AskType]
    BY <1>1, <1>2, <1>3, <1>4 DEF WorkTypeOK, AskType
  <2> QED
    BY <1>2, <1>3, <1>5, <2>1 DEF WorkTypeOK, AskType
<1>7. /\ \A q \in Tasks \ {r} : Idles(q)
      /\ pc'[r] = "count" /\ ask'[r] = k
  BY <1>1, <1>2, <1>3 DEF WorkTypeOK, Idles
<1>8. draft[r] = NoSession /\ gone[r] = {} /\ queue[r] = {} /\ added[r] = {} /\ removed[r] = {}
  BY <1>2, EmptyHanded DEF Locking, Purging, Finished
<1>9. TaskFits(r)'
  <2>1. ShopsFit(r)'
    BY <1>1, <1>2, <1>7, <1>8 DEF ShopsFit, Opened, SandboxIInv, StoreFits
  <2>2. AskFits(r)'
    BY <1>7 DEF AskFits, Finished, Answers, Purging, NoAsk, Operations
  <2>3. WrittenFits(r)'
    BY <1>2, <1>7, <1>8 DEF WrittenFits, Locking, Purging
  <2>4. PurgedFits(r)' /\ DraftFits(r)' /\ StartFits(r)'
    BY <1>7 DEF PurgedFits, Past, DraftFits, StartFits, Locking, Purging
  <2> QED
    BY <1>3, <2>1, <2>2, <2>3, <2>4 DEF TaskFits, RequestFits
<1>10. \A z \in Sandboxes : ~Holds(r, z)'
  BY <1>2, <1>8 DEF Holds
<1> QED
  BY <1>1, <1>2, <1>3, <1>5, <1>6, <1>7, <1>9, <1>10, QuietStep

\* Counting the live sandboxes.
LEMMA CountKeeps ==
  ASSUME SandboxIInv, NEW r \in Requests, Count(r)
  PROVE  SandboxIInv'
<1>1. pc[r] = "count" /\ r \in Tasks /\ r \notin Sweeps /\ WorkTypeOK
  BY OnlyARequest DEF Count, SandboxIInv
<1>2. CASE Fail(r, "demo_capacity_reached")
  BY <1>1, <1>2, FailKeeps DEF Finished, Answers
<1>3. CASE ~Fail(r, "demo_capacity_reached")
  <2>1. /\ now' = [now EXCEPT ![r] = clock] /\ pc' = [pc EXCEPT ![r] = "create"]
        /\ UNCHANGED <<clock, registry, rows, tokens, swept>> /\ minted' = minted
        /\ UNCHANGED <<ask, queue, draft, gone, added, removed>>
    BY <1>3 DEF Count, Continue, Go, db
  <2>2. WorkTypeOK'
    <3>1. pc' \in [Tasks -> Steps \cup Answers] /\ now' \in [Tasks -> Nat]
      BY <1>1, <2>1 DEF WorkTypeOK, Steps
    <3> QED
      BY <1>1, <2>1, <3>1 DEF WorkTypeOK
  <2>3. pc'[r] = "create" /\ \A q \in Tasks \ {r} : Idles(q)
    BY <1>1, <2>1 DEF WorkTypeOK, Idles
  <2>4. ask[r].op = "start"
    BY <1>1 DEF SandboxIInv, TaskFits, RequestFits, AskFits
  <2>5. TaskFits(r)'
    BY <1>1, <2>1, <2>3, <2>4, EarlyStep DEF Before
  <2>6. \A z \in Sandboxes : ~Holds(r, z)'
    BY <1>1, <2>1, EmptyHanded DEF Holds, Locking, Purging
  <2> QED
    BY <1>1, <2>1, <2>2, <2>3, <2>5, <2>6, QuietStep
<1> QED
  BY <1>2, <1>3

\* Nobody holds the row of a sandbox that is being started.
LEMMA NewIsFree ==
  ASSUME SandboxIInv, NEW r \in Requests, ask[r].op = "start",
         NEW q \in Tasks \ {r}
  PROVE  ~Holds(q, ask[r].shop)
<1>1. r \in Tasks /\ ask[r].shop \notin Opened
  BY OnlyARequest DEF SandboxIInv, TaskFits, ShopsFit
<1>2. ask[r].shop \notin gone[q]
  BY <1>1 DEF SandboxIInv, TaskFits, ShopsFit
<1>3. ASSUME draft[q] # NoSession, ask[q].shop = ask[r].shop PROVE FALSE
  <2>1. q \in Requests /\ pc[q] \in Locking
    BY <1>3 DEF SandboxIInv, TaskFits, SweepFits, RequestFits, WrittenFits, Tasks
  <2>2. ask[q].op \in Operations
    BY <2>1 DEF SandboxIInv, TaskFits, RequestFits, AskFits, Locking, Purging, Finished,
       Answers
  <2>3. ask[q].op = "start"
    BY <1>1, <1>3, <2>2 DEF SandboxIInv, TaskFits, ShopsFit, Operations
  <2> QED
    BY <1>1, <1>3, <2>3 DEF SandboxIInv, OneHolder
<1> QED
  BY <1>2, <1>3 DEF Holds

\* The seed is made of rows.
LEMMA SeedIsRows ==
  ASSUME NEW s \in Sandboxes, NEW maker \in Makers
  PROVE  /\ SeedOf(s, maker) \in SUBSET Rows
         /\ \A x \in SeedOf(s, maker) : x.shop = s /\ x.seeded = TRUE /\ x.by = maker
         /\ Row(s, "account", maker, maker, TRUE) \in SeedOf(s, maker)
BY DEF SeedOf, SeedCatalog, SeedAppointments, Row, Rows, Kinds

\* Writing the registry row and the seed of a new sandbox.
LEMMA CreateKeeps ==
  ASSUME SandboxIInv, NEW r \in Requests, Create(r)
  PROVE  SandboxIInv'
<1>1. pc[r] = "create" /\ r \in Tasks /\ r \notin Sweeps /\ WorkTypeOK
  BY OnlyARequest DEF Create, SandboxIInv
<1>2. CASE Fail(r, "database_unavailable")
  BY <1>1, <1>2, FailKeeps DEF Finished, Answers
<1>3. CASE ~Fail(r, "database_unavailable")
  <2> DEFINE s == ask[r].shop
             d == [expires |-> now[r] + Ttl, seen |-> now[r], booked |-> 0, written |-> 0]
  <2>1. /\ draft' = [draft EXCEPT ![r] = d] /\ added' = [added EXCEPT ![r] = SeedOf(s, s)]
        /\ pc' = [pc EXCEPT ![r] = "commit"]
        /\ UNCHANGED <<clock, registry, rows, tokens, minted, swept>>
        /\ UNCHANGED <<ask, now, queue, gone, removed>>
    BY <1>3 DEF Create, Continue, Go, db
  <2>2. s \in Sandboxes /\ ask[r].op = "start" /\ gone[r] = {} /\ queue[r] = {}
    BY <1>1, EmptyHanded DEF SandboxIInv, TaskFits, RequestFits, AskFits, Locking, Purging,
       Finished, Answers
  <2>3. d \in Sessions /\ SeedOf(s, s) \in SUBSET Rows
    <3>1. now[r] \in Nat /\ Ttl \in Nat
      BY <1>1, SandboxAssumption DEF WorkTypeOK
    <3>2. SeedOf(s, s) \in SUBSET Rows
      BY <2>2, SeedIsRows DEF Makers
    <3> QED
      BY <3>1, <3>2 DEF Sessions
  <2>4. WorkTypeOK'
    <3>1. /\ pc' \in [Tasks -> Steps \cup Answers]
          /\ draft' \in [Tasks -> Sessions \cup {NoSession}]
          /\ added' \in [Tasks -> SUBSET Rows]
      BY <1>1, <2>1, <2>3 DEF WorkTypeOK, Steps
    <3> QED
      BY <1>1, <2>1, <3>1 DEF WorkTypeOK
  <2>5. /\ pc'[r] = "commit" /\ draft'[r] = d /\ added'[r] = SeedOf(s, s)
        /\ \A q \in Tasks \ {r} : Idles(q)
    BY <1>1, <2>1 DEF WorkTypeOK, Idles
  <2>6. TaskFits(r)'
    <3>1. AskFits(r)'
      BY <1>1, <2>1, <2>2, <2>5 DEF SandboxIInv, TaskFits, RequestFits, AskFits, Finished,
         Answers, Purging
    <3>2. WrittenFits(r)'
      <4>1. d # NoSession
        BY <2>3, NoValueAssumption DEF Sessions
      <4> HIDE DEF d
      <4> QED
        BY <1>1, <2>1, <2>2, <2>5, <4>1 DEF SandboxIInv, TaskFits, RequestFits, WrittenFits,
           Inserted, Locking
    <3>3. PurgedFits(r)' /\ DraftFits(r)' /\ StartFits(r)'
      BY <2>1, <2>2, <2>5 DEF PurgedFits, Past, DraftFits, StartFits
    <3>4. ShopsFit(r)'
      BY <1>1, <2>1 DEF SandboxIInv, TaskFits, ShopsFit, Opened
    <3> QED
      BY <1>1, <3>1, <3>2, <3>3, <3>4 DEF TaskFits, RequestFits
  <2>7. \A z \in Sandboxes : Holds(r, z)' => \A q \in Tasks \ {r} : ~Holds(q, z)
    BY <2>1, <2>2, NewIsFree DEF Holds
  <2> QED
    BY <1>1, <2>1, <2>4, <2>5, <2>6, <2>7, QuietStep
<1> QED
  BY <1>2, <1>3

\* Arriving with a token.
LEMMA ArriveKeeps ==
  ASSUME SandboxIInv, NEW r \in Requests, Arrive(r)
  PROVE  SandboxIInv'
<1>1. PICK op \in Asks[r] \ {"start"}, token \in tokens :
        ask' = [ask EXCEPT ![r] = [op |-> op, shop |-> token.shop, user |-> token.user]]
  BY DEF Arrive
<1> DEFINE k == [op |-> op, shop |-> token.shop, user |-> token.user]
<1>2. /\ pc[r] = "idle" /\ pc' = [pc EXCEPT ![r] = "resolve"]
      /\ UNCHANGED <<clock, registry, rows, tokens, minted, swept>>
      /\ UNCHANGED <<now, queue, draft, gone, added, removed>>
  BY DEF Arrive, Go, transaction, db
<1>3. r \in Tasks /\ r \notin Sweeps /\ WorkTypeOK
  BY OnlyARequest DEF SandboxIInv
<1>4. k \in AskType /\ op \in Operations /\ op # "start" /\ token.shop \in Sandboxes
  <2>1. op \in Operations /\ op # "start"
    BY SandboxAssumption
  <2> QED
    BY <1>3, <2>1 DEF AskType, WorkTypeOK
<1>5. WorkTypeOK'
  <2>1. pc' \in [Tasks -> Steps \cup Answers] /\ ask' \in [Tasks -> AskType]
    BY <1>1, <1>2, <1>3, <1>4 DEF WorkTypeOK, AskType, Steps
  <2> QED
    BY <1>2, <1>3, <2>1 DEF WorkTypeOK, AskType
<1>6. /\ pc'[r] = "resolve" /\ ask'[r] = k
      /\ \A q \in Tasks \ {r} : Idles(q)
  BY <1>1, <1>2, <1>3 DEF WorkTypeOK, Idles
<1>7. draft[r] = NoSession /\ gone[r] = {} /\ queue[r] = {} /\ added[r] = {} /\ removed[r] = {}
  BY <1>2, EmptyHanded DEF Locking, Purging, Finished
<1>8. TaskFits(r)'
  <2>1. ShopsFit(r)'
    BY <1>2, <1>4, <1>6, <1>7 DEF ShopsFit, Opened
  <2>2. AskFits(r)'
    BY <1>4, <1>6 DEF AskFits, Finished, Answers, Purging, NoAsk, Operations
  <2>3. WrittenFits(r)'
    BY <1>2, <1>6, <1>7 DEF WrittenFits, Locking, Purging
  <2>4. PurgedFits(r)' /\ DraftFits(r)' /\ StartFits(r)'
    BY <1>6 DEF PurgedFits, Past, DraftFits, StartFits, Locking, Purging
  <2> QED
    BY <1>3, <2>1, <2>2, <2>3, <2>4 DEF TaskFits, RequestFits
<1>9. \A z \in Sandboxes : ~Holds(r, z)'
  BY <1>2, <1>7 DEF Holds
<1>10. ask'[r].op # "start"
  BY <1>4, <1>6
<1> QED
  BY <1>2, <1>3, <1>5, <1>6, <1>8, <1>9, <1>10, QuietStep

\* Reading the registry row.
LEMMA ResolveKeeps ==
  ASSUME SandboxIInv, NEW r \in Requests, Resolve(r)
  PROVE  SandboxIInv'
<1>1. pc[r] = "resolve" /\ r \in Tasks /\ r \notin Sweeps /\ WorkTypeOK
  BY OnlyARequest DEF Resolve, SandboxIInv
<1>2. CASE Fail(r, "authentication_error")
  BY <1>1, <1>2, FailKeeps DEF Finished, Answers
<1>3. CASE ~Fail(r, "authentication_error")
  <2>1. /\ now' = [now EXCEPT ![r] = clock] /\ pc' = [pc EXCEPT ![r] = "touch"]
        /\ UNCHANGED <<clock, registry, rows, tokens, swept>> /\ minted' = minted
        /\ UNCHANGED <<ask, queue, draft, gone, added, removed>>
    BY <1>3 DEF Resolve, Continue, Go, db
  <2>2. WorkTypeOK'
    <3>1. pc' \in [Tasks -> Steps \cup Answers] /\ now' \in [Tasks -> Nat]
      BY <1>1, <2>1 DEF WorkTypeOK, Steps
    <3> QED
      BY <1>1, <2>1, <3>1 DEF WorkTypeOK
  <2>3. pc'[r] = "touch" /\ \A q \in Tasks \ {r} : Idles(q)
    BY <1>1, <2>1 DEF WorkTypeOK, Idles
  <2>4. ask[r].op # "start"
    BY <1>1 DEF SandboxIInv, TaskFits, RequestFits, AskFits
  <2>5. TaskFits(r)'
    BY <1>1, <2>1, <2>3, <2>4, EarlyStep DEF Before
  <2>6. \A z \in Sandboxes : ~Holds(r, z)'
    BY <1>1, <2>1, EmptyHanded DEF Holds, Locking, Purging
  <2> QED
    BY <1>1, <2>1, <2>2, <2>3, <2>5, <2>6, QuietStep
<1> QED
  BY <1>2, <1>3

-----------------------------------------------------------------------------
(* With the row locked.                                                    *)

\* Locking it: nobody else has it, and the draft starts from what is stored.
LEMMA TouchKeeps ==
  ASSUME SandboxIInv, NEW r \in Requests, Touch(r)
  PROVE  SandboxIInv'
<1>1. /\ pc[r] = "touch" /\ Holders(r) = {} /\ r \in Tasks /\ r \notin Sweeps /\ WorkTypeOK
      /\ RequestFits(r) /\ ShopsFit(r)
  BY OnlyARequest DEF Touch, SandboxIInv, TaskFits
<1>2. CASE Fail(r, "database_unavailable")
  BY <1>1, <1>2, FailKeeps DEF Finished, Answers
<1>3. CASE ~Fail(r, "database_unavailable")
  <2> DEFINE session == registry[ask[r].shop]
             d == [session EXCEPT !.seen = now[r]]
  <2>1. /\ session # NoSession
        /\ draft' = [draft EXCEPT ![r] = d]
        /\ pc' = [pc EXCEPT ![r] = AfterTouch(r)]
        /\ UNCHANGED <<clock, registry, rows, tokens, minted, swept>>
        /\ UNCHANGED <<ask, now, queue, gone, added, removed>>
    BY <1>3 DEF Touch, Continue, Go, db
  <2>2. /\ ask[r].op \in Operations /\ ask[r].op # "start" /\ ask[r].shop \in Sandboxes
        /\ gone[r] = {} /\ queue[r] = {} /\ added[r] = {}
    BY <1>1, EmptyHanded DEF RequestFits, AskFits, Locking, Purging, Finished, Answers
  <2>3. session \in Sessions /\ now[r] \in Nat
    BY <1>1, <2>1, <2>2 DEF WorkTypeOK
  <2>4. d \in Sessions /\ d.booked = session.booked /\ d.written = session.written
    BY <2>3 DEF Sessions
  <2>5. session.booked \in Nat /\ session.written \in Nat /\ d # NoSession
    BY <2>3, <2>4, NoValueAssumption DEF Sessions
  <2> HIDE DEF d
  <2>6. WorkTypeOK'
    <3>1. /\ pc' \in [Tasks -> Steps \cup Answers]
          /\ draft' \in [Tasks -> Sessions \cup {NoSession}]
      BY <1>1, <2>1, <2>4 DEF WorkTypeOK, Steps, AfterTouch
    <3> QED
      BY <1>1, <2>1, <3>1 DEF WorkTypeOK
  <2>7. /\ pc'[r] = AfterTouch(r) /\ draft'[r] = d
        /\ \A q \in Tasks \ {r} : Idles(q)
    BY <1>1, <2>1 DEF WorkTypeOK, Idles
  <2>8. /\ pc'[r] \in {"write", "admit"}
        /\ pc'[r] = "write" => ask[r].op = "signup"
        /\ pc'[r] = "admit" => ask[r].op # "signup"
    BY <2>7 DEF AfterTouch
  <2>9. TaskFits(r)'
    <3>1. AskFits(r)'
      BY <1>1, <2>1, <2>2, <2>8 DEF RequestFits, AskFits, Finished, Answers, Purging
    <3>2. WrittenFits(r)'
      BY <1>1, <2>1, <2>2, <2>5, <2>7, <2>8 DEF RequestFits, WrittenFits, Locking
    <3>3. DraftFits(r)'
      BY <2>1, <2>4, <2>5, <2>7, <2>8 DEF DraftFits, Charge, ResetDone
    <3>4. PurgedFits(r)' /\ StartFits(r)'
      BY <2>8 DEF PurgedFits, Past, StartFits
    <3>5. ShopsFit(r)'
      BY <1>1, <2>1 DEF ShopsFit, Opened
    <3> QED
      BY <1>1, <3>1, <3>2, <3>3, <3>4, <3>5 DEF TaskFits, RequestFits
  <2>10. \A z \in Sandboxes : Holds(r, z)' => \A q \in Tasks \ {r} : ~Holds(q, z)
    BY <1>1, <2>1, <2>2 DEF Holds, Holders
  <2> QED
    BY <1>1, <2>1, <2>6, <2>7, <2>9, <2>10, QuietStep
<1> QED
  BY <1>2, <1>3

\* Charging: the draft is one ahead of what is stored, within the cap.
LEMMA AdmitKeeps ==
  ASSUME SandboxIInv, NEW r \in Requests, Admit(r)
  PROVE  SandboxIInv'
<1>1. /\ pc[r] = "admit" /\ r \in Tasks /\ r \notin Sweeps /\ WorkTypeOK
      /\ RequestFits(r) /\ ShopsFit(r)
  BY OnlyARequest DEF Admit, SandboxIInv, TaskFits
<1> DEFINE op == ask[r].op
           session == registry[ask[r].shop]
           d == Charged(op, draft[r])
<1>2. CASE \E answer \in Answers : Fail(r, answer)
  BY <1>1, <1>2, FailKeeps DEF Finished, Answers
<1>3. CASE ~\E answer \in Answers : Fail(r, answer)
  <2>1. /\ WithinQuota(op, draft[r])
        /\ draft' = [draft EXCEPT ![r] = d]
        /\ pc' = [pc EXCEPT ![r] = AfterAdmit(op)]
        /\ UNCHANGED <<clock, registry, rows, tokens, minted, swept>>
        /\ UNCHANGED <<ask, now, queue, gone, added, removed>>
    BY <1>3 DEF Admit, Continue, Go, db, Answers
  <2>2. /\ op \in Operations \ {"start", "signup"} /\ ask[r].shop \in Sandboxes
        /\ gone[r] = {} /\ queue[r] = {} /\ added[r] = {} /\ draft[r] # NoSession
    BY <1>1 DEF RequestFits, AskFits, WrittenFits, Locking, Purging, Finished, Answers
  <2>3. draft[r] \in Sessions /\ session \in Sessions
    BY <1>1, <2>2 DEF WorkTypeOK, RequestFits, DraftFits, Locking
  <2>4. /\ draft[r].booked = session.booked /\ draft[r].written = session.written
        /\ session # NoSession
    BY <1>1, <2>2, <2>3 DEF RequestFits, DraftFits, Charge, ResetDone, Locking, Sessions
  <2>5. /\ d \in Sessions /\ d # NoSession
        /\ session.booked \in Nat /\ session.written \in Nat
        /\ op = "book" => d.booked = session.booked + 1 /\ d.written = session.written
        /\ op = "configure" => d.booked = session.booked /\ d.written = session.written + 1
        /\ op \notin {"book", "configure"} =>
             d.booked = session.booked /\ d.written = session.written
    BY <2>3, <2>4, NoValueAssumption DEF Sessions, Charged
  <2>6. /\ op = "book" => d.booked <= MaxBookings
        /\ op = "configure" => d.written <= MaxWrites
    BY <2>1, <2>4, <2>5, SandboxAssumption DEF WithinQuota
  <2> HIDE DEF d
  <2>7. WorkTypeOK'
    <3>1. /\ pc' \in [Tasks -> Steps \cup Answers]
          /\ draft' \in [Tasks -> Sessions \cup {NoSession}]
      BY <1>1, <2>1, <2>5 DEF WorkTypeOK, Steps, AfterAdmit
    <3> QED
      BY <1>1, <2>1, <3>1 DEF WorkTypeOK
  <2>8. /\ pc'[r] = AfterAdmit(op) /\ draft'[r] = d
        /\ \A q \in Tasks \ {r} : Idles(q)
    BY <1>1, <2>1 DEF WorkTypeOK, Idles
  <2>9. /\ pc'[r] \in {"write", "purge_appointment", "commit"}
        /\ pc'[r] = "write" <=> op \in {"book", "configure"}
        /\ pc'[r] = "purge_appointment" <=> op \in {"reset", "end"}
        /\ pc'[r] = "commit" => op = "read"
    BY <2>2, <2>8 DEF AfterAdmit, Operations
  <2>10. TaskFits(r)'
    <3>1. AskFits(r)'
      BY <1>1, <2>1, <2>2, <2>9 DEF RequestFits, AskFits, Finished, Answers, Purging
    <3>2. WrittenFits(r)'
      BY <1>1, <2>1, <2>2, <2>5, <2>8, <2>9 DEF RequestFits, WrittenFits, Locking, Purging,
         Inserted
    <3>3. DraftFits(r)'
      BY <2>1, <2>4, <2>5, <2>6, <2>8, <2>9 DEF DraftFits, Charge, ResetDone
    <3>4. PurgedFits(r)' /\ StartFits(r)'
      BY <2>1, <2>2, <2>9 DEF PurgedFits, Past, StartFits
    <3>5. ShopsFit(r)'
      BY <1>1, <2>1 DEF ShopsFit, Opened
    <3> QED
      BY <1>1, <3>1, <3>2, <3>3, <3>4, <3>5 DEF TaskFits, RequestFits
  <2>11. \A z \in Sandboxes : Holds(r, z)' => Holds(r, z)
    BY <2>1, <2>2 DEF Holds
  <2> QED
    BY <1>1, <2>1, <2>7, <2>8, <2>10, <2>11, QuietStep
<1> QED
  BY <1>2, <1>3

\* Inserting what was charged for.
LEMMA WriteKeeps ==
  ASSUME SandboxIInv, NEW r \in Requests, Write(r)
  PROVE  SandboxIInv'
<1>1. /\ pc[r] = "write" /\ r \in Tasks /\ r \notin Sweeps /\ WorkTypeOK
      /\ RequestFits(r) /\ ShopsFit(r)
  BY OnlyARequest DEF Write, SandboxIInv, TaskFits
<1>2. CASE Fail(r, "conflict")
  BY <1>1, <1>2, FailKeeps DEF Finished, Answers
<1>3. CASE ~Fail(r, "conflict")
  <2>1. /\ ask[r].op = "book" => HasAccount(ask[r].shop, NewRow(r).account)
        /\ added' = [added EXCEPT ![r] = {NewRow(r)}]
        /\ pc' = [pc EXCEPT ![r] = "commit"]
        /\ UNCHANGED <<clock, registry, rows, tokens, minted, swept>>
        /\ UNCHANGED <<ask, now, queue, draft, gone, removed>>
    BY <1>3 DEF Write, Continue, Go, db
  <2>2. /\ ask[r].op \in {"book", "configure", "signup"} /\ ask[r].shop \in Sandboxes
        /\ gone[r] = {} /\ queue[r] = {} /\ draft[r] # NoSession
    BY <1>1 DEF RequestFits, AskFits, WrittenFits, Locking, Finished, Answers
  <2>3. NewRow(r) \in Rows
    <3>1. ask[r].op = "book" => ask[r].user \in Makers
      BY <1>1, <2>1 DEF HasAccount, NewRow, Row, WorkTypeOK, Rows
    <3> QED
      BY <2>2, <3>1 DEF NewRow, Row, Rows, Kinds, Makers
  <2>4. WorkTypeOK'
    <3>1. /\ pc' \in [Tasks -> Steps \cup Answers]
          /\ added' \in [Tasks -> SUBSET Rows]
      BY <1>1, <2>1, <2>3 DEF WorkTypeOK, Steps
    <3> QED
      BY <1>1, <2>1, <3>1 DEF WorkTypeOK
  <2>5. /\ pc'[r] = "commit" /\ added'[r] = {NewRow(r)}
        /\ \A q \in Tasks \ {r} : Idles(q)
    BY <1>1, <2>1 DEF WorkTypeOK, Idles
  <2>6. TaskFits(r)'
    <3>1. AskFits(r)'
      BY <1>1, <2>1, <2>2, <2>5 DEF RequestFits, AskFits, Finished, Answers, Purging
    <3>2. WrittenFits(r)'
      <4>1. NewRow(r)' = NewRow(r)
        BY <2>1 DEF NewRow
      <4> QED
        BY <1>1, <2>1, <2>2, <2>5, <4>1 DEF RequestFits, WrittenFits, Locking, Inserted
    <3>3. DraftFits(r)'
      BY <1>1, <2>1, <2>2, <2>5 DEF RequestFits, DraftFits, Charge, ResetDone, Locking
    <3>4. PurgedFits(r)' /\ StartFits(r)'
      BY <2>1, <2>2, <2>5 DEF PurgedFits, Past, StartFits
    <3>5. ShopsFit(r)'
      BY <1>1, <2>1 DEF ShopsFit, Opened
    <3> QED
      BY <1>1, <3>1, <3>2, <3>3, <3>4, <3>5 DEF TaskFits, RequestFits
  <2>7. \A z \in Sandboxes : Holds(r, z)' => Holds(r, z)
    BY <2>1 DEF Holds
  <2> QED
    BY <1>1, <2>1, <2>4, <2>5, <2>6, <2>7, QuietStep
<1> QED
  BY <1>2, <1>3

\* Seeding again after a purge: the draft has full counters.
LEMMA SeedKeeps ==
  ASSUME SandboxIInv, NEW r \in Requests, Seed(r)
  PROVE  SandboxIInv'
<1>1. /\ pc[r] = "seed" /\ r \in Tasks /\ r \notin Sweeps /\ WorkTypeOK
      /\ RequestFits(r) /\ ShopsFit(r)
  BY OnlyARequest DEF Seed, SandboxIInv, TaskFits
<1> DEFINE s == ask[r].shop
<1>2. /\ ask[r].op = "reset" /\ s \in Sandboxes /\ draft[r] # NoSession
      /\ gone[r] = {} /\ queue[r] = {}
  BY <1>1 DEF RequestFits, AskFits, WrittenFits, Locking, Finished, Answers
<1>3. draft[r] \in Sessions /\ clock \in Nat
  BY <1>1, <1>2 DEF WorkTypeOK
<1> DEFINE d == [draft[r] EXCEPT !.booked = 0, !.written = 0, !.seen = clock]
<1>4. d \in Sessions /\ d.booked = 0 /\ d.written = 0 /\ d # NoSession
  <2>1. d \in Sessions /\ d.booked = 0 /\ d.written = 0
    BY <1>3 DEF Sessions
  <2>2. NoSession \notin Sessions
    BY NoValueAssumption DEF Sessions
  <2> QED
    BY <2>1, <2>2
<1>5. draft' = [draft EXCEPT ![r] = d]
  BY <1>1 DEF Seed, WorkTypeOK
<1>6. /\ added' = [added EXCEPT ![r] = SeedOf(s, r)]
      /\ pc' = [pc EXCEPT ![r] = "commit"]
      /\ UNCHANGED <<clock, registry, rows, tokens, minted, swept>>
      /\ UNCHANGED <<ask, now, queue, gone, removed>>
  BY DEF Seed, Continue, Go, db
<1> HIDE DEF d
<1>7. WorkTypeOK'
  <2>1. /\ pc' \in [Tasks -> Steps \cup Answers]
        /\ draft' \in [Tasks -> Sessions \cup {NoSession}]
    BY <1>1, <1>4, <1>5, <1>6 DEF WorkTypeOK, Steps
  <2>2. added' \in [Tasks -> SUBSET Rows]
    BY <1>1, <1>2, <1>6, SeedIsRows DEF WorkTypeOK, Makers
  <2> QED
    BY <1>1, <1>6, <2>1, <2>2 DEF WorkTypeOK
<1>8. /\ pc'[r] = "commit" /\ draft'[r] = d /\ added'[r] = SeedOf(s, r)
      /\ \A q \in Tasks \ {r} : Idles(q)
  BY <1>1, <1>5, <1>6 DEF WorkTypeOK, Idles
<1>9. TaskFits(r)'
  <2>1. AskFits(r)'
    BY <1>1, <1>2, <1>6, <1>8 DEF RequestFits, AskFits, Finished, Answers, Purging
  <2>2. WrittenFits(r)'
    BY <1>1, <1>2, <1>4, <1>6, <1>8 DEF RequestFits, WrittenFits, Locking, Inserted
  <2>3. DraftFits(r)'
    BY <1>1, <1>2, <1>4, <1>6, <1>8 DEF RequestFits, DraftFits, Charge, ResetDone, Locking
  <2>4. PurgedFits(r)' /\ StartFits(r)'
    BY <1>1, <1>2, <1>6, <1>8 DEF RequestFits, PurgedFits, Past, Purged, StartFits
  <2>5. ShopsFit(r)'
    BY <1>1, <1>6 DEF ShopsFit, Opened
  <2> QED
    BY <1>1, <2>1, <2>2, <2>3, <2>4, <2>5 DEF TaskFits, RequestFits
<1>10. \A z \in Sandboxes : Holds(r, z)' => Holds(r, z)
  BY <1>2, <1>6 DEF Holds
<1> QED
  BY <1>1, <1>6, <1>7, <1>8, <1>9, <1>10, QuietStep

-----------------------------------------------------------------------------
(* Purging.                                                                *)

\* Emptying a table of the sandbox: with the lock held, nothing is added behind.
LEMMA PurgeKeeps ==
  ASSUME SandboxIInv, WaitIInv, NEW t \in Tasks, NEW kind \in Kinds, Purge(t, kind)
  PROVE  SandboxIInv'
<1>1. /\ pc[t] = PurgeStep(kind) /\ pc[t] \in Purging /\ WorkTypeOK /\ ShopsFit(t)
      /\ t \in Requests => RequestFits(t)
      /\ t \in Sweeps => SweepFits(t)
  BY DEF Purge, PurgeStep, Purging, SandboxIInv, TaskFits
<1>2. CASE Fail(t, "conflict")
  BY <1>1, <1>2, FailKeeps DEF Finished, Answers, Purging
<1>3. CASE ~Fail(t, "conflict")
  <2> DEFINE found == Found(t, kind)
             step == AfterPurge(t, kind)
  <2>1. /\ removed' = [removed EXCEPT ![t] = removed[t] \cup found]
        /\ pc' = [pc EXCEPT ![t] = step]
        /\ UNCHANGED <<clock, registry, rows, tokens, minted, swept>>
        /\ UNCHANGED <<ask, now, queue, draft, gone, added>>
    BY <1>1, <1>3 DEF Purge, Continue, Go, db, WorkTypeOK
  <2>2. /\ found \subseteq rows
        /\ \A x \in found : x.shop = ask[t].shop
        /\ t \in Requests =>
             {x \in rows : x.shop = ask[t].shop /\ x.kind = kind}
               \subseteq removed[t] \cup found
    BY <1>1 DEF Found, Targets, WaitIInv, SentFits
  <2>3. /\ step \in {"purge_account", "purge_catalog", "seed", "unregister"}
        /\ step = "purge_account" <=> pc[t] = "purge_appointment"
        /\ step = "purge_catalog" <=> pc[t] = "purge_account"
        /\ step = "seed" => ask[t].op = "reset"
        /\ step = "unregister" => ask[t].op # "reset"
        /\ step \in {"seed", "unregister"} => pc[t] = "purge_catalog"
        /\ pc[t] = "purge_appointment" <=> kind = "appointment"
        /\ pc[t] = "purge_account" <=> kind = "account"
        /\ pc[t] = "purge_catalog" <=> kind = "catalog"
    <3>1. CASE kind = "appointment"
      <4>1. step = "purge_account" /\ pc[t] = "purge_appointment"
        BY <1>1, <3>1 DEF AfterPurge, PurgeStep
      <4> QED
        BY <3>1, <4>1
    <3>2. CASE kind = "account"
      <4>1. step = "purge_catalog" /\ pc[t] = "purge_account"
        BY <1>1, <3>2 DEF AfterPurge, PurgeStep
      <4> QED
        BY <3>2, <4>1
    <3>3. CASE kind = "catalog"
      BY <1>1, <3>3 DEF AfterPurge, PurgeStep
    <3> QED
      BY <3>1, <3>2, <3>3 DEF Kinds
  <2> HIDE DEF found, step
  <2>4. WorkTypeOK'
    <3>1. pc' \in [Tasks -> Steps \cup Answers]
      BY <1>1, <2>1, <2>3 DEF WorkTypeOK, Steps
    <3>2. removed' \in [Tasks -> SUBSET Rows]
      BY <1>1, <2>1, <2>2 DEF WorkTypeOK
    <3> QED
      BY <1>1, <2>1, <3>1, <3>2 DEF WorkTypeOK
  <2>5. /\ pc'[t] = step /\ removed'[t] = removed[t] \cup found
        /\ \A q \in Tasks \ {t} : Idles(q)
    BY <1>1, <2>1 DEF WorkTypeOK, Idles
  <2>6. TaskFits(t)'
    <3>1. ASSUME t \in Requests PROVE RequestFits(t)'
      <4>1. RequestFits(t)
        BY <1>1, <3>1
      <4>2. AskFits(t)'
        BY <1>1, <2>1, <2>3, <2>5, <4>1 DEF RequestFits, AskFits, Finished, Answers, Purging
      <4>3. WrittenFits(t)'
        BY <1>1, <2>1, <2>2, <2>3, <2>5, <4>1, <4>2 DEF RequestFits, WrittenFits, AskFits,
           Locking, Purging
      <4>4. DraftFits(t)'
        BY <1>1, <2>1, <2>3, <2>5, <4>1 DEF RequestFits, AskFits, DraftFits, Charge,
           ResetDone, Locking, Purging
      <4>5. PurgedFits(t)'
        BY <1>1, <2>1, <2>2, <2>3, <2>5, <3>1, <4>1 DEF RequestFits, PurgedFits, Past, Purged
      <4>6. StartFits(t)'
        BY <2>3, <2>5 DEF StartFits
      <4> QED
        BY <4>2, <4>3, <4>4, <4>5, <4>6 DEF RequestFits
    <3>2. ASSUME t \in Sweeps PROVE SweepFits(t)'
      <4>1. SweepFits(t)
        BY <1>1, <3>2
      <4> QED
        BY <1>1, <2>1, <2>2, <2>3, <2>5, <4>1 DEF SweepFits, Purging
    <3>3. ShopsFit(t)'
      BY <1>1, <2>1 DEF ShopsFit, Opened
    <3> QED
      BY <3>1, <3>2, <3>3 DEF TaskFits
  <2>7. \A z \in Sandboxes : Holds(t, z)' => Holds(t, z)
    BY <2>1 DEF Holds
  <2>8. /\ pc[t] # "ok"
        /\ ask'[t] = ask[t]
    BY <1>1, <2>1 DEF Purging
  <2> QED
    BY <2>1, <2>4, <2>5, <2>6, <2>7, <2>8, QuietStep
<1> QED
  BY <1>2, <1>3

\* Waiting for a row changes nothing yet.
LEMMA WaitKeeps ==
  ASSUME SandboxIInv, NEW t \in Tasks, NEW kind \in Kinds, Wait(t, kind)
  PROVE  SandboxIInv'
<1>1. /\ UNCHANGED <<clock, registry, rows, minted, tokens, pc, ask, swept>>
      /\ UNCHANGED <<now, queue, draft, gone, added, removed>>
  BY DEF Wait, db
<1>2. WorkTypeOK'
  BY <1>1 DEF SandboxIInv, WorkTypeOK
<1>3. \A q \in Tasks : TaskFits(q)'
  BY <1>1, IdlesFits DEF SandboxIInv, Idles
<1>4. OneHolder'
  BY <1>1 DEF SandboxIInv, OneHolder, Holds
<1>5. StoreFits'
  BY <1>1 DEF SandboxIInv, StoreFits, Opened
<1>6. MadeFinite' /\ LedgerExact' /\ OrphansOnlyFromSweep'
  BY <1>1 DEF SandboxIInv, MadeFinite, LedgerExact, Made, OrphansOnlyFromSweep
<1> QED
  BY <1>2, <1>3, <1>4, <1>5, <1>6 DEF SandboxIInv

\* Deleting the registry row, which locks it, and going on to the next.
LEMMA UnregisterKeeps ==
  ASSUME SandboxIInv, NEW t \in Tasks, Unregister(t)
  PROVE  SandboxIInv'
<1> DEFINE s == ask[t].shop
<1>1. /\ pc[t] = "unregister" /\ Holders(t) = {} /\ WorkTypeOK /\ ShopsFit(t)
      /\ t \in Requests => RequestFits(t)
      /\ t \in Sweeps => SweepFits(t)
      /\ gone' = [gone EXCEPT ![t] = gone[t] \cup {s}]
      /\ UNCHANGED <<clock, registry, rows, tokens, minted, swept>>
      /\ UNCHANGED <<now, draft, added, removed>>
  BY DEF Unregister, Continue, db, SandboxIInv, TaskFits, WorkTypeOK
<1>2. /\ t \in Requests => ask[t].op = "end" /\ queue[t] = {} /\ gone[t] = {}
                           /\ draft[t] # NoSession
      /\ t \in Sweeps => ask[t].op = "sweep" /\ t \notin Requests
      /\ s \in Sandboxes /\ s \in Opened
  <2>1. ASSUME t \in Requests
        PROVE  /\ ask[t].op = "end" /\ queue[t] = {} /\ gone[t] = {}
               /\ draft[t] # NoSession /\ s \in Sandboxes
    BY <1>1, <2>1 DEF RequestFits, AskFits, WrittenFits, Locking, Finished, Answers
  <2>2. ASSUME t \in Sweeps PROVE ask[t].op = "sweep" /\ s \in Sandboxes /\ t \notin Requests
    BY <1>1, <2>2, SandboxAssumption DEF SweepFits
  <2> QED
    BY <1>1, <2>1, <2>2 DEF ShopsFit, Tasks
<1>4. gone' \in [Tasks -> SUBSET Sandboxes]
  BY <1>1, <1>2 DEF WorkTypeOK
<1>5. CASE queue[t] = {}
  <2>1. pc' = [pc EXCEPT ![t] = "commit"] /\ UNCHANGED <<ask, queue>>
    BY <1>5 DEF Unregister, Continue, Go
  <2>2. WorkTypeOK'
    <3>1. pc' \in [Tasks -> Steps \cup Answers]
      BY <1>1, <2>1 DEF WorkTypeOK, Steps
    <3> QED
      BY <1>1, <1>4, <2>1, <3>1 DEF WorkTypeOK
  <2>3. /\ pc'[t] = "commit" /\ gone'[t] = gone[t] \cup {s}
        /\ \A q \in Tasks \ {t} : Idles(q)
    BY <1>1, <2>1 DEF WorkTypeOK, Idles
  <2>4. TaskFits(t)'
    <3>1. ASSUME t \in Requests PROVE RequestFits(t)'
      <4>1. RequestFits(t)
        BY <1>1, <3>1
      <4>2. AskFits(t)'
        BY <1>1, <1>2, <2>1, <2>3, <3>1 DEF AskFits, Finished, Answers, Purging, Operations,
           NoAsk
      <4>3. WrittenFits(t)'
        BY <1>1, <1>2, <2>1, <2>3, <3>1, <4>1 DEF RequestFits, WrittenFits, Locking, Inserted
      <4>4. DraftFits(t)'
        BY <1>1, <1>2, <2>1, <2>3, <3>1, <4>1 DEF RequestFits, DraftFits, Charge, ResetDone,
           Locking
      <4>5. PurgedFits(t)'
        BY <1>1, <1>2, <2>1, <2>3, <3>1, <4>1 DEF RequestFits, PurgedFits, Past, Purged
      <4>6. StartFits(t)'
        BY <1>2, <2>1, <3>1 DEF StartFits
      <4> QED
        BY <4>2, <4>3, <4>4, <4>5, <4>6 DEF RequestFits
    <3>2. ASSUME t \in Sweeps PROVE SweepFits(t)'
      BY <1>1, <1>2, <2>1, <2>3, <3>2 DEF SweepFits
    <3>3. ShopsFit(t)'
      BY <1>1, <1>2, <2>1, <2>3 DEF ShopsFit, Opened
    <3> QED
      BY <3>1, <3>2, <3>3 DEF TaskFits
  <2>5. \A z \in Sandboxes : Holds(t, z)' =>
          Holds(t, z) \/ \A q \in Tasks \ {t} : ~Holds(q, z)
    BY <1>1, <2>1, <2>3 DEF Holds, Holders
  <2> QED
    BY <1>1, <2>1, <2>2, <2>3, <2>4, <2>5, QuietStep
<1>6. CASE queue[t] # {}
  <2>1. PICK z \in queue[t] :
          /\ ask' = [ask EXCEPT ![t] = [ask[t] EXCEPT !.shop = z]]
          /\ queue' = [queue EXCEPT ![t] = queue[t] \ {z}]
    BY <1>1, <1>6 DEF Unregister, WorkTypeOK
  <2> DEFINE k == [ask[t] EXCEPT !.shop = z]
  <2>2. pc' = [pc EXCEPT ![t] = "purge_appointment"]
    BY <1>6 DEF Unregister, Continue, Go
  <2>3. t \in Sweeps /\ t \notin Requests /\ z \in Sandboxes /\ SweepFits(t) /\ ask[t].op = "sweep"
    BY <1>1, <1>2, <1>6 DEF Tasks, WorkTypeOK
  <2>4. ask[t] \in AskType
    BY <1>1 DEF WorkTypeOK, AskType
  <2>5. k \in AskType /\ k.op = "sweep" /\ k.shop = z
    BY <2>3, <2>4 DEF AskType
  <2> HIDE DEF k
  <2>6. WorkTypeOK'
    <3>1. /\ pc' \in [Tasks -> Steps \cup Answers]
          /\ ask' \in [Tasks -> AskType]
          /\ queue' \in [Tasks -> SUBSET Sandboxes]
      BY <1>1, <2>1, <2>2, <2>5 DEF WorkTypeOK, Steps, AskType, k
    <3> QED
      BY <1>1, <1>4, <3>1 DEF WorkTypeOK, AskType
  <2>7. /\ pc'[t] = "purge_appointment" /\ gone'[t] = gone[t] \cup {s} /\ ask'[t] = k
        /\ queue'[t] = queue[t] \ {z}
        /\ \A q \in Tasks \ {t} : Idles(q)
    BY <1>1, <2>1, <2>2 DEF WorkTypeOK, Idles, k
  <2>8. TaskFits(t)'
    <3>1. SweepFits(t)'
      BY <1>1, <2>3, <2>5, <2>7 DEF SweepFits, Purging
    <3>2. ShopsFit(t)'
      BY <1>1, <1>2, <2>5, <2>7 DEF ShopsFit, Opened
    <3> QED
      BY <2>3, <3>1, <3>2 DEF TaskFits
  <2>9. \A y \in Sandboxes : Holds(t, y)' =>
          Holds(t, y) \/ \A q \in Tasks \ {t} : ~Holds(q, y)
    BY <1>1, <2>3, <2>7 DEF Holds, Holders, SweepFits
  <2> QED
    BY <1>1, <2>5, <2>6, <2>7, <2>8, <2>9, QuietStep
<1> QED
  BY <1>5, <1>6

\* A sweep finds its sandboxes.
LEMMA SweepKeeps ==
  ASSUME SandboxIInv, NEW t \in Tasks, Sweep(t)
  PROVE  SandboxIInv'
<1> DEFINE expired == {s \in Sandboxes : registry[s] # NoSession
                                         /\ registry[s].expires <= clock}
<1>1. PICK s \in expired :
        /\ ask' = [ask EXCEPT ![t] = [op |-> "sweep", shop |-> s, user |-> NoTask]]
        /\ queue' = [queue EXCEPT ![t] = expired \ {s}]
  BY DEF Sweep
<1> DEFINE k == [op |-> "sweep", shop |-> s, user |-> NoTask]
<1>2. /\ t \in Sweeps /\ pc[t] = "idle" /\ WorkTypeOK /\ SweepFits(t)
      /\ pc' = [pc EXCEPT ![t] = "purge_appointment"]
      /\ UNCHANGED <<clock, registry, rows, tokens, minted, swept>>
      /\ UNCHANGED <<now, draft, gone, added, removed>>
  BY DEF Sweep, Continue, Go, db, SandboxIInv, TaskFits
<1>3. expired \subseteq Opened /\ expired \subseteq Sandboxes
  BY DEF SandboxIInv, StoreFits
<1>4. k \in AskType /\ k.op = "sweep" /\ k.shop = s
  BY <1>3 DEF AskType
<1> HIDE DEF expired, k
<1>5. WorkTypeOK'
  <2>1. /\ pc' \in [Tasks -> Steps \cup Answers]
        /\ ask' \in [Tasks -> AskType]
        /\ queue' \in [Tasks -> SUBSET Sandboxes]
    BY <1>1, <1>2, <1>3, <1>4 DEF WorkTypeOK, Steps, AskType, k
  <2> QED
    BY <1>2, <2>1 DEF WorkTypeOK, AskType
<1>6. /\ pc'[t] = "purge_appointment" /\ ask'[t] = k /\ queue'[t] = expired \ {s}
      /\ \A q \in Tasks \ {t} : Idles(q)
  BY <1>1, <1>2 DEF WorkTypeOK, Idles, k
<1>7. TaskFits(t)'
  <2>1. t \notin Requests
    BY <1>2, SandboxAssumption
  <2>2. SweepFits(t)'
    BY <1>2, <1>3, <1>4, <1>6 DEF SweepFits, Purging
  <2>3. ShopsFit(t)'
    BY <1>2, <1>3, <1>4, <1>6 DEF ShopsFit, Opened, SweepFits
  <2> QED
    BY <2>1, <2>2, <2>3 DEF TaskFits
<1>8. \A z \in Sandboxes : ~Holds(t, z)'
  BY <1>2 DEF Holds, SweepFits
<1> QED
  BY <1>2, <1>4, <1>5, <1>6, <1>7, <1>8, QuietStep

\* A deadlock victim is rolled back.
LEMMA VictimKeeps ==
  ASSUME SandboxIInv, NEW t \in Tasks, DeadlockVictim(t)
  PROVE  SandboxIInv'
<1>1. WaitsFor(t) # {} /\ Fail(t, "database_unavailable")
  BY DEF DeadlockVictim, WaitsInCycle
<1>2. pc[t] \in {"touch", "unregister", "write"} \cup Purging
  BY <1>1 DEF WaitsFor, Purging
<1> QED
  BY <1>1, <1>2, FailKeeps DEF Finished, Answers, Purging

\* Time and stuttering change nothing the invariant is about.
LEMMA StutterKeeps ==
  ASSUME SandboxIInv, clock' \in Nat, UNCHANGED <<db, pc, ask, transaction, swept>>
  PROVE  SandboxIInv'
<1>1. /\ UNCHANGED <<registry, rows, minted, tokens, pc, ask, swept>>
      /\ UNCHANGED <<now, queue, draft, gone, added, removed>>
  BY DEF db, transaction
<1>2. WorkTypeOK'
  BY <1>1 DEF SandboxIInv, WorkTypeOK
<1>3. \A q \in Tasks : TaskFits(q)'
  BY <1>1, IdlesFits DEF SandboxIInv, Idles
<1>4. OneHolder'
  BY <1>1 DEF SandboxIInv, OneHolder, Holds
<1>5. StoreFits'
  BY <1>1 DEF SandboxIInv, StoreFits, Opened
<1>6. MadeFinite' /\ LedgerExact' /\ OrphansOnlyFromSweep'
  BY <1>1 DEF SandboxIInv, MadeFinite, LedgerExact, Made, OrphansOnlyFromSweep
<1> QED
  BY <1>2, <1>3, <1>4, <1>5, <1>6 DEF SandboxIInv

-----------------------------------------------------------------------------
(* Committing.                                                             *)

\* A request that commits.
LEMMA RequestCommits ==
  ASSUME SandboxIInv, NEW r \in Requests, pc[r] = "commit"
  PROVE  /\ r \in Tasks /\ r \notin Sweeps
         /\ ask[r].op \in Operations /\ ask[r].shop \in Sandboxes
         /\ draft[r] \in Sessions /\ draft[r] # NoSession
         /\ gone[r] = IF ask[r].op = "end" THEN {ask[r].shop} ELSE {}
         /\ added[r] = Inserted(r)
         /\ \A x \in removed[r] : x.shop = ask[r].shop
         /\ RequestFits(r) /\ ShopsFit(r)
<1>1. r \in Tasks /\ r \notin Sweeps /\ RequestFits(r) /\ ShopsFit(r) /\ WorkTypeOK
  BY OnlyARequest DEF SandboxIInv, TaskFits
<1>2. AskFits(r) /\ WrittenFits(r)
  BY <1>1 DEF RequestFits
<1>3. ask[r].op \in Operations /\ ask[r].shop \in Sandboxes
  BY <1>2 DEF AskFits, Finished, Answers
<1>4. /\ draft[r] # NoSession /\ added[r] = Inserted(r)
      /\ gone[r] = IF ask[r].op = "end" THEN {ask[r].shop} ELSE {}
      /\ \A x \in removed[r] : x.shop = ask[r].shop
  BY <1>2 DEF WrittenFits, Locking
<1>5. draft[r] \in Sessions
  BY <1>1, <1>4 DEF WorkTypeOK
<1> QED
  BY <1>1, <1>3, <1>4, <1>5

\* What a request inserts is in its sandbox and carries its name, a new
\* sandbox its own.
LEMMA InsertedFits ==
  ASSUME SandboxIInv, NEW r \in Requests, pc[r] = "commit"
  PROVE  \A x \in Inserted(r) :
           /\ x.shop = ask[r].shop
           /\ x.by = IF ask[r].op = "start" THEN ask[r].shop ELSE r
           /\ ask[r].op \in {"start", "reset"} => x.seeded = TRUE
<1>1. ask[r].shop \in Sandboxes /\ ask[r].op \in Operations
  BY RequestCommits
<1>2. CASE ask[r].op = "start"
  <2>1. Inserted(r) = SeedOf(ask[r].shop, ask[r].shop) /\ ask[r].shop \in Makers
    BY <1>1, <1>2 DEF Inserted, Makers
  <2>2. \A x \in Inserted(r) : x.shop = ask[r].shop /\ x.seeded = TRUE /\ x.by = ask[r].shop
    <3> DEFINE z == ask[r].shop
    <3>1. z \in Sandboxes /\ z \in Makers
      BY <1>1, <2>1
    <3> HIDE DEF z
    <3>2. \A x \in SeedOf(z, z) : x.shop = z /\ x.seeded = TRUE /\ x.by = z
      BY <3>1, SeedIsRows
    <3> QED
      BY <2>1, <3>2 DEF z
  <2> QED
    BY <1>2, <2>2
<1>3. CASE ask[r].op = "reset"
  <2>1. Inserted(r) = SeedOf(ask[r].shop, r) /\ r \in Makers
    BY <1>1, <1>3 DEF Inserted, Makers
  <2>2. \A x \in Inserted(r) : x.shop = ask[r].shop /\ x.seeded = TRUE /\ x.by = r
    <3> DEFINE z == ask[r].shop
    <3>1. z \in Sandboxes /\ r \in Makers
      BY <1>1, <2>1
    <3> HIDE DEF z
    <3>2. \A x \in SeedOf(z, r) : x.shop = z /\ x.seeded = TRUE /\ x.by = r
      BY <3>1, SeedIsRows
    <3> QED
      BY <2>1, <3>2 DEF z
  <2> QED
    BY <1>3, <2>2
<1>4. CASE ask[r].op \notin {"start", "reset"}
  BY <1>1, <1>4 DEF Inserted, NewRow, Row
<1> QED
  BY <1>2, <1>3, <1>4

\* Whatever a task commits is in sandboxes whose rows it has locked.
LEMMA HeldShops ==
  ASSUME SandboxIInv, NEW t \in Tasks, pc[t] = "commit"
  PROVE  \A x \in added[t] \cup removed[t] : Holds(t, x.shop)
<1>1. CASE t \in Requests
  <2>1. /\ \A x \in removed[t] : x.shop = ask[t].shop
        /\ added[t] = Inserted(t) /\ draft[t] # NoSession
    BY <1>1, RequestCommits
  <2>2. \A x \in Inserted(t) : x.shop = ask[t].shop
    BY <1>1, InsertedFits
  <2> QED
    BY <2>1, <2>2 DEF Holds
<1>2. CASE t \in Sweeps
  <2>1. SweepFits(t)
    BY <1>2 DEF SandboxIInv, TaskFits
  <2> QED
    BY <2>1 DEF SweepFits, Holds
<1> QED
  BY <1>1, <1>2 DEF Tasks

\* A commit leaves alone what it has not locked.
LEMMA CommitLocal ==
  ASSUME SandboxIInv, NEW t \in Tasks, Commit(t), NEW z \in Sandboxes, ~Holds(t, z)
  PROVE  /\ registry'[z] = registry[z]
         /\ \A x : x.shop = z => (x \in rows' <=> x \in rows)
<1>1. registry'[z] = registry[z]
  BY DEF Commit, Holds
<1>2. \A x \in added[t] \cup removed[t] : Holds(t, x.shop)
  BY HeldShops DEF Commit
<1>3. rows' = (rows \ removed[t]) \cup added[t]
  BY DEF Commit
<1> QED
  BY <1>1, <1>2, <1>3

\* The tokens of an answer are for its own sandbox.
LEMMA IssuedFits ==
  ASSUME SandboxIInv, NEW t \in Tasks, pc[t] = "commit"
  PROVE  /\ Issued(t) \subseteq [shop : Sandboxes, user : Makers]
         /\ Issued(t) # {} => t \in Requests
         /\ \A token \in Issued(t) : token.shop = ask[t].shop
<1>1. WorkTypeOK
  BY DEF SandboxIInv
<1>2. CASE t \in Requests
  <2>1. \A x \in added[t] : x.shop = ask[t].shop
    <3>1. \A x \in Inserted(t) : x.shop = ask[t].shop
      BY <1>2, InsertedFits
    <3> QED
      BY <1>2, <3>1, RequestCommits
  <2>2. \A x \in added[t] \cup rows : x.shop \in Sandboxes /\ x.by \in Makers
    BY <1>1 DEF WorkTypeOK, Rows
  <2>3. CASE ask[t].op \in {"start", "reset"}
    BY <1>2, <2>1, <2>2, <2>3 DEF Issued
  <2>4. CASE ask[t].op = "read"
    BY <1>2, <2>2, <2>4 DEF Issued
  <2>5. CASE ask[t].op \notin {"start", "reset", "read"}
    BY <1>2, <2>5 DEF Issued
  <2> QED
    BY <2>3, <2>4, <2>5
<1>3. CASE t \in Sweeps
  <2>1. ask[t].op = "sweep"
    BY <1>3 DEF SandboxIInv, TaskFits, SweepFits
  <2>2. Issued(t) = {}
    BY <2>1 DEF Issued
  <2> QED
    BY <2>2
<1> QED
  BY <1>2, <1>3 DEF Tasks

\* A reset, an end and a start find or leave nothing of what was there.
LEMMA NothingLeft ==
  ASSUME SandboxIInv, NEW r \in Requests, pc[r] = "commit",
         ask[r].op \in {"start", "reset", "end"}
  PROVE  {x \in rows : x.shop = ask[r].shop} \subseteq removed[r]
<1>1. RequestFits(r) /\ ShopsFit(r) /\ WorkTypeOK
  BY RequestCommits DEF SandboxIInv
<1>2. CASE ask[r].op = "start"
  BY <1>1, <1>2 DEF ShopsFit, SandboxIInv, StoreFits
<1>3. CASE ask[r].op \in {"reset", "end"}
  <2>1. /\ Purged(r, "appointment") /\ Purged(r, "account") /\ Purged(r, "catalog")
    BY <1>1, <1>3 DEF RequestFits, PurgedFits, Past
  <2>2. \A x \in rows : x.kind \in Kinds
    BY <1>1 DEF WorkTypeOK, Rows
  <2> QED
    BY <2>1, <2>2 DEF Purged, Kinds
<1> QED
  BY <1>2, <1>3

\* What a commit does to what the visitor has made.
LEMMA MadeAfter ==
  ASSUME SandboxIInv, NEW r \in Requests, Commit(r), NEW s \in Sandboxes,
         ask[r].shop = s, NEW kind \in {"appointment", "catalog"}
  PROVE  /\ ask[r].op \in {"start", "reset"} => Made(s, kind)' = {}
         /\ \/ ask[r].op = "book" /\ kind = "appointment"
            \/ ask[r].op = "configure" /\ kind = "catalog"
            => \E x : Made(s, kind)' = Made(s, kind) \cup {x} /\ x \notin Made(s, kind)
         /\ \/ ask[r].op \in {"read", "signup"}
            \/ ask[r].op = "book" /\ kind = "catalog"
            \/ ask[r].op = "configure" /\ kind = "appointment"
            => Made(s, kind)' = Made(s, kind)
<1>1. /\ pc[r] = "commit" /\ rows' = (rows \ removed[r]) \cup Inserted(r)
  BY RequestCommits DEF Commit
<1>2. CASE ask[r].op \in {"start", "reset"}
  <2>1. \A x \in Inserted(r) : x.seeded = TRUE
    BY <1>1, <1>2, InsertedFits
  <2>2. \A x \in rows : x.shop = s => x \in removed[r]
    BY <1>1, <1>2, NothingLeft
  <2> QED
    BY <1>1, <1>2, <2>1, <2>2 DEF Made
<1>3. CASE ask[r].op \in {"book", "configure", "signup"}
  <2> DEFINE new == NewRow(r)
  <2>1. new \notin rows
    <3>1. new.by = r
      BY DEF NewRow, Row
    <3> QED
      BY <1>1, <3>1 DEF SandboxIInv, StoreFits
  <2>2. removed[r] = {}
    BY <1>1, <1>3, RequestCommits DEF RequestFits, WrittenFits
  <2>3. rows' = rows \cup {new}
    BY <1>1, <1>3, <2>2 DEF Inserted
  <2>4. /\ new.shop = s /\ new.seeded = FALSE
        /\ ask[r].op = "book" => new.kind = "appointment"
        /\ ask[r].op = "configure" => new.kind = "catalog"
        /\ ask[r].op = "signup" => new.kind = "account"
    BY <1>3 DEF NewRow, Row
  <2> HIDE DEF new
  <2>5. CASE new.kind = kind
    <3>1. Made(s, kind)' = Made(s, kind) \cup {new} /\ new \notin Made(s, kind)
      BY <2>1, <2>3, <2>4, <2>5 DEF Made
    <3> QED
      BY <1>3, <2>4, <2>5, <3>1
  <2>6. CASE new.kind # kind
    <3>1. Made(s, kind)' = Made(s, kind)
      BY <2>3, <2>6 DEF Made
    <3> QED
      BY <1>3, <2>4, <2>6, <3>1
  <2> QED
    BY <2>5, <2>6
<1>4. CASE ask[r].op \in {"read", "end"}
  <2>1. Inserted(r) = {}
    BY <1>4 DEF Inserted
  <2>2. ask[r].op = "read" => removed[r] = {}
    BY <1>1, RequestCommits DEF RequestFits, WrittenFits
  <2>3. ask[r].op = "read" => rows' = rows
    BY <1>1, <2>1, <2>2
  <2> QED
    BY <1>4, <2>3 DEF Made
<1>5. ask[r].op \in Operations
  BY <1>1, RequestCommits
<1> QED
  BY <1>2, <1>3, <1>4, <1>5 DEF Operations

\* The tasks that do not commit still fit.
LEMMA CommitOthers ==
  ASSUME SandboxIInv, NEW t \in Tasks, Commit(t), NEW q \in Tasks, q # t, Idles(q)
  PROVE  TaskFits(q)'
<1>1. /\ TaskFits(q) /\ WorkTypeOK /\ pc[t] = "commit"
      /\ tokens' = tokens \cup Issued(t) /\ minted' = minted
  BY DEF SandboxIInv, Commit
<1>2. ShopsFit(q)'
  <2>1. \A z \in Opened' : z \in Opened \/ (z = ask[t].shop /\ Issued(t) # {})
    BY <1>1, IssuedFits DEF Opened
  <2>2. Opened \subseteq Opened'
    BY <1>1 DEF Opened
  <2>3. ASSUME ask[q].op = "start", ask[q].shop \in Opened' PROVE FALSE
    <3>1. ask[q].shop \notin Opened /\ ask[q].shop = ask[t].shop /\ Issued(t) # {}
      BY <1>1, <2>1, <2>3 DEF TaskFits, ShopsFit
    <3>2. t \in Requests
      BY <1>1, <3>1, IssuedFits
    <3>3. ask[t].op \in Operations
      BY <1>1, <3>2, RequestCommits
    <3>4. ask[t].op = "start"
      BY <3>1, <3>3 DEF SandboxIInv, TaskFits, ShopsFit, Operations
    <3> QED
      BY <2>3, <3>1, <3>4 DEF SandboxIInv, OneHolder
  <2> QED
    BY <1>1, <2>2, <2>3 DEF TaskFits, ShopsFit, Idles
<1>3. ASSUME q \in Requests PROVE RequestFits(q)'
  <2>1. RequestFits(q)
    BY <1>1, <1>3 DEF TaskFits
  <2>2. AskFits(q)'
    BY <2>1 DEF RequestFits, AskFits, Idles
  <2>3. WrittenFits(q)'
    BY <2>1 DEF RequestFits, WrittenFits, Idles, Inserted, NewRow
  <2>4. StartFits(q)'
    BY <2>1 DEF RequestFits, StartFits, Idles
  <2>5. ASSUME pc[q] \in Locking
        PROVE  /\ registry'[ask[q].shop] = registry[ask[q].shop]
               /\ \A x : x.shop = ask[q].shop => (x \in rows' <=> x \in rows)
    <3>1. ask[q].shop \in Sandboxes /\ Holds(q, ask[q].shop)
      BY <2>1, <2>5 DEF RequestFits, AskFits, WrittenFits, Holds, Locking, Purging, Finished,
         Answers
    <3>2. ~Holds(t, ask[q].shop)
      BY <3>1 DEF SandboxIInv, OneHolder
    <3> DEFINE z == ask[q].shop
    <3>3. z \in Sandboxes /\ ~Holds(t, z)
      BY <3>1, <3>2
    <3> HIDE DEF z
    <3>4. registry'[z] = registry[z] /\ \A x : x.shop = z => (x \in rows' <=> x \in rows)
      BY <3>3, CommitLocal
    <3> QED
      BY <3>4 DEF z
  <2>6. PurgedFits(q)'
    BY <2>1, <2>5 DEF RequestFits, PurgedFits, Past, Purged, Idles, Locking, Purging
  <2>7. DraftFits(q)'
    BY <2>1, <2>5 DEF RequestFits, DraftFits, Charge, ResetDone, Idles
  <2> QED
    BY <2>2, <2>3, <2>4, <2>6, <2>7 DEF RequestFits
<1>4. ASSUME q \in Sweeps PROVE SweepFits(q)'
  BY <1>1, <1>4 DEF TaskFits, SweepFits, Idles
<1> QED
  BY <1>2, <1>3, <1>4 DEF TaskFits

\* The registry row that a commit writes, and what it says of the past.
LEMMA RowAfter ==
  ASSUME SandboxIInv, NEW t \in Tasks, Commit(t), NEW s \in Sandboxes, Holds(t, s)
  PROVE  /\ s \in gone[t] => registry'[s] = NoSession
         /\ s \notin gone[t] =>
              /\ t \in Requests /\ ask[t].shop = s /\ ask[t].op # "end"
              /\ registry'[s] = draft[t] /\ draft[t] # NoSession
<1>1. pc[t] = "commit" /\ registry' = [z \in Sandboxes |->
                    IF z \in gone[t] THEN NoSession
                    ELSE IF draft[t] # NoSession /\ ask[t].shop = z THEN draft[t]
                    ELSE registry[z]]
  BY DEF Commit
<1>2. s \notin gone[t] => draft[t] # NoSession /\ ask[t].shop = s
  BY DEF Holds
<1>3. t \in Sweeps => draft[t] = NoSession
  BY DEF SandboxIInv, TaskFits, SweepFits
<1>4. t \in Requests /\ s \notin gone[t] /\ ask[t].shop = s => ask[t].op # "end"
  BY <1>1, RequestCommits
<1> QED
  BY <1>1, <1>2, <1>3, <1>4 DEF Tasks

\* What is stored stays well-typed.
LEMMA CommitTyped ==
  ASSUME SandboxIInv, NEW t \in Tasks, Commit(t)
  PROVE  WorkTypeOK'
<1>1. WorkTypeOK /\ Close(t) /\ pc[t] = "commit"
  BY DEF SandboxIInv, Commit
<1>2. pc' \in [Tasks -> Steps \cup Answers]
  <2>1. pc' = [pc EXCEPT ![t] = IF t \in Sweeps THEN "idle" ELSE "ok"]
    BY DEF Commit, Go
  <2> QED
    BY <1>1, <2>1 DEF WorkTypeOK, Steps, Answers
<1>3. registry' \in [Sandboxes -> Sessions \cup {NoSession}]
  BY <1>1 DEF Commit, WorkTypeOK
<1>4. rows' \subseteq Rows
  BY <1>1 DEF Commit, WorkTypeOK
<1>5. tokens' \subseteq [shop : Sandboxes, user : Makers]
  BY <1>1, IssuedFits DEF Commit, WorkTypeOK
<1>6. swept' \subseteq Sandboxes /\ clock' \in Nat /\ minted' \subseteq Sandboxes
  BY <1>1 DEF Commit, WorkTypeOK
<1> QED
  BY <1>1, <1>2, <1>3, <1>4, <1>5, <1>6, Closes DEF WorkTypeOK, AskType

\* What is stored belongs to sandboxes that were handed out.
LEMMA CommitStores ==
  ASSUME SandboxIInv, NEW t \in Tasks, Commit(t)
  PROVE  StoreFits'
<1>1. /\ WorkTypeOK /\ pc[t] = "commit" /\ ShopsFit(t) /\ StoreFits
      /\ tokens' = tokens \cup Issued(t) /\ minted' = minted
      /\ rows' = (rows \ removed[t]) \cup added[t]
      /\ pc' = [pc EXCEPT ![t] = IF t \in Sweeps THEN "idle" ELSE "ok"]
  BY DEF SandboxIInv, TaskFits, Commit, Go
<1>2. Opened \subseteq Opened'
  BY <1>1 DEF Opened
<1>3. Opened' \subseteq minted'
  <2>1. Issued(t) # {} => ask[t].shop \in minted
    <3>1. ASSUME Issued(t) # {} PROVE ask[t].op \in Operations
      BY <1>1, <3>1, IssuedFits, RequestCommits
    <3>2. \A op \in Operations : op # "none"
      BY DEF Operations
    <3> QED
      BY <1>1, <3>1, <3>2 DEF ShopsFit, StoreFits
  <2> QED
    BY <1>1, <2>1, IssuedFits DEF Opened, StoreFits
<1>4. ASSUME t \in Requests PROVE ask[t].shop \in Opened'
  <2>1. ask[t].op \in Operations /\ ask[t].shop \in Sandboxes /\ added[t] = Inserted(t)
    BY <1>1, <1>4, RequestCommits
  <2>2. CASE ask[t].op = "start"
    <3> DEFINE z == ask[t].shop
               x == Row(z, "account", z, z, TRUE)
               token == [shop |-> x.shop, user |-> x.by]
    <3>1. x \in added[t] /\ x.kind = "account" /\ x.shop = z
      <4>1. added[t] = SeedOf(z, z) /\ z \in Sandboxes /\ z \in Makers
        BY <2>1, <2>2 DEF Inserted, Makers
      <4>2. x.kind = "account" /\ x.shop = z
        BY DEF Row
      <4> HIDE DEF z
      <4>3. Row(z, "account", z, z, TRUE) \in SeedOf(z, z)
        BY <4>1, SeedIsRows
      <4> QED
        BY <4>1, <4>2, <4>3
    <3> HIDE DEF x
    <3>2. token \in Issued(t)
      BY <2>2, <3>1 DEF Issued
    <3>3. token.shop = z
      BY <3>1
    <3> QED
      BY <1>1, <3>2, <3>3 DEF Opened
  <2>3. CASE ask[t].op # "start"
    BY <1>1, <1>2, <2>1, <2>3 DEF ShopsFit, Operations
  <2> QED
    BY <2>2, <2>3
<1>5. ASSUME NEW s \in Sandboxes, registry'[s] # NoSession PROVE s \in Opened'
  <2>1. CASE ~Holds(t, s)
    <3>1. registry[s] # NoSession
      BY <1>5, <2>1, CommitLocal
    <3> QED
      BY <1>1, <1>2, <3>1 DEF StoreFits
  <2>2. CASE Holds(t, s)
    BY <1>4, <1>5, <2>2, RowAfter
  <2> QED
    BY <2>1, <2>2
<1>6. ASSUME NEW x \in rows'
      PROVE  x.shop \in Opened' /\ (x.by \in Requests => pc'[x.by] = "ok")
  <2>1. CASE x \in rows
    <3>1. x.by \in Requests => x.by \in Tasks /\ x.by # t /\ pc'[x.by] = pc[x.by]
      BY <1>1, <2>1, OnlyARequest DEF StoreFits, WorkTypeOK
    <3> QED
      BY <1>1, <1>2, <2>1, <3>1 DEF StoreFits
  <2>2. CASE x \in added[t]
    <3>1. t \in Requests
      BY <2>2 DEF SandboxIInv, TaskFits, SweepFits, Tasks
    <3>2. x \in Inserted(t) /\ t \notin Sweeps /\ ask[t].shop \in Sandboxes
      BY <1>1, <2>2, <3>1, RequestCommits
    <3>3. x.shop = ask[t].shop /\ x.by \in {ask[t].shop, t}
      BY <1>1, <3>1, <3>2, InsertedFits
    <3>4. pc'[t] = "ok" /\ ask[t].shop \notin Requests
      BY <1>1, <3>2, SandboxAssumption DEF WorkTypeOK
    <3> QED
      BY <1>4, <3>1, <3>3, <3>4
  <2> QED
    BY <1>1, <2>1, <2>2
<1> QED
  BY <1>3, <1>5, <1>6 DEF StoreFits

\* The counters and what they count, after a commit.
LEMMA CommitCounts ==
  ASSUME SandboxIInv, NEW t \in Tasks, Commit(t)
  PROVE  MadeFinite' /\ LedgerExact'
<1> SUFFICES ASSUME NEW s \in Sandboxes, registry'[s] # NoSession
             PROVE  /\ IsFiniteSet(Made(s, "appointment"))'
                    /\ IsFiniteSet(Made(s, "catalog"))'
                    /\ registry'[s].booked = Cardinality(Made(s, "appointment"))'
                    /\ registry'[s].written = Cardinality(Made(s, "catalog"))'
  BY DEF MadeFinite, LedgerExact
<1>1. registry[s] # NoSession =>
        /\ IsFiniteSet(Made(s, "appointment")) /\ IsFiniteSet(Made(s, "catalog"))
        /\ registry[s].booked = Cardinality(Made(s, "appointment"))
        /\ registry[s].written = Cardinality(Made(s, "catalog"))
  BY DEF SandboxIInv, MadeFinite, LedgerExact
<1>2. CASE ~Holds(t, s)
  <2>1. registry'[s] = registry[s] /\ \A x : x.shop = s => (x \in rows' <=> x \in rows)
    BY <1>2, CommitLocal
  <2>2. /\ Made(s, "appointment")' = Made(s, "appointment")
        /\ Made(s, "catalog")' = Made(s, "catalog")
    BY <2>1 DEF Made
  <2> QED
    BY <1>1, <2>1, <2>2
<1>3. CASE Holds(t, s)
  <2>1. /\ t \in Requests /\ ask[t].shop = s /\ ask[t].op # "end"
        /\ registry'[s] = draft[t] /\ pc[t] = "commit"
    BY <1>3, RowAfter DEF Commit
  <2>2. ask[t].op \in Operations /\ RequestFits(t)
    BY <2>1, RequestCommits
  <2>3. CASE ask[t].op \in {"start", "reset"}
    <3>1. Made(s, "appointment")' = {} /\ Made(s, "catalog")' = {}
      BY <2>1, <2>3, MadeAfter
    <3>2. draft[t].booked = 0 /\ draft[t].written = 0
      BY <2>1, <2>2, <2>3 DEF RequestFits, StartFits, DraftFits, ResetDone, Locking
    <3> QED
      BY <2>1, <3>1, <3>2, FS_EmptySet
  <2>4. CASE ask[t].op \notin {"start", "reset"}
    <3>1. /\ registry[s] # NoSession
          /\ draft[t].booked = registry[s].booked + Charge(t, "book")
          /\ draft[t].written = registry[s].written + Charge(t, "configure")
      BY <2>1, <2>2, <2>4 DEF RequestFits, DraftFits, ResetDone, Locking
    <3>2. registry[s] \in Sessions
      BY <3>1 DEF SandboxIInv, WorkTypeOK
    <3>3. registry[s].booked \in Nat /\ registry[s].written \in Nat
      BY <3>2 DEF Sessions
    <3>4. CASE ask[t].op = "book"
      <4>1. PICK x : /\ Made(s, "appointment")' = Made(s, "appointment") \cup {x}
                     /\ x \notin Made(s, "appointment")
        BY <2>1, <3>4, MadeAfter
      <4>2. Made(s, "catalog")' = Made(s, "catalog")
        BY <2>1, <3>4, MadeAfter
      <4>3. /\ IsFiniteSet(Made(s, "appointment"))'
            /\ Cardinality(Made(s, "appointment"))' = Cardinality(Made(s, "appointment")) + 1
        BY <1>1, <3>1, <4>1, FS_AddElement
      <4>4. Charge(t, "book") = 1 /\ Charge(t, "configure") = 0
        BY <2>1, <3>4 DEF Charge
      <4> QED
        BY <1>1, <2>1, <3>1, <3>3, <4>2, <4>3, <4>4
    <3>5. CASE ask[t].op = "configure"
      <4>1. PICK x : /\ Made(s, "catalog")' = Made(s, "catalog") \cup {x}
                     /\ x \notin Made(s, "catalog")
        BY <2>1, <3>5, MadeAfter
      <4>2. Made(s, "appointment")' = Made(s, "appointment")
        BY <2>1, <3>5, MadeAfter
      <4>3. /\ IsFiniteSet(Made(s, "catalog"))'
            /\ Cardinality(Made(s, "catalog"))' = Cardinality(Made(s, "catalog")) + 1
        BY <1>1, <3>1, <4>1, FS_AddElement
      <4>4. Charge(t, "book") = 0 /\ Charge(t, "configure") = 1
        BY <2>1, <3>5 DEF Charge
      <4> QED
        BY <1>1, <2>1, <3>1, <3>3, <4>2, <4>3, <4>4
    <3>6. CASE ask[t].op \in {"read", "signup"}
      <4>1. /\ Made(s, "appointment")' = Made(s, "appointment")
            /\ Made(s, "catalog")' = Made(s, "catalog")
        BY <2>1, <3>6, MadeAfter
      <4>2. Charge(t, "book") = 0 /\ Charge(t, "configure") = 0
        BY <3>6 DEF Charge
      <4> QED
        BY <1>1, <2>1, <3>1, <3>3, <4>1, <4>2
    <3> QED
      BY <2>1, <2>2, <2>4, <3>4, <3>5, <3>6 DEF Operations
  <2> QED
    BY <2>3, <2>4
<1> QED
  BY <1>2, <1>3

\* A row that loses its sandbox was left by a sweep.
LEMMA CommitOrphans ==
  ASSUME SandboxIInv, NEW t \in Tasks, Commit(t)
  PROVE  OrphansOnlyFromSweep'
<1> SUFFICES ASSUME NEW x \in rows', registry'[x.shop] = NoSession
             PROVE  x.shop \in swept'
  BY DEF OrphansOnlyFromSweep
<1> DEFINE s == x.shop
<1>1. /\ s \in Sandboxes /\ pc[t] = "commit" /\ swept \subseteq swept'
      /\ rows' = (rows \ removed[t]) \cup added[t]
      /\ t \in Sweeps => swept' = swept \cup {z \in gone[t] : registry[z] # NoSession}
  BY CommitTyped DEF WorkTypeOK, Rows, Commit
<1>2. x \in rows /\ registry[s] = NoSession => s \in swept'
  BY <1>1 DEF SandboxIInv, OrphansOnlyFromSweep
<1> HIDE DEF s
<1>3. CASE ~Holds(t, s)
  <2>1. registry'[s] = registry[s] /\ \A y : y.shop = s => (y \in rows' <=> y \in rows)
    BY <1>1, <1>3, CommitLocal
  <2>2. x \in rows
    BY <2>1 DEF s
  <2> QED
    BY <1>2, <2>1, <2>2 DEF s
<1>4. CASE Holds(t, s)
  <2>1. s \in gone[t]
    BY <1>1, <1>4, RowAfter DEF s
  <2>2. CASE t \in Requests
    <3>1. /\ ask[t].op = "end" /\ ask[t].shop = s
          /\ added[t] = {}
      <4>1. /\ gone[t] = IF ask[t].op = "end" THEN {ask[t].shop} ELSE {}
            /\ added[t] = Inserted(t)
        BY <1>1, <2>2, RequestCommits
      <4>2. ask[t].op = "end" /\ ask[t].shop = s
        BY <2>1, <4>1
      <4> QED
        BY <4>1, <4>2 DEF Inserted
    <3>2. {y \in rows : y.shop = s} \subseteq removed[t]
      BY <1>1, <2>2, <3>1, NothingLeft
    <3> QED
      BY <1>1, <3>1, <3>2 DEF s
  <2>3. CASE t \in Sweeps
    <3>1. added[t] = {}
      BY <2>3 DEF SandboxIInv, TaskFits, SweepFits
    <3> QED
      BY <1>1, <1>2, <2>1, <2>3, <3>1 DEF s
  <2> QED
    BY <2>2, <2>3 DEF Tasks
<1> QED
  BY <1>3, <1>4

\* A commit keeps the invariant.
LEMMA CommitKeeps ==
  ASSUME SandboxIInv, NEW t \in Tasks, Commit(t)
  PROVE  SandboxIInv'
<1>1. /\ WorkTypeOK /\ Close(t) /\ pc[t] = "commit"
      /\ pc' = [pc EXCEPT ![t] = IF t \in Sweeps THEN "idle" ELSE "ok"]
  BY DEF SandboxIInv, Commit, Go
<1>2. pc'[t] = (IF t \in Sweeps THEN "idle" ELSE "ok") /\ \A q \in Tasks \ {t} : pc'[q] = pc[q]
  BY <1>1 DEF WorkTypeOK
<1>3. \A q \in Tasks \ {t} : Idles(q)
  BY <1>1, <1>2, Closes
<1>4. \A q \in Tasks : TaskFits(q)'
  <2>1. TaskFits(t)'
    BY <1>1, <1>2, ClosedFits DEF Finished, Answers
  <2> QED
    BY <1>3, <2>1, CommitOthers
<1>5. OneHolder'
  <2>1. ask'[t].op # "start" /\ \A s \in Sandboxes : ~Holds(t, s)'
    BY <1>1, Closes DEF NoAsk
  <2>2. \A q \in Tasks \ {t}, s \in Sandboxes : Holds(q, s)' <=> Holds(q, s)
    BY <1>3 DEF Holds, Idles
  <2> QED
    BY <1>3, <2>1, <2>2 DEF SandboxIInv, OneHolder, Idles
<1> QED
  BY <1>4, <1>5, CommitTyped, CommitStores, CommitCounts, CommitOrphans DEF SandboxIInv

-----------------------------------------------------------------------------
(* The invariant.                                                          *)

\* The invariant holds before anybody arrives.
LEMMA InitFits == ASSUME Init PROVE SandboxIInv
<1> DEFINE new == [expires |-> Ttl, seen |-> 0, booked |-> 0, written |-> 0]
<1>1. \A t \in Tasks : /\ pc[t] = "idle" /\ ask[t] = NoAsk /\ queue[t] = {}
                       /\ draft[t] = NoSession /\ gone[t] = {} /\ added[t] = {}
                       /\ removed[t] = {}
  BY DEF Init
<1>2. new \in Sessions /\ new.booked = 0 /\ new.written = 0
  BY SandboxAssumption DEF Sessions
<1>3. \A x \in rows : x \in Rows /\ x.shop \in Standing /\ x.seeded = TRUE /\ x.by \in Sandboxes
  <2>1. \A s \in Standing : s \in Sandboxes /\ s \in Makers
    BY SandboxAssumption DEF Makers
  <2> SUFFICES ASSUME NEW s \in Standing, NEW x \in SeedOf(s, s)
               PROVE  x \in Rows /\ x.shop \in Standing /\ x.seeded = TRUE /\ x.by \in Sandboxes
    BY DEF Init
  <2>2. /\ SeedOf(s, s) \in SUBSET Rows
        /\ \A y \in SeedOf(s, s) : y.shop = s /\ y.seeded = TRUE /\ y.by = s
    BY <2>1, SeedIsRows
  <2> QED
    BY <2>1, <2>2
<1>4. /\ registry = [s \in Sandboxes |-> IF s \in Standing THEN new ELSE NoSession]
      /\ minted = Standing /\ swept = {}
      /\ tokens = {[shop |-> s, user |-> s] : s \in Standing}
  BY DEF Init
<1> HIDE DEF new
<1>5. WorkTypeOK
  <2>1. NoAsk \in AskType
    BY DEF NoAsk, AskType
  <2>2. /\ pc \in [Tasks -> Steps \cup Answers] /\ ask \in [Tasks -> AskType]
        /\ now \in [Tasks -> Nat] /\ queue \in [Tasks -> SUBSET Sandboxes]
        /\ draft \in [Tasks -> Sessions \cup {NoSession}]
        /\ gone \in [Tasks -> SUBSET Sandboxes]
        /\ added \in [Tasks -> SUBSET Rows] /\ removed \in [Tasks -> SUBSET Rows]
        /\ clock \in Nat
    BY <2>1 DEF Init, Steps
  <2>3. registry \in [Sandboxes -> Sessions \cup {NoSession}]
    BY <1>2, <1>4
  <2>4. tokens \subseteq [shop : Sandboxes, user : Makers] /\ minted \subseteq Sandboxes
    BY <1>4, SandboxAssumption DEF Makers
  <2> QED
    BY <1>3, <1>4, <2>2, <2>3, <2>4 DEF WorkTypeOK, AskType
<1>6. ASSUME NEW t \in Tasks PROVE TaskFits(t)
  <2>1. AskFits(t)
    BY <1>1 DEF AskFits, Finished, Purging
  <2>2. WrittenFits(t)
    BY <1>1 DEF WrittenFits, NoAsk, Locking, Purging
  <2>3. PurgedFits(t) /\ DraftFits(t) /\ StartFits(t)
    BY <1>1 DEF PurgedFits, Past, DraftFits, StartFits, Locking, Purging
  <2>4. SweepFits(t)
    BY <1>1 DEF SweepFits
  <2>5. ShopsFit(t)
    BY <1>1 DEF ShopsFit, NoAsk
  <2> QED
    BY <2>1, <2>2, <2>3, <2>4, <2>5 DEF TaskFits, RequestFits
<1>7. OneHolder
  BY <1>1 DEF OneHolder, Holds, NoAsk
<1>8. Opened = Standing
  <2>1. \A token \in tokens : token.shop \in Standing
    BY <1>4
  <2>2. ASSUME NEW s \in Standing PROVE \E token \in tokens : token.shop = s
    <3> DEFINE token == [shop |-> s, user |-> s]
    <3>1. token \in tokens /\ token.shop = s
      BY <1>4
    <3> QED
      BY <3>1
  <2> QED
    BY <2>1, <2>2 DEF Opened
<1>9. StoreFits
  BY <1>3, <1>4, <1>8, SandboxAssumption DEF StoreFits
<1>10. \A s \in Sandboxes : Made(s, "appointment") = {} /\ Made(s, "catalog") = {}
  BY <1>3 DEF Made
<1>11. MadeFinite
  BY <1>10, FS_EmptySet DEF MadeFinite
<1>12. LedgerExact
  <2>1. \A s \in Sandboxes : registry[s] # NoSession => registry[s] = new
    BY <1>4
  <2> QED
    BY <1>2, <1>10, <2>1, FS_EmptySet DEF LedgerExact
<1>13. OrphansOnlyFromSweep
  <2>1. new # NoSession
    BY <1>2, NoValueAssumption DEF Sessions
  <2>2. \A s \in Standing : registry[s] = new
    BY <1>4, SandboxAssumption
  <2> QED
    BY <1>3, <2>1, <2>2 DEF OrphansOnlyFromSweep
<1> QED
  BY <1>5, <1>6, <1>7, <1>9, <1>11, <1>12, <1>13 DEF SandboxIInv

\* Every step keeps it.
LEMMA StepKeeps == SandboxIInv /\ WaitIInv /\ [Next]_vars => SandboxIInv'
<1> SUFFICES ASSUME SandboxIInv, WaitIInv, [Next]_vars PROVE SandboxIInv'
  OBVIOUS
<1>1. CASE UNCHANGED vars
  BY <1>1, StutterKeeps DEF vars, SandboxIInv, WorkTypeOK
<1>2. ASSUME NEW r \in Requests, Start(r) \/ Arrive(r) PROVE SandboxIInv'
  BY <1>2, StartKeeps, ArriveKeeps
<1>3. ASSUME NEW t \in Tasks, Serve(t) PROVE SandboxIInv'
  <2>1. CASE t \in Requests /\ (Count(t) \/ Create(t) \/ Resolve(t) \/ Touch(t) \/ Admit(t)
                                \/ Write(t) \/ Seed(t))
    BY <2>1, CountKeeps, CreateKeeps, ResolveKeeps, TouchKeeps, AdmitKeeps, WriteKeeps,
       SeedKeeps
  <2>2. CASE Sweep(t)
    BY <2>2, SweepKeeps
  <2>3. CASE \E kind \in Kinds : Wait(t, kind) \/ Purge(t, kind)
    BY <2>3, PurgeKeeps, WaitKeeps
  <2>4. CASE Unregister(t)
    BY <2>4, UnregisterKeeps
  <2>5. CASE Commit(t)
    BY <2>5, CommitKeeps
  <2>6. CASE DeadlockVictim(t)
    BY <2>6, VictimKeeps
  <2> QED
    BY <1>3, <2>1, <2>2, <2>3, <2>4, <2>5, <2>6 DEF Serve
<1>4. CASE Tick
  BY <1>4, StutterKeeps DEF Tick, SandboxIInv, WorkTypeOK
<1>5. CASE AllServed
  BY <1>1, <1>5 DEF AllServed
<1> QED
  BY <1>1, <1>2, <1>3, <1>4, <1>5 DEF Next

\* Whoever goes on or closes has no DELETE waiting.
LEMMA SentForgotten ==
  ASSUME WaitIInv, NEW t \in Tasks, sent' = [sent EXCEPT ![t] = {}]
  PROVE  /\ sent' \in [Tasks -> SUBSET Rows] /\ sent'[t] = {}
         /\ \A q \in Tasks \ {t} : sent'[q] = sent[q]
BY DEF WaitIInv

\* What a DELETE is waiting for stays all there is: with the lock held, nobody
\* else adds a row to the sandbox or takes one from it.
LEMMA WaitStepKeeps == SandboxIInv /\ WaitIInv /\ [Next]_vars => WaitIInv'
<1> SUFFICES ASSUME SandboxIInv, WaitIInv, [Next]_vars PROVE WaitIInv'
  OBVIOUS
<1>1. WorkTypeOK /\ Requests \subseteq Tasks
  BY OnlyARequest DEF SandboxIInv
<1>2. ASSUME UNCHANGED <<rows, pc, ask, removed, sent>>
      PROVE  WaitIInv'
  BY <1>2 DEF WaitIInv, SentFits
<1>3. ASSUME NEW t \in Tasks, UNCHANGED rows,
             sent' \in [Tasks -> SUBSET Rows],
             \A q \in Tasks \ {t} : /\ pc'[q] = pc[q] /\ ask'[q] = ask[q]
                                   /\ removed'[q] = removed[q] /\ sent'[q] = sent[q],
             t \in Requests => SentFits(t)'
      PROVE  WaitIInv'
  BY <1>1, <1>3 DEF WaitIInv, SentFits
<1>4. ASSUME NEW r \in Requests, Start(r) \/ Arrive(r) PROVE WaitIInv'
  <2>1. /\ UNCHANGED <<rows, removed, sent>> /\ pc[r] = "idle"
        /\ \A q \in Tasks \ {r} : pc'[q] = pc[q] /\ ask'[q] = ask[q]
    BY <1>1, <1>4 DEF Start, Arrive, Go, transaction, db, WorkTypeOK
  <2>2. sent[r] = {}
    BY <2>1 DEF WaitIInv, SentFits, Purging
  <2> QED
    BY <1>1, <1>3, <2>1, <2>2 DEF WaitIInv, SentFits
<1>5. ASSUME NEW t \in Tasks, sent' = [sent EXCEPT ![t] = {}],
             UNCHANGED rows,
             \A q \in Tasks \ {t} : /\ pc'[q] = pc[q] /\ ask'[q] = ask[q]
                                   /\ removed'[q] = removed[q]
      PROVE  WaitIInv'
  BY <1>3, <1>5, SentForgotten DEF SentFits
<1>6. ASSUME NEW t \in Tasks, NEW answer, Fail(t, answer) PROVE WaitIInv'
  BY <1>1, <1>5, <1>6 DEF Fail, Close, Go, db, WorkTypeOK
<1>7. ASSUME NEW t \in Tasks, NEW step, Continue(t, step),
             \A q \in Tasks \ {t} : ask'[q] = ask[q] /\ removed'[q] = removed[q]
      PROVE  WaitIInv'
  BY <1>1, <1>5, <1>7 DEF Continue, Go, db, WorkTypeOK
<1>8. ASSUME NEW t \in Tasks, NEW kind \in Kinds, Wait(t, kind) PROVE WaitIInv'
  <2>1. /\ pc[t] = PurgeStep(kind) /\ UNCHANGED <<rows, pc, ask, removed>>
        /\ sent' = [sent EXCEPT ![t] = Targets(t, kind)]
    BY <1>8 DEF Wait, db
  <2>2. Targets(t, kind) \subseteq Rows
    BY <1>1 DEF Targets, WorkTypeOK
  <2>3. /\ sent' \in [Tasks -> SUBSET Rows] /\ sent'[t] = Targets(t, kind)
        /\ \A q \in Tasks \ {t} : sent'[q] = sent[q]
    BY <2>1, <2>2 DEF WaitIInv
  <2>4. /\ pc[t] \in Purging
        /\ \A k \in Kinds : PurgeStep(k) = pc[t] => k = kind
    BY <2>1 DEF PurgeStep, Purging, Kinds
  <2>5. SentFits(t)'
    BY <2>1, <2>3, <2>4 DEF SentFits, Targets
  <2> QED
    BY <1>3, <2>1, <2>3, <2>5
<1>9. ASSUME NEW t \in Tasks, Commit(t) PROVE WaitIInv'
  <2>1. /\ sent' = [sent EXCEPT ![t] = {}]
        /\ \A q \in Tasks \ {t} : /\ pc'[q] = pc[q] /\ ask'[q] = ask[q]
                                 /\ removed'[q] = removed[q]
    BY <1>1, <1>9 DEF Commit, Close, Go, WorkTypeOK
  <2>2. /\ sent' \in [Tasks -> SUBSET Rows] /\ sent'[t] = {}
        /\ \A q \in Tasks \ {t} : sent'[q] = sent[q]
    BY <2>1, SentForgotten
  <2>3. ASSUME NEW r \in Requests, r # t, sent[r] # {}
        PROVE  \A x : x.shop = ask[r].shop => (x \in rows' <=> x \in rows)
    <3>1. r \in Tasks /\ pc[r] \in Purging /\ RequestFits(r)
      BY <1>1, <2>3 DEF WaitIInv, SentFits, SandboxIInv, TaskFits
    <3>2. ask[r].shop \in Sandboxes /\ Holds(r, ask[r].shop)
      BY <3>1 DEF RequestFits, AskFits, WrittenFits, Holds, Locking, Purging, Finished, Answers
    <3>3. ~Holds(t, ask[r].shop)
      BY <2>3, <3>1, <3>2 DEF SandboxIInv, OneHolder
    <3> DEFINE z == ask[r].shop
    <3>4. z \in Sandboxes /\ ~Holds(t, z)
      BY <3>2, <3>3
    <3> HIDE DEF z
    <3>5. \A x : x.shop = z => (x \in rows' <=> x \in rows)
      BY <1>9, <3>4, CommitLocal
    <3> QED
      BY <3>5 DEF z
  <2>4. ASSUME NEW r \in Requests PROVE SentFits(r)'
    <3>1. CASE r = t
      BY <2>2, <3>1 DEF SentFits
    <3>2. CASE r # t
      <4>1. r \in Tasks \ {t} /\ SentFits(r)
        BY <1>1, <3>2 DEF WaitIInv
      <4> QED
        BY <2>1, <2>2, <2>3, <3>2, <4>1 DEF SentFits
    <3> QED
      BY <3>1, <3>2
  <2> QED
    BY <2>2, <2>4 DEF WaitIInv
<1>10. ASSUME NEW t \in Tasks, Serve(t), ~Commit(t) PROVE WaitIInv'
  <2>1. CASE Count(t) \/ Create(t) \/ Resolve(t)
    BY <1>6, <1>7, <2>1 DEF Count, Create, Resolve
  <2>2. CASE Touch(t) \/ Admit(t) \/ Write(t) \/ Seed(t)
    BY <1>6, <1>7, <2>2 DEF Touch, Admit, Write, Seed
  <2>3. CASE Sweep(t)
    BY <1>1, <1>7, <2>3 DEF Sweep, WorkTypeOK
  <2>4. ASSUME NEW kind \in Kinds, Purge(t, kind) PROVE WaitIInv'
    <3>1. CASE Fail(t, "conflict")
      BY <1>6, <3>1
    <3>2. CASE ~Fail(t, "conflict")
      <4>1. /\ Continue(t, AfterPurge(t, kind)) /\ ask' = ask
            /\ \A q \in Tasks \ {t} : removed'[q] = removed[q]
        BY <1>1, <2>4, <3>2 DEF Purge, WorkTypeOK
      <4> QED
        BY <1>7, <4>1
    <3> QED
      BY <3>1, <3>2
  <2>5. CASE Unregister(t)
    <3>1. /\ \E step : Continue(t, step)
          /\ removed' = removed /\ \A q \in Tasks \ {t} : ask'[q] = ask[q]
      BY <1>1, <2>5 DEF Unregister, WorkTypeOK
    <3> QED
      BY <1>7, <3>1
  <2>6. CASE DeadlockVictim(t)
    BY <1>6, <2>6 DEF DeadlockVictim
  <2> QED
    BY <1>8, <1>10, <2>1, <2>2, <2>3, <2>4, <2>5, <2>6 DEF Serve
<1>11. CASE Tick \/ AllServed \/ UNCHANGED vars
  BY <1>2, <1>11 DEF Tick, AllServed, vars, db, transaction
<1> QED
  BY <1>4, <1>9, <1>10, <1>11 DEF Next

LEMMA WaitInit == Init => WaitIInv
BY SandboxAssumption DEF Init, WaitIInv, SentFits, Tasks

\* Inductive: where each request and sweep is, what it has locked, written and
\* deleted fit what is stored, the counters are the rows, and only a sweep has
\* left rows behind;
\* a waiting DELETE has found all that it must remove.
THEOREM WaitingInvariant == Spec => [](SandboxIInv /\ WaitIInv)
<1>1. Init => SandboxIInv /\ WaitIInv
  BY InitFits, WaitInit
<1>2. SandboxIInv /\ WaitIInv /\ [Next]_vars => SandboxIInv' /\ WaitIInv'
  BY StepKeeps, WaitStepKeeps
<1> QED
  BY <1>1, <1>2, PTL DEF Spec

\* The part of it that says nothing of waiting DELETEs.
THEOREM SandboxInvariant == Spec => []SandboxIInv
BY WaitingInvariant, PTL

\* Every state of the sandboxes and of those who use them is well-typed.
THEOREM SandboxTypeOK == Spec => []TypeOK
<1>1. SandboxIInv /\ WaitIInv => TypeOK
  BY DEF SandboxIInv, WaitIInv, WorkTypeOK, TypeOK
<1> QED
  BY <1>1, WaitingInvariant, PTL

\* However many requests charge, reset, end and fail, the counters of a sandbox
\* are the numbers of its rows.
THEOREM CountersExact == Spec => []LedgerExact
<1>1. SandboxIInv => LedgerExact
  BY DEF SandboxIInv
<1> QED
  BY <1>1, SandboxInvariant, PTL

\* A visitor who ends a sandbox leaves no row behind, whatever the other tabs do
\* meanwhile.
THEOREM OrphansFromSweeps == Spec => []OrphansOnlyFromSweep
<1>1. SandboxIInv => OrphansOnlyFromSweep
  BY DEF SandboxIInv
<1> QED
  BY <1>1, SandboxInvariant, PTL

-----------------------------------------------------------------------------
(* The allowance.                                                          *)

\* Told by the registry alone, what a commit does to the sandboxes.
RegistryMoves ==
  \/ UNCHANGED registry
  \/ \E closed \in SUBSET Open :
       registry' = [s \in Sandboxes |-> IF s \in closed THEN NoSession ELSE registry[s]]
  \/ \E s \in Sandboxes, d \in Sessions :
       /\ registry' = [registry EXCEPT ![s] = d]
       /\ \/ /\ registry[s] = NoSession
             /\ d.booked = 0 /\ d.written = 0
          \/ /\ registry[s] # NoSession
             /\ \/ d.booked = 0 /\ d.written = 0
                \/ d.booked = registry[s].booked /\ d.written = registry[s].written
                \/ /\ d.booked = registry[s].booked + 1 /\ d.booked <= MaxBookings
                   /\ d.written = registry[s].written
                \/ /\ d.written = registry[s].written + 1 /\ d.written <= MaxWrites
                   /\ d.booked = registry[s].booked

\* A commit does to the registry what RegistryMoves says.
LEMMA CommitMoves ==
  ASSUME SandboxIInv, NEW t \in Tasks, Commit(t)
  PROVE  RegistryMoves
<1>1. /\ pc[t] = "commit" /\ WorkTypeOK
      /\ registry' = [z \in Sandboxes |->
                    IF z \in gone[t] THEN NoSession
                    ELSE IF draft[t] # NoSession /\ ask[t].shop = z THEN draft[t]
                    ELSE registry[z]]
  BY DEF Commit, SandboxIInv
<1>2. CASE t \in Sweeps \/ ask[t].op = "end"
  <2>1. \A z \in Sandboxes : z \notin gone[t] => ~(draft[t] # NoSession /\ ask[t].shop = z)
    <3>1. CASE t \in Requests
      <4>1. gone[t] = IF ask[t].op = "end" THEN {ask[t].shop} ELSE {}
        BY <1>1, <3>1, RequestCommits
      <4> QED
        BY <1>2, <3>1, <4>1, OnlyARequest
    <3>2. CASE t \in Sweeps
      BY <3>2 DEF SandboxIInv, TaskFits, SweepFits
    <3> QED
      BY <3>1, <3>2 DEF Tasks
  <2> DEFINE closed == gone[t] \cap Open
  <2>2. registry' = [s \in Sandboxes |-> IF s \in closed THEN NoSession ELSE registry[s]]
    BY <1>1, <2>1 DEF Open
  <2> QED
    BY <2>2 DEF RegistryMoves
<1>3. CASE t \in Requests /\ ask[t].op # "end"
  <2> DEFINE s == ask[t].shop
             d == draft[t]
  <2>1. /\ s \in Sandboxes /\ d \in Sessions /\ d # NoSession
        /\ gone[t] = {} /\ RequestFits(t) /\ ShopsFit(t) /\ ask[t].op \in Operations
    <3>1. /\ gone[t] = IF ask[t].op = "end" THEN {ask[t].shop} ELSE {}
          /\ s \in Sandboxes /\ d \in Sessions /\ d # NoSession
          /\ RequestFits(t) /\ ShopsFit(t) /\ ask[t].op \in Operations
      BY <1>1, <1>3, RequestCommits
    <3> QED
      BY <1>3, <3>1
  <2>2. registry' = [registry EXCEPT ![s] = d]
    BY <1>1, <2>1 DEF WorkTypeOK
  <2>3. CASE ask[t].op = "start"
    <3>1. registry[s] = NoSession
      BY <2>1, <2>3 DEF ShopsFit, SandboxIInv, StoreFits
    <3>2. d.booked = 0 /\ d.written = 0
      BY <1>1, <2>1, <2>3 DEF RequestFits, StartFits
    <3> QED
      BY <2>1, <2>2, <3>1, <3>2 DEF RegistryMoves
  <2>4. CASE ask[t].op # "start"
    <3>1. registry[s] # NoSession
      BY <1>1, <2>1, <2>4 DEF RequestFits, DraftFits, Locking
    <3>2. CASE ask[t].op = "reset"
      <4>1. d.booked = 0 /\ d.written = 0
        BY <1>1, <2>1, <3>2 DEF RequestFits, DraftFits, ResetDone, Locking
      <4> QED
        BY <2>1, <2>2, <3>1, <4>1 DEF RegistryMoves
    <3>3. CASE ask[t].op # "reset"
      <4>1. /\ d.booked = registry[s].booked + Charge(t, "book")
            /\ d.written = registry[s].written + Charge(t, "configure")
            /\ Charge(t, "book") = 1 => d.booked <= MaxBookings
            /\ Charge(t, "configure") = 1 => d.written <= MaxWrites
        BY <1>1, <2>1, <2>4, <3>3 DEF RequestFits, DraftFits, ResetDone, Locking
      <4>2. registry[s].booked \in Nat /\ registry[s].written \in Nat
        BY <1>1, <2>1, <3>1 DEF WorkTypeOK, Sessions
      <4>3. \/ Charge(t, "book") = 0 /\ Charge(t, "configure") = 0
            \/ Charge(t, "book") = 1 /\ Charge(t, "configure") = 0
            \/ Charge(t, "book") = 0 /\ Charge(t, "configure") = 1
        BY DEF Charge
      <4>4. \/ d.booked = registry[s].booked /\ d.written = registry[s].written
            \/ /\ d.booked = registry[s].booked + 1 /\ d.booked <= MaxBookings
               /\ d.written = registry[s].written
            \/ /\ d.written = registry[s].written + 1 /\ d.written <= MaxWrites
               /\ d.booked = registry[s].booked
        BY <4>1, <4>2, <4>3
      <4> QED
        BY <2>1, <2>2, <3>1, <4>4 DEF RegistryMoves
    <3> QED
      BY <3>2, <3>3
  <2> QED
    BY <2>3, <2>4
<1> QED
  BY <1>2, <1>3 DEF Tasks

\* Only a commit writes the registry.
LEMMA OnlyCommitWrites ==
  ASSUME [Next]_vars
  PROVE  UNCHANGED registry \/ \E t \in Tasks : Commit(t)
<1>1. ASSUME NEW r \in Requests, Start(r) \/ Arrive(r) PROVE UNCHANGED registry
  BY <1>1 DEF Start, Arrive, db
<1>2. ASSUME NEW t \in Tasks, Serve(t), ~Commit(t) PROVE UNCHANGED registry
  <2>1. ASSUME Count(t) \/ Create(t) \/ Resolve(t) PROVE UNCHANGED registry
    BY <2>1 DEF Count, Create, Resolve, Fail, Continue, db
  <2>2. ASSUME Touch(t) \/ Admit(t) \/ Write(t) \/ Seed(t) PROVE UNCHANGED registry
    BY <2>2 DEF Touch, Admit, Write, Seed, Fail, Continue, db
  <2>3. ASSUME NEW kind \in Kinds, Wait(t, kind) \/ Purge(t, kind)
        PROVE  UNCHANGED registry
    BY <2>3 DEF Wait, Purge, Fail, Continue, db
  <2>4. ASSUME Sweep(t) \/ Unregister(t) \/ DeadlockVictim(t) PROVE UNCHANGED registry
    BY <2>4 DEF Sweep, Unregister, DeadlockVictim, Fail, Continue, db
  <2> QED
    BY <1>2, <2>1, <2>2, <2>3, <2>4 DEF Serve
<1>3. Tick \/ AllServed \/ UNCHANGED vars => UNCHANGED registry
  BY DEF Tick, AllServed, vars, db
<1> QED
  BY <1>1, <1>2, <1>3 DEF Next

\* Only Tick moves the clock.
LEMMA OnlyTickMoves ==
  ASSUME [Next]_vars
  PROVE  clock' = clock \/ clock' = clock + 1
<1>1. ASSUME NEW r \in Requests, Start(r) \/ Arrive(r) PROVE clock' = clock
  BY <1>1 DEF Start, Arrive
<1>2. ASSUME NEW t \in Tasks, Serve(t) PROVE clock' = clock
  <2>1. ASSUME Count(t) \/ Create(t) \/ Resolve(t) PROVE clock' = clock
    BY <2>1 DEF Count, Create, Resolve, Fail, Continue
  <2>2. ASSUME Touch(t) \/ Admit(t) \/ Write(t) \/ Seed(t) PROVE clock' = clock
    BY <2>2 DEF Touch, Admit, Write, Seed, Fail, Continue
  <2>3. ASSUME NEW kind \in Kinds, Wait(t, kind) \/ Purge(t, kind) PROVE clock' = clock
    BY <2>3 DEF Wait, Purge, Fail, Continue
  <2>4. ASSUME Sweep(t) \/ Unregister(t) \/ DeadlockVictim(t) \/ Commit(t)
        PROVE  clock' = clock
    BY <2>4 DEF Sweep, Unregister, DeadlockVictim, Commit, Fail, Continue
  <2> QED
    BY <1>2, <2>1, <2>2, <2>3, <2>4 DEF Serve
<1>3. AllServed \/ UNCHANGED vars => clock' = clock
  BY DEF AllServed, vars
<1> QED
  BY <1>1, <1>2, <1>3 DEF Next, Tick

\* Every step does to the registry what RegistryMoves says.
LEMMA OnlyCommitMoves ==
  ASSUME SandboxIInv, [Next]_vars
  PROVE  RegistryMoves
BY OnlyCommitWrites, CommitMoves DEF RegistryMoves

\* What is used, read off the counters.
LEMMA UsedIsCounted ==
  ASSUME SandboxIInv
  PROVE  /\ Used("appointment") =
              [s \in Sandboxes |-> IF registry[s] # NoSession THEN registry[s].booked ELSE 0]
         /\ Used("catalog") =
              [s \in Sandboxes |-> IF registry[s] # NoSession THEN registry[s].written ELSE 0]
BY DEF SandboxIInv, LedgerExact, Used, Open

\* A sandbox uses up its bookings one by one, gets them back with a reset, and
\* gives them back when it goes.
THEOREM BookingQuotaKept == Spec => KeepsBookingQuota
<1> DEFINE counted == [s \in Sandboxes |-> IF registry[s] # NoSession
                                           THEN registry[s].booked ELSE 0]
<1>1. Init => Bookings!LedgerInit
  <2> SUFFICES ASSUME Init PROVE Bookings!LedgerInit
    OBVIOUS
  <2>1. Used("appointment") = counted
    BY InitFits, UsedIsCounted
  <2>2. \A s \in Sandboxes : counted[s] = 0
    BY DEF Init
  <2> QED
    BY <2>1, <2>2 DEF Bookings!LedgerInit, Open
<1>2. SandboxIInv /\ SandboxIInv' /\ [Next]_vars => [Bookings!LedgerNext]_(Bookings!ledgerVars)
  <2> SUFFICES ASSUME SandboxIInv, SandboxIInv', [Next]_vars
               PROVE  Bookings!LedgerNext \/ UNCHANGED Bookings!ledgerVars
    OBVIOUS
  <2>1. Used("appointment") = counted /\ Used("appointment")' = counted'
    BY DEF SandboxIInv, LedgerExact, Used, Open
  <2>2. registry \in [Sandboxes -> Sessions \cup {NoSession}]
    BY DEF SandboxIInv, WorkTypeOK
  <2>3. RegistryMoves
    BY OnlyCommitMoves
  <2>4. CASE UNCHANGED registry
    BY <2>1, <2>4 DEF Bookings!ledgerVars, Open
  <2>5. ASSUME NEW closed \in SUBSET Open,
               registry' = [s \in Sandboxes |-> IF s \in closed THEN NoSession ELSE registry[s]]
        PROVE  Bookings!Shut(closed)
    BY <2>1, <2>5 DEF Bookings!Shut, Open
  <2>6. ASSUME NEW s \in Sandboxes, NEW d \in Sessions, registry' = [registry EXCEPT ![s] = d]
        PROVE  /\ Open' = Open \cup {s}
               /\ counted' = [counted EXCEPT ![s] = d.booked]
    <3>1. d # NoSession
      BY NoValueAssumption DEF Sessions
    <3> QED
      BY <2>2, <2>6, <3>1 DEF Open
  <2> HIDE DEF counted
  <2>7. ASSUME NEW s \in Sandboxes, NEW d \in Sessions, registry' = [registry EXCEPT ![s] = d],
               registry[s] = NoSession, d.booked = 0
        PROVE  Bookings!Open(s)
    <3>1. s \notin Open /\ counted[s] = 0 /\ counted = [counted EXCEPT ![s] = 0]
      BY <2>7 DEF Open, counted
    <3> QED
      BY <2>1, <2>6, <2>7, <3>1 DEF Bookings!Open
  <2>8. ASSUME NEW s \in Sandboxes, NEW d \in Sessions, registry' = [registry EXCEPT ![s] = d],
               registry[s] # NoSession,
               \/ d.booked = 0
               \/ d.booked = registry[s].booked
               \/ d.booked = registry[s].booked + 1 /\ d.booked <= MaxBookings
        PROVE  Bookings!Refill(s) \/ UNCHANGED Bookings!ledgerVars \/ Bookings!Use(s)
    <3>1. /\ s \in Open /\ counted[s] = registry[s].booked
          /\ counted = [counted EXCEPT ![s] = registry[s].booked]
      BY <2>8 DEF Open, counted
    <3>2. Open' = Open /\ counted' = [counted EXCEPT ![s] = d.booked]
      <4>1. Open' = Open \cup {s} /\ counted' = [counted EXCEPT ![s] = d.booked]
        BY <2>6, <2>8
      <4> QED
        BY <3>1, <4>1
    <3>3. registry[s].booked \in Nat /\ MaxBookings \in Nat
      BY <2>2, <2>8, SandboxAssumption DEF Sessions
    <3>4. CASE d.booked = 0
      BY <2>1, <3>1, <3>2, <3>4 DEF Bookings!Refill
    <3>5. CASE d.booked = registry[s].booked
      BY <2>1, <3>1, <3>2, <3>5 DEF Bookings!ledgerVars
    <3>6. CASE d.booked = registry[s].booked + 1 /\ d.booked <= MaxBookings
      BY <2>1, <3>1, <3>2, <3>3, <3>6 DEF Bookings!Use
    <3> QED
      BY <2>8, <3>4, <3>5, <3>6
  <2> QED
    BY <2>3, <2>4, <2>5, <2>7, <2>8 DEF RegistryMoves, Bookings!LedgerNext
<1> QED
  BY <1>1, <1>2, SandboxInvariant, PTL DEF Spec, KeepsBookingQuota, Bookings!LedgerSpec

\* The same of the changes it allows.
THEOREM WriteQuotaKept == Spec => KeepsWriteQuota
<1> DEFINE counted == [s \in Sandboxes |-> IF registry[s] # NoSession
                                           THEN registry[s].written ELSE 0]
<1>1. Init => Changes!LedgerInit
  <2> SUFFICES ASSUME Init PROVE Changes!LedgerInit
    OBVIOUS
  <2>1. Used("catalog") = counted
    BY InitFits, UsedIsCounted
  <2>2. \A s \in Sandboxes : counted[s] = 0
    BY DEF Init
  <2> QED
    BY <2>1, <2>2 DEF Changes!LedgerInit, Open
<1>2. SandboxIInv /\ SandboxIInv' /\ [Next]_vars => [Changes!LedgerNext]_(Changes!ledgerVars)
  <2> SUFFICES ASSUME SandboxIInv, SandboxIInv', [Next]_vars
               PROVE  Changes!LedgerNext \/ UNCHANGED Changes!ledgerVars
    OBVIOUS
  <2>1. Used("catalog") = counted /\ Used("catalog")' = counted'
    BY DEF SandboxIInv, LedgerExact, Used, Open
  <2>2. registry \in [Sandboxes -> Sessions \cup {NoSession}]
    BY DEF SandboxIInv, WorkTypeOK
  <2>3. RegistryMoves
    BY OnlyCommitMoves
  <2>4. CASE UNCHANGED registry
    BY <2>1, <2>4 DEF Changes!ledgerVars, Open
  <2>5. ASSUME NEW closed \in SUBSET Open,
               registry' = [s \in Sandboxes |-> IF s \in closed THEN NoSession ELSE registry[s]]
        PROVE  Changes!Shut(closed)
    BY <2>1, <2>5 DEF Changes!Shut, Open
  <2>6. ASSUME NEW s \in Sandboxes, NEW d \in Sessions, registry' = [registry EXCEPT ![s] = d]
        PROVE  /\ Open' = Open \cup {s}
               /\ counted' = [counted EXCEPT ![s] = d.written]
    <3>1. d # NoSession
      BY NoValueAssumption DEF Sessions
    <3> QED
      BY <2>2, <2>6, <3>1 DEF Open
  <2> HIDE DEF counted
  <2>7. ASSUME NEW s \in Sandboxes, NEW d \in Sessions, registry' = [registry EXCEPT ![s] = d],
               registry[s] = NoSession, d.written = 0
        PROVE  Changes!Open(s)
    <3>1. s \notin Open /\ counted[s] = 0 /\ counted = [counted EXCEPT ![s] = 0]
      BY <2>7 DEF Open, counted
    <3> QED
      BY <2>1, <2>6, <2>7, <3>1 DEF Changes!Open
  <2>8. ASSUME NEW s \in Sandboxes, NEW d \in Sessions, registry' = [registry EXCEPT ![s] = d],
               registry[s] # NoSession,
               \/ d.written = 0
               \/ d.written = registry[s].written
               \/ d.written = registry[s].written + 1 /\ d.written <= MaxWrites
        PROVE  Changes!Refill(s) \/ UNCHANGED Changes!ledgerVars \/ Changes!Use(s)
    <3>1. /\ s \in Open /\ counted[s] = registry[s].written
          /\ counted = [counted EXCEPT ![s] = registry[s].written]
      BY <2>8 DEF Open, counted
    <3>2. Open' = Open /\ counted' = [counted EXCEPT ![s] = d.written]
      <4>1. Open' = Open \cup {s} /\ counted' = [counted EXCEPT ![s] = d.written]
        BY <2>6, <2>8
      <4> QED
        BY <3>1, <4>1
    <3>3. registry[s].written \in Nat /\ MaxWrites \in Nat
      BY <2>2, <2>8, SandboxAssumption DEF Sessions
    <3>4. CASE d.written = 0
      BY <2>1, <3>1, <3>2, <3>4 DEF Changes!Refill
    <3>5. CASE d.written = registry[s].written
      BY <2>1, <3>1, <3>2, <3>5 DEF Changes!ledgerVars
    <3>6. CASE d.written = registry[s].written + 1 /\ d.written <= MaxWrites
      BY <2>1, <3>1, <3>2, <3>3, <3>6 DEF Changes!Use
    <3> QED
      BY <2>8, <3>4, <3>5, <3>6
  <2> QED
    BY <2>3, <2>4, <2>5, <2>7, <2>8 DEF RegistryMoves, Changes!LedgerNext
<1> QED
  BY <1>1, <1>2, SandboxInvariant, PTL DEF Spec, KeepsWriteQuota, Changes!LedgerSpec

-----------------------------------------------------------------------------
(* Resets and lapses.                                                      *)

\* A task that is served moves alone, commits with Commit only, and a request
\* keeps its sandbox until it is answered.
LEMMA MovesAlone ==
  ASSUME SandboxIInv, NEW t \in Tasks, Serve(t)
  PROVE  /\ \A q \in Tasks \ {t} : pc'[q] = pc[q] /\ ask'[q] = ask[q]
         /\ pc[t] = "commit" => Commit(t)
         /\ t \in Requests =>
              /\ ask'[t] \in {ask[t], NoAsk}
              /\ pc[t] \notin Finished
              /\ pc[t] = "resolve" => Resolve(t)
<1>1. WorkTypeOK /\ (t \in Requests => t \notin Sweeps /\ RequestFits(t))
  BY OnlyARequest DEF SandboxIInv, TaskFits
<1>2. ASSUME NEW answer \in Answers, Fail(t, answer)
      PROVE  /\ \A q \in Tasks \ {t} : pc'[q] = pc[q] /\ ask'[q] = ask[q]
             /\ ask'[t] = NoAsk
  BY <1>1, <1>2 DEF Fail, Go, Close, WorkTypeOK
<1>3. ASSUME NEW step, Continue(t, step), ask' = ask
      PROVE  \A q \in Tasks \ {t} : pc'[q] = pc[q] /\ ask'[q] = ask[q]
  BY <1>1, <1>3 DEF Continue, Go, WorkTypeOK
<1>4. CASE t \in Requests /\ (Count(t) \/ Create(t))
  <2>1. \/ \E answer \in Answers : Fail(t, answer)
        \/ \E step : Continue(t, step) /\ ask' = ask
    BY <1>4 DEF Count, Create, Answers
  <2>2. pc[t] \in {"count", "create"}
    BY <1>4 DEF Count, Create
  <2> QED
    BY <1>2, <1>3, <2>1, <2>2 DEF Finished, Answers
<1>5. CASE t \in Requests /\ (Resolve(t) \/ Touch(t))
  <2>1. \/ \E answer \in Answers : Fail(t, answer)
        \/ \E step : Continue(t, step) /\ ask' = ask
    BY <1>5 DEF Resolve, Touch, Answers
  <2>2. pc[t] = "touch" \/ (pc[t] = "resolve" /\ Resolve(t))
    BY <1>5 DEF Resolve, Touch
  <2> QED
    BY <1>2, <1>3, <2>1, <2>2 DEF Finished, Answers
<1>6. CASE t \in Requests /\ (Admit(t) \/ Write(t) \/ Seed(t))
  <2>1. \/ \E answer \in Answers : Fail(t, answer)
        \/ \E step : Continue(t, step) /\ ask' = ask
    BY <1>6 DEF Admit, Write, Seed, Answers
  <2>2. pc[t] \in {"admit", "write", "seed"}
    BY <1>6 DEF Admit, Write, Seed
  <2> QED
    BY <1>2, <1>3, <2>1, <2>2 DEF Finished, Answers
<1>7. CASE Sweep(t)
  <2>1. t \notin Requests /\ pc[t] = "idle" /\ Continue(t, "purge_appointment")
    BY <1>1, <1>7 DEF Sweep
  <2>2. \A q \in Tasks \ {t} : ask'[q] = ask[q]
    BY <1>1, <1>7 DEF Sweep, WorkTypeOK
  <2> QED
    BY <1>1, <2>1, <2>2 DEF Continue, Go, WorkTypeOK
<1>8. ASSUME NEW kind \in Kinds, Purge(t, kind)
      PROVE  /\ \A q \in Tasks \ {t} : pc'[q] = pc[q] /\ ask'[q] = ask[q]
             /\ pc[t] \in Purging
             /\ ask'[t] \in {ask[t], NoAsk}
  <2>1. \/ \E answer \in Answers : Fail(t, answer)
        \/ \E step : Continue(t, step) /\ ask' = ask
    BY <1>8 DEF Purge, Answers
  <2>2. pc[t] \in Purging
    BY <1>8 DEF Purge, PurgeStep, Purging
  <2> QED
    BY <1>2, <1>3, <2>1, <2>2
<1>9. CASE Unregister(t)
  <2>1. pc[t] = "unregister" /\ \E step : Continue(t, step)
    BY <1>9 DEF Unregister
  <2>2. \A q \in Tasks \ {t} : ask'[q] = ask[q]
    BY <1>1, <1>9 DEF Unregister, WorkTypeOK
  <2>3. t \in Requests => ask' = ask
    <3>1. t \in Requests => queue[t] = {}
      BY <1>1 DEF RequestFits, WrittenFits
    <3> QED
      BY <1>9, <3>1 DEF Unregister
  <2>4. \A q \in Tasks \ {t} : pc'[q] = pc[q]
    BY <1>1, <2>1 DEF Continue, Go, WorkTypeOK
  <2> QED
    BY <2>1, <2>2, <2>3, <2>4 DEF Finished, Answers
<1>10. CASE Commit(t)
  <2>1. pc[t] = "commit" /\ Close(t)
    BY <1>10 DEF Commit
  <2>2. /\ \A q \in Tasks \ {t} : pc'[q] = pc[q] /\ ask'[q] = ask[q]
        /\ ask'[t] = NoAsk
    BY <1>1, <1>10 DEF Commit, Go, Close, WorkTypeOK
  <2> QED
    BY <1>10, <2>1, <2>2 DEF Finished, Answers
<1>11. CASE DeadlockVictim(t)
  <2>1. WaitsFor(t) # {} /\ Fail(t, "database_unavailable")
    BY <1>11 DEF DeadlockVictim, WaitsInCycle
  <2>2. pc[t] \in {"touch", "unregister", "write"} \cup Purging
    BY <2>1 DEF WaitsFor, Purging
  <2> QED
    BY <1>2, <2>1, <2>2 DEF Finished, Answers, Purging
<1>12. CASE \E kind \in Kinds : Purge(t, kind)
  BY <1>8, <1>12 DEF Finished, Answers, Purging
<1>13. CASE \E kind \in Kinds : Wait(t, kind)
  <2>1. UNCHANGED <<pc, ask>> /\ pc[t] \in Purging
    BY <1>13 DEF Wait, PurgeStep, Purging
  <2> QED
    BY <2>1 DEF Finished, Answers, Purging
<1> QED
  BY <1>4, <1>5, <1>6, <1>7, <1>9, <1>10, <1>11, <1>12, <1>13 DEF Serve

\* A reset leaves the seed and full counters, whatever was under way.
THEOREM ResetsAreClean == Spec => ResetIsClean
<1> DEFINE Clean(r) ==
      LET s == ask[r].shop
      IN  CommitsNow(r) /\ ask[r].op = "reset" =>
            /\ {x \in rows' : x.shop = s} = SeedOf(s, r)
            /\ registry'[s].booked = 0
            /\ registry'[s].written = 0
<1>1. SandboxIInv /\ [Next]_vars => [\A r \in Requests : Clean(r)]_vars
  <2> SUFFICES ASSUME SandboxIInv, [Next]_vars, NEW r \in Requests, CommitsNow(r),
                      ask[r].op = "reset"
               PROVE  LET s == ask[r].shop
                      IN  /\ {x \in rows' : x.shop = s} = SeedOf(s, r)
                          /\ registry'[s].booked = 0
                          /\ registry'[s].written = 0
    OBVIOUS
  <2>1. r \in Tasks /\ WorkTypeOK /\ pc[r] = "commit" /\ pc'[r] \in {"ok", "idle"}
    BY OnlyARequest DEF SandboxIInv, CommitsNow
  <2>2. Commit(r)
    <3>1. CASE \E q \in Requests : Start(q) \/ Arrive(q)
      BY <2>1, <3>1 DEF Start, Arrive, Go, WorkTypeOK
    <3>2. ASSUME NEW t \in Tasks, Serve(t) PROVE Commit(r)
      BY <2>1, <3>2, MovesAlone
    <3>3. CASE Tick \/ AllServed \/ UNCHANGED vars
      BY <2>1, <3>3 DEF Tick, AllServed, vars
    <3> QED
      BY <3>1, <3>2, <3>3 DEF Next
  <2> DEFINE s == ask[r].shop
  <2>3. /\ s \in Sandboxes /\ added[r] = SeedOf(s, r) /\ RequestFits(r)
        /\ draft[r] # NoSession /\ gone[r] = {} /\ r \in Makers
    <3>1. /\ s \in Sandboxes /\ added[r] = Inserted(r) /\ RequestFits(r)
          /\ draft[r] # NoSession
          /\ gone[r] = IF ask[r].op = "end" THEN {ask[r].shop} ELSE {}
      BY <2>1, RequestCommits
    <3> QED
      BY <3>1 DEF Inserted, Makers
  <2>4. registry'[s] = draft[r]
    BY <2>2, <2>3 DEF Commit
  <2>5. draft[r].booked = 0 /\ draft[r].written = 0
    BY <2>1, <2>3 DEF RequestFits, DraftFits, ResetDone, Locking
  <2>6. {x \in rows : x.shop = s} \subseteq removed[r]
    BY <2>1, NothingLeft
  <2>7. \A x \in added[r] : x.shop = s
    <3>1. \A x \in Inserted(r) : x.shop = ask[r].shop
      BY <2>1, InsertedFits
    <3>2. added[r] = Inserted(r)
      BY <2>1, RequestCommits
    <3> QED
      BY <3>1, <3>2
  <2>8. rows' = (rows \ removed[r]) \cup added[r]
    BY <2>2 DEF Commit
  <2>9. {x \in rows' : x.shop = s} = added[r]
    BY <2>6, <2>7, <2>8
  <2> QED
    BY <2>3, <2>4, <2>5, <2>9
<1> QED
  BY <1>1, SandboxInvariant, PTL DEF Spec, ResetIsClean

\* A sandbox nobody is using when it lapses stays lapsed.
THEOREM LapsesAreFinal == Spec => LapseIsFinal
<1>1. SandboxIInv /\ [Next]_vars =>
        [\A s \in Sandboxes : Lapsed(s) => ~Alive(registry[s], clock)' /\ ~InUse(s)']_vars
  <2> SUFFICES ASSUME SandboxIInv, [Next]_vars, NEW s \in Sandboxes, Lapsed(s)
               PROVE  ~Alive(registry'[s], clock') /\ ~InUse(s)'
    BY DEF Alive
  <2>1. /\ WorkTypeOK /\ registry[s] # NoSession /\ ~Alive(registry[s], clock) /\ ~InUse(s)
        /\ s \in minted
    BY DEF SandboxIInv, Lapsed, StoreFits
  <2>2. \A r \in Requests : ask[r].shop = s => pc[r] \in {"resolve"} \cup Finished
    BY <2>1 DEF InUse, Finished
  <2>3. ASSUME NEW r \in Requests, ask'[r].shop = s
        PROVE  pc'[r] \in {"resolve"} \cup Finished
    <3>1. r \in Tasks /\ NoAsk.shop # s
      BY OnlyARequest, NoValueAssumption DEF NoAsk
    <3>2. ASSUME NEW q \in Requests, Start(q) PROVE pc'[r] \in {"resolve"} \cup Finished
      <4>1. ask'[q].shop \notin minted
        BY <2>1, <3>2, OnlyARequest DEF Start, WorkTypeOK
      <4>2. q # r
        BY <2>1, <2>3, <4>1
      <4>3. pc'[r] = pc[r] /\ ask'[r] = ask[r]
        BY <2>1, <3>1, <3>2, <4>2 DEF Start, Go, WorkTypeOK
      <4> QED
        BY <2>2, <2>3, <4>3
    <3>3. ASSUME NEW q \in Requests, Arrive(q) PROVE pc'[r] \in {"resolve"} \cup Finished
      <4>1. CASE q = r
        BY <2>1, <3>1, <3>3, <4>1 DEF Arrive, Go, WorkTypeOK
      <4>2. CASE q # r
        <5>1. pc'[r] = pc[r] /\ ask'[r] = ask[r]
          BY <2>1, <3>1, <3>3, <4>2 DEF Arrive, Go, WorkTypeOK
        <5> QED
          BY <2>2, <2>3, <5>1
      <4> QED
        BY <4>1, <4>2
    <3>4. ASSUME NEW t \in Tasks, Serve(t) PROVE pc'[r] \in {"resolve"} \cup Finished
      <4>1. CASE t # r
        BY <2>2, <2>3, <3>1, <3>4, <4>1, MovesAlone
      <4>2. CASE t = r
        <5>1. ask'[r] \in {ask[r], NoAsk} /\ pc[r] \notin Finished
          BY <3>4, <4>2, MovesAlone
        <5>2. ask[r].shop = s
          BY <2>3, <3>1, <5>1
        <5>3. Resolve(r)
          BY <2>2, <3>4, <4>2, <5>1, <5>2, MovesAlone
        <5>4. Fail(r, "authentication_error")
          BY <2>1, <5>2, <5>3 DEF Resolve
        <5> QED
          BY <2>1, <3>1, <5>4, OnlyARequest DEF Fail, Go, WorkTypeOK, Finished, Answers
      <4> QED
        BY <4>1, <4>2
    <3>5. CASE Tick \/ AllServed \/ UNCHANGED vars
      BY <2>2, <2>3, <3>5 DEF Tick, AllServed, vars
    <3> QED
      BY <3>2, <3>3, <3>4, <3>5 DEF Next
  <2>4. ~InUse(s)'
    BY <2>3 DEF InUse, Finished
  <2>5. CASE UNCHANGED registry
    <3>1. clock' = clock \/ clock' = clock + 1
      BY OnlyTickMoves
    <3>2. registry[s] \in Sessions /\ clock \in Nat /\ IdleTimeout \in Nat
      BY <2>1, SandboxAssumption DEF WorkTypeOK
    <3> QED
      BY <2>1, <2>4, <2>5, <3>1, <3>2 DEF Alive, Sessions
  <2>6. ASSUME NEW t \in Tasks, Commit(t) PROVE ~Alive(registry'[s], clock')
    <3>1. clock' = clock /\ pc[t] = "commit"
      BY <2>6 DEF Commit
    <3>2. CASE ~Holds(t, s)
      BY <2>1, <2>6, <3>1, <3>2, CommitLocal
    <3>3. CASE Holds(t, s)
      <4>1. s \in gone[t]
        BY <2>2, <2>6, <3>1, <3>3, RowAfter DEF Finished, Answers
      <4> QED
        BY <2>6, <3>3, <4>1, RowAfter DEF Alive
    <3> QED
      BY <3>2, <3>3
  <2> QED
    BY <2>4, <2>5, <2>6, OnlyCommitWrites
<1> QED
  BY <1>1, SandboxInvariant, PTL DEF Spec, LapseIsFinal

-----------------------------------------------------------------------------
(* The cap.  create_session counts before it inserts, so the cap does not  *)
(* hold; how far it is exceeded is bounded by how many starts overlap.     *)

Live == {s \in Sandboxes : Unexpired(s)}

\* The requests that have been counted and have not committed or failed.
Starting == {r \in Requests : ask[r].op = "start" /\ pc[r] \in {"create", "commit"}}

AtMostStarting(n) == Cardinality(Starting) <= n
AtMostLive(n) == Cardinality(Live) <= n

\* Nobody but a start sets a time to live: a draft keeps the committed one.
ExpiryKept ==
  \A r \in Requests :
    draft[r] # NoSession /\ ask[r].op # "start" =>
      /\ registry[ask[r].shop] # NoSession
      /\ draft[r].expires = registry[ask[r].shop].expires

CapInv(n) ==
  /\ IsFiniteSet(Live)
  /\ Cardinality(Live) + Cardinality(Starting) < MaxActive + n

\* What a task does to the draft of a request, when it does not commit.
DraftMoves(t) ==
  /\ \A r \in Requests \ {t} : draft'[r] = draft[r] /\ ask'[r] = ask[r]
  /\ t \in Requests =>
       \/ draft'[t] = NoSession
       \/ ask'[t].op = "start"
       \/ draft'[t] = draft[t] /\ ask'[t] = ask[t]
       \/ /\ ask'[t] = ask[t] /\ registry[ask[t].shop] # NoSession
          /\ draft'[t].expires = registry[ask[t].shop].expires
       \/ /\ draft[t] # NoSession /\ ask'[t] = ask[t]
          /\ draft'[t].expires = draft[t].expires

LEMMA ServeDrafts ==
  ASSUME SandboxIInv, NEW t \in Tasks, Serve(t), ~Commit(t)
  PROVE  DraftMoves(t)
<1>1. WorkTypeOK /\ Requests \subseteq Tasks /\ (t \in Requests => t \notin Sweeps)
  BY OnlyARequest DEF SandboxIInv
<1>2. \A r \in Requests \ {t} : ask'[r] = ask[r]
  BY <1>1, MovesAlone
<1>3. ASSUME NEW answer, Fail(t, answer) PROVE DraftMoves(t)
  BY <1>1, <1>2, <1>3 DEF Fail, Close, WorkTypeOK, DraftMoves
<1>4. ASSUME draft' = draft, ask'[t] = ask[t] PROVE DraftMoves(t)
  BY <1>2, <1>4 DEF DraftMoves
<1>5. CASE t \in Requests /\ (Count(t) \/ Resolve(t) \/ Write(t))
  BY <1>3, <1>4, <1>5 DEF Count, Resolve, Write
<1>6. CASE t \in Requests /\ Create(t)
  <2>1. ask[t].op = "start"
    BY <1>6, OnlyARequest DEF Create, SandboxIInv, TaskFits, RequestFits, AskFits
  <2>2. ASSUME ask' = ask, \A r \in Requests \ {t} : draft'[r] = draft[r] PROVE DraftMoves(t)
    BY <2>1, <2>2 DEF DraftMoves
  <2> QED
    BY <1>1, <1>3, <1>6, <2>2 DEF Create, WorkTypeOK
<1>7. CASE t \in Requests /\ Touch(t)
  <2> DEFINE session == registry[ask[t].shop]
             touched == [session EXCEPT !.seen = now[t]]
  <2>1. CASE Fail(t, "database_unavailable")
    BY <1>3, <2>1
  <2>2. CASE session # NoSession /\ draft' = [draft EXCEPT ![t] = touched] /\ ask' = ask
    <3>1. ask[t].shop \in Sandboxes
      BY <1>7, OnlyARequest DEF Touch, SandboxIInv, TaskFits, RequestFits, AskFits, Finished,
         Answers
    <3>2. session \in Sessions
      BY <1>1, <2>2, <3>1 DEF WorkTypeOK
    <3>3. draft'[t] = touched /\ \A r \in Requests \ {t} : draft'[r] = draft[r]
      BY <1>1, <1>7, <2>2 DEF WorkTypeOK
    <3>4. touched.expires = session.expires
      BY <3>2 DEF Sessions
    <3> QED
      BY <2>2, <3>3, <3>4 DEF DraftMoves
  <2> QED
    BY <1>7, <2>1, <2>2 DEF Touch
<1>8. ASSUME t \in Requests, draft[t] \in Sessions, draft[t] # NoSession, ask' = ask,
             NEW d, d.expires = draft[t].expires, draft' = [draft EXCEPT ![t] = d]
      PROVE  DraftMoves(t)
  BY <1>1, <1>8 DEF DraftMoves, WorkTypeOK
<1>9. pc[t] \in {"admit", "seed"} /\ t \in Requests => draft[t] \in Sessions /\ draft[t] # NoSession
  BY <1>1 DEF SandboxIInv, TaskFits, RequestFits, WrittenFits, Locking, WorkTypeOK
<1>10. CASE t \in Requests /\ Admit(t)
  <2> DEFINE d == Charged(ask[t].op, draft[t])
  <2>1. draft[t] \in Sessions => d.expires = draft[t].expires
    BY DEF Charged, Sessions
  <2> HIDE DEF d
  <2>2. \/ \E answer : Fail(t, answer)
        \/ draft' = [draft EXCEPT ![t] = d] /\ ask' = ask
    BY <1>10 DEF Admit, d
  <2>3. pc[t] = "admit"
    BY <1>10 DEF Admit
  <2> QED
    BY <1>3, <1>8, <1>9, <1>10, <2>1, <2>2, <2>3
<1>11. CASE t \in Requests /\ Seed(t)
  <2> DEFINE d == [draft[t] EXCEPT !.booked = 0, !.written = 0, !.seen = clock]
  <2>1. draft[t] \in Sessions => d.expires = draft[t].expires
    BY DEF Sessions
  <2>2. draft' = [draft EXCEPT ![t] = d] /\ ask' = ask /\ pc[t] = "seed"
    BY <1>1, <1>11 DEF Seed, WorkTypeOK
  <2> HIDE DEF d
  <2> QED
    BY <1>8, <1>9, <1>11, <2>1, <2>2
<1>12. CASE Sweep(t)
  <2>1. t \notin Requests /\ draft' = draft
    BY <1>1, <1>12 DEF Sweep
  <2> QED
    BY <1>2, <2>1 DEF DraftMoves
<1>13. ASSUME NEW kind \in Kinds, Wait(t, kind) \/ Purge(t, kind) PROVE DraftMoves(t)
  BY <1>3, <1>4, <1>13 DEF Wait, Purge, DraftMoves
<1>14. CASE Unregister(t)
  <2>1. draft' = draft
    BY <1>14 DEF Unregister
  <2>2. t \in Requests => ask'[t] = ask[t]
    <3>1. t \in Requests => queue[t] = {}
      BY <1>1 DEF SandboxIInv, TaskFits, RequestFits, WrittenFits
    <3> QED
      BY <1>14, <3>1 DEF Unregister
  <2> QED
    BY <1>2, <2>1, <2>2 DEF DraftMoves
<1>15. CASE DeadlockVictim(t)
  BY <1>3, <1>15 DEF DeadlockVictim
<1> QED
  BY <1>5, <1>6, <1>7, <1>10, <1>11, <1>12, <1>13, <1>14, <1>15 DEF Serve

LEMMA ExpiryStays ==
  ASSUME SandboxIInv, ExpiryKept, [Next]_vars
  PROVE  ExpiryKept'
<1>1. WorkTypeOK /\ Requests \subseteq Tasks
  BY OnlyARequest DEF SandboxIInv
<1>2. ASSUME NEW r \in Requests, Start(r) \/ Arrive(r) PROVE ExpiryKept'
  <2>1. UNCHANGED <<draft, registry>> /\ pc[r] = "idle"
    BY <1>2 DEF Start, Arrive, transaction, db
  <2>2. draft[r] = NoSession
    BY <1>2, <2>1, EmptyHanded DEF Locking, Purging
  <2>3. \A q \in Requests \ {r} : ask'[q] = ask[q]
    BY <1>1, <1>2 DEF Start, Arrive, WorkTypeOK
  <2> QED
    BY <2>1, <2>2, <2>3 DEF ExpiryKept
<1>3. ASSUME NEW t \in Tasks, Serve(t), ~Commit(t) PROVE ExpiryKept'
  <2>1. DraftMoves(t)
    BY <1>3, ServeDrafts
  <2>2. UNCHANGED registry
    <3>1. Count(t) \/ Create(t) \/ Resolve(t) => UNCHANGED registry
      BY DEF Count, Create, Resolve, Fail, Continue, db
    <3>2. Touch(t) \/ Admit(t) \/ Write(t) \/ Seed(t) => UNCHANGED registry
      BY DEF Touch, Admit, Write, Seed, Fail, Continue, db
    <3>3. \A kind \in Kinds : Wait(t, kind) \/ Purge(t, kind) => UNCHANGED registry
      BY DEF Wait, Purge, Fail, Continue, db
    <3>4. Sweep(t) \/ Unregister(t) \/ DeadlockVictim(t) => UNCHANGED registry
      BY DEF Sweep, Unregister, DeadlockVictim, Fail, Continue, db
    <3> QED
      BY <1>3, <3>1, <3>2, <3>3, <3>4 DEF Serve
  <2> SUFFICES ASSUME NEW r \in Requests, draft'[r] # NoSession, ask'[r].op # "start"
               PROVE  /\ registry[ask'[r].shop] # NoSession
                      /\ draft'[r].expires = registry[ask'[r].shop].expires
    BY <2>2 DEF ExpiryKept
  <2> QED
    BY <2>1 DEF DraftMoves, ExpiryKept
<1>4. ASSUME NEW t \in Tasks, Commit(t) PROVE ExpiryKept'
  <2> SUFFICES ASSUME NEW r \in Requests, draft'[r] # NoSession, ask'[r].op # "start"
               PROVE  /\ registry'[ask'[r].shop] # NoSession
                      /\ draft'[r].expires = registry'[ask'[r].shop].expires
    BY DEF ExpiryKept
  <2>1. r # t /\ r \in Tasks
    BY <1>1, <1>4 DEF Commit, Close, WorkTypeOK
  <2>2. draft'[r] = draft[r] /\ ask'[r] = ask[r]
    BY <1>1, <1>4, <2>1 DEF Commit, Close, WorkTypeOK
  <2>3. ask[r].shop \in Sandboxes /\ Holds(r, ask[r].shop)
    BY <2>1, <2>2 DEF SandboxIInv, TaskFits, RequestFits, AskFits, WrittenFits, Holds, Locking,
       Purging, Finished, Answers
  <2>4. ~Holds(t, ask[r].shop)
    BY <2>1, <2>3 DEF SandboxIInv, OneHolder
  <2>5. registry'[ask[r].shop] = registry[ask[r].shop]
    BY <1>4, <2>3, <2>4, CommitLocal
  <2> QED
    BY <2>2, <2>5 DEF ExpiryKept
<1>5. CASE Tick \/ AllServed \/ UNCHANGED vars
  BY <1>5 DEF Tick, AllServed, vars, db, transaction, ExpiryKept
<1> QED
  BY <1>2, <1>3, <1>4, <1>5 DEF Next

\* Sandboxes come alive by the commit of a start only.
LEMMA LiveMoves ==
  ASSUME SandboxIInv, ExpiryKept, [Next]_vars
  PROVE  \/ Live' \subseteq Live
         \/ \E t \in Starting : Commit(t) /\ Live' \subseteq Live \cup {ask[t].shop}
<1>1. WorkTypeOK
  BY DEF SandboxIInv
<1>2. CASE UNCHANGED registry
  <2>1. clock \in Nat /\ (clock' = clock \/ clock' = clock + 1)
    BY <1>1, OnlyTickMoves DEF WorkTypeOK
  <2>2. \A s \in Sandboxes : registry[s] # NoSession => registry[s].expires \in Nat
    BY <1>1 DEF WorkTypeOK, Sessions
  <2> QED
    BY <1>2, <2>1, <2>2 DEF Live, Unexpired
<1>3. ASSUME NEW t \in Tasks, Commit(t)
      PROVE  \/ Live' \subseteq Live
             \/ t \in Starting /\ Live' \subseteq Live \cup {ask[t].shop}
  <2>1. clock' = clock /\ pc[t] = "commit"
    BY <1>3 DEF Commit
  <2>2. ASSUME NEW s \in Live', s \notin Live
        PROVE  t \in Starting /\ s = ask[t].shop
    <3>1. s \in Sandboxes /\ registry'[s] # NoSession /\ registry'[s].expires > clock
      BY <2>1, <2>2 DEF Live, Unexpired
    <3>2. Holds(t, s)
      BY <1>3, <2>2, <3>1, CommitLocal DEF Live, Unexpired
    <3>3. t \in Requests /\ ask[t].shop = s /\ registry'[s] = draft[t] /\ draft[t] # NoSession
      BY <1>3, <3>1, <3>2, RowAfter
    <3>4. ask[t].op = "start"
      BY <2>2, <3>1, <3>3 DEF ExpiryKept, Live, Unexpired
    <3> QED
      BY <2>1, <3>3, <3>4 DEF Starting
  <2> QED
    BY <2>2
<1> QED
  BY <1>2, <1>3, OnlyCommitWrites

\* Requests start by being counted while there is room.
LEMMA StartingMoves ==
  ASSUME SandboxIInv, IsFiniteSet(Live), [Next]_vars
  PROVE  /\ \/ Starting' \subseteq Starting
            \/ \E r : /\ Starting' \subseteq Starting \cup {r}
                      /\ Cardinality(Live) < MaxActive /\ Live' = Live
         /\ \A t \in Starting : Commit(t) => Starting' \subseteq Starting \ {t}
<1>1. WorkTypeOK /\ Requests \subseteq Tasks
  BY OnlyARequest DEF SandboxIInv
<1>2. ASSUME NEW r \in Requests, Start(r) \/ Arrive(r) PROVE Starting' \subseteq Starting
  <2>1. pc'[r] \in {"count", "resolve"} /\ \A q \in Requests \ {r} : pc'[q] = pc[q] /\ ask'[q] = ask[q]
    BY <1>1, <1>2 DEF Start, Arrive, Go, WorkTypeOK
  <2> QED
    BY <2>1 DEF Starting
<1>3. ASSUME NEW t \in Tasks, Serve(t), t \notin Starting'
      PROVE  Starting' \subseteq Starting \ {t}
  <2>1. \A q \in Requests \ {t} : pc'[q] = pc[q] /\ ask'[q] = ask[q]
    BY <1>1, <1>3, MovesAlone
  <2> QED
    BY <1>3, <2>1 DEF Starting
<1>4. ASSUME NEW t \in Tasks, Serve(t), t \in Starting', t \notin Starting
      PROVE  /\ Starting' \subseteq Starting \cup {t}
             /\ Cardinality(Live) < MaxActive /\ Live' = Live
  <2>1. t \in Requests /\ ask'[t].op = "start" /\ pc'[t] \in {"create", "commit"}
    BY <1>4 DEF Starting
  <2>2. ask[t].op = "start" /\ pc[t] \notin Finished
    BY <1>4, <2>1, MovesAlone DEF NoAsk
  <2>3. pc[t] = "count"
    <3>1. pc[t] \in Steps \cup Answers /\ AskFits(t)
      BY <1>1, <2>1 DEF WorkTypeOK, SandboxIInv, TaskFits, RequestFits
    <3> QED
      BY <1>4, <2>1, <2>2, <3>1 DEF AskFits, Starting, Steps, Finished, Purging
  <2>4. Count(t)
    <3>1. ~Sweep(t) /\ ~Unregister(t) /\ ~Commit(t)
      BY <2>3 DEF Sweep, Unregister, Commit
    <3>2. ~DeadlockVictim(t)
      BY <2>3 DEF DeadlockVictim, WaitsInCycle, WaitsFor
    <3>3. \A kind \in Kinds : ~Wait(t, kind) /\ ~Purge(t, kind)
      BY <2>3 DEF Wait, Purge, PurgeStep
    <3> QED
      BY <1>4, <2>3, <3>1, <3>2, <3>3
      DEF Serve, Create, Resolve, Touch, Admit, Write, Seed
  <2>5. Cardinality(Live) < MaxActive /\ UNCHANGED <<registry, clock>>
    <3>1. ~Fail(t, "demo_capacity_reached")
      BY <1>1, <2>1, OnlyARequest DEF Fail, Go, WorkTypeOK
    <3>2. ~(Cardinality(Live) >= MaxActive) /\ UNCHANGED <<registry, clock>>
      BY <2>4, <3>1 DEF Count, Live, Continue, db
    <3>3. Cardinality(Live) \in Nat /\ MaxActive \in Nat
      BY FS_CardinalityType, SandboxAssumption
    <3> QED
      BY <3>2, <3>3
  <2>6. \A q \in Requests \ {t} : pc'[q] = pc[q] /\ ask'[q] = ask[q]
    BY <1>1, <1>4, MovesAlone
  <2> QED
    BY <2>5, <2>6 DEF Live, Unexpired, Starting
<1>5. ASSUME NEW t \in Tasks, Serve(t), t \in Starting
      PROVE  Starting' \subseteq Starting
  BY <1>1, <1>5, MovesAlone DEF Starting
<1>6. ASSUME Tick \/ AllServed \/ UNCHANGED vars PROVE Starting' \subseteq Starting
  <2>1. UNCHANGED <<pc, ask>>
    BY <1>6 DEF Tick, AllServed, vars, transaction
  <2> QED
    BY <2>1 DEF Starting
<1>7. ASSUME NEW t \in Starting, Commit(t)
      PROVE  Starting' \subseteq Starting \ {t}
  <2>1. t \in Tasks /\ Serve(t)
    BY <1>1, <1>7 DEF Serve, Starting
  <2>2. t \notin Starting'
    BY <1>1, <1>7, <2>1 DEF Commit, Close, NoAsk, WorkTypeOK, Starting
  <2> QED
    BY <1>3, <2>1, <2>2
<1>8. \/ Starting' \subseteq Starting
      \/ \E r : /\ Starting' \subseteq Starting \cup {r}
                /\ Cardinality(Live) < MaxActive /\ Live' = Live
  BY <1>2, <1>3, <1>4, <1>5, <1>6 DEF Next
<1> QED
  BY <1>7, <1>8

\* The bound on both together is inductive while at most n start at once.
LEMMA CapStep ==
  ASSUME NEW n \in Nat \ {0}, SandboxIInv, ExpiryKept, CapInv(n), AtMostStarting(n)',
         [Next]_vars
  PROVE  CapInv(n)'
<1>1. /\ IsFiniteSet(Live) /\ IsFiniteSet(Starting) /\ IsFiniteSet(Starting')
      /\ MaxActive \in Nat
  <2>1. Starting \subseteq Requests /\ Starting' \subseteq Requests
    BY DEF Starting
  <2> QED
    BY <2>1, FS_Subset, SandboxAssumption DEF CapInv
<1>2. Cardinality(Live) \in Nat /\ Cardinality(Starting) \in Nat /\ Cardinality(Starting') \in Nat
  BY <1>1, FS_CardinalityType
<1>3. CASE Live' \subseteq Live /\ Starting' \subseteq Starting
  <2>1. /\ IsFiniteSet(Live') /\ Cardinality(Live') \in Nat
        /\ Cardinality(Live') <= Cardinality(Live)
        /\ Cardinality(Starting') <= Cardinality(Starting)
    BY <1>1, <1>3, FS_Subset, FS_CardinalityType
  <2> QED
    BY <1>1, <1>2, <2>1 DEF CapInv
<1>4. CASE Live' = Live /\ Cardinality(Live) < MaxActive
  BY <1>1, <1>2, <1>4 DEF CapInv, AtMostStarting
<1>5. ASSUME NEW t \in Starting, Live' \subseteq Live \cup {ask[t].shop},
             Starting' \subseteq Starting \ {t}
      PROVE  CapInv(n)'
  <2> DEFINE s == ask[t].shop
  <2> HIDE DEF s
  <2>1. /\ IsFiniteSet(Live \cup {s})
        /\ Cardinality(Live \cup {s}) <= Cardinality(Live) + 1
        /\ Cardinality(Live \cup {s}) \in Nat
    <3>1. /\ IsFiniteSet(Live \cup {s})
          /\ Cardinality(Live \cup {s}) = Cardinality(Live)
             \/ Cardinality(Live \cup {s}) = Cardinality(Live) + 1
      BY <1>1, FS_AddElement
    <3> QED
      BY <1>2, <3>1
  <2>2. /\ IsFiniteSet(Live') /\ Cardinality(Live') \in Nat
        /\ Cardinality(Live') <= Cardinality(Live \cup {s})
    BY <1>5, <2>1, FS_Subset, FS_CardinalityType DEF s
  <2>3. /\ IsFiniteSet(Starting \ {t})
        /\ Cardinality(Starting \ {t}) = Cardinality(Starting) - 1
    BY <1>1, <1>5, FS_RemoveElement
  <2>4. Cardinality(Starting') <= Cardinality(Starting \ {t})
    BY <1>5, <2>3, FS_Subset
  <2> QED
    BY <1>1, <1>2, <2>1, <2>2, <2>3, <2>4 DEF CapInv
<1> QED
  BY <1>3, <1>4, <1>5, LiveMoves, StartingMoves DEF CapInv

\* Both hold at the start when what stands there is within the cap.
LEMMA CapInit ==
  ASSUME NEW n \in Nat \ {0},
         IsFiniteSet(Standing), Cardinality(Standing) <= MaxActive, Init
  PROVE  ExpiryKept /\ CapInv(n)
<1>1. Live \subseteq Standing
  BY DEF Init, Live, Unexpired
<1>2. /\ IsFiniteSet(Live) /\ Cardinality(Live) <= Cardinality(Standing)
      /\ Cardinality(Live) \in Nat /\ Cardinality(Standing) \in Nat
  BY <1>1, FS_Subset, FS_CardinalityType
<1>3. Starting = {} /\ Requests \subseteq Tasks
  BY DEF Init, Starting, Tasks
<1>4. Cardinality(Starting) = 0
  BY <1>3, FS_EmptySet
<1>5. CapInv(n)
  BY <1>2, <1>4, SandboxAssumption DEF CapInv
<1>6. ExpiryKept
  BY <1>3 DEF Init, ExpiryKept
<1> QED
  BY <1>5, <1>6

LEMMA CapBoundsLive ==
  ASSUME NEW n \in Nat \ {0}, CapInv(n)
  PROVE  AtMostLive(MaxActive + n - 1)
<1>1. Starting \subseteq Requests
  BY DEF Starting
<1>2. IsFiniteSet(Starting)
  BY <1>1, FS_Subset, SandboxAssumption
<1>3. Cardinality(Starting) \in Nat
  BY <1>2, FS_CardinalityType
<1> QED
  BY <1>3, FS_CardinalityType, SandboxAssumption DEF CapInv, AtMostLive

\* README says the cap holds because it is a database count.  It holds up to
\* the race: when never more than n starts overlap, it is exceeded by at most
\* n - 1 sandboxes.
THEOREM CapUpToRaces ==
  ASSUME NEW n \in Nat \ {0},
         IsFiniteSet(Standing), Cardinality(Standing) <= MaxActive
  PROVE  Spec /\ []AtMostStarting(n) => []AtMostLive(MaxActive + n - 1)
<1>1. Init => ExpiryKept /\ CapInv(n)
  BY CapInit
<1>2. SandboxIInv /\ ExpiryKept /\ CapInv(n) /\ AtMostStarting(n)' /\ [Next]_vars
        => ExpiryKept' /\ CapInv(n)'
  BY ExpiryStays, CapStep
<1>3. CapInv(n) => AtMostLive(MaxActive + n - 1)
  BY CapBoundsLive
<1> QED
  BY <1>1, <1>2, <1>3, SandboxInvariant, PTL DEF Spec

\* One start at a time, and the cap holds.
THEOREM CapHoldsAlone ==
  ASSUME IsFiniteSet(Standing), Cardinality(Standing) <= MaxActive
  PROVE  Spec /\ []AtMostStarting(1) => []CapHolds
<1>1. Init => ExpiryKept /\ CapInv(1)
  BY CapInit
<1>2. SandboxIInv /\ ExpiryKept /\ CapInv(1) /\ AtMostStarting(1)' /\ [Next]_vars
        => ExpiryKept' /\ CapInv(1)'
  BY ExpiryStays, CapStep
<1>3. CapInv(1) => CapHolds
  <2>1. CapInv(1) => AtMostLive(MaxActive + 1 - 1)
    BY CapBoundsLive
  <2> QED
    BY <2>1, SandboxAssumption DEF AtMostLive, Live, CapHolds
<1> QED
  BY <1>1, <1>2, <1>3, SandboxInvariant, PTL DEF Spec
=============================================================================
