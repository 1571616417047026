-------------------------- MODULE BackOfficeProofs --------------------------
(***************************************************************************)
(* Proofs about BackOffice for every set of tasks, jobs and stored rows:   *)
(* type correctness, the unique keys, the opening times, that a request    *)
(* writes in its own shop and crosses to another by removing the absence   *)
(* it names only, that duplicates need requests that overlap, and that a   *)
(* week is stored as submitted when nobody else commits.                   *)
(***************************************************************************)
EXTENDS BackOffice, TLAPS

Working == {"look", "insert", "update", "delete"}
Done == {"idle"} \cup Answers

\* The rows named id are the committed ones from before or from an accepted
\* task.
Known(id) == id[1] = Before \/ (id[1] \in Tasks /\ pc[id[1]] = "ok")

\* Two versions of one row; only catalogue entries get another key.
SameRow(x, y) ==
  /\ x.table = y.table
  /\ x.shop = y.shop
  /\ x.table \notin {"service", "extra"} => x.key = y.key

RowFor(t, n) ==
  LET x == job[t].targets[n]
  IN  [table |-> x.table, shop |-> job[t].shop, id |-> <<t, n>>, key |-> x.key,
       opens |-> x.opens, closes |-> x.closes, closed |-> x.closed, by |-> t]

JobFits(t) ==
  /\ pc[t] = "idle" => at[t] = 1
  /\ pc[t] # "idle" => job[t] \in Jobs[t] /\ at[t] \in 1 .. Len(job[t].targets) + 1
  /\ pc[t] \in Working => at[t] <= Len(job[t].targets)
  /\ pc[t] \in Done => added[t] = {} /\ updated[t] = {} /\ removed[t] = {}
  /\ pc[t] = "update" => Target(t).kind \in {"replace", "rename"}
  /\ pc[t] = "delete" => Target(t).kind = "remove"

\* What t has inserted is what its earlier targets ask for.
AddedFits(t) == \A x \in added[t] : \E n \in 1 .. at[t] - 1 : x = RowFor(t, n)

\* What t has changed are versions of stored rows of its shop.
UpdatedFits(t) ==
  /\ \A x \in updated[t] :
       /\ x.table \in {"hours", "service", "extra"}
       /\ x.shop = job[t].shop
       /\ Fits(x)
       /\ \E n \in 1 .. at[t] - 1 :
            /\ x.table = job[t].targets[n].table
            /\ x.table = "hours" => x.key = job[t].targets[n].key
       /\ \E y \in rows : y.id = x.id /\ SameRow(y, x)
  /\ \A x, y \in updated[t] : x.id = y.id => x = y

\* What t has deleted are absences.
RemovedFits(t) ==
  \A x \in removed[t] :
    /\ Known(x.id)
    /\ \A y \in rows : y.id = x.id => y.table = "absence"

\* The row a request names is a row of the table it is about.
NamedFits(t) ==
  pc[t] = "look" /\ Target(t).kind \in {"rename", "remove"} =>
    /\ named[t] \in Rows
    /\ Known(named[t].id)
    /\ \A y \in rows : y.id = named[t].id => y.table = Target(t).table

\* What t has loaded to write to is a version of the row it is about.
LoadedFits(t) ==
  pc[t] \in {"update", "delete"} =>
    /\ loaded[t] \in Rows
    /\ Known(loaded[t].id)
    /\ loaded[t].table = Target(t).table
    /\ loaded[t].table # "absence" => loaded[t].shop = job[t].shop
    /\ Target(t).kind = "replace" => loaded[t].key = Target(t).key
    /\ \A y \in rows : y.id = loaded[t].id => SameRow(y, loaded[t])

\* Nothing inserted collides with what is stored or with another insert.
NoClash ==
  \A t \in Tasks : \A x \in added[t] :
    /\ \A y \in rows : ~Collides(x, y)
    /\ \A q \in Tasks \ {t} : \A y \in added[q] : ~Collides(x, y)

RowsFit ==
  /\ \A x \in rows : Known(x.id) /\ Fits(x)
  /\ \A x, y \in rows : x.id # y.id => ~Collides(x, y)

TaskFits(t) ==
  /\ JobFits(t)
  /\ AddedFits(t)
  /\ UpdatedFits(t)
  /\ RemovedFits(t)
  /\ NamedFits(t)
  /\ LoadedFits(t)

BackOfficeIInv ==
  /\ TypeOK
  /\ RowsFit
  /\ NoClash
  /\ \A t \in Tasks : TaskFits(t)

-----------------------------------------------------------------------------
(* Steps that commit nothing.                                              *)

\* An accepted task stays accepted.
OkStays == \A p \in Tasks : pc[p] = "ok" => pc'[p] = "ok"

\* Nothing of q changes.
Idles(q) ==
  /\ pc'[q] = pc[q]
  /\ job'[q] = job[q]
  /\ at'[q] = at[q]
  /\ named'[q] = named[q]
  /\ loaded'[q] = loaded[q]
  /\ added'[q] = added[q]
  /\ updated'[q] = updated[q]
  /\ removed'[q] = removed[q]

\* Ids that are known stay known.
LEMMA KnownStays ==
  ASSUME NEW id, OkStays, Known(id)
  PROVE  Known(id)'
BY DEF OkStays, Known

\* What t has written still fits when it only moves on.
LEMMA DraftsStay ==
  ASSUME NEW t \in Tasks, TypeOK, TaskFits(t), OkStays, rows' = rows, job'[t] = job[t],
         at'[t] \in Nat, at[t] <= at'[t]
  PROVE  /\ added'[t] = added[t] => AddedFits(t)'
         /\ updated'[t] = updated[t] => UpdatedFits(t)'
         /\ removed'[t] = removed[t] => RemovedFits(t)'
<1>1. at[t] \in Nat /\ 1 .. at[t] - 1 \subseteq 1 .. at'[t] - 1
  BY DEF TypeOK
<1>2. ASSUME added'[t] = added[t] PROVE AddedFits(t)'
  BY <1>1, <1>2 DEF TaskFits, AddedFits, RowFor
<1>3. ASSUME updated'[t] = updated[t] PROVE UpdatedFits(t)'
  <2>1. ASSUME NEW x \in updated'[t]
        PROVE  /\ x.table \in {"hours", "service", "extra"}
               /\ x.shop = job'[t].shop
               /\ Fits(x)
               /\ \E n \in 1 .. at'[t] - 1 :
                    /\ x.table = job'[t].targets[n].table
                    /\ x.table = "hours" => x.key = job'[t].targets[n].key
               /\ \E y \in rows' : y.id = x.id /\ SameRow(y, x)
    BY <1>1, <1>3, <2>1 DEF TaskFits, UpdatedFits
  <2>2. \A x, y \in updated'[t] : x.id = y.id => x = y
    BY <1>3 DEF TaskFits, UpdatedFits
  <2> QED
    BY <2>1, <2>2 DEF UpdatedFits, Fits, SameRow
<1>4. ASSUME removed'[t] = removed[t] PROVE RemovedFits(t)'
  BY <1>4, KnownStays DEF TaskFits, RemovedFits
<1> QED
  BY <1>2, <1>3, <1>4

\* A task that does nothing still fits.
LEMMA IdlesFits ==
  ASSUME NEW q \in Tasks, TypeOK, TaskFits(q), OkStays, rows' = rows, Idles(q)
  PROVE  TaskFits(q)'
<1>1. JobFits(q)'
  BY DEF TaskFits, JobFits, Idles, Target
<1>2. AddedFits(q)' /\ UpdatedFits(q)' /\ RemovedFits(q)'
  BY DraftsStay DEF Idles, TypeOK
<1>3. NamedFits(q)'
  BY KnownStays DEF TaskFits, NamedFits, Idles, Target
<1>4. LoadedFits(q)'
  BY KnownStays DEF TaskFits, LoadedFits, Idles, Target, SameRow
<1> QED
  BY <1>1, <1>2, <1>3, <1>4 DEF TaskFits

\* It is enough to look at the task that moves.
LEMMA OneTaskMoves ==
  ASSUME NEW t \in Tasks, BackOfficeIInv, rows' = rows, OkStays, TypeOK',
         \A q \in Tasks \ {t} : Idles(q), TaskFits(t)',
         added'[t] \subseteq added[t]
           \/ \A x \in added'[t] :
                /\ \A y \in rows : ~Collides(x, y)
                /\ \A q \in Tasks \ {t} : \A y \in added[q] : ~Collides(x, y)
  PROVE  BackOfficeIInv'
<1>1. RowsFit'
  BY KnownStays DEF BackOfficeIInv, RowsFit, Fits, Collides
<1>2. \A q \in Tasks : TaskFits(q)'
  BY IdlesFits DEF BackOfficeIInv
<1>3. \A x \in added'[t] :
        /\ \A y \in rows : ~Collides(x, y)
        /\ \A q \in Tasks \ {t} : \A y \in added[q] : ~Collides(x, y)
  BY DEF BackOfficeIInv, NoClash
<1>4. NoClash'
  <2> SUFFICES ASSUME NEW q \in Tasks, NEW x \in added'[q]
               PROVE  /\ \A y \in rows : ~Collides(x, y)
                      /\ \A p \in Tasks \ {q} : \A y \in added'[p] : ~Collides(x, y)
    BY DEF NoClash, Collides
  <2>1. CASE q = t
    BY <1>3, <2>1 DEF Idles
  <2>2. CASE q # t
    <3>1. x \in added[q]
      BY <2>2 DEF Idles
    <3>2. ASSUME NEW p \in Tasks \ {q}, NEW y \in added'[p] PROVE ~Collides(x, y)
      <4>1. CASE p = t
        BY <1>3, <2>2, <3>1, <3>2, <4>1 DEF Collides
      <4>2. CASE p # t
        BY <3>1, <3>2, <4>2 DEF Idles, BackOfficeIInv, NoClash
      <4> QED
        BY <4>1, <4>2
    <3> QED
      BY <3>1, <3>2 DEF BackOfficeIInv, NoClash
  <2> QED
    BY <2>1, <2>2
<1> QED
  BY <1>1, <1>2, <1>4 DEF BackOfficeIInv

\* A task that fails or loads a row leaves the others alone.
LEMMA OthersIdle ==
  ASSUME NEW t \in Tasks, TypeOK, pc[t] # "ok",
         pc' \in [Tasks -> {"idle", "look", "insert", "update", "delete", "commit"}
                           \cup Answers],
         \A q \in Tasks \ {t} : Idles(q)
  PROVE  OkStays
BY DEF OkStays, Idles

\* A task that is rolled back.
LEMMA FailKeeps ==
  ASSUME NEW t \in Tasks, BackOfficeIInv, pc[t] \in Working,
         NEW answer \in Answers, Fail(t, answer)
  PROVE  BackOfficeIInv'
<1>1. pc' \in [Tasks -> {"idle", "look", "insert", "update", "delete", "commit"}
                        \cup Answers]
  BY DEF BackOfficeIInv, TypeOK, Fail, Go
<1>2. TypeOK'
  BY <1>1 DEF BackOfficeIInv, TypeOK, Fail
<1>3. \A q \in Tasks \ {t} : Idles(q)
  BY DEF BackOfficeIInv, TypeOK, Fail, Go, Idles
<1>4. OkStays
  BY <1>1, <1>3, OthersIdle DEF BackOfficeIInv, Working
<1>5. pc'[t] = answer /\ added'[t] = {} /\ updated'[t] = {} /\ removed'[t] = {}
  BY DEF BackOfficeIInv, TypeOK, Fail, Go
<1>6. JobFits(t)'
  BY <1>5 DEF BackOfficeIInv, TaskFits, JobFits, Fail, Working, Done, Answers
<1>7. AddedFits(t)' /\ UpdatedFits(t)' /\ RemovedFits(t)'
  BY <1>5 DEF AddedFits, UpdatedFits, RemovedFits
<1>8. NamedFits(t)' /\ LoadedFits(t)'
  BY <1>5 DEF NamedFits, LoadedFits, Answers
<1> QED
  BY <1>2, <1>3, <1>4, <1>5, <1>6, <1>7, <1>8, OneTaskMoves DEF TaskFits, Fail

\* A task that goes on to write the row it has found.
LEMMA LoadsKeeps ==
  ASSUME NEW t \in Tasks, BackOfficeIInv, pc[t] = "look",
         NEW x \in Rows \cup {NoRow}, NEW step \in {"insert", "update", "delete"},
         Loads(t, x, step),
         step = "update" => Target(t).kind \in {"replace", "rename"},
         step = "delete" => Target(t).kind = "remove",
         step # "insert" =>
           /\ x \in Rows
           /\ Known(x.id)
           /\ x.table = Target(t).table
           /\ x.table # "absence" => x.shop = job[t].shop
           /\ Target(t).kind = "replace" => x.key = Target(t).key
           /\ \A y \in rows : y.id = x.id => SameRow(y, x)
  PROVE  BackOfficeIInv'
<1>1. pc' \in [Tasks -> {"idle", "look", "insert", "update", "delete", "commit"}
                        \cup Answers]
  BY DEF BackOfficeIInv, TypeOK, Loads, Go
<1>2. TypeOK'
  BY <1>1 DEF BackOfficeIInv, TypeOK, Loads, draftVars
<1>3. \A q \in Tasks \ {t} : Idles(q)
  BY DEF BackOfficeIInv, TypeOK, Loads, Go, Idles, draftVars
<1>4. OkStays
  BY <1>1, <1>3, OthersIdle DEF BackOfficeIInv
<1>5. pc'[t] = step /\ loaded'[t] = x
  BY DEF BackOfficeIInv, TypeOK, Loads, Go
<1>6. JobFits(t)'
  BY <1>5 DEF BackOfficeIInv, TaskFits, JobFits, Loads, Working, Done, Answers, Target,
     draftVars
<1>7. AddedFits(t)' /\ UpdatedFits(t)' /\ RemovedFits(t)'
  BY <1>4, DraftsStay DEF BackOfficeIInv, TypeOK, Loads, draftVars
<1>8. NamedFits(t)'
  BY <1>5 DEF NamedFits
<1>9. LoadedFits(t)'
  BY <1>4, <1>5, KnownStays DEF LoadedFits, Loads, Target, SameRow
<1> QED
  BY <1>2, <1>3, <1>4, <1>6, <1>7, <1>8, <1>9, OneTaskMoves
  DEF TaskFits, Loads, draftVars

\* Nor does going on spoil what t has written.
LEMMA AdvanceDrafts ==
  ASSUME NEW t \in Tasks, BackOfficeIInv, pc[t] \in Working, Advance(t)
  PROVE  /\ added'[t] = added[t] => AddedFits(t)'
         /\ updated'[t] = updated[t] => UpdatedFits(t)'
         /\ removed'[t] = removed[t] => RemovedFits(t)'
         /\ at'[t] = at[t] + 1
         /\ OkStays
<1>1. at[t] \in Nat /\ at'[t] = at[t] + 1
  BY DEF BackOfficeIInv, TypeOK, Advance
<1>2. OkStays
  BY DEF BackOfficeIInv, TypeOK, Advance, Go, OkStays, Working
<1> QED
  BY <1>1, <1>2, DraftsStay DEF BackOfficeIInv, Advance

\* A task that goes on to its next target.
LEMMA AdvanceKeeps ==
  ASSUME NEW t \in Tasks, BackOfficeIInv, pc[t] \in Working, Advance(t),
         NEW added1 \in SUBSET Rows, NEW updated1 \in SUBSET Rows,
         NEW removed1 \in SUBSET Rows,
         loaded' = loaded,
         added' = [added EXCEPT ![t] = added1],
         updated' = [updated EXCEPT ![t] = updated1],
         removed' = [removed EXCEPT ![t] = removed1],
         AddedFits(t)', UpdatedFits(t)', RemovedFits(t)',
         added1 \subseteq added[t]
           \/ \A x \in added1 :
                /\ \A y \in rows : ~Collides(x, y)
                /\ \A q \in Tasks \ {t} : \A y \in added[q] : ~Collides(x, y)
  PROVE  BackOfficeIInv'
<1>1. pc' \in [Tasks -> {"idle", "look", "insert", "update", "delete", "commit"}
                        \cup Answers]
  BY DEF BackOfficeIInv, TypeOK, Advance, Go
<1>2. TypeOK'
  <2>1. at' \in [Tasks -> Nat]
    BY DEF BackOfficeIInv, TypeOK, Advance
  <2>2. /\ added' \in [Tasks -> SUBSET Rows]
        /\ updated' \in [Tasks -> SUBSET Rows]
        /\ removed' \in [Tasks -> SUBSET Rows]
    BY DEF BackOfficeIInv, TypeOK
  <2> QED
    BY <1>1, <2>1, <2>2 DEF BackOfficeIInv, TypeOK, Advance
<1>3. \A q \in Tasks \ {t} : Idles(q)
  BY DEF BackOfficeIInv, TypeOK, Advance, Go, Idles
<1>4. OkStays
  BY <1>1, <1>3, OthersIdle DEF BackOfficeIInv, Working
<1>5. /\ pc'[t] = IF at[t] < Len(job[t].targets) THEN "look" ELSE "commit"
      /\ at'[t] = at[t] + 1
      /\ added'[t] = added1
  BY DEF BackOfficeIInv, TypeOK, Advance, Go
<1>6. job[t] \in Jobs[t] /\ at[t] \in 1 .. Len(job[t].targets)
  BY DEF BackOfficeIInv, TypeOK, TaskFits, JobFits, Working
<1>7. JobFits(t)'
  BY <1>5, <1>6 DEF BackOfficeIInv, TypeOK, JobType, JobFits, Advance, Working, Done, Answers
<1>8. NamedFits(t)'
  <2> SUFFICES ASSUME pc'[t] = "look" PROVE job[t].targets[at'[t]].kind \notin {"rename", "remove"}
    BY DEF NamedFits, Target, Advance
  <2>1. Len(job[t].targets) \in Nat /\ 1 < Len(job[t].targets)
    <3>1. job[t] \in JobType
      BY DEF BackOfficeIInv, TypeOK
    <3>2. Len(job[t].targets) \in Nat
      BY <3>1 DEF JobType
    <3>3. at[t] \in Int /\ 1 <= at[t] /\ at[t] < Len(job[t].targets)
      BY <1>5, <1>6, <3>2
    <3> QED
      BY <3>2, <3>3
  <2>2. at'[t] \in 1 .. Len(job[t].targets)
    BY <1>5, <1>6, <2>1
  <2> QED
    BY <1>6, <2>1, <2>2, JobAssumption
<1>9. LoadedFits(t)'
  BY <1>5 DEF LoadedFits
<1> QED
  BY <1>2, <1>3, <1>4, <1>5, <1>7, <1>8, <1>9, OneTaskMoves DEF TaskFits, Advance

-----------------------------------------------------------------------------
(* The actions.                                                            *)

\* A task at work is at a target of one of its jobs.
LEMMA JobInHand ==
  ASSUME NEW t \in Tasks, BackOfficeIInv, pc[t] \in Working
  PROVE  /\ job[t] \in Jobs[t] /\ job[t] \in JobType
         /\ Len(job[t].targets) \in Nat
         /\ at[t] \in 1 .. Len(job[t].targets)
         /\ Target(t) \in Targets
<1>1. job[t] \in JobType /\ at[t] \in Nat
  BY DEF BackOfficeIInv, TypeOK
<1>2. Len(job[t].targets) \in Nat
  BY <1>1 DEF JobType
<1>3. job[t] \in Jobs[t] /\ at[t] \in 1 .. Len(job[t].targets)
  BY <1>1, <1>2 DEF BackOfficeIInv, TaskFits, JobFits, Working
<1>4. Target(t) \in Targets
  BY <1>1, <1>3 DEF JobType, Target
<1> QED
  BY <1>1, <1>2, <1>3, <1>4

\* Two targets of a job are about different things.
LEMMA TargetsDiffer ==
  ASSUME NEW t \in Tasks, BackOfficeIInv, pc[t] \in Working,
         NEW n \in 1 .. at[t] - 1,
         job[t].targets[n].table = Target(t).table
  PROVE  job[t].targets[n].key # Target(t).key
<1>1. at[t] \in 1 .. Len(job[t].targets) /\ Len(job[t].targets) \in Nat /\ job[t] \in Jobs[t]
  BY JobInHand
<1>2. n \in 1 .. Len(job[t].targets) /\ n # at[t]
  BY <1>1
<1> QED
  BY <1>1, <1>2, JobAssumption DEF Target

\* The weekday that is found is a stored one.
LEMMA FoundIsStored ==
  ASSUME NEW t \in Tasks, BackOfficeIInv, pc[t] = "look", Target(t).kind = "replace",
         NEW x \in Alike(t)
  PROVE  x \in rows
<1>1. job[t] \in Jobs[t] /\ at[t] \in 1 .. Len(job[t].targets)
  BY JobInHand DEF Working
<1>2. Target(t).table = "hours"
  BY <1>1, JobAssumption DEF Target
<1>3. x.table = "hours" /\ x.key = Target(t).key
  BY <1>2 DEF Alike, Found
<1>4. x \notin added[t]
  BY <1>2, <1>3, TargetsDiffer DEF BackOfficeIInv, TaskFits, AddedFits, RowFor, Working
<1>5. x \notin updated[t]
  BY <1>2, <1>3, TargetsDiffer DEF BackOfficeIInv, TaskFits, UpdatedFits, Working
<1> QED
  BY <1>4, <1>5 DEF Alike, View

\* The request arrives.
LEMMA BeginKeeps ==
  ASSUME NEW t \in Tasks, BackOfficeIInv, Begin(t)
  PROVE  BackOfficeIInv'
<1>1. pc[t] = "idle" /\ at[t] = 1
  BY DEF Begin, BackOfficeIInv, TaskFits, JobFits
<1>2. PICK j \in Jobs[t] :
        /\ job' = [job EXCEPT ![t] = j]
        /\ IF j.targets[1].kind \in {"rename", "remove"}
           THEN \E x \in rows : /\ x.table = j.targets[1].table
                                /\ named' = [named EXCEPT ![t] = x]
           ELSE UNCHANGED named
  BY DEF Begin
<1>3. /\ pc' = [pc EXCEPT ![t] = "look"]
      /\ UNCHANGED <<rows, at, loaded, added, updated, removed, since>>
  BY DEF Begin, Go, draftVars
<1>4. /\ pc'[t] = "look" /\ job'[t] = j
      /\ \A q \in Tasks \ {t} : pc'[q] = pc[q] /\ job'[q] = job[q]
  BY <1>2, <1>3 DEF BackOfficeIInv, TypeOK
<1>5. j \in JobType /\ Len(j.targets) \in Nat /\ 0 < Len(j.targets)
  <2>1. j \in JobType
    BY BackOfficeAssumption
  <2> QED
    BY <2>1, JobAssumption DEF JobType
<1>6. /\ named' \in [Tasks -> Rows \cup {NoRow}]
      /\ \A q \in Tasks \ {t} : named'[q] = named[q]
  BY <1>2 DEF BackOfficeIInv, TypeOK
<1>7. pc' \in [Tasks -> {"idle", "look", "insert", "update", "delete", "commit"}
                        \cup Answers]
  BY <1>3 DEF BackOfficeIInv, TypeOK
<1>8. TypeOK'
  <2>1. job' \in [Tasks -> JobType]
    BY <1>2, <1>5 DEF BackOfficeIInv, TypeOK
  <2> QED
    BY <1>3, <1>6, <1>7, <2>1 DEF BackOfficeIInv, TypeOK
<1>9. \A q \in Tasks \ {t} : Idles(q)
  BY <1>3, <1>4, <1>6 DEF Idles
<1>10. OkStays
  BY <1>1, <1>7, <1>9, OthersIdle DEF BackOfficeIInv
<1>11. added[t] = {} /\ updated[t] = {} /\ removed[t] = {}
  BY <1>1 DEF BackOfficeIInv, TaskFits, JobFits, Done
<1>12. JobFits(t)'
  BY <1>1, <1>3, <1>4, <1>5 DEF JobFits, Working, Done, Answers
<1>13. AddedFits(t)' /\ UpdatedFits(t)' /\ RemovedFits(t)'
  BY <1>3, <1>11 DEF AddedFits, UpdatedFits, RemovedFits
<1>14. NamedFits(t)'
  <2> SUFFICES ASSUME j.targets[1].kind \in {"rename", "remove"}
               PROVE  /\ named'[t] \in Rows
                      /\ Known(named[t].id)'
                      /\ \A y \in rows : y.id = named'[t].id => y.table = j.targets[1].table
    BY <1>1, <1>3, <1>4 DEF NamedFits, Target
  <2>1. PICK x \in rows : /\ x.table = j.targets[1].table
                          /\ named' = [named EXCEPT ![t] = x]
    BY <1>2
  <2>2. named'[t] = x /\ x \in Rows
    BY <2>1 DEF BackOfficeIInv, TypeOK
  <2>3. Known(named[t].id)'
    BY <1>10, <2>2, KnownStays DEF BackOfficeIInv, RowsFit, OkStays, Known
  <2>4. \A y \in rows : y.id = x.id => y = x
    BY DEF BackOfficeIInv, TypeOK
  <2> QED
    BY <2>1, <2>2, <2>3, <2>4
<1>15. LoadedFits(t)'
  BY <1>4 DEF LoadedFits
<1> QED
  BY <1>3, <1>8, <1>9, <1>10, <1>12, <1>13, <1>14, <1>15, OneTaskMoves DEF TaskFits

\* What is found in stored rows is what is written to.
LEMMA LookKeeps ==
  ASSUME NEW t \in Tasks, BackOfficeIInv, Look(t)
  PROVE  BackOfficeIInv'
<1>1. pc[t] = "look" /\ pc[t] \in Working
  BY DEF Look, LookToAdd, LookToEnsure, LookToSeed, LookToReplace, LookToRename, LookToRemove, Working
<1>2. {"conflict", "not_found", "database_unavailable"} \subseteq Answers
  BY DEF Answers
<1>3. ASSUME Loads(t, NoRow, "insert") PROVE BackOfficeIInv'
  BY <1>1, <1>3, LoadsKeeps
<1>4. CASE LookToAdd(t)
  BY <1>1, <1>2, <1>3, <1>4, FailKeeps DEF LookToAdd
<1>5. CASE LookToEnsure(t) \/ LookToSeed(t)
  <2>1. CASE Advance(t) /\ UNCHANGED <<loaded, draftVars>>
    <3>1. /\ added[t] \in SUBSET Rows /\ updated[t] \in SUBSET Rows
          /\ removed[t] \in SUBSET Rows
          /\ added' = [added EXCEPT ![t] = added[t]]
          /\ updated' = [updated EXCEPT ![t] = updated[t]]
          /\ removed' = [removed EXCEPT ![t] = removed[t]]
          /\ loaded' = loaded
      BY <2>1 DEF draftVars, BackOfficeIInv, TypeOK
    <3>2. AddedFits(t)' /\ UpdatedFits(t)' /\ RemovedFits(t)'
      BY <1>1, <2>1, AdvanceDrafts DEF draftVars
    <3> QED
      BY <1>1, <2>1, <3>1, <3>2, AdvanceKeeps
  <2> QED
    BY <1>3, <1>5, <2>1 DEF LookToEnsure, LookToSeed
<1>6. CASE LookToReplace(t)
  <2>1. ASSUME NEW x \in Alike(t), Loads(t, x, "update") PROVE BackOfficeIInv'
    <3>1. x \in rows /\ x \in Rows /\ Target(t).kind = "replace"
      BY <1>1, <1>6, FoundIsStored DEF LookToReplace, BackOfficeIInv, TypeOK
    <3>2. x.table = Target(t).table /\ x.shop = job[t].shop /\ x.key = Target(t).key
      <4>1. Target(t).table = "hours"
        BY <1>1, <3>1, JobInHand, JobAssumption DEF Target
      <4> QED
        BY <3>1, <4>1 DEF Alike, Found
    <3>3. Known(x.id) /\ \A y \in rows : y.id = x.id => SameRow(y, x)
      BY <3>1 DEF BackOfficeIInv, RowsFit, TypeOK, SameRow
    <3> QED
      BY <1>1, <2>1, <3>1, <3>2, <3>3, LoadsKeeps
  <2> QED
    BY <1>1, <1>2, <1>3, <1>6, <2>1, FailKeeps DEF LookToReplace
<1>7. CASE LookToRename(t)
  <2>1. Target(t).kind = "rename"
    BY <1>7 DEF LookToRename
  <2>2. ASSUME NEW x \in rows, x.id = named[t].id, Owned(t, x), Loads(t, x, "update")
        PROVE  BackOfficeIInv'
    <3>1. x \in Rows /\ Known(x.id) /\ \A y \in rows : y.id = x.id => SameRow(y, x)
      BY DEF BackOfficeIInv, RowsFit, TypeOK, SameRow
    <3>2. x.table = Target(t).table
      BY <1>1, <2>1, <2>2 DEF BackOfficeIInv, TaskFits, NamedFits
    <3>3. x.table # "absence" => x.shop = job[t].shop
      BY <2>2 DEF Owned
    <3> QED
      BY <1>1, <2>1, <2>2, <3>1, <3>2, <3>3, LoadsKeeps
  <2> QED
    BY <1>1, <1>2, <1>7, <2>2, FailKeeps DEF LookToRename
<1>8. CASE LookToRemove(t)
  <2>1. Target(t).kind = "remove"
    BY <1>8 DEF LookToRemove
  <2>2. ASSUME NEW x \in rows, x.id = named[t].id, Loads(t, x, "delete")
        PROVE  BackOfficeIInv'
    <3>1. x \in Rows /\ Known(x.id) /\ \A y \in rows : y.id = x.id => SameRow(y, x)
      BY DEF BackOfficeIInv, RowsFit, TypeOK, SameRow
    <3>2. x.table = Target(t).table
      BY <1>1, <2>1, <2>2 DEF BackOfficeIInv, TaskFits, NamedFits
    <3>3. x.table = "absence"
      BY <1>1, <2>1, <3>2, JobInHand, JobAssumption DEF Target
    <3> QED
      BY <1>1, <2>1, <2>2, <3>1, <3>2, <3>3, LoadsKeeps
  <2> QED
    BY <1>1, <1>2, <1>8, <2>2, FailKeeps DEF LookToRemove
<1> QED
  BY <1>4, <1>5, <1>6, <1>7, <1>8 DEF Look

\* A row goes in when nothing stored or under way has its key.
LEMMA InsertKeeps ==
  ASSUME NEW t \in Tasks, BackOfficeIInv, Insert(t)
  PROVE  BackOfficeIInv'
<1>1. pc[t] \in Working /\ InsertBlockers(t) = {}
  BY DEF Insert, Working
<1>2. CASE Fail(t, "conflict")
  BY <1>1, <1>2, FailKeeps DEF Answers
<1>3. CASE ~Fail(t, "conflict")
  <2>1. /\ \A y \in rows : ~Collides(y, NewRow(t))
        /\ added' = [added EXCEPT ![t] = @ \cup {NewRow(t)}]
        /\ Advance(t)
        /\ UNCHANGED <<loaded, updated, removed>>
    BY <1>3 DEF Insert
  <2>2. NewRow(t) \in Rows /\ NewRow(t) = RowFor(t, at[t])
    <3>1. Target(t) \in Targets /\ job[t] \in JobType /\ at[t] \in Nat
      BY <1>1, JobInHand DEF BackOfficeIInv, TypeOK
    <3>2. <<t, at[t]>> \in Ids
      BY <3>1 DEF Ids
    <3> QED
      BY <3>1, <3>2 DEF NewRow, Rows, Targets, JobType, RowFor, Target
  <2>3. DEFINE more == added[t] \cup {NewRow(t)}
  <2>4. /\ more \in SUBSET Rows /\ updated[t] \in SUBSET Rows
        /\ removed[t] \in SUBSET Rows
        /\ added' = [added EXCEPT ![t] = more]
        /\ updated' = [updated EXCEPT ![t] = updated[t]]
        /\ removed' = [removed EXCEPT ![t] = removed[t]]
        /\ loaded' = loaded
        /\ added'[t] = more
    BY <2>1, <2>2 DEF BackOfficeIInv, TypeOK
  <2>5. UpdatedFits(t)' /\ RemovedFits(t)' /\ at'[t] = at[t] + 1 /\ at[t] \in Nat \ {0}
    BY <1>1, <2>1, <2>4, AdvanceDrafts, JobInHand
  <2>6. AddedFits(t)'
    <3>1. \A n : RowFor(t, n)' = RowFor(t, n)
      BY <2>1 DEF RowFor, Advance
    <3>2. \A x \in added[t] : \E n \in 1 .. at[t] - 1 : x = RowFor(t, n)
      BY DEF BackOfficeIInv, TaskFits, AddedFits
    <3>3. \A x \in more : \E n \in 1 .. at[t] : x = RowFor(t, n)
      BY <2>2, <2>5, <3>2
    <3> QED
      BY <2>4, <2>5, <3>1, <3>3 DEF AddedFits
  <2>7. ASSUME NEW x \in more
        PROVE  /\ \A y \in rows : ~Collides(x, y)
               /\ \A q \in Tasks \ {t} : \A y \in added[q] : ~Collides(x, y)
    <3>1. CASE x \in added[t]
      BY <3>1 DEF BackOfficeIInv, NoClash
    <3>2. CASE x = NewRow(t)
      BY <1>1, <2>1, <3>2 DEF InsertBlockers, Collides
    <3> QED
      BY <3>1, <3>2
  <2> HIDE DEF more
  <2> QED
    BY <1>1, <2>1, <2>4, <2>5, <2>6, <2>7, AdvanceKeeps
<1> QED
  BY <1>2, <1>3

\* The version that t writes is one of a stored row, which t writes first.
LEMMA WrittenIsStored ==
  ASSUME NEW t \in Tasks, BackOfficeIInv, pc[t] = "update",
         NEW x \in View(t), x.id = loaded[t].id
  PROVE  /\ x \in rows
         /\ \A y \in updated[t] : y.id # x.id
<1>1. /\ Known(loaded[t].id)
      /\ loaded[t].table = Target(t).table
      /\ Target(t).kind = "replace" => loaded[t].key = Target(t).key
      /\ \A y \in rows : y.id = loaded[t].id => SameRow(y, loaded[t])
      /\ Target(t).kind \in {"replace", "rename"}
  BY DEF BackOfficeIInv, TaskFits, LoadedFits, JobFits
<1>2. pc[t] \in Working /\ at[t] \in 1 .. Len(job[t].targets) /\ job[t] \in Jobs[t]
  BY JobInHand DEF Working
<1>3. x \notin added[t]
  <2>1. \A y \in added[t] : y.id[1] = t
    BY DEF BackOfficeIInv, TaskFits, AddedFits, RowFor
  <2> QED
    BY <1>1, <2>1, BackOfficeAssumption DEF Known
<1>4. ASSUME NEW y \in updated[t], y.id = x.id PROVE FALSE
  <2>1. PICK n \in 1 .. at[t] - 1 :
          /\ y.table = job[t].targets[n].table
          /\ y.table = "hours" => y.key = job[t].targets[n].key
    BY DEF BackOfficeIInv, TaskFits, UpdatedFits
  <2>2. PICK z \in rows : z.id = y.id /\ SameRow(z, y)
    BY DEF BackOfficeIInv, TaskFits, UpdatedFits
  <2>3. SameRow(z, loaded[t])
    BY <1>1, <1>4, <2>2
  <2>4. CASE Target(t).kind = "replace"
    <3>1. Target(t).table = "hours"
      BY <1>2, <2>4, JobAssumption DEF Target
    <3>2. y.key = Target(t).key /\ y.table = "hours"
      BY <1>1, <2>2, <2>3, <2>4, <3>1 DEF SameRow
    <3> QED
      BY <1>2, <2>1, <3>1, <3>2, TargetsDiffer
  <2>5. CASE Target(t).kind = "rename"
    <3>1. Len(job[t].targets) = 1
      BY <1>2, <2>5, JobAssumption DEF Target
    <3> QED
      BY <1>2, <2>1, <3>1
  <2> QED
    BY <1>1, <2>4, <2>5
<1> QED
  BY <1>3, <1>4 DEF View

\* The new version is one of the loaded row.
LEMMA UpdateKeeps ==
  ASSUME NEW t \in Tasks, BackOfficeIInv, Update(t)
  PROVE  BackOfficeIInv'
<1>1. pc[t] = "update" /\ pc[t] \in Working
  BY DEF Update, Working
<1>2. CASE Advance(t) /\ UNCHANGED <<loaded, draftVars>>
  <2>1. /\ added[t] \in SUBSET Rows /\ updated[t] \in SUBSET Rows
        /\ removed[t] \in SUBSET Rows
        /\ added' = [added EXCEPT ![t] = added[t]]
        /\ updated' = [updated EXCEPT ![t] = updated[t]]
        /\ removed' = [removed EXCEPT ![t] = removed[t]]
        /\ loaded' = loaded
    BY <1>2 DEF draftVars, BackOfficeIInv, TypeOK
  <2>2. AddedFits(t)' /\ UpdatedFits(t)' /\ RemovedFits(t)'
    BY <1>1, <1>2, AdvanceDrafts DEF draftVars
  <2> QED
    BY <1>1, <1>2, <2>1, <2>2, AdvanceKeeps
<1>3. ASSUME NEW x \in View(t), x.id = loaded[t].id, Fits(Patched(t, x)),
             updated' = [updated EXCEPT ![t] = @ \cup {Patched(t, x)}],
             Advance(t), UNCHANGED <<loaded, added, removed>>
      PROVE  BackOfficeIInv'
  <2>1. x \in rows /\ x \in Rows /\ \A y \in updated[t] : y.id # x.id
    BY <1>1, <1>3, WrittenIsStored DEF BackOfficeIInv, TypeOK
  <2>2. /\ loaded[t].table = Target(t).table
        /\ loaded[t].table # "absence" => loaded[t].shop = job[t].shop
        /\ SameRow(x, loaded[t])
        /\ Target(t).kind \in {"replace", "rename"}
    BY <1>1, <1>3, <2>1 DEF BackOfficeIInv, TaskFits, LoadedFits, JobFits
  <2>3. /\ Target(t) \in Targets /\ job[t] \in Jobs[t]
        /\ at[t] \in 1 .. Len(job[t].targets) /\ at[t] \in Nat \ {0}
    BY <1>1, JobInHand
  <2>4. /\ Target(t).kind = "replace" => x.table = "hours"
        /\ Target(t).kind = "rename" => x.table \in {"service", "extra"}
    BY <2>2, <2>3, JobAssumption DEF Target, SameRow
  <2>5. DEFINE z == Patched(t, x)
  <2>6. z \in Rows /\ z.id = x.id /\ SameRow(x, z)
    <3>1. CASE Target(t).kind = "rename"
      BY <2>1, <2>3, <2>4, <3>1 DEF Patched, Rows, Targets, SameRow
    <3>2. CASE Target(t).kind = "replace"
      BY <2>1, <2>3, <3>2 DEF Patched, Rows, Targets, SameRow
    <3> QED
      BY <2>2, <3>1, <3>2
  <2>7. /\ z.table \in {"hours", "service", "extra"}
        /\ z.shop = job[t].shop
        /\ z.table = Target(t).table
        /\ z.table = "hours" => z.key = Target(t).key
    <3>1. z.table = "hours" => Target(t).kind = "replace"
      BY <2>2, <2>4, <2>6 DEF SameRow
    <3>2. Target(t).kind = "replace" => loaded[t].key = Target(t).key
      BY <1>1 DEF BackOfficeIInv, TaskFits, LoadedFits
    <3> QED
      BY <2>2, <2>4, <2>6, <3>1, <3>2 DEF SameRow
  <2>8. DEFINE more == updated[t] \cup {z}
  <2>9. /\ added[t] \in SUBSET Rows /\ more \in SUBSET Rows
        /\ removed[t] \in SUBSET Rows
        /\ added' = [added EXCEPT ![t] = added[t]]
        /\ updated' = [updated EXCEPT ![t] = more]
        /\ removed' = [removed EXCEPT ![t] = removed[t]]
        /\ loaded' = loaded
        /\ added'[t] = added[t] /\ updated'[t] = more /\ removed'[t] = removed[t]
    BY <1>3, <2>6 DEF BackOfficeIInv, TypeOK
  <2> HIDE DEF z
  <2>10. AddedFits(t)' /\ RemovedFits(t)' /\ at'[t] = at[t] + 1
    BY <1>1, <1>3, <2>9, AdvanceDrafts
  <2>11. UpdatedFits(t)'
    <3>1. UpdatedFits(t) /\ 1 .. at[t] - 1 \subseteq 1 .. at'[t] - 1 /\ at[t] \in 1 .. at'[t] - 1
      BY <2>3, <2>10 DEF BackOfficeIInv, TaskFits
    <3>2. job' = job /\ rows' = rows
      BY <1>3 DEF Advance
    <3>3. ASSUME NEW y \in more
          PROVE  /\ y.table \in {"hours", "service", "extra"}
                 /\ y.shop = job[t].shop
                 /\ Fits(y)
                 /\ \E n \in 1 .. at'[t] - 1 :
                      /\ y.table = job[t].targets[n].table
                      /\ y.table = "hours" => y.key = job[t].targets[n].key
                 /\ \E w \in rows : w.id = y.id /\ SameRow(w, y)
      <4>1. CASE y \in updated[t]
        BY <3>1, <4>1 DEF UpdatedFits
      <4>2. CASE y = z
        BY <1>3, <2>1, <2>6, <2>7, <3>1, <4>2 DEF Target, z
      <4> QED
        BY <4>1, <4>2
    <3>4. \A y, w \in more : y.id = w.id => y = w
      BY <2>1, <2>6, <3>1 DEF UpdatedFits
    <3> HIDE DEF more
    <3> QED
      BY <2>9, <3>2, <3>3, <3>4 DEF UpdatedFits, Fits, SameRow
  <2> HIDE DEF more
  <2> QED
    BY <1>1, <1>3, <2>9, <2>10, <2>11, AdvanceKeeps
<1> QED
  BY <1>1, <1>2, <1>3, FailKeeps DEF Update, Answers

\* Only absences go.
LEMMA DeleteKeeps ==
  ASSUME NEW t \in Tasks, BackOfficeIInv, Delete(t)
  PROVE  BackOfficeIInv'
<1>1. pc[t] = "delete" /\ pc[t] \in Working
  BY DEF Delete, Working
<1>2. CASE Fail(t, "database_unavailable")
  BY <1>1, <1>2, FailKeeps DEF Answers
<1>3. CASE ~Fail(t, "database_unavailable")
  <2>1. DEFINE gone == {x \in rows : x.id = loaded[t].id}
  <2>2. /\ removed' = [removed EXCEPT ![t] = gone]
        /\ Advance(t)
        /\ UNCHANGED <<loaded, added, updated>>
    BY <1>3 DEF Delete
  <2>3. /\ added[t] \in SUBSET Rows /\ updated[t] \in SUBSET Rows
        /\ gone \in SUBSET Rows
        /\ added' = [added EXCEPT ![t] = added[t]]
        /\ updated' = [updated EXCEPT ![t] = updated[t]]
        /\ loaded' = loaded
        /\ added'[t] = added[t] /\ updated'[t] = updated[t] /\ removed'[t] = gone
    BY <2>2 DEF BackOfficeIInv, TypeOK
  <2>4. AddedFits(t)' /\ UpdatedFits(t)' /\ OkStays
    BY <1>1, <2>2, <2>3, AdvanceDrafts
  <2>5. RemovedFits(t)'
    <3>1. /\ Known(loaded[t].id)
          /\ loaded[t].table = Target(t).table /\ Target(t).kind = "remove"
          /\ \A y \in rows : y.id = loaded[t].id => SameRow(y, loaded[t])
      BY <1>1 DEF BackOfficeIInv, TaskFits, LoadedFits, JobFits
    <3>2. Target(t).table = "absence"
      BY <1>1, <3>1, JobInHand, JobAssumption DEF Target
    <3>3. rows' = rows
      BY <2>2 DEF Advance
    <3>4. ASSUME NEW x \in gone
          PROVE  Known(x.id)' /\ \A y \in rows : y.id = x.id => y.table = "absence"
      BY <2>4, <3>1, <3>2, KnownStays DEF SameRow
    <3> QED
      BY <2>3, <3>3, <3>4 DEF RemovedFits
  <2> HIDE DEF gone
  <2> QED
    BY <1>1, <2>2, <2>3, <2>4, <2>5, AdvanceKeeps
<1> QED
  BY <1>2, <1>3

\* The victim of a deadlock is rolled back.
LEMMA VictimKeeps ==
  ASSUME NEW t \in Tasks, BackOfficeIInv, DeadlockVictim(t)
  PROVE  BackOfficeIInv'
<1>1. pc[t] \in Working
  BY DEF DeadlockVictim, WaitsFor, Working
<1> QED
  BY <1>1, FailKeeps DEF DeadlockVictim, Answers

-----------------------------------------------------------------------------
(* A commit.                                                               *)

\* Versions of a row collide with the same rows.
LEMMA SameRowCollides ==
  ASSUME NEW x, NEW y, NEW z, SameRow(y, z)
  PROVE  Collides(x, y) <=> Collides(x, z)
BY DEF SameRow, Collides

\* What is committed is new or another version of what was stored.
LEMMA ViewOfRows ==
  ASSUME NEW t \in Tasks, BackOfficeIInv, pc[t] # "ok"
  PROVE  /\ \A x \in added[t] : x.id[1] = t /\ ~Known(x.id)
         /\ \A x \in View(t) :
              \/ x \in added[t]
              \/ /\ Known(x.id)
                 /\ \E z \in rows : z.id = x.id /\ SameRow(z, x)
         /\ \A x, y \in View(t) : x.id = y.id => x = y
<1>1. ASSUME NEW x \in added[t]
      PROVE  /\ x.id[1] = t /\ ~Known(x.id)
             /\ \E n \in 1 .. at[t] - 1 : x = RowFor(t, n)
  BY BackOfficeAssumption DEF BackOfficeIInv, TaskFits, AddedFits, RowFor, Known
<1>2. ASSUME NEW x \in updated[t]
      PROVE  Known(x.id) /\ \E z \in rows : z.id = x.id /\ SameRow(z, x)
  BY DEF BackOfficeIInv, TaskFits, UpdatedFits, RowsFit
<1>3. ASSUME NEW x \in rows
      PROVE  Known(x.id) /\ \E z \in rows : z.id = x.id /\ SameRow(z, x)
  BY DEF BackOfficeIInv, RowsFit, SameRow
<1>4. \A x \in View(t) :
        \/ x \in added[t]
        \/ /\ Known(x.id)
           /\ \E z \in rows : z.id = x.id /\ SameRow(z, x)
  BY <1>2, <1>3 DEF View
<1>5. ASSUME NEW x \in View(t), NEW y \in View(t), x.id = y.id
      PROVE  x = y
  <2>1. CASE x \in added[t] \/ y \in added[t]
    <3>1. x \in added[t] /\ y \in added[t]
      BY <1>1, <1>4, <1>5, <2>1
    <3>2. PICK n \in 1 .. at[t] - 1 : x = RowFor(t, n)
      BY <1>1, <3>1
    <3>3. PICK m \in 1 .. at[t] - 1 : y = RowFor(t, m)
      BY <1>1, <3>1
    <3>4. n = m
      BY <1>5, <3>2, <3>3 DEF RowFor
    <3> QED
      BY <3>2, <3>3, <3>4
  <2>2. CASE x \in updated[t] /\ y \in updated[t]
    BY <1>5, <2>2 DEF BackOfficeIInv, TaskFits, UpdatedFits
  <2>3. CASE x \notin added[t] /\ y \notin added[t] /\ ~(x \in updated[t] /\ y \in updated[t])
    BY <1>5, <2>3 DEF View, Named, BackOfficeIInv, TypeOK
  <2> QED
    BY <2>1, <2>2, <2>3
<1> QED
  BY <1>1, <1>4, <1>5

\* A row that is not an absence has a version after the commit.
LEMMA VersionStays ==
  ASSUME NEW t \in Tasks, BackOfficeIInv, NEW z \in rows, z.table # "absence"
  PROVE  \E y \in View(t) : y.id = z.id /\ SameRow(z, y)
<1>1. CASE ~Named(updated[t] \cup removed[t], z)
  BY <1>1 DEF View, SameRow
<1>2. ASSUME NEW u \in updated[t], u.id = z.id
      PROVE  \E y \in View(t) : y.id = z.id /\ SameRow(z, y)
  BY <1>2 DEF View, BackOfficeIInv, TaskFits, UpdatedFits, TypeOK
<1>3. \A r \in removed[t] : r.id # z.id
  BY DEF BackOfficeIInv, TaskFits, RemovedFits
<1> QED
  BY <1>1, <1>2, <1>3 DEF Named

\* What a task holds on to survives the commit of another.
LEMMA CommitLeavesOthers ==
  ASSUME NEW t \in Tasks, NEW q \in Tasks \ {t}, BackOfficeIInv, pc[t] = "commit",
         rows' = View(t), OkStays, Idles(q)
  PROVE  TaskFits(q)'
<1>1. /\ JobFits(q) /\ AddedFits(q) /\ UpdatedFits(q) /\ RemovedFits(q)
      /\ NamedFits(q) /\ LoadedFits(q)
  BY DEF BackOfficeIInv, TaskFits
<1>2. ASSUME NEW id, Known(id), NEW y \in rows', y.id = id
      PROVE  \E z \in rows : z.id = id /\ SameRow(z, y)
  BY <1>2, ViewOfRows
<1>3. JobFits(q)' /\ AddedFits(q)'
  BY <1>1 DEF JobFits, AddedFits, RowFor, Idles, Target
<1>4. UpdatedFits(q)'
  <2>1. ASSUME NEW x \in updated[q]
        PROVE  /\ x.table \in {"hours", "service", "extra"}
               /\ x.shop = job[q].shop
               /\ Fits(x)
               /\ \E n \in 1 .. at[q] - 1 :
                    /\ x.table = job[q].targets[n].table
                    /\ x.table = "hours" => x.key = job[q].targets[n].key
               /\ \E y \in rows' : y.id = x.id /\ SameRow(y, x)
    <3>1. PICK z \in rows : z.id = x.id /\ SameRow(z, x)
      BY <1>1 DEF UpdatedFits
    <3>2. z.table # "absence"
      BY <1>1, <3>1 DEF UpdatedFits, SameRow
    <3>3. PICK y \in View(t) : y.id = z.id /\ SameRow(z, y)
      BY <3>2, VersionStays
    <3>4. SameRow(y, x)
      BY <3>1, <3>3 DEF SameRow
    <3> QED
      BY <1>1, <3>1, <3>3, <3>4 DEF UpdatedFits
  <2> QED
    BY <1>1, <2>1 DEF UpdatedFits, Idles, Fits, SameRow
<1>5. RemovedFits(q)'
  <2>1. ASSUME NEW x \in removed[q]
        PROVE  Known(x.id)' /\ \A y \in rows' : y.id = x.id => y.table = "absence"
    BY <1>1, <1>2, KnownStays DEF RemovedFits, SameRow
  <2> QED
    BY <2>1 DEF RemovedFits, Idles
<1>6. NamedFits(q)'
  <2> SUFFICES ASSUME pc[q] = "look", Target(q).kind \in {"rename", "remove"}
               PROVE  /\ named[q] \in Rows
                      /\ Known(named[q].id)'
                      /\ \A y \in rows' : y.id = named[q].id => y.table = Target(q).table
    BY DEF NamedFits, Idles, Target, Known
  <2>1. /\ named[q] \in Rows
        /\ Known(named[q].id)
        /\ \A y \in rows : y.id = named[q].id => y.table = Target(q).table
    BY <1>1 DEF NamedFits
  <2>2. Known(named[q].id)'
    BY <2>1 DEF OkStays, Known, Idles
  <2>3. \A y \in rows' : y.id = named[q].id => y.table = Target(q).table
    BY <1>2, <2>1 DEF SameRow
  <2> QED
    BY <2>1, <2>2, <2>3
<1>7. LoadedFits(q)'
  <2> SUFFICES ASSUME pc[q] \in {"update", "delete"}
               PROVE  /\ loaded[q] \in Rows
                      /\ Known(loaded[q].id)'
                      /\ loaded[q].table = Target(q).table
                      /\ loaded[q].table # "absence" => loaded[q].shop = job[q].shop
                      /\ Target(q).kind = "replace" => loaded[q].key = Target(q).key
                      /\ \A y \in rows' : y.id = loaded[q].id => SameRow(y, loaded[q])
    BY DEF LoadedFits, Idles, Target, Known, SameRow
  <2>1. /\ loaded[q] \in Rows
        /\ Known(loaded[q].id)
        /\ loaded[q].table = Target(q).table
        /\ loaded[q].table # "absence" => loaded[q].shop = job[q].shop
        /\ Target(q).kind = "replace" => loaded[q].key = Target(q).key
        /\ \A y \in rows : y.id = loaded[q].id => SameRow(y, loaded[q])
    BY <1>1 DEF LoadedFits
  <2>2. Known(loaded[q].id)'
    BY <2>1 DEF OkStays, Known, Idles
  <2>3. \A y \in rows' : y.id = loaded[q].id => SameRow(y, loaded[q])
    BY <1>2, <2>1 DEF SameRow
  <2> QED
    BY <2>1, <2>2, <2>3
<1> QED
  BY <1>3, <1>4, <1>5, <1>6, <1>7 DEF TaskFits

\* What is committed collides with nothing and is well formed.
LEMMA CommitKeeps ==
  ASSUME NEW t \in Tasks, BackOfficeIInv, Commit(t)
  PROVE  BackOfficeIInv'
<1>1. /\ pc[t] = "commit" /\ pc' = [pc EXCEPT ![t] = "ok"] /\ rows' = View(t)
      /\ added' = [added EXCEPT ![t] = {}]
      /\ updated' = [updated EXCEPT ![t] = {}]
      /\ removed' = [removed EXCEPT ![t] = {}]
      /\ UNCHANGED <<job, at, named, loaded>>
  BY DEF Commit, Go
<1>2. /\ pc'[t] = "ok" /\ added'[t] = {} /\ updated'[t] = {} /\ removed'[t] = {}
      /\ \A q \in Tasks \ {t} : Idles(q)
  BY <1>1 DEF BackOfficeIInv, TypeOK, Idles
<1>3. OkStays
  BY <1>2 DEF OkStays, Idles
<1>4. View(t) \subseteq Rows
  BY DEF View, BackOfficeIInv, TypeOK
<1>5. TypeOK'
  <2>1. \A x, y \in rows' : x.id = y.id => x = y
    BY <1>1, ViewOfRows
  <2>2. pc' \in [Tasks -> {"idle", "look", "insert", "update", "delete", "commit"}
                          \cup Answers]
    BY <1>1 DEF BackOfficeIInv, TypeOK, Answers
  <2>3. since' \in [Tasks -> SUBSET Tasks]
    BY DEF Commit, BackOfficeIInv, TypeOK
  <2>4. /\ added' \in [Tasks -> SUBSET Rows] /\ updated' \in [Tasks -> SUBSET Rows]
        /\ removed' \in [Tasks -> SUBSET Rows]
    BY <1>1 DEF BackOfficeIInv, TypeOK
  <2> QED
    BY <1>1, <1>4, <2>1, <2>2, <2>3, <2>4 DEF BackOfficeIInv, TypeOK
<1>6. RowsFit'
  <2>1. ASSUME NEW x \in rows' PROVE Known(x.id)' /\ Fits(x)
    <3>1. Known(x.id)'
      BY <1>1, <1>2, <1>3, ViewOfRows, KnownStays DEF Known
    <3>2. CASE x \in added[t]
      <4>1. PICK n \in 1 .. at[t] - 1 : x = RowFor(t, n)
        BY <3>2 DEF BackOfficeIInv, TaskFits, AddedFits
      <4>2. /\ job[t] \in JobType /\ job[t] \in Jobs[t]
            /\ at[t] \in 1 .. Len(job[t].targets) + 1
        BY <1>1 DEF BackOfficeIInv, TypeOK, TaskFits, JobFits
      <4>3. Len(job[t].targets) \in Nat
        BY <4>2 DEF JobType
      <4>4. n \in 1 .. Len(job[t].targets)
        BY <4>2, <4>3
      <4>5. Fits(job[t].targets[n])
        BY <4>2, <4>4, JobAssumption
      <4> QED
        BY <3>1, <4>1, <4>5 DEF RowFor, Fits
    <3>3. CASE x \notin added[t]
      BY <1>1, <3>1, <3>3 DEF View, BackOfficeIInv, RowsFit, TaskFits, UpdatedFits
    <3> QED
      BY <3>2, <3>3
  <2>2. ASSUME NEW x \in rows', NEW y \in rows', x.id # y.id PROVE ~Collides(x, y)
    <3>1. CASE x \in added[t] /\ y \in added[t]
      <4>1. PICK n \in 1 .. at[t] - 1 : x = RowFor(t, n)
        BY <3>1 DEF BackOfficeIInv, TaskFits, AddedFits
      <4>2. PICK m \in 1 .. at[t] - 1 : y = RowFor(t, m)
        BY <3>1 DEF BackOfficeIInv, TaskFits, AddedFits
      <4>3. /\ job[t] \in JobType /\ job[t] \in Jobs[t]
            /\ at[t] \in 1 .. Len(job[t].targets) + 1
        BY <1>1 DEF BackOfficeIInv, TypeOK, TaskFits, JobFits
      <4>4. Len(job[t].targets) \in Nat
        BY <4>3 DEF JobType
      <4>5. n \in 1 .. Len(job[t].targets) /\ m \in 1 .. Len(job[t].targets) /\ n # m
        BY <2>2, <4>1, <4>2, <4>3, <4>4 DEF RowFor
      <4>6. \/ job[t].targets[n].table # job[t].targets[m].table
            \/ job[t].targets[n].key # job[t].targets[m].key
        BY <4>3, <4>5, JobAssumption
      <4> QED
        BY <4>1, <4>2, <4>6 DEF RowFor, Collides
    <3>2. ASSUME NEW v \in added[t], NEW w \in rows', w \notin added[t]
          PROVE  ~Collides(v, w)
      <4>1. PICK z \in rows : z.id = w.id /\ SameRow(z, w)
        BY <1>1, <3>2, ViewOfRows
      <4> QED
        BY <4>1, SameRowCollides DEF BackOfficeIInv, NoClash
    <3>3. CASE x \notin added[t] /\ y \notin added[t]
      <4>1. PICK z \in rows : z.id = x.id /\ SameRow(z, x)
        BY <1>1, <3>3, ViewOfRows
      <4>2. PICK w \in rows : w.id = y.id /\ SameRow(w, y)
        BY <1>1, <3>3, ViewOfRows
      <4>3. ~Collides(z, w)
        BY <2>2, <4>1, <4>2 DEF BackOfficeIInv, RowsFit
      <4> QED
        BY <4>1, <4>2, <4>3 DEF SameRow, Collides
    <3>4. ~Collides(y, x) => ~Collides(x, y)
      BY DEF Collides
    <3> QED
      BY <3>1, <3>2, <3>3, <3>4
  <2> QED
    BY <2>1, <2>2 DEF RowsFit, Fits, Collides
<1>7. NoClash'
  <2> SUFFICES ASSUME NEW q \in Tasks \ {t}, NEW x \in added[q]
               PROVE  /\ \A y \in rows' : ~Collides(x, y)
                      /\ \A p \in Tasks \ {q} : \A y \in added'[p] : ~Collides(x, y)
    BY <1>2 DEF NoClash, Idles, Collides
  <2>1. ASSUME NEW y \in rows' PROVE ~Collides(x, y)
    <3>1. CASE y \in added[t]
      BY <3>1 DEF BackOfficeIInv, NoClash
    <3>2. CASE y \notin added[t]
      <4>1. PICK z \in rows : z.id = y.id /\ SameRow(z, y)
        BY <1>1, <3>2, ViewOfRows
      <4> QED
        BY <4>1, SameRowCollides DEF BackOfficeIInv, NoClash
    <3> QED
      BY <3>1, <3>2
  <2>2. ASSUME NEW p \in Tasks \ {q}, NEW y \in added'[p] PROVE ~Collides(x, y)
    BY <1>2 DEF BackOfficeIInv, NoClash, Idles
  <2> QED
    BY <2>1, <2>2
<1>8. TaskFits(t)'
  <2>1. JobFits(t)'
    BY <1>1, <1>2 DEF BackOfficeIInv, TaskFits, JobFits, Working, Done, Answers
  <2> QED
    BY <1>2, <2>1 DEF TaskFits, AddedFits, UpdatedFits, RemovedFits, NamedFits, LoadedFits
<1>9. \A q \in Tasks \ {t} : TaskFits(q)'
  BY <1>1, <1>2, <1>3, CommitLeavesOthers
<1> QED
  BY <1>5, <1>6, <1>7, <1>8, <1>9 DEF BackOfficeIInv

-----------------------------------------------------------------------------
(* The theorems.                                                           *)

\* Nothing happens.
LEMMA StutterKeeps == BackOfficeIInv /\ UNCHANGED vars => BackOfficeIInv'
<1> SUFFICES ASSUME BackOfficeIInv, UNCHANGED vars PROVE BackOfficeIInv'
  OBVIOUS
<1>1. OkStays /\ \A q \in Tasks : Idles(q)
  BY DEF vars, draftVars, OkStays, Idles
<1>2. \A q \in Tasks : TaskFits(q)'
  BY <1>1, IdlesFits DEF BackOfficeIInv, vars
<1>3. TypeOK'
  BY DEF BackOfficeIInv, TypeOK, vars, draftVars
<1>4. RowsFit' /\ NoClash'
  BY DEF BackOfficeIInv, RowsFit, NoClash, vars, draftVars, Known, Fits, Collides
<1> QED
  BY <1>2, <1>3, <1>4 DEF BackOfficeIInv

\* What every task has looked up, written and not yet written fits what is
\* stored, whoever commits in between.
THEOREM BackOfficeInvariant == Spec => []BackOfficeIInv
<1>1. Init => BackOfficeIInv
  <2> SUFFICES ASSUME Init PROVE BackOfficeIInv
    OBVIOUS
  <2>1. TypeOK
    <3>1. NoJob \in JobType
      BY BackOfficeAssumption DEF NoJob, JobType
    <3> QED
      BY <3>1, BackOfficeAssumption, StoredAssumption DEF Init, TypeOK
  <2>2. RowsFit
    BY StoredAssumption DEF Init, RowsFit, Known, Fits
  <2>3. NoClash
    BY DEF Init, NoClash
  <2>4. \A t \in Tasks : TaskFits(t)
    BY DEF Init, TaskFits, JobFits, AddedFits, UpdatedFits, RemovedFits, NamedFits,
       LoadedFits, Working
  <2> QED
    BY <2>1, <2>2, <2>3, <2>4 DEF BackOfficeIInv
<1>2. BackOfficeIInv /\ [Next]_vars => BackOfficeIInv'
  BY BeginKeeps, LookKeeps, InsertKeeps, UpdateKeeps, DeleteKeeps, CommitKeeps, VictimKeeps,
     StutterKeeps DEF Next, Serve, AllServed
<1> QED
  BY <1>1, <1>2, PTL DEF Spec

\* Every variable has its type, and no two stored rows have one id.
THEOREM BackOfficeTypeOK == Spec => []TypeOK
BY BackOfficeInvariant, PTL DEF BackOfficeIInv

\* An address never names two accounts, an account never has two profiles,
\* and a sandbox never has a weekday twice, however many tasks race.
THEOREM UniqueKeys == Spec => []UniqueKeysHold
<1>1. BackOfficeIInv => UniqueKeysHold
  BY DEF BackOfficeIInv, RowsFit, UniqueKeysHold, Collides
<1> QED
  BY <1>1, BackOfficeInvariant, PTL

\* No two requests can put a day's closing before its opening.
THEOREM HoursStaySane == Spec => []HoursMakeSense
<1>1. BackOfficeIInv => HoursMakeSense
  BY DEF BackOfficeIInv, RowsFit, HoursMakeSense, Fits
<1> QED
  BY <1>1, BackOfficeInvariant, PTL

\* Only Commit accepts.
LEMMA OnlyCommitAccepts ==
  ASSUME BackOfficeIInv, [Next]_vars, NEW t \in Tasks, CommitsNow(t)
  PROVE  Commit(t)
<1>1. pc[t] = "commit" /\ pc'[t] = "ok" /\ pc' # pc
  BY DEF CommitsNow
<1>2. PICK q \in Tasks : Begin(q) \/ Serve(q)
  BY <1>1 DEF Next, AllServed, vars
<1>3. CASE q # t
  <2>1. \E step : Go(q, step)
    BY <1>2 DEF Begin, Serve, Look, LookToAdd, LookToEnsure, LookToSeed, LookToReplace, LookToRename,
       LookToRemove, Loads, Fail, Advance, Insert, Update, Delete, Commit, DeadlockVictim
  <2>2. pc'[t] = pc[t]
    BY <1>3, <2>1 DEF Go, BackOfficeIInv, TypeOK
  <2> QED
    BY <1>1, <2>2
<1>4. CASE q = t
  BY <1>1, <1>2, <1>4 DEF Begin, Serve, Look, LookToAdd, LookToEnsure, LookToSeed, LookToReplace,
     LookToRename, LookToRemove, Insert, Update, Delete, DeadlockVictim, WaitsFor
<1> QED
  BY <1>3, <1>4

\* A request writes in its own shop, absences excepted.
THEOREM WritesStay == Spec => WritesStayInShop
<1>1. ASSUME BackOfficeIInv, [Next]_vars, NEW t \in Tasks, CommitsNow(t)
      PROVE  \A x \in (rows \ rows') \cup (rows' \ rows) :
               x.shop = job[t].shop \/ x.table = "absence"
  <2>1. Commit(t)
    BY <1>1, OnlyCommitAccepts
  <2>2. rows' = View(t)
    BY <2>1 DEF Commit
  <2>3. \A x \in added[t] \cup updated[t] : x.shop = job[t].shop
    BY <1>1 DEF BackOfficeIInv, TaskFits, AddedFits, UpdatedFits, RowFor
  <2>4. ASSUME NEW x \in rows \ rows' PROVE x.shop = job[t].shop \/ x.table = "absence"
    <3>1. PICK y \in updated[t] \cup removed[t] : y.id = x.id
      BY <2>2, <2>4 DEF View, Named
    <3>2. CASE y \in updated[t]
      <4>1. PICK z \in rows : z.id = y.id /\ SameRow(z, y)
        BY <1>1, <3>2 DEF BackOfficeIInv, TaskFits, UpdatedFits
      <4>2. z = x
        BY <1>1, <3>1, <4>1 DEF BackOfficeIInv, TypeOK
      <4> QED
        BY <2>3, <3>2, <4>1, <4>2 DEF SameRow
    <3>3. CASE y \in removed[t]
      BY <1>1, <3>1, <3>3 DEF BackOfficeIInv, TaskFits, RemovedFits
    <3> QED
      BY <3>1, <3>2, <3>3
  <2>5. \A x \in rows' \ rows : x \in added[t] \cup updated[t]
    BY <2>2 DEF View
  <2> QED
    BY <2>3, <2>4, <2>5
<1>2. BackOfficeIInv /\ [Next]_vars =>
        (\A t \in Tasks : CommitsNow(t) =>
           \A x \in (rows \ rows') \cup (rows' \ rows) :
             x.shop = job[t].shop \/ x.table = "absence")
  BY <1>1
<1> QED
  BY <1>2, BackOfficeInvariant, PTL DEF Spec, WritesStayInShop

-----------------------------------------------------------------------------
(* Duplicates.                                                             *)

\* Two rows of a shop that find one another.
Twins(x, y) ==
  /\ x.id # y.id
  /\ x.shop = y.shop
  /\ FindOneAnother(x, y)
  /\ x.table \in {"service", "extra"} => Blank \notin {x.key, y.key}

\* The look that t has written x upon would have found y: the look for a seed
\* finds every row of the table.
Sought(t, x, y) ==
  \/ Twins(x, y)
  \/ /\ x.id[1] = t
     /\ job[t].targets[x.id[2]].kind = "seed"
     /\ x.table = y.table
     /\ x.shop = y.shop

\* What t has renamed, and every row whose key is of its making.
Rekeyed(t) == {x \in updated[t] : x.table # "hours"}
Fresh(t) == added[t] \cup Rekeyed(t)

\* The row whose key t has looked up and is about to write.
Due(t) ==
  IF pc[t] = "insert" THEN {NewRow(t)}
  ELSE IF pc[t] = "update" /\ Target(t).kind = "rename" /\ ~NothingToSay(t)
       THEN {Patched(t, loaded[t])}
       ELSE {}

\* A rename is all that its request does; other rows keep their keys.
KeysFit(t) ==
  /\ \A x \in Rekeyed(t) : x.by = t /\ added[t] = {} /\ updated[t] = {x}
  /\ \A x \in updated[t] \ Rekeyed(t) : \E y \in rows : y.id = x.id /\ y.by = x.by
  /\ pc[t] \in Working => Rekeyed(t) = {} /\ removed[t] = {}

\* Whoever else has what t has found free, has it since t began.
LateTwins(t) ==
  \A x \in Fresh(t) \cup Due(t) : \A y \in rows :
    Sought(t, x, y) => y.by \in since[t]

RaceIInv ==
  /\ DuplicatesOnlyFromRaces
  /\ \A t \in Tasks : KeysFit(t) /\ LateTwins(t)

\* Two versions of a row that have their key from the same task.
SameKey(x, y) ==
  /\ x.id = y.id
  /\ x.table = y.table
  /\ x.shop = y.shop
  /\ x.key = y.key
  /\ x.by = y.by

\* Versions with one key have the same twins.
LEMMA TwinsOfVersions ==
  ASSUME NEW x, NEW y, NEW u, NEW v, Twins(x, y), SameKey(u, x), SameKey(v, y)
  PROVE  Twins(u, v) /\ u.by = x.by /\ v.by = y.by
BY DEF Twins, SameKey, FindOneAnother, Found

\* A task that does nothing, while nobody commits.
LEMMA IdlesRaces ==
  ASSUME NEW q \in Tasks, KeysFit(q), LateTwins(q), rows' = rows, since' = since, Idles(q)
  PROVE  KeysFit(q)' /\ LateTwins(q)'
<1>1. Rekeyed(q)' = Rekeyed(q) /\ Fresh(q)' = Fresh(q)
  BY DEF Rekeyed, Fresh, Idles
<1>2. Due(q)' = Due(q)
  BY DEF Due, NewRow, Patched, NothingToSay, Target, Idles
<1>3. KeysFit(q)'
  BY <1>1 DEF KeysFit, Idles
<1>4. LateTwins(q)'
  BY <1>1, <1>2 DEF LateTwins, Sought, Twins, Idles
<1> QED
  BY <1>3, <1>4

\* It is enough to look at the task that moves, while nobody commits.
LEMMA OneTaskRaces ==
  ASSUME NEW t \in Tasks, RaceIInv, rows' = rows, since' = since,
         \A q \in Tasks \ {t} : Idles(q), KeysFit(t)', LateTwins(t)'
  PROVE  RaceIInv'
<1>1. \A q \in Tasks : KeysFit(q)' /\ LateTwins(q)'
  BY IdlesRaces DEF RaceIInv
<1>2. DuplicatesOnlyFromRaces'
  BY DEF RaceIInv, DuplicatesOnlyFromRaces, Overlapped, FindOneAnother, Found
<1> QED
  BY <1>1, <1>2 DEF RaceIInv

\* The others, when t does anything but commit.
LEMMA OthersLookOn ==
  ASSUME NEW t \in Tasks, BackOfficeIInv,
         \/ Begin(t)
         \/ Look(t) \/ Insert(t) \/ Update(t) \/ Delete(t) \/ DeadlockVictim(t)
  PROVE  /\ rows' = rows /\ since' = since
         /\ \A q \in Tasks \ {t} : Idles(q)
<1>1. ASSUME NEW answer, Fail(t, answer)
      PROVE  rows' = rows /\ since' = since /\ \A q \in Tasks \ {t} : Idles(q)
  BY <1>1 DEF Fail, Go, Idles, BackOfficeIInv, TypeOK
<1>2. ASSUME NEW x, NEW step, Loads(t, x, step)
      PROVE  rows' = rows /\ since' = since /\ \A q \in Tasks \ {t} : Idles(q)
  BY <1>2 DEF Loads, Go, Idles, BackOfficeIInv, TypeOK, draftVars
<1>3. ASSUME Advance(t), UNCHANGED loaded,
             \A q \in Tasks \ {t} :
               added'[q] = added[q] /\ updated'[q] = updated[q] /\ removed'[q] = removed[q]
      PROVE  rows' = rows /\ since' = since /\ \A q \in Tasks \ {t} : Idles(q)
  BY <1>3 DEF Advance, Go, Idles, BackOfficeIInv, TypeOK
<1>4. CASE Begin(t)
  <2>1. \A q \in Tasks \ {t} : named'[q] = named[q]
    BY <1>4 DEF Begin, BackOfficeIInv, TypeOK
  <2> QED
    BY <1>4, <2>1 DEF Begin, Go, Idles, draftVars, BackOfficeIInv, TypeOK
<1>5. CASE Look(t)
  BY <1>1, <1>2, <1>3, <1>5 DEF Look, LookToAdd, LookToEnsure, LookToSeed, LookToReplace, LookToRename,
     LookToRemove, draftVars
<1>6. CASE Insert(t)
  BY <1>1, <1>3, <1>6 DEF Insert, BackOfficeIInv, TypeOK
<1>7. CASE Update(t)
  BY <1>1, <1>3, <1>7 DEF Update, draftVars, BackOfficeIInv, TypeOK
<1>8. CASE Delete(t)
  BY <1>1, <1>3, <1>8 DEF Delete, BackOfficeIInv, TypeOK
<1>9. CASE DeadlockVictim(t)
  BY <1>1, <1>9 DEF DeadlockVictim
<1> QED
  BY <1>4, <1>5, <1>6, <1>7, <1>8, <1>9

\* A request that names a row does nothing else.
LEMMA NamedRowOnly ==
  ASSUME NEW t \in Tasks, BackOfficeIInv, pc[t] \in Working,
         Target(t).kind \in {"rename", "remove"}
  PROVE  /\ added[t] = {} /\ updated[t] = {}
         /\ at[t] = 1 /\ Len(job[t].targets) = 1
         /\ Target(t).kind = "rename" => Target(t).table \in {"service", "extra"}
         /\ Target(t).kind = "remove" => Target(t).table = "absence"
<1>1. job[t] \in Jobs[t] /\ at[t] \in 1 .. Len(job[t].targets)
  BY JobInHand
<1>2. /\ Len(job[t].targets) = 1
      /\ Target(t).kind = "rename" => Target(t).table \in {"service", "extra"}
      /\ Target(t).kind = "remove" => Target(t).table = "absence"
  BY <1>1, JobAssumption DEF Target
<1>3. at[t] = 1
  BY <1>1, <1>2
<1> QED
  BY <1>2, <1>3 DEF BackOfficeIInv, TaskFits, AddedFits, UpdatedFits

\* A row that answers to what t looks up is seen by t, or t looks for it in
\* vain because it is the row to rename.
LEMMA LookSees ==
  ASSUME NEW t \in Tasks, BackOfficeIInv, RaceIInv, pc[t] \in Working, Alike(t) = {},
         NEW y \in rows, y.table = Target(t).table, y.shop = job[t].shop,
         Target(t).kind = "seed" \/ y.key \in Found(y.table, Target(t).key)
  PROVE  Target(t).kind = "rename" /\ y.id = named[t].id
<1>1. removed[t] = {} /\ \A u \in updated[t] : u.table = "hours"
  BY DEF RaceIInv, KeysFit, Rekeyed
<1>2. CASE ~Named(updated[t] \cup removed[t], y)
  <2>1. y \in View(t)
    BY <1>2 DEF View
  <2> QED
    BY <2>1 DEF Alike
<1>3. CASE Named(updated[t] \cup removed[t], y)
  <2>1. PICK u \in updated[t] : u.id = y.id
    BY <1>1, <1>3 DEF Named
  <2>2. PICK z \in rows : z.id = u.id /\ SameRow(z, u)
    BY DEF BackOfficeIInv, TaskFits, UpdatedFits
  <2>3. z = y
    BY <2>1, <2>2 DEF BackOfficeIInv, TypeOK
  <2>4. u.table = "hours" /\ u.key = y.key /\ u.shop = y.shop /\ y.table = "hours"
    BY <1>1, <2>2, <2>3 DEF SameRow
  <2>5. Target(t).kind # "rename"
    BY <2>1, NamedRowOnly
  <2>6. u \in Alike(t)
    BY <2>4, <2>5 DEF Alike, View
  <2> QED
    BY <2>6
<1> QED
  BY <1>2, <1>3

\* A rolled back task has nothing left.
LEMMA FailRaces ==
  ASSUME NEW t \in Tasks, BackOfficeIInv, RaceIInv, pc[t] \in Working,
         NEW answer \in Answers, Fail(t, answer)
  PROVE  KeysFit(t)' /\ LateTwins(t)'
<1>1. pc'[t] = answer /\ added'[t] = {} /\ updated'[t] = {} /\ removed'[t] = {}
  BY DEF BackOfficeIInv, TypeOK, Fail, Go
<1>2. Due(t)' = {} /\ Fresh(t)' = {} /\ Rekeyed(t)' = {}
  BY <1>1 DEF Due, Fresh, Rekeyed, Answers
<1> QED
  BY <1>1, <1>2 DEF KeysFit, LateTwins

\* A task that has found its key free, or a row to write to.
LEMMA LoadsRaces ==
  ASSUME NEW t \in Tasks, BackOfficeIInv, RaceIInv, pc[t] = "look",
         NEW x, NEW step \in {"insert", "update", "delete"}, Loads(t, x, step),
         step = "insert" =>
           /\ Target(t).kind # "rename"
           /\ Alike(t) = {} \/ (Seeding(t) /\ Target(t).kind = "seed"),
         step = "update" /\ Target(t).kind = "rename" =>
           /\ Target(t).key = Blank \/ Alike(t) = {}
           /\ x \in Rows
           /\ x.id = named[t].id /\ x.table = Target(t).table /\ x.shop = job[t].shop
  PROVE  KeysFit(t)' /\ LateTwins(t)'
<1>1. /\ pc'[t] = step /\ loaded'[t] = x
      /\ UNCHANGED <<rows, job, at, named, added, updated, removed, since>>
  BY DEF Loads, Go, draftVars, BackOfficeIInv, TypeOK
<1>2. Rekeyed(t)' = Rekeyed(t) /\ Fresh(t)' = Fresh(t) /\ pc[t] \in Working
  BY <1>1 DEF Rekeyed, Fresh, Working
<1>3. KeysFit(t)'
  BY <1>1, <1>2 DEF KeysFit, RaceIInv
<1>4. ASSUME NEW z \in Due(t)', NEW y \in rows, Sought(t, z, y)
      PROVE  y.by \in since[t]
  <2>1. CASE step = "insert"
    <3>1. z = NewRow(t)
      BY <1>1, <1>4, <2>1 DEF Due, NewRow, Target
    <3>2. /\ y.table = Target(t).table /\ y.shop = job[t].shop
          /\ Target(t).kind = "seed" \/ y.key \in Found(y.table, Target(t).key)
      BY <1>4, <3>1 DEF Sought, Twins, FindOneAnother, NewRow, Target
    <3>3. CASE Alike(t) = {}
      BY <1>2, <2>1, <3>2, <3>3, LookSees
    <3>4. CASE Seeding(t)
      <4>1. PICK w \in added[t] : /\ w.id = <<t, at[t] - 1>>
                                 /\ w.table = Target(t).table
                                 /\ job[t].targets[at[t] - 1].kind = "seed"
        BY <3>4 DEF Seeding
      <4>2. w.shop = job[t].shop
        BY DEF BackOfficeIInv, TaskFits, AddedFits, RowFor
      <4>3. Sought(t, w, y)
        BY <3>2, <4>1, <4>2 DEF Sought
      <4> QED
        BY <4>3 DEF RaceIInv, LateTwins, Fresh
    <3> QED
      BY <2>1, <3>3, <3>4
  <2>2. CASE step = "update" /\ Target(t).kind = "rename"
    <3>1. z = [x EXCEPT !.key = Target(t).key, !.by = t] \/ z = x
      BY <1>1, <1>4, <2>2 DEF Due, Patched, Target
    <3>2. Target(t).key # x.key /\ z = [x EXCEPT !.key = Target(t).key, !.by = t]
      BY <1>1, <1>4, <2>2 DEF Due, Patched, NothingToSay, Target
    <3>3. x \in Rows /\ Target(t).table \in {"service", "extra"}
      BY <1>2, <2>2, NamedRowOnly
    <3>4. z.id = named[t].id /\ z.table = Target(t).table /\ z.shop = job[t].shop
          /\ z.key = Target(t).key
      BY <2>2, <3>2, <3>3 DEF Rows
    <3>5. z.id[1] # t
      <4>1. Known(named[t].id)
        BY <2>2 DEF BackOfficeIInv, TaskFits, NamedFits
      <4> QED
        BY <3>4, <4>1, BackOfficeAssumption DEF Known
    <3>6. Twins(z, y)
      BY <1>4, <3>5 DEF Sought
    <3>7. /\ Alike(t) = {} /\ y.table = Target(t).table /\ y.shop = job[t].shop
          /\ y.key \in Found(y.table, Target(t).key) /\ y.id # named[t].id
      BY <2>2, <3>3, <3>4, <3>6 DEF Twins, FindOneAnother
    <3> QED
      BY <1>2, <3>7, LookSees
  <2>3. CASE step # "insert" /\ ~(step = "update" /\ Target(t).kind = "rename")
    BY <1>1, <1>4, <2>3 DEF Due, Target
  <2> QED
    BY <2>1, <2>2, <2>3
<1>5. LateTwins(t)'
  <2>1. \A z, y : Sought(t, z, y)' = Sought(t, z, y)
    BY <1>1 DEF Sought
  <2> QED
    BY <1>1, <1>2, <1>4, <2>1 DEF LateTwins, RaceIInv
<1> QED
  BY <1>3, <1>5

\* A task that is done with a target, whether it has written what was due or
\* had nothing to write.
LEMMA AdvanceRaces ==
  ASSUME NEW t \in Tasks, BackOfficeIInv, RaceIInv, pc[t] \in Working, Advance(t),
         \A x \in Rekeyed(t)' : x.by = t /\ added'[t] = {} /\ updated'[t] = {x},
         \A x \in updated'[t] \ Rekeyed(t)' : \E y \in rows : y.id = x.id /\ y.by = x.by,
         at[t] < Len(job[t].targets) => Rekeyed(t)' = {} /\ removed'[t] = {},
         \A x \in Fresh(t)' : \E z \in Fresh(t) \cup Due(t) :
           \A y \in rows : Sought(t, x, y) => Sought(t, z, y)
  PROVE  KeysFit(t)' /\ LateTwins(t)'
<1>1. /\ pc'[t] = IF at[t] < Len(job[t].targets) THEN "look" ELSE "commit"
      /\ rows' = rows /\ since' = since /\ job' = job
  BY DEF Advance, Go, BackOfficeIInv, TypeOK
<1>2. KeysFit(t)'
  BY <1>1 DEF KeysFit, Working
<1>3. Due(t)' = {}
  BY <1>1 DEF Due
<1>4. \A x \in Fresh(t)' : \A y \in rows : Sought(t, x, y) => y.by \in since[t]
  BY DEF RaceIInv, LateTwins
<1>5. LateTwins(t)'
  BY <1>1, <1>3, <1>4 DEF LateTwins, Sought
<1> QED
  BY <1>2, <1>5

\* Nothing written.
LEMMA SkipRaces ==
  ASSUME NEW t \in Tasks, BackOfficeIInv, RaceIInv, pc[t] \in Working, Advance(t),
         UNCHANGED draftVars
  PROVE  KeysFit(t)' /\ LateTwins(t)'
<1>1. /\ Rekeyed(t)' = Rekeyed(t) /\ Fresh(t)' = Fresh(t)
      /\ UNCHANGED <<added, updated, removed>>
  BY DEF Rekeyed, Fresh, draftVars
<1>2. Rekeyed(t) = {} /\ removed[t] = {}
  BY DEF RaceIInv, KeysFit
<1>3. \A x \in updated[t] \ Rekeyed(t) : \E y \in rows : y.id = x.id /\ y.by = x.by
  BY DEF RaceIInv, KeysFit
<1> QED
  BY <1>1, <1>2, <1>3, AdvanceRaces

LEMMA BeginRaces ==
  ASSUME NEW t \in Tasks, BackOfficeIInv, RaceIInv, Begin(t)
  PROVE  KeysFit(t)' /\ LateTwins(t)'
<1>1. added[t] = {} /\ updated[t] = {} /\ removed[t] = {}
  BY DEF Begin, BackOfficeIInv, TaskFits, JobFits, Done
<1>2. pc'[t] = "look" /\ added'[t] = {} /\ updated'[t] = {} /\ removed'[t] = {}
  BY <1>1 DEF Begin, Go, draftVars, BackOfficeIInv, TypeOK
<1>3. Due(t)' = {} /\ Fresh(t)' = {} /\ Rekeyed(t)' = {}
  BY <1>2 DEF Due, Fresh, Rekeyed
<1> QED
  BY <1>2, <1>3 DEF KeysFit, LateTwins

LEMMA LookRaces ==
  ASSUME NEW t \in Tasks, BackOfficeIInv, RaceIInv, Look(t)
  PROVE  KeysFit(t)' /\ LateTwins(t)'
<1>1. pc[t] = "look" /\ pc[t] \in Working
  BY DEF Look, LookToAdd, LookToEnsure, LookToSeed, LookToReplace, LookToRename, LookToRemove, Working
<1>2. {"conflict", "not_found", "database_unavailable"} \subseteq Answers
  BY DEF Answers
<1>3. ASSUME Loads(t, NoRow, "insert"), Target(t).kind # "rename",
             Alike(t) = {} \/ (Seeding(t) /\ Target(t).kind = "seed")
      PROVE  KeysFit(t)' /\ LateTwins(t)'
  BY <1>1, <1>3, LoadsRaces
<1>4. CASE LookToAdd(t)
  BY <1>1, <1>2, <1>3, <1>4, FailRaces DEF LookToAdd
<1>5. CASE LookToEnsure(t) \/ LookToSeed(t)
  BY <1>1, <1>3, <1>5, SkipRaces DEF LookToEnsure, LookToSeed
<1>6. CASE LookToReplace(t)
  <2>1. ASSUME NEW x \in Alike(t), Loads(t, x, "update")
        PROVE  KeysFit(t)' /\ LateTwins(t)'
    BY <1>1, <1>6, <2>1, LoadsRaces DEF LookToReplace
  <2> QED
    BY <1>1, <1>2, <1>3, <1>6, <2>1, FailRaces DEF LookToReplace
<1>7. CASE LookToRename(t)
  <2>1. ASSUME NEW x \in rows, x.id = named[t].id, Owned(t, x),
               Target(t).key = Blank \/ Alike(t) = {}, Loads(t, x, "update")
        PROVE  KeysFit(t)' /\ LateTwins(t)'
    <3>1. x.table = Target(t).table /\ Target(t).kind = "rename"
      BY <1>1, <1>7, <2>1 DEF LookToRename, BackOfficeIInv, TaskFits, NamedFits
    <3>2. x.shop = job[t].shop
      BY <1>1, <2>1, <3>1, NamedRowOnly DEF Owned
    <3>3. x \in Rows
      BY DEF BackOfficeIInv, TypeOK
    <3> QED
      BY <1>1, <2>1, <3>1, <3>2, <3>3, LoadsRaces
  <2> QED
    BY <1>1, <1>2, <1>7, <2>1, FailRaces DEF LookToRename
<1>8. CASE LookToRemove(t)
  <2>1. ASSUME NEW x \in rows, Loads(t, x, "delete")
        PROVE  KeysFit(t)' /\ LateTwins(t)'
    BY <1>1, <2>1, LoadsRaces
  <2> QED
    BY <1>1, <1>2, <1>8, <2>1, FailRaces DEF LookToRemove
<1> QED
  BY <1>4, <1>5, <1>6, <1>7, <1>8 DEF Look

LEMMA InsertRaces ==
  ASSUME NEW t \in Tasks, BackOfficeIInv, RaceIInv, Insert(t)
  PROVE  KeysFit(t)' /\ LateTwins(t)'
<1>1. pc[t] = "insert" /\ pc[t] \in Working
  BY DEF Insert, Working
<1>2. CASE Fail(t, "conflict")
  BY <1>1, <1>2, FailRaces DEF Answers
<1>3. CASE ~Fail(t, "conflict")
  <2>1. /\ Advance(t)
        /\ added'[t] = added[t] \cup {NewRow(t)}
        /\ UNCHANGED <<updated, removed>>
    BY <1>3 DEF Insert, BackOfficeIInv, TypeOK
  <2>2. Rekeyed(t)' = {} /\ Rekeyed(t) = {} /\ removed'[t] = {}
    BY <1>1, <2>1 DEF Rekeyed, RaceIInv, KeysFit
  <2>3. Fresh(t)' = Fresh(t) \cup Due(t)
    BY <1>1, <2>1, <2>2 DEF Fresh, Due
  <2>4. \A x \in updated'[t] \ Rekeyed(t)' : \E y \in rows : y.id = x.id /\ y.by = x.by
    BY <2>1, <2>2 DEF RaceIInv, KeysFit
  <2> QED
    BY <1>1, <2>1, <2>2, <2>3, <2>4, AdvanceRaces
<1> QED
  BY <1>2, <1>3

LEMMA UpdateRaces ==
  ASSUME NEW t \in Tasks, BackOfficeIInv, RaceIInv, Update(t)
  PROVE  KeysFit(t)' /\ LateTwins(t)'
<1>1. pc[t] = "update" /\ pc[t] \in Working
  BY DEF Update, Working
<1>2. ASSUME NEW x \in View(t), ~NothingToSay(t), x.id = loaded[t].id,
             updated' = [updated EXCEPT ![t] = @ \cup {Patched(t, x)}],
             Advance(t), UNCHANGED <<loaded, added, removed>>
      PROVE  KeysFit(t)' /\ LateTwins(t)'
  <2>1. x \in rows /\ x \in Rows
    BY <1>1, <1>2, WrittenIsStored DEF BackOfficeIInv, TypeOK
  <2>2. /\ loaded[t] \in Rows
        /\ loaded[t].table = Target(t).table
        /\ loaded[t].table # "absence" => loaded[t].shop = job[t].shop
        /\ SameRow(x, loaded[t])
        /\ Target(t).kind \in {"replace", "rename"}
    BY <1>1, <1>2, <2>1 DEF BackOfficeIInv, TaskFits, LoadedFits, JobFits
  <2>3. updated'[t] = updated[t] \cup {Patched(t, x)} /\ added'[t] = added[t]
        /\ removed'[t] = removed[t]
    BY <1>2 DEF BackOfficeIInv, TypeOK
  <2>4. /\ Rekeyed(t) = {} /\ removed[t] = {}
        /\ \A u \in updated[t] :
             u.table = "hours" /\ \E y \in rows : y.id = u.id /\ y.by = u.by
    BY <1>1 DEF RaceIInv, KeysFit, Rekeyed
  <2>5. CASE Target(t).kind = "replace"
    <3>1. Patched(t, x).table = "hours" /\ Patched(t, x).id = x.id /\ Patched(t, x).by = x.by
      <4>1. Target(t).table = "hours"
        BY <1>1, <2>5, JobInHand, JobAssumption DEF Target
      <4>2. x.table = "hours"
        BY <2>2, <4>1 DEF SameRow
      <4> QED
        BY <2>1, <2>5, <4>2 DEF Patched, Rows
    <3>2. Rekeyed(t)' = {} /\ Fresh(t)' = Fresh(t)
      BY <2>3, <2>4, <3>1 DEF Rekeyed, Fresh
    <3>3. \A u \in updated'[t] : \E y \in rows : y.id = u.id /\ y.by = u.by
      BY <2>1, <2>3, <2>4, <3>1
    <3> QED
      BY <1>1, <1>2, <2>3, <2>4, <3>2, <3>3, AdvanceRaces
  <2>6. CASE Target(t).kind = "rename"
    <3>1. /\ added[t] = {} /\ updated[t] = {} /\ ~(at[t] < Len(job[t].targets))
          /\ Target(t).table \in {"service", "extra"}
      <4>1. /\ added[t] = {} /\ updated[t] = {} /\ Target(t).table \in {"service", "extra"}
            /\ at[t] = 1 /\ Len(job[t].targets) = 1
        BY <1>1, <2>6, NamedRowOnly
      <4> QED
        BY <4>1
    <3>2. Target(t).key # loaded[t].key
      BY <1>2, <2>6 DEF NothingToSay, Patched
    <3>3. /\ Patched(t, x) = [x EXCEPT !.key = Target(t).key, !.by = t]
          /\ Patched(t, loaded[t]) = [loaded[t] EXCEPT !.key = Target(t).key, !.by = t]
      BY <2>6, <3>2 DEF Patched
    <3>4. /\ Patched(t, x).by = t /\ Patched(t, x).table \in {"service", "extra"}
          /\ \A y : Sought(t, Patched(t, x), y) => Sought(t, Patched(t, loaded[t]), y)
      BY <1>2, <2>1, <2>2, <3>1, <3>3
      DEF Rows, SameRow, Sought, Twins, FindOneAnother, Found
    <3>5. Rekeyed(t)' = {Patched(t, x)} /\ Fresh(t)' = {Patched(t, x)}
      BY <2>3, <3>1, <3>4 DEF Rekeyed, Fresh
    <3>6. Patched(t, loaded[t]) \in Due(t)
      BY <1>1, <1>2, <2>6 DEF Due
    <3> QED
      BY <1>1, <1>2, <2>3, <3>1, <3>4, <3>5, <3>6, AdvanceRaces
  <2> QED
    BY <2>2, <2>5, <2>6
<1> QED
  BY <1>1, <1>2, SkipRaces, FailRaces DEF Update, Answers

LEMMA DeleteRaces ==
  ASSUME NEW t \in Tasks, BackOfficeIInv, RaceIInv, Delete(t)
  PROVE  KeysFit(t)' /\ LateTwins(t)'
<1>1. pc[t] = "delete" /\ pc[t] \in Working
  BY DEF Delete, Working
<1>2. CASE Fail(t, "database_unavailable")
  BY <1>1, <1>2, FailRaces DEF Answers
<1>3. CASE ~Fail(t, "database_unavailable")
  <2>1. Advance(t) /\ UNCHANGED <<loaded, added, updated>>
    BY <1>3 DEF Delete
  <2>2. ~(at[t] < Len(job[t].targets)) /\ added[t] = {} /\ updated[t] = {}
    <3>1. Target(t).kind = "remove"
      BY <1>1 DEF BackOfficeIInv, TaskFits, JobFits
    <3>2. added[t] = {} /\ updated[t] = {} /\ at[t] = 1 /\ Len(job[t].targets) = 1
      BY <1>1, <3>1, NamedRowOnly
    <3> QED
      BY <3>2
  <2>3. added'[t] = {} /\ updated'[t] = {} /\ Rekeyed(t)' = {} /\ Fresh(t)' = {}
    BY <2>1, <2>2 DEF Rekeyed, Fresh
  <2> QED
    BY <1>1, <2>1, <2>2, <2>3, AdvanceRaces
<1> QED
  BY <1>2, <1>3

LEMMA VictimRaces ==
  ASSUME NEW t \in Tasks, BackOfficeIInv, RaceIInv, DeadlockVictim(t)
  PROVE  KeysFit(t)' /\ LateTwins(t)'
<1>1. pc[t] \in Working
  BY DEF DeadlockVictim, WaitsFor, Working
<1> QED
  BY <1>1, FailRaces DEF DeadlockVictim, Answers

\* A row that is committed has its key from the task that commits it, or is a
\* version of a row that had the key already.
LEMMA KeyOrigin ==
  ASSUME NEW t \in Tasks, BackOfficeIInv, RaceIInv, NEW x \in View(t)
  PROVE  x \in Fresh(t) \/ \E z \in rows : SameKey(z, x)
<1>1. CASE x \in rows
  BY <1>1 DEF SameKey
<1>2. CASE x \in updated[t] \ Rekeyed(t)
  <2>1. PICK z \in rows : z.id = x.id /\ SameRow(z, x)
    BY <1>2 DEF BackOfficeIInv, TaskFits, UpdatedFits
  <2>2. PICK y \in rows : y.id = x.id /\ y.by = x.by
    BY <1>2 DEF RaceIInv, KeysFit
  <2>3. y = z
    BY <2>1, <2>2 DEF BackOfficeIInv, TypeOK
  <2>4. x.table = "hours"
    BY <1>2 DEF Rekeyed
  <2> QED
    BY <2>1, <2>2, <2>3, <2>4 DEF SameRow, SameKey
<1> QED
  BY <1>1, <1>2 DEF View, Fresh

\* A key of its own making is t's.
LEMMA FreshIsOwn ==
  ASSUME NEW t \in Tasks, BackOfficeIInv, RaceIInv, NEW x \in Fresh(t)
  PROVE  x.by = t
BY DEF Fresh, BackOfficeIInv, TaskFits, AddedFits, RowFor, RaceIInv, KeysFit

\* A request never takes a key twice itself.
LEMMA FreshOnce ==
  ASSUME NEW t \in Tasks, BackOfficeIInv, RaceIInv, pc[t] = "commit",
         NEW x \in Fresh(t), NEW y \in Fresh(t)
  PROVE  ~Twins(x, y)
<1>1. CASE x \in Rekeyed(t) \/ y \in Rekeyed(t)
  <2>1. x = y
    BY <1>1 DEF Fresh, Rekeyed, RaceIInv, KeysFit
  <2> QED
    BY <2>1 DEF Twins
<1>2. CASE x \in added[t] /\ y \in added[t]
  <2>1. PICK n \in 1 .. at[t] - 1 : x = RowFor(t, n)
    BY <1>2 DEF BackOfficeIInv, TaskFits, AddedFits
  <2>2. PICK m \in 1 .. at[t] - 1 : y = RowFor(t, m)
    BY <1>2 DEF BackOfficeIInv, TaskFits, AddedFits
  <2>3. /\ job[t] \in JobType /\ job[t] \in Jobs[t]
        /\ at[t] \in 1 .. Len(job[t].targets) + 1
    BY DEF BackOfficeIInv, TypeOK, TaskFits, JobFits
  <2>4. Len(job[t].targets) \in Nat
    BY <2>3 DEF JobType
  <2>5. n \in 1 .. Len(job[t].targets) /\ m \in 1 .. Len(job[t].targets)
    BY <2>3, <2>4
  <2>6. CASE n # m
    <3>1. ~FindOneAnother(job[t].targets[n], job[t].targets[m])
      BY <2>3, <2>5, <2>6, JobAssumption
    <3> QED
      BY <2>1, <2>2, <3>1 DEF RowFor, Twins, FindOneAnother
  <2> QED
    BY <2>1, <2>2, <2>6 DEF Twins
<1> QED
  BY <1>1, <1>2 DEF Fresh

\* What t commits is late for everybody who is at work.
LEMMA CommitIsLate ==
  ASSUME NEW t \in Tasks, NEW q \in Tasks \ {t}, BackOfficeIInv, RaceIInv, Commit(t),
         Idles(q)
  PROVE  KeysFit(q)' /\ LateTwins(q)'
<1>1. rows' = View(t) /\ pc[t] # "ok"
  BY DEF Commit
<1>2. since'[q] = IF pc[q] \in Done THEN since[q] ELSE since[q] \cup {t}
  BY DEF Commit, Done
<1>3. Rekeyed(q)' = Rekeyed(q) /\ Fresh(q)' = Fresh(q)
  BY DEF Rekeyed, Fresh, Idles
<1>4. Due(q)' = Due(q)
  BY DEF Due, NewRow, Patched, NothingToSay, Target, Idles
<1>5. ASSUME NEW u \in updated[q] \ Rekeyed(q)
      PROVE  \E y \in rows' : y.id = u.id /\ y.by = u.by
  <2>1. PICK z \in rows : z.id = u.id /\ SameRow(z, u)
    BY <1>5 DEF BackOfficeIInv, TaskFits, UpdatedFits
  <2>2. z.by = u.by
    BY <1>5, <2>1 DEF RaceIInv, KeysFit, BackOfficeIInv, TypeOK
  <2>3. z.table = "hours"
    BY <1>5, <2>1 DEF Rekeyed, SameRow
  <2>4. PICK y \in View(t) : y.id = z.id /\ SameRow(z, y)
    BY <2>3, VersionStays
  <2>5. y \notin Fresh(t)
    BY <1>1, <2>3, <2>4, ViewOfRows DEF Fresh, Rekeyed, SameRow, BackOfficeIInv, RowsFit
  <2>6. PICK v \in rows : SameKey(v, y)
    BY <2>4, <2>5, KeyOrigin
  <2>7. v = z
    BY <2>4, <2>6 DEF SameKey, BackOfficeIInv, TypeOK
  <2> QED
    BY <1>1, <2>1, <2>2, <2>4, <2>6, <2>7 DEF SameKey
<1>6. KeysFit(q)'
  BY <1>3, <1>5 DEF KeysFit, RaceIInv, Idles
<1>7. ASSUME NEW x \in Fresh(q) \cup Due(q), NEW y \in View(t), Sought(q, x, y)
      PROVE  y.by \in since'[q]
  <2>1. pc[q] \notin Done
    BY <1>7 DEF Fresh, Rekeyed, Due, BackOfficeIInv, TaskFits, JobFits, Done, Answers
  <2>2. CASE y \in Fresh(t)
    BY <1>2, <2>1, <2>2, FreshIsOwn
  <2>3. ASSUME NEW z \in rows, SameKey(z, y)
        PROVE  y.by \in since'[q]
    <3>1. Sought(q, x, z) /\ z.by = y.by
      BY <1>7, <2>3 DEF Sought, Twins, SameKey, FindOneAnother
    <3> QED
      BY <1>2, <3>1 DEF RaceIInv, LateTwins
  <2> QED
    BY <2>2, <2>3, KeyOrigin
<1>8. LateTwins(q)'
  BY <1>1, <1>3, <1>4, <1>7 DEF LateTwins, Sought, Idles
<1> QED
  BY <1>6, <1>8

LEMMA CommitRaces ==
  ASSUME NEW t \in Tasks, BackOfficeIInv, RaceIInv, Commit(t)
  PROVE  RaceIInv'
<1>1. /\ pc[t] = "commit" /\ rows' = View(t)
      /\ pc'[t] = "ok" /\ added'[t] = {} /\ updated'[t] = {} /\ removed'[t] = {}
      /\ \A q \in Tasks \ {t} : Idles(q)
  BY DEF Commit, Go, Idles, BackOfficeIInv, TypeOK
<1>2. KeysFit(t)' /\ LateTwins(t)'
  <2>1. Due(t)' = {} /\ Fresh(t)' = {} /\ Rekeyed(t)' = {}
    BY <1>1 DEF Due, Fresh, Rekeyed
  <2> QED
    BY <1>1, <2>1 DEF KeysFit, LateTwins, Working
<1>3. \A q \in Tasks : KeysFit(q)' /\ LateTwins(q)'
  BY <1>1, <1>2, CommitIsLate
<1>4. ASSUME NEW q \in Tasks PROVE since[q] \subseteq since'[q]
  BY DEF Commit
<1>5. \A p, q : Overlapped(p, q) => Overlapped(p, q)'
  BY <1>4 DEF Overlapped
<1>6. ASSUME NEW x \in Fresh(t), NEW y \in View(t), Twins(x, y)
      PROVE  Overlapped(x.by, y.by)
  <2>1. x.by = t
    BY FreshIsOwn
  <2>2. y \notin Fresh(t)
    BY <1>1, <1>6, FreshOnce
  <2>3. PICK z \in rows : SameKey(z, y)
    BY <2>2, KeyOrigin
  <2>4. Twins(x, z) /\ z.by = y.by
    BY <1>6, <2>3 DEF Twins, SameKey, FindOneAnother
  <2> QED
    BY <2>1, <2>4 DEF RaceIInv, LateTwins, Sought, Overlapped
<1>7. ASSUME NEW x \in View(t), NEW y \in View(t), Twins(x, y)
      PROVE  {x.by, y.by} = {Before} \/ Overlapped(x.by, y.by)
  <2>1. CASE x \in Fresh(t)
    BY <1>6, <1>7, <2>1
  <2>2. CASE y \in Fresh(t)
    BY <1>6, <1>7, <2>2 DEF Twins, FindOneAnother, Overlapped
  <2>3. ASSUME NEW u \in rows, SameKey(u, x), NEW v \in rows, SameKey(v, y)
        PROVE  {x.by, y.by} = {Before} \/ Overlapped(x.by, y.by)
    <3>1. Twins(u, v) /\ u.by = x.by /\ v.by = y.by
      BY <1>7, <2>3, TwinsOfVersions
    <3> QED
      BY <3>1 DEF RaceIInv, DuplicatesOnlyFromRaces, Twins
  <2> QED
    BY <2>1, <2>2, <2>3, KeyOrigin
<1>8. DuplicatesOnlyFromRaces'
  BY <1>1, <1>5, <1>7 DEF DuplicatesOnlyFromRaces, Twins
<1> QED
  BY <1>3, <1>8 DEF RaceIInv

LEMMA NextRaces == BackOfficeIInv /\ RaceIInv /\ [Next]_vars => RaceIInv'
<1> SUFFICES ASSUME BackOfficeIInv, RaceIInv, [Next]_vars PROVE RaceIInv'
  OBVIOUS
<1>1. ASSUME NEW t \in Tasks,
             \/ Begin(t)
             \/ Look(t) \/ Insert(t) \/ Update(t) \/ Delete(t) \/ DeadlockVictim(t)
      PROVE  RaceIInv'
  <2>1. KeysFit(t)' /\ LateTwins(t)'
    BY <1>1, BeginRaces, LookRaces, InsertRaces, UpdateRaces, DeleteRaces, VictimRaces
  <2> QED
    BY <1>1, <2>1, OthersLookOn, OneTaskRaces
<1>2. CASE UNCHANGED vars
  <2>1. \A q \in Tasks : Idles(q)
    BY <1>2 DEF vars, draftVars, Idles
  <2>2. rows' = rows /\ since' = since
    BY <1>2 DEF vars
  <2>3. \A q \in Tasks : KeysFit(q)' /\ LateTwins(q)'
    BY <2>1, <2>2, IdlesRaces DEF RaceIInv
  <2>4. DuplicatesOnlyFromRaces'
    BY <2>2 DEF RaceIInv, DuplicatesOnlyFromRaces, Overlapped
  <2> QED
    BY <2>3, <2>4 DEF RaceIInv
<1> QED
  BY <1>1, <1>2, CommitRaces DEF Next, Serve, AllServed

\* Names, windows or weekdays of a shop that find one another are stored only
\* by requests that overlapped, whatever is stored before, whatever a look for
\* a name answers and whoever commits in between.
THEOREM DuplicatesNeedRaces == Spec => []DuplicatesOnlyFromRaces
<1>1. Init => RaceIInv
  <2> SUFFICES ASSUME Init PROVE RaceIInv
    OBVIOUS
  <2>1. DuplicatesOnlyFromRaces
    BY StoredAssumption DEF Init, DuplicatesOnlyFromRaces
  <2>2. \A t \in Tasks : KeysFit(t) /\ LateTwins(t)
    BY DEF Init, KeysFit, LateTwins, Rekeyed, Fresh, Due, Working
  <2> QED
    BY <2>1, <2>2 DEF RaceIInv
<1>2. RaceIInv => DuplicatesOnlyFromRaces
  BY DEF RaceIInv
<1> QED
  BY <1>1, <1>2, NextRaces, BackOfficeInvariant, PTL DEF Spec

-----------------------------------------------------------------------------
(* Removals.                                                               *)

\* t deletes the absence that its request names, and nothing else.
RemovalFits(t) ==
  /\ \A x \in removed[t] : x.id = named[t].id /\ job[t].targets[1].kind = "remove"
  /\ pc[t] = "delete" => loaded[t].id = named[t].id

LEMMA MoverRemoves ==
  ASSUME NEW t \in Tasks, BackOfficeIInv, RemovalFits(t), Begin(t) \/ Serve(t)
  PROVE  RemovalFits(t)'
<1>1. ASSUME NEW answer \in Answers, Fail(t, answer) PROVE RemovalFits(t)'
  BY <1>1 DEF Fail, Go, RemovalFits, BackOfficeIInv, TypeOK, Answers
<1>2. ASSUME Advance(t), removed' = removed PROVE RemovalFits(t)'
  BY <1>2 DEF Advance, Go, RemovalFits, BackOfficeIInv, TypeOK
<1>3. ASSUME NEW x, NEW step \in {"insert", "update", "delete"}, Loads(t, x, step),
             step = "delete" => x.id = named[t].id
      PROVE  RemovalFits(t)'
  BY <1>3 DEF Loads, Go, draftVars, RemovalFits, BackOfficeIInv, TypeOK
<1>4. CASE Begin(t)
  BY <1>4 DEF Begin, Go, draftVars, RemovalFits, BackOfficeIInv, TypeOK, TaskFits, JobFits, Done
<1>5. CASE Look(t)
  <2>1. LookToAdd(t) \/ LookToEnsure(t) \/ LookToSeed(t) => RemovalFits(t)'
    BY <1>1, <1>2, <1>3 DEF LookToAdd, LookToEnsure, LookToSeed, draftVars, Answers
  <2>2. LookToReplace(t) \/ LookToRename(t) => RemovalFits(t)'
    BY <1>1, <1>3 DEF LookToReplace, LookToRename, Answers
  <2>3. LookToRemove(t) => RemovalFits(t)'
    BY <1>1, <1>3 DEF LookToRemove, Answers
  <2> QED
    BY <1>5, <2>1, <2>2, <2>3 DEF Look
<1>6. CASE Insert(t) \/ Update(t)
  BY <1>1, <1>2, <1>6 DEF Insert, Update, draftVars, Answers
<1>7. CASE Delete(t)
  <2>1. CASE Fail(t, "database_unavailable")
    BY <1>1, <2>1 DEF Answers
  <2>2. CASE Advance(t) /\ removed' = [removed EXCEPT ![t] = {x \in rows : x.id = loaded[t].id}]
    <3>1. pc[t] = "delete" /\ pc[t] \in Working
      BY <1>7 DEF Delete, Working
    <3>2. Target(t).kind = "remove"
      BY <3>1 DEF BackOfficeIInv, TaskFits, JobFits
    <3>3. job[t].targets[1].kind = "remove"
      BY <3>1, <3>2, NamedRowOnly DEF Target
    <3> QED
      BY <2>2, <3>1, <3>3 DEF Advance, Go, RemovalFits, BackOfficeIInv, TypeOK
  <2> QED
    BY <1>7, <2>1, <2>2 DEF Delete
<1>8. CASE Commit(t)
  BY <1>8 DEF Commit, Go, RemovalFits, BackOfficeIInv, TypeOK
<1>9. CASE DeadlockVictim(t)
  BY <1>1, <1>9 DEF DeadlockVictim, Answers
<1> QED
  BY <1>4, <1>5, <1>6, <1>7, <1>8, <1>9 DEF Serve

\* Nothing crosses the border between two shops but the removal of the absence
\* that a request names: its lookup by id is the only one that no tenant
\* narrows (schedule_service.py: delete_time_off; repositories/base.py: owned).
THEOREM CrossingsAreRemovals ==
  Spec => [][\A t \in Tasks : CommitsNow(t) =>
               \A x \in (rows \ rows') \cup (rows' \ rows) :
                 x.shop = job[t].shop
                   \/ /\ x.table = "absence"
                      /\ x \in rows \ rows'
                      /\ x.id = named[t].id
                      /\ job[t].targets[1].kind = "remove"]_vars
<1> DEFINE Fits1 == \A t \in Tasks : RemovalFits(t)
           Narrow == \A t \in Tasks : CommitsNow(t) =>
                       \A x \in (rows \ rows') \cup (rows' \ rows) :
                         x.shop = job[t].shop
                           \/ /\ x.table = "absence"
                              /\ x \in rows \ rows'
                              /\ x.id = named[t].id
                              /\ job[t].targets[1].kind = "remove"
<1>1. Init => Fits1
  BY DEF Init, RemovalFits
<1>2. BackOfficeIInv /\ Fits1 /\ [Next]_vars => Fits1'
  <2> SUFFICES ASSUME BackOfficeIInv, Fits1, [Next]_vars, NEW q \in Tasks
               PROVE  RemovalFits(q)'
    OBVIOUS
  <2>1. ASSUME NEW t \in Tasks, Begin(t) \/ Serve(t), t # q PROVE RemovalFits(q)'
    <3>1. CASE Commit(t)
      BY <2>1, <3>1 DEF Commit, Go, RemovalFits, BackOfficeIInv, TypeOK
    <3>2. CASE ~Commit(t)
      BY <2>1, <3>2, OthersLookOn DEF Serve, Idles, RemovalFits
    <3> QED
      BY <3>1, <3>2
  <2>2. UNCHANGED vars => RemovalFits(q)'
    BY DEF vars, draftVars, RemovalFits
  <2> QED
    BY <2>1, <2>2, MoverRemoves DEF Next, AllServed
<1>3. BackOfficeIInv /\ Fits1 /\ [Next]_vars => Narrow
  <2> SUFFICES ASSUME BackOfficeIInv, Fits1, [Next]_vars, NEW t \in Tasks, CommitsNow(t),
                      NEW x \in (rows \ rows') \cup (rows' \ rows), x.shop # job[t].shop
               PROVE  /\ x.table = "absence"
                      /\ x \in rows \ rows'
                      /\ x.id = named[t].id
                      /\ job[t].targets[1].kind = "remove"
    OBVIOUS
  <2>1. rows' = View(t)
    BY OnlyCommitAccepts DEF Commit
  <2>2. \A u \in added[t] \cup updated[t] : u.shop = job[t].shop
    BY DEF BackOfficeIInv, TaskFits, AddedFits, UpdatedFits, RowFor
  <2>3. x \in rows \ rows'
    BY <2>1, <2>2 DEF View
  <2>4. PICK y \in updated[t] \cup removed[t] : y.id = x.id
    BY <2>1, <2>3 DEF View, Named
  <2>5. y \notin updated[t]
    <3> SUFFICES ASSUME y \in updated[t] PROVE FALSE
      OBVIOUS
    <3>1. PICK z \in rows : z.id = y.id /\ SameRow(z, y)
      BY DEF BackOfficeIInv, TaskFits, UpdatedFits
    <3>2. z = x
      BY <2>3, <2>4, <3>1 DEF BackOfficeIInv, TypeOK
    <3> QED
      BY <2>2, <3>1, <3>2 DEF SameRow
  <2> QED
    BY <2>3, <2>4, <2>5 DEF BackOfficeIInv, TaskFits, RemovedFits, RemovalFits
<1> QED
  BY <1>1, <1>2, <1>3, BackOfficeInvariant, PTL DEF Spec

-----------------------------------------------------------------------------
(* The week.                                                               *)

\* Row x is what target n of t asks for.
AsSubmitted(t, n, x) ==
  /\ x.table = "hours"
  /\ x.shop = job[t].shop
  /\ x.key = job[t].targets[n].key
  /\ x.opens = job[t].targets[n].opens
  /\ x.closes = job[t].targets[n].closes
  /\ x.closed = job[t].targets[n].closed

\* t sees the weekday that its target n has replaced.
DayHolds(t, n) ==
  job[t].targets[n].kind = "replace" => \E x \in View(t) : AsSubmitted(t, n, x)

\* While nobody commits, t sees every weekday it has done as submitted, and
\* the one it is at as it has loaded it.
WeekFits(t) ==
  /\ pc[t] = "commit" => at[t] = Len(job[t].targets) + 1
  /\ since[t] = {} /\ pc[t] \notin Done =>
       /\ \A n \in 1 .. at[t] - 1 : DayHolds(t, n)
       /\ pc[t] = "update" /\ Target(t).kind = "replace" => loaded[t] \in View(t)

WeekIInv == \A t \in Tasks : WeekFits(t)

\* What a task sees depends on its own writes and on what is committed.
LEMMA SameView ==
  ASSUME NEW t \in Tasks, rows' = rows, added'[t] = added[t], updated'[t] = updated[t],
         removed'[t] = removed[t]
  PROVE  View(t)' = View(t)
BY DEF View, Named

\* A task that does nothing, while nobody commits.
LEMMA IdlesWeek ==
  ASSUME NEW q \in Tasks, WeekFits(q), rows' = rows, since' = since, Idles(q)
  PROVE  WeekFits(q)'
<1>1. View(q)' = View(q)
  BY SameView DEF Idles
<1> QED
  BY <1>1 DEF WeekFits, DayHolds, AsSubmitted, Target, Idles

LEMMA FailWeek ==
  ASSUME NEW t \in Tasks, BackOfficeIInv, NEW answer \in Answers, Fail(t, answer)
  PROVE  WeekFits(t)'
<1>1. pc'[t] = answer /\ answer # "commit"
  BY DEF BackOfficeIInv, TypeOK, Fail, Go, Answers
<1> QED
  BY <1>1 DEF WeekFits, Done

LEMMA LoadsWeek ==
  ASSUME NEW t \in Tasks, BackOfficeIInv, WeekIInv, pc[t] = "look",
         NEW x, NEW step \in {"insert", "update", "delete"}, Loads(t, x, step),
         step = "update" /\ Target(t).kind = "replace" => x \in View(t)
  PROVE  WeekFits(t)'
<1>1. /\ pc'[t] = step /\ loaded'[t] = x
      /\ UNCHANGED <<rows, job, at, added, updated, removed, since>>
  BY DEF Loads, Go, draftVars, BackOfficeIInv, TypeOK
<1>2. View(t)' = View(t) /\ pc[t] \notin Done
  BY <1>1, SameView DEF Done, Answers
<1> QED
  BY <1>1, <1>2 DEF WeekIInv, WeekFits, DayHolds, AsSubmitted, Target

\* A task that is done with a target sees what it had done already, and what
\* the target asks for.
LEMMA AdvanceWeek ==
  ASSUME NEW t \in Tasks, BackOfficeIInv, WeekIInv, pc[t] \in Working, Advance(t),
         since[t] = {} =>
           \A n \in 1 .. at[t] : n = at[t] \/ DayHolds(t, n) => DayHolds(t, n)'
  PROVE  WeekFits(t)'
<1>1. /\ pc'[t] = IF at[t] < Len(job[t].targets) THEN "look" ELSE "commit"
      /\ at'[t] = at[t] + 1
      /\ since' = since /\ job' = job
  BY DEF Advance, Go, BackOfficeIInv, TypeOK
<1>2. at[t] \in 1 .. Len(job[t].targets) /\ Len(job[t].targets) \in Nat
  BY JobInHand
<1>3. pc'[t] = "commit" => at'[t] = Len(job[t].targets) + 1
  BY <1>1, <1>2
<1>4. ASSUME since[t] = {}, NEW n \in 1 .. at'[t] - 1
      PROVE  DayHolds(t, n)'
  <2>1. CASE n = at[t]
    BY <1>2, <1>4, <2>1
  <2>2. CASE n # at[t]
    <3>1. n \in 1 .. at[t] - 1
      BY <1>1, <1>2, <2>2
    <3>2. pc[t] \notin Done
      BY DEF Working, Done, Answers
    <3>3. DayHolds(t, n) /\ n \in 1 .. at[t]
      BY <1>2, <1>4, <3>1, <3>2 DEF WeekIInv, WeekFits
    <3> QED
      BY <1>4, <3>3
  <2> QED
    BY <2>1, <2>2
<1>5. pc'[t] # "update"
  BY <1>1
<1> QED
  BY <1>1, <1>3, <1>4, <1>5 DEF WeekFits

\* Nothing is lost of what t sees and nothing had to be written.
LEMMA SkipWeek ==
  ASSUME NEW t \in Tasks, BackOfficeIInv, WeekIInv, pc[t] \in Working, Advance(t),
         UNCHANGED draftVars, since[t] = {} => DayHolds(t, at[t])
  PROVE  WeekFits(t)'
<1>1. UNCHANGED <<rows, job, added, updated, removed>>
  BY DEF Advance, draftVars
<1>2. View(t)' = View(t)
  BY <1>1, SameView
<1>3. ASSUME NEW n, DayHolds(t, n) PROVE DayHolds(t, n)'
  BY <1>1, <1>2, <1>3 DEF DayHolds, AsSubmitted
<1> QED
  BY <1>3, AdvanceWeek

LEMMA BeginWeek ==
  ASSUME NEW t \in Tasks, BackOfficeIInv, Begin(t)
  PROVE  WeekFits(t)'
<1>1. at[t] = 1
  BY DEF Begin, BackOfficeIInv, TaskFits, JobFits
<1>2. pc'[t] = "look" /\ at'[t] = 1
  BY <1>1 DEF Begin, Go, BackOfficeIInv, TypeOK
<1> QED
  BY <1>2 DEF WeekFits

LEMMA LookWeek ==
  ASSUME NEW t \in Tasks, BackOfficeIInv, WeekIInv, Look(t)
  PROVE  WeekFits(t)'
<1>1. pc[t] = "look" /\ pc[t] \in Working
  BY DEF Look, LookToAdd, LookToEnsure, LookToSeed, LookToReplace, LookToRename, LookToRemove, Working
<1>2. {"conflict", "not_found", "database_unavailable"} \subseteq Answers
  BY DEF Answers
<1>3. ASSUME Loads(t, NoRow, "insert") PROVE WeekFits(t)'
  BY <1>1, <1>3, LoadsWeek
<1>4. CASE LookToAdd(t)
  BY <1>1, <1>2, <1>3, <1>4, FailWeek DEF LookToAdd
<1>5. CASE LookToEnsure(t) \/ LookToSeed(t)
  <2>1. DayHolds(t, at[t])
    BY <1>5 DEF LookToEnsure, LookToSeed, DayHolds, Target
  <2> QED
    BY <1>1, <1>3, <1>5, <2>1, SkipWeek DEF LookToEnsure, LookToSeed
<1>6. CASE LookToReplace(t)
  <2>1. ASSUME NEW x \in Alike(t), Loads(t, x, "update") PROVE WeekFits(t)'
    BY <1>1, <2>1, LoadsWeek DEF Alike
  <2> QED
    BY <1>2, <1>3, <1>6, <2>1, FailWeek DEF LookToReplace
<1>7. CASE LookToRename(t)
  <2>1. ASSUME NEW x \in rows, Loads(t, x, "update") PROVE WeekFits(t)'
    BY <1>1, <1>7, <2>1, LoadsWeek DEF LookToRename
  <2> QED
    BY <1>2, <1>7, <2>1, FailWeek DEF LookToRename
<1>8. CASE LookToRemove(t)
  <2>1. ASSUME NEW x \in rows, Loads(t, x, "delete") PROVE WeekFits(t)'
    BY <1>1, <2>1, LoadsWeek
  <2> QED
    BY <1>2, <1>8, <2>1, FailWeek DEF LookToRemove
<1> QED
  BY <1>4, <1>5, <1>6, <1>7, <1>8 DEF Look

LEMMA InsertWeek ==
  ASSUME NEW t \in Tasks, BackOfficeIInv, WeekIInv, Insert(t)
  PROVE  WeekFits(t)'
<1>1. pc[t] \in Working
  BY DEF Insert, Working
<1>2. CASE Fail(t, "conflict")
  BY <1>2, FailWeek DEF Answers
<1>3. CASE ~Fail(t, "conflict")
  <2>1. /\ Advance(t)
        /\ added'[t] = added[t] \cup {NewRow(t)}
        /\ UNCHANGED <<updated, removed>>
    BY <1>3 DEF Insert, BackOfficeIInv, TypeOK
  <2>2. rows' = rows /\ job' = job
    BY <2>1 DEF Advance
  <2>3. View(t)' = View(t) \cup {NewRow(t)}
    BY <2>1, <2>2 DEF View, Named
  <2>4. ASSUME NEW n, DayHolds(t, n) PROVE DayHolds(t, n)'
    BY <2>2, <2>3, <2>4 DEF DayHolds, AsSubmitted
  <2>5. ASSUME NEW n, n = at[t] PROVE DayHolds(t, n)'
    <3>1. job[t] \in Jobs[t] /\ at[t] \in 1 .. Len(job[t].targets)
      BY <1>1, JobInHand
    <3>2. job[t].targets[n].kind = "replace" => AsSubmitted(t, n, NewRow(t))
      BY <2>5, <3>1, JobAssumption DEF AsSubmitted, NewRow, Target
    <3> QED
      BY <2>2, <2>3, <3>2 DEF DayHolds, AsSubmitted
  <2> QED
    BY <1>1, <2>1, <2>4, <2>5, AdvanceWeek
<1> QED
  BY <1>2, <1>3

LEMMA UpdateWeek ==
  ASSUME NEW t \in Tasks, BackOfficeIInv, WeekIInv, Update(t)
  PROVE  WeekFits(t)'
<1>1. pc[t] = "update" /\ pc[t] \in Working /\ pc[t] \notin Done /\ pc[t] # "ok"
  BY DEF Update, Working, Done, Answers
<1>2. /\ loaded[t] \in Rows /\ Target(t) \in Targets
      /\ loaded[t].table = Target(t).table
      /\ loaded[t].table # "absence" => loaded[t].shop = job[t].shop
      /\ Target(t).kind = "replace" => loaded[t].key = Target(t).key
      /\ Target(t).kind \in {"replace", "rename"}
  BY <1>1, JobInHand DEF BackOfficeIInv, TaskFits, LoadedFits, JobFits
<1>3. Target(t).kind = "replace" => Target(t).table = "hours"
  BY <1>1, JobInHand, JobAssumption DEF Target
<1>4. CASE NothingToSay(t) /\ Advance(t) /\ UNCHANGED <<loaded, draftVars>>
  <2>1. ASSUME Target(t).kind = "replace", since[t] = {}
        PROVE  loaded[t] \in View(t) /\ AsSubmitted(t, at[t], loaded[t])
    <3>1. loaded[t] \in View(t)
      BY <1>1, <2>1 DEF WeekIInv, WeekFits
    <3>2. /\ Patched(t, loaded[t]).opens = Target(t).opens
          /\ Patched(t, loaded[t]).closes = Target(t).closes
          /\ Patched(t, loaded[t]).closed = Target(t).closed
      BY <1>2, <2>1 DEF Patched, Rows
    <3> QED
      BY <1>2, <1>3, <1>4, <2>1, <3>1, <3>2 DEF NothingToSay, AsSubmitted, Target
  <2>2. since[t] = {} => DayHolds(t, at[t])
    BY <2>1 DEF DayHolds, Target
  <2> QED
    BY <1>1, <1>4, <2>2, SkipWeek
<1>5. ASSUME NEW x \in View(t), x.id = loaded[t].id,
             updated' = [updated EXCEPT ![t] = @ \cup {Patched(t, x)}],
             Advance(t), UNCHANGED <<loaded, added, removed>>
      PROVE  WeekFits(t)'
  <2>1. /\ updated'[t] = updated[t] \cup {Patched(t, x)}
        /\ UNCHANGED <<rows, job, added, removed>>
    BY <1>5 DEF Advance, BackOfficeIInv, TypeOK
  <2>2. x \in rows /\ x \in Rows
    BY <1>1, <1>5, WrittenIsStored DEF BackOfficeIInv, TypeOK
  <2>3. Patched(t, x).id = x.id
    BY <1>2, <2>2 DEF Patched, Rows
  <2>4. /\ Patched(t, x) \in View(t)'
        /\ \A y \in View(t) : y.id # x.id => y \in View(t)'
    BY <2>1, <2>3 DEF View, Named
  <2>5. ASSUME since[t] = {}, NEW n \in 1 .. at[t] - 1, DayHolds(t, n)
        PROVE  DayHolds(t, n)'
    <3> SUFFICES ASSUME job[t].targets[n].kind = "replace"
                 PROVE  \E y \in View(t)' : AsSubmitted(t, n, y)
      BY <2>1 DEF DayHolds, AsSubmitted
    <3>1. PICK y \in View(t) : AsSubmitted(t, n, y)
      BY <2>5 DEF DayHolds
    <3>2. y.id # x.id
      <4>1. CASE Target(t).kind = "rename"
        <5>1. at[t] = 1
          BY <1>1, <4>1, NamedRowOnly
        <5> QED
          BY <5>1
      <4>2. CASE Target(t).kind = "replace"
        <5>1. SameRow(x, loaded[t])
          BY <1>1, <1>5, <2>2 DEF BackOfficeIInv, TaskFits, LoadedFits
        <5>2. x.key = Target(t).key /\ Target(t).table = "hours"
          BY <1>2, <1>3, <4>2, <5>1 DEF SameRow
        <5>3. job[t] \in Jobs[t] /\ at[t] \in 1 .. Len(job[t].targets)
              /\ Len(job[t].targets) \in Nat
          BY <1>1, JobInHand
        <5>4. n \in 1 .. Len(job[t].targets)
          BY <5>3
        <5>5. job[t].targets[n].table = "hours"
          BY <5>3, <5>4, JobAssumption
        <5>6. y.key # x.key
          BY <1>1, <3>1, <5>2, <5>5, TargetsDiffer DEF AsSubmitted
        <5> QED
          BY <1>1, <1>5, <5>6, ViewOfRows
      <4> QED
        BY <1>2, <4>1, <4>2
    <3> QED
      BY <2>4, <3>1, <3>2
  <2>6. ASSUME since[t] = {}, NEW n, n = at[t] PROVE DayHolds(t, n)'
    <3> SUFFICES ASSUME Target(t).kind = "replace"
                 PROVE  AsSubmitted(t, n, Patched(t, x))
      BY <2>1, <2>4, <2>6 DEF DayHolds, AsSubmitted, Target
    <3>1. loaded[t] \in View(t)
      BY <1>1, <2>6 DEF WeekIInv, WeekFits
    <3>2. x = loaded[t]
      BY <1>1, <1>5, <3>1, ViewOfRows
    <3>3. /\ Patched(t, x).opens = Target(t).opens
          /\ Patched(t, x).closes = Target(t).closes
          /\ Patched(t, x).closed = Target(t).closed
          /\ Patched(t, x).table = x.table
          /\ Patched(t, x).shop = x.shop
          /\ Patched(t, x).key = x.key
      BY <1>2, <2>2, <3>2 DEF Patched, Rows
    <3> QED
      BY <1>2, <1>3, <2>6, <3>2, <3>3 DEF AsSubmitted, Target
  <2>7. ASSUME since[t] = {}, NEW n \in 1 .. at[t], n = at[t] \/ DayHolds(t, n)
        PROVE  DayHolds(t, n)'
    <3>1. n = at[t] \/ n \in 1 .. at[t] - 1
      BY <1>1, JobInHand
    <3> QED
      BY <2>5, <2>6, <2>7, <3>1
  <2> QED
    BY <1>1, <1>5, <2>7, AdvanceWeek
<1> QED
  BY <1>4, <1>5, FailWeek DEF Update, Answers

LEMMA DeleteWeek ==
  ASSUME NEW t \in Tasks, BackOfficeIInv, WeekIInv, Delete(t)
  PROVE  WeekFits(t)'
<1>1. pc[t] = "delete" /\ pc[t] \in Working
  BY DEF Delete, Working
<1>2. CASE Fail(t, "database_unavailable")
  BY <1>2, FailWeek DEF Answers
<1>3. CASE ~Fail(t, "database_unavailable")
  <2>1. Advance(t)
    BY <1>3 DEF Delete
  <2>2. Target(t).kind = "remove" /\ at[t] = 1
    <3>1. Target(t).kind = "remove"
      BY <1>1 DEF BackOfficeIInv, TaskFits, JobFits
    <3> QED
      BY <1>1, <3>1, NamedRowOnly
  <2>3. ASSUME NEW n \in 1 .. at[t] PROVE DayHolds(t, n)'
    BY <2>1, <2>2 DEF DayHolds, Advance, Target
  <2> QED
    BY <1>1, <2>1, <2>2, <2>3, AdvanceWeek
<1> QED
  BY <1>2, <1>3

LEMMA CommitWeek ==
  ASSUME NEW t \in Tasks, NEW q \in Tasks, BackOfficeIInv, WeekIInv, Commit(t)
  PROVE  WeekFits(q)'
<1>1. pc' = [pc EXCEPT ![t] = "ok"] /\ UNCHANGED <<job, at>>
  BY DEF Commit, Go
<1>2. CASE q = t
  <2>1. pc'[q] = "ok"
    BY <1>1, <1>2 DEF BackOfficeIInv, TypeOK
  <2> QED
    BY <2>1 DEF WeekFits, Done, Answers
<1>3. CASE q # t
  <2>1. pc'[q] = pc[q]
    BY <1>1, <1>3 DEF BackOfficeIInv, TypeOK
  <2>2. pc[q] \notin Done => t \in since'[q]
    BY <1>3 DEF Commit, Done
  <2> QED
    BY <1>1, <2>1, <2>2 DEF WeekIInv, WeekFits
<1> QED
  BY <1>2, <1>3

LEMMA NextWeek == BackOfficeIInv /\ WeekIInv /\ [Next]_vars => WeekIInv'
<1> SUFFICES ASSUME BackOfficeIInv, WeekIInv, [Next]_vars PROVE WeekIInv'
  OBVIOUS
<1>1. ASSUME NEW t \in Tasks,
             \/ Begin(t)
             \/ Look(t) \/ Insert(t) \/ Update(t) \/ Delete(t) \/ DeadlockVictim(t)
      PROVE  WeekIInv'
  <2>1. DeadlockVictim(t) => WeekFits(t)'
    BY FailWeek DEF DeadlockVictim, Answers
  <2>2. WeekFits(t)'
    BY <1>1, <2>1, BeginWeek, LookWeek, InsertWeek, UpdateWeek, DeleteWeek
  <2>3. \A q \in Tasks \ {t} : WeekFits(q)'
    BY <1>1, OthersLookOn, IdlesWeek DEF WeekIInv
  <2> QED
    BY <2>2, <2>3 DEF WeekIInv
<1>2. ASSUME NEW t \in Tasks, Commit(t) PROVE WeekIInv'
  BY <1>2, CommitWeek DEF WeekIInv
<1>3. CASE UNCHANGED vars
  BY <1>3, IdlesWeek DEF vars, draftVars, Idles, WeekIInv
<1> QED
  BY <1>1, <1>2, <1>3 DEF Next, Serve, AllServed

\* A week is stored as it was submitted when nobody else commits meanwhile,
\* whichever of its days existed and whatever else is under way.
THEOREM WeekIsStored == Spec => SoloHoursAsSubmitted
<1>1. Init => WeekIInv
  BY DEF Init, WeekIInv, WeekFits, Done
<1>2. ASSUME BackOfficeIInv, WeekIInv, [Next]_vars, NEW t \in Tasks, CommitsNow(t),
             since[t] = {}
      PROVE  StoredAsSubmitted(t)
  <2>1. Commit(t)
    BY <1>2, OnlyCommitAccepts
  <2>2. rows' = View(t) /\ pc[t] = "commit" /\ pc[t] \notin Done
    BY <2>1 DEF Commit, Done, Answers
  <2>3. at[t] = Len(job[t].targets) + 1 /\ \A n \in 1 .. at[t] - 1 : DayHolds(t, n)
    BY <1>2, <2>2 DEF WeekIInv, WeekFits
  <2>4. Len(job[t].targets) \in Nat
    BY <1>2 DEF BackOfficeIInv, TypeOK, JobType
  <2>5. \A n \in 1 .. Len(job[t].targets) : DayHolds(t, n)
    BY <2>3, <2>4
  <2> QED
    BY <2>2, <2>5 DEF StoredAsSubmitted, DayHolds, AsSubmitted
<1>3. BackOfficeIInv /\ WeekIInv /\ [Next]_vars =>
        (\A t \in Tasks : CommitsNow(t) /\ since[t] = {} => StoredAsSubmitted(t))
  BY <1>2
<1> QED
  BY <1>1, <1>3, NextWeek, BackOfficeInvariant, PTL DEF Spec, SoloHoursAsSubmitted
=============================================================================
