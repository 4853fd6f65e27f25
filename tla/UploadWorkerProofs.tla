------------------------- MODULE UploadWorkerProofs -------------------------
(***************************************************************************)
(* Proofs about UploadWorker for any set of files and administrators, any  *)
(* listing limit, with or without failing statements and crashes.          *)
(***************************************************************************)
EXTENDS UploadWorker, TLAPS

USE DEF MaxAttempts

(* What the statements do to the table, whoever runs them.                 *)

\* A listing taken now names rows that exist, with their paths.
LEMMA ListingIsCurrent ==
    ASSUME QueueTypeOK, NEW ids \in SUBSET DOMAIN rows
    PROVE  /\ Snapshot(Oldest(ids)) \in SUBSET Entry
           /\ \A e \in Snapshot(Oldest(ids)) :
                 /\ e.id \in ids
                 /\ e.id \in 1..lastId
                 /\ e.path = rows[e.id].path
           /\ \A e, f \in Snapshot(Oldest(ids)) : e.id = f.id => e = f
<1>1. Oldest(ids) \subseteq ids
  BY DEF Oldest
<1>2. \A i \in ids : i \in Nat \ {0} /\ i \in 1..lastId /\ rows[i].path \in Path
  BY DEF QueueTypeOK, Row
<1>3. QED
  BY <1>1, <1>2 DEF Snapshot, Entry

\* A statement that updates a row keeps the table well formed, its ids and
\* every path, and no other row changes.
LEMMA UpdateKeepsTable ==
    ASSUME QueueTypeOK, NEW id,
           \/ MarkUploading(id) \/ MarkUploaded(id)
           \/ MarkFailed(id) \/ ResetForRetry(id)
    PROVE  /\ QueueTypeOK'
           /\ lastId' = lastId
           /\ DOMAIN rows' = DOMAIN rows
           /\ \A i \in DOMAIN rows : rows'[i].path = rows[i].path
           /\ \A i \in DOMAIN rows \ {id} : rows'[i] = rows[i]
<1> USE DEF QueueTypeOK, UpdateRow, Row, Status
<1>1. CASE MarkUploading(id)
  BY <1>1 DEF MarkUploading, BeginAttempt
<1>2. CASE MarkUploaded(id)
  BY <1>2 DEF MarkUploaded, EndAttempt
<1>3. CASE MarkFailed(id)
  <2>1. ASSUME NEW r \in Row
        PROVE  CountFailure(r) \in Row /\ CountFailure(r).path = r.path
    <3>1. r.retries + 1 \in Nat
      BY DEF Row
    <3>2. QED
      BY <3>1 DEF CountFailure
  <2>2. rows' = [i \in DOMAIN rows |-> IF i = id THEN CountFailure(rows[i]) ELSE rows[i]]
    BY <1>3 DEF MarkFailed
  <2>3. \A i \in DOMAIN rows : rows[i] \in Row
    BY DEF Row
  <2>4. QED
    BY <1>3, <2>1, <2>2, <2>3 DEF MarkFailed
<1>4. CASE ResetForRetry(id)
  BY <1>4 DEF ResetForRetry, ClearFailures
<1>5. QED
  BY <1>1, <1>2, <1>3, <1>4

\* Enqueue keeps every row; a row it adds is pending and has an id never used.
LEMMA EnqueueKeepsTable ==
    ASSUME QueueTypeOK, NEW p \in Path, Enqueue(p)
    PROVE  /\ QueueTypeOK'
           /\ lastId <= lastId'
           /\ DOMAIN rows \subseteq DOMAIN rows'
           /\ \A i \in DOMAIN rows : rows'[i] = rows[i]
           /\ \A i \in DOMAIN rows' \ DOMAIN rows :
                 i = lastId + 1 /\ rows'[i] = [path |-> p, status |-> "pending", retries |-> 0]
<1>1. CASE Tracked(p)
  BY <1>1 DEF Enqueue, queueVars, QueueTypeOK
<1>2. CASE ~Tracked(p)
  <2>1. /\ lastId' = lastId + 1
        /\ rows' = [i \in DOMAIN rows \cup {lastId + 1} |->
                       IF i = lastId + 1
                       THEN [path |-> p, status |-> "pending", retries |-> 0]
                       ELSE rows[i]]
    BY <1>2 DEF Enqueue
  <2>2. lastId + 1 \notin DOMAIN rows
    BY DEF QueueTypeOK
  <2>3. [path |-> p, status |-> "pending", retries |-> 0] \in Row
    BY DEF Row, Status
  <2>4. QED
    BY <2>1, <2>2, <2>3 DEF QueueTypeOK
<1>3. QED
  BY <1>1, <1>2

\* Delete keeps every other row as it is.
LEMMA DeleteKeepsTable ==
    ASSUME QueueTypeOK, NEW id, Delete(id)
    PROVE  /\ QueueTypeOK'
           /\ lastId' = lastId
           /\ DOMAIN rows' = DOMAIN rows \ {id}
           /\ \A i \in DOMAIN rows' : rows'[i] = rows[i]
BY DEF QueueTypeOK, Delete

----------------------------------------------------------------------------
(* Every variable keeps to its type.                                       *)

LEMMA TypeStep ==
    ASSUME TypeOK, [Next]_vars
    PROVE  TypeOK'
<1> USE DEF storeVars, queueVars, workerVars, adminVars, OnDisk
<1> USE DEF TypeOK
<1>1. CASE Poll
  <2>1. GetPending \in SUBSET Entry
    BY ListingIsCurrent DEF GetPending, PendingIds
  <2>2. QueueTypeOK'
    BY <1>1 DEF Poll, QueueTypeOK
  <2>3. QED
    BY <1>1, <2>1, <2>2 DEF Poll
<1>2. CASE Tick \/ Done
  BY <1>2 DEF Tick, Done, QueueTypeOK
<1>3. ASSUME NEW e \in batch, CheckFile(e)
      PROVE  TypeOK'
  BY <1>3 DEF CheckFile, NextEntry, QueueTypeOK
<1>4. ASSUME NEW e \in batch, StartAttempt(e)
      PROVE  TypeOK'
  <2>1. QueueTypeOK'
    BY <1>4, UpdateKeepsTable DEF StartAttempt, QueueTypeOK
  <2>2. QED
    BY <1>4, <2>1 DEF StartAttempt, NextEntry
<1>5. ASSUME NEW e \in batch, UploadOk(e) \/ UploadErr(e)
      PROVE  TypeOK'
  BY <1>5 DEF UploadOk, UploadErr, QueueTypeOK, Entry
<1>6. ASSUME NEW e \in batch, RecordFailure(e)
      PROVE  TypeOK'
  <2>1. QueueTypeOK'
    BY <1>6, UpdateKeepsTable DEF RecordFailure, QueueTypeOK
  <2>2. QED
    BY <1>6, <2>1 DEF RecordFailure, NextEntry
<1>7. ASSUME NEW e \in batch, RecordSuccess(e)
      PROVE  TypeOK'
  <2>1. QueueTypeOK'
    BY <1>7, UpdateKeepsTable DEF RecordSuccess, QueueTypeOK
  <2>2. QED
    BY <1>7, <2>1 DEF RecordSuccess, NextEntry
<1>8. ASSUME NEW e \in batch, RemoveFile(e)
      PROVE  TypeOK'
  BY <1>8 DEF RemoveFile, NextEntry, QueueTypeOK
<1>9. ASSUME NEW p \in Path, RunCallback(p)
      PROVE  TypeOK'
  <2>1. QueueTypeOK'
    BY <1>9, EnqueueKeepsTable DEF RunCallback, QueueTypeOK
  <2>2. QED
    BY <1>9, <2>1 DEF RunCallback
<1>10. ASSUME NEW a \in Admin, StartRetry(a)
       PROVE  TypeOK'
  <2>1. GetFailedPermanent \in SUBSET Entry
    BY ListingIsCurrent DEF GetFailedPermanent, FailedPermanentIds
  <2>2. QueueTypeOK'
    BY <1>10 DEF StartRetry, QueueTypeOK
  <2>3. QED
    BY <1>10, <2>1, <2>2 DEF StartRetry
<1>11. ASSUME NEW a \in Admin, NEW e \in list[a], StatListed(a, e)
       PROVE  TypeOK'
  BY <1>11 DEF StatListed, QueueTypeOK
<1>12. ASSUME NEW a \in Admin, NEW e \in list[a], ResetListed(a, e)
       PROVE  TypeOK'
  <2>1. QueueTypeOK'
    BY <1>12, UpdateKeepsTable DEF ResetListed, QueueTypeOK
  <2>2. QED
    BY <1>12, <2>1 DEF ResetListed, NextListed
<1>13. ASSUME NEW a \in Admin, NEW e \in list[a], DeleteListed(a, e)
       PROVE  TypeOK'
  <2>1. QueueTypeOK'
    BY <1>13, DeleteKeepsTable DEF DeleteListed, QueueTypeOK
  <2>2. QED
    BY <1>13, <2>1 DEF DeleteListed, NextListed
<1>14. CASE Process
  BY <1>14 DEF Process, Shutdown, CloseQueue, Exit, Crash, Die, Restart, QueueTypeOK
<1>15. CASE Outside
  BY <1>15 DEF Outside, Rotate, RotateAgain, Age, Vanish, QueueTypeOK
<1>16. CASE UNCHANGED vars
  BY <1>16 DEF vars, QueueTypeOK
<1>17. QED
  BY <1>1, <1>2, <1>3, <1>4, <1>5, <1>6, <1>7, <1>8, <1>9, <1>10, <1>11,
     <1>12, <1>13, <1>14, <1>15, <1>16 DEF Next, Worker, Retry

\* Queue, worker, callbacks, requests and process keep their types.
THEOREM TypeCorrect == Spec => []TypeOK
<1>1. Init => TypeOK
  BY DEF Init, QueueInit, TypeOK, QueueTypeOK
<1>2. QED
  BY <1>1, TypeStep, PTL DEF Spec

----------------------------------------------------------------------------
(* A listing never names the row of another file.                          *)

\* What any step does to the table is one statement or nothing.
TableStep ==
    \/ UNCHANGED queueVars
    \/ \E p \in Path : Enqueue(p)
    \/ \E id \in Nat : \/ MarkUploading(id) \/ MarkUploaded(id)
                       \/ MarkFailed(id) \/ ResetForRetry(id) \/ Delete(id)

LEMMA StepsAreStatements ==
    ASSUME TypeOK, [Next]_vars
    PROVE  TableStep
<1> USE DEF TypeOK, TableStep, storeVars
<1>1. \A e \in batch : e.id \in Nat
  BY DEF Entry
<1>2. \A a \in Admin : \A e \in list[a] : e.id \in Nat
  BY DEF Entry
<1>3. CASE Worker
  BY <1>1, <1>3 DEF Worker, Poll, Tick, Done, CheckFile, StartAttempt, UploadOk,
     UploadErr, RecordFailure, RecordSuccess, RemoveFile, queueVars
<1>4. CASE \E p \in Path : RunCallback(p)
  BY <1>4 DEF RunCallback
<1>5. CASE \E a \in Admin : Retry(a)
  BY <1>2, <1>5 DEF Retry, StartRetry, StatListed, ResetListed, DeleteListed, queueVars
<1>6. CASE Process
  BY <1>6 DEF Process, Shutdown, CloseQueue, Exit, Crash, Die, Restart, queueVars
<1>7. CASE Outside
  BY <1>7 DEF Outside, Rotate, RotateAgain, Age, Vanish, queueVars
<1>8. CASE UNCHANGED vars
  BY <1>8 DEF vars, queueVars
<1>9. QED
  BY <1>3, <1>4, <1>5, <1>6, <1>7, <1>8 DEF Next

\* The worker and the administrators only drop entries, or list the table anew.
LEMMA ListingsShrinkOrRefresh ==
    ASSUME TypeOK, [Next]_vars
    PROVE  /\ \/ batch' \subseteq batch
              \/ batch' = GetPending /\ UNCHANGED queueVars
           /\ \A a \in Admin : \/ list'[a] \subseteq list[a]
                               \/ list'[a] = GetFailedPermanent /\ UNCHANGED queueVars
<1> USE DEF TypeOK, storeVars, workerVars, adminVars, queueVars
<1>1. CASE Worker
  BY <1>1 DEF Worker, Poll, Tick, Done, CheckFile, StartAttempt, UploadOk,
     UploadErr, RecordFailure, RecordSuccess, RemoveFile, NextEntry
<1>2. CASE \E p \in Path : RunCallback(p)
  BY <1>2 DEF RunCallback
<1>3. CASE \E a \in Admin : Retry(a)
  BY <1>3 DEF Retry, StartRetry, StatListed, ResetListed, DeleteListed, NextListed
<1>4. CASE Process
  BY <1>4 DEF Process, Shutdown, CloseQueue, Exit, Crash, Die, Restart
<1>5. CASE Outside
  BY <1>5 DEF Outside, Rotate, RotateAgain, Age, Vanish
<1>6. CASE UNCHANGED vars
  BY <1>6 DEF vars
<1>7. QED
  BY <1>1, <1>2, <1>3, <1>4, <1>5, <1>6 DEF Next

LEMMA NamesStayTrue ==
    ASSUME QueueTypeOK, TableStep, NEW e \in Entry, NamesItsRow(e)
    PROVE  NamesItsRow(e)'
<1>1. CASE UNCHANGED queueVars
  BY <1>1 DEF queueVars, NamesItsRow
<1>2. ASSUME NEW p \in Path, Enqueue(p)
      PROVE  NamesItsRow(e)'
  BY <1>2, EnqueueKeepsTable DEF NamesItsRow, Entry, QueueTypeOK
<1>3. ASSUME NEW id \in Nat, \/ MarkUploading(id) \/ MarkUploaded(id)
                             \/ MarkFailed(id) \/ ResetForRetry(id)
      PROVE  NamesItsRow(e)'
  BY <1>3, UpdateKeepsTable DEF NamesItsRow, Entry
<1>4. ASSUME NEW id \in Nat, Delete(id)
      PROVE  NamesItsRow(e)'
  BY <1>4, DeleteKeepsTable DEF NamesItsRow, Entry
<1>5. QED
  BY <1>1, <1>2, <1>3, <1>4 DEF TableStep

\* What the worker or an administrator does to an id it listed, it does to the
\* file it listed, or to no row.
THEOREM ListingsNameTheirRows == Spec => []SnapshotsNameTheirRow
<1>1. Init => SnapshotsNameTheirRow
  BY DEF Init, SnapshotsNameTheirRow
<1>2. TypeOK /\ SnapshotsNameTheirRow /\ [Next]_vars => SnapshotsNameTheirRow'
  <2> SUFFICES ASSUME TypeOK, SnapshotsNameTheirRow, [Next]_vars
               PROVE  SnapshotsNameTheirRow'
    OBVIOUS
  <2>1. QueueTypeOK /\ TableStep
    BY StepsAreStatements DEF TypeOK
  <2>2. \A e \in Entry : NamesItsRow(e) => NamesItsRow(e)'
    BY <2>1, NamesStayTrue
  <2>3. \A e \in GetPending \cup GetFailedPermanent :
           UNCHANGED queueVars => NamesItsRow(e)'
    <3>1. \A ids \in SUBSET DOMAIN rows : \A e \in Snapshot(Oldest(ids)) :
             e.id \in 1..lastId /\ e.path = rows[e.id].path
      BY <2>1, ListingIsCurrent
    <3>2. lastId \in Nat
      BY <2>1 DEF QueueTypeOK
    <3>3. QED
      BY <3>1, <3>2 DEF GetPending, GetFailedPermanent, PendingIds,
         FailedPermanentIds, NamesItsRow, queueVars
  <2>4. \A e \in batch' : NamesItsRow(e)'
    BY <2>2, <2>3, ListingsShrinkOrRefresh DEF SnapshotsNameTheirRow, TypeOK
  <2>5. \A a \in Admin : \A e \in list'[a] : NamesItsRow(e)'
    BY <2>2, <2>3, ListingsShrinkOrRefresh DEF SnapshotsNameTheirRow, TypeOK
  <2>6. QED
    BY <2>4, <2>5 DEF SnapshotsNameTheirRow
<1>3. QED
  BY <1>1, <1>2, TypeCorrect, PTL DEF Spec

----------------------------------------------------------------------------
(* Attempts are counted.  The worker marks a row from a listing taken long  *)
(* before, so the invariant says that the rows of its batch still have      *)
(* attempts left, and that counting a failure for one entry leaves the      *)
(* other entries alone because no two of them share a row.                  *)

AttemptsLeft ==
    \A e \in batch : e.id \in DOMAIN rows => rows[e.id].retries < MaxAttempts

BatchIsDistinct == \A e, f \in batch : e.id = f.id => e = f

Accounting == RetryAccounting /\ AttemptsLeft /\ BatchIsDistinct

\* The three together are inductive.
THEOREM AccountingIsInvariant == Spec => []Accounting
<1>1. Init => Accounting
  BY DEF Init, QueueInit, Accounting, RetryAccounting, AttemptsLeft, BatchIsDistinct
<1>2. TypeOK /\ SnapshotsNameTheirRow /\ Accounting /\ [Next]_vars => Accounting'
  <2> SUFFICES ASSUME TypeOK, SnapshotsNameTheirRow, Accounting, [Next]_vars
               PROVE  Accounting'
    OBVIOUS
  <2>0. QueueTypeOK /\ batch \subseteq Entry
    BY DEF TypeOK
  <2>1. BatchIsDistinct'
    <3>1. CASE batch' \subseteq batch
      BY <3>1 DEF Accounting, BatchIsDistinct
    <3>2. CASE batch' = GetPending
      BY <2>0, <3>2, ListingIsCurrent DEF GetPending, PendingIds, BatchIsDistinct
    <3>3. QED
      BY <3>1, <3>2, ListingsShrinkOrRefresh
  <2>2. CASE UNCHANGED queueVars
    <3>1. RetryAccounting'
      BY <2>2 DEF queueVars, Accounting, RetryAccounting
    <3>2. CASE batch' \subseteq batch
      BY <2>2, <3>1, <3>2, <2>1 DEF queueVars, Accounting, AttemptsLeft
    <3>3. CASE batch' = GetPending
      <4>1. \A e \in GetPending : e.id \in PendingIds
        BY <2>0, ListingIsCurrent DEF GetPending, PendingIds
      <4>2. QED
        BY <2>2, <3>1, <3>3, <4>1, <2>1
        DEF queueVars, Accounting, AttemptsLeft, PendingIds
    <3>4. QED
      BY <3>2, <3>3, ListingsShrinkOrRefresh
  <2>3. ASSUME NEW p \in Path, RunCallback(p), Enqueue(p)
        PROVE  Accounting'
    <3>1. \A i \in DOMAIN rows' :
             \/ i \in DOMAIN rows /\ rows'[i] = rows[i]
             \/ /\ i = lastId + 1
                /\ rows'[i] = [path |-> p, status |-> "pending", retries |-> 0]
      BY <2>0, <2>3, EnqueueKeepsTable
    <3>2. batch' = batch
      BY <2>3 DEF RunCallback, workerVars
    <3>3. RetryAccounting'
      BY <3>1 DEF Accounting, RetryAccounting
    <3>4. AttemptsLeft'
      BY <2>0, <3>1, <3>2 DEF Accounting, AttemptsLeft, Entry
    <3>5. QED
      BY <2>1, <3>3, <3>4 DEF Accounting
  <2>4. ASSUME NEW e \in batch, StartAttempt(e), MarkUploading(e.id)
        PROVE  Accounting'
    <3>1. /\ DOMAIN rows' = DOMAIN rows
          /\ \A i \in DOMAIN rows \ {e.id} : rows'[i] = rows[i]
          /\ e.id \in DOMAIN rows => /\ rows'[e.id].status = "uploading"
                                     /\ rows'[e.id].retries = rows[e.id].retries
      BY <2>0, <2>4, UpdateKeepsTable
      DEF MarkUploading, UpdateRow, BeginAttempt, QueueTypeOK, Row
    <3>2. batch' \subseteq batch
      BY <2>4 DEF StartAttempt, NextEntry
    <3>3. QED
      BY <2>1, <3>1, <3>2 DEF Accounting, RetryAccounting, AttemptsLeft
  <2>5. ASSUME NEW e \in batch, RecordSuccess(e), MarkUploaded(e.id)
        PROVE  Accounting'
    <3>1. /\ DOMAIN rows' = DOMAIN rows
          /\ \A i \in DOMAIN rows \ {e.id} : rows'[i] = rows[i]
          /\ e.id \in DOMAIN rows => /\ rows'[e.id].status = "uploaded"
                                     /\ rows'[e.id].retries = rows[e.id].retries
      BY <2>0, <2>5, UpdateKeepsTable
      DEF MarkUploaded, UpdateRow, EndAttempt, QueueTypeOK, Row
    <3>2. batch' \subseteq batch
      BY <2>5 DEF RecordSuccess, NextEntry
    <3>3. QED
      BY <2>1, <3>1, <3>2 DEF Accounting, RetryAccounting, AttemptsLeft
  <2>6. ASSUME NEW e \in batch, RecordFailure(e), MarkFailed(e.id)
        PROVE  Accounting'
    <3>1. /\ DOMAIN rows' = DOMAIN rows
          /\ \A i \in DOMAIN rows \ {e.id} : rows'[i] = rows[i]
      BY <2>0, <2>6, UpdateKeepsTable
    <3>2. ASSUME e.id \in DOMAIN rows
          PROVE  /\ rows[e.id].retries \in Nat
                 /\ rows[e.id].retries < MaxAttempts
                 /\ rows'[e.id].retries = rows[e.id].retries + 1
                 /\ rows'[e.id].status = IF rows[e.id].retries + 1 >= MaxAttempts
                                         THEN "failed_permanent" ELSE "failed"
      <4>1. rows[e.id] \in Row /\ rows'[e.id] = CountFailure(rows[e.id])
        BY <2>0, <2>6, <3>2 DEF MarkFailed, UpdateRow, QueueTypeOK
      <4>2. QED
        BY <3>2, <4>1 DEF CountFailure, Row, Accounting, AttemptsLeft
    <3>3. batch' = batch \ {e}
      BY <2>6 DEF RecordFailure, NextEntry
    <3>4. RetryAccounting'
      BY <3>1, <3>2 DEF Accounting, RetryAccounting
    <3>5. AttemptsLeft'
      BY <3>1, <3>3 DEF Accounting, AttemptsLeft, BatchIsDistinct
    <3>6. QED
      BY <2>1, <3>4, <3>5 DEF Accounting
  <2>7. ASSUME NEW a \in Admin, NEW e \in list[a], ResetListed(a, e), ResetForRetry(e.id)
        PROVE  Accounting'
    <3>1. /\ DOMAIN rows' = DOMAIN rows
          /\ \A i \in DOMAIN rows \ {e.id} : rows'[i] = rows[i]
          /\ e.id \in DOMAIN rows => /\ rows'[e.id].status = "pending"
                                     /\ rows'[e.id].retries = 0
      BY <2>0, <2>7, UpdateKeepsTable
      DEF ResetForRetry, UpdateRow, ClearFailures, QueueTypeOK, Row
    <3>2. batch' = batch
      BY <2>7 DEF ResetListed, workerVars
    <3>3. QED
      BY <2>1, <3>1, <3>2 DEF Accounting, RetryAccounting, AttemptsLeft
  <2>8. ASSUME NEW a \in Admin, NEW e \in list[a], DeleteListed(a, e), Delete(e.id)
        PROVE  Accounting'
    <3>1. batch' = batch
      BY <2>8 DEF DeleteListed, workerVars
    <3>2. QED
      BY <2>0, <2>1, <2>8, <3>1, DeleteKeepsTable
      DEF Accounting, RetryAccounting, AttemptsLeft
  <2>9. QED
    <3> USE DEF storeVars, queueVars
    <3>1. CASE Worker
      BY <2>2, <2>4, <2>5, <2>6, <3>1 DEF Worker, Poll, Tick, Done, CheckFile,
         StartAttempt, UploadOk, UploadErr, RecordFailure, RecordSuccess, RemoveFile
    <3>2. CASE \E p \in Path : RunCallback(p)
      BY <2>2, <2>3, <3>2 DEF RunCallback
    <3>3. CASE \E a \in Admin : Retry(a)
      BY <2>2, <2>7, <2>8, <3>3 DEF Retry, StartRetry, StatListed, ResetListed, DeleteListed
    <3>4. CASE Process \/ Outside \/ UNCHANGED vars
      BY <2>2, <3>4 DEF Process, Shutdown, CloseQueue, Exit, Crash, Die, Restart,
         Outside, Rotate, RotateAgain, Age, Vanish, vars
    <3>5. QED
      BY <3>1, <3>2, <3>3, <3>4 DEF Next
<1>3. QED
  BY <1>1, <1>2, TypeCorrect, ListingsNameTheirRows, PTL DEF Spec

\* A row is given up after exactly MaxAttempts failures and is not attempted
\* again until it is reset, with any number of administrators resetting.
THEOREM AttemptsAreCounted == Spec => []RetryAccounting
<1>1. Accounting => RetryAccounting
  BY DEF Accounting
<1>2. QED
  BY <1>1, AccountingIsInvariant, PTL

----------------------------------------------------------------------------
(* Uploaded means in the bucket.  Between the upload and the mark, and     *)
(* between the mark and the removal, only the worker's own position knows  *)
(* that the object is stored.                                              *)

StoredWhenSaid ==
    \A e \in batch : First(e, batch) /\ wpc \in {"stored", "remove"} => e.path \in bucket

NothingLost == UploadedInBucket /\ NoLogLost /\ StoredWhenSaid

LEMMA NothingLostStep ==
    ASSUME TypeOK, SnapshotsNameTheirRow, BatchIsDistinct, NothingLost, [Next]_vars
    PROVE  NothingLost'
<1> USE DEF storeVars, queueVars, workerVars, adminVars, OnDisk
<1>0. QueueTypeOK
  BY DEF TypeOK
<1>1. bucket \subseteq bucket'
  BY DEF Next, vars, Worker, Poll, Tick, Done, CheckFile, StartAttempt, UploadOk,
     UploadErr, RecordFailure, RecordSuccess, RemoveFile, RunCallback, Retry,
     StartRetry, StatListed, ResetListed, DeleteListed, Process, Shutdown,
     CloseQueue, Exit, Crash, Die, Restart, Outside, Rotate, RotateAgain, Age, Vanish
<1>2. NoLogLost'
  <2>1. ASSUME NEW p \in Path, disk'[p] = "removed", disk[p] # "removed"
        PROVE  p \in bucket
    <3>1. PICK e \in batch : RemoveFile(e)
      BY <2>1 DEF TypeOK, Next, vars, Worker, Poll, Tick, Done, CheckFile,
         StartAttempt, UploadOk, UploadErr, RecordFailure, RecordSuccess,
         RunCallback, Retry, StartRetry, StatListed, ResetListed, DeleteListed,
         Process, Shutdown, CloseQueue, Exit, Crash, Die, Restart, Outside,
         Rotate, RotateAgain, Age, Vanish
    <3>2. e.path = p
      BY <2>1, <3>1 DEF RemoveFile, TypeOK
    <3>3. QED
      BY <3>1, <3>2 DEF RemoveFile, At, NothingLost, StoredWhenSaid
  <2>2. QED
    BY <1>1, <2>1 DEF NothingLost, NoLogLost
<1>3. StoredWhenSaid'
  <2>1. CASE UNCHANGED <<wpc, batch>>
    BY <1>1, <2>1 DEF NothingLost, StoredWhenSaid, First
  <2>2. CASE wpc' \notin {"stored", "remove"}
    BY <2>2 DEF StoredWhenSaid
  <2>3. ASSUME NEW e \in batch, UploadOk(e)
        PROVE  StoredWhenSaid'
    <3>1. \A f \in batch : First(f, batch) => f = e
      BY <2>3 DEF UploadOk, At, First, TypeOK, Entry, BatchIsDistinct
    <3>2. QED
      BY <2>3, <3>1 DEF UploadOk, StoredWhenSaid, First
  <2>4. ASSUME NEW e \in batch, RecordSuccess(e), UNCHANGED batch
        PROVE  StoredWhenSaid'
    <3>1. \A f \in batch : First(f, batch) => f.path \in bucket
      BY <2>4 DEF RecordSuccess, At, NothingLost, StoredWhenSaid, First,
         TypeOK, Entry, BatchIsDistinct
    <3>2. QED
      BY <2>4, <1>1, <3>1 DEF StoredWhenSaid, First
  <2>5. QED
    BY <2>1, <2>2, <2>3, <2>4
    DEF Next, vars, Worker, Poll, Tick, Done, CheckFile, StartAttempt, UploadErr,
        RecordFailure, RecordSuccess, RemoveFile, NextEntry, RunCallback, Retry,
        StartRetry, StatListed, ResetListed, DeleteListed, Process, Shutdown,
        CloseQueue, Exit, Crash, Die, Restart, Outside, Rotate, RotateAgain, Age, Vanish
<1>4. UploadedInBucket'
  <2>1. ASSUME NEW i \in DOMAIN rows', rows'[i].status = "uploaded",
               ~(i \in DOMAIN rows /\ rows'[i] = rows[i])
        PROVE  rows'[i].path \in bucket
    <3>1. PICK e \in batch : RecordSuccess(e) /\ MarkUploaded(e.id) /\ e.id = i
      <4>1. ~\E p \in Path : Enqueue(p)
        BY <1>0, <2>1, EnqueueKeepsTable
      <4>2. \A id \in Nat : ~Delete(id)
        BY <1>0, <2>1, DeleteKeepsTable
      <4>3. \A id \in Nat : ~(MarkUploading(id) \/ MarkFailed(id) \/ ResetForRetry(id))
        BY <1>0, <2>1 DEF UpdateRow, MarkUploading, MarkFailed, ResetForRetry,
           BeginAttempt, CountFailure, ClearFailures, QueueTypeOK, Row
      <4>4. ~UNCHANGED rows
        BY <2>1
      <4>5. \A id : MarkUploaded(id) => id = i
        BY <1>0, <2>1, UpdateKeepsTable
      <4>6. \A e \in batch : e.id \in Nat
        BY DEF TypeOK, Entry
      <4>7. \A a \in Admin : \A e \in list[a] : e.id \in Nat
        BY DEF TypeOK, Entry
      <4>8. CASE Worker
        BY <4>1, <4>2, <4>3, <4>4, <4>5, <4>6, <4>8
        DEF Worker, Poll, Tick, Done, CheckFile, StartAttempt, UploadOk, UploadErr,
            RecordFailure, RecordSuccess, RemoveFile
      <4>9. QED
        BY <4>1, <4>2, <4>3, <4>4, <4>7, <4>8
        DEF Next, vars, RunCallback, Retry, StartRetry, StatListed, ResetListed,
            DeleteListed, Process, Shutdown, CloseQueue, Exit, Crash, Die, Restart,
            Outside, Rotate, RotateAgain, Age, Vanish
    <3>2. e.path \in bucket
      BY <3>1 DEF RecordSuccess, At, NothingLost, StoredWhenSaid
    <3>3. i \in DOMAIN rows /\ rows'[i].path = rows[i].path
      BY <1>0, <3>1, <2>1, UpdateKeepsTable
    <3>4. rows[i].path = e.path
      BY <3>1, <3>3 DEF SnapshotsNameTheirRow, NamesItsRow
    <3>5. QED
      BY <3>2, <3>3, <3>4
  <2>2. QED
    BY <1>1, <2>1 DEF NothingLost, UploadedInBucket
<1>5. QED
  BY <1>2, <1>3, <1>4 DEF NothingLost

LEMMA NothingIsLost == Spec => []NothingLost
<1>1. Init => NothingLost
  BY DEF Init, QueueInit, NothingLost, UploadedInBucket, NoLogLost, StoredWhenSaid
<1>2. Accounting => BatchIsDistinct
  BY DEF Accounting
<1>3. QED
  BY <1>1, <1>2, NothingLostStep, TypeCorrect, ListingsNameTheirRows,
     AccountingIsInvariant, PTL DEF Spec

\* A row says "uploaded" only if the object is in the bucket.
THEOREM UploadedIsStored == Spec => []UploadedInBucket
<1>1. NothingLost => UploadedInBucket
  BY DEF NothingLost
<1>2. QED
  BY <1>1, NothingIsLost, PTL

\* A file the worker removed is in the bucket: it never destroys the only copy,
\* whichever statements and uploads failed and wherever the process died.
THEOREM RemovedIsStored == Spec => []NoLogLost
<1>1. NothingLost => NoLogLost
  BY DEF NothingLost
<1>2. QED
  BY <1>1, NothingIsLost, PTL

=============================================================================
