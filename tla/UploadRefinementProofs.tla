----------------------- MODULE UploadRefinementProofs -----------------------
(***************************************************************************)
(* The worker, the callbacks, the retry requests and the restarts          *)
(* implement the life of a log file of UploadLifecycle, for any files, any *)
(* number of overlapping requests, any listing limit, with or without      *)
(* failing statements, failing stats and crashes.                          *)
(***************************************************************************)
EXTENDS UploadWorkerProofs

\* Where the row of the entry at hand stands, by what the worker does next: as
\* the worker left it, or pending because a request has reset it since.
AtHand(s) ==
    /\ wpc \in {"check", "mark"}              => s \in {"pending", "failed"}
    /\ wpc \in {"upload", "stored", "failed"} => s \in {"pending", "uploading"}
    /\ wpc = "remove"                         => s \in {"pending", "uploaded"}

\* The same of any row of a file the worker has listed.  A row under another id
\* than the listed one has been added after a request deleted that one.
AsListed(e, i) ==
    IF i # e.id               THEN rows[i].status = "pending"
    ELSE IF First(e, batch)   THEN AtHand(rows[i].status)
    ELSE rows[i].status \in {"pending", "failed"}

BatchUnderWay ==
    \A e \in batch : \A i \in DOMAIN rows : rows[i].path = e.path => AsListed(e, i)

BatchIsOfFiles == \A e, f \in batch : e.path = f.path => e = f

BetweenBatches == wpc \in {"poll", "select", "exited"} \/ proc = "down" => batch = {}

\* Only files that exist, or did, are tracked.
TrackedWasRotated ==
    \A p \in Path : Tracked(p) \/ p \in callbacks \/ p \in again => disk[p] # "none"

BatchHolds ==
    /\ OneRowPerPath
    /\ BatchUnderWay
    /\ BatchIsOfFiles
    /\ BetweenBatches
    /\ TrackedWasRotated

----------------------------------------------------------------------------
(* Which statement a step runs, and on whose behalf.                       *)

TableStepOf ==
    \/ UNCHANGED queueVars
    \/ \E p \in callbacks : RunCallback(p) /\ Enqueue(p)
    \/ \E e \in batch : \/ StartAttempt(e) /\ MarkUploading(e.id)
                        \/ RecordSuccess(e) /\ MarkUploaded(e.id)
                        \/ RecordFailure(e) /\ MarkFailed(e.id)
    \/ \E a \in Admin : \E e \in list[a] :
          \/ ResetListed(a, e) /\ ResetForRetry(e.id)
          \/ DeleteListed(a, e) /\ Delete(e.id)

LEMMA StatementsHaveCallers ==
    ASSUME [Next]_vars
    PROVE  TableStepOf
<1> USE DEF TableStepOf, storeVars, queueVars
<1>1. CASE Worker
  BY <1>1 DEF Worker, Poll, Tick, Done, CheckFile, StartAttempt, UploadOk,
     UploadErr, RecordFailure, RecordSuccess, RemoveFile
<1>2. CASE \E p \in Path : RunCallback(p)
  BY <1>2 DEF RunCallback
<1>3. CASE \E a \in Admin : Retry(a)
  BY <1>3 DEF Retry, StartRetry, StatListed, ResetListed, DeleteListed
<1>4. CASE Process \/ Outside \/ UNCHANGED vars
  BY <1>4 DEF Process, Shutdown, CloseQueue, Exit, Crash, Die, Restart,
     Outside, Rotate, RotateAgain, Age, Vanish, vars
<1>5. QED
  BY <1>1, <1>2, <1>3, <1>4 DEF Next

\* What each statement writes into the row it names.
LEMMA WhatStatementsWrite ==
    ASSUME QueueTypeOK, NEW i \in DOMAIN rows
    PROVE  /\ MarkUploading(i) => /\ rows'[i].status = "uploading"
                                  /\ rows'[i].retries = rows[i].retries
           /\ MarkUploaded(i)  => /\ rows'[i].status = "uploaded"
                                  /\ rows'[i].retries = rows[i].retries
           /\ MarkFailed(i)    => /\ rows'[i].retries = rows[i].retries + 1
                                  /\ rows'[i].status = IF rows[i].retries + 1 >= MaxAttempts
                                                       THEN "failed_permanent" ELSE "failed"
           /\ ResetForRetry(i) => /\ rows'[i].status = "pending"
                                  /\ rows'[i].retries = 0
<1>1. rows[i] \in Row
  BY DEF QueueTypeOK
<1>2. MarkUploading(i) => rows'[i] = BeginAttempt(rows[i])
  BY DEF MarkUploading, UpdateRow
<1>3. MarkUploaded(i) => rows'[i] = EndAttempt(rows[i])
  BY DEF MarkUploaded, UpdateRow
<1>4. MarkFailed(i) => rows'[i] = CountFailure(rows[i])
  BY DEF MarkFailed, UpdateRow
<1>5. ResetForRetry(i) => rows'[i] = ClearFailures(rows[i])
  BY DEF ResetForRetry, UpdateRow
<1>6. QED
  BY <1>1, <1>2, <1>3, <1>4, <1>5
  DEF BeginAttempt, EndAttempt, CountFailure, ClearFailures, Row

\* Among entries with different rows there is one first entry.
LEMMA FirstIsUnique ==
    ASSUME NEW L \in SUBSET Entry, \A e, f \in L : e.id = f.id => e = f,
           NEW e, NEW f, First(e, L), First(f, L)
    PROVE  e = f
<1>1. e \in L /\ f \in L /\ e.id \in Nat /\ f.id \in Nat
  BY DEF First, Entry
<1>2. e.id <= f.id /\ f.id <= e.id
  BY <1>1 DEF First
<1>3. QED
  BY <1>1, <1>2

----------------------------------------------------------------------------
(* The table keeps one row per file: Enqueue adds one only for a file that *)
(* has none, and no statement changes a path.                              *)

\* A statement leaves no file with two rows.
LEMMA TableStaysUnique ==
    ASSUME QueueTypeOK, OneRowPerPath, TableStep
    PROVE  OneRowPerPath'
<1>1. CASE UNCHANGED queueVars
  BY <1>1 DEF queueVars, OneRowPerPath
<1>2. ASSUME NEW p \in Path, Enqueue(p)
      PROVE  OneRowPerPath'
  <2>1. CASE Tracked(p)
    BY <1>2, <2>1 DEF Enqueue, queueVars, OneRowPerPath
  <2>2. CASE ~Tracked(p)
    <3>1. \A i \in DOMAIN rows' :
             \/ i \in DOMAIN rows /\ rows'[i].path = rows[i].path
             \/ i = lastId + 1 /\ rows'[i].path = p
      BY <1>2, EnqueueKeepsTable
    <3>2. \A i \in DOMAIN rows : rows[i].path # p
      BY <2>2 DEF Tracked
    <3>3. QED
      BY <3>1, <3>2 DEF OneRowPerPath
  <2>3. QED
    BY <2>1, <2>2
<1>3. ASSUME NEW id \in Nat, \/ MarkUploading(id) \/ MarkUploaded(id)
                             \/ MarkFailed(id) \/ ResetForRetry(id)
      PROVE  OneRowPerPath'
  BY <1>3, UpdateKeepsTable DEF OneRowPerPath
<1>4. ASSUME NEW id \in Nat, Delete(id)
      PROVE  OneRowPerPath'
  BY <1>4, DeleteKeepsTable DEF OneRowPerPath
<1>5. QED
  BY <1>1, <1>2, <1>3, <1>4 DEF TableStep

\* A log file has at most one row, with any number of administrators.
THEOREM PathsAreUnique == Spec => []OneRowPerPath
<1>1. Init => OneRowPerPath
  BY DEF Init, QueueInit, OneRowPerPath
<1>2. TypeOK /\ OneRowPerPath /\ [Next]_vars => OneRowPerPath'
  BY TableStaysUnique, StepsAreStatements DEF TypeOK
<1>3. QED
  BY <1>1, <1>2, TypeCorrect, PTL DEF Spec

----------------------------------------------------------------------------
(* The batch.  Every action of the worker either stays at the entry at     *)
(* hand or goes on to the next one; it writes to no other row.             *)

\* Entry e is the only one at hand, and a row of its file is no other entry's.
LEMMA OneAtHand ==
    ASSUME TypeOK, SnapshotsNameTheirRow, Accounting, BatchIsOfFiles,
           NEW e \in batch, First(e, batch), NEW f \in batch \ {e}
    PROVE  /\ ~First(f, batch)
           /\ f.id # e.id
           /\ f.path # e.path
           /\ e.id \in DOMAIN rows => rows[e.id].path # f.path
<1>1. f.id # e.id
  BY DEF Accounting, BatchIsDistinct
<1>2. f.path # e.path
  BY DEF BatchIsOfFiles
<1>3. ~First(f, batch)
  BY FirstIsUnique DEF TypeOK, Accounting, BatchIsDistinct
<1>4. e.id \in DOMAIN rows => rows[e.id].path = e.path
  BY DEF SnapshotsNameTheirRow, NamesItsRow
<1>5. QED
  BY <1>1, <1>2, <1>3, <1>4

\* A statement on the row of entry e leaves the rows of the other entries.
OnlyRowOf(e) ==
    /\ DOMAIN rows' = DOMAIN rows
    /\ \A i \in DOMAIN rows : rows'[i].path = rows[i].path
    /\ \A i \in DOMAIN rows \ {e.id} : rows'[i] = rows[i]

LEMMA OthersAsListed ==
    ASSUME TypeOK, SnapshotsNameTheirRow, Accounting, BatchUnderWay, BatchIsOfFiles,
           NEW e \in batch, First(e, batch), OnlyRowOf(e),
           NEW f \in batch \ {e}, NEW i \in DOMAIN rows, rows[i].path = f.path
    PROVE  /\ rows'[i].status \in {"pending", "failed"}
           /\ i # f.id => rows'[i].status = "pending"
<1>1. ~First(f, batch) /\ i # e.id
  BY OneAtHand
<1>2. rows'[i] = rows[i]
  BY <1>1 DEF OnlyRowOf
<1>3. AsListed(f, i)
  BY DEF BatchUnderWay
<1>4. QED
  BY <1>1, <1>2, <1>3 DEF AsListed

\* The worker takes its next call for the entry at hand.
LEMMA WorkerStays ==
    ASSUME TypeOK, SnapshotsNameTheirRow, Accounting, BatchUnderWay, BatchIsOfFiles,
           NEW e \in batch, First(e, batch), OnlyRowOf(e), UNCHANGED batch,
           e.id \in DOMAIN rows => AtHand(rows[e.id].status)'
    PROVE  BatchUnderWay'
<1>1. ASSUME NEW f \in batch, NEW i \in DOMAIN rows, rows'[i].path = f.path
      PROVE  AsListed(f, i)'
  <2>1. rows[i].path = f.path /\ (First(f, batch)' <=> First(f, batch))
    BY <1>1 DEF OnlyRowOf, First
  <2>2. CASE f = e /\ i = e.id
    BY <1>1, <2>1, <2>2 DEF AsListed
  <2>3. CASE f = e /\ i # e.id
    <3>1. AsListed(e, i)
      BY <2>1, <2>3 DEF BatchUnderWay
    <3>2. rows'[i] = rows[i]
      BY <2>3 DEF OnlyRowOf
    <3>3. QED
      BY <2>3, <3>1, <3>2 DEF AsListed
  <2>4. CASE f # e
    <3>1. ~First(f, batch)
      BY <2>4, OneAtHand
    <3>2. /\ rows'[i].status \in {"pending", "failed"}
          /\ i # f.id => rows'[i].status = "pending"
      BY <2>1, <2>4, OthersAsListed
    <3>3. QED
      BY <2>1, <3>1, <3>2 DEF AsListed
  <2>5. QED
    BY <2>2, <2>3, <2>4
<1>2. QED
  BY <1>1 DEF BatchUnderWay, OnlyRowOf

\* The worker is done with the entry at hand, whatever it wrote into its row.
LEMMA WorkerGoesOn ==
    ASSUME TypeOK, SnapshotsNameTheirRow, Accounting, BatchUnderWay, BatchIsOfFiles,
           NEW e \in batch, First(e, batch), OnlyRowOf(e), NextEntry(e)
    PROVE  BatchUnderWay'
<1>1. ASSUME NEW f \in batch \ {e}, NEW i \in DOMAIN rows, rows'[i].path = f.path
      PROVE  AsListed(f, i)'
  <2>1. rows[i].path = f.path
    BY <1>1 DEF OnlyRowOf
  <2>2. /\ rows'[i].status \in {"pending", "failed"}
        /\ i # f.id => rows'[i].status = "pending"
    BY <2>1, OthersAsListed
  <2>3. wpc' = "check"
    BY DEF NextEntry
  <2>4. QED
    BY <2>2, <2>3 DEF AsListed, AtHand
<1>2. QED
  BY <1>1 DEF BatchUnderWay, OnlyRowOf, NextEntry

\* Whoever else runs a statement, leaves every row as it is, or pending.
LEMMA OthersOnlyReset ==
    ASSUME BatchUnderWay, UNCHANGED workerVars,
           \A i \in DOMAIN rows' : \/ rows'[i].status = "pending"
                                   \/ i \in DOMAIN rows /\ rows'[i] = rows[i]
    PROVE  BatchUnderWay'
<1>1. ASSUME NEW e \in batch, NEW i \in DOMAIN rows', rows'[i].path = e.path
      PROVE  AsListed(e, i)'
  <2>1. wpc' = wpc /\ (First(e, batch)' <=> First(e, batch))
    BY DEF workerVars, First
  <2>2. CASE rows'[i].status = "pending"
    BY <2>2 DEF AsListed, AtHand
  <2>3. CASE i \in DOMAIN rows /\ rows'[i] = rows[i]
    <3>1. AsListed(e, i)
      BY <1>1, <2>3 DEF BatchUnderWay
    <3>2. QED
      BY <2>1, <2>3, <3>1 DEF AsListed, AtHand
  <2>4. QED
    BY <1>1, <2>2, <2>3
<1>2. QED
  BY <1>1 DEF BatchUnderWay, workerVars

\* A batch is listed when there is none, and dropped when the process goes away.
LEMMA BetweenStep ==
    ASSUME BetweenBatches, [Next]_vars
    PROVE  BetweenBatches'
<1>1. CASE Worker
  BY <1>1 DEF Worker, Poll, Tick, Done, CheckFile, StartAttempt, UploadOk, UploadErr,
     RecordFailure, RecordSuccess, RemoveFile, NextEntry, At, Running, BetweenBatches
<1>2. CASE \/ \E p \in Path : RunCallback(p)
           \/ \E a \in Admin : Retry(a)
           \/ Outside
           \/ UNCHANGED vars
  BY <1>2 DEF RunCallback, Retry, StartRetry, StatListed, ResetListed, DeleteListed,
     Outside, Rotate, RotateAgain, Age, Vanish, vars, workerVars, BetweenBatches
<1>3. CASE Process
  BY <1>3 DEF Process, Shutdown, CloseQueue, Exit, Crash, Die, Restart, workerVars,
     BetweenBatches
<1>4. QED
  BY <1>1, <1>2, <1>3 DEF Next

\* No two entries of a listing are about one file.
LEMMA FilesOfBatchStep ==
    ASSUME TypeOK, OneRowPerPath, BatchIsOfFiles, [Next]_vars
    PROVE  BatchIsOfFiles'
<1>0. QueueTypeOK
  BY DEF TypeOK
<1>1. CASE batch' \subseteq batch
  BY <1>1 DEF BatchIsOfFiles
<1>2. CASE batch' = GetPending
  <2>1. \A e, f \in GetPending :
           /\ e.id \in DOMAIN rows /\ e.path = rows[e.id].path
           /\ e.id = f.id => e = f
    BY <1>0, ListingIsCurrent DEF GetPending, PendingIds
  <2>2. QED
    BY <1>2, <2>1 DEF BatchIsOfFiles, OneRowPerPath
<1>3. QED
  BY <1>1, <1>2, ListingsShrinkOrRefresh

\* Every step leaves the rows of the batch as the worker expects them.
LEMMA BatchStep ==
    ASSUME TypeOK, SnapshotsNameTheirRow, Accounting, OneRowPerPath, BatchUnderWay,
           BatchIsOfFiles, BetweenBatches, [Next]_vars
    PROVE  BatchUnderWay'
<1> USE DEF storeVars, queueVars
<1>0. QueueTypeOK /\ batch \subseteq Entry /\ callbacks \subseteq Path
  BY DEF TypeOK
<1>1. ASSUME NEW e \in batch, First(e, batch), e.id \in DOMAIN rows
      PROVE  AtHand(rows[e.id].status)
  <2>1. rows[e.id].path = e.path
    BY <1>1 DEF SnapshotsNameTheirRow, NamesItsRow
  <2>2. AsListed(e, e.id)
    BY <1>1, <2>1 DEF BatchUnderWay
  <2>3. QED
    BY <1>1, <2>2 DEF AsListed
<1>2. ASSUME NEW e \in batch,
             \/ UNCHANGED rows
             \/ MarkUploading(e.id) \/ MarkUploaded(e.id) \/ MarkFailed(e.id)
      PROVE  OnlyRowOf(e)
  BY <1>0, <1>2, UpdateKeepsTable DEF OnlyRowOf
<1>3. CASE Poll
  <2>1. CASE batch' = GetPending
    <3>1. \A e \in GetPending : e.id \in PendingIds /\ e.path = rows[e.id].path
      BY <1>0, ListingIsCurrent DEF GetPending, PendingIds
    <3>2. ASSUME NEW e \in batch', NEW i \in DOMAIN rows', rows'[i].path = e.path
          PROVE  AsListed(e, i)'
      <4>1. i \in DOMAIN rows /\ rows' = rows /\ i = e.id
        BY <1>3, <2>1, <3>1, <3>2 DEF Poll, OneRowPerPath, PendingIds
      <4>2. rows'[i].status \in {"pending", "failed"} /\ wpc' = "check"
        BY <1>3, <2>1, <3>1, <3>2, <4>1 DEF Poll, PendingIds
      <4>3. QED
        BY <4>1, <4>2 DEF AsListed, AtHand
    <3>3. QED
      BY <3>2 DEF BatchUnderWay
  <2>2. CASE batch' = {}
    BY <2>2 DEF BatchUnderWay
  <2>3. QED
    BY <1>3, <2>1, <2>2 DEF Poll
<1>4. CASE Tick \/ Done
  BY <1>4 DEF Tick, Done, BetweenBatches, BatchUnderWay
<1>5. ASSUME NEW e \in batch, CheckFile(e)
      PROVE  BatchUnderWay'
  <2>1. First(e, batch) /\ wpc = "check" /\ UNCHANGED rows /\ OnlyRowOf(e)
    BY <1>2, <1>5 DEF CheckFile, At
  <2>2. CASE NextEntry(e)
    BY <2>1, <2>2, WorkerGoesOn
  <2>3. CASE wpc' = "mark" /\ UNCHANGED batch
    <3>1. e.id \in DOMAIN rows => AtHand(rows[e.id].status)'
      BY <1>1, <2>1, <2>3 DEF AtHand
    <3>2. QED
      BY <2>1, <2>3, <3>1, WorkerStays
  <2>4. QED
    BY <1>5, <2>2, <2>3 DEF CheckFile
<1>6. ASSUME NEW e \in batch, StartAttempt(e)
      PROVE  BatchUnderWay'
  <2>1. First(e, batch)
    BY <1>6 DEF StartAttempt, At
  <2>2. CASE MarkUploading(e.id) /\ wpc' = "upload" /\ UNCHANGED batch
    <3>1. e.id \in DOMAIN rows => AtHand(rows[e.id].status)'
      BY <1>0, <2>2, WhatStatementsWrite DEF AtHand
    <3>2. QED
      BY <1>2, <2>1, <2>2, <3>1, WorkerStays
  <2>3. CASE NextEntry(e) /\ UNCHANGED rows
    BY <1>2, <2>1, <2>3, WorkerGoesOn
  <2>4. QED
    BY <1>6, <2>2, <2>3 DEF StartAttempt
<1>7. ASSUME NEW e \in batch, UploadOk(e) \/ UploadErr(e)
      PROVE  BatchUnderWay'
  <2>1. /\ First(e, batch) /\ wpc = "upload" /\ wpc' \in {"stored", "failed"}
        /\ UNCHANGED <<rows, batch>>
    BY <1>7 DEF UploadOk, UploadErr, At
  <2>2. e.id \in DOMAIN rows => AtHand(rows[e.id].status)'
    BY <1>1, <2>1 DEF AtHand
  <2>3. QED
    BY <1>2, <2>1, <2>2, WorkerStays
<1>8. ASSUME NEW e \in batch, RecordFailure(e) \/ RemoveFile(e)
      PROVE  BatchUnderWay'
  <2>1. First(e, batch) /\ NextEntry(e) /\ (MarkFailed(e.id) \/ UNCHANGED rows)
    BY <1>8 DEF RecordFailure, RemoveFile, At
  <2>2. QED
    BY <1>2, <2>1, WorkerGoesOn
<1>9. ASSUME NEW e \in batch, RecordSuccess(e)
      PROVE  BatchUnderWay'
  <2>1. First(e, batch)
    BY <1>9 DEF RecordSuccess, At
  <2>2. CASE MarkUploaded(e.id) /\ wpc' = "remove" /\ UNCHANGED batch
    <3>1. e.id \in DOMAIN rows => AtHand(rows[e.id].status)'
      BY <1>0, <2>2, WhatStatementsWrite DEF AtHand
    <3>2. QED
      BY <1>2, <2>1, <2>2, <3>1, WorkerStays
  <2>3. CASE NextEntry(e) /\ UNCHANGED rows
    BY <1>2, <2>1, <2>3, WorkerGoesOn
  <2>4. QED
    BY <1>9, <2>2, <2>3 DEF RecordSuccess
<1>10. ASSUME NEW p \in Path, RunCallback(p)
       PROVE  BatchUnderWay'
  <2>1. \A i \in DOMAIN rows' : \/ rows'[i].status = "pending"
                                \/ i \in DOMAIN rows /\ rows'[i] = rows[i]
    BY <1>0, <1>10, EnqueueKeepsTable DEF RunCallback
  <2>2. QED
    BY <1>10, <2>1, OthersOnlyReset DEF RunCallback
<1>11. ASSUME NEW a \in Admin, Retry(a)
       PROVE  BatchUnderWay'
  <2>1. UNCHANGED workerVars
    BY <1>11 DEF Retry, StartRetry, StatListed, ResetListed, DeleteListed
  <2>2. \A id : ResetForRetry(id) => \A i \in DOMAIN rows' :
           \/ rows'[i].status = "pending"
           \/ i \in DOMAIN rows /\ rows'[i] = rows[i]
    BY <1>0, UpdateKeepsTable, WhatStatementsWrite
  <2>3. \A id : Delete(id) => \A i \in DOMAIN rows' : i \in DOMAIN rows /\ rows'[i] = rows[i]
    BY <1>0, DeleteKeepsTable
  <2>4. \A i \in DOMAIN rows' : \/ rows'[i].status = "pending"
                                \/ i \in DOMAIN rows /\ rows'[i] = rows[i]
    BY <1>11, <2>2, <2>3 DEF Retry, StartRetry, StatListed, ResetListed, DeleteListed
  <2>5. QED
    BY <2>1, <2>4, OthersOnlyReset
<1>12. CASE Shutdown \/ CloseQueue \/ Outside \/ UNCHANGED vars
  <2>1. UNCHANGED rows /\ UNCHANGED workerVars
    BY <1>12 DEF Shutdown, CloseQueue, Outside, Rotate, RotateAgain, Age, Vanish,
       vars, workerVars
  <2>2. QED
    BY <2>1, OthersOnlyReset
<1>13. CASE Exit \/ Crash \/ Restart
  BY <1>13 DEF Exit, Crash, Die, Restart, BetweenBatches, BatchUnderWay
<1>14. QED
  BY <1>3, <1>4, <1>5, <1>6, <1>7, <1>8, <1>9, <1>10, <1>11, <1>12, <1>13
  DEF Next, Worker, Process

----------------------------------------------------------------------------
(* The files on disk.                                                      *)

\* What a step does to the local files: nothing, or to one file one of these.
DiskStep ==
    \/ UNCHANGED disk
    \/ \E p \in Path : \/ /\ disk[p] \in {"none", "fresh"}
                          /\ \E age \in OnDisk : disk' = [disk EXCEPT ![p] = age]
                       \/ disk[p] \in OnDisk /\ disk' = [disk EXCEPT ![p] = "vanished"]
    \/ \E e \in batch : /\ RemoveFile(e)
                        /\ disk[e.path] \in OnDisk
                        /\ disk' = [disk EXCEPT ![e.path] = "removed"]

LEMMA FilesChangeLikeThis ==
    ASSUME TypeOK, [Next]_vars
    PROVE  DiskStep
<1> USE DEF DiskStep, storeVars, OnDisk
<1>1. CASE Worker
  BY <1>1 DEF Worker, Poll, Tick, Done, CheckFile, StartAttempt, UploadOk,
     UploadErr, RecordFailure, RecordSuccess, RemoveFile
<1>2. CASE \E p \in Path : RunCallback(p)
  BY <1>2 DEF RunCallback
<1>3. CASE \E a \in Admin : Retry(a)
  BY <1>3 DEF Retry, StartRetry, StatListed, ResetListed, DeleteListed
<1>4. CASE Process \/ UNCHANGED vars
  BY <1>4 DEF Process, Shutdown, CloseQueue, Exit, Crash, Die, Restart, vars
<1>5. CASE Outside
  BY <1>5 DEF Outside, Rotate, RotateAgain, Age, Vanish
<1>6. QED
  BY <1>1, <1>2, <1>3, <1>4, <1>5 DEF Next

\* A file that exists, or did, is never again absent.
LEMMA FilesStayKnown ==
    ASSUME TypeOK, [Next]_vars, NEW p \in Path, disk[p] # "none"
    PROVE  disk'[p] # "none"
<1>1. disk \in [Path -> {"none", "fresh", "aged", "removed", "vanished"}]
  BY DEF TypeOK
<1>2. batch \subseteq Entry
  BY DEF TypeOK
<1>3. QED
  BY <1>1, <1>2, FilesChangeLikeThis DEF DiskStep, OnDisk, Entry

\* Files are tracked by their callback only, which the rotator starts.
LEMMA RotatedStep ==
    ASSUME TypeOK, TrackedWasRotated, [Next]_vars
    PROVE  TrackedWasRotated'
<1> SUFFICES ASSUME NEW p \in Path, Tracked(p)' \/ p \in callbacks' \/ p \in again'
             PROVE  disk'[p] # "none"
  BY DEF TrackedWasRotated
<1>1. CASE Tracked(p) \/ p \in callbacks \/ p \in again
  BY <1>1, FilesStayKnown DEF TrackedWasRotated
<1>2. CASE ~(Tracked(p) \/ p \in callbacks \/ p \in again)
  <2>1. ASSUME Tracked(p)'
        PROVE  FALSE
    <3>1. PICK i \in DOMAIN rows' : rows'[i].path = p
      BY <2>1 DEF Tracked
    <3>2. QueueTypeOK
      BY DEF TypeOK
    <3>3. ~UNCHANGED queueVars
      BY <1>2, <3>1 DEF queueVars, Tracked
    <3>4. \A q \in callbacks : ~Enqueue(q)
      BY <1>2, <3>1, <3>2, EnqueueKeepsTable DEF TypeOK, Tracked
    <3>5. \A id : ~(\/ MarkUploading(id) \/ MarkUploaded(id)
                    \/ MarkFailed(id) \/ ResetForRetry(id))
      BY <1>2, <3>1, <3>2, UpdateKeepsTable DEF Tracked
    <3>6. \A id : ~Delete(id)
      BY <1>2, <3>1, <3>2, DeleteKeepsTable DEF Tracked
    <3>7. QED
      BY <3>3, <3>4, <3>5, <3>6, StatementsHaveCallers DEF TableStepOf
  <2>2. \/ Rotate(p) \/ RotateAgain(p)
    BY <1>2, <2>1 DEF Next, vars, Worker, Poll, Tick, Done, CheckFile, StartAttempt,
       UploadOk, UploadErr, RecordFailure, RecordSuccess, RemoveFile, RunCallback,
       Retry, StartRetry, StatListed, ResetListed, DeleteListed, Process, Shutdown,
       CloseQueue, Exit, Crash, Die, Restart, Outside, Rotate, RotateAgain, Age, Vanish
  <2>3. QED
    BY <1>2, <2>2 DEF Rotate, RotateAgain, OnDisk, TypeOK
<1>3. QED
  BY <1>1, <1>2

\* Between a listing and its use nobody but a retry request touches a row that
\* the worker has listed, and a request leaves it pending or takes it away.  So
\* no row of a listed file is given up, nor uploaded but by the worker itself,
\* however many requests overlap and whatever fails.
THEOREM BatchStaysAsListed == Spec => []BatchHolds
<1>1. Init => BatchHolds
  BY DEF Init, QueueInit, BatchHolds, OneRowPerPath, BatchUnderWay, BatchIsOfFiles,
     BetweenBatches, TrackedWasRotated, Tracked
<1>2. TypeOK /\ SnapshotsNameTheirRow /\ Accounting /\ BatchHolds /\ [Next]_vars
         => BatchHolds'
  <2> SUFFICES ASSUME TypeOK, SnapshotsNameTheirRow, Accounting, BatchHolds, [Next]_vars
               PROVE  BatchHolds'
    OBVIOUS
  <2>1. /\ OneRowPerPath /\ BatchUnderWay /\ BatchIsOfFiles /\ BetweenBatches
        /\ TrackedWasRotated
    BY DEF BatchHolds
  <2>2. OneRowPerPath'
    BY <2>1, TableStaysUnique, StepsAreStatements DEF TypeOK
  <2>3. BatchUnderWay'
    BY <2>1, BatchStep
  <2>4. BatchIsOfFiles' /\ BetweenBatches'
    BY <2>1, FilesOfBatchStep, BetweenStep
  <2>5. TrackedWasRotated'
    BY <2>1, RotatedStep
  <2>6. QED
    BY <2>2, <2>3, <2>4, <2>5 DEF BatchHolds
<1>3. QED
  BY <1>1, <1>2, TypeCorrect, ListingsNameTheirRows, AccountingIsInvariant, PTL DEF Spec

----------------------------------------------------------------------------
(* The life of a file.                                                     *)

\* The file of a row stands where the row says.
RowsTellLife ==
    \A i \in DOMAIN rows :
        /\ LifeOf(rows[i].path) = Phase(rows[i].status)
        /\ TriesOf(rows[i].path) = rows[i].retries

LEMMA LifeOfRow == OneRowPerPath => RowsTellLife
<1> SUFFICES ASSUME OneRowPerPath, NEW i \in DOMAIN rows
             PROVE  /\ LifeOf(rows[i].path) = Phase(rows[i].status)
                    /\ TriesOf(rows[i].path) = rows[i].retries
  BY DEF RowsTellLife
<1>1. Tracked(rows[i].path)
  BY DEF Tracked
<1>2. RowOf(rows[i].path) = i
  BY DEF RowOf, OneRowPerPath
<1>3. QED
  BY <1>1, <1>2 DEF LifeOf, TriesOf

\* A file whose row a step leaves alone, or that it leaves without one, stands
\* where it stood.
LEMMA SameRowSameLife ==
    ASSUME OneRowPerPath, OneRowPerPath', NEW p,
           \A i \in DOMAIN rows : rows[i].path = p => i \in DOMAIN rows' /\ rows'[i] = rows[i],
           \A i \in DOMAIN rows' : rows'[i].path = p => i \in DOMAIN rows /\ rows[i].path = p
    PROVE  LifeOf(p)' = LifeOf(p) /\ TriesOf(p)' = TriesOf(p)
<1>1. CASE Tracked(p)
  <2>1. PICK i \in DOMAIN rows : rows[i].path = p
    BY <1>1 DEF Tracked
  <2>2. i \in DOMAIN rows' /\ rows'[i] = rows[i] /\ rows'[i].path = p
    BY <2>1
  <2>3. LifeOf(p) = Phase(rows[i].status) /\ TriesOf(p) = rows[i].retries
    BY <2>1, LifeOfRow DEF RowsTellLife
  <2>4. RowsTellLife'
    BY LifeOfRow, PTL
  <2>5. LifeOf(p)' = Phase(rows[i].status)' /\ TriesOf(p)' = rows'[i].retries
    BY <2>2, <2>4 DEF RowsTellLife
  <2>6. QED
    BY <2>2, <2>3, <2>5 DEF Phase
<1>2. CASE ~Tracked(p)
  <2>1. \A i \in DOMAIN rows' : rows'[i].path # p
    BY <1>2 DEF Tracked
  <2>2. ~Tracked(p)'
    BY <2>1 DEF Tracked
  <2>3. QED
    BY <1>2, <2>2 DEF LifeOf, TriesOf
<1>3. QED
  BY <1>1, <1>2

\* The move of one file, in the terms of UploadLifecycle.
LEMMA FileMoves ==
    ASSUME NEW p \in Path, NEW to, NEW n,
           LifeOf(p)' = to, TriesOf(p)' = n,
           \A q \in Path \ {p} : LifeOf(q)' = LifeOf(q) /\ TriesOf(q)' = TriesOf(q)
    PROVE  Lifecycle!Move(p, to, n)
BY DEF Lifecycle!Move

\* When no file moves, the refinement mapping has the same two functions.
LEMMA LivesUnchanged ==
    ASSUME \A q \in Path : LifeOf(q)' = LifeOf(q) /\ TriesOf(q)' = TriesOf(q)
    PROVE  /\ [q \in Path |-> LifeOf(q)]' = [q \in Path |-> LifeOf(q)]
           /\ [q \in Path |-> TriesOf(q)]' = [q \in Path |-> TriesOf(q)]
OBVIOUS

\* Lives and counters are told by the table alone.
LEMMA NoStatementNoMove ==
    ASSUME UNCHANGED queueVars
    PROVE  \A q \in Path : LifeOf(q)' = LifeOf(q) /\ TriesOf(q)' = TriesOf(q)
BY DEF queueVars, LifeOf, TriesOf, RowOf, Tracked

CopyTells ==
    \A p \in Path :
        /\ disk[p] = "none"     => CopyOf(p) = "absent"
        /\ disk[p] \in OnDisk   => CopyOf(p) = "here"
        /\ disk[p] = "removed"  => CopyOf(p) = "removed"
        /\ disk[p] = "vanished" => CopyOf(p) = "gone"

LEMMA CopyIsTold == CopyTells
<1> SUFFICES ASSUME NEW p \in Path
             PROVE  /\ disk[p] = "none"     => CopyOf(p) = "absent"
                    /\ disk[p] \in OnDisk   => CopyOf(p) = "here"
                    /\ disk[p] = "removed"  => CopyOf(p) = "removed"
                    /\ disk[p] = "vanished" => CopyOf(p) = "gone"
  BY DEF CopyTells
<1>1. CASE disk[p] = "none"
  BY <1>1 DEF CopyOf, OnDisk
<1>2. CASE disk[p] \in OnDisk
  BY <1>2 DEF CopyOf, OnDisk
<1>3. CASE disk[p] = "removed"
  BY <1>3 DEF CopyOf, OnDisk
<1>4. CASE disk[p] = "vanished"
  BY <1>4 DEF CopyOf, OnDisk
<1>5. QED
  BY <1>1, <1>2, <1>3, <1>4

LEMMA CopiesUnchanged ==
    ASSUME UNCHANGED disk
    PROVE  [q \in Path |-> CopyOf(q)]' = [q \in Path |-> CopyOf(q)]
BY DEF CopyOf

LEMMA OneCopyChanges ==
    ASSUME TypeOK, NEW p \in Path, NEW to, disk' = [disk EXCEPT ![p] = to]
    PROVE  /\ \A q \in Path \ {p} : CopyOf(q)' = CopyOf(q)
           /\ disk'[p] = to
BY DEF CopyOf, TypeOK

\* A statement on a row moves the file of the row and no other.
LEMMA UpdateMovesItsFile ==
    ASSUME QueueTypeOK, OneRowPerPath, OneRowPerPath', NEW i \in DOMAIN rows,
           NEW p, rows[i].path = p,
           \/ MarkUploading(i) \/ MarkUploaded(i) \/ MarkFailed(i) \/ ResetForRetry(i)
    PROVE  /\ p \in Path
           /\ LifeOf(p) = Phase(rows[i].status)
           /\ TriesOf(p) = rows[i].retries
           /\ Lifecycle!Move(p, Phase(rows'[i].status), rows'[i].retries)
<1>1. /\ DOMAIN rows' = DOMAIN rows
      /\ \A j \in DOMAIN rows : rows'[j].path = rows[j].path
      /\ \A j \in DOMAIN rows \ {i} : rows'[j] = rows[j]
  BY UpdateKeepsTable
<1>2. p \in Path /\ rows'[i].path = p
  BY <1>1 DEF QueueTypeOK, Row
<1>3. LifeOf(p) = Phase(rows[i].status) /\ TriesOf(p) = rows[i].retries
  BY LifeOfRow DEF RowsTellLife
<1>4. LifeOf(p)' = Phase(rows'[i].status) /\ TriesOf(p)' = rows'[i].retries
  <2>1. RowsTellLife'
    BY LifeOfRow, PTL
  <2>2. LifeOf(p)' = Phase(rows[i].status)' /\ TriesOf(p)' = rows'[i].retries
    BY <1>1, <1>2, <2>1 DEF RowsTellLife
  <2>3. QED
    BY <2>2 DEF Phase
<1>5. \A q \in Path \ {p} : LifeOf(q)' = LifeOf(q) /\ TriesOf(q)' = TriesOf(q)
  <2> SUFFICES ASSUME NEW q \in Path \ {p}
               PROVE  LifeOf(q)' = LifeOf(q) /\ TriesOf(q)' = TriesOf(q)
    OBVIOUS
  <2>1. \A j \in DOMAIN rows : rows[j].path = q => j \in DOMAIN rows' /\ rows'[j] = rows[j]
    BY <1>1
  <2>2. \A j \in DOMAIN rows' : rows'[j].path = q => j \in DOMAIN rows /\ rows[j].path = q
    BY <1>1
  <2>3. QED
    BY <2>1, <2>2, SameRowSameLife
<1>6. Lifecycle!Move(p, Phase(rows'[i].status), rows'[i].retries)
  BY <1>2, <1>3, <1>4, <1>5, FileMoves
<1>7. QED
  BY <1>2, <1>3, <1>6

\* A row that is added makes its file waiting.
LEMMA EnqueueTracksItsFile ==
    ASSUME QueueTypeOK, OneRowPerPath, OneRowPerPath', NEW p \in Path,
           Enqueue(p), ~Tracked(p)
    PROVE  Lifecycle!Move(p, "waiting", 0)
<1>1. /\ DOMAIN rows \subseteq DOMAIN rows'
      /\ \A i \in DOMAIN rows : rows'[i] = rows[i]
      /\ \A i \in DOMAIN rows' \ DOMAIN rows :
            i = lastId + 1 /\ rows'[i] = [path |-> p, status |-> "pending", retries |-> 0]
  BY EnqueueKeepsTable
<1>2. LifeOf(p) = "untracked"
  BY DEF LifeOf
<1>3. LifeOf(p)' = "waiting" /\ TriesOf(p)' = 0
  <2>1. lastId + 1 \in DOMAIN rows' /\ lastId + 1 \notin DOMAIN rows
    BY DEF Enqueue, QueueTypeOK
  <2>2. /\ rows'[lastId + 1].path = p
        /\ rows'[lastId + 1].status = "pending"
        /\ rows'[lastId + 1].retries = 0
    BY <1>1, <2>1
  <2>3. RowsTellLife'
    BY LifeOfRow, PTL
  <2>4. \A i \in DOMAIN rows' : rows'[i].path = p =>
           LifeOf(p)' = Phase(rows[i].status)' /\ TriesOf(p)' = rows'[i].retries
    BY <2>3 DEF RowsTellLife
  <2>5. QED
    BY <2>1, <2>2, <2>4 DEF Phase
<1>4. \A q \in Path \ {p} : LifeOf(q)' = LifeOf(q) /\ TriesOf(q)' = TriesOf(q)
  <2> SUFFICES ASSUME NEW q \in Path \ {p}
               PROVE  LifeOf(q)' = LifeOf(q) /\ TriesOf(q)' = TriesOf(q)
    OBVIOUS
  <2>1. \A j \in DOMAIN rows : rows[j].path = q => j \in DOMAIN rows' /\ rows'[j] = rows[j]
    BY <1>1
  <2>2. \A j \in DOMAIN rows' : rows'[j].path = q => j \in DOMAIN rows /\ rows[j].path = q
    BY <1>1
  <2>3. QED
    BY <2>1, <2>2, SameRowSameLife
<1>5. QED
  BY <1>2, <1>3, <1>4, FileMoves

\* A row that is deleted makes its file untracked.
LEMMA DeleteForgetsItsFile ==
    ASSUME QueueTypeOK, OneRowPerPath, OneRowPerPath', NEW i \in DOMAIN rows,
           NEW p, rows[i].path = p, Delete(i)
    PROVE  Lifecycle!Move(p, "untracked", 0)
<1>1. DOMAIN rows' = DOMAIN rows \ {i} /\ \A j \in DOMAIN rows' : rows'[j] = rows[j]
  BY DeleteKeepsTable
<1>2. p \in Path
  BY DEF QueueTypeOK, Row
<1>3. LifeOf(p) = Phase(rows[i].status)
  BY LifeOfRow DEF RowsTellLife
<1>4. LifeOf(p)' = "untracked" /\ TriesOf(p)' = 0
  <2>1. \A j \in DOMAIN rows' : rows'[j].path # p
    BY <1>1 DEF OneRowPerPath
  <2>2. QED
    BY <2>1 DEF LifeOf, TriesOf, Tracked
<1>5. \A q \in Path \ {p} : LifeOf(q)' = LifeOf(q) /\ TriesOf(q)' = TriesOf(q)
  <2> SUFFICES ASSUME NEW q \in Path \ {p}
               PROVE  LifeOf(q)' = LifeOf(q) /\ TriesOf(q)' = TriesOf(q)
    OBVIOUS
  <2>1. \A j \in DOMAIN rows : rows[j].path = q => j \in DOMAIN rows' /\ rows'[j] = rows[j]
    BY <1>1
  <2>2. \A j \in DOMAIN rows' : rows'[j].path = q => j \in DOMAIN rows /\ rows[j].path = q
    BY <1>1
  <2>3. QED
    BY <2>1, <2>2, SameRowSameLife
<1>6. QED
  BY <1>2, <1>3, <1>4, <1>5, FileMoves


----------------------------------------------------------------------------
(* Each step is one step of UploadLifecycle, or none.                      *)

\* A statement on an id that has no row changes nothing.
LEMMA NoRowNoChange ==
    ASSUME QueueTypeOK, NEW id, id \notin DOMAIN rows,
           \/ MarkUploading(id) \/ MarkUploaded(id) \/ MarkFailed(id)
           \/ ResetForRetry(id) \/ Delete(id)
    PROVE  UNCHANGED queueVars
<1>1. rows = [i \in DOMAIN rows |-> rows[i]]
  BY DEF QueueTypeOK
<1>2. CASE MarkUploading(id)
  BY <1>1, <1>2 DEF MarkUploading, UpdateRow, queueVars
<1>3. CASE MarkUploaded(id)
  BY <1>1, <1>3 DEF MarkUploaded, UpdateRow, queueVars
<1>4. CASE MarkFailed(id)
  BY <1>1, <1>4 DEF MarkFailed, UpdateRow, queueVars
<1>5. CASE ResetForRetry(id)
  BY <1>1, <1>5 DEF ResetForRetry, UpdateRow, queueVars
<1>6. CASE Delete(id)
  <2>1. DOMAIN rows \ {id} = DOMAIN rows
    OBVIOUS
  <2>2. QED
    BY <1>1, <1>6, <2>1 DEF Delete, queueVars
<1>7. QED
  BY <1>2, <1>3, <1>4, <1>5, <1>6

\* A request has put the file of an entry back, or forgotten it.
PutBack(p) == LifeOf(p) \in {"untracked", "waiting"} /\ TriesOf(p) = 0

\* Where the file of the entry at hand stands.
LEMMA LifeAtHand ==
    ASSUME TypeOK, Accounting, BatchHolds, NEW e \in batch, First(e, batch)
    PROVE  /\ e.path \in Path
           /\ wpc \in {"upload", "stored", "failed"} =>
                 LifeOf(e.path) = "attempting" \/ PutBack(e.path)
           /\ wpc = "remove" => LifeOf(e.path) = "uploaded" \/ PutBack(e.path)
<1>1. QueueTypeOK /\ OneRowPerPath /\ e.path \in Path
  BY DEF TypeOK, BatchHolds, Entry
<1>2. CASE Tracked(e.path)
  <2>1. PICK i \in DOMAIN rows : rows[i].path = e.path
    BY <1>2 DEF Tracked
  <2>2. LifeOf(e.path) = Phase(rows[i].status) /\ TriesOf(e.path) = rows[i].retries
    BY <1>1, <2>1, LifeOfRow DEF RowsTellLife
  <2>3. rows[i].status = "pending" => rows[i].retries = 0
    BY DEF Accounting, RetryAccounting
  <2>4. AsListed(e, i)
    BY <2>1 DEF BatchHolds, BatchUnderWay
  <2>5. rows[i].status = "pending" \/ AtHand(rows[i].status)
    BY <2>4 DEF AsListed
  <2>6. CASE rows[i].status = "pending"
    BY <1>1, <2>2, <2>3, <2>6 DEF Phase, PutBack
  <2>7. CASE rows[i].status # "pending" /\ AtHand(rows[i].status)
    BY <1>1, <2>2, <2>7 DEF Phase, AtHand
  <2>8. QED
    BY <2>5, <2>6, <2>7
<1>3. CASE ~Tracked(e.path)
  BY <1>1, <1>3 DEF LifeOf, TriesOf, PutBack
<1>4. QED
  BY <1>2, <1>3

\* The worker is done with the entry at hand, and so with its file.
LEMMA DoneWithFile ==
    ASSUME BatchIsOfFiles, NEW e \in batch, batch' = batch \ {e}
    PROVE  Claimed' = Claimed \ {e.path}
<1>1. \A f \in batch : f.path = e.path <=> f = e
  BY DEF BatchIsOfFiles
<1>2. QED
  BY <1>1 DEF Claimed

\* A step of the worker at entry e concerns the row and the file of e.
LEMMA WorkerMovesFiles ==
    ASSUME TypeOK, SnapshotsNameTheirRow, Accounting, NothingLost, BatchHolds,
           OneRowPerPath', NEW e \in batch, ~UNCHANGED queueVars,
           \/ StartAttempt(e) /\ MarkUploading(e.id)
           \/ RecordSuccess(e) /\ MarkUploaded(e.id)
           \/ RecordFailure(e) /\ MarkFailed(e.id)
    PROVE  Lifecycle!Next
<1> DEFINE i == e.id
           p == e.path
<1>0. /\ QueueTypeOK /\ OneRowPerPath /\ First(e, batch) /\ BatchIsOfFiles
      /\ i \in DOMAIN rows /\ rows[i].path = p
      /\ rows[i].retries \in Nat /\ rows[i].retries < MaxAttempts
      /\ AtHand(rows[i].status)
  <2>1. QueueTypeOK /\ OneRowPerPath /\ First(e, batch) /\ BatchIsOfFiles
    BY DEF TypeOK, BatchHolds, StartAttempt, RecordSuccess, RecordFailure, At
  <2>2. i \in DOMAIN rows
    BY <2>1, NoRowNoChange
  <2>3. rows[i].path = p
    BY <2>2 DEF SnapshotsNameTheirRow, NamesItsRow
  <2>4. rows[i].retries \in Nat
    BY <2>1, <2>2 DEF QueueTypeOK, Row
  <2>5. rows[i].retries < MaxAttempts
    BY <2>2 DEF Accounting, AttemptsLeft
  <2>6. AsListed(e, i)
    BY <2>2, <2>3 DEF BatchHolds, BatchUnderWay
  <2>7. AtHand(rows[i].status)
    BY <2>1, <2>6 DEF AsListed
  <2>8. QED
    BY <2>1, <2>2, <2>3, <2>4, <2>5, <2>7
<1>1. /\ p \in Path /\ p \in Claimed
      /\ LifeOf(p) = Phase(rows[i].status) /\ TriesOf(p) = rows[i].retries
      /\ Lifecycle!Move(p, Phase(rows'[i].status), rows'[i].retries)
  BY <1>0, UpdateMovesItsFile DEF Claimed
<1>2. /\ [q \in Path |-> LifeOf(q)][p] = Phase(rows[i].status)
      /\ [q \in Path |-> TriesOf(q)][p] = rows[i].retries
  BY <1>1
<1>3. /\ [q \in Path |-> CopyOf(q)]' = [q \in Path |-> CopyOf(q)]
      /\ bucket' = bucket
      /\ Asked' = Asked
  BY CopiesUnchanged DEF StartAttempt, RecordSuccess, RecordFailure, adminVars, Asked
<1>4. CASE StartAttempt(e) /\ MarkUploading(e.id)
  <2>1. /\ Phase(rows[i].status) = "waiting"
        /\ Phase(rows'[i].status) = "attempting"
        /\ rows'[i].retries = rows[i].retries
    BY <1>0, <1>4, WhatStatementsWrite DEF StartAttempt, At, AtHand, Phase
  <2>2. Claimed' = Claimed
    BY <1>4 DEF StartAttempt, Claimed
  <2>3. Lifecycle!Begin(p)
    BY <1>0, <1>1, <1>2, <1>3, <2>1, <2>2 DEF Lifecycle!Begin
  <2>4. QED
    BY <1>1, <2>3 DEF Lifecycle!Next
<1>5. ASSUME wpc \in {"stored", "failed"}
      PROVE  Lifecycle!UnderWay(p) /\ Phase(rows[i].status) # "untracked"
  <2>1. LifeOf(p) = "attempting" \/ PutBack(p)
    BY <1>0, <1>5, LifeAtHand
  <2>2. Lifecycle!UnderWay(p)
    BY <1>1, <2>1 DEF Lifecycle!UnderWay, Lifecycle!Interrupted, PutBack
  <2>3. Phase(rows[i].status) # "untracked"
    BY <1>0, <1>5 DEF AtHand, Phase
  <2>4. QED
    BY <2>2, <2>3
<1>6. CASE RecordSuccess(e) /\ MarkUploaded(e.id)
  <2>1. Phase(rows'[i].status) = "uploaded" /\ rows'[i].retries = rows[i].retries
    BY <1>0, <1>6, WhatStatementsWrite DEF Phase
  <2>2. p \in bucket
    BY <1>6 DEF RecordSuccess, At, NothingLost, StoredWhenSaid
  <2>3. Claimed' = Claimed
    BY <1>6 DEF RecordSuccess, Claimed
  <2>4. Lifecycle!UnderWay(p) /\ Phase(rows[i].status) # "untracked"
    BY <1>5, <1>6 DEF RecordSuccess, At
  <2>5. Lifecycle!Succeed(p)
    BY <1>1, <1>2, <1>3, <2>1, <2>2, <2>3, <2>4 DEF Lifecycle!Succeed
  <2>6. QED
    BY <1>1, <2>5 DEF Lifecycle!Next
<1>7. CASE RecordFailure(e) /\ MarkFailed(e.id)
  <2>1. /\ rows'[i].retries = rows[i].retries + 1
        /\ rows'[i].status = IF rows[i].retries + 1 >= MaxAttempts
                             THEN "failed_permanent" ELSE "failed"
    BY <1>0, <1>7, WhatStatementsWrite
  <2>2. Phase(rows'[i].status) = IF rows[i].retries + 1 = MaxAttempts
                                 THEN "given_up" ELSE "waiting"
    <3>1. rows[i].retries + 1 >= MaxAttempts <=> rows[i].retries + 1 = MaxAttempts
      BY <1>0 DEF MaxAttempts
    <3>2. Phase("failed_permanent") = "given_up" /\ Phase("failed") = "waiting"
      BY DEF Phase
    <3>3. QED
      BY <2>1, <3>1, <3>2
  <2>3. Claimed' = Claimed \ {p}
    BY <1>0, <1>7, DoneWithFile DEF RecordFailure, NextEntry
  <2>4. Lifecycle!UnderWay(p) /\ Phase(rows[i].status) # "untracked"
    BY <1>5, <1>7 DEF RecordFailure, At
  <2>5. Lifecycle!Fail(p)
    BY <1>1, <1>2, <1>3, <2>1, <2>2, <2>3, <2>4 DEF Lifecycle!Fail
  <2>6. QED
    BY <1>1, <2>5 DEF Lifecycle!Next
<1>8. QED
  BY <1>4, <1>6, <1>7

\* A callback tracks its file unless it is tracked already.
LEMMA CallbackTracksFile ==
    ASSUME TypeOK, BatchHolds, OneRowPerPath',
           NEW p \in callbacks, RunCallback(p), Enqueue(p), ~UNCHANGED queueVars
    PROVE  Lifecycle!Next
<1>1. QueueTypeOK /\ OneRowPerPath /\ p \in Path /\ ~Tracked(p)
  BY DEF TypeOK, BatchHolds, Enqueue
<1>2. Lifecycle!Move(p, "waiting", 0)
  BY <1>1, EnqueueTracksItsFile
<1>3. LifeOf(p) = "untracked"
  BY <1>1 DEF LifeOf
<1>4. CopyOf(p) # "absent"
  BY <1>1 DEF BatchHolds, TrackedWasRotated, TypeOK, CopyOf, OnDisk
<1>5. /\ [q \in Path |-> CopyOf(q)]' = [q \in Path |-> CopyOf(q)]
      /\ bucket' = bucket /\ Claimed' = Claimed /\ Asked' = Asked
  BY CopiesUnchanged DEF RunCallback, workerVars, adminVars, Claimed, Asked
<1>6. Lifecycle!Track(p)
  BY <1>1, <1>2, <1>3, <1>4, <1>5 DEF Lifecycle!Track
<1>7. QED
  BY <1>1, <1>6 DEF Lifecycle!Next

\* A request answers for one entry of its list; another may list the file too.
LEMMA RequestAnswers ==
    ASSUME TypeOK, NEW a \in Admin, NEW e \in list[a], NextListed(a, e)
    PROVE  Asked' \in {Asked, Asked \ {e.path}}
<1>1. /\ list' = [list EXCEPT ![a] = list[a] \ {e}]
      /\ \A b \in Admin \ {a} : list'[b] = list[b]
      /\ list'[a] = list[a] \ {e}
  BY DEF TypeOK, NextListed
<1>2. \A q : q # e.path => (q \in Asked' <=> q \in Asked)
  BY <1>1 DEF Asked
<1>3. Asked' \subseteq Asked
  BY <1>1 DEF Asked
<1>4. QED
  BY <1>2, <1>3

\* A request puts back, or forgets, a file it has listed.
LEMMA RetryMovesFile ==
    ASSUME TypeOK, SnapshotsNameTheirRow, BatchHolds, OneRowPerPath',
           NEW a \in Admin, NEW e \in list[a], ~UNCHANGED queueVars,
           \/ ResetListed(a, e) /\ ResetForRetry(e.id)
           \/ DeleteListed(a, e) /\ Delete(e.id)
    PROVE  Lifecycle!Next
<1> DEFINE i == e.id
           p == e.path
<1>0. /\ QueueTypeOK /\ OneRowPerPath /\ i \in DOMAIN rows /\ rows[i].path = p
      /\ p \in Path /\ p \in Asked
  <2>1. QueueTypeOK /\ OneRowPerPath /\ e \in Entry
    BY DEF TypeOK, BatchHolds
  <2>2. i \in DOMAIN rows
    BY <2>1, NoRowNoChange
  <2>3. rows[i].path = p
    BY <2>2 DEF SnapshotsNameTheirRow, NamesItsRow
  <2>4. QED
    BY <2>1, <2>2, <2>3 DEF Entry, Asked
<1>1. LifeOf(p) # "untracked"
  <2>1. LifeOf(p) = Phase(rows[i].status)
    BY <1>0, LifeOfRow DEF RowsTellLife
  <2>2. rows[i].status \in Status
    BY <1>0 DEF QueueTypeOK, Row
  <2>3. QED
    BY <2>1, <2>2 DEF Phase, Status
<1>2. /\ [q \in Path |-> CopyOf(q)]' = [q \in Path |-> CopyOf(q)]
      /\ bucket' = bucket /\ Claimed' = Claimed
  BY CopiesUnchanged DEF ResetListed, DeleteListed, workerVars, Claimed
<1>3. Lifecycle!Answered(p)
  BY RequestAnswers DEF ResetListed, DeleteListed, Lifecycle!Answered
<1>4. CASE ResetListed(a, e) /\ ResetForRetry(e.id)
  <2>1. Lifecycle!Move(p, Phase(rows'[i].status), rows'[i].retries)
    BY <1>0, <1>4, UpdateMovesItsFile
  <2>2. Phase(rows'[i].status) = "waiting" /\ rows'[i].retries = 0
    BY <1>0, <1>4, WhatStatementsWrite DEF Phase
  <2>3. Lifecycle!Retry(p)
    BY <1>0, <1>1, <1>2, <1>3, <2>1, <2>2 DEF Lifecycle!Retry
  <2>4. QED
    BY <1>0, <2>3 DEF Lifecycle!Next
<1>5. CASE DeleteListed(a, e) /\ Delete(e.id)
  <2>1. Lifecycle!Move(p, "untracked", 0)
    BY <1>0, <1>5, DeleteForgetsItsFile
  <2>2. Lifecycle!Forget(p)
    BY <1>0, <1>1, <1>2, <1>3, <2>1 DEF Lifecycle!Forget
  <2>3. QED
    BY <1>0, <2>2 DEF Lifecycle!Next
<1>6. QED
  BY <1>4, <1>5

----------------------------------------------------------------------------
(* Steps that run no statement, or one that changes nothing.               *)

\* A step takes a listing, or the listings only shrink.
ListingStep ==
    \/ Poll /\ batch' = GetPending
    \/ \E a \in Admin : StartRetry(a)
    \/ batch' \subseteq batch /\ \A a \in Admin : list'[a] \subseteq list[a]

LEMMA ListingsAreTakenLikeThis ==
    ASSUME TypeOK, [Next]_vars
    PROVE  ListingStep
<1> USE DEF ListingStep, TypeOK, workerVars, adminVars
<1>1. CASE Worker
  BY <1>1 DEF Worker, Poll, Tick, Done, CheckFile, StartAttempt, UploadOk,
     UploadErr, RecordFailure, RecordSuccess, RemoveFile, NextEntry
<1>2. CASE \E p \in Path : RunCallback(p)
  BY <1>2 DEF RunCallback
<1>3. CASE \E a \in Admin : Retry(a)
  BY <1>3 DEF Retry, StatListed, ResetListed, DeleteListed, NextListed
<1>4. CASE Process
  BY <1>4 DEF Process, Shutdown, CloseQueue, Exit, Crash, Die, Restart
<1>5. CASE Outside \/ UNCHANGED vars
  BY <1>5 DEF Outside, Rotate, RotateAgain, Age, Vanish, vars
<1>6. QED
  BY <1>1, <1>2, <1>3, <1>4, <1>5 DEF Next

\* When neither the table nor a file changes, files are listed or let go.
LEMMA ListingsMoveAlone ==
    ASSUME TypeOK, BatchHolds, [Next]_vars, UNCHANGED <<queueVars, disk, bucket>>
    PROVE  Lifecycle!Next
<1>0. QueueTypeOK /\ OneRowPerPath /\ RowsTellLife
  BY LifeOfRow DEF TypeOK, BatchHolds
<1>1. /\ [q \in Path |-> LifeOf(q)]' = [q \in Path |-> LifeOf(q)]
      /\ [q \in Path |-> TriesOf(q)]' = [q \in Path |-> TriesOf(q)]
      /\ [q \in Path |-> CopyOf(q)]' = [q \in Path |-> CopyOf(q)]
      /\ bucket' = bucket
  BY NoStatementNoMove, LivesUnchanged, CopiesUnchanged
<1>2. CASE Poll /\ batch' = GetPending
  <2> DEFINE S == {e.path : e \in GetPending}
  <2>1. \A e \in GetPending : e.id \in PendingIds /\ e.path = rows[e.id].path
    BY <1>0, ListingIsCurrent DEF GetPending, PendingIds
  <2>2. \A e \in GetPending :
           /\ e.path \in Path
           /\ LifeOf(e.path) = "waiting"
           /\ TriesOf(e.path) < MaxAttempts
    BY <1>0, <2>1 DEF PendingIds, RowsTellLife, Phase, QueueTypeOK, Row
  <2>3. Claimed = {} /\ Claimed' = S /\ Asked' = Asked
    BY <1>2 DEF Poll, BatchHolds, BetweenBatches, Claimed, adminVars, Asked
  <2>4. S \in SUBSET Path
    BY <2>2
  <2>5. \A p \in S : /\ [q \in Path |-> LifeOf(q)][p] = "waiting"
                     /\ [q \in Path |-> TriesOf(q)][p] < MaxAttempts
    BY <2>2
  <2>6. Lifecycle!Claim(S)
    BY <1>1, <2>3, <2>5 DEF Lifecycle!Claim
  <2>7. QED
    BY <2>4, <2>6 DEF Lifecycle!Next
<1>3. ASSUME NEW a \in Admin, StartRetry(a)
      PROVE  Lifecycle!Next
  <2> DEFINE S == {e.path : e \in GetFailedPermanent}
  <2>1. \A e \in GetFailedPermanent :
           e.id \in FailedPermanentIds /\ e.path = rows[e.id].path
    BY <1>0, ListingIsCurrent DEF GetFailedPermanent, FailedPermanentIds
  <2>2. \A e \in GetFailedPermanent : e.path \in Path /\ LifeOf(e.path) = "given_up"
    BY <1>0, <2>1 DEF FailedPermanentIds, RowsTellLife, Phase, QueueTypeOK, Row
  <2>3. /\ list[a] = {}
        /\ list'[a] = GetFailedPermanent
        /\ \A b \in Admin \ {a} : list'[b] = list[b]
    BY <1>3 DEF StartRetry, TypeOK
  <2>4. Asked' = Asked \cup S
    BY <2>3 DEF Asked
  <2>5. Claimed' = Claimed
    BY <1>3 DEF StartRetry, workerVars, Claimed
  <2>6. S \in SUBSET Path
    BY <2>2
  <2>7. \A p \in S : [q \in Path |-> LifeOf(q)][p] = "given_up"
    BY <2>2
  <2>8. Lifecycle!Ask(S)
    BY <1>1, <2>4, <2>5, <2>7 DEF Lifecycle!Ask
  <2>9. QED
    BY <2>6, <2>8 DEF Lifecycle!Next
<1>4. CASE batch' \subseteq batch /\ \A a \in Admin : list'[a] \subseteq list[a]
  <2>1. Claimed' \in SUBSET Claimed /\ Asked' \in SUBSET Asked
    BY <1>4 DEF Claimed, Asked
  <2>2. Lifecycle!Leave
    BY <1>1, <2>1 DEF Lifecycle!Leave
  <2>3. QED
    BY <2>2 DEF Lifecycle!Next
<1>5. QED
  BY <1>2, <1>3, <1>4, ListingsAreTakenLikeThis DEF ListingStep

\* Who changes a file or the bucket changes neither table nor listings, except
\* for the worker, which is done with the file it removes.
FileStep ==
    \/ UNCHANGED <<disk, bucket>>
    \/ \E e \in batch : /\ At("upload", e) /\ disk[e.path] \in OnDisk
                        /\ bucket' = bucket \cup {e.path}
                        /\ UNCHANGED <<disk, batch, list>>
    \/ \E e \in batch : /\ At("remove", e) /\ disk[e.path] \in OnDisk
                        /\ disk' = [disk EXCEPT ![e.path] = "removed"]
                        /\ batch' = batch \ {e}
                        /\ UNCHANGED <<bucket, list>>
    \/ \E p \in Path : /\ \/ /\ disk[p] \in {"none", "fresh"}
                             /\ \E age \in OnDisk : disk' = [disk EXCEPT ![p] = age]
                          \/ disk[p] \in OnDisk /\ disk' = [disk EXCEPT ![p] = "vanished"]
                       /\ UNCHANGED <<bucket, batch, list>>

LEMMA FilesMoveLikeThis ==
    ASSUME [Next]_vars
    PROVE  FileStep
<1> USE DEF FileStep, storeVars, workerVars, adminVars, OnDisk
<1>1. CASE Worker
  BY <1>1 DEF Worker, Poll, Tick, Done, CheckFile, StartAttempt, UploadOk,
     UploadErr, RecordFailure, RecordSuccess, RemoveFile, NextEntry
<1>2. CASE \E p \in Path : RunCallback(p)
  BY <1>2 DEF RunCallback
<1>3. CASE \E a \in Admin : Retry(a)
  BY <1>3 DEF Retry, StartRetry, StatListed, ResetListed, DeleteListed
<1>4. CASE Process \/ UNCHANGED vars
  BY <1>4 DEF Process, Shutdown, CloseQueue, Exit, Crash, Die, Restart, vars
<1>5. CASE Outside
  BY <1>5 DEF Outside, Rotate, RotateAgain, Age, Vanish
<1>6. QED
  BY <1>1, <1>2, <1>3, <1>4, <1>5 DEF Next

\* A step that runs no statement may upload or remove a file, be one of the
\* rotator's or of whoever else deletes files, or change the listings only.
LEMMA FilesMoveAlone ==
    ASSUME TypeOK, Accounting, NothingLost, BatchHolds, [Next]_vars, UNCHANGED queueVars
    PROVE  Lifecycle!Next \/ UNCHANGED Lifecycle!vars
<1>0. /\ disk \in [Path -> {"none", "fresh", "aged", "removed", "vanished"}]
      /\ BatchIsOfFiles
      /\ CopyTells /\ CopyTells'
  <2>1. CopyTells /\ CopyTells'
    BY CopyIsTold, PTL
  <2>2. QED
    BY <2>1 DEF TypeOK, BatchHolds
<1>1. /\ [q \in Path |-> LifeOf(q)]' = [q \in Path |-> LifeOf(q)]
      /\ [q \in Path |-> TriesOf(q)]' = [q \in Path |-> TriesOf(q)]
  BY NoStatementNoMove, LivesUnchanged
<1>2. UNCHANGED batch => Claimed' = Claimed
  BY DEF Claimed
<1>3. UNCHANGED list => Asked' = Asked
  BY DEF Asked
<1>4. CASE UNCHANGED <<disk, bucket>>
  BY <1>4, ListingsMoveAlone
<1>5. ASSUME NEW e \in batch, At("upload", e), disk[e.path] \in OnDisk,
             bucket' = bucket \cup {e.path}, UNCHANGED <<disk, batch, list>>
      PROVE  Lifecycle!Next
  <2> DEFINE p == e.path
  <2>1. p \in Path /\ p \in Claimed /\ (LifeOf(p) = "attempting" \/ PutBack(p))
    BY <1>5, LifeAtHand DEF At, Claimed
  <2>2. CopyOf(p) = "here"
    BY <1>0, <1>5, <2>1 DEF CopyTells
  <2>3. Lifecycle!UnderWay(p)
    BY <2>1 DEF Lifecycle!UnderWay, Lifecycle!Interrupted, PutBack
  <2>4. [q \in Path |-> CopyOf(q)]' = [q \in Path |-> CopyOf(q)]
    BY <1>5, CopiesUnchanged
  <2>5. Lifecycle!Store(p)
    BY <1>1, <1>2, <1>3, <1>5, <2>1, <2>2, <2>3, <2>4 DEF Lifecycle!Store
  <2>6. QED
    BY <2>1, <2>5 DEF Lifecycle!Next
<1>6. ASSUME NEW p \in Path, NEW to, disk' = [disk EXCEPT ![p] = to]
      PROVE  /\ disk'[p] = to
             /\ [q \in Path |-> CopyOf(q)]' =
                   [[q \in Path |-> CopyOf(q)] EXCEPT ![p] = CopyOf(p)']
  BY <1>6, OneCopyChanges
<1>7. ASSUME NEW e \in batch, At("remove", e), disk[e.path] \in OnDisk,
             disk' = [disk EXCEPT ![e.path] = "removed"], batch' = batch \ {e},
             UNCHANGED <<bucket, list>>
      PROVE  Lifecycle!Next
  <2> DEFINE p == e.path
  <2>1. p \in Path /\ p \in Claimed /\ (LifeOf(p) = "uploaded" \/ PutBack(p))
    BY <1>7, LifeAtHand DEF At, Claimed
  <2>2. LifeOf(p) = "uploaded" \/ Lifecycle!Interrupted(p)
    BY <2>1 DEF Lifecycle!Interrupted, PutBack
  <2>3. CopyOf(p) = "here"
    BY <1>0, <1>7, <2>1 DEF CopyTells
  <2>4. CopyOf(p)' = "removed"
    BY <1>0, <1>6, <1>7, <2>1 DEF CopyTells, OnDisk
  <2>5. p \in bucket
    BY <1>7 DEF At, NothingLost, StoredWhenSaid
  <2>6. Claimed' = Claimed \ {p}
    BY <1>0, <1>7, DoneWithFile
  <2>7. Lifecycle!Drop(p)
    BY <1>1, <1>3, <1>6, <1>7, <2>1, <2>2, <2>3, <2>4, <2>5, <2>6 DEF Lifecycle!Drop
  <2>8. QED
    BY <2>1, <2>7 DEF Lifecycle!Next
<1>8. ASSUME NEW p \in Path, NEW age \in OnDisk, disk[p] \in {"none", "fresh"},
             disk' = [disk EXCEPT ![p] = age], UNCHANGED <<bucket, batch, list>>
      PROVE  Lifecycle!Next \/ UNCHANGED Lifecycle!vars
  <2>1. CopyOf(p)' = "here"
    BY <1>0, <1>6, <1>8 DEF CopyTells, OnDisk
  <2>2. CASE disk[p] = "none"
    <3>1. CopyOf(p) = "absent"
      BY <1>0, <2>2 DEF CopyTells
    <3>2. Lifecycle!Produce(p)
      BY <1>1, <1>2, <1>3, <1>6, <1>8, <2>1, <3>1 DEF Lifecycle!Produce
    <3>3. QED
      BY <3>2 DEF Lifecycle!Next
  <2>3. CASE disk[p] = "fresh"
    <3>1. CopyOf(p) = "here"
      BY <1>0, <2>3 DEF CopyTells, OnDisk
    <3>2. [q \in Path |-> CopyOf(q)]' = [q \in Path |-> CopyOf(q)]
      BY <1>6, <1>8, <2>1, <3>1
    <3>3. QED
      BY <1>1, <1>2, <1>3, <1>8, <3>2 DEF Lifecycle!vars
  <2>4. QED
    BY <1>8, <2>2, <2>3
<1>9. ASSUME NEW p \in Path, disk[p] \in OnDisk,
             disk' = [disk EXCEPT ![p] = "vanished"], UNCHANGED <<bucket, batch, list>>
      PROVE  Lifecycle!Next
  <2>1. CopyOf(p) = "here" /\ CopyOf(p)' = "gone"
    BY <1>0, <1>6, <1>9 DEF CopyTells, OnDisk
  <2>2. Lifecycle!Vanish(p)
    BY <1>1, <1>2, <1>3, <1>6, <1>9, <2>1 DEF Lifecycle!Vanish
  <2>3. QED
    BY <2>2 DEF Lifecycle!Next
<1>10. QED
  BY <1>4, <1>5, <1>7, <1>8, <1>9, FilesMoveLikeThis DEF FileStep

\* By what the step does to the table: nothing, or one statement for one caller.
LEMMA LifecycleStep ==
    ASSUME TypeOK, SnapshotsNameTheirRow, Accounting, NothingLost, BatchHolds,
           OneRowPerPath', [Next]_vars
    PROVE  Lifecycle!Next \/ UNCHANGED Lifecycle!vars
<1>1. CASE UNCHANGED queueVars
  BY <1>1, FilesMoveAlone
<1>2. ASSUME NEW p \in callbacks, RunCallback(p), Enqueue(p), ~UNCHANGED queueVars
      PROVE  Lifecycle!Next
  BY <1>2, CallbackTracksFile
<1>3. ASSUME NEW e \in batch, ~UNCHANGED queueVars,
             \/ StartAttempt(e) /\ MarkUploading(e.id)
             \/ RecordSuccess(e) /\ MarkUploaded(e.id)
             \/ RecordFailure(e) /\ MarkFailed(e.id)
      PROVE  Lifecycle!Next
  BY <1>3, WorkerMovesFiles
<1>4. ASSUME NEW a \in Admin, NEW e \in list[a], ~UNCHANGED queueVars,
             \/ ResetListed(a, e) /\ ResetForRetry(e.id)
             \/ DeleteListed(a, e) /\ Delete(e.id)
      PROVE  Lifecycle!Next
  BY <1>4, RetryMovesFile
<1>5. QED
  BY <1>1, <1>2, <1>3, <1>4, StatementsHaveCallers DEF TableStepOf

\* The queue, the worker, the callbacks, the restarts and any number of retry
\* requests at a time, with statements and stats that fail, do nothing to a file
\* that UploadLifecycle does not allow.
THEOREM WorkerImplementsLifecycle == Spec => ImplementsLifecycle
<1>1. Init => Lifecycle!Init
  <2> SUFFICES ASSUME Init
               PROVE  Lifecycle!Init
    OBVIOUS
  <2>1. \A p \in Path : ~Tracked(p)
    BY DEF Init, QueueInit, Tracked
  <2>2. \A p \in Path : LifeOf(p) = "untracked" /\ TriesOf(p) = 0
    BY <2>1 DEF LifeOf, TriesOf
  <2>3. \A p \in Path : CopyOf(p) = "absent"
    BY CopyIsTold DEF Init, CopyTells
  <2>4. Claimed = {} /\ Asked = {}
    BY DEF Init, Claimed, Asked
  <2>5. QED
    BY <2>2, <2>3, <2>4 DEF Init, Lifecycle!Init
<1>2. ASSUME TypeOK, SnapshotsNameTheirRow, Accounting, NothingLost,
             BatchHolds, BatchHolds', [Next]_vars
      PROVE  Lifecycle!Next \/ UNCHANGED Lifecycle!vars
  <2>1. OneRowPerPath'
    BY <1>2 DEF BatchHolds
  <2>2. QED
    BY <1>2, <2>1, LifecycleStep
<1>3. Spec => []BatchHolds
  BY BatchStaysAsListed
<1>4. QED
  BY <1>1, <1>2, <1>3, TypeCorrect, ListingsNameTheirRows, AccountingIsInvariant,
     NothingIsLost, PTL DEF Spec, ImplementsLifecycle, Lifecycle!Spec

=============================================================================
