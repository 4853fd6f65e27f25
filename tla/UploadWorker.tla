---------------------------- MODULE UploadWorker ----------------------------
(***************************************************************************)
(* The upload worker, pkg/worker/worker.go, with everything that touches   *)
(* the same rows and files: the rotation callback and the shutdown of      *)
(* cmd/server/main.go, and the administrators' POST /admin/logs/retry.     *)
(*                                                                         *)
(*   worker goroutine   polls the queue and, entry by entry, uploads the   *)
(*                      file, marks the row and removes the file           *)
(*   rotation callback  one goroutine per rotated file, enqueues it        *)
(*   administrator      RetryFailedPermanent in an HTTP handler: lists     *)
(*                      the given-up rows, then stats each file and        *)
(*                      resets or deletes its row                          *)
(*   server process     shuts down on a signal, may crash, is restarted    *)
(*                                                                         *)
(* Every call that leaves the process (one SQL statement, one stat, one    *)
(* upload, one remove) is a step of its own, so each can be interleaved    *)
(* with the steps of the others, fail, or be the last before a crash.      *)
(***************************************************************************)
EXTENDS UploadQueue

CONSTANTS
    Admin,       \* administrators that may be retrying at the same time
    TwiceNamed,  \* files whose name the rotator uses for two hours running:
                 \* names carry the local hour, which repeats when DST ends
    DbMayFail,   \* may a statement on an open database fail (SQLITE_BUSY...)
    StatMayFail, \* may os.Stat fail on a file that is there
    MayCrash     \* may the process die without a shutdown

ASSUME UploadWorkerAssumption ==
    /\ TwiceNamed \subseteq Path
    /\ DbMayFail \in BOOLEAN
    /\ StatMayFail \in BOOLEAN
    /\ MayCrash \in BOOLEAN

VARIABLES
    (* what survives the process, besides the queue's table *)
    disk,        \* local file: none (not rotated yet), fresh (modified less
                 \* than an hour ago), aged, removed (by the worker) or
                 \* vanished (by something else)
    bucket,      \* the files whose object is in the S3 bucket
    (* the process *)
    proc,        \* up; stopping: the worker's context is cancelled;
                 \* closed: and the queue's database is closed; down
    callbacks,   \* files whose onRotate goroutine has not enqueued them yet
    again,       \* files the rotator has still to close a second time
    wpc, batch,  \* worker: the call it makes next, entries it has yet to
                 \* finish (in order, the first is the one at hand)
    step, list   \* per administrator: the call it makes next for the first
                 \* entry of its list; idle when the list is empty

storeVars  == <<rows, lastId, disk, bucket>>
workerVars == <<wpc, batch>>
adminVars  == <<step, list>>
vars == <<rows, lastId, disk, bucket, proc, callbacks, again,
          wpc, batch, step, list>>

OnDisk == {"fresh", "aged"}

(* Outcomes of a statement.                                                *)
DbAnswers == proc \in {"up", "stopping"}
DbErrs    == \/ proc = "closed"
             \/ proc \in {"up", "stopping"} /\ DbMayFail

\* Outcomes of os.Stat: its error does not say whether there is a file.
StatErrs(p) == disk[p] \notin OnDisk \/ StatMayFail

\* The instructions of the process run as long as it exists.
Running == proc # "down"

Init ==
    /\ QueueInit
    /\ disk = [p \in Path |-> "none"]
    /\ bucket = {}
    /\ proc = "up"
    /\ callbacks = {}
    /\ again = {}
    /\ wpc = "poll"
    /\ batch = {}
    /\ step = [a \in Admin |-> "stat"]
    /\ list = [a \in Admin |-> {}]

----------------------------------------------------------------------------
(* The worker goroutine.                                                   *)

\* The loop's continue: on to the next entry, or back to the select.
NextEntry(e) ==
    /\ batch' = batch \ {e}
    /\ wpc' = IF batch = {e} THEN "select" ELSE "check"

At(pc, e) == Running /\ wpc = pc /\ First(e, batch)

\* processBatch: GetPending.  An error or an empty answer ends the batch.
Poll ==
    /\ Running
    /\ wpc = "poll"
    /\ \/ DbAnswers /\ batch' = GetPending
       \/ DbErrs /\ batch' = {}
    /\ wpc' = IF batch' = {} THEN "select" ELSE "check"
    /\ UNCHANGED <<storeVars, proc, callbacks, again, adminVars>>

\* run: the ticker's case of the select.  Go picks any ready case, so a tick
\* may win over a context that is already cancelled.
Tick ==
    /\ Running
    /\ wpc = "select"
    /\ wpc' = "poll"
    /\ UNCHANGED <<storeVars, proc, callbacks, again, batch, adminVars>>

\* run: the ctx.Done case.
Done ==
    /\ proc \in {"stopping", "closed"}
    /\ wpc = "select"
    /\ wpc' = "exited"
    /\ UNCHANGED <<storeVars, proc, callbacks, again, batch, adminVars>>

\* isFileClosed: a file that cannot be stat'ed counts as closed.
CheckFile(e) ==
    /\ At("check", e)
    /\ \/ disk[e.path] = "fresh" /\ NextEntry(e)
       \/ /\ disk[e.path] = "aged" \/ StatErrs(e.path)
          /\ wpc' = "mark"
          /\ UNCHANGED batch
    /\ UNCHANGED <<storeVars, proc, callbacks, again, adminVars>>

StartAttempt(e) ==
    /\ At("mark", e)
    /\ \/ /\ DbAnswers
          /\ MarkUploading(e.id)
          /\ wpc' = "upload"
          /\ UNCHANGED batch
       \/ /\ DbErrs
          /\ NextEntry(e)
          /\ UNCHANGED queueVars
    /\ UNCHANGED <<disk, bucket, proc, callbacks, again, adminVars>>

\* uploadToS3 succeeds: the file is there and the context is not cancelled.
UploadOk(e) ==
    /\ At("upload", e)
    /\ proc = "up"
    /\ disk[e.path] \in OnDisk
    /\ bucket' = bucket \cup {e.path}
    /\ wpc' = "stored"
    /\ UNCHANGED <<queueVars, disk, proc, callbacks, again, batch, adminVars>>

\* Mutant: the error of FPutObject is dropped.
UploadErr_Dropped(e) ==
    /\ At("upload", e)
    /\ \/ UNCHANGED bucket
       \/ disk[e.path] \in OnDisk /\ bucket' = bucket \cup {e.path}
    /\ wpc' = "stored"
    /\ UNCHANGED <<queueVars, disk, proc, callbacks, again, batch, adminVars>>

\* uploadToS3 fails: no file, network, timeout, cancelled context.  If there
\* was a file, the object may have reached the bucket all the same.
UploadErr(e) ==
    /\ At("upload", e)
    /\ \/ UNCHANGED bucket
       \/ disk[e.path] \in OnDisk /\ bucket' = bucket \cup {e.path}
    /\ wpc' = "failed"
    /\ UNCHANGED <<queueVars, disk, proc, callbacks, again, batch, adminVars>>

RecordFailure(e) ==
    /\ At("failed", e)
    /\ \/ DbAnswers /\ MarkFailed(e.id)
       \/ DbErrs /\ UNCHANGED queueVars
    /\ NextEntry(e)
    /\ UNCHANGED <<disk, bucket, proc, callbacks, again, adminVars>>

RecordSuccess(e) ==
    /\ At("stored", e)
    /\ \/ /\ DbAnswers
          /\ MarkUploaded(e.id)
          /\ wpc' = "remove"
          /\ UNCHANGED batch
       \/ /\ DbErrs
          /\ NextEntry(e)
          /\ UNCHANGED queueVars
    /\ UNCHANGED <<disk, bucket, proc, callbacks, again, adminVars>>

\* os.Remove; its failure is logged and the loop continues.
RemoveFile(e) ==
    /\ At("remove", e)
    /\ \/ disk[e.path] \in OnDisk /\ disk' = [disk EXCEPT ![e.path] = "removed"]
       \/ UNCHANGED disk
    /\ NextEntry(e)
    /\ UNCHANGED <<queueVars, bucket, proc, callbacks, again, adminVars>>

Worker ==
    \/ Poll \/ Tick \/ Done
    \/ \E e \in batch :
          \/ CheckFile(e) \/ StartAttempt(e) \/ UploadOk(e) \/ UploadErr(e)
          \/ RecordFailure(e) \/ RecordSuccess(e) \/ RemoveFile(e)

----------------------------------------------------------------------------
(* The rotation callback of main.go; an error of Enqueue is only logged.   *)

RunCallback(p) ==
    /\ Running
    /\ p \in callbacks
    /\ callbacks' = callbacks \ {p}
    /\ \/ DbAnswers /\ Enqueue(p)
       \/ DbErrs /\ UNCHANGED queueVars
    /\ UNCHANGED <<disk, bucket, proc, again, workerVars, adminVars>>

----------------------------------------------------------------------------
(* RetryFailedPermanent, as administrator a runs it.                       *)

NextListed(a, e) ==
    /\ list' = [list EXCEPT ![a] = @ \ {e}]
    /\ step' = [step EXCEPT ![a] = "stat"]

AdminAt(s, a, e) == Running /\ step[a] = s /\ First(e, list[a])

\* Requests are accepted until the listener is closed.  An error or an empty
\* listing ends the request.
StartRetry(a) ==
    /\ DbAnswers
    /\ list[a] = {}
    /\ GetFailedPermanent # {}
    /\ list' = [list EXCEPT ![a] = GetFailedPermanent]
    /\ UNCHANGED <<storeVars, proc, callbacks, again, workerVars, step>>

\* Any error of the stat is taken to mean that the file is gone.
StatListed(a, e) ==
    /\ AdminAt("stat", a, e)
    /\ \/ disk[e.path] \in OnDisk /\ step' = [step EXCEPT ![a] = "reset"]
       \/ StatErrs(e.path) /\ step' = [step EXCEPT ![a] = "delete"]
    /\ UNCHANGED <<storeVars, proc, callbacks, again, workerVars, list>>

ResetListed(a, e) ==
    /\ AdminAt("reset", a, e)
    /\ \/ DbAnswers /\ ResetForRetry(e.id)
       \/ DbErrs /\ UNCHANGED queueVars
    /\ NextListed(a, e)
    /\ UNCHANGED <<disk, bucket, proc, callbacks, again, workerVars>>

\* The result of Delete is not even looked at.
DeleteListed(a, e) ==
    /\ AdminAt("delete", a, e)
    /\ \/ DbAnswers /\ Delete(e.id)
       \/ DbErrs /\ UNCHANGED queueVars
    /\ NextListed(a, e)
    /\ UNCHANGED <<disk, bucket, proc, callbacks, again, workerVars>>

Retry(a) ==
    \/ StartRetry(a)
    \/ \E e \in list[a] :
          StatListed(a, e) \/ ResetListed(a, e) \/ DeleteListed(a, e)

----------------------------------------------------------------------------
(* The server process.                                                     *)

\* The signal handler of main: uploadWorker.Stop cancels the worker's context
\* and nobody waits for the goroutine.
Shutdown ==
    /\ proc = "up"
    /\ proc' = "stopping"
    /\ UNCHANGED <<storeVars, callbacks, again, workerVars, adminVars>>

\* Listen has returned: main runs its deferred calls, q.Close among them.
CloseQueue ==
    /\ proc = "stopping"
    /\ proc' = "closed"
    /\ UNCHANGED <<storeVars, callbacks, again, workerVars, adminVars>>

\* The goroutines end where they stand, and what they held is gone.
Die ==
    /\ proc' = "down"
    /\ callbacks' = {}
    /\ again' = {}
    /\ wpc' = "exited"
    /\ batch' = {}
    /\ step' = [a \in Admin |-> "stat"]
    /\ list' = [a \in Admin |-> {}]
    /\ UNCHANGED storeVars

Exit  == proc = "closed" /\ Die

Crash == MayCrash /\ proc \in {"up", "stopping", "closed"} /\ Die

\* main again: the table, the files and the bucket are as they were left.
Restart ==
    /\ proc = "down"
    /\ proc' = "up"
    /\ wpc' = "poll"
    /\ UNCHANGED <<storeVars, callbacks, again, batch, adminVars>>

Process == Shutdown \/ CloseQueue \/ Exit \/ Crash \/ Restart

----------------------------------------------------------------------------
(* Outside: the log rotator, the clock, and whoever else deletes files.    *)

\* pkg/logger: the file of the past hour is closed and its callback started.
\* The last line in it may be a minute or, on a quiet night, hours old.  A
\* name that is used again is being written to by the time it is enqueued.
Rotate(p) ==
    /\ Running
    /\ disk[p] = "none"
    /\ \/ /\ p \in TwiceNamed
          /\ disk' = [disk EXCEPT ![p] = "fresh"]
          /\ again' = again \cup {p}
       \/ /\ p \notin TwiceNamed
          /\ \E age \in OnDisk : disk' = [disk EXCEPT ![p] = age]
          /\ UNCHANGED again
    /\ callbacks' = callbacks \cup {p}
    /\ UNCHANGED <<queueVars, bucket, proc, workerVars, adminVars>>

\* The second hour of the same name is over, whatever became of the file.
RotateAgain(p) ==
    /\ Running
    /\ p \in again
    /\ again' = again \ {p}
    /\ callbacks' = callbacks \cup {p}
    /\ UNCHANGED <<storeVars, proc, workerVars, adminVars>>

Age(p) ==
    /\ disk[p] = "fresh"
    /\ disk' = [disk EXCEPT ![p] = "aged"]
    /\ UNCHANGED <<queueVars, bucket, proc, callbacks, again,
                   workerVars, adminVars>>

Vanish(p) ==
    /\ disk[p] \in OnDisk
    /\ disk' = [disk EXCEPT ![p] = "vanished"]
    /\ UNCHANGED <<queueVars, bucket, proc, callbacks, again,
                   workerVars, adminVars>>

Outside == \E p \in Path : Rotate(p) \/ RotateAgain(p) \/ Age(p) \/ Vanish(p)

----------------------------------------------------------------------------
Next ==
    \/ Worker
    \/ \E p \in Path : RunCallback(p)
    \/ \E a \in Admin : Retry(a)
    \/ Process
    \/ Outside

Spec == Init /\ [][Next]_vars

\* What the Go scheduler and the clock owe: a goroutine that can run does (main
\* too, once the listener is closed), the ticker fires, a file nobody writes to
\* gets old, and a process that ended is started again.  Nothing is asked of
\* administrators, signals, crashes or the S3 store.
Fairness ==
    /\ WF_vars(Worker)
    /\ \A p \in Path : WF_vars(RunCallback(p)) /\ WF_vars(Age(p))
    /\ WF_vars(CloseQueue \/ Exit \/ Restart)

FairSpec == Spec /\ Fairness

----------------------------------------------------------------------------
(* Properties.                                                             *)

TypeOK ==
    /\ QueueTypeOK
    /\ disk \in [Path -> {"none", "fresh", "aged", "removed", "vanished"}]
    /\ bucket \subseteq Path
    /\ proc \in {"up", "stopping", "closed", "down"}
    /\ callbacks \subseteq Path
    /\ again \subseteq Path
    /\ wpc \in {"poll", "select", "check", "mark", "upload", "stored",
                "failed", "remove", "exited"}
    /\ batch \subseteq Entry
    /\ step \in [Admin -> {"stat", "reset", "delete"}]
    /\ list \in [Admin -> SUBSET Entry]

\* The status and the attempt counter of a row always agree, although four
\* statements write them from the worker, the callbacks and the retry handler
\* and an attempt is spread over several of them: a row is given up after
\* exactly MaxAttempts failures and never attempted beyond them.
RetryAccounting ==
    \A i \in DOMAIN rows : LET r == rows[i] IN
        CASE r.status = "pending"          -> r.retries = 0
          [] r.status = "failed"           -> r.retries \in 1..(MaxAttempts - 1)
          [] r.status = "failed_permanent" -> r.retries = MaxAttempts
          [] OTHER                         -> r.retries < MaxAttempts

\* A row that says "uploaded" is telling the truth, also when the worker marks
\* it from a listing that administrators, restarts and deletions have outdated.
UploadedInBucket ==
    \A i \in DOMAIN rows : rows[i].status = "uploaded" => rows[i].path \in bucket

\* The worker never destroys the only copy: a file it removed is in the bucket.
NoLogLost == \A p \in Path : disk[p] = "removed" => p \in bucket

\* A listing may outlive its rows, but never names the row of another file:
\* what the worker or an administrator does to an id it listed, it does to the
\* file it uploaded or stat'ed, or to no row at all.
NamesItsRow(e) ==
    /\ e.id <= lastId
    /\ e.id \in DOMAIN rows => rows[e.id].path = e.path

SnapshotsNameTheirRow ==
    /\ \A e \in batch : NamesItsRow(e)
    /\ \A a \in Admin : \A e \in list[a] : NamesItsRow(e)

Resolved(p) ==
    \E i \in DOMAIN rows :
        rows[i].path = p /\ rows[i].status \in {"uploaded", "failed_permanent"}

\* A rotated file is uploaded or given up unless the process goes away: it is
\* not starved behind older entries that are skipped or keep failing.
QueuedIsResolved ==
    \A p \in Path : p \in callbacks ~> (Resolved(p) \/ proc # "up")

\* The life of each file as the table, the disk and the bucket show it.
RowOf(p) == CHOOSE i \in DOMAIN rows : rows[i].path = p

Phase(status) ==
    CASE status \in {"pending", "failed"} -> "waiting"
      [] status = "uploading"             -> "attempting"
      [] status = "uploaded"              -> "uploaded"
      [] status = "failed_permanent"      -> "given_up"

LifeOf(p)  == IF Tracked(p) THEN Phase(rows[RowOf(p)].status) ELSE "untracked"

TriesOf(p) == IF Tracked(p) THEN rows[RowOf(p)].retries ELSE 0

CopyOf(p)  == CASE disk[p] = "none"     -> "absent"
                [] disk[p] \in OnDisk   -> "here"
                [] disk[p] = "removed"  -> "removed"
                [] disk[p] = "vanished" -> "gone"

Claimed == {e.path : e \in batch}

Asked   == UNION {{e.path : e \in list[a]} : a \in Admin}

Lifecycle == INSTANCE UploadLifecycle WITH
    Log      <- Path,
    MaxTries <- MaxAttempts,
    life     <- [p \in Path |-> LifeOf(p)],
    tries    <- [p \in Path |-> TriesOf(p)],
    local    <- [p \in Path |-> CopyOf(p)],
    remote   <- bucket,
    claimed  <- Claimed,
    asked    <- Asked

\* With any number of retry requests at a time, failing statements and stats,
\* crashes and outdated listings, nothing happens to a file that UploadLifecycle
\* does not allow.
ImplementsLifecycle == Lifecycle!Spec

\* "ResetForRetry resets a failed_permanent file for another retry attempt": a
\* row that is put back to pending was given up before.  Two requests at a time
\* break this.
ResetOnlyGivenUp ==
    [][\A i \in DOMAIN rows \cap DOMAIN rows' :
          rows'[i].status = "pending" /\ rows[i].status # "pending"
             => rows[i].status = "failed_permanent"]_vars

Uploading(p) ==
    \E i \in DOMAIN rows : rows[i].path = p /\ rows[i].status = "uploading"

\* "Graceful shutdown" of a "persistent queue" that "manages the lifecycle of
\* log files": an attempt under way is concluded, if not before the process
\* goes away then after it is back.
AttemptsConclude == \A p \in Path : Uploading(p) ~> ~Uploading(p)

=============================================================================
