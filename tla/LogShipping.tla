---------------------------- MODULE LogShipping ----------------------------
(***************************************************************************)
(* The way of a log line from Write to the bucket: HourlyRotator and       *)
(* UploadWorker in one process and on one directory, as main.go wires      *)
(* them.  The rotator's callback enqueues the file it closed; the worker   *)
(* uploads and removes files whose last modification is over an hour old.  *)
(* What can go wrong lies between the two: the worker stats, uploads and   *)
(* removes by name, the rotator appends through an open descriptor.        *)
(*                                                                         *)
(* The steps of the two modules are taken as they are.  This module says   *)
(* what a step of one does to the variables it shares with the other: the  *)
(* files on disk, their age, and the process they both live in.            *)
(***************************************************************************)
EXTENDS HourlyRotator

CONSTANTS
    Admin, BatchLimit, DbMayFail, StatMayFail, MayCrash,   \* of UploadWorker
    WriteMayFail, \* may currentFile.Write fail on an open file (full disk)
    Steady        \* hours that do not end while a Write is under way, and in
                  \* which opens, writes and stats of the hour's file succeed

ASSUME ShippingAssumption ==
    /\ BatchLimit \in Nat \ {0}
    /\ DbMayFail \in BOOLEAN
    /\ StatMayFail \in BOOLEAN
    /\ WriteMayFail \in BOOLEAN
    /\ MayCrash \in BOOLEAN
    /\ Steady \subseteq Hour

VARIABLES
    rows, lastId, disk, bucket, proc, wpc, batch, step, list,
    mtime,        \* the hour each file was last modified
    linked,       \* the open file still has its name in the directory
    unsaved       \* files with lines their object in the bucket lacks; after
                  \* a removal, lines appended to the nameless file count too

W == INSTANCE UploadWorker WITH
    Path <- File, TwiceNamed <- {}, callbacks <- {}, again <- {}

queueVars    == <<rows, lastId>>
uploaderVars == <<rows, lastId, disk, bucket, proc, wpc, batch, step, list>>
fileVars     == <<mtime, linked, unsaved>>
vars         == <<rotatorVars, uploaderVars, fileVars>>

\* os.OpenFile with O_CREATE|O_APPEND.
OpenOrCreate(f) ==
    /\ linked' = TRUE
    /\ IF disk[f] \in W!OnDisk
       THEN UNCHANGED <<disk, mtime>>
       ELSE /\ disk' = [disk EXCEPT ![f] = "fresh"]
            /\ mtime' = [mtime EXCEPT ![f] = clock]

ShippingInit ==
    /\ RotatorInit
    /\ W!QueueInit
    /\ disk = [f \in File |-> IF f = current THEN "fresh" ELSE "none"]
    /\ bucket = {}
    /\ proc = "up"
    /\ wpc = "poll"
    /\ batch = {}
    /\ step = [a \in Admin |-> "stat"]
    /\ list = [a \in Admin |-> {}]
    /\ mtime = [f \in File |-> clock]
    /\ linked = TRUE
    /\ unsaved = {}

----------------------------------------------------------------------------
(* The rotator's steps, while the process lives.                           *)

OpenFileStep(t) ==
    /\ OpenNew(t)
    /\ OpenOrCreate(NameOf[now[t]])
    /\ UNCHANGED <<queueVars, bucket, proc, wpc, batch, step, list, unsaved>>

\* A line reaches the open file, which it makes fresh again, or nothing if the
\* file is shut or cannot be written.  A write cut short counts as written.
AppendStep(t) ==
    /\ Append(t)
    /\ \/ /\ Appends(t, current)
          /\ unsaved' = unsaved \cup {current}
          /\ IF linked
             THEN /\ disk' = [disk EXCEPT ![current] = "fresh"]
                  /\ mtime' = [mtime EXCEPT ![current] = clock]
             ELSE UNCHANGED <<disk, mtime>>
       \/ /\ ~Appends(t, current) \/ (WriteMayFail /\ now[t] \notin Steady)
          /\ UNCHANGED <<unsaved, disk, mtime>>
    /\ UNCHANGED <<queueVars, bucket, proc, wpc, batch, step, list, linked>>

\* Mutant: the callback is given the file of the hour that begins.
EnqueueStep_NewFile(h) ==
    /\ \/ W!DbAnswers /\ EnqueueOk(h) /\ W!Enqueue(NameOf[curHour])
       \/ W!DbErrs /\ EnqueueErr(h) /\ UNCHANGED queueVars
    /\ UNCHANGED <<disk, bucket, proc, wpc, batch, step, list, fileVars>>

\* onRotate's Enqueue.
EnqueueStep(h) ==
    /\ \/ W!DbAnswers /\ EnqueueOk(h) /\ W!Enqueue(NameOf[h])
       \/ W!DbErrs /\ EnqueueErr(h) /\ UNCHANGED queueVars
    /\ UNCHANGED <<disk, bucket, proc, wpc, batch, step, list, fileVars>>

\* The steps that touch no file.
InnerStep ==
    /\ \/ \E w \in Writer : StartWrite(w)
       \/ \E t \in Thread : \/ Lock(t) \/ ReadClock(t) \/ SameHour(t) \/ CloseOld(t)
                            \/ now[t] \notin Steady /\ OpenFails(t)
    /\ UNCHANGED <<uploaderVars, fileVars>>

RotatorStep ==
    /\ W!Running
    /\ \/ InnerStep
       \/ \E t \in Thread : OpenFileStep(t) \/ AppendStep(t)
       \/ \E h \in Hour : EnqueueStep(h)

----------------------------------------------------------------------------
(* The worker's and the administrators' steps.                             *)

\* Mutant: a file the rotator has enqueued is taken to be closed.
CheckStep_TrustsQueue(e) ==
    /\ W!At("check", e)
    /\ wpc' = "mark"
    /\ UNCHANGED <<rows, lastId, disk, bucket, proc, batch, step, list>>

\* Assumed of a steady hour: its file can be stat'ed (one that is fresh is then
\* skipped, as CheckFile says).
CheckStep(e) ==
    /\ W!CheckFile(e)
    /\ wpc' = "mark" /\ clock \in Steady /\ e.path = NameOf[clock]
          => disk[e.path] # "fresh"

\* The object then holds all there is in the file.
UploadStep(e) ==
    /\ W!UploadOk(e)
    /\ unsaved' = unsaved \ {e.path}
    /\ UNCHANGED <<mtime, linked>>

\* os.Remove: an open descriptor stays usable, without a name.
RemoveStep(e) ==
    /\ W!RemoveFile(e)
    /\ linked' = (linked /\ (disk'[e.path] # "removed" \/ e.path # current))
    /\ UNCHANGED <<mtime, unsaved>>

UploaderStep ==
    /\ \/ \E e \in batch : UploadStep(e) \/ RemoveStep(e)
       \/ /\ \/ W!Poll \/ W!Tick \/ W!Done
             \/ \E e \in batch :
                   \/ CheckStep(e) \/ W!StartAttempt(e) \/ W!UploadErr(e)
                   \/ W!RecordFailure(e) \/ W!RecordSuccess(e)
             \/ \E a \in Admin : W!Retry(a)
          /\ UNCHANGED fileVars
    /\ UNCHANGED rotatorVars

\* time.Since(ModTime) > time.Hour: not in the hour of the modification, maybe
\* in the next one.
AgeStep(f) ==
    /\ W!Age(f)
    /\ clock > mtime[f]
    /\ UNCHANGED <<rotatorVars, fileVars>>

HourStep ==
    /\ NextHour
    /\ clock \in Steady => holder = Nobody
    /\ UNCHANGED <<uploaderVars, fileVars>>

----------------------------------------------------------------------------
(* The process.                                                            *)

\* The signal handler, in order: Stop the worker, Close the logger.  main's
\* deferred calls Close the logger once more and then the queue.
SignalStep ==
    /\ W!Shutdown
    /\ UNCHANGED <<rotatorVars, fileVars>>

CloseLoggerStep ==
    /\ proc = "stopping"
    /\ CloseLogger
    /\ UNCHANGED <<uploaderVars, fileVars>>

CloseQueueStep ==
    /\ W!CloseQueue
    /\ current # NoFile => CloseLogger
    /\ current = NoFile => holder = Nobody /\ UNCHANGED rotatorVars
    /\ UNCHANGED fileVars

RotatorGone ==
    /\ holder' = Nobody
    /\ pc' = [t \in Thread |-> "idle"]
    /\ now' = [t \in Thread |-> 0]
    /\ current' = NoFile
    /\ curHour' = clock
    /\ shut' = FALSE
    /\ told' = {}
    /\ UNCHANGED clock

DieStep ==
    /\ W!Exit \/ W!Crash
    /\ RotatorGone
    /\ UNCHANGED fileVars

\* logger.New opens the file of the hour; nothing looks for the files an
\* earlier run has left in the directory.
RestartStep ==
    /\ proc = "down"
    /\ proc' = "up"
    /\ wpc' = "poll"
    /\ current' = NameOf[clock]
    /\ curHour' = clock
    /\ OpenOrCreate(NameOf[clock])
    /\ UNCHANGED <<clock, holder, pc, now, shut, told, queueVars, bucket, batch,
                   step, list, unsaved>>

ProcessStep ==
    SignalStep \/ CloseLoggerStep \/ CloseQueueStep \/ DieStep \/ RestartStep

----------------------------------------------------------------------------
ShippingNext ==
    \/ RotatorStep
    \/ UploaderStep
    \/ \E f \in File : AgeStep(f)
    \/ HourStep
    \/ ProcessStep

ShippingSpec == ShippingInit /\ [][ShippingNext]_vars

ShippingFairness ==
    /\ \A t \in Thread : SF_vars(RotatorStep /\ Lock(t)) /\ WF_vars(RotatorStep /\ WriteStep(t))
    /\ \A h \in Hour : WF_vars(RotatorStep /\ (EnqueueOk(h) \/ EnqueueErr(h)))
    /\ WF_vars(UploaderStep)
    /\ WF_vars(CloseQueueStep \/ DieStep \/ RestartStep)

FairShippingSpec == ShippingSpec /\ ShippingFairness

----------------------------------------------------------------------------
(* Properties.                                                             *)

\* No line that Write took is lost: while a file has lines that are not in the
\* bucket it is in the directory.  In particular the worker does not remove a file between the
\* upload and a late append, nor under the feet of the rotator.
NoLineLost == \A f \in unsaved : disk[f] \in W!OnDisk

\* The name of a file that was removed is not used again: its row says uploaded,
\* so a new file would never be, and if it were it would replace the object
\* that holds the lines of the old one.
RemovedNamesRetire ==
    [][\A f \in File : disk[f] = "removed" => disk'[f] = "removed"]_vars

LeftBehind(f) == f \in unsaved /\ proc = "up" /\ current \notin {f, NoFile}

\* The queue "manages the lifecycle of log files from local disk to S3": once
\* the rotator has moved on from a file with lines, the file gets a row.
LogFilesAreQueued == \A f \in File : LeftBehind(f) ~> W!Tracked(f)

=============================================================================
