--------------------------- MODULE ShippingProofs ---------------------------
(***************************************************************************)
(* Theorems on LogShipping, for any number of writers, administrators,     *)
(* files and hours, with crashes, restarts, failing statements, Writes     *)
(* that are held up, opens, writes and stats that fail: no log line is     *)
(* lost between Write and the bucket, and the name of a removed file is    *)
(* not used again.  The one assumption is on names that are used again:    *)
(* they are for the next hour, and that hour is steady, which is more than *)
(* the code sees to.  Of names that are used once nothing is assumed.      *)
(*                                                                         *)
(* The argument.  A file can grow as long as the present or a later hour,  *)
(* or the hour of a Write under way, has its name (CanGrow), and once it   *)
(* cannot it never will.  The uploader knows of a file only after its hour *)
(* is over.  So if a file it knows of can still grow, the present hour is  *)
(* the second one of its name, and then the Write that rotated the first   *)
(* one away has made the file fresh before its callback could enqueue it:  *)
(* the worker's look at its age skips it.  What the worker uploads and     *)
(* removes is therefore complete.                                          *)
(***************************************************************************)
EXTENDS LogShipping, HourlyRotatorProofs

\* Names of local hours repeat when daylight saving time ends, and only then.
RepeatsAreSteady ==
    \A g, h \in Hour : g < h /\ NameOf[g] = NameOf[h] => h = g + 1 /\ h \in Steady

\* A Write that has read the clock and may still write to the file of its hour.
UnderWay(t) == pc[t] \in {"compare", "open", "append"}

\* A file that may still be opened or written to.
CanGrow(f) ==
    \/ \E k \in Hour : k >= clock /\ NameOf[k] = f
    \/ \E t \in Thread : UnderWay(t) /\ NameOf[now[t]] = f

\* An hour that is over for the rotator as for the clock.
Past(h) == h < clock /\ (h < curHour \/ (h = curHour /\ current = NoFile))

\* A file the uploader knows of, from the table or from its last listing.
Known(f) == W!Tracked(f) \/ \E e \in batch : e.path = f

\* A file that was modified in this hour: its age keeps the worker away.
Fresh(f) == disk[f] = "fresh" /\ mtime[f] = clock

\* The rotator's own invariant, while it exists.
RotatorLives ==
    IF proc = "down"
    THEN /\ TypeOK
         /\ holder = Nobody /\ current = NoFile /\ shut = FALSE /\ told = {}
         /\ \A t \in Thread : pc[t] = "idle" /\ now[t] = 0
         /\ curHour <= clock
    ELSE RotatorInv

\* The types of the queue and the files, and of the worker's listing.
ShippingTypes ==
    /\ W!QueueTypeOK
    /\ disk \in [File -> {"none", "fresh", "aged", "removed", "vanished"}]
    /\ mtime \in [File -> Hour]
    /\ batch \subseteq W!Entry
    /\ linked \in BOOLEAN
    /\ unsaved \subseteq File
    /\ \A e, f \in batch : e.id = f.id => e = f

\* A Write of a steady hour ends in it.
SteadyWrites ==
    \A t \in Thread : UnderWay(t) /\ now[t] \in Steady => now[t] = clock

\* The uploader learns of a file when the rotator has closed it.
KnownIsPast == \A f \in File : Known(f) => \E h \in Hour : NameOf[h] = f /\ Past(h)

\* Known and named like the present hour: the worker will skip it.
KnownIsFresh == \A f \in File : Known(f) /\ NameOf[clock] = f => Fresh(f)

\* The first Write of an hour makes its file fresh before the callback it has
\* started can run, and the callback's own line does so again.
AboutToFreshen(h) ==
    /\ pc[h] = "lock"
    /\ \E t \in Thread : pc[t] = "open" \/ (pc[t] = "append" /\ ~shut /\ linked)

StartedIsFresh ==
    \A h \in Hour : pc[h] # "idle" /\ NameOf[clock] = NameOf[h]
                       => Fresh(NameOf[h]) \/ AboutToFreshen(h)

\* A file the worker is past looking at will not grow.
WorkedIsDone ==
    \A e \in batch : W!First(e, batch) /\ wpc \in {"mark", "upload", "stored", "remove"}
                        => ~CanGrow(e.path)

\* What is uploaded is all there is.
StoredIsSaved ==
    \A e \in batch : W!First(e, batch) /\ wpc \in {"stored", "remove"} => e.path \notin unsaved

\* Neither a removed file nor the open file without a name will be written to.
RemovedIsDone == \A f \in File : disk[f] = "removed" => ~CanGrow(f)

UnlinkedIsDone == current # NoFile /\ ~linked => ~CanGrow(current)

ShippingInv ==
    /\ RotatorLives
    /\ ShippingTypes
    /\ SteadyWrites
    /\ KnownIsPast
    /\ KnownIsFresh
    /\ StartedIsFresh
    /\ WorkedIsDone
    /\ StoredIsSaved
    /\ RemovedIsDone
    /\ UnlinkedIsDone
    /\ NoLineLost

WP == INSTANCE UploadWorkerProofs WITH
    Path <- File, TwiceNamed <- {}, callbacks <- {}, again <- {}

----------------------------------------------------------------------------
(* What the lemmas on the worker's statements say of its instance here.    *)

\* The table is the same in both instances of the worker's module.
LEMMA SameTable ==
    /\ W!QueueTypeOK <=> WP!QueueTypeOK
    /\ W!QueueTypeOK' <=> WP!QueueTypeOK'
    /\ W!Entry = WP!Entry
  BY DEF W!QueueTypeOK, WP!QueueTypeOK, W!Row, WP!Row, W!Status, WP!Status, W!Entry, WP!Entry

\* So are the statements on it.
LEMMA SameStatements ==
    ASSUME NEW id
    PROVE  /\ W!MarkUploading(id) <=> WP!MarkUploading(id)
           /\ W!MarkUploaded(id) <=> WP!MarkUploaded(id)
           /\ W!MarkFailed(id) <=> WP!MarkFailed(id)
           /\ W!ResetForRetry(id) <=> WP!ResetForRetry(id)
           /\ W!Delete(id) <=> WP!Delete(id)
           /\ W!Enqueue(id) <=> WP!Enqueue(id)
<1>1. W!MarkUploading(id) <=> WP!MarkUploading(id)
  BY DEF W!MarkUploading, WP!MarkUploading, W!UpdateRow, WP!UpdateRow,
         W!BeginAttempt, WP!BeginAttempt
<1>2. W!MarkUploaded(id) <=> WP!MarkUploaded(id)
  BY DEF W!MarkUploaded, WP!MarkUploaded, W!UpdateRow, WP!UpdateRow,
         W!EndAttempt, WP!EndAttempt
<1>3. W!MarkFailed(id) <=> WP!MarkFailed(id)
  BY DEF W!MarkFailed, WP!MarkFailed, W!UpdateRow, WP!UpdateRow,
         W!CountFailure, WP!CountFailure, W!MaxAttempts, WP!MaxAttempts
<1>4. W!ResetForRetry(id) <=> WP!ResetForRetry(id)
  BY DEF W!ResetForRetry, WP!ResetForRetry, W!UpdateRow, WP!UpdateRow,
         W!ClearFailures, WP!ClearFailures
<1>5. W!Delete(id) <=> WP!Delete(id)
  BY DEF W!Delete, WP!Delete
<1>6. W!Enqueue(id) <=> WP!Enqueue(id)
  BY DEF W!Enqueue, WP!Enqueue, W!Tracked, WP!Tracked, W!queueVars, WP!queueVars
<1> QED
  BY <1>1, <1>2, <1>3, <1>4, <1>5, <1>6

\* A statement on one row keeps the table well formed and adds no path to it.
LEMMA RowStatements ==
    ASSUME W!QueueTypeOK, NEW id,
           \/ W!MarkUploading(id) \/ W!MarkUploaded(id) \/ W!MarkFailed(id)
           \/ W!ResetForRetry(id) \/ W!Delete(id)
    PROVE  /\ W!QueueTypeOK'
           /\ \A f \in File : W!Tracked(f)' => W!Tracked(f)
<1>1. WP!BatchLimitAssumption /\ WP!UploadWorkerAssumption
  BY ShippingAssumption DEF ShippingAssumption, WP!BatchLimitAssumption, WP!UploadWorkerAssumption
<1>2. CASE W!Delete(id)
  BY <1>1, <1>2, SameTable, SameStatements, WP!DeleteKeepsTable DEF W!Tracked
<1>3. CASE ~W!Delete(id)
  BY <1>1, <1>3, SameTable, SameStatements, WP!UpdateKeepsTable DEF W!Tracked
<1> QED
  BY <1>2, <1>3

\* Enqueue adds no path but its own.
LEMMA EnqueueStatement ==
    ASSUME W!QueueTypeOK, NEW p \in File, W!Enqueue(p)
    PROVE  /\ W!QueueTypeOK'
           /\ \A f \in File : W!Tracked(f)' => W!Tracked(f) \/ f = p
<1>1. WP!BatchLimitAssumption /\ WP!UploadWorkerAssumption
  BY ShippingAssumption DEF ShippingAssumption, WP!BatchLimitAssumption, WP!UploadWorkerAssumption
<1> QED
  BY <1>1, SameTable, SameStatements, WP!EnqueueKeepsTable DEF W!Tracked

\* GetPending names rows of the table, each once.
LEMMA PendingListing ==
    ASSUME W!QueueTypeOK
    PROVE  /\ W!GetPending \subseteq W!Entry
           /\ \A e \in W!GetPending : W!Tracked(e.path)
           /\ \A e, f \in W!GetPending : e.id = f.id => e = f
<1>1. W!Oldest(W!PendingIds) \subseteq DOMAIN rows
  BY DEF W!Oldest, W!PendingIds
<1>2. \A i \in DOMAIN rows : i \in Nat \ {0} /\ rows[i].path \in File
  BY DEF W!QueueTypeOK, W!Row
<1> QED
  BY <1>1, <1>2 DEF W!GetPending, W!Snapshot, W!Entry, W!Tracked

----------------------------------------------------------------------------
(* What the steps do, by the state they act on.                            *)

\* What follows from the rotator's invariant, whether the process is there or not.
LEMMA LivesTyped ==
    ASSUME RotatorLives
    PROVE  /\ TypeOK
           /\ proc # "down" => RotatorInv
           /\ curHour <= clock
           /\ clock \in Nat /\ curHour \in Nat
  BY RotatorFacts DEF RotatorLives, RotatorInv, HourIsReached

\* The rotator keeps its invariant with the worker, the administrators and the
\* process around it; a process that was restarted starts with it.
LEMMA RotatorLivesStep ==
    ASSUME RotatorLives, [ShippingNext]_vars
    PROVE  RotatorLives'
<1>t. TypeOK /\ clock \in Nat /\ curHour \in Nat
  BY LivesTyped
<1>1. ASSUME [Next]_rotatorVars, proc # "down", proc' # "down"
      PROVE  RotatorLives'
  BY <1>1, RotatorInvStep DEF RotatorLives
<1>2. ASSUME UNCHANGED rotatorVars, proc' = "down" <=> proc = "down"
      PROVE  RotatorLives'
  <2>1. CASE proc = "down"
    BY <1>2, <2>1 DEF rotatorVars, RotatorLives, TypeOK
  <2> QED
    BY <1>1, <1>2, <2>1
<1>3. CASE RotatorStep
  <2>1. proc' = proc /\ proc # "down"
    BY <1>3 DEF RotatorStep, InnerStep, OpenFileStep, AppendStep, EnqueueStep,
                uploaderVars, W!Running
  <2>2. [Next]_rotatorVars
    BY <1>3 DEF RotatorStep, InnerStep, OpenFileStep, AppendStep, EnqueueStep, Next, WriteStep
  <2> QED
    BY <1>1, <2>1, <2>2
<1>4. CASE UploaderStep
  <2>1. proc' = proc
    BY <1>4 DEF UploaderStep, UploadStep, RemoveStep, W!UploadOk, W!RemoveFile, W!Poll, W!Tick,
       W!Done, CheckStep, W!CheckFile, W!StartAttempt, W!UploadErr, W!RecordFailure, W!RecordSuccess,
       W!Retry, W!StartRetry, W!StatListed, W!ResetListed, W!DeleteListed
  <2> QED
    BY <1>2, <1>4, <2>1 DEF UploaderStep
<1>5. CASE \E f \in File : AgeStep(f)
  BY <1>2, <1>5 DEF AgeStep, W!Age
<1>6. CASE HourStep
  <2>1. NextHour /\ proc' = proc
    BY <1>6 DEF HourStep, uploaderVars
  <2>2. CASE proc = "down"
    <3>1. clock' = clock + 1 /\ clock' \in Hour
      BY <1>t, <2>1, RotatorAssumption DEF NextHour, Hour, RotatorAssumption
    <3> QED
      BY <1>t, <2>1, <2>2, <3>1 DEF NextHour, RotatorLives, TypeOK
  <2>3. CASE proc # "down"
    BY <1>1, <2>1, <2>3 DEF Next
  <2> QED
    BY <2>2, <2>3
<1>7. CASE SignalStep \/ CloseLoggerStep \/ CloseQueueStep
  <2>1. proc # "down" /\ proc' # "down"
    BY <1>7 DEF SignalStep, CloseLoggerStep, CloseQueueStep, W!Shutdown, W!CloseQueue, uploaderVars
  <2>2. [Next]_rotatorVars
    BY <1>7 DEF SignalStep, CloseLoggerStep, CloseQueueStep, Next
  <2> QED
    BY <1>1, <2>1, <2>2
<1>8. CASE DieStep
  <2>1. proc' = "down" /\ RotatorGone
    BY <1>8 DEF DieStep, W!Exit, W!Crash, W!Die
  <2>2. 0 \in Hour
    BY RotatorAssumption DEF RotatorAssumption, Hour
  <2>3. TypeOK'
    BY <1>t, <2>1, <2>2 DEF RotatorGone, TypeOK, Instructions
  <2> QED
    BY <1>t, <2>1, <2>3 DEF RotatorGone, RotatorLives
<1>9. CASE RestartStep
  <2>1. /\ proc = "down" /\ proc' # "down"
        /\ current' = NameOf[clock] /\ curHour' = clock /\ clock \in Hour
        /\ UNCHANGED <<clock, holder, pc, now, shut, told>>
    BY <1>9, <1>t DEF RestartStep, TypeOK
  <2>2. /\ holder = Nobody /\ shut = FALSE /\ told = {}
        /\ \A t \in Thread : pc[t] = "idle" /\ now[t] = 0
    BY <2>1 DEF RotatorLives
  <2>3. pc = [t \in Thread |-> "idle"] /\ now = [t \in Thread |-> 0]
    BY <1>t, <2>2 DEF TypeOK
  <2>4. Init'
    BY <2>1, <2>2, <2>3 DEF Init, RotatorInit
  <2>5. RotatorInv'
    BY <2>4, RotatorInvInit, PTL
  <2> QED
    BY <2>1, <2>5 DEF RotatorLives
<1>10. CASE UNCHANGED vars
  BY <1>2, <1>10 DEF vars, uploaderVars
<1> QED
  BY <1>3, <1>4, <1>5, <1>6, <1>7, <1>8, <1>9, <1>10 DEF ShippingNext, ProcessStep

\* Only HourStep moves the clock.
LEMMA ClockStep ==
    ASSUME [ShippingNext]_vars
    PROVE  clock' = clock \/ (HourStep /\ clock' = clock + 1)
<1>1. CASE RotatorStep
  BY <1>1 DEF RotatorStep, InnerStep, OpenFileStep, AppendStep, EnqueueStep, StartWrite, Lock,
     ReadClock, SameHour, CloseOld, OpenNew, OpenFails, Append, EnqueueOk, EnqueueErr
<1>2. CASE UploaderStep \/ (\E f \in File : AgeStep(f)) \/ UNCHANGED vars
  BY <1>2 DEF UploaderStep, AgeStep, vars, rotatorVars
<1>3. CASE HourStep
  BY <1>3 DEF HourStep, NextHour
<1>4. CASE ProcessStep
  BY <1>4 DEF ProcessStep, SignalStep, CloseLoggerStep, CloseQueueStep, DieStep, RestartStep,
     RotatorGone, CloseLogger, rotatorVars
<1> QED
  BY <1>1, <1>2, <1>3, <1>4 DEF ShippingNext

\* A Write is under way for the hour it has just read, or was already.
LEMMA UnderWayStep ==
    ASSUME RotatorLives, [ShippingNext]_vars, NEW t \in Thread, UnderWay(t)'
    PROVE  \/ UnderWay(t) /\ now'[t] = now[t]
           \/ now'[t] = clock /\ clock' = clock
<1>t. /\ DOMAIN pc = Thread /\ DOMAIN now = Thread
      /\ Hour \subseteq Thread /\ Writer \subseteq Thread
  BY LivesTyped, RotatorFacts
<1>1. ASSUME UNCHANGED <<pc, now>>
      PROVE  UnderWay(t) /\ now'[t] = now[t]
  BY <1>1 DEF UnderWay
<1>2. CASE RotatorStep
  <2>1. ASSUME NEW w \in Writer, StartWrite(w)
        PROVE  UnderWay(t) /\ now'[t] = now[t]
    BY <1>t, <2>1 DEF StartWrite, UnderWay
  <2>2. ASSUME NEW u \in Thread, Lock(u) \/ SameHour(u) \/ OpenNew(u)
        PROVE  UnderWay(t) /\ now'[t] = now[t]
    BY <1>t, <2>2 DEF Lock, SameHour, OpenNew, UnderWay
  <2>3. ASSUME NEW u \in Thread, ReadClock(u)
        PROVE  \/ UnderWay(t) /\ now'[t] = now[t]
               \/ now'[t] = clock /\ clock' = clock
    BY <1>t, <2>3 DEF ReadClock, UnderWay
  <2>4. ASSUME NEW u \in Thread, CloseOld(u)
        PROVE  UnderWay(t) /\ now'[t] = now[t]
    BY <1>t, <2>4 DEF CloseOld, UnderWay
  <2>5. ASSUME NEW u \in Thread, OpenFails(u) \/ Append(u)
        PROVE  UnderWay(t) /\ now'[t] = now[t]
    BY <1>t, <2>5 DEF OpenFails, Append, Return, UnderWay
  <2>6. ASSUME NEW h \in Hour, EnqueueOk(h) \/ EnqueueErr(h)
        PROVE  UnderWay(t) /\ now'[t] = now[t]
    BY <1>t, <2>6 DEF EnqueueOk, EnqueueErr, UnderWay
  <2> QED
    BY <1>2, <2>1, <2>2, <2>3, <2>4, <2>5, <2>6
    DEF RotatorStep, InnerStep, OpenFileStep, AppendStep, EnqueueStep
<1>3. CASE UploaderStep \/ (\E f \in File : AgeStep(f)) \/ HourStep \/ UNCHANGED vars
  BY <1>1, <1>3 DEF UploaderStep, AgeStep, HourStep, NextHour, vars, rotatorVars
<1>4. CASE SignalStep \/ CloseLoggerStep \/ CloseQueueStep \/ RestartStep
  BY <1>1, <1>4 DEF SignalStep, CloseLoggerStep, CloseQueueStep, RestartStep,
     CloseLogger, rotatorVars
<1>5. CASE DieStep
  BY <1>5 DEF DieStep, RotatorGone, UnderWay
<1> QED
  BY <1>2, <1>3, <1>4, <1>5 DEF ShippingNext, ProcessStep

\* A file that cannot grow any more will not.
LEMMA GrowthEnds ==
    ASSUME RotatorLives, [ShippingNext]_vars, NEW f \in File, CanGrow(f)'
    PROVE  CanGrow(f)
<1>1. clock \in Nat /\ clock \in Hour /\ Hour \subseteq Nat
  BY LivesTyped, RotatorFacts DEF TypeOK
<1>2. clock' \in Nat /\ clock <= clock'
  BY <1>1, ClockStep
<1>3. ASSUME NEW k \in Hour, k >= clock', NameOf[k] = f
      PROVE  CanGrow(f)
  BY <1>1, <1>2, <1>3 DEF CanGrow
<1>4. ASSUME NEW t \in Thread, UnderWay(t)', NameOf[now'[t]] = f
      PROVE  CanGrow(f)
  BY <1>1, <1>4, UnderWayStep DEF CanGrow
<1> QED
  BY <1>3, <1>4 DEF CanGrow

\* The thread that a name in use is written under is in the present hour.
LEMMA GrowsNow ==
    ASSUME RepeatsAreSteady, RotatorLives, SteadyWrites,
           NEW h \in Hour, Past(h), CanGrow(NameOf[h])
    PROVE  NameOf[clock] = NameOf[h] /\ clock = h + 1 /\ clock \in Steady
<1>t. /\ TypeOK /\ clock \in Nat /\ curHour \in Nat /\ h \in Nat /\ clock \in Hour
      /\ Hour \subseteq Nat /\ now \in [Thread -> Hour]
  BY LivesTyped, RotatorFacts DEF TypeOK
<1>1. ASSUME NEW k \in Hour, k >= clock, NameOf[k] = NameOf[h]
      PROVE  NameOf[clock] = NameOf[h] /\ clock = h + 1 /\ clock \in Steady
  <2>1. k \in Nat /\ h < k /\ h < clock
    BY <1>t, <1>1 DEF Past
  <2>2. k = h + 1 /\ k \in Steady
    BY <1>1, <2>1 DEF RepeatsAreSteady
  <2>3. clock = k
    BY <1>t, <1>1, <2>1, <2>2
  <2> QED
    BY <1>1, <2>2, <2>3
<1>2. ASSUME NEW t \in Thread, UnderWay(t), NameOf[now[t]] = NameOf[h]
      PROVE  NameOf[clock] = NameOf[h] /\ clock = h + 1 /\ clock \in Steady
  <2>1. RotatorInv
    BY <1>2, LivesTyped DEF RotatorLives, UnderWay
  <2>2. ProgressOK(t) /\ NameOf[curHour] # NoFile /\ now[t] \in Hour /\ now[t] \in Nat
    BY <1>t, <2>1, RotatorFacts DEF RotatorInv
  <2>3. h < now[t]
    BY <1>2, <1>t, <2>2 DEF ProgressOK, UnderWay, Past
  <2>4. now[t] = h + 1 /\ now[t] \in Steady
    BY <1>2, <2>2, <2>3 DEF RepeatsAreSteady
  <2>5. now[t] = clock
    BY <1>2, <2>4 DEF SteadyWrites
  <2> QED
    BY <1>2, <2>4, <2>5
<1> QED
  BY <1>1, <1>2 DEF CanGrow

\* An hour that is over stays over.
LEMMA PastStays ==
    ASSUME RotatorLives, [ShippingNext]_vars, NEW h \in Hour, Past(h)
    PROVE  Past(h)'
<1>t. /\ TypeOK /\ clock \in Nat /\ curHour \in Nat /\ h \in Nat /\ now \in [Thread -> Hour]
      /\ Hour \subseteq Nat
  BY LivesTyped, RotatorFacts DEF TypeOK
<1>1. clock <= clock' /\ clock' \in Nat
  BY <1>t, ClockStep
<1>2. ASSUME current' \in {current, NoFile}, curHour' = curHour
      PROVE  Past(h)'
  BY <1>t, <1>1, <1>2 DEF Past
<1>3. ASSUME curHour' \in Nat, h < curHour'
      PROVE  Past(h)'
  BY <1>t, <1>1, <1>3 DEF Past
<1>4. CASE RotatorStep
  <2>1. ASSUME NEW t \in Thread, OpenNew(t), proc # "down"
        PROVE  Past(h)'
    <3>1. ProgressOK(t)
      BY <2>1, LivesTyped DEF RotatorInv
    <3> QED
      BY <1>t, <1>3, <2>1, <3>1 DEF OpenNew, ProgressOK, Past
  <2>2. CASE \E t \in Thread : OpenFileStep(t)
    BY <1>4, <2>1, <2>2 DEF OpenFileStep, RotatorStep, W!Running
  <2>3. CASE ~\E t \in Thread : OpenFileStep(t)
    <3>1. current' \in {current, NoFile} /\ curHour' = curHour
      BY <1>4, <2>3 DEF RotatorStep, InnerStep, AppendStep, EnqueueStep, StartWrite, Lock,
         ReadClock, SameHour, CloseOld, OpenFails, Append, EnqueueOk, EnqueueErr
    <3> QED
      BY <1>2, <3>1
  <2> QED
    BY <2>2, <2>3
<1>5. CASE UploaderStep \/ (\E f \in File : AgeStep(f)) \/ HourStep \/ UNCHANGED vars
  BY <1>2, <1>5 DEF UploaderStep, AgeStep, HourStep, NextHour, vars, rotatorVars
<1>6. CASE SignalStep \/ CloseLoggerStep \/ CloseQueueStep
  BY <1>2, <1>6 DEF SignalStep, CloseLoggerStep, CloseQueueStep, CloseLogger, rotatorVars
<1>7. CASE DieStep \/ RestartStep
  <2>1. curHour' = clock
    BY <1>7 DEF DieStep, RestartStep, RotatorGone
  <2> QED
    BY <1>t, <1>3, <2>1 DEF Past
<1> QED
  BY <1>4, <1>5, <1>6, <1>7 DEF ShippingNext, ProcessStep

----------------------------------------------------------------------------
(* The table and the worker's listing.                                     *)

\* A step runs one statement or none.  Only a callback adds a path.
LEMMA TableStep ==
    ASSUME ShippingTypes, [ShippingNext]_vars
    PROVE  /\ W!QueueTypeOK'
           /\ \A f \in File : W!Tracked(f)' =>
                 W!Tracked(f) \/ \E h \in Hour : EnqueueStep(h) /\ f = NameOf[h]
<1>t. W!QueueTypeOK
  BY DEF ShippingTypes
<1>1. ASSUME UNCHANGED queueVars
      PROVE  W!QueueTypeOK' /\ \A f \in File : W!Tracked(f)' => W!Tracked(f)
  BY <1>t, <1>1 DEF queueVars, W!QueueTypeOK, W!Tracked
<1>2. ASSUME NEW h \in Hour, EnqueueStep(h)
      PROVE  W!QueueTypeOK' /\ \A f \in File : W!Tracked(f)' => W!Tracked(f) \/ f = NameOf[h]
  <2>1. NameOf[h] \in File
    BY RotatorAssumption DEF RotatorAssumption
  <2> QED
    BY <1>t, <1>1, <1>2, <2>1, EnqueueStatement DEF EnqueueStep
<1>3. CASE RotatorStep
  BY <1>1, <1>2, <1>3 DEF RotatorStep, InnerStep, OpenFileStep, AppendStep, uploaderVars, queueVars
<1>4. CASE UploaderStep
  <2>1. \/ UNCHANGED queueVars
        \/ \E e \in batch : W!MarkUploading(e.id) \/ W!MarkUploaded(e.id) \/ W!MarkFailed(e.id)
        \/ \E a \in Admin : \E e \in list[a] : W!ResetForRetry(e.id) \/ W!Delete(e.id)
    BY <1>4 DEF UploaderStep, UploadStep, RemoveStep, W!UploadOk, W!RemoveFile, W!Poll, W!Tick,
       W!Done, CheckStep, W!CheckFile, W!StartAttempt, W!UploadErr, W!RecordFailure, W!RecordSuccess,
       W!Retry, W!StartRetry, W!StatListed, W!ResetListed, W!DeleteListed,
       queueVars, W!queueVars, W!storeVars
  <2> QED
    BY <1>t, <1>1, <2>1, RowStatements
<1>5. CASE (\E f \in File : AgeStep(f)) \/ HourStep \/ ProcessStep \/ UNCHANGED vars
  BY <1>1, <1>5 DEF AgeStep, W!Age, HourStep, ProcessStep, SignalStep, CloseLoggerStep,
     CloseQueueStep, DieStep, RestartStep, W!Shutdown, W!CloseQueue, W!Exit, W!Crash, W!Die,
     vars, uploaderVars, queueVars, W!queueVars, W!storeVars
<1> QED
  BY <1>1, <1>2, <1>3, <1>4, <1>5 DEF ShippingNext

\* The worker drops entries, or lists the table anew.
LEMMA BatchStep ==
    ASSUME [ShippingNext]_vars
    PROVE  batch' \subseteq batch \/ batch' = W!GetPending
<1>1. CASE RotatorStep
  BY <1>1 DEF RotatorStep, InnerStep, OpenFileStep, AppendStep, EnqueueStep, uploaderVars
<1>2. CASE UploaderStep
  BY <1>2 DEF UploaderStep, UploadStep, RemoveStep, W!UploadOk, W!RemoveFile, W!Poll, W!Tick,
     W!Done, CheckStep, W!CheckFile, W!StartAttempt, W!UploadErr, W!RecordFailure, W!RecordSuccess,
     W!Retry, W!StartRetry, W!StatListed, W!ResetListed, W!DeleteListed,
     W!NextEntry, W!workerVars
<1>3. CASE (\E f \in File : AgeStep(f)) \/ HourStep \/ ProcessStep \/ UNCHANGED vars
  BY <1>3 DEF AgeStep, W!Age, HourStep, ProcessStep, SignalStep, CloseLoggerStep,
     CloseQueueStep, DieStep, RestartStep, W!Shutdown, W!CloseQueue, W!Exit, W!Crash, W!Die,
     vars, uploaderVars, W!workerVars
<1> QED
  BY <1>1, <1>2, <1>3 DEF ShippingNext

\* What the uploader comes to know, it is told by a callback.
LEMMA KnownStep ==
    ASSUME ShippingTypes, [ShippingNext]_vars, NEW f \in File, Known(f)'
    PROVE  Known(f) \/ \E h \in Hour : EnqueueStep(h) /\ f = NameOf[h]
<1>1. W!QueueTypeOK
  BY DEF ShippingTypes
<1>2. CASE W!Tracked(f)'
  BY <1>2, TableStep DEF Known
<1>3. ASSUME NEW e \in batch', e.path = f
      PROVE  Known(f)
  <2>1. CASE batch' \subseteq batch
    BY <1>3, <2>1 DEF Known
  <2>2. CASE batch' = W!GetPending
    BY <1>1, <1>3, <2>2, PendingListing DEF Known
  <2> QED
    BY <2>1, <2>2, BatchStep
<1> QED
  BY <1>2, <1>3 DEF Known

\* The entry at hand is one.
LEMMA FirstIsOne ==
    ASSUME ShippingTypes, NEW e \in batch, NEW f \in batch, W!First(e, batch), W!First(f, batch)
    PROVE  e = f
<1>1. e.id \in Nat /\ f.id \in Nat
  BY DEF ShippingTypes, W!Entry
<1>2. e.id <= f.id /\ f.id <= e.id
  BY DEF W!First
<1>3. e.id = f.id
  BY <1>1, <1>2
<1> QED
  BY <1>3 DEF ShippingTypes

----------------------------------------------------------------------------
(* The worker's position, and the files.                                   *)

Removing(e) == wpc = "remove" /\ W!First(e, batch)

\* The worker may take the file of an entry to be closed.
NotSkipped(e) == clock \in Steady /\ e.path = NameOf[clock] => disk[e.path] # "fresh"

\* The worker, and no one else, moves on in the work on an entry.
LEMMA WorkStep ==
    ASSUME [ShippingNext]_vars, wpc' \in {"mark", "upload", "stored", "remove"}
    PROVE  /\ batch' = batch
           /\ \/ wpc \in {"mark", "upload", "stored", "remove"}
              \/ \E e \in batch : W!First(e, batch) /\ NotSkipped(e)
           /\ wpc' \in {"stored", "remove"} =>
                 \/ wpc \in {"stored", "remove"}
                 \/ \E e \in batch : W!First(e, batch) /\ e.path \notin unsaved'
<1>1. ASSUME UNCHANGED <<wpc, batch>>
      PROVE  /\ batch' = batch
             /\ wpc \in {"mark", "upload", "stored", "remove"}
             /\ wpc' \in {"stored", "remove"} => wpc \in {"stored", "remove"}
  BY <1>1
<1>2. CASE RotatorStep
  BY <1>1, <1>2 DEF RotatorStep, InnerStep, OpenFileStep, AppendStep, EnqueueStep, uploaderVars
<1>3. CASE UploaderStep
  <2>1. ASSUME NEW e \in batch, UploadStep(e)
        PROVE  /\ batch' = batch /\ wpc = "upload"
               /\ W!First(e, batch) /\ e.path \notin unsaved'
    BY <2>1 DEF UploadStep, W!UploadOk, W!At
  <2>2. ASSUME NEW e \in batch, RemoveStep(e) \/ W!RecordFailure(e) \/ W!UploadErr(e)
        PROVE  FALSE
    BY <2>2 DEF RemoveStep, W!RemoveFile, W!RecordFailure, W!UploadErr, W!NextEntry
  <2>3. ASSUME NEW e \in batch, CheckStep(e)
        PROVE  /\ batch' = batch /\ wpc' = "mark"
               /\ W!First(e, batch) /\ NotSkipped(e)
    BY <2>3 DEF CheckStep, W!CheckFile, W!NextEntry, W!At, NotSkipped
  <2>4. ASSUME NEW e \in batch, W!StartAttempt(e)
        PROVE  batch' = batch /\ wpc = "mark" /\ wpc' = "upload"
    BY <2>4 DEF W!StartAttempt, W!NextEntry, W!At
  <2>5. ASSUME NEW e \in batch, W!RecordSuccess(e)
        PROVE  batch' = batch /\ wpc = "stored"
    BY <2>5 DEF W!RecordSuccess, W!NextEntry, W!At
  <2>6. CASE W!Poll \/ W!Tick \/ W!Done
    BY <2>6 DEF W!Poll, W!Tick, W!Done
  <2>7. CASE \E a \in Admin : W!Retry(a)
    BY <1>1, <2>7 DEF W!Retry, W!StartRetry, W!StatListed, W!ResetListed, W!DeleteListed,
       W!workerVars
  <2> QED
    BY <1>3, <2>1, <2>2, <2>3, <2>4, <2>5, <2>6, <2>7 DEF UploaderStep
<1>4. CASE (\E f \in File : AgeStep(f)) \/ HourStep \/ UNCHANGED vars
  BY <1>1, <1>4 DEF AgeStep, W!Age, HourStep, vars, uploaderVars, W!workerVars
<1>5. CASE SignalStep \/ CloseLoggerStep \/ CloseQueueStep
  BY <1>1, <1>5 DEF SignalStep, CloseLoggerStep, CloseQueueStep, W!Shutdown, W!CloseQueue,
     uploaderVars, W!workerVars
<1>6. CASE DieStep \/ RestartStep
  BY <1>6 DEF DieStep, RestartStep, W!Exit, W!Crash, W!Die
<1> QED
  BY <1>2, <1>3, <1>4, <1>5, <1>6 DEF ShippingNext, ProcessStep

\* An open file gets a directory entry if it has none.
LEMMA OpenedFile ==
    ASSUME ShippingTypes, clock \in Hour, NEW g \in File, OpenOrCreate(g)
    PROVE  /\ disk' \in [File -> {"none", "fresh", "aged", "removed", "vanished"}]
           /\ mtime' \in [File -> Hour]
           /\ \A f \in File : \/ disk'[f] = disk[f] /\ mtime'[f] = mtime[f]
                              \/ disk'[f] = "fresh" /\ mtime'[f] = clock /\ f = g
  BY DEF OpenOrCreate, ShippingTypes

\* What is appended to can grow.
LEMMA AppendedGrows ==
    ASSUME RotatorLives, proc # "down", NEW t \in Thread, Appends(t, current)
    PROVE  CanGrow(current)
<1>1. ProgressOK(t) /\ current = NameOf[now[t]]
  BY LivesTyped DEF RotatorInv, ProgressOK, Appends
<1> QED
  BY <1>1 DEF CanGrow, UnderWay, Appends

\* A step makes a file fresh, removes the worker's entry, ages a file that was not
\* modified in this hour, or leaves the file as it is.
LEMMA FilesStep ==
    ASSUME RotatorLives, ShippingTypes, [ShippingNext]_vars
    PROVE  /\ disk' \in [File -> {"none", "fresh", "aged", "removed", "vanished"}]
           /\ mtime' \in [File -> Hour]
           /\ \A f \in File :
                 \/ disk'[f] = disk[f] /\ mtime'[f] = mtime[f]
                 \/ disk'[f] = "fresh" /\ mtime'[f] = clock /\ CanGrow(f)
                 \/ /\ disk'[f] = "aged" /\ disk[f] = "fresh"
                    /\ clock > mtime[f] /\ mtime'[f] = mtime[f]
                 \/ disk'[f] = "removed" /\ \E e \in batch : Removing(e) /\ e.path = f
<1>t. /\ disk \in [File -> {"none", "fresh", "aged", "removed", "vanished"}]
      /\ mtime \in [File -> Hour]
      /\ clock \in Hour /\ now \in [Thread -> Hour] /\ current \in File \cup {NoFile}
      /\ NameOf \in [Hour -> File]
  BY LivesTyped, RotatorAssumption DEF ShippingTypes, TypeOK, RotatorAssumption
<1>1. ASSUME UNCHANGED <<disk, mtime>>
      PROVE  /\ disk' \in [File -> {"none", "fresh", "aged", "removed", "vanished"}]
             /\ mtime' \in [File -> Hour]
             /\ \A f \in File : disk'[f] = disk[f] /\ mtime'[f] = mtime[f]
  BY <1>t, <1>1
<1>2. CASE RotatorStep
  <2>1. ASSUME NEW t \in Thread, OpenFileStep(t)
        PROVE  /\ NameOf[now[t]] \in File /\ OpenOrCreate(NameOf[now[t]])
               /\ CanGrow(NameOf[now[t]])
    BY <1>t, <2>1 DEF OpenFileStep, OpenNew, CanGrow, UnderWay
  <2>2. ASSUME NEW t \in Thread, AppendStep(t)
        PROVE  /\ disk' \in [File -> {"none", "fresh", "aged", "removed", "vanished"}]
               /\ mtime' \in [File -> Hour]
               /\ \A f \in File : \/ disk'[f] = disk[f] /\ mtime'[f] = mtime[f]
                                  \/ disk'[f] = "fresh" /\ mtime'[f] = clock /\ CanGrow(f)
    <3>1. Appends(t, current) => CanGrow(current)
      BY <1>2, AppendedGrows DEF RotatorStep, W!Running
    <3>2. Appends(t, current) => current \in File
      BY <1>t DEF Appends
    <3> QED
      BY <1>t, <2>2, <3>1, <3>2 DEF AppendStep
  <2> QED
    BY <1>1, <1>2, <1>t, <2>1, <2>2, OpenedFile
    DEF RotatorStep, InnerStep, EnqueueStep, uploaderVars, fileVars
<1>3. CASE UploaderStep
  <2>1. ASSUME NEW e \in batch, RemoveStep(e)
        PROVE  /\ disk' \in [File -> {"none", "fresh", "aged", "removed", "vanished"}]
               /\ mtime' \in [File -> Hour]
               /\ \A f \in File : \/ disk'[f] = disk[f] /\ mtime'[f] = mtime[f]
                                  \/ disk'[f] = "removed" /\ Removing(e) /\ e.path = f
    BY <1>t, <2>1 DEF RemoveStep, W!RemoveFile, W!At, Removing
  <2>2. CASE ~\E e \in batch : RemoveStep(e)
    <3>1. UNCHANGED <<disk, mtime>>
      BY <1>3, <2>2 DEF UploaderStep, UploadStep, W!UploadOk, W!Poll, W!Tick, W!Done,
         CheckStep, W!CheckFile, W!StartAttempt, W!UploadErr, W!RecordFailure, W!RecordSuccess,
         W!Retry, W!StartRetry, W!StatListed, W!ResetListed, W!DeleteListed,
         W!storeVars, fileVars
    <3> QED
      BY <1>1, <3>1
  <2> QED
    BY <2>1, <2>2
<1>4. ASSUME NEW g \in File, AgeStep(g)
      PROVE  /\ disk' \in [File -> {"none", "fresh", "aged", "removed", "vanished"}]
             /\ mtime' \in [File -> Hour]
             /\ \A f \in File : \/ disk'[f] = disk[f] /\ mtime'[f] = mtime[f]
                                \/ /\ disk'[f] = "aged" /\ disk[f] = "fresh"
                                   /\ clock > mtime[f] /\ mtime'[f] = mtime[f]
  BY <1>t, <1>4 DEF AgeStep, W!Age, fileVars
<1>5. CASE HourStep \/ UNCHANGED vars
  BY <1>1, <1>5 DEF HourStep, vars, uploaderVars, fileVars
<1>6. CASE SignalStep \/ CloseLoggerStep \/ CloseQueueStep \/ DieStep
  BY <1>1, <1>6 DEF SignalStep, CloseLoggerStep, CloseQueueStep, DieStep, W!Shutdown,
     W!CloseQueue, W!Exit, W!Crash, W!Die, uploaderVars, fileVars, W!storeVars
<1>7. CASE RestartStep
  <2>1. NameOf[clock] \in File /\ CanGrow(NameOf[clock])
    BY <1>t, LivesTyped DEF CanGrow
  <2> QED
    BY <1>t, <1>7, <2>1, OpenedFile DEF RestartStep
<1> QED
  BY <1>2, <1>3, <1>4, <1>5, <1>6, <1>7 DEF ShippingNext, ProcessStep

\* A line that the bucket lacks is appended to the current file.
LEMMA UnsavedStep ==
    ASSUME [ShippingNext]_vars, NEW f \in unsaved', f \notin unsaved
    PROVE  /\ proc # "down" /\ f = current
           /\ linked => disk' = [disk EXCEPT ![current] = "fresh"]
           /\ \E t \in Thread : Appends(t, current)
<1>1. CASE RotatorStep
  <2>1. PICK t \in Thread : AppendStep(t)
    BY <1>1 DEF RotatorStep, InnerStep, OpenFileStep, EnqueueStep, fileVars
  <2> QED
    BY <1>1, <2>1 DEF AppendStep, RotatorStep, W!Running
<1>2. CASE ~RotatorStep
  BY <1>2 DEF ShippingNext, UploaderStep, UploadStep, RemoveStep, AgeStep, HourStep, ProcessStep,
     SignalStep, CloseLoggerStep, CloseQueueStep, DieStep, RestartStep, vars, fileVars
<1> QED
  BY <1>1, <1>2

\* Only the worker takes the name from the open file.
LEMMA LinkedStep ==
    ASSUME [ShippingNext]_vars, current' # NoFile, ~linked', linked \in BOOLEAN
    PROVE  /\ current' = current
           /\ ~linked \/ \E e \in batch : Removing(e) /\ e.path = current
<1>1. CASE RotatorStep
  <2>1. ~\E t \in Thread : OpenFileStep(t) \/ CloseOld(t)
    BY <1>1 DEF OpenFileStep, OpenOrCreate, CloseOld
  <2>2. ASSUME InnerStep
        PROVE  current' = current /\ linked' = linked
    BY <2>1, <2>2 DEF InnerStep, StartWrite, Lock, ReadClock, SameHour, OpenFails, fileVars
  <2>3. ASSUME NEW t \in Thread, AppendStep(t)
        PROVE  current' = current /\ linked' = linked
    BY <2>3 DEF AppendStep, Append
  <2>4. ASSUME NEW h \in Hour, EnqueueStep(h)
        PROVE  current' = current /\ linked' = linked
    BY <2>4 DEF EnqueueStep, EnqueueOk, EnqueueErr, fileVars
  <2> QED
    BY <1>1, <2>1, <2>2, <2>3, <2>4 DEF RotatorStep
<1>2. CASE UploaderStep
  <2>1. ASSUME NEW e \in batch, RemoveStep(e)
        PROVE  ~linked \/ (Removing(e) /\ e.path = current)
    BY <2>1 DEF RemoveStep, W!RemoveFile, W!At, Removing
  <2> QED
    BY <1>2, <2>1 DEF UploaderStep, UploadStep, rotatorVars, fileVars
<1>3. CASE (\E f \in File : AgeStep(f)) \/ HourStep \/ UNCHANGED vars
  BY <1>3 DEF AgeStep, HourStep, NextHour, vars, rotatorVars, fileVars
<1>4. CASE ProcessStep
  BY <1>4 DEF ProcessStep, SignalStep, CloseLoggerStep, CloseQueueStep, DieStep, RestartStep,
     CloseLogger, RotatorGone, OpenOrCreate, rotatorVars, fileVars
<1> QED
  BY <1>1, <1>2, <1>3, <1>4 DEF ShippingNext

----------------------------------------------------------------------------
(* Each part of the invariant, over one step.                              *)

\* Types are kept.
LEMMA ShippingTypesStep ==
    ASSUME RotatorLives, ShippingTypes, [ShippingNext]_vars
    PROVE  ShippingTypes'
<1>1. linked' \in BOOLEAN
  <2>1. CASE RotatorStep
    BY <2>1 DEF RotatorStep, InnerStep, OpenFileStep, OpenOrCreate, AppendStep, EnqueueStep,
       fileVars, ShippingTypes
  <2>2. CASE UploaderStep
    BY <2>2 DEF UploaderStep, UploadStep, RemoveStep, fileVars, ShippingTypes
  <2>3. CASE (\E f \in File : AgeStep(f)) \/ HourStep \/ ProcessStep \/ UNCHANGED vars
    BY <2>3 DEF AgeStep, HourStep, ProcessStep, SignalStep, CloseLoggerStep, CloseQueueStep,
       DieStep, RestartStep, OpenOrCreate, vars, fileVars, ShippingTypes
  <2> QED
    BY <2>1, <2>2, <2>3 DEF ShippingNext
<1>2. batch' \subseteq W!Entry /\ \A e, f \in batch' : e.id = f.id => e = f
  <2>1. CASE batch' \subseteq batch
    BY <2>1 DEF ShippingTypes
  <2>2. CASE batch' = W!GetPending
    BY <2>2, PendingListing DEF ShippingTypes
  <2> QED
    BY <2>1, <2>2, BatchStep
<1>3. W!Entry' = W!Entry
  BY DEF W!Entry
<1>4. unsaved' \subseteq File
  <2>1. ASSUME NEW f \in unsaved', f \notin unsaved
        PROVE  f \in File
    BY <2>1, LivesTyped, UnsavedStep DEF Appends, TypeOK
  <2> QED
    BY <2>1 DEF ShippingTypes
<1> QED
  BY <1>1, <1>2, <1>3, <1>4, TableStep, FilesStep DEF ShippingTypes

\* A steady hour does not end while a Write is under way in it.
LEMMA SteadyWritesStep ==
    ASSUME RotatorLives, SteadyWrites, [ShippingNext]_vars
    PROVE  SteadyWrites'
<1> SUFFICES ASSUME NEW t \in Thread, UnderWay(t)', now'[t] \in Steady
             PROVE  now'[t] = clock'
  BY DEF SteadyWrites
<1>1. CASE UnderWay(t) /\ now'[t] = now[t]
  <2>1. now'[t] = clock
    BY <1>1 DEF SteadyWrites
  <2>2. ~HourStep
    <3>1. holder = t /\ t # Nobody
      BY <1>1, LivesTyped, RotatorFacts DEF RotatorLives, RotatorInv, Exclusion, InWrite, UnderWay
    <3> QED
      BY <2>1, <3>1 DEF HourStep
  <2> QED
    BY <2>1, <2>2, ClockStep
<1> QED
  BY <1>1, UnderWayStep

\* A callback that has started is for an hour that is over.
LEMMA StartedIsPast ==
    ASSUME RotatorLives, NEW h \in Hour, pc[h] # "idle"
    PROVE  Past(h) /\ RotatorInv
<1>1. RotatorInv /\ clock \in Nat /\ curHour \in Nat /\ h \in Nat
  BY LivesTyped, RotatorFacts DEF RotatorLives, Thread
<1> QED
  BY <1>1 DEF RotatorInv, CallbacksAreLate, HourIsReached, Past

\* The uploader knows of a file only when its hour is over.
LEMMA KnownIsPastStep ==
    ASSUME RotatorLives, ShippingTypes, KnownIsPast, [ShippingNext]_vars
    PROVE  KnownIsPast'
<1> SUFFICES ASSUME NEW f \in File, Known(f)'
             PROVE  \E h \in Hour : NameOf[h] = f /\ Past(h)'
  BY DEF KnownIsPast
<1>1. ASSUME NEW h \in Hour, EnqueueStep(h), f = NameOf[h]
      PROVE  Past(h)
  <2>1. pc[h] # "idle"
    BY <1>1 DEF EnqueueStep, EnqueueOk, EnqueueErr
  <2> QED
    BY <2>1, StartedIsPast
<1>2. \E h \in Hour : NameOf[h] = f /\ Past(h)
  BY <1>1, KnownStep DEF KnownIsPast
<1> QED
  BY <1>2, PastStays

\* No hour begins whose name an hour before the last one has.
LEMMA HoursDiffer ==
    ASSUME RepeatsAreSteady, RotatorLives, HourStep, NEW h \in Hour, h < clock
    PROVE  NameOf[clock'] # NameOf[h]
<1>1. clock \in Nat /\ h \in Nat /\ clock' = clock + 1 /\ clock' \in Hour
  BY LivesTyped, RotatorFacts, RotatorAssumption
  DEF HourStep, NextHour, Hour, RotatorAssumption
<1>2. h < clock' /\ clock' # h + 1
  BY <1>1
<1> QED
  BY <1>1, <1>2 DEF RepeatsAreSteady

\* What was modified in this hour is not removed, nor does it age.
LEMMA FreshStays ==
    ASSUME RotatorLives, ShippingTypes, WorkedIsDone, [ShippingNext]_vars, clock' = clock,
           Fresh(NameOf[clock])
    PROVE  Fresh(NameOf[clock])'
<1>1. clock \in Hour /\ clock \in Nat /\ NameOf[clock] \in File
  BY LivesTyped, RotatorAssumption DEF RotatorAssumption, TypeOK
<1>2. CanGrow(NameOf[clock])
  BY <1>1 DEF CanGrow
<1>3. ~\E e \in batch : Removing(e) /\ e.path = NameOf[clock]
  BY <1>2 DEF WorkedIsDone, Removing
<1>4. \/ disk'[NameOf[clock]] = disk[NameOf[clock]] /\ mtime'[NameOf[clock]] = mtime[NameOf[clock]]
      \/ disk'[NameOf[clock]] = "fresh" /\ mtime'[NameOf[clock]] = clock
      \/ clock > mtime[NameOf[clock]]
  BY <1>1, <1>3, FilesStep
<1>5. disk'[NameOf[clock]] = "fresh" /\ mtime'[NameOf[clock]] = clock
  BY <1>1, <1>4 DEF Fresh
<1> QED
  BY <1>5 DEF Fresh

\* A file of this hour's name that is known was modified in this hour.
LEMMA KnownIsFreshStep ==
    ASSUME RepeatsAreSteady, ShippingInv, [ShippingNext]_vars
    PROVE  KnownIsFresh'
<1> SUFFICES ASSUME NEW f \in File, Known(f)', NameOf[clock'] = f
             PROVE  Fresh(f)'
  BY DEF KnownIsFresh
<1>t. RotatorLives /\ ShippingTypes /\ WorkedIsDone
  BY DEF ShippingInv
<1>1. ASSUME NEW h \in Hour, EnqueueStep(h), f = NameOf[h]
      PROVE  Past(h) /\ (NameOf[clock] = f => Fresh(f))
  <2>1. pc[h] = "enqueue"
    BY <1>1 DEF EnqueueStep, EnqueueOk, EnqueueErr
  <2> QED
    BY <1>1, <1>t, <2>1, StartedIsPast DEF ShippingInv, StartedIsFresh, AboutToFreshen
<1>2. \E h \in Hour : NameOf[h] = f /\ Past(h)
  BY <1>1, <1>t, KnownStep DEF ShippingInv, KnownIsPast
<1>3. clock' = clock
  BY <1>2, <1>t, ClockStep, HoursDiffer DEF Past
<1>4. Fresh(f)
  BY <1>1, <1>3, <1>t, KnownStep DEF ShippingInv, KnownIsFresh
<1> QED
  BY <1>3, <1>4, <1>t, FreshStays

\* A callback for a name that is used again is started by a Write that is about to
\* write under that name, and waits for it.
LEMMA StartedIsFreshStep ==
    ASSUME RepeatsAreSteady, ShippingInv, [ShippingNext]_vars
    PROVE  StartedIsFresh'
<1> SUFFICES ASSUME NEW h \in Hour, pc'[h] # "idle", NameOf[clock'] = NameOf[h]
             PROVE  Fresh(NameOf[h])' \/ AboutToFreshen(h)'
  BY DEF StartedIsFresh
<1>t. /\ RotatorLives /\ ShippingTypes /\ WorkedIsDone /\ SteadyWrites
      /\ TypeOK /\ clock \in Nat /\ clock \in Hour /\ curHour \in Nat /\ h \in Nat
      /\ DOMAIN pc = Thread /\ DOMAIN now = Thread
      /\ Hour \subseteq Thread /\ Writer \subseteq Thread
  BY LivesTyped, RotatorFacts DEF ShippingInv, TypeOK
<1>1. CASE pc[h] = "idle"
  <2>1. PICK t \in Thread : CloseOld(t) /\ h = curHour
    <3>1. ~\E w \in Writer : StartWrite(w)
      BY <1>1, <1>t, RotatorAssumption DEF StartWrite, RotatorAssumption
    <3>2. CASE RotatorStep
      <4>1. \A u \in Thread : ~OpenFileStep(u) /\ ~AppendStep(u)
        BY <1>1, <1>t DEF OpenFileStep, AppendStep, OpenNew, Append, Return
      <4>2. \A g \in Hour : ~EnqueueStep(g)
        BY <1>1, <1>t DEF EnqueueStep, EnqueueOk, EnqueueErr
      <4>3. \A u \in Thread : ~Lock(u) /\ ~ReadClock(u) /\ ~SameHour(u) /\ ~OpenFails(u)
        BY <1>1, <1>t DEF Lock, ReadClock, SameHour, OpenFails, Return
      <4>4. \E u \in Thread : CloseOld(u)
        BY <3>1, <3>2, <4>1, <4>2, <4>3 DEF RotatorStep, InnerStep
      <4> QED
        BY <1>1, <1>t, <4>4 DEF CloseOld
    <3>3. CASE ~RotatorStep
      <4>1. ~DieStep
        BY <1>t DEF DieStep, RotatorGone
      <4>2. pc' = pc
        BY <3>3, <4>1 DEF ShippingNext, UploaderStep, AgeStep, HourStep, NextHour, ProcessStep,
           SignalStep, CloseLoggerStep, CloseQueueStep, RestartStep, CloseLogger, vars, rotatorVars
      <4> QED
        BY <1>1, <4>2
    <3> QED
      BY <3>2, <3>3
  <2>2. h # t /\ pc'[h] = "lock" /\ pc'[t] = "open"
    BY <1>1, <1>t, <2>1 DEF CloseOld
  <2> QED
    BY <2>2 DEF AboutToFreshen
<1>2. CASE pc[h] # "idle"
  <2>1. Past(h) /\ RotatorInv
    BY <1>2, <1>t, StartedIsPast
  <2>2. clock' = clock
    BY <1>t, <2>1, ClockStep, HoursDiffer DEF Past
  <2>3. CASE Fresh(NameOf[h])
    BY <1>t, <2>2, <2>3, FreshStays DEF Fresh
  <2>4. CASE AboutToFreshen(h)
    <3>1. CanGrow(NameOf[h])
      BY <1>t, <2>2 DEF CanGrow
    <3>2. clock = h + 1 /\ clock \in Steady
      BY <1>t, <2>1, <3>1, GrowsNow
    <3>3. PICK t \in Thread : pc[t] = "open" \/ (pc[t] = "append" /\ ~shut /\ linked)
      BY <2>4 DEF AboutToFreshen
    <3>4. /\ holder = t /\ holder # Nobody
          /\ \A u \in Thread : InWrite(u) => u = t
      BY <1>t, <2>1, <3>3, RotatorFacts DEF RotatorInv, Exclusion, InWrite
    <3>5. now[t] = clock
      <4>1. ProgressOK(t) /\ now[t] \in Nat /\ NameOf[curHour] # NoFile
        BY <1>t, <2>1, RotatorFacts DEF RotatorInv
      <4> QED
        BY <1>t, <2>1, <3>2, <3>3, <4>1 DEF ProgressOK, Past
    <3>6. ASSUME UNCHANGED <<pc, shut, linked>>
          PROVE  AboutToFreshen(h)'
      BY <2>4, <3>6 DEF AboutToFreshen
    <3>7. pc[h] = "lock" /\ h # t
      BY <2>4, <3>3 DEF AboutToFreshen
    <3>8. CASE RotatorStep
      <4>1. ASSUME NEW w \in Writer, StartWrite(w), linked' = linked
            PROVE  AboutToFreshen(h)'
        <5>1. pc[w] = "idle" /\ w # h /\ w # t
          BY <3>3, <3>7, <4>1 DEF StartWrite
        <5>2. pc'[h] = pc[h] /\ pc'[t] = pc[t] /\ shut' = shut
          BY <1>t, <4>1, <5>1 DEF StartWrite
        <5> QED
          BY <3>3, <3>7, <4>1, <5>2 DEF AboutToFreshen
      <4>2. ASSUME NEW u \in Thread, Lock(u) \/ ReadClock(u) \/ SameHour(u) \/ CloseOld(u)
            PROVE  FALSE
        BY <3>3, <3>4, <4>2 DEF Lock, ReadClock, SameHour, CloseOld, InWrite
      <4>3. ASSUME NEW u \in Thread, now[u] \notin Steady, OpenFails(u)
            PROVE  FALSE
        BY <3>2, <3>4, <3>5, <4>3 DEF OpenFails, InWrite
      <4>4. ASSUME NEW u \in Thread, OpenFileStep(u)
            PROVE  AboutToFreshen(h)'
        BY <1>t, <3>4, <3>7, <4>4 DEF OpenFileStep, OpenOrCreate, OpenNew, InWrite, AboutToFreshen
      <4>5. ASSUME NEW u \in Thread, AppendStep(u)
            PROVE  Fresh(NameOf[h])'
        <5>1. u = t /\ pc[t] = "append" /\ ~shut /\ linked
          BY <3>3, <3>4, <4>5 DEF AppendStep, Append, InWrite
        <5>2. current = NameOf[h] /\ current # NoFile /\ NameOf[h] \in File
          BY <1>t, <2>1, <2>2, <3>5, <5>1, RotatorFacts DEF RotatorInv, ProgressOK
        <5>3. disk' = [disk EXCEPT ![current] = "fresh"] /\ mtime' = [mtime EXCEPT ![current] = clock]
          BY <3>2, <3>5, <4>5, <5>1, <5>2 DEF AppendStep, Appends
        <5> QED
          BY <1>t, <2>2, <5>2, <5>3 DEF ShippingTypes, Fresh
      <4>6. ASSUME NEW g \in Hour, EnqueueStep(g)
            PROVE  AboutToFreshen(h)'
        <5>1. pc[g] = "enqueue" /\ g # h /\ g # t
          BY <3>3, <3>7, <4>6 DEF EnqueueStep, EnqueueOk, EnqueueErr
        <5>2. pc'[h] = pc[h] /\ pc'[t] = pc[t] /\ shut' = shut /\ linked' = linked
          BY <1>t, <4>6, <5>1 DEF EnqueueStep, EnqueueOk, EnqueueErr, fileVars
        <5> QED
          BY <3>3, <3>7, <5>2 DEF AboutToFreshen
      <4> QED
        BY <3>8, <4>1, <4>2, <4>3, <4>4, <4>5, <4>6 DEF RotatorStep, InnerStep, fileVars
    <3>9. CASE UploaderStep
      <4>1. pc' = pc /\ shut' = shut /\ current' = current
        BY <3>9 DEF UploaderStep, rotatorVars
      <4>2. CASE pc[t] = "append"
        <5>1. current = NameOf[h] /\ current # NoFile
          BY <1>t, <2>1, <2>2, <3>5, <4>2, RotatorFacts DEF RotatorInv, ProgressOK
        <5>2. ~\E e \in batch : Removing(e) /\ e.path = current
          BY <1>t, <3>1, <5>1 DEF WorkedIsDone, Removing
        <5>3. linked'
          BY <1>t, <3>3, <4>1, <4>2, <5>1, <5>2, LinkedStep DEF ShippingTypes
        <5> QED
          BY <3>3, <3>7, <4>1, <5>3 DEF AboutToFreshen
      <4> QED
        BY <3>3, <3>7, <4>1, <4>2 DEF AboutToFreshen
    <3>10. CASE (\E f \in File : AgeStep(f)) \/ HourStep \/ SignalStep \/ UNCHANGED vars
      BY <3>6, <3>10 DEF AgeStep, HourStep, NextHour, SignalStep, vars, rotatorVars, fileVars
    <3>11. CASE CloseLoggerStep \/ CloseQueueStep
      BY <3>4, <3>6, <3>11 DEF CloseLoggerStep, CloseQueueStep, CloseLogger
    <3>12. CASE DieStep
      BY <1>t, <3>12 DEF DieStep, RotatorGone
    <3>13. CASE RestartStep
      BY <2>4, <3>13 DEF RestartStep, OpenOrCreate, AboutToFreshen
    <3> QED
      BY <3>8, <3>9, <3>10, <3>11, <3>12, <3>13 DEF ShippingNext, ProcessStep
  <2> QED
    BY <1>2, <1>t, <2>2, <2>3, <2>4 DEF ShippingInv, StartedIsFresh
<1> QED
  BY <1>1, <1>2

\* A file the worker is at work on will not grow: if it could, this would be the steady
\* hour of its name, in which it is fresh and the worker's stat says so.
LEMMA WorkedIsDoneStep ==
    ASSUME RepeatsAreSteady, ShippingInv, [ShippingNext]_vars
    PROVE  WorkedIsDone'
<1> SUFFICES ASSUME NEW e \in batch', W!First(e, batch'),
                    wpc' \in {"mark", "upload", "stored", "remove"},
                    CanGrow(e.path)'
             PROVE  FALSE
  BY DEF WorkedIsDone, W!First
<1>t. RotatorLives /\ ShippingTypes /\ SteadyWrites
  BY DEF ShippingInv
<1>1. batch' = batch /\ e \in batch /\ W!First(e, batch) /\ e.path \in File
  BY <1>t, WorkStep DEF ShippingTypes, W!Entry
<1>2. CanGrow(e.path)
  BY <1>t, <1>1, GrowthEnds
<1>3. CASE wpc \in {"mark", "upload", "stored", "remove"}
  BY <1>1, <1>2, <1>3 DEF ShippingInv, WorkedIsDone
<1>4. CASE NotSkipped(e)
  <2>1. Known(e.path)
    BY <1>1 DEF Known
  <2>2. PICK h \in Hour : NameOf[h] = e.path /\ Past(h)
    BY <1>1, <2>1 DEF ShippingInv, KnownIsPast
  <2>3. NameOf[clock] = e.path /\ clock \in Steady
    BY <1>t, <1>2, <2>2, GrowsNow
  <2> QED
    BY <1>1, <1>4, <2>1, <2>3 DEF ShippingInv, KnownIsFresh, Fresh, NotSkipped
<1> QED
  BY <1>1, <1>3, <1>4, <1>t, WorkStep, FirstIsOne

\* What is uploaded and not marked or removed yet is all in the bucket.
LEMMA StoredIsSavedStep ==
    ASSUME ShippingInv, [ShippingNext]_vars
    PROVE  StoredIsSaved'
<1> SUFFICES ASSUME NEW e \in batch', W!First(e, batch'), wpc' \in {"stored", "remove"},
                    e.path \in unsaved'
             PROVE  FALSE
  BY DEF StoredIsSaved, W!First
<1>t. RotatorLives /\ ShippingTypes
  BY DEF ShippingInv
<1>1. batch' = batch /\ e \in batch /\ W!First(e, batch) /\ e.path \in File
  BY <1>t, WorkStep DEF ShippingTypes, W!Entry
<1>2. wpc \in {"stored", "remove"}
  BY <1>1, <1>t, WorkStep, FirstIsOne
<1>3. e.path \notin unsaved /\ ~CanGrow(e.path)
  BY <1>1, <1>2 DEF ShippingInv, StoredIsSaved, WorkedIsDone
<1>4. PICK t \in Thread : e.path = current /\ Appends(t, current) /\ proc # "down"
  BY <1>3, UnsavedStep
<1> QED
  BY <1>3, <1>4, <1>t, AppendedGrows

\* The name of a removed file is over.
LEMMA RemovedIsDoneStep ==
    ASSUME ShippingInv, [ShippingNext]_vars
    PROVE  RemovedIsDone'
<1> SUFFICES ASSUME NEW f \in File, disk'[f] = "removed", CanGrow(f)'
             PROVE  FALSE
  BY DEF RemovedIsDone
<1>1. RotatorLives /\ ShippingTypes
  BY DEF ShippingInv
<1>2. CanGrow(f)
  BY <1>1, GrowthEnds
<1>3. disk[f] # "removed" /\ ~\E e \in batch : Removing(e) /\ e.path = f
  BY <1>2 DEF ShippingInv, RemovedIsDone, WorkedIsDone, Removing
<1> QED
  BY <1>1, <1>3, FilesStep

\* A file loses its name under an open descriptor only when no one writes any more.
LEMMA UnlinkedIsDoneStep ==
    ASSUME ShippingInv, [ShippingNext]_vars
    PROVE  UnlinkedIsDone'
<1> SUFFICES ASSUME current' # NoFile, ~linked', CanGrow(current)'
             PROVE  FALSE
  BY DEF UnlinkedIsDone
<1>t. RotatorLives /\ ShippingTypes
  BY DEF ShippingInv
<1>1. /\ current' = current
      /\ ~linked \/ \E e \in batch : Removing(e) /\ e.path = current
  BY <1>t, LinkedStep DEF ShippingTypes
<1>2. CanGrow(current)
  <2>1. current \in File
    BY <1>1, <1>t, LivesTyped DEF TypeOK
  <2>2. PICK f \in File : f = current
    BY <2>1
  <2>3. CanGrow(f)'
    BY <1>1, <2>2 DEF CanGrow
  <2> QED
    BY <1>t, <2>2, <2>3, GrowthEnds
<1>3. ~\E e \in batch : Removing(e) /\ e.path = current
  BY <1>2 DEF ShippingInv, WorkedIsDone, Removing
<1> QED
  BY <1>1, <1>2, <1>3 DEF ShippingInv, UnlinkedIsDone

\* A line in the directory stays there until it is in the bucket, and an append puts
\* one into a file that has its name.
LEMMA NoLineLostStep ==
    ASSUME ShippingInv, [ShippingNext]_vars
    PROVE  NoLineLost'
<1> SUFFICES ASSUME NEW f \in unsaved'
             PROVE  disk'[f] \in {"fresh", "aged"}
  BY DEF NoLineLost, W!OnDisk
<1>t. RotatorLives /\ ShippingTypes
  BY DEF ShippingInv
<1>1. CASE f \in unsaved
  <2>1. disk[f] \in {"fresh", "aged"}
    BY <1>1 DEF ShippingInv, NoLineLost, W!OnDisk
  <2>2. ~\E e \in batch : Removing(e) /\ e.path = f
    BY <1>1 DEF ShippingInv, StoredIsSaved, Removing
  <2>3. f \in File
    BY <1>1, <1>t DEF ShippingTypes
  <2> QED
    BY <1>t, <2>1, <2>2, <2>3, FilesStep
<1>2. CASE f \notin unsaved
  <2>1. PICK t \in Thread : f = current /\ Appends(t, current) /\ proc # "down"
    BY <1>2, UnsavedStep
  <2>2. CanGrow(current) /\ current # NoFile /\ current \in File
    BY <2>1, <1>t, AppendedGrows, LivesTyped DEF Appends, TypeOK
  <2>3. linked
    BY <2>2 DEF ShippingInv, UnlinkedIsDone
  <2> QED
    BY <1>2, <1>t, <2>1, <2>2, <2>3, UnsavedStep DEF ShippingTypes
<1> QED
  BY <1>1, <1>2

\* The program starts with an empty queue and one open file.
LEMMA ShippingInvInit == ShippingInit => ShippingInv
<1> SUFFICES ASSUME ShippingInit PROVE ShippingInv
  OBVIOUS
<1>1. RotatorInv /\ proc # "down"
  BY RotatorInvInit DEF ShippingInit, Init
<1>2. RotatorLives
  BY <1>1 DEF RotatorLives
<1>3. TypeOK /\ \A t \in Thread : pc[t] = "idle"
  BY <1>1 DEF RotatorInv, ShippingInit, RotatorInit
<1>4. ShippingTypes
  BY <1>3 DEF ShippingTypes, ShippingInit, W!QueueInit, W!QueueTypeOK, TypeOK
<1>5. \A f \in File : ~Known(f)
  BY DEF Known, ShippingInit, W!QueueInit, W!Tracked
<1>6. SteadyWrites /\ KnownIsPast /\ KnownIsFresh /\ StartedIsFresh
  BY <1>3, <1>5 DEF SteadyWrites, UnderWay, KnownIsPast, KnownIsFresh, StartedIsFresh, Thread
<1>7. WorkedIsDone /\ StoredIsSaved /\ UnlinkedIsDone /\ NoLineLost
  BY DEF ShippingInit, WorkedIsDone, StoredIsSaved, UnlinkedIsDone, NoLineLost
<1>8. RemovedIsDone
  BY DEF ShippingInit, RemovedIsDone
<1> QED
  BY <1>2, <1>4, <1>6, <1>7, <1>8 DEF ShippingInv

\* The parts together are inductive.
LEMMA ShippingInvStep ==
    ASSUME RepeatsAreSteady, ShippingInv, [ShippingNext]_vars
    PROVE  ShippingInv'
<1>1. RotatorLives /\ ShippingTypes /\ SteadyWrites /\ KnownIsPast
  BY DEF ShippingInv
<1>2. RotatorLives' /\ ShippingTypes' /\ SteadyWrites' /\ KnownIsPast'
  BY <1>1, RotatorLivesStep, ShippingTypesStep, SteadyWritesStep, KnownIsPastStep
<1>3. KnownIsFresh' /\ StartedIsFresh' /\ WorkedIsDone'
  BY KnownIsFreshStep, StartedIsFreshStep, WorkedIsDoneStep
<1>4. StoredIsSaved' /\ RemovedIsDone' /\ UnlinkedIsDone' /\ NoLineLost'
  BY StoredIsSavedStep, RemovedIsDoneStep, UnlinkedIsDoneStep, NoLineLostStep
<1> QED
  BY <1>2, <1>3, <1>4 DEF ShippingInv

\* Logger, queue, worker, administrators and process together keep the invariant,
\* through crashes and restarts.
THEOREM ShippingIsInvariant ==
    ASSUME RepeatsAreSteady
    PROVE  ShippingSpec => []ShippingInv
<1>1. ShippingInv /\ [ShippingNext]_vars => ShippingInv'
  BY ShippingInvStep
<1> QED
  BY <1>1, ShippingInvInit, PTL DEF ShippingSpec

\* From Write to the bucket no line is lost that was written: it is in a file in the
\* directory until it is in the bucket.  A Write that is held up for hours does not
\* change that, nor a crash, failed statements, opens and stats, or requests of
\* administrators.  A name that is used for two hours running does not either if in the
\* second one Writes end and the file can be opened, written and stat'ed.
THEOREM LinesAreKept ==
    ASSUME RepeatsAreSteady
    PROVE  ShippingSpec => []NoLineLost
<1>1. ShippingInv => NoLineLost
  BY DEF ShippingInv
<1> QED
  BY <1>1, ShippingIsInvariant, PTL

\* The logger does not create a file again that the worker has removed: its row would
\* say uploaded for ever, and the new lines never would be.  For a name that is used
\* again this needs all that steady asks of the second hour: one failing write leaves
\* the file old, one failing stat has it taken for closed, and it is removed in use.
THEOREM RemovedForGood ==
    ASSUME RepeatsAreSteady
    PROVE  ShippingSpec => RemovedNamesRetire
<1>1. ShippingInv /\ [ShippingNext]_vars =>
          [\A f \in File : disk[f] = "removed" => disk'[f] = "removed"]_vars
  <2> SUFFICES ASSUME ShippingInv, [ShippingNext]_vars, NEW f \in File, disk[f] = "removed"
               PROVE  disk'[f] = "removed"
    OBVIOUS
  <2>1. RotatorLives /\ ShippingTypes /\ ~CanGrow(f)
    BY DEF ShippingInv, RemovedIsDone
  <2> QED
    BY <2>1, FilesStep
<1> QED
  BY <1>1, ShippingIsInvariant, PTL DEF RemovedNamesRetire, ShippingSpec

\* Where every hour has a name of its own, both hold of the code as it is, whatever
\* opens, writes, stats and statements fail and however long a Write is held up.
THEOREM SingleNamesAreSafe ==
    ASSUME \A g, h \in Hour : NameOf[g] = NameOf[h] => g = h
    PROVE  ShippingSpec => []NoLineLost /\ RemovedNamesRetire
<1>1. \A g, h \in Hour : g < h => g # h
  BY RotatorAssumption DEF Hour, RotatorAssumption
<1>2. RepeatsAreSteady
  BY <1>1 DEF RepeatsAreSteady
<1> QED
  BY <1>2, LinesAreKept, RemovedForGood

=============================================================================
