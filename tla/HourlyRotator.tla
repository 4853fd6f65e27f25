--------------------------- MODULE HourlyRotator ---------------------------
(***************************************************************************)
(* The log file of the current hour, pkg/logger/logger.go.  Every line of  *)
(* every goroutine goes through Write, which under a mutex looks at the    *)
(* clock, changes files when the hour has changed, and appends.  The file  *)
(* that was closed is given to onRotate on a goroutine of its own, and     *)
(* onRotate (cmd/server/main.go) logs a line itself - through this same    *)
(* Write - before it enqueues the file for upload.                         *)
(*                                                                         *)
(* The clock counts hours and does not go back.  Names carry the local     *)
(* hour, so two hours may share a name when daylight saving time ends.     *)
(***************************************************************************)
EXTENDS Integers

CONSTANTS
    Writer,       \* goroutines that log lines
    LastHour,     \* bound on the clock
    File,         \* the names log files can have
    NameOf,       \* the file of each hour
    NoFile,       \* no file is open
    Nobody,       \* the mutex is free
    OpenMayFail   \* may os.OpenFile fail (full disk, permissions)

Hour == 0..LastHour

\* An onRotate goroutine is named after the hour of the file it was given: a
\* file is opened once for an hour and so closed once for it.
Thread == Writer \cup Hour

ASSUME RotatorAssumption ==
    /\ LastHour \in Nat
    /\ Writer \cap Hour = {}
    /\ NameOf \in [Hour -> File]
    /\ NoFile \notin File
    /\ Nobody \notin Thread
    /\ OpenMayFail \in BOOLEAN

VARIABLES
    clock,        \* the hour it is
    holder,       \* who holds the mutex
    pc,           \* per thread: the instruction it executes next
    now,          \* per thread: the hour its Write has read; 0 outside Write
    current,      \* currentFile: its name, or NoFile
    curHour,      \* currentHour
    shut,         \* Close was called on the open file
    told          \* callbacks that have called Enqueue

rotatorVars == <<clock, holder, pc, now, current, curHour, shut, told>>

\* NewHourlyRotator opens the file of the hour the program starts in.
RotatorInit ==
    /\ clock \in Hour
    /\ holder = Nobody
    /\ pc = [t \in Thread |-> "idle"]
    /\ now = [t \in Thread |-> 0]
    /\ current = NameOf[clock]
    /\ curHour = clock
    /\ shut = FALSE
    /\ told = {}

----------------------------------------------------------------------------
(* Write, called by a goroutine of the program or by a callback.           *)

StartWrite(w) ==
    /\ pc[w] = "idle"
    /\ pc' = [pc EXCEPT ![w] = "lock"]
    /\ UNCHANGED <<clock, holder, now, current, curHour, shut, told>>

\* Mutant: Write takes the read lock, which writers share.
Lock_Shared(t) ==
    /\ pc[t] = "lock"
    /\ holder' = t
    /\ pc' = [pc EXCEPT ![t] = "read clock"]
    /\ UNCHANGED <<clock, now, current, curHour, shut, told>>

Lock(t) ==
    /\ pc[t] = "lock"
    /\ holder = Nobody
    /\ holder' = t
    /\ pc' = [pc EXCEPT ![t] = "read clock"]
    /\ UNCHANGED <<clock, now, current, curHour, shut, told>>

ReadClock(t) ==
    /\ pc[t] = "read clock"
    /\ now' = [now EXCEPT ![t] = clock]
    /\ pc' = [pc EXCEPT ![t] = "compare"]
    /\ UNCHANGED <<clock, holder, current, curHour, shut, told>>

SameHour(t) ==
    /\ pc[t] = "compare"
    /\ now[t] = curHour
    /\ pc' = [pc EXCEPT ![t] = "append"]
    /\ UNCHANGED <<clock, holder, now, current, curHour, shut, told>>

\* Mutant: the error of closing a shut file skips the callback.
CloseOld_MindsError(t) ==
    /\ pc[t] = "compare"
    /\ now[t] # curHour
    /\ pc' = [u \in Thread |->
                  CASE u = t -> "open"
                    [] u = curHour /\ current # NoFile /\ ~shut -> "lock"
                    [] OTHER -> pc[u]]
    /\ current' = NoFile
    /\ UNCHANGED <<clock, holder, now, curHour, shut, told>>

\* rotate, first half: close the file, if one is open, and start its callback.
\* Close fails on a file that is shut already; the error is not looked at.
CloseOld(t) ==
    /\ pc[t] = "compare"
    /\ now[t] # curHour
    /\ pc' = [u \in Thread |-> CASE u = t -> "open"
                                 [] u = curHour /\ current # NoFile -> "lock"
                                 [] OTHER -> pc[u]]
    /\ current' = NoFile
    /\ UNCHANGED <<clock, holder, now, curHour, shut, told>>

\* Mutant: the hour is rounded up when it is stored.
OpenNew_RoundsUp(t) ==
    /\ pc[t] = "open"
    /\ current' = NameOf[now[t]]
    /\ curHour' = now[t] + 1
    /\ shut' = FALSE
    /\ pc' = [pc EXCEPT ![t] = "append"]
    /\ UNCHANGED <<clock, holder, now, told>>

\* rotate, second half: open or create the file of the new hour.
OpenNew(t) ==
    /\ pc[t] = "open"
    /\ current' = NameOf[now[t]]
    /\ curHour' = now[t]
    /\ shut' = FALSE
    /\ pc' = [pc EXCEPT ![t] = "append"]
    /\ UNCHANGED <<clock, holder, now, told>>

\* Write returns and unlocks; a callback goes on to Enqueue, or is finished
\* when this was the line about an Enqueue that failed.
Return(t) ==
    /\ holder' = Nobody
    /\ now' = [now EXCEPT ![t] = 0]
    /\ pc' = [pc EXCEPT ![t] = CASE t \in Writer -> "idle"
                                 [] t \in told   -> "done"
                                 [] OTHER        -> "enqueue"]

\* Mutant: currentHour is set before the file is opened.
OpenFails_HourSet(t) ==
    /\ OpenMayFail
    /\ pc[t] = "open"
    /\ Return(t)
    /\ curHour' = now[t]
    /\ UNCHANGED <<clock, current, shut, told>>

\* Mutant: Write tries again until the file can be opened.
OpenFails_Retries(t) ==
    /\ OpenMayFail
    /\ pc[t] = "open"
    /\ pc' = [pc EXCEPT ![t] = "read clock"]
    /\ UNCHANGED <<clock, holder, now, current, curHour, shut, told>>

\* currentFile and currentHour keep the values they had: no file, an old hour.
OpenFails(t) ==
    /\ OpenMayFail
    /\ pc[t] = "open"
    /\ Return(t)
    /\ UNCHANGED <<clock, current, curHour, shut, told>>

\* currentFile.Write goes to the open file f.
Appends(t, f) == pc[t] = "append" /\ current = f /\ f # NoFile /\ ~shut

\* Whatever currentFile.Write answers is returned: a write that fails, because
\* the file is shut or the disk is full, changes nothing here either.
Append(t) ==
    /\ pc[t] = "append"
    /\ Return(t)
    /\ UNCHANGED <<clock, current, curHour, shut, told>>

WriteStep(t) ==
    \/ Lock(t) \/ ReadClock(t) \/ SameHour(t) \/ CloseOld(t)
    \/ OpenNew(t) \/ OpenFails(t) \/ Append(t)

----------------------------------------------------------------------------
(* onRotate, and Close.                                                    *)

\* The file of hour h is enqueued, or that fails and an error is logged.
EnqueueOk(h) ==
    /\ pc[h] = "enqueue"
    /\ pc' = [pc EXCEPT ![h] = "done"]
    /\ told' = told \cup {h}
    /\ UNCHANGED <<clock, holder, now, current, curHour, shut>>

EnqueueErr(h) ==
    /\ pc[h] = "enqueue"
    /\ pc' = [pc EXCEPT ![h] = "lock"]
    /\ told' = told \cup {h}
    /\ UNCHANGED <<clock, holder, now, current, curHour, shut>>

\* Close, by the signal handler or a deferred call: takes and frees the mutex
\* in one step since it looks at nothing in between.
CloseLogger ==
    /\ holder = Nobody
    /\ current # NoFile
    /\ shut' = TRUE
    /\ UNCHANGED <<clock, holder, pc, now, current, curHour, told>>

NextHour ==
    /\ clock < LastHour
    /\ clock' = clock + 1
    /\ UNCHANGED <<holder, pc, now, current, curHour, shut, told>>

----------------------------------------------------------------------------
Init == RotatorInit

Next ==
    \/ \E w \in Writer : StartWrite(w)
    \/ \E t \in Thread : WriteStep(t)
    \/ \E h \in Hour : EnqueueOk(h) \/ EnqueueErr(h)
    \/ CloseLogger
    \/ NextHour

Spec == Init /\ [][Next]_rotatorVars

\* Go's mutex hands itself over to a waiter that starves, and every goroutine
\* that can run does.
FairSpec ==
    /\ Spec
    /\ \A t \in Thread : SF_rotatorVars(Lock(t)) /\ WF_rotatorVars(WriteStep(t))
    /\ \A h \in Hour : WF_rotatorVars(EnqueueOk(h) \/ EnqueueErr(h))

----------------------------------------------------------------------------
(* Properties.                                                             *)

Instructions == {"idle", "lock", "read clock", "compare", "open", "append",
                 "enqueue", "done"}

TypeOK ==
    /\ clock \in Hour
    /\ holder \in Thread \cup {Nobody}
    /\ pc \in [Thread -> Instructions]
    /\ now \in [Thread -> Hour]
    /\ current \in File \cup {NoFile}
    /\ curHour \in Hour
    /\ shut \in BOOLEAN
    /\ told \subseteq Hour

\* A line goes to the file of the hour its Write read, and to an open file,
\* also after rotations that failed half-way and with other writers, callbacks
\* and Close in between.
LineInItsHour ==
    \A t \in Thread : pc[t] = "append" => current = NameOf[now[t]]

\* The last hour's file is final: once its callback has started nobody writes
\* to it again, so the uploader may read and remove it, unless a later hour
\* has the same name.
HandedOverIsFinal ==
    \A h \in Hour : \A t \in Thread :
        /\ pc[h] # "idle"
        /\ \A g \in Hour : g > h => NameOf[g] # NameOf[h]
        => ~Appends(t, NameOf[h])

\* Every Write returns: in particular a callback, which is started with the
\* mutex held and logs a line first thing, blocks neither itself nor others.
WritesReturn ==
    \A t \in Thread : pc[t] = "lock" ~> pc[t] \in {"idle", "enqueue", "done"}

IsCurrent(h) == curHour = h /\ current # NoFile

\* A file that is not the current one any more is given to Enqueue; no rotation
\* forgets the file it closed, also when it cannot open the next one or when
\* the file was shut before.
ClosedIsHandedOver ==
    \A h \in Hour : IsCurrent(h) ~> (h \in told \/ []IsCurrent(h))

=============================================================================
