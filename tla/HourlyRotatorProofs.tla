------------------------ MODULE HourlyRotatorProofs ------------------------
(***************************************************************************)
(* Theorems on HourlyRotator: for any number of goroutines, any names and  *)
(* any length of run, a line goes to the file of its hour and a file that  *)
(* was handed over is not written again.                                   *)
(***************************************************************************)
EXTENDS HourlyRotator, TLAPS

\* Write holds the mutex from its second instruction to its return.
InWrite(t) == pc[t] \in {"read clock", "compare", "open", "append"}

Exclusion == \A t \in Thread : InWrite(t) <=> holder = t

\* The hour of the file is never ahead of the clock, and behind it once a file was
\* closed and the next one not opened.
HourIsReached == IF current = NoFile THEN curHour < clock ELSE curHour <= clock

FileIsOfHour == current \in {NoFile, NameOf[curHour]}

\* What the holder of the mutex has found out so far: its hour is not before the
\* file's, and it is a later one if the file is to be opened.
ProgressOK(t) ==
    /\ now[t] <= clock
    /\ pc[t] = "compare" => IF current = NoFile THEN curHour < now[t] ELSE curHour <= now[t]
    /\ pc[t] = "open"    => current = NoFile /\ curHour < now[t]
    /\ pc[t] = "append"  => current = NameOf[curHour] /\ curHour = now[t]

\* A callback has been started only for a file that is closed.
CallbacksAreLate ==
    \A h \in Hour : pc[h] # "idle" => h < curHour \/ (h = curHour /\ current = NoFile)

RotatorInv ==
    /\ TypeOK
    /\ Exclusion
    /\ HourIsReached
    /\ FileIsOfHour
    /\ \A t \in Thread : ProgressOK(t)
    /\ CallbacksAreLate

\* The types a step starts from, as numbers and functions.
LEMMA RotatorFacts ==
    ASSUME TypeOK
    PROVE  /\ LastHour \in Nat /\ clock \in Nat /\ curHour \in Nat
           /\ \A t \in Thread : now[t] \in Nat
           /\ DOMAIN pc = Thread /\ DOMAIN now = Thread
           /\ NameOf[curHour] \in File
           /\ Nobody \notin Thread
           /\ Hour \subseteq Thread /\ Writer \subseteq Thread /\ Hour \subseteq Nat
           /\ NoFile \notin File
  BY RotatorAssumption DEF RotatorAssumption, TypeOK, Thread, Hour

LEMMA RotatorInvInit == Init => RotatorInv
<1> SUFFICES ASSUME Init PROVE RotatorInv
  OBVIOUS
<1>1. /\ clock \in Hour /\ clock \in Nat /\ 0 \in Hour /\ NameOf[clock] \in File /\ NoFile \notin File
      /\ Nobody \notin Thread
  BY RotatorAssumption DEF RotatorAssumption, Init, RotatorInit, Hour
<1>2. \A t \in Thread : pc[t] = "idle" /\ now[t] = 0
  BY DEF Init, RotatorInit
<1>3. TypeOK
  BY <1>1 DEF Init, RotatorInit, TypeOK, Instructions
<1>4. Exclusion
  BY <1>1, <1>2 DEF Init, RotatorInit, Exclusion, InWrite
<1>5. HourIsReached /\ FileIsOfHour
  BY <1>1 DEF Init, RotatorInit, HourIsReached, FileIsOfHour
<1>6. \A t \in Thread : ProgressOK(t)
  BY <1>1, <1>2 DEF ProgressOK
<1>7. CallbacksAreLate
  BY <1>2 DEF CallbacksAreLate, Thread
<1> QED
  BY <1>3, <1>4, <1>5, <1>6, <1>7 DEF RotatorInv

\* The steps of Write keep the invariant.
LEMMA WriteKeepsInv ==
    ASSUME RotatorInv, NEW t \in Thread, WriteStep(t)
    PROVE  RotatorInv'
<1>t. /\ TypeOK /\ Exclusion /\ HourIsReached /\ FileIsOfHour /\ CallbacksAreLate
      /\ \A u \in Thread : ProgressOK(u)
  BY DEF RotatorInv
<1>f. /\ LastHour \in Nat /\ clock \in Nat /\ curHour \in Nat
      /\ \A u \in Thread : now[u] \in Nat
      /\ DOMAIN pc = Thread /\ DOMAIN now = Thread
      /\ NameOf[curHour] \in File
      /\ Nobody \notin Thread
      /\ Hour \subseteq Thread /\ Writer \subseteq Thread /\ Hour \subseteq Nat
      /\ NoFile \notin File
  BY <1>t, RotatorFacts
<1>1. CASE Lock(t)
  <2>1. TypeOK'
    BY <1>1, <1>t DEF Lock, TypeOK, Instructions
  <2>2. Exclusion'
    BY <1>1, <1>t, <1>f DEF Lock, Exclusion, InWrite
  <2>3. HourIsReached' /\ FileIsOfHour'
    BY <1>1, <1>t DEF Lock, HourIsReached, FileIsOfHour
  <2>4. \A u \in Thread : ProgressOK(u)'
    BY <1>1, <1>t, <1>f DEF Lock, ProgressOK
  <2>5. CallbacksAreLate'
    BY <1>1, <1>t, <1>f DEF Lock, CallbacksAreLate
  <2> QED
    BY <2>1, <2>2, <2>3, <2>4, <2>5 DEF RotatorInv
<1>2. CASE ReadClock(t)
  <2>1. TypeOK'
    BY <1>2, <1>t DEF ReadClock, TypeOK, Instructions
  <2>2. Exclusion'
    BY <1>2, <1>t, <1>f DEF ReadClock, Exclusion, InWrite
  <2>3. HourIsReached' /\ FileIsOfHour'
    BY <1>2, <1>t DEF ReadClock, HourIsReached, FileIsOfHour
  <2>4. \A u \in Thread : ProgressOK(u)'
    <3>1. now'[t] = clock /\ pc'[t] = "compare"
      BY <1>2, <1>f DEF ReadClock
    <3>2. ProgressOK(t)'
      <4>1. clock \in Nat /\ UNCHANGED <<clock, current, curHour>>
        BY <1>2, <1>f DEF ReadClock
      <4>2. IF current = NoFile THEN curHour < clock ELSE curHour <= clock
        BY <1>t DEF HourIsReached
      <4> QED
        BY <3>1, <4>1, <4>2 DEF ProgressOK
    <3>3. ASSUME NEW u \in Thread \ {t} PROVE ProgressOK(u)'
      <4>1. now'[u] = now[u] /\ pc'[u] = pc[u]
        BY <1>2, <1>f DEF ReadClock
      <4> QED
        BY <1>2, <1>t, <4>1 DEF ReadClock, ProgressOK
    <3> QED
      BY <3>2, <3>3
  <2>5. CallbacksAreLate'
    BY <1>2, <1>t, <1>f DEF ReadClock, CallbacksAreLate
  <2> QED
    BY <2>1, <2>2, <2>3, <2>4, <2>5 DEF RotatorInv
<1>3. CASE SameHour(t)
  <2>1. TypeOK'
    BY <1>3, <1>t DEF SameHour, TypeOK, Instructions
  <2>2. Exclusion'
    BY <1>3, <1>t, <1>f DEF SameHour, Exclusion, InWrite
  <2>3. HourIsReached' /\ FileIsOfHour'
    BY <1>3, <1>t DEF SameHour, HourIsReached, FileIsOfHour
  <2>4. \A u \in Thread : ProgressOK(u)'
    BY <1>3, <1>t, <1>f DEF SameHour, ProgressOK, FileIsOfHour
  <2>5. CallbacksAreLate'
    BY <1>3, <1>t, <1>f DEF SameHour, CallbacksAreLate
  <2> QED
    BY <2>1, <2>2, <2>3, <2>4, <2>5 DEF RotatorInv
<1>4. CASE CloseOld(t)
  <2>1. /\ curHour < now[t] /\ now[t] <= clock /\ current' = NoFile
        /\ holder = t /\ curHour \in Thread
    <3>1. pc[t] = "compare" /\ now[t] # curHour /\ current' = NoFile
      BY <1>4 DEF CloseOld
    <3>2. curHour < now[t] /\ now[t] <= clock
      BY <1>t, <1>f, <3>1 DEF ProgressOK
    <3>3. holder = t /\ curHour \in Thread
      BY <1>t, <1>f, <3>1 DEF Exclusion, InWrite, TypeOK
    <3> QED
      BY <3>1, <3>2, <3>3
  <2>2. \A u \in Thread : pc'[u] = CASE u = t -> "open"
                                     [] u = curHour /\ current # NoFile -> "lock"
                                     [] OTHER -> pc[u]
    BY <1>4 DEF CloseOld
  <2>3. TypeOK'
    BY <1>4, <1>t DEF CloseOld, TypeOK, Instructions
  <2>4. Exclusion'
    <3>1. \A u \in Thread : u = curHour /\ current # NoFile => ~InWrite(u)
      <4>1. curHour \in Hour /\ ~(curHour < curHour)
        BY <1>t, <1>f DEF TypeOK
      <4>2. current # NoFile => pc[curHour] = "idle"
        BY <1>t, <4>1 DEF CallbacksAreLate
      <4> QED
        BY <4>2 DEF InWrite
    <3> QED
      BY <1>4, <1>t, <1>f, <2>1, <2>2, <3>1 DEF CloseOld, Exclusion, InWrite
  <2>5. HourIsReached' /\ FileIsOfHour'
    BY <1>4, <1>f, <2>1 DEF CloseOld, HourIsReached, FileIsOfHour
  <2>6. \A u \in Thread : ProgressOK(u)'
    <3>1. \A u \in Thread \ {t} : pc'[u] \notin {"compare", "open", "append"}
      BY <1>t, <1>f, <2>1, <2>2 DEF Exclusion, InWrite
    <3> QED
      BY <1>4, <1>t, <2>1, <2>2, <3>1 DEF CloseOld, ProgressOK
  <2>7. CallbacksAreLate'
    BY <1>4, <1>t, <1>f, <2>1, <2>2 DEF CloseOld, CallbacksAreLate
  <2> QED
    BY <2>3, <2>4, <2>5, <2>6, <2>7 DEF RotatorInv
<1>5. CASE OpenNew(t)
  <2>1. /\ curHour < now[t] /\ now[t] <= clock /\ now[t] \in Hour /\ holder = t
        /\ curHour' = now[t] /\ current' = NameOf[now[t]] /\ current' \in File
    BY <1>5, <1>t, <1>f, RotatorAssumption
    DEF OpenNew, ProgressOK, Exclusion, InWrite, TypeOK, RotatorAssumption
  <2>2. TypeOK'
    BY <1>5, <1>t, <2>1 DEF OpenNew, TypeOK, Instructions
  <2>3. Exclusion'
    BY <1>5, <1>t, <1>f DEF OpenNew, Exclusion, InWrite
  <2>4. HourIsReached' /\ FileIsOfHour'
    BY <1>5, <1>f, <2>1 DEF OpenNew, HourIsReached, FileIsOfHour
  <2>5. \A u \in Thread : ProgressOK(u)'
    <3>1. \A u \in Thread \ {t} : pc'[u] \notin {"compare", "open", "append"}
      BY <1>5, <1>t, <1>f, <2>1 DEF OpenNew, Exclusion, InWrite
    <3> QED
      BY <1>5, <1>t, <1>f, <2>1, <3>1 DEF OpenNew, ProgressOK
  <2>6. CallbacksAreLate'
    BY <1>5, <1>t, <1>f, <2>1 DEF OpenNew, CallbacksAreLate
  <2> QED
    BY <2>2, <2>3, <2>4, <2>5, <2>6 DEF RotatorInv
<1>6. CASE Return(t) /\ UNCHANGED <<clock, current, curHour, shut, told>> /\ pc[t] \in {"open", "append"}
  <2>1. /\ pc'[t] \in {"idle", "done", "enqueue"}
        /\ pc' = [pc EXCEPT ![t] = pc'[t]]
        /\ t \in Hour => pc'[t] # "idle"
    BY <1>6, <1>f, RotatorAssumption DEF Return, RotatorAssumption
  <2>2. TypeOK'
    <3>1. pc' \in [Thread -> Instructions]
      BY <1>t, <2>1 DEF TypeOK, Instructions
    <3>2. now' \in [Thread -> Hour]
      <4>1. 0 \in Hour
        BY <1>f DEF Hour
      <4> QED
        BY <1>6, <1>t, <4>1 DEF Return, TypeOK
    <3> QED
      BY <1>6, <1>t, <3>1, <3>2 DEF Return, TypeOK
  <2>3. Exclusion'
    BY <1>6, <1>t, <1>f, <2>1 DEF Return, Exclusion, InWrite
  <2>4. HourIsReached' /\ FileIsOfHour'
    BY <1>6, <1>t DEF HourIsReached, FileIsOfHour
  <2>5. \A u \in Thread : ProgressOK(u)'
    BY <1>6, <1>t, <1>f, <2>1 DEF Return, ProgressOK
  <2>6. CallbacksAreLate'
    BY <1>6, <1>t, <1>f, <2>1 DEF CallbacksAreLate
  <2> QED
    BY <2>2, <2>3, <2>4, <2>5, <2>6 DEF RotatorInv
<1> QED
  BY <1>1, <1>2, <1>3, <1>4, <1>5, <1>6 DEF WriteStep, OpenFails, Append

LEMMA RotatorInvStep == RotatorInv /\ [Next]_rotatorVars => RotatorInv'
<1> SUFFICES ASSUME RotatorInv, [Next]_rotatorVars PROVE RotatorInv'
  OBVIOUS
<1>t. /\ TypeOK /\ Exclusion /\ HourIsReached /\ FileIsOfHour /\ CallbacksAreLate
      /\ \A u \in Thread : ProgressOK(u)
  BY DEF RotatorInv
<1>f. /\ LastHour \in Nat /\ clock \in Nat /\ curHour \in Nat
      /\ \A u \in Thread : now[u] \in Nat
      /\ DOMAIN pc = Thread
      /\ Hour \subseteq Thread /\ Writer \subseteq Thread /\ Writer \cap Hour = {}
  BY <1>t, RotatorFacts, RotatorAssumption DEF RotatorAssumption
<1>1. ASSUME NEW t \in Thread, NEW i \in {"lock", "done"}, pc[t] \in {"idle", "enqueue"},
             t \in Hour => pc[t] # "idle", pc' = [pc EXCEPT ![t] = i],
             told' \subseteq Hour, UNCHANGED <<clock, holder, now, current, curHour, shut>>
      PROVE  RotatorInv'
  <2>1. TypeOK'
    BY <1>1, <1>t DEF TypeOK, Instructions
  <2>2. Exclusion'
    BY <1>1, <1>t, <1>f DEF Exclusion, InWrite
  <2>3. HourIsReached' /\ FileIsOfHour'
    BY <1>1, <1>t DEF HourIsReached, FileIsOfHour
  <2>4. \A u \in Thread : ProgressOK(u)'
    BY <1>1, <1>t, <1>f DEF ProgressOK
  <2>5. CallbacksAreLate'
    BY <1>1, <1>t, <1>f DEF CallbacksAreLate
  <2> QED
    BY <2>1, <2>2, <2>3, <2>4, <2>5 DEF RotatorInv
<1>2. ASSUME NEW w \in Writer, StartWrite(w) PROVE RotatorInv'
  BY <1>1, <1>2, <1>f, <1>t DEF StartWrite, TypeOK
<1>3. ASSUME NEW h \in Hour, EnqueueOk(h) \/ EnqueueErr(h) PROVE RotatorInv'
  <2>1. /\ h \in Thread /\ pc[h] = "enqueue" /\ told' \subseteq Hour
        /\ UNCHANGED <<clock, holder, now, current, curHour, shut>>
    BY <1>3, <1>f, <1>t DEF EnqueueOk, EnqueueErr, TypeOK
  <2>2. PICK i \in {"lock", "done"} : pc' = [pc EXCEPT ![h] = i]
    BY <1>3 DEF EnqueueOk, EnqueueErr
  <2> QED
    BY <1>1, <2>1, <2>2
<1>4. CASE CloseLogger
  BY <1>4, <1>t DEF CloseLogger, RotatorInv, TypeOK, Exclusion, InWrite, HourIsReached,
                    FileIsOfHour, ProgressOK, CallbacksAreLate
<1>5. CASE NextHour
  <2>1. clock' \in Hour /\ clock' = clock + 1
    BY <1>5, <1>f DEF NextHour, Hour
  <2>2. TypeOK' /\ Exclusion' /\ FileIsOfHour' /\ CallbacksAreLate'
    BY <1>5, <1>t, <2>1 DEF NextHour, TypeOK, Exclusion, InWrite, FileIsOfHour, CallbacksAreLate
  <2>3. HourIsReached' /\ \A u \in Thread : ProgressOK(u)'
    BY <1>5, <1>t, <1>f, <2>1 DEF NextHour, HourIsReached, ProgressOK
  <2> QED
    BY <2>2, <2>3 DEF RotatorInv
<1>6. CASE UNCHANGED rotatorVars
  BY <1>6, <1>t DEF rotatorVars, RotatorInv, TypeOK, Exclusion, InWrite, HourIsReached,
                    FileIsOfHour, ProgressOK, CallbacksAreLate
<1> QED
  BY <1>2, <1>3, <1>4, <1>5, <1>6, WriteKeepsInv DEF Next

\* Write, the callbacks, Close and the clock keep all of it: what the mutex, the
\* hours and the open file have to do with each other is inductive.
THEOREM RotatorIsInvariant == Spec => []RotatorInv
  BY RotatorInvInit, RotatorInvStep, PTL DEF Spec

----------------------------------------------------------------------------
\* Clock, mutex, threads and file keep their types for any length of run.
THEOREM RotatorTypeCorrect == Spec => []TypeOK
<1>1. RotatorInv => TypeOK
  BY DEF RotatorInv
<1> QED
  BY <1>1, RotatorIsInvariant, PTL

\* At most one goroutine is between the lock and the return of Write, callbacks
\* included.
THEOREM WritesExclude == Spec => [](\A t, u \in Thread : InWrite(t) /\ InWrite(u) => t = u)
<1>1. RotatorInv => \A t, u \in Thread : InWrite(t) /\ InWrite(u) => t = u
  BY DEF RotatorInv, Exclusion
<1> QED
  BY <1>1, RotatorIsInvariant, PTL

\* A line is appended to the file of the hour its Write read.
THEOREM LinesGoToTheirHour == Spec => []LineInItsHour
<1>1. RotatorInv => LineInItsHour
  BY DEF RotatorInv, ProgressOK, LineInItsHour
<1> QED
  BY <1>1, RotatorIsInvariant, PTL

\* A file whose callback has started is not written again, unless a later hour has
\* its name.
THEOREM HandedOverForGood == Spec => []HandedOverIsFinal
<1>1. RotatorInv => HandedOverIsFinal
  <2> SUFFICES ASSUME RotatorInv, NEW h \in Hour, NEW t \in Thread, pc[h] # "idle",
                      \A g \in Hour : g > h => NameOf[g] # NameOf[h],
                      Appends(t, NameOf[h])
               PROVE  FALSE
    BY DEF HandedOverIsFinal
  <2>1. curHour \in Hour /\ curHour \in Nat /\ h \in Nat
    BY RotatorFacts DEF RotatorInv, TypeOK
  <2>2. current = NameOf[h] /\ current # NoFile /\ current = NameOf[curHour]
    BY DEF RotatorInv, ProgressOK, Appends
  <2>3. h < curHour
    BY <2>2 DEF RotatorInv, CallbacksAreLate
  <2> QED
    BY <2>1, <2>2, <2>3
<1> QED
  BY <1>1, RotatorIsInvariant, PTL

\* go onRotate(old) starts a thread that has never run: no file is given to two
\* callbacks, which is also why a callback can be named after its hour.
OneCallbackPerFile ==
    [][\A t \in Thread : CloseOld(t) /\ current # NoFile => pc[curHour] = "idle"]_rotatorVars

\* A rotation never closes the file of an hour whose callback has already run.
THEOREM FilesAreHandedOverOnce == Spec => OneCallbackPerFile
<1>1. RotatorInv => (current # NoFile => pc[curHour] = "idle")
  <2> SUFFICES ASSUME RotatorInv, current # NoFile PROVE pc[curHour] = "idle"
    OBVIOUS
  <2>1. curHour \in Hour /\ ~(curHour < curHour)
    BY RotatorFacts DEF RotatorInv, TypeOK
  <2> QED
    BY <2>1 DEF RotatorInv, CallbacksAreLate
<1>2. RotatorInv => [\A t \in Thread : CloseOld(t) /\ current # NoFile => pc[curHour] = "idle"]_rotatorVars
  BY <1>1
<1> QED
  BY <1>2, RotatorIsInvariant, PTL DEF OneCallbackPerFile

=============================================================================
