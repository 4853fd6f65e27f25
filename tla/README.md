# A TLA+ model of mangosteen

Mangosteen is an identity server: accounts with attributes, JWTs, an admin
console, and log files that are rotated every hour and shipped to S3.  This
directory holds TLA+ modules translated from its source, the TLC configurations
that check them on small instances, and proofs for TLAPS.  Paths below are
relative to the repository root.

    tlc -config Worker_faults.cfg UploadWorker       # one run
    tlapm UploadWorkerProofs.tla                     # proofs of one module

## 1. Inventory

### Parts, their state and their operations

| part | code | state | operations |
|---|---|---|---|
| upload queue | `pkg/queue` | table `log_uploads` in `./data/queue.db` | Enqueue, GetPending, GetFailedPermanent, MarkUploading, MarkUploaded, MarkFailed, ResetForRetry, Delete |
| upload worker | `pkg/worker` | the batch at hand, a context | run (poll now, then at every tick), processBatch, Stop, RetryFailedPermanent |
| hourly rotator | `pkg/logger` | open file, its hour, a mutex | Write, rotate, Close |
| server process | `cmd/server` | goroutines, deferred calls | start, administrator bootstrap, onRotate, signal, exit |
| admin API | `internal/admin` | none | stats, retry |
| accounts | `internal/user`, `sql/` | tables `users`, `user_attributes` | PATCH, role, activate, deactivate, delete, attributes |
| authentication | `internal/auth` (service, repository, handler) | table `refresh_tokens` | register, login, refresh, logout |
| JWT manager | `internal/auth/jwt.go` | up to three keys, the active kid, a RWMutex | issue, validate, JWKS, RotateKeys |
| middleware | `internal/middleware` | none | RequireAuth, RequireAdmin |
| crown console | `internal/crown` | cookies | login, logout, user pages |
| the rest | `pkg/crypto`, `pkg/cache`, `internal/health`, `config`, templates | none that changes | hashing, an unused cache client, probes, configuration |

### How they interact

    every goroutine --log line--> HourlyRotator.Write
                                      | hour changed: go onRotate(old file)
                                      v
                       onRotate --logs a line, then--> Queue.Enqueue
                                                          |
    worker goroutine --GetPending, Mark*--> log_uploads <-'<--ResetForRetry, Delete-- POST /admin/logs/retry
          |  stat, upload, remove
          v
      log directory, S3 bucket

    HTTP goroutines --one SQL statement at a time--> users, user_attributes, refresh_tokens
          | let in by RequireAuth, RequireAdmin: Validate of a token
          v
    JWTManager (keys, RWMutex) <--IssueAccess, IssueRefresh-- SignIn
          ^
          '--Validate-- console pages <--cookie, redirects--> browser

The rotator and the worker share the log directory and nothing else: the worker
works by *name* and by the age of the last modification, the rotator appends
through an *open descriptor*.  The worker, the callbacks and the retry handlers
share the queue's table; each statement is atomic, no transaction spans two, and
each of the three works from what an earlier statement told it.  The same holds
of the HTTP requests on the account tables, and of SignIn, which signs what it
read before it checked the password.  A token says what was true when it was
signed; the middleware and the console ask the key ring about it and nobody
else.  The signal goroutine cancels the
worker's context without waiting, closes the log file and shuts the listener
down; `main` then runs its deferred calls (the queue is closed) and exits.

### What is hard, and what makes each part correct

* Queue and worker: listings that outlive their rows; attempts cut short by
  statements that fail, by a shutdown or a crash; overlapping retry requests;
  `LIMIT 10`.  Correct: failures are counted right, three of them give a file
  up, `uploaded` means uploaded, nothing is removed before it is stored, every
  enqueued file is settled, no attempt hangs for ever.
* Rotator: writers racing with the change of the file; a callback that logs;
  an open that fails half-way.  Correct: a line goes to the file of its hour, a
  file that was given away is final, every file is given away, nobody blocks.
* Rotator and worker together: late writers, repeated names, restarts.
  Correct: a file with lines the bucket lacks is never removed.
* Accounts: lookups that are stale when the write comes.  Correct: one account
  per email, what was deleted or deactivated stays so.
* Sessions: claims that outlive the row they were read from, statements that
  fail between two signatures and the answer.  Correct: what an unexpired token
  that was handed out says was true within one lifetime; who holds a refresh token
  has a row for it.
* Keys: rotations, restarts with fresh kids, expiry.  Correct: a token is good
  for as long as the ring promises and, once refused, never again.
* Console: tabs that share a cookie, two pages that redirect to each other, a
  browser that may keep a cookie the server cleared.  Correct: a visit ends,
  unless other tabs keep signing in and out.

`PROJECT.json` lists every hazard with its line and the properties about it.

## 2. Modules

| module | models | uses |
|---|---|---|
| `UploadQueue` | `pkg/queue`: the table and its statements | |
| `UploadWorker` | worker, callback, retry requests, process | EXTENDS `UploadQueue` |
| `UploadLifecycle` | what queue and worker promise about one file | |
| `UploadWorkerProofs` | theorems on `UploadWorker` | EXTENDS `UploadWorker`, `TLAPS` |
| `UploadRefinementProofs` | that it implements `UploadLifecycle` | EXTENDS `UploadWorkerProofs` |
| `HourlyRotator` | `pkg/logger`: the file of the hour | |
| `HourlyRotatorProofs` | theorems on `HourlyRotator` | EXTENDS `HourlyRotator`, `TLAPS` |
| `LogShipping` | rotator and uploader in one process | EXTENDS `HourlyRotator`, INSTANCE `UploadWorker` |
| `ShippingProofs` | theorems on `LogShipping` | EXTENDS `LogShipping`, `HourlyRotatorProofs`, INSTANCE `UploadWorkerProofs` |
| `Accounts` | `users`, `user_attributes` and the requests that change them, bootstrap | |
| `AccountsProofs` | theorems on `Accounts` | EXTENDS `Accounts`, `TLAPS` |
| `KeyRing` | `internal/auth/jwt.go`: the keys, the tokens, Validate | |
| `KeyRingProofs` | theorems on `KeyRing` | EXTENDS `KeyRing`, `TLAPS` |
| `Sessions` | sign-in, refresh, middleware, over accounts and keys | EXTENDS `KeyRing`, INSTANCE `Accounts` |
| `SessionsProofs` | theorems on `Sessions` | EXTENDS `Sessions`, `KeyRingProofs`, INSTANCE `AccountsProofs` |
| `Console` | `internal/crown` and the browser in front of it | EXTENDS `KeyRing` |
| `ConsoleProofs` | theorems on `Console` | EXTENDS `Console`, `KeyRingProofs` |
| `MC...` | instances for TLC: symmetry sets, the file names of the hours, the claims | EXTENDS the module |

Operators named after a definition with a suffix (`Enqueue_NoCount`) are mutants:
the definition with a plausible bug, against which a property is tested.

### UploadQueue and UploadWorker

`rows` is the table, a function from ids to records of the three columns a
statement looks at (path, status, retry_count); `lastId` is AUTOINCREMENT's
counter.  A statement `UPDATE ... WHERE id = ?` on a row that is gone changes
nothing and is no error, as in SQLite.  `ORDER BY created_at` is taken as the
order of ids; `created_at` has a resolution of seconds, and ties are broken by
SQLite as it likes, which only matters for who comes first.

Every call that leaves the process is a step of its own: `wpc` is the call the
worker makes next, `batch` the entries it has yet to finish.  `Poll` is
GetPending; `CheckFile` is isFileClosed; `StartAttempt`, `RecordFailure`,
`RecordSuccess` are the Mark statements; `UploadOk`, `UploadErr` are FPutObject
(an error does not mean that the object did not arrive); `RemoveFile` is
os.Remove.  Per administrator, `list` and `step` are the progress of a
RetryFailedPermanent.  `callbacks` holds the files whose onRotate goroutine has
not called Enqueue yet.  `proc` goes from up to stopping (context cancelled) to
closed (database closed: every statement fails) to down; a crash goes to down
from anywhere.  A restart keeps table, files and bucket and nothing else.

`disk` has, per file, what the code can tell: not there yet, modified in the
last hour, older, removed by the worker, removed by another hand.  An os.Stat may
fail on a file that is there (`StatErrs`): the worker then takes the file for
closed, a retry request takes it for missing and deletes its row.

### UploadLifecycle

The promise, without rows or goroutines: a file waits, is attempted, and is
uploaded or, after three failures, given up; a retry starts over; a copy is removed
only after the upload.  Who may do what: the worker only what concerns files it
has claimed while they waited (`claimed`), requests only retry or forget files
that were given up when they asked for them (`asked`).  Requests come late: a file
may have been retried by another request and be under way, or uploaded, when one
retries or forgets it, and the attempt then finds it back at the start
(`Interrupted`); all the promise says of such an attempt is that it ends as an
attempt does.  Nothing is said of whether a forgotten file is missing, since the
code does not know.  `UploadWorker!Lifecycle` gives the mapping: the status and
counter of the file's row, the state of its copy, the bucket, the files of the
worker's batch and of the administrators' lists.

### HourlyRotator and LogShipping

Threads are writers and callbacks; a callback is named after the hour of the file
it was given.  `Write` is split at each instruction that can interleave with
something: taking the mutex, reading the clock, comparing, closing the old file
(and starting the callback), opening the new one, appending.  The mutex makes
most of these splits harmless; that is a result and not an assumption, and the
mutant `Lock_Shared` shows what happens without it.  `told` tells the callback's
second line (about an Enqueue that failed) from its first.

`LogShipping` takes the steps of both modules as they are and adds what one does
to the other's world: appending makes a file fresh again, unless the write fails
(`WriteMayFail`); removing a file that is
open leaves its descriptor without a name (`linked`), a file gets old only in an
hour after its last modification (`mtime`).  `unsaved` is the set of files with
lines that their object lacks.  In the hours of `Steady` the environment behaves:
no hour ends inside a Write, and the file of the hour can be opened, written and
stat'ed (`CheckStep`).  The callback's first line is written before it
enqueues, which holds for LOG_LEVEL info and below.

### Accounts

`users` and `attrs` are the tables; attributes may belong to an id without a row.
A request of one statement is one action; Update (read, write all columns),
SignUp (lookup, insert) and SetAttributes (delete, insert one by one) keep in
`req` what they have yet to do.  Foreign keys are off, as `db.Open` leaves them.
Password hashes and times are left out, roles are admin or not.

### KeyRing

Each method holds the mutex from beginning to end and is one action.  A kid is a
number, the n-th that was drawn; `keys` is the ring, oldest key first, `lastKid`
the kid drawn last.  `StartRing` is NewJWTManager, which gives the configured key
a new kid in every run of the program, `RotateKeys` the operation of that name
(the program does not call it yet).  `issued` is the sequence of all tokens ever
signed; a token is its place there, and says its claims, the kid that signed it
(or `NoKid`: HMAC, when no PEM is configured) and when it expires on `clock`.
`Accepts` is Validate.  `bootKid`, for the properties, is `lastKid` before the
present run of the program.

### Sessions

`login` is, per request to sign in or to refresh, the call it makes next and what
it has in its hands: `BeginSignIn` is the lookup and the test of `active`,
`SignAccess`, `SignRefresh` and `StorePair` are generateTokens, `BeginRefresh` and
`RefuseRefresh` are RefreshToken up to its lookup, which finds nothing.  `table`
is refresh_tokens, `pairs` what clients were answered with.  The hash of a token
is a string that is no token (`Hash`, `Jwt`).  Accounts' actions are taken as they
are; the middleware is their guard (`IsUser`, `IsAdmin`): there is a token that is
accepted and says so (`LetIn`), one of the pairs that were handed out or, as
Validate accepts the constant HMAC key with or without RSA keys, one that was
signed elsewhere (`Elsewhere`, its claims).  `seen` is history: per account and role, when
the account was last active in that role.

A wrong password ends a sign-in before it changes anything and is left out; the
passwords of the model are right.

### Console

`tab` is, per tab, the route whose answer it waits for (or "page") and the cookie
its request carried, `jar` the access_token cookie they share.  Each route is an
action that shows a page or redirects; the browser follows at once, with the
cookie it has by then.  Whether the browser drops the cookie that RequireAuth
clears is left open: ClearCookie names no path, the cookie has path `/`.  Whether
a sign-in succeeds is left open too; that is Sessions' matter.

## 3. Runs

| run | cfg | expected | shows |
|---|---|---|---|
| worker_faults | Worker_faults | pass | accounting, truthfulness of `uploaded`, no lost log, listings that name their own rows, and refinement of UploadLifecycle, with two files, failing statements and stats, crashes and a retry request |
| worker_retries | Worker_retries | violation | of two overlapping retry requests the second resets a row that is being uploaded |
| worker_liveness | Worker_liveness | pass | a rotated file is uploaded or given up, not hidden behind older rows |
| worker_shutdown | Worker_shutdown | violation | a row can stay `uploading` for ever |
| rotator | Rotator | pass | lines go where they belong, files given away are final, writes return, every file is given away |
| shipping | Shipping | pass | no line lost and no name used again after a removal, with writers held up over hours, crashes, statements, opens, writes and stats that fail and a retry request; two hours share a name, and the second is steady |
| shipping_orphans | Shipping_orphans | violation | the file of the hour of a shutdown is never queued |
| accounts_races | Accounts_races | pass | one account per email and no resurrection, with two requests at a time |
| accounts_lost_update | Accounts_lost_update | violation | a PATCH undoes a deactivation |
| console | Console | pass | tokens live through two rotations, what was refused stays refused, every visit of a page comes to an end, with two tabs, finitely many sign-ins, restarts and expiring cookies |
| sessions | Sessions | pass | what a token that was handed out says was true of an active account within one lifetime, and refresh tokens in clients' hands are in the table, next to requests that change accounts, let in by any token signed with the HMAC key, with failing statements and restarts |
| sessions_refresh | Sessions_refresh | violation | a refresh that has everything it needs is turned down |

### Bounds

* Two files: a listing, a stale entry and an id of a deleted row need two; a
  third adds no new relation between rows, since every statement names one id
  and a listing distinguishes only older from younger.  In worker_liveness
  `BatchLimit` is 1, so that two files are enough for one to be hidden.
* `TwiceNamed` makes one of them come back after it was removed or deleted,
  which is what makes a new row for a known path possible.
* MaxAttempts is the 3 of the SQL, not a parameter.
* One retry request next to two files in worker_faults; with two requests there
  are too many states.  The theorems on UploadWorker, the refinement among them,
  hold for any number of requests and files, and worker_retries shows with two
  what they may do and `pkg/queue/queue.go:299` says they do not.
* `Steady` is the only assumption on the program and its environment: hours that
  do not end inside a Write and in which the hour's file can be opened, written and
  stat'ed.  The code sees to none of it.  Shipping has one, the second hour of the
  repeated name; of the two hours before it nothing is assumed.  The proof has the
  same condition (`RepeatsAreSteady`) and also covers what follows that hour.
* Hours: three, so that a file can be handed over, aged, uploaded and removed
  while a later one is open; in LogShipping the last two, in the rotator the first two
  have one name (`RepeatNames`), the other hour its own.
* Two writers in the rotator (symmetric in effect), one in LogShipping, where
  callbacks write too.
* Two ids, two emails, two requests; one attribute is enough there.  Ids are
  never given twice, so the model of Accounts runs out of them: BootFails is
  then the only thing a stopped server can do.
* Console: two sign-ins (`MaxIssued`), so that one cookie replaces another; four
  kids (`MaxKid`), so that a start and three rotations push a key out of the ring,
  or a restart draws a fresh kid; one tick (`MaxClock`), in which a token expires.
  `Configured` has both values: a restart may find the PEM files gone.  For
  EveryVisitSettles `MaxIssued` is more than a bound: it makes sign-ins finitely
  many, and the property needs that (see Fairness).
* Sessions: one sign-in or refresh next to one request on accounts is what a race
  takes; a sign-in (`MaxIssued` 2) at any time, with what came before in `seen`, so
  that it may come after the change it must not undo; two ids, a second account
  under the email of one that was deleted; a lifetime of one tick and a clock of
  three, so that a token outlives what it says and expires; one restart.  Every
  claim is one that somebody has signed with the HMAC key (`Elsewhere`): any request
  is possible at any time.  A PATCH
  has one field (`RolePatch`), and the requests on attributes, which sessions
  cannot see, are not repeated.  A sign-in does not span two ticks: the only
  assumption on time, named in `TickStep`; without it the account may have changed
  for as long as the sign-in took before the lifetime even starts.

### Fairness

`UploadWorker!Fairness`: the goroutines of worker and callbacks run when they
can, the ticker fires, files nobody writes to get old, the process ends once the
listener is closed and is started again.  Nothing is assumed of S3, of
administrators, of signals or crashes.  An upload may fail for ever: then the
file is given up, which counts as settled.  In `HourlyRotator!FairSpec` taking
the mutex is strongly fair: `sync.RWMutex` queues its waiters.
`Console!FairConsoleSpec` asks that a request is answered, tab by tab, and nothing
of when cookies expire, keys are rotated or the server is restarted.  It does
assume that sign-ins are finitely many (`MaxIssued`).  Without that
EveryVisitSettles is false: a second tab that is signed out whenever the first is
sent to the users page, and signed in whenever it is sent to the login page, keeps
it going from one to the other.  No administrator does that for ever, and nothing
in the code prevents it.

## 4. Proofs

`UploadWorkerProofs` proves of `UploadWorker!Spec`, for any set of files, any
number of administrators, any listing limit, with or without faults and crashes
(assumptions: BatchLimitAssumption, UploadWorkerAssumption):

| theorem | says |
|---|---|
| TypeCorrect | `[]TypeOK` |
| ListingsNameTheirRows | `[]SnapshotsNameTheirRow` |
| AttemptsAreCounted | `[]RetryAccounting` |
| UploadedIsStored | `[]UploadedInBucket` |
| RemovedIsStored | `[]NoLogLost` |

The argument.  Everything rests on one observation about the table, lemma
`StepsAreStatements`: whatever the goroutine, a step leaves the table alone, adds
a row under a new id, deletes a row, or changes the status and count of one row;
a path of an id never changes and ids only grow.  With lemma
`ListingsShrinkOrRefresh` (a listing loses entries or is read anew) this gives
`NamesStayTrue`: an entry names its own file or no row.

RetryAccounting is not inductive.  That a row is attempted at most three times
depends on the worker's batch: a row it lists was pending or failed with fewer
than three failures when listed, and may have been reset since, but who could
have raised its count?  Only the worker, which handles each entry once.
`Accounting` adds that (AttemptsLeft: the rows of entries still in the batch
have failures to spare; BatchIsDistinct: no two entries of a batch share an id).
UploadedInBucket needs that the entry at hand between FPutObject and
MarkUploaded or os.Remove is in the bucket, and that it names its own row:
`NothingLost` says so, and this is where the stale listings come in.

`UploadRefinementProofs` goes on, for any set of files, any number of retry
requests at a time and any listing limit, with or without failing statements and
stats and crashes:

| theorem | says |
|---|---|
| PathsAreUnique | `[]OneRowPerPath`: a file has at most one row |
| BatchStaysAsListed | `[]BatchHolds`, the inductive invariant |
| WorkerImplementsLifecycle | `ImplementsLifecycle` |

The argument.  The abstract worker acts on files it has claimed, in a phase that
the code does not look up again: it goes by its listing.  So the invariant must
say how far the listing still holds.  `BatchUnderWay`: a row of a file in the
batch is pending or failed, except the one at hand, whose status is as the
worker left it (`AtHand`) or pending, because a request has reset it since; a row
under another id than the listed one was added after a request deleted that
one, and is pending.  In no case is it given up, so no new request lists it, and
none is uploaded but by the worker.  With `Accounting` this also gives the counter
of a row that was put back.  Files are in a batch once (`BatchIsOfFiles`), there
is no batch to act on between batches or while the process is down
(`BetweenBatches`), and what is tracked was there once (`TrackedWasRotated`), which
is what Track asks.  Under the invariant each statement moves one file
(`UpdateMovesItsFile`, `EnqueueTracksItsFile`, `DeleteForgetsItsFile`), every other
step moves none (`FilesMoveAlone`), and listings become claims and questions.

`HourlyRotatorProofs` proves of `HourlyRotator!Spec`, for any number of goroutines,
any names and any length of run (assumption: RotatorAssumption):

| theorem | says |
|---|---|
| RotatorIsInvariant | `[]RotatorInv`, the inductive invariant |
| RotatorTypeCorrect | `[]TypeOK` |
| WritesExclude | at most one goroutine is inside Write |
| LinesGoToTheirHour | `[]LineInItsHour` |
| HandedOverForGood | `[]HandedOverIsFinal` |
| FilesAreHandedOverOnce | no rotation starts a second callback for an hour |

A line goes to the file of its hour because the holder of the mutex is the only
one in between (`Exclusion`) and knows how its hour, the file's and the clock are
ordered at each instruction (`ProgressOK`, `HourIsReached`).  A file is final because
callbacks run only for hours before the file's, or for the file's own hour when no
file is open (`CallbacksAreLate`): the state an open that failed leaves behind.

`AccountsProofs` proves of `Accounts!Spec`, for any ids, emails, attributes and any
number of requests (the ASSUME of `Accounts`): AccountsTypeCorrect (`[]TypeOK`),
OneAccountPerEmail (`[]EmailsAreUnique`) and DeletedForGood (`HardDeleteIsFinal`).
Every step is one of few statements on `users` or leaves it alone
(`StepIsStatement`); rows come only under ids never used before
(`RowsComeUnderNewIds`).  The type says what a request may hold between its
statements, and that is what the two properties need of it.

`KeyRingProofs` proves of `KeyRing!RingSpec`, for any claims, lifetimes and bounds
(assumption: KeyRingAssumption):

| theorem | says |
|---|---|
| RingIsInvariant | `[]RingInv`, the inductive invariant |
| RingTypeCorrect | `[]RingTypeOK` |
| TokensStayValid | `[]StaysValid` |
| RefusedForGood | `RefusalIsFinal` |

Neither property says anything of the ring's contents, so neither is inductive.
`RingIsRecent` is what holds them up: the ring is a run of consecutive kids ending
with the last one drawn, and it has three of them or all of this run of the
program.  Then a kid is in the ring exactly when it lies between its ends
(`RingMembers`), a token of this run with fewer than three kids after it is in
range, and as both ends only move up, a kid below the range stays below
(`KidsDoNotReturn`); the clock does the same for expiry.

`ConsoleProofs` proves that `Console!ConsoleSpec` implements `KeyRing!RingSpec`
(ConsoleImplementsRing: every step of the console is one of the ring or leaves it
alone), so that both properties hold with the console around the ring for any
number of tabs (ConsoleTokensStayValid, ConsoleRefusesForGood), and that the
cookie and the requests carry only tokens that were signed (ConsoleTypeCorrect;
tokens are only added, lemma `TokensStay`).

`SessionsProofs` proves of `Sessions!SessionSpec`, for any clients, lifetimes, ids,
emails and requests (the assumptions of the three modules):

| theorem | says |
|---|---|
| SessionIsInvariant | `[]SessionInv`, the inductive invariant |
| SessionTypeCorrect | `[]SessionTypeOK` |
| HandedOutExpires | `[]HandedOutIsRecent` |
| PairsHaveTheirRow | `[]PairsAreStored` |
| LookUpFindsNothing | the lookup of RefreshToken finds no row for any token |
| SessionsUseRing, SessionsUseAccounts | it implements `KeyRing!RingSpec` and `Accounts!Spec` |
| PartsKeepTheirPromises | so StaysValid, RefusalIsFinal and EmailsAreUnique hold in it |

HandedOutIsRecent is about tokens the program handed out and holds whatever requests
the tokens of `Elsewhere` make possible; of those tokens it says nothing, as they may
say anything.  It is about tokens clients hold, but what makes it true happens in
the middle of sign-ins: `LoginsOK` says of each sign-in under way that what it read
was so at most a tick ago, and of the token it has signed when that expires;
`PairsAreBacked` carries this over to the answer.  The types of Accounts come from
AccountsProofs, the ring's invariant from KeyRingProofs: neither is proved again.

`ShippingProofs` proves of `LogShipping!ShippingSpec`, for any writers,
administrators, files and number of hours, with or without failing statements,
opens, writes and stats and crashes (assumptions: RotatorAssumption, ShippingAssumption, and
`RepeatsAreSteady`: a name that is used twice is used for two hours running, and
in the second one Writes end and the file can be opened, written and stat'ed):

| theorem | says |
|---|---|
| ShippingIsInvariant | `[]ShippingInv`, the inductive invariant |
| LinesAreKept | `[]NoLineLost` |
| RemovedForGood | `RemovedNamesRetire` |
| SingleNamesAreSafe | both, without a condition, where no two hours share a name |

`RepeatsAreSteady` asks nothing where no name repeats: then Writes may be held up
for as long as they like, and opens, writes and stats may fail.  Neither property is inductive; what they need is that a
file the worker works on is complete.  A file can grow while the present or a later
hour has its name, or the hour of a Write under way (`CanGrow`), and what cannot
grow never will (`GrowthEnds`).  The uploader knows of a file only after its hour
(`KnownIsPast`), so one that can still grow is named like the present hour, the
second of its name (`GrowsNow`).  The Write that rotated the first hour away has
started the callback with the mutex held, and the callback's own line needs the
mutex: so the file has been written to in the present hour before it is enqueued
(`StartedIsFresh`, `KnownIsFresh`), and the worker skips it by its age.  From there
`WorkedIsDone`, `StoredIsSaved`, `RemovedIsDone` and `UnlinkedIsDone` follow the file
through upload, mark and removal.  The rotator's part of the invariant is RotatorInv
of HourlyRotatorProofs, re-established by a restart (`RotatorLives`); what the
statements do to the table is cited from UploadWorkerProofs.

With this every invariant and action property that a passing run checks is proved.  Only model-checked: the
liveness properties (QueuedIsResolved, WritesReturn, ClosedIsHandedOver,
EveryVisitSettles), which are out of the reach of the prover.

## 5. What the models say about the code

* A row in status `uploading` is listed by nobody: after a shutdown or crash in
  an upload, or when MarkUploaded or MarkFailed fails, the file is stuck
  (`cmd/server/main.go:256`, `pkg/queue/queue.go:168-195`).
* Two overlapping retry requests can put a row back to pending while it is being
  uploaded, against `pkg/queue/queue.go:299` (worker_retries): the statement could
  ask for the status.
* A retry request deletes the row of a file it cannot stat, for whatever reason,
  against what it logs (`pkg/worker/worker.go:222-226`).  UploadLifecycle therefore
  lets a request forget a file that is there.
* A file the worker cannot stat counts as closed and may be uploaded all the same,
  against the comment (`pkg/worker/worker.go:175`): uploadToS3 stats it again.
* Validate accepts a token with an HMAC under the constant key whether or not RSA
  keys are configured (`internal/auth/jwt.go:232-235`), against README.md:136: it
  goes by the algorithm the token names.  Tokens of runs without keys stay good in
  runs with them, and what a token signed elsewhere says need not have been true of
  any account.  No property of these models bounds what such tokens allow.
* A file that was open when the server stopped is not queued by the next run
  unless that starts in the same hour (`pkg/logger/logger.go:63`).
* In the hour that repeats when daylight saving time ends, the file of the first
  hour is enqueued while the second writes to it (`pkg/logger/logger.go:77`).  No
  line is lost as long as no Write of the second hour is held up past its end and
  its file can be opened, written and stat'ed; this is what `Steady = {2}` says in
  Shipping.cfg.  Otherwise the worker may remove the file in use: a write that
  fails (`pkg/logger/logger.go:59`) leaves it with the age of the first hour, a
  stat that fails (`pkg/worker/worker.go:173`) has it taken for closed.  Of the
  other hours nothing is asked.
* `Update` writes back all columns of a row it read before
  (`internal/user/repository.go:50-76`).
* Foreign keys are declared and not enforced (`internal/db/connection.go:15`):
  attributes outlive their account, against `ON DELETE CASCADE`
  (`sql/schema.sql:36`), and PUT stores them for an id no account has.
* No refresh succeeds: the lookup is by the token, the row has its salted hash
  (`internal/auth/service.go:105`, `156`; README.md:86).
* Logout cannot reach the service: nothing sets `userID` on its route
  (`internal/auth/handler.go:87`; README.md:239).  So rows of refresh_tokens are
  never revoked, nor deleted.
* The kid of the configured key is a fresh one at every start
  (`internal/auth/jwt.go:83`), so with RSA keys no session outlives a restart.  The
  lifetimes are fixed in the code (`internal/auth/jwt.go:153`, `185`), against the
  settings of README.md:127-128.
* Not covered by a run: `Enqueue` answers a file that is already there with its
  row, the comment above it says with an error (`pkg/queue/queue.go:85`, `114`);
  no caller looks at the answer.  `Config.MaxRetries` is never read.

## 6. Not modelled

Health, configuration, templates: no state, or reads only.  The cache client: no
caller.  JWKS and the contents of the console's pages: reads only.  Password
checking and the parsing of keys: cryptography.  What RefreshToken does once it
has found a row, and Service.Logout: no request gets there, so a model of them
would have no behaviour to check.  `MustOpen`'s schema creation: a matter of the
file system at first start.  HTTP parsing and status codes.  S3 beyond the set of
names stored: the content of an object is followed only as far as "has all lines
or not".

## 7. Plan

Done, in this order, most important first: the upload worker with its abstract
specification and proofs; the rotator; both together; the accounts; the key ring
and its proofs; sessions over accounts and keys; the console; the proofs on the
rotator, the accounts and the sessions; the refinement of UploadLifecycle, for any
number of overlapping retry requests; the proof that no line is lost.  Left: an
abstract specification of LogShipping as a whole (a line is written, stored, its
file removed) which it implements; EveryVisitSettles from a bound on the sign-ins
of other tabs instead of on all.
