---------------------------- MODULE UploadQueue ----------------------------
(***************************************************************************)
(* The persistent queue of log files, pkg/queue/queue.go: the SQLite table *)
(* log_uploads and the statements the package runs on it.  A statement is  *)
(* one atomic operator over the table; who calls it, in which order, and   *)
(* what happens when it fails is the business of the modules that extend   *)
(* this one.                                                               *)
(*                                                                         *)
(* Abstractions.  A row keeps the columns some statement's WHERE, CASE or  *)
(* ORDER BY depends on.  created_at is left out: rows are inserted with    *)
(* CURRENT_TIMESTAMP and ids are AUTOINCREMENT, so the order of ids is the *)
(* order of created_at as long as the clock does not go back.  s3_path,    *)
(* last_error, updated_at and uploaded_at are written but never read back  *)
(* by the program (GetUploaded has no caller).                             *)
(***************************************************************************)
EXTENDS Integers, FiniteSets

CONSTANTS
    Path,        \* the local log files
    BatchLimit   \* LIMIT of the two listings; every caller passes 10

ASSUME BatchLimitAssumption == BatchLimit \in Nat \ {0}

VARIABLES
    rows,        \* table log_uploads: row id -> Row
    lastId       \* the AUTOINCREMENT counter: ids are never used again

queueVars == <<rows, lastId>>

\* The attempts after which a file is given up: the literal 3 of the SQL.
MaxAttempts == 3

Status == {"pending", "uploading", "uploaded", "failed", "failed_permanent"}

Row == [path : Path, status : Status, retries : Nat]

QueueInit ==
    /\ rows = [i \in {} |-> i]
    /\ lastId = 0

----------------------------------------------------------------------------
(* Statements that change the table.                                       *)

\* The path has a row: the UNIQUE constraint that ON CONFLICT refers to.
Tracked(p) == \E i \in DOMAIN rows : rows[i].path = p

\* Mutant: the counter is not moved.
Enqueue_NoCount(p) ==
    IF Tracked(p)
    THEN UNCHANGED queueVars
    ELSE /\ UNCHANGED lastId
         /\ rows' = [i \in DOMAIN rows \cup {lastId + 1} |->
                        IF i = lastId + 1
                        THEN [path |-> p, status |-> "pending", retries |-> 0]
                        ELSE rows[i]]

\* Mutant: the row of a file that was given up is reused for the new one.
Enqueue_Recycles(p) ==
    IF Tracked(p)
    THEN UNCHANGED queueVars
    ELSE LET spent == {i \in DOMAIN rows : rows[i].status = "failed_permanent"}
             id    == IF spent = {} THEN lastId + 1 ELSE CHOOSE i \in spent : TRUE
         IN  /\ lastId' = IF spent = {} THEN id ELSE lastId
             /\ rows' = [i \in DOMAIN rows \cup {id} |->
                            IF i = id
                            THEN [path |-> p, status |-> "pending", retries |-> 0]
                            ELSE rows[i]]

\* INSERT ... ON CONFLICT DO NOTHING; on a conflict the existing row is read.
Enqueue(p) ==
    IF Tracked(p)
    THEN UNCHANGED queueVars
    ELSE /\ lastId' = lastId + 1
         /\ rows' = [i \in DOMAIN rows \cup {lastId + 1} |->
                        IF i = lastId + 1
                        THEN [path |-> p, status |-> "pending", retries |-> 0]
                        ELSE rows[i]]

\* UPDATE ... SET <what new computes from the row> WHERE id = ?; when no row
\* has the id the statement changes nothing, and that is not an error.
UpdateRow(id, new(_)) ==
    /\ rows' = [i \in DOMAIN rows |-> IF i = id THEN new(rows[i]) ELSE rows[i]]
    /\ UNCHANGED lastId

\* Mutant: the row is marked uploaded up front, to save a statement.
BeginAttempt_Eager(row) == [row EXCEPT !.status = "uploaded"]

BeginAttempt(row)  == [row EXCEPT !.status = "uploading"]

EndAttempt(row)    == [row EXCEPT !.status = "uploaded"]

\* Mutant: > for >=.
CountFailure_OffByOne(row) ==
    [row EXCEPT !.status = IF row.retries + 1 > MaxAttempts
                           THEN "failed_permanent" ELSE "failed",
                !.retries = row.retries + 1]

CountFailure(row)  ==
    [row EXCEPT !.status = IF row.retries + 1 >= MaxAttempts
                           THEN "failed_permanent" ELSE "failed",
                !.retries = row.retries + 1]

ClearFailures(row) == [row EXCEPT !.status = "pending", !.retries = 0]

MarkUploading(id) == UpdateRow(id, BeginAttempt)

MarkUploaded(id)  == UpdateRow(id, EndAttempt)

MarkFailed(id)    == UpdateRow(id, CountFailure)

\* Any row, whatever its status: the statement's WHERE names only the id.
ResetForRetry(id) == UpdateRow(id, ClearFailures)

Delete(id) ==
    /\ rows' = [i \in DOMAIN rows \ {id} |-> rows[i]]
    /\ UNCHANGED lastId

----------------------------------------------------------------------------
(* Listings.                                                               *)

\* ORDER BY created_at ASC LIMIT ?
Oldest(ids) == {i \in ids : Cardinality({j \in ids : j < i}) < BatchLimit}

\* Mutant: failed rows are not listed.
PendingIds_OnlyNew == {i \in DOMAIN rows : rows[i].status = "pending"}

PendingIds ==
    {i \in DOMAIN rows : /\ rows[i].status \in {"pending", "failed"}
                         /\ rows[i].retries < MaxAttempts}

\* Mutant: every failed row is listed for a retry.
FailedPermanentIds_AnyFailed ==
    {i \in DOMAIN rows : rows[i].status \in {"failed", "failed_permanent"}}

FailedPermanentIds == {i \in DOMAIN rows : rows[i].status = "failed_permanent"}

\* What a caller keeps of the rows it listed: the identity of each row and the
\* path it works on.  It is never read again from the table.
Snapshot(ids) == {[id |-> i, path |-> rows[i].path] : i \in ids}

GetPending         == Snapshot(Oldest(PendingIds))

GetFailedPermanent == Snapshot(Oldest(FailedPermanentIds))

\* Callers go through a listing from the oldest entry to the newest.
First(e, list) == e \in list /\ \A f \in list : e.id <= f.id

Entry == [id : Nat \ {0}, path : Path]

----------------------------------------------------------------------------
QueueTypeOK ==
    /\ lastId \in Nat
    /\ DOMAIN rows \subseteq 1..lastId
    /\ rows \in [DOMAIN rows -> Row]

\* A log file has at most one row (the table's UNIQUE column), whatever the
\* order in which the callbacks, the worker and the administrators ran.
OneRowPerPath ==
    \A i, j \in DOMAIN rows : rows[i].path = rows[j].path => i = j

=============================================================================
