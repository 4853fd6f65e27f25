--------------------------- MODULE UploadLifecycle ---------------------------
(***************************************************************************)
(* What the upload queue, its worker and the retry requests promise about  *)
(* each log file, with no rows, statements or goroutines in sight:         *)
(*                                                                         *)
(*                      Begin                Succeed                       *)
(*   untracked -> waiting -> attempting ---------> uploaded                *)
(*                   ^  ^------'  | Fail                                   *)
(*             Retry |     Fail   v                                        *)
(*                   '------- given_up                                     *)
(*                                                                         *)
(* at most MaxTries failures between two retries, the object in the bucket *)
(* before the entry says so, and the local file removed only after that.   *)
(*                                                                         *)
(* Worker and requests act on what they listed earlier.  The worker does   *)
(* nothing to a file that was not waiting when it claimed it.  A request   *)
(* retries or forgets only files that were given up when it asked for      *)
(* them, but it may come late: another request may have retried the file,  *)
(* and the worker begun it anew, finished it or removed its copy.  So      *)
(* Retry and Forget leave from every phase, and an attempt may find its    *)
(* file put back to the start (Interrupted).                               *)
(***************************************************************************)
EXTENDS Integers

CONSTANTS
    Log,         \* the log files
    MaxTries     \* the attempts before a file is given up

VARIABLES
    life,        \* where each file stands
    tries,       \* failed attempts since it was tracked or retried
    local,       \* its local copy: absent, here, removed (after the upload)
                 \* or gone (by another hand)
    remote,      \* the files in the bucket
    claimed,     \* the files the worker has listed and not yet done with
    asked        \* the files that retry requests under way have listed

vars == <<life, tries, local, remote, claimed, asked>>

Phases == {"untracked", "waiting", "attempting", "uploaded", "given_up"}

Init ==
    /\ life = [p \in Log |-> "untracked"]
    /\ tries = [p \in Log |-> 0]
    /\ local = [p \in Log |-> "absent"]
    /\ remote = {}
    /\ claimed = {}
    /\ asked = {}

\* File p goes to a phase; the failures it has are then n.
Move(p, to, n) ==
    /\ life' = [life EXCEPT ![p] = to]
    /\ tries' = [tries EXCEPT ![p] = n]

----------------------------------------------------------------------------
(* The listings.                                                           *)

\* The worker takes up files that wait, when it is done with those it had.
Claim(S) ==
    /\ claimed = {}
    /\ \A p \in S : life[p] = "waiting" /\ tries[p] < MaxTries
    /\ claimed' = S
    /\ UNCHANGED <<life, tries, local, remote, asked>>

\* A request lists files that are given up.
Ask(S) ==
    /\ \A p \in S : life[p] = "given_up"
    /\ asked' = asked \cup S
    /\ UNCHANGED <<life, tries, local, remote, claimed>>

\* Worker and requests may leave out any of their files, or end.
Leave ==
    /\ claimed' \in SUBSET claimed
    /\ asked' \in SUBSET asked
    /\ UNCHANGED <<life, tries, local, remote>>

----------------------------------------------------------------------------
(* The worker, on a file it has claimed.                                   *)

Begin(p) ==
    /\ p \in claimed
    /\ life[p] = "waiting"
    /\ tries[p] < MaxTries
    /\ Move(p, "attempting", tries[p])
    /\ UNCHANGED <<local, remote, claimed, asked>>

\* A request has retried or forgotten the file since.
Interrupted(p) == life[p] \in {"untracked", "waiting"} /\ tries[p] = 0

UnderWay(p) == life[p] = "attempting" \/ Interrupted(p)

Store(p) ==
    /\ p \in claimed
    /\ UnderWay(p)
    /\ local[p] = "here"
    /\ remote' = remote \cup {p}
    /\ UNCHANGED <<life, tries, local, claimed, asked>>

Succeed(p) ==
    /\ p \in claimed
    /\ life[p] # "untracked" /\ UnderWay(p)
    /\ p \in remote
    /\ Move(p, "uploaded", tries[p])
    /\ UNCHANGED <<local, remote, claimed, asked>>

Fail(p) ==
    /\ p \in claimed
    /\ life[p] # "untracked" /\ UnderWay(p)
    /\ Move(p, IF tries[p] + 1 = MaxTries THEN "given_up" ELSE "waiting",
            tries[p] + 1)
    /\ claimed' = claimed \ {p}
    /\ UNCHANGED <<local, remote, asked>>

Drop(p) ==
    /\ p \in claimed
    /\ life[p] = "uploaded" \/ Interrupted(p)
    /\ p \in remote
    /\ local[p] = "here"
    /\ local' = [local EXCEPT ![p] = "removed"]
    /\ claimed' = claimed \ {p}
    /\ UNCHANGED <<life, tries, remote, asked>>

----------------------------------------------------------------------------
(* The requests, on a file one of them has listed.                         *)

\* Another request may still have the file on its list.
Answered(p) == asked' \in {asked, asked \ {p}}

Retry(p) ==
    /\ p \in asked
    /\ life[p] # "untracked"
    /\ Move(p, "waiting", 0)
    /\ Answered(p)
    /\ UNCHANGED <<local, remote, claimed>>

Forget(p) ==
    /\ p \in asked
    /\ life[p] # "untracked"
    /\ Move(p, "untracked", 0)
    /\ Answered(p)
    /\ UNCHANGED <<local, remote, claimed>>

----------------------------------------------------------------------------
(* The rotator and whoever else deletes files.                             *)

Track(p) ==
    /\ life[p] = "untracked"
    /\ local[p] # "absent"
    /\ Move(p, "waiting", 0)
    /\ UNCHANGED <<local, remote, claimed, asked>>

Produce(p) ==
    /\ local[p] = "absent"
    /\ local' = [local EXCEPT ![p] = "here"]
    /\ UNCHANGED <<life, tries, remote, claimed, asked>>

Vanish(p) ==
    /\ local[p] = "here"
    /\ local' = [local EXCEPT ![p] = "gone"]
    /\ UNCHANGED <<life, tries, remote, claimed, asked>>

Next ==
    \/ \E S \in SUBSET Log : Claim(S) \/ Ask(S)
    \/ Leave
    \/ \E p \in Log :
          \/ Begin(p) \/ Store(p) \/ Succeed(p) \/ Fail(p) \/ Drop(p)
          \/ Retry(p) \/ Forget(p)
          \/ Track(p) \/ Produce(p) \/ Vanish(p)

Spec == Init /\ [][Next]_vars

=============================================================================
