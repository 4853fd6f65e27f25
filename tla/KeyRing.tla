------------------------------ MODULE KeyRing ------------------------------
(***************************************************************************)
(* JWTManager, internal/auth/jwt.go: the ring of RSA keys, the tokens      *)
(* signed with them and the verdict of Validate.                           *)
(*                                                                         *)
(* Every method holds the RWMutex from its first to its last line, so a    *)
(* call is one step.  A key is its kid; kids are fresh, so the n-th one    *)
(* drawn, in all runs of the program, is n.  A token is named after its    *)
(* place among all tokens signed (its jti).  The clock counts in the unit  *)
(* of the lifetimes; claims are whatever the caller has signed.            *)
(*                                                                         *)
(* RotateKeys has no caller in the program yet; it is modelled as the      *)
(* operation of JWTManager that it is.                                     *)
(***************************************************************************)
EXTENDS Integers, Sequences

CONSTANTS
    Claims,       \* what access tokens say: sub, role
    NoClaims,     \* a refresh token says nothing of the kind
    AccessTTL, RefreshTTL,
    Configured,   \* whether the PEM files are set: the values to try
    MaxClock, MaxKid, MaxIssued   \* bounds

ASSUME KeyRingAssumption ==
    /\ NoClaims \notin Claims
    /\ AccessTTL \in Nat \ {0}
    /\ RefreshTTL \in Nat \ {0}
    /\ Configured \subseteq BOOLEAN
    /\ MaxClock \in Nat /\ MaxKid \in Nat /\ MaxIssued \in Nat

\* No RSA key signed this token: it carries no kid and an HMAC.
NoKid == 0

Kid == 1..MaxKid

Token == [claims : Claims \cup {NoClaims}, kid : {NoKid} \cup Kid,
          exp : 0..(MaxClock + AccessTTL + RefreshTTL)]

VARIABLES
    keys,         \* the ring, oldest key first
    activeKid,
    lastKid,      \* the kid drawn last
    bootKid,      \* history: lastKid before this run of the program
    clock,
    issued        \* history: all tokens signed so far

ringVars == <<keys, activeKid, lastKid, bootKid, clock, issued>>

----------------------------------------------------------------------------
(* NewJWTManager, RotateKeys.                                              *)

\* Mutant: the kid is fixed by the configuration.
StartRing_SameKid(configured) ==
    /\ lastKid < MaxKid
    /\ keys' = IF configured THEN <<1>> ELSE << >>
    /\ activeKid' = IF configured THEN 1 ELSE NoKid
    /\ lastKid' = IF configured /\ lastKid = 0 THEN 1 ELSE lastKid
    /\ bootKid' = lastKid
    /\ UNCHANGED <<clock, issued>>

\* The program starts: the configured key, if any, is loaded under a new kid.
StartRing(configured) ==
    /\ lastKid < MaxKid
    /\ keys' = IF configured THEN <<lastKid + 1>> ELSE << >>
    /\ activeKid' = IF configured THEN lastKid + 1 ELSE NoKid
    /\ lastKid' = IF configured THEN lastKid + 1 ELSE lastKid
    /\ bootKid' = lastKid
    /\ UNCHANGED <<clock, issued>>

\* Mutant: one key too many is dropped.
LastThree_Two(ring) ==
    IF Len(ring) > 2 THEN SubSeq(ring, Len(ring) - 1, Len(ring)) ELSE ring

LastThree(ring) ==
    IF Len(ring) > 3 THEN SubSeq(ring, Len(ring) - 2, Len(ring)) ELSE ring

\* A PEM that cannot be parsed is an error and changes nothing.
RotateKeys ==
    /\ lastKid < MaxKid
    /\ keys' = LastThree(Append(keys, lastKid + 1))
    /\ activeKid' = lastKid + 1
    /\ lastKid' = lastKid + 1
    /\ UNCHANGED <<bootKid, clock, issued>>

----------------------------------------------------------------------------
(* IssueAccess, IssueRefresh, Validate.                                    *)

InRing(kid) == \E i \in DOMAIN keys : keys[i] = kid

\* The active key, the first one when the active one is not there, or none.
SigningKid ==
    IF keys = << >> THEN NoKid
    ELSE IF InRing(activeKid) THEN activeKid ELSE keys[1]

Sign(claims, ttl) ==
    /\ Len(issued) < MaxIssued
    /\ issued' = Append(issued, [claims |-> claims, kid |-> SigningKid, exp |-> clock + ttl])
    /\ UNCHANGED <<keys, activeKid, lastKid, bootKid, clock>>

IssueAccess(claims) == Sign(claims, AccessTTL)

IssueRefresh == Sign(NoClaims, RefreshTTL)

\* An HMAC needs no key of the ring, and is good whether or not the ring has any,
\* whoever computed it: its key is a constant.  exp is the first moment a token is
\* refused.
Accepts(token) ==
    /\ clock < token.exp
    /\ token.kid = NoKid \/ InRing(token.kid)

\* The place the next token will have.
NextToken == Len(issued) + 1

----------------------------------------------------------------------------
Tick ==
    /\ clock < MaxClock
    /\ clock' = clock + 1
    /\ UNCHANGED <<keys, activeKid, lastKid, bootKid, issued>>

\* Before the first start there is no key, as in a first run without RSA keys.
RingInit ==
    /\ keys = << >>
    /\ activeKid = NoKid
    /\ lastKid = 0
    /\ bootKid = 0
    /\ clock = 0
    /\ issued = << >>

RingNext ==
    \/ \E configured \in Configured : StartRing(configured)
    \/ RotateKeys
    \/ \E claims \in Claims : IssueAccess(claims)
    \/ IssueRefresh
    \/ Tick

RingSpec == RingInit /\ [][RingNext]_ringVars

----------------------------------------------------------------------------
(* Properties.                                                             *)

RingTypeOK ==
    /\ keys \in Seq(Kid)
    /\ activeKid \in {NoKid} \cup Kid
    /\ lastKid \in 0..MaxKid
    /\ bootKid \in 0..MaxKid
    /\ clock \in 0..MaxClock
    /\ issued \in Seq(Token)

\* "Keep only last 3 keys for rotation": a token signed in this run of the
\* program is good until it expires, through any two rotations.
StaysValid ==
    \A n \in DOMAIN issued :
        LET token == issued[n] IN
        /\ clock < token.exp
        /\ token.kid > bootKid
        /\ lastKid - token.kid < 3
        => Accepts(token)

\* A token that was refused once is refused ever after, whatever rotations and
\* restarts follow.
RefusalIsFinal ==
    [][\A n \in DOMAIN issued : ~Accepts(issued[n]) => ~Accepts(issued[n])']_ringVars

=============================================================================
