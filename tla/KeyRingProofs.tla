--------------------------- MODULE KeyRingProofs ---------------------------
(***************************************************************************)
(* Theorems on KeyRing: for any lifetimes, any claims and any sequence of  *)
(* restarts and rotations, a token is good for as long as the ring         *)
(* promises, and not a moment longer once it was refused.                  *)
(***************************************************************************)
EXTENDS KeyRing, TLAPS

\* The ring holds the kids drawn last, in order: all of this run of the program,
\* or the last three of them.
RingIsRecent ==
    /\ Len(keys) <= 3
    /\ \A i \in DOMAIN keys : keys[i] = lastKid - Len(keys) + i
    /\ bootKid <= lastKid - Len(keys)
    /\ Len(keys) = 3 \/ bootKid = lastKid - Len(keys)

ActiveIsNewest == activeKid = IF keys = << >> THEN NoKid ELSE lastKid

\* No token names a kid that has yet to be drawn.
KidsWereDrawn == \A n \in DOMAIN issued : issued[n].kid <= lastKid

RingInv == RingTypeOK /\ RingIsRecent /\ ActiveIsNewest /\ KidsWereDrawn

\* What is known of a token that was signed.
LEMMA TokenFacts ==
    ASSUME RingInv, NEW n \in DOMAIN issued
    PROVE  /\ issued[n] \in Token
           /\ issued[n].kid \in Nat /\ issued[n].kid <= lastKid
           /\ issued[n].exp \in Int
<1>1. issued[n] \in Token
  BY DEF RingInv, RingTypeOK
<1>2. MaxKid \in Nat /\ MaxClock \in Nat /\ AccessTTL \in Nat /\ RefreshTTL \in Nat
  BY KeyRingAssumption DEF KeyRingAssumption
<1>3. issued[n].kid \in {NoKid} \cup Kid /\ issued[n].exp \in 0..(MaxClock + AccessTTL + RefreshTTL)
  BY <1>1 DEF Token
<1>4. issued[n].kid <= lastKid
  BY DEF RingInv, KidsWereDrawn
<1> QED
  BY <1>1, <1>2, <1>3, <1>4 DEF Kid, NoKid

\* A ring in order holds exactly the kids between its ends.
LEMMA RingMembers ==
    ASSUME RingInv, NEW kid \in Nat
    PROVE  InRing(kid) <=> lastKid - Len(keys) < kid /\ kid <= lastKid
<1>1. keys \in Seq(Kid) /\ Len(keys) \in Nat /\ lastKid \in Nat /\ DOMAIN keys = 1..Len(keys)
  BY DEF RingInv, RingTypeOK, Kid
<1>2. ASSUME InRing(kid)
      PROVE  lastKid - Len(keys) < kid /\ kid <= lastKid
  BY <1>1, <1>2 DEF InRing, RingInv, RingIsRecent
<1>3. ASSUME lastKid - Len(keys) < kid, kid <= lastKid
      PROVE  InRing(kid)
  <2>. DEFINE i == kid - (lastKid - Len(keys))
  <2>1. i \in DOMAIN keys
    BY <1>1, <1>3
  <2>2. keys[i] = kid
    BY <1>1, <2>1 DEF RingInv, RingIsRecent
  <2> QED
    BY <2>1, <2>2 DEF InRing
<1> QED
  BY <1>2, <1>3

\* RotateKeys leaves a ring in order.
LEMMA RotationKeepsOrder ==
    ASSUME RingInv, RotateKeys
    PROVE  /\ keys' \in Seq(Kid) /\ keys' # << >>
           /\ Len(keys') = IF Len(keys) < 3 THEN Len(keys) + 1 ELSE 3
           /\ \A i \in DOMAIN keys' : keys'[i] = lastKid' - Len(keys') + i
<1>. DEFINE ring == Append(keys, lastKid + 1)
<1>1. /\ keys \in Seq(Kid) /\ Len(keys) \in 0..3 /\ lastKid \in Nat /\ lastKid + 1 \in Kid
      /\ DOMAIN keys = 1..Len(keys)
  <2>1. keys \in Seq(Kid) /\ lastKid \in 0..MaxKid /\ MaxKid \in Nat /\ Len(keys) <= 3 /\ lastKid < MaxKid
    BY KeyRingAssumption DEF KeyRingAssumption, RingInv, RingTypeOK, RingIsRecent, RotateKeys
  <2>2. Len(keys) \in Nat /\ DOMAIN keys = 1..Len(keys)
    BY <2>1
  <2> QED
    BY <2>1, <2>2 DEF Kid
<1>2. /\ ring \in Seq(Kid)
      /\ Len(ring) = Len(keys) + 1
      /\ \A i \in 1..Len(ring) : ring[i] = lastKid - Len(keys) + i
  BY <1>1 DEF RingInv, RingIsRecent
<1>3. lastKid' = lastKid + 1 /\ keys' = LastThree(ring)
  BY DEF RotateKeys
<1>4. CASE Len(keys) < 3
  <2>1. keys' = ring
    BY <1>1, <1>2, <1>3, <1>4 DEF LastThree
  <2> QED
    BY <1>1, <1>2, <1>3, <1>4, <2>1
<1>5. CASE Len(keys) = 3
  <2>1. keys' = SubSeq(ring, 2, 4)
    BY <1>2, <1>3, <1>5 DEF LastThree
  <2>2. keys' \in Seq(Kid) /\ Len(keys') = 3 /\ \A i \in 1..3 : keys'[i] = ring[i + 1]
    BY <1>2, <1>5, <2>1
  <2> QED
    BY <1>1, <1>2, <1>3, <1>5, <2>2
<1> QED
  BY <1>1, <1>4, <1>5

LEMMA RingInvInit == RingInit => RingInv
<1> SUFFICES ASSUME RingInit PROVE RingInv
  OBVIOUS
<1>1. keys = << >> /\ issued = << >> /\ activeKid = NoKid /\ lastKid = 0 /\ bootKid = 0 /\ clock = 0
  BY DEF RingInit
<1>2. MaxKid \in Nat /\ MaxClock \in Nat
  BY KeyRingAssumption DEF KeyRingAssumption
<1>3. RingTypeOK
  BY <1>1, <1>2 DEF RingTypeOK
<1>4. Len(keys) = 0 /\ DOMAIN keys = {} /\ DOMAIN issued = {}
  BY <1>1
<1>5. RingIsRecent
  <2>1. lastKid = 0 /\ bootKid = 0 /\ Len(keys) = 0
    BY <1>1, <1>4
  <2>2. \A i \in DOMAIN keys : keys[i] = lastKid - Len(keys) + i
    BY <1>4
  <2> QED
    BY <2>1, <2>2 DEF RingIsRecent
<1>6. ActiveIsNewest
  BY <1>1 DEF ActiveIsNewest
<1>7. KidsWereDrawn
  BY <1>4 DEF KidsWereDrawn
<1> QED
  BY <1>3, <1>5, <1>6, <1>7 DEF RingInv

LEMMA RingInvStep == RingInv /\ [RingNext]_ringVars => RingInv'
<1> SUFFICES ASSUME RingInv, [RingNext]_ringVars PROVE RingInv'
  OBVIOUS
<1>. USE KeyRingAssumption DEF KeyRingAssumption
<1>t. /\ keys \in Seq(Kid) /\ Len(keys) \in Nat /\ lastKid \in 0..MaxKid /\ clock \in 0..MaxClock
      /\ bootKid \in 0..MaxKid /\ activeKid \in {NoKid} \cup Kid
      /\ issued \in Seq(Token) /\ Len(issued) \in Nat /\ MaxKid \in Nat
  BY DEF RingInv, RingTypeOK
<1>1. ASSUME NEW configured \in Configured, StartRing(configured) PROVE RingInv'
  <2>1. KidsWereDrawn'
    <3>1. issued' = issued /\ lastKid <= lastKid' /\ lastKid' \in Int
      BY <1>1, <1>t DEF StartRing
    <3> QED
      BY <3>1, <1>t, TokenFacts DEF KidsWereDrawn
  <2>2. CASE configured
    <3>1. keys' = <<lastKid + 1>> /\ lastKid + 1 \in Kid /\ lastKid' = lastKid + 1
      BY <1>1, <1>t, <2>2 DEF StartRing, Kid
    <3> QED
      BY <1>1, <1>t, <2>1, <2>2, <3>1
      DEF StartRing, RingInv, RingTypeOK, RingIsRecent, ActiveIsNewest
  <2>3. CASE ~configured
    BY <1>1, <1>t, <2>1, <2>3
    DEF StartRing, RingInv, RingTypeOK, RingIsRecent, ActiveIsNewest
  <2> QED
    BY <2>2, <2>3
<1>2. ASSUME RotateKeys PROVE RingInv'
  <2>1. /\ keys' \in Seq(Kid) /\ keys' # << >>
        /\ Len(keys') = IF Len(keys) < 3 THEN Len(keys) + 1 ELSE 3
        /\ \A i \in DOMAIN keys' : keys'[i] = lastKid' - Len(keys') + i
    BY <1>2, RotationKeepsOrder
  <2>2. RingTypeOK'
    BY <1>2, <1>t, <2>1 DEF RotateKeys, RingTypeOK, Kid
  <2>3. RingIsRecent'
    <3>1. lastKid' = lastKid + 1 /\ bootKid' = bootKid
      BY <1>2 DEF RotateKeys
    <3>2. bootKid <= lastKid - Len(keys) /\ (Len(keys) = 3 \/ bootKid = lastKid - Len(keys)) /\ Len(keys) <= 3
      BY DEF RingInv, RingIsRecent
    <3>3. Len(keys') \in Nat /\ Len(keys') <= 3
      BY <1>t, <2>1
    <3>4. bootKid' <= lastKid' - Len(keys') /\ (Len(keys') = 3 \/ bootKid' = lastKid' - Len(keys'))
      BY <1>t, <2>1, <3>1, <3>2, <3>3
    <3> QED
      BY <2>1, <3>3, <3>4 DEF RingIsRecent
  <2>4. ActiveIsNewest'
    BY <1>2, <2>1 DEF RotateKeys, ActiveIsNewest
  <2>5. KidsWereDrawn'
    <3>1. issued' = issued /\ lastKid' = lastKid + 1
      BY <1>2 DEF RotateKeys
    <3> QED
      BY <3>1, <1>t, TokenFacts DEF KidsWereDrawn
  <2> QED
    BY <2>2, <2>3, <2>4, <2>5 DEF RingInv
<1>3. ASSUME NEW claims \in Claims \cup {NoClaims}, NEW ttl \in {AccessTTL, RefreshTTL},
             Sign(claims, ttl)
      PROVE  RingInv'
  <2>1. SigningKid \in {NoKid} \cup Kid /\ SigningKid <= lastKid
    BY <1>t DEF SigningKid, RingInv, RingIsRecent, ActiveIsNewest, NoKid, InRing
  <2>. DEFINE token == [claims |-> claims, kid |-> SigningKid, exp |-> clock + ttl]
  <2>2. token \in Token
    BY <1>t, <2>1 DEF Token
  <2>3. issued' = Append(issued, token)
    BY <1>3 DEF Sign
  <2>4. issued' \in Seq(Token)
    BY <1>t, <2>2, <2>3
  <2>5. KidsWereDrawn'
    <3> SUFFICES ASSUME NEW n \in DOMAIN issued' PROVE issued'[n].kid <= lastKid
      BY <1>3 DEF KidsWereDrawn, Sign
    <3>1. CASE n \in DOMAIN issued
      BY <1>t, <2>3, <3>1 DEF RingInv, KidsWereDrawn
    <3>2. CASE n = Len(issued) + 1
      BY <1>t, <2>1, <2>3, <3>2
    <3> QED
      BY <1>t, <2>3, <3>1, <3>2
  <2> QED
    BY <1>3, <2>4, <2>5 DEF Sign, RingInv, RingTypeOK, RingIsRecent, ActiveIsNewest
<1>4. CASE Tick
  BY <1>4, <1>t DEF Tick, RingInv, RingTypeOK, RingIsRecent, ActiveIsNewest, KidsWereDrawn
<1>5. CASE UNCHANGED ringVars
  BY <1>5 DEF ringVars, RingInv, RingTypeOK, RingIsRecent, ActiveIsNewest, KidsWereDrawn
<1> QED
  BY <1>1, <1>2, <1>3, <1>4, <1>5 DEF RingNext, IssueAccess, IssueRefresh

\* Starts, rotations and signatures keep the ring a run of consecutive kids that
\* ends with the last one drawn.
THEOREM RingIsInvariant == RingSpec => []RingInv
  BY RingInvInit, RingInvStep, PTL DEF RingSpec

\* Kids, clock and tokens keep their types for any bounds.
THEOREM RingTypeCorrect == RingSpec => []RingTypeOK
<1>1. RingInv => RingTypeOK
  BY DEF RingInv
<1> QED
  BY <1>1, RingIsInvariant, PTL

\* A token outlives any two rotations of the run of the program that signed it.
THEOREM TokensStayValid == RingSpec => []StaysValid
<1>1. RingInv => StaysValid
  <2> SUFFICES ASSUME RingInv, NEW n \in DOMAIN issued, clock < issued[n].exp,
                      issued[n].kid > bootKid, lastKid - issued[n].kid < 3
               PROVE  Accepts(issued[n])
    BY DEF StaysValid
  <2>1. issued[n].kid \in Nat /\ issued[n].kid <= lastKid /\ Len(keys) \in Nat
        /\ lastKid \in Nat /\ bootKid \in Nat
    <3>1. keys \in Seq(Kid) /\ lastKid \in 0..MaxKid /\ bootKid \in 0..MaxKid /\ MaxKid \in Nat
      BY KeyRingAssumption DEF KeyRingAssumption, RingInv, RingTypeOK
    <3> QED
      BY <3>1, TokenFacts
  <2>2. lastKid - Len(keys) < issued[n].kid
    <3>1. CASE Len(keys) = 3
      BY <2>1, <3>1
    <3>2. CASE bootKid = lastKid - Len(keys)
      BY <3>2
    <3> QED
      BY <3>1, <3>2 DEF RingInv, RingIsRecent
  <2> QED
    BY <2>1, <2>2, RingMembers DEF Accepts
<1> QED
  BY <1>1, RingIsInvariant, PTL

\* Tokens signed stay as they are, and time does not go back.
LEMMA IssuedGrows ==
    ASSUME RingTypeOK, [RingNext]_ringVars
    PROVE  /\ DOMAIN issued \subseteq DOMAIN issued'
           /\ \A n \in DOMAIN issued : issued'[n] = issued[n]
           /\ clock <= clock'
<1>1. issued \in Seq(Token) /\ clock \in Int
  BY KeyRingAssumption DEF KeyRingAssumption, RingTypeOK
<1>2. ASSUME NEW claims, NEW ttl, Sign(claims, ttl)
      PROVE  /\ DOMAIN issued \subseteq DOMAIN issued'
             /\ \A n \in DOMAIN issued : issued'[n] = issued[n]
             /\ clock <= clock'
  <2>1. PICK token : issued' = Append(issued, token)
    BY <1>2 DEF Sign
  <2> QED
    BY <1>1, <1>2, <2>1 DEF Sign
<1>3. CASE Tick
  BY <1>1, <1>3 DEF Tick
<1>4. CASE UNCHANGED <<issued, clock>>
  BY <1>1, <1>4
<1> QED
  BY <1>2, <1>3, <1>4 DEF RingNext, ringVars, StartRing, RotateKeys, IssueAccess, IssueRefresh

\* A kid that is not in the ring does not come back into it.
LEMMA KidsDoNotReturn ==
    ASSUME RingInv, [RingNext]_ringVars, NEW kid \in Nat, kid <= lastKid, ~InRing(kid)
    PROVE  ~InRing(kid)'
<1>1. RingInv' /\ lastKid - Len(keys) \in Int /\ lastKid' - Len(keys') \in Int
  BY RingInvStep DEF RingInv, RingTypeOK
<1>2. kid <= lastKid - Len(keys)
  BY <1>1, RingMembers DEF RingInv, RingTypeOK
<1>3. lastKid - Len(keys) <= lastKid' - Len(keys')
  <2>1. ASSUME NEW configured \in Configured, StartRing(configured)
        PROVE  lastKid - Len(keys) <= lastKid' - Len(keys')
    BY <2>1 DEF StartRing, RingInv, RingTypeOK
  <2>2. CASE RotateKeys
    BY <2>2, RotationKeepsOrder DEF RotateKeys, RingInv, RingTypeOK, RingIsRecent
  <2>3. CASE UNCHANGED <<keys, lastKid>>
    BY <1>1, <2>3
  <2> QED
    BY <2>1, <2>2, <2>3
    DEF RingNext, ringVars, Tick, IssueAccess, IssueRefresh, Sign
<1>4. kid <= lastKid' - Len(keys')
  BY <1>1, <1>2, <1>3
<1>5. \A i \in DOMAIN keys' : keys'[i] = lastKid' - Len(keys') + i
  BY <1>1 DEF RingInv, RingIsRecent
<1>6. keys' \in Seq(Kid)
  BY <1>1 DEF RingInv, RingTypeOK
<1>7. \A i \in DOMAIN keys' : i \in Int /\ 0 < i
  BY <1>6
<1>8. \A i \in DOMAIN keys' : keys'[i] # kid
  BY <1>1, <1>4, <1>5, <1>7
<1> QED
  BY <1>8 DEF InRing

\* What was refused stays refused, through restarts and rotations.
THEOREM RefusedForGood == RingSpec => RefusalIsFinal
<1>1. RingInv /\ [RingNext]_ringVars =>
          [\A n \in DOMAIN issued : ~Accepts(issued[n]) => ~Accepts(issued[n])']_ringVars
  <2> SUFFICES ASSUME RingInv, [RingNext]_ringVars, NEW n \in DOMAIN issued, ~Accepts(issued[n])
               PROVE  ~Accepts(issued[n])'
    OBVIOUS
  <2>1. /\ issued[n].kid \in Nat /\ issued[n].kid <= lastKid /\ issued[n].exp \in Int
        /\ issued \in Seq(Token) /\ clock \in Int
    BY KeyRingAssumption, TokenFacts DEF KeyRingAssumption, RingInv, RingTypeOK
  <2>2. issued'[n] = issued[n] /\ clock <= clock'
    BY IssuedGrows DEF RingInv
  <2>3. CASE ~(clock < issued[n].exp)
    <3>1. clock' \in Int
      BY RingInvStep DEF RingInv, RingTypeOK
    <3> QED
      BY <2>1, <2>2, <2>3, <3>1 DEF Accepts
  <2>4. CASE issued[n].kid # NoKid /\ ~InRing(issued[n].kid)
    <3>1. PICK kid \in Nat : kid = issued[n].kid
      BY <2>1
    <3>2. ~InRing(kid)'
      BY <2>1, <2>4, <3>1, KidsDoNotReturn
    <3> QED
      BY <2>2, <2>4, <3>1, <3>2 DEF Accepts, InRing
  <2> QED
    BY <2>3, <2>4 DEF Accepts
<1> QED
  BY <1>1, RingIsInvariant, PTL DEF RingSpec, RefusalIsFinal

=============================================================================
