---------------------------- MODULE IntakeProofs ----------------------------
(***************************************************************************)
(* Proofs about Intake for any mobiles, names and records, any link, any   *)
(* number of overlapping requests and of restarts: the types, the number   *)
(* of records of a child, the capacity of the link, the records of a       *)
(* mobile and those without a submission; and, for requests one at a time, *)
(* that submissions stay on live records.                                  *)
(* About SchoolCodes, as MCIntake instantiates it, for any schools and     *)
(* slots: the numbers of the codes, and what a request that runs out of    *)
(* attempts lost them to.  About Throttle, in the same way, for any limits *)
(* and windows: the hits and the misses of a window.                       *)
(***************************************************************************)
EXTENDS MCIntake, FiniteSetTheorems, TLAPS

BusyBound == Cardinality(Busy) <= load

(* The rows a request has found are there, and its own.                    *)
Sound(q) ==
  /\ q.op \in {"room", "limit", "record"} /\ q.found # NoRecord =>
       /\ q.found \in Made
       /\ record[q.found].via = q.via
       /\ record[q.found].name = q.name
       /\ record[q.found].mobile = q.mobile
  /\ q.op = "family" => q.found = NoRecord
  /\ q.op = "submission" =>
       record[q.found].via = q.via /\ record[q.found].mobile = q.mobile
  /\ q.op \in {"submission", "review", "merge"} => q.found \in Made
  /\ q.op = "merge" => q.target \in Made /\ q.target # q.found

RequestsSound == \A sl \in Slot : Sound(intakeReq[sl])

(* A request that is going to create the record of a child, a record of    *)
(* the link that the room was found for, or the next one of a mobile.      *)
Pends(q, name, mobile) ==
  /\ q.op \in {"room", "limit", "record"} /\ q.via = "link" /\ q.found = NoRecord
  /\ q.name = name /\ q.mobile = mobile
Fills(q) == q.op \in {"limit", "record"} /\ q.via = "link" /\ q.found = NoRecord
Creates(q, m) ==
  q.op = "record" /\ q.via = "link" /\ q.found = NoRecord /\ q.mobile = m

Pending(name, mobile) == {sl \in Slot : Pends(intakeReq[sl], name, mobile)}
Filling == {sl \in Slot : Fills(intakeReq[sl])}
Creating(m) == {sl \in Slot : Creates(intakeReq[sl], m)}

(* The records of a child with those that are about to be created.         *)
KeyBound ==
  \A name \in Name, m \in Contact :
    Cardinality(SameKey(name, m)) + Cardinality(Pending(name, m)) <= load

(* The records of the link with those that are about to be created.        *)
RoomBound ==
  link.capacity # 0 =>
    Cardinality(MadeByLink) + Cardinality(Filling) <= link.capacity + load - 1

(* The live records without the submission of the request that made them,  *)
(* that none in flight is about to write.                                  *)
Author(r) == IF record[r].via = "account" THEN "account" ELSE record[r].mobile
Left == {r \in Live : submission[<<r, Author(r)>>] = 0 /\ ~BeingSubmitted(r)}
LeftBound == Cardinality(Left) <= restarts * load

(* The records of a mobile with those that are about to be created.        *)
RecordsOf(m) == {r \in MadeByLink : record[r].mobile = m}
MobileBound ==
  \A m \in Contact :
    Cardinality(RecordsOf(m)) + Cardinality(Creating(m))
      <= link.siblings + load - 1 + restarts * load

(* While requests come one at a time, the rows one has found are live.     *)
FoundLive(q) ==
  /\ q.op \in {"room", "limit", "record"} /\ q.found # NoRecord => q.found \in Live
  /\ q.op \in {"submission", "review", "merge"} => q.found \in Live
  /\ q.op = "merge" => q.target \in Live

FoundStaysLive == load = 1 => \A sl \in Slot : FoundLive(intakeReq[sl])

IInv ==
  /\ TypeOK
  /\ BusyBound
  /\ RequestsSound
  /\ KeyBound
  /\ RoomBound
  /\ LeftBound
  /\ MobileBound
  /\ FoundStaysLive
  /\ SubmissionsOnLiveRecords

----------------------------------------------------------------------------
(* Counting *)
LEMMA CountSubset ==
  ASSUME NEW T, IsFiniteSet(T), NEW S \in SUBSET T
  PROVE  /\ IsFiniteSet(S)
         /\ Cardinality(S) \in Nat /\ Cardinality(T) \in Nat
         /\ Cardinality(S) <= Cardinality(T)
BY FS_Subset, FS_CardinalityType

LEMMA CountAdd ==
  ASSUME NEW T, IsFiniteSet(T), NEW x, NEW S \in SUBSET (T \cup {x})
  PROVE  Cardinality(S) <= Cardinality(T) + 1
<1>1. IsFiniteSet(T \cup {x}) /\ Cardinality(T \cup {x}) <= Cardinality(T) + 1
  <2>1. Cardinality(T) \in Nat
    BY FS_CardinalityType
  <2> QED
    BY <2>1, FS_AddElement
<1>2. Cardinality(S) <= Cardinality(T \cup {x})
  BY <1>1, FS_Subset
<1>3. Cardinality(S) \in Nat /\ Cardinality(T) \in Nat /\ Cardinality(T \cup {x}) \in Nat
  BY <1>1, FS_Subset, FS_CardinalityType
<1> QED
  BY <1>1, <1>2, <1>3

LEMMA CountRemove ==
  ASSUME NEW T, IsFiniteSet(T), NEW x \in T, NEW S \in SUBSET (T \ {x})
  PROVE  Cardinality(S) <= Cardinality(T) - 1
<1>1. IsFiniteSet(T \ {x}) /\ Cardinality(T \ {x}) = Cardinality(T) - 1
  BY FS_RemoveElement
<1> QED
  BY <1>1, FS_Subset

LEMMA CountUnion ==
  ASSUME NEW S, IsFiniteSet(S), NEW T, IsFiniteSet(T)
  PROVE  /\ IsFiniteSet(S \cup T) /\ Cardinality(S \cup T) \in Nat
         /\ Cardinality(S \cup T) <= Cardinality(S) + Cardinality(T)
<1>1. /\ IsFiniteSet(S \cup T)
      /\ Cardinality(S \cup T) = Cardinality(S) + Cardinality(T) - Cardinality(S \cap T)
  BY FS_Union
<1>2. /\ Cardinality(S \cap T) \in Nat /\ Cardinality(S \cup T) \in Nat
      /\ Cardinality(S) \in Nat /\ Cardinality(T) \in Nat
  BY <1>1, FS_Intersection, FS_CardinalityType
<1> QED
  BY <1>1, <1>2

(* The sets that are counted are finite.                                   *)
LEMMA RecordsFinite ==
  ASSUME NEW S \in SUBSET Record
  PROVE  IsFiniteSet(S) /\ Cardinality(S) \in Nat
BY CountSubset, LimitsAssumption

LEMMA SlotsFinite ==
  ASSUME NEW S \in SUBSET Slot
  PROVE  IsFiniteSet(S) /\ Cardinality(S) \in Nat
BY CountSubset, LimitsAssumption

LEMMA WhatIsCounted ==
  /\ Live \in SUBSET Record /\ MadeByLink \in SUBSET Record
  /\ Busy \in SUBSET Slot /\ Filling \in SUBSET Slot
  /\ \A name, m : SameKey(name, m) \in SUBSET Record /\ Pending(name, m) \in SUBSET Slot
  /\ Left \in SUBSET Record
  /\ \A m : RecordsOf(m) \in SUBSET Record /\ Creating(m) \in SUBSET Slot
BY DEF Live, Made, MadeByLink, Busy, Filling, SameKey, Pending, Left, RecordsOf, Creating

(* A mobile has no more records with a submission of its than submissions. *)
LEMMA SubmissionsOfRecords ==
  ASSUME TypeOK, NEW m \in Contact
  PROVE  /\ Cardinality({r \in Record : submission[<<r, m>>] > 0}) <= SubmissionsBy(m)
         /\ SubmissionsBy(m) \in Nat
<1> PICK P : P = {r \in Record : submission[<<r, m>>] > 0}
  OBVIOUS
<1> PICK R : R = RowsBy(m)
  OBVIOUS
<1>1. MaxSubmissions \in Nat \ {0} /\ IsFiniteSet(Record)
  BY LimitsAssumption
<1>2. IsFiniteSet(R) /\ Cardinality(R) \in Nat
  <2>1. IsFiniteSet(1..MaxSubmissions)
    BY <1>1, FS_Interval
  <2>2. IsFiniteSet(Record \X (1..MaxSubmissions))
    BY <1>1, <2>1, FS_Product
  <2>3. R \in SUBSET (Record \X (1..MaxSubmissions))
    BY DEF RowsBy
  <2> QED
    BY <2>2, <2>3, CountSubset
<1> PICK f : f = [r \in P |-> <<r, 1>>]
  OBVIOUS
<1>3. f \in Injection(P, R)
  <2>1. ASSUME NEW r \in P PROVE f[r] \in R
    <3>1. r \in Record /\ submission[<<r, m>>] > 0
      OBVIOUS
    <3>2. submission[<<r, m>>] \in 0..MaxSubmissions
      BY <3>1 DEF TypeOK, Verified
    <3>3. 1 \in 1..MaxSubmissions /\ 1 <= submission[<<r, m>>]
      BY <1>1, <3>1, <3>2
    <3> QED
      BY <3>1, <3>3 DEF RowsBy
  <2> QED
    BY <2>1 DEF Injection, IsInjective
<1>4. Cardinality(P) <= Cardinality(R)
  BY <1>2, <1>3, FS_Injection
<1> QED
  BY <1>2, <1>4 DEF SubmissionsBy

(* A record is made when it says by whom.                                  *)
LEMMA MadeByWhom ==
  ASSUME NEW row \in RecordRow
  PROVE  row # Unmade <=> row.via \in {"link", "account"}
BY DEF RecordRow, Unmade

LEMMA Numbers ==
  ASSUME TypeOK
  PROVE  /\ load \in Nat /\ load >= 1 /\ restarts \in Nat /\ restarts * load \in Nat
         /\ link.capacity \in Nat /\ link.siblings \in Nat /\ link.siblings >= 1
<1>1. MaxLoad \in Nat /\ MaxRestarts \in Nat
  BY LimitsAssumption
<1>2. load \in 1..MaxLoad /\ restarts \in 0..MaxRestarts
  BY DEF TypeOK
<1>3. link.capacity \in Nat /\ link.siblings \in Nat /\ link.siblings >= 1
  BY DEF TypeOK, LinkRow
<1>4. load \in Nat /\ load >= 1 /\ restarts \in Nat
  BY <1>1, <1>2
<1>5. restarts * load \in Nat
  BY <1>4
<1> QED
  BY <1>3, <1>4, <1>5

LEMMA IdleIsQuiet ==
  /\ Idle \in Request /\ Idle.op = "idle"
  /\ Sound(Idle) /\ FoundLive(Idle) /\ ~Fills(Idle)
  /\ \A name, m : ~Pends(Idle, name, m)
  /\ \A m : ~Creates(Idle, m)
BY DEF Idle, Request, Sound, FoundLive, Fills, Pends, Creates

(* Shapes of requests *)
LEMMA Shapes ==
  ASSUME TypeOK, NEW sl \in Slot, NEW q, q = intakeReq[sl]
  PROVE  /\ q \in Request
         /\ q.op = "policy" => q \in Arriving
         /\ q.op \in {"existing", "room", "limit"} => q \in Submitting
         /\ q.op = "family" => q \in FromAccount
         /\ q.op \in {"record", "submission"} => q \in Submitting \cup FromAccount
         /\ q.op = "review" => q \in Reviewing
         /\ q.op = "merge" => q \in Merging
         /\ q.op # "idle" => q # Idle
BY DEF TypeOK, Request, Idle, Arriving, Submitting, FromAccount, Reviewing, Merging

----------------------------------------------------------------------------
LEMMA InitEstablishes == Init => IInv
<1> SUFFICES ASSUME Init PROVE IInv
  OBVIOUS
<1>1. load \in 1..MaxLoad /\ load \in Nat \ {0} /\ restarts = 0
  <2>1. MaxLoad \in Nat \ {0}
    BY LimitsAssumption
  <2>2. load \in 1..MaxLoad /\ restarts = 0
    BY DEF Init
  <2> QED
    BY <2>1, <2>2
<1>2. link \in LinkRow /\ link.capacity \in Nat
  BY LimitsAssumption DEF Init, LinkRow
<1>3. TypeOK
  <2>1. record \in [Record -> RecordRow] /\ intakeReq \in [Slot -> Request]
    BY IdleIsQuiet DEF Init, RecordRow
  <2>2. submission \in [Record \X Verified -> 0..MaxSubmissions]
    <3>1. MaxSubmissions \in Nat
      BY LimitsAssumption
    <3> QED
      BY <3>1 DEF Init
  <2>3. restarts \in 0..MaxRestarts
    <3>1. MaxRestarts \in Nat
      BY LimitsAssumption
    <3> QED
      BY <1>1, <3>1
  <2> QED
    BY <1>1, <1>2, <2>1, <2>2, <2>3 DEF TypeOK
<1>4. Made = {} /\ Live = {} /\ MadeByLink = {} /\ \A name, m : SameKey(name, m) = {}
  BY DEF Init, Made, Live, MadeByLink, SameKey
<1>5. Busy = {} /\ Filling = {} /\ \A name, m : Pending(name, m) = {}
  BY IdleIsQuiet DEF Init, Busy, Filling, Pending
<1>6. Cardinality({}) = 0
  BY FS_EmptySet
<1>7. BusyBound
  BY <1>1, <1>5, <1>6 DEF BusyBound
<1>8. KeyBound
  BY <1>1, <1>4, <1>5, <1>6 DEF KeyBound
<1>9. RoomBound
  BY <1>1, <1>2, <1>4, <1>5, <1>6 DEF RoomBound
<1>10. RequestsSound /\ FoundStaysLive
  BY IdleIsQuiet DEF Init, RequestsSound, FoundStaysLive
<1>11. LeftBound /\ MobileBound
  <2>1. Left = {} /\ restarts * load = 0
    BY <1>1, <1>4 DEF Left
  <2>2. link.siblings \in Nat /\ link.siblings >= 1
    BY <1>2 DEF LinkRow
  <2>3. \A m : RecordsOf(m) = {} /\ Creating(m) = {}
    BY <1>4, IdleIsQuiet DEF Init, RecordsOf, Creating
  <2>4. LeftBound
    BY <1>6, <2>1 DEF LeftBound
  <2>5. ASSUME NEW m
        PROVE  Cardinality(RecordsOf(m)) + Cardinality(Creating(m))
                 <= link.siblings + load - 1 + restarts * load
    <3>1. Cardinality(RecordsOf(m)) = 0 /\ Cardinality(Creating(m)) = 0
      BY <1>6, <2>3
    <3> QED
      BY <1>1, <2>1, <2>2, <3>1
  <2> QED
    BY <2>4, <2>5 DEF MobileBound
<1>12. SubmissionsOnLiveRecords
  <2>1. ASSUME NEW r \in Record, HasSubmission(r) PROVE FALSE
    <3>1. PICK m \in Verified : submission[<<r, m>>] > 0
      BY <2>1 DEF HasSubmission
    <3>2. submission[<<r, m>>] = 0
      BY DEF Init
    <3> QED
      BY <3>1, <3>2
  <2> QED
    BY <2>1 DEF SubmissionsOnLiveRecords
<1> QED
  BY <1>3, <1>7, <1>8, <1>9, <1>10, <1>11, <1>12 DEF IInv

----------------------------------------------------------------------------
(* A step of one slot *)

(* A row keeps its author and its key.                                     *)
KeysKept ==
  \A r \in Made :
    /\ record'[r].via = record[r].via
    /\ record'[r].name = record[r].name
    /\ record'[r].mobile = record[r].mobile

LEMMA MadeStaysMade ==
  ASSUME TypeOK, record' \in [Record -> RecordRow], KeysKept
  PROVE  \A r \in Made : r \in Made'
<1> SUFFICES ASSUME NEW r \in Made PROVE r \in Made'
  OBVIOUS
<1>1. r \in Record /\ record[r] \in RecordRow /\ record'[r] \in RecordRow
  BY DEF Made, TypeOK
<1>2. record[r].via \in {"link", "account"}
  BY <1>1, MadeByWhom DEF Made
<1>3. record'[r].via \in {"link", "account"}
  BY <1>2 DEF KeysKept
<1>4. record'[r] # Unmade
  BY <1>1, <1>3, MadeByWhom
<1> QED
  BY <1>1, <1>4 DEF Made

LEMMA SlotStep ==
  ASSUME IInv, NEW sl \in Slot, NEW q \in Request,
         intakeReq' = [intakeReq EXCEPT ![sl] = q],
         UNCHANGED <<load, link, restarts>>,
         record' \in [Record -> RecordRow],
         submission' \in [Record \X Verified -> 0..MaxSubmissions],
         KeysKept,
         q # Idle => intakeReq[sl] # Idle \/ Cardinality(Busy) < load,
         Sound(q)'
  PROVE  TypeOK' /\ BusyBound' /\ RequestsSound'
<1>1. TypeOK'
  BY DEF IInv, TypeOK
<1>2. intakeReq'[sl] = q /\ \A o \in Slot : o # sl => intakeReq'[o] = intakeReq[o]
  BY DEF IInv, TypeOK
<1>3. BusyBound'
  <2>1. load \in Nat /\ load' = load
    BY Numbers DEF IInv
  <2>2. Busy \in SUBSET Slot /\ Busy' \in SUBSET Slot
    BY DEF Busy
  <2>3. IsFiniteSet(Busy) /\ Cardinality(Busy) \in Nat /\ Cardinality(Busy') \in Nat
    BY <2>2, SlotsFinite
  <2>4. CASE q = Idle \/ intakeReq[sl] # Idle
    <3>1. Busy' \in SUBSET Busy
      BY <1>2, <2>4 DEF Busy
    <3> QED
      BY <2>1, <2>3, <3>1, CountSubset DEF IInv, BusyBound
  <2>5. CASE Cardinality(Busy) < load
    <3>1. Busy' \in SUBSET (Busy \cup {sl})
      BY <1>2 DEF Busy
    <3>2. Cardinality(Busy') <= Cardinality(Busy) + 1
      BY <2>3, <3>1, CountAdd
    <3> QED
      BY <2>1, <2>3, <2>5, <3>2 DEF BusyBound
  <2> QED
    BY <2>4, <2>5
<1>4. RequestsSound'
  <2> SUFFICES ASSUME NEW o \in Slot PROVE Sound(intakeReq[o])'
    BY DEF RequestsSound
  <2>1. CASE o = sl
    BY <1>2, <2>1 DEF Sound
  <2>2. CASE o # sl
    <3> PICK r : r = intakeReq[o]
      OBVIOUS
    <3>1. intakeReq'[o] = r /\ Sound(r)
      BY <1>2, <2>2 DEF IInv, RequestsSound
    <3>2. \A k \in Made : k \in Made'
      BY MadeStaysMade DEF IInv
    <3> QED
      BY <3>1, <3>2 DEF Sound, KeysKept
  <2> QED
    BY <2>1, <2>2
<1> QED
  BY <1>1, <1>3, <1>4

LEMMA LeftKept ==
  ASSUME IInv, UNCHANGED <<load, restarts>>, Left' \subseteq Left
  PROVE  LeftBound'
<1>1. Left \in SUBSET Record /\ Left' \in SUBSET Left
  BY WhatIsCounted
<1>2. Cardinality(Left') <= Cardinality(Left)
  BY <1>1, RecordsFinite, CountSubset
<1>3. Cardinality(Left) <= restarts * load
  BY DEF IInv, LeftBound
<1>4. Cardinality(Left) \in Nat /\ Cardinality(Left') \in Nat
  BY <1>1, RecordsFinite
<1>5. PICK n : n = restarts * load
  OBVIOUS
<1>6. n \in Nat /\ n = restarts' * load'
  BY <1>5, Numbers DEF IInv
<1>7. Cardinality(Left') <= restarts' * load'
  BY <1>2, <1>3, <1>4, <1>5, <1>6
<1> QED
  BY <1>7 DEF LeftBound

(* A record of a mobile has a submission of it, waits for it, or is left   *)
(* without: a request that finds room for one more in the submissions      *)
(* keeps the bound.                                                        *)
LEMMA RoomForOne ==
  ASSUME IInv, NEW sl \in Slot, intakeReq[sl].op = "limit", NEW q \in Request,
         intakeReq' = [intakeReq EXCEPT ![sl] = q], q.op = "record",
         NEW m \in Contact, SubmissionsBy(m) < link.siblings
  PROVE  Cardinality(RecordsOf(m)) + Cardinality(Creating(m)')
           <= link.siblings + load - 1 + restarts * load
<1> PICK S : S = {o \in Slot : intakeReq[o].op = "submission"}
  OBVIOUS
<1> PICK W : W = {intakeReq[o].found : o \in S}
  OBVIOUS
<1> PICK P : P = {r \in Record : submission[<<r, m>>] > 0}
  OBVIOUS
<1> PICK K, L, C : K = RecordsOf(m) /\ L = Left /\ C = Creating(m)'
  OBVIOUS
<1>1. intakeReq'[sl] = q /\ \A o \in Slot : o # sl => intakeReq'[o] = intakeReq[o]
  BY DEF IInv, TypeOK
<1>2. /\ S \in SUBSET Slot /\ C \in SUBSET Slot /\ K \in SUBSET Record /\ L \in SUBSET Record
      /\ P \in SUBSET Record /\ Busy \in SUBSET Slot
  BY WhatIsCounted DEF Creating
<1>3. /\ IsFiniteSet(S) /\ Cardinality(S) \in Nat /\ IsFiniteSet(C) /\ Cardinality(C) \in Nat
      /\ IsFiniteSet(Busy) /\ Cardinality(Busy) \in Nat
      /\ IsFiniteSet(K) /\ Cardinality(K) \in Nat /\ IsFiniteSet(L) /\ Cardinality(L) \in Nat
      /\ IsFiniteSet(P) /\ Cardinality(P) \in Nat
  BY <1>2, RecordsFinite, SlotsFinite
<1>4. Cardinality(S) + Cardinality(C) <= Cardinality(Busy)
  <2>1. S \cup C \in SUBSET Busy
    BY <1>1, IdleIsQuiet DEF Creating, Creates, Busy
  <2>2. S \cap C = {}
    BY <1>1 DEF Creating, Creates
  <2>3. Cardinality(S \cup C) = Cardinality(S) + Cardinality(C)
    <3>1. Cardinality(S \cup C) = Cardinality(S) + Cardinality(C) - Cardinality(S \cap C)
      BY <1>3, FS_Union
    <3>2. Cardinality(S \cap C) = 0
      BY <2>2, FS_EmptySet
    <3> QED
      BY <1>3, <3>1, <3>2
  <2> QED
    BY <1>3, <2>1, <2>3, CountSubset
<1>5. IsFiniteSet(W) /\ Cardinality(W) <= Cardinality(S) /\ Cardinality(W) \in Nat
  <2> PICK f : f = [o \in S |-> intakeReq[o].found]
    OBVIOUS
  <2>1. f \in Surjection(S, W)
    BY DEF Surjection
  <2> QED
    BY <1>3, <2>1, FS_Surjection, FS_CardinalityType
<1>6. K \in SUBSET ((P \cup L) \cup W)
  <2> SUFFICES ASSUME NEW r \in K, r \notin L, r \notin W PROVE r \in P
    OBVIOUS
  <2>1. /\ r \in Live /\ r \in Record /\ record[r].via = "link" /\ record[r].mobile = m
    BY <1>2 DEF RecordsOf, MadeByLink
  <2>2. Author(r) = m /\ ~BeingSubmitted(r)
    BY <2>1 DEF Author, BeingSubmitted
  <2>3. submission[<<r, m>>] # 0
    BY <2>1, <2>2 DEF Left
  <2>4. submission[<<r, m>>] \in 0..MaxSubmissions /\ MaxSubmissions \in Nat
    BY <2>1, LimitsAssumption DEF IInv, TypeOK, Verified
  <2> QED
    BY <2>1, <2>3, <2>4
<1>7. Cardinality(P) <= SubmissionsBy(m) /\ SubmissionsBy(m) \in Nat
  BY SubmissionsOfRecords DEF IInv
<1>8. Cardinality(K) <= Cardinality(P) + Cardinality(L) + Cardinality(W)
  <2>1. /\ IsFiniteSet(P \cup L) /\ Cardinality(P \cup L) \in Nat
        /\ Cardinality(P \cup L) <= Cardinality(P) + Cardinality(L)
    BY <1>3, CountUnion
  <2>2. /\ IsFiniteSet((P \cup L) \cup W) /\ Cardinality((P \cup L) \cup W) \in Nat
        /\ Cardinality((P \cup L) \cup W) <= Cardinality(P \cup L) + Cardinality(W)
    BY <1>5, <2>1, CountUnion
  <2>3. Cardinality(K) <= Cardinality((P \cup L) \cup W)
    BY <1>6, <2>2, CountSubset
  <2> QED
    BY <1>3, <1>5, <2>1, <2>2, <2>3
<1>9. Cardinality(L) <= restarts * load /\ Cardinality(Busy) <= load
  BY DEF IInv, LeftBound, BusyBound
<1> PICK n : n = restarts * load
  OBVIOUS
<1>10. load \in Nat /\ link.siblings \in Nat /\ n \in Nat
  BY Numbers DEF IInv
<1> QED
  BY <1>3, <1>4, <1>5, <1>7, <1>8, <1>9, <1>10

(* No record is added: the records of a child, of the link and of a mobile *)
(* stay within their bounds if the request only prepares to add one where  *)
(* there is room.                                                          *)
LEMMA BoundsKept ==
  ASSUME IInv, NEW sl \in Slot, NEW q \in Request,
         intakeReq' = [intakeReq EXCEPT ![sl] = q],
         UNCHANGED <<load, link, restarts>>,
         KeysKept, BusyBound',
         \A r \in Record : r \in Live' => r \in Live,
         \A name, m : Pends(q, name, m) =>
           Pends(intakeReq[sl], name, m) \/ SameKey(name, m) = {},
         Fills(q) => Fills(intakeReq[sl]) \/ link.capacity = 0
                       \/ Cardinality(Live) < link.capacity,
         \A m \in Contact : Creates(q, m) => Creates(intakeReq[sl], m) \/
           (intakeReq[sl].op = "limit" /\ SubmissionsBy(m) < link.siblings)
  PROVE  KeyBound' /\ RoomBound' /\ MobileBound'
<1>1. intakeReq'[sl] = q /\ \A o \in Slot : o # sl => intakeReq'[o] = intakeReq[o]
  BY DEF IInv, TypeOK
<1>2. load \in Nat /\ load' = load /\ link.capacity \in Nat /\ link' = link
  BY Numbers DEF IInv
<1>3. Live \subseteq Made /\ Live' \subseteq Live
  BY DEF Live, Made
<1>4. Busy' \in SUBSET Slot /\ Cardinality(Busy') \in Nat /\ Cardinality(Busy') <= load
  BY <1>2, SlotsFinite DEF BusyBound, Busy
<1>5. KeyBound'
  <2> SUFFICES ASSUME NEW name \in Name, NEW m \in Contact
               PROVE  Cardinality(SameKey(name, m)') + Cardinality(Pending(name, m)') <= load
    BY <1>2 DEF KeyBound, Contact
  <2> PICK K, L, P, Q : /\ K = SameKey(name, m) /\ L = SameKey(name, m)'
                        /\ P = Pending(name, m) /\ Q = Pending(name, m)'
    OBVIOUS
  <2>1. L \in SUBSET K /\ K \in SUBSET Record
    BY <1>3 DEF SameKey, KeysKept, Live, Made
  <2>2. P \in SUBSET Slot /\ Q \in SUBSET Slot
    BY DEF Pending
  <2>3. /\ Cardinality(K) \in Nat /\ Cardinality(L) \in Nat
        /\ Cardinality(P) \in Nat /\ Cardinality(Q) \in Nat
        /\ Cardinality(L) <= Cardinality(K)
    <3>1. IsFiniteSet(K) /\ Cardinality(K) \in Nat
      BY <2>1, RecordsFinite
    <3>2. Cardinality(L) \in Nat /\ Cardinality(L) <= Cardinality(K)
      BY <2>1, <3>1, CountSubset
    <3>3. Cardinality(P) \in Nat /\ Cardinality(Q) \in Nat
      BY <2>2, SlotsFinite
    <3> QED
      BY <3>1, <3>2, <3>3
  <2>4. CASE Pends(q, name, m) => Pends(intakeReq[sl], name, m)
    <3>1. Q \in SUBSET P
      BY <1>1, <2>4 DEF Pending
    <3>2. Cardinality(Q) <= Cardinality(P)
      BY <2>2, <3>1, SlotsFinite, CountSubset
    <3>3. Cardinality(K) + Cardinality(P) <= load
      BY DEF IInv, KeyBound
    <3> QED
      BY <1>2, <2>3, <3>2, <3>3
  <2>5. CASE K = {}
    <3>1. L = {} /\ Cardinality(L) = 0
      BY <2>1, <2>5, FS_EmptySet
    <3>2. Q \in SUBSET Busy'
      BY IdleIsQuiet DEF Pending, Busy
    <3>3. Cardinality(Q) <= Cardinality(Busy')
      BY <1>4, <3>2, SlotsFinite, CountSubset
    <3> QED
      BY <1>2, <1>4, <2>3, <3>1, <3>3
  <2> QED
    BY <2>4, <2>5
<1>6. RoomBound'
  <2> SUFFICES ASSUME link.capacity # 0
               PROVE  Cardinality(MadeByLink') + Cardinality(Filling')
                        <= link.capacity + load - 1
    BY <1>2 DEF RoomBound
  <2> PICK K, L, P, Q : /\ K = MadeByLink /\ L = MadeByLink'
                        /\ P = Filling /\ Q = Filling'
    OBVIOUS
  <2>1. L \in SUBSET K /\ K \in SUBSET Live /\ K \in SUBSET Record
    BY <1>3 DEF MadeByLink, KeysKept, Live, Made
  <2>2. P \in SUBSET Slot /\ Q \in SUBSET Slot
    BY DEF Filling
  <2>3. /\ Cardinality(K) \in Nat /\ Cardinality(L) \in Nat
        /\ Cardinality(P) \in Nat /\ Cardinality(Q) \in Nat
        /\ Cardinality(L) <= Cardinality(K)
    <3>1. IsFiniteSet(K) /\ Cardinality(K) \in Nat
      BY <2>1, RecordsFinite
    <3>2. Cardinality(L) \in Nat /\ Cardinality(L) <= Cardinality(K)
      BY <2>1, <3>1, CountSubset
    <3>3. Cardinality(P) \in Nat /\ Cardinality(Q) \in Nat
      BY <2>2, SlotsFinite
    <3> QED
      BY <3>1, <3>2, <3>3
  <2>4. CASE Fills(q) => Fills(intakeReq[sl])
    <3>1. Q \in SUBSET P
      BY <1>1, <2>4 DEF Filling
    <3>2. Cardinality(Q) <= Cardinality(P)
      BY <2>2, <3>1, SlotsFinite, CountSubset
    <3>3. Cardinality(K) + Cardinality(P) <= link.capacity + load - 1
      BY DEF IInv, RoomBound
    <3> QED
      BY <1>2, <2>3, <3>2, <3>3
  <2>5. CASE Cardinality(Live) < link.capacity
    <3>1. Cardinality(K) <= Cardinality(Live) /\ Cardinality(Live) \in Nat
      <4>1. Live \in SUBSET Record
        BY DEF Live, Made
      <4> QED
        BY <2>1, <4>1, RecordsFinite, CountSubset
    <3>2. Q \in SUBSET Busy'
      BY IdleIsQuiet DEF Filling, Busy
    <3>3. Cardinality(Q) <= Cardinality(Busy')
      BY <1>4, <3>2, SlotsFinite, CountSubset
    <3> QED
      BY <1>2, <1>4, <2>3, <2>5, <3>1, <3>3
  <2> QED
    BY <2>4, <2>5
<1>7. MobileBound'
  <2> SUFFICES ASSUME NEW m \in Contact
               PROVE  Cardinality(RecordsOf(m)') + Cardinality(Creating(m)')
                        <= link.siblings + load - 1 + restarts * load
    BY <1>2 DEF MobileBound, Contact
  <2> PICK K, L, P, Q : /\ K = RecordsOf(m) /\ L = RecordsOf(m)'
                        /\ P = Creating(m) /\ Q = Creating(m)'
    OBVIOUS
  <2> PICK n : n = link.siblings + load - 1 + restarts * load
    OBVIOUS
  <2>1. L \in SUBSET K /\ K \in SUBSET Record
    BY <1>3 DEF RecordsOf, MadeByLink, KeysKept, Live, Made
  <2>2. P \in SUBSET Slot /\ Q \in SUBSET Slot
    BY DEF Creating
  <2>3. /\ Cardinality(K) \in Nat /\ Cardinality(L) \in Nat
        /\ Cardinality(P) \in Nat /\ Cardinality(Q) \in Nat
        /\ Cardinality(L) <= Cardinality(K)
    <3>1. IsFiniteSet(K) /\ Cardinality(K) \in Nat
      BY <2>1, RecordsFinite
    <3>2. Cardinality(L) \in Nat /\ Cardinality(L) <= Cardinality(K)
      BY <2>1, <3>1, CountSubset
    <3>3. Cardinality(P) \in Nat /\ Cardinality(Q) \in Nat
      BY <2>2, SlotsFinite
    <3> QED
      BY <3>1, <3>2, <3>3
  <2>4. Cardinality(K) + Cardinality(P) <= n /\ n \in Nat
    <3>1. restarts * load \in Nat /\ load >= 1 /\ link.siblings \in Nat
      BY Numbers DEF IInv
    <3>2. Cardinality(K) + Cardinality(P) <= n
      BY DEF IInv, MobileBound
    <3> QED
      BY <1>2, <3>1, <3>2
  <2>5. CASE Creates(q, m) => Creates(intakeReq[sl], m)
    <3>1. Q \in SUBSET P
      BY <1>1, <2>5 DEF Creating
    <3>2. Cardinality(Q) <= Cardinality(P)
      BY <2>2, <3>1, SlotsFinite, CountSubset
    <3> QED
      BY <2>3, <2>4, <3>2
  <2>6. CASE Creates(q, m) /\ intakeReq[sl].op = "limit" /\ SubmissionsBy(m) < link.siblings
    <3>1. q.op = "record"
      BY <2>6 DEF Creates
    <3>2. Cardinality(K) + Cardinality(Q) <= n
      BY <2>6, <3>1, RoomForOne
    <3> QED
      BY <2>3, <2>4, <3>2
  <2> QED
    BY <2>5, <2>6
<1> QED
  BY <1>5, <1>6, <1>7

(* While requests come one at a time, the others have nothing to do.       *)
LEMMA Alone ==
  ASSUME IInv, load = 1, NEW sl \in Slot,
         intakeReq[sl] # Idle \/ Cardinality(Busy) < load,
         NEW o \in Slot, o # sl
  PROVE  intakeReq[o] = Idle
<1>1. Busy \in SUBSET Slot
  BY DEF Busy
<1>2. IsFiniteSet(Busy) /\ Cardinality(Busy) \in Nat /\ Cardinality(Busy) <= 1
  BY <1>1, SlotsFinite DEF IInv, BusyBound
<1>3. CASE Cardinality(Busy) < load
  <2>1. Cardinality(Busy) = 0
    BY <1>2, <1>3
  <2>2. Busy = {}
    BY <1>2, <2>1, FS_EmptySet
  <2> QED
    BY <2>2 DEF Busy
<1>4. CASE intakeReq[sl] # Idle
  <2>1. sl \in Busy
    BY <1>4 DEF Busy
  <2>2. IsFiniteSet(Busy \ {sl}) /\ Cardinality(Busy \ {sl}) = Cardinality(Busy) - 1
    BY <1>2, <2>1, FS_RemoveElement
  <2>3. Cardinality(Busy \ {sl}) \in Nat
    BY <2>2, FS_CardinalityType
  <2>4. Cardinality(Busy \ {sl}) = 0
    BY <1>2, <2>2, <2>3
  <2>5. Busy \ {sl} = {}
    BY <2>2, <2>4, FS_EmptySet
  <2> QED
    BY <2>5 DEF Busy
<1> QED
  BY <1>3, <1>4

LEMMA FoundKept ==
  ASSUME IInv, NEW sl \in Slot, NEW q,
         intakeReq[sl] # Idle \/ Cardinality(Busy) < load,
         intakeReq' = [intakeReq EXCEPT ![sl] = q], load' = load,
         load = 1 => FoundLive(q)'
  PROVE  FoundStaysLive'
<1> SUFFICES ASSUME load = 1, NEW o \in Slot PROVE FoundLive(intakeReq[o])'
  BY DEF FoundStaysLive
<1>1. intakeReq'[sl] = q /\ \A p \in Slot : p # sl => intakeReq'[p] = intakeReq[p]
  BY DEF IInv, TypeOK
<1>2. CASE o = sl
  BY <1>1, <1>2 DEF FoundLive
<1>3. CASE o # sl
  <2>1. intakeReq'[o] = Idle
    BY <1>1, <1>3, Alone
  <2> QED
    BY <2>1 DEF FoundLive, Idle
<1> QED
  BY <1>2, <1>3

----------------------------------------------------------------------------
(* Steps that only read *)
LEMMA ReadingKeeps ==
  ASSUME IInv, NEW sl \in Slot, NEW q \in Request, Proceed(sl, q),
         intakeReq[sl] # Idle \/ Cardinality(Busy) < load,
         intakeReq[sl].op # "submission", q.op # "submission",
         Sound(q), load = 1 => FoundLive(q),
         \A name, m : Pends(q, name, m) =>
           Pends(intakeReq[sl], name, m) \/ SameKey(name, m) = {},
         Fills(q) => Fills(intakeReq[sl]) \/ link.capacity = 0
                       \/ Cardinality(Live) < link.capacity,
         \A m \in Contact : Creates(q, m) => Creates(intakeReq[sl], m) \/
           (intakeReq[sl].op = "limit" /\ SubmissionsBy(m) < link.siblings)
  PROVE  IInv'
<1>1. /\ intakeReq' = [intakeReq EXCEPT ![sl] = q]
      /\ UNCHANGED <<load, link, restarts>>
      /\ record' = record /\ submission' = submission
  BY DEF Proceed
<1>2. /\ record' \in [Record -> RecordRow]
      /\ submission' \in [Record \X Verified -> 0..MaxSubmissions]
      /\ KeysKept
  BY <1>1 DEF IInv, TypeOK, KeysKept
<1>3. Made' = Made /\ Live' = Live
  BY <1>1 DEF Made, Live
<1>4. Sound(q)' /\ (load = 1 => FoundLive(q)')
  BY <1>1, <1>3 DEF Sound, FoundLive
<1>5. TypeOK' /\ BusyBound' /\ RequestsSound'
  BY <1>1, <1>2, <1>4, SlotStep
<1>6. KeyBound' /\ RoomBound' /\ MobileBound'
  BY <1>1, <1>2, <1>3, <1>5, BoundsKept
<1>7. FoundStaysLive'
  BY <1>1, <1>4, FoundKept
<1>8. LeftBound'
  <2>1. intakeReq'[sl] = q /\ \A o \in Slot : o # sl => intakeReq'[o] = intakeReq[o]
    BY <1>1 DEF IInv, TypeOK
  <2>2. ASSUME NEW r \in Record, BeingSubmitted(r) PROVE BeingSubmitted(r)'
    BY <2>1, <2>2 DEF BeingSubmitted
  <2>3. Left' \subseteq Left
    BY <1>1, <1>3, <2>2 DEF Left, Author, Live, Made
  <2> QED
    BY <1>1, <2>3, LeftKept
<1>9. SubmissionsOnLiveRecords'
  BY <1>1, <1>3 DEF IInv, SubmissionsOnLiveRecords, HasSubmission
<1> QED
  BY <1>5, <1>6, <1>7, <1>8, <1>9 DEF IInv

LEMMA RefuseKeeps ==
  ASSUME IInv, NEW sl \in Slot, Refuse(sl),
         intakeReq[sl] # Idle, intakeReq[sl].op # "submission"
  PROVE  IInv'
BY IdleIsQuiet, ReadingKeeps DEF Refuse

LEMMA EnterKeeps ==
  ASSUME IInv, NEW sl \in Slot, NEW q \in Request, Enter(sl, q),
         q.op \notin {"room", "limit", "record", "submission"},
         Sound(q), load = 1 => FoundLive(q)
  PROVE  IInv'
<1>1. Proceed(sl, q) /\ Cardinality(Busy) < load /\ intakeReq[sl] = Idle
  BY DEF Enter, Busy
<1>2. ~Fills(q) /\ (\A name, m : ~Pends(q, name, m)) /\ (\A m : ~Creates(q, m))
  BY DEF Fills, Pends, Creates
<1> QED
  BY <1>1, <1>2, IdleIsQuiet, ReadingKeeps

LEMMA BeginsKeep ==
  ASSUME IInv, NEW sl \in Slot,
         \/ BeginSubmit(sl) \/ BeginFromAccount(sl) \/ ReadForReview(sl) \/ ReadForMerge(sl)
  PROVE  IInv'
<1>1. CASE BeginSubmit(sl)
  <2>1. PICK name \in Name, session \in Contact, mobile \in Contact :
          Enter(sl, [op |-> "policy", name |-> name, session |-> session, mobile |-> mobile])
    BY <1>1 DEF BeginSubmit
  <2> PICK q : q = [op |-> "policy", name |-> name, session |-> session, mobile |-> mobile]
    OBVIOUS
  <2>2. q \in Arriving /\ q.op = "policy"
    BY DEF Arriving
  <2>3. q \in Request /\ Sound(q) /\ FoundLive(q)
    BY <2>2 DEF Request, Sound, FoundLive
  <2> QED
    BY <2>1, <2>2, <2>3, EnterKeeps
<1>2. CASE BeginFromAccount(sl)
  <2>1. PICK name \in Name, mobile \in Mobile :
          Enter(sl, [op |-> "family", via |-> "account", name |-> name, mobile |-> mobile,
                     found |-> NoRecord])
    BY <1>2 DEF BeginFromAccount
  <2> PICK q : q = [op |-> "family", via |-> "account", name |-> name, mobile |-> mobile,
                    found |-> NoRecord]
    OBVIOUS
  <2>2. q \in FromAccount /\ q.op = "family" /\ q.found = NoRecord
    BY DEF FromAccount
  <2>3. q \in Request /\ Sound(q) /\ FoundLive(q)
    BY <2>2 DEF Request, Sound, FoundLive
  <2> QED
    BY <2>1, <2>2, <2>3, EnterKeeps
<1>3. CASE ReadForReview(sl)
  <2>1. PICK r \in Live, reject \in BOOLEAN :
          Enter(sl, [op |-> "review", found |-> r, reject |-> reject])
    BY <1>3 DEF ReadForReview
  <2> PICK q : q = [op |-> "review", found |-> r, reject |-> reject]
    OBVIOUS
  <2>2. r \in Record /\ r \in Made
    BY DEF Live, Made
  <2>3. q \in Reviewing /\ q.op = "review" /\ q.found = r
    BY <2>2 DEF Reviewing
  <2>4. q \in Request /\ Sound(q) /\ FoundLive(q)
    BY <2>2, <2>3 DEF Request, Sound, FoundLive
  <2> QED
    BY <2>1, <2>3, <2>4, EnterKeeps
<1>4. CASE ReadForMerge(sl)
  <2>1. PICK source \in Live, target \in Live :
          /\ source # target
          /\ Enter(sl, [op |-> "merge", found |-> source, target |-> target])
    BY <1>4 DEF ReadForMerge
  <2> PICK q : q = [op |-> "merge", found |-> source, target |-> target]
    OBVIOUS
  <2>2. {source, target} \subseteq Record /\ {source, target} \subseteq Made
    BY DEF Live, Made
  <2>3. q \in Merging /\ q.op = "merge" /\ q.found = source /\ q.target = target
    BY <2>2 DEF Merging
  <2>4. q \in Request /\ Sound(q) /\ FoundLive(q)
    BY <2>1, <2>2, <2>3 DEF Request, Sound, FoundLive
  <2> QED
    BY <2>1, <2>3, <2>4, EnterKeeps
<1> QED
  BY <1>1, <1>2, <1>3, <1>4

LEMMA CheckPolicyKeeps ==
  ASSUME IInv, NEW sl \in Slot, CheckPolicy(sl)
  PROVE  IInv'
<1> PICK r : r = intakeReq[sl]
  OBVIOUS
<1> PICK q : q = [op |-> "existing", via |-> "link", name |-> r.name,
                  mobile |-> r.mobile, found |-> NoRecord]
  OBVIOUS
<1>1. r.op = "policy" /\ (Refuse(sl) \/ Proceed(sl, q))
  BY DEF CheckPolicy
<1>2. r \in Arriving /\ r # Idle
  BY <1>1, Shapes DEF IInv
<1>3. q \in Submitting /\ q.op = "existing"
  BY <1>2 DEF Arriving, Submitting
<1>4. /\ q \in Request /\ Sound(q) /\ FoundLive(q)
      /\ ~Fills(q) /\ (\A name, m : ~Pends(q, name, m)) /\ (\A m : ~Creates(q, m))
  BY <1>3 DEF Request, Sound, FoundLive, Fills, Pends, Creates
<1>5. CASE Refuse(sl)
  BY <1>1, <1>2, <1>5, RefuseKeeps
<1>6. CASE Proceed(sl, q)
  BY <1>1, <1>2, <1>3, <1>4, <1>6, ReadingKeeps
<1> QED
  BY <1>1, <1>5, <1>6

LEMMA FindExistingKeeps ==
  ASSUME IInv, NEW sl \in Slot, FindExisting(sl)
  PROVE  IInv'
<1> PICK r : r = intakeReq[sl]
  OBVIOUS
<1>1. r.op = "existing"
  BY DEF FindExisting
<1>2. r \in Submitting /\ r # Idle
  BY <1>1, Shapes DEF IInv
<1>3. PICK k \in First(r.name, r.mobile) :
        Refuse(sl) \/ Proceed(sl, [r EXCEPT !.op = "room", !.found = k])
  BY DEF FindExisting
<1> PICK q : q = [op |-> "room", via |-> r.via, name |-> r.name, mobile |-> r.mobile, found |-> k]
  OBVIOUS
<1>4. [r EXCEPT !.op = "room", !.found = k] = q
  <2>1. PICK x : x = [r EXCEPT !.op = "room"]
    OBVIOUS
  <2>2. x = [op |-> "room", via |-> r.via, name |-> r.name, mobile |-> r.mobile,
             found |-> r.found]
    BY <1>2, <2>1 DEF Submitting
  <2>3. [x EXCEPT !.found = k] = q
    BY <2>2
  <2>4. [r EXCEPT !.op = "room", !.found = k] = [x EXCEPT !.found = k]
    BY <2>1
  <2> QED
    BY <2>3, <2>4
<1>5. \/ k = NoRecord /\ SameKey(r.name, r.mobile) = {}
      \/ k # NoRecord /\ k \in SameKey(r.name, r.mobile)
  <2>1. NoRecord \notin Record
    BY LimitsAssumption DEF NoRecord
  <2> QED
    BY <1>3, <2>1 DEF First, SameKey, Live, Made
<1>6. k # NoRecord => /\ k \in Live /\ k \in Made /\ k \in Record
                      /\ record[k].via = "link" /\ record[k].name = r.name
                      /\ record[k].mobile = r.mobile
  BY <1>5 DEF SameKey, Live, Made
<1>7. q \in Submitting /\ q.op = "room" /\ q.found = k /\ q.via = "link"
      /\ q.name = r.name /\ q.mobile = r.mobile
  BY <1>2, <1>6 DEF Submitting
<1>8. /\ q \in Request /\ Sound(q) /\ FoundLive(q)
      /\ ~Fills(q) /\ \A m : ~Creates(q, m)
  BY <1>6, <1>7 DEF Request, Sound, FoundLive, Fills, Creates
<1>9. \A name, m : Pends(q, name, m) => SameKey(name, m) = {}
  BY <1>5, <1>7 DEF Pends
<1>10. CASE Refuse(sl)
  BY <1>1, <1>2, <1>10, RefuseKeeps
<1>11. CASE Proceed(sl, q)
  BY <1>1, <1>2, <1>7, <1>8, <1>9, <1>11, ReadingKeeps
<1> QED
  BY <1>3, <1>4, <1>10, <1>11

(* A request that goes on to create a record, or to update the one found.  *)
LEMMA GoOnKeeps ==
  ASSUME IInv, NEW sl \in Slot, NEW op \in {"limit", "record"}, GoOn(sl, op),
         \/ intakeReq[sl].op = "room" /\ op = "limit"
         \/ intakeReq[sl].op \in {"limit", "family"} /\ op = "record",
         intakeReq[sl].op = "room" /\ intakeReq[sl].found = NoRecord =>
           link.capacity = 0 \/ Cardinality(Live) < link.capacity,
         intakeReq[sl].op = "limit" /\ intakeReq[sl].found = NoRecord =>
           SubmissionsBy(intakeReq[sl].mobile) < link.siblings
  PROVE  IInv'
<1> PICK r : r = intakeReq[sl]
  OBVIOUS
<1> PICK q : q = [op |-> op, via |-> r.via, name |-> r.name, mobile |-> r.mobile,
                  found |-> r.found]
  OBVIOUS
<1>1. /\ r.op \in {"room", "limit"} => r \in Submitting
      /\ r.op = "family" => r \in FromAccount /\ op = "record"
      /\ r # Idle
  BY Shapes DEF IInv
<1>2. [r EXCEPT !.op = op] = q
  BY <1>1 DEF Submitting, FromAccount
<1>3. /\ q.op = op /\ q.via = r.via /\ q.name = r.name /\ q.mobile = r.mobile
      /\ q.found = r.found
  OBVIOUS
<1>4. q \in Request
  <2>1. CASE r.op \in {"room", "limit"}
    BY <1>1, <2>1 DEF Submitting, Request
  <2>2. CASE r.op = "family"
    BY <1>1, <2>2 DEF FromAccount, Request
  <2> QED
    BY <2>1, <2>2
<1>5. Sound(r) /\ (load = 1 => FoundLive(r))
  BY DEF IInv, RequestsSound, FoundStaysLive
<1>6. Sound(q) /\ (load = 1 => FoundLive(q))
  BY <1>3, <1>5 DEF Sound, FoundLive
<1>7. r.op = "family" => r.via = "account"
  BY <1>1 DEF FromAccount
<1>8. \A name, m : Pends(q, name, m) => Pends(r, name, m)
  BY <1>3, <1>7 DEF Pends
<1>9. Fills(q) => Fills(r) \/ link.capacity = 0 \/ Cardinality(Live) < link.capacity
  BY <1>3, <1>7 DEF Fills
<1>10. Proceed(sl, q)
  BY <1>2 DEF GoOn
<1>11. \A m : Creates(q, m) => r.op = "limit" /\ SubmissionsBy(m) < link.siblings
  BY <1>3, <1>7 DEF Creates
<1> QED
  BY <1>1, <1>3, <1>4, <1>6, <1>8, <1>9, <1>10, <1>11, ReadingKeeps

LEMMA ChecksKeep ==
  ASSUME IInv, NEW sl \in Slot,
         CheckRoom(sl) \/ CheckLimit(sl) \/ CheckFamily(sl) \/ RefusePhoto(sl)
  PROVE  IInv'
<1>1. CASE Refuse(sl)
  <2>1. intakeReq[sl].op \in {"room", "limit", "family", "record"}
    BY DEF CheckRoom, CheckLimit, CheckFamily, RefusePhoto
  <2>2. intakeReq[sl] # Idle
    BY <2>1, IdleIsQuiet
  <2> QED
    BY <1>1, <2>1, <2>2, RefuseKeeps
<1>2. CASE CheckRoom(sl) /\ ~Refuse(sl)
  <2>1. /\ intakeReq[sl].op = "room" /\ GoOn(sl, "limit")
        /\ ~(link.capacity # 0 /\ intakeReq[sl].found = NoRecord
               /\ Cardinality(Live) >= link.capacity)
    BY <1>2 DEF CheckRoom
  <2>2. Cardinality(Live) \in Nat /\ link.capacity \in Nat
    BY WhatIsCounted, RecordsFinite, Numbers DEF IInv
  <2>3. intakeReq[sl].found = NoRecord => link.capacity = 0 \/ Cardinality(Live) < link.capacity
    BY <2>1, <2>2
  <2> QED
    BY <2>1, <2>3, GoOnKeeps
<1>3. CASE CheckLimit(sl) /\ ~Refuse(sl)
  <2>1. /\ intakeReq[sl].op = "limit" /\ GoOn(sl, "record")
        /\ ~(intakeReq[sl].found = NoRecord
               /\ SubmissionsBy(intakeReq[sl].mobile) >= link.siblings)
    BY <1>3 DEF CheckLimit
  <2>2. intakeReq[sl].mobile \in Contact
    BY <2>1, Shapes DEF IInv, Submitting
  <2>3. SubmissionsBy(intakeReq[sl].mobile) \in Nat /\ link.siblings \in Nat
    BY <2>2, SubmissionsOfRecords, Numbers DEF IInv
  <2>4. intakeReq[sl].found = NoRecord => SubmissionsBy(intakeReq[sl].mobile) < link.siblings
    BY <2>1, <2>3
  <2> QED
    BY <2>1, <2>4, GoOnKeeps
<1>4. CASE CheckFamily(sl) /\ ~Refuse(sl)
  BY <1>4, GoOnKeeps DEF CheckFamily
<1> QED
  BY <1>1, <1>2, <1>3, <1>4 DEF RefusePhoto

----------------------------------------------------------------------------
(* Steps that write *)

(* A write that makes no record, by a request that does not go on to.      *)
LEMMA WritingKeeps ==
  ASSUME IInv, NEW sl \in Slot, NEW q \in Request, intakeReq[sl] # Idle,
         intakeReq' = [intakeReq EXCEPT ![sl] = q],
         UNCHANGED <<load, link, restarts>>,
         record' \in [Record -> RecordRow],
         submission' \in [Record \X Verified -> 0..MaxSubmissions],
         KeysKept, \A r \in Record : r \in Live' => r \in Live,
         q.op \in {"idle", "submission"}, Sound(q)', load = 1 => FoundLive(q)',
         Left' \subseteq Left, SubmissionsOnLiveRecords'
  PROVE  IInv'
<1>1. TypeOK' /\ BusyBound' /\ RequestsSound'
  BY SlotStep
<1>2. ~Fills(q) /\ (\A name, m : ~Pends(q, name, m)) /\ (\A m : ~Creates(q, m))
  BY DEF Fills, Pends, Creates
<1>3. KeyBound' /\ RoomBound' /\ MobileBound'
  BY <1>1, <1>2, BoundsKept
<1>4. FoundStaysLive'
  BY FoundKept
<1>5. LeftBound'
  BY LeftKept
<1> QED
  BY <1>1, <1>3, <1>4, <1>5 DEF IInv

(* The request that writes the record goes on to the submission.           *)
Written(r, k) == [op |-> "submission", via |-> r.via, name |-> r.name, mobile |-> r.mobile,
                  found |-> k]

LEMMA WrittenRequest ==
  ASSUME NEW r \in Submitting \cup FromAccount, NEW k \in Record
  PROVE  /\ [r EXCEPT !.op = "submission", !.found = k] = Written(r, k)
         /\ Written(r, k) \in Request
         /\ Written(r, k).op = "submission" /\ Written(r, k).found = k
         /\ Written(r, k).via = r.via /\ Written(r, k).mobile = r.mobile
<1> PICK q : q = Written(r, k)
  OBVIOUS
<1>1. q \in Request
  <2>1. CASE r \in Submitting
    BY <2>1 DEF Submitting, Request, Written
  <2>2. CASE r \in FromAccount
    BY <2>2 DEF FromAccount, Request, Written
  <2> QED
    BY <2>1, <2>2
<1>2. [r EXCEPT !.op = "submission", !.found = k] = q
  <2>1. PICK x : x = [r EXCEPT !.op = "submission"]
    OBVIOUS
  <2>2. x = [op |-> "submission", via |-> r.via, name |-> r.name, mobile |-> r.mobile,
             found |-> r.found]
    BY <2>1 DEF Submitting, FromAccount
  <2>3. [x EXCEPT !.found = k] = q
    BY <2>2 DEF Written
  <2>4. [r EXCEPT !.op = "submission", !.found = k] = [x EXCEPT !.found = k]
    BY <2>1
  <2> QED
    BY <2>3, <2>4
<1>3. q.op = "submission" /\ q.found = k /\ q.via = r.via /\ q.mobile = r.mobile
  BY DEF Written
<1> QED
  BY <1>1, <1>2, <1>3

(* Nobody else's submission is forgotten when a record is written.         *)
LEMMA LeftByWrite ==
  ASSUME IInv, NEW sl \in Slot, NEW k \in Record, NEW q \in Request,
         intakeReq[sl].op # "submission", q.op = "submission", q.found = k,
         intakeReq' = [intakeReq EXCEPT ![sl] = q], submission' = submission,
         \A r \in Record : r # k => record'[r] = record[r]
  PROVE  Left' \subseteq Left
<1>1. intakeReq'[sl] = q /\ \A o \in Slot : o # sl => intakeReq'[o] = intakeReq[o]
  BY DEF IInv, TypeOK
<1>4. Left' \subseteq Record
  BY DEF Left, Live, Made
<1> SUFFICES ASSUME NEW r \in Record, r \in Left' PROVE r \in Left
  BY <1>4
<1>2. CASE r = k
  <2>1. BeingSubmitted(k)'
    BY <1>1 DEF BeingSubmitted
  <2> QED
    BY <1>2, <2>1 DEF Left
<1>3. CASE r # k
  <2>1. r \in Live
    BY <1>3 DEF Left, Live, Made
  <2>2. submission[<<r, Author(r)>>] = 0
    BY <1>3 DEF Left, Author
  <2>3. BeingSubmitted(r) => BeingSubmitted(r)'
    BY <1>1 DEF BeingSubmitted
  <2> QED
    BY <2>1, <2>2, <2>3 DEF Left
<1> QED
  BY <1>2, <1>3

LEMMA UpdateKeeps ==
  ASSUME IInv, NEW sl \in Slot, WriteRecord(sl), intakeReq[sl].found # NoRecord
  PROVE  IInv'
<1> PICK r : r = intakeReq[sl]
  OBVIOUS
<1>1. /\ r.op = "record" /\ r # Idle /\ r.found # NoRecord
      /\ Sound(r) /\ (load = 1 => FoundLive(r))
  BY IdleIsQuiet DEF WriteRecord, IInv, RequestsSound, FoundStaysLive
<1> PICK k : k = r.found
  OBVIOUS
<1>2. /\ k \in Made /\ k \in Record
      /\ record[k].via = r.via /\ record[k].name = r.name /\ record[k].mobile = r.mobile
      /\ load = 1 => k \in Live
  BY <1>1 DEF Sound, FoundLive, Made
<1> PICK row : row = [via |-> r.via, name |-> r.name, mobile |-> r.mobile,
                      rejected |-> FALSE, deleted |-> record[k].deleted]
  OBVIOUS
<1>3. /\ record' = [record EXCEPT ![k] = row]
      /\ intakeReq' = [intakeReq EXCEPT ![sl] = [r EXCEPT !.op = "submission", !.found = k]]
      /\ UNCHANGED <<load, link, restarts>> /\ submission' = submission
  BY <1>1 DEF WriteRecord
<1> PICK q : q = Written(r, k)
  OBVIOUS
<1>4. /\ q \in Request /\ q.op = "submission" /\ q.found = k
      /\ q.via = r.via /\ q.mobile = r.mobile
      /\ intakeReq' = [intakeReq EXCEPT ![sl] = q]
  <2>1. r \in Submitting \cup FromAccount
    BY <1>1, Shapes DEF IInv
  <2>2. [r EXCEPT !.op = "submission", !.found = k] = q
    BY <1>2, <2>1, WrittenRequest
  <2>3. q \in Request /\ q.op = "submission" /\ q.found = k /\ q.via = r.via /\ q.mobile = r.mobile
    BY <1>2, <2>1, WrittenRequest
  <2> QED
    BY <1>3, <2>2, <2>3
<1>5. record[k] \in RecordRow /\ record[k].via \in {"link", "account"}
  BY <1>2, MadeByWhom DEF IInv, TypeOK, Made
<1>6. row \in RecordRow /\ row # Unmade
  <2>1. row \in RecordRow
    BY <1>2, <1>5 DEF RecordRow, Unmade
  <2>2. row.via \in {"link", "account"}
    BY <1>2, <1>5
  <2> QED
    BY <2>1, <2>2, MadeByWhom
<1>7. /\ record' \in [Record -> RecordRow]
      /\ record'[k] = row
      /\ \A j \in Record : j # k => record'[j] = record[j]
  BY <1>2, <1>3, <1>6 DEF IInv, TypeOK
<1>8. submission' \in [Record \X Verified -> 0..MaxSubmissions]
  BY <1>3 DEF IInv, TypeOK
<1>9. KeysKept
  BY <1>2, <1>7 DEF KeysKept, Made
<1>10. Live' = Live /\ Made' = Made
  BY <1>2, <1>6, <1>7 DEF Live, Made
<1>11. Sound(q)' /\ (load = 1 => FoundLive(q)')
  BY <1>2, <1>4, <1>7, <1>10 DEF Sound, FoundLive
<1>12. Left' \subseteq Left
  <2>1. intakeReq[sl].op # "submission" /\ submission' = submission
    BY <1>1, <1>3
  <2>2. k \in Record /\ q \in Request
    BY <1>2, <1>4
  <2> QED
    BY <1>4, <1>7, <2>1, <2>2, LeftByWrite
<1>13. SubmissionsOnLiveRecords'
  BY <1>3, <1>10 DEF IInv, SubmissionsOnLiveRecords, HasSubmission
<1> QED
  BY <1>1, <1>3, <1>4, <1>7, <1>8, <1>9, <1>10, <1>11, <1>12, <1>13, WritingKeeps

(* The record of a child is created: one more record for one request less  *)
(* that was going to create one.                                           *)
LEMMA CreateKeeps ==
  ASSUME IInv, NEW sl \in Slot, WriteRecord(sl), intakeReq[sl].found = NoRecord
  PROVE  IInv'
<1> PICK r : r = intakeReq[sl]
  OBVIOUS
<1>1. r.op = "record" /\ r # Idle /\ r.found = NoRecord
  BY IdleIsQuiet DEF WriteRecord
<1>2. r \in Submitting \cup FromAccount
  BY <1>1, Shapes DEF IInv
<1>3. PICK k \in Record \ Made :
        /\ record' = [record EXCEPT ![k] =
             [via |-> r.via, name |-> r.name, mobile |-> r.mobile, rejected |-> FALSE,
              deleted |-> FALSE]]
        /\ intakeReq' = [intakeReq EXCEPT ![sl] = [r EXCEPT !.op = "submission", !.found = k]]
        /\ UNCHANGED <<load, link, restarts>> /\ submission' = submission
  BY <1>1 DEF WriteRecord
<1> PICK row : row = [via |-> r.via, name |-> r.name, mobile |-> r.mobile,
                      rejected |-> FALSE, deleted |-> FALSE]
  OBVIOUS
<1> PICK q : q = Written(r, k)
  OBVIOUS
<1>4. /\ q \in Request /\ q.op = "submission" /\ q.found = k /\ q # Idle
      /\ q.via = r.via /\ q.mobile = r.mobile
      /\ intakeReq' = [intakeReq EXCEPT ![sl] = q]
  <2>1. [r EXCEPT !.op = "submission", !.found = k] = q
    BY <1>2, WrittenRequest
  <2>2. q \in Request /\ q.op = "submission" /\ q.found = k /\ q.via = r.via /\ q.mobile = r.mobile
    BY <1>2, WrittenRequest
  <2> QED
    BY <1>3, <2>1, <2>2, IdleIsQuiet
<1>5. /\ row \in RecordRow /\ row # Unmade
      /\ row.via = r.via /\ row.name = r.name /\ row.mobile = r.mobile /\ row.deleted = FALSE
  <2>1. CASE r \in Submitting
    BY <2>1 DEF Submitting, RecordRow, Unmade
  <2>2. CASE r \in FromAccount
    BY <2>2 DEF FromAccount, RecordRow, Unmade, Contact
  <2> QED
    BY <1>2, <2>1, <2>2
<1>6. /\ record' \in [Record -> RecordRow]
      /\ record'[k] = row
      /\ \A j \in Record : j # k => record'[j] = record[j]
  BY <1>3, <1>5 DEF IInv, TypeOK
<1>7. submission' \in [Record \X Verified -> 0..MaxSubmissions]
  BY <1>3 DEF IInv, TypeOK
<1>8. KeysKept
  BY <1>6 DEF KeysKept, Made
<1>9. k \in Made' /\ k \in Live'
  BY <1>5, <1>6 DEF Made, Live
<1>10. Sound(q)' /\ (load = 1 => FoundLive(q)')
  BY <1>4, <1>5, <1>6, <1>9 DEF Sound, FoundLive
<1>11. TypeOK' /\ BusyBound' /\ RequestsSound'
  BY <1>1, <1>3, <1>4, <1>6, <1>7, <1>8, <1>10, SlotStep
<1>12. /\ intakeReq'[sl] = q
       /\ \A o \in Slot : o # sl => intakeReq'[o] = intakeReq[o]
  BY <1>4 DEF IInv, TypeOK
<1>13. ~Fills(q) /\ (\A name, m : ~Pends(q, name, m)) /\ (\A m : ~Creates(q, m))
  BY <1>4 DEF Fills, Pends, Creates
<1>14. load \in Nat /\ load' = load /\ link.capacity \in Nat /\ link' = link
  BY <1>3, Numbers DEF IInv
<1>15. KeyBound'
  <2> SUFFICES ASSUME NEW name \in Name, NEW m \in Contact
               PROVE  Cardinality(SameKey(name, m)') + Cardinality(Pending(name, m)') <= load
    BY <1>14 DEF KeyBound, Contact
  <2> PICK K, L, P, Q : /\ K = SameKey(name, m) /\ L = SameKey(name, m)'
                        /\ P = Pending(name, m) /\ Q = Pending(name, m)'
    OBVIOUS
  <2>1. /\ K \in SUBSET Record /\ L \in SUBSET Record
        /\ P \in SUBSET Slot /\ Q \in SUBSET Slot
    BY DEF SameKey, Live, Made, Pending
  <2>2. /\ IsFiniteSet(K) /\ Cardinality(K) \in Nat /\ Cardinality(L) \in Nat
        /\ IsFiniteSet(P) /\ Cardinality(P) \in Nat /\ Cardinality(Q) \in Nat
    BY <2>1, RecordsFinite, SlotsFinite
  <2>3. Cardinality(K) + Cardinality(P) <= load
    BY DEF IInv, KeyBound
  <2>4. CASE Pends(r, name, m)
    <3>1. L \in SUBSET (K \cup {k})
      BY <1>6 DEF SameKey, Live, Made
    <3>2. sl \in P /\ Q \in SUBSET (P \ {sl})
      BY <1>12, <1>13, <2>4 DEF Pending
    <3>3. Cardinality(L) <= Cardinality(K) + 1
      BY <2>2, <3>1, CountAdd
    <3>4. Cardinality(Q) <= Cardinality(P) - 1
      BY <2>2, <3>2, CountRemove
    <3> QED
      BY <1>14, <2>2, <2>3, <3>3, <3>4
  <2>5. CASE ~Pends(r, name, m)
    <3>1. L \in SUBSET K
      <4>1. ~(row.via = "link" /\ row.name = name /\ row.mobile = m)
        BY <1>1, <1>5, <2>5 DEF Pends
      <4> QED
        BY <1>6, <4>1 DEF SameKey, Live, Made
    <3>2. Q \in SUBSET P
      BY <1>12, <1>13 DEF Pending
    <3>3. Cardinality(L) <= Cardinality(K) /\ Cardinality(Q) <= Cardinality(P)
      BY <2>2, <3>1, <3>2, CountSubset
    <3> QED
      BY <1>14, <2>2, <2>3, <3>3
  <2> QED
    BY <2>4, <2>5
<1>16. RoomBound'
  <2> SUFFICES ASSUME link.capacity # 0
               PROVE  Cardinality(MadeByLink') + Cardinality(Filling')
                        <= link.capacity + load - 1
    BY <1>14 DEF RoomBound
  <2> PICK K, L, P, Q : /\ K = MadeByLink /\ L = MadeByLink'
                        /\ P = Filling /\ Q = Filling'
    OBVIOUS
  <2>1. /\ K \in SUBSET Record /\ L \in SUBSET Record
        /\ P \in SUBSET Slot /\ Q \in SUBSET Slot
    BY DEF MadeByLink, Live, Made, Filling
  <2>2. /\ IsFiniteSet(K) /\ Cardinality(K) \in Nat /\ Cardinality(L) \in Nat
        /\ IsFiniteSet(P) /\ Cardinality(P) \in Nat /\ Cardinality(Q) \in Nat
    BY <2>1, RecordsFinite, SlotsFinite
  <2>3. Cardinality(K) + Cardinality(P) <= link.capacity + load - 1
    BY DEF IInv, RoomBound
  <2>4. CASE Fills(r)
    <3>1. L \in SUBSET (K \cup {k})
      BY <1>6 DEF MadeByLink, Live, Made
    <3>2. sl \in P /\ Q \in SUBSET (P \ {sl})
      BY <1>12, <1>13, <2>4 DEF Filling
    <3>3. Cardinality(L) <= Cardinality(K) + 1
      BY <2>2, <3>1, CountAdd
    <3>4. Cardinality(Q) <= Cardinality(P) - 1
      BY <2>2, <3>2, CountRemove
    <3> QED
      BY <1>14, <2>2, <2>3, <3>3, <3>4
  <2>5. CASE ~Fills(r)
    <3>1. L \in SUBSET K
      <4>1. row.via # "link"
        BY <1>1, <1>5, <2>5 DEF Fills
      <4> QED
        BY <1>6, <4>1 DEF MadeByLink, Live, Made
    <3>2. Q \in SUBSET P
      BY <1>12, <1>13 DEF Filling
    <3>3. Cardinality(L) <= Cardinality(K) /\ Cardinality(Q) <= Cardinality(P)
      BY <2>2, <3>1, <3>2, CountSubset
    <3> QED
      BY <1>14, <2>2, <2>3, <3>3
  <2> QED
    BY <2>4, <2>5
<1>17. FoundStaysLive'
  BY <1>1, <1>3, <1>4, <1>10, FoundKept
<1>18. LeftBound'
  <2>1. intakeReq[sl].op # "submission" /\ submission' = submission
    BY <1>1, <1>3
  <2>2. Left' \subseteq Left
    <3>1. k \in Record /\ q \in Request
      BY <1>4
    <3> QED
      BY <1>4, <1>6, <2>1, <3>1, LeftByWrite
  <2> QED
    BY <1>3, <2>2, LeftKept
<1>19. SubmissionsOnLiveRecords'
  <2>1. \A j \in Live : j \in Live'
    BY <1>6 DEF Live, Made
  <2> QED
    BY <1>3, <2>1 DEF IInv, SubmissionsOnLiveRecords, HasSubmission
<1>20. MobileBound'
  <2> SUFFICES ASSUME NEW m \in Contact
               PROVE  Cardinality(RecordsOf(m)') + Cardinality(Creating(m)')
                        <= link.siblings + load - 1 + restarts * load
    BY <1>3 DEF MobileBound, Contact
  <2> PICK K, L, P, Q : /\ K = RecordsOf(m) /\ L = RecordsOf(m)'
                        /\ P = Creating(m) /\ Q = Creating(m)'
    OBVIOUS
  <2> PICK n : n = link.siblings + load - 1 + restarts * load
    OBVIOUS
  <2>1. /\ K \in SUBSET Record /\ L \in SUBSET Record
        /\ P \in SUBSET Slot /\ Q \in SUBSET Slot
    BY DEF RecordsOf, MadeByLink, Live, Made, Creating
  <2>2. /\ IsFiniteSet(K) /\ Cardinality(K) \in Nat /\ Cardinality(L) \in Nat
        /\ IsFiniteSet(P) /\ Cardinality(P) \in Nat /\ Cardinality(Q) \in Nat
    BY <2>1, RecordsFinite, SlotsFinite
  <2>3. Cardinality(K) + Cardinality(P) <= n /\ n \in Nat
    <3>1. restarts * load \in Nat /\ load >= 1 /\ load \in Nat /\ link.siblings \in Nat
      BY Numbers DEF IInv
    <3>2. Cardinality(K) + Cardinality(P) <= n
      BY DEF IInv, MobileBound
    <3> QED
      BY <3>1, <3>2
  <2>4. CASE Creates(r, m)
    <3>1. L \in SUBSET (K \cup {k})
      BY <1>6 DEF RecordsOf, MadeByLink, Live, Made
    <3>2. sl \in P /\ Q \in SUBSET (P \ {sl})
      BY <1>12, <1>13, <2>4 DEF Creating
    <3>3. Cardinality(L) <= Cardinality(K) + 1
      BY <2>2, <3>1, CountAdd
    <3>4. Cardinality(Q) <= Cardinality(P) - 1
      BY <2>2, <3>2, CountRemove
    <3> QED
      BY <2>2, <2>3, <3>3, <3>4
  <2>5. CASE ~Creates(r, m)
    <3>1. L \in SUBSET K
      <4>1. ~(row.via = "link" /\ row.mobile = m)
        BY <1>1, <1>5, <2>5 DEF Creates
      <4> QED
        BY <1>6, <4>1 DEF RecordsOf, MadeByLink, Live, Made
    <3>2. Q \in SUBSET P
      BY <1>12, <1>13 DEF Creating
    <3>3. Cardinality(L) <= Cardinality(K) /\ Cardinality(Q) <= Cardinality(P)
      BY <2>2, <3>1, <3>2, CountSubset
    <3> QED
      BY <2>2, <2>3, <3>3
  <2> QED
    BY <2>4, <2>5
<1> QED
  BY <1>11, <1>15, <1>16, <1>17, <1>18, <1>19, <1>20 DEF IInv

LEMMA UpToIsBounded ==
  ASSUME NEW n \in Nat
  PROVE  UpTo(n) \in 0..MaxSubmissions /\ (n > 0 => UpTo(n) > 0)
<1>1. MaxSubmissions \in Nat \ {0}
  BY LimitsAssumption
<1> QED
  BY <1>1 DEF UpTo

LEMMA SubmissionsCounted ==
  ASSUME TypeOK, NEW r \in Record, NEW m \in Verified
  PROVE  submission[<<r, m>>] \in 0..MaxSubmissions /\ submission[<<r, m>>] \in Nat
<1>1. MaxSubmissions \in Nat
  BY LimitsAssumption
<1>2. submission[<<r, m>>] \in 0..MaxSubmissions
  BY DEF TypeOK
<1> QED
  BY <1>1, <1>2

LEMMA AuthorIsVerified ==
  ASSUME TypeOK, NEW r \in Live
  PROVE  r \in Record /\ Author(r) \in Verified
<1>1. r \in Record /\ record[r] \in RecordRow /\ record[r] # Unmade
  BY DEF Live, Made, TypeOK
<1> QED
  BY <1>1 DEF Author, RecordRow, Verified

LEMMA WriteSubmissionKeeps ==
  ASSUME IInv, NEW sl \in Slot, WriteSubmission(sl)
  PROVE  IInv'
<1> PICK r : r = intakeReq[sl]
  OBVIOUS
<1> PICK m : m = IF r.via = "account" THEN "account" ELSE r.mobile
  OBVIOUS
<1> PICK k : k = r.found
  OBVIOUS
<1>1. /\ r.op = "submission" /\ r # Idle
      /\ submission' = [submission EXCEPT ![<<k, m>>] = UpTo(@ + 1)]
      /\ intakeReq' = [intakeReq EXCEPT ![sl] = Idle]
      /\ UNCHANGED <<load, link, restarts>> /\ record' = record
  BY IdleIsQuiet DEF WriteSubmission
<1>2. k \in Made /\ k \in Record /\ (load = 1 => k \in Live)
  BY <1>1 DEF IInv, RequestsSound, Sound, FoundStaysLive, FoundLive, Made
<1>3. m \in Verified
  <2>1. r \in Submitting \cup FromAccount
    BY <1>1, Shapes DEF IInv
  <2> QED
    BY <2>1 DEF Submitting, FromAccount, Verified
<1> PICK n : n = submission[<<k, m>>]
  OBVIOUS
<1>4. n \in Nat
  BY <1>2, <1>3, SubmissionsCounted DEF IInv
<1> PICK u : u = UpTo(n + 1)
  OBVIOUS
<1>5. u \in 0..MaxSubmissions /\ u > 0
  BY <1>4, UpToIsBounded
<1>6. submission' = [submission EXCEPT ![<<k, m>>] = u]
  BY <1>1
<1>7. /\ submission' \in [Record \X Verified -> 0..MaxSubmissions]
      /\ submission'[<<k, m>>] = u
      /\ \A j \in Record, v \in Verified :
           j # k => submission'[<<j, v>>] = submission[<<j, v>>]
  BY <1>2, <1>3, <1>5, <1>6 DEF IInv, TypeOK
<1>8. HasSubmission(k)' /\ \A j \in Record : j # k => (HasSubmission(j)' <=> HasSubmission(j))
  <2>1. HasSubmission(k)'
    BY <1>3, <1>5, <1>7 DEF HasSubmission
  <2>2. \A j \in Record : j # k => (HasSubmission(j)' <=> HasSubmission(j))
    BY <1>7 DEF HasSubmission
  <2> QED
    BY <2>1, <2>2
<1>9. Made' = Made /\ Live' = Live /\ KeysKept
  BY <1>1 DEF Made, Live, KeysKept
<1>10. record' \in [Record -> RecordRow]
  BY <1>1 DEF IInv, TypeOK
<1>11. Sound(Idle)' /\ FoundLive(Idle)'
  BY DEF Sound, FoundLive, Idle
<1>12. Left' \subseteq Left
  <2>1. \A o \in Slot : o # sl => intakeReq'[o] = intakeReq[o]
    BY <1>1 DEF IInv, TypeOK
  <2>2. Left' \subseteq Record
    BY DEF Left, Live, Made
  <2> SUFFICES ASSUME NEW j \in Record, j \in Left' PROVE j \in Left
    BY <2>2
  <2>3. j \in Live /\ submission'[<<j, Author(j)>>] = 0 /\ ~BeingSubmitted(j)'
    BY <1>1, <1>9 DEF Left, Author
  <2>4. j # k
    <3>1. record[k].via = r.via /\ record[k].mobile = r.mobile
      BY <1>1 DEF IInv, RequestsSound, Sound
    <3>2. Author(k) = m
      BY <3>1 DEF Author
    <3> QED
      BY <1>5, <1>7, <2>3, <3>2
  <2>5. submission[<<j, Author(j)>>] = 0
    <3>1. Author(j) \in Verified
      BY <2>3, AuthorIsVerified DEF IInv
    <3> QED
      BY <1>7, <2>3, <2>4, <3>1
  <2>6. ~BeingSubmitted(j)
    BY <2>1, <2>3, <2>4 DEF BeingSubmitted
  <2> QED
    BY <2>3, <2>5, <2>6 DEF Left
<1>13. SubmissionsOnLiveRecords'
  BY <1>1, <1>2, <1>8, <1>9 DEF IInv, SubmissionsOnLiveRecords
<1> QED
  BY <1>1, <1>7, <1>9, <1>10, <1>11, <1>12, <1>13, IdleIsQuiet, WritingKeeps

(* The desk ends a request: live records that had a submission keep one.   *)
LEMMA LeftByDesk ==
  ASSUME IInv, NEW sl \in Slot, intakeReq[sl].op # "submission",
         intakeReq' = [intakeReq EXCEPT ![sl] = Idle], KeysKept,
         \A r \in Record : r \in Live' => r \in Live,
         \A r \in Live', m \in Verified :
           submission'[<<r, m>>] = 0 => submission[<<r, m>>] = 0
  PROVE  Left' \subseteq Left
<1>1. \A o \in Slot : o # sl => intakeReq'[o] = intakeReq[o]
  BY DEF IInv, TypeOK
<1>2. Left' \subseteq Record
  BY DEF Left, Live, Made
<1> SUFFICES ASSUME NEW r \in Record, r \in Left' PROVE r \in Left
  BY <1>2
<1>3. r \in Live' /\ r \in Live /\ submission'[<<r, Author(r)'>>] = 0 /\ ~BeingSubmitted(r)'
  BY DEF Left
<1>4. Author(r)' = Author(r)
  BY <1>3 DEF Author, KeysKept, Live
<1>5. submission[<<r, Author(r)>>] = 0
  <2>1. Author(r) \in Verified
    BY <1>3, AuthorIsVerified DEF IInv
  <2> QED
    BY <1>3, <1>4, <2>1
<1>6. ~BeingSubmitted(r)
  BY <1>1, <1>3 DEF BeingSubmitted
<1> QED
  BY <1>3, <1>5, <1>6 DEF Left

LEMMA RowMarked ==
  ASSUME NEW row \in RecordRow, row # Unmade, NEW b \in BOOLEAN
  PROVE  LET marked == [row EXCEPT !.rejected = b] IN
           /\ marked \in RecordRow /\ marked # Unmade
           /\ marked.via = row.via /\ marked.name = row.name /\ marked.mobile = row.mobile
           /\ marked.rejected = b /\ marked.deleted = row.deleted
BY DEF RecordRow, Unmade

LEMMA CommitReviewKeeps ==
  ASSUME IInv, NEW sl \in Slot, CommitReview(sl)
  PROVE  IInv'
<1> PICK r : r = intakeReq[sl]
  OBVIOUS
<1> PICK k : k = r.found
  OBVIOUS
<1>1. /\ r.op = "review" /\ r # Idle
      /\ record' = [record EXCEPT ![k].rejected = r.reject]
      /\ intakeReq' = [intakeReq EXCEPT ![sl] = Idle]
      /\ UNCHANGED <<load, link, restarts>> /\ submission' = submission
  BY IdleIsQuiet DEF CommitReview
<1>2. r.reject \in BOOLEAN
  BY <1>1, Shapes DEF Reviewing, IInv
<1>3. k \in Record /\ record[k] \in RecordRow /\ record[k] # Unmade
  BY <1>1 DEF IInv, RequestsSound, Sound, Made, TypeOK
<1> PICK row : row = [record[k] EXCEPT !.rejected = r.reject]
  OBVIOUS
<1>4. /\ row \in RecordRow /\ row # Unmade
      /\ row.via = record[k].via /\ row.name = record[k].name /\ row.mobile = record[k].mobile
      /\ row.deleted = record[k].deleted
  BY <1>2, <1>3, RowMarked
<1>5. record' = [record EXCEPT ![k] = row]
  BY <1>1, <1>3
<1>6. /\ record' \in [Record -> RecordRow]
      /\ record'[k] = row
      /\ \A j \in Record : j # k => record'[j] = record[j]
  BY <1>3, <1>4, <1>5 DEF IInv, TypeOK
<1>7. Made' = Made /\ Live' = Live /\ KeysKept
  <2>1. \A j \in Record :
          /\ record'[j] # Unmade <=> record[j] # Unmade
          /\ record'[j].deleted = record[j].deleted
          /\ record'[j].via = record[j].via /\ record'[j].name = record[j].name
          /\ record'[j].mobile = record[j].mobile
    BY <1>3, <1>4, <1>6
  <2>2. Made' = Made /\ KeysKept
    BY <2>1 DEF Made, KeysKept
  <2>3. Live' = Live
    BY <2>1, <2>2 DEF Live, Made
  <2> QED
    BY <2>2, <2>3
<1>8. submission' \in [Record \X Verified -> 0..MaxSubmissions]
  BY <1>1 DEF IInv, TypeOK
<1>9. Sound(Idle)' /\ FoundLive(Idle)'
  BY DEF Sound, FoundLive, Idle
<1>10. \A j \in Record : HasSubmission(j)' <=> HasSubmission(j)
  BY <1>1 DEF HasSubmission
<1>11. Left' \subseteq Left
  BY <1>1, <1>7, LeftByDesk
<1>12. SubmissionsOnLiveRecords'
  BY <1>1, <1>7, <1>10 DEF IInv, SubmissionsOnLiveRecords
<1> QED
  BY <1>1, <1>6, <1>7, <1>8, <1>9, <1>11, <1>12, IdleIsQuiet, WritingKeeps

(* The source of a merge is archived and empty, the target keeps what it   *)
(* had and gets the rest.                                                  *)
LEMMA CommitMergeKeeps ==
  ASSUME IInv, NEW sl \in Slot, CommitMerge(sl)
  PROVE  IInv'
<1> PICK r : r = intakeReq[sl]
  OBVIOUS
<1> PICK k, t : k = r.found /\ t = r.target
  OBVIOUS
<1>1. PICK b \in {FALSE, record[t].rejected} :
        record' = [record EXCEPT ![t].rejected = b,
                                 ![k].rejected = TRUE, ![k].deleted = TRUE]
  BY DEF CommitMerge
<1>2. /\ r.op = "merge" /\ r # Idle
      /\ submission' = Given(k, t)
      /\ intakeReq' = [intakeReq EXCEPT ![sl] = Idle]
      /\ UNCHANGED <<load, link, restarts>>
  BY IdleIsQuiet DEF CommitMerge
<1>3. /\ k \in Record /\ record[k] \in RecordRow /\ record[k] # Unmade
      /\ t \in Record /\ record[t] \in RecordRow /\ record[t] # Unmade
      /\ t # k /\ (load = 1 => t \in Live)
  BY <1>2 DEF IInv, RequestsSound, Sound, FoundStaysLive, FoundLive, Made, TypeOK
<1>4. b \in BOOLEAN
  BY <1>1, <1>3 DEF RecordRow, Unmade
<1> PICK target : target = [record[t] EXCEPT !.rejected = b]
  OBVIOUS
<1> PICK source : source = [record[k] EXCEPT !.rejected = TRUE, !.deleted = TRUE]
  OBVIOUS
<1>5. /\ target \in RecordRow /\ target # Unmade
      /\ target.via = record[t].via /\ target.name = record[t].name
      /\ target.mobile = record[t].mobile /\ target.deleted = record[t].deleted
  BY <1>3, <1>4, RowMarked
<1>6. /\ source \in RecordRow /\ source # Unmade /\ source.deleted = TRUE
      /\ source.via = record[k].via /\ source.name = record[k].name
      /\ source.mobile = record[k].mobile
  BY <1>3 DEF RecordRow, Unmade
<1>7. /\ record' \in [Record -> RecordRow]
      /\ record'[t] = target /\ record'[k] = source
      /\ \A j \in Record : j \notin {k, t} => record'[j] = record[j]
  <2>1. PICK x : x = [record EXCEPT ![t] = target]
    OBVIOUS
  <2>2. PICK y : y = [x EXCEPT ![k] = source]
    OBVIOUS
  <2>3. x \in [Record -> RecordRow] /\ x[k] = record[k]
    BY <1>3, <1>5, <2>1 DEF IInv, TypeOK
  <2>4. record' = y
    BY <1>1, <1>3, <2>1, <2>2, <2>3 DEF IInv, TypeOK
  <2>5. /\ y \in [Record -> RecordRow] /\ y[k] = source /\ y[t] = target
        /\ \A j \in Record : j \notin {k, t} => y[j] = record[j]
    BY <1>3, <1>5, <1>6, <2>1, <2>2, <2>3 DEF IInv, TypeOK
  <2> QED
    BY <2>4, <2>5
<1>8. KeysKept /\ (\A j \in Record : j \in Live' <=> j \in Live /\ j # k)
  <2>1. \A j \in Record :
          /\ record'[j] # Unmade <=> record[j] # Unmade
          /\ j # k => record'[j].deleted = record[j].deleted
          /\ record'[j].via = record[j].via /\ record'[j].name = record[j].name
          /\ record'[j].mobile = record[j].mobile
    <3> TAKE j \in Record
    <3>1. CASE j = k
      BY <1>3, <1>6, <1>7, <3>1
    <3>2. CASE j = t
      BY <1>3, <1>5, <1>7, <3>2
    <3>3. CASE j \notin {k, t}
      BY <1>7, <3>3
    <3> QED
      BY <3>1, <3>2, <3>3
  <2>2. KeysKept
    BY <2>1 DEF Made, KeysKept
  <2>3. k \notin Live'
    BY <1>6, <1>7 DEF Live
  <2>4. \A j \in Record : j # k => (j \in Live' <=> j \in Live)
    BY <2>1 DEF Live, Made
  <2> QED
    BY <2>2, <2>3, <2>4
<1>9. \A j \in Record, v \in Verified :
        /\ j = k => submission'[<<j, v>>] = 0
        /\ j = t => submission'[<<j, v>>] = UpTo(submission[<<t, v>>] + submission[<<k, v>>])
        /\ j \notin {k, t} => submission'[<<j, v>>] = submission[<<j, v>>]
  BY <1>2, <1>3 DEF Given
<1>10. submission' \in [Record \X Verified -> 0..MaxSubmissions]
  <2>1. ASSUME NEW j \in Record, NEW v \in Verified
        PROVE  submission'[<<j, v>>] \in 0..MaxSubmissions
    <3>1. /\ submission[<<t, v>>] \in Nat /\ submission[<<k, v>>] \in Nat
          /\ submission[<<j, v>>] \in 0..MaxSubmissions
      BY <1>3, SubmissionsCounted DEF IInv
    <3>2. UpTo(submission[<<t, v>>] + submission[<<k, v>>]) \in 0..MaxSubmissions
      BY <3>1, UpToIsBounded
    <3>3. 0 \in 0..MaxSubmissions
      <4>1. MaxSubmissions \in Nat
        BY LimitsAssumption
      <4> QED
        BY <4>1
    <3> QED
      BY <1>9, <3>1, <3>2, <3>3
  <2>2. submission' = [rm \in Record \X Verified |-> submission'[rm]]
    BY <1>2 DEF Given
  <2> QED
    BY <2>1, <2>2
<1>11. ~HasSubmission(k)'
  <2> SUFFICES ASSUME NEW v \in Verified, submission'[<<k, v>>] > 0 PROVE FALSE
    BY DEF HasSubmission
  <2>1. submission'[<<k, v>>] = 0
    BY <1>3, <1>9
  <2> QED
    BY <2>1
<1>12. ASSUME NEW j \in Record, j # k, HasSubmission(j) PROVE HasSubmission(j)'
  <2>1. PICK v \in Verified : submission[<<j, v>>] > 0
    BY <1>12 DEF HasSubmission
  <2>2. CASE j = t
    <3>1. submission[<<t, v>>] \in Nat /\ submission[<<k, v>>] \in Nat
      BY <1>3, SubmissionsCounted DEF IInv
    <3>2. UpTo(submission[<<t, v>>] + submission[<<k, v>>]) > 0
      BY <2>1, <2>2, <3>1, UpToIsBounded
    <3> QED
      BY <1>9, <2>2, <3>2 DEF HasSubmission
  <2>3. CASE j # t
    BY <1>9, <1>12, <2>1, <2>3 DEF HasSubmission
  <2> QED
    BY <2>2, <2>3
<1>13. Sound(Idle)' /\ FoundLive(Idle)'
  BY DEF Sound, FoundLive, Idle
<1>14. Left' \subseteq Left
  <2>1. ASSUME NEW j \in Live', NEW v \in Verified, submission'[<<j, v>>] = 0
        PROVE  submission[<<j, v>>] = 0
    <3>1. j \in Record
      BY DEF Live, Made
    <3>2. j # k
      BY <1>8, <3>1
    <3>3. CASE j = t
      <4>1. submission[<<t, v>>] \in Nat /\ submission[<<k, v>>] \in Nat
        BY <1>3, SubmissionsCounted DEF IInv
      <4>2. UpTo(submission[<<t, v>>] + submission[<<k, v>>]) = 0
        BY <1>9, <2>1, <3>1, <3>3
      <4>3. ~(submission[<<t, v>>] + submission[<<k, v>>] > 0)
        BY <4>1, <4>2, UpToIsBounded
      <4> QED
        BY <3>3, <4>1, <4>3
    <3>4. CASE j # t
      BY <1>9, <2>1, <3>1, <3>2, <3>4
    <3> QED
      BY <3>3, <3>4
  <2> QED
    BY <1>2, <1>8, <2>1, LeftByDesk
<1>15. SubmissionsOnLiveRecords'
  <2> SUFFICES ASSUME load = 1, NEW j \in Record, HasSubmission(j)' PROVE j \in Live'
    BY <1>2 DEF SubmissionsOnLiveRecords
  <2>1. j # k
    BY <1>11
  <2>2. CASE j = t
    BY <1>3, <1>8, <2>1, <2>2
  <2>3. CASE j # t
    <3>1. HasSubmission(j)
      BY <1>9, <2>1, <2>3 DEF HasSubmission
    <3> QED
      BY <1>8, <2>1, <3>1 DEF IInv, SubmissionsOnLiveRecords
  <2> QED
    BY <2>2, <2>3
<1> QED
  BY <1>2, <1>7, <1>8, <1>10, <1>13, <1>14, <1>15, IdleIsQuiet, WritingKeeps

----------------------------------------------------------------------------
(* A restart cuts off at most load requests, each of which leaves at most  *)
(* one record without its submission.                                      *)
LEMMA ProcessRestartKeeps ==
  ASSUME IInv, ProcessRestart
  PROVE  IInv'
<1>1. /\ restarts < MaxRestarts /\ restarts' = restarts + 1
      /\ intakeReq' = [sl \in Slot |-> Idle]
      /\ UNCHANGED <<load, link, record, submission>>
  BY DEF ProcessRestart
<1>2. load \in Nat /\ load >= 1 /\ restarts \in Nat /\ link.capacity \in Nat
  BY Numbers DEF IInv
<1>3. TypeOK'
  <2>1. restarts' \in 0..MaxRestarts
    <3>1. MaxRestarts \in Nat
      BY LimitsAssumption
    <3> QED
      BY <1>1, <1>2, <3>1
  <2> QED
    BY <1>1, <2>1, IdleIsQuiet DEF IInv, TypeOK
<1>4. Busy' = {} /\ Filling' = {} /\ \A name, m : Pending(name, m)' = {}
  <2>1. ~Fills(Idle) /\ \A name, m : ~Pends(Idle, name, m)
    BY IdleIsQuiet
  <2> QED
    BY <1>1, <2>1 DEF Busy, Filling, Pending
<1>5. Cardinality({}) = 0
  BY FS_EmptySet
<1>6. BusyBound'
  BY <1>1, <1>2, <1>4, <1>5 DEF BusyBound
<1>7. RequestsSound' /\ FoundStaysLive'
  BY <1>1 DEF RequestsSound, Sound, FoundStaysLive, FoundLive, Idle
<1>8. Made' = Made /\ Live' = Live
  BY <1>1 DEF Made, Live
<1>9. KeyBound'
  <2> SUFFICES ASSUME NEW name \in Name, NEW m \in Contact
               PROVE  Cardinality(SameKey(name, m)') + Cardinality(Pending(name, m)') <= load
    BY <1>1 DEF KeyBound, Contact
  <2>1. SameKey(name, m)' = SameKey(name, m)
    BY <1>1, <1>8 DEF SameKey
  <2>2. Cardinality(SameKey(name, m)) \in Nat /\ Cardinality(Pending(name, m)) \in Nat
    BY WhatIsCounted, RecordsFinite, SlotsFinite
  <2>3. Cardinality(SameKey(name, m)) + Cardinality(Pending(name, m)) <= load
    BY DEF IInv, KeyBound
  <2>4. Cardinality(Pending(name, m)') = 0
    BY <1>4, <1>5
  <2>5. Cardinality(SameKey(name, m)') = Cardinality(SameKey(name, m))
    BY <2>1
  <2> QED
    BY <1>2, <2>2, <2>3, <2>4, <2>5
<1>10. RoomBound'
  <2> SUFFICES ASSUME link.capacity # 0
               PROVE  Cardinality(MadeByLink') + Cardinality(Filling')
                        <= link.capacity + load - 1
    BY <1>1 DEF RoomBound
  <2>1. MadeByLink' = MadeByLink
    BY <1>1, <1>8 DEF MadeByLink
  <2>2. Cardinality(MadeByLink) \in Nat /\ Cardinality(Filling) \in Nat
    BY WhatIsCounted, RecordsFinite, SlotsFinite
  <2>3. Cardinality(MadeByLink) + Cardinality(Filling) <= link.capacity + load - 1
    BY DEF IInv, RoomBound
  <2> QED
    BY <1>2, <1>4, <1>5, <2>1, <2>2, <2>3
<1>11. LeftBound'
  <2> PICK S : S = {sl \in Slot : intakeReq[sl].op = "submission"}
    OBVIOUS
  <2> PICK W : W = {intakeReq[sl].found : sl \in S}
    OBVIOUS
  <2> PICK f : f = [sl \in S |-> intakeReq[sl].found]
    OBVIOUS
  <2>1. S \in SUBSET Busy /\ IsFiniteSet(Busy)
    BY IdleIsQuiet, WhatIsCounted, SlotsFinite DEF Busy
  <2>2. /\ IsFiniteSet(S) /\ Cardinality(S) \in Nat
        /\ Cardinality(S) <= Cardinality(Busy) /\ Cardinality(Busy) \in Nat
    BY <2>1, CountSubset
  <2>3. f \in Surjection(S, W)
    BY DEF Surjection
  <2>4. IsFiniteSet(W) /\ Cardinality(W) <= Cardinality(S)
    BY <2>2, <2>3, FS_Surjection
  <2>5. Left \in SUBSET Record /\ Left' \in SUBSET (Left \cup W)
    BY <1>1, <1>8 DEF Left, Author, BeingSubmitted, Live, Made
  <2>6. IsFiniteSet(Left) /\ Cardinality(Left) \in Nat /\ Cardinality(W) \in Nat
    BY <2>4, <2>5, RecordsFinite, FS_CardinalityType
  <2>7. /\ IsFiniteSet(Left \cup W)
        /\ Cardinality(Left \cup W) <= Cardinality(Left) + Cardinality(W)
    BY <2>4, <2>6, CountUnion
  <2>8. /\ Cardinality(Left') <= Cardinality(Left \cup W)
        /\ Cardinality(Left') \in Nat /\ Cardinality(Left \cup W) \in Nat
    BY <2>5, <2>7, CountSubset
  <2>9. Cardinality(Left) <= restarts * load /\ Cardinality(Busy) <= load
    BY DEF IInv, LeftBound, BusyBound
  <2> PICK n : n = restarts * load
    OBVIOUS
  <2>10. n \in Nat /\ restarts' * load' = n + load
    BY <1>1, <1>2
  <2>11. Cardinality(Left') <= n + load
    BY <1>2, <2>2, <2>4, <2>6, <2>7, <2>8, <2>9, <2>10
  <2> QED
    BY <2>10, <2>11 DEF LeftBound
<1>12. SubmissionsOnLiveRecords'
  BY <1>1, <1>8 DEF IInv, SubmissionsOnLiveRecords, HasSubmission
<1>13. MobileBound'
  <2> SUFFICES ASSUME NEW m \in Contact
               PROVE  Cardinality(RecordsOf(m)') + Cardinality(Creating(m)')
                        <= link.siblings + load - 1 + restarts' * load
    BY <1>1 DEF MobileBound, Contact
  <2>1. RecordsOf(m)' = RecordsOf(m) /\ Creating(m)' = {}
    BY <1>1, <1>8, IdleIsQuiet DEF RecordsOf, MadeByLink, Creating
  <2>2. Cardinality(RecordsOf(m)) \in Nat /\ Cardinality(Creating(m)) \in Nat
    BY WhatIsCounted, RecordsFinite, SlotsFinite
  <2>3. Cardinality(RecordsOf(m)) + Cardinality(Creating(m))
          <= link.siblings + load - 1 + restarts * load
    BY DEF IInv, MobileBound
  <2>4. link.siblings \in Nat /\ restarts * load \in Nat
    BY Numbers DEF IInv
  <2> PICK n : n = restarts * load
    OBVIOUS
  <2>5. n \in Nat /\ restarts' * load = n + load
    BY <1>1, <1>2, <2>4
  <2> PICK c : c = Cardinality(RecordsOf(m))
    OBVIOUS
  <2>6. Cardinality(RecordsOf(m)') = c /\ Cardinality(Creating(m)') = 0
    BY <1>5, <2>1
  <2>7. c <= link.siblings + load - 1 + n
    BY <1>2, <2>2, <2>3, <2>4
  <2> QED
    BY <1>2, <2>2, <2>4, <2>5, <2>6, <2>7
<1> QED
  BY <1>3, <1>6, <1>7, <1>9, <1>10, <1>11, <1>12, <1>13 DEF IInv

----------------------------------------------------------------------------
LEMMA StutterKeeps ==
  ASSUME IInv, UNCHANGED vars
  PROVE  IInv'
<1>1. /\ load' = load /\ link' = link /\ record' = record /\ submission' = submission
      /\ intakeReq' = intakeReq /\ restarts' = restarts
  BY DEF vars
<1>2. TypeOK' /\ BusyBound' /\ RequestsSound'
  BY <1>1 DEF IInv, TypeOK, BusyBound, Busy, RequestsSound, Sound, Made
<1>3. KeyBound'
  BY <1>1 DEF IInv, KeyBound, SameKey, Pending, Live, Made
<1>4. RoomBound'
  BY <1>1 DEF IInv, RoomBound, MadeByLink, Filling, Live, Made
<1>5. LeftBound' /\ MobileBound'
  BY <1>1 DEF IInv, LeftBound, Left, Author, BeingSubmitted, MobileBound, RecordsOf, Creating,
              MadeByLink, Live, Made
<1>6. FoundStaysLive' /\ SubmissionsOnLiveRecords'
  BY <1>1 DEF IInv, FoundStaysLive, FoundLive, SubmissionsOnLiveRecords, HasSubmission, Live, Made
<1> QED
  BY <1>2, <1>3, <1>4, <1>5, <1>6 DEF IInv

LEMMA StepKeeps == IInv /\ [Next]_vars => IInv'
<1> SUFFICES ASSUME IInv, [Next]_vars PROVE IInv'
  OBVIOUS
<1>1. ASSUME NEW sl \in Slot, SubmitStep(sl) PROVE IInv'
  <2>1. CASE BeginSubmit(sl) \/ BeginFromAccount(sl)
    BY <2>1, BeginsKeep
  <2>2. CASE CheckPolicy(sl)
    BY <2>2, CheckPolicyKeeps
  <2>3. CASE FindExisting(sl)
    BY <2>3, FindExistingKeeps
  <2>4. CASE CheckRoom(sl) \/ CheckLimit(sl) \/ CheckFamily(sl) \/ RefusePhoto(sl)
    BY <2>4, ChecksKeep
  <2>5. CASE WriteRecord(sl)
    BY <2>5, CreateKeeps, UpdateKeeps
  <2>6. CASE WriteSubmission(sl)
    BY <2>6, WriteSubmissionKeeps
  <2> QED
    BY <1>1, <2>1, <2>2, <2>3, <2>4, <2>5, <2>6 DEF SubmitStep
<1>2. ASSUME NEW sl \in Slot, DeskStep(sl) PROVE IInv'
  BY <1>2, BeginsKeep, CommitReviewKeeps, CommitMergeKeeps DEF DeskStep
<1>3. CASE ProcessRestart
  BY <1>3, ProcessRestartKeeps
<1>4. CASE UNCHANGED vars
  BY <1>4, StutterKeeps
<1> QED
  BY <1>1, <1>2, <1>3, <1>4 DEF Next

(* IInv is an invariant of the submissions, however requests overlap and   *)
(* whenever the process restarts.                                          *)
THEOREM Invariance == Spec => []IInv
BY InitEstablishes, StepKeeps, PTL DEF Spec

(* The rows of the tables and the requests in flight keep their types.     *)
THEOREM TypeCorrect == Spec => []TypeOK
<1>1. IInv => TypeOK
  BY DEF IInv
<1> QED
  BY <1>1, Invariance, PTL

(* A child, by name and mobile, has at most as many live records of the    *)
(* link as requests overlapped: submit finds the record that is there and  *)
(* updates it instead of creating another.                                 *)
THEOREM OneRecordForEachChild == Spec => []OneRecordPerKey
<1>1. IInv => OneRecordPerKey
  <2> SUFFICES ASSUME IInv, NEW name \in Name, NEW m \in Contact
               PROVE  Cardinality(SameKey(name, m)) <= load
    BY DEF OneRecordPerKey
  <2>1. Cardinality(SameKey(name, m)) + Cardinality(Pending(name, m)) <= load
    BY DEF IInv, KeyBound
  <2>2. Cardinality(SameKey(name, m)) \in Nat /\ Cardinality(Pending(name, m)) \in Nat
    BY WhatIsCounted, RecordsFinite, SlotsFinite
  <2>3. load \in Nat
    BY Numbers DEF IInv
  <2> QED
    BY <2>1, <2>2, <2>3
<1> QED
  BY <1>1, Invariance, PTL

(* submit fills a link to its capacity, and beyond it by one record at     *)
(* most for each further request that overlaps.                            *)
THEOREM LinksFillUp == Spec => []CapacityHolds
<1>1. IInv => CapacityHolds
  <2> SUFFICES ASSUME IInv, link.capacity # 0
               PROVE  Cardinality(MadeByLink) <= link.capacity + load - 1
    BY DEF CapacityHolds
  <2>1. Cardinality(MadeByLink) + Cardinality(Filling) <= link.capacity + load - 1
    BY DEF IInv, RoomBound
  <2>2. Cardinality(MadeByLink) \in Nat /\ Cardinality(Filling) \in Nat
    BY WhatIsCounted, RecordsFinite, SlotsFinite
  <2>3. load \in Nat /\ link.capacity \in Nat
    BY Numbers DEF IInv
  <2> QED
    BY <2>1, <2>2, <2>3
<1> QED
  BY <1>1, Invariance, PTL

(* A mobile gets the records that CheckLimit allows it, one more for each   *)
(* further request that overlaps, and one for each request a restart cut    *)
(* off before its ParentSubmission, which is what submit counts.           *)
THEOREM LimitsAreKept == Spec => []LimitsHold
<1>1. IInv => MobileLimitHolds
  <2> SUFFICES ASSUME IInv, NEW m \in Contact
               PROVE  Cardinality(RecordsOf(m)) <= link.siblings + load - 1 + restarts * load
    BY DEF MobileLimitHolds, RecordsOf
  <2>1. Cardinality(RecordsOf(m)) + Cardinality(Creating(m))
          <= link.siblings + load - 1 + restarts * load
    BY DEF IInv, MobileBound
  <2>2. Cardinality(RecordsOf(m)) \in Nat /\ Cardinality(Creating(m)) \in Nat
    BY WhatIsCounted, RecordsFinite, SlotsFinite
  <2>3. load \in Nat /\ link.siblings \in Nat /\ restarts * load \in Nat
    BY Numbers DEF IInv
  <2> PICK n : n = restarts * load
    OBVIOUS
  <2> QED
    BY <2>1, <2>2, <2>3
<1>2. Spec => []MobileLimitHolds
  BY <1>1, Invariance, PTL
<1> QED
  BY <1>2, LinksFillUp, PTL DEF LimitsHold

(* A live record without a ParentSubmission, that none is being written    *)
(* for, is the work of a request that a restart cut off.                   *)
THEOREM RestartsLoseSubmissions == Spec => []RecordHasSubmission
<1>1. IInv => RecordHasSubmission
  <2> SUFFICES ASSUME IInv PROVE RecordHasSubmission
    OBVIOUS
  <2> PICK O : O = {r \in Live : ~HasSubmission(r) /\ ~BeingSubmitted(r)}
    OBVIOUS
  <2>1. O \in SUBSET Left
    <3> SUFFICES ASSUME NEW r \in Live, ~HasSubmission(r) PROVE submission[<<r, Author(r)>>] = 0
      BY DEF Left
    <3>1. r \in Record /\ Author(r) \in Verified
      BY AuthorIsVerified DEF IInv
    <3>2. submission[<<r, Author(r)>>] \in Nat
      BY <3>1, SubmissionsCounted DEF IInv
    <3>3. ~(submission[<<r, Author(r)>>] > 0)
      BY <3>1 DEF HasSubmission
    <3> QED
      BY <3>2, <3>3
  <2>2. IsFiniteSet(Left)
    BY WhatIsCounted, RecordsFinite
  <2>3. /\ Cardinality(O) \in Nat /\ Cardinality(Left) \in Nat
        /\ Cardinality(O) <= Cardinality(Left)
    BY <2>1, <2>2, CountSubset
  <2>4. Cardinality(Left) <= restarts * load /\ restarts * load \in Nat
    BY Numbers DEF IInv, LeftBound
  <2> PICK n : n = restarts * load
    OBVIOUS
  <2>5. Cardinality(O) <= n
    BY <2>3, <2>4
  <2> QED
    BY <2>5 DEF RecordHasSubmission
<1> QED
  BY <1>1, Invariance, PTL

(* While requests come one at a time, every ParentSubmission is of a live  *)
(* record: mergeDuplicate leaves none behind on the record it archives.    *)
THEOREM SubmissionsFollowRecords == Spec => []SubmissionsOnLiveRecords
<1>1. IInv => SubmissionsOnLiveRecords
  BY DEF IInv
<1> QED
  BY <1>1, Invariance, PTL

----------------------------------------------------------------------------
(* The codes of new schools                                                *)

(* Cardinality, as Codes sees it through its instance.                     *)
LEMMA CodesCount == \A S : Codes!Cardinality(S) = Cardinality(S)
  BY DEF Codes!Cardinality, Cardinality

CodeReads == [op : {"read"}, attempt : Nat \ {0}, began : Nat]
CodeInserts == [op : {"insert"}, attempt : Nat \ {0}, began : Nat, code : Nat \ {0}]
SchoolStaffed == [op : {"admin", "sales"}, school : School]

CodeRows ==
  /\ school \in [School -> Nat]
  /\ schoolReq \in [Slot -> CodeReads \cup CodeInserts \cup SchoolStaffed \cup {Codes!Idle}]

(* The code a request is about to write is the next one or one that is     *)
(* taken by now.  An attempt it has lost was lost to a school that is new   *)
(* since it came in, and if it loses this one it is to yet another.        *)
CodeAttempt(q, n) ==
  /\ q.op \in {"read", "insert"} => n >= q.began + q.attempt - 1
  /\ q.op = "insert" => q.code <= n + 1 /\ q.code >= q.began + q.attempt

CodesNumbered(n) ==
  /\ IsFiniteSet(Codes!Made) /\ Cardinality(Codes!Made) = n
  /\ Codes!Codes = 1..n
  /\ \A sl \in Slot : CodeAttempt(schoolReq[sl], n)

CodesInv == CodeRows /\ \E n \in Nat : CodesNumbered(n)

LEMMA CodeRequests ==
  ASSUME CodeRows, NEW sl \in Slot
  PROVE  /\ schoolReq[sl].op = "read" => schoolReq[sl] \in CodeReads
         /\ schoolReq[sl].op = "insert" => schoolReq[sl] \in CodeInserts
         /\ schoolReq[sl].op \in {"admin", "sales"} => schoolReq[sl] \in SchoolStaffed
  BY DEF CodeRows, CodeReads, CodeInserts, SchoolStaffed, Codes!Idle

LEMMA HighestIsLast ==
  ASSUME NEW n \in Nat, Codes!Codes = 1..n
  PROVE  Codes!Highest = n
  <1>1. CASE n = 0
        BY <1>1 DEF Codes!Highest
  <1>2. CASE n # 0
        <2>1. n \in Codes!Codes /\ \A m \in Codes!Codes : m <= n
              BY <1>2
        <2>2. \A k \in Codes!Codes : (\A m \in Codes!Codes : m <= k) => k = n
              BY <2>1
        <2>3. Codes!Highest = CHOOSE k \in Codes!Codes : \A m \in Codes!Codes : m <= k
              BY <2>1 DEF Codes!Highest
        <2> QED BY <2>1, <2>2, <2>3
  <1> QED BY <1>1, <1>2

(* A step of a request that creates no school and goes on to q.            *)
LEMMA ProceedKeeps ==
  ASSUME CodeRows, NEW n \in Nat, CodesNumbered(n), NEW sl \in Slot, NEW q,
         schoolReq' = [schoolReq EXCEPT ![sl] = q], school' = school,
         q \in CodeReads \cup CodeInserts \cup SchoolStaffed \cup {Codes!Idle}, CodeAttempt(q, n)
  PROVE  CodesInv'
  <1>1. /\ schoolReq'[sl] = q
        /\ \A s \in Slot \ {sl} : schoolReq'[s] = schoolReq[s]
        BY DEF CodeRows
  <1>2. \A s \in Slot : CodeAttempt(schoolReq'[s], n)
        BY <1>1 DEF CodesNumbered
  <1>3. CodeRows'
        BY DEF CodeRows, CodeReads, CodeInserts, SchoolStaffed, Codes!Idle
  <1>4. Codes!Made' = Codes!Made /\ Codes!Codes' = Codes!Codes
        BY DEF Codes!Made, Codes!Codes
  <1>5. CodesNumbered(n)'
        BY <1>2, <1>4 DEF CodesNumbered, CodeAttempt
  <1> QED BY <1>3, <1>5 DEF CodesInv

LEMMA InsertKeeps ==
  ASSUME CodeRows, NEW n \in Nat, CodesNumbered(n), NEW sl \in Slot, Codes!InsertSchool(sl)
  PROVE  CodesInv'
  <1>1. schoolReq[sl] \in CodeInserts /\ schoolReq[sl].code \notin Codes!Codes
        BY CodeRequests DEF Codes!InsertSchool
  <1>2. PICK s \in School \ Codes!Made :
          /\ school' = [school EXCEPT ![s] = schoolReq[sl].code]
          /\ schoolReq' = [schoolReq EXCEPT ![sl] = [op |-> "admin", school |-> s]]
        BY DEF Codes!InsertSchool, Codes!Proceed
  <1>3. schoolReq[sl].code = n + 1
        <2>1. CodeAttempt(schoolReq[sl], n) /\ Codes!Codes = 1..n
              BY DEF CodesNumbered
        <2>2. schoolReq[sl].code \in Nat \ {0} /\ schoolReq[sl].op = "insert"
              BY <1>1 DEF CodeInserts
        <2> QED BY <1>1, <2>1, <2>2 DEF CodeAttempt
  <1>4. school' = [school EXCEPT ![s] = n + 1] /\ school' \in [School -> Nat]
        BY <1>2, <1>3 DEF CodeRows
  <1>5. school'[s] = n + 1 /\ \A t \in School \ {s} : school'[t] = school[t]
        BY <1>2, <1>4 DEF CodeRows
  <1>6. Codes!Made' = Codes!Made \cup {s}
        BY <1>2, <1>5 DEF Codes!Made
  <1>7. Codes!Codes' = Codes!Codes \cup {n + 1}
        <2>1. Codes!Codes' = {school'[t] : t \in Codes!Made'}
              BY DEF Codes!Codes
        <2>2. \A t \in Codes!Made : school'[t] = school[t] /\ t \in School
              BY <1>2, <1>5 DEF Codes!Made
        <2> QED BY <1>2, <1>5, <1>6, <2>1, <2>2 DEF Codes!Codes
  <1>8. Codes!Codes' = 1..(n + 1)
        BY <1>7 DEF CodesNumbered
  <1>9. IsFiniteSet(Codes!Made') /\ Cardinality(Codes!Made') = n + 1
        BY <1>2, <1>6, FS_AddElement DEF CodesNumbered
  <1>10. PICK q : q = [op |-> "admin", school |-> s]
        OBVIOUS
  <1>11. q \in SchoolStaffed /\ q.op = "admin"
        BY <1>2, <1>10 DEF SchoolStaffed
  <1>12. /\ schoolReq'[sl] = q /\ \A t \in Slot \ {sl} : schoolReq'[t] = schoolReq[t]
         /\ schoolReq' \in [Slot -> CodeReads \cup CodeInserts \cup SchoolStaffed \cup {Codes!Idle}]
        BY <1>2, <1>10, <1>11 DEF CodeRows
  <1>13. CodeRows'
        BY <1>4, <1>12 DEF CodeRows, CodeReads, CodeInserts, SchoolStaffed, Codes!Idle
  <1>14. \A t \in Slot : CodeAttempt(schoolReq'[t], n + 1)
        <2>1. CodeAttempt(schoolReq'[sl], n + 1)
              BY <1>11, <1>12 DEF CodeAttempt
        <2>2. ASSUME NEW t \in Slot \ {sl}
              PROVE  CodeAttempt(schoolReq[t], n + 1)
              <3>1. CodeAttempt(schoolReq[t], n)
                    BY DEF CodesNumbered
              <3>2. schoolReq[t].op = "read" =>
                      schoolReq[t].began \in Nat /\ schoolReq[t].attempt \in Nat
                    BY CodeRequests DEF CodeReads
              <3>3. schoolReq[t].op = "insert" =>
                      /\ schoolReq[t].began \in Nat /\ schoolReq[t].attempt \in Nat
                      /\ schoolReq[t].code \in Nat
                    BY CodeRequests DEF CodeInserts
              <3> QED BY <3>1, <3>2, <3>3 DEF CodeAttempt
        <2> QED BY <1>12, <2>1, <2>2
  <1>15. CodesNumbered(n + 1)'
        BY <1>8, <1>9, <1>14 DEF CodesNumbered, CodeAttempt
  <1> QED BY <1>13, <1>15 DEF CodesInv

LEMMA CodesNext == CodesInv /\ [Codes!Next]_Codes!vars => CodesInv'
  <1> SUFFICES ASSUME CodesInv, [Codes!Next]_Codes!vars PROVE CodesInv'
      OBVIOUS
  <1>1. CodeRows
        BY DEF CodesInv
  <1>2. PICK n \in Nat : CodesNumbered(n)
        BY DEF CodesInv
  <1>3. ASSUME NEW sl \in Slot, Codes!BeginCreate(sl)
        PROVE  CodesInv'
        <2>1. PICK q : q = [op |-> "read", attempt |-> 1, began |-> n]
              OBVIOUS
        <2>2. q \in CodeReads /\ CodeAttempt(q, n)
              BY <2>1 DEF CodeReads, CodeAttempt
        <2>3. schoolReq' = [schoolReq EXCEPT ![sl] = q] /\ school' = school
              BY <1>2, <1>3, <2>1, CodesCount DEF Codes!BeginCreate, Codes!Proceed,
                                                  CodesNumbered
        <2> QED BY <1>1, <1>2, <2>2, <2>3, ProceedKeeps
  <1>4. ASSUME NEW sl \in Slot, Codes!ReadCodes(sl)
        PROVE  CodesInv'
        <2>1. Codes!Highest = n
              BY <1>2, HighestIsLast DEF CodesNumbered
        <2>2. schoolReq[sl] \in CodeReads /\ CodeAttempt(schoolReq[sl], n)
              BY <1>1, <1>2, <1>4, CodeRequests DEF Codes!ReadCodes, CodesNumbered
        <2>3. PICK q : q = [op |-> "insert", attempt |-> schoolReq[sl].attempt,
                            began |-> schoolReq[sl].began, code |-> n + 1]
              OBVIOUS
        <2>4. q \in CodeInserts /\ CodeAttempt(q, n)
              BY <2>2, <2>3 DEF CodeReads, CodeInserts, CodeAttempt
        <2>5. schoolReq' = [schoolReq EXCEPT ![sl] = q] /\ school' = school
              BY <1>4, <2>1, <2>3 DEF Codes!ReadCodes, Codes!Proceed
        <2> QED BY <1>1, <1>2, <2>4, <2>5, ProceedKeeps
  <1>5. ASSUME NEW sl \in Slot, Codes!InsertSchool(sl)
        PROVE  CodesInv'
        BY <1>1, <1>2, <1>5, InsertKeeps
  <1>6. ASSUME NEW sl \in Slot, Codes!CodeTaken(sl)
        PROVE  CodesInv'
        <2>1. /\ schoolReq[sl] \in CodeInserts /\ CodeAttempt(schoolReq[sl], n)
              /\ schoolReq[sl].code \in 1..n
              BY <1>1, <1>2, <1>6, CodeRequests DEF Codes!CodeTaken, CodesNumbered
        <2>2. PICK q : q = Codes!Retry(schoolReq[sl])
              OBVIOUS
        <2>3. q \in CodeReads /\ CodeAttempt(q, n)
              BY <2>1, <2>2 DEF Codes!Retry, CodeInserts, CodeReads, CodeAttempt
        <2>4. CodeAttempt(Codes!Idle, n)
              BY DEF CodeAttempt, Codes!Idle
        <2>5. /\ \/ schoolReq' = [schoolReq EXCEPT ![sl] = q]
                 \/ schoolReq' = [schoolReq EXCEPT ![sl] = Codes!Idle]
              /\ school' = school
              BY <1>6, <2>2 DEF Codes!CodeTaken, Codes!Proceed
        <2> QED BY <1>1, <1>2, <2>3, <2>4, <2>5, ProceedKeeps
  <1>7. ASSUME NEW sl \in Slot, Codes!AssignAdmin(sl)
        PROVE  CodesInv'
        <2>1. schoolReq[sl] \in SchoolStaffed
              BY <1>1, <1>7, CodeRequests DEF Codes!AssignAdmin
        <2>2. PICK q : q = [schoolReq[sl] EXCEPT !.op = "sales"]
              OBVIOUS
        <2>3. q \in SchoolStaffed /\ q.op = "sales"
              BY <2>1, <2>2 DEF SchoolStaffed
        <2>4. CodeAttempt(q, n)
              BY <2>3 DEF CodeAttempt
        <2>5. schoolReq' = [schoolReq EXCEPT ![sl] = q] /\ school' = school
              BY <1>7, <2>2 DEF Codes!AssignAdmin, Codes!Proceed
        <2> QED BY <1>1, <1>2, <2>3, <2>4, <2>5, ProceedKeeps
  <1>8. ASSUME NEW sl \in Slot, Codes!AssignSales(sl)
        PROVE  CodesInv'
        <2>1. CodeAttempt(Codes!Idle, n)
              BY DEF CodeAttempt, Codes!Idle
        <2>2. schoolReq' = [schoolReq EXCEPT ![sl] = Codes!Idle] /\ school' = school
              BY <1>8 DEF Codes!AssignSales, Codes!Proceed
        <2> QED BY <1>1, <1>2, <2>1, <2>2, ProceedKeeps
  <1>9. CASE Codes!ProcessRestart
        <2>1. /\ school' = school /\ Codes!Made' = Codes!Made /\ Codes!Codes' = Codes!Codes
              /\ schoolReq' = [sl \in Slot |-> Codes!Idle]
              BY <1>9 DEF Codes!ProcessRestart, Codes!Made, Codes!Codes
        <2>2. CodeRows'
              BY <1>1, <2>1 DEF CodeRows
        <2>3. CodesNumbered(n)'
              BY <1>2, <2>1 DEF CodesNumbered, CodeAttempt, Codes!Idle
        <2> QED BY <2>2, <2>3 DEF CodesInv
  <1>10. CASE UNCHANGED Codes!vars
        <2>1. /\ school' = school /\ schoolReq' = schoolReq
              /\ Codes!Made' = Codes!Made /\ Codes!Codes' = Codes!Codes
              BY <1>10 DEF Codes!vars, Codes!Made, Codes!Codes
        <2> QED BY <1>1, <1>2, <2>1 DEF CodesInv, CodeRows, CodesNumbered, CodeAttempt
  <1> QED BY <1>3, <1>4, <1>5, <1>6, <1>7, <1>8, <1>9, <1>10 DEF Codes!Next

LEMMA CodesInit == Codes!Init => CodesInv
  <1> SUFFICES ASSUME Codes!Init PROVE CodesInv
      OBVIOUS
  <1>1. Codes!Made = {} /\ Codes!Codes = {} /\ IsFiniteSet({}) /\ Cardinality({}) = 0
        BY FS_EmptySet DEF Codes!Init, Codes!Made, Codes!Codes
  <1>2. CodeRows
        BY DEF Codes!Init, CodeRows
  <1>3. CodesNumbered(0)
        BY <1>1 DEF Codes!Init, CodesNumbered, CodeAttempt, Codes!Idle
  <1> QED BY <1>2, <1>3 DEF CodesInv

LEMMA CodesAgree == CodesInv => CodesAllocated
  <1> SUFFICES ASSUME CodesInv PROVE CodesAllocated
      OBVIOUS
  <1>1. PICK n \in Nat : CodesNumbered(n)
        BY DEF CodesInv
  <1>2. Codes!Codes = 1..Cardinality(Codes!Made)
        BY <1>1 DEF CodesNumbered
  <1>3. ASSUME NEW sl \in Codes!Busy, schoolReq[sl].op \in {"read", "insert"}
        PROVE  Cardinality(Codes!Made) >= schoolReq[sl].began + schoolReq[sl].attempt - 1
        BY <1>1, <1>3 DEF CodesNumbered, CodeAttempt, Codes!Busy
  <1> QED BY <1>2, <1>3, CodesCount DEF CodesAllocated, Codes!CodesAllocated

(* The codes of the schools are the first numbers, none left out, and a     *)
(* request that gives up has lost each attempt to another new school.      *)
THEOREM CodesHaveNoGaps == Codes!Spec => []CodesAllocated
  <1>1. Codes!Spec => []CodesInv
        BY CodesInit, CodesNext, PTL DEF Codes!Spec
  <1> QED BY <1>1, CodesAgree, PTL

----------------------------------------------------------------------------
(* Sliding windows                                                         *)

(* Cardinality, as Hits sees it through its instance.                      *)
LEMMA HitsCount == \A S : Hits!Cardinality(S) = Cardinality(S)
BY DEF Hits!Cardinality, Cardinality

Ticks == Hits!Tick
HitRow == [Ticks -> Nat]
SumIn(h, T) == Cardinality(Hits!HitsIn(h, T))
Span(t) == {u \in Ticks : t <= u /\ u < t + Window}
Recently == {u \in Ticks : u <= now /\ u + Window > now}

LEMMA HitNumbers ==
  /\ Window \in Nat /\ Limit \in Nat /\ LookupLimit \in Nat /\ MissLimit \in Nat
  /\ LastTick \in Nat /\ MaxHits \in Nat
  /\ MaxLoad \in Nat \ {0} /\ MaxRestarts \in Nat
  /\ Ticks = 1..LastTick /\ IsFiniteSet(Ticks) /\ IsFiniteSet(Slot)
<1>1. LastTick \in Nat
  BY NumbersAssumption
<1>2. Ticks = 1..LastTick
  BY DEF Ticks, Hits!Tick
<1>3. IsFiniteSet(1..LastTick)
  BY <1>1, FS_Interval
<1> QED
  BY <1>2, <1>3, NumbersAssumption, LimitsAssumption

LEMMA HitsOf ==
  ASSUME NEW h \in HitRow, NEW T \in SUBSET Ticks
  PROVE  /\ Hits!HitsIn(h, T) \in SUBSET (T \X Nat)
         /\ \A u, i : <<u, i>> \in Hits!HitsIn(h, T) <=> u \in T /\ i \in 1..h[u]
<1>1. ASSUME NEW u \in T PROVE h[u] \in Nat
  BY DEF HitRow
<1>2. \A p : p \in Hits!HitsIn(h, T) <=> \E u \in T : p \in {u} \X (1..h[u])
  BY DEF Hits!HitsIn
<1>3. Hits!HitsIn(h, T) \in SUBSET (T \X Nat)
  <2> SUFFICES ASSUME NEW p \in Hits!HitsIn(h, T) PROVE p \in T \X Nat
    OBVIOUS
  <2>1. PICK u \in T : p \in {u} \X (1..h[u])
    BY <1>2
  <2> QED
    BY <1>1, <2>1
<1>4. \A u, i : <<u, i>> \in Hits!HitsIn(h, T) <=> u \in T /\ i \in 1..h[u]
  BY <1>2
<1> QED
  BY <1>3, <1>4

LEMMA HitsFinite ==
  ASSUME NEW h \in HitRow, NEW T \in SUBSET Ticks
  PROVE  IsFiniteSet(Hits!HitsIn(h, T)) /\ SumIn(h, T) \in Nat
<1>1. IsFiniteSet(T)
  BY HitNumbers, FS_Subset
<1> PICK P : P = {{t} \X (1..h[t]) : t \in T}
  OBVIOUS
<1> PICK f : f = [t \in T |-> {t} \X (1..h[t])]
  OBVIOUS
<1>2. f \in Surjection(T, P)
  BY DEF Surjection
<1>3. IsFiniteSet(P)
  BY <1>1, <1>2, FS_Surjection
<1>4. ASSUME NEW S \in P PROVE IsFiniteSet(S)
  <2>1. PICK t \in T : S = {t} \X (1..h[t])
    OBVIOUS
  <2>2. h[t] \in Nat
    BY DEF HitRow
  <2>3. IsFiniteSet(1..h[t])
    BY <2>2, FS_Interval
  <2>4. IsFiniteSet({t})
    BY FS_Singleton
  <2> QED
    BY <2>1, <2>3, <2>4, FS_Product
<1>5. IsFiniteSet(UNION P)
  BY <1>3, <1>4, FS_UNION
<1>6. Hits!HitsIn(h, T) = UNION P
  BY DEF Hits!HitsIn
<1> QED
  BY <1>5, <1>6, FS_CardinalityType DEF SumIn

(* More ticks and more hits in them make no smaller sum.                   *)
LEMMA SumGrows ==
  ASSUME NEW h \in HitRow, NEW g \in HitRow, NEW S \in SUBSET Ticks, NEW T \in SUBSET Ticks,
         \A u \in S : h[u] > 0 => u \in T /\ h[u] <= g[u]
  PROVE  SumIn(h, S) <= SumIn(g, T)
<1>1. Hits!HitsIn(h, S) \in SUBSET Hits!HitsIn(g, T)
  <2> SUFFICES ASSUME NEW p \in Hits!HitsIn(h, S) PROVE p \in Hits!HitsIn(g, T)
    OBVIOUS
  <2>1. PICK u \in S, i \in Nat : p = <<u, i>>
    BY HitsOf
  <2>2. i \in 1..h[u] /\ h[u] \in Nat /\ g[u] \in Nat
    BY <2>1, HitsOf DEF HitRow
  <2>3. u \in T /\ i \in 1..g[u]
    BY <2>2
  <2> QED
    BY <2>1, <2>3, HitsOf
<1> QED
  BY <1>1, HitsFinite, CountSubset DEF SumIn

(* The hits of two rows count at least those of a row they cover.          *)
LEMMA SumSplits ==
  ASSUME NEW h \in HitRow, NEW g \in HitRow, NEW c \in HitRow, NEW T \in SUBSET Ticks,
         \A u \in T : h[u] <= g[u] + c[u]
  PROVE  SumIn(h, T) <= SumIn(g, T) + SumIn(c, T)
<1> PICK H, G, C : /\ H = Hits!HitsIn(h, T) /\ G = Hits!HitsIn(g, T)
                   /\ C = Hits!HitsIn(c, T)
  OBVIOUS
<1>1. /\ IsFiniteSet(H) /\ IsFiniteSet(G) /\ IsFiniteSet(C)
      /\ Cardinality(H) \in Nat /\ Cardinality(G) \in Nat /\ Cardinality(C) \in Nat
  BY HitsFinite DEF SumIn
<1> PICK Rest : Rest = H \ G
  OBVIOUS
<1>2. ASSUME NEW p \in Rest
      PROVE  \E u \in T, i \in Nat : p = <<u, i>> /\ i > g[u] /\ i - g[u] \in 1..c[u]
  <2>1. PICK u \in T, i \in Nat : p = <<u, i>>
    BY HitsOf
  <2>2. i \in 1..h[u] /\ ~(i \in 1..g[u])
    BY <2>1, HitsOf
  <2>3. h[u] \in Nat /\ g[u] \in Nat /\ c[u] \in Nat /\ h[u] <= g[u] + c[u]
    BY DEF HitRow
  <2>4. i > g[u] /\ i - g[u] \in 1..c[u]
    BY <2>2, <2>3
  <2> QED
    BY <2>1, <2>4
<1> PICK f : f = [p \in Rest |-> <<p[1], p[2] - g[p[1]]>>]
  OBVIOUS
<1>3. f \in Injection(Rest, C)
  <2>1. ASSUME NEW p \in Rest PROVE f[p] \in C
    <3>1. PICK u \in T, i \in Nat : p = <<u, i>> /\ i > g[u] /\ i - g[u] \in 1..c[u]
      BY <1>2
    <3>2. f[p] = <<u, i - g[u]>>
      BY <3>1
    <3> QED
      BY <3>1, <3>2, HitsOf
  <2>2. ASSUME NEW p \in Rest, NEW q \in Rest, f[p] = f[q] PROVE p = q
    <3>1. PICK u \in T, i \in Nat : p = <<u, i>> /\ i > g[u] /\ i - g[u] \in 1..c[u]
      BY <1>2
    <3>2. PICK v \in T, j \in Nat : q = <<v, j>> /\ j > g[v] /\ j - g[v] \in 1..c[v]
      BY <1>2
    <3>3. f[p] = <<u, i - g[u]>> /\ f[q] = <<v, j - g[v]>>
      BY <3>1, <3>2
    <3>4. u = v /\ i - g[u] = j - g[v] /\ g[u] \in Nat
      BY <2>2, <3>3 DEF HitRow
    <3>5. i = j
      BY <3>4
    <3> QED
      BY <3>1, <3>2, <3>4, <3>5
  <2>3. f \in [Rest -> C]
    BY <2>1
  <2> QED
    BY <2>2, <2>3 DEF Injection, IsInjective
<1>4. IsFiniteSet(Rest) /\ Cardinality(Rest) <= Cardinality(C) /\ Cardinality(Rest) \in Nat
  BY <1>1, <1>3, FS_Injection, FS_CardinalityType
<1>5. /\ IsFiniteSet(G \cup Rest) /\ Cardinality(G \cup Rest) \in Nat
      /\ Cardinality(G \cup Rest) <= Cardinality(G) + Cardinality(Rest)
  <2>1. /\ IsFiniteSet(G \cup Rest)
        /\ Cardinality(G \cup Rest) = Cardinality(G) + Cardinality(Rest) - Cardinality(G \cap Rest)
    BY <1>1, <1>4, FS_Union
  <2>2. Cardinality(G \cap Rest) \in Nat /\ Cardinality(G \cup Rest) \in Nat
    BY <1>1, <2>1, FS_Intersection, FS_CardinalityType
  <2> QED
    BY <1>1, <1>4, <2>1, <2>2
<1>6. H \in SUBSET (G \cup Rest)
  OBVIOUS
<1>7. Cardinality(H) <= Cardinality(G \cup Rest)
  BY <1>5, <1>6, CountSubset
<1> QED
  BY <1>1, <1>4, <1>5, <1>7 DEF SumIn

NoHits == [u \in Ticks |-> 0]

LEMMA NothingSums ==
  ASSUME NEW h \in HitRow, NEW T \in SUBSET Ticks, \A u \in T : h[u] = 0
  PROVE  SumIn(h, T) = 0
<1>1. Hits!HitsIn(h, T) = {}
  <2> SUFFICES ASSUME NEW p \in Hits!HitsIn(h, T) PROVE FALSE
    OBVIOUS
  <2>1. PICK u \in T, i \in Nat : p = <<u, i>>
    BY HitsOf
  <2>2. i \in 1..0
    BY <2>1, HitsOf
  <2> QED
    BY <2>2
<1> QED
  BY <1>1, FS_EmptySet DEF SumIn

(* One more hit                                                            *)
Hit(h) == [h EXCEPT ![now] = @ + 1]

LEMMA OneMore ==
  ASSUME NEW h \in HitRow, NEW T \in SUBSET Ticks
  PROVE  /\ Hit(h) \in HitRow
         /\ \A u \in Ticks : Hit(h)[u] = IF u = now THEN h[u] + 1 ELSE h[u]
         /\ SumIn(Hit(h), T) <= SumIn(h, T) + 1
         /\ now \notin T => SumIn(Hit(h), T) <= SumIn(h, T)
<1>2. \A u \in Ticks : h[u] \in Nat
  BY DEF HitRow
<1>1. /\ Hit(h) \in HitRow
      /\ \A u \in Ticks : Hit(h)[u] = IF u = now THEN h[u] + 1 ELSE h[u]
  <2>1. Hit(h) = [u \in Ticks |-> IF u = now THEN h[u] + 1 ELSE h[u]]
    BY DEF Hit, HitRow
  <2> QED
    BY <1>2, <2>1 DEF HitRow
<1>3. now \notin T => SumIn(Hit(h), T) <= SumIn(h, T)
  <2> SUFFICES ASSUME now \notin T PROVE SumIn(Hit(h), T) <= SumIn(h, T)
    OBVIOUS
  <2>1. \A u \in T : Hit(h)[u] > 0 => u \in T /\ Hit(h)[u] <= h[u]
    BY <1>1, <1>2
  <2> QED
    BY <1>1, <2>1, SumGrows
<1>4. SumIn(Hit(h), T) <= SumIn(h, T) + 1
  <2>1. CASE now \notin T
    <3>1. SumIn(h, T) \in Nat /\ SumIn(Hit(h), T) \in Nat
      BY <1>1, HitsFinite
    <3> QED
      BY <1>3, <2>1, <3>1
  <2>2. CASE now \in T
    <3> PICK x : x = <<now, h[now] + 1>>
      OBVIOUS
    <3>1. Hits!HitsIn(Hit(h), T) \in SUBSET (Hits!HitsIn(h, T) \cup {x})
      <4> SUFFICES ASSUME NEW p \in Hits!HitsIn(Hit(h), T), p # x PROVE p \in Hits!HitsIn(h, T)
        OBVIOUS
      <4>1. PICK u \in T, i \in Nat : p = <<u, i>>
        BY <1>1, HitsOf
      <4>2. i \in 1..Hit(h)[u] /\ h[u] \in Nat
        BY <1>1, <1>2, <4>1, HitsOf
      <4>3. i \in 1..h[u]
        <5>1. CASE u = now
          <6>1. i # h[u] + 1
            BY <4>1, <5>1
          <6> QED
            BY <1>1, <4>2, <5>1, <6>1
        <5>2. CASE u # now
          BY <1>1, <4>2, <5>2
        <5> QED
          BY <5>1, <5>2
      <4> QED
        BY <4>1, <4>3, HitsOf
    <3> QED
      BY <3>1, HitsFinite, CountAdd DEF SumIn
  <2> QED
    BY <2>1, <2>2
<1> QED
  BY <1>1, <1>3, <1>4

----------------------------------------------------------------------------

Idling == [op |-> "idle"]
Looking == [op |-> "find"]
Lookups == {sl \in Slot : lookReq[sl] # Idling}

HitTypes ==
  /\ load \in Nat \ {0} /\ restarts \in Nat /\ now \in Nat /\ found \in BOOLEAN
  /\ count \in [{"redis", "local", "lookups", "misses"} -> HitRow]
  /\ passed \in [{"redis", "local", "miss"} -> HitRow]
  /\ lookReq \in [Slot -> {Idling, Looking}]
  /\ Cardinality(Lookups) <= load
  /\ \A w \in {"redis", "local", "miss"}, u \in Ticks : u > now => passed[w][u] = 0

(* What a store let through before the last restart (old) is within so much *)
(* (most), and what it let through since, it still counts.                 *)
Covered(p, c, old, most) ==
  /\ \A u \in Ticks : p[u] <= old[u] + c[u]
  /\ \A t \in Ticks : SumIn(old, Span(t)) <= most
  /\ \A t \in Ticks : SumIn(p, Span(t)) <= most + Limit

RedisHolds == Covered(passed["redis"], count["redis"], NoHits, 0)
LocalHolds == \E old \in HitRow : Covered(passed["local"], count["local"], old, Limit * restarts)

(* The misses since the last restart, and the lookups that may miss, keep   *)
(* the limit in every window that is still open.                           *)
Missed(old, since) ==
  /\ \A u \in Ticks : passed["miss"][u] = old[u] + since[u] /\ since[u] <= count["misses"][u]
  /\ \A t \in Ticks : SumIn(old, Span(t)) <= (MissLimit + load - 1) * restarts
  /\ \A t \in Ticks : SumIn(since, Span(t)) <= MissLimit + load - 1
  /\ \A t \in Ticks :
       t + Window > now => SumIn(since, Span(t)) + Cardinality(Lookups) <= MissLimit + load - 1
MissesHold ==
  /\ found => passed["miss"] = NoHits
  /\ \E old, since \in HitRow : Missed(old, since)

HitsInv == HitTypes /\ RedisHolds /\ LocalHolds /\ MissesHold

LEMMA SpansOf == \A t : Span(t) \in SUBSET Ticks
BY DEF Span

LEMMA RowsTyped ==
  ASSUME HitTypes
  PROVE  /\ \A s \in {"redis", "local", "lookups", "misses"} : count[s] \in HitRow
         /\ \A w \in {"redis", "local", "miss"} : passed[w] \in HitRow
BY DEF HitTypes

(* The windows bound all misses: those before the last restart and since.  *)
LEMMA MissesSum ==
  ASSUME HitsInv, NEW t \in Ticks
  PROVE  SumIn(passed["miss"], Span(t)) <= (MissLimit + load - 1) * (1 + restarts)
<1>1. /\ restarts \in Nat /\ load \in Nat \ {0} /\ MissLimit \in Nat
      /\ Span(t) \in SUBSET Ticks
  BY HitNumbers, SpansOf DEF HitsInv, HitTypes
<1>2. PICK old \in HitRow, since \in HitRow : Missed(old, since)
  BY DEF HitsInv, MissesHold
<1>3. passed["miss"] \in HitRow
  BY RowsTyped DEF HitsInv
<1>4. \A u \in Ticks : passed["miss"][u] <= old[u] + since[u]
  BY <1>2, <1>3 DEF Missed, HitRow
<1>5. SumIn(passed["miss"], Span(t)) <= SumIn(old, Span(t)) + SumIn(since, Span(t))
  BY <1>1, <1>3, <1>4, SumSplits
<1> PICK b : b = MissLimit + load - 1
  OBVIOUS
<1> PICK x : x = b * restarts
  OBVIOUS
<1>6. b \in Nat /\ b * restarts + b = b * (1 + restarts)
  BY <1>1
<1>7. x \in Nat
  BY <1>1, <1>6
<1>8. SumIn(old, Span(t)) <= x /\ SumIn(since, Span(t)) <= b
  BY <1>2 DEF Missed
<1>9. /\ SumIn(old, Span(t)) \in Nat /\ SumIn(since, Span(t)) \in Nat
      /\ SumIn(passed["miss"], Span(t)) \in Nat
  BY <1>1, <1>3, HitsFinite
<1>10. SumIn(passed["miss"], Span(t)) <= x + b
  BY <1>5, <1>6, <1>7, <1>8, <1>9
<1> QED
  BY <1>6, <1>10

LEMMA HitsAgree == HitsInv => WindowHolds
<1> SUFFICES ASSUME HitsInv, NEW t \in Ticks
    PROVE  /\ SumIn(passed["redis"], Span(t)) <= Limit
           /\ SumIn(passed["local"], Span(t)) <= Limit * (1 + restarts)
           /\ SumIn(passed["miss"], Span(t)) <= (MissLimit + load - 1) * (1 + restarts)
  BY HitsCount DEF WindowHolds, Hits!WindowHolds, Hits!Within, SumIn, Span, Ticks
<1>1. /\ restarts \in Nat /\ load \in Nat \ {0} /\ Limit \in Nat /\ MissLimit \in Nat
      /\ Span(t) \in SUBSET Ticks
  BY HitNumbers DEF HitsInv, HitTypes, Span
<1>2. SumIn(passed["redis"], Span(t)) <= Limit
  <2>1. SumIn(passed["redis"], Span(t)) <= 0 + Limit
    BY DEF HitsInv, RedisHolds, Covered
  <2> QED
    BY <1>1, <2>1
<1>3. SumIn(passed["local"], Span(t)) <= Limit * (1 + restarts)
  <2>1. SumIn(passed["local"], Span(t)) <= Limit * restarts + Limit
    BY DEF HitsInv, LocalHolds, Covered
  <2>2. Limit * restarts + Limit = Limit * (1 + restarts)
    BY <1>1
  <2> QED
    BY <2>1, <2>2
<1>4. SumIn(passed["miss"], Span(t)) <= (MissLimit + load - 1) * (1 + restarts)
  BY MissesSum
<1> QED
  BY <1>2, <1>3, <1>4

LEMMA NoHitsRow == NoHits \in HitRow /\ \A u \in Ticks : NoHits[u] = 0
BY DEF NoHits, HitRow

LEMMA HitsInit == Hits!Init => HitsInv
<1> SUFFICES ASSUME Hits!Init PROVE HitsInv
  OBVIOUS
<1>1. Hits!None = NoHits /\ Hits!Idle = Idling
  BY DEF Hits!None, NoHits, Ticks, Hits!Idle, Idling
<1>2. /\ load \in Nat \ {0} /\ now = 1 /\ found \in BOOLEAN /\ restarts = 0
      /\ count = [s \in {"redis", "local", "lookups", "misses"} |-> NoHits]
      /\ passed = [s \in {"redis", "local", "miss"} |-> NoHits]
      /\ lookReq = [sl \in Slot |-> Idling]
  BY <1>1, HitNumbers DEF Hits!Init
<1>3. Lookups = {} /\ Cardinality(Lookups) = 0
  BY <1>2, FS_EmptySet DEF Lookups
<1>4. HitTypes
  BY <1>2, <1>3, NoHitsRow DEF HitTypes
<1>5. \A t \in Ticks : SumIn(NoHits, Span(t)) = 0
  BY NoHitsRow, SpansOf, NothingSums
<1>6. Limit \in Nat /\ MissLimit \in Nat
  BY HitNumbers
<1>7. Covered(NoHits, NoHits, NoHits, 0)
  BY <1>5, <1>6, NoHitsRow DEF Covered
<1>8. RedisHolds
  BY <1>2, <1>7 DEF RedisHolds
<1>9. LocalHolds
  <2>1. Limit * restarts = 0
    BY <1>2, <1>6
  <2> QED
    BY <1>2, <1>7, <2>1, NoHitsRow DEF LocalHolds
<1>10. Missed(NoHits, NoHits)
  <2>1. (MissLimit + load - 1) * restarts = 0
    BY <1>2, <1>6
  <2>2. MissLimit + load - 1 >= 0
    BY <1>2, <1>6
  <2>3. passed["miss"] = NoHits /\ count["misses"] = NoHits
    BY <1>2
  <2> QED
    BY <1>3, <1>5, <2>1, <2>2, <2>3, NoHitsRow DEF Missed
<1>11. MissesHold
  BY <1>2, <1>10, NoHitsRow DEF MissesHold
<1> QED
  BY <1>4, <1>8, <1>9, <1>11 DEF HitsInv

----------------------------------------------------------------------------

(* A hit is one more in this tick, in the counts and in what is let through *)
LEMMA Counting ==
  ASSUME HitTypes, NEW S \in SUBSET {"redis", "local", "lookups", "misses"}, Hits!Count(S)
  PROVE  /\ count' \in [{"redis", "local", "lookups", "misses"} -> HitRow]
         /\ \A s \in {"redis", "local", "lookups", "misses"} :
              count'[s] = IF s \in S THEN Hit(count[s]) ELSE count[s]
<1>1. \A s \in {"redis", "local", "lookups", "misses"} : count[s] \in HitRow /\ Hit(count[s]) \in HitRow
  BY OneMore DEF HitTypes
<1>2. count' = [s \in {"redis", "local", "lookups", "misses"} |->
                  IF s \in S THEN Hit(count[s]) ELSE count[s]]
  BY DEF Hits!Count, HitTypes, Hit
<1> QED
  BY <1>1, <1>2

LEMMA Passing ==
  ASSUME HitTypes, NEW w \in {"redis", "local", "miss"}, Hits!Pass(w)
  PROVE  /\ passed' \in [{"redis", "local", "miss"} -> HitRow]
         /\ passed'[w] = Hit(passed[w])
         /\ \A v \in {"redis", "local", "miss"} : v # w => passed'[v] = passed[v]
         /\ \A v \in {"redis", "local", "miss"}, u \in Ticks : u > now => passed'[v][u] = 0
<1>1. passed[w] \in HitRow /\ Hit(passed[w]) \in HitRow
  BY OneMore DEF HitTypes
<1>2. passed' = [passed EXCEPT ![w] = Hit(passed[w])]
  BY DEF Hits!Pass, Hit
<1>3. /\ passed' \in [{"redis", "local", "miss"} -> HitRow]
      /\ passed'[w] = Hit(passed[w])
      /\ \A v \in {"redis", "local", "miss"} : v # w => passed'[v] = passed[v]
  BY <1>1, <1>2 DEF HitTypes
<1>4. ASSUME NEW v \in {"redis", "local", "miss"}, NEW u \in Ticks, u > now
      PROVE  passed'[v][u] = 0
  <2>1. passed[v][u] = 0 /\ u # now
    BY <1>4, HitNumbers DEF HitTypes
  <2>2. CASE v = w
    BY <1>1, <1>3, <2>1, <2>2, OneMore
  <2>3. CASE v # w
    BY <1>3, <2>1, <2>3
  <2> QED
    BY <2>2, <2>3
<1> QED
  BY <1>3, <1>4

LEMMA RecentSums ==
  ASSUME NEW h
  PROVE  Hits!Recent(h) = SumIn(h, Recently)
BY HitsCount DEF Hits!Recent, SumIn, Recently, Ticks

(* A store lets a hit through when those it counts leave room.             *)
LEMMA LetThrough ==
  ASSUME NEW p \in HitRow, NEW c \in HitRow, NEW old \in HitRow, NEW most \in Nat, now \in Nat,
         Covered(p, c, old, most), \A u \in Ticks : u > now => p[u] = 0,
         SumIn(Hit(c), Recently) <= Limit
  PROVE  Covered(Hit(p), Hit(c), old, most)
<1>1. Hit(p) \in HitRow /\ Hit(c) \in HitRow
  BY OneMore
<1>2. ASSUME NEW u \in Ticks
      PROVE  /\ p[u] \in Nat /\ c[u] \in Nat /\ old[u] \in Nat
             /\ Hit(p)[u] <= old[u] + Hit(c)[u]
             /\ u > now => Hit(p)[u] = 0
  <2>1. p[u] \in Nat /\ c[u] \in Nat /\ old[u] \in Nat /\ u \in Nat
    BY HitNumbers DEF HitRow
  <2>2. p[u] <= old[u] + c[u]
    BY DEF Covered
  <2>3. /\ Hit(p)[u] = IF u = now THEN p[u] + 1 ELSE p[u]
        /\ Hit(c)[u] = IF u = now THEN c[u] + 1 ELSE c[u]
    BY OneMore
  <2> QED
    BY <2>1, <2>2, <2>3
<1>3. ASSUME NEW t \in Ticks PROVE SumIn(Hit(p), Span(t)) <= most + Limit
  <2>1. Span(t) \in SUBSET Ticks /\ Recently \in SUBSET Ticks
    BY DEF Span, Recently
  <2>2. Limit \in Nat /\ Window \in Nat /\ t \in Nat
    BY HitNumbers
  <2>3. CASE now \notin Span(t)
    <3>1. SumIn(Hit(p), Span(t)) <= SumIn(p, Span(t)) /\ SumIn(p, Span(t)) <= most + Limit
      BY <2>1, <2>3, OneMore DEF Covered
    <3>2. SumIn(Hit(p), Span(t)) \in Nat /\ SumIn(p, Span(t)) \in Nat
      BY <1>1, <2>1, HitsFinite
    <3> QED
      BY <2>2, <3>1, <3>2
  <2>4. CASE now \in Span(t)
    <3> PICK T : T = {u \in Span(t) : u <= now}
      OBVIOUS
    <3>1. T \in SUBSET Ticks /\ T \in SUBSET Span(t)
      BY <2>1
    <3>2. T \in SUBSET Recently
      <4> SUFFICES ASSUME NEW u \in T PROVE u \in Recently
        OBVIOUS
      <4>1. u \in Ticks /\ u <= now /\ t <= u /\ now < t + Window
        BY <2>4 DEF Span
      <4>2. u \in Nat
        BY <4>1, HitNumbers
      <4> QED
        BY <2>2, <4>1, <4>2 DEF Recently
    <3>3. SumIn(Hit(p), Span(t)) <= SumIn(Hit(p), T)
      <4>1. \A u \in Span(t) : Hit(p)[u] > 0 => u \in T /\ Hit(p)[u] <= Hit(p)[u]
        <5> SUFFICES ASSUME NEW u \in Span(t), Hit(p)[u] > 0
            PROVE u \in T /\ Hit(p)[u] <= Hit(p)[u]
          OBVIOUS
        <5>1. u \in Ticks /\ u \in Nat /\ Hit(p)[u] \in Nat
          BY <1>1, <2>1, HitNumbers DEF HitRow
        <5>2. ~(u > now)
          BY <1>2, <5>1
        <5> QED
          BY <5>1, <5>2
      <4> QED
        BY <1>1, <2>1, <3>1, <4>1, SumGrows
    <3>4. SumIn(Hit(p), T) <= SumIn(old, T) + SumIn(Hit(c), T)
      BY <1>1, <1>2, <3>1, SumSplits
    <3>5. SumIn(old, T) <= SumIn(old, Span(t))
      <4>1. \A u \in T : old[u] > 0 => u \in Span(t) /\ old[u] <= old[u]
        BY <1>2, <3>1
      <4> QED
        BY <2>1, <3>1, <4>1, SumGrows
    <3>6. SumIn(Hit(c), T) <= SumIn(Hit(c), Recently)
      <4>1. \A u \in T : Hit(c)[u] > 0 => u \in Recently /\ Hit(c)[u] <= Hit(c)[u]
        BY <1>1, <3>1, <3>2 DEF HitRow
      <4> QED
        BY <1>1, <2>1, <3>1, <4>1, SumGrows
    <3>7. SumIn(old, Span(t)) <= most
      BY DEF Covered
    <3>8. /\ SumIn(Hit(p), Span(t)) \in Nat /\ SumIn(Hit(p), T) \in Nat /\ SumIn(old, T) \in Nat
          /\ SumIn(Hit(c), T) \in Nat /\ SumIn(old, Span(t)) \in Nat
          /\ SumIn(Hit(c), Recently) \in Nat
      BY <1>1, <2>1, <3>1, HitsFinite
    <3> QED
      BY <2>2, <3>3, <3>4, <3>5, <3>6, <3>7, <3>8
  <2> QED
    BY <2>3, <2>4
<1> QED
  BY <1>2, <1>3 DEF Covered

(* A hit that is counted and refused changes nothing in what is covered.   *)
LEMMA MoreCounted ==
  ASSUME NEW p \in HitRow, NEW c \in HitRow, NEW old, NEW most, old \in HitRow,
         Covered(p, c, old, most)
  PROVE  Covered(p, Hit(c), old, most)
<1>1. ASSUME NEW u \in Ticks PROVE p[u] <= old[u] + Hit(c)[u]
  <2>1. p[u] \in Nat /\ c[u] \in Nat /\ old[u] \in Nat /\ p[u] <= old[u] + c[u]
    BY DEF HitRow, Covered
  <2>2. Hit(c)[u] = IF u = now THEN c[u] + 1 ELSE c[u]
    BY OneMore
  <2> QED
    BY <2>1, <2>2
<1> QED
  BY <1>1 DEF Covered

(* A step that is about no lookup keeps what is said of the misses.        *)
LEMMA MissesStay ==
  ASSUME MissesHold, passed'["miss"] = passed["miss"], count'["misses"] = count["misses"],
         lookReq' = lookReq, now' = now, load' = load, restarts' = restarts, found' => found
  PROVE  MissesHold'
<1>1. PICK old \in HitRow, since \in HitRow : Missed(old, since)
  BY DEF MissesHold
<1>2. Cardinality(Lookups)' = Cardinality(Lookups)
  BY DEF Lookups
<1>3. Missed(old, since)'
  BY <1>1, <1>2 DEF Missed
<1> QED
  BY <1>1, <1>3 DEF MissesHold

LEMMA LocalStays ==
  ASSUME LocalHolds, passed'["local"] = passed["local"], restarts' = restarts,
         count'["local"] = count["local"]
  PROVE  LocalHolds'
BY DEF LocalHolds, Covered

LEMMA HitTypesStay ==
  ASSUME HitTypes, lookReq' = lookReq, now' = now, load' = load, restarts' = restarts,
         found' \in BOOLEAN,
         count' \in [{"redis", "local", "lookups", "misses"} -> HitRow],
         passed' \in [{"redis", "local", "miss"} -> HitRow],
         \A w \in {"redis", "local", "miss"}, u \in Ticks : u > now => passed'[w][u] = 0
  PROVE  HitTypes'
<1>1. Lookups' = Lookups
  BY DEF Lookups
<1> QED
  BY <1>1 DEF HitTypes

LEMMA HitRedisKeeps ==
  ASSUME HitsInv, Hits!HitRedis
  PROVE  HitsInv'
<1>1. /\ Hits!Count({"redis"}) /\ now' = now /\ load' = load /\ restarts' = restarts
      /\ found' = found /\ lookReq' = lookReq
      /\ \/ SumIn(count'["redis"], Recently) > Limit /\ passed' = passed
         \/ ~(SumIn(count'["redis"], Recently) > Limit) /\ Hits!Pass("redis")
  BY RecentSums DEF Hits!HitRedis
<1>2. HitTypes /\ RedisHolds /\ LocalHolds /\ MissesHold
  BY DEF HitsInv
<1>3. /\ count' \in [{"redis", "local", "lookups", "misses"} -> HitRow]
      /\ count'["redis"] = Hit(count["redis"]) /\ count'["local"] = count["local"]
      /\ count'["misses"] = count["misses"]
  BY <1>1, <1>2, Counting
<1>4. Limit \in Nat /\ SumIn(count'["redis"], Recently) \in Nat
  BY <1>3, HitNumbers, HitsFinite DEF Recently
<1>5. /\ passed' \in [{"redis", "local", "miss"} -> HitRow]
      /\ passed'["local"] = passed["local"] /\ passed'["miss"] = passed["miss"]
      /\ \A v \in {"redis", "local", "miss"}, u \in Ticks : u > now => passed'[v][u] = 0
      /\ Covered(passed'["redis"], count'["redis"], NoHits, 0)
  <2>1. Covered(passed["redis"], count["redis"], NoHits, 0) /\ now \in Nat
    BY <1>2 DEF RedisHolds, HitTypes
  <2>2. \A u \in Ticks : u > now => passed["redis"][u] = 0
    BY <1>2 DEF HitTypes
  <2>3. CASE passed' = passed
    <3>1. Covered(passed["redis"], Hit(count["redis"]), NoHits, 0)
      BY <1>2, <2>1, NoHitsRow, RowsTyped, MoreCounted
    <3> QED
      BY <1>2, <1>3, <2>3, <3>1 DEF HitTypes
  <2>4. CASE ~(SumIn(count'["redis"], Recently) > Limit) /\ Hits!Pass("redis")
    <3>1. SumIn(Hit(count["redis"]), Recently) <= Limit
      BY <1>3, <1>4, <2>4
    <3>2. Covered(Hit(passed["redis"]), Hit(count["redis"]), NoHits, 0)
      BY <1>2, <2>1, <2>2, <3>1, NoHitsRow, RowsTyped, LetThrough
    <3> QED
      BY <1>2, <1>3, <2>4, <3>2, Passing
  <2> QED
    BY <1>1, <2>3, <2>4
<1>6. HitTypes'
  BY <1>1, <1>2, <1>3, <1>5, HitTypesStay DEF HitTypes
<1>7. RedisHolds' /\ LocalHolds' /\ MissesHold'
  <2>1. RedisHolds'
    BY <1>5 DEF RedisHolds
  <2>2. LocalHolds'
    BY <1>1, <1>2, <1>3, <1>5, LocalStays
  <2>3. MissesHold'
    BY <1>1, <1>2, <1>3, <1>5, MissesStay
  <2> QED
    BY <2>1, <2>2, <2>3
<1> QED
  BY <1>6, <1>7 DEF HitsInv

LEMMA HitLocalKeeps ==
  ASSUME HitsInv, Hits!HitLocal
  PROVE  HitsInv'
<1>1. /\ Hits!Count({"local"}) \/ Hits!Count({"redis", "local"})
      /\ now' = now /\ load' = load /\ restarts' = restarts
      /\ found' = found /\ lookReq' = lookReq
      /\ \/ SumIn(count'["local"], Recently) > Limit /\ passed' = passed
         \/ ~(SumIn(count'["local"], Recently) > Limit) /\ Hits!Pass("local")
  BY RecentSums DEF Hits!HitLocal
<1>2. HitTypes /\ RedisHolds /\ LocalHolds /\ MissesHold
  BY DEF HitsInv
<1>3. /\ count' \in [{"redis", "local", "lookups", "misses"} -> HitRow]
      /\ count'["local"] = Hit(count["local"])
      /\ count'["redis"] \in {count["redis"], Hit(count["redis"])}
      /\ count'["misses"] = count["misses"]
  BY <1>1, <1>2, Counting
<1>4. Limit \in Nat /\ SumIn(count'["local"], Recently) \in Nat /\ restarts \in Nat
  BY <1>2, <1>3, HitNumbers, HitsFinite DEF Recently, HitTypes
<1>5. PICK old \in HitRow : Covered(passed["local"], count["local"], old, Limit * restarts)
  BY <1>2 DEF LocalHolds
<1>6. /\ passed' \in [{"redis", "local", "miss"} -> HitRow]
      /\ passed'["redis"] = passed["redis"] /\ passed'["miss"] = passed["miss"]
      /\ \A v \in {"redis", "local", "miss"}, u \in Ticks : u > now => passed'[v][u] = 0
      /\ Covered(passed'["local"], count'["local"], old, Limit * restarts)
  <2>1. now \in Nat /\ \A u \in Ticks : u > now => passed["local"][u] = 0
    BY <1>2 DEF HitTypes
  <2>2. Limit * restarts \in Nat
    BY <1>4
  <2>3. CASE passed' = passed
    <3>1. Covered(passed["local"], Hit(count["local"]), old, Limit * restarts)
      BY <1>2, <1>5, RowsTyped, MoreCounted
    <3> QED
      BY <1>2, <1>3, <2>3, <3>1 DEF HitTypes
  <2>4. CASE ~(SumIn(count'["local"], Recently) > Limit) /\ Hits!Pass("local")
    <3>1. SumIn(Hit(count["local"]), Recently) <= Limit
      BY <1>3, <1>4, <2>4
    <3>2. Covered(Hit(passed["local"]), Hit(count["local"]), old, Limit * restarts)
      BY <1>2, <1>5, <2>1, <2>2, <3>1, RowsTyped, LetThrough
    <3> QED
      BY <1>2, <1>3, <2>4, <3>2, Passing
  <2> QED
    BY <1>1, <2>3, <2>4
<1>7. HitTypes'
  BY <1>1, <1>2, <1>3, <1>6, HitTypesStay DEF HitTypes
<1>8. RedisHolds'
  <2>1. Covered(passed["redis"], count["redis"], NoHits, 0)
    BY <1>2 DEF RedisHolds
  <2>2. Covered(passed["redis"], Hit(count["redis"]), NoHits, 0)
    BY <1>2, <2>1, NoHitsRow, RowsTyped, MoreCounted
  <2> QED
    BY <1>3, <1>6, <2>1, <2>2 DEF RedisHolds
<1>9. LocalHolds'
  BY <1>1, <1>5, <1>6 DEF LocalHolds
<1>10. MissesHold'
  BY <1>1, <1>2, <1>3, <1>6, MissesStay
<1> QED
  BY <1>7, <1>8, <1>9, <1>10 DEF HitsInv

----------------------------------------------------------------------------

LEMMA RedisStays ==
  ASSUME RedisHolds, passed'["redis"] = passed["redis"], count'["redis"] = count["redis"]
  PROVE  RedisHolds'
BY DEF RedisHolds

(* Neither Redis nor an expired link has a count to change.                 *)
LEMMA RedisGoesKeeps ==
  ASSUME HitsInv, Hits!RedisComesAndGoes \/ Hits!LinkExpires
  PROVE  HitsInv'
<1>1. /\ now' = now /\ load' = load /\ restarts' = restarts /\ lookReq' = lookReq
      /\ count' = count /\ passed' = passed /\ (found' => found)
  BY DEF Hits!RedisComesAndGoes, Hits!LinkExpires
<1>2. HitTypes /\ RedisHolds /\ LocalHolds /\ MissesHold
  BY DEF HitsInv
<1>3. found' \in BOOLEAN
  BY <1>2 DEF Hits!RedisComesAndGoes, Hits!LinkExpires, HitTypes
<1>4. HitTypes'
  BY <1>1, <1>2, <1>3, HitTypesStay DEF HitTypes
<1>5. RedisHolds' /\ LocalHolds' /\ MissesHold'
  BY <1>1, <1>2, RedisStays, LocalStays, MissesStay
<1> QED
  BY <1>4, <1>5 DEF HitsInv

LEMMA TimePassesKeeps ==
  ASSUME HitsInv, Hits!TimePasses
  PROVE  HitsInv'
<1>1. /\ now' = now + 1 /\ load' = load /\ restarts' = restarts /\ lookReq' = lookReq
      /\ count' = count /\ passed' = passed /\ found' = found
  BY DEF Hits!TimePasses
<1>2. HitTypes /\ RedisHolds /\ LocalHolds /\ MissesHold /\ now \in Nat
  BY DEF HitsInv, HitTypes
<1>3. Lookups' = Lookups
  BY <1>1 DEF Lookups
<1>4. \A w \in {"redis", "local", "miss"}, u \in Ticks : u > now' => passed'[w][u] = 0
  <2> SUFFICES ASSUME NEW w \in {"redis", "local", "miss"}, NEW u \in Ticks, u > now'
      PROVE passed'[w][u] = 0
    OBVIOUS
  <2>1. u > now
    BY <1>1, <1>2, HitNumbers
  <2> QED
    BY <1>1, <1>2, <2>1 DEF HitTypes
<1>5. HitTypes'
  BY <1>1, <1>2, <1>3, <1>4 DEF HitTypes
<1>6. RedisHolds' /\ LocalHolds'
  BY <1>1, <1>2, RedisStays, LocalStays
<1>7. PICK old \in HitRow, since \in HitRow : Missed(old, since)
  BY <1>2 DEF MissesHold
<1>8. ASSUME NEW t \in Ticks, t + Window > now'
      PROVE  SumIn(since, Span(t)) + Cardinality(Lookups) <= MissLimit + load - 1
  <2>1. t + Window > now
    BY <1>1, <1>2, <1>8, HitNumbers
  <2> QED
    BY <1>7, <2>1 DEF Missed
<1>9. Missed(old, since)'
  BY <1>1, <1>3, <1>7, <1>8 DEF Missed
<1>10. MissesHold'
  BY <1>1, <1>2, <1>9 DEF MissesHold
<1> QED
  BY <1>5, <1>6, <1>10 DEF HitsInv

(* The window of now counts the misses of every window that is open.       *)
LEMMA OpenWindows ==
  ASSUME HitTypes, NEW old \in HitRow, NEW since \in HitRow, Missed(old, since),
         NEW t \in Ticks, t + Window > now
  PROVE  SumIn(since, Span(t)) <= SumIn(count["misses"], Recently)
<1>1. \A u \in Span(t) : since[u] > 0 => u \in Recently /\ since[u] <= count["misses"][u]
  <2> SUFFICES ASSUME NEW u \in Span(t), since[u] > 0
      PROVE  u \in Recently /\ since[u] <= count["misses"][u]
    OBVIOUS
  <2>1. /\ u \in Ticks /\ u \in Nat /\ t \in Nat /\ t <= u /\ now \in Nat /\ Window \in Nat
        /\ old[u] \in Nat /\ since[u] \in Nat
    BY HitNumbers DEF Span, HitRow, HitTypes
  <2>2. passed["miss"][u] = old[u] + since[u] /\ since[u] <= count["misses"][u]
    BY <2>1 DEF Missed
  <2>3. ~(u > now)
    BY <2>1, <2>2 DEF HitTypes
  <2>4. u <= now /\ u + Window > now
    BY <2>1, <2>3
  <2> QED
    BY <2>1, <2>2, <2>4 DEF Recently
<1> QED
  BY <1>1, SpansOf, SumGrows, RowsTyped DEF Recently

LEMMA BeginLookupKeeps ==
  ASSUME HitsInv, NEW sl \in Slot, Hits!BeginLookup(sl)
  PROVE  HitsInv'
<1>1. /\ now' = now /\ load' = load /\ restarts' = restarts /\ passed' = passed
      /\ found' = found /\ Hits!Count({"lookups"})
      /\ sl \notin Lookups /\ Cardinality(Lookups) < load
      /\ \/ lookReq' = lookReq
         \/ /\ ~(SumIn(count["misses"], Recently) >= MissLimit)
            /\ lookReq' = [lookReq EXCEPT ![sl] = Looking]
  BY RecentSums, HitsCount DEF Hits!BeginLookup, Hits!Busy, Hits!Idle, Lookups, Idling, Looking
<1>2. HitTypes /\ RedisHolds /\ LocalHolds /\ MissesHold
  BY DEF HitsInv
<1>3. /\ count' \in [{"redis", "local", "lookups", "misses"} -> HitRow]
      /\ count'["redis"] = count["redis"] /\ count'["local"] = count["local"]
      /\ count'["misses"] = count["misses"]
  BY <1>1, <1>2, Counting
<1>4. RedisHolds' /\ LocalHolds'
  BY <1>1, <1>2, <1>3, RedisStays, LocalStays
<1>5. CASE lookReq' = lookReq
  <2>1. HitTypes'
    BY <1>1, <1>2, <1>3, <1>5, HitTypesStay DEF HitTypes
  <2>2. MissesHold'
    BY <1>1, <1>2, <1>3, <1>5, MissesStay
  <2> QED
    BY <1>4, <2>1, <2>2 DEF HitsInv
<1>6. CASE /\ ~(SumIn(count["misses"], Recently) >= MissLimit)
           /\ lookReq' = [lookReq EXCEPT ![sl] = Looking]
  <2>1. lookReq' \in [Slot -> {Idling, Looking}]
    BY <1>2, <1>6 DEF HitTypes
  <2>2. Lookups' \in SUBSET (Lookups \cup {sl})
    BY <1>2, <1>6 DEF Lookups, HitTypes
  <2>3. /\ IsFiniteSet(Lookups) /\ Cardinality(Lookups) \in Nat /\ Cardinality(Lookups') \in Nat
    BY HitNumbers, CountSubset DEF Lookups
  <2>4. load \in Nat /\ Cardinality(Lookups') <= load
    <3>1. Cardinality(Lookups') <= Cardinality(Lookups) + 1
      BY <2>2, <2>3, CountAdd
    <3>2. load \in Nat /\ Cardinality(Lookups) < load
      BY <1>1, <1>2 DEF HitTypes
    <3> QED
      BY <2>3, <3>1, <3>2
  <2>5. HitTypes'
    BY <1>1, <1>2, <1>3, <2>1, <2>4 DEF HitTypes
  <2>6. PICK old \in HitRow, since \in HitRow : Missed(old, since)
    BY <1>2 DEF MissesHold
  <2>7. ASSUME NEW t \in Ticks, t + Window > now
        PROVE  SumIn(since, Span(t)) + Cardinality(Lookups') <= MissLimit + load - 1
    <3>1. SumIn(since, Span(t)) <= SumIn(count["misses"], Recently)
      BY <1>2, <2>6, <2>7, OpenWindows
    <3>2. SumIn(since, Span(t)) \in Nat /\ SumIn(count["misses"], Recently) \in Nat
      BY <1>2, SpansOf, HitsFinite, RowsTyped DEF Recently
    <3>3. MissLimit \in Nat /\ ~(SumIn(count["misses"], Recently) >= MissLimit)
      BY <1>6, HitNumbers
    <3> QED
      BY <2>3, <2>4, <3>1, <3>2, <3>3
  <2>8. Missed(old, since)'
    BY <1>1, <1>3, <2>6, <2>7 DEF Missed
  <2>9. MissesHold'
    BY <1>1, <1>2, <2>8 DEF MissesHold
  <2> QED
    BY <1>4, <2>5, <2>9 DEF HitsInv
<1> QED
  BY <1>1, <1>5, <1>6

LEMMA LookupEnds ==
  ASSUME HitTypes, NEW sl \in Lookups, lookReq' = [lookReq EXCEPT ![sl] = Idling]
  PROVE  /\ lookReq' \in [Slot -> {Idling, Looking}]
         /\ Cardinality(Lookups) \in Nat /\ Cardinality(Lookups') \in Nat
         /\ Cardinality(Lookups') <= Cardinality(Lookups) - 1
<1>1. /\ lookReq' \in [Slot -> {Idling, Looking}]
      /\ Lookups' \in SUBSET (Lookups \ {sl})
  BY DEF HitTypes, Lookups
<1>2. IsFiniteSet(Lookups) /\ Cardinality(Lookups) \in Nat /\ Cardinality(Lookups') \in Nat
  BY HitNumbers, CountSubset DEF Lookups
<1> QED
  BY <1>1, <1>2, CountRemove

LEMMA FindLinkKeeps ==
  ASSUME HitsInv, NEW sl \in Slot, Hits!FindLink(sl)
  PROVE  HitsInv'
<1>1. /\ now' = now /\ load' = load /\ restarts' = restarts /\ found' = found
      /\ lookReq[sl].op = "find" /\ lookReq' = [lookReq EXCEPT ![sl] = Idling]
      /\ \/ found /\ count' = [count EXCEPT !["misses"] = NoHits] /\ passed' = passed
         \/ ~found /\ Hits!Count({"misses"}) /\ Hits!Pass("miss")
  BY DEF Hits!FindLink, Hits!Idle, Idling, Hits!None, NoHits, Ticks
<1>2. HitTypes /\ RedisHolds /\ LocalHolds /\ MissesHold
  BY DEF HitsInv
<1>3. sl \in Lookups
  BY <1>1 DEF Lookups, Idling
<1>4. /\ lookReq' \in [Slot -> {Idling, Looking}]
      /\ Cardinality(Lookups) \in Nat /\ Cardinality(Lookups') \in Nat
      /\ Cardinality(Lookups') <= Cardinality(Lookups) - 1
  BY <1>1, <1>2, <1>3, LookupEnds
<1>5. /\ load \in Nat /\ Cardinality(Lookups') <= load
      /\ MissLimit \in Nat /\ now \in Nat /\ Window \in Nat
  BY <1>2, <1>4, HitNumbers DEF HitTypes
<1>6. PICK old \in HitRow, since \in HitRow : Missed(old, since)
  BY <1>2 DEF MissesHold
<1>7. \A t \in Ticks : SumIn(since, Span(t)) \in Nat
  BY SpansOf, HitsFinite
<1>8. \A u \in Ticks : old[u] \in Nat /\ since[u] \in Nat
  BY DEF HitRow
<1>9. CASE found /\ count' = [count EXCEPT !["misses"] = NoHits] /\ passed' = passed
  <2>1. /\ count' \in [{"redis", "local", "lookups", "misses"} -> HitRow]
        /\ count'["redis"] = count["redis"] /\ count'["local"] = count["local"]
        /\ count'["misses"] = NoHits
    BY <1>2, <1>9, NoHitsRow DEF HitTypes
  <2>2. HitTypes'
    BY <1>1, <1>2, <1>4, <1>5, <1>9, <2>1 DEF HitTypes
  <2>3. RedisHolds' /\ LocalHolds'
    BY <1>1, <1>2, <1>9, <2>1, RedisStays, LocalStays
  <2>4. \A u \in Ticks : since[u] <= count'["misses"][u]
    <3> SUFFICES ASSUME NEW u \in Ticks PROVE since[u] <= count'["misses"][u]
      OBVIOUS
    <3>1. passed["miss"][u] = 0 /\ passed["miss"][u] = old[u] + since[u]
      BY <1>2, <1>6, <1>9, NoHitsRow DEF MissesHold, Missed
    <3>2. since[u] = 0 /\ count'["misses"][u] = 0
      BY <1>8, <2>1, <3>1, NoHitsRow
    <3> QED
      BY <3>2
  <2>5. \A t \in Ticks : t + Window > now =>
          SumIn(since, Span(t)) + Cardinality(Lookups') <= MissLimit + load - 1
    BY <1>4, <1>5, <1>6, <1>7 DEF Missed
  <2>6. Missed(old, since)'
    BY <1>1, <1>6, <1>9, <2>4, <2>5 DEF Missed
  <2>7. MissesHold'
    BY <1>1, <1>2, <1>9, <2>6 DEF MissesHold
  <2> QED
    BY <2>2, <2>3, <2>7 DEF HitsInv
<1>10. CASE ~found /\ Hits!Count({"misses"}) /\ Hits!Pass("miss")
  <2>1. /\ count' \in [{"redis", "local", "lookups", "misses"} -> HitRow]
        /\ count'["redis"] = count["redis"] /\ count'["local"] = count["local"]
        /\ count'["misses"] = Hit(count["misses"])
    BY <1>2, <1>10, Counting
  <2>2. /\ passed' \in [{"redis", "local", "miss"} -> HitRow]
        /\ passed'["miss"] = Hit(passed["miss"])
        /\ passed'["redis"] = passed["redis"] /\ passed'["local"] = passed["local"]
        /\ \A v \in {"redis", "local", "miss"}, u \in Ticks : u > now => passed'[v][u] = 0
    BY <1>2, <1>10, Passing
  <2>3. HitTypes'
    BY <1>1, <1>2, <1>4, <1>5, <2>1, <2>2 DEF HitTypes
  <2>4. RedisHolds' /\ LocalHolds'
    BY <1>1, <1>2, <2>1, <2>2, RedisStays, LocalStays
  <2>5. passed["miss"] \in HitRow /\ count["misses"] \in HitRow /\ Hit(since) \in HitRow
    BY <1>2, RowsTyped, OneMore
  <2>6. ASSUME NEW u \in Ticks
        PROVE  passed'["miss"][u] = old[u] + Hit(since)[u] /\ Hit(since)[u] <= count'["misses"][u]
    <3>1. /\ passed'["miss"][u] = IF u = now THEN passed["miss"][u] + 1 ELSE passed["miss"][u]
          /\ count'["misses"][u] = IF u = now THEN count["misses"][u] + 1 ELSE count["misses"][u]
          /\ Hit(since)[u] = IF u = now THEN since[u] + 1 ELSE since[u]
      BY <2>1, <2>2, <2>5, OneMore
    <3>2. passed["miss"][u] = old[u] + since[u] /\ since[u] <= count["misses"][u]
      BY <1>6 DEF Missed
    <3>3. count["misses"][u] \in Nat
      BY <2>5 DEF HitRow
    <3> QED
      BY <1>8, <3>1, <3>2, <3>3
  <2>7. ASSUME NEW t \in Ticks
        PROVE  /\ SumIn(Hit(since), Span(t)) <= MissLimit + load - 1
               /\ t + Window > now =>
                    SumIn(Hit(since), Span(t)) + Cardinality(Lookups') <= MissLimit + load - 1
    <3>1. /\ SumIn(Hit(since), Span(t)) \in Nat /\ SumIn(since, Span(t)) \in Nat
          /\ SumIn(Hit(since), Span(t)) <= SumIn(since, Span(t)) + 1
          /\ now \notin Span(t) => SumIn(Hit(since), Span(t)) <= SumIn(since, Span(t))
      BY <2>5, SpansOf, HitsFinite, OneMore
    <3>2. /\ SumIn(since, Span(t)) <= MissLimit + load - 1
          /\ t + Window > now => SumIn(since, Span(t)) + Cardinality(Lookups) <= MissLimit + load - 1
      BY <1>6 DEF Missed
    <3>3. CASE t + Window > now
      BY <1>4, <1>5, <3>1, <3>2, <3>3
    <3>4. CASE ~(t + Window > now)
      <4>1. t \in Nat
        BY HitNumbers
      <4>2. now \notin Span(t)
        BY <1>5, <3>4, <4>1 DEF Span
      <4> QED
        BY <1>5, <3>1, <3>2, <3>4, <4>2
    <3> QED
      BY <3>3, <3>4
  <2>8. Missed(old, Hit(since))'
    <3>1. Hit(since)' = Hit(since)
      BY <1>1 DEF Hit
    <3> QED
      BY <1>1, <1>6, <2>6, <2>7, <3>1 DEF Missed
  <2>9. MissesHold'
    <3>1. Hit(since)' = Hit(since)
      BY <1>1 DEF Hit
    <3> QED
      BY <1>1, <1>10, <2>5, <2>8, <3>1 DEF MissesHold
  <2> QED
    BY <2>3, <2>4, <2>9 DEF HitsInv
<1> QED
  BY <1>1, <1>9, <1>10

LEMMA RestartKeeps ==
  ASSUME HitsInv, Hits!ProcessRestart
  PROVE  HitsInv'
<1>1. /\ now' = now /\ load' = load /\ restarts' = restarts + 1 /\ passed' = passed
      /\ found' = found /\ lookReq' = [sl \in Slot |-> Idling]
      /\ count' = [s \in DOMAIN count |-> IF s = "redis" THEN count[s] ELSE NoHits]
  BY DEF Hits!ProcessRestart, Hits!Idle, Idling, Hits!None, NoHits, Ticks
<1>2. HitTypes /\ RedisHolds /\ LocalHolds /\ MissesHold
  BY DEF HitsInv
<1>3. /\ count' \in [{"redis", "local", "lookups", "misses"} -> HitRow]
      /\ count'["redis"] = count["redis"] /\ count'["local"] = NoHits
      /\ count'["misses"] = NoHits
  BY <1>1, <1>2, NoHitsRow DEF HitTypes
<1>4. Lookups' = {} /\ Cardinality(Lookups') = 0
  <2>1. Lookups' = {}
    BY <1>1 DEF Lookups
  <2> QED
    BY <2>1, FS_EmptySet
<1>5. /\ restarts \in Nat /\ load \in Nat \ {0} /\ Limit \in Nat /\ MissLimit \in Nat
  BY <1>2, HitNumbers DEF HitTypes
<1>6. HitTypes'
  BY <1>1, <1>2, <1>3, <1>4, <1>5 DEF HitTypes
<1>7. RedisHolds'
  BY <1>1, <1>2, <1>3, RedisStays
<1>8. passed["local"] \in HitRow /\ passed["miss"] \in HitRow
  BY <1>2, RowsTyped
<1>9. LocalHolds'
  <2>1. PICK old \in HitRow : Covered(passed["local"], count["local"], old, Limit * restarts)
    BY <1>2 DEF LocalHolds
  <2> PICK most : most = Limit * (restarts + 1)
    OBVIOUS
  <2>2. most \in Nat /\ Limit * restarts + Limit = most
    BY <1>5
  <2>3. ASSUME NEW t \in Ticks
        PROVE  /\ SumIn(passed["local"], Span(t)) <= most
               /\ SumIn(passed["local"], Span(t)) <= most + Limit
    <3>1. SumIn(passed["local"], Span(t)) <= most
      BY <2>1, <2>2 DEF Covered
    <3>2. SumIn(passed["local"], Span(t)) \in Nat
      BY <1>8, SpansOf, HitsFinite
    <3> QED
      BY <1>5, <2>2, <3>1, <3>2
  <2>4. \A u \in Ticks : passed["local"][u] <= passed["local"][u] + NoHits[u]
    BY <1>8, NoHitsRow DEF HitRow
  <2>5. Covered(passed["local"], NoHits, passed["local"], most)
    BY <2>3, <2>4 DEF Covered
  <2>6. Covered(passed'["local"], count'["local"], passed["local"], Limit * restarts')
    BY <1>1, <1>3, <2>5
  <2> QED
    BY <1>8, <2>6 DEF LocalHolds
<1>10. Missed(passed["miss"], NoHits)'
  <2>1. ASSUME NEW u \in Ticks
        PROVE  /\ passed'["miss"][u] = passed'["miss"][u] + NoHits[u]
               /\ NoHits[u] <= count'["misses"][u]
    BY <1>1, <1>3, <1>8, NoHitsRow DEF HitRow
  <2>2. ASSUME NEW t \in Ticks
        PROVE  /\ SumIn(passed'["miss"], Span(t)) <= (MissLimit + load' - 1) * restarts'
               /\ SumIn(NoHits, Span(t)) <= MissLimit + load' - 1
               /\ SumIn(NoHits, Span(t)) + Cardinality(Lookups') <= MissLimit + load' - 1
    <3>1. SumIn(NoHits, Span(t)) = 0
      BY NoHitsRow, SpansOf, NothingSums
    <3>2. SumIn(passed["miss"], Span(t)) <= (MissLimit + load - 1) * (1 + restarts)
      BY MissesSum
    <3>3. 1 + restarts = restarts'
      BY <1>1, <1>5
    <3>4. MissLimit + load' - 1 >= 0
      BY <1>1, <1>5
    <3> QED
      BY <1>1, <1>4, <3>1, <3>2, <3>3, <3>4
  <2> QED
    BY <2>1, <2>2 DEF Missed
<1>11. MissesHold'
  BY <1>1, <1>2, <1>8, <1>10, NoHitsRow DEF MissesHold
<1> QED
  BY <1>6, <1>7, <1>9, <1>11 DEF HitsInv

LEMMA HitsStutter == HitsInv /\ UNCHANGED Hits!vars => HitsInv'
<1> SUFFICES ASSUME HitsInv, UNCHANGED Hits!vars PROVE HitsInv'
  OBVIOUS
<1>1. /\ now' = now /\ load' = load /\ restarts' = restarts /\ lookReq' = lookReq
      /\ count' = count /\ passed' = passed /\ found' = found
  BY DEF Hits!vars
<1> QED
  BY <1>1, HitTypesStay, RedisStays, LocalStays, MissesStay DEF HitsInv, HitTypes

LEMMA HitsNext == HitsInv /\ [Hits!Next]_Hits!vars => HitsInv'
<1> SUFFICES ASSUME HitsInv, [Hits!Next]_Hits!vars PROVE HitsInv'
  OBVIOUS
<1>1. CASE Hits!HitRedis
  BY <1>1, HitRedisKeeps
<1>2. CASE Hits!HitLocal
  BY <1>2, HitLocalKeeps
<1>3. CASE Hits!RedisComesAndGoes \/ Hits!LinkExpires
  BY <1>3, RedisGoesKeeps
<1>4. ASSUME NEW sl \in Slot, Hits!BeginLookup(sl) PROVE HitsInv'
  BY <1>4, BeginLookupKeeps
<1>5. ASSUME NEW sl \in Slot, Hits!FindLink(sl) PROVE HitsInv'
  BY <1>5, FindLinkKeeps
<1>6. CASE Hits!TimePasses
  BY <1>6, TimePassesKeeps
<1>7. CASE Hits!ProcessRestart
  BY <1>7, RestartKeeps
<1>8. CASE UNCHANGED Hits!vars
  BY <1>8, HitsStutter
<1> QED
  BY <1>1, <1>2, <1>3, <1>4, <1>5, <1>6, <1>7, <1>8 DEF Hits!Next

(* In any window isLimited lets its limit of hits through, with the counts *)
(* in Redis and, once more after each restart, with those of the process;  *)
(* and lookups miss as often as SchoolsService allows, once more for each   *)
(* further lookup that is in flight when the last miss is counted.         *)
THEOREM WindowsHold == Hits!Spec => []WindowHolds
<1> QED
  BY HitsInit, HitsNext, HitsAgree, PTL DEF Hits!Spec
=============================================================================
