------------------------------- MODULE Intake -------------------------------
(***************************************************************************)
(* Submissions through one intake link: PublicIntakeService.submit         *)
(* (modules/parent/public-intake.service.ts, its student path) and         *)
(* ParentService.submitStudent (modules/parent/parent.service.ts), with    *)
(* the steps of AdminService that reject a record or merge two of them.    *)
(*                                                                         *)
(* Every query of a handler is a step of its own: the handlers hold no     *)
(* lock and no transaction around their checks, so two requests interleave *)
(* at each await, and the process may stop between any two.                *)
(*                                                                         *)
(* A request arrives after resolveVerifiedSession: here a session is the   *)
(* mobile it was verified for, or "ANON"; the link is one for parents       *)
(* (CheckLimit is about them only) that takes submissions, for one that     *)
(* does not lets no request in.  The rows that nothing below reads (User,  *)
(* Parent, Proof, audit) and the update of the session are left out.       *)
(***************************************************************************)
EXTENDS Naturals, FiniteSets

CONSTANTS
  Mobile, Name,    \* Name: full name, class and section of a child
  Record, Slot,
  Links,           \* the ways the link may be set up
  MaxSubmissions,  \* ParentSubmission rows of a record and mobile are counted up to here
  MaxLoad,         \* how many requests are in flight at most
  MaxRestarts      \* bound on the restarts of the process

Policy == {"ONE_PER_STUDENT", "ONE_PER_CAMPAIGN", "ALLOW_MULTIPLE"}

(* capacity: expectedVolume of the link, 0 for none; siblings:             *)
(* maxStudentsPerParent if allowSiblings, else 1                           *)
LinkRow == [policy : Policy, capacity : Nat, siblings : Nat \ {0}]

ASSUME LimitsAssumption ==
  /\ Links \subseteq LinkRow
  /\ MaxSubmissions \in Nat \ {0}
  /\ MaxLoad \in Nat \ {0}
  /\ MaxRestarts \in Nat
  /\ IsFiniteSet(Record) /\ IsFiniteSet(Slot)
  /\ "ANON" \notin Mobile /\ "account" \notin Mobile /\ "no record" \notin Record

VARIABLES
  load,        \* how many requests overlap at most
  link,        \* the IntakeLink row
  record,      \* Student rows of the link
  submission,  \* how many ParentSubmission rows a record has, by verifiedMobile
  intakeReq,   \* the request in flight in each slot
  restarts     \* how often the process was restarted

vars == <<load, link, record, submission, intakeReq, restarts>>

----------------------------------------------------------------------------
(* verifiedMobile of a row: an anonymous session that gives no mobile       *)
(* stores "ANON", an account stores none.                                  *)
Contact == Mobile \cup {"ANON"}
Verified == Contact \cup {"account"}

(* via: the handler that created the row; mobile is the last part of its    *)
(* duplicateKey; rejected: status or intakeStage is REJECTED.              *)
Unmade == [via |-> "none"]
RecordRow ==
  {Unmade} \cup [via : {"link", "account"}, name : Name, mobile : Contact,
                 rejected : BOOLEAN, deleted : BOOLEAN]

(* found is the record the request works on, once there is one.            *)
NoRecord == "no record"
Idle == [op |-> "idle"]
Arriving == [op : {"policy"}, name : Name, session : Contact, mobile : Contact]
Submitting ==
  [op : {"existing", "room", "limit", "record", "submission"}, via : {"link"},
   name : Name, mobile : Contact, found : Record \cup {NoRecord}]
FromAccount ==
  [op : {"family", "record", "submission"}, via : {"account"}, name : Name,
   mobile : Mobile, found : Record \cup {NoRecord}]
Reviewing == [op : {"review"}, found : Record, reject : BOOLEAN]
Merging == [op : {"merge"}, found : Record, target : Record]
Request == {Idle} \cup Arriving \cup Submitting \cup FromAccount \cup Reviewing \cup Merging

Made == {r \in Record : record[r] # Unmade}
Live == {r \in Made : ~record[r].deleted}

(* buildStudentDuplicateWhere: the live records with a duplicateKey.  The   *)
(* keys of ParentService end in a roll number, not in a mobile.            *)
SameKey(name, mobile) ==
  {r \in Live : record[r].via = "link" /\ record[r].name = name /\ record[r].mobile = mobile}

UpTo(n) == IF n > MaxSubmissions THEN MaxSubmissions ELSE n
(* The ParentSubmission rows of a mobile: the i-th of record r is <<r, i>>. *)
RowsBy(m) == {row \in Record \X (1..MaxSubmissions) : row[2] <= submission[<<row[1], m>>]}
SubmissionsBy(m) == Cardinality(RowsBy(m))

(* A step that only reads: the request goes on, or is refused.             *)
Proceed(sl, q) ==
  /\ intakeReq' = [intakeReq EXCEPT ![sl] = q]
  /\ UNCHANGED <<load, link, record, submission, restarts>>

GoOn(sl, op) == Proceed(sl, [intakeReq[sl] EXCEPT !.op = op])
Refuse(sl) == Proceed(sl, Idle)
Busy == {sl \in Slot : intakeReq[sl] # Idle}
Enter(sl, q) == sl \notin Busy /\ Cardinality(Busy) < load /\ Proceed(sl, q)

----------------------------------------------------------------------------
(* PublicIntakeService.submit *)

(* The session is of one mobile, or anonymous: then the form names one.    *)
BeginSubmit(sl) ==
  \E name \in Name, session \in Contact, mobile \in Contact :
    /\ session # "ANON" => mobile = session
    /\ Enter(sl, [op |-> "policy", name |-> name, session |-> session, mobile |-> mobile])

(* findFirst: any of the live records with the key, if there is one        *)
First(name, mobile) ==
  LET same == SameKey(name, mobile) IN IF same = {} THEN {NoRecord} ELSE same

TakenIn(r) == r # NoRecord /\ ~record[r].rejected

(* assertDuplicatePolicy, about the mobile of the session                  *)
AgainstPolicy(q, r) ==
  CASE link.policy = "ALLOW_MULTIPLE"   -> FALSE
    [] link.policy = "ONE_PER_CAMPAIGN" -> SubmissionsBy(q.session) > 0
    [] link.policy = "ONE_PER_STUDENT"  -> TakenIn(r)

CheckPolicy(sl) ==
  LET q == intakeReq[sl] IN
    /\ q.op = "policy"
    /\ \E r \in First(q.name, q.session) :
         IF AgainstPolicy(q, r)
         THEN Refuse(sl)
         ELSE Proceed(sl, [op |-> "existing", via |-> "link", name |-> q.name,
                           mobile |-> q.mobile, found |-> NoRecord])

FindExisting(sl) ==
  LET q == intakeReq[sl] IN
    /\ q.op = "existing"
    /\ \E r \in First(q.name, q.mobile) :
         IF TakenIn(r) THEN Refuse(sl) ELSE Proceed(sl, [q EXCEPT !.op = "room", !.found = r])

(* fault: a full link takes one more *)
CheckRoomFaultOneMore(sl) ==
  LET q == intakeReq[sl] IN
    /\ q.op = "room"
    /\ IF link.capacity # 0 /\ q.found = NoRecord /\ Cardinality(Live) > link.capacity
       THEN Refuse(sl) ELSE GoOn(sl, "limit")

CheckRoom(sl) ==
  LET q == intakeReq[sl] IN
    /\ q.op = "room"
    /\ IF link.capacity # 0 /\ q.found = NoRecord /\ Cardinality(Live) >= link.capacity
       THEN Refuse(sl) ELSE GoOn(sl, "limit")

(* fault: only the child is looked at, not the mobile *)
CheckLimitFaultNotCounted(sl) == intakeReq[sl].op = "limit" /\ GoOn(sl, "record")

CheckLimit(sl) ==
  LET q == intakeReq[sl] IN
    /\ q.op = "limit"
    /\ IF q.found = NoRecord /\ SubmissionsBy(q.mobile) >= link.siblings
       THEN Refuse(sl) ELSE GoOn(sl, "record")

(* The photo is no good (processPhoto throws).                             *)
RefusePhoto(sl) == intakeReq[sl].op = "record" /\ Refuse(sl)

(* fault: a rejected child gets another record when the form is sent again *)
WriteRecordFaultCreates(sl) ==
  LET q == intakeReq[sl] IN
    /\ q.op = "record"
    /\ \E r \in Record \ Made :
         /\ record' = [record EXCEPT ![r] = [via |-> q.via, name |-> q.name, mobile |-> q.mobile,
                                            rejected |-> FALSE, deleted |-> FALSE]]
         /\ intakeReq' = [intakeReq EXCEPT ![sl] = [q EXCEPT !.op = "submission", !.found = r]]
    /\ UNCHANGED <<load, link, submission, restarts>>

(* student.update of the record found, or student.create                   *)
WriteRecord(sl) ==
  LET q == intakeReq[sl] IN
    /\ q.op = "record"
    /\ \E r \in IF q.found = NoRecord THEN Record \ Made ELSE {q.found} :
         /\ record' = [record EXCEPT ![r] =
              [via |-> q.via, name |-> q.name, mobile |-> q.mobile, rejected |-> FALSE,
               deleted |-> IF q.found = NoRecord THEN FALSE ELSE record[r].deleted]]
         /\ intakeReq' = [intakeReq EXCEPT ![sl] = [q EXCEPT !.op = "submission", !.found = r]]
    /\ UNCHANGED <<load, link, submission, restarts>>

(* parentSubmission.create *)
WriteSubmission(sl) ==
  LET q == intakeReq[sl]
      m == IF q.via = "account" THEN "account" ELSE q.mobile IN
    /\ q.op = "submission"
    /\ submission' = [submission EXCEPT ![<<q.found, m>>] = UpTo(@ + 1)]
    /\ intakeReq' = [intakeReq EXCEPT ![sl] = Idle]
    /\ UNCHANGED <<load, link, record, restarts>>

----------------------------------------------------------------------------
(* ParentService.submitStudent: a parent who has signed in.  A duplicate is *)
(* flagged, not refused, and the capacity of the link is not looked at.    *)
BeginFromAccount(sl) ==
  \E name \in Name, mobile \in Mobile :
    Enter(sl, [op |-> "family", via |-> "account", name |-> name, mobile |-> mobile,
               found |-> NoRecord])

(* The live records of the parent, whichever handler made them             *)
CheckFamily(sl) ==
  LET q == intakeReq[sl] IN
    /\ q.op = "family"
    /\ IF Cardinality({r \in Live : record[r].mobile = q.mobile}) >= link.siblings
       THEN Refuse(sl) ELSE GoOn(sl, "record")

----------------------------------------------------------------------------
(* AdminService: updateStudent and applyCorrection set status and stage;   *)
(* mergeDuplicate archives the source and gives its submissions to the     *)
(* target.                                                                 *)
ReadForReview(sl) ==
  \E r \in Live, reject \in BOOLEAN :
    Enter(sl, [op |-> "review", found |-> r, reject |-> reject])

CommitReview(sl) ==
  LET q == intakeReq[sl] IN
    /\ q.op = "review"
    /\ record' = [record EXCEPT ![q.found].rejected = q.reject]
    /\ intakeReq' = [intakeReq EXCEPT ![sl] = Idle]
    /\ UNCHANGED <<load, link, submission, restarts>>

ReadForMerge(sl) ==
  \E source, target \in Live :
    /\ source # target
    /\ Enter(sl, [op |-> "merge", found |-> source, target |-> target])

(* fault: the submissions stay where they are *)
GivenFaultNothing(source, target) == submission
(* fault: the submissions move the wrong way *)
GivenFaultBackwards(source, target) ==
  [rm \in Record \X Verified |->
     IF rm[1] = target THEN 0 ELSE submission[rm]]

Given(source, target) ==
  [rm \in Record \X Verified |->
     CASE rm[1] = source -> 0
       [] rm[1] = target -> UpTo(submission[<<target, rm[2]>>] + submission[<<source, rm[2]>>])
       [] OTHER          -> submission[rm]]

(* The target leaves the stage REJECTED, but keeps the status.             *)
CommitMerge(sl) ==
  LET q == intakeReq[sl] IN
    /\ q.op = "merge"
    /\ \E rejected \in {FALSE, record[q.target].rejected} :
         record' = [record EXCEPT ![q.target].rejected = rejected,
                                  ![q.found].rejected = TRUE, ![q.found].deleted = TRUE]
    /\ submission' = Given(q.found, q.target)
    /\ intakeReq' = [intakeReq EXCEPT ![sl] = Idle]
    /\ UNCHANGED <<load, link, restarts>>

----------------------------------------------------------------------------
ProcessRestart ==
  /\ restarts < MaxRestarts
  /\ Busy # {}
  /\ restarts' = restarts + 1
  /\ intakeReq' = [sl \in Slot |-> Idle]
  /\ UNCHANGED <<load, link, record, submission>>

Init ==
  /\ load \in 1..MaxLoad
  /\ link \in Links
  /\ record = [r \in Record |-> Unmade]
  /\ submission = [rm \in Record \X Verified |-> 0]
  /\ intakeReq = [sl \in Slot |-> Idle]
  /\ restarts = 0

SubmitStep(sl) ==
  \/ BeginSubmit(sl)
  \/ CheckPolicy(sl)
  \/ FindExisting(sl)
  \/ CheckRoom(sl)
  \/ CheckLimit(sl)
  \/ BeginFromAccount(sl)
  \/ CheckFamily(sl)
  \/ RefusePhoto(sl)
  \/ WriteRecord(sl)
  \/ WriteSubmission(sl)

DeskStep(sl) ==
  \/ ReadForReview(sl)
  \/ CommitReview(sl)
  \/ ReadForMerge(sl)
  \/ CommitMerge(sl)

Next ==
  \/ \E sl \in Slot : SubmitStep(sl) \/ DeskStep(sl)
  \/ ProcessRestart

Spec == Init /\ [][Next]_vars

----------------------------------------------------------------------------
(* Properties *)

TypeOK ==
  /\ load \in 1..MaxLoad
  /\ link \in LinkRow
  /\ record \in [Record -> RecordRow]
  /\ submission \in [Record \X Verified -> 0..MaxSubmissions]
  /\ intakeReq \in [Slot -> Request]
  /\ restarts \in 0..MaxRestarts

MadeByLink == {r \in Live : record[r].via = "link"}

(* A child has one live record, or as many as requests overlapped before   *)
(* the first of them was written; never more, however often the form is    *)
(* sent again, rejected, merged or cut short by a restart.                 *)
OneRecordPerKey ==
  \A name \in Name, m \in Contact : Cardinality(SameKey(name, m)) <= load

(* The public form fills the link up to its capacity, and beyond it by one *)
(* record at most for each further request that overlaps.                  *)
CapacityHolds ==
  link.capacity # 0 => Cardinality(MadeByLink) <= link.capacity + load - 1

(* A mobile gets link.siblings records through the link, one more for each  *)
(* further request that overlaps, and one more for each request that a      *)
(* restart cut off between Student and ParentSubmission.                   *)
MobileLimitHolds ==
  \A m \in Contact :
    Cardinality({r \in MadeByLink : record[r].mobile = m})
      <= link.siblings + load - 1 + restarts * load

(* What the public form checks holds for the link and for each mobile.     *)
LimitsHold == CapacityHolds /\ MobileLimitHolds

HasSubmission(r) == \E m \in Verified : submission[<<r, m>>] > 0
BeingSubmitted(r) == \E sl \in Slot : intakeReq[sl].op = "submission" /\ intakeReq[sl].found = r

(* A live record has a ParentSubmission or is about to get one; only a     *)
(* restart loses it, and no more than the requests it cut off.             *)
RecordHasSubmission ==
  Cardinality({r \in Live : ~HasSubmission(r) /\ ~BeingSubmitted(r)})
    <= restarts * load

(* While requests come one at a time, every ParentSubmission names a live   *)
(* record: mergeDuplicate takes the submissions of the record it archives  *)
(* along, and a new submission never names an archived one.                *)
SubmissionsOnLiveRecords ==
  load = 1 => \A r \in Record : HasSubmission(r) => r \in Live
=============================================================================
