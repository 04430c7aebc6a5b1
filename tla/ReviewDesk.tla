----------------------------- MODULE ReviewDesk -----------------------------
(***************************************************************************)
(* The review desk: updateStudent, applyCorrection, validateStudent,       *)
(* replaceStudentPhoto, mergeDuplicate and handoffStudent of AdminService   *)
(* (modules/admin/admin.service.ts), and applyWorkflowRule of               *)
(* PlatformService (modules/platform/platform.service.ts).                 *)
(*                                                                         *)
(* Each handler reads the student, decides, and writes without a condition; *)
(* what it writes of the status it did not decide is the status it read.   *)
(* What the record contains is left out: a validation may find issues or    *)
(* not.  So are the correction and audit logs.                             *)
(***************************************************************************)
EXTENDS FiniteSets, StudentRecord

CONSTANTS
  Student, School, Slot,
  SchoolOf,     \* Student -> School
  HandStage,    \* stages a correction or a workflow rule may carry
  HandStatus    \* statuses a user, a correction or a rule may carry

VARIABLES
  student,      \* Student table
  deskReq       \* the request in flight in each slot

vars == <<student, deskReq>>

----------------------------------------------------------------------------
HandoffStage ==
  {"AWAITING_INSTITUTION_APPROVAL", "APPROVED_FOR_DESIGN", "DESIGN_READY", "APPROVED_FOR_PRINT"}

Idle == [op |-> "idle"]
Editing == [op : {"edit", "correct", "validate", "photo"}, student : Student]
Routing == [op : {"handoff", "rule"}, student : Student, status : Status]
Merging == [op : {"merge"}, student : Student, into : Student]
Request == {Idle} \cup Editing \cup Routing \cup Merging

Enter(sl, r) ==
  /\ deskReq[sl] = Idle
  /\ deskReq' = [deskReq EXCEPT ![sl] = r]
  /\ student' = student

Write(sl, table) ==
  /\ student' = table
  /\ deskReq' = [deskReq EXCEPT ![sl] = Idle]

(* student.update of the two columns                                       *)
Marked(r, stage, status) == Stamp(student, {r.student}, stage, status)
Staged(r, stage) == [student EXCEPT ![r.student].stage = stage]

----------------------------------------------------------------------------
BeginEdit(sl) ==
  \E s \in Student, op \in {"edit", "correct", "validate", "photo"} :
    /\ ~student[s].deleted
    /\ Enter(sl, [op |-> op, student |-> s])

BeginRouting(sl) ==
  \E s \in Student, op \in {"handoff", "rule"} :
    /\ ~student[s].deleted
    /\ Enter(sl, [op |-> op, student |-> s, status |-> student[s].status])

BeginMerge(sl) ==
  \E s, t \in Student :
    /\ s # t /\ SchoolOf[s] = SchoolOf[t]
    /\ ~student[s].deleted /\ ~student[t].deleted
    /\ Enter(sl, [op |-> "merge", student |-> s, into |-> t])

----------------------------------------------------------------------------
(* updateStudent: the status is one field of the form                      *)
CommitUpdate(sl) ==
  LET r == deskReq[sl] IN
    /\ r.op = "edit"
    /\ \E status \in HandStatus \cup {student[r.student].status} :
         Write(sl, [student EXCEPT ![r.student].status = status])

CommitCorrection(sl) ==
  LET r == deskReq[sl] IN
    /\ r.op = "correct"
    /\ \E stage \in HandStage \cup {"SALES_CORRECTED"},
          status \in HandStatus \cup {student[r.student].status} :
         Write(sl, Marked(r, stage, status))

CommitValidation(sl) ==
  LET r == deskReq[sl] IN
    /\ r.op = "validate"
    /\ \E stage \in {"VALIDATION_FAILED", "UNDER_REVIEW"} : Write(sl, Staged(r, stage))

(* After processPhoto, which takes its time                                *)
CommitPhoto(sl) ==
  /\ deskReq[sl].op = "photo"
  /\ Write(sl, Staged(deskReq[sl], "SALES_CORRECTED"))

Archived == [stage |-> "REJECTED", status |-> "REJECTED", deleted |-> TRUE]

(* The transaction: the target is to be corrected, the source is archived. *)
CommitMerge(sl) ==
  LET r == deskReq[sl] IN
    /\ r.op = "merge"
    /\ Write(sl, [student EXCEPT ![r.into].stage = "SALES_CORRECTED", ![r.student] = Archived])

(* fault: every handoff decides the status *)
HandoffStatusFaultAlways(stage, read) ==
  IF stage = "APPROVED_FOR_PRINT" THEN "SALES_APPROVED" ELSE "SCHOOL_APPROVED"

HandoffStatus(stage, read) ==
  CASE stage = "APPROVED_FOR_PRINT"  -> "SALES_APPROVED"
    [] stage = "APPROVED_FOR_DESIGN" -> "SCHOOL_APPROVED"
    [] OTHER                         -> read

CommitHandoff(sl) ==
  LET r == deskReq[sl] IN
    /\ r.op = "handoff"
    /\ \E stage \in HandoffStage : Write(sl, Marked(r, stage, HandoffStatus(stage, r.status)))

(* A rule applies whether or not it is active, triggered or its condition   *)
(* holds.                                                                  *)
RuleStatus(stage, read) ==
  CASE stage = "PRINTED"                    -> "PRINTED"
    [] stage \in {"DISPATCHED", "ISSUED"}   -> "DELIVERED"
    [] OTHER                                -> HandoffStatus(stage, read)

HandOffByRule(sl) ==
  LET r == deskReq[sl] IN
    /\ r.op = "rule"
    /\ \E stage \in HandStage : Write(sl, Marked(r, stage, RuleStatus(stage, r.status)))

SetStatusByRule(sl) ==
  LET r == deskReq[sl] IN
    /\ r.op = "rule"
    /\ \E status \in HandStatus : Write(sl, [student EXCEPT ![r.student].status = status])

HoldByRule(sl) ==
  /\ deskReq[sl].op = "rule"
  /\ Write(sl, Staged(deskReq[sl], "ON_HOLD"))

(* A rule of another school, an action type or a stage nobody knows         *)
RefuseRule(sl) ==
  /\ deskReq[sl].op = "rule"
  /\ Write(sl, student)

----------------------------------------------------------------------------
Begin(sl) == BeginEdit(sl) \/ BeginRouting(sl) \/ BeginMerge(sl)

(* The writes that decide a status, and those that do not                  *)
Decide(sl) ==
  \/ CommitUpdate(sl) \/ CommitCorrection(sl) \/ CommitMerge(sl) \/ SetStatusByRule(sl)

Route(sl) == CommitHandoff(sl) \/ HandOffByRule(sl)

MoveOn(sl) == CommitValidation(sl) \/ CommitPhoto(sl) \/ HoldByRule(sl) \/ RefuseRule(sl)
=============================================================================
