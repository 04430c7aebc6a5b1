------------------------------ MODULE Approval ------------------------------
(***************************************************************************)
(* The approval workflows of AdminService (modules/admin/admin.service.ts):*)
(* startApprovalWorkflow, actOnApprovalWorkflow and                        *)
(* bulkActOnApprovalWorkflow with the private applyApprovalWorkflowAction. *)
(*                                                                         *)
(* A handler is an asynchronous function: it reads rows, decides on what it *)
(* read and then writes in one $transaction.  A request in flight occupies  *)
(* a slot and keeps its snapshot there; the steps of different slots        *)
(* interleave, and the writing step uses the snapshot, not the row.  With   *)
(* one slot the module is the serial program.                               *)
(***************************************************************************)
EXTENDS Integers, Sequences, FiniteSets, StudentRecord

CONSTANTS
  Student, School, Chain, Actor, Workflow, Slot,
  SchoolOf,       \* Student -> School
  ChainSchool,    \* Chain -> School: ApprovalChain.schoolId
  ChainSteps,     \* Chain -> sequence of roles: steps by stepOrder
  RoleOf,         \* Actor -> normalized role
  Scope,          \* Actor -> schools the actor is assigned to
  Entry,          \* rows a student may have before the first workflow
  MaxBulk         \* @ArrayMaxSize of a bulk request (200 in the code)

(* enum Role after normalizeRole, as APPROVAL_STEP_ROLE_SET allows it for  *)
(* the steps of a chain.                                                   *)
StepRole == {"SUPER_ADMIN", "COMPANY_ADMIN", "SALES_PERSON", "SCHOOL_ADMIN",
             "SCHOOL_STAFF", "PRINTING", "PRINT_OPS"}

(* @Roles of the start endpoint, and of the two action endpoints.          *)
StartRole == {"SUPER_ADMIN", "COMPANY_ADMIN", "SALES_PERSON", "SCHOOL_ADMIN"}
ActRole   == StepRole
AdminRole == {"SUPER_ADMIN", "COMPANY_ADMIN"}

(* CreateApprovalChainDto: 1 to 12 steps; createApprovalChain numbers them *)
(* 1, 2, ... in the order given.                                           *)
ASSUME ChainAssumption ==
  /\ ChainSchool \in [Chain -> School]
  /\ ChainSteps \in [Chain -> Seq(StepRole)]
  /\ \A c \in Chain : Len(ChainSteps[c]) >= 1
ASSUME PeopleAssumption ==
  /\ Student # {} /\ Chain # {}
  /\ Entry \subseteq {row \in StudentRow : row.stage # "APPROVED_FOR_DESIGN"}
  /\ SchoolOf \in [Student -> School]
  /\ Scope \in [Actor -> SUBSET School]

VARIABLES
  student,    \* Student table
  workflow,   \* ApprovalWorkflow table; status "NONE" marks a row not yet created
  request,    \* status of the ApprovalRequest row created with the workflow
  signed,     \* APPROVE rows of ApprovalWorkflowAction: <<stepOrder, actor>>
  fresh,      \* those of them written after the workflow's last SEND_BACK row
  req         \* the request in flight in each slot

vars == <<student, workflow, request, signed, fresh, req>>

----------------------------------------------------------------------------
(* Rows and requests *)

WorkflowStatus ==
  {"NONE", "PENDING", "IN_PROGRESS", "APPROVED", "REJECTED", "SENT_BACK", "ON_HOLD"}
OpenStatus   == {"PENDING", "IN_PROGRESS", "SENT_BACK", "ON_HOLD"}
ClosedStatus == {"APPROVED", "REJECTED"}
Action       == {"APPROVE", "REJECT", "SEND_BACK", "COMMENT"}

(* currentStepId as the stepOrder it points to, 0 for null *)
WorkflowRow ==
  [student : Student, chain : Chain, status : WorkflowStatus, step : Nat]

Idle == [op |-> "idle"]
StartRead ==
  [op : {"start"}, student : Student, status : Status, chain : Chain,
   force : BOOLEAN]
StartScanned ==
  [op : {"restart"}, student : Student, status : Status, chain : Chain,
   open : SUBSET Workflow]
Picking ==
  [op : {"pick"}, actor : Actor, action : Action, todo : SUBSET Workflow,
   goOn : BOOLEAN]
Acting ==
  [op : {"act"}, actor : Actor, action : Action, todo : SUBSET Workflow,
   goOn : BOOLEAN, wf : Workflow, status : WorkflowStatus, step : Nat]
Request == {Idle} \cup StartRead \cup StartScanned \cup Picking \cup Acting

Steps(w) == ChainSteps[workflow[w].chain]

(* resolveScopedSchoolIds(actor, schoolId) does not throw *)
CanReach(a, school) == RoleOf[a] \in AdminRole \/ school \in Scope[a]

(* assertCanActOnApprovalStep(actor, stepRole) does not throw *)
Entitled(a, role) == RoleOf[a] \in AdminRole \/ RoleOf[a] = role

----------------------------------------------------------------------------
(* startApprovalWorkflow: read the student and the chain, scan the open    *)
(* workflows, write.                                                       *)

(* dto.chainId may name any chain of the school, active or not; without it *)
(* the active chain of the school is taken, which is one of them.          *)
ReadForStart(sl) ==
  \E a \in Actor, s \in Student, c \in Chain, force \in BOOLEAN :
    /\ req[sl] = Idle
    /\ RoleOf[a] \in StartRole
    /\ ~student[s].deleted
    /\ CanReach(a, SchoolOf[s])
    /\ ChainSchool[c] = SchoolOf[s]
    /\ req' = [req EXCEPT ![sl] =
                 [op |-> "start", student |-> s, status |-> student[s].status,
                  chain |-> c, force |-> force]]
    /\ UNCHANGED <<student, workflow, request, signed, fresh>>

(* Faults, one for each property, are the definitions named ...Fault: the  *)
(* definition after them is what the code does.                            *)
OpenWorkflowsFaultAnyStatus(s) ==
  {w \in Workflow : workflow[w].status # "NONE" /\ workflow[w].student = s}

OpenWorkflowsFaultSentBackMissing(s) ==
  {w \in Workflow : workflow[w].student = s
                      /\ workflow[w].status \in OpenStatus \ {"SENT_BACK"}}

OpenWorkflows(s) ==
  {w \in Workflow : workflow[w].student = s /\ workflow[w].status \in OpenStatus}

(* "Student already has an active approval workflow" ends the request.     *)
ScanOpen(sl) ==
  LET r == req[sl]
      open == OpenWorkflows(r.student)
  IN  /\ r.op = "start"
      /\ req' = [req EXCEPT ![sl] =
                   IF open # {} /\ ~r.force
                     THEN Idle
                     ELSE [op |-> "restart", student |-> r.student,
                           status |-> r.status, chain |-> r.chain,
                           open |-> open]]
      /\ UNCHANGED <<student, workflow, request, signed, fresh>>

StatusAfterStart(status) == IF status = "DRAFT" THEN "SUBMITTED" ELSE status

PutOnHold(row) ==
  [student |-> row.student, chain |-> row.chain, status |-> "ON_HOLD", step |-> 0]

(* The $transaction: the workflows found by the scan are put on hold, the  *)
(* new one starts at its first step with a PENDING request, and the student *)
(* row gets the status read at the beginning back.                         *)
CommitStart(sl) ==
  LET r == req[sl] IN
  \E new \in Workflow :
    /\ r.op = "restart"
    /\ workflow[new].status = "NONE"
    /\ workflow' = [w \in Workflow |->
         IF w = new
           THEN [student |-> r.student, chain |-> r.chain,
                 status |-> "IN_PROGRESS", step |-> 1]
         ELSE IF w \in r.open
           THEN PutOnHold(workflow[w])
         ELSE workflow[w]]
    /\ request' = [request EXCEPT ![new] = "PENDING"]
    /\ student' = Stamp(student, {r.student}, "AWAITING_INSTITUTION_APPROVAL",
                        StatusAfterStart(r.status))
    /\ req' = [req EXCEPT ![sl] = Idle]
    /\ UNCHANGED <<signed, fresh>>

----------------------------------------------------------------------------
(* actOnApprovalWorkflow (one id, an error ends the call) and              *)
(* bulkActOnApprovalWorkflow (distinct ids, one after the other).  The list *)
(* is a set: a client may send it in any order.                            *)

BeginAct(sl) ==
  \E a \in Actor, act \in Action, ids \in SUBSET Workflow, goOn \in BOOLEAN :
    /\ req[sl] = Idle
    /\ RoleOf[a] \in ActRole
    /\ Cardinality(ids) \in 1 .. MaxBulk
    /\ goOn => Cardinality(ids) > 1      \* of one id nothing is left to go on with
    /\ req' = [req EXCEPT ![sl] =
                 [op |-> "pick", actor |-> a, action |-> act, todo |-> ids,
                  goOn |-> goOn]]
    /\ UNCHANGED <<student, workflow, request, signed, fresh>>

MayActFaultAnyRole(a, action, w) ==
  /\ workflow[w].status # "NONE"
  /\ CanReach(a, SchoolOf[workflow[w].student])
  /\ action # "COMMENT" =>
       workflow[w].status \notin ClosedStatus /\ workflow[w].step # 0

(* The checks applyApprovalWorkflowAction makes on the row it read.        *)
MayAct(a, action, w) ==
  /\ workflow[w].status # "NONE"
  /\ CanReach(a, SchoolOf[workflow[w].student])
  /\ action # "COMMENT" =>
       /\ workflow[w].status \notin ClosedStatus
       /\ workflow[w].step # 0
       /\ Entitled(a, Steps(w)[workflow[w].step])

(* What the slot does after an item: the next one, or the answer.          *)
Rest(r, left) ==
  IF left = {}
    THEN Idle
    ELSE [op |-> "pick", actor |-> r.actor, action |-> r.action,
          todo |-> left, goOn |-> r.goOn]

ReadWorkflow(sl) ==
  LET r == req[sl] IN
  \E w \in Workflow :
    /\ r.op = "pick"
    /\ w \in r.todo
    /\ MayAct(r.actor, r.action, w)
    /\ req' = [req EXCEPT ![sl] =
                 [op |-> "act", actor |-> r.actor, action |-> r.action,
                  todo |-> r.todo \ {w}, goOn |-> r.goOn, wf |-> w,
                  status |-> workflow[w].status, step |-> workflow[w].step]]
    /\ UNCHANGED <<student, workflow, request, signed, fresh>>

RefuseWorkflowFaultSameItem(sl) ==
  LET r == req[sl] IN
  \E w \in Workflow :
    /\ r.op = "pick"
    /\ w \in r.todo
    /\ ~MayAct(r.actor, r.action, w)
    /\ req' = [req EXCEPT ![sl] = IF r.goOn THEN Rest(r, r.todo) ELSE Idle]
    /\ UNCHANGED <<student, workflow, request, signed, fresh>>

(* An item that fails a check: continueOnError decides about the others.   *)
RefuseWorkflow(sl) ==
  LET r == req[sl] IN
  \E w \in Workflow :
    /\ r.op = "pick"
    /\ w \in r.todo
    /\ ~MayAct(r.actor, r.action, w)
    /\ req' = [req EXCEPT ![sl] = IF r.goOn THEN Rest(r, r.todo \ {w}) ELSE Idle]
    /\ UNCHANGED <<student, workflow, request, signed, fresh>>

(* tx.approvalWorkflow.update({ where: { id } }): unconditional            *)
WriteWorkflow(w, status, step) ==
  workflow' = [workflow EXCEPT ![w].status = status, ![w].step = step]

DecideFaultNoWhere(w, decision) == request' = [request EXCEPT ![w] = decision]

(* tx.approvalRequest.updateMany({ where: { ..., status: PENDING } })      *)
Decide(w, decision) ==
  request' = [request EXCEPT ![w] = IF @ = "PENDING" THEN decision ELSE @]

Sign(w, step, a) ==
  /\ signed' = [signed EXCEPT ![w] = @ \cup {<<step, a>>}]
  /\ fresh' = [fresh EXCEPT ![w] = @ \cup {<<step, a>>}]

Done(sl) == req' = [req EXCEPT ![sl] = Rest(req[sl], req[sl].todo)]

CommitsAction(sl, action) == req[sl].op = "act" /\ req[sl].action = action

CommitApproveStepFaultStageKept(sl) ==
  LET r == req[sl] IN
    /\ CommitsAction(sl, "APPROVE")
    /\ r.step < Len(Steps(r.wf))
    /\ WriteWorkflow(r.wf, "IN_PROGRESS", r.step + 1)
    /\ Sign(r.wf, r.step, r.actor)
    /\ Done(sl)
    /\ UNCHANGED <<student, request>>

CommitApproveStepFaultApprovedStage(sl) ==
  LET r == req[sl] IN
    /\ CommitsAction(sl, "APPROVE")
    /\ r.step < Len(Steps(r.wf))
    /\ WriteWorkflow(r.wf, "IN_PROGRESS", r.step + 1)
    /\ student' = [student EXCEPT ![workflow[r.wf].student].stage = "APPROVED_FOR_DESIGN"]
    /\ Sign(r.wf, r.step, r.actor)
    /\ Done(sl)
    /\ UNCHANGED request

(* APPROVE with a later step in the chain                                  *)
CommitApproveStep(sl) ==
  LET r == req[sl] IN
    /\ CommitsAction(sl, "APPROVE")
    /\ r.step < Len(Steps(r.wf))
    /\ WriteWorkflow(r.wf, "IN_PROGRESS", r.step + 1)
    /\ student' = [student EXCEPT ![workflow[r.wf].student].stage =
                                     "AWAITING_INSTITUTION_APPROVAL"]
    /\ Sign(r.wf, r.step, r.actor)
    /\ Done(sl)
    /\ UNCHANGED request

(* APPROVE of the last step                                                *)
CommitApproveLast(sl) ==
  LET r == req[sl] IN
    /\ CommitsAction(sl, "APPROVE")
    /\ r.step >= Len(Steps(r.wf))
    /\ WriteWorkflow(r.wf, "APPROVED", 0)
    /\ student' = Stamp(student, {workflow[r.wf].student},
                        "APPROVED_FOR_DESIGN", "SCHOOL_APPROVED")
    /\ Sign(r.wf, r.step, r.actor)
    /\ Decide(r.wf, "APPROVED")
    /\ Done(sl)

CommitRejectFaultActionName(sl) ==
  LET r == req[sl] IN
    /\ CommitsAction(sl, "REJECT")
    /\ WriteWorkflow(r.wf, r.action, 0)
    /\ student' = Stamp(student, {workflow[r.wf].student}, "REJECTED", "REJECTED")
    /\ Decide(r.wf, "REJECTED")
    /\ Done(sl)
    /\ UNCHANGED <<signed, fresh>>

CommitRejectFaultStepKept(sl) ==
  LET r == req[sl] IN
    /\ CommitsAction(sl, "REJECT")
    /\ WriteWorkflow(r.wf, "REJECTED", r.step)
    /\ student' = Stamp(student, {workflow[r.wf].student}, "REJECTED", "REJECTED")
    /\ Decide(r.wf, "REJECTED")
    /\ Done(sl)
    /\ UNCHANGED <<signed, fresh>>

CommitRejectFaultRequestKept(sl) ==
  LET r == req[sl] IN
    /\ CommitsAction(sl, "REJECT")
    /\ WriteWorkflow(r.wf, "REJECTED", 0)
    /\ student' = Stamp(student, {workflow[r.wf].student}, "REJECTED", "REJECTED")
    /\ Done(sl)
    /\ UNCHANGED <<request, signed, fresh>>

CommitReject(sl) ==
  LET r == req[sl] IN
    /\ CommitsAction(sl, "REJECT")
    /\ WriteWorkflow(r.wf, "REJECTED", 0)
    /\ student' = Stamp(student, {workflow[r.wf].student}, "REJECTED", "REJECTED")
    /\ Decide(r.wf, "REJECTED")
    /\ Done(sl)
    /\ UNCHANGED <<signed, fresh>>

CommitSendBackFaultSameStep(sl) ==
  LET r == req[sl] IN
    /\ CommitsAction(sl, "SEND_BACK")
    /\ WriteWorkflow(r.wf, "SENT_BACK", r.step)
    /\ student' = Stamp(student, {workflow[r.wf].student}, "SALES_CORRECTED",
                        "SUBMITTED")
    /\ fresh' = [fresh EXCEPT ![r.wf] = {}]
    /\ Done(sl)
    /\ UNCHANGED <<request, signed>>

CommitSendBack(sl) ==
  LET r == req[sl] IN
    /\ CommitsAction(sl, "SEND_BACK")
    /\ WriteWorkflow(r.wf, "SENT_BACK", 1)
    /\ student' = Stamp(student, {workflow[r.wf].student}, "SALES_CORRECTED",
                        "SUBMITTED")
    /\ fresh' = [fresh EXCEPT ![r.wf] = {}]
    /\ Done(sl)
    /\ UNCHANGED <<request, signed>>

(* COMMENT writes the status and the step it read back into the row.       *)
CommitComment(sl) ==
  LET r == req[sl] IN
    /\ CommitsAction(sl, "COMMENT")
    /\ WriteWorkflow(r.wf, r.status, r.step)
    /\ Done(sl)
    /\ UNCHANGED <<student, request, signed, fresh>>

(* The process stops and starts again: the requests in flight are lost, a  *)
(* transaction not yet committed with them.                                *)
ProcessRestart ==
  /\ \E sl \in Slot : req[sl] # Idle
  /\ req' = [sl \in Slot |-> Idle]
  /\ UNCHANGED <<student, workflow, request, signed, fresh>>

----------------------------------------------------------------------------
NoWorkflow ==
  [student |-> CHOOSE s \in Student : TRUE, chain |-> CHOOSE c \in Chain : TRUE,
   status |-> "NONE", step |-> 0]

Init ==
  /\ student \in [Student -> Entry]
  /\ workflow = [w \in Workflow |-> NoWorkflow]
  /\ request = [w \in Workflow |-> "NONE"]
  /\ signed = [w \in Workflow |-> {}]
  /\ fresh = [w \in Workflow |-> {}]
  /\ req = [sl \in Slot |-> Idle]

HandlerStep(sl) ==
  \/ ScanOpen(sl)
  \/ CommitStart(sl)
  \/ ReadWorkflow(sl)
  \/ RefuseWorkflow(sl)
  \/ CommitApproveStep(sl)
  \/ CommitApproveLast(sl)
  \/ CommitReject(sl)
  \/ CommitSendBack(sl)
  \/ CommitComment(sl)

Next ==
  \/ \E sl \in Slot : ReadForStart(sl)
  \/ \E sl \in Slot : BeginAct(sl)
  \/ \E sl \in Slot : HandlerStep(sl)
  \/ ProcessRestart

Spec == Init /\ [][Next]_vars

(* The event loop runs every handler that has something to do to its end;  *)
(* nothing is assumed about the people who send requests.                  *)
FairSpec == Spec /\ \A sl \in Slot : WF_vars(HandlerStep(sl))
----------------------------------------------------------------------------
(* Properties *)

TypeOK ==
  /\ student \in [Student -> StudentRow]
  /\ workflow \in [Workflow -> WorkflowRow]
  /\ request \in [Workflow -> {"NONE", "PENDING", "APPROVED", "REJECTED"}]
  /\ signed \in [Workflow -> SUBSET (Nat \X Actor)]
  /\ fresh \in [Workflow -> SUBSET (Nat \X Actor)]
  /\ req \in [Slot -> Request]

(* Someone the chain names for step i of w, who also reaches the school of *)
(* the student, has approved it in the log rows.                           *)
SignedBy(w, i, log) ==
  \E a \in Actor :
    /\ <<i, a>> \in log[w]
    /\ Entitled(a, Steps(w)[i])
    /\ CanReach(a, SchoolOf[workflow[w].student])

SignedUpTo(w, n, log) ==
  \A i \in 1 .. Len(Steps(w)) : i <= n => SignedBy(w, i, log)

FullySigned(w, log) == SignedUpTo(w, Len(Steps(w)), log)

(* currentStepId is null exactly in the statuses that wait for nobody, and *)
(* points into the workflow's own chain otherwise, whatever two requests   *)
(* on the workflow do to each other.                                       *)
StepFitsStatus ==
  \A w \in Workflow :
    IF workflow[w].status \in {"IN_PROGRESS", "SENT_BACK"}
      THEN workflow[w].step \in 1 .. Len(Steps(w))
      ELSE workflow[w].step = 0

(* Even with requests that overwrite each other, no workflow is APPROVED,  *)
(* and no approval request is, before every step of its chain was approved *)
(* at some time by an actor entitled to it.                                *)
ApprovedIsFullySigned ==
  \A w \in Workflow :
    workflow[w].status = "APPROVED" \/ request[w] = "APPROVED" => FullySigned(w, signed)

(* A student stands at APPROVED_FOR_DESIGN only if some workflow of that   *)
(* student went through its whole chain.                                   *)
DesignNeedsFullApproval ==
  \A s \in Student :
    student[s].stage = "APPROVED_FOR_DESIGN" =>
      \E w \in Workflow :
        workflow[w].status # "NONE" /\ workflow[w].student = s /\ FullySigned(w, signed)

(* The first decision on an approval request stands: it is never reopened  *)
(* and never turned into the other one, although the workflow may be.      *)
DecisionStands ==
  [][\A w \in Workflow :
       request[w] \in {"APPROVED", "REJECTED"} => request'[w] = request[w]]_vars

(* Every item of a bulk request is answered: with the event loop running,  *)
(* a slot that acts on workflows becomes free again.                       *)
ActingEnds ==
  \A sl \in Slot : req[sl].op \in {"pick", "act"} ~> req[sl] = Idle

(* What the checks of the code are there for.  They hold when requests do  *)
(* not overlap (one slot).                                                 *)

Active(w) == workflow[w].status # "NONE" /\ workflow[w].step # 0

(* "Student already has an active approval workflow": one workflow at a    *)
(* time waits for approvers of a student.                                  *)
OneActiveWorkflow ==
  \A v, w \in Workflow :
    Active(v) /\ Active(w) /\ workflow[v].student = workflow[w].student => v = w

(* "Workflow is already closed": nothing reopens or flips a closed one.    *)
ClosedStaysClosed ==
  [][\A w \in Workflow :
       workflow[w].status \in ClosedStatus =>
         workflow'[w].status = workflow[w].status]_vars

(* A workflow sent back goes through the whole chain again: approvals      *)
(* given before the last SEND_BACK do not count.                           *)
ApprovedSinceSendBack ==
  \A w \in Workflow : workflow[w].status = "APPROVED" => FullySigned(w, fresh)

(* The approval request tells the truth about its workflow, and the stage  *)
(* of a student is the one its active workflow has put it in.              *)
RequestAndStageFollow ==
  \A w \in Workflow :
    /\ request[w] = CASE workflow[w].status = "NONE" -> "NONE"
                      [] workflow[w].status \in ClosedStatus -> workflow[w].status
                      [] OTHER -> "PENDING"
    /\ Active(w) =>
         student[workflow[w].student].stage =
           IF workflow[w].status = "SENT_BACK" THEN "SALES_CORRECTED"
                                               ELSE "AWAITING_INSTITUTION_APPROVAL"
=============================================================================
