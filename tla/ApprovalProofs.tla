--------------------------- MODULE ApprovalProofs ---------------------------
(***************************************************************************)
(* Proofs about Approval for any students, chains, actors and any number   *)
(* of overlapping requests: the type invariant, and that an approval always *)
(* has a signature of an entitled actor for every step of its chain.  The  *)
(* second part is about requests that do not overlap, for which the checks *)
(* in the code are enough.                                                 *)
(***************************************************************************)
EXTENDS Approval, TLAPS

(* What the status and the step of a row, or of a snapshot of it, promise  *)
(* about the signatures of the workflow.                                   *)
Covered(w, status, step) ==
  /\ IF status \in {"IN_PROGRESS", "SENT_BACK"}
       THEN /\ step \in 1 .. Len(Steps(w))
            /\ SignedUpTo(w, step - 1, signed)
       ELSE step = 0
  /\ status = "APPROVED" => FullySigned(w, signed)

RowsCovered ==
  \A w \in Workflow : Covered(w, workflow[w].status, workflow[w].step)

(* A request about to write knows an existing workflow, a covered snapshot *)
(* of it and, unless it comments, the actor's right to the step it saw.    *)
SnapshotCovered(r) ==
  /\ workflow[r.wf].status # "NONE"
  /\ r.status # "NONE"
  /\ Covered(r.wf, r.status, r.step)
  /\ CanReach(r.actor, SchoolOf[workflow[r.wf].student])
  /\ r.action # "COMMENT" =>
       /\ r.step # 0
       /\ Entitled(r.actor, Steps(r.wf)[r.step])

SnapshotsCovered ==
  \A sl \in Slot : req[sl].op = "act" => SnapshotCovered(req[sl])

RequestsCovered ==
  \A w \in Workflow : request[w] = "APPROVED" => FullySigned(w, signed)

(* A row not yet created has no request either.                            *)
UnusedHasNoRequest ==
  \A w \in Workflow : workflow[w].status = "NONE" => request[w] = "NONE"

IInv ==
  /\ TypeOK
  /\ UnusedHasNoRequest
  /\ RowsCovered
  /\ SnapshotsCovered
  /\ RequestsCovered
  /\ DesignNeedsFullApproval

----------------------------------------------------------------------------
(* What every step does to the table: a workflow that exists keeps its     *)
(* student and its chain, goes on existing, and loses no signature.        *)
Keeps(w) ==
  /\ workflow'[w].student = workflow[w].student
  /\ workflow'[w].chain = workflow[w].chain
  /\ workflow[w].status # "NONE" => workflow'[w].status # "NONE"
  /\ signed[w] \subseteq signed'[w]

LEMMA StepsShape ==
  ASSUME TypeOK, NEW w \in Workflow
  PROVE  /\ Steps(w) \in Seq(StepRole)
         /\ Len(Steps(w)) \in Nat
         /\ Len(Steps(w)) >= 1
BY ChainAssumption DEF TypeOK, Steps, WorkflowRow

(* Signatures are not lost by a step that keeps the workflow.              *)
LEMMA SignedUpToKept ==
  ASSUME NEW w \in Workflow, Keeps(w), NEW n, SignedUpTo(w, n, signed)
  PROVE  SignedUpTo(w, n, signed)'
BY DEF Keeps, SignedUpTo, SignedBy, Steps

LEMMA CoveredKept ==
  ASSUME NEW w \in Workflow, Keeps(w), NEW status, NEW step, Covered(w, status, step)
  PROVE  Covered(w, status, step)'
<1>1. Steps(w)' = Steps(w)
  BY DEF Keeps, Steps
<1>2. SignedUpTo(w, step - 1, signed) => SignedUpTo(w, step - 1, signed)'
  BY SignedUpToKept
<1>3. FullySigned(w, signed) => FullySigned(w, signed)'
  BY <1>1, SignedUpToKept DEF FullySigned
<1> QED
  BY <1>1, <1>2, <1>3 DEF Covered
LEMMA SnapshotKept ==
  ASSUME NEW r, r.wf \in Workflow, Keeps(r.wf), SnapshotCovered(r)
  PROVE  SnapshotCovered(r)'
<1>1. Covered(r.wf, r.status, r.step)'
  BY CoveredKept DEF SnapshotCovered
<1> QED
  BY <1>1 DEF SnapshotCovered, Keeps, Steps, CanReach, Entitled

----------------------------------------------------------------------------
(* Type correctness of what goes into a slot. *)
LEMMA IdleIsRequest == Idle \in Request
BY DEF Request

LEMMA RestIsRequest ==
  ASSUME NEW r \in Picking \cup Acting, NEW left \in SUBSET Workflow
  PROVE  Rest(r, left) \in Request
BY DEF Rest, Request, Picking, Acting

LEMMA RestDoesNotAct ==
  ASSUME NEW r, NEW left
  PROVE  Rest(r, left).op # "act"
BY DEF Rest, Idle

LEMMA ActingShape ==
  ASSUME TypeOK, NEW sl \in Slot, req[sl].op = "act"
  PROVE  req[sl] \in Acting
BY DEF TypeOK, Request, Idle, StartRead, StartScanned, Picking, Acting

LEMMA PickingShape ==
  ASSUME TypeOK, NEW sl \in Slot, req[sl].op = "pick"
  PROVE  req[sl] \in Picking
BY DEF TypeOK, Request, Idle, StartRead, StartScanned, Picking, Acting

LEMMA StartShape ==
  ASSUME TypeOK, NEW sl \in Slot, req[sl].op = "start"
  PROVE  req[sl] \in StartRead
BY DEF TypeOK, Request, Idle, StartRead, StartScanned, Picking, Acting

LEMMA RestartShape ==
  ASSUME TypeOK, NEW sl \in Slot, req[sl].op = "restart"
  PROVE  req[sl] \in StartScanned
BY DEF TypeOK, Request, Idle, StartRead, StartScanned, Picking, Acting

----------------------------------------------------------------------------
(* Init *)
LEMMA InitEstablishes == Init => IInv
<1> SUFFICES ASSUME Init PROVE IInv
  OBVIOUS
<1>1. NoWorkflow \in WorkflowRow /\ NoWorkflow.status = "NONE" /\ NoWorkflow.step = 0
  BY PeopleAssumption DEF NoWorkflow, WorkflowRow, WorkflowStatus
<1>2. TypeOK
  BY <1>1, IdleIsRequest, PeopleAssumption DEF Init, TypeOK
<1>3. RowsCovered
  BY <1>1 DEF Init, RowsCovered, Covered
<1>4. SnapshotsCovered
  BY DEF Init, SnapshotsCovered, Idle
<1>5. RequestsCovered
  BY DEF Init, RequestsCovered
<1>6. DesignNeedsFullApproval
  BY PeopleAssumption DEF Init, DesignNeedsFullApproval
<1>7. UnusedHasNoRequest
  BY DEF Init, UnusedHasNoRequest
<1> QED
  BY <1>2, <1>3, <1>4, <1>5, <1>6, <1>7 DEF IInv

----------------------------------------------------------------------------
(* Steps that leave the tables alone: they only read and change their slot. *)
TablesSame == UNCHANGED <<student, workflow, request, signed, fresh>>

LEMMA TablesSameKeeps ==
  ASSUME IInv, TablesSame, req' \in [Slot -> Request], SnapshotsCovered'
  PROVE  IInv'
<1>1. \A w : Keeps(w)
  BY DEF Keeps, TablesSame
<1>2. TypeOK'
  BY DEF IInv, TypeOK, TablesSame
<1>3. RowsCovered'
  BY <1>1, CoveredKept DEF IInv, RowsCovered, TablesSame
<1>4. RequestsCovered'
  BY DEF IInv, RequestsCovered, FullySigned, SignedUpTo, SignedBy, Steps, TablesSame
<1>5. DesignNeedsFullApproval'
  BY DEF IInv, DesignNeedsFullApproval, FullySigned, SignedUpTo, SignedBy, Steps, TablesSame
<1>6. UnusedHasNoRequest'
  BY DEF IInv, UnusedHasNoRequest, TablesSame
<1> QED
  BY <1>2, <1>3, <1>4, <1>5, <1>6 DEF IInv

(* A slot that gets a request that does not write yet disturbs no other.   *)
LEMMA QuietSlot ==
  ASSUME IInv, TablesSame, NEW sl \in Slot, NEW q \in Request, q.op # "act",
         req' = [req EXCEPT ![sl] = q]
  PROVE  IInv'
<1>1. req' \in [Slot -> Request]
  BY DEF IInv, TypeOK
<1>2. ASSUME NEW o \in Slot, NEW r, r = req'[o], r.op = "act"
      PROVE  SnapshotCovered(r)'
  <2>1. o # sl /\ r = req[o]
    BY <1>2 DEF IInv, TypeOK
  <2>2. r.wf \in Workflow
    BY <2>1, <1>2, ActingShape DEF IInv, Acting
  <2>3. SnapshotCovered(r)
    BY <2>1, <1>2 DEF IInv, SnapshotsCovered
  <2>4. Keeps(r.wf)
    BY DEF Keeps, TablesSame
  <2> QED
    BY <2>2, <2>3, <2>4, SnapshotKept
<1>3. SnapshotsCovered'
  BY <1>2 DEF SnapshotsCovered
<1> QED
  BY <1>1, <1>3, TablesSameKeeps

----------------------------------------------------------------------------
(* One lemma for each action that writes no table. *)
LEMMA ReadForStartKeeps ==
  ASSUME IInv, NEW sl \in Slot, ReadForStart(sl)
  PROVE  IInv'
<1>1. PICK s \in Student, c \in Chain, force \in BOOLEAN :
        req' = [req EXCEPT ![sl] =
                 [op |-> "start", student |-> s, status |-> student[s].status,
                  chain |-> c, force |-> force]]
  BY DEF ReadForStart
<1> DEFINE q == [op |-> "start", student |-> s, status |-> student[s].status,
                 chain |-> c, force |-> force]
<1>2. student[s].status \in Status
  BY DEF IInv, TypeOK, StudentRow
<1>3. q \in StartRead
  BY <1>2 DEF StartRead
<1>4. q \in Request /\ q.op # "act"
  BY <1>3 DEF Request
<1>5. TablesSame
  BY DEF ReadForStart, TablesSame
<1> HIDE DEF q
<1> QED
  BY <1>1, <1>4, <1>5, QuietSlot DEF q

LEMMA ScanOpenKeeps ==
  ASSUME IInv, NEW sl \in Slot, ScanOpen(sl)
  PROVE  IInv'
<1> DEFINE r == req[sl]
           open == OpenWorkflows(r.student)
           q == IF open # {} /\ ~r.force
                  THEN Idle
                  ELSE [op |-> "restart", student |-> r.student,
                        status |-> r.status, chain |-> r.chain, open |-> open]
<1>1. r \in StartRead
  BY StartShape DEF ScanOpen, IInv
<1>2. open \in SUBSET Workflow
  BY DEF OpenWorkflows
<1>3. [op |-> "restart", student |-> r.student, status |-> r.status,
       chain |-> r.chain, open |-> open] \in StartScanned
  BY <1>1, <1>2 DEF StartRead, StartScanned
<1>4. q \in Request /\ q.op # "act"
  BY <1>3, IdleIsRequest DEF Request, Idle
<1>5. TablesSame /\ req' = [req EXCEPT ![sl] = q]
  BY DEF ScanOpen, TablesSame
<1> HIDE DEF q
<1> QED
  BY <1>4, <1>5, QuietSlot

LEMMA BeginActKeeps ==
  ASSUME IInv, NEW sl \in Slot, BeginAct(sl)
  PROVE  IInv'
<1>1. PICK a \in Actor, act \in Action, ids \in SUBSET Workflow, goOn \in BOOLEAN :
        req' = [req EXCEPT ![sl] =
                 [op |-> "pick", actor |-> a, action |-> act, todo |-> ids,
                  goOn |-> goOn]]
  BY DEF BeginAct
<1> DEFINE q == [op |-> "pick", actor |-> a, action |-> act, todo |-> ids,
                 goOn |-> goOn]
<1>2. q \in Picking
  BY DEF Picking
<1>3. q \in Request /\ q.op # "act"
  BY <1>2 DEF Request
<1>4. TablesSame
  BY DEF BeginAct, TablesSame
<1> HIDE DEF q
<1> QED
  BY <1>1, <1>3, <1>4, QuietSlot DEF q

LEMMA RefuseWorkflowKeeps ==
  ASSUME IInv, NEW sl \in Slot, RefuseWorkflow(sl)
  PROVE  IInv'
<1> DEFINE r == req[sl]
<1>1. PICK w \in Workflow :
        req' = [req EXCEPT ![sl] = IF r.goOn THEN Rest(r, r.todo \ {w}) ELSE Idle]
  BY DEF RefuseWorkflow
<1> DEFINE q == IF r.goOn THEN Rest(r, r.todo \ {w}) ELSE Idle
<1>2. r \in Picking
  BY PickingShape DEF RefuseWorkflow, IInv
<1>3. r.todo \ {w} \in SUBSET Workflow
  BY <1>2 DEF Picking
<1>4. Rest(r, r.todo \ {w}) \in Request /\ Rest(r, r.todo \ {w}).op # "act"
  BY <1>2, <1>3, RestIsRequest, RestDoesNotAct
<1>5. q \in Request /\ q.op # "act"
  BY <1>4, IdleIsRequest DEF Idle
<1>6. TablesSame
  BY DEF RefuseWorkflow, TablesSame
<1> HIDE DEF q
<1> QED
  BY <1>1, <1>5, <1>6, QuietSlot DEF q

LEMMA ProcessRestartKeeps ==
  ASSUME IInv, ProcessRestart
  PROVE  IInv'
<1>1. TablesSame
  BY DEF ProcessRestart, TablesSame
<1>2. req' \in [Slot -> Request]
  BY IdleIsRequest DEF ProcessRestart
<1>3. SnapshotsCovered'
  BY DEF ProcessRestart, SnapshotsCovered, Idle
<1> QED
  BY <1>1, <1>2, <1>3, TablesSameKeeps

(* Reading the row for an action: the row's cover is the snapshot's.       *)
LEMMA ReadWorkflowKeeps ==
  ASSUME IInv, NEW sl \in Slot, ReadWorkflow(sl)
  PROVE  IInv'
<1> DEFINE p == req[sl]
<1>1. PICK w \in Workflow :
        /\ MayAct(p.actor, p.action, w)
        /\ req' = [req EXCEPT ![sl] =
                 [op |-> "act", actor |-> p.actor, action |-> p.action,
                  todo |-> p.todo \ {w}, goOn |-> p.goOn, wf |-> w,
                  status |-> workflow[w].status, step |-> workflow[w].step]]
  BY DEF ReadWorkflow
<1> DEFINE q == [op |-> "act", actor |-> p.actor, action |-> p.action,
                 todo |-> p.todo \ {w}, goOn |-> p.goOn, wf |-> w,
                 status |-> workflow[w].status, step |-> workflow[w].step]
<1>2. p \in Picking
  BY PickingShape DEF ReadWorkflow, IInv
<1>3. workflow[w] \in WorkflowRow
  BY DEF IInv, TypeOK
<1>4. q \in Acting
  BY <1>2, <1>3 DEF Picking, Acting, WorkflowRow
<1>5. SnapshotCovered(q)
  BY <1>1 DEF SnapshotCovered, MayAct, IInv, RowsCovered
<1>6. TablesSame
  BY DEF ReadWorkflow, TablesSame
<1>7. req' = [req EXCEPT ![sl] = q] /\ req' \in [Slot -> Request]
  BY <1>1, <1>4 DEF IInv, TypeOK, Request
<1> HIDE DEF q
<1>8. ASSUME NEW o \in Slot, NEW r, r = req'[o], r.op = "act"
      PROVE  SnapshotCovered(r)'
  <2>1. r.wf \in Workflow /\ SnapshotCovered(r)
    <3>1. CASE o = sl
      BY <3>1, <1>8, <1>4, <1>5, <1>7 DEF IInv, TypeOK, Acting
    <3>2. CASE o # sl
      <4>1. r = req[o]
        BY <3>2, <1>8, <1>7 DEF IInv, TypeOK
      <4> QED
        BY <4>1, <1>8, ActingShape DEF IInv, SnapshotsCovered, Acting
    <3> QED
      BY <3>1, <3>2
  <2>2. Keeps(r.wf)
    BY <1>6 DEF Keeps, TablesSame
  <2> QED
    BY <2>1, <2>2, SnapshotKept
<1>9. SnapshotsCovered'
  BY <1>8 DEF SnapshotsCovered
<1> QED
  BY <1>6, <1>7, <1>9, TablesSameKeeps

----------------------------------------------------------------------------
(* The writing steps of an action.  Whatever the action, the invariant is  *)
(* kept if what is written into the row is covered afterwards, and if only *)
(* a fully signed workflow makes a student or a request approved.          *)
LEMMA CommitKeeps ==
  ASSUME IInv, NEW sl \in Slot, NEW r, r = req[sl], r.op = "act",
         NEW status \in WorkflowStatus \ {"NONE"}, NEW step \in Nat,
         WriteWorkflow(r.wf, status, step), Done(sl),
         student' \in [Student -> StudentRow],
         request' \in [Workflow -> {"NONE", "PENDING", "APPROVED", "REJECTED"}],
         signed' \in [Workflow -> SUBSET (Nat \X Actor)],
         fresh' \in [Workflow -> SUBSET (Nat \X Actor)],
         \A w \in Workflow : signed[w] \subseteq signed'[w],
         Covered(r.wf, status, step)',
         \A w \in Workflow : w # r.wf => request'[w] = request[w],
         \A w \in Workflow :
           request'[w] = "APPROVED" =>
             \/ request[w] = "APPROVED"
             \/ w = r.wf /\ FullySigned(w, signed)',
         \A s \in Student :
           student'[s].stage = "APPROVED_FOR_DESIGN" =>
             \/ student[s].stage = "APPROVED_FOR_DESIGN"
             \/ s = workflow[r.wf].student /\ FullySigned(r.wf, signed)'
  PROVE  IInv'
<1>1. r \in Acting /\ r.wf \in Workflow
  BY ActingShape DEF IInv, Acting
<1>2. ASSUME NEW w \in Workflow
      PROVE  workflow'[w] = IF w = r.wf
                              THEN [student |-> workflow[w].student,
                                    chain |-> workflow[w].chain,
                                    status |-> status, step |-> step]
                              ELSE workflow[w]
  <2>1. workflow[w] \in WorkflowRow
    BY DEF IInv, TypeOK
  <2>2. CASE w = r.wf
    <3>1. workflow'[w] = [student |-> workflow[w].student, chain |-> workflow[w].chain,
                          status |-> status, step |-> step]
      BY <1>1, <2>1, <2>2 DEF WriteWorkflow, IInv, TypeOK, WorkflowRow
    <3> QED
      BY <2>2, <3>1
  <2>3. CASE w # r.wf
    BY <2>3 DEF WriteWorkflow, IInv, TypeOK
  <2> QED
    BY <2>2, <2>3
<1>3. \A w \in Workflow : Keeps(w) /\ workflow'[w] \in WorkflowRow
  <2> SUFFICES ASSUME NEW w \in Workflow PROVE Keeps(w) /\ workflow'[w] \in WorkflowRow
    OBVIOUS
  <2>1. workflow[w] \in WorkflowRow
    BY DEF IInv, TypeOK
  <2>2. CASE w = r.wf
    <3>1. workflow'[w] = [student |-> workflow[w].student, chain |-> workflow[w].chain,
                          status |-> status, step |-> step]
      BY <1>2, <2>2
    <3> QED
      BY <2>1, <3>1 DEF Keeps, WorkflowRow
  <2>3. CASE w # r.wf
    <3>1. workflow'[w] = workflow[w]
      BY <1>2, <2>3
    <3> QED
      BY <2>1, <3>1 DEF Keeps
  <2> QED
    BY <2>2, <2>3
<1>4. req' \in [Slot -> Request] /\ req'[sl].op # "act"
  <2>1. Rest(r, r.todo) \in Request /\ Rest(r, r.todo).op # "act"
    BY <1>1, RestIsRequest, RestDoesNotAct DEF Acting
  <2> QED
    BY <2>1 DEF Done, IInv, TypeOK
<1>5. TypeOK'
  <2>1. workflow' \in [Workflow -> WorkflowRow]
    BY <1>3 DEF WriteWorkflow, IInv, TypeOK
  <2> QED
    BY <1>4, <2>1 DEF TypeOK
<1>6. RowsCovered'
  <2> SUFFICES ASSUME NEW w \in Workflow, NEW row, row = workflow'[w]
               PROVE  Covered(w, row.status, row.step)'
    BY DEF RowsCovered
  <2>1. CASE w = r.wf
    <3>1. row = [student |-> workflow[w].student, chain |-> workflow[w].chain,
                 status |-> status, step |-> step]
      BY <1>2, <2>1
    <3>2. row.status = status /\ row.step = step
      BY <3>1
    <3> QED
      BY <2>1, <3>2
  <2>2. CASE w # r.wf
    <3>1. row = workflow[w]
      BY <1>2, <2>2
    <3>2. Covered(w, row.status, row.step)
      BY <3>1 DEF IInv, RowsCovered
    <3> QED
      BY <1>3, <3>2, CoveredKept
  <2> QED
    BY <2>1, <2>2
<1>7. ASSUME NEW o \in Slot, NEW q, q = req'[o], q.op = "act"
      PROVE  SnapshotCovered(q)'
  <2>1. q = req[o]
    BY <1>7, <1>4 DEF Done, IInv, TypeOK
  <2>2. q.wf \in Workflow /\ SnapshotCovered(q)
    BY <2>1, <1>7, ActingShape DEF IInv, SnapshotsCovered, Acting
  <2> QED
    BY <1>3, <2>2, SnapshotKept
<1>8. SnapshotsCovered'
  BY <1>7 DEF SnapshotsCovered
<1>9. ASSUME NEW w \in Workflow, FullySigned(w, signed)
      PROVE  FullySigned(w, signed)'
  <2>1. Steps(w)' = Steps(w)
    BY <1>3 DEF Keeps, Steps
  <2> QED
    BY <1>3, <1>9, <2>1, SignedUpToKept DEF FullySigned
<1>10. RequestsCovered'
  BY <1>9 DEF IInv, RequestsCovered
<1>11. DesignNeedsFullApproval'
  <2> SUFFICES ASSUME NEW s \in Student, student'[s].stage = "APPROVED_FOR_DESIGN"
               PROVE  \E w \in Workflow :
                        /\ workflow'[w].status # "NONE"
                        /\ workflow'[w].student = s
                        /\ FullySigned(w, signed)'
    BY DEF DesignNeedsFullApproval
  <2>1. CASE student[s].stage = "APPROVED_FOR_DESIGN"
    <3>1. PICK w \in Workflow : /\ workflow[w].status # "NONE"
                               /\ workflow[w].student = s
                               /\ FullySigned(w, signed)
      BY <2>1 DEF IInv, DesignNeedsFullApproval
    <3> QED
      BY <1>3, <1>9, <3>1 DEF Keeps
  <2>2. CASE s = workflow[r.wf].student /\ FullySigned(r.wf, signed)'
    BY <1>1, <1>3, <2>2 DEF Keeps, IInv, SnapshotsCovered, SnapshotCovered
  <2> QED
    BY <2>1, <2>2
<1>12. UnusedHasNoRequest'
  <2> SUFFICES ASSUME NEW w \in Workflow, workflow'[w].status = "NONE"
               PROVE  request'[w] = "NONE"
    BY DEF UnusedHasNoRequest
  <2>1. w # r.wf
    <3>1. SnapshotCovered(r)
      BY DEF IInv, SnapshotsCovered
    <3> QED
      BY <1>1, <1>3, <3>1 DEF Keeps, SnapshotCovered
  <2> QED
    BY <1>2, <2>1 DEF IInv, UnusedHasNoRequest
<1> QED
  BY <1>5, <1>6, <1>8, <1>10, <1>11, <1>12 DEF IInv

LEMMA WriteKeepsSteps ==
  ASSUME TypeOK, NEW w \in Workflow, NEW v \in Workflow, NEW status, NEW step,
         WriteWorkflow(v, status, step)
  PROVE  /\ workflow'[w].student = workflow[w].student
         /\ workflow'[w].chain = workflow[w].chain
         /\ Steps(w)' = Steps(w)
<1>1. workflow[w] \in WorkflowRow
  BY DEF TypeOK
<1>2. /\ workflow'[w].student = workflow[w].student
      /\ workflow'[w].chain = workflow[w].chain
  <2>1. CASE w = v
    BY <1>1, <2>1 DEF WriteWorkflow, TypeOK, WorkflowRow
  <2>2. CASE w # v
    BY <1>1, <2>2 DEF WriteWorkflow, TypeOK
  <2> QED
    BY <2>1, <2>2
<1> QED
  BY <1>2 DEF Steps

LEMMA StampStudent ==
  ASSUME TypeOK, NEW who, NEW stage \in Stage, NEW status \in Status,
         student' = Stamp(student, {who}, stage, status)
  PROVE  /\ student' \in [Student -> StudentRow]
         /\ \A s \in Student :
              student'[s].stage = "APPROVED_FOR_DESIGN" =>
                \/ student[s].stage = "APPROVED_FOR_DESIGN"
                \/ s = who /\ stage = "APPROVED_FOR_DESIGN"
<1> DEFINE new(s) == IF s \in {who} THEN [student[s] EXCEPT !.stage = stage, !.status = status]
                                    ELSE student[s]
<1>1. ASSUME NEW s \in Student
      PROVE  /\ new(s) \in StudentRow
             /\ s # who => new(s).stage = student[s].stage
             /\ s = who => new(s).stage = stage
  <2>1. student[s] \in [stage : Stage, status : Status, deleted : BOOLEAN]
    BY DEF StudentRow, TypeOK
  <2>2. CASE s = who
    <3> DEFINE one == [student[s] EXCEPT !.stage = stage]
    <3>1. one \in [stage : Stage, status : Status, deleted : BOOLEAN] /\ one.stage = stage
      BY <2>1
    <3> HIDE DEF one
    <3>2. [one EXCEPT !.status = status] \in [stage : Stage, status : Status, deleted : BOOLEAN]
          /\ [one EXCEPT !.status = status].stage = stage
      BY <3>1
    <3> QED
      BY <2>2, <3>2 DEF one, StudentRow
  <2>3. CASE s # who
    BY <2>1, <2>3 DEF StudentRow
  <2> QED
    BY <2>2, <2>3
<1>2. student' = [s \in Student |-> new(s)]
  BY DEF Stamp, TypeOK
<1> HIDE DEF new
<1> QED
  BY <1>1, <1>2

(* What an APPROVE, REJECT or SEND_BACK about to be written can rely on.   *)
LEMMA DeciderShape ==
  ASSUME IInv, NEW sl \in Slot, NEW r, r = req[sl], r.op = "act",
         r.action # "COMMENT"
  PROVE  /\ r \in Acting /\ r.wf \in Workflow /\ r.actor \in Actor
         /\ workflow[r.wf] \in WorkflowRow
         /\ workflow[r.wf].student \in Student
         /\ r.step \in 1 .. Len(Steps(r.wf))
         /\ SignedUpTo(r.wf, r.step - 1, signed)
         /\ CanReach(r.actor, SchoolOf[workflow[r.wf].student])
         /\ Entitled(r.actor, Steps(r.wf)[r.step])
<1>1. r \in Acting /\ r.wf \in Workflow /\ r.actor \in Actor
  BY ActingShape DEF IInv, Acting
<1>2. workflow[r.wf] \in WorkflowRow /\ workflow[r.wf].student \in Student
  BY <1>1 DEF IInv, TypeOK, WorkflowRow
<1>3. SnapshotCovered(r)
  BY DEF IInv, SnapshotsCovered
<1> QED
  BY <1>1, <1>2, <1>3 DEF SnapshotCovered, Covered

(* With the new row the step read is signed as well.                       *)
LEMMA SignCovers ==
  ASSUME IInv, NEW sl \in Slot, NEW r, r = req[sl], r.op = "act",
         r.action = "APPROVE",
         NEW status, NEW step, WriteWorkflow(r.wf, status, step),
         Sign(r.wf, r.step, r.actor)
  PROVE  /\ SignedUpTo(r.wf, r.step, signed)'
         /\ signed' \in [Workflow -> SUBSET (Nat \X Actor)]
         /\ fresh' \in [Workflow -> SUBSET (Nat \X Actor)]
         /\ \A w \in Workflow : signed[w] \subseteq signed'[w]
<1>1. /\ r.wf \in Workflow /\ r.actor \in Actor
      /\ r.step \in 1 .. Len(Steps(r.wf))
      /\ SignedUpTo(r.wf, r.step - 1, signed)
      /\ CanReach(r.actor, SchoolOf[workflow[r.wf].student])
      /\ Entitled(r.actor, Steps(r.wf)[r.step])
  BY DeciderShape
<1>2. /\ workflow'[r.wf].student = workflow[r.wf].student
      /\ Steps(r.wf)' = Steps(r.wf)
  BY <1>1, WriteKeepsSteps DEF IInv
<1>3. Len(Steps(r.wf)) \in Nat
  BY <1>1, StepsShape DEF IInv
<1>4. /\ signed' \in [Workflow -> SUBSET (Nat \X Actor)]
      /\ fresh' \in [Workflow -> SUBSET (Nat \X Actor)]
      /\ \A w \in Workflow : signed[w] \subseteq signed'[w]
      /\ <<r.step, r.actor>> \in signed'[r.wf]
  BY <1>1, <1>3 DEF Sign, IInv, TypeOK
<1>5. ASSUME NEW i \in 1 .. Len(Steps(r.wf)), i <= r.step
      PROVE  SignedBy(r.wf, i, signed)'
  <2>1. CASE i = r.step
    BY <1>1, <1>2, <1>4, <2>1 DEF SignedBy, CanReach, Entitled
  <2>2. CASE i # r.step
    <3>1. i <= r.step - 1
      BY <1>1, <1>3, <1>5, <2>2
    <3>2. SignedBy(r.wf, i, signed)
      BY <1>1, <3>1, <1>5 DEF SignedUpTo
    <3> QED
      BY <1>1, <1>2, <1>4, <3>2 DEF SignedBy, CanReach, Entitled
  <2> QED
    BY <2>1, <2>2
<1>6. SignedUpTo(r.wf, r.step, signed)'
  BY <1>2, <1>5 DEF SignedUpTo
<1> QED
  BY <1>4, <1>6

LEMMA CommitApproveStepKeeps ==
  ASSUME IInv, NEW sl \in Slot, CommitApproveStep(sl)
  PROVE  IInv'
<1>0. PICK r : r = req[sl]
  OBVIOUS
<1>1. /\ r.op = "act" /\ r.action = "APPROVE"
      /\ r.step < Len(Steps(r.wf))
      /\ WriteWorkflow(r.wf, "IN_PROGRESS", r.step + 1)
      /\ student' = [student EXCEPT ![workflow[r.wf].student].stage =
                                       "AWAITING_INSTITUTION_APPROVAL"]
      /\ Sign(r.wf, r.step, r.actor)
      /\ Done(sl)
      /\ request' = request
  BY <1>0 DEF CommitApproveStep, CommitsAction
<1>2. /\ r.wf \in Workflow /\ workflow[r.wf].student \in Student
      /\ r.step \in 1 .. Len(Steps(r.wf))
  BY <1>0, <1>1, DeciderShape
<1>3. Len(Steps(r.wf)) \in Nat /\ Steps(r.wf)' = Steps(r.wf)
  BY <1>1, <1>2, StepsShape, WriteKeepsSteps DEF IInv
<1>4. /\ SignedUpTo(r.wf, r.step, signed)'
      /\ signed' \in [Workflow -> SUBSET (Nat \X Actor)]
      /\ fresh' \in [Workflow -> SUBSET (Nat \X Actor)]
      /\ \A w \in Workflow : signed[w] \subseteq signed'[w]
  BY <1>0, <1>1, SignCovers
<1>5. Covered(r.wf, "IN_PROGRESS", r.step + 1)'
  <2>1. r.step + 1 \in 1 .. Len(Steps(r.wf)) /\ (r.step + 1) - 1 = r.step
    BY <1>1, <1>2, <1>3
  <2> QED
    BY <1>3, <1>4, <2>1 DEF Covered
<1>6. /\ student' \in [Student -> StudentRow]
      /\ \A s \in Student : student'[s].stage = "APPROVED_FOR_DESIGN" =>
                              student[s].stage = "APPROVED_FOR_DESIGN"
  BY <1>1, <1>2 DEF IInv, TypeOK, StudentRow, Stage
<1>7. request' \in [Workflow -> {"NONE", "PENDING", "APPROVED", "REJECTED"}]
  BY <1>1 DEF IInv, TypeOK
<1>8. "IN_PROGRESS" \in WorkflowStatus \ {"NONE"} /\ r.step + 1 \in Nat
  BY <1>2, <1>3 DEF WorkflowStatus
<1> QED
  BY <1>0, <1>1, <1>4, <1>5, <1>6, <1>7, <1>8, CommitKeeps

LEMMA DecideShape ==
  ASSUME TypeOK, NEW w \in Workflow, NEW d \in {"APPROVED", "REJECTED"}, Decide(w, d)
  PROVE  /\ request' \in [Workflow -> {"NONE", "PENDING", "APPROVED", "REJECTED"}]
         /\ \A v \in Workflow : v # w => request'[v] = request[v]
         /\ \A v \in Workflow :
              request'[v] = "APPROVED" => request[v] = "APPROVED" \/ (v = w /\ d = "APPROVED")
BY DEF TypeOK, Decide

LEMMA CommitApproveLastKeeps ==
  ASSUME IInv, NEW sl \in Slot, CommitApproveLast(sl)
  PROVE  IInv'
<1>0. PICK r : r = req[sl]
  OBVIOUS
<1>1. /\ r.op = "act" /\ r.action = "APPROVE"
      /\ r.step >= Len(Steps(r.wf))
      /\ WriteWorkflow(r.wf, "APPROVED", 0)
      /\ student' = Stamp(student, {workflow[r.wf].student},
                          "APPROVED_FOR_DESIGN", "SCHOOL_APPROVED")
      /\ Sign(r.wf, r.step, r.actor)
      /\ Decide(r.wf, "APPROVED")
      /\ Done(sl)
  BY <1>0 DEF CommitApproveLast, CommitsAction
<1>2. /\ r.wf \in Workflow /\ workflow[r.wf].student \in Student
      /\ r.step \in 1 .. Len(Steps(r.wf))
  BY <1>0, <1>1, DeciderShape
<1>3. Len(Steps(r.wf)) \in Nat /\ Steps(r.wf)' = Steps(r.wf)
  BY <1>1, <1>2, StepsShape, WriteKeepsSteps DEF IInv
<1>4. /\ SignedUpTo(r.wf, r.step, signed)'
      /\ signed' \in [Workflow -> SUBSET (Nat \X Actor)]
      /\ fresh' \in [Workflow -> SUBSET (Nat \X Actor)]
      /\ \A w \in Workflow : signed[w] \subseteq signed'[w]
  BY <1>0, <1>1, SignCovers
<1>5. FullySigned(r.wf, signed)'
  <2>1. r.step = Len(Steps(r.wf))
    BY <1>1, <1>2, <1>3
  <2> QED
    BY <1>3, <1>4, <2>1 DEF FullySigned
<1>6. Covered(r.wf, "APPROVED", 0)'
  BY <1>5 DEF Covered
<1>7. /\ student' \in [Student -> StudentRow]
      /\ \A s \in Student : student'[s].stage = "APPROVED_FOR_DESIGN" =>
           student[s].stage = "APPROVED_FOR_DESIGN" \/ s = workflow[r.wf].student
  <2>1. "APPROVED_FOR_DESIGN" \in Stage /\ "SCHOOL_APPROVED" \in Status
    BY DEF Stage, Status
  <2> QED
    BY <1>1, <1>2, <2>1, StampStudent DEF IInv
<1>8. /\ request' \in [Workflow -> {"NONE", "PENDING", "APPROVED", "REJECTED"}]
      /\ \A w \in Workflow : w # r.wf => request'[w] = request[w]
      /\ \A w \in Workflow : request'[w] = "APPROVED" => request[w] = "APPROVED" \/ w = r.wf
  BY <1>1, <1>2, DecideShape DEF IInv
<1>9. "APPROVED" \in WorkflowStatus \ {"NONE"}
  BY DEF WorkflowStatus
<1>10. ASSUME NEW w \in Workflow, request'[w] = "APPROVED"
       PROVE  request[w] = "APPROVED" \/ (w = r.wf /\ FullySigned(w, signed)')
  BY <1>5, <1>8, <1>10
<1>11. ASSUME NEW s \in Student, student'[s].stage = "APPROVED_FOR_DESIGN"
       PROVE  \/ student[s].stage = "APPROVED_FOR_DESIGN"
              \/ s = workflow[r.wf].student /\ FullySigned(r.wf, signed)'
  BY <1>5, <1>7, <1>11
<1> QED
  BY <1>0, <1>1, <1>4, <1>6, <1>7, <1>8, <1>9, <1>10, <1>11, CommitKeeps

LEMMA CommitRejectKeeps ==
  ASSUME IInv, NEW sl \in Slot, CommitReject(sl)
  PROVE  IInv'
<1>0. PICK r : r = req[sl]
  OBVIOUS
<1>1. /\ r.op = "act" /\ r.action = "REJECT"
      /\ WriteWorkflow(r.wf, "REJECTED", 0)
      /\ student' = Stamp(student, {workflow[r.wf].student}, "REJECTED", "REJECTED")
      /\ Decide(r.wf, "REJECTED")
      /\ Done(sl)
      /\ signed' = signed /\ fresh' = fresh
  BY <1>0 DEF CommitReject, CommitsAction
<1>2. r.wf \in Workflow /\ workflow[r.wf].student \in Student
  BY <1>0, <1>1, DeciderShape
<1>3. Covered(r.wf, "REJECTED", 0)'
  BY DEF Covered
<1>4. /\ student' \in [Student -> StudentRow]
      /\ \A s \in Student : student'[s].stage = "APPROVED_FOR_DESIGN" =>
                              student[s].stage = "APPROVED_FOR_DESIGN"
  <2>1. "REJECTED" \in Stage /\ "REJECTED" \in Status
    BY DEF Stage, Status
  <2> QED
    BY <1>1, <2>1, StampStudent DEF IInv
<1>5. /\ request' \in [Workflow -> {"NONE", "PENDING", "APPROVED", "REJECTED"}]
      /\ \A w \in Workflow : w # r.wf => request'[w] = request[w]
      /\ \A w \in Workflow : request'[w] = "APPROVED" => request[w] = "APPROVED"
  BY <1>1, <1>2, DecideShape DEF IInv
<1>6. "REJECTED" \in WorkflowStatus \ {"NONE"}
  BY DEF WorkflowStatus
<1>7. /\ signed' \in [Workflow -> SUBSET (Nat \X Actor)]
      /\ fresh' \in [Workflow -> SUBSET (Nat \X Actor)]
      /\ \A w \in Workflow : signed[w] \subseteq signed'[w]
  BY <1>1 DEF IInv, TypeOK
<1> QED
  BY <1>0, <1>1, <1>3, <1>4, <1>5, <1>6, <1>7, CommitKeeps

LEMMA CommitSendBackKeeps ==
  ASSUME IInv, NEW sl \in Slot, CommitSendBack(sl)
  PROVE  IInv'
<1>0. PICK r : r = req[sl]
  OBVIOUS
<1>1. /\ r.op = "act" /\ r.action = "SEND_BACK"
      /\ WriteWorkflow(r.wf, "SENT_BACK", 1)
      /\ student' = Stamp(student, {workflow[r.wf].student}, "SALES_CORRECTED",
                          "SUBMITTED")
      /\ fresh' = [fresh EXCEPT ![r.wf] = {}]
      /\ Done(sl)
      /\ request' = request /\ signed' = signed
  BY <1>0 DEF CommitSendBack, CommitsAction
<1>2. r.wf \in Workflow /\ workflow[r.wf].student \in Student
  BY <1>0, <1>1, DeciderShape
<1>3. /\ Len(Steps(r.wf)) \in Nat /\ Len(Steps(r.wf)) >= 1
      /\ Steps(r.wf)' = Steps(r.wf)
  BY <1>1, <1>2, StepsShape, WriteKeepsSteps DEF IInv
<1>4. Covered(r.wf, "SENT_BACK", 1)'
  BY <1>3 DEF Covered, SignedUpTo
<1>5. /\ student' \in [Student -> StudentRow]
      /\ \A s \in Student : student'[s].stage = "APPROVED_FOR_DESIGN" =>
                              student[s].stage = "APPROVED_FOR_DESIGN"
  <2>1. "SALES_CORRECTED" \in Stage /\ "SUBMITTED" \in Status
    BY DEF Stage, Status
  <2> QED
    BY <1>1, <2>1, StampStudent DEF IInv
<1>6. "SENT_BACK" \in WorkflowStatus \ {"NONE"} /\ 1 \in Nat
  BY DEF WorkflowStatus
<1>7. /\ signed' \in [Workflow -> SUBSET (Nat \X Actor)]
      /\ fresh' \in [Workflow -> SUBSET (Nat \X Actor)]
      /\ \A w \in Workflow : signed[w] \subseteq signed'[w]
      /\ request' \in [Workflow -> {"NONE", "PENDING", "APPROVED", "REJECTED"}]
  BY <1>1 DEF IInv, TypeOK
<1> QED
  BY <1>0, <1>1, <1>4, <1>5, <1>6, <1>7, CommitKeeps

(* A comment writes its snapshot back, and the snapshot is covered.        *)
LEMMA CommitCommentKeeps ==
  ASSUME IInv, NEW sl \in Slot, CommitComment(sl)
  PROVE  IInv'
<1>0. PICK r : r = req[sl]
  OBVIOUS
<1>1. /\ r.op = "act"
      /\ WriteWorkflow(r.wf, r.status, r.step)
      /\ Done(sl)
      /\ student' = student /\ request' = request /\ signed' = signed /\ fresh' = fresh
  BY <1>0 DEF CommitComment, CommitsAction
<1>2. r \in Acting /\ r.wf \in Workflow
  BY <1>0, <1>1, ActingShape DEF IInv, Acting
<1>3. SnapshotCovered(r)
  BY <1>0, <1>1 DEF IInv, SnapshotsCovered
<1>4. r.status \in WorkflowStatus \ {"NONE"} /\ r.step \in Nat
  BY <1>2, <1>3 DEF Acting, SnapshotCovered
<1>5. Covered(r.wf, r.status, r.step)'
  <2>1. Steps(r.wf)' = Steps(r.wf) /\ workflow'[r.wf].student = workflow[r.wf].student
    BY <1>1, <1>2, WriteKeepsSteps DEF IInv
  <2>2. Covered(r.wf, r.status, r.step)
    BY <1>3 DEF SnapshotCovered
  <2> QED
    BY <1>1, <2>1, <2>2 DEF Covered, FullySigned, SignedUpTo, SignedBy
<1>6. /\ student' \in [Student -> StudentRow]
      /\ request' \in [Workflow -> {"NONE", "PENDING", "APPROVED", "REJECTED"}]
      /\ signed' \in [Workflow -> SUBSET (Nat \X Actor)]
      /\ fresh' \in [Workflow -> SUBSET (Nat \X Actor)]
  BY <1>1 DEF IInv, TypeOK
<1> QED
  BY <1>0, <1>1, <1>4, <1>5, <1>6, CommitKeeps

(* The start transaction writes many rows; the new one was nobody's        *)
(* snapshot, and one put on hold promises nothing.                         *)
LEMMA CommitStartKeeps ==
  ASSUME IInv, NEW sl \in Slot, CommitStart(sl)
  PROVE  IInv'
<1>a. PICK r : r = req[sl]
  OBVIOUS
<1>0. PICK new \in Workflow :
        /\ r = req[sl] /\ r.op = "restart"
        /\ workflow[new].status = "NONE"
        /\ workflow' = [w \in Workflow |->
             IF w = new
               THEN [student |-> r.student, chain |-> r.chain,
                     status |-> "IN_PROGRESS", step |-> 1]
             ELSE IF w \in r.open
               THEN PutOnHold(workflow[w])
             ELSE workflow[w]]
        /\ request' = [request EXCEPT ![new] = "PENDING"]
        /\ student' = Stamp(student, {r.student}, "AWAITING_INSTITUTION_APPROVAL",
                            StatusAfterStart(r.status))
        /\ req' = [req EXCEPT ![sl] = Idle]
        /\ signed' = signed /\ fresh' = fresh
  BY <1>a DEF CommitStart
<1>1. r \in StartScanned /\ r.student \in Student /\ r.chain \in Chain /\ r.status \in Status
  BY <1>0, RestartShape DEF IInv, StartScanned
<1>2. ASSUME NEW w \in Workflow, w # new
      PROVE  /\ workflow'[w] \in WorkflowRow
             /\ Keeps(w)
             /\ \/ workflow'[w] = workflow[w]
                \/ workflow'[w].status = "ON_HOLD" /\ workflow'[w].step = 0
  <2>1. workflow[w] \in WorkflowRow
    BY DEF IInv, TypeOK
  <2>2. CASE w \in r.open
    <3>1. workflow'[w] = PutOnHold(workflow[w])
      BY <1>0, <1>2, <2>2
    <3>3. /\ workflow'[w] \in WorkflowRow /\ workflow'[w].status = "ON_HOLD"
          /\ workflow'[w].step = 0
          /\ workflow'[w].student = workflow[w].student
          /\ workflow'[w].chain = workflow[w].chain
      BY <2>1, <3>1 DEF PutOnHold, WorkflowRow, WorkflowStatus
    <3> QED
      BY <1>0, <3>3 DEF Keeps
  <2>3. CASE w \notin r.open
    <3>1. workflow'[w] = workflow[w]
      BY <1>0, <1>2, <2>3
    <3> QED
      BY <1>0, <2>1, <3>1 DEF Keeps
  <2> QED
    BY <2>2, <2>3
<1>3. workflow'[new] = [student |-> r.student, chain |-> r.chain,
                        status |-> "IN_PROGRESS", step |-> 1]
  BY <1>0
<1>4. workflow' \in [Workflow -> WorkflowRow]
  <2>1. workflow'[new] \in WorkflowRow
    BY <1>1, <1>3 DEF WorkflowRow, WorkflowStatus
  <2>2. \A w \in Workflow : workflow'[w] \in WorkflowRow
    BY <1>2, <2>1
  <2> DEFINE row(w) == IF w = new
                         THEN [student |-> r.student, chain |-> r.chain,
                               status |-> "IN_PROGRESS", step |-> 1]
                       ELSE IF w \in r.open
                         THEN PutOnHold(workflow[w])
                       ELSE workflow[w]
  <2>3. workflow' = [w \in Workflow |-> row(w)]
    BY <1>0
  <2> HIDE DEF row
  <2>4. ASSUME NEW w \in Workflow PROVE row(w) \in WorkflowRow
    <3>1. workflow'[w] = row(w)
      BY <2>3
    <3> QED
      BY <2>2, <3>1
  <2> QED
    BY <2>3, <2>4
<1>5. /\ student' \in [Student -> StudentRow]
      /\ \A s \in Student : student'[s].stage = "APPROVED_FOR_DESIGN" =>
                              student[s].stage = "APPROVED_FOR_DESIGN"
  <2>1. "AWAITING_INSTITUTION_APPROVAL" \in Stage /\ StatusAfterStart(r.status) \in Status
    BY <1>1 DEF Stage, Status, StatusAfterStart
  <2> QED
    BY <1>0, <1>1, <2>1, StampStudent DEF IInv
<1>6. TypeOK'
  BY <1>0, <1>4, <1>5, IdleIsRequest DEF IInv, TypeOK
<1>7. RowsCovered'
  <2> SUFFICES ASSUME NEW w \in Workflow, NEW row, row = workflow'[w]
               PROVE  Covered(w, row.status, row.step)'
    BY DEF RowsCovered
  <2>1. CASE w = new
    <3>1. row.status = "IN_PROGRESS" /\ row.step = 1
      BY <1>3, <2>1
    <3>2. Len(Steps(w)') \in Nat /\ Len(Steps(w)') >= 1
      BY <1>6, ChainAssumption DEF TypeOK, Steps, WorkflowRow
    <3> QED
      BY <3>1, <3>2 DEF Covered, SignedUpTo
  <2>2. CASE w # new /\ row = workflow[w]
    <3>1. Covered(w, row.status, row.step)
      BY <2>2 DEF IInv, RowsCovered
    <3> QED
      BY <1>2, <2>2, <3>1, CoveredKept
  <2>3. CASE w # new /\ row.status = "ON_HOLD" /\ row.step = 0
    BY <2>3 DEF Covered
  <2> QED
    BY <1>2, <2>1, <2>2, <2>3
<1>8. ASSUME NEW o \in Slot, NEW q, q = req'[o], q.op = "act"
      PROVE  SnapshotCovered(q)'
  <2>1. q = req[o]
    BY <1>0, <1>8 DEF IInv, TypeOK, Idle
  <2>2. q.wf \in Workflow /\ SnapshotCovered(q)
    BY <2>1, <1>8, ActingShape DEF IInv, SnapshotsCovered, Acting
  <2>3. q.wf # new
    BY <1>0, <2>2 DEF SnapshotCovered
  <2> QED
    BY <1>2, <2>2, <2>3, SnapshotKept
<1>9. SnapshotsCovered'
  BY <1>8 DEF SnapshotsCovered
<1>10. ASSUME NEW w \in Workflow, w # new, FullySigned(w, signed)
       PROVE  FullySigned(w, signed)'
  <2>1. Steps(w)' = Steps(w)
    BY <1>2, <1>10 DEF Keeps, Steps
  <2> QED
    BY <1>2, <1>10, <2>1, SignedUpToKept DEF FullySigned
<1>11. RequestsCovered'
  <2>1. \A w \in Workflow : request'[w] = "APPROVED" => w # new /\ request[w] = "APPROVED"
    BY <1>0 DEF IInv, TypeOK
  <2> QED
    BY <1>10, <2>1 DEF IInv, RequestsCovered
<1>12. DesignNeedsFullApproval'
  <2> SUFFICES ASSUME NEW s \in Student, student'[s].stage = "APPROVED_FOR_DESIGN"
               PROVE  \E w \in Workflow :
                        /\ workflow'[w].status # "NONE"
                        /\ workflow'[w].student = s
                        /\ FullySigned(w, signed)'
    BY DEF DesignNeedsFullApproval
  <2>1. PICK w \in Workflow : /\ workflow[w].status # "NONE"
                             /\ workflow[w].student = s
                             /\ FullySigned(w, signed)
    BY <1>5 DEF IInv, DesignNeedsFullApproval
  <2>2. w # new
    BY <1>0, <2>1
  <2> QED
    BY <1>2, <1>10, <2>1, <2>2 DEF Keeps
<1>13. UnusedHasNoRequest'
  <2> SUFFICES ASSUME NEW w \in Workflow, workflow'[w].status = "NONE"
               PROVE  request'[w] = "NONE"
    BY DEF UnusedHasNoRequest
  <2>1. w # new
    BY <1>3
  <2>2. workflow[w].status = "NONE"
    BY <1>2, <2>1 DEF Keeps
  <2> QED
    BY <1>0, <2>1, <2>2 DEF IInv, TypeOK, UnusedHasNoRequest
<1> QED
  BY <1>6, <1>7, <1>9, <1>11, <1>12, <1>13 DEF IInv

----------------------------------------------------------------------------
LEMMA NextKeeps == IInv /\ [Next]_vars => IInv'
<1> SUFFICES ASSUME IInv, [Next]_vars PROVE IInv'
  OBVIOUS
<1>1. CASE \E sl \in Slot : ReadForStart(sl)
  BY <1>1, ReadForStartKeeps
<1>2. CASE \E sl \in Slot : BeginAct(sl)
  BY <1>2, BeginActKeeps
<1>3. CASE \E sl \in Slot : HandlerStep(sl)
  <2> SUFFICES ASSUME NEW sl \in Slot, HandlerStep(sl) PROVE IInv'
    BY <1>3
  <2> QED
    BY ScanOpenKeeps, CommitStartKeeps, ReadWorkflowKeeps, RefuseWorkflowKeeps,
       CommitApproveStepKeeps, CommitApproveLastKeeps, CommitRejectKeeps,
       CommitSendBackKeeps, CommitCommentKeeps DEF HandlerStep
<1>4. CASE ProcessRestart
  BY <1>4, ProcessRestartKeeps
<1>5. CASE UNCHANGED vars
  <2>1. TablesSame /\ req' = req
    BY <1>5 DEF vars, TablesSame
  <2>2. SnapshotsCovered'
    <3> SUFFICES ASSUME NEW o \in Slot, NEW q, q = req'[o], q.op = "act"
                 PROVE  SnapshotCovered(q)'
      BY DEF SnapshotsCovered
    <3>1. q.wf \in Workflow /\ SnapshotCovered(q)
      BY <2>1, ActingShape DEF IInv, SnapshotsCovered, Acting
    <3>2. Keeps(q.wf)
      BY <2>1 DEF Keeps, TablesSame
    <3> QED
      BY <3>1, <3>2, SnapshotKept
  <2> QED
    BY <2>1, <2>2, TablesSameKeeps DEF IInv, TypeOK
<1> QED
  BY <1>1, <1>2, <1>3, <1>4, <1>5 DEF Next

THEOREM Invariance == Spec => []IInv
BY InitEstablishes, NextKeeps, PTL DEF Spec

(* Type correctness of the tables and of every request in flight.          *)
THEOREM TypeCorrect == Spec => []TypeOK
<1>1. IInv => TypeOK
  BY DEF IInv
<1> QED
  BY <1>1, Invariance, PTL

(* currentStepId fits the status, however the requests overlap.            *)
THEOREM StepAlwaysFits == Spec => []StepFitsStatus
<1>1. IInv => StepFitsStatus
  BY DEF IInv, RowsCovered, Covered, StepFitsStatus
<1> QED
  BY <1>1, Invariance, PTL

(* No approval without the signature of an entitled actor for every step.  *)
THEOREM ApprovalIsSigned == Spec => []ApprovedIsFullySigned
<1>1. IInv => ApprovedIsFullySigned
  BY DEF IInv, RowsCovered, RequestsCovered, Covered, ApprovedIsFullySigned
<1> QED
  BY <1>1, Invariance, PTL

(* No student at APPROVED_FOR_DESIGN without a workflow that went through. *)
THEOREM DesignIsApproved == Spec => []DesignNeedsFullApproval
<1>1. IInv => DesignNeedsFullApproval
  BY DEF IInv
<1> QED
  BY <1>1, Invariance, PTL

(* The first decision on an approval request stands.                       *)
THEOREM DecisionIsFinal == Spec => DecisionStands
<1>1. IInv /\ [Next]_vars =>
        [\A w \in Workflow :
           request[w] \in {"APPROVED", "REJECTED"} => request'[w] = request[w]]_vars
  <2> SUFFICES ASSUME IInv, Next, NEW w \in Workflow,
                      request[w] \in {"APPROVED", "REJECTED"}
               PROVE  request'[w] = request[w]
    OBVIOUS
  <2>1. request \in [Workflow -> {"NONE", "PENDING", "APPROVED", "REJECTED"}]
    BY DEF IInv, TypeOK
  <2>2. CASE request' = request
    BY <2>2
  <2>3. CASE \E v \in Workflow, d \in {"APPROVED", "REJECTED"} : Decide(v, d)
    BY <2>1, <2>3 DEF Decide
  <2>4. CASE \E v \in Workflow : /\ workflow[v].status = "NONE"
                                /\ request' = [request EXCEPT ![v] = "PENDING"]
    BY <2>1, <2>4 DEF IInv, UnusedHasNoRequest
  <2>5. CASE \E sl \in Slot : CommitStart(sl)
    <3>1. \E v \in Workflow : /\ workflow[v].status = "NONE"
                             /\ request' = [request EXCEPT ![v] = "PENDING"]
      BY <2>5 DEF CommitStart
    <3> QED
      BY <2>4, <3>1
  <2>6. CASE \E sl \in Slot : CommitApproveLast(sl) \/ CommitReject(sl)
    <3>1. PICK sl \in Slot : CommitApproveLast(sl) \/ CommitReject(sl)
      BY <2>6
    <3>2. req[sl].wf \in Workflow
      BY <3>1, ActingShape DEF CommitApproveLast, CommitReject, CommitsAction, Acting, IInv
    <3>3. \E d \in {"APPROVED", "REJECTED"} : Decide(req[sl].wf, d)
      BY <3>1 DEF CommitApproveLast, CommitReject
    <3> QED
      BY <2>3, <3>2, <3>3
  <2> QED
    BY <2>2, <2>5, <2>6 DEF Next, HandlerStep, ReadForStart, BeginAct, ProcessRestart,
       ScanOpen, ReadWorkflow, RefuseWorkflow, CommitApproveStep, CommitSendBack,
       CommitComment
<1> QED
  BY <1>1, Invariance, PTL DEF Spec, DecisionStands

----------------------------------------------------------------------------
(***************************************************************************)
(* What the checks of the approval handlers are there for, proved for      *)
(* requests that do not overlap: one workflow of a student waits for       *)
(* approvers, closed workflows stay closed, a workflow sent back is signed  *)
(* again from the start, and the approval request and the student's stage  *)
(* follow the workflow.  Chains, students, workflows and the ids of a bulk  *)
(* call are any number; the process may stop at any moment.                *)
(***************************************************************************)

OneAtATime == \A a, b \in Slot : a = b

(* Nothing has come between what a request read and what it writes.        *)
SnapshotCurrent(r) ==
  /\ r.op = "act" =>
       r.status = workflow[r.wf].status /\ r.step = workflow[r.wf].step
  /\ r.op = "restart" => r.open = OpenWorkflows(r.student)

SnapshotsCurrent == \A sl \in Slot : SnapshotCurrent(req[sl])

(* The steps below the current one were signed since the last SEND_BACK.    *)
FreshAt(w) ==
  /\ workflow[w].status \in {"IN_PROGRESS", "SENT_BACK"} =>
       SignedUpTo(w, workflow[w].step - 1, fresh)
  /\ workflow[w].status = "APPROVED" => FullySigned(w, fresh)

FreshCovered == \A w \in Workflow : FreshAt(w)

SerialInv ==
  /\ OneAtATime
  /\ IInv
  /\ SnapshotsCurrent
  /\ FreshCovered
  /\ OneActiveWorkflow
  /\ RequestAndStageFollow

----------------------------------------------------------------------------
(* Active workflows are the open ones with a step to be approved.          *)
LEMMA ActiveStatus ==
  ASSUME IInv, NEW w \in Workflow
  PROVE  /\ Active(w) <=> workflow[w].status \in {"IN_PROGRESS", "SENT_BACK"}
         /\ Active(w) => workflow[w].step \in 1 .. Len(Steps(w))
<1>1. Covered(w, workflow[w].status, workflow[w].step)
  BY DEF IInv, RowsCovered
<1>2. Len(Steps(w)) \in Nat
  BY StepsShape DEF IInv
<1> QED
  BY <1>1, <1>2 DEF Covered, Active

LEMMA FreshKept ==
  ASSUME NEW w \in Workflow, workflow'[w] = workflow[w], fresh[w] \subseteq fresh'[w], FreshAt(w)
  PROVE  FreshAt(w)'
BY DEF FreshAt, FullySigned, SignedUpTo, SignedBy, Steps

(* Steps that only read                                                    *)
LEMMA TablesSameSerial ==
  ASSUME SerialInv, TablesSame
  PROVE  FreshCovered' /\ OneActiveWorkflow' /\ RequestAndStageFollow'
<1>1. FreshCovered'
  BY FreshKept DEF SerialInv, FreshCovered, TablesSame
<1>2. OneActiveWorkflow'
  BY DEF SerialInv, OneActiveWorkflow, Active, TablesSame
<1>3. RequestAndStageFollow'
  BY DEF SerialInv, RequestAndStageFollow, Active, TablesSame
<1> QED
  BY <1>1, <1>2, <1>3

(* The slot of a step is the only one: its new request decides.            *)
LEMMA OnlySlot ==
  ASSUME OneAtATime, TypeOK, NEW sl \in Slot, NEW q, req' = [req EXCEPT ![sl] = q],
         SnapshotCurrent(q)'
  PROVE  SnapshotsCurrent'
BY DEF OneAtATime, TypeOK, SnapshotsCurrent

LEMMA PassiveCurrent ==
  ASSUME NEW q, q.op \notin {"act", "restart"}
  PROVE  SnapshotCurrent(q)'
BY DEF SnapshotCurrent

LEMMA RestPassive ==
  ASSUME NEW r, NEW left
  PROVE  Rest(r, left).op \notin {"act", "restart"}
BY DEF Rest, Idle

LEMMA SnapshotsStep ==
  ASSUME OneAtATime, IInv, SnapshotsCurrent, [Next]_vars
  PROVE  SnapshotsCurrent'
<1> USE DEF IInv
<1>1. ASSUME NEW sl \in Slot, NEW q, req' = [req EXCEPT ![sl] = q], q.op \notin {"act", "restart"}
      PROVE  SnapshotsCurrent'
  BY <1>1, PassiveCurrent, OnlySlot
<1>2. ASSUME NEW sl \in Slot, ReadForStart(sl)
      PROVE  SnapshotsCurrent'
  <2>1. PICK s, status, c, force :
          req' = [req EXCEPT ![sl] = [op |-> "start", student |-> s, status |-> status,
                                      chain |-> c, force |-> force]]
    BY <1>2 DEF ReadForStart
  <2> QED
    BY <1>1, <2>1
<1>3. ASSUME NEW sl \in Slot, BeginAct(sl)
      PROVE  SnapshotsCurrent'
  <2>1. PICK a, act, ids, goOn :
          req' = [req EXCEPT ![sl] = [op |-> "pick", actor |-> a, action |-> act, todo |-> ids,
                                      goOn |-> goOn]]
    BY <1>3 DEF BeginAct
  <2> QED
    BY <1>1, <2>1
<1>4. ASSUME NEW sl \in Slot, ScanOpen(sl)
      PROVE  SnapshotsCurrent'
  <2>0. PICK r, open, q :
          /\ r = req[sl] /\ open = OpenWorkflows(r.student)
          /\ q = [op |-> "restart", student |-> r.student, status |-> r.status,
                  chain |-> r.chain, open |-> open]
    OBVIOUS
  <2>1. req' = [req EXCEPT ![sl] = Idle] \/ req' = [req EXCEPT ![sl] = q]
    BY <1>4, <2>0 DEF ScanOpen
  <2>2. CASE req' = [req EXCEPT ![sl] = q]
    <3>1. workflow' = workflow
      BY <1>4 DEF ScanOpen
    <3>2. SnapshotCurrent(q)'
      BY <3>1, <2>0 DEF SnapshotCurrent, OpenWorkflows
    <3> QED
      BY <2>2, <3>2, OnlySlot
  <2>3. Idle.op \notin {"act", "restart"}
    BY DEF Idle
  <2> QED
    BY <1>1, <2>1, <2>2, <2>3
<1>5. ASSUME NEW sl \in Slot, ReadWorkflow(sl)
      PROVE  SnapshotsCurrent'
  <2>1. PICK w, q :
          /\ w \in Workflow
          /\ req' = [req EXCEPT ![sl] = q]
          /\ q.op = "act" /\ q.wf = w /\ q.status = workflow[w].status /\ q.step = workflow[w].step
    BY <1>5 DEF ReadWorkflow
  <2>2. workflow' = workflow
    BY <1>5 DEF ReadWorkflow
  <2>3. SnapshotCurrent(q)'
    BY <2>1, <2>2 DEF SnapshotCurrent
  <2> QED
    BY <2>1, <2>3, OnlySlot
<1>6. ASSUME NEW sl \in Slot, Done(sl) \/ RefuseWorkflow(sl) \/ CommitStart(sl)
      PROVE  SnapshotsCurrent'
  <2>1. Idle.op \notin {"act", "restart"}
    BY DEF Idle
  <2>2. CASE Done(sl)
    BY <1>1, <2>2, RestPassive DEF Done
  <2>3. CASE RefuseWorkflow(sl)
    BY <1>1, <2>1, <2>3, RestPassive DEF RefuseWorkflow
  <2>4. CASE CommitStart(sl)
    BY <1>1, <2>1, <2>4 DEF CommitStart
  <2> QED
    BY <1>6, <2>2, <2>3, <2>4
<1>7. CASE ProcessRestart
  BY <1>7 DEF ProcessRestart, SnapshotsCurrent, SnapshotCurrent, Idle
<1>8. CASE UNCHANGED vars
  BY <1>8 DEF vars, SnapshotsCurrent, SnapshotCurrent, OpenWorkflows
<1> QED
  BY <1>2, <1>3, <1>4, <1>5, <1>6, <1>7, <1>8 DEF Next, HandlerStep, CommitApproveStep,
     CommitApproveLast, CommitReject, CommitSendBack, CommitComment

----------------------------------------------------------------------------
(* An action on an active workflow writes its status and step, decides its  *)
(* request and moves its student.                                          *)
StageOf(status) ==
  IF status = "SENT_BACK" THEN "SALES_CORRECTED" ELSE "AWAITING_INSTITUTION_APPROVAL"

LEMMA FollowIs ==
  RequestAndStageFollow <=>
    \A w \in Workflow :
      /\ request[w] = CASE workflow[w].status = "NONE" -> "NONE"
                        [] workflow[w].status \in ClosedStatus -> workflow[w].status
                        [] OTHER -> "PENDING"
      /\ Active(w) => student[workflow[w].student].stage = StageOf(workflow[w].status)
BY DEF RequestAndStageFollow, StageOf

(* What the row of a workflow says of its approval request                 *)
LEMMA RequestIs ==
  ASSUME RequestAndStageFollow, TypeOK, NEW w \in Workflow
  PROVE  /\ workflow[w].status = "NONE" => request[w] = "NONE"
         /\ workflow[w].status \in ClosedStatus => request[w] = workflow[w].status
         /\ workflow[w].status \in OpenStatus => request[w] = "PENDING"
BY DEF RequestAndStageFollow, ClosedStatus, OpenStatus

LEMMA ActiveWrite ==
  ASSUME SerialInv, NEW v \in Workflow, Active(v),
         NEW status \in {"IN_PROGRESS", "SENT_BACK", "APPROVED", "REJECTED"}, NEW step,
         step # 0 => status \in {"IN_PROGRESS", "SENT_BACK"},
         WriteWorkflow(v, status, step),
         request'[v] = IF status \in ClosedStatus THEN status ELSE "PENDING",
         \A w \in Workflow : w # v => request'[w] = request[w],
         step # 0 => student'[workflow[v].student].stage = StageOf(status),
         \A s \in Student : s # workflow[v].student => student'[s].stage = student[s].stage
  PROVE  OneActiveWorkflow' /\ RequestAndStageFollow'
<1> USE DEF SerialInv, IInv
<1>1. /\ workflow'[v].student = workflow[v].student
      /\ workflow'[v].status = status /\ workflow'[v].step = step
      /\ \A w \in Workflow : w # v => workflow'[w] = workflow[w]
  BY DEF WriteWorkflow, TypeOK, WorkflowRow
<1>2. Active(v)' <=> step # 0
  BY <1>1 DEF Active
<1>3. \A w \in Workflow : Active(w)' => Active(w) /\ workflow'[w].student = workflow[w].student
  BY <1>1 DEF Active
<1>4. OneActiveWorkflow'
  BY <1>3 DEF OneActiveWorkflow
<1>5. ASSUME NEW w \in Workflow
      PROVE  /\ request'[w] = CASE workflow'[w].status = "NONE" -> "NONE"
                                [] workflow'[w].status \in ClosedStatus -> workflow'[w].status
                                [] OTHER -> "PENDING"
             /\ Active(w)' => student'[workflow'[w].student].stage = StageOf(workflow'[w].status)
  <2>1. CASE w = v
    BY <1>1, <1>2, <2>1 DEF ClosedStatus
  <2>2. CASE w # v
    <3>1. request'[w] = CASE workflow'[w].status = "NONE" -> "NONE"
                          [] workflow'[w].status \in ClosedStatus -> workflow'[w].status
                          [] OTHER -> "PENDING"
      BY <1>1, <2>2 DEF RequestAndStageFollow
    <3>2. ASSUME Active(w)'
          PROVE  student'[workflow'[w].student].stage = StageOf(workflow'[w].status)
      <4>1. Active(w) /\ workflow[w].student # workflow[v].student
        BY <1>3, <2>2, <3>2 DEF OneActiveWorkflow
      <4>2. workflow[w].student \in Student
        BY DEF TypeOK, WorkflowRow
      <4> QED
        BY <1>1, <2>2, <4>1, <4>2, FollowIs
    <3> QED
      BY <3>1, <3>2
  <2> QED
    BY <2>1, <2>2
<1>6. RequestAndStageFollow'
  BY <1>5 DEF RequestAndStageFollow, StageOf
<1> QED
  BY <1>4, <1>6

(* What is written on a workflow, and its signatures, keep it covered.      *)
LEMMA FreshWrite ==
  ASSUME SerialInv, NEW v \in Workflow, NEW status, NEW step, WriteWorkflow(v, status, step),
         \A w \in Workflow : w # v => fresh'[w] = fresh[w],
         status \in {"IN_PROGRESS", "SENT_BACK"} => SignedUpTo(v, step - 1, fresh)',
         status = "APPROVED" => FullySigned(v, fresh)'
  PROVE  FreshCovered'
<1> USE DEF SerialInv, IInv
<1>1. /\ workflow'[v].status = status /\ workflow'[v].step = step
      /\ \A w \in Workflow : w # v => workflow'[w] = workflow[w]
  BY DEF WriteWorkflow, TypeOK, WorkflowRow
<1>2. FreshAt(v)'
  <2>1. SignedUpTo(v, workflow[v].step - 1, fresh)' <=> SignedUpTo(v, step - 1, fresh)'
    BY <1>1 DEF SignedUpTo
  <2> QED
    BY <1>1, <2>1 DEF FreshAt
<1>3. \A w \in Workflow : w # v => FreshAt(w)'
  BY <1>1, FreshKept DEF FreshCovered
<1> QED
  BY <1>2, <1>3 DEF FreshCovered

----------------------------------------------------------------------------
(* The decider's snapshot is the row, so its workflow is active.           *)
LEMMA DeciderActive ==
  ASSUME SerialInv, NEW sl \in Slot, NEW r, r = req[sl], r.op = "act", r.action # "COMMENT"
  PROVE  /\ r.wf \in Workflow /\ r.actor \in Actor /\ r.step \in Nat
         /\ Active(r.wf) /\ workflow[r.wf].student \in Student
         /\ request[r.wf] = "PENDING"
         /\ SignedUpTo(r.wf, r.step - 1, fresh)
         /\ \A w \in Workflow : Active(w) /\ w # r.wf => workflow[w].student # workflow[r.wf].student
<1> USE DEF SerialInv, IInv
<1>1. /\ r.wf \in Workflow /\ r.actor \in Actor /\ r.step \in 1 .. Len(Steps(r.wf))
      /\ workflow[r.wf].student \in Student
  BY DeciderShape
<1>2. Len(Steps(r.wf)) \in Nat
  BY <1>1, StepsShape
<1>3. r.step = workflow[r.wf].step /\ r.step # 0
  BY <1>1, <1>2 DEF SnapshotsCurrent, SnapshotCurrent
<1>4. workflow[r.wf].status \in {"IN_PROGRESS", "SENT_BACK"}
  BY <1>1, <1>3 DEF RowsCovered, Covered
<1>5. Active(r.wf)
  BY <1>3, <1>4 DEF Active
<1>6. request[r.wf] = "PENDING"
  BY <1>1, <1>4, RequestIs DEF OpenStatus
<1>7. SignedUpTo(r.wf, r.step - 1, fresh)
  BY <1>1, <1>3, <1>4 DEF FreshCovered, FreshAt
<1> QED
  BY <1>1, <1>2, <1>5, <1>6, <1>7 DEF OneActiveWorkflow

(* Stamp moves the students it names and nobody else.                      *)
LEMMA StampMoves ==
  ASSUME TypeOK, NEW who \in Student, NEW stage, NEW status,
         student' = Stamp(student, {who}, stage, status)
  PROVE  /\ student'[who].stage = stage
         /\ \A s \in Student : s # who => student'[s].stage = student[s].stage
<1>1. /\ student'[who] = [student[who] EXCEPT !.stage = stage, !.status = status]
      /\ \A s \in Student : s # who => student'[s] = student[s]
  BY DEF Stamp, TypeOK
<1>2. student[who] \in [stage : Stage, status : Status, deleted : BOOLEAN]
  BY DEF TypeOK, StudentRow
<1> QED
  BY <1>1, <1>2

(* With the new row the step read is signed since the last SEND_BACK too.   *)
LEMMA SignFresh ==
  ASSUME SerialInv, NEW sl \in Slot, NEW r, r = req[sl], r.op = "act", r.action = "APPROVE",
         NEW status, NEW step, WriteWorkflow(r.wf, status, step), Sign(r.wf, r.step, r.actor)
  PROVE  /\ SignedUpTo(r.wf, r.step, fresh)'
         /\ \A w \in Workflow : w # r.wf => fresh'[w] = fresh[w]
<1> USE DEF SerialInv
<1>1. /\ r.wf \in Workflow /\ r.actor \in Actor
      /\ r.step \in 1 .. Len(Steps(r.wf))
      /\ CanReach(r.actor, SchoolOf[workflow[r.wf].student])
      /\ Entitled(r.actor, Steps(r.wf)[r.step])
  BY DeciderShape
<1>2. SignedUpTo(r.wf, r.step - 1, fresh)
  BY DeciderActive
<1>3. /\ workflow'[r.wf].student = workflow[r.wf].student
      /\ Steps(r.wf)' = Steps(r.wf) /\ Len(Steps(r.wf)) \in Nat
  BY <1>1, WriteKeepsSteps, StepsShape DEF IInv
<1>4. /\ \A w \in Workflow : fresh[w] \subseteq fresh'[w]
      /\ \A w \in Workflow : w # r.wf => fresh'[w] = fresh[w]
      /\ <<r.step, r.actor>> \in fresh'[r.wf]
  BY <1>1, <1>3 DEF Sign, IInv, TypeOK
<1>5. ASSUME NEW i \in 1 .. Len(Steps(r.wf)), i <= r.step
      PROVE  SignedBy(r.wf, i, fresh)'
  <2>1. CASE i = r.step
    BY <1>1, <1>3, <1>4, <2>1 DEF SignedBy, CanReach, Entitled
  <2>2. CASE i # r.step
    <3>1. i <= r.step - 1
      BY <1>1, <1>3, <1>5, <2>2
    <3>2. SignedBy(r.wf, i, fresh)
      BY <1>2, <3>1, <1>5 DEF SignedUpTo
    <3> QED
      BY <1>1, <1>3, <1>4, <3>2 DEF SignedBy, CanReach, Entitled
  <2> QED
    BY <2>1, <2>2
<1> QED
  BY <1>3, <1>4, <1>5 DEF SignedUpTo

Told == FreshCovered /\ OneActiveWorkflow /\ RequestAndStageFollow

LEMMA ApproveStepSerial ==
  ASSUME SerialInv, NEW sl \in Slot, CommitApproveStep(sl)
  PROVE  Told'
<1>0. PICK r : r = req[sl]
  OBVIOUS
<1>1. /\ r.op = "act" /\ r.action = "APPROVE"
      /\ WriteWorkflow(r.wf, "IN_PROGRESS", r.step + 1)
      /\ student' = [student EXCEPT ![workflow[r.wf].student].stage =
                                       "AWAITING_INSTITUTION_APPROVAL"]
      /\ Sign(r.wf, r.step, r.actor)
      /\ request' = request
  BY <1>0 DEF CommitApproveStep, CommitsAction
<1>2. /\ r.wf \in Workflow /\ r.step \in Nat /\ Active(r.wf)
      /\ workflow[r.wf].student \in Student /\ request[r.wf] = "PENDING"
  BY <1>0, <1>1, DeciderActive
<1>3. /\ student'[workflow[r.wf].student].stage = StageOf("IN_PROGRESS")
      /\ \A s \in Student : s # workflow[r.wf].student => student'[s].stage = student[s].stage
  BY <1>1, <1>2 DEF SerialInv, IInv, TypeOK, StudentRow, StageOf
<1>4. OneActiveWorkflow' /\ RequestAndStageFollow'
  BY <1>1, <1>2, <1>3, ActiveWrite DEF ClosedStatus
<1>5. SignedUpTo(r.wf, r.step, fresh)' /\ \A w \in Workflow : w # r.wf => fresh'[w] = fresh[w]
  BY <1>0, <1>1, SignFresh
<1>6. (r.step + 1) - 1 = r.step
  BY <1>2
<1>7. FreshCovered'
  BY <1>1, <1>2, <1>5, <1>6, FreshWrite
<1> QED
  BY <1>4, <1>7 DEF Told

LEMMA ApproveLastSerial ==
  ASSUME SerialInv, NEW sl \in Slot, CommitApproveLast(sl)
  PROVE  Told'
<1>0. PICK r : r = req[sl]
  OBVIOUS
<1>1. /\ r.op = "act" /\ r.action = "APPROVE"
      /\ r.step >= Len(Steps(r.wf))
      /\ WriteWorkflow(r.wf, "APPROVED", 0)
      /\ student' = Stamp(student, {workflow[r.wf].student}, "APPROVED_FOR_DESIGN", "SCHOOL_APPROVED")
      /\ Sign(r.wf, r.step, r.actor)
      /\ Decide(r.wf, "APPROVED")
  BY <1>0 DEF CommitApproveLast, CommitsAction
<1>2. /\ r.wf \in Workflow /\ r.step \in Nat /\ Active(r.wf)
      /\ workflow[r.wf].student \in Student /\ request[r.wf] = "PENDING"
  BY <1>0, <1>1, DeciderActive
<1>3. \A s \in Student : s # workflow[r.wf].student => student'[s].stage = student[s].stage
  BY <1>1, <1>2, StampMoves DEF SerialInv, IInv
<1>4. request'[r.wf] = "APPROVED" /\ \A w \in Workflow : w # r.wf => request'[w] = request[w]
  BY <1>1, <1>2 DEF Decide, SerialInv, IInv, TypeOK
<1>5. OneActiveWorkflow' /\ RequestAndStageFollow'
  BY <1>1, <1>2, <1>3, <1>4, ActiveWrite DEF ClosedStatus
<1>6. SignedUpTo(r.wf, r.step, fresh)' /\ \A w \in Workflow : w # r.wf => fresh'[w] = fresh[w]
  BY <1>0, <1>1, SignFresh
<1>7. FullySigned(r.wf, fresh)'
  <2>1. Len(Steps(r.wf)) \in Nat /\ Steps(r.wf)' = Steps(r.wf)
    BY <1>1, <1>2, StepsShape, WriteKeepsSteps DEF SerialInv, IInv
  <2>2. \A i \in 1 .. Len(Steps(r.wf)) : i <= r.step
    BY <1>1, <1>2, <2>1
  <2> QED
    BY <1>6, <2>1, <2>2 DEF FullySigned, SignedUpTo
<1>8. FreshCovered'
  BY <1>1, <1>2, <1>6, <1>7, FreshWrite
<1> QED
  BY <1>5, <1>8 DEF Told

LEMMA RejectSerial ==
  ASSUME SerialInv, NEW sl \in Slot, CommitReject(sl)
  PROVE  Told'
<1>0. PICK r : r = req[sl]
  OBVIOUS
<1>1. /\ r.op = "act" /\ r.action = "REJECT"
      /\ WriteWorkflow(r.wf, "REJECTED", 0)
      /\ student' = Stamp(student, {workflow[r.wf].student}, "REJECTED", "REJECTED")
      /\ Decide(r.wf, "REJECTED")
      /\ fresh' = fresh
  BY <1>0 DEF CommitReject, CommitsAction
<1>2. /\ r.wf \in Workflow /\ Active(r.wf)
      /\ workflow[r.wf].student \in Student /\ request[r.wf] = "PENDING"
  BY <1>0, <1>1, DeciderActive
<1>3. \A s \in Student : s # workflow[r.wf].student => student'[s].stage = student[s].stage
  BY <1>1, <1>2, StampMoves DEF SerialInv, IInv
<1>4. request'[r.wf] = "REJECTED" /\ \A w \in Workflow : w # r.wf => request'[w] = request[w]
  BY <1>1, <1>2 DEF Decide, SerialInv, IInv, TypeOK
<1>5. OneActiveWorkflow' /\ RequestAndStageFollow'
  BY <1>1, <1>2, <1>3, <1>4, ActiveWrite DEF ClosedStatus
<1>6. FreshCovered'
  BY <1>1, <1>2, FreshWrite
<1> QED
  BY <1>5, <1>6 DEF Told

LEMMA SendBackSerial ==
  ASSUME SerialInv, NEW sl \in Slot, CommitSendBack(sl)
  PROVE  Told'
<1>0. PICK r : r = req[sl]
  OBVIOUS
<1>1. /\ r.op = "act" /\ r.action = "SEND_BACK"
      /\ WriteWorkflow(r.wf, "SENT_BACK", 1)
      /\ student' = Stamp(student, {workflow[r.wf].student}, "SALES_CORRECTED", "SUBMITTED")
      /\ fresh' = [fresh EXCEPT ![r.wf] = {}]
      /\ request' = request
  BY <1>0 DEF CommitSendBack, CommitsAction
<1>2. /\ r.wf \in Workflow /\ Active(r.wf)
      /\ workflow[r.wf].student \in Student /\ request[r.wf] = "PENDING"
  BY <1>0, <1>1, DeciderActive
<1>3. /\ student'[workflow[r.wf].student].stage = StageOf("SENT_BACK")
      /\ \A s \in Student : s # workflow[r.wf].student => student'[s].stage = student[s].stage
  BY <1>1, <1>2, StampMoves DEF SerialInv, IInv, StageOf
<1>4. OneActiveWorkflow' /\ RequestAndStageFollow'
  BY <1>1, <1>2, <1>3, ActiveWrite DEF ClosedStatus
<1>5. SignedUpTo(r.wf, 1 - 1, fresh)'
  BY DEF SignedUpTo
<1>6. \A w \in Workflow : w # r.wf => fresh'[w] = fresh[w]
  BY <1>1 DEF SerialInv, IInv, TypeOK
<1>7. FreshCovered'
  BY <1>1, <1>2, <1>5, <1>6, FreshWrite
<1> QED
  BY <1>4, <1>7 DEF Told

(* A comment writes back what is there.                                    *)
LEMMA CommentSerial ==
  ASSUME SerialInv, NEW sl \in Slot, CommitComment(sl)
  PROVE  TablesSame
<1> DEFINE r == req[sl]
<1>1. r.status = workflow[r.wf].status /\ r.step = workflow[r.wf].step /\ r.wf \in Workflow
  BY ActingShape DEF CommitComment, CommitsAction, SerialInv, IInv, SnapshotsCurrent, SnapshotCurrent,
                     Acting
<1>2. workflow' = [workflow EXCEPT ![r.wf].status = r.status, ![r.wf].step = r.step]
  BY DEF CommitComment, WriteWorkflow
<1>3. workflow[r.wf] \in [student : Student, chain : Chain, status : WorkflowStatus, step : Nat]
  BY <1>1 DEF SerialInv, IInv, TypeOK, WorkflowRow
<1>4. [workflow[r.wf] EXCEPT !.status = r.status, !.step = r.step] = workflow[r.wf]
  BY <1>1, <1>3
<1>5. workflow' = workflow
  BY <1>1, <1>2, <1>4 DEF SerialInv, IInv, TypeOK
<1> QED
  BY <1>5 DEF CommitComment, TablesSame

----------------------------------------------------------------------------
(* A start puts every workflow of the student that was active on hold.     *)
LEMMA StartSerial ==
  ASSUME SerialInv, NEW sl \in Slot, CommitStart(sl)
  PROVE  Told'
<1> USE DEF SerialInv, IInv
<1>a. PICK r : r = req[sl]
  OBVIOUS
<1>0. PICK new \in Workflow :
        /\ r.op = "restart" /\ workflow[new].status = "NONE"
        /\ workflow' = [w \in Workflow |->
             IF w = new
               THEN [student |-> r.student, chain |-> r.chain,
                     status |-> "IN_PROGRESS", step |-> 1]
             ELSE IF w \in r.open
               THEN PutOnHold(workflow[w])
             ELSE workflow[w]]
        /\ request' = [request EXCEPT ![new] = "PENDING"]
        /\ student' = Stamp(student, {r.student}, "AWAITING_INSTITUTION_APPROVAL",
                            StatusAfterStart(r.status))
        /\ fresh' = fresh
  BY <1>a DEF CommitStart
<1>1. r.student \in Student /\ r.open = OpenWorkflows(r.student)
  BY <1>a, <1>0, RestartShape DEF StartScanned, SnapshotsCurrent, SnapshotCurrent
<1>2. /\ workflow'[new].student = r.student
      /\ workflow'[new].status = "IN_PROGRESS" /\ workflow'[new].step = 1
  BY <1>0
<1>3. ASSUME NEW w \in Workflow, w # new
      PROVE  \/ /\ w \in r.open
                /\ workflow'[w].student = workflow[w].student
                /\ workflow'[w].status = "ON_HOLD" /\ workflow'[w].step = 0
                /\ workflow[w].status \in OpenStatus
             \/ w \notin r.open /\ workflow'[w] = workflow[w]
  BY <1>0, <1>1, <1>3 DEF PutOnHold, OpenWorkflows
<1>4. ASSUME NEW w \in Workflow, w # new, Active(w)'
      PROVE  workflow'[w] = workflow[w] /\ Active(w) /\ workflow[w].student # r.student
  <2>1. w \notin r.open /\ workflow'[w] = workflow[w]
    BY <1>3, <1>4 DEF Active
  <2>2. Active(w)
    BY <1>4, <2>1 DEF Active
  <2>3. workflow[w].status \in OpenStatus
    BY <2>2, ActiveStatus DEF OpenStatus
  <2> QED
    BY <1>1, <2>1, <2>2, <2>3 DEF OpenWorkflows
<1>5. OneActiveWorkflow'
  <2> SUFFICES ASSUME NEW v \in Workflow, NEW w \in Workflow, Active(v)', Active(w)',
                      workflow'[v].student = workflow'[w].student
      PROVE  v = w
    BY DEF OneActiveWorkflow
  <2>1. CASE v = new \/ w = new
    BY <1>2, <1>4, <2>1
  <2>2. CASE v # new /\ w # new
    BY <1>4, <2>2 DEF OneActiveWorkflow
  <2> QED
    BY <2>1, <2>2
<1>6. ASSUME NEW w \in Workflow
      PROVE  request'[w] = CASE workflow'[w].status = "NONE" -> "NONE"
                             [] workflow'[w].status \in ClosedStatus -> workflow'[w].status
                             [] OTHER -> "PENDING"
  <2>1. CASE w = new
    BY <1>0, <1>2, <2>1 DEF ClosedStatus, TypeOK
  <2>2. CASE w # new
    <3>1. request'[w] = request[w]
      BY <1>0, <2>2 DEF TypeOK
    <3>2. CASE w \in r.open
      <4>1. request[w] = "PENDING" /\ workflow'[w].status = "ON_HOLD"
        BY <1>3, <2>2, <3>2, RequestIs
      <4> QED
        BY <3>1, <4>1 DEF ClosedStatus
    <3>3. CASE w \notin r.open
      BY <1>3, <2>2, <3>1, <3>3 DEF RequestAndStageFollow
    <3> QED
      BY <3>2, <3>3
  <2> QED
    BY <2>1, <2>2
<1>7. ASSUME NEW w \in Workflow, Active(w)'
      PROVE  student'[workflow'[w].student].stage = StageOf(workflow'[w].status)
  <2>0. /\ student'[r.student].stage = "AWAITING_INSTITUTION_APPROVAL"
        /\ \A s \in Student : s # r.student => student'[s].stage = student[s].stage
    BY <1>0, <1>1, StampMoves
  <2>1. CASE w = new
    BY <1>2, <2>0, <2>1 DEF StageOf
  <2>2. CASE w # new
    <3>1. workflow'[w] = workflow[w] /\ Active(w) /\ workflow[w].student # r.student
      BY <1>4, <1>7, <2>2
    <3>2. workflow[w].student \in Student
      BY DEF TypeOK, WorkflowRow
    <3> QED
      BY <2>0, <3>1, <3>2, FollowIs
  <2> QED
    BY <2>1, <2>2
<1>8. RequestAndStageFollow'
  BY <1>6, <1>7 DEF RequestAndStageFollow, StageOf
<1>9. ASSUME NEW w \in Workflow
      PROVE  FreshAt(w)'
  <2>1. CASE w = new
    <3>1. SignedUpTo(w, workflow[w].step - 1, fresh)'
      BY <1>2, <2>1 DEF SignedUpTo
    <3> QED
      BY <1>2, <2>1, <3>1 DEF FreshAt
  <2>2. CASE w # new /\ w \in r.open
    BY <1>3, <2>2 DEF FreshAt
  <2>3. CASE w # new /\ w \notin r.open
    <3>1. workflow'[w] = workflow[w] /\ fresh'[w] = fresh[w]
      BY <1>0, <1>3, <2>3
    <3> QED
      BY <3>1, FreshKept DEF FreshCovered
  <2> QED
    BY <2>1, <2>2, <2>3
<1> QED
  BY <1>5, <1>8, <1>9 DEF Told, FreshCovered

----------------------------------------------------------------------------
LEMMA SerialInit == OneAtATime /\ Init => SerialInv
<1> SUFFICES ASSUME OneAtATime, Init PROVE SerialInv
  OBVIOUS
<1>1. IInv
  BY InitEstablishes
<1>2. \A w \in Workflow : workflow[w].status = "NONE" /\ workflow[w].step = 0
  BY DEF Init, NoWorkflow
<1>3. SnapshotsCurrent
  BY DEF Init, SnapshotsCurrent, SnapshotCurrent, Idle
<1>4. FreshCovered /\ OneActiveWorkflow
  BY <1>2 DEF FreshCovered, FreshAt, OneActiveWorkflow, Active
<1>5. RequestAndStageFollow
  BY <1>2 DEF Init, RequestAndStageFollow, Active
<1> QED
  BY <1>1, <1>3, <1>4, <1>5 DEF SerialInv

LEMMA ToldStep ==
  ASSUME SerialInv, [Next]_vars
  PROVE  Told'
<1>1. CASE TablesSame
  BY <1>1, TablesSameSerial DEF Told
<1>2. CASE ~TablesSame
  <2>1. PICK sl \in Slot : HandlerStep(sl)
    BY <1>2 DEF Next, vars, TablesSame, ReadForStart, BeginAct, ProcessRestart
  <2>2. ~(ScanOpen(sl) \/ ReadWorkflow(sl) \/ RefuseWorkflow(sl))
    BY <1>2 DEF TablesSame, ScanOpen, ReadWorkflow, RefuseWorkflow
  <2> QED
    BY <1>2, <2>1, <2>2, ApproveStepSerial, ApproveLastSerial, RejectSerial, SendBackSerial,
       CommentSerial, StartSerial DEF HandlerStep
<1> QED
  BY <1>1, <1>2

LEMMA SerialKeeps == SerialInv /\ [Next]_vars => SerialInv'
<1> SUFFICES ASSUME SerialInv, [Next]_vars PROVE SerialInv'
  OBVIOUS
<1>1. IInv' /\ SnapshotsCurrent'
  BY NextKeeps, SnapshotsStep DEF SerialInv
<1>2. FreshCovered' /\ OneActiveWorkflow' /\ RequestAndStageFollow'
  BY ToldStep DEF Told
<1>3. OneAtATime'
  BY DEF SerialInv, OneAtATime
<1> QED
  BY <1>1, <1>2, <1>3 DEF SerialInv

LEMMA SerialAlways == OneAtATime /\ Spec => []SerialInv
BY SerialInit, SerialKeeps, PTL DEF Spec

(* "Student already has an active approval workflow": requests one at a    *)
(* time leave one workflow of a student waiting for approvers.             *)
THEOREM OneWorkflowIsActive == OneAtATime /\ Spec => []OneActiveWorkflow
<1>1. SerialInv => OneActiveWorkflow
  BY DEF SerialInv
<1> QED
  BY <1>1, SerialAlways, PTL

(* Requests one at a time: what is APPROVED was signed by the whole chain   *)
(* since it was last sent back.                                            *)
THEOREM SignedSinceSendBack == OneAtATime /\ Spec => []ApprovedSinceSendBack
<1>1. SerialInv => ApprovedSinceSendBack
  BY DEF SerialInv, FreshCovered, FreshAt, ApprovedSinceSendBack
<1> QED
  BY <1>1, SerialAlways, PTL

(* Requests one at a time, and wherever a bulk call is cut off: approval    *)
(* request and student stage say what the workflow says.                   *)
THEOREM RequestAndStageTellTheTruth == OneAtATime /\ Spec => []RequestAndStageFollow
<1>1. SerialInv => RequestAndStageFollow
  BY DEF SerialInv
<1> QED
  BY <1>1, SerialAlways, PTL

(* "Workflow is already closed": with requests one at a time nothing        *)
(* reopens a closed workflow or turns its decision round.                  *)
THEOREM ClosedIsFinal == OneAtATime /\ Spec => ClosedStaysClosed
<1>1. SerialInv /\ [Next]_vars =>
        [\A w \in Workflow :
           workflow[w].status \in ClosedStatus => workflow'[w].status = workflow[w].status]_vars
  <2> SUFFICES ASSUME SerialInv, Next, NEW w \in Workflow, workflow[w].status \in ClosedStatus
      PROVE  workflow'[w].status = workflow[w].status
    OBVIOUS
  <2> USE DEF SerialInv
  <2>1. CASE workflow' = workflow
    BY <2>1
  <2>2. ASSUME NEW sl \in Slot, NEW status, NEW step,
               req[sl].op = "act", req[sl].action # "COMMENT", WriteWorkflow(req[sl].wf, status, step)
        PROVE  workflow'[w].status = workflow[w].status
    <3>1. req[sl].wf \in Workflow /\ Active(req[sl].wf)
      BY <2>2, DeciderActive
    <3>2. workflow[req[sl].wf].status \notin ClosedStatus
      BY <3>1, ActiveStatus DEF ClosedStatus
    <3> QED
      BY <2>2, <3>2 DEF WriteWorkflow, IInv, TypeOK
  <2>3. ASSUME NEW sl \in Slot, CommitStart(sl)
        PROVE  workflow'[w].status = workflow[w].status
    <3>1. req[sl].open = OpenWorkflows(req[sl].student)
      BY <2>3 DEF CommitStart, SnapshotsCurrent, SnapshotCurrent
    <3>2. w \notin req[sl].open /\ workflow[w].status # "NONE"
      BY <3>1 DEF OpenWorkflows, OpenStatus, ClosedStatus
    <3> QED
      BY <2>3, <3>2 DEF CommitStart
  <2>4. ASSUME NEW sl \in Slot, CommitComment(sl)
        PROVE  workflow'[w].status = workflow[w].status
    BY <2>4, CommentSerial DEF TablesSame
  <2>5. ASSUME NEW sl \in Slot,
               CommitApproveStep(sl) \/ CommitApproveLast(sl) \/ CommitReject(sl) \/ CommitSendBack(sl)
        PROVE  workflow'[w].status = workflow[w].status
    BY <2>2, <2>5 DEF CommitApproveStep, CommitApproveLast, CommitReject, CommitSendBack, CommitsAction
  <2> QED
    BY <2>1, <2>3, <2>4, <2>5 DEF Next, HandlerStep, ReadForStart, BeginAct, ProcessRestart, ScanOpen,
       ReadWorkflow, RefuseWorkflow
<1> QED
  BY <1>1, SerialAlways, PTL DEF Spec, ClosedStaysClosed
=============================================================================
