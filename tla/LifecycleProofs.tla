--------------------------- MODULE LifecycleProofs ---------------------------
(***************************************************************************)
(* Proofs about StudentLifecycle: three desks over one Student table.      *)
(*                                                                         *)
(* However many requests overlap (SharedInv): the approval workflows keep  *)
(* their rows covered by signatures (SignaturesInv) and the print line its *)
(* rows in place (PressInv), whatever the other desks do to the students,  *)
(* so that a stage written by the approval desk or by the print line says  *)
(* what became of the student there.                                       *)
(*                                                                         *)
(* With one request in flight (SerialInv) the others are idle before and   *)
(* after each step, so what a request has read is still so when it writes: *)
(* that gives the stages of active workflows, the decided statuses and one *)
(* card at a time.                                                         *)
(***************************************************************************)
EXTENDS StudentLifecycle, Sequences, FiniteSetTheorems, TLAPS

----------------------------------------------------------------------------
(* The approval workflows, whatever else happens to their students         *)

(* What the status and the step of a row, or of a snapshot of it, promise  *)
(* about the signatures of the workflow.                                   *)
Covered(w, status, step) ==
  /\ IF status \in {"IN_PROGRESS", "SENT_BACK"}
       THEN /\ step \in 1 .. Len(Approvals!Steps(w))
            /\ Approvals!SignedUpTo(w, step - 1, signed)
       ELSE step = 0
  /\ status = "APPROVED" => Approvals!FullySigned(w, signed)

RowsCovered == \A w \in Workflow : Covered(w, workflow[w].status, workflow[w].step)

(* A request about to write knows an existing workflow, a covered snapshot *)
(* of it and, unless it comments, the actor's right to the step it saw.    *)
SnapshotCovered(r) ==
  /\ workflow[r.wf].status # "NONE"
  /\ r.status # "NONE"
  /\ Covered(r.wf, r.status, r.step)
  /\ Approvals!CanReach(r.actor, SchoolOf[workflow[r.wf].student])
  /\ r.action # "COMMENT" =>
       /\ r.step # 0
       /\ Approvals!Entitled(r.actor, Approvals!Steps(r.wf)[r.step])

SnapshotsCovered == \A sl \in Slot : req[sl].op = "act" => SnapshotCovered(req[sl])

WorkflowRows ==
  /\ workflow \in [Workflow -> Approvals!WorkflowRow]
  /\ signed \in [Workflow -> SUBSET (Nat \X Actor)]
  /\ req \in [Slot -> Approvals!Request]

SignaturesInv == WorkflowRows /\ RowsCovered /\ SnapshotsCovered

(* A workflow that exists keeps its student, its chain and its signatures. *)
Kept(w) ==
  workflow[w].status # "NONE" =>
    /\ workflow'[w].status # "NONE"
    /\ workflow'[w].student = workflow[w].student
    /\ workflow'[w].chain = workflow[w].chain
    /\ signed[w] \subseteq signed'[w]

LEMMA ChainHasSteps ==
  ASSUME WorkflowRows, NEW w \in Workflow
  PROVE  /\ Approvals!Steps(w) \in Seq(Approvals!StepRole)
         /\ Len(Approvals!Steps(w)) \in Nat
         /\ Len(Approvals!Steps(w)) >= 1
  BY LifecycleAssumption
     DEF Approvals!ChainAssumption, WorkflowRows, Approvals!Steps,
         Approvals!WorkflowRow

LEMMA SignedUpToKept ==
  ASSUME NEW w \in Workflow, workflow[w].status # "NONE", Kept(w), NEW n,
         Approvals!SignedUpTo(w, n, signed)
  PROVE  Approvals!SignedUpTo(w, n, signed)'
  BY DEF Kept, Approvals!SignedUpTo, Approvals!SignedBy, Approvals!Steps

LEMMA FullySignedKept ==
  ASSUME NEW w \in Workflow, workflow[w].status # "NONE", Kept(w),
         Approvals!FullySigned(w, signed)
  PROVE  Approvals!FullySigned(w, signed)'
  <1>1. Approvals!Steps(w)' = Approvals!Steps(w)
        BY DEF Kept, Approvals!Steps
  <1> QED BY <1>1, SignedUpToKept DEF Approvals!FullySigned

LEMMA CoveredKept ==
  ASSUME NEW w \in Workflow, workflow[w].status # "NONE", Kept(w),
         NEW status, NEW step, Covered(w, status, step)
  PROVE  Covered(w, status, step)'
  <1>1. Approvals!Steps(w)' = Approvals!Steps(w)
        BY DEF Kept, Approvals!Steps
  <1>2. Approvals!SignedUpTo(w, step - 1, signed) => Approvals!SignedUpTo(w, step - 1, signed)'
        BY SignedUpToKept
  <1> QED BY <1>1, <1>2, FullySignedKept DEF Covered

LEMMA SnapshotKept ==
  ASSUME NEW r, r.wf \in Workflow, Kept(r.wf), SnapshotCovered(r)
  PROVE  SnapshotCovered(r)'
  <1>1. workflow[r.wf].status # "NONE"
        BY DEF SnapshotCovered
  <1>2. Covered(r.wf, r.status, r.step)'
        BY <1>1, CoveredKept DEF SnapshotCovered
  <1> QED BY <1>1, <1>2
             DEF SnapshotCovered, Kept, Approvals!Steps, Approvals!CanReach,
                 Approvals!Entitled

----------------------------------------------------------------------------
LEMMA ActingShape ==
  ASSUME WorkflowRows, NEW sl \in Slot, req[sl].op = "act"
  PROVE  /\ req[sl] \in Approvals!Acting
         /\ req[sl].wf \in Workflow /\ req[sl].actor \in Actor
         /\ req[sl].todo \subseteq Workflow
  BY DEF WorkflowRows, Approvals!Request, Approvals!Idle, Approvals!StartRead,
         Approvals!StartScanned, Approvals!Picking, Approvals!Acting

LEMMA PickingShape ==
  ASSUME WorkflowRows, NEW sl \in Slot, req[sl].op = "pick"
  PROVE  req[sl] \in Approvals!Picking
  BY DEF WorkflowRows, Approvals!Request, Approvals!Idle, Approvals!StartRead,
         Approvals!StartScanned, Approvals!Picking, Approvals!Acting

LEMMA StartShape ==
  ASSUME WorkflowRows, NEW sl \in Slot, req[sl].op = "start"
  PROVE  req[sl] \in Approvals!StartRead
  BY DEF WorkflowRows, Approvals!Request, Approvals!Idle, Approvals!StartRead,
         Approvals!StartScanned, Approvals!Picking, Approvals!Acting

LEMMA RestartShape ==
  ASSUME WorkflowRows, NEW sl \in Slot, req[sl].op = "restart"
  PROVE  /\ req[sl] \in Approvals!StartScanned
         /\ req[sl].student \in Student /\ req[sl].chain \in Chain
         /\ req[sl].status \in Approvals!Status
  BY DEF WorkflowRows, Approvals!Request, Approvals!Idle, Approvals!StartRead,
         Approvals!StartScanned, Approvals!Picking, Approvals!Acting

LEMMA IdleIsRequest ==
  Approvals!Idle \in Approvals!Request /\ Approvals!Idle.op \notin {"act", "start", "restart"}
  BY DEF Approvals!Request, Approvals!Idle

LEMMA RestIsRequest ==
  ASSUME NEW r \in Approvals!Picking \cup Approvals!Acting, NEW left \in SUBSET Workflow
  PROVE  /\ Approvals!Rest(r, left) \in Approvals!Request
         /\ Approvals!Rest(r, left).op \notin {"act", "start", "restart"}
  <1>1. CASE left = {}
        BY <1>1, IdleIsRequest DEF Approvals!Rest
  <1>2. CASE left # {}
        <2>1. Approvals!Rest(r, left) = [op |-> "pick", actor |-> r.actor, action |-> r.action,
                               todo |-> left, goOn |-> r.goOn]
              BY <1>2 DEF Approvals!Rest
        <2>2. [op |-> "pick", actor |-> r.actor, action |-> r.action,
               todo |-> left, goOn |-> r.goOn] \in Approvals!Picking
              BY DEF Approvals!Picking, Approvals!Acting
        <2> QED BY <2>1, <2>2 DEF Approvals!Request
  <1> QED BY <1>1, <1>2

----------------------------------------------------------------------------
(* The rows after a step: those that exist are kept, those that are written *)
(* are covered, and so is what a request has newly read.                   *)
LEMMA SignaturesKept ==
  ASSUME SignaturesInv, WorkflowRows',
         \A w \in Workflow : Kept(w),
         \A w \in Workflow : \/ workflow'[w] = workflow[w] /\ workflow[w].status # "NONE"
                             \/ Covered(w, workflow[w].status, workflow[w].step)',
         \A o \in Slot : req'[o].op = "act" => req'[o] = req[o] \/ SnapshotCovered(req[o])'
  PROVE  SignaturesInv'
  <1>1. RowsCovered'
        <2> SUFFICES ASSUME NEW w \in Workflow,
                            workflow'[w] = workflow[w], workflow[w].status # "NONE"
                     PROVE  Covered(w, workflow[w].status, workflow[w].step)'
            BY DEF RowsCovered
        <2> PICK row : row = workflow[w]
            OBVIOUS
        <2>1. Covered(w, row.status, row.step)
              BY DEF SignaturesInv, RowsCovered
        <2>2. Covered(w, row.status, row.step)'
              BY <2>1, CoveredKept
        <2> QED BY <2>2
  <1>2. SnapshotsCovered'
        <2> SUFFICES ASSUME NEW o \in Slot, NEW r, r = req'[o], r.op = "act"
                     PROVE  SnapshotCovered(r)'
            BY DEF SnapshotsCovered
        <2>1. CASE r = req[o]
              <3>1. r.wf \in Workflow /\ SnapshotCovered(r)
                    BY <2>1, ActingShape DEF SignaturesInv, SnapshotsCovered
              <3> QED BY <3>1, SnapshotKept
        <2>2. CASE SnapshotCovered(req[o])'
              BY <2>2
        <2> QED BY <2>1, <2>2
  <1> QED BY <1>1, <1>2 DEF SignaturesInv

(* Steps that write no workflow, and whose request is not about to.        *)
LEMMA QuietSlot ==
  ASSUME SignaturesInv, workflow' = workflow, signed' = signed,
         NEW sl \in Slot, NEW q \in Approvals!Request, req' = [req EXCEPT ![sl] = q],
         q.op = "act" => SnapshotCovered(q)
  PROVE  SignaturesInv' /\ \A w \in Workflow : Kept(w)
  <1>1. \A w \in Workflow : Kept(w)
        BY DEF Kept
  <1>2. WorkflowRows'
        BY DEF SignaturesInv, WorkflowRows
  <1>3. ASSUME NEW w \in Workflow
        PROVE  Covered(w, workflow[w].status, workflow[w].step)'
        <2>1. Covered(w, workflow[w].status, workflow[w].step)
              BY DEF SignaturesInv, RowsCovered
        <2> QED BY <2>1
                   DEF Covered, Approvals!FullySigned, Approvals!SignedUpTo,
                       Approvals!SignedBy, Approvals!Steps
  <1>4. ASSUME NEW o \in Slot, req'[o].op = "act"
        PROVE  req'[o] = req[o] \/ SnapshotCovered(req[o])'
        <2>1. CASE o # sl
              BY <2>1 DEF SignaturesInv, WorkflowRows
        <2>2. CASE o = sl
              <3>1. req'[o] = q
                    BY <2>2 DEF SignaturesInv, WorkflowRows
              <3>2. q.op = "act"
                    BY <1>4, <3>1
              <3>3. q \in Approvals!Acting /\ q.wf \in Workflow
                    BY <3>2
                       DEF Approvals!Request, Approvals!Idle, Approvals!StartRead,
                           Approvals!StartScanned, Approvals!Picking,
                           Approvals!Acting
              <3>4. SnapshotCovered(q)'
                    BY <1>1, <3>2, <3>3, SnapshotKept
              <3> QED BY <3>1, <3>4
        <2> QED BY <2>1, <2>2
  <1> QED BY <1>1, <1>2, <1>3, <1>4, SignaturesKept

LEMMA ReadingSigned ==
  ASSUME SignaturesInv, student \in [Student -> Approvals!StudentRow], NEW sl \in Slot,
         \/ Approvals!ReadForStart(sl) \/ Approvals!ScanOpen(sl) \/ Approvals!BeginAct(sl)
         \/ Approvals!ReadWorkflow(sl) \/ Approvals!RefuseWorkflow(sl)
  PROVE  SignaturesInv' /\ \A w \in Workflow : Kept(w)
  <1> DEFINE Reads == \E q \in Approvals!Request : /\ req' = [req EXCEPT ![sl] = q]
                                                   /\ q.op = "act" => SnapshotCovered(q)
  <1> PICK r : r = req[sl]
      OBVIOUS
  <1>0. WorkflowRows
        BY DEF SignaturesInv
  <1>1. ASSUME Approvals!ReadForStart(sl) PROVE Reads
        <2>1. PICK a \in Actor, s \in Student, c \in Chain, force \in BOOLEAN :
                req' = [req EXCEPT ![sl] =
                         [op |-> "start", student |-> s, status |-> student[s].status,
                          chain |-> c, force |-> force]]
              BY <1>1 DEF Approvals!ReadForStart
        <2> PICK q : q = [op |-> "start", student |-> s, status |-> student[s].status,
                          chain |-> c, force |-> force]
            OBVIOUS
        <2>2. student[s].status \in Approvals!Status
              BY DEF Approvals!StudentRow
        <2>3. q \in Approvals!StartRead /\ q.op # "act"
              BY <2>2 DEF Approvals!StartRead
        <2>4. q \in Approvals!Request /\ req' = [req EXCEPT ![sl] = q]
              BY <2>1, <2>3 DEF Approvals!Request
        <2> QED BY <2>3, <2>4
  <1>2. ASSUME Approvals!ScanOpen(sl) PROVE Reads
        <2>1. r \in Approvals!StartRead
              BY <1>0, <1>2, StartShape DEF Approvals!ScanOpen
        <2> PICK open : open = Approvals!OpenWorkflows(r.student)
            OBVIOUS
        <2> PICK q : q = [op |-> "restart", student |-> r.student, status |-> r.status,
                          chain |-> r.chain, open |-> open]
            OBVIOUS
        <2>2. open \in SUBSET Workflow
              BY DEF Approvals!OpenWorkflows
        <2>3. q \in Approvals!StartScanned /\ q.op # "act"
              BY <2>1, <2>2 DEF Approvals!StartRead, Approvals!StartScanned
        <2>4. req' = [req EXCEPT ![sl] = Approvals!Idle] \/ req' = [req EXCEPT ![sl] = q]
              BY <1>2 DEF Approvals!ScanOpen
        <2>5. q \in Approvals!Request /\ Approvals!Idle \in Approvals!Request /\ Approvals!Idle.op # "act"
              BY <2>3, IdleIsRequest DEF Approvals!Request
        <2>6. CASE req' = [req EXCEPT ![sl] = Approvals!Idle]
              BY <2>5, <2>6
        <2>7. CASE req' = [req EXCEPT ![sl] = q]
              BY <2>3, <2>5, <2>7
        <2> QED BY <2>4, <2>6, <2>7
  <1>3. ASSUME Approvals!BeginAct(sl) PROVE Reads
        <2>1. PICK a \in Actor, act \in Approvals!Action, ids \in SUBSET Workflow, goOn \in BOOLEAN :
                req' = [req EXCEPT ![sl] =
                         [op |-> "pick", actor |-> a, action |-> act, todo |-> ids,
                          goOn |-> goOn]]
              BY <1>3 DEF Approvals!BeginAct
        <2> PICK q : q = [op |-> "pick", actor |-> a, action |-> act, todo |-> ids, goOn |-> goOn]
            OBVIOUS
        <2>2. q \in Approvals!Picking /\ q.op # "act"
              BY DEF Approvals!Picking
        <2>3. q \in Approvals!Request /\ req' = [req EXCEPT ![sl] = q]
              BY <2>1, <2>2 DEF Approvals!Request
        <2> QED BY <2>2, <2>3
  <1>4. ASSUME Approvals!ReadWorkflow(sl) PROVE Reads
        <2>1. PICK w \in Workflow :
                /\ Approvals!MayAct(r.actor, r.action, w)
                /\ req' = [req EXCEPT ![sl] =
                         [op |-> "act", actor |-> r.actor, action |-> r.action,
                          todo |-> r.todo \ {w}, goOn |-> r.goOn, wf |-> w,
                          status |-> workflow[w].status, step |-> workflow[w].step]]
              BY <1>4 DEF Approvals!ReadWorkflow
        <2> PICK q : q = [op |-> "act", actor |-> r.actor, action |-> r.action,
                          todo |-> r.todo \ {w}, goOn |-> r.goOn, wf |-> w,
                          status |-> workflow[w].status, step |-> workflow[w].step]
            OBVIOUS
        <2>2. r \in Approvals!Picking
              BY <1>0, <1>4, PickingShape DEF Approvals!ReadWorkflow
        <2>3. workflow[w] \in Approvals!WorkflowRow
              BY <1>0 DEF WorkflowRows
        <2>4. q \in Approvals!Acting
              BY <2>2, <2>3 DEF Approvals!Picking, Approvals!Acting, Approvals!WorkflowRow
        <2>5. SnapshotCovered(q)
              BY <2>1 DEF SnapshotCovered, Approvals!MayAct, SignaturesInv, RowsCovered
        <2> QED BY <2>1, <2>4, <2>5 DEF Approvals!Request
  <1>5. ASSUME Approvals!RefuseWorkflow(sl) PROVE Reads
        <2>1. PICK w \in Workflow :
                req' = [req EXCEPT ![sl] =
                         IF r.goOn THEN Approvals!Rest(r, r.todo \ {w}) ELSE Approvals!Idle]
              BY <1>5 DEF Approvals!RefuseWorkflow
        <2>2. r \in Approvals!Picking
              BY <1>0, <1>5, PickingShape DEF Approvals!RefuseWorkflow
        <2>3. r.todo \ {w} \in SUBSET Workflow
              BY <2>2 DEF Approvals!Picking
        <2>4. /\ Approvals!Rest(r, r.todo \ {w}) \in Approvals!Request
              /\ Approvals!Rest(r, r.todo \ {w}).op # "act"
              BY <2>2, <2>3, RestIsRequest
        <2> QED BY <2>1, <2>4, IdleIsRequest
  <1>6. PICK q \in Approvals!Request : /\ req' = [req EXCEPT ![sl] = q]
                                       /\ q.op = "act" => SnapshotCovered(q)
        BY <1>1, <1>2, <1>3, <1>4, <1>5
  <1>7. workflow' = workflow /\ signed' = signed
        BY DEF Approvals!ReadForStart, Approvals!ScanOpen, Approvals!BeginAct,
               Approvals!ReadWorkflow, Approvals!RefuseWorkflow
  <1> QED BY <1>6, <1>7, QuietSlot

----------------------------------------------------------------------------
(* The row of a workflow that an action writes                             *)
LEMMA RowWritten ==
  ASSUME WorkflowRows, NEW v \in Workflow, NEW status, NEW step,
         Approvals!WriteWorkflow(v, status, step)
  PROVE  /\ workflow'[v].student = workflow[v].student
         /\ workflow'[v].chain = workflow[v].chain
         /\ workflow'[v].status = status /\ workflow'[v].step = step
         /\ \A w \in Workflow : w # v => workflow'[w] = workflow[w]
         /\ \A w \in Workflow : Approvals!Steps(w)' = Approvals!Steps(w)
  <1>1. /\ workflow'[v] = [workflow[v] EXCEPT !.status = status, !.step = step]
        /\ \A w \in Workflow : w # v => workflow'[w] = workflow[w]
        BY DEF Approvals!WriteWorkflow, WorkflowRows
  <1>2. workflow[v] \in [student : Student, chain : Chain, status : Approvals!WorkflowStatus, step : Nat]
        BY DEF WorkflowRows, Approvals!WorkflowRow
  <1>3. /\ workflow'[v].student = workflow[v].student
        /\ workflow'[v].chain = workflow[v].chain
        /\ workflow'[v].status = status /\ workflow'[v].step = step
        BY <1>1, <1>2
  <1>4. ASSUME NEW w \in Workflow PROVE Approvals!Steps(w)' = Approvals!Steps(w)
        <2>1. workflow'[w].chain = workflow[w].chain
              BY <1>1, <1>3
        <2> QED BY <2>1 DEF Approvals!Steps
  <1> QED BY <1>1, <1>3, <1>4

LEMMA WriteSigned ==
  ASSUME SignaturesInv, NEW sl \in Slot, NEW r, r = req[sl], r.op = "act",
         NEW status \in Approvals!WorkflowStatus \ {"NONE"}, NEW step \in Nat,
         Approvals!WriteWorkflow(r.wf, status, step), Approvals!Done(sl),
         signed' \in [Workflow -> SUBSET (Nat \X Actor)],
         \A w \in Workflow : signed[w] \subseteq signed'[w],
         Covered(r.wf, status, step)'
  PROVE  SignaturesInv' /\ \A w \in Workflow : Kept(w)
  <1>0. WorkflowRows
        BY DEF SignaturesInv
  <1>1. r \in Approvals!Acting /\ r.wf \in Workflow /\ r.todo \subseteq Workflow
        BY <1>0, ActingShape
  <1>2. /\ workflow'[r.wf].student = workflow[r.wf].student
        /\ workflow'[r.wf].chain = workflow[r.wf].chain
        /\ workflow'[r.wf].status = status /\ workflow'[r.wf].step = step
        /\ \A w \in Workflow : w # r.wf => workflow'[w] = workflow[w]
        BY <1>0, <1>1, RowWritten
  <1>3. \A w \in Workflow : Kept(w)
        BY <1>2 DEF Kept
  <1>4. /\ req' \in [Slot -> Approvals!Request] /\ req'[sl].op # "act"
        /\ \A o \in Slot \ {sl} : req'[o] = req[o]
        <2>1. Approvals!Rest(r, r.todo) \in Approvals!Request /\ Approvals!Rest(r, r.todo).op # "act"
              BY <1>1, RestIsRequest
        <2> QED BY <1>0, <2>1 DEF Approvals!Done, WorkflowRows
  <1>5. workflow' \in [Workflow -> Approvals!WorkflowRow]
        BY <1>0, <1>1 DEF Approvals!WriteWorkflow, WorkflowRows, Approvals!WorkflowRow
  <1>6. WorkflowRows'
        BY <1>4, <1>5 DEF WorkflowRows
  <1>7. ASSUME NEW w \in Workflow
        PROVE  \/ workflow'[w] = workflow[w] /\ workflow[w].status # "NONE"
               \/ Covered(w, workflow[w].status, workflow[w].step)'
        <2>1. CASE w = r.wf
              BY <1>2, <2>1
        <2>2. CASE w # r.wf
              <3>1. workflow'[w] = workflow[w]
                    BY <1>2, <2>2
              <3>2. CASE workflow[w].status = "NONE"
                    <4>1. workflow[w].step = 0
                          BY <3>2 DEF SignaturesInv, RowsCovered, Covered
                    <4> QED BY <3>1, <3>2, <4>1 DEF Covered
              <3> QED BY <3>1, <3>2
        <2> QED BY <2>1, <2>2
  <1> QED BY <1>3, <1>4, <1>6, <1>7, SignaturesKept

(* What an APPROVE, REJECT or SEND_BACK about to be written can rely on.   *)
LEMMA DeciderKnows ==
  ASSUME SignaturesInv, NEW sl \in Slot, NEW r, r = req[sl], r.op = "act",
         r.action # "COMMENT"
  PROVE  /\ r.wf \in Workflow /\ r.actor \in Actor
         /\ workflow[r.wf].student \in Student /\ workflow[r.wf].status # "NONE"
         /\ r.step \in 1 .. Len(Approvals!Steps(r.wf))
         /\ Approvals!SignedUpTo(r.wf, r.step - 1, signed)
         /\ Approvals!CanReach(r.actor, SchoolOf[workflow[r.wf].student])
         /\ Approvals!Entitled(r.actor, Approvals!Steps(r.wf)[r.step])
  <1>1. r.wf \in Workflow /\ r.actor \in Actor
        BY ActingShape DEF SignaturesInv
  <1>2. workflow[r.wf].student \in Student
        BY <1>1 DEF SignaturesInv, WorkflowRows, Approvals!WorkflowRow
  <1>3. SnapshotCovered(r)
        BY DEF SignaturesInv, SnapshotsCovered
  <1> QED BY <1>1, <1>2, <1>3 DEF SnapshotCovered, Covered

(* With the new row the step read is signed as well.                       *)
LEMMA SignCovers ==
  ASSUME SignaturesInv, NEW sl \in Slot, NEW r, r = req[sl], r.op = "act",
         r.action = "APPROVE",
         NEW status, NEW step, Approvals!WriteWorkflow(r.wf, status, step),
         Approvals!Sign(r.wf, r.step, r.actor)
  PROVE  /\ Approvals!SignedUpTo(r.wf, r.step, signed)'
         /\ signed' \in [Workflow -> SUBSET (Nat \X Actor)]
         /\ \A w \in Workflow : signed[w] \subseteq signed'[w]
  <1>1. /\ r.wf \in Workflow /\ r.actor \in Actor
        /\ r.step \in 1 .. Len(Approvals!Steps(r.wf))
        /\ Approvals!SignedUpTo(r.wf, r.step - 1, signed)
        /\ Approvals!CanReach(r.actor, SchoolOf[workflow[r.wf].student])
        /\ Approvals!Entitled(r.actor, Approvals!Steps(r.wf)[r.step])
        BY DeciderKnows
  <1>2. /\ workflow'[r.wf].student = workflow[r.wf].student
        /\ Approvals!Steps(r.wf)' = Approvals!Steps(r.wf)
        BY <1>1, RowWritten DEF SignaturesInv
  <1>3. Len(Approvals!Steps(r.wf)) \in Nat
        BY <1>1, ChainHasSteps DEF SignaturesInv
  <1>4. /\ signed' \in [Workflow -> SUBSET (Nat \X Actor)]
        /\ \A w \in Workflow : signed[w] \subseteq signed'[w]
        /\ <<r.step, r.actor>> \in signed'[r.wf]
        BY <1>1, <1>3 DEF Approvals!Sign, SignaturesInv, WorkflowRows
  <1>5. ASSUME NEW i \in 1 .. Len(Approvals!Steps(r.wf)), i <= r.step
        PROVE  Approvals!SignedBy(r.wf, i, signed)'
        <2>1. CASE i = r.step
              BY <1>1, <1>2, <1>4, <2>1
                 DEF Approvals!SignedBy, Approvals!CanReach, Approvals!Entitled
        <2>2. CASE i # r.step
              <3>1. i <= r.step - 1
                    BY <1>1, <1>3, <1>5, <2>2
              <3>2. Approvals!SignedBy(r.wf, i, signed)
                    BY <1>1, <3>1, <1>5 DEF Approvals!SignedUpTo
              <3> QED BY <1>1, <1>2, <1>4, <3>2
                         DEF Approvals!SignedBy, Approvals!CanReach,
                             Approvals!Entitled
        <2> QED BY <2>1, <2>2
  <1>6. Approvals!SignedUpTo(r.wf, r.step, signed)'
        BY <1>2, <1>5 DEF Approvals!SignedUpTo
  <1> QED BY <1>4, <1>6

LEMMA ApproveStepSigned ==
  ASSUME SignaturesInv, NEW sl \in Slot, Approvals!CommitApproveStep(sl)
  PROVE  SignaturesInv' /\ \A w \in Workflow : Kept(w)
  <1> PICK r : r = req[sl]
      OBVIOUS
  <1>1. /\ r.op = "act" /\ r.action = "APPROVE"
        /\ r.step < Len(Approvals!Steps(r.wf))
        /\ Approvals!WriteWorkflow(r.wf, "IN_PROGRESS", r.step + 1)
        /\ Approvals!Sign(r.wf, r.step, r.actor)
        /\ Approvals!Done(sl)
        BY DEF Approvals!CommitApproveStep, Approvals!CommitsAction
  <1>2. r.wf \in Workflow /\ r.step \in 1 .. Len(Approvals!Steps(r.wf))
        BY <1>1, DeciderKnows
  <1>3. Len(Approvals!Steps(r.wf)) \in Nat /\ Approvals!Steps(r.wf)' = Approvals!Steps(r.wf)
        BY <1>1, <1>2, ChainHasSteps, RowWritten DEF SignaturesInv
  <1>4. /\ Approvals!SignedUpTo(r.wf, r.step, signed)'
        /\ signed' \in [Workflow -> SUBSET (Nat \X Actor)]
        /\ \A w \in Workflow : signed[w] \subseteq signed'[w]
        BY <1>1, SignCovers
  <1>5. Covered(r.wf, "IN_PROGRESS", r.step + 1)'
        <2>1. r.step + 1 \in 1 .. Len(Approvals!Steps(r.wf)) /\ (r.step + 1) - 1 = r.step
              BY <1>1, <1>2, <1>3
        <2> QED BY <1>3, <1>4, <2>1 DEF Covered
  <1>6. "IN_PROGRESS" \in Approvals!WorkflowStatus \ {"NONE"} /\ r.step + 1 \in Nat
        BY <1>2, <1>3 DEF Approvals!WorkflowStatus
  <1> QED BY <1>1, <1>4, <1>5, <1>6, WriteSigned

LEMMA ApproveLastSigned ==
  ASSUME SignaturesInv, NEW sl \in Slot, Approvals!CommitApproveLast(sl)
  PROVE  /\ SignaturesInv' /\ \A w \in Workflow : Kept(w)
         /\ \A w \in Workflow : w = req[sl].wf => Approvals!FullySigned(w, signed)'
  <1> PICK r : r = req[sl]
      OBVIOUS
  <1>1. /\ r.op = "act" /\ r.action = "APPROVE"
        /\ r.step >= Len(Approvals!Steps(r.wf))
        /\ Approvals!WriteWorkflow(r.wf, "APPROVED", 0)
        /\ Approvals!Sign(r.wf, r.step, r.actor)
        /\ Approvals!Done(sl)
        BY DEF Approvals!CommitApproveLast, Approvals!CommitsAction
  <1>2. r.wf \in Workflow /\ r.step \in 1 .. Len(Approvals!Steps(r.wf))
        BY <1>1, DeciderKnows
  <1>3. Len(Approvals!Steps(r.wf)) \in Nat /\ Approvals!Steps(r.wf)' = Approvals!Steps(r.wf)
        BY <1>1, <1>2, ChainHasSteps, RowWritten DEF SignaturesInv
  <1>4. /\ Approvals!SignedUpTo(r.wf, r.step, signed)'
        /\ signed' \in [Workflow -> SUBSET (Nat \X Actor)]
        /\ \A w \in Workflow : signed[w] \subseteq signed'[w]
        BY <1>1, SignCovers
  <1>5. Approvals!FullySigned(r.wf, signed)'
        <2>1. r.step = Len(Approvals!Steps(r.wf))
              BY <1>1, <1>2, <1>3
        <2> QED BY <1>3, <1>4, <2>1 DEF Approvals!FullySigned
  <1>6. Covered(r.wf, "APPROVED", 0)'
        BY <1>5 DEF Covered
  <1>7. "APPROVED" \in Approvals!WorkflowStatus \ {"NONE"}
        BY DEF Approvals!WorkflowStatus
  <1>8. SignaturesInv' /\ \A w \in Workflow : Kept(w)
        BY <1>1, <1>4, <1>6, <1>7, WriteSigned
  <1> QED BY <1>5, <1>8

LEMMA RejectSigned ==
  ASSUME SignaturesInv, NEW sl \in Slot, Approvals!CommitReject(sl)
  PROVE  SignaturesInv' /\ \A w \in Workflow : Kept(w)
  <1> PICK r : r = req[sl]
      OBVIOUS
  <1>1. /\ r.op = "act" /\ r.action = "REJECT"
        /\ Approvals!WriteWorkflow(r.wf, "REJECTED", 0)
        /\ Approvals!Done(sl) /\ signed' = signed
        BY DEF Approvals!CommitReject, Approvals!CommitsAction
  <1>2. Covered(r.wf, "REJECTED", 0)'
        BY DEF Covered
  <1>3. "REJECTED" \in Approvals!WorkflowStatus \ {"NONE"}
        BY DEF Approvals!WorkflowStatus
  <1>4. /\ signed' \in [Workflow -> SUBSET (Nat \X Actor)]
        /\ \A w \in Workflow : signed[w] \subseteq signed'[w]
        BY <1>1 DEF SignaturesInv, WorkflowRows
  <1> QED BY <1>1, <1>2, <1>3, <1>4, WriteSigned

LEMMA SendBackSigned ==
  ASSUME SignaturesInv, NEW sl \in Slot, Approvals!CommitSendBack(sl)
  PROVE  SignaturesInv' /\ \A w \in Workflow : Kept(w)
  <1> PICK r : r = req[sl]
      OBVIOUS
  <1>1. /\ r.op = "act" /\ r.action = "SEND_BACK"
        /\ Approvals!WriteWorkflow(r.wf, "SENT_BACK", 1)
        /\ Approvals!Done(sl) /\ signed' = signed
        BY DEF Approvals!CommitSendBack, Approvals!CommitsAction
  <1>2. r.wf \in Workflow
        BY <1>1, DeciderKnows
  <1>3. /\ Len(Approvals!Steps(r.wf)) \in Nat /\ Len(Approvals!Steps(r.wf)) >= 1
        /\ Approvals!Steps(r.wf)' = Approvals!Steps(r.wf)
        BY <1>1, <1>2, ChainHasSteps, RowWritten DEF SignaturesInv
  <1>4. Covered(r.wf, "SENT_BACK", 1)'
        BY <1>3 DEF Covered, Approvals!SignedUpTo
  <1>5. "SENT_BACK" \in Approvals!WorkflowStatus \ {"NONE"} /\ 1 \in Nat
        BY DEF Approvals!WorkflowStatus
  <1>6. /\ signed' \in [Workflow -> SUBSET (Nat \X Actor)]
        /\ \A w \in Workflow : signed[w] \subseteq signed'[w]
        BY <1>1 DEF SignaturesInv, WorkflowRows
  <1> QED BY <1>1, <1>4, <1>5, <1>6, WriteSigned

(* A comment writes its snapshot back, and the snapshot is covered.        *)
LEMMA CommentSigned ==
  ASSUME SignaturesInv, NEW sl \in Slot, Approvals!CommitComment(sl)
  PROVE  SignaturesInv' /\ \A w \in Workflow : Kept(w)
  <1> PICK r : r = req[sl]
      OBVIOUS
  <1>1. /\ r.op = "act"
        /\ Approvals!WriteWorkflow(r.wf, r.status, r.step)
        /\ Approvals!Done(sl) /\ signed' = signed
        BY DEF Approvals!CommitComment, Approvals!CommitsAction
  <1>2. r \in Approvals!Acting /\ r.wf \in Workflow
        BY <1>1, ActingShape DEF SignaturesInv
  <1>3. SnapshotCovered(r)
        BY <1>1 DEF SignaturesInv, SnapshotsCovered
  <1>4. r.status \in Approvals!WorkflowStatus \ {"NONE"} /\ r.step \in Nat
        BY <1>2, <1>3 DEF Approvals!Acting, SnapshotCovered
  <1>5. Covered(r.wf, r.status, r.step)'
        <2>1. /\ Approvals!Steps(r.wf)' = Approvals!Steps(r.wf)
              /\ workflow'[r.wf].student = workflow[r.wf].student
              BY <1>1, <1>2, RowWritten DEF SignaturesInv
        <2>2. Covered(r.wf, r.status, r.step)
              BY <1>3 DEF SnapshotCovered
        <2> QED BY <1>1, <2>1, <2>2
                   DEF Covered, Approvals!FullySigned, Approvals!SignedUpTo,
                       Approvals!SignedBy
  <1>6. /\ signed' \in [Workflow -> SUBSET (Nat \X Actor)]
        /\ \A w \in Workflow : signed[w] \subseteq signed'[w]
        BY <1>1 DEF SignaturesInv, WorkflowRows
  <1> QED BY <1>1, <1>4, <1>5, <1>6, WriteSigned

(* The rows the start transaction writes: the new one, and those it found  *)
(* open, which are put on hold.                                            *)
LEMMA StartWrites ==
  ASSUME WorkflowRows, NEW sl \in Slot, Approvals!CommitStart(sl)
  PROVE  \E new \in Workflow :
           /\ workflow[new].status = "NONE"
           /\ workflow'[new] = [student |-> req[sl].student, chain |-> req[sl].chain,
                                status |-> "IN_PROGRESS", step |-> 1]
           /\ \A w \in Workflow \ {new} :
                IF w \in req[sl].open
                THEN workflow'[w] = [student |-> workflow[w].student, chain |-> workflow[w].chain,
                                     status |-> "ON_HOLD", step |-> 0]
                ELSE workflow'[w] = workflow[w]
           /\ workflow' \in [Workflow -> Approvals!WorkflowRow]
  <1> PICK r : r = req[sl]
      OBVIOUS
  <1>1. r.student \in Student /\ r.chain \in Chain
        BY RestartShape DEF Approvals!CommitStart
  <1>2. PICK new \in Workflow :
          /\ workflow[new].status = "NONE"
          /\ workflow' = [w \in Workflow |->
               IF w = new
                 THEN [student |-> r.student, chain |-> r.chain,
                       status |-> "IN_PROGRESS", step |-> 1]
               ELSE IF w \in r.open
                 THEN Approvals!PutOnHold(workflow[w])
               ELSE workflow[w]]
        BY DEF Approvals!CommitStart
  <1>3. workflow'[new] = [student |-> r.student, chain |-> r.chain,
                          status |-> "IN_PROGRESS", step |-> 1]
        BY <1>2
  <1>4. ASSUME NEW w \in Workflow \ {new}
        PROVE  IF w \in r.open
               THEN workflow'[w] = [student |-> workflow[w].student, chain |-> workflow[w].chain,
                                    status |-> "ON_HOLD", step |-> 0]
               ELSE workflow'[w] = workflow[w]
        BY <1>2 DEF Approvals!PutOnHold
  <1>5. \A w \in Workflow : workflow'[w] \in Approvals!WorkflowRow
        <2> SUFFICES ASSUME NEW w \in Workflow PROVE workflow'[w] \in Approvals!WorkflowRow
            OBVIOUS
        <2>1. workflow[w] \in Approvals!WorkflowRow
              BY DEF WorkflowRows
        <2>2. CASE w = new
              BY <1>1, <1>3, <2>2 DEF Approvals!WorkflowRow, Approvals!WorkflowStatus
        <2>3. CASE w # new /\ w \in r.open
              <3>1. workflow'[w] = [student |-> workflow[w].student, chain |-> workflow[w].chain,
                                    status |-> "ON_HOLD", step |-> 0]
                    BY <1>4, <2>3
              <3> QED BY <2>1, <3>1 DEF Approvals!WorkflowRow, Approvals!WorkflowStatus
        <2>4. CASE w # new /\ w \notin r.open
              BY <1>4, <2>1, <2>4
        <2> QED BY <2>2, <2>3, <2>4
  <1>6. workflow' \in [Workflow -> Approvals!WorkflowRow]
        <2>1. \E f : workflow' = [w \in Workflow |-> f[w]]
              <3>1. workflow' = [w \in Workflow |-> workflow'[w]]
                    BY <1>2
              <3> QED BY <3>1
        <2> QED BY <1>5, <2>1
  <1> QED BY <1>2, <1>3, <1>4, <1>6

LEMMA StartSigned ==
  ASSUME SignaturesInv, NEW sl \in Slot, Approvals!CommitStart(sl)
  PROVE  SignaturesInv' /\ \A w \in Workflow : Kept(w)
  <1>0. WorkflowRows
        BY DEF SignaturesInv
  <1>1. req' = [req EXCEPT ![sl] = Approvals!Idle] /\ signed' = signed
        BY DEF Approvals!CommitStart
  <1> PICK r : r = req[sl]
      OBVIOUS
  <1>2. PICK new \in Workflow :
          /\ workflow[new].status = "NONE"
          /\ workflow'[new] = [student |-> r.student, chain |-> r.chain,
                               status |-> "IN_PROGRESS", step |-> 1]
          /\ \A w \in Workflow \ {new} :
               IF w \in r.open
               THEN workflow'[w] = [student |-> workflow[w].student, chain |-> workflow[w].chain,
                                    status |-> "ON_HOLD", step |-> 0]
               ELSE workflow'[w] = workflow[w]
          /\ workflow' \in [Workflow -> Approvals!WorkflowRow]
        BY <1>0, StartWrites
  <1>3. WorkflowRows'
        BY <1>0, <1>1, <1>2, IdleIsRequest DEF WorkflowRows
  <1>4. \A w \in Workflow : Kept(w)
        <2> SUFFICES ASSUME NEW w \in Workflow, workflow[w].status # "NONE"
                     PROVE  /\ workflow'[w].status # "NONE"
                            /\ workflow'[w].student = workflow[w].student
                            /\ workflow'[w].chain = workflow[w].chain
            BY <1>1 DEF Kept
        <2>1. w # new
              BY <1>2
        <2>2. CASE w \in r.open
              <3>1. workflow'[w] = [student |-> workflow[w].student, chain |-> workflow[w].chain,
                                    status |-> "ON_HOLD", step |-> 0]
                    BY <1>2, <2>1, <2>2
              <3> QED BY <3>1
        <2>3. CASE w \notin r.open
              <3>1. workflow'[w] = workflow[w]
                    BY <1>2, <2>1, <2>3
              <3> QED BY <3>1
        <2> QED BY <2>2, <2>3
  <1>5. ASSUME NEW w \in Workflow
        PROVE  \/ workflow'[w] = workflow[w] /\ workflow[w].status # "NONE"
               \/ Covered(w, workflow[w].status, workflow[w].step)'
        <2>1. CASE w = new
              <3>1. Len(Approvals!Steps(w)') \in Nat /\ Len(Approvals!Steps(w)') >= 1
                    BY <1>3, LifecycleAssumption
                       DEF Approvals!ChainAssumption, WorkflowRows,
                           Approvals!Steps, Approvals!WorkflowRow
              <3>2. workflow'[w].status = "IN_PROGRESS" /\ workflow'[w].step = 1
                    BY <1>2, <2>1
              <3> QED BY <3>1, <3>2 DEF Covered, Approvals!SignedUpTo
        <2>2. CASE w # new /\ w \in r.open
              <3>1. workflow'[w] = [student |-> workflow[w].student, chain |-> workflow[w].chain,
                                    status |-> "ON_HOLD", step |-> 0]
                    BY <1>2, <2>2
              <3>2. workflow'[w].status = "ON_HOLD" /\ workflow'[w].step = 0
                    BY <3>1
              <3> QED BY <3>2 DEF Covered
        <2>3. CASE w # new /\ w \notin r.open
              <3>1. workflow'[w] = workflow[w]
                    BY <1>2, <2>3
              <3>2. CASE workflow[w].status = "NONE"
                    <4>1. workflow[w].step = 0
                          BY <3>2 DEF SignaturesInv, RowsCovered, Covered
                    <4> QED BY <3>1, <3>2, <4>1 DEF Covered
              <3> QED BY <3>1, <3>2
        <2> QED BY <2>1, <2>2, <2>3
  <1>6. \A o \in Slot : req'[o].op = "act" => req'[o] = req[o]
        BY <1>0, <1>1, IdleIsRequest DEF WorkflowRows
  <1> QED BY <1>3, <1>4, <1>5, <1>6, SignaturesKept

----------------------------------------------------------------------------
(* The print line, whatever else happens to the students                   *)

PrintRows ==
  /\ order \in [Batch -> Press!OrderRow]
  /\ job \in [Batch -> Press!JobRow]
  /\ printReq \in [Slot -> Press!Request]

(* A batch is built by one request: the one that chose its id.             *)
Builds(r) == r.op \in {"order", "link", "job", "items", "queue"}

BatchesApart ==
  \A o, p \in Slot :
    Builds(printReq[o]) /\ Builds(printReq[p]) /\ printReq[o].batch = printReq[p].batch
      => o = p

(* What a request finds when it makes its next write, whatever the others  *)
(* did since it started.                                                   *)
Placed(r) ==
  /\ r.op = "order" => order[r.batch] = Press!NoOrder
  /\ r.op \in {"link", "job"} =>
       order[r.batch].status = "READY_FOR_PRINT" /\ job[r.batch] = Press!NoJob
  /\ r.op = "items" => job[r.batch].status # "NONE" /\ job[r.batch].items = {}
  /\ r.op = "queue" => job[r.batch].status # "NONE" /\ job[r.batch].items = r.students
  /\ r.op \in {"move", "file"} => job[r.batch].status # "NONE"

RequestsPlaced == \A sl \in Slot : Placed(printReq[sl])

(* A job not created is empty.                                             *)
UnmadeJobIsEmpty == \A b \in Batch : job[b].status = "NONE" => job[b] = Press!NoJob

PressInv ==
  /\ PrintRows
  /\ BatchesApart
  /\ RequestsPlaced
  /\ UnmadeJobIsEmpty
  /\ Press!OrderMirrorsJob

----------------------------------------------------------------------------
(* Shapes of requests *)
LEMMA BatchingShape ==
  ASSUME PrintRows, NEW sl \in Slot, NEW r, r = printReq[sl], Builds(r)
  PROVE  r \in Press!Batching
BY DEF PrintRows, Press!Request, Press!Idle, Press!Batching, Press!Moving,
       Press!Printing, Press!Issuing, Press!Reissuing, Builds

LEMMA MovingShape ==
  ASSUME PrintRows, NEW sl \in Slot, NEW r, r = printReq[sl], r.op = "move"
  PROVE  r \in Press!Moving
BY DEF PrintRows, Press!Request, Press!Idle, Press!Batching, Press!Moving,
       Press!Printing, Press!Issuing, Press!Reissuing

LEMMA PrintingShape ==
  ASSUME PrintRows, NEW sl \in Slot, NEW r, r = printReq[sl], r.op = "file"
  PROVE  r \in Press!Printing
BY DEF PrintRows, Press!Request, Press!Idle, Press!Batching, Press!Moving,
       Press!Printing, Press!Issuing, Press!Reissuing

LEMMA IssuingShape ==
  ASSUME PrintRows, NEW sl \in Slot, NEW r, r = printReq[sl], r.op = "issue"
  PROVE  r \in Press!Issuing
BY DEF PrintRows, Press!Request, Press!Idle, Press!Batching, Press!Moving,
       Press!Printing, Press!Issuing, Press!Reissuing

LEMMA ReissuingShape ==
  ASSUME PrintRows, NEW sl \in Slot, NEW r, r = printReq[sl], r.op = "reissue"
  PROVE  r \in Press!Reissuing
BY DEF PrintRows, Press!Request, Press!Idle, Press!Batching, Press!Moving,
       Press!Printing, Press!Issuing, Press!Reissuing

LEMMA IdleIsQuiet ==
  /\ Press!Idle \in Press!Request /\ ~Builds(Press!Idle)
  /\ Placed(Press!Idle) /\ Placed(Press!Idle)'
BY DEF Press!Idle, Press!Request, Builds, Placed

(* A request for a batch names one that exists in the table.               *)
LEMMA BatchOf ==
  ASSUME PrintRows, NEW sl \in Slot, NEW r, r = printReq[sl],
         Builds(r) \/ r.op \in {"move", "file"}
  PROVE  r.batch \in Batch
BY BatchingShape, MovingShape, PrintingShape
   DEF Press!Batching, Press!Moving, Press!Printing

----------------------------------------------------------------------------
LEMMA PressInit == Press!Init => PressInv
<1> SUFFICES ASSUME Press!Init PROVE PressInv
  OBVIOUS
<1>1. PrintRows
  BY IdleIsQuiet
     DEF Press!Init, PrintRows, Press!OrderRow, Press!JobRow, Press!NoOrder,
         Press!NoJob
<1>2. BatchesApart
  BY IdleIsQuiet DEF Press!Init, BatchesApart
<1>3. RequestsPlaced
  BY IdleIsQuiet DEF Press!Init, RequestsPlaced
<1>4. UnmadeJobIsEmpty
  BY DEF Press!Init, UnmadeJobIsEmpty
<1>5. Press!OrderMirrorsJob
  BY DEF Press!Init, Press!OrderMirrorsJob, Press!NoJob, Press!NoOrder
<1> QED
  BY <1>1, <1>2, <1>3, <1>4, <1>5 DEF PressInv

----------------------------------------------------------------------------
(* The slots after a step of one of them: if the new request is well placed *)
(* and builds a batch nobody else builds, the slots are in order.          *)
LEMMA SlotsInOrder ==
  ASSUME PressInv, NEW sl \in Slot, NEW q \in Press!Request,
         printReq' = [printReq EXCEPT ![sl] = q],
         Placed(q)',
         \A o \in Slot : o # sl => Placed(printReq[o])',
         \A o \in Slot : o # sl /\ Builds(q) /\ Builds(printReq[o])
                            => printReq[o].batch # q.batch
  PROVE  printReq' \in [Slot -> Press!Request] /\ BatchesApart' /\ RequestsPlaced'
<1>1. printReq \in [Slot -> Press!Request]
  BY DEF PressInv, PrintRows
<1>2. printReq'[sl] = q /\ \A o \in Slot : o # sl => printReq'[o] = printReq[o]
  BY <1>1
<1>3. BatchesApart'
  BY <1>2 DEF PressInv, BatchesApart
<1>4. RequestsPlaced'
  <2> SUFFICES ASSUME NEW o \in Slot PROVE Placed(printReq[o])'
    BY DEF RequestsPlaced
  <2>1. CASE o = sl
    BY <1>2, <2>1 DEF Placed
  <2>2. CASE o # sl
    BY <2>2
  <2> QED
    BY <2>1, <2>2
<1> QED
  BY <1>1, <1>3, <1>4

(* The other slots after a request wrote the rows of a batch only it builds. *)
LEMMA OthersOffTheBatch ==
  ASSUME PressInv, NEW sl \in Slot, NEW b \in Batch,
         \A o \in Slot : o # sl => printReq'[o] = printReq[o],
         \A o \in Slot : o # sl /\ Builds(printReq[o]) => printReq[o].batch # b,
         \A c \in Batch : c # b => order'[c] = order[c] /\ job'[c] = job[c],
         job[b].status # "NONE" => job'[b].status # "NONE"
  PROVE  \A o \in Slot : o # sl => Placed(printReq[o])'
<1> SUFFICES ASSUME NEW o \in Slot, o # sl PROVE Placed(printReq[o])'
  OBVIOUS
<1> PICK r : r = printReq[o]
  OBVIOUS
<1>1. printReq'[o] = r /\ Placed(r)
  BY DEF PressInv, RequestsPlaced
<1>2. CASE Builds(r)
  <2>1. r.batch \in Batch /\ r.batch # b
    BY <1>2, BatchOf DEF PressInv
  <2>2. order'[r.batch] = order[r.batch] /\ job'[r.batch] = job[r.batch]
    BY <2>1
  <2> QED
    BY <1>1, <2>2 DEF Placed
<1>3. CASE ~Builds(r)
  <2>1. r.op \in {"move", "file"} => r.batch \in Batch
    BY BatchOf DEF PressInv
  <2>2. r.op \in {"move", "file"} => job'[r.batch].status # "NONE"
    BY <1>1, <2>1 DEF Placed
  <2> QED
    BY <1>1, <1>3, <2>2 DEF Placed, Builds
<1> QED
  BY <1>2, <1>3

(* The other slots after a request changed the status or the file of a job. *)
LEMMA OthersOnTheJob ==
  ASSUME PressInv, NEW sl \in Slot, NEW b \in Batch,
         \A o \in Slot : o # sl => printReq'[o] = printReq[o],
         \A c \in Batch : c # b => order'[c] = order[c] /\ job'[c] = job[c],
         job[b].status # "NONE", job'[b].status # "NONE",
         job'[b].items = job[b].items, order'[b].students = order[b].students
  PROVE  \A o \in Slot : o # sl => Placed(printReq[o])'
<1> SUFFICES ASSUME NEW o \in Slot, o # sl PROVE Placed(printReq[o])'
  OBVIOUS
<1> PICK r : r = printReq[o]
  OBVIOUS
<1>1. printReq'[o] = r /\ Placed(r)
  BY DEF PressInv, RequestsPlaced
<1>2. Builds(r) \/ r.op \in {"move", "file"} => r.batch \in Batch
  BY BatchOf DEF PressInv
<1>3. order[b] # Press!NoOrder /\ job[b] # Press!NoJob
  BY DEF PressInv, Press!OrderMirrorsJob, Press!NoOrder, Press!NoJob
<1>4. CASE Builds(r) /\ r.batch = b
  <2>1. r.op \in {"items", "queue"}
    BY <1>1, <1>3, <1>4 DEF Placed, Builds
  <2> QED
    BY <1>1, <1>4, <2>1 DEF Placed
<1>5. CASE Builds(r) /\ r.batch # b
  <2>1. order'[r.batch] = order[r.batch] /\ job'[r.batch] = job[r.batch]
    BY <1>2, <1>5
  <2> QED
    BY <1>1, <2>1 DEF Placed
<1>6. CASE ~Builds(r)
  <2>1. r.op \in {"move", "file"} => job'[r.batch].status # "NONE"
    BY <1>1, <1>2 DEF Placed
  <2> QED
    BY <1>1, <1>6, <2>1 DEF Placed, Builds
<1> QED
  BY <1>4, <1>5, <1>6

----------------------------------------------------------------------------
(* The steps that only read, and those that end a request unwritten. *)
LEMMA TablesUntouched ==
  ASSUME PressInv, NEW sl \in Slot, NEW q \in Press!Request,
         printReq' = [printReq EXCEPT ![sl] = q],
         UNCHANGED <<order, job>>,
         Placed(q),
         \A o \in Slot : o # sl /\ Builds(q) /\ Builds(printReq[o])
                            => printReq[o].batch # q.batch
  PROVE  PressInv'
<1>1. Placed(q)'
  BY DEF Placed
<1>2. \A o \in Slot : o # sl => Placed(printReq[o])'
  <2> SUFFICES ASSUME NEW o \in Slot, o # sl PROVE Placed(printReq[o])'
    OBVIOUS
  <2> PICK r : r = printReq[o]
    OBVIOUS
  <2>1. printReq'[o] = r /\ Placed(r)
    BY DEF PressInv, RequestsPlaced, PrintRows
  <2> QED
    BY <2>1 DEF Placed
<1>3. printReq' \in [Slot -> Press!Request] /\ BatchesApart' /\ RequestsPlaced'
  BY <1>1, <1>2, SlotsInOrder
<1>4. PrintRows'
  BY <1>3 DEF PressInv, PrintRows
<1>5. UnmadeJobIsEmpty' /\ Press!OrderMirrorsJob'
  BY DEF PressInv, UnmadeJobIsEmpty, Press!OrderMirrorsJob
<1> QED
  BY <1>3, <1>4, <1>5 DEF PressInv

LEMMA BeginBatchKeeps ==
  ASSUME PressInv, NEW sl \in Slot, NEW ids \in SUBSET Student, Press!BeginBatch(sl, ids)
  PROVE  PressInv'
<1>1. PICK b \in Batch :
        /\ Press!Unused(b)
        /\ Press!Enter(sl, [op |-> "order", batch |-> b, students |-> ids])
  BY DEF Press!BeginBatch
<1> PICK q : q = [op |-> "order", batch |-> b, students |-> ids]
  OBVIOUS
<1>2. q \in Press!Request /\ q.op = "order" /\ q.batch = b
  BY DEF Press!Request, Press!Batching
<1>3. Placed(q)
  BY <1>1, <1>2 DEF Placed, Press!Unused
<1>4. ASSUME NEW o \in Slot, o # sl, Builds(printReq[o])
      PROVE  printReq[o].batch # q.batch
  <2> PICK r : r = printReq[o]
    OBVIOUS
  <2>1. Placed(r) /\ r.batch \in Batch
    BY <1>4, BatchOf DEF PressInv, RequestsPlaced
  <2>2. CASE r.op = "order"
    BY <1>1, <1>2, <2>2 DEF Press!Unused
  <2>3. CASE r.op \in {"link", "job"}
    BY <1>1, <1>2, <2>1, <2>3 DEF Press!Unused, Placed, Press!NoOrder
  <2>4. CASE r.op \in {"items", "queue"}
    BY <1>1, <1>2, <2>1, <2>4
       DEF Press!Unused, Placed, Press!NoOrder, PressInv, Press!OrderMirrorsJob
  <2> QED
    BY <1>4, <2>2, <2>3, <2>4 DEF Builds
<1>5. printReq' = [printReq EXCEPT ![sl] = q] /\ UNCHANGED <<order, job>>
  BY <1>1 DEF Press!Enter
<1> QED
  BY <1>2, <1>3, <1>4, <1>5, TablesUntouched

LEMMA ReadingKeeps ==
  ASSUME PressInv, NEW sl \in Slot,
         \/ Press!ReadJobForMove(sl)  \/ Press!ReadJobForFile(sl)
         \/ Press!ReadJobForIssue(sl) \/ Press!ReadForReissue(sl)
  PROVE  PressInv'
<1> SUFFICES \E q \in Press!Request : Press!Enter(sl, q) /\ Placed(q) /\ ~Builds(q)
  BY TablesUntouched DEF Press!Enter
<1>1. CASE Press!ReadJobForMove(sl)
  <2>1. PICK b \in Batch, to \in Press!OrderStatus :
          /\ job[b].status # "NONE"
          /\ Press!Enter(sl, [op |-> "move", batch |-> b, to |-> to, students |-> job[b].items])
    BY <1>1 DEF Press!ReadJobForMove
  <2> PICK q : q = [op |-> "move", batch |-> b, to |-> to, students |-> job[b].items]
    OBVIOUS
  <2>2. q \in Press!Moving
    BY DEF PressInv, PrintRows, Press!JobRow, Press!Moving
  <2> QED
    BY <2>1, <2>2 DEF Press!Request, Placed, Builds
<1>2. CASE Press!ReadJobForFile(sl)
  <2>1. PICK b \in Batch :
          /\ job[b].status # "NONE"
          /\ Press!Enter(sl, [op |-> "file", batch |-> b, students |-> job[b].items])
    BY <1>2 DEF Press!ReadJobForFile
  <2> PICK q : q = [op |-> "file", batch |-> b, students |-> job[b].items]
    OBVIOUS
  <2>2. q \in Press!Printing
    BY DEF PressInv, PrintRows, Press!JobRow, Press!Printing
  <2> QED
    BY <2>1, <2>2 DEF Press!Request, Placed, Builds
<1>3. CASE Press!ReadJobForIssue(sl)
  <2>1. PICK b \in Batch, stage \in {"ISSUED", "REISSUED"} :
          Press!Enter(sl, [op |-> "issue", students |-> job[b].items, stage |-> stage])
    BY <1>3 DEF Press!ReadJobForIssue
  <2> PICK q : q = [op |-> "issue", students |-> job[b].items, stage |-> stage]
    OBVIOUS
  <2>2. q \in Press!Issuing
    BY DEF PressInv, PrintRows, Press!JobRow, Press!Issuing
  <2> QED
    BY <2>1, <2>2 DEF Press!Request, Placed, Builds
<1>4. CASE Press!ReadForReissue(sl)
  <2>1. PICK s \in Student : Press!Enter(sl, [op |-> "reissue", students |-> {s}])
    BY <1>4 DEF Press!ReadForReissue
  <2> PICK q : q = [op |-> "reissue", students |-> {s}]
    OBVIOUS
  <2>2. q \in Press!Reissuing
    BY DEF Press!Reissuing
  <2> QED
    BY <2>1, <2>2 DEF Press!Request, Placed, Builds
<1> QED
  BY <1>1, <1>2, <1>3, <1>4

----------------------------------------------------------------------------
(* The steps that build a batch *)
LEMMA Advanced ==
  ASSUME PressInv, NEW sl \in Slot, NEW r, r = printReq[sl], Builds(r),
         NEW op \in {"order", "link", "job", "items", "queue"}, Press!Advance(sl, op)
  PROVE  \E q \in Press!Request :
           /\ q.op = op /\ q.batch = r.batch /\ q.students = r.students
           /\ printReq' = [printReq EXCEPT ![sl] = q]
<1> PICK q : q = [op |-> op, batch |-> r.batch, students |-> r.students]
  OBVIOUS
<1>1. r \in Press!Batching
  BY BatchingShape DEF PressInv
<1>2. [r EXCEPT !.op = op] = q /\ q \in Press!Batching
  BY <1>1 DEF Press!Batching
<1>3. printReq' = [printReq EXCEPT ![sl] = q]
  BY <1>2 DEF Press!Advance
<1> QED
  BY <1>2, <1>3 DEF Press!Request

LEMMA BuildingSlots ==
  ASSUME PressInv, NEW sl \in Slot, NEW r, r = printReq[sl], Builds(r),
         NEW q \in Press!Request, printReq' = [printReq EXCEPT ![sl] = q],
         Builds(q) => q.batch = r.batch,
         Placed(q)',
         \A c \in Batch : c # r.batch => order'[c] = order[c] /\ job'[c] = job[c],
         job[r.batch].status # "NONE" => job'[r.batch].status # "NONE"
  PROVE  printReq' \in [Slot -> Press!Request] /\ BatchesApart' /\ RequestsPlaced'
<1>1. r.batch \in Batch
  BY BatchOf DEF PressInv
<1>2. \A o \in Slot : o # sl /\ Builds(printReq[o]) => printReq[o].batch # r.batch
  BY DEF PressInv, BatchesApart
<1>3. \A o \in Slot : o # sl => printReq'[o] = printReq[o]
  BY DEF PressInv, PrintRows
<1>4. \A o \in Slot : o # sl => Placed(printReq[o])'
  BY <1>1, <1>2, <1>3, OthersOffTheBatch
<1>5. \A o \in Slot : o # sl /\ Builds(q) /\ Builds(printReq[o])
                       => printReq[o].batch # q.batch
  BY <1>2
<1> QED
  BY <1>4, <1>5, SlotsInOrder

LEMMA CreateOrderKeeps ==
  ASSUME PressInv, NEW sl \in Slot, Press!CreateOrder(sl)
  PROVE  PressInv'
<1> PICK r : r = printReq[sl]
  OBVIOUS
<1>1. /\ r.op = "order" /\ Builds(r) /\ Placed(r)
      /\ order' = [order EXCEPT ![r.batch].status = "READY_FOR_PRINT"]
      /\ Press!Advance(sl, "link")
      /\ job' = job
  BY DEF Press!CreateOrder, Builds, PressInv, RequestsPlaced
<1>2. PICK q \in Press!Request : /\ q.op = "link" /\ q.batch = r.batch /\ q.students = r.students
                                 /\ printReq' = [printReq EXCEPT ![sl] = q]
  BY <1>1, Advanced
<1>3. r.batch \in Batch
  BY <1>1, BatchOf DEF PressInv
<1>4. order[r.batch] = Press!NoOrder /\ job[r.batch] = Press!NoJob
  BY <1>1, <1>3
     DEF Placed, PressInv, Press!OrderMirrorsJob, UnmadeJobIsEmpty, Press!NoOrder
<1>5. /\ order' \in [Batch -> Press!OrderRow]
      /\ order'[r.batch].status = "READY_FOR_PRINT"
      /\ \A c \in Batch : order'[c].students = order[c].students
      /\ \A c \in Batch : c # r.batch => order'[c] = order[c]
  BY <1>1, <1>3 DEF PressInv, PrintRows, Press!OrderRow, Press!OrderStatus
<1>6. Placed(q)'
  BY <1>1, <1>2, <1>4, <1>5 DEF Placed
<1>7. printReq' \in [Slot -> Press!Request] /\ BatchesApart' /\ RequestsPlaced'
  BY <1>1, <1>2, <1>5, <1>6, BuildingSlots
<1>8. PrintRows'
  BY <1>1, <1>5, <1>7 DEF PressInv, PrintRows
<1>9. UnmadeJobIsEmpty'
  BY <1>1 DEF PressInv, UnmadeJobIsEmpty
<1>10. Press!OrderMirrorsJob'
  BY <1>1, <1>4, <1>5 DEF PressInv, Press!OrderMirrorsJob, Press!NoJob
<1> QED
  BY <1>7, <1>8, <1>9, <1>10 DEF PressInv

LEMMA LinkOrderKeeps ==
  ASSUME PressInv, NEW sl \in Slot, Press!LinkOrder(sl)
  PROVE  PressInv'
<1> PICK r : r = printReq[sl]
  OBVIOUS
<1>1. /\ r.op = "link" /\ Builds(r) /\ Placed(r)
      /\ order' = [order EXCEPT ![r.batch].students = r.students]
      /\ Press!Advance(sl, "job")
      /\ job' = job
  BY DEF Press!LinkOrder, Builds, PressInv, RequestsPlaced
<1>2. PICK q \in Press!Request : /\ q.op = "job" /\ q.batch = r.batch /\ q.students = r.students
                                 /\ printReq' = [printReq EXCEPT ![sl] = q]
  BY <1>1, Advanced
<1>3. r.batch \in Batch /\ r \in Press!Batching
  BY <1>1, BatchOf, BatchingShape DEF PressInv
<1>4. order[r.batch].status = "READY_FOR_PRINT" /\ job[r.batch] = Press!NoJob
  BY <1>1 DEF Placed
<1>5. /\ order' \in [Batch -> Press!OrderRow]
      /\ order'[r.batch].students = r.students
      /\ \A c \in Batch : order'[c].status = order[c].status
      /\ \A c \in Batch : c # r.batch => order'[c] = order[c]
  BY <1>1, <1>3 DEF PressInv, PrintRows, Press!OrderRow, Press!Batching
<1>6. Placed(q)'
  BY <1>1, <1>2, <1>3, <1>4, <1>5 DEF Placed
<1>7. printReq' \in [Slot -> Press!Request] /\ BatchesApart' /\ RequestsPlaced'
  BY <1>1, <1>2, <1>5, <1>6, BuildingSlots
<1>8. PrintRows'
  BY <1>1, <1>5, <1>7 DEF PressInv, PrintRows
<1>9. UnmadeJobIsEmpty'
  BY <1>1 DEF PressInv, UnmadeJobIsEmpty
<1>10. Press!OrderMirrorsJob'
  BY <1>1, <1>4, <1>5 DEF PressInv, Press!OrderMirrorsJob, Press!NoJob
<1> QED
  BY <1>7, <1>8, <1>9, <1>10 DEF PressInv

LEMMA CreateJobKeeps ==
  ASSUME PressInv, NEW sl \in Slot, Press!CreateJob(sl)
  PROVE  PressInv'
<1> PICK r : r = printReq[sl]
  OBVIOUS
<1>1. /\ r.op = "job" /\ Builds(r) /\ Placed(r)
      /\ job' = [job EXCEPT ![r.batch].status = "READY_FOR_PRINT"]
      /\ Press!Advance(sl, "items")
      /\ order' = order
  BY DEF Press!CreateJob, Builds, PressInv, RequestsPlaced
<1>2. PICK q \in Press!Request : /\ q.op = "items" /\ q.batch = r.batch /\ q.students = r.students
                                 /\ printReq' = [printReq EXCEPT ![sl] = q]
  BY <1>1, Advanced
<1>3. r.batch \in Batch
  BY <1>1, BatchOf DEF PressInv
<1>4. /\ order[r.batch].status = "READY_FOR_PRINT"
      /\ job[r.batch] = Press!NoJob
  BY <1>1 DEF Placed
<1>5. /\ job' \in [Batch -> Press!JobRow]
      /\ job'[r.batch].status = "READY_FOR_PRINT"
      /\ \A c \in Batch : job'[c].items = job[c].items
      /\ \A c \in Batch : c # r.batch => job'[c] = job[c]
  BY <1>1, <1>3 DEF PressInv, PrintRows, Press!JobRow, Press!OrderStatus
<1>6. Placed(q)'
  BY <1>1, <1>2, <1>3, <1>4, <1>5 DEF Placed, Press!NoJob
<1>7. printReq' \in [Slot -> Press!Request] /\ BatchesApart' /\ RequestsPlaced'
  BY <1>1, <1>2, <1>5, <1>6, BuildingSlots
<1>8. PrintRows'
  BY <1>1, <1>5, <1>7 DEF PressInv, PrintRows
<1>9. UnmadeJobIsEmpty'
  BY <1>1, <1>5 DEF PressInv, UnmadeJobIsEmpty
<1>10. Press!OrderMirrorsJob'
  BY <1>1, <1>4, <1>5 DEF PressInv, Press!OrderMirrorsJob
<1> QED
  BY <1>7, <1>8, <1>9, <1>10 DEF PressInv

LEMMA CreateItemsKeeps ==
  ASSUME PressInv, NEW sl \in Slot, Press!CreateItems(sl)
  PROVE  PressInv'
<1> PICK r : r = printReq[sl]
  OBVIOUS
<1>1. /\ r.op = "items" /\ Builds(r) /\ Placed(r)
      /\ job' = [job EXCEPT ![r.batch].items = r.students]
      /\ Press!Advance(sl, "queue")
      /\ order' = order
  BY DEF Press!CreateItems, Builds, PressInv, RequestsPlaced
<1>2. PICK q \in Press!Request : /\ q.op = "queue" /\ q.batch = r.batch /\ q.students = r.students
                                 /\ printReq' = [printReq EXCEPT ![sl] = q]
  BY <1>1, Advanced
<1>3. r.batch \in Batch /\ r \in Press!Batching
  BY <1>1, BatchOf, BatchingShape DEF PressInv
<1>4.
      /\ job[r.batch].status # "NONE" /\ job[r.batch].items = {}
  BY <1>1 DEF Placed
<1>5. /\ job' \in [Batch -> Press!JobRow]
      /\ job'[r.batch].items = r.students
      /\ \A c \in Batch : job'[c].status = job[c].status
      /\ \A c \in Batch : c # r.batch => job'[c] = job[c]
  BY <1>1, <1>3 DEF PressInv, PrintRows, Press!JobRow, Press!Batching
<1>6. Placed(q)'
  BY <1>1, <1>2, <1>3, <1>4, <1>5 DEF Placed
<1>7. printReq' \in [Slot -> Press!Request] /\ BatchesApart' /\ RequestsPlaced'
  BY <1>1, <1>2, <1>3, <1>4, <1>5, <1>6, BuildingSlots
<1>8. PrintRows'
  BY <1>1, <1>5, <1>7 DEF PressInv, PrintRows
<1>9. UnmadeJobIsEmpty'
  BY <1>1, <1>4, <1>5 DEF PressInv, UnmadeJobIsEmpty
<1>10. Press!OrderMirrorsJob'
  BY <1>1, <1>4, <1>5 DEF PressInv, Press!OrderMirrorsJob
<1> QED
  BY <1>7, <1>8, <1>9, <1>10 DEF PressInv

LEMMA EndingKeeps ==
  ASSUME PressInv, NEW sl \in Slot,
         \/ Press!RefuseJob(sl)   \/ Press!QueueStudents(sl)
         \/ Press!CommitIssue(sl) \/ Press!CommitReissue(sl)
  PROVE  PressInv'
<1>1. printReq' = [printReq EXCEPT ![sl] = Press!Idle] /\ UNCHANGED <<order, job>>
  BY DEF Press!RefuseJob, Press!QueueStudents, Press!CommitIssue,
         Press!CommitReissue, Press!Leave
<1> QED
  BY <1>1, IdleIsQuiet, TablesUntouched

LEMMA CommitMoveKeeps ==
  ASSUME PressInv, NEW sl \in Slot, Press!CommitMove(sl)
  PROVE  PressInv'
<1> PICK r : r = printReq[sl]
  OBVIOUS
<1>1. /\ r.op = "move" /\ Placed(r)
      /\ job' = [job EXCEPT ![r.batch].status = r.to]
      /\ order' = [order EXCEPT ![r.batch].status = r.to]
      /\ printReq' = [printReq EXCEPT ![sl] = Press!Idle]
  BY DEF Press!CommitMove, Press!Leave, PressInv, RequestsPlaced
<1>2. r.batch \in Batch /\ r.to \in Press!OrderStatus /\ r.to # "NONE"
  BY <1>1, MovingShape DEF PressInv, Press!Moving, Press!OrderStatus
<1>3. job[r.batch].status # "NONE"
  BY <1>1 DEF Placed
<1>4. /\ job' \in [Batch -> Press!JobRow]
      /\ job'[r.batch].status = r.to
      /\ \A c \in Batch : job'[c].items = job[c].items
      /\ \A c \in Batch : c # r.batch => job'[c] = job[c]
  BY <1>1, <1>2 DEF PressInv, PrintRows, Press!JobRow
<1>5. /\ order' \in [Batch -> Press!OrderRow]
      /\ order'[r.batch].status = r.to
      /\ \A c \in Batch : order'[c].students = order[c].students
      /\ \A c \in Batch : c # r.batch => order'[c] = order[c]
  BY <1>1, <1>2 DEF PressInv, PrintRows, Press!OrderRow
<1>6. \A o \in Slot : o # sl => printReq'[o] = printReq[o]
  BY <1>1 DEF PressInv, PrintRows
<1>7. \A o \in Slot : o # sl => Placed(printReq[o])'
  BY <1>2, <1>3, <1>4, <1>5, <1>6, OthersOnTheJob
<1>8. Placed(Press!Idle)' /\ ~Builds(Press!Idle) /\ Press!Idle \in Press!Request
  BY IdleIsQuiet
<1>9. printReq' \in [Slot -> Press!Request] /\ BatchesApart' /\ RequestsPlaced'
  BY <1>1, <1>7, <1>8, SlotsInOrder
<1>11. PrintRows'
  BY <1>4, <1>5, <1>9 DEF PrintRows
<1>12. UnmadeJobIsEmpty'
  BY <1>2, <1>4 DEF PressInv, UnmadeJobIsEmpty
<1>14. Press!OrderMirrorsJob'
  BY <1>4, <1>5 DEF PressInv, Press!OrderMirrorsJob
<1> QED
  BY <1>9, <1>11, <1>12, <1>14 DEF PressInv

LEMMA CommitFileKeeps ==
  ASSUME PressInv, NEW sl \in Slot, Press!CommitFile(sl)
  PROVE  PressInv'
<1> PICK r : r = printReq[sl]
  OBVIOUS
<1>1. /\ r.op = "file" /\ Placed(r)
      /\ job' = [job EXCEPT ![r.batch].file = {r.students}]
      /\ printReq' = [printReq EXCEPT ![sl] = Press!Idle]
      /\ order' = order
  BY DEF Press!CommitFile, Press!Leave, PressInv, RequestsPlaced
<1>2. r.batch \in Batch /\ r.students \in SUBSET Student
  BY <1>1, PrintingShape DEF PressInv, Press!Printing
<1>3. job[r.batch].status # "NONE"
  BY <1>1 DEF Placed
<1>4. /\ job' \in [Batch -> Press!JobRow]
      /\ \A c \in Batch : job'[c].status = job[c].status /\ job'[c].items = job[c].items
      /\ \A c \in Batch : c # r.batch => job'[c] = job[c]
  BY <1>1, <1>2 DEF PressInv, PrintRows, Press!JobRow
<1>5. \A o \in Slot : o # sl => printReq'[o] = printReq[o]
  BY <1>1 DEF PressInv, PrintRows
<1>6. \A o \in Slot : o # sl => Placed(printReq[o])'
  BY <1>1, <1>2, <1>3, <1>4, <1>5, OthersOnTheJob
<1>7. Placed(Press!Idle)' /\ ~Builds(Press!Idle) /\ Press!Idle \in Press!Request
  BY IdleIsQuiet
<1>8. printReq' \in [Slot -> Press!Request] /\ BatchesApart' /\ RequestsPlaced'
  BY <1>1, <1>6, <1>7, SlotsInOrder
<1>9. PrintRows'
  BY <1>1, <1>4, <1>8 DEF PressInv, PrintRows
<1>10. UnmadeJobIsEmpty'
  BY <1>2, <1>3, <1>4 DEF PressInv, UnmadeJobIsEmpty
<1>11. Press!OrderMirrorsJob'
  BY <1>1, <1>4 DEF PressInv, Press!OrderMirrorsJob
<1> QED
  BY <1>8, <1>9, <1>10, <1>11 DEF PressInv

LEMMA PressRestart ==
  ASSUME PressInv, printReq' = [sl \in Slot |-> Press!Idle], UNCHANGED <<order, job>>
  PROVE  PressInv'
<1>1. /\ printReq' = [sl \in Slot |-> Press!Idle]
      /\ order' = order /\ job' = job
  OBVIOUS
<1>2. Placed(Press!Idle)' /\ ~Builds(Press!Idle) /\ Press!Idle \in Press!Request
  BY IdleIsQuiet
<1>3. BatchesApart'
  BY <1>1, <1>2 DEF BatchesApart
<1>4. RequestsPlaced'
  <2> SUFFICES ASSUME NEW o \in Slot PROVE Placed(printReq[o])'
    BY DEF RequestsPlaced
  <2> QED
    BY <1>1, <1>2 DEF Placed
<1>5. PrintRows'
  BY <1>1, <1>2 DEF PressInv, PrintRows
<1>6. UnmadeJobIsEmpty' /\ Press!OrderMirrorsJob'
  BY <1>1 DEF PressInv, UnmadeJobIsEmpty, Press!OrderMirrorsJob
<1> QED
  BY <1>3, <1>4, <1>5, <1>6 DEF PressInv

----------------------------------------------------------------------------

----------------------------------------------------------------------------
(* One Student table under three desks: the operators each of them has a   *)
(* copy of are the same.                                                   *)
LEMMA SameRows ==
  /\ Approvals!StudentRow = StudentRow /\ Approvals!Status = Status
  /\ Press!StudentRow = StudentRow /\ Desk!StudentRow = StudentRow /\ Desk!Status = Status
  /\ Approvals!Idle = Idle /\ Press!Idle = Idle /\ Desk!Idle = Idle
BY DEF StudentRow, Stage, Status, Approvals!StudentRow, Approvals!Stage, Approvals!Status,
       Press!StudentRow, Press!Stage, Press!Status, Desk!StudentRow, Desk!Stage, Desk!Status,
       Idle, Approvals!Idle, Press!Idle, Desk!Idle

LEMMA SameStamp ==
  ASSUME NEW table, NEW ids, NEW stage, NEW status
  PROVE  /\ Approvals!Stamp(table, ids, stage, status) = Stamp(table, ids, stage, status)
         /\ Press!Stamp(table, ids, stage, status) = Stamp(table, ids, stage, status)
         /\ Desk!Stamp(table, ids, stage, status) = Stamp(table, ids, stage, status)
BY DEF Stamp, Approvals!Stamp, Press!Stamp, Desk!Stamp

(* The rows after an updateMany, and after an update of the stage alone or  *)
(* of the status alone.                                                    *)
LEMMA StampedRows ==
  ASSUME NEW table \in [Student -> StudentRow], NEW ids, NEW stage \in Stage,
         NEW status \in Status
  PROVE  /\ Stamp(table, ids, stage, status) \in [Student -> StudentRow]
         /\ \A s \in Student : s \in ids =>
              /\ Stamp(table, ids, stage, status)[s].stage = stage
              /\ Stamp(table, ids, stage, status)[s].status = status
         /\ \A s \in Student : s \notin ids => Stamp(table, ids, stage, status)[s] = table[s]
BY DEF Stamp, StudentRow

LEMMA StagedRows ==
  ASSUME NEW table \in [Student -> StudentRow], NEW t \in Student, NEW stage \in Stage,
         NEW new, new = [table EXCEPT ![t].stage = stage]
  PROVE  /\ new \in [Student -> StudentRow]
         /\ new[t].stage = stage
         /\ \A s \in Student : new[s].status = table[s].status
         /\ \A s \in Student : s # t => new[s] = table[s]
BY DEF StudentRow

LEMMA StatusRows ==
  ASSUME NEW table \in [Student -> StudentRow], NEW t \in Student, NEW status \in Status,
         NEW new, new = [table EXCEPT ![t].status = status]
  PROVE  /\ new \in [Student -> StudentRow]
         /\ \A s \in Student : new[s].stage = table[s].stage
BY DEF StudentRow

----------------------------------------------------------------------------
(* How many requests are in flight                                         *)
LEMMA CountIsNat ==
  ASSUME NEW slots
  PROVE  /\ IsFiniteSet({o \in Slot : slots[o] # Idle})
         /\ InFlight(slots) \in Nat
<1>1. {o \in Slot : slots[o] # Idle} \subseteq Slot /\ IsFiniteSet(Slot)
  BY LifecycleAssumption
<1>2. IsFiniteSet({o \in Slot : slots[o] # Idle})
  BY <1>1, FS_Subset
<1> QED
  BY <1>2, FS_CardinalityType DEF InFlight

LEMMA NoneInFlight ==
  ASSUME NEW slots, InFlight(slots) = 0
  PROVE  \A o \in Slot : slots[o] = Idle
<1>1. {o \in Slot : slots[o] # Idle} = {}
  BY CountIsNat, FS_EmptySet DEF InFlight
<1> QED
  BY <1>1

(* With at most one request in flight, the others of its desk and those of *)
(* the other desks are idle.                                               *)
OneInFlight(a, b, c) == InFlight(a) + InFlight(b) + InFlight(c) <= 1

LEMMA NobodyElse ==
  ASSUME NEW a, NEW b, NEW c, NEW sl \in Slot, a[sl] # Idle, OneInFlight(a, b, c)
  PROVE  \A o \in Slot : (o # sl => a[o] = Idle) /\ b[o] = Idle /\ c[o] = Idle
<1> DEFINE A == {o \in Slot : a[o] # Idle}
<1>1. IsFiniteSet(A) /\ InFlight(a) = Cardinality(A) /\ sl \in A
  BY CountIsNat DEF InFlight
<1>2. InFlight(a) \in Nat /\ InFlight(b) \in Nat /\ InFlight(c) \in Nat
  BY CountIsNat
<1>3. IsFiniteSet(A \ {sl}) /\ Cardinality(A \ {sl}) = Cardinality(A) - 1
  BY <1>1, FS_RemoveElement
<1>4. Cardinality(A \ {sl}) \in Nat
  BY <1>3, FS_CardinalityType
<1>5. Cardinality(A \ {sl}) = 0 /\ InFlight(b) = 0 /\ InFlight(c) = 0
  BY <1>1, <1>2, <1>3, <1>4 DEF OneInFlight
<1>6. A \ {sl} = {}
  BY <1>3, <1>5, FS_EmptySet
<1>7. \A o \in Slot : b[o] = Idle /\ c[o] = Idle
  BY <1>5, NoneInFlight
<1> QED
  BY <1>6, <1>7

----------------------------------------------------------------------------
(* The review desk *)

(* A request that routes a student keeps the status it read.               *)
DeskReads(r) == r.op \in {"handoff", "rule"} => r.status = student[r.student].status

DeskRows == student \in [Student -> StudentRow] /\ deskReq \in [Slot -> Desk!Request]

LEMMA DeskShape ==
  ASSUME DeskRows, NEW sl \in Slot, NEW r, r = deskReq[sl], r.op # "idle"
  PROVE  /\ r # Idle
         /\ r.student \in Student
         /\ r.op \in {"handoff", "rule"} => r.status \in Status
         /\ r.op = "merge" => r.into \in Student
<1>1. r \in Desk!Editing \cup Desk!Routing \cup Desk!Merging
  BY DEF DeskRows, Desk!Request, Desk!Idle
<1>2. r # Idle
  BY DEF Idle
<1> QED
  BY <1>1, <1>2, SameRows DEF Desk!Editing, Desk!Routing, Desk!Merging

LEMMA ReviewReads ==
  ASSUME DeskRows, NEW sl \in Slot, Desk!Begin(sl)
  PROVE  /\ student' = student
         /\ \E q \in Desk!Request : /\ deskReq' = [deskReq EXCEPT ![sl] = q]
                                    /\ q # Idle
                                    /\ DeskReads(q)
<1>1. CASE Desk!BeginEdit(sl)
  <2>1. PICK s \in Student, op \in {"edit", "correct", "validate", "photo"} :
          Desk!Enter(sl, [op |-> op, student |-> s])
    BY <1>1 DEF Desk!BeginEdit
  <2> PICK q : q = [op |-> op, student |-> s]
    OBVIOUS
  <2>2. q \in Desk!Editing /\ q.op \notin {"idle", "handoff", "rule"}
    BY DEF Desk!Editing
  <2>3. q \in Desk!Request /\ q # Idle /\ DeskReads(q)
    BY <2>2 DEF Desk!Request, Idle, DeskReads
  <2> QED
    BY <2>1, <2>3 DEF Desk!Enter
<1>2. CASE Desk!BeginRouting(sl)
  <2>1. PICK s \in Student, op \in {"handoff", "rule"} :
          Desk!Enter(sl, [op |-> op, student |-> s, status |-> student[s].status])
    BY <1>2 DEF Desk!BeginRouting
  <2> PICK q : q = [op |-> op, student |-> s, status |-> student[s].status]
    OBVIOUS
  <2>2. student[s].status \in Desk!Status
    BY SameRows DEF DeskRows, StudentRow
  <2>3. q \in Desk!Routing /\ q.op # "idle" /\ DeskReads(q)
    BY <2>2 DEF Desk!Routing, DeskReads
  <2>4. q \in Desk!Request /\ q # Idle
    BY <2>3 DEF Desk!Request, Idle
  <2> QED
    BY <2>1, <2>3, <2>4 DEF Desk!Enter
<1>3. CASE Desk!BeginMerge(sl)
  <2>1. PICK s \in Student, t \in Student :
          Desk!Enter(sl, [op |-> "merge", student |-> s, into |-> t])
    BY <1>3 DEF Desk!BeginMerge
  <2> PICK q : q = [op |-> "merge", student |-> s, into |-> t]
    OBVIOUS
  <2>2. q \in Desk!Merging /\ q.op = "merge"
    BY DEF Desk!Merging
  <2>3. q \in Desk!Request /\ q # Idle /\ DeskReads(q)
    BY <2>2 DEF Desk!Request, Idle, DeskReads
  <2> QED
    BY <2>1, <2>3 DEF Desk!Enter
<1> QED
  BY <1>1, <1>2, <1>3 DEF Desk!Begin

LEMMA MoveOnWrites ==
  ASSUME DeskRows, NEW sl \in Slot, Desk!MoveOn(sl)
  PROVE  /\ deskReq[sl] # Idle
         /\ deskReq' = [deskReq EXCEPT ![sl] = Idle]
         /\ student' \in [Student -> StudentRow]
         /\ \A s \in Student : student'[s].status = student[s].status
<1> PICK r : r = deskReq[sl]
  OBVIOUS
<1>1. CASE Desk!RefuseRule(sl)
  BY <1>1, DeskShape, SameRows DEF Desk!RefuseRule, Desk!Write, DeskRows
<1>2. CASE Desk!CommitValidation(sl) \/ Desk!CommitPhoto(sl) \/ Desk!HoldByRule(sl)
  <2>1. PICK stage \in {"VALIDATION_FAILED", "UNDER_REVIEW", "SALES_CORRECTED", "ON_HOLD"} :
          /\ r.op # "idle"
          /\ student' = [student EXCEPT ![r.student].stage = stage]
          /\ deskReq' = [deskReq EXCEPT ![sl] = Idle]
    BY <1>2, SameRows DEF Desk!CommitValidation, Desk!CommitPhoto, Desk!HoldByRule,
                          Desk!Write, Desk!Staged
  <2>2. r # Idle /\ r.student \in Student /\ stage \in Stage
    BY <2>1, DeskShape DEF Stage
  <2> QED
    BY <2>1, <2>2, StagedRows DEF DeskRows
<1> QED
  BY <1>1, <1>2 DEF Desk!MoveOn

LEMMA DecideWrites ==
  ASSUME DeskRows, NEW sl \in Slot, Desk!Decide(sl)
  PROVE  /\ deskReq[sl] # Idle
         /\ deskReq' = [deskReq EXCEPT ![sl] = Idle]
         /\ student' \in [Student -> StudentRow]
<1> PICK r : r = deskReq[sl]
  OBVIOUS
<1>1. /\ r.op # "idle"
      /\ deskReq' = [deskReq EXCEPT ![sl] = Idle]
  BY SameRows DEF Desk!Decide, Desk!CommitUpdate, Desk!CommitCorrection, Desk!CommitMerge,
                  Desk!SetStatusByRule, Desk!Write
<1>2. r # Idle /\ r.student \in Student
  BY <1>1, DeskShape
<1>3. student[r.student].status \in Status /\ HandStatus \subseteq Status /\ HandStage \subseteq Stage
  BY <1>2, LifecycleAssumption DEF DeskRows, StudentRow
<1>4. CASE Desk!CommitUpdate(sl) \/ Desk!SetStatusByRule(sl)
  <2>1. PICK status \in HandStatus \cup {student[r.student].status} :
          student' = [student EXCEPT ![r.student].status = status]
    BY <1>4 DEF Desk!CommitUpdate, Desk!SetStatusByRule, Desk!Write
  <2>2. status \in Status
    BY <1>3
  <2> QED
    BY <1>1, <1>2, <2>1, <2>2, StatusRows DEF DeskRows
<1>5. CASE Desk!CommitCorrection(sl)
  <2>1. PICK stage \in HandStage \cup {"SALES_CORRECTED"},
             status \in HandStatus \cup {student[r.student].status} :
          student' = Desk!Stamp(student, {r.student}, stage, status)
    BY <1>5 DEF Desk!CommitCorrection, Desk!Write, Desk!Marked
  <2>2. status \in Status /\ stage \in Stage
    BY <1>3 DEF Stage
  <2>3. student' = Stamp(student, {r.student}, stage, status)
    BY <2>1, SameStamp
  <2> QED
    BY <1>1, <1>2, <2>2, <2>3, StampedRows DEF DeskRows
<1>6. CASE Desk!CommitMerge(sl)
  <2>1. /\ r.op = "merge"
        /\ student' = [student EXCEPT ![r.into].stage = "SALES_CORRECTED",
                                      ![r.student] = Desk!Archived]
    BY <1>6 DEF Desk!CommitMerge, Desk!Write
  <2>2. r.into \in Student
    BY <1>1, <2>1, DeskShape
  <2>3. Desk!Archived \in StudentRow
    BY DEF Desk!Archived, StudentRow, Stage, Status
  <2> PICK first : first = [student EXCEPT ![r.into].stage = "SALES_CORRECTED"]
    OBVIOUS
  <2>4. first \in [Student -> StudentRow]
    BY <2>2, StagedRows DEF DeskRows, Stage
  <2>5. student' = [first EXCEPT ![r.student] = Desk!Archived]
    BY <2>1
  <2>6. student' \in [Student -> StudentRow]
    BY <1>2, <2>3, <2>4, <2>5
  <2> QED
    BY <1>1, <1>2, <2>6
<1> QED
  BY <1>4, <1>5, <1>6 DEF Desk!Decide

(* A routed student keeps the status the request read, unless the stage    *)
(* means another.                                                          *)
LEMMA RouteWrites ==
  ASSUME DeskRows, NEW sl \in Slot, Desk!Route(sl)
  PROVE  /\ deskReq[sl] # Idle
         /\ deskReq' = [deskReq EXCEPT ![sl] = Idle]
         /\ student' \in [Student -> StudentRow]
         /\ deskReq[sl].student \in Student /\ deskReq[sl].op \in {"handoff", "rule"}
         /\ \/ student'[deskReq[sl].student].stage \in MeansStatus
            \/ student'[deskReq[sl].student].status = deskReq[sl].status
         /\ \A s \in Student : s # deskReq[sl].student => student'[s] = student[s]
<1> PICK r : r = deskReq[sl]
  OBVIOUS
<1>1. /\ r.op \in {"handoff", "rule"}
      /\ deskReq' = [deskReq EXCEPT ![sl] = Idle]
  BY SameRows DEF Desk!Route, Desk!CommitHandoff, Desk!HandOffByRule, Desk!Write
<1>2. r # Idle /\ r.student \in Student /\ r.status \in Status
  BY <1>1, DeskShape
<1>3. \E stage \in Stage, status \in Status :
        /\ student' = Stamp(student, {r.student}, stage, status)
        /\ stage \in MeansStatus \/ status = r.status
  <2>1. CASE Desk!CommitHandoff(sl)
    <3>1. PICK stage \in Desk!HandoffStage :
            student' = Desk!Stamp(student, {r.student}, stage, Desk!HandoffStatus(stage, r.status))
      BY <2>1 DEF Desk!CommitHandoff, Desk!Write, Desk!Marked
    <3> PICK status : status = Desk!HandoffStatus(stage, r.status)
      OBVIOUS
    <3>2. stage \in Stage /\ status \in Status /\ (stage \in MeansStatus \/ status = r.status)
      BY <1>2 DEF Desk!HandoffStage, Desk!HandoffStatus, Stage, Status, MeansStatus
    <3>3. student' = Stamp(student, {r.student}, stage, status)
      BY <3>1, SameStamp
    <3> QED
      BY <3>2, <3>3
  <2>2. CASE Desk!HandOffByRule(sl)
    <3>1. PICK stage \in HandStage :
            student' = Desk!Stamp(student, {r.student}, stage, Desk!RuleStatus(stage, r.status))
      BY <2>2 DEF Desk!HandOffByRule, Desk!Write, Desk!Marked
    <3> PICK status : status = Desk!RuleStatus(stage, r.status)
      OBVIOUS
    <3>2. stage \in Stage
      BY LifecycleAssumption
    <3>3. status \in Status /\ (stage \in MeansStatus \/ status = r.status)
      BY <1>2, <3>2 DEF Desk!RuleStatus, Desk!HandoffStatus, Status, MeansStatus
    <3>4. student' = Stamp(student, {r.student}, stage, status)
      BY <3>1, SameStamp
    <3> QED
      BY <3>2, <3>3, <3>4
  <2> QED
    BY <2>1, <2>2 DEF Desk!Route
<1>4. PICK stage \in Stage, status \in Status :
        /\ student' = Stamp(student, {r.student}, stage, status)
        /\ stage \in MeansStatus \/ status = r.status
  BY <1>3
<1>5. /\ student' \in [Student -> StudentRow]
      /\ student'[r.student].stage = stage /\ student'[r.student].status = status
      /\ \A s \in Student : s # r.student => student'[s] = student[s]
  <2>1. student \in [Student -> StudentRow]
    BY DEF DeskRows
  <2>2. student' \in [Student -> StudentRow]
    BY <1>4, <2>1, StampedRows
  <2>3. \A s \in Student : s \in {r.student} => /\ student'[s].stage = stage
                                               /\ student'[s].status = status
    BY <1>4, <2>1, StampedRows
  <2>4. \A s \in Student : s \notin {r.student} => student'[s] = student[s]
    BY <1>4, <2>1 DEF Stamp
  <2> QED
    BY <1>2, <2>2, <2>3, <2>4
<1> QED
  BY <1>1, <1>2, <1>4, <1>5

----------------------------------------------------------------------------
(* The approval desk: whom it approves for design went through a chain.    *)
SignedFor(s) ==
  \E w \in Workflow :
    workflow[w].status # "NONE" /\ workflow[w].student = s /\ Approvals!FullySigned(w, signed)

ApprovalsKeep ==
  /\ SignaturesInv'
  /\ \A w \in Workflow : Kept(w)
  /\ student' \in [Student -> StudentRow]
  /\ \A s \in Student : student'[s].stage = "APPROVED_FOR_DESIGN" =>
       student'[s] = student[s] \/ SignedFor(s)'

LEMMA SignedForKept ==
  ASSUME NEW s \in Student, SignedFor(s), \A w \in Workflow : Kept(w)
  PROVE  SignedFor(s)'
<1>1. PICK w \in Workflow : /\ workflow[w].status # "NONE" /\ workflow[w].student = s
                            /\ Approvals!FullySigned(w, signed)
  BY DEF SignedFor
<1>2. Approvals!FullySigned(w, signed)'
  BY <1>1, FullySignedKept
<1>3. workflow'[w].status # "NONE" /\ workflow'[w].student = s
  BY <1>1 DEF Kept
<1> QED
  BY <1>2, <1>3 DEF SignedFor

LEMMA ApprovalReadsKeep ==
  ASSUME SignaturesInv, student \in [Student -> StudentRow], NEW sl \in Slot,
         \/ Approvals!ReadForStart(sl) \/ Approvals!ScanOpen(sl) \/ Approvals!BeginAct(sl)
         \/ Approvals!ReadWorkflow(sl) \/ Approvals!RefuseWorkflow(sl)
         \/ Approvals!CommitComment(sl)
  PROVE  ApprovalsKeep
<1>1. student' = student
  BY DEF Approvals!ReadForStart, Approvals!ScanOpen, Approvals!BeginAct,
         Approvals!ReadWorkflow, Approvals!RefuseWorkflow, Approvals!CommitComment
<1>2. student \in [Student -> Approvals!StudentRow]
  BY SameRows
<1>3. SignaturesInv' /\ \A w \in Workflow : Kept(w)
  BY <1>2, ReadingSigned, CommentSigned
<1> QED
  BY <1>1, <1>3 DEF ApprovalsKeep

(* The writes that mark students for something else than design            *)
LEMMA MarkedElsewhere ==
  ASSUME student \in [Student -> StudentRow], SignaturesInv', \A w \in Workflow : Kept(w),
         NEW ids, NEW stage \in Stage, NEW status \in Status, stage # "APPROVED_FOR_DESIGN",
         student' = Stamp(student, ids, stage, status)
  PROVE  ApprovalsKeep
<1>1. student' \in [Student -> StudentRow]
  BY StampedRows
<1>2. ASSUME NEW s \in Student, student'[s].stage = "APPROVED_FOR_DESIGN"
      PROVE  student'[s] = student[s]
  <2>1. s \notin ids
    BY <1>2, StampedRows
  <2> QED
    BY <2>1 DEF Stamp
<1> QED
  BY <1>1, <1>2 DEF ApprovalsKeep

LEMMA CommitsKeep ==
  ASSUME SignaturesInv, student \in [Student -> StudentRow], NEW sl \in Slot,
         \/ Approvals!CommitStart(sl) \/ Approvals!CommitReject(sl)
         \/ Approvals!CommitSendBack(sl)
  PROVE  ApprovalsKeep
<1> PICK r : r = req[sl]
  OBVIOUS
<1>1. SignaturesInv' /\ \A w \in Workflow : Kept(w)
  BY StartSigned, RejectSigned, SendBackSigned
<1>2. CASE Approvals!CommitStart(sl)
  <2>1. r.status \in Status
    BY <1>2, RestartShape, SameRows DEF Approvals!CommitStart, SignaturesInv
  <2> PICK status : status = Approvals!StatusAfterStart(r.status)
    OBVIOUS
  <2>2. status \in Status
    BY <2>1 DEF Approvals!StatusAfterStart, Status
  <2>3. student' = Stamp(student, {r.student}, "AWAITING_INSTITUTION_APPROVAL", status)
    BY <1>2, SameStamp DEF Approvals!CommitStart
  <2> QED
    BY <1>1, <2>2, <2>3, MarkedElsewhere DEF Stage
<1>3. CASE Approvals!CommitReject(sl)
  <2>1. student' = Stamp(student, {workflow[r.wf].student}, "REJECTED", "REJECTED")
    BY <1>3, SameStamp DEF Approvals!CommitReject
  <2> QED
    BY <1>1, <2>1, MarkedElsewhere DEF Stage, Status
<1>4. CASE Approvals!CommitSendBack(sl)
  <2>1. student' = Stamp(student, {workflow[r.wf].student}, "SALES_CORRECTED", "SUBMITTED")
    BY <1>4, SameStamp DEF Approvals!CommitSendBack
  <2> QED
    BY <1>1, <2>1, MarkedElsewhere DEF Stage, Status
<1> QED
  BY <1>2, <1>3, <1>4

LEMMA ApproveStepKeeps ==
  ASSUME SignaturesInv, student \in [Student -> StudentRow], NEW sl \in Slot,
         Approvals!CommitApproveStep(sl)
  PROVE  ApprovalsKeep
<1> PICK r : r = req[sl]
  OBVIOUS
<1>1. r.op = "act" /\ r.action = "APPROVE"
  BY DEF Approvals!CommitApproveStep, Approvals!CommitsAction
<1>2. r.wf \in Workflow /\ workflow[r.wf].student \in Student
  BY <1>1, DeciderKnows
<1> PICK t \in Student : t = workflow[r.wf].student
  BY <1>2
<1>3. student' = [student EXCEPT ![t].stage = "AWAITING_INSTITUTION_APPROVAL"]
  BY DEF Approvals!CommitApproveStep
<1>4. /\ student' \in [Student -> StudentRow]
      /\ student'[t].stage = "AWAITING_INSTITUTION_APPROVAL"
      /\ \A s \in Student : s # t => student'[s] = student[s]
  BY <1>3, StagedRows DEF Stage
<1>5. SignaturesInv' /\ \A w \in Workflow : Kept(w)
  BY ApproveStepSigned
<1> QED
  BY <1>4, <1>5 DEF ApprovalsKeep

LEMMA ApproveLastKeeps ==
  ASSUME SignaturesInv, student \in [Student -> StudentRow], NEW sl \in Slot,
         Approvals!CommitApproveLast(sl)
  PROVE  ApprovalsKeep
<1> PICK r : r = req[sl]
  OBVIOUS
<1>1. r.op = "act" /\ r.action = "APPROVE"
  BY DEF Approvals!CommitApproveLast, Approvals!CommitsAction
<1>2. /\ r.wf \in Workflow /\ workflow[r.wf].student \in Student
      /\ workflow[r.wf].status # "NONE"
  BY <1>1, DeciderKnows
<1> PICK w \in Workflow : w = r.wf
  BY <1>2
<1> PICK t \in Student : t = workflow[w].student
  BY <1>2
<1>3. student' = Stamp(student, {t}, "APPROVED_FOR_DESIGN", "SCHOOL_APPROVED")
  BY SameStamp DEF Approvals!CommitApproveLast
<1>4. student' \in [Student -> StudentRow]
  <2>1. "APPROVED_FOR_DESIGN" \in Stage /\ "SCHOOL_APPROVED" \in Status
    BY DEF Stage, Status
  <2> QED
    BY <1>3, <2>1, StampedRows
<1>5. /\ SignaturesInv' /\ \A v \in Workflow : Kept(v)
      /\ Approvals!FullySigned(w, signed)'
  BY ApproveLastSigned
<1>6. workflow'[w].status # "NONE" /\ workflow'[w].student = t
  BY <1>2, <1>5 DEF Kept
<1>7. SignedFor(t)'
  BY <1>5, <1>6 DEF SignedFor
<1>8. \A s \in Student : s # t => student'[s] = student[s]
  BY <1>3 DEF Stamp
<1> QED
  BY <1>4, <1>5, <1>7, <1>8 DEF ApprovalsKeep

LEMMA ApproveKeeps ==
  ASSUME SignaturesInv, student \in [Student -> StudentRow], NEW sl \in Slot, Approve(sl)
  PROVE  ApprovalsKeep
BY ApprovalReadsKeep, CommitsKeep, ApproveStepKeeps, ApproveLastKeeps DEF Approve

(* Steps of another desk, and a crash                                      *)
LEMMA SignedElsewhere ==
  ASSUME SignaturesInv, workflow' = workflow, signed' = signed,
         req' = req \/ req' = [sl \in Slot |-> Idle]
  PROVE  SignaturesInv' /\ \A w \in Workflow : Kept(w)
<1>1. \A w \in Workflow : Kept(w)
  BY DEF Kept
<1>2. Idle \in Approvals!Request /\ Idle.op # "act"
  BY SameRows, IdleIsRequest DEF Idle
<1>3. req' \in [Slot -> Approvals!Request]
  BY <1>2 DEF SignaturesInv, WorkflowRows
<1>4. WorkflowRows'
  BY <1>3 DEF SignaturesInv, WorkflowRows
<1>5. ASSUME NEW w \in Workflow
      PROVE  Covered(w, workflow[w].status, workflow[w].step)'
  <2>1. Covered(w, workflow[w].status, workflow[w].step)
    BY DEF SignaturesInv, RowsCovered
  <2> QED
    BY <2>1 DEF Covered, Approvals!FullySigned, Approvals!SignedUpTo, Approvals!SignedBy,
                Approvals!Steps
<1>6. \A o \in Slot : req'[o].op = "act" => req'[o] = req[o]
  BY <1>2
<1> QED
  BY <1>1, <1>4, <1>5, <1>6, SignaturesKept

----------------------------------------------------------------------------
(* The print line: whom it queues is on a job.                             *)
OnAJob(s) == \E b \in Batch : s \in job[b].items

PrintKeeps ==
  /\ PressInv'
  /\ \A b \in Batch : job[b].items \subseteq job'[b].items
  /\ student' \in [Student -> StudentRow]
  /\ \A s \in Student : student'[s].stage = "IN_PRINT_QUEUE" =>
       student'[s] = student[s] \/ OnAJob(s)'

LEMMA OnAJobKept ==
  ASSUME NEW s, OnAJob(s), \A b \in Batch : job[b].items \subseteq job'[b].items
  PROVE  OnAJob(s)'
BY DEF OnAJob

LEMMA SameStudentsPrint ==
  ASSUME student \in [Student -> StudentRow], student' = student, PressInv',
         \A b \in Batch : job[b].items \subseteq job'[b].items
  PROVE  PrintKeeps
BY DEF PrintKeeps

LEMMA PressReadsKeep ==
  ASSUME PressInv, student \in [Student -> StudentRow], NEW sl \in Slot,
         \/ Press!BeginDispatch(sl)   \/ Press!BeginReprint(sl)
         \/ Press!ReadJobForMove(sl)  \/ Press!ReadJobForFile(sl)
         \/ Press!ReadJobForIssue(sl) \/ Press!ReadForReissue(sl)
  PROVE  PrintKeeps
<1>1. PressInv'
  <2>1. CASE Press!BeginDispatch(sl) \/ Press!BeginReprint(sl)
    <3>1. PICK ids \in SUBSET Student : Press!BeginBatch(sl, ids)
      BY <2>1 DEF Press!BeginDispatch, Press!BeginReprint
    <3> QED
      BY <3>1, BeginBatchKeeps
  <2>2. CASE \/ Press!ReadJobForMove(sl)  \/ Press!ReadJobForFile(sl)
             \/ Press!ReadJobForIssue(sl) \/ Press!ReadForReissue(sl)
    BY <2>2, ReadingKeeps
  <2> QED
    BY <2>1, <2>2
<1>2. student' = student /\ job' = job
  BY DEF Press!BeginDispatch, Press!BeginReprint, Press!BeginBatch, Press!ReadJobForMove,
         Press!ReadJobForFile, Press!ReadJobForIssue, Press!ReadForReissue, Press!Enter
<1> QED
  BY <1>1, <1>2, SameStudentsPrint

LEMMA BatchRowsKeep ==
  ASSUME PressInv, student \in [Student -> StudentRow], NEW sl \in Slot,
         \/ Press!CreateOrder(sl) \/ Press!LinkOrder(sl) \/ Press!CreateJob(sl)
         \/ Press!RefuseJob(sl)   \/ Press!CreateItems(sl) \/ Press!CommitFile(sl)
  PROVE  PrintKeeps
<1> PICK r : r = printReq[sl]
  OBVIOUS
<1>1. PressInv' /\ student' = student
  BY CreateOrderKeeps, LinkOrderKeeps, CreateJobKeeps, EndingKeeps, CreateItemsKeeps, CommitFileKeeps
     DEF Press!CreateOrder, Press!LinkOrder, Press!CreateJob, Press!RefuseJob,
         Press!CreateItems, Press!CommitFile
<1>2. job \in [Batch -> Press!JobRow]
  BY DEF PressInv, PrintRows
<1>3. CASE Press!CreateOrder(sl) \/ Press!LinkOrder(sl) \/ Press!RefuseJob(sl)
  <2>1. job' = job
    BY <1>3 DEF Press!CreateOrder, Press!LinkOrder, Press!RefuseJob
  <2> QED
    BY <1>1, <2>1, SameStudentsPrint
<1>4. CASE Press!CreateJob(sl) \/ Press!CommitFile(sl)
  <2>1. \/ job' = [job EXCEPT ![r.batch].status = "READY_FOR_PRINT"]
        \/ job' = [job EXCEPT ![r.batch].file = {r.students}]
    BY <1>4 DEF Press!CreateJob, Press!CommitFile
  <2>2. \A b \in Batch : job'[b].items = job[b].items
    BY <1>2, <2>1 DEF Press!JobRow
  <2> QED
    BY <1>1, <2>2, SameStudentsPrint
<1>5. CASE Press!CreateItems(sl)
  <2>1. /\ r.op = "items" /\ Placed(r)
        /\ job' = [job EXCEPT ![r.batch].items = r.students]
    BY <1>5 DEF Press!CreateItems, PressInv, RequestsPlaced
  <2>2. job[r.batch].items = {}
    BY <2>1 DEF Placed
  <2>3. \A b \in Batch : b # r.batch => job'[b] = job[b]
    BY <1>2, <2>1
  <2> QED
    BY <1>1, <2>2, <2>3, SameStudentsPrint
<1> QED
  BY <1>3, <1>4, <1>5

LEMMA QueueingKeeps ==
  ASSUME PressInv, student \in [Student -> StudentRow], NEW sl \in Slot,
         Press!QueueStudents(sl)
  PROVE  PrintKeeps
<1> PICK r : r = printReq[sl]
  OBVIOUS
<1>1. /\ r.op = "queue" /\ Placed(r) /\ Builds(r)
      /\ student' = Stamp(student, r.students, "IN_PRINT_QUEUE", "IN_PRINT_QUEUE")
      /\ job' = job
  BY SameStamp DEF Press!QueueStudents, PressInv, RequestsPlaced, Builds
<1>2. r.batch \in Batch /\ job[r.batch].items = r.students
  BY <1>1, BatchOf DEF PressInv, Placed
<1>3. student' \in [Student -> StudentRow]
  <2>1. "IN_PRINT_QUEUE" \in Stage /\ "IN_PRINT_QUEUE" \in Status
    BY DEF Stage, Status
  <2> QED
    BY <1>1, <2>1, StampedRows
<1>4. \A s \in Student : s \in r.students => OnAJob(s)'
  BY <1>1, <1>2 DEF OnAJob
<1>5. \A s \in Student : s \notin r.students => student'[s] = student[s]
  BY <1>1 DEF Stamp
<1>6. PressInv'
  BY EndingKeeps
<1> QED
  BY <1>1, <1>3, <1>4, <1>5, <1>6 DEF PrintKeeps

(* The writes that mark students for something else than the queue         *)
LEMMA NobodyQueued ==
  ASSUME student \in [Student -> StudentRow], PressInv',
         \A b \in Batch : job[b].items \subseteq job'[b].items,
         NEW ids, NEW stage \in Stage, NEW status \in Status, stage # "IN_PRINT_QUEUE",
         student' = Stamp(student, ids, stage, status)
  PROVE  PrintKeeps
<1>1. student' \in [Student -> StudentRow]
  BY StampedRows
<1>2. ASSUME NEW s \in Student, student'[s].stage = "IN_PRINT_QUEUE"
      PROVE  student'[s] = student[s]
  <2>1. s \notin ids
    BY <1>2, StampedRows
  <2> QED
    BY <2>1 DEF Stamp
<1> QED
  BY <1>1, <1>2 DEF PrintKeeps

LEMMA MarkingKeeps ==
  ASSUME PressInv, student \in [Student -> StudentRow], NEW sl \in Slot,
         Press!CommitIssue(sl) \/ Press!CommitReissue(sl)
  PROVE  PrintKeeps
<1> PICK r : r = printReq[sl]
  OBVIOUS
<1>1. PressInv' /\ job' = job
  BY EndingKeeps DEF Press!CommitIssue, Press!CommitReissue
<1>2. CASE Press!CommitIssue(sl)
  <2>1. r.stage \in {"ISSUED", "REISSUED"}
    BY <1>2, IssuingShape DEF Press!CommitIssue, Press!Issuing, PressInv
  <2>2. student' = Stamp(student, r.students, r.stage, "DELIVERED")
    BY <1>2, SameStamp DEF Press!CommitIssue
  <2> QED
    BY <1>1, <2>1, <2>2, NobodyQueued DEF Stage, Status
<1>3. CASE Press!CommitReissue(sl)
  <2>1. student' = Stamp(student, r.students, "REISSUE_REQUESTED", "SUBMITTED")
    BY <1>3, SameStamp DEF Press!CommitReissue
  <2> QED
    BY <1>1, <2>1, NobodyQueued DEF Stage, Status
<1> QED
  BY <1>2, <1>3

LEMMA MovingKeeps ==
  ASSUME PressInv, student \in [Student -> StudentRow], NEW sl \in Slot,
         Press!CommitMove(sl)
  PROVE  PrintKeeps
<1> PICK r : r = printReq[sl]
  OBVIOUS
<1>1. /\ PressInv' /\ student' = Press!MoveStudents(r)
      /\ job' = [job EXCEPT ![r.batch].status = r.to]
  BY CommitMoveKeeps DEF Press!CommitMove
<1>2. \A b \in Batch : job'[b].items = job[b].items
  BY <1>1 DEF PressInv, PrintRows, Press!JobRow
<1>3. CASE r.to = "PRINTED"
  <2>1. student' = Stamp(student, r.students, "PRINTED", "PRINTED")
    BY <1>1, <1>3, SameStamp DEF Press!MoveStudents
  <2> QED
    BY <1>1, <1>2, <2>1, NobodyQueued DEF Stage, Status
<1>4. CASE r.to = "DISPATCHED"
  <2>1. student' = Stamp(student, r.students, "DISPATCHED", "DELIVERED")
    BY <1>1, <1>4, SameStamp DEF Press!MoveStudents
  <2> QED
    BY <1>1, <1>2, <2>1, NobodyQueued DEF Stage, Status
<1>5. CASE r.to \notin {"PRINTED", "DISPATCHED"}
  <2>1. student' = student
    BY <1>1, <1>5 DEF Press!MoveStudents
  <2> QED
    BY <1>1, <1>2, <2>1, SameStudentsPrint
<1> QED
  BY <1>3, <1>4, <1>5

LEMMA PrintCardsKeep ==
  ASSUME PressInv, student \in [Student -> StudentRow], NEW sl \in Slot, PrintCards(sl)
  PROVE  PrintKeeps
BY PressReadsKeep, BatchRowsKeep, QueueingKeeps, MarkingKeeps, MovingKeeps
   DEF PrintCards, Press!BatchStep

LEMMA PressElsewhere ==
  ASSUME PressInv, UNCHANGED <<order, job>>,
         printReq' = printReq \/ printReq' = [sl \in Slot |-> Idle]
  PROVE  PressInv' /\ \A b \in Batch : job[b].items \subseteq job'[b].items
<1>1. CASE printReq' = [sl \in Slot |-> Idle]
  BY <1>1, SameRows, PressRestart
<1>2. CASE printReq' = printReq
  <2>1. PrintRows' /\ BatchesApart' /\ UnmadeJobIsEmpty' /\ Press!OrderMirrorsJob'
    BY <1>2 DEF PressInv, PrintRows, BatchesApart, UnmadeJobIsEmpty, Press!OrderMirrorsJob
  <2>2. RequestsPlaced'
    BY <1>2 DEF PressInv, RequestsPlaced, Placed
  <2> QED
    BY <2>1, <2>2 DEF PressInv
<1> QED
  BY <1>1, <1>2

----------------------------------------------------------------------------
(* What holds however many requests are in flight.                         *)
Types ==
  /\ student \in [Student -> StudentRow]
  /\ deskReq \in [Slot -> Desk!Request]
  /\ load \in Loads
  /\ Busy <= load

SignedStage ==
  \A s \in Student :
    stagedBy[s] = "approval" /\ student[s].stage = "APPROVED_FOR_DESIGN" => SignedFor(s)

QueuedStage ==
  \A s \in Student :
    stagedBy[s] = "print" /\ student[s].stage = "IN_PRINT_QUEUE" => OnAJob(s)

SharedInv == Types /\ SignaturesInv /\ PressInv /\ SignedStage /\ QueuedStage

LEMMA IdleSlots ==
  ASSUME NEW slots, \A sl \in Slot : slots[sl] = Idle
  PROVE  InFlight(slots) = 0
<1>1. {sl \in Slot : slots[sl] # Idle} = {}
  OBVIOUS
<1> QED
  BY <1>1, FS_EmptySet DEF InFlight

LEMMA SharedInit == Init => SharedInv
<1> SUFFICES ASSUME Init PROVE SharedInv
  OBVIOUS
<1>1. /\ req = [sl \in Slot |-> Idle] /\ printReq = [sl \in Slot |-> Idle]
      /\ deskReq = [sl \in Slot |-> Idle]
  BY SameRows DEF Init, Approvals!Init, Press!Init
<1>2. Types
  <2>1. student \in [Student -> StudentRow]
    BY LifecycleAssumption, SameRows DEF Init, Press!Init, Press!StudentAssumption
  <2>2. deskReq \in [Slot -> Desk!Request]
    BY <1>1, SameRows DEF Desk!Request
  <2>3. InFlight(req) = 0 /\ InFlight(printReq) = 0 /\ InFlight(deskReq) = 0
    BY <1>1, IdleSlots
  <2>4. load \in Loads /\ load \in Nat
    BY LifecycleAssumption DEF Init
  <2> QED
    BY <2>1, <2>2, <2>3, <2>4 DEF Types, Busy
<1>3. SignaturesInv
  <2>1. \A w \in Workflow : workflow[w] = Approvals!NoWorkflow
    BY DEF Init, Approvals!Init
  <2>2. /\ Approvals!NoWorkflow \in Approvals!WorkflowRow
        /\ Approvals!NoWorkflow.status = "NONE" /\ Approvals!NoWorkflow.step = 0
    BY LifecycleAssumption
       DEF Approvals!PeopleAssumption, Approvals!NoWorkflow, Approvals!WorkflowRow, Approvals!WorkflowStatus
  <2>3. WorkflowRows
    BY <1>1, <2>1, <2>2, IdleIsRequest, SameRows DEF Init, Approvals!Init, WorkflowRows
  <2>4. RowsCovered
    BY <2>1, <2>2 DEF RowsCovered, Covered
  <2>5. SnapshotsCovered
    BY <1>1 DEF SnapshotsCovered, Idle
  <2> QED
    BY <2>3, <2>4, <2>5 DEF SignaturesInv
<1>4. PressInv
  BY PressInit DEF Init
<1>5. SignedStage /\ QueuedStage
  BY DEF Init, SignedStage, QueuedStage
<1> QED
  BY <1>2, <1>3, <1>4, <1>5 DEF SharedInv

(* A step that does not undo what the others rely on                       *)
LEMMA SharedKept ==
  ASSUME SharedInv, SignaturesInv', PressInv', Types', \A w \in Workflow : Kept(w),
         \A b \in Batch : job[b].items \subseteq job'[b].items,
         NEW who,
         stagedBy' = [s \in Student |->
           IF student'[s].stage # student[s].stage THEN who ELSE stagedBy[s]],
         who = "approval" => \A s \in Student : student'[s].stage = "APPROVED_FOR_DESIGN" =>
                               student'[s] = student[s] \/ SignedFor(s)',
         who = "print" => \A s \in Student : student'[s].stage = "IN_PRINT_QUEUE" =>
                            student'[s] = student[s] \/ OnAJob(s)'
  PROVE  SharedInv'
<1>1. SignedStage'
  <2> SUFFICES ASSUME NEW s \in Student, stagedBy'[s] = "approval",
                      student'[s].stage = "APPROVED_FOR_DESIGN"
               PROVE  SignedFor(s)'
    BY DEF SignedStage
  <2>1. CASE student'[s].stage # student[s].stage
    <3>1. who = "approval"
      BY <2>1
    <3> QED
      BY <2>1, <3>1
  <2>2. CASE student'[s].stage = student[s].stage
    <3>1. SignedFor(s)
      BY <2>2 DEF SharedInv, SignedStage
    <3> QED
      BY <3>1, SignedForKept
  <2> QED
    BY <2>1, <2>2
<1>2. QueuedStage'
  <2> SUFFICES ASSUME NEW s \in Student, stagedBy'[s] = "print",
                      student'[s].stage = "IN_PRINT_QUEUE"
               PROVE  OnAJob(s)'
    BY DEF QueuedStage
  <2>1. CASE student'[s].stage # student[s].stage
    <3>1. who = "print"
      BY <2>1
    <3> QED
      BY <2>1, <3>1
  <2>2. CASE student'[s].stage = student[s].stage
    <3>1. OnAJob(s)
      BY <2>2 DEF SharedInv, QueuedStage
    <3> QED
      BY <3>1, OnAJobKept
  <2> QED
    BY <2>1, <2>2
<1> QED
  BY <1>1, <1>2 DEF SharedInv

LEMMA ApproveShared ==
  ASSUME SharedInv, NEW sl \in Slot, Approve(sl)
  PROVE  SharedInv'
<1>1. UNCHANGED <<order, job, printReq, deskReq>> /\ Remember("approval")
  BY DEF Approve, printVars
<1>2. ApprovalsKeep
  BY ApproveKeeps DEF SharedInv, Types
<1>3. PressInv' /\ \A b \in Batch : job[b].items \subseteq job'[b].items
  BY <1>1, PressElsewhere DEF SharedInv
<1>4. Types'
  BY <1>1, <1>2 DEF SharedInv, Types, ApprovalsKeep, Remember
<1> QED
  BY <1>1, <1>2, <1>3, <1>4, SharedKept DEF ApprovalsKeep, Remember

LEMMA PrintShared ==
  ASSUME SharedInv, NEW sl \in Slot, PrintCards(sl)
  PROVE  SharedInv'
<1>1. UNCHANGED <<workflow, signed, req, deskReq>> /\ Remember("print")
  BY DEF PrintCards, approvalVars
<1>2. PrintKeeps
  BY PrintCardsKeep DEF SharedInv, Types
<1>3. SignaturesInv' /\ \A w \in Workflow : Kept(w)
  BY <1>1, SignedElsewhere DEF SharedInv
<1>4. Types'
  BY <1>1, <1>2 DEF SharedInv, Types, PrintKeeps, Remember
<1> QED
  BY <1>1, <1>2, <1>3, <1>4, SharedKept DEF PrintKeeps, Remember

LEMMA ReviewTypes ==
  ASSUME DeskRows, NEW sl \in Slot, Review(sl)
  PROVE  DeskRows'
<1>1. Idle \in Desk!Request
  BY SameRows DEF Desk!Request
<1>2. CASE Desk!Begin(sl)
  <2>1. PICK q \in Desk!Request : deskReq' = [deskReq EXCEPT ![sl] = q]
    BY <1>2, ReviewReads
  <2>2. student' = student
    BY <1>2, ReviewReads
  <2> QED
    BY <2>1, <2>2 DEF DeskRows
<1>3. CASE Desk!MoveOn(sl) \/ Desk!Decide(sl) \/ Desk!Route(sl)
  <2>1. deskReq' = [deskReq EXCEPT ![sl] = Idle] /\ student' \in [Student -> StudentRow]
    BY <1>3, MoveOnWrites, DecideWrites, RouteWrites
  <2> QED
    BY <1>1, <2>1 DEF DeskRows
<1> QED
  BY <1>2, <1>3 DEF Review

LEMMA ReviewShared ==
  ASSUME SharedInv, NEW sl \in Slot, Review(sl)
  PROVE  SharedInv'
<1>1. UNCHANGED <<workflow, signed, req, order, job, printReq>> /\ Remember("desk")
  BY DEF Review, approvalVars, printVars
<1>2. SignaturesInv' /\ \A w \in Workflow : Kept(w)
  BY <1>1, SignedElsewhere DEF SharedInv
<1>3. PressInv' /\ \A b \in Batch : job[b].items \subseteq job'[b].items
  BY <1>1, PressElsewhere DEF SharedInv
<1>4. DeskRows'
  BY ReviewTypes DEF SharedInv, Types, DeskRows
<1>5. Types'
  BY <1>1, <1>4 DEF SharedInv, Types, DeskRows, Remember
<1> QED
  BY <1>1, <1>2, <1>3, <1>5, SharedKept DEF Remember

LEMMA RestartShared ==
  ASSUME SharedInv, ProcessRestart
  PROVE  SharedInv'
<1>1. /\ req' = [sl \in Slot |-> Idle] /\ printReq' = [sl \in Slot |-> Idle]
      /\ deskReq' = [sl \in Slot |-> Idle]
      /\ UNCHANGED <<student, workflow, signed, order, job, load, stagedBy>>
  BY DEF ProcessRestart
<1>2. SignaturesInv' /\ \A w \in Workflow : Kept(w)
  BY <1>1, SignedElsewhere DEF SharedInv
<1>3. PressInv' /\ \A b \in Batch : job[b].items \subseteq job'[b].items
  BY <1>1, PressElsewhere DEF SharedInv
<1>4. Types'
  <2>1. \A sl \in Slot : req'[sl] = Idle /\ printReq'[sl] = Idle /\ deskReq'[sl] = Idle
    BY <1>1
  <2>2. InFlight(req') = 0 /\ InFlight(printReq') = 0 /\ InFlight(deskReq') = 0
    BY <2>1, IdleSlots
  <2>3. Busy' = 0
    BY <2>2 DEF Busy, InFlight
  <2>4. deskReq' \in [Slot -> Desk!Request]
    BY <1>1, SameRows DEF Desk!Request
  <2>5. load \in Nat
    BY LifecycleAssumption DEF SharedInv, Types
  <2> QED
    BY <1>1, <2>3, <2>4, <2>5 DEF SharedInv, Types
<1>5. SignedStage'
  BY <1>1, <1>2, SignedForKept DEF SharedInv, SignedStage
<1>6. QueuedStage'
  BY <1>1, <1>3, OnAJobKept DEF SharedInv, QueuedStage
<1> QED
  BY <1>2, <1>3, <1>4, <1>5, <1>6 DEF SharedInv

LEMMA SharedStep == SharedInv /\ [Next]_vars => SharedInv'
<1> SUFFICES ASSUME SharedInv, [Next]_vars PROVE SharedInv'
  OBVIOUS
<1>1. ASSUME NEW sl \in Slot, Approve(sl) \/ PrintCards(sl) \/ Review(sl) PROVE SharedInv'
  BY <1>1, ApproveShared, PrintShared, ReviewShared
<1>2. CASE ProcessRestart
  BY <1>2, RestartShared
<1>3. CASE UNCHANGED vars
  <2>1. UNCHANGED <<student, workflow, signed, req, order, job, printReq, deskReq, load, stagedBy>>
    BY <1>3 DEF vars, approvalVars, printVars
  <2>2. SignaturesInv' /\ \A w \in Workflow : Kept(w)
    BY <2>1, SignedElsewhere DEF SharedInv
  <2>3. PressInv' /\ \A b \in Batch : job[b].items \subseteq job'[b].items
    BY <2>1, PressElsewhere DEF SharedInv
  <2>4. Types'
    BY <2>1 DEF SharedInv, Types, Busy, InFlight
  <2>5. SignedStage'
    BY <2>1, <2>2, SignedForKept DEF SharedInv, SignedStage
  <2>6. QueuedStage'
    BY <2>1, <2>3, OnAJobKept DEF SharedInv, QueuedStage
  <2> QED
    BY <2>2, <2>3, <2>4, <2>5, <2>6 DEF SharedInv
<1> QED
  BY <1>1, <1>2, <1>3 DEF Next

----------------------------------------------------------------------------
(***************************************************************************)
(* Requests one at a time                                                  *)
(***************************************************************************)

(* What a request has read is still so: startApprovalWorkflow's status and *)
(* open workflows, an action's row,                                        *)
ApprovalReads(r) ==
  /\ r.op \in {"start", "restart"} => r.status = student[r.student].status
  /\ r.op = "restart" => r.open = Approvals!OpenWorkflows(r.student)
  /\ r.op = "act" => r.status = workflow[r.wf].status /\ r.step = workflow[r.wf].step

(* a job's items and status; and the students of a batch being built are   *)
(* ready for it, and on no job before it.                                  *)
PressReads(r) ==
  /\ r.op = "move" => /\ r.students = job[r.batch].items
                      /\ r.to \in Press!NextStatus(job[r.batch].status)
  /\ Builds(r) => \A s \in r.students \ excused :
       Ready(s) /\ ~student[s].deleted /\ (r.op # "queue" => OpenJobs(s) = {})

ReadsCurrent ==
  \A sl \in Slot : ApprovalReads(req[sl]) /\ PressReads(printReq[sl]) /\ DeskReads(deskReq[sl])

StageFollows ==
  \A s \in Student, w \in Workflow :
    stagedBy[s] = "approval" /\ Approvals!Active(w) /\ workflow[w].student = s =>
      student[s].stage =
        IF workflow[w].status = "SENT_BACK" THEN "SALES_CORRECTED"
                                            ELSE "AWAITING_INSTITUTION_APPROVAL"

StatusDecided == decided = [s \in Student |-> student[s].status]

NoJobAtCreated == \A b \in Batch : job[b].status # "CREATED"

(* About to be queued: the last statement of a dispatch is to come.        *)
Queuing(s) == \E sl \in Slot : printReq[sl].op = "queue" /\ s \in printReq[sl].students

OneCard ==
  \A s \in Student \ excused :
    /\ \A b, c \in OpenJobs(s) : b = c
    /\ OpenJobs(s) # {} => InQueue(s) \/ Queuing(s)

SerialInv ==
  load = 1 =>
    /\ Approvals!OneActiveWorkflow
    /\ StageFollows
    /\ StatusDecided
    /\ ReadsCurrent
    /\ NoJobAtCreated
    /\ OneCard

LEMMA IdleReads ==
  /\ ApprovalReads(Idle) /\ PressReads(Idle) /\ DeskReads(Idle)
  /\ ApprovalReads(Idle)' /\ PressReads(Idle)' /\ DeskReads(Idle)'
  /\ Idle.op \notin {"queue", "order", "act", "start", "restart"}
BY DEF Idle, ApprovalReads, PressReads, DeskReads, Builds

(* With one request in flight, the others are idle before and after each   *)
(* of its steps.                                                           *)
LEMMA ApproveAlone ==
  ASSUME SharedInv, SharedInv', load = 1, load' = load, NEW sl \in Slot, NEW q,
         req' = [req EXCEPT ![sl] = q], UNCHANGED <<printReq, deskReq>>,
         req[sl] # Idle \/ q # Idle
  PROVE  /\ req'[sl] = q
         /\ \A o \in Slot : o # sl => req[o] = Idle /\ req'[o] = Idle
         /\ \A o \in Slot : printReq[o] = Idle /\ deskReq[o] = Idle
<1>1. req'[sl] = q /\ \A o \in Slot : o # sl => req'[o] = req[o]
  BY DEF SharedInv, SignaturesInv, WorkflowRows
<1>2. OneInFlight(req, printReq, deskReq) /\ OneInFlight(req', printReq, deskReq)
  <2>1. Busy <= 1 /\ Busy' <= 1
    BY DEF SharedInv, Types
  <2>2. /\ InFlight(req) \in Nat /\ InFlight(printReq) \in Nat /\ InFlight(deskReq) \in Nat
        /\ InFlight(req') \in Nat
    BY CountIsNat
  <2> QED
    BY <2>1, <2>2 DEF Busy, OneInFlight, InFlight
<1>3. CASE req[sl] # Idle
  <2>1. \A o \in Slot : (o # sl => req[o] = Idle) /\ printReq[o] = Idle /\ deskReq[o] = Idle
    BY <1>2, <1>3, NobodyElse
  <2> QED
    BY <1>1, <2>1
<1>4. CASE q # Idle
  <2>1. req'[sl] # Idle
    BY <1>1, <1>4
  <2>2. \A o \in Slot : (o # sl => req'[o] = Idle) /\ printReq[o] = Idle /\ deskReq[o] = Idle
    BY <1>2, <2>1, NobodyElse
  <2> QED
    BY <1>1, <2>2
<1> QED
  BY <1>3, <1>4

LEMMA PrintAlone ==
  ASSUME SharedInv, SharedInv', load = 1, load' = load, NEW sl \in Slot, NEW q,
         printReq' = [printReq EXCEPT ![sl] = q], UNCHANGED <<req, deskReq>>,
         printReq[sl] # Idle \/ q # Idle
  PROVE  /\ printReq'[sl] = q
         /\ \A o \in Slot : o # sl => printReq[o] = Idle /\ printReq'[o] = Idle
         /\ \A o \in Slot : req[o] = Idle /\ deskReq[o] = Idle
<1>1. printReq'[sl] = q /\ \A o \in Slot : o # sl => printReq'[o] = printReq[o]
  BY DEF SharedInv, PressInv, PrintRows
<1>2. OneInFlight(printReq, req, deskReq) /\ OneInFlight(printReq', req, deskReq)
  <2>1. Busy <= 1 /\ Busy' <= 1
    BY DEF SharedInv, Types
  <2>2. /\ InFlight(req) \in Nat /\ InFlight(printReq) \in Nat /\ InFlight(deskReq) \in Nat
        /\ InFlight(printReq') \in Nat
    BY CountIsNat
  <2> QED
    BY <2>1, <2>2 DEF Busy, OneInFlight, InFlight
<1>3. CASE printReq[sl] # Idle
  <2>1. \A o \in Slot : (o # sl => printReq[o] = Idle) /\ req[o] = Idle /\ deskReq[o] = Idle
    BY <1>2, <1>3, NobodyElse
  <2> QED
    BY <1>1, <2>1
<1>4. CASE q # Idle
  <2>1. printReq'[sl] # Idle
    BY <1>1, <1>4
  <2>2. \A o \in Slot : (o # sl => printReq'[o] = Idle) /\ req[o] = Idle /\ deskReq[o] = Idle
    BY <1>2, <2>1, NobodyElse
  <2> QED
    BY <1>1, <2>2
<1> QED
  BY <1>3, <1>4

LEMMA ReviewAlone ==
  ASSUME SharedInv, SharedInv', load = 1, load' = load, NEW sl \in Slot, NEW q,
         deskReq' = [deskReq EXCEPT ![sl] = q], UNCHANGED <<req, printReq>>,
         deskReq[sl] # Idle \/ q # Idle
  PROVE  /\ deskReq'[sl] = q
         /\ \A o \in Slot : o # sl => deskReq[o] = Idle /\ deskReq'[o] = Idle
         /\ \A o \in Slot : req[o] = Idle /\ printReq[o] = Idle
<1>1. deskReq'[sl] = q /\ \A o \in Slot : o # sl => deskReq'[o] = deskReq[o]
  BY DEF SharedInv, Types
<1>2. OneInFlight(deskReq, req, printReq) /\ OneInFlight(deskReq', req, printReq)
  <2>1. Busy <= 1 /\ Busy' <= 1
    BY DEF SharedInv, Types
  <2>2. /\ InFlight(req) \in Nat /\ InFlight(printReq) \in Nat /\ InFlight(deskReq) \in Nat
        /\ InFlight(deskReq') \in Nat
    BY CountIsNat
  <2> QED
    BY <2>1, <2>2 DEF Busy, OneInFlight, InFlight
<1>3. CASE deskReq[sl] # Idle
  <2>1. \A o \in Slot : (o # sl => deskReq[o] = Idle) /\ req[o] = Idle /\ printReq[o] = Idle
    BY <1>2, <1>3, NobodyElse
  <2> QED
    BY <1>1, <2>1
<1>4. CASE q # Idle
  <2>1. deskReq'[sl] # Idle
    BY <1>1, <1>4
  <2>2. \A o \in Slot : (o # sl => deskReq'[o] = Idle) /\ req[o] = Idle /\ printReq[o] = Idle
    BY <1>2, <2>1, NobodyElse
  <2> QED
    BY <1>1, <2>2
<1> QED
  BY <1>3, <1>4

----------------------------------------------------------------------------
(* Steps of the approval desk, requests one at a time                      *)
LEMMA ActiveStatus ==
  ASSUME SignaturesInv, NEW w \in Workflow, Approvals!Active(w)
  PROVE  workflow[w].status \in {"IN_PROGRESS", "SENT_BACK"}
BY DEF SignaturesInv, RowsCovered, Covered, Approvals!Active

(* No workflow becomes active and no student moves under an active one.    *)
LEMMA StagesStand ==
  ASSUME Approvals!OneActiveWorkflow, StageFollows,
         \A w \in Workflow : Approvals!Active(w)' =>
           /\ Approvals!Active(w)
           /\ workflow'[w].student = workflow[w].student
           /\ workflow'[w].status = workflow[w].status,
         \A s \in Student : stagedBy'[s] = "approval" =>
           stagedBy[s] = "approval" /\ student'[s].stage = student[s].stage
  PROVE  Approvals!OneActiveWorkflow' /\ StageFollows'
<1>1. Approvals!OneActiveWorkflow'
  BY DEF Approvals!OneActiveWorkflow
<1>2. StageFollows'
  BY DEF StageFollows
<1> QED
  BY <1>1, <1>2

(* The workflow v of the student t moves, and with it the student; no other *)
(* workflow waits for approvers of t.                                      *)
LEMMA StagesMove ==
  ASSUME Approvals!OneActiveWorkflow, StageFollows, Remember("approval"),
         NEW t \in Student, NEW v \in Workflow,
         \A w \in Workflow : w # v /\ Approvals!Active(w)' =>
           Approvals!Active(w) /\ workflow'[w] = workflow[w] /\ workflow[w].student # t,
         Approvals!Active(v)' =>
           /\ workflow'[v].student = t
           /\ student'[t].stage =
                IF workflow'[v].status = "SENT_BACK" THEN "SALES_CORRECTED"
                                                     ELSE "AWAITING_INSTITUTION_APPROVAL",
         \A s \in Student : s # t => student'[s] = student[s]
  PROVE  Approvals!OneActiveWorkflow' /\ StageFollows'
<1>1. Approvals!OneActiveWorkflow'
  <2> SUFFICES ASSUME NEW u \in Workflow, NEW w \in Workflow,
                      Approvals!Active(u)', Approvals!Active(w)',
                      workflow'[u].student = workflow'[w].student
               PROVE  u = w
    BY DEF Approvals!OneActiveWorkflow
  <2>1. CASE u = v \/ w = v
    BY <2>1
  <2>2. CASE u # v /\ w # v
    <3>1. Approvals!Active(u) /\ Approvals!Active(w) /\ workflow[u].student = workflow[w].student
      BY <2>2
    <3> QED
      BY <3>1 DEF Approvals!OneActiveWorkflow
  <2> QED
    BY <2>1, <2>2
<1>2. StageFollows'
  <2> SUFFICES ASSUME NEW s \in Student, NEW w \in Workflow, stagedBy'[s] = "approval",
                      Approvals!Active(w)', workflow'[w].student = s
               PROVE  student'[s].stage =
                        IF workflow'[w].status = "SENT_BACK"
                        THEN "SALES_CORRECTED" ELSE "AWAITING_INSTITUTION_APPROVAL"
    BY DEF StageFollows
  <2>1. CASE w = v
    BY <2>1
  <2>2. CASE w # v
    <3>1. Approvals!Active(w) /\ workflow'[w] = workflow[w] /\ s # t
      BY <2>2
    <3>2. student'[s] = student[s] /\ stagedBy'[s] = stagedBy[s]
      BY <3>1 DEF Remember
    <3> QED
      BY <3>1, <3>2 DEF StageFollows
  <2> QED
    BY <2>1, <2>2
<1> QED
  BY <1>1, <1>2

(* What a request that acts has read is an active workflow.                *)
LEMMA ActsOnActive ==
  ASSUME SignaturesInv, NEW sl \in Slot, NEW r, r = req[sl], r.op = "act",
         r.action # "COMMENT", ApprovalReads(r)
  PROVE  /\ r.wf \in Workflow /\ workflow[r.wf].student \in Student
         /\ Approvals!Active(r.wf)
<1>1. /\ r.wf \in Workflow /\ workflow[r.wf].student \in Student
      /\ workflow[r.wf].status # "NONE" /\ r.step \in 1 .. Len(Approvals!Steps(r.wf))
  BY DeciderKnows
<1>2. r.step = workflow[r.wf].step
  BY DEF ApprovalReads
<1> QED
  BY <1>1, <1>2 DEF Approvals!Active

(* An action on an active workflow moves its student as it says.           *)
LEMMA ActionMoves ==
  ASSUME SignaturesInv, Approvals!OneActiveWorkflow, StageFollows, Remember("approval"),
         NEW v \in Workflow, NEW t \in Student, t = workflow[v].student, Approvals!Active(v),
         NEW status, NEW step, Approvals!WriteWorkflow(v, status, step),
         step # 0 =>
           student'[t].stage =
             IF status = "SENT_BACK" THEN "SALES_CORRECTED" ELSE "AWAITING_INSTITUTION_APPROVAL",
         \A s \in Student : s # t => student'[s] = student[s]
  PROVE  Approvals!OneActiveWorkflow' /\ StageFollows'
<1>1. /\ workflow'[v].student = t
      /\ workflow'[v].status = status /\ workflow'[v].step = step
      /\ \A w \in Workflow : w # v => workflow'[w] = workflow[w]
  BY RowWritten DEF SignaturesInv
<1>2. ASSUME NEW w \in Workflow, w # v, Approvals!Active(w)'
      PROVE  Approvals!Active(w) /\ workflow'[w] = workflow[w] /\ workflow[w].student # t
  <2>1. workflow'[w] = workflow[w] /\ Approvals!Active(w)
    BY <1>1, <1>2 DEF Approvals!Active
  <2> QED
    BY <1>2, <2>1 DEF Approvals!OneActiveWorkflow
<1>3. Approvals!Active(v)' =>
        /\ workflow'[v].student = t
        /\ student'[t].stage =
             IF workflow'[v].status = "SENT_BACK" THEN "SALES_CORRECTED"
                                                  ELSE "AWAITING_INSTITUTION_APPROVAL"
  BY <1>1 DEF Approvals!Active
<1> QED
  BY <1>2, <1>3, StagesMove

LEMMA ApproveStepFollows ==
  ASSUME Types, SignaturesInv, Approvals!OneActiveWorkflow, StageFollows,
         Remember("approval"),
         NEW sl \in Slot, ApprovalReads(req[sl]), Approvals!CommitApproveStep(sl)
  PROVE  /\ Approvals!OneActiveWorkflow' /\ StageFollows'
         /\ \A s \in Student : student'[s].status = student[s].status
<1> PICK r : r = req[sl]
  OBVIOUS
<1>1. /\ r.op = "act" /\ r.action = "APPROVE"
      /\ Approvals!WriteWorkflow(r.wf, "IN_PROGRESS", r.step + 1)
      /\ student' = [student EXCEPT ![workflow[r.wf].student].stage = "AWAITING_INSTITUTION_APPROVAL"]
  BY DEF Approvals!CommitApproveStep, Approvals!CommitsAction
<1>2. /\ r.wf \in Workflow /\ workflow[r.wf].student \in Student
      /\ Approvals!Active(r.wf)
  BY <1>1, ActsOnActive
<1> PICK v \in Workflow : v = r.wf
  BY <1>2
<1> PICK t \in Student : t = workflow[v].student
  BY <1>2
<1>3. student \in [Student -> StudentRow] /\ "AWAITING_INSTITUTION_APPROVAL" \in Stage
  BY DEF Types, Stage
<1>4. /\ student'[t].stage = "AWAITING_INSTITUTION_APPROVAL"
      /\ \A s \in Student : s # t => student'[s] = student[s]
      /\ \A s \in Student : student'[s].status = student[s].status
  BY <1>1, <1>3, StagedRows
<1> PICK step : step = r.step + 1
  OBVIOUS
<1>5. Approvals!WriteWorkflow(v, "IN_PROGRESS", step)
  BY <1>1
<1>6. Approvals!OneActiveWorkflow' /\ StageFollows'
  BY <1>2, <1>4, <1>5, ActionMoves
<1> QED
  BY <1>4, <1>6

(* An update of one student's stage and status                             *)
LEMMA OneMarked ==
  ASSUME student \in [Student -> StudentRow], NEW t \in Student,
         NEW stage \in Stage, NEW status \in Status,
         student' = Stamp(student, {t}, stage, status)
  PROVE  /\ student'[t].stage = stage /\ student'[t].status = status
         /\ \A s \in Student : s # t => student'[s] = student[s]
<1>1. \A s \in Student : s \in {t} => student'[s].stage = stage /\ student'[s].status = status
  BY StampedRows
<1>2. \A s \in Student : s # t => student'[s] = student[s]
  BY DEF Stamp
<1> QED
  BY <1>1, <1>2

(* The actions that stamp the student                                      *)
LEMMA DecisionFollows ==
  ASSUME Types, SignaturesInv, Approvals!OneActiveWorkflow, StageFollows,
         Remember("approval"),
         NEW sl \in Slot, ApprovalReads(req[sl]),
         \/ Approvals!CommitApproveLast(sl) \/ Approvals!CommitReject(sl)
         \/ Approvals!CommitSendBack(sl)
  PROVE  Approvals!OneActiveWorkflow' /\ StageFollows'
<1> PICK r : r = req[sl]
  OBVIOUS
<1>1. \E stage \in Stage, status \in Status,
             now \in {"APPROVED", "REJECTED", "SENT_BACK"}, step \in {0, 1} :
        /\ r.op = "act" /\ r.action # "COMMENT"
        /\ Approvals!WriteWorkflow(r.wf, now, step)
        /\ step # 0 => stage = "SALES_CORRECTED" /\ now = "SENT_BACK"
        /\ student' = Stamp(student, {workflow[r.wf].student}, stage, status)
  <2>1. CASE Approvals!CommitApproveLast(sl)
    <3>1. /\ r.op = "act" /\ r.action # "COMMENT"
          /\ Approvals!WriteWorkflow(r.wf, "APPROVED", 0)
          /\ student' = Stamp(student, {workflow[r.wf].student}, "APPROVED_FOR_DESIGN", "SCHOOL_APPROVED")
      BY <2>1, SameStamp DEF Approvals!CommitApproveLast, Approvals!CommitsAction
    <3>2. "APPROVED_FOR_DESIGN" \in Stage /\ "SCHOOL_APPROVED" \in Status
      BY DEF Stage, Status
    <3> QED
      BY <3>1, <3>2
  <2>2. CASE Approvals!CommitReject(sl)
    <3>1. /\ r.op = "act" /\ r.action # "COMMENT"
          /\ Approvals!WriteWorkflow(r.wf, "REJECTED", 0)
          /\ student' = Stamp(student, {workflow[r.wf].student}, "REJECTED", "REJECTED")
      BY <2>2, SameStamp DEF Approvals!CommitReject, Approvals!CommitsAction
    <3>2. "REJECTED" \in Stage /\ "REJECTED" \in Status
      BY DEF Stage, Status
    <3> QED
      BY <3>1, <3>2
  <2>3. CASE Approvals!CommitSendBack(sl)
    <3>1. /\ r.op = "act" /\ r.action # "COMMENT"
          /\ Approvals!WriteWorkflow(r.wf, "SENT_BACK", 1)
          /\ student' = Stamp(student, {workflow[r.wf].student}, "SALES_CORRECTED", "SUBMITTED")
      BY <2>3, SameStamp DEF Approvals!CommitSendBack, Approvals!CommitsAction
    <3>2. "SALES_CORRECTED" \in Stage /\ "SUBMITTED" \in Status
      BY DEF Stage, Status
    <3> QED
      BY <3>1, <3>2
  <2> QED
    BY <2>1, <2>2, <2>3
<1>2. PICK stage \in Stage, status \in Status,
             now \in {"APPROVED", "REJECTED", "SENT_BACK"}, step \in {0, 1} :
        /\ r.op = "act" /\ r.action # "COMMENT"
        /\ Approvals!WriteWorkflow(r.wf, now, step)
        /\ step # 0 => stage = "SALES_CORRECTED" /\ now = "SENT_BACK"
        /\ student' = Stamp(student, {workflow[r.wf].student}, stage, status)
  BY <1>1
<1>3. /\ r.wf \in Workflow /\ workflow[r.wf].student \in Student
      /\ Approvals!Active(r.wf)
  BY <1>2, ActsOnActive
<1> PICK v \in Workflow : v = r.wf
  BY <1>3
<1> PICK t \in Student : t = workflow[v].student
  BY <1>3
<1>4. student' = Stamp(student, {t}, stage, status)
  BY <1>2
<1>5. student \in [Student -> StudentRow]
  BY DEF Types
<1>6. student'[t].stage = stage /\ \A s \in Student : s # t => student'[s] = student[s]
  BY <1>4, <1>5, OneMarked
<1>8. step # 0 => student'[t].stage =
        IF now = "SENT_BACK" THEN "SALES_CORRECTED" ELSE "AWAITING_INSTITUTION_APPROVAL"
  BY <1>2, <1>6
<1>9. Approvals!WriteWorkflow(v, now, step)
  BY <1>2
<1> QED
  BY <1>3, <1>6, <1>8, <1>9, ActionMoves

LEMMA StartFollows ==
  ASSUME Types, SignaturesInv, Approvals!OneActiveWorkflow, StageFollows,
         Remember("approval"),
         NEW sl \in Slot, ApprovalReads(req[sl]), Approvals!CommitStart(sl)
  PROVE  /\ Approvals!OneActiveWorkflow' /\ StageFollows'
         /\ req[sl].student \in Student
         /\ student'[req[sl].student].status =
              Approvals!StatusAfterStart(student[req[sl].student].status)
         /\ \A s \in Student : s # req[sl].student => student'[s] = student[s]
<1> PICK r : r = req[sl]
  OBVIOUS
<1>1. /\ r.student \in Student /\ r.status \in Status
      /\ r.status = student[r.student].status
      /\ r.open = Approvals!OpenWorkflows(r.student)
  BY RestartShape, SameRows DEF Approvals!CommitStart, SignaturesInv, ApprovalReads
<1> PICK t \in Student : t = r.student
  BY <1>1
<1> PICK status : status = Approvals!StatusAfterStart(r.status)
  OBVIOUS
<1>2. status \in Status /\ "AWAITING_INSTITUTION_APPROVAL" \in Stage
  BY <1>1 DEF Approvals!StatusAfterStart, Status, Stage
<1>3. student' = Stamp(student, {t}, "AWAITING_INSTITUTION_APPROVAL", status)
  BY SameStamp DEF Approvals!CommitStart
<1>4. student \in [Student -> StudentRow]
  BY DEF Types
<1>5. \A s \in Student : s \in {t} => /\ student'[s].stage = "AWAITING_INSTITUTION_APPROVAL"
                                     /\ student'[s].status = status
  BY <1>2, <1>3, <1>4, StampedRows
<1>6. \A s \in Student : s # t => student'[s] = student[s]
  BY <1>3, <1>4 DEF Stamp
<1>7. PICK new \in Workflow :
        /\ workflow[new].status = "NONE"
        /\ workflow'[new] = [student |-> r.student, chain |-> r.chain,
                             status |-> "IN_PROGRESS", step |-> 1]
        /\ \A w \in Workflow \ {new} :
             IF w \in r.open
             THEN workflow'[w] = [student |-> workflow[w].student, chain |-> workflow[w].chain,
                                  status |-> "ON_HOLD", step |-> 0]
             ELSE workflow'[w] = workflow[w]
        /\ workflow' \in [Workflow -> Approvals!WorkflowRow]
  BY StartWrites DEF SignaturesInv
<1>8. workflow'[new].student = t /\ workflow'[new].status = "IN_PROGRESS"
  BY <1>7
<1>9. ASSUME NEW w \in Workflow, w # new, Approvals!Active(w)'
      PROVE  Approvals!Active(w) /\ workflow'[w] = workflow[w] /\ workflow[w].student # t
  <2>1. w \notin r.open
    <3> SUFFICES ASSUME w \in r.open PROVE FALSE
      OBVIOUS
    <3>1. workflow'[w] = [student |-> workflow[w].student, chain |-> workflow[w].chain,
                          status |-> "ON_HOLD", step |-> 0]
      BY <1>7, <1>9
    <3>2. workflow'[w].step = 0
      BY <3>1
    <3> QED
      BY <1>9, <3>2 DEF Approvals!Active
  <2>2. workflow'[w] = workflow[w]
    BY <1>7, <1>9, <2>1
  <2>3. Approvals!Active(w)
    BY <1>9, <2>2 DEF Approvals!Active
  <2>4. workflow[w].status \in Approvals!OpenStatus
    BY <2>3, ActiveStatus DEF Approvals!OpenStatus
  <2>5. workflow[w].student # t
    BY <1>1, <2>1, <2>4 DEF Approvals!OpenWorkflows
  <2> QED
    BY <2>2, <2>3, <2>5
<1>10. student'[t].stage = IF workflow'[new].status = "SENT_BACK"
                           THEN "SALES_CORRECTED" ELSE "AWAITING_INSTITUTION_APPROVAL"
  BY <1>5, <1>8
<1>11. Approvals!OneActiveWorkflow' /\ StageFollows'
  BY <1>6, <1>8, <1>9, <1>10, StagesMove
<1> QED
  BY <1>1, <1>5, <1>6, <1>11

(* The request after a step of the approval desk: what it has read is so.  *)
LEMMA ApprovalAnswers ==
  ASSUME SignaturesInv, NEW sl \in Slot, ApprovalReads(req[sl]),
         \/ Approvals!ReadForStart(sl) \/ Approvals!ScanOpen(sl)
         \/ Approvals!BeginAct(sl) \/ Approvals!ReadWorkflow(sl) \/ Approvals!RefuseWorkflow(sl)
  PROVE  \E q : /\ req' = [req EXCEPT ![sl] = q]
                /\ req[sl] # Idle \/ q # Idle
                /\ ApprovalReads(q)'
<1> PICK r : r = req[sl]
  OBVIOUS
<1>1. /\ student' = student /\ workflow' = workflow
      /\ \A s : Approvals!OpenWorkflows(s)' = Approvals!OpenWorkflows(s)
  BY DEF Approvals!ReadForStart, Approvals!ScanOpen, Approvals!BeginAct,
         Approvals!ReadWorkflow, Approvals!RefuseWorkflow, Approvals!OpenWorkflows
<1>2. CASE Approvals!ReadForStart(sl)
  <2>1. PICK a \in Actor, s \in Student, c \in Chain, force \in BOOLEAN :
          req' = [req EXCEPT ![sl] =
                   [op |-> "start", student |-> s, status |-> student[s].status,
                    chain |-> c, force |-> force]]
    BY <1>2 DEF Approvals!ReadForStart
  <2> PICK q : q = [op |-> "start", student |-> s, status |-> student[s].status,
                    chain |-> c, force |-> force]
    OBVIOUS
  <2>2. q.op = "start" /\ q.status = student[q.student].status /\ q # Idle
    BY DEF Idle
  <2>3. ApprovalReads(q)'
    BY <1>1, <2>2 DEF ApprovalReads
  <2> QED
    BY <2>1, <2>2, <2>3
<1>3. CASE Approvals!ScanOpen(sl)
  <2>1. r.op = "start" /\ r # Idle /\ r.status = student[r.student].status
    BY <1>3 DEF Approvals!ScanOpen, Idle, ApprovalReads
  <2> PICK open : open = Approvals!OpenWorkflows(r.student)
    OBVIOUS
  <2> PICK q : q = [op |-> "restart", student |-> r.student, status |-> r.status,
                    chain |-> r.chain, open |-> open]
    OBVIOUS
  <2>2. req' = [req EXCEPT ![sl] = Idle] \/ req' = [req EXCEPT ![sl] = q]
    BY <1>3, SameRows DEF Approvals!ScanOpen
  <2>3. /\ q.op = "restart" /\ q.status = student[q.student].status
        /\ q.open = Approvals!OpenWorkflows(q.student)
    BY <2>1
  <2>4. ApprovalReads(q)'
    BY <1>1, <2>3 DEF ApprovalReads
  <2> QED
    BY <2>1, <2>2, <2>4, IdleReads
<1>4. CASE Approvals!BeginAct(sl)
  <2>1. PICK a \in Actor, act \in Approvals!Action, ids \in SUBSET Workflow, goOn \in BOOLEAN :
          req' = [req EXCEPT ![sl] =
                   [op |-> "pick", actor |-> a, action |-> act, todo |-> ids, goOn |-> goOn]]
    BY <1>4 DEF Approvals!BeginAct
  <2> PICK q : q = [op |-> "pick", actor |-> a, action |-> act, todo |-> ids, goOn |-> goOn]
    OBVIOUS
  <2>2. q.op = "pick" /\ q # Idle
    BY DEF Idle
  <2>3. ApprovalReads(q)'
    BY <2>2 DEF ApprovalReads
  <2> QED
    BY <2>1, <2>2, <2>3
<1>5. CASE Approvals!ReadWorkflow(sl)
  <2>1. PICK w \in Workflow :
          req' = [req EXCEPT ![sl] =
                   [op |-> "act", actor |-> r.actor, action |-> r.action,
                    todo |-> r.todo \ {w}, goOn |-> r.goOn, wf |-> w,
                    status |-> workflow[w].status, step |-> workflow[w].step]]
    BY <1>5 DEF Approvals!ReadWorkflow
  <2> PICK q : q = [op |-> "act", actor |-> r.actor, action |-> r.action,
                    todo |-> r.todo \ {w}, goOn |-> r.goOn, wf |-> w,
                    status |-> workflow[w].status, step |-> workflow[w].step]
    OBVIOUS
  <2>2. /\ q.op = "act" /\ q # Idle
        /\ q.status = workflow[q.wf].status /\ q.step = workflow[q.wf].step
    BY DEF Idle
  <2>3. ApprovalReads(q)'
    BY <1>1, <2>2 DEF ApprovalReads
  <2> QED
    BY <2>1, <2>2, <2>3
<1>6. CASE Approvals!RefuseWorkflow(sl)
  <2>1. PICK w \in Workflow :
          req' = [req EXCEPT ![sl] =
                   IF r.goOn THEN Approvals!Rest(r, r.todo \ {w}) ELSE Idle]
    BY <1>6, SameRows DEF Approvals!RefuseWorkflow
  <2>2. r \in Approvals!Picking /\ r.op = "pick"
    BY <1>6, PickingShape DEF Approvals!RefuseWorkflow, SignaturesInv
  <2>3. r.todo \ {w} \in SUBSET Workflow /\ r # Idle
    BY <2>2 DEF Approvals!Picking, Idle
  <2> PICK q : q = Approvals!Rest(r, r.todo \ {w})
    OBVIOUS
  <2>4. q.op \notin {"act", "start", "restart"}
    BY <2>2, <2>3, RestIsRequest
  <2>5. ApprovalReads(q)'
    BY <2>4 DEF ApprovalReads
  <2> QED
    BY <2>1, <2>3, <2>5, IdleReads
<1> QED
  BY <1>2, <1>3, <1>4, <1>5, <1>6

LEMMA ApprovalEnds ==
  ASSUME SignaturesInv, NEW sl \in Slot,
         \/ Approvals!CommitStart(sl) \/ Approvals!CommitComment(sl)
         \/ Approvals!CommitApproveStep(sl) \/ Approvals!CommitApproveLast(sl)
         \/ Approvals!CommitReject(sl) \/ Approvals!CommitSendBack(sl)
  PROVE  \E q : /\ req' = [req EXCEPT ![sl] = q]
                /\ req[sl] # Idle \/ q # Idle
                /\ ApprovalReads(q)'
<1> PICK r : r = req[sl]
  OBVIOUS
<1>1. CASE Approvals!CommitStart(sl)
  <2>1. r.op = "restart" /\ req' = [req EXCEPT ![sl] = Idle]
    BY <1>1, SameRows DEF Approvals!CommitStart
  <2>2. r # Idle
    BY <2>1 DEF Idle
  <2> QED
    BY <2>1, <2>2, IdleReads
<1>2. CASE \/ Approvals!CommitComment(sl)
           \/ Approvals!CommitApproveStep(sl) \/ Approvals!CommitApproveLast(sl)
           \/ Approvals!CommitReject(sl) \/ Approvals!CommitSendBack(sl)
  <2>1. r.op = "act" /\ req' = [req EXCEPT ![sl] = Approvals!Rest(r, r.todo)]
    BY <1>2
       DEF Approvals!CommitComment, Approvals!CommitApproveStep,
           Approvals!CommitApproveLast,
                Approvals!CommitReject, Approvals!CommitSendBack, Approvals!CommitsAction,
                Approvals!Done
  <2>2. r \in Approvals!Acting /\ r.todo \in SUBSET Workflow /\ r # Idle
    BY <2>1, ActingShape DEF SignaturesInv, Idle
  <2> PICK q : q = Approvals!Rest(r, r.todo)
    OBVIOUS
  <2>3. q.op \notin {"act", "start", "restart"}
    BY <2>2, RestIsRequest
  <2>4. ApprovalReads(q)'
    BY <2>3 DEF ApprovalReads
  <2> QED
    BY <2>1, <2>2, <2>4
<1> QED
  BY <1>1, <1>2

(* A comment writes back what it read.                                     *)
LEMMA CommentFollows ==
  ASSUME SignaturesInv, NEW sl \in Slot, ApprovalReads(req[sl]),
         Approvals!CommitComment(sl)
  PROVE  \A w \in Workflow :
           /\ workflow'[w].student = workflow[w].student
           /\ workflow'[w].status = workflow[w].status
           /\ workflow'[w].step = workflow[w].step
<1> PICK r : r = req[sl]
  OBVIOUS
<1>1. r.op = "act" /\ Approvals!WriteWorkflow(r.wf, r.status, r.step)
  BY DEF Approvals!CommitComment, Approvals!CommitsAction
<1>2. r.wf \in Workflow
  BY <1>1, ActingShape DEF SignaturesInv
<1>3. r.status = workflow[r.wf].status /\ r.step = workflow[r.wf].step
  BY <1>1 DEF ApprovalReads
<1> QED
  BY <1>1, <1>2, <1>3, RowWritten DEF SignaturesInv

----------------------------------------------------------------------------
(* Who decided what                                                        *)
LEMMA NothingDecided ==
  ASSUME StatusDecided, DecidesNothing, \A s \in Student : student'[s].status = student[s].status
  PROVE  StatusDecided'
BY DEF StatusDecided, DecidesNothing

LEMMA DecidedAsWritten ==
  ASSUME StatusDecided, DecidesWhatItWrites
  PROVE  StatusDecided'
<1>1. \A s \in Student :
        (IF student'[s] # student[s] THEN student'[s].status ELSE decided[s]) = student'[s].status
  BY DEF StatusDecided
<1> QED
  BY <1>1 DEF StatusDecided, DecidesWhatItWrites

LEMMA StartDecides ==
  ASSUME StatusDecided, NEW t \in Student,
         decided' = [decided EXCEPT ![t] = IF @ = "DRAFT" THEN "SUBMITTED" ELSE @],
         student'[t].status = Approvals!StatusAfterStart(student[t].status),
         \A s \in Student : s # t => student'[s] = student[s]
  PROVE  StatusDecided'
<1>1. /\ decided'[t] = student'[t].status
      /\ \A s \in Student : s # t => decided'[s] = student'[s].status
  BY DEF StatusDecided, Approvals!StatusAfterStart
<1>2. decided' = [s \in Student |-> decided'[s]]
  BY DEF StatusDecided
<1> QED
  BY <1>1, <1>2 DEF StatusDecided

----------------------------------------------------------------------------
(* A step that opens no job and forgets no dispatch                        *)
LEMMA OneCardKept ==
  ASSUME OneCard, NEW who, Remember(who),
         \A s \in Student : OpenJobs(s)' \subseteq OpenJobs(s),
         \A s \in Student : Queuing(s) => Queuing(s)' \/ InQueue(s)'
  PROVE  OneCard'
<1> SUFFICES ASSUME NEW s \in Student, s \notin excused'
             PROVE  /\ \A b, c \in OpenJobs(s)' : b = c
                    /\ OpenJobs(s)' # {} => InQueue(s)' \/ Queuing(s)'
  BY DEF OneCard
<1>1. s \notin excused
  BY DEF Remember
<1>2. /\ \A b, c \in OpenJobs(s) : b = c
      /\ OpenJobs(s) # {} => InQueue(s) \/ Queuing(s)
  BY <1>1 DEF OneCard
<1>3. OpenJobs(s)' \subseteq OpenJobs(s)
  OBVIOUS
<1>4. ASSUME OpenJobs(s)' # {}, InQueue(s) PROVE InQueue(s)'
  BY <1>4 DEF Remember
<1> QED
  BY <1>2, <1>3, <1>4

LEMMA OneCardElsewhere ==
  ASSUME OneCard, NEW who, Remember(who), job' = job, printReq' = printReq
  PROVE  OneCard'
<1>1. \A s \in Student : OpenJobs(s)' = OpenJobs(s)
  BY DEF OpenJobs
<1>2. \A s \in Student : Queuing(s) => Queuing(s)'
  BY DEF Queuing
<1> QED
  BY <1>1, <1>2, OneCardKept

----------------------------------------------------------------------------
LEMMA ApproveFollows ==
  ASSUME Types, SignaturesInv, Approvals!OneActiveWorkflow, StageFollows, StatusDecided,
         NEW sl \in Slot, ApprovalReads(req[sl]), Approve(sl)
  PROVE  Approvals!OneActiveWorkflow' /\ StageFollows' /\ StatusDecided'
<1>1. Remember("approval")
  BY DEF Approve
<1>2. CASE /\ \/ Approvals!ReadForStart(sl) \/ Approvals!ScanOpen(sl)
              \/ Approvals!BeginAct(sl) \/ Approvals!ReadWorkflow(sl) \/ Approvals!RefuseWorkflow(sl)
              \/ Approvals!CommitComment(sl)
           /\ DecidesNothing
  <2>1. student' = student
    BY <1>2 DEF Approvals!ReadForStart, Approvals!ScanOpen, Approvals!BeginAct,
                Approvals!ReadWorkflow, Approvals!RefuseWorkflow, Approvals!CommitComment
  <2>2. \A w \in Workflow : /\ workflow'[w].student = workflow[w].student
                            /\ workflow'[w].status = workflow[w].status
                            /\ workflow'[w].step = workflow[w].step
    <3>1. CASE Approvals!CommitComment(sl)
      BY <3>1, CommentFollows
    <3>2. CASE ~Approvals!CommitComment(sl)
      BY <1>2, <3>2 DEF Approvals!ReadForStart, Approvals!ScanOpen, Approvals!BeginAct,
                        Approvals!ReadWorkflow, Approvals!RefuseWorkflow
    <3> QED
      BY <3>1, <3>2
  <2>3. \A w \in Workflow : Approvals!Active(w)' => Approvals!Active(w)
    BY <2>2 DEF Approvals!Active
  <2>4. \A s \in Student : stagedBy'[s] = stagedBy[s] /\ student'[s] = student[s]
    BY <1>1, <2>1 DEF Remember
  <2>5. Approvals!OneActiveWorkflow' /\ StageFollows'
    BY <2>2, <2>3, <2>4, StagesStand
  <2> QED
    BY <1>2, <2>4, <2>5, NothingDecided
<1>3. CASE Approvals!CommitApproveStep(sl) /\ DecidesNothing
  BY <1>1, <1>3, ApproveStepFollows, NothingDecided
<1>4. CASE /\ Approvals!CommitStart(sl)
           /\ decided' = [decided EXCEPT ![req[sl].student] = IF @ = "DRAFT" THEN "SUBMITTED" ELSE @]
  <2> PICK t : t = req[sl].student
    OBVIOUS
  <2>1. /\ Approvals!OneActiveWorkflow' /\ StageFollows'
        /\ t \in Student
        /\ student'[t].status = Approvals!StatusAfterStart(student[t].status)
        /\ \A s \in Student : s # t => student'[s] = student[s]
    BY <1>1, <1>4, StartFollows
  <2>2. decided' = [decided EXCEPT ![t] = IF @ = "DRAFT" THEN "SUBMITTED" ELSE @]
    BY <1>4
  <2> QED
    BY <2>1, <2>2, StartDecides
<1>5. CASE /\ \/ Approvals!CommitApproveLast(sl) \/ Approvals!CommitReject(sl)
              \/ Approvals!CommitSendBack(sl)
           /\ DecidesWhatItWrites
  BY <1>1, <1>5, DecisionFollows, DecidedAsWritten
<1> QED
  BY <1>2, <1>3, <1>4, <1>5 DEF Approve

LEMMA ApproveSerial ==
  ASSUME SharedInv, SharedInv', SerialInv, load = 1, NEW sl \in Slot, Approve(sl)
  PROVE  SerialInv'
<1>1. /\ UNCHANGED <<order, job, printReq, deskReq>>
      /\ Remember("approval") /\ load' = load
  BY DEF Approve, printVars, Remember
<1>2. /\ Approvals!OneActiveWorkflow /\ StageFollows /\ StatusDecided /\ ReadsCurrent
      /\ NoJobAtCreated /\ OneCard
  BY DEF SerialInv
<1>3. Types /\ SignaturesInv /\ ApprovalReads(req[sl])
  BY <1>2 DEF SharedInv, ReadsCurrent
<1>4. \E q : /\ req' = [req EXCEPT ![sl] = q]
             /\ req[sl] # Idle \/ q # Idle
             /\ ApprovalReads(q)'
  <2>1. CASE \/ Approvals!ReadForStart(sl) \/ Approvals!ScanOpen(sl)
             \/ Approvals!BeginAct(sl) \/ Approvals!ReadWorkflow(sl) \/ Approvals!RefuseWorkflow(sl)
    BY <1>3, <2>1, ApprovalAnswers
  <2>2. CASE \/ Approvals!CommitStart(sl) \/ Approvals!CommitComment(sl)
             \/ Approvals!CommitApproveStep(sl) \/ Approvals!CommitApproveLast(sl)
             \/ Approvals!CommitReject(sl) \/ Approvals!CommitSendBack(sl)
    BY <1>3, <2>2, ApprovalEnds
  <2> QED
    BY <2>1, <2>2 DEF Approve
<1>5. PICK q : /\ req' = [req EXCEPT ![sl] = q]
               /\ req[sl] # Idle \/ q # Idle
               /\ ApprovalReads(q)'
  BY <1>4
<1>6. /\ req'[sl] = q
      /\ \A o \in Slot : o # sl => req[o] = Idle /\ req'[o] = Idle
      /\ \A o \in Slot : printReq[o] = Idle /\ deskReq[o] = Idle
  BY <1>1, <1>5, ApproveAlone
<1>7. ReadsCurrent'
  <2> SUFFICES ASSUME NEW o \in Slot
               PROVE  ApprovalReads(req[o])' /\ PressReads(printReq[o])' /\ DeskReads(deskReq[o])'
    BY DEF ReadsCurrent
  <2>1. printReq'[o] = Idle /\ deskReq'[o] = Idle /\ req'[o] \in {q, Idle}
    BY <1>1, <1>6
  <2>2. PressReads(printReq[o])'
    BY <2>1, IdleReads DEF PressReads, Builds
  <2>3. DeskReads(deskReq[o])'
    BY <2>1, IdleReads DEF DeskReads, Idle
  <2>4. ApprovalReads(req[o])'
    <3> PICK p : p = req'[o]
      OBVIOUS
    <3>1. ApprovalReads(p)'
      BY <1>5, <2>1, IdleReads
    <3> QED
      BY <3>1 DEF ApprovalReads
  <2> QED
    BY <2>2, <2>3, <2>4
<1>8. Approvals!OneActiveWorkflow' /\ StageFollows' /\ StatusDecided'
  BY <1>2, <1>3, ApproveFollows
<1>9. NoJobAtCreated' /\ OneCard'
  BY <1>1, <1>2, OneCardElsewhere DEF NoJobAtCreated
<1> QED
  BY <1>7, <1>8, <1>9 DEF SerialInv

----------------------------------------------------------------------------
(* Steps of the review desk, requests one at a time                        *)
LEMMA ReviewAnswers ==
  ASSUME DeskRows, NEW sl \in Slot, Review(sl)
  PROVE  \E q : /\ deskReq' = [deskReq EXCEPT ![sl] = q]
                /\ deskReq[sl] # Idle \/ q # Idle
                /\ DeskReads(q)'
<1>1. CASE Desk!Begin(sl)
  <2>1. student' = student
    BY <1>1, ReviewReads
  <2>2. PICK q \in Desk!Request : /\ deskReq' = [deskReq EXCEPT ![sl] = q]
                                  /\ q # Idle
                                  /\ DeskReads(q)
    BY <1>1, ReviewReads
  <2>3. DeskReads(q)'
    BY <2>1, <2>2 DEF DeskReads
  <2> QED
    BY <2>2, <2>3
<1>2. CASE Desk!MoveOn(sl) \/ Desk!Decide(sl) \/ Desk!Route(sl)
  <2>1. deskReq' = [deskReq EXCEPT ![sl] = Idle] /\ deskReq[sl] # Idle
    BY <1>2, MoveOnWrites, DecideWrites, RouteWrites
  <2> QED
    BY <2>1, IdleReads
<1> QED
  BY <1>1, <1>2 DEF Review

LEMMA ReviewDecides ==
  ASSUME DeskRows, StatusDecided, NEW sl \in Slot, DeskReads(deskReq[sl]), Review(sl)
  PROVE  StatusDecided'
<1>1. CASE (Desk!Begin(sl) \/ Desk!MoveOn(sl)) /\ DecidesNothing
  <2>1. \A s \in Student : student'[s].status = student[s].status
    BY <1>1, ReviewReads, MoveOnWrites
  <2> QED
    BY <1>1, <2>1, NothingDecided
<1>2. CASE Desk!Decide(sl) /\ DecidesWhatItWrites
  BY <1>2, DecidedAsWritten
<1>3. CASE /\ Desk!Route(sl)
           /\ IF student'[deskReq[sl].student].stage \in MeansStatus
              THEN DecidesWhatItWrites ELSE DecidesNothing
  <2> PICK r : r = deskReq[sl]
    OBVIOUS
  <2>1. /\ r.student \in Student /\ r.op \in {"handoff", "rule"}
        /\ student'[r.student].stage \in MeansStatus \/ student'[r.student].status = r.status
        /\ \A s \in Student : s # r.student => student'[s] = student[s]
    BY <1>3, RouteWrites
  <2>2. r.status = student[r.student].status
    BY <2>1 DEF DeskReads
  <2>3. CASE student'[r.student].stage \in MeansStatus
    BY <1>3, <2>3, DecidedAsWritten
  <2>4. CASE student'[r.student].stage \notin MeansStatus
    <3>1. \A s \in Student : student'[s].status = student[s].status
      BY <2>1, <2>2, <2>4
    <3> QED
      BY <1>3, <2>4, <3>1, NothingDecided
  <2> QED
    BY <2>3, <2>4
<1> QED
  BY <1>1, <1>2, <1>3 DEF Review

LEMMA ReviewSerial ==
  ASSUME SharedInv, SharedInv', SerialInv, load = 1, NEW sl \in Slot, Review(sl)
  PROVE  SerialInv'
<1>1. /\ UNCHANGED <<workflow, signed, req, order, job, printReq>>
      /\ Remember("desk") /\ load' = load
  BY DEF Review, approvalVars, printVars, Remember
<1>2. /\ Approvals!OneActiveWorkflow /\ StageFollows /\ StatusDecided /\ ReadsCurrent
      /\ NoJobAtCreated /\ OneCard
  BY DEF SerialInv
<1>3. DeskRows /\ DeskReads(deskReq[sl])
  BY <1>2 DEF SharedInv, Types, DeskRows, ReadsCurrent
<1>4. PICK q : /\ deskReq' = [deskReq EXCEPT ![sl] = q]
               /\ deskReq[sl] # Idle \/ q # Idle
               /\ DeskReads(q)'
  BY <1>3, ReviewAnswers
<1>5. /\ deskReq'[sl] = q
      /\ \A o \in Slot : o # sl => deskReq[o] = Idle /\ deskReq'[o] = Idle
      /\ \A o \in Slot : req[o] = Idle /\ printReq[o] = Idle
  BY <1>1, <1>4, ReviewAlone
<1>6. ReadsCurrent'
  <2> SUFFICES ASSUME NEW o \in Slot
               PROVE  ApprovalReads(req[o])' /\ PressReads(printReq[o])' /\ DeskReads(deskReq[o])'
    BY DEF ReadsCurrent
  <2>1. req'[o] = Idle /\ printReq'[o] = Idle /\ deskReq'[o] \in {q, Idle}
    BY <1>1, <1>5
  <2>2. ApprovalReads(req[o])'
    BY <2>1, IdleReads DEF ApprovalReads
  <2>3. PressReads(printReq[o])'
    BY <2>1, IdleReads DEF PressReads, Builds
  <2>4. DeskReads(deskReq[o])'
    <3> PICK p : p = deskReq'[o]
      OBVIOUS
    <3>1. DeskReads(p)'
      BY <1>4, <2>1, IdleReads
    <3> QED
      BY <3>1 DEF DeskReads
  <2> QED
    BY <2>2, <2>3, <2>4
<1>7. Approvals!OneActiveWorkflow' /\ StageFollows'
  <2>1. \A w \in Workflow : Approvals!Active(w)' => Approvals!Active(w)
    BY <1>1 DEF Approvals!Active
  <2>2. \A s \in Student : stagedBy'[s] = "approval" =>
          stagedBy[s] = "approval" /\ student'[s].stage = student[s].stage
    BY <1>1 DEF Remember
  <2> QED
    BY <1>1, <1>2, <2>1, <2>2, StagesStand
<1>8. StatusDecided'
  BY <1>2, <1>3, ReviewDecides
<1>9. NoJobAtCreated' /\ OneCard'
  BY <1>1, <1>2, OneCardElsewhere DEF NoJobAtCreated
<1> QED
  BY <1>6, <1>7, <1>8, <1>9 DEF SerialInv

----------------------------------------------------------------------------
(* A crash, and a step of nobody                                           *)
LEMMA NobodySerial ==
  ASSUME SerialInv, load = 1,
         UNCHANGED <<student, workflow, job, load, decided, stagedBy>>,
         excused \subseteq excused',
         ReadsCurrent',
         \A s \in Student : Queuing(s) => Queuing(s)' \/ s \in excused'
  PROVE  SerialInv'
<1>1. /\ Approvals!OneActiveWorkflow /\ StageFollows /\ StatusDecided
      /\ NoJobAtCreated /\ OneCard
  BY DEF SerialInv
<1>2. Approvals!OneActiveWorkflow' /\ StageFollows'
  BY <1>1, StagesStand DEF Approvals!Active
<1>3. StatusDecided' /\ NoJobAtCreated'
  BY <1>1 DEF StatusDecided, NoJobAtCreated
<1>4. OneCard'
  <2>1. \A s \in Student : OpenJobs(s)' = OpenJobs(s) /\ (InQueue(s) => InQueue(s)')
    BY DEF OpenJobs, InQueue
  <2> QED
    BY <1>1, <2>1 DEF OneCard
<1> QED
  BY <1>2, <1>3, <1>4 DEF SerialInv

LEMMA RestartSerial ==
  ASSUME SerialInv, load = 1, ProcessRestart
  PROVE  SerialInv'
<1>1. /\ req' = [sl \in Slot |-> Idle] /\ printReq' = [sl \in Slot |-> Idle]
      /\ deskReq' = [sl \in Slot |-> Idle]
      /\ UNCHANGED <<student, workflow, job, load, decided, stagedBy>>
  BY DEF ProcessRestart
<1>2. ReadsCurrent'
  <2> SUFFICES ASSUME NEW o \in Slot
               PROVE  ApprovalReads(req[o])' /\ PressReads(printReq[o])' /\ DeskReads(deskReq[o])'
    BY DEF ReadsCurrent
  <2>1. req'[o] = Idle /\ printReq'[o] = Idle /\ deskReq'[o] = Idle
    BY <1>1
  <2> QED
    BY <2>1, IdleReads DEF ApprovalReads, PressReads, DeskReads, Builds
<1>3. /\ excused \subseteq excused'
      /\ \A s \in Student : Queuing(s) => s \in excused'
  BY DEF ProcessRestart, Queuing
<1> QED
  BY <1>1, <1>2, <1>3, NobodySerial

LEMMA StutterSerial ==
  ASSUME SerialInv, load = 1, UNCHANGED vars
  PROVE  SerialInv'
<1>1. UNCHANGED <<student, workflow, req, job, printReq, deskReq, load, decided, stagedBy, excused>>
  BY DEF vars, approvalVars, printVars
<1>2. ReadsCurrent'
  <2>1. \A s : Approvals!OpenWorkflows(s)' = Approvals!OpenWorkflows(s) /\ OpenJobs(s)' = OpenJobs(s)
    BY <1>1 DEF Approvals!OpenWorkflows, OpenJobs
  <2>2. \A s : Ready(s)' = Ready(s)
    BY <1>1 DEF Ready
  <2> SUFFICES ASSUME NEW o \in Slot
               PROVE  ApprovalReads(req[o])' /\ PressReads(printReq[o])' /\ DeskReads(deskReq[o])'
    BY DEF ReadsCurrent
  <2>3. ApprovalReads(req[o]) /\ PressReads(printReq[o]) /\ DeskReads(deskReq[o])
    BY DEF SerialInv, ReadsCurrent
  <2>4. ApprovalReads(req[o])'
    BY <1>1, <2>1, <2>3 DEF ApprovalReads
  <2>5. PressReads(printReq[o])'
    BY <1>1, <2>1, <2>2, <2>3 DEF PressReads, Builds
  <2>6. DeskReads(deskReq[o])'
    BY <1>1, <2>3 DEF DeskReads
  <2> QED
    BY <2>4, <2>5, <2>6
<1>3. \A s \in Student : Queuing(s) => Queuing(s)'
  BY <1>1 DEF Queuing
<1> QED
  BY <1>1, <1>2, <1>3, NobodySerial

----------------------------------------------------------------------------
(* Steps of the print line, requests one at a time                         *)
PrintFollows(sl) ==
  /\ \E q : /\ printReq' = [printReq EXCEPT ![sl] = q]
            /\ printReq[sl] # Idle \/ q # Idle
            /\ PressReads(q)'
  /\ NoJobAtCreated'
  /\ OneCard'

LEMMA SameJobs ==
  ASSUME \A b \in Batch : job'[b].items = job[b].items /\ job'[b].status = job[b].status
  PROVE  /\ \A s : OpenJobs(s)' = OpenJobs(s)
         /\ NoJobAtCreated => NoJobAtCreated'
BY DEF OpenJobs, NoJobAtCreated

LEMMA QueuingKept ==
  ASSUME PressInv, NEW sl \in Slot, NEW q, printReq' = [printReq EXCEPT ![sl] = q],
         printReq[sl].op # "queue"
  PROVE  \A s : Queuing(s) => Queuing(s)'
<1>1. \A o \in Slot : o # sl => printReq'[o] = printReq[o]
  BY DEF PressInv, PrintRows
<1> QED
  BY <1>1 DEF Queuing

(* A step that opens no job and queues nobody less than before             *)
LEMMA QuietPrintStep ==
  ASSUME PressInv, NoJobAtCreated, OneCard, Remember("print"), NEW sl \in Slot, NEW q,
         printReq' = [printReq EXCEPT ![sl] = q], printReq[sl] # Idle \/ q # Idle,
         PressReads(q)',
         printReq[sl].op # "queue",
         \A b \in Batch : job'[b].items = job[b].items /\ job'[b].status = job[b].status
  PROVE  PrintFollows(sl)
<1>1. \A s : OpenJobs(s)' = OpenJobs(s)
  BY SameJobs
<1>2. NoJobAtCreated'
  BY SameJobs
<1>3. \A s : Queuing(s) => Queuing(s)'
  BY QueuingKept
<1>4. OneCard'
  BY <1>1, <1>3, OneCardKept
<1> QED
  BY <1>2, <1>4 DEF PrintFollows

(* Whoever is ready for a new card waits for none: dispatch begins with     *)
(* students who are ready, by force with the others.                       *)
LEMMA BatchBegins ==
  ASSUME SharedInv, SharedInv', NoJobAtCreated, OneCard, load = 1, load' = load,
         UNCHANGED <<req, deskReq>>, Remember("print"),
         NEW sl \in Slot, NEW ids \in SUBSET Student,
         Press!OneBatch(ids), Press!BeginBatch(sl, ids)
  PROVE  PrintFollows(sl)
<1>1. PICK b \in Batch : Press!Enter(sl, [op |-> "order", batch |-> b, students |-> ids])
  BY DEF Press!BeginBatch
<1> PICK q : q = [op |-> "order", batch |-> b, students |-> ids]
  OBVIOUS
<1>2. /\ q.op = "order" /\ q.students = ids /\ q # Idle
      /\ printReq[sl] = Idle
      /\ printReq' = [printReq EXCEPT ![sl] = q]
      /\ UNCHANGED <<student, order, job>>
  BY <1>1, SameRows DEF Press!Enter, Idle
<1>3. /\ printReq'[sl] = q
      /\ \A o \in Slot : o # sl => printReq[o] = Idle /\ printReq'[o] = Idle
  BY <1>2, PrintAlone
<1>4. \A s : ~Queuing(s)
  BY <1>2, <1>3, IdleReads DEF Queuing
<1>5. \A s : OpenJobs(s)' = OpenJobs(s) /\ Ready(s)' = Ready(s)
  BY <1>2 DEF OpenJobs, Ready
<1>6. ASSUME NEW s \in ids, s \notin excused'
      PROVE  Ready(s)' /\ ~student'[s].deleted /\ OpenJobs(s)' = {}
  <2>1. s \in Requested
    BY <1>2, <1>3 DEF Requested
  <2>2. Ready(s) /\ s \notin excused
    BY <1>6, <2>1 DEF Remember
  <2>3. ~InQueue(s)
    BY <2>2 DEF InQueue, Ready, Press!ReprintStage
  <2>4. OpenJobs(s) = {}
    BY <1>4, <2>2, <2>3 DEF OneCard
  <2>5. ~student[s].deleted
    BY DEF Press!OneBatch
  <2> QED
    BY <1>2, <1>5, <2>2, <2>4, <2>5
<1>7. PressReads(q)'
  BY <1>2, <1>6 DEF PressReads
<1>8. PressInv
  BY DEF SharedInv
<1>9. printReq[sl].op # "queue"
  BY <1>2, IdleReads
<1> QED
  BY <1>2, <1>7, <1>8, <1>9, QuietPrintStep

LEMMA PrintReads ==
  ASSUME PressInv, NoJobAtCreated, OneCard, Remember("print"), NEW sl \in Slot,
         \/ Press!ReadJobForMove(sl)  \/ Press!ReadJobForFile(sl)
         \/ Press!ReadJobForIssue(sl) \/ Press!ReadForReissue(sl)
  PROVE  PrintFollows(sl)
<1>1. \E q : /\ Press!Enter(sl, q)
             /\ q.op \in {"move", "file", "issue", "reissue"}
             /\ q.op = "move" => /\ q.students = job[q.batch].items
                                 /\ q.to \in Press!NextStatus(job[q.batch].status)
  <2>1. CASE Press!ReadJobForMove(sl)
    <3>1. PICK b \in Batch, to \in Press!OrderStatus :
            /\ to \in Press!NextStatus(job[b].status)
            /\ Press!Enter(sl, [op |-> "move", batch |-> b, to |-> to, students |-> job[b].items])
      BY <2>1 DEF Press!ReadJobForMove
    <3> PICK q : q = [op |-> "move", batch |-> b, to |-> to, students |-> job[b].items]
      OBVIOUS
    <3>2. Press!Enter(sl, q)
      BY <3>1
    <3>3. /\ q.op = "move"
          /\ q.students = job[q.batch].items /\ q.to \in Press!NextStatus(job[q.batch].status)
      BY <3>1
    <3> QED
      BY <3>2, <3>3
  <2>2. CASE Press!ReadJobForFile(sl)
    <3>1. PICK b \in Batch :
            Press!Enter(sl, [op |-> "file", batch |-> b, students |-> job[b].items])
      BY <2>2 DEF Press!ReadJobForFile
    <3> PICK q : q = [op |-> "file", batch |-> b, students |-> job[b].items]
      OBVIOUS
    <3>2. Press!Enter(sl, q) /\ q.op = "file"
      BY <3>1
    <3> QED
      BY <3>2
  <2>3. CASE Press!ReadJobForIssue(sl)
    <3>1. PICK b \in Batch, stage \in {"ISSUED", "REISSUED"} :
            Press!Enter(sl, [op |-> "issue", students |-> job[b].items, stage |-> stage])
      BY <2>3 DEF Press!ReadJobForIssue
    <3> PICK q : q = [op |-> "issue", students |-> job[b].items, stage |-> stage]
      OBVIOUS
    <3>2. Press!Enter(sl, q) /\ q.op = "issue"
      BY <3>1
    <3> QED
      BY <3>2
  <2>4. CASE Press!ReadForReissue(sl)
    <3>1. PICK s \in Student : Press!Enter(sl, [op |-> "reissue", students |-> {s}])
      BY <2>4 DEF Press!ReadForReissue
    <3> PICK q : q = [op |-> "reissue", students |-> {s}]
      OBVIOUS
    <3>2. Press!Enter(sl, q) /\ q.op = "reissue"
      BY <3>1
    <3> QED
      BY <3>2
  <2> QED
    BY <2>1, <2>2, <2>3, <2>4
<1>2. PICK q : /\ Press!Enter(sl, q)
               /\ q.op \in {"move", "file", "issue", "reissue"}
               /\ q.op = "move" => /\ q.students = job[q.batch].items
                                   /\ q.to \in Press!NextStatus(job[q.batch].status)
  BY <1>1
<1>3. /\ printReq[sl] = Idle /\ q # Idle
      /\ printReq' = [printReq EXCEPT ![sl] = q]
      /\ job' = job
  BY <1>2, SameRows DEF Press!Enter, Idle
<1>4. PressReads(q)'
  BY <1>2, <1>3 DEF PressReads, Builds, Press!NextStatus
<1>5. printReq[sl].op # "queue"
  BY <1>3, IdleReads
<1> QED
  BY <1>3, <1>4, <1>5, QuietPrintStep

----------------------------------------------------------------------------
LEMMA BatchAdvances ==
  ASSUME PressInv, NoJobAtCreated, OneCard, Remember("print"), NEW sl \in Slot,
         PressReads(printReq[sl]), Press!CreateOrder(sl) \/ Press!LinkOrder(sl)
  PROVE  PrintFollows(sl)
<1> PICK r : r = printReq[sl]
  OBVIOUS
<1>1. /\ r.op \in {"order", "link"} /\ Builds(r) /\ r # Idle
      /\ Press!Advance(sl, "link") \/ Press!Advance(sl, "job")
      /\ UNCHANGED <<student, job>>
  BY DEF Press!CreateOrder, Press!LinkOrder, Builds, Idle
<1>2. PICK q \in Press!Request : /\ q.op \in {"link", "job"} /\ q.students = r.students
                                 /\ printReq' = [printReq EXCEPT ![sl] = q]
  BY <1>1, Advanced
<1>3. \A s \in r.students \ excused : Ready(s) /\ ~student[s].deleted /\ OpenJobs(s) = {}
  BY <1>1 DEF PressReads
<1>4. \A s : OpenJobs(s)' = OpenJobs(s) /\ Ready(s)' = Ready(s)
  BY <1>1 DEF OpenJobs, Ready
<1>5. excused \subseteq excused'
  BY DEF Remember
<1>6. PressReads(q)'
  BY <1>1, <1>2, <1>3, <1>4, <1>5 DEF PressReads
<1> QED
  BY <1>1, <1>2, <1>6, QuietPrintStep

LEMMA JobCreated ==
  ASSUME PressInv, NoJobAtCreated, OneCard, Remember("print"), NEW sl \in Slot,
         PressReads(printReq[sl]), Press!CreateJob(sl)
  PROVE  PrintFollows(sl)
<1> PICK r : r = printReq[sl]
  OBVIOUS
<1>1. /\ r.op = "job" /\ Builds(r) /\ Placed(r) /\ r # Idle
      /\ Press!Advance(sl, "items")
      /\ job' = [job EXCEPT ![r.batch].status = "READY_FOR_PRINT"]
      /\ student' = student
  BY DEF Press!CreateJob, Builds, Idle, PressInv, RequestsPlaced
<1>2. PICK q \in Press!Request : /\ q.op = "items" /\ q.students = r.students
                                 /\ printReq' = [printReq EXCEPT ![sl] = q]
  BY <1>1, Advanced
<1>3. r.batch \in Batch /\ job[r.batch] = Press!NoJob
  BY <1>1, BatchOf DEF PressInv, Placed
<1>4. /\ job'[r.batch].status = "READY_FOR_PRINT" /\ job'[r.batch].items = {}
      /\ job[r.batch].items = {}
      /\ \A b \in Batch : b # r.batch => job'[b] = job[b]
  BY <1>1, <1>3 DEF Press!NoJob, PressInv, PrintRows, Press!JobRow
<1>5. \A s : OpenJobs(s)' = OpenJobs(s) /\ Ready(s)' = Ready(s)
  <2>1. \A s : OpenJobs(s)' = OpenJobs(s)
    BY <1>4 DEF OpenJobs
  <2> QED
    BY <1>1, <2>1 DEF Ready
<1>6. NoJobAtCreated'
  BY <1>4 DEF NoJobAtCreated
<1>7. \A s \in r.students \ excused : Ready(s) /\ ~student[s].deleted /\ OpenJobs(s) = {}
  BY <1>1 DEF PressReads
<1>8. excused \subseteq excused'
  BY DEF Remember
<1>9. PressReads(q)'
  BY <1>1, <1>2, <1>5, <1>7, <1>8 DEF PressReads
<1>10. \A s : Queuing(s) => Queuing(s)'
  BY <1>1, <1>2, QueuingKept
<1>11. OneCard'
  BY <1>5, <1>10, OneCardKept
<1> QED
  BY <1>1, <1>2, <1>6, <1>9, <1>11 DEF PrintFollows

LEMMA ItemsCreated ==
  ASSUME PressInv, NoJobAtCreated, OneCard, Remember("print"), NEW sl \in Slot,
         PressReads(printReq[sl]), Press!CreateItems(sl)
  PROVE  PrintFollows(sl)
<1> PICK r : r = printReq[sl]
  OBVIOUS
<1>1. /\ r.op = "items" /\ Builds(r) /\ Placed(r) /\ r # Idle
      /\ Press!Advance(sl, "queue")
      /\ job' = [job EXCEPT ![r.batch].items = r.students]
      /\ student' = student
  BY DEF Press!CreateItems, Builds, Idle, PressInv, RequestsPlaced
<1>2. PICK q \in Press!Request : /\ q.op = "queue" /\ q.students = r.students
                                 /\ printReq' = [printReq EXCEPT ![sl] = q]
  BY <1>1, Advanced
<1>3. r.batch \in Batch /\ job[r.batch].items = {}
  BY <1>1, BatchOf DEF PressInv, Placed
<1>4. /\ job'[r.batch].items = r.students
      /\ \A b \in Batch : job'[b].status = job[b].status
      /\ \A b \in Batch : b # r.batch => job'[b] = job[b]
  BY <1>1, <1>3 DEF PressInv, PrintRows, Press!JobRow
<1>5. NoJobAtCreated'
  BY <1>4 DEF NoJobAtCreated
<1>6. \A s \in r.students \ excused : Ready(s) /\ ~student[s].deleted /\ OpenJobs(s) = {}
  BY <1>1 DEF PressReads
<1>7. excused \subseteq excused'
  BY DEF Remember
<1>8. PressReads(q)'
  <2>1. \A s : Ready(s)' = Ready(s)
    BY <1>1 DEF Ready
  <2> QED
    BY <1>1, <1>2, <1>6, <1>7, <2>1 DEF PressReads
<1>9. printReq'[sl] = q
  BY <1>2 DEF PressInv, PrintRows
<1>10. \A s : Queuing(s) => Queuing(s)'
  BY <1>1, <1>2, QueuingKept
<1>11. OneCard'
  <2> SUFFICES ASSUME NEW s \in Student, s \notin excused'
               PROVE  /\ \A b, c \in OpenJobs(s)' : b = c
                      /\ OpenJobs(s)' # {} => InQueue(s)' \/ Queuing(s)'
    BY DEF OneCard
  <2>1. s \notin excused
    BY <1>7
  <2>2. CASE s \in r.students
    <3>1. OpenJobs(s) = {}
      BY <1>6, <2>1, <2>2
    <3>2. OpenJobs(s)' \subseteq {r.batch}
      BY <1>4, <3>1 DEF OpenJobs
    <3>3. Queuing(s)'
      BY <1>2, <1>9, <2>2 DEF Queuing
    <3> QED
      BY <3>2, <3>3
  <2>3. CASE s \notin r.students
    <3>1. OpenJobs(s)' = OpenJobs(s)
      BY <1>3, <1>4, <2>3 DEF OpenJobs
    <3>2. InQueue(s)' = InQueue(s)
      BY <1>1 DEF InQueue
    <3> QED
      BY <1>10, <2>1, <3>1, <3>2 DEF OneCard
  <2> QED
    BY <2>2, <2>3
<1> QED
  BY <1>1, <1>2, <1>5, <1>8, <1>11 DEF PrintFollows

LEMMA Queued ==
  ASSUME student \in [Student -> StudentRow], NEW ids,
         student' = Stamp(student, ids, "IN_PRINT_QUEUE", "IN_PRINT_QUEUE")
  PROVE  \A s \in Student : s \in ids => InQueue(s)'
<1>1. "IN_PRINT_QUEUE" \in Stage /\ "IN_PRINT_QUEUE" \in Status
  BY DEF Stage, Status
<1>2. \A s \in Student : s \in ids =>
        student'[s].stage = "IN_PRINT_QUEUE" /\ student'[s].status = "IN_PRINT_QUEUE"
  BY <1>1, StampedRows
<1> QED
  BY <1>2 DEF InQueue

(* The end of a request that leaves the jobs as they are                   *)
LEMMA PrintEnds ==
  ASSUME PressInv, Types, NoJobAtCreated, OneCard, Remember("print"), NEW sl \in Slot,
         \/ Press!RefuseJob(sl)   \/ Press!QueueStudents(sl) \/ Press!CommitFile(sl)
         \/ Press!CommitIssue(sl) \/ Press!CommitReissue(sl)
  PROVE  PrintFollows(sl)
<1> PICK r : r = printReq[sl]
  OBVIOUS
<1>1. /\ printReq' = [printReq EXCEPT ![sl] = Idle] /\ r # Idle
  BY SameRows
     DEF Press!RefuseJob, Press!QueueStudents, Press!CommitFile, Press!CommitIssue,

                  Press!CommitReissue, Press!Leave, Idle
<1>2. \A b \in Batch : job'[b].items = job[b].items /\ job'[b].status = job[b].status
  <2>1. job' = job \/ job' = [job EXCEPT ![r.batch].file = {r.students}]
    BY DEF Press!RefuseJob, Press!QueueStudents, Press!CommitFile, Press!CommitIssue,
           Press!CommitReissue
  <2> QED
    BY <2>1 DEF PressInv, PrintRows, Press!JobRow
<1>3. CASE r.op # "queue"
  BY <1>1, <1>2, <1>3, IdleReads, QuietPrintStep
<1>4. CASE r.op = "queue"
  <2>1. student' = Stamp(student, r.students, "IN_PRINT_QUEUE", "IN_PRINT_QUEUE")
    BY <1>4, SameStamp
       DEF Press!RefuseJob, Press!QueueStudents, Press!CommitFile, Press!CommitIssue,
           Press!CommitReissue
  <2>2. \A s \in Student : s \in r.students => InQueue(s)'
    <3>1. student \in [Student -> StudentRow]
      BY DEF Types
    <3> QED
      BY <2>1, <3>1, Queued
  <2>3. \A o \in Slot : o # sl => printReq'[o] = printReq[o]
    BY <1>1 DEF PressInv, PrintRows
  <2>4. \A s \in Student : Queuing(s) => Queuing(s)' \/ InQueue(s)'
    BY <2>2, <2>3 DEF Queuing
  <2>5. (\A s : OpenJobs(s)' = OpenJobs(s)) /\ NoJobAtCreated'
    BY <1>2, SameJobs
  <2>6. OneCard'
    BY <2>4, <2>5, OneCardKept
  <2> QED
    BY <1>1, <2>5, <2>6, IdleReads DEF PrintFollows
<1> QED
  BY <1>3, <1>4

LEMMA JobMoved ==
  ASSUME PressInv, NoJobAtCreated, OneCard, Remember("print"), NEW sl \in Slot,
         PressReads(printReq[sl]), Press!CommitMove(sl)
  PROVE  PrintFollows(sl)
<1> PICK r : r = printReq[sl]
  OBVIOUS
<1>1. /\ r.op = "move" /\ r # Idle
      /\ job' = [job EXCEPT ![r.batch].status = r.to]
      /\ printReq' = [printReq EXCEPT ![sl] = Idle]
  BY SameRows DEF Press!CommitMove, Press!Leave, Idle
<1>2. r.batch \in Batch /\ r.to \in Press!NextStatus(job[r.batch].status)
  BY <1>1, BatchOf DEF PressInv, PressReads
<1>3. job[r.batch].status # "CREATED"
  BY <1>2 DEF NoJobAtCreated
<1>4. /\ r.to # "CREATED"
      /\ r.to \in {"READY_FOR_PRINT", "PRINTING"} => job[r.batch].status = "READY_FOR_PRINT"
  BY <1>2, <1>3 DEF Press!NextStatus
<1>5. /\ job'[r.batch].status = r.to
      /\ \A b \in Batch : job'[b].items = job[b].items
      /\ \A b \in Batch : b # r.batch => job'[b] = job[b]
  BY <1>1, <1>2 DEF PressInv, PrintRows, Press!JobRow
<1>6. NoJobAtCreated'
  BY <1>4, <1>5 DEF NoJobAtCreated
<1>7. \A s \in Student : OpenJobs(s)' \subseteq OpenJobs(s)
  BY <1>4, <1>5 DEF OpenJobs
<1>8. \A s : Queuing(s) => Queuing(s)'
  BY <1>1, QueuingKept
<1>9. OneCard'
  BY <1>7, <1>8, OneCardKept
<1> QED
  BY <1>1, <1>6, <1>9, IdleReads DEF PrintFollows

----------------------------------------------------------------------------
LEMMA PrintSerial ==
  ASSUME SharedInv, SharedInv', SerialInv, load = 1, NEW sl \in Slot, PrintCards(sl)
  PROVE  SerialInv'
<1>1. /\ UNCHANGED <<workflow, signed, req, deskReq>>
      /\ Remember("print") /\ load' = load /\ DecidesWhatItWrites
  BY DEF PrintCards, approvalVars, Remember
<1>2. /\ Approvals!OneActiveWorkflow /\ StageFollows /\ StatusDecided /\ ReadsCurrent
      /\ NoJobAtCreated /\ OneCard
  BY DEF SerialInv
<1>3. PressInv /\ Types /\ PressReads(printReq[sl])
  BY <1>2 DEF SharedInv, ReadsCurrent
<1>4. PrintFollows(sl)
  <2>1. CASE Press!BeginDispatch(sl) \/ Press!BeginReprint(sl)
    <3>1. PICK ids \in SUBSET Student : Press!OneBatch(ids) /\ Press!BeginBatch(sl, ids)
      BY <2>1 DEF Press!BeginDispatch, Press!BeginReprint
    <3> QED
      BY <1>1, <1>2, <3>1, BatchBegins
  <2>2. CASE \/ Press!ReadJobForMove(sl)  \/ Press!ReadJobForFile(sl)
             \/ Press!ReadJobForIssue(sl) \/ Press!ReadForReissue(sl)
    BY <1>1, <1>2, <1>3, <2>2, PrintReads
  <2>3. CASE Press!CreateOrder(sl) \/ Press!LinkOrder(sl)
    BY <1>1, <1>2, <1>3, <2>3, BatchAdvances
  <2>4. CASE Press!CreateJob(sl)
    BY <1>1, <1>2, <1>3, <2>4, JobCreated
  <2>5. CASE Press!CreateItems(sl)
    BY <1>1, <1>2, <1>3, <2>5, ItemsCreated
  <2>6. CASE \/ Press!RefuseJob(sl)   \/ Press!QueueStudents(sl) \/ Press!CommitFile(sl)
             \/ Press!CommitIssue(sl) \/ Press!CommitReissue(sl)
    BY <1>1, <1>2, <1>3, <2>6, PrintEnds
  <2>7. CASE Press!CommitMove(sl)
    BY <1>1, <1>2, <1>3, <2>7, JobMoved
  <2> QED
    BY <2>1, <2>2, <2>3, <2>4, <2>5, <2>6, <2>7 DEF PrintCards, Press!BatchStep
<1>5. PICK q : /\ printReq' = [printReq EXCEPT ![sl] = q]
               /\ printReq[sl] # Idle \/ q # Idle
               /\ PressReads(q)'
  BY <1>4 DEF PrintFollows
<1>6. /\ printReq'[sl] = q
      /\ \A o \in Slot : o # sl => printReq[o] = Idle /\ printReq'[o] = Idle
      /\ \A o \in Slot : req[o] = Idle /\ deskReq[o] = Idle
  BY <1>1, <1>5, PrintAlone
<1>7. ReadsCurrent'
  <2> SUFFICES ASSUME NEW o \in Slot
               PROVE  ApprovalReads(req[o])' /\ PressReads(printReq[o])' /\ DeskReads(deskReq[o])'
    BY DEF ReadsCurrent
  <2>1. req'[o] = Idle /\ deskReq'[o] = Idle /\ printReq'[o] \in {q, Idle}
    BY <1>1, <1>6
  <2>2. ApprovalReads(req[o])'
    BY <2>1, IdleReads DEF ApprovalReads
  <2>3. DeskReads(deskReq[o])'
    BY <2>1, IdleReads DEF DeskReads, Idle
  <2>4. PressReads(printReq[o])'
    <3> PICK p : p = printReq'[o]
      OBVIOUS
    <3>1. PressReads(p)'
      BY <1>5, <2>1, IdleReads
    <3> QED
      BY <3>1 DEF PressReads, Builds
  <2> QED
    BY <2>2, <2>3, <2>4
<1>8. Approvals!OneActiveWorkflow' /\ StageFollows'
  <2>1. \A w \in Workflow : Approvals!Active(w)' => Approvals!Active(w)
    BY <1>1 DEF Approvals!Active
  <2>2. \A s \in Student : stagedBy'[s] = "approval" =>
          stagedBy[s] = "approval" /\ student'[s].stage = student[s].stage
    BY <1>1 DEF Remember
  <2> QED
    BY <1>1, <1>2, <2>1, <2>2, StagesStand
<1>9. StatusDecided'
  BY <1>1, <1>2, DecidedAsWritten
<1>10. NoJobAtCreated' /\ OneCard'
  BY <1>4 DEF PrintFollows
<1> QED
  BY <1>7, <1>8, <1>9, <1>10 DEF SerialInv

----------------------------------------------------------------------------
LEMMA SerialInit == Init => SerialInv
<1> SUFFICES ASSUME Init PROVE SerialInv
  OBVIOUS
<1>1. \A w \in Workflow : ~Approvals!Active(w)
  BY DEF Init, Approvals!Init, Approvals!NoWorkflow, Approvals!Active
<1>2. Approvals!OneActiveWorkflow /\ StageFollows
  BY <1>1 DEF Approvals!OneActiveWorkflow, StageFollows
<1>3. StatusDecided
  BY DEF Init, StatusDecided
<1>4. \A o \in Slot : req[o] = Idle /\ printReq[o] = Idle /\ deskReq[o] = Idle
  BY SameRows DEF Init, Approvals!Init, Press!Init
<1>5. ReadsCurrent
  BY <1>4, IdleReads DEF ReadsCurrent
<1>6. \A b \in Batch : job[b].status = "NONE" /\ job[b].items = {}
  BY DEF Init, Press!Init, Press!NoJob
<1>7. NoJobAtCreated /\ OneCard
  <2>1. \A s : OpenJobs(s) = {}
    BY <1>6 DEF OpenJobs
  <2> QED
    BY <1>6, <2>1 DEF NoJobAtCreated, OneCard
<1> QED
  BY <1>2, <1>3, <1>5, <1>7 DEF SerialInv

LEMMA SerialStep == SharedInv /\ SharedInv' /\ SerialInv /\ [Next]_vars => SerialInv'
<1> SUFFICES ASSUME SharedInv, SharedInv', SerialInv, [Next]_vars PROVE SerialInv'
  OBVIOUS
<1>1. load' = load
  BY DEF Next, Approve, PrintCards, Review, ProcessRestart, Remember, vars
<1>2. CASE load # 1
  BY <1>1, <1>2 DEF SerialInv
<1>3. CASE load = 1
  <2>1. ASSUME NEW sl \in Slot, Approve(sl) \/ PrintCards(sl) \/ Review(sl) PROVE SerialInv'
    BY <1>3, <2>1, ApproveSerial, PrintSerial, ReviewSerial
  <2>2. CASE ProcessRestart
    BY <1>3, <2>2, RestartSerial
  <2>3. CASE UNCHANGED vars
    BY <1>3, <2>3, StutterSerial
  <2> QED
    BY <2>1, <2>2, <2>3 DEF Next
<1> QED
  BY <1>2, <1>3

LEMMA AlwaysInv == Spec => [](SharedInv /\ SerialInv)
<1>1. Init => SharedInv /\ SerialInv
  BY SharedInit, SerialInit
<1>2. SharedInv /\ SerialInv /\ [Next]_vars => (SharedInv /\ SerialInv)'
  BY SharedStep, SerialStep
<1> QED
  BY <1>1, <1>2, PTL DEF Spec

----------------------------------------------------------------------------
(* Where a desk has put a student agrees with what the desk did: approved  *)
(* for design is signed by the whole chain and queued is on a job, however *)
(* requests overlap; and one at a time, the stage follows the workflow.    *)
THEOREM StagesTellTheTruth == Spec => []StagesAgree
<1>1. SharedInv /\ SerialInv => StagesAgree
  <2> SUFFICES ASSUME SharedInv, SerialInv, NEW s \in Student
               PROVE  /\ stagedBy[s] = "approval" /\ student[s].stage = "APPROVED_FOR_DESIGN" =>
                           \E w \in Workflow :
                             workflow[w].student = s /\ Approvals!FullySigned(w, signed)
                      /\ stagedBy[s] = "print" /\ student[s].stage = "IN_PRINT_QUEUE" =>
                           \E b \in Batch : s \in job[b].items
                      /\ load = 1 /\ stagedBy[s] = "approval" =>
                           \A w \in Workflow :
                             Approvals!Active(w) /\ workflow[w].student = s =>
                               student[s].stage =
                                 IF workflow[w].status = "SENT_BACK"
                                 THEN "SALES_CORRECTED" ELSE "AWAITING_INSTITUTION_APPROVAL"
    BY DEF StagesAgree
  <2>1. stagedBy[s] = "approval" /\ student[s].stage = "APPROVED_FOR_DESIGN" =>
          \E w \in Workflow : workflow[w].student = s /\ Approvals!FullySigned(w, signed)
    BY DEF SharedInv, SignedStage, SignedFor
  <2>2. stagedBy[s] = "print" /\ student[s].stage = "IN_PRINT_QUEUE" =>
          \E b \in Batch : s \in job[b].items
    BY DEF SharedInv, QueuedStage, OnAJob
  <2>3. load = 1 /\ stagedBy[s] = "approval" =>
          \A w \in Workflow :
            Approvals!Active(w) /\ workflow[w].student = s =>
              student[s].stage =
                IF workflow[w].status = "SENT_BACK"
                THEN "SALES_CORRECTED" ELSE "AWAITING_INSTITUTION_APPROVAL"
    BY DEF SerialInv, StageFollows
  <2> QED
    BY <2>1, <2>2, <2>3
<1> QED
  BY <1>1, AlwaysInv, PTL

(* Requests one at a time: a request that writes the status it read writes *)
(* the last decision, never an older one.                                  *)
THEOREM DecisionsAreKept == Spec => []DecisionsKept
<1>1. SharedInv /\ SerialInv => DecisionsKept
  BY DEF SerialInv, StatusDecided, DecisionsKept
<1> QED
  BY <1>1, AlwaysInv, PTL

(* Requests one at a time: nobody waits for two cards.                     *)
THEOREM OneCardAtATime == Spec => []OneCardInPrint
<1>1. SharedInv /\ SerialInv => OneCardInPrint
  <2> SUFFICES ASSUME SerialInv, load = 1, NEW s \in Student, s \notin excused
               PROVE  Cardinality(OpenJobs(s)) <= 1
    BY DEF OneCardInPrint
  <2>1. \A b, c \in OpenJobs(s) : b = c
    BY DEF SerialInv, OneCard
  <2>2. CASE OpenJobs(s) = {}
    BY <2>2, FS_EmptySet
  <2>3. CASE OpenJobs(s) # {}
    <3>1. PICK b : OpenJobs(s) = {b}
      BY <2>1, <2>3
    <3>2. Cardinality({b}) = 1
      BY FS_Singleton
    <3> QED
      BY <3>1, <3>2
  <2> QED
    BY <2>2, <2>3
<1> QED
  BY <1>1, AlwaysInv, PTL

(* Requests one at a time: whoever is queued without force is ready for a  *)
(* card and not archived, when the last statement of the dispatch runs.    *)
THEOREM QueuedAreReady == Loads = {1} /\ Spec => OnlyReadyIsQueued
<1>1. ASSUME Loads = {1} PROVE SharedInv /\ SerialInv /\ [Next]_vars =>
        [\A sl \in Slot :
           printReq[sl].op = "queue" /\ student' # student =>
             \A s \in printReq[sl].students \ excused : Ready(s) /\ ~student[s].deleted]_vars
  <2> SUFFICES ASSUME SharedInv, SerialInv, NEW sl \in Slot, printReq[sl].op = "queue",
                      NEW s \in printReq[sl].students \ excused
               PROVE  Ready(s) /\ ~student[s].deleted
    OBVIOUS
  <2>1. load = 1
    BY <1>1 DEF SharedInv, Types
  <2>2. PressReads(printReq[sl])
    BY <2>1 DEF SerialInv, ReadsCurrent
  <2> QED
    BY <2>2 DEF PressReads, Builds
<1> SUFFICES ASSUME Loads = {1} PROVE Spec => OnlyReadyIsQueued
  OBVIOUS
<1>2. SharedInv /\ SerialInv /\ [Next]_vars =>
        [\A sl \in Slot :
           printReq[sl].op = "queue" /\ student' # student =>
             \A s \in printReq[sl].students \ excused : Ready(s) /\ ~student[s].deleted]_vars
  BY <1>1
<1>3. Spec => [](SharedInv /\ SerialInv)
  BY AlwaysInv
<1> QED
  BY <1>2, <1>3, PTL DEF Spec, OnlyReadyIsQueued
=============================================================================
