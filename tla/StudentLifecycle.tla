--------------------------- MODULE StudentLifecycle ---------------------------
(***************************************************************************)
(* One student through the whole product: the approval engine, the review  *)
(* desk and the print line over the one Student table.  A step is a step of *)
(* one of them; load says how many of their requests may be in flight, so   *)
(* with load = 1 a request of one desk never sees another at work.         *)
(*                                                                         *)
(* Nothing joins the desks but the two columns stage and status, and no    *)
(* desk knows which other has written them; decided, stagedBy and excused   *)
(* remember that for the properties.                                       *)
(***************************************************************************)
EXTENDS Naturals, FiniteSets, StudentRecord

CONSTANTS
  Student, School, Chain, Actor, Workflow, Batch, Slot,
  SchoolOf, ChainSchool, ChainSteps, RoleOf, Scope, Entry, MaxBulk,
  HandStage, HandStatus,
  Loads         \* how many requests may be in flight

VARIABLES
  student,
  workflow, request, signed, fresh, req,   \* Approval
  order, job, printReq,                    \* PrintLine
  deskReq,                                 \* ReviewDesk
  load,
  decided,    \* the status somebody last decided on for a student
  stagedBy,   \* who last moved the student to another stage
  excused     \* students dispatched by force, taken out of the print queue, or
              \* left behind by a request that was cut off

approvalVars == <<workflow, request, signed, fresh, req>>
printVars == <<order, job, printReq>>
vars == <<student, approvalVars, printVars, deskReq, load, decided, stagedBy, excused>>

Approvals == INSTANCE Approval
Press == INSTANCE PrintLine
Desk == INSTANCE ReviewDesk

(* What the desks assume, each about its own constants; a stage or status a *)
(* rule or a correction carries is one of the enums; finitely many requests *)
(* are in flight.                                                          *)
ASSUME LifecycleAssumption ==
  /\ Approvals!ChainAssumption /\ Approvals!PeopleAssumption /\ Press!StudentAssumption
  /\ HandStage \subseteq Stage /\ HandStatus \subseteq Status
  /\ IsFiniteSet(Slot) /\ Loads \subseteq Nat

----------------------------------------------------------------------------
Idle == [op |-> "idle"]
InFlight(slots) == Cardinality({sl \in Slot : slots[sl] # Idle})
Busy == InFlight(req) + InFlight(printReq) + InFlight(deskReq)

OpenJobs(s) == {b \in Batch : s \in job[b].items /\ job[b].status \in {"READY_FOR_PRINT", "PRINTING"}}
InQueue(s) == student[s].stage = "IN_PRINT_QUEUE" /\ student[s].status = "IN_PRINT_QUEUE"

Ready(s) ==
  \/ student[s].stage = "APPROVED_FOR_PRINT"
  \/ student[s].stage \in Press!ReprintStage
  \/ student[s].status \in {"PRINTED", "DELIVERED"}

Requested ==
  UNION {printReq'[sl].students : sl \in {sl \in Slot : printReq[sl] = Idle /\ printReq'[sl].op = "order"}}

(* What every step leaves in the history                                   *)
Remember(who) ==
  /\ Busy' <= load
  /\ load' = load
  /\ stagedBy' = [s \in Student |->
       IF student'[s].stage # student[s].stage THEN who ELSE stagedBy[s]]
  /\ excused' = excused
       \cup {s \in Requested : ~Ready(s)}
       \cup {s \in Student : InQueue(s) /\ ~InQueue(s)' /\ OpenJobs(s)' # {}}

DecidesNothing == decided' = decided
DecidesWhatItWrites ==
  decided' = [s \in Student |->
    IF student'[s] # student[s] THEN student'[s].status ELSE decided[s]]

----------------------------------------------------------------------------
Approve(sl) ==
  /\ \/ /\ \/ Approvals!ReadForStart(sl) \/ Approvals!ScanOpen(sl)
           \/ Approvals!BeginAct(sl) \/ Approvals!ReadWorkflow(sl) \/ Approvals!RefuseWorkflow(sl)
           \/ Approvals!CommitApproveStep(sl) \/ Approvals!CommitComment(sl)
        /\ DecidesNothing
     \/ /\ Approvals!CommitStart(sl)
        /\ decided' = [decided EXCEPT ![req[sl].student] = IF @ = "DRAFT" THEN "SUBMITTED" ELSE @]
     \/ /\ Approvals!CommitApproveLast(sl) \/ Approvals!CommitReject(sl) \/ Approvals!CommitSendBack(sl)
        /\ DecidesWhatItWrites
  /\ UNCHANGED <<printVars, deskReq>>
  /\ Remember("approval")

PrintCards(sl) ==
  /\ \/ Press!BeginDispatch(sl) \/ Press!BeginReprint(sl) \/ Press!BatchStep(sl)
     \/ Press!ReadJobForMove(sl) \/ Press!CommitMove(sl)
     \/ Press!ReadJobForFile(sl) \/ Press!CommitFile(sl)
     \/ Press!ReadJobForIssue(sl) \/ Press!CommitIssue(sl)
     \/ Press!ReadForReissue(sl) \/ Press!CommitReissue(sl)
  /\ DecidesWhatItWrites
  /\ UNCHANGED <<approvalVars, deskReq>>
  /\ Remember("print")

(* A handoff to a stage that means a status decides that status too.       *)
MeansStatus == {"APPROVED_FOR_DESIGN", "APPROVED_FOR_PRINT", "PRINTED", "DISPATCHED", "ISSUED"}

Review(sl) ==
  /\ \/ /\ Desk!Begin(sl) \/ Desk!MoveOn(sl)
        /\ DecidesNothing
     \/ /\ Desk!Decide(sl)
        /\ DecidesWhatItWrites
     \/ /\ Desk!Route(sl)
        /\ IF student'[deskReq[sl].student].stage \in MeansStatus
           THEN DecidesWhatItWrites ELSE DecidesNothing
  /\ UNCHANGED <<approvalVars, printVars>>
  /\ Remember("desk")

(* The process stops: with it all that is in flight.                       *)
ProcessRestart ==
  /\ Busy > 0
  /\ req' = [sl \in Slot |-> Idle]
  /\ printReq' = [sl \in Slot |-> Idle]
  /\ deskReq' = [sl \in Slot |-> Idle]
  /\ excused' = excused \cup
       UNION {printReq[sl].students : sl \in {sl \in Slot : printReq[sl].op = "queue"}}
  /\ UNCHANGED <<student, workflow, request, signed, fresh, order, job, load, decided, stagedBy>>

Init ==
  /\ Approvals!Init
  /\ Press!Init
  /\ deskReq = [sl \in Slot |-> Idle]
  /\ load \in Loads
  /\ decided = [s \in Student |-> student[s].status]
  /\ stagedBy = [s \in Student |-> "entry"]
  /\ excused = {}

Next ==
  \/ \E sl \in Slot : Approve(sl) \/ PrintCards(sl) \/ Review(sl)
  \/ ProcessRestart

Spec == Init /\ [][Next]_vars

----------------------------------------------------------------------------
(* Properties *)

(* The desks may move a student over each other's heads, but what one of   *)
(* them has put a student at tells the truth as long as no other moved it: *)
(* approved for design is signed by the whole chain, queued is on a job;   *)
(* and, requests one at a time, an open workflow is where the stage says.  *)
StagesAgree ==
  \A s \in Student :
    /\ stagedBy[s] = "approval" /\ student[s].stage = "APPROVED_FOR_DESIGN" =>
         \E w \in Workflow : workflow[w].student = s /\ Approvals!FullySigned(w, signed)
    /\ stagedBy[s] = "print" /\ student[s].stage = "IN_PRINT_QUEUE" =>
         \E b \in Batch : s \in job[b].items
    /\ load = 1 /\ stagedBy[s] = "approval" =>
         \A w \in Workflow :
           Approvals!Active(w) /\ workflow[w].student = s =>
             student[s].stage =
               IF workflow[w].status = "SENT_BACK" THEN "SALES_CORRECTED"
                                                   ELSE "AWAITING_INSTITUTION_APPROVAL"

(* Requests one at a time: no request takes back a status another has       *)
(* decided on; startApprovalWorkflow, handoffStudent and applyWorkflowRule  *)
(* write the status they read at the beginning.                            *)
DecisionsKept == load = 1 => \A s \in Student : student[s].status = decided[s]

(* Requests one at a time: a student waits for one card at a time, unless   *)
(* the dispatch was forced or cut off or the student left the queue early. *)
OneCardInPrint ==
  load = 1 => \A s \in Student \ excused : Cardinality(OpenJobs(s)) <= 1

(* dispatchToPrint's "Only production-ready students can be dispatched":    *)
(* whoever is queued without force is ready for it and not archived.       *)
OnlyReadyIsQueued ==
  [][\A sl \in Slot :
       printReq[sl].op = "queue" /\ student' # student =>
         \A s \in printReq[sl].students \ excused : Ready(s) /\ ~student[s].deleted]_vars
=============================================================================
