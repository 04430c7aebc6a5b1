------------------------------ MODULE PrintLine ------------------------------
(***************************************************************************)
(* The print line of AdminService (modules/admin/admin.service.ts):        *)
(* dispatchToPrint and createReprintBatch, updatePrintJobStatus,           *)
(* generatePrintArtifact, requestStudentReissue and markPrintJobIssued.    *)
(*                                                                         *)
(* Dispatch and reprint write five tables in separate statements, without a *)
(* transaction: each statement is a step of its own and the process may    *)
(* stop between any two.  A request in flight occupies a slot and keeps    *)
(* what it read there.  Who may call an endpoint for which school is the   *)
(* business of Approval!CanReach and is left out here, and so are the      *)
(* batch codes: a caller may always choose one that is taken.              *)
(***************************************************************************)
EXTENDS Naturals, FiniteSets, StudentRecord

CONSTANTS
  Student, School, Batch, Slot,
  SchoolOf,     \* Student -> School
  Entry         \* rows the students may have when they reach the print line

ASSUME StudentAssumption ==
  /\ SchoolOf \in [Student -> School]
  /\ Entry \subseteq {row \in StudentRow : row.stage # "IN_PRINT_QUEUE"}

VARIABLES
  student,      \* Student table
  order,        \* Order table with its OrderStudent rows
  job,          \* PrintJob table with its PrintJobStudent rows
  printReq      \* the request in flight in each slot

vars == <<student, order, job, printReq>>

----------------------------------------------------------------------------
(* An order and the print job made for it share an id.  status "NONE" marks *)
(* a row not created; file stands for printFileUrl: {} before there is one, *)
(* then the singleton of the set of students the file has a row for.       *)

OrderStatus == {"CREATED", "READY_FOR_PRINT", "PRINTING", "PRINTED", "DISPATCHED"}

OrderRow == [status : OrderStatus \cup {"NONE"}, students : SUBSET Student]
JobRow == [status : OrderStatus \cup {"NONE"}, items : SUBSET Student,
           file : SUBSET SUBSET Student]
NoOrder == [status |-> "NONE", students |-> {}]
NoJob   == [status |-> "NONE", items |-> {}, file |-> {}]

Idle == [op |-> "idle"]
Batching == [op : {"order", "link", "job", "items", "queue"}, batch : Batch,
             students : SUBSET Student]
Moving   == [op : {"move"}, batch : Batch, to : OrderStatus, students : SUBSET Student]
Printing == [op : {"file"}, batch : Batch, students : SUBSET Student]
Issuing  == [op : {"issue"}, students : SUBSET Student, stage : {"ISSUED", "REISSUED"}]
Reissuing == [op : {"reissue"}, students : SUBSET Student]
Request == {Idle} \cup Batching \cup Moving \cup Printing \cup Issuing \cup Reissuing

(* fault: a reprint is asked for by setting a printed job back to PRINTING *)
NextStatusFaultPrintAgain(status) ==
  CASE status = "CREATED"         -> {"READY_FOR_PRINT", "PRINTING"}
    [] status = "READY_FOR_PRINT" -> {"PRINTING"}
    [] status = "PRINTING"        -> {"PRINTED"}
    [] status = "PRINTED"         -> {"DISPATCHED", "PRINTING"}
    [] OTHER                      -> {}

(* transitions of updatePrintJobStatus *)
NextStatus(status) ==
  CASE status = "CREATED"         -> {"READY_FOR_PRINT", "PRINTING"}
    [] status = "READY_FOR_PRINT" -> {"PRINTING"}
    [] status = "PRINTING"        -> {"PRINTED"}
    [] status = "PRINTED"         -> {"DISPATCHED"}
    [] OTHER                      -> {}

(* A request enters its slot. *)
Enter(sl, r) ==
  /\ printReq[sl] = Idle
  /\ printReq' = [printReq EXCEPT ![sl] = r]
  /\ UNCHANGED <<student, order, job>>

Leave(sl) == printReq' = [printReq EXCEPT ![sl] = Idle]
Advance(sl, op) == printReq' = [printReq EXCEPT ![sl].op = op]

----------------------------------------------------------------------------
(* dispatchToPrint and createReprintBatch *)

(* All the students exist, none is deleted, all are of one school.         *)
OneBatch(ids) ==
  /\ ids # {}
  /\ \A s \in ids : ~student[s].deleted
  /\ \A s, t \in ids : SchoolOf[s] = SchoolOf[t]

ReprintStage == {"PRINTED", "DISPATCHED", "ISSUED", "REISSUE_REQUESTED", "REISSUED"}

(* The rows to be created get their id here.                              *)
Unused(b) ==
  /\ order[b] = NoOrder
  /\ \A o \in Slot : printReq[o].op = "order" => printReq[o].batch # b

BeginBatch(sl, ids) ==
  \E b \in Batch :
    /\ Unused(b)
    /\ Enter(sl, [op |-> "order", batch |-> b, students |-> ids])

BeginDispatch(sl) ==
  \E ids \in SUBSET Student, forceRequeue \in BOOLEAN :
    /\ OneBatch(ids)
    /\ \A s \in ids : student[s].stage = "APPROVED_FOR_PRINT" \/ forceRequeue
    /\ BeginBatch(sl, ids)

BeginReprint(sl) ==
  \E ids \in SUBSET Student :
    /\ OneBatch(ids)
    /\ \A s \in ids : \/ student[s].stage \in ReprintStage
                      \/ student[s].status \in {"PRINTED", "DELIVERED"}
    /\ BeginBatch(sl, ids)

CreateOrder(sl) ==
  LET r == printReq[sl] IN
    /\ r.op = "order"
    /\ order' = [order EXCEPT ![r.batch].status = "READY_FOR_PRINT"]
    /\ Advance(sl, "link")
    /\ UNCHANGED <<student, job>>

(* fault: orderStudent.createMany is forgotten *)
LinkOrderFaultNoStudents(sl) ==
  /\ printReq[sl].op = "link"
  /\ Advance(sl, "job")
  /\ UNCHANGED <<student, order, job>>

LinkOrder(sl) ==
  LET r == printReq[sl] IN
    /\ r.op = "link"
    /\ order' = [order EXCEPT ![r.batch].students = r.students]
    /\ Advance(sl, "job")
    /\ UNCHANGED <<student, job>>

(* fault: the students are marked as queued before the items are written *)
CreateJobFaultQueuesEarly(sl) ==
  LET r == printReq[sl] IN
    /\ r.op = "job"
    /\ job' = [job EXCEPT ![r.batch].status = "READY_FOR_PRINT"]
    /\ student' = Stamp(student, r.students, "IN_PRINT_QUEUE", "IN_PRINT_QUEUE")
    /\ Advance(sl, "items")
    /\ UNCHANGED order

CreateJob(sl) ==
  LET r == printReq[sl] IN
    /\ r.op = "job"
    /\ job' = [job EXCEPT ![r.batch].status = "READY_FOR_PRINT"]
    /\ Advance(sl, "items")
    /\ UNCHANGED <<student, order>>

(* The unique index on batchCode refuses a code that another job has; the  *)
(* order stays behind.                                                     *)
RefuseJob(sl) ==
  /\ printReq[sl].op = "job"
  /\ \E b \in Batch : job[b] # NoJob
  /\ Leave(sl)
  /\ UNCHANGED <<student, order, job>>

CreateItems(sl) ==
  LET r == printReq[sl] IN
    /\ r.op = "items"
    /\ job' = [job EXCEPT ![r.batch].items = r.students]
    /\ Advance(sl, "queue")
    /\ UNCHANGED <<student, order>>

(* fault: the stage is forgotten *)
QueueStudentsFaultStatusOnly(sl) ==
  LET r == printReq[sl] IN
    /\ r.op = "queue"
    /\ student' = [s \in Student |->
         IF s \in r.students THEN [student[s] EXCEPT !.status = "IN_PRINT_QUEUE"] ELSE student[s]]
    /\ Leave(sl)
    /\ UNCHANGED <<order, job>>

QueueStudents(sl) ==
  LET r == printReq[sl] IN
    /\ r.op = "queue"
    /\ student' = Stamp(student, r.students, "IN_PRINT_QUEUE", "IN_PRINT_QUEUE")
    /\ Leave(sl)
    /\ UNCHANGED <<order, job>>

----------------------------------------------------------------------------
(* updatePrintJobStatus *)

ReadJobForMove(sl) ==
  \E b \in Batch, to \in OrderStatus :
    /\ job[b].status # "NONE"
    /\ to \in NextStatus(job[b].status)
    /\ Enter(sl, [op |-> "move", batch |-> b, to |-> to, students |-> job[b].items])

MoveStudents(r) ==
  CASE r.to = "PRINTED"    -> Stamp(student, r.students, "PRINTED", "PRINTED")
    [] r.to = "DISPATCHED" -> Stamp(student, r.students, "DISPATCHED", "DELIVERED")
    [] OTHER               -> student

(* fault: the order is not moved along *)
CommitMoveFaultOrderKept(sl) ==
  LET r == printReq[sl] IN
    /\ r.op = "move"
    /\ job' = [job EXCEPT ![r.batch].status = r.to]
    /\ student' = MoveStudents(r)
    /\ Leave(sl)
    /\ UNCHANGED order

(* fault: the students are not moved along *)
CommitMoveFaultStudentsKept(sl) ==
  LET r == printReq[sl] IN
    /\ r.op = "move"
    /\ job' = [job EXCEPT ![r.batch].status = r.to]
    /\ order' = [order EXCEPT ![r.batch].status = r.to]
    /\ Leave(sl)
    /\ UNCHANGED student

(* fault: the students are marked one status ahead of the job *)
CommitMoveFaultStudentsAhead(sl) ==
  LET r == printReq[sl] IN
    /\ r.op = "move"
    /\ job' = [job EXCEPT ![r.batch].status = r.to]
    /\ order' = [order EXCEPT ![r.batch].status = r.to]
    /\ student' = IF r.to = "PRINTING" THEN Stamp(student, r.students, "PRINTED", "PRINTED")
                                       ELSE MoveStudents(r)
    /\ Leave(sl)

(* The $transaction: job, order and the students of the items read before. *)
CommitMove(sl) ==
  LET r == printReq[sl] IN
    /\ r.op = "move"
    /\ job' = [job EXCEPT ![r.batch].status = r.to]
    /\ order' = [order EXCEPT ![r.batch].status = r.to]
    /\ student' = MoveStudents(r)
    /\ Leave(sl)

----------------------------------------------------------------------------
(* generatePrintArtifact: a row of the file for each item read.            *)

(* fault: only the students still waiting for the card get a row *)
ReadJobForFileFaultQueuedOnly(sl) ==
  \E b \in Batch :
    /\ job[b].status # "NONE"
    /\ Enter(sl, [op |-> "file", batch |-> b,
                  students |-> {s \in job[b].items : student[s].stage = "IN_PRINT_QUEUE"}])

ReadJobForFile(sl) ==
  \E b \in Batch :
    /\ job[b].status # "NONE"
    /\ Enter(sl, [op |-> "file", batch |-> b, students |-> job[b].items])

CommitFile(sl) ==
  LET r == printReq[sl] IN
    /\ r.op = "file"
    /\ job' = [job EXCEPT ![r.batch].file = {r.students}]
    /\ Leave(sl)
    /\ UNCHANGED <<student, order>>

----------------------------------------------------------------------------
(* markPrintJobIssued, at any status of the job, and requestStudentReissue *)

ReadJobForIssue(sl) ==
  \E b \in Batch, stage \in {"ISSUED", "REISSUED"} :
    /\ job[b].status # "NONE"
    /\ Enter(sl, [op |-> "issue", students |-> job[b].items, stage |-> stage])

CommitIssue(sl) ==
  LET r == printReq[sl] IN
    /\ r.op = "issue"
    /\ student' = Stamp(student, r.students, r.stage, "DELIVERED")
    /\ Leave(sl)
    /\ UNCHANGED <<order, job>>

ReadForReissue(sl) ==
  \E s \in Student :
    /\ ~student[s].deleted
    /\ Enter(sl, [op |-> "reissue", students |-> {s}])

CommitReissue(sl) ==
  LET r == printReq[sl] IN
    /\ r.op = "reissue"
    /\ student' = Stamp(student, r.students, "REISSUE_REQUESTED", "SUBMITTED")
    /\ Leave(sl)
    /\ UNCHANGED <<order, job>>

(* The process stops and starts again: every request in flight ends where  *)
(* it is, the rows it has written stay.                                    *)
ProcessRestart ==
  /\ \E sl \in Slot : printReq[sl] # Idle
  /\ printReq' = [sl \in Slot |-> Idle]
  /\ UNCHANGED <<student, order, job>>

----------------------------------------------------------------------------
Init ==
  /\ student \in [Student -> Entry]
  /\ order = [b \in Batch |-> NoOrder]
  /\ job = [b \in Batch |-> NoJob]
  /\ printReq = [sl \in Slot |-> Idle]

BatchStep(sl) ==
  \/ CreateOrder(sl)
  \/ LinkOrder(sl)
  \/ CreateJob(sl)
  \/ RefuseJob(sl)
  \/ CreateItems(sl)
  \/ QueueStudents(sl)

Next ==
  \/ \E sl \in Slot :
       \/ BeginDispatch(sl)
       \/ BeginReprint(sl)
       \/ BatchStep(sl)
       \/ ReadJobForMove(sl)
       \/ CommitMove(sl)
       \/ ReadJobForFile(sl)
       \/ CommitFile(sl)
       \/ ReadJobForIssue(sl)
       \/ CommitIssue(sl)
       \/ ReadForReissue(sl)
       \/ CommitReissue(sl)
  \/ ProcessRestart

Spec == Init /\ [][Next]_vars

----------------------------------------------------------------------------
(* Properties *)

TypeOK ==
  /\ student \in [Student -> StudentRow]
  /\ order \in [Batch -> OrderRow]
  /\ job \in [Batch -> JobRow]
  /\ printReq \in [Slot -> Request]

(* However requests overlap and wherever the process stops between the     *)
(* statements of a dispatch, a student marked as queued is on some job.    *)
QueuedIsOnAJob ==
  \A s \in Student :
    student[s].stage = "IN_PRINT_QUEUE" =>
      \E b \in Batch : job[b].status # "NONE" /\ s \in job[b].items

(* A print job and its order never disagree about the status.              *)
OrderMirrorsJob ==
  \A b \in Batch : job[b].status # "NONE" => order[b].status = job[b].status

(* A job prints the students of its order, or nothing yet (the process may *)
(* have stopped in between), however requests overlap.                     *)
ItemsMatchOrder ==
  \A b \in Batch : job[b].items # {} => job[b].items = order[b].students

(* The docs' "Status progression: READY -> PRINTING -> PRINTED ->          *)
(* DISPATCHED": a job never goes back or skips a status.  It holds while   *)
(* requests come one at a time; two updatePrintJobStatus requests that     *)
(* overlap break it.                                                       *)
StatusProgression ==
  [][\A b \in Batch :
       job[b].status # "NONE" =>
         \/ job'[b].status = job[b].status
         \/ <<job[b].status, job'[b].status>> \in
              {<<"READY_FOR_PRINT", "PRINTING">>, <<"PRINTING", "PRINTED">>,
               <<"PRINTED", "DISPATCHED">>}]_vars

(* While requests come one at a time (whatever the process crashes between) *)
(* a queued student is on a job that still has to be printed, so its card  *)
(* will come: dispatchToPrint, updatePrintJobStatus and markPrintJobIssued *)
(* keep Student and PrintJob in step.                                      *)
QueuedWillBePrinted ==
  \A s \in Student :
    student[s].stage = "IN_PRINT_QUEUE" =>
      \E b \in Batch : s \in job[b].items /\ job[b].status \in {"READY_FOR_PRINT", "PRINTING"}

(* While requests come one at a time, a student marked as printed or       *)
(* dispatched is on a job that got there.                                  *)
PrintedWasPrinted ==
  \A s \in Student :
    /\ student[s].stage = "PRINTED" =>
         \E b \in Batch : s \in job[b].items /\ job[b].status \in {"PRINTED", "DISPATCHED"}
    /\ student[s].stage = "DISPATCHED" =>
         \E b \in Batch : s \in job[b].items /\ job[b].status = "DISPATCHED"

(* While requests come one at a time, the print file of a job has a row    *)
(* for each of its students: generatePrintArtifact never sees a job whose  *)
(* items are still to be written.                                          *)
FileIsComplete == \A b \in Batch : job[b].file \subseteq {job[b].items}
=============================================================================
