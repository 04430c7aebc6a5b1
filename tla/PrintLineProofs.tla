-------------------------- MODULE PrintLineProofs --------------------------
(***************************************************************************)
(* Proofs about PrintLine for any students and batches, any number of      *)
(* overlapping requests and a crash at any step: the type invariant, that  *)
(* a queued student is on a job, and that order and job agree.  The second *)
(* part is about requests that do not overlap: queued cards come, files are *)
(* complete and jobs go forward.                                           *)
(***************************************************************************)
EXTENDS PrintLine, TLAPS

(* A batch is built by one request: the one that chose its id.             *)
Builds(r) == r.op \in {"order", "link", "job", "items", "queue"}

BatchesApart ==
  \A o, p \in Slot :
    Builds(printReq[o]) /\ Builds(printReq[p]) /\ printReq[o].batch = printReq[p].batch
      => o = p

(* What a request finds when it makes its next write, whatever the others  *)
(* did since it started.                                                   *)
Placed(r) ==
  /\ r.op = "order" => order[r.batch] = NoOrder
  /\ r.op \in {"link", "job"} =>
       order[r.batch].status = "READY_FOR_PRINT" /\ job[r.batch] = NoJob
  /\ r.op \in {"job", "items"} => order[r.batch].students = r.students
  /\ r.op = "items" => job[r.batch].status # "NONE" /\ job[r.batch].items = {}
  /\ r.op = "queue" => job[r.batch].status # "NONE" /\ job[r.batch].items = r.students
  /\ r.op \in {"move", "file"} => job[r.batch].status # "NONE"

RequestsPlaced == \A sl \in Slot : Placed(printReq[sl])

(* A job not created is empty.                                             *)
UnmadeJobIsEmpty == \A b \in Batch : job[b].status = "NONE" => job[b] = NoJob

IInv ==
  /\ TypeOK
  /\ BatchesApart
  /\ RequestsPlaced
  /\ UnmadeJobIsEmpty
  /\ QueuedIsOnAJob
  /\ OrderMirrorsJob
  /\ ItemsMatchOrder

----------------------------------------------------------------------------
(* Shapes of requests *)
LEMMA BatchingShape ==
  ASSUME TypeOK, NEW sl \in Slot, NEW r, r = printReq[sl], Builds(r)
  PROVE  r \in Batching
BY DEF TypeOK, Request, Idle, Batching, Moving, Printing, Issuing, Reissuing, Builds

LEMMA MovingShape ==
  ASSUME TypeOK, NEW sl \in Slot, NEW r, r = printReq[sl], r.op = "move"
  PROVE  r \in Moving
BY DEF TypeOK, Request, Idle, Batching, Moving, Printing, Issuing, Reissuing

LEMMA PrintingShape ==
  ASSUME TypeOK, NEW sl \in Slot, NEW r, r = printReq[sl], r.op = "file"
  PROVE  r \in Printing
BY DEF TypeOK, Request, Idle, Batching, Moving, Printing, Issuing, Reissuing

LEMMA IssuingShape ==
  ASSUME TypeOK, NEW sl \in Slot, NEW r, r = printReq[sl], r.op = "issue"
  PROVE  r \in Issuing
BY DEF TypeOK, Request, Idle, Batching, Moving, Printing, Issuing, Reissuing

LEMMA ReissuingShape ==
  ASSUME TypeOK, NEW sl \in Slot, NEW r, r = printReq[sl], r.op = "reissue"
  PROVE  r \in Reissuing
BY DEF TypeOK, Request, Idle, Batching, Moving, Printing, Issuing, Reissuing

LEMMA IdleIsQuiet == Idle \in Request /\ ~Builds(Idle) /\ Placed(Idle) /\ Placed(Idle)'
BY DEF Idle, Request, Builds, Placed

(* A request for a batch names one that exists in the table.               *)
LEMMA BatchOf ==
  ASSUME TypeOK, NEW sl \in Slot, NEW r, r = printReq[sl],
         Builds(r) \/ r.op \in {"move", "file"}
  PROVE  r.batch \in Batch
BY BatchingShape, MovingShape, PrintingShape DEF Batching, Moving, Printing

LEMMA StampType ==
  ASSUME NEW table \in [Student -> StudentRow], NEW ids, NEW stage \in Stage,
         NEW status \in Status
  PROVE  Stamp(table, ids, stage, status) \in [Student -> StudentRow]
BY DEF Stamp, StudentRow

(* Marking students with another stage queues nobody.                      *)
LEMMA StampQueuesNobody ==
  ASSUME NEW table \in [Student -> StudentRow], NEW ids, NEW stage, NEW status,
         stage # "IN_PRINT_QUEUE", NEW s \in Student,
         Stamp(table, ids, stage, status)[s].stage = "IN_PRINT_QUEUE"
  PROVE  table[s].stage = "IN_PRINT_QUEUE"
BY DEF Stamp, StudentRow

LEMMA StampLeavesOthers ==
  ASSUME NEW table \in [Student -> StudentRow], NEW ids, NEW stage, NEW status,
         NEW s \in Student, s \notin ids
  PROVE  Stamp(table, ids, stage, status)[s] = table[s]
BY DEF Stamp

----------------------------------------------------------------------------
LEMMA InitEstablishes == Init => IInv
<1> SUFFICES ASSUME Init PROVE IInv
  OBVIOUS
<1>1. TypeOK
  BY IdleIsQuiet, StudentAssumption DEF Init, TypeOK, OrderRow, JobRow, NoOrder, NoJob
<1>2. BatchesApart
  BY IdleIsQuiet DEF Init, BatchesApart
<1>3. RequestsPlaced
  BY IdleIsQuiet DEF Init, RequestsPlaced
<1>4. UnmadeJobIsEmpty
  BY DEF Init, UnmadeJobIsEmpty
<1>5. QueuedIsOnAJob
  BY StudentAssumption DEF Init, QueuedIsOnAJob
<1>6. OrderMirrorsJob
  BY DEF Init, OrderMirrorsJob, NoJob, NoOrder
<1>7. ItemsMatchOrder
  BY DEF Init, ItemsMatchOrder, NoJob, NoOrder
<1> QED
  BY <1>1, <1>2, <1>3, <1>4, <1>5, <1>6, <1>7 DEF IInv

----------------------------------------------------------------------------
(* The slots after a step of one of them: if the new request is well placed *)
(* and builds a batch nobody else builds, the slots are in order.          *)
LEMMA SlotsInOrder ==
  ASSUME IInv, NEW sl \in Slot, NEW q \in Request,
         printReq' = [printReq EXCEPT ![sl] = q],
         Placed(q)',
         \A o \in Slot : o # sl => Placed(printReq[o])',
         \A o \in Slot : o # sl /\ Builds(q) /\ Builds(printReq[o])
                            => printReq[o].batch # q.batch
  PROVE  printReq' \in [Slot -> Request] /\ BatchesApart' /\ RequestsPlaced'
<1>1. printReq \in [Slot -> Request]
  BY DEF IInv, TypeOK
<1>2. printReq'[sl] = q /\ \A o \in Slot : o # sl => printReq'[o] = printReq[o]
  BY <1>1
<1>3. BatchesApart'
  BY <1>2 DEF IInv, BatchesApart
<1>4. RequestsPlaced'
  <2> SUFFICES ASSUME NEW o \in Slot PROVE Placed(printReq[o])'
    BY DEF RequestsPlaced
  <2>1. CASE o = sl
    BY <1>2, <2>1 DEF Placed
  <2>2. CASE o # sl
    BY <2>2
  <2> QED
    BY <2>1, <2>2
<1> QED
  BY <1>1, <1>3, <1>4

(* The other slots after a request wrote the rows of a batch only it builds. *)
LEMMA OthersOffTheBatch ==
  ASSUME IInv, NEW sl \in Slot, NEW b \in Batch,
         \A o \in Slot : o # sl => printReq'[o] = printReq[o],
         \A o \in Slot : o # sl /\ Builds(printReq[o]) => printReq[o].batch # b,
         \A c \in Batch : c # b => order'[c] = order[c] /\ job'[c] = job[c],
         job[b].status # "NONE" => job'[b].status # "NONE"
  PROVE  \A o \in Slot : o # sl => Placed(printReq[o])'
<1> SUFFICES ASSUME NEW o \in Slot, o # sl PROVE Placed(printReq[o])'
  OBVIOUS
<1> PICK r : r = printReq[o]
  OBVIOUS
<1>1. printReq'[o] = r /\ Placed(r)
  BY DEF IInv, RequestsPlaced
<1>2. CASE Builds(r)
  <2>1. r.batch \in Batch /\ r.batch # b
    BY <1>2, BatchOf DEF IInv
  <2>2. order'[r.batch] = order[r.batch] /\ job'[r.batch] = job[r.batch]
    BY <2>1
  <2> QED
    BY <1>1, <2>2 DEF Placed
<1>3. CASE ~Builds(r)
  <2>1. r.op \in {"move", "file"} => r.batch \in Batch
    BY BatchOf DEF IInv
  <2>2. r.op \in {"move", "file"} => job'[r.batch].status # "NONE"
    BY <1>1, <2>1 DEF Placed
  <2> QED
    BY <1>1, <1>3, <2>2 DEF Placed, Builds
<1> QED
  BY <1>2, <1>3

(* The other slots after a request changed the status or the file of a job. *)
LEMMA OthersOnTheJob ==
  ASSUME IInv, NEW sl \in Slot, NEW b \in Batch,
         \A o \in Slot : o # sl => printReq'[o] = printReq[o],
         \A c \in Batch : c # b => order'[c] = order[c] /\ job'[c] = job[c],
         job[b].status # "NONE", job'[b].status # "NONE",
         job'[b].items = job[b].items, order'[b].students = order[b].students
  PROVE  \A o \in Slot : o # sl => Placed(printReq[o])'
<1> SUFFICES ASSUME NEW o \in Slot, o # sl PROVE Placed(printReq[o])'
  OBVIOUS
<1> PICK r : r = printReq[o]
  OBVIOUS
<1>1. printReq'[o] = r /\ Placed(r)
  BY DEF IInv, RequestsPlaced
<1>2. Builds(r) \/ r.op \in {"move", "file"} => r.batch \in Batch
  BY BatchOf DEF IInv
<1>3. order[b] # NoOrder /\ job[b] # NoJob
  BY DEF IInv, OrderMirrorsJob, NoOrder, NoJob
<1>4. CASE Builds(r) /\ r.batch = b
  <2>1. r.op \in {"items", "queue"}
    BY <1>1, <1>3, <1>4 DEF Placed, Builds
  <2> QED
    BY <1>1, <1>4, <2>1 DEF Placed
<1>5. CASE Builds(r) /\ r.batch # b
  <2>1. order'[r.batch] = order[r.batch] /\ job'[r.batch] = job[r.batch]
    BY <1>2, <1>5
  <2> QED
    BY <1>1, <2>1 DEF Placed
<1>6. CASE ~Builds(r)
  <2>1. r.op \in {"move", "file"} => job'[r.batch].status # "NONE"
    BY <1>1, <1>2 DEF Placed
  <2> QED
    BY <1>1, <1>6, <2>1 DEF Placed, Builds
<1> QED
  BY <1>4, <1>5, <1>6

----------------------------------------------------------------------------
(* The steps that only read, and those that end a request unwritten. *)
LEMMA TablesUntouched ==
  ASSUME IInv, NEW sl \in Slot, NEW q \in Request,
         printReq' = [printReq EXCEPT ![sl] = q],
         UNCHANGED <<student, order, job>>,
         Placed(q),
         \A o \in Slot : o # sl /\ Builds(q) /\ Builds(printReq[o])
                            => printReq[o].batch # q.batch
  PROVE  IInv'
<1>1. Placed(q)'
  BY DEF Placed
<1>2. \A o \in Slot : o # sl => Placed(printReq[o])'
  <2> SUFFICES ASSUME NEW o \in Slot, o # sl PROVE Placed(printReq[o])'
    OBVIOUS
  <2> PICK r : r = printReq[o]
    OBVIOUS
  <2>1. printReq'[o] = r /\ Placed(r)
    BY DEF IInv, RequestsPlaced, TypeOK
  <2> QED
    BY <2>1 DEF Placed
<1>3. printReq' \in [Slot -> Request] /\ BatchesApart' /\ RequestsPlaced'
  BY <1>1, <1>2, SlotsInOrder
<1>4. TypeOK'
  BY <1>3 DEF IInv, TypeOK
<1>5. UnmadeJobIsEmpty' /\ QueuedIsOnAJob' /\ OrderMirrorsJob' /\ ItemsMatchOrder'
  BY DEF IInv, UnmadeJobIsEmpty, QueuedIsOnAJob, OrderMirrorsJob, ItemsMatchOrder
<1> QED
  BY <1>3, <1>4, <1>5 DEF IInv

LEMMA BeginBatchKeeps ==
  ASSUME IInv, NEW sl \in Slot, NEW ids \in SUBSET Student, BeginBatch(sl, ids)
  PROVE  IInv'
<1>1. PICK b \in Batch : Unused(b) /\ Enter(sl, [op |-> "order", batch |-> b, students |-> ids])
  BY DEF BeginBatch
<1> PICK q : q = [op |-> "order", batch |-> b, students |-> ids]
  OBVIOUS
<1>2. q \in Request /\ q.op = "order" /\ q.batch = b
  BY DEF Request, Batching
<1>3. Placed(q)
  BY <1>1, <1>2 DEF Placed, Unused
<1>4. ASSUME NEW o \in Slot, o # sl, Builds(printReq[o])
      PROVE  printReq[o].batch # q.batch
  <2> PICK r : r = printReq[o]
    OBVIOUS
  <2>1. Placed(r) /\ r.batch \in Batch
    BY <1>4, BatchOf DEF IInv, RequestsPlaced
  <2>2. CASE r.op = "order"
    BY <1>1, <1>2, <2>2 DEF Unused
  <2>3. CASE r.op \in {"link", "job"}
    BY <1>1, <1>2, <2>1, <2>3 DEF Unused, Placed, NoOrder
  <2>4. CASE r.op \in {"items", "queue"}
    BY <1>1, <1>2, <2>1, <2>4 DEF Unused, Placed, NoOrder, IInv, OrderMirrorsJob
  <2> QED
    BY <1>4, <2>2, <2>3, <2>4 DEF Builds
<1>5. printReq' = [printReq EXCEPT ![sl] = q] /\ UNCHANGED <<student, order, job>>
  BY <1>1 DEF Enter
<1> QED
  BY <1>2, <1>3, <1>4, <1>5, TablesUntouched

LEMMA ReadingKeeps ==
  ASSUME IInv, NEW sl \in Slot,
         \/ ReadJobForMove(sl)  \/ ReadJobForFile(sl)
         \/ ReadJobForIssue(sl) \/ ReadForReissue(sl)
  PROVE  IInv'
<1> SUFFICES \E q \in Request : Enter(sl, q) /\ Placed(q) /\ ~Builds(q)
  BY TablesUntouched DEF Enter
<1>1. CASE ReadJobForMove(sl)
  <2>1. PICK b \in Batch, to \in OrderStatus :
          /\ job[b].status # "NONE"
          /\ Enter(sl, [op |-> "move", batch |-> b, to |-> to, students |-> job[b].items])
    BY <1>1 DEF ReadJobForMove
  <2> PICK q : q = [op |-> "move", batch |-> b, to |-> to, students |-> job[b].items]
    OBVIOUS
  <2>2. q \in Moving
    BY DEF IInv, TypeOK, JobRow, Moving
  <2> QED
    BY <2>1, <2>2 DEF Request, Placed, Builds
<1>2. CASE ReadJobForFile(sl)
  <2>1. PICK b \in Batch :
          /\ job[b].status # "NONE"
          /\ Enter(sl, [op |-> "file", batch |-> b, students |-> job[b].items])
    BY <1>2 DEF ReadJobForFile
  <2> PICK q : q = [op |-> "file", batch |-> b, students |-> job[b].items]
    OBVIOUS
  <2>2. q \in Printing
    BY DEF IInv, TypeOK, JobRow, Printing
  <2> QED
    BY <2>1, <2>2 DEF Request, Placed, Builds
<1>3. CASE ReadJobForIssue(sl)
  <2>1. PICK b \in Batch, stage \in {"ISSUED", "REISSUED"} :
          Enter(sl, [op |-> "issue", students |-> job[b].items, stage |-> stage])
    BY <1>3 DEF ReadJobForIssue
  <2> PICK q : q = [op |-> "issue", students |-> job[b].items, stage |-> stage]
    OBVIOUS
  <2>2. q \in Issuing
    BY DEF IInv, TypeOK, JobRow, Issuing
  <2> QED
    BY <2>1, <2>2 DEF Request, Placed, Builds
<1>4. CASE ReadForReissue(sl)
  <2>1. PICK s \in Student : Enter(sl, [op |-> "reissue", students |-> {s}])
    BY <1>4 DEF ReadForReissue
  <2> PICK q : q = [op |-> "reissue", students |-> {s}]
    OBVIOUS
  <2>2. q \in Reissuing
    BY DEF Reissuing
  <2> QED
    BY <2>1, <2>2 DEF Request, Placed, Builds
<1> QED
  BY <1>1, <1>2, <1>3, <1>4

LEMMA RefuseJobKeeps ==
  ASSUME IInv, NEW sl \in Slot, RefuseJob(sl)
  PROVE  IInv'
<1>1. printReq' = [printReq EXCEPT ![sl] = Idle] /\ UNCHANGED <<student, order, job>>
  BY DEF RefuseJob, Leave
<1> QED
  BY <1>1, IdleIsQuiet, TablesUntouched

----------------------------------------------------------------------------
(* The steps that build a batch *)
LEMMA Advanced ==
  ASSUME IInv, NEW sl \in Slot, NEW r, r = printReq[sl], Builds(r),
         NEW op \in {"order", "link", "job", "items", "queue"}, Advance(sl, op)
  PROVE  \E q \in Request :
           /\ q.op = op /\ q.batch = r.batch /\ q.students = r.students
           /\ printReq' = [printReq EXCEPT ![sl] = q]
<1> PICK q : q = [op |-> op, batch |-> r.batch, students |-> r.students]
  OBVIOUS
<1>1. r \in Batching
  BY BatchingShape DEF IInv
<1>2. [r EXCEPT !.op = op] = q /\ q \in Batching
  BY <1>1 DEF Batching
<1>3. printReq' = [printReq EXCEPT ![sl] = q]
  BY <1>2 DEF Advance
<1> QED
  BY <1>2, <1>3 DEF Request

LEMMA BuildingSlots ==
  ASSUME IInv, NEW sl \in Slot, NEW r, r = printReq[sl], Builds(r),
         NEW q \in Request, printReq' = [printReq EXCEPT ![sl] = q],
         Builds(q) => q.batch = r.batch,
         Placed(q)',
         \A c \in Batch : c # r.batch => order'[c] = order[c] /\ job'[c] = job[c],
         job[r.batch].status # "NONE" => job'[r.batch].status # "NONE"
  PROVE  printReq' \in [Slot -> Request] /\ BatchesApart' /\ RequestsPlaced'
<1>1. r.batch \in Batch
  BY BatchOf DEF IInv
<1>2. \A o \in Slot : o # sl /\ Builds(printReq[o]) => printReq[o].batch # r.batch
  BY DEF IInv, BatchesApart
<1>3. \A o \in Slot : o # sl => printReq'[o] = printReq[o]
  BY DEF IInv, TypeOK
<1>4. \A o \in Slot : o # sl => Placed(printReq[o])'
  BY <1>1, <1>2, <1>3, OthersOffTheBatch
<1>5. \A o \in Slot : o # sl /\ Builds(q) /\ Builds(printReq[o])
                       => printReq[o].batch # q.batch
  BY <1>2
<1> QED
  BY <1>4, <1>5, SlotsInOrder

LEMMA CreateOrderKeeps ==
  ASSUME IInv, NEW sl \in Slot, CreateOrder(sl)
  PROVE  IInv'
<1> PICK r : r = printReq[sl]
  OBVIOUS
<1>1. /\ r.op = "order" /\ Builds(r) /\ Placed(r)
      /\ order' = [order EXCEPT ![r.batch].status = "READY_FOR_PRINT"]
      /\ Advance(sl, "link")
      /\ student' = student /\ job' = job
  BY DEF CreateOrder, Builds, IInv, RequestsPlaced
<1>2. PICK q \in Request : /\ q.op = "link" /\ q.batch = r.batch /\ q.students = r.students
                           /\ printReq' = [printReq EXCEPT ![sl] = q]
  BY <1>1, Advanced
<1>3. r.batch \in Batch
  BY <1>1, BatchOf DEF IInv
<1>4. order[r.batch] = NoOrder /\ job[r.batch] = NoJob
  BY <1>1, <1>3 DEF Placed, IInv, OrderMirrorsJob, UnmadeJobIsEmpty, NoOrder
<1>5. /\ order' \in [Batch -> OrderRow]
      /\ order'[r.batch].status = "READY_FOR_PRINT"
      /\ \A c \in Batch : order'[c].students = order[c].students
      /\ \A c \in Batch : c # r.batch => order'[c] = order[c]
  BY <1>1, <1>3 DEF IInv, TypeOK, OrderRow, OrderStatus
<1>6. Placed(q)'
  BY <1>1, <1>2, <1>4, <1>5 DEF Placed
<1>7. printReq' \in [Slot -> Request] /\ BatchesApart' /\ RequestsPlaced'
  BY <1>1, <1>2, <1>5, <1>6, BuildingSlots
<1>8. TypeOK'
  BY <1>1, <1>5, <1>7 DEF IInv, TypeOK
<1>9. UnmadeJobIsEmpty' /\ QueuedIsOnAJob'
  BY <1>1 DEF IInv, UnmadeJobIsEmpty, QueuedIsOnAJob
<1>10. OrderMirrorsJob' /\ ItemsMatchOrder'
  BY <1>1, <1>4, <1>5 DEF IInv, OrderMirrorsJob, ItemsMatchOrder, NoJob
<1> QED
  BY <1>7, <1>8, <1>9, <1>10 DEF IInv

LEMMA LinkOrderKeeps ==
  ASSUME IInv, NEW sl \in Slot, LinkOrder(sl)
  PROVE  IInv'
<1> PICK r : r = printReq[sl]
  OBVIOUS
<1>1. /\ r.op = "link" /\ Builds(r) /\ Placed(r)
      /\ order' = [order EXCEPT ![r.batch].students = r.students]
      /\ Advance(sl, "job")
      /\ student' = student /\ job' = job
  BY DEF LinkOrder, Builds, IInv, RequestsPlaced
<1>2. PICK q \in Request : /\ q.op = "job" /\ q.batch = r.batch /\ q.students = r.students
                           /\ printReq' = [printReq EXCEPT ![sl] = q]
  BY <1>1, Advanced
<1>3. r.batch \in Batch /\ r \in Batching
  BY <1>1, BatchOf, BatchingShape DEF IInv
<1>4. order[r.batch].status = "READY_FOR_PRINT" /\ job[r.batch] = NoJob
  BY <1>1 DEF Placed
<1>5. /\ order' \in [Batch -> OrderRow]
      /\ order'[r.batch].students = r.students
      /\ \A c \in Batch : order'[c].status = order[c].status
      /\ \A c \in Batch : c # r.batch => order'[c] = order[c]
  BY <1>1, <1>3 DEF IInv, TypeOK, OrderRow, Batching
<1>6. Placed(q)'
  BY <1>1, <1>2, <1>3, <1>4, <1>5 DEF Placed
<1>7. printReq' \in [Slot -> Request] /\ BatchesApart' /\ RequestsPlaced'
  BY <1>1, <1>2, <1>5, <1>6, BuildingSlots
<1>8. TypeOK'
  BY <1>1, <1>5, <1>7 DEF IInv, TypeOK
<1>9. UnmadeJobIsEmpty' /\ QueuedIsOnAJob'
  BY <1>1 DEF IInv, UnmadeJobIsEmpty, QueuedIsOnAJob
<1>10. OrderMirrorsJob' /\ ItemsMatchOrder'
  BY <1>1, <1>4, <1>5 DEF IInv, OrderMirrorsJob, ItemsMatchOrder, NoJob
<1> QED
  BY <1>7, <1>8, <1>9, <1>10 DEF IInv

LEMMA CreateJobKeeps ==
  ASSUME IInv, NEW sl \in Slot, CreateJob(sl)
  PROVE  IInv'
<1> PICK r : r = printReq[sl]
  OBVIOUS
<1>1. /\ r.op = "job" /\ Builds(r) /\ Placed(r)
      /\ job' = [job EXCEPT ![r.batch].status = "READY_FOR_PRINT"]
      /\ Advance(sl, "items")
      /\ student' = student /\ order' = order
  BY DEF CreateJob, Builds, IInv, RequestsPlaced
<1>2. PICK q \in Request : /\ q.op = "items" /\ q.batch = r.batch /\ q.students = r.students
                           /\ printReq' = [printReq EXCEPT ![sl] = q]
  BY <1>1, Advanced
<1>3. r.batch \in Batch
  BY <1>1, BatchOf DEF IInv
<1>4. /\ order[r.batch].status = "READY_FOR_PRINT" /\ order[r.batch].students = r.students
      /\ job[r.batch] = NoJob
  BY <1>1 DEF Placed
<1>5. /\ job' \in [Batch -> JobRow]
      /\ job'[r.batch].status = "READY_FOR_PRINT"
      /\ \A c \in Batch : job'[c].items = job[c].items
      /\ \A c \in Batch : c # r.batch => job'[c] = job[c]
  BY <1>1, <1>3 DEF IInv, TypeOK, JobRow, OrderStatus
<1>6. Placed(q)'
  BY <1>1, <1>2, <1>3, <1>4, <1>5 DEF Placed, NoJob
<1>7. printReq' \in [Slot -> Request] /\ BatchesApart' /\ RequestsPlaced'
  BY <1>1, <1>2, <1>5, <1>6, BuildingSlots
<1>8. TypeOK'
  BY <1>1, <1>5, <1>7 DEF IInv, TypeOK
<1>9. UnmadeJobIsEmpty' /\ QueuedIsOnAJob'
  BY <1>1, <1>5 DEF IInv, UnmadeJobIsEmpty, QueuedIsOnAJob
<1>10. OrderMirrorsJob' /\ ItemsMatchOrder'
  BY <1>1, <1>4, <1>5 DEF IInv, OrderMirrorsJob, ItemsMatchOrder
<1> QED
  BY <1>7, <1>8, <1>9, <1>10 DEF IInv

LEMMA CreateItemsKeeps ==
  ASSUME IInv, NEW sl \in Slot, CreateItems(sl)
  PROVE  IInv'
<1> PICK r : r = printReq[sl]
  OBVIOUS
<1>1. /\ r.op = "items" /\ Builds(r) /\ Placed(r)
      /\ job' = [job EXCEPT ![r.batch].items = r.students]
      /\ Advance(sl, "queue")
      /\ student' = student /\ order' = order
  BY DEF CreateItems, Builds, IInv, RequestsPlaced
<1>2. PICK q \in Request : /\ q.op = "queue" /\ q.batch = r.batch /\ q.students = r.students
                           /\ printReq' = [printReq EXCEPT ![sl] = q]
  BY <1>1, Advanced
<1>3. r.batch \in Batch /\ r \in Batching
  BY <1>1, BatchOf, BatchingShape DEF IInv
<1>4. /\ order[r.batch].students = r.students
      /\ job[r.batch].status # "NONE" /\ job[r.batch].items = {}
  BY <1>1 DEF Placed
<1>5. /\ job' \in [Batch -> JobRow]
      /\ job'[r.batch].items = r.students
      /\ \A c \in Batch : job'[c].status = job[c].status
      /\ \A c \in Batch : c # r.batch => job'[c] = job[c]
  BY <1>1, <1>3 DEF IInv, TypeOK, JobRow, Batching
<1>6. Placed(q)'
  BY <1>1, <1>2, <1>3, <1>4, <1>5 DEF Placed
<1>7. printReq' \in [Slot -> Request] /\ BatchesApart' /\ RequestsPlaced'
  BY <1>1, <1>2, <1>3, <1>4, <1>5, <1>6, BuildingSlots
<1>8. TypeOK'
  BY <1>1, <1>5, <1>7 DEF IInv, TypeOK
<1>9. UnmadeJobIsEmpty' /\ QueuedIsOnAJob'
  BY <1>1, <1>4, <1>5 DEF IInv, UnmadeJobIsEmpty, QueuedIsOnAJob
<1>10. OrderMirrorsJob' /\ ItemsMatchOrder'
  BY <1>1, <1>4, <1>5 DEF IInv, OrderMirrorsJob, ItemsMatchOrder
<1> QED
  BY <1>7, <1>8, <1>9, <1>10 DEF IInv

LEMMA QueueStudentsKeeps ==
  ASSUME IInv, NEW sl \in Slot, QueueStudents(sl)
  PROVE  IInv'
<1> PICK r : r = printReq[sl]
  OBVIOUS
<1>1. /\ r.op = "queue" /\ Builds(r) /\ Placed(r)
      /\ student' = Stamp(student, r.students, "IN_PRINT_QUEUE", "IN_PRINT_QUEUE")
      /\ printReq' = [printReq EXCEPT ![sl] = Idle]
      /\ order' = order /\ job' = job
  BY DEF QueueStudents, Leave, Builds, IInv, RequestsPlaced
<1>2. r.batch \in Batch
  BY <1>1, BatchOf DEF IInv
<1>3. job[r.batch].status # "NONE" /\ job[r.batch].items = r.students
  BY <1>1 DEF Placed
<1>4. Placed(Idle)' /\ ~Builds(Idle) /\ Idle \in Request
  BY IdleIsQuiet
<1>5. printReq' \in [Slot -> Request] /\ BatchesApart' /\ RequestsPlaced'
  BY <1>1, <1>4, BuildingSlots
<1>6. student \in [Student -> StudentRow] /\ student' \in [Student -> StudentRow]
  BY <1>1, StampType DEF IInv, TypeOK, Stage, Status
<1>7. TypeOK'
  BY <1>1, <1>5, <1>6 DEF IInv, TypeOK
<1>8. QueuedIsOnAJob'
  <2> SUFFICES ASSUME NEW s \in Student, student'[s].stage = "IN_PRINT_QUEUE"
               PROVE  \E b \in Batch : job[b].status # "NONE" /\ s \in job[b].items
    BY <1>1 DEF QueuedIsOnAJob
  <2>1. CASE s \in r.students
    BY <1>2, <1>3, <2>1
  <2>2. CASE s \notin r.students
    BY <1>1, <1>6, <2>2, StampLeavesOthers DEF IInv, QueuedIsOnAJob
  <2> QED
    BY <2>1, <2>2
<1>9. UnmadeJobIsEmpty' /\ OrderMirrorsJob' /\ ItemsMatchOrder'
  BY <1>1 DEF IInv, UnmadeJobIsEmpty, OrderMirrorsJob, ItemsMatchOrder
<1> QED
  BY <1>5, <1>7, <1>8, <1>9 DEF IInv

----------------------------------------------------------------------------
(* The steps that write students, or the status and file of a job *)

(* Writing students with a stage other than IN_PRINT_QUEUE, whatever the   *)
(* request, leaves everything else alone.                                  *)
LEMMA StampKeeps ==
  ASSUME IInv, NEW sl \in Slot, NEW ids, NEW stage \in Stage, NEW status \in Status,
         stage # "IN_PRINT_QUEUE",
         student' = Stamp(student, ids, stage, status),
         Leave(sl), order' = order, job' = job
  PROVE  IInv'
<1>1. printReq' = [printReq EXCEPT ![sl] = Idle]
  BY DEF Leave
<1>2. Placed(Idle)' /\ ~Builds(Idle) /\ Idle \in Request
  BY IdleIsQuiet
<1>3. \A o \in Slot : o # sl => Placed(printReq[o])'
  <2> SUFFICES ASSUME NEW o \in Slot, o # sl PROVE Placed(printReq[o])'
    OBVIOUS
  <2> PICK r : r = printReq[o]
    OBVIOUS
  <2>1. printReq'[o] = r /\ Placed(r)
    BY <1>1 DEF IInv, RequestsPlaced, TypeOK
  <2> QED
    BY <2>1 DEF Placed
<1>4. printReq' \in [Slot -> Request] /\ BatchesApart' /\ RequestsPlaced'
  BY <1>1, <1>2, <1>3, SlotsInOrder
<1>5. student \in [Student -> StudentRow] /\ student' \in [Student -> StudentRow]
  BY StampType DEF IInv, TypeOK
<1>6. TypeOK'
  BY <1>4, <1>5 DEF IInv, TypeOK
<1>7. QueuedIsOnAJob'
  BY <1>5, StampQueuesNobody DEF IInv, QueuedIsOnAJob
<1>8. UnmadeJobIsEmpty' /\ OrderMirrorsJob' /\ ItemsMatchOrder'
  BY DEF IInv, UnmadeJobIsEmpty, OrderMirrorsJob, ItemsMatchOrder
<1> QED
  BY <1>4, <1>6, <1>7, <1>8 DEF IInv

LEMMA CommitIssueKeeps ==
  ASSUME IInv, NEW sl \in Slot, CommitIssue(sl)
  PROVE  IInv'
<1> PICK r : r = printReq[sl]
  OBVIOUS
<1>1. r.op = "issue" /\ student' = Stamp(student, r.students, r.stage, "DELIVERED")
  BY DEF CommitIssue
<1>2. r.stage \in {"ISSUED", "REISSUED"}
  BY <1>1, IssuingShape DEF Issuing, IInv
<1> QED
  BY <1>1, <1>2, StampKeeps DEF CommitIssue, Stage, Status

LEMMA CommitReissueKeeps ==
  ASSUME IInv, NEW sl \in Slot, CommitReissue(sl)
  PROVE  IInv'
<1>1. student' = Stamp(student, printReq[sl].students, "REISSUE_REQUESTED", "SUBMITTED")
  BY DEF CommitReissue
<1> QED
  BY <1>1, StampKeeps DEF CommitReissue, Stage, Status

LEMMA CommitMoveKeeps ==
  ASSUME IInv, NEW sl \in Slot, CommitMove(sl)
  PROVE  IInv'
<1> PICK r : r = printReq[sl]
  OBVIOUS
<1>1. /\ r.op = "move" /\ Placed(r)
      /\ job' = [job EXCEPT ![r.batch].status = r.to]
      /\ order' = [order EXCEPT ![r.batch].status = r.to]
      /\ student' = MoveStudents(r)
      /\ printReq' = [printReq EXCEPT ![sl] = Idle]
  BY DEF CommitMove, Leave, IInv, RequestsPlaced
<1>2. r.batch \in Batch /\ r.to \in OrderStatus /\ r.to # "NONE"
  BY <1>1, MovingShape DEF IInv, Moving, OrderStatus
<1>3. job[r.batch].status # "NONE"
  BY <1>1 DEF Placed
<1>4. /\ job' \in [Batch -> JobRow]
      /\ job'[r.batch].status = r.to
      /\ \A c \in Batch : job'[c].items = job[c].items
      /\ \A c \in Batch : c # r.batch => job'[c] = job[c]
  BY <1>1, <1>2 DEF IInv, TypeOK, JobRow
<1>5. /\ order' \in [Batch -> OrderRow]
      /\ order'[r.batch].status = r.to
      /\ \A c \in Batch : order'[c].students = order[c].students
      /\ \A c \in Batch : c # r.batch => order'[c] = order[c]
  BY <1>1, <1>2 DEF IInv, TypeOK, OrderRow
<1>6. \A o \in Slot : o # sl => printReq'[o] = printReq[o]
  BY <1>1 DEF IInv, TypeOK
<1>7. \A o \in Slot : o # sl => Placed(printReq[o])'
  BY <1>2, <1>3, <1>4, <1>5, <1>6, OthersOnTheJob
<1>8. Placed(Idle)' /\ ~Builds(Idle) /\ Idle \in Request
  BY IdleIsQuiet
<1>9. printReq' \in [Slot -> Request] /\ BatchesApart' /\ RequestsPlaced'
  BY <1>1, <1>7, <1>8, SlotsInOrder
<1>10. student' \in [Student -> StudentRow]
       /\ \A s \in Student : student'[s].stage = "IN_PRINT_QUEUE"
                             => student[s].stage = "IN_PRINT_QUEUE"
  <2>1. student \in [Student -> StudentRow]
    BY DEF IInv, TypeOK
  <2>2. CASE r.to = "PRINTED"
    <3>1. student' = Stamp(student, r.students, "PRINTED", "PRINTED")
      BY <1>1, <2>2 DEF MoveStudents
    <3>2. student' \in [Student -> StudentRow]
      BY <2>1, <3>1, StampType DEF Stage, Status
    <3>3. \A s \in Student : student'[s].stage = "IN_PRINT_QUEUE"
                             => student[s].stage = "IN_PRINT_QUEUE"
      BY <2>1, <3>1, StampQueuesNobody
    <3> QED
      BY <3>2, <3>3
  <2>3. CASE r.to = "DISPATCHED"
    <3>1. student' = Stamp(student, r.students, "DISPATCHED", "DELIVERED")
      BY <1>1, <2>3 DEF MoveStudents
    <3>2. student' \in [Student -> StudentRow]
      BY <2>1, <3>1, StampType DEF Stage, Status
    <3>3. \A s \in Student : student'[s].stage = "IN_PRINT_QUEUE"
                             => student[s].stage = "IN_PRINT_QUEUE"
      BY <2>1, <3>1, StampQueuesNobody
    <3> QED
      BY <3>2, <3>3
  <2>4. CASE r.to \notin {"PRINTED", "DISPATCHED"}
    BY <1>1, <2>1, <2>4 DEF MoveStudents
  <2> QED
    BY <2>2, <2>3, <2>4
<1>11. TypeOK'
  BY <1>4, <1>5, <1>9, <1>10 DEF TypeOK
<1>12. UnmadeJobIsEmpty'
  BY <1>2, <1>4 DEF IInv, UnmadeJobIsEmpty
<1>13. QueuedIsOnAJob'
  BY <1>2, <1>4, <1>10 DEF IInv, QueuedIsOnAJob
<1>14. OrderMirrorsJob'
  BY <1>4, <1>5 DEF IInv, OrderMirrorsJob
<1>15. ItemsMatchOrder'
  BY <1>4, <1>5 DEF IInv, ItemsMatchOrder
<1> QED
  BY <1>9, <1>11, <1>12, <1>13, <1>14, <1>15 DEF IInv

LEMMA CommitFileKeeps ==
  ASSUME IInv, NEW sl \in Slot, CommitFile(sl)
  PROVE  IInv'
<1> PICK r : r = printReq[sl]
  OBVIOUS
<1>1. /\ r.op = "file" /\ Placed(r)
      /\ job' = [job EXCEPT ![r.batch].file = {r.students}]
      /\ printReq' = [printReq EXCEPT ![sl] = Idle]
      /\ student' = student /\ order' = order
  BY DEF CommitFile, Leave, IInv, RequestsPlaced
<1>2. r.batch \in Batch /\ r.students \in SUBSET Student
  BY <1>1, PrintingShape DEF IInv, Printing
<1>3. job[r.batch].status # "NONE"
  BY <1>1 DEF Placed
<1>4. /\ job' \in [Batch -> JobRow]
      /\ \A c \in Batch : job'[c].status = job[c].status /\ job'[c].items = job[c].items
      /\ \A c \in Batch : c # r.batch => job'[c] = job[c]
  BY <1>1, <1>2 DEF IInv, TypeOK, JobRow
<1>5. \A o \in Slot : o # sl => printReq'[o] = printReq[o]
  BY <1>1 DEF IInv, TypeOK
<1>6. \A o \in Slot : o # sl => Placed(printReq[o])'
  BY <1>1, <1>2, <1>3, <1>4, <1>5, OthersOnTheJob
<1>7. Placed(Idle)' /\ ~Builds(Idle) /\ Idle \in Request
  BY IdleIsQuiet
<1>8. printReq' \in [Slot -> Request] /\ BatchesApart' /\ RequestsPlaced'
  BY <1>1, <1>6, <1>7, SlotsInOrder
<1>9. TypeOK'
  BY <1>1, <1>4, <1>8 DEF IInv, TypeOK
<1>10. UnmadeJobIsEmpty'
  BY <1>2, <1>3, <1>4 DEF IInv, UnmadeJobIsEmpty
<1>11. QueuedIsOnAJob' /\ OrderMirrorsJob' /\ ItemsMatchOrder'
  BY <1>1, <1>4 DEF IInv, QueuedIsOnAJob, OrderMirrorsJob, ItemsMatchOrder
<1> QED
  BY <1>8, <1>9, <1>10, <1>11 DEF IInv

LEMMA ProcessRestartKeeps ==
  ASSUME IInv, ProcessRestart
  PROVE  IInv'
<1>1. /\ printReq' = [sl \in Slot |-> Idle]
      /\ student' = student /\ order' = order /\ job' = job
  BY DEF ProcessRestart
<1>2. Placed(Idle)' /\ ~Builds(Idle) /\ Idle \in Request
  BY IdleIsQuiet
<1>3. BatchesApart'
  BY <1>1, <1>2 DEF BatchesApart
<1>4. RequestsPlaced'
  <2> SUFFICES ASSUME NEW o \in Slot PROVE Placed(printReq[o])'
    BY DEF RequestsPlaced
  <2> QED
    BY <1>1, <1>2 DEF Placed
<1>5. TypeOK'
  BY <1>1, <1>2 DEF IInv, TypeOK
<1>6. UnmadeJobIsEmpty' /\ QueuedIsOnAJob' /\ OrderMirrorsJob' /\ ItemsMatchOrder'
  BY <1>1 DEF IInv, UnmadeJobIsEmpty, QueuedIsOnAJob, OrderMirrorsJob, ItemsMatchOrder
<1> QED
  BY <1>3, <1>4, <1>5, <1>6 DEF IInv

----------------------------------------------------------------------------
LEMMA StepKeeps == IInv /\ [Next]_vars => IInv'
<1> SUFFICES ASSUME IInv, [Next]_vars PROVE IInv'
  OBVIOUS
<1>1. ASSUME NEW sl \in Slot, BeginDispatch(sl) \/ BeginReprint(sl) PROVE IInv'
  <2>1. PICK ids \in SUBSET Student : BeginBatch(sl, ids)
    BY <1>1 DEF BeginDispatch, BeginReprint
  <2> QED
    BY <2>1, BeginBatchKeeps
<1>2. ASSUME NEW sl \in Slot, BatchStep(sl) PROVE IInv'
  BY <1>2, CreateOrderKeeps, LinkOrderKeeps, CreateJobKeeps, RefuseJobKeeps,
     CreateItemsKeeps, QueueStudentsKeeps DEF BatchStep
<1>3. ASSUME NEW sl \in Slot,
             \/ ReadJobForMove(sl)  \/ ReadJobForFile(sl)
             \/ ReadJobForIssue(sl) \/ ReadForReissue(sl)
      PROVE  IInv'
  BY <1>3, ReadingKeeps
<1>4. ASSUME NEW sl \in Slot,
             CommitMove(sl) \/ CommitFile(sl) \/ CommitIssue(sl) \/ CommitReissue(sl)
      PROVE  IInv'
  BY <1>4, CommitMoveKeeps, CommitFileKeeps, CommitIssueKeeps, CommitReissueKeeps
<1>5. CASE ProcessRestart
  BY <1>5, ProcessRestartKeeps
<1>6. CASE UNCHANGED vars
  <2>1. student' = student /\ order' = order /\ job' = job /\ printReq' = printReq
    BY <1>6 DEF vars
  <2>2. TypeOK' /\ BatchesApart'
    BY <2>1 DEF IInv, TypeOK, BatchesApart
  <2>3. RequestsPlaced'
    BY <2>1 DEF IInv, RequestsPlaced, Placed
  <2>4. UnmadeJobIsEmpty' /\ QueuedIsOnAJob' /\ OrderMirrorsJob' /\ ItemsMatchOrder'
    BY <2>1 DEF IInv, UnmadeJobIsEmpty, QueuedIsOnAJob, OrderMirrorsJob, ItemsMatchOrder
  <2> QED
    BY <2>2, <2>3, <2>4 DEF IInv
<1> QED
  BY <1>1, <1>2, <1>3, <1>4, <1>5, <1>6 DEF Next

(* IInv is an invariant of the print line, however requests overlap and    *)
(* wherever the process stops.                                             *)
THEOREM Invariance == Spec => []IInv
BY InitEstablishes, StepKeeps, PTL DEF Spec

(* The four tables keep their types: every row AdminService's print        *)
(* handlers write is one the schema allows.                                *)
THEOREM TypeCorrect == Spec => []TypeOK
<1>1. IInv => TypeOK
  BY DEF IInv
<1> QED
  BY <1>1, Invariance, PTL

(* A student marked as queued for print is on some print job: dispatchToPrint *)
(* marks the students last, after the items of the job are written.        *)
THEOREM QueuedOnAJob == Spec => []QueuedIsOnAJob
<1>1. IInv => QueuedIsOnAJob
  BY DEF IInv
<1> QED
  BY <1>1, Invariance, PTL

(* A print job and its order show the same status: both are created with   *)
(* READY_FOR_PRINT and the transaction of updatePrintJobStatus moves both. *)
THEOREM OrderAndJobAgree == Spec => []OrderMirrorsJob
<1>1. IInv => OrderMirrorsJob
  BY DEF IInv
<1> QED
  BY <1>1, Invariance, PTL

(* A job's items, once written, are the students of its order: each batch  *)
(* has one builder, which kept the ids it validated.                       *)
THEOREM ItemsAreTheOrders == Spec => []ItemsMatchOrder
<1>1. IInv => ItemsMatchOrder
  BY DEF IInv
<1> QED
  BY <1>1, Invariance, PTL

----------------------------------------------------------------------------
(***************************************************************************)
(* Proofs about PrintLine while requests come one at a time, for any       *)
(* students and batches and a process that may stop at any step: the       *)
(* promises print requests that overlap can break.                         *)
(***************************************************************************)

(* Requests come one at a time: there is one slot for them.                *)
OneAtATime == \A o, p \in Slot : o = p

(* The students' rows reach the print line before any card was printed.    *)
NobodyEntersPrinted == \A row \in Entry : row.stage \notin {"PRINTED", "DISPATCHED"}

(* What the request read is still so, and nobody touches the job it builds. *)
Current(r) ==
  /\ r.op \in {"move", "file"} => r.students = job[r.batch].items
  /\ r.op = "move" => r.to \in NextStatus(job[r.batch].status)
  /\ r.op \in {"items", "queue"} => job[r.batch].status = "READY_FOR_PRINT"
  /\ r.op = "items" => job[r.batch].file = {}

RequestsCurrent == \A sl \in Slot : Current(printReq[sl])

(* A job is created at READY_FOR_PRINT.                                    *)
NoJobAtCreated == \A b \in Batch : job[b].status # "CREATED"

SerialInv ==
  /\ OneAtATime
  /\ IInv
  /\ RequestsCurrent
  /\ NoJobAtCreated
  /\ QueuedWillBePrinted
  /\ FileIsComplete

(* What StatusProgression says of one job. *)
Progress(b) ==
  job[b].status # "NONE" =>
    \/ job'[b].status = job[b].status
    \/ <<job[b].status, job'[b].status>> \in
         {<<"READY_FOR_PRINT", "PRINTING">>, <<"PRINTING", "PRINTED">>,
          <<"PRINTED", "DISPATCHED">>}

(* What one step establishes. *)
Keeps ==
  /\ RequestsCurrent' /\ NoJobAtCreated' /\ QueuedWillBePrinted' /\ FileIsComplete'
  /\ \A b \in Batch : Progress(b)
  /\ PrintedWasPrinted => PrintedWasPrinted'

----------------------------------------------------------------------------
LEMMA SerialInit == OneAtATime /\ Init => SerialInv
<1> SUFFICES ASSUME OneAtATime, Init PROVE SerialInv
  OBVIOUS
<1>1. IInv
  BY InitEstablishes
<1>2. RequestsCurrent
  BY DEF Init, RequestsCurrent, Current, Idle
<1>3. NoJobAtCreated /\ FileIsComplete
  BY DEF Init, NoJobAtCreated, FileIsComplete, NoJob
<1>4. QueuedWillBePrinted
  BY StudentAssumption DEF Init, QueuedWillBePrinted
<1> QED
  BY <1>1, <1>2, <1>3, <1>4 DEF SerialInv

(* The only request after a step of its slot. *)
LEMMA OnlySlot ==
  ASSUME SerialInv, NEW sl \in Slot, NEW q,
         printReq' = [printReq EXCEPT ![sl] = q], Current(q)'
  PROVE  RequestsCurrent'
<1>1. printReq'[sl] = q
  BY DEF SerialInv, IInv, TypeOK
<1>2. \A o \in Slot : o = sl
  BY DEF SerialInv, OneAtATime
<1> QED
  BY <1>1, <1>2 DEF RequestsCurrent, Current

LEMMA IdleIsCurrent == Current(Idle) /\ Current(Idle)'
BY DEF Current, Idle

(* Steps that leave the tables alone. *)
LEMMA ReadingHolds ==
  ASSUME SerialInv, UNCHANGED <<student, order, job>>, RequestsCurrent'
  PROVE  Keeps
BY DEF Keeps, Progress, SerialInv, NoJobAtCreated, QueuedWillBePrinted, FileIsComplete,
       PrintedWasPrinted

LEMMA EnterHolds ==
  ASSUME SerialInv, NEW sl \in Slot, NEW q, Enter(sl, q), Current(q)
  PROVE  Keeps
<1>1. UNCHANGED <<student, order, job>> /\ printReq' = [printReq EXCEPT ![sl] = q]
  BY DEF Enter
<1>2. Current(q)'
  BY <1>1 DEF Current
<1> QED
  BY <1>1, <1>2, OnlySlot, ReadingHolds

LEMMA BeginsHold ==
  ASSUME SerialInv, NEW sl \in Slot,
         \/ BeginDispatch(sl)   \/ BeginReprint(sl)    \/ ReadJobForMove(sl)
         \/ ReadJobForFile(sl)  \/ ReadJobForIssue(sl) \/ ReadForReissue(sl)
  PROVE  Keeps
<1> SUFFICES \E q : Enter(sl, q) /\ Current(q)
  BY EnterHolds
<1>1. CASE BeginDispatch(sl) \/ BeginReprint(sl)
  <2>1. PICK ids \in SUBSET Student, b \in Batch :
          Enter(sl, [op |-> "order", batch |-> b, students |-> ids])
    BY <1>1 DEF BeginDispatch, BeginReprint, BeginBatch
  <2>2. Current([op |-> "order", batch |-> b, students |-> ids])
    BY DEF Current
  <2> QED
    BY <2>1, <2>2
<1>2. CASE ReadJobForMove(sl)
  <2>1. PICK b \in Batch, to \in OrderStatus :
          /\ to \in NextStatus(job[b].status)
          /\ Enter(sl, [op |-> "move", batch |-> b, to |-> to, students |-> job[b].items])
    BY <1>2 DEF ReadJobForMove
  <2>2. Current([op |-> "move", batch |-> b, to |-> to, students |-> job[b].items])
    BY <2>1 DEF Current
  <2> QED
    BY <2>1, <2>2
<1>3. CASE ReadJobForFile(sl)
  <2>1. PICK b \in Batch : Enter(sl, [op |-> "file", batch |-> b, students |-> job[b].items])
    BY <1>3 DEF ReadJobForFile
  <2>2. Current([op |-> "file", batch |-> b, students |-> job[b].items])
    BY DEF Current
  <2> QED
    BY <2>1, <2>2
<1>4. CASE ReadJobForIssue(sl)
  <2>1. PICK b \in Batch, stage \in {"ISSUED", "REISSUED"} :
          Enter(sl, [op |-> "issue", students |-> job[b].items, stage |-> stage])
    BY <1>4 DEF ReadJobForIssue
  <2>2. Current([op |-> "issue", students |-> job[b].items, stage |-> stage])
    BY DEF Current
  <2> QED
    BY <2>1, <2>2
<1>5. CASE ReadForReissue(sl)
  <2>1. PICK s \in Student : Enter(sl, [op |-> "reissue", students |-> {s}])
    BY <1>5 DEF ReadForReissue
  <2>2. Current([op |-> "reissue", students |-> {s}])
    BY DEF Current
  <2> QED
    BY <2>1, <2>2
<1> QED
  BY <1>1, <1>2, <1>3, <1>4, <1>5

----------------------------------------------------------------------------
(* The statements of a dispatch *)
LEMMA OrderRowsHold ==
  ASSUME SerialInv, NEW sl \in Slot, CreateOrder(sl) \/ LinkOrder(sl) \/ RefuseJob(sl)
  PROVE  Keeps
<1> PICK r : r = printReq[sl]
  OBVIOUS
<1>1. student' = student /\ job' = job
  BY DEF CreateOrder, LinkOrder, RefuseJob
<1>2. PICK q \in Request : /\ q.op \in {"link", "job", "idle"}
                           /\ printReq' = [printReq EXCEPT ![sl] = q]
  <2>1. CASE RefuseJob(sl)
    <3>1. Idle \in Request /\ Idle.op = "idle"
      BY DEF Idle, Request
    <3>2. printReq' = [printReq EXCEPT ![sl] = Idle]
      BY <2>1 DEF RefuseJob, Leave
    <3> QED
      BY <3>1, <3>2
  <2>2. CASE CreateOrder(sl)
    BY <2>2, Advanced DEF CreateOrder, SerialInv, Builds
  <2>3. CASE LinkOrder(sl)
    BY <2>3, Advanced DEF LinkOrder, SerialInv, Builds
  <2> QED
    BY <2>1, <2>2, <2>3
<1>3. Current(q)'
  BY <1>2 DEF Current
<1>4. RequestsCurrent'
  BY <1>2, <1>3, OnlySlot
<1> QED
  BY <1>1, <1>4 DEF Keeps, Progress, SerialInv, NoJobAtCreated, QueuedWillBePrinted,
       FileIsComplete, PrintedWasPrinted

LEMMA CreateJobHolds ==
  ASSUME SerialInv, NEW sl \in Slot, CreateJob(sl)
  PROVE  Keeps
<1> PICK r : r = printReq[sl]
  OBVIOUS
<1>1. /\ r.op = "job" /\ Builds(r) /\ Placed(r)
      /\ job' = [job EXCEPT ![r.batch].status = "READY_FOR_PRINT"]
      /\ Advance(sl, "items")
      /\ student' = student
  BY DEF CreateJob, Builds, SerialInv, IInv, RequestsPlaced
<1>2. PICK q \in Request : /\ q.op = "items" /\ q.batch = r.batch
                           /\ printReq' = [printReq EXCEPT ![sl] = q]
  BY <1>1, Advanced DEF SerialInv
<1>3. r.batch \in Batch
  BY <1>1, BatchOf DEF SerialInv, IInv
<1>4. job[r.batch].status = "NONE" /\ job[r.batch].items = {} /\ job[r.batch].file = {}
  BY <1>1 DEF Placed, NoJob
<1>5. /\ job'[r.batch].status = "READY_FOR_PRINT"
      /\ \A c \in Batch : job'[c].items = job[c].items /\ job'[c].file = job[c].file
      /\ \A c \in Batch : c # r.batch => job'[c] = job[c]
  BY <1>1, <1>3 DEF SerialInv, IInv, TypeOK, JobRow
<1>6. Current(q)'
  BY <1>2, <1>3, <1>4, <1>5 DEF Current
<1>7. RequestsCurrent'
  BY <1>2, <1>6, OnlySlot
<1>8. NoJobAtCreated' /\ FileIsComplete' /\ \A b \in Batch : Progress(b)
  BY <1>3, <1>4, <1>5 DEF SerialInv, NoJobAtCreated, FileIsComplete, Progress
<1>9. QueuedWillBePrinted' /\ (PrintedWasPrinted => PrintedWasPrinted')
  BY <1>1, <1>3, <1>4, <1>5 DEF SerialInv, QueuedWillBePrinted, PrintedWasPrinted
<1> QED
  BY <1>7, <1>8, <1>9 DEF Keeps

LEMMA CreateItemsHolds ==
  ASSUME SerialInv, NEW sl \in Slot, CreateItems(sl)
  PROVE  Keeps
<1> PICK r : r = printReq[sl]
  OBVIOUS
<1>1. /\ r.op = "items" /\ Builds(r) /\ Placed(r) /\ Current(r)
      /\ job' = [job EXCEPT ![r.batch].items = r.students]
      /\ Advance(sl, "queue")
      /\ student' = student
  BY DEF CreateItems, Builds, SerialInv, IInv, RequestsPlaced, RequestsCurrent
<1>2. PICK q \in Request : /\ q.op = "queue" /\ q.batch = r.batch
                           /\ printReq' = [printReq EXCEPT ![sl] = q]
  BY <1>1, Advanced DEF SerialInv
<1>3. r.batch \in Batch
  BY <1>1, BatchOf DEF SerialInv, IInv
<1>4. /\ job[r.batch].status = "READY_FOR_PRINT"
      /\ job[r.batch].items = {} /\ job[r.batch].file = {}
  BY <1>1 DEF Placed, Current
<1>5. /\ \A c \in Batch : job'[c].status = job[c].status /\ job'[c].file = job[c].file
      /\ \A c \in Batch : c # r.batch => job'[c] = job[c]
  BY <1>1, <1>3 DEF SerialInv, IInv, TypeOK, JobRow
<1>6. Current(q)'
  BY <1>2, <1>3, <1>4, <1>5 DEF Current
<1>7. RequestsCurrent'
  BY <1>2, <1>6, OnlySlot
<1>8. NoJobAtCreated' /\ FileIsComplete' /\ \A b \in Batch : Progress(b)
  BY <1>3, <1>4, <1>5 DEF SerialInv, NoJobAtCreated, FileIsComplete, Progress
<1>9. QueuedWillBePrinted' /\ (PrintedWasPrinted => PrintedWasPrinted')
  BY <1>1, <1>3, <1>4, <1>5 DEF SerialInv, QueuedWillBePrinted, PrintedWasPrinted
<1> QED
  BY <1>7, <1>8, <1>9 DEF Keeps

LEMMA QueueStudentsHolds ==
  ASSUME SerialInv, NEW sl \in Slot, QueueStudents(sl)
  PROVE  Keeps
<1> PICK r : r = printReq[sl]
  OBVIOUS
<1>1. /\ r.op = "queue" /\ Builds(r) /\ Placed(r) /\ Current(r)
      /\ student' = Stamp(student, r.students, "IN_PRINT_QUEUE", "IN_PRINT_QUEUE")
      /\ printReq' = [printReq EXCEPT ![sl] = Idle]
      /\ job' = job
  BY DEF QueueStudents, Leave, Builds, SerialInv, IInv, RequestsPlaced, RequestsCurrent
<1>2. r.batch \in Batch
  BY <1>1, BatchOf DEF SerialInv, IInv
<1>3. job[r.batch].status = "READY_FOR_PRINT" /\ job[r.batch].items = r.students
  BY <1>1 DEF Placed, Current
<1>4. RequestsCurrent'
  BY <1>1, IdleIsCurrent, OnlySlot
<1>5. NoJobAtCreated' /\ FileIsComplete' /\ \A b \in Batch : Progress(b)
  BY <1>1 DEF SerialInv, NoJobAtCreated, FileIsComplete, Progress
<1>6. /\ \A s \in Student : s \in r.students => student'[s].stage = "IN_PRINT_QUEUE"
      /\ \A s \in Student : s \notin r.students => student'[s] = student[s]
  BY <1>1 DEF Stamp, SerialInv, IInv, TypeOK, StudentRow
<1>7. QueuedWillBePrinted'
  BY <1>1, <1>2, <1>3, <1>6 DEF SerialInv, QueuedWillBePrinted
<1>8. PrintedWasPrinted => PrintedWasPrinted'
  BY <1>1, <1>6 DEF PrintedWasPrinted
<1> QED
  BY <1>4, <1>5, <1>7, <1>8 DEF Keeps

----------------------------------------------------------------------------
(* The steps that end a request about a job *)
LEMMA MarkingHolds ==
  ASSUME SerialInv, NEW sl \in Slot, CommitIssue(sl) \/ CommitReissue(sl)
  PROVE  Keeps
<1> PICK r : r = printReq[sl]
  OBVIOUS
<1>1. job' = job /\ printReq' = [printReq EXCEPT ![sl] = Idle]
  BY DEF CommitIssue, CommitReissue, Leave
<1>2. \A s \in Student :
        \/ student'[s].stage = student[s].stage
        \/ student'[s].stage \in {"ISSUED", "REISSUED", "REISSUE_REQUESTED"}
  <2>1. CASE CommitIssue(sl)
    <3>1. r.stage \in {"ISSUED", "REISSUED"}
      BY <2>1, IssuingShape DEF CommitIssue, Issuing, SerialInv, IInv
    <3>2. student' = Stamp(student, r.students, r.stage, "DELIVERED")
      BY <2>1 DEF CommitIssue
    <3> QED
      BY <3>1, <3>2 DEF Stamp, SerialInv, IInv, TypeOK, StudentRow
  <2>2. CASE CommitReissue(sl)
    <3>1. student' = Stamp(student, r.students, "REISSUE_REQUESTED", "SUBMITTED")
      BY <2>2 DEF CommitReissue
    <3> QED
      BY <3>1 DEF Stamp, SerialInv, IInv, TypeOK, StudentRow
  <2> QED
    BY <2>1, <2>2
<1>3. RequestsCurrent'
  BY <1>1, IdleIsCurrent, OnlySlot
<1>4. NoJobAtCreated' /\ FileIsComplete' /\ \A b \in Batch : Progress(b)
  BY <1>1 DEF SerialInv, NoJobAtCreated, FileIsComplete, Progress
<1>5. QueuedWillBePrinted' /\ (PrintedWasPrinted => PrintedWasPrinted')
  BY <1>1, <1>2 DEF SerialInv, QueuedWillBePrinted, PrintedWasPrinted
<1> QED
  BY <1>3, <1>4, <1>5 DEF Keeps

LEMMA CommitFileHolds ==
  ASSUME SerialInv, NEW sl \in Slot, CommitFile(sl)
  PROVE  Keeps
<1> PICK r : r = printReq[sl]
  OBVIOUS
<1>1. /\ r.op = "file" /\ Current(r)
      /\ job' = [job EXCEPT ![r.batch].file = {r.students}]
      /\ printReq' = [printReq EXCEPT ![sl] = Idle]
      /\ student' = student
  BY DEF CommitFile, Leave, SerialInv, RequestsCurrent
<1>2. r.batch \in Batch /\ r.students = job[r.batch].items
  BY <1>1, PrintingShape DEF SerialInv, IInv, Printing, Current
<1>3. /\ job'[r.batch].file = {job[r.batch].items}
      /\ \A c \in Batch : job'[c].status = job[c].status /\ job'[c].items = job[c].items
      /\ \A c \in Batch : c # r.batch => job'[c] = job[c]
  BY <1>1, <1>2 DEF SerialInv, IInv, TypeOK, JobRow
<1>4. RequestsCurrent'
  BY <1>1, IdleIsCurrent, OnlySlot
<1>5. NoJobAtCreated' /\ FileIsComplete' /\ \A b \in Batch : Progress(b)
  BY <1>3 DEF SerialInv, NoJobAtCreated, FileIsComplete, Progress
<1>6. QueuedWillBePrinted' /\ (PrintedWasPrinted => PrintedWasPrinted')
  BY <1>1, <1>3 DEF SerialInv, QueuedWillBePrinted, PrintedWasPrinted
<1> QED
  BY <1>4, <1>5, <1>6 DEF Keeps

(* The three moves a job can make.  Each takes the students on it along,   *)
(* so that nobody is left queued on a printed job.                         *)
LEMMA CommitMoveHolds ==
  ASSUME SerialInv, NEW sl \in Slot, CommitMove(sl)
  PROVE  Keeps
<1> PICK r : r = printReq[sl]
  OBVIOUS
<1>1. /\ r.op = "move" /\ Current(r)
      /\ job' = [job EXCEPT ![r.batch].status = r.to]
      /\ printReq' = [printReq EXCEPT ![sl] = Idle]
      /\ student' = MoveStudents(r)
  BY DEF CommitMove, Leave, SerialInv, RequestsCurrent
<1>2. r.batch \in Batch
  BY <1>1, MovingShape DEF SerialInv, IInv, Moving
<1> PICK b \in Batch : b = r.batch
  BY <1>2
<1>3. r.students = job[b].items /\ r.to \in NextStatus(job[b].status)
  BY <1>1 DEF Current
<1>4. /\ job'[b].status = r.to
      /\ \A c \in Batch : job'[c].file = job[c].file /\ job'[c].items = job[c].items
      /\ \A c \in Batch : c # b => job'[c] = job[c]
  BY <1>1 DEF SerialInv, IInv, TypeOK, JobRow
<1>5. <<job[b].status, r.to>> \in
        {<<"READY_FOR_PRINT", "PRINTING">>, <<"PRINTING", "PRINTED">>,
         <<"PRINTED", "DISPATCHED">>}
  <2>1. job[b].status # "CREATED"
    BY DEF SerialInv, NoJobAtCreated
  <2> QED
    BY <1>3, <2>1 DEF NextStatus
<1>6. RequestsCurrent'
  BY <1>1, IdleIsCurrent, OnlySlot
<1>7. NoJobAtCreated' /\ FileIsComplete' /\ \A c \in Batch : Progress(c)
  <2>1. NoJobAtCreated' /\ FileIsComplete'
    BY <1>4, <1>5 DEF SerialInv, NoJobAtCreated, FileIsComplete
  <2>2. \A c \in Batch : Progress(c)
    BY <1>4, <1>5 DEF Progress
  <2> QED
    BY <2>1, <2>2
<1>8. QueuedWillBePrinted' /\ (PrintedWasPrinted => PrintedWasPrinted')
  <2>1. CASE r.to = "PRINTING"
    <3>1. student' = student
      BY <1>1, <2>1 DEF MoveStudents
    <3> QED
      BY <1>4, <1>5, <2>1, <3>1 DEF SerialInv, QueuedWillBePrinted, PrintedWasPrinted
  <2>2. CASE r.to = "PRINTED"
    <3>1. student' = Stamp(student, r.students, "PRINTED", "PRINTED")
      BY <1>1, <2>2 DEF MoveStudents
    <3>2. /\ \A s \in Student : s \in job[b].items => student'[s].stage = "PRINTED"
          /\ \A s \in Student : s \notin job[b].items => student'[s] = student[s]
      BY <1>3, <3>1 DEF Stamp, SerialInv, IInv, TypeOK, StudentRow
    <3> QED
      BY <1>4, <1>5, <2>2, <3>2 DEF SerialInv, QueuedWillBePrinted, PrintedWasPrinted
  <2>3. CASE r.to = "DISPATCHED"
    <3>1. student' = Stamp(student, r.students, "DISPATCHED", "DELIVERED")
      BY <1>1, <2>3 DEF MoveStudents
    <3>2. /\ \A s \in Student : s \in job[b].items => student'[s].stage = "DISPATCHED"
          /\ \A s \in Student : s \notin job[b].items => student'[s] = student[s]
      BY <1>3, <3>1 DEF Stamp, SerialInv, IInv, TypeOK, StudentRow
    <3> QED
      BY <1>4, <1>5, <2>3, <3>2 DEF SerialInv, QueuedWillBePrinted, PrintedWasPrinted
  <2> QED
    BY <1>5, <2>1, <2>2, <2>3
<1> QED
  BY <1>6, <1>7, <1>8 DEF Keeps

----------------------------------------------------------------------------
LEMMA StepHolds == SerialInv /\ [Next]_vars => Keeps
<1> SUFFICES ASSUME SerialInv, [Next]_vars PROVE Keeps
  OBVIOUS
<1>1. ASSUME NEW sl \in Slot,
             \/ BeginDispatch(sl)   \/ BeginReprint(sl)    \/ ReadJobForMove(sl)
             \/ ReadJobForFile(sl)  \/ ReadJobForIssue(sl) \/ ReadForReissue(sl)
      PROVE  Keeps
  BY <1>1, BeginsHold
<1>2. ASSUME NEW sl \in Slot, BatchStep(sl) PROVE Keeps
  BY <1>2, OrderRowsHold, CreateJobHolds, CreateItemsHolds, QueueStudentsHolds DEF BatchStep
<1>3. ASSUME NEW sl \in Slot,
             CommitMove(sl) \/ CommitFile(sl) \/ CommitIssue(sl) \/ CommitReissue(sl)
      PROVE  Keeps
  BY <1>3, CommitMoveHolds, CommitFileHolds, MarkingHolds
<1>4. CASE ProcessRestart
  <2>1. UNCHANGED <<student, order, job>> /\ printReq' = [sl \in Slot |-> Idle]
    BY <1>4 DEF ProcessRestart
  <2>2. RequestsCurrent'
    BY <2>1 DEF RequestsCurrent, Current, Idle
  <2> QED
    BY <2>1, <2>2, ReadingHolds
<1>5. CASE UNCHANGED vars
  <2>1. UNCHANGED <<student, order, job>> /\ printReq' = printReq
    BY <1>5 DEF vars
  <2>2. RequestsCurrent'
    BY <2>1 DEF SerialInv, RequestsCurrent, Current
  <2> QED
    BY <2>1, <2>2, ReadingHolds
<1> QED
  BY <1>1, <1>2, <1>3, <1>4, <1>5 DEF Next

LEMMA SerialStep == SerialInv /\ [Next]_vars => SerialInv'
<1> SUFFICES ASSUME SerialInv, [Next]_vars PROVE SerialInv'
  OBVIOUS
<1>1. IInv'
  BY StepKeeps DEF SerialInv
<1>2. Keeps
  BY StepHolds
<1>3. OneAtATime'
  BY DEF SerialInv, OneAtATime
<1> QED
  BY <1>1, <1>2, <1>3 DEF SerialInv, Keeps

LEMMA SerialAlways == OneAtATime /\ Spec => []SerialInv
<1>1. OneAtATime /\ Init => SerialInv
  BY SerialInit
<1>2. SerialInv /\ [Next]_vars => SerialInv'
  BY SerialStep
<1> QED
  BY <1>1, <1>2, PTL DEF Spec

(* While print requests come one at a time, a queued student is on a job   *)
(* that still has to be printed, wherever the process stopped: a job takes *)
(* all its students along when it is printed.                              *)
THEOREM QueuedCardsCome == OneAtATime /\ Spec => []QueuedWillBePrinted
<1>1. SerialInv => QueuedWillBePrinted
  BY DEF SerialInv
<1> QED
  BY <1>1, SerialAlways, PTL

(* While print requests come one at a time, a print file has a row for     *)
(* each student of its job: generatePrintArtifact never reads a job whose  *)
(* items are missing because another request is about to write them.       *)
THEOREM FilesAreComplete == OneAtATime /\ Spec => []FileIsComplete
<1>1. SerialInv => FileIsComplete
  BY DEF SerialInv
<1> QED
  BY <1>1, SerialAlways, PTL

(* While print requests come one at a time, and no student's row arrives   *)
(* already printed, a student marked as printed or dispatched is on a job  *)
(* that got there.                                                         *)
THEOREM MarkedAsPrintedIsPrinted ==
  OneAtATime /\ NobodyEntersPrinted /\ Spec => []PrintedWasPrinted
<1>1. NobodyEntersPrinted /\ Init => PrintedWasPrinted
  BY DEF Init, NobodyEntersPrinted, PrintedWasPrinted
<1>2. SerialInv /\ PrintedWasPrinted /\ [Next]_vars => PrintedWasPrinted'
  BY StepHolds DEF Keeps
<1> QED
  BY <1>1, <1>2, SerialAlways, PTL DEF Spec

(* While print requests come one at a time, a job moves only READY ->      *)
(* PRINTING -> PRINTED -> DISPATCHED: the status updatePrintJobStatus      *)
(* checked is the one it replaces.                                         *)
THEOREM JobsGoForward == OneAtATime /\ Spec => StatusProgression
<1>1. SerialInv /\ [Next]_vars =>
        [\A b \in Batch :
           job[b].status # "NONE" =>
             \/ job'[b].status = job[b].status
             \/ <<job[b].status, job'[b].status>> \in
                  {<<"READY_FOR_PRINT", "PRINTING">>, <<"PRINTING", "PRINTED">>,
                   <<"PRINTED", "DISPATCHED">>}]_vars
  BY StepHolds DEF Keeps, Progress
<1> QED
  BY <1>1, SerialAlways, PTL DEF Spec, StatusProgression
=============================================================================
