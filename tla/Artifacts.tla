----------------------------- MODULE Artifacts -----------------------------
(***************************************************************************)
(* Render batches, and the files generated for them and for print jobs:    *)
(* createRenderBatch, exportRenderBatch and generatePrintArtifact of        *)
(* AdminService (modules/admin/admin.service.ts), and the part of           *)
(* purgeRetentionArtifacts of PlatformService that deletes old files and   *)
(* the rows' links to them.  A file has its own name (row id and time), so *)
(* a new one never replaces an old one on the disk.                        *)
(***************************************************************************)
EXTENDS Naturals, FiniteSets

CONSTANTS
  Batch, PrintJob, File, Student, Slot,
  MaxLoad,       \* how many requests are in flight at most
  MaxRestarts    \* bound on the restarts of the process

Row == Batch \cup PrintJob
NoFile == "noFile"

VARIABLES
  load,        \* how many requests overlap at most
  batch,       \* RenderBatch rows
  item,        \* RenderBatchItem rows, by batch and student
  link,        \* artifactMetaJson.localPath of the row of a batch or job
  newest,      \* history: the file last generated for a row
  written,     \* history: the files there have been; a name is of its time
  disk,        \* the files in .generated
  stuck,       \* history: the files on the disk that a purge could not delete
  artifactReq, \* the request in flight in each slot
  restarts     \* how often the process was restarted

vars == <<load, batch, item, link, newest, written, disk, stuck, artifactReq, restarts>>

----------------------------------------------------------------------------
Unmade == [status |-> "none"]
BatchRow ==
  [status : {"PROCESSING", "COMPLETED", "PARTIAL_FAILED", "FAILED"},
   total : 1..Cardinality(Student), good : 0..Cardinality(Student), bad : 0..Cardinality(Student)]
ItemStatus == {"none", "SUCCESS", "SKIPPED", "FAILED"}
Idle == [op |-> "idle"]

Made == {b \in Batch : batch[b] # Unmade}
Busy == {sl \in Slot : artifactReq[sl] # Idle}

GoOn(sl, q) == artifactReq' = [artifactReq EXCEPT ![sl] = q]
Enter(sl, q) == sl \notin Busy /\ Cardinality(Busy) < load /\ GoOn(sl, q)

----------------------------------------------------------------------------
(* createRenderBatch: the row first, the items in one transaction, then    *)
(* counts and status.                                                      *)
OpenBatch(sl) ==
  \E b \in Batch \ Made, students \in (SUBSET Student) \ {{}} :
    /\ Enter(sl, [op |-> "items", of |-> b, students |-> students])
    /\ batch' = [batch EXCEPT ![b] =
         [status |-> "PROCESSING", total |-> Cardinality(students), good |-> 0, bad |-> 0]]
    /\ UNCHANGED <<load, item, link, newest, written, disk, stuck, restarts>>

(* The records that validate are rendered, the others skipped or failed.   *)
WriteItems(sl) ==
  LET q == artifactReq[sl] IN
    /\ q.op = "items"
    /\ \E valid \in SUBSET q.students, invalid \in {"SKIPPED", "FAILED"} :
         /\ item' = [bs \in Batch \X Student |->
              CASE bs[1] = q.of /\ bs[2] \in valid -> "SUCCESS"
                [] bs[1] = q.of /\ bs[2] \in q.students \ valid -> invalid
                [] OTHER -> item[bs]]
         /\ GoOn(sl, [op |-> "settle", of |-> q.of, good |-> Cardinality(valid),
                      bad |-> Cardinality(q.students \ valid)])
    /\ UNCHANGED <<load, batch, link, newest, written, disk, stuck, restarts>>

(* fault: skipped records do not count *)
SettledFaultAnySuccess(good, bad) == IF good > 0 THEN "COMPLETED" ELSE "FAILED"

Settled(good, bad) ==
  CASE good > 0 /\ bad > 0 -> "PARTIAL_FAILED"
    [] good > 0 /\ bad = 0 -> "COMPLETED"
    [] good = 0            -> "FAILED"

SettleBatch(sl) ==
  LET q == artifactReq[sl] IN
    /\ q.op = "settle"
    /\ batch' = [batch EXCEPT ![q.of].status = Settled(q.good, q.bad),
                              ![q.of].good = q.good, ![q.of].bad = q.bad]
    /\ GoOn(sl, Idle)
    /\ UNCHANGED <<load, item, link, newest, written, disk, stuck, restarts>>

----------------------------------------------------------------------------
(* exportRenderBatch (which createRenderBatch may end with) and            *)
(* generatePrintArtifact: a file, then the row's link to it                *)
Rendered(b) == {s \in Student : item[<<b, s>>] = "SUCCESS"}

ReadForFile(sl) ==
  \E r \in Row :
    /\ r \in Batch => r \in Made /\ Rendered(r) # {}
    /\ Enter(sl, [op |-> "write", of |-> r])
    /\ UNCHANGED <<load, batch, item, link, newest, written, disk, stuck, restarts>>

WriteFile(sl) ==
  LET q == artifactReq[sl] IN
    /\ q.op = "write"
    /\ \E f \in File \ written :
         /\ written' = written \cup {f}
         /\ disk' = disk \cup {f}
         /\ newest' = [newest EXCEPT ![q.of] = f]
         /\ GoOn(sl, [op |-> "link", of |-> q.of, file |-> f])
    /\ UNCHANGED <<load, batch, item, link, stuck, restarts>>

LinkFile(sl) ==
  LET q == artifactReq[sl] IN
    /\ q.op = "link"
    /\ link' = [link EXCEPT ![q.of] = q.file]
    /\ GoOn(sl, Idle)
    /\ UNCHANGED <<load, batch, item, newest, written, disk, stuck, restarts>>

----------------------------------------------------------------------------
(* purgeRetentionArtifacts: old is what is past the retention period       *)
ReadForPurge(sl) ==
  \E old \in (SUBSET {r \in Row : link[r] # NoFile}) \ {{}} :
    /\ Enter(sl, [op |-> "unlink", rows |-> old, files |-> {link[r] : r \in old}])
    /\ UNCHANGED <<load, batch, item, link, newest, written, disk, stuck, restarts>>

(* One file after the other.  An error of unlink is passed over, be it that *)
(* the file is gone already or that it cannot be deleted.                  *)
DeleteFile(sl) ==
  LET q == artifactReq[sl] IN
    /\ q.op = "unlink"
    /\ \E f \in q.files :
         /\ \/ disk' = disk \ {f} /\ UNCHANGED stuck
            \/ stuck' = stuck \cup ({f} \cap disk) /\ UNCHANGED disk
         /\ GoOn(sl, [q EXCEPT !.files = @ \ {f},
                               !.op = IF q.files = {f} THEN "clearBatches" ELSE "unlink"])
    /\ UNCHANGED <<load, batch, item, link, newest, written, restarts>>

(* fault: the links of the batches stay *)
ClearedFaultJobsOnly(rows) == [r \in Row |-> IF r \in rows \cap PrintJob THEN NoFile ELSE link[r]]

Cleared(rows) == [r \in Row |-> IF r \in rows THEN NoFile ELSE link[r]]

ClearBatches(sl) ==
  LET q == artifactReq[sl] IN
    /\ q.op = "clearBatches"
    /\ link' = Cleared(q.rows \cap Batch)
    /\ GoOn(sl, [q EXCEPT !.op = "clearJobs"])
    /\ UNCHANGED <<load, batch, item, newest, written, disk, stuck, restarts>>

ClearJobs(sl) ==
  LET q == artifactReq[sl] IN
    /\ q.op = "clearJobs"
    /\ link' = Cleared(q.rows \cap PrintJob)
    /\ GoOn(sl, Idle)
    /\ UNCHANGED <<load, batch, item, newest, written, disk, stuck, restarts>>

----------------------------------------------------------------------------
ProcessRestart ==
  /\ restarts < MaxRestarts
  /\ Busy # {}
  /\ restarts' = restarts + 1
  /\ artifactReq' = [sl \in Slot |-> Idle]
  /\ UNCHANGED <<load, batch, item, link, newest, written, disk, stuck>>

Init ==
  /\ load \in 1..MaxLoad
  /\ batch = [b \in Batch |-> Unmade]
  /\ item = [bs \in Batch \X Student |-> "none"]
  /\ link = [r \in Row |-> NoFile]
  /\ newest = [r \in Row |-> NoFile]
  /\ written = {}
  /\ disk = {}
  /\ stuck = {}
  /\ artifactReq = [sl \in Slot |-> Idle]
  /\ restarts = 0

Next ==
  \/ \E sl \in Slot :
       \/ OpenBatch(sl)
       \/ WriteItems(sl)
       \/ SettleBatch(sl)
       \/ ReadForFile(sl)
       \/ WriteFile(sl)
       \/ LinkFile(sl)
       \/ ReadForPurge(sl)
       \/ DeleteFile(sl)
       \/ ClearBatches(sl)
       \/ ClearJobs(sl)
  \/ ProcessRestart

Spec == Init /\ [][Next]_vars

----------------------------------------------------------------------------
(* Properties *)

(* The rows of the tables have the columns of the schema.                  *)
TypeOK ==
  /\ load \in 1..MaxLoad
  /\ batch \in [Batch -> BatchRow \cup {Unmade}]
  /\ item \in [Batch \X Student -> ItemStatus]
  /\ link \in [Row -> File \cup {NoFile}]
  /\ newest \in [Row -> File \cup {NoFile}]
  /\ stuck \subseteq written /\ disk \subseteq written /\ written \subseteq File
  /\ restarts \in 0..MaxRestarts

BeingPurged(r) ==
  \E sl \in Slot : /\ artifactReq[sl].op \in {"unlink", "clearBatches", "clearJobs"}
                   /\ r \in artifactReq[sl].rows

(* A row links a file that is there, until a purge takes both: only one    *)
(* that a restart cuts off leaves a link to nothing.  While requests come  *)
(* one at a time and none is cut off, the newest file of a row keeps its   *)
(* link for as long as it is there, unless a purge could not delete it.    *)
LinksMatchFiles ==
  /\ \A r \in Row : link[r] # NoFile /\ restarts = 0 => link[r] \in disk \/ BeingPurged(r)
  /\ load = 1 /\ restarts = 0 /\ Busy = {} =>
       \A r \in Row : newest[r] \in disk \ stuck => link[r] = newest[r]

BeingMade(b) ==
  \E sl \in Slot : artifactReq[sl].op \in {"items", "settle"} /\ artifactReq[sl].of = b

Failed(b) == {s \in Student : item[<<b, s>>] \in {"SKIPPED", "FAILED"}}

(* A batch leaves PROCESSING with counts and a status that agree with its   *)
(* items, one item for each record; only a restart leaves it there, one    *)
(* batch for each request it cut off.                                      *)
BatchesSettle ==
  /\ Cardinality({b \in Made : batch[b].status = "PROCESSING" /\ ~BeingMade(b)})
       <= restarts * load
  /\ \A b \in Made : batch[b].status # "PROCESSING" =>
       /\ batch[b].good = Cardinality(Rendered(b)) /\ batch[b].bad = Cardinality(Failed(b))
       /\ batch[b].total = batch[b].good + batch[b].bad
       /\ batch[b].status = "COMPLETED" <=> Failed(b) = {}
       /\ batch[b].status = "FAILED" <=> Rendered(b) = {}
=============================================================================
