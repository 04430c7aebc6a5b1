----------------------------- MODULE AsyncJobs -----------------------------
(***************************************************************************)
(* createAsyncJob and processAsyncJob of PlatformService                   *)
(* (modules/platform/platform.service.ts).  A security administrator asks  *)
(* for each run of a job; the status is checked on a read, written, and     *)
(* written again when the work has ended.  maxAttempts is never looked at. *)
(***************************************************************************)
EXTENDS Naturals, FiniteSets

CONSTANTS
  Job, Slot,
  MaxAttempts,   \* bound on the attempts at a job
  MaxLoad,       \* how many requests are in flight at most
  MaxRestarts    \* bound on the restarts of the process

VARIABLES
  load,      \* how many requests overlap at most
  job,       \* AsyncJob rows
  jobReq,    \* the request in flight in each slot
  restarts   \* how often the process was restarted

vars == <<load, job, jobReq, restarts>>

----------------------------------------------------------------------------
(* Histories: how often the job was marked COMPLETED (done), how often an   *)
(* attempt was forced on a job that was not runnable (forced), and how     *)
(* often a failure came after the mark (undone).                           *)
Unmade == [status |-> "none"]
JobRow ==
  [status : {"QUEUED", "PROCESSING", "COMPLETED", "FAILED"}, attempts : 0..MaxAttempts,
   done : 0..MaxAttempts, forced : 0..MaxAttempts, undone : 0..MaxAttempts]
Idle == [op |-> "idle"]

Made == {j \in Job : job[j] # Unmade}
Busy == {sl \in Slot : jobReq[sl] # Idle}

CreateJob ==
  \E j \in Job \ Made :
    /\ job' = [job EXCEPT ![j] =
         [status |-> "QUEUED", attempts |-> 0, done |-> 0, forced |-> 0, undone |-> 0]]
    /\ UNCHANGED <<load, jobReq, restarts>>

(* fault: a completed job may be run again *)
RunnableFaultCompleted == {"QUEUED", "FAILED", "COMPLETED"}

Runnable == {"QUEUED", "FAILED"}

ReadJob(sl) ==
  \E j \in Made, force \in BOOLEAN :
    /\ sl \notin Busy /\ Cardinality(Busy) < load
    /\ job[j].attempts + Cardinality(Busy) < MaxAttempts
    /\ force \/ job[j].status \in Runnable
    /\ jobReq' = [jobReq EXCEPT ![sl] =
         [op |-> "start", job |-> j, forced |-> job[j].status \notin Runnable]]
    /\ UNCHANGED <<load, job, restarts>>

StartJob(sl) ==
  LET q == jobReq[sl] IN
    /\ q.op = "start"
    /\ job' = [job EXCEPT ![q.job].status = "PROCESSING", ![q.job].attempts = @ + 1,
                          ![q.job].forced = IF q.forced THEN @ + 1 ELSE @]
    /\ jobReq' = [jobReq EXCEPT ![sl] = [op |-> "work", job |-> q.job]]
    /\ UNCHANGED <<load, restarts>>

(* executeAsyncJob returns *)
CompleteJob(sl) ==
  LET q == jobReq[sl] IN
    /\ q.op = "work"
    /\ job' = [job EXCEPT ![q.job].status = "COMPLETED", ![q.job].done = @ + 1]
    /\ jobReq' = [jobReq EXCEPT ![sl] = [op |-> "audit", job |-> q.job]]
    /\ UNCHANGED <<load, restarts>>

AuditJob(sl) ==
  /\ jobReq[sl].op = "audit"
  /\ jobReq' = [jobReq EXCEPT ![sl] = Idle]
  /\ UNCHANGED <<load, job, restarts>>

(* The catch: executeAsyncJob throws, or the audit entry of a job that is   *)
(* COMPLETED by now cannot be written.  A catch that fails itself is one   *)
(* with the restart: nothing more is written.                              *)
FailJob(sl) ==
  LET q == jobReq[sl] IN
    /\ q.op \in {"work", "audit"}
    /\ job' = [job EXCEPT ![q.job].status = "FAILED",
                          ![q.job].undone = IF q.op = "audit" THEN @ + 1 ELSE @]
    /\ jobReq' = [jobReq EXCEPT ![sl] = Idle]
    /\ UNCHANGED <<load, restarts>>

ProcessRestart ==
  /\ restarts < MaxRestarts
  /\ Busy # {}
  /\ restarts' = restarts + 1
  /\ jobReq' = [sl \in Slot |-> Idle]
  /\ UNCHANGED <<load, job>>

Init ==
  /\ load \in 1..MaxLoad
  /\ job = [j \in Job |-> Unmade]
  /\ jobReq = [sl \in Slot |-> Idle]
  /\ restarts = 0

Next ==
  \/ CreateJob
  \/ \E sl \in Slot : ReadJob(sl) \/ StartJob(sl) \/ CompleteJob(sl) \/ AuditJob(sl) \/ FailJob(sl)
  \/ ProcessRestart

Spec == Init /\ [][Next]_vars

----------------------------------------------------------------------------
(* Properties *)

(* The rows of the table have the columns of the schema.                   *)
TypeOK ==
  /\ load \in 1..MaxLoad
  /\ job \in [Job -> JobRow \cup {Unmade}]
  /\ restarts \in 0..MaxRestarts

BeingRun(j) == \E sl \in Slot : jobReq[sl].op = "work" /\ jobReq[sl].job = j

(* Nobody works at a job that says PROCESSING only when a restart cut the  *)
(* work off, one job for each request that was cut off; and while requests *)
(* come one at a time a job is completed once, and once more for each run   *)
(* that was forced and each completion that a failure after it took back.  *)
JobRunsOnce ==
  /\ Cardinality({j \in Made : job[j].status = "PROCESSING" /\ ~BeingRun(j)})
       <= restarts * load
  /\ load = 1 => \A j \in Made : job[j].done <= 1 + job[j].forced + job[j].undone
=============================================================================
