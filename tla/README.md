# Verification of the SAVJAX identity platform

TLA+ specifications, TLC model checks and TLAPS proofs for the API of this
repository (`apps/api`, a NestJS server over Prisma and PostgreSQL), kept beside
the code. Every definition is translated from the source; `PROJECT.json` ("map")
names the lines each one stands for.

## 1. The system

A school, college or company orders ID cards. Parents and staff submit records
through public intake links; a review desk corrects them; an approval chain of
the institution signs them; approved records are dispatched to print; cards are
printed, dispatched, issued and sometimes reissued. Around this life cycle are
accounts, billing and platform services. Everything talks through one
PostgreSQL database; the server keeps almost no state of its own.

### The execution model

Each endpoint is an asynchronous function of one Node.js process (possibly
several processes behind a balancer). It reads rows, checks them, computes, and
writes, each statement being awaited. Three facts about the code decide what can
go wrong:

* **Checks are made on snapshots.** Between the read and the write of a handler
  other handlers run. Most writes are `update({ where: { id } })`: they do not
  look at the row again.
* **Transactions cover writes only.** `$transaction` groups the writes of some
  handlers (approval actions, job moves, merges); the reads they rest on happen
  before, and the default isolation level is READ COMMITTED. Other handlers
  (dispatch, reprint, intake submit) write several tables with no transaction.
* **Nothing is resumed.** There is no queue or saga: when the process stops in
  the middle of a handler, what has been written stays and nobody finishes it.

The specifications therefore give every handler a *slot*, in which it keeps the
snapshot it has read, and split it into one action per atomic step: a read, a
transaction, or a single statement. With one slot a module is the serial
program; with two it contains every overlap of two requests. `ProcessRestart`
empties all slots at any moment.

### Components

| Component | State | Operations | What makes it correct | Modules |
|---|---|---|---|---|
| Approval workflows (`admin.service.ts`) | `ApprovalWorkflow`, `ApprovalWorkflowAction`, `ApprovalRequest`, student stage/status | start, force restart, approve, reject, send back, comment, bulk | nothing approved before the whole chain signed; closed is closed; one active workflow per student; request and stage agree with the workflow | `Approval` |
| Print line (`admin.service.ts`) | `Order`, `OrderStudent`, `PrintJob`, `PrintJobStudent`, student stage/status | dispatch, reprint, move job, make file, issue, reissue | jobs move forward; queued students get a card; order and job agree; files complete | `PrintLine` |
| Review desk (`admin.service.ts`, `platform.service.ts`) | student rows | update, correct, validate, replace photo, merge duplicates, hand off, workflow rule | what a desk put a student at stays true until another moves it; no decision is lost | `ReviewDesk`, `StudentLifecycle` |
| Approval chains (`admin.service.ts`) | `ApprovalChain(.isActive, .version)` | create, activate | one active chain, versions distinct | `ApprovalChains` |
| Public intake (`public-intake.service.ts`, `parent.service.ts`) | `IntakeAuthSession`, `Student`, `ParentSubmission`, analysis tickets | start/verify OTP, draft, analyse photo, submit | attempts bounded; capacity, duplicate and per-mobile limits; a status has what it claims behind it | `Intake`, `IntakeSession` |
| Authentication (`auth.service.ts`, `jwt.strategy.ts`) | `User.failedLoginCount/lockoutUntil`, `AuthSession`, `OtpChallenge`, `PasswordResetToken` | login, OTP, refresh, logout, reset, removal | a token is spent once; an eviction ends every session; every wrong guess counts | `AuthSessions`, `SessionChains`, `ParentOtp` |
| Billing (`billing.service.ts`) | `Invoice`, `PaymentLedger` | invoice, order, verify | the amount paid is what the verifications add up to | `Billing` |
| Platform (`platform.service.ts`) | `AsyncJob`, artifacts | jobs, purge | requests one at a time complete a job once; no row points to a purged file | `AsyncJobs`, `Artifacts` |
| Templates and render batches (`admin.service.ts`) | `Template`, `TemplateSnapshot`, `Proof`, `RenderBatch(Item)` | create, copy, publish, edit, rebind, colour profile, render, export | snapshots keep in step; proofs follow their template; batch counters equal item states | `Templates`, `TemplatesProofs`, `Artifacts` |
| Schools (`schools.service.ts`) | `School`, its accounts, lookup throttle | onboard, public lookup | codes without gaps or loss; throttle bounded | `SchoolCodes`, `Throttle` |
| Rate limiter (`rate-limiter.service.ts`) | sliding windows in Redis and in the process | `isLimited` | the limit holds in each store | `Throttle` |
| Access control (`common/access`, `common/guards`, `common/auth`) | none | role, tenant and scope checks | every write is by a role and scope that may | guards of `Approval` |
| Photo intelligence (`face-intelligence.service.ts`) | one-time tickets | issue, consume, clean up | a ticket goes into one submission | `IntakeSession` |
| Data protection, Twilio, reporting, bootstrap, seed, web client (`apps/web`) | none on the server | read-only, or a client of the API | | none |

Interaction is by shared rows. The two columns `Student.intakeStage` and
`Student.status` are written by intake, review desk, approvals, print line and
workflow rules alike, mostly without looking at each other; that is the hardest
part of the system. `StudentLifecycle` composes the three desks over that one
table. `PROJECT.json` ("hazards") lists, line by line, what is hard to test.

## 2. Modules

| Module | Models |
|---|---|
| `StudentRecord` | the shared row: stage, status, soft delete, and the `updateMany` that stamps it |
| `Approval`, `MCApproval` | approval workflows, and their instances |
| `ApprovalProofs` | theorems: whatever overlaps; requests one at a time |
| `PrintLine`, `MCPrintLine` | the print line, and its instances |
| `PrintLineProofs` | theorems: whatever overlaps; requests one at a time |
| `ReviewDesk` | the desk's handlers, for composition |
| `StudentLifecycle`, `MCStudentLifecycle` | `Approval`, `ReviewDesk` and `PrintLine` over one student table |
| `LifecycleProofs` | theorems about the three desks together |
| `Intake` | submissions through one intake link, and the merges and rejections that follow |
| `SchoolCodes`, `Throttle` | the codes of new schools; sliding windows of one key |
| `MCIntake` | the instance that runs `Intake`, `SchoolCodes` and `Throttle` |
| `IntakeProofs` | theorems about `Intake` and, as `MCIntake` instantiates it, `SchoolCodes` |
| `SessionChains`, `SessionChainsProofs` | abstract specification of login sessions |
| `AuthSessions` | accounts, login sessions, reset tokens; they implement `SessionChains` |
| `IntakeSession`, `ParentOtp` | the session behind an intake form; the codes parents sign in with |
| `MCSessions`, `MCAuthSessions` | the instances that run the sessions |
| `AuthSessionsProofs` | theorems about `AuthSessions` and the three kinds of session in `MCSessions` |
| `Templates`, `Billing`, `ApprovalChains`, `AsyncJobs`, `Artifacts` | the back office |
| `TemplatesProofs` | theorems about templates, snapshots and proofs |
| `MCBackoffice` | the instance that runs these five |
| `BackofficeProofs` | theorems about the other four, as `MCBackoffice` instantiates them |

Definitions whose name contains `Fault` describe plausible bugs. They are used
by no action: each property of a passing run is checked to fail when the
definition after the fault is replaced by it ("mutants" in `PROJECT.json`).

In the modules from `Intake` on the number of requests that may be in flight is
a variable `load`, chosen at the start of a behaviour, so that one run shows what
holds with `load = 1` next to how far `load = 2` overruns it.

### Approval

State: `student` (the rows), `workflow` (status and `currentStepId`, kept as the
step's order, 0 for null), `request` (the `ApprovalRequest` created with a
workflow), `signed` (the APPROVE rows of the action log), `fresh` (those of them
after the last SEND_BACK; a history variable the code does not need), `req` (the
slots).

`startApprovalWorkflow` is `ReadForStart` (student and chain), `ScanOpen` (the
open workflows, and the conflict) and `CommitStart` (the transaction). A single
or bulk action is `BeginAct`, then for each workflow `ReadWorkflow` or
`RefuseWorkflow` (the checks on the row read) and one `Commit...` action per
branch of `applyApprovalWorkflowAction`; a single action is a bulk of one. The
commit uses the status, step and actor in the slot, as the code does.

Abstractions: chains are constants and a start may name any chain of the
student's school (the code accepts inactive ones by id); the set of ids of a
bulk call is handled in any order (the client chooses it); comments, timestamps,
metadata and audit log are left out. A workflow row that does not exist yet has
status `"NONE"`. `SLA` hours and `isOptional` of a step are stored and never read
by the code, so they do not appear.

### PrintLine

State: `student`, `order` (with its `OrderStudent` rows), `job` (with its items
and the rows of its print file), `printReq` (the slots). `dispatchToPrint` and
`createReprintBatch` share five statements, each an action: `CreateOrder`,
`LinkOrder`, `CreateJob` (or `RefuseJob`, when the unique index on `batchCode`
refuses), `CreateItems`, `QueueStudents`. `updatePrintJobStatus` is
`ReadJobForMove` and the transaction `CommitMove`; file generation, issuing and
reissue requests are a read and a write each.

Abstractions: batch codes (a caller can always name one that is taken, so
`RefuseJob` is possible as soon as there is a job); assignees, notes, layout;
the content of the file is the set of students it has a row for. Scope checks
are those of `Approval` and not repeated.

### Intake

State: `link` (its duplicate policy, capacity and limit per mobile), `record`
(the `Student` rows of the link), `submission` (how many `ParentSubmission` rows
each record has, by `verifiedMobile`), `intakeReq` (the slots), `restarts` (how
often the process stopped; a history variable).

`PublicIntakeService.submit` is `BeginSubmit`, four checks with a query each
(`CheckPolicy`, `FindExisting`, `CheckRoom`, `CheckLimit`), `WriteRecord` (or
`RefusePhoto`) and `WriteSubmission`. `ParentService.submitStudent` is
`BeginFromAccount`, `CheckFamily` and the same two writes; it shares the rows
with the public form but not its checks: a duplicate is flagged, the capacity is
not looked at, and its keys end in a roll number. The review desk may reject a
record or take it back (`ReadForReview`, `CommitReview`) and merge two
(`ReadForMerge`, `CommitMerge`, the transaction of `mergeDuplicate`).

Abstractions: a session is the mobile it was verified for, or ANON; name, class
and section are one value. Left out: the staff path, links for students (which
skip `CheckLimit`), merges across links, campaigns of several links, roll
numbers, photos and their tickets, the rows written besides (`User`, `Parent`,
`Proof`, audit log) and the state of the session.

### AuthSessions and SessionChains

State: `account` (failed count, lock, removed), `session` (`AuthSession` rows with
the session each was renewed from), `token` (`PasswordResetToken`), `authReq`.
`login` is `BeginLogin` (row and lock), `RefuseLogin` or `ReadFailures` and
`CountFailure` on the count read, or `ClearFailures`, `ReadScope` and
`IssueTokens`. `refreshToken` is `BeginRefresh` (the check), `Rotate` and then the
steps of a login; `resetPassword` is `BeginReset` and `CommitReset`; `deleteUser`
is `CommitRemove` and `SweepSessions`. Expiry and the end of a lock are steps of
the environment. A password is only compared, so a login is right or wrong; rate
limits, the second factor and cookies are left out.

`SessionChains` is what the login sessions promise: a session is signed in,
renewed into one other session, or ended, and an eviction closes every chain it
meets, one that is being renewed included. `ChainOf` maps the rows and the
requests in flight to chains: a session is *renewing* while the request that
rotated it has not issued its successor, and *ended* once it has or a restart
took that request. With one request at a time `AuthSessions` implements
`SessionChains` (`ImplementsChains`, checked and proved); with two it does not,
which the run `auth_evict` shows at the point where it hurts.

### IntakeSession and ParentOtp

`IntakeSession` is the session behind a form: OTP sent and compared on the row
read (`BeginVerify`, `Compare`, `WrongGuess`), drafts carried over from another
session (`FindDraft`, `Activate`), the session check of every later call
(`BeginAccess`, `RefuseAccess`), drafts, photo tickets kept in the memory of the
process (`IssueTicket`, `TakePhoto`), and the submission with the closing of the
session as a statement of its own (`CreateSubmission`, `CloseSession`).
`ParentOtp` is `sendParentOtp` and `verifyParentOtp`: challenges, the log that
limits failures, consumption and sign-in, each query a step.

### SchoolCodes and Throttle

`SchoolCodes` is `createSchool`: highest code read, insert, retry on the unique
index, then administrator and sales person. `Throttle` is the sliding window of
`RateLimiterService`, in Redis and, without it, in the process, and of the
lookups of `SchoolsService`, whose misses count only when the query is back. The
accounts (`staff`) are there because `createSchool` writes them; no property is
about them.

### Back office

`Templates`: a handler reads the template and writes later what it computed from
that read; the unique index on (template, version) makes the later of two edits
fail (`Conflict`). `CommitMapping` is followed by `FindProofs` and `DrawProofs` in
statements of their own. Mapping and layout are separate values, because not all
handlers treat them alike: an edit writes both and draws both into the proofs
(`Redrawn`), a rebinding and a submission draw proofs without layouts (`Bare`,
`Fresh`), and the colour profile writes back the mapping it read, alone
(`CommitColor`). A rebinding covers all students or those of one link, so any set.

`Billing`: `createRazorpayOrder` and `verifyRazorpayPayment` act on the invoice read
before the provider answered. Amounts are in hundredths, as the columns store
them; the code adds and compares binary floats and only the store rounds, so the
comparison of a sum that is stored as the total goes either way (`Settles`): 8.70 and
0.10 are less than 8.80 to the code.

`ApprovalChains`: the deactivation of rivals sees the rows committed when its
statement starts. `AsyncJobs`: the status is checked on a read, written, and written
again when the work has ended; the audit entry comes after that (`AuditJob`), inside
the same `try`, so its failure turns a COMPLETED job FAILED (`FailJob`).
`Artifacts`: a render batch is a row, then items, then counts; a file is
written and then linked; the purge deletes files, passes over those that cannot be
deleted (`stuck`), and then clears the links, of batches and of print jobs.

A statement that the database refuses because the connection is lost ends its
handler as a restart does: nothing more is written. It has an action of its own
where the code catches it and goes on.

### ReviewDesk and StudentLifecycle

`ReviewDesk` has a read and a write for each of `updateStudent`,
`applyCorrection`, `validateStudent`, `replaceStudentPhoto`, `mergeDuplicate`,
`handoffStudent` and `applyWorkflowRule`, which write the two columns without a
condition, and the status they do not decide as they read it.
`StudentLifecycle` is `INSTANCE Approval`, `INSTANCE PrintLine` and
`INSTANCE ReviewDesk` over one `student`; a step is a step of one of them. Three
history variables say what the code does not record: `decided` (the status
somebody last decided on), `stagedBy` (which desk last moved the stage) and
`excused` (students dispatched by force or cut off).

## 3. Runs

| Run | Shows |
|---|---|
| `approval_serial` | requests one at a time, with crashes: `OneActiveWorkflow`, `ClosedStaysClosed`, `ApprovedSinceSendBack`, `RequestAndStageFollow`, and that every action request ends (`ActingEnds`) |
| `approval_overlap` | two overlapping requests: `TypeOK`, `StepFitsStatus`, `ApprovedIsFullySigned`, `DesignNeedsFullApproval`, `DecisionStands` survive |
| `approval_reopen` | a forced start, whose scan found a workflow open, puts it ON_HOLD after another request rejected it (violation of `ClosedStaysClosed`) |
| `print_serial` | requests one at a time, with crashes between statements: `StatusProgression`, `QueuedWillBePrinted`, `PrintedWasPrinted`, `FileIsComplete` |
| `print_overlap` | two overlapping requests: `QueuedIsOnAJob`, `OrderMirrorsJob`, `ItemsMatchOrder` survive |
| `print_back` | two overlapping status updates set a printed job back to PRINTING (violation of `StatusProgression`) |
| `lifecycle` | the desks over one table: `StagesAgree`, `DecisionsKept`, `OneCardInPrint` |
| `lifecycle_ready` | a dispatch queues a student that the desk took back after the check (violation of `OnlyReadyIsQueued`) |
| `intake` | submissions, rejections, merges, a restart: `OneRecordPerKey`, `LimitsHold`, `RecordHasSubmission`, `SubmissionsOnLiveRecords`; and, in parts of the run that share no state with the form, `CodesAllocated` and `WindowHolds` |
| `sessions` | accounts, forms and parents: `WrongGuessesBounded`, `OneTimeTokens`, `SpentOnce`, `StatusHasContent`, `OtpMoves` and the refinement `ImplementsChains` |
| `auth_evict` | a refresh that read its session before an eviction survives it (violation of `EvictionTakesEffect`) |
| `backoffice` | `SnapshotsInStep`, `ProofsFollowTemplate`, `OneActiveTemplate`, `BooksBalance`, `ChainsInOrder`, `JobRunsOnce`, `LinksMatchFiles`, `BatchesSettle`, with one and two requests in flight and a restart |

The split serial / overlap is the result of the checks: the serial properties
are what the checks in the code are written for, and most of them are lost when
two requests overlap; the overlap properties hold by the structure of the writes
and not by luck of timing. Four properties lost under overlap contradict
something the repository says and are reported as findings. The others are
recorded as hazards.

Where a check can be overrun, the property says by how much. In `Intake`
capacity and limit per mobile are exceeded by at most one record for each further
request in flight, a child has at most as many records as there are requests in
flight, and a crash between two writes costs one record per request that was in
flight. In the sessions an account, form session or challenge with a limit of N
takes N wrong guesses one at a time and N(N+3)/2 when two overlap, for an old
count written back gives the guesses since back. In the back office as many
templates or chains are active alone as requests overlap, and a restart leaves at
most one job or batch PROCESSING for each request it cut off.

### Runs of several parts

Three MC modules put components that share no state into one run: their variable
`part`, chosen at the start, says whose steps a behaviour takes, and the others
stay where they began. Nothing interacts that does not in the code, and nothing
is left out. Names are shared between the parts (orders named like templates in
`MCBackoffice`, schools like records in `MCIntake`, challenges like form sessions
in `MCSessions`), so that the permutations are symmetries of every part.

### Bounds

* `approval_serial`: one student, three workflow rows, chains of one and two
  steps and a chain of another school, an administrator of the school, a sales
  person and one without access to the school, bulk calls of up to two ids. Three
  rows allow a restart of a restart; two steps are the least chain on which a
  step can be skipped or sent back; a longer chain repeats the middle step.
* `approval_overlap`: the same people and two workflow rows in two slots. Two
  overlapping requests are what a lost update needs. `VIEW` hides `fresh`, which
  no action reads and no property of the run mentions.
* `print_serial`: two students, three batches, so that a reprint follows a
  reprint and jobs share students; `print_overlap`: one student on two batches
  in two slots.
* `lifecycle`: one student and another to be merged into it or followed by it,
  a chain of one step, one workflow, two batches. `MCOneAtATime` leaves out the
  states in which both students are on their way, an order exists next to a
  workflow, or a print file was made; with `load = 2`, also merges and a second
  order. Approval and print line never read each other's rows, so the desk is
  explored with each of them.
* `intake`: two children, one mobile and the anonymous contact, three records.
  With `load = 1` a link of capacity two and one record per mobile under each
  policy; with `load = 2` a link that allows duplicates, with room for one, until
  three records exist, which an overrun beyond the promised one needs. One
  restart. Submissions are counted to one (`MaxSubmissions`), which is what the
  limit compares with.
* `CodesAllocated`: three schools and three attempts (`Attempts`), one e-mail.
  `WindowHolds`: windows of two of three ticks (`Window`, `LastTick`), `MaxHits`
  per tick, one above or at each limit.
* `sessions`: one user, three sessions, one reset token; two form sessions of one
  mobile and two tickets; two challenges of a parent, four log rows (`MaxLog`).
  Locks after two failures (`LockoutAfter`, `MaxAttempts`), the least number for
  which an overlap is different from a single failure. Wrong guesses are counted
  to `MaxGuesses`, above every bound claimed. With `load = 2` one form session, two
  login sessions, one challenge (`MCLoad`): two requests overlap on one row.
* `backoffice`: two templates of one card type, two mappings and two layouts,
  versions to three (`MaxVersion`), two proofs of one student; one invoice and two
  orders; three chains; two jobs of three attempts (`MaxAttempts`); one render
  batch, one print job and three files. An invoice is of two or three units, an order of
  two at least or of all that is outstanding (`LeastOrder`), so that a part can be
  paid and the rest ordered; credit is counted to `MaxCredit`, above every total. Where
  two templates exist, each has two versions at most; with overlapping template
  requests there is no restart and one proof at most, and with two templates none and
  one of them at version one; with overlapping file requests and a file that could
  not be deleted, two files (`MCLoad`). The theorems have none of these bounds.
* A start that finds no unused workflow row, a dispatch no unused batch or a
  submission no unused record is disabled: the only effect of the bound.
* `MaxBulk` stands for `@ArrayMaxSize(200)`.

Symmetry is used only in runs without liveness properties, on sets of rows,
students and slots. `backoffice` allows deadlock: when the rows of a part are used
up, nothing is left to do.

### Fairness

`ActingEnds` assumes weak fairness of the steps of each request already in a
slot (`HandlerStep`): the event loop runs a continuation whose promise is
resolved. Nothing is assumed about clients; a restart ends a request too. It is
the one liveness property: the bulk call is the one handler modelled as a loop, over
workflows each of which may refuse or fail. The loop is a plain `for` over the ids
with a `try` around each, so this shows that the model's loop ends as the code's
does, the continuation after a failure included. Every other handler is a straight
line of statements, whose end is that fairness itself.

## 4. Proofs

TLAPS checks the following for every number of rows, people and requests.

**Approvals, whatever overlaps** (`ApprovalProofs`). `TypeCorrect`,
`StepAlwaysFits`, `ApprovalIsSigned`, `DesignIsApproved`, `DecisionIsFinal`: the
five properties of `approval_overlap`. The assumptions are those of the module
(`ChainAssumption`, `PeopleAssumption`): chains have at least one step with an
allowed role, which the DTO and `normalizeApprovalChainSteps` enforce, and no
student starts at APPROVED_FOR_DESIGN. None of the properties is inductive: a
request in flight may hold a row read long ago. `IInv` adds that every step
*below* the current one of a workflow is signed (`RowsCovered`), that the same is
true of the step each acting request has in its snapshot and that its actor was
entitled to it (`SnapshotsCovered`), and that an approved request is covered by
signatures (`RequestsCovered`). Signatures are never removed, so a snapshot once
covered stays covered whatever other requests commit; this is why the properties
survive overlap although the writes are unconditional.

**Approvals, one request at a time** (second part of `ApprovalProofs`).
`OneWorkflowIsActive`, `SignedSinceSendBack`, `RequestAndStageTellTheTruth`,
`ClosedIsFinal`, under the premise `OneAtATime` (one slot). `SerialInv` adds to
`IInv` that a snapshot is still the row (`SnapshotsCurrent`) and that the steps
below the current one were signed since the last SEND_BACK (`FreshCovered`). With
the snapshot current, the check that a workflow is open, or that none is, is true
of the table when the transaction commits.

**Print line, whatever overlaps** (`PrintLineProofs`). `TypeCorrect`,
`QueuedOnAJob`, `OrderAndJobAgree`, `ItemsAreTheOrders`, with the process stopping
between any two statements. The assumption (`StudentAssumption`) is that nobody
starts in the print queue. `IInv` adds what a request in the middle of its
statements can count on: it is the only builder of its batch (`BatchesApart`),
its rows are as far as it has written them (`RequestsPlaced`), and a job not
created is empty (`UnmadeJobIsEmpty`). `QueueStudents` comes last: when it marks
the students, the job exists and has them as its items, and no later step removes
an item or a job.

**Print line, one request at a time** (second part of `PrintLineProofs`).
`QueuedCardsCome`, `FilesAreComplete`, `MarkedAsPrintedIsPrinted`,
`JobsGoForward`, under `OneAtATime`; the third also needs that nobody enters as
printed (`NobodyEntersPrinted`). `RequestsCurrent` says that what a move or a file
generation has read is still so, and that nobody touches a job while it is built.

**Intake** (`IntakeProofs`). For any load, any number of restarts, any link:
`TypeCorrect`, `OneRecordForEachChild`, `LinksFillUp` (the capacity half of
`LimitsHold`), `LimitsAreKept`, `RestartsLoseSubmissions`,
`SubmissionsFollowRecords`. The
invariants count: the records of a child plus the requests that are about to
create one for it never exceed the load (`KeyBound`), for a request that looks
while there is a record does not create another; in the same way the records of
the link plus the requests about to create one stay below capacity + load
(`RoomBound`); and a restart leaves without a submission at most the records of the
requests it cuts off, of which there are at most `load` (`LeftBound`, by a surjection
from slots to records). The limit of a mobile is checked against its submissions, not its
records: when a request finds room, each record of the mobile has a submission of
it (a merge gives the target all that the source had), or is about to get one, or
was left by a restart. The first are fewer than the limit, the second and the
requests about to create one hold a slot each (`RoomForOne`); so the records plus
those requests stay within the limit, the load and what restarts left
(`MobileBound`).

**The windows** (also in `IntakeProofs`): `WindowsHold`, about `Throttle` with any
limits, window, load and number of restarts. What a store let through is covered by
what it counts and, for the store of the process, by what it had let through before the
last restart (`Covered`): a hit let through now is in a window that the store counts in
full, and no hit lies ahead. A miss is counted after the query, so the lookups in
flight are added to the misses of every window that is still open (`Missed`): a
lookup starts only with fewer than `MissLimit` misses counted and at most `load`
lookups in flight, and each miss takes its lookup out of the sum. A link that is found
clears the count, which is sound because a token cannot have missed before it was
found: links expire and do not come back.

**Login sessions** (`AuthSessionsProofs`, `SessionChainsProofs`). `TypeCorrect`
whatever overlaps; with one request at a time and restarts anywhere
`TokensAreSpentOnce` and the refinement `SessionsImplementChains`: every step of
`AuthSessions` is a step of `SessionChains` or changes no chain. `AuthInv` says what
the request in flight relies on (`ReadyAt`): the session it rotates is not
revoked yet, the one it renews is and has no successor, the reset token was never
used. `SucceededOnce` shows of the abstract chains that a session is followed by
one other at most, and only when it has ended; `RenewedOnce` carries that over to
the rows through the refinement. The premise of the abstract theorems is that the
value for "no session" is not a session (`Apart`).

**Guesses, codes and the sessions of forms** (second part of `AuthSessionsProofs`), about
`MCSessions` with any constants: `GuessesAreBounded`, `CodesAreSpentOnce`,
`StatusTellsTheContent`, `OtpsMoveForward`. `SessionsInv` is the conjunction of an
invariant for each part (`AccountsInv`, `FormsInv`, `ParentsInv`); a step of one part is a
stutter of the others (`Parted`).

* The bound on guesses has one argument, used three times (`Bounded`). A row has
  taken `g` wrong guesses, its counter says `k`, and each request that is about to
  compare has read some count below the limit `M`. One at a time, `g` exceeds neither
  the counter nor what is read. With two in flight an old count may be written back;
  `Left(M, k) = (M - k) * (M - k + 3)` is twice what can still be taken from a
  counter at `k`, and `2 * g + Left(M, k)` never exceeds `Left(M, 0)`
  (`Bound`). That this survives a write of `a + 1` by a request that read `a` is
  what `OneRead` and `TwoReads` keep for the requests in flight. The theorem
  claims nothing per row beyond two overlapping requests.
* The failures in the audit log have another: those in the log plus the
  requests that may still log one stay within `VerifyLimit + load - 1`
  (`LogBounded`), for a request that looks when the window is full does not go on.
* `RowGood` and `RequestGood` say what a form's session and a request that acts on it
  promise: whatever status a request has read and may write back, SUBMITTED among
  them, the content is there already, and content is never taken away.
* `ChallengeGood` and `Spending` say that a challenge has bought no login as long as
  it is unused or about to be consumed, and one at most afterwards.

**Templates** (`TemplatesProofs`). For any load and any number of restarts:
`TypeCorrect`, `SnapshotsStayInStep`, `ProofsFollow`, `FewActiveTemplates`, from the
assumption that slots and templates are finitely many (`TemplatesAssumption`). What a
request has read may be old, so `IInv` says what stays true of it (`Sound`): the type
is still that of the row, and its version is not beyond the row's. Together with
`Gapless` this is what makes the unique index work: if the version after the one
that was read is free, the one that was read is still the last. A mapping is
`Known` when a snapshot keeps it or a first snapshot is about to; a stale colour
profile writes back a mapping that is known, if not the newest, and leaves the
layouts, which therefore are those of the newest snapshot whatever overlaps. A
proof drawn with layouts comes from one edit, and shows the snapshot that edit made.
`Serial` holds the
part for requests one at a time, where what was read is still there (`Current`).
For `FewActiveTemplates` the invariant counts, per card type, the templates
activated alone plus the requests about to create one (`AloneBound`): an activation
clears its rivals and leaves with its own slot, so that the sum stays below the
load.

**Codes of schools** (`IntakeProofs`). `CodesHaveNoGaps`, for any schools and
slots: the n schools that exist have the numbers 1 to n, and the number a request is
about to insert is at most the next one and beyond those it has lost
(`CodesNumbered`). If its insert is refused, another school has that number by now.

**The rest of the back office** (`BackofficeProofs`), for any load, rows and
slots, and any number of restarts where there are some.

* `ChainsKeepOrder`. A request writes a version it read, or the one after the last
  it read; `VersionsShared` counts for each version the chains that have it plus
  the requests about to write it, `SoleBound` those that are active alone plus the
  requests about to be. Each stays within the load: a request whose transaction
  sees no row of the others still takes its own slot out of the sum.
* `JobsAreRunOnce`. `StrandedBound` is the first half; a restart adds at most the
  jobs worked at, of which there are at most `load`. `JobsSerial` says for one
  request at a time that the status read is the status of the row, so that the
  check that a job may run holds when it starts, and counts the completions that a
  failed audit entry took back (`undone`), each of which lets the job run once more.
* `LinksAreTrue`, `BatchesAreSettled`. `FilesInv` says that a purge clears every
  row that links a file it deletes (`PurgesWhole`), that a file about to be linked
  was made for that row alone (`LinksFresh`, `LinksApart`), that a link is to a
  file that is there or being purged (`LinksHold`), that the newest file of a row keeps
  its link unless a purge took the file or failed to (`Loose`), and counts the batches that
  restarts abandoned (`AbandonedBound`). The items of a batch are written once, by its own request
  (`BatchesMade`), which is why the counts it takes are still right when written.
* `BooksAreBalanced`. `BooksRight`: every amount an invoice shows, or a request has
  read of it and will add to, is covered by what was credited to that invoice, and
  each status is that of its amount; of an invoice paid exactly it may be PAID or
  PARTIAL, and no other exception is possible (`SettlesIsRight`). The money credited (`credited`, a history
  variable) is kept for each invoice and grows with every successful verification,
  repeated ones included.

**Three desks, one table** (`LifecycleProofs`), from `LifecycleAssumption`: what
`Approval` and `PrintLine` assume, stages and statuses entered by hand are those
of the schema, and requests are finitely many. `StagesTellTheTruth`, `DecisionsAreKept`, `OneCardAtATime` and
`QueuedAreReady` need invariants of the parts, for the theorems of `Approval` and
`PrintLine` are about modules whose students nobody else touches.

* `SharedInv`, for any load: the workflows keep their rows covered by signatures
  (`SignaturesInv`) and the print line its rows in place (`PressInv`), because
  the other desks change nothing but students. A stage written by the approval
  desk, or by the print line, then says what happened there (`SignedStage`,
  `QueuedStage`), until another desk writes it.
* `SerialInv`, for one request at a time: no other slot is in use before or after a
  step, so what a request has read of the student is still there (`ReadsCurrent`),
  which is what makes the writes of an old status harmless (`StatusDecided`) and
  lets the stage follow the active workflow (`StageFollows`). `OneCard` says
  that a student is on one open job at most and, if on one, in the queue or about
  to be marked by the dispatch in flight; so whoever is ready waits for no card.

`QueuedAreReady` has the premise `Loads = {1}`: with two requests the run
`lifecycle_ready` shows a student queued who is no longer ready.

Every invariant and action property the passing runs check is stated by a theorem.
What is only model-checked is liveness (`ActingEnds`): fairness and ENABLED are
out of the prover's reach.

## 5. What could come next

1. A composition of `IntakeSession` and `Intake`, so that a submission and the
   state of its session are in one module.
2. The staff path of the intake and campaigns of several links, with the roll
   numbers, which are counted over all links of a school.
3. The web client: the undo history of the template editor and the steps of the
   intake wizard.

## 6. Not modelled

* Read-only endpoints (lists, overview, exports), image analysis, encryption,
  HTTP plumbing and environment validation keep no state whose evolution could be
  checked, or are pure computation on data that the properties do not tell apart.
* Operations that are one statement on a row nobody else writes: digital ids,
  mask policies, the definition of workflow rules, template assignments,
  campaigns and updates of schools. They are listed at their components in
  `PROJECT.json`.
* The web client. More than a third of the lines of the repository are the
  vendored WebAssembly loaders of the face detection (`public/mediapipe`), and much
  of the rest are large React pages, which hold forms and tables; the share of the
  repository that the map covers is small for that reason. Of `admin.service.ts`, what is not mapped
  are lists, exports, PDF and card layout, and audit wording.
