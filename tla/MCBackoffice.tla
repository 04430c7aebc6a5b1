---------------------------- MODULE MCBackoffice ----------------------------
(* Templates and the four small components of the back office, which share *)
(* no state, in one run: part says whose steps a behaviour takes.          *)
EXTENDS Templates, TLC

CONSTANTS
  Invoice, Order, Chain, Job, Batch, PrintJob, File, Member,
  Totals, LeastOrder, MaxCredit, MaxAttempts

ASSUME BackofficeAssumption ==
  /\ Totals \subseteq Nat /\ Batch \cap PrintJob = {} /\ "noFile" \notin File
  /\ {LeastOrder, MaxCredit, MaxAttempts} \subseteq Nat
  /\ IsFiniteSet(Member) /\ IsFiniteSet(Chain)

VARIABLES
  part,
  invoice, ledger, credited, billingReq,
  chain, chainReq,
  job, jobReq,
  batch, item, link, newest, written, disk, stuck, artifactReq

Books == INSTANCE Billing
Chains == INSTANCE ApprovalChains
Jobs == INSTANCE AsyncJobs
Files == INSTANCE Artifacts WITH Student <- Member

designVars == <<template, snapshot, proof, templateReq>>
bookVars == <<invoice, ledger, credited, billingReq>>
chainVars == <<chain, chainReq>>
jobVars == <<job, jobReq>>
fileVars == <<batch, item, link, newest, written, disk, stuck, artifactReq>>

MCInit ==
  /\ part \in {"templates", "books", "chains", "jobs", "files"}
  /\ Init
  /\ Books!Init /\ Chains!Init /\ Jobs!Init /\ Files!Init

MCNext ==
  /\ part' = part
  /\ \/ part = "templates" /\ Next /\ UNCHANGED <<bookVars, chainVars, jobVars, fileVars>>
     \/ part = "books" /\ Books!Next /\ UNCHANGED <<restarts, designVars, chainVars, jobVars, fileVars>>
     \/ part = "chains" /\ Chains!Next /\ UNCHANGED <<restarts, designVars, bookVars, jobVars, fileVars>>
     \/ part = "jobs" /\ Jobs!Next /\ UNCHANGED <<designVars, bookVars, chainVars, fileVars>>
     \/ part = "files" /\ Files!Next /\ UNCHANGED <<designVars, bookVars, chainVars, jobVars>>

MCSpec == MCInit /\ [][MCNext]_<<part, vars, bookVars, chainVars, jobVars, fileVars>>

BooksBalance == Books!BooksBalance
ChainsInOrder == Chains!ChainsInOrder
JobRunsOnce == Jobs!JobRunsOnce
LinksMatchFiles == Files!LinksMatchFiles
BatchesSettle == Files!BatchesSettle

(* Where two templates are made, neither gets a third version.  When        *)
(* requests for templates overlap, there is no restart, no proof where two  *)
(* are made and one at most otherwise, and one of the two stays at version *)
(* 1.  When requests for files overlap and a purge fails to delete one, at *)
(* most two are written.                                                   *)
MCLoad ==
  /\ part = "templates" =>
       /\ Cardinality(Made) > 1 => \A t \in Made : template[t].last <= 2
       /\ load = 2 => /\ restarts = 0
                      /\ Cardinality(Drawn) <= 2 - Cardinality(Made)
                      /\ Cardinality(Made) > 1 => \E t \in Made : template[t].last = 1
  /\ part = "files" /\ load = 2 /\ stuck # {} => Cardinality(written) <= 2

(* Orders and files bear the names of templates and proofs, so that these    *)
(* permutations are symmetries of every part.                              *)
Symmetry ==
  Permutations(Template) \cup Permutations(Mapping) \cup Permutations(Layout) \cup Permutations(Proof)
    \cup Permutations(Slot)
=============================================================================
