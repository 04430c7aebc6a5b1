------------------------------ MODULE MCIntake ------------------------------
(* How a school comes to its students, in one run: part says whether a      *)
(* behaviour creates schools, looks links up or takes submissions.         *)
(*                                                                         *)
(* Submissions come one at a time on a link of each policy; or two at a     *)
(* time, until there are three records, on a link that takes one record for *)
(* each mobile and has room for a single one.  Either way with a restart.  *)
EXTENDS Intake, TLC

CONSTANTS
  School, Email, Attempts,
  Window, Limit, LookupLimit, MissLimit, LastTick, MaxHits

VARIABLES
  part,
  school, staff, schoolReq,
  now, redisReady, count, passed, found, lookReq

Codes == INSTANCE SchoolCodes
Hits == INSTANCE Throttle

ASSUME NumbersAssumption ==
  {Attempts, Window, Limit, LookupLimit, MissLimit, LastTick, MaxHits} \subseteq Nat

formVars == <<link, record, submission, intakeReq>>
codeVars == <<school, staff, schoolReq>>
hitVars == <<now, redisReady, count, passed, found, lookReq>>

MCInit ==
  /\ part \in {"forms", "codes", "hits"}
  /\ Init /\ Codes!Init /\ Hits!Init
  /\ part # "forms" => link = CHOOSE l \in Links : TRUE
  /\ part # "hits" => redisReady /\ found

MCNext ==
  /\ part' = part
  /\ \/ part = "forms" /\ Next /\ UNCHANGED <<codeVars, hitVars>>
     \/ part = "codes" /\ Codes!Next /\ UNCHANGED <<restarts, formVars, hitVars>>
     \/ part = "hits" /\ Hits!Next /\ UNCHANGED <<formVars, codeVars>>

MCSpec == MCInit /\ [][MCNext]_<<part, vars, codeVars, hitVars>>

CodesAllocated == Codes!CodesAllocated
WindowHolds == Hits!WindowHolds

MCSerialLinks == [policy : Policy, capacity : {2}, siblings : {1}]
MCOverlapLinks == [policy : {"ALLOW_MULTIPLE"}, capacity : {1}, siblings : {1}]
MCLinks == MCSerialLinks \cup MCOverlapLinks

(* The rate limiter and the lookups, which share no state, one at a time.  *)
MCLoad ==
  /\ part = "forms" =>
       IF load = 1
       THEN link \in MCSerialLinks
       ELSE link \in MCOverlapLinks /\ Cardinality(Made) < 3
  /\ part = "hits" =>
       \/ count["redis"] = Hits!None /\ count["local"] = Hits!None
       \/ count["lookups"] = Hits!None /\ load = 1

Symmetry ==
  Permutations(Record) \cup Permutations(Slot) \cup Permutations(Name)
=============================================================================
