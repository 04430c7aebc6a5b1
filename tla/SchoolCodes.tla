---------------------------- MODULE SchoolCodes ----------------------------
(***************************************************************************)
(* createSchool of SchoolsService (modules/schools/schools.service.ts):    *)
(* the code of a new school is the highest one read plus one, and is tried  *)
(* again from a new read when the unique index on it refuses the row.  The  *)
(* account of the school's administrator and the assignment of a sales      *)
(* person follow in statements of their own.  Codes SA0001, SA0002, ... are *)
(* their numbers.                                                          *)
(***************************************************************************)
EXTENDS Naturals, FiniteSets

CONSTANTS
  School, Email, Slot,
  Attempts,    \* SCHOOL_CODE_ALLOCATOR_ATTEMPTS
  MaxLoad      \* how many requests are in flight at most

VARIABLES
  load,       \* how many requests overlap at most
  school,     \* School rows: the code, or 0
  staff,      \* the accounts of each school's administrators, and whether its
              \* sales person is assigned
  schoolReq   \* the request in flight in each slot

vars == <<load, school, staff, schoolReq>>

----------------------------------------------------------------------------
(* began (history): how many schools there were when the request came in   *)
Idle == [op |-> "idle"]
Made == {s \in School : school[s] # 0}
Codes == {school[s] : s \in Made}
Busy == {sl \in Slot : schoolReq[sl] # Idle}
Proceed(sl, q) == schoolReq' = [schoolReq EXCEPT ![sl] = q] /\ load' = load

BeginCreate(sl) ==
  /\ sl \notin Busy /\ Cardinality(Busy) < load
  /\ Proceed(sl, [op |-> "read", attempt |-> 1, began |-> Cardinality(Made)])
  /\ UNCHANGED <<school, staff>>

Highest == IF Codes = {} THEN 0 ELSE CHOOSE n \in Codes : \A m \in Codes : m <= n

ReadCodes(sl) ==
  LET q == schoolReq[sl] IN
    /\ q.op = "read"
    /\ Proceed(sl, [op |-> "insert", attempt |-> q.attempt, began |-> q.began, code |-> Highest + 1])
    /\ UNCHANGED <<school, staff>>

InsertSchool(sl) ==
  LET q == schoolReq[sl] IN
    /\ q.op = "insert" /\ q.code \notin Codes
    /\ \E s \in School \ Made :
         /\ school' = [school EXCEPT ![s] = q.code]
         /\ Proceed(sl, [op |-> "admin", school |-> s])
    /\ staff' = staff

(* fault: the same code is tried again *)
RetryFaultSameCode(q) == [q EXCEPT !.attempt = @ + 1]

Retry(q) == [op |-> "read", attempt |-> q.attempt + 1, began |-> q.began]

(* isSchoolCodeConflict *)
CodeTaken(sl) ==
  LET q == schoolReq[sl] IN
    /\ q.op = "insert" /\ q.code \in Codes
    /\ Proceed(sl, IF q.attempt < Attempts THEN Retry(q) ELSE Idle)
    /\ UNCHANGED <<school, staff>>

(* The upsert moves an account that exists to the new school.              *)
AssignAdmin(sl) ==
  LET q == schoolReq[sl] IN
    /\ q.op = "admin"
    /\ staff' \in {staff} \cup
         {[s \in School |-> [staff[s] EXCEPT !.admins = IF s = q.school THEN @ \cup {e} ELSE @ \ {e}]] :
            e \in Email}
    /\ Proceed(sl, [q EXCEPT !.op = "sales"])
    /\ school' = school

AssignSales(sl) ==
  LET q == schoolReq[sl] IN
    /\ q.op = "sales"
    /\ \E sales \in BOOLEAN : staff' = [staff EXCEPT ![q.school].sales = sales]
    /\ Proceed(sl, Idle)
    /\ school' = school

ProcessRestart ==
  /\ Busy # {}
  /\ schoolReq' = [sl \in Slot |-> Idle]
  /\ UNCHANGED <<load, school, staff>>

Init ==
  /\ load \in 1..MaxLoad
  /\ school = [s \in School |-> 0]
  /\ staff = [s \in School |-> [admins |-> {}, sales |-> FALSE]]
  /\ schoolReq = [sl \in Slot |-> Idle]

Next ==
  \/ \E sl \in Slot :
       \/ BeginCreate(sl) \/ ReadCodes(sl) \/ InsertSchool(sl) \/ CodeTaken(sl)
       \/ AssignAdmin(sl) \/ AssignSales(sl)
  \/ ProcessRestart

Spec == Init /\ [][Next]_vars

----------------------------------------------------------------------------
(* Properties *)

(* Codes are handed out without gaps, and a request loses an attempt only   *)
(* to another school that was created since it came in: "Unable to allocate *)
(* a unique institution code" takes Attempts of them.                      *)
CodesAllocated ==
  /\ Codes = 1..Cardinality(Made)
  /\ \A sl \in Busy :
       schoolReq[sl].op \in {"read", "insert"} =>
         Cardinality(Made) >= schoolReq[sl].began + schoolReq[sl].attempt - 1
=============================================================================
