------------------------- MODULE MCStudentLifecycle -------------------------
(* Two students of a school, the second of whom waits until the first is    *)
(* merged into it; a chain of one step; and either an approval or the print *)
(* line, the review desk with both.                                        *)
EXTENDS StudentLifecycle, TLC

MCSchool      == {"north"}
MCSchoolOf    == [s \in Student |-> "north"]
MCChainSchool == [c \in Chain |-> "north"]
MCChainSteps  == [c \in Chain |-> <<"SCHOOL_ADMIN">>]
MCRoleOf      == [a \in Actor |-> "SCHOOL_ADMIN"]
MCScope       == [a \in Actor |-> {"north"}]
MCEntryRow    == [stage |-> "SUBMITTED", status |-> "SUBMITTED", deleted |-> FALSE]
MCEntry       == {MCEntryRow}

Resting(s) == student[s] = MCEntryRow \/ student[s].deleted
Ordered == {b \in Batch : order[b].status # "NONE"}
Orphan(b) == job[b].status = "NONE" /\ InFlight(printReq) = 0

MCOneAtATime ==
  /\ Resting("s2") \/ student["s1"].deleted
  /\ \A s \in Student : Resting(s) /\ ~student[s].deleted => \A b \in Ordered : s \notin order[b].students
  /\ \A w \in Workflow : workflow[w].status = "NONE" \/ Ordered = {}
  /\ \A b \in Ordered : job[b].file = {} /\ ~Orphan(b)
  /\ \A b, c \in Ordered : b # c => {job[b].status, job[c].status} \cap {"NONE", "READY_FOR_PRINT"} # {}
  /\ load = 2 =>
       /\ student["s2"] = MCEntryRow
       /\ Cardinality(Ordered) <= 1 /\ \A b \in Ordered : job[b].status \notin {"PRINTED", "DISPATCHED"}
       /\ \A sl \in Slot : /\ deskReq[sl].op # "merge"
                           /\ printReq[sl].op \notin {"file", "issue", "reissue"}

Symmetry == Permutations(Batch)
=============================================================================
