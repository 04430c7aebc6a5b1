----------------------------- MODULE MCApproval -----------------------------
(* Instances of Approval: a school whose students go through a chain of two *)
(* steps or one of a single step, a chain of another school, and the three  *)
(* kinds of actor the checks tell apart.                                   *)
EXTENDS Approval, TLC

MCSchool == {"north", "south"}

MCSchoolOf    == [s \in Student |-> "north"]
MCChainSchool == [c \in Chain |-> IF c = "foreign" THEN "south" ELSE "north"]
MCChainSteps  ==
  [c \in Chain |-> IF c = "two" THEN <<"SCHOOL_ADMIN", "SALES_PERSON">>
                                ELSE <<"SALES_PERSON">>]
MCRoleOf == [a \in Actor |-> IF a = "head" THEN "SCHOOL_ADMIN" ELSE "SALES_PERSON"]
MCScope  == [a \in Actor |-> IF a = "stray" THEN {"south"} ELSE {"north"}]

(* What submit creates (public-intake.service.ts, parent.service.ts), and a *)
(* student under review whose status updateStudent has set to DRAFT.        *)
Submitted == [stage |-> "SUBMITTED", status |-> "SUBMITTED", deleted |-> FALSE]
Drafted   == [stage |-> "UNDER_REVIEW", status |-> "DRAFT", deleted |-> FALSE]
OneEntry  == {Submitted}
TwoEntries == {Submitted, Drafted}

WorkflowSymmetry == Permutations(Workflow)
Symmetry == Permutations(Workflow) \cup Permutations(Slot)

(* fresh is written and never read by the actions: two states that differ  *)
(* only there have the same future, and no property of the overlapping     *)
(* instance speaks of it.                                                  *)
OverlapView == <<student, workflow, request, signed, req>>
=============================================================================
