---------------------------- MODULE MCPrintLine ----------------------------
(* Instances of PrintLine: students of one school that are ready for print. *)
EXTENDS PrintLine, TLC

MCSchool   == {"north"}
MCSchoolOf == [s \in Student |-> "north"]
MCEntry == {[stage |-> "APPROVED_FOR_PRINT", status |-> "SALES_APPROVED", deleted |-> FALSE]}

Symmetry == Permutations(Student) \cup Permutations(Batch) \cup Permutations(Slot)
=============================================================================
