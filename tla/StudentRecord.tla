--------------------------- MODULE StudentRecord ---------------------------
(***************************************************************************)
(* The Student row of apps/api/prisma/schema.prisma as far as the life     *)
(* cycle of an ID card goes: the two columns every desk of the product     *)
(* writes (intakeStage and status) and the soft-delete mark.               *)
(***************************************************************************)

(* enum IntakeSubmissionStage *)
Stage ==
  {"DRAFT", "SUBMITTED", "VALIDATION_FAILED", "UNDER_REVIEW",
   "SALES_CORRECTED", "AWAITING_INSTITUTION_APPROVAL",
   "APPROVED_FOR_DESIGN", "DESIGN_READY", "APPROVED_FOR_PRINT",
   "IN_PRINT_QUEUE", "PRINTED", "DISPATCHED", "ISSUED",
   "REISSUE_REQUESTED", "REISSUED", "REJECTED", "ON_HOLD"}

(* enum StudentStatus *)
Status ==
  {"DRAFT", "SUBMITTED", "SCHOOL_APPROVED", "SALES_APPROVED",
   "IN_PRINT_QUEUE", "PRINTED", "DELIVERED", "REJECTED"}

(* model Student: deleted stands for deletedAt # null *)
StudentRow == [stage : Stage, status : Status, deleted : BOOLEAN]

(* prisma.student.updateMany({ where: { id: in ids }, data: { stage,       *)
(* status } }): it does not look at deletedAt or at the current values.    *)
Stamp(table, ids, stage, status) ==
  [s \in DOMAIN table |->
     IF s \in ids THEN [table[s] EXCEPT !.stage = stage, !.status = status]
                  ELSE table[s]]
=============================================================================
