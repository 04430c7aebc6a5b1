SPECIFICATION Spec
CONSTANTS
  Student = {s1}
  Workflow = {w1, w2}
  Slot = {r1, r2}
  School <- MCSchool
  Chain = {"two"}
  Actor = {"head", "sales"}
  SchoolOf <- MCSchoolOf
  ChainSchool <- MCChainSchool
  ChainSteps <- MCChainSteps
  RoleOf <- MCRoleOf
  Scope <- MCScope
  MaxBulk = 1
  Entry <- OneEntry
SYMMETRY Symmetry
VIEW OverlapView
INVARIANTS
  TypeOK
  StepFitsStatus
  ApprovedIsFullySigned
  DesignNeedsFullApproval
PROPERTIES
  DecisionStands
