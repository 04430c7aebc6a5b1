SPECIFICATION Spec
CONSTANTS
  Student = {"s1", "s2"}
  School <- MCSchool
  Chain = {"one"}
  Actor = {"head"}
  Workflow = {w1}
  Batch = {b1, b2}
  Slot = {r1}
  SchoolOf <- MCSchoolOf
  ChainSchool <- MCChainSchool
  ChainSteps <- MCChainSteps
  RoleOf <- MCRoleOf
  Scope <- MCScope
  Entry <- MCEntry
  MaxBulk = 1
  HandStage = {"PRINTED"}
  HandStatus = {"DRAFT"}
  Loads = {1, 2}
SYMMETRY Symmetry
CONSTRAINT MCOneAtATime
INVARIANTS
  StagesAgree
  DecisionsKept
  OneCardInPrint
