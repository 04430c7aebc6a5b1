SPECIFICATION FairSpec
CONSTANTS
  Student = {s1}
  Workflow = {w1, w2, w3}
  Slot = {r1}
  School <- MCSchool
  Chain = {"two", "one", "foreign"}
  Actor = {"head", "sales", "stray"}
  SchoolOf <- MCSchoolOf
  ChainSchool <- MCChainSchool
  ChainSteps <- MCChainSteps
  RoleOf <- MCRoleOf
  Scope <- MCScope
  MaxBulk = 2
  Entry <- TwoEntries
INVARIANTS
  OneActiveWorkflow
  ApprovedSinceSendBack
  RequestAndStageFollow
PROPERTIES
  ClosedStaysClosed
  ActingEnds
