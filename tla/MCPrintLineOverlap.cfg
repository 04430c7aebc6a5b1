SPECIFICATION Spec
CONSTANTS
  Student = {s1}
  Batch = {b1, b2}
  Slot = {r1, r2}
  School <- MCSchool
  SchoolOf <- MCSchoolOf
  Entry <- MCEntry
SYMMETRY Symmetry
INVARIANTS
  QueuedIsOnAJob
  OrderMirrorsJob
  ItemsMatchOrder
