SPECIFICATION Spec
CONSTANTS
  Student = {s1, s2}
  Batch = {b1, b2, b3}
  Slot = {r1}
  School <- MCSchool
  SchoolOf <- MCSchoolOf
  Entry <- MCEntry
SYMMETRY Symmetry
INVARIANTS
  QueuedWillBePrinted
  PrintedWasPrinted
  FileIsComplete
PROPERTIES
  StatusProgression
