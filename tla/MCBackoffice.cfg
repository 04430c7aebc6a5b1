SPECIFICATION MCSpec
CONSTANTS
  Invoice = {i1}
  Order = {t1, t2}
  Chain = {c1, c2, c3}
  Job = {j1, j2}
  Batch = {b1}
  PrintJob = {k1}
  File = {p1, p2, f1}
  Member = {x1, x2}
  Template = {t1, t2}
  CardType = {"STUDENT"}
  Mapping = {m1, m2}
  Layout = {l1, l2}
  Student = {y1}
  Proof = {p1, p2}
  MaxVersion = 3
  Slot = {r1, r2}
  Totals = {2, 3}
  LeastOrder = 2
  MaxCredit = 4
  MaxAttempts = 3
  MaxLoad = 2
  MaxRestarts = 1
SYMMETRY Symmetry
CHECK_DEADLOCK FALSE
CONSTRAINT MCLoad
INVARIANTS
  SnapshotsInStep
  ProofsFollowTemplate
  OneActiveTemplate
  BooksBalance
  ChainsInOrder
  JobRunsOnce
  LinksMatchFiles
  BatchesSettle
