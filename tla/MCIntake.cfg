SPECIFICATION MCSpec
CONSTANTS
  Mobile = {m1}
  Name = {n1, n2}
  Record = {k1, k2, k3}
  Slot = {r1, r2}
  Links <- MCLinks
  MaxSubmissions = 1
  MaxLoad = 2
  MaxRestarts = 1
  School = {k1, k2, k3}
  Email = {e1}
  Attempts = 3
  Window = 2
  Limit = 2
  LookupLimit = 3
  MissLimit = 1
  LastTick = 3
  MaxHits = 2
SYMMETRY Symmetry
CONSTRAINT MCLoad
INVARIANTS
  SubmissionsOnLiveRecords
  OneRecordPerKey
  LimitsHold
  RecordHasSubmission
  CodesAllocated
  WindowHolds
