SPECIFICATION Spec
CONSTANTS
  User = {u1}
  Session = {s1, s2, s3}
  Token = {t1}
  Slot = {r1, r2}
  LockoutAfter = 2
  MaxLoad = 2
  MaxGuesses = 6
SYMMETRY Symmetry
INVARIANTS
  EvictionTakesEffect
