SPECIFICATION MCSpec
CONSTANTS
  User = {u1}
  Session = {x1, x2, x3}
  Token = {t1}
  Slot = {r1, r2}
  LockoutAfter = 2
  MaxLoad = 2
  MaxGuesses = 6
  Mobile = {m1}
  FormSession = {s1, s2}
  Ticket = {k1, k2}
  MaxAttempts = 2
  SendLimit = 1
  VerifyLimit = 3
  MaxLog = 4
SYMMETRY Symmetry
CONSTRAINT MCLoad
INVARIANTS
  WrongGuessesBounded
  OneTimeTokens
  SpentOnce
  StatusHasContent
PROPERTIES
  ImplementsChains
  OtpMoves
