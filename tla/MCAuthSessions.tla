--------------------------- MODULE MCAuthSessions ---------------------------
(* Instances of AuthSessions: one user, one or two requests in flight.     *)
EXTENDS AuthSessions, TLC

Symmetry == Permutations(Session) \cup Permutations(Token) \cup Permutations(Slot)
=============================================================================
