----------------------------- MODULE MCSessions -----------------------------
(* The sessions of accounts, those of intake forms and the codes of parents, *)
(* which share no state, in one run: part says whose steps a behaviour     *)
(* takes.  One user and one mobile.                                        *)
EXTENDS AuthSessions, TLC

CONSTANTS Mobile, FormSession, Ticket, MaxAttempts, SendLimit, VerifyLimit, MaxLog

VARIABLES
  part,
  formSession, ticket, intakeReq,
  challenge, log, parent, otpReq

Forms == INSTANCE IntakeSession WITH session <- formSession, Session <- FormSession

Parents == INSTANCE ParentOtp WITH Challenge <- FormSession

ASSUME SessionsAssumption == Forms!LimitAssumption /\ {SendLimit, VerifyLimit, MaxLog} \subseteq Nat

accountVars == <<account, session, token, authReq>>
formVars == <<formSession, ticket, intakeReq>>
parentVars == <<challenge, log, parent, otpReq>>

MCInit ==
  /\ part \in {"accounts", "forms", "parents"}
  /\ Init /\ Forms!Init /\ Parents!Init

MCNext ==
  /\ part' = part
  /\ \/ part = "accounts" /\ Next /\ UNCHANGED <<formVars, parentVars>>
     \/ part = "forms" /\ Forms!Next /\ UNCHANGED <<accountVars, parentVars>>
     \/ part = "parents" /\ Parents!Next /\ UNCHANGED <<accountVars, formVars>>

MCSpec == MCInit /\ [][MCNext]_<<part, load, accountVars, formVars, parentVars>>

WrongGuessesBounded == GuessesBounded /\ Forms!GuessesBounded /\ Parents!GuessesBounded
SpentOnce == Forms!TicketUsedOnce /\ Parents!OneTimeCodes
StatusHasContent == Forms!StatusHasContent
OtpMoves == Forms!OtpMoves

(* Two overlapping requests are about one session or challenge.            *)
MCLoad ==
  load = 2 =>
    /\ Cardinality(Forms!Made) <= 1
    /\ Cardinality({s \in Session : session[s] # Unmade}) <= 2
    /\ Cardinality(Parents!Made) <= 1

Symmetry == Permutations(FormSession) \cup Permutations(Ticket) \cup Permutations(Slot)
=============================================================================
