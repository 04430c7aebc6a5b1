--------------------------- MODULE IntakeSession ---------------------------
(***************************************************************************)
(* The session behind a public intake form: PublicIntakeService            *)
(* (modules/parent/public-intake.service.ts) from the one-time password to *)
(* the submission, and the photo tickets FaceIntelligenceService           *)
(* (common/services/face-intelligence.service.ts) keeps for it in memory.  *)
(* What a submission does to the student's record is in Intake.            *)
(*                                                                         *)
(* All sessions are of one intake link that stays open.  A code is only    *)
(* compared, so a guess is right or wrong; the rate limit on guesses, which *)
(* refuses some of them, is left out, as are the contents of drafts and    *)
(* photos.  load is the number of requests that may be in flight at once.  *)
(***************************************************************************)
EXTENDS Naturals, FiniteSets

CONSTANTS
  Mobile, Session, Ticket, Slot,
  MaxAttempts,    \* IntakeAuthSession.maxAttempts
  MaxLoad,
  MaxGuesses      \* wrong codes are counted up to here

LimitAssumption ==
  /\ MaxAttempts \in Nat \ {0} /\ MaxLoad \in Nat \ {0} /\ MaxGuesses \in Nat
  /\ "ANON" \notin Mobile
  /\ IsFiniteSet(Slot)

VARIABLES
  session,   \* IntakeAuthSession rows
  ticket,    \* the tickets in the process's map, and those that have left it
  intakeReq, \* the request in flight in each slot
  load

vars == <<session, ticket, intakeReq, load>>
Rows == <<session, ticket>>

----------------------------------------------------------------------------
OtpStatus == {"PENDING", "VERIFIED", "EXPIRED", "FAILED"}
SessionStatus == {"OTP_PENDING", "VERIFIED", "DRAFT", "SUBMITTED", "EXPIRED", "FAILED"}

(* opened: the client has a session token; late: expiresAt has passed;     *)
(* attempts counts up to MaxAttempts, with which alone it is compared;     *)
(* draft: draftPayloadJson is not null; submitted: a ParentSubmission names *)
(* the session; guesses: wrong codes since it was last verified (history). *)
Unmade == [status |-> "unmade"]
SessionRow ==
  {Unmade} \cup
  [mobile : Mobile \cup {"ANON"}, otp : OtpStatus, status : SessionStatus,
   attempts : 0..MaxAttempts, opened : BOOLEAN, late : BOOLEAN, draft : BOOLEAN, submitted : BOOLEAN,
   guesses : 0..MaxGuesses]

(* The part of a row that verifyOtp uses again; late: the expiresAt it read *)
(* has passed                                                              *)
Snapshot ==
  [otp : OtpStatus, status : SessionStatus, attempts : 0..MaxAttempts, late : BOOLEAN]
Read(s) ==
  [otp |-> session[s].otp, status |-> session[s].status, attempts |-> session[s].attempts,
   late |-> session[s].late]

NoTicket == [where |-> "unmade"]
TicketRow == {NoTicket} \cup [where : {"held", "gone"}, session : Session, uses : Nat]

Idle == [op |-> "idle"]
Request ==
  {Idle}
  \cup [op : {"start"}, mobile : Mobile]
  \cup [op : {"guess"}, session : Session, read : Snapshot]
  \cup [op : {"verified"}, session : Session]
  \cup [op : {"activate"}, session : Session, carried : BOOLEAN]
  \cup [op : {"draft", "photo", "submit", "record", "close", "expire"}, session : Session]

UpTo(n, most) == IF n > most THEN most ELSE n
Made == {s \in Session : session[s] # Unmade}

Busy == {sl \in Slot : intakeReq[sl] # Idle}
Proceed(sl, q) == intakeReq' = [intakeReq EXCEPT ![sl] = q] /\ load' = load
Finish(sl) == Proceed(sl, Idle)
Enter(sl, q) == intakeReq[sl] = Idle /\ Cardinality(Busy) < load /\ Proceed(sl, q)
GoOn(sl, op) == Proceed(sl, [op |-> op, session |-> intakeReq[sl].session])

(* One statement on the request's session, then the next step              *)
Update(sl, row, next) ==
  /\ session' = [session EXCEPT ![intakeReq[sl].session] = row]
  /\ Proceed(sl, next)
  /\ ticket' = ticket

----------------------------------------------------------------------------
(* startOtp and createAnonSession *)
NewSession(mobile, otp, status) ==
  [mobile |-> mobile, otp |-> otp, status |-> status, attempts |-> 0, late |-> FALSE,
   opened |-> otp = "VERIFIED", draft |-> FALSE, submitted |-> FALSE, guesses |-> 0]

BeginStart(sl) ==
  /\ \E m \in Mobile : Enter(sl, [op |-> "start", mobile |-> m])
  /\ UNCHANGED Rows

(* The limit on sends, or the provider, refuses                            *)
RefuseStart(sl) ==
  /\ intakeReq[sl].op = "start"
  /\ Finish(sl)
  /\ UNCHANGED Rows

CreateSession(sl) ==
  /\ intakeReq[sl].op = "start"
  /\ \E s \in Session \ Made :
       session' = [session EXCEPT ![s] = NewSession(intakeReq[sl].mobile, "PENDING", "OTP_PENDING")]
  /\ Finish(sl)
  /\ ticket' = ticket

CreateAnonSession ==
  /\ Cardinality(Busy) < load
  /\ \E s \in Session \ Made :
       session' = [session EXCEPT ![s] = NewSession("ANON", "VERIFIED", "VERIFIED")]
  /\ UNCHANGED <<ticket, intakeReq, load>>

----------------------------------------------------------------------------
(* verifyOtp, local or at the provider: the row is read once, and what it   *)
(* does not change of status and expiry it writes back.                    *)

(* fault: only the status is looked at, not the time *)
BeginVerifyFaultLate(sl, s) ==
  /\ session[s] # Unmade /\ session[s].mobile # "ANON"
  /\ Enter(sl, IF session[s].status = "EXPIRED"
               THEN [op |-> "expire", session |-> s]
               ELSE [op |-> "guess", session |-> s, read |-> Read(s)])
  /\ UNCHANGED Rows

BeginVerify(sl, s) ==
  /\ session[s] # Unmade /\ session[s].mobile # "ANON"
  /\ Enter(sl, IF session[s].late \/ session[s].status = "EXPIRED"
               THEN [op |-> "expire", session |-> s]
               ELSE [op |-> "guess", session |-> s, read |-> Read(s)])
  /\ UNCHANGED Rows

(* The provider no longer knows the code, or it is right                   *)
Compare(sl) ==
  /\ intakeReq[sl].op = "guess"
  /\ GoOn(sl, "expire") \/ GoOn(sl, "verified")
  /\ UNCHANGED Rows

(* fault: the session stays as it was when the attempts are used up *)
WrongGuessFaultNotFailed(sl) ==
  LET q == intakeReq[sl]  now == session[q.session] IN
    /\ q.op = "guess"
    /\ Update(sl, [now EXCEPT !.attempts = UpTo(q.read.attempts + 1, MaxAttempts),
                              !.guesses = UpTo(@ + 1, MaxGuesses)], Idle)

WrongGuess(sl) ==
  LET q == intakeReq[sl]
      now == session[q.session]
      attempts == q.read.attempts + 1
      last == attempts >= MaxAttempts IN
    /\ q.op = "guess"
    /\ Update(sl, [now EXCEPT !.attempts = UpTo(attempts, MaxAttempts),
                              !.otp = IF last THEN "FAILED" ELSE q.read.otp,
                              !.status = IF last THEN "FAILED" ELSE q.read.status,
                              !.late = last \/ q.read.late,
                              !.guesses = UpTo(@ + 1, MaxGuesses)], Idle)

(* A draft left in another session of the mobile that has not run out      *)
CarriedDraft(s) ==
  \E o \in Made \ {s} :
    /\ session[o].mobile = session[s].mobile
    /\ session[o].status = "DRAFT" /\ ~session[o].late /\ session[o].draft

FindDraft(sl) ==
  LET q == intakeReq[sl] IN
    /\ q.op = "verified"
    /\ Proceed(sl, [op |-> "activate", session |-> q.session, carried |-> CarriedDraft(q.session)])
    /\ UNCHANGED Rows

(* fault: a draft is resumed whether there is one or not *)
ActivateFaultAlwaysDraft(sl) ==
  LET q == intakeReq[sl] IN
    /\ q.op = "activate"
    /\ Update(sl, [session[q.session] EXCEPT !.otp = "VERIFIED", !.late = FALSE, !.opened = TRUE,
                     !.status = "DRAFT", !.draft = q.carried \/ @, !.guesses = 0], Idle)

Activate(sl) ==
  LET q == intakeReq[sl] IN
    /\ q.op = "activate"
    /\ Update(sl, [session[q.session] EXCEPT !.otp = "VERIFIED", !.late = FALSE, !.opened = TRUE,
                     !.status = IF q.carried THEN "DRAFT" ELSE "VERIFIED",
                     !.draft = q.carried \/ @, !.guesses = 0], Idle)

----------------------------------------------------------------------------
(* resolveVerifiedSession, in front of saveDraft, analyzePhoto and submit   *)
BeginAccess(sl, s) ==
  /\ session[s] # Unmade /\ session[s].opened
  /\ \E op \in {"draft", "photo", "submit"} :
       Enter(sl, [op |-> IF session[s].otp # "VERIFIED" \/ session[s].late
                            \/ session[s].status = "EXPIRED" THEN "expire" ELSE op,
                  session |-> s])
  /\ UNCHANGED Rows

(* Drafts not allowed, a photo that is no good, a form that is incomplete or *)
(* a duplicate                                                             *)
RefuseAccess(sl) ==
  /\ intakeReq[sl].op \in {"draft", "photo", "submit"}
  /\ Finish(sl)
  /\ UNCHANGED Rows

SaveDraft(sl) ==
  /\ intakeReq[sl].op = "draft"
  /\ Update(sl, [session[intakeReq[sl].session] EXCEPT !.draft = TRUE, !.status = "DRAFT"], Idle)

(* createPublicAnalysisTicket *)
IssueTicket(sl) ==
  /\ intakeReq[sl].op = "photo"
  /\ \E k \in Ticket :
       /\ ticket[k] = NoTicket
       /\ ticket' = [ticket EXCEPT ![k] = [where |-> "held", session |-> intakeReq[sl].session,
                                          uses |-> 0]]
  /\ Finish(sl)
  /\ session' = session

(* fault: the ticket stays in the map *)
TakePhotoFaultKept(sl) ==
  LET q == intakeReq[sl] IN
    /\ q.op = "submit"
    /\ GoOn(sl, "record")
    /\ ticket' \in {ticket} \cup
         {[ticket EXCEPT ![k].uses = @ + 1] :
            k \in {k \in Ticket : ticket[k].where = "held" /\ ticket[k].session = q.session}}
    /\ session' = session

(* fault: the session is closed before the submission is stored *)
TakePhotoFaultClosesFirst(sl) ==
  LET q == intakeReq[sl] IN
    /\ q.op = "submit"
    /\ Update(sl, [session[q.session] EXCEPT !.status = "SUBMITTED", !.draft = FALSE],
              [op |-> "record", session |-> q.session])

(* consumePublicAnalysisTicket, which does not await, or processPhoto       *)
TakePhoto(sl) ==
  LET q == intakeReq[sl] IN
    /\ q.op = "submit"
    /\ GoOn(sl, "record")
    /\ ticket' \in {ticket} \cup
         {[ticket EXCEPT ![k].where = "gone", ![k].uses = @ + 1] :
            k \in {k \in Ticket : ticket[k].where = "held" /\ ticket[k].session = q.session}}
    /\ session' = session

(* parentSubmission.create, after the record of the student or of a member  *)
(* of staff has been written                                               *)
CreateSubmission(sl) ==
  LET q == intakeReq[sl] IN
    /\ q.op = "record"
    /\ Update(sl, [session[q.session] EXCEPT !.submitted = TRUE],
              [op |-> "close", session |-> q.session])

CloseSession(sl) ==
  /\ intakeReq[sl].op = "close"
  /\ Update(sl, [session[intakeReq[sl].session] EXCEPT !.status = "SUBMITTED", !.draft = FALSE], Idle)

ExpireSession(sl) ==
  LET row == session[intakeReq[sl].session] IN
    /\ intakeReq[sl].op = "expire"
    /\ Update(sl, IF row.status = "SUBMITTED" THEN row
                  ELSE [row EXCEPT !.otp = "EXPIRED", !.status = "EXPIRED", !.late = TRUE], Idle)

----------------------------------------------------------------------------
(* expiresAt passes, and any earlier one a guess has read;                 *)
(* cleanupExpiredTickets; the map is gone with the process                 *)
SessionRunsOut(s) ==
  /\ session[s] # Unmade /\ ~session[s].late
  /\ session' = [session EXCEPT ![s].late = TRUE]
  /\ intakeReq' = [sl \in Slot |->
       IF intakeReq[sl].op = "guess" /\ intakeReq[sl].session = s
       THEN [intakeReq[sl] EXCEPT !.read.late = TRUE] ELSE intakeReq[sl]]
  /\ UNCHANGED <<ticket, load>>

TicketRunsOut(k) ==
  /\ ticket[k].where = "held"
  /\ ticket' = [ticket EXCEPT ![k].where = "gone"]
  /\ UNCHANGED <<session, intakeReq, load>>

ProcessRestart ==
  /\ Busy # {}
  /\ intakeReq' = [sl \in Slot |-> Idle]
  /\ ticket' = [k \in Ticket |->
       IF ticket[k] = NoTicket THEN NoTicket ELSE [ticket[k] EXCEPT !.where = "gone"]]
  /\ UNCHANGED <<session, load>>

Init ==
  /\ session = [s \in Session |-> Unmade]
  /\ ticket = [k \in Ticket |-> NoTicket]
  /\ intakeReq = [sl \in Slot |-> Idle]
  /\ load \in 1..MaxLoad

Begin(sl) ==
  \/ BeginStart(sl)
  \/ \E s \in Session : BeginVerify(sl, s) \/ BeginAccess(sl, s)

Step(sl) ==
  \/ RefuseStart(sl) \/ CreateSession(sl)
  \/ Compare(sl) \/ WrongGuess(sl) \/ FindDraft(sl) \/ Activate(sl)
  \/ RefuseAccess(sl) \/ SaveDraft(sl) \/ IssueTicket(sl)
  \/ TakePhoto(sl) \/ CreateSubmission(sl) \/ CloseSession(sl)
  \/ ExpireSession(sl)

Next ==
  \/ \E sl \in Slot : Begin(sl) \/ Step(sl)
  \/ CreateAnonSession
  \/ \E s \in Session : SessionRunsOut(s)
  \/ \E k \in Ticket : TicketRunsOut(k)
  \/ ProcessRestart

Spec == Init /\ [][Next]_vars

----------------------------------------------------------------------------
(* Properties *)

TypeOK ==
  /\ session \in [Session -> SessionRow]
  /\ ticket \in [Ticket -> TicketRow]
  /\ intakeReq \in [Slot -> Request]
  /\ load \in 1..MaxLoad

(* A session takes maxAttempts wrong codes before it fails for good.  An    *)
(* overlapping guess writes an older count, status and expiry back; two in *)
(* flight still end after the sum of the attempts left.                    *)
GuessesBounded ==
  \A s \in Made :
    session[s].guesses <= CASE load = 1 -> MaxAttempts
                            [] load = 2 -> (MaxAttempts * (MaxAttempts + 3)) \div 2
                            [] OTHER    -> MaxGuesses

(* A photo analysis goes into one submission, however many overlap.         *)
TicketUsedOnce == \A k \in Ticket : ticket[k] # NoTicket => ticket[k].uses <= 1

(* A session shown as SUBMITTED has its ParentSubmission, also when a crash *)
(* or a guess with an old row gets in between; and, requests one at a time, *)
(* a session in DRAFT has a draft to resume.                               *)
StatusHasContent ==
  \A s \in Made :
    /\ session[s].status = "SUBMITTED" => session[s].submitted
    /\ load = 1 /\ session[s].status = "DRAFT" => session[s].draft

(* Requests one at a time: what has expired is never verified again, a      *)
(* failed session only expires, and a verified one is lost to time or to   *)
(* the last wrong code alone.                                              *)
OtpMove(r, n) ==
  r.otp # n.otp =>
    CASE r.otp = "PENDING"   -> TRUE
      [] r.otp = "VERIFIED"  -> r.late \/ n.attempts = MaxAttempts \/ n.otp = "EXPIRED"
      [] r.otp = "FAILED"    -> n.otp = "EXPIRED"
      [] r.otp = "EXPIRED"   -> FALSE
OtpMoves ==
  [][load = 1 => \A s \in Made : OtpMove(session[s], session'[s])]_<<session, load>>
=============================================================================
