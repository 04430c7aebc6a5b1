----------------------------- MODULE ParentOtp -----------------------------
(***************************************************************************)
(* Parents sign in with a code sent to their mobile: sendParentOtp and      *)
(* verifyParentOtp of AuthService (modules/auth/auth.service.ts).  The rows *)
(* are those of one mobile; those of another are never touched.            *)
(*                                                                         *)
(* A code is only compared, here or at the provider, so it is right, wrong  *)
(* or no longer known.  The limits per address, which refuse some more, are *)
(* left out, as is the profile of the parent.                              *)
(***************************************************************************)
EXTENDS Naturals, Sequences, FiniteSets

CONSTANTS
  Challenge, Slot,
  MaxAttempts,   \* OtpChallenge.maxAttempts
  SendLimit,     \* OTP_SEND_LIMIT
  VerifyLimit,   \* OTP_VERIFY_LIMIT
  MaxLog,        \* bound on the failures in the audit log
  MaxLoad        \* how many requests are in flight at most

VARIABLES
  load,       \* how many requests overlap at most
  challenge,  \* OtpChallenge rows
  log,        \* the failures of the last OTP_WINDOW_MS in the audit log
  parent,     \* the User row of the mobile
  otpReq      \* the request in flight in each slot

vars == <<load, challenge, log, parent, otpReq>>
Rows == <<challenge, log, parent>>

----------------------------------------------------------------------------
(* at: the place in the order of createdAt; recent: within OTP_WINDOW_MS;   *)
(* late: expiresAt has passed; guesses and logins count the wrong codes and *)
(* the sign-ins it was good for (history).                                 *)
Unmade == [at |-> 0]
ChallengeRow ==
  [at : Nat \ {0}, used : BOOLEAN, recent : BOOLEAN, late : BOOLEAN, attempts : 0..MaxAttempts,
   guesses : Nat, logins : Nat]
Outcome == {"OTP_VERIFY_FAILED", "OTP_VERIFY_RATE_LIMITED"}
Idle == [op |-> "idle"]

Made == {c \in Challenge : challenge[c] # Unmade}
Open == {c \in Made : ~challenge[c].used}
Busy == {sl \in Slot : otpReq[sl] # Idle}

Proceed(sl, q) == otpReq' = [otpReq EXCEPT ![sl] = q] /\ load' = load
Enter(sl, q) == sl \notin Busy /\ Cardinality(Busy) < load /\ Proceed(sl, q) /\ UNCHANGED Rows
Fail(sl) == Proceed(sl, [op |-> "log", outcome |-> "OTP_VERIFY_FAILED"])
GoOn(sl, op) == Proceed(sl, [op |-> op, challenge |-> otpReq[sl].challenge])
Update(sl, row) ==
  /\ challenge' = [challenge EXCEPT ![otpReq[sl].challenge] = row]
  /\ UNCHANGED <<log, parent>>

----------------------------------------------------------------------------
(* sendParentOtp *)
BeginSend(sl) ==
  /\ Cardinality({c \in Made : challenge[c].recent}) < SendLimit
  /\ Enter(sl, [op |-> "send"])

(* The provider may refuse.  The transaction consumes the challenges its    *)
(* first statement sees.                                                   *)
SendCode(sl) ==
  /\ otpReq[sl].op = "send"
  /\ \/ Proceed(sl, Idle)
     \/ Proceed(sl, [op |-> "store", old |-> Open])
  /\ UNCHANGED Rows

StoreChallenge(sl) ==
  LET q == otpReq[sl] IN
    /\ q.op = "store"
    /\ \E c \in Challenge \ Made :
         challenge' = [o \in Challenge |->
           CASE o = c      -> [at |-> Cardinality(Made) + 1, used |-> FALSE, recent |-> TRUE,
                               late |-> FALSE, attempts |-> 0, guesses |-> 0, logins |-> 0]
             [] o \in q.old -> [challenge[o] EXCEPT !.used = TRUE]
             [] OTHER      -> challenge[o]]
    /\ Proceed(sl, Idle)
    /\ UNCHANGED <<log, parent>>

----------------------------------------------------------------------------
(* verifyParentOtp *)

(* fault: the failures of the window are not counted *)
BeginVerifyFaultNoLimit(sl) == Enter(sl, [op |-> "find"])

BeginVerify(sl) ==
  Enter(sl, IF Len(log) < VerifyLimit
            THEN [op |-> "find"] ELSE [op |-> "log", outcome |-> "OTP_VERIFY_RATE_LIMITED"])

LogFailure(sl) ==
  /\ otpReq[sl].op = "log"
  /\ Len(log) < MaxLog
  /\ log' = Append(log, otpReq[sl].outcome)
  /\ Proceed(sl, Idle)
  /\ UNCHANGED <<challenge, parent>>

Newest(c) == \A o \in Open : challenge[o].at <= challenge[c].at

FindChallenge(sl) ==
  /\ otpReq[sl].op = "find"
  /\ \/ Open = {} /\ Fail(sl)
     \/ \E c \in Open :
          /\ Newest(c)
          /\ Proceed(sl, IF challenge[c].late
                         THEN [op |-> "expire", challenge |-> c]
                         ELSE [op |-> "compare", challenge |-> c, attempts |-> challenge[c].attempts])
  /\ UNCHANGED Rows

CompareCode(sl) ==
  /\ otpReq[sl].op = "compare"
  /\ GoOn(sl, "expire") \/ GoOn(sl, "consume")
  /\ UNCHANGED Rows

ExpireChallenge(sl) ==
  /\ otpReq[sl].op = "expire"
  /\ Update(sl, [challenge[otpReq[sl].challenge] EXCEPT !.used = TRUE])
  /\ Fail(sl)

WrongCode(sl) ==
  LET q == otpReq[sl]
      now == challenge[q.challenge] IN
    /\ q.op = "compare"
    /\ Update(sl, [now EXCEPT !.attempts = q.attempts + 1,
                              !.used = @ \/ q.attempts + 1 >= MaxAttempts,
                              !.guesses = @ + 1])
    /\ Fail(sl)

(* fault: the challenge is not consumed *)
ConsumeFaultKept(sl) ==
  /\ otpReq[sl].op = "consume"
  /\ GoOn(sl, "user")
  /\ UNCHANGED Rows

Consume(sl) ==
  /\ otpReq[sl].op = "consume"
  /\ Update(sl, [challenge[otpReq[sl].challenge] EXCEPT !.used = TRUE])
  /\ GoOn(sl, "user")

(* The user is created or made active; a removed one stays removed.         *)
FindUser(sl) ==
  /\ otpReq[sl].op = "user"
  /\ GoOn(sl, IF parent = "none" THEN "create" ELSE "issue")
  /\ UNCHANGED Rows

(* The index on the e-mail lets one of two creations through.              *)
CreateUser(sl) ==
  /\ otpReq[sl].op = "create"
  /\ IF parent = "none"
     THEN parent' = "active" /\ GoOn(sl, "issue")
     ELSE parent' = parent /\ Proceed(sl, Idle)
  /\ UNCHANGED <<challenge, log>>

(* getUserScope refuses a removed user; then issueTokens                   *)
SignIn(sl) ==
  /\ otpReq[sl].op = "issue"
  /\ Update(sl, IF parent = "removed" THEN challenge[otpReq[sl].challenge]
                ELSE [challenge[otpReq[sl].challenge] EXCEPT !.logins = @ + 1])
  /\ Proceed(sl, Idle)

----------------------------------------------------------------------------
(* AdminService.deleteUser; time passes; the process stops                 *)
RemoveUser ==
  /\ parent = "active" /\ Cardinality(Busy) < load
  /\ parent' = "removed"
  /\ UNCHANGED <<load, challenge, log, otpReq>>

ChallengeExpires(c) ==
  /\ c \in Made /\ ~challenge[c].late
  /\ challenge' = [challenge EXCEPT ![c].late = TRUE]
  /\ UNCHANGED <<load, log, parent, otpReq>>

ChallengeAges(c) ==
  /\ c \in Made /\ challenge[c].late /\ challenge[c].recent
  /\ challenge' = [challenge EXCEPT ![c].recent = FALSE]
  /\ UNCHANGED <<load, log, parent, otpReq>>

LogAges ==
  /\ log # <<>>
  /\ log' = Tail(log)
  /\ UNCHANGED <<load, challenge, parent, otpReq>>

ProcessRestart ==
  /\ Busy # {}
  /\ otpReq' = [sl \in Slot |-> Idle]
  /\ UNCHANGED <<load, Rows>>

Init ==
  /\ load \in 1..MaxLoad
  /\ challenge = [c \in Challenge |-> Unmade]
  /\ log = <<>>
  /\ parent = "none"
  /\ otpReq = [sl \in Slot |-> Idle]

Step(sl) ==
  \/ BeginSend(sl) \/ SendCode(sl) \/ StoreChallenge(sl)
  \/ BeginVerify(sl) \/ LogFailure(sl) \/ FindChallenge(sl)
  \/ CompareCode(sl) \/ ExpireChallenge(sl) \/ WrongCode(sl) \/ Consume(sl)
  \/ FindUser(sl) \/ CreateUser(sl) \/ SignIn(sl)

Next ==
  \/ \E sl \in Slot : Step(sl)
  \/ RemoveUser
  \/ \E c \in Challenge : ChallengeExpires(c) \/ ChallengeAges(c)
  \/ LogAges
  \/ ProcessRestart

Spec == Init /\ [][Next]_vars

----------------------------------------------------------------------------
(* Properties *)

(* The rows have the columns of the schema.                                *)
TypeOK ==
  /\ load \in 1..MaxLoad
  /\ challenge \in [Challenge -> ChallengeRow \cup {Unmade}]
  /\ log \in Seq(Outcome)
  /\ parent \in {"none", "active", "removed"}

(* A challenge takes MaxAttempts wrong codes, more when guesses with old    *)
(* counts overlap; and a window takes VerifyLimit failures of any kind, one *)
(* more for each further request that overlaps.                            *)
GuessesBounded ==
  /\ \A c \in Made :
       /\ load = 1 => challenge[c].guesses <= MaxAttempts
       /\ load = 2 => challenge[c].guesses <= (MaxAttempts * (MaxAttempts + 3)) \div 2
  /\ Cardinality({i \in DOMAIN log : log[i] = "OTP_VERIFY_FAILED"}) <= VerifyLimit + load - 1

(* Requests one at a time: a mobile has one challenge open, and each is     *)
(* good for one sign-in.                                                   *)
OneTimeCodes ==
  load = 1 => Cardinality(Open) <= 1 /\ \A c \in Made : challenge[c].logins <= 1
=============================================================================
