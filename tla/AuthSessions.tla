---------------------------- MODULE AuthSessions ----------------------------
(***************************************************************************)
(* Accounts with a password and their login sessions: AuthService          *)
(* (modules/auth/auth.service.ts) with the user administration of          *)
(* AdminService and PlatformService that ends sessions.                    *)
(*                                                                         *)
(* Each query is a step; $transaction is one.  A request keeps what it has *)
(* read in its slot.  load says how many requests may be in flight at once *)
(* in a behaviour, so that what is promised of requests that come one at a *)
(* time is stated next to what survives their overlap.                     *)
(*                                                                         *)
(* A password is only ever compared, so a login is right or wrong.  Rate   *)
(* limits, cookies, roles, the second factor's code and the audit log are  *)
(* left out; a token presented is one that was handed out.                 *)
(***************************************************************************)
EXTENDS Naturals, FiniteSets

CONSTANTS
  User, Session, Token, Slot,
  LockoutAfter,  \* LOCKOUT_AFTER_FAILED
  MaxLoad,
  MaxGuesses     \* wrong passwords are counted up to here

ASSUME LimitAssumption ==
  /\ LockoutAfter \in Nat \ {0} /\ MaxLoad \in Nat \ {0} /\ MaxGuesses \in Nat
  /\ "no session" \notin Session
  /\ IsFiniteSet(Slot) /\ IsFiniteSet(Session)

VARIABLES
  account,  \* User rows; failed counts up to LockoutAfter, all the code
            \* compares it with; guesses counts the wrong passwords since the count
            \* was last cleared or a lock passed (history)
  session,  \* AuthSession rows; evicted: an eviction met it (history)
  token,    \* PasswordResetToken rows; uses counts the resets made with it
  authReq,  \* the request in flight in each slot
  load

vars == <<account, session, token, authReq, load>>

----------------------------------------------------------------------------
NoSession == "no session"
Unmade == [state |-> "unmade"]

AccountRow ==
  [removed : BOOLEAN, failed : 0..LockoutAfter, locked : BOOLEAN,
   guesses : 0..MaxGuesses]
SessionRow ==
  {Unmade} \cup [state : {"open", "expired", "revoked"}, user : User,
                 from : Session \cup {NoSession}, evicted : BOOLEAN]
TokenRow ==
  {Unmade} \cup [state : {"valid", "expired"}, user : User, uses : Nat]

Idle == [op |-> "idle"]
Request ==
  {Idle}
  \cup [op : {"compare"}, user : User, right : BOOLEAN]
  \cup [op : {"failed"}, user : User, count : 0..LockoutAfter]
  \cup [op : {"scope", "issue"}, user : User, from : Session \cup {NoSession}]
  \cup [op : {"rotate"}, session : Session]
  \cup [op : {"reset"}, user : User, token : Token]
  \cup [op : {"token", "remove", "sweep", "restore"}, user : User]

Fresh(row, id) == row[id] = Unmade
Live(s) == session[s].state = "open"
OwnedBy(u, row, id) == row[id] # Unmade /\ row[id].user = u

Busy == {sl \in Slot : authReq[sl] # Idle}
Proceed(sl, q) == authReq' = [authReq EXCEPT ![sl] = q] /\ load' = load
Finish(sl) == Proceed(sl, Idle)
Enter(sl, q) == authReq[sl] = Idle /\ Cardinality(Busy) < load /\ Proceed(sl, q)
Rows == <<account, session, token>>

UpTo(n, most) == IF n > most THEN most ELSE n

(* updateMany where userId = u and revokedAt = null                        *)
EvictedAll(u) ==
  [s \in Session |->
     IF OwnedBy(u, session, s) THEN [session[s] EXCEPT !.state = "revoked", !.evicted = TRUE]
     ELSE session[s]]

----------------------------------------------------------------------------
(* login *)

(* fault: a locked account may still try *)
BeginLoginFaultNoLock(sl, u) ==
  /\ ~account[u].removed
  /\ \E right \in BOOLEAN : Enter(sl, [op |-> "compare", user |-> u, right |-> right])
  /\ UNCHANGED Rows

BeginLogin(sl, u) ==
  /\ ~account[u].removed /\ ~account[u].locked
  /\ \E right \in BOOLEAN : Enter(sl, [op |-> "compare", user |-> u, right |-> right])
  /\ UNCHANGED Rows

(* The wrong portal, or no second factor                                   *)
RefuseLogin(sl) ==
  /\ authReq[sl].op = "compare" /\ authReq[sl].right
  /\ Finish(sl)
  /\ UNCHANGED Rows

ClearFailures(sl) ==
  LET q == authReq[sl] IN
    /\ q.op = "compare" /\ q.right
    /\ account' = [account EXCEPT ![q.user].failed = 0, ![q.user].locked = FALSE,
                                  ![q.user].guesses = 0]
    /\ Proceed(sl, [op |-> "scope", user |-> q.user, from |-> NoSession])
    /\ UNCHANGED <<session, token>>

(* registerFailedLogin *)
ReadFailures(sl) ==
  LET q == authReq[sl] IN
    /\ q.op = "compare" /\ ~q.right
    /\ Proceed(sl, [op |-> "failed", user |-> q.user, count |-> account[q.user].failed])
    /\ UNCHANGED Rows

CountFailure(sl) ==
  LET q == authReq[sl] IN
    /\ q.op = "failed"
    /\ account' = [account EXCEPT ![q.user].failed = UpTo(q.count + 1, LockoutAfter),
                                  ![q.user].locked = q.count + 1 >= LockoutAfter,
                                  ![q.user].guesses = UpTo(@ + 1, MaxGuesses)]
    /\ Finish(sl)
    /\ UNCHANGED <<session, token>>

----------------------------------------------------------------------------
(* getUserScope and issueTokens, the end of login, refresh and reset *)
ReadScope(sl) ==
  LET q == authReq[sl] IN
    /\ q.op = "scope"
    /\ IF account[q.user].removed \/ account[q.user].locked
       THEN Finish(sl) ELSE Proceed(sl, [q EXCEPT !.op = "issue"])
    /\ UNCHANGED Rows

IssueTokens(sl) ==
  LET q == authReq[sl] IN
    /\ q.op = "issue"
    /\ \E s \in Session :
         /\ Fresh(session, s)
         /\ session' = [session EXCEPT ![s] =
              [state |-> "open", user |-> q.user, from |-> q.from, evicted |-> FALSE]]
    /\ Finish(sl)
    /\ UNCHANGED <<account, token>>

----------------------------------------------------------------------------
(* refreshToken *)

(* fault: a rotated session is good for another one *)
BeginRefreshFaultRotated(sl, s) ==
  /\ ~Fresh(session, s) /\ session[s].state # "expired"
  /\ Enter(sl, [op |-> "rotate", session |-> s])
  /\ UNCHANGED Rows

BeginRefresh(sl, s) ==
  /\ Live(s)
  /\ Enter(sl, [op |-> "rotate", session |-> s])
  /\ UNCHANGED Rows

(* fault: the session stays as it is *)
RotateFaultKept(sl) ==
  LET q == authReq[sl] IN
    /\ q.op = "rotate"
    /\ Proceed(sl, [op |-> "scope", user |-> session[q.session].user, from |-> q.session])
    /\ UNCHANGED Rows

Rotate(sl) ==
  LET q == authReq[sl] IN
    /\ q.op = "rotate"
    /\ session' = [session EXCEPT ![q.session].state = "revoked"]
    /\ Proceed(sl, [op |-> "scope", user |-> session[q.session].user, from |-> q.session])
    /\ UNCHANGED <<account, token>>

(* logout: one updateMany, on a session not revoked yet                    *)
Logout(s) ==
  /\ Cardinality(Busy) < load
  /\ session[s].state \in {"open", "expired"}
  /\ session' = [session EXCEPT ![s].state = "revoked", ![s].evicted = TRUE]
  /\ UNCHANGED <<account, token, authReq, load>>

----------------------------------------------------------------------------
(* forgotPassword and resetPassword *)
BeginForgot(sl, u) ==
  /\ ~account[u].removed
  /\ Enter(sl, [op |-> "token", user |-> u])
  /\ UNCHANGED Rows

CreateToken(sl) ==
  LET q == authReq[sl] IN
    /\ q.op = "token"
    /\ \E t \in Token :
         /\ Fresh(token, t)
         /\ token' = [token EXCEPT ![t] = [state |-> "valid", user |-> q.user, uses |-> 0]]
    /\ Finish(sl)
    /\ UNCHANGED <<account, session>>

(* fault: a token is good until it expires *)
BeginResetFaultUsed(sl, t) ==
  /\ token[t].state = "valid" /\ ~account[token[t].user].removed
  /\ Enter(sl, [op |-> "reset", user |-> token[t].user, token |-> t])
  /\ UNCHANGED Rows

BeginReset(sl, t) ==
  /\ token[t].state = "valid" /\ token[t].uses = 0 /\ ~account[token[t].user].removed
  /\ Enter(sl, [op |-> "reset", user |-> token[t].user, token |-> t])
  /\ UNCHANGED Rows

(* The transaction after bcrypt.hash                                       *)
CommitReset(sl) ==
  LET q == authReq[sl] IN
    /\ q.op = "reset"
    /\ account' = [account EXCEPT ![q.user].failed = 0, ![q.user].locked = FALSE,
                                  ![q.user].guesses = 0]
    /\ token' = [token EXCEPT ![q.token].uses = @ + 1]
    /\ session' = EvictedAll(q.user)
    /\ Proceed(sl, [op |-> "scope", user |-> q.user, from |-> NoSession])

----------------------------------------------------------------------------
(* AdminService.deleteUser: two statements; PlatformService.                *)
(* revokeUserSessions: the second one alone                                *)
BeginRemove(sl, u) ==
  /\ ~account[u].removed
  /\ \E op \in {"remove", "sweep"} : Enter(sl, [op |-> op, user |-> u])
  /\ UNCHANGED Rows

CommitRemove(sl) ==
  LET q == authReq[sl] IN
    /\ q.op = "remove"
    /\ account' = [account EXCEPT ![q.user].removed = TRUE]
    /\ Proceed(sl, [q EXCEPT !.op = "sweep"])
    /\ UNCHANGED <<session, token>>

SweepSessions(sl) ==
  LET q == authReq[sl] IN
    /\ q.op = "sweep"
    /\ session' = EvictedAll(q.user)
    /\ Finish(sl)
    /\ UNCHANGED <<account, token>>

(* createUser on a removed user, createSchoolUser on any that exists: the   *)
(* lock and the failures stay                                              *)
BeginRestore(sl, u) ==
  /\ Enter(sl, [op |-> "restore", user |-> u])
  /\ UNCHANGED Rows

CommitRestore(sl) ==
  LET q == authReq[sl] IN
    /\ q.op = "restore"
    /\ account' = [account EXCEPT ![q.user].removed = FALSE]
    /\ Finish(sl)
    /\ UNCHANGED <<session, token>>

----------------------------------------------------------------------------
(* Time passes; the process stops *)
SessionExpires(s) ==
  /\ Live(s)
  /\ session' = [session EXCEPT ![s].state = "expired"]
  /\ UNCHANGED <<account, token, authReq, load>>

TokenExpires(t) ==
  /\ token[t].state = "valid"
  /\ token' = [token EXCEPT ![t].state = "expired"]
  /\ UNCHANGED <<account, session, authReq, load>>

LockPasses(u) ==
  /\ account[u].locked
  /\ account' = [account EXCEPT ![u].locked = FALSE, ![u].guesses = 0]
  /\ UNCHANGED <<session, token, authReq, load>>

ProcessRestart ==
  /\ Busy # {}
  /\ authReq' = [sl \in Slot |-> Idle]
  /\ UNCHANGED <<account, session, token, load>>

Init ==
  /\ account = [u \in User |-> [removed |-> FALSE, failed |-> 0, locked |-> FALSE, guesses |-> 0]]
  /\ session = [s \in Session |-> Unmade]
  /\ token = [t \in Token |-> Unmade]
  /\ authReq = [sl \in Slot |-> Idle]
  /\ load \in 1..MaxLoad

Begin(sl) ==
  \/ \E u \in User : BeginLogin(sl, u) \/ BeginForgot(sl, u) \/ BeginRemove(sl, u) \/ BeginRestore(sl, u)
  \/ \E s \in Session : BeginRefresh(sl, s)
  \/ \E t \in Token : BeginReset(sl, t)

Step(sl) ==
  \/ RefuseLogin(sl) \/ ClearFailures(sl) \/ ReadFailures(sl) \/ CountFailure(sl)
  \/ ReadScope(sl) \/ IssueTokens(sl)
  \/ Rotate(sl)
  \/ CreateToken(sl) \/ CommitReset(sl)
  \/ CommitRemove(sl) \/ SweepSessions(sl) \/ CommitRestore(sl)

Next ==
  \/ \E sl \in Slot : Begin(sl) \/ Step(sl)
  \/ \E s \in Session : Logout(s) \/ SessionExpires(s)
  \/ \E t \in Token : TokenExpires(t)
  \/ \E u \in User : LockPasses(u)
  \/ ProcessRestart

Spec == Init /\ [][Next]_vars

----------------------------------------------------------------------------
(* Properties *)

TypeOK ==
  /\ account \in [User -> AccountRow]
  /\ session \in [Session -> SessionRow]
  /\ token \in [Token -> TokenRow]
  /\ authReq \in [Slot -> Request]
  /\ load \in 1..MaxLoad

SerialGuesses == LockoutAfter
OverlapGuesses == (LockoutAfter * (LockoutAfter + 3)) \div 2

(* Between two unlocked periods an account takes LockoutAfter wrong         *)
(* passwords.  An overlapping failure writes an older count back and lifts  *)
(* the lock, yet two in flight never get beyond the sum of the counts left. *)
GuessesBounded ==
  /\ load = 1 => \A u \in User : account[u].guesses <= SerialGuesses
  /\ load = 2 => \A u \in User : account[u].guesses <= OverlapGuesses

Renewed(s) == session[s] # Unmade /\ session[s].from # NoSession

(* Requests one at a time, with crashes in between: a refresh token buys one *)
(* session and a reset token sets one password, though refreshToken and     *)
(* resetPassword each check a token and spend it in two statements.        *)
OneTimeTokens ==
  load = 1 =>
    /\ \A s, t \in Session :
         Renewed(s) /\ Renewed(t) /\ session[s].from = session[t].from => s = t
    /\ \A t \in Token : token[t] # Unmade => token[t].uses <= 1

(* jwt.strategy.ts: logout, eviction and reset take effect immediately. No  *)
(* session is usable that was renewed from one they ended.                 *)
EvictionTakesEffect ==
  \A s \in Session : Live(s) /\ session[s].from # NoSession => ~session[session[s].from].evicted

(* The sessions as chains: one is being renewed while the request that      *)
(* rotated it has not issued its successor.                                *)
Renewing(s) == \E sl \in Slot : authReq[sl].op \in {"scope", "issue"} /\ authReq[sl].from = s
ChainOf ==
  [s \in Session |->
     IF session[s] = Unmade THEN [phase |-> "absent"]
     ELSE [user |-> session[s].user, from |-> session[s].from,
           phase |-> CASE Live(s)                                       -> "live"
                       [] session[s].state = "expired"                 -> "expired"
                       [] session[s].state = "revoked" /\ Renewing(s)  -> "renewing"
                       [] OTHER                                        -> "ended"]]

Chains == INSTANCE SessionChains WITH chain <- ChainOf

(* Requests that come one at a time implement the chains of SessionChains:  *)
(* one successor each, and none after an eviction.                         *)
ImplementsChains ==
  /\ Chains!Init
  /\ [][load = 1 => Chains!Next]_<<ChainOf, load>>
=============================================================================
