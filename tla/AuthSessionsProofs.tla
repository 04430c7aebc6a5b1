------------------------- MODULE AuthSessionsProofs -------------------------
(***************************************************************************)
(* Proofs about the login sessions, and about the three kinds of session   *)
(* MCSessions puts side by side.                                           *)
(*                                                                         *)
(* AuthSessions, for any users, sessions, tokens and slots: the type       *)
(* invariant whatever overlaps; and, for requests that come one at a time  *)
(* with crashes between their steps, that tokens are spent once and that   *)
(* the sessions implement the chains of SessionChains.                     *)
(*                                                                         *)
(* MCSessions, for any constants: how many wrong guesses a row can count   *)
(* when several requests have read it before any writes it, that tickets   *)
(* and codes are spent once, that the status of a form's session tells     *)
(* what it contains, and which way that status moves.                      *)
(***************************************************************************)
EXTENDS MCSessions, FiniteSetTheorems, Sequences, TLAPS

(* The rows a request has read are still there when it writes them.        *)
RowsMade ==
  \A sl \in Slot :
    /\ authReq[sl].op = "rotate" => session[authReq[sl].session] # Unmade
    /\ authReq[sl].op = "reset" => token[authReq[sl].token] # Unmade

TypeInv == TypeOK /\ RowsMade

----------------------------------------------------------------------------
(* Shapes of requests and rows *)
Compared(q) == q \in [op : {"compare"}, user : User, right : BOOLEAN]
Failed(q) == q \in [op : {"failed"}, user : User, count : 0..LockoutAfter]
Issued(q) == q \in [op : {"scope", "issue"}, user : User, from : Session \cup {NoSession}]
Rotated(q) == q \in [op : {"rotate"}, session : Session]
Resetting(q) == q \in [op : {"reset"}, user : User, token : Token]
AboutUser(q) == q \in [op : {"token", "remove", "sweep", "restore"}, user : User]

LEMMA Shapes ==
  ASSUME TypeOK, NEW sl \in Slot
  PROVE  /\ authReq[sl].op = "compare" => Compared(authReq[sl])
         /\ authReq[sl].op = "failed" => Failed(authReq[sl])
         /\ authReq[sl].op \in {"scope", "issue"} => Issued(authReq[sl])
         /\ authReq[sl].op = "rotate" => Rotated(authReq[sl])
         /\ authReq[sl].op = "reset" => Resetting(authReq[sl])
         /\ authReq[sl].op \in {"token", "remove", "sweep", "restore"} => AboutUser(authReq[sl])
BY DEF TypeOK, Request, Idle, Compared, Failed, Issued, Rotated, Resetting, AboutUser

LEMMA RequestKinds ==
  ASSUME NEW q
  PROVE  /\ Compared(q) \/ Failed(q) \/ Issued(q) \/ Rotated(q) \/ Resetting(q) \/ AboutUser(q)
              => q \in Request
         /\ Idle \in Request
BY DEF Request, Compared, Failed, Issued, Rotated, Resetting, AboutUser

(* What Proceed does to the slots                                          *)
LEMMA ProceedType ==
  ASSUME TypeOK, NEW sl \in Slot, NEW q \in Request, Proceed(sl, q)
  PROVE  /\ authReq' \in [Slot -> Request] /\ load' \in 1..MaxLoad
         /\ authReq'[sl] = q
         /\ \A o \in Slot : o # sl => authReq'[o] = authReq[o]
BY DEF TypeOK, Proceed

LEMMA MadeSession ==
  ASSUME TypeOK, NEW s \in Session, session[s] # Unmade
  PROVE  session[s] \in [state : {"open", "expired", "revoked"}, user : User,
                         from : Session \cup {NoSession}, evicted : BOOLEAN]
BY DEF TypeOK, SessionRow

LEMMA LiveSession ==
  ASSUME TypeOK, NEW s \in Session, session[s].state \in {"open", "expired", "revoked"}
  PROVE  session[s] # Unmade
BY DEF Unmade

LEMMA MadeToken ==
  ASSUME TypeOK, NEW t \in Token, token[t] # Unmade
  PROVE  token[t] \in [state : {"valid", "expired"}, user : User, uses : Nat]
BY DEF TypeOK, TokenRow

LEMMA UpToBound ==
  ASSUME NEW most \in Nat, NEW n \in Nat
  PROVE  UpTo(n, most) \in 0..most
BY DEF UpTo

LEMMA Limits ==
  LockoutAfter \in Nat /\ LockoutAfter > 0 /\ MaxGuesses \in Nat /\ MaxLoad \in Nat
<1>1. LockoutAfter \in Nat \ {0} /\ MaxGuesses \in Nat /\ MaxLoad \in Nat \ {0}
  BY LimitAssumption
<1> QED
  BY <1>1

(* The failures of an account are cleared.                                 *)
LEMMA ClearedType ==
  ASSUME TypeOK, NEW u \in User,
         account' = [account EXCEPT ![u].failed = 0, ![u].locked = FALSE, ![u].guesses = 0]
  PROVE  account' \in [User -> AccountRow]
<1>1. 0 \in 0..LockoutAfter /\ 0 \in 0..MaxGuesses
  BY Limits
<1>2. [account[u] EXCEPT !.failed = 0, !.locked = FALSE, !.guesses = 0] \in AccountRow
  BY <1>1 DEF TypeOK, AccountRow
<1>3. account' = [account EXCEPT ![u] =
                    [account[u] EXCEPT !.failed = 0, !.locked = FALSE, !.guesses = 0]]
  OBVIOUS
<1> QED
  BY <1>2, <1>3 DEF TypeOK

(* A session once made stays made, and so does a token.                    *)
LEMMA EvictedType ==
  ASSUME TypeOK, NEW u \in User
  PROVE  /\ EvictedAll(u) \in [Session -> SessionRow]
         /\ \A s \in Session : session[s] # Unmade => EvictedAll(u)[s] # Unmade
<1>1. ASSUME NEW s \in Session
      PROVE  EvictedAll(u)[s] \in SessionRow /\ (session[s] # Unmade => EvictedAll(u)[s] # Unmade)
  <2>1. CASE OwnedBy(u, session, s)
    <3>1. session[s] # Unmade
      BY <2>1 DEF OwnedBy
    <3>2. EvictedAll(u)[s] = [session[s] EXCEPT !.state = "revoked", !.evicted = TRUE]
      BY <1>1, <2>1 DEF EvictedAll
    <3> QED
      BY <1>1, <3>1, <3>2, MadeSession DEF SessionRow, Unmade
  <2>2. CASE ~OwnedBy(u, session, s)
    BY <1>1, <2>2 DEF EvictedAll, TypeOK
  <2> QED
    BY <2>1, <2>2
<1> QED
  BY <1>1 DEF EvictedAll

----------------------------------------------------------------------------
(* Type correctness: one lemma for a step of a slot, one for the others    *)
MadeStays ==
  /\ \A s \in Session : session[s] # Unmade => session'[s] # Unmade
  /\ \A t \in Token : token[t] # Unmade => token'[t] # Unmade

RowsTyped ==
  /\ account' \in [User -> AccountRow]
  /\ session' \in [Session -> SessionRow]
  /\ token' \in [Token -> TokenRow]

Fits(q) ==
  /\ q.op = "rotate" => session[q.session] # Unmade
  /\ q.op = "reset" => token[q.token] # Unmade

LEMMA SlotStep ==
  ASSUME TypeInv, RowsTyped, MadeStays, NEW sl \in Slot, NEW q \in Request, Proceed(sl, q), Fits(q)
  PROVE  TypeInv'
<1>1. TypeOK'
  BY ProceedType DEF TypeInv, TypeOK, RowsTyped
<1>2. RowsMade'
  <2> SUFFICES ASSUME NEW o \in Slot
      PROVE  /\ authReq'[o].op = "rotate" => session'[authReq'[o].session] # Unmade
             /\ authReq'[o].op = "reset" => token'[authReq'[o].token] # Unmade
    BY DEF RowsMade
  <2>0. Fits(authReq'[o])
    <3>1. CASE o = sl
      BY <3>1, ProceedType DEF TypeInv
    <3>2. CASE o # sl
      BY <3>2, ProceedType DEF TypeInv, RowsMade, Fits
    <3> QED
      BY <3>1, <3>2
  <2>1. ASSUME authReq'[o].op = "rotate"
        PROVE  authReq'[o].session \in Session
    BY <1>1, <2>1 DEF TypeOK, Request, Idle
  <2>2. ASSUME authReq'[o].op = "reset"
        PROVE  authReq'[o].token \in Token
    BY <1>1, <2>2 DEF TypeOK, Request, Idle
  <2> QED
    BY <2>0, <2>1, <2>2 DEF Fits, MadeStays
<1> QED
  BY <1>1, <1>2 DEF TypeInv

LEMMA RowStep ==
  ASSUME TypeInv, RowsTyped, MadeStays, UNCHANGED <<authReq, load>>
  PROVE  TypeInv'
<1>1. \A o \in Slot : authReq[o].op = "rotate" => authReq[o].session \in Session
  BY Shapes DEF TypeInv, Rotated
<1>2. \A o \in Slot : authReq[o].op = "reset" => authReq[o].token \in Token
  BY Shapes DEF TypeInv, Resetting
<1> QED
  BY <1>1, <1>2 DEF TypeInv, TypeOK, RowsMade, RowsTyped, MadeStays

(* A step that only reads                                                  *)
LEMMA ReadStep ==
  ASSUME TypeInv, UNCHANGED Rows, NEW sl \in Slot, NEW q \in Request, Proceed(sl, q), Fits(q)
  PROVE  TypeInv'
<1>1. RowsTyped /\ MadeStays
  BY DEF TypeInv, TypeOK, Rows, RowsTyped, MadeStays
<1> QED
  BY <1>1, SlotStep

LEMMA FinishFits == Idle \in Request /\ Fits(Idle)
BY DEF Request, Fits, Idle

LEMMA BeginType ==
  ASSUME TypeInv, NEW sl \in Slot, Begin(sl)
  PROVE  TypeInv'
<1>1. ASSUME NEW u \in User, BeginLogin(sl, u)
      PROVE  TypeInv'
  <2>1. PICK right \in BOOLEAN : Proceed(sl, [op |-> "compare", user |-> u, right |-> right])
    BY <1>1 DEF BeginLogin, Enter
  <2>2. /\ [op |-> "compare", user |-> u, right |-> right] \in Request
        /\ Fits([op |-> "compare", user |-> u, right |-> right])
    BY DEF Request, Fits
  <2> QED
    BY <1>1, <2>1, <2>2, ReadStep DEF BeginLogin
<1>2. ASSUME NEW u \in User, NEW op \in {"token", "remove", "sweep", "restore"}, UNCHANGED Rows,
             Proceed(sl, [op |-> op, user |-> u])
      PROVE  TypeInv'
  <2>1. [op |-> op, user |-> u] \in Request /\ Fits([op |-> op, user |-> u])
    BY DEF Request, Fits
  <2> QED
    BY <1>2, <2>1, ReadStep
<1>3. ASSUME NEW u \in User, BeginForgot(sl, u) \/ BeginRemove(sl, u) \/ BeginRestore(sl, u)
      PROVE  TypeInv'
  BY <1>2, <1>3 DEF BeginForgot, BeginRemove, BeginRestore, Enter
<1>4. ASSUME NEW s \in Session, BeginRefresh(sl, s)
      PROVE  TypeInv'
  <2>1. session[s] # Unmade
    BY <1>4 DEF BeginRefresh, Live, Unmade
  <2>2. /\ [op |-> "rotate", session |-> s] \in Request
        /\ Fits([op |-> "rotate", session |-> s])
    BY <2>1 DEF Request, Fits
  <2> QED
    BY <1>4, <2>2, ReadStep DEF BeginRefresh, Enter
<1>5. ASSUME NEW t \in Token, BeginReset(sl, t)
      PROVE  TypeInv'
  <2>1. token[t] # Unmade
    BY <1>5 DEF BeginReset, Unmade
  <2>2. token[t].user \in User
    BY <2>1, MadeToken DEF TypeInv
  <2>3. /\ [op |-> "reset", user |-> token[t].user, token |-> t] \in Request
        /\ Fits([op |-> "reset", user |-> token[t].user, token |-> t])
    BY <2>1, <2>2 DEF Request, Fits
  <2> QED
    BY <1>5, <2>3, ReadStep DEF BeginReset, Enter
<1> QED
  BY <1>1, <1>3, <1>4, <1>5 DEF Begin

(* A request that has the user's scope to read next                        *)
LEMMA ScopeFits ==
  ASSUME NEW u \in User, NEW op \in {"scope", "issue"}, NEW from \in Session \cup {NoSession}
  PROVE  /\ [op |-> op, user |-> u, from |-> from] \in Request
         /\ Fits([op |-> op, user |-> u, from |-> from])
BY DEF Request, Fits

LEMMA LoginType ==
  ASSUME TypeInv, NEW sl \in Slot,
         RefuseLogin(sl) \/ ClearFailures(sl) \/ ReadFailures(sl) \/ CountFailure(sl)
  PROVE  TypeInv'
<1> USE DEF TypeInv
<1> DEFINE q == authReq[sl]
<1>1. CASE RefuseLogin(sl)
  BY <1>1, ReadStep, FinishFits DEF RefuseLogin, Finish
<1>2. CASE ClearFailures(sl)
  <2>1. q.user \in User
    BY <1>2, Shapes DEF ClearFailures, Compared
  <2>2. RowsTyped /\ MadeStays
    BY <1>2, <2>1, ClearedType DEF ClearFailures, TypeOK, RowsTyped, MadeStays
  <2>3. Proceed(sl, [op |-> "scope", user |-> q.user, from |-> NoSession])
    BY <1>2 DEF ClearFailures
  <2> QED
    BY <2>1, <2>2, <2>3, ScopeFits, SlotStep
<1>3. CASE ReadFailures(sl)
  <2>1. q.user \in User
    BY <1>3, Shapes DEF ReadFailures, Compared
  <2>2. account[q.user].failed \in 0..LockoutAfter
    BY <2>1 DEF TypeOK, AccountRow
  <2>3. /\ [op |-> "failed", user |-> q.user, count |-> account[q.user].failed] \in Request
        /\ Fits([op |-> "failed", user |-> q.user, count |-> account[q.user].failed])
    BY <2>1, <2>2 DEF Request, Fits
  <2> QED
    BY <1>3, <2>3, ReadStep DEF ReadFailures
<1>4. CASE CountFailure(sl)
  <2>1. q.user \in User /\ q.count \in 0..LockoutAfter
    BY <1>4, Shapes DEF CountFailure, Failed
  <2>2. /\ UpTo(q.count + 1, LockoutAfter) \in 0..LockoutAfter
        /\ UpTo(account[q.user].guesses + 1, MaxGuesses) \in 0..MaxGuesses
    <3>1. account[q.user].guesses \in 0..MaxGuesses
      BY <2>1 DEF TypeOK, AccountRow
    <3>2. q.count + 1 \in Nat /\ account[q.user].guesses + 1 \in Nat
      BY <2>1, <3>1, Limits
    <3> QED
      BY <3>2, UpToBound, Limits
  <2>3. account' \in [User -> AccountRow]
    <3> DEFINE count == UpTo(q.count + 1, LockoutAfter)
               guesses == UpTo(account[q.user].guesses + 1, MaxGuesses)
               row(locked) ==
                 [account[q.user] EXCEPT !.failed = count, !.locked = locked, !.guesses = guesses]
    <3> HIDE DEF count, guesses
    <3>1. \A locked \in BOOLEAN : row(locked) \in AccountRow
      BY <2>1, <2>2 DEF TypeOK, AccountRow, count, guesses
    <3>2. account' = [account EXCEPT ![q.user] = row(q.count + 1 >= LockoutAfter)]
      BY <1>4 DEF CountFailure, count, guesses
    <3>3. row(q.count + 1 >= LockoutAfter) \in AccountRow
      <4>1. (q.count + 1 >= LockoutAfter) = TRUE \/ (q.count + 1 >= LockoutAfter) = FALSE
        OBVIOUS
      <4> HIDE DEF row
      <4> QED
        BY <3>1, <4>1
    <3> HIDE DEF row
    <3> QED
      BY <2>1, <3>2, <3>3 DEF TypeOK
  <2>4. RowsTyped /\ MadeStays
    BY <1>4, <2>3 DEF CountFailure, TypeOK, RowsTyped, MadeStays
  <2> QED
    BY <1>4, <2>4, SlotStep, FinishFits DEF CountFailure, Finish
<1> QED
  BY <1>1, <1>2, <1>3, <1>4

LEMMA IssueType ==
  ASSUME TypeInv, NEW sl \in Slot, ReadScope(sl) \/ IssueTokens(sl) \/ Rotate(sl)
  PROVE  TypeInv'
<1> USE DEF TypeInv
<1> DEFINE q == authReq[sl]
<1>1. CASE ReadScope(sl)
  <2>1. Issued(q)
    BY <1>1, Shapes DEF ReadScope
  <2>2. [q EXCEPT !.op = "issue"] \in Request /\ Fits([q EXCEPT !.op = "issue"])
    BY <2>1 DEF Issued, Request, Fits
  <2> QED
    BY <1>1, <2>2, ReadStep, FinishFits DEF ReadScope, Finish
<1>2. CASE IssueTokens(sl)
  <2>1. Issued(q)
    BY <1>2, Shapes DEF IssueTokens
  <2>2. PICK s \in Session :
          /\ Fresh(session, s)
          /\ session' = [session EXCEPT ![s] =
               [state |-> "open", user |-> q.user, from |-> q.from, evicted |-> FALSE]]
    BY <1>2 DEF IssueTokens
  <2>3. RowsTyped /\ MadeStays
    BY <1>2, <2>1, <2>2 DEF IssueTokens, Issued, TypeOK, SessionRow, Unmade, RowsTyped, MadeStays
  <2> QED
    BY <1>2, <2>3, SlotStep, FinishFits DEF IssueTokens, Finish
<1>3. CASE Rotate(sl)
  <2>1. q.session \in Session /\ session[q.session] # Unmade
    BY <1>3, Shapes DEF Rotate, Rotated, RowsMade
  <2>2. session[q.session].user \in User
    BY <2>1, MadeSession
  <2>3. [session[q.session] EXCEPT !.state = "revoked"] \in SessionRow \ {Unmade}
    BY <2>1, MadeSession DEF SessionRow, Unmade
  <2>4. RowsTyped /\ MadeStays
    BY <1>3, <2>1, <2>3 DEF Rotate, TypeOK, RowsTyped, MadeStays
  <2>5. Proceed(sl, [op |-> "scope", user |-> session[q.session].user, from |-> q.session])
    BY <1>3 DEF Rotate
  <2> QED
    BY <2>1, <2>2, <2>4, <2>5, ScopeFits, SlotStep
<1> QED
  BY <1>1, <1>2, <1>3

LEMMA ResetType ==
  ASSUME TypeInv, NEW sl \in Slot, CreateToken(sl) \/ CommitReset(sl)
  PROVE  TypeInv'
<1> USE DEF TypeInv
<1> DEFINE q == authReq[sl]
<1>1. CASE CreateToken(sl)
  <2>1. q.user \in User
    BY <1>1, Shapes DEF CreateToken, AboutUser
  <2>2. RowsTyped /\ MadeStays
    BY <1>1, <2>1 DEF CreateToken, TypeOK, TokenRow, Fresh, Unmade, RowsTyped, MadeStays
  <2> QED
    BY <1>1, <2>2, SlotStep, FinishFits DEF CreateToken, Finish
<1>2. CASE CommitReset(sl)
  <2>1. q.user \in User /\ q.token \in Token /\ token[q.token] # Unmade
    BY <1>2, Shapes DEF CommitReset, Resetting, RowsMade
  <2>2. [token[q.token] EXCEPT !.uses = @ + 1] \in TokenRow \ {Unmade}
    BY <2>1, MadeToken DEF TokenRow, Unmade
  <2>3. token' = [token EXCEPT ![q.token] = [token[q.token] EXCEPT !.uses = @ + 1]]
    BY <1>2, <2>1 DEF CommitReset
  <2>4. account' \in [User -> AccountRow]
    BY <1>2, <2>1, ClearedType DEF CommitReset
  <2>5. RowsTyped /\ MadeStays
    BY <1>2, <2>1, <2>2, <2>3, <2>4, EvictedType DEF CommitReset, TypeOK, RowsTyped, MadeStays
  <2>6. Proceed(sl, [op |-> "scope", user |-> q.user, from |-> NoSession])
    BY <1>2 DEF CommitReset
  <2> QED
    BY <2>1, <2>5, <2>6, ScopeFits, SlotStep
<1> QED
  BY <1>1, <1>2

LEMMA RemoveType ==
  ASSUME TypeInv, NEW sl \in Slot, CommitRemove(sl) \/ SweepSessions(sl) \/ CommitRestore(sl)
  PROVE  TypeInv'
<1> USE DEF TypeInv
<1> DEFINE q == authReq[sl]
<1>1. AboutUser(q)
  BY Shapes DEF CommitRemove, SweepSessions, CommitRestore
<1>2. CASE CommitRemove(sl)
  <2>1. RowsTyped /\ MadeStays
    BY <1>1, <1>2 DEF CommitRemove, AboutUser, TypeOK, AccountRow, RowsTyped, MadeStays
  <2>2. [q EXCEPT !.op = "sweep"] \in Request /\ Fits([q EXCEPT !.op = "sweep"])
    BY <1>1 DEF AboutUser, Request, Fits
  <2> QED
    BY <1>2, <2>1, <2>2, SlotStep DEF CommitRemove
<1>3. CASE SweepSessions(sl)
  <2>1. RowsTyped /\ MadeStays
    BY <1>1, <1>3, EvictedType DEF SweepSessions, AboutUser, TypeOK, RowsTyped, MadeStays
  <2> QED
    BY <1>3, <2>1, SlotStep, FinishFits DEF SweepSessions, Finish
<1>4. CASE CommitRestore(sl)
  <2>1. RowsTyped /\ MadeStays
    BY <1>1, <1>4 DEF CommitRestore, AboutUser, TypeOK, AccountRow, RowsTyped, MadeStays
  <2> QED
    BY <1>4, <2>1, SlotStep, FinishFits DEF CommitRestore, Finish
<1> QED
  BY <1>2, <1>3, <1>4

LEMMA AroundType ==
  ASSUME TypeInv,
         \/ \E s \in Session : Logout(s) \/ SessionExpires(s)
         \/ \E t \in Token : TokenExpires(t)
         \/ \E u \in User : LockPasses(u)
         \/ ProcessRestart
  PROVE  TypeInv'
<1> USE DEF TypeInv
<1>1. ASSUME NEW s \in Session, Logout(s) \/ SessionExpires(s)
      PROVE  TypeInv'
  <2>1. session[s] # Unmade
    BY <1>1 DEF Logout, SessionExpires, Live, Unmade
  <2>2. ASSUME NEW row, row \in {[session[s] EXCEPT !.state = "expired"],
                                 [session[s] EXCEPT !.state = "revoked", !.evicted = TRUE]}
        PROVE  row \in SessionRow \ {Unmade}
    BY <2>1, <2>2, MadeSession DEF SessionRow, Unmade
  <2>3. \/ session' = [session EXCEPT ![s] = [session[s] EXCEPT !.state = "revoked", !.evicted = TRUE]]
        \/ session' = [session EXCEPT ![s] = [session[s] EXCEPT !.state = "expired"]]
    BY <1>1 DEF Logout, SessionExpires
  <2>4. RowsTyped /\ MadeStays
    BY <1>1, <2>2, <2>3 DEF Logout, SessionExpires, TypeOK, RowsTyped, MadeStays
  <2> QED
    BY <1>1, <2>4, RowStep DEF Logout, SessionExpires
<1>2. ASSUME NEW t \in Token, TokenExpires(t)
      PROVE  TypeInv'
  <2>1. token[t] # Unmade
    BY <1>2 DEF TokenExpires, Unmade
  <2>2. [token[t] EXCEPT !.state = "expired"] \in TokenRow \ {Unmade}
    BY <2>1, MadeToken DEF TokenRow, Unmade
  <2>3. RowsTyped /\ MadeStays
    BY <1>2, <2>2 DEF TokenExpires, TypeOK, RowsTyped, MadeStays
  <2> QED
    BY <1>2, <2>3, RowStep DEF TokenExpires
<1>3. ASSUME NEW u \in User, LockPasses(u)
      PROVE  TypeInv'
  <2>1. RowsTyped /\ MadeStays
    <3>1. 0 \in 0..MaxGuesses
      BY Limits
    <3>2. [account[u] EXCEPT !.locked = FALSE, !.guesses = 0] \in AccountRow
      BY <3>1 DEF TypeOK, AccountRow
    <3>3. account' = [account EXCEPT ![u] = [account[u] EXCEPT !.locked = FALSE, !.guesses = 0]]
      BY <1>3 DEF LockPasses
    <3> QED
      BY <1>3, <3>2, <3>3 DEF LockPasses, TypeOK, RowsTyped, MadeStays
  <2> QED
    BY <1>3, <2>1, RowStep DEF LockPasses
<1>4. CASE ProcessRestart
  <2>1. TypeOK' /\ RowsMade'
    BY <1>4 DEF ProcessRestart, TypeOK, RowsMade, Request, Idle
  <2> QED
    BY <2>1, LimitAssumption
<1> QED
  BY <1>1, <1>2, <1>3, <1>4

LEMMA TypeStep == TypeInv /\ [Next]_vars => TypeInv'
<1> SUFFICES ASSUME TypeInv, [Next]_vars
    PROVE  TypeInv'
  OBVIOUS
<1>1. ASSUME NEW sl \in Slot, Step(sl)
      PROVE  TypeInv'
  BY <1>1, LoginType, IssueType, ResetType, RemoveType DEF Step
<1>2. CASE UNCHANGED vars
  <2>1. RowsTyped /\ MadeStays /\ UNCHANGED <<authReq, load>>
    BY <1>2 DEF vars, TypeInv, TypeOK, RowsTyped, MadeStays
  <2> QED
    BY <2>1, RowStep
<1> QED
  BY <1>1, <1>2, BeginType, AroundType DEF Next

LEMMA TypeInit == Init => TypeInv
BY Limits DEF Init, TypeInv, TypeOK, RowsMade, AccountRow, SessionRow, TokenRow, Request, Idle

(* The rows and requests keep their types, whatever overlaps.              *)
THEOREM TypeCorrect == Spec => []TypeOK
<1>1. TypeInv => TypeOK
  BY DEF TypeInv
<1> QED
  BY <1>1, TypeInit, TypeStep, PTL DEF Spec

----------------------------------------------------------------------------
(* Requests one at a time *)

(* What a request relies on while it is the only one: the session it        *)
(* rotates is not revoked; the one it renews is, and has no successor yet;  *)
(* the token it spends was never used.                                     *)
ReadyAt(sl) ==
  LET q == authReq[sl] IN
    /\ q.op = "rotate" => session[q.session].state \in {"open", "expired"}
    /\ q.op \in {"scope", "issue"} /\ q.from \in Session =>
         /\ session[q.from] # Unmade
         /\ session[q.from].state = "revoked"
         /\ session[q.from].user = q.user
         /\ \A t \in Session : session[t] # Unmade => session[t].from # q.from
    /\ q.op = "reset" => token[q.token].uses = 0

OthersIdle(sl) == \A o \in Slot : o # sl => authReq[o] = Idle

(* Who has a successor is revoked, and has one only.                       *)
Successors ==
  \A s, t \in Session :
    session[t] # Unmade /\ session[t].from = s =>
      /\ session[s].state = "revoked"
      /\ \A o \in Session : session[o] # Unmade /\ session[o].from = s => o = t

UsedOnce == \A t \in Token : token[t] # Unmade => token[t].uses <= 1

SerialInv ==
  load = 1 =>
    /\ \A o, p \in Slot : authReq[o] # Idle /\ authReq[p] # Idle => o = p
    /\ \A sl \in Slot : ReadyAt(sl)
    /\ Successors
    /\ UsedOnce

AuthInv == TypeInv /\ SerialInv

LEMMA NobodyBusy ==
  ASSUME TypeInv, load = 1, Cardinality(Busy) < load
  PROVE  \A sl \in Slot : authReq[sl] = Idle
<1>1. IsFiniteSet(Slot)
  BY LimitAssumption
<1>2. IsFiniteSet(Busy)
  BY <1>1, FS_Subset DEF Busy
<1>3. Cardinality(Busy) = 0
  BY <1>2, FS_CardinalityType
<1>4. Busy = {}
  BY <1>2, <1>3, FS_EmptySet
<1> QED
  BY <1>4 DEF Busy

LEMMA IdleAround ==
  ASSUME AuthInv, load = 1, NEW sl \in Slot, Begin(sl) \/ Step(sl)
  PROVE  OthersIdle(sl) /\ (Begin(sl) => authReq[sl] = Idle)
<1>1. CASE Begin(sl)
  <2>1. Cardinality(Busy) < load
    BY <1>1 DEF Begin, BeginLogin, BeginForgot, BeginRemove, BeginRestore, BeginRefresh, BeginReset, Enter
  <2> QED
    BY <2>1, NobodyBusy DEF AuthInv, OthersIdle
<1>2. CASE Step(sl) /\ ~Begin(sl)
  <2>1. authReq[sl] # Idle
    BY <1>2 DEF Step, RefuseLogin, ClearFailures, ReadFailures, CountFailure, ReadScope, IssueTokens,
                Rotate, CreateToken, CommitReset, CommitRemove, SweepSessions, CommitRestore, Idle
  <2> QED
    BY <1>2, <2>1 DEF AuthInv, SerialInv, OthersIdle
<1> QED
  BY <1>1, <1>2

LEMMA IdleReady ==
  ASSUME NEW sl \in Slot, authReq[sl] = Idle
  PROVE  ReadyAt(sl)
BY DEF ReadyAt, Idle

(* The invariant follows from what the acting slot and the rows are like.   *)
LEMMA SerialSlot ==
  ASSUME TypeInv, load = 1, NEW sl \in Slot, NEW q \in Request, Proceed(sl, q), OthersIdle(sl),
         ReadyAt(sl)', Successors', UsedOnce'
  PROVE  SerialInv'
<1>1. OthersIdle(sl)'
  BY ProceedType DEF TypeInv, OthersIdle
<1>2. \A o \in Slot : ReadyAt(o)'
  <2> SUFFICES ASSUME NEW o \in Slot, o # sl
      PROVE  ReadyAt(o)'
    OBVIOUS
  <2> QED
    BY <1>1 DEF OthersIdle, ReadyAt, Idle
<1> QED
  BY <1>1, <1>2 DEF SerialInv, OthersIdle

(* An update of the state of sessions                                      *)
Moved ==
  /\ \A s \in Session :
       /\ session'[s] = Unmade <=> session[s] = Unmade
       /\ session[s] # Unmade =>
            session'[s].user = session[s].user /\ session'[s].from = session[s].from
       /\ session[s].state = "revoked" => session'[s].state = "revoked"

LEMMA MovedSuccessors ==
  ASSUME TypeInv, Successors, Moved
  PROVE  Successors'
<1> SUFFICES ASSUME NEW s \in Session, NEW t \in Session, session'[t] # Unmade, session'[t].from = s
    PROVE  /\ session'[s].state = "revoked"
           /\ \A o \in Session : session'[o] # Unmade /\ session'[o].from = s => o = t
  BY DEF Successors
<1> QED
  BY DEF Moved, Successors

LEMMA EvictedMoved ==
  ASSUME TypeInv, NEW u \in User, session' = EvictedAll(u)
  PROVE  Moved
<1> SUFFICES ASSUME NEW s \in Session
    PROVE  /\ session'[s] = Unmade <=> session[s] = Unmade
           /\ session[s] # Unmade =>
                session'[s].user = session[s].user /\ session'[s].from = session[s].from
           /\ session[s].state = "revoked" => session'[s].state = "revoked"
  BY DEF Moved
<1>1. CASE OwnedBy(u, session, s)
  <2>1. session[s] # Unmade
    BY <1>1 DEF OwnedBy
  <2>2. session'[s] = [session[s] EXCEPT !.state = "revoked", !.evicted = TRUE]
    BY <1>1 DEF EvictedAll
  <2> QED
    BY <2>1, <2>2, MadeSession DEF TypeInv, Unmade
<1>2. CASE ~OwnedBy(u, session, s)
  BY <1>2 DEF EvictedAll
<1> QED
  BY <1>1, <1>2

(* A step that leaves sessions and tokens alone                            *)
LEMMA QuietStep ==
  ASSUME AuthInv, load = 1, NEW sl \in Slot, NEW q \in Request, Proceed(sl, q), OthersIdle(sl),
         UNCHANGED <<session, token>>,
         q.op = "rotate" => session[q.session].state \in {"open", "expired"},
         q.op \notin {"scope", "issue"} \/ q.from \notin Session \/
           (authReq[sl].op \in {"scope", "issue"} /\ q.from = authReq[sl].from /\ q.user = authReq[sl].user),
         q.op = "reset" => token[q.token].uses = 0
  PROVE  SerialInv'
<1>1. ReadyAt(sl)'
  BY ProceedType DEF AuthInv, TypeInv, SerialInv, ReadyAt
<1>2. Successors' /\ UsedOnce'
  BY DEF AuthInv, SerialInv, Successors, UsedOnce
<1> QED
  BY <1>1, <1>2, SerialSlot DEF AuthInv

LEMMA BeginSerial ==
  ASSUME AuthInv, load = 1, NEW sl \in Slot, Begin(sl)
  PROVE  SerialInv'
<1>1. OthersIdle(sl)
  BY IdleAround
<1>2. ASSUME NEW u \in User, BeginLogin(sl, u)
      PROVE  SerialInv'
  <2>1. PICK right \in BOOLEAN : Proceed(sl, [op |-> "compare", user |-> u, right |-> right])
    BY <1>2 DEF BeginLogin, Enter
  <2>2. [op |-> "compare", user |-> u, right |-> right] \in Request
    BY DEF Request
  <2>3. UNCHANGED <<session, token>>
    BY <1>2 DEF BeginLogin, Rows
  <2> QED
    BY <1>1, <2>1, <2>2, <2>3, QuietStep
<1>3. ASSUME NEW u \in User, NEW op \in {"token", "remove", "sweep", "restore"}, UNCHANGED Rows,
             Proceed(sl, [op |-> op, user |-> u])
      PROVE  SerialInv'
  <2>1. [op |-> op, user |-> u] \in Request
    BY DEF Request
  <2> QED
    BY <1>1, <1>3, <2>1, QuietStep DEF Rows
<1>4. ASSUME NEW u \in User, BeginForgot(sl, u) \/ BeginRemove(sl, u) \/ BeginRestore(sl, u)
      PROVE  SerialInv'
  BY <1>3, <1>4 DEF BeginForgot, BeginRemove, BeginRestore, Enter
<1>5. ASSUME NEW s \in Session, BeginRefresh(sl, s)
      PROVE  SerialInv'
  <2>1. [op |-> "rotate", session |-> s] \in Request
    BY DEF Request
  <2>2. session[s].state = "open"
    BY <1>5 DEF BeginRefresh, Live
  <2> QED
    BY <1>1, <1>5, <2>1, <2>2, QuietStep DEF BeginRefresh, Enter, Rows
<1>6. ASSUME NEW t \in Token, BeginReset(sl, t)
      PROVE  SerialInv'
  <2>1. token[t] # Unmade
    BY <1>6 DEF BeginReset, Unmade
  <2>2. token[t].user \in User
    BY <2>1, MadeToken DEF AuthInv, TypeInv
  <2>3. [op |-> "reset", user |-> token[t].user, token |-> t] \in Request
    BY <2>2 DEF Request
  <2> QED
    BY <1>1, <1>6, <2>3, QuietStep DEF BeginReset, Enter, Rows
<1> QED
  BY <1>2, <1>4, <1>5, <1>6 DEF Begin

(* The steps of a slot that leave sessions and tokens alone                *)
Quiet(sl) ==
  \/ RefuseLogin(sl) \/ ClearFailures(sl) \/ ReadFailures(sl) \/ CountFailure(sl)
  \/ ReadScope(sl) \/ CommitRemove(sl) \/ CommitRestore(sl)

LEMMA QuietSerial ==
  ASSUME AuthInv, load = 1, NEW sl \in Slot, OthersIdle(sl), Quiet(sl)
  PROVE  SerialInv'
<1> USE DEF AuthInv, TypeInv
<1> DEFINE q == authReq[sl]
<1>1. UNCHANGED <<session, token>>
  BY DEF Quiet, RefuseLogin, ClearFailures, ReadFailures, CountFailure, ReadScope, CommitRemove,
         CommitRestore, Rows
<1>2. CASE Proceed(sl, Idle)
  BY <1>1, <1>2, FinishFits, QuietStep DEF Idle
<1>3. CASE ClearFailures(sl)
  <2>1. q.user \in User
    BY <1>3, Shapes DEF ClearFailures, Compared
  <2>2. NoSession \notin Session
    BY LimitAssumption DEF NoSession
  <2>3. Proceed(sl, [op |-> "scope", user |-> q.user, from |-> NoSession])
    BY <1>3 DEF ClearFailures
  <2> QED
    BY <1>1, <2>1, <2>2, <2>3, ScopeFits, QuietStep
<1>4. CASE ReadFailures(sl)
  <2>1. q.user \in User
    BY <1>4, Shapes DEF ReadFailures, Compared
  <2>2. account[q.user].failed \in 0..LockoutAfter
    BY <2>1 DEF TypeOK, AccountRow
  <2>3. [op |-> "failed", user |-> q.user, count |-> account[q.user].failed] \in Request
    BY <2>1, <2>2 DEF Request
  <2>4. Proceed(sl, [op |-> "failed", user |-> q.user, count |-> account[q.user].failed])
    BY <1>4 DEF ReadFailures
  <2> QED
    BY <1>1, <2>3, <2>4, QuietStep
<1>5. CASE ReadScope(sl) /\ Proceed(sl, [q EXCEPT !.op = "issue"])
  <2>1. Issued(q)
    BY <1>5, Shapes DEF ReadScope
  <2>2. [q EXCEPT !.op = "issue"] \in Request
    BY <2>1 DEF Issued, Request
  <2>3. /\ [q EXCEPT !.op = "issue"].op = "issue"
        /\ [q EXCEPT !.op = "issue"].from = q.from /\ [q EXCEPT !.op = "issue"].user = q.user
        /\ q.op \in {"scope", "issue"}
    BY <2>1 DEF Issued
  <2> QED
    BY <1>1, <1>5, <2>2, <2>3, QuietStep
<1>6. CASE CommitRemove(sl)
  <2>1. AboutUser(q)
    BY <1>6, Shapes DEF CommitRemove
  <2>2. [q EXCEPT !.op = "sweep"] \in Request /\ [q EXCEPT !.op = "sweep"].op = "sweep"
    BY <2>1 DEF AboutUser, Request
  <2> QED
    BY <1>1, <1>6, <2>2, QuietStep DEF CommitRemove
<1> QED
  BY <1>2, <1>3, <1>4, <1>5, <1>6
     DEF Quiet, RefuseLogin, CountFailure, ReadScope, CommitRestore, Finish

(* A user's session is written: issued, rotated or evicted.                *)
LEMMA WriteSerial ==
  ASSUME AuthInv, load = 1, NEW sl \in Slot, OthersIdle(sl),
         IssueTokens(sl) \/ Rotate(sl) \/ CreateToken(sl) \/ CommitReset(sl) \/ SweepSessions(sl)
  PROVE  SerialInv'
<1> USE DEF AuthInv, TypeInv
<1> DEFINE q == authReq[sl]
<1>0. NoSession \notin Session
  BY LimitAssumption DEF NoSession
<1>1. ReadyAt(sl) /\ Successors /\ UsedOnce
  BY DEF SerialInv
<1>2. CASE IssueTokens(sl)
  <2>1. Issued(q)
    BY <1>2, Shapes DEF IssueTokens
  <2>2. PICK s \in Session :
          /\ session[s] = Unmade
          /\ session' = [session EXCEPT ![s] =
               [state |-> "open", user |-> q.user, from |-> q.from, evicted |-> FALSE]]
    BY <1>2 DEF IssueTokens, Fresh
  <2>3. Successors'
    <3> SUFFICES ASSUME NEW r \in Session, NEW t \in Session, session'[t] # Unmade, session'[t].from = r
        PROVE  /\ session'[r].state = "revoked"
               /\ \A o \in Session : session'[o] # Unmade /\ session'[o].from = r => o = t
      BY DEF Successors
    <3>1. CASE t = s
      <4>1. q.from = r
        BY <2>2, <3>1 DEF TypeOK
      <4>2. session[r].state = "revoked" /\ \A o \in Session : session[o] # Unmade => session[o].from # r
        BY <1>1, <2>1, <4>1 DEF ReadyAt, Issued
      <4>3. r # s
        BY <2>2, <4>2 DEF Unmade
      <4> QED
        BY <2>2, <3>1, <4>2, <4>3 DEF TypeOK
    <3>2. CASE t # s
      <4>1. session[t] # Unmade /\ session[t].from = r
        BY <2>2, <3>2
      <4>2. /\ session[r].state = "revoked"
            /\ \A o \in Session : session[o] # Unmade /\ session[o].from = r => o = t
        BY <1>1, <4>1 DEF Successors
      <4>3. r # s
        BY <2>2, <4>2 DEF Unmade
      <4>4. q.from # r
        BY <1>1, <2>1, <4>1 DEF ReadyAt, Issued
      <4> QED
        BY <2>2, <3>2, <4>2, <4>3, <4>4 DEF TypeOK
    <3> QED
      BY <3>1, <3>2
  <2>4. UsedOnce' /\ Proceed(sl, Idle)
    BY <1>1, <1>2 DEF IssueTokens, Finish, UsedOnce
  <2>5. ReadyAt(sl)'
    BY <2>4, ProceedType, FinishFits DEF ReadyAt, Idle
  <2> QED
    BY <2>3, <2>4, <2>5, SerialSlot, FinishFits
<1>3. CASE Rotate(sl)
  <2> DEFINE n == [op |-> "scope", user |-> session[q.session].user, from |-> q.session]
  <2>1. q.session \in Session /\ session[q.session] # Unmade
    BY <1>3, Shapes DEF Rotate, Rotated, RowsMade
  <2>2. session[q.session].user \in User
    BY <2>1, MadeSession
  <2>3. session[q.session].state \in {"open", "expired"}
    BY <1>1, <1>3 DEF ReadyAt, Rotate
  <2>4. session'[q.session] = [session[q.session] EXCEPT !.state = "revoked"]
    BY <1>3, <2>1 DEF Rotate, TypeOK
  <2>5. /\ session'[q.session] # Unmade /\ session'[q.session].state = "revoked"
        /\ session'[q.session].user = session[q.session].user
        /\ session'[q.session].from = session[q.session].from
    BY <2>1, <2>4, MadeSession DEF Unmade
  <2>6. Moved
    <3>1. \A s \in Session : s # q.session => session'[s] = session[s]
      BY <1>3 DEF Rotate, TypeOK
    <3> QED
      BY <2>1, <2>5, <3>1 DEF Moved
  <2>7. Successors' /\ UsedOnce'
    BY <1>1, <1>3, <2>6, MovedSuccessors DEF Rotate, UsedOnce
  <2>8. Proceed(sl, n) /\ n \in Request
    BY <1>3, <2>1, <2>2, ScopeFits DEF Rotate
  <2>9. \A t \in Session : session'[t] # Unmade => session'[t].from # q.session
    BY <1>1, <2>1, <2>3, <2>6 DEF Moved, Successors
  <2>10. ReadyAt(sl)'
    <3>1. authReq'[sl] = n
      BY <2>8, ProceedType
    <3> QED
      BY <2>5, <2>9, <3>1 DEF ReadyAt
  <2> QED
    BY <2>7, <2>8, <2>10, SerialSlot
<1>4. CASE CreateToken(sl)
  <2>1. Proceed(sl, Idle) /\ session' = session
    BY <1>4 DEF CreateToken, Finish
  <2>2. ReadyAt(sl)'
    BY <2>1, ProceedType, FinishFits DEF ReadyAt, Idle
  <2>3. Successors' /\ UsedOnce'
    BY <1>1, <1>4 DEF CreateToken, Successors, UsedOnce, Unmade, TypeOK
  <2> QED
    BY <2>1, <2>2, <2>3, SerialSlot, FinishFits
<1>5. CASE CommitReset(sl)
  <2> DEFINE n == [op |-> "scope", user |-> q.user, from |-> NoSession]
  <2>1. q.user \in User /\ q.token \in Token /\ token[q.token] # Unmade
    BY <1>5, Shapes DEF CommitReset, Resetting, RowsMade
  <2>2. token[q.token].uses = 0
    BY <1>1, <1>5 DEF CommitReset, ReadyAt
  <2>3. token'[q.token].uses = 1 /\ \A t \in Token : t # q.token => token'[t] = token[t]
    BY <1>5, <2>1, <2>2, MadeToken DEF CommitReset, TypeOK
  <2>4. UsedOnce'
    BY <1>1, <2>3 DEF UsedOnce
  <2>5. Successors'
    BY <1>1, <1>5, <2>1, EvictedMoved, MovedSuccessors DEF CommitReset
  <2>6. Proceed(sl, n) /\ n \in Request
    BY <1>5, <2>1, ScopeFits DEF CommitReset
  <2>7. ReadyAt(sl)'
    <3>1. authReq'[sl] = n
      BY <2>6, ProceedType
    <3> QED
      BY <1>0, <3>1 DEF ReadyAt
  <2> QED
    BY <2>4, <2>5, <2>6, <2>7, SerialSlot
<1>6. CASE SweepSessions(sl)
  <2>1. q.user \in User
    BY <1>6, Shapes DEF SweepSessions, AboutUser
  <2>2. Successors' /\ UsedOnce'
    BY <1>1, <1>6, <2>1, EvictedMoved, MovedSuccessors DEF SweepSessions, UsedOnce
  <2>3. Proceed(sl, Idle)
    BY <1>6 DEF SweepSessions, Finish
  <2>4. ReadyAt(sl)'
    BY <2>3, ProceedType, FinishFits DEF ReadyAt, Idle
  <2> QED
    BY <2>2, <2>3, <2>4, SerialSlot, FinishFits
<1> QED
  BY <1>2, <1>3, <1>4, <1>5, <1>6

(* Only a session the request may rotate can expire under it.              *)
LEMMA AroundSerial ==
  ASSUME AuthInv, load = 1,
         \/ \E s \in Session : Logout(s) \/ SessionExpires(s)
         \/ \E t \in Token : TokenExpires(t)
         \/ \E u \in User : LockPasses(u)
         \/ ProcessRestart
  PROVE  SerialInv'
<1> USE DEF AuthInv, TypeInv
<1>1. /\ \A o, p \in Slot : authReq[o] # Idle /\ authReq[p] # Idle => o = p
      /\ \A sl \in Slot : ReadyAt(sl)
      /\ Successors /\ UsedOnce
  BY DEF SerialInv
<1>2. ASSUME NEW s \in Session, Logout(s) \/ SessionExpires(s)
      PROVE  SerialInv'
  <2>1. /\ session[s].state \in {"open", "expired"}
        /\ session'[s].state \in {"expired", "revoked"}
        /\ session'[s] # Unmade
        /\ session'[s].user = session[s].user /\ session'[s].from = session[s].from
        /\ SessionExpires(s) => session'[s].state = "expired"
    <3>1. session[s] # Unmade /\ session[s].state \in {"open", "expired"}
      BY <1>2 DEF Logout, SessionExpires, Live, Unmade
    <3>2. CASE Logout(s)
      BY <3>1, <3>2, MadeSession DEF Logout, SessionExpires, TypeOK, Unmade
    <3>3. CASE SessionExpires(s)
      BY <3>1, <3>3, MadeSession DEF SessionExpires, TypeOK, Unmade
    <3> QED
      BY <1>2, <3>2, <3>3
  <2>2. \A r \in Session : r # s => session'[r] = session[r]
    <3>1. CASE Logout(s)
      BY <3>1 DEF Logout, TypeOK
    <3>2. CASE SessionExpires(s)
      BY <3>2 DEF SessionExpires, TypeOK
    <3> QED
      BY <1>2, <3>1, <3>2
  <2>3. Moved
    BY <2>1, <2>2 DEF Moved, Unmade
  <2>4. Successors' /\ UsedOnce' /\ UNCHANGED <<token, authReq, load>>
    BY <1>1, <1>2, <2>3, MovedSuccessors DEF Logout, SessionExpires, UsedOnce
  <2>5. ASSUME NEW sl \in Slot
        PROVE  ReadyAt(sl)'
    <3>1. CASE Logout(s)
      <4>1. authReq[sl] = Idle
        BY <3>1, NobodyBusy DEF Logout
      <4> QED
        BY <2>4, <4>1 DEF ReadyAt, Idle
    <3>2. CASE SessionExpires(s)
      <4>1. ReadyAt(sl)
        BY <1>1
      <4>2. \A r \in Session : session[r].state \in {"open", "expired"}
                                 => session'[r].state \in {"open", "expired"}
        BY <2>1, <2>2, <3>2
      <4>3. authReq[sl].op = "rotate" => authReq[sl].session \in Session
        BY Shapes DEF Rotated
      <4> QED
        BY <2>3, <2>4, <4>1, <4>2, <4>3 DEF ReadyAt, Moved
    <3> QED
      BY <1>2, <3>1, <3>2
  <2> QED
    BY <1>1, <2>4, <2>5 DEF SerialInv
<1>3. ASSUME NEW t \in Token, TokenExpires(t)
      PROVE  SerialInv'
  <2>1. token[t] # Unmade
    BY <1>3 DEF TokenExpires, Unmade
  <2>2. token'[t] # Unmade /\ token'[t].uses = token[t].uses
    BY <1>3, <2>1, MadeToken DEF TokenExpires, TypeOK, Unmade
  <2>3. \A o \in Token : o # t => token'[o] = token[o]
    BY <1>3 DEF TokenExpires
  <2>4. UsedOnce'
    BY <1>1, <2>1, <2>2, <2>3 DEF UsedOnce
  <2>6. Successors'
    BY <1>1, <1>3 DEF TokenExpires, Successors
  <2>5. \A sl \in Slot : ReadyAt(sl)'
    <3>1. \A sl \in Slot : authReq[sl].op = "reset" => authReq[sl].token \in Token
      BY Shapes DEF Resetting
    <3> QED
      BY <1>1, <1>3, <2>2, <2>3, <3>1 DEF TokenExpires, ReadyAt
  <2> QED
    BY <1>1, <1>3, <2>4, <2>5, <2>6 DEF TokenExpires, SerialInv
<1>4. ASSUME NEW u \in User, LockPasses(u)
      PROVE  SerialInv'
  BY <1>1, <1>4 DEF LockPasses, SerialInv, ReadyAt, Successors, UsedOnce
<1>5. CASE ProcessRestart
  BY <1>1, <1>5 DEF ProcessRestart, SerialInv, ReadyAt, Successors, UsedOnce, Idle
<1> QED
  BY <1>2, <1>3, <1>4, <1>5

LEMMA LoadStays == [Next]_vars => load' = load
BY DEF Next, vars, Begin, BeginLogin, BeginForgot, BeginRemove, BeginRestore, BeginRefresh, BeginReset,
       Enter, Step, RefuseLogin, ClearFailures, ReadFailures, CountFailure, ReadScope, IssueTokens,
       Rotate, CreateToken, CommitReset, CommitRemove, SweepSessions, CommitRestore, Proceed, Finish,
       Logout, SessionExpires, TokenExpires, LockPasses, ProcessRestart

LEMMA SerialStep == AuthInv /\ [Next]_vars => SerialInv'
<1> SUFFICES ASSUME AuthInv, [Next]_vars, load = 1
    PROVE  SerialInv'
  BY LoadStays DEF SerialInv
<1>1. ASSUME NEW sl \in Slot, Begin(sl) \/ Step(sl)
      PROVE  SerialInv'
  <2>1. OthersIdle(sl)
    BY <1>1, IdleAround
  <2> QED
    BY <1>1, <2>1, BeginSerial, QuietSerial, WriteSerial DEF Step, Quiet
<1>2. CASE UNCHANGED vars
  BY <1>2 DEF vars, AuthInv, SerialInv, ReadyAt, Successors, UsedOnce
<1> QED
  BY <1>1, <1>2, AroundSerial DEF Next

LEMMA AuthInit == Init => AuthInv
<1> SUFFICES ASSUME Init
    PROVE  SerialInv
  BY TypeInit DEF AuthInv
<1> QED
  BY DEF Init, SerialInv, ReadyAt, Successors, UsedOnce, Idle, Unmade

LEMMA AuthStep == AuthInv /\ [Next]_vars => AuthInv'
BY TypeStep, SerialStep DEF AuthInv

LEMMA AuthAlways == Spec => []AuthInv
BY AuthInit, AuthStep, PTL DEF Spec

(* A refresh token buys one session and a reset token sets one password,    *)
(* though refreshToken and resetPassword check and spend it in two          *)
(* statements, while requests come one at a time and the process may stop  *)
(* between any two statements.                                             *)
THEOREM TokensAreSpentOnce == Spec => []OneTimeTokens
<1>1. AuthInv => OneTimeTokens
  <2> SUFFICES ASSUME AuthInv, load = 1
      PROVE  /\ \A s, t \in Session :
                  Renewed(s) /\ Renewed(t) /\ session[s].from = session[t].from => s = t
             /\ \A t \in Token : token[t] # Unmade => token[t].uses <= 1
    BY DEF OneTimeTokens
  <2>1. Successors /\ UsedOnce
    BY DEF AuthInv, SerialInv
  <2>2. \A s \in Session : Renewed(s) => session[s].from \in Session
    BY MadeSession DEF AuthInv, TypeInv, Renewed
  <2> QED
    BY <2>1, <2>2 DEF Renewed, Successors, UsedOnce
<1> QED
  BY <1>1, AuthAlways, PTL

----------------------------------------------------------------------------
(* AuthSessions implements SessionChains                                   *)

(* One value of ChainOf                                                    *)
Phase(row, renewing) ==
  CASE row.state = "open"                   -> "live"
    [] row.state = "expired"                -> "expired"
    [] row.state = "revoked" /\ renewing    -> "renewing"
    [] OTHER                                -> "ended"

Chained(row, renewing) ==
  IF row = Unmade THEN [phase |-> "absent"]
  ELSE [user |-> row.user, from |-> row.from,
        phase |-> Phase(row, renewing)]

LEMMA ChainOfIs ==
  /\ ChainOf = [s \in Session |-> Chained(session[s], Renewing(s))]
  /\ ChainOf' = [s \in Session |-> Chained(session'[s], Renewing(s)')]
BY DEF ChainOf, Chained, Phase, Live

LEMMA ChainedPhase ==
  ASSUME NEW row, row # Unmade, NEW renewing \in BOOLEAN
  PROVE  /\ row.state = "open" =>
              Chained(row, renewing) = [user |-> row.user, from |-> row.from, phase |-> "live"]
         /\ row.state = "expired" =>
              Chained(row, renewing) = [user |-> row.user, from |-> row.from, phase |-> "expired"]
         /\ row.state = "revoked" /\ renewing =>
              Chained(row, renewing) = [user |-> row.user, from |-> row.from, phase |-> "renewing"]
         /\ row.state = "revoked" /\ ~renewing =>
              Chained(row, renewing) = [user |-> row.user, from |-> row.from, phase |-> "ended"]
<1>1. /\ row.state = "open" => Phase(row, renewing) = "live"
      /\ row.state = "expired" => Phase(row, renewing) = "expired"
      /\ row.state = "revoked" /\ renewing => Phase(row, renewing) = "renewing"
      /\ row.state = "revoked" /\ ~renewing => Phase(row, renewing) = "ended"
  BY DEF Phase
<1> QED
  BY <1>1 DEF Chained

LEMMA RenewingType == \A s : Renewing(s) \in BOOLEAN /\ Renewing(s)' \in BOOLEAN
BY DEF Renewing

(* Who renews, when one slot is busy at most                               *)
LEMMA RenewingBy ==
  ASSUME NEW sl \in Slot, OthersIdle(sl), OthersIdle(sl)', NEW s
  PROVE  /\ Renewing(s) <=> authReq[sl].op \in {"scope", "issue"} /\ authReq[sl].from = s
         /\ Renewing(s)' <=> authReq'[sl].op \in {"scope", "issue"} /\ authReq'[sl].from = s
BY DEF Renewing, OthersIdle, Idle

LEMMA ChainSame ==
  ASSUME session' = session, \A s \in Session : Renewing(s)' <=> Renewing(s)
  PROVE  ChainOf' = ChainOf
<1>1. \A s \in Session : Renewing(s)' = Renewing(s)
  BY RenewingType
<1> QED
  BY <1>1, ChainOfIs

(* One session moves to another phase.                                     *)
LEMMA ChainMoves ==
  ASSUME NEW s \in Session, NEW phase, session[s] # Unmade,
         Chained(session'[s], Renewing(s)') =
           [user |-> session[s].user, from |-> session[s].from, phase |-> phase],
         \A t \in Session : t # s => session'[t] = session[t] /\ (Renewing(t)' <=> Renewing(t))
  PROVE  ChainOf' = [ChainOf EXCEPT ![s].phase = phase]
<1>1. \A t \in Session : t # s => Renewing(t)' = Renewing(t)
  BY RenewingType
<1>2. \A t \in Session : t # s => ChainOf'[t] = ChainOf[t]
  BY <1>1, ChainOfIs
<1>3. PICK p : ChainOf[s] = [user |-> session[s].user, from |-> session[s].from, phase |-> p]
  BY ChainOfIs DEF Chained
<1>4. ChainOf'[s] = [ChainOf[s] EXCEPT !.phase = phase]
  BY <1>3, ChainOfIs
<1> QED
  BY <1>2, <1>4, ChainOfIs

LEMMA NoSessionNone ==
  ASSUME TypeInv
  PROVE  NoSession \notin Session
BY LimitAssumption DEF NoSession

(* Sessions that are not being renewed, before or after                    *)
LEMMA NobodyRenews ==
  ASSUME TypeInv, NEW sl \in Slot, OthersIdle(sl), OthersIdle(sl)',
         authReq[sl].op \notin {"scope", "issue"},
         authReq'[sl].op \notin {"scope", "issue"} \/ authReq'[sl].from = NoSession
  PROVE  \A s \in Session : ~Renewing(s) /\ ~Renewing(s)'
BY RenewingBy, NoSessionNone

LEMMA BeginImplements ==
  ASSUME AuthInv, load = 1, NEW sl \in Slot, Begin(sl)
  PROVE  ChainOf' = ChainOf
<1>1. OthersIdle(sl) /\ authReq[sl] = Idle
  BY IdleAround
<1>2. PICK q : /\ Proceed(sl, q) /\ q.op \notin {"scope", "issue"}
               /\ UNCHANGED <<session, token>>
  BY DEF Begin, BeginLogin, BeginForgot, BeginRemove, BeginRestore, BeginRefresh, BeginReset, Enter, Rows
<1>3. OthersIdle(sl)' /\ authReq'[sl].op \notin {"scope", "issue"}
  BY <1>1, <1>2 DEF AuthInv, TypeInv, TypeOK, Proceed, OthersIdle
<1>4. authReq[sl].op \notin {"scope", "issue"}
  BY <1>1 DEF Idle
<1>5. \A s \in Session : ~Renewing(s) /\ ~Renewing(s)'
  BY <1>1, <1>3, <1>4, NobodyRenews DEF AuthInv
<1> QED
  BY <1>2, <1>5, ChainSame

LEMMA QuietImplements ==
  ASSUME AuthInv, load = 1, NEW sl \in Slot, OthersIdle(sl), Quiet(sl)
  PROVE  Chains!Next \/ ChainOf' = ChainOf
<1> USE DEF AuthInv, TypeInv
<1> DEFINE q == authReq[sl]
<1>1. session' = session
  BY DEF Quiet, RefuseLogin, ClearFailures, ReadFailures, CountFailure, ReadScope, CommitRemove,
         CommitRestore, Rows
<1>2. CASE ~ReadScope(sl)
  <2>1. PICK n : Proceed(sl, n) /\ (n.op \notin {"scope", "issue"} \/ n.from = NoSession)
    <3>1. CASE CommitRemove(sl)
      <4>1. AboutUser(q)
        BY <3>1, Shapes DEF CommitRemove
      <4>2. [q EXCEPT !.op = "sweep"].op = "sweep"
        BY <4>1 DEF AboutUser
      <4> QED
        BY <3>1, <4>2 DEF CommitRemove
    <3> QED
      BY <1>2, <3>1 DEF Quiet, RefuseLogin, ClearFailures, ReadFailures, CountFailure, CommitRestore,
                        Finish, Idle
  <2>2. q.op \notin {"scope", "issue"}
    BY <1>2 DEF Quiet, RefuseLogin, ClearFailures, ReadFailures, CountFailure, CommitRemove, CommitRestore
  <2>3. OthersIdle(sl)' /\ authReq'[sl] = n
    BY <2>1 DEF TypeOK, Proceed, OthersIdle
  <2> QED
    BY <1>1, <2>1, <2>2, <2>3, NobodyRenews, ChainSame
<1>3. CASE ReadScope(sl) /\ Proceed(sl, [q EXCEPT !.op = "issue"])
  <2>1. Issued(q)
    BY <1>3, Shapes DEF ReadScope
  <2>2. [q EXCEPT !.op = "issue"].op = "issue" /\ [q EXCEPT !.op = "issue"].from = q.from
    BY <2>1 DEF Issued
  <2>3. OthersIdle(sl)' /\ authReq'[sl] = [q EXCEPT !.op = "issue"]
    BY <1>3 DEF TypeOK, Proceed, OthersIdle
  <2>4. \A s \in Session : Renewing(s)' <=> Renewing(s)
    BY <1>3, <2>2, <2>3, RenewingBy DEF ReadScope
  <2> QED
    BY <1>1, <2>4, ChainSame
<1>4. CASE ReadScope(sl) /\ Proceed(sl, Idle)
  <2>1. Issued(q) /\ q.op = "scope"
    BY <1>4, Shapes DEF ReadScope
  <2>2. OthersIdle(sl)' /\ authReq'[sl] = Idle
    BY <1>4 DEF TypeOK, Proceed, OthersIdle
  <2>3. \A s \in Session : ~Renewing(s)' /\ (Renewing(s) <=> q.from = s)
    BY <2>1, <2>2, RenewingBy DEF Idle
  <2>4. CASE q.from = NoSession
    BY <1>1, <2>3, <2>4, NoSessionNone, ChainSame
  <2>5. CASE q.from \in Session
    <3>1. session[q.from] # Unmade /\ session[q.from].state = "revoked"
      BY <2>1, <2>5 DEF SerialInv, ReadyAt
    <3>2. ChainOf[q.from].phase = "renewing"
      BY <2>3, <2>5, <3>1, RenewingType, ChainedPhase, ChainOfIs
    <3>3. ChainOf' = [ChainOf EXCEPT ![q.from].phase = "ended"]
      BY <1>1, <2>3, <2>5, <3>1, RenewingType, ChainedPhase, ChainMoves
    <3>4. Chains!End(q.from)
      BY <3>2, <3>3 DEF Chains!End, Chains!In
    <3> QED
      BY <2>5, <3>4 DEF Chains!Next
  <2> QED
    BY <2>1, <2>4, <2>5 DEF Issued
<1> QED
  BY <1>2, <1>3, <1>4 DEF ReadScope, Finish

(* The sessions of a user, evicted while nobody renews                     *)
LEMMA EvictImplements ==
  ASSUME TypeInv, NEW u \in User, session' = EvictedAll(u),
         \A s \in Session : ~Renewing(s) /\ ~Renewing(s)'
  PROVE  Chains!Next
<1>1. ASSUME NEW s \in Session
      PROVE  ChainOf'[s] = IF ChainOf[s] # Chains!Absent /\ ChainOf[s].user = u
                           THEN [ChainOf[s] EXCEPT !.phase = "ended"] ELSE ChainOf[s]
  <2>0. Renewing(s) = FALSE /\ Renewing(s)' = FALSE
    BY RenewingType
  <2>1. CASE session[s] = Unmade
    <3>1. session'[s] = Unmade /\ ChainOf[s] = Chains!Absent
      BY <2>1, ChainOfIs DEF EvictedAll, OwnedBy, Chained, Chains!Absent
    <3> QED
      BY <2>1, <3>1, ChainOfIs DEF Chained
  <2>2. CASE session[s] # Unmade
    <3>1. PICK p : Chained(session[s], Renewing(s)) =
                     [user |-> session[s].user, from |-> session[s].from, phase |-> p]
      BY <2>2 DEF Chained
    <3>2. ChainOf[s] = [user |-> session[s].user, from |-> session[s].from, phase |-> p]
      BY <3>1, ChainOfIs
    <3>3. ChainOf[s] # Chains!Absent /\ ChainOf[s].user = session[s].user
      <4>1. "user" \in DOMAIN ChainOf[s] /\ "user" \notin DOMAIN Chains!Absent
        BY <3>2 DEF Chains!Absent
      <4> QED
        BY <3>2, <4>1
    <3>4. CASE session[s].user = u
      <4>1. session'[s] = [session[s] EXCEPT !.state = "revoked", !.evicted = TRUE]
        BY <2>2, <3>4 DEF EvictedAll, OwnedBy
      <4>2. /\ session'[s] # Unmade /\ session'[s].state = "revoked"
            /\ session'[s].user = session[s].user /\ session'[s].from = session[s].from
        BY <2>2, <4>1, MadeSession DEF TypeInv, Unmade
      <4>3. ChainOf'[s] = [user |-> session[s].user, from |-> session[s].from, phase |-> "ended"]
        BY <2>0, <4>2, ChainedPhase, ChainOfIs
      <4> QED
        BY <3>2, <3>3, <3>4, <4>3
    <3>5. CASE session[s].user # u
      <4>1. session'[s] = session[s]
        BY <3>5 DEF EvictedAll, OwnedBy
      <4> QED
        BY <2>0, <3>3, <3>5, <4>1, ChainOfIs
    <3> QED
      BY <3>4, <3>5
  <2> QED
    BY <2>1, <2>2
<1>2. Chains!Evict(u)
  BY <1>1, ChainOfIs DEF Chains!Evict
<1> QED
  BY <1>2 DEF Chains!Next

LEMMA WriteImplements ==
  ASSUME AuthInv, load = 1, NEW sl \in Slot, OthersIdle(sl),
         IssueTokens(sl) \/ Rotate(sl) \/ CreateToken(sl) \/ CommitReset(sl) \/ SweepSessions(sl)
  PROVE  Chains!Next \/ ChainOf' = ChainOf
<1> USE DEF AuthInv, TypeInv
<1> DEFINE q == authReq[sl]
<1>1. ReadyAt(sl)
  BY DEF SerialInv
<1>2. CASE IssueTokens(sl)
  <2>1. Issued(q)
    BY <1>2, Shapes DEF IssueTokens
  <2> DEFINE new == [state |-> "open", user |-> q.user, from |-> q.from, evicted |-> FALSE]
  <2>2. PICK s \in Session : session[s] = Unmade /\ session' = [session EXCEPT ![s] = new]
    BY <1>2 DEF IssueTokens, Fresh
  <2>3. OthersIdle(sl)' /\ authReq'[sl] = Idle
    BY <1>2 DEF IssueTokens, Finish, TypeOK, Proceed, OthersIdle
  <2>4. \A r \in Session : ~Renewing(r)' /\ (Renewing(r) <=> q.from = r)
    BY <1>2, <2>3, RenewingBy DEF IssueTokens, Idle
  <2>5. session'[s] = new /\ \A r \in Session : r # s => session'[r] = session[r]
    BY <2>2 DEF TypeOK
  <2>6. ChainOf'[s] = [user |-> q.user, from |-> q.from, phase |-> "live"]
    <3>1. new # Unmade /\ new.state = "open" /\ new.user = q.user /\ new.from = q.from
      BY DEF Unmade
    <3> QED
      BY <2>5, <3>1, RenewingType, ChainedPhase, ChainOfIs
  <2>7. ChainOf[s] = [phase |-> "absent"]
    BY <2>2, ChainOfIs DEF Chained
  <2>8. CASE q.from = NoSession
    <3>1. \A r \in Session : r # s => ChainOf'[r] = ChainOf[r]
      <4>1. \A r \in Session : Renewing(r) = Renewing(r)'
        BY <2>4, <2>8, RenewingType, NoSessionNone
      <4> QED
        BY <2>5, <4>1, ChainOfIs
    <3>2. ChainOf' = [ChainOf EXCEPT ![s] = [user |-> q.user, from |-> NoSession, phase |-> "live"]]
      BY <2>6, <2>8, <3>1, ChainOfIs
    <3>3. Chains!SignIn(s)
      <4>1. q.user \in User /\ Chains!In({"absent"}, s)
        BY <2>1, <2>7 DEF Issued, Chains!In
      <4>2. ChainOf' = Chains!Enters(s, q.user, Chains!NoSession)
        BY <3>2 DEF Chains!Enters, Chains!NoSession, NoSession
      <4> QED
        BY <4>1, <4>2 DEF Chains!SignIn
    <3> QED
      BY <3>3 DEF Chains!Next
  <2>9. CASE q.from \in Session
    <3> DEFINE f == q.from
    <3>1. session[f] # Unmade /\ session[f].state = "revoked" /\ session[f].user = q.user
      BY <1>1, <1>2, <2>9 DEF ReadyAt, IssueTokens
    <3>2. f # s
      BY <2>2, <3>1
    <3>3. ChainOf[f] = [user |-> q.user, from |-> session[f].from, phase |-> "renewing"]
      BY <2>4, <2>9, <3>1, RenewingType, ChainedPhase, ChainOfIs
    <3>4. ChainOf'[f] = [user |-> q.user, from |-> session[f].from, phase |-> "ended"]
      BY <2>4, <2>5, <2>9, <3>1, <3>2, RenewingType, ChainedPhase, ChainOfIs
    <3>5. \A r \in Session : r # s /\ r # f => ChainOf'[r] = ChainOf[r]
      <4>1. \A r \in Session : r # f => Renewing(r) = Renewing(r)'
        BY <2>4, RenewingType
      <4> QED
        BY <2>5, <4>1, ChainOfIs
    <3>6. ChainOf' = [Chains!Enters(s, ChainOf[f].user, f) EXCEPT ![f].phase = "ended"]
      <4>1. Chains!Enters(s, ChainOf[f].user, f) =
              [ChainOf EXCEPT ![s] = [user |-> q.user, from |-> f, phase |-> "live"]]
        BY <3>3 DEF Chains!Enters
      <4>2. [ChainOf[f] EXCEPT !.phase = "ended"] = ChainOf'[f]
        BY <3>3, <3>4
      <4>3. [[ChainOf EXCEPT ![s] = [user |-> q.user, from |-> f, phase |-> "live"]]
               EXCEPT ![f] = ChainOf'[f]] = ChainOf'
        BY <2>6, <2>9, <3>2, <3>5, ChainOfIs
      <4> QED
        BY <2>9, <3>2, <4>1, <4>2, <4>3, ChainOfIs
    <3>7. Chains!Renew(f, s)
      BY <2>7, <3>3, <3>6 DEF Chains!Renew, Chains!In
    <3> QED
      BY <2>9, <3>7 DEF Chains!Next
  <2> QED
    BY <2>1, <2>8, <2>9 DEF Issued
<1>3. CASE Rotate(sl)
  <2>0. PICK s \in Session : s = q.session
    BY <1>3, Shapes DEF Rotate, Rotated
  <2> DEFINE n == [op |-> "scope", user |-> session[s].user, from |-> s]
  <2>1. session[s] # Unmade /\ session[s].state \in {"open", "expired"}
    BY <1>1, <1>3, <2>0 DEF Rotate, RowsMade, ReadyAt
  <2>2. session' = [session EXCEPT ![s] = [session[s] EXCEPT !.state = "revoked"]]
    BY <1>3, <2>0 DEF Rotate
  <2>3. /\ session'[s] # Unmade /\ session'[s].state = "revoked"
        /\ session'[s].user = session[s].user /\ session'[s].from = session[s].from
    BY <2>1, <2>2, MadeSession DEF TypeOK, Unmade
  <2>4. OthersIdle(sl)' /\ authReq'[sl] = n
    BY <1>3, <2>0 DEF Rotate, TypeOK, Proceed, OthersIdle
  <2>5. \A r \in Session : ~Renewing(r) /\ (Renewing(r)' <=> r = s)
    BY <1>3, <2>4, RenewingBy DEF Rotate
  <2>6. ChainOf' = [ChainOf EXCEPT ![s].phase = "renewing"]
    <3>1. Chained(session'[s], Renewing(s)') =
            [user |-> session[s].user, from |-> session[s].from, phase |-> "renewing"]
      <4>1. Renewing(s)' = TRUE
        BY <2>1, <2>5, RenewingType
      <4> QED
        BY <2>3, <4>1, ChainedPhase
    <3>2. \A t \in Session : t # s => session'[t] = session[t] /\ (Renewing(t)' <=> Renewing(t))
      BY <2>2, <2>5 DEF TypeOK
    <3> QED
      BY <2>1, <3>1, <3>2, ChainMoves
  <2>7. ChainOf[s].phase \in {"live", "expired"}
    BY <2>1, RenewingType, ChainedPhase, ChainOfIs
  <2>8. Chains!Rotate(s)
    BY <2>6, <2>7 DEF Chains!Rotate, Chains!In
  <2> QED
    BY <2>1, <2>8 DEF Chains!Next
<1>4. CASE CreateToken(sl)
  <2>1. OthersIdle(sl)' /\ authReq'[sl] = Idle /\ session' = session
    BY <1>4 DEF CreateToken, Finish, TypeOK, Proceed, OthersIdle
  <2>2. \A s \in Session : ~Renewing(s) /\ ~Renewing(s)'
    BY <1>4, <2>1, NobodyRenews DEF CreateToken, Idle
  <2> QED
    BY <2>1, <2>2, ChainSame
<1>5. CASE CommitReset(sl)
  <2>1. q.user \in User /\ session' = EvictedAll(q.user)
    BY <1>5, Shapes DEF CommitReset, Resetting
  <2>2. OthersIdle(sl)' /\ authReq'[sl] = [op |-> "scope", user |-> q.user, from |-> NoSession]
    BY <1>5 DEF CommitReset, TypeOK, Proceed, OthersIdle
  <2>3. \A s \in Session : ~Renewing(s) /\ ~Renewing(s)'
    BY <1>5, <2>2, NobodyRenews DEF CommitReset
  <2> QED
    BY <2>1, <2>3, EvictImplements
<1>6. CASE SweepSessions(sl)
  <2>1. q.user \in User /\ session' = EvictedAll(q.user)
    BY <1>6, Shapes DEF SweepSessions, AboutUser
  <2>2. OthersIdle(sl)' /\ authReq'[sl] = Idle
    BY <1>6 DEF SweepSessions, Finish, TypeOK, Proceed, OthersIdle
  <2>3. \A s \in Session : ~Renewing(s) /\ ~Renewing(s)'
    BY <1>6, <2>2, NobodyRenews DEF SweepSessions, Idle
  <2> QED
    BY <2>1, <2>3, EvictImplements
<1> QED
  BY <1>2, <1>3, <1>4, <1>5, <1>6

(* Sessions end or expire one by one; a restart ends the one it strands.    *)
LEMMA AroundImplements ==
  ASSUME AuthInv, load = 1,
         \/ \E s \in Session : Logout(s) \/ SessionExpires(s)
         \/ \E t \in Token : TokenExpires(t)
         \/ \E u \in User : LockPasses(u)
         \/ ProcessRestart
  PROVE  Chains!Next \/ ChainOf' = ChainOf
<1> USE DEF AuthInv, TypeInv
<1>1. ASSUME NEW s \in Session, Logout(s)
      PROVE  Chains!Next
  <2>1. \A r \in Session : ~Renewing(r) /\ ~Renewing(r)'
    BY <1>1, NobodyBusy DEF Logout, Renewing, Idle
  <2>2. session[s] # Unmade /\ session[s].state \in {"open", "expired"}
    BY <1>1 DEF Logout, Unmade
  <2>3. /\ session'[s] # Unmade /\ session'[s].state = "revoked"
        /\ session'[s].user = session[s].user /\ session'[s].from = session[s].from
    BY <1>1, <2>2, MadeSession DEF Logout, TypeOK, Unmade
  <2>4. \A r \in Session : r # s => session'[r] = session[r]
    BY <1>1 DEF Logout, TypeOK
  <2>5. ChainOf[s].phase \in {"live", "expired"}
    BY <2>2, RenewingType, ChainedPhase, ChainOfIs
  <2>6. Chained(session'[s], Renewing(s)') =
          [user |-> session[s].user, from |-> session[s].from, phase |-> "ended"]
    BY <2>1, <2>3, RenewingType, ChainedPhase
  <2>7. ChainOf' = [ChainOf EXCEPT ![s].phase = "ended"]
    BY <2>1, <2>2, <2>4, <2>6, ChainMoves
  <2>8. Chains!End(s)
    BY <2>5, <2>7 DEF Chains!End, Chains!In
  <2> QED
    BY <2>8 DEF Chains!Next
<1>2. ASSUME NEW s \in Session, SessionExpires(s)
      PROVE  Chains!Next
  <2>1. \A r \in Session : Renewing(r)' <=> Renewing(r)
    BY <1>2 DEF SessionExpires, Renewing
  <2>2. session[s] # Unmade /\ session[s].state = "open"
    BY <1>2 DEF SessionExpires, Live, Unmade
  <2>3. /\ session'[s] # Unmade /\ session'[s].state = "expired"
        /\ session'[s].user = session[s].user /\ session'[s].from = session[s].from
    BY <1>2, <2>2, MadeSession DEF SessionExpires, TypeOK, Unmade
  <2>4. \A r \in Session : r # s => session'[r] = session[r]
    BY <1>2 DEF SessionExpires, TypeOK
  <2>5. ChainOf[s].phase = "live"
    BY <2>2, RenewingType, ChainedPhase, ChainOfIs
  <2>6. Chained(session'[s], Renewing(s)') =
          [user |-> session[s].user, from |-> session[s].from, phase |-> "expired"]
    BY <2>3, RenewingType, ChainedPhase
  <2>7. ChainOf' = [ChainOf EXCEPT ![s].phase = "expired"]
    BY <2>1, <2>2, <2>4, <2>6, ChainMoves
  <2>8. Chains!Expire(s)
    BY <2>5, <2>7 DEF Chains!Expire, Chains!In
  <2> QED
    BY <2>8 DEF Chains!Next
<1>3. ASSUME session' = session, authReq' = authReq
      PROVE  ChainOf' = ChainOf
  <2>1. \A r \in Session : Renewing(r)' <=> Renewing(r)
    BY <1>3 DEF Renewing
  <2> QED
    BY <1>3, <2>1, ChainSame
<1>4. CASE ProcessRestart
  <2>1. PICK sl \in Slot : authReq[sl] # Idle
    BY <1>4 DEF ProcessRestart, Busy
  <2>2. OthersIdle(sl) /\ OthersIdle(sl)' /\ authReq'[sl] = Idle /\ session' = session
    BY <1>4, <2>1 DEF ProcessRestart, SerialInv, OthersIdle
  <2> DEFINE q == authReq[sl]
  <2>3. \A r \in Session : ~Renewing(r)' /\ (Renewing(r) <=> q.op \in {"scope", "issue"} /\ q.from = r)
    BY <2>2, RenewingBy DEF Idle
  <2>4. CASE \A r \in Session : ~Renewing(r)
    BY <2>2, <2>3, <2>4, ChainSame
  <2>5. ASSUME NEW r \in Session, Renewing(r)
        PROVE  Chains!Next
    <3>1. session[r] # Unmade /\ session[r].state = "revoked"
      BY <2>3, <2>5 DEF SerialInv, ReadyAt
    <3>2. ChainOf[r].phase = "renewing"
      <4>1. Chained(session[r], Renewing(r)) =
              [user |-> session[r].user, from |-> session[r].from, phase |-> "renewing"]
        BY <2>5, <3>1, RenewingType, ChainedPhase
      <4>2. ChainOf[r] = [user |-> session[r].user, from |-> session[r].from, phase |-> "renewing"]
        BY <4>1, ChainOfIs
      <4> QED
        BY <4>2
    <3>3. Chained(session'[r], Renewing(r)') =
            [user |-> session[r].user, from |-> session[r].from, phase |-> "ended"]
      BY <2>2, <2>3, <3>1, RenewingType, ChainedPhase
    <3>4. \A o \in Session : o # r => session'[o] = session[o] /\ (Renewing(o)' <=> Renewing(o))
      BY <2>2, <2>3, <2>5
    <3>5. ChainOf' = [ChainOf EXCEPT ![r].phase = "ended"]
      BY <3>1, <3>3, <3>4, ChainMoves
    <3>6. Chains!End(r)
      BY <3>2, <3>5 DEF Chains!End, Chains!In
    <3> QED
      BY <3>6 DEF Chains!Next
  <2> QED
    BY <2>4, <2>5
<1> QED
  BY <1>1, <1>2, <1>3, <1>4 DEF TokenExpires, LockPasses

LEMMA ChainStep ==
  ASSUME AuthInv, [Next]_vars, load = 1
  PROVE  Chains!Next \/ ChainOf' = ChainOf
<1>1. ASSUME NEW sl \in Slot, Begin(sl) \/ Step(sl)
      PROVE  Chains!Next \/ ChainOf' = ChainOf
  <2>1. OthersIdle(sl)
    BY <1>1, IdleAround
  <2> QED
    BY <1>1, <2>1, BeginImplements, QuietImplements, WriteImplements DEF Step, Quiet
<1>2. CASE UNCHANGED vars
  <2>1. session' = session /\ \A s \in Session : Renewing(s)' <=> Renewing(s)
    BY <1>2 DEF vars, Renewing
  <2> QED
    BY <2>1, ChainSame
<1> QED
  BY <1>1, <1>2, AroundImplements DEF Next

(* The login, refresh, reset, logout and removal requests of AuthService,   *)
(* one at a time and with a restart between any two of their statements,   *)
(* implement the session chains of SessionChains: every step is a sign-in, *)
(* an expiry, a renewal, an end or an eviction of them, or changes none.   *)
THEOREM SessionsImplementChains == Spec => ImplementsChains
<1>1. Init => Chains!Init
  BY DEF Init, Chains!Init, Chains!Absent, ChainOf
<1>2. AuthInv /\ [Next]_vars => [load = 1 => Chains!Next]_<<ChainOf, load>>
  BY ChainStep, LoadStays
<1> QED
  BY <1>1, <1>2, AuthAlways, PTL DEF Spec, ImplementsChains

(* What SessionChainsProofs shows of any chains holds of the ones that the  *)
(* sessions form.                                                          *)
ChainProofs == INSTANCE SessionChainsProofs WITH chain <- ChainOf

(* A session renewed by rotateRefreshToken is over and is never renewed     *)
(* again, while requests come one at a time and wherever the process stops. *)
THEOREM RenewedOnce ==
  NoSession \notin Session /\ Spec => [](load = 1 => Chains!OneSuccessor)
<1> SUFFICES ASSUME NoSession \notin Session
    PROVE  Spec => [](load = 1 => Chains!OneSuccessor)
  OBVIOUS
<1> DEFINE Followed == load = 1 => ChainProofs!IInv
<1>1. ChainProofs!Apart
  BY DEF ChainProofs!Apart, ChainProofs!NoSession, NoSession
<1>2. Init => Followed
  <2>1. Init => ChainProofs!Init
    BY DEF Init, ChainProofs!Init, ChainProofs!Absent, ChainOf
  <2> QED
    BY <2>1, ChainProofs!InitIInv
<1>3. Followed /\ AuthInv /\ [Next]_vars => Followed'
  <2> SUFFICES ASSUME ChainProofs!IInv, AuthInv, [Next]_vars, load = 1
      PROVE  ChainProofs!IInv'
    BY LoadStays
  <2>1. Chains!Next = ChainProofs!Next
    BY DEF Chains!Next, Chains!SignIn, Chains!Expire, Chains!Rotate, Chains!Renew, Chains!End,
           Chains!Evict, Chains!Enters, Chains!In, Chains!Absent, Chains!NoSession,
           ChainProofs!Next, ChainProofs!SignIn, ChainProofs!Expire, ChainProofs!Rotate,
           ChainProofs!Renew, ChainProofs!End, ChainProofs!Evict, ChainProofs!Enters,
           ChainProofs!In, ChainProofs!Absent, ChainProofs!NoSession
  <2>2. ChainProofs!Next \/ ChainOf' = ChainOf
    BY <2>1, ChainStep
  <2> QED
    BY <1>1, <2>2, ChainProofs!StepIInv
<1>4. Followed => (load = 1 => Chains!OneSuccessor)
  BY DEF ChainProofs!IInv, ChainProofs!OneSuccessor, ChainProofs!Absent,
         Chains!OneSuccessor, Chains!Absent
<1> QED
  BY <1>2, <1>3, <1>4, AuthAlways, PTL DEF Spec

----------------------------------------------------------------------------
(* Wrong guesses counted by overlapping requests                           *)

(* A row counts k of at most m guesses, m when it takes no more.  With no   *)
(* request in flight it takes at most                                      *)
(*     (m - k + 1) + (m - k) + ... + 2 = Left(m, k) \div 2                   *)
(* more, though a request may write back an older count each time the row  *)
(* has run full.                                                           *)
Left(m, k) == (m - k) * (m - k + 3)

(* g: the guesses taken; a, b: the counts the requests in flight have read *)
Bound(m, k, g) == 2 * g + Left(m, k) <= Left(m, 0)
OneRead(m, k, a, g) == a < k => 2 * g + 2 * (1 + m - k) + Left(m, a + 1) <= Left(m, 0)
TwoReads(m, k, a, b, g) ==
  a <= b => /\ k \in {a, b, m}
            /\ 2 * g + 2 * (1 + m - b) + Left(m, a + 1) <= Left(m, 0)

LEMMA Squares ==
  ASSUME NEW x \in Nat, NEW y \in Nat, x <= y
  PROVE  /\ x * (x + 3) \in Nat
         /\ x * (x + 3) <= y * (y + 3)
<1>1. PICK d \in Nat : y = x + d
  <2>1. y - x \in Nat
    OBVIOUS
  <2> QED
    BY <2>1
<1>2. x * x \in Nat /\ x * d \in Nat /\ d * d \in Nat
  OBVIOUS
<1>3. y * (y + 3) = x * x + 2 * (x * d) + d * d + 3 * x + 3 * d
  BY <1>1
<1>4. x * (x + 3) = x * x + 3 * x
  OBVIOUS
<1> QED
  BY <1>2, <1>3, <1>4

LEMMA LeftFalls ==
  ASSUME NEW m \in Nat, NEW a \in 0..m, NEW b \in 0..m, a <= b
  PROVE  Left(m, a) \in Nat /\ Left(m, b) \in Nat /\ Left(m, b) <= Left(m, a)
<1>1. m - a \in Nat /\ m - b \in Nat /\ m - b <= m - a
  OBVIOUS
<1> QED
  BY <1>1, Squares DEF Left

LEMMA LeftStep ==
  ASSUME NEW m \in Nat, NEW a \in 0..m, a < m
  PROVE  Left(m, a) = Left(m, a + 1) + 2 * (m - a) + 2
<1>1. PICK n \in Nat : m = a + n + 1
  <2>1. m - a - 1 \in Nat
    OBVIOUS
  <2> QED
    BY <2>1
<1>2. m - a = n + 1 /\ m - (a + 1) = n
  BY <1>1
<1>3. n * n \in Nat /\ (n + 1) * (n + 1 + 3) = n * n + 5 * n + 4 /\ n * (n + 3) = n * n + 3 * n
  OBVIOUS
<1> QED
  BY <1>2, <1>3 DEF Left

(* A row of which nobody has read anything *)
LEMMA FreshReads ==
  ASSUME NEW m \in Nat \ {0}, NEW k \in 0..m, NEW a \in 0..m
  PROVE  Bound(m, k, 0) /\ OneRead(m, k, a, 0)
<1>1. Bound(m, k, 0)
  BY LeftFalls DEF Bound
<1>2. ASSUME a < k PROVE 2 * 0 + 2 * (1 + m - k) + Left(m, a + 1) <= Left(m, 0)
  <2>1. Left(m, a) = Left(m, a + 1) + 2 * (m - a) + 2
    BY <1>2, LeftStep
  <2>2. Left(m, a) <= Left(m, 0) /\ Left(m, a) \in Nat /\ Left(m, 0) \in Nat
    BY LeftFalls
  <2>3. Left(m, a + 1) \in Nat
    BY <1>2, LeftFalls
  <2> QED
    BY <1>2, <2>1, <2>2, <2>3
<1> QED
  BY <1>1, <1>2 DEF OneRead

(* The row moves up, or runs out                                           *)
LEMMA MovedUp ==
  ASSUME NEW m \in Nat \ {0}, NEW k \in 0..m, NEW j \in 0..m, k <= j, NEW g \in Nat, Bound(m, k, g)
  PROVE  /\ Bound(m, j, g)
         /\ \A a \in 0..m : OneRead(m, k, a, g) => OneRead(m, j, a, g)
<1>1. Bound(m, j, g)
  BY LeftFalls DEF Bound
<1>2. ASSUME NEW a \in 0..m, OneRead(m, k, a, g), a < j
      PROVE  2 * g + 2 * (1 + m - j) + Left(m, a + 1) <= Left(m, 0)
  <2>1. Left(m, a + 1) \in Nat /\ Left(m, 0) \in Nat
    BY <1>2, LeftFalls
  <2>2. CASE a < k
    BY <1>2, <2>1, <2>2 DEF OneRead
  <2>3. CASE k <= a
    <3>1. Left(m, a) = Left(m, a + 1) + 2 * (m - a) + 2
      BY <1>2, LeftStep
    <3>2. Left(m, a) <= Left(m, k) /\ Left(m, k) \in Nat /\ Left(m, a) \in Nat
      BY <2>3, LeftFalls
    <3> QED
      BY <1>2, <2>1, <3>1, <3>2 DEF Bound
  <2> QED
    BY <2>2, <2>3
<1> QED
  BY <1>1, <1>2 DEF OneRead

(* A request reads the row beside one that has read a                      *)
LEMMA BothRead ==
  ASSUME NEW m \in Nat \ {0}, NEW k \in 0..m, k < m, NEW a \in 0..m, a < m, NEW g \in Nat,
         Bound(m, k, g), OneRead(m, k, a, g)
  PROVE  TwoReads(m, k, a, k, g) /\ TwoReads(m, k, k, a, g)
<1>1. /\ Left(m, k) = Left(m, k + 1) + 2 * (m - k) + 2
      /\ Left(m, k) \in Nat /\ Left(m, k + 1) \in Nat /\ Left(m, 0) \in Nat
  BY LeftStep, LeftFalls
<1>2. ASSUME a <= k PROVE 2 * g + 2 * (1 + m - k) + Left(m, a + 1) <= Left(m, 0)
  <2>1. CASE a < k
    BY <2>1 DEF OneRead
  <2>2. CASE a = k
    BY <1>1, <2>2 DEF Bound
  <2> QED
    BY <1>2, <2>1, <2>2
<1>3. ASSUME k <= a PROVE 2 * g + 2 * (1 + m - a) + Left(m, k + 1) <= Left(m, 0)
  BY <1>1, <1>3 DEF Bound
<1> QED
  BY <1>2, <1>3 DEF TwoReads

(* The only request writes its guess                                       *)
LEMMA WroteAlone ==
  ASSUME NEW m \in Nat \ {0}, NEW k \in 0..m, NEW a \in 0..m, a < m, NEW j \in 0..m, a + 1 <= j,
         NEW g \in Nat, NEW h \in Nat, h <= g + 1, Bound(m, k, g), OneRead(m, k, a, g)
  PROVE  Bound(m, j, h)
<1>1. /\ Left(m, a) \in Nat /\ Left(m, a + 1) \in Nat /\ Left(m, 0) \in Nat
      /\ Left(m, j) \in Nat /\ Left(m, j) <= Left(m, a + 1)
  BY LeftFalls
<1> Left(m, a) = Left(m, a + 1) + 2 * (m - a) + 2
  BY LeftStep
<1>2. CASE a < k
  BY <1>1, <1>2 DEF Bound, OneRead
<1>3. CASE k <= a
  <2>1. Left(m, a) <= Left(m, k) /\ Left(m, k) \in Nat
    BY <1>3, LeftFalls
  <2> QED
    BY <1>1, <2>1 DEF Bound
<1> QED
  BY <1>2, <1>3

(* A request writes its guess beside one that has read b; had that one only *)
(* begun, it reads what is written.                                        *)
LEMMA WroteBeside ==
  ASSUME NEW m \in Nat \ {0}, NEW k \in 0..m, NEW a \in 0..m, a < m, NEW b \in 0..m, b < m,
         NEW j \in 0..m, a + 1 <= j, NEW g \in Nat, NEW h \in Nat, h <= g + 1,
         TwoReads(m, k, a, b, g), TwoReads(m, k, b, a, g)
  PROVE  /\ Bound(m, j, h)
         /\ OneRead(m, j, b, h)
         /\ OneRead(m, j, IF j < m THEN j ELSE m - 1, h)
<1>1. /\ Left(m, a + 1) \in Nat /\ Left(m, b + 1) \in Nat /\ Left(m, 0) \in Nat
      /\ Left(m, j) \in Nat /\ Left(m, j) <= Left(m, a + 1)
      /\ a <= b => Left(m, b + 1) <= Left(m, a + 1)
      /\ b <= a => Left(m, a + 1) <= Left(m, b + 1)
  BY LeftFalls
<1>2. Left(m, m) = 0
  BY DEF Left
<1>3. CASE a <= b
  BY <1>1, <1>2, <1>3 DEF Bound, OneRead, TwoReads
<1>4. CASE b < a
  BY <1>1, <1>2, <1>4 DEF Bound, OneRead, TwoReads
<1> QED
  BY <1>3, <1>4

LEMMA HalfOfIt ==
  ASSUME NEW m \in Nat \ {0}, NEW k \in 0..m, NEW g \in Nat, Bound(m, k, g)
  PROVE  g <= (m * (m + 3)) \div 2
<1>1. Left(m, k) \in Nat /\ Left(m, 0) = m * (m + 3)
  BY LeftFalls DEF Left
<1>2. PICK n \in Nat : n = m * (m + 3)
  OBVIOUS
<1>3. 2 * g <= n
  BY <1>1, <1>2 DEF Bound
<1>4. g <= n \div 2
  BY <1>3
<1> QED
  BY <1>2, <1>4

(* R: what each slot has read of the row, m when it is not about to guess.  *)
Alone(R, m) == \A o, p \in Slot : o # p => R[o] = m \/ R[p] = m

Bounded(m, k, g, R) ==
  /\ load = 1 => g <= k /\ \A o \in Slot : g <= R[o]
  /\ load = 2 =>
       /\ Bound(m, k, g)
       /\ \A o \in Slot : OneRead(m, k, R[o], g)
       /\ \A o, p \in Slot : o # p /\ R[o] < m /\ R[p] < m => TwoReads(m, k, R[o], R[p], g)

(* The guesses are forgotten *)
LEMMA Forgotten ==
  ASSUME NEW m \in Nat \ {0}, NEW k \in 0..m, NEW R \in [Slot -> 0..m],
         load = 2 => Alone(R, m)
  PROVE  Bounded(m, k, 0, R)
<1>1. \A a \in 0..m : Bound(m, k, 0) /\ OneRead(m, k, a, 0)
  BY FreshReads
<1> QED
  BY <1>1 DEF Bounded, Alone

(* Requests leave, the row stays or runs out *)
LEMMA Unguessed ==
  ASSUME NEW m \in Nat \ {0}, NEW k \in 0..m, NEW j \in 0..m, j \in {k, m}, NEW g \in Nat,
         NEW R \in [Slot -> 0..m], NEW Q \in [Slot -> 0..m],
         \A o \in Slot : Q[o] \in {R[o], m},
         Bounded(m, k, g, R)
  PROVE  Bounded(m, j, g, Q)
<1>1. ASSUME load = 1 PROVE g <= j /\ \A o \in Slot : g <= Q[o]
  BY <1>1 DEF Bounded
<1>2. ASSUME load = 2
      PROVE  /\ Bound(m, j, g)
             /\ \A o \in Slot : OneRead(m, j, Q[o], g)
             /\ \A o, p \in Slot : o # p /\ Q[o] < m /\ Q[p] < m => TwoReads(m, j, Q[o], Q[p], g)
  <2>1. Bound(m, j, g) /\ \A a \in 0..m : OneRead(m, k, a, g) => OneRead(m, j, a, g)
    BY <1>2, MovedUp DEF Bounded
  <2>2. ASSUME NEW o \in Slot PROVE OneRead(m, j, Q[o], g)
    <3>1. CASE Q[o] = m
      BY <3>1 DEF OneRead
    <3>2. CASE Q[o] = R[o]
      BY <1>2, <2>1, <3>2 DEF Bounded
    <3> QED
      BY <3>1, <3>2
  <2>3. ASSUME NEW o \in Slot, NEW p \in Slot, o # p, Q[o] < m, Q[p] < m
        PROVE  TwoReads(m, j, Q[o], Q[p], g)
    <3>1. Q[o] = R[o] /\ Q[p] = R[p]
      BY <2>3
    <3>2. TwoReads(m, k, R[o], R[p], g)
      BY <1>2, <2>3, <3>1 DEF Bounded
    <3> QED
      BY <3>1, <3>2 DEF TwoReads
  <2> QED
    BY <2>1, <2>2, <2>3
<1> QED
  BY <1>1, <1>2 DEF Bounded

(* A request reads the row *)
LEMMA ReadRow ==
  ASSUME NEW m \in Nat \ {0}, NEW k \in 0..m, k < m, NEW g \in Nat, NEW sl \in Slot,
         NEW R \in [Slot -> 0..m], NEW Q \in [Slot -> 0..m],
         Q[sl] = k, \A o \in Slot \ {sl} : Q[o] = R[o],
         Bounded(m, k, g, R)
  PROVE  Bounded(m, k, g, Q)
<1>1. ASSUME load = 1 PROVE g <= k /\ \A o \in Slot : g <= Q[o]
  BY <1>1 DEF Bounded
<1>2. ASSUME load = 2
      PROVE  /\ Bound(m, k, g)
             /\ \A o \in Slot : OneRead(m, k, Q[o], g)
             /\ \A o, p \in Slot : o # p /\ Q[o] < m /\ Q[p] < m => TwoReads(m, k, Q[o], Q[p], g)
  <2>1. Bound(m, k, g)
    BY <1>2 DEF Bounded
  <2>2. ASSUME NEW o \in Slot PROVE OneRead(m, k, Q[o], g)
    BY <1>2 DEF Bounded, OneRead
  <2>3. ASSUME NEW o \in Slot \ {sl}, Q[o] < m
        PROVE  TwoReads(m, k, Q[o], k, g) /\ TwoReads(m, k, k, Q[o], g)
    <3>1. OneRead(m, k, Q[o], g)
      BY <2>2
    <3> QED
      BY <2>1, <2>3, <3>1, BothRead
  <2>4. ASSUME NEW o \in Slot, NEW p \in Slot, o # p, Q[o] < m, Q[p] < m
        PROVE  TwoReads(m, k, Q[o], Q[p], g)
    <3>1. CASE o = sl
      BY <2>3, <2>4, <3>1
    <3>2. CASE p = sl
      BY <2>3, <2>4, <3>2
    <3>3. CASE o # sl /\ p # sl
      BY <1>2, <2>4, <3>3 DEF Bounded
    <3> QED
      BY <3>1, <3>2, <3>3
  <2> QED
    BY <2>1, <2>2, <2>4
<1> QED
  BY <1>1, <1>2 DEF Bounded

(* A request writes its guess; another that has only begun reads what is    *)
(* written                                                                 *)
LEMMA WroteGuess ==
  ASSUME NEW m \in Nat \ {0}, NEW k \in 0..m, NEW j \in 0..m, NEW g \in Nat, NEW h \in Nat,
         h <= g + 1, NEW sl \in Slot,
         NEW R \in [Slot -> 0..m], NEW Q \in [Slot -> 0..m],
         R[sl] < m, R[sl] + 1 <= j, Q[sl] = m,
         \A o \in Slot \ {sl} :
           /\ R[o] = m <=> Q[o] = m
           /\ Q[o] \in {R[o], IF j < m THEN j ELSE m - 1},
         load = 1 => \A o \in Slot \ {sl} : R[o] = m,
         load = 2 => \A o, p \in Slot \ {sl} : o # p => R[o] = m \/ R[p] = m,
         Bounded(m, k, g, R)
  PROVE  Bounded(m, j, h, Q)
<1>1. ASSUME load = 1 PROVE h <= j /\ \A o \in Slot : h <= Q[o]
  <2>1. g <= R[sl]
    BY <1>1 DEF Bounded
  <2>2. \A o \in Slot : Q[o] = m
    BY <1>1
  <2>3. h <= j
    BY <2>1
  <2> QED
    BY <2>2, <2>3
<1>2. ASSUME load = 2
      PROVE  /\ Bound(m, j, h)
             /\ \A o \in Slot : OneRead(m, j, Q[o], h)
             /\ \A o, p \in Slot : o # p /\ Q[o] < m /\ Q[p] < m => TwoReads(m, j, Q[o], Q[p], h)
  <2>1. Bound(m, k, g) /\ OneRead(m, k, R[sl], g)
    BY <1>2 DEF Bounded
  <2>2. Bound(m, j, h)
    BY <2>1, WroteAlone
  <2>3. ASSUME NEW o \in Slot, Q[o] < m PROVE OneRead(m, j, Q[o], h)
    <3>1. o # sl /\ R[o] < m /\ R[o] \in 0..m /\ R[sl] \in 0..m
      BY <2>3
    <3>2. TwoReads(m, k, R[sl], R[o], g) /\ TwoReads(m, k, R[o], R[sl], g)
      BY <1>2, <3>1 DEF Bounded
    <3>3. OneRead(m, j, R[o], h) /\ OneRead(m, j, IF j < m THEN j ELSE m - 1, h)
      BY <3>1, <3>2, WroteBeside
    <3>4. CASE Q[o] = R[o]
      BY <3>3, <3>4
    <3>5. CASE Q[o] = IF j < m THEN j ELSE m - 1
      BY <3>3, <3>5
    <3> QED
      BY <3>1, <3>4, <3>5
  <2>4. ASSUME NEW o \in Slot PROVE OneRead(m, j, Q[o], h)
    <3>1. CASE Q[o] < m
      BY <2>3, <3>1
    <3>2. CASE Q[o] = m
      BY <3>2 DEF OneRead
    <3> QED
      BY <3>1, <3>2
  <2>5. \A o, p \in Slot : o # p => ~(Q[o] < m /\ Q[p] < m)
    BY <1>2
  <2> QED
    BY <2>2, <2>4, <2>5
<1> QED
  BY <1>1, <1>2 DEF Bounded

(* What is in flight at most *)
LEMMA InFlight ==
  ASSUME NEW B \in SUBSET Slot, NEW n \in Nat, Cardinality(B) <= n
  PROVE  /\ n = 1 => \A o, p \in B : o = p
         /\ n = 2 => \A o, p, q \in B : o = p \/ p = q \/ o = q
<1>1. IsFiniteSet(Slot)
  BY LimitAssumption
<1>2. IsFiniteSet(B)
  BY <1>1, FS_Subset
<1>3. ASSUME NEW o \in B, NEW p \in B, o # p PROVE n # 1
  <2>1. IsFiniteSet({o}) /\ Cardinality({o}) = 1
    BY FS_Singleton
  <2>2. IsFiniteSet({o} \cup {p}) /\ Cardinality({o} \cup {p}) = 2
    BY <1>3, <2>1, FS_AddElement
  <2>3. Cardinality({o} \cup {p}) <= Cardinality(B) /\ Cardinality(B) \in Nat
    BY <1>2, FS_Subset, FS_CardinalityType
  <2> QED
    BY <2>2, <2>3
<1>4. ASSUME NEW o \in B, NEW p \in B, NEW q \in B, o # p, p # q, o # q PROVE n # 2
  <2>1. IsFiniteSet({o}) /\ Cardinality({o}) = 1
    BY FS_Singleton
  <2>2. IsFiniteSet({o} \cup {p}) /\ Cardinality({o} \cup {p}) = 2
    BY <1>4, <2>1, FS_AddElement
  <2>3. IsFiniteSet(({o} \cup {p}) \cup {q}) /\ Cardinality(({o} \cup {p}) \cup {q}) = 3
    BY <1>4, <2>2, FS_AddElement
  <2>4. Cardinality(({o} \cup {p}) \cup {q}) <= Cardinality(B) /\ Cardinality(B) \in Nat
    BY <1>2, FS_Subset, FS_CardinalityType
  <2> QED
    BY <2>3, <2>4
<1> QED
  BY <1>3, <1>4

LEMMA Crowd ==
  ASSUME NEW B \in SUBSET Slot, NEW C \in SUBSET Slot, NEW sl \in Slot, NEW n \in Nat,
         Cardinality(B) <= n, sl \in B \/ Cardinality(B) < n, C \subseteq B \cup {sl}
  PROVE  Cardinality(C) <= n
<1>1. IsFiniteSet(Slot)
  BY LimitAssumption
<1>2. IsFiniteSet(B) /\ Cardinality(B) \in Nat
  BY <1>1, FS_Subset, FS_CardinalityType
<1>3. /\ IsFiniteSet(B \cup {sl})
      /\ Cardinality(B \cup {sl}) = IF sl \in B THEN Cardinality(B) ELSE Cardinality(B) + 1
  BY <1>2, FS_AddElement
<1>4. Cardinality(C) <= Cardinality(B \cup {sl}) /\ Cardinality(C) \in Nat
  BY <1>3, FS_Subset, FS_CardinalityType
<1> QED
  BY <1>2, <1>3, <1>4

LEMMA NoCrowd ==
  ASSUME NEW n \in Nat
  PROVE  Cardinality({}) <= n
BY FS_EmptySet

----------------------------------------------------------------------------
(* Wrong passwords *)
Below(n, m) == IF n < m THEN n ELSE m - 1

(* What an account counts, and what a wrong password in flight has read of  *)
(* it or, before registerFailedLogin, will read                            *)
Failures(u) == IF account[u].locked THEN LockoutAfter ELSE Below(account[u].failed, LockoutAfter)
Guessing(u, sl) ==
  /\ (authReq[sl].op = "compare" /\ ~authReq[sl].right) \/ authReq[sl].op = "failed"
  /\ authReq[sl].user = u
Seen(u, sl) ==
  IF Guessing(u, sl)
  THEN Below(IF authReq[sl].op = "failed" THEN authReq[sl].count ELSE account[u].failed, LockoutAfter)
  ELSE LockoutAfter
Reads(u) == [sl \in Slot |-> Seen(u, sl)]

PasswordsBounded(u) ==
  /\ Bounded(LockoutAfter, Failures(u), account[u].guesses, Reads(u))
  /\ load = 2 => \A o, p \in Slot : o # p /\ Guessing(u, o) /\ Guessing(u, p) => ~account[u].locked

AccountsInv ==
  /\ TypeInv
  /\ Cardinality(Busy) <= load
  /\ \A u \in User : PasswordsBounded(u)

AccountTyped(u) ==
  /\ account[u].removed \in BOOLEAN /\ account[u].locked \in BOOLEAN
  /\ account[u].failed \in 0..LockoutAfter /\ account[u].guesses \in Nat
  /\ Failures(u) \in 0..LockoutAfter
  /\ ~account[u].locked => Failures(u) < LockoutAfter
  /\ \A sl \in Slot :
       /\ Seen(u, sl) \in 0..LockoutAfter
       /\ Guessing(u, sl) <=> Seen(u, sl) < LockoutAfter
  /\ Reads(u) \in [Slot -> 0..LockoutAfter]

AccountsTyped == \A u \in User : AccountTyped(u)

LEMMA AccountRead == TypeOK => AccountsTyped
<1> SUFFICES ASSUME TypeOK, NEW u \in User PROVE AccountTyped(u)
  BY DEF AccountsTyped
<1>1. account[u] \in AccountRow
  BY DEF TypeOK
<1>2. /\ account[u].removed \in BOOLEAN /\ account[u].locked \in BOOLEAN
      /\ account[u].failed \in 0..LockoutAfter /\ account[u].guesses \in 0..MaxGuesses
  BY <1>1 DEF AccountRow
<1>3. LockoutAfter \in Nat \ {0} /\ MaxGuesses \in Nat
  BY LimitAssumption
<1>4. \A n \in 0..LockoutAfter :
        Below(n, LockoutAfter) \in 0..LockoutAfter /\ Below(n, LockoutAfter) < LockoutAfter
  BY <1>3 DEF Below
<1>5. \A sl \in Slot : Guessing(u, sl) /\ authReq[sl].op = "failed" => authReq[sl].count \in 0..LockoutAfter
  BY Shapes DEF Failed
<1>6. ASSUME NEW sl \in Slot
      PROVE  Seen(u, sl) \in 0..LockoutAfter /\ (Guessing(u, sl) <=> Seen(u, sl) < LockoutAfter)
  <2>1. CASE Guessing(u, sl)
    BY <1>2, <1>4, <1>5, <2>1 DEF Seen
  <2>2. CASE ~Guessing(u, sl)
    BY <1>3, <2>2 DEF Seen
  <2> QED
    BY <2>1, <2>2
<1>7. Failures(u) \in 0..LockoutAfter /\ (~account[u].locked => Failures(u) < LockoutAfter)
  BY <1>2, <1>3, <1>4 DEF Failures
<1> QED
  BY <1>2, <1>3, <1>6, <1>7 DEF Reads, AccountTyped

LEMMA AccountReadNext == TypeOK' => AccountsTyped'
BY AccountRead, PTL

(* What the handlers do to one account *)
SameCount(u) ==
  /\ account'[u].failed = account[u].failed
  /\ account'[u].locked = account[u].locked
  /\ account'[u].guesses = account[u].guesses

(* Nobody starts to guess *)
LEMMA SameAccount ==
  ASSUME TypeOK, TypeOK', load' = load, NEW u \in User, PasswordsBounded(u), SameCount(u),
         \A o \in Slot : Guessing(u, o)' => Seen(u, o)' = Seen(u, o)
  PROVE  PasswordsBounded(u)'
<1>1. Failures(u)' = Failures(u)
  BY DEF Failures, SameCount
<1>2. /\ LockoutAfter \in Nat \ {0} /\ Failures(u) \in {Failures(u), LockoutAfter}
      /\ AccountTyped(u) /\ AccountTyped(u)'
  BY AccountRead, AccountReadNext, LimitAssumption DEF AccountsTyped
<1>3. /\ Reads(u)' \in [Slot -> 0..LockoutAfter] /\ Reads(u) \in [Slot -> 0..LockoutAfter]
      /\ \A o \in Slot : Guessing(u, o)' <=> Seen(u, o)' < LockoutAfter
      /\ \A o \in Slot : Seen(u, o)' \in 0..LockoutAfter
      /\ Failures(u) \in 0..LockoutAfter /\ account[u].guesses \in Nat
  BY <1>2 DEF AccountTyped
<1>4. \A o \in Slot : Reads(u)'[o] \in {Reads(u)[o], LockoutAfter}
  <2> SUFFICES ASSUME NEW o \in Slot PROVE Seen(u, o)' \in {Seen(u, o), LockoutAfter}
    BY DEF Reads
  <2> QED
    BY <1>2, <1>3
<1>5. Bounded(LockoutAfter, Failures(u), account[u].guesses, Reads(u)')
  BY <1>2, <1>3, <1>4, Unguessed DEF PasswordsBounded
<1>6. \A o \in Slot : Guessing(u, o)' => Guessing(u, o)
  BY <1>2, <1>3 DEF AccountTyped
<1> QED
  BY <1>1, <1>5, <1>6 DEF PasswordsBounded, Bounded, SameCount

(* The account is cleared, or its lock passes                              *)
LEMMA ClearedAccount ==
  ASSUME TypeOK, TypeOK', load' = load, NEW u \in User, account'[u].guesses = 0,
         load = 2 => \A o, p \in Slot : o # p => ~(Guessing(u, o)' /\ Guessing(u, p)')
  PROVE  PasswordsBounded(u)'
<1>1. LockoutAfter \in Nat \ {0} /\ AccountTyped(u)'
  BY AccountRead, AccountReadNext, LimitAssumption DEF AccountsTyped
<1>2. /\ Reads(u)' \in [Slot -> 0..LockoutAfter] /\ Failures(u)' \in 0..LockoutAfter
      /\ \A o \in Slot : Guessing(u, o)' <=> Seen(u, o)' < LockoutAfter
      /\ \A o \in Slot : Seen(u, o)' \in 0..LockoutAfter
  BY <1>1 DEF AccountTyped
<1>3. load = 2 => Alone(Reads(u)', LockoutAfter)
  <2> SUFFICES ASSUME load = 2, NEW o \in Slot, NEW p \in Slot, o # p
      PROVE  Seen(u, o)' = LockoutAfter \/ Seen(u, p)' = LockoutAfter
    BY DEF Alone, Reads
  <2> QED
    BY <1>1, <1>2
<1>4. Bounded(LockoutAfter, Failures(u)', 0, Reads(u)')
  BY <1>1, <1>2, <1>3, Forgotten
<1> QED
  BY <1>4 DEF PasswordsBounded, Bounded

(* A wrong password is on its way                                          *)
LEMMA StartedGuess ==
  ASSUME TypeOK, TypeOK', load' = load, NEW u \in User, PasswordsBounded(u), account' = account,
         ~account[u].locked, NEW sl \in Slot, Seen(u, sl)' = Failures(u),
         \A o \in Slot \ {sl} : Seen(u, o)' = Seen(u, o)
  PROVE  PasswordsBounded(u)'
<1>1. LockoutAfter \in Nat \ {0} /\ AccountTyped(u) /\ AccountTyped(u)'
  BY AccountRead, AccountReadNext, LimitAssumption DEF AccountsTyped
<1>2. /\ Reads(u)' \in [Slot -> 0..LockoutAfter] /\ Reads(u) \in [Slot -> 0..LockoutAfter]
      /\ Failures(u) \in 0..LockoutAfter /\ Failures(u) < LockoutAfter
      /\ account[u].guesses \in Nat
  BY <1>1 DEF AccountTyped
<1>3. Reads(u)'[sl] = Failures(u) /\ \A o \in Slot \ {sl} : Reads(u)'[o] = Reads(u)[o]
  BY DEF Reads
<1>4. Bounded(LockoutAfter, Failures(u), account[u].guesses, Reads(u)')
  BY <1>1, <1>2, <1>3, ReadRow DEF PasswordsBounded
<1>5. Failures(u)' = Failures(u)
  BY DEF Failures
<1> QED
  BY <1>4, <1>5 DEF PasswordsBounded, Bounded

(* registerFailedLogin writes the count after the one it has read          *)
LEMMA WrotePassword ==
  ASSUME TypeOK, TypeOK', load' = load, NEW sl \in Slot, CountFailure(sl),
         NEW u \in User, u = authReq[sl].user, PasswordsBounded(u), Cardinality(Busy) <= load
  PROVE  PasswordsBounded(u)'
<1> DEFINE q == authReq[sl]
<1>1. LockoutAfter \in Nat \ {0} /\ AccountTyped(u) /\ AccountTyped(u)' /\ MaxGuesses \in Nat
  BY AccountRead, AccountReadNext, LimitAssumption DEF AccountsTyped
<1>2. /\ Reads(u)' \in [Slot -> 0..LockoutAfter] /\ Reads(u) \in [Slot -> 0..LockoutAfter]
      /\ Failures(u) \in 0..LockoutAfter /\ Failures(u)' \in 0..LockoutAfter
      /\ account[u].guesses \in Nat /\ account'[u].guesses \in Nat
      /\ \A o \in Slot : Guessing(u, o) <=> Seen(u, o) < LockoutAfter
      /\ \A o \in Slot : Guessing(u, o)' <=> Seen(u, o)' < LockoutAfter
      /\ \A o \in Slot : Seen(u, o)' \in 0..LockoutAfter /\ Seen(u, o) \in 0..LockoutAfter
  BY <1>1 DEF AccountTyped
<1>3. q.op = "failed" /\ q.count \in 0..LockoutAfter
  BY Shapes DEF CountFailure, Failed
<1>4. account[u] \in AccountRow /\ account \in [User -> AccountRow]
  BY DEF TypeOK
<1>5. account' = [account EXCEPT ![u].failed = UpTo(q.count + 1, LockoutAfter),
                                  ![u].locked = q.count + 1 >= LockoutAfter,
                                  ![u].guesses = UpTo(@ + 1, MaxGuesses)]
  BY DEF CountFailure
<1>0. LockoutAfter \in Nat /\ q.count + 1 \in Nat
  BY <1>1, <1>3
<1>6. /\ account'[u].failed = UpTo(q.count + 1, LockoutAfter)
      /\ q.count + 1 >= LockoutAfter => account'[u].locked
      /\ q.count + 1 < LockoutAfter => ~account'[u].locked
      /\ account'[u].guesses = UpTo(account[u].guesses + 1, MaxGuesses)
  BY <1>0, <1>4, <1>5 DEF AccountRow
<1>18. /\ q.count + 1 < LockoutAfter =>
            Failures(u)' = q.count + 1 /\ Below(account'[u].failed, LockoutAfter) = q.count + 1
       /\ q.count + 1 >= LockoutAfter =>
            Failures(u)' = LockoutAfter /\ Below(account'[u].failed, LockoutAfter) = LockoutAfter - 1
  BY <1>0, <1>6 DEF Failures, Below, UpTo
<1>7. Guessing(u, sl) /\ Seen(u, sl) = Below(q.count, LockoutAfter)
  BY <1>3 DEF Guessing, Seen
<1>8. Seen(u, sl) < LockoutAfter /\ Seen(u, sl) + 1 = Failures(u)'
  BY <1>0, <1>1, <1>3, <1>7, <1>18 DEF Below
<1>9. account'[u].guesses <= account[u].guesses + 1
  BY <1>1, <1>2, <1>6 DEF UpTo
<1>10. authReq' = [authReq EXCEPT ![sl] = Idle] /\ authReq \in [Slot -> Request]
  BY DEF CountFailure, Finish, Proceed, TypeOK
<1>11. ~Guessing(u, sl)' /\ Seen(u, sl)' = LockoutAfter
  BY <1>10 DEF Guessing, Seen, Idle
<1>12. ASSUME NEW o \in Slot \ {sl}
       PROVE  /\ Guessing(u, o)' <=> Guessing(u, o)
              /\ Seen(u, o)' \in {Seen(u, o), IF Failures(u)' < LockoutAfter THEN Failures(u)'
                                              ELSE LockoutAfter - 1}
  <2>1. authReq'[o] = authReq[o]
    BY <1>10
  <2>2. Guessing(u, o)' <=> Guessing(u, o)
    BY <2>1 DEF Guessing
  <2>3. Below(account'[u].failed, LockoutAfter) =
          IF Failures(u)' < LockoutAfter THEN Failures(u)' ELSE LockoutAfter - 1
    BY <1>0, <1>1, <1>18
  <2> QED
    BY <2>1, <2>2, <2>3 DEF Seen
<1>13. \A o \in Slot : Guessing(u, o) => o \in Busy
  BY DEF Guessing, Busy, Idle
<1>14. load \in Nat
  <2>1. MaxLoad \in Nat
    BY LimitAssumption
  <2> QED
    BY <2>1 DEF TypeOK
<1>15. /\ load = 1 => \A o \in Slot \ {sl} : ~Guessing(u, o)
       /\ load = 2 => \A o, p \in Slot \ {sl} : o # p => ~Guessing(u, o) \/ ~Guessing(u, p)
  <2>1. Busy \in SUBSET Slot /\ sl \in Busy
    BY <1>7, <1>13 DEF Busy
  <2> QED
    BY <1>13, <1>14, <2>1, InFlight
<1>16. Bounded(LockoutAfter, Failures(u)', account'[u].guesses, Reads(u)')
  <2>1. /\ Reads(u)[sl] < LockoutAfter /\ Reads(u)[sl] + 1 <= Failures(u)' /\ Reads(u)'[sl] = LockoutAfter
    BY <1>1, <1>2, <1>8, <1>11 DEF Reads
  <2>2. \A o \in Slot \ {sl} :
           /\ Reads(u)[o] = LockoutAfter <=> Reads(u)'[o] = LockoutAfter
           /\ Reads(u)'[o] \in {Reads(u)[o], IF Failures(u)' < LockoutAfter THEN Failures(u)'
                                             ELSE LockoutAfter - 1}
    <3> SUFFICES ASSUME NEW o \in Slot \ {sl}
        PROVE  /\ Seen(u, o) = LockoutAfter <=> Seen(u, o)' = LockoutAfter
               /\ Seen(u, o)' \in {Seen(u, o), IF Failures(u)' < LockoutAfter THEN Failures(u)'
                                               ELSE LockoutAfter - 1}
      BY DEF Reads
    <3> QED
      BY <1>1, <1>2, <1>12
  <2>3. /\ load = 1 => \A o \in Slot \ {sl} : Reads(u)[o] = LockoutAfter
        /\ load = 2 => \A o, p \in Slot \ {sl} :
                         o # p => Reads(u)[o] = LockoutAfter \/ Reads(u)[p] = LockoutAfter
    <3>1. \A o \in Slot : ~Guessing(u, o) => Reads(u)[o] = LockoutAfter
      BY <1>1, <1>2 DEF Reads
    <3> QED
      BY <1>15, <3>1
  <2>4. Bounded(LockoutAfter, Failures(u), account[u].guesses, Reads(u))
    BY DEF PasswordsBounded
  <2> QED
    <3>1. PICK m, k, j, g, h, R, Q : /\ m = LockoutAfter /\ k = Failures(u) /\ j = Failures(u)'
                                     /\ g = account[u].guesses /\ h = account'[u].guesses
                                     /\ R = Reads(u) /\ Q = Reads(u)'
      OBVIOUS
    <3>2. /\ m \in Nat \ {0} /\ k \in 0..m /\ j \in 0..m /\ g \in Nat /\ h \in Nat /\ h <= g + 1
          /\ R \in [Slot -> 0..m] /\ Q \in [Slot -> 0..m]
      BY <1>1, <1>2, <1>9, <3>1
    <3>3. /\ R[sl] < m /\ R[sl] + 1 <= j /\ Q[sl] = m
      BY <2>1, <3>1
    <3>4. \A o \in Slot \ {sl} : /\ R[o] = m <=> Q[o] = m
                                 /\ Q[o] \in {R[o], IF j < m THEN j ELSE m - 1}
      BY <2>2, <3>1
    <3>5. /\ load = 1 => \A o \in Slot \ {sl} : R[o] = m
          /\ load = 2 => \A o, p \in Slot \ {sl} : o # p => R[o] = m \/ R[p] = m
      BY <2>3, <3>1
    <3>6. Bounded(m, k, g, R)
      BY <2>4, <3>1
    <3>7. Bounded(m, j, h, Q)
      BY <3>2, <3>3, <3>4, <3>5, <3>6, WroteGuess
    <3> QED
      BY <3>1, <3>7
<1>17. load = 2 => \A o, p \in Slot : o # p => ~(Guessing(u, o)' /\ Guessing(u, p)')
  BY <1>11, <1>12, <1>15
<1> QED
  BY <1>16, <1>17 DEF PasswordsBounded, Bounded

(* A request that moves on without a guess                                 *)
LEMMA MovedOn ==
  ASSUME TypeOK, TypeOK', load' = load, NEW sl \in Slot, NEW q, Proceed(sl, q),
         q.op \notin {"compare", "failed"},
         NEW u \in User, PasswordsBounded(u), SameCount(u)
  PROVE  PasswordsBounded(u)'
<1>1. authReq' = [authReq EXCEPT ![sl] = q] /\ authReq \in [Slot -> Request]
  BY DEF Proceed, TypeOK
<1>2. ~Guessing(u, sl)'
  BY <1>1 DEF Guessing
<1>3. \A o \in Slot \ {sl} : Seen(u, o)' = Seen(u, o)
  BY <1>1 DEF Seen, Guessing, SameCount
<1> QED
  BY <1>2, <1>3, SameAccount

(* Steps of a slot that leave what an account counts                       *)
LEMMA QuietAccounts ==
  ASSUME TypeInv, TypeInv', NEW sl \in Slot, NEW u \in User, PasswordsBounded(u),
         \/ \E v \in User : BeginForgot(sl, v) \/ BeginRemove(sl, v) \/ BeginRestore(sl, v)
         \/ \E s \in Session : BeginRefresh(sl, s)
         \/ \E t \in Token : BeginReset(sl, t)
         \/ RefuseLogin(sl) \/ ReadScope(sl) \/ IssueTokens(sl) \/ Rotate(sl)
         \/ CreateToken(sl) \/ CommitRemove(sl) \/ SweepSessions(sl) \/ CommitRestore(sl)
  PROVE  PasswordsBounded(u)'
<1> USE DEF TypeInv
<1>1. ASSUME NEW q, Proceed(sl, q), q.op \notin {"compare", "failed"}, UNCHANGED account
      PROVE  PasswordsBounded(u)'
  BY <1>1, MovedOn DEF SameCount, Proceed
<1>2. ASSUME NEW v \in User, BeginForgot(sl, v) \/ BeginRemove(sl, v) \/ BeginRestore(sl, v)
      PROVE  PasswordsBounded(u)'
  BY <1>1, <1>2 DEF BeginForgot, BeginRemove, BeginRestore, Enter, Rows
<1>3. ASSUME NEW s \in Session, BeginRefresh(sl, s)
      PROVE  PasswordsBounded(u)'
  BY <1>1, <1>3 DEF BeginRefresh, Enter, Rows
<1>4. ASSUME NEW t \in Token, BeginReset(sl, t)
      PROVE  PasswordsBounded(u)'
  BY <1>1, <1>4 DEF BeginReset, Enter, Rows
<1>5. CASE RefuseLogin(sl) \/ IssueTokens(sl) \/ CreateToken(sl) \/ SweepSessions(sl)
  BY <1>1, <1>5 DEF RefuseLogin, IssueTokens, CreateToken, SweepSessions, Finish, Idle, Rows
<1>6. CASE ReadScope(sl)
  <2>1. Issued(authReq[sl])
    BY <1>6, Shapes DEF ReadScope
  <2>2. [authReq[sl] EXCEPT !.op = "issue"].op = "issue"
    BY <2>1 DEF Issued
  <2>3. CASE Finish(sl)
    BY <1>1, <1>6, <2>3 DEF ReadScope, Finish, Idle, Rows
  <2>4. CASE Proceed(sl, [authReq[sl] EXCEPT !.op = "issue"])
    BY <1>1, <1>6, <2>2, <2>4 DEF ReadScope, Rows
  <2> QED
    BY <1>6, <2>3, <2>4 DEF ReadScope
<1>7. CASE Rotate(sl)
  BY <1>1, <1>7 DEF Rotate
<1>8. CASE CommitRemove(sl) \/ CommitRestore(sl)
  <2>1. AboutUser(authReq[sl])
    BY <1>8, Shapes DEF CommitRemove, CommitRestore
  <2>2. authReq[sl].user \in User /\ [authReq[sl] EXCEPT !.op = "sweep"].op = "sweep"
    BY <2>1 DEF AboutUser
  <2>3. account \in [User -> AccountRow] /\ account[u] \in AccountRow
    BY DEF TypeOK
  <2>4. SameCount(u)
    BY <1>8, <2>2, <2>3 DEF CommitRemove, CommitRestore, SameCount, AccountRow
  <2>5. CASE CommitRemove(sl)
    BY <2>2, <2>4, <2>5, MovedOn DEF CommitRemove, Proceed
  <2>6. CASE CommitRestore(sl)
    BY <2>4, <2>6, MovedOn DEF CommitRestore, Finish, Proceed, Idle
  <2> QED
    BY <1>8, <2>5, <2>6
<1> QED
  BY <1>2, <1>3, <1>4, <1>5, <1>6, <1>7, <1>8

LEMMA LoginAccounts ==
  ASSUME TypeInv, TypeInv', NEW sl \in Slot, NEW u \in User, NEW v \in User, PasswordsBounded(u),
         BeginLogin(sl, v)
  PROVE  PasswordsBounded(u)'
<1> USE DEF TypeInv
<1>1. PICK right \in BOOLEAN :
        Enter(sl, [op |-> "compare", user |-> v, right |-> right])
  BY DEF BeginLogin
<1>2. /\ authReq' = [authReq EXCEPT ![sl] = [op |-> "compare", user |-> v, right |-> right]]
      /\ load' = load /\ account' = account
      /\ authReq \in [Slot -> Request]
  BY <1>1 DEF BeginLogin, Enter, Proceed, Rows, TypeOK
<1>3. authReq'[sl] = [op |-> "compare", user |-> v, right |-> right]
  BY <1>2
<1>4. \A o \in Slot \ {sl} : Seen(u, o)' = Seen(u, o)
  BY <1>2 DEF Seen, Guessing
<1>5. CASE u = v /\ ~right
  <2>1. Guessing(u, sl)' /\ Seen(u, sl)' = Below(account[u].failed, LockoutAfter)
    BY <1>2, <1>3, <1>5 DEF Seen, Guessing
  <2>2. ~account[u].locked /\ Seen(u, sl)' = Failures(u)
    BY <1>5, <2>1 DEF BeginLogin, Failures
  <2> QED
    BY <1>2, <1>4, <2>2, StartedGuess
<1>6. CASE ~(u = v /\ ~right)
  <2>1. ~Guessing(u, sl)'
    BY <1>3, <1>6 DEF Guessing
  <2> QED
    BY <1>2, <1>4, <2>1, SameAccount DEF SameCount
<1> QED
  BY <1>5, <1>6

LEMMA FailedAccounts ==
  ASSUME TypeInv, TypeInv', NEW sl \in Slot, NEW u \in User, PasswordsBounded(u),
         ReadFailures(sl) \/ CountFailure(sl), Cardinality(Busy) <= load
  PROVE  PasswordsBounded(u)'
<1> USE DEF TypeInv
<1>1. CASE ReadFailures(sl)
  <2>1. authReq[sl].op = "compare" /\ ~authReq[sl].right /\ account' = account /\ load' = load
    BY <1>1 DEF ReadFailures, Rows, Proceed
  <2>2. authReq' = [authReq EXCEPT ![sl] = [op |-> "failed", user |-> authReq[sl].user,
                                            count |-> account[authReq[sl].user].failed]]
    BY <1>1 DEF ReadFailures, Proceed
  <2>3. authReq'[sl] = [op |-> "failed", user |-> authReq[sl].user,
                        count |-> account[authReq[sl].user].failed]
    BY <2>2 DEF TypeOK
  <2>4. Guessing(u, sl)' => Seen(u, sl)' = Seen(u, sl)
    BY <2>1, <2>3 DEF Guessing, Seen
  <2>5. \A o \in Slot \ {sl} : Seen(u, o)' = Seen(u, o)
    BY <2>1, <2>2 DEF Seen, Guessing, TypeOK
  <2> QED
    BY <2>1, <2>4, <2>5, SameAccount DEF SameCount
<1>2. CASE CountFailure(sl)
  <2>1. load' = load
    BY <1>2 DEF CountFailure, Finish, Proceed
  <2>2. CASE u = authReq[sl].user
    BY <1>2, <2>1, <2>2, WrotePassword
  <2>3. CASE u # authReq[sl].user
    <3>1. Failed(authReq[sl])
      BY <1>2, Shapes DEF CountFailure
    <3>2. authReq[sl].user \in User
      BY <3>1 DEF Failed
    <3>3. SameCount(u)
      BY <1>2, <2>3, <3>2 DEF CountFailure, SameCount, TypeOK
    <3> QED
      BY <1>2, <2>1, <3>3, MovedOn DEF CountFailure, Finish, Idle
  <2> QED
    BY <2>2, <2>3
<1> QED
  BY <1>1, <1>2

LEMMA ResetAccounts ==
  ASSUME TypeInv, TypeInv', NEW sl \in Slot, NEW u \in User, PasswordsBounded(u),
         ClearFailures(sl) \/ CommitReset(sl), Cardinality(Busy) <= load
  PROVE  PasswordsBounded(u)'
<1> USE DEF TypeInv
<1> DEFINE q == authReq[sl]
           next == [op |-> "scope", user |-> q.user, from |-> NoSession]
<1>1. /\ Proceed(sl, next) /\ load' = load
      /\ account' = [account EXCEPT ![q.user].failed = 0, ![q.user].locked = FALSE,
                                    ![q.user].guesses = 0]
  BY DEF ClearFailures, CommitReset, Proceed
<1>2. q.user \in User /\ q # Idle /\ q.op # "failed" /\ (q.op = "compare" => q.right)
  <2>1. CASE ClearFailures(sl)
    BY <2>1, Shapes DEF ClearFailures, Compared, Idle
  <2>2. CASE CommitReset(sl)
    BY <2>2, Shapes DEF CommitReset, Resetting, Idle
  <2> QED
    BY <2>1, <2>2
<1>3. CASE u = q.user
  <2>1. account'[u].guesses = 0
    BY <1>1, <1>2, <1>3 DEF TypeOK, AccountRow
  <2>2. authReq' = [authReq EXCEPT ![sl] = next] /\ authReq \in [Slot -> Request]
    BY <1>1 DEF Proceed, TypeOK
  <2>3. ~Guessing(u, sl)' /\ \A o \in Slot \ {sl} : Guessing(u, o)' => o \in Busy
    BY <2>2 DEF Guessing, Busy, Idle
  <2>4. Busy \in SUBSET Slot /\ sl \in Busy
    BY <1>2 DEF Busy
  <2>5. load \in Nat
    <3>1. MaxLoad \in Nat
      BY LimitAssumption
    <3> QED
      BY <3>1 DEF TypeOK
  <2>6. load = 2 => \A o, p \in Slot : o # p => ~(Guessing(u, o)' /\ Guessing(u, p)')
    BY <2>3, <2>4, <2>5, InFlight
  <2> QED
    BY <1>1, <2>1, <2>6, ClearedAccount
<1>4. CASE u # q.user
  <2>1. SameCount(u)
    BY <1>1, <1>2, <1>4 DEF SameCount, TypeOK
  <2>2. next.op \notin {"compare", "failed"}
    OBVIOUS
  <2> QED
    BY <1>1, <2>1, <2>2, MovedOn
<1> QED
  BY <1>3, <1>4

LEMMA AroundAccounts ==
  ASSUME TypeInv, TypeInv', load' = load, NEW u \in User, PasswordsBounded(u),
         \/ \E s \in Session : Logout(s) \/ SessionExpires(s)
         \/ \E t \in Token : TokenExpires(t)
         \/ \E v \in User : LockPasses(v)
         \/ ProcessRestart
         \/ UNCHANGED <<account, authReq>>
  PROVE  PasswordsBounded(u)'
<1> USE DEF TypeInv
<1>1. CASE UNCHANGED <<account, authReq>>
  <2>1. \A o \in Slot : Seen(u, o)' = Seen(u, o)
    BY <1>1 DEF Seen, Guessing
  <2> QED
    BY <1>1, <2>1, SameAccount DEF SameCount
<1>2. CASE ProcessRestart
  <2>1. account' = account /\ \A o \in Slot : ~Guessing(u, o)'
    BY <1>2 DEF ProcessRestart, Guessing, Idle
  <2> QED
    BY <2>1, SameAccount DEF SameCount
<1>3. ASSUME NEW v \in User, LockPasses(v) PROVE PasswordsBounded(u)'
  <2>1. /\ account' = [account EXCEPT ![v].locked = FALSE, ![v].guesses = 0]
        /\ authReq' = authReq /\ account[v].locked
    BY <1>3 DEF LockPasses
  <2>2. \A o \in Slot : Guessing(u, o)' <=> Guessing(u, o)
    BY <2>1 DEF Guessing
  <2>3. CASE u = v
    <3>1. account'[u].guesses = 0
      BY <2>1, <2>3 DEF TypeOK, AccountRow
    <3> QED
      BY <2>1, <2>2, <2>3, <3>1, ClearedAccount DEF PasswordsBounded
  <2>4. CASE u # v
    <3>1. account'[u] = account[u]
      BY <2>1, <2>4 DEF TypeOK
    <3>2. \A o \in Slot : Seen(u, o)' = Seen(u, o)
      BY <2>1, <3>1 DEF Seen, Guessing
    <3> QED
      BY <3>1, <3>2, SameAccount DEF SameCount
  <2> QED
    BY <2>3, <2>4
<1> QED
  BY <1>1, <1>2, <1>3 DEF Logout, SessionExpires, TokenExpires

LEMMA BusyStep ==
  ASSUME TypeInv, [Next]_vars, Cardinality(Busy) <= load
  PROVE  (Cardinality(Busy) <= load)'
<1>1. load \in Nat /\ load' = load
  <2>1. MaxLoad \in Nat
    BY LimitAssumption
  <2> QED
    BY <2>1, LoadStays DEF TypeInv, TypeOK
<1>2. Busy \in SUBSET Slot /\ Busy' \in SUBSET Slot
  BY DEF Busy
<1>3. ASSUME NEW sl \in Slot, NEW q, Proceed(sl, q), authReq[sl] # Idle \/ Cardinality(Busy) < load
      PROVE  Cardinality(Busy') <= load
  <2>1. Busy' \subseteq Busy \cup {sl}
    BY <1>3 DEF Proceed, Busy, TypeInv, TypeOK
  <2>2. sl \in Busy \/ Cardinality(Busy) < load
    BY <1>3 DEF Busy
  <2> QED
    BY <1>1, <1>2, <2>1, <2>2, Crowd
<1>4. ASSUME NEW sl \in Slot, Begin(sl) PROVE Cardinality(Busy') <= load
  BY <1>3, <1>4 DEF Begin, BeginLogin, BeginForgot, BeginRemove, BeginRestore, BeginRefresh,
                    BeginReset, Enter
<1>5. ASSUME NEW sl \in Slot, Step(sl) PROVE Cardinality(Busy') <= load
  <2>1. authReq[sl] # Idle
    BY <1>5 DEF Step, RefuseLogin, ClearFailures, ReadFailures, CountFailure, ReadScope, IssueTokens,
                Rotate, CreateToken, CommitReset, CommitRemove, SweepSessions, CommitRestore, Idle
  <2> QED
    BY <1>3, <1>5, <2>1 DEF Step, RefuseLogin, ClearFailures, ReadFailures, CountFailure, ReadScope,
       IssueTokens, Rotate, CreateToken, CommitReset, CommitRemove, SweepSessions, CommitRestore, Finish
<1>6. CASE UNCHANGED authReq
  BY <1>1, <1>6 DEF Busy
<1>7. CASE ProcessRestart
  <2>1. Busy' = {}
    BY <1>7 DEF ProcessRestart, Busy
  <2> QED
    BY <1>1, <2>1, NoCrowd
<1> QED
  BY <1>1, <1>4, <1>5, <1>6, <1>7 DEF Next, vars, Logout, SessionExpires, TokenExpires, LockPasses

LEMMA AccountsStep == AccountsInv /\ [Next]_vars => AccountsInv'
<1> SUFFICES ASSUME AccountsInv, [Next]_vars PROVE AccountsInv'
  OBVIOUS
<1>1. TypeInv /\ TypeInv' /\ (Cardinality(Busy) <= load)' /\ load' = load
  BY TypeStep, BusyStep, LoadStays DEF AccountsInv
<1>2. ASSUME NEW u \in User PROVE PasswordsBounded(u)'
  <2>1. PasswordsBounded(u) /\ Cardinality(Busy) <= load
    BY DEF AccountsInv
  <2>2. ASSUME NEW sl \in Slot, Begin(sl) PROVE PasswordsBounded(u)'
    BY <1>1, <2>1, <2>2, LoginAccounts, QuietAccounts DEF Begin
  <2>3. ASSUME NEW sl \in Slot, Step(sl) PROVE PasswordsBounded(u)'
    BY <1>1, <2>1, <2>3, FailedAccounts, ResetAccounts, QuietAccounts DEF Step
  <2> QED
    BY <1>1, <2>1, <2>2, <2>3, AroundAccounts DEF Next, vars
<1> QED
  BY <1>1, <1>2 DEF AccountsInv

LEMMA AccountsInit == Init => AccountsInv
<1> SUFFICES ASSUME Init PROVE AccountsInv
  OBVIOUS
<1>1. TypeInv /\ TypeOK
  BY TypeInit DEF TypeInv
<1>2. MaxLoad \in Nat /\ load \in Nat /\ LockoutAfter \in Nat \ {0}
  <2>1. MaxLoad \in Nat /\ LockoutAfter \in Nat \ {0}
    BY LimitAssumption
  <2> QED
    BY <1>1, <2>1 DEF TypeOK
<1>3. Cardinality(Busy) <= load
  <2>1. Busy = {}
    BY DEF Init, Busy
  <2> QED
    BY <1>2, <2>1, NoCrowd
<1>4. ASSUME NEW u \in User PROVE PasswordsBounded(u)
  <2>1. \A o \in Slot : ~Guessing(u, o)
    BY DEF Init, Guessing, Idle
  <2>2. Reads(u) \in [Slot -> 0..LockoutAfter] /\ Failures(u) \in 0..LockoutAfter
    BY <1>1, AccountRead DEF AccountsTyped, AccountTyped
  <2>3. Alone(Reads(u), LockoutAfter)
    BY <2>1 DEF Alone, Reads, Seen
  <2>4. Bounded(LockoutAfter, Failures(u), 0, Reads(u))
    BY <1>2, <2>2, <2>3, Forgotten
  <2>5. account[u].guesses = 0
    BY DEF Init
  <2> QED
    BY <2>1, <2>4, <2>5 DEF PasswordsBounded
<1> QED
  BY <1>1, <1>3, <1>4 DEF AccountsInv

LEMMA AccountsBound == AccountsInv => GuessesBounded
<1> SUFFICES ASSUME AccountsInv, NEW u \in User
    PROVE  /\ load = 1 => account[u].guesses <= LockoutAfter
           /\ load = 2 => account[u].guesses <= OverlapGuesses
  BY DEF GuessesBounded, SerialGuesses
<1>1. LockoutAfter \in Nat \ {0} /\ AccountTyped(u)
  BY AccountRead, LimitAssumption DEF AccountsTyped, AccountsInv, TypeInv
<1>2. Failures(u) \in 0..LockoutAfter /\ account[u].guesses \in Nat
  BY <1>1 DEF AccountTyped
<1>3. Bounded(LockoutAfter, Failures(u), account[u].guesses, Reads(u))
  BY DEF AccountsInv, PasswordsBounded
<1>4. ASSUME load = 1 PROVE account[u].guesses <= LockoutAfter
  BY <1>1, <1>2, <1>3, <1>4 DEF Bounded
<1>5. ASSUME load = 2 PROVE account[u].guesses <= OverlapGuesses
  BY <1>1, <1>2, <1>3, <1>5, HalfOfIt DEF Bounded, OverlapGuesses
<1> QED
  BY <1>4, <1>5

----------------------------------------------------------------------------
(* The sessions of intake forms: types                                     *)
FormUnmade == [status |-> "unmade"]
FormRow ==
  [mobile : Mobile \cup {"ANON"}, otp : Forms!OtpStatus, status : Forms!SessionStatus,
   attempts : 0..MaxAttempts, opened : BOOLEAN, late : BOOLEAN, draft : BOOLEAN, submitted : BOOLEAN,
   guesses : 0..MaxGuesses]
OfSession == {"guess", "verified", "activate", "draft", "photo", "submit", "record", "close", "expire"}

(* The session of a request is there.                                      *)
FormsType ==
  /\ Forms!TypeOK
  /\ \A sl \in Slot : intakeReq[sl].op \in OfSession => formSession[intakeReq[sl].session] # FormUnmade

LEMMA FormLimits ==
  /\ MaxAttempts \in Nat \ {0} /\ MaxGuesses \in Nat /\ MaxLoad \in Nat \ {0}
  /\ 0 \in 0..MaxAttempts /\ 0 \in 0..MaxGuesses
BY SessionsAssumption DEF Forms!LimitAssumption

LEMMA LoadIsNat == load \in 1..MaxLoad => load \in Nat
BY FormLimits

LEMMA FormMade ==
  ASSUME Forms!TypeOK, NEW s \in FormSession
  PROVE  /\ formSession[s] # FormUnmade => formSession[s] \in FormRow
         /\ formSession[s] \in FormRow => formSession[s] # FormUnmade
         /\ formSession[s].status \in Forms!SessionStatus => formSession[s] # FormUnmade
<1>1. formSession[s] \in Forms!SessionRow
  BY DEF Forms!TypeOK
<1>2. formSession[s] \in FormRow => formSession[s].status \in Forms!SessionStatus
  BY DEF FormRow
<1>3. FormUnmade.status \notin Forms!SessionStatus
  BY DEF FormUnmade, Forms!SessionStatus
<1> QED
  BY <1>1, <1>2, <1>3 DEF Forms!SessionRow, Forms!Unmade, FormUnmade, FormRow

LEMMA FormRequests ==
  ASSUME Forms!TypeOK, NEW sl \in Slot
  PROVE  /\ intakeReq[sl].op \in OfSession => intakeReq[sl].session \in FormSession
         /\ intakeReq[sl].op = "guess" =>
              intakeReq[sl] \in [op : {"guess"}, session : FormSession, read : Forms!Snapshot]
         /\ intakeReq[sl].op = "activate" => intakeReq[sl].carried \in BOOLEAN
         /\ intakeReq[sl].op = "start" => intakeReq[sl].mobile \in Mobile
BY DEF Forms!TypeOK, Forms!Request, Forms!Idle, OfSession

LEMMA FormSnapshot ==
  ASSUME NEW r \in FormRow
  PROVE  /\ r.mobile \in Mobile \cup {"ANON"} /\ r.otp \in Forms!OtpStatus
         /\ r.status \in Forms!SessionStatus /\ r.attempts \in 0..MaxAttempts
         /\ r.opened \in BOOLEAN /\ r.late \in BOOLEAN /\ r.draft \in BOOLEAN
         /\ r.submitted \in BOOLEAN /\ r.guesses \in 0..MaxGuesses
BY DEF FormRow

(* A slot goes on, on a session whose row stays there                      *)
SlotGoes(sl, s, row, q) ==
  /\ formSession' = [formSession EXCEPT ![s] = row]
  /\ intakeReq' = [intakeReq EXCEPT ![sl] = q]
  /\ load' = load

LEMMA SlotGoesType ==
  ASSUME FormsType, NEW sl \in Slot, NEW s \in FormSession, NEW row \in FormRow, NEW q \in Forms!Request,
         SlotGoes(sl, s, row, q), ticket' \in [Ticket -> Forms!TicketRow],
         q.op \in OfSession => q.session = s
  PROVE  /\ FormsType'
         /\ formSession'[s] = row /\ intakeReq'[sl] = q
         /\ \A o \in Slot \ {sl} : intakeReq'[o] = intakeReq[o]
         /\ \A t \in FormSession \ {s} : formSession'[t] = formSession[t]
<1> USE DEF SlotGoes
<1>1. /\ formSession'[s] = row /\ intakeReq'[sl] = q
      /\ \A o \in Slot \ {sl} : intakeReq'[o] = intakeReq[o]
      /\ \A t \in FormSession \ {s} : formSession'[t] = formSession[t]
  BY DEF FormsType, Forms!TypeOK
<1>2. row \in Forms!SessionRow /\ row # FormUnmade
  <2>1. row.status \in Forms!SessionStatus
    BY FormSnapshot
  <2>2. FormUnmade.status \notin Forms!SessionStatus
    BY DEF FormUnmade, Forms!SessionStatus
  <2> QED
    BY <2>1, <2>2 DEF Forms!SessionRow, FormRow
<1>3. Forms!TypeOK'
  BY <1>2 DEF FormsType, Forms!TypeOK
<1>4. ASSUME NEW o \in Slot, intakeReq'[o].op \in OfSession
      PROVE  formSession'[intakeReq'[o].session] # FormUnmade
  <2>1. CASE o = sl
    BY <1>1, <1>2, <1>4, <2>1
  <2>2. CASE o # sl
    <3>1. intakeReq[o].session \in FormSession /\ formSession[intakeReq[o].session] # FormUnmade
      BY <1>1, <1>4, <2>2, FormRequests DEF FormsType
    <3> QED
      BY <1>1, <1>2, <2>2, <3>1
  <2> QED
    BY <2>1, <2>2
<1> QED
  BY <1>1, <1>3, <1>4 DEF FormsType

----------------------------------------------------------------------------
(* Wrong codes                                                             *)
Codes(s) == IF formSession[s].late THEN MaxAttempts ELSE Below(formSession[s].attempts, MaxAttempts)
Coding(s, sl) == intakeReq[sl].op = "guess" /\ intakeReq[sl].session = s
CodeSeen(s, sl) == IF Coding(s, sl) THEN Below(intakeReq[sl].read.attempts, MaxAttempts) ELSE MaxAttempts
CodeReads(s) == [sl \in Slot |-> CodeSeen(s, sl)]

CodesBounded(s) == Bounded(MaxAttempts, Codes(s), formSession[s].guesses, CodeReads(s))

CodesTyped(s) ==
  /\ CodeReads(s) \in [Slot -> 0..MaxAttempts]
  /\ \A sl \in Slot : CodeSeen(s, sl) \in 0..MaxAttempts /\ (Coding(s, sl) <=> CodeSeen(s, sl) < MaxAttempts)
  /\ formSession[s] # FormUnmade =>
       /\ formSession[s].guesses \in Nat
       /\ Codes(s) \in 0..MaxAttempts
       /\ ~formSession[s].late => Codes(s) < MaxAttempts
AllCodesTyped == \A s \in FormSession : CodesTyped(s)

LEMMA BelowBounds ==
  ASSUME NEW n \in 0..MaxAttempts
  PROVE  Below(n, MaxAttempts) \in 0..MaxAttempts /\ Below(n, MaxAttempts) < MaxAttempts
BY FormLimits DEF Below

LEMMA CodesRead == Forms!TypeOK => AllCodesTyped
<1> SUFFICES ASSUME Forms!TypeOK, NEW s \in FormSession PROVE CodesTyped(s)
  BY DEF AllCodesTyped
<1>1. ASSUME NEW sl \in Slot
      PROVE  CodeSeen(s, sl) \in 0..MaxAttempts /\ (Coding(s, sl) <=> CodeSeen(s, sl) < MaxAttempts)
  <2>1. CASE Coding(s, sl)
    <3>1. intakeReq[sl].read \in Forms!Snapshot
      BY <2>1, FormRequests DEF Coding
    <3>2. intakeReq[sl].read.attempts \in 0..MaxAttempts
      BY <3>1 DEF Forms!Snapshot
    <3> QED
      BY <2>1, <3>2, BelowBounds DEF CodeSeen
  <2>2. CASE ~Coding(s, sl)
    BY <2>2, FormLimits DEF CodeSeen
  <2> QED
    BY <2>1, <2>2
<1>2. ASSUME formSession[s] # FormUnmade
      PROVE  /\ formSession[s].guesses \in Nat
             /\ Codes(s) \in 0..MaxAttempts
             /\ ~formSession[s].late => Codes(s) < MaxAttempts
  <2>1. /\ formSession[s].attempts \in 0..MaxAttempts /\ formSession[s].late \in BOOLEAN
        /\ formSession[s].guesses \in 0..MaxGuesses
    BY <1>2, FormMade, FormSnapshot
  <2> QED
    BY <2>1, FormLimits, BelowBounds DEF Codes
<1> QED
  BY <1>1, <1>2 DEF CodesTyped, CodeReads

LEMMA CodesReadNext == Forms!TypeOK' => AllCodesTyped'
BY CodesRead, PTL

(* Nobody starts to guess, and the row stays or runs out                   *)
LEMMA QuietCodes ==
  ASSUME Forms!TypeOK, Forms!TypeOK', load' = load, NEW s \in FormSession, CodesBounded(s),
         formSession[s] # FormUnmade, formSession'[s] # FormUnmade,
         formSession'[s].attempts = formSession[s].attempts,
         formSession'[s].guesses = formSession[s].guesses,
         formSession[s].late => formSession'[s].late,
         \A o \in Slot : Coding(s, o)' => CodeSeen(s, o)' = CodeSeen(s, o)
  PROVE  CodesBounded(s)'
<1>1. CodesTyped(s) /\ CodesTyped(s)' /\ MaxAttempts \in Nat \ {0}
  BY CodesRead, CodesReadNext, FormLimits DEF AllCodesTyped
<1>2. /\ CodeReads(s) \in [Slot -> 0..MaxAttempts] /\ CodeReads(s)' \in [Slot -> 0..MaxAttempts]
      /\ Codes(s) \in 0..MaxAttempts /\ Codes(s)' \in 0..MaxAttempts
      /\ formSession[s].guesses \in Nat
      /\ \A o \in Slot : Coding(s, o)' <=> CodeSeen(s, o)' < MaxAttempts
      /\ \A o \in Slot : CodeSeen(s, o)' \in 0..MaxAttempts
  BY <1>1 DEF CodesTyped
<1>3. Codes(s)' \in {Codes(s), MaxAttempts}
  BY DEF Codes
<1>4. \A o \in Slot : CodeReads(s)'[o] \in {CodeReads(s)[o], MaxAttempts}
  <2> SUFFICES ASSUME NEW o \in Slot PROVE CodeSeen(s, o)' \in {CodeSeen(s, o), MaxAttempts}
    BY DEF CodeReads
  <2> QED
    BY <1>1, <1>2
<1>5. Bounded(MaxAttempts, Codes(s)', formSession[s].guesses, CodeReads(s)')
  BY <1>1, <1>2, <1>3, <1>4, Unguessed DEF CodesBounded
<1> QED
  BY <1>5 DEF CodesBounded, Bounded

(* The row is new or the code was right: nobody else guesses, or one       *)
LEMMA ClearedCodes ==
  ASSUME Forms!TypeOK', load' = load, NEW s \in FormSession,
         formSession'[s] # FormUnmade, formSession'[s].guesses = 0,
         load = 2 => \A o, p \in Slot : o # p => ~(Coding(s, o)' /\ Coding(s, p)')
  PROVE  CodesBounded(s)'
<1>1. CodesTyped(s)' /\ MaxAttempts \in Nat \ {0}
  BY CodesReadNext, FormLimits DEF AllCodesTyped
<1>2. /\ CodeReads(s)' \in [Slot -> 0..MaxAttempts] /\ Codes(s)' \in 0..MaxAttempts
      /\ \A o \in Slot : Coding(s, o)' <=> CodeSeen(s, o)' < MaxAttempts
      /\ \A o \in Slot : CodeSeen(s, o)' \in 0..MaxAttempts
  BY <1>1 DEF CodesTyped
<1>3. load = 2 => Alone(CodeReads(s)', MaxAttempts)
  <2> SUFFICES ASSUME load = 2, NEW o \in Slot, NEW p \in Slot, o # p
      PROVE  CodeSeen(s, o)' = MaxAttempts \/ CodeSeen(s, p)' = MaxAttempts
    BY DEF Alone, CodeReads
  <2> QED
    BY <1>1, <1>2
<1>4. Bounded(MaxAttempts, Codes(s)', 0, CodeReads(s)')
  BY <1>1, <1>2, <1>3, Forgotten
<1> QED
  BY <1>4 DEF CodesBounded, Bounded

(* verifyOtp reads the row                                                 *)
LEMMA StartedCode ==
  ASSUME Forms!TypeOK, Forms!TypeOK', load' = load, NEW s \in FormSession, CodesBounded(s),
         formSession[s] # FormUnmade, formSession'[s] = formSession[s], ~formSession[s].late,
         NEW sl \in Slot, CodeSeen(s, sl)' = Codes(s),
         \A o \in Slot \ {sl} : CodeSeen(s, o)' = CodeSeen(s, o)
  PROVE  CodesBounded(s)'
<1>1. CodesTyped(s) /\ CodesTyped(s)' /\ MaxAttempts \in Nat \ {0}
  BY CodesRead, CodesReadNext, FormLimits DEF AllCodesTyped
<1>2. /\ CodeReads(s) \in [Slot -> 0..MaxAttempts] /\ CodeReads(s)' \in [Slot -> 0..MaxAttempts]
      /\ Codes(s) \in 0..MaxAttempts /\ Codes(s) < MaxAttempts
      /\ formSession[s].guesses \in Nat
  BY <1>1 DEF CodesTyped
<1>3. CodeReads(s)'[sl] = Codes(s) /\ \A o \in Slot \ {sl} : CodeReads(s)'[o] = CodeReads(s)[o]
  BY DEF CodeReads
<1>4. Bounded(MaxAttempts, Codes(s), formSession[s].guesses, CodeReads(s)')
  BY <1>1, <1>2, <1>3, ReadRow DEF CodesBounded
<1>5. Codes(s)' = Codes(s)
  BY DEF Codes
<1> QED
  BY <1>4, <1>5 DEF CodesBounded, Bounded

(* A wrong code is written                                                 *)
LEMMA WroteCode ==
  ASSUME Forms!TypeOK, Forms!TypeOK', load' = load, NEW s \in FormSession, CodesBounded(s),
         formSession[s] # FormUnmade, formSession'[s] # FormUnmade, NEW sl \in Slot, Coding(s, sl),
         CodeSeen(s, sl) + 1 <= Codes(s)', formSession'[s].guesses <= formSession[s].guesses + 1,
         ~Coding(s, sl)', \A o \in Slot \ {sl} : intakeReq'[o] = intakeReq[o],
         Cardinality(Forms!Busy) <= load
  PROVE  CodesBounded(s)'
<1>1. CodesTyped(s) /\ CodesTyped(s)' /\ MaxAttempts \in Nat \ {0}
  BY CodesRead, CodesReadNext, FormLimits DEF AllCodesTyped
<1>2. /\ CodeReads(s) \in [Slot -> 0..MaxAttempts] /\ CodeReads(s)' \in [Slot -> 0..MaxAttempts]
      /\ Codes(s) \in 0..MaxAttempts /\ Codes(s)' \in 0..MaxAttempts
      /\ formSession[s].guesses \in Nat /\ formSession'[s].guesses \in Nat
      /\ \A o \in Slot : Coding(s, o) <=> CodeSeen(s, o) < MaxAttempts
      /\ \A o \in Slot : Coding(s, o)' <=> CodeSeen(s, o)' < MaxAttempts
      /\ \A o \in Slot : CodeSeen(s, o) \in 0..MaxAttempts /\ CodeSeen(s, o)' \in 0..MaxAttempts
  BY <1>1 DEF CodesTyped
<1>3. \A o \in Slot \ {sl} : CodeSeen(s, o)' = CodeSeen(s, o)
  BY DEF CodeSeen, Coding
<1>4. \A o \in Slot : Coding(s, o) => o \in Forms!Busy
  BY DEF Coding, Forms!Busy, Forms!Idle
<1>5. /\ load = 1 => \A o \in Slot \ {sl} : ~Coding(s, o)
      /\ load = 2 => \A o, p \in Slot \ {sl} : o # p => ~Coding(s, o) \/ ~Coding(s, p)
  <2>1. Forms!Busy \in SUBSET Slot /\ sl \in Forms!Busy /\ load \in Nat
    BY <1>4, LoadIsNat DEF Forms!Busy, Forms!TypeOK
  <2> QED
    BY <1>4, <2>1, InFlight
<1>6. PICK m, k, j, g, h, R, Q : /\ m = MaxAttempts /\ k = Codes(s) /\ j = Codes(s)'
                                 /\ g = formSession[s].guesses /\ h = formSession'[s].guesses
                                 /\ R = CodeReads(s) /\ Q = CodeReads(s)'
  OBVIOUS
<1>7. /\ m \in Nat \ {0} /\ k \in 0..m /\ j \in 0..m /\ g \in Nat /\ h \in Nat /\ h <= g + 1
      /\ R \in [Slot -> 0..m] /\ Q \in [Slot -> 0..m]
  BY <1>1, <1>2, <1>6
<1>8. /\ \A o \in Slot : R[o] = CodeSeen(s, o) /\ Q[o] = CodeSeen(s, o)'
  BY <1>6 DEF CodeReads
<1>9. R[sl] < m /\ R[sl] + 1 <= j /\ Q[sl] = m
  BY <1>1, <1>2, <1>6, <1>8
<1>10. \A o \in Slot \ {sl} : /\ R[o] = m <=> Q[o] = m
                              /\ Q[o] \in {R[o], IF j < m THEN j ELSE m - 1}
  BY <1>3, <1>8
<1>11. \A o \in Slot : ~Coding(s, o) => R[o] = m
  BY <1>1, <1>2, <1>6, <1>8
<1>12. /\ load = 1 => \A o \in Slot \ {sl} : R[o] = m
       /\ load = 2 => \A o, p \in Slot \ {sl} : o # p => R[o] = m \/ R[p] = m
  BY <1>5, <1>11
<1>13. Bounded(m, k, g, R)
  BY <1>6 DEF CodesBounded
<1>14. Bounded(m, j, h, Q)
  BY <1>7, <1>9, <1>10, <1>12, <1>13, WroteGuess
<1>15. Bounded(MaxAttempts, Codes(s)', formSession'[s].guesses, CodeReads(s)')
  BY <1>6, <1>14
<1> QED
  BY <1>15 DEF CodesBounded, Bounded

(* What a row, and a request of it, promise                                *)
RowGood(r) ==
  /\ r.status = "SUBMITTED" => r.submitted
  /\ load = 1 => /\ r.status = "DRAFT" => r.draft
                 /\ r.otp \in {"EXPIRED", "FAILED"} => r.late

RequestGood(q, r) ==
  /\ q.op = "close" => r.submitted
  /\ q.op = "guess" /\ q.read.status = "SUBMITTED" => r.submitted
  /\ load = 1 =>
       /\ q.op = "guess" => q.read.otp = r.otp /\ q.read.status = r.status /\ q.read.late = r.late
       /\ q.op \in {"guess", "verified", "activate"} => r.otp \notin {"EXPIRED", "FAILED"}

TicketGood(k) == ticket[k].where = "held" \/ ticket[k].where = "gone" =>
                   /\ ticket[k].uses \in Nat /\ ticket[k].uses <= 1
                   /\ ticket[k].where = "held" => ticket[k].uses = 0

FormsInv ==
  /\ FormsType
  /\ Cardinality(Forms!Busy) <= load
  /\ \A s \in FormSession : formSession[s] # FormUnmade => RowGood(formSession[s]) /\ CodesBounded(s)
  /\ \A sl \in Slot : intakeReq[sl].op \in OfSession =>
       RequestGood(intakeReq[sl], formSession[intakeReq[sl].session])
  /\ \A k \in Ticket : TicketGood(k)

LEMMA FormAlone ==
  ASSUME FormsInv, load = 1, NEW sl \in Slot,
         intakeReq[sl] # Forms!Idle \/ Cardinality(Forms!Busy) < load
  PROVE  \A o \in Slot \ {sl} : intakeReq[o] = Forms!Idle
<1>1. IsFiniteSet(Slot) /\ Forms!Busy \in SUBSET Slot
  BY LimitAssumption DEF Forms!Busy
<1>2. IsFiniteSet(Forms!Busy) /\ Cardinality(Forms!Busy) \in Nat
  BY <1>1, FS_Subset, FS_CardinalityType
<1>3. CASE intakeReq[sl] # Forms!Idle
  <2>1. \A o, p \in Forms!Busy : o = p
    BY <1>1, InFlight DEF FormsInv
  <2> QED
    BY <1>3, <2>1 DEF Forms!Busy
<1>4. CASE Cardinality(Forms!Busy) < load
  <2>1. Forms!Busy = {}
    BY <1>2, <1>4, FS_EmptySet
  <2> QED
    BY <2>1 DEF Forms!Busy
<1> QED
  BY <1>3, <1>4

(* A step of a slot on one session keeps the invariant if it does of that   *)
(* session                                                                 *)
LEMMA SlotGoesInv ==
  ASSUME FormsInv, NEW sl \in Slot, NEW s \in FormSession, NEW row \in FormRow, NEW q \in Forms!Request,
         SlotGoes(sl, s, row, q), ticket' \in [Ticket -> Forms!TicketRow],
         formSession[s] # FormUnmade,
         q.op \in OfSession => q.session = s /\ RequestGood(q, row),
         intakeReq[sl] # Forms!Idle \/ Cardinality(Forms!Busy) < load,
         formSession[s].submitted => row.submitted,
         RowGood(row), CodesBounded(s)', \A k \in Ticket : TicketGood(k)'
  PROVE  FormsInv'
<1>0. FormsType /\ load' = load /\ (q.op \in OfSession => q.session = s)
  BY DEF FormsInv, SlotGoes
<1>1. /\ FormsType'
      /\ formSession'[s] = row /\ intakeReq'[sl] = q
      /\ \A o \in Slot \ {sl} : intakeReq'[o] = intakeReq[o]
      /\ \A t \in FormSession \ {s} : formSession'[t] = formSession[t]
      /\ load' = load
  BY <1>0, SlotGoesType
<1>2. load \in Nat /\ Forms!Busy \in SUBSET Slot /\ Forms!Busy' \in SUBSET Slot
  BY LoadIsNat DEF FormsInv, FormsType, Forms!TypeOK, Forms!Busy
<1>3. (Cardinality(Forms!Busy) <= load)'
  <2>1. Forms!Busy' \subseteq Forms!Busy \cup {sl}
    BY <1>1 DEF Forms!Busy
  <2>2. sl \in Forms!Busy \/ Cardinality(Forms!Busy) < load
    BY DEF Forms!Busy
  <2>3. Cardinality(Forms!Busy') <= load
    BY <1>2, <2>1, <2>2, Crowd DEF FormsInv
  <2> QED
    BY <1>1, <2>3
<1>4. ASSUME NEW t \in FormSession, formSession'[t] # FormUnmade
      PROVE  RowGood(formSession[t])' /\ CodesBounded(t)'
  <2>1. CASE t = s
    BY <1>1, <2>1 DEF RowGood
  <2>2. CASE t # s
    <3>1. formSession'[t] = formSession[t] /\ RowGood(formSession[t]) /\ CodesBounded(t)
      BY <1>1, <1>4, <2>2 DEF FormsInv
    <3>2. ~Coding(t, sl)' /\ \A o \in Slot \ {sl} : CodeSeen(t, o)' = CodeSeen(t, o)
      BY <1>1, <2>2 DEF Coding, CodeSeen, OfSession
    <3>3. Forms!TypeOK /\ Forms!TypeOK'
      BY <1>1 DEF FormsInv, FormsType
    <3>4. CodesBounded(t)'
      BY <1>1, <1>4, <3>1, <3>2, <3>3, QuietCodes
    <3> QED
      BY <1>1, <3>1, <3>4 DEF RowGood
  <2> QED
    BY <2>1, <2>2
<1>5. ASSUME NEW o \in Slot, intakeReq'[o].op \in OfSession
      PROVE  RequestGood(intakeReq[o], formSession[intakeReq[o].session])'
  <2>1. CASE o = sl
    BY <1>1, <1>5, <2>1 DEF RequestGood
  <2>2. CASE o # sl
    <3>1. /\ intakeReq'[o] = intakeReq[o] /\ intakeReq[o].session \in FormSession
          /\ RequestGood(intakeReq[o], formSession[intakeReq[o].session])
      BY <1>1, <1>5, <2>2, FormRequests DEF FormsInv, FormsType
    <3>2. formSession[intakeReq[o].session].submitted => formSession'[intakeReq[o].session].submitted
      BY <1>1, <3>1
    <3>3. load # 1
      <4>1. intakeReq[o] # Forms!Idle
        BY <1>5, <3>1 DEF Forms!Idle, OfSession
      <4> QED
        BY <2>2, <4>1, FormAlone
    <3> QED
      BY <1>1, <3>1, <3>2, <3>3 DEF RequestGood
  <2> QED
    BY <2>1, <2>2
<1> QED
  BY <1>1, <1>3, <1>4, <1>5 DEF FormsInv

LEMMA TicketsStay ==
  ASSUME FormsInv, ticket' = ticket
  PROVE  ticket' \in [Ticket -> Forms!TicketRow] /\ \A k \in Ticket : TicketGood(k)'
BY DEF FormsInv, FormsType, Forms!TypeOK, TicketGood

(* A step that leaves the session, or moves it without a new guess          *)
LEMMA SlotGoesQuiet ==
  ASSUME FormsInv, NEW sl \in Slot, NEW s \in FormSession, NEW row \in FormRow, NEW q \in Forms!Request,
         SlotGoes(sl, s, row, q), ticket' \in [Ticket -> Forms!TicketRow],
         formSession[s] # FormUnmade, q.op # "guess",
         q.op \in OfSession => q.session = s /\ RequestGood(q, row),
         intakeReq[sl] # Forms!Idle \/ Cardinality(Forms!Busy) < load,
         formSession[s].submitted => row.submitted,
         row.attempts = formSession[s].attempts, row.guesses = formSession[s].guesses,
         formSession[s].late => row.late,
         RowGood(row), \A k \in Ticket : TicketGood(k)'
  PROVE  FormsInv'
<1>0. FormsType /\ load' = load /\ (q.op \in OfSession => q.session = s)
  BY DEF FormsInv, SlotGoes
<1>1. /\ FormsType' /\ FormsType
      /\ formSession'[s] = row /\ intakeReq'[sl] = q
      /\ \A o \in Slot \ {sl} : intakeReq'[o] = intakeReq[o]
      /\ load' = load
  BY <1>0, SlotGoesType
<1>2. row # FormUnmade
  <2>1. row.status \in Forms!SessionStatus /\ FormUnmade.status \notin Forms!SessionStatus
    BY FormSnapshot DEF FormUnmade, Forms!SessionStatus
  <2> QED
    BY <2>1
<1>3. ~Coding(s, sl)' /\ \A o \in Slot \ {sl} : CodeSeen(s, o)' = CodeSeen(s, o)
  BY <1>1 DEF Coding, CodeSeen
<1>4. CodesBounded(s)
  BY DEF FormsInv
<1>5. CodesBounded(s)'
  BY <1>1, <1>2, <1>3, <1>4, QuietCodes DEF FormsType
<1> QED
  BY <1>5, SlotGoesInv

(* A step that changes no row                                              *)
LEMMA SlotOnly ==
  ASSUME FormsInv, NEW sl \in Slot, NEW s \in FormSession, NEW q \in Forms!Request,
         formSession' = formSession, Forms!Proceed(sl, q), ticket' \in [Ticket -> Forms!TicketRow],
         formSession[s] # FormUnmade, q.op # "guess",
         q.op \in OfSession => q.session = s /\ RequestGood(q, formSession[s]),
         intakeReq[sl] # Forms!Idle \/ Cardinality(Forms!Busy) < load,
         \A k \in Ticket : TicketGood(k)'
  PROVE  FormsInv'
<1>1. formSession[s] \in FormRow /\ RowGood(formSession[s])
  BY FormMade DEF FormsInv, FormsType
<1>2. SlotGoes(sl, s, formSession[s], q)
  BY DEF SlotGoes, Forms!Proceed, FormsInv, FormsType, Forms!TypeOK
<1>3. PICK row \in FormRow : row = formSession[s]
  BY <1>1
<1> QED
  BY <1>1, <1>2, <1>3, SlotGoesQuiet

(* Sessions are created; requests that are about none come and go           *)
LEMMA FormsGrow ==
  ASSUME FormsInv, load' = load, formSession' \in [FormSession -> Forms!SessionRow],
         intakeReq' \in [Slot -> Forms!Request],
         ticket' \in [Ticket -> Forms!TicketRow], \A k \in Ticket : TicketGood(k)',
         (Cardinality(Forms!Busy) <= load)',
         \A s \in FormSession :
           \/ formSession'[s] = formSession[s]
           \/ /\ formSession[s] = FormUnmade /\ formSession'[s] # FormUnmade
              /\ formSession'[s].guesses = 0 /\ formSession'[s].status \notin {"SUBMITTED", "DRAFT"}
              /\ formSession'[s].otp \notin {"EXPIRED", "FAILED"},
         \A sl \in Slot : intakeReq'[sl] = intakeReq[sl] \/ intakeReq'[sl].op \notin OfSession
  PROVE  FormsInv'
<1>1. Forms!TypeOK /\ Forms!TypeOK'
  BY DEF FormsInv, FormsType, Forms!TypeOK
<1>2. ASSUME NEW sl \in Slot, intakeReq'[sl].op \in OfSession
      PROVE  /\ intakeReq'[sl] = intakeReq[sl] /\ intakeReq[sl].session \in FormSession
             /\ formSession[intakeReq[sl].session] # FormUnmade
             /\ formSession'[intakeReq[sl].session] = formSession[intakeReq[sl].session]
  <2>1. intakeReq'[sl] = intakeReq[sl] /\ intakeReq[sl].session \in FormSession
    BY <1>1, <1>2, FormRequests
  <2>2. formSession[intakeReq[sl].session] # FormUnmade
    BY <1>2, <2>1 DEF FormsInv, FormsType
  <2> QED
    BY <2>1, <2>2
<1>3. FormsType'
  BY <1>1, <1>2 DEF FormsType
<1>4. ASSUME NEW s \in FormSession, formSession'[s] # FormUnmade
      PROVE  RowGood(formSession[s])' /\ CodesBounded(s)'
  <2>1. CASE formSession'[s] = formSession[s]
    <3>1. RowGood(formSession[s]) /\ CodesBounded(s)
      BY <1>4, <2>1 DEF FormsInv
    <3>2. \A o \in Slot : Coding(s, o)' => CodeSeen(s, o)' = CodeSeen(s, o)
      BY DEF Coding, CodeSeen, OfSession
    <3>3. CodesBounded(s)'
      BY <1>1, <1>4, <2>1, <3>1, <3>2, QuietCodes
    <3> QED
      BY <2>1, <3>1, <3>3 DEF RowGood
  <2>2. CASE formSession[s] = FormUnmade /\ formSession'[s] # formSession[s]
    <3>1. \A o \in Slot : ~Coding(s, o)'
      BY <1>2, <2>2 DEF Coding, OfSession
    <3>2. CodesBounded(s)'
      BY <1>1, <1>4, <2>2, <3>1, ClearedCodes
    <3> QED
      BY <2>2, <3>2 DEF RowGood
  <2> QED
    BY <2>1, <2>2
<1>5. ASSUME NEW sl \in Slot, intakeReq'[sl].op \in OfSession
      PROVE  RequestGood(intakeReq[sl], formSession[intakeReq[sl].session])'
  <2>1. RequestGood(intakeReq[sl], formSession[intakeReq[sl].session])
    BY <1>2, <1>5 DEF FormsInv
  <2> QED
    BY <1>2, <1>5, <2>1 DEF RequestGood
<1> QED
  BY <1>3, <1>4, <1>5 DEF FormsInv

LEMMA NewSessionRow ==
  ASSUME NEW mobile \in Mobile \cup {"ANON"}, NEW otp \in {"PENDING", "VERIFIED"},
         NEW status \in {"OTP_PENDING", "VERIFIED"}
  PROVE  /\ Forms!NewSession(mobile, otp, status) \in FormRow
         /\ Forms!NewSession(mobile, otp, status).guesses = 0
         /\ Forms!NewSession(mobile, otp, status).status = status
         /\ Forms!NewSession(mobile, otp, status).otp = otp
BY FormLimits DEF Forms!NewSession, FormRow, Forms!OtpStatus, Forms!SessionStatus

LEMMA FormCrowd ==
  ASSUME FormsInv, load' = load, NEW sl \in Slot, NEW q,
         intakeReq' = [intakeReq EXCEPT ![sl] = q],
         intakeReq[sl] # Forms!Idle \/ Cardinality(Forms!Busy) < load
  PROVE  (Cardinality(Forms!Busy) <= load)'
<1>1. load \in Nat /\ Forms!Busy \in SUBSET Slot /\ Forms!Busy' \in SUBSET Slot
  BY LoadIsNat DEF FormsInv, FormsType, Forms!TypeOK, Forms!Busy
<1>2. Forms!Busy' \subseteq Forms!Busy \cup {sl}
  BY DEF Forms!Busy, FormsInv, FormsType, Forms!TypeOK
<1>3. sl \in Forms!Busy \/ Cardinality(Forms!Busy) < load
  BY DEF Forms!Busy
<1>4. Cardinality(Forms!Busy') <= load
  BY <1>1, <1>2, <1>3, Crowd DEF FormsInv
<1> QED
  BY <1>4

LEMMA IdleForms == Forms!Idle \in Forms!Request /\ Forms!Idle.op \notin OfSession /\ Forms!Idle.op # "guess"
BY DEF Forms!Request, Forms!Idle, OfSession

(* Cardinality, as Forms sees it through its instance.                     *)
LEMMA FormsCount == \A S : Forms!Cardinality(S) = Cardinality(S)
  BY DEF Forms!Cardinality, Cardinality

LEMMA EnteredForm ==
  ASSUME NEW sl \in Slot, NEW q, Forms!Enter(sl, q)
  PROVE  Forms!Proceed(sl, q) /\ Cardinality(Forms!Busy) < load
BY FormsCount DEF Forms!Enter

LEMMA StartInv ==
  ASSUME FormsInv, NEW sl \in Slot, Forms!BeginStart(sl) \/ Forms!RefuseStart(sl) \/ Forms!CreateSession(sl)
  PROVE  FormsInv'
<1>1. ASSUME NEW q \in Forms!Request, q.op \notin OfSession, Forms!Proceed(sl, q), ticket' = ticket,
             intakeReq[sl] # Forms!Idle \/ Cardinality(Forms!Busy) < load,
             \/ formSession' = formSession
             \/ \E s \in FormSession, m \in Mobile :
                  /\ formSession[s] = FormUnmade
                  /\ formSession' = [formSession EXCEPT ![s] = Forms!NewSession(m, "PENDING", "OTP_PENDING")]
      PROVE  FormsInv'
  <2>1. /\ ticket' \in [Ticket -> Forms!TicketRow] /\ \A k \in Ticket : TicketGood(k)'
        /\ load' = load /\ intakeReq' = [intakeReq EXCEPT ![sl] = q]
        /\ intakeReq \in [Slot -> Forms!Request] /\ formSession \in [FormSession -> Forms!SessionRow]
    BY <1>1, TicketsStay DEF Forms!Proceed, FormsInv, FormsType, Forms!TypeOK
  <2>2. (Cardinality(Forms!Busy) <= load)'
    BY <1>1, <2>1, FormCrowd
  <2>3. \A o \in Slot : intakeReq'[o] = intakeReq[o] \/ intakeReq'[o].op \notin OfSession
    BY <1>1, <2>1
  <2>4. intakeReq' \in [Slot -> Forms!Request]
    BY <2>1
  <2>5. CASE formSession' = formSession
    BY <2>1, <2>2, <2>3, <2>4, <2>5, FormsGrow
  <2>6. ASSUME NEW s \in FormSession, NEW m \in Mobile, formSession[s] = FormUnmade,
               formSession' = [formSession EXCEPT ![s] = Forms!NewSession(m, "PENDING", "OTP_PENDING")]
        PROVE  FormsInv'
    <3>1. PICK row : row = Forms!NewSession(m, "PENDING", "OTP_PENDING")
      OBVIOUS
    <3>2. /\ row \in FormRow /\ row.guesses = 0 /\ row.status = "OTP_PENDING" /\ row.otp = "PENDING"
      BY <3>1, NewSessionRow
    <3>3. row \in Forms!SessionRow /\ row # FormUnmade
      BY <3>2 DEF Forms!SessionRow, FormRow, FormUnmade, Forms!SessionStatus
    <3>4. formSession' \in [FormSession -> Forms!SessionRow]
      BY <2>1, <2>6, <3>1, <3>3
    <3>5. \A t \in FormSession :
           \/ formSession'[t] = formSession[t]
           \/ /\ formSession[t] = FormUnmade /\ formSession'[t] # FormUnmade
              /\ formSession'[t].guesses = 0 /\ formSession'[t].status \notin {"SUBMITTED", "DRAFT"}
              /\ formSession'[t].otp \notin {"EXPIRED", "FAILED"}
      BY <2>1, <2>6, <3>1, <3>2, <3>3
    <3> QED
      BY <2>1, <2>2, <2>3, <2>4, <3>4, <3>5, FormsGrow
  <2> QED
    BY <1>1, <2>5, <2>6
<1>2. CASE Forms!BeginStart(sl)
  <2>1. PICK m \in Mobile : Forms!Enter(sl, [op |-> "start", mobile |-> m])
    BY <1>2 DEF Forms!BeginStart
  <2>2. [op |-> "start", mobile |-> m] \in Forms!Request
    BY DEF Forms!Request
  <2>3. [op |-> "start", mobile |-> m].op \notin OfSession
    BY DEF OfSession
  <2> QED
    BY <1>1, <1>2, <2>1, <2>2, <2>3, EnteredForm DEF Forms!BeginStart, Forms!Rows
<1>3. ASSUME intakeReq[sl].op = "start" PROVE intakeReq[sl] # Forms!Idle /\ intakeReq[sl].mobile \in Mobile
  BY <1>3, FormRequests DEF Forms!Idle, FormsInv, FormsType
<1>4. CASE Forms!RefuseStart(sl)
  BY <1>1, <1>3, <1>4, IdleForms DEF Forms!RefuseStart, Forms!Finish, Forms!Rows
<1>5. CASE Forms!CreateSession(sl)
  <2>1. PICK s \in FormSession \ Forms!Made :
          formSession' = [formSession EXCEPT
            ![s] = Forms!NewSession(intakeReq[sl].mobile, "PENDING", "OTP_PENDING")]
    BY <1>5 DEF Forms!CreateSession
  <2>2. formSession[s] = FormUnmade
    BY <2>1 DEF Forms!Made, Forms!Unmade, FormUnmade
  <2>3. intakeReq[sl].op = "start" /\ Forms!Proceed(sl, Forms!Idle) /\ ticket' = ticket
    BY <1>5 DEF Forms!CreateSession, Forms!Finish
  <2>4. PICK m \in Mobile : m = intakeReq[sl].mobile
    BY <1>3, <2>3
  <2>5. /\ s \in FormSession /\ formSession[s] = FormUnmade
        /\ formSession' = [formSession EXCEPT ![s] = Forms!NewSession(m, "PENDING", "OTP_PENDING")]
    BY <2>1, <2>2, <2>4
  <2>6. PICK q \in Forms!Request : q = Forms!Idle
    BY IdleForms
  <2>7. q.op \notin OfSession /\ Forms!Proceed(sl, q) /\ intakeReq[sl] # Forms!Idle
    BY <1>3, <2>3, <2>6, IdleForms
  <2>8. \/ formSession' = formSession
        \/ \E t \in FormSession, n \in Mobile :
             /\ formSession[t] = FormUnmade
             /\ formSession' = [formSession EXCEPT ![t] = Forms!NewSession(n, "PENDING", "OTP_PENDING")]
    BY <2>5
  <2> HIDE <2>5
  <2> QED
    BY <1>1, <2>3, <2>7, <2>8
<1> QED
  BY <1>2, <1>4, <1>5

LEMMA AroundForms ==
  ASSUME FormsInv,
         \/ Forms!CreateAnonSession
         \/ \E k \in Ticket : Forms!TicketRunsOut(k)
         \/ Forms!ProcessRestart
         \/ UNCHANGED <<formSession, ticket, intakeReq, load>>
  PROVE  FormsInv'
<1>1. /\ formSession \in [FormSession -> Forms!SessionRow] /\ intakeReq \in [Slot -> Forms!Request]
      /\ ticket \in [Ticket -> Forms!TicketRow] /\ load \in Nat
      /\ Cardinality(Forms!Busy) <= load
  BY LoadIsNat DEF FormsInv, FormsType, Forms!TypeOK
<1>2. CASE UNCHANGED <<formSession, ticket, intakeReq, load>>
  <2>1. (Cardinality(Forms!Busy) <= load)'
    BY <1>1, <1>2 DEF Forms!Busy
  <2> QED
    BY <1>1, <1>2, <2>1, TicketsStay, FormsGrow
<1>3. CASE Forms!CreateAnonSession
  <2>1. PICK s \in FormSession \ Forms!Made :
          formSession' = [formSession EXCEPT ![s] = Forms!NewSession("ANON", "VERIFIED", "VERIFIED")]
    BY <1>3 DEF Forms!CreateAnonSession
  <2>2. formSession[s] = FormUnmade /\ ticket' = ticket /\ intakeReq' = intakeReq /\ load' = load
    BY <1>3, <2>1 DEF Forms!CreateAnonSession, Forms!Made, Forms!Unmade, FormUnmade
  <2>3. (Cardinality(Forms!Busy) <= load)'
    BY <1>1, <2>2 DEF Forms!Busy
  <2>4. PICK row : row = Forms!NewSession("ANON", "VERIFIED", "VERIFIED")
    OBVIOUS
  <2>5. /\ row \in FormRow /\ row.guesses = 0 /\ row.status = "VERIFIED" /\ row.otp = "VERIFIED"
    BY <2>4, NewSessionRow
  <2>6. row \in Forms!SessionRow /\ row # FormUnmade
    BY <2>5 DEF Forms!SessionRow, FormRow, FormUnmade, Forms!SessionStatus
  <2>7. formSession' \in [FormSession -> Forms!SessionRow]
    BY <1>1, <2>1, <2>4, <2>6
  <2>8. \A t \in FormSession :
         \/ formSession'[t] = formSession[t]
         \/ /\ formSession[t] = FormUnmade /\ formSession'[t] # FormUnmade
            /\ formSession'[t].guesses = 0 /\ formSession'[t].status \notin {"SUBMITTED", "DRAFT"}
            /\ formSession'[t].otp \notin {"EXPIRED", "FAILED"}
    BY <1>1, <2>1, <2>2, <2>4, <2>5, <2>6
  <2> QED
    BY <1>1, <2>2, <2>3, <2>7, <2>8, TicketsStay, FormsGrow
<1>4. ASSUME ticket' \in [Ticket -> Forms!TicketRow],
             \A k \in Ticket :
               \/ ticket'[k] = ticket[k]
               \/ /\ ticket'[k].where = "gone" /\ ticket'[k].uses = ticket[k].uses
                  /\ ticket[k].where \in {"held", "gone"}
      PROVE  \A k \in Ticket : TicketGood(k)'
  BY <1>4 DEF FormsInv, TicketGood
<1>5. ASSUME NEW k \in Ticket, ticket[k] # Forms!NoTicket
      PROVE  /\ [ticket[k] EXCEPT !.where = "gone"] \in Forms!TicketRow
             /\ [ticket[k] EXCEPT !.where = "gone"].where = "gone"
             /\ [ticket[k] EXCEPT !.where = "gone"].uses = ticket[k].uses
             /\ ticket[k].where \in {"held", "gone"}
  BY <1>1, <1>5 DEF Forms!TicketRow
<1>6. ASSUME NEW k \in Ticket, Forms!TicketRunsOut(k) PROVE FormsInv'
  <2>1. /\ ticket' = [ticket EXCEPT ![k] = [ticket[k] EXCEPT !.where = "gone"]]
        /\ ticket[k].where = "held" /\ UNCHANGED <<formSession, intakeReq, load>>
    BY <1>6 DEF Forms!TicketRunsOut
  <2>2. ticket[k] # Forms!NoTicket
    BY <2>1 DEF Forms!NoTicket
  <2>3. ticket' \in [Ticket -> Forms!TicketRow]
    BY <1>1, <1>5, <2>1, <2>2
  <2>6. \A j \in Ticket :
          \/ ticket'[j] = ticket[j]
          \/ /\ ticket'[j].where = "gone" /\ ticket'[j].uses = ticket[j].uses
             /\ ticket[j].where \in {"held", "gone"}
    BY <1>1, <1>5, <2>1, <2>2
  <2>4. \A j \in Ticket : TicketGood(j)'
    BY <1>4, <2>3, <2>6
  <2>5. (Cardinality(Forms!Busy) <= load)'
    BY <1>1, <2>1 DEF Forms!Busy
  <2> QED
    BY <1>1, <2>1, <2>3, <2>4, <2>5, FormsGrow
<1>7. CASE Forms!ProcessRestart
  <2>1. /\ intakeReq' = [sl \in Slot |-> Forms!Idle] /\ formSession' = formSession /\ load' = load
        /\ ticket' = [k \in Ticket |-> IF ticket[k] = Forms!NoTicket THEN Forms!NoTicket
                                       ELSE [ticket[k] EXCEPT !.where = "gone"]]
    BY <1>7 DEF Forms!ProcessRestart
  <2>2. Forms!NoTicket \in Forms!TicketRow
    BY DEF Forms!TicketRow
  <2>3. ticket' \in [Ticket -> Forms!TicketRow]
    BY <1>5, <2>1, <2>2
  <2>6. ASSUME NEW j \in Ticket
        PROVE  \/ ticket'[j] = ticket[j]
               \/ /\ ticket'[j].where = "gone" /\ ticket'[j].uses = ticket[j].uses
                  /\ ticket[j].where \in {"held", "gone"}
    <3>1. CASE ticket[j] = Forms!NoTicket
      BY <2>1, <3>1
    <3>2. CASE ticket[j] # Forms!NoTicket
      BY <1>5, <2>1, <3>2
    <3> QED
      BY <3>1, <3>2
  <2>4. \A j \in Ticket : TicketGood(j)'
    BY <1>4, <2>3, <2>6
  <2>5. (Cardinality(Forms!Busy) <= load)'
    <3>1. Forms!Busy' = {}
      BY <2>1 DEF Forms!Busy
    <3> QED
      BY <1>1, <2>1, <3>1, NoCrowd
  <2> QED
    BY <1>1, <2>1, <2>3, <2>4, <2>5, IdleForms, FormsGrow
<1> QED
  BY <1>2, <1>3, <1>6, <1>7

(* The session of the request that acts                                    *)
LEMMA Acting ==
  ASSUME FormsInv, NEW sl \in Slot, intakeReq[sl].op \in OfSession
  PROVE  /\ intakeReq[sl].session \in FormSession
         /\ formSession[intakeReq[sl].session] # FormUnmade
         /\ formSession[intakeReq[sl].session] \in FormRow
         /\ RowGood(formSession[intakeReq[sl].session])
         /\ RequestGood(intakeReq[sl], formSession[intakeReq[sl].session])
         /\ CodesBounded(intakeReq[sl].session)
         /\ intakeReq[sl] # Forms!Idle
<1>1. intakeReq[sl].session \in FormSession /\ formSession[intakeReq[sl].session] # FormUnmade
  BY FormRequests DEF FormsInv, FormsType
<1>2. intakeReq[sl] # Forms!Idle
  BY DEF Forms!Idle, OfSession
<1>3. formSession[intakeReq[sl].session] \in FormRow
  BY <1>1, FormMade DEF FormsInv, FormsType
<1> QED
  BY <1>1, <1>2, <1>3 DEF FormsInv

LEMMA SimpleRequest ==
  ASSUME NEW s \in FormSession, NEW op \in {"verified", "draft", "photo", "submit", "record", "close", "expire"}
  PROVE  /\ [op |-> op, session |-> s] \in Forms!Request
         /\ [op |-> op, session |-> s].op \in OfSession /\ [op |-> op, session |-> s].session = s
         /\ [op |-> op, session |-> s].op = op
         /\ [op |-> op, session |-> s].op # "guess"
BY DEF Forms!Request, OfSession

LEMMA SimplyGood ==
  ASSUME NEW q, NEW r, q.op \in {"verified", "draft", "photo", "submit", "record", "close", "expire"},
         q.op = "close" => r.submitted,
         q.op = "verified" /\ load = 1 => r.otp \notin {"EXPIRED", "FAILED"}
  PROVE  RequestGood(q, r)
BY DEF RequestGood

(* A statement that goes on with a request on the same session             *)
LEMMA GoesOn ==
  ASSUME FormsInv, NEW sl \in Slot, intakeReq[sl].op \in OfSession, formSession' = formSession,
         NEW op \in {"verified", "draft", "photo", "submit", "record", "close", "expire"},
         Forms!GoOn(sl, op),
         op = "close" => formSession[intakeReq[sl].session].submitted,
         op = "verified" /\ load = 1 => formSession[intakeReq[sl].session].otp \notin {"EXPIRED", "FAILED"},
         ticket' \in [Ticket -> Forms!TicketRow], \A k \in Ticket : TicketGood(k)'
  PROVE  FormsInv'
<1>1. PICK s \in FormSession : s = intakeReq[sl].session
  BY Acting
<1>2. formSession[s] # FormUnmade /\ intakeReq[sl] # Forms!Idle
  BY <1>1, Acting
<1>3. PICK q : q = [op |-> op, session |-> s]
  OBVIOUS
<1>4. Forms!Proceed(sl, q)
  BY <1>1, <1>3 DEF Forms!GoOn
<1>6. q \in Forms!Request /\ q.op # "guess" /\ q.session = s /\ q.op = op
  BY <1>3, SimpleRequest
<1>7. RequestGood(q, formSession[s])
  BY <1>1, <1>6, SimplyGood
<1>5. /\ q \in Forms!Request /\ q.op # "guess"
      /\ q.op \in OfSession => q.session = s /\ RequestGood(q, formSession[s])
  BY <1>6, <1>7
<1> QED
  BY <1>2, <1>4, <1>5, SlotOnly

(* A request that leaves the rows as they are                              *)
LEMMA Leaves ==
  ASSUME FormsInv, NEW sl \in Slot, intakeReq[sl].op \in OfSession, formSession' = formSession,
         Forms!Finish(sl), ticket' \in [Ticket -> Forms!TicketRow], \A k \in Ticket : TicketGood(k)'
  PROVE  FormsInv'
<1>1. PICK s \in FormSession : s = intakeReq[sl].session
  BY Acting
<1>2. formSession[s] # FormUnmade /\ intakeReq[sl] # Forms!Idle
  BY <1>1, Acting
<1>3. PICK q \in Forms!Request : q = Forms!Idle
  BY IdleForms
<1>4. q.op # "guess" /\ q.op \notin OfSession /\ Forms!Proceed(sl, q)
  BY <1>3, IdleForms DEF Forms!Finish
<1> QED
  BY <1>2, <1>4, SlotOnly

(* A statement on the row, without a guess                                 *)
LEMMA Updates ==
  ASSUME FormsInv, NEW sl \in Slot, intakeReq[sl].op \in OfSession, NEW row \in FormRow,
         NEW q \in Forms!Request, q.op # "guess", Forms!Update(sl, row, q),
         q.op \in OfSession => q.session = intakeReq[sl].session /\ RequestGood(q, row),
         formSession[intakeReq[sl].session].submitted => row.submitted,
         row.attempts = formSession[intakeReq[sl].session].attempts,
         row.guesses = formSession[intakeReq[sl].session].guesses,
         formSession[intakeReq[sl].session].late => row.late,
         RowGood(row)
  PROVE  FormsInv'
<1>1. PICK s \in FormSession : s = intakeReq[sl].session
  BY Acting
<1>2. formSession[s] # FormUnmade /\ intakeReq[sl] # Forms!Idle
  BY <1>1, Acting
<1>3. SlotGoes(sl, s, row, q) /\ ticket' = ticket
  BY <1>1 DEF SlotGoes, Forms!Update, Forms!Proceed
<1>4. ticket' \in [Ticket -> Forms!TicketRow] /\ \A k \in Ticket : TicketGood(k)'
  BY <1>3, TicketsStay
<1>5. /\ formSession[s].submitted => row.submitted
      /\ row.attempts = formSession[s].attempts /\ row.guesses = formSession[s].guesses
      /\ formSession[s].late => row.late
      /\ q.op \in OfSession => q.session = s /\ RequestGood(q, row)
  BY <1>1
<1> QED
  BY <1>2, <1>3, <1>4, <1>5, SlotGoesQuiet

LEMMA AccessInv ==
  ASSUME FormsInv, NEW sl \in Slot,
         \/ \E s \in FormSession : Forms!BeginAccess(sl, s)
         \/ Forms!Compare(sl) \/ Forms!RefuseAccess(sl) \/ Forms!SaveDraft(sl)
         \/ Forms!CreateSubmission(sl) \/ Forms!CloseSession(sl) \/ Forms!ExpireSession(sl)
  PROVE  FormsInv'
<1> DEFINE r == formSession[intakeReq[sl].session]
<1>1. ASSUME NEW s \in FormSession, Forms!BeginAccess(sl, s) PROVE FormsInv'
  <2>1. PICK op \in {"draft", "photo", "submit", "expire"} : Forms!Enter(sl, [op |-> op, session |-> s])
    BY <1>1 DEF Forms!BeginAccess
  <2>2. formSession' = formSession /\ ticket' = ticket /\ formSession[s] # FormUnmade
    BY <1>1 DEF Forms!BeginAccess, Forms!Rows, Forms!Unmade, FormUnmade
  <2>3. PICK q : q = [op |-> op, session |-> s]
    OBVIOUS
  <2>4. Forms!Proceed(sl, q) /\ Cardinality(Forms!Busy) < load
    BY <2>1, <2>3, EnteredForm
  <2>6. q \in Forms!Request /\ q.op # "guess" /\ q.session = s /\ q.op = op
    BY <2>3, SimpleRequest
  <2>7. RequestGood(q, formSession[s])
    BY <2>6, SimplyGood
  <2>5. /\ q \in Forms!Request /\ q.op # "guess"
        /\ q.op \in OfSession => q.session = s /\ RequestGood(q, formSession[s])
    BY <2>6, <2>7
  <2> QED
    BY <2>2, <2>4, <2>5, TicketsStay, SlotOnly
<1>2. CASE Forms!Compare(sl)
  <2>1. intakeReq[sl].op = "guess" /\ formSession' = formSession /\ ticket' = ticket
    BY <1>2 DEF Forms!Compare, Forms!Rows
  <2>2. intakeReq[sl].op \in OfSession
    BY <2>1 DEF OfSession
  <2>3. load = 1 => r.otp \notin {"EXPIRED", "FAILED"}
    BY <2>1, <2>2, Acting DEF RequestGood
  <2>4. CASE Forms!GoOn(sl, "expire")
    BY <2>1, <2>2, <2>4, TicketsStay, GoesOn
  <2>5. CASE Forms!GoOn(sl, "verified")
    BY <2>1, <2>2, <2>3, <2>5, TicketsStay, GoesOn
  <2> QED
    BY <1>2, <2>4, <2>5 DEF Forms!Compare
<1>3. CASE Forms!RefuseAccess(sl)
  <2>1. intakeReq[sl].op \in OfSession /\ formSession' = formSession /\ ticket' = ticket /\ Forms!Finish(sl)
    BY <1>3 DEF Forms!RefuseAccess, OfSession, Forms!Rows
  <2> QED
    BY <2>1, TicketsStay, Leaves
<1>4. CASE Forms!SaveDraft(sl)
  <2>1. intakeReq[sl].op \in OfSession
    BY <1>4 DEF Forms!SaveDraft, OfSession
  <2>2. r \in FormRow /\ RowGood(r)
    BY <2>1, Acting
  <2>3. PICK row : row = [r EXCEPT !.draft = TRUE, !.status = "DRAFT"]
    OBVIOUS
  <2>4. /\ row \in FormRow /\ row.submitted = r.submitted /\ row.attempts = r.attempts
        /\ row.guesses = r.guesses /\ row.late = r.late /\ row.otp = r.otp /\ row.status = "DRAFT"
        /\ row.draft
    BY <2>2, <2>3 DEF FormRow, Forms!SessionStatus
  <2>5. RowGood(row)
    BY <2>2, <2>4 DEF RowGood
  <2>6. Forms!Update(sl, row, Forms!Idle)
    BY <1>4, <2>3 DEF Forms!SaveDraft
  <2> QED
    BY <2>1, <2>4, <2>5, <2>6, IdleForms, Updates
<1>5. CASE Forms!CreateSubmission(sl)
  <2>1. intakeReq[sl].op \in OfSession
    BY <1>5 DEF Forms!CreateSubmission, OfSession
  <2>2. r \in FormRow /\ RowGood(r) /\ intakeReq[sl].session \in FormSession
    BY <2>1, Acting
  <2>3. PICK row : row = [r EXCEPT !.submitted = TRUE]
    OBVIOUS
  <2>4. /\ row \in FormRow /\ row.submitted /\ row.attempts = r.attempts
        /\ row.guesses = r.guesses /\ row.late = r.late /\ row.otp = r.otp /\ row.status = r.status
        /\ row.draft = r.draft
    BY <2>2, <2>3 DEF FormRow
  <2>5. RowGood(row)
    BY <2>2, <2>4 DEF RowGood
  <2>6. PICK q : q = [op |-> "close", session |-> intakeReq[sl].session]
    OBVIOUS
  <2>7. Forms!Update(sl, row, q)
    BY <1>5, <2>3, <2>6 DEF Forms!CreateSubmission
  <2>9. q \in Forms!Request /\ q.op = "close" /\ q.session = intakeReq[sl].session
    BY <2>2, <2>6, SimpleRequest
  <2>8. q \in Forms!Request /\ q.op # "guess" /\ q.session = intakeReq[sl].session /\ RequestGood(q, row)
    BY <2>4, <2>9, SimplyGood
  <2> QED
    BY <2>1, <2>4, <2>5, <2>7, <2>8, Updates
<1>6. CASE Forms!CloseSession(sl)
  <2>1. intakeReq[sl].op \in OfSession /\ intakeReq[sl].op = "close"
    BY <1>6 DEF Forms!CloseSession, OfSession
  <2>2. r \in FormRow /\ RowGood(r) /\ r.submitted
    BY <2>1, Acting DEF RequestGood
  <2>3. PICK row : row = [r EXCEPT !.status = "SUBMITTED", !.draft = FALSE]
    OBVIOUS
  <2>4. /\ row \in FormRow /\ row.submitted = r.submitted /\ row.attempts = r.attempts
        /\ row.guesses = r.guesses /\ row.late = r.late /\ row.otp = r.otp /\ row.status = "SUBMITTED"
    BY <2>2, <2>3 DEF FormRow, Forms!SessionStatus
  <2>5. RowGood(row)
    BY <2>2, <2>4 DEF RowGood
  <2>6. Forms!Update(sl, row, Forms!Idle)
    BY <1>6, <2>3 DEF Forms!CloseSession
  <2> QED
    BY <2>1, <2>4, <2>5, <2>6, IdleForms, Updates
<1>7. CASE Forms!ExpireSession(sl)
  <2>1. intakeReq[sl].op \in OfSession
    BY <1>7 DEF Forms!ExpireSession, OfSession
  <2>2. r \in FormRow /\ RowGood(r)
    BY <2>1, Acting
  <2>3. PICK row : row = IF r.status = "SUBMITTED" THEN r
                         ELSE [r EXCEPT !.otp = "EXPIRED", !.status = "EXPIRED", !.late = TRUE]
    OBVIOUS
  <2>4. CASE r.status = "SUBMITTED"
    <3>1. row = r /\ Forms!Update(sl, row, Forms!Idle)
      BY <1>7, <2>3, <2>4 DEF Forms!ExpireSession
    <3> QED
      BY <2>1, <2>2, <3>1, IdleForms, Updates
  <2>5. CASE r.status # "SUBMITTED"
    <3>1. row = [r EXCEPT !.otp = "EXPIRED", !.status = "EXPIRED", !.late = TRUE]
      BY <2>3, <2>5
    <3>2. /\ row \in FormRow /\ row.submitted = r.submitted /\ row.attempts = r.attempts
          /\ row.guesses = r.guesses /\ row.late /\ row.status = "EXPIRED"
      BY <2>2, <3>1 DEF FormRow, Forms!SessionStatus, Forms!OtpStatus
    <3>3. RowGood(row)
      BY <3>2 DEF RowGood
    <3>4. Forms!Update(sl, row, Forms!Idle)
      BY <1>7, <2>3 DEF Forms!ExpireSession
    <3> QED
      BY <2>1, <3>2, <3>3, <3>4, IdleForms, Updates
  <2> QED
    BY <2>4, <2>5
<1> QED
  BY <1>1, <1>2, <1>3, <1>4, <1>5, <1>6, <1>7

LEMMA PhotoInv ==
  ASSUME FormsInv, NEW sl \in Slot, Forms!IssueTicket(sl) \/ Forms!TakePhoto(sl)
  PROVE  FormsInv'
<1>1. ticket \in [Ticket -> Forms!TicketRow] /\ \A k \in Ticket : TicketGood(k)
  BY DEF FormsInv, FormsType, Forms!TypeOK
<1>2. intakeReq[sl].op \in OfSession /\ formSession' = formSession
  BY DEF Forms!IssueTicket, Forms!TakePhoto, OfSession
<1>3. CASE Forms!IssueTicket(sl)
  <2>1. PICK k \in Ticket :
          ticket' = [ticket EXCEPT ![k] = [where |-> "held", session |-> intakeReq[sl].session, uses |-> 0]]
    BY <1>3 DEF Forms!IssueTicket
  <2>2. PICK row : row = [where |-> "held", session |-> intakeReq[sl].session, uses |-> 0]
    OBVIOUS
  <2>3. row \in Forms!TicketRow /\ row.uses = 0
    BY <1>2, <2>2, Acting DEF Forms!TicketRow
  <2>4. ticket' \in [Ticket -> Forms!TicketRow] /\ \A j \in Ticket : TicketGood(j)'
    BY <1>1, <2>1, <2>2, <2>3 DEF TicketGood
  <2> QED
    BY <1>2, <1>3, <2>4, Leaves DEF Forms!IssueTicket
<1>4. CASE Forms!TakePhoto(sl)
  <2>1. ticket' \in [Ticket -> Forms!TicketRow] /\ \A j \in Ticket : TicketGood(j)'
    <3>1. CASE ticket' = ticket
      BY <3>1, TicketsStay
    <3>2. CASE ticket' # ticket
      <4>1. PICK k \in Ticket : /\ ticket[k].where = "held"
                                /\ ticket' = [ticket EXCEPT ![k].where = "gone", ![k].uses = @ + 1]
        BY <1>4, <3>2 DEF Forms!TakePhoto
      <4>2. ticket[k].uses = 0 /\ ticket[k] # Forms!NoTicket
        BY <1>1, <4>1 DEF TicketGood, Forms!NoTicket
      <4>3. PICK row : row = [ticket[k] EXCEPT !.where = "gone", !.uses = @ + 1]
        OBVIOUS
      <4>4. ticket[k] \in [where : {"held", "gone"}, session : FormSession, uses : Nat]
        BY <1>1, <4>2 DEF Forms!TicketRow
      <4>7. row = [where |-> "gone", session |-> ticket[k].session, uses |-> 1]
        <5>1. PICK t \in [where : {"held", "gone"}, session : FormSession, uses : Nat] : t = ticket[k]
          BY <4>4
        <5>2. row = [t EXCEPT !.where = "gone", !.uses = 1]
          BY <4>2, <4>3, <5>1
        <5> QED
          BY <5>1, <5>2
      <4>8. ticket[k].session \in FormSession
        BY <4>4
      <4>5. row \in Forms!TicketRow /\ row.uses = 1 /\ row.where = "gone"
        BY <4>7, <4>8 DEF Forms!TicketRow
      <4>6. ticket' = [ticket EXCEPT ![k] = row]
        BY <1>1, <4>1, <4>3
      <4> QED
        BY <1>1, <4>5, <4>6 DEF TicketGood
    <3> QED
      BY <3>1, <3>2
  <2> QED
    BY <1>2, <1>4, <2>1, GoesOn DEF Forms!TakePhoto
<1> QED
  BY <1>3, <1>4

LEMMA UpToBounds ==
  ASSUME NEW n \in Nat, NEW most \in Nat
  PROVE  Forms!UpTo(n, most) \in 0..most /\ Forms!UpTo(n, most) <= n
         /\ (n < most => Forms!UpTo(n, most) = n)
BY DEF Forms!UpTo

LEMMA VerifyInv ==
  ASSUME FormsInv, NEW sl \in Slot, NEW s \in FormSession, Forms!BeginVerify(sl, s)
  PROVE  FormsInv'
<1> DEFINE r == formSession[s]
<1>1. /\ r # FormUnmade /\ formSession' = formSession /\ ticket' = ticket
      /\ Forms!Enter(sl, IF r.late \/ r.status = "EXPIRED"
                         THEN [op |-> "expire", session |-> s]
                         ELSE [op |-> "guess", session |-> s, read |-> Forms!Read(s)])
  BY DEF Forms!BeginVerify, Forms!Rows, Forms!Unmade, FormUnmade
<1>2. r \in FormRow /\ RowGood(r) /\ CodesBounded(s)
  BY <1>1, FormMade DEF FormsInv, FormsType
<1>3. CASE r.late \/ r.status = "EXPIRED"
  <2>1. PICK q : q = [op |-> "expire", session |-> s]
    OBVIOUS
  <2>2. Forms!Proceed(sl, q) /\ Cardinality(Forms!Busy) < load
    BY <1>1, <1>3, <2>1, EnteredForm
  <2>3. q \in Forms!Request /\ q.op = "expire" /\ q.session = s
    BY <2>1, SimpleRequest
  <2>4. RequestGood(q, r)
    BY <2>3, SimplyGood
  <2> QED
    BY <1>1, <2>2, <2>3, <2>4, TicketsStay, SlotOnly
<1>4. CASE ~(r.late \/ r.status = "EXPIRED")
  <2>1. PICK q : q = [op |-> "guess", session |-> s, read |-> Forms!Read(s)]
    OBVIOUS
  <2>2. Forms!Proceed(sl, q) /\ Cardinality(Forms!Busy) < load
    BY <1>1, <1>4, <2>1, EnteredForm
  <2>3. Forms!Read(s) \in Forms!Snapshot
    BY <1>2, FormSnapshot DEF Forms!Read, Forms!Snapshot
  <2>4. q \in Forms!Request /\ q.op = "guess" /\ q.session = s /\ q.read = Forms!Read(s)
    BY <2>1, <2>3 DEF Forms!Request
  <2>5. /\ q.read.otp = r.otp /\ q.read.status = r.status /\ q.read.late = r.late
        /\ q.read.attempts = r.attempts
    BY <2>4 DEF Forms!Read
  <2>6. RequestGood(q, r)
    BY <1>2, <1>4, <2>4, <2>5 DEF RequestGood, RowGood
  <2>7. PICK row \in FormRow : row = r
    BY <1>2
  <2>8. SlotGoes(sl, s, row, q) /\ load' = load
    BY <1>1, <2>2, <2>7 DEF SlotGoes, Forms!Proceed, FormsInv, FormsType, Forms!TypeOK
  <2>9. /\ FormsType' /\ FormsType
        /\ formSession'[s] = r /\ intakeReq'[sl] = q
        /\ \A o \in Slot \ {sl} : intakeReq'[o] = intakeReq[o]
    <3>1. ticket' \in [Ticket -> Forms!TicketRow] /\ FormsType
      BY <1>1, TicketsStay DEF FormsInv
    <3> QED
      BY <2>4, <2>7, <2>8, <3>1, SlotGoesType
  <2>10. CodeSeen(s, sl)' = Codes(s) /\ \A o \in Slot \ {sl} : CodeSeen(s, o)' = CodeSeen(s, o)
    BY <1>4, <2>4, <2>5, <2>9 DEF CodeSeen, Coding, Codes
  <2>11. CodesBounded(s)'
    BY <1>1, <1>2, <1>4, <2>8, <2>9, <2>10, StartedCode DEF FormsType
  <2>12. RowGood(row) /\ RequestGood(q, row) /\ (formSession[s].submitted => row.submitted)
    BY <1>2, <2>6, <2>7
  <2> QED
    BY <1>1, <2>2, <2>4, <2>8, <2>11, <2>12, TicketsStay, SlotGoesInv
<1> QED
  BY <1>3, <1>4

LEMMA WrongInv ==
  ASSUME FormsInv, NEW sl \in Slot, Forms!WrongGuess(sl)
  PROVE  FormsInv'
<1> DEFINE q == intakeReq[sl]
           attempts == q.read.attempts + 1
           last == attempts >= MaxAttempts
<1>1. q.op = "guess" /\ q.op \in OfSession
  BY DEF Forms!WrongGuess, OfSession
<1>2. PICK s \in FormSession : s = q.session
  BY <1>1, Acting
<1> DEFINE r == formSession[s]
<1>3. r # FormUnmade /\ r \in FormRow /\ RowGood(r) /\ RequestGood(q, r) /\ CodesBounded(s) /\ q # Forms!Idle
  BY <1>1, <1>2, Acting
<1>4. /\ q.read.otp \in Forms!OtpStatus /\ q.read.status \in Forms!SessionStatus
      /\ q.read.attempts \in 0..MaxAttempts /\ q.read.late \in BOOLEAN
  <2>1. q.read \in Forms!Snapshot
    BY <1>1, FormRequests DEF FormsInv, FormsType
  <2> QED
    BY <2>1 DEF Forms!Snapshot
<1>5. PICK row : row = [r EXCEPT !.attempts = Forms!UpTo(attempts, MaxAttempts),
                              !.otp = IF last THEN "FAILED" ELSE q.read.otp,
                              !.status = IF last THEN "FAILED" ELSE q.read.status,
                              !.late = last \/ q.read.late,
                              !.guesses = Forms!UpTo(@ + 1, MaxGuesses)]
  OBVIOUS
<1>6. Forms!Update(sl, row, Forms!Idle)
  BY <1>2, <1>5 DEF Forms!WrongGuess
<1>7. PICK n \in 0..MaxAttempts, h \in 0..MaxGuesses, otp \in Forms!OtpStatus,
           status \in Forms!SessionStatus, late \in BOOLEAN :
        /\ n = Forms!UpTo(attempts, MaxAttempts) /\ h = Forms!UpTo(r.guesses + 1, MaxGuesses)
        /\ otp = (IF last THEN "FAILED" ELSE q.read.otp)
        /\ status = (IF last THEN "FAILED" ELSE q.read.status)
        /\ late = (last \/ q.read.late)
        /\ h <= r.guesses + 1
        /\ ~last => n = q.read.attempts + 1
  <2>1. attempts \in Nat /\ r.guesses + 1 \in Nat /\ MaxAttempts \in Nat /\ MaxGuesses \in Nat
    BY <1>3, <1>4, FormSnapshot, FormLimits
  <2>2. Forms!UpTo(attempts, MaxAttempts) \in 0..MaxAttempts
    BY <2>1, UpToBounds
  <2>3. ~last => Forms!UpTo(attempts, MaxAttempts) = q.read.attempts + 1
    <3>1. PICK m \in Nat : m = attempts
      BY <2>1
    <3>2. m < MaxAttempts => Forms!UpTo(m, MaxAttempts) = m
      BY <2>1, UpToBounds
    <3> QED
      BY <2>1, <3>1, <3>2
  <2>4. /\ Forms!UpTo(r.guesses + 1, MaxGuesses) \in 0..MaxGuesses
        /\ Forms!UpTo(r.guesses + 1, MaxGuesses) <= r.guesses + 1
    BY <2>1, UpToBounds
  <2>5. (IF last THEN "FAILED" ELSE q.read.otp) \in Forms!OtpStatus
    BY <1>4 DEF Forms!OtpStatus
  <2>6. (IF last THEN "FAILED" ELSE q.read.status) \in Forms!SessionStatus
    BY <1>4 DEF Forms!SessionStatus
  <2>7. (last \/ q.read.late) \in BOOLEAN
    OBVIOUS
  <2> QED
    BY <2>2, <2>3, <2>4, <2>5, <2>6, <2>7
<1>8. row = [r EXCEPT !.attempts = n, !.otp = otp, !.status = status, !.late = late, !.guesses = h]
  BY <1>5, <1>7
<1>9. row \in FormRow
  BY <1>3, <1>8 DEF FormRow
<1>10. /\ row.attempts = n /\ row.otp = otp /\ row.status = status /\ row.guesses = h
       /\ row.draft = r.draft /\ row.submitted = r.submitted
       /\ late => row.late
       /\ ~late => ~row.late
  BY <1>3, <1>8 DEF FormRow
<1>11. row.status = "SUBMITTED" => row.submitted
  BY <1>1, <1>3, <1>7, <1>10 DEF RequestGood
<1>12. load = 1 => (row.status = "DRAFT" => row.draft)
  BY <1>1, <1>3, <1>7, <1>10 DEF RequestGood, RowGood
<1>13. load = 1 => (row.otp \in {"EXPIRED", "FAILED"} => row.late)
  BY <1>1, <1>3, <1>7, <1>10 DEF RequestGood
<1>14. RowGood(row)
  BY <1>11, <1>12, <1>13 DEF RowGood
<1>15. PICK next \in Forms!Request : next = Forms!Idle
  BY IdleForms
<1>16. SlotGoes(sl, s, row, next) /\ ticket' = ticket /\ load' = load
       /\ next.op \notin OfSession
  BY <1>2, <1>6, <1>15, IdleForms DEF SlotGoes, Forms!Update, Forms!Proceed
<1>17. /\ FormsType' /\ FormsType
       /\ formSession'[s] = row /\ intakeReq'[sl] = next
       /\ \A o \in Slot \ {sl} : intakeReq'[o] = intakeReq[o]
  <2>1. ticket' \in [Ticket -> Forms!TicketRow] /\ FormsType
    BY <1>16, TicketsStay DEF FormsInv
  <2> QED
    BY <1>9, <1>16, <2>1, SlotGoesType
<1>18. Coding(s, sl) /\ ~Coding(s, sl)'
  BY <1>1, <1>2, <1>16, <1>17 DEF Coding, OfSession
<1>19. CodeSeen(s, sl) + 1 <= Codes(s)'
  <2>1. CodeSeen(s, sl) = Below(q.read.attempts, MaxAttempts)
    BY <1>18 DEF CodeSeen
  <2>2. MaxAttempts \in Nat \ {0}
    BY FormLimits
  <2>3. CASE late
    <3>1. Codes(s)' = MaxAttempts
      BY <1>10, <1>17, <2>3 DEF Codes
    <3> QED
      BY <1>4, <2>1, <2>2, <3>1, BelowBounds
  <2>4. CASE ~late
    <3>1. Codes(s)' = Below(n, MaxAttempts)
      BY <1>10, <1>17, <2>4 DEF Codes
    <3>2. ~last /\ n = q.read.attempts + 1
      BY <1>7, <2>4
    <3> QED
      BY <1>4, <2>1, <2>2, <3>1, <3>2 DEF Below
  <2> QED
    BY <2>3, <2>4
<1>20. formSession'[s] # FormUnmade
  BY <1>9, <1>17, FormMade DEF FormsType, FormRow, FormUnmade, Forms!SessionStatus
<1>21. CodesBounded(s)'
  <2>1. Cardinality(Forms!Busy) <= load /\ Forms!TypeOK /\ Forms!TypeOK'
    BY <1>17 DEF FormsInv, FormsType
  <2>2. formSession'[s].guesses <= formSession[s].guesses + 1
    BY <1>7, <1>10, <1>17
  <2> QED
    BY <1>3, <1>16, <1>17, <1>18, <1>19, <1>20, <2>1, <2>2, WroteCode
<1>22. formSession[s].submitted => row.submitted
  BY <1>10
<1> QED
  BY <1>3, <1>9, <1>14, <1>16, <1>21, <1>22, TicketsStay, SlotGoesInv

LEMMA RightInv ==
  ASSUME FormsInv, NEW sl \in Slot, Forms!FindDraft(sl) \/ Forms!Activate(sl)
  PROVE  FormsInv'
<1> DEFINE q == intakeReq[sl]
<1>1. q.op \in {"verified", "activate"} /\ q.op \in OfSession
  BY DEF Forms!FindDraft, Forms!Activate, OfSession
<1>2. PICK s \in FormSession : s = q.session
  BY <1>1, Acting
<1> DEFINE r == formSession[s]
<1>3. r # FormUnmade /\ r \in FormRow /\ RowGood(r) /\ RequestGood(q, r) /\ CodesBounded(s) /\ q # Forms!Idle
  BY <1>1, <1>2, Acting
<1>4. CASE Forms!FindDraft(sl)
  <2>1. PICK next : next = [op |-> "activate", session |-> s, carried |-> Forms!CarriedDraft(s)]
    OBVIOUS
  <2>2. Forms!Proceed(sl, next) /\ formSession' = formSession /\ ticket' = ticket
    BY <1>2, <1>4, <2>1 DEF Forms!FindDraft, Forms!Rows
  <2>3. next \in Forms!Request /\ next.op = "activate" /\ next.session = s
    BY <2>1 DEF Forms!Request, Forms!CarriedDraft
  <2>4. RequestGood(next, r)
    BY <1>1, <1>3, <2>3 DEF RequestGood
  <2> QED
    BY <1>3, <2>2, <2>3, <2>4, TicketsStay, SlotOnly
<1>5. CASE Forms!Activate(sl)
  <2>1. PICK row : row = [r EXCEPT !.otp = "VERIFIED", !.late = FALSE, !.opened = TRUE,
                     !.status = IF q.carried THEN "DRAFT" ELSE "VERIFIED",
                     !.draft = q.carried \/ @, !.guesses = 0]
    OBVIOUS
  <2>2. Forms!Update(sl, row, Forms!Idle)
    BY <1>2, <1>5, <2>1 DEF Forms!Activate
  <2>3. PICK status \in Forms!SessionStatus, draft \in BOOLEAN :
          /\ status = (IF q.carried THEN "DRAFT" ELSE "VERIFIED")
          /\ draft = (q.carried \/ r.draft)
    <3>1. (IF q.carried THEN "DRAFT" ELSE "VERIFIED") \in Forms!SessionStatus
      BY DEF Forms!SessionStatus
    <3>2. (q.carried \/ r.draft) \in BOOLEAN
      OBVIOUS
    <3> QED
      BY <3>1, <3>2
  <2>4. row = [r EXCEPT !.otp = "VERIFIED", !.late = FALSE, !.opened = TRUE, !.status = status,
                        !.draft = draft, !.guesses = 0]
    BY <2>1, <2>3
  <2>5. row \in FormRow
    BY <1>3, <2>4, FormLimits DEF FormRow, Forms!OtpStatus
  <2>6. /\ row.otp = "VERIFIED" /\ row.status = status /\ row.guesses = 0
        /\ row.submitted = r.submitted /\ (draft => row.draft)
    BY <1>3, <2>4 DEF FormRow
  <2>7. row.status # "SUBMITTED" /\ (row.status = "DRAFT" => row.draft)
    BY <2>3, <2>6
  <2>8. RowGood(row)
    BY <2>6, <2>7 DEF RowGood
  <2>9. PICK next \in Forms!Request : next = Forms!Idle
    BY IdleForms
  <2>10. SlotGoes(sl, s, row, next) /\ ticket' = ticket /\ load' = load
         /\ next.op \notin OfSession
    BY <1>2, <2>2, <2>9, IdleForms DEF SlotGoes, Forms!Update, Forms!Proceed
  <2>11. /\ FormsType' /\ FormsType
         /\ formSession'[s] = row /\ intakeReq'[sl] = next
         /\ \A o \in Slot \ {sl} : intakeReq'[o] = intakeReq[o]
    <3>1. ticket' \in [Ticket -> Forms!TicketRow] /\ FormsType
      BY <2>10, TicketsStay DEF FormsInv
    <3> QED
      BY <2>5, <2>10, <3>1, SlotGoesType
  <2>12. \A o \in Slot : Coding(s, o)' => o # sl /\ o \in Forms!Busy
    BY <2>10, <2>11 DEF Coding, OfSession, Forms!Busy, Forms!Idle
  <2>13. load = 2 => \A o, p \in Slot : o # p => ~(Coding(s, o)' /\ Coding(s, p)')
    <3>1. Forms!Busy \in SUBSET Slot /\ sl \in Forms!Busy /\ load \in Nat /\ Cardinality(Forms!Busy) <= load
      BY <1>3, LoadIsNat DEF Forms!Busy, Forms!TypeOK, FormsType, FormsInv
    <3> QED
      BY <2>12, <3>1, InFlight
  <2>14. formSession'[s] # FormUnmade
    BY <2>5, <2>11 DEF FormRow, FormUnmade, Forms!SessionStatus
  <2>15. CodesBounded(s)'
    BY <2>6, <2>10, <2>11, <2>13, <2>14, ClearedCodes DEF FormsType
  <2>16. formSession[s].submitted => row.submitted
    BY <2>6
  <2> QED
    BY <1>3, <2>5, <2>8, <2>10, <2>15, <2>16, TicketsStay, SlotGoesInv
<1> QED
  BY <1>4, <1>5

LEMMA SnapshotRunsOut ==
  ASSUME NEW q \in [op : {"guess"}, session : FormSession, read : Forms!Snapshot], NEW n,
         n = [q EXCEPT !.read.late = TRUE]
  PROVE  /\ n \in Forms!Request /\ n.op = "guess" /\ n.session = q.session
         /\ n.read.otp = q.read.otp /\ n.read.status = q.read.status
         /\ n.read.attempts = q.read.attempts /\ n.read.late = TRUE
<1>1. PICK read \in Forms!Snapshot : read = q.read
  OBVIOUS
<1>2. PICK new : new = [read EXCEPT !.late = TRUE]
  OBVIOUS
<1>3. /\ new \in Forms!Snapshot /\ new.otp = read.otp /\ new.status = read.status
      /\ new.attempts = read.attempts /\ new.late = TRUE
  BY <1>2 DEF Forms!Snapshot
<1>4. n = [q EXCEPT !.read = new]
  BY <1>1, <1>2
<1>5. n = [op |-> "guess", session |-> q.session, read |-> new]
  BY <1>4
<1>6. q.session \in FormSession
  OBVIOUS
<1>7. n \in Forms!Request
  <2>1. PICK about \in FormSession, seen \in Forms!Snapshot : about = q.session /\ seen = new
    BY <1>3, <1>6
  <2>2. [op |-> "guess", session |-> about, read |-> seen] \in Forms!Request
    BY DEF Forms!Request
  <2> QED
    BY <1>5, <2>1, <2>2
<1>8. n.op = "guess" /\ n.session = q.session /\ n.read = new
  BY <1>5
<1> QED
  BY <1>1, <1>3, <1>7, <1>8

LEMMA LateInv ==
  ASSUME FormsInv, NEW s \in FormSession, Forms!SessionRunsOut(s)
  PROVE  FormsInv'
<1>1. /\ formSession[s] # FormUnmade /\ ticket' = ticket /\ load' = load
      /\ formSession' = [formSession EXCEPT ![s].late = TRUE]
      /\ intakeReq' = [sl \in Slot |->
           IF intakeReq[sl].op = "guess" /\ intakeReq[sl].session = s
           THEN [intakeReq[sl] EXCEPT !.read.late = TRUE] ELSE intakeReq[sl]]
  BY DEF Forms!SessionRunsOut, Forms!Unmade, FormUnmade
<1>2. /\ formSession \in [FormSession -> Forms!SessionRow] /\ intakeReq \in [Slot -> Forms!Request]
      /\ Forms!TypeOK
  BY DEF FormsInv, FormsType, Forms!TypeOK
<1>3. PICK r \in FormRow : r = formSession[s]
  BY <1>1, <1>2, FormMade
<1>4. PICK row : row = [r EXCEPT !.late = TRUE]
  OBVIOUS
<1>5. /\ row \in FormRow /\ row.late /\ row.otp = r.otp /\ row.status = r.status
      /\ row.attempts = r.attempts /\ row.guesses = r.guesses
      /\ row.submitted = r.submitted /\ row.draft = r.draft /\ row.late = TRUE
  BY <1>4 DEF FormRow
<1>6. row \in Forms!SessionRow /\ row # FormUnmade
  BY <1>5 DEF Forms!SessionRow, FormRow, FormUnmade, Forms!SessionStatus
<1>7. formSession' = [formSession EXCEPT ![s] = row]
  BY <1>1, <1>3, <1>4
<1>8. /\ formSession' \in [FormSession -> Forms!SessionRow] /\ formSession'[s] = row
      /\ \A t \in FormSession \ {s} : formSession'[t] = formSession[t]
  BY <1>2, <1>6, <1>7
<1>9. ASSUME NEW sl \in Slot, intakeReq[sl].op = "guess", intakeReq[sl].session = s
      PROVE  /\ intakeReq'[sl] \in Forms!Request /\ intakeReq'[sl].op = "guess"
             /\ intakeReq'[sl].session = s
             /\ intakeReq'[sl].read.otp = intakeReq[sl].read.otp
             /\ intakeReq'[sl].read.status = intakeReq[sl].read.status
             /\ intakeReq'[sl].read.attempts = intakeReq[sl].read.attempts
             /\ intakeReq'[sl].read.late = TRUE
  <2>1. PICK q \in [op : {"guess"}, session : FormSession, read : Forms!Snapshot] : q = intakeReq[sl]
    BY <1>2, <1>9, FormRequests
  <2>2. intakeReq'[sl] = [q EXCEPT !.read.late = TRUE]
    BY <1>1, <1>9, <2>1
  <2> QED
    BY <1>9, <2>1, <2>2, SnapshotRunsOut
<1>10. ASSUME NEW sl \in Slot, ~(intakeReq[sl].op = "guess" /\ intakeReq[sl].session = s)
       PROVE  intakeReq'[sl] = intakeReq[sl]
  BY <1>1, <1>10
<1>11. \A sl \in Slot : /\ intakeReq'[sl].op = intakeReq[sl].op
                        /\ intakeReq[sl].op \in OfSession => intakeReq'[sl].session = intakeReq[sl].session
                        /\ intakeReq[sl].op = "guess" =>
                             intakeReq'[sl].read.attempts = intakeReq[sl].read.attempts
                        /\ intakeReq'[sl] \in Forms!Request
  BY <1>2, <1>9, <1>10
<1>12. ticket' \in [Ticket -> Forms!TicketRow] /\ \A k \in Ticket : TicketGood(k)'
  BY <1>1, TicketsStay
<1>13. Forms!TypeOK'
  <2>1. intakeReq' \in [Slot -> Forms!Request]
    BY <1>1, <1>11
  <2> QED
    BY <1>1, <1>2, <1>8, <1>12, <2>1 DEF Forms!TypeOK
<1>14. FormsType'
  <2>1. ASSUME NEW sl \in Slot, intakeReq'[sl].op \in OfSession
        PROVE  formSession'[intakeReq'[sl].session] # FormUnmade
    <3>1. /\ intakeReq[sl].op \in OfSession /\ intakeReq'[sl].session = intakeReq[sl].session
          /\ intakeReq[sl].session \in FormSession
          /\ formSession[intakeReq[sl].session] # FormUnmade
      BY <1>2, <1>11, <2>1, FormRequests DEF FormsInv, FormsType
    <3> QED
      BY <1>6, <1>8, <3>1
  <2> QED
    BY <1>13, <2>1 DEF FormsType
<1>15. (Cardinality(Forms!Busy) <= load)'
  <2>1. \A sl \in Slot : intakeReq'[sl] # Forms!Idle => intakeReq[sl] # Forms!Idle
    <3> SUFFICES ASSUME NEW sl \in Slot, intakeReq[sl] = Forms!Idle PROVE intakeReq'[sl] = Forms!Idle
      OBVIOUS
    <3>1. intakeReq[sl].op # "guess"
      BY IdleForms
    <3> QED
      BY <1>10, <3>1
  <2>2. \A sl \in Slot : intakeReq[sl] # Forms!Idle => intakeReq'[sl] # Forms!Idle
    <3> SUFFICES ASSUME NEW sl \in Slot, intakeReq[sl] # Forms!Idle PROVE intakeReq'[sl] # Forms!Idle
      OBVIOUS
    <3> QED
      BY <1>9, <1>10, IdleForms
  <2>3. Forms!Busy' = Forms!Busy
    BY <2>1, <2>2 DEF Forms!Busy
  <2> QED
    BY <1>1, <2>3 DEF FormsInv
<1>16. ASSUME NEW t \in FormSession, formSession'[t] # FormUnmade
       PROVE  RowGood(formSession[t])' /\ CodesBounded(t)'
  <2>1. formSession[t] # FormUnmade
    BY <1>1, <1>8, <1>16
  <2>2. RowGood(formSession[t]) /\ CodesBounded(t)
    BY <2>1 DEF FormsInv
  <2>3. /\ formSession'[t].attempts = formSession[t].attempts
        /\ formSession'[t].guesses = formSession[t].guesses
        /\ formSession[t].late => formSession'[t].late
    BY <1>3, <1>5, <1>8
  <2>4. \A o \in Slot : Coding(t, o)' => CodeSeen(t, o)' = CodeSeen(t, o)
    BY <1>11 DEF Coding, CodeSeen, OfSession
  <2>5. CodesBounded(t)'
    BY <1>1, <1>2, <1>13, <1>16, <2>1, <2>2, <2>3, <2>4, QuietCodes
  <2>6. RowGood(formSession[t])'
    BY <1>1, <1>3, <1>5, <1>8, <2>2 DEF RowGood
  <2> QED
    BY <2>5, <2>6
<1>17. ASSUME NEW sl \in Slot, intakeReq'[sl].op \in OfSession
       PROVE  RequestGood(intakeReq[sl], formSession[intakeReq[sl].session])'
  <2>1. /\ intakeReq[sl].op \in OfSession /\ intakeReq[sl].session \in FormSession
        /\ intakeReq'[sl].session = intakeReq[sl].session
    BY <1>2, <1>11, <1>17, FormRequests
  <2>2. RequestGood(intakeReq[sl], formSession[intakeReq[sl].session])
    BY <2>1 DEF FormsInv
  <2>3. CASE intakeReq[sl].session # s
    BY <1>1, <1>8, <1>10, <2>1, <2>2, <2>3 DEF RequestGood
  <2>4. CASE intakeReq[sl].session = s /\ intakeReq[sl].op # "guess"
    <3>1. /\ formSession'[s] = row /\ r.otp = row.otp /\ r.submitted = row.submitted
          /\ load' = load /\ RequestGood(intakeReq[sl], r) /\ intakeReq[sl].op # "guess"
          /\ intakeReq'[sl] = intakeReq[sl] /\ intakeReq[sl].session = s
      BY <1>1, <1>3, <1>5, <1>8, <1>10, <2>2, <2>4
    <3> QED
      BY <3>1 DEF RequestGood
  <2>5. CASE intakeReq[sl].session = s /\ intakeReq[sl].op = "guess"
    <3>1. /\ formSession'[s] = row /\ r.otp = row.otp /\ r.status = row.status /\ r.submitted = row.submitted
          /\ row.late = TRUE /\ load' = load /\ RequestGood(intakeReq[sl], r)
          /\ intakeReq'[sl].session = s
      BY <1>1, <1>3, <1>5, <1>8, <2>1, <2>2, <2>5
    <3>2. PICK q, n : q = intakeReq[sl] /\ n = intakeReq'[sl]
      OBVIOUS
    <3>3. /\ q.op = "guess" /\ n.op = "guess" /\ n.read.otp = q.read.otp
          /\ n.read.status = q.read.status /\ n.read.late = TRUE
      BY <1>9, <2>5, <3>2
    <3>4. RequestGood(q, r)
      BY <3>1, <3>2
    <3>5. RequestGood(n, row)
      BY <3>1, <3>3, <3>4 DEF RequestGood
    <3> QED
      BY <3>1, <3>2, <3>5 DEF RequestGood
  <2> QED
    BY <2>3, <2>4, <2>5
<1> QED
  BY <1>12, <1>14, <1>15, <1>16, <1>17 DEF FormsInv

LEMMA FormsStep == FormsInv /\ [Forms!Next]_<<formSession, ticket, intakeReq, load>> => FormsInv'
<1> SUFFICES ASSUME FormsInv, [Forms!Next]_<<formSession, ticket, intakeReq, load>> PROVE FormsInv'
  OBVIOUS
<1>1. ASSUME NEW sl \in Slot, Forms!Begin(sl) PROVE FormsInv'
  BY <1>1, StartInv, VerifyInv, AccessInv DEF Forms!Begin
<1>2. ASSUME NEW sl \in Slot, Forms!Step(sl) PROVE FormsInv'
  BY <1>2, StartInv, AccessInv, WrongInv, RightInv, PhotoInv DEF Forms!Step
<1> QED
  BY <1>1, <1>2, LateInv, AroundForms DEF Forms!Next

LEMMA FormsInit == Forms!Init => FormsInv
<1> SUFFICES ASSUME Forms!Init PROVE FormsInv
  OBVIOUS
<1>1. /\ \A s \in FormSession : formSession[s] = FormUnmade
      /\ \A sl \in Slot : intakeReq[sl] = Forms!Idle
      /\ \A k \in Ticket : ticket[k] = Forms!NoTicket
      /\ load \in 1..MaxLoad
  BY DEF Forms!Init, Forms!Unmade, FormUnmade
<1>2. Forms!TypeOK
  BY IdleForms DEF Forms!Init, Forms!TypeOK, Forms!SessionRow, Forms!TicketRow
<1>3. FormsType
  BY <1>1, <1>2, IdleForms DEF FormsType
<1>4. Cardinality(Forms!Busy) <= load
  <2>1. Forms!Busy = {}
    BY <1>1 DEF Forms!Busy
  <2> QED
    BY <1>1, <2>1, LoadIsNat, NoCrowd
<1>5. \A k \in Ticket : TicketGood(k)
  BY <1>1 DEF TicketGood, Forms!NoTicket
<1> QED
  BY <1>1, <1>3, <1>4, <1>5, IdleForms DEF FormsInv

----------------------------------------------------------------------------
LEMMA FormsBound == FormsInv => Forms!GuessesBounded
<1> SUFFICES ASSUME FormsInv, NEW s \in FormSession, formSession[s] # FormUnmade
    PROVE  formSession[s].guesses <= CASE load = 1 -> MaxAttempts
                                       [] load = 2 -> (MaxAttempts * (MaxAttempts + 3)) \div 2
                                       [] OTHER    -> MaxGuesses
  BY DEF Forms!GuessesBounded, Forms!Made, Forms!Unmade, FormUnmade
<1>1. /\ MaxAttempts \in Nat \ {0} /\ CodesTyped(s)
      /\ formSession[s] \in FormRow
  BY CodesRead, FormLimits, FormMade DEF AllCodesTyped, FormsInv, FormsType
<1>2. /\ Codes(s) \in 0..MaxAttempts /\ formSession[s].guesses \in Nat
      /\ formSession[s].guesses \in 0..MaxGuesses
  BY <1>1, FormSnapshot DEF CodesTyped
<1>3. Bounded(MaxAttempts, Codes(s), formSession[s].guesses, CodeReads(s))
  BY DEF FormsInv, CodesBounded
<1>4. CASE load = 1
  BY <1>1, <1>2, <1>3, <1>4 DEF Bounded
<1>5. CASE load = 2
  BY <1>1, <1>2, <1>3, <1>5, HalfOfIt DEF Bounded
<1>6. CASE load # 1 /\ load # 2
  BY <1>2, <1>6, FormLimits
<1> QED
  BY <1>4, <1>5, <1>6

LEMMA TicketsBound == FormsInv => Forms!TicketUsedOnce
<1> SUFFICES ASSUME FormsInv, NEW k \in Ticket, ticket[k] # Forms!NoTicket PROVE ticket[k].uses <= 1
  BY DEF Forms!TicketUsedOnce
<1>1. ticket[k] \in [where : {"held", "gone"}, session : FormSession, uses : Nat]
  BY DEF FormsInv, FormsType, Forms!TypeOK, Forms!TicketRow
<1>2. ticket[k].where \in {"held", "gone"} /\ TicketGood(k)
  BY <1>1 DEF FormsInv
<1> QED
  BY <1>2 DEF TicketGood

LEMMA ContentKept == FormsInv => StatusHasContent
BY DEF StatusHasContent, Forms!StatusHasContent, FormsInv, RowGood, Forms!Made, Forms!Unmade, FormUnmade

LEMMA OtpUpdate ==
  ASSUME FormsInv, NEW s \in FormSession, NEW sl \in Slot, NEW row, NEW next,
         Forms!Update(sl, row, next), intakeReq[sl].op \in OfSession,
         Forms!OtpMove(formSession[intakeReq[sl].session], row)
  PROVE  Forms!OtpMove(formSession[s], formSession'[s])
<1>1. formSession' = [formSession EXCEPT ![intakeReq[sl].session] = row]
  BY DEF Forms!Update
<1>2. formSession \in [FormSession -> Forms!SessionRow]
  BY DEF FormsInv, FormsType, Forms!TypeOK
<1>3. CASE s = intakeReq[sl].session
  <2>1. formSession'[s] = row
    BY <1>1, <1>2, <1>3
  <2> QED
    BY <1>3, <2>1
<1>4. CASE s # intakeReq[sl].session
  <2>1. formSession'[s] = formSession[s]
    BY <1>1, <1>2, <1>4
  <2> QED
    BY <2>1 DEF Forms!OtpMove
<1> QED
  BY <1>3, <1>4

LEMMA OtpStep ==
  ASSUME FormsInv, [Forms!Next]_<<formSession, ticket, intakeReq, load>>, load = 1,
         NEW s \in Forms!Made
  PROVE  Forms!OtpMove(formSession[s], formSession'[s])
<1>1. s \in FormSession /\ formSession[s] # FormUnmade
  BY DEF Forms!Made, Forms!Unmade, FormUnmade
<1>2. formSession \in [FormSession -> Forms!SessionRow]
  BY DEF FormsInv, FormsType, Forms!TypeOK
<1>3. ASSUME formSession'[s] = formSession[s] PROVE Forms!OtpMove(formSession[s], formSession'[s])
  BY <1>3 DEF Forms!OtpMove
<1>4. ASSUME NEW sl \in Slot, Forms!WrongGuess(sl) PROVE Forms!OtpMove(formSession[s], formSession'[s])
  <2> DEFINE q == intakeReq[sl]
             r == formSession[q.session]
             attempts == q.read.attempts + 1
             last == attempts >= MaxAttempts
  <2>1. q.op = "guess" /\ q.op \in OfSession
    BY <1>4 DEF Forms!WrongGuess, OfSession
  <2>2. PICK row : row = [r EXCEPT !.attempts = Forms!UpTo(attempts, MaxAttempts),
                                !.otp = IF last THEN "FAILED" ELSE q.read.otp,
                                !.status = IF last THEN "FAILED" ELSE q.read.status,
                                !.late = last \/ q.read.late,
                                !.guesses = Forms!UpTo(@ + 1, MaxGuesses)]
    OBVIOUS
  <2>3. Forms!Update(sl, row, Forms!Idle)
    BY <1>4, <2>2 DEF Forms!WrongGuess
  <2>4. r \in FormRow /\ RequestGood(q, r)
    BY <2>1, Acting
  <2>5. q.read.otp = r.otp /\ r.otp \notin {"EXPIRED", "FAILED"}
    BY <2>1, <2>4 DEF RequestGood
  <2>6. q.read.attempts \in 0..MaxAttempts
    <3>1. q.read \in Forms!Snapshot
      BY <2>1, FormRequests DEF FormsInv, FormsType
    <3> QED
      BY <3>1 DEF Forms!Snapshot
  <2>7. row.attempts = Forms!UpTo(attempts, MaxAttempts) /\ row.otp = IF last THEN "FAILED" ELSE q.read.otp
    BY <2>2, <2>4 DEF FormRow
  <2>8. last => Forms!UpTo(attempts, MaxAttempts) = MaxAttempts
    BY <2>6, FormLimits DEF Forms!UpTo
  <2>9. Forms!OtpMove(r, row)
    BY <2>5, <2>7, <2>8, <2>4, FormSnapshot DEF Forms!OtpMove, Forms!OtpStatus
  <2> QED
    BY <1>1, <2>1, <2>3, <2>9, OtpUpdate
<1>5. ASSUME NEW sl \in Slot, Forms!Activate(sl) PROVE Forms!OtpMove(formSession[s], formSession'[s])
  <2> DEFINE q == intakeReq[sl]
             r == formSession[q.session]
  <2>1. q.op = "activate" /\ q.op \in OfSession
    BY <1>5 DEF Forms!Activate, OfSession
  <2>2. PICK row : row = [r EXCEPT !.otp = "VERIFIED", !.late = FALSE, !.opened = TRUE,
                       !.status = IF q.carried THEN "DRAFT" ELSE "VERIFIED",
                       !.draft = q.carried \/ @, !.guesses = 0]
    OBVIOUS
  <2>3. Forms!Update(sl, row, Forms!Idle)
    BY <1>5, <2>2 DEF Forms!Activate
  <2>4. r \in FormRow /\ r.otp \notin {"EXPIRED", "FAILED"}
    BY <2>1, Acting DEF RequestGood
  <2>5. row.otp = "VERIFIED"
    BY <2>2, <2>4 DEF FormRow
  <2>6. Forms!OtpMove(r, row)
    BY <2>4, <2>5, FormSnapshot DEF Forms!OtpMove, Forms!OtpStatus
  <2> QED
    BY <1>1, <2>1, <2>3, <2>6, OtpUpdate
<1>6. ASSUME NEW sl \in Slot, Forms!ExpireSession(sl) PROVE Forms!OtpMove(formSession[s], formSession'[s])
  <2> DEFINE q == intakeReq[sl]
             r == formSession[q.session]
  <2>1. q.op \in OfSession
    BY <1>6 DEF Forms!ExpireSession, OfSession
  <2>2. PICK row : row = IF r.status = "SUBMITTED" THEN r
                         ELSE [r EXCEPT !.otp = "EXPIRED", !.status = "EXPIRED", !.late = TRUE]
    OBVIOUS
  <2>3. Forms!Update(sl, row, Forms!Idle)
    BY <1>6, <2>2 DEF Forms!ExpireSession
  <2>4. r \in FormRow
    BY <2>1, Acting
  <2>5. row = r \/ row.otp = "EXPIRED"
    BY <2>2, <2>4 DEF FormRow
  <2>6. Forms!OtpMove(r, row)
    BY <2>4, <2>5, FormSnapshot DEF Forms!OtpMove, Forms!OtpStatus
  <2> QED
    BY <1>1, <2>1, <2>3, <2>6, OtpUpdate
<1>7. ASSUME NEW sl \in Slot, Forms!SaveDraft(sl) \/ Forms!CloseSession(sl) \/ Forms!CreateSubmission(sl)
      PROVE  Forms!OtpMove(formSession[s], formSession'[s])
  <2> DEFINE q == intakeReq[sl]
             r == formSession[q.session]
  <2>1. q.op \in OfSession
    BY <1>7 DEF Forms!SaveDraft, Forms!CloseSession, Forms!CreateSubmission, OfSession
  <2>2. r \in FormRow
    BY <2>1, Acting
  <2>3. ASSUME NEW row, NEW next, Forms!Update(sl, row, next), row.otp = r.otp
        PROVE  Forms!OtpMove(formSession[s], formSession'[s])
    <3>1. Forms!OtpMove(r, row)
      BY <2>3 DEF Forms!OtpMove
    <3> QED
      BY <1>1, <2>1, <2>3, <3>1, OtpUpdate
  <2>4. CASE Forms!SaveDraft(sl)
    <3>1. PICK row : row = [r EXCEPT !.draft = TRUE, !.status = "DRAFT"]
      OBVIOUS
    <3>2. row.otp = r.otp
      BY <2>2, <3>1 DEF FormRow
    <3>3. Forms!Update(sl, row, Forms!Idle)
      BY <2>4, <3>1 DEF Forms!SaveDraft
    <3> QED
      BY <2>3, <3>2, <3>3
  <2>5. CASE Forms!CloseSession(sl)
    <3>1. PICK row : row = [r EXCEPT !.status = "SUBMITTED", !.draft = FALSE]
      OBVIOUS
    <3>2. row.otp = r.otp
      BY <2>2, <3>1 DEF FormRow
    <3>3. Forms!Update(sl, row, Forms!Idle)
      BY <2>5, <3>1 DEF Forms!CloseSession
    <3> QED
      BY <2>3, <3>2, <3>3
  <2>6. CASE Forms!CreateSubmission(sl)
    <3>1. PICK row : row = [r EXCEPT !.submitted = TRUE]
      OBVIOUS
    <3>2. row.otp = r.otp
      BY <2>2, <3>1 DEF FormRow
    <3>3. Forms!Update(sl, row, [op |-> "close", session |-> q.session])
      BY <2>6, <3>1 DEF Forms!CreateSubmission
    <3> QED
      BY <2>3, <3>2, <3>3
  <2> QED
    BY <1>7, <2>4, <2>5, <2>6
<1>8. ASSUME NEW t \in FormSession, Forms!SessionRunsOut(t) PROVE Forms!OtpMove(formSession[s], formSession'[s])
  <2>1. formSession' = [formSession EXCEPT ![t].late = TRUE]
    BY <1>8 DEF Forms!SessionRunsOut
  <2>2. PICK r \in FormRow : r = formSession[s]
    BY <1>1, <1>2, FormMade DEF FormsInv, FormsType
  <2>3. formSession'[s] = r \/ formSession'[s] = [r EXCEPT !.late = TRUE]
    BY <1>1, <1>2, <2>1, <2>2
  <2>4. formSession'[s].otp = r.otp
    BY <2>3 DEF FormRow
  <2> QED
    BY <2>2, <2>4 DEF Forms!OtpMove
<1>9. ASSUME NEW t \in FormSession \ Forms!Made, NEW row, formSession' = [formSession EXCEPT ![t] = row]
      PROVE  Forms!OtpMove(formSession[s], formSession'[s])
  BY <1>1, <1>2, <1>3, <1>9
<1>10. ASSUME NEW sl \in Slot, Forms!Begin(sl) PROVE Forms!OtpMove(formSession[s], formSession'[s])
  BY <1>3, <1>10 DEF Forms!Begin, Forms!BeginStart, Forms!BeginVerify, Forms!BeginAccess, Forms!Rows
<1>11. ASSUME NEW sl \in Slot, Forms!Step(sl) PROVE Forms!OtpMove(formSession[s], formSession'[s])
  <2>1. CASE Forms!RefuseStart(sl) \/ Forms!Compare(sl) \/ Forms!FindDraft(sl) \/ Forms!RefuseAccess(sl)
             \/ Forms!IssueTicket(sl) \/ Forms!TakePhoto(sl)
    BY <1>3, <2>1 DEF Forms!RefuseStart, Forms!Compare, Forms!FindDraft, Forms!RefuseAccess,
       Forms!IssueTicket, Forms!TakePhoto, Forms!Rows
  <2>2. CASE Forms!CreateSession(sl)
    BY <1>9, <2>2 DEF Forms!CreateSession
  <2> QED
    BY <1>4, <1>5, <1>6, <1>7, <1>11, <2>1, <2>2 DEF Forms!Step
<1>12. CASE Forms!CreateAnonSession
  BY <1>9, <1>12 DEF Forms!CreateAnonSession
<1>13. CASE \/ \E k \in Ticket : Forms!TicketRunsOut(k)
            \/ Forms!ProcessRestart \/ UNCHANGED <<formSession, ticket, intakeReq, load>>
  BY <1>3, <1>13 DEF Forms!TicketRunsOut, Forms!ProcessRestart
<1> QED
  BY <1>8, <1>10, <1>11, <1>12, <1>13 DEF Forms!Next

----------------------------------------------------------------------------
(* The codes of parents: types                                             *)
OtpUnmade == [at |-> 0]
OfChallenge == {"expire", "compare", "consume", "user", "create", "issue"}
OtpRequest ==
  {Parents!Idle}
  \cup [op : {"send", "find"}]
  \cup [op : {"store"}, old : SUBSET FormSession]
  \cup [op : {"log"}, outcome : Parents!Outcome]
  \cup [op : {"expire", "consume", "user", "create", "issue"}, challenge : FormSession]
  \cup [op : {"compare"}, challenge : FormSession, attempts : 0..MaxAttempts]

OtpType ==
  /\ load \in 1..MaxLoad
  /\ challenge \in [FormSession -> Parents!ChallengeRow \cup {OtpUnmade}]
  /\ log \in Seq(Parents!Outcome)
  /\ otpReq \in [Slot -> OtpRequest]
  /\ \A sl \in Slot : otpReq[sl].op \in OfChallenge => challenge[otpReq[sl].challenge] # OtpUnmade

LEMMA OtpMade ==
  /\ \A r \in Parents!ChallengeRow : r # OtpUnmade
  /\ \A r \in Parents!ChallengeRow :
       /\ r.at \in Nat \ {0} /\ r.used \in BOOLEAN /\ r.recent \in BOOLEAN /\ r.late \in BOOLEAN
       /\ r.attempts \in 0..MaxAttempts /\ r.guesses \in Nat /\ r.logins \in Nat
  /\ Parents!Unmade = OtpUnmade
BY DEF Parents!ChallengeRow, OtpUnmade, Parents!Unmade

LEMMA OtpRequests ==
  ASSUME NEW q \in OtpRequest
  PROVE  /\ q.op \in OfChallenge => q.challenge \in FormSession
         /\ q.op = "compare" => q.attempts \in 0..MaxAttempts
         /\ q.op = "store" => q.old \in SUBSET FormSession
         /\ q.op = "log" => q.outcome \in Parents!Outcome
         /\ q.op # "idle" => q # Parents!Idle
         /\ Parents!Idle.op = "idle"
BY DEF OtpRequest, OfChallenge, Parents!Idle

LEMMA IdleParents ==
  Parents!Idle \in OtpRequest /\ Parents!Idle.op = "idle" /\ Parents!Idle.op \notin OfChallenge
BY DEF OtpRequest, OfChallenge, Parents!Idle

LEMMA ParentsCount == \A S : Parents!Cardinality(S) = Cardinality(S)
  BY DEF Parents!Cardinality, Cardinality

----------------------------------------------------------------------------
(* Wrong codes of a challenge                                              *)
Taken(c) == IF challenge[c].used THEN MaxAttempts ELSE challenge[c].attempts
Comparing(c, sl) == otpReq[sl].op = "compare" /\ otpReq[sl].challenge = c
TakenSeen(c, sl) == IF Comparing(c, sl) THEN otpReq[sl].attempts ELSE MaxAttempts
TakenReads(c) == [sl \in Slot |-> TakenSeen(c, sl)]

TakenBounded(c) == Bounded(MaxAttempts, Taken(c), challenge[c].guesses, TakenReads(c))

(* What is compared was open; a row that is open counts below its limit    *)
OtpCounts ==
  /\ OtpType
  /\ \A c \in FormSession :
       challenge[c] # OtpUnmade /\ ~challenge[c].used => challenge[c].attempts < MaxAttempts
  /\ \A sl \in Slot : otpReq[sl].op = "compare" => otpReq[sl].attempts < MaxAttempts

TakenTyped(c) ==
  /\ TakenReads(c) \in [Slot -> 0..MaxAttempts]
  /\ \A sl \in Slot :
       TakenSeen(c, sl) \in 0..MaxAttempts /\ (Comparing(c, sl) <=> TakenSeen(c, sl) < MaxAttempts)
  /\ challenge[c] # OtpUnmade =>
       /\ challenge[c].guesses \in Nat /\ Taken(c) \in 0..MaxAttempts
       /\ ~challenge[c].used => Taken(c) < MaxAttempts
AllTakenTyped == \A c \in FormSession : TakenTyped(c)

LEMMA TakenRead == OtpCounts => AllTakenTyped
<1> SUFFICES ASSUME OtpCounts, NEW c \in FormSession PROVE TakenTyped(c)
  BY DEF AllTakenTyped
<1>1. MaxAttempts \in Nat \ {0}
  BY FormLimits
<1>2. ASSUME NEW sl \in Slot
      PROVE  TakenSeen(c, sl) \in 0..MaxAttempts /\ (Comparing(c, sl) <=> TakenSeen(c, sl) < MaxAttempts)
  <2>1. CASE Comparing(c, sl)
    <3>1. otpReq[sl] \in OtpRequest /\ otpReq[sl].op = "compare"
      BY <2>1 DEF Comparing, OtpCounts, OtpType
    <3>2. otpReq[sl].attempts \in 0..MaxAttempts /\ otpReq[sl].attempts < MaxAttempts
      BY <3>1, OtpRequests DEF OtpCounts
    <3> QED
      BY <2>1, <3>2 DEF TakenSeen
  <2>2. CASE ~Comparing(c, sl)
    BY <1>1, <2>2 DEF TakenSeen
  <2> QED
    BY <2>1, <2>2
<1>3. ASSUME challenge[c] # OtpUnmade
      PROVE  /\ challenge[c].guesses \in Nat /\ Taken(c) \in 0..MaxAttempts
             /\ ~challenge[c].used => Taken(c) < MaxAttempts
  <2>1. challenge[c] \in Parents!ChallengeRow
    BY <1>3 DEF OtpCounts, OtpType
  <2>2. challenge[c].attempts \in 0..MaxAttempts /\ challenge[c].guesses \in Nat
    BY <2>1, OtpMade
  <2> QED
    BY <1>1, <1>3, <2>2 DEF Taken, OtpCounts
<1> QED
  BY <1>2, <1>3 DEF TakenTyped, TakenReads

LEMMA TakenReadNext == OtpCounts' => AllTakenTyped'
BY TakenRead, PTL

(* Nobody starts to compare, and the row stays or is used                  *)
LEMMA QuietTaken ==
  ASSUME OtpCounts, OtpCounts', load' = load, NEW c \in FormSession, TakenBounded(c),
         challenge[c] # OtpUnmade, challenge'[c] # OtpUnmade,
         challenge'[c].attempts = challenge[c].attempts,
         challenge'[c].guesses = challenge[c].guesses,
         challenge[c].used => challenge'[c].used,
         \A o \in Slot : Comparing(c, o)' => TakenSeen(c, o)' = TakenSeen(c, o)
  PROVE  TakenBounded(c)'
<1>1. TakenTyped(c) /\ TakenTyped(c)' /\ MaxAttempts \in Nat \ {0}
  BY TakenRead, TakenReadNext, FormLimits DEF AllTakenTyped
<1>2. /\ TakenReads(c) \in [Slot -> 0..MaxAttempts] /\ TakenReads(c)' \in [Slot -> 0..MaxAttempts]
      /\ Taken(c) \in 0..MaxAttempts /\ Taken(c)' \in 0..MaxAttempts
      /\ challenge[c].guesses \in Nat
      /\ \A o \in Slot : Comparing(c, o)' <=> TakenSeen(c, o)' < MaxAttempts
      /\ \A o \in Slot : TakenSeen(c, o)' \in 0..MaxAttempts
  BY <1>1 DEF TakenTyped
<1>3. Taken(c)' \in {Taken(c), MaxAttempts}
  BY DEF Taken
<1>4. \A o \in Slot : TakenReads(c)'[o] \in {TakenReads(c)[o], MaxAttempts}
  <2> SUFFICES ASSUME NEW o \in Slot PROVE TakenSeen(c, o)' \in {TakenSeen(c, o), MaxAttempts}
    BY DEF TakenReads
  <2> QED
    BY <1>1, <1>2
<1>5. Bounded(MaxAttempts, Taken(c)', challenge[c].guesses, TakenReads(c)')
  BY <1>1, <1>2, <1>3, <1>4, Unguessed DEF TakenBounded
<1> QED
  BY <1>5 DEF TakenBounded, Bounded

(* A new challenge                                                         *)
LEMMA FreshTaken ==
  ASSUME OtpCounts', load' = load, NEW c \in FormSession,
         challenge'[c] # OtpUnmade, challenge'[c].guesses = 0, \A o \in Slot : ~Comparing(c, o)'
  PROVE  TakenBounded(c)'
<1>1. TakenTyped(c)' /\ MaxAttempts \in Nat \ {0}
  BY TakenReadNext, FormLimits DEF AllTakenTyped
<1>2. TakenReads(c)' \in [Slot -> 0..MaxAttempts] /\ Taken(c)' \in 0..MaxAttempts
  BY <1>1 DEF TakenTyped
<1>3. Alone(TakenReads(c)', MaxAttempts)
  BY DEF Alone, TakenReads, TakenSeen
<1>4. Bounded(MaxAttempts, Taken(c)', 0, TakenReads(c)')
  BY <1>1, <1>2, <1>3, Forgotten
<1> QED
  BY <1>4 DEF TakenBounded, Bounded

(* FindChallenge reads the row                                             *)
LEMMA StartedTaken ==
  ASSUME OtpCounts, OtpCounts', load' = load, NEW c \in FormSession, TakenBounded(c),
         challenge[c] # OtpUnmade, challenge'[c] = challenge[c], ~challenge[c].used,
         NEW sl \in Slot, TakenSeen(c, sl)' = Taken(c),
         \A o \in Slot \ {sl} : TakenSeen(c, o)' = TakenSeen(c, o)
  PROVE  TakenBounded(c)'
<1>1. TakenTyped(c) /\ TakenTyped(c)' /\ MaxAttempts \in Nat \ {0}
  BY TakenRead, TakenReadNext, FormLimits DEF AllTakenTyped
<1>2. /\ TakenReads(c) \in [Slot -> 0..MaxAttempts] /\ TakenReads(c)' \in [Slot -> 0..MaxAttempts]
      /\ Taken(c) \in 0..MaxAttempts /\ Taken(c) < MaxAttempts
      /\ challenge[c].guesses \in Nat
  BY <1>1 DEF TakenTyped
<1>3. TakenReads(c)'[sl] = Taken(c) /\ \A o \in Slot \ {sl} : TakenReads(c)'[o] = TakenReads(c)[o]
  BY DEF TakenReads
<1>4. Bounded(MaxAttempts, Taken(c), challenge[c].guesses, TakenReads(c)')
  BY <1>1, <1>2, <1>3, ReadRow DEF TakenBounded
<1>5. Taken(c)' = Taken(c)
  BY DEF Taken
<1> QED
  BY <1>4, <1>5 DEF TakenBounded, Bounded

(* A wrong code is written                                                 *)
LEMMA WroteTaken ==
  ASSUME OtpCounts, OtpCounts', load' = load, NEW c \in FormSession, TakenBounded(c),
         challenge[c] # OtpUnmade, challenge'[c] # OtpUnmade, NEW sl \in Slot, Comparing(c, sl),
         TakenSeen(c, sl) + 1 <= Taken(c)', challenge'[c].guesses <= challenge[c].guesses + 1,
         ~Comparing(c, sl)', \A o \in Slot \ {sl} : otpReq'[o] = otpReq[o],
         Cardinality(Parents!Busy) <= load
  PROVE  TakenBounded(c)'
<1>1. TakenTyped(c) /\ TakenTyped(c)' /\ MaxAttempts \in Nat \ {0}
  BY TakenRead, TakenReadNext, FormLimits DEF AllTakenTyped
<1>2. /\ TakenReads(c) \in [Slot -> 0..MaxAttempts] /\ TakenReads(c)' \in [Slot -> 0..MaxAttempts]
      /\ Taken(c) \in 0..MaxAttempts /\ Taken(c)' \in 0..MaxAttempts
      /\ challenge[c].guesses \in Nat /\ challenge'[c].guesses \in Nat
      /\ \A o \in Slot : Comparing(c, o) <=> TakenSeen(c, o) < MaxAttempts
      /\ \A o \in Slot : Comparing(c, o)' <=> TakenSeen(c, o)' < MaxAttempts
      /\ \A o \in Slot : TakenSeen(c, o) \in 0..MaxAttempts /\ TakenSeen(c, o)' \in 0..MaxAttempts
  BY <1>1 DEF TakenTyped
<1>3. \A o \in Slot \ {sl} : TakenSeen(c, o)' = TakenSeen(c, o)
  BY DEF TakenSeen, Comparing
<1>4. \A o \in Slot : Comparing(c, o) => o \in Parents!Busy
  BY DEF Comparing, Parents!Busy, Parents!Idle
<1>5. /\ load = 1 => \A o \in Slot \ {sl} : ~Comparing(c, o)
      /\ load = 2 => \A o, p \in Slot \ {sl} : o # p => ~Comparing(c, o) \/ ~Comparing(c, p)
  <2>1. Parents!Busy \in SUBSET Slot /\ sl \in Parents!Busy /\ load \in Nat
    BY <1>4, LoadIsNat DEF Parents!Busy, OtpCounts, OtpType
  <2> QED
    BY <1>4, <2>1, InFlight
<1>6. PICK m, k, j, g, h, R, Q : /\ m = MaxAttempts /\ k = Taken(c) /\ j = Taken(c)'
                                 /\ g = challenge[c].guesses /\ h = challenge'[c].guesses
                                 /\ R = TakenReads(c) /\ Q = TakenReads(c)'
  OBVIOUS
<1>7. /\ m \in Nat \ {0} /\ k \in 0..m /\ j \in 0..m /\ g \in Nat /\ h \in Nat /\ h <= g + 1
      /\ R \in [Slot -> 0..m] /\ Q \in [Slot -> 0..m]
  BY <1>1, <1>2, <1>6
<1>8. /\ \A o \in Slot : R[o] = TakenSeen(c, o) /\ Q[o] = TakenSeen(c, o)'
  BY <1>6 DEF TakenReads
<1>9. R[sl] < m /\ R[sl] + 1 <= j /\ Q[sl] = m
  BY <1>1, <1>2, <1>6, <1>8
<1>10. \A o \in Slot \ {sl} : /\ R[o] = m <=> Q[o] = m
                              /\ Q[o] \in {R[o], IF j < m THEN j ELSE m - 1}
  BY <1>3, <1>8
<1>11. \A o \in Slot : ~Comparing(c, o) => R[o] = m
  BY <1>1, <1>2, <1>6, <1>8
<1>12. /\ load = 1 => \A o \in Slot \ {sl} : R[o] = m
       /\ load = 2 => \A o, p \in Slot \ {sl} : o # p => R[o] = m \/ R[p] = m
  BY <1>5, <1>11
<1>13. Bounded(m, k, g, R)
  BY <1>6 DEF TakenBounded
<1>14. Bounded(m, j, h, Q)
  BY <1>7, <1>9, <1>10, <1>12, <1>13, WroteGuess
<1>15. Bounded(MaxAttempts, Taken(c)', challenge'[c].guesses, TakenReads(c)')
  BY <1>6, <1>14
<1> QED
  BY <1>15 DEF TakenBounded, Bounded

(* The failures in the audit log, and the requests that may log another    *)
Wrong(l) == {i \in DOMAIN l : l[i] = "OTP_VERIFY_FAILED"}
MayFail ==
  {sl \in Slot : \/ otpReq[sl].op \in {"find", "compare", "expire"}
                 \/ otpReq[sl].op = "log" /\ otpReq[sl].outcome = "OTP_VERIFY_FAILED"}
LogBounded == Cardinality(Wrong(log)) + Cardinality(MayFail) <= VerifyLimit + load - 1

LEMMA WrongCount ==
  ASSUME NEW l \in Seq(Parents!Outcome)
  PROVE  /\ IsFiniteSet(Wrong(l)) /\ Cardinality(Wrong(l)) \in Nat
         /\ Cardinality(Wrong(l)) <= Len(l)
<1>1. DOMAIN l = 1..Len(l) /\ Len(l) \in Nat
  OBVIOUS
<1>2. IsFiniteSet(1..Len(l)) /\ Cardinality(1..Len(l)) = Len(l)
  BY <1>1, FS_Interval
<1>3. Wrong(l) \in SUBSET (1..Len(l))
  BY <1>1 DEF Wrong
<1> QED
  BY <1>2, <1>3, FS_Subset, FS_CardinalityType

LEMMA WrongAppended ==
  ASSUME NEW l \in Seq(Parents!Outcome), NEW x \in Parents!Outcome
  PROVE  Cardinality(Wrong(Append(l, x))) =
           IF x = "OTP_VERIFY_FAILED" THEN Cardinality(Wrong(l)) + 1 ELSE Cardinality(Wrong(l))
<1>1. PICK m : m = Append(l, x)
  OBVIOUS
<1>2. /\ Len(l) \in Nat /\ DOMAIN l = 1..Len(l) /\ DOMAIN m = 1..(Len(l) + 1)
      /\ \A i \in 1..Len(l) : m[i] = l[i]
      /\ m[Len(l) + 1] = x
  BY <1>1
<1>3. CASE x = "OTP_VERIFY_FAILED"
  <2>1. Wrong(m) = Wrong(l) \cup {Len(l) + 1}
    BY <1>2, <1>3 DEF Wrong
  <2>2. Len(l) + 1 \notin Wrong(l)
    BY <1>2 DEF Wrong
  <2> QED
    BY <1>1, <1>3, <2>1, <2>2, WrongCount, FS_AddElement
<1>4. CASE x # "OTP_VERIFY_FAILED"
  <2>1. Wrong(m) = Wrong(l)
    BY <1>2, <1>4 DEF Wrong
  <2> QED
    BY <1>1, <1>4, <2>1
<1> QED
  BY <1>3, <1>4

LEMMA WrongTail ==
  ASSUME NEW l \in Seq(Parents!Outcome), l # <<>>
  PROVE  Cardinality(Wrong(Tail(l))) <= Cardinality(Wrong(l)) /\ Tail(l) \in Seq(Parents!Outcome)
<1>1. PICK m : m = Tail(l)
  OBVIOUS
<1>2. /\ m \in Seq(Parents!Outcome) /\ Len(l) \in Nat \ {0} /\ DOMAIN l = 1..Len(l)
      /\ DOMAIN m = 1..(Len(l) - 1)
      /\ \A i \in 1..(Len(l) - 1) : m[i] = l[i + 1]
  BY <1>1
<1>3. PICK f : f = [i \in Wrong(m) |-> i + 1]
  OBVIOUS
<1>4. f \in [Wrong(m) -> Wrong(l)]
  BY <1>2, <1>3 DEF Wrong
<1>5. \A a, b \in Wrong(m) : f[a] = f[b] => a = b
  BY <1>2, <1>3 DEF Wrong
<1>6. f \in Injection(Wrong(m), Wrong(l))
  BY <1>4, <1>5 DEF Injection, IsInjective
<1>7. Cardinality(Wrong(m)) <= Cardinality(Wrong(l))
  BY <1>6, WrongCount, FS_Injection
<1> QED
  BY <1>1, <1>2, <1>7

LEMMA MayFailCount ==
  /\ IsFiniteSet(MayFail) /\ Cardinality(MayFail) \in Nat
  /\ IsFiniteSet(MayFail') /\ Cardinality(MayFail') \in Nat
<1>1. IsFiniteSet(Slot) /\ MayFail \in SUBSET Slot /\ MayFail' \in SUBSET Slot
  BY LimitAssumption DEF MayFail
<1> QED
  BY <1>1, FS_Subset, FS_CardinalityType

(* Nothing is logged, nobody comes to fail                                 *)
LEMMA QuietLog ==
  ASSUME OtpType, LogBounded, load' = load, MayFail' \subseteq MayFail,
         Cardinality(Wrong(log')) <= Cardinality(Wrong(log)), log' \in Seq(Parents!Outcome)
  PROVE  LogBounded'
<1>1. /\ Cardinality(Wrong(log)) \in Nat /\ Cardinality(Wrong(log')) \in Nat
      /\ Cardinality(MayFail) \in Nat /\ Cardinality(MayFail') \in Nat
      /\ Cardinality(MayFail') <= Cardinality(MayFail)
      /\ VerifyLimit \in Nat /\ load \in Nat
  BY WrongCount, MayFailCount, FS_Subset, LoadIsNat, SessionsAssumption DEF OtpType
<1>2. Cardinality(Wrong(log')) + Cardinality(MayFail') <= VerifyLimit + load - 1
  BY <1>1 DEF LogBounded
<1> QED
  BY <1>2 DEF LogBounded

(* A failure is logged                                                     *)
LEMMA LoggedFailure ==
  ASSUME OtpType, LogBounded, load' = load, NEW sl \in MayFail, MayFail' \subseteq MayFail \ {sl},
         log' = Append(log, "OTP_VERIFY_FAILED")
  PROVE  LogBounded'
<1>1. /\ Cardinality(Wrong(log)) \in Nat
      /\ Cardinality(MayFail) \in Nat /\ Cardinality(MayFail') \in Nat
      /\ VerifyLimit \in Nat /\ load \in Nat
  BY WrongCount, MayFailCount, LoadIsNat, SessionsAssumption DEF OtpType
<1>2. IsFiniteSet(MayFail \ {sl}) /\ Cardinality(MayFail \ {sl}) = Cardinality(MayFail) - 1
  BY MayFailCount, FS_RemoveElement
<1>3. Cardinality(MayFail') <= Cardinality(MayFail) - 1
  BY <1>2, FS_Subset
<1>4. Cardinality(Wrong(log')) = Cardinality(Wrong(log)) + 1
  BY WrongAppended DEF OtpType, Parents!Outcome
<1>5. Cardinality(Wrong(log')) + Cardinality(MayFail') <= VerifyLimit + load - 1
  BY <1>1, <1>3, <1>4 DEF LogBounded
<1> QED
  BY <1>5 DEF LogBounded

(* A request that has counted the failures of the window comes in          *)
LEMMA CountedLog ==
  ASSUME OtpType, load' = load, log' = log, Len(log) < VerifyLimit,
         (Cardinality(Parents!Busy) <= load)'
  PROVE  LogBounded'
<1>1. /\ Cardinality(Wrong(log)) \in Nat /\ Cardinality(Wrong(log)) <= Len(log) /\ Len(log) \in Nat
      /\ Cardinality(MayFail') \in Nat
      /\ VerifyLimit \in Nat /\ load \in Nat
  BY WrongCount, MayFailCount, LoadIsNat, SessionsAssumption DEF OtpType
<1>2. IsFiniteSet(Parents!Busy') /\ MayFail' \in SUBSET (Parents!Busy') /\ Cardinality(Parents!Busy') \in Nat
  <2>1. IsFiniteSet(Slot) /\ Parents!Busy' \in SUBSET Slot
    BY LimitAssumption DEF Parents!Busy
  <2>2. MayFail' \in SUBSET (Parents!Busy')
    BY DEF MayFail, Parents!Busy, Parents!Idle
  <2> QED
    BY <2>1, <2>2, FS_Subset, FS_CardinalityType
<1>3. Cardinality(MayFail') <= Cardinality(Parents!Busy')
  BY <1>2, FS_Subset
<1>4. Cardinality(Wrong(log)) + Cardinality(MayFail') <= VerifyLimit + load - 1
  BY <1>1, <1>2, <1>3
<1> QED
  BY <1>4 DEF LogBounded

(* What a challenge promises, and what a request knows of its own          *)
ChallengeGood(r) ==
  /\ ~r.used => r.attempts < MaxAttempts
  /\ load = 1 => r.logins <= 1 /\ (~r.used => r.logins = 0)

Spending(q, r) ==
  load = 1 => /\ q.op \in {"compare", "consume", "user", "create", "issue"} => r.logins = 0
              /\ q.op \in {"user", "create", "issue"} => r.used

OtpGood(q) ==
  /\ q.op = "compare" => q.attempts < MaxAttempts
  /\ q.op = "store" => q.old \subseteq Parents!Made /\ (load = 1 => q.old = Parents!Open)
  /\ q.op \in OfChallenge => Spending(q, challenge[q.challenge])

OneOpen == load = 1 => \A o, p \in Parents!Open : o = p

ParentsInv ==
  /\ OtpType
  /\ Cardinality(Parents!Busy) <= load
  /\ IsFiniteSet(Parents!Made)
  /\ \A c \in FormSession : challenge[c] # OtpUnmade => ChallengeGood(challenge[c]) /\ TakenBounded(c)
  /\ \A sl \in Slot : OtpGood(otpReq[sl])
  /\ OneOpen
  /\ LogBounded

LEMMA Counting == ParentsInv => OtpCounts
BY DEF ParentsInv, OtpCounts, ChallengeGood, OtpGood

LEMMA ParentAlone ==
  ASSUME ParentsInv, load = 1, NEW sl \in Slot,
         otpReq[sl] # Parents!Idle \/ Cardinality(Parents!Busy) < load
  PROVE  \A o \in Slot \ {sl} : otpReq[o] = Parents!Idle
<1>1. IsFiniteSet(Slot) /\ Parents!Busy \in SUBSET Slot
  BY LimitAssumption DEF Parents!Busy
<1>2. IsFiniteSet(Parents!Busy) /\ Cardinality(Parents!Busy) \in Nat
  BY <1>1, FS_Subset, FS_CardinalityType
<1>3. CASE otpReq[sl] # Parents!Idle
  <2>1. \A o, p \in Parents!Busy : o = p
    BY <1>1, InFlight DEF ParentsInv
  <2> QED
    BY <1>3, <2>1 DEF Parents!Busy
<1>4. CASE Cardinality(Parents!Busy) < load
  <2>1. Parents!Busy = {}
    BY <1>2, <1>4, FS_EmptySet
  <2> QED
    BY <2>1 DEF Parents!Busy
<1> QED
  BY <1>3, <1>4

LEMMA ParentCrowd ==
  ASSUME ParentsInv, load' = load, NEW sl \in Slot, NEW q,
         otpReq' = [otpReq EXCEPT ![sl] = q],
         otpReq[sl] # Parents!Idle \/ Cardinality(Parents!Busy) < load
  PROVE  (Cardinality(Parents!Busy) <= load)'
<1>1. load \in Nat /\ Parents!Busy \in SUBSET Slot /\ Parents!Busy' \in SUBSET Slot
  BY LoadIsNat DEF ParentsInv, OtpType, Parents!Busy
<1>2. Parents!Busy' \subseteq Parents!Busy \cup {sl}
  BY DEF Parents!Busy, ParentsInv, OtpType
<1>3. sl \in Parents!Busy \/ Cardinality(Parents!Busy) < load
  BY DEF Parents!Busy
<1>4. Cardinality(Parents!Busy') <= load
  BY <1>1, <1>2, <1>3, Crowd DEF ParentsInv
<1> QED
  BY <1>4

(* A step of a slot on one challenge                                       *)
ChallengeGoes(sl, c, row, q) ==
  /\ challenge' = [challenge EXCEPT ![c] = row]
  /\ otpReq' = [otpReq EXCEPT ![sl] = q]
  /\ load' = load

LEMMA ChallengeGoesType ==
  ASSUME ParentsInv, NEW sl \in Slot, NEW c \in FormSession, NEW row \in Parents!ChallengeRow,
         NEW q \in OtpRequest, ChallengeGoes(sl, c, row, q), log' \in Seq(Parents!Outcome),
         q.op \in OfChallenge => q.challenge = c, ChallengeGood(row),
         q.op = "compare" => q.attempts < MaxAttempts
  PROVE  /\ OtpType' /\ OtpCounts' /\ OtpCounts
         /\ challenge'[c] = row /\ otpReq'[sl] = q
         /\ \A o \in Slot \ {sl} : otpReq'[o] = otpReq[o]
         /\ \A t \in FormSession \ {c} : challenge'[t] = challenge[t]
<1> USE DEF ChallengeGoes
<1>1. /\ challenge'[c] = row /\ otpReq'[sl] = q
      /\ \A o \in Slot \ {sl} : otpReq'[o] = otpReq[o]
      /\ \A t \in FormSession \ {c} : challenge'[t] = challenge[t]
  BY DEF ParentsInv, OtpType
<1>2. row # OtpUnmade
  BY OtpMade
<1>3. ASSUME NEW o \in Slot, otpReq'[o].op \in OfChallenge
      PROVE  challenge'[otpReq'[o].challenge] # OtpUnmade
  <2>1. CASE o = sl
    BY <1>1, <1>2, <1>3, <2>1
  <2>2. CASE o # sl
    <3>1. otpReq[o].challenge \in FormSession /\ challenge[otpReq[o].challenge] # OtpUnmade
      BY <1>1, <1>3, <2>2, OtpRequests DEF ParentsInv, OtpType
    <3> QED
      BY <1>1, <1>2, <2>2, <3>1
  <2> QED
    BY <2>1, <2>2
<1>4. OtpType'
  <2>1. load' \in 1..MaxLoad /\ otpReq' \in [Slot -> OtpRequest]
    BY DEF ParentsInv, OtpType
  <2>2. challenge' \in [FormSession -> Parents!ChallengeRow \cup {OtpUnmade}]
    BY DEF ParentsInv, OtpType
  <2> QED
    BY <1>3, <2>1, <2>2 DEF OtpType
<1>5. OtpCounts
  BY Counting
<1>6. \A t \in FormSession :
        challenge'[t] # OtpUnmade /\ ~challenge'[t].used => challenge'[t].attempts < MaxAttempts
  BY <1>1, <1>5 DEF ChallengeGood, OtpCounts
<1>7. \A o \in Slot : otpReq'[o].op = "compare" => otpReq'[o].attempts < MaxAttempts
  BY <1>1, <1>5 DEF OtpCounts
<1> QED
  BY <1>1, <1>4, <1>5, <1>6, <1>7 DEF OtpCounts

LEMMA ChallengeGoesInv ==
  ASSUME ParentsInv, NEW sl \in Slot, NEW c \in FormSession, NEW row \in Parents!ChallengeRow,
         NEW q \in OtpRequest, ChallengeGoes(sl, c, row, q), log' \in Seq(Parents!Outcome),
         challenge[c] # OtpUnmade,
         q.op \in OfChallenge => q.challenge = c, q.op # "store",
         q.op = "compare" => q.attempts < MaxAttempts,
         otpReq[sl] # Parents!Idle \/ Cardinality(Parents!Busy) < load,
         challenge[c].used => row.used,
         ChallengeGood(row), q.op \in OfChallenge => Spending(q, row), TakenBounded(c)', LogBounded'
  PROVE  ParentsInv'
<1>1. /\ OtpType' /\ OtpCounts' /\ OtpCounts
      /\ challenge'[c] = row /\ otpReq'[sl] = q
      /\ \A o \in Slot \ {sl} : otpReq'[o] = otpReq[o]
      /\ \A t \in FormSession \ {c} : challenge'[t] = challenge[t]
      /\ load' = load /\ otpReq' = [otpReq EXCEPT ![sl] = q]
  <2>1. load' = load /\ otpReq' = [otpReq EXCEPT ![sl] = q]
    BY DEF ChallengeGoes
  <2> QED
    BY <2>1, ChallengeGoesType
<1>2. (Cardinality(Parents!Busy) <= load)'
  BY <1>1, ParentCrowd
<1>3. row # OtpUnmade
  BY OtpMade
<1>4. Parents!Made' = Parents!Made
  BY <1>1, <1>3, OtpMade DEF Parents!Made
<1>5. ASSUME NEW t \in FormSession, challenge'[t] # OtpUnmade
      PROVE  ChallengeGood(challenge[t])' /\ TakenBounded(t)'
  <2>1. CASE t = c
    BY <1>1, <2>1 DEF ChallengeGood
  <2>2. CASE t # c
    <3>1. challenge'[t] = challenge[t] /\ ChallengeGood(challenge[t]) /\ TakenBounded(t)
      BY <1>1, <1>5, <2>2 DEF ParentsInv
    <3>2. ~Comparing(t, sl)' /\ \A o \in Slot \ {sl} : TakenSeen(t, o)' = TakenSeen(t, o)
      BY <1>1, <2>2 DEF Comparing, TakenSeen, OfChallenge
    <3>3. TakenBounded(t)'
      BY <1>1, <1>5, <3>1, <3>2, QuietTaken
    <3> QED
      BY <1>1, <3>1, <3>3 DEF ChallengeGood
  <2> QED
    BY <2>1, <2>2
<1>6. ASSUME NEW o \in Slot PROVE OtpGood(otpReq[o])'
  <2>1. CASE o = sl
    <3>1. q.op \in OfChallenge => Spending(q, row)'
      BY <1>1 DEF Spending
    <3> QED
      BY <1>1, <2>1, <3>1 DEF OtpGood, Spending
  <2>2. CASE o # sl
    <3>1. otpReq'[o] = otpReq[o] /\ OtpGood(otpReq[o])
      BY <1>1, <2>2 DEF ParentsInv
    <3>2. CASE load = 1
      <4>1. otpReq[o] = Parents!Idle
        BY <2>2, <3>2, ParentAlone
      <4> QED
        BY <3>1, <4>1, IdleParents DEF OtpGood
    <3>3. CASE load # 1
      BY <1>1, <1>4, <3>1, <3>3 DEF OtpGood, Spending
    <3> QED
      BY <3>2, <3>3
  <2> QED
    BY <2>1, <2>2
<1>7. OneOpen'
  <2>1. Parents!Open' \subseteq Parents!Open
    BY <1>1, <1>4 DEF Parents!Open, Parents!Made
  <2> QED
    BY <1>1, <2>1 DEF OneOpen, ParentsInv
<1> QED
  BY <1>1, <1>2, <1>4, <1>5, <1>6, <1>7 DEF ParentsInv

(* ... that compares nothing                                               *)
LEMMA ChallengeGoesQuiet ==
  ASSUME ParentsInv, NEW sl \in Slot, NEW c \in FormSession, NEW row \in Parents!ChallengeRow,
         NEW q \in OtpRequest, ChallengeGoes(sl, c, row, q), log' \in Seq(Parents!Outcome),
         challenge[c] # OtpUnmade,
         q.op \in OfChallenge => q.challenge = c, q.op \notin {"store", "compare"},
         otpReq[sl] # Parents!Idle \/ Cardinality(Parents!Busy) < load,
         challenge[c].used => row.used,
         row.attempts = challenge[c].attempts, row.guesses = challenge[c].guesses,
         ChallengeGood(row), q.op \in OfChallenge => Spending(q, row), LogBounded'
  PROVE  ParentsInv'
<1>1. /\ OtpType' /\ OtpCounts' /\ OtpCounts
      /\ challenge'[c] = row /\ otpReq'[sl] = q
      /\ \A o \in Slot \ {sl} : otpReq'[o] = otpReq[o]
      /\ load' = load
  <2>1. load' = load
    BY DEF ChallengeGoes
  <2> QED
    BY <2>1, ChallengeGoesType
<1>2. row # OtpUnmade /\ TakenBounded(c)
  BY OtpMade DEF ParentsInv
<1>3. ~Comparing(c, sl)' /\ \A o \in Slot \ {sl} : TakenSeen(c, o)' = TakenSeen(c, o)
  BY <1>1 DEF Comparing, TakenSeen
<1>4. TakenBounded(c)'
  BY <1>1, <1>2, <1>3, QuietTaken
<1> QED
  BY <1>4, ChallengeGoesInv

(* A step that changes no challenge                                        *)
LEMMA ChallengesStay ==
  ASSUME ParentsInv, load' = load, challenge' = challenge, otpReq' \in [Slot -> OtpRequest],
         log' \in Seq(Parents!Outcome),
         \A sl \in Slot : \/ otpReq'[sl] = otpReq[sl]
                          \/ /\ otpReq'[sl].op \notin OfChallenge
                             /\ otpReq'[sl].op = "store" => otpReq'[sl].old = Parents!Open,
         (Cardinality(Parents!Busy) <= load)', LogBounded'
  PROVE  ParentsInv'
<1>1. OtpType' /\ OtpType
  BY DEF ParentsInv, OtpType
<1>2. Parents!Made' = Parents!Made /\ Parents!Open' = Parents!Open
  BY DEF Parents!Made, Parents!Open
<1>3. OtpCounts /\ OtpCounts'
  <2>1. OtpCounts
    BY Counting
  <2> QED
    BY <1>1, <2>1 DEF OtpCounts, OfChallenge
<1>4. ASSUME NEW c \in FormSession, challenge'[c] # OtpUnmade
      PROVE  ChallengeGood(challenge[c])' /\ TakenBounded(c)'
  <2>1. ChallengeGood(challenge[c]) /\ TakenBounded(c)
    BY <1>4 DEF ParentsInv
  <2>2. \A o \in Slot : Comparing(c, o)' => TakenSeen(c, o)' = TakenSeen(c, o)
    BY DEF Comparing, TakenSeen, OfChallenge
  <2>3. TakenBounded(c)'
    BY <1>3, <1>4, <2>1, <2>2, QuietTaken
  <2> QED
    BY <2>1, <2>3 DEF ChallengeGood
<1>5. ASSUME NEW sl \in Slot PROVE OtpGood(otpReq[sl])'
  <2>1. OtpGood(otpReq[sl])
    BY DEF ParentsInv
  <2>2. Parents!Open \subseteq Parents!Made
    BY DEF Parents!Open
  <2> QED
    BY <1>2, <2>1, <2>2 DEF OtpGood, OfChallenge, Spending
<1> QED
  BY <1>1, <1>2, <1>4, <1>5 DEF ParentsInv, OneOpen

LEMMA SlotComes ==
  ASSUME ParentsInv, NEW sl \in Slot, NEW q \in OtpRequest, Parents!Proceed(sl, q), challenge' = challenge,
         otpReq[sl] # Parents!Idle \/ Cardinality(Parents!Busy) < load,
         q.op \notin OfChallenge, q.op = "store" => q.old = Parents!Open,
         log' \in Seq(Parents!Outcome), LogBounded'
  PROVE  ParentsInv'
<1>1. otpReq' = [otpReq EXCEPT ![sl] = q] /\ load' = load /\ otpReq \in [Slot -> OtpRequest]
  BY DEF Parents!Proceed, ParentsInv, OtpType
<1>2. (Cardinality(Parents!Busy) <= load)'
  BY <1>1, ParentCrowd
<1>3. /\ otpReq' \in [Slot -> OtpRequest]
      /\ \A o \in Slot : \/ otpReq'[o] = otpReq[o]
                         \/ /\ otpReq'[o].op \notin OfChallenge
                            /\ otpReq'[o].op = "store" => otpReq'[o].old = Parents!Open
  BY <1>1
<1> QED
  BY <1>1, <1>2, <1>3, ChallengesStay

(* The log stays, and a request fails only where it could before           *)
LEMMA LogStays ==
  ASSUME ParentsInv, load' = load, log' = log, NEW sl \in Slot, NEW q,
         otpReq' = [otpReq EXCEPT ![sl] = q],
         \/ q.op \notin {"find", "compare", "expire", "log"}
         \/ q.op = "log" /\ q.outcome # "OTP_VERIFY_FAILED"
         \/ sl \in MayFail
  PROVE  LogBounded' /\ log' \in Seq(Parents!Outcome)
<1>1. log \in Seq(Parents!Outcome) /\ otpReq \in [Slot -> OtpRequest] /\ OtpType /\ LogBounded
  BY DEF ParentsInv, OtpType
<1>2. MayFail' \subseteq MayFail
  BY <1>1 DEF MayFail
<1>3. Cardinality(Wrong(log)) \in Nat /\ Cardinality(Wrong(log')) <= Cardinality(Wrong(log))
  BY <1>1, WrongCount
<1> QED
  BY <1>1, <1>2, <1>3, QuietLog

LEMMA EnteredParent ==
  ASSUME NEW sl \in Slot, NEW q, Parents!Enter(sl, q)
  PROVE  /\ Parents!Proceed(sl, q) /\ Cardinality(Parents!Busy) < load
         /\ challenge' = challenge /\ log' = log
         /\ load' = load /\ otpReq' = [otpReq EXCEPT ![sl] = q]
BY ParentsCount DEF Parents!Enter, Parents!Rows, Parents!Proceed

LEMMA SendInv ==
  ASSUME ParentsInv, NEW sl \in Slot, Parents!BeginSend(sl) \/ Parents!SendCode(sl)
  PROVE  ParentsInv'
<1>1. CASE Parents!BeginSend(sl)
  <2>1. PICK q : q = [op |-> "send"]
    OBVIOUS
  <2>2. q \in OtpRequest /\ q.op = "send" /\ q.op \notin OfChallenge
    BY <2>1 DEF OtpRequest, OfChallenge
  <2>3. /\ Parents!Proceed(sl, q) /\ Cardinality(Parents!Busy) < load
        /\ challenge' = challenge /\ log' = log
        /\ load' = load /\ otpReq' = [otpReq EXCEPT ![sl] = q]
    BY <1>1, <2>1, EnteredParent DEF Parents!BeginSend
  <2>4. LogBounded' /\ log' \in Seq(Parents!Outcome)
    BY <2>2, <2>3, LogStays
  <2> QED
    BY <2>2, <2>3, <2>4, SlotComes
<1>2. CASE Parents!SendCode(sl)
  <2>1. otpReq[sl] # Parents!Idle /\ challenge' = challenge /\ log' = log
    BY <1>2, IdleParents DEF Parents!SendCode, Parents!Rows
  <2>2. PICK q : /\ q = Parents!Idle \/ q = [op |-> "store", old |-> Parents!Open]
                 /\ Parents!Proceed(sl, q)
    BY <1>2 DEF Parents!SendCode
  <2>3. load' = load /\ otpReq' = [otpReq EXCEPT ![sl] = q]
    BY <2>2 DEF Parents!Proceed
  <2>4. /\ q \in OtpRequest /\ q.op \in {"idle", "store"} /\ q.op \notin OfChallenge
        /\ q.op = "store" => q.old = Parents!Open
    <3>1. CASE q = Parents!Idle
      BY <3>1, IdleParents
    <3>2. CASE q = [op |-> "store", old |-> Parents!Open]
      <4>1. Parents!Open \in SUBSET FormSession
        BY DEF Parents!Open, Parents!Made
      <4>2. q \in OtpRequest
        BY <3>2, <4>1 DEF OtpRequest
      <4> QED
        BY <3>2, <4>2 DEF OfChallenge
    <3> QED
      BY <2>2, <3>1, <3>2
  <2>5. LogBounded' /\ log' \in Seq(Parents!Outcome)
    BY <2>1, <2>3, <2>4, LogStays
  <2> QED
    BY <2>1, <2>2, <2>4, <2>5, SlotComes
<1> QED
  BY <1>1, <1>2

LEMMA StoreInv ==
  ASSUME ParentsInv, NEW sl \in Slot, Parents!StoreChallenge(sl)
  PROVE  ParentsInv'
<1> DEFINE q == otpReq[sl]
<1>1. q.op = "store" /\ Parents!Proceed(sl, Parents!Idle) /\ log' = log
  BY DEF Parents!StoreChallenge
<1>2. PICK c \in FormSession \ Parents!Made :
        challenge' = [o \in FormSession |->
           CASE o = c      -> [at |-> Parents!Cardinality(Parents!Made) + 1, used |-> FALSE, recent |-> TRUE,
                               late |-> FALSE, attempts |-> 0, guesses |-> 0, logins |-> 0]
             [] o \in q.old -> [challenge[o] EXCEPT !.used = TRUE]
             [] OTHER      -> challenge[o]]
  BY DEF Parents!StoreChallenge
<1>3. PICK row : row = [at |-> Parents!Cardinality(Parents!Made) + 1, used |-> FALSE, recent |-> TRUE,
                        late |-> FALSE, attempts |-> 0, guesses |-> 0, logins |-> 0]
  OBVIOUS
<1>7. q.old \in SUBSET FormSession /\ q.old \subseteq Parents!Made /\ (load = 1 => q.old = Parents!Open)
  BY <1>1, OtpRequests DEF ParentsInv, OtpType, OtpGood
<1>4. challenge[c] = OtpUnmade /\ c \in FormSession /\ challenge'[c] = row
  <2>1. c \in FormSession
    OBVIOUS
  <2>2. challenge[c] = OtpUnmade
    BY OtpMade DEF Parents!Made
  <2>3. challenge'[c] = row
    BY <1>2, <1>3, <1>7, <2>1
  <2> QED
    BY <2>1, <2>2, <2>3
<1>5. /\ row \in Parents!ChallengeRow /\ row.guesses = 0 /\ row.logins = 0 /\ row.attempts = 0
      /\ row # OtpUnmade
  <2>1. Parents!Cardinality(Parents!Made) \in Nat
    BY ParentsCount, FS_CardinalityType DEF ParentsInv
  <2>2. PICK at \in Nat \ {0} : at = Parents!Cardinality(Parents!Made) + 1
    BY <2>1
  <2>3. row \in Parents!ChallengeRow
    BY <1>3, <2>2, FormLimits DEF Parents!ChallengeRow
  <2> QED
    BY <1>3, <2>3, OtpMade
<1>6. /\ load' = load /\ otpReq' = [otpReq EXCEPT ![sl] = Parents!Idle]
      /\ otpReq'[sl] = Parents!Idle /\ \A o \in Slot \ {sl} : otpReq'[o] = otpReq[o]
      /\ q # Parents!Idle
  BY <1>1, IdleParents DEF Parents!Proceed, ParentsInv, OtpType
<1>8. \A o \in Parents!Made :
        challenge[o] \in Parents!ChallengeRow /\ challenge[o] # OtpUnmade /\ o \in FormSession /\ o # c
  BY <1>2, OtpMade DEF Parents!Made, ParentsInv, OtpType
<1>9. ASSUME NEW o \in Parents!Made
      PROVE  /\ challenge'[o] \in Parents!ChallengeRow /\ challenge'[o] # OtpUnmade
             /\ challenge'[o].attempts = challenge[o].attempts
             /\ challenge'[o].guesses = challenge[o].guesses
             /\ challenge'[o].logins = challenge[o].logins
             /\ challenge[o].used => challenge'[o].used
             /\ load = 1 => challenge'[o].used
  <2>1. PICK r \in Parents!ChallengeRow : r = challenge[o]
    BY <1>8
  <2>2. CASE o \in q.old
    <3>1. challenge'[o] = [r EXCEPT !.used = TRUE]
      BY <1>2, <1>8, <2>1, <2>2
    <3>2. PICK n : n = challenge'[o]
      OBVIOUS
    <3>3. /\ n \in Parents!ChallengeRow /\ n.used /\ n.attempts = r.attempts
          /\ n.guesses = r.guesses /\ n.logins = r.logins
      BY <3>1, <3>2 DEF Parents!ChallengeRow
    <3> QED
      BY <2>1, <3>2, <3>3, OtpMade
  <2>3. CASE o \notin q.old
    <3>1. challenge'[o] = challenge[o]
      BY <1>2, <1>8, <2>3
    <3>2. load = 1 => challenge[o].used
      BY <1>7, <2>3 DEF Parents!Open
    <3> QED
      BY <1>8, <3>1, <3>2
  <2> QED
    BY <2>2, <2>3
<1>10. ASSUME NEW o \in FormSession, o # c, o \notin Parents!Made
       PROVE  challenge'[o] = OtpUnmade
  <2>1. challenge[o] = OtpUnmade
    BY <1>10, OtpMade DEF Parents!Made
  <2>2. o \notin q.old
    BY <1>7, <1>10
  <2> QED
    BY <1>2, <1>10, <2>1, <2>2
<1>11. challenge' \in [FormSession -> Parents!ChallengeRow \cup {OtpUnmade}]
  <2>1. \A o \in FormSession : challenge'[o] \in Parents!ChallengeRow \cup {OtpUnmade}
    BY <1>4, <1>5, <1>9, <1>10
  <2>2. challenge' = [o \in FormSession |-> challenge'[o]]
    BY <1>2
  <2> QED
    BY <2>1, <2>2
<1>12. Parents!Made' = Parents!Made \cup {c}
  BY <1>4, <1>5, <1>8, <1>9, <1>10, OtpMade DEF Parents!Made
<1>13. IsFiniteSet(Parents!Made')
  BY <1>12, FS_AddElement DEF ParentsInv
<1>14. (Cardinality(Parents!Busy) <= load)'
  BY <1>6, ParentCrowd
<1>15. LogBounded' /\ log' \in Seq(Parents!Outcome)
  BY <1>1, <1>6, IdleParents, LogStays
<1>16. ASSUME NEW o \in Slot, otpReq'[o].op \in OfChallenge
       PROVE  otpReq'[o] = otpReq[o] /\ otpReq[o].challenge \in Parents!Made
  <2>1. otpReq'[o] = otpReq[o]
    BY <1>6, <1>16, IdleParents
  <2>2. otpReq[o].challenge \in FormSession /\ challenge[otpReq[o].challenge] # OtpUnmade
    BY <1>16, <2>1, OtpRequests DEF ParentsInv, OtpType
  <2> QED
    BY <2>1, <2>2, OtpMade DEF Parents!Made
<1>17. OtpType'
  <2>1. otpReq' \in [Slot -> OtpRequest] /\ load' \in 1..MaxLoad
    BY <1>6, IdleParents DEF ParentsInv, OtpType
  <2> QED
    BY <1>9, <1>11, <1>15, <1>16, <2>1 DEF OtpType
<1>18. OtpCounts /\ OtpCounts'
  <2>1. OtpCounts
    BY Counting
  <2>2. ASSUME NEW o \in FormSession, challenge'[o] # OtpUnmade, ~challenge'[o].used
        PROVE  challenge'[o].attempts < MaxAttempts
    <3>1. CASE o = c
      BY <1>4, <1>5, <3>1, FormLimits
    <3>2. CASE o # c
      <4>1. o \in Parents!Made
        BY <1>10, <2>2, <3>2
      <4> QED
        BY <1>8, <1>9, <2>1, <2>2, <4>1 DEF OtpCounts
    <3> QED
      BY <3>1, <3>2
  <2>3. \A o \in Slot : otpReq'[o].op = "compare" => otpReq'[o].attempts < MaxAttempts
    BY <1>16, <2>1 DEF OtpCounts, OfChallenge
  <2> QED
    BY <1>17, <2>1, <2>2, <2>3 DEF OtpCounts
<1>19. ASSUME NEW o \in FormSession, challenge'[o] # OtpUnmade
       PROVE  ChallengeGood(challenge[o])' /\ TakenBounded(o)'
  <2>1. CASE o = c
    <3>1. \A p \in Slot : ~Comparing(c, p)'
      BY <1>2, <1>16 DEF Comparing, OfChallenge
    <3>2. TakenBounded(c)'
      BY <1>4, <1>5, <1>6, <1>18, <3>1, FreshTaken
    <3>3. ChallengeGood(row)
      BY <1>5, FormLimits DEF ChallengeGood
    <3> QED
      BY <1>4, <1>6, <2>1, <3>2, <3>3 DEF ChallengeGood
  <2>2. CASE o # c
    <3>1. o \in Parents!Made
      BY <1>10, <1>19, <2>2
    <3>2. ChallengeGood(challenge[o]) /\ TakenBounded(o) /\ challenge[o] # OtpUnmade
      BY <1>8, <1>19, <3>1 DEF ParentsInv
    <3>3. \A p \in Slot : Comparing(o, p)' => TakenSeen(o, p)' = TakenSeen(o, p)
      BY <1>16 DEF Comparing, TakenSeen, OfChallenge
    <3>4. TakenBounded(o)'
      BY <1>6, <1>9, <1>18, <1>19, <3>1, <3>2, <3>3, QuietTaken
    <3>5. ChallengeGood(challenge[o])'
      BY <1>6, <1>9, <3>1, <3>2 DEF ChallengeGood
    <3> QED
      BY <3>4, <3>5
  <2> QED
    BY <2>1, <2>2
<1>20. ASSUME NEW o \in Slot PROVE OtpGood(otpReq[o])'
  <2>1. CASE o = sl
    BY <1>6, <2>1, IdleParents DEF OtpGood
  <2>2. CASE o # sl
    <3>1. otpReq'[o] = otpReq[o] /\ OtpGood(otpReq[o])
      BY <1>6, <2>2 DEF ParentsInv
    <3>2. CASE load = 1
      <4>1. otpReq[o] = Parents!Idle
        BY <1>6, <2>2, <3>2, ParentAlone
      <4> QED
        BY <3>1, <4>1, IdleParents DEF OtpGood
    <3>3. CASE load # 1
      <4>1. /\ otpReq'[o].op = "store" => otpReq'[o].old \subseteq Parents!Made'
            /\ otpReq'[o].op = "compare" => otpReq'[o].attempts < MaxAttempts
        BY <1>12, <3>1 DEF OtpGood
      <4> QED
        BY <1>6, <3>3, <4>1 DEF OtpGood, Spending
    <3> QED
      BY <3>2, <3>3
  <2> QED
    BY <2>1, <2>2
<1>21. OneOpen'
  <2>1. ASSUME load = 1 PROVE Parents!Open' \subseteq {c}
    BY <1>9, <1>12, <2>1 DEF Parents!Open
  <2> QED
    BY <1>6, <2>1 DEF OneOpen
<1> QED
  BY <1>13, <1>14, <1>15, <1>17, <1>19, <1>20, <1>21 DEF ParentsInv

FailRequest == [op |-> "log", outcome |-> "OTP_VERIFY_FAILED"]

LEMMA OtpForms ==
  /\ [op |-> "find"] \in OtpRequest /\ [op |-> "find"].op = "find" /\ [op |-> "find"].op \notin OfChallenge
  /\ [op |-> "find"].op # "store"
  /\ \A outcome \in Parents!Outcome :
       /\ [op |-> "log", outcome |-> outcome] \in OtpRequest
       /\ [op |-> "log", outcome |-> outcome].op = "log"
       /\ [op |-> "log", outcome |-> outcome].outcome = outcome
       /\ [op |-> "log", outcome |-> outcome].op \notin OfChallenge
       /\ [op |-> "log", outcome |-> outcome].op # "store"
  /\ {"OTP_VERIFY_FAILED", "OTP_VERIFY_RATE_LIMITED"} = Parents!Outcome
BY DEF OtpRequest, OfChallenge, Parents!Outcome

LEMMA FailForm ==
  /\ FailRequest \in OtpRequest /\ FailRequest.op = "log" /\ FailRequest.op \notin OfChallenge
  /\ FailRequest.outcome = "OTP_VERIFY_FAILED"
BY OtpForms DEF FailRequest

LEMMA ParentLogInv ==
  ASSUME ParentsInv, NEW sl \in Slot, Parents!BeginVerify(sl) \/ Parents!LogFailure(sl)
  PROVE  ParentsInv'
<1>1. CASE Parents!BeginVerify(sl)
  <2>1. PICK q : /\ q = IF Len(log) < VerifyLimit
                        THEN [op |-> "find"] ELSE [op |-> "log", outcome |-> "OTP_VERIFY_RATE_LIMITED"]
                 /\ Parents!Enter(sl, q)
    BY <1>1 DEF Parents!BeginVerify
  <2>2. /\ Parents!Proceed(sl, q) /\ Cardinality(Parents!Busy) < load
        /\ challenge' = challenge /\ log' = log
        /\ load' = load /\ otpReq' = [otpReq EXCEPT ![sl] = q]
    BY <2>1, EnteredParent
  <2>3. CASE Len(log) < VerifyLimit
    <3>1. q \in OtpRequest /\ q.op = "find" /\ q.op \notin OfChallenge
      BY <2>1, <2>3, OtpForms
    <3>2. (Cardinality(Parents!Busy) <= load)'
      BY <2>2, ParentCrowd
    <3>3. LogBounded' /\ log' \in Seq(Parents!Outcome)
      BY <2>2, <2>3, <3>2, CountedLog DEF ParentsInv, OtpType
    <3> QED
      BY <2>2, <3>1, <3>3, SlotComes
  <2>4. CASE ~(Len(log) < VerifyLimit)
    <3>1. PICK outcome \in Parents!Outcome : outcome = "OTP_VERIFY_RATE_LIMITED"
      BY DEF Parents!Outcome
    <3>2. q \in OtpRequest /\ q.op = "log" /\ q.outcome # "OTP_VERIFY_FAILED" /\ q.op \notin OfChallenge
      BY <2>1, <2>4, <3>1, OtpForms
    <3>3. LogBounded' /\ log' \in Seq(Parents!Outcome)
      BY <2>2, <3>2, LogStays
    <3> QED
      BY <2>2, <3>2, <3>3, SlotComes
  <2> QED
    BY <2>3, <2>4
<1>2. CASE Parents!LogFailure(sl)
  <2>1. /\ otpReq[sl].op = "log" /\ otpReq[sl].outcome \in Parents!Outcome /\ otpReq[sl] # Parents!Idle
        /\ log' = Append(log, otpReq[sl].outcome) /\ Parents!Proceed(sl, Parents!Idle)
        /\ challenge' = challenge
        /\ load' = load /\ otpReq' = [otpReq EXCEPT ![sl] = Parents!Idle]
    BY <1>2, OtpRequests DEF Parents!LogFailure, Parents!Proceed, ParentsInv, OtpType
  <2>2. log' \in Seq(Parents!Outcome)
    BY <2>1 DEF ParentsInv, OtpType
  <2>3. otpReq'[sl].op = "idle" /\ \A o \in Slot \ {sl} : otpReq'[o] = otpReq[o]
    BY <2>1, IdleParents DEF ParentsInv, OtpType
  <2>4. MayFail' \subseteq MayFail \ {sl}
    BY <2>3 DEF MayFail
  <2>5. CASE otpReq[sl].outcome = "OTP_VERIFY_FAILED"
    <3>1. sl \in MayFail
      BY <2>1, <2>5 DEF MayFail
    <3>2. LogBounded'
      BY <2>1, <2>4, <2>5, <3>1, LoggedFailure DEF ParentsInv
    <3> QED
      BY <2>1, <2>2, <3>2, IdleParents, SlotComes
  <2>6. CASE otpReq[sl].outcome # "OTP_VERIFY_FAILED"
    <3>1. Cardinality(Wrong(log')) = Cardinality(Wrong(log)) /\ Cardinality(Wrong(log)) \in Nat
      BY <2>1, <2>6, WrongAppended, WrongCount DEF ParentsInv, OtpType
    <3>2. LogBounded'
      BY <2>1, <2>2, <2>4, <3>1, QuietLog DEF ParentsInv
    <3> QED
      BY <2>1, <2>2, <3>2, IdleParents, SlotComes
  <2> QED
    BY <2>5, <2>6
<1> QED
  BY <1>1, <1>2

(* A request on a challenge: what the invariant says of it                  *)
LEMMA OnChallenge ==
  ASSUME ParentsInv, NEW sl \in Slot, otpReq[sl].op \in OfChallenge
  PROVE  /\ otpReq[sl].challenge \in FormSession
         /\ challenge[otpReq[sl].challenge] # OtpUnmade
         /\ challenge[otpReq[sl].challenge] \in Parents!ChallengeRow
         /\ ChallengeGood(challenge[otpReq[sl].challenge])
         /\ TakenBounded(otpReq[sl].challenge)
         /\ OtpGood(otpReq[sl])
         /\ Spending(otpReq[sl], challenge[otpReq[sl].challenge])
         /\ otpReq[sl] # Parents!Idle
<1>1. otpReq[sl].challenge \in FormSession /\ challenge[otpReq[sl].challenge] # OtpUnmade
  BY OtpRequests DEF ParentsInv, OtpType
<1>2. otpReq[sl] # Parents!Idle
  BY IdleParents
<1>3. challenge[otpReq[sl].challenge] \in Parents!ChallengeRow
  BY <1>1 DEF ParentsInv, OtpType
<1> QED
  BY <1>1, <1>2, <1>3 DEF ParentsInv, OtpGood

LEMMA SimpleOtp ==
  ASSUME NEW c \in FormSession, NEW op \in {"expire", "consume", "user", "create", "issue"}
  PROVE  /\ [op |-> op, challenge |-> c] \in OtpRequest
         /\ [op |-> op, challenge |-> c].op = op /\ [op |-> op, challenge |-> c].challenge = c
         /\ op \in OfChallenge /\ op \notin {"store", "compare"}
BY DEF OtpRequest, OfChallenge

(* A request that goes on, on a row that stays                             *)
LEMMA RowStays ==
  ASSUME ParentsInv, NEW sl \in Slot, NEW c \in FormSession, challenge[c] # OtpUnmade,
         otpReq[sl] # Parents!Idle, challenge' = challenge, log' = log, load' = load,
         NEW op \in {"expire", "consume", "user", "create", "issue"},
         otpReq' = [otpReq EXCEPT ![sl] = [op |-> op, challenge |-> c]],
         op = "expire" => sl \in MayFail,
         load = 1 => /\ op # "expire" => challenge[c].logins = 0
                     /\ op \in {"user", "create", "issue"} => challenge[c].used
  PROVE  ParentsInv'
<1>1. PICK q : q = [op |-> op, challenge |-> c]
  OBVIOUS
<1>2. q \in OtpRequest /\ q.op = op /\ q.challenge = c /\ q.op \notin {"store", "compare"}
  BY <1>1, SimpleOtp
<1>3. PICK row \in Parents!ChallengeRow : row = challenge[c]
  BY DEF ParentsInv, OtpType
<1>4. ChallengeGoes(sl, c, row, q)
  BY <1>1, <1>3 DEF ChallengeGoes, ParentsInv, OtpType
<1>5. ChallengeGood(row)
  BY <1>3 DEF ParentsInv
<1>6. Spending(q, row)
  BY <1>2, <1>3 DEF Spending
<1>7. LogBounded' /\ log' \in Seq(Parents!Outcome)
  <2>1. otpReq' = [otpReq EXCEPT ![sl] = q]
    BY <1>1
  <2>2. q.op \notin {"find", "compare", "expire", "log"} \/ sl \in MayFail
    BY <1>2
  <2> QED
    BY <2>1, <2>2, LogStays
<1> QED
  BY <1>2, <1>3, <1>4, <1>5, <1>6, <1>7, ChallengeGoesQuiet

(* ... on a row that is spent                                              *)
LEMMA RowSpent ==
  ASSUME ParentsInv, NEW sl \in Slot, NEW c \in FormSession, challenge[c] # OtpUnmade,
         otpReq[sl] # Parents!Idle, log' = log, load' = load,
         NEW q \in OtpRequest, otpReq' = [otpReq EXCEPT ![sl] = q],
         NEW row \in Parents!ChallengeRow, challenge' = [challenge EXCEPT ![c] = row],
         row.attempts = challenge[c].attempts, row.guesses = challenge[c].guesses,
         challenge[c].used => row.used,
         q.op \in OfChallenge => q.challenge = c /\ Spending(q, row),
         q.op \notin {"find", "store", "compare", "expire", "log"} \/ (q.op = "log" /\ sl \in MayFail),
         ChallengeGood(row)
  PROVE  ParentsInv'
<1>1. ChallengeGoes(sl, c, row, q)
  BY DEF ChallengeGoes
<1>2. LogBounded' /\ log' \in Seq(Parents!Outcome)
  BY LogStays
<1>3. /\ q.op \notin {"store", "compare"}
      /\ q.op \in OfChallenge => q.challenge = c
      /\ q.op \in OfChallenge => Spending(q, row)
  OBVIOUS
<1> QED
  BY <1>1, <1>2, <1>3, ChallengeGoesQuiet

LEMMA FindInv ==
  ASSUME ParentsInv, NEW sl \in Slot, Parents!FindChallenge(sl)
  PROVE  ParentsInv'
<1>1. /\ otpReq[sl].op = "find" /\ challenge' = challenge /\ log' = log /\ sl \in MayFail
      /\ otpReq[sl] # Parents!Idle
  BY IdleParents DEF Parents!FindChallenge, Parents!Rows, MayFail
<1>2. CASE Parents!Fail(sl)
  <2>1. Parents!Proceed(sl, FailRequest) /\ load' = load /\ otpReq' = [otpReq EXCEPT ![sl] = FailRequest]
    BY <1>2 DEF Parents!Fail, Parents!Proceed, FailRequest
  <2>2. LogBounded' /\ log' \in Seq(Parents!Outcome)
    BY <1>1, <2>1, LogStays
  <2> QED
    BY <1>1, <2>1, <2>2, FailForm, SlotComes
<1>3. ASSUME NEW c \in Parents!Open,
             Parents!Proceed(sl, IF challenge[c].late
                                 THEN [op |-> "expire", challenge |-> c]
                                 ELSE [op |-> "compare", challenge |-> c, attempts |-> challenge[c].attempts])
      PROVE  ParentsInv'
  <2>1. c \in FormSession /\ challenge[c] # OtpUnmade /\ ~challenge[c].used
    BY OtpMade DEF Parents!Open, Parents!Made
  <2>2. CASE challenge[c].late
    <3>1. load' = load /\ otpReq' = [otpReq EXCEPT ![sl] = [op |-> "expire", challenge |-> c]]
      BY <1>3, <2>2 DEF Parents!Proceed
    <3>2. PICK op \in {"expire", "consume", "user", "create", "issue"} : op = "expire"
      OBVIOUS
    <3>3. otpReq' = [otpReq EXCEPT ![sl] = [op |-> op, challenge |-> c]]
      BY <3>1, <3>2
    <3>4. load = 1 => /\ op # "expire" => challenge[c].logins = 0
                      /\ op \in {"user", "create", "issue"} => challenge[c].used
      BY <3>2
    <3> HIDE <3>2
    <3> QED
      BY <1>1, <2>1, <3>1, <3>3, <3>4, RowStays
  <2>3. CASE ~challenge[c].late
    <3>1. PICK q : q = [op |-> "compare", challenge |-> c, attempts |-> challenge[c].attempts]
      OBVIOUS
    <3>2. PICK row \in Parents!ChallengeRow : row = challenge[c]
      BY <2>1 DEF ParentsInv, OtpType
    <3>3. ChallengeGood(row) /\ TakenBounded(c)
      BY <2>1, <3>2 DEF ParentsInv
    <3>4. row.attempts \in 0..MaxAttempts /\ row.attempts < MaxAttempts /\ (load = 1 => row.logins = 0)
      BY <2>1, <3>2, <3>3, OtpMade DEF ChallengeGood
    <3>5. q \in OtpRequest
      BY <2>1, <3>1, <3>2, <3>4 DEF OtpRequest
    <3>6. q.op = "compare" /\ q.challenge = c /\ q.attempts = row.attempts
      BY <3>1, <3>2
    <3>7. Spending(q, row)
      BY <3>4, <3>6 DEF Spending
    <3>8. load' = load /\ otpReq' = [otpReq EXCEPT ![sl] = q]
      BY <1>3, <2>3, <3>1 DEF Parents!Proceed
    <3>9. ChallengeGoes(sl, c, row, q)
      BY <1>1, <3>2, <3>8 DEF ChallengeGoes, ParentsInv, OtpType
    <3>10. LogBounded' /\ log' \in Seq(Parents!Outcome)
      BY <1>1, <3>8, LogStays
    <3>11. /\ OtpType' /\ OtpCounts' /\ OtpCounts
           /\ challenge'[c] = row /\ otpReq'[sl] = q
           /\ \A o \in Slot \ {sl} : otpReq'[o] = otpReq[o]
      BY <2>1, <3>3, <3>4, <3>5, <3>6, <3>9, <3>10, ChallengeGoesType
    <3>12. TakenSeen(c, sl)' = Taken(c) /\ \A o \in Slot \ {sl} : TakenSeen(c, o)' = TakenSeen(c, o)
      BY <2>1, <3>2, <3>6, <3>11 DEF TakenSeen, Taken, Comparing
    <3>13. TakenBounded(c)'
      BY <2>1, <3>2, <3>3, <3>8, <3>11, <3>12, StartedTaken
    <3>14. /\ q.op \in OfChallenge => q.challenge = c
           /\ q.op # "store" /\ (q.op = "compare" => q.attempts < MaxAttempts)
           /\ challenge[c].used => row.used
           /\ q.op \in OfChallenge => Spending(q, row)
      BY <3>2, <3>4, <3>6, <3>7
    <3> QED
      BY <1>1, <2>1, <3>3, <3>5, <3>9, <3>10, <3>13, <3>14, ChallengeGoesInv
  <2> QED
    BY <2>2, <2>3
<1> QED
  BY <1>2, <1>3 DEF Parents!FindChallenge

LEMMA WrongCodeInv ==
  ASSUME ParentsInv, NEW sl \in Slot, Parents!WrongCode(sl)
  PROVE  ParentsInv'
<1> DEFINE q == otpReq[sl]
<1>1. q.op = "compare" /\ q.op \in OfChallenge /\ sl \in MayFail
  BY DEF Parents!WrongCode, OfChallenge, MayFail
<1>2. PICK c \in FormSession : c = q.challenge
  BY <1>1, OnChallenge
<1>3. PICK r \in Parents!ChallengeRow : r = challenge[c]
  BY <1>1, <1>2, OnChallenge
<1>4. /\ challenge[c] # OtpUnmade /\ ChallengeGood(r) /\ TakenBounded(c)
      /\ OtpGood(q) /\ Spending(q, r) /\ q # Parents!Idle
  BY <1>1, <1>2, <1>3, OnChallenge
<1>5. q.attempts \in 0..MaxAttempts /\ q.attempts < MaxAttempts /\ MaxAttempts \in Nat \ {0}
      /\ r.guesses \in Nat
  BY <1>1, <1>4, OtpRequests, FormLimits, OtpMade DEF OtpGood, ParentsInv, OtpType
<1>6. PICK n \in 0..MaxAttempts, h \in Nat, used \in BOOLEAN :
        n = q.attempts + 1 /\ h = r.guesses + 1 /\ used = (r.used \/ q.attempts + 1 >= MaxAttempts)
  <2>1. q.attempts + 1 \in 0..MaxAttempts /\ r.guesses + 1 \in Nat
    BY <1>5
  <2> QED
    BY <2>1
<1>7. PICK row : row = [r EXCEPT !.attempts = n, !.used = used, !.guesses = h]
  OBVIOUS
<1>8. /\ row \in Parents!ChallengeRow /\ row.attempts = n /\ row.guesses = h /\ row.logins = r.logins
      /\ used => row.used
      /\ ~used => ~row.used
  BY <1>7 DEF Parents!ChallengeRow
<1>9. challenge' = [challenge EXCEPT ![c] = row]
  <2>1. challenge' = [challenge EXCEPT ![c] = [r EXCEPT !.attempts = q.attempts + 1,
                              !.used = @ \/ q.attempts + 1 >= MaxAttempts,
                              !.guesses = @ + 1]]
    BY <1>2, <1>3 DEF Parents!WrongCode, Parents!Update
  <2> QED
    BY <1>6, <1>7, <2>1
<1>10. load' = load /\ otpReq' = [otpReq EXCEPT ![sl] = FailRequest] /\ log' = log
  BY DEF Parents!WrongCode, Parents!Update, Parents!Fail, Parents!Proceed, FailRequest
<1>11. ChallengeGoes(sl, c, row, FailRequest)
  BY <1>9, <1>10 DEF ChallengeGoes
<1>12. LogBounded' /\ log' \in Seq(Parents!Outcome)
  BY <1>1, <1>10, LogStays
<1>13. ~row.used => n < MaxAttempts
  <2>1. q.attempts + 1 >= MaxAttempts => used
    BY <1>6, Zenon
  <2>2. used \/ n < MaxAttempts
    BY <1>5, <1>6, <2>1
  <2> QED
    BY <1>8, <2>2
<1>14. load = 1 => r.logins = 0
  BY <1>1, <1>4 DEF Spending
<1>15. ChallengeGood(row)
  BY <1>8, <1>13, <1>14 DEF ChallengeGood
<1>16. /\ OtpType' /\ OtpCounts' /\ OtpCounts
       /\ challenge'[c] = row /\ otpReq'[sl] = FailRequest
       /\ \A o \in Slot \ {sl} : otpReq'[o] = otpReq[o]
  BY <1>8, <1>11, <1>12, <1>15, FailForm, ChallengeGoesType
<1>17. Comparing(c, sl) /\ ~Comparing(c, sl)'
  BY <1>1, <1>2, <1>16, FailForm DEF Comparing
<1>18. TakenSeen(c, sl) + 1 <= Taken(c)'
  <2>1. TakenSeen(c, sl) = q.attempts
    BY <1>17 DEF TakenSeen
  <2>2. Taken(c)' \in {MaxAttempts, n}
    BY <1>8, <1>16 DEF Taken
  <2> QED
    BY <1>5, <1>6, <2>1, <2>2
<1>19. TakenBounded(c)'
  <2>1. challenge'[c] # OtpUnmade /\ challenge'[c].guesses <= challenge[c].guesses + 1
    BY <1>3, <1>5, <1>6, <1>8, <1>16, OtpMade
  <2>2. Cardinality(Parents!Busy) <= load
    BY DEF ParentsInv
  <2> QED
    BY <1>4, <1>10, <1>16, <1>17, <1>18, <2>1, <2>2, WroteTaken
<1>20. challenge[c].used => row.used
  BY <1>3, <1>6, <1>8
<1> QED
  BY <1>4, <1>8, <1>11, <1>12, <1>15, <1>19, <1>20, FailForm, ChallengeGoesInv

LEMMA GoesOnThere ==
  ASSUME NEW sl \in Slot, NEW op, Parents!GoOn(sl, op)
  PROVE  load' = load /\ otpReq' = [otpReq EXCEPT ![sl] = [op |-> op, challenge |-> otpReq[sl].challenge]]
BY DEF Parents!GoOn, Parents!Proceed

(* The steps that read                                                     *)
LEMMA ReadInv ==
  ASSUME ParentsInv, NEW sl \in Slot, Parents!CompareCode(sl) \/ Parents!FindUser(sl)
  PROVE  ParentsInv'
<1> DEFINE q == otpReq[sl]
<1>1. q.op \in {"compare", "user"} /\ q.op \in OfChallenge /\ challenge' = challenge /\ log' = log
  BY DEF Parents!CompareCode, Parents!FindUser, Parents!Rows, OfChallenge
<1>2. PICK c \in FormSession : c = q.challenge
  BY <1>1, OnChallenge
<1>3. challenge[c] # OtpUnmade /\ Spending(q, challenge[c]) /\ q # Parents!Idle
  BY <1>1, <1>2, OnChallenge
<1>4. ASSUME NEW op \in {"expire", "consume", "user", "create", "issue"}, Parents!GoOn(sl, op),
             op = "expire" => sl \in MayFail,
             load = 1 => /\ op # "expire" => challenge[c].logins = 0
                         /\ op \in {"user", "create", "issue"} => challenge[c].used
      PROVE  ParentsInv'
  <2>1. load' = load /\ otpReq' = [otpReq EXCEPT ![sl] = [op |-> op, challenge |-> c]]
    BY <1>2, <1>4, GoesOnThere
  <2> QED
    BY <1>1, <1>3, <1>4, <2>1, RowStays
<1>5. load = 1 => challenge[c].logins = 0 /\ (q.op = "user" => challenge[c].used)
  BY <1>1, <1>3 DEF Spending
<1>6. CASE Parents!CompareCode(sl)
  <2>1. q.op = "compare" /\ sl \in MayFail
    BY <1>6 DEF Parents!CompareCode, MayFail
  <2>2. CASE Parents!GoOn(sl, "expire")
    BY <1>4, <1>5, <2>1, <2>2
  <2>3. CASE Parents!GoOn(sl, "consume")
    BY <1>4, <1>5, <2>1, <2>3
  <2> QED
    BY <1>6, <2>2, <2>3 DEF Parents!CompareCode
<1>7. CASE Parents!FindUser(sl)
  <2>1. q.op = "user" /\ (Parents!GoOn(sl, "create") \/ Parents!GoOn(sl, "issue"))
    BY <1>7 DEF Parents!FindUser
  <2>2. CASE Parents!GoOn(sl, "create")
    BY <1>4, <1>5, <2>1, <2>2
  <2>3. CASE Parents!GoOn(sl, "issue")
    BY <1>4, <1>5, <2>1, <2>3
  <2> QED
    BY <2>1, <2>2, <2>3
<1> QED
  BY <1>6, <1>7

LEMMA CreateInv ==
  ASSUME ParentsInv, NEW sl \in Slot, Parents!CreateUser(sl)
  PROVE  ParentsInv'
<1> DEFINE q == otpReq[sl]
<1>1. q.op = "create" /\ q.op \in OfChallenge /\ challenge' = challenge /\ log' = log
  BY DEF Parents!CreateUser, OfChallenge
<1>2. PICK c \in FormSession : c = q.challenge
  BY <1>1, OnChallenge
<1>3. challenge[c] # OtpUnmade /\ Spending(q, challenge[c]) /\ q # Parents!Idle
  BY <1>1, <1>2, OnChallenge
<1>4. CASE Parents!GoOn(sl, "issue")
  <2>1. PICK op \in {"expire", "consume", "user", "create", "issue"} : op = "issue"
    OBVIOUS
  <2>2. load' = load /\ otpReq' = [otpReq EXCEPT ![sl] = [op |-> op, challenge |-> c]]
    BY <1>2, <1>4, <2>1, GoesOnThere
  <2>3. load = 1 => challenge[c].logins = 0 /\ challenge[c].used
    BY <1>1, <1>3 DEF Spending
  <2> QED
    BY <1>1, <1>3, <2>1, <2>2, <2>3, RowStays
<1>5. CASE Parents!Proceed(sl, Parents!Idle)
  <2>1. load' = load /\ otpReq' = [otpReq EXCEPT ![sl] = Parents!Idle]
    BY <1>5 DEF Parents!Proceed
  <2>2. LogBounded' /\ log' \in Seq(Parents!Outcome)
    BY <1>1, <2>1, IdleParents, LogStays
  <2> QED
    BY <1>1, <1>3, <1>5, <2>2, IdleParents, SlotComes
<1> QED
  BY <1>4, <1>5 DEF Parents!CreateUser

(* The steps that spend a challenge                                        *)
LEMMA SpendInv ==
  ASSUME ParentsInv, NEW sl \in Slot,
         Parents!ExpireChallenge(sl) \/ Parents!Consume(sl) \/ Parents!SignIn(sl)
  PROVE  ParentsInv'
<1> DEFINE q == otpReq[sl]
<1>1. q.op \in {"expire", "consume", "issue"} /\ q.op \in OfChallenge /\ log' = log
  BY DEF Parents!ExpireChallenge, Parents!Consume, Parents!SignIn, Parents!Update, OfChallenge
<1>2. PICK c \in FormSession : c = q.challenge
  BY <1>1, OnChallenge
<1>3. PICK r \in Parents!ChallengeRow : r = challenge[c]
  BY <1>1, <1>2, OnChallenge
<1>4. challenge[c] # OtpUnmade /\ ChallengeGood(r) /\ Spending(q, r) /\ q # Parents!Idle
  BY <1>1, <1>2, <1>3, OnChallenge
<1>5. PICK row : row = [r EXCEPT !.used = TRUE]
  OBVIOUS
<1>6. /\ row \in Parents!ChallengeRow /\ row.used /\ row.attempts = r.attempts /\ row.guesses = r.guesses
      /\ row.logins = r.logins
  BY <1>5 DEF Parents!ChallengeRow
<1>7. ChallengeGood(row)
  BY <1>4, <1>6 DEF ChallengeGood
<1>8. /\ row.attempts = challenge[c].attempts /\ row.guesses = challenge[c].guesses
      /\ challenge[c].used => row.used
  BY <1>3, <1>6
<1>9. CASE Parents!ExpireChallenge(sl)
  <2>1. sl \in MayFail
    BY <1>9 DEF Parents!ExpireChallenge, MayFail
  <2>2. /\ challenge' = [challenge EXCEPT ![c] = row] /\ load' = load
        /\ otpReq' = [otpReq EXCEPT ![sl] = FailRequest]
    BY <1>2, <1>3, <1>5, <1>9
       DEF Parents!ExpireChallenge, Parents!Update, Parents!Fail, Parents!Proceed, FailRequest
  <2> QED
    BY <1>1, <1>4, <1>6, <1>7, <1>8, <2>1, <2>2, FailForm, RowSpent
<1>10. CASE Parents!Consume(sl)
  <2>1. q.op = "consume" /\ Parents!GoOn(sl, "user") /\ challenge' = [challenge EXCEPT ![c] = row]
    BY <1>2, <1>3, <1>5, <1>10 DEF Parents!Consume, Parents!Update
  <2>2. PICK next : next = [op |-> "user", challenge |-> c]
    OBVIOUS
  <2>3. next \in OtpRequest /\ next.op = "user" /\ next.challenge = c
    BY <2>2, SimpleOtp
  <2>4. load' = load /\ otpReq' = [otpReq EXCEPT ![sl] = next]
    BY <1>2, <2>1, <2>2, GoesOnThere
  <2>5. Spending(next, row)
    BY <1>4, <1>6, <2>1, <2>3 DEF Spending
  <2>6. /\ next.op \notin {"find", "store", "compare", "expire", "log"}
        /\ next.op \in OfChallenge => next.challenge = c /\ Spending(next, row)
    BY <2>3, <2>5
  <2> QED
    BY <1>1, <1>4, <1>6, <1>7, <1>8, <2>1, <2>3, <2>4, <2>6, RowSpent
<1>11. CASE Parents!SignIn(sl)
  <2>1. q.op = "issue" /\ load' = load /\ otpReq' = [otpReq EXCEPT ![sl] = Parents!Idle]
    BY <1>11 DEF Parents!SignIn, Parents!Proceed
  <2>2. PICK new : /\ challenge' = [challenge EXCEPT ![c] = new]
                   /\ new = IF parent = "removed" THEN r ELSE [r EXCEPT !.logins = @ + 1]
    BY <1>2, <1>3, <1>11 DEF Parents!SignIn, Parents!Update
  <2>3. /\ new \in Parents!ChallengeRow /\ new.used = r.used /\ new.attempts = r.attempts
        /\ new.guesses = r.guesses /\ new.logins \in {r.logins, r.logins + 1}
    <3>1. PICK n \in Nat : n = r.logins + 1
      BY OtpMade
    <3>2. new = r \/ new = [r EXCEPT !.logins = n]
      BY <2>2, <3>1
    <3> QED
      BY <3>1, <3>2 DEF Parents!ChallengeRow
  <2>4. load = 1 => r.logins = 0 /\ r.used
    BY <1>4, <2>1 DEF Spending
  <2>5. ChallengeGood(new)
    BY <1>4, <2>3, <2>4 DEF ChallengeGood
  <2>6. /\ new.attempts = challenge[c].attempts /\ new.guesses = challenge[c].guesses
        /\ challenge[c].used => new.used
    BY <1>3, <2>3
  <2> QED
    BY <1>1, <1>4, <2>1, <2>2, <2>3, <2>5, <2>6, IdleParents, RowSpent
<1> QED
  BY <1>9, <1>10, <1>11

(* A row changes while nobody moves                                        *)
LEMMA RowAges ==
  ASSUME ParentsInv, NEW c \in FormSession, NEW row \in Parents!ChallengeRow, challenge[c] # OtpUnmade,
         challenge' = [challenge EXCEPT ![c] = row], UNCHANGED <<load, log, otpReq>>,
         row.used = challenge[c].used, row.attempts = challenge[c].attempts,
         row.guesses = challenge[c].guesses, row.logins = challenge[c].logins
  PROVE  ParentsInv'
<1>1. row # OtpUnmade
  BY OtpMade
<1>2. /\ challenge'[c] = row /\ \A t \in FormSession \ {c} : challenge'[t] = challenge[t]
      /\ challenge' \in [FormSession -> Parents!ChallengeRow \cup {OtpUnmade}]
  BY DEF ParentsInv, OtpType
<1>3. \A t \in FormSession : challenge'[t] # OtpUnmade <=> challenge[t] # OtpUnmade
  BY <1>1, <1>2
<1>4. \A t \in FormSession :
        /\ challenge'[t].used = challenge[t].used /\ challenge'[t].attempts = challenge[t].attempts
        /\ challenge'[t].guesses = challenge[t].guesses /\ challenge'[t].logins = challenge[t].logins
  BY <1>2
<1>5. Parents!Made' = Parents!Made /\ Parents!Open' = Parents!Open
  BY <1>3, <1>4, OtpMade DEF Parents!Made, Parents!Open
<1>6. OtpType'
  <2>1. \A sl \in Slot :
          otpReq[sl].op \in OfChallenge =>
            otpReq[sl].challenge \in FormSession /\ challenge[otpReq[sl].challenge] # OtpUnmade
    BY OnChallenge
  <2> QED
    BY <1>2, <1>3, <2>1 DEF ParentsInv, OtpType
<1>7. OtpCounts /\ OtpCounts'
  <2>1. OtpCounts
    BY Counting
  <2> QED
    BY <1>3, <1>4, <1>6, <2>1 DEF OtpCounts
<1>8. ASSUME NEW t \in FormSession, challenge'[t] # OtpUnmade
      PROVE  ChallengeGood(challenge[t])' /\ TakenBounded(t)'
  <2>1. challenge[t] # OtpUnmade /\ ChallengeGood(challenge[t]) /\ TakenBounded(t)
    BY <1>3, <1>8 DEF ParentsInv
  <2>2. \A o \in Slot : Comparing(t, o)' => TakenSeen(t, o)' = TakenSeen(t, o)
    BY DEF Comparing, TakenSeen
  <2>3. TakenBounded(t)'
    BY <1>4, <1>7, <1>8, <2>1, <2>2, QuietTaken
  <2>4. ChallengeGood(challenge[t])'
    BY <1>4, <2>1 DEF ChallengeGood
  <2> QED
    BY <2>3, <2>4
<1>9. ASSUME NEW sl \in Slot PROVE OtpGood(otpReq[sl])'
  <2>1. OtpGood(otpReq[sl])
    BY DEF ParentsInv
  <2>2. otpReq[sl].op \in OfChallenge => Spending(otpReq[sl], challenge'[otpReq[sl].challenge])
    <3> SUFFICES ASSUME otpReq[sl].op \in OfChallenge
        PROVE  Spending(otpReq[sl], challenge'[otpReq[sl].challenge])
      OBVIOUS
    <3>1. otpReq[sl].challenge \in FormSession /\ Spending(otpReq[sl], challenge[otpReq[sl].challenge])
      BY OnChallenge
    <3> QED
      BY <1>4, <3>1 DEF Spending
  <2> QED
    BY <1>5, <2>1, <2>2 DEF OtpGood, Spending
<1>10. OneOpen' /\ (Cardinality(Parents!Busy) <= load)'
  BY <1>5 DEF OneOpen, ParentsInv, Parents!Busy
<1>11. LogBounded'
  BY DEF ParentsInv, LogBounded, MayFail
<1> QED
  BY <1>5, <1>6, <1>8, <1>9, <1>10, <1>11 DEF ParentsInv

LEMMA AroundParents ==
  ASSUME ParentsInv,
         \/ Parents!RemoveUser
         \/ \E c \in FormSession : Parents!ChallengeExpires(c) \/ Parents!ChallengeAges(c)
         \/ Parents!LogAges
         \/ Parents!ProcessRestart
         \/ UNCHANGED <<load, challenge, log, parent, otpReq>>
  PROVE  ParentsInv'
<1>1. /\ otpReq \in [Slot -> OtpRequest] /\ log \in Seq(Parents!Outcome) /\ load \in Nat /\ OtpType
      /\ Cardinality(Parents!Busy) <= load /\ LogBounded
      /\ challenge \in [FormSession -> Parents!ChallengeRow \cup {OtpUnmade}]
  BY LoadIsNat DEF ParentsInv, OtpType
<1>2. Cardinality(Wrong(log)) \in Nat
  BY <1>1, WrongCount
<1>3. CASE UNCHANGED <<load, challenge, log, otpReq>>
  <2>1. LogBounded' /\ (Cardinality(Parents!Busy) <= load)'
    BY <1>1, <1>3 DEF LogBounded, MayFail, Parents!Busy
  <2> QED
    BY <1>1, <1>3, <2>1, ChallengesStay
<1>4. ASSUME NEW c \in FormSession, Parents!ChallengeExpires(c) \/ Parents!ChallengeAges(c) PROVE ParentsInv'
  <2>1. c \in Parents!Made /\ UNCHANGED <<load, log, otpReq>>
    BY <1>4 DEF Parents!ChallengeExpires, Parents!ChallengeAges
  <2>2. challenge[c] # OtpUnmade
    BY <2>1, OtpMade DEF Parents!Made
  <2>3. PICK r \in Parents!ChallengeRow : r = challenge[c]
    BY <1>1, <2>2
  <2>4. PICK row : /\ challenge' = [challenge EXCEPT ![c] = row]
                   /\ row = [r EXCEPT !.late = TRUE] \/ row = [r EXCEPT !.recent = FALSE]
    BY <1>4, <2>3 DEF Parents!ChallengeExpires, Parents!ChallengeAges
  <2>5. /\ row \in Parents!ChallengeRow /\ row.used = r.used /\ row.attempts = r.attempts
        /\ row.guesses = r.guesses /\ row.logins = r.logins
    BY <2>4 DEF Parents!ChallengeRow
  <2> QED
    BY <2>1, <2>2, <2>3, <2>4, <2>5, RowAges
<1>5. CASE Parents!LogAges
  <2>1. log # <<>> /\ log' = Tail(log) /\ UNCHANGED <<load, challenge, otpReq>>
    BY <1>5 DEF Parents!LogAges
  <2>2. MayFail' = MayFail /\ (Cardinality(Parents!Busy) <= load)'
    BY <1>1, <2>1 DEF MayFail, Parents!Busy
  <2>3. log' \in Seq(Parents!Outcome) /\ Cardinality(Wrong(log')) <= Cardinality(Wrong(log))
    BY <1>1, <2>1, WrongTail
  <2>4. LogBounded'
    BY <1>1, <2>1, <2>2, <2>3, QuietLog
  <2> QED
    BY <1>1, <2>1, <2>2, <2>3, <2>4, ChallengesStay
<1>6. CASE Parents!ProcessRestart
  <2>1. otpReq' = [sl \in Slot |-> Parents!Idle] /\ UNCHANGED <<load, challenge, log>>
    BY <1>6 DEF Parents!ProcessRestart, Parents!Rows
  <2>2. \A sl \in Slot : otpReq'[sl] = Parents!Idle
    BY <2>1
  <2>3. Parents!Busy' = {} /\ MayFail' \subseteq MayFail
    BY <2>2, IdleParents DEF Parents!Busy, MayFail
  <2>4. (Cardinality(Parents!Busy) <= load)'
    BY <1>1, <2>1, <2>3, NoCrowd
  <2>5. LogBounded'
    BY <1>1, <1>2, <2>1, <2>3, QuietLog
  <2>6. otpReq' \in [Slot -> OtpRequest]
    BY <2>1, IdleParents
  <2> QED
    BY <1>1, <2>1, <2>2, <2>4, <2>5, <2>6, IdleParents, ChallengesStay
<1> QED
  BY <1>3, <1>4, <1>5, <1>6 DEF Parents!RemoveUser

LEMMA ParentsStep == ParentsInv /\ [Parents!Next]_<<load, challenge, log, parent, otpReq>> => ParentsInv'
<1> SUFFICES ASSUME ParentsInv, [Parents!Next]_<<load, challenge, log, parent, otpReq>> PROVE ParentsInv'
  OBVIOUS
<1>1. ASSUME NEW sl \in Slot, Parents!Step(sl) PROVE ParentsInv'
  BY <1>1, SendInv, StoreInv, ParentLogInv, FindInv, ReadInv, WrongCodeInv, CreateInv, SpendInv DEF Parents!Step
<1> QED
  BY <1>1, AroundParents DEF Parents!Next

LEMMA ParentsInit == Parents!Init => ParentsInv
<1> SUFFICES ASSUME Parents!Init PROVE ParentsInv
  OBVIOUS
<1>1. /\ \A c \in FormSession : challenge[c] = OtpUnmade
      /\ \A sl \in Slot : otpReq[sl] = Parents!Idle
      /\ log = <<>> /\ load \in 1..MaxLoad
  BY OtpMade DEF Parents!Init
<1>2. OtpType
  <2>1. challenge \in [FormSession -> Parents!ChallengeRow \cup {OtpUnmade}]
    BY OtpMade DEF Parents!Init
  <2>2. otpReq \in [Slot -> OtpRequest]
    BY IdleParents DEF Parents!Init
  <2>3. log \in Seq(Parents!Outcome)
    BY <1>1
  <2> QED
    BY <1>1, <2>1, <2>2, <2>3, IdleParents DEF OtpType
<1>3. Parents!Busy = {} /\ Parents!Made = {} /\ MayFail = {}
  BY <1>1, OtpMade, IdleParents DEF Parents!Busy, Parents!Made, MayFail
<1>4. Cardinality(Parents!Busy) <= load /\ IsFiniteSet(Parents!Made)
  BY <1>1, <1>3, LoadIsNat, NoCrowd, FS_EmptySet
<1>5. LogBounded
  <2>1. Wrong(log) = {}
    BY <1>1 DEF Wrong
  <2>2. VerifyLimit \in Nat /\ load \in Nat /\ load >= 1 /\ Cardinality({}) = 0
    BY <1>1, LoadIsNat, FS_EmptySet, SessionsAssumption
  <2> QED
    BY <1>3, <2>1, <2>2 DEF LogBounded
<1>6. OneOpen
  BY <1>3 DEF OneOpen, Parents!Open
<1> QED
  BY <1>1, <1>2, <1>4, <1>5, <1>6, IdleParents DEF ParentsInv, OtpGood

LEMMA ParentsBound == ParentsInv => Parents!GuessesBounded
<1> SUFFICES ASSUME ParentsInv PROVE Parents!GuessesBounded
  OBVIOUS
<1>1. ASSUME NEW c \in Parents!Made
      PROVE  /\ load = 1 => challenge[c].guesses <= MaxAttempts
             /\ load = 2 => challenge[c].guesses <= (MaxAttempts * (MaxAttempts + 3)) \div 2
  <2>1. c \in FormSession /\ challenge[c] # OtpUnmade
    BY OtpMade DEF Parents!Made
  <2>2. MaxAttempts \in Nat \ {0} /\ TakenTyped(c) /\ TakenBounded(c)
    BY <2>1, Counting, TakenRead, FormLimits DEF AllTakenTyped, ParentsInv
  <2>3. Taken(c) \in 0..MaxAttempts /\ challenge[c].guesses \in Nat
    BY <2>1, <2>2 DEF TakenTyped
  <2>4. Bounded(MaxAttempts, Taken(c), challenge[c].guesses, TakenReads(c))
    BY <2>2 DEF TakenBounded
  <2>5. ASSUME load = 1 PROVE challenge[c].guesses <= MaxAttempts
    BY <2>2, <2>3, <2>4, <2>5 DEF Bounded
  <2>6. ASSUME load = 2 PROVE challenge[c].guesses <= (MaxAttempts * (MaxAttempts + 3)) \div 2
    BY <2>2, <2>3, <2>4, <2>6, HalfOfIt DEF Bounded
  <2> QED
    BY <2>5, <2>6
<1>2. Parents!Cardinality({i \in DOMAIN log : log[i] = "OTP_VERIFY_FAILED"}) <= VerifyLimit + load - 1
  <2>1. /\ Cardinality(Wrong(log)) \in Nat /\ Cardinality(MayFail) \in Nat
        /\ VerifyLimit \in Nat /\ load \in Nat
    BY WrongCount, MayFailCount, LoadIsNat, SessionsAssumption DEF ParentsInv, OtpType
  <2>2. Cardinality(Wrong(log)) <= VerifyLimit + load - 1
    BY <2>1 DEF ParentsInv, LogBounded
  <2> QED
    BY <2>2, ParentsCount DEF Wrong
<1> QED
  BY <1>1, <1>2 DEF Parents!GuessesBounded

LEMMA CodesSpentOnce == ParentsInv => Parents!OneTimeCodes
<1> SUFFICES ASSUME ParentsInv, load = 1
    PROVE  Parents!Cardinality(Parents!Open) <= 1 /\ \A c \in Parents!Made : challenge[c].logins <= 1
  BY DEF Parents!OneTimeCodes
<1>1. ASSUME NEW c \in Parents!Made PROVE challenge[c].logins <= 1
  BY OtpMade DEF Parents!Made, ParentsInv, ChallengeGood
<1>2. Cardinality(Parents!Open) <= 1
  <2>1. CASE Parents!Open = {}
    BY <2>1, NoCrowd
  <2>2. ASSUME NEW c \in Parents!Open PROVE Cardinality(Parents!Open) <= 1
    <3>1. Parents!Open = {c}
      BY DEF ParentsInv, OneOpen
    <3> QED
      BY <3>1, FS_Singleton
  <2> QED
    BY <2>1, <2>2
<1> QED
  BY <1>1, <1>2, ParentsCount

LEMMA FormsLoad == [Forms!Next]_<<formSession, ticket, intakeReq, load>> => load' = load
<1> SUFFICES ASSUME [Forms!Next]_<<formSession, ticket, intakeReq, load>> PROVE load' = load
  OBVIOUS
<1>1. ASSUME NEW sl \in Slot, Forms!Begin(sl) PROVE load' = load
  BY <1>1 DEF Forms!Begin, Forms!BeginStart, Forms!BeginVerify, Forms!BeginAccess, Forms!Enter, Forms!Proceed
<1>2. ASSUME NEW sl \in Slot, Forms!Step(sl) PROVE load' = load
  BY <1>2 DEF Forms!Step, Forms!RefuseStart, Forms!CreateSession, Forms!Compare, Forms!WrongGuess,
     Forms!FindDraft, Forms!Activate, Forms!RefuseAccess, Forms!SaveDraft, Forms!IssueTicket,
     Forms!TakePhoto, Forms!CreateSubmission, Forms!CloseSession, Forms!ExpireSession,
     Forms!Update, Forms!GoOn, Forms!Finish, Forms!Proceed
<1> QED
  BY <1>1, <1>2 DEF Forms!Next, Forms!CreateAnonSession, Forms!SessionRunsOut, Forms!TicketRunsOut,
     Forms!ProcessRestart

LEMMA ParentsLoad == [Parents!Next]_<<load, challenge, log, parent, otpReq>> => load' = load
<1> SUFFICES ASSUME [Parents!Next]_<<load, challenge, log, parent, otpReq>> PROVE load' = load
  OBVIOUS
<1>1. ASSUME NEW sl \in Slot, Parents!Step(sl) PROVE load' = load
  BY <1>1 DEF Parents!Step, Parents!BeginSend, Parents!SendCode, Parents!StoreChallenge,
     Parents!BeginVerify, Parents!LogFailure, Parents!FindChallenge, Parents!CompareCode,
     Parents!ExpireChallenge, Parents!WrongCode, Parents!Consume, Parents!FindUser,
     Parents!CreateUser, Parents!SignIn, Parents!Enter, Parents!Fail, Parents!GoOn, Parents!Proceed
<1> QED
  BY <1>1 DEF Parents!Next, Parents!RemoveUser, Parents!ChallengeExpires, Parents!ChallengeAges,
     Parents!LogAges, Parents!ProcessRestart

----------------------------------------------------------------------------
(* The three together                                                      *)
SessionsInv == AccountsInv /\ FormsInv /\ ParentsInv
sessionVars == <<part, load, accountVars, formVars, parentVars>>

(* A step is one of accounts, of forms or of parents; it stutters for the   *)
(* other two.                                                              *)
LEMMA Parted ==
  ASSUME [MCNext]_sessionVars
  PROVE  /\ [Next]_vars
         /\ [Forms!Next]_<<formSession, ticket, intakeReq, load>>
         /\ [Parents!Next]_<<load, challenge, log, parent, otpReq>>
<1>1. CASE part = "accounts" /\ Next /\ UNCHANGED <<formVars, parentVars>>
  <2>1. load' = load
    BY <1>1, LoadStays
  <2> QED
    BY <1>1, <2>1 DEF formVars, parentVars
<1>2. CASE part = "forms" /\ Forms!Next /\ UNCHANGED <<accountVars, parentVars>>
  <2>1. load' = load
    BY <1>2, FormsLoad
  <2> QED
    BY <1>2, <2>1 DEF accountVars, parentVars, vars
<1>3. CASE part = "parents" /\ Parents!Next /\ UNCHANGED <<accountVars, formVars>>
  <2>1. load' = load
    BY <1>3, ParentsLoad
  <2> QED
    BY <1>3, <2>1 DEF accountVars, formVars, vars
<1>4. CASE UNCHANGED sessionVars
  BY <1>4 DEF sessionVars, accountVars, formVars, parentVars, vars
<1> QED
  BY <1>1, <1>2, <1>3, <1>4 DEF MCNext

LEMMA SessionsInit == MCInit => SessionsInv
BY AccountsInit, FormsInit, ParentsInit DEF MCInit, SessionsInv

LEMMA SessionsStep == SessionsInv /\ [MCNext]_sessionVars => SessionsInv'
<1> SUFFICES ASSUME SessionsInv, [MCNext]_sessionVars PROVE SessionsInv'
  OBVIOUS
<1>1. /\ [Next]_vars
      /\ [Forms!Next]_<<formSession, ticket, intakeReq, load>>
      /\ [Parents!Next]_<<load, challenge, log, parent, otpReq>>
  BY Parted
<1> QED
  BY <1>1, AccountsStep, FormsStep, ParentsStep DEF SessionsInv

LEMMA SessionsHold == MCSpec => []SessionsInv
BY SessionsInit, SessionsStep, PTL DEF MCSpec, sessionVars

(* Requests one at a time, an account, a form's session and a parent's     *)
(* challenge take no more wrong guesses than they allow before they lock.  *)
(* Two overlapping requests may each write back the count they read        *)
(* (AuthService.login, PublicIntakeService.verifyOtp, and the parent login *)
(* of AuthService), and the row still stops at the sum of the counts left, *)
(* M + (M - 1) + ... + 1 and once more M: M * (M + 3) / 2.  The failures   *)
(* logged in a parent's window pass VerifyLimit by one per further request. *)
THEOREM GuessesAreBounded == MCSpec => []WrongGuessesBounded
<1>1. SessionsInv => WrongGuessesBounded
  BY AccountsBound, FormsBound, ParentsBound DEF SessionsInv, WrongGuessesBounded
<1> QED
  BY <1>1, SessionsHold, PTL

(* A photo ticket goes into one submission however many requests overlap,  *)
(* for it leaves the process's map in the step that reads it; and, requests *)
(* one at a time, a mobile has one parent's challenge open and a challenge *)
(* buys one login, wherever the process dies between its check and the     *)
(* tokens.                                                                 *)
THEOREM CodesAreSpentOnce == MCSpec => []SpentOnce
<1>1. SessionsInv => SpentOnce
  BY TicketsBound, CodesSpentOnce DEF SessionsInv, SpentOnce
<1> QED
  BY <1>1, SessionsHold, PTL

(* A form's session is SUBMITTED only when its submission exists, whatever *)
(* overlaps and wherever the process dies: submit writes the status last,  *)
(* and a wrong guess writes back only a status it has read; requests one at *)
(* a time, a session in DRAFT has a draft.                                 *)
THEOREM StatusTellsTheContent == MCSpec => []StatusHasContent
<1>1. SessionsInv => StatusHasContent
  BY ContentKept DEF SessionsInv
<1> QED
  BY <1>1, SessionsHold, PTL

(* Requests one at a time, no step verifies an OTP that has expired or     *)
(* revives one that failed, and a verified one is lost to its expiry or to *)
(* the last wrong code alone.                                              *)
THEOREM OtpsMoveForward == MCSpec => OtpMoves
<1>1. SessionsInv /\ [MCNext]_sessionVars =>
        [load = 1 => \A s \in Forms!Made : Forms!OtpMove(formSession[s], formSession'[s])]_<<formSession, load>>
  <2> SUFFICES ASSUME SessionsInv, [MCNext]_sessionVars, load = 1, NEW s \in Forms!Made
      PROVE  Forms!OtpMove(formSession[s], formSession'[s])
    OBVIOUS
  <2>1. FormsInv /\ [Forms!Next]_<<formSession, ticket, intakeReq, load>>
    BY Parted DEF SessionsInv
  <2> QED
    BY <2>1, OtpStep
<1> QED
  BY <1>1, SessionsHold, PTL DEF MCSpec, sessionVars, OtpMoves, Forms!OtpMoves
=============================================================================
