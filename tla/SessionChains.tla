--------------------------- MODULE SessionChains ---------------------------
(***************************************************************************)
(* What AuthService promises of login sessions (modules/auth): a session   *)
(* is signed in, renewed into one other session, or ended.  The sessions   *)
(* renewed from one another form a chain with one end that can be used;    *)
(* an eviction (logout, password reset, removal of the user) closes every  *)
(* chain it meets, one that is just being renewed included.                *)
(***************************************************************************)
CONSTANTS User, Session

VARIABLE chain

NoSession == "no session"
Absent == [phase |-> "absent"]
Phase == {"live", "expired", "renewing", "ended"}
Link == [user : User, from : Session \cup {NoSession}, phase : Phase]

In(phases, s) == chain[s].phase \in phases
Enters(s, u, from) ==
  [chain EXCEPT ![s] = [user |-> u, from |-> from, phase |-> "live"]]

SignIn(s) ==
  /\ In({"absent"}, s)
  /\ \E u \in User : chain' = Enters(s, u, NoSession)

Expire(s) ==
  /\ In({"live"}, s)
  /\ chain' = [chain EXCEPT ![s].phase = "expired"]

(* A session may expire while its renewal is on the way.                   *)
Rotate(s) ==
  /\ In({"live", "expired"}, s)
  /\ chain' = [chain EXCEPT ![s].phase = "renewing"]

Renew(s, t) ==
  /\ In({"renewing"}, s)
  /\ In({"absent"}, t)
  /\ chain' = [Enters(t, chain[s].user, s) EXCEPT ![s].phase = "ended"]

End(s) ==
  /\ In({"live", "expired", "renewing"}, s)
  /\ chain' = [chain EXCEPT ![s].phase = "ended"]

Evict(u) ==
  chain' = [s \in Session |->
    IF chain[s] # Absent /\ chain[s].user = u THEN [chain[s] EXCEPT !.phase = "ended"]
    ELSE chain[s]]

Init == chain = [s \in Session |-> Absent]

Next ==
  \/ \E s \in Session : SignIn(s) \/ Expire(s) \/ Rotate(s) \/ End(s)
  \/ \E s, t \in Session : Renew(s, t)
  \/ \E u \in User : Evict(u)

Spec == Init /\ [][Next]_chain

----------------------------------------------------------------------------
TypeOK == chain \in [Session -> Link \cup {Absent}]

(* A session is followed by one other at most, and only once it has ended:  *)
(* whoever presents an old refresh token gets nothing.                     *)
OneSuccessor ==
  \A s, t \in Session :
    (chain[t] # Absent /\ chain[t].from = s) =>
      /\ chain[s].phase = "ended"
      /\ \A o \in Session : chain[o] # Absent /\ chain[o].from = s => o = t
=============================================================================
