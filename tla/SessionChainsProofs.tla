------------------------ MODULE SessionChainsProofs ------------------------
(***************************************************************************)
(* Theorems about the abstract SessionChains, which AuthSessions is shown  *)
(* to implement: what its steps buy, for any number of users and sessions. *)
(***************************************************************************)
EXTENDS SessionChains, TLAPS

(* The value that stands for "no session" is not a session.                *)
Apart == NoSession \notin Session

IInv == TypeOK /\ OneSuccessor

LEMMA InitIInv == Init => IInv
  <1> SUFFICES ASSUME Init PROVE IInv
      OBVIOUS
  <1>1. TypeOK
        BY DEF Init, TypeOK
  <1>2. OneSuccessor
        BY DEF Init, OneSuccessor
  <1> QED BY <1>1, <1>2 DEF IInv


LEMMA LinksHaveFields ==
  ASSUME NEW l \in Link
  PROVE  /\ l # Absent
         /\ l.user \in User
         /\ l.from \in Session \cup {NoSession}
         /\ l.phase \in Phase
  BY DEF Link, Absent, Phase

(* A step that changes nothing but phases, and reopens nothing, keeps IInv. *)
LEMMA PhasesMove ==
  ASSUME IInv,
         NEW S \in SUBSET Session, NEW phase \in Phase,
         \A s \in S : chain[s] # Absent,
         phase = "ended" \/ \A s \in S : chain[s].phase # "ended",
         chain' = [s \in Session |->
           IF s \in S THEN [chain[s] EXCEPT !.phase = phase] ELSE chain[s]]
  PROVE  IInv'
  <1>1. ASSUME NEW s \in Session
        PROVE  /\ chain'[s] \in Link \cup {Absent}
               /\ chain'[s] = Absent <=> chain[s] = Absent
               /\ chain[s] # Absent => chain'[s].from = chain[s].from
               /\ chain[s].phase = "ended" => chain'[s].phase = "ended"
    <2>1. CASE s \in S
      <3>1. chain[s] \in Link
            BY <2>1 DEF IInv, TypeOK
      <3>2. chain'[s] = [chain[s] EXCEPT !.phase = phase]
            BY <2>1
      <3>3. chain'[s] \in Link
            BY <3>1, <3>2 DEF Link
      <3> QED BY <2>1, <3>1, <3>2, <3>3, LinksHaveFields DEF Link
    <2>2. CASE s \notin S
          BY <2>2 DEF IInv, TypeOK
    <2> QED BY <2>1, <2>2
  <1>2. TypeOK'
        BY <1>1 DEF TypeOK
  <1>3. OneSuccessor'
        BY <1>1 DEF IInv, OneSuccessor
  <1> QED BY <1>2, <1>3 DEF IInv

(* A new session whose predecessor ends with it, or that has none.         *)
LEMMA Enter ==
  ASSUME Apart, IInv,
         NEW t \in Session, In({"absent"}, t),
         NEW u \in User, NEW from \in Session \cup {NoSession},
         from \in Session => In({"renewing"}, from),
         chain' = IF from = NoSession THEN Enters(t, u, from)
                  ELSE [Enters(t, u, from) EXCEPT ![from].phase = "ended"]
  PROVE  IInv'
  <1>1. chain[t] = Absent
        BY LinksHaveFields DEF IInv, TypeOK, In, Phase
  <1>2. PICK new \in Link : new = [user |-> u, from |-> from, phase |-> "live"]
        BY DEF Link, Phase
  <1>3. /\ new.from = from
        /\ new # Absent
        BY <1>2, LinksHaveFields
  <1>4. from # t
        BY <1>1 DEF In, Absent, Apart
  <1>5. chain'[t] = new
        BY <1>2, <1>4 DEF Enters, IInv, TypeOK
  <1>6. ASSUME from \in Session
        PROVE  /\ chain[from] \in Link
               /\ chain'[from] = [chain[from] EXCEPT !.phase = "ended"]
    <2>1. chain[from] \in Link
          BY <1>6 DEF IInv, TypeOK, In, Absent
    <2>2. from # NoSession
          BY <1>6 DEF Apart
    <2> QED BY <1>4, <1>6, <2>1, <2>2 DEF Enters, IInv, TypeOK
  <1>7. ASSUME from \in Session
        PROVE  /\ chain'[from] \in Link
               /\ chain'[from].phase = "ended"
               /\ chain'[from].from = chain[from].from
        BY <1>6, <1>7 DEF Link, Phase
  <1>8. \A s \in Session : s # t /\ s # from => chain'[s] = chain[s]
        BY DEF Enters, IInv, TypeOK
  <1>9. TypeOK'
    <2>1. \A s \in Session : chain'[s] \in Link \cup {Absent}
          BY <1>5, <1>7, <1>8 DEF IInv, TypeOK
    <2>2. chain' = [s \in Session |-> chain'[s]]
          BY DEF Enters, IInv, TypeOK
    <2> QED BY <2>1, <2>2 DEF TypeOK
  <1>10. OneSuccessor'
    <2> SUFFICES ASSUME NEW s \in Session, NEW o \in Session,
                        chain'[o] # Absent, chain'[o].from = s
                 PROVE  /\ chain'[s].phase = "ended"
                        /\ \A p \in Session :
                             chain'[p] # Absent /\ chain'[p].from = s => p = o
        BY DEF OneSuccessor
    <2>1. ASSUME NEW p \in Session, p # t, chain'[p] # Absent, chain'[p].from = s
          PROVE  /\ chain[p] # Absent
                 /\ chain[p].from = s
          BY <1>3, <1>6, <1>7, <1>8, <2>1, LinksHaveFields
    <2>2. ASSUME NEW p \in Session, p # t, chain'[p] # Absent, chain'[p].from = s
          PROVE  /\ chain[s].phase = "ended"
                 /\ s # from
                 /\ s # t
                 /\ chain'[s].phase = "ended"
      <3>1. chain[s].phase = "ended"
            BY <2>1, <2>2 DEF IInv, OneSuccessor
      <3>2. s # from
            BY <3>1 DEF In
      <3>3. s # t
            BY <3>1, <1>1 DEF Absent
      <3> QED BY <3>1, <3>2, <3>3, <1>8
    <2>3. CASE o = t
      <3>1. s = from
            BY <1>3, <1>5, <2>3
      <3>2. chain'[s].phase = "ended"
            BY <1>7, <3>1
      <3> QED BY <2>2, <2>3, <3>1, <3>2
    <2>4. CASE o # t
      <3>1. s # from
            BY <2>2, <2>4
      <3>2. ~ (chain'[t].from = s)
            BY <1>3, <1>5, <3>1
      <3> QED BY <2>1, <2>2, <2>4, <3>2 DEF IInv, OneSuccessor
    <2> QED BY <2>3, <2>4
  <1> QED BY <1>9, <1>10 DEF IInv

LEMMA StepIInv == Apart /\ IInv /\ [Next]_chain => IInv'
  <1> SUFFICES ASSUME Apart, IInv, [Next]_chain PROVE IInv'
      OBVIOUS
  <1>1. ASSUME NEW s \in Session, SignIn(s) PROVE IInv'
    <2>1. PICK u \in User : chain' = Enters(s, u, NoSession)
          BY <1>1 DEF SignIn
    <2> QED BY <1>1, <2>1, Enter DEF SignIn, Apart
  <1>2. ASSUME NEW s \in Session, NEW phase \in {"expired", "renewing", "ended"},
               In({"live", "expired", "renewing"}, s),
               chain' = [chain EXCEPT ![s].phase = phase]
        PROVE  IInv'
    <2>1. /\ chain[s] # Absent
          /\ chain[s].phase # "ended"
          BY <1>2 DEF In, Absent
    <2>2. chain' = [r \in Session |->
            IF r \in {s} THEN [chain[r] EXCEPT !.phase = phase] ELSE chain[r]]
          BY <1>2 DEF IInv, TypeOK
    <2>3. phase \in Phase
          BY DEF Phase
    <2> QED BY <2>1, <2>2, <2>3, PhasesMove
  <1>3. ASSUME NEW s \in Session, Expire(s) PROVE IInv'
        BY <1>2, <1>3 DEF Expire, In
  <1>4. ASSUME NEW s \in Session, Rotate(s) PROVE IInv'
        BY <1>2, <1>4 DEF Rotate, In
  <1>5. ASSUME NEW s \in Session, End(s) PROVE IInv'
        BY <1>2, <1>5 DEF End
  <1>6. ASSUME NEW s \in Session, NEW t \in Session, Renew(s, t) PROVE IInv'
    <2>1. chain[s].user \in User
          BY <1>6, LinksHaveFields DEF Renew, In, IInv, TypeOK, Absent
    <2>2. s # NoSession
          BY DEF Apart
    <2> QED BY <1>6, <2>1, <2>2, Enter DEF Renew
  <1>7. ASSUME NEW u \in User, Evict(u) PROVE IInv'
    <2>1. PICK S \in SUBSET Session :
            S = {s \in Session : chain[s] # Absent /\ chain[s].user = u}
          OBVIOUS
    <2>2. chain' = [s \in Session |->
            IF s \in S THEN [chain[s] EXCEPT !.phase = "ended"] ELSE chain[s]]
          BY <1>7, <2>1 DEF Evict
    <2>3. "ended" \in Phase
          BY DEF Phase
    <2> QED BY <2>1, <2>2, <2>3, PhasesMove
  <1>8. CASE UNCHANGED chain
        BY <1>8 DEF IInv, TypeOK, OneSuccessor
  <1> QED BY <1>1, <1>3, <1>4, <1>5, <1>6, <1>7, <1>8 DEF Next

(* The rows of the chains keep to their form.                              *)
THEOREM TypeCorrect == Apart /\ Spec => []TypeOK
  <1> SUFFICES ASSUME Apart PROVE Spec => []TypeOK
      OBVIOUS
  <1>1. Init => IInv
        BY InitIInv
  <1>2. IInv /\ [Next]_chain => IInv'
        BY StepIInv
  <1>3. IInv => TypeOK
        BY DEF IInv
  <1> QED BY <1>1, <1>2, <1>3, PTL DEF Spec

(* A session renewed once is over and never renewed again: a refresh token *)
(* is worth one session, whoever presents it and however often.            *)
THEOREM SucceededOnce == Apart /\ Spec => []OneSuccessor
  <1> SUFFICES ASSUME Apart PROVE Spec => []OneSuccessor
      OBVIOUS
  <1>1. Init => IInv
        BY InitIInv
  <1>2. IInv /\ [Next]_chain => IInv'
        BY StepIInv
  <1>3. IInv => OneSuccessor
        BY DEF IInv
  <1> QED BY <1>1, <1>2, <1>3, PTL DEF Spec
=============================================================================
