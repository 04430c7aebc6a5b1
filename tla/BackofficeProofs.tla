-------------------------- MODULE BackofficeProofs --------------------------
(***************************************************************************)
(* Proofs about the four small components of the back office as             *)
(* MCBackoffice instantiates them: approval chains (Chains), asynchronous  *)
(* jobs (Jobs), render batches with the files they and print jobs leave    *)
(* (Files), and invoices with their payments (Books).  Each has its         *)
(* inductive invariant, whose parts say what the requests in flight know;  *)
(* the properties follow from it for every set of rows and slots.          *)
(***************************************************************************)
EXTENDS MCBackoffice, FiniteSetTheorems, TLAPS

----------------------------------------------------------------------------
(* Approval chains                                                         *)

(* Cardinality, as Chains sees it through its instance.  *)
LEMMA ChainsCount == \A S : Chains!Cardinality(S) = Cardinality(S)
  BY DEF Chains!Cardinality, Cardinality


ChainCreates == [op : {"deactivate"}, version : Nat \ {0}, activate : BOOLEAN]
ChainInserts ==
  [op : {"insert"}, version : Nat \ {0}, activate : BOOLEAN, off : SUBSET Chain]
ChainActivates == [op : {"activate"}, chain : Chain, alone : BOOLEAN, off : SUBSET Chain]

(* What a request has read is there; rows are not deleted.                 *)
ChainRequest(q) ==
  \/ q = Chains!Idle
  \/ q \in ChainCreates
  \/ q \in ChainInserts /\ q.off \subseteq Chains!Made
  \/ q \in ChainActivates /\ q.off \subseteq Chains!Made /\ q.chain \in Chains!Made

ChainRows ==
  /\ load \in 1..MaxLoad
  /\ chain \in [Chain -> Chains!ChainRow \cup {Chains!Unmade}]
  /\ DOMAIN chainReq = Slot
  /\ \A sl \in Slot : ChainRequest(chainReq[sl])

ChainBusyBound == Cardinality(Chains!Busy) <= load

(* The versions are 1, 2, ... up to some n; a request writes one of them,  *)
(* or the next.                                                            *)
Claims(sl) == chainReq[sl].op \in {"deactivate", "insert"}

Numbered(n) ==
  /\ {chain[c].version : c \in Chains!Made} = 1..n
  /\ \A sl \in Slot : Claims(sl) => chainReq[sl].version <= n + 1

(* Who has a version already, and who will                                 *)
Holders(v) == {c \in Chains!Made : chain[c].version = v}
Claimants(v) == {sl \in Slot : Claims(sl) /\ chainReq[sl].version = v}

VersionsShared ==
  \A v \in Nat : Cardinality(Holders(v)) + Cardinality(Claimants(v)) <= load

(* The chains activated in place of the others; the requests about to       *)
(* activate one so; and what the last of these leave of the former, if      *)
(* those of the set Q are the ones that commit.                            *)
Sole == {c \in Chains!Made : chain[c].active /\ chain[c].alone}
Replacing ==
  {sl \in Slot : \/ chainReq[sl].op = "insert" /\ chainReq[sl].activate
                 \/ chainReq[sl].op = "activate" /\ chainReq[sl].alone}
Replaced(q) == IF q.op = "activate" THEN q.off \cup {q.chain} ELSE q.off
Left(Q) == {c \in Sole : \A sl \in Q : c \notin Replaced(chainReq[sl])}

SoleBound ==
  \A Q \in SUBSET Replacing : Cardinality(Left(Q)) + Cardinality(Q) <= load

ChainsInv ==
  /\ ChainRows
  /\ ChainBusyBound
  /\ \E n \in Nat : Numbered(n)
  /\ VersionsShared
  /\ SoleBound

LEMMA ChainsFinite ==
  /\ IsFiniteSet(Slot) /\ IsFiniteSet(Chain)
  /\ \A S \in SUBSET Slot : IsFiniteSet(S) /\ Cardinality(S) \in Nat
  /\ \A S \in SUBSET Chain : IsFiniteSet(S) /\ Cardinality(S) \in Nat
  /\ \A S \in SUBSET Slot : \A T \in SUBSET S : Cardinality(T) <= Cardinality(S)
  /\ \A S \in SUBSET Chain : \A T \in SUBSET S : Cardinality(T) <= Cardinality(S)
  BY TemplatesAssumption, BackofficeAssumption, FS_Subset, FS_CardinalityType

(* What deactivating the rivals does to a row.                             *)
LEMMA OffRow ==
  ASSUME ChainRows, NEW rows \in SUBSET Chains!Made, NEW c \in Chain
  PROVE  /\ Chains!Off(rows)[c] \in Chains!ChainRow \cup {Chains!Unmade}
         /\ Chains!Off(rows)[c] = Chains!Unmade <=> chain[c] = Chains!Unmade
         /\ Chains!Off(rows)[c].version = chain[c].version
         /\ c \in Chains!Made => /\ Chains!Off(rows)[c].active <=> chain[c].active /\ c \notin rows
                          /\ Chains!Off(rows)[c].alone = chain[c].alone
  <1>1. chain[c] \in Chains!ChainRow \cup {Chains!Unmade}
        BY DEF ChainRows
  <1>2. Chains!Off(rows)[c] = IF c \in rows THEN [chain[c] EXCEPT !.active = FALSE] ELSE chain[c]
        BY DEF Chains!Off
  <1>3. CASE c \in rows
        <2>1. chain[c] \in Chains!ChainRow
              BY <1>1, <1>3 DEF Chains!Made
        <2> QED BY <1>2, <1>3, <2>1 DEF Chains!ChainRow, Chains!Unmade, Chains!Made
  <1>4. CASE c \notin rows
        BY <1>1, <1>2, <1>4 DEF Chains!ChainRow, Chains!Unmade, Chains!Made
  <1> QED BY <1>3, <1>4

(* The row a chain is created with                                         *)
NewChain(q) == [version |-> q.version, active |-> q.activate, alone |-> q.activate]

LEMMA InsertStep ==
  ASSUME ChainRows, NEW sl \in Slot, Chains!Insert(sl)
  PROVE  \E c \in Chain \ Chains!Made :
           /\ chain' \in [Chain -> Chains!ChainRow \cup {Chains!Unmade}]
           /\ Chains!Made' = Chains!Made \cup {c}
           /\ chain'[c] = NewChain(chainReq[sl])
           /\ \A d \in Chains!Made :
                /\ chain'[d].version = chain[d].version
                /\ chain'[d].active <=> chain[d].active /\ d \notin chainReq[sl].off
                /\ chain'[d].alone = chain[d].alone
  <1> DEFINE q == chainReq[sl]
  <1>1. q \in ChainInserts /\ q.off \in SUBSET Chains!Made
        BY DEF ChainRows, ChainRequest, Chains!Insert, Chains!Idle, ChainCreates,
               ChainActivates
  <1>2. PICK c \in Chain \ Chains!Made : chain' = [Chains!Off(q.off) EXCEPT ![c] = NewChain(q)]
        BY DEF Chains!Insert, NewChain
  <1>3. DOMAIN Chains!Off(q.off) = Chain
        BY DEF Chains!Off
  <1>4. chain'[c] = NewChain(q) /\ \A d \in Chain \ {c} : chain'[d] = Chains!Off(q.off)[d]
        BY <1>2, <1>3
  <1>5. NewChain(q) \in Chains!ChainRow
        BY <1>1 DEF NewChain, Chains!ChainRow, ChainInserts
  <1>6. NewChain(q) # Chains!Unmade
        BY <1>5 DEF Chains!ChainRow, Chains!Unmade
  <1>7. \A d \in Chain : Chains!Off(q.off)[d] \in Chains!ChainRow \cup {Chains!Unmade}
        BY <1>1, OffRow
  <1>8. chain' \in [Chain -> Chains!ChainRow \cup {Chains!Unmade}]
        BY <1>2, <1>5, <1>7, <1>3 DEF Chains!Off
  <1>9. \A d \in Chain \ {c} : chain'[d] = Chains!Unmade <=> chain[d] = Chains!Unmade
        BY <1>1, <1>4, OffRow
  <1>10. Chains!Made' = Chains!Made \cup {c}
        BY <1>4, <1>6, <1>9 DEF Chains!Made
  <1>11. \A d \in Chains!Made :
                /\ chain'[d].version = chain[d].version
                /\ chain'[d].active <=> chain[d].active /\ d \notin chainReq[sl].off
                /\ chain'[d].alone = chain[d].alone
        BY <1>1, <1>4, OffRow DEF Chains!Made
  <1> QED BY <1>4, <1>8, <1>10, <1>11

LEMMA ActivateStep ==
  ASSUME ChainRows, NEW sl \in Slot, Chains!Activate(sl)
  PROVE  LET q == chainReq[sl] IN
           /\ q \in ChainActivates /\ q.chain \in Chains!Made
           /\ chain' \in [Chain -> Chains!ChainRow \cup {Chains!Unmade}]
           /\ Chains!Made' = Chains!Made
           /\ \A d \in Chains!Made :
                /\ chain'[d].version = chain[d].version
                /\ d # q.chain =>
                     /\ chain'[d].active <=> chain[d].active /\ d \notin q.off
                     /\ chain'[d].alone = chain[d].alone
           /\ chain'[q.chain].active /\ chain'[q.chain].alone = q.alone
  <1> DEFINE q == chainReq[sl]
  <1> HIDE DEF q
  <1>1. q \in ChainActivates /\ q.off \in SUBSET Chains!Made /\ q.chain \in Chains!Made
        BY DEF q, ChainRows, ChainRequest, Chains!Activate, Chains!Idle, ChainCreates,
               ChainInserts
  <1>2. chain' = [Chains!Off(q.off) EXCEPT ![q.chain].active = TRUE, ![q.chain].alone = q.alone]
        BY DEF q, Chains!Activate
  <1>3. DOMAIN Chains!Off(q.off) = Chain
        BY DEF Chains!Off
  <1> DEFINE old == Chains!Off(q.off)[q.chain]
  <1>4. q.chain \in Chain
        BY <1>1 DEF Chains!Made
  <1>5. old \in Chains!ChainRow /\ old.version = chain[q.chain].version
        BY <1>1, <1>4, OffRow DEF Chains!Made
  <1>6. chain' = [Chains!Off(q.off) EXCEPT ![q.chain] = [old EXCEPT !.active = TRUE, !.alone = q.alone]]
        BY <1>2, <1>3, <1>4
  <1> HIDE DEF old
  <1>7. PICK row : row = [old EXCEPT !.active = TRUE, !.alone = q.alone]
        OBVIOUS
  <1>8. row \in Chains!ChainRow /\ row.version = old.version /\ row.active /\ row.alone = q.alone
        BY <1>1, <1>5, <1>7 DEF Chains!ChainRow, ChainActivates
  <1>9. chain'[q.chain] = row /\ \A d \in Chain \ {q.chain} : chain'[d] = Chains!Off(q.off)[d]
        BY <1>3, <1>4, <1>6, <1>7
  <1>10. \A d \in Chain : Chains!Off(q.off)[d] \in Chains!ChainRow \cup {Chains!Unmade}
        BY <1>1, OffRow
  <1>11. chain' \in [Chain -> Chains!ChainRow \cup {Chains!Unmade}]
        BY <1>3, <1>6, <1>7, <1>8, <1>10 DEF Chains!Off
  <1>12. row # Chains!Unmade /\ chain[q.chain] # Chains!Unmade
        BY <1>1, <1>8 DEF Chains!ChainRow, Chains!Unmade, Chains!Made
  <1>13. \A d \in Chain \ {q.chain} : chain'[d] = Chains!Unmade <=> chain[d] = Chains!Unmade
        BY <1>1, <1>9, OffRow
  <1>14. Chains!Made' = Chains!Made
        BY <1>9, <1>12, <1>13 DEF Chains!Made
  <1>15. \A d \in Chains!Made :
                /\ chain'[d].version = chain[d].version
                /\ d # q.chain =>
                     /\ chain'[d].active <=> chain[d].active /\ d \notin q.off
                     /\ chain'[d].alone = chain[d].alone
        BY <1>1, <1>5, <1>8, <1>9, OffRow DEF Chains!Made
  <1> QED BY <1>1, <1>8, <1>9, <1>11, <1>14, <1>15 DEF q
(* The highest version is the n of Numbered(n).                             *)
LEMMA LatestNumber ==
  ASSUME ChainRows, NEW n \in Nat, Numbered(n)
  PROVE  Chains!Latest = n
  <1>1. {chain[c].version : c \in Chains!Made} = 1..n
        BY DEF Numbered
  <1>2. CASE n = 0
        <2>1. \A c \in Chains!Made : chain[c].version \in 1..0
              BY <1>1, <1>2
        <2>2. Chains!Made = {}
              BY <2>1
        <2> QED BY <1>2, <2>2 DEF Chains!Latest
  <1>3. CASE n # 0
        <2>1. n \in 1..n
              BY <1>3
        <2>2. PICK c \in Chains!Made : chain[c].version = n
              BY <1>1, <2>1
        <2>3. \A d \in Chains!Made : chain[d].version \in 1..n
              BY <1>1
        <2>4. Chains!Latest = CHOOSE v \in 1..n : \A d \in Chains!Made : chain[d].version <= v
              BY <1>1, <2>2 DEF Chains!Latest
        <2>5. \A d \in Chains!Made : chain[d].version <= n
              BY <2>3
        <2>6. Chains!Latest \in 1..n /\ \A d \in Chains!Made : chain[d].version <= Chains!Latest
              BY <2>1, <2>4, <2>5
        <2> QED BY <2>2, <2>6
  <1> QED BY <1>2, <1>3

----------------------------------------------------------------------------
(* One invariant after the other *)

LEMMA ChainRowsKept ==
  ASSUME ChainsInv, Chains!Next
  PROVE  ChainRows'
  <1>1. ChainRows
        BY DEF ChainsInv
  <1>2. PICK sl \in Slot : \/ Chains!ReadLatest(sl) \/ Chains!Deactivate(sl) \/ Chains!Insert(sl)
                           \/ Chains!ReadForActivate(sl) \/ Chains!Activate(sl)
        BY DEF Chains!Next
  <1>3. /\ load' = load
        /\ DOMAIN chainReq' = Slot
        /\ \A s \in Slot \ {sl} : chainReq'[s] = chainReq[s]
        BY <1>1, <1>2
           DEF ChainRows, Chains!ReadLatest, Chains!Deactivate, Chains!Insert,
               Chains!ReadForActivate, Chains!Activate, Chains!Enter, Chains!Proceed
  <1>4. \A s \in Slot : ChainRequest(chainReq[s])
        BY <1>1 DEF ChainRows
  <1>5. SUFFICES /\ chain' \in [Chain -> Chains!ChainRow \cup {Chains!Unmade}]
                 /\ Chains!Made \subseteq Chains!Made'
                 /\ ChainRequest(chainReq[sl])'
        <2>1. \A s \in Slot \ {sl} : ChainRequest(chainReq[s])'
              BY <1>3, <1>4, <1>5 DEF ChainRequest
        <2>2. \A s \in Slot : ChainRequest(chainReq[s])'
              BY <1>5, <2>1
        <2> QED BY <1>1, <1>3, <1>5, <2>2 DEF ChainRows
  <1>6. CASE Chains!ReadLatest(sl)
        <2>1. PICK n \in Nat : Numbered(n)
              BY DEF ChainsInv
        <2>2. Chains!Latest = n
              BY <1>1, <2>1, LatestNumber
        <2>3. chain' = chain /\ chainReq'[sl] \in ChainCreates
              BY <1>1, <1>6, <2>2 DEF Chains!ReadLatest, Chains!Enter, Chains!Proceed,
                                      ChainCreates, ChainRows
        <2> QED BY <1>1, <2>3 DEF ChainRequest, ChainRows, Chains!Made
  <1>7. CASE Chains!Deactivate(sl)
        <2>1. chainReq[sl] \in ChainCreates
              BY <1>4, <1>7 DEF Chains!Deactivate, ChainRequest, Chains!Idle,
                                ChainInserts, ChainActivates
        <2>2. chain' = chain /\ Chains!Made' = Chains!Made
              BY <1>7 DEF Chains!Deactivate, Chains!Proceed, Chains!Made
        <2>3. chainReq'[sl] \in ChainInserts /\ chainReq'[sl].off \subseteq Chains!Made
              BY <1>1, <1>7, <2>1 DEF Chains!Deactivate, Chains!Proceed, ChainCreates,
                                      ChainInserts, ChainRows, Chains!Made
        <2> QED BY <1>1, <2>2, <2>3 DEF ChainRequest, ChainRows
  <1>8. CASE Chains!Insert(sl)
        <2>1. chainReq'[sl] = Chains!Idle
              BY <1>1, <1>8 DEF Chains!Insert, ChainRows
        <2> QED BY <1>1, <1>8, <2>1, InsertStep DEF ChainRequest
  <1>9. CASE Chains!ReadForActivate(sl)
        <2>1. chain' = chain /\ Chains!Made' = Chains!Made
              BY <1>9 DEF Chains!ReadForActivate, Chains!Enter, Chains!Proceed,
                          Chains!Made
        <2>2. /\ chainReq'[sl] \in ChainActivates /\ chainReq'[sl].off \subseteq Chains!Made
              /\ chainReq'[sl].chain \in Chains!Made
              BY <1>1, <1>9 DEF Chains!ReadForActivate, Chains!Enter, Chains!Proceed,
                                ChainActivates, ChainRows, Chains!Made
        <2> QED BY <1>1, <2>1, <2>2 DEF ChainRequest, ChainRows
  <1>10. CASE Chains!Activate(sl)
        <2>1. chainReq'[sl] = Chains!Idle
              BY <1>1, <1>10 DEF Chains!Activate, ChainRows
        <2> QED BY <1>1, <1>10, <2>1, ActivateStep DEF ChainRequest
  <1> QED BY <1>2, <1>6, <1>7, <1>8, <1>9, <1>10

LEMMA ChainBusyKept ==
  ASSUME ChainsInv, Chains!Next
  PROVE  ChainBusyBound'
  <1>1. ChainRows /\ ChainBusyBound
        BY DEF ChainsInv
  <1>2. PICK sl \in Slot : \/ Chains!ReadLatest(sl) \/ Chains!Deactivate(sl) \/ Chains!Insert(sl)
                           \/ Chains!ReadForActivate(sl) \/ Chains!Activate(sl)
        BY DEF Chains!Next
  <1>3. load' = load /\ load \in Nat
        BY <1>1, <1>2, TemplatesAssumption
           DEF ChainRows, Chains!ReadLatest, Chains!Deactivate, Chains!Insert,
               Chains!ReadForActivate, Chains!Activate, Chains!Enter, Chains!Proceed
  <1>4. \A s \in Slot \ {sl} : chainReq'[s] = chainReq[s]
        BY <1>1, <1>2
           DEF ChainRows, Chains!ReadLatest, Chains!Deactivate, Chains!Insert,
               Chains!ReadForActivate, Chains!Activate, Chains!Enter, Chains!Proceed
  <1>5. /\ Chains!Busy' \subseteq Chains!Busy \cup {sl}
        /\ Chains!Busy \in SUBSET Slot /\ Chains!Busy' \in SUBSET Slot
        BY <1>4 DEF Chains!Busy
  <1>6. CASE sl \in Chains!Busy
        BY <1>1, <1>3, <1>5, <1>6, ChainsFinite DEF ChainBusyBound
  <1>7. CASE sl \notin Chains!Busy
        <2>1. Cardinality(Chains!Busy) < load
              <3>1. chainReq[sl].op = "idle"
                    BY <1>7 DEF Chains!Busy, Chains!Idle
              <3>2. ~Chains!Deactivate(sl) /\ ~Chains!Insert(sl) /\ ~Chains!Activate(sl)
                    BY <3>1 DEF Chains!Deactivate, Chains!Insert, Chains!Activate
              <3> QED BY <1>2, <3>2, ChainsCount
                 DEF Chains!ReadLatest, Chains!ReadForActivate, Chains!Enter
        <2>2. Cardinality(Chains!Busy \cup {sl}) = Cardinality(Chains!Busy) + 1
              BY <1>5, <1>7, ChainsFinite, FS_AddElement
        <2>3. Chains!Busy \cup {sl} \in SUBSET Slot
              BY <1>5
        <2>4. Cardinality(Chains!Busy') <= Cardinality(Chains!Busy \cup {sl})
              BY <1>5, <2>3, ChainsFinite
        <2> QED BY <1>3, <1>5, <2>1, <2>2, <2>3, <2>4, ChainsFinite DEF ChainBusyBound
  <1> QED BY <1>6, <1>7

LEMMA NumberedKept ==
  ASSUME ChainsInv, Chains!Next
  PROVE  \E n \in Nat : Numbered(n)'
  <1>1. ChainRows
        BY DEF ChainsInv
  <1>2. PICK n \in Nat : Numbered(n)
        BY DEF ChainsInv
  <1>3. PICK sl \in Slot : \/ Chains!ReadLatest(sl) \/ Chains!Deactivate(sl) \/ Chains!Insert(sl)
                           \/ Chains!ReadForActivate(sl) \/ Chains!Activate(sl)
        BY DEF Chains!Next
  <1>4. DOMAIN chainReq = Slot
        BY <1>1 DEF ChainRows
  <1>5. {chain[c].version : c \in Chains!Made} = 1..n
        BY <1>2 DEF Numbered
  <1>6. \A s \in Slot : Claims(s) => chainReq[s].version <= n + 1
        BY <1>2 DEF Numbered
  <1>7. CASE Chains!ReadLatest(sl) \/ Chains!Deactivate(sl) \/ Chains!ReadForActivate(sl)
        <2>1. chain' = chain /\ Chains!Made' = Chains!Made
              BY <1>7 DEF Chains!ReadLatest, Chains!Deactivate, Chains!ReadForActivate,
                          Chains!Enter, Chains!Proceed, Chains!Made
        <2>2. Chains!Latest = n
              BY <1>1, <1>2, LatestNumber
        <2>3. \A s \in Slot : Claims(s)' => chainReq'[s].version <= n + 1
              BY <1>4, <1>6, <1>7, <2>2
                 DEF Chains!ReadLatest, Chains!Deactivate, Chains!ReadForActivate,
                     Chains!Enter, Chains!Proceed, Claims
        <2>4. Numbered(n)'
              BY <1>5, <2>1, <2>3 DEF Numbered
        <2> QED BY <2>4
  <1>8. CASE Chains!Insert(sl)
        <2> DEFINE v == chainReq[sl].version
        <2>1. v \in Nat \ {0} /\ v <= n + 1
              BY <1>1, <1>6, <1>8
                 DEF ChainRows, ChainRequest, Chains!Insert, Claims, Chains!Idle,
                     ChainCreates, ChainInserts,
                     ChainActivates
        <2>2. PICK c \in Chain \ Chains!Made :
                /\ Chains!Made' = Chains!Made \cup {c}
                /\ chain'[c] = NewChain(chainReq[sl])
                /\ \A d \in Chains!Made : chain'[d].version = chain[d].version
              BY <1>1, <1>8, InsertStep
        <2>3. {chain'[d].version : d \in Chains!Made'} = 1..n \cup {v}
              BY <1>5, <2>2 DEF NewChain
        <2>4. \A s \in Slot : Claims(s)' => chainReq'[s].version <= n + 1
              BY <1>4, <1>6, <1>8 DEF Chains!Insert, Claims, Chains!Idle
        <2>5. CASE v = n + 1
              <3>1. 1..n \cup {v} = 1..(n + 1)
                    BY <2>5
              <3>2. \A s \in Slot : Claims(s) /\ chainReq[s].version <= n + 1 =>
                      chainReq[s].version <= n + 1 + 1
                    BY <1>1 DEF ChainRows, ChainRequest, Claims, Chains!Idle,
                                ChainCreates, ChainInserts,
                                ChainActivates
              <3>3. \A s \in Slot : Claims(s)' => chainReq'[s].version <= n + 1 + 1
                    BY <1>4, <1>6, <1>8, <3>2 DEF Chains!Insert, Claims, Chains!Idle
              <3>4. Numbered(n + 1)'
                    BY <2>3, <3>1, <3>3 DEF Numbered
              <3> QED BY <3>4
        <2>6. CASE v # n + 1
              <3>1. 1..n \cup {v} = 1..n
                    BY <2>1, <2>6
              <3>2. Numbered(n)'
                    BY <2>3, <2>4, <3>1 DEF Numbered
              <3> QED BY <3>2
        <2> QED BY <2>5, <2>6
  <1>9. CASE Chains!Activate(sl)
        <2>1. Chains!Made' = Chains!Made /\ \A d \in Chains!Made : chain'[d].version = chain[d].version
              BY <1>1, <1>9, ActivateStep
        <2>2. {chain'[d].version : d \in Chains!Made'} = 1..n
              BY <1>5, <2>1
        <2>3. \A s \in Slot : Claims(s)' => chainReq'[s].version <= n + 1
              BY <1>4, <1>6, <1>9 DEF Chains!Activate, Claims, Chains!Idle
        <2>4. Numbered(n)'
              BY <2>2, <2>3 DEF Numbered
        <2> QED BY <2>4
  <1> QED BY <1>3, <1>7, <1>8, <1>9
LEMMA SharedKept ==
  ASSUME ChainsInv, Chains!Next
  PROVE  VersionsShared'
  <1>1. ChainRows /\ VersionsShared
        BY DEF ChainsInv
  <1>2. PICK n \in Nat : Numbered(n)
        BY DEF ChainsInv
  <1>3. PICK sl \in Slot : \/ Chains!ReadLatest(sl) \/ Chains!Deactivate(sl) \/ Chains!Insert(sl)
                           \/ Chains!ReadForActivate(sl) \/ Chains!Activate(sl)
        BY DEF Chains!Next
  <1>4. /\ load' = load /\ load \in Nat
        /\ DOMAIN chainReq = Slot
        /\ \A s \in Slot \ {sl} : chainReq'[s] = chainReq[s]
        BY <1>1, <1>3, TemplatesAssumption
           DEF ChainRows, Chains!ReadLatest, Chains!Deactivate, Chains!Insert,
               Chains!ReadForActivate, Chains!Activate, Chains!Enter, Chains!Proceed
  <1>5. ChainRequest(chainReq[sl])
        BY <1>1 DEF ChainRows
  <1>6. SUFFICES ASSUME NEW v \in Nat
                 PROVE  Cardinality(Holders(v)') + Cardinality(Claimants(v)') <= load
        BY <1>4 DEF VersionsShared
  <1>7. Cardinality(Holders(v)) + Cardinality(Claimants(v)) <= load
        BY <1>1 DEF VersionsShared
  <1>8. Holders(v) \in SUBSET Chain /\ Claimants(v) \in SUBSET Slot
        BY DEF Holders, Claimants, Chains!Made
  <1>9. CASE Chains!ReadLatest(sl)
        <2>1. Chains!Latest = n
              BY <1>1, <1>2, LatestNumber
        <2>2. Holders(v)' = Holders(v)
              BY <1>9 DEF Chains!ReadLatest, Chains!Enter, Chains!Proceed, Holders,
                          Chains!Made
        <2>3. CASE v = n + 1
              <3>1. \A c \in Chains!Made : chain[c].version \in 1..n
                    BY <1>2 DEF Numbered
              <3>2. Holders(v) = {}
                    BY <2>3, <3>1 DEF Holders
              <3>3. Claimants(v)' \in SUBSET (Chains!Busy')
                    BY DEF Claimants, Claims, Chains!Busy, Chains!Idle
              <3>4. Chains!Busy' \in SUBSET Slot
                    BY DEF Chains!Busy
              <3>5. Cardinality(Claimants(v)') <= Cardinality(Chains!Busy')
                    BY <3>3, <3>4, ChainsFinite
              <3>6. Cardinality(Chains!Busy') <= load'
                    BY ChainBusyKept DEF ChainBusyBound
              <3>7. Cardinality(Claimants(v)') \in Nat /\ Cardinality(Chains!Busy') \in Nat
                    BY <3>3, <3>4, ChainsFinite
              <3> QED BY <1>4, <2>2, <3>2, <3>5, <3>6, <3>7, FS_EmptySet
        <2>4. CASE v # n + 1
              <3>1. sl \notin Claimants(v)
                    BY <1>9 DEF Chains!ReadLatest, Chains!Enter, Chains!Busy,
                                Chains!Idle, Claimants, Claims
              <3>2. sl \notin Claimants(v)'
                    BY <1>4, <1>9, <2>1, <2>4 DEF Chains!ReadLatest, Chains!Enter,
                                                  Chains!Proceed, Claimants, Claims
              <3>3. Claimants(v)' = Claimants(v)
                    BY <1>4, <3>1, <3>2 DEF Claimants, Claims
              <3> QED BY <1>7, <2>2, <3>3
        <2> QED BY <2>3, <2>4
  <1>10. CASE Chains!Deactivate(sl)
        <2>1. Holders(v)' = Holders(v)
              BY <1>10 DEF Chains!Deactivate, Chains!Proceed, Holders, Chains!Made
        <2>2. /\ chainReq[sl].op = "deactivate" /\ chainReq'[sl].op = "insert"
              /\ chainReq'[sl].version = chainReq[sl].version
              BY <1>4, <1>10 DEF Chains!Deactivate, Chains!Proceed
        <2>3. Claimants(v)' = Claimants(v)
              BY <1>4, <2>2 DEF Claimants, Claims
        <2> QED BY <1>7, <2>1, <2>3
  <1>11. CASE Chains!Insert(sl)
        <2> DEFINE q == chainReq[sl]
        <2>1. q.op = "insert"
              BY <1>11 DEF Chains!Insert
        <2>2. PICK c \in Chain \ Chains!Made :
                /\ Chains!Made' = Chains!Made \cup {c}
                /\ chain'[c] = NewChain(chainReq[sl])
                /\ \A d \in Chains!Made : chain'[d].version = chain[d].version
              BY <1>1, <1>11, InsertStep
        <2>3. chainReq'[sl] = Chains!Idle
              BY <1>4, <1>11 DEF Chains!Insert
        <2>4. Claimants(v)' = Claimants(v) \ {sl}
              BY <1>4, <2>3 DEF Claimants, Claims, Chains!Idle
        <2>5. CASE q.version = v
              <3>1. Holders(v)' = Holders(v) \cup {c}
                    BY <2>2, <2>5 DEF Holders, NewChain
              <3>2. c \notin Holders(v) /\ sl \in Claimants(v)
                    BY <2>1, <2>5 DEF Holders, Claimants, Claims
              <3>3. Cardinality(Holders(v)') = Cardinality(Holders(v)) + 1
                    BY <1>8, <3>1, <3>2, ChainsFinite, FS_AddElement
              <3>4. Cardinality(Claimants(v)') = Cardinality(Claimants(v)) - 1
                    BY <1>8, <2>4, <3>2, ChainsFinite, FS_RemoveElement
              <3> QED BY <1>4, <1>7, <1>8, <3>3, <3>4, ChainsFinite
        <2>6. CASE q.version # v
              <3>1. Holders(v)' = Holders(v)
                    BY <2>2, <2>6 DEF Holders, NewChain
              <3>2. Claimants(v)' = Claimants(v)
                    BY <2>4, <2>6 DEF Claimants
              <3> QED BY <1>7, <3>1, <3>2
        <2> QED BY <2>5, <2>6
  <1>12. CASE Chains!ReadForActivate(sl)
        <2>1. Holders(v)' = Holders(v)
              BY <1>12 DEF Chains!ReadForActivate, Chains!Enter, Chains!Proceed,
                           Holders, Chains!Made
        <2>2. chainReq[sl].op = "idle" /\ chainReq'[sl].op = "activate"
              BY <1>4, <1>12 DEF Chains!ReadForActivate, Chains!Enter, Chains!Proceed,
                                 Chains!Busy, Chains!Idle
        <2>3. Claimants(v)' = Claimants(v)
              BY <1>4, <2>2 DEF Claimants, Claims
        <2> QED BY <1>7, <2>1, <2>3
  <1>13. CASE Chains!Activate(sl)
        <2>1. Chains!Made' = Chains!Made /\ \A d \in Chains!Made : chain'[d].version = chain[d].version
              BY <1>1, <1>13, ActivateStep
        <2>2. Holders(v)' = Holders(v)
              BY <2>1 DEF Holders
        <2>3. chainReq[sl].op = "activate" /\ chainReq'[sl].op = "idle"
              BY <1>4, <1>13 DEF Chains!Activate, Chains!Idle
        <2>4. Claimants(v)' = Claimants(v)
              BY <1>4, <2>3 DEF Claimants, Claims
        <2> QED BY <1>7, <2>2, <2>4
  <1> QED BY <1>3, <1>9, <1>10, <1>11, <1>12, <1>13

(* A step after which no more chains are sole, and no more requests about   *)
(* to make one so.                                                         *)
LEMMA NoNewSole ==
  ASSUME ChainRows, SoleBound, NEW sl \in Slot, load' = load,
         \A s \in Slot \ {sl} : chainReq'[s] = chainReq[s],
         sl \notin Replacing', Sole' \subseteq Sole
  PROVE  SoleBound'
  <1>1. SUFFICES ASSUME NEW Q \in SUBSET Replacing'
                 PROVE  Cardinality(Left(Q)') + Cardinality(Q) <= load
        BY DEF SoleBound
  <1>2. Q \in SUBSET Replacing /\ sl \notin Q
        BY DEF Replacing
  <1>3. Q \in SUBSET Slot
        BY DEF Replacing
  <1>4. Left(Q)' \subseteq Left(Q)
        BY <1>2, <1>3 DEF Left
  <1>5. Left(Q) \in SUBSET Chain
        BY DEF Left, Sole, Chains!Made
  <1>6. Cardinality(Left(Q)') <= Cardinality(Left(Q)) /\ Left(Q)' \in SUBSET Chain
        BY <1>4, <1>5, ChainsFinite
  <1>7. Cardinality(Left(Q)) + Cardinality(Q) <= load
        BY <1>2 DEF SoleBound
  <1>8. load \in Nat
        BY TemplatesAssumption DEF ChainRows
  <1> QED BY <1>3, <1>5, <1>6, <1>7, <1>8, ChainsFinite

(* A request that decides to replace all that are sole leaves none.        *)
LEMMA ReplaceAll ==
  ASSUME ChainRows, SoleBound, ChainBusyBound', NEW sl \in Slot, load' = load,
         \A s \in Slot \ {sl} : chainReq'[s] = chainReq[s],
         Sole' \subseteq Sole, sl \in Replacing', Sole \subseteq Replaced(chainReq'[sl])
  PROVE  SoleBound'
  <1>1. SUFFICES ASSUME NEW Q \in SUBSET Replacing'
                 PROVE  Cardinality(Left(Q)') + Cardinality(Q) <= load
        BY DEF SoleBound
  <1>2. Q \in SUBSET Slot /\ Q \in SUBSET (Chains!Busy') /\ Chains!Busy' \in SUBSET Slot
        BY DEF Replacing, Chains!Busy, Chains!Idle
  <1>3. load \in Nat
        BY TemplatesAssumption DEF ChainRows
  <1>4. CASE sl \in Q
        <2>1. Left(Q)' = {}
              BY <1>4 DEF Left
        <2>2. Cardinality(Q) <= Cardinality(Chains!Busy')
              BY <1>2, ChainsFinite
        <2>3. Cardinality(Chains!Busy') <= load
              BY DEF ChainBusyBound
        <2> QED BY <1>2, <1>3, <2>1, <2>2, <2>3, FS_EmptySet, ChainsFinite
  <1>5. CASE sl \notin Q
        <2>1. Q \in SUBSET Replacing
              BY <1>5 DEF Replacing
        <2>2. Left(Q)' \subseteq Left(Q)
              BY <1>2, <1>5 DEF Left
        <2>3. Left(Q) \in SUBSET Chain
              BY DEF Left, Sole, Chains!Made
        <2>4. Cardinality(Left(Q)') <= Cardinality(Left(Q)) /\ Left(Q)' \in SUBSET Chain
              BY <2>2, <2>3, ChainsFinite
        <2>5. Cardinality(Left(Q)) + Cardinality(Q) <= load
              BY <2>1 DEF SoleBound
        <2> QED BY <1>2, <1>3, <2>3, <2>4, <2>5, ChainsFinite
  <1> QED BY <1>4, <1>5

(* A request commits, and its chain c is sole with those it has left.      *)
LEMMA OneMoreSole ==
  ASSUME ChainRows, SoleBound, NEW sl \in Replacing, NEW c, load' = load,
         \A s \in Slot \ {sl} : chainReq'[s] = chainReq[s], sl \notin Replacing',
         Sole' \subseteq (Sole \ Replaced(chainReq[sl])) \cup {c}
  PROVE  SoleBound'
  <1>1. SUFFICES ASSUME NEW Q \in SUBSET Replacing'
                 PROVE  Cardinality(Left(Q)') + Cardinality(Q) <= load
        BY DEF SoleBound
  <1> DEFINE R == Q \cup {sl}
  <1>2. /\ Q \in SUBSET Slot /\ sl \notin Q /\ R \in SUBSET Slot
        /\ R \in SUBSET Replacing
        BY DEF Replacing
  <1>3. Left(Q)' \subseteq Left(R) \cup {c}
        BY <1>2 DEF Left
  <1> HIDE DEF R
  <1>4. Cardinality(Left(R)) + Cardinality(R) <= load
        BY <1>2 DEF SoleBound
  <1>5. Cardinality(R) = Cardinality(Q) + 1
        BY <1>2, ChainsFinite, FS_AddElement DEF R
  <1>6. Left(R) \in SUBSET Chain
        BY DEF Left, Sole, Chains!Made
  <1>7. /\ IsFiniteSet(Left(R) \cup {c})
        /\ Cardinality(Left(R) \cup {c}) <= Cardinality(Left(R)) + 1
        <2>1. IsFiniteSet(Left(R)) /\ Cardinality(Left(R)) \in Nat
              BY <1>6, ChainsFinite
        <2>2. /\ IsFiniteSet(Left(R) \cup {c})
              /\ Cardinality(Left(R) \cup {c}) =
                   IF c \in Left(R) THEN Cardinality(Left(R)) ELSE Cardinality(Left(R)) + 1
              BY <2>1, FS_AddElement
        <2> QED BY <2>1, <2>2
  <1>8. /\ IsFiniteSet(Left(Q)')
        /\ Cardinality(Left(Q)') <= Cardinality(Left(R) \cup {c})
        BY <1>3, <1>7, FS_Subset
  <1>9. load \in Nat
        BY TemplatesAssumption DEF ChainRows
  <1> QED BY <1>2, <1>4, <1>5, <1>6, <1>7, <1>8, <1>9, ChainsFinite, FS_CardinalityType

LEMMA SoleKept ==
  ASSUME ChainsInv, Chains!Next
  PROVE  SoleBound'
  <1>1. ChainRows /\ SoleBound /\ ChainBusyBound'
        BY ChainBusyKept DEF ChainsInv
  <1>2. PICK sl \in Slot : \/ Chains!ReadLatest(sl) \/ Chains!Deactivate(sl) \/ Chains!Insert(sl)
                           \/ Chains!ReadForActivate(sl) \/ Chains!Activate(sl)
        BY DEF Chains!Next
  <1>3. /\ load' = load
        /\ DOMAIN chainReq = Slot
        /\ \A s \in Slot \ {sl} : chainReq'[s] = chainReq[s]
        BY <1>1, <1>2
           DEF ChainRows, Chains!ReadLatest, Chains!Deactivate, Chains!Insert,
               Chains!ReadForActivate, Chains!Activate, Chains!Enter, Chains!Proceed
  <1>4. CASE Chains!ReadLatest(sl)
        <2>1. Sole' = Sole
              BY <1>4 DEF Chains!ReadLatest, Chains!Enter, Chains!Proceed, Sole,
                          Chains!Made
        <2>2. sl \notin Replacing'
              BY <1>3, <1>4 DEF Chains!ReadLatest, Chains!Enter, Chains!Proceed,
                                Replacing
        <2> QED BY <1>1, <1>3, <2>1, <2>2, NoNewSole
  <1>5. CASE Chains!Deactivate(sl)
        <2>1. Sole' = Sole
              BY <1>5 DEF Chains!Deactivate, Chains!Proceed, Sole, Chains!Made
        <2>2. chainReq'[sl].op = "insert" /\ chainReq'[sl].activate = chainReq[sl].activate
              BY <1>3, <1>5 DEF Chains!Deactivate, Chains!Proceed
        <2>3. CASE chainReq[sl].activate
              <3>1. chainReq'[sl].off = {c \in Chains!Made : chain[c].active}
                    BY <1>3, <1>5, <2>3 DEF Chains!Deactivate, Chains!Proceed
              <3>2. sl \in Replacing' /\ Sole \subseteq Replaced(chainReq'[sl])
                    BY <2>2, <2>3, <3>1 DEF Replacing, Replaced, Sole
              <3> QED BY <1>1, <1>3, <2>1, <3>2, ReplaceAll
        <2>4. CASE ~chainReq[sl].activate
              <3>1. sl \notin Replacing'
                    BY <2>2, <2>4 DEF Replacing
              <3> QED BY <1>1, <1>3, <2>1, <3>1, NoNewSole
        <2> QED BY <2>3, <2>4
  <1>6. CASE Chains!Insert(sl)
        <2>1. PICK c \in Chain \ Chains!Made :
                /\ Chains!Made' = Chains!Made \cup {c}
                /\ chain'[c] = NewChain(chainReq[sl])
                /\ \A d \in Chains!Made :
                     /\ chain'[d].active <=> chain[d].active /\ d \notin chainReq[sl].off
                     /\ chain'[d].alone = chain[d].alone
              BY <1>1, <1>6, InsertStep
        <2>2. sl \notin Replacing'
              BY <1>3, <1>6 DEF Chains!Insert, Chains!Idle, Replacing
        <2>3. chainReq[sl].op = "insert"
              BY <1>6 DEF Chains!Insert
        <2>4. CASE chainReq[sl].activate
              <3>1. sl \in Replacing /\ Replaced(chainReq[sl]) = chainReq[sl].off
                    BY <2>3, <2>4 DEF Replacing, Replaced
              <3>2. Sole' \subseteq (Sole \ Replaced(chainReq[sl])) \cup {c}
                    BY <2>1, <3>1 DEF Sole
              <3> QED BY <1>1, <1>3, <2>2, <3>1, <3>2, OneMoreSole
        <2>5. CASE ~chainReq[sl].activate
              <3>1. Sole' \subseteq Sole
                    BY <2>1, <2>5 DEF Sole, NewChain
              <3> QED BY <1>1, <1>3, <2>2, <3>1, NoNewSole
        <2> QED BY <2>4, <2>5
  <1>7. CASE Chains!ReadForActivate(sl)
        <2>1. Sole' = Sole
              BY <1>7 DEF Chains!ReadForActivate, Chains!Enter, Chains!Proceed, Sole,
                          Chains!Made
        <2>2. PICK c \in Chains!Made, others \in BOOLEAN :
                chainReq'[sl] = [op |-> "activate", chain |-> c, alone |-> others,
                                 off |-> IF others THEN Chains!Made \ {c} ELSE {}]
              BY <1>3, <1>7 DEF Chains!ReadForActivate, Chains!Enter, Chains!Proceed
        <2>3. CASE others
              <3>1. sl \in Replacing' /\ Sole \subseteq Replaced(chainReq'[sl])
                    BY <2>2, <2>3 DEF Replacing, Replaced, Sole
              <3> QED BY <1>1, <1>3, <2>1, <3>1, ReplaceAll
        <2>4. CASE ~others
              <3>1. sl \notin Replacing'
                    BY <2>2, <2>4 DEF Replacing
              <3> QED BY <1>1, <1>3, <2>1, <3>1, NoNewSole
        <2> QED BY <2>3, <2>4
  <1>8. CASE Chains!Activate(sl)
        <2> DEFINE q == chainReq[sl]
        <2>1. /\ Chains!Made' = Chains!Made
              /\ \A d \in Chains!Made : d # q.chain =>
                   /\ chain'[d].active <=> chain[d].active /\ d \notin q.off
                   /\ chain'[d].alone = chain[d].alone
              /\ chain'[q.chain].alone = q.alone
              BY <1>1, <1>8, ActivateStep
        <2>2. sl \notin Replacing'
              BY <1>3, <1>8 DEF Chains!Activate, Chains!Idle, Replacing
        <2>3. q.op = "activate"
              BY <1>8 DEF Chains!Activate
        <2>4. CASE q.alone
              <3>1. sl \in Replacing /\ Replaced(q) = q.off \cup {q.chain}
                    BY <2>3, <2>4 DEF Replacing, Replaced
              <3>2. Sole' \subseteq (Sole \ Replaced(q)) \cup {q.chain}
                    BY <2>1, <3>1 DEF Sole
              <3> QED BY <1>1, <1>3, <2>2, <3>1, <3>2, OneMoreSole
        <2>5. CASE ~q.alone
              <3>1. Sole' \subseteq Sole
                    BY <2>1, <2>5 DEF Sole
              <3> QED BY <1>1, <1>3, <2>2, <3>1, NoNewSole
        <2> QED BY <2>4, <2>5
  <1> QED BY <1>2, <1>4, <1>5, <1>6, <1>7, <1>8

LEMMA ChainsInit == Chains!Init => ChainsInv
  <1> SUFFICES ASSUME Chains!Init PROVE ChainsInv
      OBVIOUS
  <1>1. Chains!Made = {} /\ Chains!Busy = {} /\ load \in Nat /\ 0 <= load
        BY TemplatesAssumption DEF Chains!Init, Chains!Made, Chains!Busy
  <1>2. ChainRows
        BY DEF Chains!Init, ChainRows, ChainRequest
  <1>3. ChainBusyBound
        BY <1>1, FS_EmptySet DEF ChainBusyBound
  <1>4. \A sl \in Slot : ~Claims(sl) /\ sl \notin Replacing
        BY DEF Chains!Init, Claims, Replacing, Chains!Idle
  <1>5. {chain[c].version : c \in Chains!Made} = 1..0
        BY <1>1
  <1>6. Numbered(0)
        BY <1>4, <1>5 DEF Numbered
  <1>7. VersionsShared
        <2>1. \A v \in Nat : Holders(v) = {} /\ Claimants(v) = {}
              BY <1>1, <1>4 DEF Holders, Claimants
        <2> QED BY <1>1, <2>1, FS_EmptySet DEF VersionsShared
  <1>8. SoleBound
        <2>1. Replacing = {} /\ Sole = {}
              BY <1>1, <1>4 DEF Replacing, Sole
        <2>2. \A Q \in SUBSET Replacing : Q = {} /\ Left(Q) = {}
              BY <2>1 DEF Left
        <2> QED BY <1>1, <2>2, FS_EmptySet DEF SoleBound
  <1> QED BY <1>2, <1>3, <1>6, <1>7, <1>8 DEF ChainsInv

LEMMA ChainsNext == ChainsInv /\ [Chains!Next]_Chains!vars => ChainsInv'
  <1> SUFFICES ASSUME ChainsInv, [Chains!Next]_Chains!vars PROVE ChainsInv'
      OBVIOUS
  <1>1. CASE Chains!Next
        <2>1. \E n \in Nat : Numbered(n)'
              BY <1>1, NumberedKept
        <2> QED BY <1>1, <2>1, ChainRowsKept, ChainBusyKept, SharedKept, SoleKept
           DEF ChainsInv
  <1>2. CASE UNCHANGED Chains!vars
        BY <1>2 DEF Chains!vars, ChainsInv, ChainRows, ChainRequest, ChainBusyBound,
                    Chains!Busy, Chains!Made, Numbered,
                    Claims, VersionsShared, Holders, Claimants, SoleBound, Replacing, Left, Sole
  <1> QED BY <1>1, <1>2

LEMMA ChainsOrdered == ChainsInv => ChainsInOrder
  <1> SUFFICES ASSUME ChainsInv PROVE ChainsInOrder
      OBVIOUS
  <1>1. ChainRows /\ VersionsShared /\ SoleBound
        BY DEF ChainsInv
  <1>2. PICK n \in Nat : Numbered(n)
        BY DEF ChainsInv
  <1>3. {chain[c].version : c \in Chains!Made} = 1..n
        BY <1>2 DEF Numbered
  <1>4. \A c \in Chains!Made : \A v \in 1..chain[c].version : \E d \in Chains!Made : chain[d].version = v
        <2>1. SUFFICES ASSUME NEW c \in Chains!Made, NEW v \in 1..chain[c].version
                       PROVE  v \in 1..n
              BY <1>3
        <2>2. chain[c].version \in 1..n
              BY <1>3
        <2> QED BY <2>2
  <1>5. \A v \in {chain[c].version : c \in Chains!Made} :
          Cardinality({c \in Chains!Made : chain[c].version = v}) <= load
        <2>1. SUFFICES ASSUME NEW v \in 1..n
                       PROVE  Cardinality(Holders(v)) <= load
              BY <1>3 DEF Holders
        <2>2. Cardinality(Holders(v)) + Cardinality(Claimants(v)) <= load
              BY <1>1 DEF VersionsShared
        <2>3. Holders(v) \in SUBSET Chain /\ Claimants(v) \in SUBSET Slot /\ load \in Nat
              BY <1>1, TemplatesAssumption DEF Holders, Claimants, Chains!Made,
                                               ChainRows
        <2> QED BY <2>2, <2>3, ChainsFinite
  <1>6. Cardinality({c \in Chains!Made : chain[c].active /\ chain[c].alone}) <= load
        <2>1. {} \in SUBSET Replacing /\ Left({}) = Sole
              BY DEF Left
        <2>2. Cardinality(Sole) + Cardinality({}) <= load
              BY <1>1, <2>1 DEF SoleBound
        <2>3. Sole \in SUBSET Chain /\ load \in Nat
              BY <1>1, TemplatesAssumption DEF Sole, Chains!Made, ChainRows
        <2> QED BY <2>2, <2>3, ChainsFinite, FS_EmptySet DEF Sole
  <1> QED BY <1>4, <1>5, <1>6, ChainsCount DEF ChainsInOrder, Chains!ChainsInOrder

(* However requests overlap, versions have no gaps; and as many chains      *)
(* share one, or are active in place of all others, as requests overlap.   *)
THEOREM ChainsKeepOrder == Chains!Spec => []ChainsInOrder
  <1>1. Chains!Spec => []ChainsInv
        BY ChainsInit, ChainsNext, PTL DEF Chains!Spec
  <1> QED BY <1>1, ChainsOrdered, PTL

----------------------------------------------------------------------------
(* Asynchronous jobs                                                       *)

(* Cardinality, as Jobs sees it through its instance.  *)
LEMMA JobsCount == \A S : Jobs!Cardinality(S) = Cardinality(S)
  BY DEF Jobs!Cardinality, Cardinality

JobTyped ==
  [status : {"QUEUED", "PROCESSING", "COMPLETED", "FAILED"}, attempts : Nat, done : Nat,
   forced : Nat, undone : Nat]
JobStarts == [op : {"start"}, job : Job, forced : BOOLEAN]
JobWorks == [op : {"work"}, job : Job]
JobAudits == [op : {"audit"}, job : Job]

JobRequest(q) ==
  \/ q = Jobs!Idle
  \/ q \in JobStarts \cup JobWorks \cup JobAudits /\ q.job \in Jobs!Made

JobRows ==
  /\ load \in 1..MaxLoad /\ restarts \in Nat
  /\ job \in [Job -> JobTyped \cup {Jobs!Unmade}]
  /\ DOMAIN jobReq = Slot
  /\ \A sl \in Slot : JobRequest(jobReq[sl])

JobBusyBound == Cardinality(Jobs!Busy) <= load

(* The jobs that say PROCESSING though nobody works at them                *)
Stranded == {j \in Jobs!Made : job[j].status = "PROCESSING" /\ ~Jobs!BeingRun(j)}

StrandedBound == IsFiniteSet(Stranded) /\ Cardinality(Stranded) <= restarts * load

(* Requests one at a time: a request finds its job as it read or left it,   *)
(* and only a job that is COMPLETED was completed once more than it was    *)
(* forced and taken back.                                                  *)
JobCurrent(q) ==
  /\ q.op = "start" => (q.forced <=> job[q.job].status \notin Jobs!Runnable)
  /\ q.op = "work" => job[q.job].status = "PROCESSING"
  /\ q.op = "audit" => job[q.job].status = "COMPLETED"

CompletedOnce(row) ==
  row.done <= row.forced + row.undone + (IF row.status = "COMPLETED" THEN 1 ELSE 0)

JobsSerial ==
  load = 1 => /\ \A sl \in Slot : JobCurrent(jobReq[sl])
              /\ \A j \in Jobs!Made : CompletedOnce(job[j])

JobsInv == JobRows /\ JobBusyBound /\ StrandedBound /\ JobsSerial

LEMMA JobsFinite ==
  /\ IsFiniteSet(Slot)
  /\ \A S \in SUBSET Slot : IsFiniteSet(S) /\ Cardinality(S) \in Nat
  /\ \A S \in SUBSET Slot : \A T \in SUBSET S : Cardinality(T) <= Cardinality(S)
  BY TemplatesAssumption, FS_Subset, FS_CardinalityType

LEMMA JobRowMade ==
  ASSUME JobRows, NEW j \in Jobs!Made
  PROVE  j \in Job /\ job[j] \in JobTyped
  BY DEF JobRows, Jobs!Made

LEMMA JobTypedMade ==
  ASSUME NEW row \in JobTyped
  PROVE  row # Jobs!Unmade
  <1>1. row.status # "none"
        BY DEF JobTyped
  <1> QED BY <1>1 DEF Jobs!Unmade

(* What the steps of a request do to its job; the others stay as they are.  *)
LEMMA StartStep ==
  ASSUME JobRows, NEW sl \in Slot, Jobs!StartJob(sl)
  PROVE  LET q == jobReq[sl] IN
           /\ q \in JobStarts /\ q.job \in Jobs!Made
           /\ DOMAIN job' = Job /\ Jobs!Made' = Jobs!Made
           /\ \A j \in Job \ {q.job} : job'[j] = job[j]
           /\ job'[q.job] \in JobTyped /\ job'[q.job].status = "PROCESSING"
           /\ job'[q.job].done = job[q.job].done /\ job'[q.job].undone = job[q.job].undone
           /\ job'[q.job].forced = IF q.forced THEN job[q.job].forced + 1 ELSE job[q.job].forced
  <1> DEFINE q == jobReq[sl]
  <1> HIDE DEF q
  <1>1. q \in JobStarts /\ q.job \in Jobs!Made
        BY DEF q, JobRows, JobRequest, Jobs!StartJob, Jobs!Idle, JobWorks, JobAudits
  <1> DEFINE old == job[q.job]
  <1>2. q.job \in Job /\ old \in JobTyped
        BY <1>1, JobRowMade
  <1>3. job' = [job EXCEPT ![q.job] =
                 [old EXCEPT !.status = "PROCESSING", !.attempts = old.attempts + 1,
                             !.forced = IF q.forced THEN old.forced + 1 ELSE old.forced]]
        BY <1>2 DEF q, Jobs!StartJob, JobRows
  <1> HIDE DEF old
  <1>4. PICK row : row = [old EXCEPT !.status = "PROCESSING", !.attempts = old.attempts + 1,
                                     !.forced = IF q.forced THEN old.forced + 1 ELSE old.forced]
        OBVIOUS
  <1>5. /\ row \in JobTyped /\ row.status = "PROCESSING"
        /\ row.done = old.done /\ row.undone = old.undone
        /\ row.forced = IF q.forced THEN old.forced + 1 ELSE old.forced
        <2>1. PICK n : n = IF q.forced THEN old.forced + 1 ELSE old.forced
              OBVIOUS
        <2>2. old.attempts + 1 \in Nat /\ n \in Nat
              BY <1>2, <2>1 DEF JobTyped
        <2>3. row = [old EXCEPT !.status = "PROCESSING", !.attempts = old.attempts + 1,
                                !.forced = n]
              BY <1>4, <2>1
        <2>4. row = [status |-> "PROCESSING", attempts |-> old.attempts + 1,
                     done |-> old.done, forced |-> n, undone |-> old.undone]
              BY <1>2, <2>3 DEF JobTyped
        <2>5. old.done \in Nat /\ old.undone \in Nat
              BY <1>2 DEF JobTyped
        <2> QED BY <2>1, <2>2, <2>4, <2>5 DEF JobTyped
  <1>6. DOMAIN job = Job
        BY DEF JobRows
  <1>7. /\ DOMAIN job' = Job /\ job'[q.job] = row
        /\ \A j \in Job \ {q.job} : job'[j] = job[j]
        BY <1>2, <1>3, <1>4, <1>6
  <1>8. row # Jobs!Unmade
        BY <1>5, JobTypedMade
  <1>9. Jobs!Made' = Jobs!Made
        BY <1>1, <1>7, <1>8 DEF Jobs!Made
  <1> QED BY <1>1, <1>5, <1>7, <1>9 DEF q, old

LEMMA CompleteStep ==
  ASSUME JobRows, NEW sl \in Slot, Jobs!CompleteJob(sl)
  PROVE  LET q == jobReq[sl] IN
           /\ q \in JobWorks /\ q.job \in Jobs!Made
           /\ DOMAIN job' = Job /\ Jobs!Made' = Jobs!Made
           /\ \A j \in Job \ {q.job} : job'[j] = job[j]
           /\ job'[q.job] \in JobTyped /\ job'[q.job].status = "COMPLETED"
           /\ job'[q.job].done = job[q.job].done + 1
           /\ job'[q.job].forced = job[q.job].forced /\ job'[q.job].undone = job[q.job].undone
  <1> DEFINE q == jobReq[sl]
  <1> HIDE DEF q
  <1>1. q \in JobWorks /\ q.job \in Jobs!Made
        BY DEF q, JobRows, JobRequest, Jobs!CompleteJob, Jobs!Idle, JobStarts, JobAudits
  <1> DEFINE old == job[q.job]
  <1>2. q.job \in Job /\ old \in JobTyped
        BY <1>1, JobRowMade
  <1>3. job' = [job EXCEPT ![q.job] = [old EXCEPT !.status = "COMPLETED", !.done = old.done + 1]]
        BY <1>2 DEF q, Jobs!CompleteJob, JobRows
  <1> HIDE DEF old
  <1>4. PICK row : row = [old EXCEPT !.status = "COMPLETED", !.done = old.done + 1]
        OBVIOUS
  <1>5. /\ row \in JobTyped /\ row.status = "COMPLETED" /\ row.done = old.done + 1
        /\ row.forced = old.forced /\ row.undone = old.undone
        <2>1. /\ old.done \in Nat /\ old.done + 1 \in Nat /\ old.attempts \in Nat
              /\ old.forced \in Nat /\ old.undone \in Nat
              BY <1>2 DEF JobTyped
        <2>2. row = [status |-> "COMPLETED", attempts |-> old.attempts,
                     done |-> old.done + 1, forced |-> old.forced, undone |-> old.undone]
              BY <1>2, <1>4 DEF JobTyped
        <2> QED BY <2>1, <2>2 DEF JobTyped
  <1>6. DOMAIN job = Job
        BY DEF JobRows
  <1>7. /\ DOMAIN job' = Job /\ job'[q.job] = row
        /\ \A j \in Job \ {q.job} : job'[j] = job[j]
        BY <1>2, <1>3, <1>4, <1>6
  <1>8. row # Jobs!Unmade
        BY <1>5, JobTypedMade
  <1>9. Jobs!Made' = Jobs!Made
        BY <1>1, <1>7, <1>8 DEF Jobs!Made
  <1> QED BY <1>1, <1>5, <1>7, <1>9 DEF q, old

LEMMA FailStep ==
  ASSUME JobRows, NEW sl \in Slot, Jobs!FailJob(sl)
  PROVE  LET q == jobReq[sl] IN
           /\ q \in JobWorks \cup JobAudits /\ q.job \in Jobs!Made
           /\ DOMAIN job' = Job /\ Jobs!Made' = Jobs!Made
           /\ \A j \in Job \ {q.job} : job'[j] = job[j]
           /\ job'[q.job] \in JobTyped /\ job'[q.job].status = "FAILED"
           /\ job'[q.job].done = job[q.job].done /\ job'[q.job].forced = job[q.job].forced
           /\ job'[q.job].undone
                = IF q.op = "audit" THEN job[q.job].undone + 1 ELSE job[q.job].undone
  <1> DEFINE q == jobReq[sl]
  <1> HIDE DEF q
  <1>1. q \in JobWorks \cup JobAudits /\ q.job \in Jobs!Made
        BY DEF q, JobRows, JobRequest, Jobs!FailJob, Jobs!Idle, JobStarts
  <1> DEFINE old == job[q.job]
  <1>2. q.job \in Job /\ old \in JobTyped
        BY <1>1, JobRowMade
  <1>3. job' = [job EXCEPT ![q.job] =
                 [old EXCEPT !.status = "FAILED",
                             !.undone = IF q.op = "audit" THEN old.undone + 1 ELSE old.undone]]
        BY <1>2 DEF q, Jobs!FailJob, JobRows
  <1> HIDE DEF old
  <1>4. PICK n : n = IF q.op = "audit" THEN old.undone + 1 ELSE old.undone
        OBVIOUS
  <1>5. PICK row : row = [old EXCEPT !.status = "FAILED", !.undone = n]
        OBVIOUS
  <1>6. /\ row \in JobTyped /\ row.status = "FAILED" /\ row.done = old.done
        /\ row.forced = old.forced /\ row.undone = n
        <2>1. /\ old.done \in Nat /\ old.attempts \in Nat /\ old.forced \in Nat /\ n \in Nat
              BY <1>2, <1>4 DEF JobTyped
        <2>2. row = [status |-> "FAILED", attempts |-> old.attempts,
                     done |-> old.done, forced |-> old.forced, undone |-> n]
              BY <1>2, <1>5 DEF JobTyped
        <2> QED BY <2>1, <2>2 DEF JobTyped
  <1>7. DOMAIN job = Job
        BY DEF JobRows
  <1>8. /\ DOMAIN job' = Job /\ job'[q.job] = row
        /\ \A j \in Job \ {q.job} : job'[j] = job[j]
        BY <1>2, <1>3, <1>4, <1>5, <1>7
  <1>9. row # Jobs!Unmade
        BY <1>6, JobTypedMade
  <1>10. Jobs!Made' = Jobs!Made
        BY <1>1, <1>8, <1>9 DEF Jobs!Made
  <1> QED BY <1>1, <1>4, <1>6, <1>8, <1>10 DEF q, old

LEMMA CreateStep ==
  ASSUME JobRows, Jobs!CreateJob
  PROVE  \E j \in Job \ Jobs!Made :
           /\ DOMAIN job' = Job /\ Jobs!Made' = Jobs!Made \cup {j}
           /\ \A k \in Job \ {j} : job'[k] = job[k]
           /\ job'[j] = [status |-> "QUEUED", attempts |-> 0, done |-> 0, forced |-> 0, undone |-> 0]
           /\ job'[j] \in JobTyped
  <1>1. PICK j \in Job \ Jobs!Made :
          job' = [job EXCEPT ![j] =
            [status |-> "QUEUED", attempts |-> 0, done |-> 0, forced |-> 0, undone |-> 0]]
        BY DEF Jobs!CreateJob
  <1>2. DOMAIN job = Job
        BY DEF JobRows
  <1>3. /\ DOMAIN job' = Job /\ \A k \in Job \ {j} : job'[k] = job[k]
        /\ job'[j] = [status |-> "QUEUED", attempts |-> 0, done |-> 0, forced |-> 0, undone |-> 0]
        BY <1>1, <1>2
  <1>4. job'[j] \in JobTyped
        BY <1>3 DEF JobTyped
  <1>5. job'[j] # Jobs!Unmade
        BY <1>4, JobTypedMade
  <1>6. Jobs!Made' = Jobs!Made \cup {j}
        BY <1>3, <1>5 DEF Jobs!Made
  <1> QED BY <1>3, <1>4, <1>6

LEMMA JobFrame ==
  ASSUME JobRows, Jobs!Next
  PROVE  /\ load' = load /\ load \in Nat /\ 1 <= load
         /\ restarts \in Nat /\ restarts' \in Nat
         /\ ~Jobs!ProcessRestart => restarts' = restarts
  <1>1. load' = load /\ restarts' \in {restarts, restarts + 1}
        <2>1. CASE Jobs!CreateJob
              BY <2>1 DEF Jobs!CreateJob
        <2>2. ASSUME NEW sl \in Slot, Jobs!ReadJob(sl)
              PROVE  load' = load /\ restarts' = restarts
              BY <2>2 DEF Jobs!ReadJob
        <2>3. ASSUME NEW sl \in Slot, Jobs!StartJob(sl)
              PROVE  load' = load /\ restarts' = restarts
              BY <2>3 DEF Jobs!StartJob
        <2>4. ASSUME NEW sl \in Slot,
                     Jobs!CompleteJob(sl) \/ Jobs!AuditJob(sl) \/ Jobs!FailJob(sl)
              PROVE  load' = load /\ restarts' = restarts
              BY <2>4 DEF Jobs!CompleteJob, Jobs!AuditJob, Jobs!FailJob
        <2>5. CASE Jobs!ProcessRestart
              BY <2>5 DEF Jobs!ProcessRestart
        <2> QED BY <2>1, <2>2, <2>3, <2>4, <2>5 DEF Jobs!Next
  <1>2. ~Jobs!ProcessRestart => restarts' = restarts
        <2>1. CASE Jobs!CreateJob
              BY <2>1 DEF Jobs!CreateJob
        <2>2. ASSUME NEW sl \in Slot, Jobs!ReadJob(sl)
              PROVE  restarts' = restarts
              BY <2>2 DEF Jobs!ReadJob
        <2>3. ASSUME NEW sl \in Slot, Jobs!StartJob(sl)
              PROVE  restarts' = restarts
              BY <2>3 DEF Jobs!StartJob
        <2>4. ASSUME NEW sl \in Slot,
                     Jobs!CompleteJob(sl) \/ Jobs!AuditJob(sl) \/ Jobs!FailJob(sl)
              PROVE  restarts' = restarts
              BY <2>4 DEF Jobs!CompleteJob, Jobs!AuditJob, Jobs!FailJob
        <2> QED BY <2>1, <2>2, <2>3, <2>4 DEF Jobs!Next
  <1>3. load \in 1..MaxLoad /\ restarts \in Nat
        BY DEF JobRows
  <1> QED BY <1>1, <1>2, <1>3, TemplatesAssumption

LEMMA JobRowsKept ==
  ASSUME JobsInv, Jobs!Next
  PROVE  JobRows'
  <1>1. JobRows
        BY DEF JobsInv
  <1>2. load' = load /\ restarts' \in Nat /\ load \in 1..MaxLoad
        BY <1>1, JobFrame DEF JobRows
  <1>3. \A sl \in Slot : JobRequest(jobReq[sl])
        BY <1>1 DEF JobRows
  <1>4. CASE Jobs!CreateJob
        <2>1. PICK j \in Job \ Jobs!Made :
                /\ DOMAIN job' = Job /\ Jobs!Made' = Jobs!Made \cup {j}
                /\ \A k \in Job \ {j} : job'[k] = job[k]
                /\ job'[j] \in JobTyped
              BY <1>1, <1>4, CreateStep
        <2>2. jobReq' = jobReq
              BY <1>4 DEF Jobs!CreateJob
        <2>3. \A k \in Job : job'[k] \in JobTyped \cup {Jobs!Unmade}
              BY <1>1, <2>1 DEF JobRows
        <2>4. job' \in [Job -> JobTyped \cup {Jobs!Unmade}]
              BY <1>1, <1>4, <2>3 DEF Jobs!CreateJob, JobRows
        <2>5. \A sl \in Slot : JobRequest(jobReq[sl])'
              BY <1>3, <2>1, <2>2 DEF JobRequest
        <2> QED BY <1>1, <1>2, <2>2, <2>4, <2>5 DEF JobRows
  <1>5. ASSUME NEW sl \in Slot, Jobs!ReadJob(sl)
        PROVE  JobRows'
        <2>1. job' = job /\ Jobs!Made' = Jobs!Made
              BY <1>5 DEF Jobs!ReadJob, Jobs!Made
        <2>2. PICK j \in Jobs!Made, force \in BOOLEAN :
                jobReq' = [jobReq EXCEPT ![sl] =
                  [op |-> "start", job |-> j, forced |-> job[j].status \notin Jobs!Runnable]]
              BY <1>5 DEF Jobs!ReadJob
        <2>3. jobReq'[sl] \in JobStarts /\ jobReq'[sl].job \in Jobs!Made
              BY <1>1, <2>2 DEF JobStarts, JobRows, Jobs!Made
        <2>4. JobRequest(jobReq[sl])'
              BY <2>1, <2>3 DEF JobRequest
        <2>5. \A s \in Slot \ {sl} : JobRequest(jobReq[s])'
              BY <1>1, <1>3, <2>1, <2>2 DEF JobRequest, JobRows
        <2>6. DOMAIN jobReq' = Slot
              BY <1>1, <2>2 DEF JobRows
        <2> QED BY <1>1, <1>2, <2>1, <2>4, <2>5, <2>6 DEF JobRows
  <1>6. ASSUME NEW sl \in Slot, Jobs!StartJob(sl)
        PROVE  JobRows'
        <2>1. /\ jobReq[sl] \in JobStarts /\ jobReq[sl].job \in Jobs!Made
              /\ DOMAIN job' = Job /\ Jobs!Made' = Jobs!Made
              /\ \A j \in Job \ {jobReq[sl].job} : job'[j] = job[j]
              /\ job'[jobReq[sl].job] \in JobTyped
              BY <1>1, <1>6, StartStep
        <2>2. \A k \in Job : job'[k] \in JobTyped \cup {Jobs!Unmade}
              BY <1>1, <2>1 DEF JobRows
        <2>3. job' \in [Job -> JobTyped \cup {Jobs!Unmade}]
              BY <1>1, <1>6, <2>2 DEF Jobs!StartJob, JobRows
        <2>4. jobReq' = [jobReq EXCEPT ![sl] = [op |-> "work", job |-> jobReq[sl].job]]
              BY <1>6 DEF Jobs!StartJob
        <2>5. jobReq'[sl] \in JobWorks /\ jobReq'[sl].job \in Jobs!Made
              BY <1>1, <2>1, <2>4 DEF JobWorks, JobRows, Jobs!Made
        <2>6. JobRequest(jobReq[sl])'
              BY <2>1, <2>5 DEF JobRequest
        <2>7. \A s \in Slot \ {sl} : JobRequest(jobReq[s])'
              BY <1>1, <1>3, <2>1, <2>4 DEF JobRequest, JobRows
        <2>8. DOMAIN jobReq' = Slot
              BY <1>1, <2>4 DEF JobRows
        <2> QED BY <1>1, <1>2, <2>3, <2>6, <2>7, <2>8 DEF JobRows
  <1>7. ASSUME NEW sl \in Slot, Jobs!CompleteJob(sl)
        PROVE  JobRows'
        <2>1. /\ jobReq[sl] \in JobWorks /\ jobReq[sl].job \in Jobs!Made
              /\ DOMAIN job' = Job /\ Jobs!Made' = Jobs!Made
              /\ \A j \in Job \ {jobReq[sl].job} : job'[j] = job[j]
              /\ job'[jobReq[sl].job] \in JobTyped
              BY <1>1, <1>7, CompleteStep
        <2>2. \A k \in Job : job'[k] \in JobTyped \cup {Jobs!Unmade}
              BY <1>1, <2>1 DEF JobRows
        <2>3. job' \in [Job -> JobTyped \cup {Jobs!Unmade}]
              BY <1>1, <1>7, <2>2 DEF Jobs!CompleteJob, JobRows
        <2>4. jobReq' = [jobReq EXCEPT ![sl] = [op |-> "audit", job |-> jobReq[sl].job]]
              BY <1>7 DEF Jobs!CompleteJob
        <2>5. jobReq'[sl] \in JobAudits /\ jobReq'[sl].job \in Jobs!Made
              BY <1>1, <2>1, <2>4 DEF JobAudits, JobRows, Jobs!Made
        <2>6. JobRequest(jobReq[sl])'
              BY <2>1, <2>5 DEF JobRequest
        <2>7. \A s \in Slot \ {sl} : JobRequest(jobReq[s])'
              BY <1>1, <1>3, <2>1, <2>4 DEF JobRequest, JobRows
        <2>8. DOMAIN jobReq' = Slot
              BY <1>1, <2>4 DEF JobRows
        <2> QED BY <1>1, <1>2, <2>3, <2>6, <2>7, <2>8 DEF JobRows
  <1>8. ASSUME NEW sl \in Slot, Jobs!AuditJob(sl)
        PROVE  JobRows'
        <2>1. /\ job' = job /\ Jobs!Made' = Jobs!Made
              /\ jobReq' = [jobReq EXCEPT ![sl] = Jobs!Idle]
              BY <1>8 DEF Jobs!AuditJob, Jobs!Made
        <2>2. \A s \in Slot : JobRequest(jobReq[s])'
              BY <1>1, <1>3, <2>1 DEF JobRequest, JobRows
        <2> QED BY <1>1, <1>2, <2>1, <2>2 DEF JobRows
  <1>9. ASSUME NEW sl \in Slot, Jobs!FailJob(sl)
        PROVE  JobRows'
        <2>1. /\ DOMAIN job' = Job /\ Jobs!Made' = Jobs!Made
              /\ \A j \in Job \ {jobReq[sl].job} : job'[j] = job[j]
              /\ job'[jobReq[sl].job] \in JobTyped
              BY <1>1, <1>9, FailStep
        <2>2. \A k \in Job : job'[k] \in JobTyped \cup {Jobs!Unmade}
              BY <1>1, <2>1 DEF JobRows
        <2>3. job' \in [Job -> JobTyped \cup {Jobs!Unmade}]
              BY <1>1, <1>9, <2>2 DEF Jobs!FailJob, JobRows
        <2>4. jobReq' = [jobReq EXCEPT ![sl] = Jobs!Idle]
              BY <1>9 DEF Jobs!FailJob
        <2>5. \A s \in Slot : JobRequest(jobReq[s])'
              BY <1>1, <1>3, <2>1, <2>4 DEF JobRequest, JobRows
        <2>6. DOMAIN jobReq' = Slot
              BY <1>1, <2>4 DEF JobRows
        <2> QED BY <1>1, <1>2, <2>3, <2>5, <2>6 DEF JobRows
  <1>10. CASE Jobs!ProcessRestart
        <2>1. job' = job /\ jobReq' = [sl \in Slot |-> Jobs!Idle]
              BY <1>10 DEF Jobs!ProcessRestart
        <2> QED BY <1>1, <1>2, <2>1 DEF JobRows, JobRequest
  <1> QED BY <1>4, <1>5, <1>6, <1>7, <1>8, <1>9, <1>10 DEF Jobs!Next

LEMMA JobBusyKept ==
  ASSUME JobsInv, Jobs!Next
  PROVE  JobBusyBound'
  <1>1. JobRows /\ JobBusyBound
        BY DEF JobsInv
  <1>2. load' = load /\ load \in Nat /\ 1 <= load
        BY <1>1, JobFrame
  <1>3. Jobs!Busy \in SUBSET Slot /\ Jobs!Busy' \in SUBSET Slot
        BY DEF Jobs!Busy
  <1>4. CASE Jobs!CreateJob
        BY <1>1, <1>2, <1>4 DEF Jobs!CreateJob, JobBusyBound, Jobs!Busy
  <1>5. ASSUME NEW sl \in Slot, Jobs!ReadJob(sl)
        PROVE  JobBusyBound'
        <2>1. /\ sl \notin Jobs!Busy /\ Cardinality(Jobs!Busy) < load
              /\ Jobs!Busy' \subseteq Jobs!Busy \cup {sl}
              BY <1>1, <1>5, JobsCount DEF Jobs!ReadJob, Jobs!Busy, JobRows
        <2>2. /\ Cardinality(Jobs!Busy \cup {sl}) = Cardinality(Jobs!Busy) + 1
              /\ Jobs!Busy \cup {sl} \in SUBSET Slot
              BY <1>3, <2>1, JobsFinite, FS_AddElement
        <2>3. Cardinality(Jobs!Busy') <= Cardinality(Jobs!Busy \cup {sl})
              BY <2>1, <2>2, JobsFinite
        <2> QED BY <1>2, <1>3, <2>1, <2>2, <2>3, JobsFinite DEF JobBusyBound
  <1>6. ASSUME NEW sl \in Slot,
               \/ Jobs!StartJob(sl) \/ Jobs!CompleteJob(sl)
               \/ Jobs!AuditJob(sl) \/ Jobs!FailJob(sl)
        PROVE  JobBusyBound'
        <2>1. sl \in Jobs!Busy /\ Jobs!Busy' \subseteq Jobs!Busy
              BY <1>1, <1>6 DEF Jobs!StartJob, Jobs!CompleteJob, Jobs!AuditJob,
                                Jobs!FailJob, Jobs!Busy, JobRows, Jobs!Idle
        <2>2. Cardinality(Jobs!Busy') <= Cardinality(Jobs!Busy)
              BY <1>3, <2>1, JobsFinite
        <2> QED BY <1>1, <1>2, <1>3, <2>2, JobsFinite DEF JobBusyBound
  <1>7. CASE Jobs!ProcessRestart
        <2>1. Jobs!Busy' = {}
              BY <1>7 DEF Jobs!ProcessRestart, Jobs!Busy
        <2> QED BY <1>2, <2>1, FS_EmptySet DEF JobBusyBound
  <1> QED BY <1>4, <1>5, <1>6, <1>7 DEF Jobs!Next

(* A restart strands no more jobs than it cuts requests off.               *)
LEMMA StrandedByRestart ==
  ASSUME JobRows, JobBusyBound, StrandedBound, Jobs!ProcessRestart
  PROVE  StrandedBound'
  <1> DEFINE W == {sl \in Slot : jobReq[sl].op = "work"}
             f == [sl \in W |-> jobReq[sl].job]
             T == {jobReq[sl].job : sl \in W}
  <1>1. load \in Nat /\ restarts \in Nat /\ load' = load /\ restarts' = restarts + 1
        BY TemplatesAssumption DEF JobRows, Jobs!ProcessRestart
  <1>2. W \in SUBSET Jobs!Busy /\ Jobs!Busy \in SUBSET Slot
        BY DEF Jobs!Busy, Jobs!Idle
  <1>3. IsFiniteSet(W) /\ Cardinality(W) <= load /\ Cardinality(W) \in Nat
        <2>1. W \in SUBSET Slot /\ Cardinality(W) <= Cardinality(Jobs!Busy)
              BY <1>2, JobsFinite
        <2>2. /\ Cardinality(W) \in Nat /\ Cardinality(Jobs!Busy) \in Nat /\ IsFiniteSet(W)
              /\ Cardinality(Jobs!Busy) <= load
              BY <1>2, <2>1, JobsFinite DEF JobBusyBound
        <2> QED BY <1>1, <2>1, <2>2
  <1>4. f \in Surjection(W, T)
        BY DEF Surjection
  <1> HIDE DEF f, T, W
  <1>5. IsFiniteSet(T) /\ Cardinality(T) <= Cardinality(W)
        BY <1>3, <1>4, FS_Surjection
  <1>6. Stranded' \subseteq Stranded \cup T
        <2>1. job' = job /\ Jobs!Made' = Jobs!Made
              BY DEF Jobs!ProcessRestart, Jobs!Made
        <2>2. ASSUME NEW j \in Stranded', j \notin Stranded
              PROVE  j \in T
              <3>1. Jobs!BeingRun(j)
                    BY <2>1, <2>2 DEF Stranded
              <3>2. PICK sl \in Slot : jobReq[sl].op = "work" /\ jobReq[sl].job = j
                    BY <3>1 DEF Jobs!BeingRun
              <3> QED BY <3>2 DEF T, W
        <2> QED BY <2>2
  <1>7. IsFiniteSet(Stranded) /\ Cardinality(Stranded) <= restarts * load
        BY DEF StrandedBound
  <1>8. /\ IsFiniteSet(Stranded \cup T)
        /\ Cardinality(Stranded \cup T) <= Cardinality(Stranded) + Cardinality(T)
        <2>1. /\ IsFiniteSet(Stranded \cup T) /\ IsFiniteSet(Stranded \cap T)
              /\ Cardinality(Stranded \cup T)
                   = Cardinality(Stranded) + Cardinality(T) - Cardinality(Stranded \cap T)
              BY <1>5, <1>7, FS_Union, FS_Subset
        <2> QED BY <1>5, <1>7, <2>1, FS_CardinalityType
  <1>9. IsFiniteSet(Stranded') /\ Cardinality(Stranded') <= Cardinality(Stranded \cup T)
        BY <1>6, <1>8, FS_Subset
  <1>10. /\ Cardinality(Stranded) \in Nat /\ Cardinality(T) \in Nat
         /\ Cardinality(Stranded \cup T) \in Nat /\ Cardinality(Stranded') \in Nat
        BY <1>5, <1>7, <1>8, <1>9, FS_CardinalityType
  <1>11. (restarts + 1) * load = restarts * load + load /\ restarts * load \in Nat
        BY <1>1
  <1>12. Cardinality(Stranded') <= restarts * load + load
        BY <1>1, <1>3, <1>5, <1>7, <1>8, <1>9, <1>10, <1>11
  <1> QED BY <1>1, <1>9, <1>11, <1>12 DEF StrandedBound

(* No other step strands a job.                                            *)
LEMMA StrandedKept ==
  ASSUME JobsInv, Jobs!Next
  PROVE  StrandedBound'
  <1>1. JobRows /\ JobBusyBound /\ StrandedBound
        BY DEF JobsInv
  <1>2. CASE Jobs!ProcessRestart
        BY <1>1, <1>2, StrandedByRestart
  <1>3. ASSUME ~Jobs!ProcessRestart, Stranded' \subseteq Stranded
        PROVE  StrandedBound'
        <2>1. load' = load /\ restarts' = restarts /\ load \in Nat /\ restarts \in Nat
              BY <1>1, <1>3, JobFrame
        <2>2. IsFiniteSet(Stranded) /\ Cardinality(Stranded) <= restarts * load
              BY <1>1 DEF StrandedBound
        <2>3. /\ IsFiniteSet(Stranded') /\ Cardinality(Stranded') <= Cardinality(Stranded)
              BY <1>3, <2>2, FS_Subset
        <2>4. /\ Cardinality(Stranded) \in Nat /\ Cardinality(Stranded') \in Nat
              /\ restarts * load \in Nat
              BY <2>1, <2>2, <2>3, FS_CardinalityType
        <2>5. Cardinality(Stranded') <= restarts * load
              BY <2>2, <2>3, <2>4
        <2>6. restarts' * load' = restarts * load
              BY <2>1
        <2> QED BY <2>3, <2>5, <2>6 DEF StrandedBound
  <1>4. ASSUME Jobs!CreateJob
        PROVE  Stranded' \subseteq Stranded
        <2>1. PICK j \in Job \ Jobs!Made :
                /\ Jobs!Made' = Jobs!Made \cup {j}
                /\ \A k \in Job \ {j} : job'[k] = job[k]
                /\ job'[j].status = "QUEUED"
              BY <1>1, <1>4, CreateStep
        <2>2. jobReq' = jobReq
              BY <1>4 DEF Jobs!CreateJob
        <2> QED BY <2>1, <2>2 DEF Stranded, Jobs!BeingRun, Jobs!Made
  <1>5. ASSUME NEW sl \in Slot, Jobs!ReadJob(sl)
        PROVE  Stranded' \subseteq Stranded
        <2>1. job' = job /\ Jobs!Made' = Jobs!Made
              BY <1>5 DEF Jobs!ReadJob, Jobs!Made
        <2>2. jobReq[sl].op = "idle" /\ \A s \in Slot \ {sl} : jobReq'[s] = jobReq[s]
              BY <1>1, <1>5 DEF Jobs!ReadJob, Jobs!Busy, Jobs!Idle, JobRows
        <2>3. \A j : Jobs!BeingRun(j) => Jobs!BeingRun(j)'
              BY <2>2 DEF Jobs!BeingRun
        <2> QED BY <2>1, <2>3 DEF Stranded
  <1>6. ASSUME NEW sl \in Slot, Jobs!StartJob(sl)
        PROVE  Stranded' \subseteq Stranded
        <2>1. /\ jobReq[sl].job \in Jobs!Made /\ Jobs!Made' = Jobs!Made
              /\ \A j \in Job \ {jobReq[sl].job} : job'[j] = job[j]
              BY <1>1, <1>6, StartStep
        <2>2. /\ jobReq[sl].op = "start"
              /\ jobReq' = [jobReq EXCEPT ![sl] = [op |-> "work", job |-> jobReq[sl].job]]
              BY <1>6 DEF Jobs!StartJob
        <2>3. jobReq'[sl].op = "work" /\ jobReq'[sl].job = jobReq[sl].job
              BY <1>1, <2>2 DEF JobRows
        <2>4. \A s \in Slot \ {sl} : jobReq'[s] = jobReq[s]
              BY <1>1, <2>2 DEF JobRows
        <2>6. \A j : Jobs!BeingRun(j) => Jobs!BeingRun(j)'
              BY <2>2, <2>4 DEF Jobs!BeingRun
        <2>7. Stranded' = {j \in Jobs!Made : job'[j].status = "PROCESSING" /\ ~Jobs!BeingRun(j)'}
              BY <2>1 DEF Stranded
        <2>8. Jobs!Made \subseteq Job
              BY DEF Jobs!Made
        <2>9. ASSUME NEW j \in Stranded'
              PROVE  j \in Stranded
              <3>1. /\ j \in Jobs!Made /\ j \in Job /\ job'[j].status = "PROCESSING"
                    /\ ~Jobs!BeingRun(j)'
                    BY <2>7, <2>8, <2>9
              <3>2. j # jobReq[sl].job
                    BY <2>3, <3>1 DEF Jobs!BeingRun
              <3>3. job'[j] = job[j] /\ ~Jobs!BeingRun(j)
                    BY <2>1, <2>6, <3>1, <3>2
              <3> QED BY <3>1, <3>3 DEF Stranded
        <2> QED BY <2>9
  <1>7. ASSUME NEW sl \in Slot, Jobs!CompleteJob(sl) \/ Jobs!FailJob(sl)
        PROVE  Stranded' \subseteq Stranded
        <2>1. /\ jobReq[sl].job \in Jobs!Made /\ Jobs!Made' = Jobs!Made
              /\ \A j \in Job \ {jobReq[sl].job} : job'[j] = job[j]
              /\ job'[jobReq[sl].job].status # "PROCESSING"
              BY <1>1, <1>7, CompleteStep, FailStep
        <2>2. \A s \in Slot \ {sl} : jobReq'[s] = jobReq[s]
              BY <1>1, <1>7 DEF Jobs!CompleteJob, Jobs!FailJob, JobRows
        <2>3. \A j : j # jobReq[sl].job /\ Jobs!BeingRun(j) => Jobs!BeingRun(j)'
              BY <2>2 DEF Jobs!BeingRun
        <2>4. Stranded' = {j \in Jobs!Made : job'[j].status = "PROCESSING" /\ ~Jobs!BeingRun(j)'}
              BY <2>1 DEF Stranded
        <2>5. Jobs!Made \subseteq Job
              BY DEF Jobs!Made
        <2>6. ASSUME NEW j \in Stranded'
              PROVE  j \in Stranded
              <3>1. /\ j \in Jobs!Made /\ j \in Job /\ job'[j].status = "PROCESSING"
                    /\ ~Jobs!BeingRun(j)'
                    BY <2>4, <2>5, <2>6
              <3>2. j # jobReq[sl].job
                    BY <2>1, <3>1
              <3>3. job'[j] = job[j] /\ ~Jobs!BeingRun(j)
                    BY <2>1, <2>3, <3>1, <3>2
              <3> QED BY <3>1, <3>3 DEF Stranded
        <2> QED BY <2>6
  <1>8. ASSUME NEW sl \in Slot, Jobs!AuditJob(sl)
        PROVE  Stranded' \subseteq Stranded
        <2>1. job' = job /\ Jobs!Made' = Jobs!Made
              BY <1>8 DEF Jobs!AuditJob, Jobs!Made
        <2>2. jobReq[sl].op = "audit" /\ \A s \in Slot \ {sl} : jobReq'[s] = jobReq[s]
              BY <1>1, <1>8 DEF Jobs!AuditJob, JobRows
        <2>3. \A j : Jobs!BeingRun(j) => Jobs!BeingRun(j)'
              BY <2>2 DEF Jobs!BeingRun
        <2> QED BY <2>1, <2>3 DEF Stranded
  <1>9. ~Jobs!ProcessRestart => Stranded' \subseteq Stranded
        BY <1>4, <1>5, <1>6, <1>7, <1>8 DEF Jobs!Next
  <1> QED BY <1>2, <1>3, <1>9

(* With one request at a time, who is at work is alone.                    *)
LEMMA JobsAlone ==
  ASSUME JobRows, JobBusyBound, load = 1, NEW sl \in Jobs!Busy, NEW s \in Slot \ {sl}
  PROVE  jobReq[s] = Jobs!Idle
  <1>1. SUFFICES ASSUME s \in Jobs!Busy
                 PROVE  FALSE
        BY DEF Jobs!Busy
  <1>2. Jobs!Busy \in SUBSET Slot /\ {sl} \in SUBSET Jobs!Busy
        BY DEF Jobs!Busy
  <1>3. IsFiniteSet(Jobs!Busy) /\ Cardinality(Jobs!Busy) \in Nat /\ Cardinality(Jobs!Busy) <= 1
        BY <1>2, JobsFinite DEF JobBusyBound
  <1>4. Cardinality({sl}) = 1 /\ Cardinality({sl}) <= Cardinality(Jobs!Busy)
        BY <1>2, <1>3, JobsFinite, FS_Singleton
  <1>5. Jobs!Busy = {sl}
        BY <1>2, <1>3, <1>4, FS_Subset
  <1> QED BY <1>1, <1>5

LEMMA SerialJobsKept ==
  ASSUME JobsInv, Jobs!Next
  PROVE  JobsSerial'
  <1>1. JobRows /\ JobBusyBound
        BY DEF JobsInv
  <1>2. load' = load
        BY <1>1, JobFrame
  <1>3. SUFFICES ASSUME load = 1
                 PROVE  /\ \A s \in Slot : JobCurrent(jobReq[s])'
                        /\ \A j \in Jobs!Made' : CompletedOnce(job'[j])
        BY <1>2 DEF JobsSerial
  <1>4. /\ \A s \in Slot : JobCurrent(jobReq[s])
        /\ \A j \in Jobs!Made : CompletedOnce(job[j])
        BY <1>3 DEF JobsInv, JobsSerial
  <1>5. CASE Jobs!CreateJob
        <2>1. PICK j \in Job \ Jobs!Made :
                /\ Jobs!Made' = Jobs!Made \cup {j}
                /\ \A k \in Job \ {j} : job'[k] = job[k]
                /\ job'[j] = [status |-> "QUEUED", attempts |-> 0, done |-> 0, forced |-> 0, undone |-> 0]
              BY <1>1, <1>5, CreateStep
        <2>2. CompletedOnce(job'[j])
              BY <2>1 DEF CompletedOnce
        <2>3. \A k \in Jobs!Made' : CompletedOnce(job'[k])
              BY <1>4, <2>1, <2>2 DEF Jobs!Made
        <2>4. ASSUME NEW s \in Slot
              PROVE  JobCurrent(jobReq[s])'
              <3>1. jobReq'[s] = jobReq[s]
                    BY <1>5 DEF Jobs!CreateJob
              <3>2. JobRequest(jobReq[s])
                    BY <1>1 DEF JobRows
              <3>3. jobReq[s].op \in {"start", "work", "audit"} => job'[jobReq[s].job] = job[jobReq[s].job]
                    BY <2>1, <3>2 DEF JobRequest, Jobs!Idle, Jobs!Made
              <3> QED BY <1>4, <3>1, <3>3 DEF JobCurrent
        <2> QED BY <2>3, <2>4
  <1>6. ASSUME NEW sl \in Slot, Jobs!ReadJob(sl)
        PROVE  /\ \A s \in Slot : JobCurrent(jobReq[s])'
               /\ \A j \in Jobs!Made' : CompletedOnce(job'[j])
        <2>1. job' = job /\ Jobs!Made' = Jobs!Made
              BY <1>6 DEF Jobs!ReadJob, Jobs!Made
        <2>2. PICK j \in Jobs!Made :
                jobReq' = [jobReq EXCEPT ![sl] =
                  [op |-> "start", job |-> j, forced |-> job[j].status \notin Jobs!Runnable]]
              BY <1>6 DEF Jobs!ReadJob
        <2>3. /\ jobReq'[sl] = [op |-> "start", job |-> j, forced |-> job[j].status \notin Jobs!Runnable]
              /\ \A s \in Slot \ {sl} : jobReq'[s] = jobReq[s]
              BY <1>1, <2>2 DEF JobRows
        <2>4. JobCurrent(jobReq[sl])'
              <3>1. jobReq'[sl].op = "start" /\ jobReq'[sl].job = j
                    BY <2>3
              <3>2. jobReq'[sl].forced = (job[j].status \notin Jobs!Runnable)
                    BY <2>3
              <3> QED BY <2>1, <3>1, <3>2 DEF JobCurrent
        <2> QED BY <1>4, <2>1, <2>3, <2>4 DEF JobCurrent
  <1>7. ASSUME NEW sl \in Slot, Jobs!StartJob(sl)
        PROVE  /\ \A s \in Slot : JobCurrent(jobReq[s])'
               /\ \A j \in Jobs!Made' : CompletedOnce(job'[j])
        <2> DEFINE q == jobReq[sl]
        <2>1. /\ q \in JobStarts /\ q.job \in Jobs!Made /\ Jobs!Made' = Jobs!Made
              /\ \A j \in Job \ {q.job} : job'[j] = job[j]
              /\ job'[q.job].status = "PROCESSING" /\ job'[q.job].done = job[q.job].done
              /\ job'[q.job].undone = job[q.job].undone
              /\ job'[q.job].forced = IF q.forced THEN job[q.job].forced + 1 ELSE job[q.job].forced
              BY <1>1, <1>7, StartStep
        <2>2. sl \in Jobs!Busy /\ q.op = "start"
              BY <1>7 DEF Jobs!StartJob, Jobs!Busy, Jobs!Idle
        <2>3. \A s \in Slot \ {sl} : jobReq'[s] = Jobs!Idle
              BY <1>1, <1>3, <1>7, <2>2, JobsAlone DEF Jobs!StartJob, JobRows
        <2>4. jobReq'[sl] = [op |-> "work", job |-> q.job]
              BY <1>1, <1>7 DEF Jobs!StartJob, JobRows
        <2>5. \A s \in Slot : JobCurrent(jobReq[s])'
              BY <2>1, <2>3, <2>4 DEF JobCurrent, Jobs!Idle
        <2>6. q.forced <=> job[q.job].status \notin Jobs!Runnable
              BY <1>4, <2>2 DEF JobCurrent
        <2>7. CompletedOnce(job[q.job]) /\ job[q.job] \in JobTyped
              BY <1>1, <1>4, <2>1, JobRowMade
        <2>8. CompletedOnce(job'[q.job])
              BY <2>1, <2>6, <2>7 DEF CompletedOnce, Jobs!Runnable, JobTyped
        <2> QED BY <1>4, <2>1, <2>5, <2>8 DEF Jobs!Made
  <1>8. ASSUME NEW sl \in Slot, Jobs!CompleteJob(sl)
        PROVE  /\ \A s \in Slot : JobCurrent(jobReq[s])'
               /\ \A j \in Jobs!Made' : CompletedOnce(job'[j])
        <2> DEFINE q == jobReq[sl]
        <2>1. /\ q.job \in Jobs!Made /\ Jobs!Made' = Jobs!Made
              /\ \A j \in Job \ {q.job} : job'[j] = job[j]
              /\ job'[q.job].status = "COMPLETED" /\ job'[q.job].done = job[q.job].done + 1
              /\ job'[q.job].forced = job[q.job].forced
              /\ job'[q.job].undone = job[q.job].undone
              BY <1>1, <1>8, CompleteStep
        <2>2. sl \in Jobs!Busy /\ q.op = "work"
              BY <1>8 DEF Jobs!CompleteJob, Jobs!Busy, Jobs!Idle
        <2>3. \A s \in Slot \ {sl} : jobReq'[s] = Jobs!Idle
              BY <1>1, <1>3, <1>8, <2>2, JobsAlone DEF Jobs!CompleteJob, JobRows
        <2>4. jobReq'[sl] = [op |-> "audit", job |-> q.job]
              BY <1>1, <1>8 DEF Jobs!CompleteJob, JobRows
        <2>5. \A s \in Slot : JobCurrent(jobReq[s])'
              BY <2>1, <2>3, <2>4 DEF JobCurrent, Jobs!Idle
        <2>6. job[q.job].status = "PROCESSING"
              BY <1>4, <2>2 DEF JobCurrent
        <2>7. CompletedOnce(job[q.job]) /\ job[q.job] \in JobTyped
              BY <1>1, <1>4, <2>1, JobRowMade
        <2>8. CompletedOnce(job'[q.job])
              BY <2>1, <2>6, <2>7 DEF CompletedOnce, JobTyped
        <2> QED BY <1>4, <2>1, <2>5, <2>8 DEF Jobs!Made
  <1>9. ASSUME NEW sl \in Slot, Jobs!AuditJob(sl)
        PROVE  /\ \A s \in Slot : JobCurrent(jobReq[s])'
               /\ \A j \in Jobs!Made' : CompletedOnce(job'[j])
        <2>1. job' = job /\ Jobs!Made' = Jobs!Made
              BY <1>9 DEF Jobs!AuditJob, Jobs!Made
        <2>2. /\ jobReq'[sl] = Jobs!Idle
              /\ \A s \in Slot \ {sl} : jobReq'[s] = jobReq[s]
              BY <1>1, <1>9 DEF Jobs!AuditJob, JobRows
        <2>3. \A s \in Slot : JobCurrent(jobReq[s])'
              BY <1>4, <2>1, <2>2 DEF JobCurrent, Jobs!Idle
        <2> QED BY <1>4, <2>1, <2>3
  <1>10. ASSUME NEW sl \in Slot, Jobs!FailJob(sl)
        PROVE  /\ \A s \in Slot : JobCurrent(jobReq[s])'
               /\ \A j \in Jobs!Made' : CompletedOnce(job'[j])
        <2> DEFINE q == jobReq[sl]
        <2>1. /\ q.job \in Jobs!Made /\ Jobs!Made' = Jobs!Made
              /\ \A j \in Job \ {q.job} : job'[j] = job[j]
              /\ job'[q.job].status = "FAILED" /\ job'[q.job].done = job[q.job].done
              /\ job'[q.job].forced = job[q.job].forced
              /\ job'[q.job].undone
                   = IF q.op = "audit" THEN job[q.job].undone + 1 ELSE job[q.job].undone
              BY <1>1, <1>10, FailStep
        <2>2. sl \in Jobs!Busy /\ q.op \in {"work", "audit"}
              BY <1>10 DEF Jobs!FailJob, Jobs!Busy, Jobs!Idle
        <2>3. \A s \in Slot : jobReq'[s] = Jobs!Idle
              BY <1>1, <1>3, <1>10, <2>2, JobsAlone DEF Jobs!FailJob, JobRows
        <2>4. \A s \in Slot : JobCurrent(jobReq[s])'
              BY <2>3 DEF JobCurrent, Jobs!Idle
        <2>5. q.op # "audit" => job[q.job].status = "PROCESSING"
              BY <1>4, <2>2 DEF JobCurrent
        <2>6. CompletedOnce(job[q.job]) /\ job[q.job] \in JobTyped
              BY <1>1, <1>4, <2>1, JobRowMade
        <2>7. CompletedOnce(job'[q.job])
              BY <2>1, <2>5, <2>6 DEF CompletedOnce, JobTyped
        <2> QED BY <1>4, <2>1, <2>4, <2>7 DEF Jobs!Made
  <1>11. CASE Jobs!ProcessRestart
        <2>1. job' = job /\ Jobs!Made' = Jobs!Made
              BY <1>11 DEF Jobs!ProcessRestart, Jobs!Made
        <2>2. \A s \in Slot : jobReq'[s] = Jobs!Idle
              BY <1>11 DEF Jobs!ProcessRestart
        <2>3. \A s \in Slot : JobCurrent(jobReq[s])'
              BY <2>2 DEF JobCurrent, Jobs!Idle
        <2> QED BY <1>4, <2>1, <2>3
  <1> QED BY <1>5, <1>6, <1>7, <1>8, <1>9, <1>10, <1>11 DEF Jobs!Next

LEMMA JobsInit == Jobs!Init => JobsInv
  <1> SUFFICES ASSUME Jobs!Init PROVE JobsInv
      OBVIOUS
  <1>1. Jobs!Made = {} /\ Jobs!Busy = {} /\ load \in Nat /\ 0 <= load /\ restarts = 0
        BY TemplatesAssumption DEF Jobs!Init, Jobs!Made, Jobs!Busy
  <1>2. JobRows
        BY DEF Jobs!Init, JobRows, JobRequest
  <1>3. JobBusyBound
        BY <1>1, FS_EmptySet DEF JobBusyBound
  <1>4. StrandedBound
        <2>1. Stranded = {} /\ 0 <= restarts * load
              BY <1>1 DEF Stranded
        <2> QED BY <2>1, FS_EmptySet DEF StrandedBound
  <1>5. JobsSerial
        BY <1>1 DEF JobsSerial, Jobs!Init, JobCurrent, Jobs!Idle
  <1> QED BY <1>2, <1>3, <1>4, <1>5 DEF JobsInv

LEMMA JobsNext == JobsInv /\ [Jobs!Next]_Jobs!vars => JobsInv'
  <1> SUFFICES ASSUME JobsInv, [Jobs!Next]_Jobs!vars PROVE JobsInv'
      OBVIOUS
  <1>1. CASE Jobs!Next
        BY <1>1, JobRowsKept, JobBusyKept, StrandedKept, SerialJobsKept DEF JobsInv
  <1>2. CASE UNCHANGED Jobs!vars
        BY <1>2 DEF Jobs!vars, JobsInv, JobRows, JobRequest, JobBusyBound, Jobs!Busy,
                    Jobs!Made, StrandedBound,
                    Stranded, Jobs!BeingRun, JobsSerial, JobCurrent
  <1> QED BY <1>1, <1>2

LEMMA JobsRunOnce == JobsInv => JobRunsOnce
  <1> SUFFICES ASSUME JobsInv PROVE JobRunsOnce
      OBVIOUS
  <1>1. Cardinality(Stranded) <= restarts * load
        BY DEF JobsInv, StrandedBound
  <1>2. load = 1 => \A j \in Jobs!Made : job[j].done <= 1 + job[j].forced + job[j].undone
        <2>1. SUFFICES ASSUME load = 1, NEW j \in Jobs!Made
                       PROVE  job[j].done <= 1 + job[j].forced + job[j].undone
              OBVIOUS
        <2>2. CompletedOnce(job[j]) /\ job[j] \in JobTyped
              BY <2>1, JobRowMade DEF JobsInv, JobsSerial
        <2> QED BY <2>2 DEF CompletedOnce, JobTyped
  <1> QED BY <1>1, <1>2, JobsCount DEF JobRunsOnce, Jobs!JobRunsOnce, Stranded

(* A restart alone leaves a job at PROCESSING with nobody at work at it,    *)
(* and no more jobs than it cut requests off; one request at a time, a job  *)
(* is completed once, and once more for each run of it that was forced and *)
(* each completion that the catch wrote FAILED over when the audit entry    *)
(* after it failed.                                                        *)
THEOREM JobsAreRunOnce == Jobs!Spec => []JobRunsOnce
  <1>1. Jobs!Spec => []JobsInv
        BY JobsInit, JobsNext, PTL DEF Jobs!Spec
  <1> QED BY <1>1, JobsRunOnce, PTL

----------------------------------------------------------------------------
(* Render batches and files                                                *)

(* Cardinality, as Files sees it through its instance.  *)
LEMMA FilesCount == \A S : Files!Cardinality(S) = Cardinality(S)
  BY DEF Files!Cardinality, Cardinality

BatchItems == [op : {"items"}, of : Batch, students : (SUBSET Member) \ {{}}]
BatchSettles == [op : {"settle"}, of : Batch, good : Nat, bad : Nat]
FileWrites == [op : {"write"}, of : Files!Row]
FileLinks == [op : {"link"}, of : Files!Row, file : File]
Purges == [op : {"unlink", "clearBatches", "clearJobs"}, rows : SUBSET Files!Row, files : SUBSET File]

(* Requests name rows that were made and files that were written.          *)
FileRequest(q) ==
  \/ q = Files!Idle
  \/ q \in BatchItems \cup BatchSettles /\ q.of \in Files!Made
  \/ q \in FileWrites
  \/ q \in FileLinks /\ q.file \in written
  \/ q \in Purges /\ q.files \subseteq written

BatchTyped ==
  [status : {"PROCESSING", "COMPLETED", "PARTIAL_FAILED", "FAILED"},
   total : Nat, good : Nat, bad : Nat]

FileRows ==
  /\ load \in 1..MaxLoad /\ restarts \in Nat
  /\ batch \in [Batch -> BatchTyped \cup {Files!Unmade}]
  /\ link \in [Files!Row -> written \cup {Files!NoFile}]
  /\ newest \in [Files!Row -> written \cup {Files!NoFile}]
  /\ disk \subseteq written /\ stuck \subseteq written /\ written \subseteq File
  /\ DOMAIN artifactReq = Slot
  /\ \A sl \in Slot : FileRequest(artifactReq[sl])

FileBusyBound == Cardinality(Files!Busy) <= load

(* A file about to be linked is there; it is nobody else's, no row links it, *)
(* and no purge has come across it.                                        *)
FreshLink(sl) ==
  LET q == artifactReq[sl] IN
    q.op = "link" =>
      /\ q.file \in disk
      /\ \A r \in Files!Row : link[r] # q.file
      /\ \A s \in Slot \ {sl} :
           /\ artifactReq[s].op = "link" => artifactReq[s].file # q.file
           /\ artifactReq[s].op = "unlink" => q.file \notin artifactReq[s].files

LinksFresh == \A sl \in Slot : FreshLink(sl)

(* No two rows link one file.                                              *)
LinksApart == \A r, t \in Files!Row : link[r] = link[t] /\ link[r] # Files!NoFile => r = t

(* The rows of the files a purge deletes are rows it clears.               *)
PurgesWhole ==
  \A sl \in Slot : artifactReq[sl].op = "unlink" =>
    \A r \in Files!Row : link[r] \in artifactReq[sl].files => r \in artifactReq[sl].rows

(* The purge has yet to clear the row.                                     *)
ToClear(sl, r) ==
  LET q == artifactReq[sl] IN
    \/ q.op \in {"unlink", "clearBatches"} /\ r \in q.rows
    \/ q.op = "clearJobs" /\ r \in q.rows \cap PrintJob

LinksHold ==
  restarts = 0 =>
    \A r \in Files!Row : link[r] # Files!NoFile => link[r] \in disk \/ \E sl \in Slot : ToClear(sl, r)

(* The files on the disk but those a purge passed over.                    *)
Loose == disk \ stuck

(* Requests one at a time, none cut off: the newest file is linked or about *)
(* to be, and a purge takes the files of the rows it clears, but for those *)
(* it could not delete.                                                    *)
Linking(r) ==
  \E sl \in Slot : /\ artifactReq[sl].op = "link" /\ artifactReq[sl].of = r
                   /\ artifactReq[sl].file = newest[r]

PurgeTakes(sl) ==
  \A r \in Files!Row : ToClear(sl, r) =>
    \/ link[r] \notin Loose
    \/ artifactReq[sl].op = "unlink" /\ link[r] \in artifactReq[sl].files

NewestLinked ==
  load = 1 /\ restarts = 0 =>
    /\ \A r \in Files!Row : newest[r] \in Loose => link[r] = newest[r] \/ Linking(r)
    /\ \A sl \in Slot : artifactReq[sl].op = "link" => artifactReq[sl].file = newest[artifactReq[sl].of]
    /\ \A sl \in Slot : PurgeTakes(sl)

(* The batches that say PROCESSING though nobody makes them.               *)
Abandoned == {b \in Files!Made : batch[b].status = "PROCESSING" /\ ~Files!BeingMade(b)}

AbandonedBound == IsFiniteSet(Abandoned) /\ Cardinality(Abandoned) <= restarts * load

(* Each batch is made by one request, which knows what it has done.        *)
Makes(sl) == artifactReq[sl].op \in {"items", "settle"}

Untouched(b) == \A s \in Member : item[<<b, s>>] = "none"

Counted(b, good, bad) ==
  /\ good = Cardinality(Files!Rendered(b)) /\ bad = Cardinality(Files!Failed(b))
  /\ batch[b].total = good + bad /\ batch[b].total # 0

InTheMaking(sl) ==
  LET q == artifactReq[sl] IN
    /\ Makes(sl) =>
         /\ batch[q.of].status = "PROCESSING"
         /\ \A s \in Slot \ {sl} : Makes(s) => artifactReq[s].of # q.of
    /\ q.op = "items" => Untouched(q.of) /\ batch[q.of].total = Cardinality(q.students)
    /\ q.op = "settle" => Counted(q.of, q.good, q.bad)

MadeRight(b) ==
  batch[b].status # "PROCESSING" =>
    /\ Counted(b, batch[b].good, batch[b].bad)
    /\ batch[b].status = Files!Settled(batch[b].good, batch[b].bad)

BatchesMade ==
  /\ \A b \in Batch \ Files!Made : Untouched(b)
  /\ \A sl \in Slot : InTheMaking(sl)
  /\ \A b \in Files!Made : MadeRight(b)

FilesInv ==
  /\ FileRows /\ FileBusyBound
  /\ LinksFresh /\ LinksApart /\ PurgesWhole /\ LinksHold /\ NewestLinked
  /\ AbandonedBound /\ BatchesMade

LEMMA FilesFinite ==
  /\ IsFiniteSet(Slot) /\ IsFiniteSet(Member)
  /\ \A S \in SUBSET Slot : IsFiniteSet(S) /\ Cardinality(S) \in Nat
  /\ \A S \in SUBSET Member : IsFiniteSet(S) /\ Cardinality(S) \in Nat
  /\ \A S \in SUBSET Slot : \A T \in SUBSET S : Cardinality(T) <= Cardinality(S)
  BY TemplatesAssumption, BackofficeAssumption, FS_Subset, FS_CardinalityType

LEMMA NoFileIsNoFile == Files!NoFile \notin File
  BY BackofficeAssumption DEF Files!NoFile

LEMMA BatchTypedMade ==
  ASSUME NEW row \in BatchTyped
  PROVE  row # Files!Unmade
  <1>1. row.status # "none"
        BY DEF BatchTyped
  <1> QED BY <1>1 DEF Files!Unmade

----------------------------------------------------------------------------
(* What each step does: the request that takes it, and what it writes.     *)

LEMMA GoesOn ==
  ASSUME FileRows, NEW sl \in Slot, NEW q, Files!GoOn(sl, q)
  PROVE  /\ DOMAIN artifactReq' = Slot /\ artifactReq'[sl] = q
         /\ \A s \in Slot \ {sl} : artifactReq'[s] = artifactReq[s]
  BY DEF FileRows, Files!GoOn

LEMMA Enters ==
  ASSUME FileRows, NEW sl \in Slot, NEW q, Files!Enter(sl, q)
  PROVE  /\ artifactReq[sl] = Files!Idle /\ Cardinality(Files!Busy) < load
         /\ DOMAIN artifactReq' = Slot /\ artifactReq'[sl] = q
         /\ \A s \in Slot \ {sl} : artifactReq'[s] = artifactReq[s]
  <1>1. artifactReq[sl] = Files!Idle /\ Cardinality(Files!Busy) < load /\ Files!GoOn(sl, q)
        BY FilesCount DEF Files!Enter, Files!Busy
  <1> QED BY <1>1, GoesOn

NewBatch(students) ==
  [status |-> "PROCESSING", total |-> Cardinality(students), good |-> 0, bad |-> 0]

LEMMA OpenStep ==
  ASSUME FileRows, NEW sl \in Slot, Files!OpenBatch(sl)
  PROVE  \E b \in Batch \ Files!Made, students \in (SUBSET Member) \ {{}} :
           /\ artifactReq[sl] = Files!Idle /\ Cardinality(Files!Busy) < load
           /\ artifactReq'[sl] = [op |-> "items", of |-> b, students |-> students]
           /\ batch' \in [Batch -> BatchTyped \cup {Files!Unmade}]
           /\ batch'[b] = NewBatch(students)
           /\ \A c \in Batch \ {b} : batch'[c] = batch[c]
           /\ Files!Made' = Files!Made \cup {b}
  <1>1. PICK b \in Batch \ Files!Made, students \in (SUBSET Member) \ {{}} :
          /\ Files!Enter(sl, [op |-> "items", of |-> b, students |-> students])
          /\ batch' = [batch EXCEPT ![b] = NewBatch(students)]
        BY FilesCount DEF Files!OpenBatch, NewBatch
  <1>2. Cardinality(students) \in Nat
        BY FilesFinite
  <1>3. NewBatch(students) \in BatchTyped
        BY <1>2 DEF NewBatch, BatchTyped
  <1>4. batch \in [Batch -> BatchTyped \cup {Files!Unmade}]
        BY DEF FileRows
  <1>5. /\ batch' \in [Batch -> BatchTyped \cup {Files!Unmade}]
        /\ batch'[b] = NewBatch(students) /\ \A c \in Batch \ {b} : batch'[c] = batch[c]
        BY <1>1, <1>3, <1>4
  <1>6. NewBatch(students) # Files!Unmade
        BY <1>3, BatchTypedMade
  <1>7. Files!Made' = Files!Made \cup {b}
        BY <1>5, <1>6 DEF Files!Made
  <1>8. /\ artifactReq[sl] = Files!Idle /\ Cardinality(Files!Busy) < load
        /\ artifactReq'[sl] = [op |-> "items", of |-> b, students |-> students]
        BY <1>1, Enters
  <1> QED BY <1>5, <1>7, <1>8

LEMMA ItemsStep ==
  ASSUME FileRows, NEW sl \in Slot, Files!WriteItems(sl)
  PROVE  LET q == artifactReq[sl] IN
           /\ q \in BatchItems /\ q.of \in Files!Made
           /\ \E valid \in SUBSET q.students :
                /\ artifactReq'[sl] = [op |-> "settle", of |-> q.of, good |-> Cardinality(valid),
                                       bad |-> Cardinality(q.students \ valid)]
                /\ \A s \in valid : item'[<<q.of, s>>] = "SUCCESS"
                /\ \A s \in q.students \ valid : item'[<<q.of, s>>] \in {"SKIPPED", "FAILED"}
                /\ \A s \in Member \ q.students : item'[<<q.of, s>>] = item[<<q.of, s>>]
           /\ \A b \in Batch \ {q.of} : \A s \in Member : item'[<<b, s>>] = item[<<b, s>>]
  <1> DEFINE q == artifactReq[sl]
  <1> HIDE DEF q
  <1>1. q \in BatchItems /\ q.of \in Files!Made /\ q.of \in Batch /\ q.students \subseteq Member
        BY DEF q, Files!WriteItems, FileRows, FileRequest, Files!Idle, BatchItems,
               BatchSettles, FileWrites,
               FileLinks, Purges
  <1>2. PICK valid \in SUBSET q.students, invalid \in {"SKIPPED", "FAILED"} :
          /\ item' = [bs \in Batch \X Member |->
               CASE bs[1] = q.of /\ bs[2] \in valid -> "SUCCESS"
                 [] bs[1] = q.of /\ bs[2] \in q.students \ valid -> invalid
                 [] OTHER -> item[bs]]
          /\ Files!GoOn(sl, [op |-> "settle", of |-> q.of, good |-> Cardinality(valid),
                       bad |-> Cardinality(q.students \ valid)])
        BY FilesCount DEF q, Files!WriteItems
  <1>3. artifactReq'[sl] = [op |-> "settle", of |-> q.of, good |-> Cardinality(valid),
                            bad |-> Cardinality(q.students \ valid)]
        BY <1>2, GoesOn
  <1>4. \A b \in Batch : \A s \in Member :
          item'[<<b, s>>] =
            CASE b = q.of /\ s \in valid -> "SUCCESS"
              [] b = q.of /\ s \in q.students \ valid -> invalid
              [] OTHER -> item[<<b, s>>]
        BY <1>2
  <1>5. \A s \in valid : item'[<<q.of, s>>] = "SUCCESS"
        BY <1>1, <1>4
  <1>6. \A s \in q.students \ valid : item'[<<q.of, s>>] \in {"SKIPPED", "FAILED"}
        BY <1>1, <1>4
  <1>7. \A s \in Member \ q.students : item'[<<q.of, s>>] = item[<<q.of, s>>]
        BY <1>1, <1>2, <1>4
  <1>8. \A b \in Batch \ {q.of} : \A s \in Member : item'[<<b, s>>] = item[<<b, s>>]
        BY <1>4
  <1> QED BY <1>1, <1>3, <1>5, <1>6, <1>7, <1>8 DEF q

LEMMA SettleStep ==
  ASSUME FileRows, NEW sl \in Slot, Files!SettleBatch(sl)
  PROVE  LET q == artifactReq[sl] IN
           /\ q \in BatchSettles /\ q.of \in Files!Made
           /\ artifactReq'[sl] = Files!Idle
           /\ batch' \in [Batch -> BatchTyped \cup {Files!Unmade}]
           /\ \A c \in Batch \ {q.of} : batch'[c] = batch[c]
           /\ batch'[q.of].status = Files!Settled(q.good, q.bad)
           /\ batch'[q.of].good = q.good /\ batch'[q.of].bad = q.bad
           /\ batch'[q.of].total = batch[q.of].total
           /\ Files!Made' = Files!Made
  <1> DEFINE q == artifactReq[sl]
  <1> HIDE DEF q
  <1>1. q \in BatchSettles /\ q.of \in Files!Made /\ q.of \in Batch
        BY DEF q, Files!SettleBatch, FileRows, FileRequest, Files!Idle, BatchItems,
               BatchSettles, FileWrites,
               FileLinks, Purges
  <1> DEFINE old == batch[q.of]
  <1>2. old \in BatchTyped
        BY <1>1 DEF FileRows, Files!Made
  <1>3. DOMAIN batch = Batch
        BY DEF FileRows
  <1>4. batch' = [batch EXCEPT ![q.of] =
          [old EXCEPT !.status = Files!Settled(q.good, q.bad), !.good = q.good, !.bad = q.bad]]
        BY <1>1, <1>3 DEF q, Files!SettleBatch
  <1> HIDE DEF old
  <1>5. PICK st : st = Files!Settled(q.good, q.bad)
        OBVIOUS
  <1>6. q.good \in Nat /\ q.bad \in Nat
        BY <1>1 DEF BatchSettles
  <1>7. st \in {"COMPLETED", "PARTIAL_FAILED", "FAILED"}
        BY <1>5, <1>6 DEF Files!Settled
  <1>8. PICK row : row = [old EXCEPT !.status = st, !.good = q.good, !.bad = q.bad]
        OBVIOUS
  <1>9. row = [status |-> st, total |-> old.total, good |-> q.good, bad |-> q.bad]
        BY <1>2, <1>8 DEF BatchTyped
  <1>10. old.total \in Nat
        BY <1>2 DEF BatchTyped
  <1>11. row \in BatchTyped
        BY <1>6, <1>7, <1>9, <1>10 DEF BatchTyped
  <1>12. batch' = [batch EXCEPT ![q.of] = row]
        BY <1>4, <1>5, <1>8
  <1>13. batch'[q.of] = row /\ \A c \in Batch \ {q.of} : batch'[c] = batch[c]
        BY <1>1, <1>3, <1>12
  <1>14. batch' \in [Batch -> BatchTyped \cup {Files!Unmade}]
        BY <1>11, <1>12 DEF FileRows
  <1>15. row # Files!Unmade /\ batch[q.of] # Files!Unmade
        BY <1>1, <1>11, BatchTypedMade DEF Files!Made
  <1>16. Files!Made' = Files!Made
        BY <1>1, <1>13, <1>15 DEF Files!Made
  <1>17. artifactReq'[sl] = Files!Idle
        BY GoesOn DEF Files!SettleBatch
  <1> QED BY <1>1, <1>5, <1>9, <1>13, <1>14, <1>16, <1>17 DEF q, old

LEMMA WriteStep ==
  ASSUME FileRows, NEW sl \in Slot, Files!WriteFile(sl)
  PROVE  LET q == artifactReq[sl] IN
           /\ q \in FileWrites
           /\ \E f \in File \ written :
                /\ written' = written \cup {f} /\ disk' = disk \cup {f}
                /\ stuck' = stuck /\ Loose' = Loose \cup {f}
                /\ newest' = [newest EXCEPT ![q.of] = f]
                /\ artifactReq'[sl] = [op |-> "link", of |-> q.of, file |-> f]
  <1> DEFINE q == artifactReq[sl]
  <1>1. q \in FileWrites
        BY DEF Files!WriteFile, FileRows, FileRequest, Files!Idle, BatchItems,
               BatchSettles, FileWrites,
               FileLinks, Purges
  <1>2. PICK f \in File \ written :
          /\ written' = written \cup {f} /\ disk' = disk \cup {f} /\ stuck' = stuck
          /\ newest' = [newest EXCEPT ![q.of] = f]
          /\ Files!GoOn(sl, [op |-> "link", of |-> q.of, file |-> f])
        BY DEF Files!WriteFile
  <1>3. artifactReq'[sl] = [op |-> "link", of |-> q.of, file |-> f]
        BY <1>2, GoesOn
  <1>4. Loose' = Loose \cup {f}
        BY <1>2 DEF Loose, FileRows
  <1> QED BY <1>1, <1>2, <1>3, <1>4

LEMMA LinkStep ==
  ASSUME FileRows, NEW sl \in Slot, Files!LinkFile(sl)
  PROVE  LET q == artifactReq[sl] IN
           /\ q \in FileLinks /\ q.file \in written
           /\ link' = [link EXCEPT ![q.of] = q.file] /\ artifactReq'[sl] = Files!Idle
           /\ link'[q.of] = q.file /\ \A r \in Files!Row \ {q.of} : link'[r] = link[r]
  <1>1. artifactReq[sl] \in FileLinks /\ artifactReq[sl].file \in written
        BY DEF Files!LinkFile, FileRows, FileRequest, Files!Idle, BatchItems,
               BatchSettles, FileWrites,
               FileLinks, Purges
  <1>2. link' = [link EXCEPT ![artifactReq[sl].of] = artifactReq[sl].file]
        BY DEF Files!LinkFile
  <1>3. artifactReq[sl].of \in Files!Row /\ DOMAIN link = Files!Row
        BY <1>1 DEF FileLinks, FileRows
  <1>4. artifactReq'[sl] = Files!Idle
        BY GoesOn DEF Files!LinkFile
  <1> QED BY <1>1, <1>2, <1>3, <1>4

LEMMA PurgeStep ==
  ASSUME FileRows, NEW sl \in Slot, Files!ReadForPurge(sl)
  PROVE  \E old \in SUBSET {r \in Files!Row : link[r] # Files!NoFile} :
           /\ artifactReq[sl] = Files!Idle
           /\ artifactReq'[sl] =
                [op |-> "unlink", rows |-> old, files |-> {link[r] : r \in old}]
           /\ {link[r] : r \in old} \subseteq written
  <1>1. PICK old \in (SUBSET {r \in Files!Row : link[r] # Files!NoFile}) \ {{}} :
          Files!Enter(sl, [op |-> "unlink", rows |-> old, files |-> {link[r] : r \in old}])
        BY DEF Files!ReadForPurge
  <1>2. {link[r] : r \in old} \subseteq written
        BY <1>1 DEF FileRows
  <1> QED BY <1>1, <1>2, Enters

LEMMA DeleteStep ==
  ASSUME FileRows, NEW sl \in Slot, Files!DeleteFile(sl)
  PROVE  LET q == artifactReq[sl] IN
           /\ q \in Purges /\ q.op = "unlink" /\ q.files \subseteq written
           /\ \E f \in q.files :
                /\ disk' \in {disk, disk \ {f}} /\ Loose' = Loose \ {f}
                /\ stuck' \subseteq stuck \cup disk
                /\ artifactReq'[sl] \in Purges
                /\ artifactReq'[sl].rows = q.rows
                /\ artifactReq'[sl].files = q.files \ {f}
                /\ \/ artifactReq'[sl].op = "unlink"
                   \/ artifactReq'[sl].op = "clearBatches" /\ q.files = {f}
  <1> DEFINE q == artifactReq[sl]
  <1> HIDE DEF q
  <1>1. q \in Purges /\ q.op = "unlink" /\ q.files \subseteq written
        BY DEF q, Files!DeleteFile, FileRows, FileRequest, Files!Idle, BatchItems,
               BatchSettles, FileWrites,
               FileLinks, Purges
  <1>2. PICK f \in q.files :
          /\ \/ disk' = disk \ {f} /\ stuck' = stuck
             \/ stuck' = stuck \cup ({f} \cap disk) /\ disk' = disk
          /\ Files!GoOn(sl, [q EXCEPT !.files = q.files \ {f},
                                !.op = IF q.files = {f} THEN "clearBatches" ELSE "unlink"])
        BY DEF q, Files!DeleteFile
  <1>3. artifactReq'[sl] =
          [q EXCEPT !.files = q.files \ {f},
                    !.op = IF q.files = {f} THEN "clearBatches" ELSE "unlink"]
        BY <1>2, GoesOn
  <1>4. PICK o : o = IF q.files = {f} THEN "clearBatches" ELSE "unlink"
        OBVIOUS
  <1>5. artifactReq'[sl] = [op |-> o, rows |-> q.rows, files |-> q.files \ {f}]
        BY <1>1, <1>3, <1>4 DEF Purges
  <1>6. o \in {"clearBatches", "unlink"} /\ (o = "unlink" \/ q.files = {f})
        BY <1>4
  <1>7. artifactReq'[sl] \in Purges
        BY <1>1, <1>5, <1>6 DEF Purges
  <1>8. /\ disk' \in {disk, disk \ {f}} /\ Loose' = Loose \ {f}
        /\ stuck' \subseteq stuck \cup disk
        BY <1>2 DEF Loose
  <1> QED BY <1>1, <1>5, <1>6, <1>7, <1>8 DEF q

LEMMA ClearBatchesStep ==
  ASSUME FileRows, NEW sl \in Slot, Files!ClearBatches(sl)
  PROVE  LET q == artifactReq[sl] IN
           /\ q \in Purges /\ q.op = "clearBatches" /\ q.files \subseteq written
           /\ DOMAIN link' = Files!Row
           /\ \A r \in Files!Row : link'[r] = IF r \in q.rows \cap Batch THEN Files!NoFile ELSE link[r]
           /\ artifactReq'[sl] = [op |-> "clearJobs", rows |-> q.rows, files |-> q.files]
  <1> DEFINE q == artifactReq[sl]
  <1> HIDE DEF q
  <1>1. q \in Purges /\ q.op = "clearBatches" /\ q.files \subseteq written
        BY DEF q, Files!ClearBatches, FileRows, FileRequest, Files!Idle, BatchItems,
               BatchSettles, FileWrites,
               FileLinks, Purges
  <1>2. link' = Files!Cleared(q.rows \cap Batch) /\ Files!GoOn(sl, [q EXCEPT !.op = "clearJobs"])
        BY DEF q, Files!ClearBatches
  <1>3. artifactReq'[sl] = [q EXCEPT !.op = "clearJobs"]
        BY <1>2, GoesOn
  <1>4. artifactReq'[sl] = [op |-> "clearJobs", rows |-> q.rows, files |-> q.files]
        BY <1>1, <1>3 DEF Purges
  <1>5. DOMAIN link' = Files!Row
        BY <1>2 DEF Files!Cleared
  <1>6. \A r \in Files!Row : link'[r] = IF r \in q.rows \cap Batch THEN Files!NoFile ELSE link[r]
        BY <1>2 DEF Files!Cleared
  <1> QED BY <1>1, <1>4, <1>5, <1>6 DEF q

LEMMA ClearJobsStep ==
  ASSUME FileRows, NEW sl \in Slot, Files!ClearJobs(sl)
  PROVE  LET q == artifactReq[sl] IN
           /\ q \in Purges /\ q.op = "clearJobs"
           /\ DOMAIN link' = Files!Row
           /\ \A r \in Files!Row : link'[r] = IF r \in q.rows \cap PrintJob THEN Files!NoFile ELSE link[r]
           /\ artifactReq'[sl] = Files!Idle
  <1> DEFINE q == artifactReq[sl]
  <1> HIDE DEF q
  <1>1. q \in Purges /\ q.op = "clearJobs"
        BY DEF q, Files!ClearJobs, FileRows, FileRequest, Files!Idle, BatchItems,
               BatchSettles, FileWrites,
               FileLinks, Purges
  <1>2. link' = Files!Cleared(q.rows \cap PrintJob) /\ Files!GoOn(sl, Files!Idle)
        BY DEF q, Files!ClearJobs
  <1>3. artifactReq'[sl] = Files!Idle
        BY <1>2, GoesOn
  <1>4. DOMAIN link' = Files!Row
        BY <1>2 DEF Files!Cleared
  <1>5. \A r \in Files!Row : link'[r] = IF r \in q.rows \cap PrintJob THEN Files!NoFile ELSE link[r]
        BY <1>2 DEF Files!Cleared
  <1> QED BY <1>1, <1>3, <1>4, <1>5 DEF q

(* The steps on batches, which leave files alone, and those on files.      *)
OnBatches(sl) == Files!OpenBatch(sl) \/ Files!WriteItems(sl) \/ Files!SettleBatch(sl)
OnFiles(sl) ==
  \/ Files!ReadForFile(sl) \/ Files!WriteFile(sl) \/ Files!LinkFile(sl)
  \/ Files!ReadForPurge(sl) \/ Files!DeleteFile(sl) \/ Files!ClearBatches(sl) \/ Files!ClearJobs(sl)

LEMMA FileSteps ==
  Files!Next <=> (\E sl \in Slot : OnBatches(sl) \/ OnFiles(sl)) \/ Files!ProcessRestart
  BY DEF Files!Next, OnBatches, OnFiles

LEMMA StepFrame ==
  ASSUME FileRows, NEW sl \in Slot, OnBatches(sl) \/ OnFiles(sl)
  PROVE  /\ load' = load /\ load \in Nat /\ 1 <= load
         /\ restarts' = restarts /\ restarts \in Nat
         /\ DOMAIN artifactReq' = Slot
         /\ \A s \in Slot \ {sl} : artifactReq'[s] = artifactReq[s]
  <1>1. load' = load /\ restarts' = restarts /\ \E q : Files!GoOn(sl, q)
        <2>1. CASE Files!OpenBatch(sl)
              BY <2>1 DEF Files!OpenBatch, Files!Enter
        <2>2. CASE Files!WriteItems(sl)
              BY <2>2 DEF Files!WriteItems
        <2>3. CASE Files!SettleBatch(sl)
              BY <2>3 DEF Files!SettleBatch
        <2>4. CASE Files!ReadForFile(sl)
              BY <2>4 DEF Files!ReadForFile, Files!Enter
        <2>5. CASE Files!WriteFile(sl)
              BY <2>5 DEF Files!WriteFile
        <2>6. CASE Files!LinkFile(sl)
              BY <2>6 DEF Files!LinkFile
        <2>7. CASE Files!ReadForPurge(sl)
              BY <2>7 DEF Files!ReadForPurge, Files!Enter
        <2>8. CASE Files!DeleteFile(sl)
              BY <2>8 DEF Files!DeleteFile
        <2>9. CASE Files!ClearBatches(sl)
              BY <2>9 DEF Files!ClearBatches
        <2>10. CASE Files!ClearJobs(sl)
              BY <2>10 DEF Files!ClearJobs
        <2> QED BY <2>1, <2>2, <2>3, <2>4, <2>5, <2>6, <2>7, <2>8, <2>9, <2>10
               DEF OnBatches, OnFiles
  <1>2. load \in Nat /\ 1 <= load /\ restarts \in Nat
        BY TemplatesAssumption DEF FileRows
  <1> QED BY <1>1, <1>2, GoesOn

LEMMA OnBatchesFrame ==
  ASSUME FileRows, NEW sl \in Slot, OnBatches(sl)
  PROVE  /\ link' = link /\ newest' = newest
         /\ written' = written /\ disk' = disk /\ stuck' = stuck
         /\ artifactReq[sl].op \in {"idle", "items", "settle"}
         /\ artifactReq'[sl].op \in {"idle", "items", "settle"}
  <1>1. CASE Files!OpenBatch(sl)
        <2>1. PICK b \in Batch, students \in SUBSET Member :
                /\ artifactReq[sl] = Files!Idle
                /\ artifactReq'[sl] = [op |-> "items", of |-> b, students |-> students]
              BY <1>1, OpenStep
        <2> QED BY <1>1, <2>1 DEF Files!OpenBatch, Files!Idle
  <1>2. CASE Files!WriteItems(sl)
        <2>1. PICK valid \in SUBSET artifactReq[sl].students :
                artifactReq'[sl] = [op |-> "settle", of |-> artifactReq[sl].of,
                                    good |-> Cardinality(valid),
                                    bad |-> Cardinality(artifactReq[sl].students \ valid)]
              BY <1>2, ItemsStep
        <2> QED BY <1>2, <2>1 DEF Files!WriteItems
  <1>3. CASE Files!SettleBatch(sl)
        <2>1. artifactReq[sl].op = "settle" /\ artifactReq'[sl] = Files!Idle
              BY <1>3, SettleStep DEF Files!SettleBatch
        <2> QED BY <1>3, <2>1 DEF Files!SettleBatch, Files!Idle
  <1> QED BY <1>1, <1>2, <1>3 DEF OnBatches

LEMMA ReadStep ==
  ASSUME FileRows, NEW sl \in Slot, Files!ReadForFile(sl)
  PROVE  /\ artifactReq[sl] = Files!Idle /\ artifactReq'[sl] \in FileWrites
         /\ link' = link /\ newest' = newest
         /\ written' = written /\ disk' = disk /\ stuck' = stuck
  <1>1. PICK r \in Files!Row : Files!Enter(sl, [op |-> "write", of |-> r])
        BY DEF Files!ReadForFile
  <1>2. artifactReq[sl] = Files!Idle /\ artifactReq'[sl] = [op |-> "write", of |-> r]
        BY <1>1, Enters
  <1> QED BY <1>2 DEF Files!ReadForFile, FileWrites

LEMMA OnFilesFrame ==
  ASSUME FileRows, NEW sl \in Slot, OnFiles(sl)
  PROVE  /\ batch' = batch /\ item' = item /\ Files!Made' = Files!Made
         /\ ~Makes(sl) /\ ~Makes(sl)'
  <1>1. batch' = batch /\ item' = item /\ Files!Made' = Files!Made
        BY DEF OnFiles, Files!ReadForFile, Files!WriteFile, Files!LinkFile,
               Files!ReadForPurge, Files!DeleteFile, Files!ClearBatches,
               Files!ClearJobs, Files!Made
  <1>2. CASE Files!ReadForFile(sl)
        BY <1>1, <1>2, ReadStep DEF Makes, Files!Idle, FileWrites
  <1>3. CASE Files!WriteFile(sl)
        <2>1. \E f \in File :
                artifactReq'[sl] = [op |-> "link", of |-> artifactReq[sl].of, file |-> f]
              BY <1>3, WriteStep
        <2>2. artifactReq[sl].op = "write" /\ artifactReq'[sl].op = "link"
              BY <1>3, <2>1 DEF Files!WriteFile
        <2> QED BY <1>1, <2>2 DEF Makes
  <1>4. CASE Files!LinkFile(sl)
        <2>1. artifactReq'[sl] = Files!Idle
              BY <1>4, LinkStep
        <2>2. artifactReq[sl].op = "link" /\ artifactReq'[sl].op = "idle"
              BY <1>4, <2>1 DEF Files!LinkFile, Files!Idle
        <2> QED BY <1>1, <2>2 DEF Makes
  <1>5. CASE Files!ReadForPurge(sl)
        <2>1. PICK old \in SUBSET Files!Row :
                /\ artifactReq[sl] = Files!Idle
                /\ artifactReq'[sl] =
                     [op |-> "unlink", rows |-> old, files |-> {link[r] : r \in old}]
              BY <1>5, PurgeStep
        <2>2. artifactReq[sl].op = "idle" /\ artifactReq'[sl].op = "unlink"
              BY <2>1 DEF Files!Idle
        <2> QED BY <1>1, <2>2 DEF Makes
  <1>6. CASE Files!DeleteFile(sl)
        <2>1. artifactReq[sl].op = "unlink" /\ artifactReq'[sl].op \in {"unlink", "clearBatches"}
              BY <1>6, DeleteStep
        <2> QED BY <1>1, <2>1 DEF Makes
  <1>7. CASE Files!ClearBatches(sl)
        <2>1. artifactReq'[sl] = [op |-> "clearJobs", rows |-> artifactReq[sl].rows,
                                  files |-> artifactReq[sl].files]
              BY <1>7, ClearBatchesStep
        <2>2. artifactReq[sl].op = "clearBatches" /\ artifactReq'[sl].op = "clearJobs"
              BY <1>7, <2>1 DEF Files!ClearBatches
        <2> QED BY <1>1, <2>2 DEF Makes
  <1>8. CASE Files!ClearJobs(sl)
        <2>1. artifactReq[sl].op = "clearJobs" /\ artifactReq'[sl].op = "idle"
              BY <1>8, ClearJobsStep DEF Files!Idle
        <2> QED BY <1>1, <2>1 DEF Makes
  <1> QED BY <1>2, <1>3, <1>4, <1>5, <1>6, <1>7, <1>8 DEF OnFiles

----------------------------------------------------------------------------
(* One invariant after the other *)

(* Rows stay made and files stay written, so the other requests stay sound. *)
LEMMA OthersSound ==
  ASSUME FileRows, NEW sl \in Slot, OnBatches(sl) \/ OnFiles(sl),
         Files!Made \subseteq Files!Made', written \subseteq written', FileRequest(artifactReq[sl])'
  PROVE  \A s \in Slot : FileRequest(artifactReq[s])'
  <1>1. SUFFICES ASSUME NEW s \in Slot \ {sl}
                 PROVE  FileRequest(artifactReq[s])'
        OBVIOUS
  <1>2. artifactReq'[s] = artifactReq[s] /\ FileRequest(artifactReq[s])
        BY StepFrame DEF FileRows
  <1> QED BY <1>2 DEF FileRequest

LEMMA FileRowsKept ==
  ASSUME FileRows, Files!Next
  PROVE  FileRows'
  <1>1. CASE Files!ProcessRestart
        BY <1>1 DEF Files!ProcessRestart, FileRows, FileRequest
  <1>2. ASSUME NEW sl \in Slot, OnBatches(sl)
        PROVE  FileRows'
        <2>1. SUFFICES /\ batch' \in [Batch -> BatchTyped \cup {Files!Unmade}]
                       /\ Files!Made \subseteq Files!Made' /\ FileRequest(artifactReq[sl])'
              <3>1. written \subseteq written'
                    BY <1>2, OnBatchesFrame
              <3>2. \A s \in Slot : FileRequest(artifactReq[s])'
                    BY <1>2, <2>1, <3>1, OthersSound
              <3> QED BY <1>2, <2>1, <3>2, OnBatchesFrame, StepFrame DEF FileRows
        <2>2. CASE Files!OpenBatch(sl)
              <3>1. PICK b \in Batch \ Files!Made, students \in (SUBSET Member) \ {{}} :
                      /\ artifactReq'[sl] = [op |-> "items", of |-> b, students |-> students]
                      /\ batch' \in [Batch -> BatchTyped \cup {Files!Unmade}]
                      /\ Files!Made' = Files!Made \cup {b}
                    BY <2>2, OpenStep
              <3>2. artifactReq'[sl] \in BatchItems /\ artifactReq'[sl].of \in Files!Made'
                    BY <3>1 DEF BatchItems
              <3> QED BY <3>1, <3>2 DEF FileRequest
        <2>3. CASE Files!WriteItems(sl)
              <3>1. /\ artifactReq[sl] \in BatchItems /\ artifactReq[sl].of \in Files!Made
                    /\ \E valid \in SUBSET artifactReq[sl].students :
                         artifactReq'[sl] = [op |-> "settle", of |-> artifactReq[sl].of,
                           good |-> Cardinality(valid),
                           bad |-> Cardinality(artifactReq[sl].students \ valid)]
                    BY <2>3, ItemsStep
              <3>2. PICK valid \in SUBSET artifactReq[sl].students :
                      artifactReq'[sl] = [op |-> "settle", of |-> artifactReq[sl].of,
                           good |-> Cardinality(valid),
                           bad |-> Cardinality(artifactReq[sl].students \ valid)]
                    BY <3>1
              <3>3. /\ valid \in SUBSET Member
                    /\ (artifactReq[sl].students \ valid) \in SUBSET Member
                    BY <3>1 DEF BatchItems
              <3>4. /\ Cardinality(valid) \in Nat
                    /\ Cardinality(artifactReq[sl].students \ valid) \in Nat
                    BY <3>3, FilesFinite
              <3>5. artifactReq'[sl] \in BatchSettles /\ artifactReq'[sl].of \in Files!Made
                    <4>1. artifactReq[sl].of \in Batch
                          BY <3>1 DEF BatchItems
                    <4> QED BY <3>1, <3>2, <3>4, <4>1 DEF BatchSettles
              <3>6. batch' = batch /\ Files!Made' = Files!Made
                    BY <2>3 DEF Files!WriteItems, Files!Made
              <3>7. batch' \in [Batch -> BatchTyped \cup {Files!Unmade}]
                    BY <3>6 DEF FileRows
              <3> QED BY <3>5, <3>6, <3>7 DEF FileRequest
        <2>4. CASE Files!SettleBatch(sl)
              BY <2>4, SettleStep DEF FileRequest
        <2> QED BY <1>2, <2>2, <2>3, <2>4 DEF OnBatches
  <1>3. ASSUME NEW sl \in Slot, OnFiles(sl)
        PROVE  FileRows'
        <2>1. SUFFICES /\ link' \in [Files!Row -> written' \cup {Files!NoFile}]
                       /\ newest' \in [Files!Row -> written' \cup {Files!NoFile}]
                       /\ disk' \subseteq written' /\ stuck' \subseteq written'
                       /\ written' \subseteq File
                       /\ written \subseteq written' /\ FileRequest(artifactReq[sl])'
              <3>1. Files!Made \subseteq Files!Made'
                    BY <1>3, OnFilesFrame
              <3>2. \A s \in Slot : FileRequest(artifactReq[s])'
                    BY <1>3, <2>1, <3>1, OthersSound
              <3> QED BY <1>3, <2>1, <3>2, OnFilesFrame, StepFrame DEF FileRows
        <2>2. CASE Files!ReadForFile(sl)
              BY <2>2, ReadStep DEF FileRows, FileRequest
        <2>3. CASE Files!WriteFile(sl)
              <3>1. PICK f \in File \ written :
                      /\ written' = written \cup {f} /\ disk' = disk \cup {f} /\ stuck' = stuck
                      /\ newest' = [newest EXCEPT ![artifactReq[sl].of] = f]
                      /\ artifactReq'[sl] = [op |-> "link", of |-> artifactReq[sl].of, file |-> f]
                    BY <2>3, WriteStep
              <3>2. artifactReq[sl].of \in Files!Row
                    BY <2>3, WriteStep DEF FileWrites
              <3>3. artifactReq'[sl] \in FileLinks /\ artifactReq'[sl].file \in written'
                    BY <3>1, <3>2 DEF FileLinks
              <3>4. newest' \in [Files!Row -> written' \cup {Files!NoFile}]
                    BY <3>1, <3>2 DEF FileRows
              <3>5. link' = link /\ link \in [Files!Row -> written \cup {Files!NoFile}]
                    BY <2>3 DEF Files!WriteFile, FileRows
              <3>6. link' \in [Files!Row -> written' \cup {Files!NoFile}]
                    BY <3>1, <3>5
              <3>7. disk' \subseteq written' /\ stuck' \subseteq written' /\ written' \subseteq File
                    BY <3>1 DEF FileRows
              <3> QED BY <3>1, <3>3, <3>4, <3>6, <3>7 DEF FileRequest
        <2>4. CASE Files!LinkFile(sl)
              <3>1. /\ artifactReq[sl] \in FileLinks /\ artifactReq[sl].file \in written
                    /\ link' = [link EXCEPT ![artifactReq[sl].of] = artifactReq[sl].file]
                    /\ artifactReq'[sl] = Files!Idle
                    BY <2>4, LinkStep
              <3>2. newest' = newest /\ written' = written /\ disk' = disk /\ stuck' = stuck
                    BY <2>4 DEF Files!LinkFile
              <3>3. link' \in [Files!Row -> written \cup {Files!NoFile}]
                    BY <3>1 DEF FileRows
              <3> QED BY <3>1, <3>2, <3>3 DEF FileRows, FileRequest
        <2>5. CASE Files!ReadForPurge(sl)
              <3>1. PICK old \in SUBSET {r \in Files!Row : link[r] # Files!NoFile} :
                      /\ artifactReq'[sl] =
                           [op |-> "unlink", rows |-> old, files |-> {link[r] : r \in old}]
                      /\ {link[r] : r \in old} \subseteq written
                    BY <2>5, PurgeStep
              <3>2. /\ link' = link /\ newest' = newest
                    /\ written' = written /\ disk' = disk /\ stuck' = stuck
                    BY <2>5 DEF Files!ReadForPurge
              <3>3. artifactReq'[sl] \in Purges /\ artifactReq'[sl].files \subseteq written
                    BY <3>1 DEF Purges, FileRows
              <3> QED BY <3>2, <3>3 DEF FileRows, FileRequest
        <2>6. CASE Files!DeleteFile(sl)
              <3>1. /\ artifactReq'[sl] \in Purges /\ artifactReq'[sl].files \subseteq written
                    /\ disk' \subseteq disk /\ stuck' \subseteq stuck \cup disk
                    BY <2>6, DeleteStep
              <3>2. link' = link /\ newest' = newest /\ written' = written
                    BY <2>6 DEF Files!DeleteFile
              <3> QED BY <3>1, <3>2 DEF FileRows, FileRequest
        <2>7. CASE Files!ClearBatches(sl)
              <3>1. /\ artifactReq[sl] \in Purges /\ artifactReq[sl].files \subseteq written
                    /\ artifactReq'[sl] = [op |-> "clearJobs", rows |-> artifactReq[sl].rows,
                                           files |-> artifactReq[sl].files]
                    BY <2>7, ClearBatchesStep
              <3>2. newest' = newest /\ written' = written /\ disk' = disk /\ stuck' = stuck
                    BY <2>7 DEF Files!ClearBatches
              <3>3. link' \in [Files!Row -> written \cup {Files!NoFile}]
                    BY <2>7 DEF Files!ClearBatches, Files!Cleared, FileRows
              <3>4. artifactReq'[sl] \in Purges /\ artifactReq'[sl].files \subseteq written
                    BY <3>1 DEF Purges
              <3> QED BY <3>2, <3>3, <3>4 DEF FileRows, FileRequest
        <2>8. CASE Files!ClearJobs(sl)
              <3>1. artifactReq'[sl] = Files!Idle
                    BY <2>8, ClearJobsStep
              <3>2. newest' = newest /\ written' = written /\ disk' = disk /\ stuck' = stuck
                    BY <2>8 DEF Files!ClearJobs
              <3>3. link' \in [Files!Row -> written \cup {Files!NoFile}]
                    BY <2>8 DEF Files!ClearJobs, Files!Cleared, FileRows
              <3> QED BY <3>1, <3>2, <3>3 DEF FileRows, FileRequest
        <2> QED BY <1>3, <2>2, <2>3, <2>4, <2>5, <2>6, <2>7, <2>8 DEF OnFiles
  <1> QED BY <1>1, <1>2, <1>3, FileSteps

LEMMA FileBusyKept ==
  ASSUME FileRows, FileBusyBound, Files!Next
  PROVE  FileBusyBound'
  <1>1. Files!Busy \in SUBSET Slot /\ Files!Busy' \in SUBSET Slot
        BY DEF Files!Busy
  <1>2. CASE Files!ProcessRestart
        <2>1. Files!Busy' = {} /\ load' = load /\ load \in Nat
              BY <1>2, TemplatesAssumption DEF Files!ProcessRestart, Files!Busy,
                                               FileRows
        <2> QED BY <2>1, FS_EmptySet DEF FileBusyBound
  <1>3. ASSUME NEW sl \in Slot, OnBatches(sl) \/ OnFiles(sl)
        PROVE  FileBusyBound'
        <2>1. load' = load /\ load \in Nat /\ Files!Busy' \subseteq Files!Busy \cup {sl}
              BY <1>3, StepFrame DEF Files!Busy
        <2>2. CASE sl \in Files!Busy
              <3>1. Files!Busy' \in SUBSET Files!Busy
                    BY <2>1, <2>2
              <3>2. Cardinality(Files!Busy') <= Cardinality(Files!Busy)
                    BY <1>1, <3>1, FilesFinite
              <3> QED BY <1>1, <2>1, <3>2, FilesFinite DEF FileBusyBound
        <2>3. CASE sl \notin Files!Busy
              <3>1. artifactReq[sl].op = "idle"
                    BY <2>3 DEF Files!Busy, Files!Idle
              <3>2. Files!OpenBatch(sl) \/ Files!ReadForFile(sl) \/ Files!ReadForPurge(sl)
                    BY <1>3, <3>1 DEF OnBatches, OnFiles, Files!WriteItems,
                                      Files!SettleBatch, Files!WriteFile,
                                      Files!LinkFile,
                                      Files!DeleteFile, Files!ClearBatches, Files!ClearJobs
              <3>3. \E q : Files!Enter(sl, q)
                    BY <3>2 DEF Files!OpenBatch, Files!ReadForFile, Files!ReadForPurge
              <3>4. Cardinality(Files!Busy) < load
                    BY <3>3, Enters
              <3>5. /\ Cardinality(Files!Busy \cup {sl}) = Cardinality(Files!Busy) + 1
                    /\ Files!Busy \cup {sl} \in SUBSET Slot
                    BY <1>1, <2>3, FilesFinite, FS_AddElement
              <3>6. Cardinality(Files!Busy') <= Cardinality(Files!Busy \cup {sl})
                    BY <2>1, <3>5, FilesFinite
              <3> QED BY <1>1, <2>1, <3>4, <3>5, <3>6, FilesFinite DEF FileBusyBound
        <2> QED BY <2>2, <2>3
  <1> QED BY <1>2, <1>3, FileSteps

(* Steps that have no part in what is linked and on the disk.              *)
LEMMA CalmStep ==
  ASSUME FileRows, NEW sl \in Slot, OnBatches(sl) \/ Files!ReadForFile(sl)
  PROVE  /\ link' = link /\ newest' = newest
         /\ written' = written /\ disk' = disk /\ stuck' = stuck
         /\ artifactReq[sl].op \in {"idle", "items", "settle"}
         /\ artifactReq'[sl].op \in {"idle", "items", "settle", "write"}
  <1>1. CASE OnBatches(sl)
        BY <1>1, OnBatchesFrame
  <1>2. CASE Files!ReadForFile(sl)
        BY <1>2, ReadStep DEF Files!Idle, FileWrites
  <1> QED BY <1>1, <1>2

LEMMA FreshKept ==
  ASSUME FileRows, FileRows', LinksFresh, Files!Next
  PROVE  LinksFresh'
  <1>1. CASE Files!ProcessRestart
        BY <1>1 DEF Files!ProcessRestart, LinksFresh, FreshLink, Files!Idle
  <1>2. ASSUME NEW sl \in Slot, OnBatches(sl) \/ OnFiles(sl)
        PROVE  LinksFresh'
        <2>1. \A s \in Slot \ {sl} : artifactReq'[s] = artifactReq[s]
              BY <1>2, StepFrame
        <2>2. \A s \in Slot : FreshLink(s)
              BY DEF LinksFresh
        <2>3. \A s \in Slot : artifactReq[s].op = "link" =>
                                artifactReq[s].file \in written /\ artifactReq[s].file \in File
              BY DEF FileRows, FileRequest, Files!Idle, BatchItems, BatchSettles,
                     FileWrites, FileLinks, Purges
        <2>4. \A s \in Slot : artifactReq[s].op = "unlink" => artifactReq[s].files \subseteq written
              BY DEF FileRows, FileRequest, Files!Idle, BatchItems, BatchSettles,
                     FileWrites, FileLinks, Purges
        <2>5. \A r \in Files!Row : link[r] \in written \/ link[r] = Files!NoFile
              BY DEF FileRows
        <2>6. Files!NoFile \notin File
              BY NoFileIsNoFile
        <2>7. CASE OnBatches(sl) \/ Files!ReadForFile(sl)
              BY <2>1, <2>2, <2>7, CalmStep DEF LinksFresh, FreshLink
        <2>8. CASE Files!WriteFile(sl)
              <3>1. PICK f \in File \ written :
                      /\ disk' = disk \cup {f}
                      /\ artifactReq'[sl] = [op |-> "link", of |-> artifactReq[sl].of, file |-> f]
                    BY <2>8, WriteStep
              <3>2. link' = link
                    BY <2>8 DEF Files!WriteFile
              <3>3. FreshLink(sl)'
                    BY <2>1, <2>3, <2>4, <2>5, <2>6, <3>1, <3>2 DEF FreshLink
              <3>4. ASSUME NEW s \in Slot \ {sl}
                    PROVE  FreshLink(s)'
                    BY <2>1, <2>2, <2>3, <3>1, <3>2, <3>4 DEF FreshLink
              <3> QED BY <3>3, <3>4 DEF LinksFresh
        <2>9. CASE Files!LinkFile(sl)
              <3>1. /\ artifactReq'[sl] = Files!Idle /\ disk' = disk
                    /\ artifactReq[sl].op = "link"
                    /\ \A r \in Files!Row : link'[r] \in {link[r], artifactReq[sl].file}
                    BY <2>9, LinkStep DEF Files!LinkFile
              <3>2. FreshLink(sl)'
                    BY <3>1 DEF FreshLink, Files!Idle
              <3>3. ASSUME NEW s \in Slot \ {sl}
                    PROVE  FreshLink(s)'
                    <4>1. FreshLink(s) /\ FreshLink(sl)
                          BY <2>2
                    <4> QED BY <2>1, <3>1, <3>3, <4>1 DEF FreshLink, Files!Idle
              <3> QED BY <3>2, <3>3 DEF LinksFresh
        <2>10. CASE Files!ReadForPurge(sl)
              <3>1. PICK old \in SUBSET {r \in Files!Row : link[r] # Files!NoFile} :
                      artifactReq'[sl] =
                        [op |-> "unlink", rows |-> old, files |-> {link[r] : r \in old}]
                    BY <2>10, PurgeStep
              <3>2. link' = link /\ disk' = disk
                    BY <2>10 DEF Files!ReadForPurge
              <3>3. FreshLink(sl)'
                    BY <3>1 DEF FreshLink
              <3>4. ASSUME NEW s \in Slot \ {sl}
                    PROVE  FreshLink(s)'
                    BY <2>1, <2>2, <3>1, <3>2, <3>4 DEF FreshLink
              <3> QED BY <3>3, <3>4 DEF LinksFresh
        <2>11. CASE Files!DeleteFile(sl)
              <3>1. PICK f \in artifactReq[sl].files :
                      /\ disk \ {f} \subseteq disk'
                      /\ artifactReq'[sl].files = artifactReq[sl].files \ {f}
                      /\ artifactReq'[sl].op \in {"unlink", "clearBatches"}
                    BY <2>11, DeleteStep
              <3>2. link' = link /\ artifactReq[sl].op = "unlink"
                    BY <2>11 DEF Files!DeleteFile
              <3>3. FreshLink(sl)'
                    BY <3>1 DEF FreshLink
              <3>4. ASSUME NEW s \in Slot \ {sl}
                    PROVE  FreshLink(s)'
                    BY <2>1, <2>2, <3>1, <3>2, <3>4 DEF FreshLink
              <3> QED BY <3>3, <3>4 DEF LinksFresh
        <2>12. CASE Files!ClearBatches(sl)
              <3>1. /\ artifactReq'[sl].op = "clearJobs"
                    /\ \A r \in Files!Row : link'[r] \in {link[r], Files!NoFile}
                    <4>1. artifactReq'[sl] = [op |-> "clearJobs", rows |-> artifactReq[sl].rows,
                                              files |-> artifactReq[sl].files]
                          BY <2>12, ClearBatchesStep
                    <4>2. \A r \in Files!Row : link'[r] \in {link[r], Files!NoFile}
                          BY <2>12, ClearBatchesStep
                    <4> QED BY <4>1, <4>2
              <3>2. disk' = disk
                    BY <2>12 DEF Files!ClearBatches
              <3>3. FreshLink(sl)'
                    BY <3>1 DEF FreshLink
              <3>4. ASSUME NEW s \in Slot \ {sl}
                    PROVE  FreshLink(s)'
                    BY <2>1, <2>2, <2>3, <2>6, <3>1, <3>2, <3>4 DEF FreshLink
              <3> QED BY <3>3, <3>4 DEF LinksFresh
        <2>13. CASE Files!ClearJobs(sl)
              <3>1. /\ artifactReq'[sl] = Files!Idle
                    /\ \A r \in Files!Row : link'[r] \in {link[r], Files!NoFile}
                    BY <2>13, ClearJobsStep
              <3>2. disk' = disk
                    BY <2>13 DEF Files!ClearJobs
              <3>3. FreshLink(sl)'
                    BY <3>1 DEF FreshLink, Files!Idle
              <3>4. ASSUME NEW s \in Slot \ {sl}
                    PROVE  FreshLink(s)'
                    BY <2>1, <2>2, <2>3, <2>6, <3>1, <3>2, <3>4
                       DEF FreshLink, Files!Idle
              <3> QED BY <3>3, <3>4 DEF LinksFresh
        <2> QED BY <1>2, <2>7, <2>8, <2>9, <2>10, <2>11, <2>12, <2>13 DEF OnFiles
  <1> QED BY <1>1, <1>2, FileSteps

(* Links only change to a file no row has linked yet, or to none.          *)
LEMMA LinksChange ==
  ASSUME FileRows, LinksFresh, Files!Next
  PROVE  \/ \A r \in Files!Row : link'[r] \in {link[r], Files!NoFile}
         \/ \E sl \in Slot :
              /\ artifactReq[sl].op = "link" /\ artifactReq[sl].of \in Files!Row
              /\ artifactReq[sl].file \in File
              /\ link'[artifactReq[sl].of] = artifactReq[sl].file
              /\ \A r \in Files!Row : r # artifactReq[sl].of => link'[r] = link[r]
              /\ \A r \in Files!Row : link[r] # artifactReq[sl].file
              /\ \A s \in Slot \ {sl} : artifactReq[s].op = "unlink" =>
                                          artifactReq[sl].file \notin artifactReq[s].files
              /\ artifactReq' = [artifactReq EXCEPT ![sl] = Files!Idle]
  <1>1. CASE Files!ProcessRestart
        BY <1>1 DEF Files!ProcessRestart
  <1>2. ASSUME NEW sl \in Slot, OnBatches(sl) \/ Files!ReadForFile(sl)
        PROVE  link' = link
        BY <1>2, CalmStep
  <1>3. ASSUME NEW sl \in Slot, Files!WriteFile(sl) \/ Files!ReadForPurge(sl) \/ Files!DeleteFile(sl)
        PROVE  link' = link
        BY <1>3 DEF Files!WriteFile, Files!ReadForPurge, Files!DeleteFile
  <1>4. ASSUME NEW sl \in Slot, Files!ClearBatches(sl)
        PROVE  \A r \in Files!Row : link'[r] \in {link[r], Files!NoFile}
        BY <1>4, ClearBatchesStep
  <1>5. ASSUME NEW sl \in Slot, Files!ClearJobs(sl)
        PROVE  \A r \in Files!Row : link'[r] \in {link[r], Files!NoFile}
        BY <1>5, ClearJobsStep
  <1>6. ASSUME NEW sl \in Slot, Files!LinkFile(sl)
        PROVE  /\ artifactReq[sl].op = "link" /\ artifactReq[sl].of \in Files!Row
               /\ artifactReq[sl].file \in File
               /\ link'[artifactReq[sl].of] = artifactReq[sl].file
               /\ \A r \in Files!Row : r # artifactReq[sl].of => link'[r] = link[r]
               /\ \A r \in Files!Row : link[r] # artifactReq[sl].file
               /\ \A s \in Slot \ {sl} : artifactReq[s].op = "unlink" =>
                                           artifactReq[sl].file \notin artifactReq[s].files
               /\ artifactReq' = [artifactReq EXCEPT ![sl] = Files!Idle]
        <2>1. /\ artifactReq[sl].op = "link"
              /\ artifactReq' = [artifactReq EXCEPT ![sl] = Files!Idle]
              BY <1>6 DEF Files!LinkFile, Files!GoOn
        <2>2. artifactReq[sl] \in FileLinks
              BY <1>6, LinkStep
        <2>3. /\ link'[artifactReq[sl].of] = artifactReq[sl].file
              /\ \A r \in Files!Row \ {artifactReq[sl].of} : link'[r] = link[r]
              BY <1>6, LinkStep
        <2>4. FreshLink(sl)
              BY DEF LinksFresh
        <2> QED BY <2>1, <2>2, <2>3, <2>4 DEF FreshLink, FileLinks
  <1> QED BY <1>1, <1>2, <1>3, <1>4, <1>5, <1>6, FileSteps DEF OnFiles

LEMMA ApartKept ==
  ASSUME FileRows, LinksFresh, LinksApart, Files!Next
  PROVE  LinksApart'
  <1>1. CASE \A r \in Files!Row : link'[r] \in {link[r], Files!NoFile}
        BY <1>1 DEF LinksApart
  <1>2. CASE ~\A r \in Files!Row : link'[r] \in {link[r], Files!NoFile}
        <2>1. PICK sl \in Slot :
                /\ artifactReq[sl].of \in Files!Row
                /\ link'[artifactReq[sl].of] = artifactReq[sl].file
                /\ \A r \in Files!Row : r # artifactReq[sl].of => link'[r] = link[r]
                /\ \A r \in Files!Row : link[r] # artifactReq[sl].file
              BY <1>2, LinksChange
        <2> QED BY <2>1 DEF LinksApart
  <1> QED BY <1>1, <1>2

LEMMA PurgesWholeKept ==
  ASSUME FileRows, LinksFresh, LinksApart, PurgesWhole, Files!Next
  PROVE  PurgesWhole'
  <1> DEFINE Whole(s) == artifactReq[s].op = "unlink" =>
        \A r \in Files!Row : link[r] \in artifactReq[s].files => r \in artifactReq[s].rows
  <1>1. \A s \in Slot : Whole(s)
        BY DEF PurgesWhole
  <1>2. \A s \in Slot : artifactReq[s].op = "unlink" => Files!NoFile \notin artifactReq[s].files
        BY NoFileIsNoFile
           DEF FileRows, FileRequest, Files!Idle, BatchItems, BatchSettles, FileWrites,
               FileLinks, Purges
  <1>3. ASSUME NEW s \in Slot, artifactReq'[s] = artifactReq[s]
        PROVE  Whole(s)'
        <2>1. CASE \A r \in Files!Row : link'[r] \in {link[r], Files!NoFile}
              BY <1>1, <1>2, <1>3, <2>1
        <2>2. CASE ~\A r \in Files!Row : link'[r] \in {link[r], Files!NoFile}
              <3>1. PICK sl \in Slot :
                      /\ artifactReq[sl].op = "link" /\ artifactReq[sl].of \in Files!Row
                      /\ link'[artifactReq[sl].of] = artifactReq[sl].file
                      /\ \A r \in Files!Row : r # artifactReq[sl].of => link'[r] = link[r]
                      /\ \A t \in Slot \ {sl} : artifactReq[t].op = "unlink" =>
                                                  artifactReq[sl].file \notin artifactReq[t].files
                    BY <2>2, LinksChange
              <3>2. CASE s = sl
                    BY <1>3, <3>1, <3>2
              <3>3. CASE s # sl
                    BY <1>1, <1>3, <3>1, <3>3
              <3> QED BY <3>2, <3>3
        <2> QED BY <2>1, <2>2
  <1>4. CASE Files!ProcessRestart
        BY <1>4 DEF Files!ProcessRestart, PurgesWhole, Files!Idle
  <1>5. ASSUME NEW sl \in Slot, OnBatches(sl) \/ OnFiles(sl)
        PROVE  PurgesWhole'
        <2>1. \A s \in Slot \ {sl} : artifactReq'[s] = artifactReq[s]
              BY <1>5, StepFrame
        <2>2. CASE Whole(sl)'
              <3>1. \A s \in Slot : Whole(s)'
                    BY <1>3, <2>1, <2>2
              <3> QED BY <3>1 DEF PurgesWhole
        <2>3. CASE OnBatches(sl) \/ Files!ReadForFile(sl)
              BY <2>2, <2>3, CalmStep
        <2>4. CASE Files!WriteFile(sl)
              <3>1. PICK f : artifactReq'[sl] = [op |-> "link", of |-> artifactReq[sl].of, file |-> f]
                    BY <2>4, WriteStep
              <3> QED BY <2>2, <3>1
        <2>5. CASE Files!LinkFile(sl)
              <3>1. artifactReq'[sl] = Files!Idle
                    BY <2>5, LinkStep
              <3> QED BY <2>2, <3>1 DEF Files!Idle
        <2>6. CASE Files!ReadForPurge(sl)
              <3>1. PICK old \in SUBSET {r \in Files!Row : link[r] # Files!NoFile} :
                      artifactReq'[sl] =
                        [op |-> "unlink", rows |-> old, files |-> {link[r] : r \in old}]
                    BY <2>6, PurgeStep
              <3>2. link' = link
                    BY <2>6 DEF Files!ReadForPurge
              <3>3. ASSUME NEW r \in Files!Row, link'[r] \in artifactReq'[sl].files
                    PROVE  r \in artifactReq'[sl].rows
                    <4>1. PICK t \in old : link[r] = link[t]
                          BY <3>1, <3>2, <3>3
                    <4>2. t \in Files!Row /\ link[t] # Files!NoFile
                          BY <3>1
                    <4>3. r = t
                          BY <4>1, <4>2 DEF LinksApart
                    <4> QED BY <3>1, <4>1, <4>3
              <3> QED BY <2>2, <3>3
        <2>7. CASE Files!DeleteFile(sl)
              <3>1. /\ artifactReq'[sl].rows = artifactReq[sl].rows
                    /\ artifactReq'[sl].files \subseteq artifactReq[sl].files
                    BY <2>7, DeleteStep
              <3>2. link' = link /\ artifactReq[sl].op = "unlink"
                    BY <2>7 DEF Files!DeleteFile
              <3> QED BY <1>1, <2>2, <3>1, <3>2
        <2>8. CASE Files!ClearBatches(sl)
              <3>1. artifactReq'[sl] = [op |-> "clearJobs", rows |-> artifactReq[sl].rows,
                                        files |-> artifactReq[sl].files]
                    BY <2>8, ClearBatchesStep
              <3> QED BY <2>2, <3>1
        <2>9. CASE Files!ClearJobs(sl)
              <3>1. artifactReq'[sl] = Files!Idle
                    BY <2>9, ClearJobsStep
              <3> QED BY <2>2, <3>1 DEF Files!Idle
        <2> QED BY <1>5, <2>3, <2>4, <2>5, <2>6, <2>7, <2>8, <2>9 DEF OnFiles
  <1> QED BY <1>4, <1>5, FileSteps

LEMMA LinksHoldKept ==
  ASSUME FileRows, LinksFresh, PurgesWhole, LinksHold, Files!Next
  PROVE  LinksHold'
  <1>1. CASE Files!ProcessRestart
        <2>1. restarts' # 0
              BY <1>1 DEF Files!ProcessRestart, FileRows
        <2> QED BY <2>1 DEF LinksHold
  <1>2. ASSUME NEW sl \in Slot, OnBatches(sl) \/ OnFiles(sl)
        PROVE  LinksHold'
        <2>1. /\ restarts' = restarts
              /\ \A s \in Slot \ {sl} : artifactReq'[s] = artifactReq[s]
              BY <1>2, StepFrame
        <2>2. SUFFICES ASSUME restarts = 0, NEW r \in Files!Row, link'[r] # Files!NoFile
                       PROVE  link'[r] \in disk' \/ \E s \in Slot : ToClear(s, r)'
              BY <2>1 DEF LinksHold
        <2>3. link[r] # Files!NoFile => link[r] \in disk \/ \E s \in Slot : ToClear(s, r)
              BY <2>2 DEF LinksHold
        <2>4. \A s \in Slot \ {sl} : ToClear(s, r) => ToClear(s, r)'
              BY <2>1 DEF ToClear
        <2>5. CASE /\ link'[r] = link[r] /\ disk \subseteq disk'
                   /\ artifactReq[sl].op \notin {"unlink", "clearBatches", "clearJobs"}
              <3>1. ~ToClear(sl, r)
                    BY <2>5 DEF ToClear
              <3> QED BY <2>2, <2>3, <2>4, <2>5, <3>1
        <2>6. CASE OnBatches(sl) \/ Files!ReadForFile(sl)
              BY <2>5, <2>6, CalmStep
        <2>7. CASE Files!WriteFile(sl)
              <3>1. disk \subseteq disk'
                    BY <2>7, WriteStep
              <3>2. link' = link /\ artifactReq[sl].op = "write"
                    BY <2>7 DEF Files!WriteFile
              <3> QED BY <2>5, <3>1, <3>2
        <2>8. CASE Files!LinkFile(sl)
              <3>1. /\ link'[artifactReq[sl].of] = artifactReq[sl].file
                    /\ \A t \in Files!Row \ {artifactReq[sl].of} : link'[t] = link[t]
                    BY <2>8, LinkStep
              <3>2. disk' = disk /\ artifactReq[sl].op = "link"
                    BY <2>8 DEF Files!LinkFile
              <3>3. FreshLink(sl)
                    BY DEF LinksFresh
              <3>4. artifactReq[sl].file \in disk
                    BY <3>2, <3>3 DEF FreshLink
              <3>5. CASE r = artifactReq[sl].of
                    BY <3>1, <3>2, <3>4, <3>5
              <3>6. CASE r # artifactReq[sl].of
                    BY <2>5, <3>1, <3>2, <3>6
              <3> QED BY <3>5, <3>6
        <2>9. CASE Files!ReadForPurge(sl)
              <3>1. PICK old \in SUBSET {t \in Files!Row : link[t] # Files!NoFile} :
                      artifactReq[sl] = Files!Idle
                    BY <2>9, PurgeStep
              <3>2. link' = link /\ disk' = disk
                    BY <2>9 DEF Files!ReadForPurge
              <3> QED BY <2>5, <3>1, <3>2 DEF Files!Idle
        <2>10. CASE Files!DeleteFile(sl)
              <3>1. PICK f \in artifactReq[sl].files :
                      /\ disk \ {f} \subseteq disk'
                      /\ artifactReq'[sl].rows = artifactReq[sl].rows
                      /\ artifactReq'[sl].op \in {"unlink", "clearBatches"}
                    BY <2>10, DeleteStep
              <3>2. link' = link /\ artifactReq[sl].op = "unlink"
                    BY <2>10 DEF Files!DeleteFile
              <3>3. CASE r \in artifactReq[sl].rows
                    <4>1. ToClear(sl, r)'
                          BY <3>1, <3>3 DEF ToClear
                    <4> QED BY <4>1
              <3>4. CASE r \notin artifactReq[sl].rows
                    <4>1. link[r] # f
                          BY <3>1, <3>2, <3>4 DEF PurgesWhole
                    <4>2. ~ToClear(sl, r)
                          BY <3>2, <3>4 DEF ToClear
                    <4> QED BY <2>2, <2>3, <2>4, <3>1, <3>2, <4>1, <4>2
              <3> QED BY <3>3, <3>4
        <2>11. CASE Files!ClearBatches(sl)
              <3>1. /\ link'[r] = IF r \in artifactReq[sl].rows \cap Batch THEN Files!NoFile ELSE link[r]
                    /\ artifactReq'[sl] = [op |-> "clearJobs", rows |-> artifactReq[sl].rows,
                                           files |-> artifactReq[sl].files]
                    BY <2>11, ClearBatchesStep
              <3>2. artifactReq[sl].op = "clearBatches" /\ disk' = disk
                    BY <2>11 DEF Files!ClearBatches
              <3>3. link'[r] = link[r] /\ ~(r \in artifactReq[sl].rows \cap Batch)
                    BY <2>2, <3>1
              <3>4. ToClear(sl, r) => ToClear(sl, r)'
                    BY <3>1, <3>2, <3>3 DEF ToClear, Files!Row
              <3> QED BY <2>2, <2>3, <2>4, <3>2, <3>3, <3>4
        <2>12. CASE Files!ClearJobs(sl)
              <3>1. link'[r] = IF r \in artifactReq[sl].rows \cap PrintJob THEN Files!NoFile ELSE link[r]
                    BY <2>12, ClearJobsStep
              <3>2. artifactReq[sl].op = "clearJobs" /\ disk' = disk
                    BY <2>12 DEF Files!ClearJobs
              <3>3. link'[r] = link[r] /\ ~(r \in artifactReq[sl].rows \cap PrintJob)
                    BY <2>2, <3>1
              <3>4. ~ToClear(sl, r)
                    BY <3>2, <3>3 DEF ToClear
              <3> QED BY <2>2, <2>3, <2>4, <3>2, <3>3, <3>4
        <2> QED BY <1>2, <2>6, <2>7, <2>8, <2>9, <2>10, <2>11, <2>12 DEF OnFiles
  <1> QED BY <1>1, <1>2, FileSteps

(* One request at a time: when one of them takes a step the others rest.   *)
LEMMA FilesAlone ==
  ASSUME FileRows, FileBusyBound, FileBusyBound', load = 1, NEW sl \in Slot,
         OnBatches(sl) \/ OnFiles(sl), NEW s \in Slot \ {sl}
  PROVE  artifactReq[s] = Files!Idle /\ artifactReq'[s] = Files!Idle
  <1>1. /\ load' = load /\ artifactReq'[s] = artifactReq[s]
        BY StepFrame
  <1>2. SUFFICES ASSUME s \in Files!Busy
                 PROVE  FALSE
        BY <1>1 DEF Files!Busy
  <1>3. Files!Busy \in SUBSET Slot /\ Files!Busy' \in SUBSET Slot /\ s \in Files!Busy'
        BY <1>1, <1>2 DEF Files!Busy
  <1>4. Cardinality(Files!Busy) \in Nat /\ Cardinality(Files!Busy) <= 1 /\ IsFiniteSet(Files!Busy)
        BY <1>3, FilesFinite DEF FileBusyBound
  <1>5. Cardinality({s}) = 1 /\ {s} \in SUBSET Files!Busy
        BY <1>2, FS_Singleton
  <1>6. Cardinality({s}) <= Cardinality(Files!Busy)
        BY <1>3, <1>5, FilesFinite
  <1>7. Files!Busy = {s}
        BY <1>4, <1>5, <1>6, FS_Subset
  <1>8. artifactReq[sl].op = "idle"
        BY <1>7 DEF Files!Busy, Files!Idle
  <1>9. Files!OpenBatch(sl) \/ Files!ReadForFile(sl) \/ Files!ReadForPurge(sl)
        BY <1>8 DEF OnBatches, OnFiles, Files!WriteItems, Files!SettleBatch,
                    Files!WriteFile, Files!LinkFile, Files!DeleteFile,
                    Files!ClearBatches, Files!ClearJobs
  <1>10. \E q : Files!Enter(sl, q)
        BY <1>9 DEF Files!OpenBatch, Files!ReadForFile, Files!ReadForPurge
  <1>11. Cardinality(Files!Busy) < load
        BY <1>10, Enters
  <1> QED BY <1>5, <1>7, <1>11

LEMMA NewestKept ==
  ASSUME FileRows, FileBusyBound, FileBusyBound', LinksFresh, NewestLinked, Files!Next
  PROVE  NewestLinked'
  <1>1. CASE Files!ProcessRestart
        <2>1. restarts' # 0
              BY <1>1 DEF Files!ProcessRestart, FileRows
        <2> QED BY <2>1 DEF NewestLinked
  <1>2. ASSUME NEW sl \in Slot, OnBatches(sl) \/ OnFiles(sl)
        PROVE  NewestLinked'
        <2>1. load' = load /\ restarts' = restarts
              BY <1>2, StepFrame
        <2>2. SUFFICES ASSUME load = 1, restarts = 0
                       PROVE  /\ \A r \in Files!Row : newest'[r] \in Loose' =>
                                   link'[r] = newest'[r] \/ Linking(r)'
                              /\ artifactReq'[sl].op = "link" =>
                                   artifactReq'[sl].file = newest'[artifactReq'[sl].of]
                              /\ PurgeTakes(sl)'
              <3>1. CASE load = 1 /\ restarts = 0
                    <4>1. \A s \in Slot \ {sl} : artifactReq'[s] = Files!Idle
                          BY <1>2, <3>1, FilesAlone
                    <4>2. \A s \in Slot \ {sl} : artifactReq'[s].op # "link" /\ PurgeTakes(s)'
                          BY <4>1 DEF PurgeTakes, ToClear, Files!Idle
                    <4>3. \A s \in Slot : PurgeTakes(s)'
                          BY <2>2, <3>1, <4>2
                    <4>4. \A s \in Slot : artifactReq'[s].op = "link" =>
                                            artifactReq'[s].file = newest'[artifactReq'[s].of]
                          BY <2>2, <3>1, <4>2
                    <4> QED BY <2>2, <3>1, <4>3, <4>4 DEF NewestLinked
              <3>2. CASE ~(load = 1 /\ restarts = 0)
                    BY <2>1, <3>2 DEF NewestLinked
              <3> QED BY <3>1, <3>2
        <2>3. \A s \in Slot \ {sl} : artifactReq[s] = Files!Idle
              BY <1>2, <2>2, FilesAlone
        <2>4. /\ \A r \in Files!Row : newest[r] \in Loose => link[r] = newest[r] \/ Linking(r)
              /\ artifactReq[sl].op = "link" => artifactReq[sl].file = newest[artifactReq[sl].of]
              /\ PurgeTakes(sl)
              BY <2>2 DEF NewestLinked
        <2>5. \A r \in Files!Row : Linking(r) =>
                /\ artifactReq[sl].op = "link" /\ artifactReq[sl].of = r
                /\ artifactReq[sl].file = newest[r]
              BY <2>3 DEF Linking, Files!Idle
        <2>6. Files!NoFile \notin Loose /\ Files!NoFile \notin File
              BY NoFileIsNoFile DEF FileRows, Loose
        <2>7. CASE OnBatches(sl) \/ Files!ReadForFile(sl)
              <3>1. /\ link' = link /\ newest' = newest /\ Loose' = Loose
                    /\ artifactReq[sl].op # "link"
                    /\ artifactReq'[sl].op \in {"idle", "items", "settle", "write"}
                    BY <2>7, CalmStep DEF Loose
              <3>2. \A r \in Files!Row : newest'[r] \in Loose' => link'[r] = newest'[r]
                    BY <2>4, <2>5, <3>1
              <3>3. PurgeTakes(sl)'
                    BY <3>1 DEF PurgeTakes, ToClear
              <3> QED BY <3>1, <3>2, <3>3
        <2>8. CASE Files!WriteFile(sl)
              <3>1. PICK f \in File \ written :
                      /\ Loose' = Loose \cup {f}
                      /\ newest' = [newest EXCEPT ![artifactReq[sl].of] = f]
                      /\ artifactReq'[sl] = [op |-> "link", of |-> artifactReq[sl].of, file |-> f]
                    BY <2>8, WriteStep
              <3>2. link' = link /\ artifactReq[sl].op = "write"
                    BY <2>8 DEF Files!WriteFile
              <3>3. artifactReq[sl].of \in Files!Row
                    BY <2>8, WriteStep DEF FileWrites
              <3>4. newest'[artifactReq[sl].of] = f
                    BY <3>1, <3>3 DEF FileRows
              <3>5. ASSUME NEW r \in Files!Row, newest'[r] \in Loose'
                    PROVE  link'[r] = newest'[r] \/ Linking(r)'
                    <4>1. CASE r = artifactReq[sl].of
                          BY <3>1, <3>4, <4>1 DEF Linking
                    <4>2. CASE r # artifactReq[sl].of
                          <5>1. newest'[r] = newest[r]
                                BY <3>1, <4>2 DEF FileRows
                          <5>2. newest[r] \in written \cup {Files!NoFile}
                                BY DEF FileRows
                          <5>3. newest[r] \in Loose
                                BY <2>6, <3>1, <3>5, <5>1, <5>2
                          <5> QED BY <2>4, <2>5, <3>2, <5>1, <5>3
                    <4> QED BY <4>1, <4>2
              <3>6. PurgeTakes(sl)'
                    BY <3>1 DEF PurgeTakes, ToClear
              <3> QED BY <3>1, <3>4, <3>5, <3>6
        <2>9. CASE Files!LinkFile(sl)
              <3>1. /\ link'[artifactReq[sl].of] = artifactReq[sl].file
                    /\ \A t \in Files!Row \ {artifactReq[sl].of} : link'[t] = link[t]
                    /\ artifactReq'[sl] = Files!Idle
                    BY <2>9, LinkStep
              <3>2. Loose' = Loose /\ newest' = newest /\ artifactReq[sl].op = "link"
                    BY <2>9 DEF Files!LinkFile, Loose
              <3>3. \A r \in Files!Row : newest'[r] \in Loose' => link'[r] = newest'[r]
                    BY <2>4, <2>5, <3>1, <3>2
              <3>4. PurgeTakes(sl)'
                    BY <3>1 DEF PurgeTakes, ToClear, Files!Idle
              <3> QED BY <3>1, <3>3, <3>4 DEF Files!Idle
        <2>10. CASE Files!ReadForPurge(sl)
              <3>1. PICK old \in SUBSET {t \in Files!Row : link[t] # Files!NoFile} :
                      /\ artifactReq[sl] = Files!Idle
                      /\ artifactReq'[sl] =
                           [op |-> "unlink", rows |-> old, files |-> {link[t] : t \in old}]
                    BY <2>10, PurgeStep
              <3>2. link' = link /\ Loose' = Loose /\ newest' = newest
                    BY <2>10 DEF Files!ReadForPurge, Loose
              <3>3. \A r \in Files!Row : newest'[r] \in Loose' => link'[r] = newest'[r]
                    BY <2>4, <2>5, <3>1, <3>2 DEF Files!Idle
              <3>4. PurgeTakes(sl)'
                    BY <3>1, <3>2 DEF PurgeTakes, ToClear
              <3> QED BY <3>1, <3>3, <3>4
        <2>11. CASE Files!DeleteFile(sl)
              <3>1. PICK f \in artifactReq[sl].files :
                      /\ Loose' = Loose \ {f}
                      /\ artifactReq'[sl].rows = artifactReq[sl].rows
                      /\ artifactReq'[sl].files = artifactReq[sl].files \ {f}
                      /\ \/ artifactReq'[sl].op = "unlink"
                         \/ artifactReq'[sl].op = "clearBatches" /\ artifactReq[sl].files = {f}
                    BY <2>11, DeleteStep
              <3>2. link' = link /\ newest' = newest /\ artifactReq[sl].op = "unlink"
                    BY <2>11 DEF Files!DeleteFile
              <3>3. \A r \in Files!Row : newest'[r] \in Loose' => link'[r] = newest'[r]
                    BY <2>4, <2>5, <3>1, <3>2
              <3>4. ASSUME NEW r \in Files!Row, ToClear(sl, r)'
                    PROVE  \/ link'[r] \notin Loose'
                           \/ artifactReq'[sl].op = "unlink" /\ link'[r] \in artifactReq'[sl].files
                    <4>1. r \in artifactReq[sl].rows
                          BY <3>1, <3>4 DEF ToClear
                    <4>2. ToClear(sl, r)
                          BY <3>2, <4>1 DEF ToClear
                    <4>3. link[r] \notin Loose \/ link[r] \in artifactReq[sl].files
                          BY <2>4, <4>2 DEF PurgeTakes
                    <4> QED BY <3>1, <3>2, <4>3
              <3>5. PurgeTakes(sl)'
                    BY <3>4 DEF PurgeTakes
              <3> QED BY <3>1, <3>3, <3>5
        <2>12. CASE Files!ClearBatches(sl)
              <3>1. /\ \A r \in Files!Row : link'[r] =
                         IF r \in artifactReq[sl].rows \cap Batch THEN Files!NoFile ELSE link[r]
                    /\ artifactReq'[sl] = [op |-> "clearJobs", rows |-> artifactReq[sl].rows,
                                           files |-> artifactReq[sl].files]
                    BY <2>12, ClearBatchesStep
              <3>2. artifactReq[sl].op = "clearBatches" /\ Loose' = Loose /\ newest' = newest
                    BY <2>12 DEF Files!ClearBatches, Loose
              <3>3. \A r \in artifactReq[sl].rows \cap Files!Row : link[r] \notin Loose
                    BY <2>4, <3>2 DEF PurgeTakes, ToClear
              <3>4. \A r \in Files!Row : newest'[r] \in Loose' => link'[r] = newest'[r]
                    BY <2>4, <2>5, <3>1, <3>2, <3>3
              <3>5. ASSUME NEW r \in Files!Row, ToClear(sl, r)'
                    PROVE  link'[r] \notin Loose'
                    <4>1. r \in artifactReq[sl].rows
                          BY <3>1, <3>5 DEF ToClear
                    <4> QED BY <2>6, <3>1, <3>2, <3>3, <4>1
              <3>6. PurgeTakes(sl)'
                    BY <3>5 DEF PurgeTakes
              <3> QED BY <3>1, <3>4, <3>6
        <2>13. CASE Files!ClearJobs(sl)
              <3>1. /\ \A r \in Files!Row : link'[r] =
                         IF r \in artifactReq[sl].rows \cap PrintJob THEN Files!NoFile ELSE link[r]
                    /\ artifactReq'[sl] = Files!Idle
                    BY <2>13, ClearJobsStep
              <3>2. artifactReq[sl].op = "clearJobs" /\ Loose' = Loose /\ newest' = newest
                    BY <2>13 DEF Files!ClearJobs, Loose
              <3>3. \A r \in Files!Row : r \in artifactReq[sl].rows \cap PrintJob => link[r] \notin Loose
                    BY <2>4, <3>2 DEF PurgeTakes, ToClear
              <3>4. \A r \in Files!Row : newest'[r] \in Loose' => link'[r] = newest'[r]
                    BY <2>4, <2>5, <3>1, <3>2, <3>3
              <3>5. PurgeTakes(sl)'
                    BY <3>1 DEF PurgeTakes, ToClear, Files!Idle
              <3> QED BY <3>1, <3>4, <3>5 DEF Files!Idle
        <2> QED BY <1>2, <2>7, <2>8, <2>9, <2>10, <2>11, <2>12, <2>13 DEF OnFiles
  <1> QED BY <1>1, <1>2, FileSteps

(* A restart abandons no more batches than it cuts requests off.           *)
LEMMA AbandonedByRestart ==
  ASSUME FileRows, FileBusyBound, AbandonedBound, Files!ProcessRestart
  PROVE  AbandonedBound'
  <1> DEFINE W == {sl \in Slot : Makes(sl)}
             f == [sl \in W |-> artifactReq[sl].of]
             T == {artifactReq[sl].of : sl \in W}
  <1>1. load \in Nat /\ restarts \in Nat /\ load' = load /\ restarts' = restarts + 1
        BY TemplatesAssumption DEF FileRows, Files!ProcessRestart
  <1>2. W \in SUBSET Files!Busy /\ Files!Busy \in SUBSET Slot
        BY DEF Files!Busy, Files!Idle, Makes
  <1>3. IsFiniteSet(W) /\ Cardinality(W) <= load /\ Cardinality(W) \in Nat
        <2>1. W \in SUBSET Slot /\ Cardinality(W) <= Cardinality(Files!Busy)
              BY <1>2, FilesFinite
        <2>2. /\ Cardinality(W) \in Nat /\ Cardinality(Files!Busy) \in Nat /\ IsFiniteSet(W)
              /\ Cardinality(Files!Busy) <= load
              BY <1>2, <2>1, FilesFinite DEF FileBusyBound
        <2> QED BY <1>1, <2>1, <2>2
  <1>4. f \in Surjection(W, T)
        BY DEF Surjection
  <1> HIDE DEF f, T, W
  <1>5. IsFiniteSet(T) /\ Cardinality(T) <= Cardinality(W)
        BY <1>3, <1>4, FS_Surjection
  <1>6. Abandoned' \subseteq Abandoned \cup T
        <2>1. batch' = batch /\ Files!Made' = Files!Made
              BY DEF Files!ProcessRestart, Files!Made
        <2>2. ASSUME NEW b \in Abandoned', b \notin Abandoned
              PROVE  b \in T
              <3>1. Files!BeingMade(b)
                    BY <2>1, <2>2 DEF Abandoned
              <3>2. PICK sl \in Slot : Makes(sl) /\ artifactReq[sl].of = b
                    BY <3>1 DEF Files!BeingMade, Makes
              <3> QED BY <3>2 DEF T, W
        <2> QED BY <2>2
  <1>7. IsFiniteSet(Abandoned) /\ Cardinality(Abandoned) <= restarts * load
        BY DEF AbandonedBound
  <1>8. /\ IsFiniteSet(Abandoned \cup T)
        /\ Cardinality(Abandoned \cup T) <= Cardinality(Abandoned) + Cardinality(T)
        <2>1. /\ IsFiniteSet(Abandoned \cup T) /\ IsFiniteSet(Abandoned \cap T)
              /\ Cardinality(Abandoned \cup T)
                   = Cardinality(Abandoned) + Cardinality(T) - Cardinality(Abandoned \cap T)
              BY <1>5, <1>7, FS_Union, FS_Subset
        <2> QED BY <1>5, <1>7, <2>1, FS_CardinalityType
  <1>9. IsFiniteSet(Abandoned') /\ Cardinality(Abandoned') <= Cardinality(Abandoned \cup T)
        BY <1>6, <1>8, FS_Subset
  <1>10. /\ Cardinality(Abandoned) \in Nat /\ Cardinality(T) \in Nat
         /\ Cardinality(Abandoned \cup T) \in Nat /\ Cardinality(Abandoned') \in Nat
        BY <1>5, <1>7, <1>8, <1>9, FS_CardinalityType
  <1>11. (restarts + 1) * load = restarts * load + load /\ restarts * load \in Nat
        BY <1>1
  <1>12. Cardinality(Abandoned') <= restarts * load + load
        BY <1>1, <1>3, <1>5, <1>7, <1>8, <1>9, <1>10, <1>11
  <1> QED BY <1>1, <1>9, <1>11, <1>12 DEF AbandonedBound

LEMMA AbandonedKept ==
  ASSUME FileRows, FileBusyBound, AbandonedBound, Files!Next
  PROVE  AbandonedBound'
  <1>1. CASE Files!ProcessRestart
        BY <1>1, AbandonedByRestart
  <1>2. ASSUME NEW sl \in Slot, OnBatches(sl) \/ OnFiles(sl)
        PROVE  AbandonedBound'
        <2>1. /\ load' = load /\ restarts' = restarts /\ load \in Nat /\ restarts \in Nat
              /\ \A s \in Slot \ {sl} : artifactReq'[s] = artifactReq[s]
              BY <1>2, StepFrame
        <2>2. SUFFICES Abandoned' \subseteq Abandoned
              <3>1. ASSUME Abandoned' \subseteq Abandoned
                    PROVE  AbandonedBound'
                    <4>1. IsFiniteSet(Abandoned) /\ Cardinality(Abandoned) <= restarts * load
                          BY DEF AbandonedBound
                    <4>2. /\ IsFiniteSet(Abandoned')
                          /\ Cardinality(Abandoned') <= Cardinality(Abandoned)
                          BY <3>1, <4>1, FS_Subset
                    <4>3. /\ Cardinality(Abandoned) \in Nat /\ Cardinality(Abandoned') \in Nat
                          /\ restarts * load \in Nat
                          BY <2>1, <4>1, <4>2, FS_CardinalityType
                    <4>4. Cardinality(Abandoned') <= restarts * load
                          BY <4>1, <4>2, <4>3
                    <4>5. restarts' * load' = restarts * load
                          BY <2>1
                    <4> QED BY <4>2, <4>4, <4>5 DEF AbandonedBound
              <3> QED BY <3>1
        <2>3. \A b : Files!BeingMade(b) <=> \E s \in Slot : Makes(s) /\ artifactReq[s].of = b
              BY DEF Files!BeingMade, Makes
        <2>4. \A b : Files!BeingMade(b)' <=> \E s \in Slot : Makes(s)' /\ artifactReq'[s].of = b
              BY DEF Files!BeingMade, Makes
        <2>5. \A s \in Slot \ {sl} : Makes(s)' <=> Makes(s)
              BY <2>1 DEF Makes
        <2>6. \A b : Files!BeingMade(b) => Files!BeingMade(b)' \/ (Makes(sl) /\ artifactReq[sl].of = b)
              BY <2>1, <2>3, <2>4, <2>5
        <2>7. \A b : Makes(sl)' /\ artifactReq'[sl].of = b => Files!BeingMade(b)'
              BY <2>4
        <2>8. ASSUME NEW b \in Abandoned'
              PROVE  b \in Abandoned
              <3>1. b \in Files!Made' /\ batch'[b].status = "PROCESSING" /\ ~Files!BeingMade(b)'
                    BY <2>8 DEF Abandoned
              <3>2. b \in Batch
                    BY <3>1 DEF Files!Made
              <3>3. CASE OnFiles(sl)
                    <4>1. batch' = batch /\ Files!Made' = Files!Made /\ ~Makes(sl)
                          BY <3>3, OnFilesFrame
                    <4> QED BY <2>6, <3>1, <4>1 DEF Abandoned
              <3>4. CASE Files!OpenBatch(sl)
                    <4>1. PICK c \in Batch \ Files!Made, students \in SUBSET Member :
                            /\ artifactReq[sl] = Files!Idle
                            /\ artifactReq'[sl] = [op |-> "items", of |-> c, students |-> students]
                            /\ \A d \in Batch \ {c} : batch'[d] = batch[d]
                            /\ Files!Made' = Files!Made \cup {c}
                          BY <3>4, OpenStep
                    <4>2. Makes(sl)' /\ artifactReq'[sl].of = c /\ ~Makes(sl)
                          BY <4>1 DEF Makes, Files!Idle
                    <4>3. b # c
                          BY <2>7, <3>1, <4>2
                    <4>4. b \in Files!Made /\ batch'[b] = batch[b] /\ ~Files!BeingMade(b)
                          BY <2>6, <3>1, <3>2, <4>1, <4>2, <4>3
                    <4> QED BY <3>1, <4>4 DEF Abandoned
              <3>5. CASE Files!WriteItems(sl)
                    <4>1. PICK valid \in SUBSET artifactReq[sl].students :
                            artifactReq'[sl] = [op |-> "settle", of |-> artifactReq[sl].of,
                                                good |-> Cardinality(valid),
                                                bad |-> Cardinality(artifactReq[sl].students \ valid)]
                          BY <3>5, ItemsStep
                    <4>2. batch' = batch /\ Files!Made' = Files!Made
                          BY <3>5 DEF Files!WriteItems, Files!Made
                    <4>3. Makes(sl)' /\ artifactReq'[sl].of = artifactReq[sl].of
                          BY <4>1 DEF Makes
                    <4>4. ~Files!BeingMade(b)
                          BY <2>6, <2>7, <3>1, <4>3
                    <4> QED BY <3>1, <4>2, <4>4 DEF Abandoned
              <3>6. CASE Files!SettleBatch(sl)
                    <4>1. /\ artifactReq[sl] \in BatchSettles /\ Files!Made' = Files!Made
                          /\ \A c \in Batch \ {artifactReq[sl].of} : batch'[c] = batch[c]
                          /\ batch'[artifactReq[sl].of].status
                               = Files!Settled(artifactReq[sl].good, artifactReq[sl].bad)
                          BY <3>6, SettleStep
                    <4>2. artifactReq[sl].good \in Nat /\ artifactReq[sl].bad \in Nat
                          BY <4>1 DEF BatchSettles
                    <4>3. batch'[artifactReq[sl].of].status # "PROCESSING"
                          BY <4>1, <4>2 DEF Files!Settled
                    <4>4. b # artifactReq[sl].of
                          BY <3>1, <4>3
                    <4>5. ~Files!BeingMade(b) /\ batch'[b] = batch[b]
                          BY <2>6, <3>1, <3>2, <4>1, <4>4
                    <4> QED BY <3>1, <4>1, <4>5 DEF Abandoned
              <3> QED BY <1>2, <3>3, <3>4, <3>5, <3>6 DEF OnBatches
        <2> QED BY <2>8
  <1> QED BY <1>1, <1>2, FileSteps

SameItems(b) == \A s \in Member : item'[<<b, s>>] = item[<<b, s>>]

LEMMA SameItemsCount ==
  ASSUME NEW b, SameItems(b)
  PROVE  /\ Files!Rendered(b)' = Files!Rendered(b) /\ Files!Failed(b)' = Files!Failed(b)
         /\ Untouched(b)' <=> Untouched(b)
  BY DEF SameItems, Files!Rendered, Files!Failed, Untouched

(* A request goes on as it was while another one makes another batch.      *)
LEMMA MakingKept ==
  ASSUME FileRows, NEW sl \in Slot, OnBatches(sl) \/ OnFiles(sl), NEW s \in Slot \ {sl},
         InTheMaking(s),
         Makes(s) => /\ batch'[artifactReq[s].of] = batch[artifactReq[s].of]
                     /\ SameItems(artifactReq[s].of)
                     /\ Makes(sl)' => artifactReq'[sl].of # artifactReq[s].of
  PROVE  InTheMaking(s)'
  <1>1. \A t \in Slot \ {sl} : artifactReq'[t] = artifactReq[t]
        BY StepFrame
  <1>2. \A t \in Slot \ {sl} : Makes(t)' <=> Makes(t)
        BY <1>1 DEF Makes
  <1>3. SUFFICES ASSUME Makes(s)
                 PROVE  InTheMaking(s)'
        BY <1>2 DEF InTheMaking, Makes
  <1>0. PICK b : b = artifactReq[s].of
        OBVIOUS
  <1>4. artifactReq'[s] = artifactReq[s] /\ artifactReq'[s].of = b
        BY <1>0, <1>1
  <1>5. batch'[b] = batch[b] /\ SameItems(b) /\ (Makes(sl)' => artifactReq'[sl].of # b)
        BY <1>0, <1>3
  <1>6. \A t \in Slot \ {s} : Makes(t)' => artifactReq'[t].of # b
        <2>1. \A t \in Slot \ {s} : Makes(t) => artifactReq[t].of # b
              BY <1>0, <1>3 DEF InTheMaking
        <2> QED BY <1>1, <1>2, <1>5, <2>1
  <1>7. batch'[b].status = "PROCESSING"
        BY <1>0, <1>3, <1>5 DEF InTheMaking
  <1>8. /\ Files!Rendered(b)' = Files!Rendered(b) /\ Files!Failed(b)' = Files!Failed(b)
        /\ Untouched(b)' <=> Untouched(b)
        BY <1>5, SameItemsCount
  <1>9. artifactReq[s].op = "items" =>
          Untouched(b)' /\ batch'[b].total = Cardinality(artifactReq[s].students)
        BY <1>0, <1>5, <1>8, FilesCount DEF InTheMaking
  <1>10. artifactReq[s].op = "settle" =>
           /\ artifactReq[s].good = Cardinality(Files!Rendered(b)')
           /\ artifactReq[s].bad = Cardinality(Files!Failed(b)')
           /\ batch'[b].total = artifactReq[s].good + artifactReq[s].bad /\ batch'[b].total # 0
        BY <1>0, <1>5, <1>8, FilesCount DEF InTheMaking, Counted
  <1>11. PICK g, n : g = artifactReq[s].good /\ n = artifactReq[s].bad
        OBVIOUS
  <1>12. artifactReq'[s].op = "settle" => Counted(b, g, n)'
        BY <1>4, <1>10, <1>11, FilesCount DEF Counted
  <1>13. artifactReq'[s].op = "items" =>
          Untouched(b)' /\ batch'[b].total = Cardinality(artifactReq'[s].students)
        BY <1>4, <1>9
  <1>14. g = artifactReq'[s].good /\ n = artifactReq'[s].bad
        BY <1>4, <1>11
  <1> QED BY <1>4, <1>6, <1>7, <1>12, <1>13, <1>14, FilesCount
     DEF InTheMaking, Untouched, Counted,
             Files!Rendered, Files!Failed

LEMMA MadeRightKept ==
  ASSUME NEW b, MadeRight(b), batch'[b] = batch[b], SameItems(b)
  PROVE  MadeRight(b)'
  <1>1. Files!Rendered(b)' = Files!Rendered(b) /\ Files!Failed(b)' = Files!Failed(b)
        BY SameItemsCount
  <1> QED BY <1>1, FilesCount DEF MadeRight, Counted, Files!Settled

LEMMA OpenKeepsBatches ==
  ASSUME FileRows, BatchesMade, NEW sl \in Slot, Files!OpenBatch(sl)
  PROVE  BatchesMade'
  <1>1. PICK b \in Batch \ Files!Made, students \in (SUBSET Member) \ {{}} :
          /\ artifactReq[sl] = Files!Idle /\ Cardinality(Files!Busy) < load
          /\ artifactReq'[sl] = [op |-> "items", of |-> b, students |-> students]
          /\ batch' \in [Batch -> BatchTyped \cup {Files!Unmade}]
          /\ batch'[b] = NewBatch(students)
          /\ \A c \in Batch \ {b} : batch'[c] = batch[c]
          /\ Files!Made' = Files!Made \cup {b}
        BY OpenStep
  <1>2. item' = item
        BY DEF Files!OpenBatch
  <1>3. \A c : SameItems(c)
        BY <1>2 DEF SameItems
  <1>4. \A c \in Batch \ Files!Made' : Untouched(c)'
        BY <1>1, <1>2 DEF BatchesMade, Untouched
  <1>5. /\ batch'[b].status = "PROCESSING"
        /\ batch'[b].total = Cardinality(students)
        BY <1>1 DEF NewBatch
  <1>6. \A c \in Files!Made' : MadeRight(c)'
        <2>1. MadeRight(b)'
              BY <1>5 DEF MadeRight
        <2>2. ASSUME NEW c \in Files!Made
              PROVE  MadeRight(c)'
              <3>1. batch'[c] = batch[c] /\ MadeRight(c)
                    BY <1>1 DEF BatchesMade, Files!Made
              <3> QED BY <1>3, <3>1, MadeRightKept
        <2> QED BY <1>1, <2>1, <2>2
  <1>7. \A s \in Slot : Makes(s) => artifactReq[s].of \in Files!Made /\ artifactReq[s].of \in Batch
        BY DEF FileRows, FileRequest, Makes, Files!Idle, BatchItems, BatchSettles,
               FileWrites, FileLinks,
               Purges
  <1>8. ASSUME NEW s \in Slot \ {sl}
        PROVE  InTheMaking(s)'
        <2>1. InTheMaking(s)
              BY DEF BatchesMade
        <2>2. Makes(s) => /\ batch'[artifactReq[s].of] = batch[artifactReq[s].of]
                          /\ artifactReq[s].of # b
              BY <1>1, <1>7
        <2>3. artifactReq'[sl].of = b
              BY <1>1
        <2> QED BY <1>3, <2>1, <2>2, <2>3, MakingKept DEF OnBatches
  <1>9. InTheMaking(sl)'
        <2>1. /\ artifactReq'[sl].op = "items" /\ artifactReq'[sl].of = b
              /\ artifactReq'[sl].students = students
              BY <1>1
        <2>2. Untouched(b)'
              BY <1>2 DEF BatchesMade, Untouched
        <2>3. \A s \in Slot \ {sl} : artifactReq'[s] = artifactReq[s]
              BY StepFrame DEF OnBatches
        <2>4. \A s \in Slot \ {sl} : Makes(s)' => artifactReq'[s].of # b
              BY <1>1, <1>7, <2>3 DEF Makes
        <2> QED BY <1>5, <2>1, <2>2, <2>4, FilesCount DEF InTheMaking, Untouched
  <1> QED BY <1>4, <1>6, <1>8, <1>9 DEF BatchesMade

LEMMA ItemsKeepBatches ==
  ASSUME FileRows, BatchesMade, NEW sl \in Slot, Files!WriteItems(sl)
  PROVE  BatchesMade'
  <1>0. PICK b, students : b = artifactReq[sl].of /\ students = artifactReq[sl].students
        OBVIOUS
  <1>1. /\ artifactReq[sl] \in BatchItems /\ b \in Files!Made
        /\ \A c \in Batch \ {b} : SameItems(c)
        BY <1>0, ItemsStep DEF SameItems
  <1>2. PICK valid \in SUBSET students :
          /\ artifactReq'[sl] = [op |-> "settle", of |-> b, good |-> Cardinality(valid),
                                 bad |-> Cardinality(students \ valid)]
          /\ \A s \in valid : item'[<<b, s>>] = "SUCCESS"
          /\ \A s \in students \ valid : item'[<<b, s>>] \in {"SKIPPED", "FAILED"}
          /\ \A s \in Member \ students : item'[<<b, s>>] = item[<<b, s>>]
        BY <1>0, ItemsStep
  <1>3. batch' = batch /\ Files!Made' = Files!Made
        BY DEF Files!WriteItems, Files!Made
  <1>4. /\ b \in Batch /\ students \subseteq Member /\ students # {}
        /\ artifactReq[sl].op = "items" /\ Makes(sl)
        BY <1>0, <1>1 DEF BatchItems, Makes
  <1>5. /\ batch[b].status = "PROCESSING" /\ Untouched(b)
        /\ batch[b].total = Cardinality(students)
        /\ \A s \in Slot \ {sl} : Makes(s) => artifactReq[s].of # b
        BY <1>0, <1>4, FilesCount DEF BatchesMade, InTheMaking
  <1>6. \A c \in Batch \ Files!Made' : Untouched(c)'
        <2>1. ASSUME NEW c \in Batch \ Files!Made
              PROVE  Untouched(c)'
              <3>1. SameItems(c) /\ Untouched(c)
                    BY <1>1 DEF BatchesMade
              <3> QED BY <3>1, SameItemsCount
        <2> QED BY <1>3, <2>1
  <1>7. \A c \in Files!Made' : MadeRight(c)'
        <2>1. MadeRight(b)'
              BY <1>3, <1>5 DEF MadeRight
        <2>2. ASSUME NEW c \in Files!Made, c # b
              PROVE  MadeRight(c)'
              <3>1. SameItems(c) /\ MadeRight(c) /\ batch'[c] = batch[c]
                    BY <1>1, <1>3, <2>2 DEF BatchesMade, Files!Made
              <3> QED BY <3>1, MadeRightKept
        <2> QED BY <1>3, <2>1, <2>2
  <1>8. \A s \in Slot : Makes(s) => artifactReq[s].of \in Batch
        BY DEF FileRows, FileRequest, Makes, Files!Idle, BatchItems, BatchSettles,
               FileWrites, FileLinks,
               Purges
  <1>9. ASSUME NEW s \in Slot \ {sl}
        PROVE  InTheMaking(s)'
        <2>1. InTheMaking(s)
              BY DEF BatchesMade
        <2>2. Makes(s) => SameItems(artifactReq[s].of) /\ artifactReq[s].of # b
              BY <1>1, <1>5, <1>8
        <2>3. artifactReq'[sl].of = b
              BY <1>2
        <2> QED BY <1>3, <2>1, <2>2, <2>3, MakingKept DEF OnBatches
  <1>10. Files!Rendered(b)' = valid /\ Files!Failed(b)' = students \ valid
        <2>1. \A s \in Member : item'[<<b, s>>] = "SUCCESS" <=> s \in valid
              BY <1>2, <1>4, <1>5 DEF Untouched
        <2>2. \A s \in Member : item'[<<b, s>>] \in {"SKIPPED", "FAILED"} <=> s \in students \ valid
              BY <1>2, <1>4, <1>5 DEF Untouched
        <2>3. Files!Rendered(b)' = {s \in Member : item'[<<b, s>>] = "SUCCESS"}
              BY DEF Files!Rendered
        <2>4. Files!Failed(b)' = {s \in Member : item'[<<b, s>>] \in {"SKIPPED", "FAILED"}}
              BY DEF Files!Failed
        <2>5. Files!Rendered(b)' = valid
              BY <1>2, <1>4, <2>1, <2>3
        <2>6. Files!Failed(b)' = students \ valid
              BY <1>2, <1>4, <2>2, <2>4
        <2> QED BY <2>5, <2>6
  <1>11. /\ Cardinality(students) = Cardinality(valid) + Cardinality(students \ valid)
         /\ Cardinality(students) # 0
         /\ Cardinality(valid) \in Nat /\ Cardinality(students \ valid) \in Nat
        <2>1. IsFiniteSet(students) /\ IsFiniteSet(valid) /\ IsFiniteSet(students \ valid)
              BY <1>2, <1>4, FilesFinite, FS_Subset
        <2>2. /\ Cardinality(students) \in Nat /\ Cardinality(valid) \in Nat
              /\ Cardinality(students \ valid) \in Nat
              BY <2>1, FS_CardinalityType
        <2>3. Cardinality(valid \cup (students \ valid)) =
                Cardinality(valid) + Cardinality(students \ valid) - Cardinality(valid \cap (students \ valid))
              BY <2>1, FS_Union
        <2>4. valid \cup (students \ valid) = students /\ valid \cap (students \ valid) = {}
              BY <1>2
        <2>5. Cardinality(valid \cap (students \ valid)) = 0
              BY <2>4, FS_EmptySet
        <2>6. Cardinality(students) # 0
              BY <1>4, <2>1, FS_EmptySet
        <2> QED BY <2>2, <2>3, <2>4, <2>5, <2>6
  <1>12. PICK g, n : g = Cardinality(valid) /\ n = Cardinality(students \ valid)
        OBVIOUS
  <1>13. Counted(b, g, n)'
        BY <1>3, <1>5, <1>10, <1>11, <1>12, FilesCount DEF Counted
  <1>14. InTheMaking(sl)'
        <2>1. /\ artifactReq'[sl].op = "settle" /\ artifactReq'[sl].of = b
              /\ artifactReq'[sl].good = g /\ artifactReq'[sl].bad = n
              BY <1>2, <1>12
        <2>2. \A s \in Slot \ {sl} : artifactReq'[s] = artifactReq[s]
              BY StepFrame DEF OnBatches
        <2>3. \A s \in Slot \ {sl} : Makes(s)' => artifactReq'[s].of # b
              BY <1>5, <2>2 DEF Makes
        <2> QED BY <1>3, <1>5, <1>13, <2>1, <2>3, FilesCount
           DEF InTheMaking, Counted, Files!Rendered, Files!Failed
  <1> QED BY <1>6, <1>7, <1>9, <1>14 DEF BatchesMade

LEMMA SettleKeepsBatches ==
  ASSUME FileRows, BatchesMade, NEW sl \in Slot, Files!SettleBatch(sl)
  PROVE  BatchesMade'
  <1>0. PICK b, g, n : b = artifactReq[sl].of /\ g = artifactReq[sl].good /\ n = artifactReq[sl].bad
        OBVIOUS
  <1>1. /\ artifactReq[sl] \in BatchSettles /\ b \in Files!Made /\ Files!Made' = Files!Made
        /\ artifactReq'[sl] = Files!Idle
        /\ \A c \in Batch \ {b} : batch'[c] = batch[c]
        /\ batch'[b].status = Files!Settled(g, n)
        /\ batch'[b].good = g /\ batch'[b].bad = n /\ batch'[b].total = batch[b].total
        BY <1>0, SettleStep
  <1>2. item' = item
        BY DEF Files!SettleBatch
  <1>3. \A c : SameItems(c)
        BY <1>2 DEF SameItems
  <1>4. \A c \in Batch \ Files!Made' : Untouched(c)'
        BY <1>1, <1>2 DEF BatchesMade, Untouched
  <1>5. artifactReq[sl].op = "settle" /\ Makes(sl)
        BY <1>1 DEF BatchSettles, Makes
  <1>6. Counted(b, g, n) /\ \A s \in Slot \ {sl} : Makes(s) => artifactReq[s].of # b
        BY <1>0, <1>5, FilesCount DEF BatchesMade, InTheMaking
  <1>7. \A c \in Files!Made' : MadeRight(c)'
        <2>1. MadeRight(b)'
              <3>1. Files!Rendered(b)' = Files!Rendered(b) /\ Files!Failed(b)' = Files!Failed(b)
                    BY <1>3, SameItemsCount
              <3> QED BY <1>1, <1>6, <3>1, FilesCount
                 DEF MadeRight, Counted, Files!Settled
        <2>2. ASSUME NEW c \in Files!Made, c # b
              PROVE  MadeRight(c)'
              <3>1. SameItems(c) /\ MadeRight(c) /\ batch'[c] = batch[c]
                    BY <1>1, <1>3, <2>2 DEF BatchesMade, Files!Made
              <3> QED BY <3>1, MadeRightKept
        <2> QED BY <1>1, <2>1, <2>2
  <1>8. \A s \in Slot : Makes(s) => artifactReq[s].of \in Batch
        BY DEF FileRows, FileRequest, Makes, Files!Idle, BatchItems, BatchSettles,
               FileWrites, FileLinks,
               Purges
  <1>9. ~Makes(sl)'
        BY <1>1 DEF Makes, Files!Idle
  <1>10. ASSUME NEW s \in Slot \ {sl}
         PROVE  InTheMaking(s)'
        <2>1. InTheMaking(s)
              BY DEF BatchesMade
        <2>2. Makes(s) => batch'[artifactReq[s].of] = batch[artifactReq[s].of]
              BY <1>1, <1>6, <1>8
        <2> QED BY <1>3, <1>9, <2>1, <2>2, MakingKept DEF OnBatches
  <1>11. InTheMaking(sl)'
        BY <1>9, FilesCount DEF InTheMaking, Makes
  <1> QED BY <1>4, <1>7, <1>10, <1>11 DEF BatchesMade

LEMMA BatchesMadeKept ==
  ASSUME FileRows, BatchesMade, Files!Next
  PROVE  BatchesMade'
  <1>1. CASE Files!ProcessRestart
        <2>1. /\ batch' = batch /\ item' = item /\ Files!Made' = Files!Made
              /\ \A sl \in Slot : artifactReq'[sl].op = "idle"
              BY <1>1 DEF Files!ProcessRestart, Files!Made, Files!Idle
        <2>2. \A sl \in Slot : InTheMaking(sl)'
              BY <2>1, FilesCount DEF InTheMaking, Makes
        <2>3. \A b \in Batch \ Files!Made' : Untouched(b)'
              BY <2>1 DEF BatchesMade, Untouched
        <2>4. ASSUME NEW b \in Files!Made
              PROVE  MadeRight(b)'
              <3>1. SameItems(b) /\ MadeRight(b) /\ batch'[b] = batch[b]
                    BY <2>1 DEF SameItems, BatchesMade
              <3> QED BY <3>1, MadeRightKept
        <2> QED BY <2>1, <2>2, <2>3, <2>4 DEF BatchesMade
  <1>2. ASSUME NEW sl \in Slot, OnBatches(sl)
        PROVE  BatchesMade'
        BY <1>2, OpenKeepsBatches, ItemsKeepBatches, SettleKeepsBatches DEF OnBatches
  <1>3. ASSUME NEW sl \in Slot, OnFiles(sl)
        PROVE  BatchesMade'
        <2>1. /\ batch' = batch /\ item' = item /\ Files!Made' = Files!Made /\ ~Makes(sl)'
              BY <1>3, OnFilesFrame
        <2>2. \A b : SameItems(b)
              BY <2>1 DEF SameItems
        <2>3. \A b \in Batch \ Files!Made' : Untouched(b)'
              BY <2>1 DEF BatchesMade, Untouched
        <2>4. ASSUME NEW b \in Files!Made
              PROVE  MadeRight(b)'
              <3>1. MadeRight(b) /\ batch'[b] = batch[b]
                    BY <2>1 DEF BatchesMade
              <3> QED BY <2>2, <3>1, MadeRightKept
        <2>5. ASSUME NEW s \in Slot \ {sl}
              PROVE  InTheMaking(s)'
              BY <1>3, <2>1, <2>2, MakingKept DEF BatchesMade
        <2>6. InTheMaking(sl)'
              BY <2>1, FilesCount DEF InTheMaking, Makes
        <2> QED BY <2>1, <2>3, <2>4, <2>5, <2>6 DEF BatchesMade
  <1> QED BY <1>1, <1>2, <1>3, FileSteps

LEMMA FilesInit == Files!Init => FilesInv
  <1> SUFFICES ASSUME Files!Init PROVE FilesInv
      OBVIOUS
  <1>1. /\ Files!Made = {} /\ Files!Busy = {} /\ load \in Nat /\ 0 <= load /\ restarts = 0
        /\ \A sl \in Slot : artifactReq[sl] = Files!Idle /\ artifactReq[sl].op = "idle"
        /\ \A r \in Files!Row : link[r] = Files!NoFile /\ newest[r] = Files!NoFile
        /\ disk = {} /\ stuck = {} /\ written = {} /\ Loose = {}
        BY TemplatesAssumption DEF Files!Init, Files!Made, Files!Busy, Files!Idle, Loose
  <1>2. FileRows
        BY DEF Files!Init, FileRows, FileRequest
  <1>3. FileBusyBound
        BY <1>1, FS_EmptySet DEF FileBusyBound
  <1>4. LinksFresh /\ LinksApart /\ PurgesWhole /\ LinksHold
        BY <1>1 DEF LinksFresh, FreshLink, LinksApart, PurgesWhole, LinksHold
  <1>5. NewestLinked
        BY <1>1 DEF NewestLinked, PurgeTakes, ToClear
  <1>6. AbandonedBound
        <2>1. Abandoned = {} /\ 0 <= restarts * load
              BY <1>1 DEF Abandoned
        <2> QED BY <2>1, FS_EmptySet DEF AbandonedBound
  <1>7. BatchesMade
        <2>1. \A b \in Batch : Untouched(b)
              BY DEF Files!Init, Untouched
        <2>2. \A sl \in Slot : InTheMaking(sl)
              BY <1>1, FilesCount DEF InTheMaking, Makes
        <2> QED BY <1>1, <2>1, <2>2 DEF BatchesMade
  <1> QED BY <1>2, <1>3, <1>4, <1>5, <1>6, <1>7 DEF FilesInv

LEMMA FilesNext == FilesInv /\ [Files!Next]_Files!vars => FilesInv'
  <1> SUFFICES ASSUME FilesInv, [Files!Next]_Files!vars PROVE FilesInv'
      OBVIOUS
  <1>1. /\ FileRows /\ FileBusyBound
        /\ LinksFresh /\ LinksApart /\ PurgesWhole /\ LinksHold /\ NewestLinked
        /\ AbandonedBound /\ BatchesMade
        BY DEF FilesInv
  <1>2. CASE Files!Next
        <2>1. FileRows'
              BY <1>1, <1>2, FileRowsKept
        <2>2. FileBusyBound'
              BY <1>1, <1>2, FileBusyKept
        <2>3. LinksFresh' /\ LinksApart'
              BY <1>1, <1>2, <2>1, FreshKept, ApartKept
        <2>4. PurgesWhole' /\ LinksHold'
              BY <1>1, <1>2, PurgesWholeKept, LinksHoldKept
        <2>5. NewestLinked'
              BY <1>1, <1>2, <2>2, NewestKept
        <2>6. AbandonedBound' /\ BatchesMade'
              BY <1>1, <1>2, AbandonedKept, BatchesMadeKept
        <2> QED BY <2>1, <2>2, <2>3, <2>4, <2>5, <2>6 DEF FilesInv
  <1>3. CASE UNCHANGED Files!vars
        <2>1. /\ load' = load /\ batch' = batch /\ item' = item
              /\ link' = link /\ newest' = newest
              /\ written' = written /\ disk' = disk /\ stuck' = stuck /\ Loose' = Loose
              /\ artifactReq' = artifactReq
              /\ restarts' = restarts /\ Files!Made' = Files!Made /\ Files!Busy' = Files!Busy
              BY <1>3 DEF Files!vars, Files!Made, Files!Busy, Loose
        <2>2. FileRows' /\ FileBusyBound'
              BY <1>1, <2>1 DEF FileRows, FileRequest, FileBusyBound
        <2>3. LinksFresh' /\ LinksApart' /\ PurgesWhole'
              BY <1>1, <2>1 DEF LinksFresh, FreshLink, LinksApart, PurgesWhole
        <2>4. LinksHold' /\ NewestLinked'
              BY <1>1, <2>1 DEF LinksHold, ToClear, NewestLinked, Linking, PurgeTakes
        <2>5. AbandonedBound'
              BY <1>1, <2>1 DEF AbandonedBound, Abandoned, Files!BeingMade
        <2>6. \A sl \in Slot : InTheMaking(sl)'
              BY <1>1, <2>1 DEF BatchesMade, Untouched, InTheMaking, Makes, Counted,
                                Files!Rendered, Files!Failed
        <2>7. \A b \in Batch \ Files!Made' : Untouched(b)'
              BY <1>1, <2>1 DEF BatchesMade, Untouched
        <2>8. ASSUME NEW b \in Files!Made
              PROVE  MadeRight(b)'
              <3>1. SameItems(b) /\ MadeRight(b) /\ batch'[b] = batch[b]
                    BY <1>1, <2>1 DEF SameItems, BatchesMade
              <3> QED BY <3>1, MadeRightKept
        <2>9. BatchesMade'
              BY <2>1, <2>6, <2>7, <2>8 DEF BatchesMade
        <2> QED BY <2>2, <2>3, <2>4, <2>5, <2>9 DEF FilesInv
  <1> QED BY <1>2, <1>3

LEMMA LinksMatch == FilesInv => LinksMatchFiles
  <1> SUFFICES ASSUME FilesInv PROVE LinksMatchFiles
      OBVIOUS
  <1>1. LinksHold /\ NewestLinked
        BY DEF FilesInv
  <1>2. \A sl \in Slot, r \in Files!Row : ToClear(sl, r) => Files!BeingPurged(r)
        BY DEF ToClear, Files!BeingPurged
  <1>3. \A r \in Files!Row : link[r] # Files!NoFile /\ restarts = 0 => link[r] \in disk \/ Files!BeingPurged(r)
        BY <1>1, <1>2 DEF LinksHold
  <1>4. Files!Busy = {} => \A r \in Files!Row : ~Linking(r)
        BY DEF Files!Busy, Linking, Files!Idle
  <1>5. load = 1 /\ restarts = 0 /\ Files!Busy = {} =>
          \A r \in Files!Row : newest[r] \in disk \ stuck => link[r] = newest[r]
        BY <1>1, <1>4 DEF NewestLinked, Loose
  <1> QED BY <1>3, <1>5 DEF LinksMatchFiles, Files!LinksMatchFiles

LEMMA BatchesAgree == FilesInv => BatchesSettle
  <1> SUFFICES ASSUME FilesInv PROVE BatchesSettle
      OBVIOUS
  <1>1. AbandonedBound /\ BatchesMade
        BY DEF FilesInv
  <1>2. Cardinality(Abandoned) <= restarts * load
        BY <1>1 DEF AbandonedBound
  <1>3. ASSUME NEW b \in Files!Made, batch[b].status # "PROCESSING"
        PROVE  /\ batch[b].good = Cardinality(Files!Rendered(b))
               /\ batch[b].bad = Cardinality(Files!Failed(b))
               /\ batch[b].total = batch[b].good + batch[b].bad
               /\ batch[b].status = "COMPLETED" <=> Files!Failed(b) = {}
               /\ batch[b].status = "FAILED" <=> Files!Rendered(b) = {}
        <2>1. /\ batch[b].good = Cardinality(Files!Rendered(b))
              /\ batch[b].bad = Cardinality(Files!Failed(b))
              /\ batch[b].total = batch[b].good + batch[b].bad /\ batch[b].total # 0
              /\ batch[b].status = Files!Settled(batch[b].good, batch[b].bad)
              BY <1>1, <1>3 DEF BatchesMade, MadeRight, Counted
        <2>2. Files!Rendered(b) \in SUBSET Member /\ Files!Failed(b) \in SUBSET Member
              BY DEF Files!Rendered, Files!Failed
        <2>3. IsFiniteSet(Files!Rendered(b)) /\ IsFiniteSet(Files!Failed(b))
              BY <2>2, FilesFinite
        <2>4. /\ Cardinality(Files!Rendered(b)) = 0 <=> Files!Rendered(b) = {}
              /\ Cardinality(Files!Failed(b)) = 0 <=> Files!Failed(b) = {}
              BY <2>3, FS_EmptySet
        <2>5. Cardinality(Files!Rendered(b)) \in Nat /\ Cardinality(Files!Failed(b)) \in Nat
              BY <2>3, FS_CardinalityType
        <2>6. batch[b].good \in Nat /\ batch[b].bad \in Nat
              BY <2>1, <2>5
        <2>7. batch[b].status = "COMPLETED" <=> batch[b].bad = 0
              BY <2>1, <2>6 DEF Files!Settled
        <2>8. batch[b].status = "FAILED" <=> batch[b].good = 0
              BY <2>1, <2>6 DEF Files!Settled
        <2> QED BY <2>1, <2>4, <2>7, <2>8
  <1> QED BY <1>2, <1>3, FilesCount DEF BatchesSettle, Files!BatchesSettle, Abandoned

LEMMA FilesInvariant == Files!Spec => []FilesInv
  BY FilesInit, FilesNext, PTL DEF Files!Spec

(* A row links a file that is there, or is about to be cleared, for as long *)
(* as no restart cut a request off; and one request at a time, the newest  *)
(* file of a row is linked for as long as it is there, unless a purge that *)
(* could not delete it, and passed over the error of unlink, cleared the   *)
(* link all the same.                                                      *)
THEOREM LinksAreTrue == Files!Spec => []LinksMatchFiles
  BY FilesInvariant, LinksMatch, PTL

(* A batch that has left PROCESSING counts its items and says what they    *)
(* say; a restart alone leaves one there, one for each request it cut off. *)
THEOREM BatchesAreSettled == Files!Spec => []BatchesSettle
  BY FilesInvariant, BatchesAgree, PTL

----------------------------------------------------------------------------
(* Invoices and payments                                                   *)

(* Cardinality, as Books sees it through its instance.  *)
LEMMA BooksCount == \A S : Books!Cardinality(S) = Cardinality(S)
  BY DEF Books!Cardinality, Cardinality

InvoiceTyped == [status : {"UNPAID", "PARTIAL", "PAID"}, total : Nat, paid : Nat]
LedgerTyped ==
  [status : {"CREATED", "CAPTURED", "FAILED"}, invoice : Books!Issued, amount : Nat \ {0}]
BookOrders == [op : {"order"}, invoice : Books!Issued, amount : Nat \ {0}]
BookVerifies ==
  [op : {"verify"}, order : Books!Ordered, amountPaid : Nat \ {0}, read : InvoiceTyped]

BookRows ==
  /\ load \in 1..MaxLoad
  /\ invoice \in [Invoice -> InvoiceTyped \cup {Books!Unissued}]
  /\ ledger \in [Order -> LedgerTyped \cup {Books!NoOrder}]
  /\ credited \in [Invoice -> Nat]
  /\ billingReq \in [Slot -> BookOrders \cup BookVerifies \cup {Books!Idle}]

BookBusyBound == Cardinality(Books!Busy) <= load

(* The status of a row is that of its amount, also of one that was read;   *)
(* an exact amount leaves PARTIAL and PAID open.                           *)
StatusRight(row) ==
  /\ row.status = "UNPAID" <=> row.paid = 0
  /\ row.status = "PARTIAL" => row.paid <= row.total
  /\ row.status = "PAID" => row.paid >= row.total

(* What says that an amount was paid does not exceed what was credited.    *)
Covered(i, row) == row.paid <= credited[i] /\ (load = 1 => row.paid = credited[i])

BookReads(q) ==
  q.op = "verify" => StatusRight(q.read) /\ Covered(ledger[q.order].invoice, q.read)

BooksRight ==
  /\ \A i \in Books!Issued : StatusRight(invoice[i]) /\ Covered(i, invoice[i])
  /\ \A i \in Invoice \ Books!Issued : credited[i] = 0
  /\ \A sl \in Slot : BookReads(billingReq[sl])

BooksInv == BookRows /\ BookBusyBound /\ BooksRight

LEMMA BooksFinite ==
  /\ IsFiniteSet(Slot)
  /\ \A S \in SUBSET Slot : IsFiniteSet(S) /\ Cardinality(S) \in Nat
  /\ \A S \in SUBSET Slot : \A T \in SUBSET S : Cardinality(T) <= Cardinality(S)
  BY TemplatesAssumption, FS_Subset, FS_CardinalityType

LEMMA InvoiceTypedIssued ==
  ASSUME NEW row \in InvoiceTyped
  PROVE  row # Books!Unissued
  <1>1. row.status # "none"
        BY DEF InvoiceTyped
  <1> QED BY <1>1 DEF Books!Unissued

LEMMA LedgerTypedOrdered ==
  ASSUME NEW row \in LedgerTyped
  PROVE  row # Books!NoOrder
  <1>1. row.status # "none"
        BY DEF LedgerTyped
  <1> QED BY <1>1 DEF Books!NoOrder

LEMMA BookTypes ==
  ASSUME BookRows
  PROVE  /\ \A i \in Books!Issued : i \in Invoice /\ invoice[i] \in InvoiceTyped
         /\ \A o \in Books!Ordered :
              o \in Order /\ ledger[o] \in LedgerTyped /\ ledger[o].invoice \in Books!Issued
  <1>1. \A i \in Books!Issued : i \in Invoice /\ invoice[i] \in InvoiceTyped
        BY DEF BookRows, Books!Issued
  <1>2. \A o \in Books!Ordered : o \in Order /\ ledger[o] \in LedgerTyped
        BY DEF BookRows, Books!Ordered
  <1> QED BY <1>1, <1>2 DEF LedgerTyped

(* Requests and orders of what is issued stay so when more is.             *)
LEMMA BooksGrow ==
  ASSUME Books!Issued \subseteq Books!Issued', Books!Ordered \subseteq Books!Ordered'
  PROVE  /\ LedgerTyped \subseteq LedgerTyped'
         /\ BookOrders \subseteq BookOrders' /\ BookVerifies \subseteq BookVerifies'
  <1>1. LedgerTyped \subseteq LedgerTyped'
        BY DEF LedgerTyped
  <1>2. BookOrders \subseteq BookOrders'
        BY DEF BookOrders
  <1>3. BookVerifies \subseteq BookVerifies'
        BY DEF BookVerifies
  <1> QED BY <1>1, <1>2, <1>3

LEMMA BookRequests ==
  ASSUME BookRows, NEW sl \in Slot
  PROVE  /\ billingReq[sl].op = "order" => billingReq[sl] \in BookOrders
         /\ billingReq[sl].op = "verify" => billingReq[sl] \in BookVerifies
  BY DEF BookRows, BookOrders, BookVerifies, Books!Idle

(* What the steps write *)
LEMMA IssueStep ==
  ASSUME BookRows, Books!CreateInvoice
  PROVE  \E i \in Invoice \ Books!Issued :
           /\ Books!Issued' = Books!Issued \cup {i}
           /\ invoice' \in [Invoice -> InvoiceTyped \cup {Books!Unissued}]
           /\ invoice'[i].status = "UNPAID" /\ invoice'[i].paid = 0
           /\ \A k \in Invoice \ {i} : invoice'[k] = invoice[k]
  <1>1. PICK i \in Invoice \ Books!Issued, total \in Totals :
          invoice' = [invoice EXCEPT ![i] = [status |-> "UNPAID", total |-> total, paid |-> 0]]
        BY DEF Books!CreateInvoice
  <1>2. PICK row : row = [status |-> "UNPAID", total |-> total, paid |-> 0]
        OBVIOUS
  <1>3. row \in InvoiceTyped /\ row.status = "UNPAID" /\ row.paid = 0
        BY <1>2, BackofficeAssumption DEF InvoiceTyped
  <1>4. /\ invoice' \in [Invoice -> InvoiceTyped \cup {Books!Unissued}]
        /\ invoice'[i] = row /\ \A k \in Invoice \ {i} : invoice'[k] = invoice[k]
        BY <1>1, <1>2, <1>3 DEF BookRows
  <1>5. row # Books!Unissued
        BY <1>3, InvoiceTypedIssued
  <1>6. Books!Issued' = Books!Issued \cup {i}
        BY <1>4, <1>5 DEF Books!Issued
  <1> QED BY <1>3, <1>4, <1>6

LEMMA OrderStep ==
  ASSUME BookRows, NEW sl \in Slot, Books!CreateOrder(sl)
  PROVE  /\ Books!Issued' = Books!Issued /\ Books!Ordered \subseteq Books!Ordered'
         /\ ledger' \in [Order -> LedgerTyped \cup {Books!NoOrder}]
         /\ \A o \in Books!Ordered : ledger'[o] = ledger[o]
  <1>1. billingReq[sl] \in BookOrders
        BY BookRequests DEF Books!CreateOrder
  <1>2. PICK o \in Order \ Books!Ordered :
          ledger' = [ledger EXCEPT ![o] = [status |-> "CREATED", invoice |-> billingReq[sl].invoice,
                                           amount |-> billingReq[sl].amount]]
        BY DEF Books!CreateOrder
  <1>3. PICK row : row = [status |-> "CREATED", invoice |-> billingReq[sl].invoice,
                          amount |-> billingReq[sl].amount]
        OBVIOUS
  <1>4. row \in LedgerTyped
        BY <1>1, <1>3 DEF BookOrders, LedgerTyped
  <1>5. /\ ledger' \in [Order -> LedgerTyped \cup {Books!NoOrder}]
        /\ \A u \in Books!Ordered : ledger'[u] = ledger[u]
        BY <1>2, <1>3, <1>4 DEF BookRows, Books!Ordered
  <1>6. Books!Issued' = Books!Issued
        BY DEF Books!CreateOrder, Books!Issued
  <1>7. Books!Ordered \subseteq Books!Ordered'
        BY <1>5 DEF Books!Ordered
  <1> QED BY <1>5, <1>6, <1>7

(* The status of a ledger row, and nothing else of it, changes.            *)
LEMMA LedgerStep ==
  ASSUME BookRows, NEW o \in Books!Ordered, NEW st \in {"CAPTURED", "FAILED"},
         ledger' = [ledger EXCEPT ![o].status = st]
  PROVE  /\ ledger' \in [Order -> LedgerTyped \cup {Books!NoOrder}]
         /\ Books!Ordered' = Books!Ordered
         /\ \A u \in Books!Ordered : ledger'[u].invoice = ledger[u].invoice
  <1> DEFINE old == ledger[o]
  <1>1. o \in Order /\ old \in LedgerTyped
        BY BookTypes
  <1>2. ledger' = [ledger EXCEPT ![o] = [old EXCEPT !.status = st]]
        BY <1>1 DEF BookRows
  <1>3. PICK row : row = [old EXCEPT !.status = st]
        OBVIOUS
  <1> HIDE DEF old
  <1>4. row = [status |-> st, invoice |-> old.invoice, amount |-> old.amount]
        BY <1>1, <1>3 DEF LedgerTyped
  <1>5. row \in LedgerTyped /\ row.invoice = old.invoice
        BY <1>1, <1>4 DEF LedgerTyped
  <1>6. /\ ledger' \in [Order -> LedgerTyped \cup {Books!NoOrder}]
        /\ ledger'[o] = row /\ \A u \in Order \ {o} : ledger'[u] = ledger[u]
        BY <1>1, <1>2, <1>3, <1>5 DEF BookRows
  <1>7. row # Books!NoOrder
        BY <1>5, LedgerTypedOrdered
  <1>8. Books!Ordered' = Books!Ordered
        BY <1>6, <1>7 DEF Books!Ordered
  <1>9. \A u \in Books!Ordered : ledger'[u].invoice = ledger[u].invoice
        BY <1>5, <1>6 DEF Books!Ordered, old
  <1> QED BY <1>6, <1>8, <1>9

(* The comparison is open only where the sum is stored as the total.       *)
LEMMA SettlesIsRight ==
  ASSUME NEW read \in InvoiceTyped, NEW amountPaid \in Nat \ {0},
         NEW settles \in Books!Settles(read, amountPaid)
  PROVE  /\ settles => read.paid + amountPaid >= read.total
         /\ ~settles => read.paid + amountPaid <= read.total
  <1>1. read.paid \in Nat /\ read.total \in Nat
        BY DEF InvoiceTyped
  <1>2. CASE read.paid + amountPaid = read.total
        BY <1>1, <1>2
  <1>3. CASE read.paid + amountPaid # read.total
        <2>1. settles = (read.paid + amountPaid > read.total)
              BY <1>3 DEF Books!Settles
        <2>2. settles => read.paid + amountPaid > read.total
              BY <2>1, Zenon
        <2>3. ~settles => ~(read.paid + amountPaid > read.total)
              BY <2>1, Zenon
        <2> QED BY <1>1, <2>2, <2>3
  <1> QED BY <1>2, <1>3

LEMMA AfterPaymentIsRight ==
  ASSUME NEW read \in InvoiceTyped, NEW amountPaid \in Nat \ {0},
         NEW settles \in Books!Settles(read, amountPaid)
  PROVE  /\ Books!AfterPayment(read, amountPaid, settles) \in InvoiceTyped
         /\ Books!AfterPayment(read, amountPaid, settles).paid = read.paid + amountPaid
         /\ StatusRight(Books!AfterPayment(read, amountPaid, settles))
  <1>1. PICK n : n = read.paid + amountPaid
        OBVIOUS
  <1>2. PICK st : st = IF settles THEN "PAID" ELSE "PARTIAL"
        OBVIOUS
  <1>3. Books!AfterPayment(read, amountPaid, settles) = [read EXCEPT !.paid = n, !.status = st]
        BY <1>1, <1>2 DEF Books!AfterPayment
  <1>4. Books!AfterPayment(read, amountPaid, settles)
          = [status |-> st, total |-> read.total, paid |-> n]
        BY <1>3 DEF InvoiceTyped
  <1>5. read.paid \in Nat /\ read.total \in Nat
        BY DEF InvoiceTyped
  <1>6. n \in Nat /\ n > 0
        BY <1>1, <1>5
  <1>7. /\ st \in {"PAID", "PARTIAL"}
        /\ st = "PAID" => n >= read.total
        /\ st = "PARTIAL" => n <= read.total
        <2>1. settles => n >= read.total
              BY <1>1, SettlesIsRight
        <2>2. ~settles => n <= read.total
              BY <1>1, SettlesIsRight
        <2> QED BY <1>2, <2>1, <2>2
  <1>8. Books!AfterPayment(read, amountPaid, settles) \in InvoiceTyped
        BY <1>4, <1>5, <1>6, <1>7 DEF InvoiceTyped
  <1> QED BY <1>1, <1>4, <1>5, <1>6, <1>7, <1>8 DEF StatusRight

LEMMA CommitStep ==
  ASSUME BookRows, NEW sl \in Slot, Books!CommitVerify(sl)
  PROVE  LET q == billingReq[sl]
             i == ledger[q.order].invoice
         IN  /\ q \in BookVerifies /\ i \in Books!Issued
             /\ ledger' \in [Order -> LedgerTyped \cup {Books!NoOrder}]
             /\ Books!Ordered' = Books!Ordered /\ Books!Issued' = Books!Issued
             /\ \A u \in Books!Ordered : ledger'[u].invoice = ledger[u].invoice
             /\ invoice' \in [Invoice -> InvoiceTyped \cup {Books!Unissued}]
             /\ credited' \in [Invoice -> Nat]
             /\ invoice'[i].paid = q.read.paid + q.amountPaid /\ StatusRight(invoice'[i])
             /\ credited'[i] = credited[i] + q.amountPaid
             /\ \A k \in Invoice \ {i} : invoice'[k] = invoice[k] /\ credited'[k] = credited[k]
  <1> DEFINE q == billingReq[sl]
             i == ledger[q.order].invoice
  <1>1. q \in BookVerifies
        BY BookRequests DEF Books!CommitVerify
  <1>2. q.order \in Books!Ordered /\ q.amountPaid \in Nat \ {0} /\ q.read \in InvoiceTyped
        BY <1>1 DEF BookVerifies
  <1>3. i \in Books!Issued /\ i \in Invoice
        BY <1>2, BookTypes
  <1>4. ledger' = [ledger EXCEPT ![q.order].status = "CAPTURED"]
        BY DEF Books!CommitVerify
  <1>5. PICK settles \in Books!Settles(q.read, q.amountPaid) :
          /\ invoice' = [invoice EXCEPT ![i] =
                           Books!AfterPayment(q.read, q.amountPaid, settles)]
          /\ credited' = [credited EXCEPT ![i] = @ + q.amountPaid]
        BY DEF Books!CommitVerify
  <1> DEFINE row == Books!AfterPayment(q.read, q.amountPaid, settles)
  <1> HIDE DEF q
  <1>6. /\ row \in InvoiceTyped /\ row.paid = q.read.paid + q.amountPaid /\ StatusRight(row)
        /\ invoice' = [invoice EXCEPT ![i] = row]
        BY <1>2, <1>5, AfterPaymentIsRight
  <1> HIDE DEF row, i
  <1>7. /\ ledger' \in [Order -> LedgerTyped \cup {Books!NoOrder}]
        /\ Books!Ordered' = Books!Ordered
        /\ \A u \in Books!Ordered : ledger'[u].invoice = ledger[u].invoice
        BY <1>2, <1>4, LedgerStep
  <1>8. /\ invoice' \in [Invoice -> InvoiceTyped \cup {Books!Unissued}]
        /\ invoice'[i] = row /\ \A k \in Invoice \ {i} : invoice'[k] = invoice[k]
        BY <1>3, <1>6 DEF BookRows
  <1>9. /\ credited' \in [Invoice -> Nat] /\ credited'[i] = credited[i] + q.amountPaid
        /\ \A k \in Invoice \ {i} : credited'[k] = credited[k]
        BY <1>2, <1>3, <1>5 DEF BookRows
  <1>10. row # Books!Unissued
        BY <1>6, InvoiceTypedIssued
  <1>11. Books!Issued' = Books!Issued
        BY <1>3, <1>8, <1>10 DEF Books!Issued
  <1> QED BY <1>1, <1>3, <1>6, <1>7, <1>8, <1>9, <1>11 DEF q, i

(* What a slot holds after each kind of step                               *)
BookEnters(sl) == Books!ReadForOrder(sl) \/ Books!ReadForVerify(sl)
BookLeaves(sl) ==
  Books!ProviderRefuses(sl) \/ Books!CreateOrder(sl) \/ Books!RejectSignature(sl) \/ Books!CommitVerify(sl)

LEMMA BookSteps ==
  Books!Next <=> Books!CreateInvoice \/ \E sl \in Slot : BookEnters(sl) \/ BookLeaves(sl)
  BY DEF Books!Next, BookEnters, BookLeaves

LEMMA EnterStep ==
  ASSUME BookRows, NEW sl \in Slot, BookEnters(sl)
  PROVE  /\ UNCHANGED <<load, invoice, ledger, credited>>
         /\ billingReq[sl] = Books!Idle /\ Cardinality(Books!Busy) < load
         /\ billingReq' \in [Slot -> BookOrders \cup BookVerifies \cup {Books!Idle}]
         /\ \A s \in Slot \ {sl} : billingReq'[s] = billingReq[s]
         /\ billingReq'[sl].op = "verify" =>
              \E o \in Books!Ordered : /\ billingReq'[sl].order = o
                                 /\ billingReq'[sl].read = invoice[ledger[o].invoice]
  <1>1. ASSUME NEW q, Books!Enter(sl, q), q \in BookOrders \cup BookVerifies
        PROVE  /\ billingReq[sl] = Books!Idle /\ Cardinality(Books!Busy) < load
               /\ billingReq' \in [Slot -> BookOrders \cup BookVerifies \cup {Books!Idle}]
               /\ billingReq'[sl] = q
               /\ \A s \in Slot \ {sl} : billingReq'[s] = billingReq[s]
        BY <1>1, BooksCount DEF Books!Enter, Books!Busy, BookRows
  <1>2. CASE Books!ReadForOrder(sl)
        <2>0. PICK i \in Books!Issued :
                \E amount \in {Books!Outstanding(i)} \cup LeastOrder..Books!Outstanding(i) :
                  /\ amount > 0
                  /\ Books!Enter(sl, [op |-> "order", invoice |-> i, amount |-> amount])
              BY <1>2 DEF Books!ReadForOrder
        <2>1. PICK amount \in {Books!Outstanding(i)} \cup LeastOrder..Books!Outstanding(i) :
                /\ amount > 0
                /\ Books!Enter(sl, [op |-> "order", invoice |-> i, amount |-> amount])
              BY <2>0
        <2>2. amount \in Nat \ {0}
              <3>1. Books!Outstanding(i) \in Int /\ LeastOrder \in Nat
                    BY BookTypes, BackofficeAssumption DEF InvoiceTyped, Books!Outstanding
              <3> QED BY <2>1, <3>1
        <2>3. PICK q : q = [op |-> "order", invoice |-> i, amount |-> amount]
              OBVIOUS
        <2>4. q \in BookOrders /\ q.op = "order"
              BY <2>2, <2>3 DEF BookOrders
        <2> QED BY <1>1, <1>2, <2>1, <2>3, <2>4 DEF Books!ReadForOrder
  <1>3. CASE Books!ReadForVerify(sl)
        <2>0. PICK o \in Books!Ordered : \E amountPaid \in {ledger[o].amount} \cup 1..MaxCredit :
                Books!Enter(sl, [op |-> "verify", order |-> o, amountPaid |-> amountPaid,
                           read |-> invoice[ledger[o].invoice]])
              BY <1>3 DEF Books!ReadForVerify
        <2>1. PICK amountPaid \in {ledger[o].amount} \cup 1..MaxCredit :
                Books!Enter(sl, [op |-> "verify", order |-> o, amountPaid |-> amountPaid,
                           read |-> invoice[ledger[o].invoice]])
              BY <2>0
        <2>2. ledger[o] \in LedgerTyped /\ invoice[ledger[o].invoice] \in InvoiceTyped
              BY BookTypes
        <2>3. amountPaid \in Nat \ {0}
              BY <2>2, BackofficeAssumption DEF LedgerTyped
        <2>4. PICK q : q = [op |-> "verify", order |-> o, amountPaid |-> amountPaid,
                            read |-> invoice[ledger[o].invoice]]
              OBVIOUS
        <2>5. q \in BookVerifies /\ q.order = o /\ q.read = invoice[ledger[o].invoice]
              BY <2>2, <2>3, <2>4 DEF BookVerifies
        <2> QED BY <1>1, <1>3, <2>1, <2>4, <2>5 DEF Books!ReadForVerify
  <1> QED BY <1>2, <1>3 DEF BookEnters

LEMMA LeaveStep ==
  ASSUME BookRows, NEW sl \in Slot, BookLeaves(sl)
  PROVE  /\ billingReq[sl] # Books!Idle /\ load' = load
         /\ billingReq' = [billingReq EXCEPT ![sl] = Books!Idle]
  BY DEF BookLeaves, Books!ProviderRefuses, Books!CreateOrder, Books!RejectSignature,
         Books!CommitVerify, Books!Finish, Books!Idle

(* No step takes an invoice or an order back, or moves it to another one.  *)
LEMMA BooksMove ==
  ASSUME BookRows, Books!Next
  PROVE  /\ load' = load /\ Books!Issued \subseteq Books!Issued'
         /\ Books!Ordered \subseteq Books!Ordered'
         /\ invoice' \in [Invoice -> InvoiceTyped \cup {Books!Unissued}]
         /\ ledger' \in [Order -> LedgerTyped \cup {Books!NoOrder}]
         /\ credited' \in [Invoice -> Nat]
         /\ \A u \in Books!Ordered : ledger'[u].invoice = ledger[u].invoice
  <1>1. /\ invoice \in [Invoice -> InvoiceTyped \cup {Books!Unissued}]
        /\ ledger \in [Order -> LedgerTyped \cup {Books!NoOrder}] /\ credited \in [Invoice -> Nat]
        BY DEF BookRows
  <1>2. CASE Books!CreateInvoice
        <2>1. /\ Books!Issued \subseteq Books!Issued'
              /\ invoice' \in [Invoice -> InvoiceTyped \cup {Books!Unissued}]
              BY <1>2, IssueStep
        <2>2. /\ load' = load /\ ledger' = ledger /\ credited' = credited
              /\ Books!Ordered' = Books!Ordered
              BY <1>2 DEF Books!CreateInvoice, Books!Ordered
        <2> QED BY <1>1, <2>1, <2>2
  <1>3. ASSUME NEW sl \in Slot, BookEnters(sl) \/ Books!ProviderRefuses(sl)
        PROVE  UNCHANGED <<load, invoice, ledger, credited>>
        BY <1>3, EnterStep DEF Books!ProviderRefuses
  <1>4. ASSUME UNCHANGED <<load, invoice, ledger, credited>>
        PROVE  Books!Issued' = Books!Issued /\ Books!Ordered' = Books!Ordered
        BY <1>4 DEF Books!Issued, Books!Ordered
  <1>5. CASE \E sl \in Slot : BookEnters(sl) \/ Books!ProviderRefuses(sl)
        BY <1>1, <1>3, <1>4, <1>5
  <1>6. ASSUME NEW sl \in Slot, Books!CreateOrder(sl)
        PROVE  /\ load' = load /\ Books!Issued' = Books!Issued
               /\ Books!Ordered \subseteq Books!Ordered'
               /\ invoice' = invoice /\ credited' = credited
               /\ ledger' \in [Order -> LedgerTyped \cup {Books!NoOrder}]
               /\ \A u \in Books!Ordered : ledger'[u].invoice = ledger[u].invoice
        <2>1. /\ Books!Issued' = Books!Issued /\ Books!Ordered \subseteq Books!Ordered'
              /\ ledger' \in [Order -> LedgerTyped \cup {Books!NoOrder}]
              /\ \A o \in Books!Ordered : ledger'[o] = ledger[o]
              BY <1>6, OrderStep
        <2>2. load' = load /\ invoice' = invoice /\ credited' = credited
              BY <1>6 DEF Books!CreateOrder
        <2> QED BY <2>1, <2>2
  <1>7. ASSUME NEW sl \in Slot, Books!RejectSignature(sl)
        PROVE  /\ load' = load /\ Books!Issued' = Books!Issued /\ Books!Ordered' = Books!Ordered
               /\ invoice' = invoice /\ credited' = credited
               /\ ledger' \in [Order -> LedgerTyped \cup {Books!NoOrder}]
               /\ \A u \in Books!Ordered : ledger'[u].invoice = ledger[u].invoice
        <2>1. billingReq[sl] \in BookVerifies
              BY <1>7, BookRequests DEF Books!RejectSignature
        <2>2. billingReq[sl].order \in Books!Ordered
              BY <2>1 DEF BookVerifies
        <2>3. ledger' = [ledger EXCEPT ![billingReq[sl].order].status = "FAILED"]
              BY <1>7 DEF Books!RejectSignature
        <2>4. /\ Books!Ordered' = Books!Ordered
              /\ ledger' \in [Order -> LedgerTyped \cup {Books!NoOrder}]
              /\ \A u \in Books!Ordered : ledger'[u].invoice = ledger[u].invoice
              BY <2>2, <2>3, LedgerStep
        <2>5. /\ load' = load /\ invoice' = invoice
              /\ credited' = credited /\ Books!Issued' = Books!Issued
              BY <1>7 DEF Books!RejectSignature, Books!Issued
        <2> QED BY <2>4, <2>5
  <1>8. ASSUME NEW sl \in Slot, Books!CommitVerify(sl)
        PROVE  /\ load' = load /\ Books!Issued' = Books!Issued /\ Books!Ordered' = Books!Ordered
               /\ invoice' \in [Invoice -> InvoiceTyped \cup {Books!Unissued}]
               /\ ledger' \in [Order -> LedgerTyped \cup {Books!NoOrder}]
               /\ credited' \in [Invoice -> Nat]
               /\ \A u \in Books!Ordered : ledger'[u].invoice = ledger[u].invoice
        <2>1. load' = load
              BY <1>8 DEF Books!CommitVerify
        <2> QED BY <1>8, <2>1, CommitStep
  <1> QED BY <1>1, <1>2, <1>5, <1>6, <1>7, <1>8, BookSteps DEF BookLeaves

LEMMA BookRowsKept ==
  ASSUME BookRows, Books!Next
  PROVE  BookRows'
  <1>1. /\ load' = load /\ Books!Issued \subseteq Books!Issued'
        /\ Books!Ordered \subseteq Books!Ordered'
        /\ invoice' \in [Invoice -> InvoiceTyped \cup {Books!Unissued}]
        /\ ledger' \in [Order -> LedgerTyped \cup {Books!NoOrder}]
        /\ credited' \in [Invoice -> Nat]
        BY BooksMove
  <1>2. /\ LedgerTyped \subseteq LedgerTyped'
        /\ BookOrders \subseteq BookOrders' /\ BookVerifies \subseteq BookVerifies'
        BY <1>1, BooksGrow
  <1>3. billingReq' \in [Slot -> BookOrders \cup BookVerifies \cup {Books!Idle}]
        <2>1. billingReq \in [Slot -> BookOrders \cup BookVerifies \cup {Books!Idle}]
              BY DEF BookRows
        <2>2. CASE Books!CreateInvoice
              BY <2>1, <2>2 DEF Books!CreateInvoice
        <2>3. ASSUME NEW sl \in Slot, BookEnters(sl)
              PROVE  billingReq' \in [Slot -> BookOrders \cup BookVerifies \cup {Books!Idle}]
              BY <2>3, EnterStep
        <2>4. ASSUME NEW sl \in Slot, BookLeaves(sl)
              PROVE  billingReq' \in [Slot -> BookOrders \cup BookVerifies \cup {Books!Idle}]
              BY <2>1, <2>4, LeaveStep
        <2> QED BY <2>2, <2>3, <2>4, BookSteps
  <1>4. billingReq' \in [Slot -> BookOrders' \cup BookVerifies' \cup {Books!Idle}]
        BY <1>2, <1>3
  <1>5. ledger' \in [Order -> LedgerTyped' \cup {Books!NoOrder}]
        BY <1>1, <1>2
  <1> QED BY <1>1, <1>4, <1>5 DEF BookRows, InvoiceTyped, Books!Unissued, Books!NoOrder,
                                  Books!Idle

LEMMA BookBusyKept ==
  ASSUME BookRows, BookBusyBound, Books!Next
  PROVE  BookBusyBound'
  <1>1. load' = load /\ load \in Nat
        BY BooksMove, TemplatesAssumption DEF BookRows
  <1>2. Books!Busy \in SUBSET Slot /\ Books!Busy' \in SUBSET Slot
        BY DEF Books!Busy
  <1>3. CASE Books!CreateInvoice
        BY <1>1, <1>3 DEF Books!CreateInvoice, BookBusyBound, Books!Busy
  <1>4. ASSUME NEW sl \in Slot, BookEnters(sl)
        PROVE  BookBusyBound'
        <2>1. /\ sl \notin Books!Busy /\ Cardinality(Books!Busy) < load
              /\ Books!Busy' \subseteq Books!Busy \cup {sl}
              BY <1>4, EnterStep DEF Books!Busy
        <2>2. /\ Cardinality(Books!Busy \cup {sl}) = Cardinality(Books!Busy) + 1
              /\ Books!Busy \cup {sl} \in SUBSET Slot
              BY <1>2, <2>1, BooksFinite, FS_AddElement
        <2>3. Cardinality(Books!Busy') <= Cardinality(Books!Busy \cup {sl})
              BY <2>1, <2>2, BooksFinite
        <2> QED BY <1>1, <1>2, <2>1, <2>2, <2>3, BooksFinite DEF BookBusyBound
  <1>5. ASSUME NEW sl \in Slot, BookLeaves(sl)
        PROVE  BookBusyBound'
        <2>1. Books!Busy' \subseteq Books!Busy
              BY <1>5, LeaveStep DEF Books!Busy, BookRows
        <2>2. Cardinality(Books!Busy') <= Cardinality(Books!Busy)
              BY <1>2, <2>1, BooksFinite
        <2> QED BY <1>1, <1>2, <2>2, BooksFinite DEF BookBusyBound
  <1> QED BY <1>3, <1>4, <1>5, BookSteps

(* With one request at a time, who leaves was alone.                       *)
LEMMA BooksAlone ==
  ASSUME BookRows, BookBusyBound, load = 1, NEW sl \in Books!Busy, NEW s \in Slot \ {sl}
  PROVE  billingReq[s] = Books!Idle
  <1>1. SUFFICES ASSUME s \in Books!Busy
                 PROVE  FALSE
        BY DEF Books!Busy
  <1>2. Books!Busy \in SUBSET Slot /\ {sl} \in SUBSET Books!Busy
        BY DEF Books!Busy
  <1>3. IsFiniteSet(Books!Busy) /\ Cardinality(Books!Busy) \in Nat /\ Cardinality(Books!Busy) <= 1
        BY <1>2, BooksFinite DEF BookBusyBound
  <1>4. Cardinality({sl}) = 1 /\ Cardinality({sl}) <= Cardinality(Books!Busy)
        BY <1>2, <1>3, BooksFinite, FS_Singleton
  <1>5. Books!Busy = {sl}
        BY <1>2, <1>3, <1>4, FS_Subset
  <1> QED BY <1>1, <1>5

(* What a request has read stays covered while its invoice's credit stands. *)
LEMMA ReadStands ==
  ASSUME BookRows, Books!Next, NEW s \in Slot, billingReq'[s] = billingReq[s],
         BookReads(billingReq[s]),
         billingReq[s].op = "verify" =>
           credited'[ledger[billingReq[s].order].invoice] = credited[ledger[billingReq[s].order].invoice]
  PROVE  BookReads(billingReq[s])'
  <1>1. SUFFICES ASSUME billingReq[s].op = "verify"
                 PROVE  BookReads(billingReq[s])'
        BY DEF BookReads
  <1>2. billingReq[s] \in BookVerifies
        BY <1>1, BookRequests
  <1>3. PICK o : o = billingReq[s].order
        OBVIOUS
  <1>4. o \in Books!Ordered
        BY <1>2, <1>3 DEF BookVerifies
  <1>5. load' = load /\ ledger'[o].invoice = ledger[o].invoice
        BY <1>4, BooksMove
  <1>6. credited'[ledger[o].invoice] = credited[ledger[o].invoice]
        BY <1>1, <1>3
  <1>7. /\ StatusRight(billingReq[s].read)
        /\ billingReq[s].read.paid <= credited[ledger[o].invoice]
        /\ load = 1 => billingReq[s].read.paid = credited[ledger[o].invoice]
        BY <1>1, <1>3 DEF BookReads, Covered
  <1> QED BY <1>3, <1>5, <1>6, <1>7 DEF BookReads, Covered, StatusRight

LEMMA IssueKeepsRight ==
  ASSUME BooksInv, Books!CreateInvoice
  PROVE  BooksRight'
  <1>1. BookRows /\ BooksRight /\ Books!Next
        BY BookSteps DEF BooksInv
  <1>2. PICK i \in Invoice \ Books!Issued :
          /\ Books!Issued' = Books!Issued \cup {i}
          /\ invoice' \in [Invoice -> InvoiceTyped \cup {Books!Unissued}]
          /\ invoice'[i].status = "UNPAID" /\ invoice'[i].paid = 0
          /\ \A k \in Invoice \ {i} : invoice'[k] = invoice[k]
        BY <1>1, IssueStep
  <1>3. load' = load /\ credited' = credited /\ billingReq' = billingReq
        BY DEF Books!CreateInvoice
  <1>4. StatusRight(invoice'[i])
        BY <1>2 DEF StatusRight
  <1>5. Covered(i, invoice[i])'
        BY <1>1, <1>2, <1>3 DEF BooksRight, Covered
  <1>6. ASSUME NEW k \in Books!Issued
        PROVE  StatusRight(invoice'[k]) /\ Covered(k, invoice[k])'
        <2>1. invoice'[k] = invoice[k]
              BY <1>2 DEF Books!Issued
        <2> QED BY <1>1, <1>3, <2>1 DEF BooksRight, Covered
  <1>7. \A k \in Invoice \ Books!Issued' : credited'[k] = 0
        BY <1>1, <1>2, <1>3 DEF BooksRight
  <1>8. ASSUME NEW s \in Slot
        PROVE  BookReads(billingReq[s])'
        BY <1>1, <1>3, ReadStands DEF BooksRight
  <1>9. \A k \in Books!Issued' : StatusRight(invoice[k])' /\ Covered(k, invoice[k])'
        BY <1>2, <1>4, <1>5, <1>6 DEF StatusRight
  <1> QED BY <1>7, <1>8, <1>9 DEF BooksRight

LEMMA EnterKeepsRight ==
  ASSUME BooksInv, NEW sl \in Slot, BookEnters(sl)
  PROVE  BooksRight'
  <1>1. BookRows /\ BooksRight /\ Books!Next
        BY BookSteps DEF BooksInv
  <1>2. /\ UNCHANGED <<load, invoice, ledger, credited>> /\ Books!Issued' = Books!Issued
        /\ \A s \in Slot \ {sl} : billingReq'[s] = billingReq[s]
        BY <1>1, EnterStep DEF Books!Issued
  <1>3. billingReq'[sl].op = "verify" =>
          \E o \in Books!Ordered : /\ billingReq'[sl].order = o
                             /\ billingReq'[sl].read = invoice[ledger[o].invoice]
        BY <1>1, EnterStep
  <1>4. \A k \in Books!Issued' : StatusRight(invoice[k])' /\ Covered(k, invoice[k])'
        BY <1>1, <1>2 DEF BooksRight, StatusRight, Covered
  <1>5. ASSUME NEW s \in Slot \ {sl}
        PROVE  BookReads(billingReq[s])'
        BY <1>1, <1>2, ReadStands DEF BooksRight
  <1>6. BookReads(billingReq[sl])'
        <2>1. SUFFICES ASSUME billingReq'[sl].op = "verify"
                       PROVE  BookReads(billingReq[sl])'
              BY DEF BookReads
        <2>2. PICK o \in Books!Ordered : /\ billingReq'[sl].order = o
                                   /\ billingReq'[sl].read = invoice[ledger[o].invoice]
              BY <1>3, <2>1
        <2>3. ledger[o].invoice \in Books!Issued
              BY <1>1, BookTypes
        <2>4. PICK row : row = invoice[ledger[o].invoice]
              OBVIOUS
        <2>5. StatusRight(row) /\ Covered(ledger[o].invoice, row)
              BY <1>1, <2>3, <2>4 DEF BooksRight
        <2> QED BY <1>2, <2>2, <2>4, <2>5 DEF BookReads, StatusRight, Covered
  <1> QED BY <1>1, <1>2, <1>4, <1>5, <1>6 DEF BooksRight

(* A request that leaves without a payment.                                *)
LEMMA LeaveKeepsRight ==
  ASSUME BooksInv, NEW sl \in Slot, BookLeaves(sl), invoice' = invoice, credited' = credited
  PROVE  BooksRight'
  <1>1. BookRows /\ BooksRight /\ Books!Next
        BY BookSteps DEF BooksInv
  <1>2. load' = load /\ Books!Issued' = Books!Issued
        BY <1>1, BooksMove DEF Books!Issued
  <1>3. /\ \A s \in Slot \ {sl} : billingReq'[s] = billingReq[s]
        /\ billingReq'[sl] = Books!Idle
        BY <1>1, LeaveStep DEF BookRows
  <1>4. \A k \in Books!Issued' : StatusRight(invoice[k])' /\ Covered(k, invoice[k])'
        BY <1>1, <1>2 DEF BooksRight, StatusRight, Covered
  <1>5. ASSUME NEW s \in Slot \ {sl}
        PROVE  BookReads(billingReq[s])'
        BY <1>1, <1>3, ReadStands DEF BooksRight
  <1>6. BookReads(billingReq[sl])'
        BY <1>3 DEF BookReads, Books!Idle
  <1> QED BY <1>1, <1>2, <1>4, <1>5, <1>6 DEF BooksRight

LEMMA CommitKeepsRight ==
  ASSUME BooksInv, NEW sl \in Slot, Books!CommitVerify(sl)
  PROVE  BooksRight'
  <1>1. BookRows /\ BookBusyBound /\ BooksRight /\ Books!Next /\ BookLeaves(sl)
        BY BookSteps DEF BooksInv, BookLeaves
  <1>2. PICK q, i : q = billingReq[sl] /\ i = ledger[q.order].invoice
        OBVIOUS
  <1>3. /\ q \in BookVerifies /\ i \in Books!Issued /\ Books!Issued' = Books!Issued
        /\ \A u \in Books!Ordered : ledger'[u].invoice = ledger[u].invoice
        /\ invoice'[i].paid = q.read.paid + q.amountPaid /\ StatusRight(invoice'[i])
        /\ credited'[i] = credited[i] + q.amountPaid
        /\ \A k \in Invoice \ {i} : invoice'[k] = invoice[k] /\ credited'[k] = credited[k]
        BY <1>1, <1>2, CommitStep
  <1>4. load' = load /\ load \in Nat
        BY <1>1, BooksMove, TemplatesAssumption DEF BookRows
  <1>5. /\ \A s \in Slot \ {sl} : billingReq'[s] = billingReq[s]
        /\ billingReq'[sl] = Books!Idle
        BY <1>1, LeaveStep DEF BookRows
  <1>6. /\ q.op = "verify" /\ q.order \in Books!Ordered /\ q.amountPaid \in Nat
        /\ q.read.paid \in Nat /\ credited[i] \in Nat /\ i \in Invoice
        BY <1>1, <1>3, BookTypes DEF BookVerifies, InvoiceTyped, BookRows
  <1>7. Covered(i, q.read)
        BY <1>1, <1>2, <1>6 DEF BooksRight, BookReads
  <1>8. Covered(i, invoice[i])'
        BY <1>3, <1>4, <1>6, <1>7 DEF Covered
  <1>9. \A k \in Books!Issued' : StatusRight(invoice[k])' /\ Covered(k, invoice[k])'
        <2>1. ASSUME NEW k \in Books!Issued, k # i
              PROVE  StatusRight(invoice'[k]) /\ Covered(k, invoice[k])'
              <3>1. invoice'[k] = invoice[k] /\ credited'[k] = credited[k]
                    BY <1>3, <2>1 DEF Books!Issued
              <3> QED BY <1>1, <1>4, <3>1 DEF BooksRight, Covered
        <2> QED BY <1>3, <1>8, <2>1 DEF StatusRight
  <1>10. \A k \in Invoice \ Books!Issued' : credited'[k] = 0
        BY <1>1, <1>3 DEF BooksRight
  <1>11. ASSUME NEW s \in Slot \ {sl}
         PROVE  BookReads(billingReq[s])'
        <2>1. SUFFICES ASSUME billingReq[s].op = "verify"
                       PROVE  BookReads(billingReq[s])'
              BY <1>5 DEF BookReads
        <2>2. billingReq[s] \in BookVerifies
              BY <1>1, <2>1, BookRequests
        <2>3. PICK o : o = billingReq[s].order
              OBVIOUS
        <2>4. /\ o \in Books!Ordered /\ ledger[o].invoice \in Invoice
              /\ ledger'[o].invoice = ledger[o].invoice
              BY <1>1, <1>3, <2>2, <2>3, BookTypes DEF BookVerifies
        <2>5. load # 1
              <3>1. sl \in Books!Busy /\ billingReq[s] # Books!Idle
                    BY <1>2, <1>6, <2>1 DEF Books!Busy, Books!Idle
              <3> QED BY <1>1, <3>1, BooksAlone
        <2>6. /\ StatusRight(billingReq[s].read)
              /\ billingReq[s].read.paid <= credited[ledger[o].invoice]
              BY <1>1, <2>1, <2>3 DEF BooksRight, BookReads, Covered
        <2>7. billingReq[s].read.paid \in Nat /\ credited[ledger[o].invoice] \in Nat
              BY <1>1, <2>2, <2>4 DEF BookVerifies, InvoiceTyped, BookRows
        <2>8. billingReq[s].read.paid <= credited'[ledger[o].invoice]
              <3>1. CASE ledger[o].invoice = i
                    BY <1>3, <1>6, <2>6, <2>7, <3>1
              <3>2. CASE ledger[o].invoice # i
                    BY <1>3, <2>4, <2>6, <3>2
              <3> QED BY <3>1, <3>2
        <2> QED BY <1>4, <1>5, <2>3, <2>4, <2>5, <2>6, <2>8
           DEF BookReads, Covered, StatusRight
  <1>12. BookReads(billingReq[sl])'
        BY <1>5 DEF BookReads, Books!Idle
  <1> QED BY <1>9, <1>10, <1>11, <1>12 DEF BooksRight

LEMMA BooksInit == Books!Init => BooksInv
  <1> SUFFICES ASSUME Books!Init PROVE BooksInv
      OBVIOUS
  <1>1. Books!Issued = {} /\ Books!Busy = {} /\ load \in Nat /\ 0 <= load
        BY TemplatesAssumption DEF Books!Init, Books!Issued, Books!Busy
  <1>2. BookRows
        BY DEF Books!Init, BookRows
  <1>3. BookBusyBound
        BY <1>1, FS_EmptySet DEF BookBusyBound
  <1>4. BooksRight
        BY <1>1 DEF Books!Init, BooksRight, BookReads, Books!Idle
  <1> QED BY <1>2, <1>3, <1>4 DEF BooksInv

LEMMA BooksNext == BooksInv /\ [Books!Next]_Books!vars => BooksInv'
  <1> SUFFICES ASSUME BooksInv, [Books!Next]_Books!vars PROVE BooksInv'
      OBVIOUS
  <1>1. BookRows /\ BookBusyBound
        BY DEF BooksInv
  <1>2. CASE Books!Next
        <2>1. BookRows' /\ BookBusyBound'
              BY <1>1, <1>2, BookRowsKept, BookBusyKept
        <2>2. ASSUME NEW sl \in Slot, BookLeaves(sl)
              PROVE  BooksRight'
              <3>1. CASE Books!CommitVerify(sl)
                    BY <3>1, CommitKeepsRight
              <3>2. CASE ~Books!CommitVerify(sl)
                    <4>1. invoice' = invoice /\ credited' = credited
                          BY <2>2, <3>2 DEF BookLeaves, Books!ProviderRefuses,
                                            Books!CreateOrder, Books!RejectSignature
                    <4> QED BY <2>2, <4>1, LeaveKeepsRight
              <3> QED BY <3>1, <3>2
        <2>3. BooksRight'
              BY <1>2, <2>2, IssueKeepsRight, EnterKeepsRight, BookSteps
        <2> QED BY <2>1, <2>3 DEF BooksInv
  <1>3. CASE UNCHANGED Books!vars
        BY <1>3 DEF Books!vars, BooksInv, BookRows, BookBusyBound, BooksRight,
                    BookReads, Covered, StatusRight,
                    LedgerTyped, BookOrders, BookVerifies, Books!Issued, Books!Ordered, Books!Busy
  <1> QED BY <1>2, <1>3

LEMMA BooksAgree == BooksInv => BooksBalance
  <1> SUFFICES ASSUME BooksInv, NEW i \in Books!Issued
               PROVE  LET row == invoice[i] IN
                        /\ row.paid <= credited[i]
                        /\ load = 1 => row.paid = credited[i]
                        /\ row.status = "UNPAID" <=> row.paid = 0
                        /\ row.status = "PARTIAL" => row.paid <= row.total
                        /\ row.status = "PAID" => row.paid >= row.total
      BY DEF BooksBalance, Books!BooksBalance
  <1>1. StatusRight(invoice[i]) /\ Covered(i, invoice[i])
        BY DEF BooksInv, BooksRight
  <1> QED BY <1>1 DEF StatusRight, Covered

(* An invoice says that no more was paid than was credited for it, and all  *)
(* of it when requests come one at a time.  However requests overlap, it   *)
(* is UNPAID exactly when nothing was paid, PARTIAL only up to the total   *)
(* and PAID only from the total on; paid exactly it may say either, as the *)
(* sum that verifyRazorpayPayment compares is not yet rounded.             *)
THEOREM BooksAreBalanced == Books!Spec => []BooksBalance
  <1>1. Books!Spec => []BooksInv
        BY BooksInit, BooksNext, PTL DEF Books!Spec
  <1> QED BY <1>1, BooksAgree, PTL
=============================================================================
