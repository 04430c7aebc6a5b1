--------------------------- MODULE ApprovalChains ---------------------------
(***************************************************************************)
(* The approval chains of a school: createApprovalChain and                *)
(* activateApprovalChain of AdminService (modules/admin/admin.service.ts). *)
(* A new chain takes the version after the latest it read, and its         *)
(* transaction deactivates the rows it can see: not one that another       *)
(* transaction has inserted and not committed.  What a transaction has to  *)
(* write is fixed by what its statement sees and takes effect when it      *)
(* commits, after those whose row locks it waits for.  No index keeps      *)
(* versions apart.                                                         *)
(***************************************************************************)
EXTENDS Naturals, FiniteSets

CONSTANTS
  Chain, Slot,
  MaxLoad      \* how many requests are in flight at most

VARIABLES
  load,      \* how many requests overlap at most
  chain,     \* ApprovalChain rows of one institutionType
  chainReq   \* the request in flight in each slot

vars == <<load, chain, chainReq>>

----------------------------------------------------------------------------
(* alone (history): the last activation of the row deactivated its rivals. *)
Unmade == [version |-> 0]
ChainRow == [version : Nat \ {0}, active : BOOLEAN, alone : BOOLEAN]
Idle == [op |-> "idle"]

Made == {c \in Chain : chain[c] # Unmade}
Busy == {sl \in Slot : chainReq[sl] # Idle}

Proceed(sl, q) ==
  /\ chainReq' = [chainReq EXCEPT ![sl] = q]
  /\ UNCHANGED <<load, chain>>

Enter(sl, q) == sl \notin Busy /\ Cardinality(Busy) < load /\ Proceed(sl, q)

----------------------------------------------------------------------------
(* fault: the number of chains that are active, not the latest version *)
LatestFaultActiveOnly == Cardinality({c \in Made : chain[c].active})

Latest ==
  IF Made = {} THEN 0
  ELSE CHOOSE v \in {chain[c].version : c \in Made} : \A c \in Made : chain[c].version <= v

ReadLatest(sl) ==
  \E activate \in BOOLEAN :
    Enter(sl, [op |-> "deactivate", version |-> Latest + 1, activate |-> activate])

Deactivate(sl) ==
  LET q == chainReq[sl] IN
    /\ q.op = "deactivate"
    /\ Proceed(sl, [op |-> "insert", version |-> q.version, activate |-> q.activate,
                    off |-> IF q.activate THEN {c \in Made : chain[c].active} ELSE {}])

Off(rows) ==
  [c \in Chain |-> IF c \in rows THEN [chain[c] EXCEPT !.active = FALSE] ELSE chain[c]]

(* create, and the end of the transaction *)
Insert(sl) ==
  LET q == chainReq[sl] IN
    /\ q.op = "insert"
    /\ \E c \in Chain \ Made :
         chain' = [Off(q.off) EXCEPT ![c] =
           [version |-> q.version, active |-> q.activate, alone |-> q.activate]]
    /\ chainReq' = [chainReq EXCEPT ![sl] = Idle]
    /\ UNCHANGED load

(* The rows the update of the rivals sees are those of this moment.        *)
ReadForActivate(sl) ==
  \E c \in Made, deactivateOthers \in BOOLEAN :
    Enter(sl, [op |-> "activate", chain |-> c, alone |-> deactivateOthers,
               off |-> IF deactivateOthers THEN Made \ {c} ELSE {}])

Activate(sl) ==
  LET q == chainReq[sl] IN
    /\ q.op = "activate"
    /\ chain' = [Off(q.off) EXCEPT ![q.chain].active = TRUE, ![q.chain].alone = q.alone]
    /\ chainReq' = [chainReq EXCEPT ![sl] = Idle]
    /\ UNCHANGED load

----------------------------------------------------------------------------
Init ==
  /\ load \in 1..MaxLoad
  /\ chain = [c \in Chain |-> Unmade]
  /\ chainReq = [sl \in Slot |-> Idle]

Next ==
  \E sl \in Slot :
    \/ ReadLatest(sl)
    \/ Deactivate(sl)
    \/ Insert(sl)
    \/ ReadForActivate(sl)
    \/ Activate(sl)

Spec == Init /\ [][Next]_vars

----------------------------------------------------------------------------
(* Properties *)

(* The rows of the table have the columns of the schema.                   *)
TypeOK ==
  /\ load \in 1..MaxLoad
  /\ chain \in [Chain -> ChainRow \cup {Unmade}]

(* Versions are handed out without gaps; as many chains share one as       *)
(* requests overlap, and as many of those activated in place of the others *)
(* are active: a single one while requests come one at a time.             *)
ChainsInOrder ==
  /\ \A c \in Made : \A v \in 1..chain[c].version : \E d \in Made : chain[d].version = v
  /\ \A v \in {chain[c].version : c \in Made} :
       Cardinality({c \in Made : chain[c].version = v}) <= load
  /\ Cardinality({c \in Made : chain[c].active /\ chain[c].alone}) <= load
=============================================================================
