----------------------------- MODULE Templates -----------------------------
(***************************************************************************)
(* Card templates, their snapshots and the proofs drawn from them:         *)
(* createTemplate, duplicateTemplate, updateTemplateStatus (and             *)
(* activateTemplate), updateTemplateMapping and rebindTemplateProofs of    *)
(* AdminService (modules/admin/admin.service.ts), setTemplateColorProfile   *)
(* of PlatformService, and the proof that a submission ends with.          *)
(*                                                                         *)
(* Each handler reads the template first and writes what it computed from  *)
(* that read later; each statement outside a transaction is a step.  The    *)
(* unique index on (templateId, version) of TemplateSnapshot is what makes *)
(* the later of two overlapping edits fail.                                *)
(*                                                                         *)
(* A mapping stands for mappingJson without its __printProfile entry, a     *)
(* layout for the layouts of both sides; they are apart because the colour  *)
(* profile is written with the mapping alone and only an edit puts layouts *)
(* into proofs.  The designs are written wherever the layouts are, and drawn *)
(* in no proof.  No code sets approvedBySchool, so the options that spare   *)
(* approved proofs spare none and are left out.                            *)
(***************************************************************************)
EXTENDS Naturals, FiniteSets

CONSTANTS
  Template, CardType, Mapping, Layout, Student, Proof, Slot,
  MaxVersion,    \* bound on the snapshots of a template
  MaxLoad,       \* how many requests are in flight at most
  MaxRestarts    \* bound on the restarts of the process

NoLayout == "no layout"

ASSUME TemplatesAssumption ==
  /\ NoLayout \notin Layout
  /\ MaxVersion \in Nat \ {0} /\ MaxLoad \in Nat \ {0} /\ MaxRestarts \in Nat
  /\ IsFiniteSet(Slot) /\ IsFiniteSet(Template)

VARIABLES
  load,         \* how many requests overlap at most
  template,     \* Template rows of the school
  snapshot,     \* TemplateSnapshot rows: the content of each version
  proof,        \* Proof rows
  templateReq,  \* the request in flight in each slot
  restarts

vars == <<load, template, snapshot, proof, templateReq, restarts>>

----------------------------------------------------------------------------
Version == 1..MaxVersion

(* last: lastSnapshotVersion.  alone (history): the row became active in a  *)
(* step that deactivates its rivals.                                       *)
Unmade == [active |-> FALSE]
TemplateRow ==
  [type : CardType, active : BOOLEAN, alone : BOOLEAN,
   mapping : Mapping, layout : Layout, last : Version]

NoSnapshot == [layout |-> NoLayout]
SnapshotRow == [mapping : Mapping, layout : Layout]

(* What a snapshot keeps of a row                                          *)
Content(row) == [mapping |-> row.mapping, layout |-> row.layout]

(* version: the templateVersion of the preview payload *)
NoProof == [version |-> 0]
ProofRow ==
  [template : Template, student : Student,
   mapping : Mapping, layout : Layout \cup {NoLayout}, version : Version]

Idle == [op |-> "idle"]

Made == {t \in Template : template[t] # Unmade}
Drawn == {p \in Proof : proof[p] # NoProof}
Busy == {sl \in Slot : templateReq[sl] # Idle}

Enter(sl, q) ==
  /\ sl \notin Busy
  /\ Cardinality(Busy) < load
  /\ templateReq' = [templateReq EXCEPT ![sl] = q]

GoOn(sl, q) == templateReq' = [templateReq EXCEPT ![sl] = q]
Finish(sl) == GoOn(sl, Idle)

(* A handler starts with a read of the row.                                *)
Read(sl, op, t) ==
  /\ Enter(sl, [op |-> op, of |-> t, read |-> template[t]])
  /\ UNCHANGED <<load, template, snapshot, proof, restarts>>

Deactivated(rows) ==
  [t \in Template |->
     IF t \in rows THEN [template[t] EXCEPT !.active = FALSE] ELSE template[t]]

----------------------------------------------------------------------------
(* createTemplate and duplicateTemplate *)

(* fault: only the default template makes room, not an active one *)
BeginCreateFaultActiveStays(sl) ==
  \E type \in CardType, mapping \in Mapping, layout \in Layout, active, default \in BOOLEAN :
    /\ Enter(sl, [op |-> "create", type |-> type, mapping |-> mapping, layout |-> layout,
                  active |-> active])
    /\ template' = IF default THEN Deactivated(Made) ELSE template
    /\ UNCHANGED <<load, snapshot, proof, restarts>>

(* updateMany: every template of the school, of whatever card type          *)
BeginCreate(sl) ==
  \E type \in CardType, mapping \in Mapping, layout \in Layout, active, default \in BOOLEAN :
    /\ Enter(sl, [op |-> "create", type |-> type, mapping |-> mapping, layout |-> layout,
                  active |-> active])
    /\ template' = IF active \/ default THEN Deactivated(Made) ELSE template
    /\ UNCHANGED <<load, snapshot, proof, restarts>>

CommitCreate(sl) ==
  LET q == templateReq[sl] IN
    /\ q.op = "create"
    /\ \E t \in Template \ Made :
         /\ template' = [template EXCEPT ![t] =
              [type |-> q.type, active |-> q.active, alone |-> q.active,
               mapping |-> q.mapping, layout |-> q.layout, last |-> 1]]
         /\ GoOn(sl, [op |-> "first", of |-> t, content |-> Content(q)])
    /\ UNCHANGED <<load, snapshot, proof, restarts>>

ReadForCopy(sl) == \E t \in Made : Read(sl, "copy", t)

CommitCopy(sl) ==
  LET q == templateReq[sl] IN
    /\ q.op = "copy"
    /\ \E t \in Template \ Made :
         /\ template' = [template EXCEPT ![t] =
              [q.read EXCEPT !.active = FALSE, !.alone = FALSE, !.last = 1]]
         /\ GoOn(sl, [op |-> "first", of |-> t, content |-> Content(q.read)])
    /\ UNCHANGED <<load, snapshot, proof, restarts>>

WriteFirstSnapshot(sl) ==
  LET q == templateReq[sl] IN
    /\ q.op = "first"
    /\ snapshot' = [snapshot EXCEPT ![<<q.of, 1>>] = q.content]
    /\ Finish(sl)
    /\ UNCHANGED <<load, template, proof, restarts>>

----------------------------------------------------------------------------
(* updateTemplateStatus *)

NextVersion(q) == q.read.last + 1

(* fault: no unique index on (templateId, version) *)
TakenFaultNever(q) == FALSE

(* The transaction fails on the unique index, and rolls back.              *)
Taken(q) == snapshot[<<q.of, NextVersion(q)>>] # NoSnapshot

Conflict(sl) ==
  LET q == templateReq[sl] IN
    /\ q.op \in {"status", "mapping"}
    /\ Taken(q)
    /\ Finish(sl)
    /\ UNCHANGED <<load, template, snapshot, proof, restarts>>

ReadForStatus(sl) == \E t \in Made : template[t].last < MaxVersion /\ Read(sl, "status", t)

(* The snapshot gets the content that was read; the row keeps its own.     *)
CommitStatus(sl) ==
  LET q == templateReq[sl] IN
    /\ q.op = "status" /\ ~Taken(q)
    /\ \E publish, deactivateOthers \in BOOLEAN :
         LET rivals == {t \in Made \ {q.of} : template[t].type = q.read.type}
             alone  == publish /\ deactivateOthers
         IN  template' = [Deactivated(IF alone THEN rivals ELSE {}) EXCEPT
                            ![q.of].active = publish, ![q.of].alone = alone,
                            ![q.of].last = NextVersion(q)]
    /\ snapshot' = [snapshot EXCEPT ![<<q.of, NextVersion(q)>>] = Content(q.read)]
    /\ Finish(sl)
    /\ UNCHANGED <<load, proof, restarts>>

----------------------------------------------------------------------------
(* updateTemplateMapping: one transaction for snapshot and template, then a *)
(* read of the proofs and another transaction that redraws them.           *)
ReadForMapping(sl) == \E t \in Made : template[t].last < MaxVersion /\ Read(sl, "mapping", t)

CommitMapping(sl) ==
  LET q == templateReq[sl] IN
    /\ q.op = "mapping" /\ ~Taken(q)
    /\ \E mapping \in Mapping, layout \in Layout :
         LET draw == [mapping |-> mapping, layout |-> layout, version |-> NextVersion(q)] IN
           /\ template' = [template EXCEPT ![q.of].mapping = mapping, ![q.of].layout = layout,
                                           ![q.of].last = NextVersion(q)]
           /\ snapshot' = [snapshot EXCEPT ![<<q.of, NextVersion(q)>>] = Content(draw)]
           /\ GoOn(sl, [op |-> "find", of |-> q.of, draw |-> draw])
    /\ UNCHANGED <<load, proof, restarts>>

DrawnFrom(t) == {p \in Drawn : proof[p].template = t}

(* fault: only one proof of each student is found, as in rebindTemplateProofs *)
FindProofsFaultOnePerStudent(sl) ==
  LET q == templateReq[sl] IN
    /\ q.op = "find"
    /\ \E found \in SUBSET DrawnFrom(q.of) :
         /\ \A p1, p2 \in found : proof[p1].student = proof[p2].student => p1 = p2
         /\ {proof[p].student : p \in found} = {proof[p].student : p \in DrawnFrom(q.of)}
         /\ GoOn(sl, [op |-> "draw", of |-> q.of, draw |-> q.draw, found |-> found])
    /\ UNCHANGED <<load, template, snapshot, proof, restarts>>

FindProofs(sl) ==
  LET q == templateReq[sl] IN
    /\ q.op = "find"
    /\ GoOn(sl, [op |-> "draw", of |-> q.of, draw |-> q.draw, found |-> DrawnFrom(q.of)])
    /\ UNCHANGED <<load, template, snapshot, proof, restarts>>

Redrawn(p, draw) ==
  [proof[p] EXCEPT !.mapping = draw.mapping, !.layout = draw.layout, !.version = draw.version]

DrawProofs(sl) ==
  LET q == templateReq[sl] IN
    /\ q.op = "draw"
    /\ proof' = [p \in Proof |-> IF p \in q.found THEN Redrawn(p, q.draw) ELSE proof[p]]
    /\ Finish(sl)
    /\ UNCHANGED <<load, template, snapshot, restarts>>

----------------------------------------------------------------------------
(* rebindTemplateProofs: all students of the school or those of one link;   *)
(* the map it builds keeps one proof of each, and one without gets one.    *)
(* Unlike an edit, it draws without the layouts.                           *)
ReadForRebind(sl) == \E t \in Made : Read(sl, "rebind", t)

Bare(row) == [mapping |-> row.mapping, layout |-> NoLayout, version |-> row.last]

Fresh(q, s) ==
  [template |-> q.of, student |-> s,
   mapping |-> q.read.mapping, layout |-> NoLayout, version |-> q.read.last]

FindForRebind(sl) ==
  LET q == templateReq[sl] IN
    /\ q.op = "rebind"
    /\ \E students \in SUBSET Student :
         LET theirs == {p \in DrawnFrom(q.of) : proof[p].student \in students} IN
           \E found \in SUBSET theirs :
             /\ \A p1, p2 \in found : proof[p1].student = proof[p2].student => p1 = p2
             /\ {proof[p].student : p \in found} = {proof[p].student : p \in theirs}
             /\ GoOn(sl, [op |-> "redraw", of |-> q.of, read |-> q.read, found |-> found,
                          without |-> students \ {proof[p].student : p \in found}])
    /\ UNCHANGED <<load, template, snapshot, proof, restarts>>

Rebind(sl) ==
  LET q == templateReq[sl] IN
    /\ q.op = "redraw"
    /\ \E new \in [q.without -> Proof \ Drawn] :
         /\ \A s1, s2 \in q.without : new[s1] = new[s2] => s1 = s2
         /\ proof' = [p \in Proof |->
              CASE p \in q.found -> Redrawn(p, Bare(q.read))
                [] \E s \in q.without : new[s] = p ->
                     Fresh(q, CHOOSE s \in q.without : new[s] = p)
                [] OTHER -> proof[p]]
    /\ Finish(sl)
    /\ UNCHANGED <<load, template, snapshot, restarts>>

----------------------------------------------------------------------------
(* The end of submit and submitStudent: the template bound to the link, or  *)
(* an active one, whether the student has a proof or not; no layouts.      *)
ReadForProof(sl) == \E t \in Made : Read(sl, "proof", t)

CreateProof(sl) ==
  LET q == templateReq[sl] IN
    /\ q.op = "proof"
    /\ \E p \in Proof \ Drawn, s \in Student : proof' = [proof EXCEPT ![p] = Fresh(q, s)]
    /\ Finish(sl)
    /\ UNCHANGED <<load, template, snapshot, restarts>>

(* setTemplateColorProfile: the mapping that was read is written back, with *)
(* another profile; layouts, version and snapshots stay.                   *)
ReadForColor(sl) == \E t \in Made : Read(sl, "color", t)

CommitColor(sl) ==
  LET q == templateReq[sl] IN
    /\ q.op = "color"
    /\ template' = [template EXCEPT ![q.of].mapping = q.read.mapping]
    /\ Finish(sl)
    /\ UNCHANGED <<load, snapshot, proof, restarts>>

----------------------------------------------------------------------------
ProcessRestart ==
  /\ restarts < MaxRestarts
  /\ Busy # {}
  /\ restarts' = restarts + 1
  /\ templateReq' = [sl \in Slot |-> Idle]
  /\ UNCHANGED <<load, template, snapshot, proof>>

Init ==
  /\ load \in 1..MaxLoad
  /\ template = [t \in Template |-> Unmade]
  /\ snapshot = [tv \in Template \X Version |-> NoSnapshot]
  /\ proof = [p \in Proof |-> NoProof]
  /\ templateReq = [sl \in Slot |-> Idle]
  /\ restarts = 0

DesignStep(sl) ==
  \/ BeginCreate(sl)
  \/ CommitCreate(sl)
  \/ ReadForCopy(sl)
  \/ CommitCopy(sl)
  \/ WriteFirstSnapshot(sl)
  \/ ReadForStatus(sl)
  \/ CommitStatus(sl)
  \/ ReadForMapping(sl)
  \/ CommitMapping(sl)
  \/ Conflict(sl)
  \/ ReadForColor(sl)
  \/ CommitColor(sl)

ProofStep(sl) ==
  \/ FindProofs(sl)
  \/ DrawProofs(sl)
  \/ ReadForRebind(sl)
  \/ FindForRebind(sl)
  \/ Rebind(sl)
  \/ ReadForProof(sl)
  \/ CreateProof(sl)

Next ==
  \/ \E sl \in Slot : DesignStep(sl) \/ ProofStep(sl)
  \/ ProcessRestart

Spec == Init /\ [][Next]_vars

----------------------------------------------------------------------------
(* Properties *)

(* The rows of the tables have the columns of the schema.                  *)
TypeOK ==
  /\ load \in 1..MaxLoad
  /\ template \in [Template -> TemplateRow \cup {Unmade}]
  /\ snapshot \in [Template \X Version -> SnapshotRow \cup {NoSnapshot}]
  /\ proof \in [Proof -> ProofRow \cup {NoProof}]
  /\ restarts \in 0..MaxRestarts

Newest(t) == snapshot[<<t, template[t].last>>]
Kept(t) == {snapshot[<<t, v>>] : v \in 1..template[t].last} \ {NoSnapshot}
HasFirst(t) == snapshot[<<t, 1>>] # NoSnapshot

(* The snapshots of a template have no gap, the last of them is the one the *)
(* template names, and whatever overlaps it keeps the layouts the template *)
(* has.  The mapping is that of some snapshot, once the first was written; *)
(* while requests come one at a time, of the newest: a colour profile may   *)
(* bring an older mapping back beside newer layouts.                       *)
SnapshotsInStep ==
  \A t \in Made :
    /\ \A v \in Version \ {1} : snapshot[<<t, v>>] # NoSnapshot <=> v <= template[t].last
    /\ Newest(t) # NoSnapshot => template[t].layout = Newest(t).layout
    /\ HasFirst(t) => \E content \in Kept(t) : content.mapping = template[t].mapping
    /\ load = 1 /\ template[t].last > 1 => template[t].mapping = Newest(t).mapping

Redrawing(t) ==
  \E sl \in Slot : templateReq[sl].op \in {"find", "draw"} /\ templateReq[sl].of = t

(* A proof never claims a version the template has not reached, and if it   *)
(* has layouts it shows what the snapshot of its version keeps.  When       *)
(* requests come one at a time and none was cut off, every proof shows the *)
(* mapping of its template, with its layouts or, from a submission or a    *)
(* rebinding, with none; or it is about to be redrawn.                     *)
ProofsFollowTemplate ==
  \A p \in Drawn :
    LET t == proof[p].template IN
      /\ proof[p].version <= template[t].last
      /\ proof[p].layout # NoLayout =>
           snapshot[<<t, proof[p].version>>] = Content(proof[p])
      /\ load = 1 /\ restarts = 0 =>
           \/ /\ proof[p].mapping = template[t].mapping
              /\ proof[p].layout \in {template[t].layout, NoLayout}
           \/ Redrawing(t)

(* Of the templates of one card type that were activated in place of the   *)
(* others, at most as many are active as requests overlap.                 *)
OneActiveTemplate ==
  \A type \in CardType :
    Cardinality({t \in Made : /\ template[t].type = type
                              /\ template[t].active /\ template[t].alone}) <= load
=============================================================================
