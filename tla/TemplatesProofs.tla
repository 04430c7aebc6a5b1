-------------------------- MODULE TemplatesProofs --------------------------
(***************************************************************************)
(* Theorems about Templates for any templates, proofs, requests in flight   *)
(* and restarts: what its snapshots keep, which templates are active, and  *)
(* what the proofs show.                                                   *)
(***************************************************************************)
EXTENDS Templates, FiniteSetTheorems, TLAPS

(* Requests that hold a row they have read; that create one; and the rest.  *)
Holding == {"copy", "status", "mapping", "rebind", "redraw", "proof", "color"}
Drawing == {"find", "draw"}

(* What an edit draws; and what any request draws, layouts or not.         *)
Draw == [mapping : Mapping, layout : Layout, version : Version]
AnyDraw == [mapping : Mapping, layout : Layout \cup {NoLayout}, version : Version]

Creates ==
  [op : {"create"}, type : CardType, mapping : Mapping, layout : Layout, active : BOOLEAN]
Firsts == [op : {"first"}, of : Template, content : SnapshotRow]
Holds == [op : Holding \ {"redraw"}, of : Template, read : TemplateRow]
Redraws ==
  [op : {"redraw"}, of : Template, read : TemplateRow,
   found : SUBSET Proof, without : SUBSET Student]
Finds == [op : {"find"}, of : Template, draw : Draw]
Draws == [op : {"draw"}, of : Template, draw : Draw, found : SUBSET Proof]

Request == {Idle} \cup Creates \cup Firsts \cup Holds \cup Redraws \cup Finds \cup Draws

Typed == TypeOK /\ templateReq \in [Slot -> Request]

----------------------------------------------------------------------------
(* The parts of the inductive invariant                                    *)

(* What a request in flight says of a template is of a row there was.      *)
Sound(q) ==
  /\ q # Idle /\ q.op # "create" => q.of \in Made
  /\ q.op \in Holding => /\ q.read.type = template[q.of].type
                         /\ q.read.last <= template[q.of].last
                         /\ q.read.last = template[q.of].last =>
                              q.read.layout = template[q.of].layout
  /\ q.op \in {"status", "mapping"} => q.read.last < MaxVersion
  /\ q.op \in Drawing => /\ q.draw.version <= template[q.of].last
                         /\ snapshot[<<q.of, q.draw.version>>] = Content(q.draw)
  /\ q.op \in {"draw", "redraw"} => q.found \subseteq DrawnFrom(q.of)
  /\ q.op = "first" => /\ ~HasFirst(q.of)
                       /\ template[q.of].last = 1 => q.content.layout = template[q.of].layout

RequestsSound == \A sl \in Slot : Sound(templateReq[sl])

Pending(t) == {sl \in Slot : templateReq[sl].op = "first" /\ templateReq[sl].of = t}

FirstsApart == \A t \in Template : \A a, b \in Pending(t) : a = b

UnmadeIsEmpty ==
  \A t \in Template \ Made : \A v \in Version : snapshot[<<t, v>>] = NoSnapshot

Gapless ==
  \A t \in Made : \A v \in Version \ {1} :
    snapshot[<<t, v>>] # NoSnapshot <=> v <= template[t].last

LayoutsKept ==
  \A t \in Made : Newest(t) # NoSnapshot => template[t].layout = Newest(t).layout

(* What a row says it was drawn from is there.                             *)
Kempt(row) == row.layout # NoLayout => snapshot[<<row.template, row.version>>] = Content(row)

ProofsSound ==
  \A p \in Drawn : /\ proof[p].template \in Made
                   /\ proof[p].version <= template[proof[p].template].last
                   /\ Kempt(proof[p])

Grounded ==
  RequestsSound /\ FirstsApart /\ UnmadeIsEmpty /\ Gapless /\ LayoutsKept /\ ProofsSound

(* A template whose first snapshot was written or is about to be shows, and  *)
(* its readers have seen, only mappings that a snapshot keeps or is about   *)
(* to keep.                                                                *)
Begun(t) == HasFirst(t) \/ Pending(t) # {}
Known(t, m) ==
  \/ \E v \in Version : snapshot[<<t, v>>] # NoSnapshot /\ snapshot[<<t, v>>].mapping = m
  \/ \E sl \in Pending(t) : templateReq[sl].content.mapping = m

RowsKnown == \A t \in Made : Begun(t) => Known(t, template[t].mapping)
ReadsKnown ==
  \A sl \in Slot :
    LET q == templateReq[sl] IN q.op \in Holding /\ Begun(q.of) => Known(q.of, q.read.mapping)

(* Requests one at a time: nothing has come between what one read and what  *)
(* it is going to write.                                                   *)
Current(q) ==
  /\ q.op \in Holding => q.read.mapping = template[q.of].mapping
  /\ q.op \in Drawing => /\ q.draw.mapping = template[q.of].mapping
                         /\ q.draw.layout = template[q.of].layout
  /\ q.op = "draw" => q.found = DrawnFrom(q.of)

NewestShown ==
  \A t \in Made : template[t].last > 1 => template[t].mapping = Newest(t).mapping

Shows(row, design) == row.mapping = design.mapping /\ row.layout \in {design.layout, NoLayout}

ProofsShown ==
  \A p \in Drawn :
    Shows(proof[p], template[proof[p].template]) \/ Redrawing(proof[p].template)

Serial ==
  load = 1 =>
    /\ \A sl \in Slot : Current(templateReq[sl])
    /\ NewestShown
    /\ restarts = 0 => ProofsShown

(* Every template active alone of its type, and every request about to      *)
(* create one, has been let in as one of load.                             *)
BusyBound == Cardinality(Busy) <= load

Alone(type) == {t \in Made : template[t].type = type /\ template[t].active /\ template[t].alone}
Coming(type) ==
  {sl \in Slot : /\ templateReq[sl].op = "create"
                 /\ templateReq[sl].type = type /\ templateReq[sl].active}
AloneBound == \A type \in CardType : Cardinality(Alone(type)) + Cardinality(Coming(type)) <= load

IInv ==
  /\ Typed /\ Grounded
  /\ RowsKnown /\ ReadsKnown
  /\ BusyBound /\ Serial
  /\ AloneBound

----------------------------------------------------------------------------
(* Rows and requests                                                       *)
LEMMA Numbers ==
  /\ MaxVersion \in Nat \ {0} /\ MaxLoad \in Nat \ {0} /\ MaxRestarts \in Nat
  /\ 1 \in Version /\ Version \subseteq Nat
  /\ \A t \in Template, v \in Version : <<t, v>> \in Template \X Version
  /\ NoLayout \notin Layout
BY TemplatesAssumption DEF Version

LEMMA SnapshotRows ==
  \A row \in SnapshotRow : row # NoSnapshot /\ row.mapping \in Mapping /\ row.layout \in Layout
<1>1. \A row \in SnapshotRow : row.mapping \in Mapping /\ row.layout \in Layout
  BY DEF SnapshotRow
<1>2. NoSnapshot.layout = NoLayout
  BY DEF NoSnapshot
<1> QED
  BY <1>1, <1>2, Numbers

LEMMA ContentIsRow ==
  ASSUME NEW row, row.mapping \in Mapping
  PROVE  /\ Content(row).mapping = row.mapping /\ Content(row).layout = row.layout
         /\ row.layout \in Layout => Content(row) \in SnapshotRow /\ Content(row) # NoSnapshot
<1>1. row.layout \in Layout => Content(row) \in SnapshotRow
  BY DEF Content, SnapshotRow
<1> QED
  BY <1>1, SnapshotRows DEF Content

LEMMA ShapeOf ==
  ASSUME NEW q \in Request
  PROVE  /\ q.op = "create" => q \in Creates
         /\ q.op = "first" => q \in Firsts
         /\ q.op \in Holding => q \in Holds \cup Redraws
         /\ q.op \in Holding \ {"redraw"} => q \in Holds
         /\ q.op = "redraw" => q \in Redraws
         /\ q.op = "find" => q \in Finds
         /\ q.op = "draw" => q \in Draws
         /\ q.op = "idle" => q = Idle
<1>1. /\ q = Idle => q.op = "idle"
      /\ q \in Creates => q.op = "create"
      /\ q \in Firsts => q.op = "first"
      /\ q \in Holds => q.op \in Holding \ {"redraw"}
      /\ q \in Redraws => q.op = "redraw"
      /\ q \in Finds => q.op = "find"
      /\ q \in Draws => q.op = "draw"
  <2>1. q = Idle => q.op = "idle"
    BY DEF Idle
  <2>2. q \in Creates => q.op = "create"
    BY DEF Creates
  <2>3. q \in Firsts => q.op = "first"
    BY DEF Firsts
  <2>4. q \in Holds => q.op \in Holding \ {"redraw"}
    BY DEF Holds
  <2>5. q \in Redraws => q.op = "redraw"
    BY DEF Redraws
  <2>6. q \in Finds => q.op = "find"
    BY DEF Finds
  <2>7. q \in Draws => q.op = "draw"
    BY DEF Draws
  <2> QED
    BY <2>1, <2>2, <2>3, <2>4, <2>5, <2>6, <2>7
<1>2. /\ "create" \notin Holding /\ "first" \notin Holding
      /\ "find" \notin Holding /\ "draw" \notin Holding /\ "idle" \notin Holding
  BY DEF Holding
<1> QED
  BY <1>1, <1>2 DEF Request

LEMMA Shapes ==
  ASSUME Typed, NEW sl \in Slot
  PROVE  templateReq[sl] \in Request
BY DEF Typed

(* A row or a request is told from "none" by its fields.                   *)
LEMMA RowsAreMade == \A row \in TemplateRow : row # Unmade
BY DEF TemplateRow, Unmade

LEMMA ProofRowsAreDrawn == \A row \in ProofRow : row # NoProof
<1>1. \A row \in ProofRow : row.version \in Version
  BY DEF ProofRow
<1>2. 0 \notin Version
  BY Numbers DEF Version
<1> QED
  BY <1>1, <1>2 DEF NoProof

LEMMA Unfit == Unmade \notin TemplateRow /\ NoProof \notin ProofRow
BY RowsAreMade, ProofRowsAreDrawn

LEMMA MadeRow ==
  ASSUME Typed, NEW t \in Template
  PROVE  /\ t \in Made <=> template[t] \in TemplateRow
         /\ t \in Made => /\ template[t].type \in CardType
                          /\ template[t].active \in BOOLEAN
                          /\ template[t].alone \in BOOLEAN
                          /\ template[t].mapping \in Mapping
                          /\ template[t].layout \in Layout
                          /\ template[t].last \in Version
                          /\ template[t].last \in Nat
<1>1. t \in Made <=> template[t] \in TemplateRow
  BY Unfit DEF Typed, TypeOK, Made
<1>2. \A row \in TemplateRow :
        /\ row.type \in CardType /\ row.active \in BOOLEAN /\ row.alone \in BOOLEAN
        /\ row.mapping \in Mapping /\ row.layout \in Layout /\ row.last \in Version
  BY DEF TemplateRow
<1> QED
  BY <1>1, <1>2, Numbers

LEMMA DrawnRow ==
  ASSUME Typed, NEW p \in Proof
  PROVE  /\ p \in Drawn <=> proof[p] \in ProofRow
         /\ p \in Drawn => /\ proof[p].template \in Template
                           /\ proof[p].student \in Student
                           /\ proof[p].mapping \in Mapping
                           /\ proof[p].layout \in Layout \cup {NoLayout}
                           /\ proof[p].version \in Version
<1>1. p \in Drawn <=> proof[p] \in ProofRow
  BY Unfit DEF Typed, TypeOK, Drawn
<1>2. \A row \in ProofRow :
        /\ row.template \in Template /\ row.student \in Student
        /\ row.mapping \in Mapping /\ row.layout \in Layout \cup {NoLayout}
        /\ row.version \in Version
  BY DEF ProofRow
<1> QED
  BY <1>1, <1>2

LEMMA Fields ==
  ASSUME NEW q
  PROVE  /\ q \in Creates => /\ q.type \in CardType /\ q.active \in BOOLEAN
                             /\ q.mapping \in Mapping /\ q.layout \in Layout
         /\ q \in Firsts => q.of \in Template /\ q.content \in SnapshotRow
         /\ q \in Holds => q.of \in Template /\ q.read \in TemplateRow
         /\ q \in Redraws => /\ q.of \in Template /\ q.read \in TemplateRow
                             /\ q.found \subseteq Proof /\ q.without \subseteq Student
         /\ q \in Finds => q.of \in Template /\ q.draw \in Draw
         /\ q \in Draws => q.of \in Template /\ q.draw \in Draw /\ q.found \subseteq Proof
BY DEF Creates, Firsts, Holds, Redraws, Finds, Draws

LEMMA ReadFields ==
  \A row \in TemplateRow :
    /\ row.type \in CardType /\ row.active \in BOOLEAN /\ row.alone \in BOOLEAN
    /\ row.mapping \in Mapping /\ row.layout \in Layout
    /\ row.last \in Version /\ row.last \in Nat
BY Numbers DEF TemplateRow

LEMMA DrawFields ==
  /\ \A d \in Draw : /\ d.mapping \in Mapping /\ d.layout \in Layout /\ d.version \in Version
                    /\ d \in AnyDraw
  /\ \A d \in AnyDraw : /\ d.mapping \in Mapping /\ d.layout \in Layout \cup {NoLayout}
                       /\ d.version \in Version
BY DEF Draw, AnyDraw

(* GoOn changes one slot.                                                  *)
LEMMA OneSlot ==
  ASSUME Typed, NEW sl \in Slot, NEW q, GoOn(sl, q)
  PROVE  /\ templateReq'[sl] = q
         /\ \A o \in Slot : o # sl => templateReq'[o] = templateReq[o]
         /\ q \in Request => templateReq' \in [Slot -> Request]
BY DEF Typed, GoOn

----------------------------------------------------------------------------
(* What the steps have in common                                           *)

(* A request that goes on, or one that is let in.                          *)
Acting(sl) == sl \in Busy \/ Cardinality(Busy) < load

LEMMA SlotsFinite == IsFiniteSet(Slot) /\ IsFiniteSet(Busy) /\ Cardinality(Busy) \in Nat
BY TemplatesAssumption, FS_Subset, FS_CardinalityType DEF Busy

LEMMA BusyMoves ==
  ASSUME Typed, BusyBound, load' = load, NEW sl \in Slot, Acting(sl), NEW n, GoOn(sl, n)
  PROVE  BusyBound'
<1>1. load \in Nat
  BY Numbers DEF Typed, TypeOK
<1>2. Busy' \subseteq Busy \cup {sl}
  BY OneSlot DEF Busy
<1>3. CASE sl \in Busy
  <2>1. Busy' \subseteq Busy
    BY <1>2, <1>3
  <2>2. Cardinality(Busy') <= Cardinality(Busy)
    BY <2>1, SlotsFinite, FS_Subset
  <2>3. Cardinality(Busy') \in Nat
    BY <2>1, SlotsFinite, FS_Subset, FS_CardinalityType
  <2> QED
    BY <1>1, <2>2, <2>3, SlotsFinite DEF BusyBound
<1>4. CASE sl \notin Busy
  <2>1. Cardinality(Busy) < load
    BY <1>4 DEF Acting
  <2>2. /\ Cardinality(Busy \cup {sl}) = Cardinality(Busy) + 1
        /\ IsFiniteSet(Busy \cup {sl})
    BY <1>4, SlotsFinite, FS_AddElement
  <2>3. /\ Cardinality(Busy') <= Cardinality(Busy \cup {sl})
        /\ Cardinality(Busy') \in Nat
    BY <1>2, <2>2, FS_Subset, FS_CardinalityType
  <2> QED
    BY <1>1, <2>1, <2>2, <2>3, SlotsFinite DEF BusyBound
<1> QED
  BY <1>3, <1>4

LEMMA OthersIdle ==
  ASSUME Typed, BusyBound, load = 1, NEW sl \in Slot, Acting(sl)
  PROVE  \A o \in Slot : o # sl => templateReq[o] = Idle
<1>1. CASE sl \in Busy
  <2>1. Cardinality(Busy) = 1
    <3>1. Cardinality(Busy) # 0
      BY <1>1, SlotsFinite, FS_EmptySet
    <3> QED
      BY <3>1, SlotsFinite DEF BusyBound
  <2>2. PICK o : Busy = {o}
    BY <2>1, SlotsFinite, FS_Singleton
  <2> QED
    BY <1>1, <2>2 DEF Busy
<1>2. CASE sl \notin Busy
  <2>1. Cardinality(Busy) = 0
    BY <1>2, SlotsFinite DEF Acting
  <2>2. Busy = {}
    BY <2>1, SlotsFinite, FS_EmptySet
  <2> QED
    BY <2>2 DEF Busy
<1> QED
  BY <1>1, <1>2

(* Rows are never removed, templates keep their type, versions go up, with  *)
(* a new layout at least, and what a snapshot keeps stays.                 *)
RowsGrow ==
  /\ \A t \in Made : /\ t \in Made' /\ template'[t].type = template[t].type
                     /\ template[t].last <= template'[t].last
                     /\ template'[t].last = template[t].last =>
                          template'[t].layout = template[t].layout
  /\ \A p \in Drawn : p \in Drawn' /\ proof'[p].template = proof[p].template

SnapshotsStay ==
  \A t \in Template : \A v \in Version :
    snapshot[<<t, v>>] # NoSnapshot => snapshot'[<<t, v>>] = snapshot[<<t, v>>]

LEMMA SoundStays ==
  ASSUME Typed, Typed', RowsGrow, SnapshotsStay, NEW sl \in Slot, Sound(templateReq[sl]),
         templateReq'[sl] = templateReq[sl],
         templateReq[sl].op = "first" /\ HasFirst(templateReq[sl].of)' =>
           HasFirst(templateReq[sl].of)
  PROVE  Sound(templateReq[sl])'
<1> PICK q : q = templateReq[sl]
  OBVIOUS
<1>1. /\ Sound(q)
      /\ templateReq'[sl] = q
  OBVIOUS
<1>2. q.op \in Holding => q.read \in TemplateRow
  BY Shapes, ShapeOf, Fields DEF Holding
<1>3. q.op \in Drawing => q.draw \in Draw
  BY Shapes, ShapeOf, Fields DEF Drawing
<1>4. q # Idle /\ q.op # "create" => q.of \in Made /\ q.of \in Template
  BY <1>1 DEF Sound, Made
<1>5. q # Idle /\ q.op # "create" =>
        /\ q.of \in Made'
        /\ template'[q.of].type = template[q.of].type
        /\ template[q.of].last <= template'[q.of].last
        /\ template'[q.of].last = template[q.of].last => template'[q.of].layout = template[q.of].layout
        /\ template[q.of].last \in Nat /\ template'[q.of].last \in Nat
  <2> SUFFICES ASSUME q # Idle, q.op # "create"
      PROVE  /\ q.of \in Made'
             /\ template'[q.of].type = template[q.of].type
             /\ template[q.of].last <= template'[q.of].last
             /\ template'[q.of].last = template[q.of].last =>
                  template'[q.of].layout = template[q.of].layout
             /\ template[q.of].last \in Nat /\ template'[q.of].last \in Nat
    OBVIOUS
  <2>1. q.of \in Made'
    BY <1>4 DEF RowsGrow
  <2>2. template'[q.of] \in TemplateRow
    BY <1>4, <2>1 DEF Typed, TypeOK, Made
  <2> QED
    BY <1>4, <2>1, <2>2, MadeRow, ReadFields DEF RowsGrow
<1>6. q.op \in Holding \cup Drawing \cup {"draw", "redraw", "first"} => q # Idle /\ q.op # "create"
  <2>1. Idle.op = "idle"
    BY DEF Idle
  <2> QED
    BY <2>1 DEF Holding, Drawing
<1>7. q.op \in Holding => /\ q.read.type = template'[q.of].type
                          /\ q.read.last <= template'[q.of].last
                          /\ q.read.last = template'[q.of].last =>
                               q.read.layout = template'[q.of].layout
  <2> SUFFICES ASSUME q.op \in Holding
      PROVE  /\ q.read.type = template'[q.of].type /\ q.read.last <= template'[q.of].last
             /\ q.read.last = template'[q.of].last => q.read.layout = template'[q.of].layout
    OBVIOUS
  <2>1. q.read.last \in Nat
    BY <1>2, ReadFields
  <2>2. /\ q.read.type = template[q.of].type /\ q.read.last <= template[q.of].last
        /\ q.read.last = template[q.of].last => q.read.layout = template[q.of].layout
    BY <1>1 DEF Sound
  <2>3. q # Idle /\ q.op # "create"
    BY <1>6
  <2>4. /\ template'[q.of].type = template[q.of].type
        /\ template[q.of].last <= template'[q.of].last
        /\ template'[q.of].last = template[q.of].last => template'[q.of].layout = template[q.of].layout
        /\ template[q.of].last \in Nat /\ template'[q.of].last \in Nat
    BY <1>5, <2>3
  <2> QED
    BY <2>1, <2>2, <2>4
<1>8. q.op \in Drawing => /\ q.draw.version <= template'[q.of].last
                          /\ snapshot'[<<q.of, q.draw.version>>] = Content(q.draw)
  <2> SUFFICES ASSUME q.op \in Drawing
      PROVE  /\ q.draw.version <= template'[q.of].last
             /\ snapshot'[<<q.of, q.draw.version>>] = Content(q.draw)
    OBVIOUS
  <2>1. q.draw.version \in Nat
    BY <1>3, DrawFields, Numbers
  <2>2. /\ q.draw.version <= template[q.of].last
        /\ snapshot[<<q.of, q.draw.version>>] = Content(q.draw)
    BY <1>1 DEF Sound
  <2>5. snapshot'[<<q.of, q.draw.version>>] = Content(q.draw)
    BY <1>3, <1>4, <1>6, <2>2, DrawFields, ContentIsRow DEF SnapshotsStay
  <2>3. q # Idle /\ q.op # "create"
    BY <1>6
  <2>4. /\ template'[q.of].type = template[q.of].type
        /\ template[q.of].last <= template'[q.of].last
        /\ template'[q.of].last = template[q.of].last => template'[q.of].layout = template[q.of].layout
        /\ template[q.of].last \in Nat /\ template'[q.of].last \in Nat
    BY <1>5, <2>3
  <2> QED
    BY <2>1, <2>2, <2>4, <2>5
<1>9. q.op \in {"draw", "redraw"} => q.found \subseteq DrawnFrom(q.of)'
  <2>1. q.op \in {"draw", "redraw"} => q.found \subseteq DrawnFrom(q.of)
    BY <1>1 DEF Sound
  <2> QED
    BY <2>1 DEF DrawnFrom, RowsGrow
<1>10. q.op = "first" =>
         /\ ~HasFirst(q.of)'
         /\ template'[q.of].last = 1 => q.content.layout = template'[q.of].layout
  <2> SUFFICES ASSUME q.op = "first"
      PROVE  /\ ~HasFirst(q.of)'
             /\ template'[q.of].last = 1 => q.content.layout = template'[q.of].layout
    OBVIOUS
  <2>1. ~HasFirst(q.of)' /\ q # Idle /\ q.op # "create"
    BY <1>1, <1>6 DEF Sound
  <2>2. template[q.of].last = 1 => q.content.layout = template[q.of].layout
    BY <1>1 DEF Sound
  <2>3. 1 <= template[q.of].last
    <3>1. template[q.of].last \in Version
      BY <1>4, <2>1, MadeRow
    <3> QED
      BY <3>1 DEF Version
  <2> QED
    BY <1>5, <2>1, <2>2, <2>3
<1>11. q.op \in {"status", "mapping"} => q.read.last < MaxVersion
  BY <1>1 DEF Sound
<1> QED
  BY <1>1, <1>5, <1>7, <1>8, <1>9, <1>10, <1>11 DEF Sound

LEMMA RequestsMove ==
  ASSUME Typed, Typed', RowsGrow, SnapshotsStay, RequestsSound, NEW sl \in Slot, NEW n, GoOn(sl, n),
         Sound(templateReq[sl])',
         \A o \in Slot : o # sl /\ templateReq[o].op = "first" /\ HasFirst(templateReq[o].of)' =>
           HasFirst(templateReq[o].of)
  PROVE  RequestsSound'
<1> SUFFICES ASSUME NEW o \in Slot
    PROVE  Sound(templateReq[o])'
  BY DEF RequestsSound
<1>1. CASE o = sl
  BY <1>1
<1>2. CASE o # sl
  BY <1>2, OneSlot, SoundStays DEF RequestsSound
<1> QED
  BY <1>1, <1>2

(* A step that begins or ends no first snapshot.                           *)
LEMMA PendingStays ==
  ASSUME Typed, NEW sl \in Slot, NEW n, GoOn(sl, n), templateReq[sl].op # "first", n.op # "first",
         NEW t \in Template
  PROVE  /\ Pending(t)' = Pending(t)
         /\ \A o \in Pending(t) : templateReq'[o] = templateReq[o]
<1>1. \A o \in Slot : o # sl => templateReq'[o] = templateReq[o]
  BY OneSlot
<1>2. templateReq'[sl] = n
  BY OneSlot
<1>3. \A o \in Pending(t) : o # sl /\ o \in Slot
  BY DEF Pending
<1>4. \A o \in Slot : o \in Pending(t)' <=> o \in Pending(t)
  BY <1>1, <1>2 DEF Pending
<1>5. Pending(t) \subseteq Slot /\ Pending(t)' \subseteq Slot
  BY DEF Pending
<1> QED
  BY <1>1, <1>3, <1>4, <1>5

LEMMA KnownStays ==
  ASSUME Typed, SnapshotsStay, NEW sl \in Slot, NEW n, GoOn(sl, n),
         templateReq[sl].op # "first", n.op # "first",
         NEW t \in Template
  PROVE  /\ (HasFirst(t)' <=> HasFirst(t)) => (Begun(t)' <=> Begun(t))
         /\ \A m \in Mapping : Known(t, m) => Known(t, m)'
<1>1. Pending(t)' = Pending(t) /\ \A o \in Pending(t) : templateReq'[o] = templateReq[o]
  BY PendingStays
<1>3. ASSUME NEW m \in Mapping, Known(t, m)
      PROVE  Known(t, m)'
  <2>1. CASE \E v \in Version : snapshot[<<t, v>>] # NoSnapshot /\ snapshot[<<t, v>>].mapping = m
    BY <2>1 DEF SnapshotsStay, Known
  <2>2. CASE \E o \in Pending(t) : templateReq[o].content.mapping = m
    BY <1>1, <2>2 DEF Known
  <2> QED
    BY <1>3, <2>1, <2>2 DEF Known
<1> QED
  BY <1>1, <1>3 DEF Begun

(* Mappings stay known: a row shows what it did or something known, and a   *)
(* request has read what it had or something known.                        *)
LEMMA MappingsKnown ==
  ASSUME Typed, Typed', RowsKnown, ReadsKnown, RequestsSound, NEW sl \in Slot, NEW n, GoOn(sl, n),
         \A t \in Made : Begun(t)' => Begun(t),
         \A t \in Made : \A m \in Mapping : Known(t, m) => Known(t, m)',
         \A t \in Made' : Begun(t)' =>
           \/ t \in Made /\ template'[t].mapping = template[t].mapping
           \/ Known(t, template[t].mapping)',
         n.op \in Holding /\ Begun(n.of)' => Known(n.of, n.read.mapping)'
  PROVE  RowsKnown' /\ ReadsKnown'
<1>1. ASSUME NEW t \in Made', Begun(t)'
      PROVE  Known(t, template[t].mapping)'
  <2>1. CASE t \in Made /\ template'[t].mapping = template[t].mapping
    <3>1. template[t].mapping \in Mapping
      BY <2>1, MadeRow DEF Made
    <3> QED
      BY <1>1, <2>1, <3>1 DEF RowsKnown
  <2> QED
    BY <1>1, <2>1
<1>2. ASSUME NEW o \in Slot, NEW q, q = templateReq'[o], q.op \in Holding, Begun(q.of)'
      PROVE  Known(q.of, q.read.mapping)'
  <2>1. CASE o = sl
    BY <1>2, <2>1, OneSlot
  <2>2. CASE o # sl
    <3>1. templateReq[o] = q
      BY <1>2, <2>2, OneSlot
    <3>2. q.of \in Made
      <4>1. Idle.op = "idle"
        BY DEF Idle
      <4>2. "idle" \notin Holding /\ "create" \notin Holding
        BY DEF Holding
      <4> QED
        BY <1>2, <3>1, <4>1, <4>2 DEF RequestsSound, Sound
    <3>3. q.read.mapping \in Mapping
      <4>1. q \in Holds \cup Redraws
        BY <1>2, <3>1, Shapes, ShapeOf
      <4> QED
        BY <4>1, Fields, ReadFields
    <3>4. Begun(q.of) /\ Known(q.of, q.read.mapping)
      BY <1>2, <3>1, <3>2 DEF ReadsKnown
    <3> QED
      BY <3>1, <3>2, <3>3, <3>4
  <2> QED
    BY <2>1, <2>2
<1> QED
  BY <1>1, <1>2 DEF RowsKnown, ReadsKnown

LEMMA AloneFinite ==
  ASSUME NEW type
  PROVE  /\ IsFiniteSet(Alone(type)) /\ Cardinality(Alone(type)) \in Nat
         /\ IsFiniteSet(Coming(type)) /\ Cardinality(Coming(type)) \in Nat
<1>1. Alone(type) \subseteq Template /\ Coming(type) \subseteq Slot
  BY DEF Alone, Made, Coming
<1> QED
  BY <1>1, TemplatesAssumption, FS_Subset, FS_CardinalityType

LEMMA AloneFewer ==
  ASSUME Typed, load' = load, AloneBound,
         NEW type \in CardType,
         Alone(type)' \subseteq Alone(type), Coming(type)' \subseteq Coming(type)
  PROVE  Cardinality(Alone(type)') + Cardinality(Coming(type)') <= load
<1>1. /\ Cardinality(Alone(type)') <= Cardinality(Alone(type))
      /\ Cardinality(Coming(type)') <= Cardinality(Coming(type))
  BY AloneFinite, FS_Subset
<1>2. /\ Cardinality(Alone(type)') \in Nat /\ Cardinality(Coming(type)') \in Nat
      /\ IsFiniteSet(Alone(type)') /\ IsFiniteSet(Coming(type)')
  BY AloneFinite, FS_Subset, FS_CardinalityType
<1>3. load \in Nat
  BY Numbers DEF Typed, TypeOK
<1> QED
  BY <1>1, <1>2, <1>3, AloneFinite DEF AloneBound

LEMMA ComingMoves ==
  ASSUME Typed, NEW sl \in Slot, NEW n, GoOn(sl, n), NEW type
  PROVE  /\ n.op # "create" => Coming(type)' \subseteq Coming(type) \ {sl}
         /\ Coming(type)' \subseteq Coming(type) \cup {sl}
BY OneSlot DEF Coming

(* No template becomes active alone.                                       *)
LEMMA NoneAlone ==
  ASSUME Typed, load' = load, AloneBound, NEW sl \in Slot, NEW n, GoOn(sl, n), n.op # "create",
         \A type \in CardType : Alone(type)' \subseteq Alone(type)
  PROVE  AloneBound'
<1>1. ASSUME NEW type \in CardType
      PROVE  Cardinality(Alone(type)') + Cardinality(Coming(type)') <= load
  BY AloneFewer, ComingMoves
<1> QED
  BY <1>1 DEF AloneBound

LEMMA IdleIsIdle ==
  /\ Idle.op = "idle" /\ Idle \in Request
  /\ \A op \in Holding \cup Drawing \cup {"create", "first"} : op # "idle"
<1>1. Idle.op = "idle"
  BY DEF Idle
<1> QED
  BY <1>1 DEF Request, Holding, Drawing

LEMMA SerialMoves ==
  ASSUME Typed, BusyBound, load' = load, NEW sl \in Slot, Acting(sl), NEW n, GoOn(sl, n),
         load = 1 => /\ Current(templateReq[sl])'
                     /\ NewestShown'
                     /\ restarts' = 0 => ProofsShown'
  PROVE  Serial'
<1> SUFFICES ASSUME load = 1
    PROVE  \A o \in Slot : Current(templateReq[o])'
  BY DEF Serial
<1>1. ASSUME NEW o \in Slot, o # sl
      PROVE  Current(templateReq[o])'
  <2>1. templateReq'[o] = Idle
    BY <1>1, OthersIdle, OneSlot
  <2>2. templateReq'[o].op \notin Holding /\ templateReq'[o].op \notin Drawing /\ templateReq'[o].op # "draw"
    BY <2>1, IdleIsIdle DEF Drawing
  <2> QED
    BY <2>2 DEF Current
<1> QED
  BY <1>1

(* A step that writes no row: a read, or a request that is refused.        *)
LEMMA QuietStep ==
  ASSUME IInv, NEW sl \in Slot, Acting(sl), NEW n \in Request, GoOn(sl, n),
         UNCHANGED <<load, template, snapshot, proof, restarts>>,
         Sound(n), n.op \notin {"create", "first"}, templateReq[sl].op # "first",
         n.op \in Holding /\ Begun(n.of) => Known(n.of, n.read.mapping),
         load = 1 => Current(n),
         templateReq[sl].op \in Drawing => n.op \in Drawing /\ n.of = templateReq[sl].of
  PROVE  IInv'
<1>1. Typed /\ Grounded /\ BusyBound
  BY DEF IInv
<1>2. templateReq'[sl] = n /\ \A o \in Slot : o # sl => templateReq'[o] = templateReq[o]
  BY <1>1, OneSlot
<1>3. Typed'
  BY <1>1, OneSlot DEF Typed, TypeOK
<1>4. /\ Made' = Made /\ Drawn' = Drawn
      /\ \A t \in Template : DrawnFrom(t)' = DrawnFrom(t) /\ (HasFirst(t)' <=> HasFirst(t))
  BY DEF Made, Drawn, DrawnFrom, HasFirst
<1>5. RowsGrow /\ SnapshotsStay
  <2>1. \A t \in Made : t \in Template
    BY DEF Made
  <2>2. \A t \in Made : template[t].last \in Nat
    BY <1>1, <2>1, MadeRow
  <2> QED
    BY <1>4, <2>2 DEF RowsGrow, SnapshotsStay
<1>6. Sound(templateReq[sl])'
  <2>1. n # Idle /\ n.op # "create" => n.of \in Made /\ n.of \in Template
    BY DEF Sound, Made
  <2> QED
    BY <1>2, <1>4, <2>1, IdleIsIdle DEF Sound, Drawing
<1>7. RequestsSound'
  <2>1. ASSUME NEW o \in Slot, o # sl, templateReq[o].op = "first", HasFirst(templateReq[o].of)'
        PROVE  HasFirst(templateReq[o].of)
    BY <1>2, <2>1 DEF HasFirst
  <2> QED
    BY <1>1, <1>3, <1>5, <1>6, <2>1, RequestsMove DEF Grounded
<1>8. \A t \in Template : Pending(t)' = Pending(t)
  BY <1>1, PendingStays
<1>9. Grounded'
  <2>1. FirstsApart'
    BY <1>1, <1>8 DEF Grounded, FirstsApart
  <2>2. UnmadeIsEmpty' /\ Gapless' /\ LayoutsKept'
    BY <1>1, <1>4 DEF Grounded, UnmadeIsEmpty, Gapless, LayoutsKept, Newest
  <2>3. ProofsSound'
    BY <1>1, <1>4 DEF Grounded, ProofsSound, Kempt
  <2> QED
    BY <1>7, <2>1, <2>2, <2>3 DEF Grounded
<1>10. \A t \in Template : /\ Begun(t)' <=> Begun(t)
                           /\ \A m \in Mapping : Known(t, m) => Known(t, m)'
  BY <1>1, <1>4, <1>5, KnownStays
<1>11. RowsKnown' /\ ReadsKnown'
  <2>1. \A t \in Made : t \in Template
    BY DEF Made
  <2>2. n.op \in Holding => n.of \in Template /\ n.read.mapping \in Mapping
    <3>1. n.op \in Holding => n.of \in Made
      BY IdleIsIdle DEF Sound
    <3>2. n.op \in Holding => n \in Holds \cup Redraws
      BY ShapeOf
    <3> QED
      BY <2>1, <3>1, <3>2, Fields, ReadFields
  <2>3. n.op \in Holding /\ Begun(n.of)' => Known(n.of, n.read.mapping)'
    BY <1>10, <2>2
  <2>4. \A t \in Made' : t \in Made /\ template'[t].mapping = template[t].mapping
    BY <1>4
  <2> QED
    BY <1>1, <1>3, <1>10, <2>1, <2>3, <2>4, MappingsKnown DEF IInv, Grounded
<1>12. BusyBound'
  BY <1>1, BusyMoves
<1>13. Serial'
  <2> SUFFICES ASSUME load = 1
      PROVE  Current(templateReq[sl])' /\ NewestShown' /\ (restarts' = 0 => ProofsShown')
    BY <1>1, SerialMoves
  <2>1. NewestShown /\ (restarts = 0 => ProofsShown)
    BY DEF IInv, Serial
  <2>2. Current(templateReq[sl])'
    <3>1. n.op \in Holding \cup Drawing => n.of \in Template
      BY IdleIsIdle DEF Sound, Made
    <3> QED
      BY <1>2, <1>4, <3>1 DEF Current, Drawing
  <2>3. NewestShown'
    BY <1>4, <2>1 DEF NewestShown, Newest
  <2>4. \A t \in Template : Redrawing(t) => Redrawing(t)'
    BY <1>2 DEF Redrawing, Drawing
  <2>5. \A p \in Drawn : proof[p].template \in Template
    BY <1>1 DEF Grounded, ProofsSound, Kempt, Made
  <2> QED
    BY <1>4, <2>1, <2>2, <2>3, <2>4, <2>5 DEF ProofsShown
<1>14. AloneBound'
  <2>1. \A type \in CardType : Alone(type)' = Alone(type)
    BY <1>4 DEF Alone
  <2> QED
    BY <1>1, <2>1, NoneAlone DEF IInv
<1> QED
  BY <1>3, <1>9, <1>11, <1>12, <1>13, <1>14 DEF IInv
----------------------------------------------------------------------------
(* Each step keeps the invariant                                           *)
LEMMA Entering ==
  ASSUME NEW sl \in Slot, NEW n, Enter(sl, n)
  PROVE  Acting(sl) /\ templateReq[sl] = Idle /\ GoOn(sl, n)
BY DEF Enter, Acting, Busy, GoOn

LEMMA ReadStep ==
  ASSUME IInv, NEW sl \in Slot, NEW t \in Made, NEW op \in Holding \ {"redraw"}, Read(sl, op, t),
         op \in {"status", "mapping"} => template[t].last < MaxVersion
  PROVE  IInv'
<1> PICK n : n = [op |-> op, of |-> t, read |-> template[t]]
  OBVIOUS
<1>1. Acting(sl) /\ templateReq[sl] = Idle /\ GoOn(sl, n)
  BY Entering DEF Read
<1>2. /\ n.op = op /\ n.of = t /\ n.read = template[t]
      /\ op \notin Drawing /\ op \notin {"create", "first", "draw", "redraw"}
  BY DEF Holding, Drawing
<1>3. t \in Template /\ template[t] \in TemplateRow
  BY MadeRow DEF IInv, Made
<1>4. n \in Holds
  BY <1>3 DEF Holds
<1>5. Sound(n)
  BY <1>2, <1>3, ReadFields DEF Sound
<1>6. Begun(n.of) => Known(n.of, n.read.mapping)
  BY <1>2 DEF IInv, RowsKnown
<1>7. Current(n)
  BY <1>2 DEF Current
<1>8. UNCHANGED <<load, template, snapshot, proof, restarts>>
  BY DEF Read
<1>9. templateReq[sl].op # "first" /\ templateReq[sl].op \notin Drawing
  BY <1>1, IdleIsIdle
<1>10. n \in Request
  BY <1>4 DEF Request
<1> QED
  BY <1>1, <1>2, <1>5, <1>6, <1>7, <1>8, <1>9, <1>10, QuietStep

(* A request of some kind is in flight.                                    *)
LEMMA InFlight ==
  ASSUME IInv, NEW sl \in Slot, templateReq[sl].op # "idle"
  PROVE  /\ sl \in Busy /\ Acting(sl) /\ templateReq[sl] \in Request
         /\ templateReq[sl] # Idle /\ Sound(templateReq[sl])
         /\ load = 1 => Current(templateReq[sl])
<1>1. templateReq[sl] # Idle
  BY IdleIsIdle
<1> QED
  BY <1>1, Shapes DEF IInv, Busy, Acting, Grounded, RequestsSound, Serial

LEMMA FindProofsStep ==
  ASSUME IInv, NEW sl \in Slot, FindProofs(sl)
  PROVE  IInv'
<1> PICK q : q = templateReq[sl]
  OBVIOUS
<1> PICK n : n = [op |-> "draw", of |-> q.of, draw |-> q.draw, found |-> DrawnFrom(q.of)]
  OBVIOUS
<1>1. q.op = "find" /\ GoOn(sl, n) /\ UNCHANGED <<load, template, snapshot, proof, restarts>>
  BY DEF FindProofs
<1>2. Acting(sl) /\ q \in Finds /\ q # Idle /\ Sound(q) /\ (load = 1 => Current(q))
  BY <1>1, InFlight, ShapeOf
<1>3. q.of \in Template /\ q.draw \in Draw
  BY <1>2, Fields
<1>4. /\ n.op = "draw" /\ n.of = q.of /\ n.draw = q.draw /\ n.found = DrawnFrom(q.of)
      /\ "draw" \in Drawing /\ "find" \in Drawing /\ "draw" \notin Holding
  BY DEF Drawing, Holding
<1>5. n \in Draws
  BY <1>3 DEF Draws, DrawnFrom, Drawn
<1>6. Sound(n)
  BY <1>1, <1>2, <1>4 DEF Sound
<1>7. load = 1 => Current(n)
  BY <1>1, <1>2, <1>4 DEF Current
<1>8. n \in Request
  BY <1>5 DEF Request
<1> QED
  BY <1>1, <1>2, <1>4, <1>6, <1>7, <1>8, QuietStep

LEMMA FindForRebindStep ==
  ASSUME IInv, NEW sl \in Slot, FindForRebind(sl)
  PROVE  IInv'
<1> PICK q : q = templateReq[sl]
  OBVIOUS
<1>1. q.op = "rebind" /\ UNCHANGED <<load, template, snapshot, proof, restarts>>
  BY DEF FindForRebind
<1>2. PICK students \in SUBSET Student, found \in SUBSET DrawnFrom(q.of) :
        GoOn(sl, [op |-> "redraw", of |-> q.of, read |-> q.read, found |-> found,
                  without |-> students \ {proof[p].student : p \in found}])
  <2>1. PICK students \in SUBSET Student :
          \E found \in SUBSET {p \in DrawnFrom(q.of) : proof[p].student \in students} :
            GoOn(sl, [op |-> "redraw", of |-> q.of, read |-> q.read, found |-> found,
                      without |-> students \ {proof[p].student : p \in found}])
    BY DEF FindForRebind
  <2>2. SUBSET {p \in DrawnFrom(q.of) : proof[p].student \in students} \subseteq SUBSET DrawnFrom(q.of)
    OBVIOUS
  <2> QED
    BY <2>1, <2>2
<1> PICK n : n = [op |-> "redraw", of |-> q.of, read |-> q.read, found |-> found,
                  without |-> students \ {proof[p].student : p \in found}]
  OBVIOUS
<1>3. Acting(sl) /\ q \in Holds /\ q # Idle /\ Sound(q) /\ (load = 1 => Current(q))
  BY <1>1, InFlight, ShapeOf DEF Holding
<1>4. q.of \in Template /\ q.read \in TemplateRow
  BY <1>3, Fields
<1>5. /\ n.op = "redraw" /\ n.of = q.of /\ n.read = q.read /\ n.found = found
      /\ "redraw" \in Holding /\ "rebind" \in Holding /\ "redraw" \notin Drawing
      /\ "rebind" \notin Drawing
  BY DEF Drawing, Holding
<1>6. n \in Redraws
  BY <1>4 DEF Redraws, DrawnFrom, Drawn
<1>7. Sound(n)
  BY <1>1, <1>3, <1>5 DEF Sound
<1>8. load = 1 => Current(n)
  BY <1>1, <1>3, <1>5 DEF Current
<1>9. n \in Request
  BY <1>6 DEF Request
<1>10. Begun(n.of) => Known(n.of, n.read.mapping)
  BY <1>1, <1>5 DEF IInv, ReadsKnown
<1> QED
  BY <1>1, <1>2, <1>3, <1>5, <1>7, <1>8, <1>9, <1>10, QuietStep

LEMMA ConflictStep ==
  ASSUME IInv, NEW sl \in Slot, Conflict(sl)
  PROVE  IInv'
<1>1. /\ templateReq[sl].op \in {"status", "mapping"} /\ GoOn(sl, Idle)
      /\ UNCHANGED <<load, template, snapshot, proof, restarts>>
  BY DEF Conflict, Finish
<1>2. Acting(sl)
  BY <1>1, InFlight
<1>3. Sound(Idle) /\ Current(Idle)
  BY IdleIsIdle DEF Sound, Current, Drawing
<1>4. Idle.op \notin Holding /\ templateReq[sl].op \notin Drawing
  BY <1>1, IdleIsIdle DEF Drawing
<1> QED
  BY <1>1, <1>2, <1>3, <1>4, IdleIsIdle, QuietStep

(* What a step may write into a proof: a version the template has reached,  *)
(* and layouts only with what its snapshot keeps; while requests come one   *)
(* at a time, the mapping the template has.                                *)
Fitting(row) ==
  /\ row \in ProofRow
  /\ row.template \in Made
  /\ row.version <= template[row.template].last
  /\ Kempt(row)
  /\ load = 1 => Shows(row, template[row.template])

(* A step that writes proofs and ends its request.                         *)
LEMMA DrawingStep ==
  ASSUME IInv, NEW sl \in Slot, templateReq[sl].op \notin {"idle", "first"}, Finish(sl),
         UNCHANGED <<load, template, snapshot, restarts>>,
         proof' \in [Proof -> ProofRow \cup {NoProof}],
         \A p \in Proof : proof'[p] = proof[p] \/ Fitting(proof'[p]),
         \A p \in Drawn : proof'[p].template = proof[p].template /\ proof'[p] # NoProof,
         load = 1 /\ templateReq[sl].op \in Drawing =>
           \A p \in DrawnFrom(templateReq[sl].of) : Fitting(proof'[p])
  PROVE  IInv'
<1>1. /\ Typed /\ Grounded /\ BusyBound /\ Acting(sl) /\ GoOn(sl, Idle)
      /\ templateReq[sl].op # "first"
  BY InFlight DEF IInv, Finish
<1>2. templateReq'[sl] = Idle /\ \A o \in Slot : o # sl => templateReq'[o] = templateReq[o]
  BY <1>1, OneSlot
<1>3. Typed'
  BY <1>1, OneSlot, IdleIsIdle DEF Typed, TypeOK
<1>4. /\ Made' = Made /\ Drawn \subseteq Drawn'
      /\ \A t \in Template : HasFirst(t)' <=> HasFirst(t)
  BY DEF Made, Drawn, HasFirst
<1>5. RowsGrow /\ SnapshotsStay
  <2>1. \A t \in Made : template[t].last \in Nat
    BY <1>1, MadeRow DEF Made
  <2> QED
    BY <1>4, <2>1 DEF RowsGrow, SnapshotsStay
<1>6. Sound(templateReq[sl])'
  BY <1>2, IdleIsIdle DEF Sound, Drawing
<1>7. RequestsSound'
  <2>1. ASSUME NEW o \in Slot, o # sl, templateReq[o].op = "first", HasFirst(templateReq[o].of)'
        PROVE  HasFirst(templateReq[o].of)
    BY <1>2, <2>1 DEF HasFirst
  <2> QED
    BY <1>1, <1>3, <1>5, <1>6, <2>1, RequestsMove DEF Grounded
<1>8. \A t \in Template : Pending(t)' = Pending(t)
  BY <1>1, IdleIsIdle, PendingStays
<1>9. ProofsSound'
  <2> SUFFICES ASSUME NEW p \in Drawn'
      PROVE  /\ proof'[p].template \in Made
             /\ proof'[p].version <= template[proof'[p].template].last
             /\ Kempt(proof'[p])
    BY <1>4 DEF ProofsSound, Kempt
  <2>1. CASE proof'[p] = proof[p]
    <3>1. p \in Drawn
      BY <2>1 DEF Drawn
    <3> QED
      BY <1>1, <2>1, <3>1 DEF Grounded, ProofsSound, Kempt
  <2>2. CASE Fitting(proof'[p])
    BY <2>2 DEF Fitting
  <2> QED
    BY <2>1, <2>2 DEF Drawn
<1>10. Grounded'
  <2>1. FirstsApart'
    BY <1>1, <1>8 DEF Grounded, FirstsApart
  <2>2. UnmadeIsEmpty' /\ Gapless' /\ LayoutsKept'
    BY <1>1, <1>4 DEF Grounded, UnmadeIsEmpty, Gapless, LayoutsKept, Newest
  <2> QED
    BY <1>7, <1>9, <2>1, <2>2 DEF Grounded
<1>11. RowsKnown' /\ ReadsKnown'
  <2>1. \A t \in Made : t \in Template
    BY DEF Made
  <2>2. Idle.op \notin Holding
    BY IdleIsIdle
  <2>3. \A t \in Template : /\ Begun(t)' <=> Begun(t)
                            /\ \A m \in Mapping : Known(t, m) => Known(t, m)'
    BY <1>1, <1>4, <1>5, IdleIsIdle, KnownStays
  <2>4. \A t \in Made' : t \in Made /\ template'[t].mapping = template[t].mapping
    BY <1>4
  <2> QED
    BY <1>1, <1>3, <2>1, <2>2, <2>3, <2>4, MappingsKnown DEF IInv, Grounded
<1>12. BusyBound'
  BY <1>1, BusyMoves
<1>13. Serial'
  <2> SUFFICES ASSUME load = 1
      PROVE  Current(templateReq[sl])' /\ NewestShown' /\ (restarts' = 0 => ProofsShown')
    BY <1>1, SerialMoves
  <2>1. NewestShown /\ (restarts = 0 => ProofsShown)
    BY DEF IInv, Serial
  <2>2. Current(templateReq[sl])'
    BY <1>2, IdleIsIdle DEF Current, Drawing
  <2>3. NewestShown'
    BY <1>4, <2>1 DEF NewestShown, Newest
  <2>4. ASSUME restarts = 0, NEW p \in Drawn', ~Fitting(proof'[p])
        PROVE  Shows(proof'[p], template[proof'[p].template])
    <3>1. proof'[p] = proof[p] /\ p \in Drawn /\ p \in Proof
      BY <2>4 DEF Drawn
    <3>2. CASE Shows(proof[p], template[proof[p].template])
      BY <3>1, <3>2
    <3>3. CASE Redrawing(proof[p].template)
      <4>1. PICK o \in Slot : templateReq[o].op \in Drawing /\ templateReq[o].of = proof[p].template
        BY <3>3 DEF Redrawing, Drawing
      <4>2. o = sl
        BY <1>1, <4>1, OthersIdle, IdleIsIdle
      <4>3. p \in DrawnFrom(templateReq[sl].of)
        BY <3>1, <4>1, <4>2 DEF DrawnFrom
      <4> QED
        BY <2>4, <4>1, <4>2, <4>3
    <3> QED
      BY <2>1, <2>4, <3>1, <3>2, <3>3 DEF ProofsShown
  <2>5. restarts = 0 => ProofsShown'
    BY <2>4 DEF ProofsShown, Shows, Fitting
  <2> QED
    BY <2>2, <2>3, <2>5
<1>14. AloneBound'
  <2>1. \A type \in CardType : Alone(type)' = Alone(type)
    BY <1>4 DEF Alone
  <2> QED
    BY <1>1, <2>1, IdleIsIdle, NoneAlone DEF IInv
<1> QED
  BY <1>3, <1>10, <1>11, <1>12, <1>13, <1>14 DEF IInv

LEMMA RedrawnRow ==
  ASSUME NEW p, proof[p] \in ProofRow, NEW draw \in AnyDraw
  PROVE  /\ Redrawn(p, draw) \in ProofRow
         /\ Redrawn(p, draw).template = proof[p].template
         /\ Redrawn(p, draw).mapping = draw.mapping
         /\ Redrawn(p, draw).layout = draw.layout
         /\ Redrawn(p, draw).version = draw.version
BY DrawFields DEF Redrawn, ProofRow

LEMMA RedrawnFits ==
  ASSUME IInv, NEW t \in Made, NEW draw \in AnyDraw, draw.version <= template[t].last,
         draw.layout # NoLayout => snapshot[<<t, draw.version>>] = Content(draw),
         load = 1 => Shows(draw, template[t]),
         NEW p \in DrawnFrom(t)
  PROVE  Fitting(Redrawn(p, draw)) /\ Redrawn(p, draw).template = proof[p].template
<1>1. p \in Proof /\ proof[p].template = t /\ proof[p] \in ProofRow
  BY DrawnRow DEF IInv, DrawnFrom, Drawn
<1> PICK row : row = Redrawn(p, draw)
  OBVIOUS
<1>2. /\ row \in ProofRow /\ row.template = t /\ row.mapping = draw.mapping
      /\ row.layout = draw.layout /\ row.version = draw.version
  BY <1>1, RedrawnRow
<1>3. Content(row) = Content(draw)
  BY <1>2 DEF Content
<1> QED
  BY <1>1, <1>2, <1>3 DEF Fitting, Kempt, Shows

LEMMA DrawProofsStep ==
  ASSUME IInv, NEW sl \in Slot, DrawProofs(sl)
  PROVE  IInv'
<1> PICK q : q = templateReq[sl]
  OBVIOUS
<1>1. /\ q.op = "draw" /\ Finish(sl) /\ UNCHANGED <<load, template, snapshot, restarts>>
      /\ proof' = [p \in Proof |-> IF p \in q.found THEN Redrawn(p, q.draw) ELSE proof[p]]
  BY DEF DrawProofs
<1>2. q \in Draws /\ q # Idle /\ Sound(q) /\ (load = 1 => Current(q))
  BY <1>1, InFlight, ShapeOf
<1>3. q.of \in Made /\ q.draw \in Draw /\ q.found \subseteq DrawnFrom(q.of)
  BY <1>1, <1>2, Fields DEF Sound
<1>4. /\ q.draw.version <= template[q.of].last /\ q.draw \in AnyDraw
      /\ snapshot[<<q.of, q.draw.version>>] = Content(q.draw)
      /\ load = 1 => Shows(q.draw, template[q.of]) /\ q.found = DrawnFrom(q.of)
  BY <1>1, <1>2, <1>3, DrawFields DEF Sound, Current, Drawing, Shows
<1>5. \A p \in q.found : /\ Fitting(Redrawn(p, q.draw))
                         /\ Redrawn(p, q.draw).template = proof[p].template
  BY <1>3, <1>4, RedrawnFits
<1>6. \A p \in Proof : \/ p \in q.found /\ proof'[p] = Redrawn(p, q.draw)
                       \/ p \notin q.found /\ proof'[p] = proof[p]
  BY <1>1
<1>7. \A p \in Proof : proof[p] \in ProofRow \cup {NoProof}
  BY DEF IInv, Typed, TypeOK
<1>8. proof' \in [Proof -> ProofRow \cup {NoProof}]
  <2>1. \A p \in Proof : proof'[p] \in ProofRow \cup {NoProof}
    BY <1>5, <1>6, <1>7 DEF Fitting
  <2> QED
    BY <1>1, <2>1
<1>9. \A p \in Proof : proof'[p] = proof[p] \/ Fitting(proof'[p])
  BY <1>5, <1>6
<1>10. \A p \in Drawn : proof'[p].template = proof[p].template /\ proof'[p] # NoProof
  <2>1. \A p \in q.found : proof'[p] # NoProof
    BY <1>3, <1>5, <1>6, Unfit DEF Fitting, DrawnFrom, Drawn
  <2> QED
    BY <1>5, <1>6, <2>1 DEF Drawn
<1>11. load = 1 => \A p \in DrawnFrom(q.of) : Fitting(proof'[p])
  BY <1>4, <1>5, <1>6 DEF DrawnFrom, Drawn
<1> QED
  BY <1>1, <1>8, <1>9, <1>10, <1>11, DrawingStep

(* What a request that holds a row writes into a new proof.                *)
LEMMA FreshFits ==
  ASSUME IInv, NEW sl \in Slot, NEW q, q = templateReq[sl], q.op \in {"redraw", "proof"},
         NEW s \in Student
  PROVE  Fitting(Fresh(q, s))
<1>1. q.op \in Holding
  BY DEF Holding
<1>2. q \in Holds \cup Redraws /\ q # Idle /\ Sound(q) /\ (load = 1 => Current(q))
  BY <1>1, IdleIsIdle, InFlight, ShapeOf
<1>3. /\ q.of \in Made /\ q.of \in Template /\ q.read.mapping \in Mapping
      /\ q.read.last \in Version
  BY <1>2, Fields, ReadFields DEF Sound
<1>4. /\ q.read.last <= template[q.of].last
      /\ load = 1 => q.read.mapping = template[q.of].mapping
  BY <1>1, <1>2 DEF Sound, Current
<1> QED
  BY <1>3, <1>4 DEF Fitting, Fresh, ProofRow, Kempt, Shows

LEMMA CreateProofStep ==
  ASSUME IInv, NEW sl \in Slot, CreateProof(sl)
  PROVE  IInv'
<1> PICK q : q = templateReq[sl]
  OBVIOUS
<1>1. q.op = "proof" /\ Finish(sl) /\ UNCHANGED <<load, template, snapshot, restarts>>
  BY DEF CreateProof
<1>2. PICK p \in Proof \ Drawn, s \in Student : proof' = [proof EXCEPT ![p] = Fresh(q, s)]
  BY DEF CreateProof
<1>3. Fitting(Fresh(q, s))
  BY <1>1, FreshFits
<1>4. proof \in [Proof -> ProofRow \cup {NoProof}]
  BY DEF IInv, Typed, TypeOK
<1>5. proof' \in [Proof -> ProofRow \cup {NoProof}]
  BY <1>2, <1>3, <1>4 DEF Fitting
<1>6. \A o \in Proof : proof'[o] = proof[o] \/ Fitting(proof'[o])
  BY <1>2, <1>3, <1>4
<1>7. \A o \in Drawn : proof'[o].template = proof[o].template /\ proof'[o] # NoProof
  BY <1>2, <1>4 DEF Drawn
<1>8. templateReq[sl].op \notin Drawing
  BY <1>1 DEF Drawing
<1> QED
  BY <1>1, <1>5, <1>6, <1>7, <1>8, DrawingStep

LEMMA RebindStep ==
  ASSUME IInv, NEW sl \in Slot, Rebind(sl)
  PROVE  IInv'
<1> PICK q : q = templateReq[sl]
  OBVIOUS
<1> PICK draw : draw = Bare(q.read)
  OBVIOUS
<1>1. q.op = "redraw" /\ Finish(sl) /\ UNCHANGED <<load, template, snapshot, restarts>>
  BY DEF Rebind
<1>2. PICK new \in [q.without -> Proof \ Drawn] :
        proof' = [p \in Proof |->
          CASE p \in q.found -> Redrawn(p, draw)
            [] \E s \in q.without : new[s] = p ->
                 Fresh(q, CHOOSE s \in q.without : new[s] = p)
            [] OTHER -> proof[p]]
  BY DEF Rebind
<1>3. q \in Redraws /\ q # Idle /\ Sound(q) /\ (load = 1 => Current(q))
  BY <1>1, InFlight, ShapeOf
<1>4. /\ q.of \in Made /\ q.found \subseteq DrawnFrom(q.of) /\ q.without \subseteq Student
      /\ draw \in AnyDraw
  BY <1>1, <1>3, Fields, ReadFields DEF Sound, AnyDraw, Bare
<1>5. /\ draw.version <= template[q.of].last /\ draw.layout = NoLayout
      /\ load = 1 => Shows(draw, template[q.of])
  BY <1>1, <1>3 DEF Sound, Current, Holding, Bare, Shows
<1>6. \A p \in q.found : /\ Fitting(Redrawn(p, draw))
                         /\ Redrawn(p, draw).template = proof[p].template
  BY <1>4, <1>5, RedrawnFits
<1>7. ASSUME NEW p \in Proof
      PROVE  \/ p \in q.found /\ proof'[p] = Redrawn(p, draw)
             \/ p \notin q.found /\ p \notin Drawn /\ Fitting(proof'[p])
             \/ p \notin q.found /\ proof'[p] = proof[p]
  <2>1. CASE p \in q.found
    <3>1. ~\E s \in q.without : new[s] = p
      BY <1>2, <1>4, <2>1 DEF DrawnFrom
    <3> QED
      BY <1>2, <2>1, <3>1
  <2>2. CASE p \notin q.found /\ \E s \in q.without : new[s] = p
    <3> PICK s : s = CHOOSE x \in q.without : new[x] = p
      OBVIOUS
    <3>1. s \in q.without /\ new[s] = p
      BY <2>2
    <3>2. proof'[p] = Fresh(q, s)
      BY <1>2, <2>2
    <3>3. Fitting(Fresh(q, s))
      BY <1>1, <1>4, <3>1, FreshFits
    <3> QED
      BY <1>2, <2>2, <3>1, <3>2, <3>3
  <2>3. CASE p \notin q.found /\ ~\E s \in q.without : new[s] = p
    BY <1>2, <2>3
  <2> QED
    BY <2>1, <2>2, <2>3
<1>8. \A p \in Proof : proof[p] \in ProofRow \cup {NoProof}
  BY DEF IInv, Typed, TypeOK
<1>9. proof' \in [Proof -> ProofRow \cup {NoProof}]
  <2>1. \A p \in Proof : proof'[p] \in ProofRow \cup {NoProof}
    BY <1>6, <1>7, <1>8 DEF Fitting
  <2> QED
    BY <1>2, <2>1
<1>10. \A p \in Proof : proof'[p] = proof[p] \/ Fitting(proof'[p])
  BY <1>6, <1>7
<1>11. \A p \in Drawn : proof'[p].template = proof[p].template /\ proof'[p] # NoProof
  <2>1. \A p \in q.found : Redrawn(p, draw) # NoProof
    BY <1>6, Unfit DEF Fitting
  <2> QED
    BY <1>6, <1>7, <2>1 DEF Drawn
<1>12. templateReq[sl].op \notin Drawing
  BY <1>1 DEF Drawing
<1> QED
  BY <1>1, <1>9, <1>10, <1>11, <1>12, DrawingStep

LEMMA RestartStep ==
  ASSUME IInv, ProcessRestart
  PROVE  IInv'
<1>1. /\ restarts' = restarts + 1 /\ restarts < MaxRestarts
      /\ templateReq' = [sl \in Slot |-> Idle]
      /\ UNCHANGED <<load, template, snapshot, proof>>
      /\ Typed /\ Grounded
  BY DEF ProcessRestart, IInv
<1>2. Typed'
  BY <1>1, IdleIsIdle, Numbers DEF Typed, TypeOK
<1>3. Made' = Made /\ Drawn' = Drawn /\ \A t \in Template : HasFirst(t)' <=> HasFirst(t)
  BY <1>1 DEF Made, Drawn, HasFirst
<1>4. \A sl \in Slot : /\ templateReq'[sl] = Idle
                      /\ templateReq'[sl].op \notin Holding \cup Drawing \cup {"create", "first", "draw"}
  BY <1>1, IdleIsIdle DEF Drawing
<1>5. \A t \in Template : Pending(t)' = {}
  BY <1>4 DEF Pending
<1>6. Grounded'
  <2>1. RequestsSound'
    <3> SUFFICES ASSUME NEW sl \in Slot
        PROVE  Sound(templateReq[sl])'
      BY DEF RequestsSound
    <3> QED
      BY <1>4, IdleIsIdle DEF Sound, Drawing
  <2>2. FirstsApart'
    BY <1>5 DEF FirstsApart
  <2>3. UnmadeIsEmpty' /\ Gapless' /\ LayoutsKept'
    BY <1>1, <1>3 DEF Grounded, UnmadeIsEmpty, Gapless, LayoutsKept, Newest
  <2>4. ProofsSound'
    BY <1>1, <1>3 DEF Grounded, ProofsSound, Kempt
  <2> QED
    BY <2>1, <2>2, <2>3, <2>4 DEF Grounded
<1>7. RowsKnown'
  <2> SUFFICES ASSUME NEW t \in Made, HasFirst(t)
      PROVE  \E v \in Version : /\ snapshot[<<t, v>>] # NoSnapshot
                               /\ snapshot[<<t, v>>].mapping = template[t].mapping
    BY <1>1, <1>3, <1>5 DEF RowsKnown, Begun, Known, Made
  <2>1. Known(t, template[t].mapping)
    BY DEF IInv, RowsKnown, Begun
  <2>2. Pending(t) = {}
    BY <1>1 DEF Grounded, RequestsSound, Sound, Pending
  <2> QED
    BY <2>1, <2>2 DEF Known
<1>8. ReadsKnown'
  BY <1>4 DEF ReadsKnown
<1>9. BusyBound'
  <2>1. Busy' = {}
    BY <1>4 DEF Busy
  <2>2. Cardinality(Busy') = 0 /\ load' \in Nat
    BY <1>2, <2>1, FS_EmptySet DEF Typed, TypeOK
  <2> QED
    BY <2>2 DEF BusyBound
<1>10. Serial'
  <2>1. \A sl \in Slot : Current(templateReq[sl])'
    BY <1>4 DEF Current
  <2>2. load = 1 => NewestShown'
    BY <1>1, <1>3 DEF IInv, Serial, NewestShown, Newest
  <2>3. restarts' # 0
    BY <1>1 DEF Typed, TypeOK
  <2> QED
    BY <1>1, <2>1, <2>2, <2>3 DEF Serial
<1>11. AloneBound'
  <2> SUFFICES ASSUME NEW type \in CardType
      PROVE  Cardinality(Alone(type)') + Cardinality(Coming(type)') <= load
    BY <1>1 DEF AloneBound
  <2>1. Alone(type)' = Alone(type) /\ Coming(type)' = {}
    BY <1>1, <1>3, <1>4 DEF Alone, Coming
  <2> QED
    BY <1>1, <2>1, AloneFewer DEF IInv
<1> QED
  BY <1>2, <1>6, <1>7, <1>8, <1>9, <1>10, <1>11 DEF IInv

LEMMA InitHolds == Init => IInv
<1> SUFFICES ASSUME Init
    PROVE  IInv
  OBVIOUS
<1>1. Typed
  BY IdleIsIdle, Numbers DEF Init, Typed, TypeOK
<1>2. Made = {} /\ Drawn = {}
  BY DEF Init, Made, Drawn
<1>3. \A sl \in Slot : /\ templateReq[sl] = Idle
                      /\ templateReq[sl].op \notin Holding \cup Drawing \cup {"create", "first", "draw"}
  BY IdleIsIdle DEF Init, Drawing
<1>4. Grounded
  <2>1. RequestsSound
    BY <1>3, IdleIsIdle DEF RequestsSound, Sound, Drawing
  <2>2. FirstsApart
    BY <1>3 DEF FirstsApart, Pending
  <2>3. UnmadeIsEmpty
    BY Numbers DEF Init, UnmadeIsEmpty
  <2> QED
    BY <1>2, <2>1, <2>2, <2>3 DEF Grounded, Gapless, LayoutsKept, ProofsSound
<1>5. RowsKnown /\ ReadsKnown
  BY <1>2, <1>3 DEF RowsKnown, ReadsKnown
<1>6. BusyBound
  <2>1. Busy = {}
    BY <1>3 DEF Busy
  <2> QED
    BY <1>1, <2>1, FS_EmptySet DEF BusyBound, Typed, TypeOK
<1>7. Serial
  BY <1>2, <1>3 DEF Serial, Current, NewestShown, ProofsShown
<1>8. AloneBound
  <2> SUFFICES ASSUME NEW type \in CardType
      PROVE  Cardinality(Alone(type)) + Cardinality(Coming(type)) <= load
    BY DEF AloneBound
  <2>1. Alone(type) = {} /\ Coming(type) = {}
    BY <1>2, <1>3 DEF Alone, Coming
  <2> QED
    BY <1>1, <2>1, FS_EmptySet DEF Typed, TypeOK
<1> QED
  BY <1>1, <1>4, <1>5, <1>6, <1>7, <1>8 DEF IInv

----------------------------------------------------------------------------
(* Steps that write templates                                              *)

(* A step that writes rows and later snapshots of templates there are.     *)
LEMMA RowStep ==
  ASSUME IInv, NEW sl \in Slot, Acting(sl), NEW n \in Request, GoOn(sl, n),
         templateReq[sl].op # "first", n.op # "first", n.op \notin Holding,
         UNCHANGED <<load, proof, restarts>>,
         Typed', RowsGrow, SnapshotsStay, Made' = Made,
         \A t \in Template : HasFirst(t)' <=> HasFirst(t),
         Sound(templateReq[sl])', UnmadeIsEmpty', Gapless', LayoutsKept',
         \A t \in Made : Begun(t) =>
           template'[t].mapping = template[t].mapping \/ Known(t, template[t].mapping)',
         load = 1 => /\ Current(templateReq[sl])'
                     /\ NewestShown'
                     /\ restarts = 0 => ProofsShown',
         AloneBound'
  PROVE  IInv'
<1>1. Typed /\ Grounded /\ BusyBound
  BY DEF IInv
<1>2. templateReq'[sl] = n /\ \A o \in Slot : o # sl => templateReq'[o] = templateReq[o]
  BY <1>1, OneSlot
<1>3. Drawn' = Drawn
  BY DEF Drawn
<1>4. RequestsSound'
  <2>1. ASSUME NEW o \in Slot, o # sl, templateReq[o].op = "first", HasFirst(templateReq[o].of)'
        PROVE  HasFirst(templateReq[o].of)
    <3>1. templateReq[o].of \in Template
      BY <1>1, <2>1, Shapes, ShapeOf, Fields
    <3> PICK t \in Template : t = templateReq[o].of
      BY <3>1
    <3>2. HasFirst(t)'
      BY <1>2, <2>1 DEF HasFirst
    <3> QED
      BY <3>2
  <2> QED
    BY <1>1, <2>1, RequestsMove DEF Grounded
<1>5. \A t \in Template : Pending(t)' = Pending(t)
  BY <1>1, PendingStays
<1>6. ProofsSound'
  <2> SUFFICES ASSUME NEW p \in Drawn
      PROVE  /\ proof[p].template \in Made'
             /\ proof[p].version <= template'[proof[p].template].last
             /\ Kempt(proof[p])'
    BY <1>3 DEF ProofsSound, Kempt
  <2> PICK t : t = proof[p].template
    OBVIOUS
  <2>1. t \in Made /\ proof[p].version <= template[t].last /\ Kempt(proof[p])
    BY <1>1 DEF Grounded, ProofsSound
  <2>2. t \in Template /\ p \in Proof
    BY <2>1 DEF Made, Drawn
  <2>3. template[t].last \in Nat /\ proof[p].version \in Nat
    BY <1>1, <2>1, <2>2, MadeRow, DrawnRow, Numbers
  <2>4. template'[t].last \in Nat
    <3>1. template'[t] \in TemplateRow
      BY <2>1, <2>2 DEF Typed, TypeOK, Made
    <3> QED
      BY <3>1, ReadFields
  <2>5. Kempt(proof[p])'
    <3> SUFFICES ASSUME proof[p].layout # NoLayout
        PROVE  snapshot'[<<t, proof[p].version>>] = Content(proof[p])
      BY DEF Kempt, Content
    <3>1. proof[p].mapping \in Mapping /\ proof[p].layout \in Layout /\ proof[p].version \in Version
      BY <1>1, <2>2, DrawnRow
    <3>2. snapshot[<<t, proof[p].version>>] = Content(proof[p]) /\ Content(proof[p]) # NoSnapshot
      BY <2>1, <3>1, ContentIsRow DEF Kempt
    <3> QED
      BY <2>2, <3>1, <3>2 DEF SnapshotsStay
  <2> QED
    BY <2>1, <2>3, <2>4, <2>5 DEF RowsGrow
<1>7. Grounded'
  <2>1. FirstsApart'
    BY <1>1, <1>5 DEF Grounded, FirstsApart
  <2> QED
    BY <1>4, <1>6, <2>1 DEF Grounded
<1>8. \A t \in Template : /\ Begun(t)' <=> Begun(t)
                          /\ \A m \in Mapping : Known(t, m) => Known(t, m)'
  BY <1>1, KnownStays
<1>9. RowsKnown' /\ ReadsKnown'
  <2>1. \A t \in Made : t \in Template
    BY DEF Made
  <2> QED
    BY <1>1, <1>8, <2>1, MappingsKnown DEF IInv, Grounded
<1>10. BusyBound' /\ Serial'
  BY <1>1, BusyMoves, SerialMoves
<1> QED
  BY <1>7, <1>9, <1>10 DEF IInv

(* Nothing is redrawn while another request acts alone.                    *)
LEMMA ShownAlone ==
  ASSUME IInv, NEW sl \in Slot, Acting(sl), templateReq[sl].op \notin Drawing,
         load = 1, restarts = 0
  PROVE  \A p \in Drawn : Shows(proof[p], template[proof[p].template])
<1>1. \A o \in Slot : templateReq[o].op \notin Drawing
  BY OthersIdle, IdleIsIdle DEF IInv
<1>2. \A t : ~Redrawing(t)
  BY <1>1 DEF Redrawing, Drawing
<1> QED
  BY <1>2 DEF IInv, Serial, ProofsShown

LEMMA CommitColorStep ==
  ASSUME IInv, NEW sl \in Slot, CommitColor(sl)
  PROVE  IInv'
<1> PICK q : q = templateReq[sl]
  OBVIOUS
<1>1. /\ q.op = "color" /\ GoOn(sl, Idle) /\ UNCHANGED <<load, snapshot, proof, restarts>>
      /\ template' = [template EXCEPT ![q.of].mapping = q.read.mapping]
      /\ Typed /\ Grounded
  BY DEF CommitColor, Finish, IInv
<1>2. Acting(sl) /\ q \in Holds /\ q # Idle /\ Sound(q) /\ (load = 1 => Current(q))
  BY <1>1, InFlight, ShapeOf DEF Holding
<1>3. q.of \in Made /\ q.of \in Template /\ q.read.mapping \in Mapping
  BY <1>1, <1>2, Fields, ReadFields DEF Sound
<1>4. /\ template' \in [Template -> TemplateRow \cup {Unmade}]
      /\ template'[q.of] \in TemplateRow
      /\ template'[q.of].type = template[q.of].type
      /\ template'[q.of].active = template[q.of].active
      /\ template'[q.of].alone = template[q.of].alone
      /\ template'[q.of].last = template[q.of].last
      /\ template'[q.of].mapping = q.read.mapping
      /\ template'[q.of].layout = template[q.of].layout
      /\ \A t \in Template : t # q.of => template'[t] = template[t]
  <2>1. template \in [Template -> TemplateRow \cup {Unmade}] /\ template[q.of] \in TemplateRow
    BY <1>1, <1>3, MadeRow DEF Typed, TypeOK
  <2>2. PICK row : row = [template[q.of] EXCEPT !.mapping = q.read.mapping]
    OBVIOUS
  <2>3. /\ row \in TemplateRow /\ row.type = template[q.of].type
        /\ row.active = template[q.of].active /\ row.alone = template[q.of].alone
        /\ row.last = template[q.of].last /\ row.mapping = q.read.mapping
        /\ row.layout = template[q.of].layout
    BY <1>3, <2>1, <2>2 DEF TemplateRow
  <2>4. template' = [template EXCEPT ![q.of] = row]
    BY <1>1, <2>2
  <2> QED
    BY <1>3, <2>1, <2>3, <2>4
<1>5. Typed'
  BY <1>1, <1>4, OneSlot, IdleIsIdle DEF Typed, TypeOK
<1>6. Made' = Made /\ \A t \in Template : HasFirst(t)' <=> HasFirst(t)
  BY <1>1, <1>3, <1>4, Unfit DEF Made, HasFirst
<1>7. \A t \in Made : /\ t \in Template /\ template[t].last \in Nat
                      /\ template'[t].type = template[t].type
                      /\ template'[t].last = template[t].last
                      /\ template'[t].layout = template[t].layout
                      /\ template'[t].active = template[t].active
                      /\ template'[t].alone = template[t].alone
  BY <1>1, <1>4, MadeRow DEF Made
<1>8. RowsGrow /\ SnapshotsStay
  BY <1>1, <1>6, <1>7 DEF RowsGrow, SnapshotsStay, Drawn
<1>9. templateReq'[sl] = Idle
  BY <1>1, OneSlot
<1>10. Sound(templateReq[sl])' /\ Current(templateReq[sl])'
  BY <1>9, IdleIsIdle DEF Sound, Current, Drawing
<1>11. UnmadeIsEmpty' /\ Gapless' /\ LayoutsKept'
  BY <1>1, <1>6, <1>7 DEF Grounded, UnmadeIsEmpty, Gapless, LayoutsKept, Newest
<1>12. \A t \in Made : Begun(t) =>
         template'[t].mapping = template[t].mapping \/ Known(t, template[t].mapping)'
  <2>1. Begun(q.of) => Known(q.of, q.read.mapping)
    BY <1>1 DEF IInv, ReadsKnown, Holding
  <2>2. Known(q.of, q.read.mapping) => Known(q.of, q.read.mapping)'
    BY <1>1, <1>3, <1>8, IdleIsIdle, KnownStays
  <2>3. Begun(q.of) => Known(q.of, template[q.of].mapping)'
    BY <1>4, <2>1, <2>2 DEF Known
  <2> QED
    BY <1>4, <2>3 DEF Made
<1>13. load = 1 => NewestShown' /\ (restarts = 0 => ProofsShown')
  <2> SUFFICES ASSUME load = 1
      PROVE  NewestShown' /\ (restarts = 0 => ProofsShown')
    OBVIOUS
  <2>1. \A t \in Made : template'[t].mapping = template[t].mapping
    BY <1>1, <1>2, <1>4 DEF Current, Holding, Made
  <2>2. NewestShown'
    BY <1>1, <1>6, <1>7, <2>1 DEF NewestShown, Newest, IInv, Serial
  <2>3. restarts = 0 => \A p \in Drawn : Shows(proof[p], template[proof[p].template])
    BY <1>1, <1>2, ShownAlone DEF Drawing
  <2>4. \A p \in Drawn : proof[p].template \in Made
    BY <1>1 DEF Grounded, ProofsSound, Kempt
  <2> QED
    BY <1>1, <1>7, <2>1, <2>2, <2>3, <2>4 DEF ProofsShown, Shows, Drawn
<1>14. AloneBound'
  <2>1. \A type \in CardType : Alone(type)' \subseteq Alone(type)
    BY <1>6, <1>7 DEF Alone
  <2> QED
    BY <1>1, <2>1, IdleIsIdle, NoneAlone DEF IInv
<1> QED
  BY <1>1, <1>2, <1>5, <1>6, <1>8, <1>10, <1>11, <1>12, <1>13, <1>14, IdleIsIdle, RowStep

(* The version an edit is about to write is the one after the last.        *)
LEMMA NextIsNew ==
  ASSUME IInv, NEW sl \in Slot, NEW q, q = templateReq[sl], q.op \in {"status", "mapping"}, ~Taken(q)
  PROVE  /\ q \in Holds /\ Sound(q) /\ Acting(sl) /\ sl \in Busy /\ (load = 1 => Current(q))
         /\ q.of \in Made /\ q.of \in Template /\ template[q.of] \in TemplateRow
         /\ q.read \in TemplateRow /\ q.read.type = template[q.of].type
         /\ q.read.layout = template[q.of].layout
         /\ NextVersion(q) = template[q.of].last + 1
         /\ NextVersion(q) \in Version \ {1}
         /\ snapshot[<<q.of, NextVersion(q)>>] = NoSnapshot
<1>1. q \in Holds /\ Sound(q) /\ Acting(sl) /\ sl \in Busy /\ q # Idle /\ (load = 1 => Current(q))
  BY InFlight, ShapeOf DEF Holding
<1>2. q.of \in Made /\ q.of \in Template /\ q.read \in TemplateRow
  BY <1>1, Fields DEF Sound
<1>3. template[q.of] \in TemplateRow
  BY <1>2, MadeRow DEF IInv
<1>4. /\ q.read.last <= template[q.of].last /\ q.read.last < MaxVersion
      /\ q.read.type = template[q.of].type
      /\ q.read.last = template[q.of].last => q.read.layout = template[q.of].layout
  BY <1>1 DEF Sound, Holding
<1>5. q.read.last \in Version /\ template[q.of].last \in Version
  BY <1>2, <1>3, ReadFields
<1>6. NextVersion(q) \in Version \ {1}
  BY <1>4, <1>5, Numbers DEF NextVersion, Version
<1>7. snapshot[<<q.of, NextVersion(q)>>] = NoSnapshot
  BY DEF Taken
<1>8. ~(NextVersion(q) <= template[q.of].last)
  BY <1>2, <1>6, <1>7 DEF IInv, Grounded, Gapless
<1>9. NextVersion(q) = template[q.of].last + 1
  BY <1>4, <1>5, <1>8, Numbers DEF NextVersion, Version
<1>10. q.read.layout = template[q.of].layout
  <2>1. q.read.last \in Nat /\ template[q.of].last \in Nat
    BY <1>5, Numbers
  <2>2. q.read.last + 1 = template[q.of].last + 1
    BY <1>9 DEF NextVersion
  <2>3. q.read.last = template[q.of].last
    BY <2>1, <2>2
  <2> QED
    BY <1>4, <2>3
<1> QED
  BY <1>1, <1>2, <1>3, <1>4, <1>6, <1>7, <1>9, <1>10

(* The next version of a template is written, and no other row.            *)
OthersStay(t) ==
  \A o \in Made : o # t => /\ template'[o].last = template[o].last
                          /\ template'[o].layout = template[o].layout
VersionAdded(t, content) ==
  /\ SnapshotsStay /\ UnmadeIsEmpty' /\ Gapless' /\ LayoutsKept'
  /\ snapshot' \in [Template \X Version -> SnapshotRow \cup {NoSnapshot}]
  /\ snapshot'[<<t, template[t].last + 1>>] = content
  /\ \A o \in Made : o # t => \A v \in Version : snapshot'[<<o, v>>] = snapshot[<<o, v>>]
  /\ \A o \in Template : HasFirst(o)' <=> HasFirst(o)

LEMMA VersionWritten ==
  ASSUME IInv, NEW t \in Made, template[t].last + 1 \in Version,
         snapshot[<<t, template[t].last + 1>>] = NoSnapshot,
         NEW m \in SnapshotRow, snapshot' = [snapshot EXCEPT ![<<t, template[t].last + 1>>] = m],
         Made' = Made, template'[t].last = template[t].last + 1, template'[t].layout = m.layout,
         OthersStay(t)
  PROVE  VersionAdded(t, m)
<1>1. t \in Template /\ template[t].last \in Version /\ template[t].last \in Nat
  BY MadeRow DEF IInv, Made
<1> PICK v \in Version : v = template[t].last + 1
  OBVIOUS
<1>2. v # 1 /\ 1 \in Version /\ m # NoSnapshot
  BY <1>1, Numbers, SnapshotRows DEF Version
<1>3. snapshot \in [Template \X Version -> SnapshotRow \cup {NoSnapshot}]
  BY DEF IInv, Typed, TypeOK
<1>4. snapshot' = [snapshot EXCEPT ![<<t, v>>] = m] /\ snapshot[<<t, v>>] = NoSnapshot
  OBVIOUS
<1>5. snapshot' \in [Template \X Version -> SnapshotRow \cup {NoSnapshot}]
  BY <1>3, <1>4
<1>6. snapshot'[<<t, v>>] = m
  BY <1>1, <1>3, <1>4
<1>7. \A o \in Template, w \in Version : o # t \/ w # v => snapshot'[<<o, w>>] = snapshot[<<o, w>>]
  BY <1>3, <1>4
<1>8. SnapshotsStay
  BY <1>4, <1>7 DEF SnapshotsStay
<1>9. \A o \in Template : HasFirst(o)' <=> HasFirst(o)
  BY <1>2, <1>7 DEF HasFirst
<1>10. UnmadeIsEmpty'
  BY <1>7 DEF IInv, Grounded, UnmadeIsEmpty
<1>11. Gapless'
  <2> SUFFICES ASSUME NEW o \in Made, NEW w \in Version \ {1}
      PROVE  snapshot'[<<o, w>>] # NoSnapshot <=> w <= template'[o].last
    BY DEF Gapless
  <2>1. o \in Template /\ (snapshot[<<o, w>>] # NoSnapshot <=> w <= template[o].last)
    BY DEF IInv, Grounded, Gapless, Made
  <2>2. CASE o # t
    BY <1>7, <2>1, <2>2 DEF OthersStay
  <2>3. CASE o = t /\ w = v
    BY <1>1, <1>2, <1>6, <2>3, Numbers
  <2>4. CASE o = t /\ w # v
    <3>1. w <= template[t].last <=> w <= template[t].last + 1
      BY <1>1, <2>4, Numbers
    <3> QED
      BY <1>7, <2>1, <2>4, <3>1
  <2> QED
    BY <2>2, <2>3, <2>4
<1>12. LayoutsKept'
  <2> SUFFICES ASSUME NEW o \in Made, snapshot'[<<o, template'[o].last>>] # NoSnapshot
      PROVE  template'[o].layout = snapshot'[<<o, template'[o].last>>].layout
    BY DEF LayoutsKept, Newest
  <2>1. CASE o = t
    BY <1>6, <2>1
  <2>2. CASE o # t
    <3>1. o \in Template /\ template[o].last \in Version /\ template'[o].last = template[o].last
      BY <2>2, MadeRow DEF IInv, Made, OthersStay
    <3>2. snapshot'[<<o, template'[o].last>>] = Newest(o)
      BY <1>7, <2>2, <3>1 DEF Newest
    <3> QED
      BY <2>2, <3>2 DEF IInv, Grounded, LayoutsKept, OthersStay
  <2> QED
    BY <2>1, <2>2
<1> QED
  BY <1>1, <1>5, <1>6, <1>7, <1>8, <1>9, <1>10, <1>11, <1>12 DEF Made, VersionAdded

LEMMA CommitMappingStep ==
  ASSUME IInv, NEW sl \in Slot, CommitMapping(sl)
  PROVE  IInv'
<1> PICK q : q = templateReq[sl]
  OBVIOUS
<1>1. q.op = "mapping" /\ ~Taken(q) /\ UNCHANGED <<load, proof, restarts>> /\ Typed /\ Grounded
  BY DEF CommitMapping, IInv
<1>2. PICK m \in Mapping, l \in Layout :
        LET draw == [mapping |-> m, layout |-> l, version |-> NextVersion(q)] IN
          /\ template' = [template EXCEPT ![q.of].mapping = m, ![q.of].layout = l,
                                          ![q.of].last = NextVersion(q)]
          /\ snapshot' = [snapshot EXCEPT ![<<q.of, NextVersion(q)>>] = Content(draw)]
          /\ GoOn(sl, [op |-> "find", of |-> q.of, draw |-> draw])
  BY DEF CommitMapping
<1> PICK draw : draw = [mapping |-> m, layout |-> l, version |-> NextVersion(q)]
  OBVIOUS
<1> PICK n : n = [op |-> "find", of |-> q.of, draw |-> draw]
  OBVIOUS
<1>3. /\ q \in Holds /\ Sound(q) /\ Acting(sl) /\ (load = 1 => Current(q))
      /\ q.of \in Made /\ q.of \in Template /\ template[q.of] \in TemplateRow
      /\ NextVersion(q) = template[q.of].last + 1
      /\ NextVersion(q) \in Version \ {1}
      /\ snapshot[<<q.of, NextVersion(q)>>] = NoSnapshot
  BY <1>1, NextIsNew
<1> PICK v \in Version : v = NextVersion(q)
  BY <1>3
<1>16. /\ draw \in Draw /\ draw.mapping = m /\ draw.layout = l /\ draw.version = v
       /\ Content(draw) \in SnapshotRow /\ Content(draw).mapping = m /\ Content(draw).layout = l
  <2>1. draw \in Draw /\ draw.mapping = m /\ draw.layout = l /\ draw.version = v
    BY DEF Draw
  <2> QED
    BY <2>1, ContentIsRow
<1>4. /\ template' \in [Template -> TemplateRow \cup {Unmade}]
      /\ template'[q.of] \in TemplateRow
      /\ template'[q.of].type = template[q.of].type
      /\ template'[q.of].active = template[q.of].active
      /\ template'[q.of].alone = template[q.of].alone
      /\ template'[q.of].last = v
      /\ template'[q.of].layout = l
      /\ template'[q.of].mapping = m
      /\ \A t \in Template : t # q.of => template'[t] = template[t]
  <2>1. template \in [Template -> TemplateRow \cup {Unmade}]
    BY <1>1 DEF Typed, TypeOK
  <2>2. PICK row : row = [template[q.of] EXCEPT !.mapping = m, !.layout = l, !.last = v]
    OBVIOUS
  <2>3. /\ row \in TemplateRow /\ row.type = template[q.of].type
        /\ row.active = template[q.of].active /\ row.alone = template[q.of].alone
        /\ row.last = v /\ row.mapping = m /\ row.layout = l
    BY <1>3, <2>2 DEF TemplateRow
  <2>4. template' = [template EXCEPT ![q.of] = row]
    BY <1>2, <1>3, <2>1, <2>2
  <2> QED
    BY <1>3, <2>1, <2>3, <2>4
<1>5. Made' = Made
  BY <1>1, <1>3, <1>4, Unfit DEF Made
<1>6. \A t \in Made : /\ t \in Template /\ template[t].last \in Nat
                      /\ template'[t].type = template[t].type
                      /\ template[t].last <= template'[t].last
                      /\ template'[t].active = template[t].active
                      /\ template'[t].alone = template[t].alone
                      /\ template'[t].last = template[t].last =>
                           template'[t].layout = template[t].layout
                      /\ t # q.of => template'[t] = template[t]
  BY <1>1, <1>3, <1>4, MadeRow DEF Made
<1>7. /\ SnapshotsStay /\ UnmadeIsEmpty' /\ Gapless' /\ LayoutsKept'
      /\ snapshot' \in [Template \X Version -> SnapshotRow \cup {NoSnapshot}]
      /\ snapshot'[<<q.of, v>>] = Content(draw)
      /\ \A o \in Made : o # q.of => \A w \in Version : snapshot'[<<o, w>>] = snapshot[<<o, w>>]
      /\ \A o \in Template : HasFirst(o)' <=> HasFirst(o)
  <2>1. /\ template[q.of].last + 1 = v /\ snapshot[<<q.of, template[q.of].last + 1>>] = NoSnapshot
        /\ snapshot' = [snapshot EXCEPT ![<<q.of, template[q.of].last + 1>>] = Content(draw)]
        /\ template'[q.of].last = template[q.of].last + 1
        /\ template'[q.of].layout = Content(draw).layout
        /\ \A o \in Made : o # q.of => /\ template'[o].last = template[o].last
                                     /\ template'[o].layout = template[o].layout
    BY <1>2, <1>3, <1>4, <1>6, <1>16
  <2> PICK content \in SnapshotRow : content = Content(draw)
    BY <1>16
  <2> PICK t \in Made : t = q.of
    BY <1>3
  <2>2. /\ template[t].last + 1 = v /\ template[t].last + 1 \in Version
        /\ snapshot[<<t, template[t].last + 1>>] = NoSnapshot
        /\ snapshot' = [snapshot EXCEPT ![<<t, template[t].last + 1>>] = content]
        /\ template'[t].last = template[t].last + 1
        /\ template'[t].layout = content.layout
        /\ Made' = Made
    BY <1>5, <2>1
  <2>3. OthersStay(t)
    BY <2>1 DEF OthersStay
  <2>4. VersionAdded(t, content)
    BY <2>2, <2>3, VersionWritten
  <2> QED
    BY <2>2, <2>4 DEF VersionAdded
<1>8. RowsGrow
  BY <1>1, <1>5, <1>6 DEF RowsGrow, Drawn
<1>9. /\ n.op = "find" /\ n.of = q.of /\ n.draw = draw
      /\ "find" \notin Holding /\ "find" # "first" /\ n \in Request
  BY <1>3, <1>16 DEF Holding, Request, Finds
<1>10. templateReq'[sl] = n
  BY <1>1, <1>2, OneSlot
<1>11. Typed'
  BY <1>1, <1>2, <1>4, <1>7, <1>9, OneSlot DEF Typed, TypeOK
<1>12. Sound(templateReq[sl])'
  <2>1. v <= template'[q.of].last
    BY <1>4, Numbers
  <2> QED
    BY <1>3, <1>5, <1>7, <1>9, <1>10, <1>16, <2>1 DEF Sound
<1>13. \A t \in Made : Begun(t) =>
         template'[t].mapping = template[t].mapping \/ Known(t, template[t].mapping)'
  <2>1. Known(q.of, template[q.of].mapping)'
    BY <1>4, <1>7, <1>16, SnapshotRows DEF Known
  <2> QED
    BY <1>4, <1>6, <2>1
<1>14. load = 1 => /\ Current(templateReq[sl])' /\ NewestShown' /\ (restarts = 0 => ProofsShown')
  <2> SUFFICES ASSUME load = 1
      PROVE  Current(templateReq[sl])' /\ NewestShown' /\ (restarts = 0 => ProofsShown')
    OBVIOUS
  <2>1. Current(templateReq[sl])'
    BY <1>4, <1>9, <1>10, <1>16 DEF Current, Holding
  <2>2. NewestShown'
    <3> SUFFICES ASSUME NEW t \in Made, template'[t].last > 1
        PROVE  template'[t].mapping = snapshot'[<<t, template'[t].last>>].mapping
      BY <1>5 DEF NewestShown, Newest
    <3>1. CASE t = q.of
      BY <1>4, <1>7, <1>16, <3>1
    <3>2. CASE t # q.of
      <4>1. template[t].last \in Version /\ template'[t] = template[t]
        BY <1>1, <1>4, <1>6, <3>2, MadeRow
      <4> QED
        BY <1>7, <3>2, <4>1 DEF IInv, Serial, NewestShown, Newest
    <3> QED
      BY <3>1, <3>2
  <2>3. ASSUME restarts = 0
        PROVE  ProofsShown'
    <3> SUFFICES ASSUME NEW p \in Drawn
        PROVE  \/ Shows(proof[p], template'[proof[p].template])
               \/ Redrawing(proof[p].template)'
      BY <1>1 DEF ProofsShown, Shows, Drawn, Redrawing
    <3>1. Shows(proof[p], template[proof[p].template])
      BY <1>1, <1>3, <2>3, ShownAlone DEF Drawing
    <3>2. proof[p].template \in Template
      BY <1>1 DEF Grounded, ProofsSound, Kempt, Made
    <3>3. CASE proof[p].template = q.of
      BY <1>1, <1>9, <1>10, <3>3 DEF Redrawing
    <3> QED
      BY <1>4, <3>1, <3>2, <3>3
  <2> QED
    BY <2>1, <2>2, <2>3
<1>15. AloneBound'
  <2>1. \A type \in CardType : Alone(type)' \subseteq Alone(type)
    BY <1>5, <1>6 DEF Alone
  <2> QED
    BY <1>1, <1>2, <1>9, <2>1, NoneAlone DEF IInv
<1> QED
  <2>1. GoOn(sl, n) /\ templateReq[sl].op # "first"
    BY <1>1, <1>2
  <2> QED
    BY <1>1, <1>3, <1>5, <1>7, <1>8, <1>9, <1>11, <1>12, <1>13, <1>14, <1>15, <2>1, RowStep

LEMMA DeactivatedRows ==
  ASSUME Typed, NEW rows, rows \subseteq Made
  PROVE  /\ Deactivated(rows) \in [Template -> TemplateRow \cup {Unmade}]
         /\ \A t \in Template : t \notin rows => Deactivated(rows)[t] = template[t]
         /\ \A t \in rows : /\ Deactivated(rows)[t] \in TemplateRow
                           /\ ~Deactivated(rows)[t].active
                           /\ Deactivated(rows)[t].type = template[t].type
                           /\ Deactivated(rows)[t].mapping = template[t].mapping
                           /\ Deactivated(rows)[t].layout = template[t].layout
                           /\ Deactivated(rows)[t].last = template[t].last
<1>1. template \in [Template -> TemplateRow \cup {Unmade}]
  BY DEF Typed, TypeOK
<1>2. \A t \in rows : t \in Template /\ template[t] \in TemplateRow
  BY MadeRow DEF Made
<1>3. \A t \in Template : t \notin rows => Deactivated(rows)[t] = template[t]
  BY DEF Deactivated
<1>4. ASSUME NEW t \in rows
      PROVE  /\ Deactivated(rows)[t] \in TemplateRow
             /\ ~Deactivated(rows)[t].active
             /\ Deactivated(rows)[t].type = template[t].type
             /\ Deactivated(rows)[t].mapping = template[t].mapping
             /\ Deactivated(rows)[t].layout = template[t].layout
             /\ Deactivated(rows)[t].last = template[t].last
  <2>1. Deactivated(rows)[t] = [template[t] EXCEPT !.active = FALSE]
    BY <1>2 DEF Deactivated
  <2>2. PICK row \in TemplateRow : row = template[t]
    BY <1>2
  <2>3. Deactivated(rows)[t] = [row EXCEPT !.active = FALSE]
    BY <2>1, <2>2
  <2>4. /\ [row EXCEPT !.active = FALSE] \in TemplateRow
        /\ [row EXCEPT !.active = FALSE].active = FALSE
        /\ [row EXCEPT !.active = FALSE].type = row.type
        /\ [row EXCEPT !.active = FALSE].mapping = row.mapping
        /\ [row EXCEPT !.active = FALSE].layout = row.layout
        /\ [row EXCEPT !.active = FALSE].last = row.last
    BY DEF TemplateRow
  <2> QED
    BY <2>2, <2>3, <2>4
<1>5. \A t \in Template : Deactivated(rows)[t] \in TemplateRow \cup {Unmade}
  BY <1>1, <1>3, <1>4
<1>6. Deactivated(rows) \in [Template -> TemplateRow \cup {Unmade}]
  BY <1>5 DEF Deactivated
<1> QED
  BY <1>3, <1>4, <1>6

(* The request that deactivated the rivals of its template leaves with it.  *)
LEMMA AloneNow ==
  ASSUME IInv, load' = load, NEW sl \in Busy, GoOn(sl, Idle), NEW t, NEW type \in CardType,
         Alone(type)' \subseteq {t}
  PROVE  Cardinality(Alone(type)') + Cardinality(Coming(type)') <= load
<1>1. sl \in Slot /\ Typed /\ load \in Nat
  BY Numbers DEF Busy, IInv, Typed, TypeOK
<1>2. Coming(type)' \subseteq Coming(type) \ {sl}
  BY <1>1, IdleIsIdle, ComingMoves
<1>3. Coming(type) \subseteq Busy
  BY IdleIsIdle DEF Coming, Busy
<1>4. Coming(type)' \subseteq Busy \ {sl}
  BY <1>2, <1>3
<1>5. IsFiniteSet(Busy \ {sl}) /\ Cardinality(Busy \ {sl}) = Cardinality(Busy) - 1
  BY SlotsFinite, FS_RemoveElement
<1>6. Cardinality(Coming(type)') <= Cardinality(Busy) - 1 /\ Cardinality(Coming(type)') \in Nat
  BY <1>4, <1>5, FS_Subset, FS_CardinalityType
<1>7. Cardinality(Alone(type)') <= 1 /\ Cardinality(Alone(type)') \in Nat
  <2>1. IsFiniteSet({t}) /\ Cardinality({t}) = 1
    BY FS_Singleton
  <2> QED
    BY <2>1, FS_Subset, FS_CardinalityType
<1> QED
  BY <1>1, <1>6, <1>7, SlotsFinite DEF IInv, BusyBound

LEMMA CommitStatusStep ==
  ASSUME IInv, NEW sl \in Slot, CommitStatus(sl)
  PROVE  IInv'
<1> PICK q : q = templateReq[sl]
  OBVIOUS
<1>1. /\ q.op = "status" /\ ~Taken(q) /\ UNCHANGED <<load, proof, restarts>> /\ Typed /\ Grounded
      /\ GoOn(sl, Idle)
      /\ snapshot' = [snapshot EXCEPT ![<<q.of, NextVersion(q)>>] = Content(q.read)]
  BY DEF CommitStatus, Finish, IInv
<1> PICK rivals : rivals = {t \in Made \ {q.of} : template[t].type = q.read.type}
  OBVIOUS
<1>2. PICK publish \in BOOLEAN, alone \in BOOLEAN :
        template' = [Deactivated(IF alone THEN rivals ELSE {}) EXCEPT
                       ![q.of].active = publish, ![q.of].alone = alone,
                       ![q.of].last = NextVersion(q)]
  <2>1. PICK publish \in BOOLEAN, others \in BOOLEAN :
          template' = [Deactivated(IF publish /\ others THEN rivals ELSE {}) EXCEPT
                         ![q.of].active = publish, ![q.of].alone = publish /\ others,
                         ![q.of].last = NextVersion(q)]
    BY DEF CommitStatus
  <2>2. PICK alone \in BOOLEAN : alone = (publish /\ others)
    OBVIOUS
  <2> QED
    BY <2>1, <2>2
<1> PICK rows : rows = IF alone THEN rivals ELSE {}
  OBVIOUS
<1>3. /\ q \in Holds /\ Sound(q) /\ Acting(sl) /\ sl \in Busy /\ (load = 1 => Current(q))
      /\ q.of \in Made /\ q.of \in Template /\ template[q.of] \in TemplateRow
      /\ q.read \in TemplateRow /\ q.read.type = template[q.of].type
      /\ q.read.layout = template[q.of].layout
      /\ NextVersion(q) = template[q.of].last + 1
      /\ NextVersion(q) \in Version \ {1}
      /\ snapshot[<<q.of, NextVersion(q)>>] = NoSnapshot
  BY <1>1, NextIsNew
<1> PICK v \in Version : v = NextVersion(q)
  BY <1>3
<1>17. /\ Content(q.read) \in SnapshotRow /\ Content(q.read).mapping = q.read.mapping
       /\ Content(q.read).layout = q.read.layout
  BY <1>3, ReadFields, ContentIsRow
<1>4. rows \subseteq Made /\ q.of \notin rows
  OBVIOUS
<1>5. /\ template' \in [Template -> TemplateRow \cup {Unmade}]
      /\ template'[q.of] \in TemplateRow
      /\ template'[q.of].type = template[q.of].type
      /\ template'[q.of].alone = alone
      /\ template'[q.of].last = v
      /\ template'[q.of].mapping = template[q.of].mapping
      /\ template'[q.of].layout = template[q.of].layout
      /\ \A t \in Template : t # q.of => template'[t] = Deactivated(rows)[t]
  <2>1. Deactivated(rows) \in [Template -> TemplateRow \cup {Unmade}]
    BY <1>1, <1>4, DeactivatedRows
  <2>2. Deactivated(rows)[q.of] = template[q.of]
    BY <1>1, <1>3, <1>4, DeactivatedRows
  <2>3. PICK row : row = [template[q.of] EXCEPT !.active = publish, !.alone = alone, !.last = v]
    OBVIOUS
  <2>4. /\ row \in TemplateRow /\ row.type = template[q.of].type
        /\ row.alone = alone /\ row.last = v /\ row.mapping = template[q.of].mapping
        /\ row.layout = template[q.of].layout
    BY <1>3, <2>3 DEF TemplateRow
  <2>5. template' = [Deactivated(rows) EXCEPT
                       ![q.of].active = publish, ![q.of].alone = alone, ![q.of].last = v]
    BY <1>2
  <2> PICK base : base = Deactivated(rows)
    OBVIOUS
  <2>6. template' = [base EXCEPT ![q.of].active = publish, ![q.of].alone = alone, ![q.of].last = v]
    BY <2>5
  <2>7. template' = [base EXCEPT ![q.of] = row]
    BY <1>3, <2>1, <2>2, <2>3, <2>6
  <2> QED
    BY <1>3, <2>1, <2>4, <2>7
<1>6. \A t \in Template \ {q.of} :
        /\ t \notin rows => template'[t] = template[t]
        /\ t \in rows => /\ template'[t] \in TemplateRow
                         /\ ~template'[t].active
                         /\ template'[t].type = template[t].type
                         /\ template'[t].mapping = template[t].mapping
                         /\ template'[t].layout = template[t].layout
                         /\ template'[t].last = template[t].last
  <2>1. \A t \in Template \ {q.of} : template'[t] = Deactivated(rows)[t]
    BY <1>5
  <2>2. /\ \A t \in Template : t \notin rows => Deactivated(rows)[t] = template[t]
        /\ \A t \in rows : /\ Deactivated(rows)[t] \in TemplateRow
                          /\ ~Deactivated(rows)[t].active
                          /\ Deactivated(rows)[t].type = template[t].type
                          /\ Deactivated(rows)[t].mapping = template[t].mapping
                          /\ Deactivated(rows)[t].layout = template[t].layout
                          /\ Deactivated(rows)[t].last = template[t].last
    BY <1>1, <1>4, DeactivatedRows
  <2> QED
    BY <2>1, <2>2
<1>7. Made' = Made
  <2>1. \A t \in Template : t \in Made' <=> t \in Made
    BY <1>3, <1>4, <1>5, <1>6, Unfit DEF Made
  <2> QED
    BY <2>1 DEF Made
<1>8. \A t \in Made : /\ t \in Template /\ template[t].last \in Version /\ template[t].last \in Nat
                      /\ template'[t].type = template[t].type
                      /\ template'[t].mapping = template[t].mapping
                      /\ template'[t].layout = template[t].layout
                      /\ t # q.of => template'[t].last = template[t].last
  <2>1. \A t \in Made : t \in Template /\ template[t].last \in Version /\ template[t].last \in Nat
    BY <1>1, MadeRow DEF Made
  <2> QED
    BY <1>5, <1>6, <2>1
<1>9. /\ SnapshotsStay /\ UnmadeIsEmpty' /\ Gapless' /\ LayoutsKept'
      /\ snapshot' \in [Template \X Version -> SnapshotRow \cup {NoSnapshot}]
      /\ snapshot'[<<q.of, v>>] = Content(q.read)
      /\ \A o \in Made : o # q.of => \A w \in Version : snapshot'[<<o, w>>] = snapshot[<<o, w>>]
      /\ \A o \in Template : HasFirst(o)' <=> HasFirst(o)
  <2>1. /\ template[q.of].last + 1 = v /\ snapshot[<<q.of, template[q.of].last + 1>>] = NoSnapshot
        /\ snapshot' = [snapshot EXCEPT ![<<q.of, template[q.of].last + 1>>] = Content(q.read)]
        /\ template'[q.of].last = template[q.of].last + 1
        /\ template'[q.of].layout = Content(q.read).layout
    BY <1>1, <1>3, <1>5, <1>17
  <2>2. OthersStay(q.of)
    BY <1>8 DEF OthersStay
  <2>3. VersionAdded(q.of, Content(q.read))
    BY <1>3, <1>7, <1>17, <2>1, <2>2, VersionWritten
  <2> QED
    BY <2>1, <2>3 DEF VersionAdded
<1>10. RowsGrow
  <2>1. template[q.of].last <= v
    BY <1>3, <1>8
  <2> QED
    BY <1>1, <1>5, <1>7, <1>8, <2>1 DEF RowsGrow, Drawn
<1>11. templateReq'[sl] = Idle
  BY <1>1, OneSlot
<1>12. Typed'
  BY <1>1, <1>5, <1>9, OneSlot, IdleIsIdle DEF Typed, TypeOK
<1>13. Sound(templateReq[sl])' /\ Current(templateReq[sl])'
  BY <1>11, IdleIsIdle DEF Sound, Current, Drawing
<1>14. load = 1 => NewestShown' /\ (restarts = 0 => ProofsShown')
  <2> SUFFICES ASSUME load = 1
      PROVE  NewestShown' /\ (restarts = 0 => ProofsShown')
    OBVIOUS
  <2>1. NewestShown'
    <3> SUFFICES ASSUME NEW t \in Made, template'[t].last > 1
        PROVE  template'[t].mapping = snapshot'[<<t, template'[t].last>>].mapping
      BY <1>7 DEF NewestShown, Newest
    <3>1. CASE t = q.of
      BY <1>1, <1>3, <1>5, <1>9, <1>17, <3>1 DEF Current, Holding
    <3>2. CASE t # q.of
      BY <1>8, <1>9, <3>2 DEF IInv, Serial, NewestShown, Newest
    <3> QED
      BY <3>1, <3>2
  <2>2. restarts = 0 => \A p \in Drawn : Shows(proof[p], template[proof[p].template])
    BY <1>1, <1>3, ShownAlone DEF Drawing
  <2>3. \A p \in Drawn : proof[p].template \in Made
    BY <1>1 DEF Grounded, ProofsSound, Kempt
  <2> QED
    BY <1>1, <1>8, <2>1, <2>2, <2>3 DEF ProofsShown, Shows, Drawn
<1>15. AloneBound'
  <2> SUFFICES ASSUME NEW type \in CardType
      PROVE  Cardinality(Alone(type)') + Cardinality(Coming(type)') <= load
    BY <1>1 DEF AloneBound
  <2>1. CASE alone /\ type = q.read.type
    <3>1. Alone(type)' \subseteq {q.of}
      BY <1>6, <1>7, <1>8, <2>1 DEF Alone
    <3> QED
      BY <1>1, <1>3, <3>1, AloneNow
  <2>2. CASE ~(alone /\ type = q.read.type)
    <3>1. Alone(type)' \subseteq Alone(type)
      BY <1>3, <1>5, <1>6, <1>7, <1>8, <2>2 DEF Alone
    <3>2. Coming(type)' \subseteq Coming(type)
      BY <1>1, IdleIsIdle, ComingMoves
    <3> QED
      BY <1>1, <3>1, <3>2, AloneFewer DEF IInv
  <2> QED
    BY <2>1, <2>2
<1>16. \A t \in Made : template'[t].mapping = template[t].mapping
  BY <1>8
<1> QED
  <2>1. templateReq[sl].op # "first" /\ Idle.op # "first" /\ Idle.op \notin Holding /\ Idle \in Request
    BY <1>1, IdleIsIdle
  <2> QED
    BY <1>1, <1>3, <1>7, <1>9, <1>10, <1>12, <1>13, <1>14, <1>15, <1>16, <2>1, RowStep

LEMMA BeginCreateStep ==
  ASSUME IInv, NEW sl \in Slot, BeginCreate(sl)
  PROVE  IInv'
<1>1. PICK type \in CardType, mapping \in Mapping, layout \in Layout,
           active \in BOOLEAN, default \in BOOLEAN :
        /\ Enter(sl, [op |-> "create", type |-> type, mapping |-> mapping, layout |-> layout,
                      active |-> active])
        /\ template' = IF active \/ default THEN Deactivated(Made) ELSE template
        /\ UNCHANGED <<load, snapshot, proof, restarts>>
  BY DEF BeginCreate
<1> PICK n : n = [op |-> "create", type |-> type, mapping |-> mapping, layout |-> layout,
                  active |-> active]
  OBVIOUS
<1>2. /\ Acting(sl) /\ templateReq[sl] = Idle /\ GoOn(sl, n) /\ Typed /\ Grounded /\ BusyBound
      /\ sl \notin Busy
  BY <1>1, Entering DEF IInv, Enter
<1>3. /\ n.op = "create" /\ n.type = type /\ n.active = active /\ n \in Request
      /\ "create" \notin Holding /\ "create" \notin Drawing /\ "create" # "first" /\ "create" # "draw"
      /\ "create" # "redraw"
  BY DEF Holding, Drawing, Request, Creates
<1> PICK rows : rows = IF active \/ default THEN Made ELSE {}
  OBVIOUS
<1>4. \A t \in Template : template'[t] = IF t \in rows THEN Deactivated(Made)[t] ELSE template[t]
  BY <1>1, <1>2, DeactivatedRows
<1>5. /\ Deactivated(Made) \in [Template -> TemplateRow \cup {Unmade}]
      /\ \A t \in Made : /\ Deactivated(Made)[t] \in TemplateRow
                        /\ ~Deactivated(Made)[t].active
                        /\ Deactivated(Made)[t].type = template[t].type
                        /\ Deactivated(Made)[t].mapping = template[t].mapping
                        /\ Deactivated(Made)[t].layout = template[t].layout
                        /\ Deactivated(Made)[t].last = template[t].last
  BY <1>2, DeactivatedRows
<1>6. template' \in [Template -> TemplateRow \cup {Unmade}]
  BY <1>1, <1>2, <1>5 DEF Typed, TypeOK
<1>7. Made' = Made
  <2>1. \A t \in Template : t \in Made' <=> t \in Made
    BY <1>2, <1>4, <1>5, Unfit, MadeRow DEF Made
  <2> QED
    BY <2>1 DEF Made
<1>8. \A t \in Made : /\ t \in Template /\ template[t].last \in Nat
                      /\ template'[t].type = template[t].type
                      /\ template'[t].mapping = template[t].mapping
                      /\ template'[t].layout = template[t].layout
                      /\ template'[t].last = template[t].last
                      /\ template'[t].active => template'[t] = template[t]
  <2>1. \A t \in Made : t \in Template /\ template[t].last \in Nat
    BY <1>2, MadeRow DEF Made
  <2> QED
    BY <1>4, <1>5, <2>1
<1>9. RowsGrow /\ SnapshotsStay
  BY <1>1, <1>7, <1>8 DEF RowsGrow, SnapshotsStay, Drawn
<1>10. \A t \in Template : HasFirst(t)' <=> HasFirst(t)
  BY <1>1 DEF HasFirst
<1>11. templateReq'[sl] = n
  BY <1>2, OneSlot
<1>12. Typed'
  BY <1>1, <1>2, <1>3, <1>6, OneSlot DEF Typed, TypeOK
<1>13. Sound(templateReq[sl])' /\ Current(templateReq[sl])'
  BY <1>3, <1>11 DEF Sound, Current
<1>14. UnmadeIsEmpty' /\ Gapless' /\ LayoutsKept'
  BY <1>1, <1>2, <1>7, <1>8 DEF Grounded, UnmadeIsEmpty, Gapless, LayoutsKept, Newest
<1>15. load = 1 => NewestShown' /\ (restarts = 0 => ProofsShown')
  <2> SUFFICES ASSUME load = 1
      PROVE  NewestShown' /\ (restarts = 0 => ProofsShown')
    OBVIOUS
  <2>1. NewestShown'
    BY <1>1, <1>7, <1>8 DEF IInv, Serial, NewestShown, Newest
  <2>2. restarts = 0 => \A p \in Drawn : Shows(proof[p], template[proof[p].template])
    BY <1>2, ShownAlone, IdleIsIdle
  <2>3. \A p \in Drawn : proof[p].template \in Made
    BY <1>2 DEF Grounded, ProofsSound, Kempt
  <2> QED
    BY <1>1, <1>8, <2>1, <2>2, <2>3 DEF ProofsShown, Shows, Drawn
<1>16. AloneBound'
  <2> SUFFICES ASSUME NEW ty \in CardType
      PROVE  Cardinality(Alone(ty)') + Cardinality(Coming(ty)') <= load
    BY <1>1 DEF AloneBound
  <2>1. CASE active
    <3>1. Alone(ty)' = {}
      BY <1>4, <1>5, <1>7, <2>1 DEF Alone, Made
    <3>2. Coming(ty)' \subseteq Busy'
      BY IdleIsIdle DEF Coming, Busy
    <3>3. IsFiniteSet(Busy') /\ Cardinality(Busy') <= load /\ Cardinality(Busy') \in Nat
      <4>1. Busy' \subseteq Slot
        BY DEF Busy
      <4>2. BusyBound'
        BY <1>1, <1>2, BusyMoves
      <4> QED
        BY <1>1, <4>1, <4>2, SlotsFinite, FS_Subset, FS_CardinalityType DEF BusyBound
    <3>4. Cardinality(Coming(ty)') <= Cardinality(Busy') /\ Cardinality(Coming(ty)') \in Nat
      BY <3>2, <3>3, FS_Subset, FS_CardinalityType
    <3>5. Cardinality(Alone(ty)') = 0 /\ load \in Nat
      BY <1>2, <3>1, FS_EmptySet, Numbers DEF Typed, TypeOK
    <3> QED
      BY <3>3, <3>4, <3>5
  <2>2. CASE ~active
    <3>1. Alone(ty)' \subseteq Alone(ty)
      BY <1>7, <1>8 DEF Alone
    <3>2. Coming(ty)' \subseteq Coming(ty)
      BY <1>2, <1>3, <1>11, <2>2, OneSlot DEF Coming
    <3> QED
      BY <1>1, <1>2, <3>1, <3>2, AloneFewer DEF IInv
  <2> QED
    BY <2>1, <2>2
<1> QED
  <2>1. templateReq[sl].op # "first" /\ n.op # "first" /\ n.op \notin Holding
    BY <1>2, <1>3, IdleIsIdle
  <2> QED
    BY <1>1, <1>2, <1>3, <1>7, <1>8, <1>9, <1>10, <1>12, <1>13, <1>14, <1>15, <1>16, <2>1, RowStep

(* A template is made, and its first snapshot is about to be written.      *)
LEMMA MakeStep ==
  ASSUME IInv, NEW sl \in Slot, templateReq[sl].op \in {"create", "copy"},
         NEW t \in Template \ Made, NEW row \in TemplateRow, row.last = 1,
         template' = [template EXCEPT ![t] = row],
         GoOn(sl, [op |-> "first", of |-> t, content |-> Content(row)]),
         UNCHANGED <<load, snapshot, proof, restarts>>,
         AloneBound'
  PROVE  IInv'
<1> PICK n : n = [op |-> "first", of |-> t, content |-> Content(row)]
  OBVIOUS
<1>1. /\ Typed /\ Grounded /\ BusyBound /\ Acting(sl) /\ GoOn(sl, n)
      /\ templateReq[sl].op # "first" /\ templateReq[sl].op \notin Drawing
  BY InFlight DEF IInv, Drawing
<1>2. /\ n.op = "first" /\ n.of = t /\ n \in Request
      /\ n.content.mapping = row.mapping /\ n.content.layout = row.layout
      /\ "first" \notin Holding /\ "first" \notin Drawing
      /\ "first" \notin {"status", "mapping", "draw", "redraw", "create"}
  BY ReadFields, ContentIsRow DEF Holding, Drawing, Request, Firsts
<1>3. templateReq'[sl] = n /\ \A o \in Slot : o # sl => templateReq'[o] = templateReq[o]
  BY <1>1, OneSlot
<1>4. /\ template' \in [Template -> TemplateRow \cup {Unmade}] /\ template'[t] = row
      /\ \A o \in Template : o # t => template'[o] = template[o]
  BY <1>1 DEF Typed, TypeOK
<1>5. Typed'
  BY <1>1, <1>2, <1>4, OneSlot DEF Typed, TypeOK
<1>6. Made' = Made \cup {t} /\ t \notin Made /\ t \in Template /\ Drawn' = Drawn
  <2>1. \A o \in Template : o \in Made' <=> o \in Made \/ o = t
    BY <1>4, Unfit DEF Made
  <2> QED
    BY <2>1 DEF Made, Drawn
<1>7. \A o \in Made : o \in Template /\ o # t /\ template'[o] = template[o] /\ template[o].last \in Nat
  BY <1>1, <1>4, <1>6, MadeRow DEF Made
<1>8. RowsGrow /\ SnapshotsStay
  BY <1>6, <1>7 DEF RowsGrow, SnapshotsStay
<1>9. \A v \in Version : snapshot[<<t, v>>] = NoSnapshot
  BY <1>1 DEF Grounded, UnmadeIsEmpty
<1>10. \A o \in Template : HasFirst(o)' <=> HasFirst(o)
  BY DEF HasFirst
<1>11. ~HasFirst(t)
  BY <1>9, Numbers DEF HasFirst
<1>12. Sound(templateReq[sl])'
  BY <1>2, <1>3, <1>4, <1>6, <1>10, <1>11 DEF Sound
<1>13. RequestsSound'
  <2>1. ASSUME NEW o \in Slot, o # sl, templateReq[o].op = "first", HasFirst(templateReq[o].of)'
        PROVE  HasFirst(templateReq[o].of)
    BY <1>3, <2>1 DEF HasFirst
  <2> QED
    BY <1>1, <1>5, <1>8, <1>12, <2>1, RequestsMove DEF Grounded
<1>14. \A o \in Slot : templateReq[o].op = "first" => templateReq[o].of \in Made
  <2>1. "first" # "create" /\ Idle.op # "first"
    BY IdleIsIdle
  <2> QED
    BY <1>1, <2>1 DEF Grounded, RequestsSound, Sound
<1>15. /\ Pending(t)' = {sl}
       /\ \A o \in Template : o # t => Pending(o)' = Pending(o)
  <2>1. \A o \in Slot : o \in Pending(t)' <=> o = sl
    BY <1>2, <1>3, <1>6, <1>14 DEF Pending
  <2>2. \A x \in Template : x # t => \A o \in Slot : o \in Pending(x)' <=> o \in Pending(x)
    BY <1>1, <1>2, <1>3 DEF Pending
  <2> QED
    BY <2>1, <2>2 DEF Pending
<1>16. FirstsApart'
  BY <1>1, <1>15 DEF Grounded, FirstsApart
<1>17. UnmadeIsEmpty'
  BY <1>1, <1>6 DEF Grounded, UnmadeIsEmpty
<1>18. Gapless'
  <2> SUFFICES ASSUME NEW o \in Made', NEW v \in Version \ {1}
      PROVE  snapshot[<<o, v>>] # NoSnapshot <=> v <= template'[o].last
    BY DEF Gapless
  <2>1. CASE o = t
    <3>1. ~(v <= 1)
      BY Numbers DEF Version
    <3> QED
      BY <1>4, <1>9, <2>1, <3>1
  <2>2. CASE o # t
    BY <1>1, <1>6, <1>7, <2>2 DEF Grounded, Gapless
  <2> QED
    BY <2>1, <2>2
<1>25. LayoutsKept'
  <2>1. snapshot[<<t, template'[t].last>>] = NoSnapshot
    BY <1>4, <1>9, Numbers
  <2> QED
    BY <1>1, <1>6, <1>7, <2>1 DEF Grounded, LayoutsKept, Newest
<1>19. ProofsSound'
  BY <1>1, <1>6, <1>7 DEF Grounded, ProofsSound, Kempt
<1>20. \A o \in Made : /\ Begun(o)' <=> Begun(o)
                      /\ \A m \in Mapping : Known(o, m) => Known(o, m)'
  <2> SUFFICES ASSUME NEW o \in Made
      PROVE  /\ Begun(o)' <=> Begun(o)
             /\ \A m \in Mapping : Known(o, m) => Known(o, m)'
    OBVIOUS
  <2>1. o \in Template /\ o # t /\ Pending(o)' = Pending(o) /\ (HasFirst(o)' <=> HasFirst(o))
    BY <1>7, <1>10, <1>15
  <2>2. \A x \in Pending(o) : templateReq'[x] = templateReq[x]
    BY <1>1, <1>3 DEF Pending
  <2> QED
    BY <2>1, <2>2 DEF Begun, Known
<1>21. Known(t, template[t].mapping)'
  BY <1>2, <1>3, <1>4, <1>15 DEF Known
<1>22. RowsKnown' /\ ReadsKnown'
  <2>1. n.op \notin Holding
    BY <1>2
  <2>2. \A o \in Made' : Begun(o)' =>
          \/ o \in Made /\ template'[o].mapping = template[o].mapping
          \/ Known(o, template[o].mapping)'
    BY <1>6, <1>7, <1>21
  <2> QED
    BY <1>1, <1>5, <1>20, <2>1, <2>2, MappingsKnown DEF IInv, Grounded
<1>23. BusyBound'
  BY <1>1, BusyMoves
<1>24. Serial'
  <2> SUFFICES ASSUME load = 1
      PROVE  Current(templateReq[sl])' /\ NewestShown' /\ (restarts' = 0 => ProofsShown')
    BY <1>1, SerialMoves
  <2>1. Current(templateReq[sl])'
    BY <1>2, <1>3 DEF Current
  <2>2. NewestShown'
    BY <1>4, <1>6, <1>7 DEF IInv, Serial, NewestShown, Newest
  <2>3. restarts = 0 => \A p \in Drawn : Shows(proof[p], template[proof[p].template])
    BY <1>1, ShownAlone
  <2>4. \A p \in Drawn : proof[p].template \in Made
    BY <1>1 DEF Grounded, ProofsSound, Kempt
  <2> QED
    BY <1>6, <1>7, <2>1, <2>2, <2>3, <2>4 DEF ProofsShown, Shows
<1> QED
  BY <1>5, <1>13, <1>16, <1>17, <1>18, <1>19, <1>22, <1>23, <1>24,
     <1>25 DEF IInv, Grounded

LEMMA CommitCreateStep ==
  ASSUME IInv, NEW sl \in Slot, CommitCreate(sl)
  PROVE  IInv'
<1> PICK q : q = templateReq[sl]
  OBVIOUS
<1>1. q.op = "create" /\ UNCHANGED <<load, snapshot, proof, restarts>> /\ Typed
  BY DEF CommitCreate, IInv
<1>2. PICK t \in Template \ Made :
        /\ template' = [template EXCEPT ![t] =
             [type |-> q.type, active |-> q.active, alone |-> q.active,
              mapping |-> q.mapping, layout |-> q.layout, last |-> 1]]
        /\ GoOn(sl, [op |-> "first", of |-> t, content |-> Content(q)])
  BY DEF CommitCreate
<1> PICK row : row = [type |-> q.type, active |-> q.active, alone |-> q.active,
                      mapping |-> q.mapping, layout |-> q.layout, last |-> 1]
  OBVIOUS
<1> PICK n : n = [op |-> "first", of |-> t, content |-> Content(row)]
  OBVIOUS
<1>3. q \in Creates
  BY <1>1, InFlight, ShapeOf
<1>4. /\ row \in TemplateRow /\ row.last = 1 /\ Content(row) = Content(q)
      /\ row.type = q.type /\ row.active = q.active
  BY <1>3, Fields, Numbers DEF TemplateRow, Content
<1>5. template \in [Template -> TemplateRow \cup {Unmade}] /\ template' = [template EXCEPT ![t] = row]
  BY <1>1, <1>2 DEF Typed, TypeOK
<1>6. AloneBound'
  <2> SUFFICES ASSUME NEW type \in CardType
      PROVE  Cardinality(Alone(type)') + Cardinality(Coming(type)') <= load
    BY <1>1 DEF AloneBound
  <2>1. n.op # "create" /\ GoOn(sl, n)
    BY <1>2, <1>4
  <2>2. Coming(type)' \subseteq Coming(type) \ {sl}
    BY <1>1, <2>1, ComingMoves
  <2>3. CASE q.active /\ type = q.type
    <3>1. Alone(type)' \subseteq Alone(type) \cup {t}
      BY <1>5 DEF Alone, Made
    <3>2. sl \in Coming(type)
      BY <1>1, <2>3 DEF Coming
    <3>3. /\ Cardinality(Coming(type) \ {sl}) = Cardinality(Coming(type)) - 1
          /\ IsFiniteSet(Coming(type) \ {sl})
      BY <3>2, AloneFinite, FS_RemoveElement
    <3>4. /\ Cardinality(Coming(type)') <= Cardinality(Coming(type)) - 1
          /\ Cardinality(Coming(type)') \in Nat
      BY <2>2, <3>3, FS_Subset, FS_CardinalityType
    <3>5. t \notin Alone(type)
      BY DEF Alone
    <3>6. /\ Cardinality(Alone(type) \cup {t}) = Cardinality(Alone(type)) + 1
          /\ IsFiniteSet(Alone(type) \cup {t})
      BY <3>5, AloneFinite, FS_AddElement
    <3>7. /\ Cardinality(Alone(type)') <= Cardinality(Alone(type)) + 1
          /\ Cardinality(Alone(type)') \in Nat
      BY <3>1, <3>6, FS_Subset, FS_CardinalityType
    <3>8. load \in Nat
      BY <1>1, Numbers DEF Typed, TypeOK
    <3> QED
      BY <3>4, <3>7, <3>8, AloneFinite DEF IInv, AloneBound
  <2>4. CASE ~(q.active /\ type = q.type)
    <3>1. Alone(type)' \subseteq Alone(type)
      BY <1>4, <1>5, <2>4 DEF Alone, Made
    <3> QED
      BY <1>1, <2>2, <3>1, AloneFewer DEF IInv
  <2> QED
    BY <2>3, <2>4
<1>7. templateReq[sl].op \in {"create", "copy"} /\ GoOn(sl, n)
  BY <1>1, <1>2, <1>4
<1> QED
  BY <1>1, <1>4, <1>5, <1>6, <1>7, MakeStep

LEMMA CommitCopyStep ==
  ASSUME IInv, NEW sl \in Slot, CommitCopy(sl)
  PROVE  IInv'
<1> PICK q : q = templateReq[sl]
  OBVIOUS
<1>1. q.op = "copy" /\ UNCHANGED <<load, snapshot, proof, restarts>> /\ Typed
  BY DEF CommitCopy, IInv
<1>2. PICK t \in Template \ Made :
        /\ template' = [template EXCEPT ![t] = [q.read EXCEPT !.active = FALSE, !.alone = FALSE, !.last = 1]]
        /\ GoOn(sl, [op |-> "first", of |-> t, content |-> Content(q.read)])
  BY DEF CommitCopy
<1> PICK row : row = [q.read EXCEPT !.active = FALSE, !.alone = FALSE, !.last = 1]
  OBVIOUS
<1> PICK n : n = [op |-> "first", of |-> t, content |-> Content(row)]
  OBVIOUS
<1>3. q \in Holds /\ q.read \in TemplateRow
  BY <1>1, InFlight, ShapeOf, Fields DEF Holding
<1>4. /\ row \in TemplateRow /\ row.last = 1 /\ Content(row) = Content(q.read)
      /\ row.active = FALSE
  BY <1>3, Numbers DEF TemplateRow, Content
<1>5. template \in [Template -> TemplateRow \cup {Unmade}] /\ template' = [template EXCEPT ![t] = row]
  BY <1>1, <1>2 DEF Typed, TypeOK
<1>6. AloneBound'
  <2>1. n.op # "create" /\ GoOn(sl, n)
    BY <1>2, <1>4
  <2>2. \A type \in CardType : Alone(type)' \subseteq Alone(type)
    BY <1>4, <1>5 DEF Alone, Made
  <2> QED
    BY <1>1, <2>1, <2>2, NoneAlone DEF IInv
<1>7. templateReq[sl].op \in {"create", "copy"} /\ GoOn(sl, n)
  BY <1>1, <1>2, <1>4
<1> QED
  BY <1>1, <1>4, <1>5, <1>6, <1>7, MakeStep

LEMMA WriteFirstSnapshotStep ==
  ASSUME IInv, NEW sl \in Slot, WriteFirstSnapshot(sl)
  PROVE  IInv'
<1> PICK q : q = templateReq[sl]
  OBVIOUS
<1>1. /\ q.op = "first" /\ GoOn(sl, Idle) /\ UNCHANGED <<load, template, proof, restarts>>
      /\ snapshot' = [snapshot EXCEPT ![<<q.of, 1>>] = q.content]
      /\ Typed /\ Grounded /\ BusyBound
  BY DEF WriteFirstSnapshot, Finish, IInv
<1>2. q \in Firsts /\ q # Idle /\ Sound(q) /\ Acting(sl)
  BY <1>1, InFlight, ShapeOf
<1>3. /\ q.of \in Made /\ q.of \in Template /\ q.content \in SnapshotRow /\ ~HasFirst(q.of)
      /\ template[q.of].last = 1 => q.content.layout = template[q.of].layout
  BY <1>1, <1>2, Fields DEF Sound
<1> PICK t \in Template : t = q.of
  BY <1>3
<1>4. templateReq'[sl] = Idle /\ \A o \in Slot : o # sl => templateReq'[o] = templateReq[o]
  BY <1>1, OneSlot
<1>5. /\ snapshot' \in [Template \X Version -> SnapshotRow \cup {NoSnapshot}]
      /\ snapshot'[<<t, 1>>] = q.content
      /\ \A o \in Template, v \in Version : o # t \/ v # 1 => snapshot'[<<o, v>>] = snapshot[<<o, v>>]
  BY <1>1, <1>3, Numbers DEF Typed, TypeOK
<1>6. Typed'
  BY <1>1, <1>5, OneSlot, IdleIsIdle DEF Typed, TypeOK
<1>7. Made' = Made /\ Drawn' = Drawn
  BY <1>1 DEF Made, Drawn
<1>8. RowsGrow
  <2>1. \A o \in Made : template[o].last \in Nat
    BY <1>1, MadeRow DEF Made
  <2> QED
    BY <1>1, <1>7, <2>1 DEF RowsGrow
<1>9. SnapshotsStay
  BY <1>3, <1>5 DEF SnapshotsStay, HasFirst
<1>10. /\ HasFirst(t)'
       /\ \A o \in Template : o # t => (HasFirst(o)' <=> HasFirst(o))
  BY <1>3, <1>5, Numbers, SnapshotRows DEF HasFirst
<1>11. \A o \in Slot : templateReq[o].op = "first" /\ templateReq[o].of = t => o = sl
  BY <1>1 DEF Grounded, FirstsApart, Pending
<1>12. Sound(templateReq[sl])'
  BY <1>4, IdleIsIdle DEF Sound, Drawing
<1>13. RequestsSound'
  <2>1. ASSUME NEW o \in Slot, o # sl, templateReq[o].op = "first", HasFirst(templateReq[o].of)'
        PROVE  HasFirst(templateReq[o].of)
    <3>1. templateReq[o].of \in Template /\ templateReq[o].of # t
      BY <1>1, <1>11, <2>1, Shapes, ShapeOf, Fields
    <3> PICK x \in Template : x = templateReq[o].of
      BY <3>1
    <3>2. HasFirst(x)'
      BY <1>4, <2>1 DEF HasFirst
    <3> QED
      BY <1>10, <3>1, <3>2
  <2> QED
    BY <1>1, <1>6, <1>8, <1>9, <1>12, <2>1, RequestsMove DEF Grounded
<1>14. /\ Pending(t)' = {}
       /\ \A o \in Template : o # t => /\ Pending(o)' = Pending(o)
                                      /\ \A x \in Pending(o) : templateReq'[x] = templateReq[x]
  <2>1. \A o \in Slot : o \notin Pending(t)'
    BY <1>4, <1>11, IdleIsIdle DEF Pending
  <2>2. \A y \in Template : y # t => \A o \in Slot : o \in Pending(y)' <=> o \in Pending(y)
    BY <1>4, IdleIsIdle DEF Pending
  <2>3. \A o \in Template : o # t => \A x \in Pending(o) : templateReq'[x] = templateReq[x]
    BY <1>4 DEF Pending
  <2> QED
    BY <2>1, <2>2, <2>3 DEF Pending
<1>15. Grounded'
  <2>1. FirstsApart'
    BY <1>1, <1>14 DEF Grounded, FirstsApart
  <2>2. UnmadeIsEmpty' /\ Gapless'
    BY <1>1, <1>3, <1>5, <1>7 DEF Grounded, UnmadeIsEmpty, Gapless, Made
  <2>4. LayoutsKept'
    <3> SUFFICES ASSUME NEW o \in Made, snapshot'[<<o, template[o].last>>] # NoSnapshot
        PROVE  template[o].layout = snapshot'[<<o, template[o].last>>].layout
      BY <1>1, <1>7 DEF LayoutsKept, Newest
    <3>1. o \in Template /\ template[o].last \in Version
      BY <1>1, MadeRow DEF Made
    <3>2. CASE o = t /\ template[o].last = 1
      BY <1>3, <1>5, <3>2
    <3>3. CASE ~(o = t /\ template[o].last = 1)
      <4>1. snapshot'[<<o, template[o].last>>] = Newest(o)
        BY <1>5, <3>1, <3>3 DEF Newest
      <4> QED
        BY <1>1, <4>1 DEF Grounded, LayoutsKept
    <3> QED
      BY <3>2, <3>3
  <2>3. ProofsSound'
    <3> SUFFICES ASSUME NEW p \in Drawn, proof[p].layout # NoLayout
        PROVE  snapshot'[<<proof[p].template, proof[p].version>>] = Content(proof[p])
      BY <1>1, <1>7 DEF Grounded, ProofsSound, Kempt, Content
    <3>1. /\ proof[p].mapping \in Mapping /\ proof[p].layout \in Layout
          /\ proof[p].version \in Version /\ proof[p].template \in Template
      BY <1>1, DrawnRow DEF Drawn
    <3>2. /\ snapshot[<<proof[p].template, proof[p].version>>] = Content(proof[p])
          /\ Content(proof[p]) # NoSnapshot
      BY <1>1, <3>1, ContentIsRow DEF Grounded, ProofsSound, Kempt
    <3> QED
      BY <1>9, <3>1, <3>2 DEF SnapshotsStay
  <2> QED
    BY <1>13, <2>1, <2>2, <2>3, <2>4 DEF Grounded
<1>16. Begun(t)
  BY <1>1 DEF Begun, Pending
<1>17. \A o \in Template : Begun(o)' => Begun(o)
  BY <1>10, <1>14, <1>16 DEF Begun
<1>18. ASSUME NEW o \in Template, NEW m \in Mapping, Known(o, m)
       PROVE  Known(o, m)'
  <2>1. CASE \E v \in Version : snapshot[<<o, v>>] # NoSnapshot /\ snapshot[<<o, v>>].mapping = m
    BY <1>9, <2>1 DEF SnapshotsStay, Known
  <2>2. CASE \E x \in Pending(o) : templateReq[x].content.mapping = m
    <3>1. CASE o = t
      <4>1. q.content.mapping = m
        BY <1>11, <2>2, <3>1 DEF Pending
      <4>2. snapshot'[<<o, 1>>] # NoSnapshot /\ snapshot'[<<o, 1>>].mapping = m /\ 1 \in Version
        BY <1>3, <1>5, <3>1, <4>1, Numbers, SnapshotRows
      <4> QED
        BY <4>2 DEF Known
    <3>2. CASE o # t
      BY <1>14, <2>2, <3>2 DEF Known
    <3> QED
      BY <3>1, <3>2
  <2> QED
    BY <1>18, <2>1, <2>2 DEF Known
<1>19. RowsKnown' /\ ReadsKnown'
  <2>1. \A o \in Made : o \in Template
    BY DEF Made
  <2>2. Idle.op \notin Holding
    BY IdleIsIdle
  <2>3. \A o \in Made' : o \in Made /\ template'[o].mapping = template[o].mapping
    BY <1>1, <1>7
  <2> QED
    BY <1>1, <1>6, <1>17, <1>18, <2>1, <2>2, <2>3, MappingsKnown DEF IInv, Grounded
<1>20. BusyBound'
  BY <1>1, <1>2, BusyMoves
<1>21. Serial'
  <2> SUFFICES ASSUME load = 1
      PROVE  Current(templateReq[sl])' /\ NewestShown' /\ (restarts' = 0 => ProofsShown')
    BY <1>1, <1>2, SerialMoves
  <2>1. Current(templateReq[sl])'
    BY <1>4, IdleIsIdle DEF Current, Drawing
  <2>2. NewestShown'
    <3> SUFFICES ASSUME NEW o \in Made, template[o].last > 1
        PROVE  template[o].mapping = snapshot'[<<o, template[o].last>>].mapping
      BY <1>1, <1>7 DEF NewestShown, Newest
    <3>1. o \in Template /\ template[o].last \in Version /\ template[o].last # 1
      BY <1>1, MadeRow DEF Made
    <3> QED
      BY <1>5, <3>1 DEF IInv, Serial, NewestShown, Newest
  <2>3. restarts = 0 => \A p \in Drawn : Shows(proof[p], template[proof[p].template])
    BY <1>1, <1>2, ShownAlone DEF Drawing
  <2> QED
    BY <1>1, <1>7, <2>1, <2>2, <2>3 DEF ProofsShown, Shows
<1>22. AloneBound'
  <2>1. \A type \in CardType : Alone(type)' = Alone(type)
    BY <1>1, <1>7 DEF Alone
  <2> QED
    BY <1>1, <2>1, IdleIsIdle, NoneAlone DEF IInv
<1> QED
  BY <1>6, <1>15, <1>19, <1>20, <1>21, <1>22 DEF IInv

----------------------------------------------------------------------------
(* The theorems                                                            *)
LEMMA StutterStep ==
  ASSUME IInv, UNCHANGED vars
  PROVE  IInv'
<1>1. Typed' /\ Made' = Made /\ Drawn' = Drawn /\ Busy' = Busy
  BY DEF vars, IInv, Typed, TypeOK, Made, Drawn, Busy
<1>2. Grounded'
  BY DEF vars, IInv, Grounded, RequestsSound, Sound, HasFirst, DrawnFrom, Drawn, Made,
         FirstsApart, Pending, UnmadeIsEmpty, Gapless, LayoutsKept, Newest, ProofsSound, Kempt
<1>3. RowsKnown' /\ ReadsKnown'
  BY DEF vars, IInv, RowsKnown, ReadsKnown, Begun, Known, HasFirst, Pending, Made
<1>4. BusyBound'
  BY <1>1 DEF vars, IInv, BusyBound
<1>5. Serial'
  BY DEF vars, IInv, Serial, Current, DrawnFrom, Drawn, Made, NewestShown, Newest, ProofsShown, Shows,
         Redrawing
<1>6. AloneBound'
  BY DEF vars, IInv, AloneBound, Alone, Coming, Made
<1> QED
  BY <1>1, <1>2, <1>3, <1>4, <1>5, <1>6 DEF IInv

LEMMA ReadsKeep ==
  ASSUME IInv, NEW sl \in Slot,
         \/ ReadForCopy(sl) \/ ReadForStatus(sl) \/ ReadForMapping(sl)
         \/ ReadForColor(sl) \/ ReadForRebind(sl) \/ ReadForProof(sl)
  PROVE  IInv'
<1>1. CASE ReadForCopy(sl)
  BY <1>1, ReadStep DEF ReadForCopy, Holding
<1>2. CASE ReadForStatus(sl)
  BY <1>2, ReadStep DEF ReadForStatus, Holding
<1>3. CASE ReadForMapping(sl)
  BY <1>3, ReadStep DEF ReadForMapping, Holding
<1>4. CASE ReadForColor(sl)
  BY <1>4, ReadStep DEF ReadForColor, Holding
<1>5. CASE ReadForRebind(sl)
  BY <1>5, ReadStep DEF ReadForRebind, Holding
<1>6. CASE ReadForProof(sl)
  BY <1>6, ReadStep DEF ReadForProof, Holding
<1> QED
  BY <1>1, <1>2, <1>3, <1>4, <1>5, <1>6

LEMMA StepKeeps == IInv /\ [Next]_vars => IInv'
<1> SUFFICES ASSUME IInv, [Next]_vars
    PROVE  IInv'
  OBVIOUS
<1>1. CASE UNCHANGED vars
  BY <1>1, StutterStep
<1>2. CASE ProcessRestart
  BY <1>2, RestartStep
<1>3. ASSUME NEW sl \in Slot, DesignStep(sl)
      PROVE  IInv'
  BY <1>3, BeginCreateStep, CommitCreateStep, CommitCopyStep, WriteFirstSnapshotStep, CommitStatusStep,
     CommitMappingStep, ConflictStep, CommitColorStep, ReadsKeep DEF DesignStep
<1>4. ASSUME NEW sl \in Slot, ProofStep(sl)
      PROVE  IInv'
  BY <1>4, FindProofsStep, DrawProofsStep, FindForRebindStep, RebindStep, CreateProofStep, ReadsKeep
     DEF ProofStep
<1> QED
  BY <1>1, <1>2, <1>3, <1>4 DEF Next

LEMMA Invariance == Spec => []IInv
BY InitHolds, StepKeeps, PTL DEF Spec

(* Whatever the edits in flight, the rows of templates, snapshots and       *)
(* proofs keep the columns of the schema.                                  *)
THEOREM TypeCorrect == Spec => []TypeOK
<1>1. IInv => TypeOK
  BY DEF IInv, Typed
<1> QED
  BY <1>1, Invariance, PTL

(* The unique index on the version and the transactions of the edits keep   *)
(* the snapshots of every template without a gap; whatever overlaps, the    *)
(* newest keeps the layouts the template has, and some snapshot keeps its  *)
(* mapping, the newest if no stale colour profile can bring an older back.  *)
THEOREM SnapshotsStayInStep == Spec => []SnapshotsInStep
<1>1. IInv => SnapshotsInStep
  <2> SUFFICES ASSUME IInv, NEW t \in Made
      PROVE  /\ \A v \in Version \ {1} : snapshot[<<t, v>>] # NoSnapshot <=> v <= template[t].last
             /\ Newest(t) # NoSnapshot => template[t].layout = Newest(t).layout
             /\ HasFirst(t) => \E content \in Kept(t) : content.mapping = template[t].mapping
             /\ load = 1 /\ template[t].last > 1 => template[t].mapping = Newest(t).mapping
    BY DEF SnapshotsInStep
  <2>1. /\ t \in Template /\ template[t].mapping \in Mapping
        /\ template[t].last \in Version /\ template[t].last \in Nat
    BY MadeRow DEF IInv, Made
  <2>2. ASSUME HasFirst(t)
        PROVE  \E content \in Kept(t) : content.mapping = template[t].mapping
    <3>1. Known(t, template[t].mapping)
      BY <2>2 DEF IInv, RowsKnown, Begun
    <3>2. Pending(t) = {}
      BY <2>2 DEF IInv, Grounded, RequestsSound, Sound, Pending
    <3>3. PICK v \in Version :
            snapshot[<<t, v>>] # NoSnapshot /\ snapshot[<<t, v>>].mapping = template[t].mapping
      BY <3>1, <3>2 DEF Known
    <3>4. v \in 1..template[t].last
      <4>1. CASE v = 1
        BY <2>1, <4>1 DEF Version
      <4>2. CASE v # 1
        <5>1. v <= template[t].last
          BY <3>3, <4>2 DEF IInv, Grounded, Gapless
        <5> QED
          BY <2>1, <5>1 DEF Version
      <4> QED
        BY <4>1, <4>2
    <3> QED
      BY <3>3, <3>4 DEF Kept
  <2>3. /\ \A v \in Version \ {1} : snapshot[<<t, v>>] # NoSnapshot <=> v <= template[t].last
        /\ Newest(t) # NoSnapshot => template[t].layout = Newest(t).layout
        /\ load = 1 /\ template[t].last > 1 => template[t].mapping = Newest(t).mapping
    BY DEF IInv, Grounded, Gapless, LayoutsKept, Serial, NewestShown
  <2> QED
    BY <2>2, <2>3
<1> QED
  BY <1>1, Invariance, PTL

(* A proof claims no version ahead of its template and, if it has layouts,  *)
(* shows what the snapshot of its version keeps; one request at a time and *)
(* none cut off, it has the mapping of its template, with its layouts or   *)
(* with those a submission and a rebinding leave out.                      *)
THEOREM ProofsFollow == Spec => []ProofsFollowTemplate
<1>1. IInv => ProofsFollowTemplate
  BY DEF IInv, Grounded, ProofsSound, Kempt, Serial, ProofsShown, Shows, ProofsFollowTemplate
<1> QED
  BY <1>1, Invariance, PTL

(* Overlapping activations of one card type leave at most as many templates  *)
(* active as requests overlap: one, when they do not.                      *)
THEOREM FewActiveTemplates == Spec => []OneActiveTemplate
<1>1. IInv => OneActiveTemplate
  <2> SUFFICES ASSUME IInv, NEW type \in CardType
      PROVE  Cardinality(Alone(type)) <= load
    BY DEF OneActiveTemplate, Alone
  <2>1. load \in Nat /\ Cardinality(Alone(type)) \in Nat /\ Cardinality(Coming(type)) \in Nat
    BY AloneFinite, Numbers DEF IInv, Typed, TypeOK
  <2> QED
    BY <2>1 DEF IInv, AloneBound
<1> QED
  BY <1>1, Invariance, PTL
=============================================================================
