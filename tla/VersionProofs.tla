--------------------------- MODULE VersionProofs ----------------------------
(* Proofs about the two components that number the versions of something:   *)
(* the knowledge packs and the media assets. For the packs: one ACTIVE      *)
(* version, no number twice, at most one late edit, for every number of     *)
(* versions, projects and requests, and without the unique index on the     *)
(* ACTIVE status. A version is activated over its predecessor, which must   *)
(* still be ACTIVE then and stays ARCHIVED; so the released versions form a *)
(* chain, in which a number determines the version (ReleasedUnique) and     *)
(* with it the only place for a successor. For the assets: one current      *)
(* version, nothing served that was not verified, and no version left       *)
(* VERIFYING by a request that is still alive.                              *)
EXTENDS KnowledgePacks, MediaAssets, TLAPS

-----------------------------------------------------------------------------
(* Knowledge packs                                                          *)

\* What a request holds at each of its steps.
LEMMA PackCallFields ==
    ASSUME PackTypeOK, NEW r \in Requests
    PROVE  /\ req[r].pc # "idle" => req[r].pack \in Packs
           /\ req[r].pc \notin {"idle", "assign"} =>
                  /\ req[r] \in [pc : {"update", "remove", "clone", "archiveCount", "archive",
                                       "validate", "count", "activate"},
                                 pack : Packs, seen : Nat]
                  /\ req[r].seen \in Nat
           /\ req[r].pc = "assign" => req[r].project \in Projects
  BY DEF PackTypeOK, PackCall, Idle

\* Only the requests know anything new.
LEMMA RequestMoves ==
    ASSUME PackIInv, NEW r \in Requests, NEW c \in PackCall \cup {Idle},
           UNCHANGED <<pack, late>>, project' \in [Projects -> Packs \cup {None}],
           req' = [req EXCEPT ![r] = c],
           c.pc = "clone" => Released(c.pack) /\ c.seen = pack[c.pack].number,
           c.pc \in {"count", "activate"} =>
               /\ pack[c.pack].status = "DRAFT" /\ Validating(c.pack) \subseteq {r},
           c.pc = "update" => /\ Exists(c.pack) /\ c.seen = pack[c.pack].lock
                              /\ late[c.pack] = 0
    PROVE  PackIInv'
  <1>1. /\ PackTypeOK /\ PackTypeOK'
    BY DEF PackIInv, PackTypeOK
  <1>2. \A q \in Requests : req'[q] = IF q = r THEN c ELSE req[q]
    BY <1>1 DEF PackTypeOK
  <1>3. c.pc # "idle" => c.pack \in Packs
    BY DEF PackCall, Idle
  <1>4. /\ Lineage' /\ RootFirst' /\ Superseded' /\ ReleasedUnique'
        /\ OneActive' /\ NumbersUnique' /\ OneLateEdit'
    BY DEF PackIInv, Lineage, RootFirst, Superseded, ReleasedUnique, OneActive,
           NumbersUnique, OneLateEdit, Released, Live, Exists
  <1>5. CloneKnown'
    BY <1>2 DEF PackIInv, CloneKnown, At, Released
  <1>6. LockHeld'
    <2> SUFFICES ASSUME NEW q \in Requests, req'[q].pc \in {"count", "activate"}
                 PROVE  /\ pack[req'[q].pack].status = "DRAFT"
                        /\ Validating(req[q].pack)' = {q}
      BY DEF LockHeld
    <2>1. CASE q = r
      <3>1. req'[r] = c
        BY <1>2
      <3>2. \A s \in Requests : req'[s].pc \in {"count", "activate"} /\ req'[s].pack = c.pack
                                    => s = r
        BY <1>2, <2>1, <3>1 DEF Validating
      <3> QED
        BY <2>1, <3>1, <3>2 DEF Validating
    <2>2. CASE q # r
      <3>1. /\ req'[q] = req[q] /\ pack[req[q].pack].status = "DRAFT"
            /\ Validating(req[q].pack) = {q}
        BY <1>2, <2>2 DEF PackIInv, LockHeld
      <3>2. c.pc \in {"count", "activate"} => c.pack # req[q].pack
        BY <2>2, <3>1
      <3>3. \A s \in Requests : req'[s].pc \in {"count", "activate"}
                                /\ req'[s].pack = req[q].pack => s = q
        BY <1>2, <3>1, <3>2 DEF Validating
      <3> QED
        BY <3>1, <3>3 DEF Validating
    <2> QED
      BY <2>1, <2>2
  <1>7. EditsKnown'
    BY <1>1, <1>2, <1>3 DEF PackIInv, EditsKnown, At, Exists, Released, PackTypeOK, PackType
  <1> QED
    BY <1>1, <1>4, <1>5, <1>6, <1>7 DEF PackIInv

LEMMA RequestEnds ==
    ASSUME PackIInv, NEW r \in Requests, UNCHANGED <<pack, late>>,
           project' \in [Projects -> Packs \cup {None}], Done(r)
    PROVE  PackIInv'
  <1>1. Idle \in PackCall \cup {Idle} /\ Idle.pc = "idle"
    BY DEF Idle
  <1>2. req' = [req EXCEPT ![r] = Idle]
    BY DEF Done
  <1> HIDE DEF Idle
  <1> QED
    BY <1>1, <1>2, RequestMoves

\* The rows change; a request may end. What the requests know must survive.
LEMMA RowsMove ==
    ASSUME PackIInv, PackTypeOK', UNCHANGED project,
           \A q \in Requests : req'[q] = req[q] \/ req'[q] = Idle,
           \A w \in Packs : /\ Released(w) => Released(w)' /\ pack'[w].number = pack[w].number
                            /\ Exists(w) => Exists(w)',
           \A q \in Requests : req'[q].pc \in {"count", "activate"} =>
               pack'[req[q].pack].status = "DRAFT"
    PROVE  CloneKnown' /\ LockHeld'
  <1>1. CloneKnown'
    <2> SUFFICES ASSUME NEW q \in Requests, req'[q].pc = "clone"
                 PROVE  Released(req[q].pack)' /\ req'[q].seen = pack'[req'[q].pack].number
      BY DEF CloneKnown, At
    <2>1. req'[q] = req[q]
      BY DEF Idle
    <2>2. req[q].pack \in Packs /\ Released(req[q].pack)
          /\ req[q].seen = pack[req[q].pack].number
      BY <2>1, PackCallFields DEF PackIInv, CloneKnown, At
    <2> QED
      BY <2>1, <2>2 DEF Released
  <1>2. LockHeld'
    <2> SUFFICES ASSUME NEW q \in Requests, req'[q].pc \in {"count", "activate"}
                 PROVE  /\ pack'[req'[q].pack].status = "DRAFT"
                        /\ Validating(req[q].pack)' = {q}
      BY DEF LockHeld
    <2>1. req'[q] = req[q]
      BY DEF Idle
    <2>2. Validating(req[q].pack) = {q}
      BY <2>1 DEF PackIInv, LockHeld
    <2>3. \A s \in Requests : req'[s].pc \in {"count", "activate"} => req'[s] = req[s]
      BY DEF Idle
    <2>4. Validating(req[q].pack)' = {q}
      <3>1. \A s \in Requests : req'[s].pc \in {"count", "activate"} /\ req'[s].pack = req[q].pack
                                    => s = q
        BY <2>2, <2>3 DEF Validating
      <3> QED
        BY <2>1, <3>1 DEF Validating
    <2> QED
      BY <2>1, <2>4
  <1> QED
    BY <1>1, <1>2

-----------------------------------------------------------------------------
LEMMA CreateKeeps ==
    ASSUME PackIInv, NEW r \in Requests, Create(r)
    PROVE  PackIInv'
  <1> USE PackAssumption
  <1>1. PackTypeOK /\ pack[Root].status = "NONE" /\ UNCHANGED <<project, req, late>>
    BY DEF PackIInv, Create, Exists
  <1>2. /\ pack'[Root].status = "DRAFT" /\ pack'[Root].number = 1 /\ pack'[Root].pred = None
        /\ pack'[Root].lock = 0 /\ ~pack'[Root].deleted
        /\ \A w \in Packs \ {Root} : pack'[w] = pack[w]
    BY <1>1 DEF Create, PackTypeOK, Unborn
  <1>3. PackTypeOK'
    BY <1>1 DEF Create, PackTypeOK, PackType, Unborn
  <1>4. \A w \in Packs : w # Root => ~Exists(w)
    BY <1>1 DEF PackIInv, RootFirst, Released
  <1>5. /\ Lineage' /\ RootFirst' /\ Superseded' /\ ReleasedUnique'
        /\ OneActive' /\ NumbersUnique' /\ OneLateEdit'
    BY <1>1, <1>2, <1>4
       DEF PackIInv, Lineage, RootFirst, Superseded, ReleasedUnique, OneActive,
           NumbersUnique, OneLateEdit, Released, Live, Exists
  <1>6. \A q \in Requests : req'[q].pc \in {"count", "activate"} =>
            pack'[req[q].pack].status = "DRAFT"
    BY <1>1, <1>2, PackCallFields DEF PackIInv, LockHeld
  <1>7. CloneKnown' /\ LockHeld'
    <2>1. \A w \in Packs : /\ Released(w) => Released(w)' /\ pack'[w].number = pack[w].number
                           /\ Exists(w) => Exists(w)'
      BY <1>1, <1>2 DEF Released, Exists
    <2> QED
      BY <1>1, <1>3, <1>6, <2>1, RowsMove
  <1>8. EditsKnown'
    <2>1. \A v \in Packs : ~Released(v)' => late'[v] = 0
      BY <1>1, <1>2 DEF PackIInv, EditsKnown, Released
    <2>2. ASSUME NEW q \in Requests, req[q].pc = "update"
          PROVE  /\ req[q].pack # Root /\ req[q].pack \in Packs
      BY <1>1, <2>2, PackCallFields DEF PackIInv, EditsKnown, At, Exists
    <2> QED
      BY <1>1, <1>2, <2>1, <2>2 DEF PackIInv, EditsKnown, At, Exists
  <1> QED
    BY <1>3, <1>5, <1>7, <1>8 DEF PackIInv

LEMMA UpdateWriteKeeps ==
    ASSUME PackIInv, NEW r \in Requests, UpdateWrite(r)
    PROVE  PackIInv'
  <1> DEFINE v == req[r].pack
  <1> HIDE DEF v
  <1>1. PackTypeOK /\ v \in Packs /\ req[r].pc = "update"
    BY PackCallFields DEF PackIInv, UpdateWrite, At, v
  <1>2. CASE Rejected(r)
    BY <1>1, <1>2, RequestEnds DEF Rejected, packTables, PackTypeOK
  <1>3. CASE LockMatches(r) /\ Done(r) /\ UNCHANGED project
             /\ pack' = [pack EXCEPT ![v].lock = pack[v].lock + 1]
             /\ late' = IF pack[v].status = "DRAFT" THEN late
                        ELSE [late EXCEPT ![v] = late[v] + 1]
    <2>1. PackTypeOK'
      BY <1>1, <1>3 DEF PackTypeOK, PackType, Done
    <2>2. /\ pack'[v] = [pack[v] EXCEPT !.lock = pack[v].lock + 1]
          /\ pack'[v].lock = pack[v].lock + 1
          /\ \A w \in Packs : /\ pack'[w].status = pack[w].status
                              /\ pack'[w].deleted = pack[w].deleted
                              /\ pack'[w].number = pack[w].number
                              /\ pack'[w].pred = pack[w].pred
                              /\ w # v => pack'[w].lock = pack[w].lock
      BY <1>1, <1>3 DEF PackTypeOK, PackType
    <2>3. /\ Lineage' /\ RootFirst' /\ Superseded' /\ ReleasedUnique'
          /\ OneActive' /\ NumbersUnique'
      <3>1. \A w \in Packs : /\ Released(w)' = Released(w) /\ Exists(w)' = Exists(w)
                             /\ Live(w)' = Live(w)
        BY <2>2 DEF Released, Exists, Live
      <3>2. Lineage'
        BY <2>2, <3>1, PackAssumption DEF PackIInv, Lineage
      <3>3. RootFirst' /\ OneActive'
        BY <2>2, <3>1, PackAssumption DEF PackIInv, RootFirst, OneActive
      <3>4. Superseded'
        BY <2>2, <3>1 DEF PackIInv, Superseded, Lineage, Released, Exists
      <3>5. ReleasedUnique' /\ NumbersUnique'
        BY <2>2, <3>1 DEF PackIInv, ReleasedUnique, NumbersUnique
      <3> QED
        BY <3>2, <3>3, <3>4, <3>5
    <2>4. \A q \in Requests : req'[q] = req[q] \/ req'[q] = Idle
      BY <1>1, <1>3 DEF Done, PackTypeOK
    <2>5. CloneKnown' /\ LockHeld'
      <3>1. \A w \in Packs : /\ Released(w) => Released(w)' /\ pack'[w].number = pack[w].number
                             /\ Exists(w) => Exists(w)'
        BY <2>2 DEF Released, Exists
      <3>2. \A q \in Requests : req'[q].pc \in {"count", "activate"} =>
                pack'[req[q].pack].status = "DRAFT"
        BY <1>1, <2>2, <2>4, PackCallFields DEF PackIInv, LockHeld, Idle
      <3> QED
        BY <1>3, <2>1, <2>4, <3>1, <3>2, RowsMove
    <2>6. late[v] = 0 /\ Exists(v)
      BY <1>1, <1>3 DEF PackIInv, EditsKnown, At, LockMatches, v, PackTypeOK, PackType
    <2>7. \A w \in Packs : late'[w] = IF w = v /\ pack[v].status # "DRAFT" THEN 1 ELSE late[w]
      BY <1>1, <1>3, <2>6 DEF PackTypeOK
    <2>8. OneLateEdit'
      BY <2>7 DEF PackIInv, OneLateEdit
    <2>9. EditsKnown'
      <3>1. \A w \in Packs : ~Released(w)' => late'[w] = 0
        BY <1>1, <2>2, <2>6, <2>7
           DEF PackIInv, EditsKnown, Released, Exists, PackTypeOK, PackType
      <3>2. ASSUME NEW q \in Requests, req'[q].pc = "update"
            PROVE  /\ Exists(req[q].pack)'
                   /\ req'[q].seen <= pack'[req'[q].pack].lock
                   /\ late'[req'[q].pack] # 0 => req'[q].seen < pack'[req'[q].pack].lock
        <4>1. req'[q] = req[q] /\ req[q].pc = "update"
          BY <2>4, <3>2 DEF Idle
        <4>2. req[q].pack \in Packs /\ req[q].seen \in Nat
          BY <1>1, <4>1, PackCallFields
        <4>3. /\ Exists(req[q].pack) /\ req[q].seen <= pack[req[q].pack].lock
              /\ late[req[q].pack] # 0 => req[q].seen < pack[req[q].pack].lock
          BY <4>1 DEF PackIInv, EditsKnown, At
        <4>4. pack[req[q].pack].lock \in Nat
          BY <1>1, <4>2 DEF PackTypeOK, PackType
        <4>5. Exists(req[q].pack)'
          BY <2>2, <4>1, <4>2, <4>3 DEF Exists
        <4>6. CASE req[q].pack = v
          <5>1. pack'[req[q].pack].lock = pack[req[q].pack].lock + 1
            BY <2>2, <4>6
          <5>2. \A m, n \in Nat : m <= n => m <= n + 1 /\ m < n + 1
            OBVIOUS
          <5>3. /\ req[q].seen <= pack[req[q].pack].lock + 1
                /\ req[q].seen < pack[req[q].pack].lock + 1
            BY <4>2, <4>3, <4>4, <5>2
          <5> QED
            BY <4>1, <4>5, <5>1, <5>3
        <4>7. CASE req[q].pack # v
          <5>1. /\ pack'[req[q].pack].lock = pack[req[q].pack].lock
                /\ late'[req[q].pack] = late[req[q].pack]
            BY <2>2, <2>7, <4>2, <4>7
          <5> QED
            BY <4>1, <4>3, <4>5, <5>1
        <4> QED
          BY <4>6, <4>7
      <3> QED
        BY <3>1, <3>2 DEF EditsKnown, At
    <2> QED
      BY <2>1, <2>3, <2>5, <2>8, <2>9 DEF PackIInv
  <1> QED
    BY <1>2, <1>3 DEF UpdateWrite, v

LEMMA RemoveWriteKeeps ==
    ASSUME PackIInv, NEW r \in Requests, RemoveWrite(r)
    PROVE  PackIInv'
  <1> DEFINE v == req[r].pack
  <1> HIDE DEF v
  <1>1. /\ PackTypeOK /\ v \in Packs /\ UNCHANGED <<project, late>> /\ Done(r)
        /\ pack' = [pack EXCEPT ![v].deleted = TRUE]
    BY PackCallFields DEF PackIInv, RemoveWrite, At, v
  <1>2. PackTypeOK'
    BY ZenonT(30), <1>1 DEF PackTypeOK, PackType, Done
  <1>3. \A w \in Packs : /\ pack'[w].status = pack[w].status
                         /\ pack'[w].lock = pack[w].lock
                         /\ pack'[w].number = pack[w].number
                         /\ pack'[w].pred = pack[w].pred
                         /\ pack[w].deleted => pack'[w].deleted
    BY <1>1 DEF PackTypeOK, PackType
  <1>4. \A w \in Packs : /\ Released(w)' = Released(w) /\ Exists(w)' = Exists(w)
                         /\ Live(w)' => Live(w)
    BY <1>3 DEF Released, Exists, Live
  <1>5. Lineage' /\ RootFirst' /\ OneActive' /\ OneLateEdit'
    BY <1>1, <1>3, <1>4, PackAssumption
       DEF PackIInv, Lineage, RootFirst, OneActive, OneLateEdit
  <1>6. Superseded'
    BY <1>3, <1>4 DEF PackIInv, Superseded, Lineage, Released, Exists
  <1>7. ReleasedUnique' /\ NumbersUnique'
    BY <1>3, <1>4 DEF PackIInv, ReleasedUnique, NumbersUnique
  <1>8. \A q \in Requests : req'[q] = req[q] \/ req'[q] = Idle
    BY <1>1 DEF Done, PackTypeOK
  <1>9. \A q \in Requests : req'[q].pc \in {"count", "activate"} =>
            pack'[req[q].pack].status = "DRAFT"
    BY <1>1, <1>3, <1>8, PackCallFields DEF PackIInv, LockHeld, Idle
  <1>10. CloneKnown' /\ LockHeld'
    BY <1>1, <1>2, <1>3, <1>4, <1>8, <1>9, RowsMove
  <1>11. EditsKnown'
    <2>1. ASSUME NEW q \in Requests, req'[q].pc = "update"
          PROVE  /\ Exists(req[q].pack)'
                 /\ req'[q].seen <= pack'[req'[q].pack].lock
                 /\ late'[req'[q].pack] # 0 => req'[q].seen < pack'[req'[q].pack].lock
      <3>1. req'[q] = req[q] /\ req[q].pc = "update" /\ req[q].pack \in Packs
        BY <1>1, <1>8, <2>1, PackCallFields DEF Idle
      <3> QED
        BY <1>1, <1>3, <3>1 DEF PackIInv, EditsKnown, At, Exists
    <2> QED
      BY <1>1, <1>4, <2>1 DEF PackIInv, EditsKnown, At
  <1> QED
    BY <1>2, <1>5, <1>6, <1>7, <1>10, <1>11 DEF PackIInv

LEMMA DraftType ==
    ASSUME NEW p \in Packs, NEW n \in Nat
    PROVE  [Unborn EXCEPT !.status = "DRAFT", !.pred = p, !.number = n + 1] \in PackType
  <1>1. Unborn \in PackType
    BY DEF Unborn, PackType
  <1>2. n + 1 \in Nat
    OBVIOUS
  <1> QED
    BY <1>1, <1>2 DEF PackType

LEMMA CreateVersionInsertKeeps ==
    ASSUME PackIInv, NEW r \in Requests, CreateVersionInsert(r)
    PROVE  PackIInv'
  <1> USE PackAssumption
  <1> DEFINE p == req[r].pack
  <1> HIDE DEF p
  <1>1. /\ PackTypeOK /\ p \in Packs /\ req[r].pc = "clone" /\ req[r].seen \in Nat
        /\ Released(p) /\ req[r].seen = pack[p].number
    BY PackCallFields DEF PackIInv, CreateVersionInsert, CloneKnown, At, p
  <1>2. CASE Rejected(r)
    BY <1>1, <1>2, RequestEnds DEF Rejected, packTables, PackTypeOK
  <1>3. ASSUME SuccessorFree(p), Done(r), UNCHANGED <<project, late>>,
               NEW v \in Packs, ~Exists(v),
               pack' = [pack EXCEPT ![v] = [Unborn EXCEPT !.status = "DRAFT", !.pred = p,
                                                          !.number = req[r].seen + 1]]
        PROVE  PackIInv'
    <2>1. /\ pack'[v].status = "DRAFT" /\ pack'[v].pred = p /\ pack'[v].lock = 0
          /\ pack'[v].number = pack[p].number + 1
          /\ \A w \in Packs \ {v} : pack'[w] = pack[w]
      BY <1>1, <1>3 DEF PackTypeOK, Unborn
    <2>2. PackTypeOK'
      <3>1. [Unborn EXCEPT !.status = "DRAFT", !.pred = p, !.number = req[r].seen + 1] \in PackType
        BY <1>1, DraftType
      <3>2. pack' \in [Packs -> PackType]
        BY <1>1, <1>3, <3>1 DEF PackTypeOK
      <3>3. req' \in [Requests -> PackCall \cup {Idle}]
        BY <1>1, <1>3 DEF PackTypeOK, Done
      <3> QED
        BY <1>1, <1>3, <3>2, <3>3 DEF PackTypeOK
    <2>3. /\ v # p /\ v # Root /\ Released(Root) /\ pack[p].number \in Nat
          /\ pack[p].number >= 1
      BY <1>1, <1>3
         DEF PackIInv, RootFirst, Lineage, Released, Exists, PackTypeOK, PackType
    <2>4. \A w \in Packs : /\ w # v => Released(w)' = Released(w) /\ Live(w)' = Live(w)
                           /\ Exists(w)' = (Exists(w) \/ w = v)
                           /\ Released(w) => w # v /\ Released(w)'
          /\ ~Released(v) /\ ~Released(v)'
      BY <1>3, <2>1 DEF Released, Live, Exists
    <2>5. Lineage'
      <3> SUFFICES ASSUME NEW w \in Packs, Exists(w)'
                   PROVE  /\ pack'[w].number >= 1
                          /\ w = Root => pack'[w].pred = None /\ pack'[w].number = 1
                          /\ w # Root =>
                                /\ pack'[w].pred \in Packs /\ Released(pack[w].pred)'
                                /\ pack'[w].number = pack'[pack'[w].pred].number + 1
        BY DEF Lineage
      <3>1. CASE w = v
        BY <1>1, <2>1, <2>3, <2>4, <3>1 DEF Released
      <3>2. CASE w # v
        <4>1. pack'[w] = pack[w] /\ Exists(w)
          BY <2>1, <2>4, <3>2
        <4>2. w # Root => /\ pack[w].pred \in Packs /\ Released(pack[w].pred)
                          /\ pack[w].number = pack[pack[w].pred].number + 1
          BY <4>1 DEF PackIInv, Lineage
        <4>3. w # Root => pack'[pack[w].pred] = pack[pack[w].pred]
          BY <2>1, <2>4, <4>2
        <4> QED
          BY <4>1, <4>2, <4>3 DEF PackIInv, Lineage, Released
      <3> QED
        BY <3>1, <3>2
    <2>6. RootFirst' /\ OneActive' /\ OneLateEdit'
      BY <1>3, <2>1, <2>3, <2>4 DEF PackIInv, RootFirst, OneActive, OneLateEdit
    <2>7. Superseded'
      BY <2>1, <2>4 DEF PackIInv, Superseded, Lineage, Released, Exists
    <2>8. ReleasedUnique'
      BY <2>1, <2>4 DEF PackIInv, ReleasedUnique
    <2>9. \A w \in Packs : w # v /\ Live(w) => pack[w].number # pack[p].number + 1
      <3> SUFFICES ASSUME NEW w \in Packs, Live(w), pack[w].number = pack[p].number + 1
                   PROVE  FALSE
        OBVIOUS
      <3>1. w # Root
        BY <2>3 DEF PackIInv, Lineage, Live
      <3>2. /\ pack[w].pred \in Packs /\ Released(pack[w].pred)
            /\ pack[w].number = pack[pack[w].pred].number + 1
        BY <3>1 DEF PackIInv, Lineage, Live
      <3>3. pack[pack[w].pred].number = pack[p].number
        BY <1>1, <2>3, <3>2 DEF PackTypeOK, PackType
      <3>4. pack[w].pred = p
        BY <1>1, <3>2, <3>3 DEF PackIInv, ReleasedUnique
      <3> QED
        BY <1>3, <3>4 DEF SuccessorFree
    <2>10. NumbersUnique'
      BY <2>1, <2>4, <2>9 DEF PackIInv, NumbersUnique
    <2>11. \A q \in Requests : req'[q] = req[q] \/ req'[q] = Idle
      BY <1>1, <1>3 DEF Done, PackTypeOK
    <2>12. CloneKnown' /\ LockHeld'
      <3>1. \A w \in Packs : /\ Released(w) => Released(w)' /\ pack'[w].number = pack[w].number
                             /\ Exists(w) => Exists(w)'
        BY <2>1, <2>4
      <3>2. \A q \in Requests : req'[q].pc \in {"count", "activate"} =>
                pack'[req[q].pack].status = "DRAFT"
        BY <1>1, <2>1, <2>11, PackCallFields DEF PackIInv, LockHeld, Idle
      <3> QED
        BY <1>3, <2>2, <2>11, <3>1, <3>2, RowsMove
    <2>13. EditsKnown'
      <3>1. \A w \in Packs : ~Released(w)' => late'[w] = 0
        BY <1>3, <2>4 DEF PackIInv, EditsKnown
      <3>2. ASSUME NEW q \in Requests, req'[q].pc = "update"
            PROVE  /\ Exists(req[q].pack)'
                   /\ req'[q].seen <= pack'[req'[q].pack].lock
                   /\ late'[req'[q].pack] # 0 => req'[q].seen < pack'[req'[q].pack].lock
        <4>1. req'[q] = req[q] /\ req[q].pc = "update" /\ req[q].pack \in Packs
          BY <1>1, <2>11, <3>2, PackCallFields DEF Idle
        <4>2. Exists(req[q].pack)
          BY <4>1 DEF PackIInv, EditsKnown, At
        <4>3. pack'[req[q].pack] = pack[req[q].pack]
          BY <1>3, <2>1, <4>1, <4>2
        <4> QED
          BY <1>3, <4>1, <4>2, <4>3 DEF PackIInv, EditsKnown, At, Exists
      <3> QED
        BY <3>1, <3>2 DEF EditsKnown, At
    <2> QED
      BY <2>2, <2>5, <2>6, <2>7, <2>8, <2>10, <2>12, <2>13 DEF PackIInv
  <1> QED
    BY <1>1, <1>2, <1>3 DEF CreateVersionInsert, p

LEMMA ArchiveWriteKeeps ==
    ASSUME PackIInv, NEW r \in Requests, ArchiveWrite(r)
    PROVE  PackIInv'
  <1> USE PackAssumption
  <1> DEFINE v == req[r].pack
  <1> HIDE DEF v
  <1>1. PackTypeOK /\ v \in Packs
    BY PackCallFields DEF PackIInv, ArchiveWrite, At, v
  <1>2. CASE Rejected(r)
    BY <1>1, <1>2, RequestEnds DEF Rejected, packTables, PackTypeOK
  <1>3. CASE /\ pack[v].status = "ACTIVE" /\ pack' = [pack EXCEPT ![v].status = Archived]
             /\ Done(r) /\ UNCHANGED <<project, late>>
    <2>1. PackTypeOK'
      BY <1>1, <1>3 DEF PackTypeOK, PackType, Archived, Done
    <2>2. /\ pack'[v].status = "ARCHIVED"
          /\ \A w \in Packs : /\ w # v => pack'[w].status = pack[w].status
                              /\ pack'[w].deleted = pack[w].deleted
                              /\ pack'[w].lock = pack[w].lock
                              /\ pack'[w].number = pack[w].number
                              /\ pack'[w].pred = pack[w].pred
      BY <1>1, <1>3 DEF PackTypeOK, PackType, Archived
    <2>3. \A w \in Packs : /\ Released(w)' = Released(w) /\ Exists(w)' = Exists(w)
                           /\ Live(w)' = Live(w)
      BY <1>1, <1>3, <2>2 DEF Released, Exists, Live
    <2>4. Lineage' /\ RootFirst' /\ OneActive' /\ OneLateEdit'
      BY <1>1, <1>3, <2>2, <2>3 DEF PackIInv, Lineage, RootFirst, OneActive, OneLateEdit
    <2>5. Superseded'
      BY <1>1, <2>2, <2>3 DEF PackIInv, Superseded, Lineage, Released, Exists
    <2>6. ReleasedUnique' /\ NumbersUnique'
      BY <2>2, <2>3 DEF PackIInv, ReleasedUnique, NumbersUnique
    <2>7. \A q \in Requests : req'[q] = req[q] \/ req'[q] = Idle
      BY <1>1, <1>3 DEF Done, PackTypeOK
    <2>8. \A q \in Requests : req'[q].pc \in {"count", "activate"} =>
              pack'[req[q].pack].status = "DRAFT"
      BY <1>1, <1>3, <2>2, <2>7, PackCallFields DEF PackIInv, LockHeld, Idle
    <2>9. CloneKnown' /\ LockHeld'
      BY <1>3, <2>1, <2>2, <2>3, <2>7, <2>8, RowsMove
    <2>10. EditsKnown'
      <3>1. ASSUME NEW q \in Requests, req'[q].pc = "update"
            PROVE  /\ Exists(req[q].pack)'
                   /\ req'[q].seen <= pack'[req'[q].pack].lock
                   /\ late'[req'[q].pack] # 0 => req'[q].seen < pack'[req'[q].pack].lock
        <4>1. req'[q] = req[q] /\ req[q].pc = "update" /\ req[q].pack \in Packs
          BY <1>1, <2>7, <3>1, PackCallFields DEF Idle
        <4> QED
          BY <1>3, <2>2, <2>3, <4>1 DEF PackIInv, EditsKnown, At, Exists
      <3> QED
        BY <1>3, <2>3, <3>1 DEF PackIInv, EditsKnown, At
    <2> QED
      BY <2>1, <2>4, <2>5, <2>6, <2>9, <2>10 DEF PackIInv
  <1> QED
    BY <1>2, <1>3 DEF ArchiveWrite, v

\* The step the whole argument is about.
LEMMA ValidateCommitKeeps ==
    ASSUME PackIInv, NEW r \in Requests, ValidateCommit(r)
    PROVE  PackIInv'
  <1> USE PackAssumption
  <1> DEFINE v == req[r].pack
             p == pack[v].pred
  <1> HIDE DEF v, p
  <1>1. /\ PackTypeOK /\ v \in Packs /\ req[r].pc = "activate"
        /\ pack[v].status = "DRAFT" /\ Validating(v) = {r}
    BY PackCallFields DEF PackIInv, LockHeld, ValidateCommit, At, v
  <1>2. CASE Rejected(r)
    BY <1>1, <1>2, RequestEnds DEF Rejected, packTables, PackTypeOK
  <1>3. CASE /\ p # None => StillActive(p)
             /\ pack' = [w \in Packs |-> CASE w = v -> [pack[v] EXCEPT !.status = "ACTIVE"]
                                           [] w = p -> [pack[p] EXCEPT !.status = Archived]
                                           [] OTHER -> pack[w]]
             /\ Done(r) /\ UNCHANGED <<project, late>>
    <2>1. /\ p = None => v = Root
          /\ p # None => /\ v # Root /\ p \in Packs /\ pack[p].status = "ACTIVE" /\ p # v
                         /\ pack[v].number = pack[p].number + 1
      BY <1>1, <1>3 DEF PackIInv, Lineage, Exists, StillActive, p
    <2>2. \A w \in Packs : pack'[w] = IF w = v THEN [pack[v] EXCEPT !.status = "ACTIVE"]
                                      ELSE IF w = p THEN [pack[p] EXCEPT !.status = "ARCHIVED"]
                                      ELSE pack[w]
      BY <1>1, <1>3, <2>1 DEF Archived
    <2>3. PackTypeOK'
      <3>1. \A w \in Packs : pack'[w] \in PackType
        BY <1>1, <2>1, <2>2 DEF PackTypeOK, PackType
      <3>2. pack' \in [Packs -> PackType]
        BY <1>3, <3>1
      <3>3. req' \in [Requests -> PackCall \cup {Idle}]
        BY <1>1, <1>3 DEF PackTypeOK, Done
      <3> QED
        BY <1>1, <1>3, <3>2, <3>3 DEF PackTypeOK
    <2>4. /\ pack'[v].status = "ACTIVE"
          /\ p # None => pack'[p].status = "ARCHIVED"
          /\ \A w \in Packs : /\ w # v /\ w # p => pack'[w].status = pack[w].status
                              /\ pack'[w].deleted = pack[w].deleted
                              /\ pack'[w].lock = pack[w].lock
                              /\ pack'[w].number = pack[w].number
                              /\ pack'[w].pred = pack[w].pred
      BY <1>1, <2>1, <2>2 DEF PackTypeOK, PackType
    <2>5. /\ \A w \in Packs : /\ Released(w)' = (Released(w) \/ w = v)
                              /\ Exists(w)' = Exists(w) /\ Live(w)' = Live(w)
          /\ ~Released(v)
      BY <1>1, <2>1, <2>4 DEF Released, Exists, Live
    <2>6. Lineage'
      BY <2>4, <2>5 DEF PackIInv, Lineage, Released, Exists
    <2>7. RootFirst'
      BY <2>4, <2>5 DEF PackIInv, RootFirst
    <2>8. OneActive'
      <3> SUFFICES ASSUME NEW w \in Packs, w # v, pack'[w].status = "ACTIVE"
                   PROVE  FALSE
        BY <1>1 DEF OneActive
      <3>1. w # p /\ pack[w].status = "ACTIVE"
        BY <2>1, <2>4
      <3> QED
        BY <1>1, <2>1, <3>1 DEF PackIInv, OneActive, RootFirst, Released, Exists
    <2>9. Superseded'
      <3> SUFFICES ASSUME NEW w \in Packs, Released(w)', w # Root
                   PROVE  pack'[pack'[w].pred].status = "ARCHIVED"
        BY <2>4 DEF Superseded, Released
      <3>1. CASE w = v
        BY <2>1, <2>4, <3>1 DEF p
      <3>2. CASE w # v
        <4>1. Released(w) /\ pack[w].pred \in Packs /\ pack[pack[w].pred].status = "ARCHIVED"
          BY <2>5, <3>2 DEF PackIInv, Superseded, Lineage, Released, Exists
        <4>2. pack[w].pred # v /\ pack[w].pred # p
          BY <1>1, <2>1, <4>1
        <4> QED
          BY <2>4, <4>1, <4>2
      <3> QED
        BY <3>1, <3>2
    <2>10. ReleasedUnique'
      <3>1. ASSUME NEW w \in Packs, Released(w), pack[w].number = pack[v].number
            PROVE  FALSE
        <4>1. p # None
          BY <2>1, <2>5, <3>1 DEF PackIInv, RootFirst, Released, Exists
        <4>2. pack[p].number \in Nat /\ pack[p].number >= 1
          BY <1>1, <2>1, <4>1 DEF PackIInv, Lineage, Exists, PackTypeOK, PackType
        <4>3. w # Root
          BY <2>1, <3>1, <4>1, <4>2 DEF PackIInv, Lineage, Released, Exists
        <4>4. /\ pack[w].pred \in Packs /\ Released(pack[w].pred)
              /\ pack[w].number = pack[pack[w].pred].number + 1
          BY <3>1, <4>3 DEF PackIInv, Lineage, Released, Exists
        <4>5. pack[pack[w].pred].number = pack[p].number
          BY SMTT(30), <1>1, <2>1, <3>1, <4>1, <4>2, <4>4 DEF PackTypeOK, PackType
        <4>6. pack[w].pred = p
          BY <2>1, <4>1, <4>4, <4>5 DEF PackIInv, ReleasedUnique, Released
        <4> QED
          BY <2>1, <3>1, <4>1, <4>3, <4>6 DEF PackIInv, Superseded
      <3> SUFFICES ASSUME NEW w \in Packs, NEW x \in Packs, Released(w)', Released(x)',
                          pack[w].number = pack[x].number, w # x
                   PROVE  FALSE
        BY <2>4 DEF ReleasedUnique
      <3>2. CASE w = v \/ x = v
        BY <2>5, <3>1, <3>2
      <3>3. CASE w # v /\ x # v
        BY <2>5, <3>3 DEF PackIInv, ReleasedUnique
      <3> QED
        BY <3>2, <3>3
    <2>11. NumbersUnique' /\ OneLateEdit'
      BY <1>3, <2>4, <2>5 DEF PackIInv, NumbersUnique, OneLateEdit
    <2>12. \A q \in Requests : req'[q] = IF q = r THEN Idle ELSE req[q]
      BY <1>1, <1>3 DEF Done, PackTypeOK
    <2>13. CloneKnown' /\ LockHeld'
      <3>1. ASSUME NEW q \in Requests, req'[q].pc \in {"count", "activate"}
            PROVE  pack'[req[q].pack].status = "DRAFT"
        <4>1. q # r /\ req'[q] = req[q]
          BY <2>12, <3>1 DEF Idle
        <4>2. req[q].pack \in Packs /\ pack[req[q].pack].status = "DRAFT"
              /\ Validating(req[q].pack) = {q}
          BY <1>1, <3>1, <4>1, PackCallFields DEF PackIInv, LockHeld
        <4>3. req[q].pack # v /\ req[q].pack # p
          BY <1>1, <2>1, <4>1, <4>2
        <4> QED
          BY <2>4, <4>2, <4>3
      <3> QED
        BY <1>3, <2>3, <2>4, <2>5, <2>12, <3>1, RowsMove
    <2>14. EditsKnown'
      <3>1. ASSUME NEW q \in Requests, req'[q].pc = "update"
            PROVE  /\ Exists(req[q].pack)'
                   /\ req'[q].seen <= pack'[req'[q].pack].lock
                   /\ late'[req'[q].pack] # 0 => req'[q].seen < pack'[req'[q].pack].lock
        <4>1. req'[q] = req[q] /\ req[q].pc = "update" /\ req[q].pack \in Packs
          BY <1>1, <2>12, <3>1, PackCallFields DEF Idle
        <4> QED
          BY <1>3, <2>4, <2>5, <4>1 DEF PackIInv, EditsKnown, At, Exists
      <3> QED
        BY <1>3, <2>5, <3>1 DEF PackIInv, EditsKnown, At
    <2> QED
      BY <2>3, <2>6, <2>7, <2>8, <2>9, <2>10, <2>11, <2>13, <2>14 DEF PackIInv
  <1> QED
    BY <1>2, <1>3 DEF ValidateCommit, v, p

-----------------------------------------------------------------------------
\* The steps that change no row.
LEMMA ReadKeeps ==
    ASSUME PackIInv, NEW r \in Requests, NEW v \in Packs, PackRead(r, v)
    PROVE  PackIInv'
  <1>1. PackTypeOK /\ pack[v].lock \in Nat /\ pack[v].number \in Nat
    BY DEF PackIInv, PackTypeOK, PackType
  <1>2. ASSUME NEW label \in {"update", "remove", "clone", "archiveCount", "validate"},
               NEW seen \in Nat, Read(r, v, label, seen),
               label = "clone" => Released(v) /\ seen = pack[v].number,
               label = "update" => pack[v].status = "DRAFT" /\ seen = pack[v].lock
        PROVE  PackIInv'
    <2> DEFINE c == [pc |-> label, pack |-> v, seen |-> seen]
    <2>1. /\ c \in PackCall \cup {Idle} /\ c.pc = label /\ c.pack = v /\ c.seen = seen
          /\ req' = [req EXCEPT ![r] = c] /\ UNCHANGED <<pack, project, late>>
          /\ label = "update" => Exists(v) /\ late[v] = 0
      BY <1>2 DEF PackCall, Read, Begin, packTables, PackIInv, EditsKnown, Exists, Released
    <2> HIDE DEF c
    <2> QED
      BY <1>1, <1>2, <2>1, RequestMoves DEF PackTypeOK
  <1>3. CASE \E p \in Projects : AssignRead(r, p, v)
    <2>1. PICK p \in Projects : AssignRead(r, p, v)
      BY <1>3
    <2> DEFINE c == [pc |-> "assign", pack |-> v, project |-> p]
    <2>2. /\ c \in PackCall \cup {Idle} /\ c.pc = "assign"
          /\ req' = [req EXCEPT ![r] = c] /\ UNCHANGED <<pack, project, late>>
      BY <2>1 DEF PackCall, AssignRead, Begin, packTables
    <2> HIDE DEF c
    <2> QED
      BY <1>1, <2>2, RequestMoves DEF PackTypeOK
  <1>4. CASE UpdateRead(r, v)
    BY <1>1, <1>2, <1>4 DEF UpdateRead, EditAllowed
  <1>5. CASE RemoveRead(r, v)
    BY <1>2, <1>5 DEF RemoveRead
  <1>6. CASE CreateVersionRead(r, v)
    BY <1>1, <1>2, <1>6 DEF CreateVersionRead, Released
  <1>7. CASE ArchiveRead(r, v)
    BY <1>2, <1>7 DEF ArchiveRead
  <1>8. CASE ValidateRead(r, v)
    BY <1>2, <1>8 DEF ValidateRead
  <1> QED
    BY <1>3, <1>4, <1>5, <1>6, <1>7, <1>8 DEF PackRead

LEMMA GotoKeeps ==
    ASSUME PackIInv, NEW r \in Requests, NEW label \in {"archive", "count", "activate"},
           req[r].pc \notin {"idle", "assign"}, Goto(r, label), UNCHANGED packTables,
           label # "archive" => /\ pack[req[r].pack].status = "DRAFT"
                                /\ Validating(req[r].pack) \subseteq {r}
    PROVE  PackIInv'
  <1> DEFINE c == [req[r] EXCEPT !.pc = label]
  <1>1. PackTypeOK /\ req[r].pc \notin {"idle", "assign"}
    BY DEF PackIInv
  <1>2. /\ c \in PackCall \cup {Idle} /\ c.pc = label /\ c.pack = req[r].pack
        /\ req' = [req EXCEPT ![r] = c] /\ UNCHANGED <<pack, project, late>>
    BY <1>1, PackCallFields DEF PackCall, Goto, packTables
  <1> HIDE DEF c
  <1> QED
    BY <1>1, <1>2, RequestMoves DEF PackTypeOK

LEMMA WriteKeeps ==
    ASSUME PackIInv, NEW r \in Requests, PackWrite(r)
    PROVE  PackIInv'
  <1>1. PackTypeOK
    BY DEF PackIInv
  <1>2. ASSUME Rejected(r) PROVE PackIInv'
    BY <1>1, <1>2, RequestEnds DEF Rejected, packTables, PackTypeOK
  <1>3. CASE ArchiveCount(r)
    BY <1>2, <1>3, GotoKeeps DEF ArchiveCount, At
  <1>4. CASE ValidateLock(r)
    BY <1>2, <1>4, GotoKeeps DEF ValidateLock, At, Writable, DraftGuard
  <1>5. CASE ValidateCount(r)
    <2>1. pack[req[r].pack].status = "DRAFT" /\ Validating(req[r].pack) \subseteq {r}
      BY <1>5 DEF PackIInv, LockHeld, ValidateCount, At
    <2> QED
      BY <1>2, <1>5, <2>1, GotoKeeps DEF ValidateCount, At
  <1>6. CASE AssignWrite(r)
    <2>1. project' \in [Projects -> Packs \cup {None}]
      BY <1>1, <1>6, PackCallFields DEF AssignWrite, At, PackTypeOK
    <2> QED
      BY <1>6, <2>1, RequestEnds DEF AssignWrite
  <1> QED
    BY <1>3, <1>4, <1>5, <1>6, UpdateWriteKeeps, RemoveWriteKeeps, CreateVersionInsertKeeps,
       ArchiveWriteKeeps, ValidateCommitKeeps DEF PackWrite

LEMMA UnassignKeeps ==
    ASSUME PackIInv, UNCHANGED <<pack, req, late>>,
           project' \in [Projects -> Packs \cup {None}]
    PROVE  PackIInv'
  BY DEF PackIInv, PackTypeOK, Lineage, RootFirst, Superseded, ReleasedUnique, CloneKnown,
         LockHeld, EditsKnown, OneActive, NumbersUnique, OneLateEdit, Released, Live, Exists,
         Validating, At

LEMMA PackInitial == PackInit => PackIInv
  <1> USE PackAssumption
  <1> SUFFICES ASSUME PackInit PROVE PackIInv
    OBVIOUS
  <1>1. \A r \in Requests : req[r].pc = "idle"
    BY DEF PackInit, Idle
  <1>2. \A v \in Packs : ~Exists(v) /\ ~Live(v) /\ ~Released(v) /\ pack[v].status = "NONE"
                         /\ late[v] = 0
    BY DEF PackInit, Unborn, Exists, Live, Released
  <1>3. PackTypeOK
    <2>1. Unborn \in PackType
      BY DEF Unborn, PackType
    <2> QED
      BY <2>1 DEF PackInit, PackTypeOK
  <1>4. /\ Lineage /\ RootFirst /\ Superseded /\ ReleasedUnique /\ CloneKnown
        /\ EditsKnown /\ OneActive /\ NumbersUnique /\ OneLateEdit
    BY <1>1, <1>2
       DEF Lineage, RootFirst, Superseded, ReleasedUnique, CloneKnown, EditsKnown,
           OneActive, NumbersUnique, OneLateEdit, At
  <1>5. LockHeld
    BY <1>1 DEF LockHeld
  <1> QED
    BY <1>3, <1>4, <1>5 DEF PackIInv

LEMMA PackStep == PackIInv /\ [PackNext]_packVars => PackIInv'
  <1> SUFFICES ASSUME PackIInv, [PackNext]_packVars PROVE PackIInv'
    OBVIOUS
  <1>1. PackTypeOK
    BY DEF PackIInv
  <1>2. ASSUME NEW r \in Requests, Abort(r) PROVE PackIInv'
    BY <1>1, <1>2, RequestEnds DEF Abort, Rejected, packTables, PackTypeOK
  <1>3. ASSUME NEW p \in Projects, Unassign(p) PROVE PackIInv'
    BY <1>1, <1>3, UnassignKeeps DEF Unassign, PackTypeOK
  <1>4. CASE UNCHANGED packVars
    BY <1>1, <1>4, UnassignKeeps DEF packVars, packTables, PackTypeOK
  <1> QED
    BY <1>2, <1>3, <1>4, CreateKeeps, ReadKeeps, WriteKeeps DEF PackNext

LEMMA PackInvariant == PackSpec => []PackIInv
  BY PackInitial, PackStep, PTL DEF PackSpec

-----------------------------------------------------------------------------
\* "One Active version per lineage", for every number of requests: the guards
\* of validate keep it without the unique index of the database.
THEOREM PackSpecOneActive == PackSpec => []OneActive
  <1>1. PackIInv => OneActive
    BY DEF PackIInv
  <1> QED
    BY <1>1, PackInvariant, PTL

\* The version numbers that createVersion computes from an old read stay
\* unique among the versions that are not deleted.
THEOREM PackSpecNumbersUnique == PackSpec => []NumbersUnique
  <1>1. PackIInv => NumbersUnique
    BY DEF PackIInv
  <1> QED
    BY <1>1, PackInvariant, PTL

\* Of all the edits under way when a draft is activated, at most one goes through.
THEOREM PackSpecOneLateEdit == PackSpec => []OneLateEdit
  <1>1. PackIInv => OneLateEdit
    BY DEF PackIInv
  <1> QED
    BY <1>1, PackInvariant, PTL

-----------------------------------------------------------------------------
(* Media assets                                                             *)

Row == [status : MediaStatus, attempt : Nat, deleted : BOOLEAN]

-----------------------------------------------------------------------------
(* What the writes do to the rows and the requests                           *)

LEMMA FirstVersion == 1 \in Versions
  BY MediaAssumption DEF Versions

LEMMA MediaCallFields ==
    ASSUME MediaTypeOK, NEW r \in Requests
    PROVE  /\ req[r].pc # "idle" => req[r].version \in Versions
           /\ req[r].pc \in {"verify", "finalize"} => req[r].attempt \in Nat
           /\ req[r].pc = "finalize" => req[r].outcome \in Outcomes
           /\ req[r].pc = "write" => req[r].supersedes \in BOOLEAN
  BY DEF MediaTypeOK, MediaCalls, Idle

LEMMA RequestDone ==
    ASSUME MediaTypeOK, NEW r \in Requests, Done(r)
    PROVE  /\ req' \in [Requests -> MediaCalls \cup {Idle}]
           /\ \A q \in Requests : req'[q] = IF q = r THEN Idle ELSE req[q]
           /\ Idle.pc = "idle"
  BY DEF MediaTypeOK, Done, Idle

LEMMA WithRows ==
    ASSUME MediaTypeOK, NEW n \in Versions, NEW s \in MediaStatus, asset' = With(n, s)
    PROVE  /\ asset' \in [Versions -> Row]
           /\ \A k \in Versions : /\ asset'[k].status = IF k = n THEN s ELSE asset[k].status
                                  /\ asset'[k].attempt = asset[k].attempt
                                  /\ asset'[k].deleted = asset[k].deleted
  BY DEF MediaTypeOK, With, Row

\* A step that starts no verification keeps the others owned, if it ends none
\* without stranding its version.
LEMMA OwnedStays ==
    ASSUME VerificationOwned, stranded \subseteq stranded',
           \A n \in Versions : asset'[n].status = "VERIFYING" =>
               /\ asset[n].status = "VERIFYING" /\ asset'[n].attempt = asset[n].attempt
               /\ \A q \in Requests : /\ req[q].pc \in {"verify", "finalize"}
                                      /\ req[q].version = n
                                      /\ req[q].attempt = asset[n].attempt
                      => \/ n \in stranded'
                         \/ /\ req'[q].pc \in {"verify", "finalize"}
                            /\ req'[q].version = n /\ req'[q].attempt = req[q].attempt
    PROVE  VerificationOwned'
  <1> SUFFICES ASSUME NEW n \in Versions, asset'[n].status = "VERIFYING", n \notin stranded'
               PROVE  \E q \in Requests : /\ req'[q].pc \in {"verify", "finalize"}
                                          /\ req'[q].version = n
                                          /\ req'[q].attempt = asset'[n].attempt
    BY DEF VerificationOwned
  <1>1. PICK q \in Requests : /\ req[q].pc \in {"verify", "finalize"}
                              /\ req[q].version = n /\ req[q].attempt = asset[n].attempt
    BY DEF VerificationOwned
  <1> QED
    BY <1>1

\* The rows stay: only a request moves, and not one that verifies.
LEMMA RowsStay ==
    ASSUME MediaIInv, UNCHANGED mediaTables, NEW r \in Requests,
           req[r].pc \notin {"verify", "finalize"}, asset[1].status # "NONE",
           NEW c \in MediaCalls \cup {Idle}, req' = [req EXCEPT ![r] = c],
           c.pc = "archive" \/ (c.pc = "write" /\ c.supersedes) => c.version \in passed
    PROVE  MediaIInv'
  <1>1. MediaTypeOK /\ UNCHANGED <<asset, passed, stranded>>
    BY DEF MediaIInv, mediaTables
  <1>2. \A q \in Requests : req'[q] = IF q = r THEN c ELSE req[q]
    BY <1>1 DEF MediaTypeOK
  <1>3. MediaTypeOK' /\ Rooted' /\ OneCurrent' /\ ServedWasVerified'
    BY <1>1 DEF MediaIInv, MediaTypeOK, Rooted, OneCurrent, ServedWasVerified
  <1>4. ArchivesVerified'
    BY <1>1, <1>2 DEF MediaIInv, ArchivesVerified, At
  <1>5. VerificationOwned'
    BY <1>1, <1>2, OwnedStays DEF MediaIInv
  <1> QED
    BY <1>3, <1>4, <1>5 DEF MediaIInv

LEMMA AnsweredKeeps ==
    ASSUME MediaIInv, NEW r \in Requests, Answered(r),
           req[r].pc \notin {"verify", "finalize", "idle"}
    PROVE  MediaIInv'
  <1>1. Idle \in MediaCalls \cup {Idle} /\ Idle.pc = "idle"
    BY DEF Idle
  <1>2. req' = [req EXCEPT ![r] = Idle] /\ UNCHANGED mediaTables
    BY DEF Answered, Done
  <1>3. asset[1].status # "NONE"
    BY DEF MediaIInv, Rooted, At
  <1> HIDE DEF Idle
  <1> QED
    BY <1>1, <1>2, <1>3, RowsStay

-----------------------------------------------------------------------------
(* Upload intents and the first version of the writer                        *)

LEMMA IntentKeeps ==
    ASSUME MediaIInv, NEW n \in Versions, asset[n].status = "NONE",
           asset' = With(n, "PENDING_UPLOAD"), UNCHANGED <<req, passed, stranded>>,
           n # 1 => asset[1].status # "NONE"
    PROVE  MediaIInv'
  <1>1. MediaTypeOK
    BY DEF MediaIInv
  <1>2. /\ asset' \in [Versions -> Row]
        /\ \A k \in Versions :
               /\ asset'[k].status = IF k = n THEN "PENDING_UPLOAD" ELSE asset[k].status
               /\ asset'[k].attempt = asset[k].attempt /\ asset'[k].deleted = asset[k].deleted
    BY <1>1, WithRows DEF MediaStatus
  <1>3. MediaTypeOK'
    BY <1>1, <1>2 DEF MediaTypeOK, Row
  <1>4. Rooted'
    BY <1>2, FirstVersion DEF MediaIInv, Rooted
  <1>5. ArchivesVerified' /\ OneCurrent' /\ ServedWasVerified'
    BY <1>2 DEF MediaIInv, ArchivesVerified, OneCurrent, ServedWasVerified, At
  <1>6. VerificationOwned'
    BY <1>2, OwnedStays DEF MediaIInv
  <1> QED
    BY <1>3, <1>4, <1>5, <1>6 DEF MediaIInv

LEMMA WriterFirstKeeps == ASSUME MediaIInv, WriterFirst PROVE MediaIInv'
  <1>1. MediaTypeOK /\ 1 \in Versions
    BY FirstVersion DEF MediaIInv
  <1>2. /\ \A k \in Versions : asset[k].status = "NONE"
        /\ \A q \in Requests : req[q].pc = "idle"
        /\ passed' = {1} /\ UNCHANGED <<req, stranded>>
    BY DEF MediaIInv, Rooted, WriterFirst, At
  <1>3. /\ asset' \in [Versions -> Row]
        /\ \A k \in Versions : asset'[k].status = IF k = 1 THEN "ACTIVE" ELSE "NONE"
    BY <1>1, <1>2, WithRows DEF MediaStatus, WriterFirst
  <1>4. MediaTypeOK'
    BY <1>1, <1>2, <1>3 DEF MediaTypeOK, Row
  <1>5. /\ Rooted' /\ ArchivesVerified' /\ OneCurrent' /\ ServedWasVerified'
        /\ VerificationOwned'
    BY <1>1, <1>2, <1>3
       DEF Rooted, ArchivesVerified, OneCurrent, ServedWasVerified, VerificationOwned, At
  <1> QED
    BY <1>4, <1>5 DEF MediaIInv

-----------------------------------------------------------------------------
(* Verification                                                              *)

LEMMA ClaimKeeps ==
    ASSUME MediaIInv, NEW r \in Requests, NEW n \in Versions,
           NEW from \in {"PENDING_UPLOAD", "VERIFICATION_FAILED"},
           ClaimForVerification(r, n, from)
    PROVE  MediaIInv'
  <1> DEFINE c == [pc |-> "verify", version |-> n, attempt |-> asset[n].attempt + 1]
  <1>1. /\ MediaTypeOK /\ asset[n].attempt \in Nat /\ UNCHANGED <<passed, stranded>>
        /\ asset[n].status = from /\ req[r].pc = "idle" /\ asset[1].status # "NONE"
    BY DEF MediaIInv, MediaTypeOK, ClaimForVerification, Begin, At, Rooted
  <1>2. /\ asset' \in [Versions -> Row]
        /\ asset'[n].status = "VERIFYING" /\ asset'[n].attempt = asset[n].attempt + 1
        /\ \A k \in Versions \ {n} : asset'[k] = asset[k]
    BY <1>1 DEF ClaimForVerification, MediaTypeOK, MediaStatus, Row
  <1>3. /\ req' \in [Requests -> MediaCalls \cup {Idle}]
        /\ \A q \in Requests : req'[q] = IF q = r THEN c ELSE req[q]
    BY <1>1 DEF ClaimForVerification, Begin, MediaTypeOK, MediaCalls
  <1>4. MediaTypeOK'
    BY <1>1, <1>2, <1>3 DEF MediaTypeOK, Row
  <1>5. Rooted' /\ OneCurrent' /\ ServedWasVerified'
    BY <1>1, <1>2, FirstVersion DEF MediaIInv, Rooted, OneCurrent, ServedWasVerified
  <1>6. ArchivesVerified'
    BY <1>1, <1>3 DEF MediaIInv, ArchivesVerified, At
  <1>7. VerificationOwned'
    <2> SUFFICES ASSUME NEW k \in Versions, asset'[k].status = "VERIFYING", k \notin stranded
                 PROVE  \E q \in Requests : /\ req'[q].pc \in {"verify", "finalize"}
                                            /\ req'[q].version = k
                                            /\ req'[q].attempt = asset'[k].attempt
      BY <1>1 DEF VerificationOwned
    <2>1. CASE k = n
      BY <1>2, <1>3, <2>1
    <2>2. CASE k # n
      <3>1. PICK q \in Requests : /\ req[q].pc \in {"verify", "finalize"}
                                  /\ req[q].version = k /\ req[q].attempt = asset[k].attempt
        BY <1>2, <2>2 DEF MediaIInv, VerificationOwned
      <3> QED
        BY <1>1, <1>2, <1>3, <2>2, <3>1
    <2> QED
      BY <2>1, <2>2
  <1> QED
    BY <1>4, <1>5, <1>6, <1>7 DEF MediaIInv

LEMMA RunOutsideKeeps ==
    ASSUME MediaIInv, NEW r \in Requests, RunOutsideVerification(r)
    PROVE  MediaIInv'
  <1>1. /\ MediaTypeOK /\ req[r].pc = "verify" /\ UNCHANGED <<asset, passed, stranded>>
        /\ req[r].version \in Versions /\ req[r].attempt \in Nat
    BY MediaCallFields DEF MediaIInv, RunOutsideVerification, At, mediaTables
  <1>2. PICK o \in Outcomes :
            req' = [req EXCEPT ![r] = [pc |-> "finalize", version |-> req[r].version,
                                       attempt |-> req[r].attempt, outcome |-> o]]
    BY DEF RunOutsideVerification
  <1> DEFINE c == [pc |-> "finalize", version |-> req[r].version,
                   attempt |-> req[r].attempt, outcome |-> o]
  <1>3. /\ req' \in [Requests -> MediaCalls \cup {Idle}]
        /\ \A q \in Requests : req'[q] = IF q = r THEN c ELSE req[q]
    BY <1>1, <1>2 DEF MediaTypeOK, MediaCalls
  <1>4. MediaTypeOK' /\ OneCurrent' /\ ServedWasVerified'
    BY <1>1, <1>3 DEF MediaIInv, MediaTypeOK, OneCurrent, ServedWasVerified
  <1>5. Rooted' /\ ArchivesVerified'
    BY <1>1, <1>3 DEF MediaIInv, Rooted, ArchivesVerified, At
  <1>6. VerificationOwned'
    BY <1>1, <1>3, OwnedStays DEF MediaIInv
  <1> QED
    BY <1>4, <1>5, <1>6 DEF MediaIInv

\* One version was VERIFYING under this request and no longer is, or it is
\* another's by now, or it is stranded; the rest is unchanged.
LEMMA EndsVerification ==
    ASSUME MediaIInv, NEW r \in Requests, Done(r), req[r].pc \in {"verify", "finalize"},
           stranded \subseteq stranded', stranded' \subseteq Versions,
           \A k \in Versions : asset'[k].status = "VERIFYING" =>
               asset[k].status = "VERIFYING" /\ asset'[k].attempt = asset[k].attempt,
           LET n == req[r].version
           IN  asset'[n].status # "VERIFYING" \/ asset[n].attempt # req[r].attempt
               \/ n \in stranded'
    PROVE  VerificationOwned'
  <1>1. MediaTypeOK
    BY DEF MediaIInv
  <1>2. \A q \in Requests : q # r => req'[q] = req[q]
    BY <1>1, RequestDone
  <1> QED
    BY <1>2, OwnedStays DEF MediaIInv

LEMMA FinalizeKeeps ==
    ASSUME MediaIInv, NEW r \in Requests, FinalizeVerification(r)
    PROVE  MediaIInv'
  <1> DEFINE n == req[r].version
             o == req[r].outcome
             fenced == asset[n].status # "VERIFYING" \/ asset[n].attempt # req[r].attempt
             current == n > 1 => asset[Replaced(n)].status = "ACTIVE"
  <1>1. /\ MediaTypeOK /\ req[r].pc = "finalize" /\ Done(r)
        /\ n \in Versions /\ asset[1].status # "NONE"
    BY MediaCallFields DEF MediaIInv, FinalizeVerification, At, Rooted
  <1>2. /\ req' \in [Requests -> MediaCalls \cup {Idle}]
        /\ \A q \in Requests : req'[q].pc # "idle" => req'[q] = req[q]
    BY <1>1, RequestDone
  <1>3. CASE fenced /\ UNCHANGED mediaTables
    <2>1. UNCHANGED <<asset, passed, stranded>>
      BY <1>3 DEF mediaTables
    <2>2. MediaTypeOK' /\ Rooted' /\ OneCurrent' /\ ServedWasVerified' /\ ArchivesVerified'
      BY <1>1, <1>2, <2>1
         DEF MediaIInv, MediaTypeOK, Rooted, OneCurrent, ServedWasVerified,
             ArchivesVerified, At
    <2>3. asset'[n].status # "VERIFYING" \/ asset[n].attempt # req[r].attempt
      BY <1>3, <2>1
    <2>4. VerificationOwned'
      BY <1>1, <2>1, <2>3, EndsVerification DEF MediaTypeOK
    <2> QED
      BY <2>2, <2>4 DEF MediaIInv
  <1>4. CASE /\ ~fenced /\ current /\ ActiveIndex(Activated(n))
             /\ asset' = Activated(n) /\ passed' = passed \cup {n} /\ UNCHANGED stranded
    <2>1. /\ \A k \in Versions : asset'[k] \in Row
          /\ asset'[n].status = "ACTIVE"
          /\ \A k \in Versions \ {n} :
                \/ asset'[k] = asset[k]
                \/ k = Replaced(n) /\ asset'[k].status = "ARCHIVED"
      BY SMTT(30), <1>1, <1>4 DEF Activated, MediaTypeOK, MediaStatus, Row, Replaced, Versions
    <2>2. asset' \in [Versions -> Row]
      BY <1>4, <2>1 DEF Activated
    <2>3. MediaTypeOK'
      BY <1>1, <1>2, <1>4, <2>2 DEF MediaTypeOK, Row
    <2>4. OneCurrent'
      BY <1>4 DEF ActiveIndex, OneCurrent
    <2>5. Rooted'
      BY <1>1, <2>1, FirstVersion DEF Rooted
    <2>6. ServedWasVerified'
      <3>1. \A k \in Versions \ {n} : k = Replaced(n) => n > 1 /\ asset[k].status = "ACTIVE"
        BY <1>1, <1>4, MediaAssumption DEF Replaced, Versions
      <3> QED
        BY <1>4, <2>1, <3>1 DEF MediaIInv, ServedWasVerified
    <2>7. ArchivesVerified'
      BY <1>2, <1>4 DEF MediaIInv, ArchivesVerified, At
    <2>8. VerificationOwned'
      <3>1. \A k \in Versions : asset'[k].status = "VERIFYING" =>
                asset[k].status = "VERIFYING" /\ asset'[k].attempt = asset[k].attempt
        BY <2>1
      <3>2. stranded' = stranded /\ stranded \subseteq Versions
        BY <1>1, <1>4 DEF MediaTypeOK
      <3> QED
        BY <1>1, <2>1, <3>1, <3>2, EndsVerification
    <2> QED
      BY <2>3, <2>4, <2>5, <2>6, <2>7, <2>8 DEF MediaIInv
  <1>5. ASSUME NEW s \in {"REJECTED", "QUARANTINED", "VERIFICATION_FAILED"},
               asset' = With(n, s), UNCHANGED <<passed, stranded>>
        PROVE  MediaIInv'
    <2>1. /\ asset' \in [Versions -> Row]
          /\ \A k \in Versions : /\ asset'[k].status = IF k = n THEN s ELSE asset[k].status
                                 /\ asset'[k].attempt = asset[k].attempt
                                 /\ asset'[k].deleted = asset[k].deleted
      BY <1>1, <1>5, WithRows DEF MediaStatus
    <2>2. MediaTypeOK'
      BY <1>1, <1>2, <1>5, <2>1 DEF MediaTypeOK, Row
    <2>3. Rooted' /\ OneCurrent' /\ ServedWasVerified'
      BY <1>1, <1>5, <2>1, FirstVersion DEF MediaIInv, Rooted, OneCurrent, ServedWasVerified
    <2>4. ArchivesVerified'
      BY <1>2, <1>5 DEF MediaIInv, ArchivesVerified, At
    <2>5. VerificationOwned'
      <3>1. asset'[n].status # "VERIFYING" /\ stranded' = stranded /\ stranded \subseteq Versions
        BY <1>1, <1>5, <2>1 DEF MediaTypeOK
      <3> QED
        BY <1>1, <2>1, <3>1, EndsVerification
    <2> QED
      BY <2>2, <2>3, <2>4, <2>5 DEF MediaIInv
  <1>6. CASE stranded' = stranded \cup {n} /\ UNCHANGED <<asset, passed>>
    <2>1. MediaTypeOK' /\ Rooted' /\ OneCurrent' /\ ServedWasVerified' /\ ArchivesVerified'
      BY <1>1, <1>2, <1>6
         DEF MediaIInv, MediaTypeOK, Rooted, OneCurrent, ServedWasVerified,
             ArchivesVerified, At
    <2>2. VerificationOwned'
      <3>1. stranded \subseteq stranded' /\ stranded' \subseteq Versions /\ n \in stranded'
        BY <1>1, <1>6 DEF MediaTypeOK
      <3> QED
        BY <1>1, <1>6, <3>1, EndsVerification
    <2> QED
      BY <2>1, <2>2 DEF MediaIInv
  <1> QED
    BY <1>1, <1>3, <1>4, <1>5, <1>6 DEF FinalizeVerification, StatusAfter

-----------------------------------------------------------------------------
(* Writes by id, restores and the writer                                     *)

\* A write over one version by a request that verifies nothing.
LEMMA OverwriteKeeps ==
    ASSUME MediaIInv, NEW r \in Requests, Done(r), UNCHANGED <<passed, stranded>>,
           req[r].pc \notin {"idle", "verify", "finalize"},
           asset' \in [Versions -> Row], NEW n \in Versions,
           \A k \in Versions \ {n} : asset'[k] = asset[k],
           asset'[n].status \notin {"NONE", "VERIFYING"},
           asset'[n].status \in {"ACTIVE", "ARCHIVED"} => n \in passed,
           OneCurrent'
    PROVE  MediaIInv'
  <1>1. MediaTypeOK /\ asset[1].status # "NONE"
    BY DEF MediaIInv, Rooted, At
  <1>2. /\ req' \in [Requests -> MediaCalls \cup {Idle}]
        /\ \A q \in Requests : req'[q] = IF q = r THEN Idle ELSE req[q]
        /\ Idle.pc = "idle"
    BY <1>1, RequestDone
  <1>3. MediaTypeOK'
    BY <1>1, <1>2 DEF MediaTypeOK, Row
  <1>4. Rooted' /\ ServedWasVerified'
    BY <1>1, FirstVersion DEF MediaIInv, Rooted, ServedWasVerified
  <1>5. ArchivesVerified'
    BY <1>2 DEF MediaIInv, ArchivesVerified, At
  <1>6. VerificationOwned'
    BY <1>2, OwnedStays DEF MediaIInv
  <1> QED
    BY <1>3, <1>4, <1>5, <1>6 DEF MediaIInv

LEMMA ByIdKeeps ==
    ASSUME MediaIInv, NEW r \in Requests,
           ArchiveAssetWrite(r) \/ SoftDeleteWrite(r) \/ RestoreWrite(r)
    PROVE  MediaIInv'
  <1> DEFINE n == req[r].version
  <1>1. /\ MediaTypeOK /\ n \in Versions /\ req[r].pc \notin {"idle", "verify", "finalize"}
        /\ req[r].pc = "archive" => n \in passed
    BY MediaCallFields
       DEF MediaIInv, ArchivesVerified, At, ArchiveAssetWrite, SoftDeleteWrite, RestoreWrite
  <1>2. CASE ArchiveAssetWrite(r)
    <2>1. asset' = With(n, "ARCHIVED") /\ Done(r) /\ UNCHANGED <<passed, stranded>> /\ n \in passed
      BY <1>1, <1>2 DEF ArchiveAssetWrite, At
    <2>2. /\ asset' \in [Versions -> Row] /\ asset'[n].status = "ARCHIVED"
          /\ \A k \in Versions \ {n} : asset'[k] = asset[k]
      <3>1. asset' \in [Versions -> Row] /\ asset'[n].status = "ARCHIVED"
        BY <1>1, <2>1, WithRows DEF MediaStatus
      <3>2. \A k \in Versions \ {n} : asset'[k] = asset[k]
        BY <1>1, <2>1 DEF With, MediaTypeOK
      <3> QED
        BY <3>1, <3>2
    <2>3. OneCurrent'
      BY <2>2 DEF MediaIInv, OneCurrent
    <2> QED
      BY <1>1, <2>1, <2>2, <2>3, OverwriteKeeps
  <1>3. CASE SoftDeleteWrite(r)
    <2>1. /\ asset' \in [Versions -> Row] /\ asset'[n].status = "DELETED"
          /\ \A k \in Versions \ {n} : asset'[k] = asset[k]
          /\ Done(r) /\ UNCHANGED <<passed, stranded>>
      BY <1>1, <1>3 DEF SoftDeleteWrite, MediaTypeOK, MediaStatus, Row
    <2>2. OneCurrent'
      BY <2>1 DEF MediaIInv, OneCurrent
    <2> QED
      BY <1>1, <2>1, <2>2, OverwriteKeeps
  <1>4. CASE RestoreWrite(r)
    <2>1. CASE /\ Restorable(n) /\ ActiveIndex(With(n, "ACTIVE")) /\ asset' = With(n, "ACTIVE")
               /\ Done(r) /\ UNCHANGED <<passed, stranded>>
      <3>1. /\ asset' \in [Versions -> Row] /\ asset'[n].status = "ACTIVE"
            /\ \A k \in Versions \ {n} : asset'[k] = asset[k]
        <4>1. asset' \in [Versions -> Row] /\ asset'[n].status = "ACTIVE"
          BY <1>1, <2>1, WithRows DEF MediaStatus
        <4>2. \A k \in Versions \ {n} : asset'[k] = asset[k]
          BY <1>1, <2>1 DEF With, MediaTypeOK
        <4> QED
          BY <4>1, <4>2
      <3>2. n \in passed
        BY <1>1, <2>1 DEF MediaIInv, ServedWasVerified, Restorable
      <3>3. OneCurrent'
        BY <2>1 DEF ActiveIndex, OneCurrent
      <3> QED
        BY <1>1, <2>1, <3>1, <3>2, <3>3, OverwriteKeeps
    <2>2. CASE Answered(r)
      BY <1>1, <2>2, AnsweredKeeps
    <2> QED
      BY <1>4, <2>1, <2>2 DEF RestoreWrite
  <1> QED
    BY <1>2, <1>3, <1>4

LEMMA WriterWriteKeeps ==
    ASSUME MediaIInv, NEW r \in Requests, WriterWrite(r)
    PROVE  MediaIInv'
  <1> DEFINE n == req[r].version
  <1>1. /\ MediaTypeOK /\ n \in Versions /\ req[r].pc = "write"
        /\ asset[1].status # "NONE"
        /\ req[r].supersedes \in BOOLEAN /\ (req[r].supersedes => n \in passed)
    BY MediaCallFields DEF MediaIInv, ArchivesVerified, Rooted, At, WriterWrite
  <1>2. CASE Answered(r)
    BY <1>1, <1>2, AnsweredKeeps
  <1>3. CASE /\ NumberFree(n + 1) /\ ActiveIndex(Written(n, req[r].supersedes))
             /\ asset' = Written(n, req[r].supersedes) /\ passed' = passed \cup {n + 1}
             /\ Done(r) /\ UNCHANGED stranded
    <2>1. n + 1 \in Versions /\ n # n + 1
      BY <1>1, <1>3 DEF NumberFree, Versions
    <2>2. [NoAsset EXCEPT !.status = "ACTIVE"] \in Row
          /\ [NoAsset EXCEPT !.status = "ACTIVE"].status = "ACTIVE"
      <3>1. NoAsset \in Row
        BY DEF NoAsset, Row, MediaStatus
      <3> QED
        BY <3>1 DEF Row, MediaStatus
    <2>3. /\ \A k \in Versions : asset'[k] \in Row
          /\ asset'[n + 1].status = "ACTIVE"
          /\ \A k \in Versions \ {n + 1} :
                \/ asset'[k] = asset[k]
                \/ k = n /\ req[r].supersedes /\ asset'[k].status = "ARCHIVED"
      BY <1>1, <1>3, <2>1, <2>2 DEF Written, MediaTypeOK, MediaStatus, Row
    <2>4. asset' \in [Versions -> Row]
      BY <1>3, <2>3 DEF Written
    <2>5. /\ req' \in [Requests -> MediaCalls \cup {Idle}]
          /\ \A q \in Requests : req'[q] = IF q = r THEN Idle ELSE req[q]
          /\ Idle.pc = "idle"
      BY <1>1, <1>3, RequestDone
    <2>6. MediaTypeOK'
      BY <1>1, <1>3, <2>1, <2>4, <2>5 DEF MediaTypeOK, Row
    <2>7. OneCurrent'
      BY <1>3 DEF ActiveIndex, OneCurrent
    <2>8. Rooted'
      BY <1>1, <2>3, FirstVersion DEF Rooted
    <2>9. ServedWasVerified'
      BY <1>1, <1>3, <2>3 DEF MediaIInv, ServedWasVerified
    <2>10. ArchivesVerified'
      BY <1>3, <2>5 DEF MediaIInv, ArchivesVerified, At
    <2>11. VerificationOwned'
      BY <1>1, <1>3, <2>3, <2>5, OwnedStays DEF MediaIInv
    <2> QED
      BY <2>6, <2>7, <2>8, <2>9, <2>10, <2>11 DEF MediaIInv
  <1> QED
    BY <1>2, <1>3 DEF WriterWrite

\* What a request begins with: it starts from a version that exists.
LEMMA LookKeeps ==
    ASSUME MediaIInv, NEW r \in Requests, NEW n \in Versions,
           \/ ArchiveAssetRead(r, n) \/ SoftDeleteRead(r, n)
           \/ RestoreScan(r, n) \/ WriterRead(r, n)
    PROVE  MediaIInv'
  <1>1. /\ MediaTypeOK /\ asset[1].status # "NONE" /\ req[r].pc = "idle"
        /\ UNCHANGED mediaTables
    BY DEF MediaIInv, Rooted, ArchiveAssetRead, SoftDeleteRead, RestoreScan, WriterRead,
           Latest, Look, Begin, At, Undeletable
  <1>2. ASSUME NEW c \in MediaCalls \cup {Idle}, req' = [req EXCEPT ![r] = c],
               c.pc = "archive" \/ (c.pc = "write" /\ c.supersedes) => c.version \in passed
        PROVE  MediaIInv'
    BY <1>1, <1>2, RowsStay
  <1>3. CASE ArchiveAssetRead(r, n)
    <2> DEFINE c == [pc |-> "archive", version |-> n]
    <2>1. /\ c \in MediaCalls \cup {Idle} /\ req' = [req EXCEPT ![r] = c]
          /\ c.pc = "archive" /\ c.version \in passed
      BY <1>3 DEF ArchiveAssetRead, Look, Begin, MediaCalls, MediaIInv, ServedWasVerified
    <2> HIDE DEF c
    <2> QED
      BY <1>2, <2>1
  <1>4. CASE SoftDeleteRead(r, n)
    <2> DEFINE c == [pc |-> "delete", version |-> n]
    <2>1. c \in MediaCalls \cup {Idle} /\ req' = [req EXCEPT ![r] = c] /\ c.pc = "delete"
      BY <1>4 DEF SoftDeleteRead, Look, Begin, MediaCalls
    <2> HIDE DEF c
    <2> QED
      BY <1>2, <2>1
  <1>5. CASE RestoreScan(r, n)
    <2> DEFINE c == [pc |-> "restore", version |-> n,
                     found |-> {k \in Versions : asset[k].status = "ACTIVE"} \ {n}]
    <2>1. c \in MediaCalls \cup {Idle} /\ req' = [req EXCEPT ![r] = c] /\ c.pc = "restore"
      BY <1>5 DEF RestoreScan, Begin, MediaCalls
    <2> HIDE DEF c
    <2> QED
      BY <1>2, <2>1
  <1>6. CASE WriterRead(r, n)
    <2> DEFINE c == [pc |-> "write", version |-> n,
                     supersedes |-> asset[n].status = "ACTIVE"]
    <2>1. /\ c \in MediaCalls \cup {Idle} /\ req' = [req EXCEPT ![r] = c] /\ c.pc = "write"
          /\ c.version = n /\ (c.supersedes => asset[n].status = "ACTIVE")
      BY <1>6 DEF WriterRead, Begin, MediaCalls
    <2>2. c.supersedes => c.version \in passed
      BY <2>1 DEF MediaIInv, ServedWasVerified
    <2> HIDE DEF c
    <2> QED
      BY <1>2, <2>1, <2>2
  <1> QED
    BY <1>3, <1>4, <1>5, <1>6

LEMMA MediaAbortKeeps ==
    ASSUME MediaIInv, NEW r \in Requests, MediaAbort(r)
    PROVE  MediaIInv'
  <1>1. /\ MediaTypeOK /\ req[r].pc # "idle" /\ Done(r) /\ UNCHANGED <<asset, passed>>
        /\ asset[1].status # "NONE" /\ req[r].version \in Versions
    BY MediaCallFields DEF MediaIInv, MediaAbort, At, Rooted
  <1>2. CASE req[r].pc \in {"verify", "finalize"}
    <2>1. stranded' = stranded \cup {req[r].version}
      BY <1>2 DEF MediaAbort
    <2>2. /\ req' \in [Requests -> MediaCalls \cup {Idle}]
          /\ \A q \in Requests : req'[q].pc # "idle" => req'[q] = req[q]
      BY <1>1, RequestDone
    <2>3. MediaTypeOK' /\ Rooted' /\ OneCurrent' /\ ServedWasVerified' /\ ArchivesVerified'
      BY <1>1, <2>1, <2>2
         DEF MediaIInv, MediaTypeOK, Rooted, OneCurrent, ServedWasVerified,
             ArchivesVerified, At
    <2>4. VerificationOwned'
      <3>1. /\ stranded \subseteq stranded' /\ stranded' \subseteq Versions
            /\ req[r].version \in stranded'
        BY <1>1, <2>1 DEF MediaTypeOK
      <3> QED
        BY <1>1, <1>2, <3>1, EndsVerification
    <2> QED
      BY <2>3, <2>4 DEF MediaIInv
  <1>3. CASE req[r].pc \notin {"verify", "finalize"}
    BY <1>1, <1>3, AnsweredKeeps DEF MediaAbort, Answered, mediaTables
  <1> QED
    BY <1>2, <1>3

-----------------------------------------------------------------------------
LEMMA MediaInitial == MediaInit => MediaIInv
  <1> SUFFICES ASSUME MediaInit PROVE MediaIInv
    OBVIOUS
  <1>1. MediaTypeOK
    <2>1. NoAsset \in Row
      BY DEF NoAsset, Row, MediaStatus
    <2> QED
      BY <2>1 DEF MediaInit, MediaTypeOK, Row
  <1>2. /\ Rooted /\ ArchivesVerified /\ OneCurrent /\ ServedWasVerified /\ VerificationOwned
    BY FirstVersion
       DEF MediaInit, NoAsset, Idle, Rooted, ArchivesVerified, OneCurrent,
           ServedWasVerified, VerificationOwned, At
  <1> QED
    BY <1>1, <1>2 DEF MediaIInv

LEMMA MediaStepKeeps == MediaIInv /\ [MediaNext]_mediaVars => MediaIInv'
  <1> SUFFICES ASSUME MediaIInv, [MediaNext]_mediaVars PROVE MediaIInv'
    OBVIOUS
  <1>1. CASE CreateUploadIntent
    BY <1>1, FirstVersion, IntentKeeps DEF CreateUploadIntent
  <1>2. ASSUME NEW n \in Versions, CreateVersionUploadIntent(n) PROVE MediaIInv'
    <2>1. /\ n + 1 \in Versions /\ asset[n + 1].status = "NONE"
          /\ asset[1].status # "NONE" /\ asset' = With(n + 1, "PENDING_UPLOAD")
          /\ UNCHANGED <<req, passed, stranded>>
      BY <1>2 DEF CreateVersionUploadIntent, NumberFree, MediaIInv, Rooted
    <2> QED
      BY <2>1, IntentKeeps
  <1>3. ASSUME NEW r \in Requests, MediaStep(r) PROVE MediaIInv'
    BY <1>3, RunOutsideKeeps, FinalizeKeeps, ByIdKeeps, WriterWriteKeeps, MediaAbortKeeps
       DEF MediaStep
  <1>4. ASSUME NEW r \in Requests, NEW n \in Versions, MediaCall(r, n) PROVE MediaIInv'
    BY <1>4, ClaimKeeps, LookKeeps DEF MediaCall, ConfirmUpload, RetryVerification
  <1>5. CASE UNCHANGED mediaVars
    BY <1>5 DEF mediaVars, mediaTables, MediaIInv, MediaTypeOK, Rooted, ArchivesVerified,
                OneCurrent, ServedWasVerified, VerificationOwned, At
  <1> QED
    BY <1>1, <1>2, <1>3, <1>4, <1>5, WriterFirstKeeps DEF MediaNext

LEMMA MediaInvariant == MediaSpec => []MediaIInv
  BY MediaInitial, MediaStepKeeps, PTL DEF MediaSpec

-----------------------------------------------------------------------------
\* The one-current-version invariant, whichever finalizations, restores and
\* workers race, for every number of versions and requests.
THEOREM MediaSpecOneCurrent == MediaSpec => []OneCurrent
  <1>1. MediaIInv => OneCurrent
    BY DEF MediaIInv
  <1> QED
    BY <1>1, MediaInvariant, PTL

\* What is served, or may be restored, passed a verification: no sequence of
\* deletions, archivals and restores gets around it.
THEOREM MediaSpecServedWasVerified == MediaSpec => []ServedWasVerified
  <1>1. MediaIInv => ServedWasVerified
    BY DEF MediaIInv
  <1> QED
    BY <1>1, MediaInvariant, PTL

\* A version is left VERIFYING, where nobody may touch it, only by a request
\* that died or that the index refused.
THEOREM MediaSpecVerificationOwned == MediaSpec => []VerificationOwned
  <1>1. MediaIInv => VerificationOwned
    BY DEF MediaIInv
  <1> QED
    BY <1>1, MediaInvariant, PTL
=============================================================================
