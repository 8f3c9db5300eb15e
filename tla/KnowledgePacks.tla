--------------------------- MODULE KnowledgePacks ---------------------------
(* The versions of one knowledge pack and the projects that use them:        *)
(* KnowledgePacksService and the knowledgePackId of ProjectsService.update.  *)
(*                                                                           *)
(* A lineage starts with a draft; a draft is activated by validate, which    *)
(* archives the version it was cloned from in the same transaction; a new    *)
(* draft is cloned from an ACTIVE version. Every operation first reads the   *)
(* row outside its transaction and decides on what it read.                  *)
(*                                                                           *)
(* VALIDATING is written and replaced within one transaction, so nobody else *)
(* sees it: it is the row lock here. A write waits for the row lock of       *)
(* another transaction and then sees what that one committed.                *)
(*                                                                           *)
(* Left out: the contents of a version (the four gates may pass or fail it), *)
(* names, slugs and the archiving of projects. The partial unique index      *)
(* knowledge_packs_one_active_per_lineage is left out on purpose: OneActive  *)
(* shows that the guards of the code do without it.                          *)
EXTENDS Naturals, Functions, ApiRequests

CONSTANTS
    Packs,        \* identities for versions of the lineage
    Root,         \* the first version
    Projects,
    MaxEdits      \* bound on the edits of a behaviour

ASSUME PackAssumption ==
    /\ Root \in Packs /\ None \notin Packs
    /\ MaxEdits \in Nat

VARIABLES
    pack,        \* the rows: status, deleted, lock, number, pred
    project,     \* the version each project uses
    late         \* the edits made to each version since it left DRAFT (history)

packTables == <<pack, project, late>>
packVars   == <<packTables, req>>

Unborn == [status |-> "NONE", deleted |-> FALSE, lock |-> 0, number |-> 0, pred |-> None]

PackInit ==
    /\ pack = [v \in Packs |-> Unborn]
    /\ project \in [Projects -> {None}]
    /\ req = [r \in Requests |-> Idle]
    /\ late = [v \in Packs |-> 0]

-----------------------------------------------------------------------------
Rejected(r) == Done(r) /\ UNCHANGED packTables

Exists(v) == pack[v].status # "NONE"
Live(v)   == Exists(v) /\ ~pack[v].deleted

\* The transaction of a validation holds the lock of the row it validates from
\* its first statement on; only that transaction may write it.
Validating(v) == {r \in Requests : req[r].pc \in {"count", "activate"} /\ req[r].pack = v}
Writable(v)   == Validating(v) = {}

\* findOne: the row as it is now, unless it is deleted; seen is the number that
\* the request goes on to use of it.
Read(r, v, label, seen) ==
    /\ Live(v) /\ Begin(r, [pc |-> label, pack |-> v, seen |-> seen])
    /\ UNCHANGED packTables

-----------------------------------------------------------------------------
(* Drafts: create, update, remove                                            *)

Create(r) ==
    /\ At(r, "idle") /\ ~Exists(Root)
    /\ pack' = [pack EXCEPT ![Root] = [Unborn EXCEPT !.status = "DRAFT", !.number = 1]]
    /\ UNCHANGED <<project, req, late>>

\* Only a draft may be edited: so findOne found it. (A definition marked Slip is
\* a plausible mistake in the one after it; the checks must notice it.)
EditAnytime(v) == Exists(v)                  \* Slip: a released version too
EditAllowed(v) == pack[v].status = "DRAFT"

UpdateRead(r, v) == EditAllowed(v) /\ Read(r, v, "update", pack[v].lock)

\* The optimistic lock, the only condition that is repeated in the write: the
\* status is not. The caller expects the version it saw, which is at best the
\* one that findOne found.
LockMatches(r) == pack[req[r].pack].lock = req[r].seen

Edits == FoldFunction(LAMBDA row, n : row.lock + n, 0, pack)

UpdateWrite(r) ==
    LET v == req[r].pack
    IN  /\ At(r, "update") /\ Writable(v)
        /\ \/ /\ LockMatches(r) /\ Edits < MaxEdits
              /\ pack' = [pack EXCEPT ![v].lock = pack[v].lock + 1]
              /\ late' = IF pack[v].status = "DRAFT" THEN late
                         ELSE [late EXCEPT ![v] = late[v] + 1]
              /\ Done(r) /\ UNCHANGED project
           \/ ~LockMatches(r) /\ Rejected(r)

RemoveRead(r, v) == pack[v].status = "DRAFT" /\ Read(r, v, "remove", 0)

\* An update by id: whatever the row has become is deleted.
RemoveWrite(r) ==
    LET v == req[r].pack
    IN  /\ At(r, "remove") /\ Writable(v)
        /\ pack' = [pack EXCEPT ![v].deleted = TRUE]
        /\ Done(r) /\ UNCHANGED <<project, late>>

-----------------------------------------------------------------------------
(* createVersion                                                             *)

CreateVersionRead(r, v) == pack[v].status = "ACTIVE" /\ Read(r, v, "clone", pack[v].number)

\* knowledge_packs_one_successor_per_predecessor: among rows not deleted.
SuccessorFree(p) == \A v \in Packs : Live(v) => pack[v].pred # p

\* The clone is made of what findOne read. Its predecessor may have been
\* archived or changed since: the insert does not look at it again.
CreateVersionInsert(r) ==
    LET p == req[r].pack
    IN  /\ At(r, "clone")
        /\ \/ /\ SuccessorFree(p)
              /\ \E v \in Packs :
                    /\ ~Exists(v)
                    /\ pack' = [pack EXCEPT ![v] =
                          [Unborn EXCEPT !.status = "DRAFT", !.pred = p,
                                         !.number = req[r].seen + 1]]
              /\ Done(r) /\ UNCHANGED <<project, late>>
           \/ ~SuccessorFree(p) /\ Rejected(r)

-----------------------------------------------------------------------------
(* archive                                                                   *)

ArchiveRead(r, v) == pack[v].status = "ACTIVE" /\ Read(r, v, "archiveCount", 0)

Restricting(v) == {p \in Projects : project[p] = v}

\* The count is a statement of its own: a project may be assigned after it.
ArchiveCount(r) ==
    /\ At(r, "archiveCount")
    /\ \/ Restricting(req[r].pack) = {} /\ Goto(r, "archive") /\ UNCHANGED packTables
       \/ Restricting(req[r].pack) # {} /\ Rejected(r)

Archived == "ARCHIVED"

ArchiveWrite(r) ==
    LET v == req[r].pack
    IN  /\ At(r, "archive")
        /\ \/ /\ pack[v].status = "ACTIVE"
              /\ pack' = [pack EXCEPT ![v].status = Archived]
              /\ Done(r) /\ UNCHANGED <<project, late>>
           \/ pack[v].status # "ACTIVE" /\ Rejected(r)

-----------------------------------------------------------------------------
(* validate: one transaction, which holds the lock of the draft              *)

ValidateRead(r, v) == Read(r, v, "validate", 0)

\* DRAFT -> VALIDATING takes the lock; the deletion of the row is not looked
\* at again. Then the four gates on its contents, which may reject it.
DraftGuard(v) == pack[v].status = "DRAFT"

ValidateLock(r) ==
    LET v == req[r].pack
    IN  /\ At(r, "validate") /\ Writable(v)
        /\ \/ DraftGuard(v) /\ Goto(r, "count") /\ UNCHANGED packTables
           \/ Rejected(r)

\* Gate 5: no project uses the predecessor.
ValidateCount(r) ==
    LET p == pack[req[r].pack].pred
    IN  /\ At(r, "count")
        /\ \/ /\ p # None => Restricting(p) = {}
              /\ Goto(r, "activate") /\ UNCHANGED packTables
           \/ p # None /\ Restricting(p) # {} /\ Rejected(r)

AnyStatus(p) == pack[p].status # "NONE"    \* Slip: archived whatever it is by now
StillActive(p) == pack[p].status = "ACTIVE"

\* Archive the predecessor, if it is still ACTIVE, and activate the successor.
ValidateCommit(r) ==
    LET v == req[r].pack
        p == pack[v].pred
    IN  /\ At(r, "activate")
        /\ \/ /\ p # None => StillActive(p)
              /\ pack' = [w \in Packs |-> CASE w = v -> [pack[v] EXCEPT !.status = "ACTIVE"]
                                            [] w = p -> [pack[p] EXCEPT !.status = Archived]
                                            [] OTHER -> pack[w]]
              /\ Done(r) /\ UNCHANGED <<project, late>>
           \/ p # None /\ ~StillActive(p) /\ Rejected(r)

-----------------------------------------------------------------------------
(* ProjectsService.update                                                    *)

AssignRead(r, p, v) ==
    /\ Live(v) /\ pack[v].status = "ACTIVE"
    /\ Begin(r, [pc |-> "assign", pack |-> v, project |-> p])
    /\ UNCHANGED packTables

\* By id, without another look at the version.
AssignWrite(r) ==
    /\ At(r, "assign")
    /\ project' = [project EXCEPT ![req[r].project] = req[r].pack]
    /\ Done(r) /\ UNCHANGED <<pack, late>>

Unassign(p) ==
    /\ project[p] # None
    /\ project' = [project EXCEPT ![p] = None]
    /\ UNCHANGED <<pack, req, late>>

-----------------------------------------------------------------------------
\* The process dies, or the database aborts the transaction.
Abort(r) == ~At(r, "idle") /\ Rejected(r)

PackRead(r, v) == \/ UpdateRead(r, v) \/ RemoveRead(r, v) \/ CreateVersionRead(r, v)
               \/ ArchiveRead(r, v) \/ ValidateRead(r, v)
               \/ \E p \in Projects : AssignRead(r, p, v)
PackWrite(r) == \/ UpdateWrite(r) \/ RemoveWrite(r) \/ CreateVersionInsert(r)
               \/ ArchiveCount(r) \/ ArchiveWrite(r)
               \/ ValidateLock(r) \/ ValidateCount(r) \/ ValidateCommit(r)
               \/ AssignWrite(r)

PackNext ==
    \/ \E r \in Requests : \/ Create(r) \/ PackWrite(r) \/ Abort(r)
                           \/ \E v \in Packs : PackRead(r, v)
    \/ \E p \in Projects : Unassign(p)

PackSpec == PackInit /\ [][PackNext]_packVars

-----------------------------------------------------------------------------
(* Properties                                                                *)

PackType == [status : {"NONE", "DRAFT", "ACTIVE", "ARCHIVED"}, deleted : BOOLEAN,
             lock : Nat, number : Nat, pred : Packs \cup {None}]
PackCall == [pc : {"update", "remove", "clone", "archiveCount", "archive",
                   "validate", "count", "activate"}, pack : Packs, seen : Nat]
            \cup [pc : {"assign"}, pack : Packs, project : Projects]

\* Type invariant of the rows and the requests.
PackTypeOK ==
    /\ pack \in [Packs -> PackType]
    /\ project \in [Projects -> Packs \cup {None}]
    /\ req \in [Requests -> PackCall \cup {Idle}]
    /\ late \in [Packs -> Nat]

\* Owner decision "one Active version per lineage": validate's guards alone
\* keep it, deleted rows included, whichever validations, removals and new
\* versions race; the unique index is never what decides.
OneActive ==
    \A v, w \in Packs : pack[v].status = "ACTIVE" /\ pack[w].status = "ACTIVE" => v = w

\* createVersion numbers from what it read: still, no two versions that a
\* reader can see carry the same number, even when a deleted version was
\* activated or a successor is cloned from one archived in the meantime.
NumbersUnique ==
    \A v, w \in Packs : Live(v) /\ Live(w) /\ pack[v].number = pack[w].number => v = w

\* "Only a Draft Knowledge Pack version may be edited in place": update does
\* not repeat that condition in its write, and validate does not touch
\* lockVersion, so edits that were under way get through; but only one.
OneLateEdit ==
    \A v \in Packs : late[v] <= 1

-----------------------------------------------------------------------------
(* The inductive invariant behind them: the lineage is a chain, and what the *)
(* requests in progress still know of it.                                    *)

\* Once ACTIVE, a version never is a draft again.
Released(v) == pack[v].status \in {"ACTIVE", "ARCHIVED"}

Lineage ==
    \A v \in Packs : Exists(v) =>
        /\ pack[v].number >= 1
        /\ v = Root  => pack[v].pred = None /\ pack[v].number = 1
        /\ v # Root => /\ pack[v].pred \in Packs /\ Released(pack[v].pred)
                       /\ pack[v].number = pack[pack[v].pred].number + 1

RootFirst == \A v \in Packs \ {Root} : Exists(v) => Released(Root)

\* A version is activated over its predecessor, which stays ARCHIVED; so those
\* that were ever ACTIVE, deleted or not, form a chain without branches.
Superseded ==
    \A v \in Packs : Released(v) /\ v # Root => pack[pack[v].pred].status = "ARCHIVED"
ReleasedUnique ==
    \A v, w \in Packs : Released(v) /\ Released(w) /\ pack[v].number = pack[w].number => v = w

CloneKnown ==
    \A r \in Requests : At(r, "clone") =>
        Released(req[r].pack) /\ req[r].seen = pack[req[r].pack].number

\* Nobody takes the draft of a validation in progress.
LockHeld ==
    \A r \in Requests : req[r].pc \in {"count", "activate"} =>
        /\ pack[req[r].pack].status = "DRAFT"
        /\ Validating(req[r].pack) = {r}

\* The first edit that came too late outdated all the others.
EditsKnown ==
    /\ \A v \in Packs : ~Released(v) => late[v] = 0
    /\ \A r \in Requests : At(r, "update") =>
           LET v == req[r].pack
           IN  /\ Exists(v) /\ req[r].seen <= pack[v].lock
               /\ late[v] # 0 => req[r].seen < pack[v].lock

PackIInv == /\ PackTypeOK /\ Lineage /\ RootFirst /\ Superseded /\ ReleasedUnique
            /\ CloneKnown /\ LockHeld /\ EditsKnown
            /\ OneActive /\ NumbersUnique /\ OneLateEdit
=============================================================================
