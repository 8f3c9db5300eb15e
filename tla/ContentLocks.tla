----------------------------- MODULE ContentLocks ----------------------------
(* Content items, the series they belong to and the media they show, under   *)
(* the row locks of the transactions that change more than one of them:      *)
(* ContentSeriesService.remove, and assignSeries, updateProject,             *)
(* setFeaturedMedia and remove of ContentItemsService.                       *)
(*                                                                           *)
(* Such an operation looks its rows up, then locks them one after the other  *)
(* (FOR UPDATE, the id order being that of the numbers here), checks again   *)
(* what it looked up, writes, and commits, which releases the locks. Nothing *)
(* writes these columns without the lock of the row.                         *)
(*                                                                           *)
(* MediaAssetWriterService, in a worker, locks the same rows the other way   *)
(* round: it archives a version, then inserts one that references the item.  *)
(*                                                                           *)
(* Left out: titles, bodies and permissions; what featured media is set to   *)
(* (its operation is here for the locks it takes).                           *)
EXTENDS Integers, Sequences, FiniteSetsExt, ApiRequests

CONSTANTS
    Series, Items, Medias,     \* ids, disjoint sets of numbers
    ItemProjects               \* the projects of the workspace

ASSUME LockAssumption ==
    /\ Series \cup Items \cup Medias \subseteq Int
    /\ Series \cap Items = {} /\ Series \cap Medias = {} /\ Items \cap Medias = {}

VARIABLES
    series,      \* the series rows: project, deleted
    content      \* the item rows: series, project, deleted

lockTables == <<series, content>>
lockVars   == <<lockTables, req>>

LockInit ==
    /\ series \in [Series -> [project : ItemProjects \cup {None}, deleted : {FALSE}]]
    /\ content \in [Items -> [series : {None}, project : ItemProjects \cup {None},
                              deleted : {FALSE}]]
    /\ req = [r \in Requests |-> Idle]

-----------------------------------------------------------------------------
(* Transactions                                                              *)

\* A request that is to lock the rows of want, in that order.
Transact(r, op, args, want) ==
    /\ Begin(r, [pc |-> op, args |-> args, want |-> want, held |-> {}])
    /\ UNCHANGED lockTables

Operations == {"removeSeries", "assignSeries", "updateProject", "removeItem",
               "featuredMedia", "writer"}

InTransaction(r) == req[r].pc \in Operations
Wants(r)   == IF InTransaction(r) /\ req[r].want # <<>> THEN {Head(req[r].want)} ELSE {}
Holds(r)   == IF InTransaction(r) THEN req[r].held ELSE {}
Blocks(q, r) == q # r /\ Wants(r) \cap Holds(q) # {}

\* lockItemOrThrow: a deleted item ends the request.
LockNext(r) ==
    /\ Wants(r) # {} /\ \A q \in Requests : ~Blocks(q, r)
    /\ LET row == Head(req[r].want)
       IN  req' = [req EXCEPT ![r].want = Tail(req[r].want),
                              ![r].held = req[r].held \cup {row}]
    /\ UNCHANGED lockTables

\* The last lock is taken: the request decides, writes and commits.
Deciding(r, op) == At(r, op) /\ req[r].want = <<>> /\ Done(r)
Refused         == UNCHANGED lockTables

-----------------------------------------------------------------------------
(* Series                                                                    *)

RemoveSeriesRead(r, s) == ~series[s].deleted /\ Transact(r, "removeSeries", [series |-> s], <<s>>)

Referencing(s) == {i \in Items : content[i].series = s /\ ~content[i].deleted}

RemoveSeries(r) ==
    LET s == req[r].args.series
        ok == ~series[s].deleted /\ Referencing(s) = {}
    IN  /\ Deciding(r, "removeSeries")
        /\ \/ ~ok /\ Refused
           \/ ok /\ series' = [series EXCEPT ![s].deleted = TRUE] /\ UNCHANGED content

\* isSeriesProjectCompatible.
IsSeriesProjectCompatible(ofSeries, ofItem) == ofSeries = None \/ ofSeries = ofItem

\* Series by id ascending, then the item. (A definition marked Slip is a
\* plausible mistake in the one after it; the checks must notice it.)
AsMoved(old, target, i)   == SelectSeq(<<old, target, i>>, LAMBDA row : row # None)  \* Slip: by role
LockOrder(old, target, i) ==
    LET rows == {old, target} \ {None}
    IN  IF rows = {} THEN <<i>>
        ELSE IF Min(rows) = Max(rows) THEN <<Min(rows), i>> ELSE <<Min(rows), Max(rows), i>>

AssignSeriesRead(r, i, target) ==
    /\ ~content[i].deleted
    /\ target # None => ~series[target].deleted
    /\ Transact(r, "assignSeries", [item |-> i, seen |-> content[i].series, target |-> target],
                LockOrder(content[i].series, target, i))

StillAssigned(call) == content[call.item].series = call.seen /\ ~content[call.item].deleted

AssignSeries(r) ==
    LET call == req[r].args
        ok == /\ StillAssigned(call)
              /\ call.target # None =>
                     /\ ~series[call.target].deleted
                     /\ IsSeriesProjectCompatible(series[call.target].project,
                                                  content[call.item].project)
    IN  /\ Deciding(r, "assignSeries")
        /\ \/ ~ok /\ Refused
           \/ /\ ok /\ content' = [content EXCEPT ![call.item].series = call.target]
              /\ UNCHANGED series

-----------------------------------------------------------------------------
(* Items                                                                     *)

UpdateProjectRead(r, i, p) ==
    /\ ~content[i].deleted
    /\ Transact(r, "updateProject", [item |-> i, seen |-> content[i].series, project |-> p],
                LockOrder(content[i].series, None, i))

Unchecked(call)   == ~content[call.item].deleted     \* Slip: compatible with the series seen
Reconfirmed(call) == StillAssigned(call)

UpdateProject(r) ==
    LET call == req[r].args
        s == call.seen
        ok == /\ Reconfirmed(call)
              /\ s # None /\ ~series[s].deleted =>
                     IsSeriesProjectCompatible(series[s].project, call.project)
    IN  /\ Deciding(r, "updateProject")
        /\ \/ ~ok /\ Refused
           \/ /\ ok /\ content' = [content EXCEPT ![call.item].project = call.project]
              /\ UNCHANGED series

RemoveContentRead(r, i) == ~content[i].deleted /\ Transact(r, "removeItem", [item |-> i], <<i>>)

RemoveContent(r) ==
    /\ Deciding(r, "removeItem")
    /\ content' = [content EXCEPT ![req[r].args.item].deleted = TRUE]
    /\ UNCHANGED series

-----------------------------------------------------------------------------
(* Media                                                                     *)

SetFeaturedMediaRead(r, i, m) ==
    ~content[i].deleted /\ Transact(r, "featuredMedia", [item |-> i], <<i, m>>)

\* A worker: the lock of the archived version, then the one that the foreign
\* key takes of the item.
WriterTransaction(r, i, m) == Transact(r, "writer", [item |-> i], <<m, i>>)

MediaCommits(r) == (Deciding(r, "featuredMedia") \/ Deciding(r, "writer")) /\ Refused

-----------------------------------------------------------------------------
\* The request fails, dies or is chosen by the database to break a cycle.
RollBack(r) == InTransaction(r) /\ Done(r) /\ Refused

LockRead(r) ==
    \/ \E s \in Series : RemoveSeriesRead(r, s)
    \/ \E i \in Items :
          \/ \E target \in Series \cup {None} : AssignSeriesRead(r, i, target)
          \/ \E p \in ItemProjects \cup {None} : UpdateProjectRead(r, i, p)
          \/ RemoveContentRead(r, i)
          \/ \E m \in Medias : SetFeaturedMediaRead(r, i, m) \/ WriterTransaction(r, i, m)

LockDecide(r) ==
    \/ RemoveSeries(r) \/ AssignSeries(r) \/ UpdateProject(r) \/ RemoveContent(r)
    \/ MediaCommits(r)

ContentNext == \E r \in Requests : LockRead(r) \/ LockNext(r) \/ LockDecide(r) \/ RollBack(r)

ContentSpec == LockInit /\ [][ContentNext]_lockVars

-----------------------------------------------------------------------------
(* Properties                                                                *)

\* Type invariant of the rows.
ContentTypeOK ==
    /\ series \in [Series -> [project : ItemProjects \cup {None}, deleted : BOOLEAN]]
    /\ content \in [Items -> [series : Series \cup {None}, project : ItemProjects \cup {None},
                              deleted : BOOLEAN]]

\* "never silently orphans a live item's seriesId", and project-series
\* compatibility: whatever assignments, moves and deletions cross, the series
\* of an item that is not deleted exists and accepts the item's project.
SeriesFits ==
    \A i \in Items : ~content[i].deleted /\ content[i].series # None =>
        /\ ~series[content[i].series].deleted
        /\ IsSeriesProjectCompatible(series[content[i].series].project, content[i].project)

Waiting(D) == \A r \in D : \E q \in D : Blocks(q, r)

\* The "mandatory global lock order": requests never wait for one another in a
\* circle, unless a worker that stores a new media version is part of it.
NoLockCycle ==
    \A D \in SUBSET {r \in Requests : ~At(r, "writer")} : D # {} => ~Waiting(D)

-----------------------------------------------------------------------------
(* The inductive invariant behind them                                       *)

Locks    == Series \cup Items \cup Medias
LockArgs ==
         [series : Series]
    \cup [item : Items]
    \cup [item : Items, seen : Series \cup {None}, target : Series \cup {None}]
    \cup [item : Items, seen : Series \cup {None}, project : ItemProjects \cup {None}]

ArgsOK(op, args) ==
    /\ op = "removeSeries" => args \in [series : Series]
    /\ op = "assignSeries" =>
           args \in [item : Items, seen : Series \cup {None}, target : Series \cup {None}]
    /\ op = "updateProject" =>
           args \in [item : Items, seen : Series \cup {None}, project : ItemProjects \cup {None}]

TransactionsOK ==
    /\ req \in [Requests -> {Idle} \cup
           [pc : Operations, args : LockArgs, want : Seq(Locks), held : SUBSET Locks]]
    /\ \A r \in Requests : InTransaction(r) => ArgsOK(req[r].pc, req[r].args)

\* The order in which rows are locked: series by id, then an item, then media.
Before(a, b) ==
    \/ a \in Series /\ b \in Series /\ a < b
    \/ a \in Series /\ b \in Items \cup Medias
    \/ a \in Items /\ b \in Medias

\* What a transaction wants comes in that order, after all that it holds.
InOrder == \A r \in Requests : InTransaction(r) /\ ~At(r, "writer") =>
    /\ \A j, k \in 1..Len(req[r].want) : j < k => Before(req[r].want[j], req[r].want[k])
    /\ \A a \in req[r].held, k \in 1..Len(req[r].want) : Before(a, req[r].want[k])

FewBegun == IsFiniteSet({r \in Requests : InTransaction(r)})

LockIInv == ContentTypeOK /\ TransactionsOK /\ InOrder /\ FewBegun /\ SeriesFits
=============================================================================
