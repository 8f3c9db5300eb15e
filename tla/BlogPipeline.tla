---------------------------- MODULE BlogPipeline ----------------------------
(* One article of the blog pipeline and its editorial life cycle:            *)
(* BlogPipelineService and BlogService over ContentItemsService.             *)
(*                                                                           *)
(* Each stage has an agent generate an artifact from the one before. A       *)
(* generation is three steps: claim the stage under the row lock (which      *)
(* resets it and all that follows), submit the AI job, record its id under   *)
(* the lock again. What the job brought is taken over (finalized) by the     *)
(* next operation that changes the article; a draft becomes a version of     *)
(* the content. Linking, quality checks and scoring follow, then the review. *)
(*                                                                           *)
(* Every transaction locks the item first and is one step. The pipeline      *)
(* state is part of the item's metadata and always read under that lock.     *)
(*                                                                           *)
(* Left out: what artifacts say, permissions, the first generation of        *)
(* BlogService.create (the article starts with all stages PENDING), and a    *)
(* PATCH of the item that replaces its metadata by the caller's.             *)
EXTENDS Naturals, Sequences, ApiRequests

CONSTANTS
    Approvals,     \* the stages a person approves, in order: brief, outline
    MaxClaims,     \* bound on the generations of a stage
    MaxVersions    \* bound on the versions of the content

ASSUME BlogAssumption ==
    /\ Approvals \in Seq({"brief", "outline"}) /\ Approvals # <<>>
    /\ MaxClaims \in Nat /\ MaxVersions \in Nat \ {0}

Order   == Approvals \o <<"draft", "seo">>
Ranks   == 1..Len(Order)                   \* a stage is named by its rank
Draft   == Len(Order) - 1
Seo     == Len(Order)
IsApproval(k) == k < Draft

VARIABLES
    stage,       \* status of each stage, its AI job, and which claim they are of
    draftVersion,\* contentVersionPublicId: the version made of the draft, or 0
    gate,        \* linking and quality checks done; score, and the version it is of
    versions,    \* the claim each version was generated by, 0 for a person's
    item,        \* status, status before the archiving, version submitted for review
    claims,      \* number of claims of each stage so far (history)
    belated,        \* a request wrote what its check no longer allowed (history)
    orphaned     \* stages whose request died before it recorded a job (history)

blogTables == <<stage, draftVersion, gate, versions, item, claims, belated, orphaned>>
blogVars   == <<blogTables, req>>

Pending   == [status |-> "PENDING", job |-> "NONE", made |-> 0, basis |-> 0]
Claimed   == [Pending EXCEPT !.status = "GENERATING"]
GatesOpen == [links |-> FALSE, qa |-> FALSE, score |-> "NONE", scored |-> 0]

BlogInit ==
    /\ stage = [k \in Ranks |-> Pending] /\ draftVersion = 0 /\ gate = GatesOpen
    /\ versions = <<0>>
    /\ item = [status |-> "IN_PROGRESS", from |-> "NONE", submitted |-> 0]
    /\ claims = [k \in Ranks |-> 0] /\ belated = FALSE /\ orphaned = {}
    /\ req = [r \in Requests |-> Idle]

-----------------------------------------------------------------------------
(* finalizeStages: take over what the AI jobs brought                        *)

Current  == Len(versions)
NotDeleted == item.status # "DELETED"
Editable == item.status = "IN_PROGRESS"

Finalized(k) ==
    IF stage[k].status = "APPROVED" THEN stage[k]
    ELSE IF stage[k].job \in {"FAILED", "INVALID"} THEN [stage[k] EXCEPT !.status = "FAILED"]
    ELSE IF stage[k].job = "COMPLETED" THEN [stage[k] EXCEPT !.status = "READY"]
    ELSE stage[k]

FinalStages == [k \in Ranks |-> Finalized(k)]

\* The draft that is ready without a version: one version per AI job.
Unmaterialized == FinalStages[Draft].status = "READY" /\ draftVersion = 0
Materialized   == {v \in 1..Current : versions[v] = stage[Draft].made}

FinalVersions ==
    IF Unmaterialized /\ Materialized = {} THEN Append(versions, stage[Draft].made)
    ELSE versions

FinalDraftVersion ==
    IF ~Unmaterialized THEN draftVersion
    ELSE IF Materialized = {} THEN Current + 1
    ELSE CHOOSE v \in Materialized : TRUE

\* What most operations do: finalize, then change some stages and gates.
FinalizeAnd(stages, gates) ==
    /\ stage' = stages /\ gate' = gates
    /\ versions' = FinalVersions /\ draftVersion' = FinalDraftVersion

Finalize == FinalizeAnd(FinalStages, gate)

-----------------------------------------------------------------------------
(* Generation of a stage                                                     *)

Prerequisite(k) ==
    IF k = 1 THEN TRUE
    ELSE IF k <= Draft THEN FinalStages[k - 1].status = "APPROVED"
    ELSE FinalStages[Draft].status = "READY" /\ FinalDraftVersion # 0

\* The claimed stage and all that follow are reset, and so are the gates. (A
\* definition marked Slip is a plausible mistake in the one after it; the
\* checks must notice it.)
ResetFrom(k) ==
    [i \in Ranks |-> CASE i < k -> FinalStages[i] [] i = k -> Claimed [] OTHER -> Pending]

GatesReset  == GatesOpen

ClaimStage(r, k) ==
    /\ Editable /\ FinalStages[k].status # "GENERATING" /\ Prerequisite(k)
    /\ claims[k] < MaxClaims
    /\ Begin(r, [pc |-> "submit", stage |-> k, made |-> claims[k] + 1,
                 basis |-> IF k = 1 THEN 0 ELSE FinalStages[k - 1].made])
    /\ stage' = ResetFrom(k) /\ gate' = GatesReset
    /\ versions' = FinalVersions
    /\ draftVersion' = IF k <= Draft THEN 0 ELSE FinalDraftVersion
    /\ claims' = [claims EXCEPT ![k] = @ + 1]
    /\ orphaned' = orphaned \ (k..Seo)
    /\ UNCHANGED <<item, belated>>

\* aiJobs.submit, in its own transactions, may throw.
SubmitJob(r) ==
    /\ At(r, "submit")
    /\ \E ok \in BOOLEAN :
           req' = [req EXCEPT ![r] = [pc |-> "record", stage |-> req[r].stage, ok |-> ok,
                                      made |-> req[r].made, basis |-> req[r].basis]]
    /\ UNCHANGED blogTables

FailureUnrecorded(old) == old       \* Slip: the error is only thrown
SubmissionFailed(old)  == [old EXCEPT !.status = "FAILED"]

StageRecorded(r, old) ==
    IF req[r].ok
    THEN [status |-> "GENERATING", job |-> "QUEUED", made |-> req[r].made, basis |-> req[r].basis]
    ELSE SubmissionFailed(old)

\* Neither the claim nor the status of the item is looked at again.
RecordJob(r) ==
    LET k == req[r].stage
        overtaken == stage[k] # Claimed \/ claims[k] # req[r].made
    IN  /\ At(r, "record") /\ NotDeleted
        /\ stage' = [stage EXCEPT ![k] = StageRecorded(r, @)]
        /\ belated' = (belated \/ overtaken \/ ~Editable)
        /\ Done(r) /\ UNCHANGED <<draftVersion, gate, versions, item, claims, orphaned>>

\* The AI job ends; a failed one may be retried and succeed after all. Its
\* output may not have the shape the stage asks for.
JobEnds(k) ==
    /\ stage[k].job \in {"QUEUED", "FAILED"}
    /\ \E end \in {"COMPLETED", "INVALID", "FAILED"} :
           /\ k = Draft /\ end = "COMPLETED" => Current < MaxVersions
           /\ stage' = [stage EXCEPT ![k].job = end]
    /\ UNCHANGED <<draftVersion, gate, versions, item, claims, belated, orphaned, req>>

ApproveGeneration(k) ==
    /\ IsApproval(k) /\ Editable /\ FinalStages[k].status = "READY"
    /\ FinalizeAnd([FinalStages EXCEPT ![k].status = "APPROVED"], gate)
    /\ UNCHANGED <<item, claims, belated, orphaned, req>>

-----------------------------------------------------------------------------
(* Linking, quality checks, scoring                                          *)

Step(r, label) == Begin(r, [pc |-> label]) /\ UNCHANGED <<item, claims, belated, orphaned>>

LinkingCheck(r) ==
    /\ Editable /\ FinalStages[Seo].status = "READY"
    /\ Finalize /\ Step(r, "link")

\* The discovery of links has run in between; the stage is verified again.
LinkingRecord(r) ==
    /\ At(r, "link") /\ Editable /\ FinalStages[Seo].status = "READY"
    /\ FinalizeAnd(FinalStages, [gate EXCEPT !.links = TRUE])
    /\ Done(r) /\ UNCHANGED <<item, claims, belated, orphaned>>

RunQa ==
    /\ Editable /\ FinalStages[Draft].status = "READY" /\ gate.links
    /\ FinalizeAnd(FinalStages, [gate EXCEPT !.qa = TRUE])
    /\ UNCHANGED <<item, claims, belated, orphaned, req>>

ScoringCheck(r) == Editable /\ gate.qa /\ Finalize /\ Step(r, "score")

\* The current version is scored, in a transaction of its own.
Score(r) ==
    /\ At(r, "score")
    /\ \E verdict \in {"PASSED", "BELOW"} :
           req' = [req EXCEPT ![r] = [pc |-> "scored", score |-> verdict, version |-> Current]]
    /\ UNCHANGED blogTables

\* Recorded whatever has become of the article in the meantime.
ScoreRecord(r) ==
    /\ At(r, "scored") /\ NotDeleted
    /\ gate' = [gate EXCEPT !.score = req[r].score, !.scored = req[r].version]
    /\ belated' = (belated \/ ~gate.qa \/ ~Editable \/ req[r].version # Current)
    /\ Done(r) /\ UNCHANGED <<stage, draftVersion, versions, item, claims, orphaned>>

-----------------------------------------------------------------------------
(* The editorial life cycle                                                  *)

\* unmetReviewGates(stages) = [].
GatesMet(stages, version) ==
    /\ \A k \in Ranks : stages[k].status = IF IsApproval(k) THEN "APPROVED" ELSE "READY"
    /\ version # 0 /\ gate.links /\ gate.qa /\ gate.score = "PASSED"

\* Finalizes even when it then refuses.
AssertReadyForReview(r) ==
    /\ Editable /\ Finalize
    /\ \/ GatesMet(FinalStages, FinalDraftVersion) /\ Step(r, "review")
       \/ /\ ~GatesMet(FinalStages, FinalDraftVersion)
          /\ At(r, "idle") /\ UNCHANGED <<item, claims, belated, orphaned, req>>

\* A transaction of its own, which looks at the status only.
SubmitForReview(r) ==
    /\ At(r, "review") /\ Editable
    /\ item' = [item EXCEPT !.status = "REVIEW", !.submitted = Current]
    /\ belated' = (belated \/ ~GatesMet(stage, draftVersion))
    /\ Done(r) /\ UNCHANGED <<stage, draftVersion, gate, versions, claims, orphaned>>

\* A version written by a person.
VersionAnytime  == NotDeleted             \* Slip: while it is under review
VersionAllowed  == Editable

CreateContentVersion ==
    /\ VersionAllowed /\ Current < MaxVersions
    /\ versions' = Append(versions, 0)
    /\ UNCHANGED <<stage, draftVersion, gate, item, claims, belated, orphaned, req>>

Editorial(guard, next) ==
    /\ guard /\ item' = next
    /\ UNCHANGED <<stage, draftVersion, gate, versions, claims, belated, orphaned, req>>

Approve == Editorial(item.status = "REVIEW", [item EXCEPT !.status = "APPROVED"])
Reject  == Editorial(item.status = "REVIEW", [item EXCEPT !.status = "IN_PROGRESS"])
ArchiveItem ==
    Editorial(item.status \in {"IN_PROGRESS", "REVIEW", "APPROVED"},
              [item EXCEPT !.status = "ARCHIVED", !.from = item.status])
RestoreItem ==
    Editorial(item.status = "ARCHIVED", [item EXCEPT !.status = item.from, !.from = "NONE"])
RemoveItem == Editorial(NotDeleted, [item EXCEPT !.status = "DELETED"])

-----------------------------------------------------------------------------
\* The request dies, or its next transaction is refused or fails. Before the
\* job is recorded its stage is left GENERATING without one.
BlogAbort(r) ==
    /\ ~At(r, "idle") /\ Done(r)
    /\ orphaned' = IF req[r].pc \in {"submit", "record"}
                   THEN orphaned \cup {req[r].stage} ELSE orphaned
    /\ UNCHANGED <<stage, draftVersion, gate, versions, item, claims, belated>>

BlogRequest(r) ==
    \/ \E k \in Ranks : ClaimStage(r, k)
    \/ SubmitJob(r) \/ RecordJob(r)
    \/ LinkingCheck(r) \/ LinkingRecord(r)
    \/ ScoringCheck(r) \/ Score(r) \/ ScoreRecord(r)
    \/ AssertReadyForReview(r) \/ SubmitForReview(r)
    \/ BlogAbort(r)

BlogNext ==
    \/ \E r \in Requests : BlogRequest(r)
    \/ \E k \in Ranks : JobEnds(k) \/ ApproveGeneration(k)
    \/ RunQa \/ CreateContentVersion
    \/ Approve \/ Reject \/ ArchiveItem \/ RestoreItem \/ RemoveItem

BlogSpec == BlogInit /\ [][BlogNext]_blogVars

-----------------------------------------------------------------------------
(* Properties                                                                *)

StageType == [status : {"PENDING", "GENERATING", "READY", "APPROVED", "FAILED"},
              job : {"NONE", "QUEUED", "COMPLETED", "INVALID", "FAILED"},
              made : Nat, basis : Nat]
BlogCalls ==
    [pc : {"submit"}, stage : Ranks, made : Nat, basis : Nat]
    \cup [pc : {"record"}, stage : Ranks, made : Nat, basis : Nat, ok : BOOLEAN]
    \cup [pc : {"link", "score", "review"}]
    \cup [pc : {"scored"}, score : {"PASSED", "BELOW"}, version : Nat]

\* Type invariant of the article and the requests.
BlogTypeOK ==
    /\ stage \in [Ranks -> StageType]
    /\ draftVersion \in 0..Current
    /\ gate \in [links : BOOLEAN, qa : BOOLEAN, score : {"NONE", "PASSED", "BELOW"}, scored : Nat]
    /\ versions \in Seq(Nat) /\ claims \in [Ranks -> Nat]
    /\ item \in [status : {"IN_PROGRESS", "REVIEW", "APPROVED", "ARCHIVED", "DELETED"},
                 from : {"NONE", "IN_PROGRESS", "REVIEW", "APPROVED"}, submitted : Nat]
    /\ belated \in BOOLEAN /\ orphaned \subseteq Ranks
    /\ req \in [Requests -> BlogCalls \cup {Idle}]

\* A stage cannot be claimed while it is GENERATING, so each such stage has a
\* job that will end or a request that will record one or its failure; only a
\* request that died leaves a stage that can never be generated again.
GeneratingIsOwned ==
    \A k \in Ranks : stage[k] = Claimed =>
        \/ k \in orphaned \/ ~NotDeleted
        \/ \E r \in Requests : req[r].pc \in {"submit", "record"} /\ req[r].stage = k

ByPipeline == \A v \in 2..Current : versions[v] # 0

\* "REVIEW must be rejected back to IN_PROGRESS first", "enforce every upstream
\* Quality Gate", "a regenerated brief invalidates the outline built on it": what
\* is under review or approved is the version that was submitted, whatever
\* finalizations, records of late requests, archivings and restores happened
\* since. If no request wrote too late and nobody else wrote a version, it is the
\* one that was scored, it was made of the draft, and every artifact was built on
\* the one before it as approved.
GatesHonest ==
    item.status \in {"REVIEW", "APPROVED"} =>
        /\ item.submitted = Current
        /\ ~belated /\ ByPipeline =>
              /\ gate.score = "PASSED" /\ gate.scored = Current
              /\ draftVersion = Current /\ versions[Current] = stage[Draft].made
              /\ \A k \in Ranks \ {1} : stage[k].basis = stage[k - 1].made

-----------------------------------------------------------------------------
(* The inductive invariant behind them                                       *)

Generates(r)  == req[r].pc \in {"submit", "record"}
StagePassed(k) == stage[k].status = IF IsApproval(k) THEN "APPROVED" ELSE "READY"
Submitted     ==
    \/ item.status \in {"REVIEW", "APPROVED"}
    \/ item.status = "ARCHIVED" /\ item.from \in {"REVIEW", "APPROVED"}

ClaimsCounted    == \A r \in Requests :
    Generates(r) => req[r].made \in 1..claims[req[r].stage]
SubmissionStands ==
    /\ item.status = "ARCHIVED" => item.from # "NONE"
    /\ Submitted => item.submitted = Current

\* As long as nobody wrote too late: a stage that is not PENDING was claimed when
\* the one before it was settled, and what it has is of its last claim;
StagesInOrder == \A k \in Ranks :
    /\ stage[k].status = "PENDING" => stage[k].job = "NONE"
    /\ stage[k].status \in {"READY", "APPROVED"} => stage[k].job = "COMPLETED"
    /\ stage[k].job # "NONE" => stage[k].made = claims[k] /\ claims[k] # 0
    /\ k > 1 /\ stage[k].status # "PENDING" => StagePassed(k - 1)
    /\ k > 1 /\ stage[k].job # "NONE" => stage[k].basis = stage[k - 1].made

\* so does whoever holds its last claim;
BasisKnown == \A r \in Requests :
    Generates(r) /\ stage[req[r].stage] = Claimed /\ req[r].made = claims[req[r].stage]
        => req[r].stage = 1 \/ req[r].basis = stage[req[r].stage - 1].made

\* a draft that is ready has its version, the last but for those of persons;
DraftTaken ==
    /\ Current > 0
    /\ draftVersion # 0 <=> stage[Draft].status = "READY"
    /\ draftVersion # 0 => /\ versions[draftVersion] = stage[Draft].made
                           /\ \A v \in 1..Current : v > draftVersion => versions[v] = 0
    /\ \A v \in 1..Current :
           /\ versions[v] <= claims[Draft]
           /\ draftVersion = 0 /\ stage[Draft].status # "PENDING" => versions[v] < claims[Draft]

\* and a gate that is met is met by that version.
GatesKnow ==
    /\ gate.qa => draftVersion # 0
    /\ gate.score # "NONE" => gate.qa /\ (ByPipeline => gate.scored = Current)
    /\ Submitted => gate.score = "PASSED" /\ \A k \in Ranks : StagePassed(k)

BlogIInv ==
    /\ BlogTypeOK /\ GeneratingIsOwned /\ ClaimsCounted /\ SubmissionStands
    /\ belated \/ (StagesInOrder /\ BasisKnown /\ DraftTaken /\ GatesKnow)
=============================================================================
