---------------------------- MODULE VideoPipeline ---------------------------
(* One video of the video pipeline: VideoPipelineService (text stages),      *)
(* VideoMediaService (scene assets, voice, subtitles), VideoRenderService    *)
(* and VideoQaService, over ContentItemsService.                             *)
(*                                                                           *)
(* Every generation is three steps: claim the stage under the lock of the    *)
(* item, submit a job outside of it, record the job's id under the lock      *)
(* again. What a job brought is taken over by the next operation that        *)
(* reconciles the pipeline. A submission gets a serial number, which names   *)
(* its job, the artifact or the file the job makes, and (as "claim",         *)
(* history) the stage while it is the last to have claimed it.               *)
(*                                                                           *)
(* Every transaction locks the item first and is one step; the state is part *)
(* of the item's metadata and is always read under that lock.                *)
(*                                                                           *)
(* Left out: what artifacts say (two scripts are never the same, and every   *)
(* plan of a video refers to the same segments), geometry and durations, the *)
(* advisory stages (thumbnail, recommendations), which no gate reads, the    *)
(* creation of the item, and its archiving and removal, which are those of   *)
(* BlogPipeline. The output of a render is a version of the one file of the  *)
(* video: finding that file and adding a version to it is one step.          *)
EXTENDS Naturals, Sequences, ApiRequests

CONSTANTS
    Scenes,       \* scene ids a plan may have
    Uploads,      \* files a person may attach to a scene
    Profiles,     \* voices
    MaxEffort     \* bound on submissions, failures of jobs and changes of files

VARIABLES
    video,       \* metadata.videoPipeline, and the SEO columns of video_scripts
    jobs,        \* ai_jobs, media_jobs and video_render_jobs, by serial number
    upload,      \* the ACTIVE version of each attached file, 0 if there is none
    gone,        \* the generated files that are not ACTIVE any more
    itemStatus,
    effort,
    belated,     \* a request wrote what its check no longer allowed (history)
    orphaned     \* claims whose request died before it recorded a job (history)

vars == <<video, jobs, upload, gone, itemStatus, effort, belated, orphaned, req>>

TextStages == {"brief", "script", "plan", "seo"}
StageNames == TextStages \cup {"voice", "subs", "render"}

ASSUME VideoAssumption == None \notin Nat /\ Scenes \cap StageNames = {}

\* The id a media or a render stage has between its claim and the job's: it is
\* not a UUID, and every query with it among the ids it looks for fails.
Placeholder == 0

-----------------------------------------------------------------------------
(* The state of the pipeline                                                 *)

NoText   == [status |-> "PENDING", job |-> None, artifact |-> None, claim |-> 0]
NoScene  == [group |-> None, asset |-> 0, job |-> None, claim |-> 0]
NoVoice  == [status |-> "PENDING", job |-> None, audio |-> None, hash |-> None, claim |-> 0]
NoSubs   == [status |-> "PENDING", job |-> None, vtt |-> None, source |-> None, claim |-> 0]
NoRender == [status |-> "PENDING", job |-> None, claim |-> 0]

\* A QA report or a score that did not pass opens no gate, and is none here. A
\* score knows what was scored, and which artifacts there were then (history).
NoQa     == [passed |-> FALSE, render |-> None]
NoScore  == [passed |-> FALSE, of |-> <<>>, seen |-> <<>>]
NoScenes == [s \in {} |-> NoScene]

Created ==
    [brief |-> NoText, script |-> NoText, plan |-> NoText, seo |-> NoText,
     scenes |-> NoScenes, voice |-> NoVoice, subs |-> NoSubs, render |-> NoRender,
     qa |-> NoQa, score |-> NoScore, columns |-> None]

\* A video with every gate met, its one scene shown by an attached file.
Text(n) == [status |-> "READY", job |-> n, artifact |-> n, claim |-> n]
Produced(s, u) ==
    [brief |-> Text(1), script |-> [Text(2) EXCEPT !.status = "APPROVED"],
     plan |-> Text(3), seo |-> Text(4),
     scenes |-> [x \in {s} |-> [NoScene EXCEPT !.group = u, !.asset = 1]],
     voice |-> [status |-> "READY", job |-> None, audio |-> 5, hash |-> 2, claim |-> 5],
     subs |-> [status |-> "READY", job |-> None, vtt |-> 6, source |-> 5, claim |-> 6],
     render |-> [status |-> "READY", job |-> 7, claim |-> 7],
     qa |-> [passed |-> TRUE, render |-> 7],
     score |-> [passed |-> TRUE, of |-> <<2, 3, 4>>, seen |-> <<2, 3, 4>>], columns |-> 4]

Job(kind, from, status, covers) ==
    [kind |-> kind, from |-> from, status |-> status, covers |-> covers]

\* What a render is made of: the fences of its job.
Frozen(v) ==
    [script |-> v.script.artifact, audio |-> v.voice.audio, vtt |-> v.subs.vtt,
     scenes |-> [s \in DOMAIN v.scenes |-> <<v.scenes[s].group, v.scenes[s].asset>>]]

\* The claims that reset the render (history).
Upstream(v) == <<v.brief.claim, v.script.claim, v.plan.claim>>

ProducedJobs(s, u, p) ==
    <<Job("brief", <<>>, "COMPLETED", {}), Job("script", <<1>>, "COMPLETED", {}),
      Job("plan", <<2>>, "COMPLETED", {s}), Job("seo", <<2>>, "COMPLETED", {}),
      Job("voice", <<p, 2>>, "COMPLETED", {}), Job("subs", <<5>>, "COMPLETED", {}),
      Job("render", <<Frozen(Produced(s, u)), 3, Upstream(Produced(s, u))>>, "COMPLETED", {})>>

\* Which voice a produced video has makes no difference.
VideoInit ==
    /\ \/ video = Created /\ jobs = <<>>
       \/ \E s \in Scenes, u \in Uploads :
              video = Produced(s, u) /\ jobs = ProducedJobs(s, u, CHOOSE p \in Profiles : TRUE)
    /\ upload = [u \in Uploads |-> 1] /\ gone = {}
    /\ itemStatus = "IN_PROGRESS" /\ effort = 0
    /\ belated = FALSE /\ orphaned = {}
    /\ req = [r \in Requests |-> Idle]

Editable == itemStatus = "IN_PROGRESS"

-----------------------------------------------------------------------------
(* finalizeStages: take over what the jobs brought, and see what still holds *)

Ended(n)     == n \in DOMAIN jobs /\ jobs[n].status \in {"COMPLETED", "FAILED"}
Completed(n) == jobs[n].status = "COMPLETED"

FinalText(stage, valid) ==
    IF stage.status \in {"APPROVED", "READY"} \/ ~Ended(stage.job) THEN stage
    ELSE IF Completed(stage.job) /\ valid
         THEN [stage EXCEPT !.status = "READY", !.artifact = stage.job]
         ELSE [stage EXCEPT !.status = "FAILED"]

\* The columns keep the metadata of a stage that is claimed or reset. (A definition
\* marked Slip is a plausible mistake in the one after it; the checks must notice it.)
ColumnsKept(v, seo) == v.columns                      \* Slip: not written
Columns(v, seo)     == IF seo.status = "READY" THEN seo.artifact ELSE v.columns

\* A plan must refer to the segments of the script there is.
FinalTexts(v) ==
    LET script == FinalText(v.script, TRUE)
        seo    == FinalText(v.seo, TRUE)
    IN  [v EXCEPT !.brief = FinalText(v.brief, TRUE), !.script = script,
                  !.plan = FinalText(v.plan, script.artifact # None),
                  !.seo = seo, !.columns = Columns(v, seo)]

\* currentActiveVersion of a file.
ActiveVersion(g) ==
    IF g \in Uploads THEN upload[g] ELSE IF g \in gone THEN 0 ELSE 1

PlanScenes(v) == IF v.plan.artifact = None THEN {} ELSE jobs[v.plan.artifact].covers

Advanced(sc) ==
    IF ~Ended(sc.job) THEN sc
    ELSE IF Completed(sc.job) /\ ActiveVersion(sc.job) # 0
         THEN [sc EXCEPT !.group = sc.job, !.job = None]
         ELSE [sc EXCEPT !.job = None]

Verified(sc) ==
    IF sc.group = None THEN sc
    ELSE IF ActiveVersion(sc.group) = 0
         THEN [sc EXCEPT !.group = None, !.asset = 0]
         ELSE [sc EXCEPT !.asset = ActiveVersion(sc.group)]

\* Rebuilt to match the plan there is: none while another is generated.
ScenesOf(v) ==
    [s \in PlanScenes(v) |->
        IF s \in DOMAIN v.scenes THEN Verified(Advanced(v.scenes[s])) ELSE NoScene]

VoiceTaken(voice) ==
    IF voice.status = "READY" \/ ~Ended(voice.job) THEN voice
    ELSE IF Completed(voice.job) /\ voice.job \notin gone
         THEN [voice EXCEPT !.status = "READY", !.audio = voice.job, !.job = None,
                            !.hash = jobs[voice.job].from[2]]
         ELSE [voice EXCEPT !.status = "FAILED", !.job = None]

VoiceOf(v) ==
    LET voice == VoiceTaken(v.voice)
        stale == v.script.artifact \notin {None, voice.hash}
    IN  IF voice.status = "READY" /\ (voice.audio \in gone \/ stale)
        THEN [voice EXCEPT !.status = "PENDING"] ELSE voice

SubsTaken(subs) ==
    IF subs.status = "READY" \/ ~Ended(subs.job) THEN subs
    ELSE IF Completed(subs.job) /\ subs.job \notin gone
         THEN [subs EXCEPT !.status = "READY", !.vtt = subs.job, !.job = None,
                           !.source = jobs[subs.job].from[1]]
         ELSE [subs EXCEPT !.status = "FAILED", !.job = None]

SubsOf(v, voice) ==
    LET subs == SubsTaken(v.subs)
    IN  IF subs.status = "READY" /\ subs.source # voice.audio
        THEN [subs EXCEPT !.status = "PENDING"] ELSE subs

Media(v) ==
    LET voice == VoiceOf(v)
    IN  [v EXCEPT !.scenes = ScenesOf(v), !.voice = voice, !.subs = SubsOf(v, voice)]

\* The gates whose status a later reconciliation would only compute again.
AssetsReady(v) ==
    DOMAIN v.scenes # {} /\ \A s \in DOMAIN v.scenes : v.scenes[s].group # None

Sound(v) ==
    /\ v.script.status = "APPROVED" /\ AssetsReady(v)
    /\ v.voice.status = "READY" /\ v.subs.status = "READY"

SameNarration(n, v) ==             \* Slip: the scenes may have changed
    [jobs[n].from[1] EXCEPT !.scenes = Frozen(v).scenes] = Frozen(v)
SameFences(n, v)    == jobs[n].from[1] = Frozen(v)

RenderStatus(v) ==
    LET n == v.render.job
    IN  IF n \notin DOMAIN jobs THEN v.render.status
        ELSE IF jobs[n].status = "QUEUED" THEN "RUNNING"
        ELSE IF jobs[n].status = "FAILED" \/ n \in gone THEN "FAILED"
        ELSE IF SameFences(n, v) /\ Sound(v) THEN "READY" ELSE "PENDING"

Rendered(v) == [v EXCEPT !.render.status = RenderStatus(v)]

QaOf(v) ==
    IF v.render.status # "READY" \/ v.qa.render # v.render.job
    THEN [v EXCEPT !.qa = NoQa] ELSE v

Reconciled(v) == Rendered(Media(v))
Finalized     == QaOf(Reconciled(FinalTexts(video)))

\* The jobs of the media stages are looked up by their ids.
Readable ==
    /\ Placeholder \notin {video.voice.job, video.subs.job}
    /\ \A s \in DOMAIN video.scenes : video.scenes[s].job # Placeholder

-----------------------------------------------------------------------------
(* Claims                                                                    *)

Serial == Len(jobs) + 1

\* An operation that takes a stage leaves the pipeline as v and submits a job of
\* that kind. It reserves the serial number.
MayClaim(r) == At(r, "idle") /\ Readable /\ Editable /\ effort < MaxEffort

Claim(r, what, kind, from, v) ==
    /\ video' = v
    /\ Begin(r, [pc |-> "submit", what |-> what, serial |-> Serial])
    /\ jobs' = Append(jobs, Job(kind, from, "NONE", {})) /\ effort' = effort + 1
    /\ UNCHANGED <<upload, gone, itemStatus, belated, orphaned>>

\* claimStage: the stage, and what depends on it, starts again.
Generating == [NoText EXCEPT !.status = "GENERATING", !.claim = Serial]

RenderKept(v)  == [v EXCEPT !.qa = NoQa, !.score = NoScore]     \* Slip: of the old plan
RenderReset(v) == [v EXCEPT !.render = NoRender, !.qa = NoQa, !.score = NoScore]
ScriptReset(v) ==
    [RenderReset(v) EXCEPT !.plan = NoText, !.seo = NoText, !.scenes = NoScenes,
                           !.voice = NoVoice, !.subs = NoSubs]

ClaimStage(r, k) ==
    LET v == Finalized
    IN  /\ MayClaim(r) /\ v[k].status # "GENERATING"
        /\ CASE k = "brief" ->
                  Claim(r, k, k, <<>>,
                        [ScriptReset(v) EXCEPT !.brief = Generating, !.script = NoText])
             [] k = "script" ->
                  /\ v.brief.status = "READY"
                  /\ Claim(r, k, k, <<v.brief.artifact>>,
                           [ScriptReset(v) EXCEPT !.script = Generating])
             [] k = "plan" ->
                  /\ v.script.status = "APPROVED"
                  /\ Claim(r, k, k, <<v.script.artifact>>,
                           [RenderReset(v) EXCEPT !.plan = Generating])
             [] k = "seo" ->
                  /\ v.script.status = "APPROVED"
                  /\ Claim(r, k, k, <<v.script.artifact>>,
                           [v EXCEPT !.seo = Generating, !.score = NoScore])

GenerateSceneImage(r, s) ==
    LET v == Media(video)
    IN  /\ MayClaim(r) /\ v.plan.status = "READY" /\ s \in DOMAIN v.scenes /\ v.scenes[s].job = None
        /\ Claim(r, s, "image", <<s, v.plan.artifact>>,
                 [v EXCEPT !.scenes[s].job = Placeholder, !.scenes[s].claim = Serial])

\* Subtitles of the old voice are dropped.
GenerateVoice(r, p) ==
    LET v == Media(video)
    IN  /\ MayClaim(r) /\ v.script.status = "APPROVED" /\ v.voice.job = None
        /\ Claim(r, "voice", "voice", <<p, v.script.artifact>>,
                 [v EXCEPT !.voice = [NoVoice EXCEPT !.status = "RUNNING", !.claim = Serial,
                                                     !.job = Placeholder],
                           !.subs = IF @.status = "PENDING" THEN @ ELSE NoSubs])

GenerateSubtitles(r) ==
    LET v == Media(video)
    IN  /\ MayClaim(r) /\ v.voice.status = "READY" /\ v.subs.job = None
        /\ Claim(r, "subs", "subs", <<v.voice.audio>>,
                 [v EXCEPT !.subs = [@ EXCEPT !.status = "RUNNING", !.claim = Serial,
                                              !.job = Placeholder, !.vtt = None]])

\* One live render at a time: the placeholder cannot be looked up either.
PlaceholderIsNone(n) == n \notin DOMAIN jobs     \* Slip: no job with that id
NoJobYet(n)          == n = None

SubmitRender(r) ==
    LET v == Reconciled(video)
    IN  /\ MayClaim(r)
        /\ \/ NoJobYet(v.render.job)
           \/ v.render.job \in DOMAIN jobs /\ jobs[v.render.job].status # "QUEUED"
        /\ Sound(v) /\ v.plan.status = "READY" /\ v.subs.vtt \notin gone
        /\ Claim(r, "render", "render", <<Frozen(v), v.plan.artifact, Upstream(v)>>,
                 [v EXCEPT !.render = [status |-> "RUNNING", job |-> Placeholder, claim |-> Serial],
                           !.qa = NoQa])

-----------------------------------------------------------------------------
(* Submission and record                                                     *)

IsMedia(n) == jobs[n].kind \in {"image", "voice", "subs"}

\* A media job with the same fingerprint is used again unless it failed.
Reusable(i) ==
    {n \in DOMAIN jobs : /\ IsMedia(n) /\ jobs[n].status \in {"QUEUED", "UNSENT", "COMPLETED"}
                         /\ jobs[n].kind = jobs[i].kind /\ jobs[n].from = jobs[i].from}

Submitted(r, n) ==
    req' = [req EXCEPT ![r] = [pc |-> "record", what |-> req[r].what, serial |-> req[r].serial,
                               job |-> n]]

\* The row is written, then the background job is enqueued: both may fail. A row
\* without a background job stays QUEUED (UNSENT here, and NONE if nothing reads it).
SubmitJob(r) ==
    LET i == req[r].serial
    IN  /\ At(r, "submit")
        /\ \/ \E n \in Reusable(i) : Submitted(r, n) /\ UNCHANGED jobs
           \/ /\ Reusable(i) = {}
              /\ \/ jobs' = [jobs EXCEPT ![i].status = "QUEUED"] /\ Submitted(r, i)
                 \/ /\ jobs' = [jobs EXCEPT ![i].status = IF IsMedia(i) THEN "UNSENT" ELSE @]
                    /\ Submitted(r, None)
                 \/ UNCHANGED jobs /\ Submitted(r, None)
        /\ UNCHANGED <<video, upload, gone, itemStatus, effort, belated, orphaned>>

\* The job's id, or the failure, is recorded whatever the stage has become.
PlaceholderKept(old) == [old EXCEPT !.status = "FAILED"]     \* Slip: the id is left
WithoutJob(old)      == [old EXCEPT !.status = "FAILED", !.job = None]

Recorded(old, what, n) ==
    IF n = None
    THEN IF what \in TextStages THEN [old EXCEPT !.status = "FAILED"] ELSE WithoutJob(old)
    ELSE [old EXCEPT !.job = n, !.status = IF what \in TextStages THEN "GENERATING"
                                           ELSE IF what = "render" THEN "RUNNING" ELSE @]

SceneRecorded(s, n) ==
    IF s \in DOMAIN video.scenes THEN [video EXCEPT !.scenes[s].job = n] ELSE video

Overtaken(r) ==
    /\ req[r].what \in TextStages \cup {"render"}
    /\ \/ ~Editable \/ video[req[r].what].claim # req[r].serial
       \/ video[req[r].what].job \notin {None, Placeholder}

RecordJob(r) ==
    LET what == req[r].what
    IN  /\ At(r, "record")
        /\ video' = IF what \in Scenes THEN SceneRecorded(what, req[r].job)
                    ELSE [video EXCEPT ![what] = Recorded(@, what, req[r].job)]
        /\ belated' = (belated \/ Overtaken(r) \/ ~Editable)
        /\ Done(r) /\ UNCHANGED <<jobs, upload, gone, itemStatus, effort, orphaned>>

-----------------------------------------------------------------------------
(* What happens to jobs and files                                            *)

External == UNCHANGED <<video, itemStatus, belated, orphaned, req>>

\* A render's output is a version of the file of the video, and archives the one
\* before. A text job that failed may be completed by a late attempt.
JobCompletes(n) ==
    /\ \/ jobs[n].status = "QUEUED"
       \/ jobs[n].status = "FAILED" /\ jobs[n].kind \in TextStages
    /\ \E covers \in IF jobs[n].kind = "plan" THEN SUBSET Scenes \ {{}} ELSE {{}} :
           jobs' = [jobs EXCEPT ![n].status = "COMPLETED", ![n].covers = covers]
    /\ gone' = IF jobs[n].kind # "render" THEN gone
               ELSE gone \cup {m \in DOMAIN jobs : jobs[m].kind = "render"
                                                   /\ jobs[m].status = "COMPLETED"}
    /\ External /\ UNCHANGED <<upload, effort>>

\* An output that is not valid fails the stage as a job that failed does.
JobFails(n) ==
    /\ jobs[n].status = "QUEUED"
    /\ effort < MaxEffort /\ effort' = effort + 1
    /\ jobs' = [jobs EXCEPT ![n].status = "FAILED"]
    /\ External /\ UNCHANGED <<upload, gone>>

ArchiveGenerated(n) ==
    /\ jobs[n].status = "COMPLETED" /\ jobs[n].kind \notin TextStages
    /\ effort < MaxEffort /\ effort' = effort + 1
    /\ gone' = gone \cup {n} /\ External /\ UNCHANGED <<jobs, upload>>

\* A new version takes the place of an attached file, or it is archived.
ChangeUpload(u) ==
    /\ upload[u] # 0 /\ effort < MaxEffort /\ effort' = effort + 1
    /\ \E v \in {0, upload[u] + 1} : upload' = [upload EXCEPT ![u] = v]
    /\ External /\ UNCHANGED <<jobs, gone>>

-----------------------------------------------------------------------------
(* Operations of one transaction                                             *)

Mutation(v) ==
    /\ Readable /\ video' = v
    /\ UNCHANGED <<jobs, upload, gone, itemStatus, effort, belated, orphaned>>

\* The controller does so before it calls a media, a render or a QA operation.
EnsureAiStagesFinalized == Mutation(Finalized) /\ UNCHANGED req

ApproveScript ==
    /\ Editable /\ Readable /\ Finalized.script.status = "READY"
    /\ Mutation([Finalized EXCEPT !.script.status = "APPROVED"]) /\ UNCHANGED req

AttachSceneAsset(s, u) ==
    LET v == Media(video)
    IN  /\ Editable /\ s \in DOMAIN v.scenes /\ upload[u] # 0
        /\ Mutation(Media([v EXCEPT !.scenes[s] = [NoScene EXCEPT !.group = u, !.asset = upload[u]]]))
        /\ UNCHANGED req

-----------------------------------------------------------------------------
(* QA, scoring, review                                                       *)

\* The render is inspected outside of any transaction.
QaGather(r) ==
    LET v == QaOf(Reconciled(video))
    IN  /\ At(r, "idle") /\ Readable /\ Editable /\ v.render.status = "READY"
        /\ Mutation(v) /\ Begin(r, [pc |-> "qa", render |-> v.render.job])

\* A report about another render than the one there is by then is discarded.
QaRecord(r) ==
    LET v == Reconciled(video)
    IN  /\ At(r, "qa") /\ Readable /\ v.render.status = "READY" /\ v.render.job = req[r].render
        /\ \E qa \in {NoQa, [passed |-> TRUE, render |-> req[r].render]} :
               Mutation([v EXCEPT !.qa = qa])
        /\ Done(r)

ScoreCheck(r) == Editable /\ Begin(r, [pc |-> "score"]) /\ Mutation(Finalized)

\* What is persisted is scored, in two reads without a lock: the texts of the
\* item, then the row, which has the former SEO while a new one is generated.
ScoreTexts(r) ==
    /\ At(r, "score")
    /\ req' = [req EXCEPT ![r] = [pc |-> "scoreRow",
                                  texts |-> <<video.script.artifact, video.plan.artifact>>]]
    /\ UNCHANGED <<video, jobs, upload, gone, itemStatus, effort, belated, orphaned>>

Score(r) ==
    LET text == req[r].texts
        of   == <<text[1], text[2], video.columns>>
        seen == <<text[1], text[2], video.seo.artifact>>
    IN  /\ At(r, "scoreRow")
        /\ req' = [req EXCEPT ![r] = [pc |-> "scored",
                                      score |-> [passed |-> TRUE, of |-> of, seen |-> seen]]]
        /\ UNCHANGED <<video, jobs, upload, gone, itemStatus, effort, belated, orphaned>>

\* The artifacts there are of the stages that a score is about.
Artifacts(v) == <<v.script.artifact, v.plan.artifact, v.seo.artifact>>

\* A score that passed is late once one of them came, went or changed after it
\* was read.
ScoreRecord(r) ==
    /\ At(r, "scored")
    /\ \E score \in {NoScore, req[r].score} :
           /\ video' = [video EXCEPT !.score = score]
           /\ belated' = (belated \/ ~Editable
                          \/ (score.passed /\ score.seen # Artifacts(video)))
    /\ Done(r) /\ UNCHANGED <<jobs, upload, gone, itemStatus, effort, orphaned>>

\* unmetReviewGates(v) = [].
GatesMet(v) ==
    /\ v.script.status = "APPROVED" /\ AssetsReady(v) /\ v.voice.status = "READY"
    /\ v.render.status = "READY" /\ v.qa.passed /\ v.seo.status = "READY" /\ v.score.passed

AssertReadyForReview(r) ==
    /\ At(r, "idle") /\ Editable /\ Mutation(Finalized)
    /\ IF GatesMet(video') THEN Begin(r, [pc |-> "review"]) ELSE UNCHANGED req

\* A transaction of its own, which looks at the status only.
SubmitForReview(r) ==
    /\ At(r, "review") /\ Editable /\ itemStatus' = "REVIEW"
    /\ belated' = (belated \/ ~GatesMet(video) \/ video # Finalized)
    /\ Done(r) /\ UNCHANGED <<video, jobs, upload, gone, effort, orphaned>>

\* (To the pipeline an approved item is as one under review.)
Reject ==
    /\ itemStatus = "REVIEW" /\ itemStatus' = "IN_PROGRESS"
    /\ UNCHANGED <<video, jobs, upload, gone, effort, belated, orphaned, req>>

-----------------------------------------------------------------------------
\* The request dies, or its next transaction is refused or fails.
Abort(r) ==
    /\ ~At(r, "idle") /\ Done(r)
    /\ orphaned' = IF req[r].pc \in {"submit", "record"}
                   THEN orphaned \cup {req[r].serial} ELSE orphaned
    /\ UNCHANGED <<video, jobs, upload, gone, itemStatus, effort, belated>>

Request(r) ==
    \/ \E k \in TextStages : ClaimStage(r, k)
    \/ \E s \in Scenes : GenerateSceneImage(r, s)
    \/ \E p \in Profiles : GenerateVoice(r, p)
    \/ GenerateSubtitles(r) \/ SubmitRender(r)
    \/ SubmitJob(r) \/ RecordJob(r)
    \/ QaGather(r) \/ QaRecord(r)
    \/ ScoreCheck(r) \/ ScoreTexts(r) \/ Score(r) \/ ScoreRecord(r)
    \/ AssertReadyForReview(r) \/ SubmitForReview(r)
    \/ Abort(r)

Next ==
    \/ \E r \in Requests : Request(r)
    \/ EnsureAiStagesFinalized \/ ApproveScript \/ Reject
    \/ \E s \in Scenes, u \in Uploads : AttachSceneAsset(s, u)
    \/ \E n \in DOMAIN jobs : JobCompletes(n) \/ JobFails(n) \/ ArchiveGenerated(n)
    \/ \E u \in Uploads : ChangeUpload(u)

Spec == VideoInit /\ [][Next]_vars

-----------------------------------------------------------------------------
(* Properties                                                                *)

Awaited(claim) ==
    \/ claim \in orphaned
    \/ \E r \in Requests : req[r].pc \in {"submit", "record"} /\ req[r].serial = claim

\* A stage that was claimed cannot be claimed again, and a placeholder makes the
\* whole video unreadable; so each has a request that is going to record a job
\* or the failure, unless that request died.
StagesOwned ==
    /\ \A k \in TextStages :
           video[k].status = "GENERATING" /\ video[k].job = None => Awaited(video[k].claim)
    /\ \A k \in {"voice", "subs", "render"} :
           video[k].job = Placeholder => Awaited(video[k].claim)
    /\ \A s \in DOMAIN video.scenes :
           video.scenes[s].job = Placeholder => Awaited(video.scenes[s].claim)

\* "Regenerating a stage invalidates it and every MANDATORY stage downstream of
\* it" and "any drift -> the render is not current": unless something was
\* recorded or changed too late, everything in a video that is submitted for
\* review was made from what it has by then. The score is of its script, and of
\* its plan and its SEO if there were any when it was computed. (A score that was
\* computed while one of the two was being generated counts all the same: it is of
\* no plan, or of the metadata that the row still had from a former SEO, if any.)
Current ==
    /\ jobs[video.script.artifact].from = <<video.brief.artifact>>
    /\ jobs[video.plan.artifact].from   = <<video.script.artifact>>
    /\ jobs[video.seo.artifact].from    = <<video.script.artifact>>
    /\ jobs[video.voice.audio].from[2]  = video.script.artifact
    /\ jobs[video.subs.vtt].from        = <<video.voice.audio>>
    /\ jobs[video.render.job].from[1]   = Frozen(video)
    /\ jobs[video.render.job].from[2]   = video.plan.artifact
    /\ video.qa.render = video.render.job
    /\ video.score.of[1] = video.script.artifact
    /\ \A i \in {2, 3} : video.score.seen[i] # None => video.score.of[i] = Artifacts(video)[i]

SubmittedIsCurrent ==
    [][itemStatus = "IN_PROGRESS" /\ itemStatus' = "REVIEW" /\ ~belated' => Current]_vars

\* The jobs that render.
LiveRenders == {n \in DOMAIN jobs : jobs[n].kind = "render" /\ jobs[n].status = "QUEUED"}

\* "Concurrency guard - one live render at a time": two jobs of the same video
\* render at the same time only if a stage before was generated in between.
OneRender ==
    ~belated => \A n, m \in LiveRenders : jobs[n].from[3] = jobs[m].from[3] => n = m
-----------------------------------------------------------------------------
(* The inductive invariant behind StagesOwned and OneRender                  *)

VideoShape(v) ==
    /\ DOMAIN v = StageNames \cup {"scenes", "qa", "score", "columns"}
    /\ \A k \in TextStages : DOMAIN v[k] = DOMAIN NoText
    /\ DOMAIN v.voice = DOMAIN NoVoice /\ DOMAIN v.subs = DOMAIN NoSubs
    /\ DOMAIN v.render = DOMAIN NoRender
    /\ \A s \in DOMAIN v.scenes : DOMAIN v.scenes[s] = DOMAIN NoScene

JobsShape(js) ==
    /\ js \in Seq({js[n] : n \in DOMAIN js})
    /\ \A n \in DOMAIN js : DOMAIN js[n] = {"kind", "from", "status", "covers"}

\* A request that is going to record a job has a serial number of its own.
Pending(r) == req[r].pc \in {"submit", "record"}
RequestsKnown ==
    /\ DOMAIN req = Requests
    /\ \A r \in Requests : Pending(r) =>
           /\ req[r].serial \in DOMAIN jobs /\ req[r].what \in StageNames \cup Scenes
           /\ req[r].pc = "record" => req[r].job \in {None} \cup DOMAIN jobs
    /\ \A r, q \in Requests : Pending(r) /\ Pending(q) /\ req[r].serial = req[q].serial => r = q

\* Nothing but the stage it claimed has the number of such a request.
ClaimsKnown ==
    /\ \A k \in StageNames : video[k].claim \in 0..Len(jobs)
    /\ \A s \in DOMAIN video.scenes : video.scenes[s].claim \in 0..Len(jobs)
    /\ \A r \in Requests : Pending(r) =>
           /\ \A k \in StageNames : video[k].claim = req[r].serial => req[r].what = k
           /\ \A s \in DOMAIN video.scenes :
                  video.scenes[s].claim = req[r].serial => req[r].what = s /\ s \in Scenes

OwnedInv == VideoShape(video) /\ JobsShape(jobs) /\ RequestsKnown /\ ClaimsKnown /\ StagesOwned

\* A render that has not come to an end, or is about to be sent.
IsRender(n) == n \in DOMAIN jobs /\ jobs[n].kind = "render"
Live(n) ==
    IsRender(n) /\ (jobs[n].status = "QUEUED" \/ \E r \in Requests : At(r, "submit") /\ req[r].serial = n)

RendersKnown ==
    /\ \A r \in Requests : Pending(r) =>
           /\ req[r].what = "render" <=> IsRender(req[r].serial)
           /\ req[r].pc = "submit" => jobs[req[r].serial].status = "NONE"
           /\ req[r].pc = "record" /\ req[r].what = "render" =>
                  req[r].job = IF jobs[req[r].serial].status = "NONE" THEN None ELSE req[r].serial
    /\ \A n \in DOMAIN jobs : IsRender(n) =>
           \E a, b, c \in 0..(n - 1) : jobs[n].from[3] = <<a, b, c>>

\* A live render of what the video has by now is the one it waits for.
RenderAwaited ==
    \A n \in DOMAIN jobs : Live(n) /\ jobs[n].from[3] = Upstream(video) =>
        /\ video.render.claim = n
        /\ video.render.job = Placeholder \/ (video.render.job = n /\ jobs[n].status = "QUEUED")

LiveOnce ==
    \A n, m \in DOMAIN jobs :
        Live(n) /\ Live(m) /\ jobs[n].from[3] = jobs[m].from[3] => n = m

RenderInv == OwnedInv /\ RendersKnown /\ (~belated => RenderAwaited /\ LiveOnce)
-----------------------------------------------------------------------------
(* The inductive invariant behind SubmittedIsCurrent                         *)

Made(kind) == {n \in DOMAIN jobs : jobs[n].kind = kind}

\* What was taken over is of the kind of its stage, with what it was made from.
MediaKnown(v) ==
    /\ v.voice.job \in {None, Placeholder} \cup Made("voice")
    /\ v.voice.status = "READY" =>
           v.voice.audio \in Made("voice") /\ v.voice.hash = jobs[v.voice.audio].from[2]
    /\ v.subs.job \in {None, Placeholder} \cup Made("subs")
    /\ v.subs.status = "READY" =>
           v.subs.vtt \in Made("subs") /\ jobs[v.subs.vtt].from = <<v.subs.source>>
    /\ v.render.status = "READY" => v.render.job \in DOMAIN jobs

SubsFollowVoice == \A n \in Made("subs") : jobs[n].from = <<jobs[n].from[1]>>

\* Who is going to record a job has one of its stage.
JobsAsked ==
    \A r \in Requests : Pending(r) /\ req[r].what \in StageNames =>
        /\ jobs[req[r].serial].kind = req[r].what
        /\ req[r].pc = "record" /\ req[r].job # None =>
               /\ jobs[req[r].job].kind = req[r].what
               /\ req[r].what \in TextStages => req[r].job = req[r].serial

\* A text stage has the job of its last claim and what came of it, and none of
\* them as long as that claim is pending;
Passed(stage) == stage.status \in {"READY", "APPROVED"}
TextKnown(stage) ==
    /\ stage.job \in {None, stage.claim}
    /\ stage.artifact = IF Passed(stage) THEN stage.claim ELSE None
    /\ Passed(stage) => stage.claim \in DOMAIN jobs

TextsKnown(v) ==
    \A k \in TextStages :
        /\ TextKnown(v[k])
        /\ \A r \in Requests : Pending(r) /\ req[r].what = k /\ req[r].serial = v[k].claim =>
               v[k].job = None /\ ~Passed(v[k])

\* and what was claimed last was claimed of what is there.
ChainKnown(v) ==
    /\ v.script.claim # 0 =>
           v.brief.status = "READY" /\ jobs[v.script.claim].from = <<v.brief.artifact>>
    /\ \A k \in {"plan", "seo"} : v[k].claim # 0 =>
           v.script.status = "APPROVED" /\ jobs[v[k].claim].from = <<v.script.artifact>>
    /\ v.render.claim # 0 =>
           v.plan.status = "READY" /\ jobs[v.render.claim].from[2] = v.plan.artifact
    /\ v.render.job \in {None, Placeholder, v.render.claim}
    /\ v.score.passed =>
           /\ \A i \in 1..3 : v.score.seen[i] \in {None, Artifacts(v)[i]}
           /\ v.plan.claim # 0 => v.score.seen[1] # None

\* (The text stages only as long as nothing was recorded too late.)
Traced(v)  == MediaKnown(v) /\ (~belated => TextsKnown(v) /\ ChainKnown(v))
CurrentInv == RenderInv /\ SubsFollowVoice /\ JobsAsked /\ Traced(video)

\* The row has the metadata there is, if there is any; so what was scored is what
\* there was then, if there was anything.
ColumnsKnown(v) == v.seo.artifact # None => v.columns = v.seo.artifact
Honest(score)   == score.passed => \A i \in 1..3 : score.seen[i] \in {None, score.of[i]}
ScoreInv ==
    /\ ColumnsKnown(video) /\ Honest(video.score)
    /\ \A r \in Requests : At(r, "scored") => Honest(req[r].score)
=============================================================================
