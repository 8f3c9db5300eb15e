# MyEV Media: a verification of its jobs, events, publishing and content flows

TLA+ models, model-checking configurations and machine-checked proofs for the
MyEV Media platform (a pnpm monorepo: `apps/api`, `apps/worker`,
`apps/render-worker`, `apps/web`, `packages/shared`, `packages/worker-core`).
Postgres is the authority of the platform's state; Redis/BullMQ only delivers.
Everything that can go wrong in a hard way lies between the two: a row is
committed, then a queue is told; a worker reads a row, works for minutes, then
writes it; a periodic tick repairs what a dead process left behind.

## Inventory

Rows live in Postgres (Prisma, READ COMMITTED); "guarded" below means an
`updateMany` whose `where` repeats a condition and whose count is looked at.

| part | state it keeps | operations | talks to | what makes it correct |
|---|---|---|---|---|
| Background job API (`modules/background-jobs`) | `background_jobs` rows, an idempotency cache in Redis | `enqueue`, `requestCancel`, `requestRetry` | BullMQ queues | a row that says QUEUED has a delivery; a terminal row changes only when a user asks; a key is one job |
| Job execution (`worker-core/bullmq`) | the same rows; the attempt number in memory | `process`, `scheduleRetryOrDeadLetter`, `scheduleRetry`, `transitionTerminal` | handlers, BullMQ | the result of the latest attempt wins; the attempts budget; cancellation stops retries |
| Reconciliation sweep (`worker-core/reconciliation`) | none of its own | `handleTick`, `recoverCandidate` | rows, `scheduleRetryOrDeadLetter` | of the types its process registers, only overdue attempts are taken; no attempt is RUNNING for ever |
| Outbox relay (`worker/events`) | `domain_events`: claim token, lease, `dispatched_at`; the jobs it creates | tick: claim, renew, create, replay, compensate, revive, mark | rows, BullMQ | a dispatched event has reached every consumer; nothing completed is undone |
| Scheduler (`worker/scheduler`, `modules/schedules`) | `scheduled_jobs`: next and last run, version, enabled | tick (claim, dispatch, compensate, disable), create, update, enable, disable, delete | rows, BullMQ | no backfill, one job per occurrence, an error costs one occurrence |
| Publishing (`modules/publishing`, `worker/publishing`, `shared/publishing`) | `publications`, `publication_targets`, `publish_attempts` (checkpoints) | dispatch, scheduled dispatch, execute, cancel, mark published, confirm not published | external platforms, the job engine, the scheduler | no second post; an outcome is always recorded; a cancellation holds |
| Event consumers (`shared/events`, `worker/events`) | `processed_events` records | `wrapTransactionalConsumer`, `wrapExternalEffectConsumer` | handlers, external systems | category A exactly once, category B at least once under one key |
| AI jobs (`modules/ai-jobs`, `ai-execute.processor`) | `ai_jobs`, `ai_job_steps` | submit, execute | providers, the job engine | one execution at a time; the AI job is terminal when its background job is over |
| Knowledge packs, projects | version lineages, `lockVersion` | create, update, remove, archive, createVersion, validate; assign to a project | rows | one ACTIVE version per lineage, an ACTIVE version is not edited |
| Media assets (`modules/media-assets`, `MediaAssetWriterService`) | versions of an asset, verification attempts | upload intent, verify, finalize, archive, restore, delete, write | object store, scanner | one current version; what is served was verified; no version is VERIFYING for ever |
| Content items and series (`modules/content`) | `content_items`, versions, `content_series` | create, update, submit, approve, reject, archive, restore, move, delete | rows | what is approved is what was submitted; a series fits its items; locks are taken in one order |
| Blog pipeline (`modules/blog`) | `metadata.blogPipeline` of an item | generate, approve, link, check, score, submit | AI jobs, content items | the gates speak of the version that is submitted |
| Video pipeline (`modules/video`) | `metadata.videoPipeline` of an item | generate, attach, voice, subtitles, render, QA, score, submit | AI, media and render jobs, media assets | what is submitted was made of the present inputs; one render at a time |
| Media generation and rendering (`modules/media-generation`, `apps/render-worker`, `shared/media-render`, `shared/media-provider`) | `media_jobs`, `video_render_jobs`, files | submit, execute; the timeline and the cues | object store, the job engine | a job drives its row to an end; the picture lasts as long as the voice; every word is shown |
| Social posts (`modules/social`) | `social_posts`; per version a picture and a generation record | create, regenerate, edit, submit, approve, reject | agents (inline), content items, publishing | what is published is one author's work, as approved |
| Research | none of its own | submit, read | AI jobs | none of its own |
| Workspaces and members (`modules/workspaces`, `modules/workspace-members`) | owner, memberships, invitations | invite, accept, revoke, update, remove, leave, transfer, activate | email | the owner is the one ACTIVE Owner; an invitation admits once |
| Sessions and authentication | `user_sessions`, action tokens | login, refresh, logout, reset | email | one live session per family |
| Publishing accounts, OAuth | accounts, encrypted credentials, OAuth states | connect, test, refresh, rotate, disconnect | platforms | a disconnected account is not used |
| Permission cache | Redis entries with a lifetime of 60 s | read through, invalidate | members | an entry is stale for 60 s at most |
| Shutdown, heartbeat, rate limits | trackers, counters | bounded close, beat, count | all managers | a process may stop at any step |
| Web front end | view state | pages | API | none here |

How they interact. The API commits a row and then adds an entry to a BullMQ
queue; the worker process (`apps/worker`, `apps/render-worker`) takes the entry,
claims the row and runs a handler. Three periodic ticks, themselves BullMQ
jobs, feed the same engine: the scheduler creates a background job per
occurrence, the outbox relay creates one per consumer of an event, and the
sweep recovers attempts whose process died. Publishing is a client of all of it:
its executions are jobs of the engine, its scheduled dispatches are occurrences
of the scheduler. AI, media and render jobs are a second row beside a background
job, written by the handler the engine runs. The blog and the video pipeline
submit such jobs and take over what they brought the next time somebody changes
the item: nothing pushes a result into them.

### What makes it hard

* **Two stores, no transaction across them.** A commit precedes each
  `Queue.add`; the add may fail, may be applied although it threw, or never
  happen because the process died.
* **Long executions.** A handler that timed out is not stopped: it answers
  later, when another attempt may own the row.
* **Redelivery.** BullMQ redelivers an entry whose lock stalled while its first
  worker is still running.
* **Check then act.** Several operations read a row, decide, and write with a
  guard that repeats only part of what was decided on.
* **Ticks overlap.** Two processes may run the same tick; claims, leases and
  fences decide who wins.

* **State inside one JSON column.** The pipelines keep their stages in the
  item's metadata. A generation is claim, submit, record: two transactions with a
  call between them, and anything may happen to the item in between.
* **Two rows for one piece of work.** The engine fences the writes of an attempt
  it has given up on `background_jobs`; nothing fences that attempt's writes to
  `ai_jobs`, `media_jobs` or a publication target.

## Plan, and what became of it

The order was: what everything else stands on first.

1. **The job engine**: `BackgroundJobs`, its abstraction `JobLifecycle`, the
   proofs of both.
2. **What feeds it**: `OutboxRelay`, `SchedulerTick`, with proofs.
3. **What must not happen twice**: `Publishing` (a Facebook page), with proofs;
   `ChannelProviders` (YouTube, Instagram, WordPress); `EventConsumers`.
4. **What the engine drives**: `AiJobs` and `MediaJobs`, composed with
   `JobLifecycle`, which stands for the engine there.
5. **The tables of the API**: `KnowledgePacks`, `MediaAssets`, `ContentLocks`,
   `Memberships`, `SocialPosts`, `EnqueueOnce`.
6. **The pipelines**: `BlogPipeline`, `VideoPipeline`, and the two computations
   of the latter in `VideoTiming`.
7. **The proofs of 3 to 6**, one inductive invariant per component.

Every invariant and every action property of a run is proved; the liveness properties
are only checked. Left to model: the thumbnail and the recommendations of a video,
and the parts listed at the end.

Which module stands on which:

```
JobLifecycle  <== implemented by == BackgroundJobs
     ^-- instance -- AiJobs, MediaJobs           (the engine's promise)
ApiRequests   ^-- extended by -- KnowledgePacks, MediaAssets, BlogPipeline,
                                 ContentLocks, VideoPipeline, Memberships,
                                 SocialPosts, EnqueueOnce
MCApiTables   = KnowledgePacks | MediaAssets | BlogPipeline | AiJobs | ContentLocks
                | SocialPosts | EnqueueOnce
MCFlows       = VideoPipeline | VideoTiming | MediaJobs | Memberships
                | ChannelProviders | EventConsumers
BackgroundJobsProofs, OutboxRelayProofs, SchedulerTickProofs, PublishingProofs:
                the component of that name (the first with its refinement of JobLifecycle)
VersionProofs   = KnowledgePacks | MediaAssets
GenerationProofs = AiJobs | VideoTiming
ApiTablesProofs = EnqueueOnce | ContentLocks | SocialPosts | BlogPipeline
FlowsProofs     = EventConsumers | Memberships | ChannelProviders | VideoPipeline | MediaJobs
```

A proof module that holds several components shares lemmas about requests and
sequences, never state; the inductive invariants are stated at the end of each
component's module, so that TLC can check them too.

## The modules

Every module takes one row (or a small set of rows that do influence one
another) and all the processes that touch it. A process is a slot: a worker's
concurrency slot, a running tick, an API request. Each `await` of a database or
a broker call is one step, so processes interleave between a read and the write
that relies on it; a Postgres transaction is one step when its locks make it
so. A step's failure is a *fault*, one of the named kinds that an instance may
explore, and the number of faults in a behaviour is bounded. A definition whose
comment says *Slip* is a plausible mistake in the definition next to it; it is
used by no action, only to confirm that the checks notice it.

### BackgroundJobs, JobLifecycle

`row` is the `background_jobs` row (status, attempts, cancelRequested,
deadLettered, the attempt whose result it holds). `entry` maps BullMQ ids to
their state: id 0 is the row's own id, n is `<id>#retry<n>`. `proc[p]` holds what
a process captured: the attempt number (`mine`), the verdict and the entry.

| action | code |
|---|---|
| `EnqueueCreate`, `EnqueueAdd`, `EnqueueFailed` | `BackgroundJobsService.enqueue`: commit, `Queue.add`, compensation by id |
| `CancelRead/Write`, `RetryRead/Write/Remove/Add` | `requestCancel`, `requestRetry` |
| `Take`, `Pickup`, `Handle`, `Complete`, `Finalize` | `BullMqWorkerManager.process`, `runFenced` |
| `Sweep`, `Decide`, `Terminate`, `Requeue`, `RetryDispatch`, `Compensate` | `recoverCandidate`, then `scheduleRetryOrDeadLetter` and `scheduleRetry`, shared by workers and sweepers |
| `TimeoutElapses`, `Stalled`, `Expire`, `Crash`, `RunFails` | the clock, BullMQ's stalled check and its removal of finished entries, process death, a database call that throws |

A sweep takes an attempt that is overdue, or, in a process that registers no manifest
of the job's type (`Unregistered`), any attempt that runs (`Stale`).
`Fenced(p)` is the guard the code puts on every write of an attempt (status
RUNNING and the captured attempts value). BullMQ is external: it is modelled
from how the code uses it (an add under a known id does nothing, an active entry
cannot be removed, a stalled entry is delivered once more).

`JobLifecycle` is what a reader of the row may rely on: Create, Start, Finish,
AutomaticRetry (within the budget), DispatchFailure, ManualRetry.
`BackgroundJobs` implements it under the mapping of the row's status, attempts
and dead-letter flag (`LifecycleSpec`).

### EnqueueOnce

The requests of `enqueue` that carry one idempotency key, in a workspace or for the
platform: `keyed` are the rows, `remembered` the response cache in Redis, `answers`
what callers were told. `CheckCache` may miss whatever is there (expired, or Redis
is down), `CreateKeyed` meets the partial unique index of its scope, `LookUp` reads
the original after the rollback and returns it or a conflict, `Dispatch` and
`CacheResult` may fail, `EnqueueDies` at any point. A job that was answered need
not have been dispatched: its creator may be at work still, or have failed or died
(the row is then FAILED or QUEUED, and a replay returns it as it is).

### OutboxRelay

One event, its `active` consumers, the `job` row and the `entry` of each. A
relay's tick is `Claim` (of an unclaimed or expired lease), `Renew` before each
event, and per consumer `CreateJob` (validation may reject), `FindJob` (replay by
key), `AddJob`, `CompensateFailure`, `ReviveJob`, then `MarkDispatched`, which is
fenced by the claim token. Time is the age of the lease, `LeaseAges` and
`LeaseExpires`; "slow" lets it run out under a working relay, "skew" lets a due
renewal be skipped because the holder's clock is late. The consumer's execution
is `Take`, `Pickup`, `Execute` and `Expire`: the engine cut down to one attempt.

### SchedulerTick

`Claim` is `claimDueSchedules`, one transaction with `FOR UPDATE SKIP LOCKED`: it
takes the earliest due rows, advances each from the present and increments its
version. `DispatchRow` is `dispatchOccurrence` up to the commit (creation, replay
by idempotency key, invalid payload, unregistered type and auto-disable),
`AddEntry` and `Compensate` the rest. `Create`, `UpdateRead`/`UpdateWrite`
(optimistic lock), `SetEnabled` and `SoftDelete` are the requests of
`schedules.service.ts`. A cron expression is a set of instants (`Occurs`), with
one assumption: it has a first instant after any time. `errors` and `crashes`
count what went wrong; `claims` remembers what was ever claimed.

### Publishing

One target of a Facebook page and one content type, chosen at the start. `target`
is the row, `checkpoint` the phase in the latest checkpoint row, `jobs` the
`publishing.execute.v1` jobs by generation (the retry count in their key),
`tickets` the pending scheduled dispatches, `posts` what the page shows. Requests:
`DispatchRead/Write`, `Enqueue`, `CancelRead/Write`, `MarkRead/Write`,
`ConfirmRead/Write`. Scheduled dispatch: `ScheduleFires`, `TakeTicket`,
`ScheduledRead/Write/Add`. Execution: `Deliver`, `ReadTarget`, `Prepare`, `Start`,
`Check`, `Load`, then the provider (`OpenSession`, `MarkAttempt`, `Post`) and
`Complete`, `FailTarget`, `Report`, `Throw`. `Timeout` ends a job's attempt while
its handler keeps working, which is how two executions of one target overlap.
`AfterCancel`, `Allowed` and `May` are the transition table of
`publishing-domain.ts`. Readiness, credentials and the transfer of bytes appear
only as steps that may fail.

### ApiRequests

What the modules about the API's tables share: a request is a process, `req[r]`
its next step and what it read. A transaction that locks its rows first is one
step; a read before it, and each statement that relies on a row it has not
locked, is one of its own. A request may die between two transactions.

### KnowledgePacks

`pack` holds the versions of a lineage (status, soft deletion, `lockVersion`,
number, predecessor), `project` the version each project uses. `Create`,
`PackRead` (the reads and checks of update, remove, createVersion, archive,
validate and of a project's assignment), `PackWrite` (their writes, with the
guards they repeat), `Unassign`. validate's transaction is two steps, because it
counts on the row lock of the version it replaces. The partial unique index on
ACTIVE versions is left out on purpose: `OneActive` holds without it.

### MediaAssets

`asset` holds the versions of one asset, named by their number, which is unique
with the group over all rows. `CreateUploadIntent`, `CreateVersionUploadIntent`,
`WriterFirst` and the steps of verification (claim, outcome, finalization or
retry), archiving, restoring, deletion and the workers' writer. Here the
unique index on the ACTIVE version is part of the model: restore and the writer
rely on it, and a version they strand against it is in `stranded`.

### AiJobs, MediaJobs

One `ai_jobs` row, and one `media_jobs` or `video_render_jobs` row, beside its
background job. The latter is an instance of `JobLifecycle`, so that what is shown
holds for anything the engine may do, including an attempt that is given up and
goes on. `handler[n]` and `performer[n]` are where attempt n is: find, claim,
check, work, then write the outcome by id. In `MediaJobs` the four processors
share their steps and differ in what they make of an error: image and narration
try again only after a retryable error of the provider, a render after anything
not permanent, subtitles always, without a look at the number of the attempt.

### BlogPipeline

One article: `stage` by rank (status, its AI job, which claim it is of and which
claim of the stage before it was built on), `gate` (links, checks, score and the
version scored), `versions`, `item`. A generation is `claim`, `submit`, `record`;
`Finalize` is part of every operation that changes the article, as in the code.
`RunQa`, `CreateContentVersion`, approval, rejection, archiving, restoring and
removal are the rest of the life cycle.

### ContentLocks

Series, items and media under the row locks of the five operations that change
or reference several of them, plus the media writer, which takes them the other
way round. Every lock is a step (`LockNext`), with what the request waits for in
`want` and what it has in `held`; `RollBack` is Postgres breaking a deadlock.

### VideoPipeline, VideoTiming

`video` is `metadata.videoPipeline`: brief, script, plan, SEO, one asset per scene,
voice, subtitles, render, QA and score; `jobs` the AI, media and render jobs by
serial number. `Finalized` and `Reconciled` are what every mutation does first:
take over what ended, drop what no longer belongs. An artifact is named by the
job that made it, so that "made of the present inputs" is an equation. A media
stage holds the placeholder `"pending"` between its claim and its job, and a
query with it among the ids fails (`Readable`). `columns` are the SEO columns of
the `video_scripts` row: a finalized SEO is written there, and a claim or a reset
of the stage does not clear them. The score reads the script and the plan from the
stages (`ScoreTexts`), then the metadata from the row (`Score`); `of` is what it
scored, `seen` the artifacts there were at those two reads.

`VideoTiming` has no steps: `deriveSceneTimeline` and `buildSubtitles` are functions
of an input chosen at the start, and the properties are their reference. `InOrder` is
any sorted arrangement (a sound plan has one only), `WithWord` a pass of the loop that
ends a cue, `NormalizeCue` one of the loop that moves it after its predecessor.

### Memberships

One workspace: `owner`, `member`, `invitation`, `account` and `link` (activation).
Updates and removals read the owner and write by id later; `transferOwnership`
and `accept` begin with a row lock and are the steps up to their commit.

### ChannelProviders

Repeated executions of one target on the three other channels. `objects` are the
remote upload sessions or containers, `saved` the one of the latest checkpoint,
`contents` what the audience sees. A reply may be lost after the remote side
applied the call; WordPress may apply one after the client gave up (`delayed`).
What the providers do not claim to survive sets `excuse`: two executions that
create at the same time, a checkpoint that another one replaced, and a late
WordPress request.

### SocialPosts

One post, `post`, and its versions, `drafts`. An author (`Regenerate`, `EditPost`) is up to
four steps: decide, `CreateVersion` under the lock of the item, `AttachPicture`,
`RecordGeneration`. `ApprovePost` composes the caption publishing reads; `PatchPost` may
replace it in any status. A version names its text, so that the origin of the
caption is a number.

### EventConsumers

One event and one consumer under redelivery: `Acquire` (the advisory lock),
`FindProcessed`, `ExecuteInTx` or `ExecuteOutside`, `Record` (the processed-event row
and the commit), `LoseAttempt` (a crash, or a reply that is lost).

## What is checked

Run one with `tlc -workers 2 -config <run>.cfg <module>`.

| run | properties | instance | distinct states |
|---|---|---|---|
| `bj_core` (`MCBackgroundJobs`) | `ResultOfLatestAttempt`, `CancelBoundsAttempts`; steps: `LifecycleSpec` | 2 workers, 1 sweeper, which takes any attempt, 2 clients, 2 attempts, 1 fault (crash, database, stalled lock, lost add), 1 manual retry | 2.64 million |
| `bj_settles` | `AttemptEnds`, `JobSettles` (liveness) | 2 workers, 1 sweeper, which waits for the timeout, 1 client, 1 fault of any kind | 167 thousand |
| `bj_manual_retry_lost` | violates `QueuedIsDelivered` | no fault, 1 manual retry | stops at the trace |
| `or_core` (`MCOutboxRelay`) | `DispatchedReachesAll`, `FailedDispatchIsRetried`, `EventuallyDispatched` (liveness) | 2 relays, 2 consumers of which 1 rejects, 3 faults (crash, database, slow, skew, lost or applied add) | 648 thousand |
| `or_revive_lost` | violates `RevivedIsDelivered` | 1 relay, 1 consumer, 1 lost add | stops at the trace |
| `sc_core` (`MCSchedulerTick`) | `NextAfterLast`, `OneJobPerOccurrence`, `ErrorCostsOne`, `DueIsClaimed` (liveness) | 2 schedules (1 of an unregistered type), 2 ticks, 1 client whose clock may be 1 behind, 2 expressions, batches of 2, 3 minutes, 1 edit, 1 fault | 535 thousand |
| `pub_core` (`MCPublishing`) | `SinglePost`, `PublishingIsOwned`; steps: `OnlyLateUndoCancel`; `AttemptSettles` (liveness) | 2 handlers, 1 client, 2 tries, 1 request, 1 occurrence, 1 fault | 332 thousand |
| `pub_confirm_blocked` | violates `ConfirmedCanRetry` | 1 handler, 2 requests, no fault | stops at the trace |
| `api_tables` (`MCApiTables`) | `OneActive`, `OneLateEdit`; `OneCurrent`, `ServedWasVerified`, `VerificationOwned`; `GeneratingIsOwned`, `GatesHonest`; `OneExecution`, `DrivenToTerminal`; `SeriesFits`, `NoLockCycle`; `PublishedAsMeant`; `OneJobPerKey` | 2 requests over one of seven components; sizes below | 1.80 million |
| `ma_replace_blocked` (`MCMediaAssets`) | violates `Replaceable` | 3 versions | stops at the trace |
| `ai_stuck_running` (`MCAiJobs`) | violates `CompletedIsTerminal` | a budget of 3, 4 attempts | stops at the trace |
| `flows` (`MCFlows`) | `StagesOwned`, `OneRender`; `AdmittedOnce`; `OneExternalContent`; `HandledOnce`; `MediaDriven`; `TimelineFits`, `CuesFollowNarration`; steps: `SubmittedIsCurrent`, `OwnerStands`, `CompletedStands` | 2 actors over one of six flows; sizes below | 1.33 million |

`api_tables` and `flows` hold several components that share no row. A behaviour
follows one of them, the value of `focus`, and the others stay in one initial
state: the sum of the components is explored, not their product, and no
interleaving is lost, because nothing of one reads anything of another.

What the properties say:

* **One result, one budget.** `ResultOfLatestAttempt`: an attempt recovered as
  stale that answers later never completes the row over the one that replaced
  it. Attempts beyond the policy are the granted manual retries (`AttemptBudget`, proved,
  and part of `LifecycleSpec`).
  `RetryIdFresh`: an automatic retry is never added under an id the broker would
  silently ignore. `RecoverOnlyOverdue`: an old snapshot never lets a sweep
  that knows the timeout take a young attempt.
* **Cancellation.** `CancelBoundsAttempts`: at most one more attempt starts after
  it is recorded, even when it lands between the read and the write of a retry.
  `OnlyLateUndoCancel` is the same question for a publication target.
* **Nothing is stuck or lost.** `AttemptEnds`, `JobSettles` (and, violated,
  `QueuedIsDelivered`); `DispatchedReachesAll`, `FailedDispatchIsRetried`,
  `EventuallyDispatched`; `DueIsClaimed`, `ErrorCostsOne`; `PublishingIsOwned`,
  `AttemptSettles`. `DrivenToTerminal` and `MediaDriven`: when the background job is
  over, so is the row it drives. `VerificationOwned`, `GeneratingIsOwned`,
  `StagesOwned`: a status that keeps everybody else away belongs to a request that
  is going to replace it. `NoLockCycle`: nobody waits in a circle.
* **Nothing happens twice.** `OneJobPerOccurrence`, `NextAfterLast` (no backfill
  after an outage or a racing edit), `SinglePost`, `OneExternalContent`, `HandledOnce`,
  `OneExecution`, `OneRender`, `AdmittedOnce`, `CompletedStands`.
  `OneJobPerKey`: a repeated request is answered with the one job of its key, scope
  and payload, or refused, with or without the cache, and nobody dispatches it again.
* **At most one, and the right one.** `OneActive`, `OneLateEdit`, `OneCurrent`,
  `ServedWasVerified`, `OwnerStands`, `SeriesFits`.
* **What is approved is what was meant.** `GatesHonest`: the version
  under review, or approved, is the one submitted. With `SubmittedIsCurrent`: the gates that
  let it through spoke of it, and every artifact was built on the present one
  before it, unless a request wrote what its own check no longer allowed
  (`belated`; the weaknesses below say how). `PublishedAsMeant`: the caption and the
  picture of an approved post are those of one version, and what its author meant,
  unless that author is still at work or was cut short.
* **Time.** `TimelineFits`: the scenes last exactly as long as the voice, without
  a gap. `CuesFollowNarration`: every word is in one cue, none before it is spoken,
  and only a last cue that the audio leaves no room for is refused by the QA.

The type invariants, `AttemptBudget`, `RetryIdFresh`, `RecoverOnlyOverdue`, `TerminalUntilRetry`,
`CompletedStays` and `NumbersUnique` are in no run: they are proved.

### Bounds, and why they are enough

* *Processes.* The code's races are between an attempt and its replacement (two
  workers), a worker and the sweep, two requests, two relays, two ticks, two
  executions: two of each kind where a kind races itself, one otherwise.
* *`MaxAttempts` 2* gives a first attempt, an automatic retry and an exhausted
  budget; the default policy is 1, publishing's is 3, and nothing in the code
  looks at the number other than by comparing.
* *`MaxFaults`* is 1 where the protocol claims to survive any single fault and
  its processes are many, 2 or 3 in the relay, where the interesting cases
  (a slow relay, then a crash of the one that took over) need several.
* *`MaxManual` 1*: the second manual retry meets what the first one meets.
  `bj_settles` grants none, because a manual retry can lose the delivery
  (`bj_manual_retry_lost`).
* *Time* in the scheduler is three minutes of an expression that occurs every
  minute and of one that occurs every other minute: long enough for a missed
  occurrence, a second claim and an edit between them.
* *Batches* of 2 of 2 due rows exercise per-row isolation inside a batch;
  batches smaller than what is due are covered by the proofs only.
* *Requests and occurrences* of a target: one of each in `pub_core`, two
  requests where the trace needs a retry after a decision.
* *Tables.* Two requests, since each race is one read against one write. Three
  versions of a pack: two of a lineage and a successor of either; `MaxEdits` 2, one
  more than get through. Three versions of an asset and two verifications of
  each: a version, its replacement, a later one, and a retry. `MaxClaims` 2 (a
  stage and its regeneration), `MaxVersions` 3 (a generated one, a person's, one
  more), one approved stage before the draft. An AI or media budget of 3 is the
  manifests'; 4 attempts add a manual retry. Two series, an item and a media row:
  the fewest rows that make an order of locks.
* *`MaxEffort` 2* counts what makes a video change beside the requests:
  submissions, failures of jobs and changes of files. One scene and one uploaded
  file, two voices. With two, a stage is regenerated while what depends on it is
  submitted; the completions of jobs and all requests are not counted.
* *Members.* A founder and another user, two invitations: one, and one that
  replaces it.
* *Channels.* `MaxRuns` 4 executions and `MaxObjects` 3 remote objects: one lost,
  one that expired, one that replaces it. *Events*: `MaxDeliveries` 4 over two workers.
* *Posts.* Three versions: the first, and one of each of two authors; one picture, or
  none.
* *Keys.* One key in a workspace and for the platform, two payloads, two requests at a
  time and any number one after the other; `MaxKeyed` 3 is never reached (two rows are).
* *Timing.* All plans of up to 3 scenes of lengths up to 3 with voices of up to 6,
  and all narrations of up to 3 words that end by 4 with scripts of up to 4 words,
  with a floor of 2 and a ceiling of 3 in the place of 700 and 6000 ms: rounding,
  stretching, pushing and cutting all occur.
* *Symmetry* is used for workers, requests and pack versions, in runs without
  liveness only.
* Deadlock is not checked: with the bounds used up and the row settled, every
  system here may stop.

### Fairness

Weak fairness only, per process and on what the runtimes really repeat: a worker
slot keeps taking entries and each of its awaits settles (the code's own timer
bounds the handler), ticks repeat, BullMQ's stalled check repeats, a request
that was started goes on, and time passes. No request, fault or removal of a
finished entry is ever obliged to happen; a crashed process comes back as an
idle slot. `api_tables` and `flows` check safety only and state no fairness.
`sc_core` asks fairness of the ticks only (time need not pass);
`pub_core` of the handlers only.

## What is proved

Every theorem holds for every value of the constants that satisfies the assumption
named in the component's module (`BoundAssumption`, `RelayAssumption`,
`BlogAssumption`, ...): sets of processes or of rows that do not overlap, a "none"
that is no process and no number, bounds that are numbers, numbers for the rows
that are locked in the order of their ids, a finite set of schedules whose cron
expressions have a next occurrence. The number of processes, requests, users,
rows, scenes and stages is arbitrary, and so are the bounds.

| module | theorem | property | further hypothesis |
|---|---|---|---|
| `BackgroundJobsProofs` | `TypeCorrect`, `FencedResults`, `BudgetKept`, `RetryAddsOnce`, `CancelIsBounded` | `TypeOK`, `ResultOfLatestAttempt`, `AttemptBudget`, `RetryIdFresh`, `CancelBoundsAttempts` | none |
| `BackgroundJobsProofs` | `SweepsOnlyOverdue` | `RecoverOnlyOverdue` | none |
| `BackgroundJobsProofs` | `ImplementsLifecycle`, `TerminalIsStable` | `LifecycleSpec`, `TerminalUntilRetry` | no add that throws was applied |
| `OutboxRelayProofs` | `TypeCorrect`, `CompletedForGood` | `TypeOK`, `CompletedStays` | none |
| `OutboxRelayProofs` | `FanOutComplete` | `DispatchedReachesAll` | no add throws (`Reliable`) |
| `OutboxRelayProofs` | `FailuresRetried` | `FailedDispatchIsRetried` | nobody works past its lease (`Punctual`) |
| `SchedulerTickProofs` | `TypeCorrect`, `NeverABackfill`, `OccurrenceRunsOnce`, `ErrorsAreIsolated` | `TypeOK`, `NextAfterLast`, `OneJobPerOccurrence`, `ErrorCostsOne` | none |
| `PublishingProofs` | `TypeCorrect`, `AtMostOnePost`, `NoPathForgetsOutcome`, `CancelledForThoseAfter` | `TypeOK`, `SinglePost`, `PublishingIsOwned`, `OnlyLateUndoCancel` | none |
| `VersionProofs` | `PackSpecOneActive`, `PackSpecNumbersUnique`, `PackSpecOneLateEdit` | `OneActive`, `NumbersUnique`, `OneLateEdit` | none |
| `VersionProofs` | `MediaSpecOneCurrent`, `MediaSpecServedWasVerified`, `MediaSpecVerificationOwned` | `OneCurrent`, `ServedWasVerified`, `VerificationOwned` | none |
| `GenerationProofs` | `AiSpecOneExecution`, `AiSpecDrivenToTerminal` | `OneExecution`, `DrivenToTerminal` | none |
| `GenerationProofs` | `TimingSpecTimelineFits`, `TimingSpecCuesFollowNarration` | `TimelineFits`, `CuesFollowNarration` | none |
| `ApiTablesProofs` | `EnqueueSpecOneJobPerKey` | `OneJobPerKey` | none |
| `ApiTablesProofs` | `ContentSpecSeriesFits`, `ContentSpecNoLockCycle` | `SeriesFits`, `NoLockCycle` | none |
| `ApiTablesProofs` | `PostSpecPublishedAsMeant` | `PublishedAsMeant` | none |
| `ApiTablesProofs` | `BlogSpecGeneratingIsOwned`, `BlogSpecGatesHonest` | `GeneratingIsOwned`, `GatesHonest` | none |
| `FlowsProofs` | `ConsumerSpecHandledOnce` | `HandledOnce` | none |
| `FlowsProofs` | `MemberSpecAdmittedOnce`, `MemberSpecOwnerStands` | `AdmittedOnce`, `OwnerStands` | none |
| `FlowsProofs` | `ProviderSpecOneExternalContent` | `OneExternalContent` | none |
| `FlowsProofs` | `VideoSpecStagesOwned`, `VideoSpecOneRender`, `VideoSpecSubmittedIsCurrent` | `StagesOwned`, `OneRender`, `SubmittedIsCurrent` | none |
| `FlowsProofs` | `MediaSpecDriven`, `MediaSpecCompletedStands` | `MediaDriven`, `CompletedStands` | none |

The further hypotheses are about the code and not about the proofs: enqueue
compensates by id, so an add that was applied although it threw lets a completed
row be overwritten; the relay's revival of a failed dispatch loses a delivery
(`or_revive_lost`); a relay that works on after its lease ran out may fail a
dispatch that another one has brought to its end. Where a property makes room for
a weakness by name (`belated`, `excuse`, `disturbed`, below), so does its theorem.

The arguments:

* **`BackgroundJobs`.** The properties are not inductive by themselves. `IInv`
  adds what a process still knows when it acts: nobody captured an attempt that
  has not started (`Captured`); a run about to requeue is within the budget
  (`RequeueInBudget`); the entry of a retry exists, or is about to be added by one
  process, only once its attempt is over (`RetryEntriesOver`, `RetryDispatchOver`):
  that is why its id is fresh; where the cancellation found the job (`CancelKnown`).
  Most actions are shown to be *mild* (they leave these parts alone) and
  share one lemma; pickup, the read of a run, requeue and the dispatch of a
  retry have one each.
* **`JobLifecycle`.** Under `IInv` every step is a step of the abstraction or
  leaves the three variables alone; the case that needs thought is the first
  dispatch, whose compensation must find the row still QUEUED.
* **`OutboxRelay`.** `RelayKnows`: a relay at work has reached every consumer it
  is no longer to handle, so when nothing is left it may mark the event, even if
  its lease went to another relay that is half-way: reached consumers stay
  reached (`Progress`). For `FailuresRetried` the relay at work must be alone:
  while every relay is punctual it owns the event (`LeaseHeld`), a failed dispatch
  keeps the event open (`FailureStands`), and a relay that met one knows that not
  everything is terminal (`RelayRepairs`).
* **`SchedulerTick`.** `EditKnown`: an edit whose version still matches was
  computed after the last claim. The version each claim increments is what makes
  the racing edit fail; dropping it breaks `NextAfterLast`. `ErrorCostsOne` counts:
  an occurrence that was claimed or has a job, was not delivered, and is nobody's
  concern any more has been *charged* (`Charged`) to an error, one for one, or to
  the batch of a tick that died (`ChargedInv`). An occurrence claimed again after
  its add failed stays charged, which is what makes the count inductive.
* **`Publishing`.** `PostInv`: while no two executions held a checkpoint at once,
  at most one execution is between loading it and finishing, a post exists only
  if the attempt was marked, and who is about to post has marked it.
  `PublishingIsOwned` is inductive as it stands. `LateInv`: under a cancelled
  target every process that could still write was under way before.

* **`KnowledgePacks`.** `PackIInv`: each version but the root numbers one more than its
  predecessor, which was ACTIVE once (`Lineage`, `RootFirst`); a version is activated
  over its predecessor, which stays ARCHIVED (`Superseded`); so the versions that were
  ever ACTIVE form a chain without branches (`ReleasedUnique`). About requests: what a
  clone read still is (`CloneKnown`), a validation holds its draft (`LockHeld`), and
  the first edit that came too late outdated the `lockVersion` of all others
  (`EditsKnown`).
* **`MediaAssets`.** `MediaIInv`: nothing happens before there is a first version
  (`Rooted`), and whoever is going to archive by id found a version that had been
  verified (`ArchivesVerified`), which is why a restore cannot serve an upload that
  was not. The three properties are parts of the invariant themselves.
* **`AiJobs`.** `AiIInv`: at most one handler holds the claim, and none while the row
  could be claimed (`ClaimHeld`); an attempt that has not begun has no handler
  (`NotBegun`); while nothing was disturbed, the engine, the handler and the row
  agree (`Agreement`). The engine's side needs no more than `JobLifecycle`.
* **`EnqueueOnce`.** Rows are never deleted and never change their scope or payload,
  so what a request, the cache or an answer knows of a row stays true (`CacheKnows`,
  `JobKnown`). Only the request whose insert won is about to dispatch, and its row has
  no entry yet (`Creator`).
* **`ContentLocks`.** What a transaction still wants comes after all that it holds
  (`InOrder`: series by id, then an item, then media). In a cycle of waits each would
  want a row above one that the next one wants; the transactions that have begun
  are finitely many (`FewBegun`), so there is a maximal one, and it waits for nobody.
  `SeriesFits` is inductive: the decision looks again at what was read.
* **`SocialPosts`.** An author at work has a version to itself and knows what is
  missing of it (`AuthorsKnow`); what is finished shows what was meant (`DraftsShow`);
  the caption of an approved post is the current version's (`CaptionKept`).
* **`BlogPipeline`.** `GeneratingIsOwned` is inductive. For `GatesHonest`, unless a
  request wrote too late: a stage is of its last claim, and that one was of the last
  claim before it (`StagesInOrder`, `BasisKnown`); a draft that is ready has its version,
  followed only by those of persons (`DraftTaken`); a gate was met by that version
  (`GatesKnow`).
* **`EventConsumers`.** The advisory lock leaves one attempt past the look-up
  (`OneHolder`), and rows of processed events are never deleted, so an attempt that
  found none may rely on it (`FoundStillTrue`).
* **`Memberships`.** Only `transfer` holds the workspace row, and finds the owner
  where it read them (`OwnerLocked`); the other requests have only read, and never
  touch the owner they saw (`AnotherSeen`). An invitation never grants the Owner
  role (`InvitedRole`).
* **`ChannelProviders`.** Unless excused: who creates is alone and there is nothing to
  go on with (`OneCreating`), what an execution works on is the saved object or of no
  use (`WorksOnSaved`), and only the saved one can have led to content (`ShownIsSaved`).
* **`MediaJobs`.** Attempts that were given up go on, but one at most is past the
  claim, and a COMPLETED row is in no other hands than its author's (`RowClaimed`).
  While nothing was disturbed, the one attempt that is not over is the engine's, and
  what it knows of the row is what it is going to report (`RowFollows`).
* **`VideoPipeline`.** Every claim takes a serial number, and only the stage that was
  claimed ever holds it (`ClaimsKnown`); reconciliation keeps claims, so a stage that
  waits is awaited by the request with its number, or was left by one that died
  (`OwnedInv`). A render is told apart by the claims of what it is made of; a live
  one of what the video has by now is the one it waits for (`RenderAwaited`), and no
  two live ones are of the same (`LiveOnce`). Each operation is shown to follow from
  `Finalized` and `Reconciled`, whose effect on a stage is one lemma each.
  For `SubmittedIsCurrent` (`CurrentInv`): unless something was recorded too late, a
  text stage has the job of its last claim or none, and none while that claim is
  pending (`TextsKnown`); what was claimed last was claimed of what is there, since a
  claim starts every stage after it again (`ChainKnown`). A narration, subtitles or a
  render may be older, but know what they are of (`MediaKnown`), and a video that
  reconciliation leaves as it is was compared with that once more. The artifacts a
  score saw are still those there are, as long as it was not recorded too late
  (`ChainKnown`); and since the row has the metadata of the SEO there is, if there
  is one (`ColumnsKnown`), they are also what it scored (`Honest`, both in `ScoreInv`).

* **`VideoTiming`.** Nothing moves, so each property is proved of every input, however
  long the plan, the script or the narration. The induction theorems of the library take
  an operator, which the prover cannot instantiate; the same induction is stated here
  about a *set* of numbers (`InductionOverNat`: what the set misses would have a least
  element), and a recursive function is first shown to exist (`RecursionUpTo`), because
  its definition alone says nothing of its values. *The timeline:* some arrangement of
  the scenes is sorted (`ArrangementExists`), sums telescope, and a share, rounded and
  at least 1, is within one unit of the exact one (`ShareIsClose`), so the last scene, which takes
  the difference, is left with something unless all the roundings together use it up.
  *The cues:* the words that end a cue grow and the last of them is the last word
  (`CueEndsGrow`); each cue is normal with respect to its predecessor (`CueIsNormal`),
  from which start, floor and order follow for all but the last, and the audio cuts that one.

Only model-checked: the liveness properties (`AttemptEnds`, `JobSettles`,
`EventuallyDispatched`, `DueIsClaimed`, `AttemptSettles`). Liveness under fairness is
beyond the prover, as is everything that needs ENABLED.

No RECURSIVE operator is declared: recursion is written as a recursive function.

## Where the code and its words disagree

Five runs end in a trace on purpose.

* `bj_manual_retry_lost`: a manual retry accepted while the failed delivery is
  still active removes nothing and adds nothing; the row is QUEUED for ever.
  `bullmq-worker.manager.ts:415` calls the plain id safe on this path.
* `or_revive_lost`: the relay re-adds the entry first and sets the row back to
  QUEUED afterwards; a worker in between skips it. `outbox-relay.manager.ts:664`
  says the update is there to prevent just this.
* `pub_confirm_blocked`: after "ordinary retry is now available"
  (`publishing-reconciliation.service.ts:133`) the retry is refused again,
  because the checkpoint row is still there.
* `ma_replace_blocked`: version 1 of an asset is ACTIVE, an upload is to replace it
  as version 2, and its verification rejects it (`media-assets.service.ts:739`; a
  quarantine at `:763` is alike). Version 1 stays current without being the highest,
  contrary to the comment at `:351`: every later replacement would take number 2
  again and is refused as "in progress", for good. One bad upload is enough; a
  version 2 that is archived and a version 1 that is restored lead to the same.
* `ai_stuck_running`: an attempt that dies after its claim leaves the AI job
  RUNNING, which the next attempt takes for work in progress and answers with
  success, the very outcome `ai-execute.processor.ts:128` says is closed.

Further weaknesses met while modelling. The models contain these behaviours, and
the properties make room for them by name (`belated`, `orphaned`, `stranded`,
`upset`, `disturbed`, `refused`, `excuse`), unless the item says otherwise.

**Jobs, events, schedules.**

* The sweep presumes that nobody can own an attempt whose type its process does not
  register (`background-job-reconciliation.manager.ts:228-231`), and takes it whatever
  its age (`:262`). But the general worker and the render worker each register half of
  the types, look at all RUNNING rows, and share one queue of ticks: a tick that lands
  in the wrong one of them takes a healthy attempt, which is requeued or, on its last
  one, dead-lettered, while its handler goes on and is fenced out in the end. No run
  counts this as a violation; `Unregistered` has it happen in `bj_core`, and
  `RecoverOnlyOverdue` leaves those sweepers out by name.
* `enqueue`'s compensation goes by id without a guard: after an add that was
  applied although it threw, it overwrites a completed row
  (`background-jobs.service.ts:324`). A crash between the commit and the add leaves
  a QUEUED row without a delivery, which nothing sweeps.
* A cancellation between the read and the write of `scheduleRetryOrDeadLetter`
  does not stop that retry (`bullmq-worker.manager.ts:357`; its comment says that
  it is re-checked). One more attempt runs, as `CancelBoundsAttempts` allows.
* A relay that lost its lease can mark a row FAILED although the event was
  finalized by the next one (`outbox-relay.manager.ts:767` and `:657`), and a
  reclaim re-adds jobs that were dead-lettered in the meantime (`:637`).
* In the scheduler, auto-disable and the dispatch compensation are unguarded
  (`scheduler-tick.manager.ts:472`, `:454`); the claim is advanced before the
  dispatch, so a crash loses the claimed occurrences; enabling a schedule does
  not recompute its next run.

**AI and media jobs.**

* A manual retry of a FAILED AI job does nothing and reports COMPLETED; a late
  attempt overwrites by id; an API that dies between the row and its job leaves
  it QUEUED. The media processors share all three.
* An input refused after the claim (an empty text, a file that is not there)
  leaves a media or render job RUNNING, and the next attempt reports success.
  Subtitles return to QUEUED even after the last attempt, and deduplication finds
  that row again for ever.
* For an image or a narration an error of the database or the store is not
  retryable, so that the job ends FAILED although the file was written.
* `durationToleranceMs` is 1500 in the render (`video-render.processor.ts:42`) and
  750 in the QA, so a COMPLETED render may never pass.

**Pipelines.**

* The record of a submitted job looks at nothing: it overwrites a stage that was
  reset or generated again meanwhile, and lands on an item under review. A
  request that dies before it leaves the stage GENERATING for ever (blog, text
  stages of a video) or, with the placeholder of a media stage, makes every later
  operation on that video fail.
* A score computed while the plan or the SEO of a video is generated counts at the
  submission, although it is of no plan, or of the *former* metadata: those are read
  from the `video_scripts` row (`video-scoring.service.ts:198`), which keeps them,
  even those of a former script. `SubmittedIsCurrent` asks of a score only that it
  is of the script, and of the plan and the SEO that were there when it was computed.
* The submission's check and its transition are two transactions.
* A render completed late archives the output of the newer one. Regenerating
  the plan empties it, so any reconciliation before the new one arrives drops the
  attached scenes, contrary to the comment in `claimStage`.
* `runQa` discards a result by throwing inside the transaction that was to persist
  the discarding. The second cue from the end may leave no room for the last one,
  which `buildSubtitles` then lets overlap, contrary to its doc, and the QA refuses
  each time.
* A PATCH of an item replaces its metadata, the pipeline's state included
  (`content-items.service.ts:306`); only `SocialPosts` models it.

**Content, media assets, knowledge packs, members.**

* The picture of a social post's version is written after the version
  (`social.service.ts:218`), so a post may be approved, and published, without it, and
  a crash leaves it so; `schema.prisma:2681` says the row is frozen once the version
  is no longer being edited. An edit keeps the missing picture of a version whose
  author is not done, and two edits of one version keep only the later one's text.
  The caption that approval composed is replaced by any later PATCH.
* The media writer locks media before the item (through the foreign key),
  `setFeaturedMedia` the item before media: a deadlock the database breaks, contrary
  to the "global lock order". `NoLockCycle` excepts the writer.
* Archiving a version while it is deleted, then restoring, brings it back. A
  verification that dies leaves its version VERIFYING, an upload never made leaves
  PENDING_UPLOAD, and neither can be replaced. A replacement forgets the content item.
* Archiving a knowledge pack counts its projects without a lock, so an assignment
  that overlaps leaves a project on an archived version.
* A role change, suspension or removal that read the old owner hits the new one;
  the new owner accepting an older invitation is demoted by it. A member REMOVED
  before activation can never be invited again; setting a REMOVED member ACTIVE
  revives them; an acceptance that overlaps the activation leaves a membership no
  link activates; revoking by id overwrites ACCEPTED.

**Publishing.**

* Two executions that hold the same checkpoint both post
  (`publishing-execution.service.ts:256`), although `facebook-channel-provider.ts:32`
  says the endpoint is never called again; `SinglePost` excepts them.
* An unknown outcome of a feed post has a checkpoint that no reconciliation accepts
  (`publishing-execution.service.ts:55`), as has Instagram's
  `INSTAGRAM_PUBLISHED_ID_UNRECOVERABLE`, which asks for manual verification.
* A worker that dies inside a provider leaves a target PUBLISHING, which no later
  execution may enter, although the YouTube provider says a later attempt resumes;
  an API that dies after its write leaves it QUEUED without a job.
* The checkpoint is the latest row: the upload session of a second execution
  hides the mark of the first. Instagram saves its container before the bytes are
  sent; a crash in between leaves one that is only polled until it expires.
* Media are read for VIDEO only (`publishing-execution.service.ts:292`), so an
  Instagram SOCIAL_POST, and a Facebook one with media, always fails for good.
* A target's one-off schedule stays enabled and recurs after a year, although
  `publishing-persistence.service.ts:27` says the dispatch disables it; a
  scheduled dispatch that fails is not made up by the next tick, although
  `queue/jobs/publishing-dispatch.ts:37` counts on it.
* A dispatch request delayed past the end of the execution writes QUEUED over
  PUBLISHED, and its replayed key adds no job.
* Accounts, from reading only: a connection test that ends after a disconnect sets
  CONNECTED, and a refreshed credential overwrites a rotated one.

## What is not modelled

The parts marked `not_modelled` in `PROJECT.json`, each with its reason:

* *Sessions and authentication, the permission cache, rate limits*: access
  control, which is left to a review of its own; the cache and the counters decide
  nothing that is written.
* *Publishing accounts, OAuth and readiness*: rows written by id around a
  platform's call, the last writer winning; no rule of the code relates two such
  steps. Readiness is one of the ways an execution may end.
* *Research*: submits an AI job, which `AiJobs` models, and reads it.
* *Providers, agents, object store, scanner, codecs, the render engine*: inputs and
  outputs, chosen freely wherever a module calls them.
* *Internal links, topic clusters, audit, email, heartbeat, registries*: single
  rows, append-only logs, or tables that are constant after start-up.
* *Shutdown*: a process may crash at any step instead.
* *The web front end*: it keeps no state of the platform. Its pages, and the DTOs,
  controllers and module declarations of the API, which have no steps either, are a
  large part of the repository's lines.

Within the modelled parts: registration of the repeatable ticks in Redis, cron
evaluation (a constant), the contents of payloads and artifacts (valid or not,
same or other), encryption and credentials (steps that may fail), permissions,
`ai_job_steps`, the inline executions of `agent-executor.service.ts` (a social post is
written only after both have answered; a process that dies leaves their rows RUNNING), the thumbnail
and the recommendations of a video (no gate reads them), the arithmetic of scores,
logging and audit rows. The unique index that keeps one live target per channel
is not met by a single target. The consumer runtime has no production consumer yet.
