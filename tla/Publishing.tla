------------------------------ MODULE Publishing ------------------------------
(***************************************************************************)
(* One publication target of a Facebook page, the publish.execute and       *)
(* publish.dispatch jobs that drive it, and the people who act on it:       *)
(*   - Handlers: job slots of the worker, running PublishingExecutionService*)
(*     .execute with FacebookChannelProvider.publish inside it, or          *)
(*     PublishingDispatchService.dispatchScheduledTarget;                   *)
(*   - Clients: API requests: dispatch (publish now, and retry), cancel and *)
(*     the two manual reconciliations;                                      *)
(*   - the page itself, of which only the number of posts matters.          *)
(* Every await of the database or of the page is a step of its own. The     *)
(* rows a job goes through are BackgroundJobs' subject: a job here is ready,*)
(* active, done or dead, and an attempt that does not succeed is tried      *)
(* again while the budget lasts. Targets share no state but the index that  *)
(* keeps one live target per channel, which one target cannot meet.         *)
(***************************************************************************)
EXTENDS Naturals

CONSTANTS
    Handlers,     \* worker slots of the PUBLISHING queue
    Clients,      \* API requests in flight at the same time
    MaxTries,     \* publishing.execute.v1: defaultRetryPolicy.maxAttempts
    Faults,       \* the kinds of fault this instance explores
    MaxFaults,    \* bound: how many of them happen in a behaviour
    MaxRequests,  \* bound: API requests in a behaviour
    MaxFires,     \* bound: occurrences of the target's schedule
    NoOne         \* the holder of a job nobody runs

FaultKinds == {"crash",    \* a process dies between two awaits
               "db",       \* a database call throws, nothing committed
               "timeout",  \* a handler outlives manifest.timeout
               "add"}      \* Queue.add throws

ASSUME ProcessAssumption ==
    Handlers \cap Clients = {} /\ NoOne \notin Handlers
ASSUME BoundAssumption ==
    /\ MaxTries \in Nat \ {0} /\ MaxFaults \in Nat
    /\ MaxRequests \in Nat /\ MaxFires \in Nat /\ Faults \subseteq FaultKinds

VARIABLES
    content,     \* the content type that is published
    target,      \* the publication_targets row
    checkpoint,  \* the phase in the latest checkpoint row of publish_attempts
    armed,       \* "yes" while an enabled scheduled_jobs row names the target
    jobs,        \* publishing.execute.v1 jobs: generation -> state, tries, holder
    tickets,     \* publishing.dispatch.v1 jobs waiting for a handler
    proc,        \* each process: its next step and what it read or decided
    posts,       \* posts that exist on the page
    faults, requests, fires,  \* counters (bounds)
    overlapped,  \* auxiliary: "yes" once two executions held a checkpoint at once
    confirmed    \* auxiliary: "yes" from confirmNotPublished to the next post attempt

auxVars == <<requests, fires, overlapped, confirmed>>
vars == <<content, target, checkpoint, armed, jobs, tickets, proc, posts, faults, auxVars>>

Procs    == Handlers \cup Clients
Contents == {"VIDEO", "SOCIAL_POST"}
Statuses == {"PENDING", "SCHEDULED", "QUEUED", "PUBLISHING", "PUBLISHED", "FAILED", "CANCELLED"}

\* assertPublicationTargetTransition. (A definition marked Slip is a plausible
\* mistake in the one after it; the checks must notice it.)
ReopenedByRetry == {"QUEUED"}   \* Slip: a cancelled target may be retried
AfterCancel     == {}
Allowed == [PENDING    |-> {"SCHEDULED", "QUEUED", "CANCELLED"},
            SCHEDULED  |-> {"QUEUED", "CANCELLED"},
            QUEUED     |-> {"PUBLISHING", "CANCELLED"},
            PUBLISHING |-> {"PUBLISHED", "FAILED"},
            FAILED     |-> {"QUEUED", "CANCELLED"},
            PUBLISHED  |-> {}, CANCELLED |-> AfterCancel]
May(to) == to \in Allowed[target.status]

\* lastErrorCode: none, FACEBOOK_PUBLISH_OUTCOME_UNKNOWN, PUBLISHING_CHECKPOINT_
\* UNRECOVERABLE, PUBLISHING_RECONCILIATION_RESOLVED_NOT_PUBLISHED, or any other.
Errors == {"none", "unknown", "unrecoverable", "resolved", "other"}

ReconciliationRequired == target.status = "FAILED" /\ target.error = "unknown"

Idle == [pc |-> "idle", seen |-> "PENDING", count |-> 0, verdict |-> "success", error |-> "none",
         late |-> "no"]   \* late is auxiliary: the target was cancelled since this began

Init ==
    /\ content \in Contents
    /\ \E s \in {"PENDING", "SCHEDULED"} :
          /\ target = [status |-> s, retryCount |-> 0, error |-> "none"]
          /\ armed = IF s = "SCHEDULED" THEN "yes" ELSE "no"
    /\ checkpoint = "none" /\ tickets = 0 /\ posts = 0
    /\ jobs = [g \in {} |-> [state |-> "ready", tries |-> 0, by |-> NoOne]]
    /\ proc = [p \in Procs |-> Idle]
    /\ faults = 0 /\ requests = 0 /\ fires = 0
    /\ overlapped = "no" /\ confirmed = "no"

-----------------------------------------------------------------------------
(* Building blocks *)

Fault(kind) == kind \in Faults /\ faults < MaxFaults /\ faults' = faults + 1

At(p, label)   == proc[p].pc = label
Goto(p, label) == proc' = [proc EXCEPT ![p].pc = label]
\* failTarget comes next, with this error code and classification.
Failing(p, code, class) ==
    proc' = [proc EXCEPT ![p].pc = "fail", ![p].error = code, ![p].verdict = class]
Ends(p) == proc' = [proc EXCEPT ![p] = Idle]

Queued(g, state) ==
    jobs' = [x \in DOMAIN jobs \cup {g} |->
               IF x = g THEN [state |-> state, tries |-> 0, by |-> NoOne] ELSE jobs[x]]

\* The job a process holds, if it still does, ends an attempt with a verdict.
Settled(job, verdict) ==
    [job EXCEPT !.by = NoOne,
                !.state = CASE verdict = "success" -> "done"
                            [] verdict = "retryable" /\ job.tries < MaxTries -> "ready"
                            [] OTHER -> "dead"]
EndAttempt(h, verdict) ==
    jobs' = [g \in DOMAIN jobs |->
               IF jobs[g].by = h THEN Settled(jobs[g], verdict) ELSE jobs[g]]

-----------------------------------------------------------------------------
(* API: dispatchTarget, cancelTarget, markExternallyPublished,             *)
(* confirmNotPublished. Each reads the row, checks it, then updates it by   *)
(* id: the update does not repeat the check.                               *)

Request(c, label) ==
    /\ At(c, "idle") /\ requests < MaxRequests /\ requests' = requests + 1
    /\ proc' = [proc EXCEPT ![c] = [Idle EXCEPT !.pc = label, !.seen = IF label = "dispatch" THEN target.status
                                                              ELSE Idle.seen]]
    /\ UNCHANGED <<content, target, checkpoint, armed, jobs, tickets, posts, faults,
                   fires, overlapped, confirmed>>

DispatchRead(c) == ~ReconciliationRequired /\ May("QUEUED") /\ Request(c, "dispatch")
CancelRead(c)   == May("CANCELLED") /\ Request(c, "cancel")
MarkRead(c)     == ReconciliationRequired /\ Request(c, "markPublished")
ConfirmRead(c)  == ReconciliationRequired /\ Request(c, "confirm")

\* A retry of a failed target is a new generation; its job is enqueued after
\* the transaction, under a key made of the retryCount that was written.
DispatchWrite(c) ==
    /\ At(c, "dispatch")
    /\ LET count == IF proc[c].seen = "FAILED" THEN target.retryCount + 1 ELSE target.retryCount
       IN  /\ target' = [target EXCEPT !.status = "QUEUED", !.retryCount = count]
           /\ proc' = [proc EXCEPT ![c].pc = "enqueue", ![c].count = count]
    /\ UNCHANGED <<content, checkpoint, armed, jobs, tickets, posts, faults, auxVars>>

\* BackgroundJobsService.enqueue: a known key replays the job it created.
Enqueue(c) ==
    /\ At(c, "enqueue")
    /\ \/ proc[c].count \in DOMAIN jobs /\ UNCHANGED <<jobs, faults>>
       \/ proc[c].count \notin DOMAIN jobs /\ Queued(proc[c].count, "ready") /\ UNCHANGED faults
       \/ proc[c].count \notin DOMAIN jobs /\ Queued(proc[c].count, "dead") /\ Fault("add")
    /\ Ends(c)
    /\ UNCHANGED <<content, target, checkpoint, armed, tickets, posts, auxVars>>

CancelWrite(c) ==
    /\ At(c, "cancel")
    /\ target' = [target EXCEPT !.status = "CANCELLED"]
    /\ armed' = "no"
    /\ proc' = [p \in Procs |-> IF p = c THEN Idle
                                ELSE IF At(p, "idle") THEN proc[p]
                                ELSE [proc[p] EXCEPT !.late = "yes"]]
    /\ UNCHANGED <<content, checkpoint, jobs, tickets, posts, faults, auxVars>>

MarkWrite(c) ==
    /\ At(c, "markPublished")
    /\ target' = [target EXCEPT !.status = "PUBLISHED"]
    /\ Ends(c)
    /\ UNCHANGED <<content, checkpoint, armed, jobs, tickets, posts, faults, auxVars>>

\* Only the error code is rewritten: status and checkpoint stay.
ConfirmedTarget == [target EXCEPT !.error = "resolved"]

ConfirmWrite(c) ==
    /\ At(c, "confirm")
    /\ target' = ConfirmedTarget
    /\ confirmed' = "yes"
    /\ Ends(c)
    /\ UNCHANGED <<content, checkpoint, armed, jobs, tickets, posts, faults, requests,
                   fires, overlapped>>

\* POST background-jobs/:id/retry of a dead execute job (see BackgroundJobs).
RetryJob(g) ==
    /\ jobs[g].state = "dead" /\ requests < MaxRequests /\ requests' = requests + 1
    /\ jobs' = [jobs EXCEPT ![g].state = "ready"]
    /\ UNCHANGED <<content, target, checkpoint, armed, tickets, proc, posts, faults,
                   fires, overlapped, confirmed>>

-----------------------------------------------------------------------------
(* Schedule and dispatchScheduledTarget                                     *)

\* The cron expression of a one-off recurs, and no code disarms it but cancel.
ScheduleFires ==
    /\ armed = "yes" /\ fires < MaxFires /\ fires' = fires + 1
    /\ tickets' = tickets + 1
    /\ UNCHANGED <<content, target, checkpoint, armed, jobs, proc, posts, faults,
                   requests, overlapped, confirmed>>

TakeTicket(h) ==
    /\ At(h, "idle") /\ tickets > 0 /\ tickets' = tickets - 1
    /\ Goto(h, "scheduled")
    /\ UNCHANGED <<content, target, checkpoint, armed, jobs, posts, faults, auxVars>>

\* Reads and checks the row; the key is made of the retryCount it read.
ScheduledRead(h) ==
    /\ At(h, "scheduled")
    /\ \/ May("QUEUED") /\ proc' = [proc EXCEPT ![h].pc = "queue", ![h].count = target.retryCount]
       \/ ~May("QUEUED") /\ Ends(h)
    /\ UNCHANGED <<content, target, checkpoint, armed, jobs, tickets, posts, faults, auxVars>>

\* Target and job in one transaction: a known key rolls both back.
ScheduledWrite(h) ==
    /\ At(h, "queue")
    /\ \/ /\ proc[h].count \notin DOMAIN jobs /\ Queued(proc[h].count, "unsent")
          /\ target' = [target EXCEPT !.status = "QUEUED"]
          /\ Goto(h, "send")
       \/ proc[h].count \in DOMAIN jobs /\ Ends(h) /\ UNCHANGED <<jobs, target>>
    /\ UNCHANGED <<content, checkpoint, armed, tickets, posts, faults, auxVars>>

\* Queue.add, or the compensation of its failure.
ScheduledAdd(h) ==
    /\ At(h, "send")
    /\ \/ Queued(proc[h].count, "ready") /\ UNCHANGED faults
       \/ Queued(proc[h].count, "dead") /\ Fault("add")
    /\ Ends(h)
    /\ UNCHANGED <<content, target, checkpoint, armed, tickets, posts, auxVars>>

-----------------------------------------------------------------------------
(* PublishingExecutionService.execute                                       *)

Deliver(h, g) ==
    /\ At(h, "idle") /\ jobs[g].state = "ready"
    /\ jobs' = [jobs EXCEPT ![g] = [state |-> "active", tries |-> jobs[g].tries + 1, by |-> h]]
    /\ Goto(h, "read")
    /\ UNCHANGED <<content, target, checkpoint, armed, tickets, posts, faults, auxVars>>

\* A failed target is first prepared for a retry, whatever its error code; one
\* that may not be published ends the job.
ReadTarget(h) ==
    /\ At(h, "read")
    /\ \/ target.status = "FAILED" /\ Goto(h, "prepare")
       \/ target.status = "QUEUED" /\ Goto(h, "start")
       \/ /\ target.status \notin {"FAILED", "QUEUED"}
          /\ proc' = [proc EXCEPT ![h].pc = "report", ![h].verdict = "permanent"]
    /\ UNCHANGED <<content, target, checkpoint, armed, jobs, tickets, posts, faults, auxVars>>

Prepare(h) ==
    /\ At(h, "prepare")
    /\ target' = [target EXCEPT !.status = "QUEUED", !.retryCount = target.retryCount + 1]
    /\ Goto(h, "start")
    /\ UNCHANGED <<content, checkpoint, armed, jobs, tickets, posts, faults, auxVars>>

Start(h) ==
    /\ At(h, "start")
    /\ target' = [target EXCEPT !.status = "PUBLISHING"]
    /\ Goto(h, "check")
    /\ UNCHANGED <<content, checkpoint, armed, jobs, tickets, posts, faults, auxVars>>

NotReadyUnrecorded(h) ==   \* Slip: returns without failTarget
    proc' = [proc EXCEPT ![h].pc = "report", ![h].verdict = "permanent"]
NotReady(h) == Failing(h, "other", "permanent")

\* Readiness, references, blog content and provider, evaluated again.
Check(h) ==
    /\ At(h, "check")
    /\ Goto(h, "load") \/ NotReady(h)
    /\ UNCHANGED <<content, target, checkpoint, armed, jobs, tickets, posts, faults, auxVars>>

\* loadPriorCheckpoint takes the latest row. Its validator knows the phases of
\* a video only: the checkpoint of a feed post is "unusable".
Loaded == {"session", "mark", "post"}
FreshStart(h) ==
    Goto(h, IF content = "VIDEO" /\ checkpoint = "none" THEN "session" ELSE "mark")
LoadedCheckpoint(h) ==
    \/ checkpoint = "none" /\ FreshStart(h)
    \/ checkpoint = "UPLOAD_SESSION" /\ FreshStart(h)
    \/ checkpoint = "ATTEMPTED" /\ content = "VIDEO" /\ Failing(h, "unknown", "permanent")
    \/ checkpoint = "ATTEMPTED" /\ content = "SOCIAL_POST" /\ Failing(h, "unrecoverable", "permanent")

Load(h) ==
    /\ At(h, "load")
    /\ LoadedCheckpoint(h)
    /\ overlapped' = IF \E other \in Handlers \ {h} : proc[other].pc \in Loaded
                     THEN "yes" ELSE overlapped
    /\ UNCHANGED <<content, target, checkpoint, armed, jobs, tickets, posts, faults,
                   requests, fires, confirmed>>

\* The provider throws, or a callback of it does: retryable or permanent.
ProviderThrows(h) ==   \* Slip: rethrown for the queue to retry, without failTarget
    proc' = [proc EXCEPT ![h].pc = "report", ![h].verdict = "retryable"]
ProviderFails(h) == \E class \in {"retryable", "permanent"} : Failing(h, "other", class)

\* createUploadSession, then its checkpoint.
OpenSession(h) ==
    /\ At(h, "session")
    /\ \/ checkpoint' = "UPLOAD_SESSION" /\ Goto(h, "mark")
       \/ ProviderFails(h) /\ UNCHANGED checkpoint
    /\ UNCHANGED <<content, target, armed, jobs, tickets, posts, faults, auxVars>>

\* transferBytes (of a video), then the checkpoint that forbids a second call.
SaveUnmarked == UNCHANGED checkpoint   \* Slip: saved after the call, lost with it
SaveMark     == checkpoint' = "ATTEMPTED"

MarkAttempt(h) ==
    /\ At(h, "mark")
    /\ \/ SaveMark /\ confirmed' = "no" /\ Goto(h, "post")
       \/ ProviderFails(h) /\ UNCHANGED <<checkpoint, confirmed>>
    /\ UNCHANGED <<content, target, armed, jobs, tickets, posts, faults, requests, fires,
                   overlapped>>

\* The one call that is not idempotent. Its reply may be lost, or be an error.
Post(h) ==
    /\ At(h, "post")
    /\ \/ posts' = posts + 1 /\ Goto(h, "complete")
       \/ posts' \in {posts, posts + 1} /\ ProviderFails(h)
    /\ UNCHANGED <<content, target, checkpoint, armed, jobs, tickets, faults, auxVars>>

\* completeTarget; a database error is caught like one of the provider's.
Complete(h) ==
    /\ At(h, "complete")
    /\ \/ /\ target' = [target EXCEPT !.status = "PUBLISHED"]
          /\ proc' = [proc EXCEPT ![h].pc = "report", ![h].verdict = "success"]
          /\ UNCHANGED faults
       \/ Fault("db") /\ Failing(h, "other", "retryable") /\ UNCHANGED target
    /\ UNCHANGED <<content, checkpoint, armed, jobs, tickets, posts, auxVars>>

FailTarget(h) ==
    /\ At(h, "fail")
    /\ target' = [target EXCEPT !.status = "FAILED", !.error = proc[h].error]
    /\ proc' = [proc EXCEPT ![h].pc = "report", ![h].error = Idle.error]
    /\ UNCHANGED <<content, checkpoint, armed, jobs, tickets, posts, faults, auxVars>>

\* The processor translates the outcome: resolve, throw, or dead-letter.
Report(h) ==
    /\ At(h, "report")
    /\ EndAttempt(h, proc[h].verdict)
    /\ Ends(h)
    /\ UNCHANGED <<content, target, checkpoint, armed, tickets, posts, faults, auxVars>>

-----------------------------------------------------------------------------
(* Faults *)

\* A database call outside the try throws: the target stays as it is.
Throw(h) ==
    /\ proc[h].pc \in {"read", "prepare", "start", "check", "load", "fail"}
    /\ Fault("db")
    /\ proc' = [proc EXCEPT ![h].pc = "report", ![h].verdict = "retryable"]
    /\ UNCHANGED <<content, target, checkpoint, armed, jobs, tickets, posts, auxVars>>

\* The race of BullMqWorkerManager.process ends; the handler itself goes on.
Timeout(h) ==
    /\ \E g \in DOMAIN jobs : jobs[g].by = h
    /\ Fault("timeout") /\ EndAttempt(h, "retryable")
    /\ UNCHANGED <<content, target, checkpoint, armed, tickets, proc, posts, auxVars>>

Crash(p) ==
    /\ ~At(p, "idle") /\ Fault("crash")
    /\ EndAttempt(p, "retryable") /\ Ends(p)
    /\ UNCHANGED <<content, target, checkpoint, armed, tickets, posts, auxVars>>

-----------------------------------------------------------------------------
ClientStep(c) ==
    \/ DispatchWrite(c) \/ Enqueue(c)
    \/ CancelWrite(c) \/ MarkWrite(c) \/ ConfirmWrite(c)

HandlerStep(h) ==
    \/ ScheduledRead(h) \/ ScheduledWrite(h) \/ ScheduledAdd(h)
    \/ ReadTarget(h) \/ Prepare(h) \/ Start(h) \/ Check(h) \/ Load(h)
    \/ OpenSession(h) \/ MarkAttempt(h) \/ Post(h)
    \/ Complete(h) \/ FailTarget(h) \/ Report(h)

Next ==
    \/ \E c \in Clients : \/ DispatchRead(c) \/ CancelRead(c) \/ MarkRead(c) \/ ConfirmRead(c)
                          \/ ClientStep(c)
    \/ \E g \in DOMAIN jobs : RetryJob(g) \/ \E h \in Handlers : Deliver(h, g)
    \/ ScheduleFires
    \/ \E h \in Handlers : TakeTicket(h) \/ HandlerStep(h) \/ Throw(h) \/ Timeout(h)
    \/ \E p \in Procs : Crash(p)

Spec == Init /\ [][Next]_vars

\* A process that is scheduled goes on: the event loop of a live worker.
FairSpec == Spec /\ \A h \in Handlers : WF_vars(HandlerStep(h))

-----------------------------------------------------------------------------
(* Properties *)

Labels   == {"idle", "dispatch", "enqueue", "cancel", "markPublished", "confirm",
             "scheduled", "queue", "send", "read", "prepare", "start", "check", "load",
             "session", "mark", "post", "complete", "fail", "report"}
Verdicts == {"success", "retryable", "permanent"}
TargetType == [status : Statuses, retryCount : Nat, error : Errors]
JobType    == [state : {"unsent", "ready", "active", "done", "dead"}, tries : Nat,
               by : Handlers \cup {NoOne}]
ProcType   == [pc : Labels, seen : Statuses, count : Nat, verdict : Verdicts, error : Errors,
               late : {"yes", "no"}]

\* Every variable has its type; execute jobs are keyed by generations.
TypeOK ==
    /\ content \in Contents /\ target \in TargetType
    /\ checkpoint \in {"none", "UPLOAD_SESSION", "ATTEMPTED"}
    /\ armed \in {"yes", "no"}
    /\ DOMAIN jobs \subseteq Nat /\ jobs \in [DOMAIN jobs -> JobType]
    /\ tickets \in Nat /\ posts \in Nat /\ proc \in [Procs -> ProcType]
    /\ faults \in Nat /\ requests \in Nat /\ fires \in Nat
    /\ overlapped \in {"yes", "no"} /\ confirmed \in {"yes", "no"}

\* However often the target is retried, by its job, by a person or after a crash
\* or a lost reply, the page has at most one post, unless two executions held a
\* checkpoint at the same time: the attempt is marked before the call is made.
SinglePost == posts <= 1 \/ overlapped = "yes"

\* A target is PUBLISHING only while an execution works on it, unless a fault
\* happened: no early return forgets to write the outcome.
Working == {"check", "load", "complete", "fail"} \cup Loaded
PublishingIsOwned ==
    target.status = "PUBLISHING" => faults > 0 \/ \E h \in Handlers : proc[h].pc \in Working

\* Only a process that was under way when the target was cancelled can move the
\* target out of CANCELLED: whoever reads the cancelled row leaves it alone.
OnlyLateUndoCancel ==
    [][target.status = "CANCELLED" /\ target'.status # "CANCELLED"
          => \E p \in Procs : proc[p].late = "yes" /\ proc'[p] # proc[p]]_vars

\* Without faults, an attempt that was started ends.
AttemptSettles == target.status = "PUBLISHING" ~> target.status # "PUBLISHING" \/ faults > 0

\* After confirmNotPublished "ordinary retry is now available": it is not
\* answered with an unknown outcome again before a post has been attempted.
ConfirmedCanRetry == confirmed = "yes" => target.error # "unknown"
=============================================================================
