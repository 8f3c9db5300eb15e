------------------------------ MODULE MediaJobs ------------------------------
(* One media_jobs or video_render_jobs row, driven by the handlers of the    *)
(* render worker (MediaImageGenerateProcessor, MediaTtsProcessor,            *)
(* MediaSubtitleGenerateProcessor, VideoRenderProcessor) under the attempts  *)
(* of one background job, which is what JobLifecycle promises of it.         *)
(*                                                                           *)
(* A handler claims the row, checks its input, produces and stores a file,   *)
(* and writes the outcome by id. The kinds differ in what they make of an    *)
(* error, and of which: for an image or a narration a provider's error or    *)
(* the handler's own time limit may be worth another attempt, and any other  *)
(* error is final; a render tries again after whatever is not a              *)
(* PermanentProcessorError; subtitles do so without ever looking at the      *)
(* number of the attempt.                                                    *)
(*                                                                           *)
(* Left out: the file itself, which a failed attempt may leave behind, and   *)
(* the submission (VideoPipeline has it): the row exists and has its job.    *)
EXTENDS Naturals

CONSTANTS
    MediaBudget,     \* maxAttempts of the four manifests
    MaxAttempt       \* bound on the attempts, those of manual retries included

ASSUME MediaJobAssumption == MediaBudget \in Nat \ {0} /\ MaxAttempt \in Nat

VARIABLES
    jobStatus, jobAttempts, jobDead,   \* the background_jobs row
    kind,        \* which of the handlers
    row,         \* the status of the media_jobs row
    performer,   \* what the handler of each attempt does next
    author,      \* the attempt that wrote COMPLETED, 0 if there is none (history)
    refused,     \* an input was refused outside of the try (history)
    disturbed    \* an attempt was given up or interrupted, or the queue could
                 \* not be told (history)

mediaJobVars == <<jobStatus, jobAttempts, jobDead, kind, row, performer, author, refused, disturbed>>
jobRow       == <<jobStatus, jobAttempts, jobDead>>

Engine == INSTANCE JobLifecycle WITH
              status <- jobStatus, attempts <- jobAttempts, deadLettered <- jobDead,
              MaxAttempts <- MediaBudget

Attempts      == 1..MaxAttempt
Terminal      == {"COMPLETED", "FAILED", "TIMED_OUT"}
Performs(n, label) == performer[n] = label
ThenDoes(n, label) == performer' = [performer EXCEPT ![n] = label]

MediaJobInit ==
    /\ jobStatus = "QUEUED" /\ jobAttempts = 0 /\ jobDead = FALSE
    /\ kind \in {"image", "tts", "subtitle", "render"}
    /\ row = "QUEUED" /\ performer = [n \in Attempts |-> "none"]
    /\ author = 0 /\ refused = FALSE /\ disturbed = FALSE

-----------------------------------------------------------------------------
(* The handlers                                                              *)

FindMediaJob(n) ==
    /\ Performs(n, "find")
    /\ ThenDoes(n, IF row \in Terminal THEN "succeed" ELSE "claim")
    /\ UNCHANGED <<jobRow, kind, row, author, refused, disturbed>>

\* The fenced pickup. (A definition marked Slip is a plausible mistake in the
\* one after it; the checks must notice it.)
NotTerminal == row \notin Terminal     \* Slip: a RUNNING row may be claimed
Claimable   == row = "QUEUED"

ClaimMediaJob(n) ==
    /\ Performs(n, "claim")
    /\ \/ Claimable /\ row' = "RUNNING" /\ ThenDoes(n, "check")
       \/ ~Claimable /\ ThenDoes(n, "succeed") /\ UNCHANGED row
    /\ UNCHANGED <<jobRow, kind, author, refused, disturbed>>

\* What the row must say besides. An exception here is outside of the try, for
\* all but the subtitles, and leaves the row RUNNING; the snapshot of a render
\* that is invalid is written off first.
CheckInput(n) ==
    /\ Performs(n, "check")
    /\ \/ ThenDoes(n, "work") /\ UNCHANGED refused
       \/ kind \in {"subtitle", "render"} /\ ThenDoes(n, "reject") /\ UNCHANGED refused
       \/ kind # "subtitle" /\ ThenDoes(n, "fail") /\ refused' = TRUE
       \/ kind = "render" /\ ThenDoes(n, "retry") /\ refused' = TRUE
    /\ UNCHANGED <<jobRow, kind, row, author, disturbed>>

Revertible(n) == kind = "subtitle" \/ n < MediaBudget

\* How an error ends the attempt. One that is not the provider's counts as a
\* timeout once the handler's own timer went off.
ProviderError(n) ==
    \/ ThenDoes(n, "reject")
    \/ Revertible(n) /\ ThenDoes(n, "revert")
    \/ kind = "render" /\ ThenDoes(n, "expire")
    \/ kind \in {"image", "tts"} /\ ~Revertible(n) /\ ThenDoes(n, "expire")

OtherError(n) ==
    CASE kind = "subtitle" -> ThenDoes(n, "revert")
      [] kind = "render"   -> \/ ThenDoes(n, "expire")
                              \/ ThenDoes(n, IF Revertible(n) THEN "revert" ELSE "reject")
      [] OTHER             -> \/ ThenDoes(n, "reject")
                              \/ ThenDoes(n, IF Revertible(n) THEN "revert" ELSE "expire")

\* The provider or the engine, and MediaAssetWriterService.write.
Work(n) ==
    /\ Performs(n, "work")
    /\ ThenDoes(n, "complete") \/ ProviderError(n) \/ OtherError(n)
    /\ UNCHANGED <<jobRow, kind, row, author, refused, disturbed>>

\* A failure of this write is caught like one of the work, also when it was
\* applied and only its reply was lost.
CompleteMediaJob(n) ==
    /\ Performs(n, "complete")
    /\ \/ row' = "COMPLETED" /\ author' = n /\ (ThenDoes(n, "succeed") \/ OtherError(n))
       \/ OtherError(n) /\ UNCHANGED <<row, author>>
    /\ UNCHANGED <<jobRow, kind, refused, disturbed>>

NotReset == [revert |-> "RUNNING", reject |-> "FAILED", expire |-> "TIMED_OUT"]   \* Slip
Outcomes == [revert |-> "QUEUED", reject |-> "FAILED", expire |-> "TIMED_OUT"]
Throwing == [revert |-> "retry", reject |-> "fail", expire |-> "fail"]
Writing(n) == performer[n] \in DOMAIN Outcomes

RecordFailure(n) ==
    /\ Writing(n)
    /\ row' = Outcomes[performer[n]] /\ ThenDoes(n, Throwing[performer[n]])
    /\ UNCHANGED <<jobRow, kind, author, refused, disturbed>>

\* A database error in one of the other awaits is an exception for the engine,
\* whether or not the write was applied.
PerformerFails(n) ==
    /\ \/ Performs(n, "find") /\ UNCHANGED row
       \/ Performs(n, "claim") /\ row' \in {row, IF Claimable THEN "RUNNING" ELSE row}
       \/ Writing(n) /\ row' \in {row, Outcomes[performer[n]]}
    /\ ThenDoes(n, "retry") /\ disturbed' = TRUE
    /\ UNCHANGED <<jobRow, kind, author, refused>>

-----------------------------------------------------------------------------
(* The engine                                                                *)

BeginAttempt ==
    /\ jobAttempts < MaxAttempt /\ Engine!Start
    /\ ThenDoes(jobAttempts + 1, "find")
    /\ UNCHANGED <<kind, row, author, refused, disturbed>>

\* An exception is retried within the budget, a PermanentProcessorError is not.
Report(n) ==
    CASE Performs(n, "succeed") -> Engine!Finish /\ jobStatus' = "COMPLETED"
      [] Performs(n, "retry") /\ n < MediaBudget -> Engine!AutomaticRetry
      [] OTHER -> Engine!Finish /\ jobStatus' = "FAILED" /\ jobDead'

EndAttempt(n) ==
    /\ performer[n] \in {"succeed", "retry", "fail"} /\ ThenDoes(n, "done")
    /\ IF jobStatus = "RUNNING" /\ jobAttempts = n THEN Report(n) ELSE UNCHANGED jobRow
    /\ UNCHANGED <<kind, row, author, refused, disturbed>>

\* The timer, the sweep or a lost lock: the attempt is over for the engine, and
\* its handler goes on until it returns.
AttemptGivenUp ==
    /\ \/ jobAttempts < MediaBudget /\ Engine!AutomaticRetry
       \/ Engine!Finish /\ jobStatus' = "TIMED_OUT"
    /\ disturbed' = TRUE
    /\ UNCHANGED <<kind, row, performer, author, refused>>

PerformerDies(n) ==
    /\ performer[n] \notin {"none", "done"} /\ ThenDoes(n, "done")
    /\ disturbed' = TRUE
    /\ UNCHANGED <<jobRow, kind, row, author, refused>>

QueueNotTold ==
    /\ Engine!DispatchFailure /\ disturbed' = TRUE
    /\ UNCHANGED <<kind, row, performer, author, refused>>

\* POST /jobs/:id/retry, of a job that failed.
AskedAgain ==
    /\ jobAttempts < MaxAttempt /\ Engine!ManualRetry
    /\ UNCHANGED <<kind, row, performer, author, refused, disturbed>>

-----------------------------------------------------------------------------
MediaJobNext ==
    \/ BeginAttempt \/ AttemptGivenUp \/ QueueNotTold \/ AskedAgain
    \/ \E n \in Attempts :
          \/ FindMediaJob(n) \/ ClaimMediaJob(n) \/ CheckInput(n) \/ Work(n)
          \/ CompleteMediaJob(n) \/ RecordFailure(n)
          \/ PerformerFails(n) \/ EndAttempt(n) \/ PerformerDies(n)

MediaJobSpec == MediaJobInit /\ [][MediaJobNext]_mediaJobVars

-----------------------------------------------------------------------------
(* Properties                                                                *)

JobOver == jobStatus = "COMPLETED" \/ (jobStatus = "FAILED" /\ jobDead)

\* When the background job is over, so is the row it was to drive: a video that
\* waits for the row is not kept waiting. Undisturbed, there are two exceptions:
\* the last attempt at subtitles may leave them QUEUED, where every later request
\* finds them again, and an input refused after the claim leaves the row RUNNING.
MediaDriven ==
    JobOver /\ ~disturbed =>
        \/ row \in Terminal
        \/ kind = "subtitle" /\ row = "QUEUED" /\ jobStatus = "FAILED"
        \/ kind # "subtitle" /\ row = "RUNNING" /\ refused

\* What is COMPLETED stays so, however attempts are given up, overlap and write
\* by id: nobody but the attempt that completed the row, and was not told so,
\* overwrites it.
CompletedStands ==
    [][ row = "COMPLETED" /\ row' # "COMPLETED" =>
          author # 0 /\ Writing(author) /\ performer'[author] # performer[author] ]_mediaJobVars
-----------------------------------------------------------------------------
(* The inductive invariant behind them                                       *)

RowTypeOK ==
    /\ jobStatus \in {"QUEUED", "RUNNING"} \cup Engine!Settled
    /\ jobAttempts \in 0..MaxAttempt /\ jobDead \in BOOLEAN
    /\ kind \in {"image", "tts", "subtitle", "render"}
    /\ row \in {"QUEUED", "RUNNING"} \cup Terminal
    /\ performer \in [Attempts ->
           {"none", "find", "claim", "check", "work", "complete", "done"}
             \cup DOMAIN Outcomes \cup {"succeed", "retry", "fail"}]
    /\ author \in 0..MaxAttempt
    /\ refused \in BOOLEAN /\ disturbed \in BOOLEAN

\* One attempt at most is past the claim, nobody is while the row may be claimed,
\* and a row that is COMPLETED is in no other hands than its author's.
PastClaim(n) == performer[n] \in {"check", "work", "complete"} \/ Writing(n)
RowClaimed ==
    /\ \A n, k \in Attempts : PastClaim(n) /\ PastClaim(k) => n = k
    /\ row = "QUEUED" => \A n \in Attempts : ~PastClaim(n)
    /\ row = "COMPLETED" => \A n \in Attempts : PastClaim(n) => Writing(n) /\ n = author

NoneAhead == \A n \in Attempts : n > jobAttempts => performer[n] = "none"

\* What an undisturbed attempt knows of the row.
LeftRunning == row = "RUNNING" /\ refused /\ kind # "subtitle"
AtRest      == row \in {"QUEUED"} \cup Terminal \/ LeftRunning
RowKnown(n, step) ==
    \/ step = "find" /\ AtRest
    \/ step = "claim" /\ (row = "QUEUED" \/ LeftRunning)
    \/ step \in {"check", "work", "complete"} /\ row = "RUNNING"
    \/ step = "revert" /\ Revertible(n)
    \/ step \in {"reject", "expire"}
    \/ step \in {"succeed", "fail"} /\ (row \in Terminal \/ LeftRunning)
    \/ step = "retry" /\ (LeftRunning \/ (row = "QUEUED" /\ Revertible(n)))

RowFollows ==
    /\ \A n \in Attempts : performer[n] \notin {"none", "done"} =>
           jobStatus = "RUNNING" /\ jobAttempts = n
    /\ jobStatus = "RUNNING" =>
           jobAttempts \in Attempts /\ RowKnown(jobAttempts, performer[jobAttempts])
    /\ jobStatus = "QUEUED" => AtRest
    /\ jobStatus \in Engine!Settled =>
           \/ row \in Terminal
           \/ LeftRunning
           \/ kind = "subtitle" /\ row = "QUEUED" /\ jobStatus = "FAILED"

RowIInv == RowTypeOK /\ RowClaimed /\ NoneAhead /\ (~disturbed => RowFollows)
=============================================================================
