------------------------------- MODULE AiJobs -------------------------------
(* One ai_jobs row, driven by the handler of ai.execute.v1                   *)
(* (AiExecuteProcessor) under the attempts of one background job, and        *)
(* submitted by AiJobSubmissionService.                                      *)
(*                                                                           *)
(* The background job is what JobLifecycle promises of it, which             *)
(* BackgroundJobs is shown to implement. The engine's fence keeps an attempt *)
(* it has given up from writing the background_jobs row, not from writing    *)
(* ai_jobs: its handler goes on until it returns.                            *)
(*                                                                           *)
(* Left out: prompts, providers and post-processing (how an execution ends   *)
(* is chosen freely), ai_job_steps, and the columns no guard reads.          *)
EXTENDS Naturals

CONSTANTS
    Budget,       \* maxAttempts of the manifest of ai.execute.v1
    MaxStarts     \* bound on the attempts, those of manual retries included

ASSUME AiAssumption == Budget \in Nat \ {0} /\ MaxStarts \in Nat

VARIABLES
    jobStatus, jobAttempts, jobDead,   \* the background_jobs row
    ai,         \* the status of the ai_jobs row
    handler,    \* what the handler of each attempt does next
    upset       \* an attempt was given up, failed between two of its writes,
                \* or the queue could not be told (history)

aiVars == <<jobStatus, jobAttempts, jobDead, ai, handler, upset>>

Engine == INSTANCE JobLifecycle WITH
              status <- jobStatus, attempts <- jobAttempts, deadLettered <- jobDead,
              MaxAttempts <- Budget

Starts     == 1..MaxStarts
AiTerminal == {"COMPLETED", "FAILED", "TIMED_OUT"}

AiInit ==
    /\ Engine!Init
    /\ ai = "NONE"
    /\ handler = [n \in Starts |-> "none"]
    /\ upset = FALSE

engineVars == <<jobStatus, jobAttempts, jobDead>>

-----------------------------------------------------------------------------
(* AiJobSubmissionService.submit                                             *)

CreateAiJob ==
    /\ ai = "NONE" /\ ai' = "QUEUED"
    /\ UNCHANGED <<engineVars, handler, upset>>

\* A second step: the API may die, or the enqueue fail, in between. The link
\* written afterwards is a column no guard reads.
EnqueueAiJob ==
    /\ ai = "QUEUED" /\ Engine!Create
    /\ UNCHANGED <<ai, handler, upset>>

-----------------------------------------------------------------------------
(* The handler                                                               *)

InHand(n, label)  == handler[n] = label
Proceed(n, label) == handler' = [handler EXCEPT ![n] = label]

\* The row is read, the agent and the provider are resolved: both may be
\* unknown to this worker.
FindAiJob(n) ==
    /\ InHand(n, "find")
    /\ \/ ai \in AiTerminal /\ Proceed(n, "succeed")
       \/ ai \notin AiTerminal /\ Proceed(n, "claim")
       \/ ai \notin AiTerminal /\ Proceed(n, "reject")
    /\ UNCHANGED <<engineVars, ai, upset>>

\* The fenced pickup. (A definition marked Slip is a plausible mistake in the
\* one after it; the checks must notice it.)
NotTerminal == ai \notin AiTerminal     \* Slip: a RUNNING row may be claimed
Unclaimed   == ai = "QUEUED"

ClaimAiJob(n) ==
    /\ InHand(n, "claim")
    /\ \/ Unclaimed /\ ai' = "RUNNING" /\ Proceed(n, "prepare")
       \/ ~Unclaimed /\ Proceed(n, "succeed") /\ UNCHANGED ai
    /\ UNCHANGED <<engineVars, upset>>

\* The knowledge pack must still exist and be ACTIVE.
CheckPack(n) ==
    /\ InHand(n, "prepare") /\ \E next \in {"execute", "reject"} : Proceed(n, next)
    /\ UNCHANGED <<engineVars, ai, upset>>

BudgetUsedUp(n)  == n > Budget     \* Slip: one more than the engine will grant
IsLastAttempt(n) == n >= Budget

\* The provider answers or fails, for good or not.
Execute(n) ==
    /\ InHand(n, "execute")
    /\ \/ \E next \in {"complete", "reject", "expire"} : Proceed(n, next)
       \/ ~IsLastAttempt(n) /\ Proceed(n, "revert")
    /\ UNCHANGED <<engineVars, ai, upset>>

\* What the write of the outcome makes of the row, and of the attempt. Every
\* one of them is an update by id.
AiWritten == [complete |-> "COMPLETED", revert |-> "QUEUED",
              reject |-> "FAILED", expire |-> "TIMED_OUT"]
Returns   == [complete |-> "succeed", revert |-> "retry", reject |-> "fail", expire |-> "fail"]

WriteOutcome(n) ==
    /\ handler[n] \in DOMAIN AiWritten
    /\ ai' = AiWritten[handler[n]] /\ Proceed(n, Returns[handler[n]])
    /\ UNCHANGED <<engineVars, upset>>

\* A database error in one of those awaits: before the execution, and in a
\* write of the catch, it is an ordinary exception for the engine; in the write
\* of a completion it is caught as a failure of the provider.
HandlerFails(n) ==
    /\ \/ /\ handler[n] \in {"find", "claim", "prepare", "revert", "reject", "expire"}
          /\ Proceed(n, "retry")
       \/ /\ InHand(n, "complete")
          /\ \/ ~IsLastAttempt(n) /\ Proceed(n, "revert")
             \/ Proceed(n, "reject")
    /\ upset' = TRUE
    /\ UNCHANGED <<engineVars, ai>>

-----------------------------------------------------------------------------
(* The engine                                                                *)

Fenced(n) == jobStatus = "RUNNING" /\ jobAttempts = n

StartAttempt ==
    /\ jobAttempts < MaxStarts /\ Engine!Start
    /\ Proceed(jobAttempts + 1, "find")
    /\ UNCHANGED <<ai, upset>>

\* An exception is retried within the budget, a PermanentProcessorError is not.
Outcome(n) ==
    CASE InHand(n, "succeed") -> Engine!Finish /\ jobStatus' = "COMPLETED"
      [] InHand(n, "retry") /\ n < Budget -> Engine!AutomaticRetry
      [] OTHER -> Engine!Finish /\ jobStatus' = "FAILED" /\ jobDead'

ReturnAttempt(n) ==
    /\ handler[n] \in {"succeed", "retry", "fail"} /\ Proceed(n, "done")
    /\ IF Fenced(n) THEN Outcome(n) ELSE UNCHANGED engineVars
    /\ UNCHANGED <<ai, upset>>

\* The timer, the sweep or a lost lock: the attempt is over for the engine.
GiveUp ==
    /\ \/ jobAttempts < Budget /\ Engine!AutomaticRetry
       \/ Engine!Finish /\ jobStatus' = "TIMED_OUT"
    /\ upset' = TRUE
    /\ UNCHANGED <<ai, handler>>

WorkerDies(n) ==
    /\ handler[n] \notin {"none", "done"} /\ Proceed(n, "done")
    /\ upset' = TRUE
    /\ UNCHANGED <<engineVars, ai>>

DispatchFails ==
    /\ Engine!DispatchFailure /\ upset' = TRUE
    /\ UNCHANGED <<ai, handler>>

\* POST /jobs/:id/retry, of a job that failed.
RetryByUser ==
    /\ jobAttempts < MaxStarts /\ Engine!ManualRetry
    /\ UNCHANGED <<ai, handler, upset>>

-----------------------------------------------------------------------------
HandlerStep(n) ==
    \/ FindAiJob(n) \/ ClaimAiJob(n) \/ CheckPack(n) \/ Execute(n) \/ WriteOutcome(n)
    \/ HandlerFails(n) \/ ReturnAttempt(n) \/ WorkerDies(n)

AiNext ==
    \/ CreateAiJob \/ EnqueueAiJob
    \/ StartAttempt \/ GiveUp \/ DispatchFails \/ RetryByUser
    \/ \E n \in Starts : HandlerStep(n)

AiSpec == AiInit /\ [][AiNext]_aiVars

-----------------------------------------------------------------------------
(* Properties                                                                *)

HandlerStates == {"none", "find", "claim", "prepare", "execute", "complete", "revert",
                  "reject", "expire", "succeed", "retry", "fail", "done"}

\* Type invariant of the two rows and the handlers.
AiTypeOK ==
    /\ jobStatus \in {"NONE", "QUEUED", "RUNNING"} \cup Engine!Settled
    /\ jobAttempts \in 0..MaxStarts /\ jobDead \in BOOLEAN
    /\ ai \in {"NONE", "QUEUED", "RUNNING"} \cup AiTerminal
    /\ handler \in [Starts -> HandlerStates] /\ upset \in BOOLEAN

\* "Guards against two overlapping executions of the identical AiJob": however
\* attempts are given up and overlap, and whatever a late one writes by id, the
\* provider is never asked by two of them at the same time.
OneExecution ==
    \A n, k \in Starts : InHand(n, "execute") /\ InHand(k, "execute") => n = k

Settled == jobStatus = "COMPLETED" \/ (jobStatus = "FAILED" /\ jobDead)

\* The handler's idea of its last attempt is the engine's: when the background
\* job is over, so is the AI job, unless an attempt was interrupted.
DrivenToTerminal ==
    Settled /\ ~upset => ai \in AiTerminal

\* The manifest of ai.execute.v1: it "drives exactly one existing ai_jobs row to
\* a terminal state". A job that COMPLETED, with no handler left, has.
CompletedIsTerminal ==
    jobStatus = "COMPLETED" /\ (\A n \in Starts : handler[n] \in {"none", "done"})
        => ai \in AiTerminal

-----------------------------------------------------------------------------
(* The inductive invariant behind them.                                      *)

\* The handlers that hold the claim: those of overlapping attempts that do not
\* may still write, but never QUEUED, which alone can be claimed.
Busy(n) == handler[n] \in {"prepare", "execute", "complete", "revert"}

ClaimHeld ==
    /\ \A n, k \in Starts : Busy(n) /\ Busy(k) => n = k
    /\ ai \in {"NONE", "QUEUED"} => \A n \in Starts : ~Busy(n)

NotBegun ==
    /\ ai = "NONE" => jobStatus = "NONE"
    /\ jobStatus = "NONE" => \A n \in Starts : handler[n] = "none"
    /\ \A n \in Starts : n > jobAttempts => handler[n] = "none"

\* What an attempt that was not disturbed knows of the row.
Knows(n, step) ==
    \/ step = "find" /\ ai \in {"QUEUED"} \cup AiTerminal
    \/ step = "claim" /\ ai = "QUEUED"
    \/ step \in {"prepare", "execute", "complete", "expire"} /\ ai = "RUNNING"
    \/ step = "revert" /\ ai = "RUNNING" /\ n < Budget
    \/ step = "reject" /\ ai \in {"QUEUED", "RUNNING"}
    \/ step \in {"succeed", "fail"} /\ ai \in AiTerminal
    \/ step = "retry" /\ ai = "QUEUED" /\ n < Budget

\* The engine and the row agree as long as nothing is disturbed.
Agreement ==
    /\ \A n \in Starts : handler[n] \notin {"none", "done"} =>
           jobStatus = "RUNNING" /\ jobAttempts = n
    /\ jobStatus = "RUNNING" => /\ jobAttempts \in Starts
                                /\ Knows(jobAttempts, handler[jobAttempts])
    /\ jobStatus = "QUEUED" => ai \in {"QUEUED"} \cup AiTerminal
    /\ jobStatus \in Engine!Settled => ai \in AiTerminal

AiIInv == AiTypeOK /\ ClaimHeld /\ NotBegun /\ (~upset => Agreement)
=============================================================================
