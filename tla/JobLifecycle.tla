---------------------------- MODULE JobLifecycle ----------------------------
(***************************************************************************)
(* What the job engine promises to everyone who reads a background_jobs    *)
(* row: the life cycle of one job, without the broker, the workers or the  *)
(* requests behind it.  A job is started once per attempt, is retried on   *)
(* its own only within its budget, and leaves a terminal status only when  *)
(* a user asks for a retry.                                                *)
(***************************************************************************)
EXTENDS Naturals

CONSTANT MaxAttempts   \* a positive number of attempts

VARIABLES status, attempts, deadLettered
jobVars == <<status, attempts, deadLettered>>

Settled == {"COMPLETED", "FAILED", "TIMED_OUT"}

Init == status = "NONE" /\ attempts = 0 /\ deadLettered = FALSE

Create ==
    /\ status = "NONE" /\ status' = "QUEUED"
    /\ UNCHANGED <<attempts, deadLettered>>

Start ==
    /\ status = "QUEUED" /\ status' = "RUNNING"
    /\ attempts' = attempts + 1
    /\ UNCHANGED deadLettered

\* An attempt succeeds, is cancelled (never dead-lettered) or fails for good.
Finish ==
    /\ status = "RUNNING"
    /\ \/ status' \in {"COMPLETED", "FAILED"} /\ UNCHANGED deadLettered
       \/ status' \in {"FAILED", "TIMED_OUT"} /\ deadLettered' = TRUE
    /\ UNCHANGED attempts

AutomaticRetry ==
    /\ status = "RUNNING" /\ attempts < MaxAttempts
    /\ status' = "QUEUED"
    /\ UNCHANGED <<attempts, deadLettered>>

\* The queue could not be told: the job is failed where the user can see it.
DispatchFailure ==
    /\ status = "QUEUED" /\ status' = "FAILED"
    /\ deadLettered' \in BOOLEAN
    /\ UNCHANGED attempts

ManualRetry ==
    /\ status \in {"FAILED", "TIMED_OUT"} /\ status' = "QUEUED"
    /\ deadLettered' = FALSE
    /\ UNCHANGED attempts

Next == Create \/ Start \/ Finish \/ AutomaticRetry \/ DispatchFailure \/ ManualRetry

Spec == Init /\ [][Next]_jobVars
=============================================================================
