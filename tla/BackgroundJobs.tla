--------------------------- MODULE BackgroundJobs ---------------------------
(***************************************************************************)
(* One background_jobs row, the BullMQ entries that deliver it, and the     *)
(* four kinds of process that touch them:                                   *)
(*   - API clients: enqueue, requestCancel and requestRetry                 *)
(*     (apps/api background-jobs.service.ts);                               *)
(*   - workers: BullMqWorkerManager.process (packages/worker-core), one     *)
(*     element of Workers per concurrency slot;                             *)
(*   - sweepers: BackgroundJobReconciliationManager.handleTick, which       *)
(*     recovers RUNNING rows that outlived their manifest's timeout, and    *)
(*     those whose manifest its process does not register;                  *)
(*   - BullMQ itself, modelled from how the code uses it (external).        *)
(* Every await of a database or a Redis call is a step of its own, so any   *)
(* two processes interleave between a read and the write that relies on it. *)
(* Rows do not influence one another, so one row stands for all of them.    *)
(***************************************************************************)
EXTENDS Naturals, FiniteSets

CONSTANTS
    Workers,      \* BullMQ worker slots
    Sweepers,     \* reconciliation ticks that may run at the same time
    Unregistered, \* those in a process that does not register the job's type
    Clients,      \* API requests in flight at the same time
    MaxAttempts,  \* manifest.defaultRetryPolicy.maxAttempts, 1 by default
    Faults,       \* the kinds of fault this instance explores
    MaxFaults,    \* bound: how many of them happen in a behaviour
    MaxManual,    \* bound: how many manual retries are granted
    NoOne         \* the owner of an entry nobody has taken

FaultKinds == {"crash",      \* a process dies between two awaits
               "db",         \* a Postgres call throws, nothing committed
               "stall",      \* BullMQ loses the lock of a live worker
               "addLost",    \* Queue.add throws, nothing was added
               "addApplied"} \* Queue.add throws, yet the entry was added

ASSUME ProcessAssumption ==
    /\ Workers \cap Sweepers = {} /\ Workers \cap Clients = {}
    /\ Sweepers \cap Clients = {} /\ NoOne \notin Workers
    /\ Unregistered \subseteq Sweepers
ASSUME BoundAssumption ==
    /\ MaxAttempts \in Nat \ {0}
    /\ MaxManual \in Nat /\ MaxFaults \in Nat /\ Faults \subseteq FaultKinds

VARIABLES
    row,       \* the background_jobs row
    overdue,   \* now - startedAt >= manifest.timeout, for the latest start
    entry,     \* BullMQ: entry id -> its state, lock owner and stalledCounter
    proc,      \* each process: what it does next, the attempts value it captured,
               \* its terminalStatusOnExhaustion and the entry it processes
    faults,    \* the kinds of fault that have happened (bound)
    manual,    \* manual retries granted so far (bound and auxiliary)
    cancelAt   \* auxiliary: row.attempts when cancellation was requested

rowVars == <<row, overdue>>
auxVars == <<faults, manual, cancelAt>>
vars    == <<rowVars, entry, proc, auxVars>>

Procs     == Workers \cup Sweepers \cup Clients
Terminal  == {"COMPLETED", "FAILED", "TIMED_OUT"}
Retryable == {"FAILED", "TIMED_OUT"}

\* Entry ids: Bare is the row's own id, n the id "<row id>#retry<n>".
Bare    == 0
Entries == 0..MaxAttempts

NoRow == [status |-> "NONE", attempts |-> 0, cancelRequested |-> FALSE,
          deadLettered |-> FALSE, result |-> 0]
Idle  == [pc |-> "idle", mine |-> 0, verdict |-> "FAILED", entry |-> Bare]

Absent       == [state |-> "absent", owner |-> NoOne, stalls |-> 0]
Waiting(n)   == [state |-> "waiting", owner |-> NoOne, stalls |-> n]
Active(w, n) == [state |-> "active", owner |-> w, stalls |-> n]
Finished     == [state |-> "finished", owner |-> NoOne, stalls |-> 0]

Init ==
    /\ row = NoRow /\ overdue = FALSE
    /\ entry = [e \in Entries |-> Absent]
    /\ proc = [p \in Procs |-> Idle]
    /\ faults = {} /\ manual = 0 /\ cancelAt = 0

-----------------------------------------------------------------------------
(* Building blocks *)

\* Each kind of fault at most once.
Fault(kind) ==
    /\ kind \in Faults \ faults /\ Cardinality(faults) < MaxFaults
    /\ faults' = faults \cup {kind}

At(p, label)   == proc[p].pc = label
Goto(p, label) == proc' = [proc EXCEPT ![p].pc = label]

\* A worker's delivery still has to be finalized by BullMQ; a tick or an HTTP
\* request just ends.
EndRun(p) ==
    proc' = [proc EXCEPT ![p] = IF p \in Workers
                                THEN [Idle EXCEPT !.pc = "finalize", !.entry = proc[p].entry]
                                ELSE Idle]

\* The WHERE clause of every execution-owned write: status = RUNNING and
\* attempts = the value this process captured. (A definition marked Slip is a
\* plausible mistake in the one after it; the checks must notice it.)
FencedOnStatus(p) == row.status = "RUNNING"   \* Slip: attempts forgotten
Fenced(p) == row.status = "RUNNING" /\ row.attempts = proc[p].mine

\* Queue.add with an explicit jobId: a no-op while the id is still known.
AddEntry(e) ==
    entry' = IF entry[e] = Absent THEN [entry EXCEPT ![e] = Waiting(0)] ELSE entry

\* How an awaited Queue.add ends: added (ok), or an error, after which the
\* process goes on to compensate.
Dispatched(e)     == AddEntry(e) /\ UNCHANGED faults
DispatchFailed(e) == \/ Fault("addLost") /\ UNCHANGED entry
                     \/ Fault("addApplied") /\ AddEntry(e)

\* The lock of an active entry whose worker died with it in hand.
Orphaned(e) ==
    /\ entry[e].state = "active"
    /\ \A w \in Workers : entry[e].owner = w => At(w, "idle") \/ proc[w].entry # e

-----------------------------------------------------------------------------
(* API: enqueue, requestCancel, requestRetry *)

\* enqueue: the row is committed before the dispatch.
EnqueueCreate(c) ==
    /\ At(c, "idle") /\ row.status = "NONE"
    /\ row' = [row EXCEPT !.status = "QUEUED"]
    /\ Goto(c, "enqueueAdd")
    /\ UNCHANGED <<overdue, entry, auxVars>>

EnqueueAdd(c) ==
    /\ At(c, "enqueueAdd")
    /\ \/ Dispatched(Bare) /\ EndRun(c)
       \/ DispatchFailed(Bare) /\ Goto(c, "enqueueFailed")
    /\ UNCHANGED <<rowVars, manual, cancelAt>>

\* The compensation of a failed dispatch is an update by id, with no guard on
\* the row's status and without dead-lettering it; its own failure is ignored.
UndispatchedIgnored == row   \* Slip: not compensated
UndispatchedRow     == [row EXCEPT !.status = "FAILED"]

EnqueueFailed(c) ==
    /\ At(c, "enqueueFailed")
    /\ \/ row' = UndispatchedRow /\ UNCHANGED faults
       \/ Fault("db") /\ UNCHANGED row
    /\ EndRun(c)
    /\ UNCHANGED <<overdue, entry, manual, cancelAt>>

CancelRead(c) ==
    /\ At(c, "idle")
    /\ row.status \in {"QUEUED", "RUNNING"} /\ ~row.cancelRequested
    /\ Goto(c, "cancelWrite")
    /\ UNCHANGED <<rowVars, entry, auxVars>>

\* updateMany where cancellationRequestedAt is null: no guard on the status.
CancelWrite(c) ==
    /\ At(c, "cancelWrite")
    /\ row' = [row EXCEPT !.cancelRequested = TRUE]
    /\ cancelAt' = IF row.cancelRequested THEN cancelAt ELSE row.attempts
    /\ EndRun(c)
    /\ UNCHANGED <<overdue, entry, faults, manual>>

RetryRead(c) ==
    /\ At(c, "idle") /\ row.status \in Retryable
    /\ manual < MaxManual
    /\ Goto(c, "retryWrite")
    /\ UNCHANGED <<rowVars, entry, auxVars>>

\* The reset of every column but attempts.
ResetDeadRow == [row EXCEPT !.status = "QUEUED"]   \* Slip: deadLetteredAt kept
ResetRow     == [NoRow EXCEPT !.status = "QUEUED", !.attempts = row.attempts]

\* The guarded reset; a row that is no longer retryable answers 409 (as does,
\* in the model, a request beyond the bound).
RetryWrite(c) ==
    /\ At(c, "retryWrite")
    /\ \/ /\ row.status \in Retryable /\ manual < MaxManual
          /\ row' = ResetRow
          /\ manual' = manual + 1 /\ cancelAt' = 0
          /\ Goto(c, "retryRemove")
       \/ /\ row.status \notin Retryable \/ manual >= MaxManual
          /\ EndRun(c) /\ UNCHANGED <<row, manual, cancelAt>>
    /\ UNCHANGED <<overdue, entry, faults>>

\* queue.remove(id).catch(): refused while a worker holds the entry's lock.
RetryRemove(c) ==
    /\ At(c, "retryRemove")
    /\ \/ /\ entry[Bare].state # "active" \/ Orphaned(Bare)
          /\ entry' = [entry EXCEPT ![Bare] = Absent]
       \/ entry[Bare].state = "active" /\ UNCHANGED entry
    /\ Goto(c, "retryAdd")
    /\ UNCHANGED <<rowVars, auxVars>>

RetryAdd(c) ==
    /\ At(c, "retryAdd")
    /\ \/ Dispatched(Bare) /\ EndRun(c)
       \/ DispatchFailed(Bare) /\ Goto(c, "compensate")
    /\ UNCHANGED <<rowVars, manual, cancelAt>>

-----------------------------------------------------------------------------
(* Worker: BullMqWorkerManager.process *)

\* BullMQ hands a waiting (or no longer delayed) entry to a free slot.
Take(w, e) ==
    /\ At(w, "idle") /\ entry[e].state = "waiting"
    /\ entry' = [entry EXCEPT ![e] = Active(w, entry[e].stalls)]
    /\ proc' = [proc EXCEPT ![w] = [Idle EXCEPT !.pc = "pickup", !.entry = e]]
    /\ UNCHANGED <<rowVars, auxVars>>

\* Only a QUEUED row is picked up, whatever entry was delivered.
PickupGuard  == row.status = "QUEUED"

\* QUEUED -> RUNNING under a guard; any other status skips the delivery.
Pickup(w) ==
    /\ At(w, "pickup")
    /\ \/ /\ PickupGuard
          /\ row' = [row EXCEPT !.status = "RUNNING", !.attempts = row.attempts + 1]
          /\ overdue' = FALSE
          /\ proc' = [proc EXCEPT ![w].pc = "handle", ![w].mine = row.attempts + 1]
          /\ UNCHANGED faults
       \/ ~PickupGuard /\ EndRun(w) /\ UNCHANGED <<rowVars, faults>>
       \/ Fault("db") /\ EndRun(w) /\ UNCHANGED rowVars
    /\ UNCHANGED <<entry, manual, cancelAt>>

\* How the race between the handler and manifest.timeout ends: success, a
\* permanent failure (unknown type and invalid payload included), an ordinary
\* exception, JobCancelledError after isCancelled() read TRUE, or the timer.
Handle(w) ==
    /\ At(w, "handle")
    /\ \/ Goto(w, "complete")
       \/ Goto(w, "deadLetter")
       \/ Goto(w, "decide")
       \/ row.cancelRequested /\ Goto(w, "cancel")
       \/ /\ Fenced(w) => overdue
          /\ proc' = [proc EXCEPT ![w].pc = "decide", ![w].verdict = "TIMED_OUT"]
    /\ UNCHANGED <<rowVars, entry, auxVars>>

\* Time passes: the latest start of the row is older than manifest.timeout.
TimeoutElapses ==
    /\ row.status = "RUNNING" /\ ~overdue /\ overdue' = TRUE
    /\ UNCHANGED <<row, entry, proc, auxVars>>

\* transitionTerminal(COMPLETED): a fenced-out completion is dropped; a
\* database error there lands in the same catch as a handler's exception.
Complete(w) ==
    /\ At(w, "complete")
    /\ \/ /\ row' = IF Fenced(w) THEN [row EXCEPT !.status = "COMPLETED", !.result = proc[w].mine]
                                 ELSE row
          /\ EndRun(w) /\ UNCHANGED faults
       \/ Fault("db") /\ Goto(w, "decide") /\ UNCHANGED row
    /\ UNCHANGED <<overdue, entry, manual, cancelAt>>

\* BullMQ marks the delivery completed or failed, if this worker still holds
\* its lock.
Finalize(w) ==
    /\ At(w, "finalize")
    /\ LET e == proc[w].entry
       IN  entry' = IF entry[e].owner = w THEN [entry EXCEPT ![e] = Finished] ELSE entry
    /\ proc' = [proc EXCEPT ![w] = Idle]
    /\ UNCHANGED <<rowVars, auxVars>>

-----------------------------------------------------------------------------
(* Reconciliation sweep: findStaleCandidates, then recoverCandidate, which  *)
(* is scheduleRetryOrDeadLetter on the snapshot.                            *)

NoSnapshot       == 0              \* Slip: the attempts column not selected
SnapshotAttempts == row.attempts

\* Without a manifest there is no timeout to compare with: any age is too old.
Stale(s) == row.status = "RUNNING" /\ (s \in Unregistered \/ overdue)

Sweep(s) ==
    /\ At(s, "idle") /\ Stale(s)
    /\ proc' = [proc EXCEPT ![s] = [Idle EXCEPT !.pc = "decide", !.mine = SnapshotAttempts,
                                                !.verdict = "TIMED_OUT"]]
    /\ UNCHANGED <<rowVars, entry, auxVars>>

-----------------------------------------------------------------------------
(* scheduleRetryOrDeadLetter, shared by workers and sweepers *)

CancelUnread    == FALSE                  \* Slip: no fresh read
CancelRequested == row.cancelRequested
AttemptOverrun(p) == proc[p].mine <= MaxAttempts   \* Slip: one attempt too many
WithinBudget(p) == proc[p].mine < MaxAttempts

\* A fresh read of cancellationRequestedAt, then the attempts budget.
Decide(p) ==
    /\ At(p, "decide")
    /\ \/ CancelRequested /\ Goto(p, "cancel")
       \/ ~CancelRequested /\ WithinBudget(p) /\ Goto(p, "requeue")
       \/ ~CancelRequested /\ ~WithinBudget(p) /\ Goto(p, "deadLetter")
    /\ UNCHANGED <<rowVars, entry, auxVars>>

CancelledRow == [row EXCEPT !.status = "FAILED"]

\* transitionTerminal to FAILED (cancelled) or, dead-lettered, to the verdict;
\* a fence miss throws JobLifecycleConflictError and changes nothing.
Terminate(p) ==
    /\ \/ /\ At(p, "cancel")
          /\ row' = IF Fenced(p) THEN CancelledRow ELSE row
       \/ /\ At(p, "deadLetter")
          /\ row' = IF Fenced(p) THEN [row EXCEPT !.status = proc[p].verdict,
                                                  !.deadLettered = TRUE] ELSE row
    /\ EndRun(p)
    /\ UNCHANGED <<overdue, entry, auxVars>>

\* scheduleRetry, the guarded write.
Requeue(p) ==
    /\ At(p, "requeue")
    /\ \/ Fenced(p) /\ row' = [row EXCEPT !.status = "QUEUED"] /\ Goto(p, "retryDispatch")
       \/ ~Fenced(p) /\ EndRun(p) /\ UNCHANGED row
    /\ UNCHANGED <<overdue, entry, auxVars>>

SameId(p)  == Bare            \* Slip: the id of the delivery still active
RetryId(p) == proc[p].mine

\* scheduleRetry, the delayed add under "<id>#retry<attempts>".
RetryDispatch(p) ==
    /\ At(p, "retryDispatch")
    /\ \/ Dispatched(RetryId(p)) /\ EndRun(p)
       \/ DispatchFailed(RetryId(p)) /\ Goto(p, "compensate")
    /\ UNCHANGED <<rowVars, manual, cancelAt>>

\* A database error in one of those awaits ends the run, the row as it was.
RunFails(p) ==
    /\ proc[p].pc \in {"decide", "cancel", "deadLetter", "requeue"} /\ Fault("db")
    /\ EndRun(p)
    /\ UNCHANGED <<rowVars, entry, manual, cancelAt>>

\* RETRY_DISPATCH_FAILED, of scheduleRetry and of requestRetry: guarded on
\* QUEUED only; its own failure is ignored.
Compensate(p) ==
    /\ At(p, "compensate")
    /\ \/ /\ row' = IF row.status = "QUEUED"
                    THEN [row EXCEPT !.status = "FAILED", !.deadLettered = TRUE] ELSE row
          /\ UNCHANGED faults
       \/ Fault("db") /\ UNCHANGED row
    /\ EndRun(p)
    /\ UNCHANGED <<overdue, entry, manual, cancelAt>>

-----------------------------------------------------------------------------
(* The broker's own steps, and crashes *)

\* An entry whose lock is gone is made waiting again once (maxStalledCount is
\* 1 by default), and failed the next time.
Stalled(e) ==
    /\ entry[e].state = "active"
    /\ \/ Orphaned(e) /\ UNCHANGED faults
       \/ ~Orphaned(e) /\ Fault("stall")
    /\ entry' = [entry EXCEPT ![e] = IF entry[e].stalls = 0 THEN Waiting(1) ELSE Finished]
    /\ UNCHANGED <<rowVars, proc, manual, cancelAt>>

\* removeOnComplete / removeOnFail: a finished entry is forgotten after a while.
Expire(e) ==
    /\ entry[e] = Finished
    /\ entry' = [entry EXCEPT ![e] = Absent]
    /\ UNCHANGED <<rowVars, proc, auxVars>>

Crash(p) ==
    /\ ~At(p, "idle") /\ Fault("crash")
    /\ proc' = [proc EXCEPT ![p] = Idle]
    /\ UNCHANGED <<rowVars, entry, manual, cancelAt>>

-----------------------------------------------------------------------------
ClientRequest(c) == EnqueueCreate(c) \/ CancelRead(c) \/ RetryRead(c)
ClientStep(c)    == \/ EnqueueAdd(c) \/ EnqueueFailed(c) \/ CancelWrite(c)
                    \/ RetryWrite(c) \/ RetryRemove(c) \/ RetryAdd(c) \/ Compensate(c)
RecoveryStep(p)  == Decide(p) \/ Terminate(p) \/ Requeue(p) \/ RetryDispatch(p) \/ Compensate(p)
WorkerStep(w)    == \/ \E e \in Entries : Take(w, e)
                    \/ Pickup(w) \/ Handle(w) \/ Complete(w) \/ Finalize(w) \/ RecoveryStep(w)
SweeperStep(s)   == Sweep(s) \/ RecoveryStep(s)

Next ==
    \/ \E c \in Clients : ClientRequest(c) \/ ClientStep(c)
    \/ \E w \in Workers : WorkerStep(w) \/ RunFails(w)
    \/ \E s \in Sweepers : SweeperStep(s) \/ RunFails(s)
    \/ TimeoutElapses
    \/ \E e \in Entries : Stalled(e) \/ Expire(e)
    \/ \E p \in Procs : Crash(p)

Spec == Init /\ [][Next]_vars

\* What the runtimes guarantee: a worker slot keeps taking entries and its run
\* settles (the timer bounds the handler), a request that has started goes on,
\* the tick repeats, the stalled check repeats and time passes. Nothing obliges
\* a user to make a request or a fault to happen.
Fairness ==
    /\ \A w \in Workers : WF_vars(WorkerStep(w))
    /\ \A s \in Sweepers : WF_vars(SweeperStep(s))
    /\ \A c \in Clients : WF_vars(ClientStep(c))
    /\ \A e \in Entries : WF_vars(Stalled(e))
    /\ WF_vars(TimeoutElapses)

FairSpec == Spec /\ Fairness

-----------------------------------------------------------------------------
(* Properties *)

RowType == [status : {"NONE", "QUEUED", "RUNNING"} \cup Terminal,
            attempts : Nat, cancelRequested : BOOLEAN,
            deadLettered : BOOLEAN, result : Nat]

Labels == {"idle", "enqueueAdd", "enqueueFailed", "cancelWrite", "retryWrite",
           "retryRemove", "retryAdd", "pickup", "handle", "complete", "finalize",
           "decide", "cancel", "deadLetter", "requeue", "retryDispatch", "compensate"}

EntryType == [state : {"absent", "waiting", "active", "finished"},
              owner : Workers \cup {NoOne}, stalls : 0..1]
ProcType  == [pc : Labels, mine : Nat, verdict : Retryable, entry : Entries]

\* Type invariant of the row, the broker and the processes.
TypeOK ==
    /\ row \in RowType /\ overdue \in BOOLEAN
    /\ entry \in [Entries -> EntryType] /\ proc \in [Procs -> ProcType]
    /\ faults \subseteq Faults /\ manual \in 0..MaxManual /\ cancelAt \in Nat

\* A COMPLETED row carries the result of the row's latest attempt: an attempt
\* that was recovered as stale and answers later (BullMqWorkerManager.runFenced)
\* never completes the row over the attempt that replaced it.
ResultOfLatestAttempt == row.status = "COMPLETED" => row.result = row.attempts

\* scheduleRetryOrDeadLetter's budget: the attempts beyond maxAttempts are the
\* ones users asked for, one per granted retry, whatever workers, sweepers and
\* redeliveries do at the same time.
AttemptBudget ==
    IF row.status = "QUEUED" THEN row.attempts < MaxAttempts + manual
                             ELSE row.attempts <= MaxAttempts + manual

\* scheduleRetry's "<id>#retry<attempts>" is new whenever it is added: BullMQ
\* would silently drop an add under an id it still knows, and no two processes
\* ever add the retry of the same attempt.
RetryIdFresh ==
    \A p \in Procs : At(p, "retryDispatch") =>
        /\ entry[proc[p].mine] = Absent
        /\ \A q \in Procs \ {p} :
              At(q, "retryDispatch") => proc[q].mine # proc[p].mine

\* Once a cancellation is recorded, at most one more attempt starts, even when
\* it lands between scheduleRetryOrDeadLetter's read and scheduleRetry's write.
CancelBoundsAttempts ==
    row.cancelRequested => row.attempts <= cancelAt + 1

\* A sweeper that knows the manifest of the job recovers only an attempt that
\* really outlived its timeout: its snapshot may be old, but the fence never lets
\* it take a younger attempt. (One that does not know it takes any attempt, and
\* all of them share one queue of ticks: the general worker takes media jobs, and
\* the render worker all others, as soon as they run.)
RecoverOnlyOverdue ==
    [][\A s \in Sweepers \ Unregistered :
          row.status = "RUNNING" /\ row'.status # "RUNNING" /\ proc'[s] # proc[s]
              => overdue]_vars

\* A terminal row changes only by a granted manual retry. (An entry that BullMQ
\* added although Queue.add threw is the exception: enqueue then compensates by id.)
TerminalUntilRetry ==
    [][row.status \in Terminal =>
          \/ row'.status = row.status /\ row'.deadLettered = row.deadLettered
          \/ manual' = manual + 1]_vars

\* A QUEUED row will be delivered: an entry waits, or a process is on its way
\* to add one, to pick the row up or to mark it failed. What the compensations
\* of enqueue and scheduleRetry are for: they make good a lost lock and an add
\* that fails, not a process that dies or a database error at pickup.
Compensated == faults \subseteq {"stall", "addLost"}
Pending == {"enqueueAdd", "enqueueFailed", "retryRemove", "retryAdd",
            "retryDispatch", "compensate", "pickup"}
QueuedIsDelivered ==
    row.status = "QUEUED" /\ Compensated =>
        \/ \E e \in Entries : entry[e].state = "waiting"
        \/ \E p \in Procs : proc[p].pc \in Pending

\* The sweep closes DEFECT-1F-006: no attempt stays RUNNING for ever, whichever
\* process dies.
AttemptEnds ==
    \A n \in 1..(MaxAttempts + MaxManual) :
        (row.status = "RUNNING" /\ row.attempts = n)
            ~> ~(row.status = "RUNNING" /\ row.attempts = n)

\* With no other faults than those, every enqueued job is eventually settled.
JobSettles == row.status = "QUEUED" ~> row.status \in Terminal \/ ~Compensated

\* The engine implements the life cycle that its readers rely on.
Lifecycle == INSTANCE JobLifecycle
    WITH status <- row.status, attempts <- row.attempts,
         deadLettered <- row.deadLettered
LifecycleSpec == Lifecycle!Spec

-----------------------------------------------------------------------------
(* The inductive invariant behind the safety properties: what each process  *)
(* still knows about the row when it is about to rely on it.                *)

\* No process captured an attempt that has not started.
Captured == \A p \in Procs : proc[p].mine <= row.attempts

\* A run about to requeue the row found its attempt within the budget.
RequeueInBudget == \A p \in Procs : At(p, "requeue") => proc[p].mine < MaxAttempts

\* The retry of attempt n is known to the broker, or about to be added by one
\* process, only once attempt n is over.
Over(n) == n <= row.attempts /\ (n = row.attempts => row.status # "RUNNING")
RetryEntriesOver == \A n \in Entries \ {Bare} : entry[n] # Absent => Over(n)
RetryDispatchOver ==
    \A p \in Procs : At(p, "retryDispatch") =>
        proc[p].mine \in Entries \ {Bare} /\ Over(proc[p].mine)

\* Where the cancellation found the job: not yet picked up again, or in the
\* attempt that a run past its cancellation check is about to requeue.
CancelKnown ==
    row.cancelRequested =>
        /\ cancelAt <= row.attempts /\ row.attempts <= cancelAt + 1
        /\ row.status \in {"NONE", "QUEUED"} => row.attempts = cancelAt
        /\ \A p \in Procs : At(p, "requeue") /\ Fenced(p) => row.attempts = cancelAt

\* A sweeper that knows the manifest and has something to recover saw it overdue.
SweptOverdue ==
    \A s \in Sweepers \ Unregistered : ~At(s, "idle") /\ Fenced(s) => overdue

Started == /\ row.status = "RUNNING" => row.attempts >= 1
           /\ row.status = "NONE" => row.attempts = 0

IInv == /\ TypeOK /\ Started /\ Captured
        /\ ResultOfLatestAttempt /\ AttemptBudget /\ RequeueInBudget
        /\ RetryEntriesOver /\ RetryDispatchOver /\ RetryIdFresh
        /\ CancelKnown /\ SweptOverdue
=============================================================================
