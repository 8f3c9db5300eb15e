---------------------------- MODULE SchedulerTick ----------------------------
(***************************************************************************)
(* The scheduler: scheduled_jobs rows, the ticks that claim the due ones    *)
(* and create a background job for each occurrence (apps/worker             *)
(* scheduler-tick.manager.ts), and the API requests that create, edit,      *)
(* enable, disable and delete them (apps/api schedules.service.ts).         *)
(* A tick is one process; BullMQ runs one tick at a time per process.  A    *)
(* claim is one transaction; everything after it is one step per await.     *)
(* What happens to a job once it was added is the matter of BackgroundJobs. *)
(* Time is Postgres's now(); the API computes with its own clock, which may *)
(* be behind by MaxSkew.                                                    *)
(***************************************************************************)
EXTENDS Naturals, FiniteSets

CONSTANTS
    Schedules,   \* the ids of scheduled_jobs rows
    Orphans,     \* those whose job type is no longer registered
    Ticks,       \* worker processes that run the tick
    Clients,     \* API requests in flight at the same time
    Crons,       \* cron expressions (each with its time zone)
    Occurs,      \* cron -> the instants at which it occurs
    BatchSize,   \* schedulerBatchSize
    MaxTime,     \* bound: the clock stops there
    MaxSkew,     \* how far the API's clock may be behind Postgres's
    MaxEdits,    \* bound: API requests that write
    MaxFaults    \* bound: failed database calls, failed adds and ticks that
                 \* die between two awaits

Times == 0..MaxTime

ASSUME SchedulerAssumption ==
    /\ IsFiniteSet(Schedules) /\ Orphans \subseteq Schedules
    /\ BatchSize \in Nat \ {0} /\ MaxTime \in Nat /\ MaxSkew \in Nat
    /\ MaxEdits \in Nat /\ MaxFaults \in Nat
\* u is the first instant after t at which c occurs; every cron expression
\* that passes validateCronExpression has one.
IsNext(c, t, u) == u > t /\ \A v \in Occurs[c] : v > t => u <= v
ASSUME CronAssumption ==
    \A c \in Crons : /\ Occurs[c] \subseteq Nat
                     /\ \A t \in Times : \E u \in Occurs[c] : IsNext(c, t, u)

VARIABLES
    now,      \* Postgres's clock
    sched,    \* schedule -> its scheduled_jobs row
    jobs,     \* the background_jobs rows created by ticks
    tick,     \* tick -> where it is, the claimed occurrences it still has to
              \* dispatch and the one in hand
    edit,     \* client -> the request in flight
    claims,   \* auxiliary: <<schedule, occurrence>> pairs ever claimed, less
              \* those answered by disabling the schedule
    edits, errors, crashes   \* how many so far (bounds)

bounds == <<edits, errors, crashes>>
vars   == <<now, sched, jobs, tick, edit, claims, bounds>>

\* "valid": the payload satisfies the contract of the deployed code, which may
\* be newer than the row.
NoRow == [state |-> "none", enabled |-> FALSE, cron |-> "none", valid |-> FALSE,
          nextRun |-> 0, lastRun |-> 0, version |-> 0, error |-> FALSE]
NewRow(c, t) == [state |-> "live", enabled |-> TRUE, cron |-> c, valid |-> TRUE,
                 nextRun |-> t, lastRun |-> 0, version |-> 1, error |-> FALSE]

NoTick == [pc |-> "idle", batch |-> {}, hand |-> {}]
NoEdit == [pc |-> "idle", on |-> "none", write |-> NoRow]

\* computeNextOccurrence: strictly after the instant.
NextOccurrence(c, t) == CHOOSE u \in Occurs[c] : IsNext(c, t, u)

\* Rows of an earlier deployment may exist when the processes start.
Init ==
    /\ now = 0
    /\ sched \in [Schedules -> {NoRow} \cup
                     {[NewRow(c, NextOccurrence(c, 0)) EXCEPT !.valid = v] :
                         c \in Crons, v \in BOOLEAN}]
    /\ \A s \in Orphans : ~sched[s].valid
    /\ jobs = {} /\ claims = {}
    /\ tick = [k \in Ticks |-> NoTick]
    /\ edit = [c \in Clients |-> NoEdit]
    /\ edits = 0 /\ errors = 0 /\ crashes = 0

-----------------------------------------------------------------------------
(* The tick *)

Error == errors + crashes < MaxFaults /\ errors' = errors + 1 /\ UNCHANGED <<edits, crashes>>
NoError == UNCHANGED bounds

\* (A definition marked Slip is a plausible mistake in the one after it; the
\* checks must notice it.)
OnlyNow(s) == sched[s].nextRun = now    \* Slip: what is overdue is skipped
DueNow(s)  == sched[s].nextRun <= now
Due(s) == sched[s].state = "live" /\ sched[s].enabled /\ DueNow(s)

\* ORDER BY next_run_at LIMIT n: a batch leaves out no earlier row than it has.
Batches ==
    LET due == {s \in Schedules : Due(s)}
    IN  {b \in SUBSET due :
            /\ b # {} /\ Cardinality(b) <= BatchSize
            /\ b = due \/ Cardinality(b) = BatchSize
            /\ \A s \in b, u \in due \ b : sched[s].nextRun <= sched[u].nextRun}

\* The occurrence a claim hands to the dispatch loop: the row as it was read.
Occurrence(s) == [schedule |-> s, due |-> sched[s].nextRun, valid |-> sched[s].valid,
                  version |-> sched[s].version]

\* The next run is computed from now, never from the stale prior value.
Advance(s) ==
    [sched[s] EXCEPT !.nextRun = NextOccurrence(sched[s].cron, now),
                     !.lastRun = now, !.version = sched[s].version + 1]

\* claimDueSchedules: one transaction. Rows another claim has locked are
\* skipped, and are no longer due once it commits.
Claim(k) ==
    /\ tick[k].pc = "idle"
    /\ \E b \in Batches :
          /\ sched' = [s \in Schedules |-> IF s \in b THEN Advance(s) ELSE sched[s]]
          /\ tick' = [tick EXCEPT ![k] = [pc |-> "create", hand |-> {},
                                          batch |-> {Occurrence(s) : s \in b}]]
          /\ claims' = claims \cup {<<s, sched[s].nextRun>> : s \in b}
    /\ UNCHANGED <<now, jobs, edit, bounds>>

\* The loop goes on with the rest of the batch, whether the occurrence in hand
\* was dispatched or failed.
AbortBatch(k, o) == tick' = [tick EXCEPT ![k] = NoTick]   \* Slip: no isolation
DoneWith(k, o) ==
    tick' = [tick EXCEPT ![k] = IF tick[k].batch = {o} THEN NoTick
                                ELSE [pc |-> "create", hand |-> {}, batch |-> tick[k].batch \ {o}]]

\* autoDisable: an update by id, whatever became of the row since the claim.
Disabled(row) == [row EXCEPT !.enabled = FALSE, !.error = TRUE, !.version = row.version + 1]

\* The idempotency key is unique: of all claims of one occurrence only one
\* creates a job.
VersionKey(o) == o.version     \* Slip: one key per claim
Key(o)        == o.due
Job(o) == [schedule |-> o.schedule, key |-> Key(o), due |-> o.due,
           status |-> "QUEUED", added |-> FALSE]
Replay(o) == \E j \in jobs : j.schedule = o.schedule /\ j.key = Key(o)

DispatchRow(k) ==
    /\ tick[k].pc = "create"
    /\ \E o \in tick[k].batch :
          \/ /\ ~o.valid /\ NoError /\ UNCHANGED jobs
             /\ claims' = claims \ {<<o.schedule, o.due>>}
             /\ sched' = [sched EXCEPT ![o.schedule] = Disabled(sched[o.schedule])]
             /\ DoneWith(k, o)
          \/ /\ o.valid /\ ~Replay(o) /\ NoError /\ UNCHANGED <<sched, claims>>
             /\ jobs' = jobs \cup {Job(o)}
             /\ tick' = [tick EXCEPT ![k].pc = "add", ![k].hand = {o}]
          \/ /\ o.valid /\ Replay(o) /\ NoError /\ UNCHANGED <<sched, jobs, claims>>
             /\ DoneWith(k, o)
          \/ Error /\ UNCHANGED <<sched, jobs, claims>> /\ DoneWith(k, o)
    /\ UNCHANGED <<now, edit>>

\* Writes by the id of the row this tick created.
Mine(o)     == {j \in jobs : j.schedule = o.schedule /\ j.key = Key(o)}
AddedJobs(o) == (jobs \ Mine(o)) \cup {[j EXCEPT !.added = TRUE] : j \in Mine(o)}
CompensatedJobs(o) ==
    (jobs \ Mine(o)) \cup {[j EXCEPT !.status = "FAILED"] : j \in Mine(o)}

AddEntry(k) ==
    /\ tick[k].pc = "add"
    /\ \E o \in tick[k].hand :
          \/ jobs' = AddedJobs(o) /\ NoError /\ DoneWith(k, o)
          \/ /\ Error /\ (UNCHANGED jobs \/ jobs' = AddedJobs(o))
             /\ tick' = [tick EXCEPT ![k].pc = "compensate"]
    /\ UNCHANGED <<now, sched, edit, claims>>

\* An update by id without a guard; its own failure is ignored.
Compensate(k) ==
    /\ tick[k].pc = "compensate"
    /\ \E o \in tick[k].hand :
          /\ \/ jobs' = CompensatedJobs(o) /\ NoError
             \/ Error /\ UNCHANGED jobs
          /\ DoneWith(k, o)
    /\ UNCHANGED <<now, sched, edit, claims>>

Crash(k) ==
    /\ tick[k].pc # "idle" /\ errors + crashes < MaxFaults /\ crashes' = crashes + 1
    /\ tick' = [tick EXCEPT ![k] = NoTick]
    /\ UNCHANGED <<now, sched, jobs, edit, claims, edits, errors>>

-----------------------------------------------------------------------------
(* The API *)

ApiNow == {t \in Times : t <= now /\ now <= t + MaxSkew}
Count  == edits < MaxEdits /\ edits' = edits + 1 /\ UNCHANGED <<errors, crashes>>

Create(s) ==
    /\ sched[s].state = "none" /\ s \notin Orphans /\ Count
    /\ \E c \in Crons, t \in ApiNow :
          sched' = [sched EXCEPT ![s] = NewRow(c, NextOccurrence(c, t))]
    /\ UNCHANGED <<now, jobs, tick, edit, claims>>

Request(c, s, write) == edit' = [edit EXCEPT ![c] = [pc |-> "update", on |-> s, write |-> write]]

\* update: a new cron expression moves the next run; a new payload was
\* validated against the deployed contract; the error is cleared.
UpdateRead(c, s) ==
    /\ edit[c].pc = "idle" /\ sched[s].state = "live" /\ Count
    /\ \/ \E cron \in Crons, t \in ApiNow :
              Request(c, s, [sched[s] EXCEPT !.cron = cron, !.error = FALSE,
                                      !.nextRun = NextOccurrence(cron, t)])
       \/ /\ s \notin Orphans
          /\ Request(c, s, [sched[s] EXCEPT !.valid = TRUE, !.error = FALSE])
    /\ UNCHANGED <<now, sched, jobs, tick, claims>>

AnyVersion(c)  == TRUE     \* Slip: last writer wins
SameVersion(c) == sched[edit[c].on].version = edit[c].write.version

\* The version is the client's; the write leaves enabled, lastRunAt and
\* deletedAt alone. A conflict answers 409.
UpdateWrite(c) ==
    LET s == edit[c].on
        w == edit[c].write
    IN  /\ edit[c].pc = "update"
        /\ sched' = IF SameVersion(c)
                    THEN [sched EXCEPT ![s].cron = w.cron, ![s].nextRun = w.nextRun,
                                       ![s].valid = w.valid, ![s].error = FALSE,
                                       ![s].version = sched[s].version + 1]
                    ELSE sched
        /\ edit' = [edit EXCEPT ![c] = NoEdit]
        /\ UNCHANGED <<now, jobs, tick, claims, bounds>>

\* setEnabled and softDelete read the row and then write under a guard that
\* makes the write do nothing once the row is as wanted, so nothing is lost by
\* making each one step. setEnabled does not touch nextRunAt: what came due
\* meanwhile runs once.
SetEnabled(s, on) ==
    /\ sched[s].state = "live" /\ sched[s].enabled # on /\ Count
    /\ sched' = [sched EXCEPT ![s].enabled = on, ![s].version = sched[s].version + 1]
    /\ UNCHANGED <<now, jobs, tick, edit, claims>>

SoftDelete(s) ==
    /\ sched[s].state = "live" /\ Count
    /\ sched' = [sched EXCEPT ![s].state = "deleted", ![s].version = sched[s].version + 1]
    /\ UNCHANGED <<now, jobs, tick, edit, claims>>

-----------------------------------------------------------------------------
TimePasses == /\ now < MaxTime /\ now' = now + 1
              /\ UNCHANGED <<sched, jobs, tick, edit, claims, bounds>>

TickStep(k) == Claim(k) \/ DispatchRow(k) \/ AddEntry(k) \/ Compensate(k)

Next ==
    \/ \E k \in Ticks : TickStep(k) \/ Crash(k)
    \/ \E s \in Schedules : Create(s) \/ SoftDelete(s) \/ \E on \in BOOLEAN : SetEnabled(s, on)
    \/ \E c \in Clients :
          UpdateWrite(c) \/ \E s \in Schedules : UpdateRead(c, s)
    \/ TimePasses

Spec == Init /\ [][Next]_vars

\* BullMQ's job scheduler fires the tick again and again, and each of its
\* awaits settles.
FairSpec == Spec /\ \A k \in Ticks : WF_vars(TickStep(k))

-----------------------------------------------------------------------------
(* Properties *)

RowType == [state : {"none", "live", "deleted"}, enabled : BOOLEAN,
            cron : Crons \cup {"none"}, valid : BOOLEAN, nextRun : Nat, lastRun : Times,
            version : Nat, error : BOOLEAN]
OccurrenceType == [schedule : Schedules, due : Nat, valid : BOOLEAN, version : Nat]
JobType  == [schedule : Schedules, key : Nat, due : Nat, status : {"QUEUED", "FAILED"},
             added : BOOLEAN]
TickType == [pc : {"idle", "create", "add", "compensate"}, batch : SUBSET OccurrenceType,
             hand : SUBSET OccurrenceType]
EditType == [pc : {"idle", "update"}, on : Schedules \cup {"none"},
             write : RowType]

\* Type invariant of the rows, the jobs, the ticks and the requests.
TypeOK ==
    /\ now \in Times /\ sched \in [Schedules -> RowType] /\ jobs \subseteq JobType
    /\ tick \in [Ticks -> TickType] /\ edit \in [Clients -> EditType]
    /\ claims \subseteq Schedules \X Nat
    /\ edits \in 0..MaxEdits /\ errors \in Nat /\ crashes \in Nat /\ errors + crashes <= MaxFaults

\* The misfire policy ("never a backfill"): the next run lies after the last
\* one, but for the skew of the API's clock, so an outage is made up by one run
\* and an edit that raced a tick never brings a past occurrence back. It is the
\* version that every claim increments which makes the racing edit fail.
NextAfterLast ==
    \A s \in Schedules :
        sched[s].state # "none" => sched[s].lastRun < sched[s].nextRun + MaxSkew

\* An occurrence has one job at most, although a clock that is behind lets an
\* edit make it due a second time (the idempotency key of dispatchOccurrence).
OneJobPerOccurrence ==
    \A i, j \in jobs : i.schedule = j.schedule /\ i.due = j.due => i = j

\* Per-row isolation: an error costs the occurrence it met and no other of the
\* batch; only a crash costs a batch.
InHand    == UNION {tick[k].batch : k \in Ticks}
Delivered == {<<j.schedule, j.due>> : j \in {i \in jobs : i.added}}
Lost ==
    {p \in claims :
        /\ p \notin Delivered
        /\ ~\E o \in InHand : o.schedule = p[1] /\ o.due = p[2]}
ErrorCostsOne == Cardinality(Lost) <= errors + BatchSize * crashes

\* What came due is claimed, however late the tick, unless it is switched off.
Waits(s) == sched[s].state = "live" /\ sched[s].enabled /\ sched[s].nextRun <= now
DueIsClaimed == \A s \in Schedules : Waits(s) ~> ~Waits(s)

-----------------------------------------------------------------------------
(* The inductive invariant behind NextAfterLast and OneJobPerOccurrence.    *)

RowsKnown ==
    \A s \in Schedules : sched[s].state # "none" =>
        sched[s].cron \in Crons /\ sched[s].lastRun <= now

\* An edit whose version still matches was computed after the last claim, or
\* leaves the next run alone.
EditKnown ==
    \A c \in Clients : edit[c].pc = "update" =>
        /\ edit[c].on \in Schedules /\ sched[edit[c].on].state # "none"
        /\ edit[c].write.cron \in Crons
        /\ edit[c].write.version <= sched[edit[c].on].version
        /\ SameVersion(c) =>
               sched[edit[c].on].lastRun < edit[c].write.nextRun + MaxSkew

KeysKnown == \A j \in jobs : j.key = j.due

IInv == /\ TypeOK /\ RowsKnown /\ EditKnown /\ KeysKnown
        /\ NextAfterLast /\ OneJobPerOccurrence
-----------------------------------------------------------------------------
(* The inductive invariant behind ErrorCostsOne.                             *)

PairOf(o)  == <<o.schedule, o.due>>
HasJob(p)  == \E j \in jobs : <<j.schedule, j.due>> = p
Adding(p)  == \E k \in Ticks : tick[k].pc = "add" /\ \E o \in tick[k].hand : PairOf(o) = p
Carried(p) == \E o \in InHand : PairOf(o) = p

\* What somebody has paid for: a job nobody is about to add, and a claim nobody
\* carries and that has no job. (An occurrence that is claimed again after its
\* add failed is carried and yet paid for: its job makes the claim a replay.)
Charged ==
    {p \in {<<j.schedule, j.due>> : j \in jobs} : p \notin Delivered /\ ~Adding(p)}
        \cup {p \in claims : ~HasJob(p) /\ ~Carried(p)}

\* What a tick has in hand is one occurrence of its batch, and has a job.
BatchKnown ==
    \A k \in Ticks :
        /\ IsFiniteSet(tick[k].batch) /\ Cardinality(tick[k].batch) <= BatchSize
        /\ tick[k].pc = "idle" => tick[k].batch = {}
        /\ tick[k].pc \in {"idle", "create"} => tick[k].hand = {}
        /\ tick[k].pc \in {"add", "compensate"} =>
               \E o \in tick[k].batch : tick[k].hand = {o} /\ HasJob(PairOf(o))

ChargedInv ==
    BatchKnown /\ IsFiniteSet(Charged) /\ Cardinality(Charged) <= errors + BatchSize * crashes
=============================================================================
