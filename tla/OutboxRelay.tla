----------------------------- MODULE OutboxRelay -----------------------------
(***************************************************************************)
(* The transactional outbox: one domain_events row, the relays that claim   *)
(* it under a lease and fan it out (apps/worker outbox-relay.manager.ts),   *)
(* and, for every consumer of the event, its background_jobs row and the    *)
(* BullMQ entry that delivers it.  Every await is a step of its own.        *)
(* A relay is one process; it runs one tick at a time, so the relay itself  *)
(* stands for the claim_token its latest tick drew.  Rows do not influence  *)
(* one another: one event stands for a batch, the time the rest of the      *)
(* batch takes being time in which the lease ages.  The execution of a      *)
(* consumer's job is that of BackgroundJobs, cut down to one attempt.       *)
(***************************************************************************)
EXTENDS Naturals

CONSTANTS
    Relays,      \* processes that run the relay tick
    Consumers,   \* the consumers registered for the event type
    Invalid,     \* those whose payload DTO rejects the event's payload
    Faults,      \* the kinds of fault this instance explores
    MaxFaults,   \* bound: how many of them happen in a behaviour
    NoOne        \* the claim_token of an event nobody has claimed

FaultKinds == {"crash",      \* a relay dies between two awaits
               "db",         \* a Postgres call throws, nothing committed
               "slow",       \* a lease runs out although its holder is at work
               "skew",       \* the holder's clock is late: a due renewal is skipped
               "addLost",    \* Queue.add throws, nothing was added
               "addApplied"} \* Queue.add throws, yet the entry was added

ASSUME RelayAssumption ==
    /\ NoOne \notin Relays /\ Invalid \subseteq Consumers
    /\ MaxFaults \in Nat /\ Faults \subseteq FaultKinds

VARIABLES
    active,    \* the consumers whose manifest is active (not deprecated)
    event,     \* dispatched_at set?, claim_token, how old the lease is
    job,       \* consumer -> its background_jobs row
    entry,     \* consumer -> the BullMQ entry whose id is the row's id
    relay,     \* relay -> what its tick does next
    faults     \* how many faults so far (bound), and of which kinds (history)

vars == <<active, event, job, entry, relay, faults>>

NoJob == [status |-> "NONE", code |-> "none", deadLettered |-> FALSE, started |-> FALSE]
Idle  == [pc |-> "idle", todo |-> {}, allTerminal |-> TRUE, failedReplay |-> FALSE]
Unclaimed == [dispatched |-> FALSE, owner |-> NoOne, lease |-> "none"]
NoFault   == [count |-> 0, kinds |-> {}]

Init ==
    /\ active \in SUBSET Consumers
    /\ event = Unclaimed
    /\ job = [c \in Consumers |-> NoJob]
    /\ entry = [c \in Consumers |-> "absent"]
    /\ relay = [r \in Relays |-> Idle]
    /\ faults = NoFault

-----------------------------------------------------------------------------
(* Building blocks *)

Fault(kind) ==
    /\ kind \in Faults /\ faults.count < MaxFaults
    /\ faults' = [count |-> faults.count + 1, kinds |-> faults.kinds \cup {kind}]

At(r, label)   == relay[r].pc = label
Goto(r, label) == relay' = [relay EXCEPT ![r].pc = label]
EndEvent(r)    == relay' = [relay EXCEPT ![r] = Idle]

\* The consumer whose turn it is: the registry's order, whatever it is, is the
\* same for all relays.
Current(r) == CHOOSE c \in relay[r].todo : TRUE

\* What the guard "claim_token = mine and dispatched_at is null" finds.
Owns(r) == event.owner = r /\ ~event.dispatched

\* The current consumer is done; after the last one, an event with a
\* transient failure is left to the next reclaim.
NextConsumer(r, terminal) ==
    LET rest == relay[r].todo \ {Current(r)}
        ok   == relay[r].allTerminal /\ terminal
    IN  relay' = [relay EXCEPT ![r] =
                     IF rest = {} /\ ~ok THEN Idle
                     ELSE [pc |-> "renew", todo |-> rest, allTerminal |-> ok,
                           failedReplay |-> FALSE]]

\* Queue.add under the row's id: a no-op while BullMQ knows the id.
AddEntry(c) ==
    entry' = IF entry[c] = "absent" THEN [entry EXCEPT ![c] = "waiting"] ELSE entry

-----------------------------------------------------------------------------
(* The relay *)

\* claimUndispatchedEvents: claim and lease in one statement. Without an
\* active consumer the event is left undispatched, its lease to run out.
\* (A definition marked Slip is a plausible mistake in the one after it; the
\* checks must notice it.)
NeverClaimed == event.lease = "none"   \* Slip: an expired claim is not reclaimed
Claimable    == event.lease \in {"none", "expired"}

Claim(r) ==
    /\ At(r, "idle") /\ ~event.dispatched /\ Claimable
    /\ event' = [event EXCEPT !.owner = r, !.lease = "fresh"]
    /\ relay' = [relay EXCEPT ![r] = IF active = {} THEN Idle
                                     ELSE [Idle EXCEPT !.pc = "renew", !.todo = active]]
    /\ UNCHANGED <<active, job, entry, faults>>

\* maybeRenewClaim, before every consumer and before the finalization: a
\* lease with more than half of its time left, by the relay's own clock, is
\* not renewed; a renewal that affects no row stops the event.
Renew(r) ==
    LET proceed == Goto(r, IF relay[r].todo = {} THEN "finalize" ELSE "create")
    IN  /\ At(r, "renew")
        /\ \/ Owns(r) /\ event.lease = "fresh" /\ proceed /\ UNCHANGED <<event, faults>>
           \/ Fault("skew") /\ proceed /\ UNCHANGED event
           \/ /\ Owns(r) /\ event.lease # "fresh" /\ proceed
              /\ event' = [event EXCEPT !.lease = "fresh"] /\ UNCHANGED faults
           \/ ~Owns(r) /\ EndEvent(r) /\ UNCHANGED <<event, faults>>
           \/ Fault("db") /\ EndEvent(r) /\ UNCHANGED event
        /\ UNCHANGED <<active, job, entry>>

QueuedJob      == [NoJob EXCEPT !.status = "QUEUED"]
RejectedJob    == [NoJob EXCEPT !.status = "FAILED", !.code = "validation",
                                !.deadLettered = TRUE]

\* The create transaction, which the unique idempotency key makes fail when a
\* row is already there: a rejected payload is then recorded already, any
\* other row has to be looked up. A database error ends the event.
CreateJob(r) ==
    LET c == Current(r)
    IN  /\ At(r, "create")
        /\ \/ /\ c \in Invalid
              /\ job' = IF job[c].status = "NONE" THEN [job EXCEPT ![c] = RejectedJob] ELSE job
              /\ NextConsumer(r, TRUE) /\ UNCHANGED faults
           \/ /\ c \notin Invalid /\ job[c].status = "NONE"
              /\ job' = [job EXCEPT ![c] = QueuedJob]
              /\ Goto(r, "add") /\ UNCHANGED faults
           \/ /\ c \notin Invalid /\ job[c].status # "NONE"
              /\ Goto(r, "find") /\ UNCHANGED <<job, faults>>
           \/ Fault("db") /\ EndEvent(r) /\ UNCHANGED job
        /\ UNCHANGED <<active, event, entry>>

\* A completed or rejected job is never added again; any other row is, and a
\* FAILED one is remembered as such.
KnownJob(c)    == job[c].status # "FAILED"   \* Slip: a QUEUED row taken for a delivery
SettledJob(c)  == \/ job[c].status = "COMPLETED"
                  \/ job[c].status = "FAILED" /\ job[c].code = "validation"

FindJob(r) ==
    LET c == Current(r)
    IN  /\ At(r, "find")
        /\ \/ SettledJob(c) /\ NextConsumer(r, TRUE) /\ UNCHANGED faults
           \/ /\ ~SettledJob(c)
              /\ relay' = [relay EXCEPT ![r].pc = "add",
                                        ![r].failedReplay = job[c].status = "FAILED"]
              /\ UNCHANGED faults
           \/ Fault("db") /\ EndEvent(r)
        /\ UNCHANGED <<active, event, job, entry>>

AddJob(r) ==
    LET c == Current(r)
    IN  /\ At(r, "add")
        /\ \/ /\ AddEntry(c) /\ UNCHANGED faults
              /\ IF relay[r].failedReplay THEN Goto(r, "revive") ELSE NextConsumer(r, TRUE)
           \/ /\ \/ Fault("addLost") /\ UNCHANGED entry
                 \/ Fault("addApplied") /\ AddEntry(c)
              /\ Goto(r, "compensate")
        /\ UNCHANGED <<active, event, job>>

\* compensateDispatchFailure: any row but a COMPLETED one; its own failure is
\* ignored. Either way the consumer counts as a transient failure.
TransientIsTerminal == TRUE    \* Slip: a failed dispatch counts as handled
Transient           == FALSE

Undispatched(c) == [job EXCEPT ![c].status = "FAILED", ![c].code = "dispatch"]

CompensateFailure(r) ==
    LET c == Current(r)
    IN  /\ At(r, "compensate")
        /\ \/ /\ job' = IF job[c].status # "COMPLETED" THEN Undispatched(c) ELSE job
              /\ UNCHANGED faults
           \/ Fault("db") /\ UNCHANGED job
        /\ NextConsumer(r, Transient)
        /\ UNCHANGED <<active, event, entry>>

\* compensateRetrySuccess: a row that is still FAILED is QUEUED again, its
\* deadLetteredAt untouched.
Revivable(c) == job[c].status = "FAILED"
ReviveJob(r) ==
    LET c == Current(r)
    IN  /\ At(r, "revive")
        /\ \/ /\ job' = IF Revivable(c)
                        THEN [job EXCEPT ![c].status = "QUEUED", ![c].code = "none"] ELSE job
              /\ NextConsumer(r, TRUE) /\ UNCHANGED faults
           \/ Fault("db") /\ EndEvent(r) /\ UNCHANGED job
        /\ UNCHANGED <<active, event, entry>>

\* markDispatched, guarded on the claim token.
MarkDispatched(r) ==
    /\ At(r, "finalize")
    /\ \/ /\ event' = IF Owns(r) THEN [Unclaimed EXCEPT !.dispatched = TRUE] ELSE event
          /\ UNCHANGED faults
       \/ Fault("db") /\ UNCHANGED event
    /\ EndEvent(r)
    /\ UNCHANGED <<active, job, entry>>

-----------------------------------------------------------------------------
(* Time, the execution of a consumer's job, BullMQ and crashes *)

LeaseAges ==
    /\ event.lease = "fresh" /\ event' = [event EXCEPT !.lease = "old"]
    /\ UNCHANGED <<active, job, entry, relay, faults>>

LeaseExpires ==
    /\ event.lease = "old" /\ event' = [event EXCEPT !.lease = "expired"]
    /\ \/ At(event.owner, "idle") /\ UNCHANGED faults
       \/ ~At(event.owner, "idle") /\ Fault("slow")
    /\ UNCHANGED <<active, job, entry, relay>>

Take(c) ==
    /\ entry[c] = "waiting" /\ entry' = [entry EXCEPT ![c] = "taken"]
    /\ UNCHANGED <<active, event, job, relay, faults>>

\* Only a QUEUED row is picked up; any other delivery is skipped and finished.
Pickup(c) ==
    /\ entry[c] = "taken"
    /\ IF job[c].status = "QUEUED"
       THEN /\ job' = [job EXCEPT ![c].status = "RUNNING", ![c].started = TRUE]
            /\ entry' = [entry EXCEPT ![c] = "running"]
       ELSE UNCHANGED job /\ entry' = [entry EXCEPT ![c] = "finished"]
    /\ UNCHANGED <<active, event, relay, faults>>

\* The handler succeeds or fails for good, under the RUNNING guard.
Execute(c) ==
    /\ entry[c] = "running" /\ entry' = [entry EXCEPT ![c] = "finished"]
    /\ \/ job' = IF job[c].status = "RUNNING" THEN [job EXCEPT ![c].status = "COMPLETED"] ELSE job
       \/ job' = IF job[c].status = "RUNNING"
                 THEN [job EXCEPT ![c].status = "FAILED", ![c].code = "processor",
                                  ![c].deadLettered = TRUE] ELSE job
    /\ UNCHANGED <<active, event, relay, faults>>

\* removeOnComplete / removeOnFail: the id is forgotten after a while.
Expire(c) ==
    /\ entry[c] = "finished" /\ entry' = [entry EXCEPT ![c] = "absent"]
    /\ UNCHANGED <<active, event, job, relay, faults>>

Crash(r) ==
    /\ ~At(r, "idle") /\ Fault("crash") /\ EndEvent(r)
    /\ UNCHANGED <<active, event, job, entry>>

-----------------------------------------------------------------------------
RelayStep(r)    == \/ Claim(r) \/ Renew(r) \/ CreateJob(r) \/ FindJob(r) \/ AddJob(r)
                   \/ CompensateFailure(r) \/ ReviveJob(r) \/ MarkDispatched(r)
ConsumerStep(c) == Take(c) \/ Pickup(c) \/ Execute(c)

Next ==
    \/ \E r \in Relays : RelayStep(r) \/ Crash(r)
    \/ \E c \in Consumers : ConsumerStep(c) \/ Expire(c)
    \/ LeaseAges \/ LeaseExpires

Spec == Init /\ [][Next]_vars

\* The tick repeats and each of its awaits settles, time passes, and a worker
\* keeps serving its queue. Nothing obliges BullMQ to forget an entry.
Fairness ==
    /\ \A r \in Relays : WF_vars(RelayStep(r))
    /\ \A c \in Consumers : WF_vars(ConsumerStep(c))
    /\ WF_vars(LeaseAges) /\ WF_vars(LeaseExpires)

FairSpec == Spec /\ Fairness

-----------------------------------------------------------------------------
(* Properties *)

Valid == active \ Invalid

JobType == [status : {"NONE", "QUEUED", "RUNNING", "COMPLETED", "FAILED"},
            code : {"none", "validation", "dispatch", "processor"},
            deadLettered : BOOLEAN, started : BOOLEAN]
Labels == {"idle", "renew", "create", "find", "add", "compensate", "revive", "finalize"}

RelayType == [pc : Labels, todo : SUBSET Consumers, allTerminal : BOOLEAN,
              failedReplay : BOOLEAN]
EventRowType == [dispatched : BOOLEAN, owner : Relays \cup {NoOne},
                 lease : {"none", "fresh", "old", "expired"}]
FaultsType == [count : 0..MaxFaults, kinds : SUBSET FaultKinds]
EntryStates  == {"absent", "waiting", "taken", "running", "finished"}

\* Type invariant of the event, the jobs, the broker and the relays.
TypeOK ==
    /\ active \subseteq Consumers /\ event \in EventRowType
    /\ job \in [Consumers -> JobType] /\ entry \in [Consumers -> EntryStates]
    /\ relay \in [Relays -> RelayType] /\ faults \in FaultsType

\* A QUEUED row has a delivery on its way.
OnItsWay(c) == job[c].status = "QUEUED" /\ entry[c] \in {"waiting", "taken"}

\* Every Queue.add so far did what it reported.
Reliable == {"addLost", "addApplied"} \cap faults.kinds = {}

\* At-least-once fan-out ("all required consumer enqueues succeed" before the
\* event is marked): as long as no add threw, a dispatched event has started, or
\* will start, the job of every consumer whose payload is valid, and has recorded
\* the rejection of every other, whichever relays died or lost their lease.
DispatchedReachesAll ==
    Reliable /\ event.dispatched =>
        /\ \A c \in Valid : job[c].started \/ OnItsWay(c)
        /\ \A c \in active \cap Invalid : job[c] = RejectedJob

\* What a consumer completed is never undone or run again by a second relay
\* that fans the same event out.
CompletedStays ==
    [][\A c \in Consumers : job[c].status = "COMPLETED" => job'[c].status = "COMPLETED"]_vars

\* "durably compensated to FAILED, will retry on the next relay reclaim": a
\* failed dispatch leaves the event to be reclaimed. (A relay that lost its lease
\* may compensate what another has brought to its end.)
FailedDispatchIsRetried ==
    {"slow", "skew"} \cap faults.kinds = {} =>
        \A c \in Consumers : job[c].code = "dispatch" => ~event.dispatched

\* compensateRetrySuccess exists so that a job that was added again is not
\* skipped at pickup and lost "despite BullMQ having it": once the event is
\* marked, a row that says QUEUED has a delivery.
RevivedIsDelivered ==
    \A c \in Consumers : event.dispatched /\ job[c].status = "QUEUED" => OnItsWay(c)

\* Every event that has a consumer is eventually marked dispatched.
EventuallyDispatched == active # {} ~> event.dispatched

-----------------------------------------------------------------------------
(* The inductive invariant behind DispatchedReachesAll.                       *)

Reached(c) == IF c \in Invalid THEN job[c] = RejectedJob ELSE job[c].started \/ OnItsWay(c)

\* A relay at work has reached every active consumer it is not yet to handle,
\* and has found or created the row of the one whose turn it is.
RelayKnows(r) ==
    /\ ~At(r, "idle") => /\ relay[r].todo \subseteq active /\ relay[r].allTerminal
                         /\ \A c \in active \ relay[r].todo : Reached(c)
    /\ At(r, "finalize") => relay[r].todo = {}
    /\ relay[r].pc \in {"create", "find", "add", "revive"} => relay[r].todo # {}
    /\ relay[r].pc \in {"find", "add", "revive"} =>
           Current(r) \notin Invalid /\ job[Current(r)].status # "NONE"
    /\ At(r, "revive") => Reached(Current(r))
    /\ ~At(r, "compensate")

\* A row that left QUEUED was started, and so was one whose entry is spent.
StartedKnown ==
    \A c \in Consumers :
        /\ c \in Invalid => job[c] \in {NoJob, RejectedJob} /\ entry[c] = "absent"
        /\ c \notin Invalid =>
               /\ job[c].status = "NONE" => job[c] = NoJob /\ entry[c] = "absent"
               /\ job[c].status \notin {"NONE", "QUEUED"} => job[c].started
               /\ entry[c] \in {"running", "finished"} => job[c].started

FanOutInv == /\ TypeOK /\ DispatchedReachesAll /\ StartedKnown
             /\ \A r \in Relays : RelayKnows(r)

IInv == TypeOK /\ (Reliable => FanOutInv)
-----------------------------------------------------------------------------
(* The inductive invariant behind FailedDispatchIsRetried.                    *)

\* Nobody worked on past its lease.
Punctual == {"slow", "skew"} \cap faults.kinds = {}

\* Then the relay at work owns the event, and is alone.
LeaseHeld ==
    \A r \in Relays : ~At(r, "idle") => Owns(r) /\ event.lease \in {"fresh", "old"}

\* A failed dispatch is that of an active consumer with a valid payload, and
\* nothing but the revival of the row ends it.
FailureStands ==
    \A c \in Consumers : job[c].code = "dispatch" =>
        c \in Valid /\ job[c].status = "FAILED" /\ ~event.dispatched

\* The relay that found no transient failure has left no failed dispatch behind.
RelayRepairs(r) ==
    /\ ~At(r, "idle") =>
           /\ relay[r].todo \subseteq active
           /\ relay[r].allTerminal =>
                  \A c \in Consumers \ relay[r].todo : job[c].code # "dispatch"
    /\ relay[r].pc \in {"renew", "finalize"} /\ relay[r].todo = {} => relay[r].allTerminal
    /\ At(r, "finalize") => relay[r].todo = {}
    /\ relay[r].pc \in {"create", "find", "add", "compensate", "revive"} => relay[r].todo # {}
    /\ relay[r].pc \in {"find", "add", "compensate", "revive"} => Current(r) \notin Invalid
    /\ At(r, "add") /\ ~relay[r].failedReplay => job[Current(r)].code # "dispatch"

RetryInv == LeaseHeld /\ FailureStands /\ \A r \in Relays : RelayRepairs(r)
=============================================================================
