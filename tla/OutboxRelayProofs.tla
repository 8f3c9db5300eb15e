-------------------------- MODULE OutboxRelayProofs --------------------------
(* What the outbox relay guarantees for any number of relays, consumers and *)
(* faults.                                                                  *)
EXTENDS OutboxRelay, TLAPS

\* The shapes the state is assigned from are well typed.
LEMMA ShapeTypes ==
    /\ NoJob \in JobType /\ QueuedJob \in JobType /\ RejectedJob \in JobType
    /\ Idle \in RelayType /\ Unclaimed \in EventRowType
    /\ [Unclaimed EXCEPT !.dispatched = TRUE] \in EventRowType
  BY DEF NoJob, QueuedJob, RejectedJob, JobType, Idle, RelayType, Labels, Unclaimed,
         EventRowType

LEMMA InitTyped == Init => TypeOK
  BY ShapeTypes, RelayAssumption DEF Init, TypeOK, EntryStates, FaultsType, NoFault

\* Where a relay goes next keeps the relays typed ...
LEMMA GotoTyped ==
    ASSUME NEW r \in Relays, NEW l \in Labels, relay \in [Relays -> RelayType], Goto(r, l)
    PROVE  relay' \in [Relays -> RelayType]
  BY DEF Goto, RelayType

LEMMA EndEventTyped ==
    ASSUME NEW r \in Relays, relay \in [Relays -> RelayType], EndEvent(r)
    PROVE  relay' \in [Relays -> RelayType]
  BY ShapeTypes DEF EndEvent

LEMMA NextConsumerTyped ==
    ASSUME NEW r \in Relays, NEW ok \in BOOLEAN, relay \in [Relays -> RelayType],
           NextConsumer(r, ok)
    PROVE  relay' \in [Relays -> RelayType]
  <1>1. relay[r].todo \ {Current(r)} \in SUBSET Consumers
        /\ (relay[r].allTerminal /\ ok) \in BOOLEAN
    BY DEF RelayType
  <1>2. [pc |-> "renew", todo |-> relay[r].todo \ {Current(r)},
         allTerminal |-> relay[r].allTerminal /\ ok, failedReplay |-> FALSE] \in RelayType
    BY <1>1 DEF RelayType, Labels
  <1>3. QED  BY <1>2, ShapeTypes DEF NextConsumer

\* ... and so does the broker's and the fault counter's next state.
LEMMA AddTyped ==
    ASSUME NEW c, entry \in [Consumers -> EntryStates], AddEntry(c)
    PROVE  entry' \in [Consumers -> EntryStates]
  BY DEF AddEntry, EntryStates

LEMMA FaultTyped ==
    ASSUME NEW kind, faults \in FaultsType, Fault(kind)
    PROVE  faults' \in FaultsType
  BY RelayAssumption DEF Fault, FaultsType, FaultKinds

\* The type invariant is inductive.
LEMMA StepTyped == TypeOK /\ [Next]_vars => TypeOK'
  <1> SUFFICES ASSUME TypeOK, [Next]_vars PROVE TypeOK'
    OBVIOUS
  <1> USE ShapeTypes
  <1>t. /\ active \subseteq Consumers /\ event \in EventRowType
        /\ job \in [Consumers -> JobType] /\ entry \in [Consumers -> EntryStates]
        /\ relay \in [Relays -> RelayType] /\ faults \in FaultsType
    BY DEF TypeOK
  <1>1. ASSUME NEW r \in Relays, Claim(r) PROVE TypeOK'
    <2>1. event' \in EventRowType
      BY <1>t, <1>1 DEF Claim, EventRowType
    <2>2. [Idle EXCEPT !.pc = "renew", !.todo = active] \in RelayType
      BY <1>t DEF Idle, RelayType, Labels
    <2>3. QED  BY <1>t, <1>1, <2>1, <2>2 DEF Claim, TypeOK
  <1>2. ASSUME NEW r \in Relays, Renew(r) PROVE TypeOK'
    <2>1. event' \in EventRowType
      BY <1>t, <1>2 DEF Renew, EventRowType
    <2>2. relay' \in [Relays -> RelayType]
      BY <1>t, <1>2, GotoTyped, EndEventTyped DEF Renew, Labels
    <2>3. faults' \in FaultsType
      BY <1>t, <1>2, FaultTyped DEF Renew
    <2>4. QED  BY <1>t, <1>2, <2>1, <2>2, <2>3 DEF Renew, TypeOK
  <1>3. ASSUME NEW r \in Relays, CreateJob(r) PROVE TypeOK'
    <2>1. job' \in [Consumers -> JobType]
      BY <1>t, <1>3 DEF CreateJob
    <2>2. relay' \in [Relays -> RelayType]
      BY <1>t, <1>3, GotoTyped, EndEventTyped, NextConsumerTyped DEF CreateJob, Labels
    <2>3. faults' \in FaultsType
      BY <1>t, <1>3, FaultTyped DEF CreateJob
    <2>4. QED  BY <1>t, <1>3, <2>1, <2>2, <2>3 DEF CreateJob, TypeOK
  <1>4. ASSUME NEW r \in Relays, FindJob(r) PROVE TypeOK'
    <2>1. ASSUME NEW b \in BOOLEAN,
                 relay' = [relay EXCEPT ![r].pc = "add", ![r].failedReplay = b]
          PROVE relay' \in [Relays -> RelayType]
      BY <1>t, <2>1 DEF RelayType, Labels
    <2>2. (job[Current(r)].status = "FAILED") \in BOOLEAN
      OBVIOUS
    <2>3. relay' \in [Relays -> RelayType]
      BY <1>t, <1>4, <2>1, <2>2, EndEventTyped, NextConsumerTyped DEF FindJob
    <2>4. faults' \in FaultsType
      BY <1>t, <1>4, FaultTyped DEF FindJob
    <2>5. QED  BY <1>t, <1>4, <2>3, <2>4 DEF FindJob, TypeOK
  <1>5. ASSUME NEW r \in Relays, AddJob(r) PROVE TypeOK'
    <2>1. relay' \in [Relays -> RelayType]
      BY <1>t, <1>5, GotoTyped, NextConsumerTyped DEF AddJob, Labels
    <2>2. entry' \in [Consumers -> EntryStates]
      BY <1>t, <1>5, AddTyped DEF AddJob
    <2>3. faults' \in FaultsType
      BY <1>t, <1>5, FaultTyped DEF AddJob
    <2>4. QED  BY <1>t, <1>5, <2>1, <2>2, <2>3 DEF AddJob, TypeOK
  <1>6. ASSUME NEW r \in Relays, CompensateFailure(r) PROVE TypeOK'
    <2>1. job' \in [Consumers -> JobType]
      BY <1>t, <1>6 DEF CompensateFailure, Undispatched, JobType
    <2>2. relay' \in [Relays -> RelayType]
      BY <1>t, <1>6, NextConsumerTyped DEF CompensateFailure, Transient
    <2>3. faults' \in FaultsType
      BY <1>t, <1>6, FaultTyped DEF CompensateFailure
    <2>4. QED  BY <1>t, <1>6, <2>1, <2>2, <2>3 DEF CompensateFailure, TypeOK
  <1>7. ASSUME NEW r \in Relays, ReviveJob(r) PROVE TypeOK'
    <2>1. job' \in [Consumers -> JobType]
      <3>1. \A j \in JobType : [j EXCEPT !.status = "QUEUED", !.code = "none"] \in JobType
        BY DEF JobType
      <3>2. PICK c : job' \in {job, [job EXCEPT ![c].status = "QUEUED", ![c].code = "none"]}
        BY <1>7 DEF ReviveJob
      <3>3. ASSUME c \in Consumers
            PROVE  [job EXCEPT ![c].status = "QUEUED", ![c].code = "none"] \in [Consumers -> JobType]
        <4>1. [job EXCEPT ![c].status = "QUEUED", ![c].code = "none"]
                = [job EXCEPT ![c] = [job[c] EXCEPT !.status = "QUEUED", !.code = "none"]]
          BY <1>t, <3>3
        <4>2. QED  BY <1>t, <3>1, <3>3, <4>1
      <3>4. QED  BY <1>t, <3>2, <3>3
    <2>2. relay' \in [Relays -> RelayType]
      BY <1>t, <1>7, EndEventTyped, NextConsumerTyped DEF ReviveJob
    <2>3. faults' \in FaultsType
      BY <1>t, <1>7, FaultTyped DEF ReviveJob
    <2>4. QED  BY <1>t, <1>7, <2>1, <2>2, <2>3 DEF ReviveJob, TypeOK
  <1>8. ASSUME NEW r \in Relays, MarkDispatched(r) PROVE TypeOK'
    BY <1>t, <1>8, EndEventTyped, FaultTyped DEF MarkDispatched, TypeOK
  <1>9. ASSUME NEW r \in Relays, Crash(r) PROVE TypeOK'
    BY <1>t, <1>9, EndEventTyped, FaultTyped DEF Crash, TypeOK
  <1>10. ASSUME NEW c \in Consumers, ConsumerStep(c) \/ Expire(c) PROVE TypeOK'
    <2>1. job' \in [Consumers -> JobType]
      BY <1>t, <1>10 DEF ConsumerStep, Take, Pickup, Execute, Expire, JobType
    <2>2. entry' \in [Consumers -> EntryStates]
      BY <1>t, <1>10 DEF ConsumerStep, Take, Pickup, Execute, Expire, EntryStates
    <2>3. QED  BY <1>t, <1>10, <2>1, <2>2 DEF ConsumerStep, Take, Pickup, Execute, Expire, TypeOK
  <1>11. CASE LeaseAges \/ LeaseExpires
    <2>1. event' \in EventRowType
      BY <1>t, <1>11 DEF LeaseAges, LeaseExpires, EventRowType
    <2>2. faults' \in FaultsType
      BY <1>t, <1>11, FaultTyped DEF LeaseAges, LeaseExpires
    <2>3. QED  BY <1>t, <1>11, <2>1, <2>2 DEF LeaseAges, LeaseExpires, TypeOK
  <1>12. CASE UNCHANGED vars
    BY <1>t, <1>12 DEF vars, TypeOK
  <1>13. QED
    BY <1>1, <1>2, <1>3, <1>4, <1>5, <1>6, <1>7, <1>8, <1>9, <1>10, <1>11, <1>12
    DEF Next, RelayStep

\* Type correctness of the relay.
THEOREM TypeCorrect == Spec => []TypeOK
  BY InitTyped, StepTyped, PTL DEF Spec

-----------------------------------------------------------------------------
\* A completed consumer stays completed, whatever relays and faults do.
THEOREM CompletedForGood == Spec => CompletedStays
  <1>1. TypeOK /\ [Next]_vars =>
          [\A c \in Consumers : job[c].status = "COMPLETED" => job'[c].status = "COMPLETED"]_vars
    <2> SUFFICES ASSUME TypeOK, Next, NEW c \in Consumers, job[c].status = "COMPLETED"
                 PROVE  job'[c].status = "COMPLETED"
      BY DEF vars
    <2> USE DEF TypeOK, JobType
    <2>1. ASSUME NEW r \in Relays, RelayStep(r) \/ Crash(r) PROVE job'[c].status = "COMPLETED"
      BY <2>1 DEF RelayStep, Claim, Renew, CreateJob, FindJob, AddJob, CompensateFailure,
                  Undispatched, ReviveJob, Revivable, MarkDispatched, Crash
    <2>2. ASSUME NEW d \in Consumers, ConsumerStep(d) \/ Expire(d)
          PROVE job'[c].status = "COMPLETED"
      BY <2>2 DEF ConsumerStep, Take, Pickup, Execute, Expire
    <2>3. CASE LeaseAges \/ LeaseExpires
      BY <2>3 DEF LeaseAges, LeaseExpires
    <2>4. QED  BY <2>1, <2>2, <2>3 DEF Next
  <1>2. QED  BY <1>1, TypeCorrect, PTL DEF Spec, CompletedStays

-----------------------------------------------------------------------------
(* Fan-out, as long as Queue.add does not throw                              *)

\* What every step leaves alone: nobody who was reached is lost, no row vanishes.
Progress == /\ active' = active
            /\ \A c \in Consumers : Reached(c) => Reached(c)'
            /\ \A c \in Consumers : job[c].status # "NONE" => job'[c].status # "NONE"

LEMMA FanOutInit == Init => FanOutInv
  <1> SUFFICES ASSUME Init PROVE FanOutInv
    OBVIOUS
  <1>1. TypeOK
    BY InitTyped
  <1>2. DispatchedReachesAll /\ StartedKnown /\ \A r \in Relays : RelayKnows(r)
    BY RelayAssumption
    DEF Init, DispatchedReachesAll, RelayKnows, StartedKnown, Unclaimed,
        Idle, NoJob, At
  <1>3. QED  BY <1>1, <1>2 DEF FanOutInv

\* A step of the relays' bookkeeping only.
LEMMA QuietProgress ==
    ASSUME StartedKnown, UNCHANGED <<active, job, entry>>
    PROVE  Progress /\ StartedKnown'
  BY DEF Progress, Reached, OnItsWay, StartedKnown

LEMMA CreateProgress ==
    ASSUME FanOutInv, NEW r \in Relays, CreateJob(r)
    PROVE  Progress /\ StartedKnown'
  <1> DEFINE c == Current(r)
  <1> USE DEF FanOutInv, TypeOK
  <1>1. c \in Consumers
    BY DEF CreateJob, RelayKnows, At, Current, RelayType
  <1>2. CASE UNCHANGED job
    BY <1>2, QuietProgress DEF CreateJob
  <1>3. CASE job[c].status = "NONE" /\ c \in Invalid /\ job' = [job EXCEPT ![c] = RejectedJob]
    BY <1>1, <1>3 DEF CreateJob, Progress, Reached, OnItsWay, StartedKnown, RejectedJob, NoJob
  <1>4. CASE job[c].status = "NONE" /\ c \notin Invalid /\ job' = [job EXCEPT ![c] = QueuedJob]
    BY <1>1, <1>4 DEF CreateJob, Progress, Reached, OnItsWay, StartedKnown, QueuedJob, NoJob
  <1>5. QED  BY <1>2, <1>3, <1>4 DEF CreateJob

LEMMA AddProgress ==
    ASSUME FanOutInv, Reliable', NEW r \in Relays, AddJob(r)
    PROVE  /\ Progress /\ StartedKnown' /\ AddEntry(Current(r)) /\ UNCHANGED <<event, job>>
           /\ Current(r) \in Consumers
           /\ IF relay[r].failedReplay THEN Goto(r, "revive") ELSE NextConsumer(r, TRUE)
  <1> DEFINE c == Current(r)
  <1> USE DEF FanOutInv, TypeOK
  <1>1. c \in Consumers /\ c \notin Invalid /\ job[c].status # "NONE"
    BY DEF AddJob, RelayKnows, At, Current, RelayType
  <1>2. /\ AddEntry(c) /\ UNCHANGED <<active, event, job>>
        /\ IF relay[r].failedReplay THEN Goto(r, "revive") ELSE NextConsumer(r, TRUE)
    <2>1. ASSUME NEW kind \in {"addLost", "addApplied"}, Fault(kind) PROVE FALSE
      BY <2>1 DEF Fault, Reliable
    <2>2. QED  BY <2>1 DEF AddJob
  <1>3. Progress
    BY <1>1, <1>2 DEF AddEntry, Progress, Reached, OnItsWay
  <1>4. StartedKnown'
    BY <1>1, <1>2 DEF AddEntry, StartedKnown
  <1>5. QED  BY <1>1, <1>2, <1>3, <1>4

LEMMA ReviveProgress ==
    ASSUME FanOutInv, NEW r \in Relays, ReviveJob(r)
    PROVE  Progress /\ StartedKnown'
  <1> USE DEF FanOutInv, TypeOK
  <1>1. PICK c \in Consumers : c = Current(r)
    BY DEF ReviveJob, RelayKnows, At, Current, RelayType
  <1>2. c \notin Invalid
    BY <1>1 DEF ReviveJob, RelayKnows, At
  <1>3. CASE UNCHANGED job
    BY <1>3, QuietProgress DEF ReviveJob
  <1>4. CASE /\ job[c].status = "FAILED"
             /\ job' = [job EXCEPT ![c].status = "QUEUED", ![c].code = "none"]
    <2>1. /\ job[c].started /\ job'[c].started /\ job'[c].status = "QUEUED"
          /\ \A d \in Consumers \ {c} : job'[d] = job[d]
          /\ UNCHANGED <<active, entry>>
      BY <1>1, <1>2, <1>4 DEF ReviveJob, StartedKnown, JobType
    <2>2. QED  BY <1>2, <2>1 DEF Progress, Reached, OnItsWay, StartedKnown
  <1>5. QED  BY <1>1, <1>3, <1>4 DEF ReviveJob, Revivable

LEMMA ConsumerProgress ==
    ASSUME FanOutInv, NEW c \in Consumers, ConsumerStep(c) \/ Expire(c)
    PROVE  Progress /\ StartedKnown'
  <1> USE DEF FanOutInv, TypeOK
  <1>1. CASE Take(c)
    BY <1>1 DEF Take, Progress, Reached, OnItsWay, StartedKnown
  <1>2. CASE Pickup(c)
    <2>1. c \notin Invalid /\ active' = active
      BY <1>2 DEF Pickup, StartedKnown
    <2>2. CASE job[c].status = "QUEUED"
      <3>1. /\ job'[c].status = "RUNNING" /\ job'[c].started /\ entry'[c] = "running"
            /\ \A d \in Consumers \ {c} : job'[d] = job[d] /\ entry'[d] = entry[d]
        BY <1>2, <2>2 DEF Pickup, JobType
      <3>2. QED  BY <2>1, <2>2, <3>1 DEF Progress, Reached, OnItsWay, StartedKnown
    <2>3. CASE job[c].status # "QUEUED"
      BY <1>2, <2>1, <2>3 DEF Pickup, Progress, Reached, OnItsWay, StartedKnown, NoJob
    <2>4. QED  BY <2>2, <2>3
  <1>3. CASE Execute(c)
    <2>1. c \notin Invalid /\ active' = active /\ job[c].started /\ job[c].status # "NONE"
      BY <1>3 DEF Execute, StartedKnown, NoJob
    <2>2. /\ job'[c].started /\ job'[c].status # "NONE" /\ entry'[c] = "finished"
          /\ \A d \in Consumers \ {c} : job'[d] = job[d] /\ entry'[d] = entry[d]
      BY <1>3, <2>1 DEF Execute, JobType
    <2>3. QED  BY <2>1, <2>2 DEF Progress, Reached, OnItsWay, StartedKnown
  <1>4. CASE Expire(c)
    BY <1>4 DEF Expire, Progress, Reached, OnItsWay, StartedKnown, NoJob
  <1>5. QED  BY <1>1, <1>2, <1>3, <1>4 DEF ConsumerStep

-----------------------------------------------------------------------------
(* What the relays know survives the steps of others, and their own moves.   *)

\* A relay that does not move knows what it knew.
LEMMA OthersKeep ==
    ASSUME FanOutInv, Progress, NEW q \in Relays, relay'[q] = relay[q]
    PROVE  RelayKnows(q)'
  <1> USE DEF FanOutInv, TypeOK
  <1>1. Current(q)' = Current(q)
    BY DEF Current
  <1>2. relay[q].todo # {} => Current(q) \in relay[q].todo
    BY DEF Current
  <1>3. At(q, "revive") => Current(q) \in Consumers
    BY <1>2 DEF RelayKnows, At, RelayType
  <1>4. At(q, "revive")' => Reached(Current(q))'
    BY <1>1, <1>3 DEF Progress, RelayKnows, At, Reached, OnItsWay
  <1>5. ~At(q, "idle")' => /\ relay'[q].todo \subseteq active' /\ relay'[q].allTerminal
                           /\ \A c \in active' \ relay'[q].todo : Reached(c)'
    BY DEF Progress, RelayKnows, At
  <1>6. relay'[q].pc \in {"find", "add", "revive"} =>
           Current(q)' \notin Invalid /\ job'[Current(q)'].status # "NONE"
    BY <1>1, <1>2 DEF Progress, RelayKnows, RelayType
  <1>7. QED  BY <1>4, <1>5, <1>6 DEF RelayKnows, At

\* The relay that ends its event has nothing to know.
LEMMA EndKeeps ==
    ASSUME FanOutInv, Progress, NEW r \in Relays, EndEvent(r), NEW q \in Relays
    PROVE  RelayKnows(q)'
  <1>1. CASE q = r
    BY <1>1 DEF EndEvent, FanOutInv, TypeOK, RelayKnows, At, Idle
  <1>2. CASE q # r
    BY <1>2, OthersKeep DEF EndEvent, FanOutInv, TypeOK
  <1>3. QED  BY <1>1, <1>2

\* The one that is done with a consumer reached it.
LEMMA NextKeeps ==
    ASSUME FanOutInv, Progress, NEW r \in Relays, ~At(r, "idle"), NEW c \in Consumers,
           c = Current(r), c \in active => Reached(c)', NextConsumer(r, TRUE), NEW q \in Relays
    PROVE  RelayKnows(q)'
  <1>1. CASE q = r
    <2>1. /\ relay'[r] = [pc |-> "renew", todo |-> relay[r].todo \ {c},
                         allTerminal |-> TRUE, failedReplay |-> FALSE]
      BY DEF NextConsumer, FanOutInv, TypeOK, RelayKnows
    <2>2. \A d \in active \ (relay[r].todo \ {c}) : Reached(d)'
      BY DEF FanOutInv, TypeOK, RelayKnows, Progress
    <2>3. active' = active /\ relay[r].todo \subseteq active
      BY DEF FanOutInv, RelayKnows, Progress
    <2>4. QED  BY <1>1, <2>1, <2>2, <2>3 DEF RelayKnows, At
  <1>2. CASE q # r
    BY <1>2, OthersKeep DEF NextConsumer, FanOutInv, TypeOK
  <1>3. QED  BY <1>1, <1>2

\* The one that goes on with the same consumer.
LEMMA GotoKeeps ==
    ASSUME FanOutInv, Progress, NEW r \in Relays, ~At(r, "idle"), NEW l \in Labels, Goto(r, l),
           l \notin {"idle", "compensate"},
           l = "finalize" => relay[r].todo = {},
           l \in {"create", "find", "add", "revive"} => relay[r].todo # {},
           l \in {"find", "add", "revive"} =>
               Current(r) \notin Invalid /\ job'[Current(r)].status # "NONE",
           l = "revive" => \A c \in Consumers : c = Current(r) => Reached(c)',
           NEW q \in Relays
    PROVE  RelayKnows(q)'
  <1> USE DEF FanOutInv, TypeOK
  <1>1. CASE q = r
    <2>1. relay'[r].pc = l /\ relay'[r].todo = relay[r].todo
          /\ relay'[r].allTerminal = relay[r].allTerminal
      BY DEF Goto, RelayType
    <2>2. Current(r)' = Current(r)
      BY <2>1 DEF Current
    <2>3. l = "revive" => Reached(Current(r))'
      <3>1. l = "revive" => Current(r) \in Consumers
        BY DEF Current, RelayType
      <3>2. QED  BY <3>1, <2>2 DEF Reached, OnItsWay
    <2>4. /\ relay[r].todo \subseteq active' /\ relay[r].allTerminal
          /\ \A c \in active' \ relay[r].todo : Reached(c)'
      BY DEF RelayKnows, Progress
    <2>5. QED  BY <1>1, <2>1, <2>2, <2>3, <2>4 DEF RelayKnows, At
  <1>2. CASE q # r
    BY <1>2, OthersKeep DEF Goto
  <1>3. QED  BY <1>1, <1>2

\* Nothing but MarkDispatched dispatches the event.
LEMMA StillReached ==
    ASSUME FanOutInv, Reliable, Progress, event'.dispatched => event.dispatched
    PROVE  DispatchedReachesAll'
  <1>1. \A c \in active : event.dispatched => Reached(c)
    BY DEF FanOutInv, DispatchedReachesAll, Reached, Valid
  <1>2. \A c \in active' : event'.dispatched => Reached(c)'
    BY <1>1 DEF Progress, FanOutInv, TypeOK
  <1>3. QED  BY <1>2 DEF DispatchedReachesAll, Reached, Valid

LEMMA FanOutStep ==
    ASSUME Reliable, Reliable', FanOutInv, [Next]_vars
    PROVE  FanOutInv'
  <1> DEFINE Done == /\ DispatchedReachesAll' /\ StartedKnown'
                     /\ \A q \in Relays : RelayKnows(q)'
  <1>a. active \subseteq Consumers /\ relay \in [Relays -> RelayType]
    BY DEF FanOutInv, TypeOK
  <1>b. \A r \in Relays : relay[r].todo # {} => Current(r) \in Consumers
    BY <1>a DEF Current, RelayType
  <1>1. ASSUME NEW r \in Relays, Claim(r) PROVE Done
    <2>1. Progress /\ StartedKnown' /\ active' = active /\ (event'.dispatched => event.dispatched)
      BY <1>1, QuietProgress DEF Claim, FanOutInv, TypeOK, EventRowType
    <2>2. ASSUME NEW q \in Relays PROVE RelayKnows(q)'
      <3>1. CASE q # r
        BY <1>1, <1>a, <2>1, <3>1, OthersKeep DEF Claim
      <3>2. CASE q = r /\ active = {}
        BY <1>1, <1>a, <3>2 DEF Claim, RelayKnows, At, Idle
      <3>3. CASE q = r /\ active # {}
        <4>1. relay'[r] = [Idle EXCEPT !.pc = "renew", !.todo = active]
          BY <1>1, <1>a, <3>3 DEF Claim
        <4>2. QED  BY <2>1, <3>3, <4>1 DEF RelayKnows, At, Idle
      <3>4. QED  BY <3>1, <3>2, <3>3
    <2>3. QED  BY <2>1, <2>2, StillReached
  <1>2. ASSUME NEW r \in Relays, Renew(r) PROVE Done
    <2>1. Progress /\ StartedKnown' /\ (event'.dispatched => event.dispatched)
      BY <1>2, QuietProgress DEF Renew, FanOutInv, TypeOK, EventRowType
    <2>2. \A q \in Relays : RelayKnows(q)'
      <3>1. CASE EndEvent(r)
        BY <2>1, <3>1, EndKeeps
      <3>2. CASE Goto(r, IF relay[r].todo = {} THEN "finalize" ELSE "create")
        BY <1>2, <2>1, <3>2, GotoKeeps DEF Renew, At, Labels
      <3>3. QED  BY <1>2, <3>1, <3>2 DEF Renew
    <2>3. QED  BY <2>1, <2>2, StillReached
  <1>3. ASSUME NEW r \in Relays, CreateJob(r) PROVE Done
    <2>1. Progress /\ StartedKnown' /\ UNCHANGED event /\ ~At(r, "idle")
      BY <1>3, CreateProgress DEF CreateJob, At
    <2>2. PICK c \in Consumers : c = Current(r)
      BY <1>3, <1>b DEF CreateJob, FanOutInv, RelayKnows, At
    <2>3. \A q \in Relays : RelayKnows(q)'
      <3>1. CASE EndEvent(r)
        BY <2>1, <3>1, EndKeeps
      <3>2. CASE /\ c \in Invalid /\ NextConsumer(r, TRUE)
                 /\ job' = IF job[c].status = "NONE" THEN [job EXCEPT ![c] = RejectedJob] ELSE job
        <4>1. Reached(c)'
          BY <3>2 DEF FanOutInv, TypeOK, StartedKnown, Reached, NoJob
        <4>2. QED  BY <2>1, <2>2, <3>2, <4>1, NextKeeps
      <3>3. CASE c \notin Invalid /\ job[c].status = "NONE" /\ Goto(r, "add")
                 /\ job' = [job EXCEPT ![c] = QueuedJob]
        <4>1. job'[Current(r)].status # "NONE" /\ Current(r) \notin Invalid /\ relay[r].todo # {}
          BY <1>3, <2>2, <3>3 DEF FanOutInv, TypeOK, QueuedJob, NoJob, CreateJob, RelayKnows, At
        <4>2. QED  BY <2>1, <3>3, <4>1, GotoKeeps DEF Labels
      <3>4. CASE c \notin Invalid /\ job[c].status # "NONE" /\ Goto(r, "find") /\ UNCHANGED job
        <4>1. job'[Current(r)].status # "NONE" /\ Current(r) \notin Invalid /\ relay[r].todo # {}
          BY <1>3, <2>2, <3>4 DEF FanOutInv, CreateJob, RelayKnows, At
        <4>2. QED  BY <2>1, <3>4, <4>1, GotoKeeps DEF Labels
      <3>5. QED  BY <1>3, <2>2, <3>1, <3>2, <3>3, <3>4 DEF CreateJob
    <2>4. QED  BY <2>1, <2>3, StillReached
  <1>4. ASSUME NEW r \in Relays, FindJob(r) PROVE Done
    <2>1. Progress /\ StartedKnown' /\ UNCHANGED event /\ ~At(r, "idle")
      BY <1>4, QuietProgress DEF FindJob, At, FanOutInv
    <2>2. PICK c \in Consumers : c = Current(r)
      BY <1>4, <1>b DEF FindJob, FanOutInv, RelayKnows, At
    <2>3. /\ c \notin Invalid /\ job[c].status # "NONE" /\ job' = job /\ entry' = entry
          /\ relay[r].todo # {}
      BY <1>4, <2>2 DEF FindJob, FanOutInv, RelayKnows, At
    <2>4. \A q \in Relays : RelayKnows(q)'
      <3>1. CASE EndEvent(r)
        BY <2>1, <3>1, EndKeeps
      <3>2. CASE SettledJob(c) /\ NextConsumer(r, TRUE)
        <4>1. Reached(c)'
          BY <2>3, <3>2 DEF SettledJob, FanOutInv, StartedKnown, Reached, OnItsWay
        <4>2. QED  BY <2>1, <2>2, <3>2, <4>1, NextKeeps
      <3>3. CASE relay' = [relay EXCEPT ![r].pc = "add",
                                        ![r].failedReplay = job[Current(r)].status = "FAILED"]
        <4>1. ASSUME NEW q \in Relays PROVE RelayKnows(q)'
          <5>1. CASE q # r
            BY <1>a, <2>1, <3>3, <5>1, OthersKeep
          <5>2. CASE q = r
            <6>1. /\ relay'[r].pc = "add" /\ relay'[r].todo = relay[r].todo
                  /\ relay'[r].allTerminal = relay[r].allTerminal
              BY <1>a, <3>3 DEF RelayType
            <6>2. Current(r)' = c
              BY <2>2, <6>1 DEF Current
            <6>3. /\ relay[r].todo \subseteq active' /\ relay[r].allTerminal
                  /\ \A d \in active' \ relay[r].todo : Reached(d)'
              BY <1>a, <2>1 DEF FanOutInv, RelayKnows, Progress
            <6>4. QED  BY <2>3, <5>2, <6>1, <6>2, <6>3 DEF RelayKnows, At
          <5>3. QED  BY <5>1, <5>2
        <4>2. QED  BY <4>1
      <3>4. QED  BY <1>4, <2>2, <3>1, <3>2, <3>3 DEF FindJob
    <2>5. QED  BY <2>1, <2>4, StillReached
  <1>5. ASSUME NEW r \in Relays, AddJob(r) PROVE Done
    <2>1. /\ Progress /\ StartedKnown' /\ UNCHANGED <<event, job>> /\ ~At(r, "idle")
          /\ IF relay[r].failedReplay THEN Goto(r, "revive") ELSE NextConsumer(r, TRUE)
      BY <1>5, AddProgress DEF AddJob, At
    <2>2. PICK c \in Consumers : c = Current(r)
      BY <1>5, AddProgress
    <2>3. /\ c \notin Invalid /\ job[c].status # "NONE" /\ AddEntry(c) /\ relay[r].todo # {}
      BY <1>5, <2>2, AddProgress DEF AddJob, FanOutInv, RelayKnows, At
    <2>4. Reached(c)'
      <3>1. entry \in [Consumers -> EntryStates] /\ job \in [Consumers -> JobType]
        BY DEF FanOutInv, TypeOK
      <3>2. CASE job[c].started
        BY <2>1, <2>3, <3>2 DEF Reached
      <3>3. CASE ~job[c].started
        <4>1. job[c].status = "QUEUED" /\ entry[c] \notin {"running", "finished"}
          BY <2>3, <3>1, <3>3 DEF FanOutInv, StartedKnown
        <4>2. entry'[c] \in {"waiting", "taken"}
          BY <2>3, <3>1, <4>1 DEF AddEntry, EntryStates
        <4>3. QED  BY <2>1, <2>3, <4>1, <4>2 DEF Reached, OnItsWay
      <3>4. QED  BY <3>1, <3>2, <3>3
    <2>5. \A q \in Relays : RelayKnows(q)'
      <3>1. CASE NextConsumer(r, TRUE)
        BY <2>1, <2>2, <2>4, <3>1, NextKeeps
      <3>2. CASE Goto(r, "revive")
        <4>1. job'[Current(r)].status # "NONE" /\ Current(r) \notin Invalid
          BY <2>1, <2>2, <2>3
        <4>2. QED  BY <2>1, <2>2, <2>3, <2>4, <3>2, <4>1, GotoKeeps DEF Labels
      <3>3. QED  BY <2>1, <3>1, <3>2
    <2>6. QED  BY <2>1, <2>5, StillReached
  <1>6. ASSUME NEW r \in Relays, CompensateFailure(r) PROVE Done
    BY <1>6 DEF CompensateFailure, FanOutInv, RelayKnows
  <1>7. ASSUME NEW r \in Relays, ReviveJob(r) PROVE Done
    <2>1. Progress /\ StartedKnown' /\ UNCHANGED event /\ ~At(r, "idle")
      BY <1>7, ReviveProgress DEF ReviveJob, At
    <2>2. PICK c \in Consumers : c = Current(r)
      BY <1>7, <1>b DEF ReviveJob, FanOutInv, RelayKnows, At
    <2>3. Reached(c)'
      BY <1>7, <2>1, <2>2 DEF ReviveJob, FanOutInv, RelayKnows, At, Progress
    <2>4. \A q \in Relays : RelayKnows(q)'
      <3>1. CASE EndEvent(r)
        BY <2>1, <3>1, EndKeeps
      <3>2. CASE NextConsumer(r, TRUE)
        BY <2>1, <2>2, <2>3, <3>2, NextKeeps
      <3>3. QED  BY <1>7, <3>1, <3>2 DEF ReviveJob
    <2>5. QED  BY <2>1, <2>4, StillReached
  <1>8. ASSUME NEW r \in Relays, MarkDispatched(r) PROVE Done
    <2>1. Progress /\ StartedKnown' /\ EndEvent(r) /\ UNCHANGED <<active, job, entry>>
      BY <1>8, QuietProgress DEF MarkDispatched, FanOutInv
    <2>2. \A c \in active : Reached(c)
      BY <1>8 DEF MarkDispatched, FanOutInv, RelayKnows, At
    <2>3. DispatchedReachesAll'
      BY <2>1, <2>2 DEF DispatchedReachesAll, Reached, Valid, OnItsWay
    <2>4. QED  BY <2>1, <2>3, EndKeeps
  <1>9. ASSUME NEW r \in Relays, Crash(r) PROVE Done
    <2>1. Progress /\ StartedKnown' /\ EndEvent(r) /\ UNCHANGED event
      BY <1>9, QuietProgress DEF Crash, FanOutInv
    <2>2. QED  BY <2>1, EndKeeps, StillReached
  <1>10. ASSUME NEW c \in Consumers, ConsumerStep(c) \/ Expire(c) PROVE Done
    <2>1. Progress /\ StartedKnown' /\ UNCHANGED <<event, relay>>
      BY <1>10, ConsumerProgress DEF ConsumerStep, Take, Pickup, Execute, Expire
    <2>2. QED  BY <2>1, OthersKeep, StillReached
  <1>11. ASSUME LeaseAges \/ LeaseExpires \/ UNCHANGED vars PROVE Done
    <2>1. Progress /\ StartedKnown' /\ UNCHANGED relay /\ (event'.dispatched => event.dispatched)
      BY <1>11, QuietProgress DEF LeaseAges, LeaseExpires, vars, FanOutInv, TypeOK, EventRowType
    <2>2. QED  BY <2>1, OthersKeep, StillReached
  <1>12. Done
    BY <1>1, <1>2, <1>3, <1>4, <1>5, <1>6, <1>7, <1>8, <1>9, <1>10, <1>11 DEF Next, RelayStep
  <1>13. TypeOK'
    BY StepTyped DEF FanOutInv
  <1>14. QED  BY <1>12, <1>13 DEF FanOutInv

\* No fault is forgotten.
LEMMA FaultsRemembered ==
    ASSUME [Next]_vars
    PROVE  faults.kinds \subseteq faults'.kinds
  <1>1. ASSUME NEW kind, Fault(kind) PROVE faults.kinds \subseteq faults'.kinds
    BY <1>1 DEF Fault
  <1>2. ASSUME NEW r \in Relays, RelayStep(r) \/ Crash(r)
        PROVE  faults.kinds \subseteq faults'.kinds
    BY <1>1, <1>2 DEF RelayStep, Claim, Renew, CreateJob, FindJob, AddJob,
                      CompensateFailure, ReviveJob, MarkDispatched, Crash
  <1>3. ASSUME NEW c \in Consumers, ConsumerStep(c) \/ Expire(c)
        PROVE  faults.kinds \subseteq faults'.kinds
    BY <1>3 DEF ConsumerStep, Take, Pickup, Execute, Expire
  <1>4. CASE LeaseAges \/ LeaseExpires \/ UNCHANGED vars
    BY <1>1, <1>4 DEF LeaseAges, LeaseExpires, vars
  <1>5. QED  BY <1>2, <1>3, <1>4 DEF Next

\* As long as no Queue.add has thrown, an event is marked dispatched only when
\* every active consumer has its job on its way, started, or rejected for good,
\* whatever crashes, database errors, late clocks and stolen leases occur.
THEOREM FanOutComplete == Spec => []DispatchedReachesAll
  <1>1. Init => IInv
    BY FanOutInit, InitTyped DEF IInv
  <1>2. IInv /\ [Next]_vars => IInv'
    BY FanOutStep, FaultsRemembered, StepTyped DEF IInv, Reliable
  <1>3. IInv => DispatchedReachesAll
    BY DEF IInv, FanOutInv, DispatchedReachesAll
  <1>4. QED  BY <1>1, <1>2, <1>3, PTL DEF Spec
-----------------------------------------------------------------------------
(* A failed dispatch is retried, as long as nobody works past its lease      *)

\* The relay at work is alone, and the event is its own.
LEMMA AloneAtWork ==
    ASSUME TypeOK, LeaseHeld, NEW r \in Relays, ~At(r, "idle")
    PROVE  /\ event.owner = r /\ ~event.dispatched
           /\ \A q \in Relays \ {r} : At(q, "idle")
  BY DEF LeaseHeld, Owns

\* A step of the relay at work that leaves the event undispatched and its lease
\* running: what has to be shown is what the relay itself knows, and the rows.
LEMMA RelayMoves ==
    ASSUME TypeOK, RetryInv, NEW r \in Relays, ~At(r, "idle"),
           \A q \in Relays \ {r} : relay'[q] = relay[q],
           relay'[r].pc # "idle" => event'.lease \in {"fresh", "old"},
           event'.owner = event.owner, event'.dispatched = event.dispatched,
           RelayRepairs(r)', FailureStands'
    PROVE  RetryInv'
  <1>1. /\ event.owner = r /\ ~event.dispatched
        /\ \A q \in Relays \ {r} : At(q, "idle")
    BY AloneAtWork DEF RetryInv
  <1>2. LeaseHeld'
    BY <1>1 DEF LeaseHeld, Owns, At
  <1>3. ASSUME NEW q \in Relays PROVE RelayRepairs(q)'
    <2>1. CASE q # r
      BY <1>1, <2>1 DEF RelayRepairs, At
    <2>2. QED  BY <2>1
  <1>4. QED  BY <1>2, <1>3 DEF RetryInv

\* It ends the event, and nothing happened to the rows.
LEMMA EndMoves ==
    ASSUME TypeOK, RetryInv, NEW r \in Relays, ~At(r, "idle"), EndEvent(r),
           event'.owner = event.owner, event'.dispatched = event.dispatched, FailureStands'
    PROVE  RetryInv'
  <1>1. relay'[r] = Idle /\ \A q \in Relays \ {r} : relay'[q] = relay[q]
    BY DEF EndEvent, TypeOK
  <1>2. RelayRepairs(r)' /\ relay'[r].pc = "idle"
    BY <1>1 DEF RelayRepairs, At, Idle
  <1>3. QED  BY <1>1, <1>2, RelayMoves

\* It goes on with the same consumer.
LEMMA GotoMoves ==
    ASSUME TypeOK, RetryInv, NEW r \in Relays, ~At(r, "idle"), NEW l \in Labels, Goto(r, l),
           event'.owner = event.owner, event'.dispatched = event.dispatched,
           event'.lease \in {"fresh", "old"}, active' = active, FailureStands',
           \A c \in Consumers : job'[c].code = "dispatch" => job[c].code = "dispatch",
           l \notin {"idle", "renew"},
           l = "finalize" => relay[r].todo = {} /\ relay[r].allTerminal,
           l # "finalize" => relay[r].todo # {},
           l \in {"find", "add", "compensate", "revive"} => Current(r) \notin Invalid,
           l = "add" => job'[Current(r)].code # "dispatch"
    PROVE  RetryInv'
  <1>1. \A q \in Relays \ {r} : relay'[q] = relay[q]
    BY DEF Goto, TypeOK
  <1>2. /\ relay'[r].pc = l /\ relay'[r].todo = relay[r].todo
        /\ relay'[r].allTerminal = relay[r].allTerminal
        /\ relay'[r].failedReplay = relay[r].failedReplay
    BY DEF Goto, TypeOK, RelayType
  <1>3. Current(r)' = Current(r)
    BY <1>2 DEF Current
  <1>4. RelayRepairs(r)'
    BY <1>2, <1>3 DEF RetryInv, RelayRepairs, At, Labels
  <1>5. QED  BY <1>1, <1>2, <1>4, RelayMoves

\* It is done with a consumer, whose row is no failed dispatch or counts as a
\* transient failure.
LEMMA NextMoves ==
    ASSUME TypeOK, RetryInv, NEW r \in Relays, ~At(r, "idle"), NEW ok \in BOOLEAN,
           NextConsumer(r, ok), UNCHANGED <<active, event>>, FailureStands',
           NEW c \in Consumers, c = Current(r),
           \A d \in Consumers \ {c} : job'[d].code = "dispatch" => job[d].code = "dispatch",
           ok => job'[c].code # "dispatch"
    PROVE  RetryInv'
  <1> DEFINE rest == relay[r].todo \ {c}
             all  == relay[r].allTerminal /\ ok
  <1>1. \A q \in Relays \ {r} : relay'[q] = relay[q]
    BY DEF NextConsumer, TypeOK
  <1>2. CASE rest = {} /\ ~all
    <2>1. EndEvent(r)
      BY <1>2 DEF NextConsumer, EndEvent
    <2>2. QED  BY <2>1, EndMoves
  <1>3. CASE ~(rest = {} /\ ~all)
    <2>1. relay'[r] = [pc |-> "renew", todo |-> rest, allTerminal |-> all, failedReplay |-> FALSE]
      BY <1>3 DEF NextConsumer, TypeOK
    <2>2. relay[r].todo \subseteq active /\ relay[r].allTerminal \in BOOLEAN
      BY DEF RetryInv, RelayRepairs, TypeOK, RelayType
    <2>3. all => \A d \in Consumers \ rest : job'[d].code # "dispatch"
      BY DEF RetryInv, RelayRepairs
    <2>4. RelayRepairs(r)'
      BY <1>3, <2>1, <2>2, <2>3 DEF RelayRepairs, At
    <2>5. QED  BY <1>1, <2>1, <2>4, RelayMoves DEF RetryInv, LeaseHeld
  <1>4. QED  BY <1>2, <1>3

LEMMA RetryInit == Init => RetryInv
  <1> SUFFICES ASSUME Init PROVE RetryInv
    OBVIOUS
  <1>1. \A r \in Relays : relay[r].pc = "idle"
    BY DEF Init, Idle
  <1>2. \A c \in Consumers : job[c].code = "none"
    BY DEF Init, NoJob
  <1>3. QED  BY <1>1, <1>2 DEF RetryInv, LeaseHeld, FailureStands, RelayRepairs, At

\* No step of a relay or a consumer but these makes a failed dispatch, and rows
\* that were none stay none.
LEMMA FailureStays ==
    ASSUME TypeOK, FailureStands, active' = active, event'.dispatched => event.dispatched,
           \A c \in Consumers : job'[c].code = "dispatch" =>
               job[c].code = "dispatch" /\ job'[c].status = job[c].status
    PROVE  FailureStands'
  BY DEF FailureStands, Valid

LEMMA CreateRepairs == ASSUME TypeOK, RetryInv, NEW r \in Relays, CreateJob(r) PROVE RetryInv'
  <1>t. /\ ~At(r, "idle") /\ UNCHANGED <<active, event>> /\ relay[r].todo # {}
        /\ event.lease \in {"fresh", "old"}
    BY DEF CreateJob, At, RetryInv, RelayRepairs, LeaseHeld
  <1>c. PICK c \in Consumers : c = Current(r)
    BY <1>t DEF Current, TypeOK, RelayType
  <1>j. \/ job' = job
        \/ job[c].status = "NONE" /\ job' = [job EXCEPT ![c] = RejectedJob]
        \/ job[c].status = "NONE" /\ job' = [job EXCEPT ![c] = QueuedJob]
    BY <1>c DEF CreateJob
  <1>k. /\ \A d \in Consumers \ {c} : job'[d] = job[d]
        /\ job'[c] = job[c] \/ (job'[c].code # "dispatch" /\ job'[c].status # "NONE")
    BY <1>j DEF TypeOK, RejectedJob, QueuedJob, NoJob
  <1>f. FailureStands'
    BY <1>t, <1>k, FailureStays DEF RetryInv
  <1>1. CASE c \in Invalid /\ NextConsumer(r, TRUE)
    <2>1. job'[c].code # "dispatch"
      BY <1>1, <1>k DEF RetryInv, FailureStands, Valid
    <2>2. QED  BY <1>1, <1>t, <1>c, <1>k, <1>f, <2>1, NextMoves
  <1>2. CASE c \notin Invalid /\ Goto(r, "add") /\ job' = [job EXCEPT ![c] = QueuedJob]
    <2>1. job'[c].code # "dispatch"
      BY <1>2 DEF TypeOK, QueuedJob, NoJob
    <2>2. QED  BY <1>2, <1>t, <1>c, <1>k, <1>f, <2>1, GotoMoves DEF Labels
  <1>3. CASE c \notin Invalid /\ Goto(r, "find") /\ UNCHANGED job
    BY <1>3, <1>t, <1>c, <1>f, GotoMoves DEF Labels
  <1>4. CASE EndEvent(r)
    BY <1>4, <1>t, <1>f, EndMoves
  <1>5. QED  BY <1>c, <1>1, <1>2, <1>3, <1>4 DEF CreateJob

LEMMA FindRepairs == ASSUME TypeOK, RetryInv, NEW r \in Relays, FindJob(r) PROVE RetryInv'
  <1>t. /\ ~At(r, "idle") /\ UNCHANGED <<active, event, job>> /\ relay[r].todo # {}
        /\ event.lease \in {"fresh", "old"} /\ Current(r) \notin Invalid
    BY DEF FindJob, At, RetryInv, RelayRepairs, LeaseHeld
  <1>c. PICK c \in Consumers : c = Current(r)
    BY <1>t DEF Current, TypeOK, RelayType
  <1>f. FailureStands'
    BY <1>t, FailureStays DEF RetryInv
  <1>1. CASE SettledJob(c) /\ NextConsumer(r, TRUE)
    <2>1. job'[c].code # "dispatch"
      BY <1>1, <1>t DEF SettledJob, RetryInv, FailureStands
    <2>2. QED  BY <1>1, <1>t, <1>c, <1>f, <2>1, NextMoves
  <1>2. CASE relay' = [relay EXCEPT ![r].pc = "add",
                                    ![r].failedReplay = job[Current(r)].status = "FAILED"]
    <2>1. /\ relay'[r].pc = "add" /\ relay'[r].todo = relay[r].todo
          /\ relay'[r].allTerminal = relay[r].allTerminal
          /\ relay'[r].failedReplay = (job[c].status = "FAILED")
          /\ \A q \in Relays \ {r} : relay'[q] = relay[q]
      BY <1>2, <1>c DEF TypeOK, RelayType
    <2>2. Current(r)' = c
      BY <1>c, <2>1 DEF Current
    <2>3. ~relay'[r].failedReplay => job'[c].code # "dispatch"
      BY <1>t, <2>1 DEF RetryInv, FailureStands
    <2>4. RelayRepairs(r)'
      BY <1>t, <1>c, <2>1, <2>2, <2>3 DEF RetryInv, RelayRepairs, At
    <2>5. QED  BY <1>t, <1>f, <2>1, <2>4, RelayMoves
  <1>3. CASE EndEvent(r)
    BY <1>3, <1>t, <1>f, EndMoves
  <1>4. QED  BY <1>c, <1>1, <1>2, <1>3 DEF FindJob

LEMMA AddRepairs == ASSUME TypeOK, RetryInv, NEW r \in Relays, AddJob(r) PROVE RetryInv'
  <1>t. /\ ~At(r, "idle") /\ UNCHANGED <<active, event, job>> /\ relay[r].todo # {}
        /\ event.lease \in {"fresh", "old"} /\ Current(r) \notin Invalid
        /\ ~relay[r].failedReplay => job[Current(r)].code # "dispatch"
    BY DEF AddJob, At, RetryInv, RelayRepairs, LeaseHeld
  <1>c. PICK c \in Consumers : c = Current(r)
    BY <1>t DEF Current, TypeOK, RelayType
  <1>f. FailureStands'
    BY <1>t, FailureStays DEF RetryInv
  <1>1. CASE ~relay[r].failedReplay /\ NextConsumer(r, TRUE)
    BY <1>1, <1>t, <1>c, <1>f, NextMoves
  <1>2. CASE Goto(r, "revive") \/ Goto(r, "compensate")
    BY <1>2, <1>t, <1>f, GotoMoves DEF Labels
  <1>3. QED  BY <1>1, <1>2 DEF AddJob

LEMMA CompensateRepairs ==
    ASSUME TypeOK, RetryInv, NEW r \in Relays, CompensateFailure(r)
    PROVE  RetryInv'
  <1>t. /\ ~At(r, "idle") /\ UNCHANGED <<active, event>> /\ relay[r].todo # {}
        /\ NextConsumer(r, FALSE) /\ Current(r) \notin Invalid /\ ~event.dispatched
        /\ relay[r].todo \subseteq active
    BY DEF CompensateFailure, At, RetryInv, RelayRepairs, LeaseHeld, Owns, Transient
  <1>c. PICK c \in Consumers : c = Current(r)
    BY <1>t DEF Current, TypeOK, RelayType
  <1>v. c \in Valid
    BY <1>t, <1>c DEF Current, Valid
  <1>j. job' = job \/ job' = Undispatched(c)
    BY <1>c DEF CompensateFailure
  <1>k. /\ \A d \in Consumers \ {c} : job'[d] = job[d]
        /\ job'[c] = job[c] \/ job'[c].status = "FAILED"
    BY <1>j DEF TypeOK, Undispatched, JobType
  <1>f. FailureStands'
    BY <1>t, <1>v, <1>k DEF RetryInv, FailureStands, Valid
  <1>1. QED  BY <1>t, <1>c, <1>k, <1>f, NextMoves

LEMMA ReviveRepairs == ASSUME TypeOK, RetryInv, NEW r \in Relays, ReviveJob(r) PROVE RetryInv'
  <1>t. /\ ~At(r, "idle") /\ UNCHANGED <<active, event>> /\ relay[r].todo # {}
    BY DEF ReviveJob, At, RetryInv, RelayRepairs
  <1>c. PICK c \in Consumers : c = Current(r)
    BY <1>t DEF Current, TypeOK, RelayType
  <1>1. CASE EndEvent(r) /\ UNCHANGED job
    <2>1. FailureStands'
      BY <1>t, <1>1, FailureStays DEF RetryInv
    <2>2. QED  BY <1>1, <1>t, <2>1, EndMoves
  <1>2. CASE /\ job' = IF Revivable(c)
                       THEN [job EXCEPT ![c].status = "QUEUED", ![c].code = "none"] ELSE job
             /\ NextConsumer(r, TRUE)
    <2>1. job'[c].code # "dispatch" /\ \A d \in Consumers \ {c} : job'[d] = job[d]
      BY <1>2 DEF Revivable, TypeOK, JobType, RetryInv, FailureStands
    <2>2. FailureStands'
      BY <1>t, <2>1, FailureStays DEF RetryInv
    <2>3. QED  BY <1>2, <1>t, <1>c, <2>1, <2>2, NextMoves
  <1>3. QED  BY <1>c, <1>1, <1>2 DEF ReviveJob

\* The event is marked by a relay that has left no failed dispatch behind.
LEMMA MarkRepairs == ASSUME TypeOK, RetryInv, NEW r \in Relays, MarkDispatched(r) PROVE RetryInv'
  <1>1. /\ relay'[r] = Idle /\ UNCHANGED <<active, job, entry>>
        /\ \A q \in Relays \ {r} : relay'[q] = relay[q] /\ At(q, "idle")
    BY AloneAtWork DEF MarkDispatched, EndEvent, TypeOK, RetryInv, At
  <1>2. \A q \in Relays : relay'[q].pc = "idle"
    BY <1>1 DEF Idle, At
  <1>3. relay[r].todo = {} /\ relay[r].allTerminal /\ ~At(r, "idle")
    BY DEF MarkDispatched, RetryInv, RelayRepairs, At
  <1>4. \A c \in Consumers : job[c].code # "dispatch"
    BY <1>3 DEF RetryInv, RelayRepairs
  <1>5. QED  BY <1>1, <1>2, <1>4 DEF RetryInv, LeaseHeld, FailureStands, RelayRepairs, At

\* Nobody was at work: a claim needs a lease that is none's or has expired.
LEMMA ClaimRepairs == ASSUME TypeOK, RetryInv, NEW r \in Relays, Claim(r) PROVE RetryInv'
  <1>1. \A q \in Relays : At(q, "idle")
    BY DEF Claim, Claimable, RetryInv, LeaseHeld
  <1>2. /\ event'.owner = r /\ event'.lease = "fresh" /\ ~event'.dispatched
        /\ UNCHANGED <<active, job>>
        /\ \A q \in Relays \ {r} : relay'[q] = relay[q]
        /\ relay'[r] = IF active = {} THEN Idle ELSE [Idle EXCEPT !.pc = "renew", !.todo = active]
    BY DEF Claim, TypeOK, EventRowType
  <1>3. LeaseHeld'
    BY <1>1, <1>2 DEF LeaseHeld, Owns, At
  <1>4. FailureStands'
    BY <1>2, FailureStays DEF RetryInv
  <1>5. \A c \in Consumers \ active : job'[c].code # "dispatch"
    BY <1>2 DEF RetryInv, FailureStands, Valid
  <1>6. RelayRepairs(r)'
    <2>1. CASE active = {}
      BY <1>2, <2>1 DEF RelayRepairs, At, Idle
    <2>2. CASE active # {}
      <3>1. relay'[r] = [Idle EXCEPT !.pc = "renew", !.todo = active]
        BY <1>2, <2>2
      <3>2. relay'[r].pc = "renew" /\ relay'[r].todo = active
        BY <3>1 DEF Idle
      <3>3. QED  BY <1>2, <1>5, <2>2, <3>2 DEF RelayRepairs, At
    <2>3. QED  BY <2>1, <2>2
  <1>7. ASSUME NEW q \in Relays, q # r PROVE RelayRepairs(q)'
    BY <1>1, <1>2, <1>7 DEF RelayRepairs, At
  <1>8. QED  BY <1>3, <1>4, <1>6, <1>7 DEF RetryInv

LEMMA RenewRepairs ==
    ASSUME TypeOK, RetryInv, Punctual', NEW r \in Relays, Renew(r)
    PROVE  RetryInv'
  <1>t. ~At(r, "idle") /\ UNCHANGED <<active, job>>
    BY DEF Renew, At
  <1>o. Owns(r) /\ event.lease \in {"fresh", "old"}
    BY <1>t DEF RetryInv, LeaseHeld
  <1>e. /\ event'.owner = event.owner /\ event'.dispatched = event.dispatched
        /\ event'.lease \in {"fresh", "old"}
    BY <1>o DEF Renew, TypeOK, EventRowType
  <1>f. FailureStands'
    BY <1>t, <1>e, FailureStays DEF RetryInv
  <1>1. CASE EndEvent(r)
    BY <1>1, <1>t, <1>e, <1>f, EndMoves
  <1>2. CASE Goto(r, IF relay[r].todo = {} THEN "finalize" ELSE "create")
    <2>1. relay[r].todo = {} => relay[r].allTerminal
      BY DEF Renew, RetryInv, RelayRepairs, At
    <2>2. CASE relay[r].todo = {}
      BY <1>2, <1>t, <1>e, <1>f, <2>1, <2>2, GotoMoves DEF Labels
    <2>3. CASE relay[r].todo # {}
      BY <1>2, <1>t, <1>e, <1>f, <2>3, GotoMoves DEF Labels
    <2>4. QED  BY <2>2, <2>3
  <1>3. QED  BY <1>1, <1>2 DEF Renew

\* The consumer's worker touches only rows that no dispatch failed for.
LEMMA ConsumerRepairs ==
    ASSUME TypeOK, RetryInv, NEW c \in Consumers, ConsumerStep(c) \/ Expire(c)
    PROVE  RetryInv'
  <1>1. /\ UNCHANGED <<active, event, relay>>
        /\ \A d \in Consumers : job'[d].code = "dispatch" =>
               job[d].code = "dispatch" /\ job'[d].status = job[d].status
    BY DEF ConsumerStep, Take, Pickup, Execute, Expire, TypeOK, JobType, RetryInv, FailureStands
  <1>2. FailureStands'
    BY <1>1, FailureStays DEF RetryInv
  <1>3. \A r \in Relays : relay[r].todo # {} => Current(r) \in Consumers /\ Current(r)' = Current(r)
    BY <1>1 DEF Current, TypeOK, RelayType
  <1>4. LeaseHeld'
    BY <1>1 DEF RetryInv, LeaseHeld, Owns, At
  <1>5. ASSUME NEW r \in Relays PROVE RelayRepairs(r)'
    BY <1>1, <1>3 DEF RetryInv, RelayRepairs, At
  <1>6. QED  BY <1>2, <1>4, <1>5 DEF RetryInv

LEMMA LeaseRepairs ==
    ASSUME TypeOK, RetryInv, Punctual', LeaseAges \/ LeaseExpires \/ UNCHANGED vars
    PROVE  RetryInv'
  <1>1. /\ UNCHANGED <<active, job, relay>> /\ event'.dispatched = event.dispatched
        /\ event'.owner = event.owner
    BY DEF LeaseAges, LeaseExpires, vars, TypeOK, EventRowType
  <1>2. \A r \in Relays : RelayRepairs(r)'
    BY <1>1 DEF RetryInv, RelayRepairs, At, Current
  <1>3. FailureStands'
    BY <1>1, FailureStays DEF RetryInv
  <1>4. ASSUME NEW r \in Relays, ~At(r, "idle")' PROVE Owns(r)' /\ event'.lease \in {"fresh", "old"}
    <2>1. Owns(r) /\ event.lease \in {"fresh", "old"} /\ ~At(r, "idle")
      BY <1>1, <1>4 DEF RetryInv, LeaseHeld, At
    <2>2. ~LeaseExpires
      BY <2>1 DEF LeaseExpires, Owns, Fault, Punctual, TypeOK, FaultsType
    <2>3. QED  BY <1>1, <2>1, <2>2 DEF LeaseAges, vars, Owns, TypeOK, EventRowType
  <1>5. QED  BY <1>2, <1>3, <1>4 DEF RetryInv, LeaseHeld

LEMMA RetryStep ==
    ASSUME TypeOK, RetryInv, Punctual', [Next]_vars
    PROVE  RetryInv'
  <1>1. ASSUME NEW r \in Relays, Crash(r) PROVE RetryInv'
    <2>1. FailureStands'
      BY <1>1, FailureStays DEF Crash, RetryInv
    <2>2. QED  BY <1>1, <2>1, EndMoves DEF Crash
  <1>2. QED
    BY <1>1, ClaimRepairs, RenewRepairs, CreateRepairs, FindRepairs, AddRepairs, CompensateRepairs,
       ReviveRepairs, MarkRepairs, ConsumerRepairs, LeaseRepairs DEF Next, RelayStep

\* As long as no lease ran out under a relay at work and no renewal was skipped,
\* a failed dispatch leaves the event to be reclaimed, whatever relays die, calls
\* fail and adds throw.
THEOREM FailuresRetried == Spec => []FailedDispatchIsRetried
  <1> DEFINE J == TypeOK /\ (Punctual => RetryInv)
  <1>1. Init => J
    BY RetryInit, InitTyped
  <1>2. J /\ [Next]_vars => J'
    <2> SUFFICES ASSUME J, [Next]_vars PROVE J'
      OBVIOUS
    <2>1. TypeOK'
      BY StepTyped
    <2>2. Punctual' => Punctual
      BY FaultsRemembered DEF Punctual
    <2>3. QED  BY <2>1, <2>2, RetryStep
  <1>3. J => FailedDispatchIsRetried
    BY DEF FailedDispatchIsRetried, Punctual, RetryInv, FailureStands
  <1>4. QED  BY <1>1, <1>2, <1>3, PTL DEF Spec
=============================================================================
