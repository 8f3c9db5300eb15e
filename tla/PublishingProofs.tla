--------------------------- MODULE PublishingProofs ---------------------------
(***************************************************************************)
(* Proofs about Publishing, for every set of handlers and clients, every     *)
(* attempts budget and every bound: the type invariant, at most one post     *)
(* while executions do not overlap, no target left PUBLISHING by a code path,*)
(* and who may undo a cancellation.                                          *)
(***************************************************************************)
EXTENDS Publishing, TLAPS

USE ProcessAssumption, BoundAssumption

JobsTyped   == DOMAIN jobs \subseteq Nat /\ jobs \in [DOMAIN jobs -> JobType]
ProcTyped   == proc \in [Procs -> ProcType]
FaultsKept  == faults' \in Nat /\ faults' >= faults

\* Process p goes on to a step, alone; it forgets a cancellation only at the
\* ends of its run.
Moves(p, label) ==
    /\ proc' \in [Procs -> ProcType]
    /\ \A q \in Procs \ {p} : proc'[q] = proc[q]
    /\ proc'[p].pc = label
    /\ proc'[p].late = proc[p].late \/ label = "idle" \/ At(p, "idle")

-----------------------------------------------------------------------------
(* What the building blocks do to the type of the state                     *)

LEMMA IdleType == Idle \in ProcType
BY DEF Idle, ProcType, Labels, Statuses, Verdicts, Errors

LEMMA FaultType ==
    ASSUME faults \in Nat, NEW kind, Fault(kind)
    PROVE  FaultsKept /\ faults' > 0
BY DEF Fault, FaultsKept

LEMMA GotoMoves ==
    ASSUME ProcTyped, NEW p \in Procs, NEW label \in Labels, Goto(p, label)
    PROVE  Moves(p, label)
BY DEF ProcTyped, Goto, Moves, ProcType

LEMMA FailingRecord ==
    ASSUME NEW r \in ProcType, NEW label \in Labels, NEW code \in Errors, NEW class \in Verdicts
    PROVE  [r EXCEPT !.pc = label, !.error = code, !.verdict = class] \in ProcType
BY DEF ProcType

LEMMA FailingMoves ==
    ASSUME ProcTyped, NEW p \in Procs, NEW code \in Errors, NEW class \in Verdicts,
           Failing(p, code, class)
    PROVE  Moves(p, "fail")
<1>1. "fail" \in Labels /\ proc[p] \in ProcType
      BY DEF Labels, ProcTyped
<1>2. [proc[p] EXCEPT !.pc = "fail", !.error = code, !.verdict = class] \in ProcType
      BY <1>1, FailingRecord
<1>3. proc' = [proc EXCEPT ![p] = [proc[p] EXCEPT !.pc = "fail", !.error = code, !.verdict = class]]
      BY DEF Failing
<1>4. [proc[p] EXCEPT !.pc = "fail", !.error = code, !.verdict = class].pc = "fail"
      BY <1>1 DEF ProcType
<1>5. [proc[p] EXCEPT !.pc = "fail", !.error = code, !.verdict = class].late = proc[p].late
      BY <1>1 DEF ProcType
<1>   QED BY <1>2, <1>3, <1>4, <1>5 DEF ProcTyped, Moves

LEMMA EndsMoves ==
    ASSUME ProcTyped, NEW p \in Procs, Ends(p)
    PROVE  Moves(p, "idle")
BY IdleType DEF ProcTyped, Ends, Moves, Idle

LEMMA QueuedType ==
    ASSUME JobsTyped, NEW g \in Nat, NEW state \in {"unsent", "ready", "dead"}, Queued(g, state)
    PROVE  JobsTyped'
BY DEF JobsTyped, Queued, JobType

LEMMA SettledType ==
    ASSUME NEW job \in JobType, NEW verdict
    PROVE  Settled(job, verdict) \in JobType
<1>1. job = [state |-> job.state, tries |-> job.tries, by |-> job.by]
      BY DEF JobType
<1>   QED BY <1>1 DEF Settled, JobType

LEMMA EndAttemptType ==
    ASSUME JobsTyped, NEW h, NEW verdict, EndAttempt(h, verdict)
    PROVE  JobsTyped'
BY SettledType DEF JobsTyped, EndAttempt

\* TypeOK, cut into what a step changes.
LEMMA TypeParts ==
    TypeOK <=> /\ content \in Contents /\ target \in TargetType
               /\ checkpoint \in {"none", "UPLOAD_SESSION", "ATTEMPTED"}
               /\ armed \in {"yes", "no"} /\ JobsTyped /\ ProcTyped
               /\ tickets \in Nat /\ posts \in Nat
               /\ faults \in Nat /\ requests \in Nat /\ fires \in Nat
               /\ overlapped \in {"yes", "no"} /\ confirmed \in {"yes", "no"}
BY DEF TypeOK, JobsTyped, ProcTyped

LEMMA TypePartsPrimed ==
    TypeOK' <=> /\ content' \in Contents /\ target' \in TargetType
                /\ checkpoint' \in {"none", "UPLOAD_SESSION", "ATTEMPTED"}
                /\ armed' \in {"yes", "no"} /\ JobsTyped' /\ ProcTyped'
                /\ tickets' \in Nat /\ posts' \in Nat
                /\ faults' \in Nat /\ requests' \in Nat /\ fires' \in Nat
                /\ overlapped' \in {"yes", "no"} /\ confirmed' \in {"yes", "no"}
BY DEF TypeOK, JobsTyped, ProcTyped

\* The rows that the updates of the target write.
LEMMA StatusWrite ==
    ASSUME TypeOK, NEW s \in Statuses
    PROVE  [target EXCEPT !.status = s] \in TargetType
BY TypeParts DEF TargetType

LEMMA RetryWrite ==
    ASSUME TypeOK, NEW n \in Nat
    PROVE  [target EXCEPT !.status = "QUEUED", !.retryCount = n] \in TargetType
BY TypeParts DEF TargetType, Statuses

LEMMA ErrorWrite ==
    ASSUME TypeOK, NEW e \in Errors
    PROVE  /\ [target EXCEPT !.error = e] \in TargetType
           /\ [target EXCEPT !.status = "FAILED", !.error = e] \in TargetType
BY TypeParts DEF TargetType, Statuses

LEMMA InitType == Init => TypeOK
<1>   SUFFICES ASSUME Init PROVE TypeOK
      OBVIOUS
<1>1. JobsTyped
      BY DEF Init, JobsTyped, JobType
<1>2. ProcTyped
      BY IdleType DEF Init, ProcTyped
<1>3. target \in TargetType /\ armed \in {"yes", "no"}
      BY DEF Init, TargetType, Statuses, Errors
<1>   QED BY <1>1, <1>2, <1>3, TypeParts DEF Init

-----------------------------------------------------------------------------
(* Every step keeps the types; a step of one process is a move of that process *)

LEMMA RequestStep ==
    ASSUME TypeOK, NEW c \in Clients, NEW label \in Labels, Request(c, label)
    PROVE  TypeOK' /\ Moves(c, label) /\ faults' = faults
<1>   DEFINE seen == IF label = "dispatch" THEN target.status ELSE Idle.seen
<1>1. seen \in Statuses
      BY TypeParts DEF TargetType, Idle, Statuses
<1>2. [Idle EXCEPT !.pc = label, !.seen = seen] \in ProcType
      BY <1>1, IdleType DEF ProcType
<1>4. [Idle EXCEPT !.pc = label, !.seen = seen].pc = label
      BY DEF Idle
<1>5. proc' = [proc EXCEPT ![c] = [Idle EXCEPT !.pc = label, !.seen = seen]]
      BY DEF Request
<1>6. ProcTyped /\ c \in Procs
      BY TypeParts DEF Procs
<1>   HIDE DEF seen
<1>7. ProcTyped'
      BY <1>2, <1>5, <1>6 DEF ProcTyped
<1>8. TypeOK'
      BY <1>7, TypeParts, TypePartsPrimed DEF Request, JobsTyped
<1>   QED BY <1>2, <1>4, <1>5, <1>6, <1>7, <1>8 DEF Request, Moves, ProcTyped

LEMMA DispatchWriteStep ==
    ASSUME TypeOK, NEW c \in Clients, DispatchWrite(c)
    PROVE  TypeOK' /\ Moves(c, "enqueue")
<1>   DEFINE count == IF proc[c].seen = "FAILED" THEN target.retryCount + 1 ELSE target.retryCount
<1>1. count \in Nat /\ "QUEUED" \in Statuses /\ "enqueue" \in Labels /\ c \in Procs
      BY TypeParts DEF TargetType, Statuses, Labels, Procs
<1>2. target' = [target EXCEPT !.status = "QUEUED", !.retryCount = count]
      BY DEF DispatchWrite
<1>3. proc' = [proc EXCEPT ![c] = [proc[c] EXCEPT !.pc = "enqueue", !.count = count]]
      BY DEF DispatchWrite
<1>   HIDE DEF count
<1>4. target' \in TargetType
      BY <1>1, <1>2, RetryWrite
<1>5. proc[c] \in ProcType /\ ProcTyped
      BY <1>1, TypeParts DEF ProcTyped
<1>6. /\ [proc[c] EXCEPT !.pc = "enqueue", !.count = count] \in ProcType
      /\ [proc[c] EXCEPT !.pc = "enqueue", !.count = count].pc = "enqueue"
      /\ [proc[c] EXCEPT !.pc = "enqueue", !.count = count].late = proc[c].late
      BY <1>1, <1>5 DEF ProcType
<1>7. ProcTyped' /\ Moves(c, "enqueue")
      BY <1>1, <1>3, <1>5, <1>6 DEF ProcTyped, Moves
<1>   QED BY <1>4, <1>7, TypeParts, TypePartsPrimed DEF DispatchWrite, auxVars, JobsTyped

LEMMA EnqueueStep ==
    ASSUME TypeOK, NEW c \in Clients, Enqueue(c)
    PROVE  TypeOK' /\ Moves(c, "idle") /\ FaultsKept
<1>1. c \in Procs /\ proc[c].count \in Nat
      BY TypeParts DEF ProcTyped, ProcType, Procs
<1>2. JobsTyped'
      BY <1>1, QueuedType, TypeParts DEF Enqueue, JobsTyped
<1>3. FaultsKept
      BY FaultType, TypeParts DEF Enqueue, FaultsKept
<1>4. Moves(c, "idle")
      BY <1>1, EndsMoves, TypeParts DEF Enqueue
<1>   QED BY <1>2, <1>3, <1>4, TypeParts, TypePartsPrimed
         DEF Enqueue, auxVars, FaultsKept, Moves, ProcTyped

LEMMA CancelWriteStep ==
    ASSUME TypeOK, NEW c \in Clients, CancelWrite(c)
    PROVE  /\ TypeOK' /\ faults' = faults
           /\ \A p \in Procs : proc'[p].pc = "idle" \/ proc'[p].pc = proc[p].pc
           /\ \A p \in Procs : proc'[p].pc # "idle" => proc'[p].late = "yes"
           /\ \A h \in Handlers : proc'[h].pc = proc[h].pc
<1>1. target' \in TargetType
      BY StatusWrite DEF CancelWrite, Statuses
<1>2. \A r \in ProcType : /\ [r EXCEPT !.late = "yes"] \in ProcType
                          /\ [r EXCEPT !.late = "yes"].pc = r.pc
                          /\ [r EXCEPT !.late = "yes"].late = "yes"
      BY DEF ProcType
<1>3. ProcTyped
      BY TypeParts
<1>4. ProcTyped'
      BY <1>2, <1>3, IdleType DEF CancelWrite, ProcTyped
<1>5. TypeOK'
      BY <1>1, <1>4, TypeParts, TypePartsPrimed DEF CancelWrite, auxVars, JobsTyped
<1>6. /\ \A p \in Procs : proc'[p].pc = "idle" \/ proc'[p].pc = proc[p].pc
      /\ \A p \in Procs : proc'[p].pc # "idle" => proc'[p].late = "yes"
      BY <1>2, <1>3 DEF CancelWrite, ProcTyped, At, Idle
<1>7. \A h \in Handlers : proc'[h].pc = proc[h].pc
      BY <1>2, <1>3 DEF CancelWrite, ProcTyped, At, Procs
<1>   QED BY <1>5, <1>6, <1>7 DEF CancelWrite

LEMMA ReconcileStep ==
    ASSUME TypeOK, NEW c \in Clients, MarkWrite(c) \/ ConfirmWrite(c)
    PROVE  TypeOK' /\ Moves(c, "idle") /\ faults' = faults
<1>1. c \in Procs
      BY DEF Procs
<1>2. target' \in TargetType
      BY StatusWrite, ErrorWrite DEF MarkWrite, ConfirmWrite, ConfirmedTarget, Statuses, Errors
<1>3. Moves(c, "idle")
      BY <1>1, EndsMoves, TypeParts DEF MarkWrite, ConfirmWrite
<1>   QED BY <1>2, <1>3, TypeParts, TypePartsPrimed
         DEF MarkWrite, ConfirmWrite, auxVars, Moves, ProcTyped, JobsTyped

LEMMA RetryJobStep ==
    ASSUME TypeOK, NEW g \in DOMAIN jobs, RetryJob(g)
    PROVE  TypeOK' /\ proc' = proc /\ faults' = faults
<1>1. jobs[g] \in JobType /\ JobsTyped
      BY TypeParts DEF JobsTyped
<1>2. [jobs[g] EXCEPT !.state = "ready"] \in JobType
      BY <1>1 DEF JobType
<1>3. JobsTyped'
      BY <1>1, <1>2 DEF RetryJob, JobsTyped
<1>   QED BY <1>3, TypeParts, TypePartsPrimed DEF RetryJob, ProcTyped

LEMMA ScheduleStep ==
    ASSUME TypeOK, ScheduleFires
    PROVE  TypeOK' /\ proc' = proc /\ faults' = faults
BY TypeParts, TypePartsPrimed DEF ScheduleFires, ProcTyped, JobsTyped

LEMMA TakeTicketStep ==
    ASSUME TypeOK, NEW h \in Handlers, TakeTicket(h)
    PROVE  TypeOK' /\ Moves(h, "scheduled") /\ faults' = faults
<1>1. h \in Procs /\ "scheduled" \in Labels
      BY DEF Procs, Labels
<1>2. Moves(h, "scheduled")
      BY <1>1, GotoMoves, TypeParts DEF TakeTicket
<1>   QED BY <1>2, TypeParts, TypePartsPrimed DEF TakeTicket, auxVars, Moves, ProcTyped, JobsTyped

LEMMA ScheduledReadStep ==
    ASSUME TypeOK, NEW h \in Handlers, ScheduledRead(h)
    PROVE  /\ TypeOK' /\ faults' = faults
           /\ Moves(h, "idle") \/ (May("QUEUED") /\ Moves(h, "queue"))
<1>1. h \in Procs /\ ProcTyped /\ target.retryCount \in Nat /\ "queue" \in Labels
      BY TypeParts DEF Procs, TargetType, Labels
<1>2. ASSUME proc' = [proc EXCEPT ![h].pc = "queue", ![h].count = target.retryCount]
      PROVE  Moves(h, "queue")
  <2>1. /\ [proc[h] EXCEPT !.pc = "queue", !.count = target.retryCount] \in ProcType
        /\ [proc[h] EXCEPT !.pc = "queue", !.count = target.retryCount].pc = "queue"
        /\ [proc[h] EXCEPT !.pc = "queue", !.count = target.retryCount].late = proc[h].late
        BY <1>1 DEF ProcType, ProcTyped
  <2>2. proc' = [proc EXCEPT ![h] = [proc[h] EXCEPT !.pc = "queue", !.count = target.retryCount]]
        BY <1>2
  <2>   QED BY <1>1, <2>1, <2>2 DEF ProcTyped, Moves
<1>3. ASSUME Ends(h) PROVE Moves(h, "idle")
      BY <1>1, <1>3, EndsMoves
<1>4. Moves(h, "idle") \/ (May("QUEUED") /\ Moves(h, "queue"))
  <2>1. CASE /\ May("QUEUED")
             /\ proc' = [proc EXCEPT ![h].pc = "queue", ![h].count = target.retryCount]
        BY <1>2, <2>1
  <2>2. CASE Ends(h)
        BY <1>3, <2>2
  <2>   QED BY <2>1, <2>2 DEF ScheduledRead
<1>5. ProcTyped'
      BY <1>4 DEF Moves, ProcTyped
<1>   QED BY <1>4, <1>5, TypeParts, TypePartsPrimed DEF ScheduledRead, auxVars, JobsTyped

LEMMA ScheduledWriteStep ==
    ASSUME TypeOK, NEW h \in Handlers, ScheduledWrite(h)
    PROVE  /\ TypeOK' /\ faults' = faults
           /\ \/ Moves(h, "idle") /\ target' = target
              \/ Moves(h, "send") /\ target'.status = "QUEUED"
<1>1. h \in Procs /\ ProcTyped /\ JobsTyped /\ proc[h].count \in Nat /\ "send" \in Labels
      BY TypeParts DEF Procs, ProcTyped, ProcType, Labels
<1>2. CASE Goto(h, "send") /\ Queued(proc[h].count, "unsent")
           /\ target' = [target EXCEPT !.status = "QUEUED"]
  <2>1. JobsTyped'
        BY <1>1, <1>2, QueuedType
  <2>2. target' \in TargetType /\ target'.status = "QUEUED"
        BY <1>2, StatusWrite, TypeParts DEF Statuses, TargetType
  <2>3. Moves(h, "send")
        BY <1>1, <1>2, GotoMoves
  <2>   QED BY <2>1, <2>2, <2>3, TypeParts, TypePartsPrimed
           DEF ScheduledWrite, auxVars, Moves, ProcTyped
<1>3. CASE Ends(h) /\ UNCHANGED <<jobs, target>>
  <2>1. Moves(h, "idle")
        BY <1>1, <1>3, EndsMoves
  <2>   QED BY <1>3, <2>1, TypeParts, TypePartsPrimed
           DEF ScheduledWrite, auxVars, Moves, ProcTyped, JobsTyped
<1>   QED BY <1>2, <1>3 DEF ScheduledWrite

LEMMA ScheduledAddStep ==
    ASSUME TypeOK, NEW h \in Handlers, ScheduledAdd(h)
    PROVE  TypeOK' /\ FaultsKept /\ Moves(h, "idle")
<1>1. h \in Procs /\ JobsTyped /\ proc[h].count \in Nat
      BY TypeParts DEF Procs, ProcTyped, ProcType
<1>2. JobsTyped'
      BY <1>1, QueuedType DEF ScheduledAdd
<1>3. FaultsKept
      BY FaultType, TypeParts DEF ScheduledAdd, FaultsKept
<1>4. Moves(h, "idle")
      BY <1>1, EndsMoves, TypeParts DEF ScheduledAdd
<1>   QED BY <1>2, <1>3, <1>4, TypeParts, TypePartsPrimed
         DEF ScheduledAdd, auxVars, FaultsKept, Moves, ProcTyped

LEMMA DeliverStep ==
    ASSUME TypeOK, NEW h \in Handlers, NEW g \in DOMAIN jobs, Deliver(h, g)
    PROVE  TypeOK' /\ faults' = faults /\ Moves(h, "read")
<1>1. h \in Procs /\ "read" \in Labels /\ JobsTyped
      BY TypeParts DEF Procs, Labels
<1>2. [state |-> "active", tries |-> jobs[g].tries + 1, by |-> h] \in JobType
      BY <1>1 DEF JobsTyped, JobType
<1>3. JobsTyped'
      BY <1>1, <1>2 DEF Deliver, JobsTyped
<1>4. Moves(h, "read")
      BY <1>1, GotoMoves, TypeParts DEF Deliver
<1>   QED BY <1>3, <1>4, TypeParts, TypePartsPrimed DEF Deliver, auxVars, Moves, ProcTyped

\* A step to the report of a verdict.
LEMMA ReportMoves ==
    ASSUME TypeOK, NEW h \in Procs, NEW verdict \in Verdicts,
           proc' = [proc EXCEPT ![h].pc = "report", ![h].verdict = verdict]
    PROVE  Moves(h, "report")
<1>1. ProcTyped /\ "report" \in Labels
      BY TypeParts DEF Labels
<1>2. /\ [proc[h] EXCEPT !.pc = "report", !.verdict = verdict] \in ProcType
      /\ [proc[h] EXCEPT !.pc = "report", !.verdict = verdict].pc = "report"
      /\ [proc[h] EXCEPT !.pc = "report", !.verdict = verdict].late = proc[h].late
      BY <1>1 DEF ProcType, ProcTyped
<1>3. proc' = [proc EXCEPT ![h] = [proc[h] EXCEPT !.pc = "report", !.verdict = verdict]]
      OBVIOUS
<1>   QED BY <1>1, <1>2, <1>3 DEF ProcTyped, Moves

LEMMA ReadTargetStep ==
    ASSUME TypeOK, NEW h \in Handlers, ReadTarget(h)
    PROVE  /\ TypeOK' /\ faults' = faults
           /\ \/ Moves(h, "report")
              \/ target.status # "CANCELLED" /\ (Moves(h, "prepare") \/ Moves(h, "start"))
<1>1. h \in Procs /\ ProcTyped /\ {"prepare", "start"} \subseteq Labels /\ "permanent" \in Verdicts
      BY TypeParts DEF Procs, Labels, Verdicts
<1>2. \/ Moves(h, "report")
      \/ target.status # "CANCELLED" /\ (Moves(h, "prepare") \/ Moves(h, "start"))
      BY <1>1, GotoMoves, ReportMoves DEF ReadTarget
<1>3. ProcTyped'
      BY <1>2 DEF Moves, ProcTyped
<1>   QED BY <1>2, <1>3, TypeParts, TypePartsPrimed DEF ReadTarget, auxVars, JobsTyped

LEMMA PrepareStep ==
    ASSUME TypeOK, NEW h \in Handlers, Prepare(h)
    PROVE  TypeOK' /\ faults' = faults /\ Moves(h, "start") /\ target'.status = "QUEUED"
<1>1. h \in Procs /\ "start" \in Labels /\ target.retryCount + 1 \in Nat
      BY TypeParts DEF Procs, Labels, TargetType
<1>2. target' \in TargetType
      BY <1>1, RetryWrite DEF Prepare
<1>3. target'.status = "QUEUED"
      BY TypeParts DEF Prepare, TargetType
<1>4. Moves(h, "start")
      BY <1>1, GotoMoves, TypeParts DEF Prepare
<1>   QED BY <1>2, <1>3, <1>4, TypeParts, TypePartsPrimed
         DEF Prepare, auxVars, Moves, ProcTyped, JobsTyped

LEMMA StartStep ==
    ASSUME TypeOK, NEW h \in Handlers, Start(h)
    PROVE  TypeOK' /\ faults' = faults /\ Moves(h, "check")
<1>1. h \in Procs /\ "check" \in Labels
      BY DEF Procs, Labels
<1>2. target' \in TargetType
      BY StatusWrite DEF Start, Statuses
<1>3. Moves(h, "check")
      BY <1>1, GotoMoves, TypeParts DEF Start
<1>   QED BY <1>2, <1>3, TypeParts, TypePartsPrimed
         DEF Start, auxVars, Moves, ProcTyped, JobsTyped

LEMMA CheckStep ==
    ASSUME TypeOK, NEW h \in Handlers, Check(h)
    PROVE  TypeOK' /\ faults' = faults /\ (Moves(h, "load") \/ Moves(h, "fail"))
<1>1. h \in Procs /\ "load" \in Labels /\ "other" \in Errors /\ "permanent" \in Verdicts
      BY DEF Procs, Labels, Errors, Verdicts
<1>2. Moves(h, "load") \/ Moves(h, "fail")
      BY <1>1, GotoMoves, FailingMoves, TypeParts DEF Check, NotReady
<1>3. ProcTyped'
      BY <1>2 DEF Moves, ProcTyped
<1>   QED BY <1>2, <1>3, TypeParts, TypePartsPrimed DEF Check, auxVars, JobsTyped

\* A loaded checkpoint lets an execution go on only if it marks no attempt.
LEMMA LoadStep ==
    ASSUME TypeOK, NEW h \in Handlers, Load(h)
    PROVE  /\ TypeOK' /\ faults' = faults
           /\ \/ Moves(h, "fail")
              \/ checkpoint # "ATTEMPTED" /\ (Moves(h, "session") \/ Moves(h, "mark"))
<1>1. /\ h \in Procs /\ {"session", "mark"} \subseteq Labels
      /\ {"unknown", "unrecoverable"} \subseteq Errors /\ "permanent" \in Verdicts
      BY DEF Procs, Labels, Errors, Verdicts
<1>2. ASSUME FreshStart(h) PROVE Moves(h, "session") \/ Moves(h, "mark")
      BY <1>1, <1>2, GotoMoves, TypeParts DEF FreshStart
<1>3. \/ Moves(h, "fail")
      \/ checkpoint # "ATTEMPTED" /\ (Moves(h, "session") \/ Moves(h, "mark"))
      BY <1>1, <1>2, FailingMoves, TypeParts DEF Load, LoadedCheckpoint
<1>4. ProcTyped' /\ overlapped' \in {"yes", "no"}
      BY <1>3, TypeParts DEF Moves, ProcTyped, Load
<1>   QED BY <1>3, <1>4, TypeParts, TypePartsPrimed DEF Load, JobsTyped

LEMMA ProviderMoves ==
    ASSUME TypeOK, NEW h \in Procs, ProviderFails(h)
    PROVE  Moves(h, "fail")
<1>1. ProcTyped /\ "other" \in Errors /\ {"retryable", "permanent"} \subseteq Verdicts
      BY TypeParts DEF Errors, Verdicts
<1>   QED BY <1>1, FailingMoves DEF ProviderFails

LEMMA OpenSessionStep ==
    ASSUME TypeOK, NEW h \in Handlers, OpenSession(h)
    PROVE  /\ TypeOK' /\ faults' = faults
           /\ \/ Moves(h, "fail") /\ checkpoint' = checkpoint
              \/ Moves(h, "mark") /\ checkpoint' = "UPLOAD_SESSION"
<1>1. h \in Procs /\ "mark" \in Labels
      BY DEF Procs, Labels
<1>2. \/ Moves(h, "fail") /\ checkpoint' = checkpoint
      \/ Moves(h, "mark") /\ checkpoint' = "UPLOAD_SESSION"
      BY <1>1, GotoMoves, ProviderMoves, TypeParts DEF OpenSession
<1>3. ProcTyped'
      BY <1>2 DEF Moves, ProcTyped
<1>   QED BY <1>2, <1>3, TypeParts, TypePartsPrimed DEF OpenSession, auxVars, JobsTyped

LEMMA MarkAttemptStep ==
    ASSUME TypeOK, NEW h \in Handlers, MarkAttempt(h)
    PROVE  /\ TypeOK' /\ faults' = faults
           /\ \/ Moves(h, "fail") /\ checkpoint' = checkpoint
              \/ Moves(h, "post") /\ checkpoint' = "ATTEMPTED"
<1>1. h \in Procs /\ "post" \in Labels
      BY DEF Procs, Labels
<1>2. \/ Moves(h, "fail") /\ checkpoint' = checkpoint
      \/ Moves(h, "post") /\ checkpoint' = "ATTEMPTED"
      BY <1>1, GotoMoves, ProviderMoves, TypeParts DEF MarkAttempt, SaveMark
<1>3. ProcTyped' /\ confirmed' \in {"yes", "no"}
      BY <1>2, TypeParts DEF Moves, ProcTyped, MarkAttempt
<1>   QED BY <1>2, <1>3, TypeParts, TypePartsPrimed DEF MarkAttempt, JobsTyped

LEMMA PostStep ==
    ASSUME TypeOK, NEW h \in Handlers, Post(h)
    PROVE  /\ TypeOK' /\ faults' = faults /\ posts' \in {posts, posts + 1}
           /\ Moves(h, "fail") \/ Moves(h, "complete")
<1>1. h \in Procs /\ "complete" \in Labels
      BY DEF Procs, Labels
<1>2. Moves(h, "fail") \/ Moves(h, "complete")
      BY <1>1, GotoMoves, ProviderMoves, TypeParts DEF Post
<1>3. ProcTyped' /\ posts' \in {posts, posts + 1}
      BY <1>2 DEF Moves, ProcTyped, Post
<1>4. posts' \in Nat
      BY <1>3, TypeParts
<1>   QED BY <1>2, <1>3, <1>4, TypeParts, TypePartsPrimed DEF Post, auxVars, JobsTyped

LEMMA CompleteStep ==
    ASSUME TypeOK, NEW h \in Handlers, Complete(h)
    PROVE  /\ TypeOK' /\ FaultsKept
           /\ \/ Moves(h, "report") /\ target'.status = "PUBLISHED"
              \/ Moves(h, "fail") /\ target' = target
<1>1. /\ h \in Procs /\ ProcTyped
      /\ "other" \in Errors /\ {"success", "retryable"} \subseteq Verdicts
      BY TypeParts DEF Procs, Errors, Verdicts
<1>2. CASE /\ target' = [target EXCEPT !.status = "PUBLISHED"] /\ UNCHANGED faults
           /\ proc' = [proc EXCEPT ![h].pc = "report", ![h].verdict = "success"]
  <2>1. target' \in TargetType /\ target'.status = "PUBLISHED"
        BY <1>2, StatusWrite, TypeParts DEF Statuses, TargetType
  <2>2. Moves(h, "report")
        BY <1>1, <1>2, ReportMoves
  <2>   QED BY <1>2, <2>1, <2>2, TypeParts, TypePartsPrimed
           DEF Complete, auxVars, Moves, ProcTyped, JobsTyped, FaultsKept
<1>3. CASE Fault("db") /\ Failing(h, "other", "retryable") /\ UNCHANGED target
  <2>1. Moves(h, "fail") /\ FaultsKept
        BY <1>1, <1>3, FailingMoves, FaultType, TypeParts
  <2>   QED BY <1>3, <2>1, TypeParts, TypePartsPrimed
           DEF Complete, auxVars, Moves, ProcTyped, JobsTyped, FaultsKept
<1>   QED BY <1>2, <1>3 DEF Complete

LEMMA FailTargetStep ==
    ASSUME TypeOK, NEW h \in Handlers, FailTarget(h)
    PROVE  TypeOK' /\ faults' = faults /\ Moves(h, "report") /\ target'.status = "FAILED"
<1>1. /\ h \in Procs /\ ProcTyped /\ proc[h] \in ProcType /\ proc[h].error \in Errors
      /\ target \in TargetType /\ "report" \in Labels /\ "none" \in Errors
      BY TypeParts DEF Procs, ProcTyped, ProcType, Labels, Errors
<1>2. target' \in TargetType
      BY <1>1, ErrorWrite DEF FailTarget
<1>3. target'.status = "FAILED"
      BY <1>1 DEF FailTarget, TargetType
<1>4. /\ [proc[h] EXCEPT !.pc = "report", !.error = "none"] \in ProcType
      /\ [proc[h] EXCEPT !.pc = "report", !.error = "none"].pc = "report"
      /\ [proc[h] EXCEPT !.pc = "report", !.error = "none"].late = proc[h].late
      BY <1>1 DEF ProcType
<1>5. proc' = [proc EXCEPT ![h] = [proc[h] EXCEPT !.pc = "report", !.error = "none"]]
      BY DEF FailTarget, Idle
<1>6. Moves(h, "report")
      BY <1>1, <1>4, <1>5 DEF ProcTyped, Moves
<1>   QED BY <1>2, <1>3, <1>6, TypeParts, TypePartsPrimed
         DEF FailTarget, auxVars, Moves, ProcTyped, JobsTyped

LEMMA ReportStep ==
    ASSUME TypeOK, NEW h \in Handlers, Report(h)
    PROVE  TypeOK' /\ faults' = faults /\ Moves(h, "idle")
<1>1. h \in Procs /\ JobsTyped
      BY TypeParts DEF Procs
<1>2. JobsTyped'
      BY <1>1, EndAttemptType DEF Report
<1>3. Moves(h, "idle")
      BY <1>1, EndsMoves, TypeParts DEF Report
<1>   QED BY <1>2, <1>3, TypeParts, TypePartsPrimed DEF Report, auxVars, Moves, ProcTyped

LEMMA ThrowStep ==
    ASSUME TypeOK, NEW h \in Handlers, Throw(h)
    PROVE  TypeOK' /\ FaultsKept /\ faults' > 0 /\ Moves(h, "report")
<1>1. h \in Procs /\ "retryable" \in Verdicts
      BY DEF Procs, Verdicts
<1>2. FaultsKept /\ faults' > 0
      BY FaultType, TypeParts DEF Throw
<1>3. Moves(h, "report")
      BY <1>1, ReportMoves DEF Throw
<1>   QED BY <1>2, <1>3, TypeParts, TypePartsPrimed
         DEF Throw, auxVars, Moves, ProcTyped, JobsTyped, FaultsKept

LEMMA TimeoutStep ==
    ASSUME TypeOK, NEW h \in Handlers, Timeout(h)
    PROVE  TypeOK' /\ FaultsKept /\ faults' > 0 /\ proc' = proc
<1>1. FaultsKept /\ faults' > 0
      BY FaultType, TypeParts DEF Timeout
<1>2. JobsTyped'
      BY EndAttemptType, TypeParts DEF Timeout
<1>   QED BY <1>1, <1>2, TypeParts, TypePartsPrimed DEF Timeout, auxVars, ProcTyped, FaultsKept

LEMMA CrashStep ==
    ASSUME TypeOK, NEW p \in Procs, Crash(p)
    PROVE  TypeOK' /\ FaultsKept /\ faults' > 0 /\ Moves(p, "idle")
<1>1. FaultsKept /\ faults' > 0
      BY FaultType, TypeParts DEF Crash
<1>2. JobsTyped'
      BY EndAttemptType, TypeParts DEF Crash
<1>3. Moves(p, "idle")
      BY EndsMoves, TypeParts DEF Crash
<1>   QED BY <1>1, <1>2, <1>3, TypeParts, TypePartsPrimed
         DEF Crash, auxVars, Moves, ProcTyped, FaultsKept

-----------------------------------------------------------------------------
(* The type invariant *)

\* No step takes the state out of its types.
LEMMA StepType == TypeOK /\ [Next]_vars => TypeOK'
<1>   SUFFICES ASSUME TypeOK, [Next]_vars PROVE TypeOK'
      OBVIOUS
<1>1. ASSUME NEW c \in Clients,
             DispatchRead(c) \/ CancelRead(c) \/ MarkRead(c) \/ ConfirmRead(c)
      PROVE  TypeOK'
  <2>1. {"dispatch", "cancel", "markPublished", "confirm"} \subseteq Labels
        BY DEF Labels
  <2>   QED BY <1>1, <2>1, RequestStep DEF DispatchRead, CancelRead, MarkRead, ConfirmRead
<1>2. ASSUME NEW c \in Clients, ClientStep(c) PROVE TypeOK'
      BY <1>2, DispatchWriteStep, EnqueueStep, CancelWriteStep, ReconcileStep DEF ClientStep
<1>3. ASSUME NEW g \in DOMAIN jobs, RetryJob(g) \/ \E h \in Handlers : Deliver(h, g)
      PROVE  TypeOK'
      BY <1>3, RetryJobStep, DeliverStep
<1>4. CASE ScheduleFires
      BY <1>4, ScheduleStep
<1>5. ASSUME NEW h \in Handlers, HandlerStep(h) PROVE TypeOK'
      BY <1>5, ScheduledReadStep, ScheduledWriteStep, ScheduledAddStep, ReadTargetStep,
         PrepareStep, StartStep, CheckStep, LoadStep, OpenSessionStep, MarkAttemptStep,
         PostStep, CompleteStep, FailTargetStep, ReportStep DEF HandlerStep
<1>6. ASSUME NEW h \in Handlers, TakeTicket(h) \/ Throw(h) \/ Timeout(h) PROVE TypeOK'
      BY <1>6, TakeTicketStep, ThrowStep, TimeoutStep
<1>7. ASSUME NEW p \in Procs, Crash(p) PROVE TypeOK'
      BY <1>7, CrashStep
<1>8. CASE UNCHANGED vars
      BY <1>8, TypeParts, TypePartsPrimed DEF vars, auxVars, ProcTyped, JobsTyped
<1>   QED BY <1>1, <1>2, <1>3, <1>4, <1>5, <1>6, <1>7, <1>8 DEF Next

\* Every reachable state is well typed, whatever the processes and the bounds.
THEOREM TypeCorrect == Spec => []TypeOK
BY InitType, StepType, PTL DEF Spec

-----------------------------------------------------------------------------
(* At most one post. While executions have not overlapped, one execution at  *)
(* most holds a checkpoint it loaded; until it marks its attempt no other     *)
(* attempt was marked and nothing is posted; and what is posted is marked.    *)

Alone ==
    \A a, b \in Handlers : proc[a].pc \in Loaded /\ proc[b].pc \in Loaded => a = b
Unmarked ==
    \A h \in Handlers : proc[h].pc \in {"session", "mark"} => checkpoint # "ATTEMPTED"
Unposted == \A h \in Handlers : proc[h].pc \in Loaded => posts = 0
PostedIsMarked == posts = 0 \/ checkpoint = "ATTEMPTED"
PostIsMarked == \A h \in Handlers : proc[h].pc = "post" => checkpoint = "ATTEMPTED"

PostInv ==
    overlapped # "yes" => Alone /\ Unmarked /\ Unposted /\ PostedIsMarked /\ PostIsMarked
                          /\ posts <= 1

LEMMA InitPost == Init => PostInv
BY DEF Init, PostInv, Alone, Unmarked, Unposted, PostedIsMarked, PostIsMarked, Idle, Loaded, Procs

\* A step that touches neither posts nor checkpoint, and lets no handler load one.
LEMMA QuietStep ==
    ASSUME PostInv, UNCHANGED <<checkpoint, posts, overlapped>>,
           \A h \in Handlers : proc'[h].pc \in Loaded => proc'[h].pc = proc[h].pc
    PROVE  PostInv'
BY DEF PostInv, Alone, Unmarked, Unposted, PostedIsMarked, PostIsMarked, Loaded

LEMMA QuietMove ==
    ASSUME PostInv, UNCHANGED <<checkpoint, posts, overlapped>>,
           NEW p \in Procs, NEW label, Moves(p, label), label \notin Loaded
    PROVE  PostInv'
<1>1. \A h \in Handlers : proc'[h].pc \in Loaded => proc'[h].pc = proc[h].pc
      BY DEF Moves, Procs
<1>   QED BY <1>1, QuietStep

\* An execution takes up a checkpoint: if no other holds one, it is alone with it.
LEMMA LoadPost ==
    ASSUME TypeOK, PostInv, NEW h \in Handlers, Load(h)
    PROVE  PostInv'
<1>1. h \in Procs /\ UNCHANGED <<checkpoint, posts>>
      BY DEF Procs, Load
<1>2. CASE Moves(h, "fail")
  <2>1. \A a \in Handlers : proc'[a].pc \in Loaded => proc'[a].pc = proc[a].pc
        BY <1>2 DEF Moves, Procs, Loaded
  <2>2. overlapped' # "yes" => overlapped # "yes"
        BY DEF Load
  <2>   QED BY <1>1, <2>1, <2>2
           DEF PostInv, Alone, Unmarked, Unposted, PostedIsMarked, PostIsMarked, Loaded
<1>3. CASE checkpoint # "ATTEMPTED" /\ (Moves(h, "session") \/ Moves(h, "mark"))
  <2>   SUFFICES ASSUME overlapped' # "yes" PROVE PostInv'
        BY DEF PostInv
  <2>1. overlapped # "yes" /\ \A a \in Handlers \ {h} : proc[a].pc \notin Loaded
        BY DEF Load
  <2>2. \A a \in Handlers \ {h} : proc'[a].pc \notin Loaded
        BY <1>3, <2>1 DEF Moves, Procs
  <2>3. proc'[h].pc # "post" /\ posts' = 0 /\ checkpoint' # "ATTEMPTED"
        BY <1>1, <1>3, <2>1 DEF Moves, PostInv, PostedIsMarked
  <2>   QED BY <2>2, <2>3
           DEF PostInv, Alone, Unmarked, Unposted, PostedIsMarked, PostIsMarked, Loaded
<1>   QED BY <1>2, <1>3, LoadStep

\* The execution that holds the checkpoint rewrites it, then posts.
LEMMA HolderPost ==
    ASSUME TypeOK, PostInv, NEW h \in Handlers,
           OpenSession(h) \/ MarkAttempt(h) \/ Post(h)
    PROVE  PostInv'
<1>   SUFFICES ASSUME overlapped' # "yes" PROVE PostInv'
      BY DEF PostInv
<1>1. h \in Procs /\ overlapped # "yes" /\ proc[h].pc \in Loaded
      BY DEF Procs, OpenSession, MarkAttempt, Post, auxVars, At, Loaded
<1>2. \A a \in Handlers \ {h} : proc[a].pc \notin Loaded
      BY <1>1 DEF PostInv, Alone
<1>3. posts = 0
      BY <1>1 DEF PostInv, Unposted
<1>4. CASE OpenSession(h)
  <2>1. posts' = 0
        BY <1>3, <1>4 DEF OpenSession
  <2>2. checkpoint # "ATTEMPTED"
        BY <1>1, <1>4 DEF OpenSession, At, PostInv, Unmarked
  <2>3. checkpoint' # "ATTEMPTED" /\ (Moves(h, "fail") \/ Moves(h, "mark"))
        BY <1>4, <2>2, OpenSessionStep
  <2>4. \A a \in Handlers \ {h} : proc'[a].pc \notin Loaded
        BY <1>2, <2>3 DEF Moves, Procs
  <2>   QED BY <2>1, <2>3, <2>4
           DEF Moves, PostInv, Alone, Unmarked, Unposted, PostedIsMarked, PostIsMarked, Loaded
<1>5. CASE MarkAttempt(h)
  <2>1. posts' = 0
        BY <1>3, <1>5 DEF MarkAttempt
  <2>2. \/ Moves(h, "fail")
        \/ Moves(h, "post") /\ checkpoint' = "ATTEMPTED"
        BY <1>5, MarkAttemptStep
  <2>3. \A a \in Handlers \ {h} : proc'[a].pc \notin Loaded
        BY <1>2, <2>2 DEF Moves, Procs
  <2>   QED BY <2>1, <2>2, <2>3
           DEF Moves, PostInv, Alone, Unmarked, Unposted, PostedIsMarked, PostIsMarked, Loaded
<1>6. CASE Post(h)
  <2>1. checkpoint' = "ATTEMPTED"
        BY <1>1, <1>6 DEF Post, At, PostInv, PostIsMarked
  <2>2. posts' <= 1 /\ (Moves(h, "fail") \/ Moves(h, "complete"))
        BY <1>3, <1>6, PostStep
  <2>3. \A a \in Handlers : proc'[a].pc \notin Loaded
        BY <1>2, <2>2 DEF Moves, Procs, Loaded
  <2>   QED BY <2>1, <2>2, <2>3
           DEF PostInv, Alone, Unmarked, Unposted, PostedIsMarked, PostIsMarked, Loaded
<1>   QED BY <1>4, <1>5, <1>6

LEMMA StepPost == TypeOK /\ PostInv /\ [Next]_vars => PostInv'
<1>   SUFFICES ASSUME TypeOK, PostInv, [Next]_vars PROVE PostInv'
      OBVIOUS
<1>1. ASSUME NEW c \in Clients,
             DispatchRead(c) \/ CancelRead(c) \/ MarkRead(c) \/ ConfirmRead(c)
      PROVE  PostInv'
  <2>1. \E label \in {"dispatch", "cancel", "markPublished", "confirm"} : Request(c, label)
        BY <1>1 DEF DispatchRead, CancelRead, MarkRead, ConfirmRead
  <2>2. PICK label \in {"dispatch", "cancel", "markPublished", "confirm"} : Request(c, label)
        BY <2>1
  <2>3. UNCHANGED <<checkpoint, posts, overlapped>>
        BY <2>2 DEF Request
  <2>4. label \in Labels /\ label \notin Loaded
        BY DEF Labels, Loaded
  <2>5. Moves(c, label)
        BY <2>2, <2>4, RequestStep
  <2>   QED BY <2>3, <2>4, <2>5, QuietMove DEF Procs
<1>2. ASSUME NEW c \in Clients, ClientStep(c) PROVE PostInv'
  <2>1. UNCHANGED <<checkpoint, posts, overlapped>> /\ c \in Procs
        BY <1>2 DEF ClientStep, DispatchWrite, Enqueue, CancelWrite, MarkWrite, ConfirmWrite,
                    auxVars, Procs
  <2>2. CASE CancelWrite(c)
        BY <2>1, <2>2, CancelWriteStep, QuietStep
  <2>3. CASE DispatchWrite(c) \/ Enqueue(c) \/ MarkWrite(c) \/ ConfirmWrite(c)
    <3>1. Moves(c, "enqueue") \/ Moves(c, "idle")
          BY <2>3, DispatchWriteStep, EnqueueStep, ReconcileStep
    <3>   QED BY <2>1, <3>1, QuietMove DEF Loaded
  <2>   QED BY <1>2, <2>2, <2>3 DEF ClientStep
<1>3. ASSUME NEW g \in DOMAIN jobs, RetryJob(g) PROVE PostInv'
      BY <1>3, RetryJobStep, QuietStep DEF RetryJob
<1>4. ASSUME NEW g \in DOMAIN jobs, NEW h \in Handlers, Deliver(h, g) PROVE PostInv'
      BY <1>4, DeliverStep, QuietMove DEF Deliver, auxVars, Procs, Loaded
<1>5. CASE ScheduleFires
      BY <1>5, ScheduleStep, QuietStep DEF ScheduleFires
<1>6. ASSUME NEW h \in Handlers, HandlerStep(h) PROVE PostInv'
  <2>1. CASE Load(h)
        BY <2>1, LoadPost
  <2>2. CASE OpenSession(h) \/ MarkAttempt(h) \/ Post(h)
        BY <2>2, HolderPost
  <2>3. CASE ScheduledRead(h) \/ ScheduledWrite(h) \/ ScheduledAdd(h) \/ Report(h)
    <3>1. Moves(h, "idle") \/ Moves(h, "queue") \/ Moves(h, "send")
          BY <2>3, ScheduledReadStep, ScheduledWriteStep, ScheduledAddStep, ReportStep
    <3>2. UNCHANGED <<checkpoint, posts, overlapped>>
          BY <2>3 DEF ScheduledRead, ScheduledWrite, ScheduledAdd, Report, auxVars
    <3>   QED BY <3>1, <3>2, QuietMove DEF Procs, Loaded
  <2>4. CASE ReadTarget(h) \/ Prepare(h) \/ Start(h) \/ Check(h)
    <3>1. \E label \in {"report", "prepare", "start", "check", "load", "fail"} : Moves(h, label)
          BY <2>4, ReadTargetStep, PrepareStep, StartStep, CheckStep
    <3>2. UNCHANGED <<checkpoint, posts, overlapped>>
          BY <2>4 DEF ReadTarget, Prepare, Start, Check, auxVars
    <3>   QED BY <3>1, <3>2, QuietMove DEF Procs, Loaded
  <2>5. CASE Complete(h) \/ FailTarget(h)
    <3>1. Moves(h, "report") \/ Moves(h, "fail")
          BY <2>5, CompleteStep, FailTargetStep
    <3>2. UNCHANGED <<checkpoint, posts, overlapped>>
          BY <2>5 DEF Complete, FailTarget, auxVars
    <3>   QED BY <3>1, <3>2, QuietMove DEF Procs, Loaded
  <2>   QED BY <1>6, <2>1, <2>2, <2>3, <2>4, <2>5 DEF HandlerStep
<1>7. ASSUME NEW h \in Handlers, TakeTicket(h) \/ Throw(h) PROVE PostInv'
      BY <1>7, TakeTicketStep, ThrowStep, QuietMove DEF TakeTicket, Throw, auxVars, Procs, Loaded
<1>8. ASSUME NEW h \in Handlers, Timeout(h) PROVE PostInv'
      BY <1>8, TimeoutStep, QuietStep DEF Timeout, auxVars
<1>9. ASSUME NEW p \in Procs, Crash(p) PROVE PostInv'
      BY <1>9, CrashStep, QuietMove DEF Crash, auxVars, Loaded
<1>10. CASE UNCHANGED vars
      BY <1>10 DEF vars, auxVars, PostInv, Alone, Unmarked, Unposted, PostedIsMarked, PostIsMarked
<1>   QED BY <1>1, <1>2, <1>3, <1>4, <1>5, <1>6, <1>7, <1>8, <1>9, <1>10 DEF Next

\* However often a target is retried, the page gets at most one post of it, as
\* long as no two executions hold its checkpoint at once.
THEOREM AtMostOnePost == Spec => []SinglePost
<1>1. TypeOK /\ PostInv => SinglePost
      BY TypeParts DEF PostInv, SinglePost
<1>   QED BY <1>1, InitType, InitPost, StepType, StepPost, PTL DEF Spec

-----------------------------------------------------------------------------
(* PUBLISHING is owned: whatever takes an execution from its work either      *)
(* writes an outcome or is a fault.                                          *)

LEMMA OwnedKept ==
    ASSUME TypeOK, PublishingIsOwned, FaultsKept,
           target'.status = "PUBLISHING" => target.status = "PUBLISHING",
           \A h \in Handlers : proc[h].pc \in Working => proc'[h].pc \in Working
    PROVE  PublishingIsOwned'
<1>1. faults > 0 => faults' > 0
      BY TypeParts DEF FaultsKept
<1>   QED BY <1>1 DEF PublishingIsOwned

\* The move of a process that is not at work on the target.
LEMMA OwnedMove ==
    ASSUME TypeOK, PublishingIsOwned, FaultsKept,
           target'.status = "PUBLISHING" => target.status = "PUBLISHING",
           NEW p \in Procs, p \in Clients \/ proc[p].pc \notin Working,
           NEW label, Moves(p, label)
    PROVE  PublishingIsOwned'
<1>1. \A h \in Handlers : proc[h].pc \in Working => proc'[h].pc \in Working
      BY DEF Moves, Procs
<1>   QED BY <1>1, OwnedKept

LEMMA OwnedByFault ==
    ASSUME faults' > 0 PROVE PublishingIsOwned'
BY DEF PublishingIsOwned

\* An execution that is, or stays, at work.
LEMMA OwnedByHandler ==
    ASSUME NEW h \in Handlers, NEW label \in Working, Moves(h, label)
    PROVE  PublishingIsOwned'
BY DEF Moves, PublishingIsOwned

LEMMA StepOwned == TypeOK /\ PublishingIsOwned /\ [Next]_vars => PublishingIsOwned'
<1>   SUFFICES ASSUME TypeOK, PublishingIsOwned, [Next]_vars PROVE PublishingIsOwned'
      OBVIOUS
<1>a. target \in TargetType /\ (faults' = faults => FaultsKept)
      BY TypeParts DEF FaultsKept
<1>1. ASSUME NEW c \in Clients,
             DispatchRead(c) \/ CancelRead(c) \/ MarkRead(c) \/ ConfirmRead(c)
      PROVE  PublishingIsOwned'
  <2>1. PICK label \in {"dispatch", "cancel", "markPublished", "confirm"} : Request(c, label)
        BY <1>1 DEF DispatchRead, CancelRead, MarkRead, ConfirmRead
  <2>2. label \in Labels
        BY DEF Labels
  <2>3. Moves(c, label) /\ FaultsKept /\ target' = target
        BY <1>a, <2>1, <2>2, RequestStep DEF Request
  <2>   QED BY <2>3, OwnedMove DEF Procs
<1>2. ASSUME NEW c \in Clients, DispatchWrite(c) \/ Enqueue(c) \/ MarkWrite(c) \/ ConfirmWrite(c)
      PROVE  PublishingIsOwned'
  <2>1. FaultsKept /\ (Moves(c, "enqueue") \/ Moves(c, "idle"))
        BY <1>2, <1>a, DispatchWriteStep, EnqueueStep, ReconcileStep DEF DispatchWrite
  <2>2. target'.status = "PUBLISHING" => target.status = "PUBLISHING"
        BY <1>2, <1>a DEF DispatchWrite, Enqueue, MarkWrite, ConfirmWrite, ConfirmedTarget, TargetType
  <2>   QED BY <2>1, <2>2, OwnedMove DEF Procs
<1>3. ASSUME NEW c \in Clients, CancelWrite(c) PROVE PublishingIsOwned'
  <2>1. target'.status = "CANCELLED"
        BY <1>3, <1>a DEF CancelWrite, TargetType
  <2>   QED BY <2>1 DEF PublishingIsOwned
<1>4. ASSUME NEW g \in DOMAIN jobs, RetryJob(g) PROVE PublishingIsOwned'
      BY <1>4, <1>a, RetryJobStep, OwnedKept DEF RetryJob
<1>5. ASSUME NEW g \in DOMAIN jobs, NEW h \in Handlers, Deliver(h, g) PROVE PublishingIsOwned'
      BY <1>5, <1>a, DeliverStep, OwnedMove DEF Deliver, At, Procs, Working, Loaded
<1>6. CASE ScheduleFires
      BY <1>6, <1>a, ScheduleStep, OwnedKept DEF ScheduleFires
<1>7. ASSUME NEW h \in Handlers, HandlerStep(h) PROVE PublishingIsOwned'
  <2>1. CASE ScheduledRead(h) \/ ScheduledWrite(h) \/ ScheduledAdd(h)
    <3>1. FaultsKept /\ (Moves(h, "idle") \/ Moves(h, "queue") \/ Moves(h, "send"))
          BY <2>1, <1>a, ScheduledReadStep, ScheduledWriteStep, ScheduledAddStep
    <3>2. proc[h].pc \notin Working
          BY <2>1 DEF ScheduledRead, ScheduledWrite, ScheduledAdd, At, Working, Loaded
    <3>3. target'.status = "PUBLISHING" => target.status = "PUBLISHING"
          BY <2>1, <1>a DEF ScheduledRead, ScheduledWrite, ScheduledAdd, TargetType
    <3>   QED BY <3>1, <3>2, <3>3, OwnedMove DEF Procs
  <2>2. CASE ReadTarget(h) \/ Prepare(h) \/ Report(h)
    <3>1. FaultsKept /\ (\/ Moves(h, "report") \/ Moves(h, "prepare")
                         \/ Moves(h, "start") \/ Moves(h, "idle"))
          BY <2>2, <1>a, ReadTargetStep, PrepareStep, ReportStep
    <3>2. proc[h].pc \notin Working
          BY <2>2 DEF ReadTarget, Prepare, Report, At, Working, Loaded
    <3>3. target'.status = "PUBLISHING" => target.status = "PUBLISHING"
          BY <2>2, <1>a DEF ReadTarget, Prepare, Report, TargetType
    <3>   QED BY <3>1, <3>2, <3>3, OwnedMove DEF Procs
  <2>3. CASE \/ Start(h) \/ Check(h) \/ Load(h)
             \/ OpenSession(h) \/ MarkAttempt(h) \/ Post(h)
    <3>1. \E label \in Working : Moves(h, label)
          BY <2>3, StartStep, CheckStep, LoadStep, OpenSessionStep, MarkAttemptStep, PostStep
             DEF Working, Loaded
    <3>   QED BY <3>1, OwnedByHandler
  <2>4. CASE Complete(h) \/ FailTarget(h)
    <3>1. \/ target'.status \in {"PUBLISHED", "FAILED"}
          \/ Moves(h, "fail")
          BY <2>4, CompleteStep, FailTargetStep
    <3>2. CASE target'.status \in {"PUBLISHED", "FAILED"}
          BY <3>2 DEF PublishingIsOwned
    <3>   QED BY <3>1, <3>2, OwnedByHandler DEF Working
  <2>   QED BY <1>7, <2>1, <2>2, <2>3, <2>4 DEF HandlerStep
<1>8. ASSUME NEW h \in Handlers, TakeTicket(h) PROVE PublishingIsOwned'
      BY <1>8, <1>a, TakeTicketStep, OwnedMove DEF TakeTicket, At, Procs, Working, Loaded
<1>9. ASSUME NEW h \in Handlers, Throw(h) \/ Timeout(h) PROVE PublishingIsOwned'
      BY <1>9, ThrowStep, TimeoutStep, OwnedByFault
<1>10. ASSUME NEW p \in Procs, Crash(p) PROVE PublishingIsOwned'
      BY <1>10, CrashStep, OwnedByFault
<1>11. CASE UNCHANGED vars
      BY <1>11 DEF vars, PublishingIsOwned
<1>   QED BY <1>1, <1>2, <1>3, <1>4, <1>5, <1>6, <1>7, <1>8, <1>9, <1>10, <1>11
         DEF Next, ClientStep

\* No path through the code leaves a target PUBLISHING; only a fault does.
THEOREM NoPathForgetsOutcome == Spec => []PublishingIsOwned
<1>1. Init => PublishingIsOwned
      BY DEF Init, PublishingIsOwned
<1>   QED BY <1>1, InitType, StepType, StepOwned, PTL DEF Spec

-----------------------------------------------------------------------------
(* Cancellation: under a cancelled row, a process that began afterwards is    *)
(* where it can write nothing.                                               *)

Harmless == {"idle", "scheduled", "read", "report"}
LateInv ==
    target.status = "CANCELLED"
       => \A p \in Procs : proc[p].pc \in Harmless \/ proc[p].late = "yes"

\* Under a row that stays cancelled, a move from a late process or to a harmless step.
LEMMA LateMove ==
    ASSUME LateInv, target.status = "CANCELLED", NEW p \in Procs, NEW label, Moves(p, label),
           \/ label \in Harmless
           \/ ~At(p, "idle") /\ proc[p].pc \notin Harmless
    PROVE  LateInv'
BY DEF LateInv, Moves, Harmless, At

LEMMA NotCancelled ==
    ASSUME target'.status # "CANCELLED" PROVE LateInv'
BY DEF LateInv

LEMMA StepLate == TypeOK /\ LateInv /\ [Next]_vars => LateInv'
<1>   SUFFICES ASSUME TypeOK, LateInv, [Next]_vars, target'.status = "CANCELLED"
      PROVE  LateInv'
      BY NotCancelled
<1>a. target \in TargetType
      BY TypeParts
<1>1. ASSUME NEW c \in Clients,
             DispatchRead(c) \/ CancelRead(c) \/ MarkRead(c) \/ ConfirmRead(c)
      PROVE  LateInv'
  <2>1. target.status # "CANCELLED"
        BY <1>1, <1>a DEF DispatchRead, CancelRead, MarkRead, ConfirmRead, May, Allowed,
           AfterCancel, ReconciliationRequired
  <2>   QED BY <1>1, <2>1 DEF DispatchRead, CancelRead, MarkRead, ConfirmRead, Request
<1>2. ASSUME NEW c \in Clients, CancelWrite(c) PROVE LateInv'
  <2>1. \A p \in Procs : proc'[p].pc # "idle" => proc'[p].late = "yes"
        BY <1>2, CancelWriteStep
  <2>   QED BY <2>1 DEF LateInv, Harmless
<1>3. ASSUME NEW c \in Clients, DispatchWrite(c) \/ Enqueue(c) \/ MarkWrite(c) \/ ConfirmWrite(c)
      PROVE  LateInv'
  <2>1. CASE DispatchWrite(c) \/ MarkWrite(c)
        BY <2>1, <1>a DEF DispatchWrite, MarkWrite, TargetType
  <2>2. CASE Enqueue(c) \/ ConfirmWrite(c)
    <3>1. Moves(c, "idle")
          BY <2>2, EnqueueStep, ReconcileStep
    <3>2. target.status = "CANCELLED"
          BY <2>2, <1>a DEF Enqueue, ConfirmWrite, ConfirmedTarget, TargetType
    <3>   QED BY <3>1, <3>2, LateMove DEF Procs, Harmless
  <2>   QED BY <1>3, <2>1, <2>2
<1>4. ASSUME NEW g \in DOMAIN jobs, RetryJob(g) PROVE LateInv'
      BY <1>4, RetryJobStep DEF RetryJob, LateInv
<1>5. ASSUME NEW g \in DOMAIN jobs, NEW h \in Handlers, Deliver(h, g) PROVE LateInv'
      BY <1>5, DeliverStep, LateMove DEF Deliver, Procs, Harmless
<1>6. CASE ScheduleFires
      BY <1>6, ScheduleStep DEF ScheduleFires, LateInv
<1>7. ASSUME NEW h \in Handlers, HandlerStep(h) PROVE LateInv'
  <2>1. h \in Procs
        BY DEF Procs
  <2>2. CASE ScheduledRead(h)
    <3>1. target.status = "CANCELLED"
          BY <2>2 DEF ScheduledRead
    <3>2. ~May("QUEUED")
          BY <3>1 DEF May, Allowed, AfterCancel
    <3>   QED BY <2>1, <2>2, <3>1, <3>2, ScheduledReadStep, LateMove DEF Harmless
  <2>3. CASE ScheduledWrite(h)
    <3>1. Moves(h, "idle") /\ target' = target
          BY <2>3, ScheduledWriteStep
    <3>   QED BY <2>1, <3>1, LateMove DEF Harmless
  <2>4. CASE ScheduledAdd(h) \/ Report(h)
    <3>1. Moves(h, "idle") /\ target' = target
          BY <2>4, ScheduledAddStep, ReportStep DEF ScheduledAdd, Report
    <3>   QED BY <2>1, <3>1, LateMove DEF Harmless
  <2>5. CASE ReadTarget(h)
    <3>1. Moves(h, "report") /\ target' = target
          BY <2>5, ReadTargetStep DEF ReadTarget
    <3>   QED BY <2>1, <3>1, LateMove DEF Harmless
  <2>6. CASE Prepare(h) \/ Start(h) \/ FailTarget(h)
        BY <2>6, <1>a DEF Prepare, Start, FailTarget, TargetType
  <2>7. CASE Check(h) \/ Load(h) \/ OpenSession(h) \/ MarkAttempt(h) \/ Post(h)
    <3>1. \E label : Moves(h, label)
          BY <2>7, CheckStep, LoadStep, OpenSessionStep, MarkAttemptStep, PostStep
    <3>2. target' = target /\ ~At(h, "idle") /\ proc[h].pc \notin Harmless
          BY <2>7 DEF Check, Load, OpenSession, MarkAttempt, Post, At, Harmless
    <3>   QED BY <2>1, <3>1, <3>2, LateMove
  <2>8. CASE Complete(h)
    <3>1. Moves(h, "fail") /\ target' = target
          BY <2>8, CompleteStep
    <3>2. ~At(h, "idle") /\ proc[h].pc \notin Harmless
          BY <2>8 DEF Complete, At, Harmless
    <3>   QED BY <2>1, <3>1, <3>2, LateMove
  <2>   QED BY <1>7, <2>2, <2>3, <2>4, <2>5, <2>6, <2>7, <2>8 DEF HandlerStep
<1>8. ASSUME NEW h \in Handlers, TakeTicket(h) PROVE LateInv'
      BY <1>8, TakeTicketStep, LateMove DEF TakeTicket, Procs, Harmless
<1>9. ASSUME NEW h \in Handlers, Throw(h) PROVE LateInv'
      BY <1>9, ThrowStep, LateMove DEF Throw, Procs, Harmless
<1>10. ASSUME NEW h \in Handlers, Timeout(h) PROVE LateInv'
      BY <1>10, TimeoutStep DEF Timeout, LateInv
<1>11. ASSUME NEW p \in Procs, Crash(p) PROVE LateInv'
      BY <1>11, CrashStep, LateMove DEF Crash, Harmless
<1>12. CASE UNCHANGED vars
      BY <1>12 DEF vars, LateInv
<1>   QED BY <1>1, <1>2, <1>3, <1>4, <1>5, <1>6, <1>7, <1>8, <1>9, <1>10, <1>11, <1>12
         DEF Next, ClientStep

LEMMA InitLate == Init => LateInv
BY DEF Init, LateInv, Harmless, Idle

\* A write of the status: the process that makes it is where no process that
\* began after the cancellation can be, and goes on to another step.
LEMMA LateWrite ==
    ASSUME LateInv, target.status = "CANCELLED", NEW p \in Procs, NEW label, Moves(p, label),
           proc[p].pc # label, proc[p].pc \notin Harmless
    PROVE  \E q \in Procs : proc[q].late = "yes" /\ proc'[q] # proc[q]
BY DEF LateInv, Moves

LEMMA StepUndo ==
    ASSUME TypeOK, LateInv, [Next]_vars, target.status = "CANCELLED",
           target'.status # "CANCELLED"
    PROVE  \E p \in Procs : proc[p].late = "yes" /\ proc'[p] # proc[p]
<1>a. target \in TargetType
      BY TypeParts
<1>1. ASSUME target' = target PROVE FALSE
      BY <1>1
<1>2. ASSUME NEW c \in Clients, ClientStep(c)
      PROVE  \E p \in Procs : proc[p].late = "yes" /\ proc'[p] # proc[p]
  <2>1. c \in Procs
        BY DEF Procs
  <2>2. CASE DispatchWrite(c)
    <3>1. Moves(c, "enqueue") /\ proc[c].pc = "dispatch"
          BY <2>2, DispatchWriteStep DEF DispatchWrite, At
    <3>   QED BY <2>1, <3>1, LateWrite DEF Harmless
  <2>3. CASE MarkWrite(c)
    <3>1. Moves(c, "idle") /\ proc[c].pc = "markPublished"
          BY <2>3, ReconcileStep DEF MarkWrite, At
    <3>   QED BY <2>1, <3>1, LateWrite DEF Harmless
  <2>4. CASE Enqueue(c)
        BY <2>4, <1>1 DEF Enqueue
  <2>5. CASE CancelWrite(c) \/ ConfirmWrite(c)
        BY <2>5, <1>a DEF CancelWrite, ConfirmWrite, ConfirmedTarget, TargetType
  <2>   QED BY <1>2, <2>2, <2>3, <2>4, <2>5 DEF ClientStep
<1>3. ASSUME NEW h \in Handlers, HandlerStep(h)
      PROVE  \E p \in Procs : proc[p].late = "yes" /\ proc'[p] # proc[p]
  <2>1. h \in Procs
        BY DEF Procs
  <2>2. CASE ScheduledWrite(h)
    <3>1. Moves(h, "send") /\ proc[h].pc = "queue"
          BY <2>2, <1>1, ScheduledWriteStep DEF ScheduledWrite, At
    <3>   QED BY <2>1, <3>1, LateWrite DEF Harmless
  <2>3. CASE Prepare(h)
    <3>1. Moves(h, "start") /\ proc[h].pc = "prepare"
          BY <2>3, PrepareStep DEF Prepare, At
    <3>   QED BY <2>1, <3>1, LateWrite DEF Harmless
  <2>4. CASE Start(h)
    <3>1. Moves(h, "check") /\ proc[h].pc = "start"
          BY <2>4, StartStep DEF Start, At
    <3>   QED BY <2>1, <3>1, LateWrite DEF Harmless
  <2>5. CASE Complete(h)
    <3>1. Moves(h, "report") /\ proc[h].pc = "complete"
          BY <2>5, <1>1, CompleteStep DEF Complete, At
    <3>   QED BY <2>1, <3>1, LateWrite DEF Harmless
  <2>6. CASE FailTarget(h)
    <3>1. Moves(h, "report") /\ proc[h].pc = "fail"
          BY <2>6, FailTargetStep DEF FailTarget, At
    <3>   QED BY <2>1, <3>1, LateWrite DEF Harmless
  <2>7. CASE \/ ScheduledRead(h) \/ ScheduledAdd(h) \/ ReadTarget(h) \/ Check(h)
             \/ Load(h) \/ OpenSession(h) \/ MarkAttempt(h) \/ Post(h) \/ Report(h)
        BY <2>7, <1>1 DEF ScheduledRead, ScheduledAdd, ReadTarget, Check, Load, OpenSession,
           MarkAttempt, Post, Report
  <2>   QED BY <1>3, <2>2, <2>3, <2>4, <2>5, <2>6, <2>7 DEF HandlerStep
<1>4. CASE \/ \E c \in Clients : \/ DispatchRead(c) \/ CancelRead(c)
                                \/ MarkRead(c) \/ ConfirmRead(c)
           \/ \E g \in DOMAIN jobs : RetryJob(g) \/ \E h \in Handlers : Deliver(h, g)
           \/ ScheduleFires
           \/ \E h \in Handlers : TakeTicket(h) \/ Throw(h) \/ Timeout(h)
           \/ \E p \in Procs : Crash(p)
           \/ UNCHANGED vars
  <2>1. target' = target
        BY <1>4 DEF DispatchRead, CancelRead, MarkRead, ConfirmRead, Request, RetryJob, Deliver,
           ScheduleFires, TakeTicket, Throw, Timeout, Crash, vars
  <2>   QED BY <2>1, <1>1
<1>   QED BY <1>2, <1>3, <1>4 DEF Next

\* Once a target is cancelled, only a process that was already under way can
\* move it out of CANCELLED.
THEOREM CancelledForThoseAfter == Spec => OnlyLateUndoCancel
<1>1. ASSUME TypeOK, LateInv, [Next]_vars
      PROVE  [target.status = "CANCELLED" /\ target'.status # "CANCELLED"
                 => \E p \in Procs : proc[p].late = "yes" /\ proc'[p] # proc[p]]_vars
      BY <1>1, StepUndo
<1>   QED BY <1>1, InitType, InitLate, StepType, StepLate, PTL DEF Spec, OnlyLateUndoCancel
=============================================================================
