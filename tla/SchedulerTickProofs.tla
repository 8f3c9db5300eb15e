------------------------- MODULE SchedulerTickProofs -------------------------
(***************************************************************************)
(* Proofs about SchedulerTick, for every finite set of schedules, every set *)
(* of ticks, clients and cron expressions, and every value of the bounds:  *)
(* the type invariant, the misfire policy, the single job of an occurrence *)
(* and the isolation of errors.                                            *)
(***************************************************************************)
EXTENDS SchedulerTick, TLAPS, FiniteSetTheorems

USE SchedulerAssumption

\* computeNextOccurrence returns an occurrence strictly after the instant.
LEMMA NextIsLater ==
    ASSUME NEW c \in Crons, NEW t \in Times
    PROVE  NextOccurrence(c, t) \in Nat /\ NextOccurrence(c, t) > t
<1>1. \E u \in Occurs[c] : IsNext(c, t, u)
      BY CronAssumption
<1>2. NextOccurrence(c, t) \in Occurs[c] /\ IsNext(c, t, NextOccurrence(c, t))
      BY <1>1 DEF NextOccurrence
<1>   QED BY <1>2, CronAssumption DEF IsNext

\* The instants the API may take for now.
LEMMA ApiNowType ==
    ASSUME NEW t \in ApiNow, now \in Times
    PROVE  t \in Times /\ t <= now /\ now <= t + MaxSkew
BY DEF ApiNow, Times

LEMMA NewRowType ==
    ASSUME NEW c \in Crons, NEW n \in Nat
    PROVE  NewRow(c, n) \in RowType
BY DEF NewRow, RowType, Times

\* The columns the claim, autoDisable and setEnabled write.
LEMMA ClaimedRowType ==
    ASSUME NEW r \in RowType, NEW n \in Nat, NEW t \in Times, NEW v \in Nat
    PROVE  [r EXCEPT !.nextRun = n, !.lastRun = t, !.version = v] \in RowType
BY Zenon DEF RowType

LEMMA DisabledRowType ==
    ASSUME NEW r \in RowType, NEW v \in Nat
    PROVE  [r EXCEPT !.enabled = FALSE, !.error = TRUE, !.version = v] \in RowType
BY Zenon DEF RowType

LEMMA SwitchedRowType ==
    ASSUME NEW r \in RowType, NEW b \in BOOLEAN, NEW v \in Nat
    PROVE  [r EXCEPT !.enabled = b, !.version = v] \in RowType
BY Zenon DEF RowType

\* The columns an edit writes.
LEMMA EditedRowType ==
    ASSUME NEW r \in RowType, NEW c \in Crons, NEW n \in Nat
    PROVE  [r EXCEPT !.cron = c, !.error = FALSE, !.nextRun = n] \in RowType
<1>1. c \in Crons \cup {"none"}
      OBVIOUS
<1>   QED BY <1>1, Zenon DEF RowType

LEMMA RepairedRowType ==
    ASSUME NEW r \in RowType
    PROVE  [r EXCEPT !.valid = TRUE, !.error = FALSE] \in RowType
BY Zenon DEF RowType

LEMMA UpdatedRowType ==
    ASSUME NEW r \in RowType, NEW c \in Crons \cup {"none"}, NEW n \in Nat,
           NEW b \in BOOLEAN, NEW v \in Nat
    PROVE  [r EXCEPT !.cron = c, !.nextRun = n, !.valid = b, !.error = FALSE,
                     !.version = v] \in RowType
BY Zenon DEF RowType

LEMMA InitInv == Init => IInv
<1>   SUFFICES ASSUME Init PROVE IInv
      OBVIOUS
<1>1. 0 \in Times
      BY DEF Times
<1>2. NoRow \in RowType
      BY <1>1 DEF NoRow, RowType
<1>3. ASSUME NEW s \in Schedules
      PROVE  /\ sched[s] \in RowType
             /\ sched[s].state # "none" =>
                   sched[s].cron \in Crons /\ sched[s].lastRun = 0 /\ sched[s].nextRun > 0
  <2>1. CASE sched[s] = NoRow
        BY <2>1, <1>2 DEF NoRow
  <2>2. CASE \E c \in Crons, v \in BOOLEAN :
                sched[s] = [NewRow(c, NextOccurrence(c, 0)) EXCEPT !.valid = v]
    <3>1. PICK c \in Crons, v \in BOOLEAN :
                sched[s] = [NewRow(c, NextOccurrence(c, 0)) EXCEPT !.valid = v]
          BY <2>2
    <3>2. NextOccurrence(c, 0) \in Nat /\ NextOccurrence(c, 0) > 0
          BY NextIsLater, <1>1
    <3>3. NewRow(c, NextOccurrence(c, 0)) \in RowType
          BY <3>2, NewRowType
    <3>4. sched[s] \in RowType
          BY <3>1, <3>3 DEF RowType
    <3>   QED BY <3>1, <3>2, <3>4 DEF NewRow
  <2>   QED BY <2>1, <2>2 DEF Init
<1>4. sched \in [Schedules -> RowType]
      BY <1>3 DEF Init
<1>5. TypeOK
      BY <1>1, <1>2, <1>4 DEF Init, TypeOK, NoTick, NoEdit, TickType, EditType
<1>6. RowsKnown /\ NextAfterLast
      BY <1>1, <1>3, <1>4 DEF Init, RowsKnown, NextAfterLast, RowType, Times
<1>7. EditKnown /\ KeysKnown /\ OneJobPerOccurrence
      BY DEF Init, EditKnown, KeysKnown, OneJobPerOccurrence, NoEdit
<1>   QED BY <1>5, <1>6, <1>7 DEF IInv

-----------------------------------------------------------------------------
(* Writes of the job rows: the marking of one row changes neither its key     *)
(* nor its due occurrence.                                                   *)

\* j comes from the row i by a write of its status or of its delivery.
Keeps(i, j) == i.schedule = j.schedule /\ i.key = j.key /\ i.due = j.due

JobsFine(js) ==
    /\ js \subseteq JobType
    /\ \A j \in js : j.key = j.due
    /\ \A i, j \in js : i.schedule = j.schedule /\ i.due = j.due => i = j

LEMMA AddedFine ==
    ASSUME JobsFine(jobs), NEW o \in OccurrenceType
    PROVE  JobsFine(AddedJobs(o))
<1>1. \A i \in JobType : [i EXCEPT !.added = TRUE] \in JobType /\ Keeps(i, [i EXCEPT !.added = TRUE])
      BY DEF JobType, Keeps
<1>2. \A j \in AddedJobs(o) : \E i \in jobs :
         j \in JobType /\ Keeps(i, j) /\ j = (IF i \in Mine(o) THEN [i EXCEPT !.added = TRUE] ELSE i)
      BY ZenonT(30), <1>1 DEF JobsFine, AddedJobs, Mine, Keeps
<1>3. AddedJobs(o) \subseteq JobType /\ \A j \in AddedJobs(o) : j.key = j.due
      BY <1>2 DEF JobsFine, Keeps
<1>4. ASSUME NEW j1 \in AddedJobs(o), NEW j2 \in AddedJobs(o),
             j1.schedule = j2.schedule, j1.due = j2.due
      PROVE  j1 = j2
  <2>1. PICK i1 \in jobs : Keeps(i1, j1) /\ j1 = (IF i1 \in Mine(o) THEN [i1 EXCEPT !.added = TRUE] ELSE i1)
        BY <1>2
  <2>2. PICK i2 \in jobs : Keeps(i2, j2) /\ j2 = (IF i2 \in Mine(o) THEN [i2 EXCEPT !.added = TRUE] ELSE i2)
        BY <1>2
  <2>3. i1 = i2
        BY <1>4, <2>1, <2>2 DEF JobsFine, Keeps
  <2>   QED BY <2>1, <2>2, <2>3
<1>   QED BY <1>3, <1>4 DEF JobsFine

LEMMA CompensatedFine ==
    ASSUME JobsFine(jobs), NEW o \in OccurrenceType
    PROVE  JobsFine(CompensatedJobs(o))
<1>1. \A j \in CompensatedJobs(o) : \E i \in jobs :
         j \in JobType /\ Keeps(i, j) /\ j = (IF i \in Mine(o) THEN [i EXCEPT !.status = "FAILED"] ELSE i)
      BY DEF JobsFine, CompensatedJobs, Mine, Keeps, JobType
<1>   QED BY <1>1 DEF JobsFine, Keeps

\* The unique idempotency key: a job is created only if the occurrence has none.
LEMMA CreatedFine ==
    ASSUME JobsFine(jobs), NEW o \in OccurrenceType, ~Replay(o)
    PROVE  JobsFine(jobs \cup {Job(o)})
<1>1. Job(o) \in JobType /\ Job(o).key = Job(o).due
      BY DEF Job, JobType, OccurrenceType, Key
<1>2. \A j \in jobs : ~(j.schedule = Job(o).schedule /\ j.due = Job(o).due)
      BY DEF JobsFine, Replay, Job, Key
<1>   QED BY <1>1, <1>2 DEF JobsFine

LEMMA JobsInv == IInv <=> IInv /\ JobsFine(jobs)
BY DEF IInv, TypeOK, KeysKnown, OneJobPerOccurrence, JobsFine

-----------------------------------------------------------------------------
(* What a tick keeps in hand is an occurrence.                               *)

LEMMA DoneWithType ==
    ASSUME tick \in [Ticks -> TickType], NEW k \in Ticks, NEW o, DoneWith(k, o)
    PROVE  tick' \in [Ticks -> TickType]
<1>1. NoTick \in TickType
      BY DEF NoTick, TickType
<1>2. [pc |-> "create", hand |-> {}, batch |-> tick[k].batch \ {o}] \in TickType
      BY DEF TickType
<1>   QED BY <1>1, <1>2 DEF DoneWith

\* A step that changes neither the rows nor the clock nor the requests keeps
\* everything that is known about them.
LEMMA RowsUnchanged ==
    ASSUME IInv, UNCHANGED <<now, sched, edit>>
    PROVE  (RowsKnown /\ EditKnown /\ NextAfterLast)'
BY DEF IInv, RowsKnown, EditKnown, NextAfterLast, SameVersion

LEMMA BoundsType ==
    ASSUME TypeOK, \/ NoError
                   \/ Error
                   \/ Count
    PROVE  (edits \in 0..MaxEdits /\ errors \in Nat /\ crashes \in Nat
              /\ errors + crashes <= MaxFaults)'
BY DEF TypeOK, NoError, Error, Count, bounds

-----------------------------------------------------------------------------
(* A row of which a request or a tick changes only some columns.             *)

\* s's row changes to r, whose version is greater; nothing else does.
Writes(s, r) ==
    /\ sched' = [sched EXCEPT ![s] = r]
    /\ r \in RowType /\ r.version > sched[s].version
    /\ r.state # "none"
    /\ r.cron \in Crons /\ r.lastRun <= now
    /\ r.lastRun < r.nextRun + MaxSkew

LEMMA WriteKeepsRows ==
    ASSUME IInv, NEW s \in Schedules, NEW r, Writes(s, r), UNCHANGED now
    PROVE  (RowsKnown /\ NextAfterLast /\ sched \in [Schedules -> RowType])'
BY DEF IInv, TypeOK, RowsKnown, NextAfterLast, Writes

\* The version has moved on, so the edits in flight on the row will fail.
LEMMA WriteKeepsEdits ==
    ASSUME IInv, NEW s \in Schedules, NEW r, Writes(s, r), UNCHANGED edit
    PROVE  EditKnown'
<1>   SUFFICES ASSUME NEW c \in Clients, edit[c].pc = "update"
               PROVE  /\ edit[c].on \in Schedules /\ sched'[edit[c].on].state # "none"
                      /\ edit[c].write.cron \in Crons
                      /\ edit[c].write.version <= sched'[edit[c].on].version
                      /\ sched'[edit[c].on].version = edit[c].write.version =>
                            sched'[edit[c].on].lastRun < edit[c].write.nextRun + MaxSkew
      BY DEF EditKnown, SameVersion
<1>1. /\ edit[c].on \in Schedules /\ sched[edit[c].on].state # "none"
      /\ edit[c].write.cron \in Crons
      /\ edit[c].write.version <= sched[edit[c].on].version
      /\ sched[edit[c].on].version = edit[c].write.version =>
            sched[edit[c].on].lastRun < edit[c].write.nextRun + MaxSkew
      BY DEF IInv, EditKnown, SameVersion
<1>2. edit[c].write.version \in Nat /\ sched[s].version \in Nat /\ r.version \in Nat
      BY DEF IInv, TypeOK, EditType, RowType, Writes
<1>3. CASE edit[c].on = s
      BY <1>1, <1>2, <1>3 DEF Writes, IInv, TypeOK
<1>4. CASE edit[c].on # s
      BY <1>1, <1>4 DEF Writes, IInv, TypeOK
<1>   QED BY <1>3, <1>4

-----------------------------------------------------------------------------
(* One lemma per action                                                      *)

LEMMA ClaimInv ==
    ASSUME IInv, NEW k \in Ticks, Claim(k)
    PROVE  IInv'
<1>1. PICK b \in Batches :
         /\ sched' = [s \in Schedules |-> IF s \in b THEN Advance(s) ELSE sched[s]]
         /\ tick' = [tick EXCEPT ![k] = [pc |-> "create", hand |-> {},
                                         batch |-> {Occurrence(s) : s \in b}]]
         /\ claims' = claims \cup {<<s, sched[s].nextRun>> : s \in b}
      BY DEF Claim
<1>2. UNCHANGED <<now, jobs, edit, edits, errors, crashes>>
      BY DEF Claim, bounds
<1>3. b \subseteq Schedules /\ \A s \in b : sched[s].state = "live"
      BY DEF Batches, Due
<1>4. now \in Times /\ \A s \in Schedules : sched[s] \in RowType
      BY DEF IInv, TypeOK
<1>5. ASSUME NEW s \in b
      PROVE  /\ Advance(s) \in RowType /\ Advance(s).state = "live"
             /\ Advance(s).cron \in Crons /\ Advance(s).lastRun = now
             /\ Advance(s).nextRun > now
             /\ Advance(s).version = sched[s].version + 1
  <2>1. s \in Schedules /\ sched[s].state = "live" /\ sched[s].cron \in Crons
        BY <1>3 DEF IInv, RowsKnown
  <2>2. NextOccurrence(sched[s].cron, now) \in Nat /\ NextOccurrence(sched[s].cron, now) > now
        BY <2>1, <1>4, NextIsLater
  <2>3. sched[s] \in RowType
        BY <2>1, <1>4
  <2>4. sched[s].version + 1 \in Nat
        BY <2>3 DEF RowType
  <2>5. Advance(s) \in RowType
        BY <2>2, <2>3, <2>4, <1>4, ClaimedRowType DEF Advance
  <2>6. /\ Advance(s).state = sched[s].state /\ Advance(s).cron = sched[s].cron
        /\ Advance(s).lastRun = now
        /\ Advance(s).nextRun = NextOccurrence(sched[s].cron, now)
        /\ Advance(s).version = sched[s].version + 1
        BY <2>3 DEF Advance, RowType
  <2>   QED BY <2>1, <2>2, <2>5, <2>6
<1>6. sched' \in [Schedules -> RowType]
      BY <1>1, <1>4, <1>5
<1>7. tick' \in [Ticks -> TickType]
  <2>1. \A s \in b : Occurrence(s) \in OccurrenceType
        BY <1>3, <1>4 DEF Occurrence, OccurrenceType, RowType
  <2>   QED BY <2>1, <1>1 DEF IInv, TypeOK, TickType
<1>8. claims' \subseteq Schedules \X Nat
      BY <1>1, <1>3, <1>4 DEF IInv, TypeOK, RowType
<1>9. TypeOK'
      BY <1>2, <1>6, <1>7, <1>8 DEF IInv, TypeOK
<1>10. RowsKnown' /\ NextAfterLast'
  <2>1. ASSUME NEW s \in Schedules, sched'[s].state # "none"
        PROVE  /\ sched'[s].cron \in Crons /\ sched'[s].lastRun <= now
               /\ sched'[s].lastRun < sched'[s].nextRun + MaxSkew
    <3>1. CASE s \in b
          BY <3>1, <1>1, <1>4, <1>5 DEF RowType, Times
    <3>2. CASE s \notin b
          BY <3>2, <2>1, <1>1 DEF IInv, RowsKnown, NextAfterLast
    <3>   QED BY <3>1, <3>2
  <2>   QED BY <2>1, <1>2 DEF RowsKnown, NextAfterLast
<1>11. EditKnown'
  <2>   SUFFICES ASSUME NEW c \in Clients, edit[c].pc = "update"
                 PROVE  /\ edit[c].on \in Schedules /\ sched'[edit[c].on].state # "none"
                        /\ edit[c].write.cron \in Crons
                        /\ edit[c].write.version <= sched'[edit[c].on].version
                        /\ sched'[edit[c].on].version = edit[c].write.version =>
                              sched'[edit[c].on].lastRun < edit[c].write.nextRun + MaxSkew
        BY <1>2 DEF EditKnown, SameVersion
  <2>1. /\ edit[c].on \in Schedules /\ sched[edit[c].on].state # "none"
        /\ edit[c].write.cron \in Crons
        /\ edit[c].write.version <= sched[edit[c].on].version
        /\ sched[edit[c].on].version = edit[c].write.version =>
              sched[edit[c].on].lastRun < edit[c].write.nextRun + MaxSkew
        BY DEF IInv, EditKnown, SameVersion
  <2>2. edit[c].write.version \in Nat /\ sched[edit[c].on].version \in Nat
        BY <2>1, <1>4 DEF IInv, TypeOK, EditType, RowType
  <2>3. CASE edit[c].on \in b
        BY <2>1, <2>2, <2>3, <1>1, <1>5
  <2>4. CASE edit[c].on \notin b
        BY <2>1, <2>4, <1>1
  <2>   QED BY <2>3, <2>4
<1>12. KeysKnown' /\ OneJobPerOccurrence'
      BY <1>2 DEF IInv, KeysKnown, OneJobPerOccurrence
<1>   QED BY <1>9, <1>10, <1>11, <1>12 DEF IInv

\* autoDisable writes the row by id, whatever became of it: only its switch,
\* its error and its version change.
LEMMA DispatchRowInv ==
    ASSUME IInv, NEW k \in Ticks, DispatchRow(k)
    PROVE  IInv'
<1>   USE BoundsType
<1>1. PICK o \in tick[k].batch :
         \/ /\ ~o.valid /\ NoError /\ UNCHANGED jobs
            /\ claims' = claims \ {<<o.schedule, o.due>>}
            /\ sched' = [sched EXCEPT ![o.schedule] = Disabled(sched[o.schedule])]
            /\ DoneWith(k, o)
         \/ /\ o.valid /\ ~Replay(o) /\ NoError /\ UNCHANGED <<sched, claims>>
            /\ jobs' = jobs \cup {Job(o)}
            /\ tick' = [tick EXCEPT ![k].pc = "add", ![k].hand = {o}]
         \/ /\ (NoError \/ Error) /\ UNCHANGED <<sched, jobs, claims>>
            /\ DoneWith(k, o)
      BY DEF DispatchRow
<1>2. UNCHANGED <<now, edit>>
      BY DEF DispatchRow
<1>3. o \in OccurrenceType /\ tick \in [Ticks -> TickType] /\ JobsFine(jobs)
      BY JobsInv DEF IInv, TypeOK, TickType
<1>4. /\ (edits \in 0..MaxEdits /\ errors \in Nat /\ crashes \in Nat
             /\ errors + crashes <= MaxFaults)'
      /\ claims' \subseteq Schedules \X Nat
      BY <1>1, BoundsType DEF IInv, TypeOK
<1>5. tick' \in [Ticks -> TickType]
  <2>1. CASE tick' = [tick EXCEPT ![k].pc = "add", ![k].hand = {o}]
        BY <2>1, <1>3 DEF TickType
  <2>   QED BY <2>1, <1>1, <1>3, DoneWithType
<1>6. JobsFine(jobs')
      BY <1>1, <1>3, CreatedFine
<1>7. (RowsKnown /\ EditKnown /\ NextAfterLast /\ sched \in [Schedules -> RowType])'
  <2>1. CASE UNCHANGED sched
        BY <2>1, <1>2, RowsUnchanged DEF IInv, TypeOK
  <2>2. CASE sched' = [sched EXCEPT ![o.schedule] = Disabled(sched[o.schedule])]
    <3>1. o.schedule \in Schedules /\ sched[o.schedule] \in RowType
          BY <1>3 DEF OccurrenceType, IInv, TypeOK
    <3>a. sched[o.schedule].version + 1 \in Nat
          BY <3>1 DEF RowType
    <3>b. Disabled(sched[o.schedule]) \in RowType
          BY <3>1, <3>a, DisabledRowType DEF Disabled
    <3>2. /\ Disabled(sched[o.schedule]).version > sched[o.schedule].version
          /\ Disabled(sched[o.schedule]).state = sched[o.schedule].state
          /\ Disabled(sched[o.schedule]).cron = sched[o.schedule].cron
          /\ Disabled(sched[o.schedule]).lastRun = sched[o.schedule].lastRun
          /\ Disabled(sched[o.schedule]).nextRun = sched[o.schedule].nextRun
          BY <3>1 DEF Disabled, RowType
    <3>3. CASE sched[o.schedule].state # "none"
      <4>1. Writes(o.schedule, Disabled(sched[o.schedule]))
            BY <2>2, <3>1, <3>2, <3>3, <3>b DEF Writes, IInv, RowsKnown, NextAfterLast
      <4>   QED BY <4>1, <3>1, <1>2, WriteKeepsRows, WriteKeepsEdits
    <3>4. CASE sched[o.schedule].state = "none"
      <4>1. sched' \in [Schedules -> RowType] /\ sched'[o.schedule].state = "none"
            /\ \A s \in Schedules \ {o.schedule} : sched'[s] = sched[s]
            BY <2>2, <3>1, <3>2, <3>4, <3>b DEF IInv, TypeOK
      <4>2. (RowsKnown /\ NextAfterLast)'
            BY <4>1, <1>2 DEF IInv, RowsKnown, NextAfterLast
      <4>3. EditKnown'
            BY <4>1, <3>4, <1>2 DEF IInv, EditKnown, SameVersion
      <4>   QED BY <4>1, <4>2, <4>3
    <3>   QED BY <3>3, <3>4
  <2>   QED BY <2>1, <2>2, <1>1
<1>8. TypeOK' /\ KeysKnown' /\ OneJobPerOccurrence'
      BY <1>2, <1>4, <1>5, <1>6, <1>7 DEF IInv, TypeOK, JobsFine, KeysKnown, OneJobPerOccurrence
<1>   QED BY <1>7, <1>8 DEF IInv

LEMMA AddEntryInv ==
    ASSUME IInv, NEW k \in Ticks, AddEntry(k) \/ Compensate(k)
    PROVE  IInv'
<1>1. PICK o \in tick[k].hand :
         /\ jobs' \in {jobs, AddedJobs(o), CompensatedJobs(o)}
         /\ NoError \/ Error
         /\ DoneWith(k, o) \/ tick' = [tick EXCEPT ![k].pc = "compensate"]
      BY DEF AddEntry, Compensate
<1>2. UNCHANGED <<now, sched, edit, claims>>
      BY DEF AddEntry, Compensate
<1>3. o \in OccurrenceType /\ tick \in [Ticks -> TickType] /\ JobsFine(jobs)
      BY JobsInv DEF IInv, TypeOK, TickType
<1>4. tick' \in [Ticks -> TickType]
  <2>1. CASE tick' = [tick EXCEPT ![k].pc = "compensate"]
        BY <2>1, <1>3 DEF TickType
  <2>   QED BY <2>1, <1>1, <1>3, DoneWithType
<1>5. JobsFine(jobs')
      BY <1>1, <1>3, AddedFine, CompensatedFine
<1>6. TypeOK' /\ KeysKnown' /\ OneJobPerOccurrence'
      BY <1>1, <1>2, <1>4, <1>5, BoundsType
      DEF IInv, TypeOK, JobsFine, KeysKnown, OneJobPerOccurrence
<1>   QED BY <1>2, <1>6, RowsUnchanged DEF IInv

LEMMA CrashInv ==
    ASSUME IInv, NEW k \in Ticks, Crash(k)
    PROVE  IInv'
<1>1. tick' \in [Ticks -> TickType]
      BY DEF Crash, IInv, TypeOK, NoTick, TickType
<1>2. TypeOK'
      BY <1>1 DEF Crash, IInv, TypeOK
<1>3. KeysKnown' /\ OneJobPerOccurrence'
      BY DEF Crash, IInv, KeysKnown, OneJobPerOccurrence
<1>   QED BY <1>2, <1>3, RowsUnchanged DEF Crash, IInv

-----------------------------------------------------------------------------
(* The requests: each writes one row and raises its version.                 *)

LEMMA WriteInv ==
    ASSUME IInv, NEW s \in Schedules, NEW r, Writes(s, r), Count,
           UNCHANGED <<now, jobs, tick, edit, claims>>
    PROVE  IInv'
<1>1. TypeOK'
      BY WriteKeepsRows, BoundsType DEF IInv, TypeOK
<1>2. KeysKnown' /\ OneJobPerOccurrence'
      BY DEF IInv, KeysKnown, OneJobPerOccurrence
<1>   QED BY <1>1, <1>2, WriteKeepsRows, WriteKeepsEdits DEF IInv

LEMMA CreateInv ==
    ASSUME IInv, NEW s \in Schedules, Create(s)
    PROVE  IInv'
<1>1. PICK c \in Crons, t \in ApiNow :
         sched' = [sched EXCEPT ![s] = NewRow(c, NextOccurrence(c, t))]
      BY DEF Create
<1>2. t \in Times /\ NextOccurrence(c, t) \in Nat /\ NextOccurrence(c, t) > t
      BY ApiNowType, NextIsLater DEF IInv, TypeOK
<1>3. NewRow(c, NextOccurrence(c, t)) \in RowType
      BY <1>2, NewRowType
<1>4. sched[s].state = "none" /\ now \in Times /\ sched \in [Schedules -> RowType]
      BY DEF Create, IInv, TypeOK
<1>5. UNCHANGED <<now, jobs, tick, edit, claims>> /\ Count
      BY DEF Create
<1>6. sched' \in [Schedules -> RowType]
      BY <1>1, <1>3, <1>4
<1>7. RowsKnown' /\ NextAfterLast'
      BY <1>1, <1>2, <1>4, <1>5, <1>6 DEF IInv, RowsKnown, NextAfterLast, NewRow, RowType, Times
<1>8. EditKnown'
      BY <1>1, <1>4, <1>5 DEF IInv, EditKnown, SameVersion
<1>9. TypeOK' /\ KeysKnown' /\ OneJobPerOccurrence'
      BY <1>5, <1>6, BoundsType DEF IInv, TypeOK, KeysKnown, OneJobPerOccurrence
<1>   QED BY <1>7, <1>8, <1>9 DEF IInv

LEMMA SwitchInv ==
    ASSUME IInv, NEW s \in Schedules,
           SoftDelete(s) \/ \E on \in BOOLEAN : SetEnabled(s, on)
    PROVE  IInv'
<1>1. sched[s] \in RowType /\ sched[s].state = "live"
      BY DEF SoftDelete, SetEnabled, IInv, TypeOK
<1>2. UNCHANGED <<now, jobs, tick, edit, claims>> /\ Count
      BY DEF SoftDelete, SetEnabled
<1>3. /\ sched[s].cron \in Crons /\ sched[s].lastRun <= now
      /\ sched[s].lastRun < sched[s].nextRun + MaxSkew
      BY <1>1 DEF IInv, RowsKnown, NextAfterLast
<1>4. CASE SoftDelete(s)
  <2>1. Writes(s, [sched[s] EXCEPT !.state = "deleted", !.version = sched[s].version + 1])
        BY <1>1, <1>3, <1>4 DEF Writes, SoftDelete, RowType, IInv, TypeOK
  <2>   QED BY <2>1, <1>2, WriteInv
<1>5. CASE \E on \in BOOLEAN : SetEnabled(s, on)
  <2>1. PICK on \in BOOLEAN : SetEnabled(s, on)
        BY <1>5
  <2>   DEFINE r == [sched[s] EXCEPT !.enabled = on, !.version = sched[s].version + 1]
  <2>2. sched[s].version \in Nat /\ sched[s].version + 1 \in Nat
        BY <1>1 DEF RowType
  <2>3. r \in RowType
        BY <1>1, <2>2, SwitchedRowType
  <2>4. /\ r.state = sched[s].state /\ r.cron = sched[s].cron /\ r.lastRun = sched[s].lastRun
        /\ r.nextRun = sched[s].nextRun /\ r.version = sched[s].version + 1
        BY <1>1 DEF RowType
  <2>5. sched' = [sched EXCEPT ![s] = r]
        BY <1>1, <2>1 DEF SetEnabled, IInv, TypeOK
  <2>6. r.version > sched[s].version
        BY <2>2, <2>4
  <2>7. Writes(s, r)
        BY <1>1, <1>3, <2>3, <2>4, <2>5, <2>6 DEF Writes
  <2>   QED BY <2>7, <1>2, WriteInv
<1>   QED BY <1>4, <1>5

\* What an edit is about to write was computed from an instant no earlier than
\* the last run, or keeps the next run it has read.
LEMMA UpdateReadInv ==
    ASSUME IInv, NEW c \in Clients, NEW s \in Schedules, UpdateRead(c, s)
    PROVE  IInv'
<1>1. sched[s] \in RowType /\ sched[s].state = "live" /\ now \in Times
      BY DEF UpdateRead, IInv, TypeOK
<1>2. /\ sched[s].cron \in Crons /\ sched[s].lastRun <= now
      /\ sched[s].lastRun < sched[s].nextRun + MaxSkew
      BY <1>1 DEF IInv, RowsKnown, NextAfterLast
<1>3. UNCHANGED <<now, sched, jobs, tick, claims>> /\ Count
      BY DEF UpdateRead
<1>4. PICK w \in RowType :
         /\ Request(c, s, w) /\ w.cron \in Crons /\ w.version = sched[s].version
         /\ sched[s].lastRun < w.nextRun + MaxSkew
  <2>1. ASSUME NEW cron \in Crons, NEW t \in ApiNow
        PROVE  LET w == [sched[s] EXCEPT !.cron = cron, !.error = FALSE,
                                         !.nextRun = NextOccurrence(cron, t)]
               IN  /\ w \in RowType /\ w.cron = cron /\ w.version = sched[s].version
                   /\ sched[s].lastRun < w.nextRun + MaxSkew
    <3>1. t \in Times /\ now <= t + MaxSkew
          BY <1>1, ApiNowType
    <3>2. NextOccurrence(cron, t) \in Nat /\ NextOccurrence(cron, t) > t
          BY <3>1, NextIsLater
    <3>3. sched[s].lastRun \in Nat
          BY <1>1 DEF RowType, Times
    <3>4. sched[s].lastRun < NextOccurrence(cron, t) + MaxSkew
          BY <1>1, <1>2, <3>1, <3>2, <3>3 DEF Times
    <3>5. [sched[s] EXCEPT !.cron = cron, !.error = FALSE,
                           !.nextRun = NextOccurrence(cron, t)] \in RowType
          BY <1>1, <3>2, EditedRowType
    <3>   QED BY <1>1, <3>4, <3>5 DEF RowType
  <2>2. LET w == [sched[s] EXCEPT !.valid = TRUE, !.error = FALSE]
        IN  /\ w \in RowType /\ w.cron = sched[s].cron /\ w.version = sched[s].version
            /\ w.nextRun = sched[s].nextRun
    <3>1. [sched[s] EXCEPT !.valid = TRUE, !.error = FALSE] \in RowType
          BY <1>1, RepairedRowType
    <3>   QED BY <1>1, <3>1 DEF RowType
  <2>3. CASE \E cron \in Crons, t \in ApiNow :
                Request(c, s, [sched[s] EXCEPT !.cron = cron, !.error = FALSE,
                                      !.nextRun = NextOccurrence(cron, t)])
        BY <2>1, <2>3
  <2>4. CASE Request(c, s, [sched[s] EXCEPT !.valid = TRUE, !.error = FALSE])
        BY <2>2, <2>4, <1>2
  <2>   QED BY <2>3, <2>4 DEF UpdateRead
<1>5. edit' \in [Clients -> EditType]
      BY <1>4 DEF Request, EditType, IInv, TypeOK
<1>6. TypeOK' /\ KeysKnown' /\ OneJobPerOccurrence'
      BY <1>3, <1>5, BoundsType DEF IInv, TypeOK, KeysKnown, OneJobPerOccurrence
<1>7. RowsKnown' /\ NextAfterLast'
      BY <1>3 DEF IInv, RowsKnown, NextAfterLast
<1>8. EditKnown'
  <2>1. ASSUME NEW d \in Clients, edit'[d].pc = "update"
        PROVE  /\ edit'[d].on \in Schedules /\ sched[edit'[d].on].state # "none"
               /\ edit'[d].write.cron \in Crons
               /\ edit'[d].write.version <= sched[edit'[d].on].version
               /\ sched[edit'[d].on].version = edit'[d].write.version =>
                     sched[edit'[d].on].lastRun < edit'[d].write.nextRun + MaxSkew
    <3>1. CASE d = c
      <4>1. edit'[c] = [pc |-> "update", on |-> s, write |-> w]
            BY <1>4 DEF Request, IInv, TypeOK
      <4>2. sched[s].version <= sched[s].version
            BY <1>1 DEF RowType
      <4>   QED BY <3>1, <4>1, <4>2, <1>1, <1>4
    <3>2. CASE d # c
      <4>1. edit'[d] = edit[d]
            BY <3>2, <1>4 DEF Request, IInv, TypeOK
      <4>   QED BY <2>1, <4>1 DEF IInv, EditKnown, SameVersion
    <3>   QED BY <3>1, <3>2
  <2>   QED BY <2>1, <1>3 DEF EditKnown, SameVersion
<1>   QED BY <1>6, <1>7, <1>8 DEF IInv

\* The version guard: the row is as the edit saw it, or nothing is written.
LEMMA UpdateWriteInv ==
    ASSUME IInv, NEW c \in Clients, UpdateWrite(c)
    PROVE  IInv'
<1>   DEFINE s == edit[c].on
             w == edit[c].write
<1>1. UNCHANGED <<now, jobs, tick, claims, bounds>>
      BY DEF UpdateWrite
<1>2. /\ s \in Schedules /\ sched[s].state # "none" /\ w.cron \in Crons
      /\ SameVersion(c) => sched[s].lastRun < w.nextRun + MaxSkew
      BY DEF UpdateWrite, IInv, EditKnown
<1>3. sched[s] \in RowType /\ w \in RowType /\ sched[s].lastRun <= now
      BY <1>2 DEF IInv, TypeOK, EditType, RowsKnown
<1>4. edit' = [edit EXCEPT ![c] = NoEdit]
      BY DEF UpdateWrite
<1>5. edit' \in [Clients -> EditType]
  <2>1. NoEdit \in EditType
        BY DEF NoEdit, NoRow, EditType, RowType, Times
  <2>   QED BY <2>1, <1>4 DEF IInv, TypeOK
<1>6. ASSUME (RowsKnown /\ NextAfterLast /\ sched \in [Schedules -> RowType])',
             \A d \in Clients \ {c} : edit[d].pc = "update" =>
                /\ edit[d].on \in Schedules /\ sched'[edit[d].on].state # "none"
                /\ edit[d].write.cron \in Crons
                /\ edit[d].write.version <= sched'[edit[d].on].version
                /\ sched'[edit[d].on].version = edit[d].write.version =>
                      sched'[edit[d].on].lastRun < edit[d].write.nextRun + MaxSkew
      PROVE  IInv'
  <2>1. TypeOK' /\ KeysKnown' /\ OneJobPerOccurrence'
        BY <1>1, <1>5, <1>6 DEF IInv, TypeOK, KeysKnown, OneJobPerOccurrence, bounds
  <2>2. EditKnown'
        BY <1>4, <1>6 DEF EditKnown, SameVersion, NoEdit, IInv, TypeOK
  <2>   QED BY <2>1, <2>2, <1>6 DEF IInv
<1>7. CASE ~SameVersion(c)
  <2>1. UNCHANGED sched
        BY <1>7 DEF UpdateWrite
  <2>2. (RowsKnown /\ NextAfterLast /\ sched \in [Schedules -> RowType])'
        BY <2>1, <1>1 DEF IInv, TypeOK, RowsKnown, NextAfterLast
  <2>   QED BY <2>1, <2>2, <1>6 DEF IInv, EditKnown, SameVersion
<1>8. CASE SameVersion(c)
  <2>   DEFINE r == [sched[s] EXCEPT !.cron = w.cron, !.nextRun = w.nextRun,
                                     !.valid = w.valid, !.error = FALSE,
                                     !.version = sched[s].version + 1]
  <2>1. sched' = [sched EXCEPT ![s] = r]
        BY <1>2, <1>3, <1>8 DEF UpdateWrite, IInv, TypeOK
  <2>2. /\ w.nextRun \in Nat /\ w.valid \in BOOLEAN /\ w.cron \in Crons \cup {"none"}
        /\ sched[s].version \in Nat /\ sched[s].version + 1 \in Nat
        BY <1>3 DEF RowType
  <2>3. r \in RowType
        BY ZenonT(30), <2>2, <1>3, UpdatedRowType
  <2>4. /\ r.state = sched[s].state /\ r.cron = w.cron /\ r.lastRun = sched[s].lastRun
        /\ r.nextRun = w.nextRun /\ r.version = sched[s].version + 1
        BY <1>3 DEF RowType
  <2>5. r.version > sched[s].version
        BY <2>2, <2>4
  <2>6. Writes(s, r)
        BY <1>2, <1>3, <1>8, <2>1, <2>3, <2>4, <2>5 DEF Writes
  <2>7. (RowsKnown /\ NextAfterLast /\ sched \in [Schedules -> RowType])'
        BY <2>6, <1>1, <1>2, WriteKeepsRows
  <2>8. ASSUME NEW d \in Clients \ {c}, edit[d].pc = "update"
        PROVE  /\ edit[d].on \in Schedules /\ sched'[edit[d].on].state # "none"
               /\ edit[d].write.cron \in Crons
               /\ edit[d].write.version <= sched'[edit[d].on].version
               /\ sched'[edit[d].on].version = edit[d].write.version =>
                     sched'[edit[d].on].lastRun < edit[d].write.nextRun + MaxSkew
    <3>1. /\ edit[d].on \in Schedules /\ sched[edit[d].on].state # "none"
          /\ edit[d].write.cron \in Crons
          /\ edit[d].write.version <= sched[edit[d].on].version
          /\ sched[edit[d].on].version = edit[d].write.version =>
                sched[edit[d].on].lastRun < edit[d].write.nextRun + MaxSkew
          BY <2>8 DEF IInv, EditKnown, SameVersion
    <3>2. edit[d].write.version \in Nat
          BY DEF IInv, TypeOK, EditType, RowType
    <3>3. CASE edit[d].on = s
      <4>1. sched'[s] = r
            BY <2>1, <1>2 DEF IInv, TypeOK
      <4>2. edit[d].write.version < r.version
            BY <3>1, <3>2, <3>3, <2>2, <2>4
      <4>   QED BY <3>1, <3>2, <3>3, <4>1, <4>2, <2>4, <2>2, <1>2
    <3>4. CASE edit[d].on # s
      <4>1. sched'[edit[d].on] = sched[edit[d].on]
            BY <3>1, <3>4, <2>1 DEF IInv, TypeOK
      <4>   QED BY <3>1, <4>1
    <3>   QED BY <3>3, <3>4
  <2>   QED BY <2>7, <2>8, <1>6
<1>   QED BY <1>7, <1>8

LEMMA TimePassesInv ==
    ASSUME IInv, TimePasses
    PROVE  IInv'
<1>1. UNCHANGED <<sched, jobs, tick, edit, claims, bounds>> /\ now' = now + 1 /\ now < MaxTime
      BY DEF TimePasses
<1>2. now \in Times /\ now' \in Times /\ \A s \in Schedules : sched[s].lastRun \in Nat
      BY <1>1 DEF IInv, TypeOK, RowType, Times
<1>3. TypeOK'
      BY <1>1, <1>2 DEF IInv, TypeOK, bounds
<1>4. RowsKnown'
      BY <1>1, <1>2 DEF IInv, RowsKnown, Times
<1>5. EditKnown' /\ NextAfterLast' /\ KeysKnown' /\ OneJobPerOccurrence'
      BY <1>1 DEF IInv, EditKnown, SameVersion, NextAfterLast, KeysKnown, OneJobPerOccurrence
<1>   QED BY <1>3, <1>4, <1>5 DEF IInv

-----------------------------------------------------------------------------
LEMMA StepInv == IInv /\ [Next]_vars => IInv'
<1>   SUFFICES ASSUME IInv, [Next]_vars PROVE IInv'
      OBVIOUS
<1>1. ASSUME NEW k \in Ticks, TickStep(k) \/ Crash(k) PROVE IInv'
      BY <1>1, ClaimInv, DispatchRowInv, AddEntryInv, CrashInv DEF TickStep
<1>2. ASSUME NEW s \in Schedules,
             Create(s) \/ SoftDelete(s) \/ \E on \in BOOLEAN : SetEnabled(s, on)
      PROVE  IInv'
      BY <1>2, CreateInv, SwitchInv
<1>3. ASSUME NEW c \in Clients, UpdateWrite(c) \/ \E s \in Schedules : UpdateRead(c, s)
      PROVE  IInv'
      BY <1>3, UpdateReadInv, UpdateWriteInv
<1>4. CASE UNCHANGED vars
  <2>1. TypeOK'
        BY <1>4 DEF vars, bounds, IInv, TypeOK
  <2>2. KeysKnown' /\ OneJobPerOccurrence'
        BY <1>4 DEF vars, IInv, KeysKnown, OneJobPerOccurrence
  <2>   QED BY <1>4, <2>1, <2>2, RowsUnchanged DEF vars, IInv
<1>   QED BY <1>1, <1>2, <1>3, <1>4, TimePassesInv DEF Next

\* IInv is an invariant of the scheduler.
THEOREM Inductive == Spec => []IInv
BY InitInv, StepInv, PTL DEF Spec

\* The rows, the jobs, the ticks and the requests always have their types.
THEOREM TypeCorrect == Spec => []TypeOK
<1>1. IInv => TypeOK
      BY DEF IInv
<1>   QED BY <1>1, Inductive, PTL

\* The misfire policy of claimDueSchedules and update: the next run is never
\* before the last one, but for the skew of the API's clock.
THEOREM NeverABackfill == Spec => []NextAfterLast
<1>1. IInv => NextAfterLast
      BY DEF IInv
<1>   QED BY <1>1, Inductive, PTL

\* dispatchOccurrence: however often an occurrence is claimed, it has at most
\* one job.
THEOREM OccurrenceRunsOnce == Spec => []OneJobPerOccurrence
<1>1. IInv => OneJobPerOccurrence
      BY DEF IInv
<1>   QED BY <1>1, Inductive, PTL

-----------------------------------------------------------------------------
(* Errors: each is charged for one occurrence, and a crash for one batch.     *)

LEMMA CarriedBy ==
    ASSUME NEW p
    PROVE  Carried(p) <=> \E k \in Ticks : \E o \in tick[k].batch : PairOf(o) = p
BY DEF Carried, InHand

LEMMA CarriedByNext ==
    ASSUME NEW p
    PROVE  Carried(p)' <=> \E k \in Ticks : \E o \in tick'[k].batch : PairOf(o) = p
BY DEF Carried, InHand, PairOf

LEMMA DeliveredIs ==
    ASSUME NEW p
    PROVE  /\ p \in Delivered <=> \E j \in jobs : j.added /\ <<j.schedule, j.due>> = p
           /\ p \in Delivered' <=> \E j \in jobs' : j.added /\ <<j.schedule, j.due>> = p
BY DEF Delivered

\* What a step of one tick may add to the charges: the occurrence whose add it
\* gives up, and those of its batch it leaves without a job.
LEMMA ChargedStep ==
    ASSUME NEW k \in Ticks, \A q \in Ticks \ {k} : tick'[q] = tick[q], NEW D,
           \A p : HasJob(p) => HasJob(p)',
           \A p : p \in Delivered => p \in Delivered',
           \A p : HasJob(p)' /\ ~HasJob(p) => Adding(p)',
           \A p \in claims' \ claims : Carried(p)',
           \A o \in tick[k].batch \ tick'[k].batch :
               PairOf(o) \in D \/ PairOf(o) \notin claims' \/ HasJob(PairOf(o))',
           tick[k].pc = "add" =>
               \A o \in tick[k].hand :
                   Adding(PairOf(o))' \/ PairOf(o) \in D \/ PairOf(o) \in Delivered'
    PROVE  Charged' \subseteq Charged \cup D
<1>   SUFFICES ASSUME NEW p \in Charged' PROVE p \in Charged \cup D
      OBVIOUS
<1>1. CASE HasJob(p)' /\ p \notin Delivered' /\ ~Adding(p)'
  <2>1. HasJob(p) /\ p \notin Delivered
        BY <1>1
  <2>2. CASE Adding(p)
    <3>1. PICK q \in Ticks : tick[q].pc = "add" /\ \E o \in tick[q].hand : PairOf(o) = p
          BY <2>2 DEF Adding
    <3>2. CASE q # k
      <4>1. tick'[q].pc = "add" /\ \E o \in tick'[q].hand : PairOf(o) = p
            BY <3>1, <3>2
      <4>   QED BY <1>1, <4>1 DEF Adding, PairOf
    <3>3. CASE q = k
          BY <1>1, <3>1, <3>3
    <3>   QED BY <3>2, <3>3
  <2>3. CASE ~Adding(p)
        BY <2>1, <2>3 DEF Charged, HasJob
  <2>   QED BY <2>2, <2>3
<1>2. CASE p \in claims' /\ ~HasJob(p)' /\ ~Carried(p)'
  <2>1. p \in claims /\ ~HasJob(p)
        BY <1>2
  <2>2. CASE Carried(p)
    <3>1. PICK q \in Ticks : \E o \in tick[q].batch : PairOf(o) = p
          BY <2>2, CarriedBy
    <3>2. PICK o \in tick[q].batch : PairOf(o) = p
          BY <3>1
    <3>3. o \notin tick'[q].batch
          BY <1>2, <3>2, CarriedByNext
    <3>4. q = k
          BY <3>2, <3>3
    <3>   QED BY <1>2, <3>2, <3>3, <3>4
  <2>3. CASE ~Carried(p)
        BY <2>1, <2>3 DEF Charged
  <2>   QED BY <2>2, <2>3
<1>   QED BY <1>1, <1>2 DEF Charged, HasJob

\* Payment: what is added is finite, and the bound grows by as much.
LEMMA Paid ==
    ASSUME ChargedInv, NEW D, IsFiniteSet(D), Charged' \subseteq Charged \cup D,
           NEW n \in Nat, Cardinality(D) <= n,
           errors + BatchSize * crashes \in Nat,
           errors' + BatchSize * crashes' = errors + BatchSize * crashes + n
    PROVE  IsFiniteSet(Charged)' /\ Cardinality(Charged') <= errors' + BatchSize * crashes'
<1>1. /\ IsFiniteSet(Charged \cup D)
      /\ Cardinality(Charged \cup D) <= Cardinality(Charged) + Cardinality(D)
  <2>1. /\ IsFiniteSet(Charged \cup D)
        /\ Cardinality(Charged \cup D) =
               Cardinality(Charged) + Cardinality(D) - Cardinality(Charged \cap D)
        BY FS_Union DEF ChargedInv
  <2>2. Cardinality(Charged) \in Nat /\ Cardinality(D) \in Nat
        BY FS_CardinalityType DEF ChargedInv
  <2>3. IsFiniteSet(Charged \cap D)
        BY FS_Subset DEF ChargedInv
  <2>4. Cardinality(Charged \cap D) \in Nat
        BY <2>3, FS_CardinalityType
  <2>   QED BY <2>1, <2>2, <2>4
<1>2. IsFiniteSet(Charged') /\ Cardinality(Charged') <= Cardinality(Charged \cup D)
      BY <1>1, FS_Subset
<1>3. /\ Cardinality(Charged') \in Nat /\ Cardinality(Charged \cup D) \in Nat
      /\ Cardinality(Charged) \in Nat /\ Cardinality(D) \in Nat
      BY <1>1, <1>2, FS_CardinalityType DEF ChargedInv
<1>4. Cardinality(Charged) <= errors + BatchSize * crashes
      BY DEF ChargedInv
<1>5. Cardinality(Charged') <= errors + BatchSize * crashes + n
      BY <1>1, <1>2, <1>3, <1>4
<1>   QED BY <1>2, <1>5

\* An error pays for one occurrence, a crash for a batch, no fault for none.
LEMMA Payment ==
    ASSUME IInv, ChargedInv
    PROVE  /\ NoError /\ Charged' \subseteq Charged =>
                  IsFiniteSet(Charged)' /\ Cardinality(Charged') <= errors' + BatchSize * crashes'
           /\ \A p : Error /\ Charged' \subseteq Charged \cup {p} =>
                  IsFiniteSet(Charged)' /\ Cardinality(Charged') <= errors' + BatchSize * crashes'
<1>1. errors \in Nat /\ crashes \in Nat /\ errors + BatchSize * crashes \in Nat
      BY DEF IInv, TypeOK
<1>2. ASSUME NoError, Charged' \subseteq Charged
      PROVE  IsFiniteSet(Charged)' /\ Cardinality(Charged') <= errors' + BatchSize * crashes'
  <2>1. errors' + BatchSize * crashes' = errors + BatchSize * crashes + 0
        BY <1>1, <1>2 DEF NoError, bounds
  <2>2. Charged' \subseteq Charged \cup {}
        BY <1>2
  <2>   QED BY <1>1, <2>1, <2>2, FS_EmptySet, Paid
<1>3. ASSUME NEW p, Error, Charged' \subseteq Charged \cup {p}
      PROVE  IsFiniteSet(Charged)' /\ Cardinality(Charged') <= errors' + BatchSize * crashes'
  <2>1. errors' + BatchSize * crashes' = errors + BatchSize * crashes + 1
        BY <1>1, <1>3 DEF Error
  <2>2. IsFiniteSet({p}) /\ Cardinality({p}) = 1
        BY FS_Singleton, Zenon
  <2>   QED BY <1>1, <1>3, <2>1, <2>2, Paid
<1>   QED BY <1>2, <1>3

LEMMA ChargedInitially == Init => ChargedInv
<1>   SUFFICES ASSUME Init PROVE ChargedInv
      OBVIOUS
<1>1. Charged = {}
      BY DEF Init, Charged
<1>2. \A k \in Ticks : tick[k].pc = "idle" /\ tick[k].batch = {} /\ tick[k].hand = {}
      BY DEF Init, NoTick
<1>3. IsFiniteSet({}) /\ Cardinality({}) <= BatchSize
      BY FS_EmptySet
<1>4. BatchKnown
      BY <1>2, <1>3 DEF BatchKnown
<1>   QED BY <1>1, <1>4, FS_EmptySet DEF Init, ChargedInv

\* The next state of a tick, and what it leaves to the others.
LEMMA BatchStays ==
    ASSUME BatchKnown, NEW k \in Ticks, \A q \in Ticks \ {k} : tick'[q] = tick[q],
           \A p : HasJob(p) => HasJob(p)',
           IsFiniteSet(tick'[k].batch), Cardinality(tick'[k].batch) <= BatchSize,
           tick'[k].pc = "idle" => tick'[k].batch = {},
           tick'[k].pc \in {"idle", "create"} => tick'[k].hand = {},
           tick'[k].pc \in {"add", "compensate"} =>
               \E o \in tick'[k].batch : tick'[k].hand = {o} /\ HasJob(PairOf(o))'
    PROVE  BatchKnown'
<1>1. ASSUME NEW q \in Ticks, q # k, tick'[q].pc \in {"add", "compensate"}
      PROVE  \E o \in tick'[q].batch : tick'[q].hand = {o} /\ HasJob(PairOf(o))'
      BY <1>1 DEF BatchKnown
<1>   QED BY <1>1 DEF BatchKnown, PairOf

\* The loop takes the occurrence in hand out of its batch.
LEMMA DoneStays ==
    ASSUME IInv, BatchKnown, NEW k \in Ticks, NEW o \in tick[k].batch, DoneWith(k, o),
           \A p : HasJob(p) => HasJob(p)'
    PROVE  /\ BatchKnown' /\ tick'[k].batch = tick[k].batch \ {o}
           /\ tick'[k].pc \in {"idle", "create"} /\ \A q \in Ticks \ {k} : tick'[q] = tick[q]
<1>1. /\ \A q \in Ticks \ {k} : tick'[q] = tick[q]
      /\ tick'[k] = IF tick[k].batch = {o} THEN NoTick
                    ELSE [pc |-> "create", hand |-> {}, batch |-> tick[k].batch \ {o}]
      BY DEF DoneWith, IInv, TypeOK
<1>2. /\ tick'[k].batch = tick[k].batch \ {o} /\ tick'[k].hand = {}
      /\ tick'[k].pc \in {"idle", "create"} /\ (tick'[k].pc = "idle" => tick'[k].batch = {})
      BY <1>1 DEF NoTick
<1>3. IsFiniteSet(tick[k].batch) /\ Cardinality(tick[k].batch) <= BatchSize
      BY DEF BatchKnown
<1>4. /\ IsFiniteSet(tick'[k].batch) /\ Cardinality(tick'[k].batch) <= Cardinality(tick[k].batch)
      BY <1>2, <1>3, FS_Subset
<1>5. Cardinality(tick'[k].batch) <= BatchSize
      BY <1>3, <1>4, FS_CardinalityType
<1>6. BatchKnown'
      BY <1>1, <1>2, <1>4, <1>5, BatchStays
<1>   QED BY <1>1, <1>2, <1>6

\* A claim charges nothing: what it claims it carries.
LEMMA ClaimPays == ASSUME IInv, ChargedInv, NEW k \in Ticks, Claim(k) PROVE ChargedInv'
<1>1. PICK b \in Batches :
         /\ tick' = [tick EXCEPT ![k] = [pc |-> "create", hand |-> {},
                                         batch |-> {Occurrence(s) : s \in b}]]
         /\ claims' = claims \cup {<<s, sched[s].nextRun>> : s \in b}
      BY DEF Claim
<1>   DEFINE occ == {Occurrence(s) : s \in b}
<1>2. /\ tick[k].pc = "idle" /\ tick[k].batch = {} /\ jobs' = jobs /\ NoError
      /\ tick'[k] = [pc |-> "create", hand |-> {}, batch |-> occ]
      /\ \A q \in Ticks \ {k} : tick'[q] = tick[q]
      BY <1>1 DEF Claim, IInv, TypeOK, ChargedInv, BatchKnown, NoError
<1>3. IsFiniteSet(occ) /\ Cardinality(occ) <= BatchSize
  <2>1. b \subseteq Schedules /\ Cardinality(b) <= BatchSize
        BY DEF Batches
  <2>2. IsFiniteSet(b)
        BY <2>1, FS_Subset
  <2>3. [s \in b |-> Occurrence(s)] \in Surjection(b, occ)
        BY DEF Surjection
  <2>4. IsFiniteSet(occ) /\ Cardinality(occ) <= Cardinality(b)
        BY <2>2, <2>3, FS_Surjection
  <2>   QED BY <2>1, <2>2, <2>4, FS_CardinalityType
<1>4. \A p : HasJob(p) <=> HasJob(p)'
      BY <1>2 DEF HasJob
<1>5. BatchKnown'
      BY <1>2, <1>3, <1>4, BatchStays DEF ChargedInv
<1>6. ASSUME NEW p \in claims' \ claims PROVE Carried(p)'
  <2>1. PICK s \in b : p = <<s, sched[s].nextRun>>
        BY <1>1, <1>6
  <2>2. Occurrence(s) \in tick'[k].batch /\ PairOf(Occurrence(s)) = p
        BY <1>2, <2>1 DEF Occurrence, PairOf
  <2>   QED BY <2>2, CarriedByNext
<1>7. Charged' \subseteq Charged \cup {}
  <2>1. \A p : p \in Delivered => p \in Delivered'
        BY <1>2 DEF Delivered
  <2>   QED BY <1>2, <1>4, <1>6, <2>1, ChargedStep
<1>8. Charged' \subseteq Charged
      BY <1>7
<1>   QED BY <1>2, <1>5, <1>8, Payment DEF ChargedInv

\* A row is created for the occurrence in hand, or it is done with.
LEMMA DispatchPays == ASSUME IInv, ChargedInv, NEW k \in Ticks, DispatchRow(k) PROVE ChargedInv'
<1>1. PICK o \in tick[k].batch :
          \/ /\ ~o.valid /\ NoError /\ UNCHANGED jobs
             /\ claims' = claims \ {<<o.schedule, o.due>>}
             /\ DoneWith(k, o)
          \/ /\ o.valid /\ ~Replay(o) /\ NoError /\ UNCHANGED claims
             /\ jobs' = jobs \cup {Job(o)}
             /\ tick' = [tick EXCEPT ![k].pc = "add", ![k].hand = {o}]
          \/ /\ o.valid /\ Replay(o) /\ NoError /\ UNCHANGED <<jobs, claims>>
             /\ DoneWith(k, o)
          \/ Error /\ UNCHANGED <<jobs, claims>> /\ DoneWith(k, o)
      BY DEF DispatchRow
<1>2. tick[k].pc = "create" /\ BatchKnown
      BY DEF DispatchRow, ChargedInv
<1>3. CASE /\ UNCHANGED jobs /\ DoneWith(k, o)
           /\ \/ NoError /\ claims' = claims \ {<<o.schedule, o.due>>}
              \/ NoError /\ Replay(o) /\ claims' = claims
              \/ Error /\ claims' = claims
  <2>1. /\ \A p : HasJob(p) <=> HasJob(p)'
        /\ \A p : p \in Delivered => p \in Delivered'
        BY <1>3 DEF HasJob, Delivered
  <2>2. /\ BatchKnown' /\ tick'[k].batch = tick[k].batch \ {o}
        /\ \A q \in Ticks \ {k} : tick'[q] = tick[q]
        BY <1>2, <1>3, <2>1, DoneStays
  <2>3. CASE NoError /\ (HasJob(PairOf(o)) \/ PairOf(o) \notin claims') /\ claims' \subseteq claims
    <3>1. Charged' \subseteq Charged \cup {}
          BY <1>2, <2>1, <2>2, <2>3, ChargedStep
    <3>2. Charged' \subseteq Charged
          BY <3>1
    <3>   QED BY <2>2, <2>3, <3>2, Payment DEF ChargedInv
  <2>4. CASE Error /\ claims' = claims
    <3>1. Charged' \subseteq Charged \cup {PairOf(o)}
          BY <1>2, <2>1, <2>2, <2>4, ChargedStep
    <3>   QED BY <2>2, <2>4, <3>1, Payment DEF ChargedInv
  <2>5. Replay(o) => HasJob(PairOf(o))
        BY DEF Replay, HasJob, PairOf, Key, IInv, KeysKnown
  <2>6. claims' = claims \ {<<o.schedule, o.due>>} => PairOf(o) \notin claims'
        BY DEF PairOf
  <2>   QED BY <1>3, <2>3, <2>4, <2>5, <2>6
<1>4. CASE /\ NoError /\ UNCHANGED claims /\ jobs' = jobs \cup {Job(o)}
           /\ tick' = [tick EXCEPT ![k].pc = "add", ![k].hand = {o}]
  <2>1. Job(o).schedule = o.schedule /\ Job(o).due = o.due
        BY DEF Job
  <2>2. /\ \A p : HasJob(p) => HasJob(p)'
        /\ \A p : p \in Delivered => p \in Delivered'
        /\ \A p : HasJob(p)' /\ ~HasJob(p) => p = PairOf(o)
        /\ HasJob(PairOf(o))'
        BY <1>4, <2>1 DEF HasJob, Delivered, PairOf
  <2>3. /\ tick'[k].pc = "add" /\ tick'[k].hand = {o} /\ tick'[k].batch = tick[k].batch
        /\ \A q \in Ticks \ {k} : tick'[q] = tick[q]
        BY <1>4 DEF IInv, TypeOK, TickType
  <2>4. Adding(PairOf(o))'
        BY <2>3 DEF Adding, PairOf
  <2>5. BatchKnown'
    <3>1. IsFiniteSet(tick'[k].batch) /\ Cardinality(tick'[k].batch) <= BatchSize
          BY <1>2, <2>3 DEF BatchKnown
    <3>   QED BY <1>2, <2>2, <2>3, <3>1, BatchStays
  <2>6. Charged' \subseteq Charged \cup {}
        BY <1>2, <1>4, <2>2, <2>3, <2>4, ChargedStep
  <2>7. Charged' \subseteq Charged
        BY <2>6
  <2>   QED BY <1>4, <2>5, <2>7, Payment DEF ChargedInv
<1>   QED BY <1>1, <1>3, <1>4

\* The writes of the job rows by id.
LEMMA MarkedJobs ==
    ASSUME IInv, NEW o, HasJob(PairOf(o)), jobs' = AddedJobs(o)
    PROVE  /\ \A p : HasJob(p) <=> HasJob(p)'
           /\ \A p : p \in Delivered => p \in Delivered'
           /\ PairOf(o) \in Delivered'
<1>1. \A j \in jobs : /\ [j EXCEPT !.added = TRUE].schedule = j.schedule
                      /\ [j EXCEPT !.added = TRUE].due = j.due /\ [j EXCEPT !.added = TRUE].added
      BY DEF IInv, TypeOK, JobType
<1>2. \A j \in jobs : \E i \in jobs' : /\ i.schedule = j.schedule /\ i.due = j.due
                                       /\ (j.added => i.added) /\ (j \in Mine(o) => i.added)
  <2>   TAKE j \in jobs
  <2>1. CASE j \in Mine(o)
    <3>1. [j EXCEPT !.added = TRUE] \in jobs'
          BY <2>1 DEF AddedJobs
    <3>   QED BY <1>1, <3>1
  <2>2. CASE j \notin Mine(o)
    <3>1. j \in jobs'
          BY <2>2 DEF AddedJobs
    <3>   QED BY <2>2, <3>1
  <2>   QED BY <2>1, <2>2
<1>3. \A i \in jobs' : \E j \in jobs : i.schedule = j.schedule /\ i.due = j.due
      BY ZenonT(30), <1>1 DEF AddedJobs, Mine
<1>4. \A p : HasJob(p) <=> HasJob(p)'
      BY <1>2, <1>3 DEF HasJob
<1>5. \A p : p \in Delivered => p \in Delivered'
      BY <1>2, DeliveredIs
<1>6. \E j \in Mine(o) : <<j.schedule, j.due>> = PairOf(o)
      BY DEF HasJob, PairOf, Mine, Key, IInv, KeysKnown
<1>7. PairOf(o) \in Delivered'
      BY <1>2, <1>6, DeliveredIs DEF Mine
<1>   QED BY <1>4, <1>5, <1>7

LEMMA FailedJobs ==
    ASSUME IInv, NEW o, jobs' = CompensatedJobs(o)
    PROVE  /\ \A p : HasJob(p) <=> HasJob(p)'
           /\ \A p : p \in Delivered => p \in Delivered'
<1>1. \A j \in jobs : /\ [j EXCEPT !.status = "FAILED"].schedule = j.schedule
                      /\ [j EXCEPT !.status = "FAILED"].due = j.due
                      /\ [j EXCEPT !.status = "FAILED"].added = j.added
      BY DEF IInv, TypeOK, JobType
<1>2. \A j \in jobs : \E i \in jobs' : /\ i.schedule = j.schedule /\ i.due = j.due
                                       /\ (j.added => i.added)
      BY <1>1 DEF CompensatedJobs
<1>3. \A i \in jobs' : \E j \in jobs : i.schedule = j.schedule /\ i.due = j.due
      BY ZenonT(30), <1>1 DEF CompensatedJobs, Mine
<1>   QED BY <1>2, <1>3, DeliveredIs DEF HasJob

\* An add that throws is paid for, even if the entry is there.
LEMMA AddPays == ASSUME IInv, ChargedInv, NEW k \in Ticks, AddEntry(k) PROVE ChargedInv'
<1>1. PICK o \in tick[k].batch : tick[k].hand = {o} /\ HasJob(PairOf(o))
      BY DEF AddEntry, ChargedInv, BatchKnown
<1>2. tick[k].pc = "add" /\ BatchKnown /\ claims' = claims
      BY DEF AddEntry, ChargedInv
<1>3. CASE jobs' = AddedJobs(o) /\ NoError /\ DoneWith(k, o)
  <2>1. /\ \A p : HasJob(p) <=> HasJob(p)'
        /\ \A p : p \in Delivered => p \in Delivered'
        /\ PairOf(o) \in Delivered'
        BY <1>1, <1>3, MarkedJobs
  <2>2. /\ BatchKnown' /\ tick'[k].batch = tick[k].batch \ {o}
        /\ \A q \in Ticks \ {k} : tick'[q] = tick[q]
        BY <1>2, <1>3, <2>1, DoneStays
  <2>3. Charged' \subseteq Charged \cup {}
        BY <1>1, <1>2, <2>1, <2>2, ChargedStep
  <2>4. Charged' \subseteq Charged
        BY <2>3
  <2>   QED BY <1>3, <2>2, <2>4, Payment DEF ChargedInv
<1>4. CASE /\ Error /\ (UNCHANGED jobs \/ jobs' = AddedJobs(o))
           /\ tick' = [tick EXCEPT ![k].pc = "compensate"]
  <2>1. /\ \A p : HasJob(p) <=> HasJob(p)'
        /\ \A p : p \in Delivered => p \in Delivered'
    <3>1. CASE UNCHANGED jobs
          BY <3>1 DEF HasJob, Delivered
    <3>   QED BY <1>1, <1>4, <3>1, MarkedJobs
  <2>2. /\ tick'[k].pc = "compensate" /\ tick'[k].hand = {o} /\ tick'[k].batch = tick[k].batch
        /\ \A q \in Ticks \ {k} : tick'[q] = tick[q]
        BY <1>1, <1>4 DEF IInv, TypeOK, TickType
  <2>3. BatchKnown'
    <3>1. IsFiniteSet(tick'[k].batch) /\ Cardinality(tick'[k].batch) <= BatchSize
          BY <1>2, <2>2 DEF BatchKnown
    <3>   QED BY <1>1, <1>2, <2>1, <2>2, <3>1, BatchStays
  <2>4. Charged' \subseteq Charged \cup {PairOf(o)}
        BY <1>1, <1>2, <2>1, <2>2, ChargedStep
  <2>   QED BY <1>4, <2>3, <2>4, Payment DEF ChargedInv
<1>   QED BY <1>1, <1>3, <1>4 DEF AddEntry

\* The compensation costs nothing more.
LEMMA CompensatePays == ASSUME IInv, ChargedInv, NEW k \in Ticks, Compensate(k) PROVE ChargedInv'
<1>1. PICK o \in tick[k].batch : tick[k].hand = {o} /\ HasJob(PairOf(o))
      BY DEF Compensate, ChargedInv, BatchKnown
<1>2. tick[k].pc = "compensate" /\ BatchKnown /\ claims' = claims /\ DoneWith(k, o)
      BY <1>1 DEF Compensate, ChargedInv
<1>3. /\ \A p : HasJob(p) <=> HasJob(p)'
      /\ \A p : p \in Delivered => p \in Delivered'
  <2>1. CASE UNCHANGED jobs
        BY <2>1 DEF HasJob, Delivered
  <2>2. CASE jobs' = CompensatedJobs(o)
        BY <2>2, FailedJobs
  <2>   QED BY <1>1, <2>1, <2>2 DEF Compensate
<1>4. /\ BatchKnown' /\ tick'[k].batch = tick[k].batch \ {o}
      /\ \A q \in Ticks \ {k} : tick'[q] = tick[q]
      BY <1>2, <1>3, DoneStays
<1>5. Charged' \subseteq Charged \cup {}
      BY <1>1, <1>2, <1>3, <1>4, ChargedStep
<1>6. Charged' \subseteq Charged /\ Charged' \subseteq Charged \cup {PairOf(o)}
      BY <1>5
<1>   QED BY <1>1, <1>4, <1>6, Payment DEF Compensate, ChargedInv

\* A tick that dies takes its batch with it.
LEMMA CrashPays == ASSUME IInv, ChargedInv, NEW k \in Ticks, Crash(k) PROVE ChargedInv'
<1>   DEFINE D == {PairOf(o) : o \in tick[k].batch}
<1>1. /\ UNCHANGED <<jobs, claims, errors>> /\ crashes' = crashes + 1
      /\ tick'[k] = NoTick /\ \A q \in Ticks \ {k} : tick'[q] = tick[q]
      BY DEF Crash, IInv, TypeOK
<1>2. /\ \A p : HasJob(p) <=> HasJob(p)'
      /\ \A p : p \in Delivered => p \in Delivered'
      BY <1>1 DEF HasJob, Delivered
<1>3. IsFiniteSet(tick[k].batch) /\ Cardinality(tick[k].batch) <= BatchSize /\ BatchKnown
      BY DEF ChargedInv, BatchKnown
<1>4. BatchKnown'
  <2>1. IsFiniteSet({}) /\ Cardinality({}) <= BatchSize
        BY FS_EmptySet
  <2>2. tick'[k].pc = "idle" /\ tick'[k].batch = {} /\ tick'[k].hand = {}
        BY <1>1 DEF NoTick
  <2>   QED BY <1>1, <1>2, <1>3, <2>1, <2>2, BatchStays
<1>5. IsFiniteSet(D) /\ Cardinality(D) <= BatchSize
  <2>1. [o \in tick[k].batch |-> PairOf(o)] \in Surjection(tick[k].batch, D)
        BY DEF Surjection
  <2>2. IsFiniteSet(D) /\ Cardinality(D) <= Cardinality(tick[k].batch)
        BY <1>3, <2>1, FS_Surjection
  <2>   QED BY <1>3, <2>2, FS_CardinalityType
<1>6. tick[k].pc = "add" => \A o \in tick[k].hand : PairOf(o) \in D
      BY <1>3 DEF BatchKnown
<1>7. Charged' \subseteq Charged \cup D
  <2>1. \A o \in tick[k].batch : PairOf(o) \in D
        OBVIOUS
  <2>2. claims' = claims
        BY <1>1
  <2>   HIDE DEF D
  <2>   QED BY <1>1, <1>2, <1>6, <2>1, <2>2, ChargedStep
<1>8. /\ errors + BatchSize * crashes \in Nat
      /\ errors' + BatchSize * crashes' = errors + BatchSize * crashes + BatchSize
      BY <1>1 DEF IInv, TypeOK
<1>   QED BY <1>4, <1>5, <1>7, <1>8, Paid DEF ChargedInv

LEMMA ChargedStepInv == ASSUME IInv, ChargedInv, [Next]_vars PROVE ChargedInv'
<1>1. ASSUME NEW k \in Ticks, TickStep(k) \/ Crash(k) PROVE ChargedInv'
      BY <1>1, ClaimPays, DispatchPays, AddPays, CompensatePays, CrashPays DEF TickStep
<1>2. ASSUME UNCHANGED <<jobs, tick, claims, errors, crashes>> PROVE ChargedInv'
  <2>1. Charged' = Charged
        BY <1>2 DEF Charged, Delivered, Adding, PairOf, HasJob, Carried, InHand
  <2>2. BatchKnown'
        BY <1>2 DEF ChargedInv, BatchKnown, HasJob, PairOf
  <2>   QED BY <1>2, <2>1, <2>2 DEF ChargedInv
<1>   QED BY <1>1, <1>2 DEF Next, Create, SoftDelete, SetEnabled, UpdateWrite, UpdateRead, Count,
         TimePasses, bounds, vars

\* Per-row isolation in the dispatch loop: a failed call costs the occurrence it
\* met, and only a tick that dies costs the rest of its batch.
THEOREM ErrorsAreIsolated == Spec => []ErrorCostsOne
<1>1. IInv /\ ChargedInv => ErrorCostsOne
  <2>   SUFFICES ASSUME IInv, ChargedInv PROVE ErrorCostsOne
        OBVIOUS
  <2>1. ASSUME NEW p \in Lost PROVE p \in Charged
    <3>1. p \in claims /\ p = <<p[1], p[2]>> /\ p \notin Delivered
          BY <2>1 DEF Lost, IInv, TypeOK
    <3>2. ~Carried(p)
          BY <2>1, <3>1 DEF Lost, Carried, PairOf
    <3>3. ~Adding(p)
      <4>1. \A k \in Ticks : tick[k].pc = "add" => tick[k].hand \subseteq tick[k].batch
            BY DEF ChargedInv, BatchKnown
      <4>   QED BY <3>2, <4>1, CarriedBy DEF Adding
    <3>   QED BY <3>1, <3>2, <3>3 DEF Charged, HasJob
  <2>2. IsFiniteSet(Lost) /\ Cardinality(Lost) <= Cardinality(Charged)
        BY <2>1, FS_Subset DEF ChargedInv
  <2>3. Cardinality(Lost) \in Nat /\ Cardinality(Charged) \in Nat
        BY <2>2, FS_CardinalityType DEF ChargedInv
  <2>   QED BY <2>2, <2>3 DEF ChargedInv, ErrorCostsOne, IInv, TypeOK
<1>2. ChargedInv /\ IInv /\ [Next]_vars => ChargedInv'
      BY ChargedStepInv
<1>   QED BY <1>1, <1>2, ChargedInitially, Inductive, PTL DEF Spec
=============================================================================
