----------------------- MODULE BackgroundJobsProofs -----------------------
(***************************************************************************)
(* Machine-checked theorems of BackgroundJobs, for every set of workers,   *)
(* sweepers and clients, every attempts budget and every combination of    *)
(* faults.                                                                 *)
(***************************************************************************)
EXTENDS BackgroundJobs, TLAPS

USE DEF Bare, Entries, Terminal, Retryable, UndispatchedRow, ResetRow, PickupGuard,
        SnapshotAttempts, CancelRequested, WithinBudget, CancelledRow, RetryId

\* The shapes the state is assigned from are well typed.
LEMMA ShapeTypes ==
    /\ NoRow \in RowType /\ Idle \in ProcType
    /\ Absent \in EntryType /\ Finished \in EntryType
    /\ \A n \in 0..1 : Waiting(n) \in EntryType
    /\ \A w \in Workers, n \in 0..1 : Active(w, n) \in EntryType
  BY BoundAssumption DEF NoRow, Idle, Absent, Finished, Waiting, Active,
     RowType, ProcType, EntryType, Labels

\* The record updates of pickup, completion and dead-lettering keep the types.
LEMMA AttemptTypes ==
    ASSUME NEW r \in RowType, NEW n \in Nat
    PROVE  /\ [r EXCEPT !.status = "RUNNING", !.attempts = n] \in RowType
           /\ [r EXCEPT !.status = "COMPLETED", !.result = n] \in RowType
  BY DEF RowType

LEMMA DeadLetterTypes ==
    ASSUME NEW r \in RowType, NEW v \in Retryable
    PROVE  [r EXCEPT !.status = v, !.deadLettered = TRUE] \in RowType
  BY DEF RowType

LEMMA RunTypes ==
    ASSUME NEW q \in ProcType, NEW l \in Labels
    PROVE  /\ q.mine \in Nat /\ q.verdict \in Retryable
           /\ \A n \in Nat : [q EXCEPT !.pc = l, !.mine = n] \in ProcType
           /\ \A v \in Retryable : [q EXCEPT !.pc = l, !.verdict = v] \in ProcType
  BY DEF ProcType

LEMMA TypeInit == Init => TypeOK
<1> SUFFICES ASSUME Init PROVE TypeOK
  OBVIOUS
<1>1. row \in RowType /\ overdue \in BOOLEAN
  BY ShapeTypes DEF Init
<1>2. entry \in [Entries -> EntryType] /\ proc \in [Procs -> ProcType]
  BY ShapeTypes DEF Init
<1>3. faults \subseteq Faults /\ manual \in 0..MaxManual /\ cancelAt \in Nat
  BY BoundAssumption DEF Init
<1> QED
  BY <1>1, <1>2, <1>3 DEF TypeOK

\* The two ways a run moves on keep processes well typed.
LEMMA GotoType ==
    ASSUME NEW p \in Procs, NEW l \in Labels, proc \in [Procs -> ProcType], Goto(p, l)
    PROVE  proc' \in [Procs -> ProcType]
  BY DEF Goto, ProcType

LEMMA EndRunType ==
    ASSUME NEW p \in Procs, proc \in [Procs -> ProcType], EndRun(p)
    PROVE  proc' \in [Procs -> ProcType]
  BY ShapeTypes DEF EndRun, ProcType, Labels

LEMMA AddType ==
    ASSUME NEW e, entry \in [Entries -> EntryType],
           Dispatched(e) \/ DispatchFailed(e), faults \subseteq Faults
    PROVE  entry' \in [Entries -> EntryType] /\ faults' \subseteq Faults
  BY ShapeTypes, BoundAssumption DEF Dispatched, DispatchFailed, AddEntry, Fault

LEMMA FaultType ==
    ASSUME NEW k, faults \subseteq Faults, Fault(k)
    PROVE  faults' \subseteq Faults
  BY BoundAssumption DEF Fault

LEMMA TypeStep == TypeOK /\ [Next]_vars => TypeOK'
<1> SUFFICES ASSUME TypeOK, [Next]_vars PROVE TypeOK'
  OBVIOUS
<1> USE ShapeTypes, BoundAssumption
<1>t. /\ row \in RowType /\ overdue \in BOOLEAN
      /\ entry \in [Entries -> EntryType] /\ proc \in [Procs -> ProcType]
      /\ faults \subseteq Faults /\ manual \in 0..MaxManual /\ cancelAt \in Nat
  BY DEF TypeOK
<1>0. CASE UNCHANGED vars
  BY <1>0 DEF TypeOK, vars, rowVars, auxVars
<1>c. ASSUME NEW c \in Clients, ClientRequest(c) \/ ClientStep(c) PROVE TypeOK'
  <2>p. c \in Procs BY DEF Procs
  <2>1. CASE EnqueueCreate(c)
    BY <1>t, <2>p, <2>1, GotoType DEF EnqueueCreate, TypeOK, RowType, Labels, auxVars
  <2>2. CASE CancelRead(c)
    BY <1>t, <2>p, <2>2, GotoType DEF CancelRead, TypeOK, rowVars, Labels, auxVars
  <2>3. CASE RetryRead(c)
    BY <1>t, <2>p, <2>3, GotoType DEF RetryRead, TypeOK, rowVars, Labels, auxVars
  <2>4. CASE EnqueueAdd(c)
    BY <1>t, <2>p, <2>4, GotoType, EndRunType, AddType DEF EnqueueAdd, TypeOK, rowVars, Labels
  <2>5. CASE EnqueueFailed(c)
    BY <1>t, <2>p, <2>5, EndRunType, FaultType DEF EnqueueFailed, TypeOK, RowType
  <2>6. CASE CancelWrite(c)
    BY <1>t, <2>p, <2>6, EndRunType DEF CancelWrite, TypeOK, RowType
  <2>7. CASE RetryWrite(c)
    <3>1. proc' \in [Procs -> ProcType]
      BY <1>t, <2>p, <2>7, GotoType, EndRunType DEF RetryWrite, Labels
    <3>2. row' \in RowType
      BY <1>t, <2>7 DEF RetryWrite, RowType
    <3>3. manual' \in 0..MaxManual /\ cancelAt' \in Nat
      BY <1>t, <2>7 DEF RetryWrite
    <3> QED
      BY <1>t, <2>7, <3>1, <3>2, <3>3 DEF RetryWrite, TypeOK
  <2>8. CASE RetryRemove(c)
    BY <1>t, <2>p, <2>8, GotoType DEF RetryRemove, TypeOK, rowVars, Labels, auxVars
  <2>9. CASE RetryAdd(c)
    BY <1>t, <2>p, <2>9, GotoType, EndRunType, AddType DEF RetryAdd, TypeOK, rowVars, Labels
  <2>10. CASE Compensate(c)
    BY ZenonT(30), <1>t, <2>p, <2>10, EndRunType, FaultType DEF Compensate, TypeOK, RowType
  <2> QED
    BY <1>c, <2>1, <2>2, <2>3, <2>4, <2>5, <2>6, <2>7, <2>8, <2>9, <2>10
    DEF ClientRequest, ClientStep
<1>r. ASSUME NEW p \in Procs, RecoveryStep(p) \/ RunFails(p) PROVE TypeOK'
  <2>1. CASE Decide(p)
    BY <1>t, <2>1, GotoType DEF Decide, TypeOK, rowVars, Labels, auxVars
  <2>2. CASE Terminate(p)
    <3>1. [row EXCEPT !.status = proc[p].verdict, !.deadLettered = TRUE] \in RowType
      <4>1. proc[p] \in ProcType /\ "idle" \in Labels
        BY <1>t DEF Labels
      <4> QED
        BY <1>t, <4>1, RunTypes, DeadLetterTypes
    <3>2. [row EXCEPT !.status = "FAILED"] \in RowType
      BY <1>t DEF RowType
    <3>3. row' \in RowType
      BY <1>t, <2>2, <3>1, <3>2 DEF Terminate
    <3> QED
      BY <1>t, <2>2, <3>3, EndRunType DEF Terminate, TypeOK, auxVars
  <2>3. CASE Requeue(p)
    <3>1. proc' \in [Procs -> ProcType]
      BY <1>t, <2>3, GotoType, EndRunType DEF Requeue, Labels
    <3>2. row' \in RowType
      BY <1>t, <2>3 DEF Requeue, RowType
    <3> QED
      BY <1>t, <2>3, <3>1, <3>2 DEF Requeue, TypeOK, auxVars
  <2>4. CASE RetryDispatch(p)
    BY <1>t, <2>4, GotoType, EndRunType, AddType DEF RetryDispatch, TypeOK, rowVars, Labels
  <2>5. CASE Compensate(p)
    BY <1>t, <2>5, EndRunType, FaultType DEF Compensate, TypeOK, RowType
  <2>6. CASE RunFails(p)
    BY <1>t, <2>6, EndRunType, FaultType DEF RunFails, TypeOK, rowVars
  <2> QED
    BY <1>r, <2>1, <2>2, <2>3, <2>4, <2>5, <2>6 DEF RecoveryStep
<1>w. ASSUME NEW w \in Workers, WorkerStep(w) \/ RunFails(w) PROVE TypeOK'
  <2>p. w \in Procs BY DEF Procs
  <2>1. ASSUME NEW e \in Entries, Take(w, e) PROVE TypeOK'
    BY <1>t, <2>p, <2>1 DEF Take, TypeOK, rowVars, auxVars, ProcType, EntryType, Idle, Active, Labels
  <2>2. CASE Pickup(w)
    <3>1. row' \in RowType /\ overdue' \in BOOLEAN
      <4>1. row.attempts \in Nat
        BY <1>t DEF RowType
      <4>2. PICK n \in Nat : n = row.attempts + 1
        BY <4>1
      <4>3. [row EXCEPT !.status = "RUNNING", !.attempts = n] \in RowType
        BY <1>t, AttemptTypes
      <4> QED
        BY <1>t, <2>2, <4>2, <4>3 DEF Pickup, rowVars
    <3>2. ASSUME proc' = [proc EXCEPT ![w].pc = "handle", ![w].mine = row.attempts + 1]
          PROVE  proc' \in [Procs -> ProcType]
      <4>1. [proc[w] EXCEPT !.pc = "handle", !.mine = row.attempts + 1] \in ProcType
        <5>1. row.attempts + 1 \in Nat /\ "handle" \in Labels /\ proc[w] \in ProcType
          BY <1>t, <2>p DEF RowType, Labels
        <5> QED
          BY <5>1, RunTypes
      <4>2. proc' = [proc EXCEPT ![w] = [proc[w] EXCEPT !.pc = "handle", !.mine = row.attempts + 1]]
        BY <1>t, <2>p, <3>2 DEF ProcType
      <4> QED
        BY <1>t, <2>p, <4>1, <4>2
    <3>3. proc' \in [Procs -> ProcType]
      BY <1>t, <2>p, <2>2, <3>2, EndRunType DEF Pickup
    <3>4. faults' \subseteq Faults
      BY <1>t, <2>2, FaultType DEF Pickup
    <3> QED
      BY <1>t, <2>2, <3>1, <3>3, <3>4 DEF Pickup, TypeOK
  <2>3. CASE Handle(w)
    <3>1. ASSUME proc' = [proc EXCEPT ![w].pc = "decide", ![w].verdict = "TIMED_OUT"]
          PROVE  proc' \in [Procs -> ProcType]
      <4>1. [proc[w] EXCEPT !.pc = "decide", !.verdict = "TIMED_OUT"] \in ProcType
        BY <1>t, <2>p DEF ProcType, Labels
      <4>2. proc' = [proc EXCEPT ![w] = [proc[w] EXCEPT !.pc = "decide", !.verdict = "TIMED_OUT"]]
        BY <1>t, <2>p, <3>1 DEF ProcType
      <4> QED
        BY <1>t, <2>p, <4>1, <4>2
    <3>2. proc' \in [Procs -> ProcType]
      BY <1>t, <2>p, <2>3, <3>1, GotoType DEF Handle, Labels
    <3> QED
      BY <1>t, <2>3, <3>2 DEF Handle, TypeOK, rowVars, auxVars
  <2>4. CASE Complete(w)
    <3>1. proc' \in [Procs -> ProcType]
      BY <1>t, <2>p, <2>4, GotoType, EndRunType DEF Complete, Labels
    <3>2. row' \in RowType
      <4>1. [row EXCEPT !.status = "COMPLETED", !.result = proc[w].mine] \in RowType
        <5>1. proc[w] \in ProcType /\ "idle" \in Labels
          BY <1>t, <2>p DEF Labels
        <5> QED
          BY <1>t, <5>1, RunTypes, AttemptTypes
      <4> QED
        BY <1>t, <2>4, <4>1 DEF Complete
    <3>3. faults' \subseteq Faults
      BY <1>t, <2>4, FaultType DEF Complete
    <3> QED
      BY <1>t, <2>4, <3>1, <3>2, <3>3 DEF Complete, TypeOK
  <2>5. CASE Finalize(w)
    BY <1>t, <2>p, <2>5 DEF Finalize, TypeOK, rowVars, auxVars
  <2> QED
    BY <1>w, <1>r, <2>p, <2>1, <2>2, <2>3, <2>4, <2>5 DEF WorkerStep
<1>s. ASSUME NEW s \in Sweepers, SweeperStep(s) \/ RunFails(s) PROVE TypeOK'
  <2>p. s \in Procs BY DEF Procs
  <2>1. CASE Sweep(s)
    BY <1>t, <2>p, <2>1 DEF Sweep, Stale, TypeOK, rowVars, auxVars, ProcType, RowType, Idle, Labels
  <2> QED
    BY <1>s, <1>r, <2>p, <2>1 DEF SweeperStep
<1>e. ASSUME NEW e \in Entries, Stalled(e) \/ Expire(e) PROVE TypeOK'
  BY <1>t, <1>e, FaultType DEF Stalled, Expire, TypeOK, rowVars, auxVars
<1>x. ASSUME NEW p \in Procs, Crash(p) PROVE TypeOK'
  BY <1>t, <1>x, FaultType DEF Crash, TypeOK, rowVars
<1>o. CASE TimeoutElapses
  BY <1>t, <1>o DEF TimeoutElapses, TypeOK, auxVars
<1> QED
  BY <1>0, <1>c, <1>w, <1>s, <1>e, <1>x, <1>o DEF Next

\* Type correctness: every reachable state of the row, of the broker and of
\* the processes has the shape the code gives it.
THEOREM TypeCorrect == Spec => []TypeOK
  BY TypeInit, TypeStep, PTL DEF Spec

-----------------------------------------------------------------------------
(* The inductive invariant.  Most steps are mild: they leave the attempt    *)
(* counter alone, at most settle the row, and bring no process to a point   *)
(* from which it requeues or dispatches.                                    *)

MildProcs ==
    \A q \in Procs :
        /\ proc'[q].mine \in {0, proc[q].mine}
        /\ proc'[q].pc \in {"requeue", "retryDispatch"} =>
              proc'[q].pc = proc[q].pc /\ proc'[q].mine = proc[q].mine
        /\ q \in Sweepers /\ proc[q].pc = "idle" =>
              proc'[q].pc = "idle" \/ proc'[q].mine = 0

MildEntries == \A n \in Entries \ {Bare} : entry'[n] # Absent => entry[n] # Absent

MildRow ==
    /\ \/ row'.status = row.status /\ manual' = manual
       \/ row'.status \in Terminal /\ manual' = manual
       \/ row.status = "NONE" /\ row'.status = "QUEUED" /\ manual' = manual
       \/ row.status \in Retryable /\ row'.status = "QUEUED" /\ manual' = manual + 1
    /\ row'.attempts = row.attempts
    /\ row'.status = "COMPLETED" => row'.result = row'.attempts
    /\ overdue' = overdue \/ overdue' = TRUE

\* What keeps CancelKnown: the job not cancelled any more, or cancelled as before.
MildCancel ==
    \/ row'.cancelRequested = FALSE
    \/ /\ row'.cancelRequested = row.cancelRequested /\ cancelAt' = cancelAt
       /\ row'.status \notin Terminal =>
             \/ row'.status = row.status
             \/ row.status = "NONE" /\ row'.status = "QUEUED"

LEMMA GotoEffect ==
    ASSUME NEW p \in Procs, NEW l, proc \in [Procs -> ProcType], Goto(p, l)
    PROVE  \A q \in Procs : /\ proc'[q].mine = proc[q].mine
                            /\ proc'[q].pc = IF q = p THEN l ELSE proc[q].pc
  BY DEF Goto, ProcType

LEMMA EndRunEffect ==
    ASSUME NEW p \in Procs, proc \in [Procs -> ProcType], EndRun(p)
    PROVE  /\ \A q \in Procs \ {p} : proc'[q] = proc[q]
           /\ proc'[p].mine = 0 /\ proc'[p].pc \in {"idle", "finalize"}
  BY DEF EndRun, Idle, ProcType

LEMMA EndRunMild ==
    ASSUME NEW p \in Procs, proc \in [Procs -> ProcType], EndRun(p)
    PROVE  MildProcs
<1>1. \A q \in Procs : q # p => proc'[q] = proc[q]
  BY EndRunEffect
<1>2. proc'[p].mine = 0 /\ proc'[p].pc \in {"idle", "finalize"}
  BY EndRunEffect
<1>3. ASSUME NEW q \in Procs, q = p
      PROVE  /\ proc'[q].mine \in {0, proc[q].mine}
             /\ proc'[q].pc \notin {"requeue", "retryDispatch"}
  BY <1>2, <1>3
<1> QED
  BY <1>1, <1>2, <1>3 DEF MildProcs

LEMMA GotoMild ==
    ASSUME NEW p \in Procs, NEW l, proc \in [Procs -> ProcType], Goto(p, l),
           l \notin {"requeue", "retryDispatch"}, p \in Sweepers => ~At(p, "idle")
    PROVE  MildProcs
  BY GotoEffect DEF MildProcs, At

LEMMA MildStep ==
    ASSUME IInv, TypeOK', MildRow, MildEntries, MildProcs, CancelKnown'
    PROVE  IInv'
<1>t. /\ row.attempts \in Nat /\ row'.attempts \in Nat /\ cancelAt \in Nat
      /\ manual \in Nat /\ manual' \in Nat /\ MaxAttempts \in Nat \ {0}
      /\ \A q \in Procs : proc[q].mine \in Nat /\ proc'[q].mine \in Nat
  BY BoundAssumption DEF IInv, TypeOK, RowType, ProcType
<1>1. Started' /\ Captured'
  BY <1>t DEF IInv, Started, Captured, MildRow, MildProcs
<1>2. ResultOfLatestAttempt'
  BY DEF MildRow, ResultOfLatestAttempt
<1>3. AttemptBudget'
  BY <1>t DEF IInv, AttemptBudget, Started, MildRow
<1>4. RequeueInBudget'
  BY <1>t DEF IInv, RequeueInBudget, MildProcs, At
<1>5. \A n : Over(n) => Over(n)'
  BY <1>t DEF Over, MildRow
<1>6. RetryEntriesOver'
  BY <1>5 DEF IInv, RetryEntriesOver, MildEntries, Absent
<1>7. RetryDispatchOver'
  <2> SUFFICES ASSUME NEW q \in Procs, proc'[q].pc = "retryDispatch",
                      NEW n, n = proc'[q].mine
               PROVE  n \in Entries \ {Bare} /\ Over(n)'
    BY DEF RetryDispatchOver, At, Over
  <2>1. proc[q].pc = "retryDispatch" /\ proc'[q].mine = proc[q].mine
    BY DEF MildProcs
  <2> QED
    BY <1>5, <2>1 DEF IInv, RetryDispatchOver, At
<1>8. RetryIdFresh'
  <2>1. \A q \in Procs : proc'[q].pc = "retryDispatch" =>
           proc[q].pc = "retryDispatch" /\ proc'[q].mine = proc[q].mine
    BY DEF MildProcs
  <2>2. \A q \in Procs : proc[q].pc = "retryDispatch" =>
           entry[proc[q].mine] = Absent /\ proc[q].mine \in Entries \ {Bare}
    BY DEF IInv, RetryIdFresh, RetryDispatchOver, At
  <2> QED
    BY <2>1, <2>2 DEF IInv, RetryIdFresh, MildEntries, At, Absent
<1>9. SweptOverdue'
  <2> SUFFICES ASSUME NEW s \in Sweepers \ Unregistered, proc'[s].pc # "idle", row'.status = "RUNNING",
                      row'.attempts = proc'[s].mine
               PROVE  overdue' = TRUE
    BY DEF SweptOverdue, At, Fenced, TypeOK
  <2>1. s \in Procs BY DEF Procs
  <2>2. row.status = "RUNNING" /\ row.attempts = proc'[s].mine /\ row.attempts >= 1
    BY DEF IInv, Started, MildRow
  <2>3. proc'[s].mine = proc[s].mine /\ proc[s].pc # "idle"
    BY <1>t, <2>1, <2>2 DEF MildProcs
  <2> QED
    BY <2>2, <2>3 DEF IInv, SweptOverdue, At, Fenced, MildRow
<1> QED
  BY <1>1, <1>2, <1>3, <1>4, <1>6, <1>7, <1>8, <1>9 DEF IInv

LEMMA MildCancelStep ==
    ASSUME IInv, TypeOK', MildRow, MildCancel, MildProcs
    PROVE  CancelKnown'
<1> SUFFICES ASSUME row'.cancelRequested PROVE CancelKnown'
  BY DEF CancelKnown
<1>1. row.cancelRequested /\ row'.attempts = row.attempts /\ cancelAt' = cancelAt
  BY DEF MildRow, MildCancel
<1>2. /\ row'.status \in {"NONE", "QUEUED"} => row.status \in {"NONE", "QUEUED"}
      /\ row'.status = "RUNNING" => row.status = "RUNNING"
  BY <1>1 DEF MildRow, MildCancel
<1>3. \A q \in Procs : proc'[q].pc = "requeue" =>
         proc[q].pc = "requeue" /\ proc'[q].mine = proc[q].mine
  BY DEF MildProcs
<1> QED
  BY <1>1, <1>2, <1>3 DEF IInv, CancelKnown, At, Fenced

LEMMA SteadyRow ==
    ASSUME IInv, row' = row, overdue' = overdue \/ overdue' = TRUE,
           manual' = manual, cancelAt' = cancelAt
    PROVE  MildRow /\ MildCancel
<1>1. row.status = "COMPLETED" => row.result = row.attempts
  BY DEF IInv, ResultOfLatestAttempt
<1>2. MildRow
  BY <1>1 DEF MildRow
<1>3. MildCancel
  <2>1. row'.cancelRequested = row.cancelRequested /\ row'.status = row.status
    BY Zenon
  <2> QED
    BY <2>1 DEF MildCancel
<1> QED
  BY <1>2, <1>3

LEMMA BareAddMild ==
    ASSUME Dispatched(Bare) \/ DispatchFailed(Bare), entry \in [Entries -> EntryType]
    PROVE  MildEntries
  BY DEF Dispatched, DispatchFailed, AddEntry, MildEntries

LEMMA SameEntriesMild == entry' = entry => MildEntries
  BY DEF MildEntries

LEMMA ClientMild ==
    ASSUME IInv, TypeOK', NEW c \in Clients, ClientRequest(c) \/ ClientStep(c)
    PROVE  IInv'
<1>p. c \in Procs /\ c \notin Sweepers
  BY ProcessAssumption DEF Procs
<1>t. /\ row \in RowType /\ proc \in [Procs -> ProcType]
      /\ entry \in [Entries -> EntryType] /\ ResultOfLatestAttempt
  BY DEF IInv, TypeOK
<1>g. ASSUME NEW l, Goto(c, l), l \notin {"requeue", "retryDispatch"} PROVE MildProcs
  BY <1>p, <1>t, <1>g, GotoMild
<1>e. ASSUME EndRun(c) PROVE MildProcs
  BY <1>p, <1>t, <1>e, EndRunMild
<1>5. CASE CancelWrite(c)
  <2>1. /\ row'.status = row.status /\ row'.attempts = row.attempts
        /\ row'.result = row.result /\ row'.cancelRequested
        /\ manual' = manual /\ overdue' = overdue
    BY <1>5, <1>t DEF CancelWrite, RowType
  <2>2. MildRow
    BY <2>1, <1>t DEF MildRow, ResultOfLatestAttempt
  <2>3. /\ cancelAt' = IF row.cancelRequested THEN cancelAt ELSE row.attempts
        /\ row.attempts \in Nat
    BY <1>5, <1>t DEF CancelWrite, RowType
  <2>4. MildProcs /\ MildEntries
    BY <1>5, <1>e, SameEntriesMild DEF CancelWrite
  <2>5. CancelKnown'
    <3>1. \A q \in Procs : proc'[q].pc = "requeue" =>
             proc[q].pc = "requeue" /\ proc'[q].mine = proc[q].mine
      BY <2>4 DEF MildProcs
    <3>2. CASE row.cancelRequested
      BY <2>1, <2>3, <3>1, <3>2 DEF IInv, CancelKnown, At, Fenced
    <3>3. CASE ~row.cancelRequested
      BY <2>1, <2>3, <3>1, <3>3 DEF CancelKnown, At, Fenced
    <3> QED
      BY <3>2, <3>3
  <2> QED
    BY <2>2, <2>4, <2>5, MildStep
<1> SUFFICES ASSUME ~CancelWrite(c)
             PROVE  MildRow /\ MildCancel /\ MildEntries /\ MildProcs
  BY <1>5, MildStep, MildCancelStep
<1>1. CASE EnqueueCreate(c)
  <2>1. MildRow /\ MildCancel
    BY <1>1, <1>t DEF EnqueueCreate, MildRow, MildCancel, RowType, auxVars
  <2> QED
    BY <1>1, <1>g, <2>1, SameEntriesMild DEF EnqueueCreate
<1>2. CASE CancelRead(c) \/ RetryRead(c)
  BY <1>2, <1>g, SteadyRow, SameEntriesMild DEF CancelRead, RetryRead, rowVars, auxVars
<1>3. CASE EnqueueAdd(c) \/ RetryAdd(c)
  BY <1>3, <1>t, <1>g, <1>e, SteadyRow, BareAddMild DEF EnqueueAdd, RetryAdd, rowVars
<1>4. CASE EnqueueFailed(c) \/ Compensate(c)
  <2>1. ASSUME row' = row PROVE MildRow /\ MildCancel
    BY <1>4, <2>1, SteadyRow DEF EnqueueFailed, Compensate
  <2>2. ASSUME row' = [row EXCEPT !.status = "FAILED"] PROVE MildRow /\ MildCancel
    BY <1>4, <2>2, <1>t DEF EnqueueFailed, Compensate, MildRow, MildCancel, RowType
  <2>3. ASSUME row' = [row EXCEPT !.status = "FAILED", !.deadLettered = TRUE]
        PROVE  MildRow /\ MildCancel
    BY <1>4, <2>3, <1>t DEF EnqueueFailed, Compensate, MildRow, MildCancel, RowType
  <2> QED
    BY <1>4, <1>e, <2>1, <2>2, <2>3, SameEntriesMild DEF EnqueueFailed, Compensate
<1>6. CASE RetryWrite(c)
  <2>1. ASSUME row' = row, manual' = manual, cancelAt' = cancelAt
        PROVE  MildRow /\ MildCancel
    BY <1>6, <2>1, SteadyRow DEF RetryWrite
  <2>2. ASSUME row.status \in Retryable, manual' = manual + 1,
               row' = [NoRow EXCEPT !.status = "QUEUED", !.attempts = row.attempts]
        PROVE  MildRow /\ MildCancel
    BY <1>6, <2>2 DEF RetryWrite, MildRow, MildCancel, NoRow
  <2> QED
    BY <1>6, <1>g, <1>e, <2>1, <2>2, SameEntriesMild DEF RetryWrite
<1>7. CASE RetryRemove(c)
  <2>1. MildEntries
    BY <1>7, <1>t DEF RetryRemove, MildEntries
  <2> QED
    BY <1>7, <1>g, <2>1, SteadyRow DEF RetryRemove, rowVars, auxVars
<1> QED
  BY <1>1, <1>2, <1>3, <1>4, <1>5, <1>6, <1>7 DEF ClientRequest, ClientStep

LEMMA ShapeFacts ==
    /\ Absent.state = "absent" /\ Finished.state = "finished"
    /\ Finished.owner = NoOne /\ Absent.owner = NoOne
    /\ Idle.mine = 0 /\ Idle.pc = "idle"
    /\ \A e : [Idle EXCEPT !.pc = "pickup", !.entry = e].mine = 0
    /\ \A e : [Idle EXCEPT !.pc = "pickup", !.entry = e].pc = "pickup"
  BY DEF Absent, Finished, Idle

LEMMA UsedEntryMild ==
    ASSUME NEW e \in Entries, NEW x, entry \in [Entries -> EntryType],
           entry' = [entry EXCEPT ![e] = x], entry[e] # Absent
    PROVE  MildEntries
  BY DEF MildEntries

\* The mild steps of workers, of the broker and of time.
LEMMA MildSteps ==
    ASSUME IInv, TypeOK', [Next]_vars,
           \/ UNCHANGED vars \/ TimeoutElapses
           \/ \E e \in Entries : Stalled(e) \/ Expire(e)
           \/ \E p \in Procs : RunFails(p) \/ Crash(p)
           \/ \E w \in Workers : Handle(w) \/ Finalize(w) \/ \E e \in Entries : Take(w, e)
    PROVE  IInv'
<1>t. proc \in [Procs -> ProcType] /\ entry \in [Entries -> EntryType]
  BY DEF IInv, TypeOK
<1>s. ASSUME row' = row, overdue' = overdue \/ overdue' = TRUE,
             manual' = manual, cancelAt' = cancelAt, MildEntries, MildProcs
      PROVE  IInv'
  BY <1>s, SteadyRow, MildStep, MildCancelStep
<1>i. ASSUME NEW p \in Procs, NEW r, proc' = [proc EXCEPT ![p] = r],
             r.mine = 0, r.pc \notin {"requeue", "retryDispatch"}
      PROVE  MildProcs
  BY <1>t, <1>i DEF MildProcs
<1>0. CASE UNCHANGED vars
  BY <1>0, <1>s DEF vars, rowVars, auxVars, MildEntries, MildProcs
<1>1. CASE TimeoutElapses
  BY <1>1, <1>s DEF TimeoutElapses, auxVars, MildEntries, MildProcs
<1>2. ASSUME NEW e \in Entries, Stalled(e) \/ Expire(e) PROVE IInv'
  <2>1. entry[e] # Absent
    BY <1>2, ShapeFacts DEF Stalled, Expire
  <2>2. MildEntries
    BY <1>2, <1>t, <2>1, UsedEntryMild DEF Stalled, Expire
  <2> QED
    BY <1>2, <2>2, <1>s DEF Stalled, Expire, rowVars, auxVars, MildProcs
<1>3. ASSUME NEW p \in Procs, RunFails(p) PROVE IInv'
  BY <1>3, <1>t, <1>s, EndRunMild, SameEntriesMild DEF RunFails, rowVars
<1>4. ASSUME NEW p \in Procs, Crash(p) PROVE IInv'
  BY <1>4, <1>i, <1>s, SameEntriesMild, ShapeFacts DEF Crash, rowVars
<1>5. ASSUME NEW w \in Workers, Handle(w) PROVE IInv'
  <2>p. w \in Procs /\ w \notin Sweepers
    BY ProcessAssumption DEF Procs
  <2>1. ASSUME proc' = [proc EXCEPT ![w].pc = "decide", ![w].verdict = "TIMED_OUT"]
        PROVE  MildProcs
    BY <2>1, <2>p, <1>t DEF MildProcs, ProcType
  <2> QED
    BY <1>5, <1>t, <1>s, <2>p, <2>1, GotoMild, SameEntriesMild DEF Handle, rowVars, auxVars
<1>6. ASSUME NEW w \in Workers, Finalize(w) PROVE IInv'
  <2>p. w \in Procs BY DEF Procs
  <2>1. MildEntries
    <3>1. proc[w].entry \in Entries
      BY <1>t, <2>p DEF ProcType
    <3>2. entry[proc[w].entry].owner = w => entry[proc[w].entry] # Absent
      BY ShapeFacts, ProcessAssumption
    <3> QED
      BY <1>6, <1>t, <3>1, <3>2, UsedEntryMild, SameEntriesMild DEF Finalize
  <2> QED
    BY <1>6, <1>i, <1>s, <2>p, <2>1, ShapeFacts DEF Finalize, rowVars, auxVars
<1>7. ASSUME NEW w \in Workers, NEW e \in Entries, Take(w, e) PROVE IInv'
  <2>p. w \in Procs BY DEF Procs
  <2>1. MildEntries
    BY <1>7, <1>t, UsedEntryMild, ShapeFacts DEF Take
  <2>2. MildProcs
    BY <1>7, <1>i, <2>p, ShapeFacts DEF Take
  <2> QED
    BY <1>7, <1>s, <2>1, <2>2 DEF Take, rowVars, auxVars
<1> QED
  BY <1>0, <1>1, <1>2, <1>3, <1>4, <1>5, <1>6, <1>7

LEMMA SettleSteps ==
    ASSUME IInv, TypeOK', NEW p \in Procs,
           Terminate(p) \/ Compensate(p) \/ (p \in Workers /\ Complete(p))
    PROVE  IInv'
<1>t. /\ row \in RowType /\ proc \in [Procs -> ProcType]
      /\ proc[p].verdict \in Retryable /\ proc[p].mine \in Nat
  BY DEF IInv, TypeOK, ProcType
<1>1. ASSUME row' = row PROVE MildRow /\ MildCancel
  BY <1>1, SteadyRow DEF Terminate, Compensate, Complete, auxVars
<1>2. ASSUME NEW v \in Retryable,
             \/ row' = [row EXCEPT !.status = v]
             \/ row' = [row EXCEPT !.status = v, !.deadLettered = TRUE]
      PROVE  MildRow /\ MildCancel
  BY <1>2, <1>t DEF Terminate, Compensate, Complete, auxVars, MildRow, MildCancel, RowType
<1>3. ASSUME Fenced(p), row' = [row EXCEPT !.status = "COMPLETED", !.result = proc[p].mine]
      PROVE  MildRow /\ MildCancel
  BY <1>3, <1>t DEF Terminate, Compensate, Complete, auxVars, Fenced, MildRow, MildCancel, RowType
<1>4. MildRow /\ MildCancel
  <2>1. CASE Terminate(p)
    BY <2>1, <1>t, <1>1, <1>2 DEF Terminate
  <2>2. CASE Compensate(p)
    BY <2>2, <1>1, <1>2 DEF Compensate
  <2>3. CASE Complete(p)
    BY <2>3, <1>1, <1>3 DEF Complete
  <2> QED
    BY <2>1, <2>2, <2>3
<1>5. MildProcs
  <2>1. CASE EndRun(p)
    BY <2>1, <1>t, EndRunMild
  <2>2. CASE p \in Workers /\ Goto(p, "decide")
    BY <2>2, <1>t, GotoMild, ProcessAssumption DEF Procs
  <2> QED
    BY <2>1, <2>2 DEF Terminate, Compensate, Complete
<1> QED
  BY <1>4, <1>5, MildStep, MildCancelStep, SameEntriesMild DEF Terminate, Compensate, Complete

\* A pickup starts a new attempt, younger than anything any process captured.
LEMMA PickupStep ==
    ASSUME IInv, TypeOK', NEW w \in Workers, Pickup(w) PROVE IInv'
<1>t. /\ row \in RowType /\ proc \in [Procs -> ProcType] /\ row.attempts \in Nat
      /\ manual \in Nat /\ MaxAttempts \in Nat /\ cancelAt \in Nat
      /\ \A q \in Procs : proc[q].mine \in Nat /\ proc[q].mine <= row.attempts
      /\ w \in Procs
  BY BoundAssumption DEF IInv, TypeOK, RowType, ProcType, Captured, Procs
<1>1. CASE row' = row /\ overdue' = overdue /\ EndRun(w)
  BY <1>1, <1>t, SteadyRow, EndRunMild, SameEntriesMild, MildStep, MildCancelStep DEF Pickup
<1>2. CASE /\ row.status = "QUEUED" /\ overdue' = FALSE
           /\ row' = [row EXCEPT !.status = "RUNNING", !.attempts = row.attempts + 1]
           /\ proc' = [proc EXCEPT ![w].pc = "handle", ![w].mine = row.attempts + 1]
  <2>1. /\ row'.status = "RUNNING" /\ row'.attempts = row.attempts + 1
        /\ row'.cancelRequested = row.cancelRequested
        /\ entry' = entry /\ manual' = manual /\ cancelAt' = cancelAt
    BY <1>2, <1>t DEF Pickup, RowType
  <2>2. /\ \A q \in Procs : q # w => proc'[q] = proc[q]
        /\ proc'[w].pc = "handle" /\ proc'[w].mine = row.attempts + 1
    BY <1>2, <1>t DEF ProcType
  <2>3. Started' /\ Captured'
    BY <1>t, <2>1, <2>2 DEF Started, Captured
  <2>4. ResultOfLatestAttempt' /\ AttemptBudget'
    BY <1>2, <1>t, <2>1 DEF IInv, ResultOfLatestAttempt, AttemptBudget
  <2>5. RequeueInBudget'
    BY <2>2 DEF IInv, RequeueInBudget, At
  <2>6. \A n \in Nat : Over(n) => Over(n)'
    BY <1>t, <2>1 DEF Over
  <2>7. RetryEntriesOver'
    BY <2>1, <2>6, BoundAssumption DEF IInv, RetryEntriesOver
  <2>8. RetryDispatchOver'
    <3> SUFFICES ASSUME NEW q \in Procs, proc'[q].pc = "retryDispatch",
                        NEW n, n = proc'[q].mine
                 PROVE  n \in Entries \ {Bare} /\ Over(n)'
      BY DEF RetryDispatchOver, At, Over
    <3>1. q # w /\ proc[q].pc = "retryDispatch" /\ proc[q].mine = n
      BY <2>2
    <3> QED
      BY <1>t, <2>6, <3>1 DEF IInv, RetryDispatchOver, At
  <2>9. RetryIdFresh'
    BY <2>1, <2>2 DEF IInv, RetryIdFresh, At
  <2>10. CancelKnown'
    <3>1. \A q \in Procs : proc'[q].pc = "requeue" => proc'[q].mine # row'.attempts
      BY <1>t, <2>1, <2>2
    <3> QED
      BY <1>2, <1>t, <2>1, <3>1 DEF IInv, CancelKnown, At, Fenced
  <2>11. SweptOverdue'
    <3>1. \A q \in Sweepers : q \in Procs /\ q # w
      BY ProcessAssumption DEF Procs
    <3> QED
      BY <1>t, <2>1, <2>2, <3>1 DEF SweptOverdue, At, Fenced
  <2> QED
    BY <2>3, <2>4, <2>5, <2>7, <2>8, <2>9, <2>10, <2>11 DEF IInv
<1> QED
  BY <1>1, <1>2 DEF Pickup, rowVars

\* Sweep and Decide leave the row alone; only Decide can lead to a requeue.
LEMMA ReadStep ==
    ASSUME IInv, TypeOK', NEW p \in Procs, Decide(p) \/ (p \in Sweepers /\ Sweep(p))
    PROVE  IInv'
<1>t. /\ proc \in [Procs -> ProcType] /\ row.attempts \in Nat
      /\ \A q \in Procs : proc[q].mine \in Nat
  BY DEF IInv, TypeOK, RowType, ProcType
<1>r. row' = row /\ overdue' = overdue /\ entry' = entry /\ manual' = manual /\ cancelAt' = cancelAt
  BY DEF Decide, Sweep, rowVars, auxVars
<1>c. ASSUME \A q \in Procs \ {p} : proc'[q] = proc[q],
             proc'[p].mine <= row.attempts, proc'[p].pc # "retryDispatch",
             proc'[p].pc = "requeue" => proc'[p].mine < MaxAttempts /\ ~row.cancelRequested,
             p \in Sweepers \ Unregistered /\ proc'[p].pc # "idle" /\ row.status = "RUNNING"
                 /\ row.attempts = proc'[p].mine => overdue = TRUE
      PROVE  IInv'
  <2>1. Started' /\ ResultOfLatestAttempt' /\ AttemptBudget'
    BY <1>r DEF IInv, Started, ResultOfLatestAttempt, AttemptBudget
  <2>2. Captured' /\ RequeueInBudget'
    BY <1>r, <1>c DEF IInv, Captured, RequeueInBudget, At
  <2>3. RetryEntriesOver'
    BY <1>r DEF IInv, RetryEntriesOver, Over
  <2>4. RetryDispatchOver' /\ RetryIdFresh'
    BY <1>r, <1>c DEF IInv, RetryDispatchOver, RetryIdFresh, Over, At
  <2>5. CancelKnown'
    BY <1>r, <1>c DEF IInv, CancelKnown, At, Fenced
  <2>6. SweptOverdue'
    <3>1. Sweepers \subseteq Procs
      BY DEF Procs
    <3> QED
      BY <1>r, <1>c, <3>1 DEF IInv, SweptOverdue, At, Fenced
  <2> QED
    BY <2>1, <2>2, <2>3, <2>4, <2>5, <2>6 DEF IInv
<1>1. CASE Decide(p)
  <2>1. PICK l \in {"cancel", "requeue", "deadLetter"} :
            /\ Goto(p, l)
            /\ l = "requeue" => proc[p].mine < MaxAttempts /\ ~row.cancelRequested
    BY <1>1 DEF Decide
  <2>2. /\ \A q \in Procs \ {p} : proc'[q] = proc[q]
        /\ proc'[p].mine = proc[p].mine /\ proc'[p].pc = l
    BY <1>t, <2>1 DEF Goto, ProcType
  <2> QED
    BY <1>1, <1>c, <2>1, <2>2 DEF IInv, Captured, SweptOverdue, Decide, At, Fenced
<1>2. CASE p \in Sweepers /\ Sweep(p)
  <2>1. /\ \A q \in Procs \ {p} : proc'[q] = proc[q]
        /\ proc'[p].mine = row.attempts /\ proc'[p].pc = "decide"
        /\ p \in Unregistered \/ overdue
    BY <1>2, <1>t DEF Sweep, Stale, Idle
  <2>2. overdue \in BOOLEAN
    BY DEF IInv, TypeOK
  <2>3. p \in Sweepers \ Unregistered => overdue = TRUE
    BY <2>1, <2>2
  <2>4. proc'[p].mine <= row.attempts
    BY <1>t, <2>1
  <2> QED
    BY <1>c, <2>1, <2>3, <2>4
<1> QED
  BY <1>1, <1>2

\* The guarded write of scheduleRetry ends the attempt it is fenced on, so no
\* other process can be past that write for the same attempt.
LEMMA RequeueStep ==
    ASSUME IInv, TypeOK', NEW p \in Procs, Requeue(p) PROVE IInv'
<1>t. /\ row \in RowType /\ proc \in [Procs -> ProcType] /\ row.attempts \in Nat
      /\ manual \in Nat /\ MaxAttempts \in Nat /\ cancelAt \in Nat
      /\ \A q \in Procs : proc[q].mine \in Nat /\ proc[q].mine <= row.attempts
  BY BoundAssumption DEF IInv, TypeOK, RowType, ProcType, Captured
<1>1. CASE row' = row /\ EndRun(p)
  BY <1>1, <1>t, SteadyRow, EndRunMild, SameEntriesMild, MildStep, MildCancelStep
  DEF Requeue, auxVars
<1>2. CASE Fenced(p) /\ row' = [row EXCEPT !.status = "QUEUED"] /\ Goto(p, "retryDispatch")
  <2>1. /\ row'.status = "QUEUED" /\ row'.attempts = row.attempts
        /\ row'.cancelRequested = row.cancelRequested /\ overdue' = overdue
        /\ entry' = entry /\ manual' = manual /\ cancelAt' = cancelAt
    BY <1>2, <1>t DEF Requeue, RowType, auxVars
  <2>2. /\ \A q \in Procs \ {p} : proc'[q] = proc[q]
        /\ proc'[p].pc = "retryDispatch" /\ proc'[p].mine = proc[p].mine
    BY <1>2, <1>t DEF Goto, ProcType
  <2>3. /\ row.status = "RUNNING" /\ row.attempts = proc[p].mine
        /\ proc[p].pc = "requeue" /\ proc[p].mine < MaxAttempts /\ 1 <= proc[p].mine
    BY <1>2 DEF Fenced, Requeue, At, IInv, RequeueInBudget, Started
  <2>4. Started' /\ Captured' /\ ResultOfLatestAttempt' /\ AttemptBudget'
    BY <1>t, <2>1, <2>2, <2>3
    DEF Started, Captured, ResultOfLatestAttempt, AttemptBudget
  <2>5. RequeueInBudget'
    BY <2>2 DEF IInv, RequeueInBudget, At
  <2>6. /\ \A n \in Nat : Over(n) => Over(n)'
        /\ Over(proc[p].mine) = FALSE
    BY <1>t, <2>1, <2>3 DEF Over
  <2>7. RetryEntriesOver'
    BY <2>1, <2>6, BoundAssumption DEF IInv, RetryEntriesOver
  <2>8. RetryDispatchOver'
    <3> SUFFICES ASSUME NEW q \in Procs, proc'[q].pc = "retryDispatch",
                        NEW n, n = proc'[q].mine
                 PROVE  n \in Entries \ {Bare} /\ Over(n)'
      BY DEF RetryDispatchOver, At, Over
    <3>1. CASE q = p
      BY <1>t, <2>1, <2>2, <2>3, <3>1 DEF Over
    <3>2. CASE q # p
      BY <1>t, <2>2, <2>6, <3>2 DEF IInv, RetryDispatchOver, At
    <3> QED
      BY <3>1, <3>2
  <2>9. RetryIdFresh'
    <3>1. entry[proc[p].mine] = Absent
      BY <1>t, <2>3, <2>6 DEF IInv, RetryEntriesOver
    <3>2. \A q \in Procs \ {p} : proc[q].pc = "retryDispatch" => proc[q].mine # proc[p].mine
      BY <2>6 DEF IInv, RetryDispatchOver, At
    <3> QED
      BY <2>1, <2>2, <3>1, <3>2 DEF IInv, RetryIdFresh, At
  <2>10. CancelKnown'
    BY <1>2, <1>t, <2>1, <2>3 DEF IInv, CancelKnown, At, Fenced
  <2>11. SweptOverdue'
    BY <2>1 DEF SweptOverdue, Fenced
  <2> QED
    BY <2>4, <2>5, <2>7, <2>8, <2>9, <2>10, <2>11 DEF IInv
<1> QED
  BY <1>1, <1>2 DEF Requeue

LEMMA RetryDispatchStep ==
    ASSUME IInv, TypeOK', NEW p \in Procs, RetryDispatch(p) PROVE IInv'
<1>t. /\ entry \in [Entries -> EntryType] /\ proc \in [Procs -> ProcType]
      /\ proc[p].mine \in Entries \ {Bare} /\ Over(proc[p].mine)
  BY DEF IInv, TypeOK, RetryDispatch, RetryDispatchOver
<1>r. row' = row /\ overdue' = overdue /\ manual' = manual /\ cancelAt' = cancelAt
  BY DEF RetryDispatch, rowVars
<1>m. MildProcs
  <2>1. CASE EndRun(p)
    BY <2>1, <1>t, EndRunMild
  <2>2. CASE Goto(p, "compensate")
    BY <2>2, <1>t, GotoMild DEF RetryDispatch, At
  <2> QED
    BY <2>1, <2>2 DEF RetryDispatch
<1>e. \A n \in Entries : n # proc[p].mine => entry'[n] = entry[n]
  BY <1>t DEF RetryDispatch, Dispatched, DispatchFailed, AddEntry
<1>1. Started' /\ ResultOfLatestAttempt' /\ AttemptBudget'
  BY <1>r DEF IInv, Started, ResultOfLatestAttempt, AttemptBudget
<1>2. Captured' /\ RequeueInBudget' /\ CancelKnown'
  <2>1. row.attempts \in Nat
    BY DEF IInv, TypeOK, RowType
  <2> QED
    BY <1>r, <1>m, <2>1, SteadyRow, MildCancelStep
    DEF IInv, Captured, RequeueInBudget, MildProcs, At
<1>3. RetryEntriesOver'
  BY <1>r, <1>t, <1>e DEF IInv, RetryEntriesOver, Over, Absent
<1>4. /\ proc'[p].pc # "retryDispatch"
      /\ \A q \in Procs \ {p} : proc'[q] = proc[q]
  <2>1. CASE EndRun(p)
    BY <2>1, <1>t, EndRunEffect
  <2>2. CASE Goto(p, "compensate")
    BY <2>2, <1>t DEF Goto, ProcType
  <2> QED
    BY <2>1, <2>2 DEF RetryDispatch
<1>5. RetryDispatchOver' /\ RetryIdFresh'
  <2>1. \A q \in Procs \ {p} : proc[q].pc = "retryDispatch" =>
           proc[q].mine \in Entries /\ proc[q].mine # proc[p].mine
    BY DEF IInv, RetryDispatchOver, RetryIdFresh, RetryDispatch, At
  <2> QED
    BY <1>r, <1>e, <1>4, <2>1 DEF IInv, RetryDispatchOver, RetryIdFresh, Over, At, Absent
<1>6. SweptOverdue'
  <2>1. \A q \in Procs \ {p} : q \in Sweepers => proc'[q] = proc[q]
    BY <1>4
  <2>2. p \in Sweepers => proc[p].pc # "idle" /\ proc'[p].mine \in {0, proc[p].mine}
    BY <1>m DEF MildProcs, RetryDispatch, At
  <2>3. Sweepers \subseteq Procs
    BY DEF Procs
  <2> QED
    BY <1>r, <2>1, <2>2, <2>3 DEF IInv, SweptOverdue, Started, At, Fenced
<1> QED
  BY <1>1, <1>2, <1>3, <1>5, <1>6 DEF IInv

-----------------------------------------------------------------------------
(* The theorems *)

LEMMA IInvInit == Init => IInv
<1> SUFFICES ASSUME Init PROVE IInv
  OBVIOUS
<1>1. /\ row.status = "NONE" /\ row.attempts = 0 /\ row.cancelRequested = FALSE
      /\ \A p \in Procs : proc[p].pc = "idle" /\ proc[p].mine = 0
      /\ \A e \in Entries : entry[e] = Absent
      /\ manual = 0
  BY DEF Init, NoRow, Idle
<1>2. Started /\ Captured /\ ResultOfLatestAttempt /\ AttemptBudget
  BY <1>1, BoundAssumption DEF Started, Captured, ResultOfLatestAttempt, AttemptBudget
<1>3. RequeueInBudget /\ RetryDispatchOver /\ RetryIdFresh
  BY <1>1 DEF RequeueInBudget, RetryDispatchOver, RetryIdFresh, At
<1>4. RetryEntriesOver /\ CancelKnown /\ SweptOverdue
  BY <1>1 DEF RetryEntriesOver, CancelKnown, SweptOverdue, Fenced
<1> QED
  BY <1>2, <1>3, <1>4, TypeInit DEF IInv

LEMMA IInvStep == IInv /\ [Next]_vars => IInv'
<1> SUFFICES ASSUME IInv, [Next]_vars PROVE IInv'
  OBVIOUS
<1>t. TypeOK'
  BY TypeStep DEF IInv
<1>1. ASSUME NEW c \in Clients, ClientRequest(c) \/ ClientStep(c) PROVE IInv'
  BY <1>t, <1>1, ClientMild
<1>2. ASSUME NEW p \in Procs, RecoveryStep(p) PROVE IInv'
  BY <1>t, <1>2, ReadStep, SettleSteps, RequeueStep, RetryDispatchStep DEF RecoveryStep
<1>3. ASSUME NEW w \in Workers, WorkerStep(w) \/ RunFails(w) PROVE IInv'
  <2>p. w \in Procs BY DEF Procs
  <2> QED
    BY <1>t, <1>2, <1>3, <2>p, MildSteps, PickupStep, SettleSteps DEF WorkerStep
<1>4. ASSUME NEW s \in Sweepers, SweeperStep(s) \/ RunFails(s) PROVE IInv'
  <2>p. s \in Procs BY DEF Procs
  <2> QED
    BY <1>t, <1>2, <1>4, <2>p, MildSteps, ReadStep DEF SweeperStep
<1>5. CASE \/ UNCHANGED vars \/ TimeoutElapses
           \/ \E e \in Entries : Stalled(e) \/ Expire(e)
           \/ \E p \in Procs : Crash(p)
  BY <1>t, <1>5, MildSteps
<1> QED
  BY <1>1, <1>3, <1>4, <1>5 DEF Next

LEMMA Invariance == Spec => []IInv
  BY IInvInit, IInvStep, PTL DEF Spec

\* A COMPLETED row always carries the result of its latest attempt: a stale
\* attempt's late answer is fenced out.
THEOREM FencedResults == Spec => []ResultOfLatestAttempt
<1>1. IInv => ResultOfLatestAttempt BY DEF IInv
<1> QED BY Invariance, <1>1, PTL

\* Nothing but a granted manual retry takes the job beyond maxAttempts.
THEOREM BudgetKept == Spec => []AttemptBudget
<1>1. IInv => AttemptBudget BY DEF IInv
<1> QED BY Invariance, <1>1, PTL

\* The delayed add of an automatic retry is never dropped as a duplicate, and
\* no attempt is ever retried by two processes.
THEOREM RetryAddsOnce == Spec => []RetryIdFresh
<1>1. IInv => RetryIdFresh BY DEF IInv
<1> QED BY Invariance, <1>1, PTL

\* A recorded cancellation lets at most one more attempt start.
THEOREM CancelIsBounded == Spec => []CancelBoundsAttempts
<1>1. IInv => CancelBoundsAttempts
  BY DEF IInv, CancelKnown, CancelBoundsAttempts
<1> QED BY Invariance, <1>1, PTL

-----------------------------------------------------------------------------
(* The job engine implements the life cycle of JobLifecycle, and the action *)
(* properties that follow from the inductive invariant. The refinement      *)
(* holds as long as Queue.add adds nothing when it throws: a job that was   *)
(* added all the same runs while its row is reported as failed.             *)

\* Nobody touches the job before its first dispatch ends, except to cancel it.
Undispatched(c) == proc[c].pc \in {"enqueueAdd", "enqueueFailed"}
FirstDispatch ==
    /\ row.status = "NONE" =>
          /\ \A e \in Entries : entry[e] = Absent
          /\ \A p \in Procs : proc[p].pc = "idle"
    /\ \A c \in Clients : Undispatched(c) =>
          /\ row.status = "QUEUED"
          /\ \A e \in Entries : entry[e] = Absent
          /\ \A p \in Procs \ {c} : proc[p].pc \in {"idle", "cancelWrite"}

\* Which steps take a row out of RUNNING, and by whom.
LEMMA LeavesRunning ==
    ASSUME IInv, [Next]_vars, row.status = "RUNNING", row'.status # "RUNNING"
    PROVE  \/ \E c \in Clients : EnqueueFailed(c)
           \/ \E w \in Workers : Complete(w)
           \/ \E p \in Procs : Fenced(p) /\ (Terminate(p) \/ Requeue(p))
<1>t. row \in RowType
  BY DEF IInv, TypeOK
<1>c. ASSUME NEW c \in Clients, ClientRequest(c) \/ ClientStep(c) PROVE EnqueueFailed(c)
  <2>1. ~CancelWrite(c)
    BY <1>t DEF CancelWrite, RowType
  <2>3. row' # row
    OBVIOUS
  <2>2. ~RetryWrite(c) /\ ~EnqueueCreate(c) /\ ~Compensate(c)
    BY <2>3 DEF RetryWrite, EnqueueCreate, Compensate
  <2> QED
    BY <1>c, <2>1, <2>2, <2>3
    DEF ClientRequest, ClientStep, CancelRead, RetryRead, EnqueueAdd, RetryRemove, RetryAdd, rowVars
<1>r. ASSUME NEW p \in Procs, RecoveryStep(p) \/ RunFails(p)
      PROVE  Fenced(p) /\ (Terminate(p) \/ Requeue(p))
  BY <1>r DEF RecoveryStep, RunFails, Decide, Terminate, Requeue, RetryDispatch, Compensate, rowVars
<1>w. ASSUME NEW w \in Workers, WorkerStep(w) \/ RunFails(w)
      PROVE  Complete(w) \/ (Fenced(w) /\ (Terminate(w) \/ Requeue(w)))
  BY <1>w, <1>r DEF Procs, WorkerStep, Take, Pickup, Handle, Finalize, rowVars
<1>s. ASSUME NEW s \in Sweepers, SweeperStep(s) \/ RunFails(s)
      PROVE  Fenced(s) /\ (Terminate(s) \/ Requeue(s))
  BY <1>s, <1>r DEF Procs, SweeperStep, Sweep, rowVars
<1>o. ~(UNCHANGED vars \/ TimeoutElapses \/ (\E e \in Entries : Stalled(e) \/ Expire(e))
         \/ (\E p \in Procs : Crash(p)))
  BY DEF vars, rowVars, TimeoutElapses, Stalled, Expire, Crash
<1> QED
  BY <1>c, <1>w, <1>s, <1>o DEF Next, Procs

\* A sweeper whose process registers the manifest of the job takes the row out of
\* RUNNING only when the attempt is overdue.
THEOREM SweepsOnlyOverdue == Spec => RecoverOnlyOverdue
<1>1. IInv /\ [Next]_vars =>
        [\A s \in Sweepers \ Unregistered :
             row.status = "RUNNING" /\ row'.status # "RUNNING" /\ proc'[s] # proc[s]
                 => overdue]_vars
  <2> SUFFICES ASSUME IInv, [Next]_vars, NEW s \in Sweepers \ Unregistered,
                      row.status = "RUNNING",
                      row'.status # "RUNNING", proc'[s] # proc[s]
               PROVE  overdue
    OBVIOUS
  <2>t. proc \in [Procs -> ProcType] /\ s \in Procs /\ s \notin Clients /\ s \notin Workers
    BY ProcessAssumption DEF IInv, TypeOK, Procs
  <2>1. ASSUME NEW p \in Procs, p # s, EndRun(p) \/ (\E l : Goto(p, l)) PROVE FALSE
    BY <2>t, <2>1 DEF EndRun, Goto
  <2>2. ~(\E c \in Clients : EnqueueFailed(c)) /\ ~(\E w \in Workers : Complete(w))
    BY <2>t, <2>1 DEF EnqueueFailed, Complete, Procs
  <2>3. PICK p \in Procs : Fenced(p) /\ (Terminate(p) \/ Requeue(p))
    BY <2>2, LeavesRunning
  <2>4. p = s
    BY <2>1, <2>3 DEF Terminate, Requeue
  <2> QED
    BY <2>3, <2>4 DEF IInv, SweptOverdue, Terminate, Requeue, At
<1> QED
  BY <1>1, Invariance, PTL DEF Spec, RecoverOnlyOverdue

-----------------------------------------------------------------------------
(* The refinement *)

\* One step of the engine is one step of the life cycle, or none.
LEMMA LifecycleStep ==
    ASSUME IInv, FirstDispatch, [Next]_vars
    PROVE  [Lifecycle!Next]_(Lifecycle!jobVars)
<1>t. /\ row \in RowType /\ proc \in [Procs -> ProcType]
      /\ \A p \in Procs : proc[p].verdict \in Retryable
  BY DEF IInv, TypeOK, ProcType
<1> SUFFICES ASSUME <<row.status, row.attempts, row.deadLettered>>' #
                    <<row.status, row.attempts, row.deadLettered>>
             PROVE  Lifecycle!Next
  BY DEF Lifecycle!jobVars
<1>n. row' # row
  OBVIOUS
<1>c. ASSUME NEW c \in Clients, ClientRequest(c) \/ ClientStep(c), ~Compensate(c)
      PROVE  Lifecycle!Next
  <2>1. CASE EnqueueCreate(c)
    BY <2>1, <1>t DEF EnqueueCreate, RowType, Lifecycle!Next, Lifecycle!Create
  <2>2. CASE EnqueueFailed(c)
    <3>1. row.status = "QUEUED"
      BY <2>2 DEF EnqueueFailed, FirstDispatch, Undispatched, At
    <3> QED
      BY <2>2, <3>1, <1>n, <1>t DEF EnqueueFailed, RowType, Lifecycle!Next, Lifecycle!DispatchFailure
  <2>3. CASE RetryWrite(c)
    <3>1. /\ row.status \in Retryable
          /\ row' = [NoRow EXCEPT !.status = "QUEUED", !.attempts = row.attempts]
      BY <2>3, <1>n DEF RetryWrite
    <3>2. row'.status = "QUEUED" /\ row'.attempts = row.attempts /\ row'.deadLettered = FALSE
      BY <3>1 DEF NoRow
    <3> QED
      BY <3>1, <3>2 DEF Lifecycle!Next, Lifecycle!ManualRetry
  <2>4. ~CancelWrite(c)
    BY <1>t DEF CancelWrite, RowType
  <2> QED
    BY <1>c, <1>n, <2>1, <2>2, <2>3, <2>4
    DEF ClientRequest, ClientStep, CancelRead, RetryRead, EnqueueAdd, RetryRemove, RetryAdd, rowVars
<1>r. ASSUME NEW p \in Procs, RecoveryStep(p) \/ RunFails(p) PROVE Lifecycle!Next
  <2>1. CASE Terminate(p)
    <3>1. row.status = "RUNNING"
      BY <2>1, <1>n DEF Terminate, Fenced
    <3>2. CASE row' = [row EXCEPT !.status = "FAILED"]
      BY <3>1, <3>2, <1>t DEF RowType, Lifecycle!Next, Lifecycle!Finish
    <3>3. ASSUME NEW v \in Retryable, row' = [row EXCEPT !.status = v, !.deadLettered = TRUE]
          PROVE  Lifecycle!Next
      <4>1. row'.status = v /\ row'.attempts = row.attempts /\ row'.deadLettered = TRUE
        BY <3>3, <1>t DEF RowType
      <4> QED
        BY <3>1, <4>1 DEF Lifecycle!Next, Lifecycle!Finish
    <3> QED
      BY <2>1, <3>2, <3>3, <1>n, <1>t DEF Terminate
  <2>2. CASE Requeue(p)
    <3>1. /\ row.status = "RUNNING" /\ row.attempts = proc[p].mine
          /\ row' = [row EXCEPT !.status = "QUEUED"] /\ proc[p].mine < MaxAttempts
      BY <2>2, <1>n DEF Requeue, Fenced, At, IInv, RequeueInBudget
    <3> QED
      BY <3>1, <1>t DEF RowType, Lifecycle!Next, Lifecycle!AutomaticRetry
  <2>3. CASE Compensate(p)
    BY <2>3, <1>n, <1>t DEF Compensate, RowType, Lifecycle!Next, Lifecycle!DispatchFailure
  <2> QED
    BY <1>r, <1>n, <2>1, <2>2, <2>3 DEF RecoveryStep, RunFails, Decide, RetryDispatch, rowVars
<1>w. ASSUME NEW w \in Workers, WorkerStep(w) \/ RunFails(w) PROVE Lifecycle!Next
  <2>1. CASE Pickup(w)
    BY <2>1, <1>n, <1>t DEF Pickup, rowVars, RowType, Lifecycle!Next, Lifecycle!Start
  <2>2. CASE Complete(w)
    BY <2>2, <1>n, <1>t DEF Complete, Fenced, RowType, Lifecycle!Next, Lifecycle!Finish
  <2> QED
    BY <1>w, <1>r, <1>n, <2>1, <2>2 DEF Procs, WorkerStep, Take, Handle, Finalize, rowVars
<1>s. ASSUME NEW s \in Sweepers, SweeperStep(s) \/ RunFails(s) PROVE Lifecycle!Next
  BY <1>s, <1>r, <1>n DEF Procs, SweeperStep, Sweep, rowVars
<1>o. ~(UNCHANGED vars \/ TimeoutElapses \/ (\E e \in Entries : Stalled(e) \/ Expire(e))
         \/ (\E p \in Procs : Crash(p)))
  BY <1>n DEF vars, rowVars, TimeoutElapses, Stalled, Expire, Crash
<1>q. \A c \in Clients : Compensate(c) => Lifecycle!Next
  BY <1>r DEF Procs, RecoveryStep
<1> QED
  BY <1>c, <1>w, <1>s, <1>o, <1>q DEF Next

LEMMA FirstDispatchStep ==
    ASSUME "addApplied" \notin Faults, IInv, FirstDispatch, [Next]_vars
    PROVE  FirstDispatch'
<1>t. /\ row \in RowType /\ proc \in [Procs -> ProcType] /\ entry \in [Entries -> EntryType]
  BY DEF IInv, TypeOK
<1>p. Clients \subseteq Procs /\ Workers \subseteq Procs /\ Sweepers \subseteq Procs
  BY DEF Procs
<1>d. Absent.state = "absent" /\ Absent # Finished
  BY DEF Absent, Finished
<1>1. CASE row.status = "NONE"
  <2>1. (\A e \in Entries : entry[e] = Absent) /\ (\A p \in Procs : proc[p].pc = "idle")
    BY <1>1 DEF FirstDispatch
  <2>2. ASSUME NEW c \in Clients, EnqueueCreate(c) PROVE FirstDispatch'
    <3>1. row'.status = "QUEUED" /\ entry' = entry
      BY <2>2, <1>t DEF EnqueueCreate, RowType
    <3>2. \A q \in Procs \ {c} : proc'[q].pc = "idle"
      BY <2>1, <2>2, <1>t, <1>p DEF EnqueueCreate, Goto
    <3> QED
      BY <2>1, <3>1, <3>2, <1>p DEF FirstDispatch, Undispatched
  <2>3. CASE UNCHANGED vars
    BY <2>3 DEF vars, rowVars, FirstDispatch, Undispatched
  <2>4. \A p \in Procs : ~RecoveryStep(p) /\ ~RunFails(p) /\ ~Crash(p)
    BY <2>1 DEF RecoveryStep, Decide, Terminate, Requeue, RetryDispatch, Compensate, RunFails, Crash, At
  <2>5. \A w \in Workers : ~WorkerStep(w)
    BY <2>1, <2>4, <1>d, <1>p DEF WorkerStep, Take, Pickup, Handle, Complete, Finalize, At
  <2>6. \A s \in Sweepers : ~SweeperStep(s)
    BY <1>1, <2>4, <1>p DEF SweeperStep, Sweep, Stale
  <2>7. \A c \in Clients : ~ClientStep(c) /\ ~CancelRead(c) /\ ~RetryRead(c)
    BY <1>1, <2>1, <2>4, <1>p
    DEF ClientStep, CancelRead, RetryRead, EnqueueAdd, EnqueueFailed, CancelWrite, RetryWrite,
        RetryRemove, RetryAdd, RecoveryStep, At
  <2>8. ~TimeoutElapses /\ \A e \in Entries : ~Stalled(e) /\ ~Expire(e)
    BY <1>1, <2>1, <1>d DEF TimeoutElapses, Stalled, Expire
  <2> QED
    BY <2>2, <2>3, <2>4, <2>5, <2>6, <2>7, <2>8, <1>p DEF Next, ClientRequest
<1>2. CASE row.status # "NONE"
  <2> SUFFICES ASSUME row'.status # "NONE", NEW c \in Clients, Undispatched(c)'
               PROVE  /\ row'.status = "QUEUED"
                      /\ \A e \in Entries : entry'[e] = Absent
                      /\ \A p \in Procs \ {c} : proc'[p].pc \in {"idle", "cancelWrite"}
    <3>1. row'.status # "NONE"
      BY <1>2, LifecycleStep DEF Lifecycle!Next, Lifecycle!Create, Lifecycle!Start,
         Lifecycle!Finish, Lifecycle!AutomaticRetry, Lifecycle!DispatchFailure,
         Lifecycle!ManualRetry, Lifecycle!jobVars
    <3> QED
      BY <3>1 DEF FirstDispatch
  <2> DEFINE Kept == /\ row'.status = "QUEUED"
                     /\ \A e \in Entries : entry'[e] = Absent
                     /\ \A p \in Procs \ {c} : proc'[p].pc \in {"idle", "cancelWrite"}
             Moves(p) == /\ \A q \in Procs \ {p} : proc'[q] = proc[q]
                         /\ proc'[p].pc \notin {"enqueueAdd", "enqueueFailed"}
             Untouched == /\ row.status = "QUEUED" /\ (\A e \in Entries : entry[e] = Absent)
                          /\ \A p \in Procs \ {c} : proc[p].pc \in {"idle", "cancelWrite"}
  <2>1. ASSUME NEW p \in Procs, Moves(p) PROVE p # c /\ Untouched
    BY <2>1, <1>p DEF FirstDispatch, Undispatched
  <2>2. ASSUME NEW p \in Procs, EndRun(p) PROVE Moves(p)
    <3>1. \A q \in Procs \ {p} : proc'[q] = proc[q]
      BY <2>2, <1>t, EndRunEffect
    <3> QED
      BY <2>2, <3>1, <1>t, EndRunEffect
  <2>3. ASSUME NEW p \in Procs, NEW l, Goto(p, l) PROVE
           /\ \A q \in Procs \ {p} : proc'[q] = proc[q]
           /\ proc'[p].pc = l
    BY <2>3, <1>t DEF Goto, ProcType
  <2>4. ASSUME NEW k \in Clients, EnqueueAdd(k) PROVE Kept
    <3>1. k \in Procs /\ Undispatched(k)
      BY <2>4, <1>p DEF EnqueueAdd, At, Undispatched
    <3>2. CASE EndRun(k)
      BY <2>1, <2>2, <3>1, <3>2, <1>p DEF FirstDispatch, Undispatched
    <3>3. CASE Goto(k, "enqueueFailed") /\ entry' = entry /\ row' = row
      BY <2>3, <3>1, <3>3, <1>p DEF FirstDispatch, Undispatched
    <3> QED
      BY <2>4, <3>2, <3>3 DEF EnqueueAdd, DispatchFailed, Fault, rowVars
  <2>5. ASSUME NEW k \in Clients, EnqueueFailed(k) PROVE Kept
    BY <2>1, <2>2, <2>5, <1>p DEF EnqueueFailed, FirstDispatch, Undispatched, At
  <2>6. ASSUME NEW k \in Clients, CancelRead(k) PROVE Kept
    <3>1. Moves(k) /\ proc'[k].pc = "cancelWrite" /\ row' = row /\ entry' = entry
      BY <2>3, <2>6, <1>p DEF CancelRead, rowVars
    <3> QED
      BY <2>1, <3>1, <1>p
  <2>7. ASSUME NEW k \in Clients, CancelWrite(k) PROVE Kept
    <3>1. Moves(k) /\ proc'[k].pc = "idle" /\ row'.status = row.status /\ entry' = entry
      BY <2>2, <2>7, <1>p, <1>t, ProcessAssumption, EndRunEffect DEF CancelWrite, RowType, EndRun, Idle
    <3> QED
      BY <2>1, <3>1, <1>p
  <2>8. ASSUME NEW k \in Clients,
               RetryRead(k) \/ RetryWrite(k) \/ RetryRemove(k) \/ RetryAdd(k)
        PROVE  FALSE
    <3>1. Moves(k)
      BY <2>2, <2>3, <2>8, <1>p DEF RetryRead, RetryWrite, RetryRemove, RetryAdd
    <3> QED
      BY <2>1, <2>8, <3>1, <1>p DEF RetryRead, RetryWrite, RetryRemove, RetryAdd, At
  <2>9. ASSUME NEW p \in Procs, RecoveryStep(p) \/ RunFails(p) PROVE FALSE
    <3>1. Moves(p)
      BY <2>2, <2>3, <2>9
      DEF RecoveryStep, RunFails, Decide, Terminate, Requeue, RetryDispatch, Compensate
    <3> QED
      BY <2>1, <2>9, <3>1
      DEF RecoveryStep, RunFails, Decide, Terminate, Requeue, RetryDispatch, Compensate, At
  <2>10. ASSUME NEW w \in Workers, NEW e \in Entries, Take(w, e) PROVE FALSE
    <3>1. Moves(w)
      BY <2>10, <1>p, <1>t, ShapeFacts DEF Take
    <3> QED
      BY <2>1, <2>10, <3>1, <1>p, <1>d DEF Take
  <2>11. ASSUME NEW w \in Workers, Pickup(w) \/ Handle(w) \/ Complete(w) \/ Finalize(w) PROVE FALSE
    <3>1. CASE Pickup(w)
      <4>1. Moves(w)
        <5>1. ASSUME proc' = [proc EXCEPT ![w].pc = "handle", ![w].mine = row.attempts + 1]
              PROVE  Moves(w)
          BY <5>1, <1>p, <1>t DEF ProcType
        <5> QED
          BY <2>2, <3>1, <5>1, <1>p DEF Pickup
      <4> QED
        BY <2>1, <3>1, <4>1, <1>p DEF Pickup, At
    <3>2. CASE Handle(w)
      <4>1. Moves(w)
        <5>1. ASSUME proc' = [proc EXCEPT ![w].pc = "decide", ![w].verdict = "TIMED_OUT"]
              PROVE  Moves(w)
          BY <5>1, <1>p, <1>t DEF ProcType
        <5> QED
          BY <2>3, <3>2, <5>1, <1>p DEF Handle
      <4> QED
        BY <2>1, <3>2, <4>1, <1>p DEF Handle, At
    <3>3. CASE Complete(w) \/ Finalize(w)
      <4>1. Moves(w)
        BY <2>2, <2>3, <3>3, <1>p, <1>t, ShapeFacts DEF Complete, Finalize
      <4> QED
        BY <2>1, <3>3, <4>1, <1>p DEF Complete, Finalize, At
    <3> QED
      BY <2>11, <3>1, <3>2, <3>3
  <2>12. ASSUME NEW s \in Sweepers, Sweep(s) PROVE FALSE
    <3>1. Moves(s)
      BY <2>12, <1>p, <1>t DEF Sweep, Idle
    <3> QED
      BY <2>1, <2>12, <3>1, <1>p DEF Sweep, Stale
  <2>13. ASSUME NEW p \in Procs, Crash(p) PROVE Kept
    <3>1. Moves(p) /\ proc'[p].pc = "idle" /\ row' = row /\ entry' = entry
      BY <2>13, <1>t, ShapeFacts DEF Crash, rowVars
    <3> QED
      BY <2>1, <3>1
  <2>14. CASE UNCHANGED vars \/ TimeoutElapses \/ \E e \in Entries : Stalled(e) \/ Expire(e)
    <3>1. proc' = proc /\ row' = row
      BY <2>14 DEF vars, rowVars, TimeoutElapses, Stalled, Expire
    <3>2. Untouched
      BY <3>1 DEF FirstDispatch, Undispatched
    <3>3. \A e \in Entries : ~Stalled(e) /\ ~Expire(e)
      BY <3>2, <1>d DEF Stalled, Expire
    <3> QED
      BY <2>14, <3>1, <3>2, <3>3 DEF vars, TimeoutElapses
  <2>15. \A k \in Clients : ~EnqueueCreate(k)
    BY <1>2 DEF EnqueueCreate
  <2>16. ASSUME NEW k \in Clients, ClientRequest(k) \/ ClientStep(k) PROVE Kept
    BY <2>4, <2>5, <2>6, <2>7, <2>8, <2>9, <2>15, <2>16, <1>p
    DEF ClientRequest, ClientStep, RecoveryStep
  <2>17. ASSUME NEW w \in Workers, WorkerStep(w) \/ RunFails(w) PROVE FALSE
    BY <2>9, <2>10, <2>11, <2>17, <1>p DEF WorkerStep
  <2>18. ASSUME NEW s \in Sweepers, SweeperStep(s) \/ RunFails(s) PROVE FALSE
    BY <2>9, <2>12, <2>18, <1>p DEF SweeperStep
  <2> QED
    BY <2>13, <2>14, <2>16, <2>17, <2>18 DEF Next
<1> QED
  BY <1>1, <1>2

\* When a throwing Queue.add adds nothing, the engine implements JobLifecycle.
THEOREM ImplementsLifecycle ==
    ASSUME "addApplied" \notin Faults
    PROVE  Spec => LifecycleSpec
<1>1. Init => FirstDispatch
  BY DEF Init, FirstDispatch, Undispatched, NoRow, Idle, Procs
<1>2. IInv /\ FirstDispatch /\ [Next]_vars => FirstDispatch'
  BY FirstDispatchStep
<1>3. Init => Lifecycle!Init
  BY DEF Init, Lifecycle!Init, NoRow
<1>4. IInv /\ FirstDispatch /\ [Next]_vars => [Lifecycle!Next]_(Lifecycle!jobVars)
  BY LifecycleStep
<1> QED
  BY <1>1, <1>2, <1>3, <1>4, Invariance, PTL DEF Spec, LifecycleSpec, Lifecycle!Spec

LEMMA LeavesTerminal ==
    ASSUME IInv, [Next]_vars, row.status \in Retryable, row'.status = "QUEUED"
    PROVE  manual' = manual + 1
<1>t. row \in RowType
  BY DEF IInv, TypeOK
<1>n. row' # row
  OBVIOUS
<1>r. ASSUME NEW p \in Procs, RecoveryStep(p) \/ RunFails(p) PROVE FALSE
  <2>1. ~Terminate(p) /\ ~Requeue(p)
    BY <1>n DEF Terminate, Requeue, Fenced
  <2> QED
    BY <1>n, <1>r, <2>1
    DEF RecoveryStep, RunFails, Decide, RetryDispatch, Compensate, rowVars
<1>c. ASSUME NEW c \in Clients, ClientRequest(c) \/ ClientStep(c) PROVE manual' = manual + 1
  <2>1. ~EnqueueFailed(c) /\ ~CancelWrite(c) /\ ~EnqueueCreate(c)
    BY <1>n, <1>t DEF EnqueueFailed, CancelWrite, EnqueueCreate, RowType
  <2>2. ~Compensate(c)
    BY <1>r DEF RecoveryStep, Procs
  <2> QED
    BY <1>n, <1>c, <2>1, <2>2
    DEF ClientRequest, ClientStep, CancelRead, RetryRead, EnqueueAdd, RetryWrite, RetryRemove,
        RetryAdd, rowVars
<1>w. ASSUME NEW w \in Workers, WorkerStep(w) \/ RunFails(w) PROVE FALSE
  <2>1. ~Complete(w) /\ ~Pickup(w)
    BY <1>n DEF Complete, Fenced, Pickup, rowVars
  <2> QED
    BY <1>n, <1>r, <1>w, <2>1 DEF WorkerStep, Take, Handle, Finalize, rowVars, Procs
<1>s. ASSUME NEW s \in Sweepers, SweeperStep(s) \/ RunFails(s) PROVE FALSE
  BY <1>n, <1>r, <1>s DEF SweeperStep, Sweep, rowVars, Procs
<1> QED
  BY <1>n, <1>c, <1>w, <1>s
  DEF Next, vars, rowVars, TimeoutElapses, Stalled, Expire, Crash

\* Under the same assumption a terminal row changes only by a granted manual retry.
THEOREM TerminalIsStable ==
    ASSUME "addApplied" \notin Faults
    PROVE  Spec => TerminalUntilRetry
<1>1. Init => FirstDispatch
  BY DEF Init, FirstDispatch, Undispatched, NoRow, Idle, Procs
<1>2. IInv /\ FirstDispatch /\ [Next]_vars => FirstDispatch'
  BY FirstDispatchStep
<1>3. IInv /\ FirstDispatch /\ [Next]_vars =>
        [row.status \in Terminal =>
            \/ row'.status = row.status /\ row'.deadLettered = row.deadLettered
            \/ manual' = manual + 1]_vars
  <2> SUFFICES ASSUME IInv, FirstDispatch, [Next]_vars, row.status \in Terminal,
                      ~(row'.status = row.status /\ row'.deadLettered = row.deadLettered)
               PROVE  manual' = manual + 1
    OBVIOUS
  <2>1. [Lifecycle!Next]_(Lifecycle!jobVars)
    BY LifecycleStep
  <2>2. row.status \in Retryable /\ row'.status = "QUEUED"
    BY <2>1 DEF Lifecycle!Next, Lifecycle!Create, Lifecycle!Start, Lifecycle!Finish,
       Lifecycle!AutomaticRetry, Lifecycle!DispatchFailure, Lifecycle!ManualRetry,
       Lifecycle!jobVars
  <2> QED
    BY <2>2, LeavesTerminal
<1> QED
  BY <1>1, <1>2, <1>3, Invariance, PTL DEF Spec, TerminalUntilRetry
=============================================================================
