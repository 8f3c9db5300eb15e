-------------------------- MODULE GenerationProofs --------------------------
(* Proofs about two parts of the generation of content that share no row:   *)
(* the AI job under the attempts of its background job, and the             *)
(* computations that lay a video out on its narration. They hold for every  *)
(* budget and number of attempts, and for every plan, script and narration, *)
(* however long.                                                            *)
EXTENDS AiJobs, VideoTiming, TLAPS, SequenceTheorems, WellFoundedInduction

-----------------------------------------------------------------------------
(* AiJobs: the claim keeps overlapping attempts apart, and an undisturbed   *)
(* background job is not over before its AI job is.                         *)

\* Only one handler of an attempt moves.
LEMMA HandlerMoves ==
    ASSUME AiTypeOK, NEW n \in Starts, NEW step, Proceed(n, step)
    PROVE  \A k \in Starts : handler'[k] = IF k = n THEN step ELSE handler[k]
  BY DEF AiTypeOK, Proceed

LEMMA AiInitial == AiInit => AiIInv
  <1> SUFFICES ASSUME AiInit PROVE AiIInv
    OBVIOUS
  <1>1. /\ jobStatus = "NONE" /\ jobAttempts = 0 /\ jobDead = FALSE
        /\ ai = "NONE" /\ upset = FALSE /\ handler = [n \in Starts |-> "none"]
    BY DEF AiInit, Engine!Init
  <1>2. AiTypeOK
    <2>1. jobAttempts \in 0..MaxStarts
      BY <1>1, AiAssumption
    <2>2. jobDead \in BOOLEAN /\ upset \in BOOLEAN
      BY <1>1
    <2>3. handler \in [Starts -> HandlerStates]
      BY <1>1 DEF HandlerStates
    <2> QED
      BY <1>1, <2>1, <2>2, <2>3 DEF AiTypeOK
  <1>3. ClaimHeld /\ NotBegun
    BY <1>1 DEF ClaimHeld, NotBegun, Busy
  <1>4. Agreement
    BY <1>1 DEF Agreement, Engine!Settled
  <1> QED
    BY <1>2, <1>3, <1>4 DEF AiIInv

-----------------------------------------------------------------------------
LEMMA AiTypeStep == AiTypeOK /\ [AiNext]_aiVars => AiTypeOK'
  <1> SUFFICES ASSUME AiTypeOK, [AiNext]_aiVars PROVE AiTypeOK'
    OBVIOUS
  <1> USE AiAssumption DEF AiTypeOK, engineVars, AiTerminal
  <1>1. CASE CreateAiJob
    BY <1>1 DEF CreateAiJob
  <1>2. CASE EnqueueAiJob
    BY <1>2 DEF EnqueueAiJob, Engine!Create
  <1>3. CASE StartAttempt
    <2>1. jobAttempts' \in 0..MaxStarts /\ jobStatus' = "RUNNING" /\ UNCHANGED <<jobDead, ai, upset>>
      BY <1>3 DEF StartAttempt, Engine!Start
    <2>2. handler' \in [Starts -> HandlerStates]
      BY <1>3 DEF StartAttempt, Proceed, HandlerStates
    <2> QED
      BY <2>1, <2>2
  <1>4. CASE GiveUp
    BY <1>4 DEF GiveUp, Engine!AutomaticRetry, Engine!Finish, Engine!Settled
  <1>5. CASE DispatchFails
    BY <1>5 DEF DispatchFails, Engine!DispatchFailure, Engine!Settled
  <1>6. CASE RetryByUser
    BY <1>6 DEF RetryByUser, Engine!ManualRetry
  <1>7. CASE \E n \in Starts : HandlerStep(n)
    <2> PICK n \in Starts : HandlerStep(n)
      BY <1>7
    <2>1. CASE FindAiJob(n)
      BY <2>1 DEF FindAiJob, Proceed, HandlerStates
    <2>2. CASE ClaimAiJob(n)
      BY <2>2 DEF ClaimAiJob, Proceed, HandlerStates
    <2>3. CASE CheckPack(n)
      BY <2>3 DEF CheckPack, Proceed, HandlerStates
    <2>4. CASE Execute(n)
      BY <2>4 DEF Execute, Proceed, HandlerStates
    <2>5. CASE WriteOutcome(n)
      BY <2>5 DEF WriteOutcome, Proceed, HandlerStates, AiWritten, Returns
    <2>6. CASE HandlerFails(n)
      BY <2>6 DEF HandlerFails, Proceed, HandlerStates
    <2>7. CASE ReturnAttempt(n)
      <3>1. /\ jobStatus' \in {"NONE", "QUEUED", "RUNNING"} \cup Engine!Settled
            /\ jobAttempts' = jobAttempts /\ jobDead' \in BOOLEAN
        BY <2>7 DEF ReturnAttempt, Outcome, Engine!Finish, Engine!AutomaticRetry, Engine!Settled
      <3> QED
        BY <2>7, <3>1 DEF ReturnAttempt, Proceed, HandlerStates
    <2>8. CASE WorkerDies(n)
      BY <2>8 DEF WorkerDies, Proceed, HandlerStates
    <2> QED
      BY <2>1, <2>2, <2>3, <2>4, <2>5, <2>6, <2>7, <2>8 DEF HandlerStep
  <1>8. CASE UNCHANGED aiVars
    BY <1>8 DEF aiVars
  <1> QED
    BY <1>1, <1>2, <1>3, <1>4, <1>5, <1>6, <1>7, <1>8 DEF AiNext

\* The status QUEUED is written at the creation and by the handler that held
\* the claim; nothing else makes the row claimable again.
LEMMA ClaimStep == AiIInv /\ [AiNext]_aiVars => ClaimHeld'
  <1> SUFFICES ASSUME AiIInv, [AiNext]_aiVars PROVE ClaimHeld'
    OBVIOUS
  <1> USE DEF ClaimHeld, Busy
  <1>1. AiTypeOK /\ ClaimHeld /\ NotBegun
    BY DEF AiIInv
  <1>2. CASE CreateAiJob
    BY <1>1, <1>2 DEF CreateAiJob
  <1>3. CASE StartAttempt
    <2>1. jobAttempts + 1 \in Starts
      BY <1>1, <1>3, AiAssumption DEF StartAttempt, Starts, AiTypeOK
    <2>2. \A k \in Starts : handler'[k] = IF k = jobAttempts + 1 THEN "find" ELSE handler[k]
      BY <1>1, <1>3, <2>1, HandlerMoves DEF StartAttempt
    <2> QED
      BY <1>1, <1>3, <2>2 DEF StartAttempt
  <1>4. CASE EnqueueAiJob \/ GiveUp \/ DispatchFails \/ RetryByUser \/ UNCHANGED aiVars
    BY <1>1, <1>4 DEF EnqueueAiJob, GiveUp, DispatchFails, RetryByUser, aiVars
  <1>5. CASE \E n \in Starts : HandlerStep(n)
    <2> PICK n \in Starts : HandlerStep(n)
      BY <1>5
    <2>1. CASE FindAiJob(n)
      BY <1>1, <2>1, HandlerMoves DEF FindAiJob
    <2>2. CASE ClaimAiJob(n)
      <3>1. CASE Unclaimed /\ ai' = "RUNNING" /\ Proceed(n, "prepare")
        <4>1. \A k \in Starts : ~Busy(k)
          BY <1>1, <3>1 DEF Unclaimed
        <4>2. \A k \in Starts : handler'[k] = IF k = n THEN "prepare" ELSE handler[k]
          BY <1>1, <3>1, HandlerMoves
        <4> QED
          BY <3>1, <4>1, <4>2
      <3>2. CASE Proceed(n, "succeed") /\ UNCHANGED ai
        <4>1. \A k \in Starts : handler'[k] = IF k = n THEN "succeed" ELSE handler[k]
          BY <1>1, <3>2, HandlerMoves
        <4> QED
          BY <1>1, <3>2, <4>1
      <3> QED
        BY <2>2, <3>1, <3>2 DEF ClaimAiJob
    <2>3. CASE CheckPack(n)
      <3>1. PICK next \in {"execute", "reject"} : Proceed(n, next)
        BY <2>3 DEF CheckPack
      <3>2. \A k \in Starts : handler'[k] = IF k = n THEN next ELSE handler[k]
        BY <1>1, <3>1, HandlerMoves
      <3>3. InHand(n, "prepare") /\ UNCHANGED ai
        BY <2>3 DEF CheckPack
      <3> QED
        BY <1>1, <3>2, <3>3 DEF InHand
    <2>4. CASE Execute(n)
      <3>1. PICK next \in {"complete", "reject", "expire", "revert"} : Proceed(n, next)
        BY <2>4 DEF Execute
      <3>2. \A k \in Starts : handler'[k] = IF k = n THEN next ELSE handler[k]
        BY <1>1, <3>1, HandlerMoves
      <3>3. InHand(n, "execute") /\ UNCHANGED ai
        BY <2>4 DEF Execute
      <3> QED
        BY <1>1, <3>2, <3>3 DEF InHand
    <2>5. CASE WriteOutcome(n)
      <3>1. /\ handler[n] \in {"complete", "revert", "reject", "expire"}
            /\ ai' \in {"COMPLETED", "QUEUED", "FAILED", "TIMED_OUT"}
            /\ ai' = "QUEUED" => handler[n] = "revert"
        BY <2>5 DEF WriteOutcome, AiWritten
      <3>2. PICK next \in {"succeed", "retry", "fail"} : Proceed(n, next)
        BY <2>5 DEF WriteOutcome, AiWritten, Returns
      <3>3. \A k \in Starts : handler'[k] = IF k = n THEN next ELSE handler[k]
        BY <1>1, <3>2, HandlerMoves
      <3> QED
        BY <1>1, <3>1, <3>3
    <2>6. CASE HandlerFails(n)
      <3>1. PICK next \in {"retry", "revert", "reject"} :
                Proceed(n, next) /\ (next = "revert" => InHand(n, "complete"))
        BY <2>6 DEF HandlerFails
      <3>2. \A k \in Starts : handler'[k] = IF k = n THEN next ELSE handler[k]
        BY <1>1, <3>1, HandlerMoves
      <3>3. UNCHANGED ai
        BY <2>6 DEF HandlerFails
      <3> QED
        BY <1>1, <3>1, <3>2, <3>3 DEF InHand
    <2>7. CASE ReturnAttempt(n) \/ WorkerDies(n)
      <3>1. Proceed(n, "done") /\ UNCHANGED ai
        BY <2>7 DEF ReturnAttempt, WorkerDies
      <3>2. \A k \in Starts : handler'[k] = IF k = n THEN "done" ELSE handler[k]
        BY <1>1, <3>1, HandlerMoves
      <3> QED
        BY <1>1, <3>1, <3>2
    <2> QED
      BY <2>1, <2>2, <2>3, <2>4, <2>5, <2>6, <2>7 DEF HandlerStep
  <1> QED
    BY <1>2, <1>3, <1>4, <1>5 DEF AiNext

LEMMA NotBegunStep == AiIInv /\ [AiNext]_aiVars => NotBegun'
  <1> SUFFICES ASSUME AiIInv, [AiNext]_aiVars PROVE NotBegun'
    OBVIOUS
  <1> USE DEF NotBegun
  <1>1. AiTypeOK /\ NotBegun
    BY DEF AiIInv
  <1>2. CASE CreateAiJob
    BY <1>1, <1>2 DEF CreateAiJob, engineVars
  <1>3. CASE EnqueueAiJob
    BY <1>1, <1>3 DEF EnqueueAiJob, Engine!Create
  <1>4. CASE StartAttempt
    <2>1. /\ jobAttempts + 1 \in Starts /\ jobAttempts' = jobAttempts + 1
          /\ jobStatus = "QUEUED" /\ jobStatus' = "RUNNING" /\ UNCHANGED ai
      BY <1>1, <1>4, AiAssumption DEF StartAttempt, Starts, AiTypeOK, Engine!Start
    <2>2. \A k \in Starts : handler'[k] = IF k = jobAttempts + 1 THEN "find" ELSE handler[k]
      BY <1>1, <1>4, <2>1, HandlerMoves DEF StartAttempt
    <2>3. \A k \in Starts : k > jobAttempts + 1 => k > jobAttempts /\ k # jobAttempts + 1
      BY <1>1, AiAssumption DEF Starts, AiTypeOK
    <2> QED
      BY <1>1, <2>1, <2>2, <2>3
  <1>5. CASE GiveUp \/ DispatchFails \/ RetryByUser
    <2>1. /\ jobStatus # "NONE" /\ jobStatus' # "NONE"
          /\ UNCHANGED <<jobAttempts, handler, ai>>
      BY <1>5 DEF GiveUp, DispatchFails, RetryByUser, Engine!AutomaticRetry, Engine!Finish,
                  Engine!DispatchFailure, Engine!ManualRetry
    <2> QED
      BY <1>1, <2>1
  <1>6. CASE \E n \in Starts : HandlerStep(n)
    <2> PICK n \in Starts : HandlerStep(n)
      BY <1>6
    <2>1. handler[n] # "none" /\ (\E step : Proceed(n, step))
      BY DEF HandlerStep, FindAiJob, ClaimAiJob, CheckPack, Execute, WriteOutcome,
             HandlerFails, ReturnAttempt, WorkerDies, InHand, AiWritten
    <2>2. jobStatus # "NONE" /\ ~(n > jobAttempts) /\ ai # "NONE"
      BY <1>1, <2>1
    <2>3. jobStatus' # "NONE" /\ jobAttempts' = jobAttempts
      <3>1. CASE ReturnAttempt(n)
        BY <2>2, <3>1 DEF ReturnAttempt, Outcome, Engine!Finish, Engine!AutomaticRetry, engineVars
      <3>2. CASE ~ReturnAttempt(n)
        BY <2>2, <3>2 DEF HandlerStep, FindAiJob, ClaimAiJob, CheckPack, Execute,
                          WriteOutcome, HandlerFails, WorkerDies, engineVars
      <3> QED
        BY <3>1, <3>2
    <2>4. ai' # "NONE"
      BY <2>2 DEF HandlerStep, FindAiJob, ClaimAiJob, CheckPack, Execute, WriteOutcome,
                  HandlerFails, ReturnAttempt, WorkerDies, AiWritten
    <2>5. \A k \in Starts : k # n => handler'[k] = handler[k]
      BY <1>1, <2>1, HandlerMoves
    <2> QED
      BY <1>1, <2>2, <2>3, <2>4, <2>5
  <1>7. CASE UNCHANGED aiVars
    BY <1>1, <1>7 DEF aiVars
  <1> QED
    BY <1>2, <1>3, <1>4, <1>5, <1>6, <1>7 DEF AiNext

-----------------------------------------------------------------------------
\* In an undisturbed step of an undisturbed attempt: it is the one the engine
\* runs, all the others are over.
LEMMA KnowledgeMoves ==
    ASSUME AiTypeOK, Agreement, NEW n \in Starts, handler[n] \notin {"none", "done"},
           NEW step, Proceed(n, step), UNCHANGED engineVars, Knows(n, step)'
    PROVE  Agreement'
  <1>1. \A k \in Starts : handler'[k] = IF k = n THEN step ELSE handler[k]
    BY HandlerMoves
  <1>2. /\ jobStatus = "RUNNING" /\ jobAttempts = n
        /\ \A k \in Starts : k # n => handler[k] \in {"none", "done"}
    BY DEF Agreement
  <1>3. jobStatus' = "RUNNING" /\ jobAttempts' = n /\ handler'[n] = step
    BY <1>1, <1>2 DEF engineVars
  <1>4. Knows(jobAttempts, handler[jobAttempts])'
    BY <1>3 DEF Knows
  <1> QED
    BY <1>1, <1>2, <1>3, <1>4 DEF Agreement, Engine!Settled

LEMMA AgreementHandler ==
    ASSUME AiIInv, ~upset, ~upset', NEW n \in Starts, HandlerStep(n)
    PROVE  Agreement'
  <1>1. AiTypeOK /\ Agreement
    BY DEF AiIInv
  <1>2. handler[n] # "none" /\ handler[n] # "done"
    BY DEF HandlerStep, FindAiJob, ClaimAiJob, CheckPack, Execute, WriteOutcome,
           HandlerFails, ReturnAttempt, WorkerDies, InHand, AiWritten
  <1>3. /\ jobStatus = "RUNNING" /\ jobAttempts = n /\ Knows(n, handler[n])
        /\ \A k \in Starts : k # n => handler[k] \in {"none", "done"}
    BY <1>1, <1>2 DEF Agreement
  <1>4. CASE FindAiJob(n)
    BY <1>1, <1>2, <1>3, <1>4, KnowledgeMoves DEF FindAiJob, Knows, InHand, AiTerminal
  <1>5. CASE ClaimAiJob(n)
    BY <1>1, <1>2, <1>3, <1>5, KnowledgeMoves DEF ClaimAiJob, Unclaimed, Knows, InHand
  <1>6. CASE CheckPack(n)
    BY <1>1, <1>2, <1>3, <1>6, KnowledgeMoves DEF CheckPack, Knows, InHand
  <1>7. CASE Execute(n)
    <2>1. ~IsLastAttempt(n) => n < Budget
      BY AiAssumption DEF IsLastAttempt, Starts
    <2> QED
      BY <1>1, <1>2, <1>3, <1>7, <2>1, KnowledgeMoves DEF Execute, Knows, InHand
  <1>8. CASE WriteOutcome(n)
    BY <1>1, <1>2, <1>3, <1>8, KnowledgeMoves
       DEF WriteOutcome, AiWritten, Returns, Knows, AiTerminal
  <1>9. CASE HandlerFails(n) \/ WorkerDies(n)
    BY <1>9 DEF HandlerFails, WorkerDies
  <1>10. CASE ReturnAttempt(n)
    <2>1. Outcome(n) /\ UNCHANGED ai /\ handler[n] \in {"succeed", "retry", "fail"}
      BY <1>3, <1>10 DEF ReturnAttempt, Fenced
    <2>2. \A k \in Starts : handler'[k] \in {"none", "done"}
      BY <1>1, <1>3, <1>10, HandlerMoves DEF ReturnAttempt
    <2>3. CASE handler[n] = "retry"
      BY <1>3, <2>1, <2>2, <2>3
         DEF Outcome, InHand, Knows, Engine!AutomaticRetry, Agreement, Engine!Settled
    <2>4. CASE handler[n] # "retry"
      <3>1. ai \in AiTerminal /\ jobStatus' \in {"COMPLETED", "FAILED"}
        BY <1>3, <2>1, <2>4 DEF Outcome, InHand, Knows
      <3> QED
        BY <2>1, <2>2, <3>1 DEF Agreement
    <2> QED
      BY <2>3, <2>4
  <1> QED
    BY <1>4, <1>5, <1>6, <1>7, <1>8, <1>9, <1>10 DEF HandlerStep

LEMMA AgreementStep ==
    AiIInv /\ [AiNext]_aiVars /\ AiTypeOK' /\ ~upset' => Agreement'
  <1> SUFFICES ASSUME AiIInv, [AiNext]_aiVars, AiTypeOK', ~upset' PROVE Agreement'
    OBVIOUS
  <1>1. AiTypeOK /\ NotBegun
    BY DEF AiIInv
  <1>2. ~upset
    BY <1>1 DEF AiNext, CreateAiJob, EnqueueAiJob, StartAttempt, GiveUp, DispatchFails,
           RetryByUser, HandlerStep, FindAiJob, ClaimAiJob, CheckPack, Execute,
           WriteOutcome, HandlerFails, ReturnAttempt, WorkerDies, aiVars
  <1>3. Agreement
    BY <1>2 DEF AiIInv
  <1>4. CASE CreateAiJob
    <2>1. jobStatus = "NONE" /\ jobStatus' = "NONE" /\ UNCHANGED handler
      BY <1>1, <1>4 DEF CreateAiJob, NotBegun, engineVars
    <2> QED
      BY <1>1, <2>1 DEF NotBegun, Agreement, Engine!Settled
  <1>5. CASE EnqueueAiJob
    <2>1. jobStatus = "NONE" /\ jobStatus' = "QUEUED" /\ ai' = "QUEUED" /\ UNCHANGED handler
      BY <1>5 DEF EnqueueAiJob, Engine!Create
    <2> QED
      BY <1>1, <2>1 DEF NotBegun, Agreement, Engine!Settled
  <1>6. CASE StartAttempt
    <2>1. /\ jobAttempts + 1 \in Starts /\ jobAttempts' = jobAttempts + 1
          /\ jobStatus = "QUEUED" /\ jobStatus' = "RUNNING" /\ UNCHANGED ai
      BY <1>1, <1>6, AiAssumption DEF StartAttempt, Starts, AiTypeOK, Engine!Start
    <2>2. \A k \in Starts : handler'[k] = IF k = jobAttempts + 1 THEN "find" ELSE handler[k]
      BY <1>1, <1>6, <2>1, HandlerMoves DEF StartAttempt
    <2>3. \A k \in Starts : handler[k] \in {"none", "done"}
      BY <1>3, <2>1 DEF Agreement
    <2>4. handler'[jobAttempts'] = "find" /\ ai' \in {"QUEUED"} \cup AiTerminal
      BY <1>3, <2>1, <2>2 DEF Agreement
    <2>5. Knows(jobAttempts, handler[jobAttempts])'
      BY <2>4 DEF Knows
    <2> QED
      BY <2>1, <2>2, <2>3, <2>5 DEF Agreement, Engine!Settled
  <1>7. CASE GiveUp \/ DispatchFails
    BY <1>7 DEF GiveUp, DispatchFails
  <1>8. CASE RetryByUser
    <2>1. /\ jobStatus \in {"FAILED", "TIMED_OUT"} /\ jobStatus' = "QUEUED"
          /\ UNCHANGED <<ai, handler>>
      BY <1>8 DEF RetryByUser, Engine!ManualRetry
    <2> QED
      BY <1>3, <2>1 DEF Agreement, Engine!Settled
  <1>9. CASE \E n \in Starts : HandlerStep(n)
    BY <1>2, <1>9, AgreementHandler
  <1>10. CASE UNCHANGED aiVars
    BY <1>3, <1>10 DEF aiVars, Agreement, Knows
  <1> QED
    BY <1>4, <1>5, <1>6, <1>7, <1>8, <1>9, <1>10 DEF AiNext

LEMMA AiInvariant == AiSpec => []AiIInv
  <1>1. AiIInv /\ [AiNext]_aiVars => AiIInv'
    BY AiTypeStep, ClaimStep, NotBegunStep, AgreementStep DEF AiIInv
  <1> QED
    BY <1>1, AiInitial, PTL DEF AiSpec

-----------------------------------------------------------------------------
\* "Guards against two overlapping executions of the identical AiJob", for any
\* number of attempts that overlap.
THEOREM AiSpecOneExecution == AiSpec => []OneExecution
  <1>1. AiIInv => OneExecution
    BY DEF AiIInv, ClaimHeld, Busy, OneExecution, InHand
  <1> QED
    BY <1>1, AiInvariant, PTL

\* The last attempt of the handler is the engine's, whatever the budget: an
\* undisturbed background job that is over has driven its row to the end.
THEOREM AiSpecDrivenToTerminal == AiSpec => []DrivenToTerminal
  <1>1. AiIInv => DrivenToTerminal
    BY DEF AiIInv, Agreement, DrivenToTerminal, Settled, Engine!Settled
  <1> QED
    BY <1>1, AiInvariant, PTL

-----------------------------------------------------------------------------
(* VideoTiming: what its recursive functions compute is shown by induction, *)
(* stated about a set of numbers: a set that holds 0 and the successor of   *)
(* each of its members holds them all, because what it misses would have a  *)
(* least element. A function that repeats a step exists up to any bound by  *)
(* the same argument. The timeline then rests on sums: a share, rounded and *)
(* at least 1, is within one unit of the exact one, and the last scene      *)
(* takes the difference. The cues rest on one relation between a cue and    *)
(* its predecessor, which the normalization establishes for all but the     *)
(* last.                                                                    *)

\* Induction over a set of numbers: the least number outside it has a predecessor.
LEMMA LessIsBelow == \A x, y \in Nat : (<<x, y>> \in OpToRel(<, Nat)) <=> x < y
  BY Zenon DEF OpToRel

LEMMA InductionOverNat ==
    ASSUME NEW S, 0 \in S, \A n \in Nat : n \in S => n + 1 \in S
    PROVE  Nat \subseteq S
  <1> DEFINE Out == {n \in Nat : n \notin S}
  <1> SUFFICES ASSUME Out # {} PROVE FALSE
    OBVIOUS
  <1>1. PICK n \in Out : \A k \in Out : ~(<<k, n>> \in OpToRel(<, Nat))
    <2> HIDE DEF Out
    <2>1. Out \subseteq Nat
      BY DEF Out
    <2> QED
      BY <2>1, NatLessThanWellFounded, WFMin, Zenon
  <1>2. n \in Nat /\ n # 0
    OBVIOUS
  <1>3. n - 1 \in Nat /\ n - 1 < n
    BY <1>2
  <1>4. n - 1 \notin Out
    BY <1>1, <1>3, <1>2, LessIsBelow, Zenon
  <1> QED
    BY <1>2, <1>3, <1>4

\* The same up to a bound.
LEMMA InductionUpTo ==
    ASSUME NEW n \in Nat, NEW S, 0 \in S, \A k \in 0..(n - 1) : k \in S => k + 1 \in S
    PROVE  0..n \subseteq S
  <1> DEFINE T == {k \in Nat : k <= n => k \in S}
  <1>1. 0 \in T
    OBVIOUS
  <1>2. \A k \in Nat : k \in T => k + 1 \in T
    OBVIOUS
  <1> HIDE DEF T
  <1>3. Nat \subseteq T
    BY <1>1, <1>2, InductionOverNat, Zenon
  <1> QED
    BY <1>3 DEF T

\* Primitive recursion: a step, given as a function of the number and of the last
\* value, has a function that follows it.
Iterates(f, m, v, Step) == f[0] = v /\ \A i \in 1..m : f[i] = Step[<<i, f[i - 1]>>]

LEMMA RecursionUpTo ==
    ASSUME NEW n \in Nat, NEW V, NEW v \in V, NEW Step \in [(1..n) \X V -> V]
    PROVE  \E f \in [0..n -> V] : Iterates(f, n, v, Step)
  <1> DEFINE Follows(f, m) == Iterates(f, m, v, Step)
             S == {m \in Nat : \E f \in [0..m -> V] : Follows(f, m)}
  <1> USE DEF Iterates
  <1>1. 0 \in S
    <2>1. [i \in 0..0 |-> v] \in [0..0 -> V] /\ Follows([i \in 0..0 |-> v], 0)
      OBVIOUS
    <2> QED
      BY <2>1
  <1>2. ASSUME NEW m \in 0..(n - 1), m \in S PROVE m + 1 \in S
    <2>1. PICK f \in [0..m -> V] : Follows(f, m)
      BY <1>2
    <2> DEFINE g == [i \in 0..(m + 1) |-> IF i = m + 1 THEN Step[<<m + 1, f[m]>>] ELSE f[i]]
    <2>2. Step[<<m + 1, f[m]>>] \in V
      <3>1. m + 1 \in 1..n /\ f[m] \in V
        OBVIOUS
      <3>2. <<m + 1, f[m]>> \in (1..n) \X V
        BY <3>1
      <3> QED
        BY <3>2
    <2>3. g \in [0..(m + 1) -> V]
      BY <2>2
    <2>4. Follows(g, m + 1)
      <3>1. g[0] = v
        BY <2>1
      <3>2. ASSUME NEW i \in 1..(m + 1) PROVE g[i] = Step[<<i, g[i - 1]>>]
        <4>1. CASE i = m + 1
          <5>1. g[m] = f[m] /\ g[m + 1] = Step[<<m + 1, f[m]>>] /\ i - 1 = m
            BY <4>1
          <5> QED
            BY <5>1, <4>1
        <4>2. CASE i # m + 1
          <5>1. i \in 1..m /\ g[i] = f[i] /\ g[i - 1] = f[i - 1]
            BY <4>2
          <5> QED
            BY <5>1, <2>1
        <4> QED
          BY <4>1, <4>2
      <3> QED
        BY <3>1, <3>2
    <2> HIDE DEF g, Follows
    <2>5. m + 1 \in Nat
      OBVIOUS
    <2> QED
      BY <2>3, <2>4, <2>5
  <1>3. 0..n \subseteq S
    <2> HIDE DEF S
    <2> QED
      BY <1>1, <1>2, InductionUpTo
  <1>4. n \in S
    BY <1>3
  <1> QED
    BY <1>4

-----------------------------------------------------------------------------
(* Sums                                                                      *)

Sums(f, length, k) == f[0] = 0 /\ \A i \in 1..k : f[i] = f[i - 1] + length[i]

\* SumTo is the value of a function that adds the lengths one by one.
LEMMA SumToExists ==
    ASSUME NEW k \in Nat, NEW length, \A i \in 1..k : length[i] \in Int
    PROVE  \E f \in [0..k -> Int] : Sums(f, length, k) /\ SumTo(length, k) = f[k]
  <1> DEFINE Step == [p \in (1..k) \X Int |-> p[2] + length[p[1]]]
             F == CHOOSE f : f = [i \in 0..k |-> IF i = 0 THEN 0 ELSE f[i - 1] + length[i]]
  <1>1. Step \in [(1..k) \X Int -> Int]
    OBVIOUS
  <1>2. \A i \in 1..k, s \in Int : Step[<<i, s>>] = s + length[i]
    OBVIOUS
  <1> HIDE DEF Step
  <1>3. PICK f \in [0..k -> Int] : Iterates(f, k, 0, Step)
    <2>1. 0 \in Int
      OBVIOUS
    <2> QED
      BY <1>1, <2>1, RecursionUpTo
  <1>4. f = [i \in 0..k |-> IF i = 0 THEN 0 ELSE f[i - 1] + length[i]]
    <2>1. \A i \in 1..k : i - 1 \in 0..k /\ f[i - 1] \in Int
      OBVIOUS
    <2>2. \A i \in 1..k : f[i] = f[i - 1] + length[i]
      BY <1>2, <1>3, <2>1 DEF Iterates
    <2> QED
      BY <2>2, <1>3 DEF Iterates
  <1>5. F = [i \in 0..k |-> IF i = 0 THEN 0 ELSE F[i - 1] + length[i]]
    BY <1>4
  <1>6. SumTo(length, k) = F[k]
    BY DEF SumTo
  <1> HIDE DEF F
  <1>7. F[0] = 0 /\ \A i \in 1..k : F[i] = F[i - 1] + length[i]
    BY <1>5
  <1>8. F \in [0..k -> Int]
    <2> DEFINE S == {i \in 0..k : F[i] \in Int}
    <2>1. 0 \in S
      BY <1>7
    <2>2. \A i \in 0..(k - 1) : i \in S => i + 1 \in S
      <3> SUFFICES ASSUME NEW i \in 0..(k - 1), F[i] \in Int PROVE i + 1 \in 0..k /\ F[i + 1] \in Int
        OBVIOUS
      <3>1. i + 1 \in 1..k /\ (i + 1) - 1 = i
        OBVIOUS
      <3>2. F[i + 1] = F[i] + length[i + 1]
        BY <3>1, <1>7, Zenon
      <3> QED
        BY <3>1, <3>2
    <2> HIDE DEF S
    <2>3. 0..k \subseteq S
      BY <2>1, <2>2, InductionUpTo
    <2> QED
      BY <2>3, <1>5 DEF S
  <1> QED
    BY <1>6, <1>7, <1>8 DEF Sums

\* What is summed before a number is a sum of its own.
LEMMA SumsAgree ==
    ASSUME NEW k \in Nat, NEW a, NEW b, NEW f, NEW g, Sums(f, a, k), Sums(g, b, k),
           \A i \in 1..k : a[i] = b[i]
    PROVE  \A i \in 0..k : f[i] = g[i]
  <1> DEFINE S == {i \in 0..k : f[i] = g[i]}
  <1>1. 0 \in S
    BY DEF Sums
  <1>2. ASSUME NEW i \in 0..(k - 1), i \in S PROVE i + 1 \in S
    <2>1. i + 1 \in 1..k /\ i + 1 \in 0..k /\ (i + 1) - 1 = i
      OBVIOUS
    <2>2. f[i + 1] = f[i] + a[i + 1] /\ g[i + 1] = g[i] + b[i + 1]
      BY <2>1, Zenon DEF Sums
    <2> QED
      BY <1>2, <2>1, <2>2
  <1> HIDE DEF S
  <1>3. 0..k \subseteq S
    BY <1>1, <1>2, InductionUpTo
  <1> QED
    BY <1>3 DEF S

LEMMA SumToSame ==
    ASSUME NEW k \in Nat, NEW a, NEW b, \A i \in 1..k : a[i] \in Int /\ a[i] = b[i]
    PROVE  SumTo(a, k) = SumTo(b, k)
  <1>1. PICK f \in [0..k -> Int] : Sums(f, a, k) /\ SumTo(a, k) = f[k]
    BY SumToExists
  <1>2. \A i \in 1..k : b[i] \in Int
    BY Zenon
  <1>3. PICK g \in [0..k -> Int] : Sums(g, b, k) /\ SumTo(b, k) = g[k]
    BY <1>2, SumToExists
  <1>4. \A i \in 0..k : f[i] = g[i]
    BY <1>1, <1>3, SumsAgree
  <1> QED
    BY <1>1, <1>3, <1>4

LEMMA SumToZero == \A length : SumTo(length, 0) = 0
  <1> SUFFICES ASSUME NEW length PROVE SumTo(length, 0) = 0
    OBVIOUS
  <1>1. \A i \in 1..0 : length[i] \in Int
    OBVIOUS
  <1>2. \E f \in [0..0 -> Int] : Sums(f, length, 0) /\ SumTo(length, 0) = f[0]
    BY <1>1, SumToExists
  <1> QED
    BY <1>2 DEF Sums

LEMMA SumToNext ==
    ASSUME NEW k \in Nat, NEW length, \A i \in 1..(k + 1) : length[i] \in Int
    PROVE  /\ SumTo(length, k) \in Int /\ SumTo(length, k + 1) \in Int
           /\ SumTo(length, k + 1) = SumTo(length, k) + length[k + 1]
  <1>1. \A i \in 1..k : length[i] \in Int
    OBVIOUS
  <1>2. PICK f \in [0..k -> Int] : Sums(f, length, k) /\ SumTo(length, k) = f[k]
    BY <1>1, SumToExists
  <1>3. PICK g \in [0..(k + 1) -> Int] : Sums(g, length, k + 1) /\ SumTo(length, k + 1) = g[k + 1]
    <2>1. k + 1 \in Nat
      OBVIOUS
    <2> QED
      BY <2>1, SumToExists
  <1>4. Sums(g, length, k) /\ g[k + 1] = g[k] + length[k + 1]
    BY <1>3 DEF Sums
  <1>5. f[k] = g[k]
    <2>1. k \in 0..k
      OBVIOUS
    <2> QED
      BY <1>2, <1>4, <2>1, SumsAgree
  <1> QED
    BY <1>2, <1>3, <1>4, <1>5

LEMMA SumToNat ==
    ASSUME NEW k \in Nat, NEW length, \A i \in 1..k : length[i] \in Nat
    PROVE  \A i \in 0..k : SumTo(length, i) \in Nat
  <1> DEFINE S == {i \in 0..k : SumTo(length, i) \in Nat}
  <1>1. 0 \in S
    BY SumToZero
  <1>2. ASSUME NEW i \in 0..(k - 1), i \in S PROVE i + 1 \in S
    <2>1. i \in Nat /\ i + 1 \in 0..k /\ i + 1 \in 1..k /\ \A j \in 1..(i + 1) : length[j] \in Int
      OBVIOUS
    <2>2. SumTo(length, i + 1) = SumTo(length, i) + length[i + 1]
      BY <2>1, SumToNext
    <2> QED
      BY <1>2, <2>1, <2>2
  <1> HIDE DEF S
  <1>3. 0..k \subseteq S
    BY <1>1, <1>2, InductionUpTo
  <1> QED
    BY <1>3 DEF S

-----------------------------------------------------------------------------
(* Rounding                                                                  *)

LEMMA Quotient ==
    ASSUME NEW a \in Nat, NEW c \in Nat \ {0}
    PROVE  a \div c \in Nat /\ c * (a \div c) <= a /\ a < c * (a \div c) + c
  OBVIOUS

\* A share is off by one millisecond at most, the floor included.
LEMMA ShareIsClose ==
    ASSUME NEW a \in Nat, NEW b \in Nat, NEW c \in Nat \ {0},
           NEW d, d = Larger(1, Scaled(a, b, c))
    PROVE  d \in Nat \ {0} /\ d * c <= a * b + c /\ a * b <= d * c + c
  <1> DEFINE x == a * b
             s == Scaled(a, b, c)
  <1>1. x \in Nat /\ 2 * c \in Nat \ {0} /\ 2 * a * b + c = 2 * x + c /\ 2 * x + c \in Nat
    OBVIOUS
  <1>2. s = (2 * x + c) \div (2 * c)
    BY <1>1 DEF Scaled
  <1> HIDE DEF x, s
  <1>3. s \in Nat /\ (2 * c) * s <= 2 * x + c /\ 2 * x + c < (2 * c) * s + 2 * c
    BY <1>1, <1>2, Quotient
  <1>4. CASE s = 0
    <2>1. d = 1
      BY <1>4 DEF Larger, s
    <2>2. d * c <= x + c /\ x <= d * c + c
      BY <1>1, <1>3, <1>4, <2>1
    <2> QED
      BY <2>1, <2>2 DEF x, s
  <1>5. CASE s # 0
    <2>1. d = s
      BY <1>3, <1>5 DEF Larger, s
    <2>2. d * c <= x + c /\ x <= d * c + c
      BY <1>1, <1>3, <2>1
    <2> QED
      BY <2>1, <2>2, <1>3, <1>5 DEF x, s
  <1> QED
    BY <1>3, <1>4, <1>5

LEMMA CloseIsNear ==
    ASSUME NEW x \in Int, NEW y \in Int, NEW c \in Int, x <= y + c, y <= x + c
    PROVE  Distance(x, y) <= c
  BY DEF Distance, Larger, Smaller

\* If every share is at most c of a c-th too large, so are their sums.
LEMMA SharesAddUp ==
    ASSUME NEW k \in Nat, NEW share, NEW raw, NEW t \in Nat, NEW c \in Nat,
           \A i \in 1..k : share[i] \in Int /\ raw[i] \in Int /\ share[i] * c <= raw[i] * t + c
    PROVE  \A i \in 0..k : SumTo(share, i) * c <= SumTo(raw, i) * t + i * c
  <1> DEFINE S == {i \in 0..k : SumTo(share, i) * c <= SumTo(raw, i) * t + i * c}
  <1>1. 0 \in S
    BY SumToZero
  <1>2. ASSUME NEW i \in 0..(k - 1), i \in S PROVE i + 1 \in S
    <2>1. i \in Nat /\ i + 1 \in 0..k /\ i + 1 \in 1..k
      OBVIOUS
    <2>2. \A j \in 1..(i + 1) : share[j] \in Int /\ raw[j] \in Int
      OBVIOUS
    <2>3. /\ SumTo(share, i) \in Int /\ SumTo(raw, i) \in Int
          /\ SumTo(share, i + 1) = SumTo(share, i) + share[i + 1]
          /\ SumTo(raw, i + 1) = SumTo(raw, i) + raw[i + 1]
      BY <2>1, <2>2, SumToNext
    <2>4. share[i + 1] \in Int /\ raw[i + 1] \in Int /\ share[i + 1] * c <= raw[i + 1] * t + c
      BY <2>1
    <2>5. SumTo(share, i) * c <= SumTo(raw, i) * t + i * c
      BY <1>2
    <2>6. ASSUME NEW A \in Int, NEW a \in Int, NEW B \in Int, NEW b \in Int,
                 A * c <= B * t + i * c, a * c <= b * t + c
          PROVE  (A + a) * c <= (B + b) * t + (i + 1) * c
      <3>1. (A + a) * c = A * c + a * c /\ (B + b) * t = B * t + b * t /\ (i + 1) * c = i * c + c
        OBVIOUS
      <3> QED
        BY <2>6, <3>1
    <2>7. SumTo(share, i + 1) * c <= SumTo(raw, i + 1) * t + (i + 1) * c
      BY <2>3, <2>4, <2>5, <2>6
    <2> QED
      BY <2>1, <2>7
  <1> HIDE DEF S
  <1>3. 0..k \subseteq S
    BY <1>1, <1>2, InductionUpTo
  <1> QED
    BY <1>3 DEF S

-----------------------------------------------------------------------------
(* Sorting                                                                   *)

\* A place for every number, by increasing values.
Arranges(p, v, n) ==
    /\ p \in Bijection(1..n, 1..n)
    /\ \A i, j \in 1..n : i < j => v[p[i]] <= v[p[j]]

\* Some number is largest.
LEMMA LargestExists ==
    ASSUME NEW n \in Nat, NEW v, \A i \in 1..(n + 1) : v[i] \in Int
    PROVE  \E m \in 1..(n + 1) : \A i \in 1..(n + 1) : v[i] <= v[m]
  <1> DEFINE S == {k \in 0..n : \E m \in 1..(k + 1) : \A i \in 1..(k + 1) : v[i] <= v[m]}
  <1>1. 0 \in S
    <2>1. \A i \in 1..(0 + 1) : v[i] <= v[1]
      <3> SUFFICES ASSUME NEW i \in 1..(0 + 1) PROVE v[i] <= v[1]
        OBVIOUS
      <3>1. i = 1 /\ 1 \in 1..(n + 1)
        OBVIOUS
      <3> QED
        BY <3>1
    <2> QED
      BY <2>1
  <1>2. ASSUME NEW k \in 0..(n - 1), k \in S PROVE k + 1 \in S
    <2>1. PICK m \in 1..(k + 1) : \A i \in 1..(k + 1) : v[i] <= v[m]
      BY <1>2
    <2>2. k + 1 \in 0..n /\ (k + 1) + 1 \in 1..(n + 1) /\ m \in 1..(n + 1) /\ 1..(k + 1) \subseteq 1..(n + 1)
      OBVIOUS
    <2>3. CASE v[k + 2] <= v[m]
      <3>1. \A i \in 1..(k + 1 + 1) : v[i] <= v[m]
        BY <2>1, <2>2, <2>3
      <3>2. m \in 1..(k + 1 + 1)
        OBVIOUS
      <3> QED
        BY <2>2, <3>1, <3>2
    <2>4. CASE ~(v[k + 2] <= v[m])
      <3>1. v[k + 2] \in Int /\ v[m] \in Int /\ \A i \in 1..(k + 1) : v[i] \in Int
        BY <2>2
      <3>2. ASSUME NEW i \in 1..(k + 1 + 1) PROVE v[i] <= v[k + 2]
        <4>1. CASE i \in 1..(k + 1)
          BY <2>1, <2>4, <3>1, <4>1
        <4>2. CASE i = k + 2
          BY <3>1, <4>2
        <4> QED
          BY <4>1, <4>2
      <3>3. k + 2 \in 1..(k + 1 + 1)
        OBVIOUS
      <3> QED
        BY <2>2, <3>2, <3>3
    <2> QED
      BY <2>3, <2>4
  <1> HIDE DEF S
  <1>3. 0..n \subseteq S
    BY <1>1, <1>2, InductionUpTo
  <1> QED
    BY <1>3 DEF S

\* Swap the largest to the end and arrange the others.
LEMMA ArrangementExists ==
    ASSUME NEW n \in Nat
    PROVE  \A v : (\A i \in 1..n : v[i] \in Int) => \E p : Arranges(p, v, n)
  <1> DEFINE S == {k \in 0..n : \A v \in [1..k -> Int] : \E p : Arranges(p, v, k)}
  <1>1. 0 \in S
    <2>1. \A v : Arranges([i \in 1..0 |-> i], v, 0)
      BY DEF Arranges, Bijection, Injection, Surjection, IsInjective
    <2> QED
      BY <2>1
  <1>2. ASSUME NEW k \in 0..(n - 1), k \in S PROVE k + 1 \in S
    <2> SUFFICES ASSUME NEW v \in [1..(k + 1) -> Int] PROVE \E p : Arranges(p, v, k + 1)
      OBVIOUS
    <2>1. PICK m \in 1..(k + 1) : \A i \in 1..(k + 1) : v[i] <= v[m]
      <3>1. k \in Nat /\ \A i \in 1..(k + 1) : v[i] \in Int
        OBVIOUS
      <3> QED
        BY <3>1, LargestExists
    <2> DEFINE swap(i) == IF i = m THEN k + 1 ELSE i
               w == [i \in 1..k |-> v[swap(i)]]
    <2>2. \A i \in 1..k : swap(i) \in 1..(k + 1) /\ swap(i) # m
      OBVIOUS
    <2>3. w \in [1..k -> Int]
      BY <2>2
    <2>4. PICK q : Arranges(q, w, k)
      BY <2>3, <1>2
    <2> DEFINE p == [i \in 1..(k + 1) |-> IF i = k + 1 THEN m ELSE swap(q[i])]
    <2>5. q \in [1..k -> 1..k] /\ (\A i, j \in 1..k : q[i] = q[j] => i = j) /\ (\A j \in 1..k : \E i \in 1..k : q[i] = j)
      BY <2>4 DEF Arranges, Bijection, Injection, Surjection, IsInjective
    <2>6. /\ p[k + 1] = m
          /\ \A i \in 1..k : q[i] \in 1..k /\ p[i] = swap(q[i]) /\ p[i] \in 1..(k + 1) /\ p[i] # m
      <3>1. \A i \in 1..k : q[i] \in 1..k
        BY <2>5
      <3>2. \A i \in 1..k : p[i] = swap(q[i])
        OBVIOUS
      <3>3. p[k + 1] = m
        OBVIOUS
      <3> HIDE DEF p, swap
      <3> QED
        BY <2>2, <3>1, <3>2, <3>3
    <2>8. \A i \in 1..(k + 1) : i \in 1..k \/ i = k + 1
      OBVIOUS
    <2>7. p \in [1..(k + 1) -> 1..(k + 1)]
      <3>1. \A i \in 1..(k + 1) : p[i] \in 1..(k + 1)
        <4> HIDE DEF p
        <4> QED
          BY <2>6, <2>8
      <3> QED
        BY <3>1
    <2>9. ASSUME NEW i \in 1..(k + 1), NEW j \in 1..(k + 1), p[i] = p[j] PROVE i = j
      <3>1. CASE i \in 1..k /\ j \in 1..k
        <4>1. q[i] \in 1..k /\ q[j] \in 1..k /\ swap(q[i]) = swap(q[j])
          <5> HIDE DEF p, swap
          <5> QED
            BY <2>6, <2>9, <3>1
        <4>2. q[i] = q[j]
          <5> HIDE DEF p
          <5> QED
            BY <4>1
        <4> QED
          BY <2>5, <3>1, <4>2, SMTT(30)
      <3>2. CASE i = k + 1
        <4>1. p[j] = m
          BY <2>6, <2>9, <3>2, Zenon
        <4>2. ~(j \in 1..k)
          BY <2>6, <4>1, Zenon
        <4> QED
          BY <2>8, <3>2, <4>2
      <3>3. CASE j = k + 1
        <4>1. p[i] = m
          BY <2>6, <2>9, <3>3, Zenon
        <4>2. ~(i \in 1..k)
          BY <2>6, <4>1, Zenon
        <4> QED
          BY <2>8, <3>3, <4>2
      <3> QED
        BY <2>8, <3>1, <3>2, <3>3
    <2>10. ASSUME NEW j \in 1..(k + 1) PROVE \E i \in 1..(k + 1) : p[i] = j
      <3>1. CASE j = m
        BY <2>6, <3>1
      <3>2. CASE j # m
        <4>1. PICK i \in 1..k : swap(i) = j
          <5>1. CASE j = k + 1
            <6>1. m \in 1..k /\ swap(m) = j
              BY <3>2, <5>1
            <6> QED
              BY <6>1
          <5>2. CASE j # k + 1
            <6>1. j \in 1..k /\ swap(j) = j
              BY <3>2, <5>2
            <6> QED
              BY <6>1
          <5> QED
            BY <5>1, <5>2
        <4>2. PICK h \in 1..k : q[h] = i
          BY <2>5
        <4>3. h \in 1..(k + 1) /\ p[h] = j
          BY <2>6, <4>1, <4>2
        <4> QED
          BY <4>3
      <3> QED
        BY <3>1, <3>2
    <2>11. ASSUME NEW i \in 1..(k + 1), NEW j \in 1..(k + 1), i < j PROVE v[p[i]] <= v[p[j]]
      <3>1. i \in 1..k /\ q[i] \in 1..k /\ p[i] = swap(q[i]) /\ p[i] \in 1..(k + 1)
        <4>1. i \in 1..k
          BY <2>11
        <4> HIDE DEF p, swap
        <4> QED
          BY <4>1, <2>6
      <3>2. CASE j = k + 1
        BY <2>1, <2>6, <3>1, <3>2
      <3>3. CASE j # k + 1
        <4>1. j \in 1..k /\ q[j] \in 1..k /\ p[j] = swap(q[j])
          <5>1. j \in 1..k
            BY <3>3
          <5> HIDE DEF p, swap
          <5> QED
            BY <5>1, <2>6
        <4>2. w[q[i]] <= w[q[j]]
          BY <2>4, <2>11, <3>1, <4>1 DEF Arranges
        <4>3. w[q[i]] = v[swap(q[i])] /\ w[q[j]] = v[swap(q[j])]
          BY <3>1, <4>1
        <4> QED
          BY <3>1, <4>1, <4>2, <4>3
      <3> QED
        BY <3>2, <3>3
    <2> HIDE DEF p
    <2>12. Arranges(p, v, k + 1)
      BY <2>7, <2>9, <2>10, <2>11 DEF Arranges, Bijection, Injection, Surjection, IsInjective
    <2> QED
      BY <2>12
  <1> HIDE DEF S
  <1>3. 0..n \subseteq S
    BY <1>1, <1>2, InductionUpTo
  <1>4. ASSUME NEW v, \A i \in 1..n : v[i] \in Int PROVE \E p : Arranges(p, v, n)
    <2> DEFINE w == [i \in 1..n |-> v[i]]
    <2>1. w \in [1..n -> Int] /\ \A i \in 1..n : w[i] = v[i]
      BY <1>4
    <2> HIDE DEF w
    <2>2. PICK p : Arranges(p, w, n)
      BY <1>3, <2>1 DEF S
    <2>3. p \in [1..n -> 1..n]
      BY <2>2 DEF Arranges, Bijection, Injection
    <2>4. Arranges(p, v, n)
      BY <2>1, <2>2, <2>3 DEF Arranges
    <2> QED
      BY <2>4
  <1> QED
    BY <1>4

\* The ordered plan has the scenes of the plan, each in one place, by their order.
LEMMA InOrderSorts ==
    ASSUME NEW n \in Nat, NEW scenes \in [1..n -> InputScenes]
    PROVE  /\ InOrder(scenes) \in [1..n -> InputScenes] /\ Len(InOrder(scenes)) = n
           /\ \E place \in Bijection(1..n, 1..n) :
                 \A i \in 1..n : InOrder(scenes)[i] = scenes[place[i]]
           /\ \A i, j \in 1..n : i < j => InOrder(scenes)[i].order <= InOrder(scenes)[j].order
  <1> DEFINE v == [i \in 1..n |-> scenes[i].order]
             place == CHOOSE p \in Bijection(1..n, 1..n) :
                         \A i, j \in 1..n : i < j => scenes[p[i]].order <= scenes[p[j]].order
  <1>1. \A i \in 1..n : v[i] \in Int /\ v[i] = scenes[i].order
    BY TimingAssumption DEF InputScenes
  <1>2. DOMAIN scenes = 1..n
    OBVIOUS
  <1>3. InOrder(scenes) = [i \in 1..n |-> scenes[place[i]]]
    BY <1>2 DEF InOrder
  <1> HIDE DEF v
  <1>4. PICK p : Arranges(p, v, n)
    BY <1>1, ArrangementExists, SMTT(30)
  <1>5. p \in Bijection(1..n, 1..n) /\ p \in [1..n -> 1..n]
    BY <1>4, SMTT(30) DEF Arranges, Bijection, Injection
  <1>6. \A i, j \in 1..n : i < j => scenes[p[i]].order <= scenes[p[j]].order
    BY <1>1, <1>4, <1>5 DEF Arranges
  <1>7. /\ place \in Bijection(1..n, 1..n)
        /\ \A i, j \in 1..n : i < j => scenes[place[i]].order <= scenes[place[j]].order
    BY <1>5, <1>6
  <1> HIDE DEF place
  <1>8. place \in [1..n -> 1..n]
    BY <1>7 DEF Bijection, Injection
  <1>9. InOrder(scenes) \in [1..n -> InputScenes]
    BY <1>3, <1>8
  <1>10. \A i \in 1..n : InOrder(scenes)[i] = scenes[place[i]]
    BY <1>3
  <1> QED
    BY <1>7, <1>9, <1>10

-----------------------------------------------------------------------------
(* The timeline                                                              *)

\* TimelineFits, for one plan and one voice.
LEMMA TimelineOfPlan ==
    ASSUME NEW n \in Nat, NEW p \in [1..n -> InputScenes], NEW v \in Nat,
           plan = p, voice = v
    PROVE  TimelineFits
  <1> DEFINE scenes == InOrder(p)
             raw    == [i \in 1..n |-> scenes[i].raw]
             total  == SumTo(raw, n)
             target == IF v > 0 THEN v ELSE total
             Share(i) == Larger(1, IF v > 0 /\ total > 0
                                   THEN Scaled(raw[i], target, total) ELSE raw[i])
             share  == [i \in 1..n |-> Share(i)]
             length == [share EXCEPT ![n] = Remainder(share, target)]
             line   == [i \in 1..n |-> [start |-> SumTo(length, i - 1), duration |-> length[i]]]
             result == DeriveSceneTimeline(p, v)
  <1>1. scenes \in [1..n -> InputScenes] /\ Len(scenes) = n
    BY InOrderSorts
  <1>2. result = IF ~SoundPlan(scenes) \/ length[n] <= 0 THEN Failed ELSE line
    BY <1>1, ZenonT(60) DEF DeriveSceneTimeline
  <1>3. TimelineFits <=>
          IF result # Failed
          THEN /\ SoundPlan(scenes) /\ Len(result) = n
               /\ result[1].start = 0 /\ result[n].start + result[n].duration = target
               /\ \A i \in 1..n : result[i].duration > 0
               /\ \A i \in 1..(n - 1) :
                     /\ result[i + 1].start = result[i].start + result[i].duration
                     /\ total > 0 => Distance(result[i].duration * total, scenes[i].raw * target) <= total
          ELSE SoundPlan(scenes) => scenes[n].raw * target <= (n - 1) * total
    BY <1>1, Zenon DEF TimelineFits
  <1> HIDE DEF scenes, result
  <1>4. n # 0 => n \in 1..n /\ n - 1 \in Nat /\ (n - 1) + 1 = n
    OBVIOUS
  <1>5. \A i \in 1..n : raw[i] \in Nat /\ raw[i] = scenes[i].raw
    BY <1>1, TimingAssumption DEF InputScenes
  <1>6. total \in Nat
    <2>1. n \in 0..n
      OBVIOUS
    <2> HIDE DEF raw
    <2> QED
      BY <1>5, <2>1, SumToNat
  <1> HIDE DEF raw, total
  <1>7. target \in Nat
    BY <1>6
  <1>8. \A i \in 1..n : Share(i) \in Nat \ {0}
    <2> SUFFICES ASSUME NEW i \in 1..n PROVE Share(i) \in Nat \ {0}
      OBVIOUS
    <2>1. CASE v > 0 /\ total > 0
      <3>1. Share(i) = Larger(1, Scaled(raw[i], target, total)) /\ total \in Nat \ {0} /\ raw[i] \in Nat
        BY <2>1, <1>5, <1>6
      <3> HIDE DEF Share, target
      <3> QED
        BY <3>1, <1>7, ShareIsClose
    <2>2. CASE ~(v > 0 /\ total > 0)
      BY <1>5, <2>2 DEF Larger
    <2> QED
      BY <2>1, <2>2
  \* A share times the total is the length times the target, up to the total.
  <1>9. ASSUME total > 0
        PROVE  \A i \in 1..n : /\ Share(i) * total <= raw[i] * target + total
                               /\ raw[i] * target <= Share(i) * total + total
    <2> SUFFICES ASSUME NEW i \in 1..n
                 PROVE  /\ Share(i) * total <= raw[i] * target + total
                        /\ raw[i] * target <= Share(i) * total + total
      OBVIOUS
    <2>1. CASE v > 0
      <3>1. Share(i) = Larger(1, Scaled(raw[i], target, total)) /\ total \in Nat \ {0} /\ raw[i] \in Nat
        BY <2>1, <1>5, <1>6, <1>9
      <3> HIDE DEF Share, target
      <3> QED
        BY <3>1, <1>7, ShareIsClose
    <2>2. CASE ~(v > 0)
      <3>1. target = total /\ Share(i) = Larger(1, raw[i])
        BY <2>2
      <3>2. CASE raw[i] = 0
        <4>1. Share(i) = 1 /\ raw[i] * target = 0 /\ Share(i) * total = total
          BY <3>1, <3>2, <1>6, <1>7 DEF Larger
        <4> QED
          BY <4>1, <1>6
      <3>3. CASE raw[i] # 0
        <4>1. Share(i) = raw[i]
          BY <3>1, <3>3, <1>5 DEF Larger
        <4>2. raw[i] * target = Share(i) * total /\ Share(i) * total \in Int
          BY <3>1, <4>1, <1>5, <1>6
        <4> QED
          BY <4>2, <1>6
      <3> QED
        BY <3>2, <3>3
    <2> QED
      BY <2>1, <2>2
  <1>10. \A i \in 1..n : share[i] = Share(i) /\ share[i] \in Nat \ {0}
    BY <1>8
  <1>11. Len(share) = n
    OBVIOUS
  <1> HIDE DEF share, Share, target
  <1>12. n # 0 => SumTo(share, n - 1) \in Nat /\ Remainder(share, target) = target - SumTo(share, n - 1)
    <2> SUFFICES ASSUME n # 0 PROVE SumTo(share, n - 1) \in Nat
      BY <1>11 DEF Remainder
    <2>1. \A i \in 1..n : share[i] \in Nat
      BY <1>10
    <2>2. n - 1 \in 0..n
      BY <1>4
    <2> QED
      BY <2>1, <2>2, SumToNat
  <1>13. ASSUME n # 0
         PROVE  /\ \A i \in 1..(n - 1) : i \in 1..n /\ length[i] = share[i]
                /\ length[n] = target - SumTo(share, n - 1)
                /\ \A i \in 1..n : length[i] \in Int
    <2>1. DOMAIN share = 1..n
      BY DEF share
    <2>2. /\ \A i \in 1..(n - 1) : i \in 1..n /\ length[i] = share[i]
          /\ length[n] = target - SumTo(share, n - 1)
      BY <1>4, <1>12, <1>13, <2>1
    <2>3. length[n] \in Int
      BY <1>7, <1>12, <1>13, <2>2
    <2>4. \A i \in 1..n : i = n \/ i \in 1..(n - 1)
      OBVIOUS
    <2> HIDE DEF length
    <2> QED
      BY <1>10, <2>2, <2>3, <2>4
  <1> HIDE DEF length
  <1>14. CASE SoundPlan(scenes) /\ ~(length[n] <= 0)
    <2>1. n # 0 /\ n \in Nat \ {0}
      BY <1>1, <1>14 DEF SoundPlan
    <2>2. result = line
      BY <1>2, <1>14
    <2>3. \A i \in 1..n : line[i].start = SumTo(length, i - 1) /\ line[i].duration = length[i]
      OBVIOUS
    <2>4. line # Failed /\ Len(line) = n
      <3>1. line \in [1..n -> {line[i] : i \in 1..n}]
        OBVIOUS
      <3> HIDE DEF line
      <3>2. Len(line) = n
        BY <3>1
      <3> QED
        BY <2>1, <3>2 DEF Failed
    <2> HIDE DEF line
    <2>5. 1 \in 1..n /\ n \in 1..n
      BY <2>1
    <2>6. line[1].start = 0
      <3>1. line[1].start = SumTo(length, 1 - 1)
        BY <2>3, <2>5
      <3> QED
        BY <3>1, SumToZero
    <2>7. SumTo(length, n - 1) = SumTo(share, n - 1)
      <3>1. \A i \in 1..(n - 1) : length[i] \in Int /\ length[i] = share[i]
        BY <1>13, <2>1
      <3> QED
        BY <1>4, <2>1, <3>1, SumToSame
    <2>8. line[n].start + line[n].duration = target
      BY <1>7, <1>12, <1>13, <2>1, <2>3, <2>5, <2>7
    <2>9. \A i \in 1..n : line[i].duration > 0
      <3> SUFFICES ASSUME NEW i \in 1..n PROVE length[i] > 0
        BY <2>3
      <3>1. CASE i = n
        BY <1>13, <1>14, <2>1, <3>1
      <3>2. CASE i # n
        BY <1>10, <1>13, <2>1, <3>2
      <3> QED
        BY <3>1, <3>2
    <2>10. ASSUME NEW i \in 1..(n - 1)
           PROVE  /\ line[i + 1].start = line[i].start + line[i].duration
                  /\ total > 0 => Distance(line[i].duration * total, scenes[i].raw * target) <= total
      <3>1. i \in 1..n /\ i + 1 \in 1..n /\ i - 1 \in Nat /\ (i + 1) - 1 = i /\ (i - 1) + 1 = i
        BY <2>1
      <3>2. SumTo(length, i) = SumTo(length, i - 1) + length[i]
        <4>1. \A j \in 1..((i - 1) + 1) : length[j] \in Int
          BY <1>13, <2>1, <3>1
        <4>2. SumTo(length, (i - 1) + 1) = SumTo(length, i - 1) + length[(i - 1) + 1]
          BY <3>1, <4>1, SumToNext
        <4> QED
          BY <3>1, <4>2
      <3>3. line[i + 1].start = line[i].start + line[i].duration
        BY <2>3, <3>1, <3>2
      <3>4. ASSUME total > 0 PROVE Distance(line[i].duration * total, scenes[i].raw * target) <= total
        <4>1. line[i].duration = Share(i) /\ scenes[i].raw = raw[i] /\ Share(i) \in Nat /\ raw[i] \in Nat
          BY <1>5, <1>10, <1>13, <2>1, <2>3, <3>1
        <4>2. Share(i) * total <= raw[i] * target + total /\ raw[i] * target <= Share(i) * total + total
          BY <1>9, <3>1, <3>4
        <4>3. Share(i) * total \in Int /\ raw[i] * target \in Int
          BY <1>6, <1>7, <4>1
        <4>4. Distance(Share(i) * total, raw[i] * target) <= total
          BY <1>6, <4>2, <4>3, CloseIsNear
        <4> QED
          BY <4>1, <4>4
      <3> QED
        BY <3>3, <3>4
    <2> QED
      BY <1>3, <1>14, <2>2, <2>4, <2>6, <2>8, <2>9, <2>10
  <1>15. CASE ~SoundPlan(scenes)
    BY <1>2, <1>3, <1>15
  <1>16. CASE SoundPlan(scenes) /\ length[n] <= 0
    <2>1. n # 0 /\ n \in Nat \ {0} /\ n \in 1..n
      BY <1>1, <1>16 DEF SoundPlan
    <2>2. result = Failed
      BY <1>2, <1>16
    <2>3. target <= SumTo(share, n - 1)
      BY <1>7, <1>12, <1>13, <1>16, <2>1
    <2>4. /\ SumTo(raw, n - 1) \in Nat /\ raw[n] \in Nat
          /\ total = SumTo(raw, n - 1) + raw[n]
      <3>1. \A i \in 1..((n - 1) + 1) : raw[i] \in Int
        BY <1>5, <2>1
      <3>2. SumTo(raw, (n - 1) + 1) = SumTo(raw, n - 1) + raw[(n - 1) + 1]
        BY <1>4, <2>1, <3>1, SumToNext
      <3>3. n - 1 \in 0..n
        BY <2>1
      <3>4. SumTo(raw, n - 1) \in Nat
        BY <1>5, <3>3, SumToNat
      <3> QED
        BY <1>4, <1>5, <2>1, <3>2, <3>4 DEF total
    <2>5. raw[n] * target <= (n - 1) * total
      <3>1. CASE total = 0
        BY <2>4, <3>1, <1>7, <2>1
      <3>2. CASE total # 0
        <4>1. total > 0
          BY <1>6, <3>2
        <4>2. \A i \in 1..(n - 1) : share[i] \in Int /\ raw[i] \in Int /\ share[i] * total <= raw[i] * target + total
          <5> SUFFICES ASSUME NEW i \in 1..(n - 1)
                       PROVE  share[i] \in Int /\ raw[i] \in Int /\ share[i] * total <= raw[i] * target + total
            OBVIOUS
          <5>1. i \in 1..n
            BY <2>1
          <5> QED
            BY <1>5, <1>9, <1>10, <4>1, <5>1
        <4>3. \A i \in 0..(n - 1) : SumTo(share, i) * total <= SumTo(raw, i) * target + i * total
          BY <1>4, <1>6, <1>7, <2>1, <4>2, SharesAddUp
        <4>4. SumTo(share, n - 1) * total <= SumTo(raw, n - 1) * target + (n - 1) * total
          <5>1. n - 1 \in 0..(n - 1)
            BY <2>1
          <5> QED
            BY <4>3, <5>1
        <4>5. ASSUME NEW A \in Nat, NEW B \in Nat, NEW b \in Nat, NEW t \in Nat, NEW c \in Nat, NEW m \in Nat,
                     c = B + b, t <= A, A * c <= B * t + m * c
              PROVE  b * t <= m * c
          <5>1. t * c <= A * c
            BY <4>5
          <5>2. t * c = B * t + b * t
            BY <4>5
          <5>3. B * t \in Int /\ b * t \in Int /\ m * c \in Int /\ A * c \in Int /\ t * c \in Int
            OBVIOUS
          <5> QED
            BY <5>1, <5>2, <5>3, <4>5
        <4>6. SumTo(share, n - 1) \in Nat
          BY <1>12, <2>1
        <4> HIDE DEF raw, total, share, target
        <4> QED
          BY <1>4, <1>6, <1>7, <2>1, <2>3, <2>4, <4>4, <4>5, <4>6
      <3> QED
        BY <3>1, <3>2
    <2>6. scenes[n].raw = raw[n]
      BY <1>5, <2>1
    <2> QED
      BY <1>3, <2>2, <2>5, <2>6
  <1> QED
    BY <1>14, <1>15, <1>16

\* deriveSceneTimeline, for every plan and every length of the voice: a timeline that
\* is given out lasts exactly as long as the voice, without a gap, with every scene
\* visible and within a millisecond of its share; and a sound plan is refused only if
\* rounding the other scenes up may have used up the share of the last.
THEOREM TimingSpecTimelineFits == TimingSpec => []TimelineFits
  <1>1. TimingInit => TimelineFits
    <2> SUFFICES ASSUME TimingInit PROVE TimelineFits
      OBVIOUS
    <2>1. voice \in Nat /\ \E n \in Nat : plan \in [1..n -> InputScenes]
      <3>1. CASE /\ plan \in UNION {[1..n -> InputScenes] : n \in 0..MaxScenes}
                 /\ voice \in 0..(2 * MaxLength)
        BY <3>1, TimingAssumption
      <3>2. CASE NoTimeline
        <4>1. <<>> \in [1..0 -> InputScenes]
          OBVIOUS
        <4> QED
          BY <3>2, <4>1 DEF NoTimeline
      <3> QED
        BY <3>1, <3>2 DEF TimingInit
    <2> QED
      BY <2>1, TimelineOfPlan
  <1>2. TimelineFits /\ [UNCHANGED timingVars]_timingVars => TimelineFits'
    <2> SUFFICES ASSUME TimelineFits, [UNCHANGED timingVars]_timingVars PROVE TimelineFits'
      OBVIOUS
    <2>1. plan' = plan /\ voice' = voice
      BY DEF timingVars
    <2> QED
      BY <2>1 DEF TimelineFits
  <1> QED
    BY <1>1, <1>2, PTL DEF TimingSpec

-----------------------------------------------------------------------------
(* The cues                                                                  *)

\* The numbers of a sequence increase and are at most m.
Grows(e, m) == e \in Seq(1..m) /\ \A k \in 1..(Len(e) - 1) : e[k] < e[k + 1]

LEMMA GrowsByOne ==
    ASSUME NEW m \in Nat, NEW e, Grows(e, m)
    PROVE  /\ Grows(e, m + 1) /\ Grows(Append(e, m + 1), m + 1)
           /\ Append(e, m + 1) # <<>>
           /\ Append(e, m + 1)[Len(Append(e, m + 1))] = m + 1
  <1> DEFINE a == Append(e, m + 1)
  <1>1. e \in Seq(1..m) /\ Len(e) \in Nat /\ \A k \in 1..Len(e) : e[k] \in 1..m
    BY DEF Grows
  <1>2. 1..m \subseteq 1..(m + 1) /\ m + 1 \in 1..(m + 1)
    OBVIOUS
  <1>3. e \in Seq(1..(m + 1))
    BY <1>1, <1>2
  <1>4. /\ a \in Seq(1..(m + 1)) /\ Len(a) = Len(e) + 1
        /\ a[Len(e) + 1] = m + 1 /\ \A k \in 1..Len(e) : a[k] = e[k]
    BY <1>2, <1>3, AppendProperties
  <1> HIDE DEF a
  <1>5. ASSUME NEW k \in 1..(Len(a) - 1) PROVE a[k] < a[k + 1]
    <2>1. k \in 1..Len(e) /\ a[k] = e[k] /\ e[k] \in 1..m
      BY <1>1, <1>4
    <2>2. CASE k = Len(e)
      BY <2>1, <2>2, <1>4
    <2>3. CASE k # Len(e)
      <3>1. k \in 1..(Len(e) - 1) /\ k + 1 \in 1..Len(e)
        BY <2>1, <2>3, <1>1
      <3> QED
        BY <2>1, <3>1, <1>4 DEF Grows
    <2> QED
      BY <2>2, <2>3
  <1>6. Grows(e, m + 1) /\ Grows(a, m + 1)
    BY <1>3, <1>4, <1>5 DEF Grows
  <1>7. a # <<>> /\ a[Len(a)] = m + 1
    BY <1>1, <1>4
  <1> QED
    BY <1>6, <1>7 DEF a

\* The cues end with different words, in their order, and the last one with the
\* last word.
LEMMA CueEndsGrow ==
    ASSUME NEW n \in Nat \ {0}, NEW words, Len(words) = n, NEW breaks
    PROVE  LET ends == CueEnds(words, breaks)
           IN  Grows(ends, n) /\ ends # <<>> /\ ends[Len(ends)] = n
  <1> DEFINE Step == [p \in (1..n) \X Seq(Nat) |-> WithWord(p[2], p[1], words, breaks)]
             F == CHOOSE f : f = [i \in 0..n |-> IF i = 0 THEN <<>> ELSE WithWord(f[i - 1], i, words, breaks)]
  <1>1. CueEnds(words, breaks) = F[n]
    BY DEF CueEnds
  <1>2. \A i \in 1..n, e \in Seq(Nat) : WithWord(e, i, words, breaks) \in Seq(Nat)
    <2> SUFFICES ASSUME NEW i \in 1..n, NEW e \in Seq(Nat) PROVE WithWord(e, i, words, breaks) \in Seq(Nat)
      OBVIOUS
    <2>1. Append(e, i) \in Seq(Nat)
      OBVIOUS
    <2> QED
      BY <2>1 DEF WithWord
  <1>3. Step \in [(1..n) \X Seq(Nat) -> Seq(Nat)] /\ <<>> \in Seq(Nat)
    BY <1>2
  <1>4. \A i \in 1..n, e \in Seq(Nat) : Step[<<i, e>>] = WithWord(e, i, words, breaks)
    OBVIOUS
  <1> HIDE DEF Step
  <1>5. PICK f \in [0..n -> Seq(Nat)] : Iterates(f, n, <<>>, Step)
    BY <1>3, RecursionUpTo
  <1>6. f = [i \in 0..n |-> IF i = 0 THEN <<>> ELSE WithWord(f[i - 1], i, words, breaks)]
    <2>1. \A i \in 1..n : i - 1 \in 0..n /\ f[i - 1] \in Seq(Nat)
      OBVIOUS
    <2>2. \A i \in 1..n : f[i] = WithWord(f[i - 1], i, words, breaks)
      BY <1>4, <1>5, <2>1 DEF Iterates
    <2> QED
      BY <2>2, <1>5 DEF Iterates
  <1>7. F = [i \in 0..n |-> IF i = 0 THEN <<>> ELSE WithWord(F[i - 1], i, words, breaks)]
    BY <1>6
  <1> HIDE DEF F
  <1>8. F[0] = <<>> /\ \A i \in 1..n : F[i] = WithWord(F[i - 1], i, words, breaks)
    BY <1>7
  <1> DEFINE S == {i \in 0..n : Grows(F[i], i)}
  <1>9. 0 \in S
    <2>1. <<>> \in Seq(1..0) /\ Len(<<>>) = 0
      OBVIOUS
    <2>2. Grows(<<>>, 0)
      BY <2>1 DEF Grows
    <2> QED
      BY <1>8, <2>2
  <1>10. ASSUME NEW i \in 0..(n - 1), i \in S PROVE i + 1 \in S
    <2>1. i + 1 \in 1..n /\ i + 1 \in 0..n /\ (i + 1) - 1 = i /\ i \in Nat
      OBVIOUS
    <2>2. F[i + 1] = WithWord(F[i], i + 1, words, breaks)
      BY <1>8, <2>1, Zenon
    <2>3. Grows(F[i], i + 1) /\ Grows(Append(F[i], i + 1), i + 1)
      BY <1>10, <2>1, GrowsByOne
    <2> QED
      BY <2>1, <2>2, <2>3 DEF WithWord
  <1> HIDE DEF S
  <1>11. 0..n \subseteq S
    BY <1>9, <1>10, InductionUpTo
  <1>12. n - 1 \in 0..n /\ n - 1 \in Nat /\ (n - 1) + 1 = n /\ n \in 1..n
    OBVIOUS
  <1>13. Grows(F[n - 1], n - 1)
    BY <1>11, <1>12 DEF S
  <1>14. F[n] = Append(F[n - 1], n)
    BY <1>8, <1>12 DEF WithWord
  <1>15. Grows(F[n], n) /\ F[n] # <<>> /\ F[n][Len(F[n])] = n
    <2>1. /\ Grows(Append(F[n - 1], (n - 1) + 1), (n - 1) + 1)
          /\ Append(F[n - 1], (n - 1) + 1) # <<>>
          /\ Append(F[n - 1], (n - 1) + 1)[Len(Append(F[n - 1], (n - 1) + 1))] = (n - 1) + 1
      BY <1>12, <1>13, GrowsByOne
    <2>2. /\ Grows(Append(F[n - 1], n), n) /\ Append(F[n - 1], n) # <<>>
          /\ Append(F[n - 1], n)[Len(Append(F[n - 1], n))] = n
      BY <1>12, <2>1
    <2> QED
      BY <1>14, <2>2
  <1> QED
    BY <1>1, <1>15

Clock == [start : Int, end : Int]

\* What the normalization does to a cue that is kept.
Normal(c, raw, prevEnd, isLast, length) ==
    /\ c \in Clock /\ 0 <= c.start
    /\ isLast => c.end <= length
    /\ c.end - c.start >= MinCue \/ (isLast /\ c.end = length)
    /\ \/ c.start > prevEnd /\ c.start >= raw.start
       \/ isLast /\ c.end = length /\ c.start = Larger(0, length - MinCue)

LEMMA CueIsNormal ==
    ASSUME NEW raw \in Clock, NEW prevEnd \in Int, NEW isLast \in BOOLEAN, NEW length \in Int
    PROVE  Normal(NormalizeCue(raw, prevEnd, isLast, length), raw, prevEnd, isLast, length)
  <1> DEFINE c     == NormalizeCue(raw, prevEnd, isLast, length)
             start == Larger(Larger(raw.start, prevEnd + 1), 0)
             end   == Larger(raw.end, start + MinCue)
  <1>1. start \in Int /\ 0 <= start /\ start > prevEnd /\ start >= raw.start
    BY DEF Larger, Clock
  <1> HIDE DEF start
  <1>2. end \in Int /\ end - start >= MinCue
    BY <1>1, TimingAssumption DEF Larger, Clock
  <1> HIDE DEF end
  <1>3. c = IF end > length /\ isLast THEN UpToTheAudio(start, end, length)
            ELSE [start |-> start, end |-> end]
    BY DEF NormalizeCue, start, end
  <1> HIDE DEF c
  <1> SUFFICES Normal(c, raw, prevEnd, isLast, length)
    BY DEF c
  <1>4. CASE ~(end > length /\ isLast)
    <2>1. c = [start |-> start, end |-> end]
      BY <1>3, <1>4
    <2> QED
      BY <1>1, <1>2, <1>4, <2>1 DEF Clock, Normal
  <1>5. CASE end > length /\ isLast
    <2>1. c = [start |-> IF length <= start THEN Larger(0, length - MinCue) ELSE start, end |-> length]
      BY <1>3, <1>5 DEF UpToTheAudio
    <2>2. Larger(0, length - MinCue) \in Int /\ 0 <= Larger(0, length - MinCue)
      BY TimingAssumption DEF Larger
    <2>3. c.end = length /\ c.start = IF length <= start THEN Larger(0, length - MinCue) ELSE start
      BY <2>1
    <2>4. c \in Clock /\ 0 <= c.start
      BY <1>1, <2>1, <2>2 DEF Clock
    <2>5. \/ c.start > prevEnd /\ c.start >= raw.start
          \/ c.start = Larger(0, length - MinCue)
      BY <1>1, <2>3
    <2>6. c.end <= length
      BY <2>3
    <2> QED
      BY <1>5, <2>3, <2>4, <2>5, <2>6, Zenon DEF Normal
  <1> QED
    BY <1>4, <1>5

\* The cues of some words, given by the words they end with: where each begins,
\* what it lasts by the words, and what the code makes of it after the last one.
From(ends, k) == IF k = 1 THEN 1 ELSE ends[k - 1] + 1
Raw(words, ends, k) == [start |-> words[From(ends, k)].start, end |-> words[ends[k]].end]
NormalCue(words, ends, length, k, c) ==
    NormalizeCue(Raw(words, ends, k), c.end, k = Len(ends), length)
Before == [start |-> -1, end |-> -1]
Cues(words, ends, length) ==
    CHOOSE f : f = [k \in 0..Len(ends) |->
                      IF k = 0 THEN Before ELSE NormalCue(words, ends, length, k, f[k - 1])]

LEMMA CuesExist ==
    ASSUME NEW n \in Nat \ {0}, NEW words \in [1..n -> Timings], NEW length \in Int,
           NEW ends, Grows(ends, n), NEW cue, cue = Cues(words, ends, length)
    PROVE  /\ cue \in [0..Len(ends) -> Clock] /\ cue[0].end = -1
           /\ \A k \in 1..Len(ends) :
                 /\ From(ends, k) \in 1..n /\ ends[k] \in 1..n /\ From(ends, k) <= ends[k]
                 /\ Raw(words, ends, k) \in Clock
                 /\ cue[k] = NormalCue(words, ends, length, k, cue[k - 1])
  <1> DEFINE N == Len(ends)
             from(k) == From(ends, k)
             raw(k)  == Raw(words, ends, k)
             Cue(k, c) == NormalCue(words, ends, length, k, c)
             Step == [p \in (1..N) \X Clock |-> Cue(p[1], p[2])]
  <1>1. N \in Nat /\ \A k \in 1..N : ends[k] \in 1..n
    BY DEF Grows
  <1>2. \A k \in 1..N : from(k) \in 1..n /\ from(k) <= ends[k]
    <2> SUFFICES ASSUME NEW k \in 1..N PROVE from(k) \in 1..n /\ from(k) <= ends[k]
      OBVIOUS
    <2>1. CASE k = 1
      BY <1>1, <2>1 DEF From
    <2>2. CASE k # 1
      <3>1. k - 1 \in 1..(N - 1) /\ k - 1 \in 1..N /\ (k - 1) + 1 = k
        BY <1>1, <2>2
      <3>2. ends[k - 1] < ends[(k - 1) + 1]
        BY <3>1 DEF Grows
      <3>3. ends[k - 1] \in 1..n /\ ends[k] \in 1..n
        BY <1>1, <3>1
      <3> QED
        BY <2>2, <3>1, <3>2, <3>3 DEF From
    <2> QED
      BY <2>1, <2>2
  <1>3. \A i \in 1..n : words[i].start \in Int /\ words[i].end \in Int
    BY TimingAssumption DEF Timings
  <1>4. \A k \in 1..N : raw(k) \in Clock
    <2> SUFFICES ASSUME NEW k \in 1..N PROVE raw(k) \in Clock
      OBVIOUS
    <2>1. words[from(k)].start \in Int /\ words[ends[k]].end \in Int
      <3> HIDE DEF from
      <3> QED
        BY <1>1, <1>2, <1>3
    <2> QED
      BY <2>1 DEF Clock, Raw
  <1> HIDE DEF raw, N, from
  <1>5. \A k \in 1..N, c \in Clock : Cue(k, c) \in Clock
    <2> SUFFICES ASSUME NEW k \in 1..N, NEW c \in Clock PROVE Cue(k, c) \in Clock
      OBVIOUS
    <2>1. raw(k) \in Clock /\ c.end \in Int /\ (k = N) \in BOOLEAN
      BY <1>4 DEF Clock
    <2>2. Normal(NormalizeCue(raw(k), c.end, k = N, length), raw(k), c.end, k = N, length)
      BY <2>1, CueIsNormal
    <2>3. Cue(k, c) = NormalizeCue(raw(k), c.end, k = N, length)
      BY DEF NormalCue, raw, N
    <2> QED
      BY <2>2, <2>3 DEF Normal
  <1> HIDE DEF Cue
  <1>6. Step \in [(1..N) \X Clock -> Clock] /\ Before \in Clock
    BY <1>5 DEF Clock, Before
  <1>7. \A k \in 1..N, c \in Clock : Step[<<k, c>>] = Cue(k, c)
    OBVIOUS
  <1> HIDE DEF Step
  <1>8. PICK f \in [0..N -> Clock] : Iterates(f, N, Before, Step)
    BY <1>1, <1>6, RecursionUpTo
  <1>9. f = [k \in 0..N |-> IF k = 0 THEN Before ELSE Cue(k, f[k - 1])]
    <2>1. \A k \in 1..N : k - 1 \in 0..N /\ f[k - 1] \in Clock
      BY <1>1
    <2>2. \A k \in 1..N : f[k] = Cue(k, f[k - 1])
      BY <1>7, <1>8, <2>1 DEF Iterates
    <2>3. f[0] = Before
      BY <1>8 DEF Iterates
    <2>4. \A k \in 0..N : k = 0 \/ k \in 1..N
      BY <1>1
    <2> QED
      BY <1>1, <1>8, <2>2, <2>3, <2>4
  <1>10. cue = [k \in 0..N |-> IF k = 0 THEN Before ELSE Cue(k, cue[k - 1])]
    BY <1>9 DEF Cues, Cue, N
  <1>11. cue[0] = Before /\ \A k \in 1..N : cue[k] = Cue(k, cue[k - 1])
    BY <1>1, <1>10
  <1>12. cue \in [0..N -> Clock]
    <2> DEFINE S == {k \in 0..N : cue[k] \in Clock}
    <2>1. 0 \in S
      BY <1>1, <1>6, <1>11
    <2>2. ASSUME NEW k \in 0..(N - 1), k \in S PROVE k + 1 \in S
      <3>1. k + 1 \in 1..N /\ k + 1 \in 0..N /\ (k + 1) - 1 = k
        BY <1>1
      <3>2. cue[k + 1] = Cue(k + 1, cue[k])
        BY <1>11, <3>1
      <3> QED
        BY <1>5, <2>2, <3>1, <3>2
    <2> HIDE DEF S
    <2>3. 0..N \subseteq S
      BY <1>1, <2>1, <2>2, InductionUpTo
    <2> QED
      BY <1>10, <2>3 DEF S
  <1>13. cue[0].end = -1
    BY <1>11 DEF Before
  <1> QED
    BY <1>1, <1>2, <1>4, <1>11, <1>12, <1>13 DEF N, from, raw, Cue

\* CuesFollowNarration, for one narration, script and audio.
LEMMA CuesOfNarration ==
    ASSUME NEW m \in Nat, NEW s \in [1..m -> Timings], NEW text, text.words \in Nat,
           NEW length \in Int, spoken = s, script = text, audio = length
    PROVE  CuesFollowNarration
  <1> DEFINE n     == text.words
             words == Align(s, n)
             ends  == CueEnds(words, text.breaks)
             K     == Len(ends)
             from(k) == From(ends, k)
             raw(k)  == Raw(words, ends, k)
             cue   == Cues(words, ends, length)
             Kept == [k \in DOMAIN ends |-> [from |-> from(k), to |-> ends[k],
                                             start |-> cue[k].start, end |-> cue[k].end]]
             cues == BuildSubtitles(s, text, length)
             N    == Len(cues)
             Floor(k)  == cues[k].end - cues[k].start >= MinCue
             After(k)  == cues[k].start > (IF k = 1 THEN -1 ELSE cues[k - 1].end)
             OnTime(k) == cues[k].start >= words[cues[k].from].start
             Goal ==
               /\ cues[1].from = 1 /\ cues[N].to = n
               /\ \A k \in 1..(N - 1) : cues[k + 1].from = cues[k].to + 1
               /\ \A k \in 1..N : cues[k].from <= cues[k].to /\ 0 <= cues[k].start /\ cues[k].end <= length
               /\ \A k \in 1..(N - 1) : Floor(k) /\ After(k) /\ OnTime(k)
               /\ Floor(N) \/ cues[N].end = length
               /\ \/ After(N) /\ OnTime(N)
                  \/ cues[N].end = length /\ cues[N].start = Larger(0, length - MinCue)
               /\ QaSubtitleSync(cues, length) \/ (N > 1 /\ cues[N - 1].end > length - MinCue)
  <1>1. CuesFollowNarration <=> (cues # Failed => Goal)
    BY DEF CuesFollowNarration
  <1>2. cues = IF \/ ~ValidTimings(s) \/ length <= 0 \/ n = 0
                  \/ Distance(n, Len(s)) > Tolerance(n, Len(s))
               THEN Failed
               ELSE IF \E k \in DOMAIN ends : \/ cue[k].end > length /\ k < K
                                              \/ cue[k].end <= cue[k].start
               THEN Failed ELSE Kept
    BY DEF BuildSubtitles, Cues, NormalCue, Raw, From, Before
  <1> SUFFICES ASSUME cues # Failed PROVE Goal
    BY <1>1
  <1>3. ValidTimings(s) /\ n # 0 /\ n \in Nat \ {0}
    BY <1>2
  <1>4. m # 0
    BY <1>3 DEF ValidTimings
  <1>5. words \in [1..n -> Timings] /\ Len(words) = n
    <2>1. Len(s) = m
      OBVIOUS
    <2>2. \A i \in 1..n : Smaller(i, Len(s)) \in 1..m
      BY <1>4, <2>1 DEF Smaller
    <2>3. words \in [1..n -> Timings]
      BY <2>2 DEF Align
    <2> HIDE DEF words
    <2> QED
      BY <2>3
  <1> HIDE DEF words, n
  <1>6. Grows(ends, n) /\ ends # <<>> /\ ends[K] = n
    BY <1>3, <1>5, CueEndsGrow
  <1> HIDE DEF ends
  <1>7. K \in Nat \ {0} /\ DOMAIN ends = 1..K
    BY <1>6 DEF Grows
  <1>8. /\ cue \in [0..K -> Clock]
        /\ cue[0].end = -1
        /\ \A k \in 1..K :
              /\ from(k) \in 1..n /\ ends[k] \in 1..n /\ from(k) <= ends[k] /\ raw(k) \in Clock
              /\ cue[k] = NormalCue(words, ends, length, k, cue[k - 1])
    BY <1>3, <1>5, <1>6, CuesExist, SMTT(30)
  <1> HIDE DEF cue
  <1>9. cues = Kept /\ \A k \in 1..K : ~(cue[k].end > length /\ k < K) /\ ~(cue[k].end <= cue[k].start)
    BY <1>2, <1>7
  <1>10. ASSUME NEW k \in 1..K
         PROVE  /\ cue[k] \in Clock /\ cue[k - 1].end \in Int /\ 0 <= cue[k].start
                /\ cue[k].start < cue[k].end /\ cue[k].end <= length
                /\ cue[k].end - cue[k].start >= MinCue \/ (k = K /\ cue[k].end = length)
                /\ \/ cue[k].start > cue[k - 1].end /\ cue[k].start >= words[from(k)].start
                   \/ k = K /\ cue[k].end = length /\ cue[k].start = Larger(0, length - MinCue)
    <2>1. k \in 0..K /\ k - 1 \in 0..K /\ (k = K) \in BOOLEAN
      BY <1>7
    <2>2. cue[k] \in Clock /\ cue[k - 1] \in Clock /\ cue[k - 1].end \in Int
      BY <1>8, <2>1 DEF Clock
    <2>3. raw(k) \in Clock /\ cue[k] = NormalizeCue(raw(k), cue[k - 1].end, k = K, length)
      BY <1>8 DEF NormalCue
    <2>4. raw(k).start = words[from(k)].start
      BY DEF Raw
    <2> HIDE DEF raw, from
    <2>5. /\ 0 <= cue[k].start
          /\ k = K => cue[k].end <= length
          /\ cue[k].end - cue[k].start >= MinCue \/ (k = K /\ cue[k].end = length)
          /\ \/ cue[k].start > cue[k - 1].end /\ cue[k].start >= raw(k).start
             \/ k = K /\ cue[k].end = length /\ cue[k].start = Larger(0, length - MinCue)
      <3>1. Normal(cue[k], raw(k), cue[k - 1].end, k = K, length)
        <4>1. Normal(NormalizeCue(raw(k), cue[k - 1].end, k = K, length), raw(k), cue[k - 1].end, k = K, length)
          BY <2>1, <2>2, <2>3, CueIsNormal
        <4> QED
          BY <2>3, <4>1
      <3> QED
        BY <3>1 DEF Normal
    <2>6. cue[k].start \in Int /\ cue[k].end \in Int
      BY <2>2 DEF Clock
    <2>7. cue[k].start < cue[k].end /\ cue[k].end <= length
      <3>1. ~(cue[k].end > length /\ k < K) /\ ~(cue[k].end <= cue[k].start)
        BY <1>9
      <3> HIDE DEF K
      <3>2. k < K \/ k = K
        BY <1>7
      <3> QED
        BY <2>5, <2>6, <3>1, <3>2
    <2> QED
      BY <2>2, <2>4, <2>5, <2>7
  <1>11. \A k \in 1..K : /\ cues[k].from = from(k) /\ cues[k].to = ends[k]
                         /\ cues[k].start = cue[k].start /\ cues[k].end = cue[k].end
    BY <1>7, <1>9
  <1>12. N = K
    <2>1. cues \in [1..K -> {cues[k] : k \in 1..K}]
      BY <1>7, <1>9
    <2> HIDE DEF cues
    <2> QED
      BY <1>7, <2>1
  <1>13. \A k \in 1..K : (IF k = 1 THEN -1 ELSE cues[k - 1].end) = cue[k - 1].end
    <2> SUFFICES ASSUME NEW k \in 1..K PROVE (IF k = 1 THEN -1 ELSE cues[k - 1].end) = cue[k - 1].end
      OBVIOUS
    <2>1. CASE k = 1
      BY <1>8, <2>1
    <2>2. CASE k # 1
      <3>1. k - 1 \in 1..K
        BY <1>7, <2>2
      <3> QED
        BY <1>11, <2>2, <3>1
    <2> QED
      BY <2>1, <2>2
  <1> HIDE DEF cues
  <1> HIDE DEF K
  <1>14. 1 \in 1..K /\ K \in 1..K /\ \A k \in 1..(K - 1) : k \in 1..K /\ k + 1 \in 1..K /\ k # K
    BY <1>7
  <1>15. cues[1].from = 1 /\ cues[K].to = n
    BY <1>6, <1>11, <1>14 DEF From
  <1>16. \A k \in 1..(K - 1) : cues[k + 1].from = cues[k].to + 1
    <2> SUFFICES ASSUME NEW k \in 1..(K - 1) PROVE cues[k + 1].from = cues[k].to + 1
      OBVIOUS
    <2>1. k + 1 # 1 /\ (k + 1) - 1 = k
      BY <1>7
    <2>2. From(ends, k + 1) = ends[k] + 1
      BY <2>1 DEF From
    <2>3. cues[k + 1].from = From(ends, k + 1) /\ cues[k].to = ends[k]
      BY <1>11, <1>14
    <2> QED
      BY <2>2, <2>3
  <1>17. \A k \in 1..K : cues[k].from <= cues[k].to /\ 0 <= cues[k].start /\ cues[k].end <= length
    BY <1>8, <1>10, <1>11
  <1> HIDE DEF from, raw
  <1>18. \A k \in 1..K : /\ Floor(k) \/ (k = K /\ cues[k].end = length)
                         /\ \/ After(k) /\ OnTime(k)
                            \/ k = K /\ cues[k].end = length /\ cues[k].start = Larger(0, length - MinCue)
    BY <1>10, <1>11, <1>13
  <1>19. QaSubtitleSync(cues, length) \/ (K > 1 /\ cues[K - 1].end > length - MinCue)
    <2> SUFFICES ASSUME ~(K > 1 /\ cues[K - 1].end > length - MinCue) PROVE QaSubtitleSync(cues, length)
      OBVIOUS
    <2>1. DOMAIN cues = 1..K /\ cues # <<>>
      <3>1. DOMAIN Kept = DOMAIN ends
        OBVIOUS
      <3>2. 1 \in DOMAIN cues /\ DOMAIN cues = 1..K
        BY <1>7, <1>9, <1>14, <3>1
      <3>3. DOMAIN <<>> = {}
        OBVIOUS
      <3> QED
        BY <3>2, <3>3
    <2>2. \A k \in 1..K : cues[k].start < cues[k].end /\ cues[k].end <= length
      BY <1>10, <1>11
    <2>3. ASSUME NEW k \in 2..K PROVE cues[k].start >= cues[k - 1].end
      <3>1. k \in 1..K /\ k # 1 /\ k - 1 \in 1..K /\ cues[k - 1].end = cue[k - 1].end /\ cues[k].start = cue[k].start
        BY <1>7, <1>11
      <3>2. cue[k].start \in Int /\ cue[k - 1].end \in Int
        BY <1>10, <3>1 DEF Clock
      <3>3. CASE cue[k].start > cue[k - 1].end
        BY <3>1, <3>2, <3>3
      <3>4. CASE k = K /\ cue[k].start = Larger(0, length - MinCue)
        <4>1. cues[k - 1].end <= length - MinCue
          BY <1>7, <3>1, <3>2, <3>4, TimingAssumption
        <4> QED
          BY <3>1, <3>2, <3>4, <4>1, TimingAssumption DEF Larger
      <3> QED
        BY <1>10, <3>1, <3>3, <3>4
    <2> QED
      BY <1>12, <2>1, <2>2, <2>3 DEF QaSubtitleSync
  <1> QED
    <2>1. \A k \in 1..(K - 1) : Floor(k) /\ After(k) /\ OnTime(k)
      BY <1>14, <1>18
    <2>2. /\ Floor(K) \/ cues[K].end = length
          /\ \/ After(K) /\ OnTime(K)
             \/ cues[K].end = length /\ cues[K].start = Larger(0, length - MinCue)
      BY <1>14, <1>18
    <2> HIDE DEF Floor, After, OnTime
    <2> QED
      BY <1>12, <1>15, <1>16, <1>17, <1>19, <2>1, <2>2

\* buildSubtitles, for every narration, script, audio and pair of cue lengths: the
\* words are in one cue each, in order, and no cue is too early, too short, beyond
\* the audio or over its predecessor, except for the last one where the audio ends.
THEOREM TimingSpecCuesFollowNarration == TimingSpec => []CuesFollowNarration
  <1>1. TimingInit => CuesFollowNarration
    <2> SUFFICES ASSUME TimingInit PROVE CuesFollowNarration
      OBVIOUS
    <2>1. /\ audio \in Int /\ script.words \in Nat
          /\ \E m \in Nat : spoken \in [1..m -> Timings]
      <3>1. CASE /\ spoken \in UNION {[1..n -> Timings] : n \in 0..(MaxWords - 1)}
                 /\ script \in Scripts
                 /\ audio \in {MinCue, MaxClock, MaxClock + MinCue}
        <4>1. script.words \in Nat
          <5>1. PICK n \in 1..MaxWords : script \in [words : {n}, breaks : SUBSET (1..(n - 1))]
            BY <3>1 DEF Scripts
          <5> QED
            BY <5>1, TimingAssumption
        <4>2. audio \in Int
          BY <3>1, TimingAssumption
        <4>3. \E m \in Nat : spoken \in [1..m -> Timings]
          BY <3>1, TimingAssumption
        <4> QED
          BY <4>1, <4>2, <4>3
      <3>2. CASE NoSubtitles
        <4>1. <<>> \in [1..0 -> Timings]
          OBVIOUS
        <4> QED
          BY <3>2, <4>1 DEF NoSubtitles
      <3> QED
        BY <3>1, <3>2 DEF TimingInit
    <2> QED
      BY <2>1, CuesOfNarration
  <1>2. CuesFollowNarration /\ [UNCHANGED timingVars]_timingVars => CuesFollowNarration'
    <2> SUFFICES ASSUME CuesFollowNarration, [UNCHANGED timingVars]_timingVars PROVE CuesFollowNarration'
      OBVIOUS
    <2>1. spoken' = spoken /\ script' = script /\ audio' = audio
      BY DEF timingVars
    <2> QED
      BY <2>1 DEF CuesFollowNarration
  <1> QED
    BY <1>1, <1>2, PTL DEF TimingSpec
=============================================================================
