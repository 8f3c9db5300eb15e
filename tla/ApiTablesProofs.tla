-------------------------- MODULE ApiTablesProofs ---------------------------
(* Proofs about four components of the API that share no row: the keyed     *)
(* enqueue (one job per key), the transactions that move a content item and *)
(* its series (the series fits, and nobody waits for ever), the approval of *)
(* a social post, and the stages of a blog. They hold for every number of   *)
(* requests, rows and stages. Each part opens with the argument that its    *)
(* inductive invariant carries.                                             *)
EXTENDS EnqueueOnce, ContentLocks, SocialPosts, BlogPipeline, TLAPS, SequenceTheorems,
        FiniteSetTheorems, WellFoundedInduction

-----------------------------------------------------------------------------
(* EnqueueOnce: one row per key. Whoever holds the key in the cache or      *)
(* finds the row answers with it; only the request whose insert wins the    *)
(* unique index adds the entry, so that an entry is added once, and every   *)
(* answer names a row that is there.                                        *)

\* There is no row, and nobody knows of any.
LEMMA EnqueueInitial == EnqueueInit => EnqueueIInv
  <1> SUFFICES ASSUME EnqueueInit PROVE EnqueueIInv
    OBVIOUS
  <1>1. EnqueueTypeOK
    BY DEF EnqueueInit, EnqueueTypeOK
  <1>2. \A r \in Requests : req[r].pc = "idle"
    BY DEF EnqueueInit, Idle
  <1>3. DOMAIN keyed = {} /\ answers = {} /\ \A s \in JobScopes : remembered[s] = None
    BY DEF EnqueueInit
  <1> QED
    BY <1>1, <1>2, <1>3
    DEF EnqueueIInv, OneRow, AddedOnce, CacheKnows, JobKnown, Creator, AnswersTrue, At

\* What a request holds at each of its steps.
LEMMA KeyedCallFields ==
    ASSUME EnqueueTypeOK, NEW r \in Requests
    PROVE  /\ req[r].pc \in {"idle", "create", "lookup", "dispatch", "cache"}
           /\ req[r].pc # "idle" => req[r].scope \in JobScopes /\ req[r].payload \in Payloads
           /\ req[r].pc \in {"create", "lookup"} => req[r] \in KeyedCall
           /\ req[r].pc \in {"dispatch", "cache"} => req[r] \in KeyedJob
  BY DEF EnqueueTypeOK, KeyedCall, KeyedJob, Idle

\* A row keeps its scope and its payload, so that what was known of it is still
\* true; a request knows what it did, or ends.
LEMMA RowsStand ==
    ASSUME EnqueueIInv, EnqueueTypeOK',
           DOMAIN keyed \subseteq DOMAIN keyed',
           \A n \in DOMAIN keyed : /\ keyed'[n].scope = keyed[n].scope
                                   /\ keyed'[n].payload = keyed[n].payload
    PROVE  /\ UNCHANGED remembered => CacheKnows'
           /\ UNCHANGED answers => AnswersTrue'
           /\ \A r \in Requests : req'[r].pc \in {"dispatch", "cache"}
                  /\ req[r].pc \in {"dispatch", "cache"} /\ req'[r].job = req[r].job
                  /\ req'[r].scope = req[r].scope /\ req'[r].payload = req[r].payload
                  => RowIs(req[r].job, req[r].scope, req[r].payload)'
  <1>1. UNCHANGED remembered => CacheKnows'
    BY DEF EnqueueIInv, CacheKnows, RowIs
  <1>2. UNCHANGED answers => AnswersTrue'
    <2> SUFFICES ASSUME UNCHANGED answers, NEW a \in answers
                 PROVE  \E n \in DOMAIN keyed' :
                            /\ keyed'[n].scope = a.scope
                            /\ IF a.job = Mismatch THEN keyed'[n].payload # a.payload
                                ELSE n = a.job /\ keyed'[n].payload = a.payload
      BY DEF AnswersTrue
    <2> PICK n \in DOMAIN keyed :
             /\ keyed[n].scope = a.scope
             /\ IF a.job = Mismatch THEN keyed[n].payload # a.payload
                 ELSE n = a.job /\ keyed[n].payload = a.payload
      BY DEF EnqueueIInv, AnswersTrue
    <2> QED
      OBVIOUS
  <1>3. \A r \in Requests : req[r].pc \in {"dispatch", "cache"} =>
            RowIs(req[r].job, req[r].scope, req[r].payload)
    BY DEF EnqueueIInv, JobKnown
  <1> QED
    BY <1>1, <1>2, <1>3 DEF RowIs

\* One request moves on, without a job to dispatch; the rows stay.
LEMMA AnswerMoves ==
    ASSUME EnqueueIInv, NEW r \in Requests, NEW c \in {Idle} \cup KeyedCall,
           req' = [req EXCEPT ![r] = c], UNCHANGED keyed,
           EnqueueTypeOK', CacheKnows', AnswersTrue'
    PROVE  EnqueueIInv'
  <1>1. c.pc \in {"idle", "create", "lookup"}
    BY DEF Idle, KeyedCall
  <1>2. \A q \in Requests : req'[q] = IF q = r THEN c ELSE req[q]
    BY DEF EnqueueIInv, EnqueueTypeOK
  <1>3. JobKnown' /\ Creator'
    BY <1>1, <1>2 DEF EnqueueIInv, JobKnown, Creator, At, RowIs
  <1> QED
    BY <1>3 DEF EnqueueIInv, OneRow, AddedOnce

\* A new answer that is true of some row.
LEMMA AnswerTrue ==
    ASSUME EnqueueIInv, UNCHANGED keyed, NEW s, NEW p, NEW job, Answer(s, p, job),
           NEW n \in DOMAIN keyed, keyed[n].scope = s,
           job = Replayed(p, keyed[n].payload, n)
    PROVE  AnswersTrue'
  <1>1. n # Mismatch
    BY DEF EnqueueIInv, EnqueueTypeOK, Mismatch
  <1>2. \A a \in answers : \E k \in DOMAIN keyed :
          /\ keyed[k].scope = a.scope
          /\ IF a.job = Mismatch THEN keyed[k].payload # a.payload
                                 ELSE k = a.job /\ keyed[k].payload = a.payload
    BY DEF EnqueueIInv, AnswersTrue
  <1>3. LET a == [scope |-> s, payload |-> p, job |-> job] IN
          /\ keyed[n].scope = a.scope
          /\ IF a.job = Mismatch THEN keyed[n].payload # a.payload
                                 ELSE n = a.job /\ keyed[n].payload = a.payload
    BY <1>1 DEF Replayed
  <1>4. \A a \in answers' : a \in answers \/ a = [scope |-> s, payload |-> p, job |-> job]
    BY DEF Answer
  <1> QED
    BY <1>2, <1>3, <1>4 DEF AnswersTrue

-----------------------------------------------------------------------------
LEMMA CheckCacheKeeps ==
    ASSUME EnqueueIInv, NEW r \in Requests, CheckCache(r)
    PROVE  EnqueueIInv'
  <1> PICK s \in JobScopes, p \in Payloads : \E hit \in CacheEntry(s) \cup {None} :
          IF hit = None
          THEN Begin(r, [pc |-> "create", scope |-> s, payload |-> p]) /\ UNCHANGED answers
          ELSE At(r, "idle") /\ Answer(s, p, Replayed(p, hit.fingerprint, hit.job)) /\ UNCHANGED req
    BY DEF CheckCache
  <1> PICK hit \in CacheEntry(s) \cup {None} :
          IF hit = None
          THEN Begin(r, [pc |-> "create", scope |-> s, payload |-> p]) /\ UNCHANGED answers
          ELSE At(r, "idle") /\ Answer(s, p, Replayed(p, hit.fingerprint, hit.job)) /\ UNCHANGED req
    OBVIOUS
  <1>1. UNCHANGED <<keyed, remembered>>
    BY DEF CheckCache
  <1>2. CASE hit = None
    <2> DEFINE c == [pc |-> "create", scope |-> s, payload |-> p]
    <2>1. c \in KeyedCall /\ req' = [req EXCEPT ![r] = c] /\ UNCHANGED answers
      BY <1>2 DEF Begin, KeyedCall
    <2>2. EnqueueTypeOK'
      BY <1>1, <2>1 DEF EnqueueIInv, EnqueueTypeOK
    <2> QED
      BY <1>1, <2>1, <2>2, RowsStand, AnswerMoves
  <1>3. CASE hit # None
    <2>1. hit = remembered[s] /\ UNCHANGED req
          /\ Answer(s, p, Replayed(p, hit.fingerprint, hit.job))
      BY <1>3 DEF CacheEntry
    <2>2. hit.job \in DOMAIN keyed /\ keyed[hit.job].scope = s
          /\ keyed[hit.job].payload = hit.fingerprint
      BY <1>3, <2>1 DEF EnqueueIInv, CacheKnows, RowIs
    <2>3. AnswersTrue'
      BY <1>1, <2>1, <2>2, AnswerTrue
    <2> QED
      BY <1>1, <2>1, <2>3
      DEF EnqueueIInv, EnqueueTypeOK, OneRow, AddedOnce, CacheKnows, JobKnown, Creator, RowIs, At
  <1> QED
    BY <1>2, <1>3

LEMMA CreateKeyedKeeps ==
    ASSUME EnqueueIInv, NEW r \in Requests, CreateKeyed(r)
    PROVE  EnqueueIInv'
  <1>t. EnqueueTypeOK /\ req[r].pc = "create" /\ UNCHANGED <<remembered, answers>>
    BY DEF EnqueueIInv, CreateKeyed, At
  <1>f. req[r] \in KeyedCall /\ req[r].scope \in JobScopes /\ req[r].payload \in Payloads
    BY <1>t, KeyedCallFields
  <1>1. CASE Violated(req[r].scope)
    <2> DEFINE c == [req[r] EXCEPT !.pc = "lookup"]
    <2>1. c \in KeyedCall /\ req' = [req EXCEPT ![r] = c] /\ UNCHANGED keyed
      BY <1>1, <1>f DEF CreateKeyed, Goto, KeyedCall
    <2>2. EnqueueTypeOK'
      BY <1>t, <2>1 DEF EnqueueTypeOK
    <2> QED
      BY <1>t, <2>1, <2>2, RowsStand, AnswerMoves
  <1>2. CASE ~Violated(req[r].scope)
    <2> DEFINE row == [scope |-> req[r].scope, payload |-> req[r].payload, added |-> 0]
               job == Len(keyed) + 1
               c   == [pc |-> "dispatch", scope |-> req[r].scope,
                       payload |-> req[r].payload, job |-> job]
    <2>1. keyed' = Append(keyed, row) /\ req' = [req EXCEPT ![r] = c]
      BY <1>2 DEF CreateKeyed
    <2>2. \A n \in DOMAIN keyed : keyed[n].scope # row.scope
      BY <1>2 DEF Violated, SameKey
    <2>3. row \in [scope : JobScopes, payload : Payloads, added : Nat] /\ c \in KeyedJob
          /\ Len(keyed) \in Nat /\ DOMAIN keyed = 1..Len(keyed)
      BY <1>t, <1>f DEF EnqueueTypeOK, KeyedJob
    <2>4. /\ DOMAIN keyed' = DOMAIN keyed \cup {job} /\ job \notin DOMAIN keyed
          /\ keyed'[job] = row /\ \A n \in DOMAIN keyed : keyed'[n] = keyed[n]
      BY <1>t, <2>1, <2>3 DEF EnqueueTypeOK
    <2>5. \A q \in Requests : req'[q] = IF q = r THEN c ELSE req[q]
      BY <1>t, <2>1 DEF EnqueueTypeOK
    <2>6. EnqueueTypeOK'
      <3>1. keyed' \in Seq([scope : JobScopes, payload : Payloads, added : Nat])
        BY <1>t, <2>1, <2>3 DEF EnqueueTypeOK
      <3>2. req' \in [Requests -> {Idle} \cup KeyedCall \cup KeyedJob]
        BY <1>t, <2>1, <2>3 DEF EnqueueTypeOK
      <3> QED
        BY <1>t, <3>1, <3>2 DEF EnqueueTypeOK
    <2>7. CacheKnows' /\ AnswersTrue'
      BY <1>t, <2>4, <2>6, RowsStand
    <2>8. OneRow' /\ AddedOnce'
      BY <2>2, <2>4 DEF EnqueueIInv, OneRow, AddedOnce
    <2>9. JobKnown'
      <3> SUFFICES ASSUME NEW q \in Requests, req'[q].pc \in {"dispatch", "cache"}
                   PROVE  RowIs(req[q].job, req[q].scope, req[q].payload)'
        BY DEF JobKnown
      <3>1. CASE q = r
        BY <2>4, <2>5, <3>1 DEF RowIs
      <3>2. CASE q # r
        BY <2>4, <2>5, <3>2 DEF EnqueueIInv, JobKnown, RowIs
      <3> QED
        BY <3>1, <3>2
    <2>10. Creator'
      <3>1. \A q \in Requests : req[q].pc = "dispatch" => req[q].job \in DOMAIN keyed
        BY DEF EnqueueIInv, JobKnown, RowIs
      <3> QED
        BY <2>4, <2>5, <3>1 DEF EnqueueIInv, Creator, At
    <2> QED
      BY <2>6, <2>7, <2>8, <2>9, <2>10 DEF EnqueueIInv
  <1> QED
    BY <1>1, <1>2

LEMMA LookUpKeeps ==
    ASSUME EnqueueIInv, NEW r \in Requests, LookUp(r)
    PROVE  EnqueueIInv'
  <1> PICK n \in DOMAIN keyed : keyed[n].scope = req[r].scope /\ ReturnReplay(r, n)
    BY DEF LookUp
  <1>1. /\ UNCHANGED <<keyed, remembered>> /\ req' = [req EXCEPT ![r] = Idle]
        /\ Answer(req[r].scope, req[r].payload, Replayed(req[r].payload, keyed[n].payload, n))
    BY DEF LookUp, ReturnReplay, Done
  <1>2. AnswersTrue'
    BY <1>1, AnswerTrue
  <1>3. EnqueueTypeOK'
    BY <1>1 DEF EnqueueIInv, EnqueueTypeOK
  <1> QED
    BY <1>1, <1>2, <1>3, AnswerMoves DEF EnqueueIInv, CacheKnows, RowIs

LEMMA DispatchKeeps ==
    ASSUME EnqueueIInv, NEW r \in Requests, Dispatch(r)
    PROVE  EnqueueIInv'
  <1>t. EnqueueTypeOK /\ req[r].pc = "dispatch" /\ UNCHANGED <<remembered, answers>>
    BY DEF EnqueueIInv, Dispatch, At
  <1>f. req[r] \in KeyedJob
    BY <1>t, KeyedCallFields
  <1> DEFINE job == req[r].job
  <1>k. RowIs(job, req[r].scope, req[r].payload) /\ keyed[job].added = 0
        /\ \A q \in Requests : req[q].pc = "dispatch" /\ req[q].job = job => q = r
    BY <1>t DEF EnqueueIInv, JobKnown, Creator, At
  <1>1. CASE UNCHANGED keyed /\ Done(r)
    <2>1. req' = [req EXCEPT ![r] = Idle]
      BY <1>1 DEF Done
    <2>2. EnqueueTypeOK'
      BY <1>t, <1>1, <2>1 DEF EnqueueTypeOK
    <2> QED
      BY <1>t, <1>1, <2>1, <2>2, RowsStand, AnswerMoves
  <1>2. CASE keyed' = [keyed EXCEPT ![job].added = @ + 1] /\ (Goto(r, "cache") \/ Done(r))
    <2>1. PICK c \in {Idle} \cup KeyedJob :
            /\ req' = [req EXCEPT ![r] = c] /\ c.pc \in {"idle", "cache"}
            /\ c.pc = "cache" => /\ c.job = job /\ c.scope = req[r].scope
                                 /\ c.payload = req[r].payload
      <3>1. CASE Goto(r, "cache")
        <4> DEFINE c == [req[r] EXCEPT !.pc = "cache"]
        <4>1. c \in KeyedJob /\ c.pc = "cache" /\ c.job = job /\ c.scope = req[r].scope
              /\ c.payload = req[r].payload
          BY <1>f DEF KeyedJob
        <4>2. req' = [req EXCEPT ![r] = c]
          BY <3>1 DEF Goto
        <4> HIDE DEF c
        <4> QED
          BY <4>1, <4>2
      <3>2. CASE Done(r)
        <4>1. Idle.pc = "idle" /\ req' = [req EXCEPT ![r] = Idle]
          BY <3>2 DEF Done, Idle
        <4> QED
          BY <4>1
      <3> QED
        BY <1>2, <3>1, <3>2
    <2> DEFINE row == [keyed[job] EXCEPT !.added = 1]
    <2>r. /\ keyed' = [keyed EXCEPT ![job] = row]
          /\ row \in [scope : JobScopes, payload : Payloads, added : Nat]
          /\ row.scope = keyed[job].scope /\ row.payload = keyed[job].payload /\ row.added = 1
      <3>0. job \in DOMAIN keyed
        BY <1>k DEF RowIs
      <3>1. job \in DOMAIN keyed /\ keyed[job] \in [scope : JobScopes, payload : Payloads, added : Nat]
        <4> DEFINE T == [scope : JobScopes, payload : Payloads, added : Nat]
        <4>1. keyed \in Seq(T)
          BY <1>t DEF EnqueueTypeOK
        <4> HIDE DEF T
        <4>2. keyed[job] \in T
          BY <3>0, <4>1
        <4> QED
          BY <3>0, <4>2 DEF T
      <3> QED
        BY <1>k, <1>2, <3>1
    <2> HIDE DEF row
    <2>2. /\ DOMAIN keyed' = DOMAIN keyed /\ job \in DOMAIN keyed /\ keyed'[job].added = 1
          /\ \A n \in DOMAIN keyed : /\ keyed'[n].scope = keyed[n].scope
                                     /\ keyed'[n].payload = keyed[n].payload
                                     /\ n # job => keyed'[n] = keyed[n]
      BY <1>t, <1>k, <2>r DEF EnqueueTypeOK, RowIs
    <2>3. \A q \in Requests : req'[q] = IF q = r THEN c ELSE req[q]
      BY <1>t, <2>1 DEF EnqueueTypeOK
    <2>4. EnqueueTypeOK'
      <3>1. keyed' \in Seq([scope : JobScopes, payload : Payloads, added : Nat])
        BY <1>t, <1>k, <2>r DEF EnqueueTypeOK, RowIs
      <3>2. req' \in [Requests -> {Idle} \cup KeyedCall \cup KeyedJob]
        BY <1>t, <2>1 DEF EnqueueTypeOK
      <3> QED
        BY <1>t, <3>1, <3>2 DEF EnqueueTypeOK
    <2>5. CacheKnows' /\ AnswersTrue'
      BY <1>t, <2>2, <2>4, RowsStand
    <2>6. OneRow' /\ AddedOnce'
      BY <2>2 DEF EnqueueIInv, OneRow, AddedOnce
    <2>7. JobKnown'
      BY <1>k, <2>1, <2>2, <2>3 DEF EnqueueIInv, JobKnown, RowIs
    <2>8. Creator'
      <3>1. \A q \in Requests : req[q].pc = "dispatch" => req[q].job \in DOMAIN keyed
        BY DEF EnqueueIInv, JobKnown, RowIs
      <3> QED
        BY <1>k, <2>1, <2>2, <2>3, <3>1 DEF EnqueueIInv, Creator, At
    <2> QED
      BY <2>4, <2>5, <2>6, <2>7, <2>8 DEF EnqueueIInv
  <1> QED
    BY <1>1, <1>2 DEF Dispatch

LEMMA CacheResultKeeps ==
    ASSUME EnqueueIInv, NEW r \in Requests, CacheResult(r)
    PROVE  EnqueueIInv'
  <1>t. EnqueueTypeOK /\ req[r].pc = "cache" /\ UNCHANGED keyed
    BY DEF EnqueueIInv, CacheResult, At
  <1>f. req[r] \in KeyedJob /\ RowIs(req[r].job, req[r].scope, req[r].payload)
    BY <1>t, KeyedCallFields DEF EnqueueIInv, JobKnown
  <1>1. Answer(req[r].scope, req[r].payload, req[r].job) /\ req' = [req EXCEPT ![r] = Idle]
    BY DEF CacheResult, Done
  <1>2. req[r].job = Replayed(req[r].payload, keyed[req[r].job].payload, req[r].job)
    BY <1>f DEF RowIs, Replayed
  <1>3. AnswersTrue'
    BY <1>t, <1>f, <1>1, <1>2, AnswerTrue DEF RowIs
  <1> DEFINE entry == [fingerprint |-> req[r].payload, job |-> req[r].job]
  <1>4. \/ remembered' = [remembered EXCEPT ![req[r].scope] = entry]
        \/ UNCHANGED remembered
    BY DEF CacheResult
  <1>5. entry \in [fingerprint : Payloads, job : Nat]
    BY <1>f DEF KeyedJob
  <1>6. EnqueueTypeOK'
    BY <1>t, <1>1, <1>4, <1>5 DEF EnqueueTypeOK
  <1>7. CacheKnows'
    BY <1>t, <1>f, <1>4 DEF EnqueueIInv, EnqueueTypeOK, CacheKnows, RowIs
  <1> QED
    BY <1>t, <1>1, <1>3, <1>6, <1>7, AnswerMoves

LEMMA EnqueueStep == EnqueueIInv /\ [EnqueueNext]_keyedVars => EnqueueIInv'
  <1> SUFFICES ASSUME EnqueueIInv, [EnqueueNext]_keyedVars PROVE EnqueueIInv'
    OBVIOUS
  <1>1. ASSUME NEW r \in Requests, EnqueueDies(r) PROVE EnqueueIInv'
    <2>1. req' = [req EXCEPT ![r] = Idle] /\ UNCHANGED <<keyed, remembered, answers>>
      BY <1>1 DEF EnqueueDies, Done, keyedTables
    <2>2. EnqueueTypeOK'
      BY <2>1 DEF EnqueueIInv, EnqueueTypeOK
    <2> QED
      BY <2>1, <2>2, RowsStand, AnswerMoves
  <1>2. CASE UNCHANGED keyedVars
    BY <1>2
    DEF keyedVars, keyedTables, EnqueueIInv, EnqueueTypeOK, OneRow, AddedOnce, CacheKnows,
        JobKnown, Creator, AnswersTrue, RowIs, At
  <1> QED
    BY <1>1, <1>2, CheckCacheKeeps, CreateKeyedKeeps, LookUpKeeps, DispatchKeeps, CacheResultKeeps
    DEF EnqueueNext

\* BackgroundJobsService.enqueue: in each scope a key is one job, put into its
\* queue at most once by those who ask for it, whatever the cache remembers.
THEOREM EnqueueSpecOneJobPerKey == EnqueueSpec => []OneJobPerKey
  <1>1. EnqueueIInv => OneJobPerKey
    BY DEF EnqueueIInv, OneJobPerKey
  <1> QED
    BY <1>1, EnqueueInitial, EnqueueStep, PTL DEF EnqueueSpec

-----------------------------------------------------------------------------
(* ContentLocks: whoever waits for a row asks for one above everything it   *)
(* holds, in the order in which the code locks; a cycle of waits would go   *)
(* up for ever, and the locks of the transactions that have begun are       *)
(* finitely many. The series of an item fits because whoever changes either *)
(* row holds both, and looks again at what it read before it took them.     *)

\* In a finite set somebody is last in every strict order.
LEMMA SomeoneIsLast ==
    ASSUME NEW D, IsFiniteSet(D), D # {}, NEW R,
           \A r \in D : <<r, r>> \notin R,
           \A p, q, r \in D : <<p, q>> \in R /\ <<q, r>> \in R => <<p, r>> \in R
    PROVE  \E r \in D : \A q \in D : <<r, q>> \notin R
  <1> DEFINE Up(r) == {q \in D : <<r, q>> \in R}
             T     == {Up(r) : r \in D}
  <1>1. T \subseteq FiniteSubsetsOf(D)
    <2>1. \A r \in D : Up(r) \in SUBSET D /\ IsFiniteSet(Up(r))
      BY FS_Subset
    <2> HIDE DEF Up
    <2>2. ASSUME NEW t \in T PROVE t \in FiniteSubsetsOf(D)
      BY <2>1, <2>2 DEF FiniteSubsetsOf
    <2> QED
      BY <2>2
  <1>2. T # {}
    <2>1. PICK d : d \in D
      OBVIOUS
    <2>2. Up(d) \in T
      BY <2>1
    <2> QED
      BY <2>2
  <1>3. PICK x \in T : \A y \in T : ~(<<y, x>> \in StrictSubsetOrdering(D))
    <2> HIDE DEF T
    <2> QED
      BY <1>1, <1>2, FS_StrictSubsetOrderingWellFounded, WFMin
  <1>4. PICK r \in D : x = Up(r)
    OBVIOUS
  <1>5. ASSUME NEW q \in D, <<r, q>> \in R PROVE FALSE
    <2>1. Up(q) \subseteq Up(r) /\ q \in Up(r) /\ q \notin Up(q)
      BY <1>5
    <2>2. <<Up(q), Up(r)>> \in StrictSubsetOrdering(D)
      BY <2>1 DEF StrictSubsetOrdering
    <2> QED
      BY <1>3, <1>4, <2>2
  <1> QED
    BY <1>5

\* The order in which rows are locked is a strict one.
LEMMA BeforeIsStrict ==
    /\ \A a \in Locks : ~Before(a, a)
    /\ \A a, b, c \in Locks : Before(a, b) /\ Before(b, c) => Before(a, c)
  BY LockAssumption DEF Locks, Before

\* The rows of an assignment, or of a move, in the order of the locks.
LEMMA LockOrderAscends ==
    ASSUME NEW old \in Series \cup {None}, NEW target \in Series \cup {None}, NEW i \in Items
    PROVE  /\ LockOrder(old, target, i) \in Seq(Locks)
           /\ \A j, k \in 1..Len(LockOrder(old, target, i)) :
                  j < k => Before(LockOrder(old, target, i)[j], LockOrder(old, target, i)[k])
  <1> DEFINE rows == {old, target} \ {None}
  <1>1. rows \subseteq Series /\ rows \subseteq Int
    BY LockAssumption
  <1>2. CASE rows = {}
    <2>1. LockOrder(old, target, i) = <<i>>
      BY <1>2 DEF LockOrder
    <2> QED
      BY <2>1 DEF Locks
  <1>3. CASE rows # {}
    <2>1. \E x \in rows : \A y \in rows : x =< y
      BY <1>1, <1>3
    <2>2. \E x \in rows : \A y \in rows : x >= y
      BY <1>1, <1>3
    <2>3. /\ Min(rows) \in rows /\ Max(rows) \in rows
          /\ \A y \in rows : Min(rows) =< y
      BY <2>1, <2>2 DEF Min, Max
    <2>4. CASE Min(rows) = Max(rows)
      <3>1. LockOrder(old, target, i) = <<Min(rows), i>>
        BY <1>3, <2>4 DEF LockOrder
      <3> DEFINE order == LockOrder(old, target, i)
      <3>2. /\ order[1] = Min(rows) /\ order[2] = i /\ Len(order) = 2
            /\ order \in Seq(Locks) /\ Min(rows) \in Series
        <4> HIDE DEF rows
        <4>1. Min(rows) \in Series
          BY <1>1, <2>3
        <4> QED
          BY <3>1, <4>1 DEF Locks
      <3> HIDE DEF rows, order
      <3>3. Before(order[1], order[2])
        BY <3>2 DEF Before
      <3>4. \A j, k \in 1..Len(order) : j < k => j = 1 /\ k = 2
        BY <3>2
      <3> QED
        BY <3>2, <3>3, <3>4 DEF order
    <2>5. CASE Min(rows) # Max(rows)
      <3>1. LockOrder(old, target, i) = <<Min(rows), Max(rows), i>>
        BY <1>3, <2>5 DEF LockOrder
      <3>2. Min(rows) < Max(rows) /\ Min(rows) \in Series /\ Max(rows) \in Series
        BY <1>1, <2>3, <2>5
      <3> DEFINE order == LockOrder(old, target, i)
      <3>3. /\ order[1] = Min(rows) /\ order[2] = Max(rows) /\ order[3] = i /\ Len(order) = 3
            /\ order \in Seq(Locks)
        <4> HIDE DEF rows
        <4> QED
          BY <3>1, <3>2 DEF Locks
      <3>4. Before(order[1], order[2]) /\ Before(order[1], order[3]) /\ Before(order[2], order[3])
        <4> HIDE DEF rows, order
        <4> QED
          BY <3>2, <3>3 DEF Before
      <3> HIDE DEF order
      <3>5. \A j, k \in 1..Len(order) : j < k => (j = 1 /\ k = 2) \/ (j = 1 /\ k = 3) \/ (j = 2 /\ k = 3)
        BY <3>3
      <3> QED
        BY <3>3, <3>4, <3>5 DEF order
    <2> QED
      BY <2>4, <2>5
  <1> QED
    BY <1>2, <1>3

-----------------------------------------------------------------------------
\* A transaction whose rows are wanted in the order of the locks.
LockCall == [pc : Operations, args : LockArgs, want : Seq(Locks), held : SUBSET Locks]
Ascending(c) ==
    /\ \A j, k \in 1..Len(c.want) : j < k => Before(c.want[j], c.want[k])
    /\ \A a \in c.held, k \in 1..Len(c.want) : Before(a, c.want[k])

LEMMA LockInitial == LockInit => LockIInv
  <1> SUFFICES ASSUME LockInit PROVE LockIInv
    OBVIOUS
  <1>1. \A r \in Requests : ~InTransaction(r)
    BY DEF LockInit, Idle, InTransaction, Operations
  <1>2. TransactionsOK
    BY <1>1 DEF LockInit, TransactionsOK
  <1>3. InOrder
    BY <1>1 DEF InOrder
  <1>4. FewBegun
    <2>1. {r \in Requests : InTransaction(r)} = {}
      BY <1>1
    <2> QED
      BY <2>1, FS_EmptySet DEF FewBegun
  <1>5. ContentTypeOK /\ SeriesFits
    BY DEF LockInit, ContentTypeOK, SeriesFits
  <1> QED
    BY <1>2, <1>3, <1>4, <1>5 DEF LockIInv

\* One transaction begins, goes on or ends; it knows what it needs and wants it
\* in order.
LEMMA TransactionMoves ==
    ASSUME LockIInv, NEW r \in Requests, NEW c \in {Idle} \cup LockCall,
           req' = [req EXCEPT ![r] = c], ContentTypeOK', SeriesFits',
           c.pc \in Operations => ArgsOK(c.pc, c.args),
           c.pc \in Operations /\ c.pc # "writer" => Ascending(c)
    PROVE  LockIInv'
  <1>1. \A q \in Requests : req'[q] = IF q = r THEN c ELSE req[q]
    BY DEF LockIInv, TransactionsOK
  <1>2. TransactionsOK'
    <2>1. req' \in [Requests -> {Idle} \cup LockCall]
      BY DEF LockIInv, TransactionsOK, LockCall
    <2>2. \A q \in Requests : InTransaction(q)' => ArgsOK(req'[q].pc, req'[q].args)
      BY <1>1 DEF LockIInv, TransactionsOK, InTransaction
    <2> QED
      BY <2>1, <2>2 DEF TransactionsOK, LockCall, ArgsOK
  <1>3. InOrder'
    BY <1>1 DEF LockIInv, InOrder, InTransaction, At, Ascending
  <1>4. FewBegun'
    <2> DEFINE B == {q \in Requests : InTransaction(q)}
    <2>1. IsFiniteSet(B \cup {r})
      BY FS_AddElement DEF LockIInv, FewBegun
    <2>2. {q \in Requests : InTransaction(q)'} \subseteq B \cup {r}
      BY <1>1 DEF InTransaction
    <2> HIDE DEF B
    <2>3. IsFiniteSet({q \in Requests : InTransaction(q)'})
      BY <2>1, <2>2, FS_Subset
    <2> QED
      BY <2>3 DEF FewBegun
  <1> QED
    BY <1>2, <1>3, <1>4 DEF LockIInv

LEMMA TransactionEnds ==
    ASSUME LockIInv, NEW r \in Requests, Done(r), ContentTypeOK', SeriesFits'
    PROVE  LockIInv'
  <1>1. Idle.pc \notin Operations /\ req' = [req EXCEPT ![r] = Idle]
    BY DEF Idle, Operations, Done
  <1> QED
    BY <1>1, TransactionMoves

LEMMA TransactionBegins ==
    ASSUME LockIInv, NEW r \in Requests, NEW op \in Operations, NEW args \in LockArgs,
           NEW want \in Seq(Locks), ArgsOK(op, args), Transact(r, op, args, want),
           op # "writer" => \A j, k \in 1..Len(want) : j < k => Before(want[j], want[k])
    PROVE  LockIInv'
  <1> DEFINE c == [pc |-> op, args |-> args, want |-> want, held |-> {}]
  <1>1. c \in LockCall /\ c.pc = op /\ c.args = args /\ req' = [req EXCEPT ![r] = c]
    BY DEF LockCall, Transact, Begin
  <1>2. op # "writer" => Ascending(c)
    BY DEF Ascending
  <1>3. ContentTypeOK' /\ SeriesFits'
    BY DEF LockIInv, ContentTypeOK, SeriesFits, Transact, lockTables
  <1> HIDE DEF c
  <1> QED
    BY <1>1, <1>2, <1>3, TransactionMoves

\* What the operations look up.
LEMMA LockReadKeeps ==
    ASSUME LockIInv, NEW r \in Requests, LockRead(r)
    PROVE  LockIInv'
  <1>o. /\ "removeSeries" \in Operations /\ "assignSeries" \in Operations
        /\ "updateProject" \in Operations /\ "removeItem" \in Operations
        /\ "featuredMedia" \in Operations /\ "writer" \in Operations
    BY DEF Operations
  <1>1. ASSUME NEW s \in Series, RemoveSeriesRead(r, s) PROVE LockIInv'
    <2> DEFINE args == [series |-> s]
    <2>1. args \in LockArgs /\ ArgsOK("removeSeries", args) /\ <<s>> \in Seq(Locks)
          /\ \A j, k \in 1..Len(<<s>>) : ~(j < k)
      BY DEF LockArgs, ArgsOK, Locks
    <2>2. Transact(r, "removeSeries", args, <<s>>)
      BY <1>1 DEF RemoveSeriesRead
    <2> HIDE DEF args
    <2> QED
      BY <1>o, <2>1, <2>2, TransactionBegins
  <1>2. ASSUME NEW i \in Items, NEW target \in Series \cup {None}, AssignSeriesRead(r, i, target)
        PROVE  LockIInv'
    <2> DEFINE args == [item |-> i, seen |-> content[i].series, target |-> target]
               want == LockOrder(content[i].series, target, i)
    <2>1. content[i].series \in Series \cup {None}
      BY DEF LockIInv, ContentTypeOK
    <2>2. args \in LockArgs /\ ArgsOK("assignSeries", args)
      BY <2>1 DEF LockArgs, ArgsOK
    <2>3. want \in Seq(Locks) /\ \A j, k \in 1..Len(want) : j < k => Before(want[j], want[k])
      BY <2>1, LockOrderAscends
    <2>4. Transact(r, "assignSeries", args, want)
      BY <1>2 DEF AssignSeriesRead
    <2> HIDE DEF args, want
    <2> QED
      BY <1>o, <2>2, <2>3, <2>4, TransactionBegins
  <1>3. ASSUME NEW i \in Items, NEW p \in ItemProjects \cup {None}, UpdateProjectRead(r, i, p)
        PROVE  LockIInv'
    <2> DEFINE args == [item |-> i, seen |-> content[i].series, project |-> p]
               want == LockOrder(content[i].series, None, i)
    <2>1. content[i].series \in Series \cup {None}
      BY DEF LockIInv, ContentTypeOK
    <2>2. args \in LockArgs /\ ArgsOK("updateProject", args)
      BY <2>1 DEF LockArgs, ArgsOK
    <2>3. want \in Seq(Locks) /\ \A j, k \in 1..Len(want) : j < k => Before(want[j], want[k])
      BY <2>1, LockOrderAscends
    <2>4. Transact(r, "updateProject", args, want)
      BY <1>3 DEF UpdateProjectRead
    <2> HIDE DEF args, want
    <2> QED
      BY <1>o, <2>2, <2>3, <2>4, TransactionBegins
  <1>4. ASSUME NEW i \in Items, RemoveContentRead(r, i) PROVE LockIInv'
    <2> DEFINE args == [item |-> i]
    <2>1. args \in LockArgs /\ ArgsOK("removeItem", args) /\ <<i>> \in Seq(Locks)
          /\ \A j, k \in 1..Len(<<i>>) : ~(j < k)
      BY DEF LockArgs, ArgsOK, Locks
    <2>2. Transact(r, "removeItem", args, <<i>>)
      BY <1>4 DEF RemoveContentRead
    <2> HIDE DEF args
    <2> QED
      BY <1>o, <2>1, <2>2, TransactionBegins
  <1>5. ASSUME NEW i \in Items, NEW m \in Medias, SetFeaturedMediaRead(r, i, m) PROVE LockIInv'
    <2> DEFINE args == [item |-> i]
               want == <<i, m>>
    <2>1. args \in LockArgs /\ ArgsOK("featuredMedia", args)
      BY DEF LockArgs, ArgsOK
    <2>2. want \in Seq(Locks) /\ \A j, k \in 1..Len(want) : j < k => Before(want[j], want[k])
      BY DEF Locks, Before
    <2>3. Transact(r, "featuredMedia", args, want)
      BY <1>5 DEF SetFeaturedMediaRead
    <2> HIDE DEF args, want
    <2> QED
      BY <1>o, <2>1, <2>2, <2>3, TransactionBegins
  <1>6. ASSUME NEW i \in Items, NEW m \in Medias, WriterTransaction(r, i, m) PROVE LockIInv'
    <2> DEFINE args == [item |-> i]
               want == <<m, i>>
    <2>1. args \in LockArgs /\ ArgsOK("writer", args) /\ want \in Seq(Locks)
      BY DEF LockArgs, ArgsOK, Locks
    <2>2. Transact(r, "writer", args, want)
      BY <1>6 DEF WriterTransaction
    <2> HIDE DEF args, want
    <2> QED
      BY <1>o, <2>1, <2>2, TransactionBegins
  <1> QED
    BY <1>1, <1>2, <1>3, <1>4, <1>5, <1>6 DEF LockRead

\* The first of the rows still wanted is held, and comes before the others.
LEMMA LockNextKeeps ==
    ASSUME LockIInv, NEW r \in Requests, LockNext(r)
    PROVE  LockIInv'
  <1> DEFINE row == Head(req[r].want)
             c   == [req[r] EXCEPT !.want = Tail(req[r].want), !.held = req[r].held \cup {row}]
  <1>1. InTransaction(r) /\ req[r].want # <<>>
    BY DEF LockNext, Wants
  <1>2. req[r] \in LockCall /\ ArgsOK(req[r].pc, req[r].args)
    BY <1>1 DEF LockIInv, TransactionsOK, InTransaction, Operations, Idle, LockCall
  <1>3. /\ req[r].want \in Seq(Locks) /\ req[r].held \in SUBSET Locks
        /\ Tail(req[r].want) \in Seq(Locks) /\ row \in Locks /\ row = req[r].want[1]
        /\ Len(req[r].want) \in Nat /\ Len(Tail(req[r].want)) = Len(req[r].want) - 1
        /\ \A k \in 1..Len(Tail(req[r].want)) :
               /\ Tail(req[r].want)[k] = req[r].want[k + 1] /\ k + 1 \in 1..Len(req[r].want)
               /\ 1 \in 1..Len(req[r].want)
    BY <1>1, <1>2 DEF LockCall
  <1>4. req' = [req EXCEPT ![r] = c]
    BY <1>2 DEF LockNext, LockIInv, TransactionsOK, LockCall
  <1>5. /\ c \in LockCall /\ c.pc = req[r].pc /\ c.args = req[r].args
        /\ c.want = Tail(req[r].want) /\ c.held = req[r].held \cup {row}
    BY <1>2, <1>3 DEF LockCall
  <1>6. c.pc # "writer" => Ascending(c)
    <2> SUFFICES ASSUME req[r].pc # "writer"
                 PROVE  /\ \A j, k \in 1..Len(c.want) : j < k => Before(c.want[j], c.want[k])
                        /\ \A a \in c.held, k \in 1..Len(c.want) : Before(a, c.want[k])
      BY <1>5 DEF Ascending
    <2>1. /\ \A j, k \in 1..Len(req[r].want) : j < k => Before(req[r].want[j], req[r].want[k])
          /\ \A a \in req[r].held, k \in 1..Len(req[r].want) : Before(a, req[r].want[k])
      BY <1>1 DEF LockIInv, InOrder, At
    <2> HIDE DEF c, row
    <2>2. \A j, k \in 1..Len(c.want) : j < k => Before(c.want[j], c.want[k])
      BY <1>3, <1>5, <2>1
    <2>3. \A k \in 1..Len(c.want) : Before(row, c.want[k])
      BY <1>3, <1>5, <2>1
    <2>4. \A a \in req[r].held, k \in 1..Len(c.want) : Before(a, c.want[k])
      BY <1>3, <1>5, <2>1
    <2> QED
      BY <1>5, <2>2, <2>3, <2>4
  <1>7. ContentTypeOK' /\ SeriesFits'
    BY DEF LockIInv, ContentTypeOK, SeriesFits, LockNext, lockTables
  <1> HIDE DEF c
  <1> QED
    BY <1>2, <1>4, <1>5, <1>6, <1>7, TransactionMoves

\* What is decided under the locks.
LEMMA LockDecideKeeps ==
    ASSUME LockIInv, NEW r \in Requests, LockDecide(r) \/ RollBack(r)
    PROVE  LockIInv'
  <1>t. ContentTypeOK /\ SeriesFits
    BY DEF LockIInv
  <1>a. InTransaction(r) => ArgsOK(req[r].pc, req[r].args)
    BY DEF LockIInv, TransactionsOK
  <1>i. \A op \in Operations : Deciding(r, op) =>
            /\ Done(r) /\ req[r].pc = op /\ ArgsOK(op, req[r].args)
    BY <1>a DEF Deciding, At, InTransaction
  <1>0. CASE UNCHANGED lockTables /\ Done(r)
    <2>1. ContentTypeOK' /\ SeriesFits'
      BY <1>t, <1>0 DEF ContentTypeOK, SeriesFits, lockTables
    <2> QED
      BY <1>0, <2>1, TransactionEnds
  <1>1. CASE RemoveSeries(r)
    <2> DEFINE s == req[r].args.series
    <2>1. s \in Series /\ Done(r)
      BY <1>1, <1>i DEF RemoveSeries, ArgsOK, Operations
    <2>2. CASE /\ Referencing(s) = {} /\ UNCHANGED content
               /\ series' = [series EXCEPT ![s].deleted = TRUE]
      <3>1. ContentTypeOK'
        BY <1>t, <2>1, <2>2 DEF ContentTypeOK
      <3>2. SeriesFits'
        <4>1. \A i \in Items : content[i].series = s => content[i].deleted
          BY <2>2 DEF Referencing
        <4> QED
          BY <1>t, <2>1, <2>2, <4>1 DEF ContentTypeOK, SeriesFits
      <3> QED
        BY <2>1, <3>1, <3>2, TransactionEnds
    <2> QED
      BY <1>0, <1>1, <2>1, <2>2 DEF RemoveSeries, Refused
  <1>2. CASE AssignSeries(r)
    <2> DEFINE call == req[r].args
    <2>1. call \in [item : Items, seen : Series \cup {None}, target : Series \cup {None}] /\ Done(r)
      BY <1>2, <1>i DEF AssignSeries, ArgsOK, Operations
    <2>2. CASE /\ content' = [content EXCEPT ![call.item].series = call.target] /\ UNCHANGED series
               /\ StillAssigned(call)
               /\ call.target # None =>
                     /\ ~series[call.target].deleted
                     /\ IsSeriesProjectCompatible(series[call.target].project,
                                                  content[call.item].project)
      <3>1. ContentTypeOK'
        BY <1>t, <2>1, <2>2 DEF ContentTypeOK
      <3>2. SeriesFits'
        BY <1>t, <2>1, <2>2 DEF ContentTypeOK, SeriesFits
      <3> QED
        BY <2>1, <3>1, <3>2, TransactionEnds
    <2> QED
      BY <1>0, <1>2, <2>1, <2>2 DEF AssignSeries, Refused
  <1>3. CASE UpdateProject(r)
    <2> DEFINE call == req[r].args
               s    == call.seen
    <2>1. call \in [item : Items, seen : Series \cup {None}, project : ItemProjects \cup {None}]
          /\ Done(r)
      BY <1>3, <1>i DEF UpdateProject, ArgsOK, Operations
    <2>2. CASE /\ content' = [content EXCEPT ![call.item].project = call.project] /\ UNCHANGED series
               /\ StillAssigned(call)
               /\ s # None /\ ~series[s].deleted =>
                     IsSeriesProjectCompatible(series[s].project, call.project)
      <3>1. ContentTypeOK'
        BY <1>t, <2>1, <2>2 DEF ContentTypeOK
      <3>2. SeriesFits'
        BY SMTT(30), <1>t, <2>1, <2>2 DEF ContentTypeOK, SeriesFits, StillAssigned
      <3> QED
        BY <2>1, <3>1, <3>2, TransactionEnds
    <2> QED
      BY <1>0, <1>3, <2>1, <2>2 DEF UpdateProject, Refused, Reconfirmed
  <1>4. CASE RemoveContent(r)
    <2>1. Done(r) /\ UNCHANGED series /\ content' = [content EXCEPT ![req[r].args.item].deleted = TRUE]
      BY <1>4 DEF RemoveContent, Deciding
    <2>2. ContentTypeOK' /\ SeriesFits'
      BY ZenonT(30), <1>t, <2>1 DEF ContentTypeOK, SeriesFits
    <2> QED
      BY <2>1, <2>2, TransactionEnds
  <1>5. CASE MediaCommits(r) \/ RollBack(r)
    BY <1>0, <1>5 DEF MediaCommits, RollBack, Deciding, Refused
  <1> QED
    BY <1>1, <1>2, <1>3, <1>4, <1>5 DEF LockDecide

LEMMA LockStep == LockIInv /\ [ContentNext]_lockVars => LockIInv'
  <1> SUFFICES ASSUME LockIInv, [ContentNext]_lockVars PROVE LockIInv'
    OBVIOUS
  <1>1. CASE UNCHANGED lockVars
    BY <1>1
    DEF lockVars, lockTables, LockIInv, ContentTypeOK, TransactionsOK, InOrder, FewBegun,
        SeriesFits, InTransaction, At
  <1> QED
    BY <1>1, LockReadKeeps, LockNextKeeps, LockDecideKeeps DEF ContentNext

\* ContentSeriesService.remove and ContentItemsService: the series of an item
\* exists and accepts the item's project, whatever operations cross.
THEOREM ContentSpecSeriesFits == ContentSpec => []SeriesFits
  <1>1. LockIInv => SeriesFits
    BY DEF LockIInv
  <1> QED
    BY <1>1, LockInitial, LockStep, PTL DEF ContentSpec

\* The row that one transaction waits for comes before what its holder waits for.
LEMMA WaitsUpwards ==
    ASSUME LockIInv, NEW q \in Requests, NEW r \in Requests, Blocks(q, r), Wants(q) # {},
           ~At(q, "writer")
    PROVE  /\ Wants(r) = {Head(req[r].want)} /\ Wants(q) = {Head(req[q].want)}
           /\ Head(req[r].want) \in Locks /\ Head(req[q].want) \in Locks
           /\ Before(Head(req[r].want), Head(req[q].want))
  <1>1. /\ InTransaction(r) /\ req[r].want # <<>> /\ Wants(r) = {Head(req[r].want)}
        /\ InTransaction(q) /\ req[q].want # <<>> /\ Wants(q) = {Head(req[q].want)}
        /\ Head(req[r].want) \in req[q].held
    BY DEF Blocks, Wants, Holds
  <1>2. req[r] \in LockCall /\ req[q] \in LockCall
    BY <1>1 DEF LockIInv, TransactionsOK, InTransaction, Operations, Idle, LockCall
  <1>3. /\ Head(req[r].want) \in Locks /\ Head(req[q].want) \in Locks
        /\ Head(req[q].want) = req[q].want[1] /\ 1 \in 1..Len(req[q].want)
    BY <1>1, <1>2 DEF LockCall
  <1>4. \A a \in req[q].held, k \in 1..Len(req[q].want) : Before(a, req[q].want[k])
    BY <1>1 DEF LockIInv, InOrder
  <1> QED
    BY <1>1, <1>3, <1>4

\* The lock order: whoever waits for the last row of all those waited for is
\* blocked by nobody who waits.
LEMMA LastWaitsForNobody == LockIInv => NoLockCycle
  <1> SUFFICES ASSUME LockIInv, NEW D \in SUBSET {r \in Requests : ~At(r, "writer")}, D # {},
                      Waiting(D)
               PROVE  FALSE
    BY DEF NoLockCycle
  <1>1. \A r \in D : \E q \in D : Blocks(q, r)
    BY DEF Waiting
  <1>2. \A r \in D : Wants(r) # {} /\ InTransaction(r)
    BY <1>1 DEF Blocks, Wants
  <1>3. IsFiniteSet(D)
    <2> DEFINE B == {r \in Requests : InTransaction(r)}
    <2>1. D \subseteq B /\ IsFiniteSet(B)
      BY <1>2 DEF LockIInv, FewBegun
    <2> HIDE DEF B
    <2> QED
      BY <2>1, FS_Subset
  <1> DEFINE R == {pair \in D \X D : Before(Head(req[pair[1]].want), Head(req[pair[2]].want))}
  <1>4. \A p, q \in D : <<p, q>> \in R <=> Before(Head(req[p].want), Head(req[q].want))
    OBVIOUS
  <1>5. \A r \in D : Head(req[r].want) \in Locks
    BY <1>1, <1>2, WaitsUpwards
  <1>6. \A r \in D : \E q \in D : <<r, q>> \in R
    BY <1>1, <1>2, <1>4, WaitsUpwards
  <1> HIDE DEF R
  <1>7. /\ \A r \in D : <<r, r>> \notin R
        /\ \A p, q, r \in D : <<p, q>> \in R /\ <<q, r>> \in R => <<p, r>> \in R
    BY <1>4, <1>5, BeforeIsStrict
  <1>8. \E r \in D : \A q \in D : <<r, q>> \notin R
    BY <1>3, <1>7, SomeoneIsLast
  <1> QED
    BY <1>6, <1>8

\* The "mandatory global lock order" rules out circular waits, for any number of
\* requests, series and items, unless a worker that stores media takes part.
THEOREM ContentSpecNoLockCycle == ContentSpec => []NoLockCycle
  BY LockInitial, LockStep, LastWaitsForNobody, PTL DEF ContentSpec

-----------------------------------------------------------------------------
(* SocialPosts: a version has one author, who is the only one to change it  *)
(* and knows what is missing of it; so what is finished shows what its      *)
(* author meant. A post that has been approved keeps its current version,   *)
(* and the caption composed of that one.                                    *)

\* There is no post, and no request is at work.
LEMMA PostInitial == PostInit => PostIInv
  <1> SUFFICES ASSUME PostInit PROVE PostIInv
    OBVIOUS
  <1>1. PostTypeOK
    BY DEF PostInit, NoPost, PostTypeOK
  <1>2. \A r \in Requests : req[r].pc = "idle"
    BY DEF PostInit, Idle
  <1>3. post.status = "NONE" /\ drafts = <<>> /\ DOMAIN drafts = {}
    BY DEF PostInit, NoPost
  <1> QED
    BY <1>1, <1>2, <1>3
    DEF PostIInv, NothingPosted, VersionsThere, CaptionKept, DraftsShow, AuthorsKnow,
        PostIs, At, AtWork

\* What a request holds at each of its steps.
LEMMA PostCallFields ==
    ASSUME PostTypeOK, NEW r \in Requests
    PROVE  /\ req[r].pc \in {"idle", "create", "start", "keep", "version", "picture", "record"}
           /\ req[r].pc \in {"create", "start", "version", "picture", "record"}
                  => req[r].picture \in PictureChoices
           /\ req[r].pc \in {"version", "picture", "record"} => req[r].byAgents \in BOOLEAN
           /\ req[r].pc = "keep" => req[r].seen \in Nat
           /\ req[r].pc = "version" => /\ req[r].meant \in PictureChoices
                                       /\ req[r].cutShort \in BOOLEAN
           /\ req[r].pc \in {"picture", "record"} => req[r].version \in Nat
  BY DEF PostTypeOK, PostCalls, Idle

\* A version is a draft, whichever it is.
LEMMA DraftFields ==
    ASSUME NEW rows \in Seq(DraftType), NEW v \in DOMAIN rows
    PROVE  rows[v] \in DraftType
  <1> HIDE DEF DraftType
  <1> QED
    OBVIOUS

\* A request that is not at work on a version moves on; the versions stay.
LEMMA PostRequestMoves ==
    ASSUME PostIInv, NEW r \in Requests, NEW c \in PostCalls \cup {Idle},
           req' = [req EXCEPT ![r] = c], UNCHANGED <<post, drafts>>,
           c.pc \notin {"picture", "record"},
           post.status = "NONE" => c.pc \in {"idle", "create"},
           c.pc = "keep" => c.seen \in DOMAIN drafts,
           c.pc = "version" /\ ~c.cutShort => c.picture = c.meant
    PROVE  PostIInv'
  <1>1. PostTypeOK'
    BY DEF PostIInv, PostTypeOK
  <1>2. \A q \in Requests : req'[q] = IF q = r THEN c ELSE req[q]
    BY DEF PostIInv, PostTypeOK
  <1>3. NothingPosted' /\ VersionsThere' /\ CaptionKept' /\ DraftsShow'
    BY <1>2 DEF PostIInv, NothingPosted, VersionsThere, CaptionKept, DraftsShow, PostIs, At, Shows
  <1>4. AuthorsKnow'
    BY <1>2 DEF PostIInv, AuthorsKnow, At, AtWork, Works
  <1> QED
    BY <1>1, <1>3, <1>4 DEF PostIInv

\* The post moves on, to another status or with another caption; no request does.
LEMMA PostMoves ==
    ASSUME PostIInv, PostTypeOK', UNCHANGED <<drafts, req>>,
           ~PostIs("NONE"), ~PostIs("NONE")', post'.current = post.current, CaptionKept'
    PROVE  PostIInv'
  <1>1. NothingPosted' /\ VersionsThere' /\ DraftsShow' /\ AuthorsKnow'
    BY DEF PostIInv, NothingPosted, VersionsThere, DraftsShow, AuthorsKnow, PostIs, At,
           AtWork, Works, Shows
  <1> QED
    BY <1>1 DEF PostIInv

\* What an author writes next on a version that is its own: whatever is still
\* missing of it, and when nothing is, it shows what was meant.
LEMMA WritesOn ==
    ASSUME PostTypeOK, NEW r \in Requests, NEW rows \in Seq(DraftType), NEW v \in DOMAIN rows,
           WriteOn(r, v, rows), req[r].pc \in {"version", "picture", "record"},
           rows[v].author = r, rows[v].byAgents = req[r].byAgents,
           rows[v].generated <=> req[r].pc = "record",
           rows[v].picture = IF req[r].pc = "version" THEN None ELSE req[r].picture,
           ~rows[v].cutShort => req[r].picture = rows[v].meant,
           req[r].pc = "record" => req[r].byAgents
    PROVE  /\ drafts' \in Seq(DraftType) /\ DOMAIN drafts' = DOMAIN rows
           /\ req' \in [Requests -> PostCalls \cup {Idle}]
           /\ \A w \in DOMAIN rows : w # v => drafts'[w] = rows[w]
           /\ \A q \in Requests : q # r => req'[q] = req[q]
           /\ req'[r].pc \in {"idle", "picture", "record"}
           /\ req'[r].pc \in {"picture", "record"} =>
                  req'[r].version = v /\ Works(r, drafts[v])'
           /\ drafts'[v].author = None /\ ~drafts'[v].cutShort => Shows(drafts'[v])
  <1>d. rows[v] \in DraftType
    BY DraftFields
  <1>v. v \in Nat
    OBVIOUS
  <1>f. req[r].picture \in PictureChoices /\ req[r].byAgents \in BOOLEAN
    BY PostCallFields
  <1>n. NextWrite(req[r]) =
          IF req[r].pc = "version" /\ req[r].picture # None THEN "picture"
          ELSE IF req[r].pc # "record" /\ req[r].byAgents THEN "record" ELSE "none"
    BY DEF NextWrite
  <1>1. CASE NextWrite(req[r]) = "none"
    <2> DEFINE d == [rows[v] EXCEPT !.author = None]
    <2>1. d \in DraftType /\ d.author = None /\ d.picture = rows[v].picture
          /\ d.meant = rows[v].meant /\ d.byAgents = rows[v].byAgents
          /\ d.generated = rows[v].generated /\ d.cutShort = rows[v].cutShort
      BY <1>d DEF DraftType
    <2> HIDE DEF d
    <2>2. drafts' = [rows EXCEPT ![v] = d] /\ req' = [req EXCEPT ![r] = Idle]
      BY <1>1 DEF WriteOn, Done, d
    <2>3. drafts' \in Seq(DraftType) /\ DOMAIN drafts' = DOMAIN rows /\ drafts'[v] = d
          /\ \A w \in DOMAIN rows : w # v => drafts'[w] = rows[w]
      <3> HIDE DEF DraftType
      <3> QED
        BY <2>1, <2>2
    <2>4. /\ req' \in [Requests -> PostCalls \cup {Idle}] /\ req'[r].pc = "idle"
          /\ \A q \in Requests : q # r => req'[q] = req[q]
      BY <2>2 DEF PostTypeOK, Idle
    <2>5. ~d.cutShort => Shows(d)
      <3>1. ~d.cutShort => d.picture = d.meant
        BY <1>1, <1>n, <2>1
      <3>2. d.byAgents \in BOOLEAN /\ d.generated \in BOOLEAN
        BY <2>1 DEF DraftType
      <3>3. d.byAgents <=> d.generated
        <4>1. CASE req[r].pc = "record"
          BY <4>1, <2>1
        <4>2. CASE req[r].pc # "record"
          BY <4>2, <1>1, <1>n, <2>1
        <4> QED
          BY <4>1, <4>2
      <3> QED
        BY <3>1, <3>3 DEF Shows
    <2> QED
      BY <2>3, <2>4, <2>5
  <1>2. CASE NextWrite(req[r]) # "none"
    <2> DEFINE next == NextWrite(req[r])
               c == [pc |-> next, picture |-> req[r].picture, byAgents |-> req[r].byAgents,
                     version |-> v]
    <2>1. next \in {"picture", "record"} /\ req[r].pc # "record"
      BY <1>2, <1>n
    <2>2. req' = [req EXCEPT ![r] = c] /\ drafts' = rows
      BY <1>2 DEF WriteOn
    <2>3. c \in PostCalls
      BY <1>f, <1>v, <2>1 DEF PostCalls
    <2>4. /\ req' \in [Requests -> PostCalls \cup {Idle}] /\ req'[r] = c
          /\ \A q \in Requests : q # r => req'[q] = req[q]
      BY <2>2, <2>3 DEF PostTypeOK
    <2>5. Works(r, drafts[v])'
      <3>1. c.pc = "record" => rows[v].picture = c.picture /\ rows[v].byAgents
        BY <1>2, <1>n, <2>1
      <3> QED
        BY <2>1, <2>2, <2>4, <3>1 DEF Works, At
    <2>6. rows[v].author # None
      BY PostAssumption
    <2> QED
      BY <2>1, <2>2, <2>4, <2>5, <2>6
  <1> QED
    BY <1>1, <1>2

\* So a step in which an author writes on a version of its own - a new one, or
\* the one it is at work on - leaves every other version and author as they were.
LEMMA AuthorMoves ==
    ASSUME PostIInv, NEW r \in Requests, NEW v \in Nat, PostTypeOK',
           DOMAIN drafts' = DOMAIN drafts \cup {v},
           v \in DOMAIN drafts => drafts[v].author = r,
           \A w \in DOMAIN drafts : w # v => drafts'[w] = drafts[w],
           \A q \in Requests : q # r => req'[q] = req[q],
           req'[r].pc \in {"idle", "picture", "record"},
           req'[r].pc \in {"picture", "record"} => req'[r].version = v /\ Works(r, drafts[v])',
           drafts'[v].author = None /\ ~drafts'[v].cutShort => Shows(drafts'[v]),
           ~PostIs("NONE"), ~PostIs("NONE")', post'.current \in DOMAIN drafts', CaptionKept'
    PROVE  PostIInv'
  <1>1. NothingPosted' /\ VersionsThere'
    BY DEF PostIInv, NothingPosted, VersionsThere, PostIs, At
  <1>2. DraftsShow'
    BY DEF PostIInv, DraftsShow, Shows
  <1>3. AuthorsKnow'
    <2> SUFFICES ASSUME NEW q \in Requests
                 PROVE  /\ At(q, "version")' /\ ~req'[q].cutShort => req'[q].picture = req'[q].meant
                        /\ AtWork(q)' => /\ req'[q].version \in DOMAIN drafts'
                                         /\ Works(q, drafts[req[q].version])'
      BY DEF AuthorsKnow
    <2>1. CASE q = r
      BY <2>1 DEF At, AtWork
    <2>2. CASE q # r
      <3>1. /\ At(q, "version") /\ ~req[q].cutShort => req[q].picture = req[q].meant
            /\ AtWork(q) => req[q].version \in DOMAIN drafts /\ Works(q, drafts[req[q].version])
        BY DEF PostIInv, AuthorsKnow
      <3>2. AtWork(q) => req[q].version # v
        BY <2>2, <3>1 DEF Works
      <3> QED
        BY <2>2, <3>1, <3>2 DEF At, AtWork, Works
    <2> QED
      BY <2>1, <2>2
  <1> QED
    BY <1>1, <1>2, <1>3 DEF PostIInv

-----------------------------------------------------------------------------
\* The item, its first version and its picture come together.
LEMMA CreateSocialPostKeeps ==
    ASSUME PostIInv, NEW r \in Requests, CreateSocialPost(r)
    PROVE  PostIInv'
  <1>t. PostTypeOK /\ req[r].pc = "create" /\ post.status = "NONE"
    BY DEF PostIInv, CreateSocialPost, At, PostIs
  <1>f. req[r] \in [pc : {"create", "start"}, picture : PictureChoices]
    BY <1>t DEF PostTypeOK, PostCalls, Idle
  <1> DEFINE c == [req[r] EXCEPT !.pc = "start"]
             d == [picture |-> req[r].picture, generated |-> TRUE, meant |-> req[r].picture,
                   byAgents |-> TRUE, author |-> None, cutShort |-> FALSE]
  <1>1. c \in PostCalls /\ c.pc = "start" /\ d \in DraftType
    BY <1>f DEF PostCalls, DraftType
  <1>2. /\ req' = [req EXCEPT ![r] = c] /\ drafts' = <<d>>
        /\ post' = [post EXCEPT !.status = "DRAFT", !.current = 1]
    BY DEF CreateSocialPost, Goto
  <1>3. Shows(d) /\ d.author = None
    BY DEF Shows
  <1> HIDE DEF c, d
  <1>4. drafts' \in Seq(DraftType) /\ DOMAIN drafts' = {1} /\ drafts'[1] = d
    <2> HIDE DEF DraftType
    <2> QED
      BY <1>1, <1>2
  <1>5. \A q \in Requests : req'[q] = IF q = r THEN c ELSE req[q]
    BY <1>t, <1>2 DEF PostTypeOK
  <1>6. PostTypeOK'
    BY <1>t, <1>1, <1>2, <1>4 DEF PostTypeOK, PostStatuses
  <1>7. post'.status = "DRAFT" /\ post'.current = 1
    BY <1>t, <1>2 DEF PostTypeOK
  <1>8. \A q \in Requests : req'[q].pc \in {"idle", "create", "start"}
    BY <1>t, <1>1, <1>5 DEF PostIInv, NothingPosted, PostIs
  <1> QED
    BY <1>3, <1>4, <1>6, <1>7, <1>8
    DEF PostIInv, NothingPosted, VersionsThere, CaptionKept, DraftsShow, AuthorsKnow,
        PostIs, At, AtWork

\* An author that keeps a picture keeps it as far as it was meant.
LEMMA KeepPictureKeeps ==
    ASSUME PostIInv, NEW r \in Requests, KeepPicture(r)
    PROVE  PostIInv'
  <1>t. PostTypeOK /\ req[r].pc = "keep" /\ UNCHANGED <<post, drafts>>
    BY DEF PostIInv, KeepPicture, At, postTables
  <1>1. req[r].seen \in DOMAIN drafts /\ post.status # "NONE"
    BY <1>t DEF PostIInv, VersionsThere, NothingPosted, PostIs, At
  <1> DEFINE d == drafts[req[r].seen]
             short == d.cutShort \/ d.author # None
             c == Authoring(d.picture, d.meant, FALSE, short)
  <1>2. d \in DraftType
    BY <1>t, <1>1, DraftFields DEF PostTypeOK
  <1>3. c \in PostCalls /\ c.pc = "version" /\ c.picture = d.picture /\ c.meant = d.meant
        /\ c.cutShort = short
    BY <1>2 DEF PostCalls, DraftType, Authoring
  <1>4. ~c.cutShort => c.picture = c.meant
    BY <1>1, <1>3 DEF PostIInv, DraftsShow, Shows
  <1>5. req' = [req EXCEPT ![r] = c]
    BY DEF KeepPicture
  <1> HIDE DEF c
  <1> QED
    BY <1>t, <1>1, <1>3, <1>4, <1>5, PostRequestMoves

\* A new version starts as its author's, with nothing but the text.
LEMMA CreateVersionKeeps ==
    ASSUME PostIInv, NEW r \in Requests, CreateVersion(r)
    PROVE  PostIInv'
  <1>t. PostTypeOK /\ req[r].pc = "version" /\ post.status \in {"DRAFT", "IN_PROGRESS"}
    BY DEF PostIInv, CreateVersion, At, PostEditable
  <1>f. /\ req[r].picture \in PictureChoices /\ req[r].byAgents \in BOOLEAN
        /\ req[r].meant \in PictureChoices /\ req[r].cutShort \in BOOLEAN
    BY <1>t, PostCallFields
  <1> PICK v : v = Len(drafts) + 1
    OBVIOUS
  <1> DEFINE d == [picture |-> None, generated |-> FALSE, meant |-> req[r].meant,
                   byAgents |-> req[r].byAgents, author |-> r, cutShort |-> req[r].cutShort]
             rows == Append(drafts, d)
  <1>1. d \in DraftType
    BY <1>f DEF DraftType, PictureChoices
  <1>2. drafts \in Seq(DraftType) /\ Len(drafts) \in Nat /\ DOMAIN drafts = 1..Len(drafts)
    BY <1>t DEF PostTypeOK
  <1>3. /\ rows \in Seq(DraftType) /\ DOMAIN rows = DOMAIN drafts \cup {v} /\ rows[v] = d
        /\ v \notin DOMAIN drafts /\ v \in Nat
        /\ \A w \in DOMAIN drafts : rows[w] = drafts[w]
    <2> HIDE DEF DraftType, d
    <2> QED
      BY <1>1, <1>2
  <1>4. d.author = r /\ d.byAgents = req[r].byAgents /\ d.generated = FALSE /\ d.picture = None
        /\ d.meant = req[r].meant /\ d.cutShort = req[r].cutShort
    OBVIOUS
  <1>5. ~d.cutShort => req[r].picture = d.meant
    BY <1>t DEF PostIInv, AuthorsKnow, At
  <1>6. WriteOn(r, v, rows) /\ post' = [post EXCEPT !.current = v]
    BY DEF CreateVersion
  <1> HIDE DEF d, rows
  <1>7. /\ drafts' \in Seq(DraftType) /\ DOMAIN drafts' = DOMAIN rows
        /\ req' \in [Requests -> PostCalls \cup {Idle}]
        /\ \A w \in DOMAIN rows : w # v => drafts'[w] = rows[w]
        /\ \A q \in Requests : q # r => req'[q] = req[q]
        /\ req'[r].pc \in {"idle", "picture", "record"}
        /\ req'[r].pc \in {"picture", "record"} => req'[r].version = v /\ Works(r, drafts[v])'
        /\ drafts'[v].author = None /\ ~drafts'[v].cutShort => Shows(drafts'[v])
    BY <1>t, <1>3, <1>4, <1>5, <1>6, WritesOn
  <1>8. /\ post'.status = post.status /\ post'.current = v
        /\ post' \in [status : PostStatuses \cup {"NONE", "ARCHIVED", "DELETED"},
                      from : PostStatuses \cup {"NONE"}, current : Nat, caption : Nat,
                      patched : BOOLEAN]
    BY <1>t, <1>3, <1>6 DEF PostTypeOK
  <1>9. PostTypeOK'
    BY <1>7, <1>8 DEF PostTypeOK
  <1>10. CaptionKept' /\ ~PostIs("NONE") /\ ~PostIs("NONE")'
    BY <1>t, <1>8 DEF CaptionKept, PostIs
  <1> QED
    BY <1>3, <1>7, <1>8, <1>9, <1>10, AuthorMoves

\* What an author at work knows of its version.
LEMMA AuthorKnows ==
    ASSUME PostIInv, NEW r \in Requests, req[r].pc \in {"picture", "record"}
    PROVE  /\ req[r].version \in DOMAIN drafts /\ req[r].version \in Nat
           /\ drafts[req[r].version] \in DraftType
           /\ Works(r, drafts[req[r].version])
           /\ post.status # "NONE" /\ post.current \in DOMAIN drafts
  <1>1. PostTypeOK
    BY DEF PostIInv
  <1>2. req[r].version \in DOMAIN drafts /\ Works(r, drafts[req[r].version])
    BY DEF PostIInv, AuthorsKnow, AtWork
  <1>3. post.status # "NONE" /\ post.current \in DOMAIN drafts
    BY DEF PostIInv, NothingPosted, VersionsThere, PostIs
  <1> QED
    BY <1>1, <1>2, <1>3, PostCallFields, DraftFields DEF PostTypeOK

\* An author writes a part of its version, the picture or the record.
LEMMA PartWritten ==
    ASSUME PostIInv, NEW r \in Requests, req[r].pc \in {"picture", "record"}, UNCHANGED post,
           NEW d \in DraftType, WriteOn(r, req[r].version, [drafts EXCEPT ![req[r].version] = d]),
           d.author = r, d.byAgents = req[r].byAgents, d.generated <=> req[r].pc = "record",
           d.picture = req[r].picture, ~d.cutShort => req[r].picture = d.meant,
           req[r].pc = "record" => req[r].byAgents
    PROVE  PostIInv'
  <1> PICK v : v = req[r].version
    OBVIOUS
  <1> DEFINE rows == [drafts EXCEPT ![v] = d]
  <1>t. PostTypeOK
    BY DEF PostIInv
  <1>1. /\ v \in DOMAIN drafts /\ v \in Nat /\ Works(r, drafts[v])
        /\ post.status # "NONE" /\ post.current \in DOMAIN drafts
    BY AuthorKnows
  <1>2. /\ rows \in Seq(DraftType) /\ DOMAIN rows = DOMAIN drafts /\ rows[v] = d
        /\ \A w \in DOMAIN drafts : w # v => rows[w] = drafts[w]
    <2> HIDE DEF DraftType
    <2>1. drafts \in Seq(DraftType)
      BY <1>t DEF PostTypeOK
    <2> QED
      BY <1>1, <2>1
  <1>3. WriteOn(r, v, rows)
    OBVIOUS
  <1> HIDE DEF rows
  <1>4. /\ drafts' \in Seq(DraftType) /\ DOMAIN drafts' = DOMAIN rows
        /\ req' \in [Requests -> PostCalls \cup {Idle}]
        /\ \A w \in DOMAIN rows : w # v => drafts'[w] = rows[w]
        /\ \A q \in Requests : q # r => req'[q] = req[q]
        /\ req'[r].pc \in {"idle", "picture", "record"}
        /\ req'[r].pc \in {"picture", "record"} => req'[r].version = v /\ Works(r, drafts[v])'
        /\ drafts'[v].author = None /\ ~drafts'[v].cutShort => Shows(drafts'[v])
    BY <1>t, <1>1, <1>2, <1>3, WritesOn
  <1>5. PostTypeOK'
    BY <1>t, <1>4 DEF PostTypeOK
  <1>6. CaptionKept' /\ ~PostIs("NONE") /\ ~PostIs("NONE")'
    BY <1>1 DEF PostIInv, CaptionKept, PostIs
  <1>7. drafts[v].author = r
    BY <1>1 DEF Works
  <1> QED
    BY SMTT(30), <1>1, <1>2, <1>4, <1>5, <1>6, <1>7, AuthorMoves

\* attach: the picture comes first.
LEMMA AttachPictureKeeps ==
    ASSUME PostIInv, NEW r \in Requests, AttachPicture(r)
    PROVE  PostIInv'
  <1>t. PostTypeOK /\ req[r].pc = "picture" /\ UNCHANGED post
    BY DEF PostIInv, AttachPicture, At
  <1> DEFINE v == req[r].version
             d == [drafts[v] EXCEPT !.picture = req[r].picture]
  <1>1. /\ v \in DOMAIN drafts /\ drafts[v] \in DraftType /\ Works(r, drafts[v])
    BY <1>t, AuthorKnows
  <1>2. req[r].picture \in PictureChoices
    BY <1>t, PostCallFields
  <1>3. d \in DraftType /\ d.picture = req[r].picture /\ d.author = drafts[v].author
        /\ d.byAgents = drafts[v].byAgents /\ d.generated = drafts[v].generated
        /\ d.meant = drafts[v].meant /\ d.cutShort = drafts[v].cutShort
    BY <1>1, <1>2 DEF DraftType
  <1>4. WriteOn(r, v, [drafts EXCEPT ![v] = d])
    BY DEF AttachPicture, OwnVersion
  <1> HIDE DEF d
  <1> QED
    BY <1>t, <1>1, <1>3, <1>4, PartWritten DEF Works

\* The record of the jobs comes last.
LEMMA RecordGenerationKeeps ==
    ASSUME PostIInv, NEW r \in Requests, RecordGeneration(r)
    PROVE  PostIInv'
  <1>t. PostTypeOK /\ req[r].pc = "record" /\ UNCHANGED post
    BY DEF PostIInv, RecordGeneration, At
  <1> DEFINE v == req[r].version
             d == [drafts[v] EXCEPT !.generated = TRUE]
  <1>1. /\ v \in DOMAIN drafts /\ drafts[v] \in DraftType /\ Works(r, drafts[v])
    BY <1>t, AuthorKnows
  <1>3. d \in DraftType /\ d.picture = drafts[v].picture /\ d.author = drafts[v].author
        /\ d.byAgents = drafts[v].byAgents /\ d.generated
        /\ d.meant = drafts[v].meant /\ d.cutShort = drafts[v].cutShort
    BY <1>1 DEF DraftType
  <1>4. WriteOn(r, v, [drafts EXCEPT ![v] = d])
    BY DEF RecordGeneration, OwnVersion
  <1> HIDE DEF d
  <1>5. drafts[v].picture = req[r].picture /\ req[r].byAgents
    BY <1>t, <1>1 DEF Works, At
  <1> QED
    BY <1>t, <1>1, <1>3, <1>4, <1>5, PartWritten DEF Works

\* An author that is cut short leaves its version marked so.
LEMMA AbandonPostKeeps ==
    ASSUME PostIInv, NEW r \in Requests, AbandonPost(r)
    PROVE  PostIInv'
  <1>t. PostTypeOK /\ UNCHANGED post /\ req' = [req EXCEPT ![r] = Idle]
    BY DEF PostIInv, AbandonPost, Done
  <1>1. Idle.pc = "idle"
    BY DEF Idle
  <1>2. CASE req[r].pc \notin {"picture", "record"}
    <2>1. UNCHANGED drafts
      BY <1>2 DEF AbandonPost
    <2> QED
      BY <1>t, <1>1, <2>1, PostRequestMoves
  <1>3. CASE req[r].pc \in {"picture", "record"}
    <2> PICK v : v = req[r].version
      OBVIOUS
    <2> DEFINE d == [drafts[v] EXCEPT !.author = None, !.cutShort = TRUE]
    <2>1. /\ v \in DOMAIN drafts /\ v \in Nat /\ drafts[v] \in DraftType /\ Works(r, drafts[v])
          /\ post.status # "NONE" /\ post.current \in DOMAIN drafts
      BY <1>3, AuthorKnows
    <2>2. d \in DraftType /\ d.cutShort
      BY <2>1 DEF DraftType
    <2>3. drafts' = [drafts EXCEPT ![v] = d]
      BY <1>3, <1>t, <2>1 DEF AbandonPost, PostTypeOK
    <2> HIDE DEF d
    <2>4. /\ drafts' \in Seq(DraftType) /\ DOMAIN drafts' = DOMAIN drafts /\ drafts'[v] = d
          /\ \A w \in DOMAIN drafts : w # v => drafts'[w] = drafts[w]
      <3> HIDE DEF DraftType
      <3>1. drafts \in Seq(DraftType)
        BY <1>t DEF PostTypeOK
      <3> QED
        BY <2>1, <2>2, <2>3, <3>1
    <2>5. /\ req'[r].pc = "idle" /\ \A q \in Requests : q # r => req'[q] = req[q]
          /\ req' \in [Requests -> PostCalls \cup {Idle}]
      BY <1>t, <1>1 DEF PostTypeOK
    <2>6. PostTypeOK'
      BY <1>t, <2>4, <2>5 DEF PostTypeOK
    <2>7. CaptionKept' /\ ~PostIs("NONE") /\ ~PostIs("NONE")'
      BY <1>t, <2>1 DEF PostIInv, CaptionKept, PostIs
    <2>8. drafts[v].author = r
      BY <2>1 DEF Works
    <2> QED
      BY <1>t, <2>1, <2>2, <2>4, <2>5, <2>6, <2>7, <2>8, AuthorMoves
  <1> QED
    BY <1>2, <1>3

\* Every step of a request.
LEMMA PostRequestKeeps ==
    ASSUME PostIInv, NEW r \in Requests, PostRequest(r)
    PROVE  PostIInv'
  <1>t. PostTypeOK
    BY DEF PostIInv
  <1>1. CASE CreateFromSource(r)
    <2> PICK p \in PictureChoices : Begin(r, [pc |-> "create", picture |-> p])
      BY <1>1 DEF CreateFromSource
    <2> DEFINE c == [pc |-> "create", picture |-> p]
    <2>1. c \in PostCalls /\ c.pc = "create"
      BY DEF PostCalls
    <2>2. req' = [req EXCEPT ![r] = c] /\ UNCHANGED <<post, drafts>>
      BY <1>1 DEF Begin, CreateFromSource, postTables
    <2> HIDE DEF c
    <2> QED
      BY <2>1, <2>2, PostRequestMoves
  <1>2. CASE StartCreated(r)
    <2>1. req' = [req EXCEPT ![r] = Idle] /\ UNCHANGED drafts /\ PostIs("DRAFT")
          /\ post' = [post EXCEPT !.status = "IN_PROGRESS"]
      BY <1>2 DEF StartCreated, StartPost, Done
    <2>2. \A q \in Requests : req'[q] = IF q = r THEN Idle ELSE req[q]
      BY <1>t, <2>1 DEF PostTypeOK
    <2>3. PostTypeOK' /\ post'.status = "IN_PROGRESS" /\ post'.current = post.current
      BY <1>t, <2>1 DEF PostTypeOK, PostStatuses
    <2>4. Idle.pc = "idle"
      BY DEF Idle
    <2>5. NothingPosted' /\ VersionsThere' /\ CaptionKept' /\ DraftsShow'
      BY <2>1, <2>2, <2>3, <2>4
      DEF PostIInv, NothingPosted, VersionsThere, CaptionKept, DraftsShow, PostIs, At, Shows
    <2>6. AuthorsKnow'
      BY <2>1, <2>2, <2>4 DEF PostIInv, AuthorsKnow, At, AtWork, Works
    <2> QED
      BY <2>3, <2>5, <2>6 DEF PostIInv
  <1>3. ASSUME NEW p \in PictureChoices, NEW byAgents \in BOOLEAN, PostExists,
               Begin(r, Authoring(p, p, byAgents, FALSE)), UNCHANGED <<post, drafts>>
        PROVE  PostIInv'
    <2> DEFINE c == Authoring(p, p, byAgents, FALSE)
    <2>1. c \in PostCalls /\ c.pc = "version" /\ c.picture = c.meant
      BY DEF PostCalls, Authoring
    <2>2. req' = [req EXCEPT ![r] = c] /\ post.status # "NONE"
      BY <1>3 DEF Begin, PostExists
    <2> HIDE DEF c
    <2> QED
      BY <1>3, <2>1, <2>2, PostRequestMoves
  <1>4. CASE Regenerate(r)
    <2>1. PostExists /\ UNCHANGED <<post, drafts>>
          /\ \E p \in PictureChoices : Begin(r, Authoring(p, p, TRUE, FALSE))
      BY <1>4 DEF Regenerate, PostEditable, PostExists, postTables
    <2> QED
      BY <1>3, <2>1
  <1>5. CASE EditPost(r)
    <2>1. PostExists /\ UNCHANGED <<post, drafts>>
      BY <1>5 DEF EditPost, postTables
    <2>2. CASE \E p \in PictureChoices : Begin(r, Authoring(p, p, FALSE, FALSE))
      BY <1>3, <2>1, <2>2
    <2>3. CASE Begin(r, [pc |-> "keep", seen |-> post.current])
      <3> DEFINE c == [pc |-> "keep", seen |-> post.current]
      <3>1. c \in PostCalls /\ c.pc = "keep" /\ c.seen = post.current
        BY <1>t DEF PostCalls, PostTypeOK
      <3>2. req' = [req EXCEPT ![r] = c] /\ post.status # "NONE"
        BY <2>1, <2>3 DEF Begin, PostExists
      <3>3. post.current \in DOMAIN drafts
        BY <3>2 DEF PostIInv, VersionsThere, PostIs
      <3> HIDE DEF c
      <3> QED
        BY <2>1, <3>1, <3>2, <3>3, PostRequestMoves
    <2> QED
      BY <1>5, <2>2, <2>3 DEF EditPost
  <1> QED
    BY <1>1, <1>2, <1>4, <1>5, CreateSocialPostKeeps, KeepPictureKeeps, CreateVersionKeeps,
       AttachPictureKeeps, RecordGenerationKeeps, AbandonPostKeeps
    DEF PostRequest

\* Every step of the review and of the rest of the life cycle.
LEMMA PostLifecycleKeeps ==
    ASSUME PostIInv, PostLifecycle, UNCHANGED req
    PROVE  PostIInv'
  <1>t. PostTypeOK
    BY DEF PostIInv
  <1>c. /\ PostIs("ARCHIVED") => post.from \in PostStatuses
        /\ PostIs("APPROVED") \/ (PostIs("ARCHIVED") /\ post.from = "APPROVED")
               => post.patched \/ post.caption = post.current
    BY DEF PostIInv, CaptionKept
  <1>1. UNCHANGED drafts
    BY DEF PostLifecycle, StartPost, SubmitPost, RejectPost, MovePost, ApprovePost, ArchivePost,
           RestorePost, RemovePost, PatchPost
  <1>2. ASSUME NEW s \in {"DRAFT", "IN_PROGRESS", "REVIEW"},
               NEW to \in {"IN_PROGRESS", "REVIEW"}, PostIs(s),
               post' = [post EXCEPT !.status = to]
        PROVE  PostIInv'
    <2>1. PostTypeOK' /\ post'.status = to /\ post'.current = post.current
      BY <1>t, <1>1, <1>2 DEF PostTypeOK, PostStatuses
    <2>2. CaptionKept' /\ ~PostIs("NONE") /\ ~PostIs("NONE")'
      BY <1>2, <2>1 DEF CaptionKept, PostIs
    <2> QED
      BY <1>1, <2>1, <2>2, PostMoves
  <1>3. CASE ApprovePost
    <2>1. /\ PostTypeOK' /\ post'.status = "APPROVED" /\ post'.current = post.current
          /\ post'.caption = post.current
      BY <1>t, <1>1, <1>3 DEF PostTypeOK, PostStatuses, ApprovePost, Composed
    <2>2. CaptionKept' /\ ~PostIs("NONE") /\ ~PostIs("NONE")'
      BY <1>3, <2>1 DEF CaptionKept, PostIs, ApprovePost
    <2> QED
      BY <1>1, <2>1, <2>2, PostMoves
  <1>4. CASE ArchivePost
    <2>1. post.status \in PostStatuses /\ post' = [post EXCEPT !.status = "ARCHIVED", !.from = post.status]
      BY <1>4 DEF ArchivePost, PostStatuses
    <2>2. /\ PostTypeOK' /\ post'.status = "ARCHIVED" /\ post'.current = post.current
          /\ post'.from = post.status /\ post'.caption = post.caption /\ post'.patched = post.patched
      BY <1>t, <1>1, <2>1 DEF PostTypeOK
    <2>3. CaptionKept' /\ ~PostIs("NONE") /\ ~PostIs("NONE")'
      BY <1>c, <2>1, <2>2 DEF CaptionKept, PostIs, PostStatuses
    <2> QED
      BY <1>1, <2>2, <2>3, PostMoves
  <1>5. CASE RestorePost
    <2>1. post.status = "ARCHIVED" /\ post' = [post EXCEPT !.status = post.from, !.from = "NONE"]
          /\ post.from \in PostStatuses
      BY <1>5, <1>c DEF RestorePost, PostIs
    <2>2. /\ PostTypeOK' /\ post'.status = post.from /\ post'.current = post.current
          /\ post'.caption = post.caption /\ post'.patched = post.patched
      BY <1>t, <1>1, <2>1 DEF PostTypeOK
    <2>3. CaptionKept' /\ ~PostIs("NONE") /\ ~PostIs("NONE")'
      BY <1>c, <2>1, <2>2 DEF CaptionKept, PostIs, PostStatuses
    <2> QED
      BY <1>1, <2>2, <2>3, PostMoves
  <1>6. CASE RemovePost
    <2>1. PostTypeOK' /\ post'.status = "DELETED" /\ post'.current = post.current
      BY <1>t, <1>1, <1>6 DEF PostTypeOK, RemovePost
    <2>2. CaptionKept' /\ ~PostIs("NONE") /\ ~PostIs("NONE")'
      BY <1>6, <2>1 DEF CaptionKept, PostIs, RemovePost, PostExists
    <2> QED
      BY <1>1, <2>1, <2>2, PostMoves
  <1>7. CASE PatchPost
    <2>1. /\ PostTypeOK' /\ post'.status = post.status /\ post'.current = post.current
          /\ post'.from = post.from /\ post'.patched
      BY <1>t, <1>1, <1>7 DEF PostTypeOK, PatchPost
    <2>2. CaptionKept' /\ ~PostIs("NONE") /\ ~PostIs("NONE")'
      BY <1>7, <1>c, <2>1 DEF CaptionKept, PostIs, PatchPost, PostExists
    <2> QED
      BY <1>1, <2>1, <2>2, PostMoves
  <1> QED
    BY <1>2, <1>3, <1>4, <1>5, <1>6, <1>7
    DEF PostLifecycle, StartPost, SubmitPost, RejectPost, MovePost

\* Every step keeps the invariant.
LEMMA PostStep == PostIInv /\ [PostNext]_postVars => PostIInv'
  <1> SUFFICES ASSUME PostIInv, [PostNext]_postVars PROVE PostIInv'
    OBVIOUS
  <1>1. CASE UNCHANGED postVars
    BY <1>1
    DEF postVars, postTables, PostIInv, PostTypeOK, NothingPosted, VersionsThere, CaptionKept,
        DraftsShow, AuthorsKnow, Shows, Works, PostIs, At, AtWork
  <1> QED
    BY <1>1, PostRequestKeeps, PostLifecycleKeeps DEF PostNext

\* SocialService.approve and the authors: an approved post publishes the text of
\* its current version, and a picture and a record that its author meant.
THEOREM PostSpecPublishedAsMeant == PostSpec => []PublishedAsMeant
  <1>1. PostIInv => PublishedAsMeant
    BY DEF PostIInv, PublishedAsMeant, CaptionKept, VersionsThere, DraftsShow, Shows, PostIs
  <1> QED
    BY <1>1, PostInitial, PostStep, PTL DEF PostSpec

-----------------------------------------------------------------------------
(* BlogPipeline: the stages are passed in their order, a stage that         *)
(* generates is owned by the request that claimed it or was left by one     *)
(* that crashed, and what a gate of the workflow relies on (the final       *)
(* draft, the claims it counted, the submission) was true of the version it *)
(* names.                                                                   *)

\* The ranks of the stages: those a person approves, the draft, the SEO.
LEMMA BlogRanks ==
    /\ Draft \in Nat /\ Draft > 1 /\ Seo = Draft + 1 /\ Ranks = 1..Seo
    /\ Draft \in Ranks /\ Seo \in Ranks
    /\ \A k \in Ranks : k \in Nat /\ k > 0 /\ (k > 1 => k - 1 \in Ranks)
    /\ \A k \in Ranks : IsApproval(k) <=> k < Draft
  <1>1. Len(Approvals) \in Nat /\ Len(Approvals) > 0
    BY BlogAssumption, EmptySeq
  <1>2. Len(Order) = Len(Approvals) + 2
    BY BlogAssumption DEF Order
  <1> QED
    BY <1>1, <1>2 DEF Draft, Seo, Ranks, IsApproval

\* No stage has a job yet, and no request is in progress.
LEMMA BlogInitial == BlogInit => BlogIInv
  <1> SUFFICES ASSUME BlogInit PROVE BlogIInv
    OBVIOUS
  <1>1. /\ \A k \in Ranks : stage[k] = Pending
        /\ Pending = [status |-> "PENDING", job |-> "NONE", made |-> 0, basis |-> 0]
        /\ Claimed.status = "GENERATING"
    BY DEF BlogInit, Pending, Claimed
  <1>2. \A r \in Requests : req[r].pc = "idle"
    BY DEF BlogInit, Idle
  <1>3. Current = 1 /\ versions[1] = 0 /\ versions \in Seq(Nat) /\ draftVersion = 0 /\ ~belated
        /\ \A v \in 1..Current : versions[v] = 0
    BY DEF BlogInit, Current
  <1>4. BlogTypeOK
    <2>1. stage \in [Ranks -> StageType]
      BY <1>1 DEF BlogInit, StageType
    <2>2. gate \in [links : BOOLEAN, qa : BOOLEAN, score : {"NONE", "PASSED", "BELOW"}, scored : Nat]
      BY DEF BlogInit, GatesOpen
    <2>3. item \in [status : {"IN_PROGRESS", "REVIEW", "APPROVED", "ARCHIVED", "DELETED"},
                    from : {"NONE", "IN_PROGRESS", "REVIEW", "APPROVED"}, submitted : Nat]
      BY DEF BlogInit
    <2>4. /\ claims \in [Ranks -> Nat] /\ belated \in BOOLEAN /\ orphaned \subseteq Ranks
          /\ req \in [Requests -> BlogCalls \cup {Idle}]
      BY DEF BlogInit
    <2> QED
      BY <1>3, <2>1, <2>2, <2>3, <2>4 DEF BlogTypeOK
  <1>5. item.status = "IN_PROGRESS" /\ ~gate.qa /\ gate.score = "NONE" /\ \A k \in Ranks : claims[k] = 0
    BY DEF BlogInit, GatesOpen
  <1>6. GeneratingIsOwned /\ ClaimsCounted /\ SubmissionStands
    BY <1>1, <1>2, <1>5
    DEF GeneratingIsOwned, ClaimsCounted, SubmissionStands, Submitted, Generates
  <1>7. StagesInOrder /\ BasisKnown
    BY <1>1, <1>2 DEF StagesInOrder, BasisKnown, Generates
  <1>8. DraftTaken /\ GatesKnow
    BY <1>1, <1>3, <1>5, BlogRanks DEF DraftTaken, GatesKnow, Submitted
  <1> QED
    BY <1>4, <1>6, <1>7, <1>8 DEF BlogIInv

\* What a request holds at each of its steps.
LEMMA BlogCallFields ==
    ASSUME BlogTypeOK, NEW r \in Requests
    PROVE  /\ req[r].pc \in {"submit", "record"} =>
                  req[r].stage \in Ranks /\ req[r].made \in Nat /\ req[r].basis \in Nat
           /\ req[r].pc = "record" => req[r].ok \in BOOLEAN
           /\ req[r].pc = "scored" => req[r].score \in {"PASSED", "BELOW"} /\ req[r].version \in Nat
           /\ req[r].pc \in {"idle", "submit", "record", "link", "score", "review", "scored"}
  BY DEF BlogTypeOK, BlogCalls, Idle

\* The numbers that the invariant compares.
LEMMA BlogNumbers ==
    ASSUME BlogTypeOK
    PROVE  /\ Current \in Nat /\ draftVersion \in 0..Current
           /\ versions \in Seq(Nat) /\ \A v \in 1..Current : versions[v] \in Nat
           /\ \A k \in Ranks : claims[k] \in Nat /\ stage[k] \in StageType
           /\ \A k \in Ranks : stage[k].made \in Nat /\ stage[k].basis \in Nat
           /\ gate.qa \in BOOLEAN /\ gate.links \in BOOLEAN /\ belated \in BOOLEAN
           /\ gate.score \in {"NONE", "PASSED", "BELOW"} /\ gate.scored \in Nat
  BY DEF BlogTypeOK, Current, StageType

\* finalizeStages changes the status alone, of a stage whose job has ended.
LEMMA FinalStage ==
    ASSUME BlogTypeOK, NEW k \in Ranks
    PROVE  /\ FinalStages[k] \in StageType
           /\ FinalStages[k].job = stage[k].job
           /\ FinalStages[k].made = stage[k].made
           /\ FinalStages[k].basis = stage[k].basis
           /\ FinalStages[k].status =
                  IF stage[k].status = "APPROVED" THEN "APPROVED"
                  ELSE IF stage[k].job \in {"FAILED", "INVALID"} THEN "FAILED"
                  ELSE IF stage[k].job = "COMPLETED" THEN "READY"
                  ELSE stage[k].status
           /\ FinalStages[k] = Claimed <=> stage[k] = Claimed
  <1>1. stage[k] \in StageType
    BY BlogNumbers
  <1>2. FinalStages[k] = Finalized(k)
    BY DEF FinalStages
  <1> QED
    BY <1>1, <1>2 DEF Finalized, StageType, Claimed, Pending

\* A finalization adds at most the version of the draft.
LEMMA FinalVersion ==
    ASSUME BlogTypeOK
    PROVE  /\ FinalVersions \in Seq(Nat)
           /\ Len(FinalVersions) >= Current /\ Len(FinalVersions) \in Nat
           /\ FinalDraftVersion \in 0..Len(FinalVersions)
           /\ \A v \in 1..Current : FinalVersions[v] = versions[v]
           /\ ~Unmaterialized => FinalVersions = versions /\ FinalDraftVersion = draftVersion
           /\ Unmaterialized => FinalDraftVersion # 0
           /\ Unmaterialized /\ Materialized = {} =>
                  /\ Len(FinalVersions) = Current + 1 /\ FinalDraftVersion = Current + 1
                  /\ FinalVersions[Current + 1] = stage[Draft].made
  <1>1. stage[Draft].made \in Nat /\ versions \in Seq(Nat) /\ Current = Len(versions)
        /\ draftVersion \in 0..Current
    BY BlogNumbers, BlogRanks DEF Current
  <1>2. CASE ~Unmaterialized
    BY <1>1, <1>2 DEF FinalVersions, FinalDraftVersion
  <1>3. CASE Unmaterialized /\ Materialized = {}
    BY <1>1, <1>3 DEF FinalVersions, FinalDraftVersion
  <1>4. CASE Unmaterialized /\ Materialized # {}
    <2>1. FinalVersions = versions /\ FinalDraftVersion \in Materialized
      BY <1>4 DEF FinalVersions, FinalDraftVersion
    <2> QED
      BY <1>1, <1>4, <2>1 DEF Materialized
  <1> QED
    BY <1>2, <1>3, <1>4

\* A draft that is ready without a version is of a claim that has none: each
\* claim's number is new to the versions.
LEMMA NewToTheVersions ==
    ASSUME BlogIInv, ~belated, Unmaterialized
    PROVE  Materialized = {} /\ stage[Draft].made = claims[Draft] /\ draftVersion = 0
  <1>1. BlogTypeOK /\ StagesInOrder /\ DraftTaken
    BY DEF BlogIInv
  <1>2. FinalStages[Draft].status = "READY" /\ draftVersion = 0
    BY DEF Unmaterialized
  <1>3. stage[Draft].job = "COMPLETED" /\ stage[Draft].status # "PENDING"
    BY <1>1, <1>2, FinalStage, BlogRanks DEF StagesInOrder, DraftTaken
  <1>4. stage[Draft].made = claims[Draft]
    BY <1>1, <1>3, BlogRanks DEF StagesInOrder
  <1>5. \A v \in 1..Current : versions[v] # stage[Draft].made
    BY <1>1, <1>2, <1>3, <1>4, BlogNumbers, BlogRanks DEF DraftTaken
  <1> QED
    BY <1>2, <1>4, <1>5 DEF Materialized

\* A finalization leaves the status of a stage that was passed, or never claimed.
LEMMA FinalOrder ==
    ASSUME BlogIInv, ~belated, NEW k \in Ranks
    PROVE  /\ StagePassed(k) => FinalStages[k].status = stage[k].status
           /\ stage[k].status = "PENDING" => FinalStages[k].status = "PENDING"
           /\ FinalStages[k].status \in {"READY", "APPROVED"} => stage[k].job = "COMPLETED"
           /\ FinalStages[k].status = "PENDING" => stage[k].status = "PENDING"
  <1>1. BlogTypeOK /\ StagesInOrder
    BY DEF BlogIInv
  <1>2. StagePassed(k) => stage[k].status \in {"READY", "APPROVED"}
    BY DEF StagePassed
  <1> QED
    BY <1>1, <1>2, FinalStage DEF StagesInOrder

\* What is true of the draft and its versions is so of the finalized ones.
LEMMA FinalDraft ==
    ASSUME BlogIInv, ~belated
    PROVE  /\ FinalDraftVersion # 0 <=> FinalStages[Draft].status = "READY"
           /\ FinalDraftVersion # 0 =>
                  /\ FinalVersions[FinalDraftVersion] = stage[Draft].made
                  /\ \A v \in 1..Len(FinalVersions) : v > FinalDraftVersion => FinalVersions[v] = 0
           /\ \A v \in 1..Len(FinalVersions) :
                  /\ FinalVersions[v] <= claims[Draft]
                  /\ FinalDraftVersion = 0 /\ FinalStages[Draft].status # "PENDING"
                         => FinalVersions[v] < claims[Draft]
           /\ Len(FinalVersions) > 0
  <1>t. BlogTypeOK /\ StagesInOrder /\ DraftTaken
    BY DEF BlogIInv
  <1>1. CASE ~Unmaterialized
    <2>1. FinalVersions = versions /\ FinalDraftVersion = draftVersion
      BY <1>t, <1>1, FinalVersion
    <2>2. draftVersion # 0 => FinalStages[Draft].status = "READY"
      BY <1>t, FinalStage, BlogRanks DEF DraftTaken, StagesInOrder
    <2>3. draftVersion # 0 <=> FinalStages[Draft].status = "READY"
      BY <1>1, <2>2 DEF Unmaterialized
    <2>4. stage[Draft].status = "PENDING" => FinalStages[Draft].status = "PENDING"
      BY FinalOrder, BlogRanks
    <2> QED
      BY <1>t, <2>1, <2>3, <2>4, BlogRanks DEF DraftTaken, Current
  <1>2. CASE Unmaterialized
    <2>1. Materialized = {} /\ stage[Draft].made = claims[Draft] /\ draftVersion = 0
      BY <1>2, NewToTheVersions
    <2>2. /\ FinalDraftVersion = Current + 1 /\ Len(FinalVersions) = Current + 1 /\ Current \in Nat
          /\ FinalVersions[Current + 1] = stage[Draft].made
          /\ \A v \in 1..Current : FinalVersions[v] = versions[v]
      BY <1>t, <1>2, <2>1, FinalVersion, BlogNumbers
    <2>3. FinalStages[Draft].status = "READY" /\ claims[Draft] \in Nat
      BY <1>t, <1>2, BlogNumbers, BlogRanks DEF Unmaterialized
    <2>4. \A v \in 1..Current + 1 : v \in 1..Current \/ v = Current + 1
      BY <2>2
    <2>5. \A v \in 1..Current + 1 : FinalVersions[v] <= claims[Draft]
      BY <1>t, <2>1, <2>2, <2>3, <2>4 DEF DraftTaken
    <2> QED
      BY <2>1, <2>2, <2>3, <2>5
  <1> QED
    BY <1>1, <1>2

\* An operation that finalizes, may approve a stage or meet a gate, and generates
\* nothing.
LEMMA FinalizeKeeps ==
    ASSUME BlogIInv, Editable, UNCHANGED <<item, claims, belated, orphaned>>,
           stage' \in [Ranks -> StageType],
           \A k \in Ranks :
               \/ stage'[k] = FinalStages[k]
               \/ /\ IsApproval(k) /\ FinalStages[k].status = "READY"
                  /\ stage'[k] = [FinalStages[k] EXCEPT !.status = "APPROVED"],
           versions' = FinalVersions, draftVersion' = FinalDraftVersion,
           gate' \in {gate, [gate EXCEPT !.links = TRUE], [gate EXCEPT !.qa = TRUE]},
           gate' # [gate EXCEPT !.qa = TRUE] \/ FinalStages[Draft].status = "READY" \/ gate' = gate,
           req' \in [Requests -> BlogCalls \cup {Idle}],
           \A q \in Requests : req'[q] = req[q] \/ (~Generates(q) /\ ~Generates(q)')
    PROVE  BlogIInv'
  <1>t. BlogTypeOK /\ GeneratingIsOwned /\ ClaimsCounted /\ item.status = "IN_PROGRESS"
    BY DEF BlogIInv, Editable
  <1>g. /\ gate'.score = gate.score /\ gate'.scored = gate.scored
        /\ gate'.qa => gate.qa \/ FinalStages[Draft].status = "READY"
        /\ gate' \in [links : BOOLEAN, qa : BOOLEAN, score : {"NONE", "PASSED", "BELOW"}, scored : Nat]
    BY <1>t DEF BlogTypeOK
  <1>s. \A k \in Ranks : /\ stage'[k].job = stage[k].job /\ stage'[k].made = stage[k].made
                         /\ stage'[k].basis = stage[k].basis
                         /\ stage'[k] = Claimed => stage[k] = Claimed
                         /\ stage'[k].status = "PENDING" => stage[k].status = "PENDING"
                         /\ stage'[k].status \in {"READY", "APPROVED"} =>
                                stage[k].status = "APPROVED" \/ stage[k].job = "COMPLETED"
                                \/ stage[k].status = "READY"
    <2> TAKE k \in Ranks
    <2>1. FinalStages[k] \in StageType
      BY <1>t, FinalStage
    <2>2. CASE stage'[k] = FinalStages[k]
      BY <1>t, <2>2, FinalStage
    <2>3. CASE /\ IsApproval(k) /\ FinalStages[k].status = "READY"
               /\ stage'[k] = [FinalStages[k] EXCEPT !.status = "APPROVED"]
      <3>1. stage'[k].status = "APPROVED" /\ stage'[k].job = stage[k].job
            /\ stage'[k].made = stage[k].made /\ stage'[k].basis = stage[k].basis
        BY <1>t, <2>1, <2>3, FinalStage DEF StageType
      <3> QED
        BY <1>t, <2>3, <3>1, FinalStage DEF Claimed, Pending
    <2>4. \/ stage'[k] = FinalStages[k]
          \/ /\ IsApproval(k) /\ FinalStages[k].status = "READY"
             /\ stage'[k] = [FinalStages[k] EXCEPT !.status = "APPROVED"]
      OBVIOUS
    <2> QED
      BY <2>2, <2>3, <2>4
  <1>1. BlogTypeOK'
    <2>1. versions' \in Seq(Nat) /\ (draftVersion \in 0..Current)'
      BY <1>t, FinalVersion DEF Current
    <2> QED
      BY <1>t, <1>g, <2>1 DEF BlogTypeOK
  <1>2. GeneratingIsOwned'
    BY <1>t, <1>s DEF GeneratingIsOwned, NotDeleted, Generates
  <1>3. ClaimsCounted'
    BY <1>t DEF ClaimsCounted, Generates
  <1>4. SubmissionStands'
    BY <1>t DEF SubmissionStands, Submitted
  <1>5. ASSUME ~belated PROVE (StagesInOrder /\ BasisKnown /\ DraftTaken /\ GatesKnow)'
    <2>1. StagesInOrder /\ BasisKnown /\ DraftTaken /\ GatesKnow
      BY <1>5 DEF BlogIInv
    <2>2. StagesInOrder'
      <3> SUFFICES ASSUME NEW k \in Ranks
                   PROVE  /\ stage'[k].status = "PENDING" => stage'[k].job = "NONE"
                          /\ stage'[k].status \in {"READY", "APPROVED"} => stage'[k].job = "COMPLETED"
                          /\ stage'[k].job # "NONE" => stage'[k].made = claims[k] /\ claims[k] # 0
                          /\ k > 1 /\ stage'[k].status # "PENDING" => StagePassed(k - 1)'
                          /\ k > 1 /\ stage'[k].job # "NONE" => stage'[k].basis = stage'[k - 1].made
        BY DEF StagesInOrder
      <3>1. /\ stage[k].status = "PENDING" => stage[k].job = "NONE"
            /\ stage[k].status \in {"READY", "APPROVED"} => stage[k].job = "COMPLETED"
            /\ stage[k].job # "NONE" => stage[k].made = claims[k] /\ claims[k] # 0
            /\ k > 1 /\ stage[k].status # "PENDING" => StagePassed(k - 1)
            /\ k > 1 /\ stage[k].job # "NONE" => stage[k].basis = stage[k - 1].made
        BY <2>1 DEF StagesInOrder
      <3>2. stage[k].status = "PENDING" => stage'[k].status = "PENDING"
        BY <1>5, FinalOrder
      <3>3. k > 1 /\ StagePassed(k - 1) => StagePassed(k - 1)'
        <4> SUFFICES ASSUME k > 1, StagePassed(k - 1) PROVE StagePassed(k - 1)'
          OBVIOUS
        <4> DEFINE i == k - 1
        <4>1. i \in Ranks
          BY BlogRanks
        <4> HIDE DEF i
        <4>2. StagePassed(i)
          BY DEF i
        <4>3. stage'[i].status = stage[i].status
          BY <1>5, <4>1, <4>2, FinalOrder DEF StagePassed
        <4> QED
          BY <4>2, <4>3 DEF StagePassed, i
      <3> QED
        BY <1>s, <3>1, <3>2, <3>3, BlogRanks
    <2>3. BasisKnown'
      <3> SUFFICES ASSUME NEW q \in Requests, Generates(q)', stage'[req'[q].stage] = Claimed,
                          req'[q].made = claims[req'[q].stage]
                   PROVE  req'[q].stage = 1 \/ req'[q].basis = stage'[req'[q].stage - 1].made
        BY DEF BasisKnown
      <3>1. Generates(q) /\ req'[q] = req[q] /\ req[q].stage \in Ranks
        BY <1>t, BlogCallFields DEF Generates
      <3> QED
        BY <1>s, <2>1, <3>1, BlogRanks DEF BasisKnown
    <2>4. DraftTaken'
      <3>1. stage'[Draft] = FinalStages[Draft] /\ stage'[Draft].made = stage[Draft].made
        BY <1>s, BlogRanks
      <3> QED
        BY <1>5, <3>1, FinalDraft DEF DraftTaken, Current
    <2>5. GatesKnow'
      <3>1. gate.qa => draftVersion # 0
        BY <2>1 DEF GatesKnow
      <3>2. draftVersion # 0 => ~Unmaterialized
        BY DEF Unmaterialized
      <3>3. FinalStages[Draft].status = "READY" => draftVersion' # 0
        BY <1>5, FinalDraft
      <3>4. gate.qa => versions' = versions /\ draftVersion' = draftVersion
        BY <1>t, <3>1, <3>2, FinalVersion
      <3>5. gate'.qa => draftVersion' # 0
        BY <1>g, <3>1, <3>3, <3>4
      <3>6. gate.score # "NONE" => gate.qa /\ (ByPipeline => gate.scored = Current)
        BY <2>1 DEF GatesKnow
      <3>7. gate.qa => gate'.qa
        BY <1>t DEF BlogTypeOK
      <3>8. ~Submitted'
        BY <1>t DEF Submitted
      <3> QED
        BY <1>g, <3>4, <3>5, <3>6, <3>7, <3>8 DEF GatesKnow, ByPipeline, Current
    <2> QED
      BY <2>2, <2>3, <2>4, <2>5
  <1> QED
    BY <1>1, <1>2, <1>3, <1>4, <1>5 DEF BlogIInv
-----------------------------------------------------------------------------
\* A request that neither claims nor records moves on, or ends; a generation that
\* it gives up is left to nobody.
LEMMA BlogRequestMoves ==
    ASSUME BlogIInv, NEW r \in Requests, NEW c \in BlogCalls \cup {Idle},
           req' = [req EXCEPT ![r] = c],
           UNCHANGED <<stage, draftVersion, gate, versions, item, claims, belated>>,
           c.pc \in {"submit", "record"} =>
               Generates(r) /\ c.stage = req[r].stage /\ c.made = req[r].made /\ c.basis = req[r].basis,
           orphaned' = IF Generates(r) /\ c.pc \notin {"submit", "record"}
                       THEN orphaned \cup {req[r].stage} ELSE orphaned
    PROVE  BlogIInv'
  <1>t. BlogTypeOK
    BY DEF BlogIInv
  <1>r. \A q \in Requests : req'[q] = IF q = r THEN c ELSE req[q]
    BY <1>t DEF BlogTypeOK
  <1>1. BlogTypeOK'
    <2>1. Generates(r) => req[r].stage \in Ranks
      BY <1>t, BlogCallFields DEF Generates
    <2>2. orphaned' \subseteq Ranks /\ req' \in [Requests -> BlogCalls \cup {Idle}]
      BY <1>t, <2>1 DEF BlogTypeOK
    <2> QED
      BY <1>t, <2>2 DEF BlogTypeOK, Current
  <1>2. GeneratingIsOwned'
    <2> SUFFICES ASSUME NEW k \in Ranks, stage[k] = Claimed
                 PROVE  \/ k \in orphaned' \/ ~NotDeleted
                        \/ \E q \in Requests : Generates(q)' /\ req'[q].stage = k
      BY DEF GeneratingIsOwned, NotDeleted, Generates
    <2>1. \/ k \in orphaned \/ ~NotDeleted
          \/ \E q \in Requests : Generates(q) /\ req[q].stage = k
      BY DEF BlogIInv, GeneratingIsOwned, Generates
    <2>2. orphaned \subseteq orphaned'
      OBVIOUS
    <2>3. ASSUME NEW q \in Requests, Generates(q), req[q].stage = k
          PROVE  k \in orphaned' \/ (Generates(q)' /\ req'[q].stage = k)
      <3>1. CASE q # r
        BY <1>r, <2>3, <3>1 DEF Generates
      <3>2. CASE q = r /\ c.pc \in {"submit", "record"}
        BY <1>r, <2>3, <3>2 DEF Generates
      <3>3. CASE q = r /\ c.pc \notin {"submit", "record"}
        BY <2>3, <3>3
      <3> QED
        BY <3>1, <3>2, <3>3
    <2> QED
      BY <2>1, <2>2, <2>3
  <1>3. ClaimsCounted'
    BY <1>r DEF BlogIInv, ClaimsCounted, Generates
  <1>4. SubmissionStands'
    BY DEF BlogIInv, SubmissionStands, Submitted, Current
  <1>5. BasisKnown => BasisKnown'
    BY <1>r DEF BasisKnown, Generates
  <1>6. StagesInOrder /\ DraftTaken /\ GatesKnow => (StagesInOrder /\ DraftTaken /\ GatesKnow)'
    BY DEF StagesInOrder, DraftTaken, GatesKnow, StagePassed, Submitted, ByPipeline, Current
  <1> QED
    BY <1>1, <1>2, <1>3, <1>4, <1>5, <1>6 DEF BlogIInv

\* The item alone moves on, to be submitted or not.
LEMMA ItemMoves ==
    ASSUME BlogIInv, UNCHANGED <<stage, draftVersion, gate, versions, claims, orphaned>>,
           \A q \in Requests : req'[q] = req[q] \/ (~Generates(q) /\ ~Generates(q)'),
           BlogTypeOK', SubmissionStands', belated => belated',
           NotDeleted' => NotDeleted,
           ~belated' /\ Submitted' => Submitted \/ (gate.score = "PASSED" /\ \A k \in Ranks : StagePassed(k))
    PROVE  BlogIInv'
  <1>t. BlogTypeOK
    BY DEF BlogIInv
  <1>1. GeneratingIsOwned' /\ ClaimsCounted'
    BY DEF BlogIInv, GeneratingIsOwned, ClaimsCounted, Generates
  <1>2. ASSUME ~belated' PROVE (StagesInOrder /\ BasisKnown /\ DraftTaken /\ GatesKnow)'
    <2>1. ~belated /\ StagesInOrder /\ BasisKnown /\ DraftTaken /\ GatesKnow
      BY <1>2 DEF BlogIInv
    <2>2. StagesInOrder' /\ DraftTaken'
      BY <2>1 DEF StagesInOrder, DraftTaken, StagePassed, Current
    <2>3. BasisKnown'
      BY <2>1 DEF BasisKnown, Generates
    <2>4. GatesKnow'
      BY <1>2, <2>1 DEF GatesKnow, StagePassed, ByPipeline, Current
    <2> QED
      BY <2>2, <2>3, <2>4
  <1> QED
    BY <1>1, <1>2 DEF BlogIInv

\* A claim takes over what came before, and undoes what followed.
LEMMA ClaimStageKeeps ==
    ASSUME BlogIInv, NEW r \in Requests, NEW k \in Ranks, ClaimStage(r, k)
    PROVE  BlogIInv'
  <1>t. BlogTypeOK /\ item.status = "IN_PROGRESS" /\ req[r].pc = "idle"
    BY DEF BlogIInv, ClaimStage, Editable, Begin, At
  <1> DEFINE c == [pc |-> "submit", stage |-> k, made |-> claims[k] + 1,
                   basis |-> IF k = 1 THEN 0 ELSE FinalStages[k - 1].made]
  <1>1. /\ req' = [req EXCEPT ![r] = c] /\ stage' = ResetFrom(k) /\ gate' = GatesOpen
        /\ versions' = FinalVersions
        /\ draftVersion' = IF k <= Draft THEN 0 ELSE FinalDraftVersion
        /\ claims' = [claims EXCEPT ![k] = @ + 1] /\ orphaned' = orphaned \ (k..Seo)
        /\ UNCHANGED <<item, belated>> /\ Prerequisite(k)
    BY DEF ClaimStage, Begin, GatesReset
  <1>2. /\ claims[k] \in Nat /\ claims' \in [Ranks -> Nat] /\ claims'[k] = claims[k] + 1
        /\ \A i \in Ranks : i # k => claims'[i] = claims[i]
    BY <1>t, <1>1, BlogNumbers DEF BlogTypeOK
  <1>n. \A i \in Ranks : claims[i] \in Nat /\ claims'[i] \in Nat /\ claims'[i] >= claims[i]
    BY SMTT(30), <1>t, <1>2, BlogNumbers
  <1>3. k \in Nat /\ k > 0 /\ (k > 1 => k - 1 \in Ranks)
    BY BlogRanks
  <1>4. c \in BlogCalls
    <2>1. k > 1 => FinalStages[k - 1].made \in Nat
      BY <1>t, <1>3, FinalStage, BlogNumbers
    <2>2. (IF k = 1 THEN 0 ELSE FinalStages[k - 1].made) \in Nat
      BY <1>3, <2>1
    <2> QED
      BY <1>2, <2>2 DEF BlogCalls
  <1>r. \A q \in Requests : req'[q] = IF q = r THEN c ELSE req[q]
    BY <1>t, <1>1 DEF BlogTypeOK
  <1>k. /\ c.pc = "submit" /\ c.stage = k /\ c.made = claims'[k]
        /\ k # 1 => c.basis = FinalStages[k - 1].made
    BY <1>2
  <1> HIDE DEF c
  <1>s. /\ \A i \in Ranks : i < k => stage'[i] = FinalStages[i]
        /\ stage'[k] = Claimed
        /\ \A i \in Ranks : i > k => stage'[i] = Pending
        /\ stage' \in [Ranks -> StageType]
    <2>1. \A i \in Ranks : stage'[i] = IF i < k THEN FinalStages[i]
                                       ELSE IF i = k THEN Claimed ELSE Pending
      BY <1>1, BlogRanks DEF ResetFrom
    <2>2. Claimed \in StageType /\ Pending \in StageType
      BY DEF Claimed, Pending, StageType
    <2>3. \A i \in Ranks : stage'[i] \in StageType
      BY <1>t, <2>1, <2>2, FinalStage
    <2>4. stage' = [i \in Ranks |-> stage'[i]]
      BY <1>1 DEF ResetFrom
    <2> QED
      BY <1>3, <2>1, <2>3, <2>4, BlogRanks
  <1>p. /\ Pending.status = "PENDING" /\ Pending.job = "NONE" /\ Pending # Claimed
        /\ Claimed.status = "GENERATING" /\ Claimed.job = "NONE"
    BY DEF Claimed, Pending
  <1>5. BlogTypeOK'
    <2>1. versions' \in Seq(Nat) /\ (draftVersion \in 0..Current)'
      BY <1>t, <1>1, FinalVersion DEF Current
    <2>2. gate' \in [links : BOOLEAN, qa : BOOLEAN, score : {"NONE", "PASSED", "BELOW"}, scored : Nat]
      BY <1>1 DEF GatesOpen
    <2>3. orphaned' \subseteq Ranks /\ req' \in [Requests -> BlogCalls \cup {Idle}]
      BY <1>t, <1>1, <1>4 DEF BlogTypeOK
    <2> QED
      BY <1>t, <1>1, <1>2, <1>s, <2>1, <2>2, <2>3 DEF BlogTypeOK
  <1>6. GeneratingIsOwned'
    <2> SUFFICES ASSUME NEW i \in Ranks, stage'[i] = Claimed, NotDeleted
                 PROVE  i \in orphaned' \/ \E q \in Requests : Generates(q)' /\ req'[q].stage = i
      BY <1>1 DEF GeneratingIsOwned, NotDeleted, Generates
    <2>1. CASE i < k
      <3>1. stage[i] = Claimed
        BY <1>t, <1>s, <2>1, FinalStage
      <3>2. i \in orphaned \/ \E q \in Requests : Generates(q) /\ req[q].stage = i
        BY <3>1 DEF BlogIInv, GeneratingIsOwned, Generates
      <3> QED
        BY <1>t, <1>1, <1>r, <2>1, <3>2, BlogRanks DEF Generates
    <2>2. CASE i = k
      BY <1>r, <1>k, <2>2 DEF Generates
    <2>3. CASE i > k
      BY <1>s, <1>p, <2>3
    <2> QED
      BY <1>3, <2>1, <2>2, <2>3, BlogRanks
  <1>7. ClaimsCounted'
    <2> SUFFICES ASSUME NEW q \in Requests, Generates(q)'
                 PROVE  req'[q].made \in 1..claims'[req'[q].stage]
      BY DEF ClaimsCounted
    <2>1. CASE q = r
      BY <1>2, <1>r, <1>k, <2>1
    <2>2. CASE q # r
      <3>1. Generates(q) /\ req'[q] = req[q] /\ req[q].stage \in Ranks
        BY <1>t, <1>r, <2>2, BlogCallFields DEF Generates
      <3>2. req[q].made \in 1..claims[req[q].stage]
        BY <3>1 DEF BlogIInv, ClaimsCounted
      <3>3. claims[req[q].stage] \in Nat /\ claims'[req[q].stage] \in Nat
            /\ claims'[req[q].stage] >= claims[req[q].stage]
        BY <1>n, <3>1
      <3> QED
        BY <3>1, <3>2, <3>3
    <2> QED
      BY <2>1, <2>2
  <1>8. SubmissionStands'
    BY <1>t, <1>1 DEF SubmissionStands, Submitted
  <1>9. ASSUME ~belated PROVE (StagesInOrder /\ BasisKnown /\ DraftTaken /\ GatesKnow)'
    <2>1. StagesInOrder /\ BasisKnown /\ DraftTaken
      BY <1>9 DEF BlogIInv
    <2>2. StagesInOrder'
      <3> SUFFICES ASSUME NEW i \in Ranks
                   PROVE  /\ stage'[i].status = "PENDING" => stage'[i].job = "NONE"
                          /\ stage'[i].status \in {"READY", "APPROVED"} => stage'[i].job = "COMPLETED"
                          /\ stage'[i].job # "NONE" => stage'[i].made = claims'[i] /\ claims'[i] # 0
                          /\ i > 1 /\ stage'[i].status # "PENDING" => StagePassed(i - 1)'
                          /\ i > 1 /\ stage'[i].job # "NONE" => stage'[i].basis = stage'[i - 1].made
        BY DEF StagesInOrder
      <3>1. CASE i < k
        <4>1. stage'[i] = FinalStages[i] /\ claims'[i] = claims[i] /\ i \in Nat
          BY <1>2, <1>s, <3>1, BlogRanks
        <4>2. /\ stage[i].status = "PENDING" => stage[i].job = "NONE"
              /\ stage[i].job # "NONE" => stage[i].made = claims[i] /\ claims[i] # 0
              /\ i > 1 /\ stage[i].status # "PENDING" => StagePassed(i - 1)
              /\ i > 1 /\ stage[i].job # "NONE" => stage[i].basis = stage[i - 1].made
          BY <2>1 DEF StagesInOrder
        <4>3. ASSUME i > 1 PROVE /\ StagePassed(i - 1) => StagePassed(i - 1)'
                                 /\ stage'[i - 1].made = stage[i - 1].made
          <5>1. i - 1 \in Ranks /\ i - 1 < k
            BY <1>3, <3>1, <4>1, <4>3, BlogRanks
          <5>2. stage'[i - 1] = FinalStages[i - 1]
            BY <1>s, <5>1
          <5> QED
            BY <1>t, <1>9, <5>1, <5>2, FinalStage, FinalOrder DEF StagePassed
        <4> QED
          BY <1>t, <1>9, <4>1, <4>2, <4>3, FinalStage, FinalOrder
      <3>2. CASE i = k
        <4>1. ASSUME k > 1 PROVE StagePassed(k - 1)'
          <5>1. k - 1 \in Ranks /\ stage'[k - 1] = FinalStages[k - 1]
            BY <1>3, <1>s, <4>1
          <5>2. CASE k <= Draft
            <6>1. FinalStages[k - 1].status = "APPROVED" /\ k - 1 < Draft
              BY <1>1, <1>3, <4>1, <5>2, BlogRanks DEF Prerequisite
            <6> QED
              BY <5>1, <6>1, BlogRanks DEF StagePassed
          <5>3. CASE ~(k <= Draft)
            <6>1. FinalStages[Draft].status = "READY" /\ k - 1 = Draft
              BY <1>1, <1>3, <4>1, <5>3, BlogRanks DEF Prerequisite
            <6>2. ~IsApproval(k - 1)
              BY <5>1, <6>1, BlogRanks
            <6> QED
              BY <5>1, <6>1, <6>2 DEF StagePassed
          <5> QED
            BY <5>2, <5>3
        <4> QED
          BY <1>s, <1>p, <3>2, <4>1
      <3>3. CASE i > k
        BY <1>s, <1>p, <3>3
      <3> QED
        BY <1>3, <3>1, <3>2, <3>3, BlogRanks
    <2>3. BasisKnown'
      <3> SUFFICES ASSUME NEW q \in Requests, Generates(q)', stage'[req'[q].stage] = Claimed,
                          req'[q].made = claims'[req'[q].stage]
                   PROVE  req'[q].stage = 1 \/ req'[q].basis = stage'[req'[q].stage - 1].made
        BY DEF BasisKnown
      <3>1. CASE q = r
        <4>1. req'[q] = c
          BY <1>r, <3>1
        <4>2. k # 1 => k - 1 \in Ranks /\ k - 1 < k
          BY <1>3
        <4> QED
          BY <1>k, <1>s, <4>1, <4>2
      <3>2. CASE q # r
        <4>1. Generates(q) /\ req'[q] = req[q] /\ req[q].stage \in Ranks
          BY <1>t, <1>r, <3>2, BlogCallFields DEF Generates
        <4>2. req[q].made <= claims[req[q].stage]
          BY <4>1 DEF BlogIInv, ClaimsCounted
        <4>3. req[q].made \in Nat
          BY <1>t, <4>1, BlogCallFields DEF Generates
        <4>4. req[q].stage < k
          BY <1>2, <1>3, <1>s, <1>p, <4>1, <4>2, <4>3, BlogRanks
        <4>5. stage[req[q].stage] = Claimed /\ req[q].made = claims[req[q].stage]
          <5>1. PICK i \in Ranks : i = req[q].stage
            BY <4>1
          <5>2. i < k /\ i \in Nat
            BY <4>4, <5>1, BlogRanks
          <5>3. stage'[i] = FinalStages[i] /\ claims'[i] = claims[i]
            BY <1>2, <1>s, <5>2, BlogRanks
          <5>4. /\ stage'[req[q].stage] = FinalStages[req[q].stage]
                /\ claims'[req[q].stage] = claims[req[q].stage]
            BY <5>1, <5>3
          <5>5. FinalStages[req[q].stage] = Claimed /\ req[q].made = claims[req[q].stage]
            BY <4>1, <5>4
          <5> QED
            BY <1>t, <4>1, <5>5, FinalStage
        <4>6. req[q].stage = 1 \/ req[q].basis = stage[req[q].stage - 1].made
          BY <2>1, <4>1, <4>5 DEF BasisKnown
        <4>7. ASSUME req[q].stage # 1
              PROVE  stage'[req[q].stage - 1].made = stage[req[q].stage - 1].made
          <5>1. req[q].stage - 1 \in Ranks /\ req[q].stage - 1 < k
            BY <1>3, <4>1, <4>4, <4>7, BlogRanks
          <5> QED
            BY <1>t, <1>s, <5>1, FinalStage
        <4> QED
          BY <4>1, <4>6, <4>7
      <3> QED
        BY <3>1, <3>2
    <2>4. DraftTaken'
      <3>1. CASE k <= Draft
        <4>1. draftVersion' = 0 /\ stage'[Draft].status # "READY"
          BY <1>1, <1>3, <1>s, <1>p, <3>1, BlogRanks
        <4>2. \A v \in 1..Current' : versions'[v] <= claims[Draft] /\ versions'[v] \in Nat
          BY <1>t, <1>1, <1>9, FinalDraft, FinalVersion DEF Current
        <4>3. claims[Draft] \in Nat /\ claims'[Draft] \in Nat /\ claims'[Draft] >= claims[Draft]
              /\ (k = Draft => claims'[Draft] > claims[Draft])
          <5>1. Draft \in Ranks /\ \A j \in Ranks : claims[j] \in Nat
            BY <1>t, BlogNumbers, BlogRanks
          <5>2. claims[Draft] \in Nat /\ claims'[Draft] \in Nat
            BY <1>2, <5>1
          <5> QED
            BY <1>2, <5>1, <5>2
        <4>4. k # Draft => stage'[Draft].status = "PENDING"
          BY <1>3, <1>s, <1>p, <3>1, BlogRanks
        <4>5. Current' > 0
          BY <1>1, <1>9, FinalDraft DEF Current
        <4> QED
          BY <4>1, <4>2, <4>3, <4>4, <4>5 DEF DraftTaken
      <3>2. CASE ~(k <= Draft)
        <4>1. draftVersion' = FinalDraftVersion /\ Draft < k
          BY <1>1, <1>3, <3>2, BlogRanks
        <4>2. stage'[Draft] = FinalStages[Draft] /\ claims'[Draft] = claims[Draft]
              /\ FinalStages[Draft].made = stage[Draft].made
          BY <1>t, <1>2, <1>3, <1>s, <4>1, FinalStage, BlogRanks
        <4> QED
          BY <1>1, <1>9, <4>1, <4>2, FinalDraft DEF DraftTaken, Current
      <3> QED
        BY <3>1, <3>2
    <2>5. GatesKnow'
      <3>1. ~gate'.qa /\ gate'.score = "NONE" /\ ~Submitted'
        BY <1>t, <1>1 DEF GatesOpen, Submitted
      <3> QED
        BY <3>1 DEF GatesKnow
    <2> QED
      BY <2>2, <2>3, <2>4, <2>5
  <1> QED
    BY <1>1, <1>5, <1>6, <1>7, <1>8, <1>9 DEF BlogIInv
\* A stage alone changes, to a row of the same claim: what it records, or how its
\* job ended.
LEMMA StageMoves ==
    ASSUME BlogIInv, NEW k \in Ranks, NEW row \in StageType,
           stage' = [stage EXCEPT ![k] = row], row # Claimed,
           UNCHANGED <<draftVersion, gate, versions, item, claims, orphaned>>,
           req' \in [Requests -> BlogCalls \cup {Idle}],
           \A q \in Requests : \/ req'[q] = req[q]
                               \/ ~Generates(q)' /\ (Generates(q) => req[q].stage = k),
           belated' \in BOOLEAN, belated => belated',
           ~belated' =>
               /\ stage[k].status \notin {"PENDING", "READY", "APPROVED"}
               /\ row.status \notin {"PENDING", "READY", "APPROVED"}
               /\ row.job # "NONE" => row.made = claims[k] /\ claims[k] # 0
               /\ row.job # "NONE" /\ k > 1 => row.basis = stage[k - 1].made
    PROVE  BlogIInv'
  <1>t. BlogTypeOK
    BY DEF BlogIInv
  <1>s. /\ stage'[k] = row /\ \A i \in Ranks : i # k => stage'[i] = stage[i]
        /\ stage' \in [Ranks -> StageType]
    BY <1>t DEF BlogTypeOK
  <1>1. BlogTypeOK'
    BY <1>t, <1>s DEF BlogTypeOK, Current
  <1>2. GeneratingIsOwned'
    <2> SUFFICES ASSUME NEW i \in Ranks, stage'[i] = Claimed, NotDeleted
                 PROVE  i \in orphaned \/ \E q \in Requests : Generates(q)' /\ req'[q].stage = i
      BY DEF GeneratingIsOwned, NotDeleted, Generates
    <2>1. i # k /\ stage[i] = Claimed
      BY <1>s
    <2>2. i \in orphaned \/ \E q \in Requests : Generates(q) /\ req[q].stage = i
      BY <2>1 DEF BlogIInv, GeneratingIsOwned, Generates
    <2> QED
      BY <2>1, <2>2 DEF Generates
  <1>3. ClaimsCounted'
    BY DEF BlogIInv, ClaimsCounted, Generates
  <1>4. SubmissionStands'
    BY DEF BlogIInv, SubmissionStands, Submitted, Current
  <1>5. ASSUME ~belated' PROVE (StagesInOrder /\ BasisKnown /\ DraftTaken /\ GatesKnow)'
    <2>1. StagesInOrder /\ BasisKnown /\ DraftTaken /\ GatesKnow /\ ~belated
      BY <1>5 DEF BlogIInv
    <2>2. ~StagePassed(k) /\ ~StagePassed(k)'
      BY <1>5, <1>s DEF StagePassed
    <2>3. \A i \in Ranks : i > 1 /\ i - 1 = k => stage[i].status = "PENDING" /\ stage[i].job = "NONE"
      <3> TAKE i \in Ranks
      <3> HAVE i > 1 /\ i - 1 = k
      <3>1. stage[i].status # "PENDING" => StagePassed(k)
        BY <2>1 DEF StagesInOrder
      <3> QED
        BY <2>1, <2>2, <3>1 DEF StagesInOrder
    <2>4. StagesInOrder'
      <3> SUFFICES ASSUME NEW i \in Ranks
                   PROVE  /\ stage'[i].status = "PENDING" => stage'[i].job = "NONE"
                          /\ stage'[i].status \in {"READY", "APPROVED"} => stage'[i].job = "COMPLETED"
                          /\ stage'[i].job # "NONE" => stage'[i].made = claims'[i] /\ claims'[i] # 0
                          /\ i > 1 /\ stage'[i].status # "PENDING" => StagePassed(i - 1)'
                          /\ i > 1 /\ stage'[i].job # "NONE" => stage'[i].basis = stage'[i - 1].made
        BY DEF StagesInOrder
      <3>1. /\ stage[i].status = "PENDING" => stage[i].job = "NONE"
            /\ stage[i].status \in {"READY", "APPROVED"} => stage[i].job = "COMPLETED"
            /\ stage[i].job # "NONE" => stage[i].made = claims[i] /\ claims[i] # 0
            /\ i > 1 /\ stage[i].status # "PENDING" => StagePassed(i - 1)
            /\ i > 1 /\ stage[i].job # "NONE" => stage[i].basis = stage[i - 1].made
        BY <2>1 DEF StagesInOrder
      <3>2. ASSUME i > 1, i - 1 # k
            PROVE  stage'[i - 1] = stage[i - 1] /\ (StagePassed(i - 1) => StagePassed(i - 1)')
        BY <1>s, <3>2, BlogRanks DEF StagePassed
      <3>3. CASE i = k
        <4>1. k > 1 => k - 1 # k
          BY BlogRanks
        <4> QED
          BY <1>5, <1>s, <3>1, <3>2, <3>3, <4>1
      <3>4. CASE i # k
        <4>1. stage'[i] = stage[i]
          BY <1>s, <3>4
        <4> QED
          BY <2>3, <3>1, <3>2, <4>1
      <3> QED
        BY <3>3, <3>4
    <2>5. BasisKnown'
      <3> SUFFICES ASSUME NEW q \in Requests, Generates(q)', stage'[req'[q].stage] = Claimed,
                          req'[q].made = claims[req'[q].stage]
                   PROVE  req'[q].stage = 1 \/ req'[q].basis = stage'[req'[q].stage - 1].made
        BY DEF BasisKnown
      <3>1. Generates(q) /\ req'[q] = req[q] /\ req[q].stage \in Ranks
        BY <1>t, BlogCallFields DEF Generates
      <3>2. stage[req[q].stage] = Claimed /\ req[q].stage # k
        BY <1>s, <3>1
      <3>3. req[q].stage = 1 \/ req[q].basis = stage[req[q].stage - 1].made
        BY <2>1, <3>1, <3>2 DEF BasisKnown
      <3>4. req[q].stage # 1 => req[q].stage - 1 \in Ranks /\ req[q].stage - 1 # k
        BY <2>3, <3>1, <3>2, BlogRanks DEF Claimed, Pending
      <3> QED
        BY <1>s, <3>1, <3>3, <3>4
    <2>6. DraftTaken'
      <3>1. CASE k = Draft
        <4>1. draftVersion = 0 /\ stage[Draft].status # "PENDING" /\ stage'[Draft].status # "READY"
          BY <1>5, <1>s, <2>1, <3>1 DEF DraftTaken
        <4> QED
          BY <2>1, <4>1 DEF DraftTaken, Current
      <3>2. CASE k # Draft
        <4>1. stage'[Draft] = stage[Draft]
          BY <1>s, <3>2, BlogRanks
        <4> QED
          BY <2>1, <4>1 DEF DraftTaken, Current
      <3> QED
        BY <3>1, <3>2
    <2>7. GatesKnow'
      <3>1. ~Submitted /\ ~Submitted'
        BY <2>1, <2>2 DEF GatesKnow, Submitted
      <3> QED
        BY <2>1, <3>1 DEF GatesKnow, ByPipeline, Current
    <2> QED
      BY <2>4, <2>5, <2>6, <2>7
  <1> QED
    BY <1>1, <1>2, <1>3, <1>4, <1>5 DEF BlogIInv

\* The job, or its failure, is recorded; in time, if the claim still stands.
LEMMA RecordJobKeeps ==
    ASSUME BlogIInv, NEW r \in Requests, RecordJob(r)
    PROVE  BlogIInv'
  <1> DEFINE k == req[r].stage
             row == StageRecorded(r, stage[k])
  <1>t. BlogTypeOK /\ req[r].pc = "record" /\ Generates(r)
    BY DEF BlogIInv, RecordJob, At, Generates
  <1>f. k \in Ranks /\ req[r].made \in Nat /\ req[r].basis \in Nat /\ req[r].ok \in BOOLEAN
    BY <1>t, BlogCallFields
  <1>1. /\ stage' = [stage EXCEPT ![k] = row]
        /\ belated' = (belated \/ stage[k] # Claimed \/ claims[k] # req[r].made \/ ~Editable)
        /\ req' = [req EXCEPT ![r] = Idle]
        /\ UNCHANGED <<draftVersion, gate, versions, item, claims, orphaned>>
    BY DEF RecordJob, Done
  <1>2. /\ req' \in [Requests -> BlogCalls \cup {Idle}] /\ Idle.pc = "idle"
        /\ \A q \in Requests : req'[q] = IF q = r THEN Idle ELSE req[q]
    BY <1>t, <1>1 DEF BlogTypeOK, Idle
  <1>3. req[r].made \in 1..claims[k] /\ claims[k] \in Nat /\ stage[k] \in StageType
    BY <1>t, <1>f, BlogNumbers DEF BlogIInv, ClaimsCounted
  <1>4. row \in StageType /\ row.status \in {"GENERATING", "FAILED"} /\ row # Claimed
        /\ (row.status = "GENERATING" => row.made = req[r].made /\ row.basis = req[r].basis)
        /\ (row.status = "FAILED" => row.job = stage[k].job)
    BY <1>f, <1>3 DEF StageRecorded, SubmissionFailed, StageType, Claimed, Pending
  <1>5. Claimed.status = "GENERATING" /\ Claimed.job = "NONE"
    BY DEF Claimed, Pending
  <1>6. ASSUME ~belated'
        PROVE  /\ stage[k].status = "GENERATING"
               /\ row.job # "NONE" => row.made = claims[k] /\ claims[k] # 0
               /\ row.job # "NONE" /\ k > 1 => row.basis = stage[k - 1].made
    <2>1. ~belated /\ stage[k] = Claimed /\ claims[k] = req[r].made
      BY <1>1, <1>6
    <2>2. k = 1 \/ req[r].basis = stage[k - 1].made
      BY <1>t, <2>1 DEF BlogIInv, BasisKnown
    <2> QED
      BY <1>3, <1>4, <1>5, <2>1, <2>2
  <1>7. belated' \in BOOLEAN /\ (belated => belated')
    BY <1>1
  <1> HIDE DEF row
  <1> QED
    BY <1>f, <1>1, <1>2, <1>4, <1>6, <1>7, StageMoves DEF Generates

\* A job ends; its stage takes no notice before the next finalization.
LEMMA JobEndsKeeps ==
    ASSUME BlogIInv, NEW k \in Ranks, JobEnds(k)
    PROVE  BlogIInv'
  <1>t. BlogTypeOK /\ stage[k] \in StageType /\ stage[k].job \in {"QUEUED", "FAILED"}
    BY BlogNumbers DEF BlogIInv, JobEnds
  <1> PICK end \in {"COMPLETED", "INVALID", "FAILED"} : stage' = [stage EXCEPT ![k].job = end]
    BY DEF JobEnds
  <1> DEFINE row == [stage[k] EXCEPT !.job = end]
  <1>1. /\ row \in StageType /\ row.job # "NONE" /\ row.status = stage[k].status
        /\ row.made = stage[k].made /\ row.basis = stage[k].basis
    BY <1>t DEF StageType
  <1>2. row # Claimed
    BY <1>1 DEF Claimed, Pending
  <1>3. stage' = [stage EXCEPT ![k] = row]
        /\ UNCHANGED <<draftVersion, gate, versions, item, claims, belated, orphaned, req>>
    BY DEF JobEnds
  <1>4. ASSUME ~belated
        PROVE  /\ stage[k].status \notin {"PENDING", "READY", "APPROVED"}
               /\ stage[k].made = claims[k] /\ claims[k] # 0
               /\ k > 1 => stage[k].basis = stage[k - 1].made
    BY <1>t, <1>4 DEF BlogIInv, StagesInOrder
  <1>5. req \in [Requests -> BlogCalls \cup {Idle}] /\ belated \in BOOLEAN
    BY <1>t DEF BlogTypeOK
  <1>6. /\ req' \in [Requests -> BlogCalls \cup {Idle}] /\ belated' \in BOOLEAN
        /\ belated => belated' /\ \A q \in Requests : req'[q] = req[q]
    BY <1>3, <1>5
  <1>7. ~belated' => /\ stage[k].status \notin {"PENDING", "READY", "APPROVED"}
                     /\ row.status \notin {"PENDING", "READY", "APPROVED"}
                     /\ row.made = claims[k] /\ claims[k] # 0
                     /\ k > 1 => row.basis = stage[k - 1].made
    BY <1>1, <1>3, <1>4
  <1>8. UNCHANGED <<draftVersion, gate, versions, item, claims, orphaned>>
    BY <1>3
  <1> HIDE DEF row
  <1> QED
    BY <1>1, <1>2, <1>3, <1>6, <1>7, <1>8, StageMoves

\* A score is recorded; in time, if the checks still hold and the version is
\* still the current one.
LEMMA ScoreRecordKeeps ==
    ASSUME BlogIInv, NEW r \in Requests, ScoreRecord(r)
    PROVE  BlogIInv'
  <1>t. BlogTypeOK /\ req[r].pc = "scored"
    BY DEF BlogIInv, ScoreRecord, At
  <1>f. req[r].score \in {"PASSED", "BELOW"} /\ req[r].version \in Nat
    BY <1>t, BlogCallFields
  <1>1. /\ gate' = [gate EXCEPT !.score = req[r].score, !.scored = req[r].version]
        /\ belated' = (belated \/ ~gate.qa \/ ~Editable \/ req[r].version # Current)
        /\ req' = [req EXCEPT ![r] = Idle]
        /\ UNCHANGED <<stage, draftVersion, versions, item, claims, orphaned>>
    BY DEF ScoreRecord, Done
  <1>2. \A q \in Requests : req'[q] = IF q = r THEN Idle ELSE req[q]
    BY <1>t, <1>1 DEF BlogTypeOK
  <1>3. Idle.pc = "idle"
    BY DEF Idle
  <1>4. \A q \in Requests : req'[q] = req[q] \/ (~Generates(q) /\ ~Generates(q)')
    BY <1>t, <1>2, <1>3 DEF Generates
  <1>5. /\ gate' \in [links : BOOLEAN, qa : BOOLEAN, score : {"NONE", "PASSED", "BELOW"}, scored : Nat]
        /\ gate'.qa = gate.qa /\ gate'.scored = req[r].version
    BY <1>t, <1>f, <1>1 DEF BlogTypeOK
  <1>6. BlogTypeOK'
    BY <1>t, <1>1, <1>5 DEF BlogTypeOK, Current
  <1>7. GeneratingIsOwned' /\ ClaimsCounted' /\ SubmissionStands'
    BY <1>1, <1>4
    DEF BlogIInv, GeneratingIsOwned, ClaimsCounted, SubmissionStands, Submitted, NotDeleted,
        Generates, Current
  <1>8. ASSUME ~belated' PROVE (StagesInOrder /\ BasisKnown /\ DraftTaken /\ GatesKnow)'
    <2>1. ~belated /\ gate.qa /\ Editable /\ req[r].version = Current
          /\ StagesInOrder /\ BasisKnown /\ DraftTaken /\ GatesKnow
      BY <1>1, <1>8 DEF BlogIInv
    <2>2. StagesInOrder' /\ DraftTaken'
      BY <1>1, <2>1 DEF StagesInOrder, DraftTaken, StagePassed, Current
    <2>3. BasisKnown'
      BY <1>1, <1>4, <2>1 DEF BasisKnown, Generates
    <2>4. ~Submitted'
      BY <1>1, <2>1 DEF Editable, Submitted
    <2>5. GatesKnow'
      BY <1>1, <1>5, <2>1, <2>4 DEF GatesKnow, Current
    <2> QED
      BY <2>2, <2>3, <2>5
  <1> QED
    BY <1>6, <1>7, <1>8 DEF BlogIInv

\* The submission, which looks at the status only, is in time if the gates are
\* still met.
LEMMA SubmitForReviewKeeps ==
    ASSUME BlogIInv, NEW r \in Requests, SubmitForReview(r)
    PROVE  BlogIInv'
  <1>t. BlogTypeOK /\ req[r].pc = "review" /\ item.status = "IN_PROGRESS"
    BY DEF BlogIInv, SubmitForReview, At, Editable
  <1>1. /\ item' = [item EXCEPT !.status = "REVIEW", !.submitted = Current]
        /\ belated' = (belated \/ ~GatesMet(stage, draftVersion))
        /\ req' = [req EXCEPT ![r] = Idle]
        /\ UNCHANGED <<stage, draftVersion, gate, versions, claims, orphaned>>
    BY DEF SubmitForReview, Done
  <1>2. \A q \in Requests : req'[q] = IF q = r THEN Idle ELSE req[q]
    BY <1>t, <1>1 DEF BlogTypeOK
  <1>3. Idle.pc = "idle"
    BY DEF Idle
  <1>4. \A q \in Requests : req'[q] = req[q] \/ (~Generates(q) /\ ~Generates(q)')
    BY <1>t, <1>2, <1>3 DEF Generates
  <1>5. item'.status = "REVIEW" /\ item'.submitted = Current
        /\ item' \in [status : {"IN_PROGRESS", "REVIEW", "APPROVED", "ARCHIVED", "DELETED"},
                     from : {"NONE", "IN_PROGRESS", "REVIEW", "APPROVED"}, submitted : Nat]
    BY <1>t, <1>1, BlogNumbers DEF BlogTypeOK
  <1>6. BlogTypeOK'
    BY <1>t, <1>1, <1>5 DEF BlogTypeOK, Current
  <1>7. SubmissionStands' /\ NotDeleted
    BY <1>t, <1>1, <1>5 DEF SubmissionStands, NotDeleted, Current
  <1>8. ~belated' => gate.score = "PASSED" /\ \A k \in Ranks : StagePassed(k)
    BY <1>1 DEF GatesMet, StagePassed
  <1>9. belated => belated'
    BY <1>1
  <1> QED
    BY <1>1, <1>4, <1>6, <1>7, <1>8, <1>9, ItemMoves

\* A person's version is never the pipeline's.
LEMMA CreateContentVersionKeeps ==
    ASSUME BlogIInv, CreateContentVersion
    PROVE  BlogIInv'
  <1>t. BlogTypeOK /\ item.status = "IN_PROGRESS"
    BY DEF BlogIInv, CreateContentVersion, VersionAllowed, Editable
  <1>1. versions' = Append(versions, 0)
        /\ UNCHANGED <<stage, draftVersion, gate, item, claims, belated, orphaned, req>>
    BY DEF CreateContentVersion
  <1>2. /\ Current' = Current + 1 /\ versions'[Current + 1] = 0 /\ versions' \in Seq(Nat)
        /\ \A v \in 1..Current : versions'[v] = versions[v]
    BY <1>t, <1>1, BlogNumbers DEF Current
  <1>n. Current \in Nat /\ draftVersion \in 0..Current
    BY <1>t, BlogNumbers
  <1>3. BlogTypeOK'
    <2>1. (draftVersion \in 0..Current)'
      BY <1>1, <1>2, <1>n
    <2> QED
      BY <1>t, <1>1, <1>2, <2>1 DEF BlogTypeOK
  <1>4. GeneratingIsOwned' /\ ClaimsCounted'
    BY <1>1 DEF BlogIInv, GeneratingIsOwned, ClaimsCounted, NotDeleted, Generates
  <1>5. SubmissionStands' /\ ~Submitted'
    BY <1>t, <1>1 DEF SubmissionStands, Submitted
  <1>6. ASSUME ~belated PROVE (StagesInOrder /\ BasisKnown /\ DraftTaken /\ GatesKnow)'
    <2>1. StagesInOrder /\ BasisKnown /\ DraftTaken /\ GatesKnow
      BY <1>6 DEF BlogIInv
    <2>2. StagesInOrder' /\ BasisKnown'
      BY <1>1, <2>1 DEF StagesInOrder, BasisKnown, StagePassed, Generates
    <2>3. claims[Draft] \in Nat /\ stage' = stage /\ draftVersion' = draftVersion /\ claims' = claims
      BY <1>t, <1>1, BlogNumbers, BlogRanks
    <2>4. \A v \in 1..Current' : v \in 1..Current \/ v = Current + 1
      BY <1>2, <1>n
    <2>5. draftVersion = 0 /\ stage[Draft].status # "PENDING" => 0 < claims[Draft]
      <3>1. 1 \in 1..Current /\ versions[1] \in Nat
        BY <1>t, <1>n, <2>1, BlogNumbers DEF DraftTaken
      <3> QED
        BY <2>1, <2>3, <3>1 DEF DraftTaken
    <2>6. DraftTaken'
      <3>1. /\ Current' > 0
            /\ draftVersion' # 0 <=> stage'[Draft].status = "READY"
        BY <1>2, <1>n, <2>1, <2>3 DEF DraftTaken
      <3>2. draftVersion' # 0 =>
                /\ versions'[draftVersion'] = stage'[Draft].made
                /\ \A v \in 1..Current' : v > draftVersion' => versions'[v] = 0
        BY SMTT(30), <1>2, <1>n, <2>1, <2>3, <2>4 DEF DraftTaken
      <3>3. \A v \in 1..Current' :
                /\ versions'[v] <= claims'[Draft]
                /\ draftVersion' = 0 /\ stage'[Draft].status # "PENDING" => versions'[v] < claims'[Draft]
        BY <1>2, <1>n, <2>1, <2>3, <2>4, <2>5 DEF DraftTaken
      <3> QED
        BY <3>1, <3>2, <3>3 DEF DraftTaken
    <2>7. ~ByPipeline'
      <3>1. Current + 1 \in 2..Current'
        BY <1>2, <1>n, <2>1 DEF DraftTaken
      <3> QED
        BY <1>2, <3>1 DEF ByPipeline
    <2>8. GatesKnow'
      BY <1>1, <1>5, <2>1, <2>7 DEF GatesKnow
    <2> QED
      BY <2>2, <2>6, <2>8
  <1> QED
    BY <1>1, <1>3, <1>4, <1>5, <1>6 DEF BlogIInv

\* Every step keeps the invariant.
LEMMA BlogStep == BlogIInv /\ [BlogNext]_blogVars => BlogIInv'
  <1> SUFFICES ASSUME BlogIInv, [BlogNext]_blogVars PROVE BlogIInv'
    OBVIOUS
  <1>t. BlogTypeOK /\ SubmissionStands
    BY DEF BlogIInv
  <1>i. Idle.pc = "idle"
    BY DEF Idle
  <1>1. ASSUME NEW r \in Requests, SubmitJob(r) PROVE BlogIInv'
    <2> PICK ok \in BOOLEAN :
             req' = [req EXCEPT ![r] = [pc |-> "record", stage |-> req[r].stage, ok |-> ok,
                                        made |-> req[r].made, basis |-> req[r].basis]]
      BY <1>1 DEF SubmitJob
    <2> DEFINE c == [pc |-> "record", stage |-> req[r].stage, ok |-> ok,
                     made |-> req[r].made, basis |-> req[r].basis]
    <2>1. req[r].pc = "submit" /\ Generates(r)
      BY <1>1 DEF SubmitJob, At, Generates
    <2>2. c \in BlogCalls
      BY <1>t, <2>1, BlogCallFields DEF BlogCalls
    <2>3. /\ c.pc = "record" /\ c.stage = req[r].stage /\ c.made = req[r].made
          /\ c.basis = req[r].basis /\ req' = [req EXCEPT ![r] = c]
      OBVIOUS
    <2>4. UNCHANGED <<stage, draftVersion, gate, versions, item, claims, belated, orphaned>>
      BY <1>1 DEF SubmitJob, blogTables
    <2> HIDE DEF c
    <2> QED
      BY <2>1, <2>2, <2>3, <2>4, BlogRequestMoves
  <1>2. ASSUME NEW r \in Requests, Score(r) PROVE BlogIInv'
    <2> PICK verdict \in {"PASSED", "BELOW"} :
             req' = [req EXCEPT ![r] = [pc |-> "scored", score |-> verdict, version |-> Current]]
      BY <1>2 DEF Score
    <2> DEFINE c == [pc |-> "scored", score |-> verdict, version |-> Current]
    <2>1. ~Generates(r)
      BY <1>2 DEF Score, At, Generates
    <2>2. c \in BlogCalls /\ c.pc = "scored" /\ req' = [req EXCEPT ![r] = c]
      BY <1>t, BlogNumbers DEF BlogCalls
    <2>3. UNCHANGED <<stage, draftVersion, gate, versions, item, claims, belated, orphaned>>
      BY <1>2 DEF Score, blogTables
    <2> HIDE DEF c
    <2> QED
      BY <2>1, <2>2, <2>3, BlogRequestMoves
  <1>3. ASSUME NEW r \in Requests, BlogAbort(r) PROVE BlogIInv'
    BY <1>3, <1>i, BlogRequestMoves DEF BlogAbort, Done, Generates
  <1>4. ASSUME Editable, UNCHANGED <<item, claims, belated, orphaned>>,
               NEW g \in {gate, [gate EXCEPT !.links = TRUE], [gate EXCEPT !.qa = TRUE]},
               g = [gate EXCEPT !.qa = TRUE] => FinalStages[Draft].status = "READY" \/ g = gate,
               FinalizeAnd(FinalStages, g),
               req' \in [Requests -> BlogCalls \cup {Idle}],
               \A q \in Requests : req'[q] = req[q] \/ (~Generates(q) /\ ~Generates(q)')
        PROVE  BlogIInv'
    <2>1. stage' = FinalStages /\ gate' = g /\ versions' = FinalVersions /\ draftVersion' = FinalDraftVersion
      BY <1>4 DEF FinalizeAnd
    <2>2. FinalStages \in [Ranks -> StageType]
      <3>1. FinalStages = [k \in Ranks |-> FinalStages[k]]
        BY DEF FinalStages
      <3> QED
        BY <1>t, <3>1, FinalStage
    <2> QED
      BY <1>4, <2>1, <2>2, FinalizeKeeps
  <1>5. ASSUME NEW r \in Requests, NEW c \in BlogCalls \cup {Idle}, ~Generates(r),
               c.pc \notin {"submit", "record"}, req' = [req EXCEPT ![r] = c]
        PROVE  /\ req' \in [Requests -> BlogCalls \cup {Idle}]
               /\ \A q \in Requests : req'[q] = req[q] \/ (~Generates(q) /\ ~Generates(q)')
    <2>1. \A q \in Requests : req'[q] = IF q = r THEN c ELSE req[q]
      BY <1>t, <1>5 DEF BlogTypeOK
    <2>2. req' \in [Requests -> BlogCalls \cup {Idle}]
      BY <1>t, <1>5 DEF BlogTypeOK
    <2> QED
      BY <1>5, <2>1, <2>2 DEF Generates
  <1>6. ASSUME NEW r \in Requests, NEW label \in {"link", "score", "review"}, Editable,
               Finalize, Step(r, label)
        PROVE  BlogIInv'
    <2> DEFINE c == [pc |-> label]
    <2>1. /\ c \in BlogCalls /\ c.pc \notin {"submit", "record"} /\ req' = [req EXCEPT ![r] = c]
          /\ ~Generates(r) /\ UNCHANGED <<item, claims, belated, orphaned>>
          /\ FinalizeAnd(FinalStages, gate)
      BY <1>6 DEF BlogCalls, Step, Begin, At, Generates, Finalize
    <2> HIDE DEF c
    <2> QED
      BY <1>4, <1>5, <1>6, <2>1
  <1>7. ASSUME NEW r \in Requests, LinkingRecord(r) PROVE BlogIInv'
    <2>1. /\ Editable /\ FinalizeAnd(FinalStages, [gate EXCEPT !.links = TRUE]) /\ ~Generates(r)
          /\ req' = [req EXCEPT ![r] = Idle] /\ UNCHANGED <<item, claims, belated, orphaned>>
      BY <1>7 DEF LinkingRecord, At, Done, Generates
    <2>2. [gate EXCEPT !.links = TRUE] = [gate EXCEPT !.qa = TRUE] => [gate EXCEPT !.links = TRUE] = gate
      BY <1>t DEF BlogTypeOK
    <2> QED
      BY <1>i, <1>4, <1>5, <2>1, <2>2
  <1>8. ASSUME RunQa PROVE BlogIInv'
    <2>1. /\ Editable /\ FinalizeAnd(FinalStages, [gate EXCEPT !.qa = TRUE])
          /\ FinalStages[Draft].status = "READY" /\ UNCHANGED <<item, claims, belated, orphaned, req>>
      BY <1>8 DEF RunQa
    <2>2. req' \in [Requests -> BlogCalls \cup {Idle}]
      BY <1>t, <2>1 DEF BlogTypeOK
    <2> QED
      BY <1>4, <2>1, <2>2
  <1>9. ASSUME NEW r \in Requests, AssertReadyForReview(r) PROVE BlogIInv'
    <2>1. CASE Step(r, "review")
      BY <1>6, <1>9, <2>1 DEF AssertReadyForReview
    <2>2. CASE UNCHANGED <<item, claims, belated, orphaned, req>>
      <3>1. Editable /\ FinalizeAnd(FinalStages, gate)
        BY <1>9 DEF AssertReadyForReview, Finalize
      <3>2. req' \in [Requests -> BlogCalls \cup {Idle}]
        BY <1>t, <2>2 DEF BlogTypeOK
      <3> QED
        BY <1>4, <2>2, <3>1, <3>2
    <2> QED
      BY <1>9, <2>1, <2>2 DEF AssertReadyForReview
  <1>10. ASSUME NEW k \in Ranks, ApproveGeneration(k) PROVE BlogIInv'
    <2>1. /\ IsApproval(k) /\ Editable /\ FinalStages[k].status = "READY"
          /\ stage' = [FinalStages EXCEPT ![k].status = "APPROVED"] /\ gate' = gate
          /\ versions' = FinalVersions /\ draftVersion' = FinalDraftVersion
          /\ UNCHANGED <<item, claims, belated, orphaned, req>>
      BY <1>10 DEF ApproveGeneration, FinalizeAnd
    <2> DEFINE row == [FinalStages[k] EXCEPT !.status = "APPROVED"]
    <2>2. row \in StageType
      BY <1>t, FinalStage DEF StageType
    <2>3. FinalStages = [i \in Ranks |-> FinalStages[i]]
      BY DEF FinalStages
    <2>4. stage' = [FinalStages EXCEPT ![k] = row]
      BY <2>1
    <2>5. /\ stage' \in [Ranks -> StageType] /\ stage'[k] = row
          /\ \A i \in Ranks : i # k => stage'[i] = FinalStages[i]
      <3> HIDE DEF row
      <3> QED
        BY <1>t, <2>2, <2>3, <2>4, FinalStage
    <2>6. req' \in [Requests -> BlogCalls \cup {Idle}]
      BY <1>t, <2>1 DEF BlogTypeOK
    <2> QED
      BY <2>1, <2>5, <2>6, FinalizeKeeps
  <1>11. ASSUME NEW to \in {"IN_PROGRESS", "REVIEW", "APPROVED", "ARCHIVED", "DELETED"},
                NEW from \in {"NONE", "IN_PROGRESS", "REVIEW", "APPROVED"},
                item' = [item EXCEPT !.status = to, !.from = from],
                UNCHANGED <<stage, draftVersion, gate, versions, claims, belated, orphaned, req>>,
                item.status # "DELETED", to = "ARCHIVED" => from # "NONE",
                Submitted' => Submitted
         PROVE  BlogIInv'
    <2>1. item'.submitted = item.submitted /\ item'.status = to /\ item'.from = from
          /\ item' \in [status : {"IN_PROGRESS", "REVIEW", "APPROVED", "ARCHIVED", "DELETED"},
                       from : {"NONE", "IN_PROGRESS", "REVIEW", "APPROVED"}, submitted : Nat]
      BY <1>t, <1>11 DEF BlogTypeOK
    <2>2. BlogTypeOK'
      BY <1>t, <1>11, <2>1 DEF BlogTypeOK, Current
    <2>3. SubmissionStands' /\ NotDeleted
      BY <1>t, <1>11, <2>1 DEF SubmissionStands, NotDeleted, Current
    <2> QED
      BY <1>11, <2>2, <2>3, ItemMoves
  <1>12. CASE Approve \/ Reject \/ ArchiveItem \/ RestoreItem \/ RemoveItem
    <2>t. item \in [status : {"IN_PROGRESS", "REVIEW", "APPROVED", "ARCHIVED", "DELETED"},
                   from : {"NONE", "IN_PROGRESS", "REVIEW", "APPROVED"}, submitted : Nat]
      BY <1>t DEF BlogTypeOK
    <2>u. UNCHANGED <<stage, draftVersion, gate, versions, claims, belated, orphaned, req>>
      BY <1>12 DEF Approve, Reject, ArchiveItem, RestoreItem, RemoveItem, Editorial
    <2>s. item.status = "ARCHIVED" => item.from # "NONE"
      BY <1>t DEF SubmissionStands
    <2> DEFINE Moved(to, from) == item' = [item EXCEPT !.status = to, !.from = from]
    <2>1. CASE Approve
      <3>1. Moved("APPROVED", item.from) /\ item.status = "REVIEW" /\ item'.status = "APPROVED"
        BY <2>t, <2>1 DEF Approve, Editorial
      <3> QED
        BY <1>11, <2>t, <2>u, <3>1 DEF Submitted
    <2>2. CASE Reject
      <3>1. Moved("IN_PROGRESS", item.from) /\ item.status = "REVIEW" /\ item'.status = "IN_PROGRESS"
        BY <2>t, <2>2 DEF Reject, Editorial
      <3> QED
        BY <1>11, <2>t, <2>u, <3>1 DEF Submitted
    <2>3. CASE ArchiveItem
      <3>1. /\ Moved("ARCHIVED", item.status) /\ item.status \in {"IN_PROGRESS", "REVIEW", "APPROVED"}
            /\ item'.status = "ARCHIVED" /\ item'.from = item.status
        BY <2>t, <2>3 DEF ArchiveItem, Editorial
      <3> QED
        BY <1>11, <2>t, <2>u, <3>1 DEF Submitted
    <2>4. CASE RestoreItem
      <3>1. /\ Moved(item.from, "NONE") /\ item.status = "ARCHIVED"
            /\ item'.status = item.from /\ item'.from = "NONE"
        BY <2>t, <2>4 DEF RestoreItem, Editorial
      <3>2. item.from \in {"IN_PROGRESS", "REVIEW", "APPROVED"}
        BY <2>t, <2>s, <3>1
      <3> QED
        BY <1>11, <2>t, <2>u, <3>1, <3>2 DEF Submitted
    <2>5. CASE RemoveItem
      <3>1. Moved("DELETED", item.from) /\ item.status # "DELETED" /\ item'.status = "DELETED"
        BY <2>t, <2>5 DEF RemoveItem, Editorial, NotDeleted
      <3> QED
        BY <1>11, <2>t, <2>u, <3>1 DEF Submitted
    <2> QED
      BY <1>12, <2>1, <2>2, <2>3, <2>4, <2>5
  <1>13. ASSUME NEW r \in Requests, LinkingCheck(r) \/ ScoringCheck(r) PROVE BlogIInv'
    BY <1>6, <1>13 DEF LinkingCheck, ScoringCheck
  <1>14. CASE UNCHANGED blogVars
    <2>1. UNCHANGED <<stage, draftVersion, gate, versions, claims, orphaned, item, belated, req>>
      BY <1>14 DEF blogVars, blogTables
    <2>2. BlogTypeOK' /\ SubmissionStands' /\ (NotDeleted' => NotDeleted) /\ (Submitted' => Submitted)
      BY <1>t, <2>1 DEF BlogTypeOK, SubmissionStands, Submitted, NotDeleted, Current
    <2> QED
      BY <2>1, <2>2, ItemMoves
  <1>15. ASSUME NEW r \in Requests, BlogRequest(r) PROVE BlogIInv'
    BY <1>1, <1>2, <1>3, <1>7, <1>9, <1>13, <1>15, ClaimStageKeeps, RecordJobKeeps, ScoreRecordKeeps,
       SubmitForReviewKeeps
    DEF BlogRequest
  <1> QED
    BY <1>8, <1>10, <1>12, <1>14, <1>15, JobEndsKeeps, CreateContentVersionKeeps DEF BlogNext

\* BlogPipelineService: a stage that is GENERATING has a job that will end or a
\* request that will record one, unless that request died.
THEOREM BlogSpecGeneratingIsOwned == BlogSpec => []GeneratingIsOwned
  <1>1. BlogIInv => GeneratingIsOwned
    BY DEF BlogIInv
  <1> QED
    BY <1>1, BlogInitial, BlogStep, PTL DEF BlogSpec

\* BlogPipelineService and BlogService: what is under review is the version that
\* was submitted, scored and made of approved artifacts.
THEOREM BlogSpecGatesHonest == BlogSpec => []GatesHonest
  <1>1. BlogIInv => GatesHonest
    <2> SUFFICES ASSUME BlogIInv, item.status \in {"REVIEW", "APPROVED"}
                 PROVE  /\ item.submitted = Current
                        /\ ~belated /\ ByPipeline =>
                              /\ gate.score = "PASSED" /\ gate.scored = Current
                              /\ draftVersion = Current /\ versions[Current] = stage[Draft].made
                              /\ \A k \in Ranks \ {1} : stage[k].basis = stage[k - 1].made
      BY DEF GatesHonest
    <2>t. BlogTypeOK /\ Submitted
      BY DEF BlogIInv, Submitted
    <2>1. item.submitted = Current
      BY <2>t DEF BlogIInv, SubmissionStands
    <2>2. ASSUME ~belated, ByPipeline
          PROVE  /\ gate.score = "PASSED" /\ gate.scored = Current
                 /\ draftVersion = Current /\ versions[Current] = stage[Draft].made
                 /\ \A k \in Ranks \ {1} : stage[k].basis = stage[k - 1].made
      <3>1. StagesInOrder /\ DraftTaken /\ GatesKnow
        BY <2>2 DEF BlogIInv
      <3>2. gate.score = "PASSED" /\ gate.scored = Current /\ draftVersion # 0
            /\ \A k \in Ranks : StagePassed(k)
        BY <2>t, <2>2, <3>1 DEF GatesKnow
      <3>3. draftVersion = Current
        <4>1. Current \in Nat /\ draftVersion \in 1..Current
          BY <2>t, <3>2, BlogNumbers
        <4>2. ASSUME draftVersion # Current PROVE FALSE
          <5>1. Current \in 2..Current /\ Current > draftVersion /\ Current \in 1..Current
            BY <4>1, <4>2
          <5>2. versions[Current] # 0
            BY <2>2, <5>1 DEF ByPipeline
          <5> QED
            BY <3>1, <3>2, <5>1, <5>2 DEF DraftTaken
        <4> QED
          BY <4>2
      <3>4. versions[Current] = stage[Draft].made
        BY <3>1, <3>2, <3>3 DEF DraftTaken
      <3>5. ASSUME NEW k \in Ranks \ {1} PROVE stage[k].basis = stage[k - 1].made
        <4>1. stage[k].job # "NONE"
          BY <3>1, <3>2, <3>5 DEF StagePassed, StagesInOrder
        <4> QED
          BY <3>1, <3>5, <4>1, BlogRanks DEF StagesInOrder
      <3> QED
        BY <3>2, <3>3, <3>4, <3>5
    <2> QED
      BY <2>1, <2>2
  <1> QED
    BY <1>1, BlogInitial, BlogStep, PTL DEF BlogSpec
=============================================================================
