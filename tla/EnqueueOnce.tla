----------------------------- MODULE EnqueueOnce -----------------------------
(* BackgroundJobsService.enqueue under one idempotency key: the response     *)
(* cache in Redis, the two partial unique indexes of background_jobs, and    *)
(* the dispatch, by requests that repeat, overlap and die.                   *)
(*                                                                           *)
(* A request of workspace or platform scope carries a payload, which stands  *)
(* for its fingerprint (the job type and the canonical payload). Jobs are    *)
(* never deleted. Left out: what happens to a job after its dispatch         *)
(* (BackgroundJobs has it), and the validation of the payload.               *)
EXTENDS Naturals, Sequences, ApiRequests

CONSTANTS
    JobScopes,      \* workspaces, and Platform for a job without one
    Platform,
    Payloads,
    MaxKeyed        \* bound on the rows, never reached with one key

VARIABLES
    keyed,       \* the rows with the key, by id: scope, payload, calls of Queue.add
    remembered,  \* the cache by scope: fingerprint and job, or None
    answers      \* what requests were told: scope, payload, and the job or Mismatch (history)

keyedTables == <<keyed, remembered, answers>>
keyedVars   == <<keyedTables, req>>

Mismatch == 0    \* 409 IDEMPOTENCY_KEY_PAYLOAD_MISMATCH

EnqueueInit ==
    /\ keyed = <<>> /\ remembered = [s \in JobScopes |-> None] /\ answers = {}
    /\ req = [r \in Requests |-> Idle]

Answer(scope, payload, job) ==
    answers' = answers \cup {[scope |-> scope, payload |-> payload, job |-> job]}

\* The original, if the request is the same one, else a conflict.
Replayed(payload, original, job) == IF payload = original THEN job ELSE Mismatch

-----------------------------------------------------------------------------
\* The cache key has the scope in it. (A definition marked Slip is a plausible
\* mistake in the one after it; the checks must notice it.)
CacheOfAny(scope)  == {remembered[s] : s \in JobScopes}   \* Slip: the key alone
CacheEntry(scope)  == {remembered[scope]}

\* checkIdempotencyCache: an expired entry and an unreachable Redis are a miss.
\* A hit is answered without a look at the database but for the row itself.
CheckCache(r) == \E s \in JobScopes, p \in Payloads : \E hit \in CacheEntry(s) \cup {None} :
    /\ IF hit = None
       THEN Begin(r, [pc |-> "create", scope |-> s, payload |-> p]) /\ UNCHANGED answers
       ELSE At(r, "idle") /\ Answer(s, p, Replayed(p, hit.fingerprint, hit.job)) /\ UNCHANGED req
    /\ UNCHANGED <<keyed, remembered>>

\* The partial unique indexes. One index over both columns would not do.
NullsDistinct(n, s) == s # Platform /\ keyed[n].scope = s   \* Slip: DEFECT-1F-003
SameKey(n, s)       == keyed[n].scope = s
Violated(s)         == \E n \in DOMAIN keyed : SameKey(n, s)

CreateKeyed(r) ==
    /\ At(r, "create")
    /\ IF Violated(req[r].scope)
       THEN Goto(r, "lookup") /\ UNCHANGED keyed
       ELSE /\ Len(keyed) < MaxKeyed
            /\ keyed' = Append(keyed, [scope |-> req[r].scope, payload |-> req[r].payload, added |-> 0])
            /\ req' = [req EXCEPT ![r] = [pc |-> "dispatch", scope |-> req[r].scope,
                                          payload |-> req[r].payload, job |-> Len(keyed) + 1]]
    /\ UNCHANGED <<remembered, answers>>

\* findFirst outside of the transaction that failed; a replay returns at once.
DispatchReplay(r, n) ==   \* Slip: a replay is dispatched again
    /\ UNCHANGED answers
    /\ req' = [req EXCEPT ![r] = [pc |-> "dispatch", scope |-> req[r].scope,
                                  payload |-> req[r].payload, job |-> n]]
ReturnReplay(r, n)   ==
    /\ Answer(req[r].scope, req[r].payload, Replayed(req[r].payload, keyed[n].payload, n))
    /\ Done(r)

LookUp(r) ==
    /\ At(r, "lookup") /\ UNCHANGED <<keyed, remembered>>
    /\ \E n \in DOMAIN keyed : keyed[n].scope = req[r].scope /\ ReturnReplay(r, n)

\* Queue.add; one that throws, applied or not, ends the request with an error.
Dispatch(r) ==
    /\ At(r, "dispatch") /\ UNCHANGED <<remembered, answers>>
    /\ \/ keyed' = [keyed EXCEPT ![req[r].job].added = @ + 1] /\ (Goto(r, "cache") \/ Done(r))
       \/ UNCHANGED keyed /\ Done(r)

\* cacheIdempotencyResult, whose failure is only logged.
CacheResult(r) ==
    /\ At(r, "cache") /\ UNCHANGED keyed
    /\ \/ remembered' = [remembered EXCEPT ![req[r].scope] =
                             [fingerprint |-> req[r].payload, job |-> req[r].job]]
       \/ UNCHANGED remembered
    /\ Answer(req[r].scope, req[r].payload, req[r].job) /\ Done(r)

\* The API dies; a job it created may never be dispatched.
EnqueueDies(r) == ~At(r, "idle") /\ Done(r) /\ UNCHANGED keyedTables

EnqueueNext == \E r \in Requests :
    \/ CheckCache(r) \/ CreateKeyed(r) \/ LookUp(r) \/ Dispatch(r) \/ CacheResult(r)
    \/ EnqueueDies(r)

EnqueueSpec == EnqueueInit /\ [][EnqueueNext]_keyedVars

-----------------------------------------------------------------------------
(* Properties                                                                *)

\* "Never a silent replay of the wrong result and never a second logical job",
\* with or without the cache: in each scope a key is one job, put into its queue
\* by one request at most (the broker may have forgotten the first entry by the
\* time of a replay); whoever is given a job asked for that very job, in that
\* scope, and is refused only if the key was used for another one.
OneRow      == \A n, k \in DOMAIN keyed : keyed[n].scope = keyed[k].scope => n = k
AddedOnce   == \A n \in DOMAIN keyed : keyed[n].added <= 1
AnswersTrue == \A a \in answers : \E n \in DOMAIN keyed :
    /\ keyed[n].scope = a.scope
    /\ IF a.job = Mismatch THEN keyed[n].payload # a.payload
                           ELSE n = a.job /\ keyed[n].payload = a.payload

OneJobPerKey == OneRow /\ AddedOnce /\ AnswersTrue

-----------------------------------------------------------------------------
(* The inductive invariant behind it: what a request, the cache and an       *)
(* answer know of the rows stays true, for a row never changes its scope or  *)
(* its payload.                                                              *)

KeyedCall == [pc : {"create", "lookup"}, scope : JobScopes, payload : Payloads]
KeyedJob  == [pc : {"dispatch", "cache"}, scope : JobScopes, payload : Payloads, job : Nat]

EnqueueTypeOK ==
    /\ keyed \in Seq([scope : JobScopes, payload : Payloads, added : Nat])
    /\ remembered \in [JobScopes -> {None} \cup [fingerprint : Payloads, job : Nat]]
    /\ req \in [Requests -> {Idle} \cup KeyedCall \cup KeyedJob]

RowIs(n, s, p) == n \in DOMAIN keyed /\ keyed[n].scope = s /\ keyed[n].payload = p

CacheKnows == \A s \in JobScopes : remembered[s] # None =>
                  RowIs(remembered[s].job, s, remembered[s].fingerprint)
JobKnown   == \A r \in Requests : req[r].pc \in {"dispatch", "cache"} =>
                  RowIs(req[r].job, req[r].scope, req[r].payload)

\* Nobody dispatches a job but the request that created it.
Creator == \A r \in Requests : At(r, "dispatch") =>
               /\ keyed[req[r].job].added = 0
               /\ \A q \in Requests : At(q, "dispatch") /\ req[q].job = req[r].job => q = r

EnqueueIInv == /\ EnqueueTypeOK /\ OneRow /\ AddedOnce /\ CacheKnows /\ JobKnown
               /\ Creator /\ AnswersTrue
=============================================================================
