--------------------------- MODULE EventConsumers ----------------------------
(* One domain event and one consumer of it, whose job is delivered again and *)
(* again and to several workers at once: wrapTransactionalConsumer (category *)
(* A, whose effect is in the database) and wrapExternalEffectConsumer        *)
(* (category B, whose effect is a call to some other system), with the       *)
(* adapters that bind them to the database.                                  *)
(*                                                                           *)
(* The transaction of category A is READ COMMITTED; what it writes shows     *)
(* when it commits. The event and its payload are left out: one that does    *)
(* not validate ends the attempt before anything is read or written.         *)
EXTENDS Naturals, FiniteSets

CONSTANTS
    Workers,       \* attempts in progress at the same time
    MaxDeliveries  \* bound: attempts in a behaviour

ASSUME ConsumerAssumption == MaxDeliveries \in Nat

VARIABLES
    category,   \* "A" or "B"
    processed,  \* whether the processed_events row exists
    effects,    \* effects of category A that were committed
    keys,       \* idempotency keys the other system was called with
    attempt,    \* each worker: its next step
    delivered,  \* bound: attempts so far; each has its number
    succeeded   \* whether some attempt was reported as a success

consumerVars == <<category, processed, effects, keys, attempt, delivered, succeeded>>

NoAttempt == [pc |-> "idle", number |-> 0]
Does(w, label) == attempt[w].pc = label
Step(w, label) == attempt' = [attempt EXCEPT ![w].pc = label]
Over(w)        == attempt' = [attempt EXCEPT ![w] = NoAttempt]

ConsumerInit ==
    /\ category \in {"A", "B"}
    /\ processed = FALSE /\ effects = 0 /\ keys = {}
    /\ attempt = [w \in Workers |-> NoAttempt]
    /\ delivered = 0 /\ succeeded = FALSE

\* A delivery of the job; loadAndValidateDomainEvent.
DeliverEvent(w) ==
    /\ Does(w, "idle") /\ delivered < MaxDeliveries
    /\ delivered' = delivered + 1
    /\ attempt' = [attempt EXCEPT ![w] =
          [pc |-> IF category = "A" THEN "lock" ELSE "find", number |-> delivered + 1]]
    /\ UNCHANGED <<category, processed, effects, keys, succeeded>>

\* pg_advisory_xact_lock waits for whoever holds it, until that commits.
Holding(w) == category = "A" /\ attempt[w].pc \in {"find", "execute", "record"}

Acquire(w) ==
    /\ Does(w, "lock") /\ \A v \in Workers : ~Holding(v)
    /\ Step(w, "find")
    /\ UNCHANGED <<category, processed, effects, keys, delivered, succeeded>>

\* ALREADY_PROCESSED is a success as well.
FindProcessed(w) ==
    /\ Does(w, "find")
    /\ \/ processed /\ succeeded' = TRUE /\ Over(w)
       \/ ~processed /\ Step(w, "execute") /\ UNCHANGED succeeded
    /\ UNCHANGED <<category, processed, effects, keys, delivered>>

OutsideOfIt == effects + 1       \* Slip: written by another client than the tx
WithinTx    == effects           \* nothing shows before the commit

\* deriveExternalIdempotencyKey: the event and the consumer, nothing else.
KeyOfAttempt(w) == attempt[w].number   \* Slip: a key for each attempt
EventKey(w)     == 0

\* The business callback returns, or throws; the call of category B may then
\* have had its effect all the same.
ExecuteInTx(w) ==
    /\ category = "A" /\ Does(w, "execute")
    /\ effects' = WithinTx
    /\ Step(w, "record") \/ Over(w)
    /\ UNCHANGED <<category, processed, keys, delivered, succeeded>>

ExecuteOutside(w) ==
    /\ category = "B" /\ Does(w, "execute")
    /\ \/ keys' = keys \cup {EventKey(w)} /\ (Step(w, "record") \/ Over(w))
       \/ UNCHANGED keys /\ Over(w)
    /\ UNCHANGED <<category, processed, effects, delivered, succeeded>>

\* The row that says so, and with it, for category A, the commit, whose reply may
\* be lost. The unique constraint fails the attempt that comes second.
Record(w) ==
    /\ Does(w, "record")
    /\ \/ /\ ~processed
          /\ processed' = TRUE /\ succeeded' \in {succeeded, TRUE}
          /\ effects' = IF category = "A" THEN effects + 1 ELSE effects
       \/ UNCHANGED <<processed, succeeded, effects>>
    /\ Over(w)
    /\ UNCHANGED <<category, keys, delivered>>

\* The worker dies, or the database ends the transaction.
LoseAttempt(w) ==
    /\ ~Does(w, "idle") /\ Over(w)
    /\ UNCHANGED <<category, processed, effects, keys, delivered, succeeded>>

ConsumerNext ==
    \E w \in Workers : \/ DeliverEvent(w) \/ Acquire(w) \/ FindProcessed(w)
                       \/ ExecuteInTx(w) \/ ExecuteOutside(w) \/ Record(w) \/ LoseAttempt(w)

ConsumerSpec == ConsumerInit /\ [][ConsumerNext]_consumerVars

-----------------------------------------------------------------------------
(* Properties                                                                *)

\* What the two categories promise, whatever is delivered twice, at once or
\* again after a crash: the effect of A is there exactly once if the event is
\* processed and not at all before; B calls the other system at least once
\* before it is processed, and always under one and the same key; no attempt
\* succeeds without.
HandledOnce ==
    /\ category = "A" => effects = IF processed THEN 1 ELSE 0
    /\ category = "B" => Cardinality(keys) <= 1 /\ (processed => keys # {})
    /\ succeeded => processed

-----------------------------------------------------------------------------
(* The inductive invariant                                                   *)

ConsumerTypeOK ==
    /\ category \in {"A", "B"} /\ processed \in BOOLEAN /\ succeeded \in BOOLEAN
    /\ effects \in Nat /\ delivered \in Nat /\ keys \subseteq {0}
    /\ attempt \in [Workers -> [pc : {"idle", "lock", "find", "execute", "record"}, number : Nat]]

\* The advisory lock lets one transaction in, and what that one has found stays
\* true until it ends: nobody else marks the event.
OneHolder      == \A v, w \in Workers : Holding(v) /\ Holding(w) => v = w
FoundStillTrue == \A w \in Workers :
    Holding(w) /\ attempt[w].pc \in {"execute", "record"} => ~processed

\* An attempt of category B records only what it has called for.
CalledFirst == \A w \in Workers : category = "B" /\ Does(w, "record") => keys # {}

ConsumerIInv ==
    /\ ConsumerTypeOK /\ OneHolder /\ FoundStillTrue /\ CalledFirst
    /\ category = "A" => effects = IF processed THEN 1 ELSE 0
    /\ category = "B" /\ processed => keys # {}
    /\ succeeded => processed
=============================================================================
